---------------------------- MODULE ScanSupport ----------------------------
(***************************************************************************)
(* src/scanner/scanner_support.cpp, the loop of serial_scanner.cpp and the *)
(* appending of lsof_fallback.cpp: the sequential part of a scan, as       *)
(* functions.                                                              *)
(*                                                                         *)
(* A socket entry is a record with the members of SocketEntry.  Names and  *)
(* protocols are numbers, for the code only compares them.                 *)
(***************************************************************************)
EXTENDS Sorting, FiniteSetsExt, SequencesExt

SocketStates == {"listen", "established", "unknown"}

\* The order of the enumeration, and the one of the merge.
StateRank == [listen |-> 0, established |-> 1, unknown |-> 2]
StatePriority == [listen |-> 2, established |-> 1, unknown |-> 0]

\* The entries of one socket, whose state does not tell them apart.
SocketOf(e) == <<e.pid, e.name, e.port, e.protocol>>
SameSocket(a, b) == SocketOf(a) = SocketOf(b)

\* Lexicographic order of tuples of numbers of equal length.
LexLess(s, t) ==
  \E i \in DOMAIN s : s[i] < t[i] /\ \A j \in 1 .. i - 1 : s[j] = t[j]

\* The comparison of the first sort.  The slip: the protocol is not compared,
\* so the entries of a socket need not be next to each other.
ScanOrderSlip(a, b) ==
  LexLess(<<a.pid, a.name, a.port, StateRank[a.state]>>,
          <<b.pid, b.name, b.port, StateRank[b.state]>>)
ScanOrder(a, b) ==
  LexLess(<<a.pid, a.name, a.port, a.protocol, StateRank[a.state]>>,
          <<b.pid, b.name, b.port, b.protocol, StateRank[b.state]>>)

\* The comparison of the last sort.
ShownOrder(a, b) ==
  LexLess(<<a.port, a.pid, a.name, a.protocol>>, <<b.port, b.pid, b.name, b.protocol>>)

\* existing takes in entry e of the same socket.
Absorb(existing, e) ==
  [existing EXCEPT
     !.fd_count = @ + e.fd_count,
     !.state = IF StatePriority[e.state] > StatePriority[@] THEN e.state ELSE @]

\* The loop over the sorted entries, and what it does with one of them.
Compact(done, e) ==
  IF done = <<>> \/ ~SameSocket(Last(done), e) THEN Append(done, e)
  ELSE [done EXCEPT ![Len(done)] = Absorb(@, e)]

Compacted(entries) == FoldLeft(LAMBDA done, e : Compact(done, e), <<>>, entries)

FinalizeSnapshot(entries) ==
  Sorted(Compacted(Sorted(entries, ScanOrder)), ShownOrder)

----------------------------------------------------------------------------
(* The lsof entries *)

\* The name is not compared: lsof cuts it off where libproc does not.  The
\* slip compares it.
HasSocketSlip(entries, c) == \E i \in DOMAIN entries : SameSocket(entries[i], c)
HasSocket(entries, c) ==
  \E i \in DOMAIN entries :
    /\ entries[i].pid = c.pid
    /\ entries[i].port = c.port
    /\ entries[i].protocol = c.protocol

AppendFallbackEntry(done, e) == IF HasSocket(done, e) THEN done ELSE Append(done, e)

AppendFallbackEntries(entries, cached) ==
  FoldLeft(LAMBDA done, e : AppendFallbackEntry(done, e), entries, cached)

\* How Scan ends, given what was read and what the cache holds.
ScanResult(entries, cached) ==
  FinalizeSnapshot(AppendFallbackEntries(FinalizeSnapshot(entries), cached))

----------------------------------------------------------------------------
(* The two scanners, given what ScanPid reads from each process *)

SerialEntries(pids, read) == FlattenSeq([i \in DOMAIN pids |-> read[pids[i]]])

\* The places worker w of n takes, in ascending order.  The slip: the last place
\* is left to nobody.
StridePlacesSlip(pids, w, n) ==
  {i \in DOMAIN pids : i % n = w % n /\ i < Len(pids)}
StridePlaces(pids, w, n) == {i \in DOMAIN pids : i % n = w % n}

WorkerEntries(pids, read, w, n) ==
  SerialEntries(Subsequence(pids, StridePlaces(pids, w, n)), read)

\* The buffers of the active workers, one after the other.
ParallelEntries(pids, read, workers) ==
  LET active == Min({workers, Len(pids)})
  IN  FlattenSeq([w \in 1 .. active |-> WorkerEntries(pids, read, w, active)])

----------------------------------------------------------------------------
(* ListAllPids and ListProcessFds: a buffer that grows *)

\* With what capacity ListProcessFds begins.
FdCapacity(hint, fallback, max) == Min({Max({hint, fallback}), max})

\* The capacity of the call after i calls with full buffers.
Capacity(first, max, i) ==
  LET capacity[k \in Nat] == IF k = 0 THEN first ELSE Min({capacity[k - 1] * 2, max})
  IN  capacity[i]

\* A call with this capacity ends the loop when it filled that much.  The
\* slip takes a full buffer for a complete one.
IsCompleteSlip(filled, capacity, max) == filled <= capacity \/ capacity = max
IsComplete(filled, capacity, max) == filled < capacity \/ capacity = max

\* The call that ends the loop and how many elements are kept, given how many
\* there are at each call: none when a call fails (there are none at it), and
\* never more than the buffer takes.  The loop divides what the call returns;
\* unit is what is left of that divisor when the elements are counted.
Listed(first, max, there, unit) ==
  LET filled(i) == Min({there[i], Capacity(first, max, i - 1)})
      kept(i)   == filled(i) \div unit
      ends      == {i \in DOMAIN there :
                      filled(i) = 0 \/ IsComplete(kept(i), Capacity(first, max, i - 1), max)}
  IN  [calls |-> Min(ends), count |-> kept(Min(ends))]

\* proc_pidinfo returns bytes, and ListProcessFds divides them by the size of
\* an element.
ListedFds(first, max, there) == Listed(first, max, there, 1)

\* proc_listallpids returns the number of pids, and ListAllPids divides it by
\* sizeof(int) all the same.
SizeOfPid == 4

\* there is what could be listed at each call; pid 0 is left out.
ListAllPids(first, max, there) ==
  LET listed == Listed(first, max, [i \in DOMAIN there |-> Len(there[i])], SizeOfPid)
      kept   == SubSeq(there[listed.calls], 1, listed.count)
  IN  [calls |-> listed.calls, pids |-> SelectSeq(kept, LAMBDA pid : pid # 0)]
=============================================================================
