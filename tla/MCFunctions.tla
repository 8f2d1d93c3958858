---------------------------- MODULE MCFunctions ----------------------------
(***************************************************************************)
(* The functions of the sequential code against what they mean: a caller   *)
(* calls one after the other, and every invariant looks at the calls of    *)
(* its function, for all inputs over small sets.                           *)
(***************************************************************************)
EXTENDS Diff, LsofReport, TableLayout

CONSTANTS
  EntryKeys, Names, Details,         \* snapshots to compare
  MaxEntries, MaxListing, Workers,   \* what a scan reads, and by how many
  MaxThere, Capacities, MaxCapacity, \* buffers: how many there are, sizes
  Sizes, Heights                     \* of the table and of the terminal

\* Names are compared as numbers; a pool has workers; a table has rows, and a
\* height of any sign in the arithmetic of ints; three calls are enough to
\* double the smallest buffer up to the largest.
ASSUME InputsAssumption ==
  /\ Names \subseteq Int /\ IsFiniteSet(Names)
  /\ MaxEntries \in Nat /\ MaxListing \in Nat /\ Workers \subseteq Nat \ {0}
  /\ Sizes \subseteq Nat /\ Heights \subseteq Int
  /\ MaxCapacity \in Nat \ {0} /\ MaxThere \in Nat
  /\ \A first \in Capacities : first \in Nat \ {0} /\ first * 4 >= MaxCapacity

VARIABLE call

Idle == [function |-> "none"]

----------------------------------------------------------------------------
(* Diff *)

Values == [name : Names, detail : Details]

\* The entries of a key have distinct names: FinalizeSnapshot merges equal ones.
Groups ==
  {g \in SeqOf(Values, Cardinality(Names)) :
     \A i, j \in DOMAIN g : i < j => g[i].name < g[j].name}

CallDiff ==
  \E previous, current \in [EntryKeys -> Groups] :
    call' = [function |-> "diff", previous |-> previous, current |-> current]

\* The diff of a key tells the whole truth: what is reported added or changed
\* is exactly what is new, each entry once; what is reported removed is gone;
\* as many entries are removed or changed as are gone; and no key has both
\* removed and added entries, for those are paired up as changed.
DiffIsExact ==
  call.function = "diff" =>
    \A key \in EntryKeys :
      LET d    == DiffSnapshots(call.previous, call.current)[key]
          gone == ToSet(call.previous[key]) \ ToSet(call.current[key])
          new  == ToSet(call.current[key]) \ ToSet(call.previous[key])
      IN  /\ ToSet(d.changed) \cup ToSet(d.added) = new
          /\ Len(d.changed) + Len(d.added) = Cardinality(new)
          /\ ToSet(d.removed) \subseteq gone
          /\ Len(d.changed) + Len(d.removed) = Cardinality(gone)
          /\ d.removed = <<>> \/ d.added = <<>>

----------------------------------------------------------------------------
(* Snapshots *)

Entry(pid, name, port, protocol, state) ==
  [pid |-> pid, name |-> name, port |-> port, protocol |-> protocol, state |-> state,
   fd_count |-> 1]

\* What ScanPid may read: TCP and UDP sockets of one port, the same process
\* under another name, another process.
ReadEntries ==
  {Entry(1, 1, 80, 0, state) : state \in SocketStates}
    \cup {Entry(1, 2, 80, 0, state) : state \in {"listen", "unknown"}}
    \cup {Entry(1, 1, 80, 1, "unknown"), Entry(2, 1, 53, 1, "unknown")}

\* What lsof may report: names it cut off, a socket libproc did not show.
CachedEntries ==
  {Entry(1, 1, 80, 0, "established"), Entry(1, 3, 80, 1, "unknown"),
   Entry(2, 3, 53, 1, "unknown"), Entry(3, 3, 80, 0, "unknown")}

CallFinalize ==
  \E entries \in SeqOf(ReadEntries, MaxEntries) :
    call' = [function |-> "finalize", entries |-> entries]

\* A final snapshot has every socket that was read, once and in order; with it
\* the number of descriptors read for it and the most telling of the states
\* they were read in, in whatever order they were; and a second pass, as the
\* scanners make after the lsof entries, changes nothing.
FinalizeIsExact ==
  call.function = "finalize" =>
    LET entries == call.entries
        final   == FinalizeSnapshot(entries)
        same(e) == {i \in DOMAIN entries : SameSocket(entries[i], e)}
    IN  /\ {SocketOf(e) : e \in ToSet(final)} = {SocketOf(e) : e \in ToSet(entries)}
        /\ \A i, j \in DOMAIN final : i < j => ShownOrder(final[i], final[j])
        /\ \A e \in ToSet(final) :
             /\ e.fd_count = Cardinality(same(e))
             /\ StatePriority[e.state] = Max({StatePriority[entries[i].state] : i \in same(e)})
        /\ FinalizeSnapshot(final) = final

CallAppend ==
  \E entries \in SeqOf(ReadEntries, 2), cached \in SeqOf(CachedEntries, 2) :
    call' = [function |-> "append", entries |-> entries, cached |-> FinalizeSnapshot(cached)]

\* One source per socket: where libproc showed a socket the snapshot is as
\* libproc had it, whatever lsof calls the process; where it did not, one
\* entry of lsof stands for it.
OneSourcePerSocket ==
  call.function = "append" =>
    LET final     == ScanResult(call.entries, call.cached)
        socket(e) == <<e.pid, e.port, e.protocol>>
        at(s, e)  == Subsequence(s, {i \in DOMAIN s : socket(s[i]) = socket(e)})
    IN  /\ \A e \in ToSet(call.entries) : at(final, e) = at(FinalizeSnapshot(call.entries), e)
        /\ \A c \in ToSet(call.cached) :
             at(call.entries, c) = <<>> =>
               Len(at(final, c)) = 1 /\ at(final, c)[1] \in ToSet(call.cached)
        /\ ToSet(final) \subseteq ToSet(FinalizeSnapshot(call.entries)) \cup ToSet(call.cached)

\* What is read from processes 1 to 3: two sockets, none, two entries of one.
ReadOf == <<<<Entry(1, 1, 80, 0, "established"), Entry(1, 1, 80, 0, "listen")>>, <<>>,
            <<Entry(3, 1, 53, 1, "unknown"), Entry(3, 1, 53, 1, "unknown")>>>>

CallScan ==
  \E pids \in SeqOf(1 .. 3, MaxListing) \ {<<>>}, workers \in Workers :
    call' = [function |-> "scan", pids |-> pids, workers |-> workers]

\* Both scanners return the same snapshot of the same processes, for a listing
\* longer or shorter than the pool, in which a process may be listed twice.
ScannersAgree ==
  call.function = "scan" =>
    \A cached \in {<<>>, <<Entry(2, 3, 53, 1, "unknown")>>} :
      ScanResult(ParallelEntries(call.pids, ReadOf, call.workers), cached)
        = ScanResult(SerialEntries(call.pids, ReadOf), cached)

----------------------------------------------------------------------------
(* Buffers *)

CallList ==
  \E hint \in 0 .. MaxCapacity + 1, first \in Capacities, there \in [1 .. 3 -> 0 .. MaxThere] :
    call' = [function |-> "list", first |-> FdCapacity(hint, first, MaxCapacity), there |-> there]

\* The descriptors ListProcessFds lists are all there were at one call, unless
\* there were more than the largest buffer takes; then it is filled.
FdListingIsComplete ==
  call.function = "list" =>
    LET listed == ListedFds(call.first, MaxCapacity, call.there)
    IN  listed.count = Min({call.there[listed.calls], MaxCapacity})

\* At each call there are some processes, kernel_task among them.
CallListPids ==
  \E first \in Capacities, many \in [1 .. 3 -> 0 .. MaxThere] :
    call' = [function |-> "pids", first |-> first,
             there |-> [i \in 1 .. 3 |-> [k \in 1 .. many[i] |-> k - 1]]]

\* What ListAllPids is named for: the pids it returns are all there were at the
\* call that ended the loop, but for kernel_task, unless there were more than
\* the largest buffer takes.
PidListingIsComplete ==
  call.function = "pids" =>
    LET listed == ListAllPids(call.first, MaxCapacity, call.there)
        there  == call.there[listed.calls]
    IN  Len(there) <= MaxCapacity => ToSet(listed.pids) = ToSet(there) \ {0}

----------------------------------------------------------------------------
(* lsof *)

MCNumeral == ("0" :> 0) @@ ("80" :> 80) @@ ("443" :> 443) @@ ("65535" :> 65535) @@ ("65536" :> 65536)

Hosts == {<<"*">>, <<"[", ":", ":", "1", "]">>}

\* What lsof prints of a socket: only a TCP socket has a state, only a
\* connected one a peer.  One that neither listens nor is connected is closed.
Sockets ==
  {s \in [command : {1}, pid : {0, 1}, protocol : {"TCP", "UDP", "unknown"}, host : Hosts,
          port : DOMAIN Numeral \cup {"*"}, peer : Hosts \cup {<<>>}, peer_port : {"443"},
          state : {"none", "(LISTEN)", "(CLOSED)", "(ESTABLISHED)", "(CLOSE_WAIT)"},
          complete : BOOLEAN] :
     /\ s.state # "none" => s.protocol = "TCP"
     /\ s.state \in {"(LISTEN)", "(CLOSED)"} => s.peer = <<>>
     /\ s.state \in {"(ESTABLISHED)", "(CLOSE_WAIT)"} => s.peer # <<>>}

CallReport == \E s \in Sockets : call' = [function |-> "report", socket |-> s]

StateOf(s) ==
  CASE s.state = "(LISTEN)" -> "listen" [] s.state = "(ESTABLISHED)" -> "established"
    [] OTHER -> "unknown"

\* The sockets whose lines are worth an entry, and the entry.
Reportable(s) ==
  /\ s.complete
  /\ s.protocol # "unknown"
  /\ s.pid > 0
  /\ s.port \in DOMAIN Numeral
  /\ Numeral[s.port] \in 1 .. MaxPort

Expected(s) ==
  [pid |-> s.pid, name |-> s.command, port |-> Numeral[s.port],
   protocol |-> IF s.protocol = "TCP" THEN 0 ELSE 1, state |-> StateOf(s), fd_count |-> 1]

\* An entry made of a line has the local port, never the one of the peer, the
\* protocol and the state that were printed.  There is one for every connected
\* socket and every one of no state that has a port and a process; there is
\* none without a port or a process, and none where a state is printed right
\* behind the local port, be it (LISTEN) or (CLOSED).
LsofIsRead ==
  call.function = "report" =>
    CollectLsofFallback(<<LineOf(call.socket)>>)
      = IF Reportable(call.socket) /\ ~StateBehindPort(call.socket)
        THEN <<Expected(call.socket)>>
        ELSE <<>>

\* What ParseState is there for: a listening socket that lsof reports becomes
\* an entry that says so.
ListenersAreKept ==
  call.function = "report" /\ Reportable(call.socket) /\ call.socket.state = "(LISTEN)" =>
    CollectLsofFallback(<<LineOf(call.socket)>>) = <<Expected(call.socket)>>

----------------------------------------------------------------------------
(* The window of the table *)

CallLayout ==
  \E size \in Sizes, height \in Heights, expanded \in BOOLEAN :
    \E selected_row \in 0 .. size - 1 :
      call' = [function |-> "layout", size |-> size, height |-> height, expanded |-> expanded,
               selected_row |-> selected_row]

\* Wherever the focus is and whatever the height of the terminal, the row of
\* the focus is drawn.
WindowShowsFocus ==
  call.function = "layout" =>
    FocusIsDrawn(call.selected_row, call.size, call.expanded, call.height)

----------------------------------------------------------------------------
Init == call = Idle

Call ==
  \/ CallDiff
  \/ CallFinalize
  \/ CallAppend
  \/ CallScan
  \/ CallList
  \/ CallListPids
  \/ CallReport
  \/ CallLayout

Next ==
  \/ call = Idle /\ Call
  \/ call # Idle /\ call' = Idle

Spec == Init /\ [][Next]_call
=============================================================================
