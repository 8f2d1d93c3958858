----------------------------- MODULE LsofReport -----------------------------
(***************************************************************************)
(* CollectLsofFallback of src/scanner/lsof_fallback.cpp: what is made of   *)
(* the lines of lsof.                                                      *)
(*                                                                         *)
(* A line, of those after the header, is a record of the columns that are  *)
(* used; it is complete when all of them are there, and its pid is 0 also  *)
(* when the text of the column is no number.  Its name, the rest of the    *)
(* line, is a sequence of tokens: a colon, an arrow, a space, a state in   *)
(* parentheses, a numeral, and anything else.  How a command is decoded is *)
(* left out.                                                               *)
(***************************************************************************)
EXTENDS ScanSupport

CONSTANT Numeral  \* the value of each token that consists of digits

ASSUME NumeralAssumption ==
  \A token \in DOMAIN Numeral :
    /\ Numeral[token] \in Nat
    /\ token \notin {":", "->", "(LISTEN)", "(ESTABLISHED)"}

States == [listen |-> "(LISTEN)", established |-> "(ESTABLISHED)"]

Places(name, token) == {i \in DOMAIN name : name[i] = token}

ParseState(name) ==
  IF Places(name, States.listen) # {} THEN "listen"
  ELSE IF Places(name, States.established) # {} THEN "established"
  ELSE "unknown"

\* Everything before the first arrow.  The slip: all of the name.
LocalSlip(name) == name
Local(name) ==
  SubSeq(name, 1, Min({i - 1 : i \in Places(name, "->")} \cup {Len(name)}))

MaxPort == 65535

\* The text after the last colon is the port, if the whole of it is a number.
PortText(local) == SubSeq(local, Max(Places(local, ":") \cup {0}) + 1, Len(local))

IsPort(text) ==
  /\ Len(text) = 1
  /\ ToSet(text) \subseteq DOMAIN Numeral
  /\ Numeral[text[1]] \in 1 .. MaxPort

\* 0 for none.
ParseLocalPort(name) ==
  IF Places(Local(name), ":") # {} /\ IsPort(PortText(Local(name)))
  THEN Numeral[PortText(Local(name))[1]]
  ELSE 0

Skipped(line) ==
  \/ ~line.complete
  \/ line.protocol = "unknown"
  \/ ParseLocalPort(line.name) = 0
  \/ line.pid <= 0

\* The entry of one line, if it is kept.
EntryOf(line) ==
  IF Skipped(line) THEN <<>>
  ELSE <<[pid |-> line.pid, name |-> line.command, port |-> ParseLocalPort(line.name),
          protocol |-> IF line.protocol = "TCP" THEN 0 ELSE 1,
          state |-> ParseState(line.name), fd_count |-> 1]>>

CollectLsofFallback(lines) ==
  FinalizeSnapshot(FlattenSeq([i \in DOMAIN lines |-> EntryOf(lines[i])]))

----------------------------------------------------------------------------
(* What lsof prints (external): the local address, the peer of a connected *)
(* socket, the state of a TCP socket.  Without a peer, the state comes     *)
(* right behind the local port.                                            *)

Address(host, port) == host \o <<":", port>>

Printed(s) ==
  Address(s.host, s.port)
    \o (IF s.peer = <<>> THEN <<>> ELSE <<"->">> \o Address(s.peer, s.peer_port))
    \o (IF s.state = "none" THEN <<>> ELSE <<"space", s.state>>)

StateBehindPort(s) == s.peer = <<>> /\ s.state # "none"

LineOf(s) ==
  [command |-> s.command, pid |-> s.pid, protocol |-> s.protocol, name |-> Printed(s),
   complete |-> s.complete]
=============================================================================
