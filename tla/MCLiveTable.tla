---------------------------- MODULE MCLiveTable ----------------------------
(* The processes ssh (1), sshd (2) and ntpd (3): in three snapshots all of  *)
(* them, without sshd, and without ntpd, each time with other loads.        *)
EXTENDS LiveTable

MCNames == <<<<"n", "t", "p", "d">>, <<"s", "s", "h">>, <<"s", "s", "h", "d">>>>

Data(name, cpu, ports) ==
  [name |-> name, metric |-> [cpu |-> cpu, ram |-> 1, ports |-> ports, listeners |-> 0]]

MCSnapshots ==
  {1 :> Data(2, 0, 1) @@ 2 :> Data(3, 5, 1) @@ 3 :> Data(1, 1, 2),
   1 :> Data(2, 9, 1) @@ 3 :> Data(1, 1, 1),
   1 :> Data(2, 9, 2) @@ 2 :> Data(3, 9, 1)}

\* For the kills: both processes have sockets, or only the second, so that
\* either can be marked and neither stays.
MCTwoProcesses ==
  {1 :> Data(1, 1, 1) @@ 2 :> Data(2, 2, 1), 2 :> Data(2, 2, 1)}

MCOneProcess == {1 :> Data(2, 1, 1)}

\* Two of the five sort modes and two of the three themes.
MCSortModes == <<"name", "cpu">>
MCThemes == <<"cozy", "rose_pine">>
=============================================================================
