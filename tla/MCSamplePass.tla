---------------------------- MODULE MCSamplePass ----------------------------
(* One pid, that processes use one after the other. *)
EXTENDS SamplePass
=============================================================================
