-------------------------- MODULE MCProcessKiller --------------------------
(* Batches as the table makes them: one process, and several with one of   *)
(* them twice, porTUI itself (2) and a pid that is dropped.                *)
EXTENDS ProcessKiller

MCBatches == {<<1>>, <<2, 1, -1, 1>>}
=============================================================================
