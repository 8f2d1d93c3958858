------------------------ MODULE MCSnapshotPipeline ------------------------
(* Two processes whose sockets come, change and go.                        *)
EXTENDS SnapshotPipeline

MCGroups == {<<>>, <<"listen">>, <<"established">>}
=============================================================================
