------------------------- MODULE MCRequestPipeline -------------------------
(* RequestPipeline with a few requests and pools of one worker.            *)
EXTENDS RequestPipeline, TLC

Symmetry == Permutations(Requests)

=============================================================================
