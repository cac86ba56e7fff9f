-------------------------- MODULE MCParsePipeline --------------------------
(* Values of the constants of ParsePipeline for TLC. *)
EXTENDS ParsePipeline, TLC

CONSTANTS p1, p2

\* The second plan cuts a document into more chunks.
OneOrTwo == (p1 :> 1) @@ (p2 :> 2)
ThreeSlots == 0..2

Budget(reparse, remove, reindex, change, crash) ==
  [e \in Events |-> CASE e = "reparse" -> reparse [] e = "remove" -> remove
                      [] e = "reindex" -> reindex [] e = "plan" -> change
                      [] e = "crash" -> crash]

OneOfEach == Budget(1, 1, 1, 1, 1)

AllPoints == Points
=============================================================================
