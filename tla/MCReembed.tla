----------------------------- MODULE MCReembed -----------------------------
(* Values of the constants of Reembed for TLC. *)
EXTENDS Reembed, TLC

CONSTANTS c1, c2, c3

\* Two channels of one dimension, between which a run replaces the vectors one
\* document after the other, and one of another dimension, to and from which it
\* clears all vectors first.
Dims == [c \in Channels |-> IF c = c3 THEN 2 ELSE 1]

Budget(trigger, crash, error, restart, reparse) ==
  [e \in Events |-> CASE e = "trigger" -> trigger [] e = "crash" -> crash
                      [] e = "error" -> error [] e = "restart" -> restart
                      [] e = "reparse" -> reparse]

AllFaults == Budget(2, 1, 1, 1, 1)
PromptService == Budget(2, 1, 0, 0, 1)
StallsOnly == Budget(1, 0, 0, 0, 0)

AllPoints == Points
BeforeOrAfterClaim == Points \ {"claim"}

Symmetry == Permutations(Docs) \cup Permutations(Workers) \cup Permutations(Requests)
              \cup Permutations({c1, c2})
=============================================================================
