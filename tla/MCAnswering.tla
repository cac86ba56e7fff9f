---------------------------- MODULE MCAnswering ----------------------------
(* Values of the constants of Answering for TLC. *)
EXTENDS Answering, TLC

CONSTANTS d1, k1

\* Both calls ask the same knowledge bases, so that they share a cache entry.
InOne == d1 :> k1
AskAll == [q \in Calls |-> Kbs]

Budget(leave, rename, remove, month, error, crash, change, lost) ==
  [e \in Happenings |-> CASE e = "leave" -> leave [] e = "rename" -> rename
                          [] e = "remove" -> remove [] e = "month" -> month
                          [] e = "error" -> error [] e = "crash" -> crash
                          [] e = "change" -> change [] e = "lost" -> lost]

OneOfEach == Budget(1, 1, 1, 1, 1, 1, 1, 1)
UploadOnly == Budget(0, 0, 0, 0, 0, 0, 1, 0)
RenameOnly == Budget(0, 1, 0, 0, 0, 0, 0, 0)

AllPoints == Points
=============================================================================
