-------------------------- MODULE MCSeededPublish --------------------------
(* Instances of SeededPublish for TLC: the processes are alike, and so are *)
(* the conversations.                                                      *)
EXTENDS SeededPublish, TLC

Alike == Permutations(Process) \cup Permutations(Conversation)

=============================================================================
