---------------------------- MODULE MCConversation ----------------------------
(* ConversationQueue for TLC: texts and answers are interchangeable.       *)
EXTENDS ConversationQueue, TLC

Symmetry == Permutations(Posted) \cup Permutations(Enqueued) \cup Permutations(Bodies)

\* Everything that may happen besides messages and runs.
AllEvents == {"cancel", "archive", "fail"}
===============================================================================
