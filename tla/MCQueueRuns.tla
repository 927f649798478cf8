------------------------------ MODULE MCQueueRuns ------------------------------
(* TLC instances of QueueRuns: one queue, or two of which the downloads in     *)
(* Elsewhere belong to the second.                                             *)
EXTENDS QueueRuns, TLC

CONSTANTS Elsewhere, PerQueue

MCQueues == IF Elsewhere = {} THEN {"main"} ELSE {"main", "other"}
MCQueueOf == [j \in Jobs |-> IF j \in Elsewhere THEN "other" ELSE "main"]
MCQueueCap == [q \in MCQueues |-> PerQueue]

Symmetry == Permutations(Users) \cup Permutations(Jobs \ (Elsewhere \cup Unlisted))
===============================================================================
