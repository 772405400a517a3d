---------------------------- MODULE MCScheduler ----------------------------
(* Instances of Scheduler: two models compete for the memory.              *)
EXTENDS SchedulerPool, TLC

CONSTANTS a, b, d, q1, q2, q3

\* q1 and q3 ask for model a, q2 for model b.
MCModelOf     == (q1 :> a) @@ (q2 :> b) @@ (q3 :> a)
\* Same options for all, so that q3 can use the runner of q1.
MCSameOpts    == [q \in Requests |-> "o"]
MCKeepAlive   == (q1 :> "finite") @@ (q2 :> "zero") @@ (q3 :> "unset")
MCNameRank    == [m \in Models |-> IF m = a THEN 0 ELSE IF m = b THEN 1 ELSE 2]

\* Three models, one request each.
MCThreeModels == (q1 :> a) @@ (q2 :> b) @@ (q3 :> d)
MCThreeKeeps  == (q1 :> "infinite") @@ (q2 :> "zero") @@ (q3 :> "zero")
=============================================================================
