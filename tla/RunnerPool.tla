----------------------------- MODULE RunnerPool -----------------------------
(***************************************************************************)
(* What the scheduler of server/sched.go promises, without its channels,   *)
(* locks and goroutines: a pool of at most MaxRunners runners, at most one *)
(* per model, and a queue of requests served one after the other, in the   *)
(* order in which they were asked.  A request that finds the runner of its *)
(* model in the pool need not queue.  Every request is answered at most    *)
(* once, with the runner that is in the pool at that moment, and a runner  *)
(* leaves the pool only when nobody uses it and nobody waits for its load. *)
(*                                                                         *)
(* Runners are named by the request that loads them.                       *)
(***************************************************************************)
EXTENDS Integers, Sequences, FiniteSets

CONSTANTS Models, Requests, None, ModelOf, MaxRunners, MaxQueue

VARIABLES
    server,   \* [Models -> Requests \cup {None}], the pool
    answer,   \* per request: "new", "waiting", "err" or the runner it was given
    left,     \* the requests that are over
    queue,    \* the requests waiting to be served, the one in work first
    sound     \* the promise stands: nothing was handed out while being unloaded

pool == <<server, answer, left, queue, sound>>

Init ==
    /\ server = [m \in Models |-> None]
    /\ answer = [q \in Requests |-> "new"]
    /\ left = {} /\ queue = <<>> /\ sound = TRUE

Filled == {m \in Models : server[m] # None}
Unused(r) == answer[r] # "waiting" /\ \A q \in Requests \ left : answer[q] # r
First(q) == queue # <<>> /\ q = Head(queue)

Answers(q, a) == answer' = [answer EXCEPT ![q] = a]

\* The request is queued, or turned away by a full queue.
Ask(q) ==
    /\ answer[q] = "new"
    /\ \/ /\ Len(queue) <= MaxQueue
          /\ queue' = Append(queue, q) /\ Answers(q, "waiting")
       \/ /\ Len(queue) >= MaxQueue
          /\ Answers(q, "err") /\ UNCHANGED queue
    /\ UNCHANGED <<server, left, sound>>

\* The runner in the pool is handed out, to a request that has just come or to
\* the first of the queue.
Grant(q) ==
    /\ server[ModelOf[q]] # None
    /\ Answers(q, server[ModelOf[q]])
    /\ \/ answer[q] = "new" /\ UNCHANGED queue
       \/ First(q) /\ queue' = Tail(queue)
    /\ UNCHANGED <<server, left, sound>>

\* The first of the queue gets a runner of its own, which still has to load.
Load(q) ==
    /\ First(q) /\ server[ModelOf[q]] = None
    /\ Cardinality(Filled) < MaxRunners
    /\ server' = [server EXCEPT ![ModelOf[q]] = q]
    /\ queue' = Tail(queue)
    /\ UNCHANGED <<answer, left, sound>>

\* The load ends: the request that asked for it is answered first.
Loaded(q) ==
    /\ server[ModelOf[q]] = q /\ answer[q] = "waiting"
    /\ Answers(q, q) \/ Answers(q, "err")
    /\ UNCHANGED <<server, left, queue, sound>>

\* The first of the queue cannot be served.
Refuse(q) ==
    /\ First(q) /\ Answers(q, "err")
    /\ queue' = Tail(queue)
    /\ UNCHANGED <<server, left, sound>>

\* The first of the queue is over before it was looked at.
Skip(q) ==
    /\ First(q) /\ q \in left
    /\ queue' = Tail(queue)
    /\ UNCHANGED <<server, answer, left, sound>>

Leave(q) ==
    /\ q \notin left /\ left' = left \cup {q}
    /\ UNCHANGED <<server, answer, queue, sound>>

Unload(m) ==
    /\ server[m] # None /\ Unused(server[m])
    /\ server' = [server EXCEPT ![m] = None]
    /\ UNCHANGED <<answer, left, queue, sound>>

\* A runner is handed out while it is being unloaded, or shutdown begins: no
\* runner leaves the pool by that, and nothing is promised any more.
Breaks == sound /\ sound' = FALSE /\ UNCHANGED server
Broken == ~sound /\ sound' = FALSE

Next ==
    \/ \E q \in Requests : \/ Ask(q) \/ Grant(q) \/ Load(q) \/ Loaded(q)
                           \/ Refuse(q) \/ Skip(q) \/ Leave(q)
    \/ \E m \in Models : Unload(m)
    \/ Breaks \/ Broken

Spec == Init /\ [][Next]_pool
=============================================================================
