---------------------------- MODULE SchedulerPool ----------------------------
(***************************************************************************)
(* Scheduler implements RunnerPool.  The place of a request in the queue   *)
(* is held by the channel and, from its receipt to the end of its attempts *)
(* to load, by processPending; the handler's two looks at a loaded runner, *)
(* the search for a victim, the events of expiry and unload and the timers *)
(* are steps the pool does not see.                                        *)
(***************************************************************************)
EXTENDS Scheduler

\* A runner is told from what stands for the lack of one: the channels of a
\* request, successCh and errCh, carry values of different types.
ASSUME RunnersAreNoWords == {"new", "waiting", "err"} \cap Requests = {}

AnswerOf(q) ==
    IF request[q].phase \notin {"waiting", "done"} THEN "new"
    ELSE CASE request[q].reply = "none" -> "waiting"
           [] request[q].reply = "err"  -> "err"
           [] request[q].reply = "ok"   -> request[q].ref

InWork == IF p.pc \in {"idle", "stopped", "panic"} THEN <<>> ELSE <<p.req>>

\* What the pool sees of the scheduler.
Answer == [q \in Requests |-> AnswerOf(q)]
Left   == {q \in Requests : request[q].ctxDone}
Queue  == InWork \o pendingReqCh
Sound  == NoStaleHandout /\ down = "up"

Pool == INSTANCE RunnerPool WITH
            server <- loaded, answer <- Answer, left <- Left, queue <- Queue, sound <- Sound

\* The scheduler is such a pool: requests that need a load are served in the
\* order in which they were queued whatever evictions, retries and out-of-memory
\* failures one of them goes through (getRunner and processPending), each is
\* answered once and with a runner that is loaded when it is answered, and no
\* runner leaves the pool while it loads or is in use.
ImplementsPool == Pool!Spec
=============================================================================
