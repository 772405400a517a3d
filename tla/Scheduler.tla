----------------------------- MODULE Scheduler -----------------------------
(***************************************************************************)
(* The model scheduler of server/sched.go: HTTP handlers that ask for a    *)
(* runner, the loop that loads models and evicts others to make room       *)
(* (processPending, here P), the loop that counts finished requests and    *)
(* unloads runners (processCompleted, here C), the goroutines of loads,    *)
(* expiry timers and retries, and the callers that expire runners.         *)
(*                                                                         *)
(* A request installs at most one runner, because installing it ends the   *)
(* request's stay in P; so a runner is named by the request that loaded it *)
(* and plays the part of both the *runnerRef and the process id.           *)
(*                                                                         *)
(* loadedMu is never held across a blocking call that another goroutine    *)
(* can observe, so a loadedMu section is one step.  A runner's refMu is    *)
(* held across sends and waits, so it is a field with its holder.          *)
(***************************************************************************)
EXTENDS Integers, Sequences, FiniteSets

CONSTANTS
    Models,            \* scheduler keys of the models (schedulerModelKey)
    Requests,          \* one LlmRequest each; also the names of the runners
    None,              \* Go's nil
    ModelOf,           \* [Requests -> Models]
    OptsOf,            \* [Requests -> runner options], compared by needsReload
    KeepAliveOf,       \* [Requests -> KeepAlives \cup {"unset"}]
    DefaultKeepAlive,  \* OLLAMA_KEEP_ALIVE
    NameRank,          \* [Models -> Nat], the lexical order of the keys
    MLX,               \* models served by the MLX or image runners
    AutoCtx,           \* requests whose context an OOM can reduce (numCtxAuto)
    HasGPU,            \* whether a GPU list is refreshed before a load
    MaxRunners,        \* OLLAMA_MAX_LOADED_MODELS, or 3 per GPU
    MaxQueue,          \* OLLAMA_MAX_QUEUE, the capacity of every channel
    RefMod,            \* refCount is an unsigned integer modulo RefMod
    MayCancel,         \* requests whose client may disconnect
    MaxExpires,        \* bound: calls of expireRunner and of the runtime OOM path
    MaxCrashes,        \* bound: runner processes that die on their own
    MayShutdown        \* whether a shutdown signal may arrive

KeepAlives == {"zero", "finite", "infinite"}

ASSUME SchedulerAssumption ==
    /\ IsFiniteSet(Requests) /\ IsFiniteSet(Models) /\ None \notin Requests
    /\ ModelOf \in [Requests -> Models]
    /\ KeepAliveOf \in [Requests -> KeepAlives \cup {"unset"}]
    /\ DefaultKeepAlive \in KeepAlives
    /\ NameRank \in [Models -> Nat]
    /\ MaxRunners \in Nat \ {0} /\ MaxQueue \in Nat \ {0}
    /\ RefMod \in Nat /\ RefMod > Cardinality(Requests)
    /\ MLX \subseteq Models /\ AutoCtx \subseteq Requests /\ MayCancel \subseteq Requests
    /\ MaxExpires \in Nat /\ MaxCrashes \in Nat
    /\ HasGPU \in BOOLEAN /\ MayShutdown \in BOOLEAN

VARIABLES
    request,        \* per request: its handler, its context and its reply channels
    runner,         \* per runner: the runnerRef and the state of its process
    loaded,         \* the map from model key to runner
    activeLoading,  \* the server being loaded, named by its request
    pendingReqCh,   \* channel of requests to P
    expiredCh,      \* channel of expired runners to C
    unloadedCh,     \* number of events in the channel of unloads to P
    p,              \* processPending
    c,              \* processCompleted
    x,              \* the callers of expireRunner and expireRunnersForRuntimeOOM
    crashes,        \* crashes so far
    down            \* progress of the shutdown goroutine

channels == <<pendingReqCh, expiredCh, unloadedCh>>
outside  == <<x, crashes, down>>
vars     == <<request, runner, loaded, activeLoading, channels, p, c, outside>>

Runners == Requests

Request == [phase    : {"new", "check", "use", "enqueue", "waiting", "done"},
            ref      : Requests \cup {None},  \* runner looked up, later handed out
            reply    : {"none", "ok", "err"}, \* successCh and errCh
            ctxDone  : BOOLEAN,
            watch    : {"none", "armed", "sent"},
            oomRetry : BOOLEAN]

Runner == [refCount : 0 .. (RefMod - 1),
           session  : KeepAlives,
           timer    : {"nil", "running", "fired"},
           fired    : Nat,   \* timer goroutines that wait for refMu or send
           retry    : Nat,   \* goroutines that will send the runner to expiredCh again
           refMu    : {"free", "loader", "failed", "P", "C", "X", "timer"},
           server   : {"none", "live", "crashed", "closed"},
           valid    : BOOLEAN]  \* Options # nil

LoadedRunners == {r \in Runners : loaded[ModelOf[r]] = r}
LoadedModels  == {m \in Models : loaded[m] # None}

Init ==
    /\ request = [q \in Requests |->
                    [phase |-> "new", ref |-> None, reply |-> "none",
                     ctxDone |-> FALSE, watch |-> "none", oomRetry |-> FALSE]]
    /\ runner = [r \in Runners |->
                    [refCount |-> 0, session |-> DefaultKeepAlive, timer |-> "nil",
                     fired |-> 0, retry |-> 0, refMu |-> "free", server |-> "none",
                     valid |-> FALSE]]
    /\ loaded = [m \in Models |-> None]
    /\ activeLoading = None
    /\ pendingReqCh = <<>> /\ expiredCh = <<>> /\ unloadedCh = 0
    /\ p = [pc |-> "idle", req |-> None, target |-> None, todo |-> {},
            order |-> <<>>, left |-> 0, full |-> FALSE]
    /\ c = [pc |-> "idle", runner |-> None]
    /\ x = [todo |-> {}, sending |-> None, calls |-> 0]
    /\ crashes = 0
    /\ down = "up"

----------------------------------------------------------------------------
(* Steps shared by several goroutines.                                     *)

\* The reload test, made holding refMu.  A ping fails on a dead process and
\* when the context it is given, the caller's, is over.
NeedsReload(r, q, ctxOver) ==
    \/ ~runner[r].valid
    \/ ModelOf[q] \notin MLX /\ OptsOf[r] # OptsOf[q]
    \/ runner[r].server # "live"
    \/ ctxOver

\* The runner is handed to the request and a goroutine will report its end.
UseLoadedRunner(q, r) ==
    /\ runner[r].refMu = "free"
    /\ runner' = [runner EXCEPT ![r] = [@ EXCEPT
                    !.refCount = (runner[r].refCount + 1) % RefMod,
                    !.timer    = "nil",
                    !.session  = IF KeepAliveOf[q] = "unset" THEN runner[r].session
                                                             ELSE KeepAliveOf[q]]]
    /\ request' = [request EXCEPT ![q] = [@ EXCEPT
                    !.phase = "waiting", !.ref = r, !.reply = "ok", !.watch = "armed"]]

Reply(q, kind) == request' = [request EXCEPT ![q].reply = kind]

\* Four callers mark a runner for unloading in the same way: they stop its
\* timer, zero its session and, if it is idle, send it holding refMu.
MarkExpired(r, holder) ==
    /\ runner[r].refMu = "free"
    /\ runner' = [runner EXCEPT ![r] = [@ EXCEPT
                    !.timer   = "nil",
                    !.session = "zero",
                    !.refMu   = IF runner[r].refCount = 0 THEN holder ELSE "free"]]

SendExpired(r) ==
    /\ Len(expiredCh) < MaxQueue
    /\ expiredCh' = Append(expiredCh, r)
    /\ UNCHANGED <<pendingReqCh, unloadedCh>>

\* The critical section that began with MarkExpired (or a failed load) ends.
SendAndUnlock(r, holder) ==
    /\ runner[r].refMu = holder
    /\ SendExpired(r)
    /\ runner' = [runner EXCEPT ![r].refMu = "free"]

\* Mutant of Idle: the count is not looked at.
IdleAlways(r) == r \in Runners

Idle(r) == runner[r].refCount = 0

\* unload(): the process is stopped and the reference emptied.
Unload(r, lock) ==
    runner' = [runner EXCEPT ![r] = [@ EXCEPT !.timer = "nil", !.server = "closed",
                                              !.valid = FALSE, !.refMu  = lock]]

----------------------------------------------------------------------------
(* A handler: scheduleRunner calls getRunner and waits for its channels.   *)

\* getRunner reads the map under loadedMu and lets the lock go.
HLookup(q) ==
    /\ request[q].phase = "new"
    /\ LET r == loaded[ModelOf[q]] IN
       request' = [request EXCEPT ![q] = [@ EXCEPT
                     !.ref = r, !.phase = IF r = None THEN "enqueue" ELSE "check"]]
    /\ UNCHANGED <<runner, loaded, activeLoading, channels, p, c, outside>>

HCheck(q) ==
    /\ request[q].phase = "check"
    /\ runner[request[q].ref].refMu = "free"
    /\ request' = [request EXCEPT ![q].phase =
                     IF NeedsReload(request[q].ref, q, request[q].ctxDone)
                     THEN "enqueue" ELSE "use"]
    /\ UNCHANGED <<runner, loaded, activeLoading, channels, p, c, outside>>

\* refMu was released after the check: the runner may have changed since.
HUse(q) ==
    /\ request[q].phase = "use"
    /\ UseLoadedRunner(q, request[q].ref)
    /\ UNCHANGED <<loaded, activeLoading, channels, p, c, outside>>

\* The non-blocking send to pendingReqCh, or ErrMaxQueue.
HEnqueue(q) ==
    /\ request[q].phase = "enqueue"
    /\ request' = [request EXCEPT ![q] = [@ EXCEPT
                     !.phase = "waiting",
                     !.reply = IF Len(pendingReqCh) < MaxQueue THEN "none" ELSE "err"]]
    /\ pendingReqCh' = IF Len(pendingReqCh) < MaxQueue
                       THEN Append(pendingReqCh, q) ELSE pendingReqCh
    /\ UNCHANGED <<runner, loaded, activeLoading, expiredCh, unloadedCh, p, c, outside>>

\* The handler got an error, or a runner that it now stops using, and
\* returns: the server cancels the request's context.
HFinish(q) ==
    /\ request[q].phase = "waiting" /\ request[q].reply # "none"
    /\ request' = [request EXCEPT ![q] = [@ EXCEPT !.phase = "done", !.ctxDone = TRUE]]
    /\ UNCHANGED <<runner, loaded, activeLoading, channels, p, c, outside>>

\* The client disconnects.  scheduleRunner goes on waiting for its channels.
HCancel(q) ==
    /\ q \in MayCancel /\ request[q].phase \notin {"new", "done"}
    /\ ~request[q].ctxDone
    /\ request' = [request EXCEPT ![q].ctxDone = TRUE]
    /\ UNCHANGED <<runner, loaded, activeLoading, channels, p, c, outside>>

----------------------------------------------------------------------------
(* processPending.                                                         *)

PRecv ==
    /\ p.pc = "idle" /\ pendingReqCh # <<>>
    /\ LET q == Head(pendingReqCh) IN
       p' = IF request[q].ctxDone THEN p ELSE [p EXCEPT !.pc = "top", !.req = q]
    /\ pendingReqCh' = Tail(pendingReqCh)
    /\ UNCHANGED <<request, runner, loaded, activeLoading, expiredCh, unloadedCh, c, outside>>

PIgnoreUnload ==
    /\ p.pc = "idle" /\ unloadedCh > 0
    /\ unloadedCh' = unloadedCh - 1
    /\ UNCHANGED <<request, runner, loaded, activeLoading, pendingReqCh, expiredCh, p, c, outside>>

\* Mutant of AtCapacity: off by one.
AtCapacityLate(count) == count > MaxRunners

AtCapacity(count) == count >= MaxRunners

\* The head of the inner loop, with its snapshot of the map.
PTop ==
    /\ p.pc = "top"
    /\ LET r == loaded[ModelOf[p.req]]
           count == Cardinality(LoadedModels)
       IN p' = [p EXCEPT !.target = r,
                         !.full   = count > 0,
                         !.pc     = IF r # None THEN "check"
                                    ELSE IF AtCapacity(count) THEN "list" ELSE "space"]
    /\ UNCHANGED <<request, runner, loaded, activeLoading, channels, c, outside>>

\* The reload test of P runs under the scheduler's context, not the request's.
PCheck ==
    /\ p.pc = "check" /\ runner[p.target].refMu = "free"
    /\ p' = [p EXCEPT !.pc = IF NeedsReload(p.target, p.req, down # "up")
                             THEN "expire" ELSE "use"]
    /\ UNCHANGED <<request, runner, loaded, activeLoading, channels, c, outside>>

PUse ==
    /\ p.pc = "use"
    /\ UseLoadedRunner(p.req, p.target)
    /\ p' = [p EXCEPT !.pc = "idle"]
    /\ UNCHANGED <<loaded, activeLoading, channels, c, outside>>

\* updateFreeSpace returns at once without GPUs; with them it takes the lock
\* of every loaded runner in turn, and so waits for loads still running.
PSpace ==
    /\ p.pc = "space"
    /\ p' = [p EXCEPT !.pc = "sum", !.todo = IF HasGPU THEN LoadedRunners ELSE {}]
    /\ UNCHANGED <<request, runner, loaded, activeLoading, channels, c, outside>>

PSum ==
    /\ p.pc = "sum"
    /\ \/ /\ p.todo = {}
          /\ p' = [p EXCEPT !.pc = "create"]
       \/ \E r \in p.todo :
             /\ runner[r].refMu = "free"
             /\ p' = [p EXCEPT !.todo = @ \ {r}]
    /\ UNCHANGED <<request, runner, loaded, activeLoading, channels, c, outside>>

\* load returned true.  With nothing loaded when the attempt began the loop
\* just tries again; after an OOM every other model goes; else one model goes.
AfterNeedEvict(retriedOOM) ==
    IF ~p.full THEN "top" ELSE IF retriedOOM THEN "evictAll" ELSE "list"

\* First part of load, under loadedMu: create the server, or keep the one
\* whose load was interrupted to make room.
PCreate ==
    /\ p.pc = "create"
    /\ \/ /\ activeLoading = None
          /\ activeLoading' = p.req
          /\ runner' = [runner EXCEPT ![p.req].server = "live"]
       \/ /\ activeLoading # None
          /\ UNCHANGED <<runner, activeLoading>>
    /\ p' = [p EXCEPT !.pc = "load"]
    /\ UNCHANGED <<request, loaded, channels, c, outside>>

\* The metadata cannot be read or the server cannot be created.
PCreateFails ==
    /\ p.pc = "create" /\ activeLoading = None
    /\ Reply(p.req, "err")
    /\ p' = [p EXCEPT !.pc = "idle"]
    /\ UNCHANGED <<runner, loaded, activeLoading, channels, c, outside>>

\* The prediction says the model does not fit next to the loaded ones.
PPreflight ==
    /\ p.pc = "create" /\ activeLoading = None
    /\ p.full /\ HasGPU /\ LoadedModels # {} /\ ModelOf[p.req] \notin MLX
    /\ p' = [p EXCEPT !.pc = AfterNeedEvict(request[p.req].oomRetry)]
    /\ UNCHANGED <<request, runner, loaded, activeLoading, channels, c, outside>>

\* Load: the runner is installed in the map, locked by its loader.
PInstall ==
    /\ p.pc = "load"
    /\ runner' = [runner EXCEPT ![p.req] = [@ EXCEPT
                    !.refMu   = "loader",
                    !.valid   = TRUE,
                    !.session = IF KeepAliveOf[p.req] = "unset"
                                THEN DefaultKeepAlive ELSE KeepAliveOf[p.req]]]
    /\ loaded' = [loaded EXCEPT ![ModelOf[p.req]] = p.req]
    /\ activeLoading' = None
    /\ p' = [p EXCEPT !.pc = "idle"]
    /\ UNCHANGED <<request, channels, c, outside>>

\* ErrLoadRequiredFull, which only the MLX and image runners return, and only
\* when asked for a full load: activeLoading stays for the next attempt.
PRequiredFull ==
    /\ p.pc = "load" /\ ModelOf[p.req] \in MLX /\ p.full
    /\ p' = [p EXCEPT !.pc = AfterNeedEvict(request[p.req].oomRetry)]
    /\ UNCHANGED <<request, runner, loaded, activeLoading, channels, c, outside>>

\* Mutants of CloseActive: one of the two assignments is missing.
CloseActiveLeaks ==
    /\ p.pc = "load" /\ activeLoading # None
    /\ activeLoading' = None
    /\ UNCHANGED runner

CloseActiveKeeps ==
    /\ p.pc = "load" /\ activeLoading # None
    /\ runner' = [runner EXCEPT ![activeLoading].server = "closed"]
    /\ UNCHANGED activeLoading

\* Every other failure closes the server, without taking loadedMu.
CloseActive ==
    /\ p.pc = "load" /\ activeLoading # None
    /\ runner' = [runner EXCEPT ![activeLoading].server = "closed"]
    /\ activeLoading' = None

\* Mutant of PLoadOOM: the failure is reported and the load tried again.
PLoadOOMReports ==
    /\ CloseActive
    /\ ~request[p.req].oomRetry
    /\ p.req \in AutoCtx \/ LoadedModels # {}
    /\ request' = [request EXCEPT ![p.req] = [@ EXCEPT !.oomRetry = TRUE, !.reply = "err"]]
    /\ p' = [p EXCEPT !.pc = AfterNeedEvict(TRUE)]
    /\ UNCHANGED <<loaded, channels, c, outside>>

\* An out-of-memory failure is tried again once, with a smaller automatic
\* context or with the other models evicted.
PLoadOOM ==
    /\ CloseActive
    /\ ~request[p.req].oomRetry
    /\ p.req \in AutoCtx \/ LoadedModels # {}
    /\ request' = [request EXCEPT ![p.req].oomRetry = TRUE]
    /\ p' = [p EXCEPT !.pc = AfterNeedEvict(TRUE)]
    /\ UNCHANGED <<loaded, channels, c, outside>>

PLoadFails ==
    /\ CloseActive
    /\ Reply(p.req, "err")
    /\ p' = [p EXCEPT !.pc = "idle"]
    /\ UNCHANGED <<loaded, channels, c, outside>>

\* The failure path dereferences activeLoading after the shutdown cleared it.
PLoadPanics ==
    /\ p.pc = "load" /\ activeLoading = None
    /\ p' = [p EXCEPT !.pc = "panic"]
    /\ UNCHANGED <<request, runner, loaded, activeLoading, channels, c, outside>>

\* ByDurationAndName.
Before(r, s) ==
    LET rank == [zero |-> 0, finite |-> 1, infinite |-> 2] IN
    \/ rank[runner[r].session] < rank[runner[s].session]
    \/ /\ runner[r].session = runner[s].session
       /\ NameRank[ModelOf[r]] < NameRank[ModelOf[s]]

\* findRunnerToUnload: the loaded runners in order, or none and another turn.
PList ==
    /\ p.pc = "list"
    /\ \/ /\ LoadedRunners = {}
          /\ p' = [p EXCEPT !.pc = "top"]
       \/ /\ LoadedRunners # {}
          /\ \E order \in [1 .. Cardinality(LoadedRunners) -> LoadedRunners] :
                /\ \A i, j \in DOMAIN order : i < j => /\ order[i] # order[j]
                                                       /\ ~Before(order[j], order[i])
                /\ p' = [p EXCEPT !.pc = "scan", !.order = order, !.left = 1]
    /\ UNCHANGED <<request, runner, loaded, activeLoading, channels, c, outside>>

\* It takes the first idle runner in that order, else the first of all.
PScan ==
    /\ p.pc = "scan"
    /\ \/ /\ p.left <= Len(p.order)
          /\ LET r == p.order[p.left] IN
             /\ runner[r].refMu = "free"
             /\ p' = IF runner[r].refCount = 0
                     THEN [p EXCEPT !.pc = "expire", !.target = r]
                     ELSE [p EXCEPT !.left = @ + 1]
       \/ /\ p.left > Len(p.order)
          /\ p' = [p EXCEPT !.pc = "expire", !.target = p.order[1]]
    /\ UNCHANGED <<request, runner, loaded, activeLoading, channels, c, outside>>

PExpire ==
    /\ p.pc = "expire"
    /\ MarkExpired(p.target, "P")
    /\ p' = [p EXCEPT !.pc = IF runner[p.target].refCount = 0 THEN "send" ELSE "wait"]
    /\ UNCHANGED <<request, loaded, activeLoading, channels, c, outside>>

PSend ==
    /\ p.pc = "send"
    /\ SendAndUnlock(p.target, "P")
    /\ p' = [p EXCEPT !.pc = "wait"]
    /\ UNCHANGED <<request, loaded, activeLoading, c, outside>>

\* Mutant of PWait: a select with a default case, taken with no event.
PWaitPolls ==
    /\ p.pc = "wait"
    /\ unloadedCh' = unloadedCh - 1
    /\ p' = [p EXCEPT !.pc = "top"]
    /\ UNCHANGED <<request, runner, loaded, activeLoading, pendingReqCh, expiredCh, c, outside>>

\* Any unload event ends the wait.
PWait ==
    /\ p.pc = "wait" /\ unloadedCh > 0
    /\ unloadedCh' = unloadedCh - 1
    /\ p' = [p EXCEPT !.pc = "top"]
    /\ UNCHANGED <<request, runner, loaded, activeLoading, pendingReqCh, expiredCh, c, outside>>

\* evictAllAndWait: every runner but the one of the pending model.
PEvictAll ==
    /\ p.pc = "evictAll"
    /\ LET others == {r \in LoadedRunners : ModelOf[r] # ModelOf[p.req]} IN
       p' = IF others = {} THEN [p EXCEPT !.pc = "top"]
            ELSE [p EXCEPT !.pc = "evict", !.todo = others, !.left = Cardinality(others)]
    /\ UNCHANGED <<request, runner, loaded, activeLoading, channels, c, outside>>

PEvict ==
    /\ p.pc = "evict"
    /\ \E r \in p.todo :
          /\ MarkExpired(r, "P")
          /\ p' = [p EXCEPT !.todo = @ \ {r}, !.target = r,
                            !.pc = IF runner[r].refCount = 0 THEN "evictSend"
                                   ELSE IF p.todo = {r} THEN "evictWait" ELSE "evict"]
    /\ UNCHANGED <<request, loaded, activeLoading, channels, c, outside>>

PEvictSend ==
    /\ p.pc = "evictSend"
    /\ SendAndUnlock(p.target, "P")
    /\ p' = [p EXCEPT !.pc = IF p.todo = {} THEN "evictWait" ELSE "evict"]
    /\ UNCHANGED <<request, loaded, activeLoading, c, outside>>

\* As many events as runners, whatever runner each event was sent for.
PEvictWait ==
    /\ p.pc = "evictWait" /\ unloadedCh > 0
    /\ unloadedCh' = unloadedCh - 1
    /\ p' = [p EXCEPT !.left = @ - 1, !.pc = IF p.left = 1 THEN "top" ELSE "evictWait"]
    /\ UNCHANGED <<request, runner, loaded, activeLoading, pendingReqCh, expiredCh, c, outside>>

PStop ==
    /\ p.pc \in {"idle", "wait", "evictWait"} /\ down # "up"
    /\ p' = [p EXCEPT !.pc = "stopped"]
    /\ UNCHANGED <<request, runner, loaded, activeLoading, channels, c, outside>>

----------------------------------------------------------------------------
(* processCompleted.                                                       *)

\* The goroutine armed with the reply sends to finishedReqCh once the context
\* is over; the goroutines race, so C may receive any of those requests.  The
\* runner is looked up by key: it need not be the one the request was given.
CFinished(q) ==
    /\ c.pc = "idle"
    /\ request[q].watch = "armed" /\ request[q].ctxDone
    /\ request' = [request EXCEPT ![q].watch = "sent"]
    /\ LET r == loaded[ModelOf[q]] IN
       c' = IF r = None THEN c ELSE [pc |-> "dec", runner |-> r]
    /\ UNCHANGED <<runner, loaded, activeLoading, channels, p, outside>>

\* A runner that goes idle expires at once or gets its timer.
CDecrement ==
    /\ c.pc = "dec" /\ runner[c.runner].refMu = "free"
    /\ LET r     == c.runner
           count == (runner[r].refCount + RefMod - 1) % RefMod
           atOnce == runner[r].session = "zero"
       IN /\ runner' = [runner EXCEPT ![r] = [@ EXCEPT
                          !.refCount = count,
                          !.timer    = IF count # 0 THEN runner[r].timer
                                       ELSE IF atOnce THEN "nil" ELSE "running",
                          !.refMu    = IF count = 0 /\ atOnce THEN "C" ELSE "free"]]
          /\ c' = IF count = 0 /\ atOnce THEN [c EXCEPT !.pc = "send"]
                                         ELSE [c EXCEPT !.pc = "idle"]
    /\ UNCHANGED <<request, loaded, activeLoading, channels, p, outside>>

CSend ==
    /\ c.pc = "send"
    /\ SendAndUnlock(c.runner, "C")
    /\ c' = [c EXCEPT !.pc = "idle"]
    /\ UNCHANGED <<request, loaded, activeLoading, p, outside>>

CExpired ==
    /\ c.pc = "idle" /\ expiredCh # <<>>
    /\ c' = [pc |-> "expire", runner |-> Head(expiredCh)]
    /\ expiredCh' = Tail(expiredCh)
    /\ UNCHANGED <<request, runner, loaded, activeLoading, pendingReqCh, unloadedCh, p, outside>>

\* Still in use: a goroutine will send the event again.
CBusy ==
    /\ c.pc = "expire" /\ runner[c.runner].refMu = "free" /\ ~Idle(c.runner)
    /\ runner' = [runner EXCEPT ![c.runner].retry = @ + 1]
    /\ c' = [c EXCEPT !.pc = "idle"]
    /\ UNCHANGED <<request, loaded, activeLoading, channels, p, outside>>

\* Not loaded any more: a duplicate.  Another runner of the model is loaded:
\* the orphan is stopped, and nobody is told.
CDuplicateOrOrphan ==
    /\ c.pc = "expire" /\ runner[c.runner].refMu = "free" /\ Idle(c.runner)
    /\ \/ /\ loaded[ModelOf[c.runner]] = None
          /\ UNCHANGED runner
       \/ /\ loaded[ModelOf[c.runner]] \notin {None, c.runner}
          /\ Unload(c.runner, "free")
    /\ c' = [c EXCEPT !.pc = "idle"]
    /\ UNCHANGED <<request, loaded, activeLoading, channels, p, outside>>

CUnload ==
    /\ c.pc = "expire" /\ runner[c.runner].refMu = "free" /\ Idle(c.runner)
    /\ loaded[ModelOf[c.runner]] = c.runner
    /\ Unload(c.runner, "C")
    /\ loaded' = [loaded EXCEPT ![ModelOf[c.runner]] = None]
    /\ c' = [c EXCEPT !.pc = "recover"]
    /\ UNCHANGED <<request, activeLoading, channels, p, outside>>

\* Mutant of CRecovered: the unload event is not sent.
CRecoveredSilently ==
    /\ c.pc = "recover"
    /\ runner' = [runner EXCEPT ![c.runner].refMu = "free"]
    /\ c' = [c EXCEPT !.pc = "idle"]
    /\ UNCHANGED <<request, loaded, activeLoading, channels, p, outside>>

\* The wait for the memory to come back, which a timeout bounds.
CRecovered ==
    /\ c.pc = "recover"
    /\ runner' = [runner EXCEPT ![c.runner].refMu = "free"]
    /\ c' = [c EXCEPT !.pc = "notify"]
    /\ UNCHANGED <<request, loaded, activeLoading, channels, p, outside>>

CNotify ==
    /\ c.pc = "notify" /\ unloadedCh < MaxQueue
    /\ unloadedCh' = unloadedCh + 1
    /\ c' = [c EXCEPT !.pc = "idle"]
    /\ UNCHANGED <<request, runner, loaded, activeLoading, pendingReqCh, expiredCh, p, outside>>

CStop ==
    /\ c.pc = "idle" /\ down # "up"
    /\ c' = [c EXCEPT !.pc = "stopped"]
    /\ UNCHANGED <<request, runner, loaded, activeLoading, channels, p, outside>>

----------------------------------------------------------------------------
(* The goroutine of a load, the timers and the retries.                    *)

\* Mutant of LoaderReady: the request that loaded the runner is not counted.
LoaderReadyUncounted(r) ==
    /\ runner[r].refMu = "loader" /\ runner[r].server = "live"
    /\ runner' = [runner EXCEPT ![r].refMu = "free"]
    /\ request' = [request EXCEPT ![r] = [@ EXCEPT
                     !.watch = "armed", !.ref = r, !.reply = "ok"]]
    /\ UNCHANGED <<loaded, activeLoading, channels, p, c, outside>>

LoaderReady(r) ==
    /\ runner[r].refMu = "loader" /\ runner[r].server = "live"
    /\ runner' = [runner EXCEPT ![r] = [@ EXCEPT
                    !.refCount = (runner[r].refCount + 1) % RefMod,
                    !.refMu    = "free"]]
    /\ request' = [request EXCEPT ![r] = [@ EXCEPT
                     !.watch = "armed", !.ref = r, !.reply = "ok"]]
    /\ UNCHANGED <<loaded, activeLoading, channels, p, c, outside>>

\* Mutant of LoaderFails: the failed runner is left without an expiry.
LoaderFailsQuietly(r) ==
    /\ runner[r].refMu = "loader"
    /\ runner[r].server # "live" \/ request[r].ctxDone
    /\ Reply(r, "err")
    /\ runner' = [runner EXCEPT ![r].refMu = "free"]
    /\ UNCHANGED <<loaded, activeLoading, channels, p, c, outside>>

\* WaitUntilRunning fails on a dead server or when the request is over; the
\* runner stays in the map, not in use, until C handles its expiry.
LoaderFails(r) ==
    /\ runner[r].refMu = "loader"
    /\ runner[r].server # "live" \/ request[r].ctxDone
    /\ Reply(r, "err")
    /\ runner' = [runner EXCEPT ![r].refMu = "failed"]
    /\ UNCHANGED <<loaded, activeLoading, channels, p, c, outside>>

LoaderExpires(r) ==
    /\ SendAndUnlock(r, "failed")
    /\ UNCHANGED <<request, loaded, activeLoading, p, c, outside>>

\* An infinite keep-alive never fires.
TimerFires(r) ==
    /\ runner[r].timer = "running" /\ runner[r].session = "finite"
    /\ runner' = [runner EXCEPT ![r] = [@ EXCEPT !.timer = "fired",
                                                 !.fired = runner[r].fired + 1]]
    /\ UNCHANGED <<request, loaded, activeLoading, channels, p, c, outside>>

\* Mutant of TimerLocks: the callback clears the timer and sends nothing.
TimerLocksOnly(r) ==
    /\ runner[r].fired > 0 /\ runner[r].refMu = "free"
    /\ runner' = [runner EXCEPT ![r] = [@ EXCEPT !.timer = "nil",
                                                 !.fired = runner[r].fired - 1]]
    /\ UNCHANGED <<request, loaded, activeLoading, channels, p, c, outside>>

\* The timer's goroutine stops whatever timer it finds, a later one included.
TimerLocks(r) ==
    /\ runner[r].fired > 0 /\ runner[r].refMu = "free"
    /\ runner' = [runner EXCEPT ![r] = [@ EXCEPT !.timer = "nil", !.refMu = "timer",
                                                 !.fired = runner[r].fired - 1]]
    /\ UNCHANGED <<request, loaded, activeLoading, channels, p, c, outside>>

TimerSends(r) ==
    /\ SendAndUnlock(r, "timer")
    /\ UNCHANGED <<request, loaded, activeLoading, p, c, outside>>

RetrySends(r) ==
    /\ runner[r].retry > 0
    /\ SendExpired(r)
    /\ runner' = [runner EXCEPT ![r].retry = @ - 1]
    /\ UNCHANGED <<request, loaded, activeLoading, p, c, outside>>

----------------------------------------------------------------------------
(* Callers outside the scheduler, crashes, shutdown.                       *)

\* expireRunner, for a model deleted or asked to unload.
XExpireModel(m) ==
    /\ x.todo = {} /\ x.sending = None /\ x.calls < MaxExpires
    /\ loaded[m] # None
    /\ x' = [x EXCEPT !.todo = {loaded[m]}, !.calls = @ + 1]
    /\ UNCHANGED <<request, runner, loaded, activeLoading, channels, p, c, crashes, down>>

\* expireRunnersForRuntimeOOM, called by a handler whose inference failed.
XRuntimeOOM(q) ==
    /\ x.todo = {} /\ x.sending = None /\ x.calls < MaxExpires
    /\ request[q].phase = "waiting" /\ request[q].reply = "ok"
    /\ LoadedRunners # {}
    /\ x' = [x EXCEPT !.todo = LoadedRunners, !.calls = @ + 1]
    /\ UNCHANGED <<request, runner, loaded, activeLoading, channels, p, c, crashes, down>>

XMark ==
    /\ x.sending = None
    /\ \E r \in x.todo :
          /\ MarkExpired(r, "X")
          /\ x' = [x EXCEPT !.todo = @ \ {r},
                            !.sending = IF runner[r].refCount = 0 THEN r ELSE None]
    /\ UNCHANGED <<request, loaded, activeLoading, channels, p, c, crashes, down>>

XSend ==
    /\ x.sending # None
    /\ SendAndUnlock(x.sending, "X")
    /\ x' = [x EXCEPT !.sending = None]
    /\ UNCHANGED <<request, loaded, activeLoading, p, c, crashes, down>>

\* A runner process dies.
Crash(r) ==
    /\ crashes < MaxCrashes /\ runner[r].server = "live"
    /\ runner' = [runner EXCEPT ![r].server = "crashed"]
    /\ crashes' = crashes + 1
    /\ UNCHANGED <<request, loaded, activeLoading, channels, p, c, x, down>>

\* The signal goroutine of Serve cancels the scheduler's context, then stops
\* what is loaded and what is loading.
ShutdownCancels ==
    /\ MayShutdown /\ down = "up"
    /\ down' = "cancelled"
    /\ UNCHANGED <<request, runner, loaded, activeLoading, channels, p, c, x, crashes>>

UnloadAllRunners ==
    /\ down = "cancelled"
    /\ runner' = [r \in Runners |->
                    IF r \in LoadedRunners \cup {activeLoading}
                    THEN [runner[r] EXCEPT !.server = "closed"] ELSE runner[r]]
    /\ activeLoading' = None
    /\ down' = "unloaded"
    /\ UNCHANGED <<request, loaded, channels, p, c, x, crashes>>

----------------------------------------------------------------------------
(* Nothing is left to do: every handler returned, or waits for the answer  *)
(* to a request that P dropped, and no goroutine is in the middle of       *)
(* anything.  After a shutdown or a panic the process is gone.             *)

Dropped(q) == /\ request[q].phase = "waiting" /\ request[q].reply = "none"
              /\ request[q].ctxDone
              /\ p.req # q \/ p.pc = "idle"
              /\ \A i \in DOMAIN pendingReqCh : pendingReqCh[i] # q
              /\ ~\E r \in Runners : r = q /\ runner[r].refMu = "loader"

Quiescent ==
    \/ down = "unloaded" \/ p.pc = "panic"
    \/ /\ \A q \in Requests : request[q].phase = "done" \/ Dropped(q)
       /\ p.pc = "idle" /\ c.pc = "idle" /\ x.todo = {} /\ x.sending = None
       /\ \A r \in Runners : runner[r].refMu = "free"

Terminated == Quiescent /\ UNCHANGED vars

Handler(q) == HLookup(q) \/ HCheck(q) \/ HUse(q) \/ HEnqueue(q) \/ HFinish(q)

PStep == \/ PTop \/ PCheck \/ PUse \/ PSpace \/ PSum
         \/ PCreate \/ PCreateFails \/ PPreflight
         \/ PInstall \/ PRequiredFull \/ PLoadOOM \/ PLoadFails \/ PLoadPanics
         \/ PList \/ PScan \/ PExpire \/ PSend \/ PWait
         \/ PEvictAll \/ PEvict \/ PEvictSend \/ PEvictWait

CStep == CDecrement \/ CSend \/ CBusy \/ CDuplicateOrOrphan \/ CUnload
            \/ CRecovered \/ CNotify

Goroutines(r) == \/ LoaderReady(r) \/ LoaderFails(r) \/ LoaderExpires(r)
                 \/ TimerFires(r) \/ TimerLocks(r) \/ TimerSends(r)
                 \/ RetrySends(r)

Next ==
    \/ \E q \in Requests : \/ HLookup(q) \/ HCheck(q) \/ HUse(q) \/ HEnqueue(q)
                           \/ HFinish(q) \/ HCancel(q)
                           \/ CFinished(q) \/ XRuntimeOOM(q)
    \/ PRecv \/ PIgnoreUnload \/ PTop \/ PCheck \/ PUse \/ PSpace \/ PSum
    \/ PCreate \/ PCreateFails \/ PPreflight
    \/ PInstall \/ PRequiredFull \/ PLoadOOM \/ PLoadFails \/ PLoadPanics
    \/ PList \/ PScan \/ PExpire \/ PSend \/ PWait
    \/ PEvictAll \/ PEvict \/ PEvictSend \/ PEvictWait \/ PStop
    \/ CExpired \/ CDecrement \/ CSend \/ CBusy \/ CDuplicateOrOrphan \/ CUnload
    \/ CRecovered \/ CNotify \/ CStop
    \/ \E r \in Runners : \/ LoaderReady(r) \/ LoaderFails(r) \/ LoaderExpires(r)
                          \/ TimerFires(r) \/ TimerLocks(r) \/ TimerSends(r)
                          \/ RetrySends(r) \/ Crash(r)
    \/ \E m \in Models : XExpireModel(m)
    \/ XMark \/ XSend \/ ShutdownCancels \/ UnloadAllRunners
    \/ Terminated

Spec == Init /\ [][Next]_vars

\* Goroutines that can run do run and inferences end: weak fairness of each
\* handler and loop and of the goroutines of each runner.  select picks at
\* random among the ready cases, so a finished request that stays ready is
\* received although the retries of an expired runner keep C busy: strong
\* fairness of CFinished.  None for disconnections, crashes and shutdown.
Fairness ==
    /\ \A q \in Requests : WF_vars(Handler(q)) /\ SF_vars(CFinished(q))
    /\ WF_vars(PRecv \/ PIgnoreUnload \/ PStep)
    /\ WF_vars(CExpired \/ CStep)
    /\ \A r \in Runners : WF_vars(Goroutines(r))
    /\ WF_vars(XMark \/ XSend)

FairSpec == Spec /\ Fairness

----------------------------------------------------------------------------
(* Properties.                                                             *)

RequestType  == request \in [Requests -> Request]
RunnerType   == runner \in [Runners -> Runner]
MapType      == loaded \in [Models -> Runners \cup {None}] /\ activeLoading \in Requests \cup {None}
PendingType  == pendingReqCh \in Seq(Requests) /\ Len(pendingReqCh) <= MaxQueue
ExpiredType  == expiredCh \in Seq(Runners) /\ Len(expiredCh) <= MaxQueue
UnloadedType == unloadedCh \in 0 .. MaxQueue
PType == p \in [pc : {"idle", "top", "check", "use", "space", "sum", "create", "load",
                     "list", "scan", "expire", "send", "wait", "evictAll", "evict",
                     "evictSend", "evictWait", "stopped", "panic"},
               req : Requests \cup {None}, target : Runners \cup {None},
               todo : SUBSET Runners, order : Seq(Runners), left : Nat, full : BOOLEAN]
CType == c \in [pc : {"idle", "dec", "send", "expire", "recover", "notify", "stopped"},
               runner : Runners \cup {None}]
OutsideType == /\ x \in [todo : SUBSET Runners, sending : Runners \cup {None},
                         calls : 0 .. MaxExpires]
               /\ crashes \in 0 .. MaxCrashes
               /\ down \in {"up", "cancelled", "unloaded"}

\* Every variable keeps its type (the structs of sched.go, 30-83 and 1349-1376): no
\* channel holds more than its capacity and no count leaves its range.
TypeOK == /\ RequestType /\ RunnerType /\ MapType
          /\ PendingType /\ ExpiredType /\ UnloadedType
          /\ PType /\ CType /\ OutsideType

\* OLLAMA_MAX_LOADED_MODELS holds although the count is read, with loadedMu
\* released, long before the new runner is put in the map.
MaxLoaded == Cardinality(LoadedModels) <= MaxRunners

\* While P loads a model its place in the map stays empty and the server being
\* loaded is the one of its request: the branches "model was still loaded" and
\* "attempting to load different model" of load cannot be reached.
LoadSlotFree ==
    /\ p.pc \in {"space", "sum", "create", "load"} => loaded[ModelOf[p.req]] = None
    /\ activeLoading # None => activeLoading = p.req /\ p.pc # "idle"
    /\ p.pc = "load" /\ down # "unloaded" => activeLoading = p.req

\* A runner process that is up belongs to the scheduler: it is loading or in the
\* map, where expiry and shutdown find it.  (After a shutdown signal the load in
\* progress may still start one.)
NoOrphanServer ==
    down = "up" =>
        \A r \in Runners : runner[r].server = "live" => activeLoading = r \/ r \in LoadedRunners

\* The unload event P waits for was sent, is about to be, or will be caused by a
\* runner still in the map: a wake-up is never lost, not even when the target
\* was unloaded between its choice and its expiry.
Unloading == IF c.pc \in {"recover", "notify"} THEN 1 ELSE 0
NoLostWakeup ==
    /\ p.pc \in {"expire", "send", "wait"} =>
          unloadedCh + Unloading > 0 \/ p.target \in LoadedRunners
    /\ p.pc \in {"evict", "evictSend", "evictWait"} =>
          p.left <= unloadedCh + Unloading
                    + Cardinality({r \in LoadedRunners : ModelOf[r] # ModelOf[p.req]})

\* A loaded runner nobody uses always has something that will unload it: its
\* timer, a goroutine about to send it, or its event in the channel or with C.
Outstanding(m) == \/ \E q \in Requests : ModelOf[q] = m /\ request[q].watch = "armed"
                  \/ c.pc = "dec" /\ ModelOf[c.runner] = m
IdleHasTrigger ==
    \A r \in LoadedRunners :
        runner[r].refCount = 0 /\ runner[r].refMu = "free" /\ ~Outstanding(ModelOf[r]) =>
            \/ runner[r].timer = "running"
            \/ runner[r].fired > 0 \/ runner[r].retry > 0
            \/ \E i \in DOMAIN expiredCh : expiredCh[i] = r
            \/ c.pc = "expire" /\ c.runner = r

\* A request is being served by a runner.
Serving(q) == request[q].reply = "ok" /\ request[q].phase = "waiting" /\ ~request[q].ctxDone

\* No runner was handed out while it was being unloaded: such a runner keeps a
\* count for ever, because the end of its request is charged by model key.
NoStaleHandout == \A r \in Runners : ~runner[r].valid => runner[r].refCount = 0

\* As long as no runner was handed out while being unloaded, the count of a
\* loaded runner is exactly the number of its requests that C has not seen
\* finish, so no finished request is charged to a runner it was not given.
RefCountExact ==
    NoStaleHandout =>
        \A r \in LoadedRunners :
            runner[r].refCount =
                Cardinality({q \in Requests : request[q].watch = "armed" /\ request[q].ref = r})
                + (IF c.pc = "dec" /\ c.runner = r THEN 1 ELSE 0)

\* "prevent unloading if > 0" (runnerRef.refCount): no step unloads a runner that
\* serves a request, as long as no runner was handed out while being unloaded.
UnloadSparesUsers ==
    [][NoStaleHandout =>
          \A r \in Runners : runner[r].valid /\ ~runner'[r].valid =>
              ~\E q \in Requests : Serving(q) /\ request[q].ref = r]_vars

\* What that comment promises, without the proviso: a request is never served by
\* a runner that was unloaded.
InUseNotClosed == \A q \in Requests : Serving(q) => runner[request[q].ref].valid

\* One answer per request: neither channel is written after the other one.
AnsweredOnce ==
    [][\A q \in Requests : request[q].reply # "none" =>
            request'[q].reply = request[q].reply /\ request'[q].ref = request[q].ref]_vars

\* Every request is answered, unless its client leaves or the server shuts down.
Answered ==
    \A q \in Requests :
        request[q].phase = "waiting" ~> \/ request[q].reply # "none" \/ request[q].ctxDone
                                        \/ down # "up"

\* A runner with a finite keep-alive is unloaded in the end, unless a runner was
\* handed out while being unloaded.
UnloadedInTheEnd ==
    \A r \in Runners :
        r \in LoadedRunners ~> r \notin LoadedRunners \/ ~NoStaleHandout \/ down # "up"
=============================================================================
