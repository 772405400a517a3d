-------------------------- MODULE SchedulerProofs --------------------------
(* Theorems about the scheduler, for all values of the constants of        *)
(* Scheduler: its types and what it loads; who answers a request and who   *)
(* uses a runner; what wakes the loops up (the unload events P waits for,  *)
(* and what will unload a runner nobody uses); and the pool: Scheduler     *)
(* implements RunnerPool, every step of it is a step of the pool or leaves *)
(* the pool alone.                                                         *)
EXTENDS SchedulerPool, TLAPS, FiniteSetTheorems, SequenceTheorems

----------------------------------------------------------------------------
(* Types.                                                                  *)

\* What the types alone do not say: a goroutine that is about to use a pointer has
\* one, the list that findRunnerToUnload walks is not empty, and evictAllAndWait
\* counts down from at least one.
RefsSet == \A q \in Requests : request[q].phase \in {"check", "use"} => request[q].ref \in Runners
CSet    == c.pc \notin {"idle", "stopped"} => c.runner \in Runners
PSet ==
    /\ p.pc \notin {"idle", "stopped", "panic"} => p.req \in Requests
    /\ p.pc \in {"check", "use", "expire", "send", "wait", "evictSend"} => p.target \in Runners
    /\ p.pc = "scan" => Len(p.order) > 0 /\ p.left > 0
    /\ p.pc \in {"evict", "evictSend", "evictWait"} => p.left > 0

RequestInv == RequestType /\ RefsSet
PInv       == PType /\ PSet
CInv       == CType /\ CSet

TypeInv == /\ RequestInv /\ RunnerType /\ MapType
           /\ PendingType /\ ExpiredType /\ UnloadedType
           /\ PInv /\ CInv /\ OutsideType

\* A part of the type invariant is kept by a step that leaves its variables alone.
LEMMA Frame ==
    /\ RequestInv /\ UNCHANGED request => RequestInv'
    /\ RunnerType /\ UNCHANGED runner => RunnerType'
    /\ MapType /\ UNCHANGED <<loaded, activeLoading>> => MapType'
    /\ PendingType /\ UNCHANGED pendingReqCh => PendingType'
    /\ ExpiredType /\ UNCHANGED expiredCh => ExpiredType'
    /\ UnloadedType /\ UNCHANGED unloadedCh => UnloadedType'
    /\ PInv /\ UNCHANGED p => PInv'
    /\ CInv /\ UNCHANGED c => CInv'
    /\ OutsideType /\ UNCHANGED outside => OutsideType'
  BY DEF RequestInv, RequestType, RefsSet, RunnerType, MapType, PendingType, ExpiredType,
         UnloadedType, PInv, PType, PSet, CInv, CType, CSet, OutsideType, outside

\* What the types need to know of the constants.
LEMMA Constants ==
    /\ ModelOf \in [Requests -> Models]
    /\ MaxQueue \in Nat /\ MaxQueue > 0
    /\ MaxExpires \in Nat /\ MaxCrashes \in Nat
    /\ None \notin Requests
  BY SchedulerAssumption DEF SchedulerAssumption

\* Counts modulo RefMod stay in range.
LEMMA RefCountRange ==
    /\ RefMod \in Nat /\ RefMod > 0
    /\ \A n \in Nat : n % RefMod \in 0 .. (RefMod - 1)
  <1>1. RefMod \in Nat /\ RefMod > 0
    BY SchedulerAssumption, FS_CardinalityType DEF SchedulerAssumption
  <1> QED BY <1>1

\* The runners in the map can be counted.
LEMMA LoadedCount ==
    /\ Cardinality(LoadedRunners) \in Nat
    /\ LoadedRunners # {} => Cardinality(LoadedRunners) > 0
  <1>1. IsFiniteSet(LoadedRunners)
    BY SchedulerAssumption, FS_Subset DEF LoadedRunners, Runners, SchedulerAssumption
  <1> QED BY <1>1, FS_CardinalityType, FS_EmptySet

\* So can those that evictAllAndWait expires.
LEMMA OthersCount ==
  ASSUME NEW m
  PROVE  LET others == {r \in LoadedRunners : ModelOf[r] # m} IN
         Cardinality(others) \in Nat /\ (others # {} => Cardinality(others) > 0)
  <1> DEFINE others == {r \in LoadedRunners : ModelOf[r] # m}
  <1>1. IsFiniteSet(others)
    BY SchedulerAssumption, FS_Subset DEF LoadedRunners, Runners, SchedulerAssumption
  <1> QED BY <1>1, FS_CardinalityType, FS_EmptySet

\* A step that changes one runner, or one request, in place.
LEMMA RunnerUpdate ==
  ASSUME RunnerType, NEW r, NEW v, r \in Runners => v \in Runner,
         runner' = [runner EXCEPT ![r] = v]
  PROVE  RunnerType'
  BY DEF RunnerType

LEMMA RequestUpdate ==
  ASSUME RequestInv, NEW q, NEW v, request' = [request EXCEPT ![q] = v],
         q \in Requests => v \in Request /\ (v.phase \in {"check", "use"} => v.ref \in Runners)
  PROVE  RequestInv'
  BY DEF RequestInv, RequestType, RefsSet

\* The shared steps keep the types of what they change.
LEMMA UseType ==
  ASSUME RequestInv, RunnerType, NEW q \in Requests, NEW r \in Runners, UseLoadedRunner(q, r)
  PROVE  RequestInv' /\ RunnerType'
  <1>1. RequestInv'
    <2> DEFINE v == [request[q] EXCEPT !.phase = "waiting", !.ref = r,
                                       !.reply = "ok", !.watch = "armed"]
    <2>1. request' = [request EXCEPT ![q] = v]
      BY DEF UseLoadedRunner
    <2>2. v \in Request /\ v.phase = "waiting"
      BY ZenonT(60) DEF RequestInv, RequestType, Request, Runners
    <2> QED BY <2>1, <2>2, RequestUpdate
  <1>2. RunnerType'
    <2> DEFINE k == (runner[r].refCount + 1) % RefMod
               s == IF KeepAliveOf[q] = "unset" THEN runner[r].session ELSE KeepAliveOf[q]
               v == [runner[r] EXCEPT !.refCount = k, !.timer = "nil", !.session = s]
    <2>1. runner' = [runner EXCEPT ![r] = v]
      BY DEF UseLoadedRunner
    <2>2. k \in 0 .. (RefMod - 1)
      BY RefCountRange DEF RunnerType, Runner
    <2>3. s \in KeepAlives
      BY SchedulerAssumption DEF RunnerType, Runner, SchedulerAssumption
    <2> HIDE DEF k, s
    <2>4. v \in Runner
      BY <2>2, <2>3 DEF RunnerType, Runner
    <2> QED BY <2>1, <2>4, RunnerUpdate
  <1> QED BY <1>1, <1>2

LEMMA ReplyType ==
  ASSUME RequestInv, NEW q, NEW kind \in {"none", "ok", "err"}, Reply(q, kind)
  PROVE  RequestInv'
  <1> DEFINE v == [request[q] EXCEPT !.reply = kind]
  <1>1. request' = [request EXCEPT ![q] = v]
    BY DEF Reply
  <1>2. q \in Requests => v \in Request /\ (v.phase \in {"check", "use"} => v.ref \in Runners)
    BY DEF RequestInv, RequestType, RefsSet, Request
  <1> QED BY <1>1, <1>2, RequestUpdate

LEMMA MarkType ==
  ASSUME RunnerType, NEW r, NEW holder \in {"P", "X"}, MarkExpired(r, holder)
  PROVE  RunnerType'
  <1> DEFINE v == [runner[r] EXCEPT !.timer = "nil", !.session = "zero",
                     !.refMu = IF runner[r].refCount = 0 THEN holder ELSE "free"]
  <1>1. runner' = [runner EXCEPT ![r] = v]
    BY DEF MarkExpired
  <1>2. r \in Runners => v \in Runner
    BY ZenonT(60) DEF RunnerType, Runner, KeepAlives
  <1> QED BY <1>1, <1>2, RunnerUpdate

LEMMA UnloadType ==
  ASSUME RunnerType, NEW r, NEW lock \in {"free", "C"}, Unload(r, lock)
  PROVE  RunnerType'
  <1> DEFINE v == [runner[r] EXCEPT !.timer = "nil", !.server = "closed",
                                    !.valid = FALSE, !.refMu  = lock]
  <1>1. runner' = [runner EXCEPT ![r] = v]
    BY DEF Unload
  <1>2. r \in Runners => v \in Runner
    BY DEF RunnerType, Runner
  <1> QED BY <1>1, <1>2, RunnerUpdate

LEMMA ExpiredSendType ==
  ASSUME ExpiredType, NEW r \in Runners, SendExpired(r)
  PROVE  ExpiredType'
  BY Constants DEF SendExpired, ExpiredType

LEMMA SendType ==
  ASSUME RunnerType, ExpiredType, NEW r \in Runners, NEW holder, SendAndUnlock(r, holder)
  PROVE  RunnerType' /\ ExpiredType'
  <1>1. RunnerType'
    BY DEF SendAndUnlock, RunnerType, Runner
  <1>2. ExpiredType'
    BY ExpiredSendType DEF SendAndUnlock
  <1> QED BY <1>1, <1>2

\* The handlers.
LEMMA HandlerKeepsTypes ==
  ASSUME TypeInv, NEW q \in Requests,
         HLookup(q) \/ HCheck(q) \/ HUse(q) \/ HEnqueue(q) \/ HFinish(q) \/ HCancel(q)
  PROVE  TypeInv'
  <1>1. CASE HLookup(q)
    <2>1. RequestInv'
      <3> DEFINE r == loaded[ModelOf[q]]
                 v == [request[q] EXCEPT !.ref = r,
                         !.phase = IF r = None THEN "enqueue" ELSE "check"]
      <3>1. request' = [request EXCEPT ![q] = v]
        BY <1>1 DEF HLookup
      <3>2. r \in Runners \cup {None}
        BY Constants DEF TypeInv, MapType
      <3> HIDE DEF r
      <3>3. v \in Request /\ (v.phase \in {"check", "use"} => v.ref \in Runners)
        BY <3>2 DEF TypeInv, RequestInv, RequestType, Request, Runners
      <3> QED BY <3>1, <3>3, RequestUpdate DEF TypeInv
    <2> QED BY <1>1, <2>1, Frame DEF HLookup, TypeInv, channels, outside
  <1>2. CASE HCheck(q)
    <2>1. RequestInv'
      BY <1>2 DEF HCheck, Runners, RequestInv, RequestType, Request, RefsSet, TypeInv
    <2> QED BY <1>2, <2>1, Frame DEF HCheck, TypeInv, channels, outside
  <1>3. CASE HUse(q)
    <2>1. RequestInv' /\ RunnerType'
      <3>1. request[q].ref \in Runners
        BY <1>3 DEF HUse, TypeInv, RequestInv, RefsSet
      <3> QED BY <1>3, <3>1, UseType DEF HUse, TypeInv
    <2> QED BY <1>3, <2>1, Frame DEF HUse, TypeInv, channels, outside
  <1>4. CASE HEnqueue(q)
    <2>1. RequestInv'
      <3> DEFINE v == [request[q] EXCEPT !.phase = "waiting",
                         !.reply = IF Len(pendingReqCh) < MaxQueue THEN "none" ELSE "err"]
      <3>1. request' = [request EXCEPT ![q] = v]
        BY <1>4 DEF HEnqueue
      <3>2. v \in Request /\ v.phase = "waiting"
        BY DEF TypeInv, RequestInv, RequestType, Request
      <3> QED BY <3>1, <3>2, RequestUpdate DEF TypeInv

    <2>2. PendingType'
      BY <1>4, Constants DEF HEnqueue, PendingType, TypeInv
    <2> QED BY <1>4, <2>1, <2>2, Frame DEF HEnqueue, TypeInv, channels, outside
  <1>5. CASE HFinish(q)
    <2>1. RequestInv'
      BY ZenonT(60), <1>5 DEF HFinish, RequestInv, RequestType, Request, RefsSet, TypeInv
    <2> QED BY <1>5, <2>1, Frame DEF HFinish, TypeInv, channels, outside
  <1>6. CASE HCancel(q)
    <2>1. RequestInv'
      BY ZenonT(60), <1>6 DEF HCancel, RequestInv, RequestType, Request, RefsSet, TypeInv
    <2> QED BY <1>6, <2>1, Frame DEF HCancel, TypeInv, channels, outside
  <1> QED BY <1>1, <1>2, <1>3, <1>4, <1>5, <1>6

\* processPending, up to and including load.
LEMMA PendingKeepsTypes ==
  ASSUME TypeInv,
         PRecv \/ PIgnoreUnload \/ PTop \/ PCheck \/ PUse \/ PSpace \/ PSum \/ PCreate \/
         PCreateFails \/ PPreflight \/ PInstall \/ PRequiredFull \/ PLoadOOM \/
         PLoadFails \/ PLoadPanics
  PROVE  TypeInv'
  <1>1. CASE PRecv
    <2>1. PendingType'
      BY <1>1, Constants DEF PRecv, PendingType, TypeInv
    <2>2. PInv'
      <3>1. Head(pendingReqCh) \in Requests
        BY <1>1 DEF PRecv, TypeInv, PendingType
      <3>2. CASE request[Head(pendingReqCh)].ctxDone
        BY <1>1, <3>2, Frame DEF PRecv, TypeInv
      <3>3. CASE ~request[Head(pendingReqCh)].ctxDone
        BY <1>1, <3>1, <3>3 DEF PRecv, TypeInv, PInv, PType, PSet
      <3> QED BY <3>2, <3>3
    <2> QED BY <1>1, <2>1, <2>2, Frame DEF PRecv, TypeInv, channels, outside
  <1>2. CASE PIgnoreUnload
    <2>1. UnloadedType'
      BY <1>2, Constants DEF PIgnoreUnload, UnloadedType, TypeInv
    <2> QED BY <1>2, <2>1, Frame DEF PIgnoreUnload, TypeInv, channels, outside
  <1>3. CASE PTop
    <2>1. PInv'
      <3> DEFINE r     == loaded[ModelOf[p.req]]
                 count == Cardinality(LoadedModels)
                 full  == count > 0
                 pc    == IF r # None THEN "check"
                          ELSE IF AtCapacity(count) THEN "list" ELSE "space"
      <3>1. p.req \in Requests /\ p' = [p EXCEPT !.target = r, !.full = full, !.pc = pc]
        BY <1>3 DEF PTop, TypeInv, PInv, PSet
      <3>2. r \in Runners \cup {None}
        BY <3>1, Constants DEF TypeInv, MapType
      <3>3. pc \in {"check", "list", "space"} /\ (pc = "check" => r # None) /\ full \in BOOLEAN
        OBVIOUS
      <3> HIDE DEF r, full, pc
      <3> QED BY <3>1, <3>2, <3>3 DEF TypeInv, PInv, PType, PSet
    <2> QED BY <1>3, <2>1, Frame DEF PTop, TypeInv, channels, outside
  <1>4. CASE PCheck
    <2>1. PInv'
      BY <1>4 DEF PCheck, PInv, PType, PSet, TypeInv
    <2> QED BY <1>4, <2>1, Frame DEF PCheck, TypeInv, channels, outside
  <1>5. CASE PUse
    <2>1. RequestInv' /\ RunnerType'
      <3>1. p.req \in Requests /\ p.target \in Runners
        BY <1>5 DEF PUse, TypeInv, PInv, PSet
      <3> QED BY <1>5, <3>1, UseType DEF PUse, TypeInv

    <2>2. PInv'
      BY <1>5 DEF PUse, PInv, PType, PSet, TypeInv
    <2> QED BY <1>5, <2>1, <2>2, Frame DEF PUse, TypeInv, channels, outside
  <1>6. CASE PSpace
    <2>1. PInv'
      BY <1>6 DEF PSpace, LoadedRunners, PInv, PType, PSet, TypeInv
    <2> QED BY <1>6, <2>1, Frame DEF PSpace, TypeInv, channels, outside
  <1>7. CASE PSum
    <2>1. PInv'
      BY <1>7 DEF PSum, PInv, PType, PSet, TypeInv
    <2> QED BY <1>7, <2>1, Frame DEF PSum, TypeInv, channels, outside
  <1>8. CASE PCreate
    <2>1. RunnerType'
      BY <1>8 DEF PCreate, RunnerType, Runner, TypeInv
    <2>2. MapType'
      BY <1>8 DEF PCreate, PInv, PSet, Runners, MapType, TypeInv
    <2>3. PInv'
      BY <1>8 DEF PCreate, PInv, PType, PSet, TypeInv
    <2> QED BY <1>8, <2>1, <2>2, <2>3, Frame DEF PCreate, TypeInv, channels, outside
  <1>9. CASE PCreateFails
    <2>1. RequestInv'
      BY <1>9, ReplyType DEF PCreateFails, TypeInv
    <2>2. PInv'
      BY <1>9 DEF PCreateFails, PInv, PType, PSet, TypeInv
    <2> QED BY <1>9, <2>1, <2>2, Frame DEF PCreateFails, TypeInv, channels, outside
  <1>10. CASE PPreflight
    <2>1. PInv'
      BY <1>10 DEF PPreflight, AfterNeedEvict, PInv, PType, PSet, TypeInv
    <2> QED BY <1>10, <2>1, Frame DEF PPreflight, TypeInv, channels, outside
  <1>11. CASE PInstall
    <2>1. RunnerType'
      <3> DEFINE r == p.req
                 s == IF KeepAliveOf[r] = "unset" THEN DefaultKeepAlive ELSE KeepAliveOf[r]
                 v == [runner[r] EXCEPT !.refMu = "loader", !.valid = TRUE, !.session = s]
      <3>1. runner' = [runner EXCEPT ![r] = v]
        BY <1>11 DEF PInstall
      <3>2. r \in Runners => s \in KeepAlives
        BY SchedulerAssumption DEF SchedulerAssumption, Runners
      <3> HIDE DEF s
      <3>3. r \in Runners => v \in Runner
        BY ZenonT(60), <3>2 DEF TypeInv, RunnerType, Runner
      <3> QED BY <3>1, <3>3, RunnerUpdate DEF TypeInv

    <2>2. MapType'
      BY <1>11, Constants DEF PInstall, PInv, PSet, Runners, MapType, TypeInv
    <2>3. PInv'
      BY <1>11 DEF PInstall, PInv, PType, PSet, TypeInv
    <2> QED BY <1>11, <2>1, <2>2, <2>3, Frame DEF PInstall, TypeInv, channels, outside
  <1>12. CASE PRequiredFull
    <2>1. PInv'
      BY <1>12 DEF PRequiredFull, AfterNeedEvict, PInv, PType, PSet, TypeInv
    <2> QED BY <1>12, <2>1, Frame DEF PRequiredFull, TypeInv, channels, outside
  <1>13. CASE PLoadOOM
    <2>1. RequestInv'
      <3> DEFINE q == p.req
                 v == [request[q] EXCEPT !.oomRetry = TRUE]
      <3>1. request' = [request EXCEPT ![q] = v]
        BY <1>13 DEF PLoadOOM
      <3>2. q \in Requests => v \in Request /\ (v.phase \in {"check", "use"} => v.ref \in Runners)
        BY ZenonT(60) DEF TypeInv, RequestInv, RequestType, Request, RefsSet
      <3> HIDE DEF v
      <3> QED BY <3>1, <3>2, RequestUpdate DEF TypeInv

    <2>2. RunnerType'
      BY ZenonT(60), <1>13 DEF PLoadOOM, CloseActive, RunnerType, Runner, TypeInv
    <2>3. MapType'
      BY <1>13 DEF PLoadOOM, CloseActive, MapType, TypeInv
    <2>4. PInv'
      BY <1>13 DEF PLoadOOM, AfterNeedEvict, CloseActive, PInv, PType, PSet, TypeInv
    <2> QED
      BY <1>13, <2>1, <2>2, <2>3, <2>4, Frame DEF PLoadOOM, CloseActive, TypeInv,
         channels, outside
  <1>14. CASE PLoadFails
    <2>1. RequestInv'
      BY <1>14, ReplyType DEF PLoadFails, TypeInv
    <2>2. RunnerType'
      BY ZenonT(60), <1>14 DEF PLoadFails, CloseActive, RunnerType, Runner, TypeInv
    <2>3. MapType'
      BY <1>14 DEF PLoadFails, CloseActive, MapType, TypeInv
    <2>4. PInv'
      BY <1>14 DEF PLoadFails, CloseActive, PInv, PType, PSet, TypeInv
    <2> QED
      BY <1>14, <2>1, <2>2, <2>3, <2>4, Frame DEF PLoadFails, CloseActive, TypeInv,
         channels, outside
  <1>15. CASE PLoadPanics
    <2>1. PInv'
      BY <1>15 DEF PLoadPanics, PInv, PType, PSet, TypeInv
    <2> QED BY <1>15, <2>1, Frame DEF PLoadPanics, TypeInv, channels, outside
  <1> QED BY <1>1, <1>2, <1>3, <1>4, <1>5, <1>6, <1>7, <1>8, <1>9, <1>10, <1>11,
             <1>12, <1>13, <1>14, <1>15

\* processPending, making room.
LEMMA EvictionKeepsTypes ==
  ASSUME TypeInv,
         PList \/ PScan \/ PExpire \/ PSend \/ PWait \/ PEvictAll \/ PEvict \/ PEvictSend
         \/ PEvictWait \/ PStop
  PROVE  TypeInv'
  <1>1. CASE PList
    <2>1. PInv'
      <3>1. p.pc = "list" /\ p.req \in Requests
        BY <1>1 DEF PList, TypeInv, PInv, PSet
      <3>2. CASE LoadedRunners = {}
        BY <1>1, <3>2, LoadedCount DEF PList, TypeInv, PInv, PType, PSet
      <3>3. CASE LoadedRunners # {}
        <4> DEFINE n == Cardinality(LoadedRunners)
        <4>1. n \in Nat /\ n > 0 /\ LoadedRunners \subseteq Runners
          BY <3>3, LoadedCount DEF LoadedRunners
        <4>2. PICK order \in [1 .. n -> LoadedRunners] :
                  p' = [p EXCEPT !.pc = "scan", !.order = order, !.left = 1]
          BY <1>1, <3>3 DEF PList
        <4> HIDE DEF n
        <4>3. order \in Seq(Runners) /\ Len(order) > 0
          BY <4>1, <4>2
        <4>4. PType' /\ p'.pc = "scan" /\ p'.req = p.req /\ p'.order = order /\ p'.left = 1
          BY <4>2, <4>3 DEF TypeInv, PInv, PType
        <4>5. p'.req \in Requests /\ Len(p'.order) > 0 /\ p'.left > 0
          BY <3>1, <4>3, <4>4
        <4> QED BY <4>4, <4>5 DEF PInv, PSet
      <3> QED BY <3>2, <3>3
    <2> QED BY <1>1, <2>1, Frame DEF PList, TypeInv, channels, outside
  <1>2. CASE PScan
    <2>1. PInv'
      <3>1. p.order \in Seq(Runners) /\ Len(p.order) > 0 /\ p.left \in Nat /\ p.left > 0
        BY <1>2 DEF PScan, TypeInv, PInv, PType, PSet
      <3>2. \A r \in Runners : p' = [p EXCEPT !.pc = "expire", !.target = r] => PInv'
        BY <1>2 DEF PScan, TypeInv, PInv, PType, PSet
      <3>3. p' = [p EXCEPT !.left = @ + 1] => PInv'
        BY <1>2, <3>1 DEF PScan, TypeInv, PInv, PType, PSet
      <3>4. CASE p.left <= Len(p.order)
        <4>1. p.order[p.left] \in Runners
          BY <3>1, <3>4
        <4>2. \/ p' = [p EXCEPT !.pc = "expire", !.target = p.order[p.left]]
              \/ p' = [p EXCEPT !.left = @ + 1]
          BY <1>2, <3>1, <3>4 DEF PScan
        <4> QED BY <3>2, <3>3, <4>1, <4>2
      <3>5. CASE p.left > Len(p.order)
        <4>1. p.order[1] \in Runners
          BY <3>1
        <4>2. p' = [p EXCEPT !.pc = "expire", !.target = p.order[1]]
          BY <1>2, <3>1, <3>5 DEF PScan
        <4> QED BY <3>2, <4>1, <4>2
      <3> QED BY <3>1, <3>4, <3>5
    <2> QED BY <1>2, <2>1, Frame DEF PScan, TypeInv, channels, outside
  <1>3. CASE PExpire
    <2>1. RunnerType'
      BY <1>3, MarkType DEF PExpire, TypeInv
    <2>2. PInv'
      BY <1>3 DEF PExpire, PInv, PType, PSet, TypeInv
    <2> QED BY <1>3, <2>1, <2>2, Frame DEF PExpire, TypeInv, channels, outside
  <1>4. CASE PSend
    <2>1. RunnerType' /\ ExpiredType'
      <3>1. p.target \in Runners
        BY <1>4 DEF PSend, TypeInv, PInv, PSet
      <3> QED BY <1>4, <3>1, SendType DEF PSend, TypeInv

    <2>2. PInv'
      BY <1>4 DEF PSend, PInv, PType, PSet, TypeInv
    <2> QED
      BY <1>4, <2>1, <2>2, Frame DEF PSend, SendAndUnlock, SendExpired, TypeInv, channels,
         outside
  <1>5. CASE PWait
    <2>1. UnloadedType'
      BY <1>5, Constants DEF PWait, UnloadedType, TypeInv
    <2>2. PInv'
      BY <1>5 DEF PWait, PInv, PType, PSet, TypeInv
    <2> QED BY <1>5, <2>1, <2>2, Frame DEF PWait, TypeInv, channels, outside
  <1>6. CASE PEvictAll
    <2>1. PInv'
      <3> DEFINE others == {r \in LoadedRunners : ModelOf[r] # ModelOf[p.req]}
                 n      == Cardinality(others)
      <3>1. n \in Nat /\ (others # {} => n > 0) /\ others \subseteq Runners
        BY OthersCount DEF LoadedRunners
      <3>2. p' = IF others = {} THEN [p EXCEPT !.pc = "top"]
                 ELSE [p EXCEPT !.pc = "evict", !.todo = others, !.left = n]
        BY <1>6 DEF PEvictAll
      <3> HIDE DEF others, n
      <3>3. CASE others = {}
        BY ZenonT(60), <1>6, <3>2, <3>3 DEF PEvictAll, TypeInv, PInv, PType, PSet
      <3>4. CASE others # {}
        BY ZenonT(60), <1>6, <3>1, <3>2, <3>4 DEF PEvictAll, TypeInv, PInv, PType, PSet
      <3> QED BY <3>3, <3>4
    <2> QED BY <1>6, <2>1, Frame DEF PEvictAll, TypeInv, channels, outside
  <1>7. CASE PEvict
    <2>1. RunnerType'
      BY <1>7, MarkType DEF PEvict, TypeInv
    <2>2. PInv'
      <3> PICK r \in p.todo :
                 p' = [p EXCEPT !.todo = p.todo \ {r}, !.target = r,
                                !.pc = IF runner[r].refCount = 0 THEN "evictSend"
                                       ELSE IF p.todo = {r} THEN "evictWait" ELSE "evict"]
        BY <1>7 DEF PEvict
      <3> QED BY <1>7 DEF PEvict, TypeInv, PInv, PType, PSet
    <2> QED BY <1>7, <2>1, <2>2, Frame DEF PEvict, TypeInv, channels, outside
  <1>8. CASE PEvictSend
    <2>1. RunnerType' /\ ExpiredType'
      <3>1. p.target \in Runners
        BY <1>8 DEF PEvictSend, TypeInv, PInv, PSet
      <3> QED BY <1>8, <3>1, SendType DEF PEvictSend, TypeInv

    <2>2. PInv'
      BY <1>8 DEF PEvictSend, PInv, PType, PSet, TypeInv
    <2> QED
      BY <1>8, <2>1, <2>2, Frame DEF PEvictSend, SendAndUnlock, SendExpired, TypeInv,
         channels, outside
  <1>9. CASE PEvictWait
    <2>1. UnloadedType'
      BY <1>9, Constants DEF PEvictWait, UnloadedType, TypeInv
    <2>2. PInv'
      <3> DEFINE n  == p.left - 1
                 pc == IF p.left = 1 THEN "top" ELSE "evictWait"
      <3>1. p' = [p EXCEPT !.left = n, !.pc = pc]
        BY <1>9 DEF PEvictWait
      <3>2. n \in Nat /\ pc \in {"top", "evictWait"} /\ (pc = "evictWait" => n > 0)
        BY <1>9 DEF PEvictWait, TypeInv, PInv, PType, PSet
      <3> HIDE DEF n, pc
      <3> QED BY <1>9, <3>1, <3>2 DEF PEvictWait, TypeInv, PInv, PType, PSet
    <2> QED BY <1>9, <2>1, <2>2, Frame DEF PEvictWait, TypeInv, channels, outside
  <1>10. CASE PStop
    <2>1. PInv'
      BY <1>10 DEF PStop, PInv, PType, PSet, TypeInv
    <2> QED BY <1>10, <2>1, Frame DEF PStop, TypeInv, channels, outside
  <1> QED BY <1>1, <1>2, <1>3, <1>4, <1>5, <1>6, <1>7, <1>8, <1>9, <1>10

\* processCompleted.
LEMMA CompletedKeepsTypes ==
  ASSUME TypeInv,
         CDecrement \/ CSend \/ CExpired \/ CBusy \/ CDuplicateOrOrphan \/ CUnload \/
         CRecovered \/ CNotify \/ CStop
  PROVE  TypeInv'
  <1>1. CASE CDecrement
    <2>1. RunnerType'
      <3> DEFINE r      == c.runner
                 n      == (runner[r].refCount + RefMod - 1) % RefMod
                 atOnce == runner[r].session = "zero"
                 t == IF n # 0 THEN runner[r].timer ELSE IF atOnce THEN "nil" ELSE "running"
                 h == IF n = 0 /\ atOnce THEN "C" ELSE "free"
                 v == [runner[r] EXCEPT !.refCount = n, !.timer = t, !.refMu = h]
      <3>1. runner' = [runner EXCEPT ![r] = v]
        BY <1>1 DEF CDecrement
      <3>2. r \in Runners => n \in 0 .. (RefMod - 1)
        BY RefCountRange DEF TypeInv, RunnerType, Runner
      <3>3. r \in Runners => t \in {"nil", "running", "fired"}
        BY DEF TypeInv, RunnerType, Runner
      <3>4. h \in {"free", "C"}
        OBVIOUS
      <3> HIDE DEF n, t, h
      <3>5. r \in Runners => v \in Runner
        BY ZenonT(60), <3>2, <3>3, <3>4 DEF TypeInv, RunnerType, Runner
      <3> QED BY <3>1, <3>5, RunnerUpdate DEF TypeInv

    <2>2. CInv'
      BY <1>1 DEF CDecrement, CInv, CType, CSet, TypeInv
    <2> QED BY <1>1, <2>1, <2>2, Frame DEF CDecrement, TypeInv, channels, outside
  <1>2. CASE CSend
    <2>1. RunnerType' /\ ExpiredType'
      <3>1. c.runner \in Runners
        BY <1>2 DEF CSend, TypeInv, CInv, CSet
      <3> QED BY <1>2, <3>1, SendType DEF CSend, TypeInv

    <2>2. CInv'
      BY <1>2 DEF CSend, CInv, CType, CSet, TypeInv
    <2> QED
      BY <1>2, <2>1, <2>2, Frame DEF CSend, SendAndUnlock, SendExpired, TypeInv, channels,
         outside
  <1>3. CASE CExpired
    <2>1. ExpiredType'
      BY <1>3, Constants DEF CExpired, ExpiredType, TypeInv
    <2>2. CInv'
      BY <1>3 DEF CExpired, ExpiredType, CInv, CType, CSet, TypeInv
    <2> QED BY <1>3, <2>1, <2>2, Frame DEF CExpired, TypeInv, channels, outside
  <1>4. CASE CBusy
    <2>1. RunnerType'
      <3> DEFINE r == c.runner
                 v == [runner[r] EXCEPT !.retry = @ + 1]
      <3>1. runner' = [runner EXCEPT ![r] = v]
        BY <1>4 DEF CBusy
      <3>2. r \in Runners => v \in Runner
        BY DEF TypeInv, RunnerType, Runner
      <3> QED BY <3>1, <3>2, RunnerUpdate DEF TypeInv

    <2>2. CInv'
      BY <1>4 DEF CBusy, CInv, CType, CSet, TypeInv
    <2> QED BY <1>4, <2>1, <2>2, Frame DEF CBusy, TypeInv, channels, outside
  <1>5. CASE CDuplicateOrOrphan
    <2>1. RunnerType'
      <3>1. CASE UNCHANGED runner
        BY <3>1, Frame DEF TypeInv
      <3>2. CASE Unload(c.runner, "free")
        BY <3>2, UnloadType DEF TypeInv
      <3> QED BY <1>5, <3>1, <3>2 DEF CDuplicateOrOrphan

    <2>2. CInv'
      BY <1>5 DEF CDuplicateOrOrphan, CInv, CType, CSet, TypeInv
    <2> QED BY <1>5, <2>1, <2>2, Frame DEF CDuplicateOrOrphan, TypeInv, channels, outside
  <1>6. CASE CUnload
    <2>1. RunnerType'
      BY <1>6, UnloadType DEF CUnload, TypeInv
    <2>2. MapType'
      BY <1>6 DEF CUnload, MapType, TypeInv
    <2>3. CInv'
      BY <1>6 DEF CUnload, CInv, CType, CSet, TypeInv
    <2> QED BY <1>6, <2>1, <2>2, <2>3, Frame DEF CUnload, TypeInv, channels, outside
  <1>7. CASE CRecovered
    <2>1. RunnerType'
      BY ZenonT(60), <1>7 DEF CRecovered, RunnerType, Runner, TypeInv
    <2>2. CInv'
      BY <1>7 DEF CRecovered, CInv, CType, CSet, TypeInv
    <2> QED BY <1>7, <2>1, <2>2, Frame DEF CRecovered, TypeInv, channels, outside
  <1>8. CASE CNotify
    <2>1. UnloadedType'
      BY <1>8, Constants DEF CNotify, UnloadedType, TypeInv
    <2>2. CInv'
      BY <1>8 DEF CNotify, CInv, CType, CSet, TypeInv
    <2> QED BY <1>8, <2>1, <2>2, Frame DEF CNotify, TypeInv, channels, outside
  <1>9. CASE CStop
    <2>1. CInv'
      BY <1>9 DEF CStop, CInv, CType, CSet, TypeInv
    <2> QED BY <1>9, <2>1, Frame DEF CStop, TypeInv, channels, outside
  <1> QED BY <1>1, <1>2, <1>3, <1>4, <1>5, <1>6, <1>7, <1>8, <1>9

\* processCompleted, when a request is over.
LEMMA FinishedKeepsTypes ==
  ASSUME TypeInv, NEW q \in Requests,
         CFinished(q)
  PROVE  TypeInv'
  <1>1. CASE CFinished(q)
    <2>1. RequestInv'
      BY <1>1 DEF CFinished, RequestInv, RequestType, Request, RefsSet, TypeInv
    <2>2. CInv'
      BY <1>1, Constants DEF CFinished, MapType, Runners, CInv, CType, CSet, TypeInv
    <2> QED BY <1>1, <2>1, <2>2, Frame DEF CFinished, TypeInv, channels, outside
  <1> QED BY <1>1

\* The goroutines of a runner, and its death.
LEMMA GoroutinesKeepTypes ==
  ASSUME TypeInv, NEW r \in Runners,
         LoaderReady(r) \/ LoaderFails(r) \/ LoaderExpires(r) \/ TimerFires(r) \/
         TimerLocks(r) \/ TimerSends(r) \/ RetrySends(r) \/ Crash(r)
  PROVE  TypeInv'
  <1>1. CASE LoaderReady(r)
    <2>1. RequestInv'
      <3> DEFINE v == [request[r] EXCEPT !.watch = "armed", !.ref = r, !.reply = "ok"]
      <3>1. request' = [request EXCEPT ![r] = v]
        BY <1>1 DEF LoaderReady
      <3>2. v \in Request /\ v.ref \in Runners
        BY DEF TypeInv, RequestInv, RequestType, Request, Runners
      <3> QED BY <3>1, <3>2, RequestUpdate DEF TypeInv

    <2>2. RunnerType'
      <3> DEFINE n == (runner[r].refCount + 1) % RefMod
                 v == [runner[r] EXCEPT !.refCount = n, !.refMu = "free"]
      <3>1. runner' = [runner EXCEPT ![r] = v]
        BY <1>1 DEF LoaderReady
      <3>2. n \in 0 .. (RefMod - 1)
        BY RefCountRange DEF TypeInv, RunnerType, Runner
      <3> HIDE DEF n
      <3>3. v \in Runner
        BY <3>2 DEF TypeInv, RunnerType, Runner
      <3> QED BY <3>1, <3>3, RunnerUpdate DEF TypeInv
    <2> QED BY <1>1, <2>1, <2>2, Frame DEF LoaderReady, TypeInv, channels, outside
  <1>2. CASE LoaderFails(r)
    <2>1. RequestInv'
      BY <1>2, ReplyType DEF LoaderFails, TypeInv
    <2>2. RunnerType'
      BY <1>2 DEF LoaderFails, RunnerType, Runner, TypeInv
    <2> QED BY <1>2, <2>1, <2>2, Frame DEF LoaderFails, TypeInv, channels, outside
  <1>3. CASE LoaderExpires(r)
    <2>1. RunnerType' /\ ExpiredType'
      BY <1>3, SendType DEF LoaderExpires, TypeInv
    <2> QED
      BY <1>3, <2>1, Frame DEF LoaderExpires, SendAndUnlock, SendExpired, TypeInv,
         channels, outside
  <1>4. CASE TimerFires(r)
    <2>1. RunnerType'
      <3> DEFINE n == runner[r].fired + 1
                 v == [runner[r] EXCEPT !.timer = "fired", !.fired = n]
      <3>1. runner' = [runner EXCEPT ![r] = v]
        BY <1>4 DEF TimerFires
      <3>2. n \in Nat
        BY DEF TypeInv, RunnerType, Runner
      <3> HIDE DEF n
      <3>3. v \in Runner
        BY <3>2 DEF TypeInv, RunnerType, Runner
      <3> QED BY <3>1, <3>3, RunnerUpdate DEF TypeInv
    <2> QED BY <1>4, <2>1, Frame DEF TimerFires, TypeInv, channels, outside
  <1>5. CASE TimerLocks(r)
    <2>1. RunnerType'
      <3> DEFINE n == runner[r].fired - 1
                 v == [runner[r] EXCEPT !.timer = "nil", !.refMu = "timer", !.fired = n]
      <3>1. runner' = [runner EXCEPT ![r] = v]
        BY <1>5 DEF TimerLocks
      <3>2. n \in Nat
        BY <1>5 DEF TimerLocks, TypeInv, RunnerType, Runner
      <3> HIDE DEF n
      <3>3. v \in Runner
        BY <3>2 DEF TypeInv, RunnerType, Runner
      <3> QED BY <3>1, <3>3, RunnerUpdate DEF TypeInv
    <2> QED BY <1>5, <2>1, Frame DEF TimerLocks, TypeInv, channels, outside
  <1>6. CASE TimerSends(r)
    <2>1. RunnerType' /\ ExpiredType'
      BY <1>6, SendType DEF TimerSends, TypeInv
    <2> QED
      BY <1>6, <2>1, Frame DEF TimerSends, SendAndUnlock, SendExpired, TypeInv, channels,
         outside
  <1>7. CASE RetrySends(r)
    <2>1. RunnerType'
      BY <1>7 DEF RetrySends, RunnerType, Runner, TypeInv
    <2>2. ExpiredType'
      BY <1>7, ExpiredSendType DEF RetrySends, TypeInv
    <2> QED
      BY <1>7, <2>1, <2>2, Frame DEF RetrySends, SendExpired, TypeInv, channels, outside
  <1>8. CASE Crash(r)
    <2>1. RunnerType'
      BY <1>8 DEF Crash, RunnerType, Runner, TypeInv
    <2>2. OutsideType'
      BY <1>8, Constants DEF Crash, OutsideType, TypeInv
    <2> QED BY <1>8, <2>1, <2>2, Frame DEF Crash, TypeInv, channels, outside
  <1> QED BY <1>1, <1>2, <1>3, <1>4, <1>5, <1>6, <1>7, <1>8

\* expireRunner and expireRunnersForRuntimeOOM are called.
LEMMA ExpireKeepsTypes ==
  ASSUME TypeInv, NEW q, NEW m \in Models,
         XExpireModel(m) \/ XRuntimeOOM(q)
  PROVE  TypeInv'
  <1>1. CASE XExpireModel(m)
    <2>1. OutsideType'
      <3>1. loaded[m] \in Runners
        BY <1>1, Constants DEF XExpireModel, LoadedRunners, TypeInv, MapType
      <3>2. x' = [todo |-> {loaded[m]}, sending |-> x.sending, calls |-> x.calls + 1]
        BY <1>1 DEF XExpireModel, TypeInv, OutsideType
      <3> QED BY <1>1, <3>1, <3>2, Constants DEF XExpireModel, TypeInv, OutsideType
    <2> QED BY <1>1, <2>1, Frame DEF XExpireModel, TypeInv, channels, outside
  <1>2. CASE XRuntimeOOM(q)
    <2>1. OutsideType'
      <3>1. LoadedRunners \subseteq Runners
        BY <1>2, Constants DEF XRuntimeOOM, LoadedRunners, TypeInv, MapType
      <3>2. x' = [todo |-> LoadedRunners, sending |-> x.sending, calls |-> x.calls + 1]
        BY <1>2 DEF XRuntimeOOM, TypeInv, OutsideType
      <3> QED BY <1>2, <3>1, <3>2, Constants DEF XRuntimeOOM, TypeInv, OutsideType
    <2> QED BY <1>2, <2>1, Frame DEF XRuntimeOOM, TypeInv, channels, outside
  <1> QED BY <1>1, <1>2

\* They mark and send the runners; the shutdown.
LEMMA OutsideKeepsTypes ==
  ASSUME TypeInv,
         XMark \/ XSend \/ ShutdownCancels \/ UnloadAllRunners
  PROVE  TypeInv'
  <1>1. CASE XMark
    <2>1. RunnerType'
      BY <1>1, MarkType DEF XMark, TypeInv
    <2>2. OutsideType'
      BY <1>1 DEF XMark, OutsideType, TypeInv
    <2> QED BY <1>1, <2>1, <2>2, Frame DEF XMark, TypeInv, channels, outside
  <1>2. CASE XSend
    <2>1. RunnerType' /\ ExpiredType'
      <3>1. x.sending \in Runners
        BY <1>2 DEF XSend, TypeInv, OutsideType
      <3> QED BY <1>2, <3>1, SendType DEF XSend, TypeInv

    <2>2. OutsideType'
      BY <1>2 DEF XSend, OutsideType, TypeInv
    <2> QED
      BY <1>2, <2>1, <2>2, Frame DEF XSend, SendAndUnlock, SendExpired, TypeInv, channels,
         outside
  <1>3. CASE ShutdownCancels
    <2>1. OutsideType'
      BY <1>3 DEF ShutdownCancels, OutsideType, TypeInv
    <2> QED BY <1>3, <2>1, Frame DEF ShutdownCancels, TypeInv, channels, outside
  <1>4. CASE UnloadAllRunners
    <2>1. RunnerType'
      BY <1>4 DEF UnloadAllRunners, RunnerType, Runner, TypeInv
    <2>2. MapType'
      BY <1>4 DEF UnloadAllRunners, MapType, TypeInv
    <2>3. OutsideType'
      BY <1>4 DEF UnloadAllRunners, OutsideType, TypeInv
    <2> QED
      BY <1>4, <2>1, <2>2, <2>3, Frame DEF UnloadAllRunners, TypeInv, channels, outside
  <1> QED BY <1>1, <1>2, <1>3, <1>4

\* Initially.
LEMMA InitTypes == Init => TypeInv
  <1> SUFFICES ASSUME Init PROVE TypeInv
    OBVIOUS
  <1>1. RequestInv
    BY DEF Init, RequestInv, RequestType, Request, RefsSet
  <1>2. RunnerType
    BY SchedulerAssumption, RefCountRange DEF Init, RunnerType, Runner, SchedulerAssumption
  <1>3. MapType /\ PendingType /\ ExpiredType /\ UnloadedType
    BY Constants DEF Init, MapType, PendingType, ExpiredType, UnloadedType
  <1>4. PInv /\ CInv
    BY DEF Init, PInv, PType, PSet, CInv, CType, CSet
  <1>5. OutsideType
    BY Constants DEF Init, OutsideType
  <1> QED BY <1>1, <1>2, <1>3, <1>4, <1>5 DEF TypeInv

\* Every step keeps the type invariant.
LEMMA NextTypes ==
  ASSUME TypeInv, [Next]_vars
  PROVE  TypeInv'
  <1>1. CASE UNCHANGED vars
    BY <1>1, Frame DEF vars, channels, outside, TypeInv
  <1>2. ASSUME NEW q \in Requests,
               HLookup(q) \/ HCheck(q) \/ HUse(q) \/ HEnqueue(q) \/ HFinish(q) \/ HCancel(q)
        PROVE  TypeInv'
    BY <1>2, HandlerKeepsTypes
  <1>3. ASSUME NEW q \in Requests, CFinished(q)
        PROVE  TypeInv'
    BY <1>3, FinishedKeepsTypes
  <1>4. ASSUME NEW q \in Requests, XRuntimeOOM(q)
        PROVE  TypeInv'
    <2>1. ModelOf[q] \in Models
      BY Constants
    <2> QED BY <1>4, <2>1, ExpireKeepsTypes
  <1>5. CASE \/ PRecv \/ PIgnoreUnload \/ PTop \/ PCheck \/ PUse \/ PSpace \/ PSum
             \/ PCreate \/ PCreateFails \/ PPreflight
             \/ PInstall \/ PRequiredFull \/ PLoadOOM \/ PLoadFails \/ PLoadPanics
    BY <1>5, PendingKeepsTypes
  <1>6. CASE \/ PList \/ PScan \/ PExpire \/ PSend \/ PWait
             \/ PEvictAll \/ PEvict \/ PEvictSend \/ PEvictWait \/ PStop
    BY <1>6, EvictionKeepsTypes
  <1>7. CASE \/ CExpired \/ CDecrement \/ CSend \/ CBusy \/ CDuplicateOrOrphan \/ CUnload
             \/ CRecovered \/ CNotify \/ CStop
    BY <1>7, CompletedKeepsTypes
  <1>8. ASSUME NEW r \in Runners,
               \/ LoaderReady(r) \/ LoaderFails(r) \/ LoaderExpires(r)
               \/ TimerFires(r) \/ TimerLocks(r) \/ TimerSends(r)
               \/ RetrySends(r) \/ Crash(r)
        PROVE  TypeInv'
    BY <1>8, GoroutinesKeepTypes
  <1>9. ASSUME NEW m \in Models, XExpireModel(m)
        PROVE  TypeInv'
    BY <1>9, ExpireKeepsTypes
  <1>10. CASE XMark \/ XSend \/ ShutdownCancels \/ UnloadAllRunners
    BY <1>10, OutsideKeepsTypes
  <1> QED
    BY <1>1, <1>2, <1>3, <1>4, <1>5, <1>6, <1>7, <1>8, <1>9, <1>10
       DEF Next, Terminated

\* The struct fields, the channels and the counters keep their types and bounds,
\* for any number of models and requests and any channel capacity.
THEOREM TypeCorrect == Spec => []TypeOK
  <1>1. TypeInv => TypeOK
    BY DEF TypeInv, TypeOK, RequestInv, PInv, CInv
  <1> QED BY <1>1, InitTypes, NextTypes, PTL DEF Spec

----------------------------------------------------------------------------
(* The loads: the slot of the model being loaded, the number of loaded     *)
(* models, and the processes that are up.                                  *)

\* P is between its look at the map and the end of a load.
Attempting == p.pc \in {"space", "sum", "create", "load"}

\* What makes LoadSlotFree inductive: a server being loaded belongs to the pending
\* request, wherever P is in its loop, and its model is not in the map, so that P
\* cannot turn to a loaded runner before it has dealt with that server.
SlotInv ==
    /\ Attempting => loaded[ModelOf[p.req]] = None
    /\ activeLoading # None =>
          /\ activeLoading = p.req /\ p.pc # "idle"
          /\ loaded[ModelOf[p.req]] = None
    /\ p.pc \in {"check", "use"} => activeLoading = None
    /\ p.pc = "load" /\ down # "unloaded" => activeLoading = p.req

\* What makes MaxLoaded inductive: the room P saw is still there when it installs.
CountInv ==
    /\ MaxLoaded
    /\ Attempting => Cardinality(LoadedModels) < MaxRunners

LoadInv == SlotInv /\ CountInv /\ NoOrphanServer

\* No step other than PCreate starts a server.
NoStart == \A r \in Runners : runner'[r].server = "live" => runner[r].server = "live"

\* Steps that leave the load alone keep its invariants.
LEMMA LoadFrame ==
    /\ SlotInv /\ UNCHANGED <<loaded, activeLoading, p, down>> => SlotInv'
    /\ CountInv /\ UNCHANGED <<loaded, p>> => CountInv'
    /\ NoOrphanServer /\ UNCHANGED <<loaded, activeLoading, down>> /\ NoStart
            => NoOrphanServer'
  BY DEF SlotInv, Attempting, CountInv, MaxLoaded, LoadedModels, NoOrphanServer,
         LoadedRunners, NoStart

LEMMA NoStartUpdate ==
  ASSUME RunnerType, NEW r, NEW v, runner' = [runner EXCEPT ![r] = v],
         r \in Runners => v.server \in {runner[r].server, "closed", "crashed"}
  PROVE  NoStart
  BY DEF RunnerType, NoStart

\* The steps by which runners change.
LEMMA SharedStepsStartNothing ==
  ASSUME RunnerType, NEW r, NEW q, NEW holder,
         \/ UNCHANGED runner
         \/ UseLoadedRunner(q, r) \/ MarkExpired(r, holder) \/ SendAndUnlock(r, holder)
         \/ Unload(r, holder)
  PROVE  NoStart
  <1>1. CASE UNCHANGED runner
    BY <1>1 DEF NoStart
  <1>2. CASE UseLoadedRunner(q, r)
    <2> DEFINE v == [runner[r] EXCEPT
                       !.refCount = (runner[r].refCount + 1) % RefMod,
                       !.timer    = "nil",
                       !.session  = IF KeepAliveOf[q] = "unset" THEN runner[r].session
                                                                ELSE KeepAliveOf[q]]
    <2>1. runner' = [runner EXCEPT ![r] = v]
      BY <1>2 DEF UseLoadedRunner
    <2>2. r \in Runners => v.server = runner[r].server
      BY DEF RunnerType, Runner
    <2> QED BY <2>1, <2>2, NoStartUpdate
  <1>3. CASE MarkExpired(r, holder)
    <2> DEFINE v == [runner[r] EXCEPT !.timer = "nil", !.session = "zero",
                       !.refMu = IF runner[r].refCount = 0 THEN holder ELSE "free"]
    <2>1. runner' = [runner EXCEPT ![r] = v]
      BY <1>3 DEF MarkExpired
    <2>2. r \in Runners => v.server = runner[r].server
      BY DEF RunnerType, Runner
    <2> QED BY <2>1, <2>2, NoStartUpdate
  <1>4. CASE SendAndUnlock(r, holder)
    BY <1>4 DEF SendAndUnlock, RunnerType, Runner, NoStart
  <1>5. CASE Unload(r, holder)
    <2> DEFINE v == [runner[r] EXCEPT !.timer = "nil", !.server = "closed",
                                      !.valid = FALSE, !.refMu  = holder]
    <2>1. runner' = [runner EXCEPT ![r] = v]
      BY <1>5 DEF Unload
    <2>2. r \in Runners => v.server = "closed"
      BY DEF RunnerType, Runner
    <2> QED BY <2>1, <2>2, NoStartUpdate
  <1> QED BY <1>1, <1>2, <1>3, <1>4, <1>5

LEMMA CompletedStartsNothing ==
  ASSUME RunnerType,
         CDecrement \/ CSend \/ CBusy \/ CDuplicateOrOrphan \/ CUnload \/ CRecovered
  PROVE  NoStart
  <1>1. CASE CDecrement
    <2> DEFINE r      == c.runner
               n      == (runner[r].refCount + RefMod - 1) % RefMod
               atOnce == runner[r].session = "zero"
               v == [runner[r] EXCEPT
                       !.refCount = n,
                       !.timer = IF n # 0 THEN runner[r].timer
                                 ELSE IF atOnce THEN "nil" ELSE "running",
                       !.refMu = IF n = 0 /\ atOnce THEN "C" ELSE "free"]
    <2>1. runner' = [runner EXCEPT ![r] = v]
      BY <1>1 DEF CDecrement
    <2>2. r \in Runners => v.server = runner[r].server
      BY DEF RunnerType, Runner
    <2> QED BY <2>1, <2>2, NoStartUpdate
  <1>2. CASE CBusy
    BY <1>2 DEF CBusy, RunnerType, Runner, NoStart
  <1>3. CASE CRecovered
    BY <1>3 DEF CRecovered, RunnerType, Runner, NoStart
  <1>4. CASE CSend \/ CDuplicateOrOrphan \/ CUnload
    BY <1>4, SharedStepsStartNothing DEF CSend, CDuplicateOrOrphan, CUnload
  <1> QED BY <1>1, <1>2, <1>3, <1>4

LEMMA GoroutinesStartNothing ==
  ASSUME RunnerType, NEW r \in Runners,
         \/ LoaderReady(r) \/ LoaderFails(r) \/ LoaderExpires(r)
         \/ TimerFires(r) \/ TimerLocks(r) \/ TimerSends(r)
         \/ RetrySends(r) \/ Crash(r)
  PROVE  NoStart
  <1>1. CASE LoaderReady(r)
    <2> DEFINE v == [runner[r] EXCEPT !.refCount = (runner[r].refCount + 1) % RefMod,
                                      !.refMu = "free"]
    <2>1. runner' = [runner EXCEPT ![r] = v]
      BY <1>1 DEF LoaderReady
    <2>2. v.server = runner[r].server
      BY DEF RunnerType, Runner
    <2> QED BY <2>1, <2>2, NoStartUpdate
  <1>2. CASE TimerFires(r)
    <2> DEFINE v == [runner[r] EXCEPT !.timer = "fired", !.fired = runner[r].fired + 1]
    <2>1. runner' = [runner EXCEPT ![r] = v]
      BY <1>2 DEF TimerFires
    <2>2. v.server = runner[r].server
      BY DEF RunnerType, Runner
    <2> QED BY <2>1, <2>2, NoStartUpdate
  <1>3. CASE TimerLocks(r)
    <2> DEFINE v == [runner[r] EXCEPT !.timer = "nil", !.refMu = "timer",
                                      !.fired = runner[r].fired - 1]
    <2>1. runner' = [runner EXCEPT ![r] = v]
      BY <1>3 DEF TimerLocks
    <2>2. v.server = runner[r].server
      BY DEF RunnerType, Runner
    <2> QED BY <2>1, <2>2, NoStartUpdate
  <1>4. CASE LoaderFails(r)
    BY <1>4 DEF LoaderFails, RunnerType, Runner, NoStart
  <1>5. CASE RetrySends(r)
    BY <1>5 DEF RetrySends, RunnerType, Runner, NoStart
  <1>6. CASE Crash(r)
    BY <1>6 DEF Crash, RunnerType, Runner, NoStart
  <1>7. CASE LoaderExpires(r) \/ TimerSends(r)
    BY <1>7, SharedStepsStartNothing DEF LoaderExpires, TimerSends
  <1> QED BY <1>1, <1>2, <1>3, <1>4, <1>5, <1>6, <1>7

----------------------------------------------------------------------------

\* Steps that neither move P nor change the map.
LEMMA QuietSteps ==
  ASSUME TypeInv, LoadInv, NEW q, NEW m,
         \/ HLookup(q) \/ HCheck(q) \/ HUse(q) \/ HEnqueue(q) \/ HFinish(q) \/ HCancel(q)
         \/ CFinished(q) \/ XRuntimeOOM(q) \/ XExpireModel(m) \/ XMark \/ XSend
         \/ PIgnoreUnload \/ CExpired \/ CDecrement \/ CSend \/ CBusy \/ CDuplicateOrOrphan
         \/ CRecovered \/ CNotify \/ CStop
         \/ \E r \in Runners :
               \/ LoaderReady(r) \/ LoaderFails(r) \/ LoaderExpires(r)
               \/ TimerFires(r) \/ TimerLocks(r) \/ TimerSends(r)
               \/ RetrySends(r) \/ Crash(r)
  PROVE  LoadInv'
  <1> USE DEF TypeInv, LoadInv
  <1>1. CASE \/ HLookup(q) \/ HCheck(q) \/ HUse(q) \/ HEnqueue(q) \/ HFinish(q) \/ HCancel(q)
    <2>1. UNCHANGED <<loaded, activeLoading, p, down>>
      BY <1>1 DEF HLookup, HCheck, HUse, HEnqueue, HFinish, HCancel, outside
    <2>2. NoStart
      BY <1>1, SharedStepsStartNothing DEF HLookup, HCheck, HUse, HEnqueue, HFinish, HCancel
    <2> QED BY <2>1, <2>2, LoadFrame
  <1>2. CASE CFinished(q) \/ XRuntimeOOM(q) \/ XExpireModel(m) \/ XMark \/ XSend
    <2>1. UNCHANGED <<loaded, activeLoading, p, down>>
      BY <1>2 DEF CFinished, XRuntimeOOM, XExpireModel, XMark, XSend, outside
    <2>2. NoStart
      BY <1>2, SharedStepsStartNothing DEF CFinished, XRuntimeOOM, XExpireModel, XMark, XSend
    <2> QED BY <2>1, <2>2, LoadFrame
  <1>3. CASE \/ PIgnoreUnload \/ CExpired \/ CDecrement \/ CSend \/ CBusy \/ CDuplicateOrOrphan
             \/ CRecovered \/ CNotify \/ CStop
    <2>1. UNCHANGED <<loaded, activeLoading, p, down>>
      BY <1>3 DEF PIgnoreUnload, CExpired, CDecrement, CSend, CBusy, CDuplicateOrOrphan,
                  CRecovered, CNotify, CStop, outside
    <2>2. NoStart
      BY <1>3, CompletedStartsNothing, SharedStepsStartNothing
         DEF PIgnoreUnload, CExpired, CNotify, CStop
    <2> QED BY <2>1, <2>2, LoadFrame
  <1>4. ASSUME NEW r \in Runners,
               \/ LoaderReady(r) \/ LoaderFails(r) \/ LoaderExpires(r)
               \/ TimerFires(r) \/ TimerLocks(r) \/ TimerSends(r)
               \/ RetrySends(r) \/ Crash(r)
        PROVE  LoadInv'
    <2>1. UNCHANGED <<loaded, activeLoading, p, down>>
      BY <1>4 DEF LoaderReady, LoaderFails, LoaderExpires, TimerFires, TimerLocks, TimerSends,
                  RetrySends, Crash, outside
    <2> QED BY <1>4, <2>1, GoroutinesStartNothing, LoadFrame
  <1> QED BY <1>1, <1>2, <1>3, <1>4

\* P leaves an attempt, or goes on making room: a state with no demand on the map.
Retreat ==
    /\ p'.req = p.req
    /\ p'.pc \in {"top", "list", "scan", "expire", "send", "wait",
                  "evictAll", "evict", "evictSend", "evictWait", "stopped", "panic"}

LEMMA RetreatKeeps ==
  ASSUME LoadInv, Retreat, UNCHANGED <<loaded, activeLoading, down>>, NoStart
  PROVE  LoadInv'
  <1>1. SlotInv'
    BY DEF LoadInv, SlotInv, Retreat, Attempting
  <1>2. CountInv'
    BY DEF LoadInv, CountInv, Retreat, Attempting, MaxLoaded, LoadedModels
  <1>3. NoOrphanServer'
    BY LoadFrame DEF LoadInv
  <1> QED BY <1>1, <1>2, <1>3 DEF LoadInv

LEMMA RetreatSteps ==
  ASSUME TypeInv, LoadInv,
         \/ PPreflight \/ PRequiredFull \/ PLoadPanics \/ PList \/ PScan \/ PExpire
         \/ PSend \/ PWait \/ PEvictAll \/ PEvict \/ PEvictSend \/ PEvictWait \/ PStop
  PROVE  LoadInv'
  <1>1. PType /\ RunnerType
    BY DEF TypeInv, PInv
  <1>2. UNCHANGED <<loaded, activeLoading, down>>
    BY DEF PPreflight, PRequiredFull, PLoadPanics, PList, PScan, PExpire, PSend, PWait,
           PEvictAll, PEvict, PEvictSend, PEvictWait, PStop, outside
  <1>3. NoStart
    BY <1>1, SharedStepsStartNothing
       DEF PPreflight, PRequiredFull, PLoadPanics, PList, PScan, PExpire, PSend, PWait,
           PEvictAll, PEvict, PEvictSend, PEvictWait, PStop
  <1>4. Retreat
    <2>1. CASE PPreflight \/ PRequiredFull \/ PLoadPanics \/ PExpire \/ PSend \/ PWait
               \/ PEvictSend \/ PStop
      BY <1>1, <2>1 DEF PPreflight, PRequiredFull, PLoadPanics, PExpire, PSend, PWait,
                        PEvictSend, PStop, AfterNeedEvict, PType, Retreat
    <2>2. CASE PList
      BY <1>1, <2>2 DEF PList, PType, Retreat
    <2>3. CASE PScan
      BY <1>1, <2>3 DEF PScan, PType, Retreat
    <2>4. CASE PEvictAll
      BY <1>1, <2>4 DEF PEvictAll, PType, Retreat
    <2>5. CASE PEvict
      BY <1>1, <2>5 DEF PEvict, PType, Retreat
    <2>6. CASE PEvictWait
      BY <1>1, <2>6 DEF PEvictWait, PType, Retreat
    <2> QED BY <2>1, <2>2, <2>3, <2>4, <2>5, <2>6
  <1> QED BY <1>2, <1>3, <1>4, RetreatKeeps

\* P takes a request, looks at the map and goes through an attempt.
LEMMA AttemptSteps ==
  ASSUME TypeInv, LoadInv,
         PRecv \/ PTop \/ PCheck \/ PUse \/ PSpace \/ PSum \/ PCreateFails
  PROVE  LoadInv'
  <1>1. PType /\ RunnerType /\ MaxRunners \in Nat /\ Cardinality(LoadedModels) \in Nat
    <2>1. IsFiniteSet(LoadedModels)
      BY SchedulerAssumption, FS_Subset DEF LoadedModels, SchedulerAssumption
    <2> QED BY <2>1, SchedulerAssumption, FS_CardinalityType DEF TypeInv, PInv, SchedulerAssumption
  <1>2. UNCHANGED <<loaded, activeLoading, down>>
    BY DEF PRecv, PTop, PCheck, PUse, PSpace, PSum, PCreateFails, outside
  <1>3. UNCHANGED LoadedModels
    BY <1>2 DEF LoadedModels
  <1>4. NoOrphanServer'
    <2>1. NoStart
      BY <1>1, SharedStepsStartNothing
         DEF PRecv, PTop, PCheck, PUse, PSpace, PSum, PCreateFails
    <2> QED BY <1>2, <2>1, LoadFrame DEF LoadInv
  <1>5. SlotInv' /\ CountInv'
    <2> USE <1>1, <1>2, <1>3 DEF LoadInv, SlotInv, CountInv, MaxLoaded, Attempting
    <2>1. CASE PRecv
      <3>1. UNCHANGED p \/ (p'.pc = "top" /\ p.pc = "idle")
        BY <2>1 DEF PRecv, PType
      <3> QED BY <3>1
    <2>2. CASE PTop
      <3>1. /\ p'.req = p.req
            /\ \/ p'.pc = "check" /\ loaded[ModelOf[p.req]] # None
               \/ p'.pc = "list"
               \/ /\ p'.pc = "space" /\ loaded[ModelOf[p.req]] = None
                  /\ ~AtCapacity(Cardinality(LoadedModels))
        BY <2>2 DEF PTop, PType
      <3> QED BY <3>1 DEF AtCapacity
    <2>3. CASE PCheck
      <3>1. p.pc = "check" /\ p'.req = p.req /\ p'.pc \in {"expire", "use"}
        BY <2>3 DEF PCheck, PType
      <3> QED BY <3>1
    <2>4. CASE PUse \/ PCreateFails
      <3>1. p'.pc = "idle" /\ activeLoading = None
        BY <2>4 DEF PUse, PCreateFails, PType
      <3> QED BY <3>1
    <2>5. CASE PSpace
      <3>1. p.pc = "space" /\ p'.req = p.req /\ p'.pc = "sum"
        BY <2>5 DEF PSpace, PType
      <3> QED BY <3>1
    <2>6. CASE PSum
      <3>1. p.pc = "sum" /\ p'.req = p.req /\ p'.pc \in {"sum", "create"}
        BY <2>6 DEF PSum, PType
      <3> QED BY <3>1
    <2> QED BY <2>1, <2>2, <2>3, <2>4, <2>5, <2>6
  <1> QED BY <1>4, <1>5 DEF LoadInv

\* The server is created.
LEMMA CreateStep ==
  ASSUME TypeInv, LoadInv, PCreate
  PROVE  LoadInv'
  <1>1. /\ PType /\ RunnerType /\ p.req \in Requests
        /\ p.pc = "create" /\ p'.pc = "load" /\ p'.req = p.req
        /\ UNCHANGED <<loaded, down>>
        /\ activeLoading' = p.req
    BY DEF PCreate, TypeInv, PInv, PSet, PType, outside, LoadInv, SlotInv
  <1>2. SlotInv'
    BY <1>1, Constants DEF LoadInv, SlotInv, Attempting
  <1>3. CountInv'
    BY <1>1 DEF LoadInv, CountInv, MaxLoaded, Attempting, LoadedModels
  <1>4. NoOrphanServer'
    <2>1. \A r \in Runners : r # p.req => runner'[r] = runner[r]
      BY <1>1 DEF PCreate, RunnerType
    <2>2. activeLoading # None => activeLoading = p.req
      BY DEF LoadInv, SlotInv
    <2> QED BY <1>1, <2>1, <2>2, Constants
            DEF LoadInv, NoOrphanServer, LoadedRunners, Runners
  <1> QED BY <1>2, <1>3, <1>4 DEF LoadInv

\* The load failed and the server is closed.
LEMMA CloseSteps ==
  ASSUME TypeInv, LoadInv, PLoadOOM \/ PLoadFails
  PROVE  LoadInv'
  <1>1. /\ PType /\ RunnerType
        /\ UNCHANGED <<loaded, down>>
        /\ activeLoading' = None
        /\ p'.pc \in {"top", "list", "evictAll", "idle"}
        /\ runner' = [runner EXCEPT ![activeLoading].server = "closed"]
    BY DEF PLoadOOM, PLoadFails, CloseActive, AfterNeedEvict, TypeInv, PInv, PType, outside
  <1>2. SlotInv'
    BY <1>1 DEF SlotInv, Attempting
  <1>3. CountInv'
    BY <1>1 DEF LoadInv, CountInv, MaxLoaded, Attempting, LoadedModels
  <1>4. NoOrphanServer'
    <2>1. \A r \in Runners : runner'[r].server = "live" =>
             runner[r].server = "live" /\ r # activeLoading
      BY <1>1 DEF RunnerType, Runner
    <2> QED BY <1>1, <2>1 DEF LoadInv, NoOrphanServer, LoadedRunners
  <1> QED BY <1>2, <1>3, <1>4 DEF LoadInv

\* The runner is installed: the one step that adds to the map.
LEMMA InstallStep ==
  ASSUME TypeInv, LoadInv, PInstall
  PROVE  LoadInv'
  <1> DEFINE m == ModelOf[p.req]
  <1>1. /\ PType /\ RunnerType /\ MapType /\ p.req \in Requests /\ m \in Models
        /\ p.pc = "load" /\ p'.pc = "idle" /\ UNCHANGED down
        /\ loaded' = [loaded EXCEPT ![m] = p.req] /\ activeLoading' = None
    BY Constants DEF PInstall, TypeInv, PInv, PSet, PType, outside
  <1>2. SlotInv'
    BY <1>1 DEF SlotInv, Attempting
  <1>3. CountInv'
    <2>1. IsFiniteSet(LoadedModels) /\ MaxRunners \in Nat
      BY SchedulerAssumption, FS_Subset DEF LoadedModels, SchedulerAssumption
    <2>2. LoadedModels' = LoadedModels \cup {m}
      BY <1>1, Constants DEF LoadedModels, MapType
    <2>3. Cardinality(LoadedModels) < MaxRunners /\ m \notin LoadedModels
      BY <1>1 DEF LoadInv, CountInv, SlotInv, Attempting, LoadedModels
    <2>4. Cardinality(LoadedModels') = Cardinality(LoadedModels) + 1
      BY <2>1, <2>2, <2>3, FS_AddElement
    <2>5. Cardinality(LoadedModels) \in Nat
      BY <2>1, FS_CardinalityType
    <2> QED BY <1>1, <2>1, <2>3, <2>4, <2>5 DEF CountInv, MaxLoaded, Attempting
  <1>4. NoOrphanServer'
    <2> DEFINE s == IF KeepAliveOf[p.req] = "unset"
                    THEN DefaultKeepAlive ELSE KeepAliveOf[p.req]
               v == [runner[p.req] EXCEPT !.refMu = "loader", !.valid = TRUE, !.session = s]
    <2>1. runner' = [runner EXCEPT ![p.req] = v]
      BY DEF PInstall
    <2>2. v.server = runner[p.req].server
      BY <1>1 DEF RunnerType, Runner, Runners
    <2>3. NoStart
      BY <1>1, <2>1, <2>2, NoStartUpdate
    <2>4. loaded[m] = None /\ (down = "up" => activeLoading = p.req)
      BY <1>1 DEF LoadInv, SlotInv, Attempting
    <2>5. \A r \in Runners : r \in LoadedRunners => r \in LoadedRunners'
      BY <1>1, <2>4, Constants DEF LoadedRunners, MapType, Runners
    <2>6. p.req \in LoadedRunners'
      BY <1>1 DEF LoadedRunners, MapType, Runners
    <2> QED BY <1>1, <2>3, <2>4, <2>5, <2>6 DEF LoadInv, NoOrphanServer, NoStart
  <1> QED BY <1>2, <1>3, <1>4 DEF LoadInv

\* A runner is unloaded: the one step that removes from the map.
LEMMA UnloadStep ==
  ASSUME TypeInv, LoadInv, CUnload
  PROVE  LoadInv'
  <1> DEFINE m == ModelOf[c.runner]
  <1>1. /\ RunnerType /\ MapType /\ c.runner \in Runners /\ m \in Models
        /\ loaded[m] = c.runner
        /\ loaded' = [loaded EXCEPT ![m] = None] /\ UNCHANGED <<activeLoading, p, down>>
    BY Constants DEF CUnload, TypeInv, CInv, CSet, outside, Runners
  <1>2. SlotInv'
    BY <1>1 DEF LoadInv, SlotInv, Attempting, MapType
  <1>3. CountInv'
    <2>1. LoadedModels' \subseteq LoadedModels /\ IsFiniteSet(LoadedModels)
      BY <1>1, SchedulerAssumption, FS_Subset DEF LoadedModels, MapType, SchedulerAssumption
    <2>2. /\ Cardinality(LoadedModels') <= Cardinality(LoadedModels)
          /\ Cardinality(LoadedModels') \in Nat /\ Cardinality(LoadedModels) \in Nat
          /\ MaxRunners \in Nat
      BY <2>1, FS_Subset, FS_CardinalityType, SchedulerAssumption DEF SchedulerAssumption
    <2> QED BY <1>1, <2>2 DEF LoadInv, CountInv, MaxLoaded, Attempting
  <1>4. NoOrphanServer'
    <2>1. NoStart
      BY <1>1, CompletedStartsNothing
    <2>2. runner'[c.runner].server = "closed"
      <3> DEFINE v == [runner[c.runner] EXCEPT !.timer = "nil", !.server = "closed",
                                               !.valid = FALSE, !.refMu  = "C"]
      <3>1. runner' = [runner EXCEPT ![c.runner] = v]
        BY DEF CUnload, Unload
      <3>2. v.server = "closed"
        BY <1>1 DEF RunnerType, Runner
      <3> HIDE DEF v
      <3> QED BY <1>1, <3>1, <3>2 DEF RunnerType
    <2>3. \A r \in LoadedRunners : r # c.runner => r \in LoadedRunners'
      BY <1>1, Constants DEF LoadedRunners, MapType, Runners
    <2> QED BY <1>1, <2>1, <2>2, <2>3 DEF LoadInv, NoOrphanServer, NoStart
  <1> QED BY <1>2, <1>3, <1>4 DEF LoadInv

LEMMA ShutdownSteps ==
  ASSUME TypeInv, LoadInv, ShutdownCancels \/ UnloadAllRunners
  PROVE  LoadInv'
  <1>1. /\ UNCHANGED <<loaded, p>> /\ down' # "up"
        /\ \/ UNCHANGED activeLoading /\ down' # "unloaded" /\ down # "unloaded"
           \/ activeLoading' = None /\ down' = "unloaded"
    BY DEF ShutdownCancels, UnloadAllRunners
  <1>2. SlotInv'
    BY <1>1 DEF LoadInv, SlotInv, Attempting
  <1>3. CountInv'
    BY <1>1, LoadFrame DEF LoadInv
  <1>4. NoOrphanServer'
    BY <1>1 DEF NoOrphanServer
  <1> QED BY <1>2, <1>3, <1>4 DEF LoadInv

LEMMA InitLoad == Init => LoadInv
  <1> SUFFICES ASSUME Init PROVE LoadInv
    OBVIOUS
  <1>1. SlotInv
    BY DEF Init, SlotInv, Attempting
  <1>2. LoadedModels = {}
    BY DEF Init, LoadedModels
  <1>3. CountInv
    BY <1>2, FS_EmptySet, SchedulerAssumption
       DEF Init, CountInv, MaxLoaded, Attempting, SchedulerAssumption
  <1>4. NoOrphanServer
    BY DEF Init, NoOrphanServer
  <1> QED BY <1>1, <1>3, <1>4 DEF LoadInv

LEMMA NextLoad ==
  ASSUME TypeInv, LoadInv, [Next]_vars
  PROVE  LoadInv'
  <1>1. CASE UNCHANGED vars
    <2>1. UNCHANGED <<loaded, activeLoading, p, down, runner>>
      BY <1>1 DEF vars, outside
    <2> QED BY <2>1, LoadFrame DEF LoadInv, NoStart
  <1>2. ASSUME NEW q \in Requests,
               \/ HLookup(q) \/ HCheck(q) \/ HUse(q) \/ HEnqueue(q)
               \/ HFinish(q) \/ HCancel(q) \/ CFinished(q) \/ XRuntimeOOM(q)
        PROVE  LoadInv'
    BY <1>2, QuietSteps DEF Runners
  <1>3. ASSUME NEW r \in Runners,
               \/ LoaderReady(r) \/ LoaderFails(r) \/ LoaderExpires(r)
               \/ TimerFires(r) \/ TimerLocks(r) \/ TimerSends(r)
               \/ RetrySends(r) \/ Crash(r)
        PROVE  LoadInv'
    BY <1>3, QuietSteps
  <1>4. CASE \/ \E m \in Models : XExpireModel(m)
             \/ XMark \/ XSend \/ PIgnoreUnload \/ CExpired \/ CDecrement \/ CSend \/ CBusy
             \/ CDuplicateOrOrphan \/ CRecovered \/ CNotify \/ CStop
    BY <1>4, QuietSteps
  <1>5. CASE \/ PPreflight \/ PRequiredFull \/ PLoadPanics \/ PList \/ PScan \/ PExpire
             \/ PSend \/ PWait \/ PEvictAll \/ PEvict \/ PEvictSend \/ PEvictWait \/ PStop
    BY <1>5, RetreatSteps
  <1>6. CASE PRecv \/ PTop \/ PCheck \/ PUse \/ PSpace \/ PSum \/ PCreateFails
    BY <1>6, AttemptSteps
  <1>7. CASE PCreate \/ PLoadOOM \/ PLoadFails \/ PInstall
    BY <1>7, CreateStep, CloseSteps, InstallStep
  <1>8. CASE CUnload \/ ShutdownCancels \/ UnloadAllRunners
    BY <1>8, UnloadStep, ShutdownSteps
  <1> QED
    BY <1>1, <1>2, <1>3, <1>4, <1>5, <1>6, <1>7, <1>8 DEF Next, Terminated

----------------------------------------------------------------------------

LEMMA LoadInvariant == Spec => []LoadInv
  BY InitTypes, NextTypes, InitLoad, NextLoad, PTL DEF Spec

\* The branch "model was still loaded" of load (sched.go, 730-736) and its panic
\* "attempting to load different model" (614) cannot be reached, for any
\* number of models, requests and expiries.
THEOREM LoadSlotIsFree == Spec => []LoadSlotFree
  <1>1. LoadInv => LoadSlotFree
    BY DEF LoadInv, SlotInv, Attempting, LoadSlotFree
  <1> QED BY <1>1, LoadInvariant, PTL

\* OLLAMA_MAX_LOADED_MODELS is never exceeded, although the count is read long
\* before the map is written: only P adds to the map.
THEOREM LimitHolds == Spec => []MaxLoaded
  <1>1. LoadInv => MaxLoaded
    BY DEF LoadInv, CountInv
  <1> QED BY <1>1, LoadInvariant, PTL

\* Until a shutdown, every runner process that is up can be found by expiry.
THEOREM NoServerIsLost == Spec => []NoOrphanServer
  <1>1. LoadInv => NoOrphanServer
    BY DEF LoadInv
  <1> QED BY <1>1, LoadInvariant, PTL

----------------------------------------------------------------------------
(* The invariant.  The right to answer a request is a token: its handler   *)
(* has it until the request is queued, then the channel, then P, then the  *)
(* goroutine that loads its runner.                                        *)

PBusy == p.pc \notin {"idle", "stopped", "panic"}

Early(q)   == request[q].phase \in {"new", "check", "use", "enqueue"}
InQueue(q) == \E i \in DOMAIN pendingReqCh : pendingReqCh[i] = q
WithP(q)   == PBusy /\ p.req = q

\* Requests that may still load a runner of their own: it is in its first state.
Fresh == {q \in Requests : Early(q) \/ InQueue(q) \/ WithP(q)}

Unanswered(q) == /\ request[q].phase = "waiting" /\ request[q].reply = "none"
                 /\ request[q].watch = "none"

\* A request has a watcher if and only if it was handed a runner.
AnswerInv ==
    \A q \in Requests :
        /\ Early(q) => request[q].reply = "none" /\ request[q].watch = "none"
        /\ request[q].watch # "none" <=> request[q].reply = "ok"
        /\ request[q].watch = "sent" => request[q].ctxDone

\* Whoever has the token finds the request unanswered, and one only has it.
TurnInv ==
    /\ \A q \in Requests : InQueue(q) \/ WithP(q) => Unanswered(q)
    /\ \A i, j \in DOMAIN pendingReqCh : pendingReqCh[i] = pendingReqCh[j] => i = j
    /\ PBusy => ~InQueue(p.req)

LoaderInv ==
    \A r \in Runners : runner[r].refMu = "loader" =>
        Unanswered(r) /\ r \notin Fresh /\ r \in LoadedRunners

\* A runner that anybody knows of is of the model it is known for, and was installed.
Known(r, m) == r \in Runners /\ ModelOf[r] = m /\ r \notin Fresh

KnownInv ==
    /\ \A m \in Models : loaded[m] # None => Known(loaded[m], m)
    /\ \A q \in Requests :
          request[q].phase \in {"check", "use"} \/ request[q].watch # "none" =>
              Known(request[q].ref, ModelOf[q])
    /\ p.pc \in {"check", "use"} => Known(p.target, ModelOf[p.req])

\* A runner is valid while it is in the map, and nobody used one that was not installed.
ValidInv ==
    \A r \in Runners : /\ r \in Fresh => runner[r].refCount = 0
                       /\ runner[r].valid <=> r \in LoadedRunners

Given(r) == {q \in Requests : request[q].watch # "none" /\ request[q].ref = r}
Armed(r) == {q \in Requests : request[q].watch = "armed" /\ request[q].ref = r}
Charged(r) == IF c.pc = "dec" /\ c.runner = r THEN 1 ELSE 0

\* The count of a runner is that of its requests that C has not seen finish; when
\* one was handed out while being unloaded, its count is at least bounded.
ChargeInv ==
    /\ c.pc = "dec" => c.runner \in LoadedRunners /\ \E q \in Requests : request[q].watch = "sent"
    /\ \A r \in Runners : ~runner[r].valid => runner[r].refCount <= Cardinality(Given(r))
    /\ NoStaleHandout =>
          \A r \in Runners : runner[r].refCount = Cardinality(Armed(r)) + Charged(r)

UseInv == AnswerInv /\ TurnInv /\ LoaderInv /\ KnownInv /\ ValidInv /\ ChargeInv

----------------------------------------------------------------------------
(* Steps that hand over no token and count nothing.                        *)

RequestsQuiet ==
    \A q \in Requests :
        /\ request'[q].ref = request[q].ref /\ request'[q].reply = request[q].reply
        /\ request'[q].watch = request[q].watch
        /\ request[q].ctxDone => request'[q].ctxDone
        /\ \/ request'[q].phase = request[q].phase
           \/ request[q].phase = "check" /\ request'[q].phase \in {"use", "enqueue"}
           \/ /\ request[q].phase = "waiting" /\ request[q].reply # "none"
              /\ request'[q].phase = "done"

RunnersQuiet ==
    \A r \in Runners :
        /\ runner'[r].refCount = runner[r].refCount /\ runner'[r].valid = runner[r].valid
        /\ runner'[r].refMu = "loader" => runner[r].refMu = "loader"

PQuiet ==
    /\ PBusy' => PBusy /\ p'.req = p.req
    /\ p'.pc \in {"check", "use"} => p.pc \in {"check", "use"} /\ p'.target = p.target

CQuiet == /\ c'.pc = "dec" <=> c.pc = "dec"
          /\ c.pc = "dec" => c'.runner = c.runner

Quiet == RequestsQuiet /\ RunnersQuiet /\ PQuiet /\ CQuiet /\ UNCHANGED <<loaded, pendingReqCh>>

\* Nobody comes to own the right to load once it was given up.
FreshShrinks == Fresh' \subseteq Fresh

UseKept == UseInv' /\ FreshShrinks

\* The counts agree as long as none changes, and a runner is installed or emptied
\* only with none.
LEMMA ChargeFrame ==
  ASSUME RunnerType, ChargeInv,
         \A q \in Requests : /\ request'[q].watch = request[q].watch
                             /\ request[q].watch # "none" => request'[q].ref = request[q].ref,
         \A r \in Runners :
             /\ runner'[r].refCount = runner[r].refCount
             /\ runner'[r].valid = runner[r].valid \/ runner[r].refCount = 0,
         CQuiet, c.pc = "dec" => c.runner \in LoadedRunners'
  PROVE  ChargeInv'
  <1>1. \A r \in Runners : Armed(r)' = Armed(r) /\ Given(r)' = Given(r)
    BY DEF Armed, Given
  <1>2. \A r \in Runners : Charged(r)' = Charged(r)
    BY DEF CQuiet, Charged
  <1>3. c'.pc = "dec" => c'.runner \in LoadedRunners' /\ \E q \in Requests : request'[q].watch = "sent"
    BY DEF CQuiet, ChargeInv
  <1>4. \A r \in Runners : ~runner'[r].valid => runner'[r].refCount <= Cardinality(Given(r)')
    <2> SUFFICES ASSUME NEW r \in Runners, ~runner'[r].valid
                 PROVE  runner'[r].refCount <= Cardinality(Given(r)')
      OBVIOUS
    <2>1. CASE ~runner[r].valid
      BY <2>1, <1>1 DEF ChargeInv
    <2>2. CASE runner[r].refCount = 0
      <3>1. Cardinality(Given(r)) \in Nat
        BY SchedulerAssumption, FS_Subset, FS_CardinalityType DEF Given, SchedulerAssumption
      <3> QED BY <2>2, <3>1, <1>1
    <2> QED BY <2>1, <2>2
  <1>5. NoStaleHandout' => NoStaleHandout
    BY DEF NoStaleHandout
  <1>6. NoStaleHandout' =>
          \A r \in Runners : runner'[r].refCount = Cardinality(Armed(r)') + Charged(r)'
    BY <1>1, <1>2, <1>5 DEF ChargeInv
  <1> QED BY <1>3, <1>4, <1>6 DEF ChargeInv

LEMMA QuietKeeps ==
  ASSUME TypeInv, UseInv, Quiet
  PROVE  UseKept
  <1>1. FreshShrinks
    BY DEF Quiet, RequestsQuiet, PQuiet, FreshShrinks, Fresh, Early, InQueue, WithP
  <1>2. LoadedRunners' = LoadedRunners
    BY DEF Quiet, LoadedRunners
  <1>3. AnswerInv'
    BY DEF Quiet, RequestsQuiet, UseInv, AnswerInv, Early
  <1>4. \A q \in Requests : Unanswered(q) => Unanswered(q)'
    BY DEF Quiet, RequestsQuiet, Unanswered
  <1>5. TurnInv'
    BY <1>4 DEF Quiet, PQuiet, UseInv, TurnInv, InQueue, WithP
  <1>6. LoaderInv'
    BY <1>1, <1>2, <1>4 DEF Quiet, RunnersQuiet, UseInv, LoaderInv, FreshShrinks, Runners
  <1>7. KnownInv'
    BY <1>1 DEF Quiet, RequestsQuiet, PQuiet, PBusy, UseInv, KnownInv, Known, FreshShrinks
  <1>8. ValidInv'
    BY <1>1, <1>2 DEF Quiet, RunnersQuiet, UseInv, ValidInv, FreshShrinks, Runners
  <1>9. ChargeInv'
    <2>1. c.pc = "dec" => c.runner \in LoadedRunners'
      BY <1>2 DEF UseInv, ChargeInv
    <2> QED BY <2>1, ChargeFrame DEF TypeInv, UseInv, Quiet, RequestsQuiet, RunnersQuiet
  <1> QED BY <1>1, <1>3, <1>5, <1>6, <1>7, <1>8, <1>9 DEF UseInv, UseKept

\* Steps of runners that hand nothing over.
LEMMA RunnerQuietUpdate ==
  ASSUME RunnerType, NEW r, NEW v, runner' = [runner EXCEPT ![r] = v],
         r \in Runners => /\ v.refCount = runner[r].refCount /\ v.valid = runner[r].valid
                          /\ v.refMu = "loader" => runner[r].refMu = "loader"
  PROVE  RunnersQuiet
  BY DEF RunnerType, RunnersQuiet

LEMMA SharedStepsQuiet ==
  ASSUME RunnerType, NEW r, NEW holder \in {"P", "C", "X", "timer", "failed"},
         UNCHANGED runner \/ MarkExpired(r, holder) \/ SendAndUnlock(r, holder)
  PROVE  RunnersQuiet
  <1>1. CASE UNCHANGED runner
    BY <1>1 DEF RunnersQuiet
  <1>2. CASE MarkExpired(r, holder)
    <2> DEFINE v == [runner[r] EXCEPT !.timer = "nil", !.session = "zero",
                       !.refMu = IF runner[r].refCount = 0 THEN holder ELSE "free"]
    <2>1. runner' = [runner EXCEPT ![r] = v]
      BY <1>2 DEF MarkExpired
    <2>2. r \in Runners => /\ v.refCount = runner[r].refCount /\ v.valid = runner[r].valid
                           /\ v.refMu = "loader" => runner[r].refMu = "loader"
      BY DEF RunnerType, Runner
    <2> QED BY <2>1, <2>2, RunnerQuietUpdate
  <1>3. CASE SendAndUnlock(r, holder)
    BY <1>3 DEF SendAndUnlock, RunnerType, Runner, RunnersQuiet
  <1> QED BY <1>1, <1>2, <1>3

LEMMA GoroutinesQuiet ==
  ASSUME RunnerType, NEW r \in Runners,
         LoaderExpires(r) \/ TimerFires(r) \/ TimerLocks(r) \/ TimerSends(r)
         \/ RetrySends(r) \/ Crash(r)
  PROVE  RunnersQuiet
  <1>1. CASE LoaderExpires(r) \/ TimerSends(r)
    BY <1>1, SharedStepsQuiet DEF LoaderExpires, TimerSends
  <1>2. CASE TimerFires(r)
    <2> DEFINE v == [runner[r] EXCEPT !.timer = "fired", !.fired = runner[r].fired + 1]
    <2>1. runner' = [runner EXCEPT ![r] = v]
      BY <1>2 DEF TimerFires
    <2>2. /\ v.refCount = runner[r].refCount /\ v.valid = runner[r].valid
          /\ v.refMu = runner[r].refMu
      BY DEF RunnerType, Runner
    <2> QED BY <2>1, <2>2, RunnerQuietUpdate
  <1>3. CASE TimerLocks(r)
    <2> DEFINE v == [runner[r] EXCEPT !.timer = "nil", !.refMu = "timer",
                                      !.fired = runner[r].fired - 1]
    <2>1. runner' = [runner EXCEPT ![r] = v]
      BY <1>3 DEF TimerLocks
    <2>2. /\ v.refCount = runner[r].refCount /\ v.valid = runner[r].valid
          /\ v.refMu = "timer"
      BY DEF RunnerType, Runner
    <2> QED BY <2>1, <2>2, RunnerQuietUpdate
  <1>4. CASE RetrySends(r)
    BY <1>4 DEF RetrySends, RunnerType, Runner, RunnersQuiet
  <1>5. CASE Crash(r)
    BY <1>5 DEF Crash, RunnerType, Runner, RunnersQuiet
  <1> QED BY <1>1, <1>2, <1>3, <1>4, <1>5

\* The steps outside P and C.
LEMMA OutsideQuiet ==
  ASSUME TypeInv, NEW q, NEW m,
         \/ HCheck(q) \/ HFinish(q) \/ HCancel(q)
         \/ XRuntimeOOM(q) \/ XExpireModel(m) \/ XMark \/ XSend
         \/ ShutdownCancels \/ UnloadAllRunners \/ Terminated
         \/ \E r \in Runners : \/ LoaderExpires(r) \/ TimerFires(r) \/ TimerLocks(r)
                               \/ TimerSends(r) \/ RetrySends(r) \/ Crash(r)
  PROVE  Quiet
  <1> USE DEF TypeInv
  <1>1. UNCHANGED <<loaded, pendingReqCh>> /\ PQuiet /\ CQuiet
    BY DEF HCheck, HFinish, HCancel, XRuntimeOOM, XExpireModel, XMark, XSend, ShutdownCancels,
           UnloadAllRunners, Terminated, LoaderExpires, TimerFires, TimerLocks, TimerSends,
           RetrySends, Crash, SendAndUnlock, SendExpired, vars, channels, outside,
           PQuiet, PBusy, CQuiet
  <1>2. RequestsQuiet
    <2>1. CASE HCheck(q)
      BY <2>1 DEF HCheck, RequestInv, RequestType, Request, RequestsQuiet
    <2>3. CASE HFinish(q)
      BY <2>3 DEF HFinish, RequestInv, RequestType, Request, RequestsQuiet
    <2>4. CASE HCancel(q)
      BY <2>4 DEF HCancel, RequestInv, RequestType, Request, RequestsQuiet
    <2>2. CASE UNCHANGED request
      BY <2>2 DEF RequestsQuiet
    <2> QED
      BY <2>1, <2>2, <2>3, <2>4
         DEF XRuntimeOOM, XExpireModel, XMark, XSend, ShutdownCancels, UnloadAllRunners,
             Terminated, LoaderExpires, TimerFires, TimerLocks, TimerSends, RetrySends, Crash, vars
  <1>3. RunnersQuiet
    <2>1. CASE XMark \/ XSend
      BY <2>1, SharedStepsQuiet DEF XMark, XSend
    <2>2. CASE UNCHANGED runner
      BY <2>2, SharedStepsQuiet
    <2>3. CASE UnloadAllRunners
      BY <2>3 DEF UnloadAllRunners, RunnerType, Runner, RunnersQuiet
    <2> QED
      BY <2>1, <2>2, <2>3, GoroutinesQuiet
         DEF HCheck, HFinish, HCancel, XRuntimeOOM, XExpireModel, ShutdownCancels, Terminated, vars
  <1> QED BY <1>1, <1>2, <1>3 DEF Quiet

\* The steps of C that count and unload nothing.
LEMMA CompletedQuiet ==
  ASSUME TypeInv, UseInv,
         CExpired \/ CSend \/ CBusy \/ CDuplicateOrOrphan \/ CRecovered \/ CNotify \/ CStop
  PROVE  Quiet
  <1> USE DEF TypeInv
  <1>1. UNCHANGED <<request, loaded, pendingReqCh, p>>
    BY DEF CExpired, CSend, CBusy, CDuplicateOrOrphan, CRecovered, CNotify, CStop,
           SendAndUnlock, SendExpired, channels
  <1>2. CQuiet
    BY DEF CExpired, CSend, CBusy, CDuplicateOrOrphan, CRecovered, CNotify, CStop,
           CInv, CType, CQuiet
  <1>3. RunnersQuiet
    <2>1. CASE CSend \/ UNCHANGED runner
      BY <2>1, SharedStepsQuiet DEF CSend
    <2>2. CASE CBusy \/ CRecovered
      BY <2>2 DEF CBusy, CRecovered, RunnerType, Runner, RunnersQuiet
    <2>3. CASE CDuplicateOrOrphan /\ ~UNCHANGED runner
      <3> DEFINE r == c.runner
                 v == [runner[r] EXCEPT !.timer = "nil", !.server = "closed",
                                        !.valid = FALSE, !.refMu = "free"]
      <3>1. runner' = [runner EXCEPT ![r] = v] /\ loaded[ModelOf[r]] # r
        BY <2>3 DEF CDuplicateOrOrphan, Unload
      <3>2. r \in Runners => ~runner[r].valid
        BY <3>1 DEF UseInv, ValidInv, LoadedRunners
      <3>3. r \in Runners => /\ v.refCount = runner[r].refCount /\ v.valid = FALSE
                             /\ v.refMu = "free"
        BY DEF RunnerType, Runner
      <3>4. r \in Runners => runner[r].valid = FALSE
        BY <3>2 DEF RunnerType, Runner
      <3> HIDE DEF v
      <3> QED BY <3>1, <3>3, <3>4, RunnerQuietUpdate
    <2> QED BY <2>1, <2>2, <2>3 DEF CExpired, CNotify, CStop
  <1> QED BY <1>1, <1>2, <1>3 DEF Quiet, RequestsQuiet, PQuiet, PBusy

\* The steps of P that neither begin nor end its work on a request.
LEMMA PendingQuiet ==
  ASSUME TypeInv,
         \/ PIgnoreUnload \/ PCheck \/ PSpace \/ PSum \/ PCreate \/ PPreflight \/ PRequiredFull
         \/ PLoadOOM \/ PLoadPanics \/ PList \/ PScan \/ PExpire \/ PSend \/ PWait
         \/ PEvictAll \/ PEvict \/ PEvictSend \/ PEvictWait \/ PStop
  PROVE  Quiet
  <1> USE DEF TypeInv
  <1>1. UNCHANGED <<loaded, pendingReqCh, c>>
    BY DEF PIgnoreUnload, PCheck, PSpace, PSum, PCreate, PPreflight, PRequiredFull, PLoadOOM,
           PLoadPanics, PList, PScan, PExpire, PSend, PWait, PEvictAll, PEvict, PEvictSend,
           PEvictWait, PStop, SendAndUnlock, SendExpired, channels
  <1>2. PQuiet
    <2>1. CASE PPreflight \/ PRequiredFull \/ PLoadOOM
      BY <2>1 DEF PPreflight, PRequiredFull, PLoadOOM, CloseActive, AfterNeedEvict, PInv, PType,
                  PQuiet, PBusy
    <2>6. CASE PIgnoreUnload \/ PCheck \/ PSpace \/ PCreate \/ PLoadPanics
      BY <2>6 DEF PIgnoreUnload, PCheck, PSpace, PCreate, PLoadPanics, PInv, PType, PQuiet, PBusy
    <2>7. CASE PSum
      BY <2>7 DEF PSum, PInv, PType, PQuiet, PBusy
    <2>2. CASE PList
      BY <2>2 DEF PList, PInv, PType, PQuiet, PBusy
    <2>3. CASE PScan
      BY <2>3 DEF PScan, PInv, PType, PQuiet, PBusy
    <2>4. CASE PEvict
      BY <2>4 DEF PEvict, PInv, PType, PQuiet, PBusy
    <2>5. CASE \/ PExpire \/ PSend \/ PWait \/ PEvictAll \/ PEvictSend \/ PEvictWait \/ PStop
      BY <2>5 DEF PExpire, PSend, PWait, PEvictAll, PEvictSend, PEvictWait, PStop,
                  PInv, PType, PQuiet, PBusy
    <2> QED BY <2>1, <2>2, <2>3, <2>4, <2>5, <2>6, <2>7
  <1>3. RequestsQuiet
    <2>1. CASE PLoadOOM
      BY <2>1 DEF PLoadOOM, RequestInv, RequestType, Request, RequestsQuiet
    <2>2. CASE UNCHANGED request
      BY <2>2 DEF RequestsQuiet
    <2> QED
      BY <2>1, <2>2
         DEF PIgnoreUnload, PCheck, PSpace, PSum, PCreate, PPreflight, PRequiredFull,
             PLoadPanics, PList, PScan, PExpire, PSend, PWait, PEvictAll, PEvict, PEvictSend,
             PEvictWait, PStop
  <1>4. RunnersQuiet
    <2>1. CASE PCreate
      BY <2>1, SharedStepsQuiet DEF PCreate, RunnerType, Runner, RunnersQuiet
    <2>2. CASE PLoadOOM
      BY <2>2 DEF PLoadOOM, CloseActive, RunnerType, Runner, RunnersQuiet
    <2> QED
      BY <2>1, <2>2, SharedStepsQuiet
         DEF PIgnoreUnload, PCheck, PSpace, PSum, PPreflight, PRequiredFull, PLoadPanics, PList,
             PScan, PExpire, PSend, PWait, PEvictAll, PEvict, PEvictSend, PEvictWait, PStop
  <1> QED BY <1>1, <1>2, <1>3, <1>4 DEF Quiet, CQuiet

----------------------------------------------------------------------------
(* Steps that move a token and leave the runners alone.                    *)

\* The handler looks its runner up.
LEMMA LookupKeeps ==
  ASSUME TypeInv, UseInv, NEW q \in Requests, HLookup(q)
  PROVE  UseKept
  <1> USE DEF TypeInv, UseInv
  <1>1. /\ UNCHANGED <<runner, loaded, pendingReqCh, p, c>>
        /\ request[q].phase = "new"
        /\ request'[q].phase \in {"enqueue", "check"}
        /\ request'[q].phase = "check" => loaded[ModelOf[q]] # None
        /\ request'[q].ref = loaded[ModelOf[q]]
        /\ request'[q].watch = request[q].watch /\ request'[q].reply = request[q].reply
        /\ request'[q].ctxDone = request[q].ctxDone
        /\ \A s \in Requests : s # q => request'[s] = request[s]
    <2> DEFINE r  == loaded[ModelOf[q]]
               ph == IF r = None THEN "enqueue" ELSE "check"
    <2>1. request' = [request EXCEPT ![q] = [@ EXCEPT !.ref = r, !.phase = ph]]
      BY DEF HLookup
    <2>2. ph \in {"enqueue", "check"} /\ (ph = "check" => r # None)
      OBVIOUS
    <2> HIDE DEF r, ph
    <2>3. /\ request'[q].phase = ph /\ request'[q].ref = r
          /\ request'[q].watch = request[q].watch /\ request'[q].reply = request[q].reply
          /\ request'[q].ctxDone = request[q].ctxDone
          /\ \A s \in Requests : s # q => request'[s] = request[s]
      BY <2>1 DEF RequestInv, RequestType, Request
    <2> QED BY <2>2, <2>3 DEF HLookup, channels, r
  <1> HIDE DEF TypeInv
  <1>2. FreshShrinks
    BY <1>1 DEF FreshShrinks, Fresh, Early, InQueue, WithP, PBusy
  <1>3. LoadedRunners' = LoadedRunners
    BY <1>1 DEF LoadedRunners
  <1>4. request[q].watch = "none" /\ request[q].reply = "none"
    BY <1>1 DEF AnswerInv, Early
  <1>5. AnswerInv'
    BY <1>1, <1>4 DEF AnswerInv, Early
  <1>6. \A s \in Requests : Unanswered(s) => Unanswered(s)'
    BY <1>1 DEF Unanswered
  <1>7. TurnInv'
    BY <1>1, <1>6 DEF TurnInv, InQueue, WithP, PBusy
  <1>8. LoaderInv'
    BY <1>1, <1>2, <1>3, <1>6 DEF LoaderInv, FreshShrinks, Runners
  <1>9. KnownInv'
    <2>1. ModelOf[q] \in Models
      BY Constants
    <2> QED BY <1>1, <1>2, <1>4, <2>1 DEF KnownInv, Known, FreshShrinks
  <1>10. ValidInv'
    BY <1>1, <1>2, <1>3 DEF ValidInv, FreshShrinks, Runners
  <1>11. ChargeInv'
    <2>1. c.pc = "dec" => c.runner \in LoadedRunners'
      BY <1>3 DEF ChargeInv
    <2>2. \A s \in Requests : /\ request'[s].watch = request[s].watch
                              /\ request[s].watch # "none" => request'[s].ref = request[s].ref
      BY <1>1, <1>4
    <2> QED BY <1>1, <2>1, <2>2, ChargeFrame DEF TypeInv, CQuiet
  <1> QED BY <1>2, <1>5, <1>7, <1>8, <1>9, <1>10, <1>11 DEF UseKept

\* The handler puts its request in the queue, or finds it full.
LEMMA EnqueueKeeps ==
  ASSUME TypeInv, UseInv, NEW q \in Requests, HEnqueue(q)
  PROVE  UseKept
  <1> USE DEF UseInv
  <1>1. /\ UNCHANGED <<runner, loaded, p, c>>
        /\ request[q].phase = "enqueue" /\ request'[q].phase = "waiting"
        /\ request'[q].ref = request[q].ref
        /\ request'[q].watch = request[q].watch
        /\ request'[q].ctxDone = request[q].ctxDone
        /\ \A s \in Requests : s # q => request'[s] = request[s]
        /\ \/ pendingReqCh' = Append(pendingReqCh, q) /\ request'[q].reply = "none"
           \/ pendingReqCh' = pendingReqCh /\ request'[q].reply = "err"
    <2> DEFINE full == Len(pendingReqCh) < MaxQueue
               e == IF full THEN "none" ELSE "err"
    <2>1. /\ request' = [request EXCEPT ![q] = [@ EXCEPT !.phase = "waiting", !.reply = e]]
          /\ pendingReqCh' = IF full THEN Append(pendingReqCh, q) ELSE pendingReqCh
      BY DEF HEnqueue
    <2>2. IF full THEN e = "none" ELSE e = "err"
      OBVIOUS
    <2> HIDE DEF full, e
    <2>3. /\ request'[q].phase = "waiting" /\ request'[q].ref = request[q].ref
          /\ request'[q].watch = request[q].watch /\ request'[q].reply = e
          /\ request'[q].ctxDone = request[q].ctxDone
          /\ \A s \in Requests : s # q => request'[s] = request[s]
      BY <2>1 DEF TypeInv, RequestInv, RequestType, Request
    <2> QED BY <2>1, <2>2, <2>3 DEF HEnqueue
  <1>2. pendingReqCh \in Seq(Requests)
    BY DEF TypeInv, PendingType
  <1>3. /\ Early(q) /\ q \in Fresh
        /\ request[q].watch = "none" /\ request[q].reply = "none"
        /\ ~Unanswered(q) /\ ~InQueue(q) /\ ~WithP(q) /\ runner[q].refMu # "loader"
    <2>1. Early(q)
      BY <1>1 DEF Early
    <2>2. ~Unanswered(q)
      BY <1>1 DEF Unanswered
    <2> QED BY <2>1, <2>2 DEF AnswerInv, TurnInv, LoaderInv, Fresh, Runners
  <1>4. \A s \in Requests : InQueue(s)' => InQueue(s) \/ (s = q /\ request'[q].reply = "none")
    <2>1. CASE pendingReqCh' = Append(pendingReqCh, q) /\ request'[q].reply = "none"
      <3>1. \A i \in DOMAIN pendingReqCh' :
               \/ i \in DOMAIN pendingReqCh /\ pendingReqCh'[i] = pendingReqCh[i]
               \/ pendingReqCh'[i] = q
        BY <1>2, <2>1
      <3> QED BY <2>1, <3>1 DEF InQueue
    <2>2. CASE pendingReqCh' = pendingReqCh
      BY <2>2 DEF InQueue
    <2> QED BY <1>1, <2>1, <2>2
  <1>5. FreshShrinks
    BY <1>1, <1>3, <1>4 DEF FreshShrinks, Fresh, Early, WithP, PBusy
  <1>6. LoadedRunners' = LoadedRunners
    BY <1>1 DEF LoadedRunners
  <1>7. AnswerInv'
    BY <1>1, <1>3 DEF AnswerInv, Early
  <1>8. \A s \in Requests : Unanswered(s) => Unanswered(s)'
    BY <1>1, <1>3 DEF Unanswered
  <1>9. TurnInv'
    <2>1. \A s \in Requests : InQueue(s)' \/ WithP(s)' => Unanswered(s)'
      BY <1>1, <1>3, <1>4, <1>8 DEF TurnInv, WithP, PBusy, Unanswered
    <2>2. \A i, j \in DOMAIN pendingReqCh' : pendingReqCh'[i] = pendingReqCh'[j] => i = j
      BY <1>1, <1>2, <1>3 DEF TurnInv, InQueue
    <2>3. (PBusy => ~InQueue(p.req))'
      <3>1. CASE pendingReqCh' = Append(pendingReqCh, q)
        <4>1. \A i \in DOMAIN pendingReqCh' :
                 \/ i \in DOMAIN pendingReqCh /\ pendingReqCh'[i] = pendingReqCh[i]
                 \/ pendingReqCh'[i] = q
          BY <1>2, <3>1
        <4> QED BY <1>1, <1>3, <4>1 DEF TurnInv, WithP, PBusy, InQueue
      <3>2. CASE pendingReqCh' = pendingReqCh
        BY <1>1, <3>2 DEF TurnInv, PBusy, InQueue
      <3> QED BY <1>1, <3>1, <3>2
    <2> QED BY <1>1, <2>1, <2>2, <2>3 DEF TurnInv
  <1>10. LoaderInv'
    BY <1>1, <1>5, <1>6, <1>8 DEF LoaderInv, FreshShrinks, Runners
  <1>11. KnownInv'
    BY <1>1, <1>3, <1>5 DEF KnownInv, Known, FreshShrinks
  <1>12. ValidInv'
    BY <1>1, <1>5, <1>6 DEF ValidInv, FreshShrinks, Runners
  <1>13. ChargeInv'
    <2>1. c.pc = "dec" => c.runner \in LoadedRunners'
      BY <1>6 DEF ChargeInv
    <2>2. \A s \in Requests : /\ request'[s].watch = request[s].watch
                              /\ request[s].watch # "none" => request'[s].ref = request[s].ref
      BY <1>1
    <2> QED BY <1>1, <2>1, <2>2, ChargeFrame DEF TypeInv, CQuiet
  <1> QED BY <1>5, <1>7, <1>9, <1>10, <1>11, <1>12, <1>13 DEF UseKept

\* P receives a request and works on it, unless its client has gone.
LEMMA ReceiveKeeps ==
  ASSUME TypeInv, UseInv, PRecv
  PROVE  UseKept
  <1> USE DEF UseInv
  <1> DEFINE q == pendingReqCh[1]
  <1>1. /\ pendingReqCh \in Seq(Requests) /\ 1 \in DOMAIN pendingReqCh
        /\ pendingReqCh' = Tail(pendingReqCh)
        /\ UNCHANGED <<request, runner, loaded, c>>
        /\ p.pc = "idle" /\ (p' = p \/ (p'.pc = "top" /\ p'.req = q))
    BY DEF PRecv, TypeInv, PendingType, PInv, PType
  <1>2. /\ \A s : InQueue(s)' => InQueue(s) /\ s # q
        /\ \A i, j \in DOMAIN pendingReqCh' : pendingReqCh'[i] = pendingReqCh'[j] => i = j
    <2>1. \A i \in DOMAIN pendingReqCh' :
             i + 1 \in DOMAIN pendingReqCh /\ pendingReqCh'[i] = pendingReqCh[i + 1] /\ i \in 1 .. Len(pendingReqCh)
      BY <1>1
    <2> QED BY <1>1, <2>1 DEF InQueue, TurnInv
  <1>3. InQueue(q)
    BY <1>1 DEF InQueue
  <1> HIDE DEF q
  <1>4. FreshShrinks
    BY <1>1, <1>2, <1>3 DEF FreshShrinks, Fresh, Early, WithP, PBusy
  <1>5. LoadedRunners' = LoadedRunners
    BY <1>1 DEF LoadedRunners
  <1>6. AnswerInv'
    BY <1>1 DEF AnswerInv, Early
  <1>7. \A s : Unanswered(s)' = Unanswered(s)
    BY <1>1 DEF Unanswered
  <1>8. TurnInv'
    <2>1. \A s \in Requests : InQueue(s)' \/ WithP(s)' => Unanswered(s)'
      BY <1>1, <1>2, <1>3, <1>7 DEF TurnInv, WithP, PBusy
    <2>2. PBusy' => ~InQueue(p.req)'
      <3>1. PBusy' => p'.req = q
        BY <1>1 DEF PBusy
      <3>2. \A i \in DOMAIN pendingReqCh' : pendingReqCh'[i] # q
        BY <1>2 DEF InQueue
      <3> QED BY <3>1, <3>2 DEF InQueue
    <2> QED BY <1>2, <2>1, <2>2 DEF TurnInv
  <1>9. LoaderInv'
    BY <1>1, <1>4, <1>5, <1>7 DEF LoaderInv, FreshShrinks
  <1>10. KnownInv'
    BY <1>1, <1>4 DEF KnownInv, Known, FreshShrinks
  <1>11. ValidInv'
    BY <1>1, <1>4, <1>5 DEF ValidInv, FreshShrinks
  <1>12. ChargeInv'
    <2>1. c.pc = "dec" => c.runner \in LoadedRunners'
      BY <1>5 DEF ChargeInv
    <2> QED BY <1>1, <2>1, ChargeFrame DEF TypeInv, CQuiet
  <1> QED BY <1>4, <1>6, <1>8, <1>9, <1>10, <1>11, <1>12 DEF UseKept

\* P looks at the map.
LEMMA TopKeeps ==
  ASSUME TypeInv, UseInv, PTop
  PROVE  UseKept
  <1> USE DEF UseInv
  <1>1. /\ UNCHANGED <<request, runner, loaded, pendingReqCh, c>>
        /\ p.pc = "top" /\ p'.req = p.req /\ p.req \in Requests
        /\ p'.pc \in {"check", "list", "space"}
        /\ p'.target = loaded[ModelOf[p.req]]
        /\ p'.pc = "check" => p'.target # None
    BY DEF PTop, TypeInv, PInv, PType, PSet, channels
  <1>2. FreshShrinks
    BY <1>1 DEF FreshShrinks, Fresh, Early, InQueue, WithP, PBusy
  <1>3. LoadedRunners' = LoadedRunners
    BY <1>1 DEF LoadedRunners
  <1>4. AnswerInv'
    BY <1>1 DEF AnswerInv, Early
  <1>5. TurnInv'
    BY <1>1 DEF TurnInv, InQueue, WithP, PBusy, Unanswered
  <1>6. LoaderInv'
    BY <1>1, <1>2, <1>3 DEF LoaderInv, FreshShrinks, Unanswered
  <1>7. KnownInv'
    BY <1>1, <1>2, Constants DEF KnownInv, Known, FreshShrinks
  <1>8. ValidInv'
    BY <1>1, <1>2, <1>3 DEF ValidInv, FreshShrinks
  <1>9. ChargeInv'
    <2>1. c.pc = "dec" => c.runner \in LoadedRunners'
      BY <1>3 DEF ChargeInv
    <2> QED BY <1>1, <2>1, ChargeFrame DEF TypeInv, CQuiet
  <1> QED BY <1>2, <1>4, <1>5, <1>6, <1>7, <1>8, <1>9 DEF UseKept

----------------------------------------------------------------------------
(* Answers.                                                                *)

\* The token is spent on an error.
LEMMA RefusalKeeps ==
  ASSUME TypeInv, UseInv, NEW q \in Requests,
         Unanswered(q), ~InQueue(q), ~WithP(q)', runner'[q].refMu # "loader",
         /\ request'[q].phase = request[q].phase /\ request'[q].ref = request[q].ref
         /\ request'[q].watch = request[q].watch /\ request'[q].ctxDone = request[q].ctxDone
         /\ request'[q].reply = "err",
         \A s \in Requests : s # q => request'[s] = request[s],
         RunnersQuiet, PQuiet, CQuiet, UNCHANGED <<loaded, pendingReqCh>>
  PROVE  UseKept
  <1> USE DEF UseInv
  <1>1. request[q].phase = "waiting" /\ request[q].watch = "none" /\ request[q].reply = "none"
    BY DEF Unanswered
  <1>2. FreshShrinks
    BY <1>1 DEF PQuiet, FreshShrinks, Fresh, Early, InQueue, WithP
  <1>3. LoadedRunners' = LoadedRunners
    BY DEF LoadedRunners
  <1>4. AnswerInv'
    BY <1>1 DEF AnswerInv, Early
  <1>5. \A s \in Requests : s # q /\ Unanswered(s) => Unanswered(s)'
    BY DEF Unanswered
  <1>6. TurnInv'
    BY <1>5 DEF PQuiet, TurnInv, InQueue, WithP
  <1>7. LoaderInv'
    BY <1>2, <1>3, <1>5 DEF RunnersQuiet, LoaderInv, FreshShrinks, Runners
  <1>8. KnownInv'
    BY <1>1, <1>2 DEF PQuiet, PBusy, KnownInv, Known, FreshShrinks
  <1>9. ValidInv'
    BY <1>2, <1>3 DEF RunnersQuiet, ValidInv, FreshShrinks, Runners
  <1>10. ChargeInv'
    <2>1. c.pc = "dec" => c.runner \in LoadedRunners'
      BY <1>3 DEF ChargeInv
    <2>2. \A s \in Requests : /\ request'[s].watch = request[s].watch
                              /\ request[s].watch # "none" => request'[s].ref = request[s].ref
      OBVIOUS
    <2> QED BY <2>1, <2>2, ChargeFrame DEF TypeInv, RunnersQuiet
  <1> QED BY <1>2, <1>4, <1>6, <1>7, <1>8, <1>9, <1>10 DEF UseKept

\* The count of a runner never comes near the modulus.
LEMMA ChargeBound ==
  ASSUME UseInv, NEW r \in Runners, NEW q \in Requests, request[q].watch = "none"
  PROVE  /\ Cardinality(Given(r)) \in Nat /\ Cardinality(Given(r)) + 1 < RefMod
         /\ Cardinality(Given(r) \cup {q}) = Cardinality(Given(r)) + 1
         /\ Cardinality(Armed(r)) \in Nat
         /\ Cardinality(Armed(r) \cup {q}) = Cardinality(Armed(r)) + 1
         /\ Charged(r) \in {0, 1}
         /\ Cardinality(Armed(r)) + Charged(r) + 1 < RefMod
  <1>1. IsFiniteSet(Requests) /\ Cardinality(Requests) < RefMod /\ RefMod \in Nat
        /\ Cardinality(Requests) \in Nat
    BY SchedulerAssumption, FS_CardinalityType DEF SchedulerAssumption
  <1>2. /\ Given(r) \cup {q} \subseteq Requests /\ q \notin Given(r)
        /\ Armed(r) \cup {q} \subseteq Requests /\ q \notin Armed(r)
    BY DEF Given, Armed
  <1>3. /\ IsFiniteSet(Given(r)) /\ IsFiniteSet(Armed(r))
        /\ Cardinality(Given(r) \cup {q}) <= Cardinality(Requests)
    BY <1>1, <1>2, FS_Subset
  <1>4. /\ Cardinality(Given(r)) \in Nat
        /\ Cardinality(Given(r) \cup {q}) = Cardinality(Given(r)) + 1
        /\ Cardinality(Armed(r)) \in Nat
        /\ Cardinality(Armed(r) \cup {q}) = Cardinality(Armed(r)) + 1
    BY <1>2, <1>3, FS_AddElement, FS_CardinalityType
  <1>5. CASE Charged(r) = 1
    <2>1. PICK s \in Requests : request[s].watch = "sent"
      BY <1>5 DEF Charged, UseInv, ChargeInv
    <2>2. (Armed(r) \cup {q}) \cup {s} \subseteq Requests /\ s \notin Armed(r) \cup {q}
      BY <1>2, <2>1 DEF Armed
    <2>3. IsFiniteSet(Armed(r) \cup {q})
      BY <1>1, <1>2, FS_Subset
    <2>4. Cardinality((Armed(r) \cup {q}) \cup {s}) = Cardinality(Armed(r) \cup {q}) + 1
      BY <2>2, <2>3, FS_AddElement
    <2>5. Cardinality((Armed(r) \cup {q}) \cup {s}) <= Cardinality(Requests)
      BY <1>1, <2>2, FS_Subset
    <2> QED BY <1>1, <1>3, <1>4, <1>5, <2>4, <2>5
  <1>6. CASE Charged(r) = 0
    <2>1. Cardinality(Armed(r) \cup {q}) <= Cardinality(Requests)
      BY <1>1, <1>2, FS_Subset
    <2> QED BY <1>1, <1>3, <1>4, <1>6, <2>1
  <1>7. Charged(r) = 0 \/ Charged(r) = 1
    BY DEF Charged
  <1> QED BY <1>5, <1>6, <1>7

\* What the handing out of runner r to request q does.
Handout(q, r) ==
    /\ /\ request'[q].phase = "waiting" /\ request'[q].ref = r
       /\ request'[q].reply = "ok" /\ request'[q].watch = "armed"
       /\ request'[q].ctxDone = request[q].ctxDone
    /\ \A s \in Requests : s # q => request'[s] = request[s]
    /\ runner'[r].refCount = (runner[r].refCount + 1) % RefMod
    /\ \A s \in Runners :
          /\ s # r => runner'[s].refCount = runner[s].refCount
          /\ runner'[s].valid = runner[s].valid
          /\ runner'[s].refMu = "loader" => runner[s].refMu = "loader"

LEMMA HandoutCharges ==
  ASSUME TypeInv, UseInv, NEW q \in Requests, NEW r \in Runners, Handout(q, r),
         request[q].watch = "none", r \notin Fresh, CQuiet, UNCHANGED loaded
  PROVE  ChargeInv'
  <1> USE DEF UseInv
  <1>1. \A s \in Runners : runner[s].refCount \in Nat
    BY RefCountRange DEF TypeInv, RunnerType, Runner
  <1>2. /\ Armed(r)' = Armed(r) \cup {q} /\ Given(r)' = Given(r) \cup {q}
        /\ \A s \in Runners : s # r => Armed(s)' = Armed(s) /\ Given(s)' = Given(s)
    BY DEF Handout, Armed, Given
  <1>3. \A s \in Runners : Charged(s)' = Charged(s)
    BY DEF CQuiet, Charged
  <1>4. ~runner[r].valid => runner'[r].refCount = runner[r].refCount + 1
    <2>1. ~runner[r].valid => /\ runner[r].refCount <= Cardinality(Given(r))
      BY DEF ChargeInv
    <2>2. Cardinality(Given(r)) \in Nat /\ Cardinality(Given(r)) + 1 < RefMod
      BY ChargeBound
    <2>3. RefMod \in Nat /\ RefMod > 0
      BY RefCountRange
    <2>4. \A n \in Nat : n + 1 < RefMod => (n + 1) % RefMod = n + 1
      BY <2>3
    <2>5. ~runner[r].valid => runner[r].refCount + 1 < RefMod
      BY <1>1, <2>1, <2>2, <2>3
    <2> QED BY <1>1, <2>4, <2>5 DEF Handout
  <1>5. c'.pc = "dec" => c'.runner \in LoadedRunners' /\ \E s \in Requests : request'[s].watch = "sent"
    BY DEF CQuiet, ChargeInv, LoadedRunners, Handout
  <1>6. \A s \in Runners : ~runner'[s].valid => runner'[s].refCount <= Cardinality(Given(s)')
    <2>1. Cardinality(Given(r)') = Cardinality(Given(r)) + 1 /\ Cardinality(Given(r)) \in Nat
      BY <1>2, ChargeBound
    <2>2. ~runner[r].valid => runner'[r].refCount <= Cardinality(Given(r)')
      BY <1>1, <1>4, <2>1 DEF ChargeInv
    <2> QED BY <1>2, <2>2 DEF Handout, ChargeInv
  <1>7. ASSUME NoStaleHandout'
        PROVE  \A s \in Runners : runner'[s].refCount = Cardinality(Armed(s)') + Charged(s)'
    <2>1. runner[r].valid
      BY <1>1, <1>4, <1>7 DEF NoStaleHandout, Handout
    <2>2. NoStaleHandout
      BY <1>7, <2>1 DEF NoStaleHandout, Handout
    <2>3. \A s \in Runners : runner[s].refCount = Cardinality(Armed(s)) + Charged(s)
      BY <2>2 DEF ChargeInv
    <2>4. runner'[r].refCount = runner[r].refCount + 1
      <3>1. runner[r].refCount + 1 < RefMod
        BY <2>3, ChargeBound
      <3>2. \A n \in Nat : n + 1 < RefMod => (n + 1) % RefMod = n + 1
        BY RefCountRange
      <3> QED BY <1>1, <3>1, <3>2 DEF Handout
    <2>5. runner'[r].refCount = Cardinality(Armed(r)') + Charged(r)'
      <3>1. /\ Cardinality(Armed(r)') = Cardinality(Armed(r)) + 1
            /\ Cardinality(Armed(r)) \in Nat /\ Charged(r) \in {0, 1}
        BY <1>2, ChargeBound
      <3> QED BY <1>3, <2>3, <2>4, <3>1
    <2> QED BY <1>2, <1>3, <2>3, <2>5 DEF Handout
  <1> QED BY <1>5, <1>6, <1>7 DEF ChargeInv

\* The token is spent on a runner that others may use as well.
LEMMA HandoutKeeps ==
  ASSUME TypeInv, UseInv, NEW q \in Requests, NEW r \in Runners, Handout(q, r),
         request[q].watch = "none", request[q].reply = "none",
         Known(r, ModelOf[q]), ~InQueue(q), ~WithP(q)', runner'[q].refMu # "loader",
         Early(q) \/ Unanswered(q), PQuiet, CQuiet, UNCHANGED <<loaded, pendingReqCh>>
  PROVE  UseKept
  <1> USE DEF UseInv
  <1>1. FreshShrinks
    BY DEF Handout, PQuiet, FreshShrinks, Fresh, Early, InQueue, WithP
  <1>2. LoadedRunners' = LoadedRunners
    BY DEF LoadedRunners
  <1>3. AnswerInv'
    BY DEF Handout, AnswerInv, Early
  <1>4. \A s \in Requests : s # q /\ Unanswered(s) => Unanswered(s)'
    BY DEF Handout, Unanswered
  <1>5. TurnInv'
    BY <1>4 DEF PQuiet, TurnInv, InQueue, WithP
  <1>6. LoaderInv'
    BY <1>1, <1>2, <1>4 DEF Handout, LoaderInv, FreshShrinks, Runners
  <1>7. KnownInv'
    BY <1>1 DEF Handout, PQuiet, PBusy, KnownInv, Known, FreshShrinks
  <1>8. ValidInv'
    BY <1>1, <1>2 DEF Handout, ValidInv, FreshShrinks, Runners, Known
  <1>9. ChargeInv'
    BY HandoutCharges DEF Known
  <1> QED BY <1>1, <1>3, <1>5, <1>6, <1>7, <1>8, <1>9 DEF UseKept

\* A load that fails, before or after the runner was installed.
LEMMA FailureKeeps ==
  ASSUME TypeInv, UseInv, PCreateFails \/ PLoadFails
  PROVE  UseKept
  <1>0. PICK q \in Requests : q = p.req
    BY DEF PCreateFails, PLoadFails, CloseActive, TypeInv, PInv, PSet
  <1>1. /\ WithP(q) /\ ~PBusy'
        /\ UNCHANGED <<loaded, pendingReqCh, c>>
        /\ request' = [request EXCEPT ![q].reply = "err"]
    BY <1>0 DEF PCreateFails, PLoadFails, Reply, TypeInv, PInv, PType, PSet, channels,
           WithP, PBusy, CloseActive
  <1>2. Unanswered(q) /\ ~InQueue(q) /\ q \in Fresh
    BY <1>1 DEF UseInv, TurnInv, WithP, Fresh
  <1>3. RunnersQuiet
    <2>1. CASE PCreateFails
      BY <2>1 DEF PCreateFails, RunnersQuiet
    <2>2. CASE PLoadFails
      BY <2>2 DEF PLoadFails, CloseActive, TypeInv, RunnerType, Runner, RunnersQuiet
    <2> QED BY <2>1, <2>2
  <1>4. runner'[q].refMu # "loader"
    BY <1>1, <1>2, <1>3 DEF UseInv, LoaderInv, RunnersQuiet, Runners
  <1>5. /\ request'[q].phase = request[q].phase /\ request'[q].ref = request[q].ref
        /\ request'[q].watch = request[q].watch /\ request'[q].ctxDone = request[q].ctxDone
        /\ request'[q].reply = "err"
        /\ \A s \in Requests : s # q => request'[s] = request[s]
    BY <1>1 DEF TypeInv, RequestInv, RequestType, Request
  <1>6. ~WithP(q)' /\ PQuiet /\ CQuiet
    BY <1>1 DEF WithP, PQuiet, PBusy, CQuiet
  <1> QED BY <1>1, <1>2, <1>3, <1>4, <1>5, <1>6, RefusalKeeps

LEMMA LoaderFailsKeeps ==
  ASSUME TypeInv, UseInv, NEW q \in Requests, LoaderFails(q)
  PROVE  UseKept
  <1>1. /\ runner[q].refMu = "loader"
        /\ UNCHANGED <<loaded, pendingReqCh, p, c>>
        /\ request' = [request EXCEPT ![q].reply = "err"]
        /\ runner' = [runner EXCEPT ![q].refMu = "failed"]
    BY DEF LoaderFails, Reply, channels
  <1>2. Unanswered(q) /\ ~InQueue(q) /\ ~WithP(q)
    BY <1>1 DEF UseInv, LoaderInv, Runners, Fresh
  <1>3. RunnersQuiet /\ runner'[q].refMu # "loader"
    BY <1>1 DEF TypeInv, RunnerType, Runner, Runners, RunnersQuiet
  <1>4. /\ request'[q].phase = request[q].phase /\ request'[q].ref = request[q].ref
        /\ request'[q].watch = request[q].watch /\ request'[q].ctxDone = request[q].ctxDone
        /\ request'[q].reply = "err"
        /\ \A s \in Requests : s # q => request'[s] = request[s]
    BY <1>1 DEF TypeInv, RequestInv, RequestType, Request
  <1>5. ~WithP(q)' /\ PQuiet /\ CQuiet
    BY <1>1, <1>2 DEF WithP, PQuiet, PBusy, CQuiet
  <1>6. UNCHANGED <<loaded, pendingReqCh>>
    BY <1>1
  <1> QED BY <1>2, <1>3, <1>4, <1>5, <1>6, RefusalKeeps

LEMMA UseIsHandout ==
  ASSUME TypeInv, NEW q \in Requests, NEW r \in Runners, UseLoadedRunner(q, r)
  PROVE  Handout(q, r)
  <1>1. request' = [request EXCEPT ![q] = [@ EXCEPT
                      !.phase = "waiting", !.ref = r, !.reply = "ok", !.watch = "armed"]]
    BY DEF UseLoadedRunner
  <1>2. /\ request'[q].phase = "waiting" /\ request'[q].ref = r
        /\ request'[q].reply = "ok" /\ request'[q].watch = "armed"
        /\ request'[q].ctxDone = request[q].ctxDone
        /\ \A s \in Requests : s # q => request'[s] = request[s]
    BY <1>1 DEF TypeInv, RequestInv, RequestType, Request
  <1> DEFINE k == (runner[r].refCount + 1) % RefMod
             u == IF KeepAliveOf[q] = "unset" THEN runner[r].session ELSE KeepAliveOf[q]
  <1>3. runner' = [runner EXCEPT ![r] = [@ EXCEPT !.refCount = k, !.timer = "nil",
                                                  !.session = u]]
    BY DEF UseLoadedRunner
  <1> HIDE DEF k, u
  <1>4. /\ runner'[r].refCount = k /\ runner'[r].valid = runner[r].valid
        /\ runner'[r].refMu = runner[r].refMu
        /\ \A s \in Runners : s # r => runner'[s] = runner[s]
    BY <1>3 DEF TypeInv, RunnerType, Runner
  <1> QED BY <1>2, <1>4 DEF Handout, k

\* The handler, or P, uses a loaded runner.
LEMMA UseKeeps ==
  ASSUME TypeInv, UseInv
  PROVE  /\ \A q \in Requests : HUse(q) => UseKept
         /\ PUse => UseKept
  <1>1. ASSUME NEW q \in Requests, HUse(q)
        PROVE  UseKept
    <2> DEFINE r == request[q].ref
    <2>1. /\ request[q].phase = "use" /\ r \in Runners /\ UseLoadedRunner(q, r)
          /\ UNCHANGED <<loaded, pendingReqCh, p, c>>
      BY <1>1 DEF HUse, TypeInv, RequestInv, RefsSet, channels
    <2>2. Handout(q, r)
      BY <2>1, UseIsHandout
    <2>3. /\ Early(q) /\ Known(r, ModelOf[q])
          /\ request[q].watch = "none" /\ request[q].reply = "none"
          /\ ~Unanswered(q) /\ q \in Fresh
      BY <2>1 DEF UseInv, AnswerInv, KnownInv, Early, Unanswered, Fresh
    <2>4. ~InQueue(q) /\ ~WithP(q) /\ runner[q].refMu # "loader"
      BY <2>3 DEF UseInv, TurnInv, LoaderInv, Runners
    <2>5. ~WithP(q)' /\ runner'[q].refMu # "loader" /\ PQuiet /\ CQuiet
      BY <2>1, <2>2, <2>4 DEF Handout, Runners, WithP, PQuiet, PBusy, CQuiet
    <2> HIDE DEF r
    <2> QED BY <2>1, <2>2, <2>3, <2>4, <2>5, HandoutKeeps
  <1>2. ASSUME PUse
        PROVE  UseKept
    <2>0. PICK q \in Requests, r \in Runners : q = p.req /\ r = p.target
      BY <1>2 DEF PUse, TypeInv, PInv, PSet
    <2>1. /\ p.pc = "use" /\ UseLoadedRunner(q, r)
          /\ ~PBusy' /\ WithP(q)
          /\ UNCHANGED <<loaded, pendingReqCh, c>>
      BY <1>2, <2>0 DEF PUse, TypeInv, PInv, PType, channels, WithP, PBusy
    <2>2. Handout(q, r)
      BY <2>1, UseIsHandout
    <2>3. /\ Unanswered(q) /\ Known(r, ModelOf[q]) /\ ~InQueue(q) /\ q \in Fresh
      BY <2>0, <2>1 DEF UseInv, TurnInv, KnownInv, WithP, Fresh
    <2>4. request[q].watch = "none" /\ request[q].reply = "none" /\ runner[q].refMu # "loader"
      BY <2>3 DEF Unanswered, UseInv, LoaderInv, Runners
    <2>5. ~WithP(q)' /\ runner'[q].refMu # "loader" /\ PQuiet /\ CQuiet
      BY <2>1, <2>2, <2>4 DEF Handout, Runners, WithP, PQuiet, PBusy, CQuiet
    <2> QED BY <2>1, <2>2, <2>3, <2>4, <2>5, HandoutKeeps
  <1> QED BY <1>1, <1>2

\* The load ends and the request that asked for it is answered.
LEMMA LoaderReadyKeeps ==
  ASSUME TypeInv, UseInv, NEW q \in Requests, LoaderReady(q)
  PROVE  UseKept
  <1> DEFINE k == (runner[q].refCount + 1) % RefMod
  <1>1. /\ runner[q].refMu = "loader"
        /\ UNCHANGED <<loaded, pendingReqCh, p, c>>
        /\ request' = [request EXCEPT ![q] = [@ EXCEPT !.watch = "armed", !.ref = q, !.reply = "ok"]]
        /\ runner' = [runner EXCEPT ![q] = [@ EXCEPT !.refCount = k, !.refMu = "free"]]
    BY DEF LoaderReady, channels
  <1>2. /\ Unanswered(q) /\ ~InQueue(q) /\ ~WithP(q) /\ Known(q, ModelOf[q])
        /\ request[q].watch = "none" /\ request[q].reply = "none" /\ request[q].phase = "waiting"
    BY <1>1 DEF UseInv, LoaderInv, Runners, Fresh, Known, Unanswered
  <1> HIDE DEF k
  <1>3. /\ request'[q].phase = request[q].phase /\ request'[q].ref = q
        /\ request'[q].reply = "ok" /\ request'[q].watch = "armed"
        /\ request'[q].ctxDone = request[q].ctxDone
        /\ \A s \in Requests : s # q => request'[s] = request[s]
    BY <1>1 DEF TypeInv, RequestInv, RequestType, Request
  <1>4. /\ runner'[q].refCount = k /\ runner'[q].valid = runner[q].valid
        /\ runner'[q].refMu = "free"
        /\ \A s \in Runners : s # q => runner'[s] = runner[s]
    BY <1>1 DEF TypeInv, RunnerType, Runner, Runners
  <1>5. Handout(q, q)
    BY <1>2, <1>3, <1>4 DEF Handout, k
  <1>6. ~WithP(q)' /\ PQuiet /\ CQuiet
    BY <1>1, <1>2 DEF WithP, PQuiet, PBusy, CQuiet
  <1> QED BY <1>1, <1>2, <1>4, <1>5, <1>6, HandoutKeeps DEF Runners

----------------------------------------------------------------------------
(* The steps that count down, install and unload.                          *)

\* What C learns of a finished request: it is charged to the runner it was given,
\* for a runner with a count that was handed out in time is still in the map.
LEMMA FinishedCharges ==
  ASSUME TypeInv, UseInv, NEW q \in Requests, CFinished(q),
         /\ request'[q].watch = "sent" /\ request'[q].ref = request[q].ref
         /\ \A s \in Requests : s # q => request'[s] = request[s]
  PROVE  ChargeInv'
  <1> USE DEF UseInv
  <1> DEFINE r == loaded[ModelOf[q]]
  <1>0. PICK o \in Runners : o = request[q].ref
    BY DEF CFinished, KnownInv, Known
  <1>1. /\ UNCHANGED <<runner, loaded>> /\ c.pc = "idle" /\ request[q].watch = "armed"
        /\ c' = IF r = None THEN c ELSE [pc |-> "dec", runner |-> r]
    BY DEF CFinished
  <1>2. /\ ModelOf[o] = ModelOf[q] /\ ModelOf[q] \in Models
        /\ r # None => r \in LoadedRunners
    BY <1>0, <1>1, Constants DEF KnownInv, Known, LoadedRunners, TypeInv, MapType, Runners
  <1>3. c'.pc = "dec" => c'.runner \in LoadedRunners' /\ \E s \in Requests : request'[s].watch = "sent"
    BY <1>1, <1>2 DEF LoadedRunners
  <1>4. /\ \A s \in Runners : Given(s)' = Given(s)
        /\ \A s \in Runners : s # o => Armed(s)' = Armed(s)
        /\ Armed(o) = Armed(o)' \cup {q} /\ q \notin Armed(o)'
    BY <1>0, <1>1 DEF Given, Armed
  <1>5. \A s \in Runners : ~runner'[s].valid => runner'[s].refCount <= Cardinality(Given(s)')
    BY <1>1, <1>4 DEF ChargeInv
  <1>6. ASSUME NoStaleHandout'
        PROVE  \A s \in Runners : runner'[s].refCount = Cardinality(Armed(s)') + Charged(s)'
    <2>1. \A s \in Runners : runner[s].refCount = Cardinality(Armed(s)) + Charged(s)
      BY <1>1, <1>6 DEF NoStaleHandout, ChargeInv
    <2>2. \A s \in Runners : Charged(s) = 0
      BY <1>1 DEF Charged
    <2>3. /\ Cardinality(Armed(o)) = Cardinality(Armed(o)') + 1
          /\ Cardinality(Armed(o)') \in Nat /\ Cardinality(Armed(o)) \in Nat
      <3>1. Armed(o)' \subseteq Requests /\ IsFiniteSet(Requests)
        BY SchedulerAssumption DEF Armed, SchedulerAssumption
      <3>2. IsFiniteSet(Armed(o)')
        BY <3>1, FS_Subset
      <3> QED BY <1>4, <3>2, FS_AddElement, FS_CardinalityType
    <2>4. runner[o].refCount > 0
      BY <1>2, <2>1, <2>2, <2>3
    <2>5. o \in LoadedRunners
      BY <1>1, <1>2, <1>6, <2>4 DEF NoStaleHandout, ValidInv
    <2>6. r = o
      BY <1>2, <2>5 DEF LoadedRunners
    <2>7. r # None
      BY <1>2, <2>6, Constants DEF Runners
    <2>8. c'.pc = "dec" /\ c'.runner = o
      BY <1>1, <2>6, <2>7
    <2>9. \A s \in Runners : Charged(s)' = IF s = o THEN 1 ELSE 0
      BY <2>8 DEF Charged
    <2> HIDE DEF r
    <2>10. \A s \in Runners : s # o => runner'[s].refCount = Cardinality(Armed(s)') + Charged(s)'
      BY <1>1, <1>4, <2>1, <2>2, <2>9
    <2>11. runner'[o].refCount = Cardinality(Armed(o)') + Charged(o)'
      BY <1>1, <1>2, <2>1, <2>2, <2>3, <2>9
    <2> QED BY <2>10, <2>11
  <1> QED BY <1>3, <1>5, <1>6 DEF ChargeInv

LEMMA FinishedKeeps ==
  ASSUME TypeInv, UseInv, NEW q \in Requests, CFinished(q)
  PROVE  UseKept
  <1> USE DEF UseInv
  <1>1. /\ UNCHANGED <<runner, loaded, pendingReqCh, p>>
        /\ request[q].watch = "armed" /\ request[q].ctxDone
        /\ request' = [request EXCEPT ![q].watch = "sent"]
    BY DEF CFinished, channels
  <1>2. /\ request'[q].phase = request[q].phase /\ request'[q].ref = request[q].ref
        /\ request'[q].reply = request[q].reply /\ request'[q].watch = "sent"
        /\ request'[q].ctxDone = request[q].ctxDone
        /\ \A s \in Requests : s # q => request'[s] = request[s]
    BY <1>1 DEF TypeInv, RequestInv, RequestType, Request
  <1>3. Fresh' = Fresh
    BY <1>1, <1>2 DEF Fresh, Early, InQueue, WithP, PBusy
  <1>4. LoadedRunners' = LoadedRunners
    BY <1>1 DEF LoadedRunners
  <1>5. AnswerInv'
    BY <1>1, <1>2 DEF AnswerInv, Early
  <1>6. \A s \in Requests : Unanswered(s) => Unanswered(s)'
    BY <1>1, <1>2 DEF Unanswered
  <1>7. TurnInv'
    BY <1>1, <1>6 DEF TurnInv, InQueue, WithP, PBusy
  <1>8. LoaderInv'
    BY <1>1, <1>3, <1>4, <1>6 DEF LoaderInv, Runners
  <1>9. KnownInv'
    BY <1>1, <1>2, <1>3 DEF KnownInv, Known
  <1>10. ValidInv'
    BY <1>1, <1>3, <1>4 DEF ValidInv
  <1>11. ChargeInv'
    BY <1>2, FinishedCharges
  <1> QED BY <1>3, <1>5, <1>7, <1>8, <1>9, <1>10, <1>11 DEF UseKept, FreshShrinks

\* C counts a finished request.
LEMMA DecrementKeeps ==
  ASSUME TypeInv, UseInv, CDecrement
  PROVE  UseKept
  <1> USE DEF UseInv
  <1>0. PICK r \in Runners : r = c.runner
    BY DEF CDecrement, TypeInv, CInv, CSet
  <1> DEFINE n == (runner[r].refCount + RefMod - 1) % RefMod
  <1>1. /\ UNCHANGED <<request, loaded, pendingReqCh, p>>
        /\ c.pc = "dec" /\ c'.pc \in {"send", "idle"}
        /\ runner'[r].refCount = n /\ runner'[r].valid = runner[r].valid
        /\ runner'[r].refMu # "loader"
        /\ \A s \in Runners : s # r => runner'[s] = runner[s]
    <2> DEFINE atOnce == runner[r].session = "zero"
               t == IF n # 0 THEN runner[r].timer ELSE IF atOnce THEN "nil" ELSE "running"
               l == IF n = 0 /\ atOnce THEN "C" ELSE "free"
    <2>1. /\ runner' = [runner EXCEPT ![r] = [@ EXCEPT !.refCount = n, !.timer = t, !.refMu = l]]
          /\ UNCHANGED <<request, loaded, pendingReqCh, p>>
          /\ c.pc = "dec"
      BY <1>0 DEF CDecrement, channels
    <2>2. c'.pc \in {"send", "idle"}
      BY DEF CDecrement, TypeInv, CInv, CType
    <2>3. l # "loader"
      OBVIOUS
    <2> HIDE DEF n, t, l
    <2>4. /\ runner'[r].refCount = n /\ runner'[r].valid = runner[r].valid
          /\ runner'[r].refMu = l
          /\ \A s \in Runners : s # r => runner'[s] = runner[s]
      BY <2>1 DEF TypeInv, RunnerType, Runner
    <2> QED BY <2>1, <2>2, <2>3, <2>4
  <1> HIDE DEF n
  <1>2. r \in LoadedRunners
    BY <1>0, <1>1 DEF ChargeInv
  <1>3. ModelOf[r] \in Models /\ r \notin Fresh
    BY <1>2, Constants DEF LoadedRunners, Runners, KnownInv, Known
  <1>4. Fresh' = Fresh /\ LoadedRunners' = LoadedRunners
    BY <1>1 DEF Fresh, Early, InQueue, WithP, PBusy, LoadedRunners
  <1>5. AnswerInv' /\ TurnInv'
    BY <1>1 DEF AnswerInv, Early, TurnInv, InQueue, WithP, PBusy, Unanswered
  <1>6. LoaderInv'
    BY <1>1, <1>4 DEF LoaderInv, Unanswered
  <1>7. KnownInv'
    BY <1>1, <1>4 DEF KnownInv, Known
  <1>8. ValidInv'
    BY <1>1, <1>3, <1>4 DEF ValidInv
  <1>9. ChargeInv'
    <2>1. \A s \in Runners : Armed(s)' = Armed(s) /\ Given(s)' = Given(s)
      BY <1>1 DEF Armed, Given
    <2>2. runner[r].valid
      BY <1>2 DEF ValidInv
    <2>3. \A s \in Runners : ~runner'[s].valid => runner'[s].refCount <= Cardinality(Given(s)')
      BY <1>1, <2>1, <2>2 DEF ChargeInv
    <2>4. ASSUME NoStaleHandout'
          PROVE  \A s \in Runners : runner'[s].refCount = Cardinality(Armed(s)') + Charged(s)'
      <3>1. NoStaleHandout
        BY <1>1, <2>2, <2>4 DEF NoStaleHandout
      <3>2. \A s \in Runners : runner[s].refCount = Cardinality(Armed(s)) + Charged(s)
        BY <3>1 DEF ChargeInv
      <3>3. \A s \in Runners : Charged(s) = (IF s = r THEN 1 ELSE 0) /\ Charged(s)' = 0
        BY <1>0, <1>1 DEF Charged
      <3>4. Cardinality(Armed(r)) \in Nat /\ RefMod \in Nat /\ RefMod > 0
            /\ runner[r].refCount \in 0 .. (RefMod - 1)
        BY RefCountRange, SchedulerAssumption, FS_Subset, FS_CardinalityType
           DEF Armed, SchedulerAssumption, TypeInv, RunnerType, Runner
      <3>5. runner[r].refCount = Cardinality(Armed(r)) + 1
        BY <3>2, <3>3
      <3>6. \A k \in 1 .. (RefMod - 1) : (k + RefMod - 1) % RefMod = k - 1
        BY <3>4
      <3>7. n = Cardinality(Armed(r))
        BY <3>4, <3>5, <3>6 DEF n
      <3>8. \A s \in Runners : s # r => runner'[s].refCount = Cardinality(Armed(s)') + Charged(s)'
        BY <1>1, <2>1, <3>2, <3>3
      <3>9. runner'[r].refCount = Cardinality(Armed(r)') + Charged(r)'
        BY <1>1, <2>1, <3>3, <3>4, <3>7
      <3> QED BY <3>8, <3>9
    <2> QED BY <1>1, <2>3, <2>4 DEF ChargeInv
  <1> QED BY <1>4, <1>5, <1>6, <1>7, <1>8, <1>9 DEF UseKept, FreshShrinks

\* C unloads a runner with no count.
LEMMA UnloadKeeps ==
  ASSUME TypeInv, UseInv, CUnload
  PROVE  UseKept
  <1> USE DEF UseInv
  <1>0. PICK r \in Runners : r = c.runner
    BY DEF CUnload, TypeInv, CInv, CSet
  <1> DEFINE m == ModelOf[r]
  <1>1. /\ UNCHANGED <<request, pendingReqCh, p>>
        /\ c.pc = "expire" /\ c'.pc = "recover"
        /\ loaded[m] = r /\ loaded' = [loaded EXCEPT ![m] = None]
        /\ runner[r].refCount = 0 /\ runner[r].refMu = "free"
    BY <1>0 DEF CUnload, Idle, TypeInv, CInv, CType, channels
  <1>2. /\ runner'[r].refCount = runner[r].refCount /\ runner'[r].valid = FALSE
        /\ runner'[r].refMu = "C"
        /\ \A s \in Runners : s # r => runner'[s] = runner[s]
    BY <1>0 DEF CUnload, Unload, TypeInv, RunnerType, Runner
  <1>3. m \in Models /\ \A k \in Models : k # m => loaded'[k] = loaded[k]
    BY <1>1, Constants DEF TypeInv, MapType, Runners
  <1>4. loaded'[m] = None
    BY <1>1, <1>3 DEF TypeInv, MapType
  <1>5. LoadedRunners' = LoadedRunners \ {r}
    BY <1>1, <1>3, <1>4, Constants DEF LoadedRunners, Runners
  <1> HIDE DEF m
  <1>6. Fresh' = Fresh
    BY <1>1 DEF Fresh, Early, InQueue, WithP, PBusy
  <1>7. AnswerInv' /\ TurnInv'
    BY <1>1 DEF AnswerInv, Early, TurnInv, InQueue, WithP, PBusy, Unanswered
  <1>8. LoaderInv'
    BY <1>1, <1>2, <1>5, <1>6 DEF LoaderInv, Unanswered
  <1>9. KnownInv'
    BY <1>1, <1>3, <1>4, <1>6 DEF KnownInv, Known
  <1>10. ValidInv'
    BY <1>1, <1>2, <1>5, <1>6 DEF ValidInv
  <1>11. ChargeInv'
    <2>1. \A s \in Runners :
             /\ runner'[s].refCount = runner[s].refCount
             /\ runner'[s].valid = runner[s].valid \/ runner[s].refCount = 0
      BY <1>1, <1>2
    <2> QED BY <1>1, <2>1, ChargeFrame DEF TypeInv, CQuiet
  <1> QED BY <1>6, <1>7, <1>8, <1>9, <1>10, <1>11 DEF UseKept, FreshShrinks

\* P installs the runner of its request, which takes its token to the loader.
LEMMA InstallKeeps ==
  ASSUME TypeInv, LoadInv, UseInv, PInstall
  PROVE  UseKept
  <1> USE DEF UseInv
  <1>0. PICK q \in Requests : q = p.req
    BY DEF PInstall, TypeInv, PInv, PSet
  <1> DEFINE m == ModelOf[q]
  <1>1. /\ UNCHANGED <<request, pendingReqCh, c>>
        /\ WithP(q) /\ ~PBusy' /\ p'.pc = "idle"
        /\ loaded[m] = None /\ loaded' = [loaded EXCEPT ![m] = q]
    BY <1>0 DEF PInstall, TypeInv, PInv, PType, channels, WithP, PBusy,
                LoadInv, SlotInv, Attempting
  <1>2. /\ runner'[q].refCount = runner[q].refCount /\ runner'[q].valid = TRUE
        /\ runner'[q].refMu = "loader"
        /\ \A s \in Runners : s # q => runner'[s] = runner[s]
    <2> DEFINE u == IF KeepAliveOf[q] = "unset" THEN DefaultKeepAlive ELSE KeepAliveOf[q]
    <2>1. runner' = [runner EXCEPT ![q] = [@ EXCEPT !.refMu = "loader", !.valid = TRUE,
                                                    !.session = u]]
      BY <1>0 DEF PInstall
    <2> HIDE DEF u
    <2> QED BY <2>1 DEF TypeInv, RunnerType, Runner, Runners
  <1>3. /\ m \in Models /\ \A k \in Models : k # m => loaded'[k] = loaded[k]
        /\ loaded'[m] = q
    BY <1>1, Constants DEF TypeInv, MapType, Runners
  <1>4. LoadedRunners' = LoadedRunners \cup {q}
    BY <1>1, <1>3, Constants DEF LoadedRunners, Runners
  <1>5. /\ q \in Fresh /\ ~InQueue(q) /\ Unanswered(q)
        /\ runner[q].refCount = 0 /\ ~runner[q].valid
    <2>1. q \in Fresh /\ ~InQueue(q) /\ Unanswered(q)
      BY <1>1 DEF Fresh, TurnInv, WithP
    <2>2. q \notin LoadedRunners
      BY <1>1, Constants DEF LoadedRunners
    <2> QED BY <2>1, <2>2 DEF ValidInv, Runners
  <1> HIDE DEF m
  <1>6. Fresh' = Fresh \ {q}
    <2>1. q \notin Fresh'
      BY <1>1, <1>5 DEF Fresh, Early, InQueue, WithP, Unanswered
    <2>2. \A s \in Requests : WithP(s) => s = q
      BY <1>0 DEF WithP
    <2>3. \A s \in Requests : s # q => (s \in Fresh <=> s \in Fresh')
      BY <1>1, <2>2 DEF Fresh, Early, InQueue, WithP
    <2> QED BY <2>1, <2>3 DEF Fresh
  <1>7. AnswerInv'
    BY <1>1 DEF AnswerInv, Early
  <1>8. TurnInv'
    BY <1>1 DEF TurnInv, InQueue, WithP, Unanswered
  <1>9. LoaderInv'
    BY <1>1, <1>2, <1>4, <1>5, <1>6 DEF LoaderInv, Unanswered
  <1>10. KnownInv'
    <2>1. Known(q, m)'
      BY <1>6 DEF Known, m, Runners
    <2>2. \A k \in Models : loaded'[k] # None =>
             loaded'[k] \in Runners /\ ModelOf[loaded'[k]] = k /\ loaded'[k] \notin Fresh'
      BY <1>3, <1>6, <2>1 DEF KnownInv, Known
    <2>3. \A s \in Requests :
             request'[s].phase \in {"check", "use"} \/ request'[s].watch # "none" =>
                 /\ request'[s].ref \in Runners /\ ModelOf[request'[s].ref] = ModelOf[s]
                 /\ request'[s].ref \notin Fresh'
      BY <1>1, <1>6 DEF KnownInv, Known
    <2> QED BY <1>1, <2>2, <2>3 DEF KnownInv, Known
  <1>11. ValidInv'
    BY <1>2, <1>4, <1>5, <1>6 DEF ValidInv
  <1>12. ChargeInv'
    <2>1. \A s \in Runners :
             /\ runner'[s].refCount = runner[s].refCount
             /\ runner'[s].valid = runner[s].valid \/ runner[s].refCount = 0
      BY <1>2, <1>5
    <2>2. c.pc = "dec" => c.runner \in LoadedRunners'
      BY <1>4 DEF ChargeInv
    <2> QED BY <1>1, <2>1, <2>2, ChargeFrame DEF TypeInv, CQuiet
  <1> QED BY <1>6, <1>7, <1>8, <1>9, <1>10, <1>11, <1>12 DEF UseKept, FreshShrinks

----------------------------------------------------------------------------

LEMMA InitUse == Init => UseInv
  <1> SUFFICES ASSUME Init PROVE UseInv
    OBVIOUS
  <1>1. \A q \in Requests : /\ request[q].phase = "new" /\ request[q].ref = None
                            /\ request[q].reply = "none" /\ request[q].watch = "none"
    BY DEF Init
  <1>2. \A r \in Runners : /\ runner[r].refCount = 0 /\ runner[r].refMu = "free"
                           /\ ~runner[r].valid
    BY DEF Init
  <1>3. (\A m \in Models : loaded[m] = None) /\ pendingReqCh = <<>> /\ p.pc = "idle" /\ c.pc = "idle"
    BY DEF Init
  <1>4. LoadedRunners = {}
    BY <1>3, Constants DEF LoadedRunners, Runners
  <1>5. AnswerInv
    BY <1>1 DEF AnswerInv
  <1>6. TurnInv
    BY <1>3 DEF TurnInv, InQueue, WithP, PBusy
  <1>7. LoaderInv
    BY <1>2 DEF LoaderInv
  <1>8. KnownInv
    BY <1>1, <1>3 DEF KnownInv
  <1>9. ValidInv
    BY <1>2, <1>4 DEF ValidInv
  <1>10. ChargeInv
    <2>1. \A r \in Runners : Given(r) = {} /\ Armed(r) = {} /\ Charged(r) = 0
      BY <1>1, <1>3 DEF Given, Armed, Charged
    <2>2. Cardinality({}) = 0
      BY FS_EmptySet
    <2>3. \A r \in Runners : /\ runner[r].refCount = 0 /\ Cardinality(Given(r)) = 0
                             /\ Cardinality(Armed(r)) + Charged(r) = 0
      BY <1>2, <2>1, <2>2
    <2> QED BY <1>3, <2>3 DEF ChargeInv
  <1> QED BY <1>5, <1>6, <1>7, <1>8, <1>9, <1>10 DEF UseInv

LEMMA NextUse ==
  ASSUME TypeInv, LoadInv, UseInv, [Next]_vars
  PROVE  UseKept
  <1>1. CASE UNCHANGED vars
    <2>1. Quiet
      BY <1>1 DEF vars, channels, Quiet, RequestsQuiet, RunnersQuiet, PQuiet, PBusy, CQuiet
    <2> QED BY <2>1, QuietKeeps
  <1>2. ASSUME NEW q \in Requests,
               \/ HLookup(q) \/ HCheck(q) \/ HUse(q) \/ HEnqueue(q)
               \/ HFinish(q) \/ HCancel(q) \/ CFinished(q) \/ XRuntimeOOM(q)
        PROVE  UseKept
    BY <1>2, LookupKeeps, UseKeeps, EnqueueKeeps, FinishedKeeps, OutsideQuiet, QuietKeeps
  <1>3. ASSUME NEW r \in Runners,
               \/ LoaderReady(r) \/ LoaderFails(r) \/ LoaderExpires(r)
               \/ TimerFires(r) \/ TimerLocks(r) \/ TimerSends(r)
               \/ RetrySends(r) \/ Crash(r)
        PROVE  UseKept
    BY <1>3, LoaderReadyKeeps, LoaderFailsKeeps, OutsideQuiet, QuietKeeps DEF Runners
  <1>4. CASE \/ PIgnoreUnload \/ PCheck \/ PSpace \/ PSum \/ PCreate \/ PPreflight
             \/ PRequiredFull \/ PLoadOOM \/ PLoadPanics \/ PList \/ PScan \/ PExpire
             \/ PSend \/ PWait \/ PEvictAll \/ PEvict \/ PEvictSend \/ PEvictWait \/ PStop
    BY <1>4, PendingQuiet, QuietKeeps
  <1>5. CASE PRecv \/ PTop \/ PUse \/ PCreateFails \/ PLoadFails \/ PInstall
    BY <1>5, ReceiveKeeps, TopKeeps, UseKeeps, FailureKeeps, InstallKeeps
  <1>6. CASE \/ CExpired \/ CSend \/ CBusy \/ CDuplicateOrOrphan \/ CRecovered \/ CNotify
             \/ CStop \/ CDecrement \/ CUnload
    BY <1>6, CompletedQuiet, QuietKeeps, DecrementKeeps, UnloadKeeps
  <1>7. CASE \/ \E m \in Models : XExpireModel(m)
             \/ XMark \/ XSend \/ ShutdownCancels \/ UnloadAllRunners \/ Terminated
    BY <1>7, OutsideQuiet, QuietKeeps
  <1> QED
    BY <1>1, <1>2, <1>3, <1>4, <1>5, <1>6, <1>7 DEF Next

----------------------------------------------------------------------------

\* Every step leaves the answers of all requests alone, or those of all but one that
\* has none.
LEMMA NextAnswers ==
  ASSUME TypeInv, UseInv, [Next]_vars
  PROVE  \A q \in Requests : request[q].reply # "none" =>
            request'[q].reply = request[q].reply /\ request'[q].ref = request[q].ref
  <1> DEFINE Kept == \A q \in Requests : request[q].reply # "none" =>
            request'[q].reply = request[q].reply /\ request'[q].ref = request[q].ref
  <1>1. ASSUME Quiet \/ UNCHANGED request PROVE Kept
    BY <1>1 DEF Quiet, RequestsQuiet
  <1>2. ASSUME NEW q \in Requests, Early(q) \/ Unanswered(q), NEW v,
               request' = [request EXCEPT ![q] = v]
        PROVE  Kept
    <2>1. request[q].reply = "none"
      BY <1>2 DEF UseInv, AnswerInv, Unanswered
    <2>2. \A s \in Requests : s # q => request'[s] = request[s]
      BY <1>2 DEF TypeInv, RequestInv, RequestType
    <2> QED BY <2>1, <2>2
  <1>3. ASSUME NEW q \in Requests,
               \/ HLookup(q) \/ HCheck(q) \/ HUse(q) \/ HEnqueue(q)
               \/ HFinish(q) \/ HCancel(q) \/ CFinished(q) \/ XRuntimeOOM(q)
        PROVE  Kept
    <2>1. CASE HLookup(q) \/ HUse(q) \/ HEnqueue(q)
      <3>1. Early(q)
        BY <2>1 DEF HLookup, HUse, HEnqueue, Early
      <3> QED BY <1>2, <2>1, <3>1 DEF HLookup, HUse, UseLoadedRunner, HEnqueue
    <2>2. CASE CFinished(q)
      BY <2>2 DEF CFinished, TypeInv, RequestInv, RequestType, Request
    <2> QED BY <1>1, <1>3, <2>1, <2>2, OutsideQuiet
  <1>4. ASSUME NEW r \in Runners,
               \/ LoaderReady(r) \/ LoaderFails(r) \/ LoaderExpires(r)
               \/ TimerFires(r) \/ TimerLocks(r) \/ TimerSends(r)
               \/ RetrySends(r) \/ Crash(r)
        PROVE  Kept
    <2>1. CASE LoaderReady(r) \/ LoaderFails(r)
      <3>1. Unanswered(r)
        BY <2>1 DEF LoaderReady, LoaderFails, UseInv, LoaderInv
      <3> DEFINE v == [request[r] EXCEPT !.reply = "err"]
      <3>2. LoaderFails(r) => request' = [request EXCEPT ![r] = v]
        BY DEF LoaderFails, Reply
      <3> HIDE DEF v
      <3> QED BY <1>2, <2>1, <3>1, <3>2 DEF LoaderReady, Runners
    <2> QED BY <1>1, <1>4, <2>1, OutsideQuiet
  <1>5. CASE \/ PIgnoreUnload \/ PCheck \/ PSpace \/ PSum \/ PCreate \/ PPreflight
             \/ PRequiredFull \/ PLoadOOM \/ PLoadPanics \/ PList \/ PScan \/ PExpire
             \/ PSend \/ PWait \/ PEvictAll \/ PEvict \/ PEvictSend \/ PEvictWait \/ PStop
    BY <1>1, <1>5, PendingQuiet
  <1>6. CASE PUse \/ PCreateFails \/ PLoadFails
    <2>0. PICK q \in Requests : q = p.req
      BY <1>6 DEF PUse, PCreateFails, PLoadFails, CloseActive, TypeInv, PInv, PSet
    <2>1. Unanswered(q)
      BY <1>6, <2>0 DEF PUse, PCreateFails, PLoadFails, CloseActive, UseInv, TurnInv, WithP, PBusy
    <2> DEFINE v == [request[q] EXCEPT !.reply = "err"]
    <2>2. PCreateFails \/ PLoadFails => request' = [request EXCEPT ![q] = v]
      BY <2>0 DEF PCreateFails, PLoadFails, Reply
    <2> HIDE DEF v
    <2> QED BY <1>2, <1>6, <2>0, <2>1, <2>2 DEF PUse, UseLoadedRunner
  <1>7. CASE PRecv \/ PTop \/ PInstall \/ CDecrement \/ CUnload \/ UNCHANGED vars
    BY <1>1, <1>7 DEF PRecv, PTop, PInstall, CDecrement, CUnload, vars
  <1>8. CASE CExpired \/ CSend \/ CBusy \/ CDuplicateOrOrphan \/ CRecovered \/ CNotify \/ CStop
    BY <1>1, <1>8, CompletedQuiet
  <1>9. CASE \/ \E m \in Models : XExpireModel(m)
             \/ XMark \/ XSend \/ ShutdownCancels \/ UnloadAllRunners \/ Terminated
    BY <1>1, <1>9, OutsideQuiet
  <1> QED
    BY <1>3, <1>4, <1>5, <1>6, <1>7, <1>8, <1>9 DEF Next

\* Every step empties a runner in the map only if it has no count.
LEMMA NextEmpties ==
  ASSUME TypeInv, UseInv, [Next]_vars
  PROVE  \A r \in Runners : runner[r].valid /\ ~runner'[r].valid => runner[r].refCount = 0
  <1> DEFINE Spared == \A r \in Runners :
                          runner[r].valid /\ ~runner'[r].valid => runner[r].refCount = 0
  <1>1. ASSUME Quiet \/ UNCHANGED runner PROVE Spared
    BY <1>1 DEF Quiet, RunnersQuiet
  <1>2. ASSUME NEW q \in Requests, NEW r \in Runners, UseLoadedRunner(q, r)
        PROVE  Spared
    BY <1>2, UseIsHandout DEF Handout
  <1>3. ASSUME NEW q \in Requests,
               \/ HLookup(q) \/ HCheck(q) \/ HUse(q) \/ HEnqueue(q)
               \/ HFinish(q) \/ HCancel(q) \/ CFinished(q) \/ XRuntimeOOM(q)
        PROVE  Spared
    <2>1. CASE HUse(q)
      BY <1>2, <2>1 DEF HUse, TypeInv, RequestInv, RefsSet
    <2> QED BY <1>1, <1>3, <2>1, OutsideQuiet DEF HLookup, HEnqueue, CFinished
  <1>4. ASSUME NEW r \in Runners,
               \/ LoaderReady(r) \/ LoaderFails(r) \/ LoaderExpires(r)
               \/ TimerFires(r) \/ TimerLocks(r) \/ TimerSends(r)
               \/ RetrySends(r) \/ Crash(r)
        PROVE  Spared
    <2>1. CASE LoaderReady(r)
      <3> DEFINE k == (runner[r].refCount + 1) % RefMod
                 v == [runner[r] EXCEPT !.refCount = k, !.refMu = "free"]
      <3>1. runner' = [runner EXCEPT ![r] = v]
        BY <2>1 DEF LoaderReady
      <3>2. v.valid = runner[r].valid
        BY DEF TypeInv, RunnerType, Runner
      <3> HIDE DEF v
      <3> QED BY <3>1, <3>2 DEF TypeInv, RunnerType
    <2>2. CASE LoaderFails(r)
      BY <2>2 DEF LoaderFails, TypeInv, RunnerType, Runner
    <2> QED BY <1>1, <1>4, <2>1, <2>2, OutsideQuiet
  <1>5. CASE \/ PIgnoreUnload \/ PCheck \/ PSpace \/ PSum \/ PCreate \/ PPreflight
             \/ PRequiredFull \/ PLoadOOM \/ PLoadPanics \/ PList \/ PScan \/ PExpire
             \/ PSend \/ PWait \/ PEvictAll \/ PEvict \/ PEvictSend \/ PEvictWait \/ PStop
    BY <1>1, <1>5, PendingQuiet
  <1>6. CASE PUse
    BY <1>2, <1>6 DEF PUse, TypeInv, PInv, PSet
  <1>7. CASE PLoadFails
    BY <1>7 DEF PLoadFails, CloseActive, TypeInv, RunnerType, Runner
  <1>8. CASE PInstall
    <2> DEFINE u == IF KeepAliveOf[p.req] = "unset" THEN DefaultKeepAlive ELSE KeepAliveOf[p.req]
               v == [runner[p.req] EXCEPT !.refMu = "loader", !.valid = TRUE, !.session = u]
    <2>1. runner' = [runner EXCEPT ![p.req] = v]
      BY <1>8 DEF PInstall
    <2>2. p.req \in Runners => v.valid = TRUE
      BY DEF TypeInv, RunnerType, Runner
    <2> HIDE DEF v
    <2> QED BY <2>1, <2>2 DEF TypeInv, RunnerType
  <1>9. CASE CDecrement
    <2>0. PICK r \in Runners : r = c.runner
      BY <1>9 DEF CDecrement, TypeInv, CInv, CSet
    <2> DEFINE n == (runner[r].refCount + RefMod - 1) % RefMod
               atOnce == runner[r].session = "zero"
               t == IF n # 0 THEN runner[r].timer ELSE IF atOnce THEN "nil" ELSE "running"
               l == IF n = 0 /\ atOnce THEN "C" ELSE "free"
               v == [runner[r] EXCEPT !.refCount = n, !.timer = t, !.refMu = l]
    <2>1. runner' = [runner EXCEPT ![r] = v]
      BY <1>9, <2>0 DEF CDecrement
    <2>2. v.valid = runner[r].valid
      BY DEF TypeInv, RunnerType, Runner
    <2> HIDE DEF v
    <2> QED BY <2>1, <2>2 DEF TypeInv, RunnerType
  <1>10. CASE CUnload
    BY <1>10 DEF CUnload, Unload, Idle, TypeInv, RunnerType
  <1>11. CASE PRecv \/ PTop \/ PCreateFails \/ UNCHANGED vars
    BY <1>1, <1>11 DEF PRecv, PTop, PCreateFails, vars
  <1>12. CASE CExpired \/ CSend \/ CBusy \/ CDuplicateOrOrphan \/ CRecovered \/ CNotify \/ CStop
    BY <1>1, <1>12, CompletedQuiet
  <1>13. CASE \/ \E m \in Models : XExpireModel(m)
              \/ XMark \/ XSend \/ ShutdownCancels \/ UnloadAllRunners \/ Terminated
    BY <1>1, <1>13, OutsideQuiet
  <1> QED
    BY <1>3, <1>4, <1>5, <1>6, <1>7, <1>8, <1>9, <1>10, <1>11, <1>12, <1>13 DEF Next

\* A runner without count is not used, as long as the counts agree.
LEMMA NoCountNoUser ==
  ASSUME TypeInv, UseInv, NoStaleHandout, NEW r \in Runners, runner[r].refCount = 0
  PROVE  ~\E q \in Requests : Serving(q) /\ request[q].ref = r
  <1> SUFFICES ASSUME NEW q \in Requests, Serving(q), request[q].ref = r
               PROVE  FALSE
    OBVIOUS
  <1>1. request[q].watch # "none" /\ request[q].watch # "sent"
    BY DEF UseInv, AnswerInv, Serving
  <1>2. request[q].watch # "armed"
    <2>1. Cardinality(Armed(r)) + Charged(r) = 0
      BY DEF UseInv, ChargeInv
    <2>2. IsFiniteSet(Armed(r)) /\ Charged(r) \in {0, 1}
      BY SchedulerAssumption, FS_Subset DEF Armed, Charged, SchedulerAssumption
    <2>3. Cardinality(Armed(r)) = 0
      BY <2>1, <2>2, FS_CardinalityType
    <2>4. Armed(r) = {}
      BY <2>2, <2>3, FS_EmptySet
    <2> QED BY <2>4 DEF Armed
  <1>3. request[q].watch \in {"none", "armed", "sent"}
    BY DEF TypeInv, RequestInv, RequestType, Request
  <1> QED BY <1>1, <1>2, <1>3

----------------------------------------------------------------------------

LEMMA UseInvariant == Spec => []UseInv
  <1>1. TypeInv /\ LoadInv /\ UseInv /\ [Next]_vars => UseInv'
    BY NextUse DEF UseKept
  <1> QED BY <1>1, InitTypes, NextTypes, InitLoad, NextLoad, InitUse, PTL DEF Spec

\* As long as no runner was handed out while being unloaded, refCount is the number of
\* requests that use the runner and that processCompleted has not seen finish, for any
\* number of models and requests, although finished requests are charged by model key.
THEOREM CountIsExact == Spec => []RefCountExact
  <1>1. UseInv => RefCountExact
    <2>1. ASSUME UseInv, NoStaleHandout, NEW r \in Runners
          PROVE  runner[r].refCount =
                   Cardinality({q \in Requests : request[q].watch = "armed" /\ request[q].ref = r})
                   + (IF c.pc = "dec" /\ c.runner = r THEN 1 ELSE 0)
      BY <2>1 DEF UseInv, ChargeInv, Armed, Charged
    <2> QED BY <2>1 DEF RefCountExact, LoadedRunners
  <1> QED BY <1>1, UseInvariant, PTL

\* No request is answered twice: whoever may still write to successCh or errCh of a
\* request (its handler, processPending, the goroutine of its load) finds it unanswered.
THEOREM OneAnswerOnly == Spec => AnsweredOnce
  <1>1. TypeInv /\ UseInv /\ [Next]_vars =>
          [\A q \in Requests : request[q].reply # "none" =>
              request'[q].reply = request[q].reply /\ request'[q].ref = request[q].ref]_vars
    BY NextAnswers
  <1>2. Spec => []TypeInv
    BY InitTypes, NextTypes, PTL DEF Spec
  <1> QED BY <1>1, <1>2, UseInvariant, PTL DEF Spec, AnsweredOnce

\* "prevent unloading if > 0": processCompleted never unloads a runner that serves a
\* request, as long as no runner was handed out while being unloaded.
THEOREM UsersAreSpared == Spec => UnloadSparesUsers
  <1>1. TypeInv /\ UseInv /\ [Next]_vars =>
          [NoStaleHandout =>
              \A r \in Runners : runner[r].valid /\ ~runner'[r].valid =>
                  ~\E q \in Requests : Serving(q) /\ request[q].ref = r]_vars
    BY NextEmpties, NoCountNoUser
  <1>2. Spec => []TypeInv
    BY InitTypes, NextTypes, PTL DEF Spec
  <1> QED BY <1>1, <1>2, UseInvariant, PTL DEF Spec, UnloadSparesUsers

----------------------------------------------------------------------------
(* Unload events.                                                          *)

\* Events that were sent, or that C has still to send for a runner it unloaded.
Events == unloadedCh + Unloading

Others(m) == {r \in LoadedRunners : ModelOf[r] # m}

\* What makes NoLostWakeup inductive: it begins with the choice of the target.  A
\* runner chosen for expiry is in the map, or its unload event is there already.
WakeInv ==
    /\ p.pc \in {"check", "expire", "send", "wait"} => Events > 0 \/ p.target \in LoadedRunners
    /\ p.pc = "scan" =>
          Events > 0 \/ \A i \in DOMAIN p.order : p.order[i] \in LoadedRunners
    /\ p.pc \in {"evict", "evictSend", "evictWait"} =>
          p.left <= Events + Cardinality(Others(ModelOf[p.req]))

\* P is where it waits for nothing.
Awake(pc) == pc \notin {"check", "expire", "send", "wait", "scan", "evict", "evictSend", "evictWait"}

LEMMA WakeTypes ==
  ASSUME TypeInv
  PROVE  /\ Events \in Nat
         /\ \A m : IsFiniteSet(Others(m)) /\ Cardinality(Others(m)) \in Nat
  <1>1. unloadedCh \in Nat /\ Unloading \in {0, 1}
    BY Constants DEF TypeInv, UnloadedType, Unloading
  <1>2. \A m : IsFiniteSet(Others(m))
    BY SchedulerAssumption, FS_Subset DEF Others, LoadedRunners, Runners, SchedulerAssumption
  <1> QED BY <1>1, <1>2, FS_CardinalityType DEF Events

LEMMA AwakeKeeps ==
  ASSUME Awake(p'.pc)
  PROVE  WakeInv'
  BY DEF WakeInv, Awake

\* Events come and runners are installed while P does not move.
LEMMA WakeFrame ==
  ASSUME TypeInv, WakeInv, UNCHANGED p, Events' \in Nat, Events' >= Events,
         LoadedRunners \subseteq LoadedRunners'
  PROVE  WakeInv'
  <1>1. Events \in Nat
    BY WakeTypes
  <1>2. Cardinality(Others(ModelOf[p.req])) <= Cardinality(Others(ModelOf[p.req])')
        /\ Cardinality(Others(ModelOf[p.req])) \in Nat /\ Cardinality(Others(ModelOf[p.req])') \in Nat
    <2>1. Others(ModelOf[p.req]) \subseteq Others(ModelOf[p.req])'
      BY DEF Others, LoadedRunners
    <2>2. IsFiniteSet(Others(ModelOf[p.req])')
      BY SchedulerAssumption, FS_Subset DEF Others, LoadedRunners, Runners, SchedulerAssumption
    <2> QED BY <2>1, <2>2, FS_Subset, FS_CardinalityType
  <1>3. /\ p'.pc = p.pc /\ p'.target = p.target /\ p'.order = p.order /\ p'.left = p.left
        /\ p.left \in Nat
    BY DEF TypeInv, PInv, PType
  <1>4. p'.pc \in {"check", "expire", "send", "wait"} => Events' > 0 \/ p'.target \in LoadedRunners'
    BY <1>1, <1>3 DEF WakeInv
  <1>5. p'.pc = "scan" =>
          Events' > 0 \/ \A i \in DOMAIN p'.order : p'.order[i] \in LoadedRunners'
    BY <1>1, <1>3 DEF WakeInv
  <1>6. p'.pc \in {"evict", "evictSend", "evictWait"} =>
          p'.left <= Events' + Cardinality(Others(ModelOf[p.req])')
    BY <1>1, <1>2, <1>3 DEF WakeInv
  <1> QED BY <1>4, <1>5, <1>6 DEF WakeInv

\* The steps outside P, but for the one that removes a runner.
LEMMA OutsideWakes ==
  ASSUME TypeInv, UseInv, WakeInv, NEW q, NEW m,
         \/ HLookup(q) \/ HCheck(q) \/ HUse(q) \/ HEnqueue(q) \/ HFinish(q) \/ HCancel(q)
         \/ CFinished(q) \/ XRuntimeOOM(q) \/ XExpireModel(m) \/ XMark \/ XSend
         \/ ShutdownCancels \/ UnloadAllRunners \/ Terminated \/ UNCHANGED vars
         \/ CExpired \/ CDecrement \/ CSend \/ CBusy \/ CDuplicateOrOrphan
         \/ CRecovered \/ CNotify \/ CStop
         \/ \E r \in Runners :
               \/ LoaderReady(r) \/ LoaderFails(r) \/ LoaderExpires(r)
               \/ TimerFires(r) \/ TimerLocks(r) \/ TimerSends(r)
               \/ RetrySends(r) \/ Crash(r)
  PROVE  WakeInv'
  <1>1. UNCHANGED <<p, loaded>>
    BY DEF HLookup, HCheck, HUse, HEnqueue, HFinish, HCancel, CFinished, XRuntimeOOM,
           XExpireModel, XMark, XSend, ShutdownCancels, UnloadAllRunners, Terminated, vars,
           CExpired, CDecrement, CSend, CBusy, CDuplicateOrOrphan, CRecovered, CNotify, CStop,
           LoaderReady, LoaderFails, LoaderExpires, TimerFires, TimerLocks, TimerSends,
           RetrySends, Crash
  <1>2. unloadedCh \in Nat
    BY Constants DEF TypeInv, UnloadedType
  <1>3. Events' \in Nat /\ Events' >= Events
    <2>1. CASE CNotify
      BY <1>2, <2>1 DEF CNotify, TypeInv, CInv, CType, Events, Unloading
    <2>2. CASE CRecovered \/ CFinished(q) \/ CDecrement \/ CStop \/ CBusy \/ CExpired
               \/ CDuplicateOrOrphan \/ CSend
      BY <1>2, <2>2 DEF CRecovered, CFinished, CDecrement, CStop, CBusy, CExpired,
                        CDuplicateOrOrphan, CSend, SendAndUnlock, SendExpired, channels,
                        TypeInv, CInv, CType, Events, Unloading
    <2>3. CASE UNCHANGED <<unloadedCh, c>>
      BY <1>2, <2>3 DEF Events, Unloading
    <2> QED
      BY <2>1, <2>2, <2>3
         DEF HLookup, HCheck, HUse, HEnqueue, HFinish, HCancel, XRuntimeOOM, XExpireModel,
             XMark, XSend, ShutdownCancels, UnloadAllRunners, Terminated, vars, channels,
             LoaderReady, LoaderFails, LoaderExpires, TimerFires, TimerLocks, TimerSends,
             RetrySends, Crash, SendAndUnlock, SendExpired
  <1>4. LoadedRunners' = LoadedRunners
    BY <1>1 DEF LoadedRunners
  <1> QED BY <1>1, <1>3, <1>4, WakeFrame

\* A runner leaves the map, and its event is on the way.
LEMMA UnloadWakes ==
  ASSUME TypeInv, UseInv, WakeInv, CUnload
  PROVE  WakeInv'
  <1>0. PICK r \in Runners : r = c.runner
    BY DEF CUnload, TypeInv, CInv, CSet
  <1>1. /\ UNCHANGED <<p, unloadedCh>> /\ c.pc = "expire" /\ c'.pc = "recover"
        /\ loaded' = [loaded EXCEPT ![ModelOf[r]] = None]
    BY <1>0 DEF CUnload, channels, TypeInv, CInv, CType
  <1>2. Events \in Nat /\ Events' = Events + 1
    <2>1. unloadedCh \in Nat
      BY Constants DEF TypeInv, UnloadedType
    <2> QED BY <1>1, <2>1 DEF Events, Unloading
  <1>m. PICK m : m = ModelOf[p.req]
    OBVIOUS
  <1>3. Others(m)' = Others(m) \ {r} \/ Others(m)' = Others(m)
    <2>1. LoadedRunners' = LoadedRunners \ {r} \/ LoadedRunners' = LoadedRunners
      <3>1. \A k \in Models : loaded'[k] = IF k = ModelOf[r] THEN None ELSE loaded[k]
        BY <1>1 DEF TypeInv, MapType
      <3>2. \A s \in Runners : ModelOf[s] \in Models /\ s # None
        BY Constants DEF Runners
      <3>3. loaded[ModelOf[r]] = r
        BY <1>0 DEF CUnload
      <3> QED BY <3>1, <3>2, <3>3 DEF LoadedRunners
    <2> QED BY <1>1, <2>1 DEF Others
  <1>4. /\ Cardinality(Others(m)) \in Nat /\ Cardinality(Others(m)') \in Nat
        /\ Cardinality(Others(m)) <= Cardinality(Others(m)') + 1
    <2>1. IsFiniteSet(Others(m)) /\ Cardinality(Others(m)) \in Nat
      BY WakeTypes
    <2>2. CASE Others(m)' = Others(m)
      BY <2>1, <2>2
    <2>3. CASE Others(m)' = Others(m) \ {r} /\ r \in Others(m)
      <3>1. Cardinality(Others(m)') = Cardinality(Others(m)) - 1
        BY <2>1, <2>3, FS_RemoveElement
      <3>2. Cardinality(Others(m)') \in Nat
        BY <2>1, <2>3, FS_Subset, FS_CardinalityType
      <3> QED BY <2>1, <3>1, <3>2
    <2>4. CASE Others(m)' = Others(m) \ {r} /\ r \notin Others(m)
      <3>1. Others(m)' = Others(m)
        BY <2>4
      <3> QED BY <2>1, <3>1
    <2> QED BY <1>3, <2>2, <2>3, <2>4
  <1>5. p.left \in Nat
    BY DEF TypeInv, PInv, PType
  <1>6. p'.pc \in {"evict", "evictSend", "evictWait"} =>
          p'.left <= Events' + Cardinality(Others(m)')
    BY <1>1, <1>2, <1>4, <1>5, <1>m DEF WakeInv
  <1>7. Events' > 0
    BY <1>2
  <1>8. m = ModelOf[p'.req]
    BY <1>1, <1>m
  <1>9. p'.pc \in {"evict", "evictSend", "evictWait"} =>
          p'.left <= Events' + Cardinality(Others(ModelOf[p.req])')
    BY <1>6, <1>8 DEF Others
  <1> QED BY <1>7, <1>9 DEF WakeInv

\* The steps of P.
LEMMA PendingWakes ==
  ASSUME TypeInv, UseInv, WakeInv,
         \/ PRecv \/ PIgnoreUnload \/ PTop \/ PCheck \/ PUse \/ PSpace \/ PSum
         \/ PCreate \/ PCreateFails \/ PPreflight
         \/ PInstall \/ PRequiredFull \/ PLoadOOM \/ PLoadFails \/ PLoadPanics
         \/ PList \/ PScan \/ PExpire \/ PSend \/ PWait
         \/ PEvictAll \/ PEvict \/ PEvictSend \/ PEvictWait \/ PStop
  PROVE  WakeInv'
  <1> USE DEF TypeInv, PInv
  <1>1. unloadedCh \in Nat /\ Events \in Nat
    BY WakeTypes, Constants DEF UnloadedType
  <1>2. CASE PSpace \/ PCreate \/ PCreateFails \/ PLoadFails \/ PLoadPanics \/ PUse \/ PStop \/ PInstall
    <2>1. Awake(p'.pc)
      BY <1>2 DEF PSpace, PCreate, PCreateFails, PLoadFails, PLoadPanics, PUse, PStop, PInstall,
                  PType, Awake
    <2> QED BY <2>1, AwakeKeeps
  <1>3. CASE PSum \/ PRecv \/ PIgnoreUnload
    <2>1. Awake(p'.pc)
      BY <1>3 DEF PSum, PRecv, PIgnoreUnload, PType, Awake
    <2> QED BY <2>1, AwakeKeeps
  <1>4. CASE PPreflight \/ PRequiredFull \/ PLoadOOM
    <2>1. Awake(p'.pc)
      BY <1>4 DEF PPreflight, PRequiredFull, PLoadOOM, CloseActive, AfterNeedEvict, PType, Awake
    <2> QED BY <2>1, AwakeKeeps
  <1>5. CASE PWait
    <2>1. Awake(p'.pc)
      BY <1>5 DEF PWait, PType, Awake
    <2> QED BY <2>1, AwakeKeeps
  <1>6. CASE PTop
    <2>1. /\ UNCHANGED <<loaded, unloadedCh, c>> /\ p.pc = "top" /\ p.req \in Requests
          /\ p'.target = loaded[ModelOf[p.req]] /\ p'.pc \in {"check", "list", "space"}
          /\ p'.pc = "check" => p'.target # None
      BY <1>6 DEF PTop, PType, PSet, channels
    <2>2. p'.pc = "check" => p'.target \in LoadedRunners'
      <3>1. ModelOf[p.req] \in Models
        BY <2>1, Constants
      <3> QED BY <2>1, <3>1 DEF UseInv, KnownInv, Known, LoadedRunners
    <2> QED BY <2>1, <2>2 DEF WakeInv
  <1>7. CASE PCheck \/ PExpire \/ PSend
    <2>1. /\ UNCHANGED <<loaded, unloadedCh, c>> /\ p'.target = p.target
          /\ p.pc \in {"check", "expire", "send"} /\ p'.pc \in {"expire", "use", "send", "wait"}
      BY <1>7 DEF PCheck, PExpire, PSend, SendAndUnlock, SendExpired, PType, channels
    <2> QED BY <2>1 DEF WakeInv, Events, Unloading, LoadedRunners
  <1>8. CASE PList
    <2>1. UNCHANGED loaded /\ p'.pc \in {"top", "scan"}
      BY <1>8 DEF PList, PType
    <2>2. p'.pc = "scan" => \A i \in DOMAIN p'.order : p'.order[i] \in LoadedRunners
      BY <1>8 DEF PList, PType
    <2> QED BY <2>1, <2>2 DEF WakeInv, LoadedRunners
  <1>9. CASE PScan
    <2>1. /\ UNCHANGED <<loaded, unloadedCh, c>> /\ p.pc = "scan" /\ p'.order = p.order
          /\ p'.pc \in {"scan", "expire"}
      BY <1>9 DEF PScan, PType, channels
    <2>2. p'.pc = "expire" => \E i \in DOMAIN p.order : p'.target = p.order[i]
      <3>1. /\ p.order \in Seq(Runners) /\ Len(p.order) > 0 /\ p.left \in Nat /\ p.left > 0
        BY <1>9 DEF PScan, PType, PSet
      <3>2. 1 \in DOMAIN p.order /\ (p.left <= Len(p.order) => p.left \in DOMAIN p.order)
        BY <3>1
      <3>3. p'.pc = "expire" => \/ p'.target = p.order[p.left] /\ p.left <= Len(p.order)
                                \/ p'.target = p.order[1]
        BY <1>9 DEF PScan, PType
      <3> QED BY <3>2, <3>3
    <2> QED BY <2>1, <2>2 DEF WakeInv, Events, Unloading, LoadedRunners
  <1>10. CASE PEvictAll
    <2>1. /\ UNCHANGED <<loaded, unloadedCh, c>> /\ p'.req = p.req
          /\ p'.pc \in {"top", "evict"}
          /\ p'.pc = "evict" => p'.left = Cardinality(Others(ModelOf[p.req]))
      BY <1>10 DEF PEvictAll, PType, Others, channels
    <2>2. Others(ModelOf[p.req])' = Others(ModelOf[p.req]) /\ Events' = Events
      BY <2>1 DEF Others, LoadedRunners, Events, Unloading
    <2>3. Cardinality(Others(ModelOf[p.req])) \in Nat
      BY WakeTypes
    <2>4. p'.pc = "evict" => p'.left <= Events' + Cardinality(Others(ModelOf[p.req])')
      BY <1>1, <2>1, <2>2, <2>3
    <2> QED BY <2>1, <2>4 DEF WakeInv
  <1>11. CASE PEvict \/ PEvictSend
    <2>1. /\ UNCHANGED <<loaded, unloadedCh, c>> /\ p'.req = p.req /\ p'.left = p.left
          /\ p.pc \in {"evict", "evictSend"} /\ p'.pc \in {"evict", "evictSend", "evictWait"}
      <3>1. CASE PEvict
        BY <3>1 DEF PEvict, PType, channels
      <3>2. CASE PEvictSend
        BY <3>2 DEF PEvictSend, SendAndUnlock, SendExpired, PType, channels
      <3> QED BY <1>11, <3>1, <3>2
    <2>2. Others(ModelOf[p.req])' = Others(ModelOf[p.req]) /\ Events' = Events
      BY <2>1 DEF Others, LoadedRunners, Events, Unloading
    <2> QED BY <2>1, <2>2 DEF WakeInv
  <1>12. CASE PEvictWait
    <2>1. /\ UNCHANGED <<loaded, c>> /\ p'.req = p.req /\ p'.left = p.left - 1
          /\ unloadedCh > 0 /\ unloadedCh' = unloadedCh - 1
          /\ p.pc = "evictWait" /\ p'.pc \in {"top", "evictWait"}
          /\ p.left \in Nat
      BY <1>12 DEF PEvictWait, PType
    <2>2. Others(ModelOf[p.req])' = Others(ModelOf[p.req]) /\ Events' = Events - 1
      BY <1>1, <2>1 DEF Others, LoadedRunners, Events, Unloading
    <2>3. Cardinality(Others(ModelOf[p.req])) \in Nat
      BY WakeTypes
    <2>4. p'.left <= Events' + Cardinality(Others(ModelOf[p.req])')
      BY <1>1, <2>1, <2>2, <2>3 DEF WakeInv
    <2> QED BY <2>1, <2>4 DEF WakeInv
  <1> QED BY <1>2, <1>3, <1>4, <1>5, <1>6, <1>7, <1>8, <1>9, <1>10, <1>11, <1>12

LEMMA NextWakes ==
  ASSUME TypeInv, UseInv, WakeInv, [Next]_vars
  PROVE  WakeInv'
  <1>1. ASSUME NEW q \in Requests,
               \/ HLookup(q) \/ HCheck(q) \/ HUse(q) \/ HEnqueue(q)
               \/ HFinish(q) \/ HCancel(q) \/ CFinished(q) \/ XRuntimeOOM(q)
        PROVE  WakeInv'
    BY <1>1, OutsideWakes
  <1>2. CASE \/ \E r \in Runners :
                  \/ LoaderReady(r) \/ LoaderFails(r) \/ LoaderExpires(r)
                  \/ TimerFires(r) \/ TimerLocks(r) \/ TimerSends(r)
                  \/ RetrySends(r) \/ Crash(r)
             \/ \E m \in Models : XExpireModel(m)
             \/ XMark \/ XSend \/ ShutdownCancels \/ UnloadAllRunners \/ Terminated
             \/ CExpired \/ CDecrement \/ CSend \/ CBusy \/ CDuplicateOrOrphan
             \/ CRecovered \/ CNotify \/ CStop \/ UNCHANGED vars
    BY <1>2, OutsideWakes
  <1>3. CASE CUnload
    BY <1>3, UnloadWakes
  <1>4. CASE \/ PRecv \/ PIgnoreUnload \/ PTop \/ PCheck \/ PUse \/ PSpace \/ PSum
             \/ PCreate \/ PCreateFails \/ PPreflight
             \/ PInstall \/ PRequiredFull \/ PLoadOOM \/ PLoadFails \/ PLoadPanics
             \/ PList \/ PScan \/ PExpire \/ PSend \/ PWait
             \/ PEvictAll \/ PEvict \/ PEvictSend \/ PEvictWait \/ PStop
    BY <1>4, PendingWakes
  <1> QED BY <1>1, <1>2, <1>3, <1>4 DEF Next

----------------------------------------------------------------------------
(* What will unload a runner.                                              *)

InExpired(r) == \E i \in DOMAIN expiredCh : expiredCh[i] = r
Expiring(r)  == c.pc = "expire" /\ c.runner = r

\* What IdleHasTrigger asks of one runner.
Triggered(r) ==
    runner[r].refCount = 0 /\ runner[r].refMu = "free" /\ ~Outstanding(ModelOf[r]) =>
        \/ runner[r].timer = "running"
        \/ runner[r].fired > 0 \/ runner[r].retry > 0
        \/ InExpired(r) \/ Expiring(r)

\* C gives refMu back to a runner that is out of the map for good.
GoneInv == c.pc = "recover" => c.runner \notin LoadedRunners /\ c.runner \notin Fresh

TriggerInv == (\A r \in LoadedRunners : Triggered(r)) /\ GoneInv

\* A runner keeps what will unload it while nobody touches it.
SameTriggers(r) ==
    /\ runner'[r].refCount = runner[r].refCount /\ runner'[r].refMu = runner[r].refMu
    /\ runner'[r].timer = runner[r].timer
    /\ runner'[r].fired = runner[r].fired /\ runner'[r].retry = runner[r].retry

\* Nothing that is said of a runner gets lost.
Lasting(r) ==
    /\ Outstanding(ModelOf[r]) => Outstanding(ModelOf[r])'
    /\ InExpired(r) => InExpired(r)' \/ Expiring(r)'
    /\ Expiring(r) => Expiring(r)'

LEMMA TriggerFrame ==
  ASSUME NEW r, Triggered(r), SameTriggers(r), Lasting(r)
  PROVE  Triggered(r)'
  BY DEF Triggered, SameTriggers, Lasting

\* A finished request is outstanding until C has seen it, whoever else moves.
LEMMA OutstandingLasts ==
  ASSUME TypeInv, CQuiet,
         \A q \in Requests : request[q].watch = "armed" => request'[q].watch = "armed"
  PROVE  \A m : Outstanding(m) => Outstanding(m)'
  BY DEF CQuiet, Outstanding

LEMMA SendLasts ==
  ASSUME TypeInv, NEW s \in Runners, expiredCh' = expiredCh \/ SendExpired(s)
  PROVE  /\ \A r : InExpired(r) => InExpired(r)'
         /\ SendExpired(s) => InExpired(s)'
  <1>1. expiredCh \in Seq(Runners)
    BY DEF TypeInv, ExpiredType
  <1>2. CASE expiredCh' = expiredCh /\ ~SendExpired(s)
    BY <1>2 DEF InExpired
  <1>3. CASE SendExpired(s)
    <2>1. expiredCh' = Append(expiredCh, s)
      BY <1>3 DEF SendExpired
    <2>2. /\ \A i \in DOMAIN expiredCh : i \in DOMAIN expiredCh' /\ expiredCh'[i] = expiredCh[i]
          /\ Len(expiredCh) + 1 \in DOMAIN expiredCh' /\ expiredCh'[Len(expiredCh) + 1] = s
      BY <1>1, <2>1
    <2> QED BY <2>2 DEF InExpired
  <1> QED BY <1>2, <1>3

\* What a step has to show when it changes runner s only.
LEMMA TriggerOne ==
  ASSUME TriggerInv, NEW s \in Runners,
         \A r \in Runners : r # s => SameTriggers(r),
         \A r \in LoadedRunners : r # s => Lasting(r),
         LoadedRunners' \subseteq LoadedRunners \cup {s},
         s \in LoadedRunners' => Triggered(s)'
  PROVE  (\A r \in LoadedRunners : Triggered(r))'
  <1>1. \A r \in LoadedRunners : r # s => Triggered(r)'
    BY TriggerFrame DEF TriggerInv, LoadedRunners
  <1> QED BY <1>1

\* Steps that leave the completed loop alone, and those of it that forget nothing.
LEMMA StepsLast ==
  ASSUME TypeInv, UseInv, NEW q \in Requests, NEW m,
         \/ HLookup(q) \/ HCheck(q) \/ HUse(q) \/ HEnqueue(q) \/ HFinish(q) \/ HCancel(q)
         \/ XRuntimeOOM(q) \/ XExpireModel(m) \/ XMark \/ XSend
         \/ ShutdownCancels \/ UnloadAllRunners \/ Terminated \/ UNCHANGED vars
         \/ PRecv \/ PIgnoreUnload \/ PTop \/ PCheck \/ PUse \/ PSpace \/ PSum
         \/ PCreate \/ PCreateFails \/ PPreflight
         \/ PInstall \/ PRequiredFull \/ PLoadOOM \/ PLoadFails \/ PLoadPanics
         \/ PList \/ PScan \/ PExpire \/ PSend \/ PWait
         \/ PEvictAll \/ PEvict \/ PEvictSend \/ PEvictWait \/ PStop
         \/ CSend \/ CRecovered \/ CNotify \/ CStop
         \/ LoaderReady(q) \/ LoaderFails(q) \/ LoaderExpires(q)
         \/ TimerFires(q) \/ TimerLocks(q) \/ TimerSends(q)
         \/ RetrySends(q) \/ Crash(q)
  PROVE  \A r : Lasting(r)
  <1>1. CASE CSend \/ CRecovered \/ CNotify \/ CStop
    <2>1. CQuiet /\ c.pc # "expire" /\ UNCHANGED request
      BY <1>1 DEF CSend, CRecovered, CNotify, CStop, TypeInv, CInv, CType, CQuiet
    <2>2. \A r : InExpired(r) => InExpired(r)'
      <3>1. CASE CSend
        BY <3>1, SendLasts DEF CSend, SendAndUnlock, TypeInv, CInv, CSet
      <3>2. CASE UNCHANGED expiredCh
        BY <3>2 DEF InExpired
      <3> QED BY <1>1, <3>1, <3>2 DEF CRecovered, CNotify, CStop, channels
    <2> QED BY <2>1, <2>2, OutstandingLasts DEF Lasting, Expiring
  <1>2. ASSUME UNCHANGED c,
               \A s \in Requests : request[s].watch = "armed" => request'[s].watch = "armed",
               expiredCh' = expiredCh \/ \E s \in Runners : SendExpired(s)
        PROVE  \A r : Lasting(r)
    <2>1. \A r : InExpired(r) => InExpired(r)'
      <3>1. CASE UNCHANGED expiredCh
        BY <3>1 DEF InExpired
      <3> QED BY <1>2, <3>1, SendLasts
    <2>2. \A r : Expiring(r) => Expiring(r)'
      BY <1>2 DEF Expiring
    <2>3. \A k : Outstanding(k) => Outstanding(k)'
      BY <1>2, OutstandingLasts DEF CQuiet
    <2> QED BY <2>1, <2>2, <2>3 DEF Lasting
  <1>3. CASE \/ HLookup(q) \/ HCheck(q) \/ HUse(q) \/ HEnqueue(q) \/ HFinish(q) \/ HCancel(q)
             \/ XRuntimeOOM(q) \/ XExpireModel(m) \/ XMark \/ XSend
             \/ ShutdownCancels \/ UnloadAllRunners \/ Terminated \/ UNCHANGED vars
    <2>1. UNCHANGED c
      BY <1>3 DEF HLookup, HCheck, HUse, HEnqueue, HFinish, HCancel, XRuntimeOOM, XExpireModel,
                  XMark, XSend, ShutdownCancels, UnloadAllRunners, Terminated, vars
    <2>2. expiredCh' = expiredCh \/ \E s \in Runners : SendExpired(s)
      BY <1>3 DEF HLookup, HCheck, HUse, HEnqueue, HFinish, HCancel, XRuntimeOOM, XExpireModel,
                  XMark, XSend, ShutdownCancels, UnloadAllRunners, Terminated, vars, channels,
                  SendAndUnlock, TypeInv, OutsideType
    <2>3. \A s \in Requests : request[s].watch = "armed" => request'[s].watch = "armed"
      <3>1. CASE HLookup(q) \/ HUse(q) \/ HEnqueue(q)
        <4>1. request[q].watch = "none"
          BY <3>1 DEF HLookup, HUse, HEnqueue, UseInv, AnswerInv, Early
        <4>2. \A s \in Requests : s # q => request'[s] = request[s]
          BY <3>1 DEF HLookup, HUse, UseLoadedRunner, HEnqueue, TypeInv, RequestInv, RequestType
        <4> QED BY <4>1, <4>2
      <3>2. CASE UNCHANGED vars
        BY <3>2 DEF vars
      <3> QED BY <1>3, <3>1, <3>2, OutsideQuiet DEF Quiet, RequestsQuiet
    <2> QED BY <1>2, <2>1, <2>2, <2>3
  <1>4. CASE \/ LoaderReady(q) \/ LoaderFails(q) \/ LoaderExpires(q)
             \/ TimerFires(q) \/ TimerLocks(q) \/ TimerSends(q)
             \/ RetrySends(q) \/ Crash(q)
    <2>1. UNCHANGED c
      BY <1>4 DEF LoaderReady, LoaderFails, LoaderExpires, TimerFires, TimerLocks, TimerSends,
                  RetrySends, Crash
    <2>2. expiredCh' = expiredCh \/ \E s \in Runners : SendExpired(s)
      BY <1>4 DEF LoaderReady, LoaderFails, LoaderExpires, TimerFires, TimerLocks, TimerSends,
                  RetrySends, Crash, channels, SendAndUnlock, Runners
    <2>3. \A s \in Requests : request[s].watch = "armed" => request'[s].watch = "armed"
      <3>1. CASE LoaderReady(q) \/ LoaderFails(q)
        <4>1. request[q].watch = "none"
          BY <3>1 DEF LoaderReady, LoaderFails, UseInv, LoaderInv, Unanswered, Runners
        <4>2. \A s \in Requests : s # q => request'[s] = request[s]
          BY <3>1 DEF LoaderReady, LoaderFails, Reply, TypeInv, RequestInv, RequestType
        <4> QED BY <4>1, <4>2
      <3> QED BY <1>4, <3>1, OutsideQuiet DEF Quiet, RequestsQuiet, Runners
    <2> QED BY <1>2, <2>1, <2>2, <2>3
  <1>5. CASE \/ PRecv \/ PIgnoreUnload \/ PTop \/ PCheck \/ PUse \/ PSpace \/ PSum
             \/ PCreate \/ PCreateFails \/ PPreflight
             \/ PInstall \/ PRequiredFull \/ PLoadOOM \/ PLoadFails \/ PLoadPanics
             \/ PList \/ PScan \/ PExpire \/ PSend \/ PWait
             \/ PEvictAll \/ PEvict \/ PEvictSend \/ PEvictWait \/ PStop
    <2>1. UNCHANGED c
      BY <1>5 DEF PRecv, PIgnoreUnload, PTop, PCheck, PUse, PSpace, PSum,
           PCreate, PCreateFails, PPreflight, PInstall, PRequiredFull, PLoadOOM, PLoadFails,
           PLoadPanics, PList, PScan, PExpire, PSend, PWait, PEvictAll, PEvict, PEvictSend,
           PEvictWait, PStop
    <2>2. expiredCh' = expiredCh \/ \E s \in Runners : SendExpired(s)
      <3>1. CASE PSend \/ PEvictSend
        BY <3>1 DEF PSend, PEvictSend, SendAndUnlock, TypeInv, PInv, PSet
      <3> QED
        BY <1>5, <3>1 DEF PRecv, PIgnoreUnload, PTop, PCheck, PUse, PSpace, PSum,
           PCreate, PCreateFails, PPreflight, PInstall, PRequiredFull, PLoadOOM, PLoadFails,
           PLoadPanics, PList, PScan, PExpire, PWait, PEvictAll, PEvict, PEvictWait, PStop,
           channels
    <2>3. \A s \in Requests : request[s].watch = "armed" => request'[s].watch = "armed"
      <3>1. CASE PUse \/ PCreateFails \/ PLoadFails
        <4>0. PICK s \in Requests : s = p.req
          BY <3>1 DEF PUse, PCreateFails, PLoadFails, CloseActive, TypeInv, PInv, PSet
        <4>1. request[s].watch = "none"
          BY <3>1, <4>0 DEF PUse, PCreateFails, PLoadFails, CloseActive,
                            UseInv, TurnInv, WithP, PBusy, Unanswered
        <4>2. \A t \in Requests : t # s => request'[t] = request[t]
          BY <3>1, <4>0 DEF PUse, UseLoadedRunner, PCreateFails, PLoadFails, Reply,
                            TypeInv, RequestInv, RequestType
        <4> QED BY <4>1, <4>2
      <3>2. CASE PRecv \/ PTop \/ PInstall
        BY <3>2 DEF PRecv, PTop, PInstall
      <3> QED BY <1>5, <3>1, <3>2, PendingQuiet DEF Quiet, RequestsQuiet
    <2> QED BY <1>2, <2>1, <2>2, <2>3
  <1> QED BY <1>1, <1>3, <1>4, <1>5

\* Two runners in the map are not of one model.
LEMMA OnePerModel ==
  ASSUME NEW r \in LoadedRunners, NEW s \in LoadedRunners, ModelOf[r] = ModelOf[s]
  PROVE  r = s
  BY DEF LoadedRunners

\* Steps that touch nothing that unloads a runner.
LEMMA UntouchedTriggers ==
  ASSUME TriggerInv, UNCHANGED loaded,
         \A r \in Runners : SameTriggers(r),
         \A r \in LoadedRunners : Lasting(r)
  PROVE  (\A r \in LoadedRunners : Triggered(r))'
  <1>1. LoadedRunners' = LoadedRunners /\ LoadedRunners \subseteq Runners
    BY DEF LoadedRunners
  <1>2. \A r \in LoadedRunners : Triggered(r)'
    BY <1>1, TriggerFrame DEF TriggerInv
  <1> QED BY <1>1, <1>2

LEMMA UntouchedSteps ==
  ASSUME TypeInv, UseInv, TriggerInv, NEW q \in Requests, NEW m,
         \/ HLookup(q) \/ HCheck(q) \/ HEnqueue(q) \/ HFinish(q) \/ HCancel(q)
         \/ XRuntimeOOM(q) \/ XExpireModel(m)
         \/ ShutdownCancels \/ UnloadAllRunners \/ Terminated \/ UNCHANGED vars
         \/ PRecv \/ PIgnoreUnload \/ PTop \/ PCheck \/ PSpace \/ PSum
         \/ PCreate \/ PCreateFails \/ PPreflight
         \/ PRequiredFull \/ PLoadOOM \/ PLoadFails \/ PLoadPanics
         \/ PList \/ PScan \/ PWait \/ PEvictAll \/ PEvictWait \/ PStop
         \/ CNotify \/ CStop \/ Crash(q)
  PROVE  (\A r \in LoadedRunners : Triggered(r))'
  <1>1. \A r : Lasting(r)
    BY StepsLast
  <1>2. UNCHANGED loaded
    BY DEF HLookup, HCheck, HEnqueue, HFinish, HCancel, XRuntimeOOM, XExpireModel,
           ShutdownCancels, UnloadAllRunners, Terminated, vars,
           PRecv, PIgnoreUnload, PTop, PCheck, PSpace, PSum, PCreate, PCreateFails,
           PPreflight, PRequiredFull, PLoadOOM, PLoadFails, PLoadPanics, PList, PScan,
           PWait, PEvictAll, PEvictWait, PStop, CNotify, CStop, Crash
  <1>3. \A r \in Runners : SameTriggers(r)
    <2>1. CASE PCreate
      BY <2>1 DEF PCreate, TypeInv, RunnerType, Runner, SameTriggers
    <2>2. CASE PLoadOOM \/ PLoadFails
      <3>1. runner' = [runner EXCEPT ![activeLoading].server = "closed"]
        BY <2>2 DEF PLoadOOM, PLoadFails, CloseActive
      <3> QED BY <3>1 DEF TypeInv, RunnerType, Runner, SameTriggers
    <2>3. CASE Crash(q)
      BY <2>3 DEF Crash, TypeInv, RunnerType, Runner, SameTriggers
    <2>4. CASE UnloadAllRunners
      BY <2>4 DEF UnloadAllRunners, TypeInv, RunnerType, Runner, SameTriggers
    <2>5. CASE UNCHANGED runner
      BY <2>5 DEF SameTriggers
    <2> QED
      BY <2>1, <2>2, <2>3, <2>4, <2>5
         DEF HLookup, HCheck, HEnqueue, HFinish, HCancel, XRuntimeOOM, XExpireModel,
             ShutdownCancels, Terminated, vars, PRecv, PIgnoreUnload, PTop, PCheck, PSpace,
             PSum, PCreateFails, PPreflight, PRequiredFull, PLoadPanics, PList, PScan,
             PWait, PEvictAll, PEvictWait, PStop, CNotify, CStop
  <1> QED BY <1>1, <1>2, <1>3, UntouchedTriggers

\* C takes an event over, or a finished request.
LEMMA ReceivedSteps ==
  ASSUME TypeInv, UseInv, TriggerInv, NEW q \in Requests, CExpired \/ CFinished(q)
  PROVE  (\A r \in LoadedRunners : Triggered(r))'
  <1>1. UNCHANGED <<runner, loaded>> /\ c.pc = "idle"
    BY DEF CExpired, CFinished
  <1>2. ASSUME NEW r \in LoadedRunners
        PROVE  Lasting(r)
    <2>1. CASE CExpired
      <3>1. UNCHANGED request /\ c'.pc = "expire" /\ c'.runner = Head(expiredCh)
            /\ expiredCh' = Tail(expiredCh)
            /\ expiredCh \in Seq(Runners) /\ expiredCh # <<>>
        BY <2>1 DEF CExpired, TypeInv, ExpiredType
      <3>2. \A i \in DOMAIN expiredCh :
               \/ i = 1 /\ expiredCh[i] = Head(expiredCh)
               \/ i - 1 \in DOMAIN expiredCh' /\ expiredCh'[i - 1] = expiredCh[i]
        BY <3>1
      <3>3. InExpired(r) => InExpired(r)' \/ Expiring(r)'
        BY <3>1, <3>2 DEF InExpired, Expiring
      <3>4. Outstanding(ModelOf[r]) => Outstanding(ModelOf[r])'
        BY <1>1, <3>1 DEF Outstanding
      <3> QED BY <1>1, <3>3, <3>4 DEF Lasting, Expiring
    <2>2. CASE CFinished(q)
      <3>1. UNCHANGED expiredCh
        BY <2>2 DEF CFinished, channels
      <3>2. InExpired(r) => InExpired(r)'
        BY <3>1 DEF InExpired
      <3>3. Outstanding(ModelOf[r]) => Outstanding(ModelOf[r])'
        <4>1. \A s \in Requests : s # q => request'[s] = request[s]
          BY <2>2 DEF CFinished, TypeInv, RequestInv, RequestType
        <4>2. CASE ModelOf[q] = ModelOf[r]
          <5>1. loaded[ModelOf[q]] = r /\ r # None
            BY <4>2, Constants DEF LoadedRunners, Runners
          <5>2. c'.pc = "dec" /\ c'.runner = r
            BY <2>2, <5>1 DEF CFinished
          <5> QED BY <5>2 DEF Outstanding
        <4>3. CASE ModelOf[q] # ModelOf[r]
          BY <1>1, <4>1, <4>3 DEF Outstanding
        <4> QED BY <4>2, <4>3
      <3> QED BY <1>1, <3>2, <3>3 DEF Lasting, Expiring
    <2> QED BY <2>1, <2>2
  <1>3. \A r \in Runners : SameTriggers(r)
    BY <1>1 DEF SameTriggers
  <1> QED BY <1>1, <1>2, <1>3, UntouchedTriggers

\* A runner is marked for unloading: if it is idle, refMu is kept until the event is sent.
LEMMA MarkSteps ==
  ASSUME TypeInv, UseInv, TriggerInv, NEW q \in Requests, XMark \/ PExpire \/ PEvict
  PROVE  (\A r \in LoadedRunners : Triggered(r))'
  <1>1. \A r : Lasting(r)
    BY StepsLast
  <1>2. UNCHANGED loaded
    BY DEF XMark, PExpire, PEvict
  <1>3. PICK s \in Runners, h \in {"P", "X"} : MarkExpired(s, h)
    BY DEF XMark, PExpire, PEvict, TypeInv, OutsideType, PInv, PType, PSet
  <1> DEFINE l == IF runner[s].refCount = 0 THEN h ELSE "free"
  <1>4. /\ runner'[s].refCount = runner[s].refCount /\ runner'[s].refMu = l
        /\ \A r \in Runners : r # s => runner'[r] = runner[r]
    <2>1. runner' = [runner EXCEPT ![s] = [@ EXCEPT !.timer = "nil", !.session = "zero",
                                                    !.refMu = l]]
      BY <1>3 DEF MarkExpired
    <2> HIDE DEF l
    <2> QED BY <2>1 DEF TypeInv, RunnerType, Runner
  <1>5. Triggered(s)'
    BY <1>4 DEF Triggered
  <1>6. \A r \in Runners : r # s => SameTriggers(r)
    BY <1>4 DEF SameTriggers
  <1>7. LoadedRunners' = LoadedRunners
    BY <1>2 DEF LoadedRunners
  <1> QED BY <1>1, <1>5, <1>6, <1>7, TriggerOne

\* The event is sent.
LEMMA SendSteps ==
  ASSUME TypeInv, UseInv, TriggerInv, NEW q \in Requests,
         \/ XSend \/ PSend \/ PEvictSend \/ CSend
         \/ LoaderExpires(q) \/ TimerSends(q) \/ RetrySends(q)
  PROVE  (\A r \in LoadedRunners : Triggered(r))'
  <1>1. \A r : Lasting(r)
    BY StepsLast
  <1>2. UNCHANGED loaded
    BY DEF XSend, PSend, PEvictSend, CSend, LoaderExpires, TimerSends, RetrySends
  <1>3. PICK s \in Runners : SendExpired(s) /\ \A r \in Runners : r # s => runner'[r] = runner[r]
    <2>1. CASE RetrySends(q)
      BY <2>1 DEF RetrySends, TypeInv, RunnerType, Runners
    <2>2. ASSUME NEW s \in Runners, NEW h, SendAndUnlock(s, h)
          PROVE  SendExpired(s) /\ \A r \in Runners : r # s => runner'[r] = runner[r]
      BY <2>2 DEF SendAndUnlock, TypeInv, RunnerType
    <2> QED
      BY <2>1, <2>2 DEF XSend, PSend, PEvictSend, CSend, LoaderExpires, TimerSends,
                        TypeInv, OutsideType, PInv, PSet, CInv, CSet, Runners
  <1>4. InExpired(s)'
    BY <1>3, SendLasts
  <1>5. Triggered(s)'
    BY <1>4 DEF Triggered
  <1>6. \A r \in Runners : r # s => SameTriggers(r)
    BY <1>3 DEF SameTriggers
  <1>7. LoadedRunners' = LoadedRunners
    BY <1>2 DEF LoadedRunners
  <1> QED BY <1>1, <1>5, <1>6, <1>7, TriggerOne

\* A runner that is handed out has a request whose end C will see.
LEMMA HandoutSteps ==
  ASSUME TypeInv, UseInv, TriggerInv, NEW q \in Requests, HUse(q) \/ PUse \/ LoaderReady(q)
  PROVE  (\A r \in LoadedRunners : Triggered(r))'
  <1>1. \A r : Lasting(r)
    BY StepsLast
  <1>2. UNCHANGED loaded
    BY DEF HUse, PUse, LoaderReady
  <1>3. PICK s \in Runners, k \in Requests :
           /\ ModelOf[s] = ModelOf[k] /\ request'[k].watch = "armed"
           /\ \A r \in Runners : r # s => runner'[r] = runner[r]
    <2>1. ASSUME NEW k \in Requests, NEW s \in Runners, UseLoadedRunner(k, s)
          PROVE  /\ request'[k].watch = "armed"
                 /\ \A r \in Runners : r # s => runner'[r] = runner[r]
      BY <2>1 DEF UseLoadedRunner, TypeInv, RequestInv, RequestType, RunnerType
    <2>2. CASE HUse(q)
      <3>1. /\ request[q].ref \in Runners /\ ModelOf[request[q].ref] = ModelOf[q]
            /\ UseLoadedRunner(q, request[q].ref)
        BY <2>2 DEF HUse, UseInv, KnownInv, Known
      <3> QED BY <2>1, <3>1
    <2>3. CASE PUse
      <3>1. /\ p.target \in Runners /\ ModelOf[p.target] = ModelOf[p.req]
            /\ p.req \in Requests /\ UseLoadedRunner(p.req, p.target)
        BY <2>3 DEF PUse, UseInv, KnownInv, Known, TypeInv, PInv, PSet
      <3> QED BY <2>1, <3>1
    <2>4. CASE LoaderReady(q)
      BY <2>4 DEF LoaderReady, TypeInv, RequestInv, RequestType, RunnerType, Runners
    <2> QED BY <2>2, <2>3, <2>4
  <1>4. Triggered(s)'
    BY <1>3 DEF Triggered, Outstanding
  <1>5. \A r \in Runners : r # s => SameTriggers(r)
    BY <1>3 DEF SameTriggers
  <1>6. LoadedRunners' = LoadedRunners
    BY <1>2 DEF LoadedRunners
  <1> QED BY <1>1, <1>4, <1>5, <1>6, TriggerOne

\* A load fails, a timer fires, a runner is installed: refMu is taken or a
\* goroutine waits for it.
LEMMA GoroutineSteps ==
  ASSUME TypeInv, UseInv, TriggerInv, NEW q \in Requests,
         LoaderFails(q) \/ TimerFires(q) \/ TimerLocks(q) \/ PInstall
  PROVE  (\A r \in LoadedRunners : Triggered(r))'
  <1>1. \A r : Lasting(r)
    BY StepsLast
  <1>2. PICK s \in Runners :
           /\ \A r \in Runners : r # s => runner'[r] = runner[r]
           /\ runner'[s].refMu # "free" \/ runner'[s].fired > 0
           /\ LoadedRunners' \subseteq LoadedRunners \cup {s}
    <2>1. CASE PInstall
      <3>1. PICK s \in Runners : s = p.req
        BY <2>1 DEF PInstall, TypeInv, PInv, PSet, Runners
      <3>2. /\ runner'[s].refMu = "loader"
            /\ \A r \in Runners : r # s => runner'[r] = runner[r]
        BY <2>1, <3>1 DEF PInstall, TypeInv, RunnerType
      <3>3. LoadedRunners' \subseteq LoadedRunners \cup {s}
        <4>1. loaded' = [loaded EXCEPT ![ModelOf[s]] = s]
          BY <2>1, <3>1 DEF PInstall
        <4>2. \A m \in Models : loaded'[m] = IF m = ModelOf[s] THEN s ELSE loaded[m]
          BY <4>1 DEF TypeInv, MapType
        <4>3. \A r \in Runners : ModelOf[r] \in Models
          BY Constants DEF Runners
        <4> QED BY <4>2, <4>3 DEF LoadedRunners
      <3> QED BY <3>2, <3>3
    <2>2. CASE LoaderFails(q)
      <3>1. /\ runner'[q].refMu # "free" /\ UNCHANGED loaded
            /\ \A r \in Runners : r # q => runner'[r] = runner[r]
        BY <2>2 DEF LoaderFails, TypeInv, RunnerType, Runners
      <3> QED BY <3>1 DEF LoadedRunners, Runners
    <2>4. CASE TimerLocks(q)
      <3>1. runner' = [runner EXCEPT ![q] = [@ EXCEPT !.timer = "nil", !.refMu = "timer",
                                                      !.fired = runner[q].fired - 1]]
            /\ UNCHANGED loaded
        BY <2>4 DEF TimerLocks
      <3>2. /\ runner'[q].refMu # "free"
            /\ \A r \in Runners : r # q => runner'[r] = runner[r]
        BY <3>1 DEF TypeInv, RunnerType, Runner, Runners
      <3> QED BY <3>1, <3>2 DEF LoadedRunners, Runners
    <2>3. CASE TimerFires(q)
      <3>1. /\ runner'[q].fired = runner[q].fired + 1 /\ UNCHANGED loaded
            /\ \A r \in Runners : r # q => runner'[r] = runner[r]
        BY <2>3 DEF TimerFires, TypeInv, RunnerType, Runners
      <3>2. runner[q].fired \in Nat
        BY DEF TypeInv, RunnerType, Runner, Runners
      <3> QED BY <3>1, <3>2 DEF LoadedRunners, Runners
    <2> QED BY <2>1, <2>2, <2>3, <2>4
  <1>3. Triggered(s)'
    BY <1>2 DEF Triggered
  <1>4. \A r \in Runners : r # s => SameTriggers(r)
    BY <1>2 DEF SameTriggers
  <1> QED BY <1>1, <1>2, <1>3, <1>4, TriggerOne

\* C counts a finished request: a runner that goes idle gets its timer or is sent.
LEMMA DecrementSteps ==
  ASSUME TypeInv, UseInv, TriggerInv, CDecrement
  PROVE  (\A r \in LoadedRunners : Triggered(r))'
  <1>1. PICK s \in Runners : s = c.runner /\ s \in LoadedRunners
    BY DEF CDecrement, UseInv, ChargeInv, LoadedRunners
  <1>2. UNCHANGED <<request, loaded, expiredCh>> /\ c.pc = "dec"
    BY DEF CDecrement, channels
  <1>3. ASSUME NEW r \in LoadedRunners, r # s
        PROVE  Lasting(r)
    <2>1. ModelOf[c.runner] # ModelOf[r]
      BY <1>1, <1>3, OnePerModel
    <2> QED BY <1>2, <2>1 DEF Lasting, Outstanding, InExpired, Expiring
  <1>4. /\ runner'[s].refCount = 0 /\ runner'[s].refMu = "free" => runner'[s].timer = "running"
        /\ \A r \in Runners : r # s => runner'[r] = runner[r]
    <2> DEFINE count == (runner[s].refCount + RefMod - 1) % RefMod
               atOnce == runner[s].session = "zero"
               t == IF count # 0 THEN runner[s].timer ELSE IF atOnce THEN "nil" ELSE "running"
               l == IF count = 0 /\ atOnce THEN "C" ELSE "free"
    <2>1. runner' = [runner EXCEPT ![s] = [@ EXCEPT !.refCount = count, !.timer = t, !.refMu = l]]
      BY <1>1 DEF CDecrement
    <2>2. count = 0 /\ l = "free" => t = "running"
      OBVIOUS
    <2> HIDE DEF count, atOnce, t, l
    <2> QED BY <2>1, <2>2 DEF TypeInv, RunnerType, Runner
  <1>5. Triggered(s)'
    BY <1>4 DEF Triggered
  <1>6. \A r \in Runners : r # s => SameTriggers(r)
    BY <1>4 DEF SameTriggers
  <1>7. LoadedRunners' = LoadedRunners
    BY <1>2 DEF LoadedRunners
  <1> QED BY <1>3, <1>5, <1>6, <1>7, TriggerOne

\* C handles an expiry: the runner is in use, or not in the map when C is done.
LEMMA ExpirySteps ==
  ASSUME TypeInv, UseInv, TriggerInv, CBusy \/ CDuplicateOrOrphan \/ CUnload \/ CRecovered
  PROVE  (\A r \in LoadedRunners : Triggered(r))'
  <1>1. PICK s \in Runners : s = c.runner
    BY DEF CBusy, CDuplicateOrOrphan, CUnload, CRecovered, TypeInv, CInv, CSet
  <1>2. \A r \in Runners : r # s => Lasting(r)
    <2>1. /\ UNCHANGED <<request, expiredCh>> /\ c.pc \in {"expire", "recover"}
          /\ c'.pc \in {"idle", "recover", "notify"}
      BY DEF CBusy, CDuplicateOrOrphan, CUnload, CRecovered, channels, TypeInv, CInv, CType
    <2>2. \A m : Outstanding(m) => Outstanding(m)'
      BY <2>1 DEF Outstanding
    <2> QED BY <1>1, <2>1, <2>2 DEF Lasting, InExpired, Expiring
  <1>3. \A r \in Runners : r # s => runner'[r] = runner[r]
    BY <1>1 DEF CBusy, CDuplicateOrOrphan, CUnload, CRecovered, Unload, TypeInv, RunnerType
  <1>4. LoadedRunners' \subseteq LoadedRunners
    <2>1. CASE CUnload
      <3>1. \A m \in Models : loaded'[m] = IF m = ModelOf[s] THEN None ELSE loaded[m]
        BY <1>1, <2>1 DEF CUnload, TypeInv, MapType
      <3>2. \A r \in Runners : ModelOf[r] \in Models /\ r # None
        BY Constants DEF Runners
      <3> QED BY <3>1, <3>2 DEF LoadedRunners
    <2>2. CASE UNCHANGED loaded
      BY <2>2 DEF LoadedRunners
    <2> QED BY <2>1, <2>2 DEF CBusy, CDuplicateOrOrphan, CRecovered
  <1>5. s \in LoadedRunners' => Triggered(s)'
    <2>1. CASE CBusy
      <3>1. runner'[s].refCount = runner[s].refCount /\ runner[s].refCount # 0
        BY <1>1, <2>1 DEF CBusy, Idle, TypeInv, RunnerType, Runner
      <3> QED BY <3>1 DEF Triggered
    <2>2. CASE CDuplicateOrOrphan
      BY <1>1, <2>2, Constants DEF CDuplicateOrOrphan, LoadedRunners, Runners
    <2>3. CASE CUnload
      <3>1. loaded'[ModelOf[s]] = None /\ s # None
        BY <1>1, <2>3, Constants DEF CUnload, TypeInv, MapType, Runners
      <3> QED BY <3>1 DEF LoadedRunners
    <2>4. CASE CRecovered
      BY <1>1, <1>4, <2>4 DEF CRecovered, TriggerInv, GoneInv
    <2> QED BY <2>1, <2>2, <2>3, <2>4
  <1>6. \A r \in Runners : r # s => SameTriggers(r)
    BY <1>3 DEF SameTriggers
  <1>7. \A r \in LoadedRunners : r # s => Lasting(r)
    BY <1>2 DEF LoadedRunners
  <1> QED BY <1>4, <1>5, <1>6, <1>7, TriggerOne

\* A runner that C unloaded does not come back: only its first load installs it.
LEMMA NextGone ==
  ASSUME TypeInv, UseInv, TriggerInv, [Next]_vars, FreshShrinks
  PROVE  GoneInv'
  <1>1. CASE CUnload
    <2>1. PICK s \in Runners : s = c.runner
      BY <1>1 DEF CUnload, TypeInv, CInv, CSet
    <2>2. c'.runner = s /\ s \notin Fresh
      BY <1>1, <2>1, Constants DEF CUnload, TypeInv, CInv, CType, UseInv, KnownInv, Known, Runners
    <2>3. loaded'[ModelOf[s]] = None /\ s # None
      BY <1>1, <2>1, Constants DEF CUnload, TypeInv, MapType, Runners
    <2> QED BY <2>2, <2>3 DEF GoneInv, LoadedRunners, FreshShrinks
  <1>2. CASE PInstall
    <2>1. PICK s \in Runners : s = p.req
      BY <1>2 DEF PInstall, TypeInv, PInv, PSet, Runners
    <2>2. s \in Fresh
      BY <1>2, <2>1 DEF PInstall, Fresh, WithP, PBusy, Runners
    <2>3. LoadedRunners' \subseteq LoadedRunners \cup {s}
      <3>1. loaded' = [loaded EXCEPT ![ModelOf[s]] = s]
        BY <1>2, <2>1 DEF PInstall
      <3>2. \A m \in Models : loaded'[m] = IF m = ModelOf[s] THEN s ELSE loaded[m]
        BY <3>1 DEF TypeInv, MapType
      <3>3. \A r \in Runners : ModelOf[r] \in Models
        BY Constants DEF Runners
      <3> QED BY <3>2, <3>3 DEF LoadedRunners
    <2>4. UNCHANGED c
      BY <1>2 DEF PInstall
    <2> QED BY <2>2, <2>3, <2>4 DEF GoneInv, TriggerInv, FreshShrinks
  <1>3. ASSUME UNCHANGED loaded, c' = c \/ c'.pc # "recover"
        PROVE  GoneInv'
    BY <1>3 DEF GoneInv, TriggerInv, FreshShrinks, LoadedRunners
  <1>4. ASSUME NEW q \in Requests,
               \/ HLookup(q) \/ HCheck(q) \/ HUse(q) \/ HEnqueue(q)
               \/ HFinish(q) \/ HCancel(q) \/ XRuntimeOOM(q)
        PROVE  GoneInv'
    BY <1>3, <1>4 DEF HLookup, HCheck, HUse, HEnqueue, HFinish, HCancel, XRuntimeOOM
  <1>5. ASSUME NEW r \in Runners,
               \/ LoaderReady(r) \/ LoaderFails(r) \/ LoaderExpires(r)
               \/ TimerFires(r) \/ TimerLocks(r) \/ TimerSends(r)
               \/ RetrySends(r) \/ Crash(r)
        PROVE  GoneInv'
    BY <1>3, <1>5 DEF LoaderReady, LoaderFails, LoaderExpires, TimerFires, TimerLocks,
                      TimerSends, RetrySends, Crash
  <1>6. CASE \/ \E m \in Models : XExpireModel(m)
             \/ XMark \/ XSend \/ ShutdownCancels \/ UnloadAllRunners \/ Terminated
             \/ UNCHANGED vars
    BY <1>3, <1>6 DEF XExpireModel, XMark, XSend, ShutdownCancels, UnloadAllRunners,
                      Terminated, vars
  <1>7. CASE \/ PRecv \/ PIgnoreUnload \/ PTop \/ PCheck \/ PUse \/ PSpace \/ PSum
             \/ PCreate \/ PCreateFails \/ PPreflight
             \/ PRequiredFull \/ PLoadOOM \/ PLoadFails \/ PLoadPanics
    BY <1>3, <1>7 DEF PRecv, PIgnoreUnload, PTop, PCheck, PUse, PSpace, PSum, PCreate,
                      PCreateFails, PPreflight, PRequiredFull, PLoadOOM, PLoadFails, PLoadPanics
  <1>8. CASE \/ PList \/ PScan \/ PExpire \/ PSend \/ PWait
             \/ PEvictAll \/ PEvict \/ PEvictSend \/ PEvictWait \/ PStop
    BY <1>3, <1>8 DEF PList, PScan, PExpire, PSend, PWait, PEvictAll, PEvict, PEvictSend,
                      PEvictWait, PStop
  <1>9. CASE \/ CExpired \/ CDecrement \/ CSend \/ CBusy \/ CDuplicateOrOrphan
             \/ CRecovered \/ CNotify \/ CStop \/ \E q \in Requests : CFinished(q)
    <2>1. UNCHANGED loaded
      BY <1>9 DEF CExpired, CDecrement, CSend, CBusy, CDuplicateOrOrphan, CRecovered, CNotify,
                  CStop, CFinished
    <2>2. c' = c \/ c'.pc # "recover"
      BY <1>9 DEF CExpired, CDecrement, CSend, CBusy, CDuplicateOrOrphan, CRecovered, CNotify,
                  CStop, CFinished, TypeInv, CInv, CType
    <2> QED BY <1>3, <2>1, <2>2
  <1> QED BY <1>1, <1>2, <1>4, <1>5, <1>6, <1>7, <1>8, <1>9 DEF Next

LEMMA NextTriggers ==
  ASSUME TypeInv, LoadInv, UseInv, TriggerInv, [Next]_vars
  PROVE  TriggerInv'
  <1> DEFINE Kept == (\A r \in LoadedRunners : Triggered(r))'
  <1>1. FreshShrinks
    BY NextUse DEF UseKept
  <1>2. GoneInv'
    BY <1>1, NextGone
  <1>3. CASE Requests = {}
    <2>1. LoadedRunners' = {}
      BY <1>3 DEF LoadedRunners, Runners
    <2> QED BY <1>2, <2>1 DEF TriggerInv
  <1>4. CASE Requests # {}
    <2>0. PICK t \in Requests : TRUE
      BY <1>4
    <2>1. ASSUME NEW q \in Requests,
                 \/ HLookup(q) \/ HCheck(q) \/ HUse(q) \/ HEnqueue(q)
                 \/ HFinish(q) \/ HCancel(q) \/ CFinished(q) \/ XRuntimeOOM(q)
          PROVE  Kept
      BY <2>1, UntouchedSteps, HandoutSteps, ReceivedSteps
    <2>2. ASSUME NEW q \in Requests,
                 \/ LoaderReady(q) \/ LoaderFails(q) \/ LoaderExpires(q)
                 \/ TimerFires(q) \/ TimerLocks(q) \/ TimerSends(q)
                 \/ RetrySends(q) \/ Crash(q)
          PROVE  Kept
      BY <2>2, UntouchedSteps, HandoutSteps, GoroutineSteps, SendSteps
    <2>3. ASSUME NEW m \in Models, XExpireModel(m)
          PROVE  Kept
      BY <2>0, <2>3, UntouchedSteps
    <2>4. ASSUME \/ ShutdownCancels \/ UnloadAllRunners \/ Terminated \/ UNCHANGED vars
                 \/ PRecv \/ PIgnoreUnload \/ PTop \/ PCheck \/ PSpace \/ PSum
                 \/ PCreate \/ PCreateFails \/ PPreflight
                 \/ PRequiredFull \/ PLoadOOM \/ PLoadFails \/ PLoadPanics
                 \/ PList \/ PScan \/ PWait \/ PEvictAll \/ PEvictWait \/ PStop
                 \/ CNotify \/ CStop
          PROVE  Kept
      BY <2>0, <2>4, UntouchedSteps
    <2>5. ASSUME PUse \/ PInstall \/ CExpired
          PROVE  Kept
      BY <2>0, <2>5, HandoutSteps, GoroutineSteps, ReceivedSteps
    <2>6. ASSUME \/ XMark \/ PExpire \/ PEvict \/ XSend \/ PSend \/ PEvictSend \/ CSend
          PROVE  Kept
      BY <2>0, <2>6, MarkSteps, SendSteps
    <2>7. ASSUME CDecrement \/ CBusy \/ CDuplicateOrOrphan \/ CUnload \/ CRecovered
          PROVE  Kept
      BY <2>7, DecrementSteps, ExpirySteps
    <2>8. Kept
      BY <2>1, <2>2, <2>3, <2>4, <2>5, <2>6, <2>7 DEF Next, Runners
    <2> QED BY <1>2, <2>8 DEF TriggerInv
  <1> QED BY <1>3, <1>4

LEMMA InitWakes == Init => WakeInv /\ TriggerInv
  <1> SUFFICES ASSUME Init PROVE WakeInv /\ TriggerInv
    OBVIOUS
  <1>1. p.pc = "idle" /\ c.pc = "idle"
    BY DEF Init
  <1>2. LoadedRunners = {}
    BY Constants DEF Init, LoadedRunners, Runners
  <1> QED BY <1>1, <1>2 DEF WakeInv, TriggerInv, GoneInv

LEMMA WakeInvariant == Spec => [](TypeInv /\ WakeInv /\ TriggerInv)
  <1>1. Init => WakeInv /\ TriggerInv
    BY InitWakes
  <1>2. TypeInv /\ LoadInv /\ UseInv /\ WakeInv /\ TriggerInv /\ [Next]_vars
          => (WakeInv /\ TriggerInv)'
    BY NextWakes, NextTriggers
  <1> QED BY <1>1, <1>2, InitTypes, NextTypes, InitLoad, NextLoad, UseInvariant, PTL DEF Spec

\* No wake-up is lost (processPending after findRunnerToUnload and in evictAllAndWait): the
\* unload events that P waits for were sent, are about to be, or will be caused by runners
\* still in the map.
THEOREM WakeupIsNeverLost == Spec => []NoLostWakeup
  <1>1. TypeInv /\ WakeInv => NoLostWakeup
    <2> SUFFICES ASSUME TypeInv, WakeInv PROVE NoLostWakeup
      OBVIOUS
    <2>1. p.pc \in {"expire", "send", "wait"} =>
            unloadedCh + Unloading > 0 \/ p.target \in LoadedRunners
      BY DEF WakeInv, Events
    <2>2. p.pc \in {"evict", "evictSend", "evictWait"} =>
            p.left <= unloadedCh + Unloading
                      + Cardinality({r \in LoadedRunners : ModelOf[r] # ModelOf[p.req]})
      BY DEF WakeInv, Events, Others
    <2> QED BY <2>1, <2>2 DEF NoLostWakeup
  <1> QED BY <1>1, WakeInvariant, PTL

\* A loaded runner that nobody uses is never forgotten (processCompleted and the timers):
\* its timer runs, a goroutine will send it, or its event is in the channel or with C.
THEOREM IdleRunnerHasTrigger == Spec => []IdleHasTrigger
  <1>1. TriggerInv => IdleHasTrigger
    BY DEF TriggerInv, Triggered, InExpired, Expiring, IdleHasTrigger
  <1> QED BY <1>1, WakeInvariant, PTL

----------------------------------------------------------------------------
(* The invariant that the pool needs and the other proofs do not: a runner *)
(* whose own request waits for an answer is locked by its loader.          *)

LoadingInv ==
    \A r \in LoadedRunners : request[r].reply = "none" => runner[r].refMu = "loader"

Invs == TypeInv /\ LoadInv /\ UseInv /\ GoneInv /\ LoadingInv

LEMMA NextLoads ==
  ASSUME TypeInv, UseInv, [Next]_vars
  PROVE  /\ LoadedRunners' \subseteq LoadedRunners \cup Fresh
         /\ UNCHANGED loaded \/ PInstall \/ CUnload
  <1>1. CASE UNCHANGED loaded
    BY <1>1 DEF LoadedRunners
  <1>2. CASE CUnload
    <2>1. PICK s \in Runners : s = c.runner
      BY <1>2 DEF CUnload, TypeInv, CInv, CSet
    <2>2. \A m \in Models : loaded'[m] = IF m = ModelOf[s] THEN None ELSE loaded[m]
      BY <1>2, <2>1 DEF CUnload, TypeInv, MapType
    <2>3. \A r \in Runners : ModelOf[r] \in Models /\ r # None
      BY Constants DEF Runners
    <2> QED BY <1>2, <2>2, <2>3 DEF LoadedRunners
  <1>3. CASE PInstall
    <2>1. PICK s \in Runners : s = p.req
      BY <1>3 DEF PInstall, TypeInv, PInv, PSet, Runners
    <2>2. s \in Fresh
      BY <1>3, <2>1 DEF PInstall, Fresh, WithP, PBusy, Runners
    <2>3. loaded' = [loaded EXCEPT ![ModelOf[s]] = s]
      BY <1>3, <2>1 DEF PInstall
    <2>4. \A m \in Models : loaded'[m] = IF m = ModelOf[s] THEN s ELSE loaded[m]
      BY <2>3 DEF TypeInv, MapType
    <2>5. \A r \in Runners : ModelOf[r] \in Models
      BY Constants DEF Runners
    <2> QED BY <1>3, <2>2, <2>4, <2>5 DEF LoadedRunners
  <1>4. ASSUME NEW q \in Requests,
               \/ HLookup(q) \/ HCheck(q) \/ HUse(q) \/ HEnqueue(q)
               \/ HFinish(q) \/ HCancel(q) \/ CFinished(q) \/ XRuntimeOOM(q)
        PROVE  UNCHANGED loaded
    BY <1>4 DEF HLookup, HCheck, HUse, HEnqueue, HFinish, HCancel, CFinished, XRuntimeOOM
  <1>5. ASSUME NEW r \in Runners,
               \/ LoaderReady(r) \/ LoaderFails(r) \/ LoaderExpires(r)
               \/ TimerFires(r) \/ TimerLocks(r) \/ TimerSends(r)
               \/ RetrySends(r) \/ Crash(r)
        PROVE  UNCHANGED loaded
    BY <1>5 DEF LoaderReady, LoaderFails, LoaderExpires, TimerFires, TimerLocks,
                TimerSends, RetrySends, Crash
  <1>6. \/ \E m \in Models : XExpireModel(m)
        \/ XMark \/ XSend \/ ShutdownCancels \/ UnloadAllRunners \/ Terminated
        \/ CExpired \/ CDecrement \/ CSend \/ CBusy \/ CDuplicateOrOrphan
        \/ CRecovered \/ CNotify \/ CStop \/ UNCHANGED vars
        => UNCHANGED loaded
    BY DEF XExpireModel, XMark, XSend, ShutdownCancels, UnloadAllRunners, Terminated, vars,
           CExpired, CDecrement, CSend, CBusy, CDuplicateOrOrphan, CRecovered, CNotify, CStop
  <1>7. \/ PRecv \/ PIgnoreUnload \/ PTop \/ PCheck \/ PUse \/ PSpace \/ PSum
        \/ PCreate \/ PCreateFails \/ PPreflight
        \/ PRequiredFull \/ PLoadOOM \/ PLoadFails \/ PLoadPanics
        \/ PList \/ PScan \/ PExpire \/ PSend \/ PWait
        \/ PEvictAll \/ PEvict \/ PEvictSend \/ PEvictWait \/ PStop
        => UNCHANGED loaded
    BY DEF PRecv, PIgnoreUnload, PTop, PCheck, PUse, PSpace, PSum, PCreate,
           PCreateFails, PPreflight, PRequiredFull, PLoadOOM, PLoadFails, PLoadPanics,
           PList, PScan, PExpire, PSend, PWait, PEvictAll, PEvict, PEvictSend,
           PEvictWait, PStop
  <1>8. UNCHANGED loaded \/ PInstall \/ CUnload
    BY <1>4, <1>5, <1>6, <1>7 DEF Next
  <1> QED BY <1>1, <1>2, <1>3, <1>8

\* Nobody else unlocks a runner that is in the map and locked by its loader.
LEMMA LoaderKeepsLock ==
  ASSUME TypeInv, UseInv, GoneInv, [Next]_vars, NEW r \in LoadedRunners,
         runner[r].refMu = "loader", ~LoaderReady(r), ~LoaderFails(r)
  PROVE  runner'[r].refMu = "loader"
  <1> DEFINE Kept == runner'[r].refMu = "loader"
  <1>0. r \in Runners /\ runner \in [Runners -> Runner]
    BY DEF LoadedRunners, TypeInv, RunnerType
  <1>1. ASSUME NEW s \in Runners, \A t \in Runners : t # s => runner'[t] = runner[t],
               runner[s].refMu # "loader" \/ runner'[s].refMu = runner[s].refMu
        PROVE  Kept
    BY <1>0, <1>1
  <1>2. ASSUME NEW s \in Runners, runner[s].refMu # "loader", NEW v,
               runner' = [runner EXCEPT ![s] = v]
        PROVE  Kept
    BY <1>0, <1>1, <1>2
  <1>3. ASSUME UNCHANGED runner PROVE Kept
    BY <1>3
  <1>4. ASSUME NEW q \in Requests, NEW s \in Runners, UseLoadedRunner(q, s)
        PROVE  Kept
    BY <1>2, <1>4 DEF UseLoadedRunner
  <1>5. ASSUME NEW s \in Runners, NEW h, MarkExpired(s, h)
        PROVE  Kept
    BY <1>2, <1>5 DEF MarkExpired
  <1>6. ASSUME NEW s \in Runners, NEW h, h # "loader", SendAndUnlock(s, h)
        PROVE  Kept
    BY <1>0, <1>1, <1>6 DEF SendAndUnlock
  <1>7. ASSUME NEW q \in Requests,
               \/ HLookup(q) \/ HCheck(q) \/ HUse(q) \/ HEnqueue(q)
               \/ HFinish(q) \/ HCancel(q) \/ CFinished(q) \/ XRuntimeOOM(q)
        PROVE  Kept
    BY <1>3, <1>4, <1>7 DEF HLookup, HCheck, HUse, HEnqueue, HFinish, HCancel, CFinished,
                            XRuntimeOOM, TypeInv, RequestInv, RefsSet
  <1>8. ASSUME NEW s \in Runners,
               \/ LoaderReady(s) \/ LoaderFails(s) \/ LoaderExpires(s)
               \/ TimerFires(s) \/ TimerLocks(s) \/ TimerSends(s)
               \/ RetrySends(s) \/ Crash(s)
        PROVE  Kept
    <2>1. CASE LoaderReady(s) \/ LoaderFails(s)
      <3>1. s # r /\ \A t \in Runners : t # s => runner'[t] = runner[t]
        BY <1>0, <2>1 DEF LoaderReady, LoaderFails
      <3> QED BY <1>0, <3>1
    <2>2. CASE TimerLocks(s)
      BY <1>2, <2>2 DEF TimerLocks
    <2>3. CASE TimerFires(s)
      <3> DEFINE n == runner[s].fired + 1
      <3>1. runner' = [runner EXCEPT ![s] = [@ EXCEPT !.timer = "fired", !.fired = n]]
        BY <2>3 DEF TimerFires
      <3> HIDE DEF n
      <3> QED BY <1>0, <1>1, <3>1 DEF Runner
    <2>4. CASE RetrySends(s) \/ Crash(s)
      <3>1. (\A t \in Runners : t # s => runner'[t] = runner[t])
            /\ runner'[s].refMu = runner[s].refMu
        BY <1>0, <2>4 DEF RetrySends, Crash, Runner
      <3> QED BY <1>1, <3>1
    <2> QED BY <1>6, <1>8, <2>1, <2>2, <2>3, <2>4 DEF LoaderExpires, TimerSends
  <1>9. ASSUME \/ PUse \/ PCreate \/ PLoadOOM \/ PLoadFails \/ PInstall
               \/ PExpire \/ PSend \/ PEvict \/ PEvictSend
        PROVE  Kept
    <2>1. CASE PUse \/ PExpire \/ PSend \/ PEvict \/ PEvictSend
      <3>1. p.pc \in {"use", "expire", "send", "evictSend"} => p.target \in Runners
        BY DEF TypeInv, PInv, PSet
      <3>2. p.pc = "use" => p.req \in Requests
        BY DEF TypeInv, PInv, PSet
      <3>3. p.todo \subseteq Runners
        BY DEF TypeInv, PInv, PType
      <3> QED BY <1>4, <1>5, <1>6, <2>1, <3>1, <3>2, <3>3
                 DEF PUse, PExpire, PSend, PEvict, PEvictSend
    <2>2. CASE PCreate
      <3>1. \A t \in Runners : runner'[t].refMu = runner[t].refMu
        BY <1>0, <2>2 DEF PCreate, Runner
      <3> QED BY <1>0, <3>1
    <2>3. CASE PLoadOOM \/ PLoadFails
      <3>1. runner' = [runner EXCEPT ![activeLoading].server = "closed"]
        BY <2>3 DEF PLoadOOM, PLoadFails, CloseActive
      <3>2. \A t \in Runners : runner'[t].refMu = runner[t].refMu
        BY <1>0, <3>1 DEF Runner
      <3> QED BY <1>0, <3>2
    <2>4. CASE PInstall
      <3> DEFINE u == IF KeepAliveOf[p.req] = "unset" THEN DefaultKeepAlive ELSE KeepAliveOf[p.req]
      <3>1. runner' = [runner EXCEPT ![p.req] = [@ EXCEPT
                          !.refMu = "loader", !.valid = TRUE, !.session = u]]
        BY <2>4 DEF PInstall
      <3> HIDE DEF u
      <3> QED BY <1>0, <3>1 DEF Runner
    <2> QED BY <1>9, <2>1, <2>2, <2>3, <2>4
  <1>10. ASSUME CDecrement \/ CSend \/ CBusy \/ CDuplicateOrOrphan \/ CUnload \/ CRecovered
         PROVE  Kept
    <2>0. PICK s \in Runners : s = c.runner
      BY <1>10 DEF CDecrement, CSend, CBusy, CDuplicateOrOrphan, CUnload, CRecovered,
                   TypeInv, CInv, CSet
    <2>1. CASE CDecrement
      <3>1. runner[s].refMu = "free" /\ \A t \in Runners : t # s => runner'[t] = runner[t]
        BY <1>0, <2>0, <2>1 DEF CDecrement
      <3> QED BY <1>1, <3>1
    <2>2. CASE CSend
      BY <1>6, <2>0, <2>2 DEF CSend
    <2>3. CASE CBusy \/ CDuplicateOrOrphan \/ CUnload
      <3>1. runner[s].refMu = "free" /\ \A t \in Runners : t # s => runner'[t] = runner[t]
        BY <1>0, <2>0, <2>3 DEF CBusy, CDuplicateOrOrphan, CUnload, Unload
      <3> QED BY <1>1, <3>1
    <2>4. CASE CRecovered
      <3>1. s # r /\ \A t \in Runners : t # s => runner'[t] = runner[t]
        BY <1>0, <2>0, <2>4 DEF CRecovered, GoneInv
      <3> QED BY <1>0, <3>1
    <2> QED BY <1>10, <2>1, <2>2, <2>3, <2>4
  <1>11. ASSUME XMark \/ XSend PROVE Kept
    BY <1>5, <1>6, <1>11 DEF XMark, XSend, TypeInv, OutsideType
  <1>12. ASSUME UnloadAllRunners PROVE Kept
    BY <1>0, <1>12 DEF UnloadAllRunners, Runner
  <1>13. ASSUME \/ \E m \in Models : XExpireModel(m)
                \/ ShutdownCancels \/ Terminated
                \/ CExpired \/ CNotify \/ CStop \/ UNCHANGED vars
         PROVE  Kept
    BY <1>3, <1>13 DEF XExpireModel, ShutdownCancels, Terminated, CExpired, CNotify, CStop, vars
  <1>14. ASSUME \/ PRecv \/ PIgnoreUnload \/ PTop \/ PCheck \/ PSpace \/ PSum
                \/ PCreateFails \/ PPreflight \/ PRequiredFull \/ PLoadPanics
                \/ PList \/ PScan \/ PWait \/ PEvictAll \/ PEvictWait \/ PStop
         PROVE  Kept
    BY <1>3, <1>14 DEF PRecv, PIgnoreUnload, PTop, PCheck, PSpace, PSum, PCreateFails,
                       PPreflight, PRequiredFull, PLoadPanics, PList, PScan, PWait,
                       PEvictAll, PEvictWait, PStop
  <1> QED BY <1>7, <1>8, <1>9, <1>10, <1>11, <1>12, <1>13, <1>14 DEF Next

LEMMA NextLoading ==
  ASSUME TypeInv, UseInv, GoneInv, LoadingInv, [Next]_vars
  PROVE  LoadingInv'
  <1> SUFFICES ASSUME NEW r \in LoadedRunners', request'[r].reply = "none"
               PROVE  runner'[r].refMu = "loader"
    BY DEF LoadingInv
  <1>1. r \in Requests
    BY DEF LoadedRunners, Runners
  <1>2. CASE r \in LoadedRunners
    <2>1. runner[r].refMu = "loader"
      BY <1>1, <1>2, NextAnswers DEF LoadingInv
    <2>2. CASE LoaderReady(r) \/ LoaderFails(r)
      BY <1>1, <2>2 DEF LoaderReady, LoaderFails, Reply, TypeInv, RequestInv, RequestType, Request
    <2> QED BY <1>2, <2>1, <2>2, LoaderKeepsLock
  <1>3. CASE r \notin LoadedRunners
    <2>1. PInstall
      <3>1. ~CUnload /\ ~UNCHANGED loaded
        BY <1>3, Constants DEF CUnload, LoadedRunners, TypeInv, MapType, Runners
      <3> QED BY <3>1, NextLoads
    <2>2. PICK s \in Runners : s = p.req
      BY <2>1 DEF PInstall, TypeInv, PInv, PSet, Runners
    <2>3. r = s
      <3>1. loaded' = [loaded EXCEPT ![ModelOf[s]] = s]
        BY <2>1, <2>2 DEF PInstall
      <3>2. \A m \in Models : loaded'[m] = IF m = ModelOf[s] THEN s ELSE loaded[m]
        BY <3>1 DEF TypeInv, MapType
      <3> QED BY <1>1, <1>3, <3>2, Constants DEF LoadedRunners, Runners
    <2> QED BY <2>1, <2>2, <2>3 DEF PInstall, TypeInv, RunnerType, Runner
  <1> QED BY <1>2, <1>3

----------------------------------------------------------------------------
(* The promise.  Once broken it stays so, and no step that breaks it moves *)
(* a runner into the pool or out of it.                                    *)

\* A runner out of the map that has a count keeps one.
LEMMA StrayCounts ==
  ASSUME TypeInv, UseInv, [Next]_vars, NEW r \in Runners, ~runner[r].valid,
         runner[r].refCount # 0
  PROVE  runner'[r].refCount # 0
  <1> DEFINE Counted == runner'[r].refCount # 0
  <1>0. r \notin LoadedRunners /\ r \notin Fresh /\ runner[r].refMu # "loader"
    BY DEF UseInv, ValidInv, LoaderInv
  <1>1. ASSUME Quiet \/ UNCHANGED runner PROVE Counted
    BY <1>1 DEF Quiet, RunnersQuiet
  <1>2. ASSUME NEW s \in Runners, s # r, \A t \in Runners : t # s => runner'[t] = runner[t]
        PROVE  Counted
    BY <1>2
  <1>3. ASSUME NEW q \in Requests, NEW s \in Runners, UseLoadedRunner(q, s),
               request[q].watch = "none"
        PROVE  Counted
    <2>1. /\ s # r => runner'[r] = runner[r]
          /\ runner'[s].refCount = (runner[s].refCount + 1) % RefMod
      BY <1>3 DEF UseLoadedRunner, TypeInv, RunnerType, Runner
    <2>2. CASE s = r
      <3>1. runner[r].refCount <= Cardinality(Given(r))
        BY DEF UseInv, ChargeInv
      <3>2. Cardinality(Given(r)) \in Nat /\ Cardinality(Given(r)) + 1 < RefMod
        BY <1>3, ChargeBound
      <3>3. runner[r].refCount \in Nat /\ RefMod \in Nat
        BY RefCountRange DEF TypeInv, RunnerType, Runner
      <3>4. runner[r].refCount + 1 \in Nat /\ runner[r].refCount + 1 < RefMod
        BY <3>1, <3>2, <3>3
      <3>5. (runner[r].refCount + 1) % RefMod = runner[r].refCount + 1
        BY <3>3, <3>4
      <3> QED BY <2>1, <2>2, <3>3, <3>5
    <2> QED BY <2>1, <2>2
  <1>4. ASSUME NEW q \in Requests,
               \/ HLookup(q) \/ HCheck(q) \/ HUse(q) \/ HEnqueue(q)
               \/ HFinish(q) \/ HCancel(q) \/ CFinished(q) \/ XRuntimeOOM(q)
        PROVE  Counted
    <2>1. CASE HUse(q)
      BY <1>3, <2>1 DEF HUse, TypeInv, RequestInv, RefsSet, UseInv, AnswerInv, Early
    <2> QED BY <1>1, <1>4, <2>1, OutsideQuiet DEF HLookup, HEnqueue, CFinished
  <1>5. ASSUME NEW s \in Runners,
               \/ LoaderReady(s) \/ LoaderFails(s) \/ LoaderExpires(s)
               \/ TimerFires(s) \/ TimerLocks(s) \/ TimerSends(s)
               \/ RetrySends(s) \/ Crash(s)
        PROVE  Counted
    <2>1. CASE LoaderReady(s) \/ LoaderFails(s)
      <3>1. s # r /\ \A t \in Runners : t # s => runner'[t] = runner[t]
        BY <1>0, <2>1 DEF LoaderReady, LoaderFails, TypeInv, RunnerType
      <3> QED BY <1>2, <3>1
    <2> QED BY <1>1, <1>5, <2>1, OutsideQuiet
  <1>6. ASSUME \/ PIgnoreUnload \/ PCheck \/ PSpace \/ PSum \/ PCreate \/ PPreflight
               \/ PRequiredFull \/ PLoadOOM \/ PLoadPanics \/ PList \/ PScan \/ PExpire
               \/ PSend \/ PWait \/ PEvictAll \/ PEvict \/ PEvictSend \/ PEvictWait \/ PStop
        PROVE  Counted
    BY <1>1, <1>6, PendingQuiet
  <1>7. ASSUME PUse
        PROVE  Counted
    <2>1. PICK q \in Requests, s \in Runners : q = p.req /\ s = p.target
      BY <1>7 DEF PUse, TypeInv, PInv, PSet
    <2>2. request[q].watch = "none"
      BY <1>7, <2>1 DEF PUse, UseInv, TurnInv, WithP, PBusy, Unanswered
    <2> QED BY <1>3, <1>7, <2>1, <2>2 DEF PUse
  <1>8. ASSUME PLoadFails
        PROVE  Counted
    <2>1. runner' = [runner EXCEPT ![activeLoading].server = "closed"]
      BY <1>8 DEF PLoadFails, CloseActive
    <2> QED BY <2>1 DEF TypeInv, RunnerType, Runner
  <1>9. ASSUME PInstall
        PROVE  Counted
    <2>1. PICK s \in Runners : s = p.req
      BY <1>9 DEF PInstall, TypeInv, PInv, PSet, Runners
    <2>2. s \in Fresh /\ \A t \in Runners : t # s => runner'[t] = runner[t]
      BY <1>9, <2>1 DEF PInstall, Fresh, WithP, PBusy, Runners, TypeInv, RunnerType
    <2> QED BY <1>0, <1>2, <2>1, <2>2
  <1>10. ASSUME CDecrement
         PROVE  Counted
    <2>1. PICK s \in Runners : s = c.runner /\ s \in LoadedRunners
      BY <1>10 DEF CDecrement, UseInv, ChargeInv, LoadedRunners
    <2>2. \A t \in Runners : t # s => runner'[t] = runner[t]
      BY <1>10, <2>1 DEF CDecrement, TypeInv, RunnerType
    <2> QED BY <1>0, <1>2, <2>1, <2>2
  <1>11. ASSUME CUnload
         PROVE  Counted
    BY <1>11 DEF CUnload, Unload, Idle, TypeInv, RunnerType, Runner
  <1>12. ASSUME PRecv \/ PTop \/ PCreateFails \/ UNCHANGED vars
         PROVE  Counted
    BY <1>1, <1>12 DEF PRecv, PTop, PCreateFails, vars
  <1>13. ASSUME CExpired \/ CSend \/ CBusy \/ CDuplicateOrOrphan \/ CRecovered \/ CNotify \/ CStop
         PROVE  Counted
    BY <1>1, <1>13, CompletedQuiet
  <1>14. ASSUME \/ \E m \in Models : XExpireModel(m)
                \/ XMark \/ XSend \/ ShutdownCancels \/ UnloadAllRunners \/ Terminated
         PROVE  Counted
    BY <1>1, <1>14, OutsideQuiet
  <1> QED
    BY <1>4, <1>5, <1>6, <1>7, <1>8, <1>9, <1>10, <1>11, <1>12, <1>13, <1>14 DEF Next

LEMMA SoundFades ==
  ASSUME TypeInv, LoadInv, UseInv, [Next]_vars, Sound'
  PROVE  Sound
  <1>1. down = "up"
    <2>1. down' = down \/ ShutdownCancels \/ UnloadAllRunners
      <3>1. ASSUME NEW q \in Requests,
                   \/ HLookup(q) \/ HCheck(q) \/ HUse(q) \/ HEnqueue(q)
                   \/ HFinish(q) \/ HCancel(q) \/ CFinished(q) \/ XRuntimeOOM(q)
            PROVE  down' = down
        BY <3>1 DEF HLookup, HCheck, HUse, HEnqueue, HFinish, HCancel, CFinished, XRuntimeOOM,
                    outside
      <3>2. ASSUME NEW r \in Runners,
                   \/ LoaderReady(r) \/ LoaderFails(r) \/ LoaderExpires(r)
                   \/ TimerFires(r) \/ TimerLocks(r) \/ TimerSends(r)
                   \/ RetrySends(r) \/ Crash(r)
            PROVE  down' = down
        BY <3>2 DEF LoaderReady, LoaderFails, LoaderExpires, TimerFires, TimerLocks,
                    TimerSends, RetrySends, Crash, outside
      <3>3. \/ \E m \in Models : XExpireModel(m)
            \/ XMark \/ XSend \/ Terminated
            \/ CExpired \/ CDecrement \/ CSend \/ CBusy \/ CDuplicateOrOrphan \/ CUnload
            \/ CRecovered \/ CNotify \/ CStop \/ UNCHANGED vars
            => down' = down
        BY DEF XExpireModel, XMark, XSend, Terminated, vars, outside, CExpired, CDecrement,
               CSend, CBusy, CDuplicateOrOrphan, CUnload, CRecovered, CNotify, CStop
      <3>4. \/ PRecv \/ PIgnoreUnload \/ PTop \/ PCheck \/ PUse \/ PSpace \/ PSum
            \/ PCreate \/ PCreateFails \/ PPreflight
            \/ PInstall \/ PRequiredFull \/ PLoadOOM \/ PLoadFails \/ PLoadPanics
            \/ PList \/ PScan \/ PExpire \/ PSend \/ PWait
            \/ PEvictAll \/ PEvict \/ PEvictSend \/ PEvictWait \/ PStop
            => down' = down
        BY DEF PRecv, PIgnoreUnload, PTop, PCheck, PUse, PSpace, PSum, PCreate,
               PCreateFails, PPreflight, PInstall, PRequiredFull, PLoadOOM, PLoadFails,
               PLoadPanics, PList, PScan, PExpire, PSend, PWait, PEvictAll, PEvict, PEvictSend,
               PEvictWait, PStop, outside
      <3> QED BY <3>1, <3>2, <3>3, <3>4 DEF Next
    <2> QED BY <2>1 DEF ShutdownCancels, UnloadAllRunners, Sound
  <1>2. ASSUME NEW r \in Runners, ~runner[r].valid, runner[r].refCount # 0
        PROVE  FALSE
    <2>1. r \notin LoadedRunners /\ r \notin Fresh
      BY <1>2 DEF UseInv, ValidInv
    <2>2. r \notin LoadedRunners'
      BY <2>1, NextLoads
    <2>3. ~runner'[r].valid
      BY <2>2, NextUse DEF UseKept, UseInv, ValidInv
    <2>4. runner'[r].refCount # 0
      BY <1>2, StrayCounts
    <2> QED BY <2>3, <2>4 DEF Sound, NoStaleHandout
  <1> QED BY <1>1, <1>2 DEF Sound, NoStaleHandout

LEMMA MovesAreSound ==
  ASSUME TypeInv, UseInv, Sound, PInstall \/ CUnload
  PROVE  Sound'
  <1>1. CASE PInstall
    <2>1. PICK s \in Runners : s = p.req
      BY <1>1 DEF PInstall, TypeInv, PInv, PSet, Runners
    <2> DEFINE u == IF KeepAliveOf[s] = "unset" THEN DefaultKeepAlive ELSE KeepAliveOf[s]
    <2>2. runner' = [runner EXCEPT ![s] = [@ EXCEPT
                        !.refMu = "loader", !.valid = TRUE, !.session = u]]
      BY <1>1, <2>1 DEF PInstall
    <2> HIDE DEF u
    <2>3. \A r \in Runners : runner'[r].valid = TRUE \/ runner'[r] = runner[r]
      BY <2>2 DEF TypeInv, RunnerType, Runner
    <2> QED BY <1>1, <2>3 DEF PInstall, outside, Sound, NoStaleHandout
  <1>2. CASE CUnload
    <2>1. \A r \in Runners : runner'[r] = runner[r] \/ runner'[r].refCount = 0
      BY <1>2 DEF CUnload, Unload, Idle, TypeInv, RunnerType, Runner
    <2> QED BY <1>2, <2>1 DEF CUnload, outside, Sound, NoStaleHandout
  <1> QED BY <1>1, <1>2

----------------------------------------------------------------------------
(* What the pool sees of a step.                                           *)

Queued(q) == request[q].phase \notin {"new", "check", "use", "enqueue"}

LEMMA SameAnswer ==
  ASSUME TypeInv, NEW q \in Requests, Queued(q)' <=> Queued(q),
         Queued(q) => request'[q].reply = request[q].reply /\ request'[q].ref = request[q].ref,
         request'[q].phase \in {"new", "check", "use", "enqueue", "waiting", "done"}
  PROVE  AnswerOf(q)' = AnswerOf(q)
  <1>1. request[q].phase \in {"new", "check", "use", "enqueue", "waiting", "done"}
    BY DEF TypeInv, RequestInv, RequestType, Request
  <1>2. CASE ~Queued(q)
    BY <1>1, <1>2 DEF AnswerOf, Queued
  <1>3. CASE Queued(q)
    <2>1. request[q].reply \in {"none", "ok", "err"}
      BY DEF TypeInv, RequestInv, RequestType, Request
    <2> QED BY <1>1, <1>3, <2>1 DEF AnswerOf, Queued
  <1> QED BY <1>2, <1>3

LEMMA SameRequest ==
  ASSUME TypeInv, NEW q \in Requests, request'[q].phase = request[q].phase,
         request'[q].reply = request[q].reply, request'[q].ref = request[q].ref
  PROVE  AnswerOf(q)' = AnswerOf(q)
  <1>1. request[q].phase \in {"new", "check", "use", "enqueue", "waiting", "done"}
    BY DEF TypeInv, RequestInv, RequestType, Request
  <1> QED BY <1>1, SameAnswer DEF Queued

LEMMA OneAnswer ==
  ASSUME NEW q \in Requests, NEW a, AnswerOf(q)' = a,
         \A s \in Requests : s # q => AnswerOf(s)' = AnswerOf(s)
  PROVE  Pool!Answers(q, a)
  BY DEF Pool!Answers, Answer

LEMMA SameAnswers ==
  ASSUME \A s \in Requests : AnswerOf(s)' = AnswerOf(s)
  PROVE  Answer' = Answer
  BY DEF Answer

LEMMA Unseen ==
  ASSUME \A q \in Requests : AnswerOf(q)' = AnswerOf(q) /\ request'[q].ctxDone = request[q].ctxDone,
         Queue' = Queue, UNCHANGED loaded, Sound, Sound'
  PROVE  UNCHANGED Pool!pool
  <1>1. Answer' = Answer
    BY SameAnswers
  <1>2. Left' = Left
    BY DEF Left
  <1>3. Sound' = Sound
    BY DEF Sound, NoStaleHandout
  <1> QED BY <1>1, <1>2, <1>3 DEF Pool!pool

LEMMA QueueTypes ==
  ASSUME TypeInv
  PROVE  /\ InWork \in Seq(Requests) /\ pendingReqCh \in Seq(Requests)
         /\ Queue \in Seq(Requests)
         /\ Len(Queue) = Len(InWork) + Len(pendingReqCh) /\ Len(InWork) \in {0, 1}
  <1>1. PBusy => p.req \in Requests
    BY DEF TypeInv, PInv, PSet, PBusy
  <1>2. InWork \in Seq(Requests) /\ Len(InWork) \in {0, 1}
    BY <1>1 DEF InWork, PBusy
  <1>3. pendingReqCh \in Seq(Requests)
    BY DEF TypeInv, PendingType
  <1> QED BY <1>2, <1>3, ConcatProperties DEF Queue

\* The request P works on is the first of the queue, and is gone when P is done with it.
LEMMA FirstInWork ==
  ASSUME TypeInv, PBusy
  PROVE  /\ Pool!First(p.req)
         /\ Tail(Queue) = pendingReqCh
  <1>1. p.req \in Requests /\ pendingReqCh \in Seq(Requests)
    BY DEF TypeInv, PInv, PSet, PBusy, PendingType
  <1>2. InWork = <<p.req>>
    BY DEF InWork, PBusy
  <1>3. Head(<<p.req>> \o pendingReqCh) = p.req /\ Tail(<<p.req>> \o pendingReqCh) = pendingReqCh
        /\ <<p.req>> \o pendingReqCh # <<>>
    BY <1>1
  <1> QED BY <1>2, <1>3 DEF Pool!First, Queue

----------------------------------------------------------------------------
(* The steps, one by one.                                                  *)

LEMMA QuietUnseen ==
  ASSUME TypeInv, Quiet, Sound, Sound', InWork' = InWork,
         \A q \in Requests : request'[q].ctxDone = request[q].ctxDone
  PROVE  UNCHANGED Pool!pool
  <1>1. ASSUME NEW q \in Requests
        PROVE  AnswerOf(q)' = AnswerOf(q)
    <2>1. request[q].phase \in {"new", "check", "use", "enqueue", "waiting", "done"}
      BY DEF TypeInv, RequestInv, RequestType, Request
    <2>2. /\ Queued(q)' <=> Queued(q)
          /\ request'[q].phase \in {"new", "check", "use", "enqueue", "waiting", "done"}
      BY <2>1 DEF Quiet, RequestsQuiet, Queued
    <2> QED BY <2>2, SameAnswer DEF Quiet, RequestsQuiet
  <1>2. Queue' = Queue /\ UNCHANGED loaded
    BY DEF Queue, Quiet
  <1> QED BY <1>1, <1>2, Unseen

LEMMA OutsideUnseen ==
  ASSUME TypeInv, UseInv, Sound, Sound',
         \/ \E q \in Requests : \/ HCheck(q) \/ XRuntimeOOM(q) \/ LoaderExpires(q)
                                \/ TimerFires(q) \/ TimerLocks(q) \/ TimerSends(q)
                                \/ RetrySends(q) \/ Crash(q)
         \/ \E m \in Models : XExpireModel(m)
         \/ XMark \/ XSend \/ ShutdownCancels \/ UnloadAllRunners \/ Terminated
         \/ CExpired \/ CSend \/ CBusy \/ CDuplicateOrOrphan \/ CRecovered \/ CNotify \/ CStop
  PROVE  UNCHANGED Pool!pool
  <1>1. Quiet
    BY OutsideQuiet, CompletedQuiet DEF Runners
  <1>2. UNCHANGED p
    BY DEF HCheck, XRuntimeOOM, XExpireModel, XMark, XSend, ShutdownCancels, UnloadAllRunners,
           Terminated, LoaderExpires, TimerFires, TimerLocks, TimerSends, RetrySends, Crash,
           CExpired, CSend, CBusy, CDuplicateOrOrphan, CRecovered, CNotify, CStop, vars
  <1>3. \A s \in Requests : request'[s].ctxDone = request[s].ctxDone
    <2>1. CASE \E q \in Requests : HCheck(q)
      BY <2>1 DEF HCheck, TypeInv, RequestInv, RequestType, Request
    <2>2. CASE UNCHANGED request
      BY <2>2
    <2> QED
      BY <2>1, <2>2
         DEF XRuntimeOOM, XExpireModel, XMark, XSend, ShutdownCancels, UnloadAllRunners,
             Terminated, LoaderExpires, TimerFires, TimerLocks, TimerSends, RetrySends, Crash,
             CExpired, CSend, CBusy, CDuplicateOrOrphan, CRecovered, CNotify, CStop, vars
  <1> QED BY <1>1, <1>2, <1>3, QuietUnseen DEF InWork

LEMMA PendingUnseen ==
  ASSUME TypeInv, LoadInv, UseInv, Sound, Sound',
         \/ PIgnoreUnload \/ PCheck \/ PSpace \/ PSum \/ PCreate \/ PPreflight \/ PRequiredFull
         \/ PLoadOOM \/ PLoadPanics \/ PList \/ PScan \/ PExpire \/ PSend \/ PWait
         \/ PEvictAll \/ PEvict \/ PEvictSend \/ PEvictWait \/ PStop
  PROVE  UNCHANGED Pool!pool
  <1> USE DEF TypeInv, PInv
  <1>1. Quiet
    BY PendingQuiet
  <1>2. ~PStop /\ ~PLoadPanics
    <2>1. p.pc = "load" => activeLoading = p.req /\ p.req # None
      BY Constants DEF LoadInv, SlotInv, Sound, PSet
    <2> QED BY <2>1 DEF PStop, PLoadPanics, Sound
  <1>3. \A s \in Requests : request'[s].ctxDone = request[s].ctxDone
    <2>1. CASE PLoadOOM
      BY <2>1 DEF PLoadOOM, RequestInv, RequestType, Request
    <2>2. CASE UNCHANGED request
      BY <2>2
    <2> QED
      BY <1>2, <2>1, <2>2
         DEF PIgnoreUnload, PCheck, PSpace, PSum, PCreate, PPreflight, PRequiredFull, PList,
             PScan, PExpire, PSend, PWait, PEvictAll, PEvict, PEvictSend, PEvictWait
  <1>4. p' = p \/ (PBusy /\ PBusy' /\ p'.req = p.req)
    <2>1. CASE PPreflight \/ PRequiredFull \/ PLoadOOM
      BY <2>1 DEF PPreflight, PRequiredFull, PLoadOOM, CloseActive, AfterNeedEvict, PType, PBusy
    <2>2. CASE PIgnoreUnload \/ PCheck \/ PSpace \/ PCreate
      BY <2>2 DEF PIgnoreUnload, PCheck, PSpace, PCreate, PType, PBusy
    <2>3. CASE PSum
      BY <2>3 DEF PSum, PType, PBusy
    <2>4. CASE PList
      BY <2>4 DEF PList, PType, PBusy
    <2>5. CASE PScan
      BY <2>5 DEF PScan, PType, PBusy
    <2>6. CASE PEvict
      BY <2>6 DEF PEvict, PType, PBusy
    <2>7. CASE PExpire \/ PSend \/ PWait \/ PEvictAll \/ PEvictSend \/ PEvictWait
      BY <2>7 DEF PExpire, PSend, PWait, PEvictAll, PEvictSend, PEvictWait, PType, PBusy
    <2> QED BY <1>2, <2>1, <2>2, <2>3, <2>4, <2>5, <2>6, <2>7
  <1>5. InWork' = InWork
    BY <1>4 DEF InWork, PBusy
  <1> QED BY <1>1, <1>3, <1>5, QuietUnseen

\* The handler's look at the map, P's look at it, and the count of a finished request.
LEMMA LooksUnseen ==
  ASSUME TypeInv, UseInv, Sound, Sound',
         \/ \E q \in Requests : HLookup(q) \/ CFinished(q)
         \/ CDecrement \/ PTop \/ UNCHANGED vars
  PROVE  UNCHANGED Pool!pool
  <1>1. UNCHANGED <<loaded, pendingReqCh>>
    BY DEF HLookup, CFinished, CDecrement, PTop, vars, channels
  <1>2. InWork' = InWork
    <2>1. CASE PTop
      BY <2>1 DEF PTop, InWork, TypeInv, PInv, PType
    <2>2. CASE UNCHANGED p
      BY <2>2 DEF InWork
    <2> QED BY <2>1, <2>2 DEF HLookup, CFinished, CDecrement, vars
  <1>3. \A s \in Requests : AnswerOf(s)' = AnswerOf(s) /\ request'[s].ctxDone = request[s].ctxDone
    <2>1. CASE UNCHANGED request
      BY <2>1 DEF AnswerOf
    <2>2. ASSUME NEW q \in Requests, CFinished(q)
          PROVE  \A s \in Requests : AnswerOf(s)' = AnswerOf(s) /\ request'[s].ctxDone = request[s].ctxDone
      <3>1. \A s \in Requests :
              /\ request'[s].phase = request[s].phase /\ request'[s].reply = request[s].reply
              /\ request'[s].ref = request[s].ref /\ request'[s].ctxDone = request[s].ctxDone
        BY <2>2 DEF CFinished, TypeInv, RequestInv, RequestType, Request
      <3> QED BY <3>1, SameRequest
    <2>3. ASSUME NEW q \in Requests, HLookup(q)
          PROVE  \A s \in Requests : AnswerOf(s)' = AnswerOf(s) /\ request'[s].ctxDone = request[s].ctxDone
      <3>1. PICK r : r = loaded[ModelOf[q]]
        OBVIOUS
      <3> DEFINE ph == IF r = None THEN "enqueue" ELSE "check"
      <3>2. request' = [request EXCEPT ![q] = [@ EXCEPT !.ref = r, !.phase = ph]]
        BY <2>3, <3>1 DEF HLookup
      <3>3. request[q].phase = "new" /\ ph \in {"enqueue", "check"}
        BY <2>3 DEF HLookup
      <3> HIDE DEF ph
      <3>4. /\ request'[q].phase = ph /\ request'[q].ctxDone = request[q].ctxDone
            /\ \A s \in Requests : s # q => request'[s] = request[s]
        BY <3>2 DEF TypeInv, RequestInv, RequestType, Request
      <3>5. AnswerOf(q)' = AnswerOf(q)
        BY <3>3, <3>4 DEF AnswerOf
      <3> QED BY <3>4, <3>5, SameRequest
    <2> QED BY <2>1, <2>2, <2>3 DEF CDecrement, PTop, vars
  <1> QED BY <1>1, <1>2, <1>3, Unseen DEF Queue

----------------------------------------------------------------------------
(* The steps of the pool.  A step of the pool does one thing; what it does *)
(* not name is the same after it.                                          *)

LEMMA Leaves ==
  ASSUME TypeInv, UseInv, Sound, Sound', NEW q \in Requests, HFinish(q) \/ HCancel(q)
  PROVE  Pool!Leave(q) \/ UNCHANGED Pool!pool
  <1>1. UNCHANGED <<loaded, pendingReqCh, p>>
    BY DEF HFinish, HCancel, channels
  <1>2. /\ \A s \in Requests : s # q => request'[s] = request[s]
        /\ request'[q].ctxDone = TRUE
        /\ request'[q].reply = request[q].reply /\ request'[q].ref = request[q].ref
        /\ \/ request'[q].phase = request[q].phase
           \/ request[q].phase = "waiting" /\ request'[q].phase = "done"
    BY ZenonT(60) DEF HFinish, HCancel, TypeInv, RequestInv, RequestType, Request
  <1>3. \A s \in Requests : AnswerOf(s)' = AnswerOf(s)
    <2>1. AnswerOf(q)' = AnswerOf(q)
      <3>1. request[q].phase \in {"new", "check", "use", "enqueue", "waiting", "done"}
        BY DEF TypeInv, RequestInv, RequestType, Request
      <3> QED BY <1>2, <3>1, SameAnswer DEF Queued
    <2> QED BY <1>2, <2>1, SameRequest
  <1>4. Answer' = Answer
    BY <1>3, SameAnswers
  <1>5. Queue' = Queue
    BY <1>1 DEF Queue, InWork
  <1>6. CASE request[q].ctxDone
    <2>1. request[q].ctxDone = TRUE
      BY <1>6 DEF TypeInv, RequestInv, RequestType, Request
    <2>2. \A s \in Requests : request'[s].ctxDone = request[s].ctxDone
      BY <1>2, <2>1
    <2> QED BY <1>1, <1>3, <1>5, <2>2, Unseen
  <1>7. CASE ~request[q].ctxDone
    <2>1. q \notin Left /\ Left' = Left \cup {q}
      BY <1>2, <1>7 DEF Left
    <2>2. Sound' = Sound
      BY DEF Sound, NoStaleHandout
    <2> QED BY <1>1, <1>4, <1>5, <2>1, <2>2 DEF Pool!Leave
  <1> QED BY <1>6, <1>7

\* While the promise stands, a runner that is handed out is in the map.
LEMMA GivenIsLoaded ==
  ASSUME TypeInv, UseInv, Sound, Sound', NEW q \in Requests, NEW r \in Runners,
         Handout(q, r), request[q].watch = "none", ModelOf[r] = ModelOf[q]
  PROVE  loaded[ModelOf[q]] = r /\ r # None
  <1>1. runner[r].refCount = Cardinality(Armed(r)) + Charged(r)
    BY DEF Sound, UseInv, ChargeInv
  <1>2. /\ Cardinality(Armed(r)) \in Nat /\ Charged(r) \in {0, 1}
        /\ Cardinality(Armed(r)) + Charged(r) + 1 < RefMod
    BY ChargeBound
  <1>3. runner[r].refCount \in Nat /\ runner[r].refCount + 1 < RefMod /\ RefMod \in Nat
    BY <1>1, <1>2, RefCountRange
  <1>4. (runner[r].refCount + 1) % RefMod = runner[r].refCount + 1
    BY <1>3
  <1>5. runner'[r].refCount # 0 /\ runner'[r].valid = runner[r].valid
    BY <1>3, <1>4 DEF Handout
  <1>6. runner[r].valid
    BY <1>5 DEF Sound, NoStaleHandout
  <1>7. r \in LoadedRunners
    BY <1>6 DEF UseInv, ValidInv
  <1> QED BY <1>7, Constants DEF LoadedRunners, Runners

LEMMA HandoutAnswers ==
  ASSUME TypeInv, NEW q \in Requests, NEW r \in Runners, Handout(q, r)
  PROVE  Pool!Answers(q, r) /\ Left' = Left
  <1>1. AnswerOf(q)' = r
    BY DEF Handout, AnswerOf
  <1>2. ASSUME NEW s \in Requests, s # q
        PROVE  AnswerOf(s)' = AnswerOf(s)
    BY <1>2, SameRequest DEF Handout
  <1>3. \A s \in Requests : request'[s].ctxDone = request[s].ctxDone
    BY DEF Handout
  <1> QED BY <1>1, <1>2, <1>3, OneAnswer DEF Left

LEMMA Grants ==
  ASSUME TypeInv, UseInv, Sound, Sound', NEW q \in Requests, HUse(q) \/ PUse
  PROVE  \E s \in Requests : Pool!Grant(s)
  <1>0. Sound' = Sound
    BY DEF Sound, NoStaleHandout
  <1>1. CASE HUse(q)
    <2>1. PICK r \in Runners : r = request[q].ref
      BY <1>1 DEF HUse, TypeInv, RequestInv, RefsSet
    <2>2. Handout(q, r)
      BY <1>1, <2>1, UseIsHandout DEF HUse
    <2>3. request[q].watch = "none" /\ ModelOf[r] = ModelOf[q] /\ request[q].phase = "use"
      BY <1>1, <2>1 DEF HUse, UseInv, AnswerInv, Early, KnownInv, Known
    <2>4. loaded[ModelOf[q]] = r /\ r # None
      BY <2>2, <2>3, GivenIsLoaded
    <2>5. Answer[q] = "new"
      BY <2>3 DEF Answer, AnswerOf
    <2>6. Pool!Answers(q, r) /\ Left' = Left
      BY <2>2, HandoutAnswers
    <2>7. Queue' = Queue /\ UNCHANGED loaded
      BY <1>1 DEF HUse, Queue, InWork, channels
    <2> QED BY <1>0, <2>4, <2>5, <2>6, <2>7 DEF Pool!Grant
  <1>2. CASE PUse
    <2>1. PICK s \in Requests, r \in Runners : s = p.req /\ r = p.target
      BY <1>2 DEF PUse, TypeInv, PInv, PSet
    <2>2. Handout(s, r)
      BY <1>2, <2>1, UseIsHandout DEF PUse
    <2>3. request[s].watch = "none" /\ ModelOf[r] = ModelOf[s]
      BY <1>2, <2>1 DEF PUse, UseInv, TurnInv, WithP, PBusy, Unanswered, KnownInv, Known
    <2>4. loaded[ModelOf[s]] = r /\ r # None
      BY <2>2, <2>3, GivenIsLoaded
    <2>5. Pool!Answers(s, r) /\ Left' = Left
      BY <2>2, HandoutAnswers
    <2>6. Pool!First(s) /\ Queue' = Tail(Queue) /\ UNCHANGED loaded
      <3>1. Pool!First(s) /\ Tail(Queue) = pendingReqCh
        BY <1>2, <2>1, FirstInWork DEF PUse, PBusy
      <3>2. p'.pc = "idle" /\ UNCHANGED <<loaded, pendingReqCh>>
        BY <1>2 DEF PUse, TypeInv, PInv, PType, channels
      <3>3. Queue' = pendingReqCh
        BY <3>2, QueueTypes, ConcatEmptySeq DEF Queue, InWork
      <3> QED BY <3>1, <3>2, <3>3
    <2> QED BY <1>0, <2>4, <2>5, <2>6 DEF Pool!Grant
  <1> QED BY <1>1, <1>2

LEMMA Asks ==
  ASSUME TypeInv, UseInv, Sound, Sound', NEW q \in Requests, HEnqueue(q)
  PROVE  Pool!Ask(q)
  <1> DEFINE a == IF Len(pendingReqCh) < MaxQueue THEN "none" ELSE "err"
  <1>1. request' = [request EXCEPT ![q] = [@ EXCEPT !.phase = "waiting", !.reply = a]]
    BY DEF HEnqueue
  <1>2. \/ a = "none" /\ Len(pendingReqCh) < MaxQueue
        \/ a = "err" /\ ~(Len(pendingReqCh) < MaxQueue)
    OBVIOUS
  <1> HIDE DEF a
  <1>3. /\ request'[q].phase = "waiting" /\ request'[q].reply = a
        /\ request'[q].ctxDone = request[q].ctxDone
        /\ \A s \in Requests : s # q => request'[s] = request[s]
    BY <1>1 DEF TypeInv, RequestInv, RequestType, Request
  <1>4. Pool!Answers(q, IF a = "none" THEN "waiting" ELSE "err")
    <2>1. AnswerOf(q)' = IF a = "none" THEN "waiting" ELSE "err"
      BY <1>2, <1>3 DEF AnswerOf
    <2>2. ASSUME NEW s \in Requests, s # q
          PROVE  AnswerOf(s)' = AnswerOf(s)
      BY <1>3, <2>2, SameRequest
    <2> QED BY <2>1, <2>2, OneAnswer
  <1>5. Left' = Left
    BY <1>3 DEF Left
  <1>6. Answer[q] = "new"
    BY DEF HEnqueue, Answer, AnswerOf
  <1>7. Sound' = Sound
    BY DEF Sound, NoStaleHandout
  <1>8. UNCHANGED loaded /\ InWork' = InWork
    BY DEF HEnqueue, InWork
  <1>9. /\ Len(Queue) = Len(InWork) + Len(pendingReqCh) /\ Len(InWork) \in {0, 1}
        /\ Len(pendingReqCh) \in Nat /\ Len(pendingReqCh) <= MaxQueue /\ MaxQueue \in Nat
    BY QueueTypes, Constants, LenProperties DEF TypeInv, PendingType
  <1>10. CASE a = "none"
    <2>0. Len(pendingReqCh) < MaxQueue
      BY <1>2, <1>10
    <2>1. pendingReqCh' = Append(pendingReqCh, q) /\ Len(Queue) <= MaxQueue
      <3>1. pendingReqCh' = Append(pendingReqCh, q)
        BY <2>0 DEF HEnqueue
      <3>2. \A i \in {0, 1}, j \in Nat, n \in Nat : j < n => i + j <= n
        OBVIOUS
      <3>3. Len(Queue) <= MaxQueue
        BY <1>9, <2>0, <3>2
      <3> QED BY <3>1, <3>3
    <2>2. Queue' = Append(Queue, q)
      <3>1. InWork \o Append(pendingReqCh, q) = Append(InWork \o pendingReqCh, q)
        BY QueueTypes
      <3> QED BY <1>8, <2>1, <3>1 DEF Queue
    <2> QED BY <1>4, <1>5, <1>6, <1>7, <1>8, <1>10, <2>1, <2>2 DEF Pool!Ask
  <1>11. CASE a = "err"
    <2>1. pendingReqCh' = pendingReqCh /\ Len(Queue) >= MaxQueue
      BY <1>2, <1>9, <1>11 DEF HEnqueue
    <2>2. Queue' = Queue
      BY <1>8, <2>1 DEF Queue
    <2> QED BY <1>4, <1>5, <1>6, <1>7, <1>8, <1>11, <2>1, <2>2 DEF Pool!Ask
  <1> QED BY <1>2, <1>10, <1>11

\* P receives a request: nothing the pool sees, unless the request is over.
LEMMA Skips ==
  ASSUME TypeInv, UseInv, Sound, Sound', PRecv
  PROVE  (\E q \in Requests : Pool!Skip(q)) \/ UNCHANGED Pool!pool
  <1>1. pendingReqCh \in Seq(Requests) /\ pendingReqCh # <<>>
    BY DEF PRecv, TypeInv, PendingType
  <1>2. PICK q \in Requests : q = Head(pendingReqCh)
    BY <1>1, HeadTailProperties
  <1>3. /\ UNCHANGED <<request, loaded>> /\ pendingReqCh' = Tail(pendingReqCh)
        /\ Queue = pendingReqCh
    BY <1>1, ConcatEmptySeq DEF PRecv, Queue, InWork
  <1>4. \A s \in Requests : AnswerOf(s)' = AnswerOf(s) /\ request'[s].ctxDone = request[s].ctxDone
    BY <1>3, SameRequest
  <1>5. CASE request[q].ctxDone
    <2>1. p' = p
      BY <1>2, <1>5 DEF PRecv
    <2>2. Queue' = Tail(Queue)
      <3>1. Tail(pendingReqCh) \in Seq(Requests)
        BY <1>1, HeadTailProperties
      <3>2. InWork' = <<>>
        BY <2>1 DEF PRecv, InWork
      <3> QED BY <1>3, <3>1, <3>2, ConcatEmptySeq DEF Queue
    <2>3. Pool!First(q) /\ q \in Left
      BY <1>1, <1>2, <1>3, <1>5 DEF Pool!First, Left
    <2>4. Answer' = Answer /\ Left' = Left
      BY <1>4, SameAnswers DEF Left
    <2>5. Sound' = Sound
      BY DEF Sound, NoStaleHandout
    <2> QED BY <1>3, <2>2, <2>3, <2>4, <2>5 DEF Pool!Skip
  <1>6. CASE ~request[q].ctxDone
    <2>1. p'.pc = "top" /\ p'.req = q
      BY <1>2, <1>6 DEF PRecv, TypeInv, PInv, PType
    <2>2. InWork' = <<q>>
      BY <2>1 DEF InWork
    <2>3. <<q>> \o Tail(pendingReqCh) = pendingReqCh
      BY <1>1, <1>2
    <2>4. Queue' = Queue
      BY <1>3, <2>2, <2>3 DEF Queue
    <2> QED BY <1>3, <1>4, <2>4, Unseen
  <1> QED BY <1>5, <1>6

LEMMA Refuses ==
  ASSUME TypeInv, UseInv, Sound, Sound', PCreateFails \/ PLoadFails
  PROVE  \E q \in Requests : Pool!Refuse(q)
  <1>1. PBusy
    BY DEF PCreateFails, PLoadFails, CloseActive, PBusy
  <1>2. PICK q \in Requests : q = p.req
    BY <1>1 DEF PBusy, TypeInv, PInv, PSet
  <1>3. Unanswered(q)
    BY <1>1, <1>2 DEF UseInv, TurnInv, WithP
  <1>4. request' = [request EXCEPT ![q].reply = "err"]
    BY <1>2 DEF PCreateFails, PLoadFails, Reply
  <1>5. /\ request'[q].phase = "waiting" /\ request'[q].reply = "err"
        /\ request'[q].ctxDone = request[q].ctxDone
        /\ \A s \in Requests : s # q => request'[s] = request[s]
    BY <1>3, <1>4 DEF TypeInv, RequestInv, RequestType, Request, Unanswered
  <1>6. Pool!Answers(q, "err") /\ Left' = Left
    <2>1. AnswerOf(q)' = "err"
      BY <1>5 DEF AnswerOf
    <2>2. ASSUME NEW s \in Requests, s # q
          PROVE  AnswerOf(s)' = AnswerOf(s)
      BY <1>5, <2>2, SameRequest
    <2> QED BY <1>5, <2>1, <2>2, OneAnswer DEF Left
  <1>7. p'.pc = "idle" /\ UNCHANGED <<loaded, pendingReqCh>>
    BY DEF PCreateFails, PLoadFails, CloseActive, TypeInv, PInv, PType, channels
  <1>8. Queue' = Tail(Queue) /\ Pool!First(q)
    <2>1. Queue' = pendingReqCh
      BY <1>7, QueueTypes, ConcatEmptySeq DEF Queue, InWork
    <2> QED BY <1>1, <1>2, <2>1, FirstInWork
  <1>9. Sound' = Sound
    BY DEF Sound, NoStaleHandout
  <1> QED BY <1>6, <1>7, <1>8, <1>9 DEF Pool!Refuse

LEMMA Loads ==
  ASSUME TypeInv, LoadInv, UseInv, Sound, Sound', PInstall
  PROVE  \E q \in Requests : Pool!Load(q)
  <1>1. PBusy
    BY DEF PInstall, PBusy
  <1>2. PICK q \in Requests : q = p.req
    BY <1>1 DEF PBusy, TypeInv, PInv, PSet
  <1>3. loaded[ModelOf[q]] = None /\ loaded' = [loaded EXCEPT ![ModelOf[q]] = q]
    BY <1>2 DEF PInstall, LoadInv, SlotInv, Attempting
  <1>4. Pool!Cardinality(Pool!Filled) < MaxRunners
    BY DEF PInstall, LoadInv, CountInv, Attempting, LoadedModels, Pool!Filled, Pool!Cardinality, Cardinality
  <1>5. Answer' = Answer /\ Left' = Left
    <2>1. \A s \in Requests : AnswerOf(s)' = AnswerOf(s)
      BY SameRequest DEF PInstall
    <2> QED BY <2>1, SameAnswers DEF PInstall, Left
  <1>6. p'.pc = "idle" /\ UNCHANGED pendingReqCh
    BY DEF PInstall, TypeInv, PInv, PType, channels
  <1>7. Queue' = Tail(Queue) /\ Pool!First(q)
    <2>1. Queue' = pendingReqCh
      BY <1>6, QueueTypes, ConcatEmptySeq DEF Queue, InWork
    <2> QED BY <1>1, <1>2, <2>1, FirstInWork
  <1>8. Sound' = Sound
    BY DEF Sound, NoStaleHandout
  <1> QED BY <1>3, <1>4, <1>5, <1>7, <1>8 DEF Pool!Load

LEMMA LoadEnds ==
  ASSUME TypeInv, UseInv, Sound, Sound', NEW q \in Requests, LoaderReady(q) \/ LoaderFails(q)
  PROVE  Pool!Loaded(q)
  <1>1. Unanswered(q) /\ loaded[ModelOf[q]] = q
    BY DEF LoaderReady, LoaderFails, UseInv, LoaderInv, LoadedRunners, Runners
  <1>2. Answer[q] = "waiting"
    BY <1>1 DEF Unanswered, Answer, AnswerOf
  <1>3. /\ request'[q].phase = request[q].phase /\ request'[q].ctxDone = request[q].ctxDone
        /\ \/ request'[q].reply = "ok" /\ request'[q].ref = q
           \/ request'[q].reply = "err"
        /\ \A s \in Requests : s # q => request'[s] = request[s]
    BY DEF LoaderReady, LoaderFails, Reply, TypeInv, RequestInv, RequestType, Request
  <1>4. Pool!Answers(q, q) \/ Pool!Answers(q, "err")
    <2>1. AnswerOf(q)' = q \/ AnswerOf(q)' = "err"
      BY <1>1, <1>3 DEF AnswerOf, Unanswered
    <2>2. ASSUME NEW s \in Requests, s # q
          PROVE  AnswerOf(s)' = AnswerOf(s)
      BY <1>3, <2>2, SameRequest
    <2> QED BY <2>1, <2>2, OneAnswer
  <1>5. Left' = Left
    BY <1>3 DEF Left
  <1>6. UNCHANGED loaded /\ Queue' = Queue
    BY DEF LoaderReady, LoaderFails, channels, Queue, InWork
  <1>7. Sound' = Sound
    BY DEF Sound, NoStaleHandout
  <1> QED BY <1>1, <1>2, <1>4, <1>5, <1>6, <1>7 DEF Pool!Loaded

\* A runner without count that is not locked was answered, and no request has it.
LEMMA IdleIsUnused ==
  ASSUME TypeInv, UseInv, LoadingInv, Sound, NEW r \in LoadedRunners,
         runner[r].refCount = 0, runner[r].refMu = "free"
  PROVE  Pool!Unused(r)
  <1>0. r \in Requests /\ {"new", "waiting", "err"} \cap Requests = {}
    BY RunnersAreNoWords DEF LoadedRunners, Runners
  <1>1. \A q \in Requests : request[q].reply = "ok" => request[q].ref \in Requests
    BY DEF UseInv, AnswerInv, KnownInv, Known, Runners
  <1>2. Answer[r] # "waiting"
    <2>1. request[r].reply \in {"ok", "err"}
      BY <1>0 DEF LoadingInv, TypeInv, RequestInv, RequestType, Request
    <2> QED BY <1>0, <1>1, <2>1 DEF Answer, AnswerOf
  <1>3. ASSUME NEW q \in Requests \ Left, Answer[q] = r
        PROVE  FALSE
    <2>1. request[q].reply = "ok" /\ request[q].ref = r
      <3>1. request[q].reply \in {"none", "ok", "err"}
        BY DEF TypeInv, RequestInv, RequestType, Request
      <3> QED BY <1>0, <1>3, <3>1 DEF Answer, AnswerOf
    <2>2. request[q].watch = "armed"
      BY <2>1 DEF Left, UseInv, AnswerInv, TypeInv, RequestInv, RequestType, Request
    <2>3. Cardinality(Armed(r)) + Charged(r) = 0
      BY <1>0 DEF UseInv, ChargeInv, Sound, Runners
    <2>4. IsFiniteSet(Armed(r)) /\ Charged(r) \in {0, 1}
      BY SchedulerAssumption, FS_Subset DEF Armed, Charged, SchedulerAssumption
    <2>5. Cardinality(Armed(r)) = 0
      BY <2>3, <2>4, FS_CardinalityType
    <2>6. Armed(r) = {}
      BY <2>4, <2>5, FS_EmptySet
    <2> QED BY <2>1, <2>2, <2>6 DEF Armed
  <1> QED BY <1>2, <1>3 DEF Pool!Unused

LEMMA Unloads ==
  ASSUME TypeInv, UseInv, LoadingInv, Sound, Sound', CUnload
  PROVE  \E m \in Models : Pool!Unload(m)
  <1>1. PICK r \in Runners : r = c.runner
    BY DEF CUnload, TypeInv, CInv, CSet
  <1>2. /\ loaded[ModelOf[r]] = r /\ r # None /\ ModelOf[r] \in Models
        /\ loaded' = [loaded EXCEPT ![ModelOf[r]] = None]
    BY <1>1, Constants DEF CUnload, Runners
  <1>3. Pool!Unused(r)
    BY <1>1, <1>2, IdleIsUnused DEF CUnload, Idle, LoadedRunners
  <1>4. UNCHANGED <<request, pendingReqCh, p>>
    BY DEF CUnload, channels
  <1>5. Answer' = Answer /\ Left' = Left /\ Queue' = Queue
    <2>1. \A s \in Requests : AnswerOf(s)' = AnswerOf(s)
      BY <1>4, SameRequest
    <2> QED BY <1>4, <2>1, SameAnswers DEF Left, Queue, InWork
  <1>6. Sound' = Sound
    BY DEF Sound, NoStaleHandout
  <1> QED BY <1>2, <1>3, <1>5, <1>6 DEF Pool!Unload

----------------------------------------------------------------------------
(* The refinement.                                                         *)

LEMMA SoundStep ==
  ASSUME Invs, Sound, Sound', [Next]_vars
  PROVE  Pool!Next \/ UNCHANGED Pool!pool
  <1> DEFINE Maps == Pool!Next \/ UNCHANGED Pool!pool
  <1> USE DEF Invs
  <1>1. ASSUME NEW q \in Requests,
               \/ HLookup(q) \/ HCheck(q) \/ HUse(q) \/ HEnqueue(q)
               \/ HFinish(q) \/ HCancel(q) \/ CFinished(q) \/ XRuntimeOOM(q)
        PROVE  Maps
    BY <1>1, LooksUnseen, OutsideUnseen, Grants, Asks, Leaves DEF Pool!Next
  <1>2. ASSUME NEW q \in Requests,
               \/ LoaderReady(q) \/ LoaderFails(q) \/ LoaderExpires(q)
               \/ TimerFires(q) \/ TimerLocks(q) \/ TimerSends(q)
               \/ RetrySends(q) \/ Crash(q)
        PROVE  Maps
    BY <1>2, LoadEnds, OutsideUnseen DEF Pool!Next
  <1>3. ASSUME \/ PIgnoreUnload \/ PCheck \/ PSpace \/ PSum \/ PCreate \/ PPreflight
               \/ PRequiredFull \/ PLoadOOM \/ PLoadPanics \/ PList \/ PScan \/ PExpire
               \/ PSend \/ PWait \/ PEvictAll \/ PEvict \/ PEvictSend \/ PEvictWait \/ PStop
        PROVE  Maps
    BY <1>3, PendingUnseen
  <1>4. ASSUME PRecv \/ PUse \/ PCreateFails \/ PLoadFails \/ PInstall \/ CUnload
        PROVE  Maps
    <2>1. \A q \in Requests : HUse(q) \/ PUse => \E s \in Requests : Pool!Grant(s)
      BY Grants
    <2>2. PUse => Requests # {}
      BY DEF PUse, TypeInv, PInv, PSet
    <2> QED BY <1>4, <2>1, <2>2, Skips, Refuses, Loads, Unloads DEF Pool!Next
  <1>5. ASSUME \/ \E m \in Models : XExpireModel(m)
               \/ XMark \/ XSend \/ ShutdownCancels \/ UnloadAllRunners \/ Terminated
               \/ CExpired \/ CSend \/ CBusy \/ CDuplicateOrOrphan \/ CRecovered
               \/ CNotify \/ CStop \/ CDecrement \/ PTop \/ UNCHANGED vars
        PROVE  Maps
    BY <1>5, OutsideUnseen, LooksUnseen
  <1> QED BY <1>1, <1>2, <1>3, <1>4, <1>5 DEF Next, Runners

\* Every step maps to a step of the pool or to none, also where nothing is promised.
LEMMA NextMaps ==
  ASSUME Invs, [Next]_vars
  PROVE  Pool!Next \/ UNCHANGED Pool!pool
  <1>1. CASE Sound /\ Sound'
    BY <1>1, SoundStep
  <1>2. CASE ~Sound
    <2>1. ~Sound'
      BY <1>2, SoundFades DEF Invs
    <2>2. Sound' = FALSE
      BY <2>1 DEF Sound, NoStaleHandout
    <2> QED BY <1>2, <2>2 DEF Pool!Next, Pool!Broken
  <1>3. CASE Sound /\ ~Sound'
    <2>1. UNCHANGED loaded
      BY <1>3, NextLoads, MovesAreSound DEF Invs
    <2>2. Sound' = FALSE
      BY <1>3 DEF Sound, NoStaleHandout
    <2> QED BY <1>3, <2>1, <2>2 DEF Pool!Next, Pool!Breaks
  <1> QED BY <1>1, <1>2, <1>3

LEMMA InitMaps == Init => Pool!Init
  <1> SUFFICES ASSUME Init PROVE Pool!Init
    OBVIOUS
  <1>1. Answer = [q \in Requests |-> "new"]
    BY DEF Init, Answer, AnswerOf
  <1>2. Left = {}
    BY DEF Init, Left
  <1>3. Queue = <<>>
    BY DEF Init, Queue, InWork
  <1>4. Sound = TRUE
    BY DEF Init, Sound, NoStaleHandout
  <1>5. loaded = [m \in Models |-> None]
    BY DEF Init
  <1> QED BY <1>1, <1>2, <1>3, <1>4, <1>5 DEF Pool!Init

LEMMA InvsHold == Spec => []Invs
  <1>1. Init => LoadingInv
    BY Constants DEF Init, LoadingInv, LoadedRunners, Runners
  <1>2. TypeInv /\ UseInv /\ GoneInv /\ LoadingInv /\ [Next]_vars => LoadingInv'
    BY NextLoading
  <1>3. TriggerInv => GoneInv
    BY DEF TriggerInv
  <1>4. TypeInv /\ LoadInv /\ UseInv /\ GoneInv /\ LoadingInv => Invs
    BY DEF Invs
  <1> QED
    BY <1>1, <1>2, <1>3, <1>4, InitLoad, NextLoad, UseInvariant, WakeInvariant, PTL DEF Spec

\* The scheduler implements the pool, whatever the number of models and requests and the
\* limits: requests that need a load are served in the order in which they were queued
\* (getRunner and processPending), each is answered once, with a runner that is loaded at
\* that moment, and no runner leaves the pool while it loads or is in use.
THEOREM SchedulerIsPool == Spec => ImplementsPool
  <1>1. Init => Pool!Init
    BY InitMaps
  <1>2. Invs /\ [Next]_vars => [Pool!Next]_(Pool!pool)
    BY NextMaps
  <1> QED BY <1>1, <1>2, InvsHold, PTL DEF Spec, ImplementsPool, Pool!Spec
=============================================================================
