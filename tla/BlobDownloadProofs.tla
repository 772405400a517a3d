------------------------- MODULE BlobDownloadProofs -------------------------
(* Theorems about BlobDownload, for all values of its constants.           *)
EXTENDS BlobDownload, DataProofs

----------------------------------------------------------------------------
(* The inductive invariant.                                                *)

Waiting(d)   == {p \in Pulls : pull[p].pc = "wait" /\ pull[p].dl = d}
Preparing(p) == pull[p].pc \in {"prepare", "head", "create"}
Running(d)   == dl[d].pc \in {"start", "url", "fetch"}
Found        == {i \in Parts : meta[i] # Absent}

PullType  == pull \in [Pulls -> Pull]
DlType    == dl \in [Downloads -> Download]
PartType  == part \in [Downloads -> [Parts -> Part]]
FilesType == /\ data \in [Parts -> 0 .. PartSize]
             /\ meta \in [Parts -> {Absent, Torn} \cup 0 .. PartSize]
             /\ blob \in {"absent", "good", "bad"}
OtherType == /\ entry \in Downloads \cup {None}
             /\ faults \in 0 .. MaxFaults /\ crashes \in 0 .. MaxCrashes

\* A pull has a download of its own only when it created one; who prepares it finds it as
\* it left it.
PullOwn(p) ==
    /\ pull[p].pc \in {"new", "load"} =>
          dl[p].pc = "none" /\ dl[p].count = 0 /\ dl[p].next = 0 /\ dl[p].parts = {}
    /\ Preparing(p) => /\ pull[p].dl = p
                       /\ dl[p].pc = "prepare" /\ dl[p].count = 0
                       /\ pull[p].pc \in {"prepare", "head"} => dl[p].next = 0 /\ dl[p].parts = {}
                       /\ pull[p].pc = "create" => /\ dl[p].next < NumParts
                                                   /\ dl[p].parts = 0 .. (dl[p].next - 1)
    /\ pull[p].pc \in {"acquire", "wait"} => pull[p].dl \in Downloads
PullInv == \A p \in Pulls : PullOwn(p)

\* references has a count for each pull that waits.
RefsExact == \A d \in Downloads : dl[d].refs = Cardinality(Waiting(d))

\* The goroutines of parts exist while Run waits for them, and an attempt is left
\* to each that has not failed.
PartOwn(d, i) ==
    /\ part[d][i].comp + part[d][i].got <= PartSize
    /\ part[d][i].tries = MaxRetries => part[d][i].st = "fail"
    /\ part[d][i].st \in {"ok", "done"} => part[d][i].comp = PartSize /\ part[d][i].got = 0
    /\ part[d][i].st \in {"fetch", "ok", "stop", "stall", "eof"} =>
          dl[d].pc = "fetch" /\ i \in dl[d].parts
    /\ dl[d].pc \in {"none", "prepare"} => part[d][i] = NewPart
    /\ dl[d].pc \in {"start", "url"} => part[d][i].st = "idle" /\ part[d][i].tries = 0
PartInv == \A d \in Downloads : \A i \in Parts : PartOwn(d, i)

\* The plan of a download that runs is the part files there are.  No part file
\* records less than its download would save, nor, if the plan is whole, more than the
\* partial file has.
PlanPull(p) ==
    /\ pull[p].pc = "head" => Found = {}
    /\ pull[p].pc = "create" =>
          \A i \in Parts : meta[i] = IF i < dl[p].next THEN 0 ELSE Absent
PlanOwn(d) ==
    /\ Running(d) => /\ dl[d].parts = Found /\ Found # {}
                     /\ \A i \in Found : meta[i] <= part[d][i].comp
    /\ dl[d].pc = "remove" => dl[d].parts # {}
    /\ dl[d].pc = "remove" /\ dl[d].next > 0 => meta[0] = Absent
    /\ dl[d].pc \in {"url", "fetch"} => dl[d].next = 0
PlanInv  == (\A p \in Pulls : PlanPull(p)) /\ (\A d \in Downloads : PlanOwn(d))
WholeInv == Found = Parts => \A i \in Parts : meta[i] <= data[i]

IInv == /\ TypeOK /\ OneWriter /\ PullInv /\ RefsExact /\ PartInv
        /\ PlanInv /\ WholeInv /\ NoHoles /\ AbandonedIsCancelled /\ ProgressExact

----------------------------------------------------------------------------
(* Types.                                                                  *)

LEMMA Constants ==
    /\ None \notin Pulls /\ IsFiniteSet(Pulls)
    /\ NumParts \in Nat /\ NumParts > 0 /\ PartSize \in Nat /\ PartSize > 0
    /\ MaxRetries \in Nat /\ MaxRetries > 0 /\ MaxFaults \in Nat /\ MaxCrashes \in Nat
    /\ 0 \in Parts
  BY DownloadAssumption DEF DownloadAssumption, Parts

LEMMA PartsFinite ==
  ASSUME NEW S \in SUBSET Parts
  PROVE  /\ IsFiniteSet(S) /\ Cardinality(S) \in 0 .. NumParts
         /\ Cardinality(S) = NumParts <=> S = Parts
         /\ S # {} => Cardinality(S) > 0
  <1>1. IsFiniteSet(Parts) /\ Cardinality(Parts) = NumParts
    BY Constants, FS_Interval DEF Parts
  <1> QED BY <1>1, FS_Subset, FS_CardinalityType, FS_EmptySet

\* A step that changes one call, download or part in place.
LEMMA PullUpdate ==
  ASSUME PullType, NEW p, NEW v \in Pull, pull' = [pull EXCEPT ![p] = v]
  PROVE  PullType'
  BY DEF PullType

LEMMA DlUpdate ==
  ASSUME DlType, NEW d, NEW v \in Download, dl' = [dl EXCEPT ![d] = v]
  PROVE  DlType'
  BY DEF DlType

LEMMA PartUpdate ==
  ASSUME PartType, NEW d \in Downloads, NEW i \in Parts, NEW v \in Part,
         part' = [part EXCEPT ![d][i] = v]
  PROVE  PartType'
  BY DEF PartType

LEMMA TypeSplit ==
    /\ TypeOK <=> PullType /\ DlType /\ PartType /\ FilesType /\ OtherType
    /\ PullType' /\ DlType' /\ PartType' /\ FilesType' /\ OtherType' => TypeOK'
  BY DEF TypeOK, PullType, DlType, PartType, FilesType, OtherType

LEMMA FaultType == OtherType /\ Fault => faults' \in 0 .. MaxFaults /\ faults' = faults + 1
  BY Constants DEF OtherType, Fault

\* The fields, for the steps that need no more of the types.
LEMMA Fields ==
  ASSUME TypeOK
  PROVE  /\ \A p \in Pulls : pull[p] \in Pull /\ pull[p].dl \in Downloads \cup {None}
         /\ \A d \in Downloads :
               /\ dl[d] \in Download /\ dl[d].parts \in SUBSET Parts
               /\ dl[d].next \in 0 .. NumParts /\ dl[d].count \in Int /\ dl[d].refs \in Int
               /\ \A i \in Parts : part[d][i] \in Part /\ part[d][i].comp \in 0 .. PartSize
                                   /\ part[d][i].got \in 0 .. PartSize
                                   /\ part[d][i].tries \in 0 .. MaxRetries
         /\ \A i \in Parts : /\ data[i] \in 0 .. PartSize
                             /\ meta[i] \in {Absent, Torn} \cup 0 .. PartSize
  BY DEF TypeOK, Pull, Download, Part

----------------------------------------------------------------------------
(* Parts of the invariant that a step leaves alone.                        *)

Fetching(d) == dl[d].pc \in {"start", "url", "fetch", "remove"}
Asks(p)     == pull[p].pc \in {"acquire", "wait"}

LEMMA Frame ==
    /\ PullType /\ UNCHANGED pull => PullType'
    /\ DlType /\ UNCHANGED dl => DlType'
    /\ PartType /\ UNCHANGED part => PartType'
    /\ FilesType /\ UNCHANGED files => FilesType'
    /\ OtherType /\ UNCHANGED <<entry, faults, crashes>> => OtherType'
    /\ OneWriter /\ UNCHANGED <<dl, entry>> => OneWriter'
    /\ PullInv /\ UNCHANGED <<pull, dl>> => PullInv'
    /\ PartInv /\ UNCHANGED <<dl, part>> => PartInv'
    /\ WholeInv /\ UNCHANGED <<data, meta>> => WholeInv'
    /\ NoHoles /\ UNCHANGED <<dl, part, data>> => NoHoles'
    /\ ProgressExact /\ UNCHANGED <<dl, part, faults>> => ProgressExact'
  BY DEF PullType, DlType, PartType, FilesType, OtherType, OneWriter, Working, PullInv, PullOwn,
         Preparing, PartInv, PartOwn, WholeInv, Found, NoHoles, ProgressExact, files

\* The properties, for one download.
HolesOwn(d) ==
    Fetching(d) /\ dl[d].parts = Parts =>
        \A i \in Parts : /\ part[d][i].comp + part[d][i].got <= data[i]
                         /\ dl[d].pc = "remove" => data[i] = PartSize
Has(d) == [i \in Parts |-> part[d][i].comp + part[d][i].got]
Sum(d) == Total(Has(d), dl[d].parts)
ProgressOwn(d)  == Fetching(d) => dl[d].count \in Sum(d) .. (Sum(d) + faults)
AbandonedOwn(d) == Fetching(d) /\ ~Wanted(d) => dl[d].cancelled

LEMMA Own ==
    /\ NoHoles <=> \A d \in Downloads : HolesOwn(d)
    /\ NoHoles' <=> \A d \in Downloads : HolesOwn(d)'
    /\ ProgressExact <=> \A d \in Downloads : ProgressOwn(d)
    /\ ProgressExact' <=> \A d \in Downloads : ProgressOwn(d)'
    /\ AbandonedIsCancelled <=> \A d \in Downloads : AbandonedOwn(d)
    /\ AbandonedIsCancelled' <=> \A d \in Downloads : AbandonedOwn(d)'
  BY DEF NoHoles, HolesOwn, ProgressExact, ProgressOwn, Has, Sum, AbandonedIsCancelled,
         AbandonedOwn, Fetching

\* Only one download is being worked on, and only its creator prepares.
LEMMA Sole ==
  ASSUME IInv, NEW d \in Downloads, Working(d)
  PROVE  /\ entry = d
         /\ \A e \in Downloads : Working(e) => e = d
         /\ \A p \in Pulls : Preparing(p) => p = d
  BY DEF IInv, OneWriter, Working, PullInv, PullOwn, Downloads

\* So a step of its own can disturb nothing but what is about that one.
LEMMA OwnStep ==
  ASSUME IInv, NEW d \in Downloads, Working(d),
         TypeOK', PullInv', RefsExact', WholeInv',
         \A e \in Downloads : e # d => dl'[e] = dl[e] /\ part'[e] = part[e],
         entry' = entry \/ ~Working(d)',
         \A p \in Pulls : Preparing(p)' => Preparing(p),
         PlanPull(d)', PlanOwn(d)', HolesOwn(d)', ProgressOwn(d)', AbandonedOwn(d)',
         \A i \in Parts : PartOwn(d, i)'
  PROVE  IInv'
  <1>1. \A e \in Downloads : e # d => ~Working(e) /\ ~Working(e)'
    BY Sole DEF Working
  <1>2. OneWriter'
    BY <1>1, Sole DEF OneWriter
  <1>3. \A e \in Downloads : e # d => ~Fetching(e)' /\ ~Running(e)'
    BY <1>1 DEF Fetching, Running, Working
  <1>4. NoHoles' /\ ProgressExact' /\ AbandonedIsCancelled'
    BY <1>3, Own DEF HolesOwn, ProgressOwn, AbandonedOwn
  <1>5. PlanInv'
    <2>1. \A e \in Downloads : e # d => PlanOwn(e)'
      BY <1>3 DEF PlanOwn, Fetching, Running
    <2>2. \A p \in Pulls : p # d => ~Preparing(p)'
      BY Sole
    <2>3. \A p \in Pulls : p # d => PlanPull(p)'
      BY <2>2 DEF PlanPull, Preparing
    <2> QED BY <2>1, <2>3 DEF PlanInv, Downloads
  <1>6. PartInv'
    BY DEF PartInv, PartOwn, IInv
  <1> QED BY <1>2, <1>4, <1>5, <1>6 DEF IInv

\* No call begins or ends to wait.
LEMMA RefsFrame ==
  ASSUME RefsExact,
         \A d \in Downloads : dl'[d].refs = dl[d].refs,
         \A p \in Pulls : /\ pull'[p].pc = "wait" <=> pull[p].pc = "wait"
                          /\ pull[p].pc = "wait" => pull'[p].dl = pull[p].dl
  PROVE  RefsExact'
  <1>1. \A d \in Downloads : Waiting(d)' = Waiting(d)
    BY DEF Waiting
  <1> QED BY <1>1 DEF RefsExact

\* Nobody stops asking for a download, and none begins to fetch.
LEMMA WantedFrame ==
  ASSUME AbandonedIsCancelled,
         \A d \in Downloads : Fetching(d)' => Fetching(d) /\ dl'[d].cancelled = dl[d].cancelled,
         \A p \in Pulls : Asks(p) => Asks(p)' /\ pull'[p].dl = pull[p].dl
  PROVE  AbandonedIsCancelled'
  BY DEF AbandonedIsCancelled, Wanted, Fetching, Asks

\* A call moves on, and what it prepares or asks for is left alone.
LEMMA MoveOwn ==
  ASSUME TypeOK, PullInv, PlanInv, NEW p \in Pulls, NEW v, pull' = [pull EXCEPT ![p] = v],
         v.pc \notin {"new", "load", "prepare", "head", "create", "acquire", "wait"},
         UNCHANGED <<dl, part, meta>>
  PROVE  PullInv' /\ PlanInv'
  <1>1. \A q \in Pulls : pull'[q] = IF q = p THEN v ELSE pull[q]
    BY DEF TypeOK
  <1>2. PullInv'
    BY <1>1 DEF PullInv, PullOwn, Preparing
  <1>3. PlanInv'
    BY <1>1 DEF PlanInv, PlanPull, PlanOwn, Found, Running
  <1> QED BY <1>2, <1>3

----------------------------------------------------------------------------
(* The steps of a call.                                                    *)

LEMMA VerifyKeeps ==
  ASSUME IInv, NEW p \in Pulls, Verify(p) \/ WriteManifest(p)
  PROVE  IInv'
  <1> DEFINE v == pull'[p]
  <1>1. /\ v \in Pull /\ v.dl = pull[p].dl
        /\ v.pc \in {"manifest", "failed", "done"} /\ pull[p].pc \in {"verify", "manifest"}
        /\ pull' = [pull EXCEPT ![p] = v]
    <2>1. CASE Verify(p)
      BY <2>1 DEF Verify, IInv, TypeOK, Pull
    <2>2. CASE WriteManifest(p)
      BY <2>2 DEF WriteManifest, IInv, TypeOK, Pull
    <2> QED BY <2>1, <2>2
  <1>2. UNCHANGED <<dl, part, entry, data, meta, faults, crashes>> /\ blob' \in {blob, "absent"}
    BY DEF Verify, WriteManifest, files
  <1> HIDE DEF v
  <1>3. \A q \in Pulls : pull'[q] = IF q = p THEN v ELSE pull[q]
    BY <1>1 DEF IInv, TypeOK
  <1>4. TypeOK'
    <2>1. FilesType'
      BY <1>2 DEF IInv, TypeOK, FilesType
    <2> QED BY <1>1, <1>2, <2>1, TypeSplit, Frame, PullUpdate DEF IInv
  <1>5. RefsExact' /\ AbandonedIsCancelled'
    BY <1>1, <1>2, <1>3, RefsFrame, WantedFrame DEF IInv, Fetching, Asks
  <1>6. PullInv' /\ PlanInv'
    BY <1>1, <1>2, MoveOwn DEF IInv
  <1> QED BY <1>2, <1>4, <1>5, <1>6, Frame DEF IInv

LEMMA LeaveKeeps ==
  ASSUME IInv, NEW p \in Pulls, Leave(p)
  PROVE  IInv'
  <1> DEFINE v == [pull[p] EXCEPT !.left = TRUE]
  <1>1. v \in Pull /\ v.pc = pull[p].pc /\ v.dl = pull[p].dl /\ pull' = [pull EXCEPT ![p] = v]
    BY DEF Leave, IInv, TypeOK, Pull
  <1>2. UNCHANGED <<dl, part, entry, data, meta, blob, faults, crashes>>
    BY DEF Leave, files
  <1> HIDE DEF v
  <1>3. \A q \in Pulls : pull'[q].pc = pull[q].pc /\ pull'[q].dl = pull[q].dl
    BY <1>1 DEF IInv, TypeOK
  <1>4. TypeOK'
    BY <1>1, <1>2, TypeSplit, Frame, PullUpdate DEF IInv, files
  <1>5. RefsExact' /\ AbandonedIsCancelled'
    BY <1>2, <1>3, RefsFrame, WantedFrame DEF IInv, Fetching, Asks
  <1>6. PullInv'
    BY <1>2, <1>3 DEF IInv, PullInv, PullOwn, Preparing
  <1>7. PlanInv'
    BY <1>2, <1>3 DEF IInv, PlanInv, PlanPull, PlanOwn, Found, Running
  <1> QED BY <1>2, <1>4, <1>5, <1>6, <1>7, Frame DEF IInv

LEMMA StatKeeps ==
  ASSUME IInv, NEW p \in Pulls, Stat(p)
  PROVE  IInv'
  <1> DEFINE v == pull'[p]
  <1>1. /\ v \in Pull /\ v.dl = pull[p].dl
        /\ v.pc \in {"load", "verify"} /\ pull[p].pc = "new" /\ pull' = [pull EXCEPT ![p] = v]
    BY DEF Stat, IInv, TypeOK, Pull
  <1>2. UNCHANGED <<dl, part, entry, data, meta, blob, faults, crashes>>
    BY DEF Stat, files
  <1> HIDE DEF v
  <1>3. \A q \in Pulls : pull'[q] = IF q = p THEN v ELSE pull[q]
    BY <1>1 DEF IInv, TypeOK
  <1>4. TypeOK'
    BY <1>1, <1>2, TypeSplit, Frame, PullUpdate DEF IInv, files
  <1>5. RefsExact' /\ AbandonedIsCancelled'
    BY <1>1, <1>2, <1>3, RefsFrame, WantedFrame DEF IInv, Fetching, Asks
  <1>6. PullInv'
    BY <1>1, <1>2, <1>3 DEF IInv, PullInv, PullOwn, Preparing
  <1>7. PlanInv'
    BY <1>1, <1>2, <1>3 DEF IInv, PlanInv, PlanPull, PlanOwn, Found, Running
  <1> QED BY <1>2, <1>4, <1>5, <1>6, <1>7, Frame DEF IInv

\* The call that finds no entry has the only download that is being worked on.
LEMMA LoadOrStoreKeeps ==
  ASSUME IInv, NEW p \in Pulls, LoadOrStore(p)
  PROVE  IInv'
  <1>1. CASE entry = None
    <2> DEFINE v == [pull[p] EXCEPT !.pc = "prepare", !.dl = p]
               w == [dl[p] EXCEPT !.pc = "prepare"]
    <2>1. /\ pull[p].pc = "load" /\ pull' = [pull EXCEPT ![p] = v]
          /\ dl' = [dl EXCEPT ![p] = w] /\ entry' = p
          /\ UNCHANGED <<part, data, meta, blob, faults, crashes>>
      BY <1>1, Constants DEF LoadOrStore, files
    <2>2. v \in Pull /\ v.pc = "prepare" /\ v.dl = p
      BY DEF IInv, TypeOK, Pull, Downloads
    <2>3. dl[p].pc = "none" /\ dl[p].count = 0 /\ dl[p].next = 0 /\ dl[p].parts = {}
      BY <2>1 DEF IInv, PullInv, PullOwn
    <2>4. /\ w \in Download /\ w.pc = "prepare" /\ w.count = 0 /\ w.next = 0 /\ w.parts = {}
          /\ w.refs = dl[p].refs /\ dl[p].pc = "none"
      <3>1. dl[p] \in Download
        BY DEF IInv, TypeOK, Downloads
      <3> QED BY <2>3, <3>1 DEF Download
    <2> HIDE DEF v, w
    <2>5. /\ \A q \in Pulls : pull'[q] = IF q = p THEN v ELSE pull[q]
          /\ \A d \in Downloads : dl'[d] = IF d = p THEN w ELSE dl[d]
      BY <2>1 DEF IInv, TypeOK
    <2>6. TypeOK'
      <3>1. OtherType'
        BY <2>1 DEF IInv, TypeOK, OtherType, Downloads
      <3> QED BY <2>1, <2>2, <2>4, <3>1, TypeSplit, Frame, PullUpdate, DlUpdate DEF IInv, files
    <2>7. OneWriter'
      BY <1>1, <2>1, <2>5, Constants DEF IInv, OneWriter, Working, Downloads
    <2>8. PullInv'
      BY <2>1, <2>2, <2>4, <2>5 DEF IInv, PullInv, PullOwn, Preparing, Downloads
    <2>9. RefsExact' /\ AbandonedIsCancelled'
      BY <2>1, <2>2, <2>4, <2>5, RefsFrame, WantedFrame DEF IInv, Fetching, Asks
    <2>10. PartInv'
      BY <2>1, <2>4, <2>5 DEF IInv, PartInv, PartOwn
    <2>11. PlanInv'
      BY <2>1, <2>2, <2>4, <2>5 DEF IInv, PlanInv, PlanPull, PlanOwn, Found, Running, Downloads
    <2>12. WholeInv' /\ NoHoles' /\ ProgressExact'
      BY <2>1, <2>4, <2>5 DEF IInv, WholeInv, Found, NoHoles, ProgressExact
    <2> QED BY <2>6, <2>7, <2>8, <2>9, <2>10, <2>11, <2>12 DEF IInv
  <1>2. CASE entry # None
    <2> DEFINE v == [pull[p] EXCEPT !.pc = "acquire", !.dl = entry]
    <2>1. /\ pull[p].pc = "load" /\ pull' = [pull EXCEPT ![p] = v]
          /\ UNCHANGED <<dl, entry, part, data, meta, blob, faults, crashes>>
      BY <1>2 DEF LoadOrStore, files
    <2>2. v \in Pull /\ v.pc = "acquire" /\ v.dl \in Downloads
      BY <1>2 DEF IInv, TypeOK, Pull
    <2> HIDE DEF v
    <2>3. \A q \in Pulls : pull'[q] = IF q = p THEN v ELSE pull[q]
      BY <2>1 DEF IInv, TypeOK
    <2>4. TypeOK'
      BY <2>1, <2>2, TypeSplit, Frame, PullUpdate DEF IInv, files
    <2>5. RefsExact' /\ AbandonedIsCancelled'
      BY <2>1, <2>2, <2>3, RefsFrame, WantedFrame DEF IInv, Fetching, Asks
    <2>6. PullInv'
      BY <2>1, <2>2, <2>3 DEF IInv, PullInv, PullOwn, Preparing
    <2>7. PlanInv'
      BY <2>1, <2>2, <2>3 DEF IInv, PlanInv, PlanPull, PlanOwn, Found, Running
    <2> QED BY <2>1, <2>4, <2>5, <2>6, <2>7, Frame DEF IInv
  <1> QED BY <1>1, <1>2

LEMMA PrepareHeadKeeps ==
  ASSUME IInv, NEW p \in Pulls, PrepareHead(p)
  PROVE  IInv'
  <1> DEFINE v == [pull[p] EXCEPT !.pc = "create"]
  <1>1. /\ v \in Pull /\ v.dl = pull[p].dl /\ v.pc = "create" /\ pull[p].pc = "head"
        /\ pull' = [pull EXCEPT ![p] = v]
    BY DEF PrepareHead, IInv, TypeOK, Pull
  <1>2. UNCHANGED <<dl, part, entry, data, meta, blob, faults, crashes>>
    BY DEF PrepareHead, files
  <1> HIDE DEF v
  <1>3. \A q \in Pulls : pull'[q] = IF q = p THEN v ELSE pull[q]
    BY <1>1 DEF IInv, TypeOK
  <1>4. TypeOK'
    BY <1>1, <1>2, TypeSplit, Frame, PullUpdate DEF IInv, files
  <1>5. RefsExact' /\ AbandonedIsCancelled'
    BY <1>1, <1>2, <1>3, RefsFrame, WantedFrame DEF IInv, Fetching, Asks
  <1>6. dl[p].next = 0 /\ dl[p].parts = {} /\ pull[p].dl = p /\ dl[p].pc = "prepare"
        /\ dl[p].count = 0 /\ Found = {}
    BY <1>1 DEF IInv, PullInv, PullOwn, PlanInv, PlanPull, Preparing
  <1>7. PullInv'
    <2>1. 0 .. (dl[p].next - 1) = {} /\ dl[p].next < NumParts
      BY <1>6, Constants
    <2> SUFFICES ASSUME NEW q \in Pulls PROVE PullOwn(q)'
      BY DEF PullInv
    <2>2. CASE q = p
      BY <1>1, <1>2, <1>3, <1>6, <2>1, <2>2 DEF PullOwn, Preparing
    <2>3. CASE q # p
      BY <1>2, <1>3, <2>3 DEF IInv, PullInv, PullOwn, Preparing
    <2> QED BY <2>2, <2>3
  <1>8. PlanInv'
    <2>1. \A i \in Parts : meta[i] = IF i < dl[p].next THEN 0 ELSE Absent
      BY <1>6 DEF Found, Parts
    <2> QED BY <1>1, <1>2, <1>3, <2>1 DEF IInv, PlanInv, PlanPull, PlanOwn, Found, Running
  <1> QED BY <1>2, <1>4, <1>5, <1>7, <1>8, Frame DEF IInv

\* The sum over a plan of what its parts have.
LEMMA SumType ==
  ASSUME TypeOK, NEW d \in Downloads
  PROVE  Sum(d) \in Int
  <1>1. \A i \in Parts : Has(d)[i] \in Int
    BY Fields DEF Has
  <1>2. dl[d].parts \in SUBSET Parts
    BY Fields
  <1> QED BY <1>1, <1>2, PartsFinite, TotalRemove DEF Sum

LEMMA SumSame ==
  ASSUME TypeOK, NEW d \in Downloads, dl'[d].parts = dl[d].parts,
         \A i \in dl[d].parts : part'[d][i].comp + part'[d][i].got = part[d][i].comp + part[d][i].got
  PROVE  Sum(d)' = Sum(d)
  <1>1. dl[d].parts \in SUBSET Parts /\ IsFiniteSet(dl[d].parts)
    BY Fields, PartsFinite
  <1>2. \A i \in dl[d].parts : Has(d)[i] \in Int /\ Has(d)'[i] = Has(d)[i]
    BY <1>1, Fields DEF Has
  <1> HIDE DEF Has
  <1> QED BY <1>1, <1>2, TotalSame DEF Sum

\* The plan read from the part files records what they do.
LEMMA PrepareReadKeeps ==
  ASSUME IInv, NEW p \in Pulls, PrepareRead(p)
  PROVE  IInv'
  <1> DEFINE v == pull'[p]
             w == dl'[p]
  <1>1. /\ pull[p].pc = "prepare" /\ pull[p].dl = p
        /\ dl[p].pc = "prepare" /\ dl[p].next = 0 /\ dl[p].parts = {} /\ dl[p].count = 0
    BY DEF PrepareRead, IInv, PullInv, PullOwn, Preparing
  <1>2. /\ p \in Downloads /\ pull[p] \in Pull /\ dl[p] \in Download
        /\ Found \in SUBSET Parts /\ IsFiniteSet(Found)
    BY Fields, PartsFinite DEF IInv, Downloads, Found
  <1>3. \A i \in Parts : i \in Found => meta[i] \in 0 .. PartSize
    BY Fields DEF IInv, PrepareRead, Found
  <1>4. Total(meta, Found) \in Int
    BY <1>2, <1>3, TotalRemove
  <1>5. /\ pull' = [pull EXCEPT ![p] = v] /\ dl' = [dl EXCEPT ![p] = w]
        /\ v \in Pull /\ v.dl = p /\ v.pc = IF Found = {} THEN "head" ELSE "acquire"
        /\ w.pc = IF Found = {} THEN "prepare" ELSE "start"
        /\ w.parts = Found /\ w.count = Total(meta, Found) /\ w.next = 0 /\ w.refs = dl[p].refs
        /\ w \in Download
    <2>1. /\ pull' = [pull EXCEPT ![p].pc = IF Found = {} THEN "head" ELSE "acquire"]
          /\ dl' = [dl EXCEPT ![p] = [dl[p] EXCEPT
                      !.parts = Found,
                      !.count = Total(meta, Found),
                      !.pc    = IF Found = {} THEN "prepare" ELSE "start"]]
      BY DEF PrepareRead, Found
    <2>2. v = [pull[p] EXCEPT !.pc = IF Found = {} THEN "head" ELSE "acquire"]
      BY <2>1 DEF IInv, TypeOK
    <2>3. w = [dl[p] EXCEPT
                      !.parts = Found,
                      !.count = Total(meta, Found),
                      !.pc    = IF Found = {} THEN "prepare" ELSE "start"]
      BY <1>2, <2>1 DEF IInv, TypeOK
    <2> HIDE DEF v, w
    <2>4. v \in Pull /\ v.dl = p /\ v.pc = IF Found = {} THEN "head" ELSE "acquire"
      BY <1>1, <1>2, <2>2 DEF Pull
    <2>5. w \in Download
      BY <1>2, <1>4, <2>3 DEF Download
    <2>6. /\ w.pc = IF Found = {} THEN "prepare" ELSE "start"
          /\ w.parts = Found /\ w.count = Total(meta, Found)
          /\ w.next = dl[p].next /\ w.refs = dl[p].refs
      BY <1>2, <2>3 DEF Download
    <2>7. pull' = [pull EXCEPT ![p] = v] /\ dl' = [dl EXCEPT ![p] = w]
      BY <1>2, <2>1, <2>2, <2>3 DEF IInv, TypeOK
    <2> QED BY <1>1, <2>4, <2>5, <2>6, <2>7
  <1>6. UNCHANGED <<entry, data, meta, blob, faults, crashes>>
    BY DEF PrepareRead, files
  <1>7. /\ part' = [part EXCEPT ![p] = part'[p]]
        /\ \A i \in Parts : /\ part'[p][i] \in Part
                            /\ part'[p][i].comp = IF i \in Found THEN meta[i] ELSE 0
                            /\ part'[p][i].got = 0 /\ part'[p][i].st = "idle"
                            /\ part'[p][i].tries = 0
        /\ part'[p] \in [Parts -> Part]
    <2> DEFINE new(i) == [NewPart EXCEPT !.comp = IF i \in Found THEN meta[i] ELSE 0]
    <2>1. part' = [part EXCEPT ![p] = [i \in Parts |-> new(i)]]
      BY DEF PrepareRead, Found
    <2>2. part'[p] = [i \in Parts |-> new(i)]
      BY <1>2, <2>1 DEF IInv, TypeOK
    <2>3. \A i \in Parts : new(i) \in Part /\ new(i).got = 0 /\ new(i).st = "idle"
                           /\ new(i).tries = 0
                           /\ new(i).comp = IF i \in Found THEN meta[i] ELSE 0
      BY <1>3, Constants DEF NewPart, Part
    <2> HIDE DEF new
    <2> QED BY <1>2, <2>1, <2>2, <2>3 DEF IInv, TypeOK
  <1> HIDE DEF v, w
  <1>8. /\ \A q \in Pulls : pull'[q] = IF q = p THEN v ELSE pull[q]
        /\ \A d \in Downloads : dl'[d] = IF d = p THEN w ELSE dl[d]
        /\ \A d \in Downloads : d # p => part'[d] = part[d]
    BY <1>5, <1>7 DEF IInv, TypeOK
  <1>9. TypeOK'
    <2>1. PartType'
      BY <1>7 DEF IInv, TypeOK, PartType
    <2> QED BY <1>5, <1>6, <2>1, TypeSplit, Frame, PullUpdate, DlUpdate DEF IInv, files
  <1>10. PullInv'
    <2> SUFFICES ASSUME NEW q \in Pulls PROVE PullOwn(q)'
      BY DEF PullInv
    <2>1. CASE q = p
      BY ZenonT(60), <1>2, <1>5, <1>8, <2>1, TotalEmpty DEF PullOwn, Preparing
    <2>2. CASE q # p
      BY <1>8, <2>2 DEF IInv, PullInv, PullOwn, Preparing, Downloads
    <2> QED BY <2>1, <2>2
  <1>11. RefsExact'
    BY <1>1, <1>5, <1>8, RefsFrame DEF IInv
  <1>12. WholeInv'
    BY <1>6, Frame DEF IInv
  <1>13. PlanPull(p)' /\ PlanOwn(p)'
    <2>1. Found' = Found
      BY <1>6 DEF Found
    <2>2. pull'[p].pc \in {"head", "acquire"} /\ (pull'[p].pc = "head" => Found = {})
      BY <1>5, <1>8
    <2>3. \A i \in Found : meta'[i] <= part'[p][i].comp
      BY <1>2, <1>3, <1>6, <1>7
    <2>4. PlanPull(p)'
      BY <2>1, <2>2 DEF PlanPull
    <2>5. PlanOwn(p)'
      BY <1>2, <1>5, <1>8, <2>1, <2>3 DEF PlanOwn, Running
    <2> QED BY <2>4, <2>5
  <1>14. HolesOwn(p)'
    BY <1>2, <1>3, <1>5, <1>6, <1>7, <1>8, Fields DEF HolesOwn, Fetching, WholeInv, IInv
  <1>15. ProgressOwn(p)'
    <2>1. Has(p)' = [i \in Parts |-> IF i \in Found THEN meta[i] ELSE 0]
      BY <1>2, <1>3, <1>7 DEF Has
    <2>2. \A i \in Found : meta[i] \in Int /\ Has(p)'[i] = meta[i]
      BY <1>2, <1>3, <2>1
    <2> HIDE DEF Has
    <2>3. Sum(p)' = Total(meta, Found)
      BY <1>2, <1>5, <1>8, <2>2, TotalSame DEF Sum
    <2> HIDE DEF Sum
    <2>4. dl'[p].count = Sum(p)' /\ faults' \in Nat
      BY <1>2, <1>5, <1>6, <1>8, <2>3, Constants DEF IInv, TypeOK
    <2> QED BY <1>4, <2>3, <2>4 DEF ProgressOwn
  <1>16. AbandonedOwn(p)'
    BY <1>2, <1>5, <1>8 DEF AbandonedOwn, Fetching, Wanted
  <1>17. \A i \in Parts : PartOwn(p, i)'
    BY <1>2, <1>3, <1>5, <1>7, <1>8, Constants DEF PartOwn, NewPart, Found, Part
  <1>18. Working(p) /\ \A q \in Pulls : Preparing(q)' => Preparing(q)
    BY <1>1, <1>8 DEF Working, Preparing
  <1> QED BY <1>2, <1>6, <1>8, <1>9, <1>10, <1>11, <1>12, <1>13, <1>14, <1>15, <1>16, <1>17,
             <1>18, OwnStep

LEMMA PrepareCreateKeeps ==
  ASSUME IInv, NEW p \in Pulls, PrepareCreate(p)
  PROVE  IInv'
  <1> DEFINE i == dl[p].next
             last == i + 1 = NumParts
             v == [pull[p] EXCEPT !.pc = IF last THEN "acquire" ELSE "create"]
             w == [dl[p] EXCEPT !.parts = dl[p].parts \cup {i}, !.next = i + 1,
                                !.pc = IF last THEN "start" ELSE "prepare"]
  <1>1. /\ pull[p].pc = "create" /\ pull[p].dl = p
        /\ dl[p].pc = "prepare" /\ dl[p].parts = 0 .. (i - 1) /\ dl[p].count = 0
        /\ \A j \in Parts : meta[j] = IF j < i THEN 0 ELSE Absent
        /\ i \in Nat /\ i < NumParts /\ i \in Parts
    BY Fields, Constants
       DEF PrepareCreate, IInv, PullInv, PullOwn, Preparing, PlanInv, PlanPull, Parts, Downloads
  <1>2. p \in Downloads /\ pull[p] \in Pull /\ dl[p] \in Download /\ Working(p)
    BY <1>1, Fields DEF IInv, Downloads, Working
  <1>3. /\ pull' = [pull EXCEPT ![p] = v] /\ dl' = [dl EXCEPT ![p] = w]
        /\ meta' = [meta EXCEPT ![i] = 0]
        /\ UNCHANGED <<part, entry, data, blob, faults, crashes>>
    BY <1>1 DEF PrepareCreate
  <1>4. v \in Pull /\ v.dl = p /\ v.pc = IF last THEN "acquire" ELSE "create"
    BY <1>1, <1>2 DEF Pull
  <1>5. /\ w.pc = (IF last THEN "start" ELSE "prepare")
        /\ w.parts = 0 .. i /\ w.next = i + 1 /\ w.count = 0 /\ w.refs = dl[p].refs
        /\ w \in Download
    <2>1. 0 .. (i - 1) \cup {i} = 0 .. i /\ 0 .. i \in SUBSET Parts
      BY <1>1, Constants DEF Parts
    <2>2. i + 1 \in 0 .. NumParts
      BY <1>1, Constants
    <2>3. /\ w.pc = (IF last THEN "start" ELSE "prepare") /\ w.parts = dl[p].parts \cup {i}
          /\ w.next = i + 1 /\ w.count = dl[p].count /\ w.refs = dl[p].refs
      BY <1>2 DEF Download
    <2> HIDE DEF i, last
    <2>4. dl[p].parts \cup {i} = 0 .. i
      BY <1>1, <2>1
    <2>5. w \in Download
      BY <1>2, <2>1, <2>2, <2>4 DEF Download
    <2> QED BY <1>1, <2>3, <2>4, <2>5
  <1>6. last => 0 .. i = Parts
    BY <1>1, Constants DEF Parts
  <1> HIDE DEF v, w, i, last
  <1>7. /\ \A q \in Pulls : pull'[q] = IF q = p THEN v ELSE pull[q]
        /\ \A d \in Downloads : dl'[d] = IF d = p THEN w ELSE dl[d]
        /\ \A j \in Parts : meta'[j] = IF j < i + 1 THEN 0 ELSE Absent
    <2>1. \A j \in Parts : meta'[j] = IF j = i THEN 0 ELSE meta[j]
      BY <1>3 DEF IInv, TypeOK
    <2>2. \A j \in Parts : j < i + 1 <=> j < i \/ j = i
      BY <1>1 DEF Parts
    <2> QED BY <1>1, <1>3, <2>1, <2>2 DEF IInv, TypeOK
  <1>8. TypeOK'
    <2>1. FilesType'
      <3>1. FilesType
        BY TypeSplit DEF IInv
      <3>2. 0 \in 0 .. PartSize
        BY Constants
      <3> QED BY <1>3, <3>1, <3>2 DEF FilesType
    <2> QED BY <1>3, <1>4, <1>5, <2>1, TypeSplit, Frame, PullUpdate, DlUpdate DEF IInv
  <1>9. PullInv'
    <2> SUFFICES ASSUME NEW q \in Pulls PROVE PullOwn(q)'
      BY DEF PullInv
    <2>1. CASE q = p
      <3>1. 0 .. (i + 1 - 1) = 0 .. i
        BY <1>1
      <3>2. ~last => i + 1 < NumParts
        BY <1>1, Constants DEF last
      <3>3. /\ pull'[p].dl = p /\ pull'[p].pc = (IF last THEN "acquire" ELSE "create")
            /\ dl'[p].pc = (IF last THEN "start" ELSE "prepare") /\ dl'[p].parts = 0 .. i
            /\ dl'[p].next = i + 1 /\ dl'[p].count = 0
        BY <1>2, <1>4, <1>5, <1>7
      <3>4. CASE last
        BY <1>2, <2>1, <3>3, <3>4 DEF PullOwn, Preparing
      <3>5. CASE ~last
        <4>1. dl'[p].parts = 0 .. (dl'[p].next - 1) /\ dl'[p].next < NumParts
          BY <1>1, <3>1, <3>2, <3>3, <3>5
        <4> QED BY <1>2, <2>1, <3>3, <3>5, <4>1 DEF PullOwn, Preparing
      <3> QED BY <3>4, <3>5
    <2>2. CASE q # p
      BY <1>7, <2>2 DEF IInv, PullInv, PullOwn, Preparing, Downloads
    <2> QED BY <2>1, <2>2
  <1>10. RefsExact'
    BY <1>1, <1>4, <1>5, <1>7, RefsFrame DEF IInv
  <1>11. WholeInv'
    <2>1. \A j \in Parts : meta'[j] <= 0 /\ data'[j] >= 0
      BY <1>3, <1>7 DEF Absent, IInv, TypeOK
    <2>2. \A j \in Parts : meta'[j] \in Int /\ data'[j] \in Int
      BY <1>3, <1>7 DEF Absent, IInv, TypeOK
    <2> QED BY <2>1, <2>2 DEF WholeInv
  <1>12. \A j \in Parts : part'[p][j] = NewPart
    BY <1>1, <1>2, <1>3 DEF IInv, PartInv, PartOwn
  <1>13. PlanPull(p)' /\ PlanOwn(p)'
    <2>1. PlanPull(p)'
      BY <1>2, <1>4, <1>5, <1>7 DEF PlanPull
    <2>2. last => Found' = Parts
      <3> SUFFICES ASSUME last, NEW j \in Parts PROVE meta'[j] # Absent
        BY DEF Found
      <3>1. j < i + 1
        BY <1>1, Constants DEF last, Parts
      <3> QED BY <1>7, <3>1 DEF Absent
    <2>3. \A j \in Parts : meta'[j] <= part'[p][j].comp
      BY <1>7, <1>12 DEF Absent, NewPart
    <2> QED BY <1>2, <1>5, <1>6, <1>7, <2>1, <2>2, <2>3, Constants DEF PlanOwn, Running
  <1>14. HolesOwn(p)'
    <2>1. \A j \in Parts : data'[j] >= 0
      BY <1>3 DEF IInv, TypeOK
    <2> QED BY <1>2, <1>5, <1>7, <1>12, <2>1 DEF HolesOwn, Fetching, NewPart
  <1>15. ProgressOwn(p)'
    <2>1. w.parts \in SUBSET Parts /\ IsFiniteSet(w.parts)
      BY <1>5, PartsFinite DEF Download
    <2>2. \A j \in w.parts : Has(p)'[j] = 0
      BY <1>12, <2>1 DEF Has, NewPart
    <2> HIDE DEF Has
    <2>3. Sum(p)' = 0
      BY <1>2, <1>7, <2>1, <2>2, TotalZero DEF Sum
    <2>4. dl'[p].count = Sum(p)' /\ Sum(p)' \in Int /\ faults' \in Nat
      BY <1>2, <1>3, <1>5, <1>7, <2>3, Constants DEF IInv, TypeOK
    <2> QED BY <2>4 DEF ProgressOwn
  <1>16. AbandonedOwn(p)'
    BY <1>2, <1>4, <1>5, <1>7 DEF AbandonedOwn, Fetching, Wanted
  <1>17. \A j \in Parts : PartOwn(p, j)'
    BY <1>2, <1>5, <1>7, <1>12, Constants DEF PartOwn, NewPart
  <1>18. \A q \in Pulls : Preparing(q)' => Preparing(q)
    BY <1>1, <1>7 DEF Preparing
  <1> QED BY <1>2, <1>3, <1>7, <1>8, <1>9, <1>10, <1>11, <1>13, <1>14, <1>15, <1>16, <1>17,
             <1>18, OwnStep

\* A Prepare that fails leaves no part file that records anything.
LEMMA PrepareFailsKeeps ==
  ASSUME IInv, NEW p \in Pulls, PrepareFails(p)
  PROVE  IInv'
  <1> DEFINE v == [pull[p] EXCEPT !.pc = "failed"]
             w == [dl[p] EXCEPT !.pc = "dead"]
  <1>1. Preparing(p) /\ pull[p].dl = p /\ dl[p].pc = "prepare"
    BY DEF PrepareFails, IInv, PullInv, PullOwn, Preparing
  <1>2. p \in Downloads /\ pull[p] \in Pull /\ dl[p] \in Download /\ Working(p)
    BY <1>1, Fields DEF IInv, Downloads, Working
  <1>3. /\ pull' = [pull EXCEPT ![p] = v] /\ dl' = [dl EXCEPT ![p] = w] /\ entry' = None
        /\ UNCHANGED <<part, data, blob, crashes>>
    BY DEF PrepareFails
  <1>4. v \in Pull /\ v.pc = "failed"
    BY <1>2 DEF Pull
  <1>5. w \in Download /\ w.pc = "dead" /\ w.refs = dl[p].refs
    BY <1>2 DEF Download
  <1> HIDE DEF v, w
  <1>6. /\ \A q \in Pulls : pull'[q] = IF q = p THEN v ELSE pull[q]
        /\ \A d \in Downloads : dl'[d] = IF d = p THEN w ELSE dl[d]
    BY <1>3 DEF IInv, TypeOK
  <1>7. /\ faults' \in 0 .. MaxFaults
        /\ meta' = meta \/ /\ pull[p].pc = "create" /\ dl[p].next \in Parts
                           /\ \E m \in {Absent, Torn} : meta' = [meta EXCEPT ![dl[p].next] = m]
    <2>1. faults' = faults \/ Fault
      BY DEF PrepareFails
    <2>2. pull[p].pc = "create" => dl[p].next \in Parts
      <3>1. dl[p].next \in 0 .. NumParts
        BY <1>2 DEF Download
      <3>2. pull[p].pc = "create" => dl[p].next < NumParts
        BY <1>1 DEF IInv, PullInv, PullOwn
      <3> QED BY <3>1, <3>2, Constants DEF Parts
    <2>3. faults' \in 0 .. MaxFaults
      BY <2>1, FaultType, TypeSplit DEF IInv, OtherType
    <2> QED BY <2>2, <2>3 DEF PrepareFails
  <1>8. TypeOK'
    <2>1. FilesType'
      BY <1>3, <1>7 DEF IInv, TypeOK, FilesType
    <2>2. OtherType'
      BY <1>3, <1>7 DEF IInv, TypeOK, OtherType
    <2> QED BY <1>3, <1>4, <1>5, <2>1, <2>2, TypeSplit, Frame, PullUpdate, DlUpdate DEF IInv
  <1>9. PullInv'
    <2> SUFFICES ASSUME NEW q \in Pulls PROVE PullOwn(q)'
      BY DEF PullInv
    <2>1. CASE q = p
      BY <1>4, <1>6, <2>1 DEF PullOwn, Preparing
    <2>2. CASE q # p
      BY <1>6, <2>2 DEF IInv, PullInv, PullOwn, Preparing, Downloads
    <2> QED BY <2>1, <2>2
  <1>10. RefsExact'
    BY <1>1, <1>4, <1>5, <1>6, RefsFrame DEF IInv, Preparing
  <1>11. WholeInv'
    <2>1. CASE meta' = meta
      BY <1>3, <2>1, Frame DEF IInv
    <2>2. CASE meta' # meta
      <3>1. \A j \in Parts : meta'[j] \in {0, Absent, Torn}
        BY <1>7, <2>2 DEF IInv, PlanInv, PlanPull, TypeOK
      <3>2. \A j \in Parts : data'[j] \in Int /\ data'[j] >= 0
        BY <1>3 DEF IInv, TypeOK
      <3> QED BY <3>1, <3>2 DEF WholeInv, Absent, Torn
    <2> QED BY <2>1, <2>2
  <1>12. PlanPull(p)' /\ PlanOwn(p)' /\ HolesOwn(p)' /\ ProgressOwn(p)' /\ AbandonedOwn(p)'
    BY <1>2, <1>4, <1>5, <1>6
       DEF PlanPull, PlanOwn, HolesOwn, ProgressOwn, AbandonedOwn, Fetching, Running
  <1>13. \A j \in Parts : PartOwn(p, j)'
    BY <1>1, <1>2, <1>3, <1>5, <1>6, Constants DEF PartOwn, NewPart, IInv, PartInv
  <1>14. (\A q \in Pulls : Preparing(q)' => Preparing(q)) /\ ~Working(p)'
    BY <1>2, <1>4, <1>5, <1>6 DEF Preparing, Working
  <1> QED BY <1>2, <1>3, <1>6, <1>8, <1>9, <1>10, <1>11, <1>12, <1>13, <1>14, OwnStep

----------------------------------------------------------------------------
(* Counting references.                                                    *)

\* A count that changes, and CancelFunc that is called.
LEMMA CountStep ==
  ASSUME IInv, UNCHANGED <<part, entry, data, meta, faults>>,
         \A e \in Downloads : /\ dl'[e].pc = dl[e].pc /\ dl'[e].parts = dl[e].parts
                              /\ dl'[e].next = dl[e].next /\ dl'[e].count = dl[e].count
  PROVE  /\ OneWriter' /\ PartInv' /\ WholeInv' /\ NoHoles' /\ ProgressExact'
         /\ \A e \in Downloads : PlanOwn(e)'
  <1>4. OneWriter' /\ PartInv'
    BY DEF IInv, OneWriter, Working, PartInv, PartOwn
  <1>5. WholeInv'
    BY Frame DEF IInv
  <1>6. NoHoles'
    BY DEF IInv, NoHoles
  <1>7. ProgressExact'
    BY DEF IInv, ProgressExact
  <1>8. \A e \in Downloads : PlanOwn(e)'
    BY DEF IInv, PlanInv, PlanOwn, Running, Found
  <1> QED BY <1>4, <1>5, <1>6, <1>7, <1>8

LEMMA WaitingFinite ==
  ASSUME NEW d
  PROVE  IsFiniteSet(Waiting(d)) /\ IsFiniteSet(Waiting(d)')
  BY Constants, FS_Subset DEF Waiting

LEMMA AcquireKeeps ==
  ASSUME IInv, NEW p \in Pulls, Acquire(p)
  PROVE  IInv'
  <1>0. PICK d \in Downloads : d = pull[p].dl
    BY DEF Acquire, IInv, PullInv, PullOwn
  <1> DEFINE v == [pull[p] EXCEPT !.pc = "wait"]
             w == [dl[d] EXCEPT !.refs = dl[d].refs + 1]
  <1>1. pull[p].pc = "acquire"
    BY DEF Acquire
  <1>2. v \in Pull /\ v.pc = "wait" /\ v.dl = d
    BY <1>0 DEF IInv, TypeOK, Pull
  <1>3. /\ pull' = [pull EXCEPT ![p] = v] /\ dl' = [dl EXCEPT ![d] = w]
        /\ UNCHANGED <<part, entry, data, meta, blob, faults, crashes>>
    BY <1>0 DEF Acquire, files
  <1>4. /\ w \in Download /\ w.pc = dl[d].pc /\ w.parts = dl[d].parts /\ w.next = dl[d].next
        /\ w.count = dl[d].count /\ w.cancelled = dl[d].cancelled /\ w.refs = dl[d].refs + 1
    <2>1. dl[d] \in Download
      BY Fields DEF IInv
    <2> QED BY <2>1 DEF Download
  <1> HIDE DEF v, w
  <1>5. /\ \A q \in Pulls : pull'[q] = IF q = p THEN v ELSE pull[q]
        /\ \A e \in Downloads : dl'[e] = IF e = d THEN w ELSE dl[e]
    BY <1>3 DEF IInv, TypeOK
  <1>6. TypeOK'
    BY <1>2, <1>3, <1>4, TypeSplit, Frame, PullUpdate, DlUpdate DEF IInv, files
  <1>7. \A e \in Downloads : /\ dl'[e].pc = dl[e].pc /\ dl'[e].parts = dl[e].parts
                             /\ dl'[e].next = dl[e].next /\ dl'[e].count = dl[e].count
                             /\ dl'[e].cancelled = dl[e].cancelled
    BY <1>4, <1>5
  <1>8. PullInv'
    BY <1>2, <1>5, <1>7 DEF IInv, PullInv, PullOwn, Preparing, Downloads
  <1>9. RefsExact'
    <2>1. Waiting(d)' = Waiting(d) \cup {p} /\ p \notin Waiting(d)
      BY <1>1, <1>2, <1>5 DEF Waiting
    <2>2. \A e \in Downloads : e # d => Waiting(e)' = Waiting(e)
      <3> SUFFICES ASSUME NEW e \in Downloads, e # d, NEW q \in Pulls
                   PROVE  q \in Waiting(e)' <=> q \in Waiting(e)
        BY DEF Waiting
      <3>1. CASE q = p
        BY <1>1, <1>2, <1>5, <3>1 DEF Waiting
      <3>2. CASE q # p
        BY <1>5, <3>2 DEF Waiting
      <3> QED BY <3>1, <3>2
    <2>3. Cardinality(Waiting(d)') = Cardinality(Waiting(d)) + 1
      BY <2>1, WaitingFinite, FS_AddElement
    <2>4. \A e \in Downloads : dl'[e].refs = IF e = d THEN dl[d].refs + 1 ELSE dl[e].refs
      BY <1>4, <1>5
    <2>5. \A e \in Downloads : dl[e].refs = Cardinality(Waiting(e))
      BY DEF IInv, RefsExact
    <2> QED BY <2>2, <2>3, <2>4, <2>5 DEF RefsExact
  <1>10. AbandonedIsCancelled'
    <2>2. \A q \in Pulls : Asks(q) => Asks(q)' /\ pull'[q].dl = pull[q].dl
      BY <1>0, <1>2, <1>5 DEF Asks
    <2> QED BY <1>7, <2>2, WantedFrame DEF IInv, Fetching
  <1>11. \A q \in Pulls : PlanPull(q)'
    BY <1>2, <1>3, <1>5, <1>7 DEF IInv, PlanInv, PlanPull, Found, Downloads
  <1> QED BY <1>3, <1>6, <1>7, <1>8, <1>9, <1>10, <1>11, CountStep DEF IInv, PlanInv

\* One that stops to wait is counted once.
LEMMA Leaves ==
  ASSUME IInv, NEW p \in Pulls, NEW d \in Downloads, pull[p].pc = "wait", d = pull[p].dl,
         pull'[p].pc # "wait", \A q \in Pulls \ {p} : pull'[q] = pull[q]
  PROVE  /\ \A e \in Downloads :
               Cardinality(Waiting(e)') = IF e = d THEN dl[d].refs - 1 ELSE dl[e].refs
         /\ dl[d].refs # 1 => \E q \in Pulls : q # p /\ pull[q].pc = "wait" /\ pull[q].dl = d
  <1>3. Waiting(d)' = Waiting(d) \ {p} /\ p \in Waiting(d)
    BY DEF Waiting
  <1>4. \A e \in Downloads : e # d => Waiting(e)' = Waiting(e)
    <2> SUFFICES ASSUME NEW e \in Downloads, e # d, NEW q \in Pulls
                 PROVE  q \in Waiting(e)' <=> q \in Waiting(e)
      BY DEF Waiting
    <2>1. CASE q = p
      BY <2>1 DEF Waiting
    <2>2. CASE q # p
      BY <2>2 DEF Waiting
    <2> QED BY <2>1, <2>2
  <1>5. Cardinality(Waiting(d)') = Cardinality(Waiting(d)) - 1
    BY <1>3, WaitingFinite, FS_RemoveElement
  <1>6. dl[d].refs # 1 => Waiting(d) # {p}
    BY ZenonT(60), FS_Singleton DEF IInv, RefsExact
  <1>7. dl[d].refs # 1 => \E q \in Pulls : q # p /\ pull[q].pc = "wait" /\ pull[q].dl = d
    BY <1>3, <1>6 DEF Waiting
  <1>8. \A e \in Downloads :
               Cardinality(Waiting(e)') = IF e = d THEN dl[d].refs - 1 ELSE dl[e].refs
    <2>1. \A e \in Downloads : dl[e].refs = Cardinality(Waiting(e))
      BY DEF IInv, RefsExact
    <2> QED BY <1>4, <1>5, <2>1
  <1> QED BY <1>7, <1>8

LEMMA GetsKeeps ==
  ASSUME IInv, NEW p \in Pulls, Gets(p)
  PROVE  IInv'
  <1>0. PICK d \in Downloads : d = pull[p].dl
    BY DEF Gets, IInv, PullInv, PullOwn
  <1> DEFINE v == pull'[p]
             w == [dl[d] EXCEPT !.refs = dl[d].refs - 1]
  <1>1. /\ pull[p].pc = "wait" /\ dl[d].pc = "over"
        /\ pull' = [pull EXCEPT ![p] = v]
        /\ v \in Pull /\ v.pc \in {"verify", "failed"} /\ v.dl = d
    BY <1>0 DEF Gets, IInv, TypeOK, Pull
  <1>2. /\ dl' = [dl EXCEPT ![d] = w]
        /\ UNCHANGED <<part, entry, data, meta, blob, faults, crashes>>
    BY <1>0 DEF Gets, files
  <1>3. /\ w \in Download /\ w.pc = dl[d].pc /\ w.parts = dl[d].parts /\ w.next = dl[d].next
        /\ w.count = dl[d].count /\ w.cancelled = dl[d].cancelled /\ w.refs = dl[d].refs - 1
    <2>1. dl[d] \in Download
      BY Fields DEF IInv
    <2> QED BY <2>1 DEF Download
  <1> HIDE DEF v, w
  <1>4. /\ \A q \in Pulls : pull'[q] = IF q = p THEN v ELSE pull[q]
        /\ \A e \in Downloads : dl'[e] = IF e = d THEN w ELSE dl[e]
    BY <1>1, <1>2 DEF IInv, TypeOK
  <1>5. \A e \in Downloads : Cardinality(Waiting(e)') = IF e = d THEN dl[d].refs - 1
                                                        ELSE dl[e].refs
    BY <1>0, <1>1, <1>4, Leaves
  <1>6. TypeOK'
    BY <1>1, <1>2, <1>3, TypeSplit, Frame, PullUpdate, DlUpdate DEF IInv, files
  <1>7. \A e \in Downloads : /\ dl'[e].pc = dl[e].pc /\ dl'[e].parts = dl[e].parts
                             /\ dl'[e].next = dl[e].next /\ dl'[e].count = dl[e].count
                             /\ dl'[e].cancelled = dl[e].cancelled
    BY <1>3, <1>4
  <1>8. PullInv'
    BY <1>1, <1>4, <1>7 DEF IInv, PullInv, PullOwn, Preparing, Downloads
  <1>9. RefsExact'
    BY <1>3, <1>4, <1>5 DEF RefsExact
  <1>10. AbandonedIsCancelled'
    <2> SUFFICES ASSUME NEW e \in Downloads PROVE AbandonedOwn(e)'
      BY Own
    <2>1. CASE e = d
      BY <1>1, <1>7, <2>1 DEF AbandonedOwn, Fetching
    <2>2. CASE e # d
      <3>1. Wanted(e) => Wanted(e)'
        BY <1>0, <1>1, <1>4, <2>2 DEF Wanted
      <3>2. AbandonedOwn(e)
        BY Own DEF IInv
      <3> QED BY <1>7, <3>1, <3>2 DEF AbandonedOwn, Fetching
    <2> QED BY <2>1, <2>2
  <1>11. \A q \in Pulls : PlanPull(q)'
    BY <1>1, <1>2, <1>4, <1>7 DEF IInv, PlanInv, PlanPull, Found, Downloads
  <1> QED BY <1>2, <1>6, <1>7, <1>8, <1>9, <1>10, <1>11, CountStep DEF IInv, PlanInv

\* The last to leave cancels; if another leaves there is one that still waits.
LEMMA AbandonKeeps ==
  ASSUME IInv, NEW p \in Pulls, Abandon(p)
  PROVE  IInv'
  <1>0. PICK d \in Downloads : d = pull[p].dl
    BY DEF Abandon, IInv, PullInv, PullOwn
  <1> DEFINE v == [pull[p] EXCEPT !.pc = "failed"]
             w == [dl[d] EXCEPT !.refs      = dl[d].refs - 1,
                                !.cancelled = dl[d].cancelled \/ dl[d].refs = 1]
  <1>1. /\ pull[p].pc = "wait" /\ d = pull[p].dl /\ d \in Downloads
        /\ pull' = [pull EXCEPT ![p] = v] /\ dl' = [dl EXCEPT ![d] = w]
        /\ UNCHANGED <<part, entry, data, meta, blob, faults, crashes>>
    BY <1>0 DEF Abandon, files
  <1>2. v \in Pull /\ v.pc = "failed" /\ v.dl = d
    BY <1>1 DEF IInv, TypeOK, Pull
  <1>3. /\ w \in Download /\ w.pc = dl[d].pc /\ w.parts = dl[d].parts /\ w.next = dl[d].next
        /\ w.count = dl[d].count /\ w.refs = dl[d].refs - 1
        /\ dl[d].cancelled \/ dl[d].refs = 1 => w.cancelled
    <2>1. dl[d] \in Download
      BY <1>1, Fields DEF IInv
    <2>2. w \in Download
      <3>1. \/ w = [dl[d] EXCEPT !.refs = dl[d].refs - 1, !.cancelled = TRUE]
            \/ w = [dl[d] EXCEPT !.refs = dl[d].refs - 1, !.cancelled = FALSE]
        BY Zenon
      <3>2. dl[d].refs - 1 \in Int
        BY <2>1 DEF Download
      <3> HIDE DEF w
      <3>3. CASE w = [dl[d] EXCEPT !.refs = dl[d].refs - 1, !.cancelled = TRUE]
        BY <2>1, <3>2, <3>3 DEF Download
      <3>4. CASE w = [dl[d] EXCEPT !.refs = dl[d].refs - 1, !.cancelled = FALSE]
        BY <2>1, <3>2, <3>4 DEF Download
      <3> QED BY <3>1, <3>3, <3>4
    <2>3. /\ w.pc = dl[d].pc /\ w.parts = dl[d].parts /\ w.next = dl[d].next
          /\ w.count = dl[d].count /\ w.refs = dl[d].refs - 1
      BY <2>1 DEF Download
    <2>4. dl[d].cancelled \/ dl[d].refs = 1 => w.cancelled
      <3>1. CASE dl[d].cancelled \/ dl[d].refs = 1
        <4>1. w = [dl[d] EXCEPT !.refs = dl[d].refs - 1, !.cancelled = TRUE]
          BY <3>1
        <4> QED BY <2>1, <4>1 DEF Download
      <3> QED BY <3>1
    <2> HIDE DEF w
    <2> QED BY <2>2, <2>3, <2>4
  <1> HIDE DEF v, w
  <1>5. /\ \A q \in Pulls : pull'[q] = IF q = p THEN v ELSE pull[q]
        /\ \A e \in Downloads : dl'[e] = IF e = d THEN w ELSE dl[e]
    BY <1>1 DEF IInv, TypeOK
  <1>4. /\ \A e \in Downloads : Cardinality(Waiting(e)') = IF e = d THEN dl[d].refs - 1
                                                          ELSE dl[e].refs
        /\ dl[d].refs # 1 => \E q \in Pulls : q # p /\ pull[q].pc = "wait" /\ pull[q].dl = d
    BY <1>1, <1>2, <1>5, Leaves
  <1>6. TypeOK'
    BY <1>1, <1>2, <1>3, TypeSplit, Frame, PullUpdate, DlUpdate DEF IInv, files
  <1>7. \A e \in Downloads : /\ dl'[e].pc = dl[e].pc /\ dl'[e].parts = dl[e].parts
                             /\ dl'[e].next = dl[e].next /\ dl'[e].count = dl[e].count
    BY <1>3, <1>5
  <1>8. PullInv'
    BY <1>2, <1>5, <1>7 DEF IInv, PullInv, PullOwn, Preparing, Downloads
  <1>9. RefsExact'
    BY <1>3, <1>4, <1>5 DEF RefsExact
  <1>10. AbandonedIsCancelled'
    <2> SUFFICES ASSUME NEW e \in Downloads PROVE AbandonedOwn(e)'
      BY Own
    <2>1. CASE e = d
      <3>1. CASE dl[d].refs = 1
        BY <1>3, <1>5, <2>1, <3>1 DEF AbandonedOwn
      <3>2. CASE dl[d].refs # 1
        BY <1>4, <1>5, <2>1, <3>2 DEF AbandonedOwn, Wanted
      <3> QED BY <3>1, <3>2
    <2>2. CASE e # d
      <3>1. Wanted(e) => Wanted(e)'
        BY <1>1, <1>5, <2>2 DEF Wanted
      <3>2. AbandonedOwn(e)
        BY Own DEF IInv
      <3> QED BY <1>5, <2>2, <3>1, <3>2 DEF AbandonedOwn, Fetching
    <2> QED BY <2>1, <2>2
  <1>11. \A q \in Pulls : PlanPull(q)'
    BY <1>1, <1>2, <1>5, <1>7 DEF IInv, PlanInv, PlanPull, Found, Downloads
  <1> QED BY <1>1, <1>6, <1>7, <1>8, <1>9, <1>10, <1>11, CountStep DEF IInv, PlanInv

----------------------------------------------------------------------------
(* The steps of Run.                                                       *)

\* What a step of Run leaves to be shown: types, the plan and the files.
LEMMA RunStep ==
  ASSUME IInv, NEW d \in Downloads, Fetching(d) \/ dl[d].pc = "exit",
         UNCHANGED <<pull, crashes>>, DlType', PartType', FilesType', faults' \in 0 .. MaxFaults,
         \A e \in Downloads : e # d => dl'[e] = dl[e] /\ part'[e] = part[e],
         dl'[d].refs = dl[d].refs, dl'[d].cancelled = dl[d].cancelled, Fetching(d)' => Fetching(d),
         entry' = entry \/ (entry' = None /\ ~Working(d)'),
         WholeInv', PlanOwn(d)', HolesOwn(d)', ProgressOwn(d)', \A i \in Parts : PartOwn(d, i)'
  PROVE  IInv'
  <1>1. Working(d) /\ dl[d].pc \notin {"none", "prepare"}
    BY DEF Working, Fetching
  <1>2. d \in Pulls /\ pull[d].pc \notin {"new", "load", "prepare", "head", "create"}
    BY <1>1 DEF IInv, PullInv, PullOwn, Preparing, Downloads
  <1>3. PullInv'
    BY <1>2 DEF IInv, PullInv, PullOwn, Preparing, Downloads
  <1>4. RefsExact'
    BY RefsFrame DEF IInv
  <1>5. PlanPull(d)' /\ AbandonedOwn(d)'
    <2>1. AbandonedOwn(d)
      BY Own DEF IInv
    <2> QED BY <1>2, <2>1 DEF PlanPull, AbandonedOwn, Wanted
  <1>6. TypeOK'
    <2>1. PullType'
      BY TypeSplit, Frame DEF IInv
    <2>2. OtherType'
      BY DEF IInv, TypeOK, OtherType
    <2> QED BY <2>1, <2>2, TypeSplit
  <1>7. \A p \in Pulls : Preparing(p)' => Preparing(p)
    BY DEF Preparing
  <1> QED BY <1>1, <1>3, <1>4, <1>5, <1>6, <1>7, OwnStep

\* What is known of a download that Run works on.
LEMMA RunFacts ==
  ASSUME IInv, NEW d \in Downloads
  PROVE  /\ PlanOwn(d) /\ HolesOwn(d) /\ ProgressOwn(d) /\ WholeInv
         /\ \A i \in Parts : PartOwn(d, i)
         /\ dl[d] \in Download /\ dl[d].parts \in SUBSET Parts /\ IsFiniteSet(dl[d].parts)
         /\ Cardinality(dl[d].parts) \in 0 .. NumParts
         /\ Cardinality(dl[d].parts) = NumParts <=> dl[d].parts = Parts
         /\ dl[d].parts # {} => Cardinality(dl[d].parts) > 0
         /\ Sum(d) \in Int /\ dl[d].count \in Int /\ faults \in 0 .. MaxFaults /\ faults \in Nat
  <1>1. dl[d] \in Download /\ dl[d].parts \in SUBSET Parts /\ dl[d].count \in Int
    BY Fields DEF IInv
  <1>2. Sum(d) \in Int /\ faults \in 0 .. MaxFaults /\ faults \in Nat
    BY SumType, Constants DEF IInv, TypeOK
  <1>3. PlanOwn(d) /\ HolesOwn(d) /\ ProgressOwn(d) /\ WholeInv /\ \A i \in Parts : PartOwn(d, i)
    BY Own DEF IInv, PlanInv, PartInv
  <1> QED BY <1>1, <1>2, <1>3, PartsFinite

\* Types of a step that changes no part and no file, and one download.
LEMMA RunTypes ==
  ASSUME IInv, NEW d \in Downloads, NEW w \in Download, dl' = [dl EXCEPT ![d] = w]
  PROVE  /\ DlType' /\ \A e \in Downloads : dl'[e] = IF e = d THEN w ELSE dl[e]
         /\ UNCHANGED part => PartType'
         /\ UNCHANGED files => FilesType'
         /\ UNCHANGED faults \/ Fault => faults' \in 0 .. MaxFaults
  <1>1. DlType'
    BY TypeSplit, DlUpdate DEF IInv
  <1>2. \A e \in Downloads : dl'[e] = IF e = d THEN w ELSE dl[e]
    BY DEF IInv, TypeOK
  <1>3. UNCHANGED part => PartType'
    BY TypeSplit, Frame DEF IInv
  <1>4. UNCHANGED files => FilesType'
    BY TypeSplit, Frame DEF IInv
  <1>5. UNCHANGED faults \/ Fault => faults' \in 0 .. MaxFaults
    BY TypeSplit, FaultType DEF IInv, OtherType
  <1> QED BY <1>1, <1>2, <1>3, <1>4, <1>5

\* A plan that is whole keeps all of the partial file.
LEMMA RunStartKeeps ==
  ASSUME IInv, NEW d \in Downloads, RunStart(d)
  PROVE  IInv'
  <1> DEFINE w == [dl[d] EXCEPT !.pc = "url", !.next = 0]
  <1>1. dl[d].pc = "start" /\ Running(d) /\ Fetching(d)
    BY DEF RunStart, Running, Fetching
  <1>2. dl' = [dl EXCEPT ![d] = w] /\ UNCHANGED <<pull, part, entry, meta, blob, faults, crashes>>
    BY DEF RunStart
  <1>3. /\ w \in Download /\ w.pc = "url" /\ w.next = 0 /\ w.parts = dl[d].parts
        /\ w.count = dl[d].count /\ w.refs = dl[d].refs /\ w.cancelled = dl[d].cancelled
    <2>1. dl[d] \in Download /\ 0 \in 0 .. NumParts
      BY RunFacts, Constants
    <2> QED BY <2>1 DEF Download
  <1> HIDE DEF w
  <1>4. /\ DlType' /\ PartType' /\ faults' \in 0 .. MaxFaults
        /\ \A e \in Downloads : dl'[e] = IF e = d THEN w ELSE dl[e]
    BY <1>2, <1>3, RunTypes
  <1>5. data' \in [Parts -> 0 .. PartSize] /\ (dl[d].parts = Parts => data' = data)
    <2>1. data' = [i \in Parts |-> IF i < Cardinality(dl[d].parts) THEN data[i] ELSE 0]
      BY DEF RunStart
    <2>2. dl[d].parts = Parts => \A i \in Parts : i < Cardinality(dl[d].parts)
      BY RunFacts, Constants DEF Parts
    <2> QED BY <2>1, <2>2, Constants DEF IInv, TypeOK
  <1>6. FilesType'
    BY <1>2, <1>5, TypeSplit DEF IInv, FilesType
  <1>7. WholeInv'
    BY <1>1, <1>2, <1>5, RunFacts DEF WholeInv, Found, PlanOwn
  <1>8. PlanOwn(d)'
    BY <1>1, <1>2, <1>3, <1>4, RunFacts DEF PlanOwn, Running, Found
  <1>9. HolesOwn(d)'
    BY <1>1, <1>2, <1>3, <1>4, <1>5, RunFacts DEF HolesOwn, Fetching
  <1>10. ProgressOwn(d)'
    BY <1>1, <1>2, <1>3, <1>4, RunFacts DEF ProgressOwn, Sum, Has
  <1>11. \A i \in Parts : PartOwn(d, i)'
    BY <1>1, <1>2, <1>3, <1>4, RunFacts DEF PartOwn
  <1>12. /\ \A e \in Downloads : e # d => dl'[e] = dl[e] /\ part'[e] = part[e]
         /\ dl'[d].refs = dl[d].refs /\ dl'[d].cancelled = dl[d].cancelled
    BY <1>2, <1>3, <1>4
  <1> QED BY <1>1, <1>2, <1>4, <1>6, <1>7, <1>8, <1>9, <1>10, <1>11, <1>12, RunStep

LEMMA RunFailsKeeps ==
  ASSUME IInv, NEW d \in Downloads, RunFails(d)
  PROVE  IInv'
  <1> DEFINE w == [dl[d] EXCEPT !.pc = "exit"]
  <1>1. dl[d].pc \in {"start", "url"} /\ Fetching(d)
    BY DEF RunFails, Fetching
  <1>2. /\ dl' = [dl EXCEPT ![d] = w] /\ UNCHANGED <<pull, part, entry, data, meta, blob, crashes>>
        /\ UNCHANGED faults \/ Fault
    BY DEF RunFails, files
  <1>3. w \in Download /\ w.pc = "exit" /\ w.refs = dl[d].refs /\ w.cancelled = dl[d].cancelled
    BY RunFacts DEF Download
  <1> HIDE DEF w
  <1>4. /\ DlType' /\ PartType' /\ FilesType' /\ faults' \in 0 .. MaxFaults
        /\ \A e \in Downloads : dl'[e] = IF e = d THEN w ELSE dl[e]
    BY <1>2, <1>3, RunTypes DEF files
  <1>5. WholeInv'
    BY <1>2, Frame DEF IInv
  <1>6. PlanOwn(d)' /\ HolesOwn(d)' /\ ProgressOwn(d)' /\ (Fetching(d)' => Fetching(d))
    BY <1>3, <1>4 DEF PlanOwn, HolesOwn, ProgressOwn, Running, Fetching
  <1>7. \A i \in Parts : PartOwn(d, i)'
    BY <1>1, <1>2, <1>3, <1>4, RunFacts DEF PartOwn
  <1>8. /\ \A e \in Downloads : e # d => dl'[e] = dl[e] /\ part'[e] = part[e]
        /\ dl'[d].refs = dl[d].refs /\ dl'[d].cancelled = dl[d].cancelled
    BY <1>2, <1>3, <1>4
  <1> QED BY <1>1, <1>2, <1>4, <1>5, <1>6, <1>7, <1>8, RunStep

LEMMA RunFetchKeeps ==
  ASSUME IInv, NEW d \in Downloads, RunFetch(d)
  PROVE  IInv'
  <1> DEFINE w == [dl[d] EXCEPT !.pc = "fetch"]
             st(i) == IF i \notin dl[d].parts THEN "idle"
                      ELSE IF part[d][i].comp = PartSize THEN "done" ELSE "fetch"
  <1>1. dl[d].pc = "url" /\ Running(d) /\ Fetching(d)
    BY DEF RunFetch, Running, Fetching
  <1>2. /\ dl' = [dl EXCEPT ![d] = w]
        /\ part' = [part EXCEPT ![d] = [i \in Parts |-> [part[d][i] EXCEPT !.st = st(i)]]]
        /\ UNCHANGED <<pull, entry, data, meta, blob, faults, crashes>>
    BY DEF RunFetch, files
  <1>3. /\ w \in Download /\ w.pc = "fetch" /\ w.next = dl[d].next /\ w.parts = dl[d].parts
        /\ w.count = dl[d].count /\ w.refs = dl[d].refs /\ w.cancelled = dl[d].cancelled
    BY RunFacts DEF Download
  <1> HIDE DEF w
  <1>4. /\ DlType' /\ FilesType' /\ faults' \in 0 .. MaxFaults
        /\ \A e \in Downloads : dl'[e] = IF e = d THEN w ELSE dl[e]
    BY <1>2, <1>3, RunTypes DEF files
  <1>5. /\ part' = [part EXCEPT ![d] = part'[d]] /\ part'[d] \in [Parts -> Part]
        /\ \A i \in Parts : /\ part'[d][i].st = st(i) /\ part'[d][i].comp = part[d][i].comp
                            /\ part'[d][i].got = part[d][i].got
                            /\ part'[d][i].tries = part[d][i].tries
    <2> DEFINE new(i) == [part[d][i] EXCEPT !.st = st(i)]
    <2>1. \A i \in Parts : /\ new(i) \in Part /\ new(i).st = st(i)
                           /\ new(i).comp = part[d][i].comp /\ new(i).got = part[d][i].got
                           /\ new(i).tries = part[d][i].tries
      <3> SUFFICES ASSUME NEW i \in Parts PROVE /\ new(i) \in Part /\ new(i).st = st(i)
                           /\ new(i).comp = part[d][i].comp /\ new(i).got = part[d][i].got
                           /\ new(i).tries = part[d][i].tries
        OBVIOUS
      <3>1. part[d][i] \in Part
        BY Fields DEF IInv
      <3>2. st(i) \in {"idle", "done", "fetch"}
        OBVIOUS
      <3> HIDE DEF st
      <3> QED BY <3>1, <3>2 DEF Part
    <2>2. part' = [part EXCEPT ![d] = [i \in Parts |-> new(i)]]
      BY <1>2
    <2> HIDE DEF new, st
    <2> QED BY <2>1, <2>2 DEF IInv, TypeOK
  <1>6. /\ PartType' /\ \A e \in Downloads : e # d => part'[e] = part[e]
    BY <1>5 DEF IInv, TypeOK, PartType
  <1>7. WholeInv'
    BY <1>2, Frame DEF IInv
  <1>8. PlanOwn(d)'
    BY <1>1, <1>2, <1>3, <1>4, <1>5, RunFacts DEF PlanOwn, Running, Found
  <1>9. HolesOwn(d)'
    BY <1>1, <1>2, <1>3, <1>4, <1>5, RunFacts DEF HolesOwn, Fetching
  <1>10. ProgressOwn(d)'
    <2>1. Sum(d)' = Sum(d)
      BY <1>3, <1>4, <1>5, RunFacts, SumSame DEF IInv
    <2> QED BY <1>1, <1>2, <1>3, <1>4, <2>1, RunFacts DEF ProgressOwn, Fetching
  <1>11. \A i \in Parts : PartOwn(d, i)'
    <2> SUFFICES ASSUME NEW i \in Parts PROVE PartOwn(d, i)'
      OBVIOUS
    <2>1. /\ part[d][i].comp \in 0 .. PartSize /\ part[d][i].got \in 0 .. PartSize
          /\ part[d][i].tries = 0 /\ part[d][i].comp + part[d][i].got <= PartSize
      BY <1>1, Fields, RunFacts DEF IInv, PartOwn
    <2>2. part[d][i].comp = PartSize => part[d][i].got = 0
      BY <2>1, Constants
    <2> QED BY <1>3, <1>4, <1>5, <2>1, <2>2, Constants DEF PartOwn
  <1>12. /\ \A e \in Downloads : e # d => dl'[e] = dl[e] /\ part'[e] = part[e]
         /\ dl'[d].refs = dl[d].refs /\ dl'[d].cancelled = dl[d].cancelled
    BY <1>3, <1>4, <1>6
  <1> QED BY <1>1, <1>2, <1>4, <1>6, <1>7, <1>8, <1>9, <1>10, <1>11, <1>12, RunStep

\* When the goroutines of all parts have returned, what they did not fail at is there.
LEMMA RunWaitedKeeps ==
  ASSUME IInv, NEW d \in Downloads, RunWaited(d)
  PROVE  IInv'
  <1> DEFINE all == \A i \in dl[d].parts : part[d][i].st = "done"
             w == [dl[d] EXCEPT !.pc = IF all THEN "remove" ELSE "exit"]
  <1>1. /\ dl[d].pc = "fetch" /\ Running(d) /\ Fetching(d)
        /\ \A i \in dl[d].parts : part[d][i].st \in {"done", "fail"}
    BY DEF RunWaited, Running, Fetching
  <1>2. /\ dl' = [dl EXCEPT ![d] = w]
        /\ UNCHANGED <<pull, part, entry, data, meta, blob, faults, crashes>>
    BY DEF RunWaited, files
  <1>3. /\ w \in Download /\ w.pc \in {"remove", "exit"} /\ (w.pc = "remove" => all)
        /\ w.next = dl[d].next /\ w.parts = dl[d].parts
        /\ w.count = dl[d].count /\ w.refs = dl[d].refs /\ w.cancelled = dl[d].cancelled
    <2>1. dl[d] \in Download
      BY RunFacts
    <2> HIDE DEF all
    <2> QED BY <2>1 DEF Download
  <1> HIDE DEF w
  <1>4. /\ DlType' /\ PartType' /\ FilesType' /\ faults' \in 0 .. MaxFaults
        /\ \A e \in Downloads : dl'[e] = IF e = d THEN w ELSE dl[e]
    BY <1>2, <1>3, RunTypes DEF files
  <1>5. WholeInv'
    BY <1>2, Frame DEF IInv
  <1>6. PlanOwn(d)'
    BY <1>1, <1>3, <1>4, RunFacts DEF PlanOwn, Running
  <1>7. HolesOwn(d)'
    <2> SUFFICES ASSUME w.pc = "remove", dl[d].parts = Parts, NEW i \in Parts
                 PROVE  part[d][i].comp + part[d][i].got <= data[i] /\ data[i] = PartSize
      BY <1>2, <1>3, <1>4 DEF HolesOwn, Fetching
    <2>1. part[d][i].comp + part[d][i].got <= data[i]
      BY <1>1, RunFacts DEF HolesOwn
    <2>2. part[d][i].comp = PartSize /\ part[d][i].got = 0
      BY <1>3, RunFacts DEF PartOwn
    <2>3. data[i] \in 0 .. PartSize
      BY Fields DEF IInv
    <2> QED BY <2>1, <2>2, <2>3, Constants
  <1>8. ProgressOwn(d)'
    BY <1>1, <1>2, <1>3, <1>4, RunFacts DEF ProgressOwn, Sum, Has
  <1>9. \A i \in Parts : PartOwn(d, i)'
    BY <1>1, <1>2, <1>3, <1>4, RunFacts DEF PartOwn
  <1>10. /\ \A e \in Downloads : e # d => dl'[e] = dl[e] /\ part'[e] = part[e]
         /\ dl'[d].refs = dl[d].refs /\ dl'[d].cancelled = dl[d].cancelled
    BY <1>2, <1>3, <1>4
  <1> QED BY <1>1, <1>2, <1>4, <1>5, <1>6, <1>7, <1>8, <1>9, <1>10, RunStep

\* The first part file to go is number 0: from then on no plan is whole.
LEMMA RunRemoveKeeps ==
  ASSUME IInv, NEW d \in Downloads, RunRemove(d)
  PROVE  IInv'
  <1> DEFINE n == dl[d].next
             w == dl'[d]
  <1>1. dl[d].pc = "remove" /\ Fetching(d) /\ n < Cardinality(dl[d].parts)
    BY DEF RunRemove, Fetching
  <1>2. n \in Parts /\ n + 1 \in 0 .. NumParts
    <2>1. n \in 0 .. NumParts
      BY RunFacts DEF Download
    <2>2. n < NumParts
      BY <1>1, <2>1, RunFacts, Constants
    <2> QED BY <2>1, <2>2, Constants DEF Parts
  <1>3. /\ dl' = [dl EXCEPT ![d] = w] /\ w \in Download /\ w.refs = dl[d].refs
        /\ w.cancelled = dl[d].cancelled /\ w.parts = dl[d].parts /\ w.count = dl[d].count
        /\ \/ w.pc = "exit" /\ meta' = meta
           \/ w.pc = "remove" /\ w.next = n + 1 /\ meta' = [meta EXCEPT ![n] = Absent]
    <2>1. \/ dl' = [dl EXCEPT ![d] = [dl[d] EXCEPT !.pc = "exit"]] /\ meta' = meta
          \/ /\ dl' = [dl EXCEPT ![d] = [dl[d] EXCEPT !.next = n + 1]]
             /\ meta' = [meta EXCEPT ![n] = Absent]
      BY DEF RunRemove
    <2>2. \/ w = [dl[d] EXCEPT !.pc = "exit"] /\ meta' = meta
          \/ w = [dl[d] EXCEPT !.next = n + 1] /\ meta' = [meta EXCEPT ![n] = Absent]
      BY <2>1 DEF IInv, TypeOK
    <2>3. dl' = [dl EXCEPT ![d] = w]
      BY <2>1 DEF IInv, TypeOK
    <2>4. dl[d] \in Download
      BY RunFacts
    <2> HIDE DEF w, n
    <2> QED BY <1>1, <1>2, <2>2, <2>3, <2>4 DEF Download
  <1>4. UNCHANGED <<pull, part, entry, data, blob, faults, crashes>>
    BY DEF RunRemove
  <1> HIDE DEF w
  <1>5. /\ DlType' /\ PartType' /\ faults' \in 0 .. MaxFaults
        /\ \A e \in Downloads : dl'[e] = IF e = d THEN w ELSE dl[e]
    BY <1>3, <1>4, RunTypes
  <1>6. \A j \in Parts : meta'[j] = meta[j] \/ (w.pc = "remove" /\ j = n /\ meta'[j] = Absent)
    BY <1>3 DEF IInv, TypeOK
  <1>7. FilesType'
    BY <1>3, <1>4, TypeSplit DEF IInv, FilesType
  <1>8. WholeInv'
    <2>1. CASE meta' = meta
      BY <1>4, <2>1, Frame DEF IInv
    <2>2. CASE meta' # meta
      <3>1. meta'[n] = Absent
        BY <1>2, <1>3, <2>2 DEF IInv, TypeOK
      <3> QED BY <1>2, <3>1 DEF WholeInv, Found
    <2> QED BY <2>1, <2>2
  <1>9. PlanOwn(d)'
    <2>1. dl[d].parts # {} /\ (n > 0 => meta[0] = Absent)
      BY <1>1, RunFacts DEF PlanOwn
    <2>2. w.pc = "remove" => meta'[0] = Absent
      <3> SUFFICES ASSUME w.pc = "remove" PROVE meta'[0] = Absent
        OBVIOUS
      <3>1. meta' = [meta EXCEPT ![n] = Absent]
        BY <1>3
      <3>2. n = 0 \/ n > 0
        BY <1>2 DEF Parts
      <3> QED BY <2>1, <3>1, <3>2, Constants DEF IInv, TypeOK
    <2> QED BY <1>3, <1>5, <2>1, <2>2 DEF PlanOwn, Running
  <1>10. HolesOwn(d)'
    <2>1. HolesOwn(d)
      BY RunFacts
    <2> QED BY <1>1, <1>3, <1>4, <1>5, <2>1 DEF HolesOwn, Fetching
  <1>11. ProgressOwn(d)'
    BY <1>1, <1>3, <1>4, <1>5, RunFacts DEF ProgressOwn, Sum, Has
  <1>12. \A i \in Parts : PartOwn(d, i)'
    <2>1. \A i \in Parts : PartOwn(d, i)
      BY RunFacts
    <2> QED BY <1>1, <1>3, <1>4, <1>5, <2>1 DEF PartOwn
  <1>13. /\ \A e \in Downloads : e # d => dl'[e] = dl[e] /\ part'[e] = part[e]
         /\ dl'[d].refs = dl[d].refs /\ dl'[d].cancelled = dl[d].cancelled
    BY <1>3, <1>4, <1>5
  <1> QED BY <1>1, <1>4, <1>5, <1>7, <1>8, <1>9, <1>10, <1>11, <1>12, <1>13, RunStep

\* The partial file is renamed when part file 0 is gone.
LEMMA RunRenameKeeps ==
  ASSUME IInv, NEW d \in Downloads, RunRename(d)
  PROVE  IInv'
  <1> DEFINE w == dl'[d]
  <1>1. dl[d].pc = "remove" /\ Fetching(d) /\ dl[d].next = Cardinality(dl[d].parts)
    BY DEF RunRename, Fetching
  <1>2. meta[0] = Absent
    BY <1>1, RunFacts DEF PlanOwn
  <1>3. /\ dl' = [dl EXCEPT ![d] = w] /\ w \in Download /\ w.refs = dl[d].refs
        /\ w.cancelled = dl[d].cancelled /\ w.pc = "exit"
    <2>1. \/ dl' = [dl EXCEPT ![d] = [dl[d] EXCEPT !.pc = "exit", !.ok = TRUE]]
          \/ dl' = [dl EXCEPT ![d] = [dl[d] EXCEPT !.pc = "exit"]]
      BY DEF RunRename
    <2>2. \/ w = [dl[d] EXCEPT !.pc = "exit", !.ok = TRUE]
          \/ w = [dl[d] EXCEPT !.pc = "exit"]
      BY <2>1 DEF IInv, TypeOK
    <2>3. dl' = [dl EXCEPT ![d] = w]
      BY <2>1 DEF IInv, TypeOK
    <2>4. dl[d] \in Download
      BY RunFacts
    <2> HIDE DEF w
    <2> QED BY <2>2, <2>3, <2>4 DEF Download
  <1>4. /\ UNCHANGED <<pull, part, entry, meta, crashes>> /\ (UNCHANGED faults \/ Fault)
        /\ data' \in {data, [i \in Parts |-> 0]} /\ blob' \in {blob, "good", "bad"}
    BY DEF RunRename
  <1> HIDE DEF w
  <1>5. /\ DlType' /\ PartType' /\ faults' \in 0 .. MaxFaults
        /\ \A e \in Downloads : dl'[e] = IF e = d THEN w ELSE dl[e]
    BY <1>3, <1>4, RunTypes
  <1>6. FilesType'
    BY <1>4, TypeSplit, Constants DEF IInv, FilesType
  <1>7. WholeInv'
    BY <1>2, <1>4, Constants DEF WholeInv, Found
  <1>8. PlanOwn(d)' /\ HolesOwn(d)' /\ ProgressOwn(d)'
    BY <1>3, <1>5 DEF PlanOwn, HolesOwn, ProgressOwn, Running, Fetching
  <1>9. \A i \in Parts : PartOwn(d, i)'
    <2>1. \A i \in Parts : PartOwn(d, i)
      BY RunFacts
    <2> QED BY <1>1, <1>3, <1>4, <1>5, <2>1 DEF PartOwn
  <1>10. /\ \A e \in Downloads : e # d => dl'[e] = dl[e] /\ part'[e] = part[e]
         /\ dl'[d].refs = dl[d].refs /\ dl'[d].cancelled = dl[d].cancelled
    BY <1>3, <1>4, <1>5
  <1> QED BY <1>1, <1>4, <1>5, <1>6, <1>7, <1>8, <1>9, <1>10, RunStep

LEMMA RunDeleteKeeps ==
  ASSUME IInv, NEW d \in Downloads, RunDelete(d)
  PROVE  IInv'
  <1> DEFINE w == [dl[d] EXCEPT !.pc = "deleted"]
  <1>1. dl[d].pc = "exit"
    BY DEF RunDelete
  <1>2. /\ dl' = [dl EXCEPT ![d] = w] /\ entry' = None
        /\ UNCHANGED <<pull, part, data, meta, blob, faults, crashes>>
    BY DEF RunDelete, files
  <1>3. w \in Download /\ w.pc = "deleted" /\ w.refs = dl[d].refs /\ w.cancelled = dl[d].cancelled
    BY RunFacts DEF Download
  <1> HIDE DEF w
  <1>4. /\ DlType' /\ PartType' /\ FilesType' /\ faults' \in 0 .. MaxFaults
        /\ \A e \in Downloads : dl'[e] = IF e = d THEN w ELSE dl[e]
    BY <1>2, <1>3, RunTypes DEF files
  <1>5. WholeInv'
    BY <1>2, Frame DEF IInv
  <1>6. PlanOwn(d)' /\ HolesOwn(d)' /\ ProgressOwn(d)' /\ ~Fetching(d)' /\ ~Working(d)'
    BY <1>3, <1>4 DEF PlanOwn, HolesOwn, ProgressOwn, Running, Fetching, Working
  <1>7. \A i \in Parts : PartOwn(d, i)'
    <2>1. \A i \in Parts : PartOwn(d, i)
      BY RunFacts
    <2> QED BY <1>1, <1>2, <1>3, <1>4, <2>1 DEF PartOwn
  <1>8. /\ \A e \in Downloads : e # d => dl'[e] = dl[e] /\ part'[e] = part[e]
        /\ dl'[d].refs = dl[d].refs /\ dl'[d].cancelled = dl[d].cancelled
    BY <1>2, <1>3, <1>4
  <1> QED BY <1>1, <1>2, <1>4, <1>5, <1>6, <1>7, <1>8, RunStep

LEMMA RunClosesKeeps ==
  ASSUME IInv, NEW d \in Downloads, RunCloses(d)
  PROVE  IInv'
  <1> DEFINE w == [dl[d] EXCEPT !.pc = "over"]
  <1>1. dl[d].pc = "deleted"
    BY DEF RunCloses
  <1>2. /\ dl' = [dl EXCEPT ![d] = w]
        /\ UNCHANGED <<pull, part, entry, data, meta, blob, faults, crashes>>
    BY DEF RunCloses, files
  <1>3. w \in Download /\ w.pc = "over" /\ w.refs = dl[d].refs /\ w.cancelled = dl[d].cancelled
    BY RunFacts DEF Download
  <1> HIDE DEF w
  <1>4. /\ DlType' /\ PartType' /\ FilesType'
        /\ \A e \in Downloads : dl'[e] = IF e = d THEN w ELSE dl[e]
    BY <1>2, <1>3, RunTypes DEF files
  <1>5. TypeOK'
    BY <1>2, <1>4, TypeSplit, Frame DEF IInv
  <1>6. OneWriter' /\ PartInv'
    BY <1>1, <1>2, <1>3, <1>4 DEF IInv, OneWriter, Working, PartInv, PartOwn
  <1>7. PullInv'
    BY <1>1, <1>2, <1>3, <1>4 DEF IInv, PullInv, PullOwn, Preparing, Downloads
  <1>8. RefsExact'
    BY <1>2, <1>3, <1>4, RefsFrame DEF IInv
  <1>9. AbandonedIsCancelled'
    BY <1>2, <1>3, <1>4, WantedFrame DEF IInv, Fetching, Asks
  <1>10. PlanInv'
    <2>1. \A p \in Pulls : pull[p].pc = "create" => p # d
      BY <1>1 DEF IInv, PullInv, PullOwn, Preparing
    <2> QED BY <1>2, <1>3, <1>4, <2>1
            DEF IInv, PlanInv, PlanPull, PlanOwn, Running, Found, Downloads
  <1>11. WholeInv' /\ NoHoles' /\ ProgressExact'
    BY <1>2, <1>3, <1>4, Frame DEF IInv, NoHoles, ProgressExact
  <1> QED BY <1>5, <1>6, <1>7, <1>8, <1>9, <1>10, <1>11 DEF IInv

----------------------------------------------------------------------------
(* The steps of the goroutine of a part.                                   *)

\* The sum of a plan of which one part changes.
LEMMA SumChange ==
  ASSUME TypeOK, NEW d \in Downloads, NEW i \in dl[d].parts, dl'[d].parts = dl[d].parts,
         part'[d][i].comp \in Int, part'[d][i].got \in Int,
         \A j \in Parts : j # i => part'[d][j] = part[d][j]
  PROVE  Sum(d)' = Sum(d) + ((part'[d][i].comp + part'[d][i].got)
                             - (part[d][i].comp + part[d][i].got))
  <1>1. dl[d].parts \in SUBSET Parts /\ IsFiniteSet(dl[d].parts)
    BY Fields, PartsFinite
  <1>2. /\ \A j \in dl[d].parts : Has(d)[j] \in Int /\ Has(d)'[j] \in Int
        /\ \A j \in dl[d].parts \ {i} : Has(d)'[j] = Has(d)[j]
    BY <1>1, Fields DEF Has
  <1>3. /\ Has(d)[i] = part[d][i].comp + part[d][i].got
        /\ Has(d)'[i] = part'[d][i].comp + part'[d][i].got
    BY <1>1 DEF Has
  <1> HIDE DEF Has
  <1>4. Total(Has(d)', dl[d].parts) = Total(Has(d), dl[d].parts) + (Has(d)'[i] - Has(d)[i])
    <2>1. PICK S : S = dl[d].parts
      OBVIOUS
    <2>2. PICK f : f = Has(d)
      OBVIOUS
    <2>3. PICK g : g = Has(d)'
      OBVIOUS
    <2>4. /\ IsFiniteSet(S) /\ i \in S
          /\ \A j \in S : f[j] \in Int /\ g[j] \in Int
          /\ \A j \in S \ {i} : g[j] = f[j]
      BY <1>1, <1>2, <2>1, <2>2, <2>3
    <2>5. Total(g, S) = Total(f, S) + (g[i] - f[i])
      BY <2>4, TotalChange
    <2> QED BY <2>1, <2>2, <2>3, <2>5
  <1> QED BY <1>3, <1>4 DEF Sum

\* A goroutine of a part changes its part, its part of the file, its part file and the count.
LEMMA ChunkStep ==
  ASSUME IInv, NEW d \in Downloads, NEW i \in Parts,
         part[d][i].st \in {"fetch", "ok", "stop", "stall", "eof"},
         UNCHANGED <<pull, entry, blob, crashes>>, faults' \in 0 .. MaxFaults,
         NEW v \in Part, part' = [part EXCEPT ![d][i] = v],
         v.comp + v.got <= PartSize, v.tries = MaxRetries => v.st = "fail",
         v.st \in {"ok", "done"} => v.comp = PartSize /\ v.got = 0,
         NEW n \in Int, dl' = [dl EXCEPT ![d].count = n],
         NEW b \in 0 .. PartSize, data' = [data EXCEPT ![i] = b], b >= data[i],
         dl[d].parts = Parts => v.comp + v.got <= b,
         NEW m \in {Torn} \cup 0 .. PartSize, meta' = [meta EXCEPT ![i] = m], m <= v.comp,
         n \in (Sum(d) + ((v.comp + v.got) - (part[d][i].comp + part[d][i].got))) ..
               (Sum(d) + ((v.comp + v.got) - (part[d][i].comp + part[d][i].got)) + faults')
  PROVE  IInv'
  <1>1. dl[d].pc = "fetch" /\ i \in dl[d].parts /\ Running(d) /\ Fetching(d)
        /\ dl[d].parts = Found /\ Found # {} /\ meta[i] # Absent
    BY RunFacts DEF PartOwn, PlanOwn, Running, Fetching, Found
  <1>2. /\ \A e \in Downloads : e # d => dl'[e] = dl[e] /\ part'[e] = part[e]
        /\ dl'[d].pc = dl[d].pc /\ dl'[d].parts = dl[d].parts /\ dl'[d].next = dl[d].next
        /\ dl'[d].refs = dl[d].refs /\ dl'[d].cancelled = dl[d].cancelled /\ dl'[d].count = n
    <2>1. dl[d] \in Download
      BY RunFacts
    <2>2. dl'[d] = [dl[d] EXCEPT !.count = n]
      BY DEF IInv, TypeOK
    <2>3. \A e \in Downloads : e # d => dl'[e] = dl[e] /\ part'[e] = part[e]
      BY DEF IInv, TypeOK
    <2> QED BY <2>1, <2>2, <2>3 DEF Download
  <1>3. part'[d][i] = v /\ \A j \in Parts : j # i => part'[d][j] = part[d][j]
    BY DEF IInv, TypeOK
  <1>4. \A j \in Parts : data'[j] = (IF j = i THEN b ELSE data[j])
                         /\ meta'[j] = IF j = i THEN m ELSE meta[j]
    BY DEF IInv, TypeOK
  <1>5. DlType' /\ PartType' /\ FilesType'
    <2>1. DlType'
      <3>1. [dl[d] EXCEPT !.count = n] \in Download
        BY RunFacts DEF Download
      <3> QED BY <3>1 DEF IInv, TypeOK, DlType
    <2>2. PartType'
      BY TypeSplit, PartUpdate DEF IInv
    <2>3. FilesType'
      BY TypeSplit DEF IInv, FilesType
    <2> QED BY <2>1, <2>2, <2>3
  <1>6. Found' = Found
    BY <1>1, <1>4 DEF Found, Absent, Torn
  <1>7. \A j \in Parts : data[j] \in Int /\ data[j] <= data'[j] /\ data'[j] \in Int
                         /\ meta'[j] \in Int
    BY <1>4, Fields DEF IInv, Absent, Torn
  <1>8. v.comp \in 0 .. PartSize /\ v.got \in 0 .. PartSize
    BY DEF Part
  <1>9. HolesOwn(d)'
    <2> SUFFICES ASSUME dl[d].parts = Parts, NEW j \in Parts
                 PROVE  part'[d][j].comp + part'[d][j].got <= data'[j]
      BY <1>1, <1>2 DEF HolesOwn
    <2>1. CASE j = i
      BY <1>3, <1>4, <2>1
    <2>2. CASE j # i
      <3>1. part[d][j].comp + part[d][j].got <= data[j]
        BY <1>1, RunFacts DEF HolesOwn
      <3> QED BY <1>3, <1>4, <2>2, <3>1
    <2> QED BY <2>1, <2>2
  <1>10. WholeInv'
    <2> SUFFICES ASSUME Found = Parts, NEW j \in Parts PROVE meta'[j] <= data'[j]
      BY <1>6 DEF WholeInv
    <2>1. CASE j = i
      BY <1>1, <1>4, <1>8, <2>1 DEF Torn
    <2>2. CASE j # i
      BY <1>4, <2>2, RunFacts DEF WholeInv
    <2> QED BY <2>1, <2>2
  <1>11. PlanOwn(d)'
    <2>1. PlanOwn(d)
      BY RunFacts
    <2>2. \A j \in Found : meta'[j] <= part'[d][j].comp
      BY <1>1, <1>3, <1>4, <2>1 DEF PlanOwn, Found
    <2> QED BY <1>1, <1>2, <1>6, <2>1, <2>2 DEF PlanOwn, Running
  <1>12. ProgressOwn(d)'
    <2>1. Sum(d)' = Sum(d) + ((v.comp + v.got) - (part[d][i].comp + part[d][i].got))
      BY <1>1, <1>2, <1>3, <1>8, SumChange DEF IInv
    <2> QED BY <1>2, <2>1 DEF ProgressOwn
  <1>13. \A j \in Parts : PartOwn(d, j)'
    <2> SUFFICES ASSUME NEW j \in Parts PROVE PartOwn(d, j)'
      OBVIOUS
    <2>1. CASE j = i
      BY <1>1, <1>2, <1>3, <2>1 DEF PartOwn
    <2>2. CASE j # i
      BY <1>1, <1>2, <1>3, <2>2, RunFacts DEF PartOwn
    <2> QED BY <2>1, <2>2
  <1> QED BY <1>1, <1>2, <1>5, <1>9, <1>10, <1>11, <1>12, <1>13, RunStep

LEMMA ChunkReadKeeps ==
  ASSUME IInv, NEW d \in Downloads, NEW i \in Parts, ChunkRead(d, i)
  PROVE  IInv'
  <1> DEFINE q == part[d][i]
             v == [q EXCEPT !.got = q.got + 1]
             b == IF data[i] = q.comp + q.got THEN q.comp + q.got + 1 ELSE data[i]
  <1>1. dl[d].pc = "fetch" /\ q.st = "fetch" /\ q.comp + q.got < PartSize
    BY DEF ChunkRead
  <1>2. /\ data' = [data EXCEPT ![i] = b] /\ part' = [part EXCEPT ![d][i] = v]
        /\ dl' = [dl EXCEPT ![d].count = dl[d].count + 1]
        /\ UNCHANGED <<pull, entry, meta, blob, faults, crashes>>
    BY DEF ChunkRead
  <1>3. q \in Part /\ q.comp \in 0 .. PartSize /\ q.got \in 0 .. PartSize
        /\ data[i] \in 0 .. PartSize /\ meta[i] \in {Absent, Torn} \cup 0 .. PartSize
    BY Fields DEF IInv
  <1>4. PartOwn(d, i) /\ PlanOwn(d) /\ HolesOwn(d) /\ ProgressOwn(d)
    BY RunFacts
  <1>5. Fetching(d) /\ Running(d)
    BY <1>1 DEF Fetching, Running
  <1>6. /\ v \in Part /\ v.comp = q.comp /\ v.got = q.got + 1 /\ v.st = "fetch"
        /\ v.tries = q.tries
    <2>1. q.got + 1 \in 0 .. PartSize
      BY <1>1, <1>3, Constants
    <2> HIDE DEF q
    <2> QED BY <1>1, <1>3, <2>1 DEF Part
  <1>7. b \in 0 .. PartSize /\ b >= data[i] /\ (dl[d].parts = Parts => v.comp + v.got <= b)
    <2>1. dl[d].parts = Parts => q.comp + q.got <= data[i]
      BY <1>4, <1>5 DEF HolesOwn
    <2> QED BY <1>1, <1>3, <1>6, <2>1, Constants
  <1>8. /\ meta[i] \in {Torn} \cup 0 .. PartSize /\ meta[i] <= v.comp
        /\ meta' = [meta EXCEPT ![i] = meta[i]]
    BY <1>1, <1>2, <1>3, <1>4, <1>5, <1>6 DEF PartOwn, PlanOwn, Found, IInv, TypeOK
  <1>9. v.comp + v.got <= PartSize /\ v.tries # MaxRetries
    <2>1. q.tries # MaxRetries
      BY <1>1, <1>4 DEF PartOwn
    <2> HIDE DEF v, q
    <2> QED BY <1>1, <1>3, <1>6, <2>1, Constants
  <1>10. /\ dl[d].count + 1 \in Int /\ faults' \in 0 .. MaxFaults
         /\ dl[d].count + 1 \in (Sum(d) + ((v.comp + v.got) - (q.comp + q.got))) ..
                                (Sum(d) + ((v.comp + v.got) - (q.comp + q.got)) + faults')
    <2>1. (v.comp + v.got) - (q.comp + q.got) = 1
      BY <1>3, <1>6
    <2> HIDE DEF v, q
    <2> QED BY <1>2, <1>4, <1>5, <2>1, RunFacts DEF ProgressOwn
  <1> HIDE DEF v, b
  <1> QED BY <1>1, <1>2, <1>6, <1>7, <1>8, <1>9, <1>10, ChunkStep

\* What the steps of a part start from.
LEMMA ChunkFacts ==
  ASSUME IInv, NEW d \in Downloads, NEW i \in Parts,
         part[d][i].st \in {"fetch", "ok", "stop", "stall", "eof"}
  PROVE  /\ dl[d].pc = "fetch" /\ i \in dl[d].parts
         /\ part[d][i] \in Part /\ part[d][i].comp \in 0 .. PartSize
         /\ part[d][i].got \in 0 .. PartSize /\ part[d][i].comp + part[d][i].got <= PartSize
         /\ part[d][i].tries \in 0 .. MaxRetries /\ part[d][i].tries # MaxRetries
         /\ part[d][i].tries + 1 \in 0 .. MaxRetries
         /\ part[d][i].st = "ok" => part[d][i].comp = PartSize /\ part[d][i].got = 0
         /\ data[i] \in 0 .. PartSize
         /\ data' = data => data' = [data EXCEPT ![i] = data[i]]
         /\ meta[i] \in {Torn} \cup 0 .. PartSize /\ meta[i] <= part[d][i].comp
         /\ meta' = meta => meta' = [meta EXCEPT ![i] = meta[i]]
         /\ dl[d].parts = Parts => part[d][i].comp + part[d][i].got <= data[i]
         /\ dl[d].count \in Sum(d) .. (Sum(d) + faults) /\ Sum(d) \in Int /\ dl[d].count \in Int
         /\ dl' = dl => dl' = [dl EXCEPT ![d].count = dl[d].count]
  <1>1. PartOwn(d, i) /\ PlanOwn(d) /\ HolesOwn(d) /\ ProgressOwn(d)
    BY RunFacts
  <1>2. dl[d].pc = "fetch" /\ i \in dl[d].parts /\ Running(d) /\ Fetching(d)
    BY <1>1 DEF PartOwn, Running, Fetching
  <1>3. /\ part[d][i] \in Part /\ part[d][i].comp \in 0 .. PartSize
        /\ part[d][i].got \in 0 .. PartSize /\ part[d][i].tries \in 0 .. MaxRetries
        /\ data[i] \in 0 .. PartSize /\ meta[i] \in {Absent, Torn} \cup 0 .. PartSize
        /\ dl[d] \in Download
    BY Fields DEF IInv
  <1>4. /\ part[d][i].comp + part[d][i].got <= PartSize /\ part[d][i].tries # MaxRetries
        /\ part[d][i].st = "ok" => part[d][i].comp = PartSize /\ part[d][i].got = 0
    BY <1>1 DEF PartOwn
  <1>5. part[d][i].tries + 1 \in 0 .. MaxRetries
    <2> DEFINE t == part[d][i].tries
    <2>1. t \in 0 .. MaxRetries /\ t # MaxRetries
      BY <1>3, <1>4
    <2> HIDE DEF t
    <2>2. t + 1 \in 0 .. MaxRetries
      BY <2>1, Constants
    <2> QED BY <2>2 DEF t
  <1>6. meta[i] \in {Torn} \cup 0 .. PartSize /\ meta[i] <= part[d][i].comp
    BY <1>1, <1>2, <1>3 DEF PlanOwn, Found
  <1>7. dl[d].parts = Parts => part[d][i].comp + part[d][i].got <= data[i]
    BY <1>1, <1>2 DEF HolesOwn
  <1>8. dl[d].count \in Sum(d) .. (Sum(d) + faults) /\ Sum(d) \in Int /\ dl[d].count \in Int
    BY <1>1, <1>2, RunFacts DEF ProgressOwn
  <1>9. /\ data' = data => data' = [data EXCEPT ![i] = data[i]]
        /\ meta' = meta => meta' = [meta EXCEPT ![i] = meta[i]]
        /\ dl' = dl => dl' = [dl EXCEPT ![d].count = dl[d].count]
    <2>1. dl' = dl => dl' = [dl EXCEPT ![d].count = dl[d].count]
      BY <1>3 DEF IInv, TypeOK, Download
    <2> QED BY <2>1 DEF IInv, TypeOK
  <1> QED BY <1>2, <1>3, <1>4, <1>5, <1>6, <1>7, <1>8, <1>9

\* An attempt that ends: what it copied is the progress of the part.
LEMMA ChunkEndsKeeps ==
  ASSUME IInv, NEW d \in Downloads, NEW i \in Parts, NEW why \in {"ok", "stop", "stall", "eof"},
         ChunkEnds(d, i, why)
  PROVE  IInv'
  <1> DEFINE q == part[d][i]
             v == [q EXCEPT !.comp = q.comp + q.got, !.got = 0, !.st = why]
  <1>1. /\ q.st = "fetch" /\ (why = "ok" => q.comp + q.got = PartSize)
        /\ part' = [part EXCEPT ![d][i] = v]
        /\ UNCHANGED <<pull, dl, entry, data, meta, blob, crashes>>
        /\ UNCHANGED faults \/ Fault
    BY DEF ChunkEnds, files
  <1>2. /\ q \in Part /\ q.comp \in 0 .. PartSize /\ q.got \in 0 .. PartSize
        /\ q.comp + q.got <= PartSize /\ q.tries # MaxRetries
    BY <1>1, ChunkFacts
  <1>3. /\ v \in Part /\ v.comp = q.comp + q.got /\ v.got = 0 /\ v.st = why
        /\ v.tries = q.tries
    <2>1. q.comp + q.got \in 0 .. PartSize /\ 0 \in 0 .. PartSize
      BY <1>2, Constants
    <2> HIDE DEF q
    <2> QED BY <1>2, <2>1 DEF Part
  <1> HIDE DEF v
  <1>4. v.comp + v.got <= PartSize /\ v.tries # MaxRetries
        /\ (v.st = "ok" => v.comp = PartSize /\ v.got = 0) /\ v.st # "done"
    BY <1>1, <1>2, <1>3
  <1>5. /\ data[i] \in 0 .. PartSize /\ data' = [data EXCEPT ![i] = data[i]]
        /\ meta[i] \in {Torn} \cup 0 .. PartSize /\ meta' = [meta EXCEPT ![i] = meta[i]]
        /\ dl[d].count \in Int /\ dl' = [dl EXCEPT ![d].count = dl[d].count]
    BY <1>1, ChunkFacts
  <1>6. /\ data[i] >= data[i] /\ (dl[d].parts = Parts => v.comp + v.got <= data[i])
        /\ meta[i] <= v.comp
    <2>1. /\ dl[d].parts = Parts => q.comp + q.got <= data[i]
          /\ meta[i] <= q.comp
      BY <1>1, ChunkFacts
    <2> HIDE DEF q
    <2> QED BY <1>2, <1>3, <1>5, <2>1 DEF Torn
  <1>7. /\ faults' \in 0 .. MaxFaults
        /\ dl[d].count \in (Sum(d) + ((v.comp + v.got) - (q.comp + q.got))) ..
                           (Sum(d) + ((v.comp + v.got) - (q.comp + q.got)) + faults')
    <2>1. (v.comp + v.got) - (q.comp + q.got) = 0
      BY <1>2, <1>3
    <2>2. dl[d].count \in Sum(d) .. (Sum(d) + faults) /\ Sum(d) \in Int /\ dl[d].count \in Int
      BY <1>1, ChunkFacts
    <2>3. faults' \in 0 .. MaxFaults
      BY <1>1, TypeSplit, FaultType DEF IInv, OtherType
    <2>4. faults' >= faults /\ faults \in Int /\ faults' \in Int
      BY <1>1, <2>3, RunFacts DEF Fault
    <2> HIDE DEF q
    <2> QED BY <2>1, <2>2, <2>3, <2>4
  <1> QED BY <1>1, <1>3, <1>4, <1>5, <1>6, <1>7, ChunkStep

\* What may become of a part between two attempts.
LEMMA Again ==
  ASSUME IInv, NEW d \in Downloads, NEW i \in Parts,
         part[d][i].st \in {"fetch", "ok", "stop", "stall", "eof"},
         NEW s \in {AfterSave(part[d][i])} \cup Broken(part[d][i].tries),
         s = AfterSave(part[d][i]) => part[d][i].st # "fetch"
  PROVE  /\ s.st \in {"fetch", "fail", "done"} /\ s.tries \in 0 .. MaxRetries
         /\ s.tries = MaxRetries => s.st = "fail"
         /\ s.st = "done" => part[d][i].comp = PartSize /\ part[d][i].got = 0
  <1> DEFINE q == part[d][i]
  <1>1. /\ q.tries \in 0 .. MaxRetries /\ q.tries # MaxRetries /\ q.tries + 1 \in 0 .. MaxRetries
        /\ q.st = "ok" => q.comp = PartSize /\ q.got = 0
    BY ChunkFacts
  <1> HIDE DEF q
  <1>2. /\ Retry(q.tries).st \in {"fetch", "fail"} /\ Retry(q.tries).tries = q.tries + 1
        /\ q.tries + 1 = MaxRetries => Retry(q.tries).st = "fail"
    BY <1>1, Constants DEF Retry
  <1>3. CASE s \in Broken(q.tries)
    BY <1>1, <1>2, <1>3 DEF Broken
  <1>4. CASE s = AfterSave(q)
    <2>1. q.st \in {"ok", "stop", "stall", "eof"}
      BY <1>4 DEF q
    <2>2. CASE q.st = "eof"
      BY <1>1, <1>2, <1>4, <2>2 DEF AfterSave
    <2>3. CASE q.st = "ok"
      BY <1>1, <1>4, <2>3 DEF AfterSave, q
    <2>4. CASE q.st \in {"stop", "stall"}
      BY <1>1, <1>4, <2>4 DEF AfterSave
    <2> QED BY <2>1, <2>2, <2>3, <2>4
  <1> QED BY <1>1, <1>3, <1>4 DEF q

\* The part file is written, or is not, and the part goes on.
LEMMA SaveStep ==
  ASSUME IInv, NEW d \in Downloads, NEW i \in Parts, Saving(d, i),
         NEW s \in {AfterSave(part[d][i])} \cup Broken(part[d][i].tries), Becomes(d, i, s),
         NEW m \in {meta[i], Torn, part[d][i].comp}, meta' = [meta EXCEPT ![i] = m],
         UNCHANGED <<pull, dl, entry, data, blob, crashes>>, UNCHANGED faults \/ Fault
  PROVE  IInv'
  <1> DEFINE q == part[d][i]
             v == [q EXCEPT !.st = s.st, !.tries = s.tries]
  <1>1. q.st \in {"ok", "stop", "stall", "eof"} /\ part' = [part EXCEPT ![d][i] = v]
    BY DEF Saving, Becomes
  <1>2. /\ q \in Part /\ q.comp \in 0 .. PartSize /\ q.got \in 0 .. PartSize
        /\ q.comp + q.got <= PartSize
        /\ meta[i] \in {Torn} \cup 0 .. PartSize /\ meta[i] <= q.comp
    BY <1>1, ChunkFacts
  <1>3. /\ s.st \in {"fetch", "fail", "done"} /\ s.tries \in 0 .. MaxRetries
        /\ s.tries = MaxRetries => s.st = "fail"
        /\ s.st = "done" => q.comp = PartSize /\ q.got = 0
    BY <1>1, Again
  <1>4. v \in Part /\ v.comp = q.comp /\ v.got = q.got /\ v.st = s.st /\ v.tries = s.tries
    <2> HIDE DEF q
    <2> QED BY <1>2, <1>3 DEF Part
  <1> HIDE DEF v
  <1>5. v.comp + v.got <= PartSize /\ (v.tries = MaxRetries => v.st = "fail")
        /\ (v.st \in {"ok", "done"} => v.comp = PartSize /\ v.got = 0)
    BY <1>2, <1>3, <1>4
  <1>6. m \in {Torn} \cup 0 .. PartSize /\ m <= v.comp
    <2> HIDE DEF q
    <2>1. m \in {meta[i], Torn, q.comp}
      BY DEF q
    <2> QED BY <1>2, <1>4, <2>1 DEF Torn
  <1>7. /\ data[i] \in 0 .. PartSize /\ data' = [data EXCEPT ![i] = data[i]]
        /\ dl[d].count \in Int /\ dl' = [dl EXCEPT ![d].count = dl[d].count]
        /\ dl[d].parts = Parts => q.comp + q.got <= data[i]
    BY <1>1, ChunkFacts
  <1>8. data[i] >= data[i] /\ (dl[d].parts = Parts => v.comp + v.got <= data[i])
    BY <1>4, <1>7
  <1>9. /\ faults' \in 0 .. MaxFaults
        /\ dl[d].count \in (Sum(d) + ((v.comp + v.got) - (q.comp + q.got))) ..
                           (Sum(d) + ((v.comp + v.got) - (q.comp + q.got)) + faults')
    <2>1. (v.comp + v.got) - (q.comp + q.got) = 0
      BY <1>2, <1>4
    <2>2. dl[d].count \in Sum(d) .. (Sum(d) + faults) /\ Sum(d) \in Int /\ dl[d].count \in Int
      BY <1>1, ChunkFacts
    <2>3. faults' \in 0 .. MaxFaults
      BY TypeSplit, FaultType DEF IInv, OtherType
    <2>4. faults' >= faults /\ faults \in Int /\ faults' \in Int
      BY <2>3, RunFacts DEF Fault
    <2> HIDE DEF q
    <2> QED BY <2>1, <2>2, <2>3, <2>4
  <1> QED BY <1>1, <1>4, <1>5, <1>6, <1>7, <1>8, <1>9, ChunkStep

LEMMA ChunkSavesKeeps ==
  ASSUME IInv, NEW d \in Downloads, NEW i \in Parts, ChunkSaves(d, i)
  PROVE  IInv'
  <1>1. /\ Saving(d, i) /\ Becomes(d, i, AfterSave(part[d][i]))
        /\ meta' = [meta EXCEPT ![i] = part[d][i].comp]
        /\ UNCHANGED <<pull, dl, entry, data, blob, crashes>> /\ UNCHANGED faults
    BY DEF ChunkSaves
  <1> QED BY <1>1, SaveStep

LEMMA ChunkSaveFailsKeeps ==
  ASSUME IInv, NEW d \in Downloads, NEW i \in Parts, ChunkSaveFails(d, i)
  PROVE  IInv'
  <1>1. /\ Saving(d, i) /\ Fault /\ UNCHANGED <<pull, dl, entry, data, blob, crashes>>
    BY DEF ChunkSaveFails
  <1>2. PICK m \in {meta[i], Torn} : meta' = [meta EXCEPT ![i] = m]
    BY DEF ChunkSaveFails
  <1>3. PICK s \in {AfterSave(part[d][i])} \cup Broken(part[d][i].tries) : Becomes(d, i, s)
    BY DEF ChunkSaveFails
  <1> QED BY <1>1, <1>2, <1>3, SaveStep

\* An attempt that breaks is rolled back; a read that was not written stays counted.
LEMMA ChunkBreaksKeeps ==
  ASSUME IInv, NEW d \in Downloads, NEW i \in Parts, ChunkBreaks(d, i)
  PROVE  IInv'
  <1> DEFINE q == part[d][i]
  <1>1. dl[d].pc = "fetch" /\ q.st = "fetch" /\ Fault
        /\ UNCHANGED <<pull, entry, data, meta, blob, crashes>>
    BY DEF ChunkBreaks, files
  <1>2. PICK lost \in {0, 1} : dl' = [dl EXCEPT ![d].count = dl[d].count + lost - q.got]
    BY DEF ChunkBreaks
  <1>3. PICK s \in Broken(q.tries) :
           part' = [part EXCEPT ![d][i] = [q EXCEPT !.got = 0, !.st = s.st, !.tries = s.tries]]
    BY DEF ChunkBreaks
  <1> DEFINE v == [q EXCEPT !.got = 0, !.st = s.st, !.tries = s.tries]
  <1>4. /\ q \in Part /\ q.comp \in 0 .. PartSize /\ q.got \in 0 .. PartSize
        /\ q.comp + q.got <= PartSize
    BY <1>1, ChunkFacts
  <1>5. /\ s.st \in {"fetch", "fail"} /\ s.tries \in 0 .. MaxRetries
        /\ s.tries = MaxRetries => s.st = "fail"
    <2>1. /\ q.tries \in 0 .. MaxRetries /\ q.tries # MaxRetries
          /\ q.tries + 1 \in 0 .. MaxRetries
      BY <1>1, ChunkFacts
    <2> HIDE DEF q
    <2> QED BY <1>3, <2>1, Constants DEF Broken, Retry
  <1>6. v \in Part /\ v.comp = q.comp /\ v.got = 0 /\ v.st = s.st /\ v.tries = s.tries
    <2>1. 0 \in 0 .. PartSize
      BY Constants
    <2> HIDE DEF q
    <2> QED BY <1>4, <1>5, <2>1 DEF Part
  <1>7. part' = [part EXCEPT ![d][i] = v]
    BY <1>3
  <1> HIDE DEF v
  <1>8. v.comp + v.got <= PartSize /\ (v.tries = MaxRetries => v.st = "fail")
        /\ v.st \notin {"ok", "done"}
    BY <1>4, <1>5, <1>6
  <1>9. /\ data[i] \in 0 .. PartSize /\ data' = [data EXCEPT ![i] = data[i]]
        /\ meta[i] \in {Torn} \cup 0 .. PartSize /\ meta' = [meta EXCEPT ![i] = meta[i]]
        /\ meta[i] <= v.comp
    BY <1>1, <1>6, ChunkFacts
  <1>10. data[i] >= data[i] /\ (dl[d].parts = Parts => v.comp + v.got <= data[i])
    <2>1. dl[d].parts = Parts => q.comp + q.got <= data[i]
      BY <1>1, ChunkFacts
    <2> HIDE DEF q
    <2> QED BY <1>4, <1>6, <1>9, <2>1
  <1>11. /\ faults' \in 0 .. MaxFaults /\ dl[d].count + lost - q.got \in Int
         /\ dl[d].count + lost - q.got \in (Sum(d) + ((v.comp + v.got) - (q.comp + q.got))) ..
                           (Sum(d) + ((v.comp + v.got) - (q.comp + q.got)) + faults')
    <2>1. (v.comp + v.got) - (q.comp + q.got) = 0 - q.got
      BY <1>4, <1>6
    <2>2. dl[d].count \in Sum(d) .. (Sum(d) + faults) /\ Sum(d) \in Int /\ dl[d].count \in Int
      BY <1>1, ChunkFacts
    <2>3. faults' \in 0 .. MaxFaults
      BY <1>1, TypeSplit, FaultType DEF IInv
    <2>4. faults' = faults + 1 /\ faults \in Int
      BY <1>1, RunFacts DEF Fault
    <2> HIDE DEF q
    <2> QED BY <1>4, <2>1, <2>2, <2>3, <2>4
  <1> QED BY <1>1, <1>2, <1>6, <1>7, <1>8, <1>9, <1>10, <1>11, ChunkStep

----------------------------------------------------------------------------
(* The end of the process.                                                 *)

\* A part file that is being written records no less than before.
LEMMA SurvivesType ==
  ASSUME IInv, NEW i \in Parts, NEW m \in Survives(i)
  PROVE  /\ m \in {Absent, Torn} \cup 0 .. PartSize
         /\ meta[i] >= 0 /\ m >= 0 => m >= meta[i]
  <1>1. meta[i] \in {Absent, Torn} \cup 0 .. PartSize
    BY Fields DEF IInv
  <1>2. CASE m = meta[i]
    BY <1>1, <1>2 DEF Absent, Torn
  <1>3. CASE m = Torn
    BY <1>1, <1>3 DEF Torn
  <1>4. CASE \E p \in Pulls : pull[p].pc = "create" /\ dl[p].next = i /\ m = 0
    <2>1. meta[i] = Absent
      BY <1>4 DEF IInv, PlanInv, PlanPull, Parts
    <2> QED BY <1>4, <2>1, Constants DEF Absent
  <1>5. CASE \E d \in Downloads : Saving(d, i) /\ m = part[d][i].comp
    BY <1>5, ChunkFacts DEF Saving
  <1> QED BY <1>2, <1>3, <1>4, <1>5 DEF Survives

\* The files a restart finds may be whole only if they were, or if none records anything.
LEMMA SurvivesWhole ==
  ASSUME IInv, NEW left, \A i \in Parts : left[i] \in Survives(i) /\ left[i] # Absent
  PROVE  \A i \in Parts : left[i] <= data[i]
  <1>1. CASE \E d \in Downloads : \E j \in Parts : Saving(d, j)
    <2>1. PICK d \in Downloads : \E j \in Parts : Saving(d, j)
      BY <1>1
    <2>2. dl[d].pc = "fetch" /\ Working(d) /\ Running(d)
      BY <2>1, RunFacts DEF Saving, PartOwn, Working, Running
    <2>3. \A e \in Downloads, j \in Parts : Saving(e, j) => e = d
      <3>1. \A e \in Downloads, j \in Parts : Saving(e, j) => Working(e)
        BY RunFacts DEF Saving, PartOwn, Working
      <3> QED BY <2>2, <3>1, Sole
    <2>4. \A p \in Pulls : pull[p].pc # "create"
      <3>1. \A p \in Pulls : Preparing(p) => p = d /\ dl[p].pc = "prepare"
        BY <2>2, Sole DEF IInv, PullInv, PullOwn
      <3> QED BY <2>2, <3>1 DEF Preparing
    <2>5. dl[d].parts = Found /\ \A j \in Parts : Saving(d, j) => j \in Found
      BY <2>2, RunFacts DEF Saving, PartOwn, PlanOwn
    <2>6. \A i \in Parts : Survives(i) = {meta[i]} \cup IF Saving(d, i) THEN {Torn, part[d][i].comp}
                                                                       ELSE {}
      BY <2>3, <2>4 DEF Survives
    <2>7. Found = Parts
      BY <2>5, <2>6 DEF Found
    <2>8. \A i \in Parts : part[d][i].comp + part[d][i].got <= data[i]
      BY <2>2, <2>5, <2>7, RunFacts DEF HolesOwn, Fetching
    <2> SUFFICES ASSUME NEW i \in Parts PROVE left[i] <= data[i]
      OBVIOUS
    <2>9. /\ data[i] \in 0 .. PartSize /\ part[d][i].comp \in 0 .. PartSize
          /\ part[d][i].got \in 0 .. PartSize /\ meta[i] <= data[i]
      BY <2>7, Fields, RunFacts DEF IInv, WholeInv
    <2>10. left[i] \in {meta[i], Torn, part[d][i].comp}
      BY <2>6
    <2> QED BY <2>8, <2>9, <2>10 DEF Torn
  <1>2. CASE ~\E d \in Downloads : \E j \in Parts : Saving(d, j)
    <2>1. \A i \in Parts :
             \/ left[i] = meta[i]
             \/ left[i] \in {Torn, 0} /\ \E p \in Pulls : pull[p].pc = "create" /\ dl[p].next = i
      BY <1>2 DEF Survives
    <2>2. CASE Found = Parts
      <3> SUFFICES ASSUME NEW i \in Parts PROVE left[i] <= data[i]
        OBVIOUS
      <3>1. data[i] \in 0 .. PartSize /\ meta[i] <= data[i]
        BY <2>2, Fields DEF IInv, WholeInv
      <3> QED BY <2>1, <3>1 DEF Torn
    <2>3. CASE Found # Parts
      <3>1. PICK j \in Parts : meta[j] = Absent
        BY <2>3 DEF Found
      <3>2. PICK p \in Pulls : pull[p].pc = "create"
        BY <2>1, <3>1
      <3> SUFFICES ASSUME NEW i \in Parts PROVE left[i] <= data[i]
        OBVIOUS
      <3>3. meta[i] \in {0, Absent}
        BY <3>2 DEF IInv, PlanInv, PlanPull
      <3>4. data[i] \in 0 .. PartSize
        BY Fields DEF IInv
      <3> QED BY <2>1, <3>3, <3>4 DEF Torn, Absent
    <2> QED BY <2>2, <2>3
  <1> QED BY <1>1, <1>2

LEMMA RestartFiles ==
  ASSUME IInv, Restart
  PROVE  /\ FilesType' /\ WholeInv'
         /\ \A i \in Parts : meta[i] >= 0 /\ meta'[i] >= 0 => meta'[i] >= meta[i]
  <1>1. PICK old \in SUBSET Parts :
          \E left \in {m \in [Parts -> UNION {Survives(i) : i \in Parts}] :
                          \A i \in Parts : m[i] \in Survives(i)} :
             meta' = [i \in Parts |-> IF i \in old THEN Absent ELSE left[i]]
    BY DEF Restart
  <1>2. PICK left \in {m \in [Parts -> UNION {Survives(i) : i \in Parts}] :
                          \A i \in Parts : m[i] \in Survives(i)} :
             meta' = [i \in Parts |-> IF i \in old THEN Absent ELSE left[i]]
    BY <1>1
  <1>3. /\ \A i \in Parts : left[i] \in Survives(i)
        /\ \A i \in Parts : meta'[i] = IF i \in old THEN Absent ELSE left[i]
    BY <1>2
  <1>4. \A i \in Parts : left[i] \in {Absent, Torn} \cup 0 .. PartSize
    BY <1>3, SurvivesType
  <1>5. /\ \/ data' = data
           \/ data' = [i \in Parts |-> 0] /\ \A i \in Parts : meta'[i] = Absent
        /\ blob' \in {blob, "absent"}
    BY DEF Restart
  <1>6. FilesType'
    <2>1. meta' \in [Parts -> {Absent, Torn} \cup 0 .. PartSize]
      BY <1>2, <1>4
    <2>2. data' \in [Parts -> 0 .. PartSize]
      BY <1>5, Constants DEF IInv, TypeOK
    <2>3. blob' \in {"absent", "good", "bad"}
      BY <1>5 DEF IInv, TypeOK
    <2> QED BY <2>1, <2>2, <2>3 DEF FilesType
  <1>7. WholeInv'
    <2> SUFFICES ASSUME \A i \in Parts : meta'[i] # Absent
                 PROVE  \A i \in Parts : meta'[i] <= data'[i]
      BY DEF WholeInv, Found
    <2>1. data' = data
      BY <1>5, Constants
    <2>2. \A i \in Parts : meta'[i] = left[i] /\ left[i] # Absent
      BY <1>3
    <2> QED BY <1>3, <2>1, <2>2, SurvivesWhole
  <1>8. \A i \in Parts : meta[i] >= 0 /\ meta'[i] >= 0 => meta'[i] >= meta[i]
    <2> SUFFICES ASSUME NEW i \in Parts, meta[i] >= 0, meta'[i] >= 0 PROVE meta'[i] >= meta[i]
      OBVIOUS
    <2>1. meta'[i] = left[i]
      BY <1>3 DEF Absent
    <2> QED BY <1>3, <2>1, SurvivesType
  <1> QED BY <1>6, <1>7, <1>8

\* After a restart nothing runs, and what matters is what is on disk.
LEMMA RestartKeeps ==
  ASSUME IInv, Restart, crashes' \in 0 .. MaxCrashes
  PROVE  IInv'
  <1>1. /\ pull' = [p \in Pulls |-> IF Ended(p) THEN pull[p] ELSE [pull[p] EXCEPT !.pc = "gone"]]
        /\ dl' = [d \in Downloads |-> NewDownload]
        /\ part' = [d \in Downloads |-> [i \in Parts |-> NewPart]]
        /\ entry' = None /\ UNCHANGED faults
    BY DEF Restart
  <1>2. /\ \A d \in Downloads : dl'[d] = NewDownload
        /\ \A d \in Downloads : \A i \in Parts : part'[d][i] = NewPart
    BY <1>1
  <1>3. pull' \in [Pulls -> Pull]
        /\ \A p \in Pulls : pull'[p].pc \in {"new", "done", "failed", "gone"}
    <2> DEFINE v(p) == IF Ended(p) THEN pull[p] ELSE [pull[p] EXCEPT !.pc = "gone"]
    <2>1. \A p \in Pulls : v(p) \in Pull /\ v(p).pc \in {"new", "done", "failed", "gone"}
      <3> SUFFICES ASSUME NEW p \in Pulls
                   PROVE  v(p) \in Pull /\ v(p).pc \in {"new", "done", "failed", "gone"}
        OBVIOUS
      <3>1. pull[p] \in Pull
        BY DEF IInv, TypeOK
      <3> QED BY <3>1 DEF Pull, Ended
    <2>2. pull' = [p \in Pulls |-> v(p)]
      BY <1>1
    <2> HIDE DEF v
    <2> QED BY <2>1, <2>2
  <1>4. TypeOK'
    <2>1. NewDownload \in Download /\ NewPart \in Part
      BY Constants DEF NewDownload, Download, NewPart, Part
    <2>2. PullType' /\ DlType' /\ PartType'
      BY <1>1, <1>3, <2>1 DEF PullType, DlType, PartType
    <2>3. OtherType'
      BY <1>1 DEF IInv, TypeOK, OtherType
    <2> QED BY <2>2, <2>3, RestartFiles, TypeSplit
  <1>5. OneWriter' /\ NoHoles' /\ AbandonedIsCancelled' /\ ProgressExact'
    BY <1>2 DEF OneWriter, Working, NoHoles, AbandonedIsCancelled, ProgressExact, NewDownload
  <1>6. PullInv'
    BY <1>2, <1>3 DEF PullInv, PullOwn, Preparing, NewDownload, Downloads
  <1>7. RefsExact'
    <2>1. \A d \in Downloads : Waiting(d)' = {}
      BY <1>3 DEF Waiting
    <2>2. \A d \in Downloads : dl'[d].refs = 0
      BY <1>2 DEF NewDownload
    <2> QED BY <2>1, <2>2, FS_EmptySet DEF RefsExact
  <1>8. PartInv'
    BY <1>2, Constants DEF PartInv, PartOwn, NewDownload, NewPart
  <1>9. PlanInv'
    <2>1. \A p \in Pulls : PlanPull(p)'
      BY <1>3 DEF PlanPull
    <2>2. \A d \in Downloads : PlanOwn(d)'
      BY <1>2 DEF PlanOwn, Running, NewDownload
    <2> QED BY <2>1, <2>2 DEF PlanInv
  <1> QED BY <1>4, <1>5, <1>6, <1>7, <1>8, <1>9, RestartFiles DEF IInv

----------------------------------------------------------------------------
(* The theorems.                                                           *)

LEMMA InitKeeps == Init => IInv
  <1> SUFFICES ASSUME Init PROVE IInv
    OBVIOUS
  <1>1. /\ pull = [p \in Pulls |-> [pc |-> "new", dl |-> None, hit |-> FALSE, left |-> FALSE]]
        /\ \A d \in Downloads : dl[d] = NewDownload
        /\ \A d \in Downloads : \A i \in Parts : part[d][i] = NewPart
        /\ entry = None /\ \A i \in Parts : data[i] = 0 /\ meta[i] = Absent
    BY DEF Init
  <1>2. TypeOK
    <2>1. NewDownload \in Download /\ NewPart \in Part
      BY Constants DEF NewDownload, Download, NewPart, Part
    <2>2. [pc |-> "new", dl |-> None, hit |-> FALSE, left |-> FALSE] \in Pull
      BY DEF Pull
    <2> QED BY <2>1, <2>2, Constants DEF Init, TypeOK
  <1>3. OneWriter /\ NoHoles /\ AbandonedIsCancelled /\ ProgressExact
    BY <1>1 DEF OneWriter, Working, NoHoles, AbandonedIsCancelled, ProgressExact, NewDownload
  <1>4. PullInv
    BY <1>1 DEF PullInv, PullOwn, Preparing, NewDownload, Downloads
  <1>5. RefsExact
    <2>1. \A d \in Downloads : Waiting(d) = {}
      BY <1>1 DEF Waiting
    <2>2. \A d \in Downloads : dl[d].refs = 0
      BY <1>1 DEF NewDownload
    <2> QED BY <2>1, <2>2, FS_EmptySet DEF RefsExact
  <1>6. PartInv
    BY <1>1, Constants DEF PartInv, PartOwn, NewDownload, NewPart
  <1>7. PlanInv /\ WholeInv
    BY <1>1, Constants DEF PlanInv, PlanPull, PlanOwn, Running, NewDownload, WholeInv, Found, Absent
  <1> QED BY <1>2, <1>3, <1>4, <1>5, <1>6, <1>7 DEF IInv

LEMMA StutterKeeps == IInv /\ UNCHANGED vars => IInv'
  <1> SUFFICES ASSUME IInv, UNCHANGED vars PROVE IInv'
    OBVIOUS
  <1>1. UNCHANGED <<pull, dl, part, entry, data, meta, blob, faults, crashes>>
    BY DEF vars, files
  <1>2. TypeOK' /\ OneWriter' /\ PullInv' /\ PartInv' /\ WholeInv' /\ NoHoles' /\ ProgressExact'
    BY <1>1, TypeSplit, Frame DEF IInv, files
  <1>3. RefsExact' /\ AbandonedIsCancelled'
    BY <1>1, RefsFrame, WantedFrame DEF IInv, Fetching, Asks
  <1>4. PlanInv'
    BY <1>1 DEF IInv, PlanInv, PlanPull, PlanOwn, Running, Found
  <1> QED BY <1>2, <1>3, <1>4 DEF IInv

LEMMA NextKeeps == IInv /\ [Next]_vars => IInv'
  <1> SUFFICES ASSUME IInv, [Next]_vars PROVE IInv'
    OBVIOUS
  <1>1. ASSUME NEW p \in Pulls, Stat(p) PROVE IInv'
    BY <1>1, StatKeeps
  <1>2. ASSUME NEW p \in Pulls, LoadOrStore(p) PROVE IInv'
    BY <1>2, LoadOrStoreKeeps
  <1>3. ASSUME NEW p \in Pulls, PrepareRead(p) PROVE IInv'
    BY <1>3, PrepareReadKeeps
  <1>4. ASSUME NEW p \in Pulls, PrepareHead(p) PROVE IInv'
    BY <1>4, PrepareHeadKeeps
  <1>5. ASSUME NEW p \in Pulls, PrepareCreate(p) PROVE IInv'
    BY <1>5, PrepareCreateKeeps
  <1>6. ASSUME NEW p \in Pulls, PrepareFails(p) PROVE IInv'
    BY <1>6, PrepareFailsKeeps
  <1>7. ASSUME NEW p \in Pulls, Acquire(p) PROVE IInv'
    BY <1>7, AcquireKeeps
  <1>8. ASSUME NEW p \in Pulls, Gets(p) PROVE IInv'
    BY <1>8, GetsKeeps
  <1>9. ASSUME NEW p \in Pulls, Leave(p) PROVE IInv'
    BY <1>9, LeaveKeeps
  <1>10. ASSUME NEW p \in Pulls, Abandon(p) PROVE IInv'
    BY <1>10, AbandonKeeps
  <1>11. ASSUME NEW p \in Pulls, Verify(p) \/ WriteManifest(p) PROVE IInv'
    BY <1>11, VerifyKeeps
  <1>12. ASSUME NEW p \in Pulls, Panic(p) PROVE IInv'
    <2>1. Restart /\ crashes' \in 0 .. MaxCrashes
      BY <1>12 DEF Panic, IInv, TypeOK
    <2> QED BY <2>1, RestartKeeps
  <1>13. ASSUME NEW d \in Downloads, RunStart(d) PROVE IInv'
    BY <1>13, RunStartKeeps
  <1>14. ASSUME NEW d \in Downloads, RunFetch(d) PROVE IInv'
    BY <1>14, RunFetchKeeps
  <1>15. ASSUME NEW d \in Downloads, RunFails(d) PROVE IInv'
    BY <1>15, RunFailsKeeps
  <1>16. ASSUME NEW d \in Downloads, RunWaited(d) PROVE IInv'
    BY <1>16, RunWaitedKeeps
  <1>17. ASSUME NEW d \in Downloads, RunRemove(d) PROVE IInv'
    BY <1>17, RunRemoveKeeps
  <1>18. ASSUME NEW d \in Downloads, RunRename(d) PROVE IInv'
    BY <1>18, RunRenameKeeps
  <1>19. ASSUME NEW d \in Downloads, RunDelete(d) PROVE IInv'
    BY <1>19, RunDeleteKeeps
  <1>20. ASSUME NEW d \in Downloads, RunCloses(d) PROVE IInv'
    BY <1>20, RunClosesKeeps
  <1>21. ASSUME NEW d \in Downloads, NEW i \in Parts, ChunkRead(d, i) PROVE IInv'
    BY <1>21, ChunkReadKeeps
  <1>22. ASSUME NEW d \in Downloads, NEW i \in Parts, ChunkSaves(d, i) PROVE IInv'
    BY <1>22, ChunkSavesKeeps
  <1>23. ASSUME NEW d \in Downloads, NEW i \in Parts, ChunkSaveFails(d, i) PROVE IInv'
    BY <1>23, ChunkSaveFailsKeeps
  <1>24. ASSUME NEW d \in Downloads, NEW i \in Parts, ChunkBreaks(d, i) PROVE IInv'
    BY <1>24, ChunkBreaksKeeps
  <1>25. ASSUME NEW d \in Downloads, NEW i \in Parts,
                NEW why \in {"ok", "stop", "stall", "eof"}, ChunkEnds(d, i, why) PROVE IInv'
    BY <1>25, ChunkEndsKeeps
  <1>26. ASSUME Crash PROVE IInv'
    <2>1. Restart /\ crashes' \in 0 .. MaxCrashes
      BY <1>26, Constants DEF Crash, IInv, TypeOK
    <2> QED BY <2>1, RestartKeeps
  <1>27. ASSUME Terminated \/ UNCHANGED vars PROVE IInv'
    BY <1>27, StutterKeeps DEF Terminated
  <1> QED BY <1>1, <1>2, <1>3, <1>4, <1>5, <1>6, <1>7, <1>8, <1>9, <1>10, <1>11, <1>12, <1>13,
             <1>14, <1>15, <1>16, <1>17, <1>18, <1>19, <1>20, <1>21, <1>22, <1>23, <1>24, <1>25,
             <1>26, <1>27 DEF Next

\* The actions write meta in these ways only, and none lowers what a part file records.
LEMMA KeptStep ==
  ASSUME IInv, [Next]_vars, NEW i \in Parts, meta[i] >= 0, meta'[i] >= 0
  PROVE  meta'[i] >= meta[i]
  <1>0. meta[i] \in {Absent, Torn} \cup 0 .. PartSize
    BY Fields DEF IInv
  <1>1. CASE UNCHANGED meta
    BY <1>0, <1>1 DEF Absent, Torn
  <1>2. ASSUME NEW p \in Pulls, PrepareCreate(p) \/ PrepareFails(p), meta' # meta
        PROVE  meta'[i] >= meta[i]
    <2>1. pull[p].pc = "create"
      BY <1>2 DEF PrepareCreate, PrepareFails
    <2>2. dl[p].next \in 0 .. NumParts /\ meta[i] = IF i < dl[p].next THEN 0 ELSE Absent
      BY <2>1, Fields DEF IInv, PlanInv, PlanPull, Downloads
    <2>3. i # dl[p].next
      BY <2>2 DEF Absent, Parts
    <2>4. \E m \in {0, Absent, Torn} : meta' = [meta EXCEPT ![dl[p].next] = m]
      BY <1>2, <2>1 DEF PrepareCreate, PrepareFails
    <2>5. meta'[i] = meta[i]
      BY <2>3, <2>4 DEF IInv, TypeOK
    <2> QED BY <1>0, <2>5 DEF Absent, Torn
  <1>3. ASSUME NEW d \in Downloads, RunRemove(d) PROVE meta'[i] >= meta[i]
    <2>1. meta' = meta \/ meta' = [meta EXCEPT ![dl[d].next] = Absent]
      BY <1>3 DEF RunRemove
    <2>2. meta'[i] \in {meta[i], Absent}
      BY <2>1 DEF IInv, TypeOK
    <2> QED BY <1>0, <2>2 DEF Absent, Torn
  <1>4. ASSUME NEW d \in Downloads, NEW j \in Parts, ChunkSaves(d, j) \/ ChunkSaveFails(d, j)
        PROVE  meta'[i] >= meta[i]
    <2>1. Saving(d, j)
      BY <1>4 DEF ChunkSaves, ChunkSaveFails
    <2>2. \E m \in {part[d][j].comp, meta[j], Torn} : meta' = [meta EXCEPT ![j] = m]
      BY <1>4 DEF ChunkSaves, ChunkSaveFails
    <2>3. meta[j] <= part[d][j].comp
      BY <2>1, ChunkFacts DEF Saving
    <2>4. meta'[i] \in {meta[i], Torn} \/ (i = j /\ meta'[i] = part[d][j].comp)
      BY <2>2 DEF IInv, TypeOK
    <2>5. part[d][j].comp \in 0 .. PartSize
      BY Fields DEF IInv
    <2> QED BY <1>0, <2>3, <2>4, <2>5 DEF Absent, Torn
  <1>5. CASE Restart
    BY <1>5, RestartFiles
  <1>6. \/ UNCHANGED meta
        \/ \E p \in Pulls : PrepareCreate(p) \/ (PrepareFails(p) /\ meta' # meta)
        \/ \E d \in Downloads : RunRemove(d)
        \/ \E d \in Downloads, j \in Parts : ChunkSaves(d, j) \/ ChunkSaveFails(d, j)
        \/ Restart
    <2>1. ASSUME NEW p \in Pulls,
                 \/ Stat(p) \/ LoadOrStore(p) \/ PrepareRead(p) \/ PrepareHead(p)
                 \/ Acquire(p) \/ Gets(p) \/ Leave(p) \/ Abandon(p) \/ Verify(p)
                 \/ WriteManifest(p)
          PROVE  UNCHANGED meta
      BY <2>1 DEF Stat, LoadOrStore, PrepareRead, PrepareHead, Acquire, Gets, Leave, Abandon,
                  Verify, WriteManifest, files
    <2>2. ASSUME NEW d \in Downloads,
                 \/ RunStart(d) \/ RunFetch(d) \/ RunFails(d) \/ RunWaited(d)
                 \/ RunRename(d) \/ RunDelete(d) \/ RunCloses(d)
          PROVE  UNCHANGED meta
      BY <2>2 DEF RunStart, RunFetch, RunFails, RunWaited, RunRename, RunDelete, RunCloses, files
    <2>3. ASSUME NEW d \in Downloads, NEW j \in Parts,
                 \/ ChunkRead(d, j) \/ ChunkBreaks(d, j)
                 \/ \E why \in {"ok", "stop", "stall", "eof"} : ChunkEnds(d, j, why)
          PROVE  UNCHANGED meta
      BY <2>3 DEF ChunkRead, ChunkBreaks, ChunkEnds, files
    <2>4. (\E p \in Pulls : Panic(p)) \/ Crash => Restart
      BY DEF Panic, Crash
    <2>5. Terminated \/ UNCHANGED vars => UNCHANGED meta
      BY DEF Terminated, vars, files
    <2> QED BY <2>1, <2>2, <2>3, <2>4, <2>5 DEF Next
  <1> QED BY <1>1, <1>2, <1>3, <1>4, <1>5, <1>6

\* Every state is typed, and what it says of calls, downloads, plans and files goes together.
THEOREM Invariance == Spec => []IInv
  BY InitKeeps, NextKeeps, PTL DEF Spec

\* Every variable stays in its type, the loop indices and attempts within their bounds.
THEOREM TypeCorrect == Spec => []TypeOK
  <1>1. IInv => TypeOK
    BY DEF IInv
  <1> QED BY <1>1, Invariance, PTL

\* Nobody but the download of the entry in blobDownloadManager works on the files.
THEOREM FilesHaveOneWriter == Spec => []OneWriter
  <1>1. IInv => OneWriter
    BY DEF IInv
  <1> QED BY <1>1, Invariance, PTL

\* A blob made from a whole plan has no hole, however often pulls stall, fail, are
\* cancelled or are interrupted by the end of the process.
THEOREM BlobHasNoHoles == Spec => []NoHoles
  <1>1. IInv => NoHoles
    BY DEF IInv
  <1> QED BY <1>1, Invariance, PTL

\* Completed of the download is the sum of what its parts have, but for lost reads.
THEOREM CompletedIsTheSum == Spec => []ProgressExact
  <1>1. IInv => ProgressExact
    BY DEF IInv
  <1> QED BY <1>1, Invariance, PTL

\* A download that runs is waited for, or was cancelled.
THEOREM NobodyWaitsThenCancelled == Spec => []AbandonedIsCancelled
  <1>1. IInv => AbandonedIsCancelled
    BY DEF IInv
  <1> QED BY <1>1, Invariance, PTL

\* What a part file records is never lowered, by whichever of the handlers or a restart.
THEOREM RecordedIsKept == Spec => ProgressKept
  <1>1. IInv /\ [Next]_vars =>
          [\A i \in Parts : meta[i] >= 0 /\ meta'[i] >= 0 => meta'[i] >= meta[i]]_vars
    BY KeptStep
  <1> QED BY <1>1, Invariance, PTL DEF Spec, ProgressKept
=============================================================================
