---------------------------- MODULE BlobDownload ----------------------------
(***************************************************************************)
(* Pulling one blob: PullModel of server/images.go with the downloads of   *)
(* server/download.go that concurrent pulls share, the files a download    *)
(* leaves on disk, and what a restart of the server makes of them.         *)
(*                                                                         *)
(* A pull creates at most one blobDownload, so a download is named by the  *)
(* pull that created it.  Parts have equal sizes, in units of what one     *)
(* read copies.  On disk are the partial file (how many bytes of each part *)
(* are right), the part files (the progress recorded of each part), and    *)
(* the blob.  A crash is one of the process: what was written stays.       *)
(***************************************************************************)
EXTENDS Integers, FiniteSets, Sums

CONSTANTS
    Pulls,       \* calls of PullModel; also the names of downloads
    None,        \* Go's nil
    NumParts,    \* parts of the blob
    PartSize,    \* size of a part
    MaxRetries,  \* maxRetries, attempts at a part
    MayLeave,    \* pulls whose client may disconnect
    MaxFaults,   \* bound: failures of the network and of the disk
    MaxCrashes   \* bound: ends of the process, other than by its own fault

Parts     == 0 .. (NumParts - 1)
Downloads == Pulls

Absent == -1  \* no part file
Torn   == -2  \* a part file that does not decode

ASSUME DownloadAssumption ==
    /\ IsFiniteSet(Pulls) /\ None \notin Pulls /\ MayLeave \subseteq Pulls
    /\ NumParts \in Nat \ {0} /\ PartSize \in Nat \ {0} /\ MaxRetries \in Nat \ {0}
    /\ MaxFaults \in Nat /\ MaxCrashes \in Nat

VARIABLES
    pull,     \* per call: where it is, the download it waits for
    dl,       \* per download: the blobDownload and the goroutine of Run
    part,     \* per download and part: the blobDownloadPart and its goroutine
    entry,    \* the entry of the digest in blobDownloadManager
    data,     \* the partial file: right bytes at the start of each part
    meta,     \* the part files: the progress recorded, Absent or Torn
    blob,     \* the file in the blobs directory
    faults,   \* failures so far
    crashes   \* ends of the process so far

files == <<data, meta, blob>>
vars  == <<pull, dl, part, entry, files, faults, crashes>>

Pull == [pc   : {"new", "load", "prepare", "head", "create", "acquire", "wait",
                 "verify", "manifest", "done", "failed", "gone"},
         dl   : Downloads \cup {None},
         hit  : BOOLEAN,   \* downloadBlob returned cacheHit
         left : BOOLEAN]   \* the request's context is over

Download == [pc        : {"none", "prepare", "dead", "start", "url", "fetch", "remove",
                          "exit", "deleted", "over"},
             parts     : SUBSET Parts,      \* b.Parts, by number
             next      : 0 .. NumParts,     \* index of the loop of newPart, of os.Remove
             count     : Int,               \* b.Completed
             refs      : Int,               \* references
             cancelled : BOOLEAN,           \* CancelFunc was called
             ok        : BOOLEAN]           \* err = nil

Part == [comp  : 0 .. PartSize,             \* Completed
         got   : 0 .. PartSize,             \* copied by the attempt that runs
         st    : {"idle", "fetch", "ok", "stop", "stall", "eof", "done", "fail"},
         tries : 0 .. MaxRetries]

NewDownload == [pc |-> "none", parts |-> {}, next |-> 0, count |-> 0, refs |-> 0,
                cancelled |-> FALSE, ok |-> FALSE]
NewPart     == [comp |-> 0, got |-> 0, st |-> "idle", tries |-> 0]

Init ==
    /\ pull = [p \in Pulls |-> [pc |-> "new", dl |-> None, hit |-> FALSE, left |-> FALSE]]
    /\ dl = [d \in Downloads |-> NewDownload]
    /\ part = [d \in Downloads |-> [i \in Parts |-> NewPart]]
    /\ entry = None
    /\ data = [i \in Parts |-> 0]
    /\ meta = [i \in Parts |-> Absent]
    /\ blob = "absent"
    /\ faults = 0 /\ crashes = 0

Fault == faults < MaxFaults /\ faults' = faults + 1

----------------------------------------------------------------------------
(* downloadBlob: look for the blob, join a download or start one.          *)

Stat(p) ==
    /\ pull[p].pc = "new"
    /\ pull' = [pull EXCEPT ![p] = [pull[p] EXCEPT
                  !.hit = blob # "absent",
                  !.pc  = IF blob = "absent" THEN "load" ELSE "verify"]]
    /\ UNCHANGED <<dl, part, entry, files, faults, crashes>>

LoadOrStore(p) ==
    /\ pull[p].pc = "load"
    /\ \/ /\ entry = None
          /\ entry' = p
          /\ dl' = [dl EXCEPT ![p].pc = "prepare"]
          /\ pull' = [pull EXCEPT ![p] = [pull[p] EXCEPT !.pc = "prepare", !.dl = p]]
       \/ /\ entry # None
          /\ pull' = [pull EXCEPT ![p] = [pull[p] EXCEPT !.pc = "acquire", !.dl = entry]]
          /\ UNCHANGED <<entry, dl>>
    /\ UNCHANGED <<part, files, faults, crashes>>

\* Mutant of PrepareRead: the part files are not looked for.
PrepareReadNothing(p) ==
    /\ pull[p].pc = "prepare"
    /\ pull' = [pull EXCEPT ![p].pc = "head"]
    /\ UNCHANGED <<dl, part, entry, files, faults, crashes>>

\* Prepare: the part files on disk, if there are any, are the plan.
PrepareRead(p) ==
    /\ pull[p].pc = "prepare"
    /\ \A i \in Parts : meta[i] # Torn
    /\ LET found == {i \in Parts : meta[i] # Absent}
           Recorded(i) == IF i \in found THEN meta[i] ELSE 0
       IN /\ part' = [part EXCEPT ![p] = [i \in Parts |-> [NewPart EXCEPT !.comp = Recorded(i)]]]
          /\ dl' = [dl EXCEPT ![p] = [dl[p] EXCEPT
                      !.parts = found,
                      !.count = Total(meta, found),
                      !.pc    = IF found = {} THEN "prepare" ELSE "start"]]
          /\ pull' = [pull EXCEPT ![p].pc = IF found = {} THEN "head" ELSE "acquire"]
    /\ UNCHANGED <<entry, files, faults, crashes>>

\* The size of the blob is asked for, under the context of this pull.
PrepareHead(p) ==
    /\ pull[p].pc = "head"
    /\ pull' = [pull EXCEPT ![p].pc = "create"]
    /\ UNCHANGED <<dl, part, entry, files, faults, crashes>>

\* newPart, one part file after the other.  After the last one Run starts.
PrepareCreate(p) ==
    /\ pull[p].pc = "create"
    /\ LET i == dl[p].next
           last == i + 1 = NumParts
       IN /\ meta' = [meta EXCEPT ![i] = 0]
          /\ dl' = [dl EXCEPT ![p] = [dl[p] EXCEPT
                      !.parts = dl[p].parts \cup {i},
                      !.next  = i + 1,
                      !.pc    = IF last THEN "start" ELSE "prepare"]]
          /\ pull' = [pull EXCEPT ![p].pc = IF last THEN "acquire" ELSE "create"]
    /\ UNCHANGED <<part, entry, data, blob, faults, crashes>>

\* A part file does not decode or cannot be read, the request fails, a part file cannot be
\* written.  The pull removes the entry and fails; who joined is not told.
PrepareFails(p) ==
    /\ \/ /\ pull[p].pc = "prepare"
          /\ ((\E i \in Parts : meta[i] = Torn) /\ UNCHANGED faults) \/ Fault
          /\ UNCHANGED meta
       \/ /\ pull[p].pc = "head"
          /\ (pull[p].left /\ UNCHANGED faults) \/ Fault
          /\ UNCHANGED meta
       \/ /\ pull[p].pc = "create"
          /\ Fault
          /\ \E m \in {Absent, Torn} : meta' = [meta EXCEPT ![dl[p].next] = m]
    /\ pull' = [pull EXCEPT ![p].pc = "failed"]
    /\ dl' = [dl EXCEPT ![p].pc = "dead"]
    /\ entry' = None
    /\ UNCHANGED <<part, data, blob, crashes>>

----------------------------------------------------------------------------
(* Wait, and what PullModel does with the blob.                            *)

Acquire(p) ==
    /\ pull[p].pc = "acquire"
    /\ dl' = [dl EXCEPT ![pull[p].dl].refs = @ + 1]
    /\ pull' = [pull EXCEPT ![p].pc = "wait"]
    /\ UNCHANGED <<part, entry, files, faults, crashes>>

\* The download is over.  CancelFunc, called by the last one, has no effect.
Gets(p) ==
    /\ pull[p].pc = "wait" /\ dl[pull[p].dl].pc = "over"
    /\ dl' = [dl EXCEPT ![pull[p].dl].refs = @ - 1]
    /\ pull' = [pull EXCEPT ![p].pc = IF dl[pull[p].dl].ok THEN "verify" ELSE "failed"]
    /\ UNCHANGED <<part, entry, files, faults, crashes>>

\* The client disconnects, which ends the request's context.
Leave(p) ==
    /\ p \in MayLeave /\ ~pull[p].left
    /\ pull[p].pc \notin {"new", "done", "failed", "gone"}
    /\ pull' = [pull EXCEPT ![p].left = TRUE]
    /\ UNCHANGED <<dl, part, entry, files, faults, crashes>>

\* Run has not set CancelFunc yet, or never will.
NoCancelFunc(d) == dl[d].pc \in {"prepare", "dead", "start"}

\* Mutant of Abandon: the last one does not cancel.
AbandonQuietly(p) ==
    /\ pull[p].pc = "wait" /\ pull[p].left
    /\ LET d == pull[p].dl IN
       /\ dl[d].refs = 1 => ~NoCancelFunc(d)
       /\ dl' = [dl EXCEPT ![d] = [dl[d] EXCEPT !.refs = dl[d].refs - 1]]
    /\ pull' = [pull EXCEPT ![p].pc = "failed"]
    /\ UNCHANGED <<part, entry, files, faults, crashes>>

\* Mutant of Abandon: the last one makes room for another download.
AbandonDeletes(p) ==
    /\ pull[p].pc = "wait" /\ pull[p].left
    /\ LET d == pull[p].dl
           last == dl[d].refs = 1
       IN /\ last => ~NoCancelFunc(d)
          /\ dl' = [dl EXCEPT ![d] = [dl[d] EXCEPT
                      !.refs      = dl[d].refs - 1,
                      !.cancelled = dl[d].cancelled \/ last]]
          /\ entry' = IF last THEN None ELSE entry
    /\ pull' = [pull EXCEPT ![p].pc = "failed"]
    /\ UNCHANGED <<part, files, faults, crashes>>

\* release: the last one to leave cancels the download.
Abandon(p) ==
    /\ pull[p].pc = "wait" /\ pull[p].left
    /\ LET d == pull[p].dl IN
       /\ dl[d].refs = 1 => ~NoCancelFunc(d)
       /\ dl' = [dl EXCEPT ![d] = [dl[d] EXCEPT
                   !.refs      = dl[d].refs - 1,
                   !.cancelled = dl[d].cancelled \/ dl[d].refs = 1]]
    /\ pull' = [pull EXCEPT ![p].pc = "failed"]
    /\ UNCHANGED <<part, entry, files, faults, crashes>>

\* verifyBlob, left out after a cache hit.  A blob that does not match goes.
Verify(p) ==
    /\ pull[p].pc = "verify"
    /\ LET passes == pull[p].hit \/ blob = "good" IN
       /\ pull' = [pull EXCEPT ![p].pc = IF passes THEN "manifest" ELSE "failed"]
       /\ blob' = IF passes THEN blob ELSE "absent"
    /\ UNCHANGED <<dl, part, entry, data, meta, faults, crashes>>

WriteManifest(p) ==
    /\ pull[p].pc = "manifest"
    /\ pull' = [pull EXCEPT ![p].pc = "done"]
    /\ UNCHANGED <<dl, part, entry, files, faults, crashes>>

----------------------------------------------------------------------------
(* Run, in a goroutine of its own, with a goroutine for each part.         *)

\* The partial file gets the size of the parts that are known.
RunStart(d) ==
    /\ dl[d].pc = "start"
    /\ data' = [i \in Parts |-> IF i < Cardinality(dl[d].parts) THEN data[i] ELSE 0]
    /\ dl' = [dl EXCEPT ![d] = [dl[d] EXCEPT !.pc = "url", !.next = 0]]
    /\ UNCHANGED <<pull, part, entry, meta, blob, faults, crashes>>

RunFetch(d) ==
    /\ dl[d].pc = "url"
    /\ part' = [part EXCEPT ![d] = [i \in Parts |-> [part[d][i] EXCEPT
                  !.st = IF i \notin dl[d].parts THEN "idle"
                         ELSE IF part[d][i].comp = PartSize THEN "done" ELSE "fetch"]]]
    /\ dl' = [dl EXCEPT ![d].pc = "fetch"]
    /\ UNCHANGED <<pull, entry, files, faults, crashes>>

\* The partial file cannot be opened, or there is no direct URL.
RunFails(d) ==
    /\ \/ dl[d].pc = "start" /\ Fault
       \/ dl[d].pc = "url" /\ ((dl[d].cancelled /\ UNCHANGED faults) \/ Fault)
    /\ dl' = [dl EXCEPT ![d].pc = "exit"]
    /\ UNCHANGED <<pull, part, entry, files, crashes>>

\* The context of the parts is over: cancelled, or one of them failed.
Stopped(d) == dl[d].cancelled \/ \E j \in Parts : part[d][j].st = "fail"

\* Mutant of ChunkRead: the writer of an attempt starts at Offset, not at StartsAt.
ChunkReadFromOffset(d, i) ==
    /\ dl[d].pc = "fetch" /\ part[d][i].st = "fetch"
    /\ part[d][i].comp + part[d][i].got < PartSize
    /\ data' = [data EXCEPT ![i] = IF data[i] = part[d][i].got THEN data[i] + 1 ELSE data[i]]
    /\ part' = [part EXCEPT ![d][i].got = @ + 1]
    /\ dl' = [dl EXCEPT ![d].count = @ + 1]
    /\ UNCHANGED <<pull, entry, meta, blob, faults, crashes>>

\* Mutant of ChunkRead: io.Copy in place of io.CopyN.
ChunkReadUnbounded(d, i) ==
    /\ dl[d].pc = "fetch" /\ part[d][i].st = "fetch"
    /\ part' = [part EXCEPT ![d][i].got = @ + 1]
    /\ dl' = [dl EXCEPT ![d].count = @ + 1]
    /\ UNCHANGED <<pull, entry, files, faults, crashes>>

\* Some bytes arrive and are written behind those recorded.
ChunkRead(d, i) ==
    /\ dl[d].pc = "fetch" /\ part[d][i].st = "fetch"
    /\ LET at == part[d][i].comp + part[d][i].got IN
       /\ at < PartSize
       /\ data' = [data EXCEPT ![i] = IF data[i] = at THEN at + 1 ELSE data[i]]
    /\ part' = [part EXCEPT ![d][i].got = @ + 1]
    /\ dl' = [dl EXCEPT ![d].count = @ + 1]
    /\ UNCHANGED <<pull, entry, meta, blob, faults, crashes>>

\* The attempt ends in a way that keeps what it copied: all is there, the
\* context is over, the stall timer or the server cut it off.
ChunkEnds(d, i, why) ==
    /\ dl[d].pc = "fetch" /\ part[d][i].st = "fetch"
    /\ \/ why = "ok" /\ part[d][i].comp + part[d][i].got = PartSize /\ UNCHANGED faults
       \/ why = "stop" /\ Stopped(d) /\ UNCHANGED faults
       \/ why \in {"stall", "eof"} /\ Fault
    /\ part' = [part EXCEPT ![d][i] = [part[d][i] EXCEPT
                  !.comp = part[d][i].comp + part[d][i].got,
                  !.got  = 0,
                  !.st   = why]]
    /\ UNCHANGED <<pull, dl, entry, files, crashes>>

\* The next attempt, if there is one left.
Retry(tries) == [st |-> IF tries + 1 < MaxRetries THEN "fetch" ELSE "fail", tries |-> tries + 1]

AfterSave(s) ==
    CASE s.st = "ok"    -> [st |-> "done", tries |-> s.tries]
      [] s.st = "stop"  -> [st |-> "fail", tries |-> s.tries]
      [] s.st = "stall" -> [st |-> "fetch", tries |-> s.tries]
      [] s.st = "eof"   -> Retry(s.tries)

Saving(d, i) == part[d][i].st \in {"ok", "stop", "stall", "eof"}

Becomes(d, i, s) ==
    part' = [part EXCEPT ![d][i] = [part[d][i] EXCEPT !.st = s.st, !.tries = s.tries]]

ChunkSaves(d, i) ==
    /\ Saving(d, i)
    /\ meta' = [meta EXCEPT ![i] = part[d][i].comp]
    /\ Becomes(d, i, AfterSave(part[d][i]))
    /\ UNCHANGED <<pull, dl, entry, data, blob, faults, crashes>>

\* An error other than the end of the context: again, or with the disk full the end.
Broken(tries) == {Retry(tries), [st |-> "fail", tries |-> tries]}

\* The part file cannot be written.  A stall is the error that came first.
ChunkSaveFails(d, i) ==
    /\ Saving(d, i) /\ Fault
    /\ \E m \in {meta[i], Torn} : meta' = [meta EXCEPT ![i] = m]
    /\ IF part[d][i].st = "stall"
       THEN Becomes(d, i, AfterSave(part[d][i]))
       ELSE \E s \in Broken(part[d][i].tries) : Becomes(d, i, s)
    /\ UNCHANGED <<pull, dl, entry, data, blob, crashes>>

\* Mutant of ChunkBreaks: the attempt is not rolled back.
ChunkBreaksForward(d, i) ==
    /\ dl[d].pc = "fetch" /\ part[d][i].st = "fetch" /\ Fault
    /\ \E s \in Broken(part[d][i].tries) :
          part' = [part EXCEPT ![d][i] = [part[d][i] EXCEPT
                     !.got = 0, !.st = s.st, !.tries = s.tries]]
    /\ UNCHANGED <<pull, dl, entry, files, crashes>>

\* Any other failure: the attempt counts for nothing.  Bytes that were read and not
\* written were counted by the tee and are not taken back.
ChunkBreaks(d, i) ==
    /\ dl[d].pc = "fetch" /\ part[d][i].st = "fetch" /\ Fault
    /\ \E lost \in {0, 1} :
          /\ lost = 1 => part[d][i].comp + part[d][i].got < PartSize
          /\ dl' = [dl EXCEPT ![d].count = @ + lost - part[d][i].got]
    /\ \E s \in Broken(part[d][i].tries) :
          part' = [part EXCEPT ![d][i] = [part[d][i] EXCEPT
                     !.got = 0, !.st = s.st, !.tries = s.tries]]
    /\ UNCHANGED <<pull, entry, files, crashes>>

\* All goroutines of parts have returned.
RunWaited(d) ==
    /\ dl[d].pc = "fetch"
    /\ \A i \in dl[d].parts : part[d][i].st \in {"done", "fail"}
    /\ dl' = [dl EXCEPT ![d].pc = IF \A i \in dl[d].parts : part[d][i].st = "done"
                                  THEN "remove" ELSE "exit"]
    /\ UNCHANGED <<pull, part, entry, files, faults, crashes>>

\* The part files go, by the indices of b.Parts and not by their numbers.
RunRemove(d) ==
    /\ dl[d].pc = "remove" /\ dl[d].next < Cardinality(dl[d].parts)
    /\ \/ /\ meta[dl[d].next] = Absent
          /\ dl' = [dl EXCEPT ![d].pc = "exit"]
          /\ UNCHANGED meta
       \/ /\ meta[dl[d].next] # Absent
          /\ meta' = [meta EXCEPT ![dl[d].next] = Absent]
          /\ dl' = [dl EXCEPT ![d].next = @ + 1]
    /\ UNCHANGED <<pull, part, entry, data, blob, faults, crashes>>

RunRename(d) ==
    /\ dl[d].pc = "remove" /\ dl[d].next = Cardinality(dl[d].parts)
    /\ \/ /\ blob' = IF \A i \in Parts : data[i] = PartSize THEN "good" ELSE "bad"
          /\ data' = [i \in Parts |-> 0]
          /\ dl' = [dl EXCEPT ![d] = [dl[d] EXCEPT !.pc = "exit", !.ok = TRUE]]
          /\ UNCHANGED faults
       \/ /\ Fault
          /\ dl' = [dl EXCEPT ![d].pc = "exit"]
          /\ UNCHANGED <<data, blob>>
    /\ UNCHANGED <<pull, part, entry, meta, crashes>>

RunDelete(d) ==
    /\ dl[d].pc = "exit"
    /\ entry' = None
    /\ dl' = [dl EXCEPT ![d].pc = "deleted"]
    /\ UNCHANGED <<pull, part, files, faults, crashes>>

\* Mutant of RunCloses: done is closed on success only.
RunClosesOk(d) ==
    /\ dl[d].pc = "deleted" /\ dl[d].ok
    /\ dl' = [dl EXCEPT ![d].pc = "over"]
    /\ UNCHANGED <<pull, part, entry, files, faults, crashes>>

RunCloses(d) ==
    /\ dl[d].pc = "deleted"
    /\ dl' = [dl EXCEPT ![d].pc = "over"]
    /\ UNCHANGED <<pull, part, entry, files, faults, crashes>>

----------------------------------------------------------------------------
(* The process ends and is started again.                                  *)

Ended(p) == pull[p].pc \in {"new", "done", "failed", "gone"}

\* What is left of part file i: what was there, or less or more of a write.
Survives(i) ==
    {meta[i]}
    \cup (IF \E p \in Pulls : pull[p].pc = "create" /\ dl[p].next = i THEN {Torn, 0} ELSE {})
    \cup UNION {{Torn, part[d][i].comp} : d \in {e \in Downloads : Saving(e, i)}}

\* At start PruneLayers removes the part files and the partial file that are
\* older than an hour.  The partial file is as young as the part files saved
\* last, so it goes only if they all go; so does a blob that no manifest names.
Restart ==
    /\ pull' = [p \in Pulls |-> IF Ended(p) THEN pull[p] ELSE [pull[p] EXCEPT !.pc = "gone"]]
    /\ dl' = [d \in Downloads |-> NewDownload]
    /\ part' = [d \in Downloads |-> [i \in Parts |-> NewPart]]
    /\ entry' = None
    /\ \E old \in SUBSET Parts :
          \E left \in {m \in [Parts -> UNION {Survives(i) : i \in Parts}] :
                          \A i \in Parts : m[i] \in Survives(i)} :
             meta' = [i \in Parts |-> IF i \in old THEN Absent ELSE left[i]]
    /\ \/ UNCHANGED data
       \/ (\A i \in Parts : meta'[i] = Absent) /\ data' = [i \in Parts |-> 0]
    /\ blob' \in IF \E p \in Pulls : pull[p].pc = "done" THEN {blob} ELSE {blob, "absent"}
    /\ UNCHANGED faults

Crash == crashes < MaxCrashes /\ crashes' = crashes + 1 /\ Restart

\* release calls a CancelFunc that is nil: the process panics.
Panic(p) ==
    /\ pull[p].pc = "wait" /\ pull[p].left
    /\ dl[pull[p].dl].refs = 1 /\ NoCancelFunc(pull[p].dl)
    /\ Restart
    /\ UNCHANGED crashes

----------------------------------------------------------------------------

\* A pull that joined a download whose Prepare failed.
Orphaned(p) == pull[p].pc = "wait" /\ dl[pull[p].dl].pc = "dead"

Quiescent ==
    /\ \A p \in Pulls : (pull[p].pc # "new" /\ Ended(p)) \/ Orphaned(p)
    /\ \A d \in Downloads : dl[d].pc \in {"none", "dead", "over"}

Terminated == Quiescent /\ UNCHANGED vars

Prepare(p) == PrepareRead(p) \/ PrepareHead(p) \/ PrepareCreate(p) \/ PrepareFails(p)
Waiter(p)  == LoadOrStore(p) \/ Acquire(p) \/ Gets(p) \/ Verify(p) \/ WriteManifest(p)

Chunk(d, i) == \/ ChunkRead(d, i) \/ ChunkSaves(d, i) \/ ChunkSaveFails(d, i)
               \/ ChunkBreaks(d, i)
               \/ \E why \in {"ok", "stop", "stall", "eof"} : ChunkEnds(d, i, why)
Run(d) == \/ RunStart(d) \/ RunFetch(d) \/ RunFails(d) \/ RunWaited(d)
          \/ RunRemove(d) \/ RunRename(d) \/ RunDelete(d) \/ RunCloses(d)
          \/ \E i \in Parts : Chunk(d, i)

Next ==
    \/ \E p \in Pulls : \/ Stat(p) \/ LoadOrStore(p) \/ PrepareRead(p) \/ PrepareHead(p)
                        \/ PrepareCreate(p) \/ PrepareFails(p) \/ Acquire(p) \/ Gets(p)
                        \/ Leave(p) \/ Abandon(p) \/ Verify(p) \/ WriteManifest(p) \/ Panic(p)
    \/ \E d \in Downloads :
          \/ RunStart(d) \/ RunFetch(d) \/ RunFails(d) \/ RunWaited(d)
          \/ RunRemove(d) \/ RunRename(d) \/ RunDelete(d) \/ RunCloses(d)
          \/ \E i \in Parts :
                \/ ChunkRead(d, i) \/ ChunkSaves(d, i) \/ ChunkSaveFails(d, i)
                \/ ChunkBreaks(d, i)
                \/ \E why \in {"ok", "stop", "stall", "eof"} : ChunkEnds(d, i, why)
    \/ Crash
    \/ Terminated

Spec == Init /\ [][Next]_vars

\* Goroutines that can run do run.  After its client left a pull may hang in the
\* report of its progress, which nobody reads; Prepare reports nothing.
Fairness ==
    /\ \A p \in Pulls : WF_vars(Prepare(p)) /\ WF_vars(~pull[p].left /\ Waiter(p))
    /\ \A d \in Downloads : WF_vars(Run(d))

FairSpec == Spec /\ Fairness

----------------------------------------------------------------------------
(* Properties.                                                             *)

TypeOK ==
    /\ pull \in [Pulls -> Pull]
    /\ dl \in [Downloads -> Download]
    /\ part \in [Downloads -> [Parts -> Part]]
    /\ entry \in Downloads \cup {None}
    /\ data \in [Parts -> 0 .. PartSize]
    /\ meta \in [Parts -> {Absent, Torn} \cup 0 .. PartSize]
    /\ blob \in {"absent", "good", "bad"}
    /\ faults \in 0 .. MaxFaults /\ crashes \in 0 .. MaxCrashes

\* The files of a blob have one writer, though nothing locks them: whoever prepares
\* or runs a download is the one in blobDownloadManager, until everything it started
\* has returned, also after all its clients left and new ones came.
Working(d) == dl[d].pc \in {"prepare", "start", "url", "fetch", "remove", "exit"}
OneWriter == \A d \in Downloads : Working(d) => entry = d

\* A part is never believed further than the partial file has it, through stalls,
\* retries, failed saves, cancelled downloads and crashes: if the part files make a
\* whole plan, the bytes skipped by StartsAt are there and the renamed file has no hole.
NoHoles ==
    \A d \in Downloads :
        dl[d].pc \in {"start", "url", "fetch", "remove"} /\ dl[d].parts = Parts =>
            \A i \in Parts : /\ part[d][i].comp + part[d][i].got <= data[i]
                             /\ dl[d].pc = "remove" => data[i] = PartSize

\* The progress Wait reports to every client is what the parts have, but for one
\* read of each write of the partial file that failed: no attempt is counted twice.
ProgressExact ==
    \A d \in Downloads :
        dl[d].pc \in {"start", "url", "fetch", "remove"} =>
            LET has == [i \in Parts |-> part[d][i].comp + part[d][i].got]
                sum == Total(has, dl[d].parts)
            IN dl[d].count \in sum .. (sum + faults)

\* As long as a part file is there what it records is not lowered, by a restart, a
\* retry or another pull: what was received is not asked for again (Prepare reads
\* the part files before newPart may write them).
ProgressKept ==
    [][\A i \in Parts : meta[i] >= 0 /\ meta'[i] >= 0 => meta'[i] >= meta[i]]_vars

\* A download that nobody waits for, or is about to, has been cancelled: the count
\* of references of acquire and release misses nobody's leaving.
Wanted(d) == \E p \in Pulls : pull[p].dl = d /\ pull[p].pc \in {"acquire", "wait"}
AbandonedIsCancelled ==
    \A d \in Downloads :
        dl[d].pc \in {"start", "url", "fetch", "remove"} /\ ~Wanted(d) => dl[d].cancelled

\* "multiple calls will share the same download progress" (docs/api.md): a pull that
\* waits for a shared download, and whose client stays, comes to an end (Wait), unless
\* the download it joined was never started: Run closes done on every path, however
\* parts stall, fail and are tried again.
StartedPullEnds ==
    \A p \in Pulls : pull[p].pc = "wait" ~> \/ pull[p].pc # "wait" \/ pull[p].left
                                            \/ Orphaned(p)

\* "Cancelled pulls are resumed from where they left off": with nothing failing and
\* nobody leaving, a pull does not fail because an earlier one was interrupted by the
\* end of the process (Prepare and run on the files they find).
InterruptedPullResumes == \A p \in Pulls : pull[p].pc # "failed"
=============================================================================
