----------------------------- MODULE BlobUpload -----------------------------
(***************************************************************************)
(* Pushing one blob: uploadBlob of server/upload.go, called by PushModel   *)
(* for each layer, with the uploads that pushes at the same time share.    *)
(*                                                                         *)
(* A push creates at most one blobUpload, so an upload is named by the     *)
(* push that created it.  Its parts go out one after the other: each is    *)
(* sent to the location that the answer to the one before named, and the   *)
(* locations are handed on over a channel of capacity one.  A part whose   *)
(* answer is a redirect hands the location on at once and is then put      *)
(* elsewhere, so that the next part overlaps with it.                      *)
(*                                                                         *)
(* Nothing is kept on disk.  The registry is modelled by its answers.      *)
(***************************************************************************)
EXTENDS Integers, FiniteSets, Sums

CONSTANTS
    Pushes,      \* calls of uploadBlob for a digest; also the names of uploads
    None,        \* Go's nil
    Repo,        \* [Pushes -> the repository pushed to]
    NumParts,    \* parts of the blob; at most the limit of the group, numUploadParts
    MaxRetries,  \* maxRetries, attempts at a request
    Mounts,      \* pushes of a layer that another repository may have (Layer.From)
    MayLeave,    \* pushes whose client may disconnect
    MaxFaults    \* bound: failures of the network and of the registry

Parts   == 0 .. (NumParts - 1)
Uploads == Pushes

ASSUME UploadAssumption ==
    /\ IsFiniteSet(Pushes) /\ None \notin Pushes
    /\ Mounts \subseteq Pushes /\ MayLeave \subseteq Pushes
    /\ NumParts \in 1 .. 16 /\ MaxRetries \in Nat \ {0} /\ MaxFaults \in Nat

VARIABLES
    push,    \* per call: where it is, the upload it waits for
    up,      \* per upload: the blobUpload and the goroutine of Run
    part,    \* per upload and part: its goroutine
    entry,   \* the entry of the digest in blobUploadManager
    stored,  \* per repository: whether it has the blob
    faults   \* failures so far

vars == <<push, up, part, entry, stored, faults>>

\* url: a location is in nextURL.  stop: CancelFunc is set.  err: b.err is set.
NewUpload == [pc |-> "none", next |-> 0, url |-> FALSE, count |-> 0, refs |-> 0, stop |-> FALSE,
              cancelled |-> FALSE, tries |-> 0, err |-> FALSE, done |-> FALSE]

\* read: what the progressWriter of the attempt has counted.
NewPart == [st |-> "idle", read |-> 0, tries |-> 0]

Init ==
    /\ push = [p \in Pushes |-> [pc |-> "new", up |-> None, left |-> FALSE]]
    /\ up = [u \in Uploads |-> NewUpload]
    /\ part = [u \in Uploads |-> [i \in Parts |-> NewPart]]
    /\ entry = None
    /\ stored = [r \in {Repo[p] : p \in Pushes} |-> FALSE]
    /\ faults = 0

Fault == faults < MaxFaults /\ faults' = faults + 1

\* A panic in one of these goroutines is the end of the server: nothing recovers it.
Dies(u) ==
    /\ push' = [p \in Pushes |-> IF push[p].pc = "new" THEN push[p] ELSE [push[p] EXCEPT !.pc = "gone"]]
    /\ up' = [v \in Uploads |-> [up[v] EXCEPT !.pc = IF v = u THEN "panicked" ELSE "over"]]
    /\ part' = [v \in Uploads |-> [i \in Parts |-> NewPart]]
    /\ entry' = None
    /\ UNCHANGED <<stored, faults>>

----------------------------------------------------------------------------
(* uploadBlob.                                                             *)

\* The registry is asked for the blob.
HeadBlob(p) ==
    /\ push[p].pc = "new"
    /\ push' = [push EXCEPT ![p].pc = IF stored[Repo[p]] THEN "sent" ELSE "load"]
    /\ UNCHANGED <<up, part, entry, stored, faults>>

HeadFails(p) ==
    /\ push[p].pc = "new"
    /\ IF push[p].left THEN UNCHANGED faults ELSE Fault
    /\ push' = [push EXCEPT ![p].pc = "failed"]
    /\ UNCHANGED <<up, part, entry, stored>>

LoadOrStore(p) ==
    /\ push[p].pc = "load"
    /\ IF entry = None
       THEN /\ entry' = p
            /\ push' = [push EXCEPT ![p].pc = "prepare", ![p].up = p]
            /\ up' = [up EXCEPT ![p].pc = "prepare"]
       ELSE /\ push' = [push EXCEPT ![p].pc = "acquire", ![p].up = entry]
            /\ UNCHANGED <<entry, up>>
    /\ UNCHANGED <<part, stored, faults>>

Prepared(p, u) ==
    /\ push' = [push EXCEPT ![p].pc = "acquire"]
    /\ up' = [up EXCEPT ![p] = [u EXCEPT !.pc = "start"]]
    /\ UNCHANGED <<part, entry, faults>>

\* Prepare: the registry names a location for the first part ...
Prepare(p) ==
    /\ push[p].pc = "prepare"
    /\ Prepared(p, [up[p] EXCEPT !.url = TRUE])
    /\ UNCHANGED stored

\* ... or has taken the blob from another repository: there are no parts then, and
\* no channel.
PrepareMounts(p) ==
    /\ push[p].pc = "prepare" /\ p \in Mounts
    /\ Prepared(p, [up[p] EXCEPT !.next = NumParts, !.count = NumParts, !.done = TRUE])
    /\ stored' = [stored EXCEPT ![Repo[p]] = TRUE]

\* Those who joined are not told.
PrepareFails(p) ==
    /\ push[p].pc = "prepare"
    /\ IF push[p].left THEN UNCHANGED faults ELSE Fault
    /\ push' = [push EXCEPT ![p].pc = "failed"]
    /\ up' = [up EXCEPT ![p].pc = "dead"]
    /\ entry' = None
    /\ UNCHANGED <<part, stored>>

----------------------------------------------------------------------------
(* Wait.                                                                   *)

Acquire(p) ==
    /\ push[p].pc = "acquire"
    /\ push' = [push EXCEPT ![p].pc = "wait"]
    /\ up' = [up EXCEPT ![push[p].up].refs = @ + 1]
    /\ UNCHANGED <<part, entry, stored, faults>>

\* The last to leave cancels, with the CancelFunc that Run sets when it starts.
Release(p, pc) ==
    LET u == push[p].up
    IN IF up[u].refs = 1 /\ ~up[u].stop THEN Dies(u)
       ELSE /\ push' = [push EXCEPT ![p].pc = pc]
            /\ up' = [up EXCEPT ![u].refs = @ - 1, ![u].cancelled = @ \/ up[u].refs = 1]
            /\ UNCHANGED <<part, entry, stored, faults>>

Gets(p) ==
    /\ push[p].pc = "wait"
    /\ up[push[p].up].done \/ up[push[p].up].err
    /\ Release(p, IF up[push[p].up].err THEN "failed" ELSE "sent")

Leave(p) ==
    /\ p \in MayLeave /\ ~push[p].left /\ push[p].pc \in {"new", "load", "prepare", "acquire", "wait"}
    /\ push' = [push EXCEPT ![p].left = TRUE]
    /\ UNCHANGED <<up, part, entry, stored, faults>>

Abandon(p) == push[p].pc = "wait" /\ push[p].left /\ Release(p, "gone")

----------------------------------------------------------------------------
(* Run.                                                                    *)

RunStart(u) ==
    /\ up[u].pc = "start"
    /\ up' = [up EXCEPT ![u].pc = "loop", ![u].stop = TRUE]
    /\ UNCHANGED <<push, part, entry, stored, faults>>

\* The file of the blob does not open.
RunFails(u) ==
    /\ up[u].pc = "start" /\ Fault
    /\ up' = [up EXCEPT ![u].pc = "exit", ![u].stop = TRUE, ![u].err = TRUE]
    /\ UNCHANGED <<push, part, entry, stored>>

\* The context of the group: of the upload, and over at the first error of a part.
InnerDone(u) == up[u].cancelled \/ \E i \in Parts : part[u][i].st = "failed"

\* The turn of a part: its location comes, or the context is over and the turn passes
\* without it.  When both are the case either may happen.
RunNext(u) ==
    /\ up[u].pc = "loop" /\ up[u].next < NumParts
    /\ \/ /\ InnerDone(u)
          /\ up' = [up EXCEPT ![u].next = @ + 1]
          /\ UNCHANGED part
       \/ /\ up[u].url
          /\ up' = [up EXCEPT ![u].next = @ + 1, ![u].url = FALSE]
          /\ part' = [part EXCEPT ![u][up[u].next].st = "patch"]
    /\ UNCHANGED <<push, entry, stored, faults>>

\* g.Wait.
RunWaited(u) ==
    /\ up[u].pc = "loop" /\ up[u].next = NumParts
    /\ \A i \in Parts : part[u][i].st \notin {"patch", "put"}
    /\ up' = [up EXCEPT ![u] = IF \E i \in Parts : part[u][i].st = "failed"
                               THEN [@ EXCEPT !.pc = "exit", !.err = TRUE]
                               ELSE [@ EXCEPT !.pc = "take"]]
    /\ UNCHANGED <<push, part, entry, stored, faults>>

\* Parts of a mounted blob: none.
Planned(u) == IF up[u].done THEN {} ELSE Parts

\* The location of the commit; after a mount there is no channel, and Run waits for
\* ever.  The checksum is that of the parts; one that was
\* passed over has none, and its nil hash is called.
RunTakes(u) ==
    /\ up[u].pc = "take" /\ up[u].url
    /\ IF \A i \in Planned(u) : part[u][i].st = "ok"
       THEN /\ up' = [up EXCEPT ![u].pc = "commit", ![u].url = FALSE]
            /\ UNCHANGED <<push, part, entry, stored, faults>>
       ELSE Dies(u)

RunCommits(u) ==
    /\ up[u].pc = "commit"
    /\ stored' = [stored EXCEPT ![Repo[u]] = TRUE]
    /\ up' = [up EXCEPT ![u].pc = "exit", ![u].done = TRUE]
    /\ UNCHANGED <<push, part, entry, faults>>

\* Mutant of CommitEnds: the last error is not kept.
CommitEndsClean(u) == [up[u] EXCEPT !.pc = "exit", !.done = TRUE]

CommitEnds(u) == [up[u] EXCEPT !.pc = "exit", !.err = TRUE, !.done = TRUE]

\* The commit fails, or its answer is lost; or the upload has been cancelled.
CommitFails(u) ==
    /\ up[u].pc = "commit"
    /\ IF up[u].cancelled THEN UNCHANGED faults ELSE Fault
    /\ up' = [up EXCEPT ![u] = IF up[u].cancelled \/ up[u].tries + 1 = MaxRetries THEN CommitEnds(u)
                               ELSE [up[u] EXCEPT !.tries = @ + 1]]
    /\ \E taken \in BOOLEAN : stored' = [stored EXCEPT ![Repo[u]] = @ \/ taken]
    /\ UNCHANGED <<push, part, entry>>

RunDeletes(u) ==
    /\ up[u].pc = "exit"
    /\ entry' = None
    /\ up' = [up EXCEPT ![u].pc = "over"]
    /\ UNCHANGED <<push, part, stored, faults>>

----------------------------------------------------------------------------
(* uploadPart.                                                             *)

\* The body is read, and counted.
PartReads(u, i) ==
    /\ part[u][i].st \in {"patch", "put"} /\ part[u][i].read = 0
    /\ part' = [part EXCEPT ![u][i].read = 1]
    /\ up' = [up EXCEPT ![u].count = @ + 1]
    /\ UNCHANGED <<push, entry, stored, faults>>

\* Mutant of PartPatched: the last part hands on no location.
PartPatchedLast(u, i) ==
    /\ part[u][i].st = "patch" /\ part[u][i].read = 1 /\ ~up[u].url
    /\ part' = [part EXCEPT ![u][i].st = "ok"]
    /\ up' = [up EXCEPT ![u].url = i + 1 < NumParts]
    /\ UNCHANGED <<push, entry, stored, faults>>

\* The answer to a patch names the next location.
PartPatched(u, i) ==
    /\ part[u][i].st = "patch" /\ part[u][i].read = 1 /\ ~up[u].url
    /\ part' = [part EXCEPT ![u][i].st = "ok"]
    /\ up' = [up EXCEPT ![u].url = TRUE]
    /\ UNCHANGED <<push, entry, stored, faults>>

\* Mutant of Rollback: the progress is not taken back.
RollbackForgotten(u, i) == up[u]

Rollback(u, i) == [up[u] EXCEPT !.count = @ - part[u][i].read]

\* It may also send the part elsewhere, read or not.
PartRedirected(u, i) ==
    /\ part[u][i].st = "patch" /\ ~up[u].url
    /\ part' = [part EXCEPT ![u][i] = [st |-> "put", read |-> 0, tries |-> 0]]
    /\ up' = [up EXCEPT ![u] = [Rollback(u, i) EXCEPT !.url = TRUE]]
    /\ UNCHANGED <<push, entry, stored, faults>>

PartPut(u, i) ==
    /\ part[u][i].st = "put" /\ part[u][i].read = 1
    /\ part' = [part EXCEPT ![u][i].st = "ok"]
    /\ UNCHANGED <<push, up, entry, stored, faults>>

\* An attempt that fails is made again, unless the context is over.
PartFails(u, i) ==
    /\ part[u][i].st \in {"patch", "put"}
    /\ IF InnerDone(u) THEN UNCHANGED faults ELSE Fault
    /\ part' = [part EXCEPT ![u][i] =
                  IF InnerDone(u) \/ part[u][i].tries + 1 = MaxRetries
                  THEN [@ EXCEPT !.st = "failed", !.read = 0]
                  ELSE [part[u][i] EXCEPT !.read = 0, !.tries = @ + 1]]
    /\ up' = [up EXCEPT ![u] = Rollback(u, i)]
    /\ UNCHANGED <<push, entry, stored>>

----------------------------------------------------------------------------

Waiter(p)   == HeadBlob(p) \/ LoadOrStore(p) \/ Acquire(p) \/ Gets(p)
Prepares(p) == Prepare(p) \/ PrepareMounts(p) \/ PrepareFails(p)

Part(u, i) == \/ PartReads(u, i) \/ PartPatched(u, i) \/ PartRedirected(u, i)
              \/ PartPut(u, i) \/ PartFails(u, i)

Run(u) == \/ RunStart(u) \/ RunNext(u) \/ RunWaited(u) \/ RunTakes(u) \/ RunCommits(u)
          \/ CommitFails(u) \/ RunDeletes(u)

\* A push that joined an upload whose Prepare failed.
Orphaned(p) == push[p].pc = "wait" /\ up[push[p].up].pc = "dead"

Next ==
    \/ \E p \in Pushes : \/ Waiter(p) \/ HeadFails(p) \/ Prepares(p) \/ Leave(p) \/ Abandon(p)
    \/ \E u \in Uploads : Run(u) \/ RunFails(u) \/ \E i \in Parts : Part(u, i)

Spec == Init /\ [][Next]_vars

\* Goroutines that can run do run, and requests end.  After its client has left a
\* push may hang in the report of its progress, which nobody reads; Prepare reports none.
Fairness ==
    /\ \A p \in Pushes : WF_vars(Prepares(p)) /\ WF_vars(~push[p].left /\ Waiter(p))
    /\ \A u \in Uploads : WF_vars(Run(u)) /\ \A i \in Parts : WF_vars(Part(u, i))

FairSpec == Spec /\ Fairness

----------------------------------------------------------------------------
(* Properties.                                                             *)

\* What Wait reports is what has been sent: parts that are through and what the
\* running attempts have read, each part once, through retries and redirects
\* (Rollback), and all of it when the commit is made.
ProgressExact ==
    \A u \in Uploads : up[u].pc \in {"loop", "take", "commit"} /\ ~up[u].done =>
        /\ up[u].count = Total([i \in Parts |-> part[u][i].read], Parts)
        /\ up[u].pc = "commit" => up[u].count = NumParts

\* A push goes on to its manifest only when its repository has the blob, whoever
\* uploaded or mounted it, and whatever failed or was cancelled on the way.  A push
\* that joined the upload of another repository is excepted: uploads are shared by
\* digest alone, and the other repository is all that gets the blob.
BlobArrives ==
    \A p \in Pushes : push[p].pc = "sent" =>
        \/ stored[Repo[p]]
        \/ push[p].up # None /\ Repo[push[p].up] # Repo[p]

\* A push whose client stays gets an answer from the upload it waits for: the chain
\* of locations neither breaks nor blocks, whether parts are redirected, tried again
\* or passed over (Run).  One that joined an upload whose Prepare failed is excepted.
PushEnds ==
    \A p \in Pushes : push[p].pc = "wait" ~> push[p].pc # "wait" \/ push[p].left \/ Orphaned(p)

\* "Run sets b.err on error" (upload.go:128): a Run that gets past its parts without
\* one has uploaded them all.
RunSetsErr ==
    \A u \in Uploads : up[u].pc = "take" => \A i \in Planned(u) : part[u][i].st = "ok"
=============================================================================
