----------------------------- MODULE AgentChat -----------------------------
(***************************************************************************)
(* The agent loop (agent/session.go, approval.go, compactor.go) and the    *)
(* chat that shows it and keeps the conversation (cmd/tui/chat).  The      *)
(* session runs in a goroutine with a history of its own and reports to    *)
(* the chat through a bounded channel of events, from which the chat       *)
(* rebuilds a live history.  When the run ends the chat takes the result   *)
(* or, if it never gets one, falls back on what it has.                    *)
(*                                                                         *)
(* After the user has cancelled, each send on that channel is a race       *)
(* between the send and the end of the context: an event may be lost.      *)
(* Events that change no history (started, finished, errors, progress) are *)
(* not put in the channel; that their send may fail is modelled, and what  *)
(* the chat makes of those that tell it of a compaction.  The session has  *)
(* a tool registry and a compactor.                                        *)
(***************************************************************************)
EXTENDS Selection, FiniteSets

CONSTANTS
    Scopes,        \* approval scopes of the tools that need approval
    Batches,       \* what a model may call in one answer: sequences of kinds
    KeepTurns,     \* user turns an automatic compaction keeps
    MaxRounds,     \* RunOptions.MaxToolRounds
    EventCap,      \* capacity of the channel of events
    MaxRuns,       \* bound: prompts the user sends
    MaxCalls,      \* bound: tool calls over all runs
    MaxOdd         \* bound: server errors, compactions (of a history that fits, also
                   \* those tried in vain), grants of full access, new chats, together

\* A call is of a known tool that needs no approval, of one that needs approval
\* for a scope, or of a tool that does not exist.
Kinds == Scopes \cup {"free", "unknown"}

ASSUME AgentAssumption ==
    /\ {"free", "unknown"} \cap Scopes = {}
    /\ \A b \in Batches : b \in Seq(Kinds) /\ b # <<>>
    /\ KeepTurns \in Nat /\ MaxRounds \in Nat /\ EventCap \in Nat \ {0}
    /\ {MaxRuns, MaxCalls, MaxOdd} \subseteq Nat

VARIABLES
    run,       \* the session's goroutine: its place, history and round
    events,    \* channel of events from the session to the chat
    ui,        \* the chat: histories, open prompt, whether it reads events
    grants,    \* ApprovalState of the run and of the chat, one object if shared
    compaction,  \* what the chat has been told of the run's compactions
    consent,   \* what the user has allowed (for the properties)
    bounds     \* how often each bounded thing has happened

vars == <<run, events, ui, grants, compaction, consent, bounds>>

NoGrant == [all |-> FALSE, scopes |-> {}]
Allows(g, kind) == g.all \/ kind \in g.scopes

\* Messages.  A summary is the pair of a call, of id 0, and its result.
User == [role |-> "user"]
Assistant(text, ids) == [role |-> "assistant", text |-> text, calls |-> ids]
Result(id, body) == [role |-> "tool", call |-> id, body |-> body]
Summary == <<Assistant(FALSE, <<0>>), Result(0, "summary")>>

Ids(calls) == [i \in DOMAIN calls |-> calls[i].id]

\* No session; one with its history and its round is made for each prompt.
Off == [pc |-> "off", messages |-> <<>>, persisted |-> <<>>, over |-> FALSE,
        text |-> FALSE, calls |-> <<>>, canceled |-> FALSE, disabled |-> FALSE,
        errors |-> 0, retried |-> FALSE, rounds |-> 0,
        ask |-> {}, reply |-> "none", todo |-> <<>>, results |-> <<>>,
        batch |-> "none", status |-> "none"]

\* What the chat knows of a compaction once it has read the events already sent:
\* none, one going on, or one "canceled", with which it has given up its run.  A run
\* tells once that it has skipped a compaction.
Untold == [state |-> "none", notified |-> FALSE]

Init ==
    /\ run = Off
    /\ events = <<>>
    /\ ui = [running |-> FALSE, messages |-> <<>>, live |-> <<>>, reading |-> FALSE,
             prompt |-> {}, asked |-> FALSE]
    /\ grants = [run |-> NoGrant, ui |-> NoGrant, shared |-> FALSE]
    /\ compaction = Untold
    /\ consent = [calls |-> {}, scopes |-> {}, all |-> FALSE]
    /\ bounds = [calls |-> 0, runs |-> 0, odd |-> 0]

----------------------------------------------------------------------------
(* Emitting: the send blocks while the channel is full, and may be given   *)
(* up once the context is over.                                            *)

Emits(event) == Len(events) < EventCap /\ events' = Append(events, event)
Lost == run.over /\ UNCHANGED events

EmitsOrLoses(event) == Emits(event) \/ Lost

Go(pc) == [run EXCEPT !.pc = pc]

\* The run ends with an error and without a result.
Fails == [Off EXCEPT !.pc = "return", !.status = "failed", !.over = run.over,
                     !.persisted = run.persisted]

Tells(state) == compaction' = [compaction EXCEPT !.state = state]

\* An error is reported, which for the chat ends a compaction.
ReportsError == Tells("none") \/ (run.over /\ UNCHANGED compaction)

SessionOnly == UNCHANGED <<ui, grants, consent, bounds>>

----------------------------------------------------------------------------
(* One round with the model: chatRound and runModelStep.                   *)

\* Mutant of Route: one round more than the limit.
RouteLate(calls, canceled) ==
    CASE calls = <<>> -> "compact"
      [] calls # <<>> /\ canceled -> "cancel"
      [] calls # <<>> /\ ~canceled /\ run.disabled -> "disable"
      [] OTHER -> IF run.rounds > MaxRounds THEN "limit" ELSE "plan"

\* Where the calls of an answer go: nowhere, or to be answered without being run
\* because the run was cancelled, tools are disabled or the limit is reached.
Route(calls, canceled) ==
    CASE calls = <<>> -> "compact"
      [] calls # <<>> /\ canceled -> "cancel"
      [] calls # <<>> /\ ~canceled /\ run.disabled -> "disable"
      [] OTHER -> IF run.rounds >= MaxRounds THEN "limit" ELSE "plan"

\* The round is over: an answer that is not empty goes into the history.
Answered(text, calls, canceled) ==
    run' = [run EXCEPT
              !.text = text, !.calls = calls, !.canceled = canceled,
              !.messages = IF text \/ calls # <<>>
                           THEN Append(@, Assistant(text, Ids(calls))) ELSE @,
              !.errors = 0, !.pc = Route(calls, canceled), !.batch = "none",
              !.todo = calls, !.results = <<>>]

\* A failed send ends the round as a cancellation, with what has come so far.
StreamText ==
    /\ run.pc = "model" /\ ~run.text /\ run.calls = <<>>
    /\ \/ Emits([type |-> "text"]) /\ run' = [run EXCEPT !.text = TRUE]
       \/ Lost /\ Answered(TRUE, <<>>, TRUE)
    /\ UNCHANGED compaction /\ SessionOnly

StreamCalls ==
    /\ run.pc = "model" /\ run.calls = <<>>
    /\ \E b \in Batches :
          LET calls == [i \in DOMAIN b |-> [id |-> bounds.calls + i, kind |-> b[i]]] IN
          /\ bounds.calls + Len(b) <= MaxCalls
          /\ bounds' = [bounds EXCEPT !.calls = @ + Len(b)]
          /\ \/ /\ Emits([type |-> "calls", calls |-> Ids(calls)])
                /\ run' = [run EXCEPT !.calls = calls]
             \/ Lost /\ Answered(run.text, calls, TRUE)
    /\ UNCHANGED <<ui, grants, compaction, consent>>

\* The response ends, of itself or because the context is over.
StreamEnds ==
    /\ run.pc = "model"
    /\ \E canceled \in {FALSE, run.over} : Answered(run.text, run.calls, canceled)
    /\ UNCHANGED <<events, compaction>> /\ SessionOnly

\* A server error: the partial answer is dropped, the model is told and asked
\* again, twice at most.
StreamFails ==
    /\ run.pc = "model" /\ run.errors < 2 /\ bounds.odd < MaxOdd
    /\ bounds' = [bounds EXCEPT !.odd = @ + 1]
    /\ run' = [run EXCEPT !.errors = @ + 1, !.retried = TRUE, !.messages = Append(@, User),
                          !.text = FALSE, !.calls = <<>>]
    /\ UNCHANGED <<events, ui, grants, compaction, consent>>

\* Any other error, or one too many.
StreamBreaks ==
    /\ run.pc = "model"
    /\ run' = Fails /\ ReportsError
    /\ UNCHANGED events /\ SessionOnly

----------------------------------------------------------------------------
(* A batch of tool calls: skipToolCalls, disabledToolCalls,                *)
(* executeToolCalls.                                                       *)

Refusals == {"cancel", "limit", "disable", "deny", "rest"}

\* One of the calls is answered with a notice.  Only while denying does a failed
\* send fail the run.
Refuse ==
    /\ run.pc \in Refusals /\ run.todo # <<>>
    /\ LET id == Head(run.todo).id
           next == [run EXCEPT !.todo = Tail(@), !.results = Append(@, Result(id, "notice"))]
       IN \/ /\ \/ Emits([type |-> "tool", call |-> id, body |-> "notice"])
                \/ Lost /\ run.pc # "deny"
             /\ run' = next /\ UNCHANGED compaction
          \/ Lost /\ run.pc = "deny" /\ run' = Fails /\ ReportsError
    /\ SessionOnly

\* Each way of answering the calls ends the run or leads to compaction, as a
\* batch with its outcome.
BatchEnds ==
    /\ run.todo = <<>>
    /\ \/ \E end \in {<<"cancel", "canceled">>, <<"limit", "error">>} :
             /\ run.pc = end[1]
             /\ run' = [run EXCEPT !.messages = @ \o run.results, !.pc = "finish",
                                   !.status = end[2]]
             /\ IF run.pc = "limit" THEN ReportsError ELSE UNCHANGED compaction
       \/ \E end \in {<<"disable", "ran">>, <<"exec", "ran">>, <<"deny", "denied">>,
                      <<"rest", "canceled">>} :
             /\ run.pc = end[1]
             /\ run' = [run EXCEPT !.messages = @ \o run.results, !.pc = "compact",
                                   !.batch = end[2]]
             /\ UNCHANGED compaction
    /\ UNCHANGED events /\ SessionOnly

\* Mutant of NeedApproval: only the first call of the batch is looked at.
NeedApprovalFirst ==
    {call \in {run.calls[1]} : call.kind \in Scopes /\ ~Allows(grants.run, call.kind)}

NeedApproval ==
    {call \in {run.calls[i] : i \in DOMAIN run.calls} :
        call.kind \in Scopes /\ ~Allows(grants.run, call.kind)}

\* The calls that need approval are asked about together.
Plan ==
    /\ run.pc = "plan"
    /\ run' = [run EXCEPT !.ask = NeedApproval,
                          !.pc = IF NeedApproval = {} THEN "exec" ELSE "authorize"]
    /\ UNCHANGED <<events, compaction>> /\ SessionOnly

\* The grants are read again before the user is asked.
Authorize ==
    /\ run.pc = "authorize"
    /\ \/ /\ \A call \in run.ask : Allows(grants.run, call.kind)
          /\ run' = Go("exec") /\ UNCHANGED events
       \/ /\ \E call \in run.ask : ~Allows(grants.run, call.kind)
          /\ \/ /\ Emits([type |-> "prompt", ask |-> run.ask])
                /\ run' = [run EXCEPT !.pc = "wait", !.reply = "none"]
             \/ Lost /\ run' = Go("deny")
    /\ UNCHANGED compaction /\ SessionOnly

\* The grants of the answer are applied.  The chat has put them in its own state,
\* which after a new chat is another one.
TakeReply ==
    /\ run.pc = "wait" /\ run.reply # "none"
    /\ run' = [run EXCEPT !.pc = IF run.reply = "no" THEN "deny" ELSE "exec", !.reply = "none"]
    /\ LET g == [all    |-> grants.run.all \/ run.reply = "all",
                 scopes |-> grants.run.scopes \cup
                            IF run.reply = "always" THEN {call.kind : call \in run.ask} ELSE {}]
       IN grants' = [grants EXCEPT !.run = g, !.ui = IF grants.shared THEN g ELSE @]
    /\ UNCHANGED <<events, ui, compaction, consent, bounds>>

PromptAborts ==
    /\ run.pc = "wait" /\ run.over
    /\ run' = Go("deny")
    /\ UNCHANGED <<events, compaction>> /\ SessionOnly

ExecNext ==
    /\ run.pc = "exec" /\ run.todo # <<>>
    /\ run' = Go(IF run.over THEN "rest" ELSE "call")
    /\ UNCHANGED <<events, compaction>> /\ SessionOnly

\* The result of a call, whole or cut to fit, or left out altogether when the
\* context is full.
Bodies == {"whole", "omitted"}
Took(body, pc) ==
    [run EXCEPT !.todo = Tail(@), !.pc = pc,
                !.results = Append(@, Result(Head(run.todo).id, body))]

CallUnknown ==
    /\ run.pc = "call" /\ Head(run.todo).kind = "unknown"
    /\ \E body \in Bodies :
          \/ /\ Emits([type |-> "tool", call |-> Head(run.todo).id, body |-> body])
             /\ run' = Took(body, "exec") /\ UNCHANGED compaction
          \/ Lost /\ run' = Fails /\ ReportsError
    /\ SessionOnly

CallStarts ==
    /\ run.pc = "call" /\ Head(run.todo).kind # "unknown"
    /\ \/ run' = Go("running") /\ UNCHANGED compaction
       \/ run.over /\ run' = Fails /\ ReportsError
    /\ UNCHANGED events /\ SessionOnly

\* The tool returns, with a result or an error.
CallEnds ==
    /\ run.pc = "running"
    /\ \E body \in Bodies :
          /\ EmitsOrLoses([type |-> "tool", call |-> Head(run.todo).id, body |-> body])
          /\ run' = Took(body, IF run.over THEN "rest" ELSE "exec")
    /\ UNCHANGED compaction /\ SessionOnly

----------------------------------------------------------------------------
(* Compaction and the end of the run.                                      *)

Talk(messages) == Without(messages, {Summary[1], Summary[2]})

\* splitCompactionMessages: older summaries are dropped and everything before the
\* last keep user turns, never all of the turns, goes into the new one.
Split(messages, keep) ==
    LET talk  == Talk(messages)
        turns == {i \in DOMAIN talk : talk[i].role = "user"}
        kept  == IF Cardinality(turns) <= keep THEN Cardinality(turns) - 1 ELSE keep
        at    == IF kept <= 0 THEN Len(talk) + 1
                 ELSE CHOOSE i \in turns : Cardinality({j \in turns : j >= i}) = kept
    IN [ok |-> at > 1, suffix |-> SubSeq(talk, at, Len(talk))]

\* Results left out of a full context: everything is summarised and the round is
\* put back after the summary, with what now fits of those results.
Omitted(m) == m.body = "omitted"
Overflows == run.batch # "none" /\ \E i \in DOMAIN run.results : Omitted(run.results[i])

Refit(m) == IF Omitted(m) THEN [m EXCEPT !.body = "whole"] ELSE m

Reattached ==
    <<Assistant(run.text, Ids(run.calls))>> \o [i \in DOMAIN run.results |-> Refit(run.results[i])]

Compacts ==
    /\ run.pc = "compact" /\ ~run.over /\ bounds.odd < MaxOdd
    /\ bounds' = [bounds EXCEPT !.odd = @ + 1]
    /\ \/ /\ Overflows
          /\ run' = [run EXCEPT !.messages = Summary \o Reattached, !.pc = "announce"]
       \/ /\ ~Overflows /\ Split(run.messages, KeepTurns).ok
          /\ run' = [run EXCEPT !.messages = Summary \o Split(run.messages, KeepTurns).suffix,
                                !.pc = "announce"]
    /\ Tells("going")
    /\ UNCHANGED <<events, ui, grants, consent>>

Ends == CASE run.batch = "none" -> IF run.canceled THEN "canceled" ELSE "done"
          [] run.batch = "ran"  -> "none"
          [] OTHER -> run.batch

\* The run goes on only after a batch that was neither denied nor cancelled.
Settled ==
    IF Ends # "none" THEN [run EXCEPT !.pc = "finish", !.status = Ends]
    ELSE [run EXCEPT !.pc = "model", !.rounds = @ + 1, !.batch = "none",
                     !.text = FALSE, !.calls = <<>>, !.results = <<>>]

\* A compaction that is tried is announced and, once in a run, said to be skipped.
\* Either event may be lost.
Skips ==
    compaction' \in
        [notified : {TRUE},
         state    : {IF compaction.notified THEN "going" ELSE "none"} \cup
                    IF run.over THEN {"going", compaction.state} ELSE {}]

\* A compaction that is not due, fails or gives an empty summary changes nothing.
\* It is not even tried if it is not due.
LeavesHistory ==
    /\ run.pc = "compact"
    /\ run' = Settled
    /\ \/ Overflows /\ Skips /\ UNCHANGED bounds
       \/ /\ ~Overflows /\ Skips /\ bounds.odd < MaxOdd
          /\ bounds' = [bounds EXCEPT !.odd = @ + 1]
       \/ ~Overflows /\ UNCHANGED <<compaction, bounds>>
    /\ UNCHANGED <<events, ui, grants, consent>>

TooLarge == [run EXCEPT !.pc = "finish", !.status = "error"]

\* Mutant of Announce: the chat is not told.
AnnounceQuietly ==
    /\ run.pc = "announce"
    /\ run' \in {Settled, TooLarge}
    /\ UNCHANGED <<events, compaction>> /\ SessionOnly

\* The chat is sent the new history.  If it is still too large the run ends.
Announce ==
    /\ run.pc = "announce"
    /\ \/ /\ Emits([type |-> "compacted", messages |-> run.messages])
          /\ Tells("none") /\ run' \in {Settled, TooLarge}
       \/ Lost /\ run' = Settled /\ UNCHANGED compaction
       \/ Lost /\ run' = TooLarge /\ ReportsError
    /\ SessionOnly

\* The event of the end: if the run is over but does not know it, a send that
\* fails loses the result.
Finish ==
    /\ run.pc = "finish"
    /\ run' \in {[Off EXCEPT !.pc = "return", !.status = run.status, !.over = run.over,
                            !.messages = run.messages, !.persisted = run.persisted]} \cup
                (IF run.over /\ run.status \in {"done", "denied"} THEN {Fails} ELSE {})
    /\ UNCHANGED <<events, compaction>> /\ SessionOnly

Return ==
    /\ run.pc = "return"
    /\ EmitsOrLoses([type |-> "done", ok |-> run.status # "failed"])
    /\ run' = Go("closed")
    /\ UNCHANGED compaction /\ SessionOnly

Session ==
    \/ StreamText \/ StreamCalls \/ StreamEnds \/ StreamFails \/ StreamBreaks
    \/ Refuse \/ BatchEnds \/ Plan \/ Authorize \/ TakeReply \/ PromptAborts
    \/ ExecNext \/ CallUnknown \/ CallStarts \/ CallEnds
    \/ Compacts \/ LeavesHistory \/ Announce \/ Finish \/ Return

----------------------------------------------------------------------------
(* The chat.                                                               *)

\* Mutant of Begun: the live history does not start from the conversation.
BegunAlone == <<User>>

Begun == Append(ui.messages, User)

\* startRunWithMessages.
Submit ==
    /\ ~ui.running /\ bounds.runs < MaxRuns
    /\ bounds' = [bounds EXCEPT !.runs = @ + 1]
    /\ ui' = [ui EXCEPT !.running = TRUE, !.reading = TRUE, !.live = Begun, !.asked = TRUE]
    /\ \E disabled \in BOOLEAN :
          run' = [Off EXCEPT !.pc = "model", !.messages = Append(ui.messages, User),
                             !.persisted = Append(ui.messages, User), !.disabled = disabled]
    /\ grants' = [grants EXCEPT !.run = grants.ui, !.shared = TRUE]
    /\ compaction' = Untold
    /\ UNCHANGED <<events, consent>>

\* The last message of the live history is continued if it is an assistant's.
Spoken(live, text, ids) ==
    LET n == Len(live) IN
    IF n > 0 /\ live[n].role = "assistant"
    THEN [live EXCEPT ![n] = Assistant(live[n].text \/ text, live[n].calls \o ids)]
    ELSE Append(live, Assistant(text, ids))

\* messagesHavePendingToolCalls: a call without a result anywhere.
Pending(messages) ==
    \E i \in DOMAIN messages :
        /\ messages[i].role = "assistant"
        /\ \E k \in DOMAIN messages[i].calls :
              ~\E j \in DOMAIN messages :
                  messages[j].role = "tool" /\ messages[j].call = messages[i].calls[k]

\* Mutant of Stopped: the live history is taken whatever is missing in it.
StoppedAsIs(persisted) ==
    IF ui.live = <<>> THEN ui.messages
    ELSE IF persisted # <<>> THEN persisted ELSE ui.live

\* The conversation after a run of which no result came: what it was with the new
\* prompt if the run reported its failure, else the live history when no call in
\* it is without its result.
Stopped(persisted) ==
    IF ui.live = <<>> THEN ui.messages
    ELSE IF persisted # <<>> THEN persisted
    ELSE IF ~Pending(ui.live) THEN ui.live ELSE ui.messages

RunOver(messages) ==
    /\ ui' = [ui EXCEPT !.running = FALSE, !.reading = FALSE, !.prompt = {},
                        !.messages = messages, !.live = <<>>]
    /\ run' = Off
    /\ grants' = [grants EXCEPT !.run = NoGrant, !.shared = FALSE]
    /\ compaction' = Untold
    /\ consent' = [consent EXCEPT !.calls = {}]

\* The next event, from those that change a history.
Receive ==
    /\ ui.reading /\ events # <<>>
    /\ LET e == Head(events) IN
       \/ e.type = "text" /\ ui' = [ui EXCEPT !.live = Spoken(@, TRUE, <<>>)]
       \/ e.type = "calls" /\ ui' = [ui EXCEPT !.live = Spoken(@, FALSE, e.calls)]
       \/ e.type = "tool" /\ ui' = [ui EXCEPT !.live = Append(@, Result(e.call, e.body))]
       \/ e.type = "compacted" /\ ui' = [ui EXCEPT !.live = e.messages, !.messages = e.messages]
    /\ events' = Tail(events)
    /\ UNCHANGED <<run, grants, compaction, consent, bounds>>

\* The result of a run that had one, which takes the place of the conversation.
ReceiveDone ==
    /\ ui.reading /\ events # <<>> /\ Head(events).type = "done"
    /\ RunOver(IF Head(events).ok THEN run.messages ELSE Stopped(run.persisted))
    /\ events' = Tail(events)
    /\ UNCHANGED bounds

Closed == ui.reading /\ events = <<>> /\ run.pc = "closed"

\* The channel is closed without a last message.
ReceiveClosed ==
    /\ Closed /\ compaction.state # "going"
    /\ RunOver(Stopped(<<>>))
    /\ UNCHANGED <<events, bounds>>

\* It is closed while the chat still shows a compaction, and is taken for that of a
\* compaction the user asked for (finishManualCompaction): the chat goes on running,
\* but waits for no message and has nothing left to cancel.
ReceiveClosedCompacting ==
    /\ Closed /\ compaction.state = "going"
    /\ Tells("canceled")
    /\ ui' = [ui EXCEPT !.reading = FALSE]
    /\ UNCHANGED <<run, events, grants, consent, bounds>>

\* The answer goes to a session that waits, or into an abandoned channel.
Replies(reply) == run' = IF run.pc = "wait" THEN [run EXCEPT !.reply = reply] ELSE run

\* The chat stops reading until the prompt is answered, unless full access has
\* been turned on in between.
ReceivePrompt ==
    /\ ui.reading /\ events # <<>> /\ Head(events).type = "prompt"
    /\ events' = Tail(events)
    /\ \/ grants.ui.all /\ Replies("all") /\ UNCHANGED ui
       \/ /\ ~grants.ui.all
          /\ ui' = [ui EXCEPT !.prompt = Head(events).ask, !.reading = FALSE]
          /\ UNCHANGED run
    /\ UNCHANGED <<grants, compaction, consent, bounds>>

\* Mutant of Resolved: the chat does not go back to its events.
ResolvedOnly == ui' = [ui EXCEPT !.prompt = {}]

Resolved == ui' = [ui EXCEPT !.prompt = {}, !.reading = TRUE]

\* One object for the run and the chat, until a new chat makes one of its own.
Granting(g) == grants' = [grants EXCEPT !.ui = g, !.run = IF grants.shared THEN g ELSE @]

Approve ==
    /\ ui.prompt # {}
    /\ \/ /\ Replies("once")
          /\ consent' = [consent EXCEPT !.calls = @ \cup {call.id : call \in ui.prompt}]
          /\ UNCHANGED grants
       \/ LET scopes == {call.kind : call \in ui.prompt} IN
          /\ Replies("always")
          /\ Granting([grants.ui EXCEPT !.scopes = @ \cup scopes])
          /\ consent' = [consent EXCEPT !.scopes = @ \cup scopes]
    /\ Resolved
    /\ UNCHANGED <<events, compaction, bounds>>

Deny ==
    /\ ui.prompt # {}
    /\ Replies("no") /\ Resolved
    /\ UNCHANGED <<events, grants, compaction, consent, bounds>>

\* Full access on, which answers an open prompt, or off, which takes every grant
\* back.
Toggle ==
    /\ \/ /\ ~grants.ui.all /\ bounds.odd < MaxOdd
          /\ bounds' = [bounds EXCEPT !.odd = @ + 1]
          /\ Granting([grants.ui EXCEPT !.all = TRUE])
          /\ consent' = [consent EXCEPT !.all = TRUE]
          /\ \/ ui.prompt # {} /\ Replies("all") /\ Resolved
             \/ ui.prompt = {} /\ UNCHANGED <<run, ui>>
       \/ grants.ui.all /\ Granting(NoGrant) /\ UNCHANGED <<consent, run, ui, bounds>>
    /\ UNCHANGED <<events, compaction>>

\* ctrl+c or esc, which deny a prompt if one is open.
Cancel ==
    /\ ui.running /\ ui.prompt = {} /\ ~run.over
    /\ run' = [run EXCEPT !.over = TRUE]
    /\ UNCHANGED <<events, ui, grants, compaction, consent, bounds>>

\* /new, which is taken while a run is in progress too, and does not end it.
NewChat ==
    /\ ui.prompt = {} /\ ui.asked /\ bounds.odd < MaxOdd
    /\ bounds' = [bounds EXCEPT !.odd = @ + 1]
    /\ ui' = [ui EXCEPT !.messages = <<>>, !.live = <<>>, !.asked = FALSE]
    /\ grants' = [grants EXCEPT !.ui = NoGrant, !.shared = FALSE]
    /\ UNCHANGED <<run, events, compaction, consent>>

Chat ==
    Receive \/ ReceiveDone \/ ReceiveClosed \/ ReceiveClosedCompacting \/ ReceivePrompt

Next ==
    \/ StreamText \/ StreamCalls \/ StreamEnds \/ StreamFails \/ StreamBreaks
    \/ Refuse \/ BatchEnds \/ Plan \/ Authorize \/ TakeReply \/ PromptAborts
    \/ ExecNext \/ CallUnknown \/ CallStarts \/ CallEnds
    \/ Compacts \/ LeavesHistory \/ Announce \/ Finish \/ Return
    \/ Submit \/ Receive \/ ReceiveDone \/ ReceiveClosed \/ ReceiveClosedCompacting
    \/ ReceivePrompt \/ Approve \/ Deny \/ Toggle \/ Cancel \/ NewChat

Spec == Init /\ [][Next]_vars

\* The responses of models and the tools end, the program's loop handles its
\* messages, and the user answers the prompts.  None for prompts sent,
\* cancellations, toggles and new chats.
Fairness == WF_vars(Session) /\ WF_vars(Chat) /\ WF_vars(Approve \/ Deny)

FairSpec == Spec /\ Fairness

----------------------------------------------------------------------------
(* Properties.                                                             *)

Message ==
    {User} \cup [role : {"tool"}, call : 0 .. MaxCalls,
                 body : Bodies \cup {"notice", "summary"}]
           \cup [role : {"assistant"}, text : BOOLEAN, calls : Seq(0 .. MaxCalls)]

\* Every variable keeps its type: histories are messages, the retries stay within
\* the two of runModelStep and the rounds within the limit unless tools are
\* disabled, the channel within its capacity, and a chat that reads is one that runs.
TypeOK ==
    /\ run.pc \in {"off", "model", "plan", "authorize", "wait", "exec", "call", "running",
                   "compact", "announce", "finish", "return", "closed"} \cup Refusals
    /\ \A m \in {run.messages, run.persisted, ui.messages, ui.live} :
          \A i \in DOMAIN m : m[i] \in Message
    /\ run.errors \in 0 .. 2 /\ run.rounds \in 0 .. (IF run.disabled THEN MaxCalls ELSE MaxRounds)
    /\ run.status \in {"none", "done", "denied", "canceled", "error", "failed"}
    /\ run.batch \in {"none", "ran", "denied", "canceled"}
    /\ run.reply \in {"none", "once", "always", "all", "no"}
    /\ Len(events) <= EventCap
    /\ ui.reading => ui.running
    /\ {grants.run, grants.ui} \subseteq [all : BOOLEAN, scopes : SUBSET Scopes]
    /\ compaction \in [state : {"none", "going", "canceled"}, notified : BOOLEAN]

\* What a chat template needs: the calls of an assistant's message are answered
\* by the messages that follow it, in their order.
Complete(messages) ==
    \A i \in DOMAIN messages : messages[i].role = "assistant" =>
        \A k \in DOMAIN messages[i].calls :
            /\ i + k \in DOMAIN messages
            /\ messages[i + k].role = "tool" /\ messages[i + k].call = messages[i].calls[k]

\* No request carries a call without its result, whatever was cancelled, denied,
\* retried, cut off by the round limit or compacted before: neither the history a
\* run sends to the model nor the conversation it leaves to the next run
\* (runModelStep, runToolStep, finishLiveMessagesForStoppedRun).
CallsAnswered ==
    /\ Complete(ui.messages)
    /\ run.pc = "model" => Complete(run.messages)

\* The events are enough to rebuild the history: while a run that is not cancelled
\* waits for the model or ends, and the chat has read every event, the live
\* history is the session's, over batches, refusals and compactions.  (The message
\* that reports a server error to the model is not shown to the chat.)
LiveIsHistory ==
    /\ ui.running /\ ui.asked /\ events = <<>> /\ ~run.over /\ ~run.retried
    /\ run.pc \in {"model", "finish"}
    /\ run.pc = "model" => ~run.text /\ run.calls = <<>>
    => ui.live = run.messages

\* A tool that needs approval runs only if the user has allowed that call, its
\* scope or everything: the answers go through two goroutines, a shared state and
\* prompts that outlive the run they came from.
Consented ==
    [][run.pc = "call" /\ run'.pc = "running" =>
          LET call == Head(run.todo) IN
          \/ call.kind \notin Scopes
          \/ call.id \in consent.calls \/ call.kind \in consent.scopes \/ consent.all]_vars

Prefix(s, t) == Len(s) <= Len(t) /\ s = SubSeq(t, 1, Len(s))

\* However a run ends, the turns before it are kept: the conversation still begins
\* with them, or with the summary of a compaction.
EarlierTurnsKept ==
    [][ui.running /\ ~ui'.running /\ ui.asked =>
          \/ Prefix(SubSeq(run.persisted, 1, Len(run.persisted) - 1), ui'.messages)
          \/ Prefix(Summary, ui'.messages)]_vars

\* The chat took the end of a run for that of a compaction.
Stranded == ui.running /\ compaction.state = "canceled"

\* Every run ends, also when it is cancelled while the chat waits for the answer
\* to a prompt and does not read, unless the chat was stranded by a compaction that
\* was still shown as going on when the cancelled run closed its channel.
RunEnds == ui.running ~> ~ui.running \/ Stranded
=============================================================================
