--------------------------- MODULE AgentChatProofs ---------------------------
(* Theorems about AgentChat, for all values of its constants: tools, turns *)
(* and, in the second half, histories: no call is left without its result, *)
(* and the live history that the chat rebuilds from the events is the      *)
(* session's.                                                              *)
EXTENDS AgentChat, DataProofs

----------------------------------------------------------------------------
(* The inductive invariant.                                                *)

Places   == {"off", "model", "plan", "authorize", "wait", "exec", "call", "running", "compact",
             "announce", "finish", "return", "closed"} \cup Refusals
Statuses == {"none", "done", "denied", "canceled", "error", "failed"}
Grants   == [all : BOOLEAN, scopes : SUBSET Scopes]

CallIds == 1 .. MaxCalls
Call    == [id : CallIds, kind : Kinds]
Asking  == [id : CallIds, kind : Scopes]

Answer  == [role : {"tool"}, call : CallIds, body : Bodies \cup {"notice"}]

Sessions == [pc : Places, messages : Seq(Message), persisted : Seq(Message), over : BOOLEAN,
             text : BOOLEAN, calls : Seq(Call), canceled : BOOLEAN, disabled : BOOLEAN,
             errors : 0 .. 2, retried : BOOLEAN, rounds : Nat, ask : SUBSET Asking,
             reply : {"none", "once", "always", "all", "no"}, todo : Seq(Call),
             results : Seq(Answer), batch : {"none", "ran", "denied", "canceled"},
             status : Statuses]

Event == [type : {"text"}] \cup [type : {"calls"}, calls : Seq(CallIds)]
         \cup [type : {"tool"}, call : CallIds, body : Bodies \cup {"notice"}]
         \cup [type : {"compacted"}, messages : Seq(Message)]
         \cup [type : {"prompt"}, ask : SUBSET Asking] \cup [type : {"done"}, ok : BOOLEAN]

TypeInv ==
    /\ run \in Sessions
    /\ events \in Seq(Event)
    /\ ui \in [running : BOOLEAN, messages : Seq(Message), live : Seq(Message),
               reading : BOOLEAN, prompt : SUBSET Asking, asked : BOOLEAN]
    /\ grants \in [run : Grants, ui : Grants, shared : BOOLEAN]
    /\ consent \in [calls : SUBSET CallIds, scopes : SUBSET Scopes, all : BOOLEAN]
    /\ bounds \in [calls : 0 .. MaxCalls, runs : Nat, odd : Nat]

\* Places at which a batch of calls is at hand, and those on its way to being run.
Asks    == {"plan", "authorize", "wait"}
Runs    == {"exec", "call", "running"}
Outcome == {"compact", "announce"}

\* A session exists while the chat runs it, and has a batch while it works at one.
PlaceInv ==
    /\ run.pc # "off" <=> ui.running
    /\ ui.reading \/ ui.prompt # {} => ui.running
    /\ Len(events) <= EventCap
    /\ run.pc \in Refusals \cup Asks \cup Runs => run.calls # <<>>
    /\ run.pc \in Outcome /\ run.batch # "none" => run.calls # <<>>
    /\ run.pc \in Asks => run.todo = run.calls
    /\ run.pc \in {"call", "running"} => run.todo # <<>>

\* Each round that is over had calls of its own, and the limit is looked at before calls
\* are run.
RoundInv ==
    /\ run.rounds <= bounds.calls
    /\ run.calls # <<>> => run.rounds < bounds.calls
    /\ run.pc = "disable" => run.disabled
    /\ ~run.disabled =>
          /\ run.rounds <= MaxRounds
          /\ \/ run.pc \in Asks \cup Runs \cup {"deny", "rest"}
             \/ run.pc \in Outcome /\ run.batch = "ran"
             => run.rounds < MaxRounds

\* What the user has allowed.
Cleared(call) == \/ call.kind \notin Scopes
                 \/ call.id \in consent.calls \/ call.kind \in consent.scopes \/ consent.all

GrantInv == \A g \in {grants.run, grants.ui} : /\ g.all => consent.all
                                               /\ g.scopes \subseteq consent.scopes

\* A call that waits to be run is cleared, or the user is asked about it; the reply the
\* session is given clears what it asked about.
ClearInv ==
    /\ run.pc \in {"authorize", "wait"} =>
          \A i \in DOMAIN run.calls : Cleared(run.calls[i]) \/ run.calls[i] \in run.ask
    /\ run.pc \in Runs => \A i \in DOMAIN run.todo : Cleared(run.todo[i])
    /\ run.pc = "wait" =>
          /\ run.reply = "once" => \A call \in run.ask : call.id \in consent.calls
          /\ run.reply = "always" => \A call \in run.ask : call.kind \in consent.scopes
          /\ run.reply = "all" => consent.all

\* A run that asked for the last time.
Denied == \/ run.pc \in {"deny", "finish", "return", "closed"}
          \/ run.pc \in Outcome /\ run.batch = "denied"

\* A prompt is of the session that waits for it, or of a run that will ask no more.
Asked(ask) == (run.pc = "wait" /\ run.reply = "none" /\ run.ask = ask) \/ Denied

IsPrompt(i) == i \in DOMAIN events /\ events[i].type = "prompt"

PromptInv ==
    /\ ui.prompt # {} => Asked(ui.prompt)
    /\ \A i \in DOMAIN events : IsPrompt(i) =>
          /\ ui.prompt = {} /\ Asked(events[i].ask)
          /\ \A j \in DOMAIN events : IsPrompt(j) => i = j

\* The last event of a run says how it ended.
DoneInv ==
    \A i \in DOMAIN events : events[i].type = "done" =>
        /\ i = Len(events) /\ run.pc = "closed"
        /\ events[i].ok => run.status # "failed"

ConsentInv == GrantInv /\ ClearInv /\ PromptInv /\ DoneInv

\* A history of the run: it goes on from that of the start, or from a summary.
Kept(s)   == Prefix(run.persisted, s) \/ Prefix(Summary, s)
Before    == SubSeq(run.persisted, 1, Len(run.persisted) - 1)

KeepInv ==
    /\ run.status = "failed" => run.pc \in {"return", "closed"}
    /\ run.pc # "off" => run.persisted # <<>> /\ run.persisted[Len(run.persisted)] = User
    /\ run.pc # "off" /\ run.status # "failed" => Kept(run.messages)
    /\ run.pc = "announce" => Prefix(Summary, run.messages)
    /\ \A i \in DOMAIN events : events[i].type = "compacted" =>
          Prefix(Summary, events[i].messages)
    /\ ui.running /\ ui.asked =>
          /\ Kept(ui.live)
          /\ Prefix(Before, ui.messages) \/ Prefix(Summary, ui.messages)

Inv == TypeInv /\ PlaceInv /\ RoundInv /\ ConsentInv /\ KeepInv

----------------------------------------------------------------------------
(* Types.                                                                  *)

LEMMA Constants ==
    /\ MaxCalls \in Nat /\ MaxRounds \in Nat /\ MaxOdd \in Nat /\ KeepTurns \in Nat
    /\ EventCap \in Nat /\ EventCap > 0
    /\ \A b \in Batches : b \in Seq(Kinds) /\ b # <<>>
    /\ "free" \notin Scopes /\ "unknown" \notin Scopes
  BY AgentAssumption DEF AgentAssumption

LEMMA Messages ==
    /\ User \in Message
    /\ \A text \in BOOLEAN : \A ids \in Seq(CallIds) : Assistant(text, ids) \in Message
    /\ \A id \in CallIds : \A body \in Bodies \cup {"notice"} : Result(id, body) \in Answer
    /\ Answer \subseteq Message
    /\ Summary \in Seq(Message) /\ Len(Summary) = 2
    /\ Summary[1].role = "assistant" /\ Summary[2].role = "tool"
  <1>1. \A ids \in Seq(CallIds) : ids \in Seq(0 .. MaxCalls)
    BY Constants DEF CallIds
  <1>2. <<0>> \in Seq(0 .. MaxCalls)
    BY Constants
  <1>3. Assistant(FALSE, <<0>>) \in Message
    BY <1>2 DEF Message, Assistant
  <1>4. Result(0, "summary") \in Message
    BY Constants DEF Message, Result
  <1>5. \A text \in BOOLEAN : \A ids \in Seq(CallIds) : Assistant(text, ids) \in Message
    BY <1>1 DEF Message, Assistant
  <1>6. \A id \in CallIds : \A body \in Bodies \cup {"notice"} : Result(id, body) \in Answer
    BY DEF Answer, Result
  <1>10. Answer \subseteq Message
    BY Constants DEF Answer, Message, CallIds
  <1>7. Summary \in Seq(Message) /\ Len(Summary) = 2
        /\ Summary[1] = Assistant(FALSE, <<0>>) /\ Summary[2] = Result(0, "summary")
    <2>1. ASSUME NEW a \in Message, NEW b \in Message
          PROVE  /\ <<a, b>> \in Seq(Message) /\ Len(<<a, b>>) = 2
                 /\ <<a, b>>[1] = a /\ <<a, b>>[2] = b
      OBVIOUS
    <2> QED BY <1>3, <1>4, <2>1 DEF Summary
  <1>8. User \in Message
    BY DEF Message
  <1>9. Summary[1].role = "assistant" /\ Summary[2].role = "tool"
    BY <1>7 DEF Assistant, Result
  <1> QED BY <1>5, <1>6, <1>7, <1>8, <1>9, <1>10

LEMMA AnswersAreMessages ==
  ASSUME NEW s \in Seq(Answer)
  PROVE  s \in Seq(Message)
  BY Messages

LEMMA IdsType ==
  ASSUME NEW calls \in Seq(Call)
  PROVE  Ids(calls) \in Seq(CallIds)
  <1>1. \A i \in DOMAIN calls : calls[i].id \in CallIds
    <2>1. \A i \in DOMAIN calls : calls[i] \in Call
      OBVIOUS
    <2> QED BY <2>1 DEF Call
  <1>2. DOMAIN calls = 1 .. Len(calls) /\ Len(calls) \in Nat
    OBVIOUS
  <1> QED BY <1>1, <1>2 DEF Ids

LEMMA OffType == Off \in Sessions
  BY DEF Off, Sessions, Places, Statuses

LEMMA InitType ==
  ASSUME Init
  PROVE  TypeInv
  <1>1. bounds \in [calls : 0 .. MaxCalls, runs : Nat, odd : Nat]
    BY Constants DEF Init
  <1> QED BY <1>1, OffType DEF Init, TypeInv, NoGrant, Grants

\* A place changes nothing but where the session is.
LEMMA GoType ==
  ASSUME run \in Sessions, NEW pc \in Places
  PROVE  Go(pc) \in Sessions
  BY DEF Go, Sessions

LEMMA FailsType ==
  ASSUME run \in Sessions
  PROVE  Fails \in Sessions /\ Fails.pc = "return" /\ Fails.status = "failed"
  BY ZenonT(60), OffType DEF Fails, Sessions, Off, Places, Statuses

LEMMA EmitType ==
  ASSUME TypeInv, NEW e \in Event, EmitsOrLoses(e)
  PROVE  events' \in Seq(Event)
  <1>1. events \in Seq(Event)
    BY DEF TypeInv
  <1>2. events' = Append(events, e) \/ events' = events
    BY DEF EmitsOrLoses, Emits, Lost
  <1> QED BY <1>1, <1>2

LEMMA SessionAnswered ==
  ASSUME NEW r \in Sessions, NEW text \in BOOLEAN, NEW calls \in Seq(Call),
         NEW canceled \in BOOLEAN, NEW pc \in Places, NEW messages \in Seq(Message)
  PROVE  [r EXCEPT !.text = text, !.calls = calls, !.canceled = canceled,
                   !.messages = messages, !.errors = 0, !.pc = pc, !.batch = "none",
                   !.todo = calls, !.results = <<>>] \in Sessions
  <1>1. 0 \in 0 .. 2
    OBVIOUS
  <1> DEFINE none == <<>>
  <1>2. none \in Seq(Answer)
    OBVIOUS
  <1> HIDE DEF none
  <1>3. [r EXCEPT !.text = text, !.calls = calls, !.canceled = canceled,
                   !.messages = messages, !.errors = 0, !.pc = pc, !.batch = "none",
                   !.todo = calls, !.results = none] \in Sessions
    BY <1>1, <1>2 DEF Sessions
  <1> QED BY <1>3 DEF none

LEMMA AnsweredType ==
  ASSUME TypeInv, NEW text \in BOOLEAN, NEW calls \in Seq(Call), NEW canceled \in BOOLEAN,
         Answered(text, calls, canceled)
  PROVE  run' \in Sessions
  <1>1. Route(calls, canceled) \in Places
    BY DEF Route, Places, Refusals
  <1>2. Assistant(text, Ids(calls)) \in Message
    BY IdsType, Messages
  <1>3. PICK pc \in Places, messages \in Seq(Message) :
          run' = [run EXCEPT !.text = text, !.calls = calls, !.canceled = canceled,
                             !.messages = messages, !.errors = 0, !.pc = pc, !.batch = "none",
                             !.todo = calls, !.results = <<>>]
    <2>1. run.messages \in Seq(Message)
      BY DEF TypeInv, Sessions
    <2>2. Append(run.messages, Assistant(text, Ids(calls))) \in Seq(Message)
      BY <1>2, <2>1
    <2> QED BY <1>1, <2>1, <2>2 DEF Answered
  <1>4. run \in Sessions 
    BY DEF TypeInv
  <1> QED BY <1>3, <1>4, SessionAnswered

\* A step of the session's, seen from the other components.
LEMMA RunType ==
  ASSUME TypeInv, run' \in Sessions, events' \in Seq(Event), SessionOnly
  PROVE  TypeInv'
  BY DEF TypeInv, SessionOnly

LEMMA EventTypes ==
    /\ [type |-> "text"] \in Event
    /\ \A ids \in Seq(CallIds) : [type |-> "calls", calls |-> ids] \in Event
    /\ \A id \in CallIds : \A body \in Bodies \cup {"notice"} :
          [type |-> "tool", call |-> id, body |-> body] \in Event
    /\ \A messages \in Seq(Message) : [type |-> "compacted", messages |-> messages] \in Event
    /\ \A ask \in SUBSET Asking : [type |-> "prompt", ask |-> ask] \in Event
    /\ \A ok \in BOOLEAN : [type |-> "done", ok |-> ok] \in Event
  <1>1. \A ids \in Seq(CallIds) : [type |-> "calls", calls |-> ids] \in Event
    BY DEF Event
  <1>2. \A id \in CallIds : \A body \in Bodies \cup {"notice"} :
          [type |-> "tool", call |-> id, body |-> body] \in Event
    BY DEF Event
  <1>3. \A messages \in Seq(Message) : [type |-> "compacted", messages |-> messages] \in Event
    BY DEF Event
  <1>4. \A ask \in SUBSET Asking : [type |-> "prompt", ask |-> ask] \in Event
    BY DEF Event
  <1>5. \A ok \in BOOLEAN : [type |-> "done", ok |-> ok] \in Event
    BY DEF Event
  <1>6. [type |-> "text"] \in Event
    BY DEF Event
  <1> QED BY <1>1, <1>2, <1>3, <1>4, <1>5, <1>6

LEMMA StreamTextType ==
  ASSUME TypeInv, StreamText
  PROVE  TypeInv'
  <1>1. events' \in Seq(Event)
    BY EmitType, EventTypes DEF StreamText, EmitsOrLoses
  <1>2. run' \in Sessions
    <2>1. CASE run' = [run EXCEPT !.text = TRUE]
      BY <2>1 DEF TypeInv, Sessions
    <2>2. CASE Answered(TRUE, <<>>, TRUE)
      <3>1. <<>> \in Seq(Call)
        OBVIOUS
      <3> QED BY <2>2, <3>1, AnsweredType
    <2> QED BY <2>1, <2>2 DEF StreamText
  <1> QED BY <1>1, <1>2, RunType DEF StreamText

\* A batch and the ids its calls are given.
Batch(b) == [i \in DOMAIN b |-> [id |-> bounds.calls + i, kind |-> b[i]]]

LEMMA BatchType ==
  ASSUME TypeInv, NEW b \in Batches, bounds.calls + Len(b) <= MaxCalls
  PROVE  /\ Batch(b) \in Seq(Call) /\ Batch(b) # <<>> /\ Len(b) \in Nat /\ Len(b) > 0
         /\ bounds.calls + Len(b) \in 0 .. MaxCalls
  <1>1. b \in Seq(Kinds) /\ b # <<>>
    BY Constants
  <1>2. DOMAIN b = 1 .. Len(b) /\ Len(b) \in Nat /\ Len(b) > 0
        /\ \A i \in DOMAIN b : b[i] \in Kinds
    BY <1>1
  <1>3. PICK n \in Nat : n = bounds.calls
    BY DEF TypeInv
  <1>4. \A i \in 1 .. Len(b) : n + i \in CallIds
    BY <1>2, <1>3, Constants DEF CallIds
  <1>5. \A i \in 1 .. Len(b) : [id |-> n + i, kind |-> b[i]] \in Call
    BY <1>2, <1>4 DEF Call
  <1>6. Batch(b) \in [1 .. Len(b) -> Call]
    BY <1>2, <1>3, <1>5 DEF Batch
  <1>7. bounds.calls + Len(b) \in 0 .. MaxCalls
    BY <1>2, <1>3, Constants
  <1> QED BY <1>2, <1>6, <1>7

LEMMA StreamCallsType ==
  ASSUME TypeInv, StreamCalls
  PROVE  TypeInv'
  <1>1. PICK b \in Batches :
          /\ bounds.calls + Len(b) <= MaxCalls
          /\ bounds' = [bounds EXCEPT !.calls = @ + Len(b)]
          /\ \/ /\ Emits([type |-> "calls", calls |-> Ids(Batch(b))])
                /\ run' = [run EXCEPT !.calls = Batch(b)]
             \/ Lost /\ Answered(run.text, Batch(b), TRUE)
    BY DEF StreamCalls, Batch
  <1>2. Batch(b) \in Seq(Call) /\ bounds.calls + Len(b) \in 0 .. MaxCalls
    BY <1>1, BatchType
  <1>3. events' \in Seq(Event)
    <2>1. [type |-> "calls", calls |-> Ids(Batch(b))] \in Event
      BY <1>2, IdsType, EventTypes
    <2> QED BY <1>1, <2>1, EmitType DEF EmitsOrLoses
  <1>4. run' \in Sessions
    <2>1. CASE run' = [run EXCEPT !.calls = Batch(b)]
      BY <2>1, <1>2 DEF TypeInv, Sessions
    <2>2. CASE Answered(run.text, Batch(b), TRUE)
      <3>1. run.text \in BOOLEAN
        BY DEF TypeInv, Sessions
      <3> QED BY <2>2, <3>1, <1>2, AnsweredType
    <2> QED BY <1>1, <2>1, <2>2
  <1>5. bounds' \in [calls : 0 .. MaxCalls, runs : Nat, odd : Nat]
    BY <1>1, <1>2 DEF TypeInv
  <1> QED BY <1>3, <1>4, <1>5 DEF TypeInv, StreamCalls

LEMMA StreamEndsType ==
  ASSUME TypeInv, StreamEnds
  PROVE  TypeInv'
  <1>1. PICK canceled \in {FALSE, run.over} : Answered(run.text, run.calls, canceled)
    BY DEF StreamEnds
  <1>2. run.text \in BOOLEAN /\ run.calls \in Seq(Call) /\ canceled \in BOOLEAN
    BY DEF TypeInv, Sessions
  <1>3. run' \in Sessions
    BY <1>1, <1>2, AnsweredType
  <1> QED BY <1>3, RunType DEF StreamEnds, TypeInv

LEMMA StreamFailsType ==
  ASSUME TypeInv, StreamFails
  PROVE  TypeInv'
  <1>1. Append(run.messages, User) \in Seq(Message) /\ run.errors + 1 \in 0 .. 2
    BY Messages DEF TypeInv, Sessions, StreamFails
  <1>2. run' \in Sessions
    <2>1. PICK messages \in Seq(Message), errors \in 0 .. 2, none \in Seq(Call) :
            run' = [run EXCEPT !.errors = errors, !.retried = TRUE, !.messages = messages,
                               !.text = FALSE, !.calls = none]
      <3>1. <<>> \in Seq(Call)
        OBVIOUS
      <3> QED BY <1>1, <3>1 DEF StreamFails
    <2> QED BY <2>1 DEF TypeInv, Sessions
  <1>3. bounds' \in [calls : 0 .. MaxCalls, runs : Nat, odd : Nat]
    BY DEF StreamFails, TypeInv
  <1> QED BY <1>2, <1>3 DEF StreamFails, TypeInv

LEMMA StreamBreaksType ==
  ASSUME TypeInv, StreamBreaks
  PROVE  TypeInv'
  <1>1. run' \in Sessions
    BY FailsType DEF TypeInv, StreamBreaks
  <1> QED BY <1>1, RunType DEF StreamBreaks, TypeInv

LEMMA TodoType ==
  ASSUME TypeInv, run.todo # <<>>
  PROVE  /\ Head(run.todo) \in Call /\ Head(run.todo).id \in CallIds
         /\ Tail(run.todo) \in Seq(Call)
  <1>1. run.todo \in Seq(Call)
    BY DEF TypeInv, Sessions
  <1>2. Head(run.todo) \in Call /\ Tail(run.todo) \in Seq(Call)
    BY <1>1
  <1> QED BY <1>2 DEF Call

LEMMA RefuseType ==
  ASSUME TypeInv, Refuse
  PROVE  TypeInv'
  <1>1. PICK id \in CallIds, todo \in Seq(Call) : id = Head(run.todo).id /\ todo = Tail(run.todo)
    BY TodoType DEF Refuse
  <1>2. PICK results \in Seq(Answer) : results = Append(run.results, Result(id, "notice"))
    <2>1. run.results \in Seq(Answer)
      BY DEF TypeInv, Sessions
    <2>2. Result(id, "notice") \in Answer
      BY Messages
    <2>3. Append(run.results, Result(id, "notice")) \in Seq(Answer)
      BY <2>1, <2>2
    <2> QED BY <2>3
  <1>3. events' \in Seq(Event)
    <2>1. [type |-> "tool", call |-> id, body |-> "notice"] \in Event
      BY EventTypes
    <2> QED BY <1>1, <2>1, EmitType DEF Refuse, EmitsOrLoses
  <1>4. [run EXCEPT !.todo = todo, !.results = results] \in Sessions
    BY DEF TypeInv, Sessions
  <1>5. run' \in Sessions
    BY <1>1, <1>2, <1>4, FailsType DEF Refuse, TypeInv
  <1> QED BY <1>3, <1>5, RunType DEF Refuse

LEMMA BatchEndsType ==
  ASSUME TypeInv, BatchEnds
  PROVE  TypeInv'
  <1>1. PICK messages \in Seq(Message) : messages = run.messages \o run.results
    <2>1. run.messages \in Seq(Message) /\ run.results \in Seq(Message)
      BY AnswersAreMessages DEF TypeInv, Sessions
    <2>2. run.messages \o run.results \in Seq(Message)
      BY <2>1
    <2> QED BY <2>2
  <1>2. run' \in Sessions
    <2>1. \/ \E status \in Statuses :
                run' = [run EXCEPT !.messages = messages, !.pc = "finish", !.status = status]
          \/ \E batch \in {"ran", "denied", "canceled"} :
                run' = [run EXCEPT !.messages = messages, !.pc = "compact", !.batch = batch]
      BY <1>1 DEF BatchEnds, Statuses
    <2>2. CASE \E status \in Statuses :
                  run' = [run EXCEPT !.messages = messages, !.pc = "finish", !.status = status]
      <3>1. PICK status \in Statuses :
              run' = [run EXCEPT !.messages = messages, !.pc = "finish", !.status = status]
        BY <2>2
      <3> QED BY <3>1 DEF TypeInv, Sessions, Places
    <2>3. CASE \E batch \in {"ran", "denied", "canceled"} :
                  run' = [run EXCEPT !.messages = messages, !.pc = "compact", !.batch = batch]
      <3>1. PICK batch \in {"ran", "denied", "canceled"} :
              run' = [run EXCEPT !.messages = messages, !.pc = "compact", !.batch = batch]
        BY <2>3
      <3> QED BY <3>1 DEF TypeInv, Sessions, Places
    <2> QED BY <2>1, <2>2, <2>3
  <1> QED BY <1>2, RunType DEF BatchEnds, TypeInv

LEMMA NeedType ==
  ASSUME TypeInv
  PROVE  NeedApproval \in SUBSET Asking
  <1>1. run.calls \in Seq(Call)
    BY DEF TypeInv, Sessions
  <1>2. \A i \in DOMAIN run.calls : run.calls[i] \in Call
    BY <1>1
  <1> QED BY <1>2 DEF NeedApproval, Call, Asking

LEMMA PlanType ==
  ASSUME TypeInv, Plan
  PROVE  TypeInv'
  <1>1. run' \in Sessions
    BY NeedType DEF Plan, TypeInv, Sessions, Places
  <1> QED BY <1>1, RunType DEF Plan, TypeInv

LEMMA AuthorizeType ==
  ASSUME TypeInv, Authorize
  PROVE  TypeInv'
  <1>1. run' \in Sessions
    <2>1. run \in Sessions
      BY DEF TypeInv
    <2>2. CASE run' = [run EXCEPT !.pc = "wait", !.reply = "none"]
      BY <2>1, <2>2 DEF Sessions, Places
    <2>3. CASE run' \in {Go("exec"), Go("deny")}
      BY <2>1, <2>3, GoType DEF Places, Refusals
    <2> QED BY <2>2, <2>3 DEF Authorize
  <1>2. events' \in Seq(Event)
    <2>1. run.ask \in SUBSET Asking
      BY DEF TypeInv, Sessions
    <2>2. [type |-> "prompt", ask |-> run.ask] \in Event
      BY <2>1, EventTypes
    <2> QED BY <2>2, EmitType DEF Authorize, EmitsOrLoses, TypeInv, Lost
  <1> QED BY <1>1, <1>2, RunType DEF Authorize

LEMMA TakeReplyType ==
  ASSUME TypeInv, TakeReply
  PROVE  TypeInv'
  <1>1. run' \in Sessions
    BY ZenonT(60) DEF TakeReply, TypeInv, Sessions, Places, Refusals
  <1>2. PICK g \in Grants : grants' = [grants EXCEPT !.run = g,
                                                    !.ui = IF grants.shared THEN g ELSE @]
    <2>1. run.ask \in SUBSET Asking
      BY DEF TypeInv, Sessions
    <2>2. {call.kind : call \in run.ask} \in SUBSET Scopes
      BY <2>1 DEF Asking
    <2>3. [all    |-> grants.run.all \/ run.reply = "all",
           scopes |-> grants.run.scopes \cup
                      IF run.reply = "always" THEN {call.kind : call \in run.ask} ELSE {}]
          \in Grants
      BY <2>2 DEF Grants, TypeInv
    <2> QED BY <2>3 DEF TakeReply
  <1>3. grants' \in [run : Grants, ui : Grants, shared : BOOLEAN]
    BY <1>2 DEF TypeInv
  <1> QED BY <1>1, <1>3 DEF TakeReply, TypeInv

LEMMA PlainType ==
  ASSUME TypeInv, PromptAborts \/ ExecNext \/ CallStarts
  PROVE  TypeInv'
  <1>1. run' \in Sessions
    BY GoType, FailsType
       DEF PromptAborts, ExecNext, CallStarts, TypeInv, Places, Refusals
  <1> QED BY <1>1, RunType DEF PromptAborts, ExecNext, CallStarts, TypeInv

LEMMA TookType ==
  ASSUME TypeInv, run.todo # <<>>, NEW body \in Bodies, NEW pc \in Places
  PROVE  /\ Took(body, pc) \in Sessions
         /\ [type |-> "tool", call |-> Head(run.todo).id, body |-> body] \in Event
  <1>1. PICK id \in CallIds, todo \in Seq(Call) : id = Head(run.todo).id /\ todo = Tail(run.todo)
    BY TodoType
  <1>2. PICK results \in Seq(Answer) : results = Append(run.results, Result(id, body))
    <2>1. run.results \in Seq(Answer)
      BY DEF TypeInv, Sessions
    <2>2. Result(id, body) \in Answer
      BY Messages
    <2>3. Append(run.results, Result(id, body)) \in Seq(Answer)
      BY <2>1, <2>2
    <2> QED BY <2>3
  <1>3. [run EXCEPT !.todo = todo, !.pc = pc, !.results = results] \in Sessions
    BY DEF TypeInv, Sessions
  <1> QED BY <1>1, <1>2, <1>3, EventTypes DEF Took

LEMMA CallUnknownType ==
  ASSUME TypeInv, run.todo # <<>>, CallUnknown
  PROVE  TypeInv'
  <1>1. PICK body \in Bodies :
          \/ /\ Emits([type |-> "tool", call |-> Head(run.todo).id, body |-> body])
             /\ run' = Took(body, "exec")
          \/ Lost /\ run' = Fails
    BY DEF CallUnknown
  <1>2. run' \in Sessions
    BY <1>1, TookType, FailsType DEF TypeInv, Places
  <1>3. events' \in Seq(Event)
    BY <1>1, TookType, EmitType DEF EmitsOrLoses, Places
  <1> QED BY <1>2, <1>3, RunType DEF CallUnknown

LEMMA CallEndsType ==
  ASSUME TypeInv, run.todo # <<>>, CallEnds
  PROVE  TypeInv'
  <1>1. PICK body \in Bodies :
          /\ EmitsOrLoses([type |-> "tool", call |-> Head(run.todo).id, body |-> body])
          /\ run' = Took(body, IF run.over THEN "rest" ELSE "exec")
    BY DEF CallEnds
  <1>2. (IF run.over THEN "rest" ELSE "exec") \in Places
    BY DEF Places, Refusals
  <1> QED BY <1>1, <1>2, TookType, EmitType, RunType DEF CallEnds

\* The end of the talk from one of its messages on, or nothing.
LEMMA SplitPlace ==
  ASSUME NEW messages \in Seq(Message), NEW keep \in Nat
  PROVE  /\ Talk(messages) \in Seq(Message)
         /\ \E at \in 1 .. Len(Talk(messages)) + 1 :
               Split(messages, keep).suffix = SubSeq(Talk(messages), at, Len(Talk(messages)))
  <1> DEFINE talk  == Talk(messages)
             turns == {i \in DOMAIN talk : talk[i].role = "user"}
             count == Cardinality(turns)
             kept  == IF count <= keep THEN count - 1 ELSE keep
             at    == IF kept <= 0 THEN Len(talk) + 1
                      ELSE CHOOSE i \in turns : Cardinality({j \in turns : j >= i}) = kept
  <1>1. talk \in Seq(Message) /\ DOMAIN talk = 1 .. Len(talk) /\ Len(talk) \in Nat
    <2>1. talk \in Seq(Message)
      BY WithoutMembers DEF Talk
    <2> QED BY <2>1
  <1>2. turns \in SUBSET (1 .. Len(talk)) /\ count \in Nat
    <2>1. turns \in SUBSET (1 .. Len(talk))
      BY <1>1
    <2>2. IsFiniteSet(1 .. Len(talk))
      BY <1>1, FS_Interval
    <2>3. IsFiniteSet(turns)
      BY <2>1, <2>2, FS_Subset
    <2> QED BY <2>1, <2>3, FS_CardinalityType
  <1>3. at \in 1 .. Len(talk) + 1
    <2>1. CASE kept <= 0
      BY <1>1, <2>1
    <2>2. CASE ~(kept <= 0)
      <3>1. kept \in 1 .. count
        BY <1>2, <2>2
      <3> HIDE DEF kept, talk, count, turns
      <3>2. kept \in 1 .. Cardinality(turns)
        BY <3>1 DEF count
      <3>3. \E i \in turns : Cardinality({j \in turns : j >= i}) = kept
        BY ZenonT(60), <1>1, <1>2, <3>2, KthLast DEF Onwards
      <3>4. at \in turns
        BY <2>2, <3>3
      <3>5. at \in 1 .. Len(talk)
        BY <1>2, <3>4
      <3> HIDE DEF at
      <3> QED BY <1>1, <3>5
    <2> QED BY <2>1, <2>2
  <1>4. Split(messages, keep).suffix = SubSeq(talk, at, Len(talk))
    BY DEF Split
  <1> HIDE DEF at
  <1> QED BY <1>1, <1>3, <1>4

LEMMA SplitType ==
  ASSUME NEW messages \in Seq(Message), NEW keep \in Nat
  PROVE  Split(messages, keep).suffix \in Seq(Message)
  <1>1. PICK talk \in Seq(Message) : talk = Talk(messages)
    BY SplitPlace
  <1>2. PICK at \in 1 .. Len(talk) + 1 :
          Split(messages, keep).suffix = SubSeq(talk, at, Len(talk))
    BY <1>1, SplitPlace
  <1>3. SubSeq(talk, at, Len(talk)) \in Seq(Message)
    OBVIOUS
  <1> QED BY <1>2, <1>3

LEMMA ReattachedType ==
  ASSUME run \in Sessions
  PROVE  Reattached \in Seq(Message)
  <1>1. run.results \in Seq(Answer) /\ run.text \in BOOLEAN /\ run.calls \in Seq(Call)
    BY DEF Sessions
  <1>2. \A m \in Answer : Refit(m) \in Answer
    BY DEF Refit, Answer, Bodies
  <1>3. /\ DOMAIN run.results = 1 .. Len(run.results) /\ Len(run.results) \in Nat
        /\ \A i \in DOMAIN run.results : run.results[i] \in Answer
    BY <1>1
  <1>4. PICK s \in Seq(Message) : s = [i \in DOMAIN run.results |-> Refit(run.results[i])]
    <2>1. [i \in DOMAIN run.results |-> Refit(run.results[i])] \in Seq(Answer)
      BY <1>2, <1>3
    <2> QED BY <2>1, AnswersAreMessages
  <1>5. PICK m \in Message : m = Assistant(run.text, Ids(run.calls))
    BY <1>1, IdsType, Messages
  <1>6. <<m>> \o s \in Seq(Message)
    OBVIOUS
  <1> QED BY <1>4, <1>5, <1>6 DEF Reattached

LEMMA CompactsType ==
  ASSUME TypeInv, Compacts
  PROVE  /\ TypeInv'
         /\ \E s \in Seq(Message) :
                run' = [run EXCEPT !.messages = Summary \o s, !.pc = "announce"]
  <1>1. PICK s \in Seq(Message) : run' = [run EXCEPT !.messages = Summary \o s, !.pc = "announce"]
    <2>1. run.messages \in Seq(Message) /\ run \in Sessions
      BY DEF TypeInv, Sessions
    <2>2. Split(run.messages, KeepTurns).suffix \in Seq(Message)
      BY <2>1, SplitType, Constants
    <2>3. Reattached \in Seq(Message)
      BY <2>1, ReattachedType
    <2> QED BY <2>2, <2>3 DEF Compacts
  <1>2. PICK messages \in Seq(Message) : messages = Summary \o s
    <2>1. Summary \o s \in Seq(Message)
      BY Messages
    <2> QED BY <2>1
  <1>3. run' \in Sessions
    BY <1>1, <1>2 DEF TypeInv, Sessions, Places
  <1>4. bounds' \in [calls : 0 .. MaxCalls, runs : Nat, odd : Nat]
    <2>1. bounds.odd + 1 \in Nat
      BY DEF TypeInv
    <2> QED BY <2>1 DEF Compacts, TypeInv
  <1>5. TypeInv'
    BY <1>3, <1>4 DEF Compacts, TypeInv
  <1> QED BY <1>1, <1>5

LEMMA SettledType ==
  ASSUME run \in Sessions
  PROVE  Settled \in Sessions
  <1>1. Ends \in Statuses
    BY DEF Ends, Statuses, Sessions
  <1>2. CASE Ends # "none"
    BY <1>1, <1>2 DEF Settled, Sessions, Places
  <1>3. CASE Ends = "none"
    <2>1. PICK none \in Seq(Call), nothing \in Seq(Answer) : none = <<>> /\ nothing = <<>>
      <3>1. <<>> \in Seq(Call) /\ <<>> \in Seq(Answer)
        OBVIOUS
      <3> QED BY <3>1
    <2>2. PICK rounds \in Nat : rounds = run.rounds + 1
      BY DEF Sessions
    <2>3. [run EXCEPT !.pc = "model", !.rounds = rounds, !.batch = "none",
                      !.text = FALSE, !.calls = none, !.results = nothing] \in Sessions
      BY <2>1, <2>2 DEF Sessions, Places
    <2> QED BY <1>3, <2>1, <2>2, <2>3 DEF Settled
  <1> QED BY <1>2, <1>3

\* What the chat is told of a compaction has no part in the other steps of Announce.
LEMMA AnnounceSteps ==
  ASSUME Announce
  PROVE  /\ EmitsOrLoses([type |-> "compacted", messages |-> run.messages])
         /\ run' \in {Settled, [run EXCEPT !.pc = "finish", !.status = "error"]}
  BY DEF Announce, EmitsOrLoses, TooLarge

LEMMA EndType ==
  ASSUME TypeInv, LeavesHistory \/ Announce \/ Finish \/ Return
  PROVE  TypeInv'
  <1>1. run \in Sessions /\ run.messages \in Seq(Message) /\ run.persisted \in Seq(Message)
    BY DEF TypeInv, Sessions
  <1>2. events' \in Seq(Event)
    <2>1. [type |-> "compacted", messages |-> run.messages] \in Event
      BY <1>1, EventTypes
    <2>2. \A ok \in BOOLEAN : [type |-> "done", ok |-> ok] \in Event
      BY EventTypes
    <2> QED BY <2>1, <2>2, EmitType, AnnounceSteps DEF LeavesHistory, Finish, Return, TypeInv
  <1>3. run' \in Sessions
    <2>1. CASE run' = Settled
      BY <1>1, <2>1, SettledType
    <2>2. CASE run' = [run EXCEPT !.pc = "finish", !.status = "error"]
      BY <1>1, <2>2 DEF Sessions, Places, Statuses
    <2>3. CASE run' = [Off EXCEPT !.pc = "return", !.status = run.status, !.over = run.over,
                            !.messages = run.messages, !.persisted = run.persisted]
      <3>1. run.status \in Statuses /\ run.over \in BOOLEAN
        BY <1>1 DEF Sessions
      <3> QED BY <1>1, <2>3, <3>1, OffType DEF Sessions, Places
    <2>4. CASE run' = Fails
      BY <1>1, <2>4, FailsType
    <2>5. CASE run' = Go("closed")
      BY <1>1, <2>5, GoType DEF Places
    <2> QED BY <2>1, <2>2, <2>3, <2>4, <2>5, AnnounceSteps DEF LeavesHistory, Finish, Return
  <1>4. bounds' \in [calls : 0 .. MaxCalls, runs : Nat, odd : Nat]
    <2>1. bounds.odd + 1 \in Nat
      BY DEF TypeInv
    <2> QED BY <2>1 DEF LeavesHistory, Announce, Finish, Return, SessionOnly, TypeInv
  <1>5. UNCHANGED <<ui, grants, consent>>
    BY DEF LeavesHistory, Announce, Finish, Return, SessionOnly
  <1> QED BY <1>2, <1>3, <1>4, <1>5 DEF TypeInv

\* What an event carries.
LEMMA EventParts ==
  ASSUME NEW e \in Event
  PROVE  /\ e.type = "calls" => e.calls \in Seq(CallIds)
         /\ e.type = "tool" => e.call \in CallIds /\ e.body \in Bodies \cup {"notice"}
         /\ e.type = "compacted" => e.messages \in Seq(Message)
         /\ e.type = "prompt" => e.ask \in SUBSET Asking
         /\ e.type = "done" => e.ok \in BOOLEAN
  BY DEF Event

LEMMA NextEvent ==
  ASSUME TypeInv, events # <<>>
  PROVE  Head(events) \in Event /\ Tail(events) \in Seq(Event)
  <1>1. events \in Seq(Event)
    BY DEF TypeInv
  <1> QED BY <1>1

LEMMA SpokenType ==
  ASSUME NEW live \in Seq(Message), NEW text \in BOOLEAN, NEW ids \in Seq(CallIds)
  PROVE  Spoken(live, text, ids) \in Seq(Message)
  <1>1. PICK n \in Nat : n = Len(live) /\ DOMAIN live = 1 .. n
    OBVIOUS
  <1>2. CASE n > 0 /\ live[n].role = "assistant"
    <2>1. live[n] \in Message
      BY <1>1, <1>2
    <2>2. live[n].text \in BOOLEAN /\ live[n].calls \in Seq(0 .. MaxCalls)
      BY <1>2, <2>1 DEF Message, User
    <2>3. PICK calls \in Seq(0 .. MaxCalls) : calls = live[n].calls \o ids
      <3>1. ids \in Seq(0 .. MaxCalls)
        BY Constants DEF CallIds
      <3>2. live[n].calls \o ids \in Seq(0 .. MaxCalls)
        BY <2>2, <3>1
      <3> QED BY <3>2
    <2>4. PICK m \in Message : m = Assistant(live[n].text \/ text, live[n].calls \o ids)
      <3>1. PICK t \in BOOLEAN : t = (live[n].text \/ text)
        BY <2>2
      <3>2. Assistant(t, calls) \in Message
        BY DEF Assistant, Message
      <3> QED BY <2>3, <3>1, <3>2
    <2>5. Spoken(live, text, ids) = [live EXCEPT ![n] = m]
      BY <1>1, <1>2, <2>4 DEF Spoken
    <2>6. [live EXCEPT ![n] = m] \in Seq(Message)
      <3>1. live \in [1 .. n -> Message]
        BY <1>1
      <3>2. [live EXCEPT ![n] = m] \in [1 .. n -> Message]
        BY <3>1
      <3> QED BY <3>2
    <2> QED BY <2>5, <2>6
  <1>3. CASE ~(n > 0 /\ live[n].role = "assistant")
    <2>1. Spoken(live, text, ids) = Append(live, Assistant(text, ids))
      BY <1>1, <1>3 DEF Spoken
    <2>2. Assistant(text, ids) \in Message
      BY Messages
    <2> QED BY <2>1, <2>2
  <1> QED BY <1>2, <1>3

LEMMA BegunType ==
  ASSUME TypeInv
  PROVE  Begun \in Seq(Message)
  <1>1. ui.messages \in Seq(Message) /\ User \in Message
    BY Messages DEF TypeInv
  <1> QED BY <1>1 DEF Begun

LEMMA SubmitType ==
  ASSUME TypeInv, Submit
  PROVE  TypeInv'
  <1>1. ui' \in [running : BOOLEAN, messages : Seq(Message), live : Seq(Message),
                 reading : BOOLEAN, prompt : SUBSET Asking, asked : BOOLEAN]
    BY BegunType DEF TypeInv, Submit
  <1>2. run' \in Sessions
    <2>1. PICK begun \in Seq(Message) : begun = Begun
      BY BegunType
    <2>2. PICK disabled \in BOOLEAN :
            run' = [Off EXCEPT !.pc = "model", !.messages = begun, !.persisted = begun,
                               !.disabled = disabled]
      BY <2>1 DEF Submit, Begun
    <2> QED BY <2>2, OffType DEF Sessions, Places
  <1>3. bounds' \in [calls : 0 .. MaxCalls, runs : Nat, odd : Nat]
    <2>1. bounds.runs + 1 \in Nat
      BY DEF TypeInv
    <2> QED BY <2>1 DEF Submit, TypeInv
  <1>4. grants' \in [run : Grants, ui : Grants, shared : BOOLEAN]
    BY DEF TypeInv, Submit
  <1> QED BY <1>1, <1>2, <1>3, <1>4 DEF TypeInv, Submit

LEMMA ReceiveType ==
  ASSUME TypeInv, Receive
  PROVE  TypeInv'
  <1>1. PICK e \in Event : e = Head(events)
    BY NextEvent DEF Receive
  <1>2. events' \in Seq(Event)
    BY NextEvent DEF Receive
  <1>3. ui.live \in Seq(Message)
    BY DEF TypeInv
  <1>4. \/ \E live \in Seq(Message) : ui' = [ui EXCEPT !.live = live]
        \/ \E s \in Seq(Message) : ui' = [ui EXCEPT !.live = s, !.messages = s]
    <2>1. CASE e.type = "text" /\ ui' = [ui EXCEPT !.live = Spoken(@, TRUE, <<>>)]
      <3>1. <<>> \in Seq(CallIds)
        OBVIOUS
      <3> QED BY <1>3, <2>1, <3>1, SpokenType
    <2>2. CASE e.type = "calls" /\ ui' = [ui EXCEPT !.live = Spoken(@, FALSE, e.calls)]
      BY <1>3, <2>2, EventParts, SpokenType
    <2>3. CASE e.type = "tool" /\ ui' = [ui EXCEPT !.live = Append(@, Result(e.call, e.body))]
      <3>1. Result(e.call, e.body) \in Message
        BY <2>3, EventParts, Messages
      <3>2. Append(ui.live, Result(e.call, e.body)) \in Seq(Message)
        BY <1>3, <3>1
      <3> QED BY <2>3, <3>2
    <2>4. CASE e.type = "compacted" /\ ui' = [ui EXCEPT !.live = e.messages, !.messages = e.messages]
      BY <2>4, EventParts
    <2> QED BY <1>1, <2>1, <2>2, <2>3, <2>4 DEF Receive
  <1>5. ui' \in [running : BOOLEAN, messages : Seq(Message), live : Seq(Message),
                 reading : BOOLEAN, prompt : SUBSET Asking, asked : BOOLEAN]
    BY <1>4 DEF TypeInv
  <1> QED BY <1>2, <1>5 DEF Receive, TypeInv

LEMMA RunOverType ==
  ASSUME TypeInv, NEW messages \in Seq(Message), RunOver(messages), events' \in Seq(Event),
         UNCHANGED bounds
  PROVE  TypeInv'
  <1>1. ui' \in [running : BOOLEAN, messages : Seq(Message), live : Seq(Message),
                 reading : BOOLEAN, prompt : SUBSET Asking, asked : BOOLEAN]
    <2>1. <<>> \in Seq(Message)
      OBVIOUS
    <2>2. PICK none \in Seq(Message) : none = <<>>
      BY <2>1
    <2> QED BY <2>2 DEF TypeInv, RunOver
  <1>2. grants' \in [run : Grants, ui : Grants, shared : BOOLEAN]
    BY DEF TypeInv, RunOver, NoGrant, Grants
  <1>3. consent' \in [calls : SUBSET CallIds, scopes : SUBSET Scopes, all : BOOLEAN]
    BY DEF TypeInv, RunOver
  <1> QED BY <1>1, <1>2, <1>3, OffType DEF TypeInv, RunOver

LEMMA StoppedType ==
  ASSUME TypeInv, NEW persisted \in Seq(Message)
  PROVE  Stopped(persisted) \in Seq(Message)
  BY DEF TypeInv, Stopped

LEMMA ReceiveEndType ==
  ASSUME TypeInv, ReceiveDone \/ ReceiveClosed
  PROVE  TypeInv'
  <1>1. <<>> \in Seq(Message) /\ run.messages \in Seq(Message) /\ run.persisted \in Seq(Message)
    <2>1. run.messages \in Seq(Message) /\ run.persisted \in Seq(Message)
      BY DEF TypeInv, Sessions
    <2> QED BY <2>1
  <1>2. \E messages \in Seq(Message) : RunOver(messages)
    BY <1>1, StoppedType DEF ReceiveDone, ReceiveClosed
  <1>3. events' \in Seq(Event)
    BY NextEvent DEF ReceiveDone, ReceiveClosed, TypeInv
  <1> QED BY <1>2, <1>3, RunOverType DEF ReceiveDone, ReceiveClosed

LEMMA ReceiveClosedCompactingType ==
  ASSUME TypeInv, ReceiveClosedCompacting
  PROVE  TypeInv'
  BY DEF TypeInv, ReceiveClosedCompacting

LEMMA RepliesType ==
  ASSUME run \in Sessions, NEW reply \in {"once", "always", "all", "no"}, Replies(reply)
  PROVE  run' \in Sessions
  BY DEF Replies, Sessions

LEMMA ReceivePromptType ==
  ASSUME TypeInv, ReceivePrompt
  PROVE  TypeInv'
  <1>1. run \in Sessions /\ (run' = run \/ Replies("all"))
    BY DEF ReceivePrompt, TypeInv
  <1>2. run' \in Sessions
    BY <1>1, RepliesType
  <1>3. PICK ask \in SUBSET Asking : ask = Head(events).ask
    BY NextEvent, EventParts DEF ReceivePrompt
  <1>4. ui' \in [running : BOOLEAN, messages : Seq(Message), live : Seq(Message),
                 reading : BOOLEAN, prompt : SUBSET Asking, asked : BOOLEAN]
    BY <1>3 DEF ReceivePrompt, TypeInv
  <1> QED BY <1>2, <1>4, NextEvent DEF ReceivePrompt, TypeInv

LEMMA GrantingType ==
  ASSUME TypeInv, NEW g \in Grants, Granting(g)
  PROVE  grants' \in [run : Grants, ui : Grants, shared : BOOLEAN]
  BY DEF Granting, TypeInv

LEMMA ResolvedType ==
  ASSUME TypeInv, Resolved
  PROVE  ui' \in [running : BOOLEAN, messages : Seq(Message), live : Seq(Message),
                  reading : BOOLEAN, prompt : SUBSET Asking, asked : BOOLEAN]
  BY DEF Resolved, TypeInv

LEMMA ApproveType ==
  ASSUME TypeInv, Approve
  PROVE  TypeInv'
  <1>1. run' \in Sessions
    BY RepliesType DEF Approve, TypeInv
  <1>2. PICK ids \in SUBSET CallIds, scopes \in SUBSET Scopes :
          ids = {call.id : call \in ui.prompt} /\ scopes = {call.kind : call \in ui.prompt}
    BY ZenonT(60) DEF TypeInv, Asking
  <1>3. consent' \in [calls : SUBSET CallIds, scopes : SUBSET Scopes, all : BOOLEAN]
    BY <1>2 DEF Approve, TypeInv
  <1>4. grants' \in [run : Grants, ui : Grants, shared : BOOLEAN]
    <2>1. [grants.ui EXCEPT !.scopes = @ \cup scopes] \in Grants
      BY DEF TypeInv, Grants
    <2> QED BY <1>2, <2>1, GrantingType DEF Approve, TypeInv
  <1> QED BY <1>1, <1>3, <1>4, ResolvedType DEF Approve, TypeInv

LEMMA DenyType ==
  ASSUME TypeInv, Deny
  PROVE  TypeInv'
  BY RepliesType, ResolvedType DEF Deny, TypeInv

LEMMA ToggleType ==
  ASSUME TypeInv, Toggle
  PROVE  TypeInv'
  <1>1. run' \in Sessions
    BY RepliesType DEF Toggle, TypeInv
  <1>2. grants' \in [run : Grants, ui : Grants, shared : BOOLEAN]
    <2>1. [grants.ui EXCEPT !.all = TRUE] \in Grants /\ NoGrant \in Grants
      BY DEF TypeInv, Grants, NoGrant
    <2> QED BY <2>1, GrantingType DEF Toggle
  <1>3. consent' \in [calls : SUBSET CallIds, scopes : SUBSET Scopes, all : BOOLEAN]
    BY DEF Toggle, TypeInv
  <1>4. bounds' \in [calls : 0 .. MaxCalls, runs : Nat, odd : Nat]
    <2>1. bounds.odd + 1 \in Nat
      BY DEF TypeInv
    <2> QED BY <2>1 DEF Toggle, TypeInv
  <1>5. ui' = ui \/ Resolved
    BY DEF Toggle
  <1> QED BY <1>1, <1>2, <1>3, <1>4, <1>5, ResolvedType DEF Toggle, TypeInv

LEMMA CancelType ==
  ASSUME TypeInv, Cancel
  PROVE  TypeInv'
  BY DEF Cancel, TypeInv, Sessions

LEMMA NewChatType ==
  ASSUME TypeInv, NewChat
  PROVE  TypeInv'
  <1>1. bounds' \in [calls : 0 .. MaxCalls, runs : Nat, odd : Nat]
    <2>1. bounds.odd + 1 \in Nat
      BY DEF TypeInv
    <2> QED BY <2>1 DEF NewChat, TypeInv
  <1>2. PICK none \in Seq(Message) : none = <<>>
    <2>1. <<>> \in Seq(Message)
      OBVIOUS
    <2> QED BY <2>1
  <1>3. ui' \in [running : BOOLEAN, messages : Seq(Message), live : Seq(Message),
                 reading : BOOLEAN, prompt : SUBSET Asking, asked : BOOLEAN]
    BY <1>2 DEF NewChat, TypeInv
  <1>4. grants' \in [run : Grants, ui : Grants, shared : BOOLEAN]
    BY DEF NewChat, TypeInv, NoGrant, Grants
  <1> QED BY <1>1, <1>3, <1>4 DEF NewChat, TypeInv

LEMMA NextType ==
  ASSUME TypeInv, PlaceInv, [Next]_vars
  PROVE  TypeInv'
  <1>1. run.pc \in {"call", "running"} => run.todo # <<>>
    BY DEF PlaceInv
  <1>2. CASE CallUnknown
    BY <1>1, <1>2, CallUnknownType DEF CallUnknown
  <1>3. CASE CallEnds
    BY <1>1, <1>3, CallEndsType DEF CallEnds
  <1>4. CASE UNCHANGED vars
    BY <1>4 DEF vars, TypeInv
  <1> QED
    BY <1>2, <1>3, <1>4, StreamTextType, StreamCallsType, StreamEndsType, StreamFailsType,
       StreamBreaksType, RefuseType, BatchEndsType, PlanType, AuthorizeType, TakeReplyType,
       PlainType, CompactsType, EndType, SubmitType, ReceiveType, ReceiveEndType,
       ReceiveClosedCompactingType, ReceivePromptType, ApproveType, DenyType, ToggleType, CancelType, NewChatType
       DEF Next

----------------------------------------------------------------------------
(* Where the session is, and its rounds.                                   *)

\* The steps of the session that change only its place or end it.
LEMMA RunFields ==
  ASSUME TypeInv
  PROVE  /\ \A pc : /\ Go(pc).pc = pc /\ Go(pc).calls = run.calls /\ Go(pc).todo = run.todo
                    /\ Go(pc).rounds = run.rounds /\ Go(pc).disabled = run.disabled
                    /\ Go(pc).batch = run.batch
         /\ /\ Fails.pc = "return" /\ Fails.calls = <<>> /\ Fails.todo = <<>>
            /\ Fails.rounds = 0 /\ ~Fails.disabled /\ Fails.batch = "none"
  <1>1. run \in Sessions
    BY DEF TypeInv
  <1> QED BY <1>1 DEF Sessions, Go, Fails, Off

\* The channel keeps its capacity.
LEMMA Capacity ==
  ASSUME TypeInv, Len(events) <= EventCap, NEW e \in Event, EmitsOrLoses(e)
  PROVE  Len(events') <= EventCap
  <1>1. events \in Seq(Event) /\ EventCap \in Nat
    BY Constants DEF TypeInv
  <1> QED BY <1>1 DEF EmitsOrLoses, Emits, Lost

LEMMA AnsweredPlace ==
  ASSUME TypeInv, NEW text \in BOOLEAN, NEW calls \in Seq(Call), NEW canceled \in BOOLEAN,
         Answered(text, calls, canceled)
  PROVE  /\ run'.pc = Route(calls, canceled) /\ run'.batch = "none"
         /\ run'.calls = calls /\ run'.todo = calls
         /\ run'.rounds = run.rounds /\ run'.disabled = run.disabled
         /\ run'.reply = run.reply /\ run'.status = run.status /\ run'.persisted = run.persisted
         /\ run'.over = run.over
         /\ run'.messages = IF text \/ calls # <<>>
                            THEN Append(run.messages, Assistant(text, Ids(calls))) ELSE run.messages
  <1>1. run \in Sessions
    BY DEF TypeInv
  <1> QED BY <1>1 DEF Answered, Sessions

LEMMA RoutePlaces ==
  ASSUME NEW calls, NEW canceled \in BOOLEAN
  PROVE  LET pc == Route(calls, canceled) IN
         /\ pc \in {"compact", "cancel", "disable", "limit", "plan"}
         /\ pc # "compact" => calls # <<>>
         /\ pc = "disable" => run.disabled
         /\ pc = "plan" => ~(run.rounds >= MaxRounds)
  BY DEF Route

LEMMA AnsweredRound ==
  ASSUME TypeInv, PlaceInv, RoundInv, NEW text \in BOOLEAN, NEW calls \in Seq(Call),
         NEW canceled \in BOOLEAN, Answered(text, calls, canceled), run.pc = "model",
         bounds'.calls \in Nat, run.rounds <= bounds'.calls,
         calls # <<>> => run.rounds < bounds'.calls,
         UNCHANGED ui, Len(events') <= EventCap
  PROVE  PlaceInv' /\ RoundInv'
  <1>1. PICK pc : pc = Route(calls, canceled)
    OBVIOUS
  <1>2. /\ pc \in {"compact", "cancel", "disable", "limit", "plan"}
        /\ pc # "compact" => calls # <<>>
        /\ pc = "disable" => run.disabled
        /\ pc = "plan" => ~(run.rounds >= MaxRounds)
    BY <1>1, RoutePlaces
  <1>3. /\ run'.pc = pc /\ run'.batch = "none"
        /\ run'.calls = calls /\ run'.todo = calls
        /\ run'.rounds = run.rounds /\ run'.disabled = run.disabled
    BY <1>1, AnsweredPlace
  <1>4. PlaceInv'
    BY <1>2, <1>3 DEF PlaceInv, Refusals, Asks, Runs, Outcome
  <1>5. run.rounds \in Nat /\ MaxRounds \in Nat
    BY Constants DEF TypeInv, Sessions
  <1>6. RoundInv'
    BY <1>2, <1>3, <1>5 DEF RoundInv, Asks, Runs, Outcome
  <1> QED BY <1>4, <1>6

LEMMA StreamPlace ==
  ASSUME TypeInv, PlaceInv, RoundInv, StreamText \/ StreamCalls \/ StreamEnds \/ StreamFails
  PROVE  PlaceInv' /\ RoundInv'
  <1>1. /\ run.rounds \in Nat /\ bounds.calls \in Nat /\ run.text \in BOOLEAN
        /\ run.calls \in Seq(Call) /\ <<>> \in Seq(Call) /\ Len(events) <= EventCap
        /\ run.rounds <= bounds.calls /\ (run.calls # <<>> => run.rounds < bounds.calls)
    <2>1. <<>> \in Seq(Call)
      OBVIOUS
    <2> QED BY <2>1 DEF TypeInv, Sessions, PlaceInv, RoundInv
  <1>2. CASE StreamText
    <2>1. Len(events') <= EventCap
      BY <1>1, <1>2, Capacity, EventTypes DEF StreamText, EmitsOrLoses
    <2>2. CASE run' = [run EXCEPT !.text = TRUE]
      BY <1>2, <2>1, <2>2
         DEF StreamText, SessionOnly, TypeInv, Sessions, PlaceInv, RoundInv
    <2>3. CASE Answered(TRUE, <<>>, TRUE)
      BY <1>1, <1>2, <2>1, <2>3, AnsweredRound DEF StreamText, SessionOnly
    <2> QED BY <1>2, <2>2, <2>3 DEF StreamText
  <1>3. CASE StreamCalls
    <2>1. PICK b \in Batches :
            /\ bounds.calls + Len(b) <= MaxCalls
            /\ bounds' = [bounds EXCEPT !.calls = @ + Len(b)]
            /\ \/ /\ Emits([type |-> "calls", calls |-> Ids(Batch(b))])
                  /\ run' = [run EXCEPT !.calls = Batch(b)]
               \/ Lost /\ Answered(run.text, Batch(b), TRUE)
      BY <1>3 DEF StreamCalls, Batch
    <2>2. /\ Batch(b) \in Seq(Call) /\ Len(b) \in Nat /\ Len(b) > 0
      BY <2>1, BatchType
    <2>3. bounds'.calls = bounds.calls + Len(b)
      BY <2>1 DEF TypeInv
    <2>4. bounds'.calls \in Nat /\ run.rounds < bounds'.calls /\ run.rounds <= bounds'.calls
      BY <1>1, <2>2, <2>3
    <2>5. Len(events') <= EventCap
      <3>1. [type |-> "calls", calls |-> Ids(Batch(b))] \in Event
        BY <2>2, IdsType, EventTypes
      <3> QED BY <1>1, <2>1, <3>1, Capacity DEF EmitsOrLoses
    <2>6. CASE run' = [run EXCEPT !.calls = Batch(b)]
      <3>1. /\ run'.pc = "model" /\ run'.calls = Batch(b) /\ run'.rounds = run.rounds
            /\ run'.disabled = run.disabled
        BY <1>3, <2>6 DEF StreamCalls, TypeInv, Sessions
      <3> QED BY <1>3, <2>4, <2>5, <3>1
              DEF StreamCalls, PlaceInv, RoundInv, Asks, Runs, Outcome, Refusals
    <2>7. CASE Answered(run.text, Batch(b), TRUE)
      BY <1>1, <1>3, <2>2, <2>4, <2>5, <2>7, AnsweredRound DEF StreamCalls
    <2> QED BY <2>1, <2>6, <2>7
  <1>4. CASE StreamEnds
    <2>1. PICK canceled \in {FALSE, run.over} : Answered(run.text, run.calls, canceled)
      BY <1>4 DEF StreamEnds
    <2>2. canceled \in BOOLEAN
      BY DEF TypeInv, Sessions
    <2> QED BY <1>1, <1>4, <2>1, <2>2, AnsweredRound DEF StreamEnds, SessionOnly
  <1>5. CASE StreamFails
    <2>1. /\ run'.pc = "model" /\ run'.calls = <<>> /\ run'.rounds = run.rounds
          /\ run'.disabled = run.disabled /\ bounds'.calls = bounds.calls
      BY <1>5 DEF StreamFails, TypeInv, Sessions
    <2> QED BY <1>5, <2>1 DEF StreamFails, PlaceInv, RoundInv, Asks, Runs, Outcome, Refusals
  <1> QED BY <1>2, <1>3, <1>4, <1>5

\* The run is over, with an error.
LEMMA FailsPlace ==
  ASSUME TypeInv, PlaceInv, RoundInv, run.pc # "off", run' = Fails, UNCHANGED <<ui, bounds>>,
         Len(events') <= EventCap
  PROVE  PlaceInv' /\ RoundInv'
  <1>1. bounds.calls \in Nat /\ MaxRounds \in Nat
    BY Constants DEF TypeInv
  <1> QED BY <1>1, RunFields DEF PlaceInv, RoundInv, Asks, Runs, Outcome, Refusals

\* The session moves on within a batch.
LEMMA BatchPlace ==
  ASSUME TypeInv, PlaceInv, RoundInv,
         Refuse \/ BatchEnds \/ Plan \/ Authorize \/ TakeReply \/ PromptAborts \/ ExecNext
  PROVE  PlaceInv' /\ RoundInv'
  <1>1. /\ run.calls \in Seq(Call) /\ bounds.calls \in Nat /\ run.rounds \in Nat
        /\ run \in Sessions /\ MaxRounds \in Nat
    BY Constants DEF TypeInv, Sessions
  <1> DEFINE Held == /\ run'.calls = run.calls /\ run'.rounds = run.rounds
                     /\ run'.disabled = run.disabled
  <1>2. CASE Refuse
    <2>1. Len(events') <= EventCap
      <3>1. [type |-> "tool", call |-> Head(run.todo).id, body |-> "notice"] \in Event
        BY <1>2, TodoType, EventTypes DEF Refuse
      <3> QED BY <1>2, <3>1, Capacity DEF Refuse, PlaceInv, EmitsOrLoses
    <2>2. CASE run' = Fails
      BY <1>2, <2>1, <2>2, FailsPlace DEF Refuse, SessionOnly, Refusals
    <2>3. CASE run' = [run EXCEPT !.todo = Tail(@),
                                  !.results = Append(@, Result(Head(run.todo).id, "notice"))]
      <3>1. Held /\ run'.pc = run.pc
        BY <1>1, <2>3 DEF Sessions
      <3> QED BY <1>2, <2>1, <3>1
              DEF Refuse, SessionOnly, PlaceInv, RoundInv, Asks, Runs, Outcome, Refusals
    <2> QED BY <1>2, <2>2, <2>3 DEF Refuse
  <1>3. CASE BatchEnds
    <2>1. /\ Held
          /\ \/ run.pc \in {"cancel", "limit"} /\ run'.pc = "finish"
             \/ /\ run.pc \in {"disable", "exec", "deny", "rest"} /\ run'.pc = "compact"
                /\ run.pc \in {"disable", "exec"} <=> run'.batch = "ran"
      <3>1. CASE \E end \in {<<"cancel", "canceled">>, <<"limit", "error">>} :
                    /\ run.pc = end[1]
                    /\ run' = [run EXCEPT !.messages = @ \o run.results, !.pc = "finish",
                                          !.status = end[2]]
        <4>1. PICK status, messages :
                run' = [run EXCEPT !.messages = messages, !.pc = "finish", !.status = status]
          BY <3>1
        <4> QED BY <1>1, <3>1, <4>1 DEF Sessions
      <3>2. CASE \E end \in {<<"disable", "ran">>, <<"exec", "ran">>, <<"deny", "denied">>,
                             <<"rest", "canceled">>} :
                    /\ run.pc = end[1]
                    /\ run' = [run EXCEPT !.messages = @ \o run.results, !.pc = "compact",
                                          !.batch = end[2]]
        <4>1. PICK batch, messages :
                /\ run' = [run EXCEPT !.messages = messages, !.pc = "compact", !.batch = batch]
                /\ run.pc \in {"disable", "exec", "deny", "rest"}
                /\ run.pc \in {"disable", "exec"} <=> batch = "ran"
          <5>1. PICK end \in {<<"disable", "ran">>, <<"exec", "ran">>, <<"deny", "denied">>,
                             <<"rest", "canceled">>} :
                  /\ run.pc = end[1]
                  /\ run' = [run EXCEPT !.messages = @ \o run.results, !.pc = "compact",
                                        !.batch = end[2]]
            BY <3>2
          <5>2. PICK batch : batch = end[2]
            OBVIOUS
          <5>3. /\ run.pc \in {"disable", "exec", "deny", "rest"}
                /\ run.pc \in {"disable", "exec"} <=> batch = "ran"
            BY <5>1, <5>2
          <5> QED BY <5>1, <5>2, <5>3
        <4> QED BY <1>1, <4>1 DEF Sessions
      <3> QED BY <1>3, <3>1, <3>2 DEF BatchEnds
    <2>2. PlaceInv'
      BY <1>3, <2>1 DEF BatchEnds, SessionOnly, PlaceInv, Asks, Runs, Outcome, Refusals
    <2>3. RoundInv'
      BY <1>3, <2>1 DEF BatchEnds, SessionOnly, RoundInv, Asks, Runs, Outcome
    <2> QED BY <2>2, <2>3
  <1>4. CASE Plan
    <2>1. /\ Held /\ run'.todo = run.todo
          /\ run.pc = "plan" /\ run'.pc \in {"exec", "authorize"}
      BY <1>1, <1>4 DEF Plan, Sessions
    <2> QED BY <1>4, <2>1
            DEF Plan, SessionOnly, PlaceInv, RoundInv, Asks, Runs, Outcome, Refusals
  <1>5. CASE Authorize
    <2>1. Len(events') <= EventCap
      <3>1. [type |-> "prompt", ask |-> run.ask] \in Event
        BY <1>1, EventTypes DEF Sessions
      <3> QED BY <1>5, <3>1, Capacity DEF Authorize, PlaceInv, EmitsOrLoses, Lost
    <2>2. /\ Held /\ run'.todo = run.todo
          /\ run.pc = "authorize" /\ run'.pc \in {"exec", "wait", "deny"}
      BY <1>1, <1>5 DEF Authorize, Sessions, Go
    <2> QED BY <1>5, <2>1, <2>2
            DEF Authorize, SessionOnly, PlaceInv, RoundInv, Asks, Runs, Outcome, Refusals
  <1>6. CASE TakeReply
    <2>1. /\ Held /\ run'.todo = run.todo
          /\ run.pc = "wait" /\ run'.pc \in {"exec", "deny"}
      BY <1>1, <1>6 DEF TakeReply, Sessions
    <2> QED BY <1>6, <2>1
            DEF TakeReply, PlaceInv, RoundInv, Asks, Runs, Outcome, Refusals
  <1>7. CASE PromptAborts \/ ExecNext
    <2>1. /\ Held /\ run'.todo = run.todo
          /\ \/ run.pc = "wait" /\ run'.pc = "deny"
             \/ run.pc = "exec" /\ run'.pc = "rest"
             \/ run.pc = "exec" /\ run'.pc = "call" /\ run.todo # <<>>
      BY <1>1, <1>7 DEF PromptAborts, ExecNext, Sessions, Go
    <2>2. PlaceInv'
      BY <1>7, <2>1
         DEF PromptAborts, ExecNext, SessionOnly, PlaceInv, Asks, Runs, Outcome, Refusals
    <2>3. RoundInv'
      BY <1>7, <2>1 DEF PromptAborts, ExecNext, SessionOnly, RoundInv, Asks, Runs, Outcome
    <2> QED BY <2>2, <2>3
  <1> QED BY <1>2, <1>3, <1>4, <1>5, <1>6, <1>7

LEMMA CallPlace ==
  ASSUME TypeInv, PlaceInv, RoundInv,
         StreamBreaks \/ CallUnknown \/ CallStarts \/ CallEnds
  PROVE  PlaceInv' /\ RoundInv'
  <1>1. /\ run \in Sessions /\ run.pc # "off" /\ UNCHANGED <<ui, bounds>>
        /\ Len(events) <= EventCap /\ (run.pc \in {"call", "running"} => run.todo # <<>>)
    BY DEF TypeInv, PlaceInv, StreamBreaks, CallUnknown, CallStarts, CallEnds, SessionOnly
  <1>2. Len(events') <= EventCap
    <2>1. CASE CallUnknown \/ CallEnds
      <3>1. PICK body \in Bodies :
              EmitsOrLoses([type |-> "tool", call |-> Head(run.todo).id, body |-> body])
        BY <2>1 DEF CallUnknown, CallEnds, EmitsOrLoses
      <3>2. [type |-> "tool", call |-> Head(run.todo).id, body |-> body] \in Event
        BY <1>1, <2>1, TodoType, EventTypes DEF CallUnknown, CallEnds
      <3> QED BY <1>1, <3>1, <3>2, Capacity
    <2>2. CASE UNCHANGED events
      BY <1>1, <2>2
    <2> QED BY <2>1, <2>2 DEF StreamBreaks, CallStarts
  <1>3. CASE run' = Fails
    BY <1>1, <1>2, <1>3, FailsPlace
  <1>4. CASE run' # Fails
    <2>1. /\ run'.calls = run.calls /\ run'.rounds = run.rounds /\ run'.disabled = run.disabled
          /\ run.pc \in {"call", "running"}
          /\ \/ run'.pc \in {"exec", "rest"}
             \/ run'.pc = "running" /\ run'.todo = run.todo
      BY <1>1, <1>4 DEF StreamBreaks, CallUnknown, CallStarts, CallEnds, Sessions, Go, Took
    <2>2. PlaceInv'
      BY <1>1, <1>2, <2>1 DEF PlaceInv, Asks, Runs, Outcome, Refusals
    <2>3. RoundInv'
      BY <1>1, <2>1 DEF RoundInv, Asks, Runs, Outcome
    <2> QED BY <2>2, <2>3
  <1> QED BY <1>3, <1>4

LEMMA SettledFields ==
  ASSUME run \in Sessions
  PROVE  /\ Settled.disabled = run.disabled /\ Settled.persisted = run.persisted
         /\ Settled.messages = run.messages
         /\ \/ /\ Settled.pc = "finish" /\ Settled.rounds = run.rounds
               /\ Settled.calls = run.calls /\ Ends # "none" /\ Settled.status = Ends
            \/ /\ run.batch = "ran" /\ Settled.pc = "model" /\ Settled.batch = "none"
               /\ Settled.rounds = run.rounds + 1 /\ Settled.calls = <<>>
               /\ Settled.status = run.status
  <1>1. run.batch # "ran" => Ends # "none"
    BY DEF Ends, Sessions
  <1> QED BY <1>1 DEF Settled, Sessions

LEMMA EndPlace ==
  ASSUME TypeInv, PlaceInv, RoundInv, Compacts \/ LeavesHistory \/ Announce \/ Finish \/ Return
  PROVE  PlaceInv' /\ RoundInv'
  <1>1. /\ run \in Sessions /\ run.pc # "off" /\ Len(events) <= EventCap
        /\ bounds.calls \in Nat /\ run.rounds \in Nat /\ MaxRounds \in Nat
    BY SMTT(60), Constants DEF TypeInv, Sessions, PlaceInv, Compacts, LeavesHistory, Announce, Finish, Return
  <1>2. Len(events') <= EventCap
    <2>1. CASE Announce
      <3>1. [type |-> "compacted", messages |-> run.messages] \in Event
        BY <1>1, EventTypes DEF Sessions
      <3> QED BY <1>1, <2>1, <3>1, Capacity, AnnounceSteps
    <2>2. CASE Return
      <3>1. PICK ok \in BOOLEAN : EmitsOrLoses([type |-> "done", ok |-> ok])
        BY <2>2 DEF Return
      <3> QED BY <1>1, <3>1, EventTypes, Capacity
    <2> QED BY <1>1, <2>1, <2>2 DEF Compacts, LeavesHistory, Finish
  <1>3. bounds'.calls = bounds.calls /\ UNCHANGED ui
    BY DEF TypeInv, Compacts, LeavesHistory, Announce, Finish, Return, SessionOnly
  <1>4. CASE Compacts
    <2>1. PICK s \in Seq(Message) : run' = [run EXCEPT !.messages = Summary \o s, !.pc = "announce"]
      BY <1>4, CompactsType
    <2>2. /\ run'.calls = run.calls /\ run'.rounds = run.rounds /\ run'.disabled = run.disabled
          /\ run'.batch = run.batch /\ run.pc = "compact" /\ run'.pc = "announce"
      BY <1>1, <1>4, <2>1 DEF Sessions, Compacts
    <2> QED BY <1>2, <1>3, <2>2 DEF PlaceInv, RoundInv, Asks, Runs, Outcome, Refusals
  <1>5. CASE run' = Settled /\ run.pc \in Outcome
    <2>1. CASE run'.pc = "finish" /\ run'.rounds = run.rounds /\ run'.calls = run.calls
      <3>1. run'.disabled = run.disabled
        BY <1>1, <1>5, SettledFields
      <3> QED BY <1>1, <1>2, <1>3, <2>1, <3>1
              DEF PlaceInv, RoundInv, Asks, Runs, Outcome, Refusals
    <2>2. CASE /\ run.batch = "ran" /\ run'.pc = "model" /\ run'.rounds = run.rounds + 1
               /\ run'.calls = <<>>
      <3>1. run.calls # <<>> /\ run.rounds < bounds.calls
        BY <1>5, <2>2 DEF PlaceInv, RoundInv
      <3>2. run'.disabled = run.disabled /\ (~run.disabled => run.rounds < MaxRounds)
        BY <1>1, <1>5, <2>2, SettledFields DEF RoundInv
      <3>3. PlaceInv'
        BY <1>1, <1>2, <1>3, <2>2 DEF PlaceInv, Asks, Runs, Outcome, Refusals
      <3>4. RoundInv'
        BY <1>1, <1>3, <2>2, <3>1, <3>2 DEF RoundInv, Asks, Runs, Outcome
      <3> QED BY <3>3, <3>4
    <2> QED BY <1>1, <1>5, <2>1, <2>2, SettledFields
  <1>6. CASE run' = [run EXCEPT !.pc = "finish", !.status = "error"]
    <2>1. /\ run'.calls = run.calls /\ run'.rounds = run.rounds /\ run'.disabled = run.disabled
          /\ run'.pc = "finish"
      BY <1>1, <1>6 DEF Sessions
    <2> QED BY <1>1, <1>2, <1>3, <2>1 DEF PlaceInv, RoundInv, Asks, Runs, Outcome, Refusals
  <1>7. CASE Finish
    <2>1. run'.pc = "return" /\ run'.calls = <<>> /\ run'.rounds = 0
      BY <1>7, RunFields DEF Finish, Off
    <2> QED BY <1>1, <1>2, <1>3, <2>1 DEF PlaceInv, RoundInv, Asks, Runs, Outcome, Refusals
  <1>8. CASE Return
    <2>1. /\ run'.calls = run.calls /\ run'.rounds = run.rounds /\ run'.disabled = run.disabled
          /\ run'.pc = "closed"
      BY <1>8, RunFields DEF Return
    <2> QED BY <1>1, <1>2, <1>3, <2>1 DEF PlaceInv, RoundInv, Asks, Runs, Outcome, Refusals
  <1> QED BY <1>4, <1>5, <1>6, <1>7, <1>8, AnnounceSteps DEF LeavesHistory, Announce, Outcome

LEMMA ChatPlace ==
  ASSUME TypeInv, PlaceInv, RoundInv,
         \/ Submit \/ Receive \/ ReceiveDone \/ ReceiveClosed \/ ReceiveClosedCompacting \/ ReceivePrompt
         \/ Approve \/ Deny \/ Toggle \/ Cancel \/ NewChat
  PROVE  PlaceInv' /\ RoundInv'
  <1>1. /\ run \in Sessions /\ Len(events) <= EventCap /\ events \in Seq(Event)
        /\ bounds.calls \in Nat /\ run.rounds \in Nat /\ MaxRounds \in Nat /\ EventCap \in Nat
    BY Constants DEF TypeInv, Sessions, PlaceInv
  <1>2. events' \in {events, Tail(events)} /\ Len(events') <= EventCap
    <2>1. events # <<>> => Len(Tail(events)) <= EventCap
      BY <1>1
    <2> QED BY <1>1, <2>1 DEF Submit, Receive, ReceiveDone, ReceiveClosed, ReceiveClosedCompacting, ReceivePrompt,
                              Approve, Deny, Toggle, Cancel, NewChat
  <1>3. bounds'.calls = bounds.calls
    BY DEF TypeInv, Submit, Receive, ReceiveDone, ReceiveClosed, ReceiveClosedCompacting, ReceivePrompt,
           Approve, Deny, Toggle, Cancel, NewChat
  <1>4. CASE Submit
    <2>1. run'.pc = "model" /\ run'.calls = <<>> /\ run'.rounds = 0
      BY <1>4 DEF Submit, Off
    <2>2. ui'.running
      BY <1>4 DEF Submit, TypeInv
    <2> QED BY <1>1, <1>2, <1>3, <2>1, <2>2 DEF PlaceInv, RoundInv, Asks, Runs, Outcome, Refusals
  <1>5. CASE ReceiveDone \/ ReceiveClosed
    <2>1. run' = Off /\ ~ui'.running /\ ~ui'.reading /\ ui'.prompt = {}
      BY <1>5 DEF ReceiveDone, ReceiveClosed, RunOver, TypeInv
    <2>2. run'.pc = "off" /\ run'.calls = <<>> /\ run'.rounds = 0
      BY <2>1 DEF Off
    <2> QED BY <1>1, <1>2, <1>3, <2>1, <2>2
            DEF PlaceInv, RoundInv, Asks, Runs, Outcome, Refusals
  <1>6. CASE ~(Submit \/ ReceiveDone \/ ReceiveClosed)
    <2>1. /\ run'.pc = run.pc /\ run'.calls = run.calls /\ run'.rounds = run.rounds
          /\ run'.disabled = run.disabled /\ run'.todo = run.todo /\ run'.batch = run.batch
      BY <1>1, <1>6 DEF Receive, ReceiveClosedCompacting, ReceivePrompt, Approve, Deny, Toggle,
                        Cancel, NewChat, Replies, Sessions
    <2>2. /\ ui'.running = ui.running
          /\ ui'.reading \/ ui'.prompt # {} => ui.reading \/ ui.prompt # {}
      BY <1>6 DEF Receive, ReceiveClosedCompacting, ReceivePrompt, Approve, Deny, Toggle, Cancel,
                  NewChat, Resolved, TypeInv
    <2>3. PlaceInv'
      BY <1>1, <1>2, <2>1, <2>2 DEF PlaceInv, Asks, Runs, Outcome, Refusals
    <2>4. RoundInv'
      BY <1>1, <1>3, <2>1 DEF RoundInv, Asks, Runs, Outcome
    <2> QED BY <2>3, <2>4
  <1> QED BY <1>4, <1>5, <1>6

LEMMA NextPlace ==
  ASSUME TypeInv, PlaceInv, RoundInv, [Next]_vars
  PROVE  PlaceInv' /\ RoundInv'
  <1>1. CASE UNCHANGED vars
    BY <1>1 DEF vars, PlaceInv, RoundInv
  <1> QED BY <1>1, StreamPlace, BatchPlace, CallPlace, EndPlace, ChatPlace DEF Next

LEMMA InitPlace ==
  ASSUME Init
  PROVE  PlaceInv /\ RoundInv
  BY Constants DEF Init, Off, PlaceInv, RoundInv, Asks, Runs, Outcome, Refusals

----------------------------------------------------------------------------
(* What the user has allowed.                                              *)

\* Facts that are used step by step.
LEMMA Known ==
  ASSUME TypeInv
  PROVE  /\ run \in Sessions /\ events \in Seq(Event) /\ Len(events) \in Nat
         /\ DOMAIN events = 1 .. Len(events) /\ \A i \in DOMAIN events : events[i] \in Event
  <1>1. run \in Sessions /\ events \in Seq(Event)
    BY DEF TypeInv
  <1> QED BY <1>1

\* An event of the session's that is no prompt and not the last: whoever was asked still is.
Sends(kinds) == \/ UNCHANGED events
               \/ \E e \in Event : e.type \in kinds /\ events' = Append(events, e)

Histories == {"text", "calls", "tool", "compacted"}

StaysAsked == \A ask \in SUBSET Asking : Asked(ask) => Asked(ask)'

LEMMA SessionPrompts ==
  ASSUME TypeInv, TypeInv', PromptInv, DoneInv, run.pc # "closed", UNCHANGED ui, StaysAsked,
         Sends(Histories)
  PROVE  PromptInv' /\ DoneInv'
  <1>1. /\ events \in Seq(Event) /\ Len(events) \in Nat
        /\ DOMAIN events = 1 .. Len(events) /\ \A i \in DOMAIN events : events[i] \in Event
    BY Known
  <1>2. /\ \A i \in DOMAIN events' :
              \/ i \in DOMAIN events /\ events'[i] = events[i]
              \/ events'[i].type \in Histories
    BY <1>1 DEF Sends
  <1>3. \A i \in DOMAIN events : events[i].type # "done"
    BY DEF DoneInv
  <1>4. DoneInv'
    BY <1>2, <1>3 DEF DoneInv, Histories
  <1>5. \A i \in DOMAIN events' : events'[i].type = "prompt" =>
            IsPrompt(i) /\ events'[i] = events[i] /\ events[i].ask \in SUBSET Asking
    BY <1>1, <1>2, EventParts DEF IsPrompt, Histories
  <1>6. ui.prompt # {} => Asked(ui.prompt)'
    BY DEF PromptInv, StaysAsked, TypeInv
  <1>7. \A i \in DOMAIN events' : events'[i].type = "prompt" =>
            /\ ui.prompt = {} /\ Asked(events[i].ask)'
            /\ \A j \in DOMAIN events' : events'[j].type = "prompt" => i = j
    BY <1>5 DEF PromptInv, StaysAsked, IsPrompt
  <1>8. PromptInv'
    <2>1. (ui.prompt # {} => Asked(ui.prompt))'
      BY <1>6
    <2>2. ASSUME NEW i \in DOMAIN events', events'[i].type = "prompt"
          PROVE  /\ ui'.prompt = {} /\ Asked(events[i].ask)' /\ events'[i] = events[i]
                 /\ \A j \in DOMAIN events' : events'[j].type = "prompt" => i = j
      BY <1>5, <1>7, <2>2
    <2>3. ASSUME NEW i \in DOMAIN events', events'[i].type = "prompt"
          PROVE  Asked(events[i].ask)'
      BY <2>2, <2>3
    <2> QED BY <2>1, <2>2, <2>3 DEF PromptInv, IsPrompt, Asked
  <1> QED BY <1>4, <1>8

\* Nobody is asked while the session neither waits nor has been denied.
LEMMA NobodyAsked ==
  ASSUME run.pc # "wait" \/ run.reply # "none", ~Denied
  PROVE  \A ask : ~Asked(ask)
  BY DEF Asked

\* A step of the session's from where nobody is asked.
LEMMA FreeStep ==
  ASSUME TypeInv, TypeInv', ConsentInv, UNCHANGED <<ui, grants, consent>>, Sends(Histories),
         run.pc # "wait", ~Denied,
         run'.pc \notin {"authorize", "wait"} \cup Runs
  PROVE  ConsentInv'
  <1>1. run.pc # "closed"
    BY DEF Denied
  <1>2. StaysAsked
    BY NobodyAsked DEF StaysAsked
  <1>3. PromptInv' /\ DoneInv'
    BY <1>1, <1>2, SessionPrompts DEF ConsentInv
  <1>4. GrantInv'
    BY DEF ConsentInv, GrantInv
  <1>5. ClearInv'
    BY DEF ClearInv
  <1> QED BY <1>3, <1>4, <1>5 DEF ConsentInv

\* One from where it has been denied.
LEMMA DeniedStep ==
  ASSUME TypeInv, TypeInv', ConsentInv, UNCHANGED <<ui, grants, consent>>, Sends(Histories),
         Denied, Denied', run.pc # "closed"
  PROVE  ConsentInv'
  <1>1. StaysAsked
    BY DEF StaysAsked, Asked
  <1>2. PromptInv' /\ DoneInv'
    BY <1>1, SessionPrompts DEF ConsentInv
  <1>3. GrantInv'
    BY DEF ConsentInv, GrantInv
  <1>4. ClearInv'
    BY DEF ClearInv, Denied, Outcome, Runs
  <1> QED BY <1>2, <1>3, <1>4 DEF ConsentInv

LEMMA StreamConsent ==
  ASSUME TypeInv, TypeInv', ConsentInv,
         StreamText \/ StreamCalls \/ StreamEnds \/ StreamFails \/ StreamBreaks
  PROVE  ConsentInv'
  <1>1. run \in Sessions /\ run.pc = "model" /\ UNCHANGED <<ui, grants, consent>>
    BY DEF TypeInv, StreamText, StreamCalls, StreamEnds, StreamFails, StreamBreaks, SessionOnly
  <1>2. Sends(Histories)
    <2>1. CASE StreamText
      BY <2>1, EventTypes DEF StreamText, Emits, Lost, Sends, Histories
    <2>2. CASE StreamCalls
      <3>1. PICK b \in Batches : /\ bounds.calls + Len(b) <= MaxCalls
                                 /\ \/ Emits([type |-> "calls", calls |-> Ids(Batch(b))])
                                    \/ Lost
        BY <2>2 DEF StreamCalls, Batch
      <3>2. [type |-> "calls", calls |-> Ids(Batch(b))] \in Event
        BY <3>1, BatchType, IdsType, EventTypes
      <3> QED BY <3>1, <3>2 DEF Emits, Lost, Sends, Histories
    <2>3. CASE StreamEnds \/ StreamFails \/ StreamBreaks
      BY <2>3 DEF StreamEnds, StreamFails, StreamBreaks, Sends
    <2> QED BY <2>1, <2>2, <2>3
  <1>3. run'.pc \in {"model", "compact", "cancel", "disable", "limit", "plan", "return"}
    <2>1. CASE \E text \in BOOLEAN, calls \in Seq(Call), canceled \in BOOLEAN :
                  Answered(text, calls, canceled)
      <3>1. PICK text \in BOOLEAN, calls \in Seq(Call), canceled \in BOOLEAN :
              Answered(text, calls, canceled)
        BY <2>1
      <3> QED BY <3>1, AnsweredPlace, RoutePlaces
    <2>2. CASE StreamText
      <3>1. <<>> \in Seq(Call)
        OBVIOUS
      <3> QED BY <1>1, <2>1, <2>2, <3>1 DEF StreamText, Sessions
    <2>3. CASE StreamCalls
      <3>1. PICK b \in Batches :
              /\ bounds.calls + Len(b) <= MaxCalls
              /\ run' = [run EXCEPT !.calls = Batch(b)] \/ Answered(run.text, Batch(b), TRUE)
        BY <2>3 DEF StreamCalls, Batch
      <3>2. Batch(b) \in Seq(Call) /\ run.text \in BOOLEAN
        BY <1>1, <3>1, BatchType DEF Sessions
      <3>3. CASE run' = [run EXCEPT !.calls = Batch(b)]
        BY <1>1, <3>3 DEF Sessions
      <3> QED BY <2>1, <3>1, <3>2, <3>3
    <2>4. CASE StreamEnds
      <3>1. PICK canceled \in {FALSE, run.over} : Answered(run.text, run.calls, canceled)
        BY <2>4 DEF StreamEnds
      <3>2. run.text \in BOOLEAN /\ run.calls \in Seq(Call) /\ canceled \in BOOLEAN
        BY <1>1 DEF Sessions
      <3> QED BY <2>1, <3>1, <3>2
    <2>5. CASE StreamFails \/ StreamBreaks
      BY <1>1, <2>5, RunFields DEF StreamFails, StreamBreaks, Sessions
    <2> QED BY <2>2, <2>3, <2>4, <2>5
  <1> QED BY <1>1, <1>2, <1>3, FreeStep DEF Denied, Runs, Outcome

LEMMA RefuseConsent ==
  ASSUME TypeInv, TypeInv', ConsentInv, Refuse
  PROVE  ConsentInv'
  <1>1. run \in Sessions /\ UNCHANGED <<ui, grants, consent>> /\ run.pc \in Refusals
    BY DEF TypeInv, Refuse, SessionOnly
  <1>2. Sends(Histories)
    <2>1. [type |-> "tool", call |-> Head(run.todo).id, body |-> "notice"] \in Event
      BY TodoType, EventTypes DEF Refuse
    <2> QED BY <2>1 DEF Refuse, Emits, Lost, Sends, Histories
  <1>3. run'.pc = run.pc \/ run'.pc = "return"
    BY <1>1, RunFields DEF Refuse, Sessions
  <1>4. CASE run.pc = "deny"
    BY <1>1, <1>2, <1>3, <1>4, DeniedStep DEF Denied
  <1>5. CASE run.pc # "deny"
    BY <1>1, <1>2, <1>3, <1>5, FreeStep DEF Denied, Refusals, Runs, Outcome
  <1> QED BY <1>4, <1>5

LEMMA BatchEndsConsent ==
  ASSUME TypeInv, TypeInv', ConsentInv, BatchEnds
  PROVE  ConsentInv'
  <1>1. run \in Sessions /\ UNCHANGED <<ui, grants, consent>> /\ Sends(Histories)
    BY DEF TypeInv, BatchEnds, SessionOnly, Sends
  <1>2. \/ run.pc \in {"cancel", "limit"} /\ run'.pc = "finish"
        \/ /\ run.pc \in {"disable", "exec", "deny", "rest"} /\ run'.pc = "compact"
           /\ run.pc = "deny" => run'.batch = "denied"
    <2>1. CASE \E end \in {<<"cancel", "canceled">>, <<"limit", "error">>} :
                  /\ run.pc = end[1]
                  /\ run' = [run EXCEPT !.messages = @ \o run.results, !.pc = "finish",
                                        !.status = end[2]]
      <3>1. PICK status, messages :
              run' = [run EXCEPT !.messages = messages, !.pc = "finish", !.status = status]
        BY <2>1
      <3> QED BY <1>1, <2>1, <3>1 DEF Sessions
    <2>2. CASE \E end \in {<<"disable", "ran">>, <<"exec", "ran">>, <<"deny", "denied">>,
                           <<"rest", "canceled">>} :
                  /\ run.pc = end[1]
                  /\ run' = [run EXCEPT !.messages = @ \o run.results, !.pc = "compact",
                                        !.batch = end[2]]
      <3>1. PICK end \in {<<"disable", "ran">>, <<"exec", "ran">>, <<"deny", "denied">>,
                         <<"rest", "canceled">>} :
              /\ run.pc = end[1]
              /\ run' = [run EXCEPT !.messages = @ \o run.results, !.pc = "compact",
                                    !.batch = end[2]]
        BY <2>2
      <3>2. PICK batch, messages :
              /\ batch = end[2]
              /\ run' = [run EXCEPT !.messages = messages, !.pc = "compact", !.batch = batch]
        BY <3>1
      <3>3. run'.pc = "compact" /\ run'.batch = batch
        BY <1>1, <3>2 DEF Sessions
      <3>4. run.pc \in {"disable", "exec", "deny", "rest"} /\ (run.pc = "deny" => batch = "denied")
        BY <3>1, <3>2
      <3> QED BY <3>3, <3>4
    <2> QED BY <2>1, <2>2 DEF BatchEnds
  <1>3. CASE run.pc = "deny"
    BY <1>1, <1>2, <1>3, DeniedStep DEF Denied, Outcome
  <1>4. CASE run.pc # "deny"
    BY <1>1, <1>2, <1>4, FreeStep DEF Denied, Refusals, Runs, Outcome
  <1> QED BY <1>3, <1>4

\* A call of the batch is cleared, needs no approval, or is among those asked about.
LEMMA NeedClears ==
  ASSUME TypeInv, GrantInv, NEW i \in DOMAIN run.calls
  PROVE  Cleared(run.calls[i]) \/ run.calls[i] \in NeedApproval
  BY DEF NeedApproval, Cleared, GrantInv, Allows

LEMMA PlanConsent ==
  ASSUME TypeInv, TypeInv', PlaceInv, ConsentInv, Plan
  PROVE  ConsentInv'
  <1>1. run \in Sessions /\ UNCHANGED <<ui, grants, consent>> /\ Sends(Histories)
    BY DEF TypeInv, Plan, SessionOnly, Sends
  <1>2. /\ run.pc = "plan" /\ run'.calls = run.calls /\ run'.todo = run.todo
        /\ run'.ask = NeedApproval
        /\ run'.pc = IF NeedApproval = {} THEN "exec" ELSE "authorize"
    BY <1>1 DEF Plan, Sessions
  <1>3. StaysAsked
    BY <1>2, NobodyAsked DEF StaysAsked, Denied, Outcome
  <1>4. PromptInv' /\ DoneInv'
    BY <1>1, <1>2, <1>3, SessionPrompts DEF ConsentInv
  <1>5. GrantInv'
    BY <1>1 DEF ConsentInv, GrantInv
  <1>6. ClearInv'
    <2>1. run.todo = run.calls
      BY <1>2 DEF PlaceInv, Asks
    <2>2. \A i \in DOMAIN run.calls : Cleared(run.calls[i]) \/ run.calls[i] \in NeedApproval
      BY NeedClears DEF ConsentInv
    <2>3. \A i \in DOMAIN run.calls : Cleared(run.calls[i])' <=> Cleared(run.calls[i])
      BY <1>1, <1>2 DEF Cleared
    <2> QED BY <1>2, <2>1, <2>2, <2>3 DEF ClearInv, Runs
  <1> QED BY <1>4, <1>5, <1>6 DEF ConsentInv

\* Every call of the batch is cleared when those it was asked about are.
LEMMA AllCleared ==
  ASSUME PlaceInv, ClearInv, run.pc \in {"authorize", "wait"},
         \A call \in run.ask : Cleared(call)
  PROVE  \A i \in DOMAIN run.todo : Cleared(run.todo[i])
  BY DEF PlaceInv, ClearInv, Asks

LEMMA AuthorizeConsent ==
  ASSUME TypeInv, TypeInv', PlaceInv, ConsentInv, Authorize
  PROVE  ConsentInv'
  <1>1. /\ run \in Sessions /\ UNCHANGED <<ui, grants, consent>> /\ run.pc = "authorize"
        /\ run.ask \in SUBSET Asking
    BY DEF TypeInv, Authorize, SessionOnly, Sessions
  <1>2. \A ask : ~Asked(ask)
    BY <1>1, NobodyAsked DEF Denied, Outcome
  <1>3. GrantInv'
    BY <1>1 DEF ConsentInv, GrantInv
  <1>4. ASSUME UNCHANGED events, run' = Go("exec"),
               \A call \in run.ask : Allows(grants.run, call.kind)
        PROVE  ConsentInv'
    <2>1. PromptInv' /\ DoneInv'
      BY <1>1, <1>2, <1>4, SessionPrompts DEF ConsentInv, Sends, StaysAsked
    <2>2. \A call \in run.ask : Cleared(call)
      BY <1>4 DEF ConsentInv, GrantInv, Allows, Cleared
    <2>3. \A i \in DOMAIN run.todo : Cleared(run.todo[i])
      BY <1>1, <2>2, AllCleared DEF ConsentInv
    <2>4. ClearInv'
      BY <1>1, <1>4, <2>3, RunFields DEF ClearInv, Cleared
    <2> QED BY <1>3, <2>1, <2>4 DEF ConsentInv
  <1>5. ASSUME UNCHANGED events, run' = Go("deny")
        PROVE  ConsentInv'
    <2>1. PromptInv' /\ DoneInv'
      BY <1>1, <1>2, <1>5, SessionPrompts DEF ConsentInv, Sends, StaysAsked
    <2>2. ClearInv'
      BY <1>5, RunFields DEF ClearInv, Runs
    <2> QED BY <1>3, <2>1, <2>2 DEF ConsentInv
  <1>6. ASSUME Emits([type |-> "prompt", ask |-> run.ask]),
               run' = [run EXCEPT !.pc = "wait", !.reply = "none"]
        PROVE  ConsentInv'
    <2>1. /\ run'.pc = "wait" /\ run'.reply = "none" /\ run'.ask = run.ask
          /\ run'.calls = run.calls
      BY <1>1, <1>6 DEF Sessions
    <2>2. PICK n \in Nat : n = Len(events) /\ DOMAIN events = 1 .. n
      BY Known
    <2>3. /\ DOMAIN events' = 1 .. n + 1
          /\ \A i \in 1 .. n : events'[i] = events[i]
          /\ events'[n + 1] = [type |-> "prompt", ask |-> run.ask]
      BY <1>6, <2>2, Known DEF Emits
    <2>4. ui.prompt = {} /\ \A i \in 1 .. n : events[i].type # "prompt"
      BY <1>2, <2>2 DEF ConsentInv, PromptInv, IsPrompt
    <2>5. \A i \in 1 .. n : events[i].type # "done"
      BY <1>1, <2>2 DEF ConsentInv, DoneInv
    <2>6. DoneInv'
      BY <2>3, <2>5 DEF DoneInv
    <2>7. \A i \in 1 .. n + 1 : events'[i].type = "prompt" => i = n + 1 /\ events'[i].ask = run.ask
      BY <2>3, <2>4
    <2>8. PromptInv'
      BY <1>1, <2>1, <2>3, <2>4, <2>7 DEF PromptInv, IsPrompt, Asked
    <2>9. ClearInv'
      BY <1>1, <2>1 DEF ConsentInv, ClearInv, Cleared, Runs
    <2> QED BY <1>3, <2>6, <2>8, <2>9 DEF ConsentInv
  <1> QED BY <1>4, <1>5, <1>6 DEF Authorize, Lost

LEMMA TakeReplyConsent ==
  ASSUME TypeInv, TypeInv', PlaceInv, ConsentInv, TakeReply
  PROVE  ConsentInv'
  <1>1. /\ run \in Sessions /\ UNCHANGED <<ui, consent, events>>
        /\ run.pc = "wait" /\ run.reply # "none" /\ run.ask \in SUBSET Asking
    BY DEF TypeInv, TakeReply, Sessions
  <1>2. /\ run'.pc = IF run.reply = "no" THEN "deny" ELSE "exec"
        /\ run'.calls = run.calls /\ run'.todo = run.todo
    BY <1>1 DEF TakeReply, Sessions
  <1>3. \A ask : ~Asked(ask)
    BY <1>1, NobodyAsked DEF Denied, Outcome
  <1>4. PromptInv' /\ DoneInv'
    BY <1>1, <1>3, SessionPrompts DEF ConsentInv, Sends, StaysAsked
  <1>5. GrantInv'
    <2>1. PICK g : /\ g = [all    |-> grants.run.all \/ run.reply = "all",
                           scopes |-> grants.run.scopes \cup
                                      IF run.reply = "always" THEN {call.kind : call \in run.ask}
                                      ELSE {}]
                   /\ grants' = [grants EXCEPT !.run = g, !.ui = IF grants.shared THEN g ELSE @]
      BY DEF TakeReply
    <2>2. run.reply = "all" => consent.all
      BY <1>1 DEF ConsentInv, ClearInv
    <2>3. run.reply = "always" => {call.kind : call \in run.ask} \subseteq consent.scopes
      BY <1>1 DEF ConsentInv, ClearInv
    <2>4. (g.all => consent.all) /\ g.scopes \subseteq consent.scopes
      BY <2>1, <2>2, <2>3 DEF ConsentInv, GrantInv
    <2>5. grants'.run = g /\ grants'.ui \in {g, grants.ui}
      BY <2>1 DEF TypeInv
    <2> QED BY <1>1, <2>4, <2>5 DEF ConsentInv, GrantInv
  <1>6. run.reply # "no" => \A call \in run.ask : Cleared(call)
    <2>1. run.reply \in {"once", "always", "all", "no"}
      BY <1>1 DEF Sessions
    <2> QED BY <1>1, <2>1 DEF ConsentInv, ClearInv, Cleared
  <1>7. run.reply # "no" => \A i \in DOMAIN run.todo : Cleared(run.todo[i])
    BY <1>1, <1>6, AllCleared DEF ConsentInv
  <1>8. ClearInv'
    BY <1>1, <1>2, <1>7 DEF ClearInv, Cleared, Runs
  <1> QED BY <1>4, <1>5, <1>8 DEF ConsentInv

LEMMA AbortConsent ==
  ASSUME TypeInv, TypeInv', ConsentInv, PromptAborts
  PROVE  ConsentInv'
  <1>1. /\ UNCHANGED <<ui, grants, consent>> /\ Sends(Histories)
        /\ run.pc = "wait" /\ run'.pc = "deny"
    BY RunFields DEF PromptAborts, SessionOnly, Sends
  <1>2. StaysAsked
    BY <1>1 DEF StaysAsked, Asked, Denied
  <1>3. PromptInv' /\ DoneInv'
    BY <1>1, <1>2, SessionPrompts DEF ConsentInv
  <1>4. GrantInv'
    BY <1>1 DEF ConsentInv, GrantInv
  <1>5. ClearInv'
    BY <1>1 DEF ClearInv, Runs
  <1> QED BY <1>3, <1>4, <1>5 DEF ConsentInv

\* The calls still to be run are among those that were.
LEMMA RunningConsent ==
  ASSUME TypeInv, TypeInv', PlaceInv, ConsentInv,
         ExecNext \/ CallUnknown \/ CallStarts \/ CallEnds
  PROVE  ConsentInv'
  <1>1. /\ run \in Sessions /\ UNCHANGED <<ui, grants, consent>> /\ run.pc \in Runs
        /\ run.todo \in Seq(Call) /\ run.todo # <<>>
    BY DEF TypeInv, ExecNext, CallUnknown, CallStarts, CallEnds, SessionOnly, Sessions, Runs,
           PlaceInv
  <1>2. Sends(Histories)
    <2>1. CASE CallUnknown \/ CallEnds
      <3>1. PICK body \in Bodies :
              EmitsOrLoses([type |-> "tool", call |-> Head(run.todo).id, body |-> body])
        BY <2>1 DEF CallUnknown, CallEnds, EmitsOrLoses
      <3>2. [type |-> "tool", call |-> Head(run.todo).id, body |-> body] \in Event
        BY <1>1, TodoType, EventTypes
      <3> QED BY <3>1, <3>2 DEF EmitsOrLoses, Emits, Lost, Sends, Histories
    <2>2. CASE UNCHANGED events
      BY <2>2 DEF Sends
    <2> QED BY <2>1, <2>2 DEF ExecNext, CallStarts
  <1>3. \A ask : ~Asked(ask)
    BY <1>1, NobodyAsked DEF Denied, Outcome, Runs
  <1>4. run.pc # "closed" /\ StaysAsked
    BY <1>1, <1>3 DEF Runs, StaysAsked
  <1>5. PromptInv' /\ DoneInv'
    BY <1>1, <1>2, <1>4, SessionPrompts DEF ConsentInv
  <1>6. GrantInv'
    BY <1>1 DEF ConsentInv, GrantInv
  <1>7. run'.pc \in {"call", "running", "exec", "rest", "return"}
        /\ (run'.pc \in Runs => run'.todo \in {run.todo, Tail(run.todo)})
    <2>1. \A body, pc : Took(body, pc).pc = pc /\ Took(body, pc).todo = Tail(run.todo)
      BY <1>1 DEF Sessions, Took
    <2>2. CASE ExecNext \/ CallStarts
      BY <1>1, <2>2, RunFields DEF ExecNext, CallStarts, Runs
    <2>3. CASE CallUnknown
      <3>1. (\E body : run' = Took(body, "exec")) \/ run' = Fails
        BY <2>3 DEF CallUnknown
      <3>2. (run'.todo = Tail(run.todo) /\ run'.pc = "exec") \/ run'.pc = "return"
        BY <2>1, <3>1, RunFields
      <3> QED BY <3>2 DEF Runs
    <2>4. CASE CallEnds
      BY <2>1, <2>4 DEF CallEnds, Runs
    <2> QED BY <2>2, <2>3, <2>4
  <1>8. ClearInv'
    <2>1. \A i \in DOMAIN run.todo : Cleared(run.todo[i])
      BY <1>1 DEF ConsentInv, ClearInv
    <2>2. \A i \in DOMAIN Tail(run.todo) : i + 1 \in DOMAIN run.todo
                                          /\ Tail(run.todo)[i] = run.todo[i + 1]
      BY <1>1
    <2>3. run'.pc \in Runs => \A i \in DOMAIN run'.todo : Cleared(run'.todo[i])
      BY <1>7, <2>1, <2>2
    <2>4. \A call : Cleared(call)' <=> Cleared(call)
      BY <1>1 DEF Cleared
    <2> QED BY <1>7, <2>3, <2>4 DEF ClearInv, Cleared
  <1> QED BY <1>5, <1>6, <1>8 DEF ConsentInv

LEMMA EndConsent ==
  ASSUME TypeInv, TypeInv', PlaceInv, ConsentInv, Compacts \/ LeavesHistory \/ Announce \/ Finish
  PROVE  ConsentInv'
  <1>1. /\ run \in Sessions /\ UNCHANGED <<ui, grants, consent>>
        /\ run.pc \in Outcome \cup {"finish"}
    BY DEF TypeInv, Compacts, LeavesHistory, Announce, Finish, SessionOnly, Outcome
  <1>2. Sends(Histories)
    <2>1. [type |-> "compacted", messages |-> run.messages] \in Event
      BY <1>1, EventTypes DEF Sessions
    <2> QED BY <2>1 DEF Compacts, LeavesHistory, Announce, Finish, EmitsOrLoses, Emits, Lost,
                        Sends, Histories
  <1>3. \/ run'.pc = "announce" /\ run'.batch = run.batch /\ run.pc = "compact"
        \/ run'.pc = "finish"
        \/ run'.pc = "model" /\ run.batch = "ran" /\ run.pc \in Outcome
        \/ run'.pc = "return" /\ run.pc = "finish"
    <2>1. CASE Compacts
      <3>1. PICK s : run' = [run EXCEPT !.messages = s, !.pc = "announce"]
        BY <2>1, CompactsType
      <3> QED BY <1>1, <2>1, <3>1 DEF Compacts, Sessions
    <2>2. CASE LeavesHistory \/ Announce
      BY <1>1, <2>2, SettledFields, AnnounceSteps DEF LeavesHistory, Announce, Sessions, Outcome
    <2>3. CASE Finish
      BY <2>3, RunFields DEF Finish, Off
    <2> QED BY <2>1, <2>2, <2>3
  <1>4. CASE Denied
    BY <1>1, <1>2, <1>3, <1>4, DeniedStep DEF Denied, Outcome
  <1>5. CASE ~Denied
    BY <1>1, <1>2, <1>3, <1>5, FreeStep DEF Runs, Outcome
  <1> QED BY <1>4, <1>5

LEMMA ReturnConsent ==
  ASSUME TypeInv, TypeInv', ConsentInv, Return
  PROVE  ConsentInv'
  <1>1. /\ run \in Sessions /\ UNCHANGED <<ui, grants, consent>> /\ run.pc = "return"
        /\ run'.pc = "closed" /\ run'.status = run.status
    BY DEF TypeInv, Return, SessionOnly, Go, Sessions
  <1>2. PICK n \in Nat : n = Len(events) /\ DOMAIN events = 1 .. n
    BY Known
  <1>3. \A i \in 1 .. n : events[i].type # "done"
    BY <1>1, <1>2 DEF ConsentInv, DoneInv
  <1>4. Denied'
    BY <1>1 DEF Denied
  <1>5. \/ UNCHANGED events
        \/ /\ DOMAIN events' = 1 .. n + 1 /\ Len(events') = n + 1
           /\ \A i \in 1 .. n : events'[i] = events[i]
           /\ events'[n + 1] = [type |-> "done", ok |-> run.status # "failed"]
    BY <1>2, Known DEF Return, EmitsOrLoses, Emits, Lost
  <1>6. DoneInv'
    <2>1. CASE UNCHANGED events
      BY <1>2, <1>3, <2>1 DEF DoneInv
    <2>2. CASE /\ DOMAIN events' = 1 .. n + 1 /\ Len(events') = n + 1
               /\ \A i \in 1 .. n : events'[i] = events[i]
               /\ events'[n + 1] = [type |-> "done", ok |-> run.status # "failed"]
      <3>1. \A i \in 1 .. n + 1 : events'[i].type = "done" =>
              i = n + 1 /\ events'[i].ok = (run.status # "failed")
        BY <1>3, <2>2
      <3> QED BY <1>1, <2>2, <3>1 DEF DoneInv
    <2> QED BY <1>5, <2>1, <2>2
  <1>7. \A i \in DOMAIN events' : events'[i].type = "prompt" =>
            i \in DOMAIN events /\ events'[i] = events[i]
    BY <1>2, <1>5
  <1>8. PromptInv'
    BY <1>1, <1>4, <1>7 DEF ConsentInv, PromptInv, IsPrompt, Asked
  <1>9. GrantInv' /\ ClearInv'
    BY <1>1 DEF ConsentInv, GrantInv, ClearInv, Runs
  <1> QED BY <1>6, <1>8, <1>9 DEF ConsentInv

\* An event is taken from the channel.
LEMMA TailEvents ==
  ASSUME TypeInv, events # <<>>, events' = Tail(events)
  PROVE  /\ \A i \in DOMAIN events' : i + 1 \in DOMAIN events /\ events'[i] = events[i + 1]
         /\ Len(events') = Len(events) - 1 /\ Head(events) = events[1] /\ 1 \in DOMAIN events
         /\ DOMAIN events' \subseteq Nat
  <1>1. events \in Seq(Event)
    BY DEF TypeInv
  <1> QED BY <1>1

LEMMA DoneIsLast ==
  ASSUME TypeInv, DoneInv, events # <<>>, Head(events).type = "done"
  PROVE  Tail(events) = <<>> /\ (Head(events).ok => run.status # "failed")
  <1>1. events \in Seq(Event) /\ Head(events) = events[1] /\ 1 \in DOMAIN events
    BY Known
  <1>2. 1 = Len(events) /\ (events[1].ok => run.status # "failed")
    BY <1>1 DEF DoneInv
  <1>3. PICK rest \in Seq(Event) : rest = Tail(events) /\ Len(rest) = 0
    <2>1. Tail(events) \in Seq(Event) /\ Len(Tail(events)) = 0
      BY <1>1, <1>2
    <2> QED BY <2>1
  <1>4. rest = <<>>
    BY <1>3
  <1> QED BY <1>1, <1>2, <1>3, <1>4

LEMMA TakenPrompts ==
  ASSUME TypeInv, PromptInv, DoneInv, events # <<>>, events' = Tail(events)
  PROVE  /\ \A i \in DOMAIN events' : events'[i].type = "prompt" =>
                /\ ui.prompt = {} /\ Asked(events'[i].ask)
                /\ Head(events).type # "prompt"
                /\ \A j \in DOMAIN events' : events'[j].type = "prompt" => i = j
         /\ \A i \in DOMAIN events' : events'[i].type = "done" =>
                /\ i = Len(events') /\ run.pc = "closed"
                /\ events'[i].ok => run.status # "failed"
         /\ Head(events).type = "prompt" => ui.prompt = {} /\ Asked(Head(events).ask)
  <1>1. /\ \A i \in DOMAIN events' : /\ i \in Nat /\ i + 1 \in DOMAIN events
                                     /\ events'[i] = events[i + 1]
        /\ Len(events') = Len(events) - 1 /\ Head(events) = events[1] /\ 1 \in DOMAIN events
        /\ Len(events) \in Nat
    BY TailEvents, Known
  <1>2. ASSUME NEW i \in DOMAIN events', events'[i].type = "prompt"
        PROVE  /\ ui.prompt = {} /\ Asked(events'[i].ask)
               /\ Head(events).type # "prompt"
               /\ \A j \in DOMAIN events' : events'[j].type = "prompt" => i = j
    <2>1. IsPrompt(i + 1)
      BY <1>1, <1>2 DEF IsPrompt
    <2>2. /\ ui.prompt = {} /\ Asked(events[i + 1].ask)
          /\ \A j \in DOMAIN events : events[j].type = "prompt" => i + 1 = j
      BY <2>1 DEF PromptInv, IsPrompt
    <2>3. \A j \in DOMAIN events' : events'[j].type = "prompt" => i = j
      BY <1>1, <2>2
    <2>4. Head(events).type # "prompt"
      BY <1>1, <2>2
    <2> QED BY <1>1, <2>2, <2>3, <2>4
  <1>3. \A i \in DOMAIN events' : events'[i].type = "done" =>
                /\ i = Len(events') /\ run.pc = "closed"
                /\ events'[i].ok => run.status # "failed"
    BY <1>1 DEF DoneInv
  <1>4. Head(events).type = "prompt" => ui.prompt = {} /\ Asked(Head(events).ask)
    BY <1>1 DEF PromptInv, IsPrompt
  <1> QED BY <1>2, <1>3, <1>4

LEMMA SubmitConsent ==
  ASSUME TypeInv, TypeInv', PlaceInv, ConsentInv, Submit
  PROVE  ConsentInv'
  <1>1. run.pc = "off"
    BY DEF PlaceInv, Submit
  <1>2. run'.pc = "model" /\ ui'.prompt = ui.prompt /\ UNCHANGED <<events, consent>>
        /\ grants'.run = grants.ui /\ grants'.ui = grants.ui
    BY DEF Submit, Off, TypeInv
  <1>3. \A ask : ~Asked(ask)
    BY <1>1, NobodyAsked DEF Denied, Outcome
  <1>4. PromptInv'
    BY <1>2, <1>3 DEF ConsentInv, PromptInv, IsPrompt
  <1>5. DoneInv'
    BY <1>1, <1>2 DEF ConsentInv, DoneInv
  <1>6. GrantInv' /\ ClearInv'
    BY <1>2 DEF ConsentInv, GrantInv, ClearInv, Runs
  <1> QED BY <1>4, <1>5, <1>6 DEF ConsentInv

\* The chat's grants and its answers: what they do to the session.
LEMMA GrantingHolds ==
  ASSUME TypeInv, GrantInv, consent.all => consent'.all, consent.scopes \subseteq consent'.scopes,
         \/ UNCHANGED grants
         \/ \E g : /\ g.all => consent'.all
                   /\ g.scopes \subseteq consent'.scopes
                   /\ Granting(g)
  PROVE  GrantInv'
  <1>1. CASE UNCHANGED grants
    BY <1>1 DEF GrantInv
  <1>2. CASE \E g : /\ g.all => consent'.all
                    /\ g.scopes \subseteq consent'.scopes
                    /\ Granting(g)
    <2>1. PICK g : /\ g.all => consent'.all
                   /\ g.scopes \subseteq consent'.scopes
                   /\ Granting(g)
      BY <1>2
    <2>2. grants'.ui = g /\ grants'.run \in {g, grants.run}
      BY <2>1 DEF Granting, TypeInv
    <2> QED BY <2>1, <2>2 DEF GrantInv
  <1> QED BY <1>1, <1>2

\* A reply: the session that waits has it, and nobody else is asked.
LEMMA RepliesHolds ==
  ASSUME TypeInv, ClearInv, DoneInv, NEW reply \in {"once", "always", "all", "no"}, Replies(reply),
         consent.all => consent'.all, consent.scopes \subseteq consent'.scopes,
         consent.calls \subseteq consent'.calls,
         run.pc = "wait" =>
            /\ reply = "once" => \A call \in run.ask : call.id \in consent'.calls
            /\ reply = "always" => \A call \in run.ask : call.kind \in consent'.scopes
            /\ reply = "all" => consent'.all
  PROVE  /\ ClearInv' /\ run'.pc = run.pc /\ run'.status = run.status
  <1>1. run \in Sessions
    BY DEF TypeInv
  <1>2. /\ run'.pc = run.pc /\ run'.calls = run.calls /\ run'.ask = run.ask /\ run'.todo = run.todo
        /\ run'.status = run.status /\ run'.reply = IF run.pc = "wait" THEN reply ELSE run.reply
    BY <1>1 DEF Replies, Sessions
  <1>3. \A call : Cleared(call) => Cleared(call)'
    BY DEF Cleared
  <1>4. run.pc \in {"authorize", "wait"} =>
            \A i \in DOMAIN run.calls : Cleared(run.calls[i])' \/ run.calls[i] \in run.ask
    BY <1>2, <1>3 DEF ClearInv, Cleared
  <1>5. run.pc \in Runs => \A i \in DOMAIN run.todo : Cleared(run.todo[i])'
    BY <1>2, <1>3 DEF ClearInv, Cleared
  <1>6. ClearInv'
    BY <1>2, <1>4, <1>5 DEF ClearInv, Cleared
  <1> QED BY <1>2, <1>6

\* The consent grows while the session is left alone.
LEMMA ClearGrows ==
  ASSUME TypeInv, ClearInv, run' = run \/ (\E over : run' = [run EXCEPT !.over = over]),
         consent.all => consent'.all, consent.scopes \subseteq consent'.scopes,
         consent.calls \subseteq consent'.calls
  PROVE  /\ ClearInv' /\ run'.pc = run.pc /\ run'.status = run.status
         /\ \A ask : Asked(ask) <=> Asked(ask)'
  <1>1. run \in Sessions
    BY DEF TypeInv
  <1>2. /\ run'.pc = run.pc /\ run'.calls = run.calls /\ run'.ask = run.ask /\ run'.todo = run.todo
        /\ run'.status = run.status /\ run'.reply = run.reply /\ run'.batch = run.batch
    BY <1>1 DEF Sessions
  <1>3. \A call : Cleared(call) => Cleared(call)'
    BY DEF Cleared
  <1>4. run.pc \in {"authorize", "wait"} =>
            \A i \in DOMAIN run.calls : Cleared(run.calls[i])' \/ run.calls[i] \in run.ask
    BY <1>2, <1>3 DEF ClearInv, Cleared
  <1>5. run.pc \in Runs => \A i \in DOMAIN run.todo : Cleared(run.todo[i])'
    BY <1>2, <1>3 DEF ClearInv, Cleared
  <1>6. ClearInv'
    BY <1>2, <1>4, <1>5 DEF ClearInv, Cleared
  <1>7. \A ask : Asked(ask) <=> Asked(ask)'
    BY <1>2 DEF Asked, Denied
  <1> QED BY <1>2, <1>6, <1>7

LEMMA ReceiveConsent ==
  ASSUME TypeInv, TypeInv', ConsentInv, Receive
  PROVE  ConsentInv'
  <1>1. /\ events # <<>> /\ events' = Tail(events) /\ UNCHANGED <<run, grants, consent>>
        /\ ui'.prompt = ui.prompt
    BY DEF Receive, TypeInv
  <1>2. /\ \A i \in DOMAIN events' : events'[i].type = "prompt" =>
              /\ ui.prompt = {} /\ Asked(events'[i].ask)
              /\ \A j \in DOMAIN events' : events'[j].type = "prompt" => i = j
        /\ \A i \in DOMAIN events' : events'[i].type = "done" =>
              /\ i = Len(events') /\ run.pc = "closed"
              /\ events'[i].ok => run.status # "failed"
    BY <1>1, TakenPrompts DEF ConsentInv
  <1>3. PromptInv'
    BY <1>1, <1>2 DEF ConsentInv, PromptInv, IsPrompt, Asked, Denied
  <1>4. DoneInv'
    BY <1>1, <1>2 DEF DoneInv
  <1>5. GrantInv' /\ ClearInv'
    BY <1>1 DEF ConsentInv, GrantInv, ClearInv, Cleared
  <1> QED BY <1>3, <1>4, <1>5 DEF ConsentInv

LEMMA ReceiveEndConsent ==
  ASSUME TypeInv, TypeInv', ConsentInv, ReceiveDone \/ ReceiveClosed
  PROVE  ConsentInv'
  <1>1. PICK messages : RunOver(messages)
    BY DEF ReceiveDone, ReceiveClosed
  <1>2. events' = <<>>
    <2>1. CASE ReceiveDone
      <3>1. /\ events # <<>> /\ events' = Tail(events) /\ Head(events).type = "done"
            /\ DoneInv
        BY <2>1 DEF ReceiveDone, ConsentInv
      <3> QED BY <3>1, DoneIsLast
    <2>2. CASE ReceiveClosed
      BY <2>2 DEF ReceiveClosed, Closed
    <2> QED BY <2>1, <2>2
  <1>3. /\ run'.pc = "off" /\ ui'.prompt = {}
        /\ grants'.run = NoGrant /\ grants'.ui = grants.ui
        /\ consent'.all = consent.all /\ consent'.scopes = consent.scopes
    BY <1>1 DEF RunOver, Off, TypeInv
  <1>4. PromptInv' /\ DoneInv'
    BY <1>2, <1>3 DEF PromptInv, DoneInv, IsPrompt
  <1>5. GrantInv'
    BY <1>3 DEF ConsentInv, GrantInv, NoGrant
  <1>6. ClearInv'
    BY <1>3 DEF ClearInv, Runs
  <1> QED BY <1>4, <1>5, <1>6 DEF ConsentInv

LEMMA ReceivePromptConsent ==
  ASSUME TypeInv, TypeInv', ConsentInv, ReceivePrompt
  PROVE  ConsentInv'
  <1>1. /\ events # <<>> /\ events' = Tail(events) /\ UNCHANGED <<grants, consent>>
        /\ Head(events).type = "prompt" /\ Head(events) \in Event
    BY NextEvent DEF ReceivePrompt
  <1>2. /\ \A i \in DOMAIN events' : events'[i].type # "prompt"
        /\ \A i \in DOMAIN events' : events'[i].type = "done" =>
              /\ i = Len(events') /\ run.pc = "closed"
              /\ events'[i].ok => run.status # "failed"
        /\ ui.prompt = {} /\ Asked(Head(events).ask)
    BY <1>1, TakenPrompts DEF ConsentInv
  <1>3. GrantInv'
    BY <1>1 DEF ConsentInv, GrantInv
  <1>4. CASE grants.ui.all /\ Replies("all") /\ UNCHANGED ui
    <2>1. consent.all
      BY <1>4 DEF ConsentInv, GrantInv
    <2>2. ClearInv' /\ run'.pc = run.pc /\ run'.status = run.status
      BY <1>1, <1>4, <2>1, RepliesHolds DEF ConsentInv
    <2>3. PromptInv'
      BY <1>2, <1>4 DEF PromptInv, IsPrompt
    <2>4. DoneInv'
      BY <1>2, <2>2 DEF DoneInv
    <2> QED BY <1>3, <2>2, <2>3, <2>4 DEF ConsentInv
  <1>5. CASE ui' = [ui EXCEPT !.prompt = Head(events).ask, !.reading = FALSE] /\ UNCHANGED run
    <2>1. ui'.prompt = Head(events).ask
      BY <1>5 DEF TypeInv
    <2>2. PromptInv'
      BY <1>2, <1>5, <2>1 DEF PromptInv, IsPrompt, Asked, Denied
    <2>3. DoneInv'
      BY <1>2, <1>5 DEF DoneInv
    <2>4. ClearInv'
      BY <1>1, <1>5 DEF ConsentInv, ClearInv, Cleared
    <2> QED BY <1>3, <2>2, <2>3, <2>4 DEF ConsentInv
  <1> QED BY <1>4, <1>5 DEF ReceivePrompt

\* An open prompt is the last, and is closed by its answer.
LEMMA AnswerConsent ==
  ASSUME TypeInv, TypeInv', ConsentInv, ui.prompt # {}, Resolved, UNCHANGED events,
         ClearInv', GrantInv', run'.pc = run.pc, run'.status = run.status
  PROVE  ConsentInv'
  <1>1. \A i \in DOMAIN events : events[i].type # "prompt"
    BY DEF ConsentInv, PromptInv, IsPrompt
  <1>2. ui'.prompt = {}
    BY DEF Resolved, TypeInv
  <1>3. PromptInv'
    BY <1>1, <1>2 DEF PromptInv, IsPrompt
  <1>4. DoneInv'
    BY DEF ConsentInv, DoneInv
  <1> QED BY <1>3, <1>4 DEF ConsentInv

LEMMA OpenPrompt ==
  ASSUME ConsentInv, ui.prompt # {}, run.pc = "wait"
  PROVE  run.ask = ui.prompt
  BY DEF ConsentInv, PromptInv, Asked, Denied, Outcome

LEMMA ApproveConsent ==
  ASSUME TypeInv, TypeInv', ConsentInv, Approve
  PROVE  ConsentInv'
  <1>1. ui.prompt # {} /\ Resolved /\ UNCHANGED events
    BY DEF Approve
  <1>2. run.pc = "wait" => run.ask = ui.prompt
    BY <1>1, OpenPrompt
  <1>3. CASE /\ Replies("once")
             /\ consent' = [consent EXCEPT !.calls = @ \cup {call.id : call \in ui.prompt}]
             /\ UNCHANGED grants
    <2>1. /\ consent'.calls = consent.calls \cup {call.id : call \in ui.prompt}
          /\ consent'.all = consent.all /\ consent'.scopes = consent.scopes
      BY <1>3 DEF TypeInv
    <2>2. ClearInv' /\ run'.pc = run.pc /\ run'.status = run.status
      BY <1>2, <1>3, <2>1, RepliesHolds DEF ConsentInv
    <2>3. GrantInv'
      BY <1>3, <2>1, GrantingHolds DEF ConsentInv
    <2> QED BY <1>1, <2>2, <2>3, AnswerConsent
  <1>4. CASE LET scopes == {call.kind : call \in ui.prompt} IN
             /\ Replies("always")
             /\ Granting([grants.ui EXCEPT !.scopes = @ \cup scopes])
             /\ consent' = [consent EXCEPT !.scopes = @ \cup scopes]
    <2>1. PICK scopes : /\ scopes = {call.kind : call \in ui.prompt}
                        /\ Replies("always")
                        /\ Granting([grants.ui EXCEPT !.scopes = @ \cup scopes])
                        /\ consent' = [consent EXCEPT !.scopes = @ \cup scopes]
      BY <1>4
    <2>2. /\ consent'.scopes = consent.scopes \cup scopes
          /\ consent'.all = consent.all /\ consent'.calls = consent.calls
      BY <2>1 DEF TypeInv
    <2>3. ClearInv' /\ run'.pc = run.pc /\ run'.status = run.status
      BY <1>2, <2>1, <2>2, RepliesHolds DEF ConsentInv
    <2>4. PICK g : g = [grants.ui EXCEPT !.scopes = @ \cup scopes]
      OBVIOUS
    <2>5. (g.all => consent'.all) /\ g.scopes \subseteq consent'.scopes
      BY <2>2, <2>4 DEF ConsentInv, GrantInv, TypeInv, Grants
    <2>6. GrantInv'
      BY <2>1, <2>2, <2>4, <2>5, GrantingHolds DEF ConsentInv
    <2> QED BY <1>1, <2>3, <2>6, AnswerConsent
  <1> QED BY <1>3, <1>4 DEF Approve

LEMMA DenyConsent ==
  ASSUME TypeInv, TypeInv', ConsentInv, Deny
  PROVE  ConsentInv'
  <1>1. ClearInv' /\ run'.pc = run.pc /\ run'.status = run.status
    BY RepliesHolds DEF ConsentInv, Deny
  <1>2. GrantInv'
    BY DEF ConsentInv, GrantInv, Deny
  <1> QED BY <1>1, <1>2, AnswerConsent DEF Deny

LEMMA ToggleConsent ==
  ASSUME TypeInv, TypeInv', ConsentInv, Toggle
  PROVE  ConsentInv'
  <1>1. /\ consent.all => consent'.all
        /\ consent.scopes \subseteq consent'.scopes
        /\ consent.calls \subseteq consent'.calls
        /\ UNCHANGED events /\ GrantInv /\ ClearInv /\ DoneInv
    BY DEF Toggle, TypeInv, ConsentInv
  <1>2. GrantInv'
    <2>1. CASE /\ Granting([grants.ui EXCEPT !.all = TRUE])
               /\ consent' = [consent EXCEPT !.all = TRUE]
      <3>1. PICK g : g = [grants.ui EXCEPT !.all = TRUE]
        OBVIOUS
      <3>2. consent'.all /\ g.scopes \subseteq consent'.scopes
        BY <1>1, <2>1, <3>1 DEF ConsentInv, GrantInv, TypeInv, Grants
      <3>3. Granting(g)
        BY <2>1, <3>1
      <3>4. \E h : (h.all => consent'.all) /\ h.scopes \subseteq consent'.scopes /\ Granting(h)
        BY <3>2, <3>3
      <3> QED BY <1>1, <3>4, GrantingHolds
    <2>2. CASE Granting(NoGrant) /\ UNCHANGED consent
      <3>1. ~NoGrant.all /\ NoGrant.scopes = {}
        BY DEF NoGrant
      <3> QED BY <1>1, <2>2, <3>1, GrantingHolds DEF ConsentInv
    <2> QED BY <2>1, <2>2 DEF Toggle
  <1>3. CASE ui.prompt # {} /\ Replies("all") /\ Resolved /\ consent'.all
    <2>1. ClearInv' /\ run'.pc = run.pc /\ run'.status = run.status
      <3>1. Replies("all") /\ "all" \in {"once", "always", "all", "no"}
        BY <1>3
      <3> QED BY <1>1, <1>3, <3>1, RepliesHolds
    <2> QED BY <1>1, <1>2, <1>3, <2>1, AnswerConsent
  <1>4. CASE UNCHANGED <<run, ui>>
    <2>1. ClearInv'
      BY <1>1, <1>4, ClearGrows
    <2>2. PromptInv' /\ DoneInv'
      BY <1>1, <1>4 DEF ConsentInv, PromptInv, IsPrompt, Asked, Denied, DoneInv
    <2> QED BY <1>2, <2>1, <2>2 DEF ConsentInv
  <1>5. consent' = [consent EXCEPT !.all = TRUE] => consent'.all
    BY DEF TypeInv
  <1> QED BY <1>3, <1>4, <1>5 DEF Toggle

LEMMA CalmConsent ==
  ASSUME TypeInv, TypeInv', ConsentInv,
         ReceiveClosedCompacting \/ Cancel \/ NewChat \/ UNCHANGED vars
  PROVE  ConsentInv'
  <1>1. /\ UNCHANGED <<events, consent>> /\ ui'.prompt = ui.prompt
        /\ run' = run \/ (\E over : run' = [run EXCEPT !.over = over])
        /\ UNCHANGED grants \/ (grants'.run = grants.run /\ grants'.ui = NoGrant)
    BY DEF ReceiveClosedCompacting, Cancel, NewChat, vars, TypeInv
  <1>2. /\ ClearInv' /\ run'.pc = run.pc /\ run'.status = run.status
        /\ \A ask : Asked(ask) <=> Asked(ask)'
    BY <1>1, ClearGrows DEF ConsentInv
  <1>3. GrantInv'
    BY <1>1 DEF ConsentInv, GrantInv, NoGrant
  <1>4. DoneInv'
    BY <1>1, <1>2 DEF ConsentInv, DoneInv
  <1>5. PromptInv'
    <2>1. /\ ui'.prompt # {} => Asked(ui.prompt)'
          /\ \A i \in DOMAIN events : events[i].type = "prompt" =>
                /\ ui'.prompt = {} /\ Asked(events[i].ask)'
                /\ \A j \in DOMAIN events : events[j].type = "prompt" => i = j
      <3>1. ui.prompt # {} => Asked(ui.prompt)
        BY DEF ConsentInv, PromptInv
      <3>2. PICK ask : ask = ui.prompt
        OBVIOUS
      <3>3. ui'.prompt # {} => Asked(ui.prompt)'
        BY <1>1, <1>2, <3>1, <3>2 DEF Asked
      <3>4. ASSUME NEW i \in DOMAIN events, events[i].type = "prompt"
            PROVE  /\ ui'.prompt = {} /\ Asked(events[i].ask)'
                   /\ \A j \in DOMAIN events : events[j].type = "prompt" => i = j
        <4>1. /\ ui.prompt = {} /\ Asked(events[i].ask)
              /\ \A j \in DOMAIN events : events[j].type = "prompt" => i = j
          BY <3>4 DEF ConsentInv, PromptInv, IsPrompt
        <4>2. PICK a : a = events[i].ask
          OBVIOUS
        <4>3. Asked(a)'
          BY <1>2, <4>1, <4>2
        <4> QED BY <1>1, <4>1, <4>2, <4>3 DEF Asked
      <3> QED BY <3>3, <3>4
    <2> QED BY <1>1, <2>1 DEF PromptInv, IsPrompt, Asked
  <1> QED BY <1>2, <1>3, <1>4, <1>5 DEF ConsentInv

LEMMA NextConsent ==
  ASSUME TypeInv, TypeInv', PlaceInv, ConsentInv, [Next]_vars
  PROVE  ConsentInv'
  BY StreamConsent, RefuseConsent, BatchEndsConsent, PlanConsent, AuthorizeConsent,
     TakeReplyConsent, AbortConsent, RunningConsent, EndConsent, ReturnConsent, SubmitConsent,
     ReceiveConsent, ReceiveEndConsent, ReceivePromptConsent, ApproveConsent, DenyConsent,
     ToggleConsent, CalmConsent DEF Next

LEMMA InitConsent ==
  ASSUME Init
  PROVE  ConsentInv
  BY DEF Init, Off, NoGrant, ConsentInv, GrantInv, ClearInv, PromptInv, DoneInv, IsPrompt, Runs

----------------------------------------------------------------------------
(* The turns before the run.                                               *)

\* A beginning, entry by entry.
LEMMA PrefixEntries ==
  ASSUME NEW s \in Seq(Message), NEW t \in Seq(Message)
  PROVE  Prefix(s, t) <=> /\ Len(s) <= Len(t)
                          /\ \A i \in 1 .. Len(s) : s[i] = t[i]
  <1>1. Len(s) \in Nat /\ Len(t) \in Nat
    OBVIOUS
  <1>2. ASSUME Len(s) <= Len(t)
        PROVE  /\ SubSeq(t, 1, Len(s)) \in Seq(Message) /\ Len(SubSeq(t, 1, Len(s))) = Len(s)
               /\ \A i \in 1 .. Len(s) : SubSeq(t, 1, Len(s))[i] = t[i]
    BY <1>1, <1>2
  <1>3. ASSUME Len(s) <= Len(t), \A i \in 1 .. Len(s) : s[i] = t[i]
        PROVE  s = SubSeq(t, 1, Len(s))
    <2>1. PICK u \in Seq(Message) : u = SubSeq(t, 1, Len(s))
      BY <1>2, <1>3
    <2>2. Len(u) = Len(s) /\ \A i \in 1 .. Len(s) : u[i] = s[i]
      BY <1>2, <1>3, <2>1
    <2>3. u = s
      BY <2>2
    <2> QED BY <2>1, <2>3
  <1>4. ASSUME Len(s) <= Len(t), s = SubSeq(t, 1, Len(s))
        PROVE  \A i \in 1 .. Len(s) : s[i] = t[i]
    BY <1>2, <1>4
  <1> QED BY <1>3, <1>4 DEF Prefix

LEMMA PrefixSelf ==
  ASSUME NEW s \in Seq(Message)
  PROVE  Prefix(s, s)
  BY PrefixEntries

LEMMA PrefixJoin ==
  ASSUME NEW s \in Seq(Message), NEW t \in Seq(Message), NEW u \in Seq(Message), Prefix(s, t)
  PROVE  Prefix(s, t \o u)
  <1>1. Len(s) <= Len(t) /\ \A i \in 1 .. Len(s) : s[i] = t[i]
    BY PrefixEntries
  <1>2. t \o u \in Seq(Message) /\ Len(t \o u) = Len(t) + Len(u)
        /\ \A i \in 1 .. Len(t) : (t \o u)[i] = t[i]
    OBVIOUS
  <1>3. Len(s) \in Nat /\ Len(t) \in Nat /\ Len(u) \in Nat
    OBVIOUS
  <1>4. PICK v \in Seq(Message) : v = t \o u
    BY <1>2
  <1>5. Len(s) <= Len(v) /\ \A i \in 1 .. Len(s) : s[i] = v[i]
    BY <1>1, <1>2, <1>3, <1>4
  <1> QED BY <1>4, <1>5, PrefixEntries

LEMMA PrefixAppend ==
  ASSUME NEW s \in Seq(Message), NEW t \in Seq(Message), NEW m \in Message, Prefix(s, t)
  PROVE  Prefix(s, Append(t, m))
  <1>1. Len(s) <= Len(t) /\ \A i \in 1 .. Len(s) : s[i] = t[i]
    BY PrefixEntries
  <1>2. PICK v \in Seq(Message) : v = Append(t, m)
    <2>1. Append(t, m) \in Seq(Message)
      OBVIOUS
    <2> QED BY <2>1
  <1>3. Len(v) = Len(t) + 1 /\ Len(s) \in Nat /\ Len(t) \in Nat
        /\ \A i \in 1 .. Len(t) : v[i] = t[i]
    BY <1>2
  <1>4. Len(s) <= Len(v) /\ \A i \in 1 .. Len(s) : s[i] = v[i]
    BY <1>1, <1>3
  <1> QED BY <1>2, <1>4, PrefixEntries

\* The beginning that the chat's live history has ends in a message that is not continued.
LEMMA PrefixSpoken ==
  ASSUME NEW s \in Seq(Message), NEW t \in Seq(Message), NEW text \in BOOLEAN,
         NEW ids \in Seq(CallIds), Prefix(s, t), s # <<>>, s[Len(s)].role # "assistant"
  PROVE  Prefix(s, Spoken(t, text, ids))
  <1>1. Len(s) <= Len(t) /\ \A i \in 1 .. Len(s) : s[i] = t[i]
    BY PrefixEntries
  <1>2. PICK n \in Nat : n = Len(t) /\ DOMAIN t = 1 .. n
    OBVIOUS
  <1>3. PICK k \in Nat : k = Len(s) /\ k > 0
    OBVIOUS
  <1>4. CASE n > 0 /\ t[n].role = "assistant"
    <2>1. k < n
      BY <1>1, <1>2, <1>3, <1>4
    <2>2. PICK m : Spoken(t, text, ids) = [t EXCEPT ![n] = m]
      BY <1>2, <1>4 DEF Spoken
    <2>3. PICK v \in Seq(Message) : v = Spoken(t, text, ids)
      BY SpokenType
    <2>4. \A i \in 1 .. k : v[i] = t[i]
      BY <1>2, <2>1, <2>2, <2>3
    <2>5. Len(v) = n
      <3>1. DOMAIN v = 1 .. n
        BY <1>2, <2>2, <2>3
      <3> QED BY <3>1
    <2>6. Len(s) <= Len(v) /\ \A i \in 1 .. Len(s) : s[i] = v[i]
      BY <1>1, <1>3, <2>1, <2>4, <2>5
    <2> QED BY <2>3, <2>6, PrefixEntries
  <1>5. CASE ~(n > 0 /\ t[n].role = "assistant")
    <2>1. Spoken(t, text, ids) = Append(t, Assistant(text, ids))
      BY <1>2, <1>5 DEF Spoken
    <2> QED BY <2>1, PrefixAppend, Messages
  <1> QED BY <1>4, <1>5

\* What a session's history may become, from a beginning b.
From(b, s) == Prefix(b, s) \/ Prefix(Summary, s)

LEMMA FromJoin ==
  ASSUME NEW b \in Seq(Message), NEW s \in Seq(Message), NEW t \in Seq(Message),
         NEW m \in Message, From(b, s)
  PROVE  From(b, s \o t) /\ From(b, Append(s, m))
  BY PrefixJoin, PrefixAppend, Messages DEF From

\* The histories and the beginnings are sequences of messages.
LEMMA KnownHistories ==
  ASSUME TypeInv
  PROVE  /\ run.messages \in Seq(Message) /\ run.persisted \in Seq(Message)
         /\ ui.messages \in Seq(Message) /\ ui.live \in Seq(Message)
         /\ Summary \in Seq(Message)
  BY Messages DEF TypeInv, Sessions

LEMMA SessionKeeps ==
  ASSUME TypeInv, PlaceInv, KeepInv, UNCHANGED ui, run.pc # "off", run'.pc # "off",
         run'.persisted = run.persisted,
         run'.status = "failed" => run'.pc \in {"return", "closed"},
         run'.status # "failed" => From(run.persisted, run'.messages),
         run'.pc = "announce" => Prefix(Summary, run'.messages),
         \/ UNCHANGED events
         \/ \E e \in Event : /\ e.type = "compacted" => Prefix(Summary, e.messages)
                             /\ events' = Append(events, e)
  PROVE  KeepInv'
  <1>1. /\ events \in Seq(Event) /\ Len(events) \in Nat
        /\ DOMAIN events = 1 .. Len(events)
    BY Known
  <1>2. \A i \in DOMAIN events' : events'[i].type = "compacted" => Prefix(Summary, events'[i].messages)
    <2>1. CASE UNCHANGED events
      BY <2>1 DEF KeepInv
    <2>2. CASE \E e \in Event : /\ e.type = "compacted" => Prefix(Summary, e.messages)
                               /\ events' = Append(events, e)
      <3>1. PICK e \in Event : /\ e.type = "compacted" => Prefix(Summary, e.messages)
                               /\ events' = Append(events, e)
        BY <2>2
      <3>3. PICK n \in Nat : n = Len(events) /\ DOMAIN events = 1 .. n
        BY <1>1
      <3>4. PICK s \in Seq(Event) : s = events
        BY <1>1
      <3>5. /\ DOMAIN Append(s, e) = 1 .. n + 1 /\ Append(s, e)[n + 1] = e
            /\ \A i \in 1 .. n : Append(s, e)[i] = s[i]
        BY <3>3, <3>4
      <3>6. /\ DOMAIN events' = 1 .. n + 1 /\ events'[n + 1] = e
            /\ \A i \in 1 .. n : events'[i] = events[i]
        BY <3>1, <3>4, <3>5
      <3>2. \A i \in DOMAIN events' : events'[i] = e \/ (i \in DOMAIN events /\ events'[i] = events[i])
        BY <3>3, <3>6
      <3> QED BY <3>1, <3>2 DEF KeepInv
    <2> QED BY <2>1, <2>2
  <1>3. /\ run'.persisted # <<>> /\ run'.persisted[Len(run'.persisted)] = User
        /\ ui'.running /\ ui'.asked =>
              /\ Kept(ui'.live)
              /\ Prefix(Before, ui'.messages) \/ Prefix(Summary, ui'.messages)
    BY DEF KeepInv
  <1>4. run'.status # "failed" => Kept(run.messages)'
    BY DEF Kept, From
  <1>5. ui'.running /\ ui'.asked =>
              /\ Kept(ui.live)'
              /\ (Prefix(Before, ui.messages) \/ Prefix(Summary, ui.messages))'
    BY <1>3 DEF Kept, Before
  <1> QED BY <1>2, <1>3, <1>4, <1>5 DEF KeepInv

\* The session knows nothing of its end before it returns.
LEMMA Going ==
  ASSUME KeepInv, run.pc \notin {"off", "return", "closed"}
  PROVE  run.status # "failed" /\ From(run.persisted, run.messages)
  BY DEF KeepInv, Kept, From

LEMMA FailsFields ==
  ASSUME TypeInv
  PROVE  /\ Fails.pc = "return" /\ Fails.status = "failed" /\ Fails.persisted = run.persisted
         /\ \A pc : /\ Go(pc).pc = pc /\ Go(pc).status = run.status
                    /\ Go(pc).persisted = run.persisted /\ Go(pc).messages = run.messages
  <1>1. run \in Sessions
    BY DEF TypeInv
  <1> QED BY <1>1 DEF Sessions, Go, Fails, Off

LEMMA FailsKeeps ==
  ASSUME TypeInv, PlaceInv, KeepInv, run' = Fails, UNCHANGED ui, run.pc # "off",
         \/ UNCHANGED events
         \/ \E e \in Event : e.type # "compacted" /\ events' = Append(events, e)
  PROVE  KeepInv'
  <1>1. /\ run'.pc = "return" /\ run'.status = "failed" /\ run'.persisted = run.persisted
    BY FailsFields
  <1> QED BY <1>1, SessionKeeps

\* A step that leaves the history of the session as it is.
LEMMA IdleKeeps ==
  ASSUME TypeInv, PlaceInv, KeepInv, UNCHANGED ui,
         run.pc \notin {"off", "return", "closed"}, run'.pc \notin {"off", "announce"},
         run'.persisted = run.persisted, run'.messages = run.messages, run'.status # "failed",
         \/ UNCHANGED events
         \/ \E e \in Event : /\ e.type = "compacted" => Prefix(Summary, e.messages)
                             /\ events' = Append(events, e)
  PROVE  KeepInv'
  <1>1. From(run.persisted, run'.messages)
    BY Going
  <1> QED BY <1>1, SessionKeeps

LEMMA AnsweredKeeps ==
  ASSUME TypeInv, PlaceInv, KeepInv, UNCHANGED ui, run.pc = "model",
         NEW text \in BOOLEAN, NEW calls \in Seq(Call), NEW canceled \in BOOLEAN,
         Answered(text, calls, canceled),
         \/ UNCHANGED events
         \/ \E e \in Event : e.type # "compacted" /\ events' = Append(events, e)
  PROVE  KeepInv'
  <1>1. /\ run'.pc \in {"compact", "cancel", "disable", "limit", "plan"}
        /\ run'.status = run.status /\ run'.persisted = run.persisted
        /\ run'.messages = IF text \/ calls # <<>>
                           THEN Append(run.messages, Assistant(text, Ids(calls))) ELSE run.messages
    BY AnsweredPlace, RoutePlaces
  <1>2. run.status # "failed" /\ From(run.persisted, run.messages)
    BY Going
  <1>3. PICK m \in Message : m = Assistant(text, Ids(calls))
    BY IdsType, Messages
  <1>4. From(run.persisted, Append(run.messages, m))
    BY <1>2, FromJoin, KnownHistories
  <1>5. From(run.persisted, run'.messages)
    BY <1>1, <1>2, <1>3, <1>4
  <1> QED BY <1>1, <1>2, <1>5, SessionKeeps

LEMMA StreamKeeps ==
  ASSUME TypeInv, PlaceInv, KeepInv,
         StreamText \/ StreamCalls \/ StreamEnds \/ StreamFails \/ StreamBreaks
  PROVE  KeepInv'
  <1>1. run \in Sessions /\ run.pc = "model" /\ UNCHANGED ui
    BY DEF TypeInv, StreamText, StreamCalls, StreamEnds, StreamFails, StreamBreaks, SessionOnly
  <1>2. run.status # "failed" /\ From(run.persisted, run.messages)
    BY <1>1, Going
  <1>3. CASE StreamText
    <2>1. [type |-> "text"] \in Event
      BY EventTypes
    <2>2. CASE run' = [run EXCEPT !.text = TRUE]
      <3>1. /\ run'.pc = "model" /\ run'.status = run.status
            /\ run'.persisted = run.persisted /\ run'.messages = run.messages
        BY <1>1, <2>2 DEF Sessions
      <3>2. UNCHANGED events \/ events' = Append(events, [type |-> "text"])
        BY <1>3 DEF StreamText, Emits, Lost
      <3> QED BY <1>1, <1>2, <2>1, <3>1, <3>2, IdleKeeps
    <2>3. CASE UNCHANGED events /\ Answered(TRUE, <<>>, TRUE)
      <3>1. <<>> \in Seq(Call)
        OBVIOUS
      <3> QED BY <1>1, <2>3, <3>1, AnsweredKeeps
    <2> QED BY <1>3, <2>2, <2>3 DEF StreamText, Lost
  <1>4. CASE StreamCalls
    <2>1. PICK b \in Batches :
            /\ bounds.calls + Len(b) <= MaxCalls
            /\ \/ /\ Emits([type |-> "calls", calls |-> Ids(Batch(b))])
                  /\ run' = [run EXCEPT !.calls = Batch(b)]
               \/ Lost /\ Answered(run.text, Batch(b), TRUE)
      BY <1>4 DEF StreamCalls, Batch
    <2>2. Batch(b) \in Seq(Call) /\ run.text \in BOOLEAN
      BY <1>1, <2>1, BatchType DEF Sessions
    <2>3. CASE /\ Emits([type |-> "calls", calls |-> Ids(Batch(b))])
               /\ run' = [run EXCEPT !.calls = Batch(b)]
      <3>1. /\ run'.pc = "model" /\ run'.status = run.status
            /\ run'.persisted = run.persisted /\ run'.messages = run.messages
        BY <1>1, <2>3 DEF Sessions
      <3>2. PICK e \in Event : e = [type |-> "calls", calls |-> Ids(Batch(b))]
        BY <2>2, IdsType, EventTypes
      <3>3. e.type = "calls" /\ events' = Append(events, e)
        BY <2>3, <3>2 DEF Emits
      <3> QED BY <1>1, <1>2, <3>1, <3>3, IdleKeeps
    <2>4. CASE Lost /\ Answered(run.text, Batch(b), TRUE)
      BY <1>1, <2>2, <2>4, AnsweredKeeps DEF Lost
    <2> QED BY <2>1, <2>3, <2>4
  <1>5. CASE StreamEnds
    <2>1. PICK canceled \in BOOLEAN : Answered(run.text, run.calls, canceled)
      BY <1>1, <1>5 DEF StreamEnds, Sessions
    <2>2. run.calls \in Seq(Call) /\ run.text \in BOOLEAN /\ UNCHANGED events
      BY <1>1, <1>5 DEF Sessions, StreamEnds
    <2> QED BY <1>1, <2>1, <2>2, AnsweredKeeps
  <1>6. CASE StreamFails
    <2>1. /\ run'.pc = "model" /\ run'.status = run.status
          /\ run'.persisted = run.persisted /\ run'.messages = Append(run.messages, User)
      BY <1>1, <1>6 DEF StreamFails, Sessions
    <2>2. From(run.persisted, Append(run.messages, User))
      BY <1>2, FromJoin, KnownHistories, Messages
    <2>3. From(run.persisted, run'.messages)
      BY <2>1, <2>2
    <2> QED BY <1>1, <1>2, <1>6, <2>1, <2>3, SessionKeeps DEF StreamFails
  <1>7. CASE StreamBreaks
    BY <1>1, <1>7, FailsKeeps DEF StreamBreaks
  <1> QED BY <1>3, <1>4, <1>5, <1>6, <1>7

\* The steps that leave the history alone or end the run without it.
LEMMA QuietKeeps ==
  ASSUME TypeInv, PlaceInv, KeepInv,
         \/ Refuse \/ Plan \/ Authorize \/ TakeReply \/ PromptAborts
         \/ ExecNext \/ CallUnknown \/ CallStarts \/ CallEnds
  PROVE  KeepInv'
  <1>1. /\ run \in Sessions /\ UNCHANGED ui
        /\ run.pc \in Refusals \cup Asks \cup Runs
    BY DEF TypeInv, Refuse, Plan, Authorize, TakeReply, PromptAborts, ExecNext, CallUnknown,
           CallStarts, CallEnds, SessionOnly, Asks, Runs
  <1>2. run.pc \notin {"off", "return", "closed"}
    BY <1>1 DEF Refusals, Asks, Runs
  <1>3. run.status # "failed"
    BY <1>2, Going
  <1>4. \/ UNCHANGED events
        \/ \E e \in Event : e.type # "compacted" /\ events' = Append(events, e)
    <2>1. CASE Refuse
      <3>1. PICK e \in Event : e = [type |-> "tool", call |-> Head(run.todo).id, body |-> "notice"]
        BY <2>1, TodoType, EventTypes DEF Refuse
      <3>2. events' \in {events, Append(events, e)}
        BY <2>1, <3>1 DEF Refuse, Emits, Lost
      <3> QED BY <3>1, <3>2
    <2>2. CASE CallUnknown \/ CallEnds
      <3>1. PICK body \in Bodies :
              EmitsOrLoses([type |-> "tool", call |-> Head(run.todo).id, body |-> body])
        BY <2>2 DEF CallUnknown, CallEnds, EmitsOrLoses
      <3>2. run.todo # <<>>
        BY <2>2 DEF PlaceInv, CallUnknown, CallEnds
      <3>3. PICK e \in Event : e = [type |-> "tool", call |-> Head(run.todo).id, body |-> body]
        BY <3>2, TodoType, EventTypes
      <3>4. events' \in {events, Append(events, e)}
        BY <3>1, <3>3 DEF EmitsOrLoses, Emits, Lost
      <3> QED BY <3>3, <3>4
    <2>3. CASE Authorize
      <3>1. PICK e \in Event : e = [type |-> "prompt", ask |-> run.ask]
        BY <1>1, EventTypes DEF Sessions
      <3>2. events' \in {events, Append(events, e)}
        BY <2>3, <3>1 DEF Authorize, Emits, Lost
      <3> QED BY <3>1, <3>2
    <2>4. CASE Plan \/ TakeReply \/ PromptAborts \/ ExecNext \/ CallStarts
      BY <2>4 DEF Plan, TakeReply, PromptAborts, ExecNext, CallStarts
    <2> QED BY <2>1, <2>2, <2>3, <2>4
  <1>5. \/ run' = Fails
        \/ /\ run'.pc \notin {"off", "announce"} /\ run'.status = run.status
           /\ run'.persisted = run.persisted /\ run'.messages = run.messages
    <2>1. CASE Refuse
      BY <1>1, <2>1 DEF Refuse, Sessions, Refusals
    <2>2. CASE Plan
      BY <1>1, <2>2 DEF Plan, Sessions
    <2>3. CASE Authorize
      <3>1. \/ run' = Go("exec") \/ run' = Go("deny")
            \/ run' = [run EXCEPT !.pc = "wait", !.reply = "none"]
        BY <2>3 DEF Authorize
      <3>2. CASE run' = [run EXCEPT !.pc = "wait", !.reply = "none"]
        BY <1>1, <3>2 DEF Sessions
      <3> QED BY <3>1, <3>2, FailsFields
    <2>4. CASE TakeReply
      BY <1>1, <2>4 DEF TakeReply, Sessions
    <2>5. CASE PromptAborts \/ ExecNext \/ CallStarts
      BY <2>5, FailsFields DEF PromptAborts, ExecNext, CallStarts
    <2>6. CASE CallUnknown \/ CallEnds
      <3>1. run' = Fails \/ \E body, pc : pc \in {"exec", "rest"} /\ run' = Took(body, pc)
        BY <2>6 DEF CallUnknown, CallEnds
      <3>2. ASSUME NEW body, NEW pc \in {"exec", "rest"}, run' = Took(body, pc)
            PROVE  /\ run'.pc = pc /\ run'.status = run.status
                   /\ run'.persisted = run.persisted /\ run'.messages = run.messages
        BY <1>1, <3>2 DEF Took, Sessions
      <3> QED BY <3>1, <3>2
    <2> QED BY <2>1, <2>2, <2>3, <2>4, <2>5, <2>6
  <1>6. CASE run' = Fails
    BY <1>1, <1>2, <1>4, <1>6, FailsKeeps
  <1>7. CASE /\ run'.pc \notin {"off", "announce"} /\ run'.status = run.status
             /\ run'.persisted = run.persisted /\ run'.messages = run.messages
    BY <1>1, <1>2, <1>3, <1>4, <1>7, IdleKeeps
  <1> QED BY <1>5, <1>6, <1>7

LEMMA BatchEndsKeeps ==
  ASSUME TypeInv, PlaceInv, KeepInv, BatchEnds
  PROVE  KeepInv'
  <1>1. run \in Sessions /\ UNCHANGED <<ui, events>>
    BY DEF TypeInv, BatchEnds, SessionOnly
  <1>2. run.pc \in {"cancel", "limit", "disable", "exec", "deny", "rest"}
    BY DEF BatchEnds
  <1>3. run.status # "failed" /\ From(run.persisted, run.messages)
    BY <1>2, Going
  <1>4. PICK messages \in Seq(Message) : messages = run.messages \o run.results
    <2>1. run.messages \in Seq(Message) /\ run.results \in Seq(Message)
      BY <1>1, AnswersAreMessages DEF Sessions
    <2>2. run.messages \o run.results \in Seq(Message)
      BY <2>1
    <2> QED BY <2>2
  <1>5. From(run.persisted, messages)
    <2>1. run.messages \in Seq(Message) /\ run.results \in Seq(Message)
          /\ run.persisted \in Seq(Message)
      BY <1>1, AnswersAreMessages DEF Sessions
    <2>2. From(run.persisted, run.messages \o run.results)
      BY <1>3, <2>1, FromJoin, Messages
    <2> QED BY <1>4, <2>2
  <1>6. /\ run'.pc \in {"finish", "compact"} /\ run'.status \in {run.status, "canceled", "error"}
        /\ run'.persisted = run.persisted /\ run'.messages = messages
    <2>1. \/ \E end : /\ end \in {<<"cancel", "canceled">>, <<"limit", "error">>}
                      /\ run' = [run EXCEPT !.messages = messages, !.pc = "finish",
                                            !.status = end[2]]
          \/ \E end : run' = [run EXCEPT !.messages = messages, !.pc = "compact",
                                         !.batch = end[2]]
      BY <1>4 DEF BatchEnds
    <2>2. ASSUME NEW status \in {"canceled", "error"},
                 run' = [run EXCEPT !.messages = messages, !.pc = "finish", !.status = status]
          PROVE  /\ run'.pc = "finish" /\ run'.status = status
                 /\ run'.persisted = run.persisted /\ run'.messages = messages
      BY <1>1, <2>2 DEF Sessions
    <2>3. ASSUME NEW batch,
                 run' = [run EXCEPT !.messages = messages, !.pc = "compact", !.batch = batch]
          PROVE  /\ run'.pc = "compact" /\ run'.status = run.status
                 /\ run'.persisted = run.persisted /\ run'.messages = messages
      BY <1>1, <2>3 DEF Sessions
    <2>4. CASE \E end : /\ end \in {<<"cancel", "canceled">>, <<"limit", "error">>}
                        /\ run' = [run EXCEPT !.messages = messages, !.pc = "finish",
                                              !.status = end[2]]
      <3>1. PICK end : /\ end \in {<<"cancel", "canceled">>, <<"limit", "error">>}
                       /\ run' = [run EXCEPT !.messages = messages, !.pc = "finish",
                                             !.status = end[2]]
        BY <2>4
      <3>2. PICK status \in {"canceled", "error"} : status = end[2]
        BY <3>1
      <3>3. run' = [run EXCEPT !.messages = messages, !.pc = "finish", !.status = status]
        BY <3>1, <3>2
      <3> QED BY <2>2, <3>3
    <2>5. CASE \E end : run' = [run EXCEPT !.messages = messages, !.pc = "compact",
                                           !.batch = end[2]]
      BY <2>3, <2>5
    <2> QED BY <2>1, <2>4, <2>5
  <1>7. From(run.persisted, run'.messages)
    BY <1>5, <1>6
  <1> QED BY <1>1, <1>2, <1>3, <1>6, <1>7, SessionKeeps

LEMMA EndKeeps ==
  ASSUME TypeInv, PlaceInv, KeepInv,
         Compacts \/ LeavesHistory \/ Announce \/ Finish \/ Return
  PROVE  KeepInv'
  <1>1. run \in Sessions /\ UNCHANGED ui /\ run.messages \in Seq(Message)
    BY DEF TypeInv, Compacts, LeavesHistory, Announce, Finish, Return, SessionOnly, Sessions
  <1>2. CASE Compacts
    <2>1. PICK s \in Seq(Message) : run' = [run EXCEPT !.messages = Summary \o s, !.pc = "announce"]
      BY <1>2, CompactsType
    <2>2. /\ run'.pc = "announce" /\ run'.status = run.status
          /\ run'.persisted = run.persisted /\ run'.messages = Summary \o s
      BY <1>1, <2>1 DEF Sessions
    <2>3. Prefix(Summary, Summary \o s)
      BY PrefixSelf, PrefixJoin, Messages
    <2>4. Prefix(Summary, run'.messages)
      BY <2>2, <2>3
    <2>5. run.pc = "compact" /\ UNCHANGED events
      BY <1>2 DEF Compacts
    <2>6. run.status # "failed"
      BY <2>5, Going
    <2>7. From(run.persisted, run'.messages)
      BY <2>4 DEF From
    <2> QED BY <1>1, <2>2, <2>4, <2>5, <2>6, <2>7, SessionKeeps
  <1>3. CASE LeavesHistory \/ Announce
    <2>1. run.pc \in {"compact", "announce"}
      BY <1>3 DEF LeavesHistory, Announce
    <2>2. run.status # "failed" /\ From(run.persisted, run.messages)
      BY <2>1, Going
    <2>3. /\ run'.pc \in {"finish", "model"} /\ run'.status # "failed"
          /\ run'.persisted = run.persisted /\ run'.messages = run.messages
      <3>1. CASE run' = Settled
        <4>1. Ends # "failed"
          BY <1>1 DEF Ends, Sessions
        <4> QED BY <1>1, <2>2, <3>1, <4>1, SettledFields
      <3>2. CASE run' = [run EXCEPT !.pc = "finish", !.status = "error"]
        BY <1>1, <3>2 DEF Sessions
      <3> QED BY <1>3, <3>1, <3>2, AnnounceSteps DEF LeavesHistory
    <2>4. \/ UNCHANGED events
          \/ \E e \in Event : /\ e.type = "compacted" => Prefix(Summary, e.messages)
                              /\ events' = Append(events, e)
      <3>1. CASE UNCHANGED events
        BY <3>1
      <3>2. CASE Announce
        <4>1. Prefix(Summary, run.messages)
          BY <3>2 DEF Announce, KeepInv
        <4>2. PICK e \in Event : e = [type |-> "compacted", messages |-> run.messages]
          BY <1>1, EventTypes
        <4>3. events' \in {events, Append(events, e)}
          BY <3>2, <4>2 DEF Announce, EmitsOrLoses, Emits, Lost
        <4>4. e.messages = run.messages
          BY <4>2
        <4> QED BY <4>1, <4>3, <4>4
      <3> QED BY <1>3, <3>1, <3>2 DEF LeavesHistory
    <2> QED BY <1>1, <2>1, <2>3, <2>4, IdleKeeps
  <1>4. CASE Finish
    <2>1. run.pc = "finish" /\ UNCHANGED events
      BY <1>4 DEF Finish
    <2>2. run.status # "failed" /\ From(run.persisted, run.messages)
      BY <2>1, Going
    <2>3. CASE run' = Fails
      BY <1>1, <2>1, <2>3, FailsKeeps
    <2>4. CASE run' = [Off EXCEPT !.pc = "return", !.status = run.status, !.over = run.over,
                            !.messages = run.messages, !.persisted = run.persisted]
      <3>1. /\ run'.pc = "return" /\ run'.status = run.status
            /\ run'.persisted = run.persisted /\ run'.messages = run.messages
        BY <2>4 DEF Off
      <3> QED BY <1>1, <2>1, <2>2, <3>1, IdleKeeps
    <2> QED BY <1>4, <2>3, <2>4 DEF Finish
  <1>5. CASE Return
    <2>1. run.pc = "return"
      BY <1>5 DEF Return
    <2>2. /\ run'.pc = "closed" /\ run'.status = run.status
          /\ run'.persisted = run.persisted /\ run'.messages = run.messages
      BY <1>5, FailsFields DEF Return
    <2>3. PICK e \in Event : e.type = "done" /\ events' \in {events, Append(events, e)}
      <3>1. PICK ok \in BOOLEAN : EmitsOrLoses([type |-> "done", ok |-> ok])
        BY <1>5 DEF Return
      <3>2. PICK e \in Event : e = [type |-> "done", ok |-> ok]
        BY EventTypes
      <3> QED BY <3>1, <3>2 DEF EmitsOrLoses, Emits, Lost
    <2>4. run'.status # "failed" => From(run.persisted, run'.messages)
      BY <2>1, <2>2 DEF KeepInv, Kept, From
    <2> QED BY <1>1, <2>1, <2>2, <2>3, <2>4, SessionKeeps
  <1> QED BY <1>2, <1>3, <1>4, <1>5

\* A step of the chat's that leaves the session's history and the channel as they are, or takes
\* an event away.
LEMMA ChatKeeps ==
  ASSUME TypeInv, PlaceInv, KeepInv,
         UNCHANGED events \/ (events # <<>> /\ events' = Tail(events)),
         run'.pc = run.pc, run'.status = run.status,
         run'.persisted = run.persisted, run'.messages = run.messages,
         ui'.running /\ ui'.asked =>
              /\ From(run.persisted, ui'.live)
              /\ Prefix(Before, ui'.messages) \/ Prefix(Summary, ui'.messages)
  PROVE  KeepInv'
  <1>1. \A i \in DOMAIN events' : \E j \in DOMAIN events : events'[i] = events[j]
    <2>1. CASE UNCHANGED events
      BY <2>1
    <2>2. CASE events # <<>> /\ events' = Tail(events)
      BY <2>2, TailEvents
    <2> QED BY <2>1, <2>2
  <1>2. \A i \in DOMAIN events' : events'[i].type = "compacted" =>
            Prefix(Summary, events'[i].messages)
    BY <1>1 DEF KeepInv
  <1>3. ui'.running /\ ui'.asked =>
              /\ Kept(ui.live)'
              /\ (Prefix(Before, ui.messages) \/ Prefix(Summary, ui.messages))'
    BY DEF Kept, Before, From
  <1>4. /\ run'.status = "failed" => run'.pc \in {"return", "closed"}
        /\ run'.pc # "off" => run'.persisted # <<>> /\ run'.persisted[Len(run'.persisted)] = User
        /\ run'.pc = "announce" => Prefix(Summary, run'.messages)
    BY DEF KeepInv
  <1>5. run'.pc # "off" /\ run'.status # "failed" => Kept(run.messages)'
    BY DEF KeepInv, Kept
  <1> QED BY <1>2, <1>3, <1>4, <1>5 DEF KeepInv

\* The chat goes on with a live history: what it began with stays.
LEMMA LiveKeeps ==
  ASSUME TypeInv, KeepInv, run.pc # "off", ui.running, ui.asked
  PROVE  /\ \A text \in BOOLEAN : \A ids \in Seq(CallIds) :
                From(run.persisted, Spoken(ui.live, text, ids))
         /\ \A m \in Message : From(run.persisted, Append(ui.live, m))
  <1>1. From(run.persisted, ui.live)
    BY DEF KeepInv, Kept, From
  <1>2. run.persisted # <<>> /\ run.persisted[Len(run.persisted)].role # "assistant"
    BY DEF KeepInv, User
  <1>3. Summary # <<>> /\ Summary[Len(Summary)].role # "assistant"
    <2>1. PICK s \in Seq(Message) : s = Summary
      BY Messages
    <2>2. Len(s) = 2 /\ s[2].role = "tool"
      BY <2>1, Messages
    <2>3. s # <<>>
      <3>1. SUFFICES ASSUME s = <<>>
                     PROVE  FALSE
        OBVIOUS
      <3>2. Len(s) = 0
        BY <3>1
      <3> QED BY <2>2, <3>2
    <2> QED BY <2>1, <2>2, <2>3
  <1>4. ASSUME NEW text \in BOOLEAN, NEW ids \in Seq(CallIds)
        PROVE  From(run.persisted, Spoken(ui.live, text, ids))
    <2>1. CASE Prefix(run.persisted, ui.live)
      BY <1>2, <2>1, KnownHistories, PrefixSpoken DEF From
    <2>2. CASE Prefix(Summary, ui.live)
      BY <1>3, <2>2, KnownHistories, PrefixSpoken DEF From
    <2> QED BY <1>1, <2>1, <2>2 DEF From
  <1>5. ASSUME NEW m \in Message
        PROVE  From(run.persisted, Append(ui.live, m))
    BY <1>1, KnownHistories, FromJoin
  <1> QED BY <1>4, <1>5

LEMMA ReceiveKeeps ==
  ASSUME TypeInv, PlaceInv, KeepInv, Receive
  PROVE  KeepInv'
  <1>1. /\ events # <<>> /\ events' = Tail(events) /\ run' = run
        /\ ui.running /\ run.pc # "off"
    BY DEF Receive, PlaceInv
  <1>2. PICK e \in Event : e = Head(events)
    BY <1>1, NextEvent
  <1>3. e.type = "compacted" => Prefix(Summary, e.messages)
    <2>1. e = events[1] /\ 1 \in DOMAIN events
      BY <1>1, <1>2, TailEvents
    <2> QED BY <2>1 DEF KeepInv
  <1>4. /\ ui'.running = ui.running /\ ui'.asked = ui.asked
        /\ \/ /\ ui'.messages = ui.messages
              /\ \/ \E text \in BOOLEAN, ids \in Seq(CallIds) :
                       ui'.live = Spoken(ui.live, text, ids)
                 \/ \E m \in Message : ui'.live = Append(ui.live, m)
           \/ Prefix(Summary, ui'.messages) /\ Prefix(Summary, ui'.live)
    <2>1. CASE e.type = "text" /\ ui' = [ui EXCEPT !.live = Spoken(@, TRUE, <<>>)]
      <3>1. PICK none \in Seq(CallIds) : none = <<>>
        <4>1. <<>> \in Seq(CallIds)
          OBVIOUS
        <4> QED BY <4>1
      <3>2. PICK live : live = Spoken(ui.live, TRUE, none)
        OBVIOUS
      <3>3. ui' = [ui EXCEPT !.live = live]
        BY <2>1, <3>1, <3>2
      <3>4. /\ ui'.running = ui.running /\ ui'.asked = ui.asked /\ ui'.messages = ui.messages
            /\ ui'.live = live
        BY <3>3 DEF TypeInv
      <3>5. \E text \in BOOLEAN, ids \in Seq(CallIds) : ui'.live = Spoken(ui.live, text, ids)
        BY <3>2, <3>4
      <3> QED BY <3>4, <3>5
    <2>2. CASE e.type = "calls" /\ ui' = [ui EXCEPT !.live = Spoken(@, FALSE, e.calls)]
      <3>1. PICK ids \in Seq(CallIds) : ids = e.calls
        BY <2>2, EventParts
      <3>2. PICK live : live = Spoken(ui.live, FALSE, ids)
        OBVIOUS
      <3>3. ui' = [ui EXCEPT !.live = live]
        BY <2>2, <3>1, <3>2
      <3>4. /\ ui'.running = ui.running /\ ui'.asked = ui.asked /\ ui'.messages = ui.messages
            /\ ui'.live = live
        BY <3>3 DEF TypeInv
      <3>5. \E text \in BOOLEAN, i \in Seq(CallIds) : ui'.live = Spoken(ui.live, text, i)
        BY <3>2, <3>4
      <3> QED BY <3>4, <3>5
    <2>3. CASE e.type = "tool" /\ ui' = [ui EXCEPT !.live = Append(@, Result(e.call, e.body))]
      <3>1. PICK m \in Message : m = Result(e.call, e.body)
        BY <2>3, EventParts, Messages
      <3>2. PICK live : live = Append(ui.live, m)
        OBVIOUS
      <3>3. ui' = [ui EXCEPT !.live = live]
        BY <2>3, <3>1, <3>2
      <3>4. /\ ui'.running = ui.running /\ ui'.asked = ui.asked /\ ui'.messages = ui.messages
            /\ ui'.live = live
        BY <3>3 DEF TypeInv
      <3>5. \E n \in Message : ui'.live = Append(ui.live, n)
        BY <3>2, <3>4
      <3> QED BY <3>4, <3>5
    <2>4. CASE e.type = "compacted" /\ ui' = [ui EXCEPT !.live = e.messages, !.messages = e.messages]
      <3>1. PICK messages : messages = e.messages
        OBVIOUS
      <3>2. /\ ui'.running = ui.running /\ ui'.asked = ui.asked /\ ui'.messages = messages
            /\ ui'.live = messages
        BY <2>4, <3>1 DEF TypeInv
      <3> QED BY <1>3, <2>4, <3>1, <3>2
    <2> QED BY <1>2, <2>1, <2>2, <2>3, <2>4 DEF Receive
  <1>5. ASSUME ui.asked
        PROVE  /\ From(run.persisted, ui'.live)
               /\ Prefix(Before, ui'.messages) \/ Prefix(Summary, ui'.messages)
    <2>1. Prefix(Before, ui.messages) \/ Prefix(Summary, ui.messages)
      BY <1>1, <1>5 DEF KeepInv
    <2>2. CASE ui'.messages = ui.messages /\ \E text \in BOOLEAN, ids \in Seq(CallIds) :
                       ui'.live = Spoken(ui.live, text, ids)
      BY <1>1, <1>5, <2>1, <2>2, LiveKeeps
    <2>3. CASE ui'.messages = ui.messages /\ \E m \in Message : ui'.live = Append(ui.live, m)
      BY <1>1, <1>5, <2>1, <2>3, LiveKeeps
    <2>4. CASE Prefix(Summary, ui'.messages) /\ Prefix(Summary, ui'.live)
      BY <2>4 DEF From
    <2> QED BY <1>4, <2>2, <2>3, <2>4
  <1> QED BY <1>1, <1>4, <1>5, ChatKeeps

LEMMA AppendFront ==
  ASSUME NEW s \in Seq(Message), NEW m \in Message
  PROVE  LET t == Append(s, m) IN
         t # <<>> /\ t[Len(t)] = m /\ SubSeq(t, 1, Len(t) - 1) = s
  <1>1. PICK n \in Nat : n = Len(s)
    OBVIOUS
  <1>2. PICK t \in Seq(Message) : t = Append(s, m)
    <2>1. Append(s, m) \in Seq(Message)
      OBVIOUS
    <2> QED BY <2>1
  <1>3. Len(t) = n + 1 /\ t[n + 1] = m /\ \A i \in 1 .. n : t[i] = s[i]
    BY <1>1, <1>2
  <1>4. PICK u \in Seq(Message) : u = SubSeq(t, 1, n) /\ Len(u) = n
                                  /\ \A i \in 1 .. n : u[i] = t[i]
    <2>1. SubSeq(t, 1, n) \in Seq(Message) /\ Len(SubSeq(t, 1, n)) = n
          /\ \A i \in 1 .. n : SubSeq(t, 1, n)[i] = t[i]
      BY <1>3
    <2> QED BY <2>1
  <1>5. u = s
    BY <1>1, <1>3, <1>4
  <1>6. Len(t) - 1 = n
    BY <1>3
  <1> QED BY <1>2, <1>3, <1>4, <1>5, <1>6

LEMMA SubmitKeeps ==
  ASSUME TypeInv, TypeInv', PlaceInv, KeepInv, Submit
  PROVE  KeepInv'
  <1>1. ui.messages \in Seq(Message) /\ User \in Message
    BY KnownHistories, Messages
  <1>2. PICK s \in Seq(Message) : s = Append(ui.messages, User)
    <2>1. Append(ui.messages, User) \in Seq(Message)
      BY <1>1
    <2> QED BY <2>1
  <1>3. /\ run'.pc = "model" /\ run'.status = "none" /\ run'.persisted = s /\ run'.messages = s
        /\ UNCHANGED events /\ ui'.messages = ui.messages /\ ui'.live = s
    BY <1>2 DEF Submit, Off, Begun, TypeInv
  <1>4. s # <<>> /\ s[Len(s)] = User /\ SubSeq(s, 1, Len(s) - 1) = ui.messages
    BY <1>1, <1>2, AppendFront
  <1>5. Prefix(s, s) /\ Prefix(ui.messages, ui.messages)
    BY <1>1, PrefixSelf
  <1>6. \A i \in DOMAIN events : events[i].type = "compacted" => Prefix(Summary, events[i].messages)
    BY DEF KeepInv
  <1>7. Kept(run.messages)' /\ Kept(ui.live)' /\ Prefix(Before, ui.messages)'
    <2>1. Before' = ui.messages
      BY <1>3, <1>4 DEF Before
    <2> QED BY <1>3, <1>5, <2>1 DEF Kept
  <1> QED BY <1>3, <1>4, <1>6, <1>7 DEF KeepInv

LEMMA ChatEndKeeps ==
  ASSUME TypeInv, TypeInv', PlaceInv, KeepInv, ReceiveDone \/ ReceiveClosed
  PROVE  KeepInv'
  <1>1. /\ run' = Off /\ ~ui'.running
        /\ UNCHANGED events \/ (events # <<>> /\ events' = Tail(events))
    BY DEF ReceiveDone, ReceiveClosed, RunOver, TypeInv
  <1>2. run'.pc = "off" /\ run'.status = "none"
    BY <1>1 DEF Off
  <1>3. \A i \in DOMAIN events' : \E j \in DOMAIN events : events'[i] = events[j]
    BY <1>1, TailEvents
  <1>4. \A i \in DOMAIN events' : events'[i].type = "compacted" =>
            Prefix(Summary, events'[i].messages)
    BY <1>3 DEF KeepInv
  <1> QED BY <1>1, <1>2, <1>4 DEF KeepInv

LEMMA CalmKeeps ==
  ASSUME TypeInv, PlaceInv, KeepInv,
         \/ ReceiveClosedCompacting \/ ReceivePrompt \/ Approve \/ Deny \/ Toggle \/ Cancel
         \/ NewChat \/ UNCHANGED vars
  PROVE  KeepInv'
  <1>1. /\ run'.pc = run.pc /\ run'.status = run.status
        /\ run'.persisted = run.persisted /\ run'.messages = run.messages
    BY SMTT(60) DEF ReceiveClosedCompacting, ReceivePrompt, Approve, Deny, Toggle, Cancel, NewChat, vars, Replies, TypeInv, Sessions
  <1>2. UNCHANGED events \/ (events # <<>> /\ events' = Tail(events))
    BY DEF ReceiveClosedCompacting, ReceivePrompt, Approve, Deny, Toggle, Cancel, NewChat, vars
  <1>3. ui'.running /\ ui'.asked =>
          /\ ui.running /\ ui.asked /\ ui'.live = ui.live /\ ui'.messages = ui.messages
    BY DEF ReceiveClosedCompacting, ReceivePrompt, Approve, Deny, Toggle, Cancel, NewChat, Resolved, vars, TypeInv
  <1>4. ui'.running /\ ui'.asked =>
              /\ From(run.persisted, ui'.live)
              /\ Prefix(Before, ui'.messages) \/ Prefix(Summary, ui'.messages)
    BY <1>3 DEF KeepInv, Kept, From
  <1> QED BY <1>1, <1>2, <1>4, ChatKeeps

LEMMA InitKeep ==
  ASSUME Init
  PROVE  KeepInv
  BY DEF Init, Off, KeepInv

LEMMA NextKeep ==
  ASSUME TypeInv, TypeInv', PlaceInv, KeepInv, [Next]_vars
  PROVE  KeepInv'
  BY StreamKeeps, QuietKeeps, BatchEndsKeeps, EndKeeps, SubmitKeeps, ReceiveKeeps, ChatEndKeeps,
     CalmKeeps DEF Next

----------------------------------------------------------------------------
(* The theorems.                                                           *)

\* Types, places, consent and histories are kept by every step.
THEOREM Invariance == Spec => []Inv
  <1>1. Init => Inv
    BY InitType, InitPlace, InitConsent, InitKeep DEF Inv
  <1>2. Inv /\ [Next]_vars => Inv'
    <2> SUFFICES ASSUME Inv, [Next]_vars
                 PROVE  Inv'
      OBVIOUS
    <2>1. TypeInv'
      BY NextType DEF Inv
    <2>2. PlaceInv' /\ RoundInv'
      BY NextPlace DEF Inv
    <2>3. ConsentInv'
      BY <2>1, NextConsent DEF Inv
    <2>4. KeepInv'
      BY <2>1, NextKeep DEF Inv
    <2> QED BY <2>1, <2>2, <2>3, <2>4 DEF Inv
  <1> QED BY <1>1, <1>2, PTL DEF Spec

\* What the chat has been told of a compaction.
CompactionInv == compaction \in [state : {"none", "going", "canceled"}, notified : BOOLEAN]

LEMMA NextCompaction ==
  ASSUME CompactionInv, [Next]_vars
  PROVE  CompactionInv'
  <1>1. Untold \in [state : {"none", "going", "canceled"}, notified : BOOLEAN]
    BY DEF Untold
  <1>2. \A state \in {"none", "going", "canceled"} : Tells(state) => CompactionInv'
    BY DEF Tells, CompactionInv
  <1>3. ReportsError => CompactionInv'
    BY <1>2 DEF ReportsError, CompactionInv
  <1>4. CASE StreamBreaks \/ Refuse \/ BatchEnds \/ CallUnknown \/ CallStarts \/ Announce
    BY <1>2, <1>3, <1>4
       DEF StreamBreaks, Refuse, BatchEnds, CallUnknown, CallStarts, Announce, CompactionInv
  <1>5. CASE Compacts \/ ReceiveClosedCompacting
    BY <1>2, <1>5 DEF Compacts, ReceiveClosedCompacting
  <1>6. CASE LeavesHistory
    BY <1>6 DEF LeavesHistory, Skips, CompactionInv
  <1>7. CASE Submit \/ ReceiveDone \/ ReceiveClosed
    BY <1>1, <1>7 DEF Submit, ReceiveDone, ReceiveClosed, RunOver, CompactionInv
  <1>8. ASSUME UNCHANGED compaction
        PROVE  CompactionInv'
    BY <1>8 DEF CompactionInv
  <1> QED BY <1>4, <1>5, <1>6, <1>7, <1>8
          DEF Next, StreamText, StreamCalls, StreamEnds, StreamFails, Plan, Authorize, TakeReply,
              PromptAborts, ExecNext, CallEnds, Finish, Return, Receive, ReceivePrompt, Approve,
              Deny, Toggle, Cancel, NewChat, vars

LEMMA InvTypeOK == Inv /\ CompactionInv => TypeOK
  <1> SUFFICES ASSUME Inv, CompactionInv
               PROVE  TypeOK
    OBVIOUS
  <1>1. run \in Sessions /\ Len(events) <= EventCap /\ (ui.reading => ui.running)
    BY DEF Inv, TypeInv, PlaceInv
  <1>2. \A m \in {run.messages, run.persisted, ui.messages, ui.live} :
          \A i \in DOMAIN m : m[i] \in Message
    <2>1. \A m \in Seq(Message) : \A i \in DOMAIN m : m[i] \in Message
      OBVIOUS
    <2> QED BY <2>1, KnownHistories DEF Inv
  <1>3. run.rounds \in 0 .. (IF run.disabled THEN MaxCalls ELSE MaxRounds)
    <2>1. run.rounds \in Nat /\ bounds.calls \in 0 .. MaxCalls /\ run.rounds <= bounds.calls
      BY <1>1 DEF Inv, TypeInv, RoundInv, Sessions
    <2>2. ~run.disabled => run.rounds <= MaxRounds
      BY DEF Inv, RoundInv
    <2> QED BY <2>1, <2>2, Constants
  <1>4. {grants.run, grants.ui} \subseteq [all : BOOLEAN, scopes : SUBSET Scopes]
    BY DEF Inv, TypeInv, Grants
  <1>5. /\ run.pc \in Places /\ run.errors \in 0 .. 2 /\ run.status \in Statuses
        /\ run.batch \in {"none", "ran", "denied", "canceled"}
        /\ run.reply \in {"none", "once", "always", "all", "no"}
    BY <1>1 DEF Sessions
  <1> QED BY <1>1, <1>2, <1>3, <1>4, <1>5 DEF TypeOK, Places, Statuses, CompactionInv

\* Every variable keeps its type, the rounds their limit and the channel its capacity
\* (runModelStep, runToolStep, maybeCompact, applyAgentEvent).
THEOREM TypeCorrect == Spec => []TypeOK
  <1>1. Init => CompactionInv
    BY DEF Init, Untold, CompactionInv
  <1>2. CompactionInv /\ [Next]_vars => CompactionInv'
    BY NextCompaction
  <1> QED BY <1>1, <1>2, Invariance, InvTypeOK, PTL DEF Spec

\* A tool that needs approval is run only if the user has allowed the call, its scope or
\* everything, whatever becomes of the prompts and the grants in between (authorizeToolCalls,
\* executeToolCalls, resolveApprovalPrompt).
THEOREM ToolsNeedConsent == Spec => Consented
  <1>1. ASSUME Inv, run.pc = "call", run'.pc = "running"
        PROVE  LET call == Head(run.todo) IN
               \/ call.kind \notin Scopes
               \/ call.id \in consent.calls \/ call.kind \in consent.scopes \/ consent.all
    <2>1. run.todo \in Seq(Call) /\ run.todo # <<>>
      BY <1>1 DEF Inv, TypeInv, PlaceInv, Sessions
    <2>2. Head(run.todo) = run.todo[1] /\ 1 \in DOMAIN run.todo
      BY <2>1
    <2>3. Cleared(run.todo[1])
      BY <1>1, <2>2 DEF Inv, ConsentInv, ClearInv, Runs
    <2> QED BY <2>2, <2>3 DEF Cleared
  <1>2. Inv /\ [Next]_vars =>
          [run.pc = "call" /\ run'.pc = "running" =>
             LET call == Head(run.todo) IN
             \/ call.kind \notin Scopes
             \/ call.id \in consent.calls \/ call.kind \in consent.scopes \/ consent.all]_vars
    BY <1>1
  <1> QED BY <1>2, Invariance, PTL DEF Spec, Consented

LEMMA PrefixBefore ==
  ASSUME TypeInv, NEW s \in Seq(Message), Prefix(run.persisted, s), run.persisted # <<>>
  PROVE  Prefix(Before, s)
  <1>1. PICK p \in Seq(Message) : p = run.persisted
    BY KnownHistories
  <1>2. PICK n \in Nat : Len(p) = n + 1
    <2>1. Len(p) \in Nat /\ Len(p) > 0
      BY <1>1
    <2>2. Len(p) - 1 \in Nat /\ Len(p) = (Len(p) - 1) + 1
      BY <2>1
    <2> QED BY <2>2
  <1>3. PICK u \in Seq(Message) : u = SubSeq(p, 1, n) /\ Len(u) = n
                                  /\ \A i \in 1 .. n : u[i] = p[i]
    <2>1. SubSeq(p, 1, n) \in Seq(Message) /\ Len(SubSeq(p, 1, n)) = n
          /\ \A i \in 1 .. n : SubSeq(p, 1, n)[i] = p[i]
      BY <1>2
    <2> QED BY <2>1
  <1>4. Len(p) <= Len(s) /\ \A i \in 1 .. Len(p) : p[i] = s[i]
    BY <1>1, PrefixEntries
  <1>5. Len(u) <= Len(s) /\ \A i \in 1 .. Len(u) : u[i] = s[i]
    BY <1>2, <1>3, <1>4
  <1>6. Prefix(u, s)
    BY <1>5, PrefixEntries
  <1>7. Before = u
    <2>1. Len(p) - 1 = n
      BY <1>2
    <2> QED BY <1>1, <1>3, <2>1 DEF Before
  <1> QED BY <1>6, <1>7

\* However a run ends, the conversation begins with the turns before it or with a summary of
\* them (finishRun, finishLiveMessagesForStoppedRun, emitCompacted).
THEOREM TurnsAreKept == Spec => EarlierTurnsKept
  <1>1. ASSUME Inv, [Next]_vars, ui.running, ~ui'.running, ui.asked
        PROVE  Prefix(Before, ui'.messages) \/ Prefix(Summary, ui'.messages)
    <2>1. TypeInv /\ PlaceInv /\ KeepInv /\ DoneInv /\ run.pc # "off"
      BY <1>1 DEF Inv, ConsentInv, PlaceInv
    <2>2. \A s \in Seq(Message) : From(run.persisted, s) => Prefix(Before, s) \/ Prefix(Summary, s)
      BY <2>1, PrefixBefore DEF From, KeepInv
    <2>3. From(run.persisted, ui.live) /\ (Prefix(Before, ui.messages) \/ Prefix(Summary, ui.messages))
      BY <1>1, <2>1 DEF KeepInv, Kept, From
    <2>4. From(run.persisted, run.persisted)
      BY <2>1, KnownHistories, PrefixSelf DEF From
    <2>5. \A p : p = <<>> \/ p = run.persisted =>
            Prefix(Before, Stopped(p)) \/ Prefix(Summary, Stopped(p))
      BY <2>1, <2>2, <2>3, <2>4, KnownHistories DEF Stopped
    <2>6. CASE ReceiveDone
      <3>1. ui'.messages = IF Head(events).ok THEN run.messages ELSE Stopped(run.persisted)
        BY <2>1, <2>6 DEF ReceiveDone, RunOver, TypeInv
      <3>2. Head(events).ok => run.status # "failed"
        BY <2>1, <2>6, DoneIsLast DEF ReceiveDone
      <3>3. run.status # "failed" => From(run.persisted, run.messages)
        BY <2>1 DEF KeepInv, Kept, From
      <3> QED BY <2>1, <2>2, <2>5, <3>1, <3>2, <3>3, KnownHistories
    <2>7. CASE ReceiveClosed
      <3>1. ui'.messages = Stopped(<<>>)
        BY <2>1, <2>7 DEF ReceiveClosed, RunOver, TypeInv
      <3> QED BY <2>5, <3>1
    <2>8. ReceiveDone \/ ReceiveClosed
      <3>1. CASE Session \/ UNCHANGED vars
        <4>1. UNCHANGED ui
          BY <3>1 DEF Session, SessionOnly, vars, StreamText, StreamCalls, StreamEnds, StreamFails,
                      StreamBreaks, Refuse, BatchEnds, Plan, Authorize, TakeReply, PromptAborts,
                      ExecNext, CallUnknown, CallStarts, CallEnds, Compacts, LeavesHistory,
                      Announce, Finish, Return
        <4> QED BY <1>1, <4>1
      <3>2. CASE \/ Submit \/ Receive \/ ReceiveClosedCompacting \/ ReceivePrompt
                 \/ Approve \/ Deny \/ Toggle \/ Cancel \/ NewChat
        <4>1. ui'.running \/ ui'.running = ui.running
          BY <2>1, <3>2 DEF Submit, Receive, ReceiveClosedCompacting, ReceivePrompt, Approve, Deny,
                            Toggle, Cancel, NewChat, Resolved, TypeInv
        <4> QED BY <1>1, <4>1
      <3> QED BY <1>1, <3>1, <3>2 DEF Next, Session
    <2> QED BY <2>6, <2>7, <2>8
  <1>2. Inv /\ [Next]_vars =>
          [ui.running /\ ~ui'.running /\ ui.asked =>
             \/ Prefix(SubSeq(run.persisted, 1, Len(run.persisted) - 1), ui'.messages)
             \/ Prefix(Summary, ui'.messages)]_vars
    BY <1>1 DEF Before
  <1> QED BY <1>2, Invariance, PTL DEF Spec, EarlierTurnsKept

----------------------------------------------------------------------------
(* Histories whose calls are answered.                                     *)

IsSpeech(h, i) == i \in DOMAIN h /\ h[i].role = "assistant"
Answers(h, j, id) == j \in DOMAIN h /\ h[j].role = "tool" /\ h[j].call = id

\* The calls of an answer are answered in their places.
Whole(h, i) == \A k \in DOMAIN h[i].calls : Answers(h, i + k, h[i].calls[k])

\* All of them are but those of the last answer, of which d are.
Open(h, ids, d) ==
    /\ ids # <<>> /\ d <= Len(ids)
    /\ \E n \in DOMAIN h :
          /\ h[n].role = "assistant" /\ h[n].calls = ids /\ Len(h) = n + d
          /\ \A k \in 1 .. d : Answers(h, n + k, ids[k])
          /\ \A i : IsSpeech(h, i) /\ i # n => Whole(h, i)

\* Only a summary has a call of id 0.
Plain(h) == \A i : IsSpeech(h, i) =>
               h[i] = Summary[1] \/ \A k \in DOMAIN h[i].calls : h[i].calls[k] # 0

\* No result but of the first n calls.
Low(h, n) == \A j, id : Answers(h, j, id) => id <= n

Sound(h, n) == Complete(h) /\ Plain(h) /\ Low(h, n)

LEMMA CompleteMeans ==
  ASSUME NEW h \in Seq(Message)
  PROVE  Complete(h) <=> \A i : IsSpeech(h, i) => Whole(h, i)
  BY DEF Complete, Whole, IsSpeech, Answers

\* What the messages of a history are.
LEMMA MessageParts ==
  ASSUME NEW m \in Message
  PROVE  /\ m.role \in {"user", "tool", "assistant"}
         /\ m.role = "assistant" => /\ m.text \in BOOLEAN /\ m.calls \in Seq(0 .. MaxCalls)
                                    /\ DOMAIN m.calls = 1 .. Len(m.calls) /\ Len(m.calls) \in Nat
         /\ m.role = "tool" => m.call \in 0 .. MaxCalls
  <1>1. m = User \/ m \in [role : {"tool"}, call : 0 .. MaxCalls,
                           body : Bodies \cup {"notice", "summary"}]
        \/ m \in [role : {"assistant"}, text : BOOLEAN, calls : Seq(0 .. MaxCalls)]
    BY DEF Message
  <1>2. CASE m \in [role : {"assistant"}, text : BOOLEAN, calls : Seq(0 .. MaxCalls)]
    <2>1. m.role = "assistant" /\ m.text \in BOOLEAN /\ m.calls \in Seq(0 .. MaxCalls)
      BY <1>2
    <2> QED BY <2>1
  <1> QED BY <1>1, <1>2 DEF User

LEMMA MadeOf ==
    /\ ~(User.role = "assistant") /\ ~(User.role = "tool")
    /\ \A text, ids : /\ Assistant(text, ids).role = "assistant"
                      /\ Assistant(text, ids).calls = ids /\ Assistant(text, ids).text = text
    /\ \A id, body : Result(id, body).role = "tool" /\ Result(id, body).call = id
    /\ \A calls : /\ DOMAIN Ids(calls) = DOMAIN calls
                  /\ \A i \in DOMAIN calls : Ids(calls)[i] = calls[i].id
    /\ Summary[1] = Assistant(FALSE, <<0>>) /\ Summary[2] = Result(0, "summary")
  BY DEF User, Assistant, Result, Ids, Summary

\* A group of messages that is found again further on is answered there.
LEMMA WholeMoves ==
  ASSUME NEW h, NEW g, NEW i, NEW j, IsSpeech(h, i), Whole(h, i), g[j].calls = h[i].calls,
         \A k \in DOMAIN h[i].calls : \A id : Answers(h, i + k, id) => Answers(g, j + k, id)
  PROVE  Whole(g, j)
  BY DEF Whole

\* Two histories one after the other.
LEMMA JoinParts ==
  ASSUME NEW a \in Seq(Message), NEW b \in Seq(Message)
  PROVE  /\ a \o b \in Seq(Message) /\ Len(a \o b) = Len(a) + Len(b)
         /\ DOMAIN (a \o b) = 1 .. Len(a) + Len(b)
         /\ \A i \in 1 .. Len(a) : (a \o b)[i] = a[i]
         /\ \A i \in 1 .. Len(b) : (a \o b)[Len(a) + i] = b[i]
         /\ DOMAIN a = 1 .. Len(a) /\ DOMAIN b = 1 .. Len(b) /\ Len(a) \in Nat /\ Len(b) \in Nat
  OBVIOUS

LEMMA SoundJoin ==
  ASSUME NEW a \in Seq(Message), NEW b \in Seq(Message), NEW n \in Nat, Sound(a, n), Sound(b, n)
  PROVE  Sound(a \o b, n)
  <1>1. PICK h \in Seq(Message) : h = a \o b
    BY JoinParts
  <1>2. PICK la \in Nat : la = Len(a) /\ DOMAIN a = 1 .. la
    BY JoinParts
  <1>3. PICK lb \in Nat : lb = Len(b) /\ DOMAIN b = 1 .. lb
    BY JoinParts
  <1>4. /\ DOMAIN h = 1 .. la + lb /\ \A i \in 1 .. la : h[i] = a[i]
        /\ \A i \in 1 .. lb : h[la + i] = b[i]
    BY <1>1, <1>2, <1>3, JoinParts
  <1>5. \A i \in DOMAIN h : i \in DOMAIN a \/ \E j \in DOMAIN b : i = la + j
    <2>1. \A i \in 1 .. la + lb : i \in 1 .. la \/ (i - la \in 1 .. lb /\ i = la + (i - la))
      OBVIOUS
    <2> QED BY <1>2, <1>3, <1>4, <2>1
  <1>6. \A i, id : Answers(a, i, id) => Answers(h, i, id)
    BY <1>2, <1>4 DEF Answers
  <1>7. \A i, id : Answers(b, i, id) => Answers(h, la + i, id)
    <2>1. \A i \in 1 .. lb : la + i \in 1 .. la + lb
      OBVIOUS
    <2> QED BY <1>3, <1>4, <2>1 DEF Answers
  <1>8. ASSUME NEW i, IsSpeech(h, i)
        PROVE  /\ Whole(h, i)
               /\ h[i] = Summary[1] \/ \A k \in DOMAIN h[i].calls : h[i].calls[k] # 0
    <2>1. CASE i \in DOMAIN a
      <3>1. h[i] = a[i] /\ IsSpeech(a, i)
        BY <1>2, <1>4, <1>8, <2>1 DEF IsSpeech
      <3>2. Whole(a, i) /\ (a[i] = Summary[1] \/ \A k \in DOMAIN a[i].calls : a[i].calls[k] # 0)
        BY <3>1, CompleteMeans DEF Sound, Plain
      <3>3. Whole(h, i)
        BY <1>6, <3>1, <3>2, WholeMoves
      <3> QED BY <3>1, <3>2, <3>3
    <2>2. CASE \E j \in DOMAIN b : i = la + j
      <3>1. PICK j \in DOMAIN b : i = la + j
        BY <2>2
      <3>2. h[i] = b[j] /\ IsSpeech(b, j)
        BY <1>3, <1>4, <1>8, <3>1 DEF IsSpeech
      <3>3. Whole(b, j) /\ (b[j] = Summary[1] \/ \A k \in DOMAIN b[j].calls : b[j].calls[k] # 0)
        BY <3>2, CompleteMeans DEF Sound, Plain
      <3>4. \A k \in DOMAIN b[j].calls : k \in Nat
        BY <3>2, MessageParts DEF IsSpeech
      <3>5. \A k \in DOMAIN b[j].calls : la + (j + k) = i + k
        BY <1>3, <3>1, <3>4
      <3>6. \A k \in DOMAIN b[j].calls : \A id : Answers(b, j + k, id) => Answers(h, i + k, id)
        BY <1>7, <3>5
      <3>7. Whole(h, i)
        BY <3>2, <3>3, <3>6, WholeMoves
      <3> QED BY <3>2, <3>3, <3>7
    <2> QED BY <1>5, <1>8, <2>1, <2>2 DEF IsSpeech
  <1>9. Low(h, n)
    <2>1. ASSUME NEW i, NEW id, Answers(h, i, id)
          PROVE  id <= n
      <3>1. CASE i \in DOMAIN a
        <4>1. Answers(a, i, id)
          BY <1>2, <1>4, <2>1, <3>1 DEF Answers
        <4> QED BY <4>1 DEF Sound, Low
      <3>2. CASE \E j \in DOMAIN b : i = la + j
        <4>1. PICK j \in DOMAIN b : i = la + j
          BY <3>2
        <4>2. Answers(b, j, id)
          BY <1>3, <1>4, <2>1, <4>1 DEF Answers
        <4> QED BY <4>2 DEF Sound, Low
      <3> QED BY <1>5, <2>1, <3>1, <3>2 DEF Answers
    <2> QED BY <2>1 DEF Low
  <1>10. Complete(h) /\ Plain(h)
    BY <1>8, CompleteMeans DEF Plain
  <1> QED BY <1>1, <1>9, <1>10 DEF Sound

\* The end of a history, from any of its messages on.
LEMMA SoundSuffix ==
  ASSUME NEW a \in Seq(Message), NEW n \in Nat, Sound(a, n), NEW at \in 1 .. Len(a) + 1
  PROVE  SubSeq(a, at, Len(a)) \in Seq(Message) /\ Sound(SubSeq(a, at, Len(a)), n)
  <1>1. PICK la \in Nat : la = Len(a) /\ DOMAIN a = 1 .. la
    BY JoinParts
  <1>2. PICK d \in Nat : at = d + 1 /\ d <= la
    <2>1. at - 1 \in Nat /\ at = (at - 1) + 1 /\ at - 1 <= la
      BY <1>1
    <2> QED BY <2>1
  <1>3. PICK h \in Seq(Message) : /\ h = SubSeq(a, at, Len(a)) /\ Len(h) = la - d
                                  /\ \A i \in 1 .. la - d : h[i] = a[d + i]
    <2>1. SubSeq(a, d + 1, la) \in Seq(Message)
      BY <1>1, <1>2
    <2>2. Len(SubSeq(a, d + 1, la)) = la - d
      BY <1>1, <1>2
    <2>3. \A i \in 1 .. la - d : SubSeq(a, d + 1, la)[i] = a[d + i]
      BY <1>1, <1>2
    <2> QED BY <1>1, <1>2, <2>1, <2>2, <2>3
  <1>4. DOMAIN h = 1 .. la - d
    BY <1>3
  <1>5. \A i \in DOMAIN h : d + i \in DOMAIN a /\ h[i] = a[d + i]
    BY <1>1, <1>2, <1>3, <1>4
  <1>6. \A i \in Nat : \A id : Answers(a, d + i, id) /\ i > 0 => Answers(h, i, id)
    <2>1. \A i \in Nat : d + i \in 1 .. la /\ i > 0 => i \in 1 .. la - d
      BY <1>2
    <2> QED BY <1>1, <1>4, <1>5, <2>1 DEF Answers
  <1>7. ASSUME NEW i, IsSpeech(h, i)
        PROVE  /\ Whole(h, i)
               /\ h[i] = Summary[1] \/ \A k \in DOMAIN h[i].calls : h[i].calls[k] # 0
    <2>1. IsSpeech(a, d + i) /\ h[i] = a[d + i] /\ i \in Nat /\ i > 0
      BY <1>4, <1>5, <1>7 DEF IsSpeech
    <2>2. Whole(a, d + i)
          /\ (h[i] = Summary[1] \/ \A k \in DOMAIN h[i].calls : h[i].calls[k] # 0)
      BY <2>1, CompleteMeans DEF Sound, Plain
    <2>3. \A k \in DOMAIN h[i].calls : k \in Nat /\ k > 0
      BY <1>7, MessageParts DEF IsSpeech
    <2>4. \A k \in DOMAIN h[i].calls : (d + i) + k = d + (i + k) /\ i + k \in Nat /\ i + k > 0
      BY <2>1, <2>3
    <2>5. \A k \in DOMAIN h[i].calls : \A id :
            Answers(a, (d + i) + k, id) => Answers(h, i + k, id)
      BY <1>6, <2>4
    <2>6. Whole(h, i)
      BY <2>1, <2>2, <2>5, WholeMoves
    <2> QED BY <2>2, <2>6
  <1>8. Low(h, n)
    <2>1. \A i, id : Answers(h, i, id) => Answers(a, d + i, id)
      BY <1>5 DEF Answers
    <2> QED BY <2>1 DEF Sound, Low
  <1>9. Complete(h) /\ Plain(h)
    BY <1>7, CompleteMeans DEF Plain
  <1> QED BY <1>3, <1>8, <1>9 DEF Sound

\* A history without its summaries.
LEMMA SoundTalk ==
  ASSUME NEW a \in Seq(Message), NEW n \in Nat, Sound(a, n)
  PROVE  Talk(a) \in Seq(Message) /\ Sound(Talk(a), n)
  <1> DEFINE S == {Summary[1], Summary[2]}
  <1>1. PICK la \in Nat : la = Len(a) /\ DOMAIN a = 1 .. la
    BY JoinParts
  <1>2. PICK h \in Seq(Message) : h = Talk(a)
    BY WithoutPlaces DEF Talk
  <1>3. PICK p \in [0 .. la -> Nat] : Placed(p, a, S, h)
    BY <1>1, <1>2, WithoutPlaces DEF Talk
  <1> HIDE DEF S
  <1>4. /\ \A i \in 1 .. la : a[i] \notin S =>
              p[i] = p[i - 1] + 1 /\ p[i] \in DOMAIN h /\ h[p[i]] = a[i]
        /\ \A j \in DOMAIN h : \E i \in 1 .. la : a[i] \notin S /\ p[i] = j
    BY <1>1, <1>3 DEF Placed
  <1>5. ASSUME NEW j \in DOMAIN h
        PROVE  \E i \in DOMAIN a : a[i] \notin S /\ p[i] = j /\ h[j] = a[i]
    <2>1. PICK i \in 1 .. la : a[i] \notin S /\ p[i] = j
      BY <1>4
    <2>2. h[p[i]] = a[i]
      BY <1>4, <2>1
    <2> QED BY <1>1, <2>1, <2>2
  <1>6. ASSUME NEW i \in DOMAIN a, a[i] \notin S, IsSpeech(a, i)
        PROVE  /\ Whole(h, p[i])
               /\ \A k \in DOMAIN a[i].calls : a[i].calls[k] # 0
    <2>1. Whole(a, i) /\ h[p[i]] = a[i]
      BY <1>1, <1>4, <1>6, CompleteMeans DEF Sound
    <2>2. \A k \in DOMAIN a[i].calls : a[i].calls[k] # 0
      BY <1>6 DEF Sound, Plain, S
    <2>3. \A k \in DOMAIN a[i].calls : a[i + k] \notin S /\ i + k \in DOMAIN a
      <3>1. \A k \in DOMAIN a[i].calls : i + k \in DOMAIN a /\ a[i + k].role = "tool"
                                         /\ a[i + k].call = a[i].calls[k]
        BY <2>1 DEF Whole, Answers
      <3>2. Summary[1].role = "assistant" /\ Summary[2].call = 0
        <4>1. Summary[1] = Assistant(FALSE, <<0>>) /\ Summary[2] = Result(0, "summary")
          BY MadeOf
        <4> QED BY <4>1 DEF Assistant, Result
      <3> QED BY <2>2, <3>1, <3>2 DEF S
    <2>4. PICK c \in Nat : DOMAIN a[i].calls = 1 .. c
      <3>1. a[i] \in Message /\ a[i].role = "assistant"
        BY <1>6 DEF IsSpeech
      <3> QED BY <3>1, MessageParts
    <2>5. \A k \in 1 .. c : p[i + k] = p[i] + k
      <3>1. ASSUME NEW k \in 1 .. c
            PROVE  p[i + k] = p[i] + k
        <4>1. i \in 0 .. la /\ k \in Nat /\ i + k <= la
          BY <1>1, <2>3, <2>4
        <4>2. \A l \in 1 .. k : a[i + l] \notin S
          BY <2>3, <2>4
        <4>3. \A x \in 1 .. la : a[x] \notin S => p[x] = p[x - 1] + 1
          BY <1>4
        <4> QED BY ZenonT(60), <4>1, <4>2, <4>3, WithoutRuns
      <3> QED BY <3>1
    <2>6. \A k \in DOMAIN a[i].calls : \A id : Answers(a, i + k, id) => Answers(h, p[i] + k, id)
      <3>1. ASSUME NEW k \in DOMAIN a[i].calls, NEW id, Answers(a, i + k, id)
            PROVE  Answers(h, p[i] + k, id)
        <4>1. p[i + k] = p[i] + k /\ p[i + k] \in DOMAIN h /\ h[p[i + k]] = a[i + k]
          BY <1>1, <1>4, <2>3, <2>4, <2>5
        <4> QED BY <3>1, <4>1 DEF Answers
      <3> QED BY <3>1
    <2>7. Whole(h, p[i])
      BY <1>6, <2>1, <2>6, WholeMoves
    <2> QED BY <2>2, <2>7
  <1>7. ASSUME NEW j, IsSpeech(h, j)
        PROVE  Whole(h, j) /\ \A k \in DOMAIN h[j].calls : h[j].calls[k] # 0
    <2>1. PICK i \in DOMAIN a : a[i] \notin S /\ p[i] = j /\ h[j] = a[i]
      BY <1>5, <1>7 DEF IsSpeech
    <2>2. IsSpeech(a, i)
      BY <1>7, <2>1 DEF IsSpeech
    <2> QED BY <1>6, <2>1, <2>2
  <1>8. Low(h, n)
    <2>1. \A j, id : Answers(h, j, id) => \E i : Answers(a, i, id)
      BY <1>5 DEF Answers
    <2> QED BY <2>1 DEF Sound, Low
  <1>9. Complete(h) /\ Plain(h)
    BY <1>7, CompleteMeans DEF Plain
  <1> QED BY <1>2, <1>8, <1>9 DEF Sound

LEMMA SoundSummary ==
  ASSUME NEW n \in Nat
  PROVE  Sound(Summary, n)
  <1>1. PICK h \in Seq(Message) : h = Summary
    BY Messages
  <1>2. Len(h) = 2 /\ DOMAIN h = 1 .. 2
    BY <1>1, Messages
  <1>3. /\ h[1].role = "assistant" /\ h[2].role = "tool" /\ h[2].call = 0
        /\ h[1].calls = <<0>> /\ h[1] = Summary[1]
    <2>1. h[1] = Summary[1] /\ h[2] = Summary[2]
      BY <1>1
    <2>2. Summary[1] = Assistant(FALSE, <<0>>) /\ Summary[2] = Result(0, "summary")
      BY MadeOf
    <2> QED BY <2>1, <2>2 DEF Assistant, Result
  <1>4. \A i : IsSpeech(h, i) => i = 1
    BY <1>2, <1>3 DEF IsSpeech
  <1>5. DOMAIN <<0>> = {1} /\ <<0>>[1] = 0
    OBVIOUS
  <1>6. Whole(h, 1)
    <2>1. Answers(h, 1 + 1, 0)
      BY <1>2, <1>3 DEF Answers
    <2> QED BY <1>3, <1>5, <2>1 DEF Whole
  <1>7. Low(h, n)
    BY <1>2, <1>3 DEF Low, Answers
  <1>8. Complete(h) /\ Plain(h)
    BY <1>3, <1>4, <1>6, CompleteMeans DEF Plain
  <1> QED BY <1>1, <1>7, <1>8 DEF Sound

\* The last message may be an answer without calls, which is answered.
LEMMA SoundAppend ==
  ASSUME NEW h \in Seq(Message), NEW n \in Nat, Sound(h, n), NEW m \in Message,
         \/ m.role = "user"
         \/ m.role = "assistant" /\ m.calls = <<>>
         \/ m.role = "tool" /\ m.call <= n
  PROVE  Append(h, m) \in Seq(Message) /\ Sound(Append(h, m), n)
  <1>1. PICK g \in Seq(Message) : g = Append(h, m)
    <2>1. Append(h, m) \in Seq(Message)
      OBVIOUS
    <2> QED BY <2>1
  <1>2. PICK l \in Nat : l = Len(h) /\ DOMAIN h = 1 .. l
    BY JoinParts
  <1>3. DOMAIN g = 1 .. l + 1 /\ g[l + 1] = m /\ \A i \in 1 .. l : g[i] = h[i]
    BY <1>1, <1>2
  <1>4. \A i \in DOMAIN g : i = l + 1 \/ i \in DOMAIN h
    BY <1>2, <1>3
  <1>5. \A i, id : Answers(h, i, id) => Answers(g, i, id)
    BY <1>2, <1>3 DEF Answers
  <1>6. ASSUME NEW i, IsSpeech(g, i)
        PROVE  /\ Whole(g, i)
               /\ g[i] = Summary[1] \/ \A k \in DOMAIN g[i].calls : g[i].calls[k] # 0
    <2>1. CASE i = l + 1
      <3>1. g[i].calls = <<>>
        BY <1>3, <1>6, <2>1 DEF IsSpeech
      <3>2. DOMAIN <<>> = {}
        OBVIOUS
      <3> QED BY <3>1, <3>2 DEF Whole
    <2>2. CASE i \in DOMAIN h
      <3>1. g[i] = h[i] /\ IsSpeech(h, i)
        BY <1>2, <1>3, <1>6, <2>2 DEF IsSpeech
      <3>2. Whole(h, i) /\ (h[i] = Summary[1] \/ \A k \in DOMAIN h[i].calls : h[i].calls[k] # 0)
        BY <3>1, CompleteMeans DEF Sound, Plain
      <3>3. Whole(g, i)
        BY <1>5, <3>1, <3>2, WholeMoves
      <3> QED BY <3>1, <3>2, <3>3
    <2> QED BY <1>4, <1>6, <2>1, <2>2 DEF IsSpeech
  <1>7. Low(g, n)
    <2>1. ASSUME NEW i, NEW id, Answers(g, i, id)
          PROVE  id <= n
      <3>1. CASE i = l + 1
        BY <1>3, <2>1, <3>1 DEF Answers
      <3>2. CASE i \in DOMAIN h
        <4>1. Answers(h, i, id)
          BY <1>2, <1>3, <2>1, <3>2 DEF Answers
        <4> QED BY <4>1 DEF Sound, Low
      <3> QED BY <1>4, <2>1, <3>1, <3>2 DEF Answers
    <2> QED BY <2>1 DEF Low
  <1>8. Complete(g) /\ Plain(g)
    BY <1>6, CompleteMeans DEF Plain
  <1> QED BY <1>1, <1>7, <1>8 DEF Sound

\* A number of calls that only grows.
LEMMA SoundGrows ==
  ASSUME NEW h \in Seq(Message), NEW n \in Nat, NEW m \in Nat, n <= m, Low(h, n)
  PROVE  Low(h, m)
  <1>1. ASSUME NEW j, NEW id, Answers(h, j, id)
        PROVE  id <= m
    <2>1. id \in 0 .. MaxCalls
      <3>1. h[j] \in Message /\ h[j].role = "tool"
        BY <1>1 DEF Answers
      <3> QED BY <1>1, <3>1, MessageParts DEF Answers
    <2>2. id <= n
      BY <1>1 DEF Low
    <2> QED BY <2>1, <2>2
  <1> QED BY <1>1 DEF Low

\* An answer with calls, of which none has a result yet.
LEMMA OpenAppend ==
  ASSUME NEW h \in Seq(Message), NEW text \in BOOLEAN, NEW ids \in Seq(CallIds), ids # <<>>,
         Complete(h), Plain(h)
  PROVE  /\ Append(h, Assistant(text, ids)) \in Seq(Message)
         /\ Open(Append(h, Assistant(text, ids)), ids, 0)
         /\ Plain(Append(h, Assistant(text, ids)))
         /\ \A n : Low(h, n) => Low(Append(h, Assistant(text, ids)), n)
  <1>1. PICK m \in Message : m = Assistant(text, ids)
    BY Messages
  <1>2. m.role = "assistant" /\ m.calls = ids
    BY <1>1, MadeOf
  <1>3. PICK g \in Seq(Message) : g = Append(h, m)
    <2>1. Append(h, m) \in Seq(Message)
      OBVIOUS
    <2> QED BY <2>1
  <1>4. PICK l \in Nat : l = Len(h) /\ DOMAIN h = 1 .. l
    BY JoinParts
  <1>5. DOMAIN g = 1 .. l + 1 /\ Len(g) = l + 1 /\ g[l + 1] = m /\ \A i \in 1 .. l : g[i] = h[i]
    BY <1>3, <1>4
  <1>6. \A i \in DOMAIN g : i = l + 1 \/ i \in DOMAIN h
    BY <1>4, <1>5
  <1>7. \A i, id : Answers(h, i, id) <=> Answers(g, i, id)
    <2>1. \A i, id : Answers(h, i, id) => Answers(g, i, id)
      BY <1>4, <1>5 DEF Answers
    <2>2. \A i, id : Answers(g, i, id) => Answers(h, i, id)
      BY <1>2, <1>4, <1>5, <1>6 DEF Answers
    <2> QED BY <2>1, <2>2
  <1>8. ASSUME NEW i, IsSpeech(g, i), i # l + 1
        PROVE  /\ Whole(g, i)
               /\ g[i] = Summary[1] \/ \A k \in DOMAIN g[i].calls : g[i].calls[k] # 0
    <2>1. g[i] = h[i] /\ IsSpeech(h, i)
      BY <1>4, <1>5, <1>6, <1>8 DEF IsSpeech
    <2>2. Whole(h, i) /\ (h[i] = Summary[1] \/ \A k \in DOMAIN h[i].calls : h[i].calls[k] # 0)
      BY <2>1, CompleteMeans DEF Plain
    <2>3. Whole(g, i)
      BY <1>7, <2>1, <2>2, WholeMoves
    <2> QED BY <2>1, <2>2, <2>3
  <1>9. \A k \in DOMAIN ids : ids[k] # 0
    <2>1. \A k \in DOMAIN ids : ids[k] \in CallIds
      OBVIOUS
    <2> QED BY <2>1, Constants DEF CallIds
  <1>10. Plain(g)
    BY <1>2, <1>5, <1>8, <1>9 DEF Plain
  <1>11. Open(g, ids, 0)
    <2>1. /\ l + 1 \in DOMAIN g /\ Len(g) = (l + 1) + 0
          /\ g[l + 1].role = "assistant" /\ g[l + 1].calls = ids
      BY <1>2, <1>4, <1>5
    <2>2. \A k \in 1 .. 0 : Answers(g, (l + 1) + k, ids[k])
      OBVIOUS
    <2>3. 0 <= Len(ids)
      OBVIOUS
    <2> QED BY <1>8, <2>1, <2>2, <2>3 DEF Open
  <1>12. \A n : Low(h, n) => Low(g, n)
    BY <1>7 DEF Low
  <1> QED BY <1>1, <1>3, <1>10, <1>11, <1>12

\* The results of all calls of the last answer, after it.
LEMMA OpenJoin ==
  ASSUME NEW h \in Seq(Message), NEW ids \in Seq(CallIds), Open(h, ids, 0), Plain(h),
         NEW b \in Seq(Answer), Len(b) = Len(ids), \A i \in DOMAIN b : b[i].call = ids[i]
  PROVE  /\ h \o b \in Seq(Message) /\ Complete(h \o b) /\ Plain(h \o b)
         /\ \A n : Low(h, n) /\ (\A i \in DOMAIN ids : ids[i] <= n) => Low(h \o b, n)
  <1>1. b \in Seq(Message) /\ \A i \in DOMAIN b : b[i] \in Answer
    BY AnswersAreMessages
  <1>2. PICK g \in Seq(Message) : g = h \o b
    BY <1>1, JoinParts
  <1>3. PICK l \in Nat : l = Len(h) /\ DOMAIN h = 1 .. l
    BY JoinParts
  <1>4. PICK c \in Nat : c = Len(b) /\ DOMAIN b = 1 .. c /\ DOMAIN ids = 1 .. c
    BY <1>1
  <1>5. /\ DOMAIN g = 1 .. l + c /\ \A i \in 1 .. l : g[i] = h[i]
        /\ \A i \in 1 .. c : g[l + i] = b[i]
    BY ZenonT(60), <1>1, <1>2, <1>3, <1>4, JoinParts
  <1>6. \A i \in DOMAIN g : i \in DOMAIN h \/ \E j \in DOMAIN b : i = l + j
    <2>1. \A i \in 1 .. l + c : i \in 1 .. l \/ (i - l \in 1 .. c /\ i = l + (i - l))
      OBVIOUS
    <2> QED BY <1>3, <1>4, <1>5, <2>1
  <1>7. \A j \in DOMAIN b : b[j].role = "tool" /\ b[j].call = ids[j]
    BY <1>1 DEF Answer
  <1>8. \A i : IsSpeech(g, i) => IsSpeech(h, i) /\ g[i] = h[i]
    <2>1. ASSUME NEW i, IsSpeech(g, i)
          PROVE  IsSpeech(h, i) /\ g[i] = h[i]
      <3>1. i \in DOMAIN h
        BY <1>4, <1>5, <1>6, <1>7, <2>1 DEF IsSpeech
      <3> QED BY <1>3, <1>5, <2>1, <3>1 DEF IsSpeech
    <2> QED BY <2>1
  <1>9. \A i, id : Answers(h, i, id) => Answers(g, i, id)
    BY <1>3, <1>5 DEF Answers
  <1>10. PICK n \in DOMAIN h :
            /\ h[n].role = "assistant" /\ h[n].calls = ids /\ Len(h) = n + 0
            /\ \A i : IsSpeech(h, i) /\ i # n => Whole(h, i)
    BY DEF Open
  <1>11. n = l
    BY <1>3, <1>10
  <1>12. Whole(g, l)
    <2>1. g[l].calls = ids
      BY <1>3, <1>5, <1>10, <1>11
    <2>2. \A k \in 1 .. c : Answers(g, l + k, ids[k])
      <3>1. \A k \in 1 .. c : l + k \in 1 .. l + c
        OBVIOUS
      <3> QED BY ZenonT(60), <1>4, <1>5, <1>7, <3>1 DEF Answers
    <2> QED BY <1>4, <2>1, <2>2 DEF Whole
  <1>13. \A i : IsSpeech(g, i) => Whole(g, i)
    <2>1. ASSUME NEW i, IsSpeech(g, i), i # l
          PROVE  Whole(g, i)
      <3>1. IsSpeech(h, i) /\ g[i] = h[i] /\ Whole(h, i)
        BY <1>8, <1>10, <1>11, <2>1
      <3> QED BY <1>9, <3>1, WholeMoves
    <2> QED BY <1>12, <2>1
  <1>14. Plain(g)
    BY <1>8 DEF Plain
  <1>15. ASSUME NEW m, Low(h, m), \A i \in DOMAIN ids : ids[i] <= m
         PROVE  Low(g, m)
    <2>1. ASSUME NEW i, NEW id, Answers(g, i, id)
          PROVE  id <= m
      <3>1. CASE i \in DOMAIN h
        <4>1. Answers(h, i, id)
          BY <1>3, <1>5, <2>1, <3>1 DEF Answers
        <4> QED BY <1>15, <4>1 DEF Low
      <3>2. CASE \E j \in DOMAIN b : i = l + j
        BY <1>4, <1>5, <1>7, <1>15, <2>1, <3>2 DEF Answers
      <3> QED BY <1>6, <2>1, <3>1, <3>2 DEF Answers
    <2> QED BY <2>1 DEF Low
  <1> QED BY <1>2, <1>13, <1>14, <1>15, CompleteMeans

----------------------------------------------------------------------------
(* The history that is rebuilt from the events.                            *)

\* A call is in a history, and is lost in it if it has no result and is not to get one.
Says(h, i, c) == IsSpeech(h, i) /\ \E k \in DOMAIN h[i].calls : h[i].calls[k] = c

LostCall(h, S) == \E c : /\ c \notin S
                         /\ \E i : Says(h, i, c)
                         /\ \A j : ~Answers(h, j, c)

\* No call of the set has its result yet.
Unused(h, S) == \A j, c : Answers(h, j, c) => c \notin S

\* A history is fair if the calls that still get their results, S, have none in it, and
\* either another call is lost in it or it is whole, but for an answer whose results come.
FairOf(h, S, open, ids, d) ==
    /\ Unused(h, S)
    /\ LostCall(h, S) \/ (Plain(h) /\ (Complete(h) \/ (open /\ Open(h, ids, d))))

LEMMA LostStays ==
  ASSUME NEW h, NEW g, NEW S, NEW T, T \subseteq S, LostCall(h, S),
         \A i, c : Says(h, i, c) => Says(g, i, c),
         \A j, c : Answers(g, j, c) => Answers(h, j, c) \/ c \in S
  PROVE  LostCall(g, T)
  BY DEF LostCall

\* The calls that are left become fewer: of an open answer those that get no result are lost.
LEMMA FairShrinks ==
  ASSUME NEW h \in Seq(Message), NEW S, NEW T, T \subseteq S, NEW open, NEW ids, NEW d,
         FairOf(h, S, open, ids, d), NEW still, NEW ids2, NEW d2,
         open => \/ still /\ ids2 = ids /\ d2 = d
                 \/ ids = <<>>
                 \/ d = Len(ids)
                 \/ d + 1 \in DOMAIN ids /\ ids[d + 1] \in S /\ ids[d + 1] \notin T
  PROVE  FairOf(h, T, still, ids2, d2)
  <1>1. Unused(h, T)
    BY DEF FairOf, Unused
  <1>2. CASE LostCall(h, S)
    <2>1. LostCall(h, T)
      BY <1>2, LostStays
    <2> QED BY <1>1, <2>1 DEF FairOf
  <1>3. CASE Plain(h) /\ Complete(h)
    BY <1>1, <1>3 DEF FairOf
  <1>4. CASE Plain(h) /\ open /\ Open(h, ids, d)
    <2>1. ids # <<>>
      BY <1>4 DEF Open
    <2>2. PICK n \in DOMAIN h :
            /\ h[n].role = "assistant" /\ h[n].calls = ids
            /\ \A k \in 1 .. d : Answers(h, n + k, ids[k])
            /\ \A i : IsSpeech(h, i) /\ i # n => Whole(h, i)
      BY <1>4 DEF Open
    <2>3. CASE still /\ ids2 = ids /\ d2 = d
      BY <1>1, <1>4, <2>3 DEF FairOf
    <2>4. CASE d = Len(ids)
      <3>1. DOMAIN h[n].calls = 1 .. Len(h[n].calls)
        <4>1. h[n] \in Message
          OBVIOUS
        <4> QED BY <2>2, <4>1, MessageParts
      <3>2. Whole(h, n)
        BY <2>2, <2>4, <3>1 DEF Whole
      <3>3. Complete(h)
        BY <2>2, <3>2, CompleteMeans
      <3> QED BY <1>1, <1>4, <3>3 DEF FairOf
    <2>5. CASE d + 1 \in DOMAIN ids /\ ids[d + 1] \in S /\ ids[d + 1] \notin T
      <3>1. Says(h, n, ids[d + 1])
        BY <2>2, <2>5 DEF Says, IsSpeech
      <3>2. \A j : ~Answers(h, j, ids[d + 1])
        BY <2>5 DEF FairOf, Unused
      <3>3. LostCall(h, T)
        BY <2>5, <3>1, <3>2 DEF LostCall
      <3> QED BY <1>1, <3>3 DEF FairOf
    <2> QED BY <1>4, <2>1, <2>3, <2>4, <2>5
  <1> QED BY <1>2, <1>3, <1>4 DEF FairOf

\* The last message continued, or a new one.
Speaks(h, g, n, text, ids) ==
    /\ n \in Nat /\ DOMAIN g = 1 .. n /\ Len(g) = n /\ n \in DOMAIN g
    /\ DOMAIN h \subseteq DOMAIN g
    /\ \A j \in DOMAIN g : j # n => j \in DOMAIN h /\ g[j] = h[j]
    /\ \/ /\ n \in DOMAIN h /\ h[n].role = "assistant" /\ n + 1 \notin DOMAIN h
          /\ g[n] = Assistant(h[n].text \/ text, h[n].calls \o ids)
       \/ n \notin DOMAIN h /\ g[n] = Assistant(text, ids)

LEMMA SpokenParts ==
  ASSUME NEW h \in Seq(Message), NEW text \in BOOLEAN, NEW ids \in Seq(CallIds)
  PROVE  \E n \in Nat : Speaks(h, Spoken(h, text, ids), n, text, ids)
  <1>1. PICK n \in Nat : n = Len(h) /\ DOMAIN h = 1 .. n
    OBVIOUS
  <1>2. PICK g \in Seq(Message) : g = Spoken(h, text, ids)
    BY SpokenType
  <1>3. CASE n > 0 /\ h[n].role = "assistant"
    <2>1. PICK m : m = Assistant(h[n].text \/ text, h[n].calls \o ids)
      OBVIOUS
    <2>2. g = [h EXCEPT ![n] = m]
      BY <1>1, <1>2, <1>3, <2>1 DEF Spoken
    <2>3. /\ DOMAIN g = 1 .. n /\ g[n] = m /\ \A j \in 1 .. n : j # n => g[j] = h[j]
          /\ Len(g) = n
      BY <1>1, <1>3, <2>2
    <2>4. n \in DOMAIN g /\ n + 1 \notin DOMAIN h
      BY <1>1, <1>3, <2>3
    <2>5. Speaks(h, g, n, text, ids)
      BY <1>1, <1>3, <2>1, <2>3, <2>4 DEF Speaks
    <2> QED BY <1>2, <2>5
  <1>4. CASE ~(n > 0 /\ h[n].role = "assistant")
    <2>1. PICK m \in Message : m = Assistant(text, ids)
      BY Messages
    <2>2. g = Append(h, m)
      BY <1>1, <1>2, <1>4, <2>1 DEF Spoken
    <2>3. /\ DOMAIN g = 1 .. n + 1 /\ Len(g) = n + 1 /\ g[n + 1] = m
          /\ \A j \in 1 .. n : g[j] = h[j]
      BY <1>1, <2>2
    <2>4. /\ n + 1 \in DOMAIN g /\ n + 1 \in Nat /\ n + 1 \notin DOMAIN h
          /\ \A j \in DOMAIN g : j # n + 1 => j \in DOMAIN h
          /\ DOMAIN h \subseteq DOMAIN g
      BY <1>1, <2>3
    <2>5. Speaks(h, g, n + 1, text, ids)
      BY <1>1, <2>1, <2>3, <2>4 DEF Speaks
    <2> QED BY <1>2, <2>4, <2>5
  <1> QED BY <1>3, <1>4

\* Text or calls are added to a fair history in which no answer is open.
LEMMA FairSpeaks ==
  ASSUME NEW h \in Seq(Message), NEW text \in BOOLEAN, NEW ids \in Seq(CallIds),
         NEW S, NEW T, T \subseteq S, NEW open, NEW d, FairOf(h, S, open, <<>>, d)
  PROVE  FairOf(Spoken(h, text, ids), T, TRUE, ids, 0)
  <1>1. PICK g \in Seq(Message) : g = Spoken(h, text, ids)
    BY SpokenType
  <1>2. PICK n \in Nat : Speaks(h, g, n, text, ids)
    BY <1>1, SpokenParts
  <1>3. g[n].role = "assistant" /\ n \in DOMAIN g
    BY <1>2, MadeOf DEF Speaks
  <1>4. \A j, c : Answers(h, j, c) <=> Answers(g, j, c)
    <2>1. \A j, c : Answers(g, j, c) => Answers(h, j, c)
      BY <1>2, <1>3 DEF Answers, Speaks
    <2>2. \A j, c : Answers(h, j, c) => Answers(g, j, c)
      BY <1>2, <1>3 DEF Answers, Speaks
    <2> QED BY <2>1, <2>2
  <1>5. Unused(g, T)
    BY <1>4 DEF FairOf, Unused
  <1>6. CASE LostCall(h, S)
    <2>1. ASSUME NEW i, NEW c, Says(h, i, c)
          PROVE  Says(g, i, c)
      <3>1. CASE i # n
        <4>1. i \in DOMAIN g /\ g[i] = h[i]
          BY <1>2, <2>1, <3>1 DEF Speaks, Says, IsSpeech
        <4> QED BY <2>1, <4>1 DEF Says, IsSpeech
      <3>2. CASE i = n
        <4>1. n \in DOMAIN h /\ g[n] = Assistant(h[n].text \/ text, h[n].calls \o ids)
          BY <1>2, <2>1, <3>2 DEF Speaks, Says, IsSpeech
        <4>2. PICK s \in Seq(0 .. MaxCalls) : s = h[n].calls
          <5>1. h[n] \in Message /\ h[n].role = "assistant"
            BY <2>1, <3>2, <4>1 DEF Says, IsSpeech
          <5> QED BY <5>1, MessageParts
        <4>3. ids \in Seq(0 .. MaxCalls)
          BY Constants DEF CallIds
        <4>4. \A k \in DOMAIN s : k \in DOMAIN (s \o ids) /\ (s \o ids)[k] = s[k]
          BY <4>3
        <4>5. g[n].calls = s \o ids
          <5>1. PICK x : x = (h[n].text \/ text)
            OBVIOUS
          <5>2. PICK y : y = s \o ids
            OBVIOUS
          <5>3. g[n] = Assistant(x, y)
            BY <4>1, <4>2, <5>1, <5>2
          <5> QED BY <5>2, <5>3 DEF Assistant
        <4>6. PICK k \in DOMAIN s : s[k] = c
          BY <2>1, <3>2, <4>2 DEF Says
        <4>7. k \in DOMAIN g[n].calls /\ g[n].calls[k] = c
          BY <4>4, <4>5, <4>6
        <4> QED BY <1>3, <3>2, <4>7 DEF Says, IsSpeech
      <3> QED BY <3>1, <3>2
    <2>2. LostCall(g, T)
      BY <1>4, <1>6, <2>1, LostStays
    <2> QED BY <1>1, <1>5, <2>2 DEF FairOf
  <1>7. CASE Plain(h) /\ Complete(h)
    <2>1. g[n].calls = ids
      <3>1. CASE n \notin DOMAIN h
        BY <1>2, <3>1, MadeOf DEF Speaks
      <3>2. CASE n \in DOMAIN h
        <4>1. IsSpeech(h, n) /\ n + 1 \notin DOMAIN h
              /\ g[n] = Assistant(h[n].text \/ text, h[n].calls \o ids)
          BY <1>2, <3>2 DEF Speaks, IsSpeech
        <4>2. Whole(h, n)
          BY <1>7, <4>1, CompleteMeans
        <4>3. PICK s \in Seq(0 .. MaxCalls) : s = h[n].calls
          <5>1. h[n] \in Message /\ h[n].role = "assistant"
            BY <3>2, <4>1 DEF IsSpeech
          <5> QED BY <5>1, MessageParts
        <4>4. 1 \notin DOMAIN s
          BY <4>1, <4>2, <4>3 DEF Whole, Answers
        <4>5. s = <<>>
          BY <4>4
        <4>6. ids \in Seq(0 .. MaxCalls)
          BY Constants DEF CallIds
        <4>7. s \o ids = ids
          BY <4>5, <4>6
        <4>8. g[n].calls = s \o ids
          <5>1. PICK x : x = (h[n].text \/ text)
            OBVIOUS
          <5>2. PICK y : y = s \o ids
            OBVIOUS
          <5>3. g[n] = Assistant(x, y)
            BY <4>1, <4>3, <5>1, <5>2
          <5> QED BY <5>2, <5>3 DEF Assistant
        <4> QED BY <4>7, <4>8
      <3> QED BY <3>1, <3>2
    <2>2. ASSUME NEW i, IsSpeech(g, i), i # n
          PROVE  /\ Whole(g, i)
                 /\ g[i] = Summary[1] \/ \A k \in DOMAIN g[i].calls : g[i].calls[k] # 0
      <3>1. g[i] = h[i] /\ IsSpeech(h, i)
        BY <1>2, <2>2 DEF IsSpeech, Speaks
      <3>2. Whole(h, i) /\ (h[i] = Summary[1] \/ \A k \in DOMAIN h[i].calls : h[i].calls[k] # 0)
        BY <1>7, <3>1, CompleteMeans DEF Plain
      <3>3. Whole(g, i)
        BY <1>4, <3>1, <3>2, WholeMoves
      <3> QED BY <3>1, <3>2, <3>3
    <2>3. \A k \in DOMAIN ids : ids[k] # 0
      <3>1. \A k \in DOMAIN ids : ids[k] \in CallIds
        OBVIOUS
      <3> QED BY <3>1, Constants DEF CallIds
    <2>4. Plain(g)
      BY <2>1, <2>2, <2>3 DEF Plain
    <2>5. CASE ids = <<>>
      <3>1. DOMAIN <<>> = {}
        OBVIOUS
      <3>2. Whole(g, n)
        BY <2>1, <2>5, <3>1 DEF Whole
      <3>3. Complete(g)
        BY <2>2, <3>2, CompleteMeans
      <3> QED BY <1>1, <1>5, <2>4, <3>3 DEF FairOf
    <2>6. CASE ids # <<>>
      <3>1. 0 <= Len(ids) /\ Len(g) = n + 0
        BY <1>2 DEF Speaks
      <3>2. \A k \in 1 .. 0 : Answers(g, n + k, ids[k])
        OBVIOUS
      <3>3. Open(g, ids, 0)
        BY <1>3, <2>1, <2>2, <2>6, <3>1, <3>2 DEF Open
      <3> QED BY <1>1, <1>5, <2>4, <3>3 DEF FairOf
    <2> QED BY <2>5, <2>6
  <1>8. ~Open(h, <<>>, d)
    BY DEF Open
  <1> QED BY <1>6, <1>7, <1>8 DEF FairOf

\* The result of the next of the calls that are left.
LEMMA FairGives ==
  ASSUME NEW h \in Seq(Message), NEW S, NEW T, T \subseteq S, NEW ids \in Seq(CallIds),
         NEW d \in Nat, d + 1 \in DOMAIN ids, ids[d + 1] \in S, ids[d + 1] \notin T,
         FairOf(h, S, TRUE, ids, d), NEW body \in Bodies \cup {"notice"}
  PROVE  FairOf(Append(h, Result(ids[d + 1], body)), T, TRUE, ids, d + 1)
  <1>1. PICK id \in CallIds : id = ids[d + 1]
    OBVIOUS
  <1>2. PICK m \in Message : m = Result(id, body)
    BY Messages
  <1>3. m.role = "tool" /\ m.call = id
    BY <1>2, MadeOf
  <1>4. PICK g \in Seq(Message) : g = Append(h, m)
    <2>1. Append(h, m) \in Seq(Message)
      OBVIOUS
    <2> QED BY <2>1
  <1>5. PICK l \in Nat : l = Len(h) /\ DOMAIN h = 1 .. l
    BY JoinParts
  <1>6. DOMAIN g = 1 .. l + 1 /\ Len(g) = l + 1 /\ g[l + 1] = m /\ \A i \in 1 .. l : g[i] = h[i]
    BY <1>4, <1>5
  <1>7. \A i \in DOMAIN g : i = l + 1 \/ i \in DOMAIN h
    BY <1>5, <1>6
  <1>8. /\ \A j, c : Answers(h, j, c) => Answers(g, j, c)
        /\ Answers(g, l + 1, id)
        /\ \A j, c : Answers(g, j, c) => Answers(h, j, c) \/ c = id
    <2>1. \A j, c : Answers(h, j, c) => Answers(g, j, c)
      BY <1>5, <1>6 DEF Answers
    <2>2. Answers(g, l + 1, id)
      BY <1>3, <1>6 DEF Answers
    <2>3. \A j, c : Answers(g, j, c) => Answers(h, j, c) \/ c = id
      BY <1>3, <1>5, <1>6, <1>7 DEF Answers
    <2> QED BY <2>1, <2>2, <2>3
  <1>9. \A i : IsSpeech(g, i) <=> IsSpeech(h, i)
    <2>1. \A i : IsSpeech(g, i) => IsSpeech(h, i)
      BY <1>3, <1>5, <1>6, <1>7 DEF IsSpeech
    <2>2. \A i : IsSpeech(h, i) => IsSpeech(g, i)
      BY <1>5, <1>6 DEF IsSpeech
    <2> QED BY <2>1, <2>2
  <1>10. \A i : IsSpeech(h, i) => g[i] = h[i]
    BY <1>5, <1>6 DEF IsSpeech
  <1>11. Unused(g, T)
    BY <1>1, <1>8 DEF FairOf, Unused
  <1>12. CASE LostCall(h, S)
    <2>1. \A i, c : Says(h, i, c) => Says(g, i, c)
      BY <1>9, <1>10 DEF Says
    <2>2. LostCall(g, T)
      BY <1>1, <1>8, <1>12, <2>1, LostStays
    <2> QED BY <1>1, <1>2, <1>4, <1>11, <2>2 DEF FairOf
  <1>13. CASE Plain(h)
    <2>1. Plain(g)
      BY <1>9, <1>10, <1>13 DEF Plain
    <2>2. ASSUME NEW i, IsSpeech(g, i), Whole(h, i)
          PROVE  Whole(g, i)
      BY <1>8, <1>9, <1>10, <2>2, WholeMoves
    <2>3. CASE Complete(h)
      <3>1. Complete(g)
        BY <1>9, <2>2, <2>3, CompleteMeans
      <3> QED BY <1>1, <1>2, <1>4, <1>11, <2>1, <3>1 DEF FairOf
    <2>4. CASE Open(h, ids, d)
      <3>1. PICK n \in DOMAIN h :
              /\ h[n].role = "assistant" /\ h[n].calls = ids /\ Len(h) = n + d
              /\ \A k \in 1 .. d : Answers(h, n + k, ids[k])
              /\ \A i : IsSpeech(h, i) /\ i # n => Whole(h, i)
        BY <2>4 DEF Open
      <3>2. n \in Nat /\ l + 1 = n + (d + 1) /\ n \in DOMAIN g
        <4>1. n \in 1 .. l /\ l = n + d
          BY <1>5, <3>1
        <4>2. n \in Nat /\ l + 1 = n + (d + 1) /\ n \in 1 .. l + 1
          BY SMTT(60), <1>5, <4>1
        <4> QED BY <1>6, <4>2
      <3>3. g[n].role = "assistant" /\ g[n].calls = ids
        BY <1>5, <1>6, <3>1
      <3>4. \A k \in 1 .. d + 1 : Answers(g, n + k, ids[k])
        <4>1. \A k \in 1 .. d + 1 : k \in 1 .. d \/ k = d + 1
          OBVIOUS
        <4> QED BY <1>1, <1>8, <3>1, <3>2, <4>1
      <3>5. \A i : IsSpeech(g, i) /\ i # n => Whole(g, i)
        BY <1>9, <2>2, <3>1
      <3>6. d + 1 <= Len(ids) /\ ids # <<>>
        OBVIOUS
      <3>7. Open(g, ids, d + 1)
        BY <1>6, <3>2, <3>3, <3>4, <3>5, <3>6 DEF Open
      <3> QED BY <1>1, <1>2, <1>4, <1>11, <2>1, <3>7 DEF FairOf
    <2> QED BY <1>12, <2>3, <2>4 DEF FairOf
  <1> QED BY <1>12, <1>13 DEF FairOf

\* A sound history that knows no result of the calls that are left.
LEMMA FairSound ==
  ASSUME NEW h \in Seq(Message), NEW n \in Nat, Sound(h, n), NEW S, \A c \in S : ~(c <= n),
         NEW open, NEW ids, NEW d
  PROVE  FairOf(h, S, open, ids, d)
  BY DEF Sound, Low, Unused, FairOf

LEMMA FairEmpty ==
  ASSUME NEW S, NEW open, NEW ids, NEW d
  PROVE  <<>> \in Seq(Message) /\ FairOf(<<>>, S, open, ids, d)
  <1>1. DOMAIN <<>> = {} /\ <<>> \in Seq(Message)
    OBVIOUS
  <1> QED BY <1>1 DEF FairOf, Unused, Plain, Complete, IsSpeech, Answers

\* A fair history without a call that is not answered, when none is to come.
LEMMA FairSettled ==
  ASSUME NEW h \in Seq(Message), NEW n \in Nat, NEW S, FairOf(h, S, FALSE, <<>>, 0), ~Pending(h),
         \A c \in 0 .. MaxCalls : c \in S \/ c <= n
  PROVE  Sound(h, n)
  <1>1. ~LostCall(h, S)
    BY DEF LostCall, Says, IsSpeech, Answers, Pending
  <1>2. Low(h, n)
    <2>1. ASSUME NEW j, NEW c, Answers(h, j, c)
          PROVE  c <= n
      <3>1. c \in 0 .. MaxCalls
        <4>1. h[j] \in Message /\ h[j].role = "tool"
          BY <2>1 DEF Answers
        <4> QED BY <2>1, <4>1, MessageParts DEF Answers
      <3> QED BY <2>1, <3>1 DEF FairOf, Unused
    <2> QED BY <2>1 DEF Low
  <1> QED BY <1>1, <1>2 DEF FairOf, Sound

\* What the chat does with an event (Receive, ReceivePrompt).
Applied(h, e) ==
    CASE e.type = "text"      -> Spoken(h, TRUE, <<>>)
      [] e.type = "calls"     -> Spoken(h, FALSE, e.calls)
      [] e.type = "tool"      -> Append(h, Result(e.call, e.body))
      [] e.type = "compacted" -> e.messages
      [] OTHER                -> h

\* The history that the events after the first m make of another, one after the other.
Trace(L, s, m, from, h) ==
    /\ L[m] = from /\ L[Len(s)] = h
    /\ \A i \in m + 1 .. Len(s) : L[i] = Applied(L[i - 1], s[i])

Replays(s, m, from, h) == \E L \in [m .. Len(s) -> Seq(Message)] : Trace(L, s, m, from, h)

LEMMA AppliedType ==
  ASSUME NEW h \in Seq(Message), NEW e \in Event
  PROVE  Applied(h, e) \in Seq(Message)
  <1>1. <<>> \in Seq(CallIds)
    OBVIOUS
  <1>2. CASE e.type = "text"
    BY <1>1, <1>2, SpokenType DEF Applied
  <1>3. CASE e.type = "calls"
    BY <1>3, EventParts, SpokenType DEF Applied
  <1>4. CASE e.type = "tool"
    <2>1. PICK m \in Message : m = Result(e.call, e.body)
      BY <1>4, EventParts, Messages
    <2>2. Append(h, m) \in Seq(Message)
      OBVIOUS
    <2> QED BY <1>4, <2>1, <2>2 DEF Applied
  <1>5. CASE e.type = "compacted"
    BY <1>5, EventParts DEF Applied
  <1>6. CASE e.type \notin {"text", "calls", "tool", "compacted"}
    BY <1>6 DEF Applied
  <1> QED BY <1>2, <1>3, <1>4, <1>5, <1>6

LEMMA ReplaysNone ==
  ASSUME NEW s \in Seq(Event), NEW from \in Seq(Message)
  PROVE  Replays(s, Len(s), from, from)
  <1>1. PICK n \in Nat : n = Len(s)
    OBVIOUS
  <1>2. PICK L \in [n .. n -> Seq(Message)] : L = [i \in n .. n |-> from]
    OBVIOUS
  <1>3. L[n] = from /\ \A i \in n + 1 .. n : L[i] = Applied(L[i - 1], s[i])
    BY <1>1, <1>2
  <1> QED BY <1>1, <1>3 DEF Replays, Trace

LEMMA ReplaysAll ==
  ASSUME NEW s \in Seq(Event), NEW from, NEW h, Replays(s, Len(s), from, h)
  PROVE  h = from
  BY DEF Replays, Trace

\* One event more.
LEMMA ReplaysAppend ==
  ASSUME NEW s \in Seq(Event), NEW m \in 0 .. Len(s), NEW from, NEW h \in Seq(Message),
         Replays(s, m, from, h), NEW e \in Event
  PROVE  /\ Replays(Append(s, e), m, from, Applied(h, e))
         /\ Append(s, e) \in Seq(Event) /\ Len(Append(s, e)) = Len(s) + 1
  <1>1. PICK n \in Nat : n = Len(s) /\ m \in 0 .. n
    OBVIOUS
  <1>2. PICK t \in Seq(Event) : t = Append(s, e)
    <2>1. Append(s, e) \in Seq(Event)
      OBVIOUS
    <2> QED BY <2>1
  <1>3. Len(t) = n + 1 /\ t[n + 1] = e /\ \A i \in 1 .. n : t[i] = s[i]
    BY <1>1, <1>2
  <1>4. PICK L \in [m .. n -> Seq(Message)] :
          /\ L[m] = from /\ L[n] = h
          /\ \A i \in m + 1 .. n : L[i] = Applied(L[i - 1], s[i])
    BY <1>1 DEF Replays, Trace
  <1>5. PICK g \in Seq(Message) : g = Applied(h, e)
    BY AppliedType
  <1>6. PICK K \in [m .. n + 1 -> Seq(Message)] :
          K = [i \in m .. n + 1 |-> IF i = n + 1 THEN g ELSE L[i]]
    <2>1. \A i \in m .. n + 1 : i # n + 1 => i \in m .. n
      BY <1>1
    <2>2. \A i \in m .. n + 1 : (IF i = n + 1 THEN g ELSE L[i]) \in Seq(Message)
      BY <1>4, <1>5, <2>1
    <2>3. [i \in m .. n + 1 |-> IF i = n + 1 THEN g ELSE L[i]] \in [m .. n + 1 -> Seq(Message)]
      BY <2>2
    <2> QED BY <2>3
  <1>7. K[n + 1] = g /\ \A i \in m .. n : K[i] = L[i]
    BY <1>1, <1>6
  <1>8. \A i \in m + 1 .. n + 1 : K[i] = Applied(K[i - 1], t[i])
    <2>1. ASSUME NEW i \in m + 1 .. n + 1
          PROVE  K[i] = Applied(K[i - 1], t[i])
      <3>1. CASE i = n + 1
        <4>1. i - 1 = n /\ n \in m .. n
          BY <1>1, <3>1
        <4> QED BY <1>3, <1>4, <1>5, <1>7, <3>1, <4>1
      <3>2. CASE i # n + 1
        <4>1. i \in m + 1 .. n /\ i \in m .. n /\ i - 1 \in m .. n /\ i \in 1 .. n
          BY <1>1, <3>2
        <4> QED BY <1>3, <1>4, <1>7, <4>1
      <3> QED BY <3>1, <3>2
    <2> QED BY <2>1
  <1>9. K[m] = from /\ K[Len(t)] = g
    <2>1. m \in m .. n
      BY <1>1
    <2> QED BY <1>3, <1>4, <1>7, <2>1
  <1>10. Trace(K, t, m, from, g)
    BY <1>3, <1>8, <1>9 DEF Trace
  <1>11. K \in [m .. Len(t) -> Seq(Message)]
    BY <1>3, <1>6
  <1>12. Replays(t, m, from, g)
    BY <1>10, <1>11 DEF Replays
  <1> QED BY <1>1, <1>2, <1>3, <1>5, <1>12

\* The first event taken.
LEMMA ReplaysFirst ==
  ASSUME NEW s \in Seq(Event), s # <<>>, NEW from, NEW h, Replays(s, 0, from, h)
  PROVE  Replays(s, 1, Applied(from, Head(s)), h)
  <1>1. PICK n \in Nat : n = Len(s) /\ n >= 1 /\ Head(s) = s[1]
    OBVIOUS
  <1>2. PICK L \in [0 .. n -> Seq(Message)] :
          /\ L[0] = from /\ L[n] = h
          /\ \A i \in 1 .. n : L[i] = Applied(L[i - 1], s[i])
    BY <1>1 DEF Replays, Trace
  <1>3. PICK K \in [1 .. n -> Seq(Message)] : K = [i \in 1 .. n |-> L[i]]
    <2>1. \A i \in 1 .. n : i \in 0 .. n
      OBVIOUS
    <2>2. [i \in 1 .. n |-> L[i]] \in [1 .. n -> Seq(Message)]
      BY <1>2, <2>1
    <2> QED BY <2>2
  <1>4. K[1] = Applied(from, Head(s))
    <2>1. 1 - 1 = 0 /\ 1 \in 1 .. n
      BY <1>1
    <2>2. L[1] = Applied(L[0], s[1])
      BY <1>2, <2>1
    <2> QED BY <1>1, <1>2, <1>3, <2>1, <2>2
  <1>5. \A i \in 1 + 1 .. n : K[i] = Applied(K[i - 1], s[i])
    <2>1. \A i \in 1 + 1 .. n : i \in 1 .. n /\ i - 1 \in 1 .. n
      OBVIOUS
    <2> QED BY <1>2, <1>3, <2>1
  <1>6. K[n] = h
    BY <1>1, <1>2, <1>3
  <1>7. Trace(K, s, 1, Applied(from, Head(s)), h)
    BY <1>1, <1>4, <1>5, <1>6 DEF Trace
  <1> QED BY <1>1, <1>3, <1>7 DEF Replays

LEMMA ReplaysTail ==
  ASSUME NEW s \in Seq(Event), s # <<>>, NEW m \in Nat, m + 1 <= Len(s), NEW from, NEW h,
         Replays(s, m + 1, from, h)
  PROVE  Replays(Tail(s), m, from, h)
  <1>1. PICK n \in Nat : Len(s) = n + 1
    <2>1. Len(s) - 1 \in Nat /\ Len(s) = (Len(s) - 1) + 1
      OBVIOUS
    <2> QED BY <2>1
  <1>2. PICK t \in Seq(Event) : t = Tail(s)
    <2>1. Tail(s) \in Seq(Event)
      OBVIOUS
    <2> QED BY <2>1
  <1>3. Len(t) = n /\ \A i \in 1 .. n : t[i] = s[i + 1]
    BY <1>1, <1>2
  <1>4. PICK L \in [m + 1 .. n + 1 -> Seq(Message)] :
          /\ L[m + 1] = from /\ L[n + 1] = h
          /\ \A i \in (m + 1) + 1 .. n + 1 : L[i] = Applied(L[i - 1], s[i])
    BY <1>1 DEF Replays, Trace
  <1>5. PICK K \in [m .. n -> Seq(Message)] : K = [i \in m .. n |-> L[i + 1]]
    <2>1. \A i \in m .. n : i + 1 \in m + 1 .. n + 1
      BY <1>1
    <2>2. [i \in m .. n |-> L[i + 1]] \in [m .. n -> Seq(Message)]
      BY <1>4, <2>1
    <2> QED BY <2>2
  <1>6. m \in m .. n /\ n \in m .. n
    BY <1>1
  <1>7. K[m] = from /\ K[n] = h
    BY <1>4, <1>5, <1>6
  <1>8. \A i \in m + 1 .. n : K[i] = Applied(K[i - 1], t[i])
    <2>1. ASSUME NEW i \in m + 1 .. n
          PROVE  K[i] = Applied(K[i - 1], t[i])
      <3>1. /\ i \in m .. n /\ i - 1 \in m .. n /\ i \in 1 .. n /\ (i - 1) + 1 = i
            /\ i + 1 \in (m + 1) + 1 .. n + 1 /\ (i + 1) - 1 = i
        BY <1>1
      <3>2. L[i + 1] = Applied(L[i], s[i + 1])
        BY <1>4, <3>1
      <3>3. K[i] = L[i + 1] /\ K[i - 1] = L[i]
        BY <1>5, <3>1
      <3> QED BY <1>3, <3>1, <3>2, <3>3
    <2> QED BY <2>1
  <1>9. Trace(K, t, m, from, h)
    BY <1>3, <1>7, <1>8 DEF Trace
  <1> QED BY <1>2, <1>3, <1>5, <1>9 DEF Replays

----------------------------------------------------------------------------
(* The invariant of the histories.                                         *)

\* Places at which calls wait for their results, and those at which an answer may be open.
Batching == Refusals \cup Asks \cup Runs
Works    == {"model"} \cup Batching

\* The calls of an answer are those with results and those left, in their order; ids are
\* given once.
BatchInv ==
    /\ run.pc = "model" => run.todo = <<>> /\ run.results = <<>>
    /\ run.pc # "model" =>
          /\ Len(run.results) + Len(run.todo) = Len(run.calls)
          /\ \A i \in DOMAIN run.results : run.results[i].call = run.calls[i].id
          /\ \A i \in DOMAIN run.todo : run.todo[i] = run.calls[Len(run.results) + i]
    /\ run.pc \notin Batching => run.todo = <<>>
    /\ \A i \in DOMAIN run.calls : run.calls[i].id <= bounds.calls
    /\ \A i, j \in DOMAIN run.calls : run.calls[i].id = run.calls[j].id => i = j

\* The session's history is answered but for the batch at hand.
TellInv ==
    /\ Plain(run.messages) /\ Low(run.messages, bounds.calls)
    /\ run.pc \in Batching => Open(run.messages, Ids(run.calls), 0)
    /\ run.pc \notin Batching => Complete(run.messages)

\* So are the histories that can become the conversation.
SoundInv ==
    /\ Sound(run.persisted, bounds.calls) /\ Sound(ui.messages, bounds.calls)
    /\ \A i \in DOMAIN events : events[i].type = "compacted" =>
          Sound(events[i].messages, bounds.calls)
    /\ run.pc = "off" => events = <<>> /\ ui.live = <<>>

\* The calls of the run that may still get a result in the events, and those to come.
Due    == IF run.pc = "model" THEN run.calls ELSE run.todo
Future == {Due[i].id : i \in DOMAIN Due} \cup (bounds.calls + 1 .. MaxCalls)

Fair(h) == FairOf(h, Future, run.pc \in Works, Ids(run.calls), Len(run.results))

\* The live history once the chat has read the channel, whenever it begins a new one.
Starts(m) == {<<>>} \cup (IF m = 0 THEN {ui.live} ELSE {})

FairInv ==
    \A m \in 0 .. Len(events) : \A from \in Starts(m) :
        \E h \in Seq(Message) : Replays(events, m, from, h) /\ Fair(h)

HistInv == BatchInv /\ TellInv /\ SoundInv /\ FairInv

LEMMA InitHist ==
  ASSUME Init
  PROVE  HistInv
  <1>1. /\ run = Off /\ events = <<>> /\ ui.messages = <<>> /\ ui.live = <<>> /\ bounds.calls = 0
    BY DEF Init
  <1>2. /\ run.pc = "off" /\ run.todo = <<>> /\ run.results = <<>> /\ run.calls = <<>>
        /\ run.messages = <<>> /\ run.persisted = <<>>
    BY <1>1 DEF Off
  <1>3. DOMAIN <<>> = {} /\ Len(<<>>) = 0 /\ "off" \notin Batching
    BY DEF Batching, Refusals, Asks, Runs
  <1>4. Sound(<<>>, 0)
    BY <1>3 DEF Sound, Complete, Plain, Low, Answers, IsSpeech
  <1>5. BatchInv
    BY <1>2, <1>3 DEF BatchInv
  <1>6. TellInv
    BY <1>1, <1>2, <1>3, <1>4 DEF TellInv, Sound
  <1>7. SoundInv
    BY <1>1, <1>2, <1>3, <1>4 DEF SoundInv
  <1>8. FairInv
    <2>1. \A m \in 0 .. Len(events) : m = 0 /\ m = Len(events)
      BY <1>1, <1>3
    <2>2. \A m : \A from \in Starts(m) : from = <<>>
      BY <1>1 DEF Starts
    <2>3. <<>> \in Seq(Message) /\ Fair(<<>>)
      BY FairEmpty DEF Fair
    <2>4. events \in Seq(Event)
      BY <1>1
    <2>5. Replays(events, Len(events), <<>>, <<>>)
      BY <2>3, <2>4, ReplaysNone
    <2> QED BY <2>1, <2>2, <2>3, <2>5 DEF FairInv
  <1> QED BY <1>5, <1>6, <1>7, <1>8 DEF HistInv

\* A step that leaves the channel and the live history: each fair history stays fair.
LEMMA FairStays ==
  ASSUME FairInv, UNCHANGED <<events, ui>>,
         \A h \in Seq(Message) : Fair(h) => Fair(h)'
  PROVE  FairInv'
  <1>1. \A m : Starts(m)' = Starts(m)
    BY DEF Starts
  <1>2. ASSUME NEW m \in 0 .. Len(events'), NEW from \in Starts(m)'
        PROVE  \E h \in Seq(Message) : Replays(events', m, from, h) /\ Fair(h)'
    <2>1. m \in 0 .. Len(events) /\ from \in Starts(m)
      BY <1>1, <1>2
    <2>2. PICK h \in Seq(Message) : Replays(events, m, from, h) /\ Fair(h)
      BY <2>1 DEF FairInv
    <2> QED BY <2>2
  <1> QED BY <1>2 DEF FairInv

\* A step that sends an event: each fair history is fair with it.
LEMMA FairSends ==
  ASSUME TypeInv, FairInv, UNCHANGED ui, NEW e \in Event, events' = Append(events, e),
         \A h, g \in Seq(Message) : Fair(h) /\ g = Applied(h, e) => Fair(g)'
  PROVE  FairInv'
  <1>1. PICK s \in Seq(Event) : s = events
    BY Known
  <1>2. PICK n \in Nat : n = Len(s)
    BY <1>1
  <1>3. PICK t \in Seq(Event) : t = Append(s, e) /\ Len(t) = n + 1 /\ events' = t
    <2>1. Append(s, e) \in Seq(Event) /\ Len(Append(s, e)) = n + 1
      BY <1>2
    <2> QED BY <1>1, <2>1
  <1>4. ASSUME NEW m \in 0 .. n + 1, NEW from \in Starts(m)'
        PROVE  \E h \in Seq(Message) : Replays(t, m, from, h) /\ Fair(h)'
    <2>1. CASE m = n + 1
      <3>1. from = <<>>
        BY <1>2, <1>4, <2>1 DEF Starts
      <3>2. <<>> \in Seq(Message) /\ Fair(<<>>)'
        BY FairEmpty DEF Fair
      <3>3. Replays(t, n + 1, <<>>, <<>>)
        BY <1>3, <3>2, ReplaysNone
      <3> QED BY <2>1, <3>1, <3>2, <3>3
    <2>2. CASE m # n + 1
      <3>1. m \in 0 .. n /\ from \in Starts(m)
        BY <1>4, <2>2 DEF Starts
      <3>2. PICK h \in Seq(Message) : Replays(s, m, from, h) /\ Fair(h)
        BY <1>1, <1>2, <3>1 DEF FairInv
      <3>3. PICK g \in Seq(Message) : g = Applied(h, e)
        BY AppliedType
      <3>4. Replays(t, m, from, g)
        BY <1>2, <1>3, <3>1, <3>2, <3>3, ReplaysAppend
      <3>5. Fair(g)'
        BY <3>2, <3>3
      <3> QED BY <3>4, <3>5
    <2> QED BY <2>1, <2>2
  <1> QED BY <1>3, <1>4 DEF FairInv

\* A step of the chat that takes an event or none, and begins a new live history or not.
LEMMA FairTaken ==
  ASSUME TypeInv, FairInv, Future' = Future, run'.pc = run.pc, run'.calls = run.calls,
         run'.results = run.results,
         \/ UNCHANGED events /\ ui'.live \in {ui.live, <<>>}
         \/ /\ events # <<>> /\ events' = Tail(events)
            /\ ui'.live \in {Applied(ui.live, Head(events)), <<>>}
  PROVE  FairInv'
  <1>1. PICK s \in Seq(Event) : s = events
    BY Known
  <1>2. \A h : Fair(h) => Fair(h)'
    BY DEF Fair
  <1>3. CASE UNCHANGED events /\ ui'.live \in {ui.live, <<>>}
    <2>1. \A m : Starts(m)' \subseteq Starts(m)
      BY <1>3 DEF Starts
    <2>2. ASSUME NEW m \in 0 .. Len(events), NEW from \in Starts(m)'
          PROVE  \E h \in Seq(Message) : Replays(events, m, from, h) /\ Fair(h)'
      <3>1. from \in Starts(m)
        BY <2>1, <2>2
      <3>2. PICK h \in Seq(Message) : Replays(events, m, from, h) /\ Fair(h)
        BY <2>2, <3>1 DEF FairInv
      <3> QED BY <1>2, <3>2
    <2> QED BY <1>3, <2>2 DEF FairInv
  <1>4. CASE /\ events # <<>> /\ events' = Tail(events)
             /\ ui'.live \in {Applied(ui.live, Head(events)), <<>>}
    <2>1. PICK n \in Nat : Len(s) = n + 1
      <3>1. Len(s) - 1 \in Nat /\ Len(s) = (Len(s) - 1) + 1
        BY <1>1, <1>4
      <3> QED BY <3>1
    <2>2. PICK t \in Seq(Event) : t = Tail(s) /\ Len(t) = n /\ events' = t
      <3>1. Tail(s) \in Seq(Event) /\ Len(Tail(s)) = n
        BY <1>1, <1>4, <2>1
      <3> QED BY <1>1, <1>4, <3>1
    <2>3. ASSUME NEW m \in 0 .. n, NEW from \in Starts(m)'
          PROVE  \E h \in Seq(Message) : Replays(t, m, from, h) /\ Fair(h)'
      <3>1. m \in Nat /\ m + 1 \in 0 .. n + 1 /\ m + 1 # 0 /\ m + 1 <= n + 1
        BY <2>3
      <3>2. PICK h \in Seq(Message) : Replays(s, m + 1, from, h) /\ Fair(h)
        <4>1. CASE from = <<>>
          <5>1. <<>> \in Starts(m + 1)
            BY DEF Starts
          <5> QED BY <1>1, <2>1, <3>1, <4>1, <5>1 DEF FairInv
        <4>2. CASE m = 0 /\ from = Applied(ui.live, Head(events))
          <5>1. ui.live \in Starts(0) /\ 0 \in 0 .. n + 1
            BY <3>1 DEF Starts
          <5>2. PICK h \in Seq(Message) : Replays(s, 0, ui.live, h) /\ Fair(h)
            BY <1>1, <2>1, <5>1 DEF FairInv
          <5>3. Replays(s, 1, Applied(ui.live, Head(s)), h)
            BY <1>1, <1>4, <5>2, ReplaysFirst
          <5>4. m + 1 = 1
            BY <4>2
          <5> QED BY <1>1, <4>2, <5>2, <5>3, <5>4
        <4> QED BY <1>4, <2>3, <4>1, <4>2 DEF Starts
      <3>3. Replays(t, m, from, h)
        BY <1>1, <1>4, <2>1, <2>2, <3>1, <3>2, ReplaysTail
      <3> QED BY <1>2, <3>2, <3>3
    <2> QED BY <2>2, <2>3 DEF FairInv
  <1> QED BY <1>3, <1>4

----------------------------------------------------------------------------
(* The steps of the session, by what they do to its history.               *)

SameCourse == run'.persisted = run.persisted /\ run'.over = run.over /\ UNCHANGED ui
SameBatch  == run'.calls = run.calls /\ run'.todo = run.todo /\ run'.results = run.results
SameTalk   == run'.messages = run.messages /\ run'.retried = run.retried

\* Text, or a batch of calls, is streamed and reported.
Texts ==
    /\ run.pc = "model" /\ run'.pc = "model" /\ ~run.text /\ run.calls = <<>>
    /\ run'.text = TRUE /\ SameBatch /\ SameTalk /\ SameCourse
    /\ UNCHANGED bounds /\ events' = Append(events, [type |-> "text"])

GivesIds(b) == b \in Batches /\ bounds.calls + Len(b) <= MaxCalls
               /\ bounds'.calls = bounds.calls + Len(b)

Calls(b) ==
    /\ run.pc = "model" /\ run'.pc = "model" /\ run.calls = <<>> /\ GivesIds(b)
    /\ run'.calls = Batch(b) /\ run'.todo = run.todo /\ run'.results = run.results
    /\ run'.text = run.text /\ SameTalk /\ SameCourse
    /\ events' = Append(events, [type |-> "calls", calls |-> Ids(Batch(b))])

\* The answer is complete, with what was reported or with something that was not.
AnswerIs(text, calls) ==
    /\ run.pc = "model"
    /\ IF calls = <<>> THEN run'.pc = "compact" ELSE run'.pc \in Refusals \cup Asks
    /\ run'.calls = calls /\ run'.todo = calls /\ run'.results = <<>>
    /\ run'.batch = "none" /\ run'.retried = run.retried /\ SameCourse
    /\ run'.messages = IF text \/ calls # <<>>
                       THEN Append(run.messages, Assistant(text, Ids(calls))) ELSE run.messages
    /\ UNCHANGED events

Told        == AnswerIs(run.text, run.calls) /\ UNCHANGED bounds
TextLost    == AnswerIs(TRUE, <<>>) /\ run.over /\ run.calls = <<>> /\ UNCHANGED bounds
CallsLost(b) == AnswerIs(run.text, Batch(b)) /\ run.over /\ run.calls = <<>> /\ GivesIds(b)

Retries ==
    /\ run.pc = "model" /\ run'.pc = "model" /\ run'.messages = Append(run.messages, User)
    /\ run'.retried = TRUE /\ run'.calls = <<>>
    /\ run'.todo = run.todo /\ run'.results = run.results /\ SameCourse
    /\ bounds'.calls = bounds.calls /\ UNCHANGED events

Dies ==
    /\ run.pc \in Works \cup {"finish"} /\ run'.pc = "return" /\ run'.messages = <<>>
    /\ run'.calls = <<>> /\ run'.todo = <<>> /\ run'.results = <<>> /\ SameCourse
    /\ UNCHANGED <<bounds, events>>

\* A call gets its result.
Gives(body) ==
    /\ run.pc \in Batching /\ run'.pc \in Batching /\ run.todo # <<>>
    /\ body \in Bodies \cup {"notice"}
    /\ run'.calls = run.calls /\ run'.todo = Tail(run.todo)
    /\ run'.results = Append(run.results, Result(Head(run.todo).id, body))
    /\ SameTalk /\ SameCourse /\ UNCHANGED bounds
    /\ \/ events' = Append(events, [type |-> "tool", call |-> Head(run.todo).id, body |-> body])
       \/ run.over /\ UNCHANGED events

Joins ==
    /\ run.pc \in Batching /\ run.todo = <<>> /\ run'.pc \in {"finish", "compact"}
    /\ run'.messages = run.messages \o run.results /\ run'.retried = run.retried
    /\ SameBatch /\ SameCourse /\ UNCHANGED <<bounds, events>>

\* From one place of a batch to another.
Moves ==
    /\ run.pc \in Batching /\ run'.pc \in Batching /\ SameBatch /\ SameTalk /\ SameCourse
    /\ UNCHANGED bounds
    /\ \/ UNCHANGED events
       \/ \E ask \in SUBSET Asking : events' = Append(events, [type |-> "prompt", ask |-> ask])

Shortens ==
    /\ run.pc = "compact" /\ run'.pc = "announce" /\ SameBatch /\ SameCourse
    /\ run'.batch = run.batch /\ run'.retried = run.retried
    /\ run'.messages \in {Summary \o Reattached, Summary \o Split(run.messages, KeepTurns).suffix}
    /\ bounds'.calls = bounds.calls /\ UNCHANGED events

\* After a batch, or what came in its place, the run ends or goes on with another round.
Settles ==
    /\ run.pc \in Outcome /\ SameTalk /\ SameCourse /\ run'.todo = run.todo
    /\ \/ run'.pc = "finish" /\ run'.calls = run.calls /\ run'.results = run.results
       \/ /\ run'.pc = "model" /\ run.batch = "ran" /\ run'.calls = <<>> /\ run'.results = <<>>
          /\ ~run'.text
    /\ bounds'.calls = bounds.calls
    /\ \/ run.pc = "compact" /\ UNCHANGED events
       \/ run.pc = "announce" /\ run.over /\ UNCHANGED events
       \/ run.pc = "announce"
          /\ events' = Append(events, [type |-> "compacted", messages |-> run.messages])

Finishes ==
    /\ run.pc = "finish" /\ run'.pc = "return" /\ run'.messages = run.messages
    /\ run'.calls = <<>> /\ run'.todo = <<>> /\ run'.results = <<>> /\ SameCourse
    /\ UNCHANGED <<bounds, events>>

Returns ==
    /\ run.pc = "return" /\ run'.pc = "closed" /\ SameBatch /\ SameTalk /\ SameCourse
    /\ UNCHANGED bounds
    /\ \/ UNCHANGED events
       \/ \E ok \in BOOLEAN : events' = Append(events, [type |-> "done", ok |-> ok])

LEMMA AnsweredIs ==
  ASSUME TypeInv, run.pc = "model", UNCHANGED <<events, ui>>,
         NEW text \in BOOLEAN, NEW calls \in Seq(Call), NEW canceled \in BOOLEAN,
         Answered(text, calls, canceled)
  PROVE  AnswerIs(text, calls)
  <1>1. PICK messages \in Seq(Message) :
          messages = IF text \/ calls # <<>>
                     THEN Append(run.messages, Assistant(text, Ids(calls))) ELSE run.messages
    <2>1. Assistant(text, Ids(calls)) \in Message /\ run.messages \in Seq(Message)
      BY IdsType, Messages, KnownHistories
    <2>2. Append(run.messages, Assistant(text, Ids(calls))) \in Seq(Message)
      BY <2>1
    <2> QED BY <2>1, <2>2
  <1>2. PICK pc : pc = Route(calls, canceled)
    OBVIOUS
  <1>3. PICK none \in Seq(Answer) : none = <<>>
    <2>1. <<>> \in Seq(Answer)
      OBVIOUS
    <2> QED BY <2>1
  <1>4. run' = [run EXCEPT !.text = text, !.calls = calls, !.canceled = canceled,
                           !.messages = messages, !.errors = 0, !.pc = pc, !.batch = "none",
                           !.todo = calls, !.results = none]
    BY <1>1, <1>2, <1>3 DEF Answered
  <1>5. /\ run'.pc = pc /\ run'.calls = calls /\ run'.todo = calls /\ run'.results = none
        /\ run'.batch = "none" /\ run'.retried = run.retried /\ run'.persisted = run.persisted
        /\ run'.over = run.over /\ run'.messages = messages
    BY <1>4 DEF TypeInv, Sessions
  <1>6. IF calls = <<>> THEN pc = "compact" ELSE pc \in Refusals \cup Asks
    BY <1>2 DEF Route, Refusals, Asks
  <1>7. run'.results = <<>>
    BY <1>3, <1>5
  <1> QED BY <1>1, <1>5, <1>6, <1>7 DEF AnswerIs, SameCourse

LEMMA FailsDies ==
  ASSUME TypeInv, run.pc \in Works \cup {"finish"}, run' = Fails, UNCHANGED <<events, ui, bounds>>
  PROVE  Dies
  <1>1. /\ Fails.pc = "return" /\ Fails.messages = <<>> /\ Fails.calls = <<>>
        /\ Fails.todo = <<>> /\ Fails.results = <<>> /\ Fails.persisted = run.persisted
        /\ Fails.over = run.over
    BY DEF Fails, Off
  <1> QED BY <1>1 DEF Dies, SameCourse

LEMMA StreamSteps ==
  ASSUME TypeInv, StreamText \/ StreamCalls \/ StreamEnds \/ StreamFails \/ StreamBreaks
  PROVE  \/ Texts \/ (\E b : Calls(b) \/ CallsLost(b)) \/ Told \/ TextLost \/ Retries \/ Dies
  <1>1. run \in Sessions /\ run.pc = "model" /\ UNCHANGED ui
    BY DEF TypeInv, StreamText, StreamCalls, StreamEnds, StreamFails, StreamBreaks, SessionOnly
  <1>2. CASE StreamText
    <2>1. ~run.text /\ run.calls = <<>> /\ UNCHANGED bounds
      BY <1>2 DEF StreamText, SessionOnly
    <2>2. CASE Emits([type |-> "text"]) /\ run' = [run EXCEPT !.text = TRUE]
      BY <1>1, <2>1, <2>2 DEF Sessions, Emits, Texts, SameBatch, SameTalk, SameCourse
    <2>3. CASE Lost /\ Answered(TRUE, <<>>, TRUE)
      <3>1. <<>> \in Seq(Call)
        OBVIOUS
      <3>2. AnswerIs(TRUE, <<>>)
        BY <1>1, <2>3, <3>1, AnsweredIs DEF Lost
      <3> QED BY <2>1, <2>3, <3>2 DEF TextLost, Lost
    <2> QED BY <1>2, <2>2, <2>3 DEF StreamText
  <1>3. CASE StreamCalls
    <2>1. PICK b \in Batches :
            /\ bounds.calls + Len(b) <= MaxCalls
            /\ bounds' = [bounds EXCEPT !.calls = @ + Len(b)]
            /\ \/ /\ Emits([type |-> "calls", calls |-> Ids(Batch(b))])
                  /\ run' = [run EXCEPT !.calls = Batch(b)]
               \/ Lost /\ Answered(run.text, Batch(b), TRUE)
      BY <1>3 DEF StreamCalls, Batch
    <2>2. run.calls = <<>>
      BY <1>3 DEF StreamCalls
    <2>3. bounds'.calls = bounds.calls + Len(b)
      BY <2>1 DEF TypeInv
    <2>4. GivesIds(b)
      BY <2>1, <2>3 DEF GivesIds
    <2>5. PICK calls \in Seq(Call) : calls = Batch(b)
      BY <2>1, BatchType
    <2>6. CASE /\ Emits([type |-> "calls", calls |-> Ids(calls)])
               /\ run' = [run EXCEPT !.calls = calls]
      <3>1. /\ run'.pc = run.pc /\ run'.calls = calls /\ run'.todo = run.todo
            /\ run'.results = run.results /\ run'.text = run.text /\ SameTalk /\ SameCourse
        BY <1>1, <2>6 DEF Sessions, SameTalk, SameCourse
      <3>2. events' = Append(events, [type |-> "calls", calls |-> Ids(Batch(b))])
        BY <2>5, <2>6 DEF Emits
      <3>3. Calls(b)
        BY <1>1, <2>2, <2>4, <2>5, <3>1, <3>2 DEF Calls
      <3> QED BY <3>3
    <2>7. CASE Lost /\ Answered(run.text, calls, TRUE)
      <3>1. run.text \in BOOLEAN
        BY <1>1 DEF Sessions
      <3>2. AnswerIs(run.text, calls)
        BY <1>1, <2>7, <3>1, AnsweredIs DEF Lost
      <3>3. CallsLost(b)
        BY <2>2, <2>4, <2>5, <2>7, <3>2 DEF CallsLost, Lost
      <3> QED BY <3>3
    <2> QED BY <2>1, <2>5, <2>6, <2>7
  <1>4. CASE StreamEnds
    <2>1. PICK canceled \in BOOLEAN : Answered(run.text, run.calls, canceled)
      BY <1>1, <1>4 DEF StreamEnds, Sessions
    <2>2. run.calls \in Seq(Call) /\ run.text \in BOOLEAN
      BY <1>1 DEF Sessions
    <2>3. UNCHANGED <<events, ui, bounds>>
      BY <1>4 DEF StreamEnds, SessionOnly
    <2>4. AnswerIs(run.text, run.calls)
      BY <1>1, <2>1, <2>2, <2>3, AnsweredIs
    <2> QED BY <2>3, <2>4 DEF Told
  <1>5. CASE StreamFails
    <2>1. PICK messages, none, errors :
            /\ messages = Append(run.messages, User) /\ none = <<>>
            /\ run' = [run EXCEPT !.errors = errors, !.retried = TRUE, !.messages = messages,
                                  !.text = FALSE, !.calls = none]
      BY <1>5 DEF StreamFails
    <2>2. /\ run'.pc = run.pc /\ run'.messages = messages /\ run'.retried = TRUE
          /\ run'.calls = none /\ run'.todo = run.todo /\ run'.results = run.results
          /\ run'.persisted = run.persisted /\ run'.over = run.over
      BY <1>1, <2>1 DEF Sessions
    <2>3. bounds'.calls = bounds.calls /\ UNCHANGED events
      BY <1>5 DEF StreamFails, TypeInv
    <2> QED BY <1>1, <2>1, <2>2, <2>3 DEF Retries, SameCourse
  <1>6. CASE StreamBreaks
    <2>1. run' = Fails /\ UNCHANGED <<events, ui, bounds>> /\ run.pc \in Works \cup {"finish"}
      BY <1>1, <1>6 DEF StreamBreaks, SessionOnly, Works
    <2> QED BY <2>1, FailsDies
  <1> QED BY <1>2, <1>3, <1>4, <1>5, <1>6

LEMMA TookGives ==
  ASSUME TypeInv, run.pc \in Batching, run.todo # <<>>, NEW body \in Bodies \cup {"notice"},
         NEW pc \in Batching,
         run' = [run EXCEPT !.todo = Tail(@), !.pc = pc,
                            !.results = Append(@, Result(Head(run.todo).id, body))],
         UNCHANGED <<ui, bounds>>,
         \/ Emits([type |-> "tool", call |-> Head(run.todo).id, body |-> body])
         \/ Lost
  PROVE  Gives(body)
  <1>1. PICK todo : todo = Tail(run.todo)
    OBVIOUS
  <1>2. PICK results : results = Append(run.results, Result(Head(run.todo).id, body))
    OBVIOUS
  <1>3. run' = [run EXCEPT !.todo = todo, !.pc = pc, !.results = results]
    BY <1>1, <1>2
  <1>4. /\ run'.pc = pc /\ run'.calls = run.calls /\ run'.todo = todo /\ run'.results = results
        /\ SameTalk /\ SameCourse
    BY <1>3 DEF TypeInv, Sessions, SameTalk, SameCourse
  <1>5. \/ events' = Append(events, [type |-> "tool", call |-> Head(run.todo).id, body |-> body])
        \/ run.over /\ UNCHANGED events
    BY DEF Emits, Lost
  <1> QED BY <1>1, <1>2, <1>4, <1>5 DEF Gives

LEMMA GoMoves ==
  ASSUME TypeInv, run.pc \in Batching, NEW pc \in Batching, run' = Go(pc),
         UNCHANGED <<ui, bounds, events>>
  PROVE  Moves
  BY DEF TypeInv, Sessions, Go, Moves, SameBatch, SameTalk, SameCourse

LEMMA BatchEndsJoins ==
  ASSUME TypeInv, BatchEnds
  PROVE  Joins
  <1>1. run \in Sessions /\ UNCHANGED <<ui, events, bounds>> /\ run.todo = <<>>
    BY DEF TypeInv, BatchEnds, SessionOnly
  <1>2. run.pc \in {"cancel", "limit", "disable", "exec", "deny", "rest"}
    BY DEF BatchEnds
  <1>3. PICK messages : messages = run.messages \o run.results
    OBVIOUS
  <1>4. \/ \E status : run' = [run EXCEPT !.messages = messages, !.pc = "finish",
                                          !.status = status]
        \/ \E batch : run' = [run EXCEPT !.messages = messages, !.pc = "compact",
                                         !.batch = batch]
    BY <1>3 DEF BatchEnds
  <1>5. /\ run'.pc \in {"finish", "compact"} /\ run'.messages = messages
        /\ run'.retried = run.retried /\ SameBatch /\ SameCourse
    <2>1. ASSUME NEW status, run' = [run EXCEPT !.messages = messages, !.pc = "finish",
                                                !.status = status]
          PROVE  /\ run'.pc = "finish" /\ run'.messages = messages
                 /\ run'.retried = run.retried /\ SameBatch /\ SameCourse
      BY <1>1, <2>1 DEF Sessions, SameBatch, SameCourse
    <2>2. ASSUME NEW batch, run' = [run EXCEPT !.messages = messages, !.pc = "compact",
                                               !.batch = batch]
          PROVE  /\ run'.pc = "compact" /\ run'.messages = messages
                 /\ run'.retried = run.retried /\ SameBatch /\ SameCourse
      BY <1>1, <2>2 DEF Sessions, SameBatch, SameCourse
    <2> QED BY <1>4, <2>1, <2>2
  <1>6. run.pc \in Batching
    BY <1>2 DEF Batching, Refusals, Runs
  <1> QED BY <1>1, <1>3, <1>5, <1>6 DEF Joins

LEMMA BatchSteps ==
  ASSUME TypeInv, PlaceInv,
         \/ Refuse \/ BatchEnds \/ Plan \/ Authorize \/ TakeReply \/ PromptAborts
         \/ ExecNext \/ CallUnknown \/ CallStarts \/ CallEnds
  PROVE  (\E body : Gives(body)) \/ Joins \/ Moves \/ Dies
  <1>1. run \in Sessions /\ UNCHANGED <<ui, bounds>>
    BY DEF TypeInv, Refuse, BatchEnds, Plan, Authorize, TakeReply, PromptAborts, ExecNext,
           CallUnknown, CallStarts, CallEnds, SessionOnly
  <1>2. /\ {"plan", "authorize", "wait", "exec", "call", "running", "deny", "rest"} \subseteq Batching
        /\ Refusals \subseteq Batching /\ Batching \subseteq Works \cup {"finish"}
    BY DEF Batching, Works, Refusals, Asks, Runs
  <1>3. CASE Refuse
    <2>1. run.pc \in Batching /\ run.todo # <<>>
      BY <1>2, <1>3 DEF Refuse
    <2>2. CASE run' = Fails /\ Lost
      <3>1. run' = Fails /\ UNCHANGED <<events, ui, bounds>> /\ run.pc \in Works \cup {"finish"}
        BY <1>1, <1>2, <2>1, <2>2 DEF Lost
      <3> QED BY <3>1, FailsDies
    <2>3. CASE /\ run' = [run EXCEPT !.todo = Tail(@),
                                     !.results = Append(@, Result(Head(run.todo).id, "notice"))]
               /\ \/ Emits([type |-> "tool", call |-> Head(run.todo).id, body |-> "notice"])
                  \/ Lost
      <3>1. PICK pc \in Batching : pc = run.pc
        BY <2>1
      <3>2. PICK todo : todo = Tail(run.todo)
        OBVIOUS
      <3>3. PICK results : results = Append(run.results, Result(Head(run.todo).id, "notice"))
        OBVIOUS
      <3>4. run' = [run EXCEPT !.todo = todo, !.pc = pc, !.results = results]
        <4>1. run' = [run EXCEPT !.todo = todo, !.results = results]
          BY <2>3, <3>2, <3>3
        <4> QED BY <1>1, <3>1, <4>1 DEF Sessions
      <3>5. run' = [run EXCEPT !.todo = Tail(@), !.pc = pc,
                            !.results = Append(@, Result(Head(run.todo).id, "notice"))]
        BY <3>2, <3>3, <3>4
      <3>6. "notice" \in Bodies \cup {"notice"}
        OBVIOUS
      <3>7. Gives("notice")
        BY <1>1, <2>1, <2>3, <3>5, <3>6, TookGives
      <3> QED BY <3>7
    <2> QED BY <1>3, <2>2, <2>3 DEF Refuse
  <1>4. CASE BatchEnds
    BY <1>4, BatchEndsJoins
  <1>5. CASE Plan
    <2>1. /\ run.pc = "plan" /\ run'.pc \in {"exec", "authorize"}
          /\ SameBatch /\ SameTalk /\ SameCourse /\ UNCHANGED events
      BY <1>1, <1>5 DEF Plan, Sessions, SameBatch, SameTalk, SameCourse
    <2> QED BY <1>1, <1>2, <2>1 DEF Moves
  <1>6. CASE Authorize
    <2>1. run.pc = "authorize"
      BY <1>6 DEF Authorize
    <2>2. CASE run' = [run EXCEPT !.pc = "wait", !.reply = "none"]
               /\ Emits([type |-> "prompt", ask |-> run.ask])
      <3>1. run'.pc = "wait" /\ SameBatch /\ SameTalk /\ SameCourse
        BY <1>1, <2>2 DEF Sessions, SameBatch, SameTalk, SameCourse
      <3>2. \E ask \in SUBSET Asking : events' = Append(events, [type |-> "prompt", ask |-> ask])
        BY <1>1, <2>2 DEF Emits, Sessions
      <3> QED BY <1>1, <1>2, <2>1, <3>1, <3>2 DEF Moves
    <2>3. CASE \E pc \in {"exec", "deny"} : run' = Go(pc) /\ UNCHANGED events
      BY <1>1, <1>2, <2>1, <2>3, GoMoves
    <2> QED BY <1>6, <2>2, <2>3 DEF Authorize, Lost
  <1>7. CASE TakeReply
    <2>1. /\ run.pc = "wait" /\ run'.pc \in {"exec", "deny"}
          /\ SameBatch /\ SameTalk /\ SameCourse /\ UNCHANGED events
      BY <1>1, <1>7 DEF TakeReply, Sessions, SameBatch, SameTalk, SameCourse
    <2> QED BY <1>1, <1>2, <2>1 DEF Moves
  <1>8. CASE PromptAborts
    BY <1>1, <1>2, <1>8, GoMoves DEF PromptAborts
  <1>9. CASE ExecNext
    <2>1. run.pc = "exec" /\ UNCHANGED events /\ \E pc \in {"rest", "call"} : run' = Go(pc)
      BY <1>9 DEF ExecNext
    <2> QED BY <1>1, <1>2, <2>1, GoMoves
  <1>10. CASE CallStarts
    <2>1. run.pc = "call" /\ UNCHANGED events /\ (run' = Go("running") \/ run' = Fails)
      BY <1>10 DEF CallStarts
    <2>2. CASE run' = Go("running")
      BY <1>1, <1>2, <2>1, <2>2, GoMoves
    <2>3. CASE run' = Fails
      <3>1. run.pc \in Works \cup {"finish"} /\ UNCHANGED <<events, ui, bounds>>
        BY <1>1, <1>2, <2>1
      <3> QED BY <2>3, <3>1, FailsDies
    <2> QED BY <2>1, <2>2, <2>3
  <1>11. CASE CallUnknown \/ CallEnds
    <2>1. run.pc \in {"call", "running"} /\ run.todo # <<>>
      BY <1>11 DEF CallUnknown, CallEnds, PlaceInv
    <2>2. CASE run' = Fails /\ UNCHANGED events
      <3>1. run.pc \in Works \cup {"finish"} /\ UNCHANGED <<events, ui, bounds>>
        BY <1>1, <1>2, <2>1, <2>2
      <3> QED BY <2>2, <3>1, FailsDies
    <2>3. CASE \E body \in Bodies : \E pc \in {"exec", "rest"} :
                 /\ run' = Took(body, pc)
                 /\ \/ Emits([type |-> "tool", call |-> Head(run.todo).id, body |-> body])
                    \/ Lost
      <3>1. PICK body \in Bodies, pc \in {"exec", "rest"} :
                 /\ run' = Took(body, pc)
                 /\ \/ Emits([type |-> "tool", call |-> Head(run.todo).id, body |-> body])
                    \/ Lost
        BY <2>3
      <3>2. body \in Bodies \cup {"notice"} /\ pc \in Batching /\ run.pc \in Batching
        BY <1>2, <2>1
      <3>3. Gives(body)
        BY <1>1, <2>1, <3>1, <3>2, TookGives DEF Took
      <3> QED BY <3>3
    <2>4. \/ run' = Fails /\ UNCHANGED events
          \/ \E body \in Bodies : \E pc \in {"exec", "rest"} :
                 /\ run' = Took(body, pc)
                 /\ \/ Emits([type |-> "tool", call |-> Head(run.todo).id, body |-> body])
                    \/ Lost
      <3>1. CASE CallUnknown
        BY <3>1 DEF CallUnknown, Lost
      <3>2. CASE CallEnds
        <4>1. \E pc \in {"exec", "rest"} : pc = IF run.over THEN "rest" ELSE "exec"
          OBVIOUS
        <4> QED BY <3>2, <4>1 DEF CallEnds, EmitsOrLoses
      <3> QED BY <1>11, <3>1, <3>2
    <2> QED BY <2>2, <2>3, <2>4
  <1> QED BY <1>3, <1>4, <1>5, <1>6, <1>7, <1>8, <1>9, <1>10, <1>11

LEMMA EndSteps ==
  ASSUME TypeInv, Compacts \/ LeavesHistory \/ Announce \/ Finish \/ Return
  PROVE  Shortens \/ Settles \/ Finishes \/ Dies \/ Returns
  <1>1. run \in Sessions /\ UNCHANGED ui
    BY DEF TypeInv, Compacts, LeavesHistory, Announce, Finish, Return, SessionOnly
  <1>2. CASE Compacts
    <2>1. PICK messages :
            /\ messages \in {Summary \o Reattached, Summary \o Split(run.messages, KeepTurns).suffix}
            /\ run' = [run EXCEPT !.messages = messages, !.pc = "announce"]
      BY <1>2 DEF Compacts
    <2>2. /\ run'.pc = "announce" /\ run'.messages = messages /\ SameBatch /\ SameCourse
          /\ run'.batch = run.batch /\ run'.retried = run.retried
      BY <1>1, <2>1 DEF Sessions, SameBatch, SameCourse
    <2>3. run.pc = "compact" /\ bounds'.calls = bounds.calls /\ UNCHANGED events
      BY <1>2 DEF Compacts, TypeInv
    <2> QED BY <2>1, <2>2, <2>3 DEF Shortens
  <1>3. ASSUME run.pc \in Outcome, bounds'.calls = bounds.calls, run' = Settled,
               \/ run.pc = "compact" /\ UNCHANGED events
               \/ run.pc = "announce" /\ run.over /\ UNCHANGED events
               \/ run.pc = "announce"
                  /\ events' = Append(events, [type |-> "compacted", messages |-> run.messages])
        PROVE  Settles
    <2>1. CASE Ends # "none"
      <3>1. run'.pc = "finish" /\ SameBatch /\ SameTalk /\ SameCourse
        BY <1>1, <1>3, <2>1 DEF Settled, Sessions, SameBatch, SameTalk, SameCourse
      <3> QED BY <1>3, <3>1 DEF Settles, SameBatch
    <2>2. CASE Ends = "none"
      <3>1. run.batch = "ran"
        BY <1>1, <2>2 DEF Ends, Sessions
      <3>2. PICK none : none = <<>>
        OBVIOUS
      <3>3. PICK rounds : run' = [run EXCEPT !.pc = "model", !.rounds = rounds, !.batch = "none",
                                   !.text = FALSE, !.calls = none, !.results = none]
        BY <1>3, <2>2, <3>2 DEF Settled
      <3>4. /\ run'.pc = "model" /\ run'.calls = none /\ run'.results = none /\ ~run'.text
            /\ SameTalk /\ SameCourse /\ run'.todo = run.todo
        BY <1>1, <3>3 DEF Sessions, SameTalk, SameCourse
      <3> QED BY <1>3, <3>1, <3>2, <3>4 DEF Settles
    <2> QED BY <2>1, <2>2
  <1>4. CASE LeavesHistory
    <2>1. run.pc \in Outcome /\ bounds'.calls = bounds.calls /\ run' = Settled
          /\ run.pc = "compact" /\ UNCHANGED events
      BY <1>4 DEF LeavesHistory, TypeInv, Outcome
    <2> QED BY <1>3, <2>1
  <1>5. CASE Announce
    <2>1. /\ run.pc \in Outcome /\ UNCHANGED bounds /\ run.pc = "announce"
          /\ \/ run.pc = "announce" /\ run.over /\ UNCHANGED events
             \/ run.pc = "announce"
                /\ events' = Append(events, [type |-> "compacted", messages |-> run.messages])
      BY <1>5 DEF Announce, SessionOnly, Outcome, EmitsOrLoses, Emits, Lost
    <2>2. CASE run' = Settled
      BY <1>3, <2>1, <2>2
    <2>3. CASE run' = [run EXCEPT !.pc = "finish", !.status = "error"]
      <3>1. run'.pc = "finish" /\ SameBatch /\ SameTalk /\ SameCourse
        BY <1>1, <2>3 DEF Sessions, SameBatch, SameTalk, SameCourse
      <3> QED BY <2>1, <3>1 DEF Settles, SameBatch
    <2> QED BY <1>5, <2>2, <2>3, AnnounceSteps
  <1>6. CASE Finish
    <2>1. run.pc = "finish" /\ UNCHANGED <<events, ui, bounds>>
      BY <1>1, <1>6 DEF Finish, SessionOnly
    <2>2. CASE run' = Fails
      BY <2>1, <2>2, FailsDies
    <2>3. CASE run' = [Off EXCEPT !.pc = "return", !.status = run.status, !.over = run.over,
                            !.messages = run.messages, !.persisted = run.persisted]
      <3>1. /\ run'.pc = "return" /\ run'.messages = run.messages /\ run'.calls = <<>>
            /\ run'.todo = <<>> /\ run'.results = <<>> /\ run'.persisted = run.persisted
            /\ run'.over = run.over
        BY <2>3 DEF Off
      <3> QED BY <2>1, <3>1 DEF Finishes, SameCourse
    <2> QED BY <1>6, <2>2, <2>3 DEF Finish
  <1>7. CASE Return
    <2>1. run.pc = "return" /\ UNCHANGED bounds /\ run' = Go("closed")
      BY <1>7 DEF Return, SessionOnly
    <2>2. run'.pc = "closed" /\ SameBatch /\ SameTalk /\ SameCourse
      BY <1>1, <2>1 DEF Go, Sessions, SameBatch, SameTalk, SameCourse
    <2>3. \/ UNCHANGED events
          \/ \E ok \in BOOLEAN : events' = Append(events, [type |-> "done", ok |-> ok])
      BY <1>7 DEF Return, EmitsOrLoses, Emits, Lost
    <2> QED BY <2>1, <2>2, <2>3 DEF Returns
  <1> QED BY <1>2, <1>4, <1>5, <1>6, <1>7

----------------------------------------------------------------------------
(* Each call gets one result, in its turn.                                 *)

LEMMA KnownBatch ==
  ASSUME TypeInv
  PROVE  /\ run.calls \in Seq(Call) /\ run.todo \in Seq(Call) /\ run.results \in Seq(Answer)
         /\ DOMAIN run.calls = 1 .. Len(run.calls) /\ Len(run.calls) \in Nat
         /\ DOMAIN run.todo = 1 .. Len(run.todo) /\ Len(run.todo) \in Nat
         /\ DOMAIN run.results = 1 .. Len(run.results) /\ Len(run.results) \in Nat
         /\ \A i \in DOMAIN run.calls : run.calls[i].id \in CallIds
         /\ bounds.calls \in Nat /\ bounds.calls <= MaxCalls
         /\ Ids(run.calls) \in Seq(CallIds) /\ DOMAIN Ids(run.calls) = DOMAIN run.calls
         /\ Len(Ids(run.calls)) = Len(run.calls)
         /\ \A i \in DOMAIN run.calls : Ids(run.calls)[i] = run.calls[i].id
  <1>1. run.calls \in Seq(Call) /\ run.todo \in Seq(Call) /\ run.results \in Seq(Answer)
    BY DEF TypeInv, Sessions
  <1>2. /\ DOMAIN run.calls = 1 .. Len(run.calls) /\ Len(run.calls) \in Nat
        /\ DOMAIN run.todo = 1 .. Len(run.todo) /\ Len(run.todo) \in Nat
        /\ DOMAIN run.results = 1 .. Len(run.results) /\ Len(run.results) \in Nat
    BY <1>1
  <1>3. bounds.calls \in Nat /\ bounds.calls <= MaxCalls
    BY Constants DEF TypeInv
  <1>4. \A i \in DOMAIN run.calls : run.calls[i].id \in CallIds
    <2>1. \A i \in DOMAIN run.calls : run.calls[i] \in Call
      BY <1>1
    <2> QED BY <2>1 DEF Call
  <1>5. PICK ids \in Seq(CallIds) : ids = Ids(run.calls)
    BY <1>1, IdsType
  <1>6. DOMAIN ids = 1 .. Len(run.calls) /\ \A i \in DOMAIN ids : ids[i] = run.calls[i].id
    BY <1>2, <1>5, MadeOf
  <1>7. Len(ids) = Len(run.calls)
    BY <1>2, <1>6
  <1> QED BY <1>1, <1>2, <1>3, <1>4, <1>5, <1>6, <1>7

\* The ids of a new batch.
LEMMA BatchIds ==
  ASSUME TypeInv, NEW b, GivesIds(b)
  PROVE  /\ Batch(b) \in Seq(Call) /\ Batch(b) # <<>> /\ DOMAIN Batch(b) = 1 .. Len(b)
         /\ Len(Batch(b)) = Len(b) /\ Len(b) \in Nat
         /\ \A i \in DOMAIN Batch(b) : Batch(b)[i].id = bounds.calls + i
         /\ bounds.calls <= bounds'.calls /\ bounds'.calls \in Nat
         /\ bounds'.calls = bounds.calls + Len(b) /\ bounds'.calls <= MaxCalls
  <1>1. b \in Batches /\ bounds.calls + Len(b) <= MaxCalls
        /\ bounds'.calls = bounds.calls + Len(b)
    BY DEF GivesIds
  <1>2. Batch(b) \in Seq(Call) /\ Batch(b) # <<>> /\ Len(b) \in Nat
    BY <1>1, BatchType
  <1>3. b \in Seq(Kinds)
    BY <1>1, Constants
  <1>4. DOMAIN b = 1 .. Len(b)
    BY <1>3
  <1>5. DOMAIN Batch(b) = 1 .. Len(b) /\ \A i \in DOMAIN Batch(b) : Batch(b)[i].id = bounds.calls + i
    BY <1>4 DEF Batch
  <1>6. Len(Batch(b)) = Len(b)
    <2>1. PICK s \in Seq(Call) : s = Batch(b)
      BY <1>2
    <2>2. DOMAIN s = 1 .. Len(s) /\ Len(s) \in Nat /\ DOMAIN s = 1 .. Len(b)
      BY <1>5, <2>1
    <2> QED BY <1>2, <2>1, <2>2
  <1>7. bounds.calls \in Nat
    BY DEF TypeInv
  <1> QED BY <1>1, <1>2, <1>5, <1>6, <1>7

LEMMA BatchOfNone ==
  ASSUME run'.calls = <<>>, run'.todo = <<>>, run'.results = <<>>
  PROVE  BatchInv'
  <1>1. DOMAIN <<>> = {} /\ Len(<<>>) = 0 /\ 0 + 0 = 0
    OBVIOUS
  <1> QED BY <1>1 DEF BatchInv

LEMMA BatchSame ==
  ASSUME BatchInv, SameBatch, bounds'.calls = bounds.calls,
         run.pc # "model", run'.pc # "model", run'.pc \in Batching \/ run.todo = <<>>
  PROVE  BatchInv'
  BY DEF BatchInv, SameBatch

LEMMA GivesBatch ==
  ASSUME TypeInv, BatchInv, NEW body, Gives(body)
  PROVE  BatchInv'
  <1>1. PICK c \in Seq(Call), t \in Seq(Call), r \in Seq(Answer) :
          c = run.calls /\ t = run.todo /\ r = run.results
    BY KnownBatch
  <1>2. t # <<>> /\ "model" \notin Batching
    BY <1>1 DEF Gives, Batching, Refusals, Asks, Runs
  <1>3. /\ Len(r) + Len(t) = Len(c)
        /\ \A i \in DOMAIN r : r[i].call = c[i].id
        /\ \A i \in DOMAIN t : t[i] = c[Len(r) + i]
    BY <1>1, <1>2 DEF BatchInv, Gives
  <1>4. PICK n \in Nat : n = Len(r) /\ DOMAIN r = 1 .. n
    BY <1>1
  <1>5. PICK m \in Nat : Len(t) = m + 1 /\ DOMAIN t = 1 .. m + 1
    <2>1. Len(t) - 1 \in Nat /\ Len(t) = (Len(t) - 1) + 1 /\ DOMAIN t = 1 .. Len(t)
      BY <1>2
    <2> QED BY <2>1
  <1>6. PICK t2 \in Seq(Call) : t2 = Tail(t) /\ Len(t2) = m /\ \A i \in 1 .. m : t2[i] = t[i + 1]
    <2>1. Tail(t) \in Seq(Call) /\ Len(Tail(t)) = m /\ \A i \in 1 .. m : Tail(t)[i] = t[i + 1]
      BY <1>2, <1>5
    <2> QED BY <2>1
  <1>7. Head(t) = t[1] /\ t[1] = c[n + 1] /\ t[1].id \in CallIds
    <2>1. Head(t) = t[1] /\ 1 \in DOMAIN t
      BY <1>2, <1>5
    <2>2. t[1] \in Call
      BY <2>1
    <2> QED BY <1>3, <1>4, <2>1, <2>2 DEF Call
  <1>8. PICK a \in Answer : a = Result(t[1].id, body)
    BY <1>7, Messages DEF Gives
  <1>9. PICK r2 \in Seq(Answer) : r2 = Append(r, a) /\ Len(r2) = n + 1 /\ DOMAIN r2 = 1 .. n + 1
                                  /\ r2[n + 1] = a /\ \A i \in 1 .. n : r2[i] = r[i]
    <2>1. Append(r, a) \in Seq(Answer) /\ Len(Append(r, a)) = n + 1
          /\ DOMAIN Append(r, a) = 1 .. n + 1
          /\ Append(r, a)[n + 1] = a /\ \A i \in 1 .. n : Append(r, a)[i] = r[i]
      BY <1>4
    <2> QED BY <2>1
  <1>10. run'.calls = c /\ run'.todo = t2 /\ run'.results = r2
    BY <1>1, <1>6, <1>7, <1>8, <1>9 DEF Gives
  <1>11. Len(r2) + Len(t2) = Len(c)
    BY <1>3, <1>4, <1>5, <1>6, <1>9
  <1>12. \A i \in DOMAIN r2 : r2[i].call = c[i].id
    <2>1. a.call = c[n + 1].id
      BY <1>7, <1>8, MadeOf
    <2>2. \A i \in 1 .. n + 1 : i \in 1 .. n \/ i = n + 1
      OBVIOUS
    <2> QED BY <1>3, <1>4, <1>9, <2>1, <2>2
  <1>13. \A i \in DOMAIN t2 : t2[i] = c[Len(r2) + i]
    <2>1. ASSUME NEW i \in 1 .. m
          PROVE  t2[i] = c[(n + 1) + i]
      <3>1. i + 1 \in DOMAIN t /\ n + (i + 1) = (n + 1) + i
        BY <1>5
      <3> QED BY <1>3, <1>4, <1>6, <3>1
    <2>2. DOMAIN t2 = 1 .. m
      BY <1>6
    <2> QED BY <1>9, <2>1, <2>2
  <1>14. /\ \A i \in DOMAIN c : c[i].id <= bounds'.calls
         /\ \A i, j \in DOMAIN c : c[i].id = c[j].id => i = j
    BY <1>1 DEF BatchInv, Gives
  <1>15. run'.pc # "model" /\ run'.pc \in Batching
    BY <1>2 DEF Gives
  <1> QED BY <1>10, <1>11, <1>12, <1>13, <1>14, <1>15 DEF BatchInv

LEMMA NewCalls ==
  ASSUME TypeInv, NEW b, GivesIds(b)
  PROVE  /\ \A i \in DOMAIN Batch(b) : Batch(b)[i].id <= bounds'.calls
         /\ \A i, j \in DOMAIN Batch(b) : Batch(b)[i].id = Batch(b)[j].id => i = j
  <1>1. PICK n \in Nat : n = bounds.calls
    BY DEF TypeInv
  <1>2. PICK l \in Nat : l = Len(b) /\ DOMAIN Batch(b) = 1 .. l
    BY BatchIds
  <1>3. bounds'.calls = n + l /\ \A i \in DOMAIN Batch(b) : Batch(b)[i].id = n + i
    BY <1>1, <1>2, BatchIds
  <1> QED BY <1>2, <1>3

LEMMA AnswerBatch ==
  ASSUME NEW text, NEW calls \in Seq(Call), AnswerIs(text, calls),
         \A i \in DOMAIN calls : calls[i].id <= bounds'.calls,
         \A i, j \in DOMAIN calls : calls[i].id = calls[j].id => i = j
  PROVE  BatchInv'
  <1>1. DOMAIN <<>> = {} /\ Len(<<>>) = 0
    OBVIOUS
  <1>2. Len(calls) \in Nat /\ DOMAIN calls = 1 .. Len(calls)
    OBVIOUS
  <1>3. 0 + Len(calls) = Len(calls) /\ \A i \in DOMAIN calls : 0 + i = i
    BY <1>2
  <1>4. run'.pc # "model" /\ (run'.pc \notin Batching => calls = <<>>)
    BY DEF AnswerIs, Batching, Refusals, Asks
  <1> QED BY <1>1, <1>3, <1>4 DEF AnswerIs, BatchInv

LEMMA SessionBatch ==
  ASSUME TypeInv, BatchInv,
         \/ Texts \/ (\E b : Calls(b) \/ CallsLost(b)) \/ Told \/ TextLost \/ Retries \/ Dies
         \/ (\E body : Gives(body)) \/ Joins \/ Moves
         \/ Shortens \/ Settles \/ Finishes \/ Returns
  PROVE  BatchInv'
  <1>1. "model" \notin Batching /\ "announce" \notin Batching /\ "compact" \notin Batching
        /\ "finish" \notin Batching /\ "return" \notin Batching
    BY DEF Batching, Refusals, Asks, Runs
  <1>2. DOMAIN <<>> = {} /\ <<>> \in Seq(Call)
    OBVIOUS
  <1>3. CASE Texts
    BY <1>3 DEF Texts, SameBatch, BatchInv
  <1>4. ASSUME NEW b, Calls(b)
        PROVE  BatchInv'
    <2>1. GivesIds(b)
      BY <1>4 DEF Calls
    <2> QED BY <1>4, <2>1, <1>1, NewCalls DEF Calls, BatchInv
  <1>5. ASSUME NEW b, CallsLost(b)
        PROVE  BatchInv'
    <2>1. GivesIds(b) /\ AnswerIs(run.text, Batch(b))
      BY <1>5 DEF CallsLost
    <2> QED BY <2>1, NewCalls, BatchIds, AnswerBatch
  <1>6. CASE Told
    <2>1. /\ \A i \in DOMAIN run.calls : run.calls[i].id <= bounds'.calls
          /\ \A i, j \in DOMAIN run.calls : run.calls[i].id = run.calls[j].id => i = j
      BY <1>6 DEF Told, BatchInv
    <2> QED BY <1>6, <2>1, KnownBatch, AnswerBatch DEF Told
  <1>7. CASE TextLost
    BY <1>2, <1>7, AnswerBatch DEF TextLost
  <1>8. CASE Retries
    BY <1>8, BatchOfNone DEF Retries, BatchInv
  <1>9. CASE Dies \/ Finishes
    BY <1>9, BatchOfNone DEF Dies, Finishes
  <1>10. CASE \E body : Gives(body)
    BY <1>10, GivesBatch
  <1>11. CASE Joins \/ Moves
    BY <1>1, <1>11, BatchSame DEF Joins, Moves
  <1>12. CASE Shortens \/ Returns
    <2>1. run.todo = <<>>
      BY <1>1, <1>12 DEF Shortens, Returns, BatchInv
    <2> QED BY <1>12, <2>1, BatchSame DEF Shortens, Returns
  <1>13. CASE Settles
    <2>1. run.pc # "model" /\ run.todo = <<>>
      BY <1>1, <1>13 DEF Settles, Outcome, BatchInv
    <2>2. CASE run'.pc = "finish" /\ run'.calls = run.calls /\ run'.results = run.results
      BY <1>13, <2>1, <2>2, BatchSame DEF Settles, SameBatch
    <2>3. CASE run'.pc = "model" /\ run'.calls = <<>> /\ run'.results = <<>>
      BY <1>13, <2>1, <2>3, BatchOfNone DEF Settles
    <2> QED BY <1>13, <2>2, <2>3 DEF Settles
  <1> QED BY <1>3, <1>4, <1>5, <1>6, <1>7, <1>8, <1>9, <1>10, <1>11, <1>12, <1>13

----------------------------------------------------------------------------
(* What the chat rebuilds stays fair.                                      *)

\* The calls that no batch has yet.
Unborn == bounds.calls + 1 .. MaxCalls

LEMMA FutureOf ==
    /\ run.pc = "model" => Future = {run.calls[i].id : i \in DOMAIN run.calls} \cup Unborn
    /\ run.pc # "model" => Future = {run.todo[i].id : i \in DOMAIN run.todo} \cup Unborn
    /\ (run.pc = "model" /\ run.calls = <<>>) \/ (run.pc # "model" /\ run.todo = <<>>) =>
          Future = Unborn
    /\ Unborn \subseteq Future
  <1>1. DOMAIN <<>> = {}
    OBVIOUS
  <1> QED BY <1>1 DEF Future, Due, Unborn

\* The next call of a batch, and what was sent of it.
LEMMA NextDue ==
  ASSUME TypeInv, BatchInv, run.pc \in Works
  PROVE  \/ run.calls = <<>>
         \/ Len(run.results) = Len(Ids(run.calls))
         \/ LET d == Len(run.results) ids == Ids(run.calls) IN
            d + 1 \in DOMAIN ids /\ ids[d + 1] \in Future /\ ids[d + 1] \notin Unborn
  <1>1. PICK c \in Nat : c = Len(run.calls) /\ DOMAIN run.calls = 1 .. c
    BY KnownBatch
  <1>2. PICK d \in Nat : d = Len(run.results)
    BY KnownBatch
  <1>3. PICK l \in Nat : l = Len(run.todo) /\ DOMAIN run.todo = 1 .. l
    BY KnownBatch
  <1>4. \A i \in 1 .. c : run.calls[i].id \notin Unborn
    <2>1. \A i \in 1 .. c : run.calls[i].id \in CallIds /\ run.calls[i].id <= bounds.calls
      BY <1>1, KnownBatch DEF BatchInv
    <2>2. \A n \in CallIds : n <= bounds.calls => n \notin Unborn
      BY KnownBatch, Constants DEF CallIds, Unborn
    <2> QED BY <2>1, <2>2
  <1>5. /\ Len(Ids(run.calls)) = c /\ DOMAIN Ids(run.calls) = 1 .. c
        /\ \A i \in 1 .. c : Ids(run.calls)[i] = run.calls[i].id
    BY <1>1, KnownBatch
  <1>6. CASE run.pc = "model" /\ c # 0
    <2>1. d = 0 /\ 1 \in 1 .. c /\ d + 1 = 1
      <3>1. run.results = <<>> /\ Len(<<>>) = 0
        BY <1>6 DEF BatchInv
      <3> QED BY <1>1, <1>2, <1>6, <3>1
    <2>2. run.calls[1].id \in Future
      BY <1>1, <1>6, <2>1, FutureOf
    <2> QED BY <1>2, <1>4, <1>5, <2>1, <2>2
  <1>7. CASE run.pc # "model" /\ d # c
    <2>1. d + l = c /\ \A i \in 1 .. l : run.todo[i] = run.calls[d + i]
      BY <1>1, <1>2, <1>3, <1>7 DEF BatchInv
    <2>2. 1 \in 1 .. l /\ d + 1 \in 1 .. c
      BY <1>7, <2>1
    <2>3. run.todo[1].id \in Future /\ run.todo[1] = run.calls[d + 1]
      BY <1>3, <1>7, <2>1, <2>2, FutureOf
    <2> QED BY <1>2, <1>4, <1>5, <2>2, <2>3
  <1>8. CASE c = 0
    <2>1. run.calls = <<>>
      BY <1>1, <1>8, KnownBatch
    <2> QED BY <2>1
  <1> QED BY <1>2, <1>5, <1>6, <1>7, <1>8

\* With the end of a batch or of a run no call is left but those to come.
LEMMA FairEnds ==
  ASSUME TypeInv, BatchInv, NEW h \in Seq(Message), Fair(h), Future' = Unborn
  PROVE  Fair(h)'
  <1>1. PICK works : works = (run.pc \in Works)
    OBVIOUS
  <1>2. PICK ids : ids = Ids(run.calls)
    OBVIOUS
  <1>3. PICK d : d = Len(run.results)
    OBVIOUS
  <1>4. FairOf(h, Future, run.pc \in Works, ids, d)
    BY <1>2, <1>3 DEF Fair
  <1>5. run.pc \in Works =>
            \/ ids = <<>>
            \/ d = Len(ids)
            \/ d + 1 \in DOMAIN ids /\ ids[d + 1] \in Future /\ ids[d + 1] \notin Unborn
    <2>1. run.calls = <<>> => ids = <<>>
      <3>1. ASSUME run.calls = <<>>
            PROVE  Len(ids) = 0 /\ ids \in Seq(CallIds)
        <4>1. Len(<<>>) = 0
          OBVIOUS
        <4> QED BY <1>2, <3>1, <4>1, KnownBatch
      <3> QED BY <3>1
    <2> QED BY <1>2, <1>3, <2>1, NextDue
  <1>6. FairOf(h, Unborn, run'.pc \in Works, Ids(run'.calls), Len(run'.results))
    <2>1. Unborn \subseteq Future
      BY FutureOf
    <2>2. CASE ~(run.pc \in Works)
      <3>1. FairOf(h, Future, FALSE, ids, d)
        BY <1>4, <2>2 DEF FairOf
      <3> QED BY ZenonT(60), <2>1, <3>1, FairShrinks
    <2>3. CASE ids = <<>>
      BY <1>4, <2>1, <2>3, FairShrinks
    <2>4. CASE d = Len(ids)
      BY <1>4, <2>1, <2>4, FairShrinks
    <2>5. CASE d + 1 \in DOMAIN ids /\ ids[d + 1] \in Future /\ ids[d + 1] \notin Unborn
      BY <1>4, <2>1, <2>5, FairShrinks
    <2> QED BY <1>5, <2>2, <2>3, <2>4, <2>5
  <1> QED BY <1>6 DEF Fair

\* A history that stays as it is while the batch does.
LEMMA FairSame ==
  ASSUME NEW h \in Seq(Message), Fair(h), Future' = Future, run'.calls = run.calls,
         run'.results = run.results, run.pc \in Works => run'.pc \in Works
  PROVE  Fair(h)'
  BY DEF Fair, FairOf

LEMMA FutureBatch ==
  ASSUME TypeInv, NEW b, GivesIds(b), Future' \subseteq {Batch(b)[i].id : i \in DOMAIN Batch(b)} \cup Unborn',
         run.calls = <<>>
  PROVE  Future' \subseteq Future
  <1>1. PICK n \in Nat : n = bounds.calls
    BY DEF TypeInv
  <1>2. PICK l \in Nat : l = Len(b) /\ DOMAIN Batch(b) = 1 .. l
    BY BatchIds
  <1>3. /\ bounds'.calls = n + l /\ n + l <= MaxCalls
        /\ \A i \in DOMAIN Batch(b) : Batch(b)[i].id = n + i
    BY <1>1, <1>2, BatchIds
  <1>4. Unborn' \subseteq Unborn
    BY <1>1, <1>3, Constants DEF Unborn
  <1>5. \A i \in 1 .. l : n + i \in Unborn
    BY <1>1, <1>3, Constants DEF Unborn
  <1> QED BY <1>2, <1>3, <1>4, <1>5, FutureOf

LEMMA TextsFair ==
  ASSUME TypeInv, FairInv, Texts
  PROVE  FairInv'
  <1>1. [type |-> "text"] \in Event
    BY EventTypes
  <1>2. Future' = Future
    BY DEF Texts, SameBatch, Future, Due
  <1>3. ASSUME NEW h \in Seq(Message), NEW g \in Seq(Message), Fair(h),
               g = Applied(h, [type |-> "text"])
        PROVE  Fair(g)'
    <2>1. g = Spoken(h, TRUE, <<>>)
      BY <1>3 DEF Applied
    <2>2. PICK ids \in Seq(CallIds) : ids = Ids(run.calls)
      BY KnownBatch
    <2>3. ids = <<>>
      <3>1. Len(ids) = 0
        <4>1. Len(<<>>) = 0
          OBVIOUS
        <4> QED BY <2>2, <4>1, KnownBatch DEF Texts
      <3> QED BY <3>1
    <2>4. FairOf(h, Future, run.pc \in Works, <<>>, Len(run.results))
      BY <1>3, <2>2, <2>3 DEF Fair
    <2>5. FairOf(g, Future, TRUE, <<>>, 0)
      <3>1. <<>> \in Seq(CallIds)
        OBVIOUS
      <3> QED BY <2>1, <2>4, <3>1, FairSpeaks
    <2>6. FairOf(g, Future', run'.pc \in Works, Ids(run'.calls), Len(run'.results))
      <3>1. ~Open(g, <<>>, 0)
        BY DEF Open
      <3> QED BY <1>2, <2>5, <3>1 DEF FairOf
    <2> QED BY <2>6 DEF Fair
  <1> QED BY <1>1, <1>3, FairSends DEF Texts, SameCourse

LEMMA CallsFair ==
  ASSUME TypeInv, BatchInv, FairInv, NEW b, Calls(b)
  PROVE  FairInv'
  <1>1. GivesIds(b) /\ run'.calls = Batch(b) /\ run'.pc = "model" /\ run'.results = run.results
        /\ run.calls = <<>> /\ run.results = <<>>
    BY DEF Calls, BatchInv
  <1>2. PICK ids \in Seq(CallIds) : ids = Ids(Batch(b))
    BY <1>1, BatchIds, IdsType
  <1>3. PICK e \in Event : e = [type |-> "calls", calls |-> ids]
    BY EventTypes
  <1>4. Future' \subseteq Future
    <2>1. Future' \subseteq {Batch(b)[i].id : i \in DOMAIN Batch(b)} \cup Unborn'
      BY <1>1 DEF Future, Due, Unborn
    <2> QED BY <1>1, <2>1, FutureBatch
  <1>5. ASSUME NEW h \in Seq(Message), NEW g \in Seq(Message), Fair(h), g = Applied(h, e)
        PROVE  Fair(g)'
    <2>1. g = Spoken(h, FALSE, ids)
      BY <1>3, <1>5 DEF Applied
    <2>2. Ids(run.calls) = <<>>
      <3>1. PICK i \in Seq(CallIds) : i = Ids(run.calls) /\ Len(i) = Len(run.calls)
        BY KnownBatch
      <3>2. Len(<<>>) = 0
        OBVIOUS
      <3>3. i = <<>>
        BY <1>1, <3>1, <3>2
      <3> QED BY <3>1, <3>3
    <2>3. FairOf(h, Future, run.pc \in Works, <<>>, Len(run.results))
      BY <1>5, <2>2 DEF Fair
    <2>4. FairOf(g, Future', TRUE, ids, 0)
      BY <1>4, <2>1, <2>3, FairSpeaks
    <2>5. run'.pc \in Works /\ Len(run'.results) = 0 /\ Ids(run'.calls) = ids
      <3>1. Len(<<>>) = 0
        OBVIOUS
      <3> QED BY <1>1, <1>2, <3>1 DEF Works
    <2>6. FairOf(g, Future', run'.pc \in Works, Ids(run'.calls), Len(run'.results))
      BY <2>4, <2>5
    <2> QED BY <2>6 DEF Fair
  <1>6. events' = Append(events, e) /\ UNCHANGED ui
    BY <1>2, <1>3 DEF Calls, SameCourse
  <1> QED BY <1>5, <1>6, FairSends

LEMMA AnswerFair ==
  ASSUME TypeInv, BatchInv, FairInv, Told \/ TextLost \/ \E b : CallsLost(b)
  PROVE  FairInv'
  <1>1. UNCHANGED <<events, ui>> /\ run.pc = "model" /\ run'.pc # "model"
    BY DEF Told, TextLost, CallsLost, AnswerIs, SameCourse, Refusals, Asks
  <1>2. DOMAIN <<>> = {} /\ Len(<<>>) = 0
    OBVIOUS
  <1>3. CASE Told /\ run.calls # <<>>
    <2>1. /\ run'.calls = run.calls /\ run'.todo = run.calls /\ UNCHANGED bounds
          /\ run'.results = <<>> /\ run.results = <<>> /\ run'.pc \in Works
      BY <1>1, <1>3 DEF Told, AnswerIs, BatchInv, Works, Batching
    <2>2. Future' = Future
      BY <1>1, <2>1 DEF Future, Due
    <2>3. \A h \in Seq(Message) : Fair(h) => Fair(h)'
      BY <2>1, <2>2, FairSame
    <2> QED BY <1>1, <2>3, FairStays
  <1>4. CASE (Told /\ run.calls = <<>>) \/ TextLost
    <2>1. run'.todo = <<>> /\ UNCHANGED bounds
      BY <1>4 DEF Told, TextLost, AnswerIs
    <2>2. Future' = Unborn
      BY <1>1, <1>2, <2>1 DEF Future, Due, Unborn
    <2>3. \A h \in Seq(Message) : Fair(h) => Fair(h)'
      BY <2>2, FairEnds
    <2> QED BY <1>1, <2>3, FairStays
  <1>5. ASSUME NEW b, CallsLost(b)
        PROVE  FairInv'
    <2>1. GivesIds(b) /\ run.calls = <<>> /\ run'.todo = Batch(b)
      BY <1>5 DEF CallsLost, AnswerIs
    <2>2. Future' \subseteq Future
      <3>1. Future' \subseteq {Batch(b)[i].id : i \in DOMAIN Batch(b)} \cup Unborn'
        BY <1>1, <2>1 DEF Future, Due, Unborn
      <3> QED BY <2>1, <3>1, FutureBatch
    <2>3. Ids(run.calls) = <<>>
      <3>1. PICK i \in Seq(CallIds) : i = Ids(run.calls) /\ Len(i) = Len(run.calls)
        BY KnownBatch
      <3>2. i = <<>>
        BY <1>2, <2>1, <3>1
      <3> QED BY <3>1, <3>2
    <2>4. ASSUME NEW h \in Seq(Message), Fair(h)
          PROVE  Fair(h)'
      <3>1. FairOf(h, Future, run.pc \in Works, <<>>, Len(run.results))
        BY <2>3, <2>4 DEF Fair
      <3>2. FairOf(h, Future', run'.pc \in Works, Ids(run'.calls), Len(run'.results))
        BY <2>2, <3>1, FairShrinks
      <3> QED BY <3>2 DEF Fair
    <2> QED BY <1>1, <2>4, FairStays
  <1> QED BY <1>3, <1>4, <1>5

LEMMA GivesFair ==
  ASSUME TypeInv, BatchInv, FairInv, NEW body, Gives(body)
  PROVE  FairInv'
  <1>1. PICK c \in Nat : c = Len(run.calls) /\ DOMAIN run.calls = 1 .. c
    BY KnownBatch
  <1>2. PICK d \in Nat : d = Len(run.results)
    BY KnownBatch
  <1>3. "model" \notin Batching /\ Batching \subseteq Works
    BY DEF Batching, Works, Refusals, Asks, Runs
  <1>4. PICK t \in Seq(Call) : t = run.todo /\ t # <<>>
    BY KnownBatch DEF Gives
  <1>5. PICK l \in Nat : Len(t) = l + 1 /\ DOMAIN t = 1 .. l + 1 /\ Head(t) = t[1]
    <2>1. Len(t) - 1 \in Nat /\ Len(t) = (Len(t) - 1) + 1 /\ DOMAIN t = 1 .. Len(t)
          /\ Head(t) = t[1]
      BY <1>4
    <2> QED BY <2>1
  <1>6. d + (l + 1) = c /\ \A i \in 1 .. l + 1 : t[i] = run.calls[d + i]
    BY <1>1, <1>2, <1>3, <1>4, <1>5 DEF BatchInv, Gives
  <1>7. PICK u \in Seq(Call) : u = Tail(t) /\ DOMAIN u = 1 .. l /\ \A i \in 1 .. l : u[i] = t[i + 1]
    <2>1. Tail(t) \in Seq(Call) /\ DOMAIN Tail(t) = 1 .. l /\ \A i \in 1 .. l : Tail(t)[i] = t[i + 1]
      BY <1>4, <1>5
    <2> QED BY <2>1
  <1>8. PICK ids \in Seq(CallIds) :
          ids = Ids(run.calls) /\ DOMAIN ids = 1 .. c /\ \A i \in 1 .. c : ids[i] = run.calls[i].id
    BY <1>1, KnownBatch
  <1>9. d + 1 \in 1 .. c /\ t[1] = run.calls[d + 1] /\ 1 \in 1 .. l + 1
    BY <1>6
  <1>10. t[1].id = ids[d + 1]
    BY <1>8, <1>9
  <1>11. /\ Future = {t[i].id : i \in 1 .. l + 1} \cup Unborn
         /\ Future' = {u[i].id : i \in 1 .. l} \cup Unborn
    BY ZenonT(60), <1>3, <1>4, <1>5, <1>7 DEF Gives, Future, Due, Unborn
  <1>12. Future' \subseteq Future
    <2>1. \A i \in 1 .. l : i + 1 \in 1 .. l + 1
      OBVIOUS
    <2> QED BY <1>7, <1>11, <2>1
  <1>13. ids[d + 1] \in Future /\ ids[d + 1] \notin Future'
    <2>1. ids[d + 1] \in Future
      BY <1>9, <1>10, <1>11
    <2>2. ASSUME NEW i \in 1 .. l, u[i].id = ids[d + 1]
          PROVE  FALSE
      <3>1. u[i] = run.calls[d + (i + 1)] /\ d + (i + 1) \in 1 .. c /\ d + (i + 1) # d + 1
        <4>1. i + 1 \in 1 .. l + 1
          OBVIOUS
        <4>2. d + (i + 1) \in 1 .. c /\ d + (i + 1) # d + 1
          BY <1>6
        <4> QED BY <1>6, <1>7, <4>1, <4>2
      <3>2. run.calls[d + (i + 1)].id = run.calls[d + 1].id
        BY <1>8, <1>9, <2>2, <3>1
      <3> QED BY <1>1, <1>9, <3>1, <3>2 DEF BatchInv
    <2>3. ids[d + 1] \notin Unborn
      <3>1. run.calls[d + 1].id <= bounds.calls
        BY <1>1, <1>9 DEF BatchInv
      <3>2. ids[d + 1] \in CallIds /\ ids[d + 1] <= bounds.calls
        BY <1>8, <1>9, <3>1
      <3> QED BY <3>2, KnownBatch, Constants DEF Unborn, CallIds
    <2> QED BY <1>11, <2>1, <2>2, <2>3
  <1>14. /\ run.pc \in Works /\ run'.pc \in Works /\ Ids(run'.calls) = ids
         /\ Len(run'.results) = d + 1
    <2>1. PICK r \in Seq(Answer), a \in Answer :
            r = run.results /\ a = Result(Head(run.todo).id, body)
      <3>1. Head(run.todo).id \in CallIds
        BY <1>4, TodoType
      <3> QED BY <3>1, KnownBatch, Messages DEF Gives
    <2>2. run'.results = Append(r, a) /\ Len(Append(r, a)) = d + 1
      BY <1>2, <2>1 DEF Gives
    <2> QED BY <1>3, <1>8, <2>2 DEF Gives
  <1>15. CASE UNCHANGED events
    <2>1. ASSUME NEW h \in Seq(Message), Fair(h)
          PROVE  Fair(h)'
      <3>1. FairOf(h, Future, run.pc \in Works, ids, d)
        BY <1>2, <1>8, <2>1 DEF Fair
      <3>2. d + 1 \in DOMAIN ids
        BY <1>8, <1>9
      <3>3. FairOf(h, Future', run'.pc \in Works, Ids(run'.calls), Len(run'.results))
        BY <1>12, <1>13, <3>1, <3>2, FairShrinks
      <3> QED BY <3>3 DEF Fair
    <2> QED BY <1>15, <2>1, FairStays DEF Gives, SameCourse
  <1>16. CASE events' = Append(events, [type |-> "tool", call |-> Head(run.todo).id, body |-> body])
    <2>1. PICK e \in Event : e = [type |-> "tool", call |-> ids[d + 1], body |-> body]
      <3>1. ids[d + 1] \in CallIds
        BY <1>8, <1>9
      <3> QED BY <3>1, EventTypes DEF Gives
    <2>2. ASSUME NEW h \in Seq(Message), NEW g \in Seq(Message), Fair(h), g = Applied(h, e)
          PROVE  Fair(g)'
      <3>1. FairOf(h, Future, TRUE, ids, d)
        BY <1>2, <1>8, <1>14, <2>2 DEF Fair
      <3>2. g = Append(h, Result(ids[d + 1], body))
        BY <2>1, <2>2 DEF Applied
      <3>3. d + 1 \in DOMAIN ids /\ body \in Bodies \cup {"notice"}
        BY <1>8, <1>9 DEF Gives
      <3>4. FairOf(g, Future', TRUE, ids, d + 1)
        BY <1>12, <1>13, <3>1, <3>2, <3>3, FairGives
      <3>5. FairOf(g, Future', run'.pc \in Works, Ids(run'.calls), Len(run'.results))
        BY <1>14, <3>4
      <3> QED BY <3>5 DEF Fair
    <2>3. events' = Append(events, e) /\ UNCHANGED ui
      BY <1>4, <1>5, <1>10, <1>16, <2>1 DEF Gives, SameCourse
    <2> QED BY <2>2, <2>3, FairSends
  <1> QED BY <1>15, <1>16 DEF Gives

LEMMA EndFair ==
  ASSUME TypeInv, BatchInv, TellInv, FairInv,
         Retries \/ Dies \/ Joins \/ Shortens \/ Settles \/ Finishes \/ Returns
  PROVE  FairInv'
  <1>1. "model" \notin Batching /\ "announce" \notin Batching /\ "compact" \notin Batching
        /\ "finish" \notin Batching /\ "return" \notin Batching
    BY DEF Batching, Refusals, Asks, Runs
  <1>2. Future' = Unborn
    <2>1. bounds'.calls = bounds.calls
      BY DEF Retries, Dies, Joins, Shortens, Settles, Finishes, Returns
    <2>2. IF run'.pc = "model" THEN run'.calls = <<>> ELSE run'.todo = <<>>
      <3>1. CASE Retries
        BY <3>1 DEF Retries
      <3>2. CASE Dies \/ Finishes
        BY <3>2 DEF Dies, Finishes
      <3>3. CASE Joins
        BY <3>3 DEF Joins, SameBatch
      <3>4. CASE Shortens \/ Returns
        BY <1>1, <3>4 DEF Shortens, Returns, SameBatch, BatchInv
      <3>5. CASE Settles
        <4>1. run.todo = <<>>
          BY <1>1, <3>5 DEF Settles, Outcome, BatchInv
        <4> QED BY <3>5, <4>1 DEF Settles
      <3> QED BY <3>1, <3>2, <3>3, <3>4, <3>5
    <2>3. DOMAIN <<>> = {}
      OBVIOUS
    <2> QED BY <2>1, <2>2, <2>3 DEF Future, Due, Unborn
  <1>3. \A h \in Seq(Message) : Fair(h) => Fair(h)'
    BY <1>2, FairEnds
  <1>4. UNCHANGED ui
    BY DEF Retries, Dies, Joins, Shortens, Settles, Finishes, Returns, SameCourse
  <1>5. CASE UNCHANGED events
    BY <1>3, <1>4, <1>5, FairStays
  <1>6. CASE /\ Settles /\ run.pc = "announce"
             /\ events' = Append(events, [type |-> "compacted", messages |-> run.messages])
    <2>1. PICK e \in Event : e = [type |-> "compacted", messages |-> run.messages]
      BY KnownHistories, EventTypes
    <2>2. Sound(run.messages, bounds.calls)
      BY <1>1, <1>6 DEF TellInv, Sound
    <2>3. \A c \in Unborn : ~(c <= bounds.calls)
      BY KnownBatch DEF Unborn
    <2>4. ASSUME NEW h \in Seq(Message), NEW g \in Seq(Message), Fair(h), g = Applied(h, e)
          PROVE  Fair(g)'
      <3>1. g = run.messages
        BY <2>1, <2>4 DEF Applied
      <3>2. FairOf(g, Unborn, run'.pc \in Works, Ids(run'.calls), Len(run'.results))
        BY <2>2, <2>3, <3>1, KnownBatch, FairSound
      <3> QED BY <1>2, <3>2 DEF Fair
    <2> QED BY <1>4, <1>6, <2>1, <2>4, FairSends
  <1>7. CASE Returns /\ \E ok \in BOOLEAN : events' = Append(events, [type |-> "done", ok |-> ok])
    <2>1. PICK ok \in BOOLEAN : events' = Append(events, [type |-> "done", ok |-> ok])
      BY <1>7
    <2>2. PICK e \in Event : e = [type |-> "done", ok |-> ok]
      BY EventTypes
    <2>3. ASSUME NEW h \in Seq(Message), NEW g \in Seq(Message), Fair(h), g = Applied(h, e)
          PROVE  Fair(g)'
      <3>1. g = h
        BY <2>2, <2>3 DEF Applied
      <3> QED BY <1>3, <2>3, <3>1
    <2> QED BY <1>4, <2>1, <2>2, <2>3, FairSends
  <1> QED BY <1>5, <1>6, <1>7 DEF Retries, Dies, Joins, Shortens, Settles, Finishes, Returns

LEMMA MovesFair ==
  ASSUME TypeInv, FairInv, Moves
  PROVE  FairInv'
  <1>1. /\ run.pc # "model" /\ run'.pc # "model" /\ run'.pc \in Works /\ SameBatch
        /\ UNCHANGED <<ui, bounds>>
    BY DEF Moves, SameCourse, Batching, Works, Refusals, Asks, Runs
  <1>2. Future' = Future
    BY <1>1 DEF Future, Due, SameBatch
  <1>3. \A h \in Seq(Message) : Fair(h) => Fair(h)'
    BY <1>1, <1>2, FairSame DEF SameBatch
  <1>4. CASE UNCHANGED events
    BY <1>1, <1>3, <1>4, FairStays
  <1>5. CASE \E ask \in SUBSET Asking : events' = Append(events, [type |-> "prompt", ask |-> ask])
    <2>1. PICK ask \in SUBSET Asking : events' = Append(events, [type |-> "prompt", ask |-> ask])
      BY <1>5
    <2>2. PICK e \in Event : e = [type |-> "prompt", ask |-> ask]
      BY EventTypes
    <2>3. ASSUME NEW h \in Seq(Message), NEW g \in Seq(Message), Fair(h), g = Applied(h, e)
          PROVE  Fair(g)'
      <3>1. g = h
        BY <2>2, <2>3 DEF Applied
      <3> QED BY <1>3, <2>3, <3>1
    <2> QED BY <1>1, <2>1, <2>2, <2>3, FairSends
  <1> QED BY <1>4, <1>5 DEF Moves

LEMMA SessionFair ==
  ASSUME TypeInv, BatchInv, TellInv, FairInv,
         \/ Texts \/ (\E b : Calls(b) \/ CallsLost(b)) \/ Told \/ TextLost \/ Retries \/ Dies
         \/ (\E body : Gives(body)) \/ Joins \/ Moves
         \/ Shortens \/ Settles \/ Finishes \/ Returns
  PROVE  FairInv'
  BY TextsFair, CallsFair, AnswerFair, GivesFair, MovesFair, EndFair

----------------------------------------------------------------------------
(* The session's own history.                                              *)

LEMMA KnownIds ==
  ASSUME TypeInv
  PROVE  /\ \A calls \in Seq(Call) : Ids(calls) \in Seq(CallIds)
         /\ \A calls \in Seq(Call) : calls # <<>> => Ids(calls) # <<>>
  <1>1. ASSUME NEW calls \in Seq(Call), Ids(calls) = <<>>
        PROVE  calls = <<>>
    <2>1. PICK ids \in Seq(CallIds) : ids = Ids(calls) /\ DOMAIN ids = DOMAIN calls
      BY IdsType, MadeOf
    <2>2. DOMAIN <<>> = {} /\ DOMAIN calls = 1 .. Len(calls) /\ Len(calls) \in Nat
      OBVIOUS
    <2>3. Len(calls) = 0
      <3>1. 1 \notin 1 .. Len(calls)
        BY <1>1, <2>1, <2>2
      <3> QED BY <2>2, <3>1
    <2> QED BY <2>3
  <1> QED BY <1>1, IdsType

\* A number of calls that does not fall.
LEMMA CallsGrow ==
  ASSUME TypeInv, TypeInv',
         \/ Texts \/ (\E b : Calls(b) \/ CallsLost(b)) \/ Told \/ TextLost \/ Retries \/ Dies
         \/ (\E body : Gives(body)) \/ Joins \/ Moves
         \/ Shortens \/ Settles \/ Finishes \/ Returns
  PROVE  /\ bounds.calls \in Nat /\ bounds'.calls \in Nat /\ bounds.calls <= bounds'.calls
         /\ \A h \in Seq(Message) : Low(h, bounds.calls) => Low(h, bounds'.calls)
         /\ \A h \in Seq(Message) : Sound(h, bounds.calls) => Sound(h, bounds'.calls)
  <1>1. bounds.calls \in Nat /\ bounds'.calls \in Nat
    BY DEF TypeInv
  <1>2. bounds.calls <= bounds'.calls
    <2>1. CASE \E b : Calls(b) \/ CallsLost(b)
      BY <2>1, BatchIds DEF Calls, CallsLost
    <2>2. CASE bounds'.calls = bounds.calls
      BY <1>1, <2>2
    <2> QED BY <2>1, <2>2 DEF Texts, Told, TextLost, Retries, Dies, Gives, Joins, Moves, Shortens,
                            Settles, Finishes, Returns
  <1>3. \A h \in Seq(Message) : Low(h, bounds.calls) => Low(h, bounds'.calls)
    BY <1>1, <1>2, SoundGrows
  <1> QED BY <1>1, <1>2, <1>3 DEF Sound

LEMMA AnswerTells ==
  ASSUME TypeInv, TypeInv', TellInv, NEW text \in BOOLEAN, NEW calls \in Seq(Call),
         AnswerIs(text, calls), \A h \in Seq(Message) : Low(h, bounds.calls) => Low(h, bounds'.calls)
  PROVE  TellInv'
  <1>1. /\ run.messages \in Seq(Message) /\ Plain(run.messages) /\ Low(run.messages, bounds'.calls)
        /\ Complete(run.messages)
    BY KnownHistories DEF TellInv, AnswerIs, Batching, Refusals, Asks, Runs
  <1>2. PICK ids \in Seq(CallIds) : ids = Ids(calls)
    BY KnownIds
  <1>3. CASE calls # <<>>
    <2>1. ids # <<>>
      BY <1>2, <1>3, KnownIds
    <2>2. run'.messages = Append(run.messages, Assistant(text, ids)) /\ Ids(run'.calls) = ids
      BY <1>2, <1>3 DEF AnswerIs
    <2>3. /\ Open(run'.messages, ids, 0) /\ Plain(run'.messages)
          /\ Low(run'.messages, bounds'.calls)
      BY <1>1, <2>1, <2>2, OpenAppend
    <2>4. run'.pc \in Batching
      BY <1>3 DEF AnswerIs, Batching
    <2> QED BY <2>2, <2>3, <2>4 DEF TellInv
  <1>4. CASE calls = <<>>
    <2>1. run'.pc = "compact" /\ "compact" \notin Batching
      BY <1>4 DEF AnswerIs, Batching, Refusals, Asks, Runs
    <2>2. CASE ~text
      BY <1>1, <1>4, <2>1, <2>2 DEF TellInv, AnswerIs
    <2>3. CASE text
      <3>1. ids = <<>>
        <4>1. DOMAIN ids = DOMAIN calls /\ DOMAIN <<>> = {}
          BY <1>2, MadeOf
        <4> QED BY <1>4, <4>1
      <3>2. PICK m \in Message : m = Assistant(text, ids)
        BY Messages
      <3>3. m.role = "assistant" /\ m.calls = <<>>
        BY <3>1, <3>2, MadeOf
      <3>4. run'.messages = Append(run.messages, m)
        BY <1>2, <2>3, <3>2 DEF AnswerIs
      <3>5. bounds'.calls \in Nat
        BY DEF TypeInv
      <3>6. Sound(run.messages, bounds'.calls)
        BY <1>1 DEF Sound
      <3>7. Sound(run'.messages, bounds'.calls)
        BY <1>1, <3>3, <3>4, <3>5, <3>6, SoundAppend
      <3> QED BY <2>1, <3>7 DEF Sound, TellInv
    <2> QED BY <2>2, <2>3
  <1> QED BY <1>3, <1>4

LEMMA JoinsTells ==
  ASSUME TypeInv, TypeInv', BatchInv, TellInv, Joins
  PROVE  TellInv'
  <1>1. run.pc \in Batching /\ run.pc # "model" /\ run'.pc \notin Batching
        /\ bounds'.calls = bounds.calls
    BY DEF Joins, Batching, Refusals, Asks, Runs
  <1>2. /\ run.messages \in Seq(Message) /\ Plain(run.messages) /\ Low(run.messages, bounds.calls)
        /\ Open(run.messages, Ids(run.calls), 0)
    BY <1>1, KnownHistories DEF TellInv
  <1>3. PICK b \in Seq(Answer) : b = run.results
    BY KnownBatch
  <1>4. PICK ids \in Seq(CallIds) :
          /\ ids = Ids(run.calls) /\ DOMAIN ids = DOMAIN run.calls /\ Len(ids) = Len(run.calls)
          /\ \A i \in DOMAIN run.calls : ids[i] = run.calls[i].id
    BY KnownBatch
  <1>5. Len(b) = Len(ids)
    <2>1. Len(run.results) + Len(run.todo) = Len(run.calls) /\ run.todo = <<>>
      BY <1>1 DEF BatchInv, Joins
    <2>2. Len(<<>>) = 0
      OBVIOUS
    <2> QED BY <1>3, <1>4, <2>1, <2>2, KnownBatch
  <1>6. \A i \in DOMAIN b : b[i].call = ids[i]
    <2>1. \A i \in DOMAIN run.results : run.results[i].call = run.calls[i].id
      BY <1>1 DEF BatchInv
    <2>2. DOMAIN b = DOMAIN run.calls
      BY <1>3, <1>4, <1>5, KnownBatch
    <2> QED BY <1>3, <1>4, <2>1, <2>2
  <1>7. \A i \in DOMAIN ids : ids[i] <= bounds.calls
    BY <1>4 DEF BatchInv
  <1>8. /\ run'.messages = run.messages \o b
        /\ Complete(run'.messages) /\ Plain(run'.messages) /\ Low(run'.messages, bounds.calls)
    BY <1>2, <1>3, <1>4, <1>5, <1>6, <1>7, OpenJoin DEF Joins
  <1> QED BY <1>1, <1>8 DEF TellInv

\* The answer and its results, put back after a summary.
LEMMA ReattachedSound ==
  ASSUME TypeInv, BatchInv, run.pc = "compact"
  PROVE  Reattached \in Seq(Message) /\ Sound(Reattached, bounds.calls)
  <1>1. /\ run.results \in Seq(Answer) /\ run.text \in BOOLEAN /\ bounds.calls \in Nat
        /\ DOMAIN run.results = 1 .. Len(run.results) /\ Len(run.results) \in Nat
    BY DEF TypeInv, Sessions
  <1>2. PICK ids \in Seq(CallIds) :
          /\ ids = Ids(run.calls) /\ DOMAIN ids = DOMAIN run.calls /\ Len(ids) = Len(run.calls)
          /\ \A i \in DOMAIN run.calls : ids[i] = run.calls[i].id
    BY KnownBatch
  <1>3. PICK b \in Seq(Answer) : b = [i \in DOMAIN run.results |-> Refit(run.results[i])]
    <2>1. \A m \in Answer : Refit(m) \in Answer
      BY DEF Refit, Answer, Bodies
    <2>2. \A i \in DOMAIN run.results : run.results[i] \in Answer
      BY <1>1
    <2>3. [i \in DOMAIN run.results |-> Refit(run.results[i])] \in Seq(Answer)
      BY <1>1, <2>1, <2>2
    <2> QED BY <2>3
  <1>4. \A i \in DOMAIN run.results : b[i].call = run.results[i].call
    <2>1. \A m \in Answer : Refit(m).call = m.call
      BY DEF Refit, Answer
    <2> QED BY <1>1, <1>3, <2>1
  <1>5. Len(run.results) = Len(ids) /\ \A i \in DOMAIN run.results : run.results[i].call = ids[i]
    <2>1. /\ Len(run.results) + Len(run.todo) = Len(run.calls) /\ run.todo = <<>>
          /\ \A i \in DOMAIN run.results : run.results[i].call = run.calls[i].id
      BY DEF BatchInv, Batching, Refusals, Asks, Runs
    <2>2. Len(<<>>) = 0
      OBVIOUS
    <2>3. Len(run.results) = Len(ids) /\ DOMAIN run.results = DOMAIN run.calls
      BY <1>2, <2>1, <2>2, KnownBatch
    <2> QED BY <1>2, <2>1, <2>3
  <1>6. DOMAIN b = DOMAIN run.results /\ Len(b) = Len(ids) /\ \A i \in DOMAIN b : b[i].call = ids[i]
    <2>1. DOMAIN b = DOMAIN run.results /\ DOMAIN b = 1 .. Len(b) /\ Len(b) \in Nat
      BY <1>3
    <2>2. Len(b) = Len(run.results)
      BY <1>1, <2>1
    <2> QED BY <1>4, <1>5, <2>1, <2>2
  <1>7. PICK m \in Message : m = Assistant(run.text, ids)
    BY <1>1, Messages
  <1>8. m.role = "assistant" /\ m.calls = ids
    BY <1>7, MadeOf
  <1>9. PICK h \in Seq(Message) : h = <<m>> /\ h = Append(<<>>, m)
    <2>1. <<m>> \in Seq(Message) /\ <<m>> = Append(<<>>, m)
      OBVIOUS
    <2> QED BY <2>1
  <1>10. Reattached = h \o b
    BY <1>2, <1>3, <1>7, <1>9 DEF Reattached
  <1>11. PICK none \in Seq(Message) : none = <<>>
    BY FairEmpty
  <1>12. Sound(none, bounds.calls)
    <2>1. DOMAIN none = {}
      BY <1>11
    <2> QED BY <2>1 DEF Sound, Complete, Plain, Low, IsSpeech, Answers
  <1>13. CASE ids = <<>>
    <2>1. Sound(h, bounds.calls)
      BY <1>1, <1>8, <1>9, <1>11, <1>12, <1>13, SoundAppend
    <2>2. b = none
      <3>1. Len(ids) = 0
        BY <1>13
      <3> QED BY <1>6, <1>11, <3>1
    <2>3. h \o none \in Seq(Message) /\ Sound(h \o none, bounds.calls)
      BY <1>1, <1>12, <2>1, SoundJoin, JoinParts
    <2> QED BY <1>10, <2>2, <2>3
  <1>14. CASE ids # <<>>
    <2>1. Complete(none) /\ Plain(none) /\ Low(none, bounds.calls)
      BY <1>12 DEF Sound
    <2>2. Open(h, ids, 0) /\ Plain(h) /\ Low(h, bounds.calls)
      BY <1>1, <1>7, <1>9, <1>11, <1>14, <2>1, OpenAppend
    <2>3. \A i \in DOMAIN ids : ids[i] <= bounds.calls
      BY <1>2 DEF BatchInv
    <2>4. h \o b \in Seq(Message) /\ Complete(h \o b) /\ Plain(h \o b) /\ Low(h \o b, bounds.calls)
      BY <1>6, <2>2, <2>3, OpenJoin
    <2> QED BY <1>10, <2>4 DEF Sound
  <1> QED BY <1>13, <1>14

LEMMA ShortensTells ==
  ASSUME TypeInv, TypeInv', BatchInv, TellInv, Shortens
  PROVE  TellInv' /\ Sound(run'.messages, bounds'.calls)
  <1>1. /\ run.messages \in Seq(Message) /\ bounds.calls \in Nat /\ bounds'.calls = bounds.calls
        /\ run.pc = "compact" /\ run'.pc = "announce"
    BY KnownHistories DEF TypeInv, Shortens
  <1>2. Sound(run.messages, bounds.calls)
    BY <1>1 DEF TellInv, Sound, Batching, Refusals, Asks, Runs
  <1>3. PICK talk \in Seq(Message) : talk = Talk(run.messages) /\ Sound(talk, bounds.calls)
    BY <1>1, <1>2, SoundTalk
  <1>4. PICK at \in 1 .. Len(talk) + 1 :
          Split(run.messages, KeepTurns).suffix = SubSeq(talk, at, Len(talk))
    BY ZenonT(60), <1>1, <1>3, SplitPlace, Constants
  <1>5. PICK s \in Seq(Message) : Sound(s, bounds.calls) /\ run'.messages = Summary \o s
    <2>1. /\ Split(run.messages, KeepTurns).suffix \in Seq(Message)
          /\ Sound(Split(run.messages, KeepTurns).suffix, bounds.calls)
      BY <1>1, <1>3, <1>4, SoundSuffix
    <2>2. Reattached \in Seq(Message) /\ Sound(Reattached, bounds.calls)
      BY <1>1, ReattachedSound
    <2> QED BY <2>1, <2>2 DEF Shortens
  <1>6. Sound(run'.messages, bounds'.calls)
    <2>1. Summary \in Seq(Message) /\ Sound(Summary, bounds.calls)
      BY <1>1, SoundSummary, Messages
    <2> QED BY <1>1, <1>5, <2>1, SoundJoin
  <1> QED BY <1>1, <1>6 DEF TellInv, Sound, Batching, Refusals, Asks, Runs

\* The steps after which the history is that before, and those that drop it.
LEMMA KeepsTelling ==
  ASSUME TypeInv, TypeInv', BatchInv, TellInv,
         \/ Texts \/ (\E b : Calls(b)) \/ Retries \/ Dies \/ (\E body : Gives(body)) \/ Moves
         \/ Settles \/ Finishes \/ Returns
  PROVE  TellInv'
  <1>1. \A h \in Seq(Message) : Low(h, bounds.calls) => Low(h, bounds'.calls)
    BY CallsGrow
  <1>2. run.messages \in Seq(Message)
    BY KnownHistories
  <1>3. CASE Retries
    <2>1. Sound(run.messages, bounds.calls) /\ bounds.calls \in Nat
      BY <1>3 DEF TellInv, Sound, Retries, Batching, Refusals, Asks, Runs, TypeInv
    <2>2. User \in Message /\ User.role = "user"
      BY Messages DEF User
    <2>3. Sound(run'.messages, bounds'.calls)
      BY <1>2, <1>3, <2>1, <2>2, SoundAppend DEF Retries
    <2> QED BY <1>3, <2>3 DEF Retries, TellInv, Sound, Batching, Refusals, Asks, Runs
  <1>4. CASE Dies
    <2>1. run'.messages = <<>> /\ run'.pc = "return"
      BY <1>4 DEF Dies
    <2>2. DOMAIN <<>> = {}
      OBVIOUS
    <2> QED BY <2>1, <2>2 DEF TellInv, Complete, Plain, Low, IsSpeech, Answers, Batching, Refusals,
                              Asks, Runs
  <1>5. CASE Texts \/ (\E b : Calls(b)) \/ Settles \/ Finishes \/ Returns
    <2>1. /\ run'.messages = run.messages /\ run.pc \notin Batching /\ run'.pc \notin Batching
      BY <1>5 DEF Texts, Calls, Settles, Finishes, Returns, SameTalk, Batching, Refusals, Asks, Runs,
                  Outcome
    <2> QED BY <1>1, <1>2, <2>1 DEF TellInv
  <1>6. CASE (\E body : Gives(body)) \/ Moves
    <2>1. /\ run'.messages = run.messages /\ run.pc \in Batching /\ run'.pc \in Batching
          /\ run'.calls = run.calls
      BY <1>6 DEF Gives, Moves, SameTalk, SameBatch
    <2> QED BY <1>1, <1>2, <2>1 DEF TellInv
  <1> QED BY <1>3, <1>4, <1>5, <1>6

LEMMA SessionTells ==
  ASSUME TypeInv, TypeInv', BatchInv, TellInv,
         \/ Texts \/ (\E b : Calls(b) \/ CallsLost(b)) \/ Told \/ TextLost \/ Retries \/ Dies
         \/ (\E body : Gives(body)) \/ Joins \/ Moves
         \/ Shortens \/ Settles \/ Finishes \/ Returns
  PROVE  TellInv'
  <1>1. \A h \in Seq(Message) : Low(h, bounds.calls) => Low(h, bounds'.calls)
    BY CallsGrow
  <1>2. CASE Told
    <2>1. run.text \in BOOLEAN /\ run.calls \in Seq(Call)
      BY DEF TypeInv, Sessions
    <2> QED BY <1>1, <1>2, <2>1, AnswerTells DEF Told
  <1>3. CASE TextLost
    <2>1. <<>> \in Seq(Call)
      OBVIOUS
    <2> QED BY <1>1, <1>3, <2>1, AnswerTells DEF TextLost
  <1>4. CASE \E b : CallsLost(b)
    <2>1. PICK b : CallsLost(b)
      BY <1>4
    <2>2. Batch(b) \in Seq(Call) /\ run.text \in BOOLEAN
      BY <2>1, BatchIds DEF CallsLost, TypeInv, Sessions
    <2> QED BY <1>1, <2>1, <2>2, AnswerTells DEF CallsLost
  <1> QED BY <1>2, <1>3, <1>4, JoinsTells, ShortensTells, KeepsTelling

----------------------------------------------------------------------------
(* What the conversation may become.                                       *)

LEMMA SessionSound ==
  ASSUME TypeInv, TypeInv', TellInv, SoundInv,
         \/ Texts \/ (\E b : Calls(b) \/ CallsLost(b)) \/ Told \/ TextLost \/ Retries \/ Dies
         \/ (\E body : Gives(body)) \/ Joins \/ Moves
         \/ Shortens \/ Settles \/ Finishes \/ Returns
  PROVE  SoundInv'
  <1>1. \A h \in Seq(Message) : Sound(h, bounds.calls) => Sound(h, bounds'.calls)
    BY CallsGrow
  <1>2. run'.persisted = run.persisted /\ UNCHANGED ui
    BY DEF SameCourse, Texts, Calls, CallsLost, Told, TextLost, Retries, Dies, Gives, Joins, Moves,
           Shortens, Settles, Finishes, Returns, AnswerIs
  <1>3. run'.pc # "off"
    BY DEF Texts, Calls, CallsLost, Told, TextLost, Retries, Dies, Gives, Joins, Moves,
           Shortens, Settles, Finishes, Returns, AnswerIs, Batching, Refusals, Asks, Runs
  <1>4. /\ \A i \in DOMAIN events : events[i].type = "compacted" =>
              Sound(events[i].messages, bounds'.calls)
    <2>1. ASSUME NEW i \in DOMAIN events, events[i].type = "compacted"
          PROVE  Sound(events[i].messages, bounds'.calls)
      <3>1. events[i] \in Event
        BY DEF TypeInv
      <3>2. events[i].messages \in Seq(Message)
        BY <2>1, <3>1, EventParts
      <3> QED BY <1>1, <2>1, <3>2 DEF SoundInv
    <2> QED BY <2>1
  <1>5. \/ UNCHANGED events
        \/ \E e \in Event : /\ events' = Append(events, e)
                            /\ e.type = "compacted" => Sound(e.messages, bounds'.calls)
    <2>1. CASE Texts
      <3>1. PICK e \in Event : e = [type |-> "text"]
        BY EventTypes
      <3> QED BY <2>1, <3>1 DEF Texts
    <2>2. CASE \E b : Calls(b)
      <3>1. PICK b : Calls(b)
        BY <2>2
      <3>2. Batch(b) \in Seq(Call)
        BY <3>1, BatchIds DEF Calls
      <3>3. PICK e \in Event : e = [type |-> "calls", calls |-> Ids(Batch(b))]
        BY <3>2, EventTypes, KnownIds
      <3> QED BY <3>1, <3>3 DEF Calls
    <2>3. CASE \E body : Gives(body)
      <3>1. PICK body : Gives(body)
        BY <2>3
      <3>2. Head(run.todo).id \in CallIds /\ body \in Bodies \cup {"notice"}
        BY <3>1, TodoType DEF Gives
      <3>3. PICK e \in Event : e = [type |-> "tool", call |-> Head(run.todo).id, body |-> body]
        BY <3>2, EventTypes
      <3> QED BY <3>1, <3>3 DEF Gives
    <2>4. CASE Moves
      <3>1. \A ask \in SUBSET Asking : [type |-> "prompt", ask |-> ask] \in Event
        BY EventTypes
      <3> QED BY <2>4, <3>1 DEF Moves
    <2>5. CASE Settles
      <3>1. PICK e \in Event : e = [type |-> "compacted", messages |-> run.messages]
        BY EventTypes, KnownHistories
      <3>2. run.pc = "announce" => Sound(run.messages, bounds'.calls)
        <4>1. run.pc = "announce" => Sound(run.messages, bounds.calls)
          BY DEF TellInv, Sound, Batching, Refusals, Asks, Runs
        <4> QED BY <1>1, <4>1, KnownHistories
      <3> QED BY <2>5, <3>1, <3>2 DEF Settles
    <2>6. CASE Returns
      <3>1. \A ok \in BOOLEAN : [type |-> "done", ok |-> ok] \in Event
        BY EventTypes
      <3> QED BY <2>6, <3>1 DEF Returns
    <2> QED BY <2>1, <2>2, <2>3, <2>4, <2>5, <2>6 DEF CallsLost, Told, TextLost, Retries, Dies, Joins,
                 Shortens, Finishes, AnswerIs
  <1>6. \A i \in DOMAIN events' : events'[i].type = "compacted" =>
           Sound(events'[i].messages, bounds'.calls)
    <2>1. CASE UNCHANGED events
      BY <1>4, <2>1
    <2>2. CASE \E e \in Event : /\ events' = Append(events, e)
                                /\ e.type = "compacted" => Sound(e.messages, bounds'.calls)
      <3>1. PICK e \in Event : /\ events' = Append(events, e)
                               /\ e.type = "compacted" => Sound(e.messages, bounds'.calls)
        BY <2>2
      <3>2. \A i \in DOMAIN events' : \/ i \in DOMAIN events /\ events'[i] = events[i]
                                      \/ events'[i] = e
        <4>1. events \in Seq(Event)
          BY DEF TypeInv
        <4> QED BY <3>1, <4>1
      <3> QED BY <1>4, <3>1, <3>2
    <2> QED BY <1>5, <2>1, <2>2
  <1>7. Sound(run'.persisted, bounds'.calls) /\ Sound(ui'.messages, bounds'.calls)
    BY <1>1, <1>2, KnownHistories DEF SoundInv
  <1> QED BY <1>3, <1>6, <1>7 DEF SoundInv

----------------------------------------------------------------------------
(* The steps of the chat.                                                  *)

SameRun ==
    /\ run'.pc = run.pc /\ run'.messages = run.messages /\ run'.persisted = run.persisted
    /\ run'.text = run.text /\ run'.calls = run.calls /\ run'.retried = run.retried
    /\ run'.todo = run.todo /\ run'.results = run.results /\ run'.batch = run.batch
    /\ (run.over => run'.over) /\ bounds'.calls = bounds.calls

\* An event is taken from the channel.
Takes ==
    /\ events # <<>> /\ events' = Tail(events) /\ SameRun
    /\ ui'.live = Applied(ui.live, Head(events))
    /\ ui'.running = ui.running /\ ui'.asked = ui.asked
    /\ \/ ui'.messages = ui.messages
       \/ Head(events).type = "compacted" /\ ui'.messages = Head(events).messages

\* The histories stay as they are, or a new chat drops those of the chat.
Rests ==
    /\ UNCHANGED events /\ SameRun /\ ui'.running = ui.running
    /\ \/ ui'.live = ui.live /\ ui'.messages = ui.messages /\ ui'.asked = ui.asked
       \/ ui'.live = <<>> /\ ui'.messages = <<>> /\ ~ui'.asked

\* A prompt starts a run.
StartsRun ==
    /\ run.pc = "off" /\ run'.pc = "model" /\ UNCHANGED events /\ bounds'.calls = bounds.calls
    /\ run'.messages = Append(ui.messages, User) /\ run'.persisted = Append(ui.messages, User)
    /\ ui'.live = Append(ui.messages, User) /\ ui'.messages = ui.messages
    /\ run'.calls = <<>> /\ run'.todo = <<>> /\ run'.results = <<>> /\ run'.text = FALSE

\* A run is over, with a history that the session or the chat has.
Closes ==
    /\ run.pc = "closed" /\ run' = Off /\ events' = <<>> /\ UNCHANGED bounds
    /\ ui'.live = <<>> /\ ~ui'.running
    /\ \/ ui'.messages \in {run.messages, run.persisted, ui.messages}
       \/ events = <<>> /\ ~Pending(ui.live) /\ ui'.messages = ui.live

LEMMA ReceiveTakes ==
  ASSUME TypeInv, Receive
  PROVE  Takes
  <1>1. events # <<>> /\ events' = Tail(events) /\ SameRun
    BY DEF Receive, SameRun
  <1>2. PICK e : e = Head(events)
    OBVIOUS
  <1>3. ASSUME NEW live, ui' = [ui EXCEPT !.live = live]
        PROVE  /\ ui'.live = live /\ ui'.running = ui.running /\ ui'.asked = ui.asked
               /\ ui'.messages = ui.messages
    BY <1>3 DEF TypeInv
  <1>4. CASE e.type = "text" /\ ui' = [ui EXCEPT !.live = Spoken(@, TRUE, <<>>)]
    <2>1. PICK live : live = Spoken(ui.live, TRUE, <<>>)
      OBVIOUS
    <2>2. ui' = [ui EXCEPT !.live = live] /\ Applied(ui.live, e) = live
      BY <1>4, <2>1 DEF Applied
    <2> QED BY <1>1, <1>2, <1>3, <2>2 DEF Takes
  <1>5. CASE e.type = "calls" /\ ui' = [ui EXCEPT !.live = Spoken(@, FALSE, e.calls)]
    <2>1. PICK live : live = Spoken(ui.live, FALSE, e.calls)
      OBVIOUS
    <2>2. ui' = [ui EXCEPT !.live = live] /\ Applied(ui.live, e) = live
      BY <1>5, <2>1 DEF Applied
    <2> QED BY <1>1, <1>2, <1>3, <2>2 DEF Takes
  <1>6. CASE e.type = "tool" /\ ui' = [ui EXCEPT !.live = Append(@, Result(e.call, e.body))]
    <2>1. PICK live : live = Append(ui.live, Result(e.call, e.body))
      OBVIOUS
    <2>2. ui' = [ui EXCEPT !.live = live] /\ Applied(ui.live, e) = live
      BY <1>6, <2>1 DEF Applied
    <2> QED BY <1>1, <1>2, <1>3, <2>2 DEF Takes
  <1>7. CASE e.type = "compacted" /\ ui' = [ui EXCEPT !.live = e.messages, !.messages = e.messages]
    <2>1. PICK messages : messages = e.messages
      OBVIOUS
    <2>2. /\ ui'.live = messages /\ ui'.messages = messages
          /\ ui'.running = ui.running /\ ui'.asked = ui.asked
      BY <1>7, <2>1 DEF TypeInv
    <2>3. Applied(ui.live, e) = messages
      BY <1>7, <2>1 DEF Applied
    <2> QED BY <1>1, <1>2, <1>7, <2>1, <2>2, <2>3 DEF Takes
  <1> QED BY <1>2, <1>4, <1>5, <1>6, <1>7 DEF Receive

LEMMA CalmSteps ==
  ASSUME TypeInv,
         \/ ReceiveClosedCompacting \/ ReceivePrompt \/ Approve \/ Deny \/ Toggle \/ Cancel
         \/ NewChat \/ UNCHANGED vars
  PROVE  Takes \/ Rests
  <1>1. SameRun
    <2>1. run \in Sessions
      BY DEF TypeInv
    <2>2. \/ run' = run \/ (\E reply : run' = [run EXCEPT !.reply = reply])
          \/ run' = [run EXCEPT !.over = TRUE]
      BY DEF ReceiveClosedCompacting, ReceivePrompt, Approve, Deny, Toggle, Cancel, NewChat, vars, Replies
    <2>3. bounds'.calls = bounds.calls
      BY DEF ReceiveClosedCompacting, ReceivePrompt, Approve, Deny, Toggle, Cancel, NewChat, vars, TypeInv
    <2> QED BY <2>1, <2>2, <2>3 DEF Sessions, SameRun
  <1>2. ui'.running = ui.running
    BY DEF ReceiveClosedCompacting, ReceivePrompt, Approve, Deny, Toggle, Cancel, NewChat, Resolved, vars, TypeInv
  <1>3. CASE ReceivePrompt
    <2>1. /\ events # <<>> /\ events' = Tail(events) /\ ui'.live = ui.live
          /\ ui'.messages = ui.messages /\ ui'.asked = ui.asked
      BY <1>3 DEF ReceivePrompt, TypeInv
    <2>2. Applied(ui.live, Head(events)) = ui.live
      BY <1>3 DEF ReceivePrompt, Applied
    <2> QED BY <1>1, <1>2, <2>1, <2>2 DEF Takes
  <1>4. CASE ReceiveClosedCompacting \/ Approve \/ Deny \/ Toggle \/ Cancel \/ UNCHANGED vars
    <2>1. /\ UNCHANGED events /\ ui'.live = ui.live /\ ui'.messages = ui.messages
          /\ ui'.asked = ui.asked
      BY <1>4 DEF ReceiveClosedCompacting, Approve, Deny, Toggle, Cancel, Resolved, vars, TypeInv
    <2> QED BY <1>1, <1>2, <2>1 DEF Rests
  <1>5. CASE NewChat
    <2>1. PICK none : none = <<>>
      OBVIOUS
    <2>2. ui' = [ui EXCEPT !.messages = none, !.live = none, !.asked = FALSE] /\ UNCHANGED events
      BY <1>5, <2>1 DEF NewChat
    <2>3. ui'.live = none /\ ui'.messages = none /\ ~ui'.asked
      BY <2>2 DEF TypeInv
    <2> QED BY <1>1, <1>2, <2>1, <2>2, <2>3 DEF Rests
  <1> QED BY <1>3, <1>4, <1>5

LEMMA SubmitStarts ==
  ASSUME TypeInv, PlaceInv, Submit
  PROVE  StartsRun
  <1>1. PICK s : s = Append(ui.messages, User)
    OBVIOUS
  <1>2. /\ run.pc = "off" /\ UNCHANGED events /\ bounds'.calls = bounds.calls
        /\ ui'.live = s /\ ui'.messages = ui.messages
    BY <1>1 DEF Submit, PlaceInv, Begun, TypeInv
  <1>3. PICK disabled \in BOOLEAN :
          run' = [Off EXCEPT !.pc = "model", !.messages = s, !.persisted = s, !.disabled = disabled]
    BY <1>1 DEF Submit
  <1>4. /\ run'.pc = "model" /\ run'.messages = s /\ run'.persisted = s /\ run'.text = FALSE
        /\ run'.calls = <<>> /\ run'.todo = <<>> /\ run'.results = <<>>
    BY <1>3 DEF Off
  <1> QED BY <1>1, <1>2, <1>4 DEF StartsRun

LEMMA EndCloses ==
  ASSUME TypeInv, DoneInv, KeepInv, ReceiveDone \/ ReceiveClosed
  PROVE  Closes
  <1>1. CASE ReceiveDone
    <2>1. /\ events # <<>> /\ events' = Tail(events) /\ Head(events).type = "done"
          /\ RunOver(IF Head(events).ok THEN run.messages ELSE Stopped(run.persisted))
          /\ UNCHANGED bounds
      BY <1>1 DEF ReceiveDone
    <2>2. events' = <<>>
      BY <2>1, DoneIsLast
    <2>3. run.pc = "closed"
      <3>1. Head(events) = events[1] /\ 1 \in DOMAIN events
        BY <2>1, TailEvents
      <3> QED BY <2>1, <3>1 DEF DoneInv
    <2>4. PICK messages : RunOver(messages) /\ messages \in {run.messages, run.persisted, ui.messages}
      <3>1. run.persisted # <<>>
        BY <2>3 DEF KeepInv
      <3>2. Stopped(run.persisted) \in {run.persisted, ui.messages}
        BY <3>1 DEF Stopped
      <3> QED BY <2>1, <3>2
    <2>5. PICK none : none = <<>>
      OBVIOUS
    <2>6. /\ run' = Off /\ ui' = [ui EXCEPT !.running = FALSE, !.reading = FALSE, !.prompt = {},
                                            !.messages = messages, !.live = none]
      BY <2>4, <2>5 DEF RunOver
    <2>7. ui'.messages = messages /\ ui'.live = none /\ ~ui'.running
      BY <2>6 DEF TypeInv
    <2> QED BY <2>1, <2>2, <2>3, <2>4, <2>5, <2>6, <2>7 DEF Closes
  <1>2. CASE ReceiveClosed
    <2>1. events = <<>> /\ UNCHANGED <<events, bounds>> /\ run.pc = "closed"
      BY <1>2 DEF ReceiveClosed, Closed
    <2>2. PICK messages : /\ RunOver(messages)
                          /\ messages = ui.messages \/ (~Pending(ui.live) /\ messages = ui.live)
      BY <1>2 DEF ReceiveClosed, Stopped
    <2>3. PICK none : none = <<>>
      OBVIOUS
    <2>4. /\ run' = Off /\ ui' = [ui EXCEPT !.running = FALSE, !.reading = FALSE, !.prompt = {},
                                            !.messages = messages, !.live = none]
      BY <2>2, <2>3 DEF RunOver
    <2>5. ui'.messages = messages /\ ui'.live = none /\ ~ui'.running
      BY <2>4 DEF TypeInv
    <2> QED BY <2>1, <2>2, <2>3, <2>4, <2>5 DEF Closes
  <1> QED BY <1>1, <1>2

LEMMA SameHist ==
  ASSUME SameRun
  PROVE  /\ Future' = Future
         /\ BatchInv => BatchInv'
         /\ TellInv => TellInv'
  <1>1. /\ run'.pc = run.pc /\ run'.calls = run.calls /\ run'.todo = run.todo
        /\ run'.results = run.results /\ bounds'.calls = bounds.calls
        /\ run'.messages = run.messages
    BY DEF SameRun
  <1>2. Due' = Due
    BY <1>1 DEF Due
  <1>3. Future' = Future
    BY <1>1, <1>2 DEF Future
  <1>4. BatchInv => BatchInv'
    BY <1>1 DEF BatchInv
  <1>5. TellInv => TellInv'
    BY <1>1 DEF TellInv
  <1> QED BY <1>3, <1>4, <1>5

LEMMA ChatHist ==
  ASSUME TypeInv, HistInv, Takes \/ Rests
  PROVE  HistInv'
  <1>1. SameRun
    BY DEF Takes, Rests
  <1>2. BatchInv' /\ TellInv' /\ Future' = Future
    BY <1>1, SameHist DEF HistInv
  <1>3. CASE Takes
    <2>1. FairInv'
      BY <1>1, <1>2, <1>3, FairTaken DEF HistInv, SameRun, Takes
    <2>2. /\ events # <<>> /\ events' = Tail(events)
          /\ \A i \in DOMAIN events' : i + 1 \in DOMAIN events /\ events'[i] = events[i + 1]
          /\ Head(events) = events[1] /\ 1 \in DOMAIN events
      BY <1>3, TailEvents DEF Takes
    <2>3. \A i \in DOMAIN events : events[i].type = "compacted" =>
             Sound(events[i].messages, bounds.calls)
      BY DEF HistInv, SoundInv
    <2>4. Sound(ui'.messages, bounds.calls)
      BY <1>3, <2>2, <2>3 DEF Takes, HistInv, SoundInv
    <2>5. run.pc # "off"
      BY <2>2 DEF HistInv, SoundInv
    <2>6. \A i \in DOMAIN events' : events'[i].type = "compacted" =>
             Sound(events'[i].messages, bounds.calls)
      BY <2>2, <2>3
    <2>7. SoundInv'
      BY <1>1, <2>4, <2>5, <2>6 DEF HistInv, SoundInv, SameRun
    <2> QED BY <1>2, <2>1, <2>7 DEF HistInv
  <1>4. CASE Rests
    <2>1. FairInv'
      BY <1>1, <1>2, <1>4, FairTaken DEF HistInv, SameRun, Rests
    <2>2. Sound(<<>>, bounds.calls)
      <3>1. DOMAIN <<>> = {}
        OBVIOUS
      <3> QED BY <3>1 DEF Sound, Complete, Plain, Low, IsSpeech, Answers
    <2>3. Sound(ui'.messages, bounds.calls) /\ ui'.live \in {ui.live, <<>>}
      BY <1>4, <2>2 DEF Rests, HistInv, SoundInv
    <2>4. SoundInv'
      BY <1>1, <1>4, <2>3 DEF HistInv, SoundInv, SameRun, Rests
    <2> QED BY <1>2, <2>1, <2>4 DEF HistInv
  <1> QED BY <1>3, <1>4

LEMMA StartsHist ==
  ASSUME TypeInv, TypeInv', HistInv, StartsRun
  PROVE  HistInv'
  <1>1. /\ run.pc = "off" /\ run'.pc = "model" /\ bounds'.calls = bounds.calls
        /\ bounds.calls \in Nat
    BY DEF StartsRun, TypeInv
  <1>2. ui.messages \in Seq(Message) /\ Sound(ui.messages, bounds.calls)
    BY KnownHistories DEF HistInv, SoundInv
  <1>3. PICK h \in Seq(Message) : h = Append(ui.messages, User) /\ Sound(h, bounds.calls)
    <2>1. User \in Message /\ User.role = "user"
      BY Messages DEF User
    <2> QED BY <1>1, <1>2, <2>1, SoundAppend
  <1>4. /\ run'.messages = h /\ run'.persisted = h /\ ui'.live = h /\ ui'.messages = ui.messages
        /\ run'.calls = <<>> /\ run'.todo = <<>> /\ run'.results = <<>>
    BY <1>3 DEF StartsRun
  <1>5. BatchInv'
    BY <1>4, BatchOfNone
  <1>6. TellInv'
    BY <1>1, <1>3, <1>4 DEF TellInv, Sound, Batching, Refusals, Asks, Runs
  <1>7. events = <<>> /\ events' = <<>>
    BY <1>1 DEF StartsRun, HistInv, SoundInv
  <1>8. DOMAIN <<>> = {} /\ Len(<<>>) = 0
    OBVIOUS
  <1>9. SoundInv'
    BY <1>1, <1>2, <1>3, <1>4, <1>7, <1>8 DEF SoundInv
  <1>10. FairInv'
    <2>1. Future' = Unborn
      BY <1>1, <1>4, <1>8 DEF Future, Due, Unborn
    <2>2. \A c \in Unborn : ~(c <= bounds.calls)
      BY <1>1, Constants DEF Unborn
    <2>3. Fair(h)'
      BY <1>1, <1>3, <2>1, <2>2, FairSound DEF Fair
    <2>4. <<>> \in Seq(Message) /\ Fair(<<>>)'
      BY FairEmpty DEF Fair
    <2>5. events' \in Seq(Event)
      BY DEF TypeInv
    <2>6. \A g \in Seq(Message) : Replays(events', Len(events'), g, g)
      BY <2>5, ReplaysNone
    <2>7. \A m \in 0 .. Len(events') : m = 0 /\ m = Len(events')
      BY <1>7, <1>8
    <2>8. \A m : \A from \in Starts(m)' : from = <<>> \/ from = h
      BY <1>4 DEF Starts
    <2> QED BY <2>3, <2>4, <2>6, <2>7, <2>8 DEF FairInv
  <1> QED BY <1>5, <1>6, <1>9, <1>10 DEF HistInv

\* The history a run leaves.
LEMMA ClosesHist ==
  ASSUME TypeInv, TypeInv', HistInv, Closes
  PROVE  HistInv'
  <1>1. /\ run.pc = "closed" /\ bounds'.calls = bounds.calls /\ bounds.calls \in Nat
        /\ run.pc \notin Batching /\ run.pc \notin Works
    BY DEF Closes, TypeInv, Works, Batching, Refusals, Asks, Runs
  <1>2. Sound(run.messages, bounds.calls)
    BY <1>1 DEF HistInv, TellInv, Sound
  <1>3. ASSUME events = <<>>, ~Pending(ui.live), ui'.messages = ui.live
        PROVE  Sound(ui'.messages, bounds.calls)
    <2>1. PICK live \in Seq(Message) : live = ui.live
      BY KnownHistories
    <2>2. Len(events) = 0 /\ 0 \in 0 .. Len(events) /\ events \in Seq(Event)
      BY <1>3
    <2>3. ui.live \in Starts(0)
      BY DEF Starts
    <2>4. PICK h \in Seq(Message) : Replays(events, 0, ui.live, h) /\ Fair(h)
      BY <2>2, <2>3 DEF HistInv, FairInv
    <2>5. h = live
      BY <2>1, <2>2, <2>4, ReplaysAll
    <2>6. Future = Unborn
      <3>1. run.todo = <<>>
        BY <1>1 DEF HistInv, BatchInv
      <3> QED BY <1>1, <3>1, FutureOf
    <2>7. FairOf(live, Unborn, FALSE, <<>>, 0)
      BY <1>1, <2>4, <2>5, <2>6 DEF Fair, FairOf
    <2>8. \A c \in 0 .. MaxCalls : c \in Unborn \/ c <= bounds.calls
      BY <1>1, Constants DEF Unborn
    <2>9. Sound(live, bounds.calls)
      BY <1>1, <1>3, <2>1, <2>7, <2>8, FairSettled
    <2> QED BY <1>3, <2>1, <2>9
  <1>4. Sound(ui'.messages, bounds.calls)
    BY <1>2, <1>3 DEF Closes, HistInv, SoundInv
  <1>5. /\ run'.pc = "off" /\ run'.todo = <<>> /\ run'.results = <<>> /\ run'.calls = <<>>
        /\ run'.messages = <<>> /\ run'.persisted = <<>> /\ events' = <<>> /\ ui'.live = <<>>
    BY DEF Off, Closes
  <1>6. DOMAIN <<>> = {} /\ Len(<<>>) = 0 /\ "off" \notin Batching
    BY DEF Batching, Refusals, Asks, Runs
  <1>7. Sound(<<>>, bounds.calls)
    BY <1>6 DEF Sound, Complete, Plain, Low, Answers, IsSpeech
  <1>8. BatchInv'
    BY <1>5, BatchOfNone
  <1>9. TellInv'
    BY <1>1, <1>5, <1>6, <1>7 DEF TellInv, Sound
  <1>10. SoundInv'
    BY <1>1, <1>4, <1>5, <1>6, <1>7 DEF SoundInv
  <1>11. FairInv'
    <2>1. \A m \in 0 .. Len(events') : m = 0 /\ m = Len(events')
      BY <1>5, <1>6
    <2>2. \A m : \A from \in Starts(m)' : from = <<>>
      BY <1>5 DEF Starts
    <2>3. <<>> \in Seq(Message) /\ Fair(<<>>)'
      BY FairEmpty DEF Fair
    <2>4. events' \in Seq(Event)
      BY DEF TypeInv
    <2>5. Replays(events', Len(events'), <<>>, <<>>)
      BY <2>3, <2>4, ReplaysNone
    <2> QED BY <2>1, <2>2, <2>3, <2>5 DEF FairInv
  <1> QED BY <1>8, <1>9, <1>10, <1>11 DEF HistInv

LEMMA SessionKinds ==
  ASSUME TypeInv, PlaceInv,
         \/ StreamText \/ StreamCalls \/ StreamEnds \/ StreamFails \/ StreamBreaks
         \/ Refuse \/ BatchEnds \/ Plan \/ Authorize \/ TakeReply \/ PromptAborts
         \/ ExecNext \/ CallUnknown \/ CallStarts \/ CallEnds
         \/ Compacts \/ LeavesHistory \/ Announce \/ Finish \/ Return
  PROVE  \/ Texts \/ (\E b : Calls(b) \/ CallsLost(b)) \/ Told \/ TextLost \/ Retries \/ Dies
         \/ (\E body : Gives(body)) \/ Joins \/ Moves
         \/ Shortens \/ Settles \/ Finishes \/ Returns
  <1>1. CASE StreamText \/ StreamCalls \/ StreamEnds \/ StreamFails \/ StreamBreaks
    BY <1>1, StreamSteps
  <1>2. CASE \/ Refuse \/ BatchEnds \/ Plan \/ Authorize \/ TakeReply \/ PromptAborts
             \/ ExecNext \/ CallUnknown \/ CallStarts \/ CallEnds
    BY <1>2, BatchSteps
  <1>3. CASE Compacts \/ LeavesHistory \/ Announce \/ Finish \/ Return
    BY <1>3, EndSteps
  <1> QED BY <1>1, <1>2, <1>3

LEMMA ChatKinds ==
  ASSUME TypeInv, PlaceInv, DoneInv, KeepInv,
         \/ Submit \/ Receive \/ ReceiveDone \/ ReceiveClosed \/ ReceiveClosedCompacting \/ ReceivePrompt
         \/ Approve \/ Deny \/ Toggle \/ Cancel \/ NewChat \/ UNCHANGED vars
  PROVE  Takes \/ Rests \/ StartsRun \/ Closes
  <1>1. CASE Submit
    BY <1>1, SubmitStarts
  <1>2. CASE Receive
    BY <1>2, ReceiveTakes
  <1>3. CASE ReceiveDone \/ ReceiveClosed
    BY <1>3, EndCloses
  <1>4. CASE \/ ReceiveClosedCompacting \/ ReceivePrompt \/ Approve \/ Deny \/ Toggle
             \/ Cancel \/ NewChat \/ UNCHANGED vars
    BY <1>4, CalmSteps
  <1> QED BY <1>1, <1>2, <1>3, <1>4

\* The histories stay fair to their calls whatever step is taken.
LEMMA HistSteps ==
  ASSUME Inv, Inv', HistInv, [Next]_vars
  PROVE  HistInv'
  <1>1. TypeInv /\ TypeInv' /\ PlaceInv /\ DoneInv /\ KeepInv
    BY DEF Inv, ConsentInv
  <1>2. BatchInv /\ TellInv /\ SoundInv /\ FairInv
    BY DEF HistInv
  <1>3. CASE \/ Texts \/ (\E b : Calls(b) \/ CallsLost(b)) \/ Told \/ TextLost \/ Retries \/ Dies
             \/ (\E body : Gives(body)) \/ Joins \/ Moves
             \/ Shortens \/ Settles \/ Finishes \/ Returns
    <2>1. BatchInv'
      BY <1>1, <1>2, <1>3, SessionBatch
    <2>2. TellInv'
      BY <1>1, <1>2, <1>3, SessionTells
    <2>3. SoundInv'
      BY <1>1, <1>2, <1>3, SessionSound
    <2>4. FairInv'
      BY <1>1, <1>2, <1>3, SessionFair
    <2> QED BY <2>1, <2>2, <2>3, <2>4 DEF HistInv
  <1>4. CASE Takes \/ Rests \/ StartsRun \/ Closes
    BY <1>1, <1>4, ChatHist, StartsHist, ClosesHist
  <1>5. CASE \/ StreamText \/ StreamCalls \/ StreamEnds \/ StreamFails \/ StreamBreaks
             \/ Refuse \/ BatchEnds \/ Plan \/ Authorize \/ TakeReply \/ PromptAborts
             \/ ExecNext \/ CallUnknown \/ CallStarts \/ CallEnds
             \/ Compacts \/ LeavesHistory \/ Announce \/ Finish \/ Return
    BY <1>1, <1>3, <1>5, SessionKinds
  <1>6. CASE \/ Submit \/ Receive \/ ReceiveDone \/ ReceiveClosed \/ ReceiveClosedCompacting \/ ReceivePrompt
             \/ Approve \/ Deny \/ Toggle \/ Cancel \/ NewChat \/ UNCHANGED vars
    BY <1>1, <1>4, <1>6, ChatKinds
  <1> QED BY <1>5, <1>6 DEF Next

\* The histories of the session, of the chat and in the events stay fair to their calls
\* (chatRound, runToolStep, emit, applyAgentEvent).
THEOREM HistInvariance == Spec => [](Inv /\ HistInv)
  <1>1. Inv /\ Inv' /\ HistInv /\ [Next]_vars => HistInv'
    BY HistSteps
  <1>2. Init => HistInv
    BY InitHist
  <1> QED BY <1>1, <1>2, Invariance, PTL DEF Spec

\* No request carries a call without its result, and no run leaves one to the conversation,
\* whatever was cancelled, denied, retried, cut off or compacted before and whichever events
\* were lost (runModelStep, runToolStep, finishLiveMessagesForStoppedRun).
THEOREM CallsAreAnswered == Spec => []CallsAnswered
  <1>1. Inv /\ HistInv => CallsAnswered
    BY DEF CallsAnswered, HistInv, SoundInv, TellInv, Sound, Batching, Refusals, Asks, Runs
  <1> QED BY <1>1, HistInvariance, PTL

----------------------------------------------------------------------------
(* The live history beside the session's.                                  *)

\* A history to which a new answer is appended as a message of its own.
Silent(s) == s # <<>> /\ s[Len(s)].role # "assistant"

\* After a batch the last message is the result of one of its calls.
AtResult(s) == s # <<>> /\ s[Len(s)].role = "tool" /\ s[Len(s)].call # 0

TailInv ==
    /\ run.pc = "model" => Silent(run.messages)
    /\ run.pc = "compact" /\ run.batch = "ran" => AtResult(run.messages)
    /\ run.pc = "announce" /\ run.batch = "ran" => Silent(run.messages)

\* What the events make of the live history: the session's own, with what the model has
\* said so far or with the results so far.
Mirror(h) ==
    /\ run.pc = "model" =>
          h = IF run.text \/ run.calls # <<>>
              THEN Append(run.messages, Assistant(run.text, Ids(run.calls))) ELSE run.messages
    /\ run.pc \in Batching => h = run.messages \o run.results
    /\ run.pc \in {"compact", "finish"} => h = run.messages

Mirrored == ui.running /\ ui.asked /\ ~run.over /\ ~run.retried

MirrorInv ==
    Mirrored => \E h \in Seq(Message) : Replays(events, 0, ui.live, h) /\ Mirror(h)

\* Places that say nothing of the live history.
Unseen == {"off", "announce", "return", "closed"}

LEMMA JoinLast ==
  ASSUME NEW a \in Seq(Message), NEW b \in Seq(Message), b # <<>>
  PROVE  a \o b # <<>> /\ (a \o b)[Len(a \o b)] = b[Len(b)] /\ Len(b) \in 1 .. Len(b)
  <1>1. Len(b) \in 1 .. Len(b) /\ Len(b) # 0
    OBVIOUS
  <1>2. Len(a \o b) = Len(a) + Len(b) /\ (a \o b)[Len(a) + Len(b)] = b[Len(b)]
    BY <1>1, JoinParts
  <1>3. Len(a \o b) # 0 /\ Len(<<>>) = 0
    BY <1>1, <1>2, JoinParts
  <1> QED BY <1>1, <1>2, <1>3

\* The results of a batch that is over end with a result of a call.
LEMMA LastResult ==
  ASSUME TypeInv, PlaceInv, BatchInv, run.todo = <<>>,
         \/ run.pc \in Batching
         \/ run.pc = "compact" /\ run.batch = "ran"
  PROVE  /\ run.results \in Seq(Answer) /\ run.results \in Seq(Message) /\ run.results # <<>>
         /\ Len(run.results) \in 1 .. Len(run.results)
  <1>1. run.calls # <<>> /\ run.pc # "model"
    BY DEF PlaceInv, Batching, Refusals, Asks, Runs, Outcome
  <1>2. Len(run.results) + Len(run.todo) = Len(run.calls)
    BY <1>1 DEF BatchInv
  <1>3. /\ run.results \in Seq(Answer) /\ run.calls \in Seq(Call)
        /\ Len(run.results) \in Nat /\ Len(run.calls) \in Nat
    BY KnownBatch
  <1>4. Len(run.calls) # 0 /\ Len(<<>>) = 0
    BY <1>1, <1>3
  <1>5. Len(run.results) # 0
    BY <1>2, <1>3, <1>4
  <1>6. run.results # <<>> /\ Len(run.results) \in 1 .. Len(run.results)
    BY <1>3, <1>4, <1>5
  <1> QED BY <1>3, <1>6, AnswersAreMessages

\* A message that is kept when the summaries are dropped is still the last.
LEMMA TalkLast ==
  ASSUME NEW a \in Seq(Message), AtResult(a)
  PROVE  /\ Talk(a) \in Seq(Message) /\ Talk(a) # <<>>
         /\ Talk(a)[Len(Talk(a))].role = "tool"
  <1> DEFINE S == {Summary[1], Summary[2]}
  <1>1. PICK n \in Nat : n = Len(a) /\ DOMAIN a = 1 .. n
    BY JoinParts
  <1>2. n \in 1 .. n /\ a[n].role = "tool" /\ a[n].call # 0
    <2>1. n # 0
      BY <1>1 DEF AtResult
    <2> QED BY <1>1, <2>1 DEF AtResult
  <1>3. a[n] \notin S
    <2>1. Summary[1] = Assistant(FALSE, <<0>>) /\ Summary[2] = Result(0, "summary")
      BY MadeOf
    <2>2. Summary[1].role = "assistant" /\ Summary[2].call = 0
      BY <2>1 DEF Assistant, Result
    <2> QED BY <1>2, <2>2 DEF S
  <1>4. PICK h \in Seq(Message) : h = Talk(a)
    BY WithoutPlaces DEF Talk
  <1>5. PICK p \in [0 .. n -> Nat] : Placed(p, a, S, h)
    BY <1>1, <1>4, WithoutPlaces DEF Talk
  <1> HIDE DEF S
  <1>6. p[n] \in DOMAIN h /\ h[p[n]] = a[n] /\ p[n] = Len(h)
    BY <1>1, <1>2, <1>3, <1>5 DEF Placed
  <1>7. h # <<>>
    <2>1. DOMAIN <<>> = {}
      OBVIOUS
    <2> QED BY <1>6, <2>1
  <1> QED BY <1>2, <1>4, <1>6, <1>7

LEMMA ShortensTail ==
  ASSUME TypeInv, PlaceInv, BatchInv, TailInv, Shortens, run.batch = "ran"
  PROVE  Silent(run'.messages)
  <1>1. /\ run.pc = "compact" /\ run.todo = <<>> /\ AtResult(run.messages)
        /\ run.messages \in Seq(Message)
    BY KnownHistories DEF Shortens, BatchInv, TailInv, Batching, Refusals, Asks, Runs
  <1>2. Summary \in Seq(Message) /\ Len(Summary) = 2 /\ Summary[2].role = "tool"
    BY Messages
  <1>3. CASE run'.messages = Summary \o Reattached
    <2>1. PICK m \in Message : m = Assistant(run.text, Ids(run.calls))
      BY IdsType, Messages DEF TypeInv, Sessions
    <2>2. PICK b \in Seq(Answer) : b = [i \in DOMAIN run.results |-> Refit(run.results[i])]
      <3>1. \A r \in Answer : Refit(r) \in Answer
        BY DEF Refit, Answer, Bodies
      <3>2. /\ \A i \in DOMAIN run.results : run.results[i] \in Answer
            /\ DOMAIN run.results = 1 .. Len(run.results) /\ Len(run.results) \in Nat
        BY DEF TypeInv, Sessions
      <3>3. [i \in DOMAIN run.results |-> Refit(run.results[i])] \in Seq(Answer)
        BY <3>1, <3>2
      <3> QED BY <3>3
    <2>3. b \in Seq(Message) /\ b # <<>>
      <3>1. DOMAIN b = DOMAIN run.results /\ Len(run.results) \in 1 .. Len(run.results)
            /\ DOMAIN run.results = 1 .. Len(run.results) /\ DOMAIN <<>> = {}
        BY <1>1, <2>2, LastResult, KnownBatch
      <3>2. b # <<>>
        BY <3>1
      <3> QED BY <3>2, AnswersAreMessages
    <2>4. PICK h \in Seq(Message) : h = <<m>>
      <3>1. <<m>> \in Seq(Message)
        OBVIOUS
      <3> QED BY <3>1
    <2>5. PICK t \in Seq(Message) : t = h \o b
      BY <2>3, <2>4, JoinParts
    <2>6. t # <<>> /\ t[Len(t)] = b[Len(b)] /\ Len(b) \in 1 .. Len(b)
      BY <2>3, <2>5, JoinLast
    <2>7. run'.messages = Summary \o t
      BY <1>3, <2>1, <2>2, <2>4, <2>5 DEF Reattached
    <2>8. run'.messages # <<>> /\ run'.messages[Len(run'.messages)] = t[Len(t)]
      BY <1>2, <2>6, <2>7, JoinLast
    <2>9. b[Len(b)].role = "tool"
      <3>1. b[Len(b)] \in Answer
        BY <2>6
      <3> QED BY <3>1 DEF Answer
    <2> QED BY <2>6, <2>8, <2>9 DEF Silent
  <1>4. CASE run'.messages = Summary \o Split(run.messages, KeepTurns).suffix
    <2>1. PICK talk \in Seq(Message) :
            talk = Talk(run.messages) /\ talk # <<>> /\ talk[Len(talk)].role = "tool"
      BY <1>1, TalkLast
    <2>2. PICK at \in 1 .. Len(talk) + 1 :
            Split(run.messages, KeepTurns).suffix = SubSeq(talk, at, Len(talk))
      BY <1>1, <2>1, SplitPlace, Constants
    <2>3. PICK s \in Seq(Message) : s = SubSeq(talk, at, Len(talk))
      <3>1. SubSeq(talk, at, Len(talk)) \in Seq(Message)
        OBVIOUS
      <3> QED BY <3>1
    <2>4. run'.messages = Summary \o s
      BY <1>4, <2>2, <2>3
    <2>5. CASE s = <<>>
      <3>1. PICK a \in Seq(Message) : a = Summary /\ Len(a) = 2
        BY <1>2
      <3>2. a \o <<>> = a
        OBVIOUS
      <3>3. a # <<>>
        <4>1. DOMAIN a = 1 .. 2 /\ 1 \in 1 .. 2
          BY <3>1
        <4>2. DOMAIN <<>> = {}
          OBVIOUS
        <4> QED BY <4>1, <4>2
      <3> QED BY <1>2, <2>4, <2>5, <3>1, <3>2, <3>3 DEF Silent
    <2>6. CASE s # <<>>
      <3>1. Len(s) \in Nat /\ Len(s) # 0 /\ Len(talk) \in Nat
        BY <2>6
      <3>2. Len(s) = Len(talk) + 1 - at
        BY <2>3, <3>1
      <3>3. s[Len(s)] = talk[at + Len(s) - 1]
        BY <2>3, <3>1, <3>2
      <3>4. at + Len(s) - 1 = Len(talk)
        BY <3>1, <3>2
      <3>5. s[Len(s)].role = "tool"
        BY <2>1, <3>3, <3>4
      <3>6. run'.messages # <<>> /\ run'.messages[Len(run'.messages)] = s[Len(s)]
        BY <1>2, <2>4, <2>6, JoinLast
      <3> QED BY <3>5, <3>6 DEF Silent
    <2> QED BY <2>5, <2>6
  <1> QED BY <1>3, <1>4 DEF Shortens

LEMMA AppendSilent ==
  ASSUME NEW s \in Seq(Message)
  PROVE  Silent(Append(s, User))
  <1>1. Append(s, User) # <<>> /\ Append(s, User)[Len(Append(s, User))] = User
    BY Messages, AppendFront
  <1> QED BY <1>1 DEF Silent, User

LEMMA SessionTail ==
  ASSUME TypeInv, PlaceInv, BatchInv, TailInv,
         \/ Texts \/ (\E b : Calls(b) \/ CallsLost(b)) \/ Told \/ TextLost \/ Retries \/ Dies
         \/ (\E body : Gives(body)) \/ Joins \/ Moves
         \/ Shortens \/ Settles \/ Finishes \/ Returns
  PROVE  TailInv'
  <1>1. CASE Texts \/ (\E b : Calls(b))
    BY <1>1 DEF TailInv, Texts, Calls, SameTalk
  <1>2. CASE (\E b : CallsLost(b)) \/ Told \/ TextLost
    <2>1. run'.batch = "none" /\ run'.pc # "model"
      BY <1>2 DEF CallsLost, Told, TextLost, AnswerIs, Refusals, Asks
    <2> QED BY <2>1 DEF TailInv
  <1>3. CASE Retries
    <2>1. Silent(run'.messages)
      BY <1>3, KnownHistories, AppendSilent DEF Retries
    <2> QED BY <1>3, <2>1 DEF TailInv, Retries
  <1>4. CASE Dies \/ (\E body : Gives(body)) \/ Moves \/ Finishes \/ Returns
    BY <1>4 DEF TailInv, Dies, Gives, Moves, Finishes, Returns, Batching, Refusals, Asks, Runs
  <1>5. CASE Joins
    <2>1. /\ run.pc \in Batching /\ run.todo = <<>> /\ run'.pc \in {"finish", "compact"}
          /\ run'.messages = run.messages \o run.results
      BY <1>5 DEF Joins
    <2>2. PICK b \in Seq(Answer) : /\ b = run.results /\ b \in Seq(Message) /\ b # <<>>
                                   /\ Len(b) \in 1 .. Len(b)
      BY <2>1, LastResult
    <2>3. b[Len(b)].role = "tool" /\ b[Len(b)].call # 0
      <3>1. b[Len(b)] \in Answer
        BY <2>2
      <3> QED BY <3>1, Constants DEF Answer, CallIds
    <2>4. run'.messages # <<>> /\ run'.messages[Len(run'.messages)] = b[Len(b)]
      <3>1. PICK a \in Seq(Message) : a = run.messages
        BY KnownHistories
      <3>2. run'.messages = a \o b
        BY <2>1, <2>2, <3>1
      <3> QED BY <2>2, <3>2, JoinLast
    <2>5. AtResult(run'.messages)
      BY <2>3, <2>4 DEF AtResult
    <2> QED BY <2>1, <2>5 DEF TailInv
  <1>6. CASE Shortens
    <2>1. run'.pc = "announce" /\ run'.batch = run.batch
      BY <1>6 DEF Shortens
    <2> QED BY <1>6, <2>1, ShortensTail DEF TailInv
  <1>7. CASE Settles
    <2>1. AtResult(run.messages) => Silent(run.messages)
      BY DEF AtResult, Silent
    <2> QED BY <1>7, <2>1 DEF TailInv, Settles, SameTalk, Outcome
  <1> QED BY <1>1, <1>2, <1>3, <1>4, <1>5, <1>6, <1>7

LEMMA ChatTail ==
  ASSUME TypeInv, TailInv, Takes \/ Rests \/ StartsRun \/ Closes
  PROVE  TailInv'
  <1>1. CASE Takes \/ Rests
    BY <1>1 DEF Takes, Rests, SameRun, TailInv
  <1>2. CASE StartsRun
    <2>1. Silent(run'.messages) /\ run'.pc = "model"
      BY <1>2, KnownHistories, AppendSilent DEF StartsRun
    <2> QED BY <2>1 DEF TailInv
  <1>3. CASE Closes
    BY <1>3 DEF Closes, Off, TailInv
  <1> QED BY <1>1, <1>2, <1>3

\* A new answer after a message that is not one, and an answer whose calls come after its text.
LEMMA SpokenAfter ==
  ASSUME NEW s \in Seq(Message), Silent(s), NEW text \in BOOLEAN, NEW ids \in Seq(CallIds)
  PROVE  Spoken(s, text, ids) = Append(s, Assistant(text, ids))
  BY DEF Spoken, Silent

LEMMA SpokenOn ==
  ASSUME NEW s \in Seq(Message), NEW text \in BOOLEAN, NEW none \in Seq(CallIds), none = <<>>,
         NEW ids \in Seq(CallIds)
  PROVE  Spoken(Append(s, Assistant(text, none)), FALSE, ids) = Append(s, Assistant(text, ids))
  <1>1. PICK m \in Message, w \in Message : m = Assistant(text, none) /\ w = Assistant(text, ids)
    BY Messages
  <1>2. m.role = "assistant" /\ m.text = text /\ m.calls = none
    BY <1>1 DEF Assistant
  <1>3. PICK h \in Seq(Message) : h = Append(s, m)
    <2>1. Append(s, m) \in Seq(Message)
      OBVIOUS
    <2> QED BY <2>1
  <1>4. PICK n \in Nat : Len(h) = n /\ n > 0 /\ h[n] = m /\ DOMAIN h = 1 .. n /\ n = Len(s) + 1
    <2>1. Len(h) = Len(s) + 1 /\ h[Len(s) + 1] = m
      BY <1>3
    <2> QED BY <2>1
  <1>5. none \o ids = ids
    OBVIOUS
  <1>6. Assistant(m.text \/ FALSE, none \o ids) = w
    <2>1. (m.text \/ FALSE) = text
      BY <1>2
    <2> QED BY <1>1, <1>5, <2>1
  <1>7. Spoken(h, FALSE, ids) = [h EXCEPT ![n] = w]
    BY <1>2, <1>4, <1>6 DEF Spoken
  <1>8. [h EXCEPT ![n] = w] = Append(s, w)
    <2>1. PICK g \in Seq(Message) : g = [h EXCEPT ![n] = w]
      <3>1. [h EXCEPT ![n] = w] \in Seq(Message)
        BY <1>4
      <3> QED BY <3>1
    <2>2. Len(g) = n /\ g[n] = w /\ \A i \in 1 .. Len(s) : g[i] = h[i]
      BY <1>4, <2>1
    <2>3. \A i \in 1 .. Len(s) : h[i] = s[i]
      BY <1>3
    <2>4. PICK t \in Seq(Message) : t = Append(s, w)
      <3>1. Append(s, w) \in Seq(Message)
        OBVIOUS
      <3> QED BY <3>1
    <2>5. Len(t) = n /\ t[n] = w /\ \A i \in 1 .. Len(s) : t[i] = s[i]
      BY <1>4, <2>4
    <2>6. \A i \in 1 .. n : g[i] = t[i]
      <3>1. \A i \in 1 .. n : i = n \/ i \in 1 .. Len(s)
        BY <1>4
      <3> QED BY <2>2, <2>3, <2>5, <3>1
    <2>7. g = t
      BY <2>2, <2>5, <2>6
    <2> QED BY <2>1, <2>4, <2>7
  <1> QED BY <1>1, <1>3, <1>7, <1>8

\* A step of the session: the live history that comes of the events mirrors the session's
\* again, or the place says nothing of it.
LEMMA MirrorStays ==
  ASSUME MirrorInv, UNCHANGED <<events, ui>>, Mirrored' => Mirrored,
         \A h \in Seq(Message) : Mirror(h) => Mirror(h)'
  PROVE  MirrorInv'
  <1> SUFFICES ASSUME Mirrored'
               PROVE  \E h \in Seq(Message) : Replays(events, 0, ui.live, h) /\ Mirror(h)'
    BY DEF MirrorInv
  <1>1. PICK h \in Seq(Message) : Replays(events, 0, ui.live, h) /\ Mirror(h)
    BY DEF MirrorInv
  <1> QED BY <1>1

LEMMA MirrorSends ==
  ASSUME TypeInv, MirrorInv, UNCHANGED ui, NEW e \in Event, events' = Append(events, e),
         Mirrored' => Mirrored,
         \A h \in Seq(Message) : Mirror(h) => Mirror(Applied(h, e))'
  PROVE  MirrorInv'
  <1> SUFFICES ASSUME Mirrored'
               PROVE  \E h \in Seq(Message) : Replays(events', 0, ui.live, h) /\ Mirror(h)'
    BY DEF MirrorInv
  <1>1. PICK s \in Seq(Event) : s = events
    BY DEF TypeInv
  <1>2. PICK h \in Seq(Message) : Replays(s, 0, ui.live, h) /\ Mirror(h)
    BY <1>1 DEF MirrorInv
  <1>3. PICK g \in Seq(Message) : g = Applied(h, e)
    BY AppliedType
  <1>4. 0 \in 0 .. Len(s)
    OBVIOUS
  <1>5. Replays(Append(s, e), 0, ui.live, Applied(h, e))
    BY <1>2, <1>4, ReplaysAppend
  <1>6. Mirror(g)'
    BY <1>2, <1>3
  <1> QED BY <1>1, <1>3, <1>5, <1>6

LEMMA MirrorUnseen ==
  ASSUME FairInv', TypeInv', run'.pc \in Unseen
  PROVE  MirrorInv'
  <1>1. \A h : Mirror(h)'
    BY DEF Mirror, Unseen, Batching, Refusals, Asks, Runs
  <1>2. 0 \in 0 .. Len(events') /\ ui'.live \in Starts(0)'
    BY DEF TypeInv, Starts
  <1>3. \E h \in Seq(Message) : Replays(events', 0, ui'.live, h)
    BY <1>2 DEF FairInv
  <1> QED BY <1>1, <1>3 DEF MirrorInv

LEMMA IdsNone ==
  ASSUME TypeInv, run.calls = <<>>
  PROVE  <<>> \in Seq(CallIds) /\ Ids(run.calls) = <<>>
  <1>1. PICK calls \in Seq(Call) : calls = run.calls /\ calls = <<>>
    BY DEF TypeInv, Sessions
  <1>2. PICK ids \in Seq(CallIds) : ids = Ids(calls) /\ DOMAIN ids = DOMAIN calls
    BY IdsType, MadeOf
  <1>3. DOMAIN calls = {} /\ DOMAIN ids = 1 .. Len(ids) /\ Len(ids) \in Nat
    BY <1>1
  <1>4. Len(ids) = 0
    <2>1. 1 \notin 1 .. Len(ids)
      BY <1>2, <1>3
    <2> QED BY <1>3, <2>1
  <1>5. ids = <<>>
    BY <1>4
  <1> QED BY <1>1, <1>2, <1>5

LEMMA TextsMirror ==
  ASSUME TypeInv, TailInv, MirrorInv, Texts
  PROVE  MirrorInv'
  <1>1. /\ run.pc = "model" /\ run'.pc = "model" /\ ~run.text /\ run.calls = <<>>
        /\ run'.text = TRUE /\ run'.calls = <<>> /\ run'.messages = run.messages /\ UNCHANGED ui
        /\ (Mirrored' => Mirrored)
    BY DEF Texts, SameBatch, SameTalk, SameCourse, Mirrored
  <1>2. PICK e \in Event : e = [type |-> "text"] /\ events' = Append(events, e)
    BY EventTypes DEF Texts
  <1>3. PICK none \in Seq(CallIds) : none = <<>> /\ Ids(run.calls) = none
    BY <1>1, IdsNone
  <1>4. run.messages \in Seq(Message) /\ Silent(run.messages)
    BY <1>1, KnownHistories DEF TailInv
  <1>5. Spoken(run.messages, TRUE, none) = Append(run.messages, Assistant(TRUE, none))
    BY <1>4, SpokenAfter
  <1>6. ASSUME NEW h \in Seq(Message), Mirror(h)
        PROVE  Mirror(Applied(h, e))'
    <2>1. h = run.messages
      BY <1>1, <1>6 DEF Mirror
    <2>2. Applied(h, e) = Append(run.messages, Assistant(TRUE, none))
      BY <1>2, <1>3, <1>5, <2>1 DEF Applied
    <2>3. Ids(run'.calls) = none /\ run'.text = TRUE
      BY <1>1, <1>3
    <2> QED BY <1>1, <1>2, <2>2, <2>3 DEF Mirror, Batching, Refusals, Asks, Runs
  <1> QED BY <1>1, <1>2, <1>6, MirrorSends

LEMMA CallsMirror ==
  ASSUME TypeInv, TailInv, MirrorInv, NEW b, Calls(b)
  PROVE  MirrorInv'
  <1>1. /\ run.pc = "model" /\ run'.pc = "model" /\ run.calls = <<>> /\ run'.text = run.text
        /\ run'.calls = Batch(b) /\ run'.messages = run.messages /\ UNCHANGED ui
        /\ (Mirrored' => Mirrored) /\ GivesIds(b)
    BY DEF Calls, SameTalk, SameCourse, Mirrored
  <1>2. Batch(b) \in Seq(Call) /\ Batch(b) # <<>>
    BY <1>1, BatchIds
  <1>3. PICK ids \in Seq(CallIds) : ids = Ids(Batch(b))
    BY <1>2, IdsType
  <1>4. PICK e \in Event : e = [type |-> "calls", calls |-> ids] /\ events' = Append(events, e)
    BY <1>3, EventTypes DEF Calls
  <1>5. PICK none \in Seq(CallIds) : none = <<>> /\ Ids(run.calls) = none
    BY <1>1, IdsNone
  <1>6. /\ run.messages \in Seq(Message) /\ Silent(run.messages) /\ run.text \in BOOLEAN
    BY <1>1, KnownHistories DEF TailInv, TypeInv, Sessions
  <1>7. ASSUME NEW h \in Seq(Message), Mirror(h)
        PROVE  Mirror(Applied(h, e))'
    <2>1. Applied(h, e) = Spoken(h, FALSE, ids)
      BY <1>4 DEF Applied
    <2>2. Applied(h, e) = Append(run.messages, Assistant(run.text, ids))
      <3>1. CASE run.text = TRUE
        <4>1. h = Append(run.messages, Assistant(run.text, none))
          BY <1>1, <1>5, <1>7, <3>1 DEF Mirror
        <4> QED BY <1>5, <1>6, <2>1, <4>1, SpokenOn
      <3>2. CASE run.text = FALSE
        <4>1. h = run.messages
          BY <1>1, <1>7, <3>2 DEF Mirror
        <4>2. Spoken(run.messages, FALSE, ids) = Append(run.messages, Assistant(FALSE, ids))
          BY <1>6, SpokenAfter
        <4> QED BY <2>1, <3>2, <4>1, <4>2
      <3> QED BY <1>6, <3>1, <3>2
    <2>3. Ids(run'.calls) = ids /\ run'.calls # <<>>
      BY <1>1, <1>2, <1>3
    <2> QED BY <1>1, <2>2, <2>3 DEF Mirror, Batching, Refusals, Asks, Runs
  <1> QED BY <1>1, <1>4, <1>7, MirrorSends

LEMMA ToldMirror ==
  ASSUME TypeInv, TypeInv', MirrorInv, Told
  PROVE  MirrorInv'
  <1>1. /\ run.pc = "model" /\ run'.pc # "model" /\ run'.results = <<>>
        /\ UNCHANGED <<events, ui>> /\ (Mirrored' => Mirrored)
    BY DEF Told, AnswerIs, SameCourse, Mirrored, Refusals, Asks
  <1>2. run'.messages = IF run.text \/ run.calls # <<>>
                        THEN Append(run.messages, Assistant(run.text, Ids(run.calls)))
                        ELSE run.messages
    BY DEF Told, AnswerIs
  <1>3. ASSUME NEW h \in Seq(Message), Mirror(h)
        PROVE  Mirror(h)'
    <2>1. h = run'.messages
      BY <1>1, <1>2, <1>3 DEF Mirror
    <2>2. h \o <<>> = h
      OBVIOUS
    <2> QED BY <1>1, <2>1, <2>2 DEF Mirror
  <1> QED BY <1>1, <1>3, MirrorStays

LEMMA JoinAppend ==
  ASSUME NEW a \in Seq(Message), NEW r \in Seq(Message), NEW m \in Message
  PROVE  Append(a \o r, m) = a \o Append(r, m)
  <1>1. PICK la \in Nat, lr \in Nat : la = Len(a) /\ lr = Len(r)
    OBVIOUS
  <1>2. PICK s \in Seq(Message) : /\ s = Append(r, m) /\ Len(s) = lr + 1 /\ s[lr + 1] = m
                                  /\ \A i \in 1 .. lr : s[i] = r[i]
    <2>1. /\ Append(r, m) \in Seq(Message) /\ Len(Append(r, m)) = lr + 1
          /\ Append(r, m)[lr + 1] = m /\ \A i \in 1 .. lr : Append(r, m)[i] = r[i]
      BY <1>1
    <2> QED BY <2>1
  <1>3. PICK h \in Seq(Message) : /\ h = a \o r /\ Len(h) = la + lr
                                  /\ \A i \in 1 .. la : h[i] = a[i]
                                  /\ \A i \in 1 .. lr : h[la + i] = r[i]
    <2>1. PICK h \in Seq(Message) : h = a \o r
      BY JoinParts
    <2>2. /\ Len(h) = la + lr /\ \A i \in 1 .. la : h[i] = a[i]
          /\ \A i \in 1 .. lr : h[la + i] = r[i]
      BY <1>1, <2>1, JoinParts
    <2> QED BY <2>1, <2>2
  <1>4. PICK g \in Seq(Message) : /\ g = a \o s /\ Len(g) = la + (lr + 1)
                                  /\ \A i \in 1 .. la : g[i] = a[i]
                                  /\ \A i \in 1 .. lr + 1 : g[la + i] = s[i]
    <2>1. PICK g \in Seq(Message) : g = a \o s
      BY JoinParts
    <2>2. /\ Len(g) = la + (lr + 1) /\ \A i \in 1 .. la : g[i] = a[i]
          /\ \A i \in 1 .. lr + 1 : g[la + i] = s[i]
      BY <1>1, <1>2, <2>1, JoinParts
    <2> QED BY <2>1, <2>2
  <1>5. PICK t \in Seq(Message) : /\ t = Append(h, m) /\ Len(t) = la + lr + 1
                                  /\ t[la + lr + 1] = m /\ \A i \in 1 .. la + lr : t[i] = h[i]
    <2>1. /\ Append(h, m) \in Seq(Message) /\ Len(Append(h, m)) = la + lr + 1
          /\ Append(h, m)[la + lr + 1] = m /\ \A i \in 1 .. la + lr : Append(h, m)[i] = h[i]
      BY <1>3
    <2> QED BY <2>1
  <1>6. \A i \in 1 .. la + lr + 1 : g[i] = t[i]
    <2>1. ASSUME NEW i \in 1 .. la + lr + 1
          PROVE  g[i] = t[i]
      <3>1. CASE i \in 1 .. la
        <4>1. i \in 1 .. la + lr
          BY <3>1
        <4>2. t[i] = h[i] /\ h[i] = a[i] /\ g[i] = a[i]
          BY <1>3, <1>4, <1>5, <3>1, <4>1
        <4> QED BY <4>2
      <3>2. CASE i - la \in 1 .. lr
        <4>1. i = la + (i - la) /\ i \in 1 .. la + lr /\ i - la \in 1 .. lr + 1
          BY <3>2
        <4>2. h[i] = r[i - la] /\ g[i] = s[i - la] /\ s[i - la] = r[i - la]
          BY <1>2, <1>3, <1>4, <3>2, <4>1
        <4> QED BY <1>5, <4>1, <4>2
      <3>3. CASE i = la + lr + 1
        <4>1. i = la + (lr + 1) /\ lr + 1 \in 1 .. lr + 1
          BY <3>3
        <4> QED BY <1>2, <1>4, <1>5, <3>3, <4>1
      <3> QED BY <3>1, <3>2, <3>3
    <2> QED BY <2>1
  <1>7. Len(g) = la + lr + 1 /\ Len(t) = la + lr + 1
    BY <1>4, <1>5
  <1>8. g = t
    BY <1>6, <1>7
  <1> QED BY <1>2, <1>3, <1>4, <1>5, <1>8

LEMMA GivesMirror ==
  ASSUME TypeInv, MirrorInv, NEW body, Gives(body)
  PROVE  MirrorInv'
  <1>1. /\ run.pc \in Batching /\ run'.pc \in Batching /\ run.todo # <<>>
        /\ body \in Bodies \cup {"notice"} /\ run'.messages = run.messages /\ UNCHANGED ui
        /\ (Mirrored' => Mirrored)
    BY DEF Gives, SameTalk, SameCourse, Mirrored
  <1>2. "model" \notin Batching /\ "compact" \notin Batching /\ "finish" \notin Batching
    BY DEF Batching, Refusals, Asks, Runs
  <1>3. PICK id \in CallIds : id = Head(run.todo).id
    BY <1>1, TodoType
  <1>4. PICK m \in Message : m = Result(id, body) /\ m \in Answer
    BY <1>1, Messages
  <1>5. CASE events' = Append(events, [type |-> "tool", call |-> id, body |-> body])
    <2>1. PICK e \in Event : e = [type |-> "tool", call |-> id, body |-> body]
      BY <1>1, EventTypes
    <2>2. ASSUME NEW h \in Seq(Message), Mirror(h)
          PROVE  Mirror(Applied(h, e))'
      <3>1. PICK a \in Seq(Message), r \in Seq(Message) : a = run.messages /\ r = run.results
        BY KnownHistories, KnownBatch, AnswersAreMessages
      <3>2. h = a \o r
        BY <1>1, <2>2, <3>1 DEF Mirror
      <3>3. Applied(h, e) = Append(h, m)
        BY <1>4, <2>1 DEF Applied
      <3>4. Append(a \o r, m) = a \o Append(r, m)
        BY JoinAppend
      <3>5. run'.results = Append(r, m)
        BY <1>3, <1>4, <3>1 DEF Gives
      <3>6. Applied(h, e) = run'.messages \o run'.results
        BY <1>1, <3>1, <3>2, <3>3, <3>4, <3>5
      <3> QED BY <1>1, <1>2, <3>6 DEF Mirror
    <2> QED BY <1>1, <1>5, <2>1, <2>2, MirrorSends
  <1>6. CASE run.over
    <2>1. ~Mirrored'
      BY <1>6 DEF Gives, SameCourse, Mirrored
    <2> QED BY <2>1 DEF MirrorInv
  <1> QED BY <1>3, <1>5, <1>6 DEF Gives

LEMMA JoinsMirror ==
  ASSUME MirrorInv, Joins
  PROVE  MirrorInv'
  <1>1. /\ run.pc \in Batching /\ run'.pc \in {"finish", "compact"}
        /\ run'.messages = run.messages \o run.results /\ UNCHANGED <<events, ui>>
        /\ (Mirrored' => Mirrored)
    BY DEF Joins, SameCourse, Mirrored
  <1>2. \A h \in Seq(Message) : Mirror(h) => Mirror(h)'
    BY <1>1 DEF Mirror, Batching, Refusals, Asks, Runs
  <1> QED BY <1>1, <1>2, MirrorStays

LEMMA MovesMirror ==
  ASSUME TypeInv, MirrorInv, Moves
  PROVE  MirrorInv'
  <1>1. /\ run.pc \in Batching /\ run'.pc \in Batching
        /\ run'.messages = run.messages /\ run'.results = run.results /\ UNCHANGED ui
        /\ (Mirrored' => Mirrored)
    BY DEF Moves, SameBatch, SameTalk, SameCourse, Mirrored
  <1>2. \A h \in Seq(Message) : Mirror(h) => Mirror(h)'
    BY <1>1 DEF Mirror, Batching, Refusals, Asks, Runs
  <1>3. CASE UNCHANGED events
    BY <1>1, <1>2, <1>3, MirrorStays
  <1>4. CASE \E ask \in SUBSET Asking : events' = Append(events, [type |-> "prompt", ask |-> ask])
    <2>1. PICK ask \in SUBSET Asking : events' = Append(events, [type |-> "prompt", ask |-> ask])
      BY <1>4
    <2>2. PICK e \in Event : e = [type |-> "prompt", ask |-> ask]
      BY EventTypes
    <2>3. \A h : Applied(h, e) = h
      BY <2>2 DEF Applied
    <2>4. \A h \in Seq(Message) : Mirror(h) => Mirror(Applied(h, e))'
      BY <1>2, <2>3
    <2> QED BY <1>1, <2>1, <2>2, <2>4, MirrorSends
  <1> QED BY <1>3, <1>4 DEF Moves

LEMMA SettlesMirror ==
  ASSUME TypeInv, MirrorInv, Settles
  PROVE  MirrorInv'
  <1>1. /\ run'.messages = run.messages /\ UNCHANGED ui /\ (Mirrored' => Mirrored)
        /\ \/ run'.pc = "finish"
           \/ run'.pc = "model" /\ run'.calls = <<>> /\ ~run'.text
    BY DEF Settles, SameTalk, SameCourse, Mirrored
  <1>2. \A h : h = run.messages => Mirror(h)'
    BY <1>1 DEF Mirror, Batching, Refusals, Asks, Runs
  <1>3. CASE run.pc = "compact" /\ UNCHANGED events
    <2>1. \A h \in Seq(Message) : Mirror(h) => h = run.messages
      BY <1>3 DEF Mirror
    <2>2. \A h \in Seq(Message) : Mirror(h) => Mirror(h)'
      BY <1>2, <2>1
    <2> QED BY <1>1, <1>3, <2>2, MirrorStays
  <1>4. CASE run.over
    <2>1. ~Mirrored'
      BY <1>4 DEF Settles, SameCourse, Mirrored
    <2> QED BY <2>1 DEF MirrorInv
  <1>5. CASE events' = Append(events, [type |-> "compacted", messages |-> run.messages])
    <2>1. PICK e \in Event : e = [type |-> "compacted", messages |-> run.messages]
      BY KnownHistories, EventTypes
    <2>2. \A h : Applied(h, e) = run.messages
      BY <2>1 DEF Applied
    <2>3. \A h \in Seq(Message) : Mirror(h) => Mirror(Applied(h, e))'
      BY <1>2, <2>2
    <2> QED BY <1>1, <1>5, <2>1, <2>3, MirrorSends
  <1> QED BY <1>3, <1>4, <1>5 DEF Settles

LEMMA SessionMirror ==
  ASSUME TypeInv, TypeInv', TailInv, MirrorInv, FairInv',
         \/ Texts \/ (\E b : Calls(b) \/ CallsLost(b)) \/ Told \/ TextLost \/ Retries \/ Dies
         \/ (\E body : Gives(body)) \/ Joins \/ Moves
         \/ Shortens \/ Settles \/ Finishes \/ Returns
  PROVE  MirrorInv'
  <1>1. CASE (\E b : CallsLost(b)) \/ TextLost \/ Retries
    <2>1. ~Mirrored'
      BY <1>1 DEF CallsLost, TextLost, Retries, AnswerIs, SameCourse, Mirrored
    <2> QED BY <2>1 DEF MirrorInv
  <1>2. CASE Dies \/ Shortens \/ Finishes \/ Returns
    <2>1. run'.pc \in Unseen
      BY <1>2 DEF Dies, Shortens, Finishes, Returns, Unseen
    <2> QED BY <2>1, MirrorUnseen
  <1> QED BY <1>1, <1>2, TextsMirror, CallsMirror, ToldMirror, GivesMirror, JoinsMirror, MovesMirror,
             SettlesMirror

LEMMA ChatMirror ==
  ASSUME TypeInv, TypeInv', MirrorInv, SoundInv, Takes \/ Rests \/ StartsRun \/ Closes
  PROVE  MirrorInv'
  <1>1. ASSUME SameRun
        PROVE  \A h : Mirror(h) => Mirror(h)'
    BY <1>1 DEF SameRun, Mirror
  <1>2. CASE Takes
    <2> SUFFICES ASSUME Mirrored'
                 PROVE  \E h \in Seq(Message) : Replays(events', 0, ui'.live, h) /\ Mirror(h)'
      BY DEF MirrorInv
    <2>1. Mirrored /\ SameRun
      BY <1>2 DEF Mirrored, Takes, SameRun
    <2>2. PICK s \in Seq(Event) : s = events /\ s # <<>>
      BY <1>2 DEF TypeInv, Takes
    <2>3. PICK h \in Seq(Message) : Replays(s, 0, ui.live, h) /\ Mirror(h)
      BY <2>1, <2>2 DEF MirrorInv
    <2>4. Replays(s, 1, Applied(ui.live, Head(s)), h)
      BY <2>2, <2>3, ReplaysFirst
    <2>5. 0 \in Nat /\ 0 + 1 = 1 /\ 0 + 1 <= Len(s)
      BY <2>2
    <2>6. Replays(s, 0 + 1, Applied(ui.live, Head(s)), h)
      BY <2>4, <2>5
    <2>7. Replays(Tail(s), 0, Applied(ui.live, Head(s)), h)
      BY <2>2, <2>5, <2>6, ReplaysTail
    <2>8. Replays(events', 0, ui'.live, h)
      BY <1>2, <2>2, <2>7 DEF Takes
    <2> QED BY <1>1, <2>1, <2>3, <2>8
  <1>3. CASE Rests
    <2> SUFFICES ASSUME Mirrored'
                 PROVE  \E h \in Seq(Message) : Replays(events', 0, ui'.live, h) /\ Mirror(h)'
      BY DEF MirrorInv
    <2>1. Mirrored /\ SameRun /\ UNCHANGED events /\ ui'.live = ui.live
      BY <1>3 DEF Mirrored, Rests, SameRun
    <2>2. PICK h \in Seq(Message) : Replays(events, 0, ui.live, h) /\ Mirror(h)
      BY <2>1 DEF MirrorInv
    <2> QED BY <1>1, <2>1, <2>2
  <1>4. CASE StartsRun
    <2>1. /\ run'.pc = "model" /\ run'.calls = <<>> /\ run'.text = FALSE
          /\ run'.messages = ui'.live /\ events = <<>> /\ events' = <<>>
      BY <1>4 DEF StartsRun, SoundInv
    <2>2. \A h : h = ui'.live => Mirror(h)'
      BY <2>1 DEF Mirror, Batching, Refusals, Asks, Runs
    <2>3. PICK s \in Seq(Event) : s = events' /\ Len(s) = 0
      <3>1. <<>> \in Seq(Event) /\ Len(<<>>) = 0
        OBVIOUS
      <3> QED BY <2>1, <3>1
    <2>4. PICK live \in Seq(Message) : live = ui'.live
      BY DEF TypeInv
    <2>5. Replays(s, 0, live, live)
      BY <2>3, ReplaysNone
    <2> QED BY <2>2, <2>3, <2>4, <2>5 DEF MirrorInv
  <1>5. CASE Closes
    <2>1. ~Mirrored'
      BY <1>5 DEF Closes, Mirrored
    <2> QED BY <2>1 DEF MirrorInv
  <1> QED BY <1>2, <1>3, <1>4, <1>5

LEMMA MirrorSteps ==
  ASSUME Inv, Inv', HistInv, HistInv', TailInv, MirrorInv, [Next]_vars
  PROVE  TailInv' /\ MirrorInv'
  <1>1. TypeInv /\ TypeInv' /\ PlaceInv /\ DoneInv /\ KeepInv
    BY DEF Inv, ConsentInv
  <1>2. BatchInv /\ SoundInv /\ FairInv'
    BY DEF HistInv
  <1>3. CASE \/ Texts \/ (\E b : Calls(b) \/ CallsLost(b)) \/ Told \/ TextLost \/ Retries \/ Dies
             \/ (\E body : Gives(body)) \/ Joins \/ Moves
             \/ Shortens \/ Settles \/ Finishes \/ Returns
    <2>1. TailInv'
      BY <1>1, <1>2, <1>3, SessionTail
    <2>2. MirrorInv'
      BY <1>1, <1>2, <1>3, SessionMirror
    <2> QED BY <2>1, <2>2
  <1>4. CASE Takes \/ Rests \/ StartsRun \/ Closes
    BY <1>1, <1>2, <1>4, ChatTail, ChatMirror
  <1>5. CASE \/ StreamText \/ StreamCalls \/ StreamEnds \/ StreamFails \/ StreamBreaks
             \/ Refuse \/ BatchEnds \/ Plan \/ Authorize \/ TakeReply \/ PromptAborts
             \/ ExecNext \/ CallUnknown \/ CallStarts \/ CallEnds
             \/ Compacts \/ LeavesHistory \/ Announce \/ Finish \/ Return
    BY <1>1, <1>3, <1>5, SessionKinds
  <1>6. CASE \/ Submit \/ Receive \/ ReceiveDone \/ ReceiveClosed \/ ReceiveClosedCompacting \/ ReceivePrompt
             \/ Approve \/ Deny \/ Toggle \/ Cancel \/ NewChat \/ UNCHANGED vars
    BY <1>1, <1>4, <1>6, ChatKinds
  <1> QED BY <1>5, <1>6 DEF Next

\* The events are enough to rebuild the session's history, over batches, refusals and
\* compactions, as long as the run is not cancelled and no server error was reported to the
\* model (emit, emitCompacted, applyAgentEvent).
THEOREM LiveMirrors == Spec => []LiveIsHistory
  <1>1. Inv /\ HistInv /\ TailInv /\ MirrorInv => LiveIsHistory
    <2> SUFFICES ASSUME Inv, MirrorInv, Mirrored, events = <<>>, run.pc \in {"model", "finish"},
                        run.pc = "model" => ~run.text /\ run.calls = <<>>
                 PROVE  ui.live = run.messages
      BY DEF LiveIsHistory, Mirrored
    <2>1. PICK s \in Seq(Event) : s = events /\ Len(s) = 0
      <3>1. <<>> \in Seq(Event) /\ Len(<<>>) = 0
        OBVIOUS
      <3> QED BY <3>1
    <2>2. PICK h \in Seq(Message) : Replays(s, 0, ui.live, h) /\ Mirror(h)
      BY <2>1 DEF MirrorInv
    <2>3. h = ui.live
      BY <2>1, <2>2, ReplaysAll
    <2> QED BY <2>2, <2>3 DEF Mirror
  <1>2. Init => TailInv /\ MirrorInv
    BY DEF Init, Off, TailInv, MirrorInv, Mirrored
  <1>3. Inv /\ Inv' /\ HistInv /\ HistInv' /\ TailInv /\ MirrorInv /\ [Next]_vars
            => TailInv' /\ MirrorInv'
    BY MirrorSteps
  <1> QED BY <1>1, <1>2, <1>3, HistInvariance, PTL DEF Spec
=============================================================================
