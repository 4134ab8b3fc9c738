------------------------------- MODULE Turns -------------------------------
(***************************************************************************)
(* What a model is told and what is made of its answer: the context of a    *)
(* run's turn (internal/runtime/context.go, executeRunLoop), the messages   *)
(* that the providers make of it, the stream of the answer                  *)
(* (internal/providers), and the records of the calls, those of delegations *)
(* with what the child answered later (appendUpdatedParentSpawnResult).     *)
(* One run, from its start over its pauses to its end; the other runs, its  *)
(* children and restarts are those of module Runs.                          *)
(*                                                                         *)
(* A text is the number of its pieces: the newlines that stand in a         *)
(* recorded text between the parts of a Responses message are not counted.  *)
(* A call's id is the number of its turn and its place: that a service      *)
(* never gives an id twice is assumed. Bounds: MaxTurns (for 10, and for    *)
(* all loops), MaxNotes, MaxPieces, CallLists.                              *)
(***************************************************************************)
EXTENDS Naturals, Sequences, FiniteSets, Sorted

CONSTANTS Apis, CallLists, MailLimit, MaxTurns, MaxNotes, MaxPieces

ASSUME TurnsAssumption ==
  /\ Apis \subseteq {"chat", "responses", "messages"}
  /\ CallLists \subseteq Seq({"plain", "ask", "delegate", "malformed"})
  /\ MailLimit \in Nat \ {0} /\ {MaxTurns, MaxNotes, MaxPieces} \subseteq Nat

VARIABLES
  api,      \* the wire format that the provider is configured for
  mailbox,  \* the messages of the run's session
  record,   \* the run's turn_completed and tool_call_recorded events
  context,  \* runCtxEvents, the loop's copy of them
  prompt,   \* the messages of the last request
  reply,    \* the answer that is being streamed
  shown,    \* how much of it the sink was given
  kids,     \* the call that each child of the run is for, and the child's state
  turnAt    \* where the loop is

turnsVars == <<api, mailbox, record, context, prompt, reply, shown, kids, turnAt>>

NoReply == [pieces |-> 0, calls |-> <<>>, stop |-> ""]
Mail(kind) == [event |-> "mail", kind |-> kind]

TurnsInit ==
  /\ api \in Apis
  /\ mailbox = <<Mail("user")>> /\ record = <<>> /\ context = <<>> /\ prompt = <<>>
  /\ reply = NoReply /\ shown = 0 /\ kids = {} /\ turnAt = "begin"

-----------------------------------------------------------------------------
(* The context.                                                            *)

\* The newest messages, the oldest of them first.
listSessionMessages ==
  IF Len(mailbox) <= MailLimit THEN mailbox
  ELSE SubSeq(mailbox, Len(mailbox) - MailLimit + 1, Len(mailbox))

SameCall(e, f) == e.event = "tool" /\ f.event = "tool" /\ e.id = f.id

\* Mutant: the first record of a call is kept, not the last.
FirstToolCallEvents(events) ==
  Picked(events, {i \in DOMAIN events : ~\E j \in DOMAIN events : j < i /\ SameCall(events[i], events[j])})

\* Of the records of one call, the last.
latestToolCallEvents(events) ==
  Picked(events, {i \in DOMAIN events : ~\E j \in DOMAIN events : i < j /\ SameCall(events[i], events[j])})

loadRunContextEvents == latestToolCallEvents(record)

\* What a provider makes of an event: a call is followed by its result.
MessagesOf(e) ==
  CASE e.event = "mail" -> <<[role |-> IF e.kind = "assistant" THEN "assistant" ELSE "user"]>>
    [] e.event = "turn" -> IF e.pieces = 0 THEN <<>> ELSE <<[role |-> "assistant"]>>
    [] OTHER -> <<[role |-> "call", id |-> e.id],
                  [role |-> "result", id |-> e.id, of |-> e.of]>>

eventsToMessages[n \in Nat] ==
  LET events == listSessionMessages \o context
  IN  IF n = 0 THEN <<>> ELSE eventsToMessages[n - 1] \o MessagesOf(events[n])
Conversation == eventsToMessages[Len(listSessionMessages \o context)]

Begun(messages) == IF messages = <<>> THEN <<[role |-> "user"]>> ELSE messages

\* What the agent is, may do, is asked for and remembers.
Instructions == <<[role |-> "system"]>>

\* They are a message of their own, or a field of the request.
buildChatCompletionParams == Instructions \o Begun(Conversation)
buildResponsesParams == Begun(Conversation)
buildMessageParams == Begun(Conversation)

PromptMessages ==
  CASE api = "chat" -> buildChatCompletionParams
    [] api = "responses" -> buildResponsesParams
    [] OTHER -> buildMessageParams

Turn == Cardinality({i \in DOMAIN record : record[i].event = "turn"}) + 1

\* The request of a turn, and what the service will answer to it: a reason to stop
\* says nothing of the calls. The Anthropic client makes null of arguments that
\* are no JSON, the others hand them on.
Assemble ==
  /\ turnAt = "begin" /\ Turn <= MaxTurns
  /\ prompt' = PromptMessages
  /\ \E pieces \in 0..MaxPieces, calls \in CallLists, stop \in {"end_turn", "tool_calls", "length"} :
       /\ api = "messages" => \A i \in DOMAIN calls : calls[i] # "malformed"
       /\ reply' = [pieces |-> pieces, calls |-> calls, stop |-> stop]
  /\ shown' = 0 /\ turnAt' = "asking"
  /\ UNCHANGED <<api, mailbox, record, context, kids>>

-----------------------------------------------------------------------------
(* The stream.                                                             *)

\* A piece of text arrives, and the sink takes it.
OnDelta ==
  /\ turnAt = "asking" /\ shown < reply.pieces
  /\ shown' = shown + 1
  /\ UNCHANGED <<api, mailbox, record, context, prompt, reply, kids, turnAt>>

\* The connection breaks, the service reports an error, the sink fails or the
\* deadline passes: the run has failed.
ProviderError ==
  /\ turnAt = "asking"
  /\ turnAt' = "failed" /\ reply' = NoReply
  /\ UNCHANGED <<api, mailbox, record, context, prompt, shown, kids>>

\* The run's turn_completed event, and the answer in the mailbox when the model
\* says that it is done.
FinishTurn(pieces, calls, stop) ==
  /\ record' = Append(record, [event |-> "turn", pieces |-> pieces, calls |-> calls])
  /\ context' = Append(context, record'[Len(record')])
  /\ mailbox' = IF pieces > 0 /\ stop \in {"end_turn", ""} THEN Append(mailbox, Mail("assistant")) ELSE mailbox
  /\ reply' = [pieces |-> pieces, calls |-> calls, stop |-> stop]
  /\ turnAt' = CASE calls # <<>> -> "tools"
                 [] calls = <<>> /\ stop \in {"", "end_turn"} -> "completed"
                 [] calls = <<>> /\ pieces = 0 /\ stop \notin {"", "end_turn"} -> "interrupted"
                 [] OTHER -> "begin"
  /\ UNCHANGED <<api, prompt, shown, kids>>

\* The answer is the text that was streamed, with the calls that came after it.
streamChatCompletions ==
  /\ api = "chat" /\ shown = reply.pieces
  /\ FinishTurn(shown, reply.calls, reply.stop)
consumeMessageStream ==
  /\ api = "messages" /\ shown = reply.pieces
  /\ FinishTurn(shown, reply.calls, reply.stop)

\* The calls of the answer that may have come so far, the last of them perhaps
\* cut off.
Gathered ==
  LET whole == {SubSeq(reply.calls, 1, n) : n \in 0..Len(reply.calls)}
  IN  whole \cup {Append(calls, "malformed") :
                    calls \in {calls \in whole : api = "chat" /\ Len(calls) < Len(reply.calls)}}

\* A stream that ends before the model says why it stopped is taken for all of
\* its answer.
StreamEndsEarly ==
  /\ api \in {"chat", "messages"}
  /\ \E calls \in Gathered : FinishTurn(shown, calls, "")

\* Mutant: the answer is what has been streamed when the last event is lost.
StreamWithoutEnd ==
  /\ api = "responses"
  /\ FinishTurn(reply.pieces, reply.calls, IF reply.calls # <<>> THEN "tool_calls" ELSE "end_turn")

\* Here the last event has the whole answer in it, and has to come.
streamResponses ==
  /\ api = "responses" /\ shown = reply.pieces
  /\ FinishTurn(reply.pieces, reply.calls, IF reply.calls # <<>> THEN "tool_calls" ELSE "end_turn")

Generate ==
  /\ turnAt = "asking"
  /\ streamChatCompletions \/ consumeMessageStream \/ StreamEndsEarly \/ streamResponses

-----------------------------------------------------------------------------
(* The calls of the answer, one after the other.                           *)

\* The record of call i of the last turn; of is the child that its result is of.
Recorded(id, kind, of) ==
  record' = Append(record, [event |-> "tool", id |-> id, kind |-> kind, of |-> of])

LastCalls == {i \in DOMAIN reply.calls : ~\E e \in DOMAIN record :
                record[e].event = "tool" /\ record[e].id = <<Turn - 1, i>>}
NextCall == IF LastCalls = {} THEN 0 ELSE CHOOSE i \in LastCalls : \A j \in LastCalls : i <= j

\* A call that needs approval, or whose child is still at work, ends the turn;
\* the calls behind it are never made. Arguments that are no JSON cannot be
\* recorded, whatever the tool made of them: the loop returns with an error, and
\* no event tells that the run has ended.
RunCall ==
  /\ turnAt = "tools" /\ NextCall # 0
  /\ LET id == <<Turn - 1, NextCall>>
         kind == reply.calls[NextCall]
     IN  \/ /\ kind = "plain"
            /\ Recorded(id, kind, <<>>) /\ UNCHANGED <<kids, turnAt>>
         \/ /\ kind = "ask"
            /\ turnAt' = "ticket" /\ UNCHANGED <<record, kids>>
         \/ /\ kind = "delegate"
            /\ \E state \in {"ended", "active"} :
                 /\ kids' = kids \cup {[for |-> id, state |-> state]}
                 /\ Recorded(id, kind, IF state = "ended" THEN id ELSE <<>>)
                 /\ turnAt' = IF state = "active" THEN "child" ELSE "tools"
         \/ /\ kind = "malformed"
            /\ turnAt' = "lost" /\ UNCHANGED <<record, kids>>
  /\ UNCHANGED <<api, mailbox, context, prompt, reply, shown>>

\* The records of the calls are added to the loop's copy.
NextTurn ==
  /\ turnAt = "tools" /\ NextCall = 0
  /\ context' = context \o Picked(record, {i \in DOMAIN record : record[i].event = "tool" /\ record[i].id[1] = Turn - 1})
  /\ turnAt' = "begin"
  /\ UNCHANGED <<api, mailbox, record, prompt, reply, shown, kids>>

\* The loop begins again, and reads the run's events.
Resume(events) ==
  /\ context' = latestToolCallEvents(events)
  /\ turnAt' = "begin" /\ reply' = NoReply

\* An approved call is made and recorded; one that fails interrupts the run.
AnswerTicket ==
  /\ turnAt = "ticket"
  /\ \/ Recorded(<<Turn - 1, NextCall>>, "ask", <<>>) /\ Resume(record')
     \/ /\ Recorded(<<Turn - 1, NextCall>>, "ask", <<>>)
        /\ turnAt' = "interrupted" /\ UNCHANGED <<context, reply>>
     \/ turnAt' = "interrupted" /\ UNCHANGED <<record, context, reply>>
  /\ UNCHANGED <<api, mailbox, prompt, shown, kids>>

Delegated(i) == record[i].event = "tool" /\ record[i].kind = "delegate"

\* Mutant: the result is put to the first delegation.
FirstSpawn == CHOOSE i \in DOMAIN record : Delegated(i) /\ \A j \in DOMAIN record : Delegated(j) => i <= j

\* The last delegation of the parent.
SpawnMatch == CHOOSE i \in DOMAIN record : Delegated(i) /\ \A j \in DOMAIN record : Delegated(j) => j <= i

\* A child that ends tells its parent in a message, and in a new record of the
\* call; the parent goes on, or is interrupted with it.
childTerminalMessage ==
  /\ turnAt = "child"
  /\ \E k \in kids, ok \in BOOLEAN :
       /\ k.state = "active"
       /\ kids' = (kids \ {k}) \cup {[k EXCEPT !.state = "ended"]}
       /\ mailbox' = Append(mailbox, Mail("announce"))
       /\ Recorded(record[SpawnMatch].id, "delegate", k.for)
       /\ IF ok THEN Resume(record') ELSE turnAt' = "interrupted" /\ UNCHANGED <<context, reply>>
  /\ UNCHANGED <<api, prompt, shown>>

\* Somebody writes to the session of the run.
InjectNote ==
  /\ Cardinality({i \in DOMAIN mailbox : mailbox[i] = Mail("note")}) < MaxNotes
  /\ mailbox' = Append(mailbox, Mail("note"))
  /\ UNCHANGED <<api, record, context, prompt, reply, shown, kids, turnAt>>

TurnsNext ==
  \/ Assemble \/ OnDelta \/ ProviderError \/ Generate
  \/ RunCall \/ NextTurn \/ AnswerTicket \/ childTerminalMessage \/ InjectNote

TurnsSpec == TurnsInit /\ [][TurnsNext]_turnsVars

-----------------------------------------------------------------------------

\* The loop is somewhere, and the stream within its answer.
TurnsTypeOK ==
  /\ turnAt \in {"begin", "asking", "tools", "ticket", "child", "completed", "failed", "interrupted", "lost"}
  /\ shown \in 0..MaxPieces /\ Turn \in 1..(MaxTurns + 1)
  /\ turnAt = "asking" => shown <= reply.pieces
  /\ \A k \in kids : k.state = "active" => turnAt = "child"

\* What the loop keeps in memory is what it would read from the journal.
ContextIsTheJournal == turnAt \in {"begin", "asking"} => context = loadRunContextEvents

\* In a request each call is there once and followed by its result; that of a
\* delegation whose child has ended is its child's.
CallsAreAnswered ==
  \A i \in DOMAIN prompt : prompt[i].role = "call" =>
    /\ i < Len(prompt) /\ prompt[i + 1].role = "result" /\ prompt[i + 1].id = prompt[i].id
    /\ \A j \in DOMAIN prompt : j # i /\ prompt[j].role = "call" => prompt[j].id # prompt[i].id
    /\ (\E k \in kids : k.for = prompt[i].id) => prompt[i + 1].of = prompt[i].id

\* Call j of turn t, whose answer is event e, made the run wait: for a person, or
\* for a child that was still at work when the call was recorded.
MadeItWait(e, t, j) ==
  \/ record[e].calls[j] = "ask"
  \/ \E f \in DOMAIN record :
       record[f].event = "tool" /\ record[f].id = <<t, j>> /\ record[f].kind = "delegate" /\ record[f].of = <<>>

\* The calls of a turn that is over were made, but for those behind one that
\* made the run wait.
NoCallIsSkipped ==
  turnAt = "begin" =>
    \A t \in 1..(Turn - 1) : \A e \in DOMAIN record :
      record[e].event = "turn" /\ Cardinality({f \in 1..e : record[f].event = "turn"}) = t =>
        \A i \in DOMAIN record[e].calls :
          \/ \E f \in DOMAIN record : record[f].event = "tool" /\ record[f].id = <<t, i>>
          \/ \E j \in 1..(i - 1) : MadeItWait(e, t, j)

\* The text of a turn in the journal is the one that was shown.
TurnsAreShown ==
  Turn > 1 /\ turnAt \in {"begin", "tools", "ticket", "child", "completed"} =>
    LET last == CHOOSE e \in DOMAIN record :
                  record[e].event = "turn" /\ \A f \in DOMAIN record : record[f].event = "turn" => f <= e
    IN  shown = record[last].pieces
=============================================================================
