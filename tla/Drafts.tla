------------------------------- MODULE Drafts -------------------------------
(***************************************************************************)
(* Telegram's drafts: while a run's turn streams, its text is recorded     *)
(* under a lock by the run's goroutine (recordDraft, reached through the   *)
(* run event fan-out) and shown by the connector's loop (FlushDrafts),     *)
(* which copies the dirty drafts under the lock, calls the service without *)
(* it, and takes it again for each draft it has shown.                     *)
(*                                                                         *)
(* A text is a sequence of turn numbers, one for each piece of streamed    *)
(* text. Bounds: the set of runs, MaxTexts events per run.                 *)
(***************************************************************************)
EXTENDS Naturals, Sequences

CONSTANTS DraftRuns, MaxTexts

ASSUME DraftsAssumption == MaxTexts \in Nat

VARIABLES
  draft,    \* the map of drafts: text, dirty, completed; no text if absent
  flush,    \* FlushDrafts: the copies it still has to show, the one it shows
  shown,    \* what the service shows for a run
  stream    \* per run: events so far, turn, pieces of the turn, the last text

draftVars == <<draft, flush, shown, stream>>

Absent == [text |-> <<>>, dirty |-> FALSE, completed |-> FALSE]
NotFlushing == [pc |-> "idle", todo |-> {}]

DraftsInit ==
  /\ draft = [r \in DraftRuns |-> Absent]
  /\ flush = NotFlushing
  /\ shown = [r \in DraftRuns |-> <<>>]
  /\ stream = [r \in DraftRuns |-> [events |-> 0, turn |-> 1, pieces |-> 0, last |-> <<>>]]

Pieces(turn, n) == [k \in 1..n |-> turn]

\* Mutant: text that was shown once is not dirty again.
RecordClean(r, text, completed) ==
  draft' = [draft EXCEPT ![r] = [text |-> text, dirty |-> @.text = <<>>, completed |-> completed]]

RecordDraft(r, text, completed) ==
  draft' = [draft EXCEPT ![r] = [text |-> text, dirty |-> TRUE, completed |-> completed]]

\* turn_delta appends its text to whatever the map has.
TurnDelta(r) ==
  LET s == stream[r]  text == Append(draft[r].text, s.turn) IN
  /\ s.events < MaxTexts
  /\ RecordDraft(r, text, draft[r].completed)
  /\ stream' = [stream EXCEPT ![r] =
       [s EXCEPT !.events = @ + 1, !.pieces = @ + 1, !.last = text]]
  /\ UNCHANGED <<flush, shown>>

\* turn_completed replaces the text by the turn's content, if it has any; a
\* turn without text records nothing.
TurnCompleted(r) ==
  LET s == stream[r] IN
  /\ s.events < MaxTexts
  /\ \E content \in {draft[r].text, Pieces(s.turn, s.pieces), Pieces(s.turn, s.pieces + 1)} :
       LET text == IF content = <<>> THEN draft[r].text ELSE content IN
       /\ IF text = <<>> THEN UNCHANGED draft ELSE RecordDraft(r, text, TRUE)
       /\ stream' = [stream EXCEPT ![r] = [events |-> s.events + 1, turn |-> s.turn + 1, pieces |-> 0,
                       last |-> IF text = <<>> THEN @.last ELSE text]]
  /\ UNCHANGED <<flush, shown>>

Copy(r) == [run |-> r, text |-> draft[r].text, completed |-> draft[r].completed]

FlushDrafts ==
  LET dirty == {r \in DraftRuns : draft[r].dirty} IN
  /\ flush.pc = "idle" /\ dirty # {}
  /\ flush' = [pc |-> "send", todo |-> {Copy(r) : r \in dirty}]
  /\ UNCHANGED <<draft, shown, stream>>

\* An error ends the pass; what was not shown stays dirty.
SendMessageDraft ==
  /\ flush.pc = "send"
  /\ \/ flush' = NotFlushing /\ UNCHANGED shown
     \/ \E c \in flush.todo :
          /\ shown' = [shown EXCEPT ![c.run] = c.text]
          /\ flush' = [pc |-> "shown", todo |-> flush.todo, copy |-> c]
  /\ UNCHANGED <<draft, stream>>

\* Mutant: the text is not compared with the copy.
MarkShownBlindly ==
  LET c == flush.copy IN
  /\ flush.pc = "shown"
  /\ draft' = [draft EXCEPT ![c.run] = IF c.completed THEN Absent ELSE [@ EXCEPT !.dirty = FALSE]]
  /\ flush' = IF flush.todo = {c} THEN NotFlushing ELSE [pc |-> "send", todo |-> flush.todo \ {c}]
  /\ UNCHANGED <<shown, stream>>

\* Under the lock again: only a draft whose text is still the one that was
\* shown is done with.
MarkShown ==
  LET c == flush.copy IN
  /\ flush.pc = "shown"
  /\ draft' = [draft EXCEPT ![c.run] =
       IF @.text # c.text THEN @
       ELSE IF c.completed THEN Absent ELSE [@ EXCEPT !.dirty = FALSE]]
  /\ flush' = IF flush.todo = {c} THEN NotFlushing ELSE [pc |-> "send", todo |-> flush.todo \ {c}]
  /\ UNCHANGED <<shown, stream>>

DraftsNext ==
  \/ \E r \in DraftRuns : TurnDelta(r) \/ TurnCompleted(r)
  \/ FlushDrafts \/ SendMessageDraft \/ MarkShown

DraftsSpec == DraftsInit /\ [][DraftsNext]_draftVars

-----------------------------------------------------------------------------

\* Every variable has its type.
DraftsTypeOK ==
  /\ draft \in [DraftRuns -> [text : Seq(Nat), dirty : BOOLEAN, completed : BOOLEAN]]
  /\ flush.pc \in {"idle", "send", "shown"}
  /\ flush.todo \subseteq [run : DraftRuns, text : Seq(Nat), completed : BOOLEAN]
  /\ shown \in [DraftRuns -> Seq(Nat)]

\* Whatever a run's turns record while a flush is under way, the text recorded
\* last is on the screen or will be copied by the next flush.
NoTextIsForgotten ==
  \A r \in DraftRuns :
    shown[r] # stream[r].last => draft[r].dirty /\ draft[r].text = stream[r].last
=============================================================================
