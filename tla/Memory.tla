------------------------------- MODULE Memory -------------------------------
(***************************************************************************)
(* What the team remembers under one key of one project. A run that starts *)
(* may promote a fact (PromoteCandidate): it looks the key up, checks the   *)
(* row's source once more and then writes, each in a statement of its own,  *)
(* beside the other runs and beside the operator, who edits and forgets.    *)
(*                                                                         *)
(* Bounds: Promoters, MaxFacts rows, MaxEdits by the operator.              *)
(***************************************************************************)
EXTENDS Naturals, Sequences

CONSTANTS Promoters, MaxFacts, MaxEdits

ASSUME MemoryAssumption == MaxFacts \in Nat \ {0} /\ MaxEdits \in Nat

VARIABLES
  facts,     \* the rows: who wrote the content, the source column, forgotten
  promoter,  \* per run: how far it is, the row it found
  promoted,  \* the memory_promoted events: the row and the run
  edits      \* the operator's steps so far

memoryVars == <<facts, promoter, promoted, edits>>

FactRows == DOMAIN facts
NotFound == 0
Waiting == [pc |-> "idle", row |-> NotFound]

MemoryInit ==
  /\ facts = <<>>
  /\ promoter = [p \in Promoters |-> Waiting]
  /\ promoted = {} /\ edits = 0

\* SearchPage, Filter, GetByID, getByDedupeKey: what is not forgotten.
Listed == {f \in FactRows : ~facts[f].forgotten}

-----------------------------------------------------------------------------
(* PromoteCandidate.                                                       *)

\* Mutant: forgotten rows are found as well.
FoundAny == FactRows

Found == Listed

\* getByDedupeKey. What the operator wrote is left alone at once, as found.
LookUp(p) ==
  /\ promoter[p].pc = "idle"
  /\ \/ /\ Found = {} /\ promoter' = [promoter EXCEPT ![p].pc = "write"]
     \/ \E f \in Found : promoter' = [promoter EXCEPT ![p] =
          [pc |-> IF facts[f].human THEN "done" ELSE "check", row |-> f]]
  /\ UNCHANGED <<facts, promoted, edits>>

\* WriteFact.
WriteFact(p) ==
  /\ promoter[p].pc = "write" /\ Len(facts) < MaxFacts
  /\ facts' = Append(facts, [by |-> p, human |-> FALSE, forgotten |-> FALSE])
  /\ promoter' = [promoter EXCEPT ![p].pc = "journal", ![p].row = Len(facts')]
  /\ UNCHANGED <<promoted, edits>>

\* Mutant: the source is not asked for again.
CheckNothing(p) ==
  /\ promoter[p].pc = "check"
  /\ promoter' = [promoter EXCEPT ![p].pc = "update"]
  /\ UNCHANGED <<facts, promoted, edits>>

\* UpdateFact, first statement.
CheckSource(p) ==
  /\ promoter[p].pc = "check"
  /\ promoter' = [promoter EXCEPT
       ![p].pc = IF facts[promoter[p].row].human THEN "journal" ELSE "update"]
  /\ UNCHANGED <<facts, promoted, edits>>

\* UpdateFact, second statement: by ID, whatever the row has become.
UpdateFact(p) ==
  /\ promoter[p].pc = "update"
  /\ facts' = [facts EXCEPT ![promoter[p].row].by = p, ![promoter[p].row].human = FALSE]
  /\ promoter' = [promoter EXCEPT ![p].pc = "journal"]
  /\ UNCHANGED <<promoted, edits>>

\* The event, or it fails and the run's start with it.
JournalPromotion(p) ==
  /\ promoter[p].pc = "journal"
  /\ promoter' = [promoter EXCEPT ![p] = [Waiting EXCEPT !.pc = "done"]]
  /\ promoted' \in {promoted, promoted \cup {<<promoter[p].row, p>>}}
  /\ UNCHANGED <<facts, edits>>

\* The next run of the kind.
PromoteAgain(p) ==
  /\ promoter[p].pc = "done"
  /\ promoter' = [promoter EXCEPT ![p] = Waiting]
  /\ UNCHANGED <<facts, promoted, edits>>

-----------------------------------------------------------------------------
(* The operator.                                                           *)

\* Mutant: an edit is stored as the model's.
EditAsModel(f) == [facts EXCEPT ![f].by = "operator"]

Edited(f) == [facts EXCEPT ![f].by = "operator", ![f].human = TRUE]

\* Edit: of a row on a page that may be old.
Edit(f) ==
  /\ edits < MaxEdits /\ edits' = edits + 1
  /\ facts' = Edited(f)
  /\ UNCHANGED <<promoter, promoted>>

Forget(f) ==
  /\ edits < MaxEdits /\ edits' = edits + 1
  /\ facts' = [facts EXCEPT ![f].forgotten = TRUE]
  /\ UNCHANGED <<promoter, promoted>>

-----------------------------------------------------------------------------

MemoryNext ==
  \/ \E p \in Promoters :
       \/ LookUp(p) \/ WriteFact(p) \/ CheckSource(p) \/ UpdateFact(p)
       \/ JournalPromotion(p) \/ PromoteAgain(p)
  \/ \E f \in FactRows : Edit(f) \/ Forget(f)

MemorySpec == MemoryInit /\ [][MemoryNext]_memoryVars

-----------------------------------------------------------------------------
(* Properties.                                                             *)

\* Every variable has its type; a run that updates or journals has its row.
MemoryTypeOK ==
  /\ facts \in Seq([by : Promoters \cup {"operator"}, human : BOOLEAN, forgotten : BOOLEAN])
  /\ Len(facts) <= MaxFacts /\ edits \in 0..MaxEdits
  /\ \A p \in Promoters :
       /\ promoter[p] \in [pc : {"idle", "check", "write", "update", "journal", "done"},
                           row : 0..MaxFacts]
       /\ promoter[p].pc \in {"check", "update", "journal"} => promoter[p].row \in FactRows
  /\ promoted \subseteq FactRows \X Promoters

\* The comment of Edit: an edit of the operator is never overwritten by a run.
\* The check and the write of UpdateFact are two statements, so it can be.
HumanEditsArePermanent ==
  [][\A f \in FactRows : facts[f].human => facts'[f].human]_memoryVars

Settled(f) ==
  facts[f].human /\ \A p \in Promoters : promoter[p].pc = "update" => promoter[p].row # f

\* Once no run stands between its check and its write, an edit is permanent:
\* whatever runs start later, they see whose it is (UpdateFact's check).
SettledEditsArePermanent == [][\A f \in FactRows : Settled(f) => Settled(f)']_memoryVars

\* A fact that was forgotten is left alone by the runs that start later: they
\* remember it anew, in a row of its own.
ForgottenIsLeftAlone ==
  [][\A p \in Promoters : promoter[p].pc = "idle" /\ promoter'[p].pc = "check" =>
       ~facts[promoter'[p].row].forgotten]_memoryVars
=============================================================================
