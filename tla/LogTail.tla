------------------------------- MODULE LogTail ------------------------------
(***************************************************************************)
(* The log page. Every line of the process's log goes through the sink,     *)
(* which numbers it, keeps the newest MaxEntries and offers it, under its   *)
(* lock, to the subscribers whose query it matches; a full channel loses    *)
(* it. A page takes a snapshot (a request of its own), subscribes with the  *)
(* same query (another one), and shows the newest Limit entries of both; it *)
(* may pause and resume, and the browser reconnects by itself.              *)
(*                                                                         *)
(* Bounds: MaxLines; MaxEntries (500), Limit (200), TailSize (16) are small.*)
(***************************************************************************)
EXTENDS Naturals, Sequences, SequencesExt, Sorted

CONSTANTS MaxLines, MaxEntries, Limit, TailSize

ASSUME LogTailAssumption ==
  MaxLines \in Nat /\ MaxEntries \in Nat \ {0} /\ Limit \in Nat \ {0} /\ TailSize \in Nat \ {0}

VARIABLES
  lines,    \* the levels of all lines ever logged: a line's ID is its index
  entries,  \* the sink's window, as IDs
  viewer,   \* [pc, query, shown, since]: since is the newest ID at the subscription
  tail,     \* the subscription's channel
  spilled   \* the IDs this subscription had no room for

logTailVars == <<lines, entries, viewer, tail, spilled>>

LogTailInit ==
  /\ lines = <<>> /\ entries = <<>> /\ tail = <<>> /\ spilled = {}
  /\ viewer \in [pc : {"closed"}, query : {"all", "error"}, shown : {<<>>}, since : {0}]

LogMatches(id, log) == viewer.query \in {"all", log[id]}

\* Mutant: the window is cut one too late.
NewestAndOneMore(seq, n) ==
  IF Len(seq) > n THEN SubSeq(seq, Len(seq) - n, Len(seq)) ELSE seq

Newest(seq, n) == IF Len(seq) > n THEN SubSeq(seq, Len(seq) - n + 1, Len(seq)) ELSE seq

-----------------------------------------------------------------------------
(* The sink.                                                               *)

\* Mutant: a full channel loses its oldest entry.
OfferDroppingOldest(id) ==
  /\ tail' = Append(IF Len(tail) < TailSize THEN tail ELSE Tail(tail), id)
  /\ UNCHANGED spilled

Offer(id) ==
  \/ Len(tail) < TailSize /\ tail' = Append(tail, id) /\ UNCHANGED spilled
  \/ Len(tail) = TailSize /\ spilled' = spilled \cup {id} /\ UNCHANGED tail

\* Write and Append: appendLocked, under the lock.
LogLine ==
  /\ Len(lines) < MaxLines
  /\ \E level \in {"info", "error"} : lines' = Append(lines, level)
  /\ entries' = Newest(Append(entries, Len(lines')), MaxEntries)
  /\ IF viewer.pc = "following" /\ LogMatches(Len(lines'), lines')
     THEN Offer(Len(lines'))
     ELSE UNCHANGED <<tail, spilled>>
  /\ UNCHANGED viewer

-----------------------------------------------------------------------------
(* The page.                                                               *)

\* filterEntries: what matches, in the order of the window.
FilterEntries ==
  Picked(entries, {i \in DOMAIN entries : LogMatches(entries[i], lines)})

\* handleLogsIndex: the snapshot, filtered and cut to the limit.
LoadLogs ==
  /\ viewer.pc = "closed"
  /\ viewer' = [viewer EXCEPT !.pc = "loaded",
                  !.shown = Newest(FilterEntries, Limit)]
  /\ UNCHANGED <<lines, entries, tail, spilled>>

\* Mutant: the stream replays the window to a new subscriber.
SendWindow == entries

FirstTail == <<>>

\* handleLogsStream.
Follow ==
  /\ viewer.pc = "loaded"
  /\ viewer' = [viewer EXCEPT !.pc = "following", !.since = Len(lines)]
  /\ tail' = FirstTail /\ spilled' = {}
  /\ UNCHANGED <<lines, entries>>

ShowEntry ==
  /\ viewer.pc = "following" /\ tail # <<>>
  /\ viewer' = [viewer EXCEPT !.shown = Newest(Append(@, Head(tail)), Limit)]
  /\ tail' = Tail(tail)
  /\ UNCHANGED <<lines, entries, spilled>>

\* Paused, or reconnecting: what is shown stays.
Unfollow ==
  /\ viewer.pc = "following"
  /\ viewer' = [viewer EXCEPT !.pc = "loaded"]
  /\ tail' = <<>> /\ spilled' = {}
  /\ UNCHANGED <<lines, entries>>

LogTailNext == LogLine \/ LoadLogs \/ Follow \/ ShowEntry \/ Unfollow

LogTailSpec == LogTailInit /\ [][LogTailNext]_logTailVars

-----------------------------------------------------------------------------
(* Properties.                                                             *)

\* Every variable has its type; window, page and channel keep their sizes.
LogTailTypeOK ==
  /\ lines \in Seq({"info", "error"})
  /\ viewer.pc \in {"closed", "loaded", "following"}
  /\ ToSet(entries) \cup ToSet(viewer.shown) \cup ToSet(tail) \cup spilled \subseteq DOMAIN lines
  /\ Len(entries) <= MaxEntries /\ Len(viewer.shown) <= Limit /\ Len(tail) <= TailSize

Increasing(seq) == \A i, j \in 1..Len(seq) : i < j => seq[i] < seq[j]

\* The page shows no line twice and none out of order, also across pauses,
\* reconnections and the seam between snapshot and stream.
TailInOrder == Increasing(viewer.shown \o tail)

\* While a page follows, a line that matches is shown, or is in the channel, or
\* did not fit into it, or had to make room for newer ones on the page.
TailHasNoHoles ==
  viewer.pc = "following" =>
    \A id \in DOMAIN lines : id > viewer.since /\ LogMatches(id, lines) =>
      \/ id \in ToSet(viewer.shown) \cup ToSet(tail) \cup spilled
      \/ Len(viewer.shown) = Limit /\ id < viewer.shown[1]
=============================================================================
