---------------------------- MODULE ZaloAccount ----------------------------
(***************************************************************************)
(* What is done with a personal Zalo account beside its listener            *)
(* (internal/connectors/zalopersonal): the login with a QR code from the     *)
(* command line, the inbox that a tool lists and marks, texts that go out    *)
(* in pieces, and the upload of a file, whose address comes as an event.     *)
(* Every call opens a session of its own with the credentials it loaded;     *)
(* a request may fail before the service does what it asks for, or after.    *)
(*                                                                         *)
(* A thread is a number, the order of its title. Bounds: FirstThreads,       *)
(* MaxAccountCalls, MaxMarks, Pieces (of 2000 bytes, maxTextChunkBytes).     *)
(***************************************************************************)
EXTENDS Naturals, Sequences, FiniteSets, Sorted

CONSTANTS Accounts, NoAccount, ChatThreads, GroupThreads, InboxLimits, FirstThreads,
          MaxAccountCalls, MaxMarks, Pieces

ASSUME ZaloAccountAssumption ==
  /\ NoAccount \notin Accounts /\ ChatThreads \subseteq Nat /\ GroupThreads \subseteq ChatThreads
  /\ DOMAIN FirstThreads \subseteq ChatThreads /\ IsFiniteSet(DOMAIN FirstThreads)
  /\ FirstThreads \in [DOMAIN FirstThreads -> Nat]
  /\ InboxLimits \subseteq Nat /\ {MaxAccountCalls, MaxMarks} \subseteq Nat /\ Pieces \in Nat \ {0}

VARIABLES
  stored,    \* the account of the stored credentials
  qr,        \* a login: its step, the phone's answer to the code
  marks,     \* at the service, per account: pairs of a thread and a mark
  summaries, \* connector_threads, per account: the time of a thread's last message
  inbox,     \* a listing that is being put together
  listed,    \* the answer to the last listing
  text,      \* a text that is being sent
  heard,     \* the pieces that the service has taken, in order
  upload,    \* an upload
  fileDone,  \* the file_done events that are on their way
  callbacks, \* uploadCallbacks: who waits for an event, and the address it brought
  posted,    \* the files that were sent: each with how it was uploaded and the address it was given
  accountCalls, marksMade

zaloAccountVars == <<stored, qr, marks, summaries, inbox, listed, text, heard, upload, fileDone,
                     callbacks, posted, accountCalls, marksMade>>

Marks == {"unread", "pinned", "hidden", "archived"}
AtRest == [at |-> "idle"]
NoList == [list |-> <<>>, of |-> NoAccount, exact |-> FALSE]

ZaloAccountInit ==
  /\ stored \in Accounts \cup {NoAccount}
  /\ qr = AtRest /\ inbox = AtRest /\ listed = NoList /\ text = AtRest /\ upload = AtRest
  /\ marks = [a \in Accounts |-> {}] /\ summaries = [a \in Accounts |-> FirstThreads]
  /\ heard = <<>> /\ fileDone = {} /\ callbacks = [f \in {} |-> 0] /\ posted = {}
  /\ accountCalls = 0 /\ marksMade = 0

AccountCall == accountCalls < MaxAccountCalls /\ accountCalls' = accountCalls + 1
NoAccountCall == UNCHANGED accountCalls

qrParts == <<marks, summaries, inbox, listed, text, heard, upload, fileDone, callbacks, posted, marksMade>>
listParts == <<stored, qr, marks, summaries, text, heard, upload, fileDone, callbacks, posted, marksMade>>
textParts == <<stored, qr, marks, inbox, listed, upload, fileDone, callbacks, posted, marksMade>>
uploadParts == <<stored, qr, marks, summaries, inbox, listed, text, heard, marksMade>>

-----------------------------------------------------------------------------
(* The login.                                                              *)

\* A code is generated, and its image written to a file.
LoginQR ==
  /\ qr = AtRest /\ AccountCall
  /\ qr' = [at |-> "scan", phone |-> "none", by |-> NoAccount]
  /\ UNCHANGED <<stored, qrParts>>

\* Whoever scans the code confirms or declines.
Phone ==
  /\ qr # AtRest
  /\ \/ qr.phone = "none" /\ \E a \in Accounts : qr' = [qr EXCEPT !.phone = "scanned", !.by = a]
     \/ qr.phone = "scanned" /\ \E p \in {"confirmed", "declined"} : qr' = [qr EXCEPT !.phone = p]
  /\ NoAccountCall /\ UNCHANGED <<stored, qrParts>>

qrWaitingScan ==
  /\ qr.at = "scan" /\ qr.phone # "none"
  /\ qr' = [qr EXCEPT !.at = "confirm"]
  /\ NoAccountCall /\ UNCHANGED <<stored, qrParts>>

\* Mutant: any answer to a code that was scanned will do.
qrWaitingAnswer ==
  /\ qr.at = "confirm" /\ qr.phone # "none"
  /\ qr' = [qr EXCEPT !.at = "session"]
  /\ NoAccountCall /\ UNCHANGED <<stored, qrParts>>

qrWaitingConfirm ==
  /\ qr.at = "confirm" /\ qr.phone = "confirmed"
  /\ qr' = [qr EXCEPT !.at = "session"]
  /\ NoAccountCall /\ UNCHANGED <<stored, qrParts>>

\* A request fails, the user declines, or 100 seconds have passed.
LoginFails ==
  /\ qr # AtRest
  /\ qr' = AtRest
  /\ NoAccountCall /\ UNCHANGED <<stored, qrParts>>

\* The session is opened once more with what was got, and this is stored.
SaveStoredCredentials ==
  /\ qr.at = "session"
  /\ stored' = qr.by /\ qr' = AtRest
  /\ NoAccountCall /\ UNCHANGED qrParts

ClearStoredCredentials ==
  /\ stored # NoAccount /\ AccountCall
  /\ stored' = NoAccount
  /\ UNCHANGED <<qr, qrParts>>

-----------------------------------------------------------------------------
(* The inbox.                                                              *)

\* Another answer than before, had it been asked for now.
Disturbed(c) == IF "quiet" \in DOMAIN c THEN [c EXCEPT !.quiet = FALSE] ELSE c

Mark(a, t, m, on) == marks' = [marks EXCEPT ![a] = IF on THEN @ \cup {<<t, m>>} ELSE @ \ {<<t, m>>}]

\* The user of the account marks a thread, in an app of the service.
MarkElsewhere ==
  /\ marksMade < MaxMarks /\ marksMade' = marksMade + 1
  /\ \E a \in Accounts, t \in ChatThreads, m \in {"unread", "pinned"}, on \in BOOLEAN : Mark(a, t, m, on)
  /\ inbox' = Disturbed(inbox)
  /\ NoAccountCall /\ UNCHANGED <<stored, qr, summaries, listed, text, heard, upload, fileDone, callbacks, posted>>

\* A tool marks one: the answer may be lost, and the tool told of an error.
CapabilityUpdateInbox ==
  /\ stored # NoAccount /\ AccountCall
  /\ \E t \in ChatThreads, m \in {"unread", "archived"}, on \in BOOLEAN : Mark(stored, t, m, on)
  /\ inbox' = Disturbed(inbox)
  /\ UNCHANGED <<stored, qr, summaries, listed, text, heard, upload, fileDone, callbacks, posted, marksMade>>

LastTime(a) == CHOOSE n \in {0} \cup {summaries[a][t] : t \in DOMAIN summaries[a]} :
               \A t \in DOMAIN summaries[a] : summaries[a][t] <= n
Newer(s, t, u) == s[t] > s[u] \/ (s[t] = s[u] /\ t < u)

\* List: the newest, 50 of them when no limit is given.
Recent(a, limit) ==
  LET s == summaries[a]
  IN  {t \in DOMAIN s : limit = 0 \/ Cardinality({u \in DOMAIN s : Newer(s, u, t)}) < limit}

\* The credentials are loaded for all of the call, then the recent threads.
ListInbox ==
  /\ inbox = AtRest /\ stored # NoAccount /\ AccountCall
  /\ \E limit \in InboxLimits, scope \in {"all", "groups"} :
       inbox' = [at |-> "friends", of |-> stored, limit |-> limit, scope |-> scope,
                 times |-> [t \in Recent(stored, limit) |-> summaries[stored][t]],
                 got |-> {}, from |-> {}, quiet |-> TRUE]
  /\ UNCHANGED <<listed, listParts>>

\* One request after the other; one that fails is the end of the call.
Fetched(at, next, got, from) ==
  /\ inbox.at = at
  /\ \/ inbox' = [inbox EXCEPT !.at = next, !.got = @ \cup got, !.from = @ \cup from]
     \/ inbox' = AtRest
  /\ NoAccountCall /\ UNCHANGED <<listed, listParts>>

\* What is marked, at the account whose session it is.
MarkedOf(a, m) == {p \in marks[a] : p[2] = m}

\* Mutant: the credentials are loaded again for the marks.
FetchFromStored(at, next, m) ==
  /\ stored # NoAccount
  /\ Fetched(at, next, MarkedOf(stored, m), {stored})

FetchMarks(at, next, m) == Fetched(at, next, MarkedOf(inbox.of, m), {inbox.of})

FetchFriends == Fetched("friends", "groups", {}, {})
FetchGroups == Fetched("groups", "unread", {}, {})
FetchUnreadMarks == FetchMarks("unread", "pinned", "unread")
FetchPinnedConversations == FetchMarks("pinned", "hidden", "pinned")
FetchHiddenConversations == FetchMarks("hidden", "archived", "hidden")
FetchArchivedConversations == FetchMarks("archived", "list", "archived")

UnreadIn(got, t) == <<t, "unread">> \in got

\* The unread threads, then the newest, then by title.
Precedes(times, got, t, u) ==
  LET time(x) == IF x \in DOMAIN times THEN times[x] ELSE 0
  IN  \/ UnreadIn(got, t) /\ ~UnreadIn(got, u)
      \/ /\ UnreadIn(got, t) = UnreadIn(got, u)
         /\ time(t) > time(u) \/ (time(t) = time(u) /\ t < u)

InboxOrder(set, times, got) == SortedBy(set, {d \in set \X set : Precedes(times, got, d[1], d[2])})

InScope(scope, t) == scope = "all" \/ t \in GroupThreads

\* The recent threads and those that are marked, by the order and up to the limit.
CapabilityListInbox ==
  /\ inbox.at = "list"
  /\ LET set == {t \in DOMAIN inbox.times \cup {p[1] : p \in inbox.got} : InScope(inbox.scope, t)}
         list == InboxOrder(set, inbox.times, inbox.got)
     IN  listed' = [list |-> IF inbox.limit = 0 \/ Len(list) <= inbox.limit THEN list
                             ELSE SubSeq(list, 1, inbox.limit),
                    of |-> inbox.of, from |-> inbox.from, limit |-> inbox.limit, scope |-> inbox.scope,
                    exact |-> inbox.quiet, times |-> summaries[inbox.of], got |-> marks[inbox.of]]
  /\ inbox' = AtRest
  /\ NoAccountCall /\ UNCHANGED listParts

-----------------------------------------------------------------------------
(* Texts.                                                                  *)

\* connector_threads after a message of a thread.
Upsert(a, t) ==
  /\ summaries' = [summaries EXCEPT ![a] =
       [u \in DOMAIN @ \cup {t} |-> IF u = t THEN LastTime(a) + 1 ELSE @[u]]]
  /\ inbox' = Disturbed(inbox)

\* A message comes in.
recordThreadActivity ==
  /\ stored # NoAccount /\ AccountCall
  /\ \E t \in ChatThreads : Upsert(stored, t)
  /\ UNCHANGED <<stored, qr, marks, listed, text, heard, upload, fileDone, callbacks, posted, marksMade>>

\* A tool's message: who is logged in is looked at twice.
CapabilitySend ==
  /\ text.at \in {"idle", "sent", "failed"} /\ stored # NoAccount /\ AccountCall
  /\ \E t \in ChatThreads : text' = [at |-> "load", to |-> t, piece |-> 1, of |-> NoAccount, nr |-> accountCalls]
  /\ UNCHANGED <<summaries, heard, textParts>>

\* It is cut into pieces.
SendText ==
  /\ text.at = "load"
  /\ text' = IF stored = NoAccount THEN [text EXCEPT !.at = "failed"]
             ELSE [text EXCEPT !.at = "send", !.of = stored]
  /\ NoAccountCall /\ UNCHANGED <<summaries, heard, textParts>>

\* Mutant: a piece that fails is left out.
SendAnyway ==
  /\ text.at = "send"
  /\ heard' \in {heard, Append(heard, [nr |-> text.nr, piece |-> text.piece, of |-> text.of])}
  /\ text' = IF text.piece = Pieces THEN [text EXCEPT !.at = "note"] ELSE [text EXCEPT !.piece = @ + 1]
  /\ NoAccountCall /\ UNCHANGED <<summaries, textParts>>

\* One piece, in a session of its own. An error ends the call, though the
\* service may have taken the piece.
SendMessage ==
  /\ text.at = "send"
  /\ LET taken == Append(heard, [nr |-> text.nr, piece |-> text.piece, of |-> text.of])
     IN  \/ /\ heard' = taken
            /\ text' = IF text.piece = Pieces THEN [text EXCEPT !.at = "note"]
                       ELSE [text EXCEPT !.piece = @ + 1]
         \/ heard' \in {heard, taken} /\ text' = [text EXCEPT !.at = "failed"]
  /\ NoAccountCall /\ UNCHANGED <<summaries, textParts>>

NoteSent ==
  /\ text.at = "note"
  /\ text' = [text EXCEPT !.at = "sent"] /\ Upsert(text.of, text.to)
  /\ NoAccountCall /\ UNCHANGED <<stored, qr, marks, listed, heard, upload, fileDone, callbacks, posted, marksMade>>

-----------------------------------------------------------------------------
(* Files and images.                                                       *)

\* The response to an image has its address, that to a file its number; the
\* file_done event may come before the response.
UploadImage ==
  /\ upload = AtRest /\ AccountCall
  /\ upload' = [at |-> "ready", kind |-> "image", file |-> accountCalls + 1, url |-> accountCalls + 1]
  /\ UNCHANGED <<fileDone, callbacks, posted, uploadParts>>

UploadFile ==
  /\ upload = AtRest /\ AccountCall
  /\ upload' = [at |-> "asked", kind |-> "file", file |-> accountCalls + 1, url |-> 0]
  /\ fileDone' = fileDone \cup {accountCalls + 1}
  /\ UNCHANGED <<callbacks, posted, uploadParts>>

RegisterUploadCallback ==
  /\ upload.at = "asked"
  /\ upload' = [upload EXCEPT !.at = "waiting"]
  /\ callbacks' = [f \in DOMAIN callbacks \cup {upload.file} |->
                     IF f = upload.file THEN [state |-> "open", url |-> 0] ELSE callbacks[f]]
  /\ NoAccountCall /\ UNCHANGED <<fileDone, posted, uploadParts>>

CallbackOpen(f) == f \in DOMAIN callbacks /\ callbacks[f].state = "open"

\* Mutant: the event is given to whoever waits.
handleAnyEvents(f) ==
  callbacks' = [g \in DOMAIN callbacks |->
                  IF callbacks[g].state = "open" THEN [state |-> "taken", url |-> f] ELSE callbacks[g]]

\* An event that nobody waits for, or not yet, is dropped.
handleControlEvents(f) ==
  callbacks' = [g \in DOMAIN callbacks |->
                  IF g = f /\ CallbackOpen(f) THEN [state |-> "taken", url |-> f] ELSE callbacks[g]]

FileDone ==
  /\ \E f \in fileDone : handleControlEvents(f) /\ fileDone' = fileDone \ {f}
  /\ NoAccountCall /\ UNCHANGED <<upload, posted, uploadParts>>

CancelUploadCallback(f) == callbacks' = [g \in DOMAIN callbacks \ {f} |-> callbacks[g]]

\* The channel has the address; or 30 seconds pass, and CancelUploadCallback forgets it.
UploadEnds ==
  /\ upload.at = "waiting" /\ CancelUploadCallback(upload.file)
  /\ \/ ~CallbackOpen(upload.file) /\ upload' = [upload EXCEPT !.at = "ready", !.url = callbacks[upload.file].url]
     \/ upload' = AtRest
  /\ NoAccountCall /\ UNCHANGED <<fileDone, posted, uploadParts>>

\* The response had no number, or the caller has no listener to wait at: the
\* file is uploaded, and its address is not known.
UploadUnawaited ==
  /\ upload.at = "asked" /\ upload' = [upload EXCEPT !.at = "ready", !.kind = "bare"]
  /\ NoAccountCall /\ UNCHANGED <<fileDone, callbacks, posted, uploadParts>>

UploadFails ==
  /\ upload.at = "asked" /\ upload' = AtRest
  /\ NoAccountCall /\ UNCHANGED <<fileDone, callbacks, posted, uploadParts>>

\* The message with the file, or with the image and its caption.
Post(kinds) ==
  /\ upload.at = "ready" /\ upload.kind \in kinds
  /\ upload' = AtRest
  /\ posted' \in {posted, posted \cup {[kind |-> upload.kind, file |-> upload.file, url |-> upload.url]}}
  /\ NoAccountCall /\ UNCHANGED <<fileDone, callbacks, uploadParts>>
SendFile == Post({"file", "bare"})
SendImage == Post({"image"})

ZaloAccountNext ==
  \/ LoginQR \/ Phone \/ qrWaitingScan \/ qrWaitingConfirm \/ LoginFails \/ SaveStoredCredentials
  \/ ClearStoredCredentials
  \/ MarkElsewhere \/ CapabilityUpdateInbox \/ ListInbox \/ FetchFriends \/ FetchGroups
  \/ FetchUnreadMarks \/ FetchPinnedConversations \/ FetchHiddenConversations
  \/ FetchArchivedConversations \/ CapabilityListInbox
  \/ recordThreadActivity \/ CapabilitySend \/ SendText \/ SendMessage \/ NoteSent
  \/ UploadImage \/ UploadFile \/ RegisterUploadCallback \/ FileDone \/ UploadEnds \/ UploadUnawaited
  \/ UploadFails \/ SendFile \/ SendImage

ZaloAccountSpec == ZaloAccountInit /\ [][ZaloAccountNext]_zaloAccountVars

-----------------------------------------------------------------------------

\* Every call is somewhere; only an upload that waits has a callback.
ZaloAccountTypeOK ==
  /\ stored \in Accounts \cup {NoAccount}
  /\ qr.at \in {"idle", "scan", "confirm", "session"}
  /\ text.at \in {"idle", "load", "send", "note", "sent", "failed"}
  /\ DOMAIN callbacks = IF upload.at = "waiting" THEN {upload.file} ELSE {}
  /\ accountCalls \in 0..MaxAccountCalls /\ marksMade \in 0..MaxMarks

\* A listing is all of one account, whoever logs in or out while its requests
\* are made. One that nothing changed under has each thread that is recent or
\* marked once, the unread before the others, and the newest first.
InboxIsExact ==
  listed.of # NoAccount =>
    /\ listed.from = {listed.of}
    /\ listed.exact /\ listed.limit = 0 =>
         LET all == DOMAIN listed.times \cup {p[1] : p \in listed.got}
         IN  listed.list = InboxOrder({t \in all : InScope(listed.scope, t)}, listed.times, listed.got)

\* However small its limit, a listing leaves no unread thread out for one that
\* is read, and none at all while it has room.
UnreadComesFirst ==
  listed.of # NoAccount /\ listed.exact =>
    LET shown == {listed.list[i] : i \in DOMAIN listed.list}
        missing == {p[1] : p \in {q \in listed.got : q[2] = "unread"}} \ shown
    IN  (\E t \in missing : InScope(listed.scope, t)) =>
          Len(listed.list) = listed.limit /\ \A t \in shown : UnreadIn(listed.got, t)

\* Of a text the service gets the pieces in order, each once, from one account,
\* and all of them when the call says that it was sent.
TextsGoOutWhole ==
  LET mine == {i \in DOMAIN heard : text # AtRest /\ heard[i].nr = text.nr}
  IN  /\ \A i \in mine : heard[i].of = text.of
      /\ \A i, j \in mine : i < j => heard[i].piece < heard[j].piece
      /\ \E n \in 0..Pieces :
           /\ {heard[i].piece : i \in mine} = 1..n
           /\ text.at \in {"note", "sent"} => n = Pieces

\* A file goes out with its own address, or with none when nobody waited for it.
FilesHaveTheirAddress == \A p \in posted : p.url = IF p.kind = "bare" THEN 0 ELSE p.file

\* Who is logged in has confirmed it (LoginQR).
LoginsAreConfirmed ==
  [][stored' # stored /\ stored' # NoAccount => qr.phone = "confirmed" /\ stored' = qr.by]_zaloAccountVars
=============================================================================
