---------------------------- MODULE ZaloSession -----------------------------
(***************************************************************************)
(* The Zalo connector: the loop of Connector.Start (credentials, login, one*)
(* Drain, a session), the reader goroutine of the protocol's listener with *)
(* its own reconnects, the pump between the two, and the service at the    *)
(* other end of the socket. Messages pass through two bounded buffers; the *)
(* listener's drops its oldest when it is full. Stop runs in the loop's    *)
(* goroutine while the reader may be anywhere, dialling included: connect  *)
(* writes the listener's client without its lock.                          *)
(*                                                                         *)
(* Bounds: MaxMessages, BufferSize (64 in the code), MaxRetries of one     *)
(* close code, Endpoints, MaxFailures of the network, the service and the store. *)
(***************************************************************************)
EXTENDS Naturals, Sequences

CONSTANTS MaxMessages, BufferSize, MaxRetries, Endpoints, MaxFailures

ASSUME ZaloAssumption ==
  /\ MaxMessages \in Nat /\ MaxRetries \in Nat /\ MaxFailures \in Nat
  /\ BufferSize \in Nat \ {0} /\ Endpoints \in Nat \ {0}

VARIABLES
  session,   \* the connector's loop: [pc, cur]
  zaloHealth,    \* HealthState
  listener,  \* the protocol's Listener of the present session
  reader,    \* its goroutine run
  sockets,   \* the open connections
  buffered,  \* messages in the listener's channel
  hand,      \* the message the pump holds, or none
  adapted,   \* messages in the adapter's channel
  notices,   \* per channel of the listener and of the adapter: an event waits
  sent,   \* how many messages the service has sent
  last,      \* the last message the connector dispatched
  failures   \* failures left

zaloVars == <<session, zaloHealth, listener, reader, sockets, buffered, hand,
              adapted, notices, sent, last, failures>>
buffers == <<buffered, hand, adapted>>

NoSocket == 0
Sockets == 1..(MaxFailures + 2)
Quiet == [error |-> FALSE, adapterError |-> FALSE, down |-> FALSE, adapterDown |-> FALSE]
NewListener == [client |-> NoSocket, key |-> FALSE, ping |-> NoSocket, retries |-> 0,
                rotated |-> 0, stable |-> FALSE, cancelled |-> FALSE, grabbed |-> NoSocket]

ZaloInit ==
  /\ session = [pc |-> "load", cur |-> 0]
  /\ zaloHealth = "unknown"
  /\ listener = NewListener
  /\ reader = [pc |-> "none", socket |-> NoSocket, pump |-> FALSE]
  /\ sockets = {}
  /\ buffered = <<>> /\ hand = <<>> /\ adapted = <<>>
  /\ notices = Quiet
  /\ sent = 0 /\ last = 0
  /\ failures = MaxFailures

Fails == failures > 0 /\ failures' = failures - 1
FreshSocket == CHOOSE s \in Sockets : s \notin sockets \cup {listener.ping}
Go(pc) == session' = [session EXCEPT !.pc = pc]

-----------------------------------------------------------------------------
(* The loop, up to a session.                                              *)

\* LoadStoredCredentials: they are there, they are not (somebody logs out and
\* in again), or the store fails. A call that times out looks like the end of the
\* connector's own context: Start returns ctx.Err(), which is nil, here and below.
LoadCredentials ==
  /\ session.pc = "load"
  /\ \/ Go("login") /\ UNCHANGED <<zaloHealth, failures>>
     \/ Go("sleep") /\ zaloHealth' = "degraded" /\ Fails
     \/ Go("returned") /\ UNCHANGED zaloHealth /\ Fails
  /\ UNCHANGED <<listener, reader, sockets, buffers, notices, sent, last>>

Login ==
  /\ session.pc = "login"
  /\ \/ Go("drain") /\ UNCHANGED <<zaloHealth, failures>>
     \/ Go("sleep") /\ zaloHealth' = "degraded" /\ Fails
     \/ Go("returned") /\ UNCHANGED zaloHealth /\ Fails
  /\ UNCHANGED <<listener, reader, sockets, buffers, notices, sent, last>>

DrainOnce ==
  /\ session.pc = "drain"
  /\ \/ Go("open") /\ UNCHANGED <<zaloHealth, failures>>
     \/ Go("open") /\ zaloHealth' = "degraded" /\ Fails
     \/ Go("returned") /\ UNCHANGED zaloHealth /\ Fails
  /\ UNCHANGED <<listener, reader, sockets, buffers, notices, sent, last>>

\* newListener, its Start with the first connect, the pump, markConnected.
StartSession ==
  /\ session.pc = "open"
  /\ buffered' = <<>> /\ hand' = <<>> /\ adapted' = <<>> /\ notices' = Quiet
  /\ \/ /\ listener' = [NewListener EXCEPT !.client = FreshSocket]
        /\ sockets' = sockets \cup {FreshSocket}
        /\ reader' = [pc |-> "top", socket |-> NoSocket, pump |-> TRUE]
        /\ Go("serve") /\ zaloHealth' = "healthy" /\ UNCHANGED failures
     \/ /\ listener' = NewListener
        /\ \/ Go("sleep") /\ zaloHealth' = "degraded"
           \/ Go("returned") /\ UNCHANGED zaloHealth
        /\ Fails /\ UNCHANGED <<sockets, reader>>
  /\ UNCHANGED <<sent, last>>

\* The context may end meanwhile.
Sleep ==
  /\ session.pc = "sleep"
  /\ \/ Go("load") /\ UNCHANGED failures
     \/ Go("returned") /\ Fails
  /\ UNCHANGED <<zaloHealth, listener, reader, sockets, buffers, notices, sent, last>>

\* The supervisor restarts a connector whose Start returned.
StartAgain ==
  /\ session.pc = "returned" /\ Go("load")
  /\ UNCHANGED <<zaloHealth, listener, reader, sockets, buffers, notices, sent, last, failures>>

-----------------------------------------------------------------------------
(* runListener.                                                            *)

TakeMessage ==
  /\ session.pc = "serve" /\ adapted # <<>>
  /\ session' = [pc |-> "dispatch", cur |-> Head(adapted)]
  /\ adapted' = Tail(adapted)
  /\ UNCHANGED <<zaloHealth, listener, reader, sockets, buffered, hand, notices, sent, last, failures>>

\* Dispatch is synchronous. An error, a busy conversation among them, ends the
\* session, a timeout without a word; the message is not tried again.
Dispatch ==
  /\ session.pc = "dispatch"
  /\ last' = session.cur
  /\ \/ session' = [pc |-> "serve", cur |-> 0] /\ UNCHANGED <<zaloHealth, failures>>
     \/ session' = [pc |-> "stop", cur |-> 0] /\ zaloHealth' \in {zaloHealth, "degraded"} /\ Fails
  /\ UNCHANGED <<listener, reader, sockets, buffers, notices, sent>>

NoteError ==
  /\ session.pc = "serve" /\ notices.adapterError
  /\ notices' = [notices EXCEPT !.adapterError = FALSE]
  /\ zaloHealth' = "degraded"
  /\ UNCHANGED <<session, listener, reader, sockets, buffers, sent, last, failures>>

NoteDisconnect ==
  /\ session.pc = "serve" /\ notices.adapterDown
  /\ notices' = [notices EXCEPT !.adapterDown = FALSE]
  /\ zaloHealth' = "degraded" /\ Go("stop")
  /\ UNCHANGED <<listener, reader, sockets, buffers, sent, last, failures>>

\* The supervisor cancels the context of a connector, or the daemon stops: while
\* a message is dispatched, or not. Before a session the calls fail for it, and
\* the sleep ends.
Cancel ==
  /\ session.pc \in {"serve", "dispatch"} /\ ~listener.cancelled /\ Fails
  /\ listener' = [listener EXCEPT !.cancelled = TRUE]
  /\ UNCHANGED <<session, zaloHealth, reader, sockets, buffers, notices, sent, last>>

\* The loop sees it, maybe after some of what waits beside it.
SeeCancelled ==
  /\ session.pc = "serve" /\ listener.cancelled /\ Go("stop")
  /\ UNCHANGED <<zaloHealth, listener, reader, sockets, buffers, notices, sent, last, failures>>

-----------------------------------------------------------------------------
(* Stop, step by step.                                                     *)

\* Under the lock: the client is taken, and nobody else may use it.
StopTakesClient ==
  /\ session.pc = "stop" /\ Go("close")
  /\ listener' = [listener EXCEPT !.client = NoSocket, !.ping = NoSocket,
                                  !.grabbed = listener.client]
  /\ reader' = [reader EXCEPT !.pump = FALSE]
  /\ UNCHANGED <<zaloHealth, sockets, buffers, notices, sent, last, failures>>

StopCloses ==
  /\ session.pc = "close" /\ Go("wait")
  /\ listener' = [listener EXCEPT !.cancelled = TRUE, !.grabbed = NoSocket]
  /\ sockets' = sockets \ {listener.grabbed}
  /\ UNCHANGED <<zaloHealth, reader, buffers, notices, sent, last, failures>>

\* Mutant: Stop does not wait for the reader.
StopHurries ==
  /\ session.pc = "wait" /\ Go("sleep")
  /\ UNCHANGED <<zaloHealth, listener, reader, sockets, buffers, notices, sent, last, failures>>

\* Then the loop sleeps, or Start returns and is started again.
StopWaits ==
  /\ session.pc = "wait" /\ reader.pc = "none" /\ Go("sleep")
  /\ UNCHANGED <<zaloHealth, listener, reader, sockets, buffers, notices, sent, last, failures>>

-----------------------------------------------------------------------------
(* The pump. It takes from the three channels in any order, waits for room *)
(* for a message, and drops an event for which there is no room.           *)

PumpTakes ==
  /\ reader.pump /\ hand = <<>> /\ buffered # <<>>
  /\ hand' = <<Head(buffered)>> /\ buffered' = Tail(buffered)
  /\ UNCHANGED <<session, zaloHealth, listener, reader, sockets, adapted, notices, sent, last, failures>>

PumpGives ==
  /\ reader.pump /\ hand # <<>> /\ Len(adapted) < BufferSize
  /\ adapted' = adapted \o hand /\ hand' = <<>>
  /\ UNCHANGED <<session, zaloHealth, listener, reader, sockets, buffered, notices, sent, last, failures>>

PumpNotices ==
  /\ reader.pump /\ hand = <<>>
  /\ \/ /\ notices.error
        /\ notices' = [notices EXCEPT !.error = FALSE, !.adapterError = TRUE]
     \/ /\ notices.down
        /\ notices' = [notices EXCEPT !.down = FALSE, !.adapterDown = TRUE]
  /\ UNCHANGED <<session, zaloHealth, listener, reader, sockets, buffers, sent, last, failures>>

-----------------------------------------------------------------------------
(* The reader.                                                             *)

\* The loop of run: it ends when its context is done or Stop took the client.
\* The read itself does not look at the context.
ReadNext ==
  /\ reader.pc = "top"
  /\ reader' = IF listener.cancelled \/ listener.client = NoSocket
               THEN [reader EXCEPT !.pc = "none"]
               ELSE [reader EXCEPT !.pc = "read", !.socket = listener.client]
  /\ UNCHANGED <<session, zaloHealth, listener, sockets, buffers, notices, sent, last, failures>>

Reading == reader.pc = "read" /\ reader.socket \in sockets /\ ~listener.cancelled
BackToTop == reader' = [reader EXCEPT !.pc = "top", !.socket = NoSocket]

\* Mutant: the newest is put in front.
EmitInFront(seq, m) == IF Len(seq) < BufferSize THEN <<m>> \o seq ELSE <<m>> \o Tail(seq)

\* emit: the oldest makes room.
Emit(seq, m) == IF Len(seq) < BufferSize THEN Append(seq, m) ELSE Append(Tail(seq), m)

\* A frame with the next message. Without the key it cannot be read.
ReceiveMessage ==
  /\ Reading /\ BackToTop /\ sent < MaxMessages
  /\ sent' = sent + 1
  /\ IF listener.key
     THEN buffered' = Emit(buffered, sent') /\ UNCHANGED notices
     ELSE notices' = [notices EXCEPT !.error = TRUE] /\ UNCHANGED buffered
  /\ UNCHANGED <<session, zaloHealth, listener, sockets, hand, adapted, last, failures>>

\* The frame with the key; the first one of a connection starts the pings.
ReceiveKey ==
  /\ Reading /\ BackToTop /\ ~listener.key
  /\ listener' = [listener EXCEPT !.key = TRUE,
                    !.ping = IF @ = NoSocket THEN listener.client ELSE @]
  /\ UNCHANGED <<session, zaloHealth, sockets, buffers, notices, sent, last, failures>>

\* The connection has lasted longer than stableThreshold.
BecomeStable ==
  /\ Reading /\ ~listener.stable
  /\ listener' = [listener EXCEPT !.stable = TRUE]
  /\ UNCHANGED <<session, zaloHealth, reader, sockets, buffers, notices, sent, last, failures>>

\* Mutant: the pings of the old connection are not forgotten.
ResetKeepingPings == [listener EXCEPT !.client = NoSocket, !.key = FALSE, !.stable = FALSE]

ResetAfterDisconnect ==
  [listener EXCEPT !.client = NoSocket, !.key = FALSE, !.stable = FALSE, !.ping = NoSocket]

\* Mutant: the counters are never compared.
CanRetryAlways(retries) == TRUE

CanRetry(retries) == retries < MaxRetries

\* Mutant: a connection that is given up is not an error.
ReportNothing == notices

\* The error channel's event; the other one follows when the reader gives up.
ReportError == [notices EXCEPT !.error = TRUE]

\* Reading fails, or the service says that another session took over. The
\* listener dials again if the close code has retries left; a connection that
\* was stable starts counting anew.
HandleDisconnect ==
  LET reset == ResetAfterDisconnect
      kept == IF listener.stable THEN [reset EXCEPT !.retries = 0, !.rotated = 0] ELSE reset
  IN /\ Reading /\ Fails
     /\ sockets' = sockets \ {reader.socket}
     /\ \E code \in {"duplicate", "unknown", "known"} :
          IF code = "known" /\ CanRetry(kept.retries)
          THEN /\ \E rotate \in BOOLEAN :
                    listener' = [kept EXCEPT !.retries = @ + 1,
                      !.rotated = IF rotate /\ @ < Endpoints - 1 THEN @ + 1 ELSE @]
               /\ reader' = [reader EXCEPT !.pc = "dial", !.socket = NoSocket]
               /\ notices' = ReportError
          ELSE /\ listener' = IF code = "duplicate" THEN reset ELSE kept
               /\ reader' = [reader EXCEPT !.pc = "none", !.socket = NoSocket]
               /\ notices' = [ReportError EXCEPT !.down = TRUE]
     /\ UNCHANGED <<session, zaloHealth, buffers, sent, last>>

\* The context is cancelled: the read ends because Stop closed the socket,
\* or else because the service sends something more or hangs up.
ReadEndsCancelled ==
  /\ reader.pc = "read" /\ listener.cancelled
  /\ reader' = [reader EXCEPT !.pc = "none", !.socket = NoSocket]
  /\ sockets' \in {sockets, sockets \ {reader.socket}}
  /\ UNCHANGED <<session, zaloHealth, listener, buffers, notices, sent, last, failures>>

\* Mutant: the failure of a reconnect is not reported.
DialFailsSilently ==
  /\ reader.pc = "dial" /\ (listener.cancelled \/ failures > 0)
  /\ failures' = IF listener.cancelled THEN failures ELSE failures - 1
  /\ reader' = [reader EXCEPT !.pc = "none"]
  /\ UNCHANGED <<session, zaloHealth, listener, sockets, buffers, notices, sent, last>>

\* The wait before the dial, or the dial, ends with an error.
DialFails ==
  /\ reader.pc = "dial" /\ (listener.cancelled \/ failures > 0)
  /\ failures' = IF listener.cancelled THEN failures ELSE failures - 1
  /\ reader' = [reader EXCEPT !.pc = "none"]
  /\ notices' = IF listener.cancelled THEN notices ELSE [notices EXCEPT !.down = TRUE]
  /\ UNCHANGED <<session, zaloHealth, listener, sockets, buffers, sent, last>>

\* The service has accepted the connection; nobody else knows of it yet.
Dial ==
  /\ reader.pc = "dial" /\ ~listener.cancelled
  /\ sockets' = sockets \cup {FreshSocket}
  /\ reader' = [reader EXCEPT !.pc = "dialed", !.socket = FreshSocket]
  /\ UNCHANGED <<session, zaloHealth, listener, buffers, notices, sent, last, failures>>

\* connect writes the client without the lock: Stop may have been there.
ConnectAssigns ==
  /\ reader.pc = "dialed" /\ BackToTop
  /\ listener' = [listener EXCEPT !.client = reader.socket]
  /\ UNCHANGED <<session, zaloHealth, sockets, buffers, notices, sent, last, failures>>

\* The service hangs up a connection that nobody uses any more.
ServiceHangsUp ==
  /\ \E s \in sockets \ {reader.socket, listener.client, listener.grabbed} :
       sockets' = sockets \ {s}
  /\ UNCHANGED <<session, zaloHealth, listener, reader, buffers, notices, sent, last, failures>>

-----------------------------------------------------------------------------

ReaderStep == ReadNext \/ ReadEndsCancelled \/ DialFails \/ Dial \/ ConnectAssigns
LoopStep ==
  \/ LoadCredentials \/ Login \/ DrainOnce \/ StartSession \/ Sleep \/ StartAgain
  \/ Dispatch \/ SeeCancelled \/ StopTakesClient \/ StopCloses \/ StopWaits

ListenStep == TakeMessage \/ NoteError \/ NoteDisconnect
PumpStep == PumpTakes \/ PumpGives \/ PumpNotices

ZaloNext ==
  \/ LoopStep \/ ListenStep \/ PumpStep \/ ReaderStep \/ Cancel
  \/ ReceiveMessage \/ ReceiveKey \/ BecomeStable \/ HandleDisconnect \/ ServiceHangsUp

ZaloSpec == ZaloInit /\ [][ZaloNext]_zaloVars

\* The goroutines go on; a socket that is read without end sees a frame or its
\* end, which is what a Stop that lost the race against connect waits for.
ZaloFairness ==
  /\ WF_zaloVars(LoopStep) /\ WF_zaloVars(ListenStep)
  /\ WF_zaloVars(PumpStep) /\ WF_zaloVars(ReaderStep)

ZaloFairSpec == ZaloSpec /\ ZaloFairness

-----------------------------------------------------------------------------
(* Properties.                                                             *)

SessionPc == {"load", "login", "drain", "open", "serve", "dispatch", "stop",
              "close", "wait", "sleep", "returned"}
Queue == UNION {[1..n -> 1..MaxMessages] : n \in 0..BufferSize}

\* Every variable has its type: the buffers keep their size, the retries of a
\* close code and the index of the endpoint stay within what the service
\* configured (emit, canRetry, tryRotateEndpoint).
ZaloTypeOK ==
  /\ session.pc \in SessionPc /\ session.cur \in 0..MaxMessages
  /\ zaloHealth \in {"unknown", "healthy", "degraded"}
  /\ listener \in [client : Sockets \cup {NoSocket}, key : BOOLEAN,
                   ping : Sockets \cup {NoSocket}, retries : 0..MaxRetries,
                   rotated : 0..(Endpoints - 1), stable : BOOLEAN,
                   cancelled : BOOLEAN, grabbed : Sockets \cup {NoSocket}]
  /\ reader \in [pc : {"none", "top", "read", "dial", "dialed"},
                 socket : Sockets \cup {NoSocket}, pump : BOOLEAN]
  /\ sockets \subseteq Sockets
  /\ {buffered, adapted} \subseteq Queue /\ hand \in Queue
  /\ DOMAIN notices = DOMAIN Quiet
  /\ {sent, last} \subseteq 0..MaxMessages /\ failures \in 0..MaxFailures

InOrder(seq) == \A i, j \in 1..Len(seq) : i < j => seq[i] < seq[j]

\* Messages may be lost (a full buffer, the end of a session) but the
\* conversation sees those that are left in the order they were sent, and none
\* of them twice, across sessions.
MessagesInOrder ==
  InOrder(<<last>> \o (IF session.pc = "dispatch" THEN <<session.cur>> ELSE <<>>)
                   \o adapted \o hand \o buffered)

\* A listener whose reader gave up has told the connector, or the pump will, or
\* the context is cancelled: the connector never waits for messages of a dead session.
DeadListenersAreNoticed ==
  session.pc \in {"serve", "dispatch"} /\ reader.pc = "none"
    => notices.down \/ notices.adapterDown \/ listener.cancelled

\* While a connection that has its key is read, its pings are sent: also after
\* the listener's own reconnects.
PingsFollowTheSocket ==
  reader.pc = "read" /\ reader.socket = listener.client /\ listener.key
    => listener.ping = listener.client

\* "Healthy" means that a connection is being read, or that the news of its end
\* is on its way, until the context is cancelled.
HealthIsHonest ==
  zaloHealth = "healthy" /\ session.pc \in {"serve", "dispatch"}
    => reader.pc \in {"top", "read"} \/ notices.error \/ notices.adapterError
       \/ notices.down \/ notices.adapterDown \/ listener.cancelled

\* No reader of an earlier session is left when the next one is prepared,
\* although Stop and connect race for the client.
NoReaderBetweenSessions ==
  session.pc \notin {"serve", "dispatch", "stop", "close", "wait"} => reader.pc = "none"

\* A session that has to end does end, and the connector tries again, from
\* whatever point of a reconnect the reader was at.
SessionsEnd ==
  /\ session.pc = "stop" ~> session.pc = "load"
  /\ (session.pc = "serve" /\ reader.pc = "none") ~> session.pc = "load"
=============================================================================
