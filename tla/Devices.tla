------------------------------- MODULE Devices ------------------------------
(***************************************************************************)
(* Browsers that sign in: the devices and sessions of internal/auth, and    *)
(* the requests that use them. A login checks the password, then finds or   *)
(* makes the device and inserts the session in one transaction, then cleans *)
(* up, then hands out the cookies. A request reads session and device, and  *)
(* touches them in two more statements. An operator blocks, unblocks and    *)
(* revokes, here or from the command line.                                  *)
(*                                                                         *)
(* Bounds: Browsers, MaxLogins, MaxClock. TTL, Retention and StaleAge stand *)
(* for 24 hours, 24 hours and 90 days; the cleanup's limit of 128 rows is    *)
(* left out.                                                               *)
(***************************************************************************)
EXTENDS Naturals, FiniteSets

CONSTANTS Browsers, MaxLogins, MaxClock, TTL, Retention, StaleAge

ASSUME DevicesAssumption ==
  {MaxLogins, MaxClock, TTL, Retention, StaleAge} \subseteq Nat

VARIABLES
  clock,
  devices,    \* per device: whether its row is there, last seen, blocked
  sessions,   \* per session: its row, device, expiry and the time it was revoked
  browser,    \* per browser: its cookies, and what its request is about to do
  logins      \* the logins so far

devicesVars == <<clock, devices, sessions, browser, logins>>

Ids == 1..MaxLogins
Nobody == 0
NoDevice == [row |-> "never", seen |-> 0, blocked |-> FALSE]
NoSession == [row |-> "never", device |-> Nobody, expires |-> 0, revoked |-> Nobody]
WithCookies(d, s) == [pc |-> "idle", device |-> Nobody, session |-> Nobody, now |-> 0,
                      deviceCookie |-> d, sessionCookie |-> s]
NoRequest == WithCookies(Nobody, Nobody)

DevicesInit ==
  /\ clock = 1
  /\ devices = [d \in Ids |-> NoDevice]
  /\ sessions = [s \in Ids |-> NoSession]
  /\ logins = 0
  /\ browser = [b \in Browsers |-> NoRequest]

There(rows) == {i \in Ids : rows[i].row = "there"}
\* The next row; there always is one, as every login takes at most one.
NextRows(rows) == {i \in Ids : rows[i].row = "never" /\ \A j \in 1..(i-1) : rows[j].row # "never"}
Revoked(s) == sessions[s].revoked # Nobody
Expired(s, now) == sessions[s].expires <= now
Usable(s) == s \in There(sessions) /\ ~Revoked(s) /\ ~Expired(s, clock)

Tick == clock < MaxClock /\ clock' = clock + 1 /\ UNCHANGED <<devices, sessions, browser, logins>>

-----------------------------------------------------------------------------
(* Login.                                                                  *)

\* The password is right; the time of the request was taken before.
VerifyPassword(b) ==
  /\ browser[b].pc = "idle" /\ logins < MaxLogins
  /\ logins' = logins + 1
  /\ browser' = [browser EXCEPT ![b].pc = "verified", ![b].now = clock]
  /\ UNCHANGED <<clock, devices, sessions>>

\* Mutant: a blocked device is only told so by the page.
AdmitsAll(d) == d \in There(devices)

Admits(d) == d \in There(devices) /\ ~devices[d].blocked

\* Mutant: the lifetime is added by the caller as well.
ExpiryTwice(now) == now + TTL + TTL

Expiry(now) == now + TTL

\* loadOrCreateDevice and the session, one transaction. A blocked device ends it.
Login(b) ==
  LET now == browser[b].now
      known == browser[b].deviceCookie \in There(devices)
  IN /\ browser[b].pc = "verified"
     /\ IF known /\ ~Admits(browser[b].deviceCookie)
        THEN browser' = [browser EXCEPT ![b].pc = "idle"] /\ UNCHANGED <<devices, sessions>>
        ELSE \E d \in IF known THEN {browser[b].deviceCookie} ELSE NextRows(devices),
                s \in NextRows(sessions) :
               /\ devices' = [devices EXCEPT ![d].row = "there", ![d].seen = now]
               /\ sessions' = [sessions EXCEPT ![s] =
                    [row |-> "there", device |-> d, expires |-> Expiry(now), revoked |-> Nobody]]
               /\ browser' = [browser EXCEPT ![b].pc = "cleaning",
                                             ![b].device = d, ![b].session = s]
     /\ UNCHANGED <<clock, logins>>

-----------------------------------------------------------------------------
(* Cleanup: the sessions, then the devices.                                *)

Forgotten(rows, gone) ==
  [i \in Ids |-> IF i \in gone THEN [rows[i] EXCEPT !.row = "gone"] ELSE rows[i]]

\* Mutant: the day is taken off on the wrong side.
OutdatedTooEarly(s, now) == sessions[s].expires <= now + Retention

Outdated(s, now) ==
  \/ Revoked(s) /\ sessions[s].revoked + Retention <= now
  \/ sessions[s].expires + Retention <= now

CleanupSessions(b) ==
  /\ browser[b].pc = "cleaning"
  /\ sessions' = Forgotten(sessions, {s \in There(sessions) : Outdated(s, browser[b].now)})
  /\ browser' = [browser EXCEPT ![b].pc = "cleaned"]
  /\ UNCHANGED <<clock, devices, logins>>

IsStale(d, now) ==
  /\ ~devices[d].blocked /\ devices[d].seen + StaleAge < now
  /\ \A s \in There(sessions) : sessions[s].device # d

\* Deleting a device deletes its sessions. A login then sets its cookies.
CleanupDevices(b) ==
  LET gone == {d \in There(devices) : IsStale(d, browser[b].now)} IN
  /\ browser[b].pc = "cleaned"
  /\ devices' = Forgotten(devices, gone)
  /\ sessions' = Forgotten(sessions, {s \in There(sessions) : sessions[s].device \in gone})
  /\ browser' = [browser EXCEPT ![b] = IF @.session # Nobody
       THEN WithCookies(@.device, @.session)
       ELSE WithCookies(@.deviceCookie, @.sessionCookie)]
  /\ UNCHANGED <<clock, logins>>

-----------------------------------------------------------------------------
(* Requests.                                                               *)

\* AuthenticateSession, up to its checks. The cookie names a row or nothing.
ReadSession(b) ==
  LET s == browser[b].sessionCookie IN
  /\ browser[b].pc = "idle" /\ s \in There(sessions)
  /\ ~devices[sessions[s].device].blocked /\ Usable(s)
  /\ browser' = [browser EXCEPT ![b].pc = "touching", ![b].now = clock,
                                ![b].device = sessions[s].device]
  /\ UNCHANGED <<clock, devices, sessions, logins>>

\* The rows may be gone by now; the request is served all the same.
TouchDevice(b) ==
  /\ browser[b].pc = "touching"
  /\ devices' = [d \in Ids |-> IF d = browser[b].device /\ d \in There(devices)
                               THEN [devices[d] EXCEPT !.seen = browser[b].now] ELSE devices[d]]
  /\ browser' = [browser EXCEPT ![b] = WithCookies(@.deviceCookie, @.sessionCookie)]
  /\ UNCHANGED <<clock, sessions, logins>>

RevokeThese(which) ==
  sessions' = [s \in Ids |-> IF s \in which \cap There(sessions) /\ ~Revoked(s)
                             THEN [sessions[s] EXCEPT !.revoked = clock] ELSE sessions[s]]

\* LogoutSession, and the cookies are cleared; Cleanup is that of the request.
Logout(b) ==
  /\ browser[b].pc = "idle" /\ browser[b].sessionCookie # Nobody
  /\ RevokeThese({browser[b].sessionCookie})
  /\ browser' = [browser EXCEPT ![b] = [NoRequest EXCEPT !.pc = "cleaning", !.now = clock]]
  /\ UNCHANGED <<clock, devices, logins>>

\* SetPassword: every session ends.
SetPassword == RevokeThese(Ids) /\ UNCHANGED <<clock, devices, browser, logins>>

SessionsOf(d) == {s \in There(sessions) : sessions[s].device = d}

\* Mutant: a block is noted for the next login only.
RevokesNothing(d) == {}

RevokedWith(d) == SessionsOf(d)

\* mutateDevice: one transaction. The Cleanup after it is like every other.
BlockDevice(d) ==
  /\ d \in There(devices)
  /\ devices' = [devices EXCEPT ![d].blocked = TRUE]
  /\ RevokeThese(RevokedWith(d))
  /\ UNCHANGED <<clock, browser, logins>>

UnblockDevice(d) ==
  /\ d \in There(devices)
  /\ devices' = [devices EXCEPT ![d].blocked = FALSE]
  /\ UNCHANGED <<clock, sessions, browser, logins>>

RevokeDeviceSessions(d) ==
  d \in There(devices) /\ RevokeThese(SessionsOf(d)) /\ UNCHANGED <<clock, devices, browser, logins>>

-----------------------------------------------------------------------------

DevicesNext ==
  \/ Tick \/ SetPassword
  \/ \E b \in Browsers :
       \/ VerifyPassword(b) \/ Login(b) \/ CleanupSessions(b) \/ CleanupDevices(b)
       \/ ReadSession(b) \/ TouchDevice(b) \/ Logout(b)
  \/ \E d \in Ids : BlockDevice(d) \/ UnblockDevice(d) \/ RevokeDeviceSessions(d)

DevicesSpec == DevicesInit /\ [][DevicesNext]_devicesVars

-----------------------------------------------------------------------------
(* Properties.                                                             *)

Rows == {"never", "there", "gone"}

\* Every variable has its type, and every session row has its device row (the
\* foreign key): no cleanup leaves one without the other.
DevicesTypeOK ==
  /\ clock \in 1..MaxClock /\ logins \in 0..MaxLogins
  /\ \A d \in Ids : devices[d] \in [row : Rows, seen : 0..MaxClock, blocked : BOOLEAN]
  /\ \A s \in Ids : sessions[s].row \in Rows /\ sessions[s].revoked \in 0..MaxClock /\ sessions[s].expires \in 0..(MaxClock + TTL)
  /\ \A s \in There(sessions) : sessions[s].device \in There(devices)
  /\ \A b \in Browsers :
       /\ browser[b].pc \in {"idle", "verified", "cleaning", "cleaned", "touching"}
       /\ {browser[b].device, browser[b].session, browser[b].deviceCookie,
           browser[b].sessionCookie} \subseteq 0..MaxLogins

\* No session of a blocked device is in force, whatever logins were under way
\* when it was blocked (loadOrCreateDevice's check inside the transaction).
BlockedMeansRevoked ==
  \A s \in There(sessions) : devices[sessions[s].device].blocked => Revoked(s)

\* A session in force does not vanish: it is revoked or expires first, and its
\* device is not forgotten under it, however old the device is.
SessionsStay ==
  [][\A s \in There(sessions) : Usable(s) => s \in There(sessions')]_devicesVars
=============================================================================
