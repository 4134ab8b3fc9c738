--------------------------- MODULE ServiceProofs ----------------------------
(*****************************************************************************)
(* What the services promise, for every number of browsers, sessions, runs,  *)
(* files and login flows: a blocked device has no usable session; what an    *)
(* operator has edited stays as edited; a change to a file and a QR login    *)
(* happen only with the consent that was given for them; a schedule is due   *)
(* at the earliest slot that is left; a page that follows a run or the log   *)
(* misses nothing it is not told of, and shows nothing twice.                *)
(*****************************************************************************)
EXTENDS MCServices, SequenceTheorems, FiniteSetTheorems, TLAPS

-----------------------------------------------------------------------------
(* Devices.                                                                *)

DeviceRow == [row : Rows, seen : Nat, blocked : BOOLEAN]
SessionRow == [row : Rows, device : 0..MaxLogins, expires : Nat, revoked : Nat]
Request == [pc : {"idle", "verified", "cleaning", "cleaned", "touching"},
            device : 0..MaxLogins, session : 0..MaxLogins, now : Nat,
            deviceCookie : 0..MaxLogins, sessionCookie : 0..MaxLogins]

RowsOK ==
  /\ clock \in Nat \ {0}
  /\ devices \in [Ids -> DeviceRow] /\ sessions \in [Ids -> SessionRow]
  /\ browser \in [Browsers -> Request]

(* The foreign key of auth_sessions.                                       *)
SessionsHaveDevices == \A s \in There(sessions) : sessions[s].device \in There(devices)

(* Only a row that is there is ever blocked.                               *)
NewDevicesAreFree == \A d \in Ids : devices[d].row = "never" => ~devices[d].blocked

DevicesInv == RowsOK /\ SessionsHaveDevices /\ NewDevicesAreFree /\ BlockedMeansRevoked

-----------------------------------------------------------------------------

LEMMA NobodyIsTyped == MaxLogins \in Nat /\ Nobody \in 0..MaxLogins
<1>1. MaxLogins \in Nat
  BY DevicesAssumption
<1> QED
  BY <1>1 DEF Nobody

(* The end of a request or a login.                                        *)
LEMMA WithCookiesType ==
  ASSUME NEW d \in 0..MaxLogins, NEW s \in 0..MaxLogins PROVE WithCookies(d, s) \in Request
<1> QED
  BY NobodyIsTyped DEF WithCookies, Request

LEMMA DevicesInitInv == DevicesInit => DevicesInv
<1> SUFFICES ASSUME DevicesInit PROVE DevicesInv
  OBVIOUS
<1>1. NoDevice \in DeviceRow /\ NoSession \in SessionRow /\ NoRequest \in Request
  BY WithCookiesType, NobodyIsTyped
  DEF NoDevice, NoSession, NoRequest, DeviceRow, SessionRow, Rows, Nobody
<1>2. RowsOK
  BY <1>1 DEF DevicesInit, RowsOK
<1>3. There(sessions) = {} /\ NewDevicesAreFree
  BY DEF DevicesInit, There, NoSession, NewDevicesAreFree, NoDevice
<1> QED
  BY <1>2, <1>3 DEF DevicesInv, SessionsHaveDevices, BlockedMeansRevoked

(* A login's session is of a device that is there and not blocked.         *)
LEMMA LoginInv == ASSUME DevicesInv, NEW b \in Browsers, Login(b) PROVE DevicesInv'
<1> USE DevicesAssumption
<1> DEFINE now == browser[b].now
           cookie == browser[b].deviceCookie
           known == cookie \in There(devices)
<1>t. RowsOK
  BY DEF DevicesInv
<1>1. CASE known /\ ~Admits(cookie)
  <2>1. /\ browser' = [browser EXCEPT ![b].pc = "idle"] /\ devices' = devices
        /\ sessions' = sessions /\ clock' = clock
    BY <1>1 DEF Login
  <2>2. RowsOK'
    BY <1>t, <2>1 DEF RowsOK, Request
  <2> QED
    BY <2>1, <2>2
    DEF DevicesInv, SessionsHaveDevices, NewDevicesAreFree, BlockedMeansRevoked, There, Revoked
<1>2. CASE ~(known /\ ~Admits(cookie))
  <2>1. PICK d \in IF known THEN {cookie} ELSE NextRows(devices), s \in NextRows(sessions) :
          /\ devices' = [devices EXCEPT ![d].row = "there", ![d].seen = now]
          /\ sessions' = [sessions EXCEPT ![s] =
               [row |-> "there", device |-> d, expires |-> Expiry(now), revoked |-> Nobody]]
          /\ browser' = [browser EXCEPT ![b].pc = "cleaning", ![b].device = d, ![b].session = s]
    BY <1>2 DEF Login
  <2>2. d \in Ids /\ ~devices[d].blocked
    <3>1. CASE known
      BY <1>2, <2>1, <3>1 DEF Admits, There
    <3>2. CASE ~known
      BY <2>1, <3>2 DEF NextRows, DevicesInv, NewDevicesAreFree
    <3> QED
      BY <3>1, <3>2
  <2>3. s \in Ids /\ sessions[s].row = "never" /\ clock' = clock
    BY <2>1 DEF NextRows, Login
  <2>4. d \in 0..MaxLogins /\ s \in 0..MaxLogins /\ now \in Nat /\ Expiry(now) \in Nat
    BY <1>t, <2>2, <2>3, SMTT(30) DEF RowsOK, Request, Ids, Expiry
  <2>5. RowsOK'
    <3>1. devices' \in [Ids -> DeviceRow]
      BY <1>t, <2>1, <2>4 DEF RowsOK, DeviceRow, Rows
    <3>2. sessions' \in [Ids -> SessionRow]
      BY <1>t, <2>1, <2>4 DEF RowsOK, SessionRow, Rows, Nobody
    <3>3. browser' \in [Browsers -> Request]
      <4> DEFINE next == [browser[b] EXCEPT !.pc = "cleaning", !.device = d, !.session = s]
      <4>1. browser' = [browser EXCEPT ![b] = next]
        BY <1>t, <2>1 DEF RowsOK
      <4>2. browser[b] \in Request
        BY <1>t DEF RowsOK
      <4>3. next \in Request
        BY <4>2, <2>4 DEF Request
      <4> QED
        BY <1>t, <4>1, <4>3 DEF RowsOK
    <3> QED
      BY <1>t, <2>3, <3>1, <3>2, <3>3 DEF RowsOK
  <2>6. /\ devices'[d].row = "there" /\ devices'[d].blocked = devices[d].blocked
        /\ \A e \in Ids \ {d} : devices'[e] = devices[e]
    BY <1>t, <2>1, <2>2 DEF RowsOK, DeviceRow
  <2>7. /\ sessions'[s].device = d /\ sessions'[s].row = "there"
        /\ \A r \in Ids \ {s} : sessions'[r] = sessions[r]
    BY <1>t, <2>1, <2>3 DEF RowsOK, SessionRow
  <2>8. There(devices)' = There(devices) \cup {d} /\ There(sessions)' = There(sessions) \cup {s}
    BY <2>2, <2>3, <2>6, <2>7 DEF There
  <2>9. SessionsHaveDevices'
    BY <2>2, <2>3, <2>7, <2>8 DEF DevicesInv, SessionsHaveDevices, There
  <2>10. NewDevicesAreFree'
    BY <2>2, <2>6 DEF DevicesInv, NewDevicesAreFree
  <2>11. BlockedMeansRevoked'
    <3> SUFFICES ASSUME NEW r \in There(sessions)', devices'[sessions'[r].device].blocked
                 PROVE  Revoked(r)'
      BY DEF BlockedMeansRevoked
    <3>1. r # s
      BY <2>2, <2>6, <2>7
    <3>2. r \in There(sessions) /\ sessions'[r] = sessions[r]
      BY <2>7, <2>8, <3>1 DEF There
    <3>3. sessions[r].device \in Ids
      BY <3>2 DEF DevicesInv, SessionsHaveDevices, There
    <3>4. devices[sessions[r].device].blocked
      BY <2>6, <3>2, <3>3, SMTT(30)
    <3> QED
      BY <3>2, <3>4 DEF DevicesInv, BlockedMeansRevoked, Revoked
  <2> QED
    BY <2>5, <2>9, <2>10, <2>11 DEF DevicesInv
<1> QED
  BY <1>1, <1>2

(* Deleting sessions alone.                                                *)
LEMMA CleanupSessionsInv ==
  ASSUME DevicesInv, NEW b \in Browsers, CleanupSessions(b) PROVE DevicesInv'
<1> DEFINE gone == {s \in There(sessions) : Outdated(s, browser[b].now)}
<1>t. RowsOK
  BY DEF DevicesInv
<1>1. /\ sessions' = Forgotten(sessions, gone) /\ devices' = devices /\ clock' = clock
      /\ browser' = [browser EXCEPT ![b].pc = "cleaned"]
  BY DEF CleanupSessions
<1>2. /\ sessions' \in [Ids -> SessionRow]
      /\ \A s \in Ids : IF s \in gone THEN sessions'[s].row = "gone" ELSE sessions'[s] = sessions[s]
  BY <1>t, <1>1 DEF Forgotten, RowsOK, SessionRow, Rows
<1>3. browser' \in [Browsers -> Request]
  BY <1>t, <1>1 DEF RowsOK, Request
<1>4. \A s \in There(sessions)' : s \in There(sessions) /\ sessions'[s] = sessions[s]
  BY <1>2 DEF There
<1> QED
  BY <1>t, <1>1, <1>2, <1>3, <1>4
  DEF DevicesInv, RowsOK, SessionsHaveDevices, NewDevicesAreFree, BlockedMeansRevoked, Revoked, There

(* Deleting devices and, by the foreign key, their sessions.               *)
LEMMA CleanupDevicesInv ==
  ASSUME DevicesInv, NEW b \in Browsers, CleanupDevices(b) PROVE DevicesInv'
<1> DEFINE gone == {d \in There(devices) : IsStale(d, browser[b].now)}
           theirs == {s \in There(sessions) : sessions[s].device \in gone}
<1>t. RowsOK
  BY DEF DevicesInv
<1>1. /\ devices' = Forgotten(devices, gone) /\ sessions' = Forgotten(sessions, theirs)
      /\ clock' = clock
      /\ browser' = [browser EXCEPT ![b] = IF @.session # Nobody
           THEN WithCookies(@.device, @.session) ELSE WithCookies(@.deviceCookie, @.sessionCookie)]
  BY DEF CleanupDevices
<1>2. /\ devices' \in [Ids -> DeviceRow]
      /\ \A d \in Ids : /\ d \in gone => devices'[d].row = "gone"
                        /\ d \notin gone => devices'[d] = devices[d]
  BY <1>t, <1>1 DEF Forgotten, RowsOK, DeviceRow, Rows
<1>3. /\ sessions' \in [Ids -> SessionRow]
      /\ \A s \in Ids : IF s \in theirs THEN sessions'[s].row = "gone" ELSE sessions'[s] = sessions[s]
  BY <1>t, <1>1 DEF Forgotten, RowsOK, SessionRow, Rows
<1>4. browser' \in [Browsers -> Request]
  <2>1. \A d, s \in 0..MaxLogins : WithCookies(d, s) \in Request
    BY WithCookiesType
  <2>2. browser[b] \in Request
    BY <1>t DEF RowsOK
  <2>3. /\ browser[b].device \in 0..MaxLogins /\ browser[b].session \in 0..MaxLogins
        /\ browser[b].deviceCookie \in 0..MaxLogins /\ browser[b].sessionCookie \in 0..MaxLogins
    BY <2>2 DEF Request
  <2> QED
    BY <1>t, <1>1, <2>1, <2>3 DEF RowsOK
<1> HIDE DEF gone, theirs
<1>5. \A s \in There(sessions)' :
        /\ s \in There(sessions) /\ sessions'[s] = sessions[s] /\ s \notin theirs
  BY <1>3 DEF There
<1>6. \A s \in There(sessions)' : /\ sessions[s].device \in There(devices) \ gone
                                  /\ devices'[sessions[s].device] = devices[sessions[s].device]
  BY <1>2, <1>5 DEF theirs, DevicesInv, SessionsHaveDevices, There
<1>7. SessionsHaveDevices'
  BY <1>5, <1>6 DEF SessionsHaveDevices, There
<1>8. NewDevicesAreFree'
  <2>1. \A d \in Ids : devices'[d].row = "never" => devices'[d] = devices[d]
    BY <1>2
  <2> QED
    BY <2>1 DEF DevicesInv, NewDevicesAreFree
<1>9. BlockedMeansRevoked'
  BY <1>5, <1>6 DEF DevicesInv, BlockedMeansRevoked, Revoked
<1> QED
  BY <1>t, <1>1, <1>2, <1>3, <1>4, <1>7, <1>8, <1>9 DEF DevicesInv, RowsOK

(* Revoking a set of sessions keeps the rows, and revokes all of them that  *)
(* are there.                                                              *)
LEMMA RevokeTheseKeeps ==
  ASSUME RowsOK, NEW which, RevokeThese(which)
  PROVE  /\ sessions' \in [Ids -> SessionRow]
         /\ \A s \in Ids : /\ sessions'[s].row = sessions[s].row
                           /\ sessions'[s].device = sessions[s].device
                           /\ Revoked(s) => Revoked(s)'
         /\ \A s \in which \cap There(sessions) : Revoked(s)'
<1>1. sessions' = [s \in Ids |-> IF s \in which \cap There(sessions) /\ ~Revoked(s)
                                 THEN [sessions[s] EXCEPT !.revoked = clock] ELSE sessions[s]]
  BY DEF RevokeThese
<1> QED
  BY <1>1 DEF RowsOK, SessionRow, Revoked, There, Nobody

(* The steps that revoke and block nobody else.                            *)
LEMMA OnlyRevokesInv ==
  ASSUME DevicesInv, NEW which, RevokeThese(which), UNCHANGED <<clock, devices>>,
         browser' \in [Browsers -> Request]
  PROVE  DevicesInv'
<1>t. RowsOK
  BY DEF DevicesInv
<1>1. /\ sessions' \in [Ids -> SessionRow]
      /\ \A s \in Ids : /\ sessions'[s].row = sessions[s].row
                        /\ sessions'[s].device = sessions[s].device
                        /\ Revoked(s) => Revoked(s)'
  BY <1>t, RevokeTheseKeeps
<1> QED
  BY <1>t, <1>1
  DEF DevicesInv, RowsOK, SessionsHaveDevices, NewDevicesAreFree, BlockedMeansRevoked, There

LEMMA BlockDeviceInv == ASSUME DevicesInv, NEW d \in Ids, BlockDevice(d) PROVE DevicesInv'
<1>t. RowsOK
  BY DEF DevicesInv
<1>1. /\ d \in There(devices) /\ devices' = [devices EXCEPT ![d].blocked = TRUE]
      /\ RevokeThese(RevokedWith(d)) /\ clock' = clock /\ browser' = browser
  BY DEF BlockDevice
<1>2. /\ sessions' \in [Ids -> SessionRow]
      /\ \A s \in Ids : /\ sessions'[s].row = sessions[s].row
                        /\ sessions'[s].device = sessions[s].device
                        /\ Revoked(s) => Revoked(s)'
      /\ \A s \in RevokedWith(d) \cap There(sessions) : Revoked(s)'
  BY <1>t, <1>1, RevokeTheseKeeps
<1>3. /\ devices' \in [Ids -> DeviceRow]
      /\ \A e \in Ids : devices'[e].row = devices[e].row /\ (e # d => devices'[e] = devices[e])
  BY <1>t, <1>1 DEF RowsOK, DeviceRow
<1>4. There(sessions)' = There(sessions) /\ There(devices)' = There(devices)
  BY <1>2, <1>3 DEF There
<1>5. SessionsHaveDevices'
  BY <1>2, <1>4 DEF DevicesInv, SessionsHaveDevices, There
<1>6. NewDevicesAreFree'
  BY <1>1, <1>3 DEF DevicesInv, NewDevicesAreFree, There
<1>7. BlockedMeansRevoked'
  <2> SUFFICES ASSUME NEW s \in There(sessions)', devices'[sessions'[s].device].blocked
               PROVE  Revoked(s)'
    BY DEF BlockedMeansRevoked
  <2>1. s \in There(sessions) /\ s \in Ids /\ sessions'[s].device = sessions[s].device
    BY <1>2, <1>4 DEF There
  <2>2. CASE sessions[s].device = d
    BY <1>2, <2>1, <2>2 DEF RevokedWith, SessionsOf
  <2>3. CASE sessions[s].device # d
    <3>1. sessions[s].device \in Ids
      BY <2>1 DEF DevicesInv, SessionsHaveDevices, There
    <3>2. devices[sessions[s].device].blocked
      BY <1>3, <2>1, <2>3, <3>1
    <3> QED
      BY <1>2, <2>1, <3>2 DEF DevicesInv, BlockedMeansRevoked
  <2> QED
    BY <2>2, <2>3
<1> QED
  BY <1>t, <1>1, <1>2, <1>3, <1>5, <1>6, <1>7 DEF DevicesInv, RowsOK

LEMMA UnblockDeviceInv == ASSUME DevicesInv, NEW d \in Ids, UnblockDevice(d) PROVE DevicesInv'
<1>t. RowsOK
  BY DEF DevicesInv
<1>1. /\ devices' = [devices EXCEPT ![d].blocked = FALSE]
      /\ clock' = clock /\ browser' = browser /\ sessions' = sessions
  BY DEF UnblockDevice
<1>2. /\ devices' \in [Ids -> DeviceRow]
      /\ \A e \in Ids : /\ devices'[e].row = devices[e].row
                        /\ devices'[e].blocked => devices[e].blocked
  BY <1>t, <1>1 DEF RowsOK, DeviceRow
<1>3. There(sessions)' = There(sessions) /\ There(devices)' = There(devices)
  BY <1>1, <1>2 DEF There
<1>4. SessionsHaveDevices' /\ NewDevicesAreFree'
  BY <1>1, <1>2, <1>3 DEF DevicesInv, SessionsHaveDevices, NewDevicesAreFree
<1>5. BlockedMeansRevoked'
  BY <1>1, <1>2, <1>3 DEF DevicesInv, SessionsHaveDevices, BlockedMeansRevoked, Revoked, There
<1> QED
  BY <1>t, <1>1, <1>2, <1>4, <1>5 DEF DevicesInv, RowsOK

LEMMA TouchDeviceInv == ASSUME DevicesInv, NEW b \in Browsers, TouchDevice(b) PROVE DevicesInv'
<1>t. RowsOK
  BY DEF DevicesInv
<1>1. /\ devices' = [d \in Ids |-> IF d = browser[b].device /\ d \in There(devices)
                                   THEN [devices[d] EXCEPT !.seen = browser[b].now] ELSE devices[d]]
      /\ clock' = clock /\ sessions' = sessions
      /\ browser' = [browser EXCEPT ![b] = WithCookies(@.deviceCookie, @.sessionCookie)]
  BY DEF TouchDevice
<1>2. browser[b] \in Request
  BY <1>t DEF RowsOK
<1>3. /\ devices' \in [Ids -> DeviceRow]
      /\ \A d \in Ids : devices'[d].row = devices[d].row /\ devices'[d].blocked = devices[d].blocked
  BY <1>t, <1>1, <1>2 DEF RowsOK, DeviceRow, Request
<1>4. browser' \in [Browsers -> Request]
  <2>1. WithCookies(browser[b].deviceCookie, browser[b].sessionCookie) \in Request
    BY <1>2, WithCookiesType DEF Request
  <2> QED
    BY <1>t, <1>1, <2>1 DEF RowsOK
<1>5. There(sessions)' = There(sessions) /\ There(devices)' = There(devices)
  BY <1>1, <1>3 DEF There
<1> QED
  BY <1>t, <1>1, <1>3, <1>4, <1>5
  DEF DevicesInv, RowsOK, SessionsHaveDevices, NewDevicesAreFree, BlockedMeansRevoked, Revoked, There

(* The steps that change neither devices nor sessions.                     *)
LEMMA RowsStayInv ==
  ASSUME DevicesInv, UNCHANGED <<devices, sessions>>, clock' \in Nat \ {0},
         browser' \in [Browsers -> Request]
  PROVE  DevicesInv'
<1> QED
  BY DEF DevicesInv, RowsOK, SessionsHaveDevices, NewDevicesAreFree, BlockedMeansRevoked, Revoked, There

LEMMA DevicesStepInv == DevicesInv /\ [DevicesNext]_devicesVars => DevicesInv'
<1> SUFFICES ASSUME DevicesInv, [DevicesNext]_devicesVars PROVE DevicesInv'
  OBVIOUS
<1> USE DevicesAssumption
<1>t. RowsOK
  BY DEF DevicesInv
<1>1. CASE UNCHANGED devicesVars
  BY <1>t, <1>1, RowsStayInv DEF devicesVars, RowsOK
<1>2. CASE Tick
  BY <1>t, <1>2, RowsStayInv DEF Tick, RowsOK
<1>3. CASE SetPassword
  BY <1>t, <1>3, OnlyRevokesInv DEF SetPassword, RowsOK
<1>4. ASSUME NEW b \in Browsers, VerifyPassword(b) PROVE DevicesInv'
  <2>1. browser' \in [Browsers -> Request]
    BY <1>t, <1>4, ZenonT(40) DEF VerifyPassword, RowsOK, Request
  <2> QED
    BY <1>t, <1>4, <2>1, RowsStayInv DEF VerifyPassword, RowsOK
<1>5. ASSUME NEW b \in Browsers, ReadSession(b) PROVE DevicesInv'
  <2> DEFINE s == browser[b].sessionCookie
  <2>1. /\ s \in Ids /\ browser' = [browser EXCEPT ![b].pc = "touching", ![b].now = clock,
                                                   ![b].device = sessions[s].device]
    BY <1>5 DEF ReadSession, There
  <2>2. sessions[s].device \in 0..MaxLogins /\ clock \in Nat
    BY <1>t, <2>1 DEF RowsOK, SessionRow
  <2> DEFINE r == [browser[b] EXCEPT !.pc = "touching", !.now = clock, !.device = sessions[s].device]
  <2>3. browser \in [Browsers -> Request] /\ browser[b] \in Request
    BY <1>t DEF RowsOK
  <2> HIDE DEF s
  <2>4. r \in Request
    BY <2>2, <2>3 DEF Request
  <2>5. browser' = [browser EXCEPT ![b] = r]
    BY <2>1, <2>3
  <2> HIDE DEF r
  <2>6. browser' \in [Browsers -> Request]
    BY <2>3, <2>4, <2>5
  <2> QED
    BY <1>t, <1>5, <2>6, RowsStayInv DEF ReadSession, RowsOK
<1>6. ASSUME NEW b \in Browsers, Logout(b) PROVE DevicesInv'
  <2>3. NoRequest \in Request /\ clock \in Nat
    BY <1>t, WithCookiesType, NobodyIsTyped DEF NoRequest, RowsOK
  <2>1. [NoRequest EXCEPT !.pc = "cleaning", !.now = clock] \in Request
    BY <2>3 DEF Request
  <2>2. browser' \in [Browsers -> Request]
    BY <1>t, <1>6, <2>1 DEF Logout, RowsOK
  <2> QED
    BY <1>6, <2>2, OnlyRevokesInv DEF Logout
<1>7. ASSUME NEW d \in Ids, RevokeDeviceSessions(d) PROVE DevicesInv'
  BY <1>t, <1>7, OnlyRevokesInv DEF RevokeDeviceSessions, RowsOK
<1> QED
  BY <1>1, <1>2, <1>3, <1>4, <1>5, <1>6, <1>7, LoginInv, CleanupSessionsInv, CleanupDevicesInv,
     TouchDeviceInv, BlockDeviceInv, UnblockDeviceInv DEF DevicesNext

LEMMA DevicesInvariant == DevicesSpec => []DevicesInv
<1> QED
  BY DevicesInitInv, DevicesStepInv, PTL DEF DevicesSpec

-----------------------------------------------------------------------------

(* No session of a blocked device is in force, whatever logins, cleanups    *)
(* and requests run beside the block (mutateDevice, loadOrCreateDevice).   *)
THEOREM BlocksHold == DevicesSpec => []BlockedMeansRevoked
<1>1. DevicesInv => BlockedMeansRevoked
  BY DEF DevicesInv
<1> QED
  BY <1>1, DevicesInvariant, PTL

-----------------------------------------------------------------------------
(* Memory.                                                                 *)

FactRow == [by : Promoters \cup {"operator"}, human : BOOLEAN, forgotten : BOOLEAN]
PromoterState == [pc : {"idle", "check", "write", "update", "journal", "done"}, row : 0..MaxFacts]

-----------------------------------------------------------------------------

LEMMA MemoryInitType == MemoryInit => MemoryTypeOK
<1> SUFFICES ASSUME MemoryInit PROVE MemoryTypeOK
  OBVIOUS
<1>1. 0 \in 0..MaxFacts /\ 0 \in 0..MaxEdits
  BY MemoryAssumption
<1>2. facts = <<>> /\ promoted = {} /\ edits = 0 /\ \A p \in Promoters : promoter[p] = Waiting
  BY DEF MemoryInit
<1>3. Waiting \in PromoterState /\ Waiting.pc = "idle"
  BY <1>1 DEF Waiting, PromoterState, NotFound
<1>4. Len(facts) <= MaxFacts
  BY <1>2, MemoryAssumption
<1> QED
  BY <1>1, <1>2, <1>3, <1>4 DEF MemoryTypeOK, PromoterState

(* The type invariant, with the functions' domains.                        *)
MemoryInv == MemoryTypeOK /\ promoter \in [Promoters -> PromoterState]

LEMMA MemoryInitInv == MemoryInit => MemoryInv
<1> SUFFICES ASSUME MemoryInit PROVE MemoryInv
  OBVIOUS
<1>1. Waiting \in PromoterState
  BY MemoryAssumption DEF Waiting, PromoterState, NotFound
<1> QED
  BY <1>1, MemoryInitType DEF MemoryInit, MemoryInv

(* A step of one run.                                                      *)
LEMMA PromoterStepInv ==
  ASSUME MemoryInv, NEW p \in Promoters,
         \/ LookUp(p) \/ WriteFact(p) \/ CheckSource(p) \/ UpdateFact(p)
         \/ JournalPromotion(p) \/ PromoteAgain(p)
  PROVE  MemoryInv'
<1> USE MemoryAssumption
<1>t. /\ facts \in Seq(FactRow) /\ Len(facts) <= MaxFacts /\ edits \in 0..MaxEdits
      /\ promoter \in [Promoters -> PromoterState] /\ promoted \subseteq FactRows \X Promoters
  BY DEF MemoryInv, MemoryTypeOK, FactRow
<1>r. \A q \in Promoters : promoter[q].pc \in {"check", "update", "journal"} => promoter[q].row \in FactRows
  BY DEF MemoryInv, MemoryTypeOK
<1>d. FactRows = 1..Len(facts) /\ FactRows \subseteq 0..MaxFacts
  BY <1>t DEF FactRows
(* It is enough that the table keeps its rows, and the run's own row.       *)
<1>s. ASSUME facts' \in Seq(FactRow), Len(facts') <= MaxFacts, FactRows \subseteq FactRows',
             promoter' \in [Promoters -> PromoterState], edits' = edits,
             \A q \in Promoters \ {p} : promoter'[q] = promoter[q],
             promoter'[p].pc \in {"check", "update", "journal"} => promoter'[p].row \in FactRows',
             promoted' \subseteq FactRows' \X Promoters
      PROVE  MemoryInv'
  <2>1. \A q \in Promoters :
          /\ promoter'[q] \in PromoterState
          /\ promoter'[q].pc \in {"check", "update", "journal"} => promoter'[q].row \in FactRows'
    BY <1>s, <1>r
  <2> QED
    BY <1>s, <1>t, <2>1 DEF MemoryInv, MemoryTypeOK, FactRow, PromoterState
<1>1. CASE LookUp(p)
  <2>1. facts' = facts /\ promoted' = promoted /\ edits' = edits /\ FactRows' = FactRows
    BY <1>1 DEF LookUp, FactRows
  <2>2. CASE promoter' = [promoter EXCEPT ![p].pc = "write"]
    BY <1>s, <1>t, <2>1, <2>2 DEF PromoterState
  <2>3. CASE \E f \in Found : promoter' = [promoter EXCEPT ![p] =
               [pc |-> IF facts[f].human THEN "done" ELSE "check", row |-> f]]
    <3>1. PICK f \in Found : promoter' = [promoter EXCEPT ![p] =
                 [pc |-> IF facts[f].human THEN "done" ELSE "check", row |-> f]]
      BY <2>3
    <3>2. f \in FactRows /\ f \in 0..MaxFacts
      BY <1>d DEF Found, Listed
    <3>3. /\ promoter' \in [Promoters -> PromoterState] /\ promoter'[p].row = f
          /\ \A q \in Promoters \ {p} : promoter'[q] = promoter[q]
      BY <1>t, <3>1, <3>2 DEF PromoterState
    <3> QED
      BY <1>s, <1>t, <2>1, <3>2, <3>3
  <2> QED
    BY <1>1, <2>2, <2>3 DEF LookUp
<1>2. CASE WriteFact(p)
  <2> DEFINE new == [by |-> p, human |-> FALSE, forgotten |-> FALSE]
  <2>1. /\ facts' = Append(facts, new) /\ Len(facts) < MaxFacts
        /\ promoter' = [promoter EXCEPT ![p].pc = "journal", ![p].row = Len(facts')]
        /\ promoted' = promoted /\ edits' = edits
    BY <1>2 DEF WriteFact
  <2>2. new \in FactRow
    BY DEF FactRow
  <2>3. facts' \in Seq(FactRow) /\ Len(facts') = Len(facts) + 1
    BY <1>t, <2>1, <2>2
  <2>4. Len(facts') \in 0..MaxFacts /\ Len(facts') <= MaxFacts
    BY <1>t, <2>1, <2>3
  <2>5. FactRows' = 1..(Len(facts) + 1) /\ Len(facts') \in FactRows' /\ FactRows \subseteq FactRows'
    BY <1>t, <1>d, <2>3 DEF FactRows
  <2>6. /\ promoter' \in [Promoters -> PromoterState] /\ promoter'[p].row = Len(facts')
        /\ \A q \in Promoters \ {p} : promoter'[q] = promoter[q]
    BY <1>t, <2>1, <2>4 DEF PromoterState
  <2>7. promoted' \subseteq FactRows' \X Promoters
    BY <1>t, <2>1, <2>5
  <2> QED
    BY <1>s, <2>1, <2>3, <2>4, <2>5, <2>6, <2>7
<1>3. CASE CheckSource(p)
  <2>1. /\ facts' = facts /\ promoted' = promoted /\ edits' = edits /\ FactRows' = FactRows
        /\ promoter[p].pc = "check"
        /\ promoter' = [promoter EXCEPT ![p].pc =
             IF facts[promoter[p].row].human THEN "journal" ELSE "update"]
    BY <1>3 DEF CheckSource, FactRows
  <2>2. /\ promoter' \in [Promoters -> PromoterState] /\ promoter'[p].row = promoter[p].row
        /\ \A q \in Promoters \ {p} : promoter'[q] = promoter[q]
    BY <1>t, <2>1 DEF PromoterState
  <2> QED
    BY <1>s, <1>t, <1>r, <2>1, <2>2
<1>4. CASE UpdateFact(p)
  <2> DEFINE f == promoter[p].row
  <2>1. /\ facts' = [facts EXCEPT ![f].by = p, ![f].human = FALSE]
        /\ promoted' = promoted /\ edits' = edits /\ promoter[p].pc = "update"
        /\ promoter' = [promoter EXCEPT ![p].pc = "journal"]
    BY <1>4 DEF UpdateFact
  <2>2. f \in 1..Len(facts)
    BY <1>r, <1>d, <2>1
  <2>3. facts' \in Seq(FactRow) /\ Len(facts') = Len(facts)
    <3>1. facts[f] \in FactRow
      BY <1>t, <2>2
    <3>2. [facts[f] EXCEPT !.by = p, !.human = FALSE] \in FactRow
      BY <3>1 DEF FactRow
    <3>3. facts' = [facts EXCEPT ![f] = [facts[f] EXCEPT !.by = p, !.human = FALSE]]
      BY <1>t, <2>1, <2>2
    <3> QED
      BY <1>t, <2>2, <3>2, <3>3
  <2>4. FactRows' = FactRows
    BY <1>d, <2>3 DEF FactRows
  <2>5. /\ promoter' \in [Promoters -> PromoterState] /\ promoter'[p].row = f
        /\ \A q \in Promoters \ {p} : promoter'[q] = promoter[q]
    BY <1>t, <2>1 DEF PromoterState
  <2> QED
    BY <1>s, <1>t, <1>d, <2>1, <2>2, <2>3, <2>4, <2>5
<1>5. CASE JournalPromotion(p)
  <2>1. /\ facts' = facts /\ edits' = edits /\ FactRows' = FactRows /\ promoter[p].pc = "journal"
        /\ promoter' = [promoter EXCEPT ![p] = [Waiting EXCEPT !.pc = "done"]]
        /\ promoted' \in {promoted, promoted \cup {<<promoter[p].row, p>>}}
    BY <1>5 DEF JournalPromotion, FactRows
  <2>2. promoted' \subseteq FactRows' \X Promoters
    BY <1>t, <1>r, <2>1
  <2>3. Waiting \in PromoterState
    BY DEF Waiting, PromoterState, NotFound
  <2>4. [Waiting EXCEPT !.pc = "done"] \in PromoterState /\ [Waiting EXCEPT !.pc = "done"].pc = "done"
    BY <2>3 DEF PromoterState
  <2>5. /\ promoter' \in [Promoters -> PromoterState] /\ promoter'[p].pc = "done"
        /\ \A q \in Promoters \ {p} : promoter'[q] = promoter[q]
    BY <1>t, <2>1, <2>4
  <2> QED
    BY <1>s, <1>t, <2>1, <2>2, <2>5
<1>6. CASE PromoteAgain(p)
  <2>1. /\ facts' = facts /\ edits' = edits /\ FactRows' = FactRows /\ promoted' = promoted
        /\ promoter' = [promoter EXCEPT ![p] = Waiting]
    BY <1>6 DEF PromoteAgain, FactRows
  <2>2. Waiting \in PromoterState /\ Waiting.pc = "idle"
    BY DEF Waiting, PromoterState, NotFound
  <2>3. /\ promoter' \in [Promoters -> PromoterState] /\ promoter'[p].pc = "idle"
        /\ \A q \in Promoters \ {p} : promoter'[q] = promoter[q]
    BY <1>t, <2>1, <2>2
  <2> QED
    BY <1>s, <1>t, <2>1, <2>3
<1> QED
  BY <1>1, <1>2, <1>3, <1>4, <1>5, <1>6

(* A step of the operator.                                                 *)
LEMMA OperatorStepInv ==
  ASSUME MemoryInv, NEW f \in FactRows, Edit(f) \/ Forget(f) PROVE MemoryInv'
<1> USE MemoryAssumption
<1>t. /\ facts \in Seq(FactRow) /\ Len(facts) <= MaxFacts /\ edits \in 0..MaxEdits
      /\ promoter \in [Promoters -> PromoterState] /\ FactRows = 1..Len(facts)
  BY DEF MemoryInv, MemoryTypeOK, FactRow, FactRows
<1>1. promoter' = promoter /\ promoted' = promoted /\ edits' \in 0..MaxEdits
  BY <1>t DEF Edit, Forget
<1>2. facts' \in Seq(FactRow) /\ Len(facts') = Len(facts)
  <2>1. facts[f] \in FactRow
    BY <1>t
  <2>2. CASE Edit(f)
    <3>1. [facts[f] EXCEPT !.by = "operator", !.human = TRUE] \in FactRow
      BY <2>1 DEF FactRow
    <3>2. facts' = [facts EXCEPT ![f] = [facts[f] EXCEPT !.by = "operator", !.human = TRUE]]
      BY <1>t, <2>2 DEF Edit, Edited
    <3> QED
      BY <1>t, <3>1, <3>2
  <2>3. CASE Forget(f)
    <3>1. [facts[f] EXCEPT !.forgotten = TRUE] \in FactRow
      BY <2>1 DEF FactRow
    <3>2. facts' = [facts EXCEPT ![f] = [facts[f] EXCEPT !.forgotten = TRUE]]
      BY <1>t, <2>3 DEF Forget
    <3> QED
      BY <1>t, <3>1, <3>2
  <2> QED
    BY <2>2, <2>3
<1>3. FactRows' = FactRows
  BY <1>t, <1>2 DEF FactRows
<1> QED
  BY <1>t, <1>1, <1>2, <1>3 DEF MemoryInv, MemoryTypeOK, FactRow, PromoterState

LEMMA MemoryStepInv == MemoryInv /\ [MemoryNext]_memoryVars => MemoryInv'
<1> SUFFICES ASSUME MemoryInv, [MemoryNext]_memoryVars PROVE MemoryInv'
  OBVIOUS
<1>1. CASE UNCHANGED memoryVars
  BY <1>1 DEF memoryVars, MemoryInv, MemoryTypeOK, FactRows
<1>2. CASE MemoryNext
  BY <1>2, PromoterStepInv, OperatorStepInv DEF MemoryNext
<1> QED
  BY <1>1, <1>2

LEMMA MemoryInvariant == MemorySpec => []MemoryInv
<1> QED
  BY MemoryInitInv, MemoryStepInv, PTL DEF MemorySpec

-----------------------------------------------------------------------------
(* Edits.                                                                  *)

LEMMA SettledStep ==
  ASSUME MemoryInv, [MemoryNext]_memoryVars, NEW f \in FactRows, Settled(f) PROVE Settled(f)'
<1>t. /\ facts \in Seq(FactRow) /\ f \in 1..Len(facts)
      /\ promoter \in [Promoters -> PromoterState] /\ FactRows = 1..Len(facts)
  BY DEF MemoryInv, MemoryTypeOK, FactRow, FactRows
<1>s. facts[f].human /\ \A q \in Promoters : promoter[q].pc = "update" => promoter[q].row # f
  BY DEF Settled
(* It is enough that the row stays as it is and no run gets to its write.   *)
<1>k. ASSUME facts'[f].human,
             \A q \in Promoters : promoter'[q] # promoter[q] /\ promoter'[q].pc = "update"
                                     => promoter'[q].row # f
      PROVE  Settled(f)'
  BY <1>k, <1>s DEF Settled
<1>1. CASE UNCHANGED memoryVars
  BY <1>1, <1>s, <1>k DEF memoryVars
<1>2. ASSUME NEW p \in Promoters,
             LookUp(p) \/ JournalPromotion(p) \/ PromoteAgain(p)
      PROVE  Settled(f)'
  <2>1. facts' = facts
    BY <1>2 DEF LookUp, JournalPromotion, PromoteAgain
  <2>2. \A q \in Promoters : promoter'[q] # promoter[q] => promoter'[q].pc # "update"
    BY <1>2, <1>t DEF LookUp, JournalPromotion, PromoteAgain, Waiting, PromoterState
  <2> QED
    BY <1>k, <1>s, <2>1, <2>2
<1>3. ASSUME NEW p \in Promoters, WriteFact(p) PROVE Settled(f)'
  <2>1. facts' = Append(facts, [by |-> p, human |-> FALSE, forgotten |-> FALSE])
    BY <1>3 DEF WriteFact
  <2>2. facts'[f] = facts[f]
    BY <1>t, <2>1
  <2>3. \A q \in Promoters : promoter'[q] # promoter[q] => promoter'[q].pc # "update"
    BY <1>3, <1>t DEF WriteFact, PromoterState
  <2> QED
    BY <1>k, <1>s, <2>2, <2>3
<1>4. ASSUME NEW p \in Promoters, CheckSource(p) PROVE Settled(f)'
  <2>1. /\ facts' = facts
        /\ promoter' = [promoter EXCEPT ![p].pc =
             IF facts[promoter[p].row].human THEN "journal" ELSE "update"]
    BY <1>4 DEF CheckSource
  <2>2. \A q \in Promoters \ {p} : promoter'[q] = promoter[q]
    BY <1>t, <2>1
  <2>3. promoter'[p].row = promoter[p].row
    BY <1>t, <2>1 DEF PromoterState
  <2>4. promoter[p].row = f => promoter'[p].pc = "journal"
    BY <1>t, <1>s, <2>1 DEF PromoterState
  <2> QED
    BY <1>k, <1>s, <2>1, <2>2, <2>3, <2>4
<1>5. ASSUME NEW p \in Promoters, UpdateFact(p) PROVE Settled(f)'
  <2>1. /\ promoter[p].pc = "update"
        /\ facts' = [facts EXCEPT ![promoter[p].row].by = p, ![promoter[p].row].human = FALSE]
        /\ promoter' = [promoter EXCEPT ![p].pc = "journal"]
    BY <1>5 DEF UpdateFact
  <2>2. facts'[f] = facts[f]
    BY <1>t, <1>s, <2>1
  <2>3. \A q \in Promoters : promoter'[q] # promoter[q] => promoter'[q].pc # "update"
    BY <1>t, <2>1 DEF PromoterState
  <2> QED
    BY <1>k, <1>s, <2>2, <2>3
<1>6. ASSUME NEW g \in FactRows, Edit(g) \/ Forget(g) PROVE Settled(f)'
  <2>1. facts'[f].human /\ promoter' = promoter
    <3>1. facts[f] \in FactRow /\ g \in 1..Len(facts)
      BY <1>t
    <3>2. CASE g # f
      BY <1>6, <1>t, <1>s, <3>2 DEF Edit, Edited, Forget
    <3>3. CASE g = f /\ Edit(g)
      BY <1>t, <3>1, <3>3 DEF Edit, Edited, FactRow
    <3>4. CASE g = f /\ Forget(g)
      BY <1>t, <1>s, <3>1, <3>4 DEF Forget, FactRow
    <3> QED
      BY <1>6, <3>2, <3>3, <3>4
  <2> QED
    BY <1>k, <2>1
<1> QED
  BY <1>1, <1>2, <1>3, <1>4, <1>5, <1>6 DEF MemoryNext

-----------------------------------------------------------------------------

(* Every variable of the memory has its type, and a run that updates or     *)
(* journals has its row (PromoteCandidate).                                *)
THEOREM MemoryTypes == MemorySpec => []MemoryTypeOK
<1>1. MemoryInv => MemoryTypeOK
  BY DEF MemoryInv
<1> QED
  BY <1>1, MemoryInvariant, PTL

(* An edit that no run is about to overwrite is never overwritten: the      *)
(* runs that start later see whose it is (UpdateFact's check).             *)
THEOREM EditsSettle == MemorySpec => SettledEditsArePermanent
<1>1. MemoryInv /\ [MemoryNext]_memoryVars
        => [\A f \in FactRows : Settled(f) => Settled(f)']_memoryVars
  BY SettledStep
<1> QED
  BY <1>1, MemoryInvariant, PTL DEF MemorySpec, SettledEditsArePermanent

-----------------------------------------------------------------------------
(* The login of a Zalo account: only a confirmed code leads to a session.   *)

QrStep == [at : {"scan", "confirm", "session"}, phone : {"none", "scanned", "confirmed", "declined"},
           by : Accounts \cup {NoAccount}]
QrInv == qr = AtRest \/ (qr \in QrStep /\ (qr.at = "session" => qr.phone = "confirmed"))

LEMMA QrHolds == ZaloAccountSpec => []QrInv
<1>1. ZaloAccountInit => QrInv
  BY SMTT(30) DEF ZaloAccountInit, QrInv
<1>2. QrInv /\ [ZaloAccountNext]_zaloAccountVars => QrInv'
  <2> SUFFICES ASSUME QrInv, [ZaloAccountNext]_zaloAccountVars PROVE QrInv'
    OBVIOUS
  <2>1. CASE UNCHANGED qr
    BY <2>1 DEF QrInv
  <2>2. CASE LoginQR
    BY <2>2 DEF LoginQR, QrInv, QrStep
  <2>3. CASE Phone
    <3>1. qr \in QrStep
      BY <2>3 DEF Phone, QrInv
    <3>0. qr.at # "session"
      BY <2>3 DEF Phone, QrInv
    <3>2. ASSUME qr.phone = "none", NEW a \in Accounts, qr' = [qr EXCEPT !.phone = "scanned", !.by = a]
          PROVE  QrInv'
      BY <3>0, <3>1, <3>2 DEF QrInv, QrStep
    <3>3. ASSUME qr.phone = "scanned", NEW p \in {"confirmed", "declined"}, qr' = [qr EXCEPT !.phone = p]
          PROVE  QrInv'
      BY <3>0, <3>1, <3>3 DEF QrInv, QrStep
    <3> QED BY <2>3, <3>2, <3>3 DEF Phone
  <2>4. CASE qrWaitingScan \/ qrWaitingConfirm
    <3>1. qr # AtRest
      BY <2>4 DEF qrWaitingScan, qrWaitingConfirm, AtRest
    <3> QED BY <2>4, <3>1 DEF qrWaitingScan, qrWaitingConfirm, QrInv, QrStep
  <2>5. CASE LoginFails \/ SaveStoredCredentials
    BY <2>5 DEF LoginFails, SaveStoredCredentials, QrInv
  <2> QED
    BY <2>1, <2>2, <2>3, <2>4, <2>5
    DEF ZaloAccountNext, zaloAccountVars, ClearStoredCredentials, MarkElsewhere, CapabilityUpdateInbox,
        ListInbox, FetchFriends, FetchGroups, FetchUnreadMarks, FetchPinnedConversations,
        FetchHiddenConversations, FetchArchivedConversations, FetchMarks, Fetched, CapabilityListInbox,
        recordThreadActivity, CapabilitySend, SendText, SendMessage, NoteSent, UploadImage, UploadFile, UploadUnawaited,
        RegisterUploadCallback, FileDone, UploadEnds, UploadFails, SendFile, SendImage, Post,
        listParts, textParts, uploadParts
<1> QED BY <1>1, <1>2, PTL DEF ZaloAccountSpec

LEMMA LoginStep ==
  QrInv /\ [ZaloAccountNext]_zaloAccountVars =>
    (stored' # stored /\ stored' # NoAccount => qr.phone = "confirmed" /\ stored' = qr.by)
<1> SUFFICES ASSUME QrInv, [ZaloAccountNext]_zaloAccountVars, stored' # stored, stored' # NoAccount
             PROVE  qr.phone = "confirmed" /\ stored' = qr.by
  BY SMTT(30)
<1>1. SaveStoredCredentials
  BY DEF ZaloAccountNext, zaloAccountVars, ClearStoredCredentials, MarkElsewhere, CapabilityUpdateInbox,
        LoginQR, Phone, qrWaitingScan, qrWaitingConfirm, LoginFails,
        ListInbox, FetchFriends, FetchGroups, FetchUnreadMarks, FetchPinnedConversations,
        FetchHiddenConversations, FetchArchivedConversations, FetchMarks, Fetched, CapabilityListInbox,
        recordThreadActivity, CapabilitySend, SendText, SendMessage, NoteSent, UploadImage, UploadFile, UploadUnawaited,
        RegisterUploadCallback, FileDone, UploadEnds, UploadFails, SendFile, SendImage, Post,
        listParts, textParts, uploadParts
<1> QED BY <1>1 DEF SaveStoredCredentials, QrInv, AtRest

-----------------------------------------------------------------------------
(* Files: what a call found in place it still finds so, or it is not kept;  *)
(* a new file's path is free when it is looked at.                          *)

Changing == {"asked", "stat", "mkdir", "write", "remove", "move"}
FilePaths == Seq(Names)

ChangeCall ==
  [at : Changing, tool : {"write", "delete", "move"}, from : FilePaths, to : FilePaths, by : Nat,
   ticket : SUBSET FilePaths, kept : SUBSET FilePaths]

\* A call that changes files carries its ticket, and what it found in place.
ChangeOK(c) ==
  /\ c \in ChangeCall
  /\ c.to \in c.ticket /\ (c.tool = "move" => c.from \in c.ticket)
  /\ c.at = "move" => c.tool = "move"
  /\ c.at \in {"stat", "write"} => c.tool = "write"
  /\ c.at = "mkdir" => c.tool \in {"write", "move"}
  /\ c.kept \subseteq DOMAIN tree
  /\ c.tool = "write" /\ c.at \in {"mkdir", "write"} => c.to \notin c.kept

ReadOK(c) ==
  /\ DOMAIN c = {"at", "to", "todo", "found", "quiet"}
  /\ c = [x \in DOMAIN c |-> c[x]]
  /\ c.at \in {"list", "info", "grep"}

CallOK(c) == c = NoFsCall \/ ReadOK(c) \/ ChangeOK(c)

FilesInv ==
  /\ DOMAIN tree \subseteq FilePaths
  /\ fsCalls = [r \in Runners |-> fsCalls[r]]
  /\ \A r \in Runners : CallOK(fsCalls[r])

LEMMA PathsAreSequences == Paths \subseteq FilePaths
<1>1. \A n \in Names : <<n>> \in FilePaths
  BY DEF FilePaths
<1>2. \A n, m \in Names : <<n, m>> \in FilePaths
  BY DEF FilePaths
<1>3. Root \in FilePaths
  BY DEF FilePaths, Root
<1> QED BY <1>1, <1>2, <1>3 DEF Paths

\* A change of the tree leaves the calls as they have to be.
LEMMA ShakenOK ==
  ASSUME NEW c, CallOK(c), NEW t, tree' = t, NEW d, d = Shaken(t, c)
  PROVE  CallOK(d)'
<1>1. CASE c = NoFsCall
  BY <1>1 DEF NoFsCall, Shaken, CallOK
<1>2. CASE ReadOK(c)
  <2>1. d = c \/ d = [c EXCEPT !.quiet = FALSE]
    BY <1>2 DEF Shaken, ReadOK
  <2>2. ReadOK(d)
    BY <1>2, <2>1 DEF ReadOK
  <2> QED BY <2>2 DEF CallOK, ReadOK
<1>3. CASE ChangeOK(c)
  <2>1. c \in ChangeCall
    BY <1>3 DEF ChangeOK
  <2>2. "kept" \in DOMAIN c
    BY <2>1 DEF ChangeCall
  <2>5. "quiet" \notin DOMAIN c
    BY <2>1 DEF ChangeCall
  <2>3. CASE t = tree
    <3>1. d = c
      BY <2>3 DEF Shaken
    <3>2. tree' = tree
      BY <2>3
    <3> QED BY <1>3, <3>1, <3>2 DEF CallOK, ChangeOK
  <2>4. CASE t # tree
    <3>1. PICK k : k = {p \in c.kept : p \in DOMAIN t /\ t[p] = tree[p]}
      OBVIOUS
    <3>0. Shaken(t, c) = [c EXCEPT !.kept = {p \in c.kept : p \in DOMAIN t /\ t[p] = tree[p]}]
      BY <2>2, <2>4, <2>5 DEF Shaken
    <3>2. d = [c EXCEPT !.kept = k] /\ k \subseteq c.kept /\ k \subseteq DOMAIN t
      BY <3>0, <3>1
    <3>3. d \in ChangeCall /\ d.at = c.at /\ d.tool = c.tool /\ d.from = c.from /\ d.to = c.to
          /\ d.ticket = c.ticket /\ d.kept = k
      BY <2>1, <3>2 DEF ChangeCall
    <3> QED BY <1>3, <3>2, <3>3 DEF CallOK, ChangeOK
  <2> QED BY <2>3, <2>4
<1> QED BY <1>1, <1>2, <1>3 DEF CallOK

\* A step that changes the call of one run, and perhaps the tree.
LEMMA CallsStay ==
  ASSUME FilesInv, NEW t, DOMAIN t \subseteq FilePaths,
         NEW cs, cs = [r \in Runners |-> cs[r]], \A r \in Runners : CallOK(cs[r]),
         ChangeTree(t, cs)
  PROVE  FilesInv'
<1>1. tree' = t /\ fsCalls' = [r \in Runners |-> Shaken(t, cs[r])]
  BY DEF ChangeTree
<1>2. ASSUME NEW r \in Runners PROVE CallOK(fsCalls[r])'
  <2>1. PICK c : c = cs[r]
    OBVIOUS
  <2>2. PICK d : d = Shaken(t, c)
    OBVIOUS
  <2>3. CallOK(d)'
    BY <1>1, <2>1, <2>2, ShakenOK
  <2>4. fsCalls'[r] = d
    BY <1>1, <2>1, <2>2
  <2> QED BY <2>3, <2>4
<1> QED BY <1>1, <1>2 DEF FilesInv

\* A step of one run's call.
LEMMA CallMoves ==
  ASSUME FilesInv, tree' = tree, NEW r \in Runners, NEW c, CallOK(c),
         fsCalls' = [fsCalls EXCEPT ![r] = c]
  PROVE  FilesInv'
<1>1. \A q \in Runners : CallOK(fsCalls'[q])
  BY DEF FilesInv
<1>2. \A q \in Runners : CallOK(fsCalls[q])'
  BY <1>1 DEF CallOK, ChangeOK, ReadOK
<1> QED BY <1>2 DEF FilesInv

LEMMA AnswerStays ==
  ASSUME FilesInv, NEW r \in Runners, NEW t, DOMAIN t \subseteq FilePaths,
         NEW a, Answer(r, t, a)
  PROVE  FilesInv'
<1>1. PICK cs : cs = [fsCalls EXCEPT ![r] = NoFsCall]
  OBVIOUS
<1>2. cs = [q \in Runners |-> cs[q]] /\ \A q \in Runners : CallOK(cs[q])
  BY <1>1 DEF FilesInv, CallOK
<1>3. ChangeTree(t, cs)
  BY <1>1 DEF Answer
<1> QED BY <1>2, <1>3, CallsStay

LEMMA RefusalStays ==
  ASSUME FilesInv, NEW r \in Runners, Refuse(r)
  PROVE  FilesInv'
BY AnswerStays DEF Refuse, FilesInv

\* Fewer files, and more.
LEMMA WithIsTree ==
  ASSUME FilesInv, NEW new, DOMAIN new \subseteq FilePaths
  PROVE  /\ DOMAIN With(tree, new) = DOMAIN tree \cup DOMAIN new
         /\ \A p \in DOMAIN tree \ DOMAIN new : With(tree, new)[p] = tree[p]
         /\ \A p \in DOMAIN new : With(tree, new)[p] = new[p]
BY DEF FilesInv, With

LEMMA ParentsAreSequences == ASSUME NEW p \in FilePaths PROVE Parents(p) \subseteq FilePaths
BY DEF Parents, FilePaths

LEMMA FilesStart == RepoFilesInit => FilesInv
<1> SUFFICES ASSUME RepoFilesInit PROVE FilesInv
  OBVIOUS
<1>1. tree \in FirstTrees /\ DOMAIN tree \subseteq FilePaths
  BY RepoFilesAssumption, PathsAreSequences DEF RepoFilesInit
<1> QED BY <1>1 DEF FilesInv, RepoFilesInit, CallOK

LEMMA ChangerOK == ASSUME NEW c, CallOK(c), c.at \in Changing PROVE ChangeOK(c)
BY DEF CallOK, NoFsCall, ReadOK, Changing

LEMMA ReaderOK == ASSUME NEW c, CallOK(c), c.at \in {"list", "info", "grep"} PROVE ReadOK(c)
BY DEF CallOK, NoFsCall, ChangeOK, ChangeCall, Changing

\* A renamed path is the new name and what was below the old one.
LEMMA RenamedPaths ==
  ASSUME FilesInv, NEW from \in FilePaths, NEW to \in FilePaths
  PROVE  /\ DOMAIN Renamed(from, to) \subseteq FilePaths
         /\ \A p \in DOMAIN tree :
              p \notin DOMAIN Renamed(from, to) \/ Renamed(from, to)[p] # tree[p]
                => Below(from, p) \/ Below(to, p)
<1>1. CASE from = to
  BY <1>1 DEF Renamed, FilesInv
<1>2. CASE from # to
  <2> DEFINE moved == {q \in DOMAIN tree : Below(from, q)}
             new(q) == to \o SubSeq(q, Len(from) + 1, Len(q))
             gone == Without(tree, moved)
             come == [q \in {new(m) : m \in moved} |-> tree[from \o SubSeq(q, Len(to) + 1, Len(q))]]
  <2>1. Renamed(from, to) = With(gone, come)
    BY <1>2 DEF Renamed
  <2>2. ASSUME NEW q \in moved PROVE new(q) \in FilePaths /\ Below(to, new(q))
    <3>1. q \in FilePaths /\ Len(from) \in Nat /\ Len(to) \in Nat
      BY DEF FilesInv, FilePaths
    <3>2. PICK x : x = SubSeq(q, Len(from) + 1, Len(q))
      OBVIOUS
    <3>3. x \in Seq(Names)
      BY <3>1, <3>2 DEF FilePaths
    <3>4. to \o x \in Seq(Names) /\ Len(to \o x) = Len(to) + Len(x) /\ SubSeq(to \o x, 1, Len(to)) = to
      BY <3>3 DEF FilePaths
    <3> QED BY <3>1, <3>2, <3>3, <3>4 DEF Below, FilePaths
  <2>3. DOMAIN come = {new(m) : m \in moved} /\ DOMAIN gone = DOMAIN tree \ moved
        /\ \A p \in DOMAIN gone : gone[p] = tree[p]
    BY DEF Without
  <2>4. \A q \in DOMAIN come : q \in FilePaths /\ Below(to, q)
    BY <2>2, <2>3
  <2> HIDE DEF new, come, gone
  <2>5. /\ DOMAIN With(gone, come) = DOMAIN gone \cup DOMAIN come
        /\ \A p \in DOMAIN gone \ DOMAIN come : With(gone, come)[p] = gone[p]
    BY DEF With
  <2> QED BY <2>1, <2>3, <2>4, <2>5 DEF FilesInv
<1> QED BY <1>1, <1>2

LEMMA FilesStep == callsMade \in Nat /\ FilesInv /\ [RepoFilesNext]_repoFilesVars => FilesInv'
<1> SUFFICES ASSUME callsMade \in Nat, FilesInv, [RepoFilesNext]_repoFilesVars PROVE FilesInv'
  OBVIOUS
<1>1. CASE UNCHANGED repoFilesVars
  BY <1>1 DEF repoFilesVars, FilesInv, CallOK, ReadOK, ChangeOK
<1>2. ASSUME NEW r \in Runners,
             \/ Ask4Change(r) \/ Decide(r) \/ StatNew(r) \/ MkdirParents(r) \/ WriteNewFile(r) \/ DeletePath(r)
             \/ MovePath(r) \/ AskToRead(r) \/ ListDir(r) \/ ListInfo(r) \/ GrepSearch(r) \/ ReadFile(r)
      PROVE  FilesInv'
  <2> DEFINE c == fsCalls[r]
  <2>0. CallOK(c) /\ fsCalls = [q \in Runners |-> fsCalls[q]] /\ DOMAIN tree \subseteq FilePaths
    BY DEF FilesInv
  <2>1. CASE Refuse(r)
    BY <2>1, RefusalStays
  <2>2. CASE Ask4Change(r) /\ ~Refuse(r)
    <3>1. PICK tool \in {"write", "delete", "move"}, from \in AskedPaths, to \in AskedPaths :
            /\ resolveScopedPath(from) /\ resolveScopedPath(to) /\ tree' = tree
            /\ fsCalls' = [fsCalls EXCEPT ![r] =
                 [at |-> "asked", tool |-> tool, from |-> from, to |-> to, by |-> callsMade + 1,
                  ticket |-> buildApprovalBinding(tool, from, to), kept |-> {}]]
      BY <2>2 DEF Ask4Change
    <3>2. from \in FilePaths /\ to \in FilePaths
      BY <3>1, PathsAreSequences DEF resolveScopedPath
    <3>3. PICK t : t = buildApprovalBinding(tool, from, to)
      OBVIOUS
    <3>4. t \in SUBSET FilePaths /\ to \in t /\ (tool = "move" => from \in t)
      BY <3>2, <3>3 DEF buildApprovalBinding
    <3>5. PICK d : d = [at |-> "asked", tool |-> tool, from |-> from, to |-> to, by |-> callsMade + 1,
                        ticket |-> t, kept |-> {}]
      OBVIOUS
    <3>7. callsMade + 1 \in Nat
      OBVIOUS
    <3>6. CallOK(d)
      BY <3>2, <3>4, <3>5, <3>7 DEF CallOK, ChangeOK, ChangeCall, Changing
    <3> QED BY <3>1, <3>3, <3>5, <3>6, CallMoves
  <2>3. CASE Decide(r) /\ ~Refuse(r)
    <3>1. ChangeOK(c) /\ tree' = tree
      BY <2>0, <2>3, ChangerOK DEF Decide, FsAt, Changing
    <3>2. PICK at : at = CASE c.tool = "write" -> "stat" [] c.tool = "delete" -> "remove" [] OTHER -> "mkdir"
      OBVIOUS
    <3>3. PICK d : d = [c EXCEPT !.kept = DOMAIN tree, !.at = at]
      OBVIOUS
    <3>4. fsCalls' = [fsCalls EXCEPT ![r] = d]
      BY <2>0, <2>3, <3>2, <3>3 DEF Decide
    <3>5. at \in {"stat", "remove", "mkdir"} /\ (at = "stat" => c.tool = "write")
          /\ (at = "mkdir" => c.tool = "move")
      BY <3>1, <3>2 DEF ChangeOK, ChangeCall
    <3>6. d \in ChangeCall /\ d.at = at /\ d.kept = DOMAIN tree /\ d.tool = c.tool /\ d.to = c.to
          /\ d.from = c.from /\ d.ticket = c.ticket
      BY <2>0, <3>1, <3>3, <3>5 DEF ChangeOK, ChangeCall, Changing
    <3>7. CallOK(d)
      BY <3>1, <3>5, <3>6 DEF CallOK, ChangeOK
    <3> QED BY <3>1, <3>4, <3>7, CallMoves
  <2>4. CASE StatNew(r) /\ ~Refuse(r)
    <3>1. ChangeOK(c) /\ c.at = "stat" /\ tree' = tree /\ c.to \notin DOMAIN tree
      BY <2>0, <2>4, ChangerOK DEF StatNew, FsAt, Changing, Exists
    <3>2. PICK d : d = [c EXCEPT !.at = "mkdir"]
      OBVIOUS
    <3>3. fsCalls' = [fsCalls EXCEPT ![r] = d]
      BY <2>0, <2>4, <3>2 DEF StatNew, Go
    <3>4. d \in ChangeCall /\ d.at = "mkdir" /\ d.kept = c.kept /\ d.tool = c.tool /\ d.to = c.to
          /\ d.from = c.from /\ d.ticket = c.ticket
      BY <3>1, <3>2 DEF ChangeOK, ChangeCall, Changing
    <3>5. CallOK(d)
      BY <3>1, <3>4 DEF CallOK, ChangeOK
    <3> QED BY <3>1, <3>3, <3>5, CallMoves
  <2>5. CASE MkdirParents(r) /\ ~Refuse(r)
    <3>1. ChangeOK(c) /\ c.at = "mkdir"
      BY <2>0, <2>5, ChangerOK DEF MkdirParents, FsAt, Changing
    <3>2. PICK d : d = [c EXCEPT !.at = c.tool]
      OBVIOUS
    <3>3. PICK cs : cs = [fsCalls EXCEPT ![r] = d]
      OBVIOUS
    <3>4. ChangeTree(MkdirAll(c.to), cs)
      BY <2>0, <2>5, <3>2, <3>3 DEF MkdirParents
    <3>5. d \in ChangeCall /\ d.at = c.tool /\ d.kept = c.kept /\ d.tool = c.tool /\ d.to = c.to
          /\ d.from = c.from /\ d.ticket = c.ticket
      BY <3>1, <3>2 DEF ChangeOK, ChangeCall, Changing
    <3>6. CallOK(d)
      BY <3>1, <3>5 DEF CallOK, ChangeOK
    <3>7. cs = [q \in Runners |-> cs[q]] /\ \A q \in Runners : CallOK(cs[q])
      BY <2>0, <3>3, <3>6 DEF FilesInv
    <3>8. DOMAIN MkdirAll(c.to) \subseteq FilePaths
      <4>1. c.to \in FilePaths
        BY <3>1 DEF ChangeOK, ChangeCall
      <4>2. Parents(c.to) \subseteq FilePaths
        BY <4>1, ParentsAreSequences
      <4> QED BY <2>0, <4>2 DEF MkdirAll, With
    <3> QED BY <3>4, <3>7, <3>8, CallsStay
  <2>6. CASE WriteNewFile(r) /\ ~Refuse(r)
    <3>1. ChangeOK(c)
      BY <2>0, <2>6, ChangerOK DEF WriteNewFile, FsAt, Changing
    <3>2. PICK t : t = With(tree, [q \in {c.to} |-> File(c.by)])
      OBVIOUS
    <3>3. DOMAIN t \subseteq FilePaths
      BY <2>0, <3>1, <3>2 DEF With, ChangeOK, ChangeCall
    <3>4. Answer(r, t, [tool |-> "write"])
      BY <2>6, <3>2 DEF WriteNewFile
    <3> QED BY <3>3, <3>4, AnswerStays
  <2>7. CASE DeletePath(r)
    <3>1. CASE Answer(r, tree, [tool |-> "delete"])
      BY <2>0, <3>1, AnswerStays
    <3>2. ASSUME NEW q, ChangeTree(Without(tree, {q}), fsCalls) PROVE FilesInv'
      <4>1. DOMAIN Without(tree, {q}) \subseteq FilePaths
        BY <2>0 DEF Without
      <4> QED BY <3>2, <4>1, CallsStay DEF FilesInv
    <3> QED BY <2>7, <3>1, <3>2 DEF DeletePath
  <2>8. CASE MovePath(r) /\ ~Refuse(r)
    <3>1. ChangeOK(c)
      BY <2>0, <2>8, ChangerOK DEF MovePath, FsAt, Changing
    <3>2. DOMAIN Renamed(c.from, c.to) \subseteq FilePaths
      BY <3>1, RenamedPaths DEF ChangeOK, ChangeCall
    <3> QED BY <2>8, <3>2, AnswerStays DEF MovePath
  <2>9. CASE AskToRead(r) /\ ~Refuse(r)
    <3>1. PICK at \in {"list", "grep"}, p \in AskedPaths :
            /\ tree' = tree
            /\ fsCalls' = [fsCalls EXCEPT ![r] =
                 [at |-> at, to |-> p, todo |-> <<p>>, found |-> <<>>, quiet |-> TRUE]]
      BY <2>9 DEF AskToRead
    <3>2. PICK d : d = [at |-> at, to |-> p, todo |-> <<p>>, found |-> <<>>, quiet |-> TRUE]
      OBVIOUS
    <3>3. CallOK(d)
      BY <3>1, <3>2 DEF CallOK, ReadOK
    <3> QED BY <3>1, <3>2, <3>3, CallMoves
  <2>10. CASE ListDir(r) /\ ~Refuse(r)
    <3>1. ReadOK(c) /\ tree' = tree
      BY <2>0, <2>10, ReaderOK DEF ListDir, FsAt
    <3>2. PICK d : d = [c EXCEPT !.at = "info", !.todo = Entries(c.to)]
      OBVIOUS
    <3>3. fsCalls' = [fsCalls EXCEPT ![r] = d]
      BY <2>0, <2>10, <3>2 DEF ListDir
    <3>4. CallOK(d)
      BY <3>1, <3>2 DEF CallOK, ReadOK
    <3> QED BY <3>1, <3>3, <3>4, CallMoves
  <2>11. CASE ListInfo(r) /\ ~Refuse(r)
    BY <2>0, <2>11, AnswerStays DEF ListInfo
  <2>12. CASE GrepSearch(r) /\ ~Refuse(r)
    <3>1. ReadOK(c) /\ c.at = "grep"
      BY <2>0, <2>12, ReaderOK DEF GrepSearch, FsAt
    <3>2. CASE \E a : Answer(r, tree, a)
      BY <2>0, <3>2, AnswerStays
    <3>3. ASSUME NEW todo, NEW found, tree' = tree,
                 fsCalls' = [fsCalls EXCEPT ![r].todo = todo, ![r].found = found]
          PROVE  FilesInv'
      <4>1. PICK d : d = [c EXCEPT !.todo = todo, !.found = found]
        OBVIOUS
      <4>2. fsCalls' = [fsCalls EXCEPT ![r] = d]
        BY <2>0, <3>3, <4>1
      <4>3. CallOK(d)
        BY <3>1, <4>1 DEF CallOK, ReadOK
      <4> QED BY <3>3, <4>2, <4>3, CallMoves
    <3> QED BY <2>12, <3>2, <3>3 DEF GrepSearch
  <2>13. CASE ReadFile(r) /\ ~Refuse(r)
    <3>1. CASE UNCHANGED <<tree, fsCalls>>
      BY <3>1 DEF FilesInv, CallOK, ReadOK, ChangeOK
    <3>2. CASE Answer(r, tree, [tool |-> "read"])
      BY <2>0, <3>2, AnswerStays
    <3> QED BY <2>13, <3>1, <3>2 DEF ReadFile
  <2> QED BY <1>2, <2>1, <2>2, <2>3, <2>4, <2>5, <2>6, <2>7, <2>8, <2>9, <2>10, <2>11, <2>12, <2>13
<1> QED BY <1>1, <1>2 DEF RepoFilesNext

LEMMA CallsCount == callsMade \in Nat /\ [RepoFilesNext]_repoFilesVars => callsMade' \in Nat
<1> SUFFICES ASSUME callsMade \in Nat, [RepoFilesNext]_repoFilesVars PROVE callsMade' \in Nat
  OBVIOUS
<1>1. CASE UNCHANGED repoFilesVars
  BY <1>1 DEF repoFilesVars
<1>2. ASSUME NEW r \in Runners, Ask4Change(r) \/ AskToRead(r) \/ ReadFile(r) PROVE callsMade' \in Nat
  <2>1. callsMade' = callsMade + 1
    BY <1>2 DEF Ask4Change, AskToRead, ReadFile
  <2> QED BY <2>1
<1>3. ASSUME NEW r \in Runners,
             \/ Decide(r) \/ StatNew(r) \/ MkdirParents(r) \/ WriteNewFile(r) \/ DeletePath(r)
             \/ MovePath(r) \/ ListDir(r) \/ ListInfo(r) \/ GrepSearch(r)
      PROVE  callsMade' \in Nat
  BY <1>3, Zenon DEF Decide, StatNew, MkdirParents, WriteNewFile, DeletePath, MovePath, ListDir, ListInfo,
     GrepSearch
<1> QED BY <1>1, <1>2, <1>3, Zenon DEF RepoFilesNext

LEMMA FilesHold == RepoFilesSpec => []FilesInv
<1> DEFINE I == callsMade \in Nat /\ FilesInv
<1>1. RepoFilesInit => I
  BY FilesStart DEF RepoFilesInit
<1>2. I /\ [RepoFilesNext]_repoFilesVars => I'
  BY CallsCount, FilesStep
<1>3. I => FilesInv
  OBVIOUS
<1> QED BY <1>1, <1>2, <1>3, PTL DEF RepoFilesSpec

\* The loss of a file, as FilesAreLostAsApproved has it.
Lost(p) == p \in DOMAIN tree /\ tree[p].kind = "file" /\ (p \notin DOMAIN tree' \/ tree'[p] # tree[p])

Approved(r, p) ==
  LET c == fsCalls[r]
  IN  /\ c.at \in {"remove", "move", "write"}
      /\ \E q \in c.ticket : Below(q, p)
      /\ c.at = "write" => p = c.to /\ p \notin c.kept

LEMMA BelowItself == ASSUME NEW p \in FilePaths PROVE Below(p, p)
BY DEF Below, FilePaths

LEMMA LossStep ==
  ASSUME FilesInv, [RepoFilesNext]_repoFilesVars, NEW p, Lost(p)
  PROVE  \E r \in Runners : Approved(r, p)
<1>1. tree' # tree
  BY DEF Lost
<1>2. PICK r \in Runners :
        \/ Ask4Change(r) \/ Decide(r) \/ StatNew(r) \/ MkdirParents(r) \/ WriteNewFile(r) \/ DeletePath(r)
        \/ MovePath(r) \/ AskToRead(r) \/ ListDir(r) \/ ListInfo(r) \/ GrepSearch(r) \/ ReadFile(r)
  BY <1>1 DEF RepoFilesNext, repoFilesVars
<1>3. ~Refuse(r) /\ \A a : ~Answer(r, tree, a)
  BY <1>1, SMTT(30) DEF Refuse, Answer, ChangeTree
<1>4. MkdirParents(r) \/ WriteNewFile(r) \/ DeletePath(r) \/ MovePath(r)
  BY <1>1, <1>2, <1>3 DEF Ask4Change, Decide, StatNew, AskToRead, ListDir, ListInfo, GrepSearch, ReadFile
<1> DEFINE c == fsCalls[r]
<1>5. ChangeOK(c)
  <2>1. c.at \in Changing
    BY <1>4 DEF MkdirParents, WriteNewFile, DeletePath, MovePath, FsAt, Changing
  <2>2. CallOK(c)
    BY DEF FilesInv
  <2> QED BY <2>1, <2>2, ChangerOK
<1>6. c.to \in FilePaths /\ c.from \in FilePaths /\ Below(c.to, c.to)
  BY <1>5, BelowItself DEF ChangeOK, ChangeCall
<1>7. CASE MkdirParents(r)
  <2>1. tree' = MkdirAll(c.to)
    BY <1>3, <1>7 DEF MkdirParents, ChangeTree
  <2>2. p \in DOMAIN tree' /\ tree'[p] = tree[p]
    BY <2>1 DEF MkdirAll, With, Lost
  <2> QED BY <2>2 DEF Lost
<1>8. CASE WriteNewFile(r)
  <2>1. tree' = With(tree, [q \in {c.to} |-> File(c.by)]) /\ c.at = "write"
    BY <1>3, <1>8 DEF WriteNewFile, Answer, ChangeTree, FsAt
  <2>2. p = c.to
    BY <2>1 DEF With, Lost
  <2>3. p \notin c.kept /\ c.to \in c.ticket
    BY <1>5, <2>1, <2>2 DEF ChangeOK
  <2> QED BY <1>6, <2>1, <2>2, <2>3 DEF Approved
<1>9. CASE DeletePath(r)
  <2>1. PICK q \in DOMAIN tree : Below(c.to, q) /\ tree' = Without(tree, {q})
    BY <1>3, <1>9 DEF DeletePath, ChangeTree
  <2>2. p = q
    BY <2>1 DEF Without, Lost
  <2>3. c.at = "remove" /\ c.to \in c.ticket
    BY <1>5, <1>9 DEF ChangeOK, DeletePath, FsAt
  <2> QED BY <2>1, <2>2, <2>3 DEF Approved
<1>10. CASE MovePath(r)
  <2>1. tree' = Renamed(c.from, c.to) /\ c.at = "move"
    BY <1>3, <1>10 DEF MovePath, Answer, ChangeTree, FsAt
  <2>2. Below(c.from, p) \/ Below(c.to, p)
    BY <1>6, <2>1, RenamedPaths DEF Lost
  <2>3. c.to \in c.ticket /\ c.from \in c.ticket
    BY <1>5, <2>1 DEF ChangeOK
  <2> QED BY <2>1, <2>2, <2>3 DEF Approved
<1> QED BY <1>4, <1>7, <1>8, <1>9, <1>10

\* A file is lost only to a call that was approved for a path above it; a new
\* file replaces none that was in place when the call was let go on; and an
\* account is stored only for the phone that confirmed the code: for any number
\* of runs, names, calls and accounts.
THEOREM LossesAndLogins == RepoFilesSpec /\ ZaloAccountSpec => NothingWithoutConsent
<1>1. FilesInv /\ [RepoFilesNext]_repoFilesVars =>
        (\A p \in DOMAIN tree : tree[p].kind = "file" /\ (p \notin DOMAIN tree' \/ tree'[p] # tree[p]) =>
           \E r \in Runners :
             LET c == fsCalls[r]
             IN  /\ c.at \in {"remove", "move", "write"}
                 /\ \E q \in c.ticket : Below(q, p)
                 /\ c.at = "write" => p = c.to /\ p \notin c.kept)
  BY LossStep DEF Lost, Approved
<1>2. RepoFilesSpec => FilesAreLostAsApproved
  BY <1>1, FilesHold, PTL DEF RepoFilesSpec, FilesAreLostAsApproved
<1>3. ZaloAccountSpec => LoginsAreConfirmed
  BY LoginStep, QrHolds, PTL DEF ZaloAccountSpec, LoginsAreConfirmed
<1> QED BY <1>2, <1>3 DEF NothingWithoutConsent

-----------------------------------------------------------------------------
(* The times of schedules.                                                 *)

TimesInv ==
  /\ spec \in Specs /\ instant \in 1..LastInstant /\ computedFor \in 1..(LastInstant + 1)
  /\ enabled => nextRunAt = ComputeNextRun(spec, computedFor)

LEMMA TimesStart == ScheduleTimeInit => TimesInv
BY ScheduleTimeAssumption DEF ScheduleTimeInit, TimesInv

LEMMA TimesStep == TimesInv /\ [ScheduleTimeNext]_scheduleTimeVars => TimesInv'
<1> SUFFICES ASSUME TimesInv, [ScheduleTimeNext]_scheduleTimeVars PROVE TimesInv'
  OBVIOUS
<1>0. LastInstant \in Nat /\ instant \in 1..LastInstant /\ computedFor \in 1..(LastInstant + 1)
  BY ScheduleTimeAssumption DEF TimesInv
<1>1. CASE UNCHANGED scheduleTimeVars
  BY <1>1 DEF scheduleTimeVars, TimesInv
<1>2. CASE TimePasses
  BY <1>0, <1>2 DEF TimePasses, TimesInv
<1>3. \A now \in Readings : now \in 1..LastInstant /\ now + 1 \in 1..(LastInstant + 1)
  BY <1>0 DEF Readings
<1>4. CASE ClaimDueOccurrence
  BY <1>0, <1>3, <1>4 DEF ClaimDueOccurrence, Computed, TimesInv
<1>5. CASE UpdateSchedule
  BY <1>0, <1>5 DEF UpdateSchedule, Computed, NotComputed, TimesInv
<1>6. CASE SetScheduleEnabled
  BY <1>0, <1>6 DEF SetScheduleEnabled, Computed, NotComputed, TimesInv
<1>7. CASE RepairMissingNextRunAt
  BY <1>0, <1>3, <1>7 DEF RepairMissingNextRunAt, Computed, TimesInv
<1> QED BY <1>1, <1>2, <1>4, <1>5, <1>6, <1>7 DEF ScheduleTimeNext

LEMMA MinIs ==
  ASSUME NEW S, S \subseteq Int, NEW m \in S, \A x \in S : m <= x
  PROVE  Min(S) = m
<1>1. \A x \in S : (\A y \in S : x <= y) => x = m
  OBVIOUS
<1> QED BY <1>1 DEF Min

LEMMA Division ==
  ASSUME NEW a \in Nat, NEW n \in Nat \ {0}
  PROVE  /\ a \div n \in Nat /\ a % n \in 0..(n - 1)
         /\ a = (a \div n) * n + (a % n)
BY SMT

LEMMA Multiples ==
  ASSUME NEW a \in Nat, NEW b \in Nat, NEW n \in Nat \ {0}, a <= b
  PROVE  a * n <= b * n
BY SMT

\* The same with names for the quotient and the rest.
LEMMA Divided ==
  ASSUME NEW a \in Nat, NEW n \in Nat \ {0}
  PROVE  \E q \in Nat, r \in 0..(n - 1) : q = a \div n /\ r = a % n /\ a = q * n + r
BY Division, Zenon

\* Multiples of n on either side of one, and what lies between them.
LEMMA MultiplesApart ==
  ASSUME NEW a \in Nat, NEW b \in Nat, NEW n \in Nat \ {0}, NEW r \in 0..(n - 1)
  PROVE  /\ a * n + r < b * n => a + 1 <= b /\ a * n + n <= b * n
         /\ (a * n) % n = 0
<1>1. a * n \in Nat /\ b * n \in Nat /\ (a + 1) * n = a * n + n
  BY SMT
<1>2. b <= a => b * n <= a * n
  BY Multiples
<1>3. a + 1 <= b => (a + 1) * n <= b * n
  BY Multiples
<1>4. (a * n) % n = 0
  BY SMT
<1>5. ASSUME a * n + r < b * n PROVE a + 1 <= b /\ a * n + n <= b * n
  <2>1. ~(b <= a)
    BY <1>1, <1>2, <1>5
  <2> QED BY <1>1, <1>3, <2>1
<1> QED BY <1>4, <1>5

\* The slots that an instant leaves, for each kind of schedule.
Left(s, now) == {t \in SlotsOf(s) : t >= now /\ (s.kind = "cron" => t < SearchEnd(now - 1))}
Earliest(s, now) == IF Left(s, now) = {} THEN NoTime ELSE Min(Left(s, now))

LEMMA AtIsEarliest ==
  ASSUME NEW s \in Specs, s.kind = "at", NEW now \in Nat
  PROVE  ComputeNextRun(s, now) = Earliest(s, now)
<1>1. s.at \in Nat /\ SlotsOf(s) = {s.at}
  BY ScheduleTimeAssumption DEF Specs, SlotsOf
<1>2. CASE s.at < now
  <2>1. Left(s, now) = {}
    BY <1>1, <1>2 DEF Left
  <2> QED BY <1>2, <2>1 DEF Earliest, ComputeNextRun
<1>3. CASE s.at >= now
  <2>1. Left(s, now) = {s.at}
    BY <1>1, <1>3 DEF Left
  <2>2. Min(Left(s, now)) = s.at
    BY <1>1, <2>1, MinIs
  <2> QED BY <1>1, <1>3, <2>1, <2>2 DEF Earliest, ComputeNextRun
<1> QED BY <1>1, <1>2, <1>3

LEMMA CronIsEarliest ==
  ASSUME NEW s \in Specs, s.kind = "cron", NEW now \in Nat \ {0}
  PROVE  ComputeNextRun(s, now) = Earliest(s, now)
<1>1. s.cron \in CronTables /\ SlotsOf(s) = s.cron
  BY DEF Specs, SlotsOf
<1>2. Second \in Nat \ {0} /\ \A t \in s.cron : t \in Nat /\ t % Second = 0
  BY <1>1, ScheduleTimeAssumption
<1>3. PICK q \in Nat, r \in 0..(Second - 1) :
        q = (now - 1) \div Second /\ now - 1 = q * Second + r
  <2>1. now - 1 \in Nat
    OBVIOUS
  <2> QED BY <1>2, <2>1, Divided, ZenonT(40)
<1>4. q * Second \in Nat /\ (q + 1) * Second = q * Second + Second
  BY <1>2
<1>5. ASSUME NEW t \in s.cron PROVE t >= now <=> t >= (q + 1) * Second
  <2>1. PICK k \in Nat : t = k * Second
    <3>1. t \in Nat /\ t % Second = 0
      BY <1>2
    <3>2. PICK k \in Nat, r1 \in 0..(Second - 1) :
            k = t \div Second /\ r1 = t % Second /\ t = k * Second + r1
      BY <1>2, <3>1, Divided, Zenon
    <3>3. k * Second \in Nat
      BY <1>2
    <3> QED BY <1>2, <3>1, <3>2, <3>3
  <2>2. q * Second + r < k * Second => q * Second + Second <= k * Second
    BY <1>2, MultiplesApart
  <2>3. k * Second \in Nat
    BY <1>2, <2>1
  <2> QED BY <1>2, <1>3, <1>4, <2>1, <2>2, <2>3
<1>6. Left(s, now) = {t \in s.cron : t >= SecondAfter(now - 1) /\ t < SearchEnd(now - 1)}
  <2>1. SecondAfter(now - 1) = (q + 1) * Second
    BY <1>3 DEF SecondAfter
  <2> QED BY <1>1, <1>5, <2>1 DEF Left
<1>7. ComputeNextRun(s, now) = NextOfTable(s.cron, now - 1)
  BY DEF ComputeNextRun
<1> QED BY <1>6, <1>7 DEF NextOfTable, Earliest

LEMMA EveryIsEarliest ==
  ASSUME NEW s \in Specs, s.kind = "every", NEW now \in 1..(LastInstant + 1), now - s.at <= MaxDuration
  PROVE  ComputeNextRun(s, now) = Earliest(s, now)
<1>1. /\ s.at \in Nat /\ now \in Nat /\ s.every \in Nat \ {0} /\ s.every \in 1..(MaxDuration \div Second)
      /\ MaxDuration \in Nat /\ Second \in Nat \ {0} /\ LastInstant \in Nat
  <2>1. s.at \in Anchors /\ s.every \in 1..(MaxDuration \div Second)
    BY DEF Specs
  <2>2. MaxDuration \in Nat /\ Second \in Nat \ {0} /\ LastInstant \in Nat /\ Anchors \subseteq Nat
    BY ScheduleTimeAssumption
  <2>3. PICK m \in Nat : m = MaxDuration \div Second
    BY <2>2, Division
  <2>4. s.at \in Nat /\ s.every \in Nat \ {0}
    <3>1. s.every \in 1..m
      BY <2>1, <2>3
    <3>2. s.at \in Nat
      BY <2>1, <2>2
    <3> QED BY <3>1, <3>2
  <2>5. now \in Nat
    BY <2>2
  <2> QED BY <2>1, <2>2, <2>4, <2>5
<1>2. PICK n \in Nat \ {0} : n = s.every * Second
  BY <1>1
<1>3. n <= MaxDuration
  <2>1. PICK m \in Nat, r \in 0..(Second - 1) :
          m = MaxDuration \div Second /\ r = MaxDuration % Second /\ MaxDuration = m * Second + r
    BY <1>1, Divided, Zenon
  <2>2. s.every * Second <= m * Second
    BY <1>1, <2>1, Multiples
  <2>3. m * Second \in Nat
    BY <1>1, <2>1
  <2> QED BY <1>1, <1>2, <2>1, <2>2, <2>3
<1>4. Horizon \in Nat /\ Horizon = LastInstant + MaxDuration
  BY <1>1 DEF Horizon
<1>5. Left(s, now) = {t \in s.at..(s.at + Horizon) : (t - s.at) % n = 0 /\ t >= now}
  BY <1>2 DEF Left, SlotsOf
<1>6. Left(s, now) \subseteq Int
  BY <1>1, <1>4, <1>5
<1>7. ASSUME NEW m \in Left(s, now), \A t \in Left(s, now) : m <= t PROVE Earliest(s, now) = m
  BY <1>6, <1>7, MinIs DEF Earliest
<1>8. CASE s.at >= now
  <2>1. ComputeNextRun(s, now) = s.at
    BY <1>8 DEF ComputeNextRun
  <2>2. (s.at - s.at) % n = 0
    BY <1>1
  <2>3. s.at \in Left(s, now) /\ \A t \in Left(s, now) : s.at <= t
    BY <1>1, <1>4, <1>5, <1>8, <2>2
  <2> QED BY <1>7, <2>1, <2>3
<1>9. CASE s.at < now
  <2>1. PICK d \in Nat : d = now - s.at /\ d <= MaxDuration
    BY <1>1, <1>9
  <2>2. Min({now - s.at, MaxDuration}) = d
    <3>1. {now - s.at, MaxDuration} \subseteq Int /\ d \in {now - s.at, MaxDuration}
      BY <1>1, <2>1
    <3>2. \A x \in {now - s.at, MaxDuration} : d <= x
      BY <1>1, <2>1
    <3> QED BY <3>1, <3>2, MinIs
  <2>3. PICK q \in Nat, r \in 0..(n - 1) : q = d \div n /\ d = q * n + r
    <3>1. \E q \in Nat, r \in 0..(n - 1) : q = d \div n /\ r = d % n /\ d = q * n + r
      BY <1>2, <2>1, Divided, Zenon
    <3> QED BY <3>1, Zenon
  <2>4. PICK b \in Nat : b = q * n
    BY <2>3
  <2>5. PICK m \in Nat : m = IF r = 0 THEN s.at + b ELSE s.at + b + n
    BY <1>1, <2>4
  <2>6. ComputeNextRun(s, now) = m
    <3>1. ComputeNextRun(s, now) = NextSlotOf(s.at, n, now)
      BY <1>1, <1>2, <1>9 DEF ComputeNextRun
    <3>2. NextSlotOf(s.at, n, now) = IF s.at + b < now THEN s.at + b + n ELSE s.at + b
      BY <2>2, <2>3, <2>4 DEF NextSlotOf
    <3>3. s.at + b < now <=> r # 0
      BY <1>1, <2>1, <2>3, <2>4
    <3> QED BY <2>5, <3>1, <3>2, <3>3
  <2>7. m \in Left(s, now)
    <3>1. (b + n) = (q + 1) * n /\ b % n = 0
      BY <2>3, <2>4, MultiplesApart
    <3>2. (b + n) % n = 0
      <4>1. q + 1 \in Nat /\ 0 \in 0..(n - 1)
        OBVIOUS
      <4>2. ((q + 1) * n) % n = 0
        BY <4>1, MultiplesApart
      <4> QED BY <3>1, <4>2
    <3>3. (m - s.at) % n = 0
      <4>1. m - s.at = b \/ m - s.at = b + n
        BY <1>1, <2>4, <2>5
      <4> QED BY <3>1, <3>2, <4>1
    <3>4. m \in s.at..(s.at + Horizon) /\ m >= now
      BY <1>1, <1>3, <1>4, <2>1, <2>3, <2>4, <2>5, SMTT(30)
    <3> QED BY <1>5, <3>3, <3>4
  <2>8. ASSUME NEW t \in Left(s, now) PROVE m <= t
    <3>1. t \in Int /\ t >= s.at /\ t >= now /\ (t - s.at) % n = 0
      BY <1>1, <1>4, <1>5
    <3>2. PICK e \in Nat : e = t - s.at
      BY <1>1, <3>1
    <3>3. PICK k \in Nat : e = k * n
      <4>1. PICK k \in Nat, r1 \in 0..(n - 1) : k = e \div n /\ r1 = e % n /\ e = k * n + r1
        BY <3>2, Divided, Zenon
      <4>2. k * n \in Nat /\ r1 = 0
        BY <1>2, <3>1, <3>2, <4>1
      <4>3. e = k * n
        BY <4>1, <4>2
      <4> QED BY <4>3
    <3>4. b + r < k * n => b + n <= k * n
      BY <2>3, <2>4, MultiplesApart
    <3>5. PICK f \in Nat : f = k * n
      BY <3>3
    <3> QED
      <4>1. CASE r = 0
        <5>1. m = s.at + b /\ d = b
          BY <2>3, <2>4, <2>5, <4>1
        <5>2. m = now
          BY <1>1, <2>1, <5>1
        <5> QED BY <3>1, <5>2
      <4>2. CASE r # 0
        <5>1. b + r <= f /\ b + r \in Nat
          BY <1>1, <2>1, <2>3, <2>4, <3>1, <3>2, <3>3, <3>5
        <5>2. b + r # f
          <6>1. q * n + 0 < k * n => q * n + n <= k * n
            BY MultiplesApart
          <6> QED BY <2>3, <2>4, <3>5, <4>2, <6>1
        <5>3. b + n <= f
          BY <3>4, <3>5, <5>1, <5>2, <2>3, <2>4
        <5>4. t = s.at + f /\ m = s.at + b + n
          BY <1>1, <2>5, <3>1, <3>2, <3>3, <3>5, <4>2
        <5> QED BY <1>1, <2>4, <5>3, <5>4
      <4> QED BY <4>1, <4>2
  <2> QED BY <1>7, <2>6, <2>7, <2>8
<1> QED BY <1>1, <1>8, <1>9

\* A schedule is due at the earliest of its slots that its last computation
\* left, for every clock, every anchor and every table of a cron expression.
THEOREM SlotsAreKept == ScheduleTimeSpec => []NextRunIsEarliest
<1>1. TimesInv => NextRunIsEarliest
  <2> SUFFICES ASSUME TimesInv, enabled, spec.kind = "every" => computedFor - spec.at <= MaxDuration
               PROVE  nextRunAt = Earliest(spec, computedFor)
    BY DEF NextRunIsEarliest, Earliest, Left
  <2>1. spec \in Specs /\ computedFor \in 1..(LastInstant + 1) /\ nextRunAt = ComputeNextRun(spec, computedFor)
    BY DEF TimesInv
  <2>2. computedFor \in Nat \ {0}
    BY <2>1, ScheduleTimeAssumption
  <2>3. spec.kind \in {"at", "every", "cron"}
    BY <2>1 DEF Specs
  <2> QED BY <2>1, <2>2, <2>3, AtIsEarliest, CronIsEarliest, EveryIsEarliest
<1> QED BY <1>1, TimesStart, TimesStep, PTL DEF ScheduleTimeSpec

-----------------------------------------------------------------------------
(* A sorted set.                                                           *)

LinearOn(S, R) ==
  /\ \A d, e \in S : d # e => <<d, e>> \in R \/ <<e, d>> \in R
  /\ \A d \in S : <<d, d>> \notin R
  /\ \A d, e, f \in S : <<d, e>> \in R /\ <<e, f>> \in R => <<d, f>> \in R

Below1(S, R, e) == {d \in S : <<d, e>> \in R}
PlaceOf(S, R, e) == Cardinality(Below1(S, R, e)) + 1

LEMMA PlacesAreApart ==
  ASSUME NEW S, IsFiniteSet(S), NEW R, LinearOn(S, R)
  PROVE  /\ \A e \in S : PlaceOf(S, R, e) \in 1..Cardinality(S)
         /\ \A d, e \in S : <<d, e>> \in R => PlaceOf(S, R, d) < PlaceOf(S, R, e)
<1>1. Cardinality(S) \in Nat
  BY FS_CardinalityType
<1>2. ASSUME NEW e \in S PROVE IsFiniteSet(Below1(S, R, e)) /\ Cardinality(Below1(S, R, e)) \in Nat
  <2>1. Below1(S, R, e) \in SUBSET S
    BY DEF Below1
  <2> QED BY <2>1, FS_Subset, FS_CardinalityType
<1>3. ASSUME NEW e \in S PROVE Cardinality(Below1(S, R, e)) < Cardinality(S)
  <2>1. Below1(S, R, e) \in SUBSET S /\ e \notin Below1(S, R, e)
    BY DEF Below1, LinearOn
  <2>2. Cardinality(Below1(S, R, e)) <= Cardinality(S) /\ Cardinality(Below1(S, R, e)) # Cardinality(S)
    BY <2>1, FS_Subset
  <2> QED BY <1>1, <1>2, <2>2
<1>4. ASSUME NEW d \in S, NEW e \in S, <<d, e>> \in R
      PROVE  Cardinality(Below1(S, R, d)) < Cardinality(Below1(S, R, e))
  <2>1. Below1(S, R, d) \in SUBSET Below1(S, R, e)
    BY <1>4 DEF Below1, LinearOn
  <2>2. d \in Below1(S, R, e) /\ d \notin Below1(S, R, d)
    BY <1>4 DEF Below1, LinearOn
  <2>3. /\ Cardinality(Below1(S, R, d)) <= Cardinality(Below1(S, R, e))
        /\ Cardinality(Below1(S, R, d)) # Cardinality(Below1(S, R, e))
    BY <1>2, <2>1, <2>2, FS_Subset
  <2> QED BY <1>2, <2>3
<1>5. ASSUME NEW e \in S PROVE PlaceOf(S, R, e) \in 1..Cardinality(S)
  BY <1>1, <1>2, <1>3 DEF PlaceOf
<1>6. ASSUME NEW d \in S, NEW e \in S, <<d, e>> \in R PROVE PlaceOf(S, R, d) < PlaceOf(S, R, e)
  BY <1>2, <1>4, <1>6 DEF PlaceOf
<1> QED BY <1>5, <1>6

LEMMA SortedByIsSorted ==
  ASSUME NEW S, IsFiniteSet(S), NEW R, LinearOn(S, R)
  PROVE  /\ Cardinality(S) \in Nat
         /\ SortedBy(S, R) \in [1..Cardinality(S) -> S]
         /\ \A i, j \in 1..Cardinality(S) : i < j => <<SortedBy(S, R)[i], SortedBy(S, R)[j]>> \in R
         /\ \A e \in S : \E i \in 1..Cardinality(S) : SortedBy(S, R)[i] = e
<1> DEFINE n == Cardinality(S)
           place == [e \in S |-> PlaceOf(S, R, e)]
           t == SortedBy(S, R)
<1>1. n \in Nat
  BY FS_CardinalityType
<1>2. \A d, e \in S : PlaceOf(S, R, d) = PlaceOf(S, R, e) => d = e
  <2>1. SUFFICES ASSUME NEW d \in S, NEW e \in S, PlaceOf(S, R, d) = PlaceOf(S, R, e), d # e PROVE FALSE
    OBVIOUS
  <2>2. <<d, e>> \in R \/ <<e, d>> \in R
    BY <2>1 DEF LinearOn
  <2>3. PlaceOf(S, R, d) < PlaceOf(S, R, e) \/ PlaceOf(S, R, e) < PlaceOf(S, R, d)
    BY <2>2, PlacesAreApart
  <2>4. PlaceOf(S, R, d) \in Nat /\ PlaceOf(S, R, e) \in Nat
    BY <1>1, PlacesAreApart
  <2> QED BY <2>1, <2>3, <2>4
<1>3. place \in Injection(S, 1..n)
  BY <1>2, PlacesAreApart DEF Injection, IsInjective
<1>4. IsFiniteSet(1..n) /\ Cardinality(1..n) = n
  BY <1>1, FS_Interval
<1>5. place \in Surjection(S, 1..n)
  BY <1>3, <1>4, FS_Injection
<1>6. \A i \in 1..n : \E e \in S : PlaceOf(S, R, e) = i
  BY <1>5 DEF Surjection
<1>7. ASSUME NEW i \in 1..n PROVE t[i] \in S /\ PlaceOf(S, R, t[i]) = i
  <2>1. t[i] = CHOOSE e \in S : Cardinality(Below1(S, R, e)) = i - 1
    BY DEF SortedBy, Below1
  <2>2. PICK e \in S : PlaceOf(S, R, e) = i
    BY <1>6
  <2>3. Cardinality(Below1(S, R, e)) = i - 1
    <3>1. Cardinality(Below1(S, R, e)) \in Nat
      <4>1. Below1(S, R, e) \in SUBSET S
        BY DEF Below1
      <4> QED BY <4>1, FS_Subset, FS_CardinalityType
    <3> QED BY <2>2, <3>1 DEF PlaceOf
  <2>4. t[i] \in S /\ Cardinality(Below1(S, R, t[i])) = i - 1
    BY <2>1, <2>3
  <2> QED BY <1>1, <2>4 DEF PlaceOf
<1>8. t \in [1..n -> S]
  BY <1>7 DEF SortedBy
<1>9. ASSUME NEW i \in 1..n, NEW j \in 1..n, i < j PROVE <<t[i], t[j]>> \in R
  <2>1. t[i] # t[j] /\ t[i] \in S /\ t[j] \in S
    BY <1>1, <1>7, <1>9
  <2>2. ~(<<t[j], t[i]>> \in R)
    <3>1. SUFFICES ASSUME <<t[j], t[i]>> \in R PROVE FALSE
      OBVIOUS
    <3>2. PlaceOf(S, R, t[j]) < PlaceOf(S, R, t[i])
      BY <2>1, <3>1, PlacesAreApart
    <3> QED BY <1>1, <1>7, <1>9, <3>2
  <2> QED BY <2>1, <2>2 DEF LinearOn
<1>10. ASSUME NEW e \in S PROVE \E i \in 1..n : t[i] = e
  <2>1. PICK i \in 1..n : i = PlaceOf(S, R, e)
    BY PlacesAreApart
  <2>2. t[i] \in S /\ PlaceOf(S, R, t[i]) = PlaceOf(S, R, e)
    BY <1>7, <2>1
  <2> QED BY <1>2, <2>2
<1> HIDE DEF t
<1> QED BY <1>1, <1>8, <1>9, <1>10 DEF t

-----------------------------------------------------------------------------
(* A page that follows a run: what its writers journal.                    *)

EventRow == [at : Nat \ {0}, by : StreamWriters, silent : BOOLEAN]
WriterRow == [pc : {"idle", "stamped", "committed", "sending"},
              event : EventRow \cup {NotWriting.event}, to : Nat]
PageRow == [pc : {"away", "loaded", "history", "live"}, cursor : Nat, backlog : Seq(EventRow), conn : Nat]

StreamTyped == writer \in [StreamWriters -> WriterRow] /\ page \in PageRow

\* The stamps are those of one clock.
StampsOK ==
  /\ IsFiniteSet(Stamped) /\ Stamped \subseteq EventRow
  /\ \A e \in Stamped : e.at <= Cardinality(Stamped)
  /\ \A e, f \in Stamped : e.at = f.at => e = f

\* What a writer has in hand is its own, and newer than all that it has
\* journaled before.
WriterOK(w) ==
  /\ writer[w].pc # "idle" => writer[w].event \in EventRow /\ writer[w].event.by = w
  /\ writer[w].pc = "stamped" => \A e \in journaled : e.by = w => e.at < writer[w].event.at
  /\ writer[w].pc \in {"committed", "sending"} =>
       /\ writer[w].event \in journaled
       /\ \A e \in journaled : e.by = w => e.at <= writer[w].event.at

WritersInv == StreamTyped /\ StampsOK /\ \A w \in StreamWriters : WriterOK(w)

LEMMA StampedSame ==
  ASSUME journaled' = journaled,
         \A w \in StreamWriters : (writer'[w].pc = "stamped") <=> (writer[w].pc = "stamped"),
         \A w \in StreamWriters : writer[w].pc = "stamped" => writer'[w].event = writer[w].event
  PROVE  Stamped' = Stamped
BY DEF Stamped

\* A writer that goes on with what it has, or is done with it.
LEMMA WriterGoesOn ==
  ASSUME WritersInv, NEW w \in StreamWriters, NEW r \in WriterRow, page' \in PageRow,
         writer[w].pc \in {"committed", "sending"}, journaled' = journaled,
         writer' = [writer EXCEPT ![w] = r],
         r = NotWriting \/ (r.pc = "sending" /\ r.event = writer[w].event)
  PROVE  WritersInv'
<1>1. writer' \in [StreamWriters -> WriterRow] /\ writer'[w] = r
  BY DEF WritersInv, StreamTyped
<1>2. \A v \in StreamWriters : v # w => writer'[v] = writer[v]
  BY DEF WritersInv, StreamTyped
<1>3. r.pc \in {"idle", "sending"}
  <2>1. NotWriting.pc = "idle"
    BY DEF NotWriting
  <2> QED BY <2>1
<1>4. Stamped' = Stamped
  BY <1>1, <1>2, <1>3, StampedSame
<1>5. StampsOK'
  BY <1>4 DEF WritersInv, StampsOK
<1>6. ASSUME NEW v \in StreamWriters PROVE WriterOK(v)'
  <2>1. CASE v # w
    BY <1>2, <2>1 DEF WritersInv, WriterOK
  <2>2. CASE v = w
    <3>1. WriterOK(w)
      BY DEF WritersInv
    <3>2. CASE r = NotWriting
      BY <1>1, <2>2, <3>2 DEF WriterOK, NotWriting
    <3>3. CASE r.pc = "sending" /\ r.event = writer[w].event
      BY <1>1, <2>2, <3>1, <3>3 DEF WriterOK
    <3> QED BY <3>2, <3>3
  <2> QED BY <2>1, <2>2
<1> QED BY <1>1, <1>5, <1>6 DEF WritersInv, StreamTyped

LEMMA StampStep == ASSUME WritersInv, NEW w \in StreamWriters, Stamp(w) PROVE WritersInv'
<1>1. PICK silent \in BOOLEAN :
        writer' = [writer EXCEPT ![w].pc = "stamped",
                     ![w].event = [at |-> Cardinality(Stamped) + 1, by |-> w, silent |-> silent]]
  BY DEF Stamp
<1>2. PICK n \in Nat : n = Cardinality(Stamped)
  BY FS_CardinalityType DEF WritersInv, StampsOK
<1>3. PICK e \in EventRow : e = [at |-> n + 1, by |-> w, silent |-> silent]
  <2>1. n + 1 \in Nat \ {0}
    BY <1>2
  <2>2. [at |-> n + 1, by |-> w, silent |-> silent] \in EventRow
    BY <2>1 DEF EventRow
  <2> QED BY <2>2
<1>4. writer[w] \in WriterRow /\ writer \in [StreamWriters -> WriterRow] /\ writer[w].pc = "idle"
  BY DEF WritersInv, StreamTyped, Stamp
<1>5. PICK r : r = [writer[w] EXCEPT !.pc = "stamped", !.event = e]
  OBVIOUS
<1>6. r \in WriterRow /\ r.pc = "stamped" /\ r.event = e
  BY <1>4, <1>5 DEF WriterRow
<1>7. writer' = [writer EXCEPT ![w] = r]
  BY <1>1, <1>2, <1>3, <1>4, <1>5
<1>8. writer' \in [StreamWriters -> WriterRow] /\ writer'[w] = r
        /\ \A v \in StreamWriters : v # w => writer'[v] = writer[v]
  BY <1>4, <1>6, <1>7
<1>9. journaled' = journaled /\ page' = page
  BY DEF Stamp
<1>10. Stamped' = Stamped \cup {e}
  BY <1>4, <1>6, <1>8, <1>9 DEF Stamped
<1>11. Stamped \subseteq EventRow /\ \A f \in Stamped : f.at \in Nat /\ f.at <= n
  BY <1>2 DEF WritersInv, StampsOK, EventRow
<1>12. e.at = n + 1 /\ e.by = w
  BY <1>3
<1>13. e \notin Stamped
  BY <1>2, <1>11, <1>12
<1>14. IsFiniteSet(Stamped') /\ Cardinality(Stamped') = n + 1
  BY <1>2, <1>10, <1>13, FS_AddElement DEF WritersInv, StampsOK
<1>15. StampsOK'
  <2>1. Stamped' \subseteq EventRow
    BY <1>10, <1>11
  <2>2. \A f \in Stamped' : f.at <= n + 1
    BY <1>2, <1>10, <1>11, <1>12
  <2>3. \A f, g \in Stamped' : f.at = g.at => f = g
    BY <1>2, <1>10, <1>11, <1>12 DEF WritersInv, StampsOK
  <2> QED BY <1>14, <2>1, <2>2, <2>3 DEF StampsOK
<1>16. ASSUME NEW v \in StreamWriters PROVE WriterOK(v)'
  <2>1. CASE v # w
    BY <1>8, <1>9, <2>1 DEF WritersInv, WriterOK
  <2>2. CASE v = w
    <3>1. \A f \in journaled : f.at < e.at
      BY <1>2, <1>11, <1>12 DEF Stamped
    <3> QED BY <1>3, <1>6, <1>8, <1>9, <1>12, <2>2, <3>1 DEF WriterOK
  <2> QED BY <2>1, <2>2
<1> QED BY <1>8, <1>9, <1>15, <1>16 DEF WritersInv, StreamTyped

LEMMA CommitStep ==
  ASSUME WritersInv, NEW w \in StreamWriters, Commit(w)
  PROVE  /\ WritersInv' /\ writer[w].event \in EventRow
         /\ writer[w].event.silent \/ (writer'[w].pc = "committed" /\ writer'[w].event = writer[w].event)
         /\ \A v \in StreamWriters : v # w => writer'[v] = writer[v]
<1>1. writer[w] \in WriterRow /\ writer \in [StreamWriters -> WriterRow] /\ writer[w].pc = "stamped"
  BY DEF WritersInv, StreamTyped, Commit
<1>2. PICK e \in EventRow : e = writer[w].event /\ e.by = w /\ \A f \in journaled : f.by = w => f.at < e.at
  BY <1>1 DEF WritersInv, WriterOK
<1>3. PICK r : r = IF e.silent THEN NotWriting ELSE [writer[w] EXCEPT !.pc = "committed"]
  OBVIOUS
<1>4. NotWriting \in WriterRow /\ NotWriting.pc = "idle"
  BY DEF NotWriting, WriterRow
<1>5. [writer[w] EXCEPT !.pc = "committed"] \in WriterRow
  BY <1>1 DEF WriterRow
<1>6. r \in WriterRow /\ (e.silent => r = NotWriting) /\ (~e.silent => r.pc = "committed" /\ r.event = e)
  <2>1. CASE e.silent
    BY <1>3, <1>4, <2>1
  <2>2. CASE ~e.silent
    BY <1>1, <1>2, <1>3, <1>5, <2>2 DEF WriterRow
  <2> QED BY <2>1, <2>2
<1>7. writer' = [writer EXCEPT ![w] = r] /\ journaled' = journaled \cup {e} /\ page' = page
  BY <1>2, <1>3 DEF Commit
<1>8. /\ writer' \in [StreamWriters -> WriterRow] /\ writer'[w] = r
      /\ \A v \in StreamWriters : v # w => writer'[v] = writer[v]
  BY <1>1, <1>6, <1>7
<1>9. e \in Stamped /\ r.pc # "stamped"
  BY <1>1, <1>2, <1>4, <1>6 DEF Stamped
<1>10. Stamped' = Stamped
  BY <1>1, <1>2, <1>7, <1>8, <1>9 DEF Stamped
<1>11. StampsOK'
  BY <1>10 DEF WritersInv, StampsOK
<1>12. ASSUME NEW v \in StreamWriters PROVE WriterOK(v)'
  <2>1. CASE v # w
    <3>1. WriterOK(v) /\ e.by # v
      BY <1>2, <2>1 DEF WritersInv
    <3> QED BY <1>7, <1>8, <2>1, <3>1 DEF WriterOK
  <2>2. CASE v = w
    <3>1. \A f \in journaled' : f.by = w => f.at <= e.at
      <4>1. journaled \subseteq EventRow
        BY DEF WritersInv, StampsOK, Stamped
      <4> QED BY <1>2, <1>7, <4>1 DEF EventRow
    <3>2. CASE e.silent
      BY <1>4, <1>6, <1>8, <2>2, <3>2 DEF WriterOK
    <3>3. CASE ~e.silent
      BY <1>2, <1>6, <1>7, <1>8, <2>2, <3>1, <3>3 DEF WriterOK
    <3> QED BY <3>2, <3>3
  <2> QED BY <2>1, <2>2
<1> QED BY <1>2, <1>6, <1>7, <1>8, <1>11, <1>12 DEF WritersInv, StreamTyped

-----------------------------------------------------------------------------
(* What the page is sent. The lemmas here are about sequences of events as  *)
(* such: d is delivered, b the backlog, c the channel, k the cursor.        *)

Among(s, S) == s \in Seq(EventRow) /\ \A i \in 1..Len(s) : s[i] \in S
Grown(s, e, t) ==
  /\ Len(s) \in Nat /\ Len(t) = Len(s) + 1
  /\ \A i \in 1..Len(s) : t[i] = s[i]
  /\ t[Len(s) + 1] = e
Shrunk(s, t) ==
  /\ Len(t) \in Nat /\ Len(s) = Len(t) + 1
  /\ \A i \in 1..Len(t) : t[i] = s[i + 1]

OldestFirst(b) == \A i, j \in 1..Len(b) : i < j => b[i].at < b[j].at
Older(d, b) == \A i \in 1..Len(d), j \in 1..Len(b) : d[i].at < b[j].at
ByWriter(c) == \A i, j \in 1..Len(c) : i < j /\ c[i].by = c[j].by => c[i].at <= c[j].at
\* What the channel has, and the page has not been sent, is newer than what it
\* has been sent of the same writer.
News(c, X, k) ==
  \A i \in 1..Len(c) : c[i].at > k /\ c[i] \notin X =>
    \A x \in X : x.by = c[i].by => x.at < c[i].at
Once(d) == \A i, j \in 1..Len(d) : i # j => d[i] # d[j]
Orderly(d, k) ==
  \A i, j \in 1..Len(d) : i < j /\ d[i].by = d[j].by /\ d[j].at > k => d[i].at < d[j].at

LEMMA RowsHaveTimes == ASSUME NEW s \in Seq(EventRow) PROVE \A i \in 1..Len(s) : s[i].at \in Nat
<1>1. \A i \in 1..Len(s) : s[i] \in EventRow
  BY ElementOfSeq
<1> QED BY <1>1 DEF EventRow

LEMMA AppendGrows ==
  ASSUME NEW S, NEW s, Among(s, S), NEW e \in EventRow \cap S
  PROVE  /\ Among(Append(s, e), S) /\ Grown(s, e, Append(s, e))
         /\ ToSet(Append(s, e)) = ToSet(s) \cup {e}
<1>1. s \in Seq(EventRow) /\ Len(s) \in Nat /\ DOMAIN s = 1..Len(s)
  BY LenProperties DEF Among
<1>2. Append(s, e) \in Seq(EventRow) /\ Grown(s, e, Append(s, e))
  BY <1>1, AppendProperties DEF Grown
<1>3. DOMAIN Append(s, e) = 1..(Len(s) + 1)
  BY <1>2, LenProperties DEF Grown
<1>4. Among(Append(s, e), S)
  BY <1>1, <1>2 DEF Among, Grown
<1>5. \A x \in ToSet(Append(s, e)) : x \in ToSet(s) \cup {e}
  BY <1>1, <1>2, <1>3 DEF ToSet, Grown
<1>6. \A x \in ToSet(s) : x \in ToSet(Append(s, e))
  <2>1. ASSUME NEW i \in 1..Len(s) PROVE s[i] \in ToSet(Append(s, e))
    BY <1>1, <1>2, <1>3 DEF ToSet, Grown
  <2> QED BY <1>1, <2>1 DEF ToSet
<1>7. e \in ToSet(Append(s, e))
  BY <1>1, <1>2, <1>3 DEF ToSet, Grown
<1> QED BY <1>2, <1>4, <1>5, <1>6, <1>7

LEMMA TailShrinks ==
  ASSUME NEW S, NEW s, Among(s, S), s # <<>>
  PROVE  /\ Among(Tail(s), S) /\ Shrunk(s, Tail(s)) /\ Head(s) = s[1]
         /\ s[1] \in EventRow \cap S /\ 1 \in 1..Len(s)
         /\ ToSet(s) = {s[1]} \cup ToSet(Tail(s))
<1>1. s \in Seq(EventRow) /\ Len(s) \in Nat \ {0} /\ DOMAIN s = 1..Len(s)
  BY LenProperties, EmptySeq DEF Among
<1>2. Tail(s) \in Seq(EventRow) /\ Shrunk(s, Tail(s)) /\ Head(s) = s[1]
  <2>1. Tail(s) \in Seq(EventRow) /\ Len(Tail(s)) = Len(s) - 1
          /\ \A i \in 1..Len(Tail(s)) : Tail(s)[i] = s[i + 1]
    BY <1>1, HeadTailProperties
  <2> QED BY <1>1, <2>1 DEF Shrunk
<1>3. DOMAIN Tail(s) = 1..(Len(s) - 1) /\ Len(Tail(s)) = Len(s) - 1
  BY <1>1, <1>2, LenProperties DEF Shrunk
<1>4. Among(Tail(s), S)
  BY <1>1, <1>2, <1>3 DEF Among, Shrunk
<1>5. s[1] \in EventRow \cap S
  BY <1>1, ElementOfSeq DEF Among
<1>6. \A x \in ToSet(Tail(s)) : x \in ToSet(s)
  <2>1. ASSUME NEW i \in 1..Len(Tail(s)) PROVE Tail(s)[i] \in ToSet(s)
    BY <1>1, <1>2, <1>3 DEF ToSet, Shrunk
  <2> QED BY <1>3, <2>1 DEF ToSet
<1>7. \A x \in ToSet(s) : x = s[1] \/ x \in ToSet(Tail(s))
  <2>1. ASSUME NEW i \in 1..Len(s), i # 1 PROVE s[i] \in ToSet(Tail(s))
    <3>1. i - 1 \in 1..Len(Tail(s)) /\ Tail(s)[i - 1] = s[i]
      BY <1>1, <1>2, <1>3, <2>1 DEF Shrunk
    <3> QED BY <1>3, <3>1 DEF ToSet
  <2> QED BY <1>1, <2>1 DEF ToSet
<1>8. s[1] \in ToSet(s)
  BY <1>1 DEF ToSet
<1> QED BY <1>1, <1>2, <1>4, <1>5, <1>6, <1>7, <1>8

\* The next event of the backlog is written.
LEMMA BackfillKeeps ==
  ASSUME NEW k, NEW d \in Seq(EventRow), NEW b \in Seq(EventRow), NEW t, NEW u,
         OldestFirst(b), Older(d, b), Once(d), Orderly(d, k),
         Shrunk(b, u), Grown(d, b[1], t)
  PROVE  OldestFirst(u) /\ Older(t, u) /\ Once(t) /\ Orderly(t, k)
<1>1. \A i \in 1..Len(b) : b[i].at \in Nat
  BY RowsHaveTimes
<1>2. \A i \in 1..Len(d) : d[i].at \in Nat
  BY RowsHaveTimes
<1>3. 1 \in 1..Len(b) /\ \A i \in 1..Len(u) : i + 1 \in 1..Len(b) /\ u[i] = b[i + 1]
  BY DEF Shrunk
<1>4. \A i \in 1..Len(d) : t[i] = d[i] /\ d[i].at < b[1].at
  BY <1>3 DEF Grown, Older
<1>5. \A i \in 1..Len(t) : i \in 1..Len(d) \/ (i = Len(d) + 1 /\ t[i] = b[1])
  BY DEF Grown
<1>6. \A i \in 1..Len(u) : b[1].at < u[i].at
  <2> SUFFICES ASSUME NEW i \in 1..Len(u) PROVE b[1].at < u[i].at
    OBVIOUS
  <2>1. i + 1 \in 1..Len(b) /\ u[i] = b[i + 1] /\ 1 < i + 1 /\ 1 \in 1..Len(b)
    BY <1>3
  <2>2. \A x, y \in 1..Len(b) : x < y => b[x].at < b[y].at
    BY DEF OldestFirst
  <2>3. b[1].at < b[i + 1].at
    BY <2>1, <2>2
  <2> QED BY <2>1, <2>3
<1>7. OldestFirst(u)
  <2>1. \A i, j \in 1..Len(u) : i < j => i + 1 < j + 1
    BY DEF Shrunk
  <2> QED BY <1>3, <2>1 DEF OldestFirst
<1>8. Older(t, u)
  BY <1>1, <1>2, <1>3, <1>4, <1>5, <1>6 DEF Older
<1>9. Len(d) \in Nat
  BY DEF Grown
<1>10. Once(t)
  BY <1>1, <1>2, <1>3, <1>4, <1>5, <1>9 DEF Once
<1>11. Orderly(t, k)
  BY <1>1, <1>2, <1>3, <1>4, <1>5, <1>9 DEF Orderly
<1> QED BY <1>7, <1>8, <1>10, <1>11

\* The next event of the channel is written, if it is not known.
Apart(c) == \A i, j \in 1..Len(c) : c[i].at = c[j].at => c[i] = c[j]

LEMMA TakenInTurn ==
  ASSUME NEW k, NEW c \in Seq(EventRow), NEW u, NEW X,
         Apart(c), News(c, X, k), ByWriter(c), Shrunk(c, u)
  PROVE  News(u, X \cup {c[1]}, k) /\ ByWriter(u)
<1>1. \A i \in 1..Len(c) : c[i].at \in Nat
  BY RowsHaveTimes
<1>2. 1 \in 1..Len(c) /\ \A i \in 1..Len(u) : i + 1 \in 1..Len(c) /\ u[i] = c[i + 1] /\ 1 < i + 1
  BY DEF Shrunk
<1>3. ByWriter(u)
  <2>1. \A i, j \in 1..Len(u) : i < j => i + 1 < j + 1
    BY DEF Shrunk
  <2> SUFFICES ASSUME NEW i \in 1..Len(u), NEW j \in 1..Len(u), i < j, u[i].by = u[j].by
               PROVE  u[i].at <= u[j].at
    BY DEF ByWriter
  <2>2. /\ i + 1 \in 1..Len(c) /\ j + 1 \in 1..Len(c) /\ i + 1 < j + 1
        /\ u[i] = c[i + 1] /\ u[j] = c[j + 1]
    BY <1>2, <2>1
  <2> QED BY <2>2 DEF ByWriter
<1>4. News(u, X \cup {c[1]}, k)
  <2> SUFFICES ASSUME NEW i \in 1..Len(u), u[i].at > k, u[i] \notin X \cup {c[1]},
                      NEW x \in X \cup {c[1]}, x.by = u[i].by
               PROVE  x.at < u[i].at
    BY DEF News
  <2>1. u[i] = c[i + 1] /\ i + 1 \in 1..Len(c) /\ 1 < i + 1 /\ 1 \in 1..Len(c)
    BY <1>2
  <2>2. CASE x \in X
    BY <2>1, <2>2 DEF News
  <2>3. CASE x = c[1]
    <3>1. x.at <= u[i].at /\ x.at # u[i].at
      BY <2>1, <2>3 DEF ByWriter, Apart
    <3> QED BY <1>1, <2>1, <2>3, <3>1
  <2> QED BY <2>2, <2>3
<1> QED BY <1>3, <1>4

LEMMA WrittenInOrder ==
  ASSUME NEW k, NEW c, NEW d \in Seq(EventRow), NEW t, News(c, ToSet(d), k), 1 \in 1..Len(c),
         Once(d), Orderly(d, k), c[1] \notin ToSet(d), Grown(d, c[1], t)
  PROVE  Once(t) /\ Orderly(t, k)
<1>1. \A i \in 1..Len(d) : d[i] \in ToSet(d)
  BY LenProperties DEF ToSet
<1>2. Len(d) \in Nat /\ \A i \in 1..Len(d) : t[i] = d[i] /\ d[i] # c[1]
  BY <1>1 DEF Grown
<1>3. \A i \in 1..Len(t) : i \in 1..Len(d) \/ (i = Len(d) + 1 /\ t[i] = c[1])
  BY DEF Grown
<1>4. Once(t)
  BY <1>2, <1>3, SMTT(30) DEF Once
<1>5. \A i \in 1..Len(d) : c[1].at > k /\ d[i].by = c[1].by => d[i].at < c[1].at
  BY <1>1 DEF News
<1>6. Orderly(t, k)
  <2> SUFFICES ASSUME NEW i \in 1..Len(t), NEW j \in 1..Len(t), i < j, t[i].by = t[j].by, t[j].at > k
               PROVE  t[i].at < t[j].at
    BY DEF Orderly
  <2>1. i \in 1..Len(d) /\ t[i] = d[i]
    BY <1>2, <1>3
  <2>2. CASE j \in 1..Len(d)
    BY <1>2, <2>1, <2>2 DEF Orderly
  <2>3. CASE t[j] = c[1]
    BY <1>5, <2>1, <2>3
  <2> QED BY <1>3, <2>2, <2>3
<1> QED BY <1>4, <1>6

\* The newest event of its writer comes into the channel.
NewestIn(e, X) == \A x \in X : x.by = e.by => x.at < e.at \/ x = e

LEMMA SendIsNews ==
  ASSUME NEW k, NEW c, NEW u, NEW X, NEW e, News(c, X, k), Grown(c, e, u), NewestIn(e, X)
  PROVE  News(u, X, k)
<1>1. Len(c) \in Nat /\ \A i \in 1..Len(c) : u[i] = c[i]
  BY DEF Grown
<1>2. \A i \in 1..Len(u) : i \in 1..Len(c) \/ (i = Len(c) + 1 /\ u[i] = e)
  BY DEF Grown
<1>3. \A x \in X : e \notin X /\ x.by = e.by => x.at < e.at
  BY DEF NewestIn
<1> QED BY <1>1, <1>2, <1>3 DEF News

LEMMA SendInTurn ==
  ASSUME NEW c, NEW u, NEW X, NEW e \in EventRow, ByWriter(c), Grown(c, e, u), NewestIn(e, X),
         X \subseteq EventRow, Among(c, X)
  PROVE  ByWriter(u)
<1>1. Len(c) \in Nat /\ \A i \in 1..Len(c) : u[i] = c[i] /\ c[i] \in X
  BY DEF Grown, Among
<1>2. \A i \in 1..Len(u) : i \in 1..Len(c) \/ (i = Len(c) + 1 /\ u[i] = e)
  BY DEF Grown
<1>3. \A x \in X : x.by = e.by => x.at <= e.at
  BY DEF NewestIn, EventRow
<1> QED BY <1>1, <1>2, <1>3 DEF ByWriter

-----------------------------------------------------------------------------
(* The steps of a page and of the writers that it follows.                 *)

Sent == ToSet(delivered) \cup ToSet(page.backlog)

PageSeqs ==
  /\ Among(channel, journaled) /\ Among(delivered, journaled) /\ Among(page.backlog, journaled)
  /\ page.pc # "live" => delivered = <<>> /\ page.backlog = <<>>
PageOrder ==
  /\ OldestFirst(page.backlog) /\ Older(delivered, page.backlog)
  /\ ByWriter(channel) /\ News(channel, Sent, page.cursor)
  /\ Once(delivered) /\ Orderly(delivered, page.cursor)

StreamInv == WritersInv /\ PageSeqs /\ PageOrder /\ NothingMissed

LEMMA StreamFacts ==
  ASSUME StreamInv
  PROVE  /\ journaled \subseteq Stamped /\ journaled \subseteq EventRow
         /\ \A e, f \in journaled : e.at = f.at => e = f
         /\ writer \in [StreamWriters -> WriterRow] /\ page \in PageRow
         /\ \A w \in StreamWriters : writer[w] \in WriterRow /\ WriterOK(w)
         /\ channel \in Seq(EventRow) /\ delivered \in Seq(EventRow) /\ page.backlog \in Seq(EventRow)
BY DEF StreamInv, WritersInv, StreamTyped, StampsOK, Stamped, PageSeqs, Among

LEMMA StreamStart == RunStreamInit => StreamInv
<1> SUFFICES ASSUME RunStreamInit PROVE StreamInv
  OBVIOUS
<1>1. NotWriting \in WriterRow /\ NotWriting.pc = "idle"
  BY DEF NotWriting, WriterRow
<1>2. page \in PageRow /\ page.pc = "away" /\ page.backlog = <<>> /\ writer \in [StreamWriters -> WriterRow]
  BY <1>1 DEF RunStreamInit, PageRow
<1>3. Stamped = {}
  BY <1>1 DEF RunStreamInit, Stamped
<1>4. WritersInv
  <2>1. StampsOK
    BY <1>3, FS_EmptySet DEF StampsOK
  <2>2. \A w \in StreamWriters : WriterOK(w)
    BY <1>1 DEF RunStreamInit, WriterOK
  <2> QED BY <1>2, <2>1, <2>2 DEF WritersInv, StreamTyped
<1>5. \A S : Among(<<>>, S)
  BY DEF Among
<1>6. PageSeqs
  BY <1>2, <1>5 DEF RunStreamInit, PageSeqs
<1>7. PageOrder
  BY <1>2 DEF RunStreamInit, PageOrder, OldestFirst, Older, ByWriter, News, Once, Orderly
<1> QED BY <1>2, <1>4, <1>6, <1>7 DEF StreamInv, NothingMissed

\* A writer has the event in hand for this connection.
Bringing(w, e) ==
  /\ writer[w].event = e
  /\ writer[w].pc = "committed" \/ (writer[w].pc = "sending" /\ writer[w].to = page.conn)

Arrived(e) ==
  \/ e \in ToSet(page.backlog) \cup ToSet(delivered) \cup ToSet(channel) \cup overflowed
  \/ e.silent

LEMMA MissedIsOne ==
  NothingMissed <=>
    (page.pc = "live" =>
       \A e \in journaled : e.at > page.cursor =>
         Arrived(e) \/ \E w \in StreamWriters : Bringing(w, e))
BY DEF NothingMissed, OnItsWay, Bringing, Arrived

\* A step of a writer that has nothing to say to the page.
LEMMA PageUnmoved ==
  ASSUME StreamInv, WritersInv', NEW w \in StreamWriters,
         UNCHANGED <<page, channel, delivered, overflowed>>,
         journaled \subseteq journaled',
         \A v \in StreamWriters : v # w => writer'[v] = writer[v],
         \A e \in journaled' : Bringing(w, e) \/ e \notin journaled => Bringing(w, e)' \/ Arrived(e)
  PROVE  StreamInv'
<1>1. page.backlog' = page.backlog /\ Sent' = Sent /\ \A e : Arrived(e)' <=> Arrived(e)
  BY DEF Sent, Arrived
<1>2. PageSeqs'
  BY <1>1 DEF StreamInv, PageSeqs, Among
<1>3. PageOrder'
  BY <1>1 DEF StreamInv, PageOrder
<1>4. ASSUME page.pc = "live", NEW e \in journaled', e.at > page.cursor
      PROVE  Arrived(e) \/ \E v \in StreamWriters : Bringing(v, e)'
  <2>1. CASE e \in journaled
    <3>1. Arrived(e) \/ \E v \in StreamWriters : Bringing(v, e)
      BY <1>4, <2>1, MissedIsOne DEF StreamInv
    <3>2. ASSUME NEW v \in StreamWriters, Bringing(v, e), v # w PROVE Bringing(v, e)'
      BY <3>2 DEF Bringing
    <3> QED BY <1>4, <3>1, <3>2
  <2>2. CASE e \notin journaled
    BY <1>4, <2>2
  <2> QED BY <2>1, <2>2
<1>5. NothingMissed'
  BY <1>1, <1>4 DEF NothingMissed, OnItsWay, Bringing, Arrived
<1> QED BY <1>2, <1>3, <1>5 DEF StreamInv

LEMMA StampKeepsStream == ASSUME StreamInv, NEW w \in StreamWriters, Stamp(w) PROVE StreamInv'
<1>1. WritersInv'
  BY StampStep DEF StreamInv
<1>2. writer[w].pc = "idle" /\ UNCHANGED <<journaled, page, channel, delivered, overflowed>>
  BY DEF Stamp
<1>3. \A v \in StreamWriters : v # w => writer'[v] = writer[v]
  BY StreamFacts DEF Stamp
<1>4. \A e : ~Bringing(w, e)
  BY <1>2 DEF Bringing
<1> QED BY <1>1, <1>2, <1>3, <1>4, PageUnmoved

LEMMA CommitKeepsStream == ASSUME StreamInv, NEW w \in StreamWriters, Commit(w) PROVE StreamInv'
<1>1. /\ WritersInv' /\ writer[w].event \in EventRow
      /\ writer[w].event.silent \/ (writer'[w].pc = "committed" /\ writer'[w].event = writer[w].event)
      /\ \A v \in StreamWriters : v # w => writer'[v] = writer[v]
  BY CommitStep DEF StreamInv
<1>2. /\ writer[w].pc = "stamped" /\ journaled' = journaled \cup {writer[w].event}
      /\ UNCHANGED <<page, channel, delivered, overflowed>>
  BY DEF Commit
<1>3. \A e : ~Bringing(w, e)
  BY <1>2 DEF Bringing
<1>e. PICK x \in EventRow : x = writer[w].event
  BY <1>1
<1>4. Bringing(w, x)' \/ Arrived(x)
  <2>1. CASE x.silent
    BY <2>1 DEF Arrived
  <2>2. CASE writer'[w].pc = "committed" /\ writer'[w].event = x
    BY <2>2 DEF Bringing
  <2> QED BY <1>1, <1>e, <2>1, <2>2
<1>5. \A e \in journaled' : Bringing(w, e) \/ e \notin journaled => Bringing(w, e)' \/ Arrived(e)
  BY <1>2, <1>3, <1>4, <1>e
<1>6. journaled \subseteq journaled'
  BY <1>2
<1> QED BY <1>1, <1>2, <1>5, <1>6, PageUnmoved

LEMMA CopyKeepsStream == ASSUME StreamInv, NEW w \in StreamWriters, CopySubscribers(w) PROVE StreamInv'
<1>1. /\ writer[w] \in WriterRow /\ writer \in [StreamWriters -> WriterRow] /\ writer[w].pc = "committed"
      /\ page \in PageRow /\ UNCHANGED <<journaled, page, channel, delivered, overflowed>>
  BY StreamFacts DEF CopySubscribers
<1>2. PICK to \in Nat : to = IF Registered THEN page.conn ELSE 0
  BY <1>1 DEF PageRow
<1>3. PICK r : r = [writer[w] EXCEPT !.pc = "sending", !.to = to]
  OBVIOUS
<1>4. r \in WriterRow /\ r.pc = "sending" /\ r.event = writer[w].event /\ r.to = to
  BY <1>1, <1>2, <1>3 DEF WriterRow
<1>5. writer' = [writer EXCEPT ![w] = r]
  BY <1>1, <1>2, <1>3 DEF CopySubscribers
<1>6. writer'[w] = r /\ \A v \in StreamWriters : v # w => writer'[v] = writer[v]
  BY <1>1, <1>5
<1>7. WritersInv'
  BY <1>1, <1>4, <1>5, WriterGoesOn DEF StreamInv
<1>8. CASE page.pc = "live"
  <2>1. to = page.conn
    BY <1>2, <1>8 DEF Registered
  <2>2. \A e : Bringing(w, e) => Bringing(w, e)'
    BY <1>1, <1>4, <1>6, <2>1 DEF Bringing
  <2> QED BY <1>1, <1>6, <1>7, <2>2, PageUnmoved
<1>9. CASE page.pc # "live"
  <2>1. page.backlog' = page.backlog /\ Sent' = Sent
    BY <1>1 DEF Sent
  <2>2. PageSeqs' /\ PageOrder'
    BY <1>1, <2>1 DEF StreamInv, PageSeqs, PageOrder
  <2> QED BY <1>1, <1>7, <1>9, <2>2 DEF StreamInv, NothingMissed
<1> QED BY <1>8, <1>9

LEMMA SendKeepsStream == ASSUME StreamInv, NEW w \in StreamWriters, SendEvent(w) PROVE StreamInv'
<1>1. /\ writer[w] \in WriterRow /\ writer \in [StreamWriters -> WriterRow] /\ writer[w].pc = "sending"
      /\ page \in PageRow /\ UNCHANGED <<journaled, page, delivered>>
  BY StreamFacts DEF SendEvent
<1>2. writer' = [writer EXCEPT ![w] = NotWriting]
  BY DEF SendEvent
<1>3. NotWriting \in WriterRow
  BY DEF NotWriting, WriterRow
<1>4. WritersInv'
  BY <1>1, <1>2, <1>3, WriterGoesOn DEF StreamInv
<1>5. \A v \in StreamWriters : v # w => writer'[v] = writer[v]
  BY <1>1, <1>2
<1>6. PICK e \in EventRow \cap journaled : e = writer[w].event
  BY <1>1, StreamFacts DEF WriterOK
<1>7. page.backlog' = page.backlog /\ Sent' = Sent
  BY <1>1 DEF Sent
<1>8. \A x \in journaled : x.by = e.by => x.at <= e.at
  BY <1>1, <1>6, StreamFacts DEF WriterOK
<1>9. CASE writer[w].to = page.conn /\ Registered /\ Room
  <2>1. channel' = Append(channel, e) /\ overflowed' = overflowed
    BY <1>6, <1>9 DEF SendEvent
  <2>2. /\ Among(channel', journaled) /\ Grown(channel, e, channel')
        /\ ToSet(channel') = ToSet(channel) \cup {e}
    BY <1>6, <2>1, AppendGrows DEF StreamInv, PageSeqs
  <2>3. Sent \subseteq journaled
    <3>1. \A s : Among(s, journaled) => ToSet(s) \subseteq journaled
      BY LenProperties DEF Among, ToSet
    <3> QED BY <3>1 DEF Sent, StreamInv, PageSeqs
  <2>4. \A x \in journaled : x.at = e.at => x = e
    BY <1>6, StreamFacts
  <2>5. News(channel', Sent, page.cursor) /\ ByWriter(channel')
    <3>1. NewestIn(e, journaled) /\ NewestIn(e, Sent)
      <4>1. \A x \in journaled : x.at \in Nat /\ e.at \in Nat
        BY StreamFacts DEF EventRow
      <4> QED BY <1>8, <2>3, <2>4, <4>1 DEF NewestIn
    <3>2. News(channel, Sent, page.cursor) /\ ByWriter(channel) /\ Among(channel, journaled)
      BY DEF StreamInv, PageOrder, PageSeqs
    <3>3. PICK u : u = channel'
      OBVIOUS
    <3>4. Grown(channel, e, u)
      BY <2>2, <3>3
    <3>5. News(u, Sent, page.cursor)
      BY <3>1, <3>2, <3>4, SendIsNews
    <3>6. ByWriter(u)
      BY <3>1, <3>2, <3>4, StreamFacts, SendInTurn
    <3> QED BY <3>3, <3>5, <3>6
  <2>6. PageSeqs' /\ PageOrder'
    BY <1>1, <1>7, <2>2, <2>5 DEF StreamInv, PageSeqs, PageOrder
  <2>7. \A x : Arrived(x) \/ Bringing(w, x) => Arrived(x)'
    BY <1>1, <1>6, <2>1, <2>2 DEF Arrived, Bringing
  <2>8. \A x : \A v \in StreamWriters : v # w /\ Bringing(v, x) => Bringing(v, x)'
    BY <1>1, <1>5 DEF Bringing
  <2>9. NothingMissed'
    BY <1>1, <2>7, <2>8, MissedIsOne DEF StreamInv, NothingMissed, OnItsWay, Bringing, Arrived
  <2> QED BY <1>4, <2>6, <2>9 DEF StreamInv
<1>10. CASE ~(writer[w].to = page.conn /\ Registered /\ Room)
  <2>1. channel' = channel
    BY <1>10 DEF SendEvent
  <2>2. PageSeqs' /\ PageOrder'
    BY <1>1, <1>7, <2>1 DEF StreamInv, PageSeqs, PageOrder
  <2>3. overflowed \subseteq overflowed'
          /\ (page.pc = "live" /\ writer[w].to = page.conn => e \in overflowed')
    BY <1>6, <1>10 DEF SendEvent, Registered
  <2>4. \A x : Arrived(x) \/ (page.pc = "live" /\ Bringing(w, x)) => Arrived(x)'
    BY <1>1, <1>6, <2>1, <2>3 DEF Arrived, Bringing
  <2>5. \A x : \A v \in StreamWriters : v # w /\ Bringing(v, x) => Bringing(v, x)'
    BY <1>1, <1>5 DEF Bringing
  <2>6. NothingMissed'
    BY <1>1, <2>4, <2>5, MissedIsOne DEF StreamInv, NothingMissed, OnItsWay, Bringing, Arrived
  <2> QED BY <1>4, <2>2, <2>6 DEF StreamInv
<1> QED BY <1>9, <1>10

\* A query's result in the order of a time, or of a number.
LEMMA SortedSeq ==
  ASSUME NEW S, IsFiniteSet(S), NEW R, LinearOn(S, R), NEW T, S \subseteq T, NEW t, t = SortedBy(S, R)
  PROVE  /\ t \in Seq(T) /\ ToSet(t) = S /\ Len(t) = Cardinality(S)
         /\ \A i \in 1..Len(t) : t[i] \in S
         /\ \A i, j \in 1..Len(t) : i < j => <<t[i], t[j]>> \in R
<1>1. PICK n \in Nat : n = Cardinality(S)
  BY SortedByIsSorted
<1>2. /\ t \in [1..n -> S]
      /\ \A i, j \in 1..n : i < j => <<t[i], t[j]>> \in R
      /\ \A e \in S : \E i \in 1..n : t[i] = e
  BY <1>1, SortedByIsSorted
<1>3. t \in Seq(S) /\ t \in Seq(T) /\ Len(t) = n /\ DOMAIN t = 1..n
  <2>1. t \in Seq(S)
    BY <1>1, <1>2, SeqDef
  <2>2. DOMAIN t = 1..n /\ DOMAIN t = 1..Len(t) /\ Len(t) \in Nat
    BY <1>2, <2>1, LenProperties
  <2>3. Len(t) = n
    BY <1>1, <2>2
  <2> QED BY <2>1, <2>2, <2>3, SeqMonotonic
<1>4. ToSet(t) = S
  <2>1. \A x \in ToSet(t) : x \in S
    BY <1>2, <1>3 DEF ToSet
  <2>2. \A x \in S : x \in ToSet(t)
    BY <1>2, <1>3 DEF ToSet
  <2> QED BY <2>1, <2>2
<1> QED BY <1>1, <1>2, <1>3, <1>4

LEMMA MaxExists ==
  ASSUME NEW S, S \subseteq Nat, S # {}, NEW n \in Nat, \A x \in S : x <= n
  PROVE  Max(S) \in S
<1>1. IsFiniteSet(S)
  BY FS_BoundedSetOfNaturals
<1>2. PICK R : R = {d \in S \X S : d[1] > d[2]}
  OBVIOUS
<1>3. LinearOn(S, R)
  BY <1>2 DEF LinearOn
<1>4. PICK t : t = SortedBy(S, R)
  OBVIOUS
<1>5. /\ t \in Seq(S) /\ ToSet(t) = S
      /\ \A i, j \in 1..Len(t) : i < j => <<t[i], t[j]>> \in R
  BY <1>1, <1>3, <1>4, SortedSeq
<1>6. Len(t) \in Nat /\ DOMAIN t = 1..Len(t)
  BY <1>5, LenProperties
<1>7. 1 \in 1..Len(t) /\ t[1] \in S
  <2>1. Len(t) # 0
    BY <1>5, <1>6 DEF ToSet
  <2> QED BY <1>5, <1>6, <2>1 DEF ToSet
<1>8. \A i \in 1..Len(t) : t[1] >= t[i]
  <2>1. ASSUME NEW i \in 1..Len(t), i # 1 PROVE t[1] >= t[i]
    <3>1. 1 < i
      BY <1>6, <2>1
    <3>2. <<t[1], t[i]>> \in R
      BY <1>5, <1>7, <3>1
    <3>3. t[1] > t[i] /\ t[1] \in Nat /\ t[i] \in Nat
      BY <1>2, <3>2
    <3> QED BY <3>3
  <2>2. PICK m \in Nat : m = t[1]
    BY <1>7
  <2>3. \A i \in 1..Len(t) : i = 1 => t[1] >= t[i]
    BY <2>2
  <2> QED BY <2>1, <2>3, <1>5, <1>7
<1>9. \A x \in S : t[1] >= x
  BY <1>5, <1>6, <1>8 DEF ToSet
<1> QED BY <1>7, <1>9 DEF Max

LEMMA EmptyIsFine ==
  /\ \A S : Among(<<>>, S)
  /\ OldestFirst(<<>>) /\ ByWriter(<<>>) /\ Once(<<>>)
  /\ \A X, k : News(<<>>, X, k)
  /\ \A k : Orderly(<<>>, k)
  /\ \A d : Older(d, <<>>) /\ Older(<<>>, d)
  /\ ToSet(<<>>) = {}
BY DEF Among, OldestFirst, ByWriter, Once, News, Orderly, Older, ToSet

\* A step of the page leaves the writers alone.
LEMMA WritersUnmoved ==
  ASSUME WritersInv, UNCHANGED <<writer, journaled>>, page' \in PageRow
  PROVE  WritersInv'
<1>1. Stamped' = Stamped
  BY DEF Stamped
<1>2. StampsOK'
  BY <1>1 DEF WritersInv, StampsOK
<1> QED BY <1>2 DEF WritersInv, StreamTyped, WriterOK

LEMMA LoadPageKeeps == ASSUME StreamInv, LoadPage PROVE StreamInv'
<1>1. PICK S : S = {e.at : e \in journaled}
  OBVIOUS
<1>2. PICK n \in Nat : n = Cardinality(Stamped)
  BY FS_CardinalityType DEF StreamInv, WritersInv, StampsOK
<1>3. S \subseteq Nat /\ S # {} /\ \A x \in S : x <= n
  BY <1>1, <1>2, StreamFacts DEF LoadPage, StreamInv, WritersInv, StampsOK, EventRow
<1>4. PICK k \in Nat : k = Max(S)
  BY <1>3, MaxExists
<1>5. page' = [page EXCEPT !.pc = "loaded", !.cursor = k] /\ UNCHANGED <<writer, journaled, channel, delivered>>
  BY <1>1, <1>4 DEF LoadPage
<1>6. /\ page' \in PageRow /\ page'.pc = "loaded" /\ page'.backlog = page.backlog
      /\ page'.cursor = k
  BY <1>5, StreamFacts DEF PageRow
<1>7. page.backlog = <<>> /\ delivered = <<>>
  BY DEF StreamInv, PageSeqs, LoadPage
<1>8. PageSeqs'
  BY <1>5, <1>6, <1>7 DEF StreamInv, PageSeqs
<1>9. PageOrder'
  <2>1. Sent' = {}
    BY <1>5, <1>6, <1>7, EmptyIsFine DEF Sent
  <2>2. News(channel, {}, k)
    BY DEF News
  <2>3. ByWriter(channel)
    BY DEF StreamInv, PageOrder
  <2> QED BY <1>5, <1>6, <1>7, <2>1, <2>2, <2>3, EmptyIsFine DEF PageOrder
<1> QED BY <1>5, <1>6, <1>8, <1>9, WritersUnmoved DEF StreamInv, NothingMissed

\* Nothing has been sent on a connection that is new, or gone.
LEMMA FreshPage ==
  ASSUME StreamInv, page' \in PageRow, page'.pc # "live", page'.backlog = <<>>,
         channel' = <<>>, delivered' = <<>>, UNCHANGED <<writer, journaled>>
  PROVE  StreamInv'
<1>1. WritersInv'
  BY WritersUnmoved DEF StreamInv
<1>2. PageSeqs'
  BY EmptyIsFine DEF PageSeqs
<1>3. PageOrder'
  BY EmptyIsFine DEF PageOrder
<1> QED BY <1>1, <1>2, <1>3 DEF StreamInv, NothingMissed

LEMMA SubscribeKeeps == ASSUME StreamInv, SubscribePage PROVE StreamInv'
<1>0. PICK n \in Nat : n = page.conn + 1
  BY StreamFacts DEF PageRow
<1>1. page \in PageRow /\ page' = [page EXCEPT !.pc = "history", !.conn = n]
  BY <1>0, StreamFacts DEF SubscribePage
<1>2. page' \in PageRow /\ page'.pc = "history" /\ page'.backlog = page.backlog
  BY <1>1 DEF PageRow
<1>3. page.backlog = <<>>
  BY DEF StreamInv, PageSeqs, SubscribePage
<1> QED BY <1>2, <1>3, FreshPage DEF SubscribePage

LEMMA UnsubscribeKeeps == ASSUME StreamInv, Unsubscribe PROVE StreamInv'
<1>1. page \in PageRow
  BY StreamFacts
<1>2. page' \in PageRow /\ page'.pc # "live" /\ page'.backlog = <<>>
  <2>1. <<>> \in Seq(EventRow)
    BY EmptySeq
  <2>2. CASE page' = [page EXCEPT !.pc = "loaded", !.backlog = <<>>]
    BY <1>1, <2>1, <2>2 DEF PageRow
  <2>3. CASE page' = [page EXCEPT !.pc = "away", !.cursor = 0, !.backlog = <<>>]
    BY <1>1, <2>1, <2>3 DEF PageRow
  <2> QED BY <2>2, <2>3 DEF Unsubscribe
<1> QED BY <1>2, FreshPage DEF Unsubscribe

LEMMA LoadHistoryKeeps == ASSUME StreamInv, LoadHistory PROVE StreamInv'
<1>1. page \in PageRow /\ page.pc = "history" /\ UNCHANGED <<writer, journaled, channel, delivered, overflowed>>
  BY StreamFacts DEF LoadHistory
<1>2. delivered = <<>>
  BY <1>1 DEF StreamInv, PageSeqs
<1>3. PICK S : S = {e \in journaled : e.at > page.cursor}
  OBVIOUS
<1>4. S \subseteq EventRow /\ S \subseteq journaled /\ \A e, f \in S : e.at = f.at => e = f
  BY <1>3, StreamFacts
<1>5. IsFiniteSet(S)
  <2>1. S \in SUBSET Stamped
    BY <1>4, StreamFacts
  <2>2. IsFiniteSet(Stamped)
    BY DEF StreamInv, WritersInv, StampsOK
  <2> QED BY <2>1, <2>2, FS_Subset
<1>6. PICK R : R = {d \in S \X S : d[1].at < d[2].at}
  OBVIOUS
<1>7. LinearOn(S, R)
  BY <1>4, <1>6 DEF LinearOn, EventRow
<1>8. PICK t : t = SortedBy(S, R)
  OBVIOUS
<1>9. /\ t \in Seq(EventRow) /\ ToSet(t) = S /\ \A i \in 1..Len(t) : t[i] \in S
      /\ \A i, j \in 1..Len(t) : i < j => <<t[i], t[j]>> \in R
  BY <1>4, <1>5, <1>7, <1>8, SortedSeq
<1>10. Among(t, journaled)
  BY <1>4, <1>9 DEF Among
<1>11. OldestFirst(t)
  BY <1>6, <1>9 DEF OldestFirst
<1>12. page' = [page EXCEPT !.pc = "live", !.backlog = t]
  BY <1>3, <1>6, <1>8 DEF LoadHistory, SplitRunEventHistory, InTime
<1>13. /\ page' \in PageRow /\ page'.pc = "live" /\ page'.backlog = t
       /\ page'.cursor = page.cursor /\ page'.conn = page.conn
  BY <1>1, <1>9, <1>12 DEF PageRow
<1>14. PageSeqs'
  BY <1>1, <1>10, <1>13 DEF StreamInv, PageSeqs
<1>15. Sent' = S
  BY <1>1, <1>2, <1>9, <1>13, EmptyIsFine DEF Sent
<1>16. News(channel, S, page.cursor)
  <2>1. \A i \in 1..Len(channel) : channel[i] \in journaled
    BY DEF StreamInv, PageSeqs, Among
  <2> QED BY <1>3, <2>1 DEF News
<1>17. PageOrder'
  <2>1. ByWriter(channel)
    BY DEF StreamInv, PageOrder
  <2> QED BY <1>1, <1>2, <1>11, <1>13, <1>15, <1>16, <2>1, EmptyIsFine DEF PageOrder
<1>18. NothingMissed'
  BY <1>1, <1>3, <1>9, <1>13 DEF NothingMissed
<1> QED BY <1>1, <1>13, <1>14, <1>17, <1>18, WritersUnmoved DEF StreamInv

\* What the page is sent goes from one place to the other, or is there already.
LEMMA SentStays ==
  ASSUME StreamInv, UNCHANGED <<writer, journaled, overflowed>>,
         page'.cursor = page.cursor, page'.conn = page.conn, page.pc = "live",
         \A e : e \in ToSet(page.backlog) \cup ToSet(delivered) \cup ToSet(channel) =>
                e \in (ToSet(page.backlog) \cup ToSet(delivered) \cup ToSet(channel))'
  PROVE  NothingMissed'
BY DEF StreamInv, NothingMissed, OnItsWay

LEMMA BackfillKeepsStream == ASSUME StreamInv, WriteBackfill PROVE StreamInv'
<1>1. /\ page \in PageRow /\ page.pc = "live" /\ page.backlog # <<>>
      /\ UNCHANGED <<writer, journaled, channel, overflowed>>
  BY StreamFacts DEF WriteBackfill
<1>2. PICK b \in Seq(EventRow), d \in Seq(EventRow) : b = page.backlog /\ d = delivered
  BY StreamFacts
<1>3. Among(b, journaled) /\ Among(d, journaled)
  BY <1>2 DEF StreamInv, PageSeqs
<1>4. PICK u, t : u = Tail(b) /\ t = Append(d, b[1])
  OBVIOUS
<1>5. /\ Among(u, journaled) /\ Shrunk(b, u) /\ Head(b) = b[1]
      /\ b[1] \in EventRow \cap journaled /\ ToSet(b) = {b[1]} \cup ToSet(u)
  BY <1>1, <1>2, <1>3, <1>4, TailShrinks
<1>6. Among(t, journaled) /\ Grown(d, b[1], t) /\ ToSet(t) = ToSet(d) \cup {b[1]}
  BY <1>3, <1>4, <1>5, AppendGrows
<1>7. delivered' = t /\ page' = [page EXCEPT !.backlog = u]
  BY <1>2, <1>4, <1>5 DEF WriteBackfill
<1>8. /\ page' \in PageRow /\ page'.pc = "live" /\ page'.backlog = u
      /\ page'.cursor = page.cursor /\ page'.conn = page.conn
  <2>1. u \in Seq(EventRow)
    BY <1>5 DEF Among
  <2> QED BY <1>1, <1>7, <2>1 DEF PageRow
<1>9. PageSeqs'
  BY <1>1, <1>5, <1>6, <1>7, <1>8 DEF StreamInv, PageSeqs
<1>10. PICK k : k = page.cursor
  OBVIOUS
<1>11. OldestFirst(b) /\ Older(d, b) /\ Once(d) /\ Orderly(d, k)
  BY <1>2, <1>10 DEF StreamInv, PageOrder
<1>12. OldestFirst(u) /\ Older(t, u) /\ Once(t) /\ Orderly(t, k)
  BY <1>5, <1>6, <1>11, BackfillKeeps
<1>13. Sent' = Sent
  BY <1>2, <1>5, <1>6, <1>7, <1>8 DEF Sent
<1>14. PageOrder'
  BY <1>1, <1>7, <1>8, <1>10, <1>12, <1>13 DEF StreamInv, PageOrder
<1>15. NothingMissed'
  <2>1. \A e : e \in ToSet(page.backlog) \cup ToSet(delivered) =>
               e \in ToSet(page'.backlog) \cup ToSet(delivered')
    BY <1>2, <1>5, <1>6, <1>7, <1>8
  <2> QED BY <1>1, <1>8, <2>1, SentStays
<1> QED BY <1>1, <1>8, <1>9, <1>14, <1>15, WritersUnmoved DEF StreamInv

LEMMA LiveKeepsStream == ASSUME StreamInv, WriteLive PROVE StreamInv'
<1>1. /\ page \in PageRow /\ page.pc = "live" /\ page.backlog = <<>> /\ channel # <<>>
      /\ UNCHANGED <<writer, journaled, page, overflowed>>
  BY StreamFacts DEF WriteLive, TurnOfChannel
<1>2. PICK c \in Seq(EventRow), d \in Seq(EventRow) : c = channel /\ d = delivered
  BY StreamFacts
<1>3. Among(c, journaled) /\ Among(d, journaled)
  BY <1>2 DEF StreamInv, PageSeqs
<1>4. PICK u : u = Tail(c)
  OBVIOUS
<1>5. /\ Among(u, journaled) /\ Shrunk(c, u) /\ Head(c) = c[1]
      /\ c[1] \in EventRow \cap journaled /\ ToSet(c) = {c[1]} \cup ToSet(u)
  BY <1>1, <1>2, <1>3, <1>4, TailShrinks
<1>6. PICK t : t = IF c[1] \in ToSet(d) THEN d ELSE Append(d, c[1])
  OBVIOUS
<1>7. channel' = u /\ delivered' = t
  BY <1>2, <1>4, <1>5, <1>6 DEF WriteLive, Seen
<1>8. /\ Among(t, journaled) /\ ToSet(t) = ToSet(d) \cup {c[1]}
      /\ \/ c[1] \in ToSet(d) /\ t = d
         \/ c[1] \notin ToSet(d) /\ Grown(d, c[1], t)
  BY <1>3, <1>5, <1>6, AppendGrows
<1>9. PageSeqs'
  BY <1>1, <1>5, <1>7, <1>8 DEF StreamInv, PageSeqs
<1>10. PICK k : k = page.cursor
  OBVIOUS
<1>11. Sent = ToSet(d) /\ Sent' = ToSet(d) \cup {c[1]}
  BY <1>1, <1>2, <1>7, <1>8, EmptyIsFine DEF Sent
<1>12. News(c, ToSet(d), k) /\ ByWriter(c) /\ Once(d) /\ Orderly(d, k)
  BY <1>2, <1>10, <1>11 DEF StreamInv, PageOrder
<1>13. Apart(c)
  BY <1>3, StreamFacts DEF Among, Apart
<1>14. News(u, ToSet(d) \cup {c[1]}, k) /\ ByWriter(u)
  BY <1>5, <1>12, <1>13, TakenInTurn
<1>15. Once(t) /\ Orderly(t, k)
  <2>1. 1 \in 1..Len(c)
    BY <1>5 DEF Shrunk
  <2> QED BY <1>8, <1>12, <2>1, WrittenInOrder
<1>16. PageOrder'
  BY <1>1, <1>7, <1>10, <1>11, <1>14, <1>15, EmptyIsFine DEF StreamInv, PageOrder
<1>17. NothingMissed'
  <2>1. \A e : e \in ToSet(delivered) \cup ToSet(channel) => e \in ToSet(delivered') \cup ToSet(channel')
    BY <1>2, <1>5, <1>7, <1>8
  <2> QED BY <1>1, <2>1, SentStays
<1> QED BY <1>1, <1>9, <1>16, <1>17, WritersUnmoved DEF StreamInv

LEMMA StreamStep == StreamInv /\ [RunStreamNext]_runStreamVars => StreamInv'
<1> SUFFICES ASSUME StreamInv, [RunStreamNext]_runStreamVars PROVE StreamInv'
  OBVIOUS
<1>1. CASE UNCHANGED runStreamVars
  <2>1. UNCHANGED <<writer, journaled, page, channel, delivered, overflowed>>
    BY <1>1 DEF runStreamVars
  <2>2. WritersInv'
    BY <2>1, WritersUnmoved, StreamFacts DEF StreamInv
  <2>3. Sent' = Sent
    BY <2>1 DEF Sent
  <2> QED BY <2>1, <2>2, <2>3 DEF StreamInv, PageSeqs, PageOrder, NothingMissed, OnItsWay
<1>2. ASSUME NEW w \in StreamWriters, Stamp(w) \/ Commit(w) \/ CopySubscribers(w) \/ SendEvent(w)
      PROVE  StreamInv'
  BY <1>2, StampKeepsStream, CommitKeepsStream, CopyKeepsStream, SendKeepsStream
<1>3. CASE LoadPage \/ SubscribePage \/ LoadHistory \/ WriteBackfill \/ WriteLive \/ Unsubscribe
  BY <1>3, LoadPageKeeps, SubscribeKeeps, LoadHistoryKeeps, BackfillKeepsStream, LiveKeepsStream,
     UnsubscribeKeeps
<1> QED BY <1>1, <1>2, <1>3 DEF RunStreamNext

LEMMA PageShowsAll == StreamInv => NothingTwice /\ WritersInOrder /\ NothingMissed
<1> SUFFICES ASSUME StreamInv PROVE NothingTwice /\ WritersInOrder /\ NothingMissed
  OBVIOUS
<1>1. DOMAIN delivered = 1..Len(delivered)
  BY StreamFacts, LenProperties
<1>2. Once(delivered) /\ Orderly(delivered, page.cursor)
  BY DEF StreamInv, PageOrder
<1>3. NothingTwice
  BY <1>1, <1>2 DEF NothingTwice, IsInjective, Once
<1>4. WritersInOrder
  BY <1>2 DEF WritersInOrder, Orderly
<1> QED BY <1>3, <1>4 DEF StreamInv

-----------------------------------------------------------------------------
(* A page that follows the log.                                            *)

Levels == {"info", "error"}
ViewerRow == [pc : {"closed", "loaded", "following"}, query : {"all", "error"}, shown : Seq(Nat), since : Nat]

Ahead(s, t) == \A i \in 1..Len(s), j \in 1..Len(t) : s[i] < t[j]
Upto(s, n) == s \in Seq(Nat) /\ \A i \in 1..Len(s) : s[i] <= n

LogTyped ==
  /\ lines \in Seq(Levels) /\ viewer \in ViewerRow
  /\ Upto(entries, Len(lines)) /\ Upto(viewer.shown, Len(lines)) /\ Upto(tail, Len(lines))
  /\ \A i \in 1..Len(entries) : entries[i] > 0

LogInv ==
  /\ LogTyped
  /\ Increasing(viewer.shown) /\ Increasing(tail) /\ Increasing(entries) /\ Ahead(viewer.shown, tail)
  /\ Len(viewer.shown) <= Limit
  /\ viewer.pc # "following" => tail = <<>>
  /\ TailHasNoHoles

\* What Newest leaves of a sequence.
LEMMA NewestIs ==
  ASSUME NEW S, NEW s \in Seq(S), NEW k \in Nat \ {0}
  PROVE  /\ Newest(s, k) \in Seq(S) /\ Len(s) \in Nat
         /\ Len(s) <= k => Newest(s, k) = s
         /\ Len(s) > k => /\ Len(Newest(s, k)) = k
                         /\ \A i \in 1..k : Newest(s, k)[i] = s[i + (Len(s) - k)]
<1>0. PICK r : r = Newest(s, k)
  OBVIOUS
<1>1. Len(s) \in Nat /\ \A i \in 1..Len(s) : s[i] \in S
  BY LenProperties, ElementOfSeq
<1>2. CASE Len(s) <= k
  BY <1>1, <1>2 DEF Newest
<1>3. CASE Len(s) > k
  <2>1. PICK m \in Nat, n \in Nat : m = Len(s) - k + 1 /\ n = Len(s)
    <3>1. Len(s) \in Nat /\ Len(s) - k + 1 \in Nat
      BY <1>1, <1>3
    <3> QED BY <3>1, Zenon
  <2>2. r = SubSeq(s, m, n)
    BY <1>0, <1>3, <2>1 DEF Newest
  <2>3. \A i \in m..n : s[i] \in S
    BY <1>1, <1>3, <2>1
  <2>4. /\ r \in Seq(S) /\ Len(r) = IF m <= n THEN n - m + 1 ELSE 0
        /\ \A i \in 1..(n - m + 1) : r[i] = s[m + i - 1]
    BY <2>1, <2>2, <2>3, SubSeqProperties
  <2>5. n - m + 1 = k /\ m <= n /\ \A i \in 1..k : m + i - 1 = i + (Len(s) - k)
    BY <1>1, <1>3, <2>1
  <2>6. Len(r) = k
    BY <2>4, <2>5
  <2>7. ASSUME NEW i \in 1..k PROVE r[i] = s[i + (Len(s) - k)]
    BY <2>4, <2>5
  <2> QED BY <1>0, <1>1, <1>3, <2>4, <2>6, <2>7
<1> QED BY <1>1, <1>2, <1>3

LEMMA NewestIncreasing ==
  ASSUME NEW s \in Seq(Nat), NEW k \in Nat \ {0}, NEW n \in Nat, Increasing(s), Upto(s, n), NEW r, r = Newest(s, k)
  PROVE  Upto(r, n) /\ Increasing(r) /\ Len(r) <= k
<1>1. /\ r \in Seq(Nat) /\ Len(s) \in Nat
      /\ Len(s) <= k => r = s
      /\ Len(s) > k => Len(r) = k /\ \A i \in 1..k : r[i] = s[i + (Len(s) - k)]
  BY NewestIs
<1>2. CASE Len(s) <= k
  BY <1>1, <1>2
<1>3. CASE Len(s) > k
  <2>1. \A i \in 1..k : i + (Len(s) - k) \in 1..Len(s)
    BY <1>1, <1>3
  <2>2. \A i, j \in 1..k : i < j => i + (Len(s) - k) < j + (Len(s) - k)
    BY <1>1
  <2>3. Increasing(r)
    <3> SUFFICES ASSUME NEW i \in 1..Len(r), NEW j \in 1..Len(r), i < j PROVE r[i] < r[j]
      BY DEF Increasing
    <3>1. /\ i + (Len(s) - k) \in 1..Len(s) /\ j + (Len(s) - k) \in 1..Len(s)
          /\ i + (Len(s) - k) < j + (Len(s) - k)
          /\ r[i] = s[i + (Len(s) - k)] /\ r[j] = s[j + (Len(s) - k)]
      BY <1>1, <1>3, <2>1, <2>2
    <3> QED BY <3>1 DEF Increasing
  <2>4. Upto(r, n)
    BY <1>1, <1>3, <2>1 DEF Upto
  <2> QED BY <1>1, <1>3, <2>3, <2>4
<1> QED BY <1>1, <1>2, <1>3

LEMMA AppendIncreasing ==
  ASSUME NEW s, NEW n \in Nat, NEW m \in Nat, n < m, Upto(s, n), Increasing(s), NEW r, r = Append(s, m)
  PROVE  /\ r \in Seq(Nat) /\ Upto(r, m) /\ Increasing(r) /\ Grown(s, m, r)
         /\ ToSet(r) = ToSet(s) \cup {m}
<1>1. s \in Seq(Nat) /\ Len(s) \in Nat /\ \A i \in 1..Len(s) : s[i] \in Nat /\ s[i] <= n
  BY LenProperties, ElementOfSeq DEF Upto
<1>2. r \in Seq(Nat) /\ Grown(s, m, r)
  BY <1>1, AppendProperties DEF Grown
<1>3. \A i \in 1..Len(r) : (i \in 1..Len(s) /\ r[i] = s[i]) \/ (i = Len(s) + 1 /\ r[i] = m)
  BY <1>1, <1>2 DEF Grown
<1>4. Upto(r, m)
  BY <1>1, <1>2, <1>3 DEF Upto
<1>5. Increasing(r)
  BY <1>1, <1>3 DEF Increasing
<1>6. DOMAIN s = 1..Len(s) /\ DOMAIN r = 1..Len(r) /\ Len(r) = Len(s) + 1
  BY <1>1, <1>2, LenProperties DEF Grown
<1>7. \A x \in ToSet(r) : x \in ToSet(s) \cup {m}
  BY <1>3, <1>6 DEF ToSet
<1>8. \A x \in ToSet(s) \cup {m} : x \in ToSet(r)
  <2>1. ASSUME NEW i \in 1..Len(s) PROVE s[i] \in ToSet(r)
    <3>1. i \in DOMAIN r /\ r[i] = s[i]
      BY <1>1, <1>2, <1>6 DEF Grown
    <3> QED BY <3>1 DEF ToSet
  <2>2. m \in ToSet(r)
    BY <1>1, <1>2, <1>6 DEF ToSet, Grown
  <2> QED BY <1>6, <2>1, <2>2 DEF ToSet
<1> QED BY <1>2, <1>4, <1>5, <1>7, <1>8

LEMMA LogTailStart == LogTailInit => LogInv
<1> SUFFICES ASSUME LogTailInit PROVE LogInv
  OBVIOUS
<1>0. <<>> \in Seq(Nat) /\ <<>> \in Seq(Levels) /\ Len(<<>>) = 0
  BY EmptySeq
<1>1. viewer \in ViewerRow /\ viewer.pc = "closed" /\ viewer.shown = <<>>
  <2>1. PICK q \in {"all", "error"} : viewer = [pc |-> "closed", query |-> q, shown |-> <<>>, since |-> 0]
    BY DEF LogTailInit
  <2> QED BY <1>0, <2>1 DEF ViewerRow
<1>2. Upto(<<>>, 0) /\ Increasing(<<>>) /\ Ahead(<<>>, <<>>)
  BY <1>0 DEF Upto, Increasing, Ahead
<1>3. LogTyped
  BY <1>0, <1>1, <1>2 DEF LogTailInit, LogTyped
<1> QED BY <1>0, <1>1, <1>2, <1>3, LogTailAssumption DEF LogTailInit, LogInv, TailHasNoHoles

LEMMA LogFacts ==
  ASSUME LogInv
  PROVE  /\ lines \in Seq(Levels) /\ Len(lines) \in Nat /\ DOMAIN lines = 1..Len(lines)
         /\ viewer \in ViewerRow /\ viewer.shown \in Seq(Nat) /\ tail \in Seq(Nat) /\ entries \in Seq(Nat)
         /\ Upto(entries, Len(lines)) /\ Upto(viewer.shown, Len(lines)) /\ Upto(tail, Len(lines))
         /\ Len(viewer.shown) \in Nat /\ Len(tail) \in Nat
         /\ Limit \in Nat \ {0} /\ MaxEntries \in Nat \ {0}
BY LenProperties, LogTailAssumption DEF LogInv, LogTyped, Upto

LEMMA UptoMore == ASSUME NEW s, NEW n \in Nat, Upto(s, n) PROVE Upto(s, n + 1)
<1>1. \A i \in 1..Len(s) : s[i] \in Nat
  BY ElementOfSeq DEF Upto
<1> QED BY <1>1 DEF Upto

LEMMA LogLineKeeps == ASSUME LogInv, LogLine PROVE LogInv'
<1>1. PICK level \in Levels : lines' = Append(lines, level)
  BY SMTT(30) DEF LogLine, Levels
<1>2. PICK n \in Nat : n = Len(lines)
  BY LogFacts
<1>3. /\ lines' \in Seq(Levels) /\ Len(lines') = n + 1 /\ DOMAIN lines' = 1..(n + 1)
      /\ \A i \in 1..n : lines'[i] = lines[i]
  <2>1. /\ lines' \in Seq(Levels) /\ Len(lines') = n + 1 /\ \A i \in 1..n : lines'[i] = lines[i]
    BY <1>1, <1>2, LogFacts, AppendProperties
  <2> QED BY <2>1, LenProperties
<1>4. viewer' = viewer
  BY DEF LogLine
<1>5. Upto(viewer.shown, n + 1) /\ Upto(tail, n + 1)
  BY <1>2, LogFacts, UptoMore
<1>6. Upto(entries', n + 1) /\ Increasing(entries') /\ \A i \in 1..Len(entries') : entries'[i] > 0
  <2>1. PICK a : a = Append(entries, n + 1)
    OBVIOUS
  <2>2. a \in Seq(1..(n + 1))
    <3>1. entries \in Seq(1..(n + 1))
      <4>1. entries \in Seq(Nat) /\ \A i \in 1..Len(entries) : entries[i] \in 1..(n + 1)
        <5>1. entries \in Seq(Nat)
          BY LogFacts
        <5>2. \A i \in 1..Len(entries) : entries[i] \in Nat
          BY <5>1, ElementOfSeq
        <5>3. Upto(entries, n) /\ \A i \in 1..Len(entries) : entries[i] > 0
          BY <1>2 DEF LogInv, LogTyped
        <5>4. \A i \in 1..Len(entries) : entries[i] <= n
          BY <5>3 DEF Upto
        <5>5. \A i \in 1..Len(entries) : entries[i] \in 1..(n + 1)
          BY <5>2, <5>3, <5>4
        <5> QED BY <5>1, <5>5
      <4>2. Len(entries) \in Nat /\ entries \in [1..Len(entries) -> Nat]
        BY <4>1, LenProperties
      <4>3. entries \in [1..Len(entries) -> 1..(n + 1)]
        BY <4>1, <4>2
      <4> QED BY <4>2, <4>3, SeqDef
    <3> QED BY <2>1, <3>1, AppendProperties
  <2>3. entries' = Newest(a, MaxEntries)
    BY <1>3, <2>1 DEF LogLine
  <2>4. entries' \in Seq(1..(n + 1))
    <3>1. a \in Seq(1..(n + 1)) /\ MaxEntries \in Nat \ {0}
      BY <2>2, LogFacts
    <3> QED BY <2>3, <3>1, NewestIs
  <2>5. \A i \in 1..Len(entries') : entries'[i] \in 1..(n + 1)
    BY <2>4, ElementOfSeq
  <2>6. entries' \in Seq(Nat)
    BY <2>4, SeqMonotonic
  <2>7. Increasing(entries')
    <3>1. PICK m \in Nat : m = n + 1 /\ n < m
      OBVIOUS
    <3>2. a \in Seq(Nat) /\ Upto(a, m) /\ Increasing(a)
      <4>1. Upto(entries, n) /\ Increasing(entries)
        BY <1>2 DEF LogInv, LogTyped
      <4> QED BY <2>1, <3>1, <4>1, AppendIncreasing
    <3> QED BY <2>3, <3>1, <3>2, NewestIncreasing, LogFacts
  <2> QED BY <2>5, <2>6, <2>7 DEF Upto
<1>7. \A id \in 1..n : LogMatches(id, lines)' <=> LogMatches(id, lines)
  BY <1>3, <1>4 DEF LogMatches
<1>8. CASE viewer.pc = "following" /\ LogMatches(n + 1, lines')
  <2>1. Offer(n + 1)
    BY <1>3, <1>8 DEF LogLine
  <2>2. CASE tail' = Append(tail, n + 1) /\ UNCHANGED spilled
    <3>1. Upto(tail, n) /\ Increasing(tail)
      BY <1>2 DEF LogInv, LogTyped
    <3>2. /\ tail' \in Seq(Nat) /\ Upto(tail', n + 1) /\ Increasing(tail') /\ Grown(tail, n + 1, tail')
          /\ ToSet(tail') = ToSet(tail) \cup {n + 1}
      <4>1. PICK m \in Nat : m = n + 1 /\ n < m
        OBVIOUS
      <4>2. tail' = Append(tail, m)
        BY <2>2, <4>1
      <4>3. /\ tail' \in Seq(Nat) /\ Upto(tail', m) /\ Increasing(tail') /\ Grown(tail, m, tail')
            /\ ToSet(tail') = ToSet(tail) \cup {m}
        BY <3>1, <4>1, <4>2, AppendIncreasing
      <4> QED BY <4>1, <4>3
    <3>3. Ahead(viewer.shown, tail')
      <4>1. \A i \in 1..Len(viewer.shown) : viewer.shown[i] \in Nat /\ viewer.shown[i] < n + 1
        BY <1>2, LogFacts, ElementOfSeq, SMTT(30) DEF Upto
      <4>2. \A j \in 1..Len(tail') : (j \in 1..Len(tail) /\ tail'[j] = tail[j]) \/ tail'[j] = n + 1
        BY <3>2 DEF Grown
      <4> QED BY <4>1, <4>2 DEF LogInv, Ahead
    <3>4. TailHasNoHoles'
      <4>1. \A id \in 1..n :
              id > viewer.since /\ LogMatches(id, lines) =>
                \/ id \in ToSet(viewer.shown) \cup ToSet(tail) \cup spilled
                \/ Len(viewer.shown) = Limit /\ id < viewer.shown[1]
        BY <1>2, <1>8, LogFacts DEF LogInv, TailHasNoHoles
      <4> QED BY <1>3, <1>4, <1>7, <2>2, <3>2, <4>1 DEF TailHasNoHoles
    <3> QED BY <1>3, <1>4, <1>5, <1>6, <1>8, <3>2, <3>3, <3>4 DEF LogInv, LogTyped
  <2>3. CASE spilled' = spilled \cup {n + 1} /\ UNCHANGED tail
    <3>1. TailHasNoHoles'
      <4>1. \A id \in 1..n :
              id > viewer.since /\ LogMatches(id, lines) =>
                \/ id \in ToSet(viewer.shown) \cup ToSet(tail) \cup spilled
                \/ Len(viewer.shown) = Limit /\ id < viewer.shown[1]
        BY <1>2, <1>8, LogFacts DEF LogInv, TailHasNoHoles
      <4> QED BY <1>3, <1>4, <1>7, <2>3, <4>1 DEF TailHasNoHoles
    <3> QED BY <1>3, <1>4, <1>5, <1>6, <2>3, <3>1 DEF LogInv, LogTyped
  <2> QED BY <2>1, <2>2, <2>3 DEF Offer
<1>9. CASE ~(viewer.pc = "following" /\ LogMatches(n + 1, lines'))
  <2>1. UNCHANGED <<tail, spilled>>
    BY <1>3, <1>9 DEF LogLine
  <2>2. TailHasNoHoles'
    <3>1. CASE viewer.pc # "following"
      BY <1>4, <3>1 DEF TailHasNoHoles
    <3>2. CASE viewer.pc = "following"
      <4>1. \A id \in 1..n :
              id > viewer.since /\ LogMatches(id, lines) =>
                \/ id \in ToSet(viewer.shown) \cup ToSet(tail) \cup spilled
                \/ Len(viewer.shown) = Limit /\ id < viewer.shown[1]
        BY <1>2, <3>2, LogFacts DEF LogInv, TailHasNoHoles
      <4>2. ~LogMatches(n + 1, lines)'
        BY <1>4, <1>9, <3>2 DEF LogMatches
      <4> QED BY <1>3, <1>4, <1>7, <2>1, <4>1, <4>2 DEF TailHasNoHoles
    <3> QED BY <3>1, <3>2
  <2> QED BY <1>3, <1>4, <1>5, <1>6, <2>1, <2>2 DEF LogInv, LogTyped
<1> QED BY <1>8, <1>9

\* What matches is as increasing as the window.
LEMMA FilteredIncrease ==
  ASSUME LogInv
  PROVE  FilterEntries \in Seq(Nat) /\ Upto(FilterEntries, Len(lines)) /\ Increasing(FilterEntries)
<1>1. PICK S : S = {i \in DOMAIN entries : LogMatches(entries[i], lines)}
  OBVIOUS
<1>2. PICK m \in Nat : m = Len(entries) /\ DOMAIN entries = 1..m
  BY LogFacts, LenProperties
<1>3. S \subseteq 1..m /\ S \subseteq Nat
  BY <1>1, <1>2
<1>4. IsFiniteSet(S)
  <2>1. \A x \in S : x <= m
    BY <1>3
  <2> QED BY <1>2, <1>3, <2>1, FS_BoundedSetOfNaturals
<1>5. PICK R : R = {d \in S \X S : d[1] < d[2]}
  OBVIOUS
<1>6. LinearOn(S, R)
  BY <1>3, <1>5 DEF LinearOn
<1>7. PICK place : place = SortedBy(S, R)
  OBVIOUS
<1>8. /\ place \in Seq(Nat) /\ \A i \in 1..Len(place) : place[i] \in S
      /\ \A i, j \in 1..Len(place) : i < j => <<place[i], place[j]>> \in R
  BY <1>3, <1>4, <1>6, <1>7, SortedSeq
<1>9. PICK k \in Nat : k = Len(place)
  BY <1>8, LenProperties
<1>10. PICK t : t = [i \in 1..k |-> entries[place[i]]]
  OBVIOUS
<1>11. FilterEntries = t
  BY <1>1, <1>5, <1>7, <1>9, <1>10 DEF FilterEntries, Picked
<1>12. \A i \in 1..m : entries[i] \in Nat /\ entries[i] <= Len(lines)
  BY <1>2, LogFacts, ElementOfSeq DEF Upto
<1>13. \A i \in 1..k : place[i] \in 1..m /\ t[i] = entries[place[i]]
  BY <1>3, <1>8, <1>9, <1>10
<1>14. t \in [1..k -> Nat]
  BY <1>10, <1>12, <1>13
<1>15. t \in Seq(Nat) /\ Len(t) = k
  BY <1>14, SeqDef, LenProperties
<1>16. \A i, j \in 1..k : i < j => place[i] < place[j]
  BY <1>5, <1>8, <1>9
<1>17. Increasing(t)
  <2>1. ASSUME NEW i \in 1..k, NEW j \in 1..k, i < j PROVE t[i] < t[j]
    <3>1. PICK a \in 1..m, b \in 1..m : a = place[i] /\ b = place[j] /\ a < b
      BY <1>13, <1>16, <2>1
    <3>2. entries[a] < entries[b]
      BY <1>2, <3>1 DEF LogInv, Increasing
    <3> QED BY <1>13, <3>1, <3>2
  <2> QED BY <1>15, <2>1 DEF Increasing
<1> QED BY <1>11, <1>12, <1>13, <1>15, <1>17 DEF Upto

LEMMA LoadLogsKeeps == ASSUME LogInv, LoadLogs PROVE LogInv'
<1>1. PICK n \in Nat : n = Len(lines)
  BY LogFacts
<1>2. PICK t : t = FilterEntries
  OBVIOUS
<1>3. t \in Seq(Nat) /\ Increasing(t) /\ Upto(t, n)
  BY <1>1, <1>2, FilteredIncrease
<1>4. PICK r : r = Newest(t, Limit)
  OBVIOUS
<1>5. r \in Seq(Nat) /\ Upto(r, n) /\ Increasing(r) /\ Len(r) <= Limit
  <2>1. Upto(r, n) /\ Increasing(r) /\ Len(r) <= Limit
    BY <1>3, <1>4, NewestIncreasing, LogFacts
  <2> QED BY <2>1 DEF Upto
<1>6. viewer' = [viewer EXCEPT !.pc = "loaded", !.shown = r] /\ UNCHANGED <<lines, entries, tail, spilled>>
  BY <1>2, <1>4 DEF LoadLogs
<1>7. viewer' \in ViewerRow /\ viewer'.pc = "loaded" /\ viewer'.shown = r
  BY <1>5, <1>6, LogFacts DEF ViewerRow
<1>8. tail = <<>> /\ Ahead(r, <<>>)
  BY DEF LogInv, LoadLogs, Ahead
<1> QED BY <1>1, <1>5, <1>6, <1>7, <1>8, SMTT(30) DEF LogInv, LogTyped, TailHasNoHoles

LEMMA FollowKeeps == ASSUME LogInv, Follow PROVE LogInv'
<1>1. PICK n \in Nat : n = Len(lines)
  BY LogFacts
<1>2. /\ viewer' = [viewer EXCEPT !.pc = "following", !.since = n] /\ tail' = <<>> /\ spilled' = {}
      /\ UNCHANGED <<lines, entries>>
  BY <1>1 DEF Follow, FirstTail
<1>3. /\ viewer' \in ViewerRow /\ viewer'.shown = viewer.shown /\ viewer'.since = n
  BY <1>2, LogFacts DEF ViewerRow
<1>4. Upto(<<>>, n) /\ Increasing(<<>>) /\ Ahead(viewer.shown, <<>>)
  BY EmptySeq DEF Upto, Increasing, Ahead
<1>5. TailHasNoHoles'
  BY <1>1, <1>2, <1>3, LogFacts DEF TailHasNoHoles
<1> QED BY <1>1, <1>2, <1>3, <1>4, <1>5 DEF LogInv, LogTyped

LEMMA UnfollowKeeps == ASSUME LogInv, Unfollow PROVE LogInv'
<1>1. /\ viewer' = [viewer EXCEPT !.pc = "loaded"] /\ tail' = <<>> /\ spilled' = {}
      /\ UNCHANGED <<lines, entries>>
  BY DEF Unfollow
<1>2. viewer' \in ViewerRow /\ viewer'.shown = viewer.shown /\ viewer'.pc = "loaded"
  BY <1>1, LogFacts DEF ViewerRow
<1>3. Upto(<<>>, Len(lines)) /\ Increasing(<<>>) /\ Ahead(viewer.shown, <<>>)
  BY EmptySeq DEF Upto, Increasing, Ahead
<1> QED BY <1>1, <1>2, <1>3 DEF LogInv, LogTyped, TailHasNoHoles

LEMMA ShowKeeps == ASSUME LogInv, ShowEntry PROVE LogInv'
<1>1. PICK n \in Nat : n = Len(lines)
  BY LogFacts
<1>2. PICK s \in Seq(Nat), t \in Seq(Nat) : s = viewer.shown /\ t = tail
  BY LogFacts
<1>3. /\ viewer.pc = "following" /\ t # <<>>
      /\ Increasing(s) /\ Increasing(t) /\ Ahead(s, t) /\ Upto(s, n) /\ Upto(t, n) /\ Len(s) <= Limit
  BY <1>1, <1>2 DEF ShowEntry, LogInv, LogTyped
<1>4. PICK u : u = Tail(t)
  OBVIOUS
<1>5. /\ u \in Seq(Nat) /\ Head(t) = t[1] /\ t[1] \in Nat /\ Len(t) \in Nat \ {0} /\ Len(u) = Len(t) - 1
      /\ \A i \in 1..Len(u) : u[i] = t[i + 1]
  BY <1>3, <1>4, HeadTailProperties, LenProperties, EmptySeq
<1>6. Len(s) \in Nat /\ DOMAIN s = 1..Len(s) /\ DOMAIN t = 1..Len(t) /\ DOMAIN u = 1..Len(u)
        /\ \A i \in 1..Len(s) : s[i] \in Nat
  BY <1>5, LenProperties, ElementOfSeq
<1>7. PICK h \in Nat : h = t[1]
  BY <1>5
<1>8. 1 \in 1..Len(t) /\ h <= n /\ \A i \in 1..Len(s) : s[i] < h
  BY <1>3, <1>5, <1>7 DEF Ahead, Upto
<1>9. \A i \in 1..Len(u) : i + 1 \in 1..Len(t) /\ u[i] = t[i + 1] /\ h < u[i]
  <2>1. \A i \in 1..Len(u) : i + 1 \in 1..Len(t) /\ 1 < i + 1
    BY <1>5
  <2> QED BY <1>3, <1>5, <1>7, <1>8, <2>1 DEF Increasing
<1>10. Increasing(u) /\ Upto(u, n)
  <2>1. \A i, j \in 1..Len(u) : i < j => i + 1 < j + 1
    BY <1>5
  <2>2. Increasing(u)
    BY <1>3, <1>9, <2>1 DEF Increasing
  <2>3. Upto(u, n)
    BY <1>3, <1>5, <1>9 DEF Upto
  <2> QED BY <2>2, <2>3
<1>11. PICK a : a = Append(s, h)
  OBVIOUS
<1>12. a \in Seq(Nat) /\ Len(a) = Len(s) + 1 /\ (\A i \in 1..Len(s) : a[i] = s[i]) /\ a[Len(s) + 1] = h
  BY <1>11, AppendProperties
<1>13. \A i \in 1..Len(a) : (i \in 1..Len(s) /\ a[i] = s[i]) \/ (i = Len(s) + 1 /\ a[i] = h)
  BY <1>6, <1>12
<1>14. Increasing(a) /\ Upto(a, n) /\ \A i \in 1..Len(a) : a[i] <= h
  <2>1. \A i \in 1..Len(a) : a[i] <= h
    BY <1>6, <1>8, <1>13
  <2>2. Increasing(a)
    <3> SUFFICES ASSUME NEW i \in 1..Len(a), NEW j \in 1..Len(a), i < j PROVE a[i] < a[j]
      BY DEF Increasing
    <3>1. i \in 1..Len(s) /\ a[i] = s[i]
      BY <1>6, <1>12, <1>13, SMTT(30)
    <3>2. CASE j \in 1..Len(s) /\ a[j] = s[j]
      BY <1>3, <3>1, <3>2 DEF Increasing
    <3>3. CASE a[j] = h
      BY <1>8, <3>1, <3>3
    <3> QED BY <1>13, <3>2, <3>3
  <2>3. Upto(a, n)
    BY <1>3, <1>8, <1>12, <1>13 DEF Upto
  <2> QED BY <2>1, <2>2, <2>3
<1>15. PICK r : r = Newest(a, Limit)
  OBVIOUS
<1>16. Upto(r, n) /\ Increasing(r) /\ Len(r) <= Limit /\ r \in Seq(Nat)
  <2>1. Upto(r, n) /\ Increasing(r) /\ Len(r) <= Limit
    BY <1>12, <1>14, <1>15, NewestIncreasing, LogFacts
  <2> QED BY <2>1 DEF Upto
<1>17. /\ Len(s) < Limit => r = a
       /\ Len(s) = Limit => Len(r) = Limit /\ \A i \in 1..Limit : i + 1 \in 1..Len(a) /\ r[i] = a[i + 1]
  <2>1. Limit \in Nat \ {0} /\ Len(a) = Len(s) + 1 /\ Len(s) \in Nat
    BY <1>6, <1>12, LogFacts
  <2>2. CASE Len(s) < Limit
    BY <1>12, <1>15, <2>1, <2>2, NewestIs, SMTT(30)
  <2>3. CASE Len(s) = Limit
    <3>1. Len(a) > Limit /\ Len(a) - Limit = 1
      BY <2>1, <2>3
    <3>2. Len(r) = Limit /\ \A i \in 1..Limit : r[i] = a[i + (Len(a) - Limit)]
      BY <1>12, <1>15, <2>1, <3>1, NewestIs
    <3>3. \A i \in 1..Limit : r[i] = a[i + 1]
      BY <3>1, <3>2
    <3>4. \A i \in 1..Limit : i + 1 \in 1..Len(a)
      BY <2>1, <2>3
    <3> QED BY <2>3, <3>2, <3>3, <3>4
  <2>4. Len(s) < Limit \/ Len(s) = Limit
    BY <1>3, <2>1
  <2> QED BY <2>1, <2>2, <2>3, <2>4
<1>18. viewer' = [viewer EXCEPT !.shown = r] /\ tail' = u /\ UNCHANGED <<lines, entries, spilled>>
  BY <1>2, <1>4, <1>5, <1>7, <1>11, <1>15 DEF ShowEntry
<1>19. /\ viewer' \in ViewerRow /\ viewer'.shown = r /\ viewer'.pc = "following"
       /\ viewer'.query = viewer.query /\ viewer'.since = viewer.since
  BY <1>3, <1>16, <1>18, LogFacts DEF ViewerRow
<1>c. Len(s) < Limit \/ Len(s) = Limit
  <2>1. Limit \in Nat \ {0}
    BY LogFacts
  <2>2. Len(s) <= Limit
    BY <1>3
  <2>3. Len(s) \in Nat
    BY <1>6
  <2> QED BY <2>1, <2>2, <2>3
<1>20. \A i \in 1..Len(r) : r[i] <= h
  <2>2. CASE Len(s) < Limit
    BY <1>14, <1>17, <2>2
  <2>3. CASE Len(s) = Limit
    BY <1>14, <1>17, <2>3
  <2> QED BY <1>c, <2>2, <2>3
<1>21. Ahead(r, u)
  <2>1. \A i \in 1..Len(r) : r[i] \in Nat
    BY <1>16, ElementOfSeq
  <2>2. \A i \in 1..Len(u) : u[i] \in Nat
    BY <1>5, ElementOfSeq
  <2> SUFFICES ASSUME NEW i \in 1..Len(r), NEW j \in 1..Len(u) PROVE r[i] < u[j]
    BY DEF Ahead
  <2>3. r[i] \in Nat /\ r[i] <= h /\ u[j] \in Nat /\ h < u[j]
    BY <1>9, <1>20, <2>1, <2>2
  <2>4. h \in Nat
    BY <1>7
  <2> QED BY <2>3, <2>4
<1>22. DOMAIN r = 1..Len(r) /\ DOMAIN a = 1..Len(a) /\ Limit \in Nat \ {0}
  BY <1>12, <1>16, LenProperties, LogFacts
<1>23. \A x \in ToSet(t) : x = h \/ x \in ToSet(u)
  <2>1. ASSUME NEW i \in 1..Len(t), i # 1 PROVE t[i] \in ToSet(u)
    <3>1. i - 1 \in 1..Len(u) /\ u[i - 1] = t[i]
      BY <1>5, <2>1
    <3> QED BY <1>6, <3>1 DEF ToSet
  <2> QED BY <1>6, <1>7, <2>1 DEF ToSet
<1>24. h \in ToSet(r)
  <2>1. CASE Len(s) < Limit
    <3>1. Len(s) + 1 \in DOMAIN r /\ r[Len(s) + 1] = h
      <4>1. r = a /\ Len(s) + 1 \in 1..Len(a)
        BY <1>6, <1>12, <1>17, <2>1
      <4> QED BY <1>12, <1>22, <4>1
    <3> QED BY <3>1 DEF ToSet
  <2>2. CASE Len(s) = Limit
    <3>1. Limit \in DOMAIN r /\ r[Limit] = a[Limit + 1]
      BY <1>17, <1>22, <2>2
    <3> QED BY <1>12, <2>2, <3>1 DEF ToSet
  <2> QED BY <1>c, <2>1, <2>2
\* What was shown is, or made room.
<1>25. \A x \in ToSet(s) : x \in ToSet(r) \/ (Len(r) = Limit /\ x < r[1])
  <2>1. CASE Len(s) < Limit
    <3>1. \A i \in 1..Len(s) : i \in DOMAIN r /\ r[i] = s[i]
      <4>1. r = a /\ \A i \in 1..Len(s) : i \in 1..Len(a)
        BY <1>6, <1>12, <1>17, <2>1
      <4> QED BY <1>12, <1>22, <4>1
    <3> QED BY <1>6, <3>1 DEF ToSet
  <2>2. CASE Len(s) = Limit
    <3>1. ASSUME NEW i \in 1..Len(s), i # 1 PROVE s[i] \in ToSet(r)
      <4>1. i - 1 \in 1..Limit /\ r[i - 1] = a[i] /\ a[i] = s[i] /\ i - 1 \in DOMAIN r
        BY <1>6, <1>12, <1>17, <1>22, <2>2, <3>1, SMTT(30)
      <4> QED BY <4>1 DEF ToSet
    <3>2. s[1] < r[1]
      <4>1. 1 \in 1..Limit /\ 2 \in 1..Len(a) /\ 1 \in 1..Len(a) /\ r[1] = a[2] /\ a[1] = s[1]
        BY <1>6, <1>12, <1>17, <1>22, <2>2
      <4> QED BY <1>14, <4>1 DEF Increasing
    <3> QED BY <1>6, <1>17, <2>2, <3>1, <3>2 DEF ToSet
  <2> QED BY <1>c, <2>1, <2>2
\* What had made room has.
<1>26. \A x \in Nat : Len(s) = Limit /\ x < s[1] => Len(r) = Limit /\ x < r[1]
  <2> SUFFICES ASSUME NEW x \in Nat, Len(s) = Limit, x < s[1] PROVE Len(r) = Limit /\ x < r[1]
    OBVIOUS
  <2>1. 1 \in 1..Limit /\ 2 \in 1..Len(a) /\ 1 \in 1..Len(a) /\ r[1] = a[2] /\ a[1] = s[1]
    BY <1>6, <1>12, <1>17, <1>22
  <2>2. a[1] < a[2] /\ a[1] \in Nat /\ a[2] \in Nat
    BY <1>12, <1>14, <2>1, ElementOfSeq DEF Increasing
  <2> QED BY <1>17, <2>1, <2>2
<1>27. TailHasNoHoles'
  <2> SUFFICES ASSUME NEW id \in DOMAIN lines, id > viewer.since, LogMatches(id, lines)
               PROVE  \/ id \in ToSet(r) \cup ToSet(u) \cup spilled
                      \/ Len(r) = Limit /\ id < r[1]
    BY <1>18, <1>19 DEF TailHasNoHoles, LogMatches
  <2>1. \/ id \in ToSet(s) \cup ToSet(t) \cup spilled
        \/ Len(s) = Limit /\ id < s[1]
    BY <1>2, <1>3 DEF LogInv, TailHasNoHoles
  <2>2. id \in Nat
    BY LogFacts
  <2> QED BY <1>23, <1>24, <1>25, <1>26, <2>1, <2>2
<1> QED BY <1>1, <1>10, <1>16, <1>18, <1>19, <1>21, <1>27 DEF LogInv, LogTyped

LEMMA LogTailStep == LogInv /\ [LogTailNext]_logTailVars => LogInv'
<1>1. ASSUME LogInv, UNCHANGED logTailVars PROVE LogInv'
  BY <1>1 DEF logTailVars, LogInv, LogTyped, TailHasNoHoles, LogMatches
<1> QED BY <1>1, LogLineKeeps, LoadLogsKeeps, FollowKeeps, ShowKeeps, UnfollowKeeps DEF LogTailNext

LEMMA LogShowsAll == LogInv => TailInOrder /\ TailHasNoHoles
<1> SUFFICES ASSUME LogInv PROVE TailInOrder
  BY DEF LogInv
<1>1. PICK s \in Seq(Nat), t \in Seq(Nat) : s = viewer.shown /\ t = tail
  BY LogFacts
<1>2. Increasing(s) /\ Increasing(t) /\ Ahead(s, t)
  BY <1>1 DEF LogInv
<1>3. PICK c : c = s \o t
  OBVIOUS
<1>4. Len(s) \in Nat /\ Len(t) \in Nat
  BY LenProperties
<1>5. Len(c) = Len(s) + Len(t) /\ \A i \in 1..(Len(s) + Len(t)) : c[i] = IF i <= Len(s) THEN s[i] ELSE t[i - Len(s)]
  BY <1>3, ConcatProperties
<1>6. Increasing(c)
  <2> SUFFICES ASSUME NEW i \in 1..Len(c), NEW j \in 1..Len(c), i < j PROVE c[i] < c[j]
    BY DEF Increasing
  <2>1. CASE j <= Len(s)
    <3>1. i \in 1..Len(s) /\ j \in 1..Len(s) /\ c[i] = s[i] /\ c[j] = s[j]
      BY <1>4, <1>5, <2>1
    <3> QED BY <1>2, <3>1 DEF Increasing
  <2>2. CASE i <= Len(s) /\ ~(j <= Len(s))
    <3>1. i \in 1..Len(s) /\ j - Len(s) \in 1..Len(t) /\ c[i] = s[i] /\ c[j] = t[j - Len(s)]
      BY <1>4, <1>5, <2>2
    <3> QED BY <1>2, <3>1 DEF Ahead
  <2>3. CASE ~(i <= Len(s))
    <3>1. /\ i - Len(s) \in 1..Len(t) /\ j - Len(s) \in 1..Len(t) /\ i - Len(s) < j - Len(s)
          /\ c[i] = t[i - Len(s)] /\ c[j] = t[j - Len(s)]
      BY <1>4, <1>5, <2>3
    <3> QED BY <1>2, <3>1 DEF Increasing
  <2> QED BY <1>4, <1>5, <2>1, <2>2, <2>3
<1> QED BY <1>1, <1>3, <1>6 DEF TailInOrder

\* A page that follows a run, or the log, shows it faithfully: for every number
\* of writers, events, connections and lines, and every size of channel, window
\* and page.
THEOREM FollowersSeeAll == RunStreamSpec /\ LogTailSpec => []FollowersAreFaithful
<1>1. RunStreamSpec => [](NothingTwice /\ WritersInOrder /\ NothingMissed)
  BY StreamStart, StreamStep, PageShowsAll, PTL DEF RunStreamSpec
<1>2. LogTailSpec => [](TailInOrder /\ TailHasNoHoles)
  BY LogTailStart, LogTailStep, LogShowsAll, PTL DEF LogTailSpec
<1>3. (NothingTwice /\ WritersInOrder /\ NothingMissed) /\ (TailInOrder /\ TailHasNoHoles)
        => FollowersAreFaithful
  BY DEF FollowersAreFaithful
<1> QED BY <1>1, <1>2, <1>3, PTL

-----------------------------------------------------------------------------
(***************************************************************************)
(* Routes, for any conversations, threads and callers, whatever they call,  *)
(* and any bounds: a thread's routes succeed each other and end once, and   *)
(* what is written goes out over a route its session has had since.        *)
(***************************************************************************)

(* The invariant.                                                          *)

Sources == [who : {"operator", "message"}, seen : Nat]
BindingRow == [session : Sessions, thread : Threads, status : {"active", "replaced", "deactivated"},
               by : Nat, end : Nat, source : Sources]
MailRow == [from : Sessions, to : Sessions, kind : {"user", "send", "spawn", "note", "reply", "question"}]
RunRow == [pc : {"new", "work", "reply", "question", "routed", "ended"}, parent : Nat, message : Nat,
           route : Nat, session : Sessions \cup {LostOf(c) : c \in Conversations}]
StartCall == [pc : {"create", "open", "bind", "message"}, from : Sessions, session : Sessions,
              parent : Nat, kind : {"user", "send", "spawn"}, open : BOOLEAN,
              bind : [thread : Threads \cup {"none"}, seen : Nat], run : Nat]

\* The route is there, or was when message m was written.
Reaches(i, m) == bindings[i].status = "active" \/ bindings[i].end >= m

(* The tables have rows of these kinds. *)
RouteRowsOK ==
  /\ bindings \in Seq(BindingRow) /\ mail \in Seq(MailRow) /\ work \in Seq(RunRow)
  /\ opened \subseteq Sessions
  /\ intents \subseteq [message : DOMAIN mail, route : DOMAIN bindings]

\* A route that is sought for a thread, because it had none: all that the call
\* saw have ended, or are of other threads.
SeenAreOther(b, s) ==
  b = NoBinding \/
    /\ b.thread \in Threads /\ b.seen <= Len(bindings)
    /\ \A i \in 1 .. b.seen : Thread(i) = <<Conv(s), b.thread>> => bindings[i].status # "active"

StartOK(call) ==
  /\ call \in StartCall /\ Conv(call.from) = Conv(call.session)
  /\ SeenAreOther(call.bind, call.session)
  /\ call.pc \in {"create", "open"} => call.open \/ call.session \in opened
  /\ call.pc # "create" => call.run \in DOMAIN work
  /\ call.pc = "open" => work[call.run].session = call.session \/ (call.open /\ call.session \in opened)
  /\ call.pc \in {"bind", "message"} => call.session \in opened /\ work[call.run].session = call.session

RouteCallOK(call) ==
  \/ call = NoCall
  \/ call \in [pc : {"deactivate"}, route : DOMAIN bindings]
  \/ call \in [pc : {"send"}, from : Sessions, to : opened]
  \/ /\ call \in [pc : {"note"}, from : opened, session : opened]
     /\ Conv(call.from) = Conv(call.session)
  \/ StartOK(call)

RouteRunOK(row) ==
  /\ row.pc \in {"work", "reply", "question", "routed"} => row.session \in opened
  /\ row.pc \in {"reply", "question", "routed"} =>
       row.message \in DOMAIN mail /\ mail[row.message].to = row.session
  /\ row.pc \in {"reply", "question"} => mail[row.message].kind = row.pc
  /\ row.pc = "routed" =>
       /\ row.route \in DOMAIN bindings /\ Reaches(row.route, row.message)
       /\ Conv(bindings[row.route].session) = Conv(row.session)
       /\ mail[row.message].kind = "reply" => bindings[row.route].session = row.session

\* A route is of a session that is there, ended before now, and has its place in
\* the succession of its thread; messages and intents stay inside their
\* conversation.
Follows(j, i) == j > i /\ Thread(j) = Thread(i)
PlaceOK(i) ==
  /\ bindings[i].status = "active" => \A j \in DOMAIN bindings : ~Follows(j, i)
  /\ bindings[i].status = "replaced" =>
       /\ bindings[i].by \in DOMAIN bindings /\ Follows(bindings[i].by, i)
       /\ \A j \in DOMAIN bindings : Follows(j, i) => bindings[i].by <= j
       /\ bindings[bindings[i].by].source.who = "message" => i > bindings[bindings[i].by].source.seen
BindingsOK ==
  \A i \in DOMAIN bindings :
    /\ bindings[i].session \in opened /\ bindings[i].end \in 0 .. Len(mail)
    /\ bindings[i].status = "replaced" <=> bindings[i].by # 0
    /\ PlaceOK(i)
MessageOK(m) == mail[m].to \in opened /\ Conv(mail[m].from) = Conv(mail[m].to)
IntentOK(x) ==
  /\ Reaches(x.route, x.message)
  /\ Conv(bindings[x.route].session) = Conv(mail[x.message].to)
  /\ mail[x.message].kind = "reply" => bindings[x.route].session = mail[x.message].to

RoutesInv ==
  /\ RouteRowsOK /\ BindingsOK
  /\ DOMAIN calls = Callers /\ \A k \in Callers : RouteCallOK(calls[k])
  /\ \A i \in DOMAIN work : RouteRunOK(work[i])
  /\ \A m \in DOMAIN mail : MessageOK(m)
  /\ \A x \in intents : IntentOK(x)

-----------------------------------------------------------------------------
(* What the lookups return.                                                *)

LEMMA LatestIsThere ==
  ASSUME NEW n \in Nat, NEW ids, ids \subseteq 1 .. n
  PROVE  /\ ids = {} => Latest(ids) = 0
         /\ ids # {} => Latest(ids) \in ids /\ \A j \in ids : j <= Latest(ids)
<1>1. ASSUME ids # {} PROVE \E i \in ids : \A j \in ids : j <= i
  <2> DEFINE R == OpToRel(<, Nat)
             back == {n - i : i \in ids}
  <2>1. IsWellFoundedOn(R, Nat)
    BY NatLessThanWellFounded DEF R
  <2>2. \A l, m \in Nat : l < m => <<l, m>> \in R
    BY Zenon DEF OpToRel, R
  <2>3. \A i \in ids : i \in 1 .. n /\ n - i \in Nat
    OBVIOUS
  <2>4. back \subseteq Nat /\ back # {}
    BY <1>1, <2>3
  <2> HIDE DEF R
  <2>5. PICK b \in back : \A c \in back : ~(<<c, b>> \in R)
    BY <2>1, <2>4, WFMin
  <2>6. \A c \in back : ~(c < b)
    BY <2>2, <2>4, <2>5
  <2>7. PICK i \in ids : b = n - i
    BY <2>5
  <2>8. \A j \in ids : j <= i
    BY <2>3, <2>6, <2>7
  <2> QED
    BY <2>8
<1> QED
  BY <1>1 DEF Latest

LEMMA ActiveAreRows ==
  ASSUME RouteRowsOK, NEW ids, ids \subseteq ActiveRoutes
  PROVE  /\ ids = {} => Latest(ids) = 0
         /\ Latest(ids) # 0 => Latest(ids) \in ids
<1>1. Len(bindings) \in Nat /\ ids \subseteq 1 .. Len(bindings)
  BY LenProperties DEF RouteRowsOK, ActiveRoutes
<1> QED
  BY <1>1, LatestIsThere

(* A thread without a route has none that is active.                       *)
LEMMA ThreadRouteIs ==
  ASSUME RouteRowsOK, NEW c, NEW t
  PROVE  LET r == ThreadRoute(c, t)
         IN  /\ r # 0 => r \in ActiveRoutes /\ Conv(bindings[r].session) = c
             /\ r = 0 => \A i \in ActiveRoutes : Thread(i) # <<c, t>>
<1> DEFINE ids == {i \in ActiveRoutes : Conv(bindings[i].session) = c /\ bindings[i].thread = t}
<1>1. ThreadRoute(c, t) = Latest(ids) /\ ids \subseteq ActiveRoutes
  BY DEF ThreadRoute
<1>2. Len(bindings) \in Nat /\ ids \subseteq 1 .. Len(bindings)
  BY LenProperties DEF RouteRowsOK, ActiveRoutes
<1>3. ids # {} => Latest(ids) # 0
  BY <1>2, LatestIsThere
<1>4. Latest(ids) # 0 => Latest(ids) \in ids
  BY <1>1, ActiveAreRows
<1>5. \A i \in ActiveRoutes : Thread(i) = <<c, t>> => i \in ids
  BY DEF Thread
<1> QED
  BY <1>1, <1>3, <1>4, <1>5

LEMMA OwnRoute ==
  ASSUME RouteRowsOK, NEW s, LoadRouteBySession(s) # 0
  PROVE  LoadRouteBySession(s) \in ActiveRoutes /\ bindings[LoadRouteBySession(s)].session = s
<1> DEFINE ids == {i \in ActiveRoutes : bindings[i].session = s}
<1>1. ids \subseteq ActiveRoutes /\ LoadRouteBySession(s) = Latest(ids)
  BY DEF LoadRouteBySession
<1>2. Latest(ids) \in ids
  BY <1>1, ActiveAreRows
<1> QED
  BY <1>1, <1>2

LEMMA ConversationsRoute ==
  ASSUME RouteRowsOK, NEW c, loadFrontConversationRoute(c) # 0
  PROVE  /\ loadFrontConversationRoute(c) \in ActiveRoutes
         /\ Conv(bindings[loadFrontConversationRoute(c)].session) = c
<1> DEFINE own == {i \in ActiveRoutes : Conv(bindings[i].session) = c}
           fronts == {i \in own : IsFront(bindings[i].session)}
           it == loadFrontConversationRoute(c)
<1>1. own \subseteq ActiveRoutes /\ fronts \subseteq ActiveRoutes /\ fronts \subseteq own
  OBVIOUS
<1>2. it = Latest(fronts) \/ it = Latest(own)
  BY DEF loadFrontConversationRoute
<1>3. it \in own
  BY <1>1, <1>2, ActiveAreRows
<1> QED
  BY <1>3

(* A run that speaks finds an active route of its session, or a question    *)
(* one of its conversation.                                                *)
LEMMA RouteForIs ==
  ASSUME RouteRowsOK, NEW i, RouteFor(i) # 0
  PROVE  /\ RouteFor(i) \in ActiveRoutes
         /\ Conv(bindings[RouteFor(i)].session) = Conv(work[i].session)
         /\ work[i].pc # "question" => bindings[RouteFor(i)].session = work[i].session
<1>1. \/ RouteFor(i) = LoadRouteBySession(work[i].session)
      \/ work[i].pc = "question" /\ RouteFor(i) = loadFrontConversationRoute(Conv(work[i].session))
  BY DEF RouteFor
<1> QED
  BY <1>1, OwnRoute, ConversationsRoute

LEMMA PreferredIs ==
  ASSUME RouteRowsOK, NEW s
  PROVE  /\ loadPreferredRunForSession(s) \in Nat
         /\ Known(s) => loadPreferredRunForSession(s) \in DOMAIN work
<1>1. Len(work) \in Nat /\ DOMAIN work = 1 .. Len(work)
  BY LenProperties DEF RouteRowsOK
<1> DEFINE live == {i \in RunsOf(s) : ~Ended(i)}
<1>2. live \subseteq 1 .. Len(work) /\ RunsOf(s) \subseteq 1 .. Len(work) /\ live \subseteq RunsOf(s)
  BY <1>1 DEF RunsOf
<1>3. loadPreferredRunForSession(s) = IF live # {} THEN Latest(live) ELSE Latest(RunsOf(s))
  BY DEF loadPreferredRunForSession
<1> HIDE DEF live
<1>4. live # {} => Latest(live) \in live
  BY <1>1, <1>2, LatestIsThere
<1>5. RunsOf(s) # {} => Latest(RunsOf(s)) \in RunsOf(s)
  BY <1>1, <1>2, LatestIsThere
<1>6. RunsOf(s) = {} => Latest(RunsOf(s)) = 0
  BY <1>1, <1>2, LatestIsThere
<1>7. RunsOf(s) # {} => loadPreferredRunForSession(s) \in 1 .. Len(work)
  BY <1>2, <1>3, <1>4, <1>5
<1>8. RunsOf(s) = {} => loadPreferredRunForSession(s) = 0
  BY <1>2, <1>3, <1>6
<1> QED
  BY <1>1, <1>7, <1>8 DEF Known

-----------------------------------------------------------------------------
(* What a step keeps.                                                      *)

\* Tables grow; a route keeps its session and thread, does not come back, and
\* still reaches what was written before.
Grows ==
  /\ Len(bindings) <= Len(bindings') /\ DOMAIN bindings \subseteq DOMAIN bindings'
  /\ \A i \in DOMAIN bindings :
       /\ bindings'[i].session = bindings[i].session /\ bindings'[i].thread = bindings[i].thread
       /\ bindings'[i].status = "active" => bindings[i].status = "active"
       /\ \A m \in DOMAIN mail : Reaches(i, m) => Reaches(i, m)'
  /\ opened \subseteq opened'
  /\ DOMAIN mail \subseteq DOMAIN mail' /\ \A m \in DOMAIN mail : mail'[m] = mail[m]
  /\ DOMAIN work \subseteq DOMAIN work'
  /\ \A i \in DOMAIN work : work'[i].session = work[i].session

LEMMA CallStays ==
  ASSUME RouteRowsOK, RouteRowsOK', Grows, NEW call, RouteCallOK(call)
  PROVE  RouteCallOK(call)'
<1>1. CASE call = NoCall
  BY <1>1 DEF RouteCallOK, NoCall
<1>2. CASE call \in [pc : {"deactivate"}, route : DOMAIN bindings]
  BY <1>2 DEF RouteCallOK, Grows
<1>3. CASE call \in [pc : {"send"}, from : Sessions, to : opened]
  BY <1>3 DEF RouteCallOK, Grows, Sessions
<1>4. CASE /\ call \in [pc : {"note"}, from : opened, session : opened]
           /\ Conv(call.from) = Conv(call.session)
  BY <1>4 DEF RouteCallOK, Grows, Conv
<1>5. CASE StartOK(call)
  <2>1. call \in StartCall' /\ Conv(call.from)' = Conv(call.session)'
    BY <1>5 DEF StartOK, StartCall, Conv, Sessions
  <2>2. SeenAreOther(call.bind, call.session)'
    <3>1. call.bind.seen \in Nat /\ Len(bindings) \in Nat /\ Len(bindings') \in Nat
      BY <1>5, LenProperties DEF StartOK, StartCall, RouteRowsOK
    <3>2. Len(bindings) <= Len(bindings') /\ DOMAIN bindings = 1 .. Len(bindings)
      BY LenProperties DEF RouteRowsOK, Grows
    <3>3. SeenAreOther(call.bind, call.session)
      BY <1>5 DEF StartOK
    <3>4. CASE call.bind # NoBinding
      <4>1. call.bind.seen <= Len(bindings')
        BY <3>1, <3>2, <3>3, <3>4 DEF SeenAreOther
      <4>2. \A i \in 1 .. call.bind.seen : i \in DOMAIN bindings
        BY <3>1, <3>2, <3>3, <3>4 DEF SeenAreOther
      <4> QED
        BY <3>3, <3>4, <4>1, <4>2 DEF SeenAreOther, Grows, Thread, Conv
    <3> QED
      BY <3>4 DEF SeenAreOther
  <2>3. call.pc # "create" => call.run \in DOMAIN work /\ call.run \in DOMAIN work'
                              /\ work'[call.run].session = work[call.run].session
    BY <1>5 DEF StartOK, Grows
  <2>4. opened \subseteq opened'
    BY DEF Grows
  <2> QED
    BY <1>5, <2>1, <2>2, <2>3, <2>4 DEF StartOK, RouteCallOK
<1> QED
  BY <1>1, <1>2, <1>3, <1>4, <1>5 DEF RouteCallOK

LEMMA RunStays ==
  ASSUME RouteRowsOK, Grows, NEW row, RouteRunOK(row)
  PROVE  RouteRunOK(row)'
<1>1. row.pc \in {"work", "reply", "question", "routed"} => row.session \in opened'
  BY DEF RouteRunOK, Grows
<1>2. ASSUME row.pc \in {"reply", "question", "routed"}
      PROVE  /\ row.message \in DOMAIN mail /\ row.message \in DOMAIN mail'
             /\ mail'[row.message] = mail[row.message] /\ mail[row.message].to = row.session
  BY <1>2 DEF RouteRunOK, Grows
<1>3. ASSUME row.pc = "routed"
      PROVE  /\ row.route \in DOMAIN bindings' /\ Reaches(row.route, row.message)'
             /\ bindings'[row.route].session = bindings[row.route].session
             /\ row.route \in DOMAIN bindings
  BY <1>2, <1>3 DEF RouteRunOK, Grows
<1> QED
  BY <1>1, <1>2, <1>3 DEF RouteRunOK, Conv

LEMMA RoutesInvImplies == RoutesInv => RoutesTypeOK /\ RoutesSucceed /\ MailStaysInside
<1>1. RouteRowsOK => \A i \in DOMAIN bindings : bindings[i] \in BindingRow
  BY LenProperties DEF RouteRowsOK
<1>2. RouteRowsOK => \A i \in DOMAIN work : work[i] \in RunRow
  BY LenProperties DEF RouteRowsOK
<1>3. RouteRowsOK /\ BindingsOK /\ (\A m \in DOMAIN mail : MessageOK(m)) => RoutesTypeOK
  BY <1>1, <1>2 DEF RoutesTypeOK, BindingsOK, MessageOK, BindingRow, RunRow, RouteRowsOK
<1>7. (\A m \in DOMAIN mail : MessageOK(m)) /\ (\A x \in intents : IntentOK(x)) => MailStaysInside
  BY DEF MailStaysInside, IntentOK, Reaches, MessageOK
<1>8. BindingsOK => RoutesSucceed
  BY DEF BindingsOK, PlaceOK, Follows, RoutesSucceed
<1> QED
  BY <1>3, <1>7, <1>8 DEF RoutesInv

(* A step that grows the tables and is right about what is new.            *)
LEMMA StepKeeps ==
  ASSUME RoutesInv, RouteRowsOK', Grows, BindingsOK', DOMAIN calls' = Callers,
         \A k \in Callers : calls'[k] = calls[k] \/ RouteCallOK(calls[k])',
         \A i \in DOMAIN work' : (i \in DOMAIN work /\ work'[i] = work[i]) \/ RouteRunOK(work[i])',
         \A m \in DOMAIN mail' : m \in DOMAIN mail \/ MessageOK(m)',
         \A x \in intents' : x \in intents \/ IntentOK(x)'
  PROVE  RoutesInv'
<1>1. RouteRowsOK /\ DOMAIN calls = Callers
  BY DEF RoutesInv
<1>2. \A k \in Callers : RouteCallOK(calls[k])'
  <2> SUFFICES ASSUME NEW k \in Callers, calls'[k] = calls[k] PROVE RouteCallOK(calls[k])'
    OBVIOUS
  <2>1. PICK call : call = calls[k]
    OBVIOUS
  <2>2. RouteCallOK(call)'
    BY <1>1, <2>1, CallStays DEF RoutesInv
  <2> QED
    BY <2>1, <2>2
<1>3. \A i \in DOMAIN work' : RouteRunOK(work[i])'
  <2> SUFFICES ASSUME NEW i \in DOMAIN work, work'[i] = work[i] PROVE RouteRunOK(work[i])'
    OBVIOUS
  <2>1. PICK row : row = work[i]
    OBVIOUS
  <2>2. RouteRunOK(row)'
    BY <1>1, <2>1, RunStays DEF RoutesInv
  <2> QED
    BY <2>1, <2>2
<1>4. \A m \in DOMAIN mail : MessageOK(m)
  BY DEF RoutesInv
<1>5. \A m \in DOMAIN mail' : MessageOK(m)'
  BY <1>4 DEF MessageOK, Grows, Conv
<1>6. \A x \in intents : IntentOK(x) /\ x.message \in DOMAIN mail /\ x.route \in DOMAIN bindings
  BY DEF RouteRowsOK, RoutesInv
<1>7. \A x \in intents' : IntentOK(x)'
  BY <1>6 DEF IntentOK, Grows, Conv
<1> QED
  BY <1>2, <1>3, <1>5, <1>7 DEF RoutesInv

-----------------------------------------------------------------------------
(* The routes.                                                             *)

\* The part of Grows that is about the routes, and what has ended.
RoutesGrow ==
  /\ Len(bindings) <= Len(bindings') /\ DOMAIN bindings \subseteq DOMAIN bindings'
  /\ \A i \in DOMAIN bindings :
       /\ bindings'[i].session = bindings[i].session /\ bindings'[i].thread = bindings[i].thread
       /\ bindings'[i].status = "active" => bindings[i].status = "active"
       /\ \A m \in DOMAIN mail : Reaches(i, m) => Reaches(i, m)'
       /\ bindings[i].status # "active" => bindings'[i] = bindings[i]

LEMMA EndedReach ==
  ASSUME RouteRowsOK, UNCHANGED mail, NEW i \in DOMAIN bindings, NEW m \in DOMAIN mail,
         bindings'[i].end = Len(mail)
  PROVE  Reaches(i, m)'
<1>1. Len(mail) \in Nat /\ DOMAIN mail = 1 .. Len(mail)
  BY LenProperties DEF RouteRowsOK
<1> QED
  BY <1>1 DEF Reaches

LEMMA ReplacedRow ==
  ASSUME NEW r \in BindingRow, NEW c, NEW t, NEW by \in Nat, Len(mail) \in Nat
  PROVE  ReplaceActive(r, c, t, by) \in BindingRow
<1>1. [r EXCEPT !.status = "replaced", !.by = by, !.end = Len(mail)] \in BindingRow
  BY DEF BindingRow
<1> QED
  BY <1>1 DEF ReplaceActive

LEMMA BoundRoutes ==
  ASSUME RouteRowsOK, NEW s \in Sessions, NEW t \in Threads, NEW source \in Sources, BindThread(s, t, source),
         UNCHANGED mail
  PROVE  /\ bindings' \in Seq(BindingRow) /\ Len(bindings') = Len(bindings) + 1
         /\ \A i \in DOMAIN bindings : bindings'[i] = ReplaceActive(bindings[i], Conv(s), t, Len(bindings) + 1)
         /\ bindings'[Len(bindings) + 1] =
              [session |-> s, thread |-> t, status |-> "active", by |-> 0, end |-> 0, source |-> source]
<1> DEFINE n == Len(bindings)
           old == [i \in DOMAIN bindings |-> ReplaceActive(bindings[i], Conv(s), t, n + 1)]
           row == [session |-> s, thread |-> t, status |-> "active", by |-> 0, end |-> 0, source |-> source]
<1>1. n \in Nat /\ DOMAIN bindings = 1 .. n /\ \A i \in 1 .. n : bindings[i] \in BindingRow
  BY LenProperties DEF RouteRowsOK
<1>2. Len(mail) \in Nat
  BY LenProperties DEF RouteRowsOK
<1>3. row \in BindingRow
  BY DEF BindingRow
<1>4. \A i \in 1 .. n : old[i] \in BindingRow
  BY <1>1, <1>2, ReplacedRow
<1>5. old \in [1 .. n -> BindingRow]
  BY <1>1, <1>4
<1>6. old \in Seq(BindingRow) /\ Len(old) = n
  BY <1>1, <1>5, SeqDef, LenProperties
<1>7. bindings' = Append(old, row)
  BY DEF BindThread
<1> HIDE DEF old, row, n
<1>8. bindings' \in Seq(BindingRow) /\ Len(bindings') = n + 1 /\ bindings'[n + 1] = row
      /\ \A i \in 1 .. n : bindings'[i] = old[i]
  BY <1>1, <1>3, <1>6, <1>7, AppendProperties
<1> QED
  BY <1>1, <1>8 DEF old, row, n

LEMMA BindGrows ==
  ASSUME RouteRowsOK, NEW s \in Sessions, NEW t \in Threads, NEW source \in Sources, BindThread(s, t, source),
         UNCHANGED mail
  PROVE  RoutesGrow
<1>1. Len(bindings) \in Nat /\ DOMAIN bindings = 1 .. Len(bindings)
      /\ \A i \in 1 .. Len(bindings) : bindings[i] \in BindingRow
  BY LenProperties DEF RouteRowsOK
<1>2. Len(bindings') = Len(bindings) + 1 /\ DOMAIN bindings' = 1 .. Len(bindings')
  BY BoundRoutes, LenProperties
<1>3. ASSUME NEW i \in DOMAIN bindings
      PROVE  /\ bindings'[i].session = bindings[i].session /\ bindings'[i].thread = bindings[i].thread
             /\ bindings'[i].status = "active" => bindings[i].status = "active"
             /\ bindings'[i] = bindings[i] \/ bindings'[i].end = Len(mail)
             /\ bindings[i].status # "active" => bindings'[i] = bindings[i]
  <2>1. bindings'[i] = ReplaceActive(bindings[i], Conv(s), t, Len(bindings) + 1)
    BY BoundRoutes
  <2> QED
    BY <1>1, <2>1 DEF ReplaceActive, BindingRow
<1>4. \A i \in DOMAIN bindings, m \in DOMAIN mail : Reaches(i, m) => Reaches(i, m)'
  BY <1>3, EndedReach DEF Reaches
<1> QED
  BY <1>1, <1>2, <1>3, <1>4 DEF RoutesGrow

LEMMA BindKeepsOrder ==
  ASSUME RouteRowsOK, BindingsOK, NEW s \in opened, NEW t \in Threads, NEW source \in Sources,
         BindThread(s, t, source), UNCHANGED <<mail, opened>>,
         source.who = "message" =>
           \A i \in 1 .. source.seen : Thread(i) = <<Conv(s), t>> => bindings[i].status # "active"
  PROVE  BindingsOK'
<1>0. PICK n : n = Len(bindings)
  OBVIOUS
<1>1. n \in Nat /\ DOMAIN bindings = 1 .. n /\ \A i \in 1 .. n : bindings[i] \in BindingRow
  BY <1>0, LenProperties DEF RouteRowsOK
<1>2. s \in Sessions
  BY DEF RouteRowsOK
<1>3. /\ bindings' \in Seq(BindingRow) /\ Len(bindings') = n + 1
      /\ \A i \in 1 .. n : bindings'[i] = ReplaceActive(bindings[i], Conv(s), t, n + 1)
      /\ bindings'[n + 1] =
           [session |-> s, thread |-> t, status |-> "active", by |-> 0, end |-> 0, source |-> source]
  BY <1>0, <1>1, <1>2, BoundRoutes
<1>4. DOMAIN bindings' = 1 .. (n + 1) /\ Len(mail) \in Nat
  BY <1>1, <1>3, LenProperties DEF RouteRowsOK
<1>5. \A i \in 1 .. n : Thread(i)' = Thread(i) /\ bindings'[i].source = bindings[i].source
                        /\ bindings'[i].session = bindings[i].session
  BY <1>1, <1>3 DEF ReplaceActive, BindingRow, Thread, Conv
<1>6. Thread(n + 1)' = <<Conv(s), t>>
  BY <1>3 DEF Thread, Conv
<1>7. \A i \in 1 .. n : (Thread(i) = <<Conv(s), t>> /\ bindings[i].status = "active")
                          \/ bindings'[i] = bindings[i]
  BY <1>1, <1>3 DEF ReplaceActive, Thread
<1>8. \A i \in 1 .. n : Thread(i) = <<Conv(s), t>> /\ bindings[i].status = "active" =>
        bindings'[i].status = "replaced" /\ bindings'[i].by = n + 1 /\ bindings'[i].end = Len(mail)
  BY <1>1, <1>3 DEF ReplaceActive, Thread, BindingRow
<1>9. \A i, j \in 1 .. n : Follows(j, i)' <=> Follows(j, i)
  BY <1>5 DEF Follows
<1>10. \A i \in 1 .. n : Follows(n + 1, i)' <=> Thread(i) = <<Conv(s), t>>
  BY <1>1, <1>5, <1>6 DEF Follows
<1>11. \A j \in 1 .. (n + 1) : j = n + 1 \/ j \in 1 .. n
  BY <1>1
<1>12. ASSUME NEW i \in 1 .. n, Thread(i) = <<Conv(s), t>>, bindings[i].status = "active"
       PROVE  PlaceOK(i)'
  <2>1. \A j \in 1 .. n : ~Follows(j, i)
    BY <1>1, <1>12 DEF BindingsOK, PlaceOK
  <2>2. \A j \in 1 .. (n + 1) : Follows(j, i)' => j = n + 1
    BY <1>9, <1>11, <2>1
  <2>3. source.who = "message" => i > source.seen
    <3>1. source.seen \in Nat /\ i \in Nat
      BY <1>1 DEF Sources
    <3> QED
      BY <1>12, <3>1
  <2>4. /\ bindings'[i].status = "replaced" /\ bindings'[i].by = n + 1
        /\ bindings'[n + 1].source = source
    BY <1>3, <1>8, <1>12
  <2>5. n + 1 \in 1 .. (n + 1) /\ Follows(n + 1, i)' /\ n + 1 <= n + 1
    BY <1>1, <1>10, <1>12
  <2> QED
    BY <1>4, <2>2, <2>3, <2>4, <2>5 DEF PlaceOK
<1>13. ASSUME NEW i \in 1 .. n, bindings'[i] = bindings[i],
              bindings[i].status = "active" => Thread(i) # <<Conv(s), t>>
       PROVE  PlaceOK(i)'
  <2>1. PlaceOK(i)
    BY <1>1 DEF BindingsOK
  <2>2. CASE bindings[i].status = "active"
    <3>1. \A j \in 1 .. (n + 1) : ~Follows(j, i)'
      BY <1>1, <1>9, <1>10, <1>11, <1>13, <2>1, <2>2 DEF PlaceOK
    <3> QED
      BY <1>4, <1>13, <2>2, <3>1 DEF PlaceOK
  <2>3. CASE bindings[i].status = "replaced"
    <3>0. PICK b : b = bindings[i].by
      OBVIOUS
    <3>1. /\ b \in 1 .. n /\ Follows(b, i) /\ \A j \in 1 .. n : Follows(j, i) => b <= j
          /\ bindings[b].source.who = "message" => i > bindings[b].source.seen
      BY <1>1, <2>1, <2>3, <3>0 DEF PlaceOK
    <3>2. bindings'[i].by = b /\ bindings'[b].source = bindings[b].source
      BY <1>5, <1>13, <3>0, <3>1
    <3>3. b <= n + 1 /\ b \in 1 .. (n + 1)
      BY <1>1, <3>1
    <3>4. \A j \in 1 .. (n + 1) : Follows(j, i)' => b <= j
      BY <1>9, <1>11, <3>1, <3>3
    <3>5. Follows(b, i)'
      BY <1>9, <3>1
    <3> QED
      BY <1>4, <1>13, <2>3, <3>1, <3>2, <3>3, <3>4, <3>5 DEF PlaceOK
  <2> QED
    BY <1>13, <2>2, <2>3 DEF PlaceOK
<1>14. PlaceOK(n + 1)'
  <2>1. \A j \in 1 .. (n + 1) : ~Follows(j, n + 1)'
    BY <1>1 DEF Follows
  <2> QED
    BY <1>3, <1>4, <2>1 DEF PlaceOK
<1>15. \A i \in 1 .. n : PlaceOK(i)'
  BY <1>7, <1>12, <1>13
<1>16. \A i \in 1 .. n : /\ bindings'[i].session \in opened' /\ bindings'[i].end \in 0 .. Len(mail')
                         /\ bindings'[i].status = "replaced" <=> bindings'[i].by # 0
  <2> SUFFICES ASSUME NEW i \in 1 .. n
               PROVE  /\ bindings'[i].session \in opened' /\ bindings'[i].end \in 0 .. Len(mail')
                      /\ bindings'[i].status = "replaced" <=> bindings'[i].by # 0
    OBVIOUS
  <2>1. CASE bindings'[i] = bindings[i]
    BY <1>1, <2>1 DEF BindingsOK
  <2>2. CASE bindings'[i] # bindings[i]
    <3>1. bindings'[i].status = "replaced" /\ bindings'[i].by = n + 1 /\ bindings'[i].end = Len(mail)
      BY <1>7, <1>8, <2>2
    <3>2. bindings'[i].session \in opened'
      BY <1>1, <1>5 DEF BindingsOK
    <3> QED
      BY <1>1, <1>4, <3>1, <3>2
  <2> QED
    BY <2>1, <2>2
<1>17. /\ bindings'[n + 1].session \in opened' /\ bindings'[n + 1].end \in 0 .. Len(mail')
       /\ bindings'[n + 1].status = "replaced" <=> bindings'[n + 1].by # 0
  BY <1>3, <1>4
<1> QED
  BY <1>4, <1>11, <1>14, <1>15, <1>16, <1>17 DEF BindingsOK

LEMMA UnboundRoutes ==
  ASSUME RouteRowsOK, NEW i \in DOMAIN bindings, SessionUnbound(i), UNCHANGED mail
  PROVE  /\ bindings' \in Seq(BindingRow) /\ Len(bindings') = Len(bindings)
         /\ \A j \in DOMAIN bindings :
              \/ bindings'[j] = bindings[j]
              \/ /\ bindings[j].status = "active"
                 /\ bindings'[j] = [bindings[j] EXCEPT !.status = "deactivated", !.end = Len(mail)]
<1>1. Len(bindings) \in Nat /\ DOMAIN bindings = 1 .. Len(bindings)
      /\ \A j \in 1 .. Len(bindings) : bindings[j] \in BindingRow
  BY LenProperties DEF RouteRowsOK
<1>2. Len(mail) \in Nat
  BY LenProperties DEF RouteRowsOK
<1> DEFINE row == [bindings[i] EXCEPT !.status = "deactivated", !.end = Len(mail)]
<1>3. row \in BindingRow
  BY <1>1, <1>2 DEF BindingRow
<1>4. CASE bindings[i].status = "active"
  <2>1. bindings' = [bindings EXCEPT ![i] = row]
    BY <1>1, <1>4 DEF SessionUnbound
  <2> HIDE DEF row
  <2>2. /\ bindings' \in Seq(BindingRow) /\ Len(bindings') = Len(bindings)
        /\ \A j \in 1 .. Len(bindings) : bindings'[j] = IF j = i THEN row ELSE bindings[j]
    BY <1>1, <1>3, <2>1, ExceptSeq DEF RouteRowsOK
  <2> QED
    BY <1>1, <1>4, <2>2 DEF row
<1>5. CASE bindings[i].status # "active"
  BY <1>5 DEF SessionUnbound, RouteRowsOK
<1> QED
  BY <1>4, <1>5

LEMMA UnbindGrows ==
  ASSUME RouteRowsOK, NEW i \in DOMAIN bindings, SessionUnbound(i), UNCHANGED mail
  PROVE  RoutesGrow
<1>1. Len(bindings) \in Nat /\ DOMAIN bindings = 1 .. Len(bindings)
      /\ \A j \in 1 .. Len(bindings) : bindings[j] \in BindingRow
  BY LenProperties DEF RouteRowsOK
<1>2. Len(bindings') = Len(bindings) /\ DOMAIN bindings' = 1 .. Len(bindings)
  BY <1>1, UnboundRoutes, LenProperties
<1>3. ASSUME NEW j \in DOMAIN bindings
      PROVE  /\ bindings'[j].session = bindings[j].session /\ bindings'[j].thread = bindings[j].thread
             /\ bindings'[j].status = "active" => bindings[j].status = "active"
             /\ bindings'[j] = bindings[j] \/ bindings'[j].end = Len(mail)
             /\ bindings[j].status # "active" => bindings'[j] = bindings[j]
  <2>1. bindings[j] \in BindingRow
    BY <1>1
  <2> QED
    BY <2>1, UnboundRoutes DEF BindingRow
<1>4. \A j \in DOMAIN bindings, m \in DOMAIN mail : Reaches(j, m) => Reaches(j, m)'
  BY <1>3, EndedReach DEF Reaches
<1> QED
  BY <1>1, <1>2, <1>3, <1>4 DEF RoutesGrow

LEMMA UnbindKeepsOrder ==
  ASSUME RouteRowsOK, BindingsOK, NEW i \in DOMAIN bindings, SessionUnbound(i), UNCHANGED <<mail, opened>>
  PROVE  BindingsOK'
<1>0. /\ Len(bindings) \in Nat /\ DOMAIN bindings = 1 .. Len(bindings)
      /\ \A j \in DOMAIN bindings : bindings[j] \in BindingRow
  BY LenProperties DEF RouteRowsOK
<1>1. DOMAIN bindings' = DOMAIN bindings /\ \A j \in DOMAIN bindings : bindings[j] \in BindingRow
  BY <1>0, LenProperties, UnboundRoutes
<1>2. Len(mail) \in Nat
  BY LenProperties DEF RouteRowsOK
<1>3. \A j \in DOMAIN bindings : Thread(j)' = Thread(j) /\ bindings'[j].source = bindings[j].source
  <2> SUFFICES ASSUME NEW j \in DOMAIN bindings
               PROVE  /\ bindings'[j].session = bindings[j].session
                      /\ bindings'[j].thread = bindings[j].thread
                      /\ bindings'[j].source = bindings[j].source
    BY DEF Thread, Conv
  <2>1. bindings[j] \in BindingRow
    BY <1>1
  <2>2. CASE bindings'[j] = bindings[j]
    BY <2>2
  <2>3. CASE bindings'[j] = [bindings[j] EXCEPT !.status = "deactivated", !.end = Len(mail)]
    BY <2>1, <2>3 DEF BindingRow
  <2> QED
    BY <2>2, <2>3, UnboundRoutes
<1>4. \A j, k \in DOMAIN bindings : Follows(k, j)' <=> Follows(k, j)
  BY <1>3 DEF Follows
<1>5. ASSUME NEW j \in DOMAIN bindings, bindings'[j] = bindings[j]
      PROVE  /\ bindings'[j].session \in opened' /\ bindings'[j].end \in 0 .. Len(mail')
             /\ bindings'[j].status = "replaced" <=> bindings'[j].by # 0
             /\ PlaceOK(j)'
  <2>1. PlaceOK(j)'
    BY <1>1, <1>3, <1>4, <1>5 DEF PlaceOK, BindingsOK
  <2> QED
    BY <1>5, <2>1 DEF BindingsOK
<1>6. ASSUME NEW j \in DOMAIN bindings, bindings[j].status = "active",
             bindings'[j] = [bindings[j] EXCEPT !.status = "deactivated", !.end = Len(mail)]
      PROVE  /\ bindings'[j].session \in opened' /\ bindings'[j].end \in 0 .. Len(mail')
             /\ bindings'[j].status = "replaced" <=> bindings'[j].by # 0
             /\ PlaceOK(j)'
  <2>1. /\ bindings'[j].status = "deactivated" /\ bindings'[j].end = Len(mail)
        /\ bindings'[j].by = bindings[j].by /\ bindings'[j].session = bindings[j].session
    BY <1>1, <1>6 DEF BindingRow
  <2>2. PlaceOK(j)'
    BY <2>1 DEF PlaceOK
  <2> QED
    BY <1>2, <1>6, <2>1, <2>2 DEF BindingsOK
<1> QED
  BY <1>1, <1>5, <1>6, UnboundRoutes DEF BindingsOK

-----------------------------------------------------------------------------
(* The other tables.                                                       *)

LEMMA MailGrows ==
  ASSUME RouteRowsOK, NEW from \in Sessions, NEW s \in Sessions,
         NEW kind \in {"user", "send", "spawn", "note", "reply", "question"}, MessageAdded(from, s, kind)
  PROVE  /\ mail' \in Seq(MailRow) /\ DOMAIN mail \subseteq DOMAIN mail' /\ Len(mail) <= Len(mail')
         /\ \A m \in DOMAIN mail : mail'[m] = mail[m]
         /\ Len(mail) + 1 \in DOMAIN mail'
         /\ mail'[Len(mail) + 1] = [from |-> from, to |-> s, kind |-> kind]
         /\ \A m \in DOMAIN mail' : m \in DOMAIN mail \/ m = Len(mail) + 1
<1> DEFINE row == [from |-> from, to |-> s, kind |-> kind]
<1>1. row \in MailRow
  BY DEF MailRow
<1>2. mail' = Append(mail, row) /\ mail \in Seq(MailRow)
  BY DEF MessageAdded, RouteRowsOK
<1> HIDE DEF row
<1>3. Len(mail) \in Nat /\ DOMAIN mail = 1 .. Len(mail)
  BY <1>2, LenProperties
<1>4. /\ mail' \in Seq(MailRow) /\ Len(mail') = Len(mail) + 1
      /\ \A m \in 1 .. Len(mail) : mail'[m] = mail[m]
      /\ mail'[Len(mail) + 1] = row
  BY <1>1, <1>2, AppendProperties
<1>5. DOMAIN mail' = 1 .. (Len(mail) + 1)
  BY <1>3, <1>4, LenProperties
<1> QED
  BY <1>3, <1>4, <1>5 DEF row

\* With the routes as they are, more mail and sessions keep them right.
LEMMA RoutesStay ==
  ASSUME RouteRowsOK, RouteRowsOK', BindingsOK, UNCHANGED bindings, opened \subseteq opened', Len(mail) <= Len(mail')
  PROVE  BindingsOK'
<1>1. Len(mail) \in Nat /\ Len(mail') \in Nat
  BY LenProperties DEF RouteRowsOK
<1>2. \A i \in DOMAIN bindings : PlaceOK(i)'
  BY DEF BindingsOK, PlaceOK, Follows, Thread, Conv
<1> QED
  BY <1>1, <1>2 DEF BindingsOK

LEMMA CallSet ==
  ASSUME DOMAIN calls = Callers, NEW k \in Callers, NEW call, Call(k, call)
  PROVE  /\ DOMAIN calls' = Callers /\ calls'[k] = call
         /\ \A h \in Callers : h # k => calls'[h] = calls[h]
BY DEF Call

(* A step of a caller that only looks.                                     *)
LEMMA CallerLooks ==
  ASSUME RoutesInv, UNCHANGED <<bindings, opened, work, mail, intents>>,
         NEW k \in Callers, NEW call, Call(k, call), RouteCallOK(call)
  PROVE  RoutesInv'
<1>1. DOMAIN calls = Callers /\ RouteRowsOK /\ BindingsOK
  BY DEF RoutesInv
<1>2. RouteRowsOK' /\ Grows
  <2>1. Len(bindings) \in Nat
    BY <1>1, LenProperties DEF RouteRowsOK
  <2> QED
    BY <1>1, <2>1 DEF RouteRowsOK, Grows, Reaches, Sessions
<1>3. BindingsOK'
  BY <1>1, <1>2, RoutesStay, LenProperties DEF RouteRowsOK
<1>4. RouteCallOK(call)'
  BY <1>1, <1>2, CallStays
<1>5. DOMAIN calls' = Callers /\ \A h \in Callers : calls'[h] = calls[h] \/ RouteCallOK(calls[h])'
  <2>1. RouteCallOK(calls[k])'
    BY <1>1, <1>4, CallSet
  <2> QED
    BY <1>1, <2>1, CallSet
<1> QED
  BY <1>2, <1>3, <1>5, StepKeeps

LEMMA CallerReturns ==
  ASSUME RoutesInv, UNCHANGED <<bindings, opened, work, mail, intents>>,
         NEW k \in Callers, ReturnCall(k)
  PROVE  RoutesInv'
<1>1. RouteCallOK(NoCall)
  BY DEF RouteCallOK
<1> QED
  BY <1>1, CallerLooks DEF ReturnCall

-----------------------------------------------------------------------------
(* The calls.                                                              *)

LEMMA OpenedAre ==
  ASSUME RouteRowsOK, BindingsOK
  PROVE  /\ \A s \in opened : s \in Sessions /\ Conv(s) \in Conversations
         /\ \A i \in DOMAIN bindings : bindings[i].session \in opened
         /\ \A c \in Conversations : FrontOf(c) \in Sessions /\ Conv(FrontOf(c)) = c
<1>1. \A s \in Sessions : Conv(s) \in Conversations
  BY DEF Sessions, Conv
<1>2. \A c \in Conversations : FrontOf(c) \in Sessions /\ Conv(FrontOf(c)) = c
  BY DEF Sessions, FrontOf, Conv
<1> QED
  BY <1>1, <1>2 DEF RouteRowsOK, BindingsOK

LEMMA StartsWell ==
  ASSUME NEW from \in Sessions, NEW s \in Sessions, NEW above \in Nat, NEW kind \in {"user", "send", "spawn"},
         NEW open \in BOOLEAN, NEW b \in [thread : Threads \cup {"none"}, seen : Nat],
         Conv(from) = Conv(s), SeenAreOther(b, s), open \/ s \in opened
  PROVE  RouteCallOK(Starting(from, s, above, kind, open, b))
<1> DEFINE call == Starting(from, s, above, kind, open, b)
<1>1. call \in StartCall /\ call.pc = "create" /\ call.from = from /\ call.session = s
      /\ call.bind = b /\ call.open = open
  BY DEF Starting, StartCall
<1> HIDE DEF call
<1>2. StartOK(call)
  BY <1>1 DEF StartOK
<1> QED
  BY <1>2 DEF RouteCallOK, call

LEMMA NoBindingIs ==
  NoBinding \in [thread : Threads \cup {"none"}, seen : Nat] /\ \A s : SeenAreOther(NoBinding, s)
BY DEF NoBinding, SeenAreOther

LEMMA BeginDeactivateKeeps ==
  ASSUME RoutesInv, NEW k \in Callers, BeginDeactivate(k)
  PROVE  RoutesInv'
<1>1. PICK i \in ActiveRoutes : Call(k, [pc |-> "deactivate", route |-> i])
  BY DEF BeginDeactivate
<1>2. RouteCallOK([pc |-> "deactivate", route |-> i])
  BY DEF RouteCallOK, ActiveRoutes
<1> QED
  BY <1>1, <1>2, CallerLooks DEF BeginDeactivate

LEMMA resolveFrontSessionKeeps ==
  ASSUME RoutesInv, NEW k \in Callers, resolveFrontSession(k)
  PROVE  RoutesInv'
<1>0. RouteRowsOK /\ BindingsOK
  BY DEF RoutesInv
<1>1. PICK c \in Conversations, t \in Threads :
        LET r == ThreadRoute(c, t)
        IN  IF r # 0
            THEN Call(k, Starting(bindings[r].session, bindings[r].session, 0, "user", FALSE, NoBinding))
            ELSE Call(k, Starting(FrontOf(c), FrontOf(c), 0, "user", FrontOf(c) \notin opened,
                                  [thread |-> t, seen |-> Len(bindings)]))
  BY DEF resolveFrontSession
<1>2. UNCHANGED <<bindings, opened, work, mail, intents>>
  BY DEF resolveFrontSession
<1>3. CASE ThreadRoute(c, t) # 0
  <2>1. PICK s : s = bindings[ThreadRoute(c, t)].session
    OBVIOUS
  <2>2. s \in opened /\ s \in Sessions
    BY <1>0, <1>3, <2>1, ThreadRouteIs, OpenedAre DEF ActiveRoutes
  <2>3. RouteCallOK(Starting(s, s, 0, "user", FALSE, NoBinding))
    BY <2>2, StartsWell, NoBindingIs
  <2> QED
    BY <1>1, <1>2, <1>3, <2>1, <2>3, CallerLooks
<1>4. CASE ThreadRoute(c, t) = 0
  <2>1. PICK b : b = [thread |-> t, seen |-> Len(bindings)]
    OBVIOUS
  <2>2. Len(bindings) \in Nat /\ DOMAIN bindings = 1 .. Len(bindings)
    BY <1>0, LenProperties DEF RouteRowsOK
  <2>3. b \in [thread : Threads \cup {"none"}, seen : Nat] /\ b.thread = t /\ b.seen = Len(bindings)
    BY <2>1, <2>2
  <2>4. \A i \in 1 .. Len(bindings) : Thread(i) = <<c, t>> => bindings[i].status # "active"
    BY <1>0, <1>4, <2>2, ThreadRouteIs DEF ActiveRoutes
  <2>5. Conv(FrontOf(c)) = c /\ FrontOf(c) \in Sessions
    BY <1>0, OpenedAre
  <2>6. SeenAreOther(b, FrontOf(c))
    BY <2>2, <2>3, <2>4, <2>5 DEF SeenAreOther
  <2>7. RouteCallOK(Starting(FrontOf(c), FrontOf(c), 0, "user", FrontOf(c) \notin opened, b))
    BY <2>3, <2>5, <2>6, StartsWell
  <2> QED
    BY <1>1, <1>2, <1>4, <2>1, <2>7, CallerLooks
<1> QED
  BY <1>3, <1>4

LEMMA SendsKeep ==
  ASSUME RoutesInv, NEW k \in Callers, SendRoute(k) \/ SendSession(k)
  PROVE  RoutesInv'
<1>0. RouteRowsOK /\ BindingsOK
  BY DEF RoutesInv
<1>1. UNCHANGED <<bindings, opened, work, mail, intents>>
  BY DEF SendRoute, SendSession
<1>2. PICK from, to : from \in Sessions /\ to \in opened /\ Call(k, [pc |-> "send", from |-> from, to |-> to])
  <2>1. CASE SendRoute(k)
    <3>1. PICK i \in ActiveRoutes : Call(k, [pc |-> "send", from |-> FrontOf(Conv(bindings[i].session)),
                                             to |-> bindings[i].session])
      BY <2>1 DEF SendRoute
    <3>2. bindings[i].session \in opened /\ FrontOf(Conv(bindings[i].session)) \in Sessions
      BY <1>0, OpenedAre DEF ActiveRoutes
    <3> QED
      BY <3>1, <3>2
  <2>2. CASE SendSession(k)
    BY <1>0, <2>2, OpenedAre DEF SendSession
  <2> QED
    BY <2>1, <2>2
<1>3. RouteCallOK([pc |-> "send", from |-> from, to |-> to])
  BY <1>2 DEF RouteCallOK
<1> QED
  BY <1>1, <1>2, <1>3, CallerLooks

LEMMA sendSessionKeeps ==
  ASSUME RoutesInv, NEW k \in Callers, sendSession(k)
  PROVE  RoutesInv'
<1>0. RouteRowsOK /\ BindingsOK
  BY DEF RoutesInv
<1>1. UNCHANGED <<bindings, opened, work, mail, intents>>
  BY DEF sendSession
<1>2. PICK from, to, row : from = calls[k].from /\ to = calls[k].to /\ row = loadPreferredRunForSession(to)
  OBVIOUS
<1>3. PICK above : above = CASE IsFront(to) -> 0
                               [] ~IsFront(to) /\ work[row].parent # 0 -> work[row].parent
                               [] OTHER -> row
  OBVIOUS
<1>4. CASE Known(to) /\ Known(from) /\ Conv(from) = Conv(to)
  <2>1. Call(k, Starting(from, to, above, "send", FALSE, NoBinding))
    BY <1>2, <1>3, <1>4 DEF sendSession
  <2>2. row \in Nat /\ row \in DOMAIN work
    BY <1>0, <1>2, <1>4, PreferredIs
  <2>3. work[row].parent \in Nat
    <3>1. work[row] \in RunRow
      BY <1>0, <2>2, LenProperties DEF RouteRowsOK
    <3> QED
      BY <3>1 DEF RunRow
  <2>4. above \in Nat
    BY <1>3, <2>2, <2>3
  <2>5. from \in Sessions /\ to \in Sessions /\ to \in opened
    BY <1>0, <1>4, OpenedAre DEF Known
  <2>6. RouteCallOK(Starting(from, to, above, "send", FALSE, NoBinding))
    BY <1>4, <2>4, <2>5, StartsWell, NoBindingIs
  <2> QED
    BY <1>1, <2>1, <2>6, CallerLooks
<1>5. CASE ~(Known(to) /\ Known(from) /\ Conv(from) = Conv(to))
  <2>1. ReturnCall(k)
    BY <1>2, <1>5 DEF sendSession
  <2> QED
    BY <1>1, <2>1, CallerReturns
<1> QED
  BY <1>4, <1>5

LEMMA SpawnKeeps ==
  ASSUME RoutesInv, NEW k \in Callers, Spawn(k)
  PROVE  RoutesInv'
<1>0. RouteRowsOK /\ BindingsOK
  BY DEF RoutesInv
<1>1. PICK s \in opened, w \in Workers :
        Call(k, Starting(s, <<Conv(s), w>>, loadPreferredRunForSession(s), "spawn", TRUE, NoBinding))
  BY DEF Spawn
<1>2. PICK above, to : above = loadPreferredRunForSession(s) /\ to = <<Conv(s), w>>
  OBVIOUS
<1>3. above \in Nat /\ s \in Sessions /\ Conv(s) \in Conversations
  BY <1>0, <1>2, PreferredIs, OpenedAre
<1>4. to \in Sessions /\ Conv(to) = Conv(s)
  BY <1>2, <1>3 DEF Sessions, Conv
<1>5. RouteCallOK(Starting(s, to, above, "spawn", TRUE, NoBinding))
  BY <1>3, <1>4, StartsWell, NoBindingIs
<1> QED
  BY <1>1, <1>2, <1>5, CallerLooks DEF Spawn

LEMMA LookUpsKeep ==
  ASSUME RoutesInv, NEW k \in Callers, directSessionMessage(k) \/ LookAtRun(k)
  PROVE  RoutesInv'
<1>1. UNCHANGED <<bindings, opened, work, mail, intents>>
  BY DEF directSessionMessage, LookAtRun
<1>2. PICK from \in opened, to \in opened :
        Conv(from) = Conv(to) /\ Call(k, [pc |-> "note", from |-> from, session |-> to])
  <2>1. CASE directSessionMessage(k)
    BY <2>1 DEF directSessionMessage, LookOver
  <2>2. CASE LookAtRun(k)
    <3>1. PICK i \in DOMAIN work :
            work[i].session \in opened /\ Call(k, [pc |-> "note", from |-> work[i].session, session |-> work[i].session])
      BY <2>2 DEF LookAtRun, LookOver
    <3> QED BY <3>1
  <2> QED BY <2>1, <2>2
<1>3. RouteCallOK([pc |-> "note", from |-> from, session |-> to])
  BY <1>2 DEF RouteCallOK
<1> QED
  BY <1>1, <1>2, <1>3, CallerLooks

(* What a caller has in hand at each of its steps.                         *)
LEMMA InHand ==
  ASSUME RoutesInv, NEW k \in Callers
  PROVE  /\ CallAt(k, "deactivate") => calls[k].route \in DOMAIN bindings
         /\ CallAt(k, "note") => /\ calls[k].from \in opened /\ calls[k].session \in opened
                                 /\ Conv(calls[k].from) = Conv(calls[k].session)
         /\ calls[k].pc \in {"create", "open", "bind", "message"} => StartOK(calls[k])
<1>1. RouteCallOK(calls[k])
  BY DEF RoutesInv
<1> QED
  BY <1>1 DEF RouteCallOK, CallAt, NoCall, StartOK, StartCall

LEMMA CallsAfter ==
  ASSUME RoutesInv, RouteRowsOK', Grows, NEW k \in Callers, NEW call, RouteCallOK(call),
         UNCHANGED calls \/ Call(k, call)
  PROVE  DOMAIN calls' = Callers /\ \A h \in Callers : calls'[h] = calls[h] \/ RouteCallOK(calls[h])'
<1>1. DOMAIN calls = Callers /\ RouteRowsOK
  BY DEF RoutesInv
<1>2. CASE UNCHANGED calls
  BY <1>1, <1>2
<1>3. CASE Call(k, call)
  <2>1. RouteCallOK(call)'
    BY <1>1, CallStays
  <2>2. RouteCallOK(calls[k])'
    BY <1>1, <1>3, <2>1, CallSet
  <2> QED
    BY <1>1, <1>3, <2>2, CallSet
<1> QED
  BY <1>2, <1>3

LEMMA RoutesMove ==
  ASSUME RoutesInv, RoutesGrow, bindings' \in Seq(BindingRow), BindingsOK',
         UNCHANGED <<opened, work, mail, intents>>,
         NEW k \in Callers, NEW call, RouteCallOK(call), UNCHANGED calls \/ Call(k, call)
  PROVE  RoutesInv'
<1>1. RouteRowsOK
  BY DEF RoutesInv
<1>2. RouteRowsOK' /\ Grows
  BY <1>1 DEF RouteRowsOK, Grows, RoutesGrow, Sessions
<1> QED
  BY <1>2, CallsAfter, StepKeeps

LEMMA BindRouteKeeps ==
  ASSUME RoutesInv, NEW k \in Callers, BindRoute(k)
  PROVE  RoutesInv' /\ RoutesGrow
<1>0. RouteRowsOK /\ BindingsOK /\ RouteCallOK(NoCall)
  BY DEF RoutesInv, RouteCallOK
<1>1. PICK s \in opened, t \in Threads : BindThread(s, t, [who |-> "operator", seen |-> Len(bindings)])
  BY DEF BindRoute
<1>2. PICK source : source = [who |-> "operator", seen |-> Len(bindings)]
  OBVIOUS
<1>3. source \in Sources /\ source.who # "message" /\ s \in Sessions
  BY <1>0, <1>2, LenProperties DEF Sources, RouteRowsOK
<1>4. BindThread(s, t, source) /\ UNCHANGED <<opened, work, mail, intents, calls>>
  BY <1>1, <1>2 DEF BindRoute
<1>5. RoutesGrow /\ bindings' \in Seq(BindingRow)
  BY <1>0, <1>3, <1>4, BindGrows, BoundRoutes
<1>6. BindingsOK'
  BY <1>0, <1>3, <1>4, BindKeepsOrder
<1> QED
  BY <1>0, <1>4, <1>5, <1>6, RoutesMove

LEMMA FinishDeactivateKeeps ==
  ASSUME RoutesInv, NEW k \in Callers, FinishDeactivate(k)
  PROVE  RoutesInv' /\ RoutesGrow
<1>0. RouteRowsOK /\ BindingsOK /\ RouteCallOK(NoCall)
  BY DEF RoutesInv, RouteCallOK
<1>1. PICK i \in DOMAIN bindings : SessionUnbound(i)
  BY InHand DEF FinishDeactivate
<1>2. UNCHANGED <<opened, work, mail, intents>> /\ Call(k, NoCall)
  BY DEF FinishDeactivate, ReturnCall
<1>3. RoutesGrow /\ bindings' \in Seq(BindingRow)
  BY <1>0, <1>1, <1>2, UnbindGrows, UnboundRoutes
<1>4. BindingsOK'
  BY <1>0, <1>1, <1>2, UnbindKeepsOrder
<1> QED
  BY <1>0, <1>2, <1>3, <1>4, RoutesMove

LEMMA bindSessionKeeps ==
  ASSUME RoutesInv, NEW k \in Callers, bindSession(k)
  PROVE  RoutesInv' /\ RoutesGrow
<1>0. RouteRowsOK /\ BindingsOK
  BY DEF RoutesInv
<1>1. PICK call : call = calls[k]
  OBVIOUS
<1>2. StartOK(call) /\ call.pc = "bind" /\ call \in StartCall
  BY <1>1, InHand DEF bindSession, CallAt, StartOK
<1>3. PICK next : next = [call EXCEPT !.pc = "message"]
  OBVIOUS
<1>4. next \in StartCall /\ next.pc = "message" /\ next.from = call.from /\ next.session = call.session
      /\ next.bind = call.bind /\ next.run = call.run
  BY <1>2, <1>3 DEF StartCall
<1>5. RouteCallOK(next)
  BY <1>2, <1>4 DEF StartOK, RouteCallOK
<1>6. Call(k, next) /\ UNCHANGED <<opened, work, mail, intents>>
  BY <1>1, <1>3 DEF bindSession
<1>7. CASE call.bind = NoBinding
  <2>1. UNCHANGED bindings
    BY <1>1, <1>7 DEF bindSession
  <2>2. RoutesGrow
    <3>1. Len(bindings) \in Nat
      BY <1>0, LenProperties DEF RouteRowsOK
    <3> QED
      BY <1>6, <2>1, <3>1 DEF RoutesGrow, Reaches
  <2>3. bindings' \in Seq(BindingRow) /\ RouteRowsOK'
    BY <1>0, <1>6, <2>1 DEF RouteRowsOK, Sessions
  <2>4. BindingsOK'
    BY <1>0, <1>6, <2>1, <2>3, RoutesStay, LenProperties DEF RouteRowsOK
  <2> QED
    BY <1>5, <1>6, <2>2, <2>3, <2>4, RoutesMove
<1>8. CASE call.bind # NoBinding
  <2>1. PICK s, t, source : s = call.session /\ t = call.bind.thread
                            /\ source = [who |-> "message", seen |-> call.bind.seen]
    OBVIOUS
  <2>2. BindThread(s, t, source)
    BY <1>1, <1>8, <2>1 DEF bindSession
  <2>3. s \in opened /\ s \in Sessions /\ SeenAreOther(call.bind, s)
    BY <1>0, <1>2, <2>1, OpenedAre DEF StartOK
  <2>4. t \in Threads /\ source \in Sources /\ source.seen = call.bind.seen
    BY <1>2, <1>8, <2>1, <2>3 DEF SeenAreOther, StartCall, Sources
  <2>5. \A i \in 1 .. source.seen : Thread(i) = <<Conv(s), t>> => bindings[i].status # "active"
    BY <1>8, <2>1, <2>3, <2>4 DEF SeenAreOther
  <2>6. RoutesGrow /\ bindings' \in Seq(BindingRow)
    BY <1>0, <1>6, <2>2, <2>3, <2>4, BindGrows, BoundRoutes
  <2>7. BindingsOK'
    BY <1>0, <1>6, <2>2, <2>3, <2>4, <2>5, BindKeepsOrder
  <2> QED
    BY <1>5, <1>6, <2>6, <2>7, RoutesMove
<1> QED
  BY <1>7, <1>8

LEMMA createRunKeeps ==
  ASSUME RoutesInv, NEW k \in Callers, createRun(k)
  PROVE  RoutesInv'
<1>0. RouteRowsOK /\ BindingsOK
  BY DEF RoutesInv
<1>1. PICK call : call = calls[k]
  OBVIOUS
<1>2. StartOK(call) /\ call.pc = "create" /\ call \in StartCall /\ UNCHANGED <<bindings, opened, mail, intents>>
  BY <1>1, InHand DEF createRun, CallAt, StartOK
<1>3. CASE call.parent = 0 /\ BusyRoot(Conv(call.session))
  BY <1>1, <1>2, <1>3, CallerReturns DEF createRun
<1>4. CASE ~(call.parent = 0 /\ BusyRoot(Conv(call.session)))
  <2>1. PICK s, row, next :
          /\ s = IF call.open /\ call.session \in opened THEN LostOf(Conv(call.session)) ELSE call.session
          /\ row = [pc |-> "new", parent |-> call.parent, message |-> 0, route |-> 0, session |-> s]
          /\ next = [call EXCEPT !.pc = "open", !.run = Len(work) + 1]
    OBVIOUS
  <2>2. work' = Append(work, row) /\ Call(k, next)
    BY <1>1, <1>4, <2>1 DEF createRun
  <2>3. s \in Sessions \cup {LostOf(c) : c \in Conversations}
    BY <1>2, <2>1 DEF StartCall, Sessions, Conv
  <2>4. row \in RunRow /\ row.session = s /\ row.pc = "new"
    BY <1>2, <2>1, <2>3 DEF RunRow, StartCall
  <2>5. Len(work) \in Nat /\ DOMAIN work = 1 .. Len(work)
    BY <1>0, LenProperties DEF RouteRowsOK
  <2>6. /\ work' \in Seq(RunRow) /\ Len(work') = Len(work) + 1
        /\ \A i \in 1 .. Len(work) : work'[i] = work[i]
        /\ work'[Len(work) + 1] = row
    BY <1>0, <2>2, <2>4, AppendProperties DEF RouteRowsOK
  <2>7. DOMAIN work' = 1 .. (Len(work) + 1)
    BY <2>5, <2>6, LenProperties
  <2>8. RouteRowsOK' /\ Grows
    <3>1. Len(bindings) \in Nat
      BY <1>0, LenProperties DEF RouteRowsOK
    <3> QED
      BY <1>0, <1>2, <2>5, <2>6, <2>7, <3>1 DEF RouteRowsOK, Grows, Reaches, Sessions
  <2>9. BindingsOK'
    BY <1>0, <1>2, <2>8, RoutesStay, LenProperties DEF RouteRowsOK
  <2>10. next \in StartCall /\ next.pc = "open" /\ next.from = call.from /\ next.session = call.session
         /\ next.bind = call.bind /\ next.run = Len(work) + 1 /\ next.open = call.open
    <3>1. PICK n : n = Len(work) + 1
      OBVIOUS
    <3>2. n \in Nat /\ call \in StartCall
      BY <1>2, <2>5, <3>1
    <3>3. next = [call EXCEPT !.pc = "open", !.run = n]
      BY <2>1, <3>1
    <3>4. next \in StartCall /\ next.pc = "open" /\ next.from = call.from /\ next.session = call.session
          /\ next.bind = call.bind /\ next.run = n /\ next.open = call.open
      BY <3>2, <3>3 DEF StartCall
    <3> QED
      BY <3>1, <3>4
  <2>11. RouteCallOK(next)'
    <3>1. next \in StartCall' /\ Conv(next.from)' = Conv(next.session)'
      BY <1>2, <2>10 DEF StartOK, StartCall, Conv, Sessions
    <3>2. SeenAreOther(next.bind, next.session)'
      BY <1>2, <2>10 DEF StartOK, SeenAreOther, Thread, Conv
    <3>3. next.run \in DOMAIN work' /\ work'[next.run].session = s
      BY <2>4, <2>5, <2>6, <2>7, <2>10
    <3>4. next.open \/ next.session \in opened'
      BY <1>2, <2>10 DEF StartOK
    <3>5. s = next.session \/ (next.open /\ next.session \in opened')
      BY <1>2, <2>1, <2>10
    <3> QED
      BY <2>10, <3>1, <3>2, <3>3, <3>4, <3>5 DEF RouteCallOK, StartOK
  <2>12. DOMAIN calls' = Callers /\ \A h \in Callers : calls'[h] = calls[h] \/ RouteCallOK(calls[h])'
    <3>1. DOMAIN calls = Callers
      BY DEF RoutesInv
    <3>2. RouteCallOK(calls[k])'
      BY <2>2, <2>11, <3>1, CallSet
    <3> QED
      BY <2>2, <3>1, <3>2, CallSet
  <2>13. RouteRunOK(row)'
    BY <2>4 DEF RouteRunOK
  <2>14. \A i \in DOMAIN work' : (i \in DOMAIN work /\ work'[i] = work[i]) \/ RouteRunOK(work[i])'
    <3> SUFFICES ASSUME NEW i \in DOMAIN work', i \notin DOMAIN work PROVE RouteRunOK(work[i])'
      BY <2>5, <2>6
    <3>1. work'[i] = row
      BY <2>5, <2>6, <2>7
    <3> QED
      BY <2>13, <3>1
  <2> QED
    BY <1>2, <2>8, <2>9, <2>12, <2>14, StepKeeps
<1> QED
  BY <1>3, <1>4

LEMMA openSessionKeeps ==
  ASSUME RoutesInv, NEW k \in Callers, openSession(k)
  PROVE  RoutesInv'
<1>0. RouteRowsOK /\ BindingsOK
  BY DEF RoutesInv
<1>1. PICK call : call = calls[k]
  OBVIOUS
<1>2. StartOK(call) /\ call.pc = "open" /\ call \in StartCall /\ UNCHANGED <<bindings, work, mail, intents>>
  BY <1>1, InHand DEF openSession, CallAt, StartOK
<1>3. CASE call.open /\ call.session \in opened
  BY <1>1, <1>2, <1>3, CallerReturns DEF openSession
<1>4. CASE ~(call.open /\ call.session \in opened)
  <2>1. PICK next : next = [call EXCEPT !.pc = "bind"]
    OBVIOUS
  <2>2. Call(k, next) /\ opened' \in {opened, opened \cup {call.session}} /\ call.session \in opened'
    BY <1>1, <1>2, <1>4, <2>1 DEF openSession, StartOK
  <2>3. next \in StartCall /\ next.pc = "bind" /\ next.from = call.from /\ next.session = call.session
        /\ next.bind = call.bind /\ next.run = call.run /\ next.open = call.open
    BY <1>2, <2>1 DEF StartCall
  <2>4. RouteRowsOK' /\ Grows
    <3>1. Len(bindings) \in Nat
      BY <1>0, LenProperties DEF RouteRowsOK
    <3>2. call.session \in Sessions
      BY <1>2 DEF StartCall
    <3> QED
      BY <1>0, <1>2, <2>2, <3>1, <3>2 DEF RouteRowsOK, Grows, Reaches, Sessions
  <2>5. BindingsOK'
    BY <1>0, <1>2, <2>2, <2>4, RoutesStay, LenProperties DEF RouteRowsOK
  <2>6. RouteCallOK(next)'
    <3>1. next \in StartCall' /\ Conv(next.from)' = Conv(next.session)'
      BY <1>2, <2>3 DEF StartOK, StartCall, Conv, Sessions
    <3>2. SeenAreOther(next.bind, next.session)'
      BY <1>2, <2>3 DEF StartOK, SeenAreOther, Thread, Conv
    <3>3. next.run \in DOMAIN work' /\ work'[next.run].session = next.session
      BY <1>2, <1>4, <2>3 DEF StartOK
    <3> QED
      BY <2>2, <2>3, <3>1, <3>2, <3>3 DEF RouteCallOK, StartOK
  <2>7. DOMAIN calls' = Callers /\ \A h \in Callers : calls'[h] = calls[h] \/ RouteCallOK(calls[h])'
    <3>1. DOMAIN calls = Callers
      BY DEF RoutesInv
    <3>2. RouteCallOK(calls[k])'
      BY <2>2, <2>6, <3>1, CallSet
    <3> QED
      BY <2>2, <3>1, <3>2, CallSet
  <2> QED
    BY <1>2, <2>4, <2>5, <2>7, StepKeeps
<1> QED
  BY <1>3, <1>4

LEMMA WorkChanges ==
  ASSUME RouteRowsOK, NEW i \in DOMAIN work, NEW row \in RunRow, row.session = work[i].session,
         work' = [work EXCEPT ![i] = row]
  PROVE  /\ work' \in Seq(RunRow) /\ DOMAIN work' = DOMAIN work /\ work'[i] = row
         /\ \A j \in DOMAIN work : work'[j].session = work[j].session /\ (j # i => work'[j] = work[j])
<1>1. Len(work) \in Nat /\ DOMAIN work = 1 .. Len(work)
  BY LenProperties DEF RouteRowsOK
<1>2. /\ work' \in Seq(RunRow) /\ Len(work') = Len(work)
      /\ \A j \in 1 .. Len(work) : work'[j] = IF j = i THEN row ELSE work[j]
  BY <1>1, ExceptSeq DEF RouteRowsOK
<1> QED
  BY <1>1, <1>2, LenProperties

LEMMA RunsAre ==
  ASSUME RouteRowsOK
  PROVE  \A i \in DOMAIN work : work[i] \in RunRow
BY LenProperties DEF RouteRowsOK

LEMMA MailStep ==
  ASSUME RouteRowsOK, BindingsOK, NEW from \in Sessions, NEW s \in opened, Conv(from) = Conv(s),
         NEW kind \in {"user", "send", "spawn", "note", "reply", "question"}, MessageAdded(from, s, kind),
         UNCHANGED <<bindings, opened, intents>>,
         work' \in Seq(RunRow), DOMAIN work' = DOMAIN work,
         \A i \in DOMAIN work : work'[i].session = work[i].session
  PROVE  /\ RouteRowsOK' /\ Grows /\ BindingsOK'
         /\ \A m \in DOMAIN mail' : m \in DOMAIN mail \/ MessageOK(m)'
<1>1. s \in Sessions
  BY DEF RouteRowsOK
<1>2. /\ mail' \in Seq(MailRow) /\ DOMAIN mail \subseteq DOMAIN mail' /\ Len(mail) <= Len(mail')
      /\ \A m \in DOMAIN mail : mail'[m] = mail[m]
      /\ mail'[Len(mail) + 1] = [from |-> from, to |-> s, kind |-> kind]
      /\ \A m \in DOMAIN mail' : m \in DOMAIN mail \/ m = Len(mail) + 1
  BY <1>1, MailGrows
<1>3. RouteRowsOK'
  BY <1>2 DEF RouteRowsOK, Sessions
<1>4. Grows
  <2>1. Len(bindings) \in Nat
    BY LenProperties DEF RouteRowsOK
  <2> QED
    BY <1>2, <2>1 DEF Grows, Reaches
<1>5. BindingsOK'
  BY <1>2, <1>3, RoutesStay
<1>6. ASSUME NEW m \in DOMAIN mail', m \notin DOMAIN mail PROVE MessageOK(m)'
  <2>1. mail'[m] = [from |-> from, to |-> s, kind |-> kind]
    BY <1>2, <1>6
  <2> QED
    BY <2>1 DEF MessageOK, Conv
<1> QED
  BY <1>3, <1>4, <1>5, <1>6

LEMMA InjectRunNoteKeeps ==
  ASSUME RoutesInv, NEW k \in Callers, InjectRunNote(k)
  PROVE  RoutesInv'
<1>0. RouteRowsOK /\ BindingsOK /\ RouteCallOK(NoCall)
  BY DEF RoutesInv, RouteCallOK
<1>1. PICK from, s : from = calls[k].from /\ s = calls[k].session
  OBVIOUS
<1>2. from \in Sessions /\ s \in opened /\ Conv(from) = Conv(s)
  BY <1>0, <1>1, InHand, OpenedAre DEF InjectRunNote
<1>3. MessageAdded(from, s, "note") /\ Call(k, NoCall) /\ UNCHANGED <<bindings, opened, work, intents>>
  BY <1>1 DEF InjectRunNote, ReturnCall
<1>4. /\ RouteRowsOK' /\ Grows /\ BindingsOK'
      /\ \A m \in DOMAIN mail' : m \in DOMAIN mail \/ MessageOK(m)'
  BY <1>0, <1>2, <1>3, MailStep DEF RouteRowsOK
<1> QED
  BY <1>0, <1>3, <1>4, CallsAfter, StepKeeps

LEMMA appendSessionMessageKeeps ==
  ASSUME RoutesInv, NEW k \in Callers, appendSessionMessage(k)
  PROVE  RoutesInv'
<1>0. RouteRowsOK /\ BindingsOK /\ RouteCallOK(NoCall)
  BY DEF RoutesInv, RouteCallOK
<1>1. PICK call : call = calls[k]
  OBVIOUS
<1>2. StartOK(call) /\ call.pc = "message" /\ call \in StartCall
  BY <1>1, InHand DEF appendSessionMessage, CallAt, StartOK
<1>3. /\ MessageAdded(call.from, call.session, call.kind) /\ Call(k, NoCall)
      /\ UNCHANGED <<bindings, opened, intents>>
      /\ work' = [work EXCEPT ![call.run].pc = "work"]
  BY <1>1 DEF appendSessionMessage, ReturnCall
<1>4. PICK i : i = call.run
  OBVIOUS
<1>5. i \in DOMAIN work /\ work[i].session = call.session /\ call.session \in opened
  BY <1>2, <1>4 DEF StartOK
<1>6. PICK row : row = [work[i] EXCEPT !.pc = "work"]
  OBVIOUS
<1>7. row \in RunRow /\ row.session = work[i].session /\ row.pc = "work"
  BY <1>0, <1>5, <1>6, RunsAre DEF RunRow
<1>8. work' = [work EXCEPT ![i] = row]
  BY <1>3, <1>4, <1>6
<1>9. /\ work' \in Seq(RunRow) /\ DOMAIN work' = DOMAIN work /\ work'[i] = row
      /\ \A j \in DOMAIN work : work'[j].session = work[j].session /\ (j # i => work'[j] = work[j])
  BY <1>0, <1>5, <1>7, <1>8, WorkChanges
<1>10. call.from \in Sessions /\ Conv(call.from) = Conv(call.session)
       /\ call.kind \in {"user", "send", "spawn", "note", "reply", "question"}
  BY <1>2 DEF StartOK, StartCall
<1>11. /\ RouteRowsOK' /\ Grows /\ BindingsOK'
       /\ \A m \in DOMAIN mail' : m \in DOMAIN mail \/ MessageOK(m)'
  BY <1>0, <1>3, <1>5, <1>9, <1>10, MailStep
<1>12. RouteRunOK(row)'
  BY <1>3, <1>5, <1>7 DEF RouteRunOK
<1>13. \A j \in DOMAIN work' : (j \in DOMAIN work /\ work'[j] = work[j]) \/ RouteRunOK(work[j])'
  <2>1. RouteRunOK(work[i])'
    BY <1>9, <1>12
  <2> QED
    BY <1>9, <2>1
<1> QED
  BY <1>0, <1>3, <1>11, <1>13, CallsAfter, StepKeeps

-----------------------------------------------------------------------------
(* The runs' own words.                                                    *)

LEMMA SpeakKeeps ==
  ASSUME RoutesInv, NEW i \in DOMAIN work, Speak(i)
  PROVE  RoutesInv'
<1>0. RouteRowsOK /\ BindingsOK /\ RouteRunOK(work[i]) /\ DOMAIN calls = Callers
  BY DEF RoutesInv
<1>1. PICK kind \in {"reply", "question"} :
        /\ MessageAdded(work[i].session, work[i].session, kind)
        /\ work' = [work EXCEPT ![i].pc = kind, ![i].message = Len(mail) + 1]
  BY DEF Speak
<1>2. PICK s, n, row : s = work[i].session /\ n = Len(mail) + 1
                       /\ row = [work[i] EXCEPT !.pc = kind, !.message = n]
  OBVIOUS
<1>3. s \in opened /\ s \in Sessions
  BY <1>0, <1>2, OpenedAre DEF Speak, RouteRunOK
<1>4. n \in Nat /\ work[i] \in RunRow
  BY <1>0, <1>2, RunsAre, LenProperties DEF RouteRowsOK
<1>5. row \in RunRow /\ row.session = s /\ row.pc = kind /\ row.message = n
  BY <1>2, <1>4 DEF RunRow
<1>6. work' = [work EXCEPT ![i] = row]
  BY <1>0, <1>1, <1>2, LenProperties DEF RouteRowsOK
<1>7. /\ work' \in Seq(RunRow) /\ DOMAIN work' = DOMAIN work /\ work'[i] = row
      /\ \A j \in DOMAIN work : work'[j].session = work[j].session /\ (j # i => work'[j] = work[j])
  BY <1>0, <1>2, <1>5, <1>6, WorkChanges
<1>8. UNCHANGED <<bindings, opened, intents, calls>>
  BY DEF Speak
<1>9. MessageAdded(s, s, kind)
  BY <1>1, <1>2
<1>10. /\ RouteRowsOK' /\ Grows /\ BindingsOK'
       /\ \A m \in DOMAIN mail' : m \in DOMAIN mail \/ MessageOK(m)'
  BY <1>0, <1>3, <1>7, <1>8, <1>9, MailStep
<1>11. n \in DOMAIN mail' /\ mail'[n] = [from |-> s, to |-> s, kind |-> kind]
  <2>1. kind \in {"user", "send", "spawn", "note", "reply", "question"}
    OBVIOUS
  <2> QED
    BY <1>0, <1>2, <1>3, <1>9, <2>1, MailGrows
<1>12. RouteRunOK(row)'
  BY <1>3, <1>5, <1>8, <1>11 DEF RouteRunOK
<1>13. \A j \in DOMAIN work' : (j \in DOMAIN work /\ work'[j] = work[j]) \/ RouteRunOK(work[j])'
  <2>1. RouteRunOK(work[i])'
    BY <1>7, <1>12
  <2> QED
    BY <1>7, <2>1
<1> QED
  BY <1>0, <1>8, <1>10, <1>13, StepKeeps

\* A run changes its own row, and may queue a message.
LEMMA RunStep ==
  ASSUME RoutesInv, UNCHANGED <<bindings, opened, mail, calls>>, NEW i \in DOMAIN work, NEW row \in RunRow,
         row.session = work[i].session, work' = [work EXCEPT ![i] = row], RouteRunOK(row),
         intents' \subseteq [message : DOMAIN mail, route : DOMAIN bindings],
         \A x \in intents' : x \in intents \/ IntentOK(x)
  PROVE  RoutesInv'
<1>0. RouteRowsOK /\ BindingsOK /\ DOMAIN calls = Callers
  BY DEF RoutesInv
<1>1. /\ work' \in Seq(RunRow) /\ DOMAIN work' = DOMAIN work /\ work'[i] = row
      /\ \A j \in DOMAIN work : work'[j].session = work[j].session /\ (j # i => work'[j] = work[j])
  BY <1>0, WorkChanges
<1>2. RouteRowsOK' /\ Grows
  <2>1. Len(bindings) \in Nat
    BY <1>0, LenProperties DEF RouteRowsOK
  <2> QED
    BY <1>0, <1>1, <2>1 DEF RouteRowsOK, Grows, Reaches, Sessions
<1>3. BindingsOK'
  BY <1>0, <1>2, RoutesStay, LenProperties DEF RouteRowsOK
<1>4. RouteRunOK(row)'
  BY <1>0, <1>2, RunStays
<1>5. \A j \in DOMAIN work' : (j \in DOMAIN work /\ work'[j] = work[j]) \/ RouteRunOK(work[j])'
  <2>1. RouteRunOK(work[i])'
    BY <1>1, <1>4
  <2> QED
    BY <1>1, <2>1
<1>6. \A x \in intents' : x \in intents \/ IntentOK(x)'
  BY DEF IntentOK, Reaches, Conv
<1> QED
  BY <1>0, <1>2, <1>3, <1>5, <1>6, StepKeeps

LEMMA EndedRun ==
  ASSUME NEW row \in RunRow
  PROVE  End(row) \in RunRow /\ End(row).session = row.session /\ RouteRunOK(End(row))
<1>1. End(row) \in RunRow /\ End(row).session = row.session /\ End(row).pc = "ended"
  BY DEF End, RunRow
<1> QED
  BY <1>1 DEF RouteRunOK

LEMMA PickRouteKeeps ==
  ASSUME RoutesInv, NEW i \in DOMAIN work, PickRoute(i)
  PROVE  RoutesInv'
<1>0. RouteRowsOK /\ RouteRunOK(work[i]) /\ work[i] \in RunRow
  BY RunsAre DEF RoutesInv
<1>1. UNCHANGED <<bindings, opened, mail, intents, calls>> /\ work[i].pc \in {"reply", "question"}
  BY DEF PickRoute
<1>2. \A x \in intents : x \in [message : DOMAIN mail, route : DOMAIN bindings]
  BY <1>0 DEF RouteRowsOK
<1>3. CASE RouteFor(i) = 0
  <2>1. work' = [work EXCEPT ![i] = End(work[i])]
    BY <1>3 DEF PickRoute
  <2> QED
    BY <1>0, <1>1, <1>2, <2>1, EndedRun, RunStep
<1>4. CASE RouteFor(i) # 0
  <2>1. PICK r, row : r = RouteFor(i) /\ row = [work[i] EXCEPT !.pc = "routed", !.route = r]
    OBVIOUS
  <2>2. work' = [work EXCEPT ![i] = row]
    BY <1>4, <2>1 DEF PickRoute
  <2>3. /\ r \in DOMAIN bindings /\ bindings[r].status = "active"
        /\ Conv(bindings[r].session) = Conv(work[i].session)
        /\ work[i].pc # "question" => bindings[r].session = work[i].session
    BY <1>0, <1>4, <2>1, RouteForIs DEF ActiveRoutes
  <2>4. r \in Nat
    BY <1>0, <2>3, LenProperties DEF RouteRowsOK
  <2>5. row \in RunRow /\ row.session = work[i].session /\ row.pc = "routed" /\ row.route = r
        /\ row.message = work[i].message
    BY <1>0, <2>1, <2>4 DEF RunRow
  <2>6. RouteRunOK(row)
    BY <1>0, <1>1, <2>3, <2>5 DEF RouteRunOK, Reaches
  <2> QED
    BY <1>1, <1>2, <2>2, <2>5, <2>6, RunStep
<1> QED
  BY <1>3, <1>4

LEMMA queueOutboundIntentKeeps ==
  ASSUME RoutesInv, NEW i \in DOMAIN work, queueOutboundIntent(i)
  PROVE  RoutesInv'
<1>0. RouteRowsOK /\ RouteRunOK(work[i]) /\ work[i] \in RunRow
  BY RunsAre DEF RoutesInv
<1>1. PICK x : x = [message |-> work[i].message, route |-> work[i].route]
  OBVIOUS
<1>2. /\ UNCHANGED <<bindings, opened, mail, calls>> /\ work[i].pc = "routed"
      /\ intents' = intents \cup {x} /\ work' = [work EXCEPT ![i] = End(work[i])]
  BY <1>1 DEF queueOutboundIntent
<1>3. x \in [message : DOMAIN mail, route : DOMAIN bindings] /\ IntentOK(x)
  BY <1>0, <1>1, <1>2 DEF RouteRunOK, IntentOK
<1>4. intents' \subseteq [message : DOMAIN mail, route : DOMAIN bindings]
  BY <1>0, <1>2, <1>3 DEF RouteRowsOK
<1> QED
  BY <1>0, <1>2, <1>3, <1>4, EndedRun, RunStep

-----------------------------------------------------------------------------
(* The theorems.                                                           *)

LEMMA RoutesInitInv == RoutesInit => RoutesInv
<1> SUFFICES ASSUME RoutesInit PROVE RoutesInv
  OBVIOUS
<1>1. DOMAIN bindings = {} /\ DOMAIN work = {} /\ DOMAIN mail = {} /\ Len(mail) = 0
  BY DEF RoutesInit
<1>2. RouteRowsOK
  BY DEF RoutesInit, RouteRowsOK
<1>3. \A k \in Callers : calls[k] = NoCall
  BY DEF RoutesInit
<1> QED
  BY <1>1, <1>2, <1>3 DEF RoutesInit, RoutesInv, BindingsOK, RouteCallOK

(* The steps that change routes.                                           *)
MovesRoutes(k) == BindRoute(k) \/ FinishDeactivate(k) \/ bindSession(k)

LEMMA RoutesStep ==
  ASSUME RoutesInv, [RoutesNext]_routesVars
  PROVE  RoutesInv' /\ (UNCHANGED bindings \/ RoutesGrow)
<1>1. CASE UNCHANGED routesVars
  BY <1>1 DEF routesVars, RoutesInv, RouteRowsOK, BindingsOK, PlaceOK, Follows, Thread, RouteCallOK, StartOK, SeenAreOther,
              RouteRunOK, Reaches, MessageOK, IntentOK, StartCall, Sessions, Conv, LostOf
<1>2. ASSUME NEW k \in Callers, MovesRoutes(k) PROVE RoutesInv' /\ RoutesGrow
  BY <1>2, BindRouteKeeps, FinishDeactivateKeeps, bindSessionKeeps DEF MovesRoutes
<1>3. ASSUME NEW k \in Callers, BeginDeactivate(k) \/ resolveFrontSession(k) \/ SendRoute(k) \/ SendSession(k)
                                \/ sendSession(k) \/ Spawn(k)
      PROVE  RoutesInv' /\ UNCHANGED bindings
  <2>1. UNCHANGED bindings
    BY <1>3 DEF BeginDeactivate, resolveFrontSession, SendRoute, SendSession, sendSession, Spawn
  <2> QED
    BY <1>3, <2>1, BeginDeactivateKeeps, resolveFrontSessionKeeps, SendsKeep, sendSessionKeeps, SpawnKeeps
<1>4. ASSUME NEW k \in Callers, createRun(k) \/ openSession(k) \/ appendSessionMessage(k)
                                \/ directSessionMessage(k) \/ LookAtRun(k) \/ InjectRunNote(k)
      PROVE  RoutesInv' /\ UNCHANGED bindings
  <2>1. UNCHANGED bindings
    BY <1>4 DEF createRun, openSession, appendSessionMessage, directSessionMessage, LookAtRun, InjectRunNote
  <2> QED
    BY <1>4, <2>1, createRunKeeps, openSessionKeeps, appendSessionMessageKeeps, LookUpsKeep, InjectRunNoteKeeps
<1>5. ASSUME NEW i \in DOMAIN work, Speak(i) \/ PickRoute(i) \/ queueOutboundIntent(i)
      PROVE  RoutesInv' /\ UNCHANGED bindings
  <2>1. UNCHANGED bindings
    BY <1>5 DEF Speak, PickRoute, queueOutboundIntent
  <2> QED
    BY <1>5, <2>1, SpeakKeeps, PickRouteKeeps, queueOutboundIntentKeeps
<1> QED
  BY <1>1, <1>2, <1>3, <1>4, <1>5 DEF RoutesNext, MovesRoutes

LEMMA RoutesInvariant == RoutesSpec => []RoutesInv
<1>1. RoutesInv /\ [RoutesNext]_routesVars => RoutesInv'
  BY RoutesStep
<1> QED
  BY <1>1, RoutesInitInv, PTL DEF RoutesSpec

(* Routes, messages and sessions refer to each other, and nothing else.    *)
THEOREM RoutesTyped == RoutesSpec => []RoutesTypeOK
BY RoutesInvariant, RoutesInvImplies, PTL

(* A thread has one route at a time, each replaced by the next; what goes   *)
(* out goes over a route that its session has had since it was written; and  *)
(* nothing leaves its conversation.                                        *)
THEOREM RoutesHold == RoutesSpec => []RoutesAreKept
<1>1. RoutesInv => RoutesAreKept
  BY RoutesInvImplies DEF RoutesAreKept
<1> QED
  BY <1>1, RoutesInvariant, PTL

(* No call revives a route that has ended or changes what it says.         *)
THEOREM RoutesEndOnce == RoutesSpec => EndedRoutesStay
<1>1. RoutesInv /\ [RoutesNext]_routesVars =>
        [\A i \in DOMAIN bindings : bindings[i].status # "active" => bindings'[i] = bindings[i]]_routesVars
  BY RoutesStep DEF RoutesGrow
<1> QED
  BY <1>1, RoutesInvariant, PTL DEF RoutesSpec, EndedRoutesStay
=============================================================================
