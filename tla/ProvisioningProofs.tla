-------------------------- MODULE ProvisioningProofs --------------------------
(***************************************************************************)
(* Provisioning for any number of forms, retries and power cuts: the       *)
(* types; that the portal, the flash and the boot implement KeyStore; what *)
(* station and tasks a boot ends with; that giving up takes all the        *)
(* retries and is final; and that before it nobody waits in vain, unless   *)
(* a call whose result is dropped has failed.                              *)
(***************************************************************************)
EXTENDS Provisioning, TLAPS

(* The parts of a boot. *)
Early   == {"nvs", "queues", "error_control", "credentials"}
First   == {"wait1", "blocked1", "decide1"}
Second  == {"wait2", "blocked2", "decide2"}
Blocked == {"blocked1", "blocked2"}

(* Nothing has come of the station, and nothing is under way.              *)
Quiet == bits = {} /\ events = <<>> /\ link = "down" /\ dhcp = FALSE

(* Until the credentials are read nothing has happened but the restart.    *)
EarlyInv ==
  main_pc \in Early =>
    /\ Quiet /\ refused = FALSE
    /\ seen = {} /\ used = {} /\ "httpd" \notin tasks
    /\ cache = flash

(* One thing at a time can make the station connect: an event to be        *)
(* handled, of which there is at most one, or the attempt it led to.       *)
Drives(n) == events[n] # "got_ip"

StationInv ==
  /\ \A n \in 1..Len(events) : Drives(n) =>
       /\ link = "down"
       /\ \A m \in 1..Len(events) : Drives(m) => m = n
  /\ \A n \in 1..Len(events) : events[n] = "start" => ~dhcp
  /\ GivenUpIsFinal

(* One at least, as long as it has not given up; and an address that came  *)
(* is announced or on its way.                                             *)
DrivenInv ==
  /\ mode = "sta" /\ "FAIL" \notin bits /\ ~refused => Underway
  /\ link = "addressed" /\ "CONNECTED" \notin bits => AddressOnItsWay

(* The counter counts the failures in a row. *)
CountInv == "FAIL" \notin bits => failures = s_retry_counter

(* Which mode, which bits and which tasks go with which part of the boot.  *)
OnStation == mode = "sta" \/ (refused /\ Quiet)

ModeInv ==
  /\ seen \subseteq bits
  /\ main_pc \in Blocked => bits = {}
  /\ main_pc \in First => OnStation /\ "httpd" \notin tasks /\ ~NoPair
  /\ main_pc \in Second \cup Starting /\ ~NoPair =>
       (OnStation /\ "httpd" \notin tasks) \/ "FAIL" \in seen
  /\ main_pc \in Second \cup Starting /\ NoPair =>
       main_pc \in {"wait2", "blocked2"} /\ Quiet
  /\ main_pc \in Starting => "CONNECTED" \in seen

(* Without a portal, each address that could be read is that of the flash. *)
ServerInv ==
  "httpd" \notin tasks =>
    /\ httpd_pc = "idle"
    /\ main_pc \in {"cam_get", "ws_get"} => memory_handle = "readonly"
    /\ main_pc \in {"ws", "ws_get", "uart", "rover"} /\ "cam" \notin unread =>
         servers["cam"] = cache["server_ip"]
    /\ main_pc \in {"uart", "rover"} /\ "ws" \notin unread =>
         servers["ws"] = cache["server_ip"]

(* What the flash may hold, and how far the save under way has come.       *)
Holds(store, K) == \A k \in K : store[k] = form

StoreInv ==
  /\ \A k \in Login : {cache[k], flash[k]} \subseteq {kept[k]} \cup open
  /\ httpd_pc \notin {"idle", "restart"} => form \in open
  /\ httpd_pc = "passw"  => Holds(cache, {"ssid"})
  /\ httpd_pc = "commit" => Holds(cache, Login)
  /\ httpd_pc = "close" /\ ~err => Holds(cache, Login) /\ Holds(flash, Login)
  /\ httpd_pc \in {"ip_open", "ip_set", "ip_commit", "ip_close", "reply"} =>
       Holds(cache, Login) /\ Holds(flash, Login)

IInv ==
  /\ TypeOK /\ EarlyInv /\ StationInv /\ DrivenInv /\ CountInv
  /\ ModeInv /\ ServerInv /\ StoreInv

-----------------------------------------------------------------------------
(* The types. *)

USE FormsAssumption, ProvisioningAssumption DEF FormsAssumption, ProvisioningAssumption

(* What the reads of the server's address have in common.                  *)
LEMMA IpReads ==
  ASSUME CamOpens \/ CamGets \/ WsOpens \/ WsGets
  PROVE  /\ UNCHANGED <<seen, used, flash, cache, httpdVars, histVars, wifiVars,
            evVars, cuts>>
         /\ main_pc \in {"cam", "cam_get", "ws", "ws_get"}
         /\ main_pc' \in {"cam_get", "ws", "ws_get", "uart"}
         /\ memory_handle' \in {"closed", "readonly"}
         /\ tasks' \in {tasks, tasks \cup {"websocket"}, tasks \cup {"websocket",
            "ws_error"}}
<1>1. CASE CamOpens
  BY <1>1 DEF CamOpens, IpOpens, IpFails, Go, NvsOpen, NvsClose
<1>2. CASE CamGets
  BY <1>2 DEF CamGets, IpGets, IpFails, Go, NvsClose
<1>3. CASE WsOpens
  BY <1>3 DEF WsOpens, IpOpens, IpFails, WsStarts, Go, NvsOpen, NvsClose
<1>4. CASE WsGets
  BY <1>4 DEF WsGets, IpGets, IpFails, WsStarts, Go, NvsClose
<1> QED
  BY <1>1, <1>2, <1>3, <1>4

LEMMA IpServers ==
  ASSUME CamOpens \/ CamGets \/ WsOpens \/ WsGets
  PROVE  \E c \in Client :
           \/ UNCHANGED servers /\ unread' \in {unread, unread \cup {c}}
           \/ servers' = [servers EXCEPT ![c] = NvsGet("server_ip")] /\ UNCHANGED unread
BY DEF CamOpens, CamGets, WsOpens, WsGets, IpOpens, IpGets, IpFails, Client

LEMMA KeepsStorage ==
  ASSUME StTypeOK, Next
  PROVE  StTypeOK'
<1>1. CASE UNCHANGED stVars
  BY <1>1 DEF StTypeOK, stVars, nvsVars, httpdVars, histVars
<1>2. CASE InitFlash
  <2>1. CASE NvsErase
    BY <2>1 DEF NvsErase, StTypeOK, Nothing, Value, httpdVars
  <2> QED
    BY <1>1, <1>2, <2>1 DEF InitFlash
<1>3. CASE Credentials
  <2>1. CASE CredentialsRead
    BY <1>3, <2>1 DEF Credentials, CredentialsRead, StTypeOK, nvsVars, httpdVars, Login,
       Key
  <2>2. CASE CredentialsUnread
    BY <1>1, <1>3, <2>2 DEF Credentials, CredentialsUnread, stVars
  <2> QED
    BY <1>3, <2>1, <2>2 DEF Credentials
<1>4. CASE CamOpens \/ CamGets \/ WsOpens \/ WsGets
  <2>1. /\ UNCHANGED <<flash, cache, httpdVars, histVars>>
        /\ memory_handle' \in {"closed", "readonly"}
    BY <1>4, IpReads
  <2> QED
    BY <2>1 DEF StTypeOK, Handle, httpdVars, histVars
<1>6. CASE PortalPost
  BY <1>6 DEF PortalPost, Portal, Post, StTypeOK, HttpdPc, nvsVars
<1>7. CASE PortalSave
  <2>1. CASE \E ok \in BOOLEAN : SetOpen(ok) \/ IpOpen(ok)
    BY <2>1 DEF SetOpen, IpOpen, Step, Or, NvsOpen, StTypeOK, Handle, HttpdPc,
         nvsVars, histVars
  <2>2. CASE \E ok \in BOOLEAN : SetSsid(ok) \/ SetPassw(ok) \/ IpSet(ok)
    <3>1. cache' \in [Key -> Value]
      BY <2>2 DEF SetSsid, SetPassw, IpSet, NvsSet, StTypeOK, Value, Key
    <3>2. err' \in BOOLEAN
      BY <2>2, ZenonT(30) DEF SetSsid, SetPassw, IpSet, StTypeOK
    <3> QED
      BY <2>2, <3>1, <3>2 DEF SetSsid, SetPassw, IpSet, Step, Or, NvsSet, StTypeOK,
           HttpdPc, histVars
  <2>3. CASE \E ok \in BOOLEAN : SetCommit(ok) \/ IpCommit(ok)
    BY <2>3 DEF SetCommit, IpCommit, Step, NvsCommit, StTypeOK, HttpdPc, histVars
  <2>4. CASE SetClose \/ IpClose
    BY <2>4 DEF SetClose, IpClose, Step, AfterClose, NvsClose, StTypeOK, Handle,
         HttpdPc, histVars
  <2>5. CASE Reply
    BY <2>5 DEF Reply, Step, StTypeOK, HttpdPc, Value, nvsVars
  <2> QED
    BY <1>7, <2>1, <2>2, <2>3, <2>4, <2>5 DEF PortalSave, Portal, Save
<1>8. CASE EspRestart \/ PowerCut
  <2>1. StRestart
    BY <1>8 DEF EspRestart, PowerCut, Restarts
  <2> QED
    BY <2>1 DEF StRestart, StTypeOK, Handle, HttpdPc, histVars
<1> QED
  BY <1>1, <1>2, <1>3, <1>4, <1>6, <1>7, <1>8
     DEF Next, MainStep, BootStep, InitQueues, InitErrorControl, Wait1, Wait2,
        WaitBits, Decide1,
         Decide2, StartRover, HandleEvent, HandleStart, HandleDisconnected,
         HandleGotIp, Handles, AttemptEnds, AttemptFails, Associates, LinkLost,
         DhcpAnswers, Radio

(* The events are those of the station, and at most one drives it.         *)
LEMMA Handled ==
  ASSUME TypeOK, events # <<>>
  PROVE  /\ Tail(events) \in Seq({"start", "disconnected", "got_ip"})
         /\ Len(Tail(events)) = Len(events) - 1
         /\ \A n \in 1..Len(Tail(events)) : Tail(events)[n] = events[n + 1]
         /\ 1 \in 1..Len(events) /\ Head(events) = events[1]
BY DEF TypeOK

LEMMA Posted ==
  ASSUME TypeOK, NEW e \in {"start", "disconnected", "got_ip"}
  PROVE  /\ events \o <<e>> \in Seq({"start", "disconnected", "got_ip"})
         /\ Append(events, e) = events \o <<e>>
         /\ Len(events \o <<e>>) = Len(events) + 1
         /\ \A n \in 1..Len(events) : (events \o <<e>>)[n] = events[n]
         /\ (events \o <<e>>)[Len(events) + 1] = e
BY DEF TypeOK

LEMMA BitSet ==
  ASSUME bits \in SUBSET Bit, seen \in SUBSET Bit, NEW b \in Bit, SetBit(b)
  PROVE  bits' \in SUBSET Bit /\ seen' \in SUBSET Bit
BY DEF SetBit

WifiTypeOK ==
  /\ bits \in SUBSET Bit /\ seen \in SUBSET Bit
  /\ s_retry_counter \in 0..MAX_RETRY /\ failures \in 0..MAX_RETRY + 1
  /\ events \in Seq({"start", "disconnected", "got_ip"})
  /\ mode \in {"null", "sta", "ap"}
  /\ link \in {"down", "connecting", "up", "addressed"}
  /\ dhcp \in BOOLEAN /\ refused \in BOOLEAN

LEMMA KeepsWifi ==
  ASSUME TypeOK, StationInv, CountInv, Next
  PROVE  WifiTypeOK'
<1>0. WifiTypeOK
  BY DEF TypeOK, WifiTypeOK
<1>1. CASE UNCHANGED <<seen, wifiVars, evVars>>
  BY <1>0, <1>1 DEF WifiTypeOK, wifiVars, evVars
<1>2. CASE Credentials
  <2>1. CASE StartSta
    BY <1>0, <1>2, <2>1, Posted DEF Credentials, CredentialsRead, CredentialsUnread,
       StartSta, WifiTypeOK, evVars
  <2>2. CASE StartAp
    BY <1>0, <1>2, <2>2 DEF Credentials, CredentialsRead, CredentialsUnread, StartAp,
       WifiTypeOK, evVars
  <2> QED
    BY <1>2, <2>1, <2>2 DEF Credentials, CredentialsRead, CredentialsUnread
<1>3. CASE Wait1 \/ Wait2
  BY <1>0, <1>3 DEF Wait1, Wait2, WaitBits, WifiTypeOK, wifiVars, evVars
<1>4. CASE Decide1
  <2>1. CASE StartAp
    BY <1>0, <1>4, <2>1 DEF Decide1, StartAp, WifiTypeOK, evVars
  <2> QED
    BY <1>1, <1>4, <2>1 DEF Decide1
<1>5. CASE HandleStart
  BY <1>0, <1>5, Handled DEF HandleStart, Handles, Connects, WifiTypeOK, evVars
<1>6. CASE HandleDisconnected
  <2>1. "FAIL" \notin bits
    BY <1>6, Handled DEF HandleDisconnected, Handles, StationInv, GivenUpIsFinal
  <2>2. failures' \in 0..MAX_RETRY + 1
    BY <1>0, <1>6, <2>1 DEF HandleDisconnected, CountInv, WifiTypeOK
  <2>3. events' \in Seq({"start", "disconnected", "got_ip"}) /\ mode' = mode
    BY <1>6, Handled DEF HandleDisconnected, Handles
  <2>6. dhcp' = FALSE
    BY <1>6 DEF HandleDisconnected
  <2>4. s_retry_counter' \in 0..MAX_RETRY
    BY <1>0, <1>6 DEF HandleDisconnected, Retries, WifiTypeOK
  <2>5. link' \in {"down", "connecting", "up", "addressed"}
    BY <1>0, <1>6 DEF HandleDisconnected, Connects, GivesUp, WifiTypeOK
  <2>7. bits' \in SUBSET Bit /\ seen' \in SUBSET Bit
    BY <1>0, <1>6, BitSet DEF HandleDisconnected, WifiTypeOK, Bit
  <2>8. dhcp' \in BOOLEAN
    BY <2>6, Zenon
  <2>9. refused' = refused \/ refused' = TRUE
    BY <1>6 DEF HandleDisconnected, Connects, GivesUp
  <2>10. refused' \in BOOLEAN
    BY <1>0, <2>9, Zenon DEF WifiTypeOK
  <2> QED
    BY <1>0, <2>2, <2>3, <2>4, <2>5, <2>7, <2>8, <2>10 DEF WifiTypeOK
<1>7. CASE HandleGotIp
  <2>1. dhcp' \in BOOLEAN
    BY <1>0, <1>7, ZenonT(30) DEF HandleGotIp, WifiTypeOK
  <2>2. bits' \in SUBSET Bit /\ seen' \in SUBSET Bit
    BY <1>0, <1>7, BitSet DEF HandleGotIp, WifiTypeOK, Bit
  <2>3. events' \in Seq({"start", "disconnected", "got_ip"}) /\ mode' = mode
    BY <1>7, Handled DEF HandleGotIp, Handles
  <2> QED
    BY <1>0, <1>7, <2>1, <2>2, <2>3 DEF HandleGotIp, CounterReset, WifiTypeOK
<1>8. CASE AttemptEnds \/ LinkLost \/ DhcpAnswers
  <2>1. events' \in Seq({"start", "disconnected", "got_ip"})
    <3>1. CASE Associates
      BY <1>0, <3>1 DEF Associates, Radio, WifiTypeOK
    <3> QED
      BY <1>8, <3>1, Posted DEF AttemptEnds, AttemptFails, LinkLost, DhcpAnswers, Radio
  <2>2. dhcp' \in BOOLEAN
    BY <1>0, <1>8, ZenonT(30)
       DEF AttemptEnds, AttemptFails, Associates, LinkLost, DhcpAnswers, WifiTypeOK
  <2> QED
    BY <1>0, <1>8, <2>1, <2>2 DEF AttemptEnds, AttemptFails, Associates, LinkLost,
       DhcpAnswers, Radio, WifiTypeOK, mainVars, evVars
<1>9. CASE EspRestart \/ PowerCut
  <2>1. /\ bits' = {} /\ seen' = {} /\ s_retry_counter' = 0 /\ failures' = 0
        /\ events' = <<>> /\ mode' = "null" /\ link' = "down" /\ dhcp' = FALSE
        /\ refused' = FALSE
    BY <1>9 DEF EspRestart, PowerCut, Restarts
  <2>2. <<>> \in Seq({"start", "disconnected", "got_ip"}) /\ 0 \in 0..MAX_RETRY
    OBVIOUS
  <2>3. /\ bits' \in SUBSET Bit /\ seen' \in SUBSET Bit
        /\ dhcp' \in BOOLEAN /\ refused' \in BOOLEAN
    BY <2>1, Zenon
  <2>4. s_retry_counter' \in 0..MAX_RETRY /\ failures' \in 0..MAX_RETRY + 1
    BY <2>1
  <2> QED
    BY <2>1, <2>2, <2>3, <2>4 DEF WifiTypeOK
<1>10. CASE InitFlash \/ InitQueues \/ InitErrorControl \/ Decide2 \/ StartRover
  BY <1>1, <1>10 DEF InitFlash, InitQueues, InitErrorControl, Decide2, StartRover
<1>12. CASE CamOpens \/ CamGets \/ WsOpens \/ WsGets
  BY <1>1, <1>12, IpReads
<1>11. CASE PortalPost \/ PortalSave
  BY <1>1, <1>11 DEF PortalPost, PortalSave, Portal, mainVars
<1> QED
  BY <1>2, <1>3, <1>4, <1>5, <1>6, <1>7, <1>8, <1>9, <1>10, <1>11, <1>12
     DEF Next, MainStep, BootStep, HandleEvent

BootTypeOK ==
  /\ main_pc \in MainPc
  /\ tasks \in SUBSET Task
  /\ servers \in [Client -> Value] /\ unread \in SUBSET Client
  /\ used = {} \/ \E p \in [Login -> Value] : used = {p}
  /\ cuts \in 0..MaxCuts

LEMMA KeepsBoot ==
  ASSUME TypeOK, Next
  PROVE  BootTypeOK'
<1>0. BootTypeOK
  BY DEF TypeOK, BootTypeOK
<1>1. CASE InitFlash \/ InitQueues \/ InitErrorControl \/ Wait1 \/ Wait2 \/ Decide2
             \/ StartRover
  BY <1>0, <1>1 DEF InitFlash, InitQueues, InitErrorControl, Wait1, Wait2, WaitBits,
     Decide2, StartRover, Go, BootTypeOK, MainPc, Task
<1>2. CASE Credentials
  <2>1. [k \in Login |-> cache[k]] \in [Login -> Value]
    BY DEF TypeOK, StTypeOK, Login, Key
  <2>2. tasks' \in SUBSET Task
    BY <1>0, <1>2 DEF Credentials, CredentialsRead, CredentialsUnread, StartSta,
       StartAp, BootTypeOK, Task
  <2> QED
    BY <1>0, <1>2, <2>1, <2>2 DEF Credentials, CredentialsRead, CredentialsUnread,
       BootTypeOK, MainPc
<1>3. CASE Decide1
  BY <1>0, <1>3 DEF Decide1, StartAp, Go, BootTypeOK, MainPc, Task
<1>4. CASE CamOpens \/ CamGets \/ WsOpens \/ WsGets
  <2>1. NvsGet("server_ip") \in Value
    BY DEF NvsGet, TypeOK, StTypeOK, Value, Key
  <2>2. servers' \in [Client -> Value] /\ unread' \in SUBSET Client
    BY <1>0, <1>4, <2>1, IpServers DEF BootTypeOK
  <2>3. /\ UNCHANGED <<used, cuts>>
        /\ main_pc' \in {"cam_get", "ws", "ws_get", "uart"}
        /\ tasks' \in {tasks, tasks \cup {"websocket"}, tasks \cup {"websocket",
           "ws_error"}}
    BY <1>4, IpReads
  <2> QED
    BY <1>0, <2>2, <2>3 DEF BootTypeOK, MainPc, Task
<1>5. CASE HandleEvent
  BY <1>0, <1>5 DEF HandleEvent, HandleStart, HandleDisconnected, HandleGotIp,
     Handles, SetBit, BootTypeOK, MainPc
<1>6. CASE AttemptEnds \/ LinkLost \/ DhcpAnswers \/ PortalPost \/ PortalSave
             \/ UNCHANGED vars
  BY <1>0, <1>6 DEF AttemptEnds, AttemptFails, Associates, LinkLost, DhcpAnswers,
     Radio, PortalPost, PortalSave, Portal, mainVars, BootTypeOK, vars
<1>7. CASE EspRestart \/ PowerCut
  BY <1>0, <1>7 DEF EspRestart, PowerCut, Restarts, NoServers, BootTypeOK, MainPc,
     Value
<1> QED
  BY <1>1, <1>2, <1>3, <1>4, <1>5, <1>6, <1>7 DEF Next, MainStep, BootStep

LEMMA TypeNext ==
  ASSUME TypeOK, StationInv, CountInv, [Next]_vars
  PROVE  TypeOK'
<1>1. CASE Next
  <2>1. StTypeOK'
    BY <1>1, KeepsStorage DEF TypeOK
  <2> QED
    BY <1>1, <2>1, KeepsWifi, KeepsBoot DEF TypeOK, WifiTypeOK, BootTypeOK
<1>2. CASE UNCHANGED vars
  BY <1>2 DEF TypeOK, StTypeOK, vars, stVars, nvsVars, httpdVars, histVars, mainVars,
     wifiVars, evVars
<1> QED
  BY <1>1, <1>2

-----------------------------------------------------------------------------
(* The station: what can still make it connect, and how it counts.         *)

LEMMA EarlyNext ==
  ASSUME TypeOK, EarlyInv, ModeInv, ServerInv, [Next]_vars
  PROVE  EarlyInv'
<1>1. CASE InitFlash
  BY <1>1 DEF InitFlash, Go, NvsErase, EarlyInv, Early, Quiet, stVars, nvsVars,
     wifiVars, evVars
<1>2. CASE InitQueues \/ InitErrorControl
  BY <1>2 DEF InitQueues, InitErrorControl, Go, EarlyInv, Early, Quiet, stVars, nvsVars,
     wifiVars, evVars
<1>3. CASE Credentials \/ Wait1 \/ Decide1 \/ Wait2 \/ Decide2 \/ CamOpens \/ CamGets
             \/ WsOpens \/ WsGets \/ StartRover
  <2>1. main_pc' \notin Early
    BY <1>3, IpReads DEF Credentials, CredentialsRead, CredentialsUnread, Wait1,
       Wait2, WaitBits, Decide1, Decide2, StartRover, Go, Early
  <2> QED
    BY <2>1 DEF EarlyInv
<1>4. CASE HandleEvent
  <2>1. main_pc \notin Early
    BY <1>4 DEF HandleEvent, HandleStart, HandleDisconnected, HandleGotIp, Handles,
       EarlyInv, Quiet
  <2>2. main_pc' = main_pc \/ main_pc' \in {"decide1", "decide2"}
    BY <1>4 DEF HandleEvent, HandleStart, HandleDisconnected, HandleGotIp, SetBit
  <2> QED
    BY <2>1, <2>2 DEF EarlyInv, Early, Quiet
<1>5. CASE AttemptEnds \/ LinkLost \/ DhcpAnswers
  <2>1. main_pc \notin Early /\ main_pc' = main_pc
    BY <1>5 DEF AttemptEnds, AttemptFails, Associates, LinkLost, DhcpAnswers, Radio,
       mainVars, EarlyInv, Quiet
  <2> QED
    BY <2>1 DEF EarlyInv
<1>6. CASE PortalPost \/ PortalSave
  BY <1>6 DEF PortalPost, PortalSave, Portal, mainVars, EarlyInv
<1>7. CASE EspRestart \/ PowerCut
  BY <1>7 DEF EspRestart, PowerCut, Restarts, StRestart, EarlyInv, Quiet
<1>8. CASE UNCHANGED vars
  BY <1>8 DEF EarlyInv, Quiet, vars, stVars, nvsVars, mainVars, wifiVars, evVars
<1> QED
  BY <1>1, <1>2, <1>3, <1>4, <1>5, <1>6, <1>7, <1>8 DEF Next, MainStep, BootStep

(* An event more, when none drives the station; one less.                  *)
Undriven == \A n \in 1..Len(events) : ~Drives(n)

LEMMA UndrivenAfter ==
  ASSUME TypeOK, StationInv, events # <<>>, Head(events) # "got_ip",
         events' = Tail(events)
  PROVE  /\ Undriven' /\ link = "down" /\ "FAIL" \notin bits /\ ~refused
         /\ Head(events) = "start" => ~dhcp
<1>1. Drives(1) /\ 1 \in 1..Len(events)
  BY Handled DEF Drives
<1>2. ASSUME NEW n \in 1..Len(events')
      PROVE  ~Drives(n)'
  <2>1. n + 1 \in 1..Len(events) /\ events'[n] = events[n + 1]
    BY Handled
  <2>2. ~Drives(n + 1)
    BY <1>1, <2>1 DEF StationInv
  <2> QED
    BY <2>1, <2>2 DEF Drives
<1> QED
  BY <1>1, <1>2 DEF Undriven, StationInv, GivenUpIsFinal, Drives

LEMMA UndrivenMore ==
  ASSUME TypeOK, Undriven, NEW e \in {"start", "disconnected", "got_ip"},
         events' = events \o <<e>>
  PROVE  /\ \A n \in 1..Len(events') : Drives(n)' => n = Len(events) + 1
         /\ e = "got_ip" => Undriven'
<1>1. ASSUME NEW n \in 1..Len(events')
      PROVE  n = Len(events) + 1 \/ (n \in 1..Len(events) /\ ~Drives(n)')
  BY Posted DEF Undriven, Drives, TypeOK
<1> QED
  BY <1>1, Posted DEF Undriven, Drives

(* No event drives a station that is connecting or connected.              *)
LEMMA UpUndriven ==
  ASSUME StationInv, link # "down"
  PROVE  Undriven /\ "FAIL" \notin bits /\ ~refused
BY DEF StationInv, GivenUpIsFinal, Undriven

LEMMA StationNext ==
  ASSUME TypeOK, EarlyInv, ModeInv, StationInv, [Next]_vars
  PROVE  StationInv'
<1>1. CASE UNCHANGED <<bits, events, link, dhcp, refused>>
  BY <1>1 DEF StationInv, GivenUpIsFinal, Drives
<1>2. CASE Credentials
  <2>1. events = <<>> /\ link = "down" /\ bits = {} /\ dhcp = FALSE /\ bits' = bits
    BY <1>2 DEF Credentials, EarlyInv, Early, Quiet, evVars
  <2>2. CASE UNCHANGED <<events, link, dhcp>>
    BY <2>1, <2>2 DEF StationInv, GivenUpIsFinal
  <2>3. CASE events' = Append(events, "start") /\ UNCHANGED <<link, dhcp, refused>>
    <3>1. Undriven /\ ~refused
      BY <1>2, <2>1 DEF Undriven, Credentials, EarlyInv, Early
    <3>2. events' = events \o <<"start">>
      BY <2>3, Posted
    <3>3. /\ \A n \in 1..Len(events') : Drives(n)' => n = Len(events) + 1
          /\ link' = "down" /\ dhcp' = FALSE
          /\ ~refused' /\ "FAIL" \notin bits'
      BY <2>1, <2>3, <3>1, <3>2, UndrivenMore
    <3> QED
      BY <3>3 DEF StationInv, GivenUpIsFinal
  <2> QED
    BY <1>2, <2>2, <2>3 DEF Credentials, CredentialsRead, CredentialsUnread, StartSta,
       StartAp
<1>3. CASE Decide1
  <2>1. bits' = bits /\ seen \subseteq bits
    BY <1>3 DEF Decide1, evVars, ModeInv
  <2>2. CASE "FAIL" \in seen
    BY <1>3, <2>1, <2>2 DEF Decide1, StartAp, StationInv, GivenUpIsFinal, Drives
  <2> QED
    BY <1>1, <1>3, <2>1, <2>2 DEF Decide1, wifiVars
<1>4. CASE HandleStart
  <2>1. /\ Undriven' /\ "FAIL" \notin bits' /\ dhcp' = dhcp /\ ~dhcp /\ link = "down"
        /\ ~refused
    BY <1>4, UndrivenAfter DEF HandleStart, Handles, evVars
  <2>2. refused' => link' = "down"
    BY <1>4, <2>1 DEF HandleStart, Connects
  <2> QED
    BY <2>1, <2>2 DEF StationInv, GivenUpIsFinal, Undriven, Drives
<1>5. CASE HandleDisconnected
  <2>1. /\ Undriven' /\ link = "down" /\ "FAIL" \notin bits /\ ~refused
        /\ dhcp' = FALSE
    BY <1>5, UndrivenAfter DEF HandleDisconnected, Handles
  <2>2. "FAIL" \in bits' \/ refused' => link' = "down"
    BY <1>5, <2>1 DEF HandleDisconnected, Connects, GivesUp
  <2> QED
    BY <2>1, <2>2 DEF StationInv, GivenUpIsFinal, Undriven, Drives
<1>6. CASE HandleGotIp
  <2>1. /\ UNCHANGED <<link, dhcp, refused>>
        /\ "FAIL" \in bits' => "FAIL" \in bits
    BY <1>6 DEF HandleGotIp, SetBit
  <2>2. ASSUME NEW n \in 1..Len(events')
        PROVE  n + 1 \in 1..Len(events) /\ events'[n] = events[n + 1]
    BY <1>6, Handled DEF HandleGotIp, Handles
  <2>3. \A n \in 1..Len(events') : Drives(n)' =>
          /\ link' = "down"
          /\ \A m \in 1..Len(events') : Drives(m)' => m = n
    <3>1. ASSUME NEW n \in 1..Len(events'), Drives(n)',
                 NEW m \in 1..Len(events'), Drives(m)'
          PROVE  link' = "down" /\ m = n
      <4>1. /\ n + 1 \in 1..Len(events) /\ Drives(n + 1)
            /\ m + 1 \in 1..Len(events) /\ Drives(m + 1)
        BY <2>2, <3>1 DEF Drives
      <4>2. link = "down" /\ m + 1 = n + 1
        BY <4>1 DEF StationInv
      <4> QED
        BY <2>1, <4>2
    <3> QED
      BY <3>1
  <2>4. GivenUpIsFinal'
    BY <2>1, <2>2 DEF StationInv, GivenUpIsFinal
  <2>5. \A n \in 1..Len(events') : events'[n] = "start" => ~dhcp'
    BY <2>1, <2>2 DEF StationInv
  <2> QED
    BY <2>3, <2>4, <2>5 DEF StationInv
<1>7. CASE AttemptFails \/ LinkLost
  <2>1. Undriven /\ "FAIL" \notin bits /\ ~refused
    BY <1>7, UpUndriven DEF AttemptFails, LinkLost
  <2>2. /\ events' = events \o <<"disconnected">> /\ link' = "down"
        /\ bits' = bits /\ refused' = refused
    BY <1>7 DEF AttemptFails, LinkLost, Radio, evVars
  <2>3. /\ \A n \in 1..Len(events') : Drives(n)' => n = Len(events) + 1
        /\ Len(events') = Len(events) + 1 /\ events'[Len(events) + 1] = "disconnected"
    BY <2>1, <2>2, UndrivenMore, Posted
  <2>4. \A n \in 1..Len(events') : events'[n] # "start"
    BY <2>3 DEF Drives
  <2> QED
    BY <2>1, <2>2, <2>3, <2>4 DEF StationInv, GivenUpIsFinal
<1>8. CASE Associates
  <2>1. Undriven /\ "FAIL" \notin bits /\ ~refused
    BY <1>8, UpUndriven DEF Associates
  <2>2. events' = events /\ bits' = bits /\ refused' = refused
    BY <1>8 DEF Associates, Radio, TypeOK, evVars
  <2> QED
    BY <2>1, <2>2 DEF StationInv, GivenUpIsFinal, Undriven, Drives
<1>9. CASE DhcpAnswers
  <2>1. /\ events' = events \o <<"got_ip">> /\ bits' = bits /\ refused' = refused
        /\ "FAIL" \notin bits /\ ~refused /\ dhcp' = FALSE
        /\ (link = "down" => link' = "down")
    BY <1>9 DEF DhcpAnswers, Radio, evVars, StationInv, GivenUpIsFinal
  <2>2. ASSUME NEW n \in 1..Len(events'), Drives(n)'
        PROVE  n \in 1..Len(events) /\ Drives(n)
    BY <2>1, <2>2, Posted DEF Drives, TypeOK
  <2> QED
    BY <2>1, <2>2 DEF StationInv, GivenUpIsFinal
<1>10. CASE EspRestart \/ PowerCut
  BY <1>10 DEF EspRestart, PowerCut, Restarts, StationInv, GivenUpIsFinal
<1>11. CASE InitFlash \/ InitQueues \/ InitErrorControl \/ Wait1 \/ Wait2 \/ Decide2
              \/ CamOpens \/ CamGets \/ WsOpens \/ WsGets \/ StartRover
  BY <1>1, <1>11, IpReads DEF InitFlash, InitQueues, InitErrorControl, Wait1, Wait2,
     WaitBits, Decide2, StartRover, wifiVars, evVars
<1>12. CASE PortalPost \/ PortalSave \/ UNCHANGED vars
  BY <1>1, <1>12 DEF PortalPost, PortalSave, Portal, wifiVars, evVars, vars
<1> QED
  BY <1>2, <1>3, <1>4, <1>5, <1>6, <1>7, <1>8, <1>9, <1>10, <1>11, <1>12
     DEF Next, MainStep, BootStep, HandleEvent, AttemptEnds

LEMMA CountNext ==
  ASSUME TypeOK, StationInv, CountInv, [Next]_vars
  PROVE  CountInv'
<1>1. CASE UNCHANGED evVars
  BY <1>1 DEF CountInv, evVars
<1>2. CASE HandleStart
  BY <1>1, <1>2 DEF HandleStart
<1>3. CASE HandleDisconnected
  BY <1>3 DEF HandleDisconnected, SetBit, CountInv
<1>4. CASE HandleGotIp
  BY <1>4 DEF HandleGotIp, CounterReset, CountInv
<1>5. CASE EspRestart \/ PowerCut
  BY <1>5 DEF EspRestart, PowerCut, Restarts, CountInv
<1>6. CASE MainStep
  BY <1>1, <1>6, IpReads DEF MainStep, BootStep, InitFlash, InitQueues,
     InitErrorControl, Credentials, Wait1, Wait2, WaitBits, Decide1, Decide2, StartRover
<1>7. CASE AttemptEnds \/ LinkLost \/ DhcpAnswers \/ PortalPost \/ PortalSave
             \/ UNCHANGED vars
  BY <1>1, <1>7 DEF AttemptEnds, AttemptFails, Associates, LinkLost, DhcpAnswers,
     Radio, PortalPost, PortalSave, Portal, vars
<1> QED
  BY <1>2, <1>3, <1>4, <1>5, <1>6, <1>7 DEF Next, HandleEvent

-----------------------------------------------------------------------------
(* A station that has not given up stays under way. *)

LEMMA KeepsDriving ==
  ASSUME TypeOK, ~Undriven, NEW e \in {"start", "disconnected", "got_ip"},
         events' = events \o <<e>>
  PROVE  ~Undriven'
<1>1. PICK n \in 1..Len(events) : Drives(n)
  BY DEF Undriven
<1>2. n \in 1..Len(events') /\ events'[n] = events[n]
  BY Posted DEF TypeOK
<1> QED
  BY <1>1, <1>2 DEF Undriven, Drives

LEMMA DrivenNext ==
  ASSUME TypeOK, EarlyInv, StationInv, DrivenInv, [Next]_vars
  PROVE  DrivenInv'
<1>0. Underway <=> link \in {"connecting",
"addressed"} \/ (link = "up" /\ dhcp) \/ ~Undriven
  BY DEF Underway, Undriven, Drives
<1>1. CASE UNCHANGED <<bits, events, mode, link, dhcp, refused>>
  BY <1>1 DEF DrivenInv, Underway, AddressOnItsWay
<1>2. CASE Credentials
  <2>1. link = "down"
    BY <1>2 DEF Credentials, EarlyInv, Early, Quiet
  <2>2. CASE events' = events \o <<"start">> /\ link' = link
    <3>1. Underway'
      BY <2>2, Posted DEF Underway, TypeOK
    <3> QED
      BY <2>1, <2>2, <3>1 DEF DrivenInv
  <2>3. CASE link' = link /\ (refused' \/ mode' # "sta")
    BY <2>1, <2>3 DEF DrivenInv
  <2> QED
    BY <1>2, <2>2, <2>3, Posted DEF Credentials, CredentialsRead, CredentialsUnread,
       StartSta, StartAp
<1>3. CASE Decide1
  <2>1. CASE StartAp
    BY <1>3, <2>1 DEF Decide1, StartAp, evVars, DrivenInv, AddressOnItsWay
  <2> QED
    BY <1>1, <1>3, <2>1 DEF Decide1, wifiVars, evVars
<1>4. CASE HandleStart
  <2>1. link = "down" /\ Connects /\ mode' = mode
    BY <1>4, UndrivenAfter DEF HandleStart, Handles
  <2> QED
    BY <2>1 DEF Connects, DrivenInv, Underway
<1>5. CASE HandleDisconnected
  <2>1. link = "down" /\ mode' = mode
    BY <1>5, UndrivenAfter DEF HandleDisconnected, Handles
  <2>2. CASE Retries
    BY <1>5, <2>1, <2>2 DEF HandleDisconnected, Connects, DrivenInv, Underway
  <2>3. CASE ~Retries
    BY <1>5, <2>1, <2>3 DEF HandleDisconnected, SetBit, GivesUp, DrivenInv
  <2> QED
    BY <2>2, <2>3
<1>6. CASE HandleGotIp
  <2>1. /\ UNCHANGED <<mode, link, dhcp, refused>> /\ "CONNECTED" \in bits'
        /\ "FAIL" \in bits => "FAIL" \in bits'
        /\ events # <<>> /\ Head(events) = "got_ip" /\ events' = Tail(events)
    BY <1>6 DEF HandleGotIp, Handles, SetBit
  <2>2. ASSUME ~Undriven
        PROVE  ~Undriven'
    <3>1. PICK n \in 1..Len(events) : Drives(n)
      BY <2>2 DEF Undriven
    <3>2. n # 1
      BY <2>1, <3>1, Handled DEF Drives
    <3>3. n - 1 \in 1..Len(events') /\ events'[n - 1] = events[n]
      BY <2>1, <3>2, Handled DEF TypeOK
    <3> QED
      BY <3>1, <3>3 DEF Undriven, Drives
  <2>3. Underway => Underway'
    BY <1>0, <2>1, <2>2 DEF Underway, Undriven, Drives
  <2> QED
    BY <2>1, <2>3 DEF DrivenInv
<1>7. CASE AttemptFails \/ LinkLost
  <2>1. events' = events \o <<"disconnected">> /\ link' = "down"
    BY <1>7 DEF AttemptFails, LinkLost, Radio
  <2>2. Underway'
    BY <2>1, Posted DEF Underway, TypeOK
  <2> QED
    BY <2>1, <2>2 DEF DrivenInv
<1>8. CASE Associates
  BY <1>8 DEF Associates, DrivenInv, Underway
<1>9. CASE DhcpAnswers
  <2>1. /\ events' = events \o <<"got_ip">> /\ UNCHANGED <<bits, mode, refused>>
        /\ link' = IF link = "up" THEN "addressed" ELSE link
    BY <1>9 DEF DhcpAnswers, Radio, evVars
  <2>2. AddressOnItsWay'
    BY <2>1, Posted DEF AddressOnItsWay, TypeOK
  <2>3. ~Undriven => ~Undriven'
    BY <2>1, KeepsDriving
  <2>4. Underway => Underway'
    BY <1>0, <2>1, <2>3 DEF Underway, Undriven, Drives
  <2> QED
    BY <2>1, <2>2, <2>4 DEF DrivenInv
<1>10. CASE EspRestart \/ PowerCut
  BY <1>10 DEF EspRestart, PowerCut, Restarts, DrivenInv
<1>11. CASE InitFlash \/ InitQueues \/ InitErrorControl \/ Wait1 \/ Wait2 \/ Decide2
              \/ CamOpens \/ CamGets \/ WsOpens \/ WsGets \/ StartRover
  BY <1>1, <1>11, IpReads DEF InitFlash, InitQueues, InitErrorControl, Wait1, Wait2,
     WaitBits, Decide2, StartRover, wifiVars, evVars
<1>12. CASE PortalPost \/ PortalSave \/ UNCHANGED vars
  BY <1>1, <1>12 DEF PortalPost, PortalSave, Portal, wifiVars, evVars, vars
<1> QED
  BY <1>2, <1>3, <1>4, <1>5, <1>6, <1>7, <1>8, <1>9, <1>10, <1>11, <1>12
     DEF Next, MainStep, BootStep, HandleEvent, AttemptEnds

-----------------------------------------------------------------------------
(* The parts of the boot: modes, bits and tasks. *)

LEMMA ModeNext ==
  ASSUME TypeOK, EarlyInv, ModeInv, [Next]_vars
  PROVE  ModeInv'
<1> USE DEF First, Second, Blocked, Starting
<1>1. CASE UNCHANGED <<main_pc, seen, bits, mode, tasks, used, events, link, dhcp, refused>>
  BY <1>1 DEF ModeInv, NoPair, OnStation, Quiet
<1>2. CASE InitFlash \/ InitQueues \/ InitErrorControl
  <2>1. main_pc' \in Early \cup {"ended"} /\ seen' = seen /\ bits' = bits
    BY <1>2 DEF InitFlash, InitQueues, InitErrorControl, Go, Early, evVars
  <2> QED
    BY <2>1 DEF ModeInv, Early
<1>3. CASE Credentials
  <2>1. /\ seen' = {} /\ bits' = {} /\ "httpd" \notin tasks
        /\ events = <<>> /\ link = "down" /\ dhcp = FALSE /\ used = {}
        /\ main_pc' \in {"wait1", "wait2"}
    BY <1>3 DEF Credentials, CredentialsRead, CredentialsUnread, EarlyInv, Early, Quiet,
       evVars
  <2>2. CASE CredentialsRead
    <3>1. ~NoPair' <=> Found
      BY <2>2 DEF CredentialsRead, NoPair, Found
    <3>2. CASE Found
      <4>1. main_pc' = "wait1" /\ tasks' = tasks /\ OnStation'
        BY <2>1, <2>2, <3>2 DEF CredentialsRead, StartSta, OnStation, Quiet
      <4> QED
        BY <2>1, <3>1, <3>2, <4>1 DEF ModeInv
    <3>3. CASE ~Found
      <4>1. main_pc' = "wait2" /\ Quiet'
        BY <2>1, <2>2, <3>3 DEF CredentialsRead, StartAp, Quiet
      <4> QED
        BY <2>1, <3>1, <3>3, <4>1 DEF ModeInv
    <3> QED
      BY <3>2, <3>3
  <2>3. CASE CredentialsUnread
    <3>1. main_pc' = "wait2" /\ Quiet' /\ NoPair'
      BY <2>1, <2>3 DEF CredentialsUnread, StartAp, Quiet, NoPair
    <3> QED
      BY <2>1, <3>1 DEF ModeInv
  <2> QED
    BY <1>3, <2>2, <2>3 DEF Credentials
<1>4. CASE Wait1
  <2>1. /\ UNCHANGED <<bits, mode, tasks, used, events, link, dhcp, refused>>
        /\ main_pc = "wait1"
        /\ main_pc' \in {"decide1", "blocked1"}
        /\ seen' \in {seen, bits}
        /\ main_pc' = "blocked1" => bits = {}
    BY <1>4 DEF Wait1, WaitBits, AtOnce, wifiVars, evVars
  <2> QED
    BY <2>1 DEF ModeInv, NoPair, OnStation, Quiet
<1>5. CASE Decide1
  <2>1. main_pc' = "wait2" /\ main_pc = "decide1" /\ UNCHANGED <<seen, used, bits>>
    BY <1>5 DEF Decide1, Go, evVars
  <2>2. ~NoPair' /\ OnStation /\ "httpd" \notin tasks
    BY <2>1 DEF ModeInv, NoPair
  <2>3. "FAIL" \notin seen => UNCHANGED <<mode, tasks, events, link, dhcp, refused>>
    BY <1>5 DEF Decide1, wifiVars
  <2> QED
    BY <2>1, <2>2, <2>3 DEF ModeInv, OnStation, Quiet
<1>6. CASE Wait2
  <2>1. /\ UNCHANGED <<bits, mode, tasks, used, events, link, dhcp, refused>>
        /\ main_pc = "wait2"
        /\ \/ main_pc' = "decide2" /\ seen' = bits /\ bits # {}
           \/ main_pc' = "blocked2" /\ seen' = seen /\ bits = {}
    BY <1>6 DEF Wait2, WaitBits, AtOnce, wifiVars, evVars
  <2> QED
    BY <2>1 DEF ModeInv, NoPair, OnStation, Quiet
<1>7. CASE Decide2
  <2>1. /\ UNCHANGED <<seen, bits, mode, tasks, used, events, link, dhcp, refused>>
        /\ main_pc = "decide2"
        /\ main_pc' = "ended" \/ (main_pc' = "cam" /\ "CONNECTED" \in seen)
    BY <1>7 DEF Decide2, Go, Starts, wifiVars, evVars
  <2> QED
    BY <2>1 DEF ModeInv, NoPair, OnStation, Quiet
<1>8. CASE CamOpens \/ CamGets \/ WsOpens \/ WsGets \/ StartRover
  <2>1. /\ UNCHANGED <<seen, bits, mode, used, events, link, dhcp, refused>>
        /\ main_pc \in Starting /\ main_pc' \in Starting
        /\ "httpd" \in tasks' => "httpd" \in tasks
    BY <1>8, IpReads DEF StartRover, Go, wifiVars, evVars
  <2> QED
    BY <2>1 DEF ModeInv, NoPair, OnStation, Quiet
<1>9. CASE HandleEvent
  <2>1. /\ UNCHANGED <<mode, tasks, used>> /\ events # <<>>
        /\ bits \subseteq bits'
        /\ \/ UNCHANGED <<main_pc, seen>> /\ (main_pc \in Blocked => bits' = bits)
           \/ /\ seen' = bits' /\ bits' # {}
              /\ \/ main_pc = "blocked1" /\ main_pc' = "decide1"
                 \/ main_pc = "blocked2" /\ main_pc' = "decide2"
    BY <1>9 DEF HandleEvent, HandleStart, HandleDisconnected, HandleGotIp, Handles,
       SetBit, evVars
  <2>2. refused => refused'
    BY <1>9 DEF HandleEvent, HandleStart, HandleDisconnected, HandleGotIp, Connects,
       GivesUp
  <2> QED
    BY <2>1, <2>2 DEF ModeInv, NoPair, OnStation, Quiet
<1>10. CASE AttemptEnds \/ LinkLost \/ DhcpAnswers
  <2>1. /\ UNCHANGED <<main_pc, seen, bits, mode, tasks, used>>
        /\ link # "down" \/ dhcp
    BY <1>10 DEF AttemptEnds, AttemptFails, Associates, LinkLost, DhcpAnswers, Radio,
       mainVars, evVars
  <2> QED
    BY <2>1 DEF ModeInv, NoPair, OnStation, Quiet
<1>11. CASE EspRestart \/ PowerCut
  BY <1>11 DEF EspRestart, PowerCut, Restarts, ModeInv
<1>12. CASE PortalPost \/ PortalSave \/ UNCHANGED vars
  BY <1>1, <1>12 DEF PortalPost, PortalSave, Portal, mainVars, wifiVars, evVars, vars
<1> QED
  BY <1>2, <1>3, <1>4, <1>5, <1>6, <1>7, <1>8, <1>9, <1>10, <1>11, <1>12
     DEF Next, MainStep, BootStep

-----------------------------------------------------------------------------
(* The two reads of the server's address. *)

LEMMA ServerNext ==
  ASSUME TypeOK, EarlyInv, ModeInv, ServerInv, [Next]_vars
  PROVE  ServerInv'
<1>1. CASE UNCHANGED <<main_pc, httpd_pc, memory_handle, cache, servers, unread>>
             /\ ("httpd" \in tasks => "httpd" \in tasks')
  BY <1>1 DEF ServerInv
<1>2. CASE InitFlash \/ InitQueues \/ InitErrorControl
  <2>1. /\ main_pc' \in Early \cup {"ended"} /\ httpd_pc' = httpd_pc
        /\ "httpd" \in tasks => "httpd" \in tasks'
    BY <1>2 DEF InitFlash, InitQueues, InitErrorControl, Go, Early, stVars, httpdVars,
       NvsErase, EarlyInv
  <2> QED
    BY <2>1 DEF ServerInv, Early
<1>3. CASE Credentials \/ Wait1 \/ Decide1 \/ Wait2 \/ Decide2
  <2>1. /\ main_pc' \in First \cup Second \cup {"cam", "ended"}
        /\ httpd_pc' = httpd_pc
        /\ "httpd" \in tasks => "httpd" \in tasks'
    BY <1>3 DEF Credentials, CredentialsRead, CredentialsUnread, StartSta, StartAp,
       Wait1, Wait2, WaitBits, Decide1,
       Decide2, Go, First, Second, stVars, httpdVars
  <2> QED
    BY <2>1 DEF ServerInv, First, Second
<1>4. CASE CamOpens \/ CamGets \/ WsOpens \/ WsGets
  <2>1. /\ UNCHANGED <<httpd_pc, cache>>
        /\ "httpd" \in tasks => "httpd" \in tasks'
    BY <1>4, IpReads DEF httpdVars
  <2>2. CASE CamOpens
    <3>1. \/ main_pc' = "cam_get" /\ memory_handle' = "readonly"
          \/ main_pc' = "ws" /\ "cam" \in unread'
      BY <2>2 DEF CamOpens, IpOpens, IpFails, Go, NvsOpen
    <3> QED
      BY <2>1, <3>1 DEF ServerInv
  <2>3. CASE CamGets
    <3>1. /\ main_pc = "cam_get" /\ main_pc' = "ws"
          /\ \/ servers' = [servers EXCEPT !["cam"] = NvsGet("server_ip")]
             \/ "cam" \in unread'
      BY <2>3 DEF CamGets, IpGets, IpFails, Go
    <3> QED
      BY <2>1, <3>1 DEF ServerInv, NvsGet, TypeOK, Client
  <2>4. CASE WsOpens
    <3>1. /\ main_pc = "ws" /\ servers' = servers /\ unread \subseteq unread'
          /\ \/ main_pc' = "ws_get" /\ memory_handle' = "readonly"
             \/ main_pc' = "uart" /\ "ws" \in unread'
      BY <2>4 DEF WsOpens, IpOpens, IpFails, Go, NvsOpen
    <3> QED
      BY <2>1, <3>1 DEF ServerInv
  <2>5. CASE WsGets
    <3>1. /\ main_pc = "ws_get" /\ main_pc' = "uart" /\ unread \subseteq unread'
          /\ \/ servers' = [servers EXCEPT !["ws"] = NvsGet("server_ip")]
             \/ servers' = servers /\ "ws" \in unread'
      BY <2>5 DEF WsGets, IpGets, IpFails, Go
    <3> QED
      BY <2>1, <3>1 DEF ServerInv, NvsGet, TypeOK, Client
  <2> QED
    BY <1>4, <2>2, <2>3, <2>4, <2>5
<1>7. CASE StartRover
  <2>1. /\ main_pc = "uart" /\ main_pc' = "rover"
        /\ UNCHANGED <<servers, unread, httpd_pc, cache>>
        /\ "httpd" \in tasks => "httpd" \in tasks'
    BY <1>7 DEF StartRover, Go, stVars, httpdVars, nvsVars
  <2> QED
    BY <2>1 DEF ServerInv
<1>8. CASE HandleEvent
  <2>1. /\ UNCHANGED <<tasks, servers, unread, httpd_pc, memory_handle, cache>>
        /\ main_pc' = main_pc \/ main_pc' \in {"decide1", "decide2"}
    BY <1>8 DEF HandleEvent, HandleStart, HandleDisconnected, HandleGotIp, Handles,
       SetBit, stVars, httpdVars, nvsVars
  <2> QED
    BY <2>1 DEF ServerInv
<1>9. CASE AttemptEnds \/ LinkLost \/ DhcpAnswers \/ UNCHANGED vars
  BY <1>1, <1>9 DEF AttemptEnds, AttemptFails, Associates, LinkLost, DhcpAnswers,
     Radio, mainVars, stVars, httpdVars, nvsVars, vars
<1>10. CASE PortalPost \/ PortalSave
  BY <1>10 DEF PortalPost, PortalSave, Portal, mainVars, ServerInv
<1>11. CASE EspRestart \/ PowerCut
  BY <1>11 DEF EspRestart, PowerCut, Restarts, StRestart, ServerInv
<1> QED
  BY <1>2, <1>3, <1>4, <1>7, <1>8, <1>9, <1>10, <1>11
     DEF Next, MainStep, BootStep

-----------------------------------------------------------------------------
(* The save under way, and what a restart finds of it. *)

LEMMA SaveNext ==
  ASSUME TypeOK, StoreInv, Save
  PROVE  StoreInv'
<1>0. StTypeOK /\ form \in Int
  BY DEF TypeOK, StTypeOK
<1>1. CASE \E ok \in BOOLEAN : SetOpen(ok) \/ IpOpen(ok)
  <2>1. UNCHANGED <<flash, cache, form, kept, open>>
    BY <1>1 DEF SetOpen, IpOpen, Step, NvsOpen, nvsVars, histVars
  <2>2. \/ httpd_pc = "open" /\ httpd_pc' = "ssid"
        \/ httpd_pc = "open" /\ httpd_pc' = "close" /\ err'
        \/ httpd_pc = "ip_open" /\ httpd_pc' \in {"ip_set", "reply"}
    BY <1>1 DEF SetOpen, IpOpen, Step, Or
  <2> QED
    BY <2>1, <2>2 DEF StoreInv, Holds
<1>2. CASE \E ok \in BOOLEAN : SetSsid(ok) \/ SetPassw(ok) \/ IpSet(ok)
  <2>1. PICK ok \in BOOLEAN, k \in Key :
          /\ NvsSet(k, ok)
          /\ UNCHANGED <<form, kept, open>>
          /\ \/ httpd_pc = "ssid" /\ k = "ssid" /\ ok /\ httpd_pc' = "passw"
             \/ httpd_pc = "passw" /\ k = "passw" /\ ok /\ httpd_pc' = "commit"
             \/ httpd_pc \in {"ssid", "passw"} /\ httpd_pc' = "close" /\ err'
             \/ httpd_pc = "ip_set" /\ k = "server_ip"
                  /\ httpd_pc' \in {"ip_commit", "ip_close"}
    BY <1>2 DEF SetSsid, SetPassw, IpSet, Step, Or, histVars, Key
  <2>2. /\ flash' = flash
        /\ \A j \in Key : cache'[j] = cache[j] \/ (j = k /\ cache'[j] = form)
        /\ ok => cache'[k] = form
    BY <1>0, <2>1 DEF NvsSet, StTypeOK
  <2>3. form \in open
    BY <2>1 DEF StoreInv
  <2> QED
    BY <2>1, <2>2, <2>3 DEF StoreInv, Holds, Login, Key
<1>3. CASE \E ok \in BOOLEAN : SetCommit(ok) \/ IpCommit(ok)
  <2>1. PICK ok \in BOOLEAN :
          /\ NvsCommit(ok)
          /\ UNCHANGED <<form, kept, open>>
          /\ \/ httpd_pc = "commit" /\ httpd_pc' = "close" /\ (ok \/ err')
             \/ httpd_pc = "ip_commit" /\ httpd_pc' = "ip_close"
    BY <1>3 DEF SetCommit, IpCommit, Step, histVars
  <2>2. cache' = cache /\ flash' \in {flash, cache} /\ (ok => flash' = cache)
    BY <2>1 DEF NvsCommit
  <2> QED
    BY <2>1, <2>2 DEF StoreInv, Holds, Login, Key
<1>4. CASE SetClose \/ IpClose
  <2>1. UNCHANGED <<flash, cache, form, kept, open>>
    BY <1>4 DEF SetClose, IpClose, Step, NvsClose, histVars
  <2>2. \/ httpd_pc = "close" /\ err /\ httpd_pc' = "idle"
        \/ httpd_pc = "close" /\ ~err /\ httpd_pc' \in {"ip_open", "reply"}
        \/ httpd_pc = "ip_close" /\ httpd_pc' = "reply"
    BY <1>4 DEF SetClose, IpClose, Step, AfterClose
  <2> QED
    BY <2>1, <2>2 DEF StoreInv, Holds
<1>5. CASE Reply
  BY <1>0, <1>5 DEF Reply, Step, nvsVars, StoreInv, Holds
<1> QED
  BY <1>1, <1>2, <1>3, <1>4, <1>5 DEF Save

LEMMA StoreNext ==
  ASSUME TypeOK, EarlyInv, ServerInv, StoreInv, [Next]_vars
  PROVE  StoreInv'
<1>1. CASE UNCHANGED <<flash, cache, httpdVars, histVars>>
  BY <1>1 DEF StoreInv, Holds, httpdVars, histVars
<1>2. CASE InitFlash
  <2>1. CASE NvsErase
    <3>1. httpd_pc' = "idle"
      BY <1>2, <2>1 DEF InitFlash, Go, EarlyInv, Early, Quiet, ServerInv, NvsErase,
         httpdVars
    <3> QED
      BY <2>1, <3>1 DEF NvsErase, Nothing, StoreInv, Login, Key
  <2> QED
    BY <1>1, <1>2, <2>1 DEF InitFlash, stVars, nvsVars
<1>3. CASE Credentials
  <2>1. httpd_pc' = "idle" /\ cache = flash /\ UNCHANGED <<nvsVars, httpdVars>>
    BY <1>3 DEF Credentials, EarlyInv, Early, ServerInv, httpdVars
  <2>2. CASE CredentialsRead
    BY <2>1, <2>2 DEF CredentialsRead, nvsVars, StoreInv
  <2>3. CASE CredentialsUnread
    BY <1>1, <2>1, <2>3 DEF CredentialsUnread, nvsVars
  <2> QED
    BY <1>3, <2>2, <2>3 DEF Credentials
<1>4. CASE PortalPost
  <2>1. Post
    BY <1>4 DEF PortalPost, Portal
  <2> QED
    BY <2>1 DEF Post, nvsVars, StoreInv
<1>5. CASE PortalSave
  BY <1>5, SaveNext DEF PortalSave, Portal
<1>6. CASE EspRestart \/ PowerCut
  <2>1. StRestart
    BY <1>6 DEF EspRestart, PowerCut, Restarts
  <2>2. \A k \in Login : flash'[k] \in {flash[k], cache[k]} /\ cache' = flash'
    BY <2>1 DEF StRestart, Login, Key
  <2>3. httpd_pc' = "idle" /\ UNCHANGED <<kept, open>>
    BY <2>1 DEF StRestart, histVars
  <2> QED
    BY <2>2, <2>3 DEF StoreInv
<1>7. CASE CamOpens \/ CamGets \/ WsOpens \/ WsGets
  BY <1>1, <1>7, IpReads
<1>8. CASE InitQueues \/ InitErrorControl \/ Wait1 \/ Decide1 \/ Wait2 \/ Decide2
             \/ StartRover \/ HandleEvent \/ AttemptEnds \/ LinkLost \/ DhcpAnswers
             \/ UNCHANGED vars
  <2>1. UNCHANGED stVars
    BY <1>8 DEF InitQueues, InitErrorControl, Wait1, Wait2, WaitBits, Decide1, Decide2,
       StartRover, HandleEvent, HandleStart, HandleDisconnected, HandleGotIp, Handles,
       AttemptEnds, AttemptFails, Associates, LinkLost, DhcpAnswers, Radio, vars
  <2> QED
    BY <1>1, <2>1 DEF stVars, nvsVars
<1> QED
  BY <1>2, <1>3, <1>4, <1>5, <1>6, <1>7, <1>8 DEF Next, MainStep, BootStep

-----------------------------------------------------------------------------
(* KeyStore is implemented: every step is one of its steps or none.        *)

LEMMA KeyStoreNext ==
  ASSUME TypeOK, EarlyInv, ServerInv, StoreInv, [Next]_vars
  PROVE  [Store!Next]_Store!vars
<1>0. StTypeOK
  BY DEF TypeOK
<1> USE DEF Store!vars
<1>1. CASE UNCHANGED <<kept, open, used>>
  BY <1>1
<1>2. CASE InitFlash
  <2>1. used = {} /\ used' = used
    BY <1>2 DEF InitFlash, Go, EarlyInv, Early, Quiet
  <2>2. CASE NvsErase
    <3>1. Store!Erase
      BY <2>1, <2>2 DEF NvsErase, Store!Erase, Store!Both
    <3> QED
      BY <3>1 DEF Store!Next
  <2> QED
    BY <1>1, <1>2, <2>1, <2>2 DEF InitFlash, stVars, histVars
<1>3. CASE Credentials
  <2> DEFINE p == [k \in Login |-> cache[k]]
  <2>1. p \in Store!Pair
    BY <1>0 DEF StTypeOK, Store!Pair, Login, Key, Value
  <2>2. used = {} /\ \A k \in Login : p[k] \in {kept[k]} \cup open
    BY <1>3 DEF Credentials, EarlyInv, Early, StoreInv
  <2>3. CASE CredentialsRead
    <3>1. Store!Look(p)
      BY <2>2, <2>3 DEF CredentialsRead, Store!Look
    <3> QED
      BY <2>1, <3>1 DEF Store!Next
  <2>4. CASE CredentialsUnread
    BY <1>1, <2>4 DEF CredentialsUnread, histVars
  <2> QED
    BY <1>3, <2>3, <2>4 DEF Credentials
<1>4. CASE PortalPost
  <2>1. Post /\ used' = used
    BY <1>4 DEF PortalPost, Portal, mainVars
  <2>2. form' \in 1..MaxForms /\ Store!Begin(form')
    BY <1>0, <2>1 DEF Post, StTypeOK, Store!Begin
  <2> QED
    BY <2>2 DEF Store!Next
<1>5. CASE PortalSave
  <2>1. Save /\ used' = used
    BY <1>5 DEF PortalSave, Portal, mainVars
  <2>2. CASE Reply
    <3>1. form \in open
      BY <2>2 DEF Reply, Step, StoreInv
    <3>2. form \in 1..MaxForms /\ Store!Confirm(form)
      BY <1>0, <2>1, <2>2, <3>1 DEF Reply, StTypeOK, Store!Confirm, Store!Both
    <3> QED
      BY <3>2 DEF Store!Next
  <2>3. CASE ~Reply
    <3>1. UNCHANGED histVars
      BY <2>1, <2>3 DEF Save, SetOpen, SetSsid, SetPassw, SetCommit, SetClose, IpOpen,
         IpSet, IpCommit, IpClose
    <3> QED
      BY <1>1, <2>1, <3>1 DEF histVars
  <2> QED
    BY <2>2, <2>3
<1>6. CASE EspRestart \/ PowerCut
  <2>1. Store!Restart
    BY <1>6 DEF EspRestart, PowerCut, Restarts, StRestart, histVars, Store!Restart
  <2> QED
    BY <2>1 DEF Store!Next
<1>7. CASE CamOpens \/ CamGets \/ WsOpens \/ WsGets
  BY <1>1, <1>7, IpReads DEF histVars
<1>8. CASE InitQueues \/ InitErrorControl \/ Wait1 \/ Decide1 \/ Wait2 \/ Decide2
             \/ StartRover \/ HandleEvent \/ AttemptEnds \/ LinkLost \/ DhcpAnswers
             \/ UNCHANGED vars
  <2>1. UNCHANGED <<stVars, used>>
    BY <1>8 DEF InitQueues, InitErrorControl, Wait1, Wait2, WaitBits, Decide1, Decide2,
       StartRover, HandleEvent, HandleStart, HandleDisconnected, HandleGotIp, Handles,
       AttemptEnds, AttemptFails, Associates, LinkLost, DhcpAnswers, Radio, mainVars, vars
  <2> QED
    BY <1>1, <2>1 DEF stVars, histVars
<1> QED
  BY <1>2, <1>3, <1>4, <1>5, <1>6, <1>7, <1>8 DEF Next, MainStep, BootStep

-----------------------------------------------------------------------------
(* The invariant, and what follows from it. *)

LEMMA IInvInit == Init => IInv
<1> SUFFICES ASSUME Init
             PROVE  IInv
  OBVIOUS
<1> USE DEF Init, StInit
<1>1. StTypeOK
  <2>1. err \in BOOLEAN /\ with_server \in BOOLEAN
    BY Zenon
  <2>2. /\ flash \in [Key -> Value] /\ cache \in [Key -> Value]
        /\ kept \in [Login -> Value] /\ open \in SUBSET (1..MaxForms)
    BY DEF Nothing, Value
  <2> QED
    BY <2>1, <2>2 DEF StTypeOK, Handle, HttpdPc
<1>2. WifiTypeOK
  <2>1. dhcp \in BOOLEAN /\ refused \in BOOLEAN
    BY Zenon
  <2>2. <<>> \in Seq({"start", "disconnected", "got_ip"})
    OBVIOUS
  <2> QED
    BY <2>1, <2>2 DEF WifiTypeOK
<1>3. BootTypeOK
  BY DEF BootTypeOK, MainPc, NoServers, Value
<1>4. TypeOK
  BY <1>1, <1>2, <1>3 DEF TypeOK, WifiTypeOK, BootTypeOK
<1>5. EarlyInv /\ StationInv /\ DrivenInv /\ CountInv
  BY DEF EarlyInv, Quiet, StationInv, GivenUpIsFinal, DrivenInv, CountInv
<1>6. ModeInv /\ ServerInv
  BY DEF ModeInv, ServerInv, First, Second, Blocked, Starting
<1>7. StoreInv
  BY DEF StoreInv, Nothing, Login, Key
<1> QED
  BY <1>4, <1>5, <1>6, <1>7 DEF IInv

LEMMA IInvNext == IInv /\ [Next]_vars => IInv'
BY TypeNext, EarlyNext, StationNext, DrivenNext, CountNext, ModeNext, ServerNext,
   StoreNext DEF IInv

LEMMA IInvAlways == Spec => []IInv
BY IInvInit, IInvNext, PTL DEF Spec

(* Every variable keeps its type: the counter of retries, the event bits,  *)
(* the steps of the boot and of a save.                                    *)
THEOREM TypeCorrect == Spec => []TypeOK
<1>1. IInv => TypeOK
  BY DEF IInv
<1> QED
  BY <1>1, IInvAlways, PTL

(* app_main starts the rover only on a station that was started with a     *)
(* pair read from the flash, unless failure and address were both there    *)
(* when it looked: whatever calls are refused and reads fail.              *)
THEOREM RoverOnStation == Spec => []RoverHasStation
<1>1. IInv => RoverHasStation
  <2> SUFFICES ASSUME IInv, main_pc \in Starting
               PROVE  (mode = "sta" \/ seen = Bit) /\ ~NoPair
    BY DEF RoverHasStation, NoPair, IInv, TypeOK
  <2>1. ~NoPair
    BY DEF IInv, ModeInv, Starting
  <2>2. seen \subseteq Bit /\ "CONNECTED" \in seen /\ seen \subseteq bits
    BY DEF IInv, TypeOK, ModeInv
  <2>3. OnStation \/ "FAIL" \in seen
    BY <2>1 DEF IInv, ModeInv
  <2> QED
    BY <2>1, <2>2, <2>3 DEF Bit, OnStation, Quiet
<1> QED
  BY <1>1, IInvAlways, PTL

(* Once the handler has set the failure bit, or a call to connect or to    *)
(* start the radio was refused, no event, attempt or DHCP exchange is left *)
(* that could connect the station before a restart.                        *)
THEOREM GivenUpForGood == Spec => []GivenUpIsFinal
<1>1. IInv => GivenUpIsFinal
  BY DEF IInv, StationInv
<1> QED
  BY <1>1, IInvAlways, PTL

(* The handler gives up after MAX_RETRY + 1 disconnections in a row, for   *)
(* every MAX_RETRY, and never earlier.                                     *)
THEOREM GivesUpOnTime == Spec => GivesUpOnlyAfterRetries
<1>1. ASSUME IInv, [Next]_vars, bits' \ bits = {"FAIL"}
      PROVE  failures' = MAX_RETRY + 1
  <2>1. HandleDisconnected /\ ~Retries /\ "FAIL" \notin bits
    <3>1. CASE HandleEvent
      BY <1>1, <3>1 DEF HandleEvent, HandleStart, HandleDisconnected, HandleGotIp,
         SetBit, evVars
    <3>2. CASE EspRestart \/ PowerCut
      BY <1>1, <3>2 DEF EspRestart, PowerCut, Restarts
    <3>3. CASE MainStep
      BY <1>1, <3>3, IpReads DEF MainStep, BootStep, InitFlash, InitQueues,
         InitErrorControl, Credentials, Wait1, Wait2, WaitBits, Decide1, Decide2,
         StartRover, evVars
    <3>4. CASE AttemptEnds \/ LinkLost \/ DhcpAnswers \/ PortalPost \/ PortalSave
                 \/ UNCHANGED vars
      BY <1>1, <3>4 DEF AttemptEnds, AttemptFails, Associates, LinkLost, DhcpAnswers,
         Radio, PortalPost, PortalSave, Portal, evVars, vars
    <3> QED
      BY <1>1, <3>1, <3>2, <3>3, <3>4 DEF Next
  <2>2. failures = s_retry_counter /\ s_retry_counter \in 0..MAX_RETRY
    BY <1>1, <2>1 DEF IInv, CountInv, TypeOK
  <2> QED
    BY <2>1, <2>2 DEF HandleDisconnected, Retries
<1>2. IInv /\ [Next]_vars => [bits' \ bits = {"FAIL"} => failures' = MAX_RETRY + 1]_vars
  BY <1>1
<1> QED
  BY <1>2, IInvAlways, PTL DEF Spec, GivesUpOnlyAfterRetries

(* Neither the station nor app_main is left waiting for something that     *)
(* nothing under way will bring, but for a Wi-Fi call whose result was     *)
(* dropped, and for a pair that is not there or could not be read: no      *)
(* event is lost between the handler, the driver and the DHCP exchange,    *)
(* and no bit between a test and a wait.                                   *)
THEOREM NobodyIsStranded == Spec => []NeverStranded
<1>1. IInv => NeverStranded
  <2> SUFFICES ASSUME IInv
               PROVE  main_pc \in Blocked =>
                        bits = {} /\ (mode = "sta" \/ refused \/ NoPair)
    BY DEF IInv, DrivenInv, NeverStranded, Blocked
  <2>1. ASSUME main_pc \in Blocked
        PROVE  bits = {} /\ "FAIL" \notin seen
    BY <2>1 DEF IInv, ModeInv
  <2>2. ASSUME main_pc \in Blocked, ~NoPair
        PROVE  mode = "sta" \/ refused
    <3>1. main_pc \in First \cup Second
      BY <2>2 DEF Blocked, First, Second
    <3> QED
      BY <2>1, <2>2, <3>1 DEF IInv, ModeInv, OnStation
  <2> QED
    BY <2>1, <2>2
<1> QED
  BY <1>1, IInvAlways, PTL

(* Of camera and WebSocket each that could read the address has the one in *)
(* the flash, when no portal runs: the handle they share with the portal   *)
(* has not been closed in between.                                         *)
THEOREM OneServer == Spec => []SameServer
<1>1. IInv => SameServer
  BY DEF IInv, ServerInv, SameServer, Client
<1> QED
  BY <1>1, IInvAlways, PTL

(* Form, flash and boot implement KeyStore: whatever call of the save or   *)
(* of the boot fails and whenever the power goes, a pair that was answered *)
(* with "saved" is the one found by every later boot that can read, until  *)
(* another save begins; one that cannot changes nothing.                   *)
THEOREM SaveImplementsKeyStore == Spec => StoreSpec
<1>1. Init => Store!Init
  BY DEF Init, StInit, Store!Init, Store!Both
<1>2. IInv /\ [Next]_vars => [Store!Next]_Store!vars
  BY KeyStoreNext DEF IInv
<1> QED
  BY <1>1, <1>2, IInvAlways, PTL DEF Spec, StoreSpec, Store!Spec

(* So the credentials found by a boot that can read, when every save was   *)
(* confirmed, are the pair of the last one, and nothing but an erased      *)
(* flash changes them.                                                     *)
THEOREM SettledPairStays == Spec => Store!SettledStays
<1> DEFINE Stays == open = {} =>
             /\ kept' \in {kept, Store!Both(0)}
             /\ used = {} /\ used' # {} => used' = {kept}
<1>1. IInv => TypeOK
  BY DEF IInv
<1>2. TypeOK /\ [Store!Next]_Store!vars => [Stays]_Store!vars
  <2> SUFFICES ASSUME TypeOK, Store!Next, open = {} PROVE Stays
    BY DEF Store!vars
  <2>1. ASSUME NEW f \in 1..MaxForms, Store!Begin(f) \/ Store!Confirm(f) PROVE Stays
    BY <2>1 DEF Store!Begin, Store!Confirm
  <2>2. ASSUME NEW p \in Store!Pair, Store!Look(p) PROVE Stays
    <3>1. \A k \in Login : p[k] = kept[k]
      BY <2>2 DEF Store!Look
    <3>2. p = kept
      BY <3>1 DEF TypeOK, StTypeOK, Store!Pair
    <3> QED
      BY <2>2, <3>2 DEF Store!Look
  <2>3. CASE Store!Restart \/ Store!Erase
    BY <2>3 DEF Store!Restart, Store!Erase
  <2> QED
    BY <2>1, <2>2, <2>3 DEF Store!Next
<1> QED
  BY <1>1, <1>2, SaveImplementsKeyStore, IInvAlways, PTL
     DEF StoreSpec, Store!Spec, Store!SettledStays
=============================================================================
