----------------------------- MODULE Provisioning -----------------------------
(***************************************************************************)
(* From power-on to the running rover or the portal: app_main, which       *)
(* blocks twice on the event bits of wifi_manager; the event handler,      *)
(* which runs in the task of the event loop; the Wi-Fi driver, the access  *)
(* point and the power supply, which are external; and, in module Storage, *)
(* the portal's server task with the flash.                                *)
(***************************************************************************)
EXTENDS Storage, Sequences

CONSTANTS
  MAX_RETRY,   (* failures the handler answers by connecting again (5)     *)
  MaxCuts      (* bound: power cuts                                        *)

ASSUME ProvisioningAssumption == MAX_RETRY \in Nat /\ MaxCuts \in Nat

VARIABLES
  main_pc,          (* where app_main is                                   *)
  seen,             (* what its last wait returned                         *)
  bits,             (* wifi_event_group: never cleared                     *)
  s_retry_counter,
  events,           (* posted to the default event loop, not yet handled   *)
  mode,             (* the radio: off, station or access point             *)
  link,             (* the station's: down, connecting, up, or addressed   *)
  dhcp,             (* a DHCP exchange is under way in the TCP/IP task     *)
  refused,          (* history: a Wi-Fi call whose result nobody looks at  *)
                    (* has failed since the restart                        *)
  tasks,            (* what the boot has started                           *)
  servers,          (* the addresses read for the camera and the WebSocket *)
  unread,           (* history: those of the two whose read has failed     *)
  used,             (* history: {} or the pair this boot found             *)
  failures,         (* history: disconnections since the last address      *)
  cuts              (* how many power cuts there were                      *)

mainVars == <<main_pc, seen, tasks, servers, unread, used>>
wifiVars == <<events, mode, link, dhcp, refused>>
evVars   == <<bits, s_retry_counter, failures>>
vars     == <<stVars, mainVars, wifiVars, evVars, cuts>>

Bit    == {"CONNECTED", "FAIL"}
MainPc == {"nvs", "queues", "error_control", "credentials", "wait1", "blocked1", "decide1",
           "wait2", "blocked2", "decide2", "cam", "cam_get", "ws", "ws_get",
           "uart", "rover", "ended"}
Client == {"cam", "ws"}
Task   == {"error_ctrl", "httpd", "websocket", "ws_error", "uart", "camera"}

TypeOK ==
  /\ StTypeOK
  /\ main_pc \in MainPc
  /\ seen \in SUBSET Bit /\ bits \in SUBSET Bit
  /\ s_retry_counter \in 0..MAX_RETRY
  /\ events \in Seq({"start", "disconnected", "got_ip"})
  /\ mode \in {"null", "sta", "ap"}
  /\ link \in {"down", "connecting", "up", "addressed"}
  /\ dhcp \in BOOLEAN /\ refused \in BOOLEAN
  /\ tasks \in SUBSET Task
  /\ servers \in [Client -> Value] /\ unread \in SUBSET Client
  /\ used = {} \/ \E p \in [Login -> Value] : used = {p}
  /\ failures \in 0..MAX_RETRY + 1
  /\ cuts \in 0..MaxCuts

NoServers == [c \in Client |-> 0]

Init ==
  /\ StInit
  /\ main_pc = "nvs" /\ seen = {} /\ tasks = {} /\ used = {}
  /\ servers = NoServers /\ unread = {}
  /\ bits = {} /\ s_retry_counter = 0 /\ failures = 0
  /\ events = <<>> /\ mode = "null" /\ link = "down" /\ dhcp = FALSE
  /\ refused = FALSE
  /\ cuts = 0

-----------------------------------------------------------------------------
(* app_main *)

Go(from, to) == main_pc = from /\ main_pc' = to

(* nvs_flash_init, with the erasure it may ask for. ESP_ERROR_CHECK        *)
(* restarts the chip on an error, and the boot is here again: it may be so *)
(* for ever.                                                               *)
InitFlash ==
  /\ main_pc = "nvs" /\ main_pc' \in {"nvs", "queues"}
  /\ NvsErase \/ UNCHANGED stVars
  /\ UNCHANGED <<seen, tasks, servers, unread, used, wifiVars, evVars, cuts>>

(* init_queues: on an error app_main returns.                              *)
InitQueues ==
  /\ Go("queues", "error_control") \/ Go("queues", "ended")
  /\ UNCHANGED <<seen, tasks, servers, unread, used, stVars, wifiVars, evVars, cuts>>

(* error_control_init: the same.                                           *)
InitErrorControl ==
  /\ \/ Go("error_control", "credentials") /\ tasks' = {"error_ctrl"}
     \/ Go("error_control", "ended") /\ UNCHANGED tasks
  /\ UNCHANGED <<seen, servers, unread, used, stVars, wifiVars, evVars, cuts>>

(* start_ap_provisioning: all its results are dropped. When a Wi-Fi call  *)
(* fails there is no access point, and the radio is off or what it was.    *)
StartAp ==
  /\ \/ mode' = "ap" /\ UNCHANGED refused
     \/ mode' \in {"null", mode} /\ refused' = TRUE
  /\ tasks' \in {tasks, tasks \cup {"httpd"}}
  /\ UNCHANGED <<events, link, dhcp>>

(* esp_wifi_set_mode, set_config and start: without the last there is no   *)
(* event. A refused set_config shows when the station is to connect.       *)
StartSta ==
  /\ \/ mode' = "sta" /\ events' = Append(events, "start") /\ UNCHANGED refused
     \/ mode' \in {mode, "sta"} /\ UNCHANGED events /\ refused' = TRUE
  /\ UNCHANGED <<tasks, link, dhcp>>

Found == \A k \in Login : cache[k] # 0

(* storage_get_credentials returns what it found, or that a key is not     *)
(* there. It runs alone: there is no portal yet.                           *)
CredentialsRead ==
  /\ used' = {[k \in Login |-> cache[k]]}
  /\ kept' = [k \in Login |-> cache[k]] /\ open' = {}
  /\ IF Found THEN StartSta /\ main_pc' = "wait1"
              ELSE StartAp /\ main_pc' = "wait2"

(* It cannot open or read: the same to the caller as a key not there.      *)
CredentialsUnread ==
  /\ StartAp /\ main_pc' = "wait2"
  /\ UNCHANGED <<used, histVars>>

Credentials ==
  /\ main_pc = "credentials"
  /\ CredentialsRead \/ CredentialsUnread
  /\ UNCHANGED <<seen, servers, unread, nvsVars, httpdVars, evVars, cuts>>

(* Mutant: the bits are cleared on entry, and the next one is waited for.  *)
AtOnceNever == FALSE

AtOnce == bits # {}

(* xEventGroupWaitBits: returns the bits at once when there are any.       *)
WaitBits(wait, blocked, decide) ==
  /\ main_pc = wait
  /\ IF AtOnce THEN main_pc' = decide /\ seen' = bits
               ELSE main_pc' = blocked /\ seen' = seen
  /\ UNCHANGED <<tasks, servers, unread, used, stVars, wifiVars, evVars, cuts>>

Wait1 == WaitBits("wait1", "blocked1", "decide1")
Wait2 == WaitBits("wait2", "blocked2", "decide2")

(* wifi_provisioning_init, after its wait.                                 *)
Decide1 ==
  /\ Go("decide1", "wait2")
  /\ IF "FAIL" \in seen THEN StartAp ELSE UNCHANGED <<tasks, wifiVars>>
  /\ UNCHANGED <<seen, servers, unread, used, stVars, evVars, cuts>>

(* Mutant: any bit is taken for a connection.                              *)
StartsOnAny == seen # {}

Starts == "CONNECTED" \in seen

Decide2 ==
  /\ Go("decide2", IF Starts THEN "cam" ELSE "ended")
  /\ UNCHANGED <<seen, tasks, servers, unread, used, stVars, wifiVars, evVars, cuts>>

(* storage_get_server_ip, twice: by app_main and by websocket_start, which *)
(* go on with the default when it fails. One that cannot open closes the   *)
(* handle all the same.                                                    *)
IpFails(c) ==
  /\ unread' = unread \cup {c}
  /\ NvsClose
  /\ UNCHANGED <<servers, used, seen, httpdVars, histVars, wifiVars, evVars, cuts>>

IpOpens(c, get) ==
  /\ Go(c, get)
  /\ NvsOpen("readonly")
  /\ UNCHANGED <<seen, tasks, servers, unread, used, httpdVars, histVars,
                 wifiVars, evVars, cuts>>

IpGets(c) ==
  /\ servers' = [servers EXCEPT ![c] = NvsGet("server_ip")]
  /\ NvsClose
  /\ UNCHANGED <<seen, unread, used, httpdVars, histVars, wifiVars, evVars, cuts>>

CamOpens ==
  \/ IpOpens("cam", "cam_get")
  \/ Go("cam", "ws") /\ IpFails("cam") /\ UNCHANGED tasks

(* Mutant: the URL is made before the address is read.                     *)
CamGetsEarly ==
  /\ Go("cam_get", "ws")
  /\ NvsClose
  /\ UNCHANGED <<seen, tasks, servers, unread, used, httpdVars, histVars,
                 wifiVars, evVars, cuts>>

CamGets ==
  /\ Go("cam_get", "ws")
  /\ IpGets("cam") \/ IpFails("cam")
  /\ UNCHANGED tasks

(* websocket_start: the client starts or does not, and send_error_task     *)
(* only with it; app_main goes on in any case.                             *)
WsStarts == tasks' \in {tasks, tasks \cup {"websocket"},
                        tasks \cup {"websocket", "ws_error"}}

WsOpens ==
  \/ IpOpens("ws", "ws_get")
  \/ Go("ws", "uart") /\ IpFails("ws") /\ WsStarts

WsGets ==
  /\ Go("ws_get", "uart")
  /\ IpGets("ws") \/ IpFails("ws")
  /\ WsStarts

(* init_uart, task_uart, and camera_task if the camera starts. That a task *)
(* cannot be made is noticed by nobody.                                    *)
StartRover ==
  /\ Go("uart", "rover")
  /\ \E made \in SUBSET {"uart", "camera"} : tasks' = tasks \cup made
  /\ UNCHANGED <<seen, servers, unread, used, stVars, wifiVars, evVars, cuts>>

BootStep ==
  \/ InitQueues \/ InitErrorControl \/ Credentials
  \/ Wait1 \/ Decide1 \/ Wait2 \/ Decide2
  \/ CamOpens \/ CamGets \/ WsOpens \/ WsGets \/ StartRover

MainStep == InitFlash \/ BootStep

-----------------------------------------------------------------------------
(* event_handler *)

(* Mutant: after the first connection nobody connects again.               *)
ConnectsOnce ==
  IF bits = {} THEN mode = "sta" /\ link' = "connecting" /\ UNCHANGED refused
               ELSE UNCHANGED <<link, refused>>

(* esp_wifi_connect, whose result is dropped: after an error, as in any    *)
(* mode but station, no event comes.                                       *)
Connects ==
  \/ mode = "sta" /\ link' = "connecting" /\ UNCHANGED refused
  \/ UNCHANGED link /\ refused' = TRUE

(* xEventGroupSetBits: app_main, if blocked, gets the bits of this moment. *)
SetBit(b) ==
  /\ bits' = bits \cup {b}
  /\ IF main_pc \in {"blocked1", "blocked2"}
       THEN /\ main_pc' = IF main_pc = "blocked1" THEN "decide1" ELSE "decide2"
            /\ seen' = bits'
       ELSE UNCHANGED <<main_pc, seen>>

Handles(e) ==
  /\ events # <<>>
  /\ Head(events) = e
  /\ events' = Tail(events)
  /\ UNCHANGED <<tasks, servers, unread, used, mode, stVars, cuts>>

HandleStart ==
  /\ Handles("start")
  /\ Connects
  /\ UNCHANGED <<main_pc, seen, dhcp, evVars>>

(* Mutants: one retry more; one after the last.                            *)
RetriesLate   == s_retry_counter <= MAX_RETRY
GivesUpTrying == Connects

Retries == s_retry_counter < MAX_RETRY
GivesUp == UNCHANGED <<link, refused>>

(* In the same dispatch the network interface ends the DHCP exchange.      *)
HandleDisconnected ==
  /\ Handles("disconnected")
  /\ dhcp' = FALSE
  /\ failures' = failures + 1
  /\ IF Retries
       THEN /\ Connects
            /\ s_retry_counter' = s_retry_counter + 1
            /\ UNCHANGED <<bits, main_pc, seen>>
       ELSE /\ SetBit("FAIL")
            /\ s_retry_counter' = 0
            /\ GivesUp

(* Mutant: an address does not start the count again.                      *)
CounterKept  == s_retry_counter
CounterReset == 0

HandleGotIp ==
  /\ Handles("got_ip")
  /\ s_retry_counter' = CounterReset
  /\ failures' = 0
  /\ SetBit("CONNECTED")
  /\ UNCHANGED <<link, dhcp, refused>>

HandleEvent == HandleStart \/ HandleDisconnected \/ HandleGotIp

-----------------------------------------------------------------------------
(* The Wi-Fi driver and the network. *)

Radio(e) ==
  /\ events' = events \o e
  /\ UNCHANGED <<mode, refused, stVars, mainVars, evVars, cuts>>

AttemptFails ==
  /\ link = "connecting"
  /\ link' = "down"
  /\ Radio(<<"disconnected">>)
  /\ UNCHANGED dhcp

Associates ==
  /\ link = "connecting"
  /\ link' = "up"
  /\ dhcp' = TRUE
  /\ Radio(<<>>)

LinkLost ==
  /\ link \in {"up", "addressed"}
  /\ link' = "down"
  /\ Radio(<<"disconnected">>)
  /\ UNCHANGED dhcp

(* Also when the link was lost a moment ago and the event of that loss is  *)
(* still to be handled.                                                    *)
DhcpAnswers ==
  /\ dhcp
  /\ dhcp' = FALSE
  /\ link' = IF link = "up" THEN "addressed" ELSE link
  /\ Radio(<<"got_ip">>)

AttemptEnds == AttemptFails \/ Associates

-----------------------------------------------------------------------------
(* The portal's task, and the power. *)

Portal(A) ==
  /\ "httpd" \in tasks
  /\ A
  /\ UNCHANGED <<mainVars, wifiVars, evVars, cuts>>

PortalPost == mode = "ap" /\ Portal(Post)
PortalSave == Portal(Save)

Restarts ==
  /\ StRestart
  /\ main_pc' = "nvs" /\ seen' = {} /\ tasks' = {} /\ used' = {}
  /\ servers' = NoServers /\ unread' = {}
  /\ bits' = {} /\ s_retry_counter' = 0 /\ failures' = 0
  /\ events' = <<>> /\ mode' = "null" /\ link' = "down" /\ dhcp' = FALSE
  /\ refused' = FALSE

(* esp_restart, three seconds after the answer.                            *)
EspRestart ==
  /\ httpd_pc = "restart"
  /\ Restarts
  /\ UNCHANGED cuts

PowerCut ==
  /\ cuts < MaxCuts
  /\ cuts' = cuts + 1
  /\ Restarts

Next ==
  \/ MainStep \/ HandleEvent
  \/ AttemptEnds \/ LinkLost \/ DhcpAnswers
  \/ PortalPost \/ PortalSave \/ EspRestart \/ PowerCut

Spec == Init /\ [][Next]_vars

(* The tasks run, once the flash is initialised; an attempt to connect     *)
(* ends one way or the other, and an access point that lets the station in *)
(* gives it an address or loses it.                                        *)
FairSpec ==
  /\ Spec
  /\ WF_vars(BootStep) /\ WF_vars(HandleEvent)
  /\ WF_vars(PortalSave) /\ WF_vars(EspRestart)
  /\ WF_vars(AttemptEnds) /\ WF_vars(DhcpAnswers)

-----------------------------------------------------------------------------
(* The portal's form, the flash and the boot, whatever is cut short or     *)
(* fails, keep the promise of KeyStore: a pair that was answered with      *)
(* "saved" is the one every later boot finds.                              *)
Store == INSTANCE KeyStore WITH Key <- Login

StoreSpec == Store!Spec

Starting == {"cam", "cam_get", "ws", "ws_get", "uart", "rover"}

(* The rover's tasks run on a station that was started with the pair found *)
(* in the flash, unless both bits had come to be set by the time app_main  *)
(* looked: an address that arrives with the last failure, after which they *)
(* run beside the portal.                                                  *)
RoverHasStation ==
  main_pc \in Starting =>
    /\ mode = "sta" \/ seen = Bit
    /\ \E p \in used : \A k \in Login : p[k] # 0

(* The failure bit is raised by MAX_RETRY + 1 disconnections in a row, and *)
(* by nothing less: an address in between starts the count again.          *)
GivesUpOnlyAfterRetries ==
  [][bits' \ bits = {"FAIL"} => failures' = MAX_RETRY + 1]_vars

(* And it is final, as is a call of esp_wifi_connect, or of those that     *)
(* start the radio, that fails: nothing is under way, or will be, that     *)
(* could connect the station before the next restart.                      *)
GivenUpIsFinal ==
  "FAIL" \in bits \/ refused =>
    /\ link = "down" /\ ~dhcp
    /\ \A n \in 1..Len(events) : events[n] = "got_ip"

(* A station that has not given up is not left alone, unless a call was    *)
(* refused: an attempt, a DHCP exchange or an event that makes it connect  *)
(* is always under way. And no wait of app_main is in vain: it is blocked  *)
(* only while no bit is set, and then an address on its way or a station   *)
(* under way will set one, unless a call was refused or there was no pair. *)
Underway ==
  \/ link \in {"connecting", "addressed"}
  \/ link = "up" /\ dhcp
  \/ \E n \in 1..Len(events) : events[n] # "got_ip"

AddressOnItsWay == \E n \in 1..Len(events) : events[n] = "got_ip"

(* This boot found no pair: the flash holds none, or could not be read.    *)
NoPair == used = {} \/ \E p \in used : \E k \in Login : p[k] = 0

NeverStranded ==
  /\ mode = "sta" /\ "FAIL" \notin bits /\ ~refused => Underway
  /\ link = "addressed" /\ "CONNECTED" \notin bits => AddressOnItsWay
  /\ main_pc \in {"blocked1", "blocked2"} =>
       /\ bits = {}
       /\ mode = "sta" \/ refused \/ NoPair

(* Camera and WebSocket, of which each reads the address for itself through*)
(* the handle that the portal also uses, are told the server that is in    *)
(* the flash, as long as there is no portal and except one whose read      *)
(* failed: that one keeps its default, and the other does not.             *)
SameServer ==
  main_pc = "rover" /\ "httpd" \notin tasks =>
    \A c \in Client \ unread : servers[c] = cache["server_ip"]

(* Every boot that gets past the flash comes to an end: the rover, an      *)
(* error, another restart, or app_main blocked for good, which happens     *)
(* only at the access point of a boot that found no pair, or after a Wi-Fi *)
(* call that was refused.                                                  *)
BootEnds ==
  main_pc = "queues" ~>
    \/ main_pc \in {"rover", "ended", "nvs"}
    \/ main_pc = "blocked2" /\ mode = "ap" /\ NoPair
    \/ main_pc \in {"blocked1", "blocked2"} /\ refused

(* A pair answered with "saved" comes into use, unless the flash is erased *)
(* or cannot be initialised, or the boot fails before it has read the      *)
(* pair, or in reading it.                                                 *)
SavedIsUsed ==
  \A f \in 1..MaxForms :
    httpd_pc = "restart" /\ form = f ~>
      \/ used = {[k \in Login |-> f]}
      \/ kept = [k \in Login |-> 0]
      \/ main_pc \in {"ended", "wait2"} /\ used = {} /\ httpd_pc = "idle"
      \/ [](main_pc = "nvs")

(* After a link is lost under the rover, the station gets an address again *)
(* or gives up, or a call to connect is refused: it never stops otherwise, *)
(* and never tries for ever.                                               *)
LinkReturnsOrGivesUp ==
  main_pc = "rover" /\ link = "down" ~>
    \/ "FAIL" \in bits \/ refused \/ main_pc = "nvs"
    \/ link = "addressed" \/ AddressOnItsWay

-----------------------------------------------------------------------------
(* A statement of wifi_manager.h that the code refutes: the failure bit    *)
(* says that the access point is there to set the rover up (as far as no   *)
(* call to start it was refused).                                          *)
FailBitMeansPortal ==
  main_pc \in {"rover", "ended"} /\ "FAIL" \in bits /\ ~refused => mode = "ap"

=============================================================================
