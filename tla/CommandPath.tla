----------------------------- MODULE CommandPath -----------------------------
(***************************************************************************)
(* The path of a command through the firmware, and of the errors it causes:*)
(*                                                                         *)
(*   WebSocket task --cmd_queue--> UART task --> motor controller (CIAA)   *)
(*        |                            |                                   *)
(*        +------ to_error_queue ------+---> error task                    *)
(*                                             |                           *)
(*   send_error_task <---- from_error_queue ---+                           *)
(*                                                                         *)
(* The three tasks also call error_control, access by access as module     *)
(* ErrorControl has it. A command is its number in order of arrival.       *)
(* The serial link is reduced to what a read of it parses to.              *)
(***************************************************************************)
EXTENDS ErrorControl, Sequences, FiniteSets

CONSTANTS
  MaxCmds,     (* bound: well-formed commands that arrive                  *)
  CmdLen,      (* length of cmd_queue (10 in the firmware)                 *)
  ErrLen,      (* length of to_error_queue (10)                            *)
  WebLen,      (* length of from_error_queue (10)                          *)
  LastTry,     (* the 3 of "i <= 3" and "i < 3" in ready_handler           *)
  Provoked     (* bound: errors that bad frames, the CIAA and the camera   *)
               (* tasks may report                                         *)

ASSUME PathAssumption ==
  /\ MaxCmds \in Nat /\ LastTry \in Nat
  /\ CmdLen \in Nat \ {0} /\ ErrLen \in Nat \ {0} /\ WebLen \in Nat \ {0}
  /\ Provoked \subseteq RoverError

VARIABLES
  cmd_queue, to_error_queue, from_error_queue,
  connected,       (* esp_websocket_client_is_connected                    *)
  arrived,         (* commands the WebSocket handler has parsed            *)
  ws_pc,           (* where websocket_event_handler is                     *)
  websocket_handler_error,
  uart_pc,         (* where task_uart is                                   *)
  command, i,      (* locals of ready_handler                              *)
  received_error,  (* local of error_control_task, NONE while it waits     *)
  fate             (* history: what became of each command                 *)

wsVars   == <<connected, arrived, ws_pc, websocket_handler_error>>
uartVars == <<uart_pc, command, i>>
cpVars   == <<cmd_queue, to_error_queue, from_error_queue, wsVars, uartVars,
              received_error, fate>>
pathVars == <<cpVars, ecVars>>

NONE == "NONE"
Cmd  == 1..MaxCmds
Fate == {"none", "accepted", "refused", "acked", "failed"}

CpTypeOK ==
  /\ EcTypeOK
  /\ cmd_queue \in Seq(Cmd) /\ Len(cmd_queue) <= CmdLen
  /\ to_error_queue \in Seq(RoverError) /\ Len(to_error_queue) <= ErrLen
  /\ from_error_queue \in Seq(RoverError) /\ Len(from_error_queue) <= WebLen
  /\ connected \in BOOLEAN
  /\ arrived \in 0..MaxCmds
  /\ ws_pc \in {"idle", "enqueue", "report", "stop"}
  /\ websocket_handler_error \in RoverError \cup {NONE}
  /\ uart_pc \in {"wait", "send", "await"}
  /\ command \in 0..MaxCmds
  /\ i \in 0..LastTry
  /\ received_error \in RoverError \cup {NONE}
  /\ fate \in [Cmd -> Fate]

CpInit ==
  /\ EcInit
  /\ cmd_queue = <<>> /\ to_error_queue = <<>> /\ from_error_queue = <<>>
  /\ connected = FALSE
  /\ arrived = 0
  /\ ws_pc = "idle"
  /\ websocket_handler_error = NONE
  /\ uart_pc = "wait"
  /\ command = 0
  /\ i = 0
  /\ received_error = NONE
  /\ fate = [c \in Cmd |-> "none"]

-----------------------------------------------------------------------------
(* xQueueSend(to_error_queue, &error, 0): a report that finds the queue    *)
(* full is dropped, and nobody checks.                                     *)
Post(e) ==
  to_error_queue' = IF Len(to_error_queue) < ErrLen
                      THEN Append(to_error_queue, e) ELSE to_error_queue

Settle(c, f) == fate' = [fate EXCEPT ![c] = f]

WsIdle == ws_pc = "idle" /\ ~Busy("ws")

(* The client library connects, at start and after each reconnect delay.   *)
WsConnect ==
  /\ WsIdle /\ ~connected
  /\ connected' = TRUE
  /\ UNCHANGED <<cmd_queue, to_error_queue, from_error_queue, arrived, ws_pc,
                 websocket_handler_error, uartVars, received_error, fate, ecVars>>

(* WEBSOCKET_EVENT_DATA with a text frame that parses: the command is      *)
(* ready to be queued.                                                     *)
WsCommand ==
  /\ WsIdle /\ connected
  /\ arrived < MaxCmds
  /\ arrived' = arrived + 1
  /\ ws_pc' = "enqueue"
  /\ UNCHANGED <<cmd_queue, to_error_queue, from_error_queue, connected,
                 websocket_handler_error, uartVars, received_error, fate, ecVars>>

(* A text frame that cannot be copied or does not parse. *)
WsBadFrame(e) ==
  /\ WsIdle /\ connected
  /\ e \in Provoked \cap {"NULL_BUFFER", "PARSE_ERROR"}
  /\ ws_pc' = "report"
  /\ websocket_handler_error' = e
  /\ UNCHANGED <<cmd_queue, to_error_queue, from_error_queue, connected,
                 arrived, uartVars, received_error, fate, ecVars>>

(* Mutants: the queue is taken for full one slot early, or one slot late. *)
FullEarly == Len(cmd_queue) >= CmdLen - 1
FullLate  == Len(cmd_queue) > CmdLen

CmdQueueFull == Len(cmd_queue) = CmdLen

(* xQueueSend(cmd_queue, &new_cmd, 100 ms) finds room; the handler goes on *)
(* into error_control_cmd_received.                                        *)
WsEnqueue ==
  /\ ws_pc = "enqueue"
  /\ ~CmdQueueFull
  /\ cmd_queue' = Append(cmd_queue, arrived)
  /\ ws_pc' = "idle"
  /\ Settle(arrived, "accepted")
  /\ Enter("ws")
  /\ UNCHANGED <<to_error_queue, from_error_queue, connected, arrived,
                 websocket_handler_error, uartVars, received_error>>

(* The 100 ms pass with the queue full. *)
WsTimeout ==
  /\ ws_pc = "enqueue"
  /\ CmdQueueFull
  /\ ws_pc' = "report"
  /\ websocket_handler_error' = "SEND_CMD_QUEUE_ERROR"
  /\ Settle(arrived, "refused")
  /\ UNCHANGED <<cmd_queue, to_error_queue, from_error_queue, connected,
                 arrived, uartVars, received_error, ecVars>>

(* The connection drops: WEBSOCKET_EVENT_DISCONNECTED. *)
WsDisconnect ==
  /\ WsIdle /\ connected
  /\ connected' = FALSE
  /\ ws_pc' = "report"
  /\ websocket_handler_error' = "WEBSOCKET_DISCONNECTED"
  /\ UNCHANGED <<cmd_queue, to_error_queue, from_error_queue, arrived,
                 uartVars, received_error, fate, ecVars>>

(* The handler posts its error. After a disconnection it goes on to stop   *)
(* the motors.                                                             *)
WsReport ==
  /\ ws_pc = "report"
  /\ Post(websocket_handler_error)
  /\ ws_pc' = IF websocket_handler_error = "WEBSOCKET_DISCONNECTED"
                THEN "stop" ELSE "idle"
  /\ websocket_handler_error' = NONE
  /\ UNCHANGED <<cmd_queue, from_error_queue, connected, arrived, uartVars,
                 received_error, fate, ecVars>>

(* Mutant: cmd_queue is reset together with the STOP. *)
WsStopResets ==
  /\ ws_pc = "stop"
  /\ ws_pc' = "idle"
  /\ cmd_queue' = <<>>
  /\ UNCHANGED <<to_error_queue, from_error_queue, connected, arrived,
                 websocket_handler_error, uartVars, received_error, fate, ecVars>>

(* uart_send_stop_to_ciaa, then websocket_trigger_reconnect, which leaves  *)
(* the reconnection to the library. cmd_queue and a command in flight are  *)
(* not touched.                                                            *)
WsStop ==
  /\ ws_pc = "stop"
  /\ ws_pc' = "idle"
  /\ UNCHANGED <<cmd_queue, to_error_queue, from_error_queue, connected,
                 arrived, websocket_handler_error, uartVars, received_error,
                 fate, ecVars>>

-----------------------------------------------------------------------------
(* Mutant: commands are served only while the socket is connected. *)
UartIdleConnected == uart_pc = "wait" /\ ~Busy("uart") /\ connected

UartIdle == uart_pc = "wait" /\ ~Busy("uart")

(* READY is read: ready_handler takes the oldest command. With none queued *)
(* it returns, and so does an event that does not parse: no step.          *)
UartReady ==
  /\ UartIdle
  /\ cmd_queue # <<>>
  /\ command' = Head(cmd_queue)
  /\ cmd_queue' = Tail(cmd_queue)
  /\ uart_pc' = "send"
  /\ i' = 0
  /\ UNCHANGED <<to_error_queue, from_error_queue, wsVars, received_error,
                 fate, ecVars>>

(* Any other response outside a command: error_handler, not_known_response.*)
UartComplaint(e) ==
  /\ UartIdle
  /\ e \in Provoked \cap {"UART_INVALID_CMD", "UART_INVALID_PARAMS",
                          "UART_UNKNOWN_RESPONSE"}
  /\ Post(e)
  /\ UNCHANGED <<cmd_queue, from_error_queue, wsVars, uartVars,
                 received_error, fate, ecVars>>

UartSend ==
  /\ uart_pc = "send"
  /\ uart_pc' = "await"
  /\ UNCHANGED <<cmd_queue, to_error_queue, from_error_queue, wsVars, command,
                 i, received_error, fate, ecVars>>

Return ==
  /\ uart_pc' = "wait"
  /\ command' = 0
  /\ i' = 0

(* What is read within ACK_AWAIT_MS parses to an ACK. *)
UartAck ==
  /\ uart_pc = "await"
  /\ Settle(command, "acked")
  /\ Return
  /\ Enter("uart")
  /\ UNCHANGED <<cmd_queue, to_error_queue, from_error_queue, wsVars,
                 received_error>>

(* Mutant: the guard of the retry is off by one. *)
RetriesShort == i + 1 < LastTry

Retries == i < LastTry

(* It does not: the command is sent again after 1000 ms ... *)
UartRetry ==
  /\ uart_pc = "await"
  /\ Retries
  /\ i' = i + 1
  /\ uart_pc' = "send"
  /\ UNCHANGED <<cmd_queue, to_error_queue, from_error_queue, wsVars, command,
                 received_error, fate, ecVars>>

(* ... until i runs out, and NO_ACK is reported. *)
UartGiveUp ==
  /\ uart_pc = "await"
  /\ ~Retries
  /\ Settle(command, "failed")
  /\ Return
  /\ Post("NO_ACK")
  /\ UNCHANGED <<cmd_queue, from_error_queue, wsVars, received_error, ecVars>>

-----------------------------------------------------------------------------
(* The camera and upload tasks report with the same zero-wait send. *)
CameraReport(e) ==
  /\ e \in Provoked \cap {"HTTP_CLIENT_NO_OPEN", "FRAME_NULL", "WRITE_ERROR"}
  /\ Post(e)
  /\ UNCHANGED <<cmd_queue, from_error_queue, wsVars, uartVars,
                 received_error, fate, ecVars>>

(* Mutant: errors are taken only while the socket is connected. *)
ErrIdleConnected == received_error = NONE /\ ~Busy("err") /\ connected

ErrIdle == received_error = NONE /\ ~Busy("err")

(* error_control_task receives an error. One below WARNING is only logged. *)
ErrReceive ==
  /\ ErrIdle
  /\ to_error_queue # <<>>
  /\ to_error_queue' = Tail(to_error_queue)
  /\ received_error' = IF Notifies(Head(to_error_queue))
                         THEN Head(to_error_queue) ELSE NONE
  /\ UNCHANGED <<cmd_queue, from_error_queue, wsVars, uartVars, fate, ecVars>>

(* process_error: the notice is queued for the web, or dropped when 100 ms *)
(* pass with from_error_queue full; a refused command is then counted.     *)
ErrProcess ==
  /\ received_error # NONE
  /\ from_error_queue' = IF Len(from_error_queue) < WebLen
                           THEN Append(from_error_queue, received_error)
                           ELSE from_error_queue
  /\ received_error' = NONE
  /\ IF received_error = "SEND_CMD_QUEUE_ERROR"
       THEN Enter("err") ELSE UNCHANGED ecVars
  /\ UNCHANGED <<cmd_queue, to_error_queue, wsVars, uartVars, fate>>

(* send_error_task takes a notice and sends it if the socket is connected; *)
(* otherwise the notice is gone.                                           *)
WebSend ==
  /\ from_error_queue # <<>>
  /\ from_error_queue' = Tail(from_error_queue)
  /\ UNCHANGED <<cmd_queue, to_error_queue, wsVars, uartVars, received_error,
                 fate, ecVars>>

EcTaskStep(t) == EcStep(t) /\ UNCHANGED cpVars

-----------------------------------------------------------------------------
WsStep   == WsEnqueue \/ WsTimeout \/ WsReport \/ WsStop \/ EcTaskStep("ws")
UartStep == UartReady \/ UartSend \/ UartAck \/ UartRetry \/ UartGiveUp
              \/ EcTaskStep("uart")
ErrStep  == ErrReceive \/ ErrProcess \/ EcTaskStep("err")

Environment ==
  \/ WsConnect \/ WsCommand \/ WsDisconnect
  \/ \E e \in Provoked : WsBadFrame(e) \/ UartComplaint(e) \/ CameraReport(e)

CpNext == WsStep \/ UartStep \/ ErrStep \/ WebSend \/ Environment

CpSpec == CpInit /\ [][CpNext]_pathVars

(* FreeRTOS runs every ready task; a blocked send or read returns at its   *)
(* timeout. UartStep includes UartReady: the CIAA announces READY again    *)
(* and again, which is what the protocol expects of it.                    *)
CpFairSpec ==
  /\ CpSpec
  /\ WF_pathVars(WsStep)
  /\ WF_pathVars(UartStep)
  /\ WF_pathVars(ErrStep)
  /\ WF_pathVars(WebSend)

-----------------------------------------------------------------------------
(* Commands refused or accepted so far: all that arrived but the one the   *)
(* handler is still trying to queue.                                       *)
Offered == IF ws_pc = "enqueue" THEN arrived - 1 ELSE arrived

(* Transmissions of the command in flight. *)
Tries == IF uart_pc = "await" THEN i + 1 ELSE i

(* The promise this path implements. *)
Service == INSTANCE CommandService
             WITH offered <- Offered, backlog <- cmd_queue, serving <- command,
                  tries <- Tries, Capacity <- CmdLen, MaxTries <- LastTry + 1

(* Every step of the tasks is a step of the bounded first-in first-out     *)
(* service, or none: no command is lost, duplicated, overtaken, refused    *)
(* with room left, or given up before its last transmission.               *)
ServiceSafety == Service!Safety

(* ... and the service never stops while a command waits.                  *)
ServiceSpec == Service!Spec

InFlight == uart_pc # "wait"

Backlog == Len(cmd_queue) + (IF InFlight THEN 1 ELSE 0)

Lost(f) == Cardinality({c \in Cmd : fate[c] = f})

Accepted == {c \in Cmd : fate[c] = "accepted"}
Queued   == {cmd_queue[k] : k \in 1..Len(cmd_queue)}
Serving  == IF InFlight THEN {command} ELSE {}

(* The commands accepted and not yet answered are exactly the ones in the  *)
(* queue and in ready_handler.                                             *)
Ledger == Accepted = Queued \cup Serving

(* So at most CmdLen + 1 of them are left to be transmitted after the STOP *)
(* of a disconnection.                                                     *)
LeftAfterStop == Cardinality(Accepted) = Backlog /\ Backlog <= CmdLen + 1

(* The difference the camera is throttled by never exceeds the commands    *)
(* waiting plus the commands lost; and while no refusal has been counted   *)
(* it is exactly the commands waiting plus those given up.                 *)
DiffIsBacklogPlusLosses ==
  /\ CmdDiff <= Backlog + Lost("failed") + Lost("refused") + Pending("uart")
  /\ calls["err"] = 0 =>
       CmdDiff + Pending("ws") = Backlog + Lost("failed") + Pending("uart")

(* A camera suspended by undisturbed calls has a cause: commands waiting   *)
(* or lost, more than RESTORE of them.                                     *)
SuspensionHasCause ==
  Quiescent /\ ~disturbed /\ current_camera_state = "SUSPENDED"
    => Backlog + Lost("failed") + Lost("refused") > RESTORE

(* The call that suspends it undisturbed does so with at least SUSPEND of  *)
(* them.                                                                   *)
SuspendsWithCause ==
  [][~disturbed' /\ current_camera_state # "SUSPENDED"
       /\ current_camera_state' = "SUSPENDED"
       => Backlog + Lost("failed") + Lost("refused") >= SUSPEND]_pathVars

(* Every command that arrives is acknowledged, given up or refused.        *)
EveryCommandAnswered ==
  \A c \in Cmd : arrived >= c ~> fate[c] \in {"acked", "failed", "refused"}

(* The error task and the WebSocket sender free a slot of a full           *)
(* to_error_queue, connected or not.                                       *)
FullErrorQueueMoves ==
  Len(to_error_queue) = ErrLen ~> Len(to_error_queue) < ErrLen

-----------------------------------------------------------------------------
(* A statement of a log that the code refutes.                             *)

(* cam_task.c, suspended, is "waiting for system to recover": with every   *)
(* command answered and the counters at rest, it has.                      *)
SuspendedOnlyWhileBusy ==
  Quiescent /\ ~disturbed /\ Backlog = 0 /\ ws_pc = "idle"
    => current_camera_state # "SUSPENDED"

=============================================================================
