---------------------------- MODULE CameraPolicy ----------------------------
(***************************************************************************)
(* The pure part of components/error_control: the three-state hysteresis   *)
(* that decides how the camera runs from the difference between commands   *)
(* received and commands sent, and the severity table of the error codes.  *)
(***************************************************************************)
EXTENDS Integers

CONSTANTS
  DEGRADE,   (* CMD_DIFF_THRESHOLD_DEGRADE (6 in the firmware)   *)
  SUSPEND,   (* CMD_DIFF_THRESHOLD_SUSPEND (10)                  *)
  RESTORE    (* CMD_DIFF_THRESHOLD_RESTORE (2)                   *)

ASSUME ThresholdAssumption ==
  /\ DEGRADE \in Nat /\ SUSPEND \in Nat /\ RESTORE \in Nat
  /\ RESTORE < DEGRADE
  /\ DEGRADE < SUSPEND

CameraState == {"NORMAL", "DEGRADED", "SUSPENDED"}

(* Mutant: NORMAL tests the lower threshold first, so SUSPENDED is never   *)
(* chosen from there.                                                      *)
DecideLowFirst(state, diff) ==
  CASE state = "NORMAL" ->
         IF diff >= DEGRADE THEN "DEGRADED"
         ELSE IF diff >= SUSPEND THEN "SUSPENDED" ELSE "NORMAL"
    [] state = "DEGRADED" ->
         IF diff >= SUSPEND THEN "SUSPENDED"
         ELSE IF diff <= RESTORE THEN "NORMAL" ELSE "DEGRADED"
    [] state = "SUSPENDED" ->
         IF diff <= RESTORE THEN "DEGRADED" ELSE "SUSPENDED"

(* Mutant: leaving SUSPENDED is written as "clear the state".              *)
DecideCleared(state, diff) ==
  IF state = "SUSPENDED" /\ diff <= RESTORE THEN "NONE"
  ELSE DecideLowFirst(state, diff)

(* Mutant: SUSPENDED is left below the restore threshold, not at it.       *)
DecideSticky(state, diff) ==
  IF state = "SUSPENDED" /\ diff = RESTORE THEN "SUSPENDED"
  ELSE DecideLowFirst(state, diff)

(* The switch of evaluate_camera_state: the state it selects. A state that *)
(* no branch changes is returned as it is.                                 *)
Decide(state, diff) ==
  CASE state = "NORMAL" ->
         IF diff >= SUSPEND THEN "SUSPENDED"
         ELSE IF diff >= DEGRADE THEN "DEGRADED" ELSE "NORMAL"
    [] state = "DEGRADED" ->
         IF diff >= SUSPEND THEN "SUSPENDED"
         ELSE IF diff <= RESTORE THEN "NORMAL" ELSE "DEGRADED"
    [] state = "SUSPENDED" ->
         IF diff <= RESTORE THEN "DEGRADED" ELSE "SUSPENDED"

(* What one evaluation promises of the state it leaves, whatever the state *)
(* it started from: a backlog at a threshold is answered, and a backlog    *)
(* small enough to restore is not answered by a suspended camera.          *)
Settled(state, diff) ==
  /\ diff >= SUSPEND => state = "SUSPENDED"
  /\ diff >= DEGRADE => state # "NORMAL"
  /\ diff <= RESTORE => state # "SUSPENDED"

-----------------------------------------------------------------------------
(* error_map: the severity of each rover_errors_t. Notifies(e) is the test *)
(* severity >= SEVERITY_WARNING of process_error.                          *)
DebugErrors   == {"FRAME_NULL"}
InfoErrors    == {"UART_UNKNOWN_RESPONSE", "PARSE_ERROR", "OP_CODE_ERROR"}
WarningErrors == {"UL_STATUS_FAIL", "WRITE_ERROR", "NO_ACK",
                  "UART_INVALID_CMD", "UART_INVALID_PARAMS", "UART_PARSE_FAIL"}
ErrorErrors   == {"HTTP_CLIENT_NO_OPEN", "NULL_BUFFER", "SEND_CMD_QUEUE_ERROR",
                  "WEBSOCKET_DISCONNECTED", "WIFI_CONNECTION_FAIL"}
CriticalErrors == {"CAMERA_INIT_FAIL", "WEBSOCKET_INIT_FAIL",
                   "WEBSOCKET_REGISTER_FAIL", "WEBSOCKET_START_FAIL",
                   "QUEUE_CREATE_FAIL"}

RoverError == DebugErrors \cup InfoErrors \cup WarningErrors
                \cup ErrorErrors \cup CriticalErrors

Notifies(e) == e \in WarningErrors \cup ErrorErrors \cup CriticalErrors

=============================================================================
