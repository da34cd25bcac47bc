---------------------------- MODULE ErrorControl ----------------------------
(***************************************************************************)
(* components/error_control as shared state: two counters and the camera   *)
(* state, updated without a lock by three tasks on two cores. Every        *)
(* access to a volatile variable is a step of its own, so all the          *)
(* interleavings the build can produce are behaviours of this module.      *)
(*                                                                         *)
(*   "ws"   the WebSocket task in error_control_cmd_received               *)
(*   "err"  the error task in process_error(SEND_CMD_QUEUE_ERROR)          *)
(*   "uart" the UART task in error_control_cmd_sent_ok                     *)
(*                                                                         *)
(* A call runs load, store (the ++ of a counter), then the body of         *)
(* evaluate_camera_state: two samples, two reads of the state, a commit.   *)
(***************************************************************************)
EXTENDS CameraPolicy

EcTask == {"ws", "uart", "err"}

VARIABLES
  cmds_received,
  cmds_sent_ok,
  current_camera_state,
  error_task_alive,     (* error_task_handle # NULL                       *)
  ec_pc,                (* where each task is in its call                 *)
  ec_reg,               (* cmd_diff, or the counter being incremented     *)
  ec_new,               (* new_state                                      *)
  calls,                (* history: calls each task has begun             *)
  disturbed             (* history: since a task last began a call alone, *)
                        (* another call, a manual set or a stop occurred  *)

ecVars == <<cmds_received, cmds_sent_ok, current_camera_state,
            error_task_alive, ec_pc, ec_reg, ec_new, calls, disturbed>>

EcPc == {"idle", "load", "store", "sample_received", "sample_sent",
         "read", "switch", "commit"}

EcTypeOK ==
  /\ cmds_received \in Nat
  /\ cmds_sent_ok \in Nat
  /\ current_camera_state \in CameraState
  /\ error_task_alive \in BOOLEAN
  /\ ec_pc \in [EcTask -> EcPc]
  /\ ec_reg \in [EcTask -> Int]
  /\ ec_new \in [EcTask -> CameraState]
  /\ calls \in [EcTask -> Nat]
  /\ disturbed \in BOOLEAN

EcInit ==
  /\ cmds_received = 0
  /\ cmds_sent_ok = 0
  /\ current_camera_state = "NORMAL"
  /\ error_task_alive = TRUE
  /\ ec_pc = [t \in EcTask |-> "idle"]
  /\ ec_reg = [t \in EcTask |-> 0]
  /\ ec_new = [t \in EcTask |-> "NORMAL"]
  /\ calls = [t \in EcTask |-> 0]
  /\ disturbed = FALSE

-----------------------------------------------------------------------------
(* Mutant: process_error increments the wrong counter.                     *)
CountsReceivedWsOnly(t) == t = "ws"

(* cmds_received++ in error_control_cmd_received and in process_error;     *)
(* cmds_sent_ok++ in error_control_cmd_sent_ok.                            *)
CountsReceived(t) == t \in {"ws", "err"}

Busy(t) == ec_pc[t] # "idle"

Goto(t, from, to) ==
  /\ ec_pc[t] = from
  /\ ec_pc' = [ec_pc EXCEPT ![t] = to]

Forget(t) ==
  /\ ec_reg' = [ec_reg EXCEPT ![t] = 0]
  /\ ec_new' = [ec_new EXCEPT ![t] = "NORMAL"]

(* A task enters the module. *)
Enter(t) ==
  /\ t = "err" => error_task_alive
  /\ Goto(t, "idle", "load")
  /\ calls' = [calls EXCEPT ![t] = @ + 1]
  /\ disturbed' = (\E u \in EcTask \ {t} : Busy(u))
  /\ UNCHANGED <<cmds_received, cmds_sent_ok, current_camera_state,
                 error_task_alive, ec_reg, ec_new>>

(* First half of ++: the counter is loaded into a register. *)
Load(t) ==
  /\ Goto(t, "load", "store")
  /\ ec_reg' = [ec_reg EXCEPT
                  ![t] = IF CountsReceived(t) THEN cmds_received ELSE cmds_sent_ok]
  /\ UNCHANGED <<cmds_received, cmds_sent_ok, current_camera_state,
                 error_task_alive, ec_new, calls, disturbed>>

(* Mutant: a counter counted down, and one counted twice. *)
CountDown(n) == n - 1
CountTwice(n) == n + 2

Increment(n) == n + 1

(* Second half of ++: the register plus one is stored back. *)
Store(t) ==
  /\ Goto(t, "store", "sample_received")
  /\ IF CountsReceived(t)
       THEN cmds_received' = Increment(ec_reg[t]) /\ UNCHANGED cmds_sent_ok
       ELSE cmds_sent_ok' = Increment(ec_reg[t]) /\ UNCHANGED cmds_received
  /\ ec_reg' = [ec_reg EXCEPT ![t] = 0]
  /\ UNCHANGED <<current_camera_state, error_task_alive, ec_new, calls, disturbed>>

(* The two reads of: cmd_diff = (int32_t)cmds_received - (int32_t)cmds_sent_ok *)
SampleReceived(t) ==
  /\ Goto(t, "sample_received", "sample_sent")
  /\ ec_reg' = [ec_reg EXCEPT ![t] = cmds_received]
  /\ UNCHANGED <<cmds_received, cmds_sent_ok, current_camera_state,
                 error_task_alive, ec_new, calls, disturbed>>

SampleSent(t) ==
  /\ Goto(t, "sample_sent", "read")
  /\ ec_reg' = [ec_reg EXCEPT ![t] = @ - cmds_sent_ok]
  /\ UNCHANGED <<cmds_received, cmds_sent_ok, current_camera_state,
                 error_task_alive, ec_new, calls, disturbed>>

(* new_state = current_camera_state *)
ReadState(t) ==
  /\ Goto(t, "read", "switch")
  /\ ec_new' = [ec_new EXCEPT ![t] = current_camera_state]
  /\ UNCHANGED <<cmds_received, cmds_sent_ok, current_camera_state,
                 error_task_alive, ec_reg, calls, disturbed>>

(* switch (current_camera_state), a second read: a branch that fires sets  *)
(* new_state; when none does, new_state keeps what the first read saw.     *)
Switch(t) ==
  /\ Goto(t, "switch", "commit")
  /\ LET chosen == Decide(current_camera_state, ec_reg[t])
     IN ec_new' = [ec_new EXCEPT
                     ![t] = IF chosen # current_camera_state THEN chosen ELSE @]
  /\ UNCHANGED <<cmds_received, cmds_sent_ok, current_camera_state,
                 error_task_alive, ec_reg, calls, disturbed>>

(* if (new_state != current_camera_state) current_camera_state = new_state *)
(* The test and the store can be one step: a store that the test lets      *)
(* through later writes the same value. The locals of the call go with it. *)
Commit(t) ==
  /\ Goto(t, "commit", "idle")
  /\ current_camera_state' = ec_new[t]
  /\ Forget(t)
  /\ UNCHANGED <<cmds_received, cmds_sent_ok, error_task_alive, calls, disturbed>>

EcStep(t) ==
  \/ Load(t) \/ Store(t) \/ SampleReceived(t) \/ SampleSent(t)
  \/ ReadState(t) \/ Switch(t) \/ Commit(t)

(* error_control_set_camera_state. No task of the firmware calls it. *)
SetCameraState(s) ==
  /\ s # current_camera_state
  /\ current_camera_state' = s
  /\ disturbed' = TRUE
  /\ UNCHANGED <<cmds_received, cmds_sent_ok, error_task_alive, ec_pc, ec_reg,
                 ec_new, calls>>

(* error_control_stop: vTaskDelete wherever the error task is. No task of  *)
(* the firmware calls it.                                                  *)
Stop ==
  /\ error_task_alive
  /\ error_task_alive' = FALSE
  /\ ec_pc' = [ec_pc EXCEPT !["err"] = "idle"]
  /\ disturbed' = TRUE
  /\ Forget("err")
  /\ UNCHANGED <<cmds_received, cmds_sent_ok, current_camera_state, calls>>

(* Everything the module can do, whoever calls it and however often. *)
EcAny ==
  \/ \E t \in EcTask : Enter(t) \/ EcStep(t)
  \/ \E s \in CameraState : SetCameraState(s)
  \/ Stop

EcAnySpec == EcInit /\ [][EcAny]_ecVars

-----------------------------------------------------------------------------
(* An increment that has been asked for and not stored yet. *)
Pending(t) == IF ec_pc[t] \in {"load", "store"} THEN 1 ELSE 0

CmdDiff == cmds_received - cmds_sent_ok

Quiescent == \A t \in EcTask : ~Busy(t)

(* cmds_sent_ok has one writer, the UART task, so no acknowledged command  *)
(* is ever miscounted: the counter lags the calls by the one being stored. *)
SentOkExact == cmds_sent_ok + Pending("uart") = calls["uart"]

(* cmds_received has two writers and its ++ is not atomic. It can lose     *)
(* increments, never invent one; and it is exact as long as the error task *)
(* has not used it.                                                        *)
ReceivedNeverOvercounts ==
  /\ cmds_received + Pending("ws") + Pending("err") <= calls["ws"] + calls["err"]
  /\ calls["err"] = 0 => cmds_received + Pending("ws") = calls["ws"]

(* When the last call ran undisturbed, the camera state it left answers    *)
(* the counters as evaluate_camera_state intends.                          *)
SerialCallsSettle ==
  Quiescent /\ ~disturbed => Settled(current_camera_state, CmdDiff)

(* And on the way there it makes no move but the policy's own, for the     *)
(* counters as they are when it moves: SUSPENDED is left for DEGRADED,     *)
(* never at once for NORMAL, and only at RESTORE or below; it is entered   *)
(* only at SUSPEND or above.                                               *)
SerialCallsDecide ==
  [][~disturbed' /\ current_camera_state' # current_camera_state =>
       /\ current_camera_state' = Decide(current_camera_state, CmdDiff)
       /\ current_camera_state = "SUSPENDED" =>
            current_camera_state' = "DEGRADED" /\ CmdDiff <= RESTORE
       /\ current_camera_state' = "NORMAL" => CmdDiff <= RESTORE
       /\ current_camera_state' = "SUSPENDED" => CmdDiff >= SUSPEND]_ecVars

=============================================================================
