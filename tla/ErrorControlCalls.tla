-------------------------- MODULE ErrorControlCalls --------------------------
(***************************************************************************)
(* ErrorControl on its own: the three tasks call it in any interleaving,   *)
(* each a bounded number of times, and the two functions no task of the    *)
(* firmware calls may be used as well.                                     *)
(***************************************************************************)
EXTENDS ErrorControl

CONSTANTS
  MaxCalls,      (* bound: calls each task makes, a function on EcTask     *)
  ManualStates,  (* states error_control_set_camera_state is called with   *)
  MayStop        (* whether error_control_stop may be called               *)

ASSUME EcAssumption ==
  /\ MaxCalls \in [EcTask -> Nat]
  /\ ManualStates \subseteq CameraState
  /\ MayStop \in BOOLEAN

EcNext ==
  \/ \E t \in EcTask : calls[t] < MaxCalls[t] /\ Enter(t)
  \/ \E t \in EcTask : EcStep(t)
  \/ \E s \in ManualStates : SetCameraState(s)
  \/ MayStop /\ Stop

EcSpec == EcInit /\ [][EcNext]_ecVars

-----------------------------------------------------------------------------
(* A property the documents state and the interleavings refute.            *)

(* docs/error_control.md, the table of conditions and resulting states,    *)
(* read at rest: whoever finished last, the state answers the counters.    *)
RestingStateSettled ==
  Quiescent => Settled(current_camera_state, CmdDiff)

=============================================================================
