--------------------------- MODULE MCErrorControl ---------------------------
(* Call budgets for the runs of ErrorControlCalls. *)
EXTENDS ErrorControlCalls

Budget(ws, uart, err) ==
  [t \in EcTask |-> CASE t = "ws" -> ws [] t = "uart" -> uart [] t = "err" -> err]

BurstBesideDrop == Budget(4, 2, 1)
TwoCommands     == Budget(2, 1, 0)

AllStates == CameraState
=============================================================================
