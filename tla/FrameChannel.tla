----------------------------- MODULE FrameChannel -----------------------------
(***************************************************************************)
(* What cam_task promises to the server, without buffers, lock, stream and *)
(* tasks: a channel that holds the newest frame only. A part is of the     *)
(* frame that was the newest when it was begun, newer than every part      *)
(* before; and it is whole unless two frames were begun meanwhile.         *)
(***************************************************************************)
EXTENDS Integers, Sequences

VARIABLES
  begun,      (* the newest frame whose store has begun                    *)
  newest,     (* the newest frame published, 0 when there is none          *)
  sending,    (* the frame of the part in progress, 0 when there is none   *)
  parts       (* the parts sent: their frames, and whether they are whole  *)

vars == <<begun, newest, sending, parts>>

Init == begun = 0 /\ newest = 0 /\ sending = 0 /\ parts = <<>>

Begin ==
  /\ begun = newest
  /\ begun' = begun + 1
  /\ UNCHANGED <<newest, sending, parts>>

Publish ==
  /\ begun = newest + 1
  /\ newest' = begun
  /\ UNCHANGED <<begun, sending, parts>>

Pick ==
  /\ sending = 0
  /\ newest # 0
  /\ \A j \in 1..Len(parts) : parts[j].seq < newest
  /\ sending' = newest
  /\ UNCHANGED <<begun, newest, parts>>

(* The stream fails; the frame may be picked again. *)
Abandon ==
  /\ sending # 0
  /\ sending' = 0
  /\ UNCHANGED <<begun, newest, parts>>

Deliver(whole) ==
  /\ sending # 0
  /\ whole \/ begun > sending + 1
  /\ parts' = Append(parts, [seq |-> sending, whole |-> whole])
  /\ sending' = 0
  /\ UNCHANGED <<begun, newest>>

Next == Begin \/ Publish \/ Pick \/ Abandon \/ \E whole \in BOOLEAN : Deliver(whole)

Spec == Init /\ [][Next]_vars

-----------------------------------------------------------------------------
(* A part that mixes two frames was two behind the camera when it ended,   *)
(* at least: the server never gets a torn picture of the newest frame.     *)
TornWereLapped ==
  \A j \in 1..Len(parts) : ~parts[j].whole => begun > parts[j].seq + 1

=============================================================================
