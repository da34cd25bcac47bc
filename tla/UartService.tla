----------------------------- MODULE UartService -----------------------------
(***************************************************************************)
(* UartLink with a record of what became of each command, to compare it    *)
(* with CommandService: the promise that CommandPath keeps with reads that *)
(* may parse to anything is kept down to the cells of the serial line.     *)
(***************************************************************************)
EXTENDS UartLink

VARIABLE fate    (* history: what became of each command                   *)

Settle(c, f) == fate' = [fate EXCEPT ![c] = f]

RecordInit == Init /\ fate = [c \in Cmd |-> "none"]

RecordNext ==
  \/ WsQueue /\ Settle(arrived', "accepted")
  \/ UartAck /\ Settle(command, "acked")
  \/ UartGiveUp /\ Settle(command, "failed")
  \/ /\ \/ WsStop \/ UartEvent \/ UartTake \/ UartDrop \/ UartSend \/ UartRetry
        \/ \E r \in {"ACK", "INVALID", "NONE"} : CiaaAnswer(r)
        \/ CiaaReady \/ Burst
     /\ UNCHANGED fate

RecordSpec == RecordInit /\ [][RecordNext]_<<vars, fate>>

-----------------------------------------------------------------------------
(* The queue is not bounded here: it holds whatever has arrived.           *)
Waiting == [k \in 1..(arrived - taken) |-> taken + k]

(* Transmissions of the command in flight. *)
Tries == IF uart_pc = "await" THEN i + 1 ELSE i

Service == INSTANCE CommandService
             WITH offered <- arrived, backlog <- Waiting, serving <- command,
                  tries <- Tries, Capacity <- MaxCmds, MaxTries <- LastTry + 1

(* Whatever is cut in two, late or lost on the line, each command is taken *)
(* in its turn, transmitted once at least and LastTry + 1 times at most,   *)
(* and given up only after the last of these.                              *)
LinkServes == Service!Safety

=============================================================================
