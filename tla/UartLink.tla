------------------------------- MODULE UartLink -------------------------------
(***************************************************************************)
(* The serial line below CommandPath: task_uart and ready_handler read up  *)
(* to RESPONSE_LEN bytes at a time, wherever messages begin and end, one   *)
(* read for each event the driver posts; the motor controller (CIAA) and   *)
(* the driver are external. A message is Body cells, the last of them its  *)
(* 'E', and Eol cells of CR and LF. Its identifier is left out: parse_data *)
(* returns it and nobody compares it.                                      *)
(***************************************************************************)
EXTENDS Integers, Sequences

CONSTANTS
  MaxCmds,     (* bound: commands queued                                   *)
  MaxStops,    (* bound: disconnections that write a STOP                  *)
  LastTry,     (* the 3 of "i <= 3" and "i < 3" in ready_handler           *)
  Body, Eol,   (* length of a message: 7 to 11 bytes, and 0 to 2           *)
  ReadLen,     (* RESPONSE_LEN (13)                                        *)
  QueueSize,   (* QUEUE_SIZE (10): events the driver can post              *)
  Room         (* bound: cells on their way for which READY is announced   *)

MsgLen == Body + Eol

(* A read has room for any message, and never for two of them.             *)
ASSUME LinkAssumption ==
  /\ MaxCmds \in Nat /\ MaxStops \in Nat /\ LastTry \in Nat /\ Room \in Nat
  /\ Body \in Nat \ {0} /\ Eol \in Nat /\ ReadLen \in Nat
  /\ QueueSize \in Nat \ {0}
  /\ MsgLen <= ReadLen /\ ReadLen < MsgLen + Body

VARIABLES
  arrived, taken,  (* commands put in cmd_queue, and taken out of it       *)
  uart_pc, command, i,    (* task_uart and ready_handler                   *)
  tx,              (* written, not received by the CIAA: 0 is the STOP     *)
  line,            (* cells the CIAA has sent and the driver not received  *)
  rx, uart_queue,  (* the driver's bytes, and the number of its events     *)
  stops,           (* STOPs written                                        *)
  calm,            (* the CIAA leaves time between READYs; never changes   *)
  confirmed,       (* history: the CIAA has acknowledged the command in    *)
                   (* flight                                               *)
  stray,           (* history: when that was taken, something older was    *)
                   (* still to be answered, or a STOP was written since    *)
  missed           (* history: since then a read has ended with an answer  *)
                   (* still on its way, or was no single message           *)

taskVars == <<taken, uart_pc, command, i>>
histVars == <<confirmed, stray, missed>>
vars     == <<arrived, taskVars, tx, line, rx, uart_queue, stops, calm, histVars>>

Cmd      == 1..MaxCmds
Response == {"ACK", "READY", "INVALID"}
Cell     == Response \X (1..MsgLen)

TypeOK ==
  /\ arrived \in 0..MaxCmds
  /\ taken \in 0..arrived
  /\ uart_pc \in {"wait", "read", "send", "await"}
  /\ command \in {0, taken}
  /\ i \in 0..LastTry
  /\ tx \in Seq(0..MaxCmds)
  /\ line \in Seq(Cell) /\ rx \in Seq(Cell)
  /\ uart_queue \in 0..QueueSize
  /\ stops \in 0..MaxStops
  /\ calm \in BOOLEAN
  /\ confirmed \in BOOLEAN /\ stray \in BOOLEAN /\ missed \in BOOLEAN

Init ==
  /\ arrived = 0 /\ taken = 0
  /\ uart_pc = "wait" /\ command = 0 /\ i = 0
  /\ tx = <<>> /\ line = <<>> /\ rx = <<>> /\ uart_queue = 0
  /\ stops = 0
  /\ calm \in BOOLEAN
  /\ confirmed = FALSE /\ stray = FALSE /\ missed = FALSE

-----------------------------------------------------------------------------
(* uart_read_bytes returns ReadLen bytes, or what there is at its timeout. *)
ReadCount == IF Len(rx) < ReadLen THEN Len(rx) ELSE ReadLen

Got  == SubSeq(rx, 1, ReadCount)
Rest == SubSeq(rx, ReadCount + 1, Len(rx))

(* The bytes of one message, with or without all of its line ending.       *)
Whole(got) == Len(got) \in Body..MsgLen /\ got[1][2] = 1

(* Mutants: the line ending is not stripped; the start is not looked at.   *)
ParseStrict(got) == IF Len(got) = Body /\ got[1][2] = 1 THEN got[1][1] ELSE "NONE"

(* parse_data: the response of what was read, "NONE" for its -1.           *)
Parse(got) == IF Whole(got) THEN got[1][1] ELSE "NONE"

(* Mutants: any response is taken for an acknowledgment; the answer to the *)
(* first attempt is discarded as a stale one.                              *)
AcksAny(got) == Parse(got) # "NONE"
AcksLater(got) == i > 0 /\ Parse(got) = "ACK"

Acks(got) == Parse(got) = "ACK"

AckIn(cells) == \E k \in 1..Len(cells) : cells[k] = <<"ACK", 1>>

(* Something written has not been answered, or its acknowledgment has not  *)
(* been read.                                                              *)
Owed(cells) == tx # <<>> \/ AckIn(line) \/ AckIn(cells)

Missed == missed \/ Owed(Rest) \/ (Got # <<>> /\ ~Whole(Got))

-----------------------------------------------------------------------------
(* The WebSocket handler queues a command, or writes the STOP of a         *)
(* disconnection past the UART task.                                       *)
WsQueue ==
  /\ arrived < MaxCmds
  /\ arrived' = arrived + 1
  /\ UNCHANGED <<taskVars, tx, line, rx, uart_queue, stops, calm, histVars>>

WsStop ==
  /\ stops < MaxStops
  /\ stops' = stops + 1
  /\ tx' = Append(tx, 0)
  /\ stray' = (command # 0)
  /\ UNCHANGED <<arrived, taskVars, line, rx, uart_queue, calm, confirmed,
                 missed>>

(* task_uart: an event, and one read for it.                               *)
UartEvent ==
  /\ uart_pc = "wait"
  /\ uart_queue > 0
  /\ uart_queue' = uart_queue - 1
  /\ uart_pc' = "read"
  /\ UNCHANGED <<arrived, taken, command, i, tx, line, rx, stops, calm, histVars>>

(* READY with a command queued: ready_handler takes it. *)
UartTake ==
  /\ uart_pc = "read"
  /\ Parse(Got) = "READY"
  /\ taken < arrived
  /\ rx' = Rest
  /\ taken' = taken + 1
  /\ command' = taken + 1
  /\ i' = 0
  /\ uart_pc' = "send"
  /\ stray' = Owed(Rest)
  /\ UNCHANGED <<arrived, tx, line, uart_queue, stops, calm, confirmed, missed>>

(* Anything else is dropped, or reported (CommandPath!UartComplaint).      *)
UartDrop ==
  /\ uart_pc = "read"
  /\ Parse(Got) # "READY" \/ taken = arrived
  /\ rx' = Rest
  /\ uart_pc' = "wait"
  /\ UNCHANGED <<arrived, taken, command, i, tx, line, uart_queue, stops, calm,
                 histVars>>

UartSend ==
  /\ uart_pc = "send"
  /\ tx' = Append(tx, command)
  /\ uart_pc' = "await"
  /\ UNCHANGED <<arrived, taken, command, i, line, rx, uart_queue, stops, calm,
                 histVars>>

(* ready_handler returns. *)
Return ==
  /\ uart_pc' = "wait"
  /\ command' = 0
  /\ i' = 0
  /\ confirmed' = FALSE /\ stray' = FALSE /\ missed' = FALSE

(* The read of ACK_AWAIT_MS after each transmission. *)
UartAck ==
  /\ uart_pc = "await"
  /\ Acks(Got)
  /\ rx' = Rest
  /\ Return
  /\ UNCHANGED <<arrived, taken, tx, line, uart_queue, stops, calm>>

(* Mutant: one attempt too many. *)
RetriesLate == i <= LastTry

Retries == i < LastTry

UartRetry ==
  /\ uart_pc = "await"
  /\ ~Acks(Got)
  /\ Retries
  /\ rx' = Rest
  /\ missed' = Missed
  /\ i' = i + 1
  /\ uart_pc' = "send"
  /\ UNCHANGED <<arrived, taken, command, tx, line, uart_queue, stops, calm,
                 confirmed, stray>>

UartGiveUp ==
  /\ uart_pc = "await"
  /\ ~Acks(Got)
  /\ ~Retries
  /\ rx' = Rest
  /\ Return
  /\ UNCHANGED <<arrived, taken, tx, line, uart_queue, stops, calm>>

-----------------------------------------------------------------------------
Cells(r) == [k \in 1..MsgLen |-> <<r, k>>]

(* The CIAA receives a command and answers it, or does neither: "NONE".    *)
CiaaAnswer(r) ==
  /\ tx # <<>>
  /\ tx' = Tail(tx)
  /\ line' = IF r = "NONE" THEN line ELSE line \o Cells(r)
  /\ confirmed' = (confirmed \/ (r = "ACK" /\ command # 0 /\ Head(tx) = command))
  /\ UNCHANGED <<arrived, taskVars, rx, uart_queue, stops, calm, stray, missed>>

(* Nothing comes in and the UART task has no event to read for.            *)
Idle == line = <<>> /\ uart_pc = "wait" /\ uart_queue = 0

(* A calm CIAA does not announce READY again while the last announcement   *)
(* is on its way or being read. The bound does not silence it for good.    *)
CiaaReady ==
  /\ Len(line) + Len(rx) <= Room \/ Idle
  /\ calm => Idle \/ (line = <<>> /\ command # 0)
  /\ line' = line \o Cells("READY")
  /\ UNCHANGED <<arrived, taskVars, tx, rx, uart_queue, stops, calm, histVars>>

(* The driver receives a burst of k cells and posts an event for it, which *)
(* a full queue drops.                                                     *)
Receive(k) ==
  /\ calm => k = Len(line)
  /\ rx' = rx \o SubSeq(line, 1, k)
  /\ line' = SubSeq(line, k + 1, Len(line))
  /\ uart_queue' = IF uart_queue < QueueSize THEN uart_queue + 1 ELSE uart_queue
  /\ UNCHANGED <<arrived, taskVars, tx, stops, calm, histVars>>

-----------------------------------------------------------------------------
UartStep == UartEvent \/ UartTake \/ UartDrop \/ UartSend
              \/ UartAck \/ UartRetry \/ UartGiveUp

Burst == \E k \in 1..Len(line) : Receive(k)

Next ==
  \/ WsQueue \/ WsStop
  \/ UartStep
  \/ \E r \in {"ACK", "INVALID", "NONE"} : CiaaAnswer(r)
  \/ CiaaReady \/ Burst

Spec == Init /\ [][Next]_vars

(* The UART task runs, its reads time out, bytes arrive, and the CIAA goes *)
(* on announcing READY.                                                    *)
FairSpec == Spec /\ WF_vars(UartStep) /\ WF_vars(Burst) /\ WF_vars(CiaaReady)

-----------------------------------------------------------------------------
(* A command counted as sent was acknowledged by the CIAA, if nothing      *)
(* older was still to be answered when it was taken and no STOP was        *)
(* written past it. However late its own answers come, and whatever the    *)
(* reads cut in two.                                                       *)
AckIsGenuine ==
  [][UartAck /\ ~stray => confirmed]_vars

(* A command given up was not acknowledged, if each of its reads took one  *)
(* message or nothing and left no answer on its way.                       *)
FailureIsGenuine ==
  [][UartGiveUp /\ ~Missed => ~confirmed]_vars

(* Whatever was lost or cut in two before, the reads find the beginning of *)
(* a message again: with a CIAA that goes on announcing READY and leaves   *)
(* time between, every command is taken.                                   *)
CommandsGetTaken ==
  \A c \in Cmd : calm /\ arrived >= c ~> taken >= c

-----------------------------------------------------------------------------
(* A statement of a log that the code refutes: "ACK received for command". *)
AckedWasConfirmed ==
  [][UartAck => confirmed]_vars

=============================================================================
