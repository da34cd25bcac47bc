--------------------------- MODULE DifferenceProofs ---------------------------
(***************************************************************************)
(* What the difference cmds_received - cmds_sent_ok is worth, for every    *)
(* queue length, number of attempts and threshold triple: it never exceeds *)
(* the commands waiting and lost, and a suspended camera has that many.    *)
(* The argument is a tally: each call of error_control is matched with the *)
(* fate of one command.                                                    *)
(***************************************************************************)
EXTENDS CommandPathProofs, FiniteSetTheorems

Refusal == "SEND_CMD_QUEUE_ERROR"

(* Where a queue of errors holds a refusal, and how many refusals are on   *)
(* their way to being counted.                                             *)
Marks(q) == {k \in 1..Len(q) : q[k] = Refusal}

One(b) == IF b THEN 1 ELSE 0

OnTheirWay ==
  Cardinality(Marks(to_error_queue)) + One(received_error = Refusal)
    + One(ws_pc = "report" /\ websocket_handler_error = Refusal)

(* Each acknowledgment counted is of one command; each command accepted is *)
(* waiting, acknowledged or failed; each refusal counted, or yet to be, is *)
(* of one command refused; and no command younger than Offered has a fate. *)
TallyInv ==
  /\ Lost("acked") = calls["uart"]
  /\ Backlog + Lost("acked") + Lost("failed") = calls["ws"]
  /\ calls["err"] + OnTheirWay <= Lost("refused")
  /\ \A c \in Cmd : c > Offered => fate[c] = "none"

-----------------------------------------------------------------------------
(* Counting. *)

LEMMA LostIsNat ==
  ASSUME NEW f
  PROVE  IsFiniteSet({c \in Cmd : fate[c] = f}) /\ Lost(f) \in Nat
<1>1. IsFiniteSet(Cmd)
  BY PathAssumption, FS_Interval DEF Cmd
<1>2. {c \in Cmd : fate[c] = f} \in SUBSET Cmd
  OBVIOUS
<1>3. IsFiniteSet({c \in Cmd : fate[c] = f})
  BY <1>1, <1>2, FS_Subset
<1> QED
  BY <1>3, FS_CardinalityType DEF Lost

(* A command whose fate is settled is counted once more under it, and      *)
(* nothing else changes but the count of what it was before.               *)
LEMMA SettleCounts ==
  ASSUME RestOK, NEW c \in Cmd, NEW f \in Fate, fate[c] # f, Settle(c, f)
  PROVE  /\ Lost(f)' = Lost(f) + 1
         /\ \A g \in Fate \ {f, fate[c]} : Lost(g)' = Lost(g)
<1> DEFINE before == {d \in Cmd : fate[d] = f}
           after  == {d \in Cmd : fate'[d] = f}
<1>1. after = before \cup {c} /\ c \notin before
  BY DEF Settle, RestOK
<1>2. IsFiniteSet(before) /\ Lost(f) = Cardinality(before) /\ Lost(f)' = Cardinality(after)
  BY LostIsNat DEF Lost
<1>3. Lost(f)' = Lost(f) + 1
  <2> HIDE DEF before, after
  <2> QED
    BY <1>1, <1>2, FS_AddElement
<1>4. ASSUME NEW g \in Fate \ {f, fate[c]}
      PROVE  {d \in Cmd : fate'[d] = g} = {d \in Cmd : fate[d] = g}
  BY <1>4 DEF Settle, RestOK
<1> QED
  BY <1>3, <1>4 DEF Lost

LEMMA MarksFinite ==
  ASSUME NEW q \in Seq(RoverError)
  PROVE  IsFiniteSet(Marks(q)) /\ Cardinality(Marks(q)) \in Nat
<1>1. IsFiniteSet(1..Len(q)) /\ Marks(q) \in SUBSET (1..Len(q))
  BY FS_Interval DEF Marks
<1>2. IsFiniteSet(Marks(q))
  BY <1>1, FS_Subset
<1> QED
  BY <1>2, FS_CardinalityType

LEMMA MarksAppend ==
  ASSUME NEW q \in Seq(RoverError), NEW e \in RoverError
  PROVE  Cardinality(Marks(Append(q, e))) = Cardinality(Marks(q)) + One(e = Refusal)
<1>1. /\ Len(Append(q, e)) = Len(q) + 1
      /\ \A k \in 1..Len(q) : Append(q, e)[k] = q[k]
      /\ Append(q, e)[Len(q) + 1] = e
  OBVIOUS
<1>2. CASE e = Refusal
  <2>1. Marks(Append(q, e)) = Marks(q) \cup {Len(q) + 1} /\ Len(q) + 1 \notin Marks(q)
    BY <1>1, <1>2 DEF Marks
  <2> QED
    BY <1>2, <2>1, MarksFinite, FS_AddElement DEF One
<1>3. CASE e # Refusal
  <2>1. Marks(Append(q, e)) = Marks(q)
    BY <1>1, <1>3 DEF Marks
  <2> QED
    BY <1>3, <2>1, MarksFinite DEF One
<1> QED
  BY <1>2, <1>3

LEMMA MarksTail ==
  ASSUME NEW q \in Seq(RoverError), q # <<>>
  PROVE  Cardinality(Marks(Tail(q))) + One(Head(q) = Refusal) = Cardinality(Marks(q))
<1> DEFINE T == Marks(Tail(q))
           R == Marks(q) \ {1}
           shift == [k \in T |-> k + 1]
<1>1. /\ Tail(q) \in Seq(RoverError) /\ Len(Tail(q)) = Len(q) - 1 /\ Len(q) > 0
      /\ \A k \in 1..Len(Tail(q)) : Tail(q)[k] = q[k + 1]
      /\ Head(q) = q[1]
  OBVIOUS
<1>2. IsFiniteSet(T) /\ Cardinality(T) \in Nat /\ IsFiniteSet(Marks(q))
      /\ Cardinality(Marks(q)) \in Nat
  BY <1>1, MarksFinite
<1>3. Cardinality(R) = Cardinality(T)
  <2>1. \A k \in T : k \in Int /\ k + 1 \in R
    BY <1>1 DEF Marks
  <2>2. \A k \in R : k - 1 \in T /\ (k - 1) + 1 = k
    BY <1>1 DEF Marks
  <2>3. shift \in [T -> R]
    BY <2>1
  <2>4. \A j, k \in T : shift[j] = shift[k] => j = k
    BY <2>1
  <2>5. \A k \in R : \E j \in T : shift[j] = k
    BY <2>2
  <2> HIDE DEF T, R, shift
  <2>6. shift \in Bijection(T, R)
    BY <2>3, <2>4, <2>5 DEF Bijection, Injection, Surjection, IsInjective
  <2>7. ExistsBijection(T, R) /\ IsFiniteSet(T)
    BY <1>2, <2>6 DEF ExistsBijection
  <2> QED
    BY <2>7, FS_Bijection
<1>4. Cardinality(R) = Cardinality(Marks(q)) - One(Head(q) = Refusal)
  <2>1. 1 \in Marks(q) <=> Head(q) = Refusal
    BY <1>1 DEF Marks
  <2>2. Cardinality(R) = IF 1 \in Marks(q) THEN Cardinality(Marks(q)) - 1
                                           ELSE Cardinality(Marks(q))
    BY <1>2, FS_RemoveElement
  <2> QED
    BY <1>2, <2>1, <2>2 DEF One
<1>5. One(Head(q) = Refusal) \in Nat
  BY DEF One
<1> QED
  BY <1>2, <1>3, <1>4, <1>5

(* A report adds at most itself. *)
LEMMA PostMarks ==
  ASSUME to_error_queue \in Seq(RoverError), NEW e \in RoverError, Post(e)
  PROVE  Cardinality(Marks(to_error_queue'))
           <= Cardinality(Marks(to_error_queue)) + One(e = Refusal)
<1>1. Cardinality(Marks(to_error_queue)) \in Nat /\ One(e = Refusal) \in Nat
  BY MarksFinite DEF One
<1> QED
  BY <1>1, MarksAppend DEF Post

-----------------------------------------------------------------------------
(* The tally, step by step. *)

PathFacts == PathInv /\ EcTypeOK /\ OrderInv /\ Ledger

LEMMA TallyFacts ==
  ASSUME PathFacts
  PROVE  /\ Lost("acked") \in Nat /\ Lost("failed") \in Nat /\ Lost("refused") \in Nat
         /\ calls["ws"] \in Nat /\ calls["uart"] \in Nat /\ calls["err"] \in Nat
         /\ Cardinality(Marks(to_error_queue)) \in Nat
         /\ Len(cmd_queue) \in Nat /\ Backlog \in Nat
         /\ \A b \in BOOLEAN : One(b) \in Nat
<1>1. /\ cmd_queue \in Seq(Cmd) /\ to_error_queue \in Seq(RoverError)
      /\ calls \in [EcTask -> Nat]
  BY DEF PathFacts, PathInv, QueuesOK, EcTypeOK
<1>2. Len(cmd_queue) \in Nat
  BY <1>1
<1>3. Cardinality(Marks(to_error_queue)) \in Nat
  BY <1>1, MarksFinite
<1>4. calls["ws"] \in Nat /\ calls["uart"] \in Nat /\ calls["err"] \in Nat
  BY <1>1 DEF EcTask
<1>5. Backlog \in Nat /\ \A b \in BOOLEAN : One(b) \in Nat
  BY <1>2 DEF Backlog, One
<1> QED
  BY <1>2, <1>3, <1>4, <1>5, LostIsNat

(* The fate of a command in hand, before it is settled. *)
LEMMA InHand ==
  ASSUME PathFacts, TallyInv
  PROVE  /\ ws_pc = "enqueue" => arrived \in Cmd /\ fate[arrived] = "none"
         /\ InFlight => command \in Cmd /\ fate[command] = "accepted"
<1>1. ASSUME ws_pc = "enqueue"
      PROVE  arrived \in Cmd /\ fate[arrived] = "none"
  <2>1. arrived \in Cmd /\ arrived > Offered
    BY <1>1, PathAssumption DEF PathFacts, PathInv, WsOK, Cmd, Offered
  <2> QED
    BY <2>1 DEF TallyInv
<1>2. ASSUME InFlight
      PROVE  command \in Cmd /\ fate[command] = "accepted"
  <2>1. command \in Accepted
    BY <1>2 DEF PathFacts, Ledger, Serving
  <2> QED
    BY <2>1 DEF Accepted
<1> QED
  BY <1>1, <1>2

LEMMA YoungNext ==
  ASSUME PathFacts, TallyInv, [CpNext]_pathVars
  PROVE  \A c \in Cmd : c > Offered' => fate'[c] = "none"
<1> USE PathAssumption DEF PathFacts, PathInv
<1>0. \A c \in Cmd : c > Offered => fate[c] = "none"
  BY DEF TallyInv
<1>1. CASE WsEnqueue \/ WsTimeout
  <2>1. /\ Offered = arrived - 1 /\ Offered' = arrived
        /\ fate' = [fate EXCEPT ![arrived] = fate'[arrived]]
    BY <1>1 DEF WsEnqueue, WsTimeout, Settle, Offered, RestOK, WsOK
  <2> QED
    BY <1>0, <2>1 DEF RestOK, WsOK, Cmd
<1>2. CASE UartAck \/ UartGiveUp
  <2>1. /\ UNCHANGED Offered /\ InFlight
        /\ fate' = [fate EXCEPT ![command] = fate'[command]]
    BY <1>2 DEF UartAck, UartGiveUp, Settle, wsVars, Offered, InFlight, RestOK
  <2>2. fate[command] = "accepted"
    BY <2>1, InHand
  <2> QED
    BY <1>0, <2>1, <2>2 DEF RestOK
<1>3. CASE WsCommand
  BY <1>0, <1>3 DEF WsCommand, WsIdle, Offered, WsOK, Cmd
<1>4. CASE UNCHANGED <<arrived, fate>> /\ (ws_pc = "enqueue" <=> ws_pc' = "enqueue")
  BY <1>0, <1>4 DEF Offered
<1>5. CASE WsReport \/ WsStop \/ WsConnect \/ WsDisconnect
             \/ \E e \in Provoked : WsBadFrame(e)
  BY <1>4, <1>5 DEF WsReport, WsStop, WsConnect, WsDisconnect, WsBadFrame, WsIdle
<1>6. CASE UartReady \/ UartSend \/ UartRetry \/ ErrStep \/ WebSend
             \/ (\E t \in EcTask : EcTaskStep(t)) \/ UNCHANGED pathVars
             \/ \E e \in Provoked : UartComplaint(e) \/ CameraReport(e)
  BY <1>4, <1>6 DEF UartReady, UartSend, UartRetry, ErrStep, ErrReceive, ErrProcess,
     WebSend, EcTaskStep, UartComplaint, CameraReport, wsVars, cpVars, pathVars
<1> QED
  BY <1>1, <1>2, <1>3, <1>5, <1>6
     DEF CpNext, WsStep, UartStep, ErrStep, Environment, EcTask

LEMMA CommandsNext ==
  ASSUME PathFacts, TallyInv, [CpNext]_pathVars
  PROVE  /\ Lost("acked")' = calls'["uart"]
         /\ Backlog' + Lost("acked")' + Lost("failed")' = calls'["ws"]
<1>0. RestOK /\ calls \in [EcTask -> Nat] /\ cmd_queue \in Seq(Cmd)
  BY DEF PathFacts, PathInv, QueuesOK, EcTypeOK
<1>00. /\ Lost("acked") = calls["uart"]
       /\ Backlog + Lost("acked") + Lost("failed") = calls["ws"]
  BY DEF TallyInv
<1>1. CASE WsEnqueue
  <2>1. arrived \in Cmd /\ fate[arrived] = "none" /\ Settle(arrived, "accepted")
    BY <1>1, InHand DEF WsEnqueue
  <2>2. Lost("acked")' = Lost("acked") /\ Lost("failed")' = Lost("failed")
    BY <1>0, <2>1, SettleCounts DEF Fate
  <2>3. calls' = [calls EXCEPT !["ws"] = @ + 1]
    BY <1>1 DEF WsEnqueue, Enter
  <2>4. Backlog' = Backlog + 1
    BY <1>0, <1>1, <2>1 DEF WsEnqueue, uartVars, Backlog, InFlight
  <2> QED
    BY <1>0, <1>00, <2>2, <2>3, <2>4, TallyFacts DEF EcTask
<1>2. CASE WsTimeout
  <2>1. arrived \in Cmd /\ fate[arrived] = "none" /\ Settle(arrived, "refused")
    BY <1>2, InHand DEF WsTimeout
  <2>2. Lost("acked")' = Lost("acked") /\ Lost("failed")' = Lost("failed")
    BY <1>0, <2>1, SettleCounts DEF Fate
  <2> QED
    BY <1>00, <1>2, <2>2 DEF WsTimeout, uartVars, ecVars, Backlog, InFlight
<1>3. CASE UartAck \/ UartGiveUp
  <2>1. command \in Cmd /\ fate[command] = "accepted"
    BY <1>3, InHand DEF UartAck, UartGiveUp, InFlight
  <2>2. Backlog' = Backlog - 1
    BY <1>3, TallyFacts DEF UartAck, UartGiveUp, Return, Backlog, InFlight
  <2>3. CASE UartAck
    <3>1. Lost("acked")' = Lost("acked") + 1 /\ Lost("failed")' = Lost("failed")
      BY <1>0, <2>1, <2>3, SettleCounts DEF UartAck, Fate
    <3>2. calls' = [calls EXCEPT !["uart"] = @ + 1]
      BY <2>3 DEF UartAck, Enter
    <3> QED
      BY <1>0, <1>00, <2>2, <3>1, <3>2, TallyFacts DEF EcTask
  <2>4. CASE UartGiveUp
    <3>1. Lost("failed")' = Lost("failed") + 1 /\ Lost("acked")' = Lost("acked")
      BY <1>0, <2>1, <2>4, SettleCounts DEF UartGiveUp, Fate
    <3> QED
      BY <1>00, <2>2, <2>4, <3>1, TallyFacts DEF UartGiveUp, ecVars
  <2> QED
    BY <1>3, <2>3, <2>4
<1>4. CASE UartReady
  <2>1. Len(cmd_queue') = Len(cmd_queue) - 1 /\ ~InFlight /\ InFlight'
    BY <1>0, <1>4 DEF UartReady, UartIdle, InFlight
  <2> QED
    BY <1>00, <1>4, <2>1, TallyFacts DEF UartReady, Backlog, ecVars, Lost
<1>5. CASE /\ UNCHANGED <<cmd_queue, InFlight, fate>>
           /\ calls' = calls \/ calls' = [calls EXCEPT !["err"] = @ + 1]
  <2>1. calls'["ws"] = calls["ws"] /\ calls'["uart"] = calls["uart"]
    BY <1>0, <1>5 DEF EcTask
  <2> QED
    BY <1>00, <1>5, <2>1 DEF Backlog, Lost
<1>6. CASE UartSend \/ UartRetry
  BY <1>5, <1>6 DEF UartSend, UartRetry, InFlight, ecVars
<1>7. CASE ErrStep \/ \E t \in EcTask : EcTaskStep(t)
  BY <1>5, <1>7 DEF ErrStep, ErrReceive, ErrProcess, Enter, EcTaskStep, EcStep, Load,
     Store, SampleReceived, SampleSent, ReadState, Switch, Commit, uartVars, InFlight,
     cpVars, ecVars
<1>8. CASE WsReport \/ WsStop \/ WebSend \/ Environment \/ UNCHANGED pathVars
  BY <1>5, <1>8 DEF WsReport, WsStop, WebSend, Environment, WsConnect, WsCommand,
     WsDisconnect, WsBadFrame, UartComplaint, CameraReport, uartVars, InFlight, cpVars,
     pathVars, ecVars
<1> QED
  BY <1>1, <1>2, <1>3, <1>4, <1>6, <1>7, <1>8
     DEF CpNext, WsStep, UartStep, EcTask, ErrStep

LEMMA RefusalsNext ==
  ASSUME PathFacts, TallyInv, [CpNext]_pathVars
  PROVE  (calls["err"] + OnTheirWay <= Lost("refused"))'
<1>0. /\ RestOK /\ WsOK /\ calls \in [EcTask -> Nat]
      /\ to_error_queue \in Seq(RoverError)
      /\ calls["err"] + OnTheirWay <= Lost("refused")
  BY DEF PathFacts, PathInv, QueuesOK, EcTypeOK, TallyInv
<1> DEFINE queued == Cardinality(Marks(to_error_queue))
           held   == One(received_error = Refusal)
           making == One(ws_pc = "report" /\ websocket_handler_error = Refusal)
           same   == calls'["err"] = calls["err"] /\ Lost("refused")' = Lost("refused")
<1>00. /\ queued \in Nat /\ held \in {0, 1} /\ making \in {0, 1}
       /\ queued' \in Nat /\ held' \in {0, 1} /\ making' \in {0, 1}
  <2>1. to_error_queue' \in Seq(RoverError)
    BY QueuesNext DEF PathFacts, PathInv, QueuesOK
  <2> QED
    BY <1>0, <2>1, MarksFinite DEF One
<1>01. /\ OnTheirWay = queued + held + making
       /\ OnTheirWay' = queued' + held' + making'
       /\ calls["err"] \in Nat /\ Lost("refused") \in Nat
  BY TallyFacts DEF OnTheirWay
<1>02. OnTheirWay \in Nat /\ OnTheirWay' \in Nat
  BY <1>00, <1>01
<1>1. CASE WsEnqueue
  <2>1. arrived \in Cmd /\ fate[arrived] = "none" /\ Settle(arrived, "accepted")
    BY <1>1, InHand DEF WsEnqueue
  <2>2. Lost("refused")' = Lost("refused")
    BY <1>0, <2>1, SettleCounts DEF Fate
  <2>3. calls'["err"] = calls["err"]
    BY <1>0, <1>1 DEF WsEnqueue, Enter, EcTask
  <2>4. queued' = queued /\ held' = held /\ making' = making
    BY <1>1 DEF WsEnqueue, One
  <2> QED
    BY <1>0, <2>2, <2>3, <2>4 DEF OnTheirWay
<1>2. CASE WsTimeout
  <2>1. arrived \in Cmd /\ fate[arrived] = "none" /\ Settle(arrived, "refused")
    BY <1>2, InHand DEF WsTimeout
  <2>2. Lost("refused")' = Lost("refused") + 1
    BY <1>0, <2>1, SettleCounts DEF Fate
  <2>3. calls'["err"] = calls["err"]
    BY <1>2 DEF WsTimeout, ecVars
  <2>4. queued' = queued /\ held' = held /\ making = 0 /\ making' = 1
    BY <1>2 DEF WsTimeout, One, Refusal
  <2> QED
    BY <1>0, <1>00, <2>2, <2>3, <2>4, TallyFacts DEF OnTheirWay
<1>3. CASE WsReport
  <2>1. websocket_handler_error \in RoverError /\ Post(websocket_handler_error)
    BY <1>0, <1>3 DEF WsReport, WsOK
  <2>2. queued' <= queued + One(websocket_handler_error = Refusal)
    BY <1>0, <2>1, PostMarks
  <2>3. making = One(websocket_handler_error = Refusal) /\ making' = 0
    BY <1>3 DEF WsReport, One, Refusal, NONE
  <2>4. held' = held /\ same
    BY <1>3 DEF WsReport, ecVars, Lost
  <2>5. queued' + making' <= queued + making
    BY <1>00, <2>2, <2>3
  <2>6. OnTheirWay' <= OnTheirWay
    BY <1>00, <1>01, <2>4, <2>5
  <2> QED
    BY <1>0, <1>01, <1>02, <2>4, <2>6
<1>4. CASE UartAck
  <2>1. command \in Cmd /\ fate[command] = "accepted" /\ Settle(command, "acked")
    BY <1>4, InHand DEF UartAck, InFlight
  <2>2. Lost("refused")' = Lost("refused")
    BY <1>0, <2>1, SettleCounts DEF Fate
  <2>3. calls'["err"] = calls["err"]
    BY <1>0, <1>4 DEF UartAck, Enter, EcTask
  <2>4. queued' = queued /\ held' = held /\ making' = making
    BY <1>4 DEF UartAck, wsVars
  <2> QED
    BY <1>0, <2>2, <2>3, <2>4 DEF OnTheirWay
<1>5. ASSUME NEW e \in RoverError \ {Refusal}, Post(e),
             held' = held, making' = making, same
      PROVE  (calls["err"] + OnTheirWay <= Lost("refused"))'
  <2>1. queued' <= queued + One(e = Refusal) /\ One(e = Refusal) = 0
    BY <1>0, <1>5, PostMarks DEF One
  <2> QED
    BY <1>0, <1>00, <1>5, <2>1, TallyFacts DEF OnTheirWay
<1>6. CASE UartGiveUp
  <2>1. command \in Cmd /\ fate[command] = "accepted" /\ Settle(command, "failed")
    BY <1>6, InHand DEF UartGiveUp, InFlight
  <2>2. same
    BY <1>0, <1>6, <2>1, SettleCounts DEF UartGiveUp, ecVars, Fate
  <2>3. "NO_ACK" \in RoverError \ {Refusal}
    BY DEF RoverError, WarningErrors, Refusal
  <2> QED
    BY <1>5, <1>6, <2>2, <2>3 DEF UartGiveUp, wsVars
<1>7. ASSUME NEW e \in Provoked, UartComplaint(e) \/ CameraReport(e)
      PROVE  (calls["err"] + OnTheirWay <= Lost("refused"))'
  <2>1. e \in RoverError \ {Refusal} /\ Post(e)
    BY <1>7, PathAssumption DEF UartComplaint, CameraReport, Refusal
  <2> QED
    BY <1>5, <1>7, <2>1 DEF UartComplaint, CameraReport, wsVars, ecVars, Lost
<1>8. CASE ErrReceive
  <2>1. queued' + One(Head(to_error_queue) = Refusal) = queued
    BY <1>0, <1>8, MarksTail DEF ErrReceive
  <2>2. held = 0 /\ held' <= One(Head(to_error_queue) = Refusal)
    BY <1>8 DEF ErrReceive, ErrIdle, One, NONE, Refusal
  <2>3. making' = making /\ same
    BY <1>8 DEF ErrReceive, wsVars, ecVars, Lost
  <2>4. held' \in Nat /\ One(Head(to_error_queue) = Refusal) \in Nat
    BY DEF One
  <2>5. queued' + held' <= queued + held
    BY <1>00, <2>1, <2>2, <2>4
  <2>6. OnTheirWay' <= OnTheirWay
    BY <1>00, <1>01, <2>3, <2>5
  <2> QED
    BY <1>0, <1>01, <1>02, <2>3, <2>6
<1>9. CASE ErrProcess
  <2>1. calls'["err"] = calls["err"] + held /\ held' = 0
    <3>1. CASE received_error = Refusal
      <4>1. calls' = [calls EXCEPT !["err"] = @ + 1]
        BY <1>9, <3>1 DEF ErrProcess, Enter, Refusal
      <4> QED
        BY <1>0, <1>9, <3>1, <4>1 DEF ErrProcess, EcTask, One, Refusal, NONE
    <3>2. CASE received_error # Refusal
      BY <1>01, <1>9, <3>2 DEF ErrProcess, ecVars, One, Refusal, NONE
    <3> QED
      BY <3>1, <3>2
  <2>2. queued' = queued /\ making' = making /\ Lost("refused")' = Lost("refused")
    BY <1>9 DEF ErrProcess, wsVars, Lost
  <2> QED
    BY <1>0, <1>00, <2>1, <2>2, TallyFacts DEF OnTheirWay
<1>10. CASE UNCHANGED <<to_error_queue, received_error, fate>>
              /\ calls'["err"] = calls["err"] /\ making' = making
  BY <1>0, <1>10 DEF OnTheirWay, Lost
<1>11. CASE WsStop \/ WsConnect \/ WsCommand \/ WsDisconnect
              \/ \E e \in Provoked : WsBadFrame(e)
  BY <1>10, <1>11 DEF WsStop, WsConnect, WsCommand, WsDisconnect, WsBadFrame, WsIdle,
     ecVars, One, Refusal
<1>12. CASE UartReady \/ UartSend \/ UartRetry \/ WebSend \/ UNCHANGED pathVars
              \/ \E t \in EcTask : EcTaskStep(t)
  BY <1>10, <1>12 DEF UartReady, UartSend, UartRetry, WebSend, EcTaskStep, EcStep,
     Load, Store, SampleReceived, SampleSent, ReadState, Switch, Commit, wsVars, ecVars,
     cpVars, pathVars
<1> QED
  BY <1>1, <1>2, <1>3, <1>4, <1>6, <1>7, <1>8, <1>9, <1>11, <1>12
     DEF CpNext, WsStep, UartStep, ErrStep, Environment, EcTask

LEMMA TallyInit == CpInit => TallyInv
<1> SUFFICES ASSUME CpInit
             PROVE  TallyInv
  OBVIOUS
<1>1. \A f \in Fate \ {"none"} : {c \in Cmd : fate[c] = f} = {}
  BY DEF CpInit
<1>2. Lost("acked") = 0 /\ Lost("failed") = 0 /\ Lost("refused") = 0
  BY <1>1, FS_EmptySet DEF Lost, Fate
<1>3. Marks(to_error_queue) = {}
  BY DEF CpInit, Marks
<1>4. OnTheirWay = 0
  BY <1>3, FS_EmptySet DEF OnTheirWay, CpInit, One, NONE, Refusal
<1>5. calls["ws"] = 0 /\ calls["uart"] = 0 /\ calls["err"] = 0 /\ Backlog = 0
  BY DEF CpInit, EcInit, EcTask, Backlog, InFlight
<1> QED
  BY <1>2, <1>4, <1>5 DEF TallyInv, CpInit

THEOREM TallyHolds == CpSpec => [](PathFacts /\ TallyInv)
<1>1. CpInit => OrderInv
  BY DEF CpInit, OrderInv, InFlight
<1>2. PathFacts /\ TallyInv /\ [CpNext]_pathVars => TallyInv'
  BY YoungNext, CommandsNext, RefusalsNext DEF TallyInv
<1>3. CpTypeOK => EcTypeOK
  BY DEF CpTypeOK
<1> QED
  BY <1>1, <1>2, <1>3, TallyInit, PathInvariant, CpTypeCorrect, OrderNext,
     LedgerBalances, PTL DEF CpSpec, PathFacts

-----------------------------------------------------------------------------
(* The difference that throttles the camera counts commands that wait or   *)
(* were lost and nothing else, whatever calls of error_control overlap;    *)
(* and until a refusal is counted it counts exactly those waiting or given *)
(* up.                                                                     *)
THEOREM DiffIsBounded == CpSpec => []DiffIsBacklogPlusLosses
<1>1. PathFacts /\ TallyInv /\ SentOkExact /\ ReceivedNeverOvercounts
        => DiffIsBacklogPlusLosses
  <2> SUFFICES ASSUME PathFacts, TallyInv, SentOkExact, ReceivedNeverOvercounts
               PROVE  DiffIsBacklogPlusLosses
    OBVIOUS
  <2>1. /\ cmds_received \in Nat /\ cmds_sent_ok \in Nat
        /\ Pending("ws") \in Nat /\ Pending("err") \in Nat /\ Pending("uart") \in Nat
    BY DEF PathFacts, EcTypeOK, Pending
  <2>2. /\ cmds_sent_ok + Pending("uart") = calls["uart"]
        /\ cmds_received + Pending("ws") + Pending("err") <= calls["ws"] + calls["err"]
        /\ calls["err"] = 0 => cmds_received + Pending("ws") = calls["ws"]
    BY DEF SentOkExact, ReceivedNeverOvercounts
  <2>3. calls["err"] <= Lost("refused")
    <3>1. OnTheirWay \in Nat
      BY TallyFacts DEF OnTheirWay, One
    <3> QED
      BY <3>1, TallyFacts DEF TallyInv
  <2>4. /\ Lost("acked") = calls["uart"]
        /\ Backlog + Lost("acked") + Lost("failed") = calls["ws"]
    BY DEF TallyInv
  <2>5. /\ Lost("acked") \in Nat /\ Lost("failed") \in Nat /\ Lost("refused") \in Nat
        /\ calls["ws"] \in Nat /\ calls["uart"] \in Nat /\ calls["err"] \in Nat
        /\ Backlog \in Nat
    BY TallyFacts
  <2>6. CmdDiff <= Backlog + Lost("failed") + Lost("refused") + Pending("uart")
    BY <2>1, <2>2, <2>3, <2>4, <2>5 DEF CmdDiff
  <2>7. ASSUME calls["err"] = 0
        PROVE  CmdDiff + Pending("ws") = Backlog + Lost("failed") + Pending("uart")
    <3>1. cmds_received + Pending("ws") = Backlog + Lost("acked") + Lost("failed")
      BY <2>2, <2>4, <2>7
    <3>2. cmds_sent_ok + Pending("uart") = Lost("acked")
      BY <2>2, <2>4
    <3> QED
      BY <2>1, <2>5, <3>1, <3>2 DEF CmdDiff
  <2> QED
    BY <2>6, <2>7 DEF DiffIsBacklogPlusLosses
<1> QED
  BY <1>1, TallyHolds, PathCounters, PTL

(* A camera that undisturbed calls have suspended is answered for: more    *)
(* than RESTORE commands wait or were lost.                                *)
THEOREM SuspensionAlwaysHasCause == CpSpec => []SuspensionHasCause
<1>1. PathFacts /\ SerialCallsSettle /\ DiffIsBacklogPlusLosses => SuspensionHasCause
  <2> SUFFICES ASSUME PathFacts, SerialCallsSettle, DiffIsBacklogPlusLosses,
                      Quiescent, ~disturbed, current_camera_state = "SUSPENDED"
               PROVE  Backlog + Lost("failed") + Lost("refused") > RESTORE
    BY DEF SuspensionHasCause
  <2>1. CmdDiff > RESTORE /\ CmdDiff \in Int
    BY ThresholdAssumption
       DEF SerialCallsSettle, Settled, CmdDiff, PathFacts, EcTypeOK
  <2>2. Pending("uart") = 0
    BY DEF Quiescent, Busy, Pending, EcTask
  <2>3. CmdDiff <= Backlog + Lost("failed") + Lost("refused")
    BY <2>2, TallyFacts DEF DiffIsBacklogPlusLosses
  <2> QED
    BY <2>1, <2>3, TallyFacts, ThresholdAssumption
<1>2. CpSpec => []SerialCallsSettle
  BY PathImplementsErrorControl, SerialCallsAlwaysSettle, PTL
<1> QED
  BY <1>1, <1>2, TallyHolds, DiffIsBounded, PTL

-----------------------------------------------------------------------------
(* The backlog, command by command. *)

LEMMA QueuedCount ==
  ASSUME PathFacts
  PROVE  IsFiniteSet(Queued) /\ Cardinality(Queued) = Len(cmd_queue)
<1> DEFINE n == Len(cmd_queue)
           at == [k \in 1..n |-> cmd_queue[k]]
<1>1. n \in Nat /\ \A k \in 1..n : cmd_queue[k] \in Int
  <2>1. cmd_queue \in Seq(Cmd)
    BY DEF PathFacts, PathInv, QueuesOK
  <2>2. n \in Nat /\ \A k \in 1..n : cmd_queue[k] \in Cmd
    BY <2>1
  <2> QED
    BY <2>2, PathAssumption DEF Cmd
<1>2. IsFiniteSet(1..n) /\ Cardinality(1..n) = n
  <2> HIDE DEF n
  <2>1. IsFiniteSet(1..n) /\ Cardinality(1..n) = IF 1 > n THEN 0 ELSE n - 1 + 1
    BY <1>1, FS_Interval
  <2> QED
    BY <1>1, <2>1
<1>3. at \in [1..n -> Queued] /\ \A c \in Queued : \E k \in 1..n : at[k] = c
  BY DEF Queued
<1>4. ASSUME NEW j \in 1..n, NEW k \in 1..n, at[j] = at[k]
      PROVE  j = k
  <2>1. j < k => cmd_queue[j] < cmd_queue[k]
    BY DEF PathFacts, OrderInv
  <2>2. k < j => cmd_queue[k] < cmd_queue[j]
    BY DEF PathFacts, OrderInv
  <2> QED
    BY <1>1, <1>4, <2>1, <2>2
<1>5. ExistsBijection(1..n, Queued)
  <2> HIDE DEF n, at
  <2>1. at \in Bijection(1..n, Queued)
    BY <1>3, <1>4 DEF Bijection, Injection, Surjection, IsInjective
  <2> QED
    BY <2>1 DEF ExistsBijection
<1> HIDE DEF n
<1>6. IsFiniteSet(Queued) /\ Cardinality(Queued) = Cardinality(1..n)
  BY <1>2, <1>5, FS_Bijection
<1> QED
  BY <1>2, <1>6 DEF n

(* The commands that a disconnection's STOP finds unanswered, and that are *)
(* therefore transmitted after it, are as many as the backlog, and never   *)
(* more than the queue holds and the one in ready_handler.                 *)
THEOREM FewLeftAfterStop == CpSpec => []LeftAfterStop
<1>1. PathFacts => LeftAfterStop
  <2> SUFFICES ASSUME PathFacts
               PROVE  LeftAfterStop
    OBVIOUS
  <2>1. Accepted = Queued \cup Serving
    BY DEF PathFacts, Ledger
  <2>2. /\ IsFiniteSet(Queued) /\ Cardinality(Queued) = Len(cmd_queue)
        /\ Len(cmd_queue) \in Nat /\ Len(cmd_queue) <= CmdLen /\ CmdLen \in Nat
    BY QueuedCount, PathAssumption DEF PathFacts, PathInv, QueuesOK
  <2>3. CASE InFlight
    <3>1. command \notin Queued /\ Accepted = Queued \cup {command}
      BY <2>1, <2>3 DEF Serving, Queued, PathFacts, OrderInv, PathInv, QueuesOK, UartOK, Cmd
    <3>2. Cardinality(Accepted) = Cardinality(Queued) + 1
      BY <2>2, <3>1, FS_AddElement
    <3> QED
      BY <2>2, <2>3, <3>2 DEF LeftAfterStop, Backlog
  <2>4. CASE ~InFlight
    <3>1. Accepted = Queued
      BY <2>1, <2>4 DEF Serving
    <3> QED
      BY <2>2, <2>4, <3>1 DEF LeftAfterStop, Backlog
  <2> QED
    BY <2>3, <2>4
<1> QED
  BY <1>1, TallyHolds, PTL

(* A call of the running firmware that suspends the camera undisturbed     *)
(* finds at least SUSPEND commands waiting or lost.                        *)
THEOREM SuspendingHasCause == CpSpec => SuspendsWithCause
<1> DEFINE Caused ==
      ~disturbed' /\ current_camera_state # "SUSPENDED"
        /\ current_camera_state' = "SUSPENDED"
        => Backlog + Lost("failed") + Lost("refused") >= SUSPEND
           Inv == /\ PathFacts /\ TypeInv /\ DecisionInv /\ DiffIsBacklogPlusLosses
<1>1. Inv /\ [CpNext]_pathVars => [Caused]_pathVars
  <2> SUFFICES ASSUME Inv, [CpNext]_pathVars, ~disturbed',
                      current_camera_state # "SUSPENDED",
                      current_camera_state' = "SUSPENDED"
               PROVE  Backlog + Lost("failed") + Lost("refused") >= SUSPEND
    OBVIOUS
  <2>1. [EcAny]_ecVars
    BY PathStepsAreEcSteps
  <2>2. PICK t \in EcTask : Commit(t)
    BY <2>1, OnlyCommitsMove
  <2>3. ec_pc[t] = "commit" /\ ~disturbed /\ current_camera_state' = ec_new[t]
    BY <2>2 DEF Commit, Goto
  <2>4. current_camera_state' = Decide(current_camera_state, CmdDiff)
    BY <2>3 DEF DecisionInv, Fresh
  <2>5. CmdDiff \in Int /\ CmdDiff >= SUSPEND
    <3>1. current_camera_state \in CameraState /\ CmdDiff \in Int
      BY DEF PathFacts, EcTypeOK, CmdDiff
    <3> QED
      BY <2>4, <3>1, DecideMoves
  <2>6. Pending("uart") = 0
    <3>1. Busy(t) /\ (Busy("uart") => t = "uart")
      BY <2>3 DEF DecisionInv, Alone, Busy, EcTask
    <3> QED
      BY <2>3, <3>1 DEF Pending, Busy
  <2>7. CmdDiff <= Backlog + Lost("failed") + Lost("refused")
    BY <2>6, TallyFacts DEF DiffIsBacklogPlusLosses
  <2> QED
    BY <2>5, <2>7, TallyFacts, ThresholdAssumption
<1>2. EcAnySpec => [](TypeInv /\ DecisionInv)
  BY TypeInit, TypeNext, DecisionInit, DecisionNext, PTL DEF EcAnySpec
<1>3. CpSpec => []Inv
  BY <1>2, PathImplementsErrorControl, TallyHolds, DiffIsBounded, PTL
<1> QED
  BY <1>1, <1>3, PTL DEF CpSpec, SuspendsWithCause
=============================================================================
