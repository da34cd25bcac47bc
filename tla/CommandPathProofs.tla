-------------------------- MODULE CommandPathProofs --------------------------
(***************************************************************************)
(* CommandPath for every queue length, number of attempts and threshold    *)
(* triple: it implements the error-control component, it keeps its types,  *)
(* it implements the bounded first-in first-out service, and its ledger of *)
(* unanswered commands balances.                                           *)
(***************************************************************************)
EXTENDS CommandPath, ErrorControlProofs, SequenceTheorems

(* Every step of the path is a call of error_control, a step of one, or    *)
(* leaves its variables alone.                                             *)
LEMMA PathStepsAreEcSteps == [CpNext]_pathVars => [EcAny]_ecVars
<1> SUFFICES ASSUME [CpNext]_pathVars PROVE EcAny \/ UNCHANGED ecVars
  OBVIOUS
<1> USE DEF EcAny, EcTask
<1>1. CASE WsStep
  BY <1>1 DEF WsStep, WsEnqueue, WsTimeout, WsReport, WsStop, EcTaskStep
<1>2. CASE UartStep
  BY <1>2 DEF UartStep, UartReady, UartSend, UartAck, UartRetry, UartGiveUp,
              EcTaskStep
<1>3. CASE ErrStep
  BY <1>3 DEF ErrStep, ErrReceive, ErrProcess, EcTaskStep
<1>4. CASE WebSend
  BY <1>4 DEF WebSend
<1>5. CASE Environment
  BY <1>5 DEF Environment, WsConnect, WsCommand, WsDisconnect, WsBadFrame,
              UartComplaint, CameraReport
<1>6. CASE UNCHANGED pathVars
  BY <1>6 DEF pathVars
<1> QED
  BY <1>1, <1>2, <1>3, <1>4, <1>5, <1>6 DEF CpNext

(* The command path implements the error-control component, so whatever    *)
(* that component guarantees for any callers it guarantees here.           *)
THEOREM PathImplementsErrorControl == CpSpec => EcAnySpec
<1>1. CpInit => EcInit
  BY DEF CpInit
<1> QED
  BY <1>1, PathStepsAreEcSteps, PTL DEF CpSpec, EcAnySpec

(* In the running firmware cmds_sent_ok counts exactly the commands the    *)
(* CIAA acknowledged, and cmds_received never more than the commands       *)
(* queued or refused.                                                      *)
THEOREM PathCounters == CpSpec => [](SentOkExact /\ ReceivedNeverOvercounts)
BY PathImplementsErrorControl, SentOkIsExact, ReceivedIsBounded, PTL

-----------------------------------------------------------------------------
(* The types of the path, and how a task's position and its locals agree.  *)
QueuesOK ==
  /\ cmd_queue \in Seq(Cmd) /\ Len(cmd_queue) <= CmdLen
  /\ to_error_queue \in Seq(RoverError) /\ Len(to_error_queue) <= ErrLen
  /\ from_error_queue \in Seq(RoverError) /\ Len(from_error_queue) <= WebLen

WsOK ==
  /\ connected \in BOOLEAN
  /\ arrived \in 0..MaxCmds
  /\ ws_pc \in {"idle", "enqueue", "report", "stop"}
  /\ websocket_handler_error \in RoverError \cup {NONE}
  /\ ws_pc = "report" => websocket_handler_error \in RoverError
  /\ ws_pc = "enqueue" => arrived > 0

UartOK ==
  /\ uart_pc \in {"wait", "send", "await"}
  /\ command \in 0..MaxCmds
  /\ i \in 0..LastTry
  /\ uart_pc = "wait" <=> command = 0
  /\ uart_pc = "wait" => i = 0

RestOK ==
  /\ received_error \in RoverError \cup {NONE}
  /\ fate \in [Cmd -> Fate]

PathInv == QueuesOK /\ WsOK /\ UartOK /\ RestOK

LEMMA PathInit == CpInit => PathInv
<1> SUFFICES ASSUME CpInit PROVE PathInv
  OBVIOUS
<1> USE PathAssumption DEF CpInit
<1>1. QueuesOK
  BY DEF QueuesOK
<1>2. connected \in BOOLEAN
  BY Zenon
<1>3. WsOK
  BY <1>2 DEF WsOK, NONE
<1>4. UartOK
  BY DEF UartOK
<1>5. RestOK
  BY DEF RestOK, Fate
<1> QED
  BY <1>1, <1>3, <1>4, <1>5 DEF PathInv

(* A zero-wait post keeps the error queue within its length. *)
LEMMA PostKeepsQueue ==
  ASSUME to_error_queue \in Seq(RoverError), Len(to_error_queue) <= ErrLen,
         NEW e \in RoverError, Post(e)
  PROVE  to_error_queue' \in Seq(RoverError) /\ Len(to_error_queue') <= ErrLen
BY PathAssumption DEF Post

LEMMA QueuesNext == PathInv /\ [CpNext]_pathVars => QueuesOK'
<1> SUFFICES ASSUME PathInv, [CpNext]_pathVars PROVE QueuesOK'
  OBVIOUS
<1> USE PathAssumption DEF PathInv, QueuesOK
<1>1. CASE WsEnqueue
  <2>1. arrived \in Cmd
    BY <1>1 DEF WsEnqueue, WsOK, Cmd
  <2> QED
    BY <1>1, <2>1 DEF WsEnqueue, CmdQueueFull
<1>2. CASE WsReport
  <2>1. websocket_handler_error \in RoverError
    BY <1>2 DEF WsReport, WsOK
  <2> QED
    BY <1>2, <2>1, PostKeepsQueue DEF WsReport
<1>3. CASE UartReady
  BY <1>3 DEF UartReady
<1>4. CASE UartGiveUp
  <2>1. "NO_ACK" \in RoverError
    BY DEF RoverError, WarningErrors
  <2> QED
    BY <1>4, <2>1, PostKeepsQueue DEF UartGiveUp
<1>5. ASSUME NEW e \in Provoked, UartComplaint(e) \/ CameraReport(e)
      PROVE QueuesOK'
  <2>1. e \in RoverError /\ Post(e) /\ UNCHANGED <<cmd_queue, from_error_queue>>
    BY <1>5 DEF UartComplaint, CameraReport
  <2> QED
    BY <2>1, PostKeepsQueue
<1>6. CASE ErrReceive
  BY <1>6 DEF ErrReceive
<1>7. CASE ErrProcess
  <2>1. received_error \in RoverError
    BY <1>7 DEF ErrProcess, RestOK
  <2> QED
    BY <1>7, <2>1 DEF ErrProcess
<1>8. CASE WebSend
  BY <1>8 DEF WebSend
<1>9. CASE WsTimeout \/ WsStop \/ WsConnect \/ WsCommand \/ WsDisconnect
             \/ UartSend \/ UartAck \/ UartRetry
             \/ \E e \in Provoked : WsBadFrame(e)
  BY <1>9 DEF WsTimeout, WsStop, WsConnect, WsCommand, WsDisconnect, UartSend,
              UartAck, UartRetry, WsBadFrame
<1>10. CASE \E t \in EcTask : EcTaskStep(t)
  BY <1>10 DEF EcTaskStep, cpVars
<1>11. CASE UNCHANGED pathVars
  BY <1>11 DEF pathVars, cpVars
<1> QED
  BY <1>1, <1>2, <1>3, <1>4, <1>5, <1>6, <1>7, <1>8, <1>9, <1>10, <1>11
     DEF CpNext, WsStep, UartStep, ErrStep, Environment, EcTask

LEMMA WsNext == PathInv /\ [CpNext]_pathVars => WsOK'
<1> SUFFICES ASSUME PathInv, [CpNext]_pathVars PROVE WsOK'
  OBVIOUS
<1> USE PathAssumption DEF PathInv, WsOK
<1>1. CASE WsEnqueue \/ WsTimeout \/ WsReport \/ WsStop
  BY <1>1 DEF WsEnqueue, WsTimeout, WsReport, WsStop, RoverError, ErrorErrors
<1>2. CASE WsConnect
  <2>1. connected' \in BOOLEAN
    BY <1>2, Zenon DEF WsConnect
  <2> QED
    BY <1>2, <2>1 DEF WsConnect, WsIdle
<1>3. CASE WsDisconnect
  <2>1. connected' \in BOOLEAN
    BY <1>3, Zenon DEF WsDisconnect
  <2> QED
    BY <1>3, <2>1 DEF WsDisconnect, RoverError, ErrorErrors
<1>4. CASE WsCommand
  BY <1>4 DEF WsCommand
<1>5. ASSUME NEW e \in Provoked, WsBadFrame(e) PROVE WsOK'
  BY <1>5 DEF WsBadFrame
<1>6. CASE UNCHANGED wsVars
  BY <1>6 DEF wsVars
<1>7. CASE UartStep \/ ErrStep \/ WebSend \/ EcTaskStep("ws")
             \/ \E e \in Provoked : UartComplaint(e) \/ CameraReport(e)
  BY <1>6, <1>7
     DEF UartStep, UartReady, UartSend, UartAck, UartRetry, UartGiveUp, ErrStep,
         ErrReceive, ErrProcess, WebSend, EcTaskStep, cpVars, UartComplaint,
         CameraReport
<1>8. CASE UNCHANGED pathVars
  BY <1>6, <1>8 DEF pathVars, cpVars
<1> QED
  BY <1>1, <1>2, <1>3, <1>4, <1>5, <1>7, <1>8 DEF CpNext, WsStep, Environment

LEMMA UartNext == PathInv /\ [CpNext]_pathVars => UartOK'
<1> SUFFICES ASSUME PathInv, [CpNext]_pathVars PROVE UartOK'
  OBVIOUS
<1> USE PathAssumption DEF PathInv, UartOK
<1>1. CASE UartReady
  <2>1. Head(cmd_queue) \in Cmd
    BY <1>1 DEF UartReady, QueuesOK
  <2> QED
    BY <1>1, <2>1 DEF UartReady, Cmd
<1>2. CASE UartSend \/ UartRetry
  BY <1>2 DEF UartSend, UartRetry, Retries
<1>3. CASE UartAck \/ UartGiveUp
  BY <1>3 DEF UartAck, UartGiveUp, Return
<1>4. CASE UNCHANGED uartVars
  BY <1>4 DEF uartVars
<1>5. CASE WsStep \/ ErrStep \/ WebSend \/ EcTaskStep("uart") \/ Environment
  BY <1>4, <1>5
     DEF WsStep, WsEnqueue, WsTimeout, WsReport, WsStop, ErrStep, ErrReceive,
         ErrProcess, WebSend, EcTaskStep, cpVars, Environment, WsConnect,
         WsCommand, WsDisconnect, WsBadFrame, UartComplaint, CameraReport
<1>6. CASE UNCHANGED pathVars
  BY <1>4, <1>6 DEF pathVars, cpVars
<1> QED
  BY <1>1, <1>2, <1>3, <1>5, <1>6 DEF CpNext, UartStep

LEMMA RestNext == PathInv /\ [CpNext]_pathVars => RestOK'
<1> SUFFICES ASSUME PathInv, [CpNext]_pathVars PROVE RestOK'
  OBVIOUS
<1> USE PathAssumption DEF PathInv, RestOK
<1>1. ASSUME NEW c, NEW f \in Fate, Settle(c, f), UNCHANGED received_error
      PROVE RestOK'
  BY <1>1 DEF Settle
<1>2. CASE WsEnqueue \/ WsTimeout \/ UartAck \/ UartGiveUp
  BY <1>1, <1>2 DEF WsEnqueue, WsTimeout, UartAck, UartGiveUp, Fate
<1>3. CASE ErrReceive
  <2>1. Head(to_error_queue) \in RoverError
    BY <1>3 DEF ErrReceive, QueuesOK
  <2> QED
    BY <1>3, <2>1 DEF ErrReceive
<1>4. CASE ErrProcess
  BY <1>4 DEF ErrProcess
<1>5. CASE UNCHANGED <<received_error, fate>>
  BY <1>5
<1>6. CASE WsReport \/ WsStop \/ UartReady \/ UartSend \/ UartRetry \/ WebSend
             \/ Environment \/ \E t \in EcTask : EcTaskStep(t)
  BY <1>5, <1>6
     DEF WsReport, WsStop, UartReady, UartSend, UartRetry, WebSend, Environment,
         WsConnect, WsCommand, WsDisconnect, WsBadFrame, UartComplaint,
         CameraReport, EcTaskStep, cpVars
<1>7. CASE UNCHANGED pathVars
  BY <1>5, <1>7 DEF pathVars, cpVars
<1> QED
  BY <1>2, <1>3, <1>4, <1>6, <1>7 DEF CpNext, WsStep, UartStep, ErrStep, EcTask

LEMMA PathNext == PathInv /\ [CpNext]_pathVars => PathInv'
BY QueuesNext, WsNext, UartNext, RestNext DEF PathInv

THEOREM PathInvariant == CpSpec => []PathInv
BY PathInit, PathNext, PTL DEF CpSpec

(* The queues never outgrow their length and the locals of every task keep *)
(* their types, whatever errors the environment provokes.                  *)
THEOREM CpTypeCorrect == CpSpec => []CpTypeOK
<1>1. PathInv /\ EcTypeOK => CpTypeOK
  BY DEF PathInv, QueuesOK, WsOK, UartOK, RestOK, CpTypeOK
<1> QED
  BY PathInvariant, PathImplementsErrorControl, EcTypeCorrect, <1>1, PTL

-----------------------------------------------------------------------------
(* The refinement: which step of the service each step of the path is.     *)
LEMMA ServiceInit == CpInit => Service!Init
BY DEF CpInit, Service!Init, Offered, Tries, Cmd

LEMMA ServiceNext ==
  PathInv /\ [CpNext]_pathVars => [Service!Next]_(Service!vars)
<1> SUFFICES ASSUME PathInv, [CpNext]_pathVars
             PROVE  Service!Next \/ UNCHANGED Service!vars
  OBVIOUS
<1> USE PathAssumption DEF PathInv
<1>1. CASE WsEnqueue
  <2>1. Service!Accept
    BY <1>1 DEF WsEnqueue, CmdQueueFull, Settle, Service!Accept, Service!Decided,
                Offered, Tries, uartVars, WsOK, QueuesOK
  <2> QED
    BY <2>1 DEF Service!Next
<1>2. CASE WsTimeout
  <2>1. Service!Refuse
    BY <1>2 DEF WsTimeout, CmdQueueFull, Settle, Service!Refuse, Service!Decided,
                Offered, Tries, uartVars, WsOK
  <2> QED
    BY <2>1 DEF Service!Next
<1>3. CASE UartReady
  <2>1. Service!Take
    BY <1>3 DEF UartReady, UartIdle, Service!Take, Offered, Tries, wsVars, UartOK
  <2> QED
    BY <2>1 DEF Service!Next, Service!Serve
<1>4. CASE UartSend
  <2>1. Service!Transmit
    BY <1>4 DEF UartSend, Service!Transmit, Offered, Tries, wsVars, UartOK
  <2> QED
    BY <2>1 DEF Service!Next, Service!Serve
<1>5. CASE UartAck
  <2>1. Service!Acknowledge
    BY <1>5 DEF UartAck, Return, Settle, Service!Acknowledge, Service!Answer,
                Service!Decided, Offered, Tries, wsVars, UartOK
  <2> QED
    BY <2>1 DEF Service!Next, Service!Serve
<1>6. CASE UartGiveUp
  <2>1. Service!GiveUp
    BY <1>6 DEF UartGiveUp, Retries, Return, Settle, Service!GiveUp,
                Service!Answer, Service!Decided, Offered, Tries, wsVars, UartOK
  <2> QED
    BY <2>1 DEF Service!Next, Service!Serve
<1>7. CASE UartRetry
  BY <1>7 DEF UartRetry, Service!vars, Offered, Tries, wsVars, UartOK
<1>8. CASE WsReport \/ WsStop
  BY <1>8 DEF WsReport, WsStop, Service!vars, Offered, Tries, uartVars
<1>9. CASE WsCommand
  BY <1>9 DEF WsCommand, WsIdle, Service!vars, Offered, Tries, uartVars, WsOK
<1>10. CASE WsConnect \/ WsDisconnect \/ \E e \in Provoked : WsBadFrame(e)
  BY <1>10 DEF WsConnect, WsDisconnect, WsBadFrame, WsIdle, Service!vars,
               Offered, Tries, uartVars
<1>11. CASE UNCHANGED <<cmd_queue, wsVars, uartVars, fate>>
  BY <1>11 DEF Service!vars, Offered, Tries, wsVars, uartVars
<1>12. CASE ErrStep \/ WebSend \/ (\E t \in EcTask : EcTaskStep(t))
             \/ \E e \in Provoked : UartComplaint(e) \/ CameraReport(e)
  BY <1>11, <1>12 DEF ErrStep, ErrReceive, ErrProcess, WebSend, EcTaskStep,
                      cpVars, UartComplaint, CameraReport
<1>13. CASE UNCHANGED pathVars
  BY <1>11, <1>13 DEF pathVars, cpVars
<1> QED
  BY <1>1, <1>2, <1>3, <1>4, <1>5, <1>6, <1>7, <1>8, <1>9, <1>10, <1>12, <1>13
     DEF CpNext, WsStep, UartStep, ErrStep, Environment, EcTask

(* The three tasks together behave as the bounded first-in first-out       *)
(* service: no command is lost, duplicated or overtaken between the socket *)
(* and the serial line, none is refused while the queue has room, and none *)
(* is given up before its last transmission.                               *)
THEOREM PathImplementsService == CpSpec => ServiceSafety
BY ServiceInit, ServiceNext, PathInvariant, PTL
   DEF CpSpec, ServiceSafety, Service!Safety

-----------------------------------------------------------------------------
(* Arrival order: the queue is ascending, the command in flight is older   *)
(* than everything queued, and nothing accepted is younger than Offered.   *)
OrderInv ==
  /\ \A k \in 1..Len(cmd_queue) : cmd_queue[k] <= Offered
  /\ \A j, k \in 1..Len(cmd_queue) : j < k => cmd_queue[j] < cmd_queue[k]
  /\ InFlight => /\ command <= Offered
                 /\ \A k \in 1..Len(cmd_queue) : command < cmd_queue[k]

LEMMA OrderNext ==
  PathInv /\ OrderInv /\ [CpNext]_pathVars => OrderInv'
<1> SUFFICES ASSUME PathInv, OrderInv, [CpNext]_pathVars PROVE OrderInv'
  OBVIOUS
<1> USE PathAssumption DEF PathInv, OrderInv, QueuesOK, Cmd, InFlight
<1>0. Offered \in Int
  BY DEF Offered, WsOK
<1>1. CASE WsEnqueue
  <2>1. arrived \in Cmd
    BY <1>1 DEF WsEnqueue, WsOK
  <2>2. /\ Len(cmd_queue') = Len(cmd_queue) + 1
        /\ \A k \in 1..Len(cmd_queue) : cmd_queue'[k] = cmd_queue[k]
        /\ cmd_queue'[Len(cmd_queue) + 1] = arrived
    BY <1>1, <2>1 DEF WsEnqueue
  <2>3. UNCHANGED uartVars /\ Offered = arrived - 1 /\ Offered' = arrived
    BY <1>1 DEF WsEnqueue, Offered
  <2>4. \A k \in 1..Len(cmd_queue') :
           \/ k \in 1..Len(cmd_queue) /\ cmd_queue'[k] = cmd_queue[k]
           \/ k = Len(cmd_queue) + 1 /\ cmd_queue'[k] = arrived
    BY <2>2
  <2>5. \A k \in 1..Len(cmd_queue) : cmd_queue[k] \in Int /\ cmd_queue[k] < arrived
    BY <2>1, <2>3
  <2>6. \A k \in 1..Len(cmd_queue') : cmd_queue'[k] <= Offered'
    BY <2>1, <2>3, <2>4, <2>5
  <2>7. \A j, k \in 1..Len(cmd_queue') :
           j < k => cmd_queue'[j] < cmd_queue'[k]
    <3> SUFFICES ASSUME NEW j \in 1..Len(cmd_queue'), NEW k \in 1..Len(cmd_queue'),
                        j < k
                 PROVE  cmd_queue'[j] < cmd_queue'[k]
      OBVIOUS
    <3>1. j \in 1..Len(cmd_queue) /\ cmd_queue'[j] = cmd_queue[j]
      BY <2>2
    <3>2. CASE k \in 1..Len(cmd_queue) /\ cmd_queue'[k] = cmd_queue[k]
      BY <3>1, <3>2
    <3>3. CASE cmd_queue'[k] = arrived
      BY <2>5, <3>1, <3>3
    <3> QED
      BY <2>4, <3>2, <3>3
  <2>8. InFlight' => /\ command' <= Offered'
                     /\ \A k \in 1..Len(cmd_queue') : command' < cmd_queue'[k]
    <3> SUFFICES ASSUME InFlight'
                 PROVE  /\ command' <= Offered'
                        /\ \A k \in 1..Len(cmd_queue') : command' < cmd_queue'[k]
      OBVIOUS
    <3>1. command' = command /\ InFlight /\ command <= Offered
      BY <2>3 DEF uartVars
    <3>2. command \in Int /\ command < arrived
      BY <1>0, <2>1, <2>3, <3>1 DEF UartOK
    <3>3. \A k \in 1..Len(cmd_queue) : command < cmd_queue[k]
      BY <3>1
    <3> QED
      BY <2>1, <2>3, <2>4, <3>1, <3>2, <3>3
  <2> QED
    BY <2>6, <2>7, <2>8
<1>2. CASE UartReady
  <2>1. /\ Len(cmd_queue') = Len(cmd_queue) - 1
        /\ \A k \in 1..Len(cmd_queue') : cmd_queue'[k] = cmd_queue[k + 1]
        /\ command' = cmd_queue[1]
    BY <1>2 DEF UartReady
  <2> QED
    BY <1>2, <2>1 DEF UartReady, wsVars, WsOK, Offered
<1>3. CASE UartAck \/ UartGiveUp
  BY <1>3 DEF UartAck, UartGiveUp, Return, wsVars, Offered
<1>4. CASE UartSend \/ UartRetry
  BY <1>4 DEF UartSend, UartRetry, wsVars, Offered
<1>5. CASE WsTimeout \/ WsReport \/ WsStop \/ WsConnect \/ WsCommand
             \/ WsDisconnect \/ \E e \in Provoked : WsBadFrame(e)
  <2>1. UNCHANGED <<cmd_queue, uartVars>>
    BY <1>5 DEF WsTimeout, WsReport, WsStop, WsConnect, WsCommand,
                WsDisconnect, WsBadFrame
  <2>2. Offered' >= Offered
    BY <1>5 DEF WsTimeout, WsReport, WsStop, WsConnect, WsCommand,
                WsDisconnect, WsBadFrame, WsIdle, Offered, WsOK
  <2>3. Offered' \in Int
    BY WsNext DEF Offered, WsOK
  <2> QED
    BY <1>0, <2>1, <2>2, <2>3 DEF uartVars, UartOK
<1>6. CASE UNCHANGED <<cmd_queue, wsVars, uartVars>>
  BY <1>6 DEF wsVars, uartVars, Offered
<1>7. CASE ErrStep \/ WebSend \/ (\E t \in EcTask : EcTaskStep(t))
             \/ \E e \in Provoked : UartComplaint(e) \/ CameraReport(e)
  BY <1>6, <1>7 DEF ErrStep, ErrReceive, ErrProcess, WebSend, EcTaskStep,
                    cpVars, UartComplaint, CameraReport
<1>8. CASE UNCHANGED pathVars
  BY <1>6, <1>8 DEF pathVars, cpVars
<1> QED
  BY <1>1, <1>2, <1>3, <1>4, <1>5, <1>7, <1>8
     DEF CpNext, WsStep, UartStep, ErrStep, Environment, EcTask

LEMMA LedgerNext ==
  PathInv /\ OrderInv /\ Ledger /\ [CpNext]_pathVars => Ledger'
<1> SUFFICES ASSUME PathInv, OrderInv, Ledger, [CpNext]_pathVars PROVE Ledger'
  OBVIOUS
<1> USE PathAssumption DEF PathInv, Ledger
<1>0. Queued \subseteq Cmd /\ (InFlight => command \in Cmd)
  BY DEF QueuesOK, UartOK, Queued, InFlight, Cmd
<1>1. CASE WsEnqueue
  <2>1. arrived \in Cmd
    BY <1>1 DEF WsEnqueue, WsOK, Cmd
  <2>2. /\ Len(cmd_queue') = Len(cmd_queue) + 1
        /\ \A k \in 1..Len(cmd_queue) : cmd_queue'[k] = cmd_queue[k]
        /\ cmd_queue'[Len(cmd_queue) + 1] = arrived
    BY <1>1, <2>1 DEF WsEnqueue, QueuesOK
  <2>3. Queued' = Queued \cup {arrived}
    BY <2>2 DEF Queued, QueuesOK
  <2>4. Accepted' = Accepted \cup {arrived}
    BY <1>1, <2>1 DEF WsEnqueue, Settle, Accepted, RestOK
  <2> QED
    BY <1>1, <2>3, <2>4 DEF WsEnqueue, uartVars, Serving, InFlight
<1>2. CASE WsTimeout
  <2>1. arrived \in Cmd /\ Offered = arrived - 1
    BY <1>2 DEF WsTimeout, WsOK, Cmd, Offered
  <2>2. arrived \notin Queued
    BY <2>1 DEF OrderInv, Queued, QueuesOK, Cmd
  <2>3. arrived \notin Serving
    BY <2>1 DEF OrderInv, Serving, Cmd, UartOK
  <2>4. Accepted' = Accepted
    BY <1>2, <2>1, <2>2, <2>3 DEF WsTimeout, Settle, Accepted, RestOK
  <2> QED
    BY <1>2, <2>4 DEF WsTimeout, uartVars, Queued, Serving, InFlight
<1>3. CASE UartReady
  <2>1. /\ Len(cmd_queue') = Len(cmd_queue) - 1
        /\ \A k \in 1..Len(cmd_queue') : cmd_queue'[k] = cmd_queue[k + 1]
        /\ command' = cmd_queue[1]
        /\ Len(cmd_queue) > 0
    BY <1>3 DEF UartReady, QueuesOK
  <2>2. Queued = Queued' \cup {command'}
    <3>1. \A k \in 1..Len(cmd_queue) : k = 1 \/ k - 1 \in 1..Len(cmd_queue')
      BY <2>1 DEF QueuesOK
    <3>2. ASSUME NEW k \in 1..Len(cmd_queue)
          PROVE  cmd_queue[k] \in Queued' \cup {command'}
      <4>1. CASE k = 1
        BY <2>1, <4>1
      <4>2. CASE k - 1 \in 1..Len(cmd_queue')
        <5>1. cmd_queue[k] = cmd_queue'[k - 1]
          BY <2>1, <4>2 DEF QueuesOK
        <5> QED
          BY <4>2, <5>1 DEF Queued
      <4> QED
        BY <3>1, <4>1, <4>2
    <3>3. Queued' \cup {command'} \subseteq Queued
      BY <2>1 DEF Queued, QueuesOK
    <3> QED
      BY <3>2, <3>3 DEF Queued
  <2> QED
    BY <1>3, <2>2 DEF UartReady, UartIdle, Accepted, Serving, InFlight
<1>4. CASE UartAck \/ UartGiveUp
  <2>1. InFlight /\ ~InFlight' /\ UNCHANGED cmd_queue
    BY <1>4 DEF UartAck, UartGiveUp, Return, InFlight
  <2>2. command \notin Queued
    BY <2>1 DEF OrderInv, Queued, QueuesOK, UartOK, Cmd
  <2>3. Accepted' = Accepted \ {command}
    BY <1>0, <1>4, <2>1 DEF UartAck, UartGiveUp, Settle, Accepted, RestOK
  <2> QED
    BY <2>1, <2>2, <2>3 DEF Queued, Serving
<1>5. CASE UNCHANGED <<cmd_queue, command, fate, InFlight>>
  BY <1>5 DEF Accepted, Queued, Serving
<1>6. CASE UartSend \/ UartRetry \/ UNCHANGED <<cmd_queue, uartVars, fate>>
  BY <1>5, <1>6 DEF UartSend, UartRetry, InFlight, uartVars
<1>7. CASE WsReport \/ WsStop \/ ErrStep \/ WebSend \/ Environment
             \/ \E t \in EcTask : EcTaskStep(t)
  BY <1>6, <1>7 DEF WsReport, WsStop, ErrStep, ErrReceive, ErrProcess, WebSend,
       Environment, WsConnect, WsCommand, WsDisconnect, WsBadFrame,
       UartComplaint, CameraReport, EcTaskStep, cpVars
<1>8. CASE UNCHANGED pathVars
  BY <1>6, <1>8 DEF pathVars, cpVars
<1> QED
  BY <1>1, <1>2, <1>3, <1>4, <1>6, <1>7, <1>8
     DEF CpNext, WsStep, UartStep, ErrStep, EcTask

(* A command is accepted and unanswered exactly while the queue or         *)
(* ready_handler holds it: none is stranded, whatever connects, drops or   *)
(* fails.                                                                  *)
THEOREM LedgerBalances == CpSpec => []Ledger
<1>1. CpInit => OrderInv /\ Ledger
  BY DEF CpInit, OrderInv, Ledger, Accepted, Queued, Serving, InFlight
<1> QED
  BY PathInvariant, OrderNext, LedgerNext, <1>1, PTL DEF CpSpec

-----------------------------------------------------------------------------
(* What the service guarantees, the path inherits: the same service, with  *)
(* what is proved of it.                                                   *)
Promise == INSTANCE CommandServiceProofs
             WITH offered <- Offered, backlog <- cmd_queue, serving <- command,
                  tries <- Tries, Capacity <- CmdLen, MaxTries <- LastTry + 1

LEMMA PathKeepsPromise == ServiceSafety => Promise!Safety
<1>1. Service!Init => Promise!Init
  BY DEF Service!Init, Promise!Init
<1>2. [Service!Next]_(Service!vars) => [Promise!Next]_(Promise!vars)
  BY DEF Service!Next, Service!vars, Service!Accept, Service!Refuse, Service!Serve,
     Service!Take, Service!Transmit, Service!Acknowledge, Service!GiveUp,
     Service!Answer, Service!Decided,
     Promise!Next, Promise!vars, Promise!Accept, Promise!Refuse, Promise!Serve,
     Promise!Take, Promise!Transmit, Promise!Acknowledge, Promise!GiveUp,
     Promise!Answer, Promise!Decided
<1> QED
  BY <1>1, <1>2, PTL DEF ServiceSafety, Service!Safety, Promise!Safety

(* The motor controller's answers are counted in the order in which the    *)
(* commands arrived: no command is answered before an older one, whatever  *)
(* disconnects, times out or overflows in between.                         *)
THEOREM PathAnswersInOrder == CpSpec => []Service!AnsweredInOrder
<1>1. MaxCmds \in Nat
  BY PathAssumption
<1>2. Promise!Safety => []Promise!AnsweredInOrder
  BY <1>1, Promise!ServiceAnswersInOrder
<1>3. Promise!AnsweredInOrder => Service!AnsweredInOrder
  BY DEF Promise!AnsweredInOrder, Service!AnsweredInOrder, Promise!Final, Service!Final
<1> QED
  BY <1>2, <1>3, PathKeepsPromise, PathImplementsService, PTL

(* And each command is answered once: the three tasks never settle one     *)
(* that was acknowledged, given up or refused a second time.               *)
THEOREM PathDecidesOnce == CpSpec => Service!DecidedOnce
<1>1. MaxCmds \in Nat
  BY PathAssumption
<1>2. Promise!Safety => Promise!DecidedOnce
  BY <1>1, Promise!ServiceDecidesOnce
<1>3. [\A c \in 1..MaxCmds : fate[c] \in Promise!Final => fate'[c] = fate[c]]_(Promise!vars)
        => [\A c \in 1..MaxCmds : fate[c] \in Service!Final => fate'[c] = fate[c]]_(Service!vars)
  BY DEF Promise!Final, Service!Final, Promise!vars, Service!vars
<1> QED
  BY <1>2, <1>3, PathKeepsPromise, PathImplementsService, PTL
     DEF Promise!DecidedOnce, Service!DecidedOnce
=============================================================================
