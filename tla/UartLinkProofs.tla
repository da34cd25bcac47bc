--------------------------- MODULE UartLinkProofs ---------------------------
(***************************************************************************)
(* UartLink for every length of message and read that LinkAssumption       *)
(* allows, any number of commands, STOPs, attempts and events: the types,  *)
(* and what an acknowledgment counted and a command given up say of the    *)
(* motor controller.                                                       *)
(***************************************************************************)
EXTENDS UartService, TLAPS

LEMMA Lengths ==
  /\ MsgLen \in Nat \ {0} /\ ReadLen \in Nat \ {0}
  /\ Body \in Nat \ {0} /\ Body <= MsgLen
BY LinkAssumption DEF MsgLen

(* A prefix and the rest, cell by cell. *)
LEMMA Split ==
  ASSUME NEW s \in Seq(Cell), NEW n \in 0..Len(s)
  PROVE  /\ SubSeq(s, 1, n) \in Seq(Cell)
         /\ Len(SubSeq(s, 1, n)) = n
         /\ \A k \in 1..n : SubSeq(s, 1, n)[k] = s[k]
         /\ SubSeq(s, n + 1, Len(s)) \in Seq(Cell)
         /\ Len(SubSeq(s, n + 1, Len(s))) = Len(s) - n
         /\ \A k \in 1..Len(s) - n : SubSeq(s, n + 1, Len(s))[k] = s[n + k]
OBVIOUS

LEMMA CellsType ==
  ASSUME NEW r \in Response
  PROVE  /\ Cells(r) \in Seq(Cell)
         /\ Len(Cells(r)) = MsgLen
         /\ \A k \in 1..MsgLen : Cells(r)[k] = <<r, k>>
BY Lengths DEF Cells, Cell

LEMMA Joined ==
  ASSUME NEW s \in Seq(Cell), NEW t \in Seq(Cell)
  PROVE  /\ s \o t \in Seq(Cell)
         /\ Len(s \o t) = Len(s) + Len(t)
         /\ \A j \in 1..Len(s) : (s \o t)[j] = s[j]
         /\ \A j \in 1..Len(t) : (s \o t)[Len(s) + j] = t[j]
OBVIOUS

(* A message sent after s. *)
LEMMA CellsJoined ==
  ASSUME NEW s \in Seq(Cell), NEW r \in Response
  PROVE  /\ s \o Cells(r) \in Seq(Cell)
         /\ Len(s \o Cells(r)) = Len(s) + MsgLen
         /\ \A j \in 1..Len(s) : (s \o Cells(r))[j] = s[j]
         /\ \A j \in 1..MsgLen : (s \o Cells(r))[Len(s) + j] = <<r, j>>
<1>1. /\ Cells(r) \in Seq(Cell) /\ Len(Cells(r)) = MsgLen
      /\ \A k \in 1..MsgLen : Cells(r)[k] = <<r, k>>
  BY CellsType
<1> QED
  BY <1>1, Joined

(* What a read takes is a prefix of rx. *)
LEMMA ReadIsPrefix ==
  ASSUME TypeOK
  PROVE  /\ ReadCount \in 0..Len(rx) /\ ReadCount <= ReadLen
         /\ Got \in Seq(Cell) /\ Len(Got) = ReadCount
         /\ \A k \in 1..ReadCount : Got[k] = rx[k]
         /\ Rest \in Seq(Cell) /\ Len(Rest) = Len(rx) - ReadCount
         /\ \A k \in 1..Len(Rest) : Rest[k] = rx[ReadCount + k]
<1>1. rx \in Seq(Cell) /\ ReadCount \in 0..Len(rx) /\ ReadCount <= ReadLen
  BY Lengths DEF TypeOK, ReadCount
<1> QED
  BY <1>1, Split DEF Got, Rest

(* ready_handler leaves the types of its locals as they are. *)
LEMMA ReturnType ==
  ASSUME Return
  PROVE  /\ uart_pc' = "wait" /\ command' = 0 /\ i' = 0
         /\ confirmed' \in BOOLEAN /\ stray' \in BOOLEAN /\ missed' \in BOOLEAN
BY Zenon DEF Return

LEMMA TypeInit == Init => TypeOK
<1> SUFFICES ASSUME Init PROVE TypeOK
  OBVIOUS
<1>1. calm \in BOOLEAN /\ confirmed \in BOOLEAN /\ stray \in BOOLEAN /\ missed \in BOOLEAN
  BY Zenon DEF Init
<1> QED
  BY <1>1, LinkAssumption DEF Init, TypeOK

LEMMA OwedType == ASSUME NEW s PROVE Owed(s) \in BOOLEAN
BY DEF Owed, AckIn

LEMMA TypeNext == TypeOK /\ [Next]_vars => TypeOK'
<1> SUFFICES ASSUME TypeOK, [Next]_vars PROVE TypeOK'
  OBVIOUS
<1> USE LinkAssumption DEF TypeOK, taskVars, histVars
<1>1. CASE WsQueue
  BY <1>1 DEF WsQueue
<1>2. CASE WsStop
  BY <1>2 DEF WsStop
<1>3. CASE UartEvent
  BY <1>3 DEF UartEvent
<1>4. CASE UartTake
  <2>1. stray' \in BOOLEAN
    BY <1>4, OwedType, Zenon DEF UartTake
  <2> QED
    BY <1>4, <2>1, ReadIsPrefix DEF UartTake
<1>5. CASE UartDrop
  BY <1>5, ReadIsPrefix DEF UartDrop
<1>6. CASE UartSend
  BY <1>6 DEF UartSend
<1>7. CASE UartAck
  BY <1>7, ReadIsPrefix, ReturnType DEF UartAck
<1>8. CASE UartRetry
  <2>1. missed' \in BOOLEAN
    BY <1>8, OwedType, Zenon DEF UartRetry, Missed
  <2> QED
    BY <1>8, <2>1, ReadIsPrefix DEF UartRetry, Retries
<1>9. CASE UartGiveUp
  BY <1>9, ReadIsPrefix, ReturnType DEF UartGiveUp
<1>10. ASSUME NEW r \in {"ACK", "INVALID", "NONE"}, CiaaAnswer(r)
       PROVE  TypeOK'
  <2>1. line' \in Seq(Cell)
    <3>1. CASE r = "NONE"
      BY <1>10, <3>1 DEF CiaaAnswer
    <3>2. CASE r # "NONE"
      <4>1. r \in Response /\ line' = line \o Cells(r) /\ line \in Seq(Cell)
        BY <1>10, <3>2 DEF CiaaAnswer, Response
      <4> QED
        BY ONLY <4>1, CellsJoined
    <3> QED
      BY <3>1, <3>2
  <2>2. tx' \in Seq(0..MaxCmds)
    BY <1>10 DEF CiaaAnswer
  <2>3. confirmed' \in BOOLEAN
    BY <1>10, Zenon DEF CiaaAnswer
  <2> QED
    BY <1>10, <2>1, <2>2, <2>3 DEF CiaaAnswer
<1>11. CASE CiaaReady
  BY <1>11, CellsType DEF CiaaReady, Response
<1>12. ASSUME NEW k \in 1..Len(line), Receive(k) PROVE TypeOK'
  <2>1. rx' \in Seq(Cell) /\ line' \in Seq(Cell)
    BY <1>12, Split DEF Receive
  <2> QED
    BY <1>12, <2>1 DEF Receive
<1>13. CASE UNCHANGED vars
  BY <1>13 DEF vars
<1> QED
  BY <1>1, <1>2, <1>3, <1>4, <1>5, <1>6, <1>7, <1>8, <1>9, <1>10, <1>11,
     <1>12, <1>13 DEF Next, UartStep, Burst

(* The driver's queue, the attempts and every byte stream keep their types.*)
THEOREM TypeCorrect == Spec => []TypeOK
BY TypeInit, TypeNext, PTL DEF Spec

-----------------------------------------------------------------------------
(* A command is in flight exactly while ready_handler runs; what is        *)
(* written is a STOP or a command taken; and the history of the command in *)
(* flight is clear while there is none.                                    *)
FlightInv ==
  /\ command # 0 <=> uart_pc \in {"send", "await"}
  /\ \A k \in 1..Len(tx) : tx[k] <= taken
  /\ command = 0 => ~confirmed /\ ~missed

LEMMA FlightNext == TypeOK /\ FlightInv /\ [Next]_vars => FlightInv'
<1> SUFFICES ASSUME TypeOK, FlightInv, [Next]_vars PROVE FlightInv'
  OBVIOUS
<1> USE LinkAssumption DEF TypeOK, FlightInv, taskVars, histVars
<1>0. CASE WsQueue
  BY <1>0 DEF WsQueue
<1>1. CASE WsStop
  <2>1. tx' = Append(tx, 0) /\ UNCHANGED <<taken, uart_pc, command, confirmed, missed>>
    BY <1>1 DEF WsStop
  <2>2. \A k \in 1..Len(tx') : tx'[k] <= taken'
    <3>1. /\ Len(tx') = Len(tx) + 1 /\ tx'[Len(tx) + 1] = 0
          /\ \A k \in 1..Len(tx) : tx'[k] = tx[k]
      BY <2>1
    <3>2. Len(tx) \in Nat /\ 0 <= taken /\ taken' = taken
      BY <2>1
    <3> TAKE k \in 1..Len(tx')
    <3>3. CASE k = Len(tx) + 1
      BY <3>1, <3>2, <3>3
    <3>4. CASE k \in 1..Len(tx)
      BY <3>1, <3>2, <3>4
    <3> QED
      BY <3>1, <3>2, <3>3, <3>4
  <2>3. (command # 0 <=> uart_pc \in {"send", "await"})'
    BY <2>1
  <2>4. (command = 0 => ~confirmed /\ ~missed)'
    BY <2>1
  <2> QED
    BY <2>2, <2>3, <2>4
<1>2. CASE UartEvent \/ UartDrop
  BY <1>2 DEF UartEvent, UartDrop
<1>3. CASE UartTake
  BY <1>3 DEF UartTake
<1>4. CASE UartSend
  BY <1>4 DEF UartSend
<1>5. CASE UartAck \/ UartGiveUp
  BY <1>5 DEF UartAck, UartGiveUp, Return
<1>6. CASE UartRetry
  <2>1. command # 0 /\ command' = command /\ uart_pc' = "send"
        /\ tx' = tx /\ taken' = taken
    BY <1>6 DEF UartRetry
  <2> QED
    BY <2>1
<1>7. ASSUME NEW r \in {"ACK", "INVALID", "NONE"}, CiaaAnswer(r)
      PROVE  FlightInv'
  BY <1>7 DEF CiaaAnswer
<1>8. CASE CiaaReady
  BY <1>8 DEF CiaaReady
<1>9. ASSUME NEW k \in 1..Len(line), Receive(k) PROVE FlightInv'
  BY <1>9 DEF Receive
<1>10. CASE UNCHANGED vars
  BY <1>10 DEF vars
<1> QED
  BY <1>0, <1>1, <1>2, <1>3, <1>4, <1>5, <1>6, <1>7, <1>8, <1>9, <1>10
     DEF Next, UartStep, Burst

-----------------------------------------------------------------------------
(* Acknowledgments after an action of the line: reading drops some, a      *)
(* burst moves them, the CIAA adds one message.                            *)
LEMMA AckInParts ==
  ASSUME TypeOK
  PROVE  AckIn(rx) <=> AckIn(Got) \/ AckIn(Rest)
<1>1. /\ ReadCount \in 0..Len(rx) /\ Len(Got) = ReadCount
      /\ Len(Rest) = Len(rx) - ReadCount /\ Len(rx) \in Nat
      /\ \A k \in 1..ReadCount : Got[k] = rx[k]
      /\ \A k \in 1..Len(Rest) : Rest[k] = rx[ReadCount + k]
  BY ReadIsPrefix DEF TypeOK
<1>2. ASSUME NEW k \in 1..Len(rx), rx[k] = <<"ACK", 1>>
      PROVE  AckIn(Got) \/ AckIn(Rest)
  <2>1. CASE k \in 1..ReadCount
    BY <1>1, <1>2, <2>1 DEF AckIn
  <2>2. CASE k \notin 1..ReadCount
    <3>1. k - ReadCount \in 1..Len(Rest)
      BY <1>1, <2>2
    <3>2. Rest[k - ReadCount] = rx[k]
      BY <1>1, <3>1
    <3> QED
      BY <1>2, <3>1, <3>2 DEF AckIn
  <2> QED
    BY <2>1, <2>2
<1>3. AckIn(Got) => AckIn(rx)
  BY <1>1 DEF AckIn
<1>4. AckIn(Rest) => AckIn(rx)
  <2> SUFFICES ASSUME NEW k \in 1..Len(Rest), Rest[k] = <<"ACK", 1>>
               PROVE  AckIn(rx)
    BY DEF AckIn
  <2>1. ReadCount + k \in 1..Len(rx) /\ rx[ReadCount + k] = Rest[k]
    BY <1>1
  <2> QED
    BY <2>1 DEF AckIn
<1> QED
  BY <1>2, <1>3, <1>4 DEF AckIn

LEMMA AckMoves ==
  ASSUME TypeOK, NEW k \in 1..Len(line), Receive(k)
  PROVE  AckIn(rx') \/ AckIn(line') <=> AckIn(rx) \/ AckIn(line)
<1> DEFINE head == SubSeq(line, 1, k)
           tail == SubSeq(line, k + 1, Len(line))
<1>1. /\ line \in Seq(Cell) /\ rx \in Seq(Cell) /\ k \in 0..Len(line)
      /\ rx' = rx \o head /\ line' = tail
  BY DEF TypeOK, Receive
<1>2. /\ head \in Seq(Cell) /\ Len(head) = k
      /\ \A j \in 1..k : head[j] = line[j]
      /\ tail \in Seq(Cell) /\ Len(tail) = Len(line) - k
      /\ \A j \in 1..Len(line) - k : tail[j] = line[k + j]
  BY <1>1, Split
<1> HIDE DEF head, tail
<1>3. /\ Len(rx') = Len(rx) + k
      /\ \A j \in 1..Len(rx) : rx'[j] = rx[j]
      /\ \A j \in 1..k : rx'[Len(rx) + j] = line[j]
  <2>1. rx \in Seq(Cell) /\ head \in Seq(Cell) /\ rx' = rx \o head
    BY <1>1, <1>2
  <2>2. /\ Len(rx') = Len(rx) + Len(head)
        /\ \A j \in 1..Len(rx) : rx'[j] = rx[j]
        /\ \A j \in 1..Len(head) : rx'[Len(rx) + j] = head[j]
    BY <2>1, Joined
  <2> QED
    BY <1>2, <2>2
<1>4. ASSUME NEW j \in 1..Len(rx'), rx'[j] = <<"ACK", 1>>
      PROVE  AckIn(rx) \/ AckIn(line)
  <2>1. CASE j \in 1..Len(rx)
    BY <1>3, <1>4, <2>1 DEF AckIn
  <2>2. CASE j \notin 1..Len(rx)
    <3>1. j - Len(rx) \in 1..k /\ j = Len(rx) + (j - Len(rx))
      BY <1>1, <1>3, <2>2
    <3>2. line[j - Len(rx)] = <<"ACK", 1>> /\ j - Len(rx) \in 1..Len(line)
      BY <1>1, <1>3, <1>4, <3>1
    <3> QED
      BY <3>2 DEF AckIn
  <2> QED
    BY <2>1, <2>2
<1>5. ASSUME NEW j \in 1..Len(line'), line'[j] = <<"ACK", 1>>
      PROVE  AckIn(line)
  <2>1. k + j \in 1..Len(line) /\ line[k + j] = <<"ACK", 1>>
    BY <1>1, <1>2, <1>5
  <2> QED
    BY <2>1 DEF AckIn
<1>6. ASSUME NEW j \in 1..Len(rx), rx[j] = <<"ACK", 1>>
      PROVE  AckIn(rx')
  <2>1. j \in 1..Len(rx') /\ rx'[j] = <<"ACK", 1>>
    BY <1>1, <1>3, <1>6
  <2> QED
    BY <2>1 DEF AckIn
<1>7. ASSUME NEW j \in 1..Len(line), line[j] = <<"ACK", 1>>
      PROVE  AckIn(rx') \/ AckIn(line')
  <2>1. CASE j \in 1..k
    <3>1. Len(rx) + j \in 1..Len(rx') /\ rx'[Len(rx) + j] = <<"ACK", 1>>
      BY <1>1, <1>3, <1>7, <2>1
    <3> QED
      BY <3>1 DEF AckIn
  <2>2. CASE j \notin 1..k
    <3>1. j - k \in 1..Len(line) - k /\ k + (j - k) = j
      BY <1>1, <2>2
    <3>2. j - k \in 1..Len(line') /\ line'[j - k] = <<"ACK", 1>>
      BY <1>1, <1>2, <1>7, <3>1
    <3> QED
      BY <3>2 DEF AckIn
  <2> QED
    BY <2>1, <2>2
<1>8. AckIn(rx') => AckIn(rx) \/ AckIn(line)
  BY <1>4 DEF AckIn
<1>9. AckIn(line') => AckIn(line)
  BY <1>5 DEF AckIn
<1>10. AckIn(line) => AckIn(rx') \/ AckIn(line')
  BY <1>7 DEF AckIn
<1>11. AckIn(rx) => AckIn(rx')
  BY <1>6 DEF AckIn
<1> QED
  BY <1>8, <1>9, <1>10, <1>11

LEMMA AckAdded ==
  ASSUME NEW s \in Seq(Cell), NEW r \in Response
  PROVE  AckIn(s \o Cells(r)) <=> AckIn(s) \/ r = "ACK"
<1>1. /\ Len(s \o Cells(r)) = Len(s) + MsgLen
      /\ \A j \in 1..Len(s) : (s \o Cells(r))[j] = s[j]
      /\ \A j \in 1..MsgLen : (s \o Cells(r))[Len(s) + j] = <<r, j>>
  BY CellsJoined
<1>2. ASSUME NEW j \in 1..Len(s \o Cells(r)), (s \o Cells(r))[j] = <<"ACK", 1>>
      PROVE  AckIn(s) \/ r = "ACK"
  <2>1. CASE j \in 1..Len(s)
    BY <1>1, <1>2, <2>1 DEF AckIn
  <2>2. CASE j \notin 1..Len(s)
    <3>1. j - Len(s) \in 1..MsgLen /\ Len(s) + (j - Len(s)) = j
      BY <1>1, <2>2, Lengths
    <3> QED
      BY <1>1, <1>2, <3>1
  <2> QED
    BY <2>1, <2>2
<1>3. AckIn(s) => AckIn(s \o Cells(r))
  BY <1>1, Lengths DEF AckIn
<1>4. r = "ACK" => AckIn(s \o Cells(r))
  <2>1. Len(s) + 1 \in 1..Len(s \o Cells(r))
    BY <1>1, Lengths
  <2>2. r = "ACK" => (s \o Cells(r))[Len(s) + 1] = <<"ACK", 1>>
    BY <1>1, Lengths
  <2> QED
    BY <2>1, <2>2 DEF AckIn
<1>5. AckIn(s \o Cells(r)) => AckIn(s) \/ r = "ACK"
  BY <1>2 DEF AckIn
<1> QED
  BY <1>3, <1>4, <1>5

(* What parse_data takes for an acknowledgment begins with one. *)
LEMMA AcksBegins ==
  ASSUME TypeOK, Acks(Got)
  PROVE  AckIn(Got)
<1>1. Whole(Got) /\ Got[1][1] = "ACK" /\ Got[1][2] = 1 /\ Len(Got) \in Body..MsgLen
  BY DEF Acks, Parse, Whole
<1>2. 1 \in 1..Len(Got) /\ Got[1] \in Cell
  BY <1>1, Lengths, ReadIsPrefix
<1>3. Got[1] = <<"ACK", 1>>
  BY <1>1, <1>2 DEF Cell
<1> QED
  BY <1>2, <1>3 DEF AckIn

-----------------------------------------------------------------------------
(* If nothing older was to be answered, only the command in flight is on   *)
(* its way to the CIAA, and an acknowledgment on its way back is its own.  *)
OwnInv ==
  command # 0 /\ ~stray =>
    /\ \A k \in 1..Len(tx) : tx[k] = command
    /\ AckIn(rx) \/ AckIn(line) => confirmed

LEMMA OwnNext ==
  TypeOK /\ FlightInv /\ OwnInv /\ [Next]_vars => OwnInv'
<1> SUFFICES ASSUME TypeOK, FlightInv, OwnInv, [Next]_vars PROVE OwnInv'
  OBVIOUS
<1> USE DEF OwnInv, taskVars, histVars
<1>1. CASE WsQueue \/ WsStop \/ UartEvent
  BY <1>1 DEF WsQueue, WsStop, UartEvent, AckIn
<1>2. CASE UartTake
  <2>1. rx' = Rest /\ line' = line /\ tx' = tx /\ stray' = Owed(Rest)
    BY <1>2 DEF UartTake
  <2>2. ~stray' => tx = <<>> /\ ~AckIn(line') /\ ~AckIn(rx')
    BY <2>1 DEF Owed
  <2> QED
    BY <2>1, <2>2
<1>3. CASE UartDrop \/ UartRetry
  <2>1. /\ rx' = Rest /\ line' = line
        /\ UNCHANGED <<tx, command, confirmed, stray>>
    BY <1>3 DEF UartDrop, UartRetry
  <2>2. AckIn(rx') => AckIn(rx)
    BY <2>1, AckInParts
  <2>3. AckIn(line') <=> AckIn(line)
    BY <2>1
  <2> QED
    BY <2>1, <2>2, <2>3
<1>4. CASE UartSend
  <2>1. /\ tx' = Append(tx, command) /\ tx \in Seq(0..MaxCmds)
        /\ UNCHANGED <<rx, line, command, confirmed, stray>>
    BY <1>4 DEF UartSend, TypeOK
  <2>2. ASSUME NEW k \in 1..Len(tx'), \A j \in 1..Len(tx) : tx[j] = command
        PROVE  tx'[k] = command
    BY <2>1, <2>2
  <2>3. (AckIn(rx') <=> AckIn(rx)) /\ (AckIn(line') <=> AckIn(line))
    BY <2>1
  <2> QED
    BY <2>1, <2>2, <2>3
<1>5. CASE UartAck \/ UartGiveUp
  BY <1>5 DEF UartAck, UartGiveUp, Return
<1>6. ASSUME NEW r \in {"ACK", "INVALID", "NONE"}, CiaaAnswer(r)
      PROVE  OwnInv'
  <2>1. /\ tx # <<>> /\ tx' = Tail(tx)
        /\ line' = IF r = "NONE" THEN line ELSE line \o Cells(r)
        /\ UNCHANGED <<rx, command, stray>>
    BY <1>6 DEF CiaaAnswer
  <2>2. confirmed' = (confirmed \/ (r = "ACK" /\ command # 0 /\ Head(tx) = command))
    BY <1>6 DEF CiaaAnswer
  <2>3. AckIn(line') => AckIn(line) \/ r = "ACK"
    BY <2>1, AckAdded DEF TypeOK, Response
  <2>4. AckIn(rx') <=> AckIn(rx)
    BY <2>1
  <2>5. CASE command # 0 /\ ~stray
    <3>1. \A k \in 1..Len(tx) : tx[k] = command
      BY <2>5
    <3>2. Head(tx) = command
      BY <2>1, <3>1 DEF TypeOK
    <3>3. \A k \in 1..Len(tx') : tx'[k] = command
      BY <2>1, <3>1 DEF TypeOK
    <3>4. AckIn(rx') \/ AckIn(line') => confirmed'
      BY <2>2, <2>3, <2>4, <2>5, <3>2
    <3> QED
      BY <2>1, <3>3, <3>4
  <2> QED
    BY <2>1, <2>5
<1>7. CASE CiaaReady
  <2>1. line' = line \o Cells("READY") /\ UNCHANGED <<tx, rx, command, stray, confirmed>>
    BY <1>7 DEF CiaaReady
  <2>2. AckIn(line') <=> AckIn(line)
    BY <2>1, AckAdded DEF TypeOK, Response
  <2>3. AckIn(rx') <=> AckIn(rx)
    BY <2>1
  <2> QED
    BY <2>1, <2>2, <2>3
<1>8. ASSUME NEW k \in 1..Len(line), Receive(k) PROVE OwnInv'
  <2>1. UNCHANGED <<tx, command, stray, confirmed>>
    BY <1>8 DEF Receive
  <2> QED
    BY <1>8, <2>1, AckMoves
<1>9. CASE UNCHANGED vars
  <2>1. UNCHANGED <<tx, rx, line, command, stray, confirmed>>
    BY <1>9 DEF vars
  <2> QED
    BY <2>1 DEF AckIn
<1> QED
  BY <1>1, <1>2, <1>3, <1>4, <1>5, <1>6, <1>7, <1>8, <1>9
     DEF Next, UartStep, Burst

LEMMA FlightInit == Init => FlightInv
BY DEF Init, FlightInv

LEMMA LinkInvariant == Spec => [](TypeOK /\ FlightInv /\ OwnInv)
<1>1. Init => OwnInv
  BY DEF Init, OwnInv
<1> QED
  BY <1>1, TypeInit, TypeNext, FlightInit, FlightNext, OwnNext, PTL DEF Spec

(* Unless something older was unanswered when the command was taken, or a  *)
(* STOP was written past it, what ready_handler takes for the command's    *)
(* acknowledgment is one, although it never looks at the identifier.       *)
THEOREM AcknowledgmentsAreGenuine == Spec => AckIsGenuine
<1>1. TypeOK /\ FlightInv /\ OwnInv /\ [Next]_vars
        => [UartAck /\ ~stray => confirmed]_vars
  <2> SUFFICES ASSUME TypeOK, FlightInv, OwnInv, UartAck, ~stray
               PROVE  confirmed
    OBVIOUS
  <2>1. command # 0 /\ Acks(Got)
    BY DEF UartAck, FlightInv
  <2>2. AckIn(rx)
    BY <2>1, AcksBegins, AckInParts
  <2> QED
    BY <2>1, <2>2 DEF OwnInv
<1> QED
  BY <1>1, LinkInvariant, PTL DEF Spec, AckIsGenuine

-----------------------------------------------------------------------------
(* What has been sent and not read: the driver's bytes, then the line's.   *)
(* After the first cell of a message comes the rest of it.                 *)
At(r, l, k) == IF k <= Len(r) THEN r[k] ELSE l[k - Len(r)]

Framed(r, l) ==
  \A j \in 1..Len(r) + Len(l) :
    At(r, l, j)[2] = 1 =>
      /\ j + MsgLen - 1 <= Len(r) + Len(l)
      /\ \A k \in 0..MsgLen - 1 : At(r, l, j + k)[2] = k + 1

FramedInv == Framed(rx, line)

LEMMA AtLine ==
  ASSUME NEW r, NEW l, NEW m, ~(m <= Len(r))
  PROVE  At(r, l, m) = l[m - Len(r)]
BY DEF At

(* Dropping cells from the front keeps the rest framed. *)
LEMMA FramedShift ==
  ASSUME NEW r \in Seq(Cell), NEW l \in Seq(Cell), Framed(r, l),
         NEW r2 \in Seq(Cell), NEW l2 \in Seq(Cell),
         NEW n \in 0..Len(r) + Len(l),
         Len(r2) + Len(l2) = Len(r) + Len(l) - n,
         \A k \in 1..Len(r2) + Len(l2) : At(r2, l2, k) = At(r, l, n + k)
  PROVE  Framed(r2, l2)
<1> DEFINE t == Len(r) + Len(l)
           t2 == Len(r2) + Len(l2)
<1>1. t \in Nat /\ t2 \in Nat /\ t2 = t - n /\ n \in Nat /\ MsgLen \in Nat \ {0}
  BY Lengths
<1> SUFFICES ASSUME NEW j \in 1..t2, At(r2, l2, j)[2] = 1
             PROVE  /\ j + MsgLen - 1 <= t2
                    /\ \A k \in 0..MsgLen - 1 : At(r2, l2, j + k)[2] = k + 1
  BY DEF Framed
<1>2. n + j \in 1..t /\ At(r, l, n + j)[2] = 1
  BY <1>1
<1>3. /\ n + j + MsgLen - 1 <= t
      /\ \A k \in 0..MsgLen - 1 : At(r, l, n + j + k)[2] = k + 1
  BY <1>2 DEF Framed
<1>4. ASSUME NEW k \in 0..MsgLen - 1 PROVE At(r2, l2, j + k)[2] = k + 1
  <2>1. j + k \in 1..t2 /\ n + (j + k) = n + j + k
    BY <1>1, <1>3
  <2>2. At(r2, l2, j + k) = At(r, l, n + j + k)
    BY <2>1
  <2> QED
    BY <1>3, <2>2
<1> QED
  BY <1>1, <1>3, <1>4

(* So does adding a message. *)
LEMMA FramedAdd ==
  ASSUME NEW r \in Seq(Cell), NEW l \in Seq(Cell), Framed(r, l),
         NEW a \in Response
  PROVE  Framed(r, l \o Cells(a))
<1> DEFINE l2 == l \o Cells(a)
           t == Len(r) + Len(l)
           t2 == Len(r) + Len(l2)
<1>1. MsgLen \in Nat \ {0} /\ Len(r) \in Nat /\ Len(l) \in Nat /\ t \in Nat
  BY Lengths
<1>2. /\ Len(l2) = Len(l) + MsgLen
      /\ \A j \in 1..Len(l) : l2[j] = l[j]
      /\ \A j \in 1..MsgLen : l2[Len(l) + j] = <<a, j>>
  BY CellsJoined
<1> HIDE DEF l2
<1>3. t2 = t + MsgLen
  BY <1>1, <1>2
<1>4. ASSUME NEW k \in 1..t PROVE At(r, l2, k) = At(r, l, k)
  <2>1. CASE k <= Len(r)
    BY <2>1 DEF At
  <2>2. CASE ~(k <= Len(r))
    <3>1. k - Len(r) \in 1..Len(l)
      BY <1>1, <2>2
    <3> QED
      BY <1>2, <2>2, <3>1 DEF At
  <2> QED
    BY <2>1, <2>2
<1>5. ASSUME NEW m \in 1..MsgLen PROVE At(r, l2, t + m)[2] = m
  <2>1. ~(t + m <= Len(r)) /\ t + m - Len(r) = Len(l) + m
    BY <1>1
  <2>2. At(r, l2, t + m) = l2[Len(l) + m]
    BY <2>1 DEF At
  <2> QED
    BY <1>2, <2>2
<1> HIDE DEF t, t2
<1>6. ASSUME NEW j \in 1..t2, At(r, l2, j)[2] = 1
      PROVE  /\ j + MsgLen - 1 <= t2
             /\ \A k \in 0..MsgLen - 1 : At(r, l2, j + k)[2] = k + 1
  <2>1. CASE j \in 1..t
    <3>1. /\ j + MsgLen - 1 <= t
          /\ \A k \in 0..MsgLen - 1 : At(r, l, j + k)[2] = k + 1
      BY <1>4, <1>6, <2>1 DEF Framed, t
    <3>2. ASSUME NEW k \in 0..MsgLen - 1 PROVE At(r, l2, j + k)[2] = k + 1
      <4>1. j + k \in 1..t
        BY <1>1, <2>1, <3>1
      <4> QED
        BY <1>4, <3>1, <4>1
    <3> QED
      BY <1>1, <1>3, <3>1, <3>2
  <2>2. CASE j \notin 1..t
    <3>1. j - t \in 1..MsgLen /\ t + (j - t) = j
      BY <1>1, <1>3, <2>2
    <3>2. j = t + 1
      <4>1. At(r, l2, t + (j - t))[2] = j - t
        BY <1>5, <3>1
      <4>2. j - t = 1
        BY <1>6, <3>1, <4>1
      <4> QED
        BY <1>1, <4>2
    <3>3. ASSUME NEW k \in 0..MsgLen - 1 PROVE At(r, l2, j + k)[2] = k + 1
      <4>1. k + 1 \in 1..MsgLen /\ j + k = t + (k + 1)
        BY <1>1, <3>2
      <4>2. At(r, l2, t + (k + 1))[2] = k + 1
        BY <1>5, <4>1
      <4> QED
        BY <4>1, <4>2
    <3> QED
      BY <1>1, <1>3, <3>2, <3>3
  <2> QED
    BY <2>1, <2>2
<1> QED
  BY <1>6 DEF Framed, t2, l2

(* A read. *)
LEMMA FramedRead == ASSUME TypeOK, FramedInv PROVE Framed(Rest, line)
<1>1. /\ rx \in Seq(Cell) /\ line \in Seq(Cell) /\ Rest \in Seq(Cell)
      /\ Len(rx) \in Nat /\ Len(line) \in Nat
      /\ ReadCount \in 0..Len(rx) /\ Len(Rest) = Len(rx) - ReadCount
      /\ \A k \in 1..Len(Rest) : Rest[k] = rx[ReadCount + k]
  BY ReadIsPrefix DEF TypeOK
<1>2. ASSUME NEW k \in 1..Len(Rest) + Len(line)
      PROVE  At(Rest, line, k) = At(rx, line, ReadCount + k)
  <2>1. CASE k <= Len(Rest)
    <3>1. k \in 1..Len(Rest) /\ ReadCount + k <= Len(rx)
      BY <1>1, <2>1
    <3>2. Rest[k] = rx[ReadCount + k]
      BY <1>1, <3>1
    <3>3. At(Rest, line, k) = Rest[k]
      BY <2>1 DEF At
    <3>4. At(rx, line, ReadCount + k) = rx[ReadCount + k]
      BY <3>1 DEF At
    <3> QED
      BY <3>2, <3>3, <3>4
  <2>2. CASE ~(k <= Len(Rest))
    <3>1. ~(ReadCount + k <= Len(rx)) /\ k - Len(Rest) = ReadCount + k - Len(rx)
      <4>1. /\ k \in Int /\ ReadCount \in Int /\ Len(rx) \in Int
            /\ Len(Rest) = Len(rx) - ReadCount
        BY <1>1
      <4> QED
        BY <2>2, <4>1
    <3>2. At(Rest, line, k) = line[k - Len(Rest)]
      BY <2>2 DEF At
    <3>3. PICK m \in Int : m = ReadCount + k
      BY <1>1
    <3>4. ~(m <= Len(rx)) /\ m - Len(rx) = k - Len(Rest)
      BY <1>1, <3>1, <3>3
    <3>5. At(rx, line, m) = line[k - Len(Rest)]
      BY <3>4, AtLine
    <3> QED
      BY <3>2, <3>3, <3>5
  <2> QED
    BY <2>1, <2>2
<1>3. /\ ReadCount \in 0..Len(rx) + Len(line)
      /\ Len(Rest) + Len(line) = Len(rx) + Len(line) - ReadCount
  BY <1>1
<1> QED
  BY <1>1, <1>2, <1>3, FramedShift DEF FramedInv

(* A burst. *)
LEMMA FramedBurst ==
  ASSUME TypeOK, FramedInv, NEW n \in 1..Len(line), Receive(n)
  PROVE  Framed(rx', line')
<1> DEFINE head == SubSeq(line, 1, n)
           tail == SubSeq(line, n + 1, Len(line))
           r2 == rx \o head
<1>1. /\ line \in Seq(Cell) /\ rx \in Seq(Cell) /\ n \in 0..Len(line)
      /\ Len(rx) \in Nat /\ Len(line) \in Nat
  BY DEF TypeOK
<1>2. /\ head \in Seq(Cell) /\ Len(head) = n
      /\ \A j \in 1..n : head[j] = line[j]
      /\ tail \in Seq(Cell) /\ Len(tail) = Len(line) - n
      /\ \A j \in 1..Len(line) - n : tail[j] = line[n + j]
  BY <1>1, Split
<1> HIDE DEF head, tail
<1>3. /\ Len(r2) = Len(rx) + n /\ r2 \in Seq(Cell)
      /\ \A j \in 1..Len(rx) : r2[j] = rx[j]
      /\ \A j \in 1..n : r2[Len(rx) + j] = line[j]
  <2>1. /\ r2 \in Seq(Cell) /\ Len(r2) = Len(rx) + Len(head)
        /\ \A j \in 1..Len(rx) : r2[j] = rx[j]
        /\ \A j \in 1..Len(head) : r2[Len(rx) + j] = head[j]
    BY <1>1, <1>2, Joined
  <2> QED
    BY <1>2, <2>1
<1> HIDE DEF r2
<1>4. ASSUME NEW k \in 1..Len(r2) + Len(tail)
      PROVE  At(r2, tail, k) = At(rx, line, 0 + k)
  <2>1. CASE k <= Len(rx)
    <3>1. k \in 1..Len(rx) /\ k <= Len(r2) /\ 0 + k = k
      BY <1>1, <1>3, <2>1
    <3> QED
      BY <1>3, <2>1, <3>1 DEF At
  <2>2. CASE ~(k <= Len(rx)) /\ k <= Len(r2)
    <3>1. k - Len(rx) \in 1..n /\ Len(rx) + (k - Len(rx)) = k /\ 0 + k = k
      BY <1>1, <1>3, <2>2
    <3>2. r2[k] = line[k - Len(rx)]
      BY <1>3, <3>1
    <3> QED
      BY <2>2, <3>1, <3>2 DEF At
  <2>3. CASE ~(k <= Len(r2))
    <3>1. /\ ~(k <= Len(rx)) /\ 0 + k = k
          /\ k - Len(r2) \in 1..Len(line) - n
          /\ n + (k - Len(r2)) = k - Len(rx)
      BY <1>1, <1>2, <1>3, <2>3
    <3>2. tail[k - Len(r2)] = line[k - Len(rx)]
      BY <1>2, <3>1
    <3> QED
      BY <2>3, <3>1, <3>2 DEF At
  <2> QED
    BY <2>1, <2>2, <2>3
<1>5. 0 \in 0..Len(rx) + Len(line) /\ Len(r2) + Len(tail) = Len(rx) + Len(line) - 0
  BY <1>1, <1>2, <1>3
<1>6. Framed(r2, tail)
  BY <1>1, <1>2, <1>3, <1>4, <1>5, FramedShift DEF FramedInv
<1>7. rx' = r2 /\ line' = tail
  BY DEF Receive, r2, head, tail
<1> QED
  BY <1>6, <1>7

LEMMA FramedNext == TypeOK /\ FramedInv /\ [Next]_vars => FramedInv'
<1> SUFFICES ASSUME TypeOK, FramedInv, [Next]_vars PROVE FramedInv'
  OBVIOUS
<1>0. ASSUME Framed(rx', line') PROVE FramedInv'
  BY <1>0 DEF FramedInv, Framed, At, MsgLen
<1>1. CASE UNCHANGED <<rx, line>>
  BY <1>0, <1>1 DEF FramedInv
<1>2. CASE rx' = Rest /\ line' = line
  BY <1>0, <1>2, FramedRead
<1>3. ASSUME NEW r \in Response, rx' = rx, line' = line \o Cells(r)
      PROVE  FramedInv'
  BY <1>0, <1>3, FramedAdd DEF FramedInv, TypeOK
<1>4. ASSUME NEW n \in 1..Len(line), Receive(n) PROVE FramedInv'
  BY <1>0, <1>4, FramedBurst
<1>5. CASE WsQueue \/ WsStop \/ UartEvent \/ UartSend \/ UNCHANGED vars
  BY <1>1, <1>5 DEF WsQueue, WsStop, UartEvent, UartSend, vars
<1>6. CASE UartTake \/ UartDrop \/ UartAck \/ UartRetry \/ UartGiveUp
  BY <1>2, <1>6 DEF UartTake, UartDrop, UartAck, UartRetry, UartGiveUp
<1>7. ASSUME NEW r \in {"ACK", "INVALID", "NONE"}, CiaaAnswer(r)
      PROVE  FramedInv'
  BY <1>1, <1>3, <1>7 DEF CiaaAnswer, Response
<1>8. CASE CiaaReady
  BY <1>3, <1>8 DEF CiaaReady, Response
<1> QED
  BY <1>4, <1>5, <1>6, <1>7, <1>8 DEF Next, UartStep, Burst

(* A whole message with an acknowledgment in it is taken for one. *)
LEMMA WholeAck ==
  ASSUME TypeOK, FramedInv, Whole(Got), AckIn(Got)
  PROVE  Acks(Got)
<1>1. /\ Len(Got) \in Body..MsgLen /\ Got[1][2] = 1
      /\ MsgLen \in Nat /\ Body \in Nat \ {0}
  BY Lengths DEF Whole
<1>2. /\ Len(Got) = ReadCount /\ ReadCount \in 0..Len(rx)
      /\ \A k \in 1..ReadCount : Got[k] = rx[k]
      /\ Len(rx) \in Nat /\ Len(line) \in Nat
  <2>1. Len(rx) \in Nat /\ Len(line) \in Nat
    BY DEF TypeOK
  <2> QED
    BY <2>1, ReadIsPrefix
<1>3. ASSUME NEW k \in 1..Len(Got) PROVE Got[k][2] = k
  <2>1. 1 \in 1..Len(rx) + Len(line) /\ 1 \in 1..ReadCount /\ k \in 1..ReadCount
        /\ 1 <= Len(rx) /\ k <= Len(rx)
    BY <1>1, <1>2
  <2>2. /\ At(rx, line, 1) = rx[1] /\ rx[1] = Got[1]
        /\ At(rx, line, k) = rx[k] /\ rx[k] = Got[k]
    <3>1. At(rx, line, 1) = rx[1] /\ At(rx, line, k) = rx[k]
      BY <2>1 DEF At
    <3> QED
      BY <1>2, <2>1, <3>1
  <2>3. k - 1 \in 0..MsgLen - 1 /\ 1 + (k - 1) = k /\ (k - 1) + 1 = k
    BY <1>1
  <2>4. \A m \in 0..MsgLen - 1 : At(rx, line, 1 + m)[2] = m + 1
    <3>1. At(rx, line, 1)[2] = 1
      BY <1>1, <2>2
    <3> QED
      BY <2>1, <3>1 DEF FramedInv, Framed
  <2>5. At(rx, line, 1 + (k - 1))[2] = (k - 1) + 1
    BY <2>3, <2>4
  <2> QED
    BY <2>2, <2>3, <2>5
<1>4. PICK k \in 1..Len(Got) : Got[k] = <<"ACK", 1>>
  BY DEF AckIn
<1>5. Got[k][2] = 1
  BY <1>4
<1>6. Got[k][1] = "ACK"
  BY <1>4
<1>7. Got[k][2] = k
  BY <1>3
<1>8. k = 1
  BY <1>5, <1>7
<1>9. Got[1][1] = "ACK"
  BY <1>6, <1>8
<1> QED
  BY <1>9 DEF Acks, Parse

(* While every read is one message and leaves nothing behind, a command    *)
(* acknowledged has its acknowledgment still to be read.                   *)
HeardInv ==
  command # 0 /\ ~missed =>
    /\ uart_pc = "await" /\ confirmed => AckIn(rx) \/ AckIn(line)
    /\ uart_pc = "send" => ~confirmed /\ \A k \in 1..Len(tx) : tx[k] # command

(* Such a read, if it is no acknowledgment, shows there was none. *)
LEMMA ReadTellsAll ==
  ASSUME TypeOK, FlightInv, FramedInv, HeardInv,
         uart_pc = "await", ~Acks(Got), ~Missed
  PROVE  ~confirmed /\ tx = <<>>
<1>1. /\ ~missed /\ tx = <<>> /\ ~AckIn(line) /\ ~AckIn(Rest)
      /\ Got = <<>> \/ Whole(Got)
  BY DEF Missed, Owed
<1>2. ~AckIn(Got)
  <2>1. Got = <<>> => ~AckIn(Got)
    BY DEF AckIn
  <2>2. Whole(Got) => ~AckIn(Got)
    BY WholeAck
  <2> QED
    BY <1>1, <2>1, <2>2
<1>3. ~AckIn(rx)
  BY <1>1, <1>2, AckInParts
<1>4. command # 0
  BY DEF FlightInv
<1> QED
  BY <1>1, <1>3, <1>4 DEF HeardInv

LEMMA HeardNext ==
  TypeOK /\ FlightInv /\ FramedInv /\ HeardInv /\ [Next]_vars => HeardInv'
<1> SUFFICES ASSUME TypeOK, FlightInv, FramedInv, HeardInv, [Next]_vars
             PROVE  HeardInv'
  OBVIOUS
<1> USE DEF taskVars, histVars
<1>1. CASE WsQueue \/ UNCHANGED vars
  <2>1. UNCHANGED <<command, missed, uart_pc, confirmed, rx, line, tx>>
    BY <1>1 DEF WsQueue, vars
  <2> QED
    BY <2>1 DEF HeardInv, AckIn
<1>2. CASE WsStop
  <2>1. /\ tx' = Append(tx, 0) /\ tx \in Seq(0..MaxCmds)
        /\ UNCHANGED <<command, missed, uart_pc, confirmed, rx, line>>
    BY <1>2 DEF WsStop, TypeOK
  <2>2. ASSUME command # 0, \A k \in 1..Len(tx) : tx[k] # command
        PROVE  \A k \in 1..Len(tx') : tx'[k] # command'
    <3>1. /\ Len(tx') = Len(tx) + 1 /\ tx'[Len(tx) + 1] = 0
          /\ \A k \in 1..Len(tx) : tx'[k] = tx[k]
          /\ Len(tx) \in Nat
      BY <2>1
    <3> TAKE k \in 1..Len(tx')
    <3>2. CASE k = Len(tx) + 1
      BY <2>1, <2>2, <3>1, <3>2
    <3>3. CASE k \in 1..Len(tx)
      BY <2>1, <2>2, <3>1, <3>3
    <3> QED
      BY <3>1, <3>2, <3>3
  <2>3. (AckIn(rx') <=> AckIn(rx)) /\ (AckIn(line') <=> AckIn(line))
    BY <2>1
  <2> QED
    BY <2>1, <2>2, <2>3 DEF HeardInv
<1>3. CASE UartEvent \/ UartDrop
  <2>1. command = 0 /\ command' = command
    BY <1>3 DEF UartEvent, UartDrop, FlightInv
  <2> QED
    BY <2>1 DEF HeardInv
<1>4. CASE UartTake
  <2>1. /\ command = 0 /\ command' = taken + 1 /\ uart_pc' = "send"
        /\ UNCHANGED <<tx, confirmed>>
    BY <1>4 DEF UartTake, FlightInv
  <2>2. ~confirmed
    BY <2>1 DEF FlightInv
  <2>3. ASSUME NEW k \in 1..Len(tx) PROVE tx[k] # taken + 1
    BY LinkAssumption DEF FlightInv, TypeOK
  <2> QED
    BY <2>1, <2>2, <2>3 DEF HeardInv
<1>5. CASE UartSend
  <2>1. uart_pc = "send" /\ uart_pc' = "await"
        /\ UNCHANGED <<command, missed, confirmed>>
    BY <1>5 DEF UartSend
  <2> QED
    BY <2>1 DEF HeardInv
<1>6. CASE UartAck \/ UartGiveUp
  <2>1. command' = 0
    BY <1>6 DEF UartAck, UartGiveUp, Return
  <2> QED
    BY <2>1 DEF HeardInv
<1>7. CASE UartRetry
  <2>1. /\ uart_pc = "await" /\ ~Acks(Got) /\ uart_pc' = "send"
        /\ missed' = Missed /\ UNCHANGED <<tx, confirmed, command>>
    BY <1>7 DEF UartRetry
  <2>2. ~missed' => ~confirmed /\ tx = <<>>
    BY <2>1, ReadTellsAll
  <2> QED
    BY <2>1, <2>2 DEF HeardInv
<1>8. ASSUME NEW r \in {"ACK", "INVALID", "NONE"}, CiaaAnswer(r)
      PROVE  HeardInv'
  <2>1. /\ tx # <<>> /\ tx' = Tail(tx) /\ tx \in Seq(0..MaxCmds)
        /\ line' = IF r = "NONE" THEN line ELSE line \o Cells(r)
        /\ UNCHANGED <<command, missed, uart_pc, rx>>
    BY <1>8 DEF CiaaAnswer, TypeOK
  <2>2. confirmed' = (confirmed \/ (r = "ACK" /\ command # 0 /\ Head(tx) = command))
    BY <1>8 DEF CiaaAnswer
  <2>3. r = "ACK" => AckIn(line')
    BY <2>1, AckAdded DEF TypeOK, Response
  <2>4. AckIn(line) => AckIn(line')
    BY <2>1, AckAdded DEF TypeOK, Response
  <2>5. AckIn(rx') <=> AckIn(rx)
    BY <2>1
  <2>6. ASSUME \A k \in 1..Len(tx) : tx[k] # command
        PROVE  Head(tx) # command /\ \A k \in 1..Len(tx') : tx'[k] # command'
    BY <2>1, <2>6
  <2> QED
    BY <2>1, <2>2, <2>3, <2>4, <2>5, <2>6 DEF HeardInv
<1>9. CASE CiaaReady
  <2>1. /\ line' = line \o Cells("READY")
        /\ UNCHANGED <<command, missed, uart_pc, confirmed, rx, tx>>
    BY <1>9 DEF CiaaReady
  <2>2. AckIn(line') <=> AckIn(line)
    BY <2>1, AckAdded DEF TypeOK, Response
  <2>3. AckIn(rx') <=> AckIn(rx)
    BY <2>1
  <2> QED
    BY <2>1, <2>2, <2>3 DEF HeardInv
<1>10. ASSUME NEW k \in 1..Len(line), Receive(k) PROVE HeardInv'
  <2>1. UNCHANGED <<command, missed, uart_pc, confirmed, tx>>
    BY <1>10 DEF Receive
  <2>2. AckIn(rx') \/ AckIn(line') <=> AckIn(rx) \/ AckIn(line)
    BY <1>10, AckMoves
  <2> QED
    BY <2>1, <2>2 DEF HeardInv
<1> QED
  BY <1>1, <1>2, <1>3, <1>4, <1>5, <1>6, <1>7, <1>8, <1>9, <1>10
     DEF Next, UartStep, Burst

LEMMA HeardInvariant ==
  Spec => [](TypeOK /\ FlightInv /\ FramedInv /\ HeardInv)
<1>1. Init => FramedInv /\ HeardInv
  <2> SUFFICES ASSUME Init PROVE FramedInv /\ HeardInv
    OBVIOUS
  <2>1. rx = <<>> /\ line = <<>> /\ command = 0
    BY DEF Init
  <2>2. Len(rx) + Len(line) = 0
    BY <2>1
  <2>3. FramedInv
    BY <2>2 DEF FramedInv, Framed
  <2> QED
    BY <2>1, <2>3 DEF HeardInv
<1> QED
  BY <1>1, TypeInit, TypeNext, FlightInit, FlightNext, FramedNext, HeardNext,
     PTL DEF Spec

(* ready_handler gives up a command the controller acknowledged only if    *)
(* one of its reads was no single message or left an answer on its way.    *)
THEOREM FailuresAreGenuine == Spec => FailureIsGenuine
<1>1. TypeOK /\ FlightInv /\ FramedInv /\ HeardInv /\ [Next]_vars
        => [UartGiveUp /\ ~Missed => ~confirmed]_vars
  <2> SUFFICES ASSUME TypeOK, FlightInv, FramedInv, HeardInv, UartGiveUp, ~Missed
               PROVE  ~confirmed
    OBVIOUS
  <2>1. uart_pc = "await" /\ ~Acks(Got)
    BY DEF UartGiveUp
  <2> QED
    BY <2>1, ReadTellsAll
<1> QED
  BY <1>1, HeardInvariant, PTL DEF Spec, FailureIsGenuine

-----------------------------------------------------------------------------
(* The record of what became of each command, and the service it is        *)
(* compared with. Between commands no attempt is counted.                  *)
RestInv == command = 0 => i = 0

LEMMA RecordIsLink == RecordNext => Next
BY DEF RecordNext, Next, UartStep, Burst

LEMMA RestNext ==
  ASSUME TypeOK, FlightInv, RestInv, [Next]_vars
  PROVE  RestInv'
<1> USE DEF TypeOK, FlightInv, RestInv, taskVars
<1>1. CASE WsQueue \/ WsStop \/ UartEvent \/ UartDrop \/ UartSend \/ CiaaReady
  BY <1>1 DEF WsQueue, WsStop, UartEvent, UartDrop, UartSend, CiaaReady
<1>2. CASE UartTake
  BY <1>2 DEF UartTake
<1>3. CASE UartAck \/ UartGiveUp
  BY <1>3 DEF UartAck, UartGiveUp, Return
<1>4. CASE UartRetry
  BY <1>4 DEF UartRetry
<1>5. CASE (\E r \in {"ACK", "INVALID", "NONE"} : CiaaAnswer(r)) \/ Burst
  BY <1>5 DEF CiaaAnswer, Burst, Receive
<1>6. CASE UNCHANGED vars
  BY <1>6 DEF vars
<1> QED
  BY <1>1, <1>2, <1>3, <1>4, <1>5, <1>6 DEF Next, UartStep

(* Commands wait in the order of their numbers, taken + 1 to arrived.      *)
LEMMA WaitingIs ==
  ASSUME TypeOK
  PROVE  /\ Waiting \in Seq(Nat)
         /\ Len(Waiting) = arrived - taken
         /\ \A k \in 1..arrived - taken : Waiting[k] = taken + k
BY LinkAssumption DEF TypeOK, Waiting

(* One more arrives at the end of them, and the first is taken.            *)
LEMMA OneMoreWaits ==
  ASSUME TypeOK, WsQueue
  PROVE  Waiting' = Append(Waiting, arrived')
<1>1. /\ arrived' = arrived + 1 /\ taken' = taken
      /\ arrived \in Nat /\ taken \in Nat /\ taken <= arrived
  BY LinkAssumption DEF TypeOK, WsQueue, taskVars
<1>2. Waiting' = [k \in 1..(arrived + 1 - taken) |-> taken + k]
  BY <1>1 DEF Waiting
<1>3. /\ Waiting \in Seq(Nat) /\ Len(Waiting) = arrived - taken
      /\ \A k \in 1..arrived - taken : Waiting[k] = taken + k
  BY WaitingIs
<1> QED
  BY <1>1, <1>2, <1>3

LEMMA SameSequence ==
  ASSUME NEW s \in Seq(Nat), NEW t \in Seq(Nat), Len(s) = Len(t),
         \A k \in 1..Len(s) : s[k] = t[k]
  PROVE  s = t
OBVIOUS

LEMMA TailIs ==
  ASSUME NEW s \in Seq(Nat), s # <<>>
  PROVE  /\ Tail(s) \in Seq(Nat)
         /\ Len(Tail(s)) = Len(s) - 1
         /\ \A k \in 1..Len(s) - 1 : Tail(s)[k] = s[k + 1]
OBVIOUS

LEMMA FirstIsTaken ==
  ASSUME TypeOK, UartTake
  PROVE  /\ Waiting # <<>>
         /\ Head(Waiting) = taken + 1
         /\ Waiting' = Tail(Waiting)
<1>1. /\ taken' = taken + 1 /\ arrived' = arrived
      /\ arrived \in Nat /\ taken \in Nat /\ taken < arrived
  BY LinkAssumption DEF TypeOK, UartTake
<1>2. Waiting' = [k \in 1..(arrived - (taken + 1)) |-> taken + 1 + k]
  BY <1>1 DEF Waiting
<1>3. /\ Waiting \in Seq(Nat) /\ Len(Waiting) = arrived - taken
      /\ \A k \in 1..arrived - taken : Waiting[k] = taken + k
  BY WaitingIs
<1>4. Waiting # <<>> /\ Head(Waiting) = taken + 1
  BY <1>1, <1>3
<1>5. /\ Tail(Waiting) \in Seq(Nat) /\ Len(Tail(Waiting)) = arrived - taken - 1
      /\ \A k \in 1..arrived - taken - 1 : Tail(Waiting)[k] = Waiting[k + 1]
  BY <1>3, <1>4, TailIs
<1>6. ASSUME NEW k \in 1..arrived - taken - 1
      PROVE  Waiting[k + 1] = taken + 1 + k
  <2>1. k \in Int /\ k + 1 \in 1..arrived - taken
    BY <1>1, <1>6
  <2>2. Waiting[k + 1] = taken + (k + 1)
    BY <1>3, <2>1
  <2> QED
    BY <1>1, <2>1, <2>2
<1>7. /\ Waiting' \in Seq(Nat) /\ Len(Waiting') = arrived - taken - 1
      /\ \A k \in 1..arrived - taken - 1 : Waiting'[k] = taken + 1 + k
  BY <1>1, <1>2
<1>8. Waiting' = Tail(Waiting)
  BY <1>5, <1>6, <1>7, SameSequence
<1> QED
  BY <1>4, <1>8

LEMMA ServiceStarts == RecordInit => Service!Init
<1> SUFFICES ASSUME RecordInit PROVE Service!Init
  OBVIOUS
<1>1. arrived = 0 /\ taken = 0 /\ command = 0 /\ i = 0 /\ uart_pc = "wait"
  BY DEF RecordInit, Init
<1>2. Waiting = <<>>
  BY <1>1 DEF Waiting
<1>3. Tries = 0
  BY <1>1 DEF Tries
<1> QED
  BY <1>1, <1>2, <1>3 DEF RecordInit, Service!Init, Cmd

(* A step of the link is a step of the service, or none.                   *)
LEMMA ServiceStep ==
  ASSUME TypeOK, FlightInv, RestInv, [RecordNext]_<<vars, fate>>
  PROVE  [Service!Next]_(Service!vars)
<1> USE LinkAssumption
<1>q. CASE WsQueue /\ Settle(arrived', "accepted")
  <2>1. /\ arrived' = arrived + 1 /\ arrived < MaxCmds
        /\ UNCHANGED <<command, i, uart_pc>>
    BY <1>q DEF WsQueue, taskVars
  <2>2. Waiting' = Append(Waiting, arrived')
    BY <1>q, OneMoreWaits
  <2>3. Len(Waiting) < MaxCmds
    BY <2>1, WaitingIs DEF TypeOK
  <2>4. Tries' = Tries
    BY <2>1 DEF Tries
  <2>5. Service!Accept
    BY <1>q, <2>1, <2>2, <2>3, <2>4 DEF Service!Accept, Service!Decided, Settle
  <2> QED
    BY <2>5 DEF Service!Next
<1>t. CASE UartTake /\ UNCHANGED fate
  <2>1. /\ command = 0 /\ i = 0
        /\ command' = taken + 1 /\ i' = 0 /\ arrived' = arrived
        /\ uart_pc = "read" /\ uart_pc' = "send"
    BY <1>t DEF UartTake, FlightInv, RestInv
  <2>2. Tries' = Tries
    BY <2>1 DEF Tries
  <2>3. Service!Take
    BY <1>t, <2>1, <2>2, FirstIsTaken DEF Service!Take
  <2> QED
    BY <2>3 DEF Service!Next, Service!Serve
<1>s. CASE UartSend /\ UNCHANGED fate
  <2>1. /\ uart_pc = "send" /\ uart_pc' = "await"
        /\ UNCHANGED <<arrived, taken, command, i>>
        /\ command # 0 /\ i \in 0..LastTry
    BY <1>s DEF UartSend, FlightInv, TypeOK
  <2>2. Tries' = Tries + 1 /\ Tries < LastTry + 1
    BY <2>1 DEF Tries
  <2>3. Waiting' = Waiting
    BY <2>1 DEF Waiting
  <2>4. Service!Transmit
    BY <1>s, <2>1, <2>2, <2>3 DEF Service!Transmit
  <2> QED
    BY <2>4 DEF Service!Next, Service!Serve
<1>a. CASE UartAck /\ Settle(command, "acked")
  <2>1. /\ uart_pc = "await" /\ uart_pc' = "wait" /\ command' = 0 /\ i' = 0
        /\ UNCHANGED <<arrived, taken>> /\ command # 0 /\ i \in 0..LastTry
    BY <1>a DEF UartAck, Return, FlightInv, TypeOK
  <2>2. Tries > 0 /\ Tries' = 0
    BY <2>1 DEF Tries
  <2>3. Waiting' = Waiting
    BY <2>1 DEF Waiting
  <2>4. Service!Acknowledge
    BY <1>a, <2>1, <2>2, <2>3
       DEF Service!Acknowledge, Service!Answer, Service!Decided, Settle
  <2> QED
    BY <2>4 DEF Service!Next, Service!Serve
<1>g. CASE UartGiveUp /\ Settle(command, "failed")
  <2>1. /\ uart_pc = "await" /\ uart_pc' = "wait" /\ command' = 0 /\ i' = 0
        /\ UNCHANGED <<arrived, taken>> /\ command # 0 /\ i \in 0..LastTry
        /\ ~(i < LastTry)
    BY <1>g DEF UartGiveUp, Return, Retries, FlightInv, TypeOK
  <2>2. Tries = LastTry + 1 /\ Tries' = 0
    BY <2>1 DEF Tries
  <2>3. Waiting' = Waiting
    BY <2>1 DEF Waiting
  <2>4. Service!GiveUp
    BY <1>g, <2>1, <2>2, <2>3
       DEF Service!GiveUp, Service!Answer, Service!Decided, Settle
  <2> QED
    BY <2>4 DEF Service!Next, Service!Serve
<1>r. CASE UartRetry /\ UNCHANGED fate
  <2>1. /\ uart_pc = "await" /\ uart_pc' = "send" /\ i' = i + 1
        /\ UNCHANGED <<arrived, taken, command>>
    BY <1>r DEF UartRetry
  <2> QED
    BY <1>r, <2>1 DEF Service!vars, Waiting, Tries
<1>o. CASE /\ \/ WsStop \/ UartEvent \/ UartDrop \/ CiaaReady \/ Burst
              \/ \E r \in {"ACK", "INVALID", "NONE"} : CiaaAnswer(r)
           /\ UNCHANGED fate
  <2>1. /\ UNCHANGED <<arrived, taken, command, i>>
        /\ (uart_pc' = "await") <=> (uart_pc = "await")
    BY <1>o DEF WsStop, UartEvent, UartDrop, CiaaReady, Burst, Receive,
                CiaaAnswer, taskVars
  <2> QED
    BY <1>o, <2>1 DEF Service!vars, Waiting, Tries
<1>u. CASE UNCHANGED <<vars, fate>>
  BY <1>u DEF vars, taskVars, Service!vars, Waiting, Tries
<1> QED
  BY <1>q, <1>t, <1>s, <1>a, <1>g, <1>r, <1>o, <1>u DEF RecordNext

(* The serial line, with whatever it cuts in two, delays or loses, keeps   *)
(* the promise of the command service: each command taken in its turn,     *)
(* transmitted LastTry + 1 times at most and given up only after the last. *)
THEOREM LinkImplementsService == RecordSpec => LinkServes
<1>1. RecordInit => TypeOK /\ FlightInv /\ RestInv
  BY TypeInit DEF RecordInit, Init, FlightInv, RestInv
<1>2. TypeOK /\ FlightInv /\ RestInv /\ [RecordNext]_<<vars, fate>>
        => TypeOK' /\ FlightInv' /\ RestInv'
  <2> SUFFICES ASSUME TypeOK, FlightInv, RestInv, [RecordNext]_<<vars, fate>>
               PROVE  TypeOK' /\ FlightInv' /\ RestInv'
    OBVIOUS
  <2>1. [Next]_vars
    BY RecordIsLink
  <2> QED
    BY <2>1, TypeNext, FlightNext, RestNext
<1>3. TypeOK /\ FlightInv /\ RestInv /\ [RecordNext]_<<vars, fate>>
        => [Service!Next]_(Service!vars)
  BY ServiceStep
<1> QED
  BY <1>1, <1>2, <1>3, ServiceStarts, PTL DEF RecordSpec, LinkServes, Service!Safety

=============================================================================
