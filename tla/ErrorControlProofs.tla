------------------------- MODULE ErrorControlProofs -------------------------
(***************************************************************************)
(* ErrorControl for every threshold triple and any number of calls, manual *)
(* sets and stops: types, the two counters, and the decision that an       *)
(* undisturbed call leaves behind. EcAnySpec has every step of the bounded *)
(* specification of ErrorControlCalls, and CommandPath implements it.      *)
(***************************************************************************)
EXTENDS ErrorControl, TLAPS

(* The switch of evaluate_camera_state selects a camera state. *)
LEMMA DecideType ==
  ASSUME NEW s \in CameraState, NEW d \in Int
  PROVE  Decide(s, d) \in CameraState
BY DEF Decide, CameraState

(* One evaluation answers the difference it was given: from any of the     *)
(* three states, the state it selects is settled for that difference.      *)
LEMMA DecideSettles ==
  ASSUME NEW s \in CameraState, NEW d \in Int
  PROVE  Settled(Decide(s, d), d)
BY ThresholdAssumption DEF Decide, Settled, CameraState

-----------------------------------------------------------------------------
(* The register of a call is a counter value while the ++ is between its   *)
(* load and its store; only later is it a difference.                      *)
StoredFromNat == \A t \in EcTask : ec_pc[t] = "store" => ec_reg[t] \in Nat

TypeInv == EcTypeOK /\ StoredFromNat

LEMMA TypeInit == EcInit => TypeInv
<1> SUFFICES ASSUME EcInit PROVE EcTypeOK /\ StoredFromNat
  BY DEF TypeInv
<1> USE DEF EcInit, CameraState, EcPc
<1>1. EcTypeOK
  <2>1. error_task_alive \in BOOLEAN /\ disturbed \in BOOLEAN
    BY Zenon
  <2> QED
    BY <2>1 DEF EcTypeOK
<1>2. StoredFromNat
  BY DEF StoredFromNat
<1> QED
  BY <1>1, <1>2

LEMMA TypeNext == TypeInv /\ [EcAny]_ecVars => TypeInv'
<1> SUFFICES ASSUME TypeInv, [EcAny]_ecVars PROVE TypeInv'
  OBVIOUS
<1> USE DEF TypeInv, EcTypeOK, StoredFromNat
<1>1. ASSUME NEW t \in EcTask, Enter(t) PROVE TypeInv'
  BY <1>1 DEF Enter, Goto, EcPc
<1>2. ASSUME NEW t \in EcTask, Load(t) PROVE TypeInv'
  BY <1>2 DEF Load, Goto, EcPc
<1>3. ASSUME NEW t \in EcTask, Store(t) PROVE TypeInv'
  BY <1>3 DEF Store, Goto, EcPc, Increment
<1>4. ASSUME NEW t \in EcTask, SampleReceived(t) PROVE TypeInv'
  BY <1>4 DEF SampleReceived, Goto, EcPc
<1>5. ASSUME NEW t \in EcTask, SampleSent(t) PROVE TypeInv'
  BY <1>5 DEF SampleSent, Goto, EcPc
<1>6. ASSUME NEW t \in EcTask, ReadState(t) PROVE TypeInv'
  BY <1>6 DEF ReadState, Goto, EcPc
<1>7. ASSUME NEW t \in EcTask, Switch(t) PROVE TypeInv'
  <2>1. Decide(current_camera_state, ec_reg[t]) \in CameraState
    BY DecideType
  <2> QED
    BY <1>7, <2>1 DEF Switch, Goto, EcPc
<1>8. ASSUME NEW t \in EcTask, Commit(t) PROVE TypeInv'
  BY <1>8 DEF Commit, Forget, Goto, EcPc, CameraState
<1>9. ASSUME NEW s \in CameraState, SetCameraState(s) PROVE TypeInv'
  BY <1>9 DEF SetCameraState
<1>10. CASE Stop
  <2>1. error_task_alive' \in BOOLEAN /\ disturbed' \in BOOLEAN
    BY <1>10, Zenon DEF Stop
  <2>2. /\ ec_pc' = [ec_pc EXCEPT !["err"] = "idle"]
        /\ ec_reg' = [ec_reg EXCEPT !["err"] = 0]
        /\ ec_new' = [ec_new EXCEPT !["err"] = "NORMAL"]
        /\ UNCHANGED <<cmds_received, cmds_sent_ok, current_camera_state, calls>>
    BY <1>10, Zenon DEF Stop, Forget
  <2>3. ec_pc' \in [EcTask -> EcPc]
    BY <2>2 DEF EcPc
  <2>4. ec_reg' \in [EcTask -> Int]
    <3>1. 0 \in Int
      OBVIOUS
    <3> QED
      BY <2>2, <3>1, Zenon
  <2>5. ec_new' \in [EcTask -> CameraState]
    BY <2>2 DEF CameraState
  <2>6. StoredFromNat'
    BY <2>2
  <2> QED
    BY <2>1, <2>2, <2>3, <2>4, <2>5, <2>6
<1>11. CASE UNCHANGED ecVars
  BY <1>11 DEF ecVars
<1> QED
  BY <1>1, <1>2, <1>3, <1>4, <1>5, <1>6, <1>7, <1>8, <1>9, <1>10, <1>11
     DEF EcAny, EcStep

(* The variables keep their types: in particular a counter never leaves    *)
(* the naturals whatever stale value is stored back into it.               *)
THEOREM EcTypeCorrect == EcAnySpec => []EcTypeOK
<1>1. TypeInv => EcTypeOK
  BY DEF TypeInv
<1> QED
  BY TypeInit, TypeNext, <1>1, PTL DEF EcAnySpec

-----------------------------------------------------------------------------
(* cmds_sent_ok: nobody writes it between the UART task's load and store.  *)
SentInv ==
  /\ SentOkExact
  /\ ec_pc["uart"] = "store" => ec_reg["uart"] = cmds_sent_ok

LEMMA SentNext == TypeInv /\ SentInv /\ [EcAny]_ecVars => SentInv'
<1> SUFFICES ASSUME TypeInv, SentInv, [EcAny]_ecVars PROVE SentInv'
  OBVIOUS
<1> USE DEF TypeInv, EcTypeOK, SentInv, SentOkExact, Pending, EcTask
<1>1. ASSUME NEW t \in EcTask, Enter(t) PROVE SentInv'
  BY <1>1 DEF Enter, Goto
<1>2. ASSUME NEW t \in EcTask, Load(t) PROVE SentInv'
  BY <1>2 DEF Load, Goto, CountsReceived
<1>3. ASSUME NEW t \in EcTask, Store(t) PROVE SentInv'
  BY <1>3 DEF Store, Goto, CountsReceived, Increment
<1>4. ASSUME NEW t \in EcTask,
             SampleReceived(t) \/ SampleSent(t) \/ ReadState(t)
               \/ Switch(t) \/ Commit(t)
      PROVE SentInv'
  BY <1>4 DEF SampleReceived, SampleSent, ReadState, Switch, Commit, Forget, Goto
<1>5. ASSUME NEW s \in CameraState, SetCameraState(s) PROVE SentInv'
  BY <1>5 DEF SetCameraState
<1>6. CASE Stop
  BY <1>6 DEF Stop, Forget
<1>7. CASE UNCHANGED ecVars
  BY <1>7 DEF ecVars
<1> QED
  BY <1>1, <1>2, <1>3, <1>4, <1>5, <1>6, <1>7 DEF EcAny, EcStep

(* No acknowledged command is miscounted, whatever the other tasks do.     *)
THEOREM SentOkIsExact == EcAnySpec => []SentOkExact
<1>1. EcInit => SentInv
  BY DEF EcInit, SentInv, SentOkExact, Pending, EcTask
<1>2. SentInv => SentOkExact
  BY DEF SentInv
<1> QED
  BY TypeInit, TypeNext, SentNext, <1>1, <1>2, PTL DEF EcAnySpec

-----------------------------------------------------------------------------
(* cmds_received: the value in the counter and the value each writer is    *)
(* about to put back leave room for every increment still pending.         *)
RoomFor(n) == n + Pending("ws") + Pending("err") <= calls["ws"] + calls["err"]

ReceivedInv ==
  /\ RoomFor(cmds_received)
  /\ \A t \in {"ws", "err"} : ec_pc[t] = "store" => RoomFor(ec_reg[t])

SoleWriterInv ==
  calls["err"] = 0 =>
    /\ ec_pc["err"] = "idle"
    /\ cmds_received + Pending("ws") = calls["ws"]
    /\ ec_pc["ws"] = "store" => ec_reg["ws"] = cmds_received

LEMMA ReceivedNext ==
  TypeInv /\ ReceivedInv /\ [EcAny]_ecVars => ReceivedInv'
<1> SUFFICES ASSUME TypeInv, ReceivedInv, [EcAny]_ecVars PROVE ReceivedInv'
  OBVIOUS
<1> USE DEF TypeInv, EcTypeOK, StoredFromNat, ReceivedInv, RoomFor, Pending, EcTask
<1>1. ASSUME NEW t \in EcTask, Enter(t) PROVE ReceivedInv'
  BY <1>1 DEF Enter, Goto
<1>2. ASSUME NEW t \in EcTask, Load(t) PROVE ReceivedInv'
  BY <1>2 DEF Load, Goto, CountsReceived
<1>3. ASSUME NEW t \in EcTask, Store(t) PROVE ReceivedInv'
  BY <1>3 DEF Store, Goto, CountsReceived, Increment
<1>4. ASSUME NEW t \in EcTask,
             SampleReceived(t) \/ SampleSent(t) \/ ReadState(t)
               \/ Switch(t) \/ Commit(t)
      PROVE ReceivedInv'
  BY <1>4 DEF SampleReceived, SampleSent, ReadState, Switch, Commit, Forget, Goto
<1>5. ASSUME NEW s \in CameraState, SetCameraState(s) PROVE ReceivedInv'
  BY <1>5 DEF SetCameraState
<1>6. CASE Stop
  BY <1>6 DEF Stop, Forget
<1>7. CASE UNCHANGED ecVars
  BY <1>7 DEF ecVars
<1> QED
  BY <1>1, <1>2, <1>3, <1>4, <1>5, <1>6, <1>7 DEF EcAny, EcStep

LEMMA SoleWriterNext ==
  TypeInv /\ SoleWriterInv /\ [EcAny]_ecVars => SoleWriterInv'
<1> SUFFICES ASSUME TypeInv, SoleWriterInv, [EcAny]_ecVars
             PROVE SoleWriterInv'
  OBVIOUS
<1> USE DEF TypeInv, EcTypeOK, SoleWriterInv, Pending, EcTask
<1>1. ASSUME NEW t \in EcTask, Enter(t) PROVE SoleWriterInv'
  BY <1>1 DEF Enter, Goto
<1>2. ASSUME NEW t \in EcTask, Load(t) PROVE SoleWriterInv'
  BY <1>2 DEF Load, Goto, CountsReceived
<1>3. ASSUME NEW t \in EcTask, Store(t) PROVE SoleWriterInv'
  BY <1>3 DEF Store, Goto, CountsReceived, Increment
<1>4. ASSUME NEW t \in EcTask,
             SampleReceived(t) \/ SampleSent(t) \/ ReadState(t)
               \/ Switch(t) \/ Commit(t)
      PROVE SoleWriterInv'
  BY <1>4 DEF SampleReceived, SampleSent, ReadState, Switch, Commit, Forget, Goto
<1>5. ASSUME NEW s \in CameraState, SetCameraState(s) PROVE SoleWriterInv'
  BY <1>5 DEF SetCameraState
<1>6. CASE Stop
  BY <1>6 DEF Stop, Forget
<1>7. CASE UNCHANGED ecVars
  BY <1>7 DEF ecVars
<1> QED
  BY <1>1, <1>2, <1>3, <1>4, <1>5, <1>6, <1>7 DEF EcAny, EcStep

(* The two unsynchronised writers of cmds_received lose increments at      *)
(* worst; with the error task silent the counter is exact.                 *)
THEOREM ReceivedIsBounded == EcAnySpec => []ReceivedNeverOvercounts
<1>1. EcInit => ReceivedInv /\ SoleWriterInv
  BY DEF EcInit, ReceivedInv, SoleWriterInv, RoomFor, Pending, EcTask
<1>2. ReceivedInv /\ SoleWriterInv => ReceivedNeverOvercounts
  BY DEF ReceivedInv, SoleWriterInv, RoomFor, ReceivedNeverOvercounts
<1> QED
  BY TypeInit, TypeNext, ReceivedNext, SoleWriterNext, <1>1, <1>2, PTL DEF EcAnySpec

-----------------------------------------------------------------------------
(* Undisturbed, one task at most is inside the module, and what it has     *)
(* sampled is still what the variables hold.                               *)
Alone == \A t, u \in EcTask : Busy(t) /\ Busy(u) => t = u

Fresh(t) ==
  /\ ec_pc[t] = "sample_sent" => ec_reg[t] = cmds_received
  /\ ec_pc[t] \in {"read", "switch", "commit"} => ec_reg[t] = CmdDiff
  /\ ec_pc[t] = "switch" => ec_new[t] = current_camera_state
  /\ ec_pc[t] = "commit" => ec_new[t] = Decide(current_camera_state, ec_reg[t])

DecisionInv ==
  ~disturbed => /\ Alone
                /\ \A t \in EcTask : Fresh(t)
                /\ Quiescent => Settled(current_camera_state, CmdDiff)

LEMMA DecisionInit == EcInit => DecisionInv
BY ThresholdAssumption
   DEF EcInit, DecisionInv, Alone, Fresh, Busy, Settled, CmdDiff

LEMMA DecisionNext ==
  TypeInv /\ DecisionInv /\ [EcAny]_ecVars => DecisionInv'
<1> SUFFICES ASSUME TypeInv, DecisionInv, [EcAny]_ecVars PROVE DecisionInv'
  OBVIOUS
<1> USE DEF TypeInv, EcTypeOK, DecisionInv, Alone, Fresh, Busy, CmdDiff
<1>1. ASSUME NEW t \in EcTask, Enter(t) PROVE DecisionInv'
  BY <1>1 DEF Enter, Goto, Quiescent
<1>2. ASSUME NEW t \in EcTask, Load(t) PROVE DecisionInv'
  BY <1>2 DEF Load, Goto, Quiescent
<1>3. ASSUME NEW t \in EcTask, Store(t) PROVE DecisionInv'
  BY <1>3 DEF Store, Goto, Quiescent
<1>4. ASSUME NEW t \in EcTask, SampleReceived(t) PROVE DecisionInv'
  BY <1>4 DEF SampleReceived, Goto, Quiescent
<1>5. ASSUME NEW t \in EcTask, SampleSent(t) PROVE DecisionInv'
  BY <1>5 DEF SampleSent, Goto, Quiescent
<1>6. ASSUME NEW t \in EcTask, ReadState(t) PROVE DecisionInv'
  BY <1>6 DEF ReadState, Goto, Quiescent
<1>7. ASSUME NEW t \in EcTask, Switch(t) PROVE DecisionInv'
  BY <1>7 DEF Switch, Goto, Quiescent
<1>8. ASSUME NEW t \in EcTask, Commit(t) PROVE DecisionInv'
  <2> SUFFICES ASSUME ~disturbed PROVE DecisionInv'
    BY <1>8 DEF Commit
  <2>1. current_camera_state' = Decide(current_camera_state, CmdDiff)
    BY <1>8 DEF Commit, Goto
  <2>2. Settled(current_camera_state, CmdDiff)'
    BY <1>8, <2>1, DecideSettles DEF Commit
  <2>3. \A u \in EcTask : ec_pc'[u] = "idle"
    BY <1>8 DEF Commit, Goto
  <2> QED
    BY <1>8, <2>2, <2>3 DEF Commit
<1>9. ASSUME NEW s \in CameraState, SetCameraState(s) PROVE DecisionInv'
  BY <1>9 DEF SetCameraState
<1>10. CASE Stop
  BY <1>10 DEF Stop
<1>11. CASE UNCHANGED ecVars
  BY <1>11 DEF ecVars, Quiescent
<1> QED
  BY <1>1, <1>2, <1>3, <1>4, <1>5, <1>6, <1>7, <1>8, <1>9, <1>10, <1>11
     DEF EcAny, EcStep

(* A call that nothing overlaps leaves the camera in a state that answers  *)
(* the counters, whatever stale state earlier overlapping calls had left.  *)
THEOREM SerialCallsAlwaysSettle == EcAnySpec => []SerialCallsSettle
<1>1. DecisionInv => SerialCallsSettle
  BY DEF DecisionInv, SerialCallsSettle
<1> QED
  BY TypeInit, TypeNext, DecisionInit, DecisionNext, <1>1, PTL DEF EcAnySpec

(* What the policy prescribes for a change of state. *)
LEMMA DecideMoves ==
  ASSUME NEW s \in CameraState, NEW d \in Int, Decide(s, d) # s
  PROVE  /\ s = "SUSPENDED" => Decide(s, d) = "DEGRADED" /\ d <= RESTORE
         /\ Decide(s, d) = "NORMAL" => d <= RESTORE
         /\ Decide(s, d) = "SUSPENDED" => d >= SUSPEND
<1>1. CASE s = "NORMAL"
  BY <1>1 DEF Decide
<1>2. CASE s = "DEGRADED"
  BY <1>2 DEF Decide
<1>3. CASE s = "SUSPENDED"
  BY <1>3 DEF Decide
<1> QED
  BY <1>1, <1>2, <1>3 DEF CameraState

(* Only a commit changes the camera state without disturbing anybody.      *)
LEMMA OnlyCommitsMove ==
  ASSUME [EcAny]_ecVars, ~disturbed', current_camera_state' # current_camera_state
  PROVE  \E t \in EcTask : Commit(t)
<1>1. ASSUME NEW t \in EcTask, Enter(t) \/ Load(t) \/ Store(t) \/ SampleReceived(t)
                                 \/ SampleSent(t) \/ ReadState(t) \/ Switch(t)
      PROVE  FALSE
  BY <1>1 DEF Enter, Load, Store, SampleReceived, SampleSent, ReadState, Switch
<1>2. CASE Stop \/ (\E s \in CameraState : SetCameraState(s)) \/ UNCHANGED ecVars
  BY <1>2 DEF Stop, SetCameraState, ecVars
<1> QED
  BY <1>1, <1>2 DEF EcAny, EcStep

(* The moves of undisturbed calls are the policy's, one step of the        *)
(* hysteresis at a time: a suspended camera comes back degraded first.     *)
THEOREM SerialCallsMoveByPolicy == EcAnySpec => SerialCallsDecide
<1> DEFINE Moves ==
      ~disturbed' /\ current_camera_state' # current_camera_state =>
        /\ current_camera_state' = Decide(current_camera_state, CmdDiff)
        /\ current_camera_state = "SUSPENDED" =>
             current_camera_state' = "DEGRADED" /\ CmdDiff <= RESTORE
        /\ current_camera_state' = "NORMAL" => CmdDiff <= RESTORE
        /\ current_camera_state' = "SUSPENDED" => CmdDiff >= SUSPEND
<1>1. TypeInv /\ DecisionInv /\ [EcAny]_ecVars => [Moves]_ecVars
  <2> SUFFICES ASSUME TypeInv, DecisionInv, [EcAny]_ecVars, ~disturbed',
                      current_camera_state' # current_camera_state
               PROVE  Moves
    OBVIOUS
  <2>1. PICK t \in EcTask : Commit(t)
    BY OnlyCommitsMove
  <2>2. ec_pc[t] = "commit" /\ ~disturbed /\ current_camera_state' = ec_new[t]
    BY <2>1 DEF Commit, Goto
  <2>3. current_camera_state' = Decide(current_camera_state, CmdDiff)
    BY <2>2 DEF DecisionInv, Fresh
  <2>4. current_camera_state \in CameraState /\ CmdDiff \in Int
    BY DEF TypeInv, EcTypeOK, CmdDiff
  <2> QED
    BY <2>3, <2>4, DecideMoves
<1> QED
  BY TypeInit, TypeNext, DecisionInit, DecisionNext, <1>1, PTL
     DEF EcAnySpec, SerialCallsDecide
=============================================================================
