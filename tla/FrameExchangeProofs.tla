------------------------- MODULE FrameExchangeProofs -------------------------
(***************************************************************************)
(* FrameExchange for any number of frames, cells and errors: the types,    *)
(* what the lock publishes, how far two buffers protect the frame being    *)
(* sent, the order of what is sent, and the stale suspension flag.         *)
(***************************************************************************)
EXTENDS FrameExchange, TLAPS

(* The two buffers alternate. *)
LEMMA NextIdxIsOther ==
  ASSUME s_latest_buf_idx \in Index
  PROVE  NextIdx \in Index /\ NextIdx # s_latest_buf_idx
BY DEF NextIdx, Index

LEMMA TypeInit == Init => TypeOK
<1> SUFFICES ASSUME Init PROVE TypeOK
  OBVIOUS
<1> USE FrameAssumption DEF Init
<1>1. buffers \in [Index -> Data]
  BY DEF Data, Frame
<1>2. snap \in Snap
  BY DEF Snap, NoSnap, Index, Frame
<1>3. s_cam_suspended \in BOOLEAN /\ stream_open \in BOOLEAN
  BY Zenon
<1> QED
  BY <1>1, <1>2, <1>3 DEF TypeOK, CameraState, Index, Frame

(* The saturating counter stays in its width and never goes down. *)
LEMMA RaisedBounds ==
  ASSUME TypeOK, NEW n \in {1, 2}
  PROVE  Raised(n) \in 0..StreakMax /\ Raised(n) >= s_http_error_streak
BY FrameAssumption DEF TypeOK, Raised

(* camera_adjust_quality keeps the types, and the sensor in the mode that  *)
(* last_camera_state claims, as far as the setters do as they are told.    *)
LEMMA AdjustType ==
  ASSUME TypeOK, NEW s \in CameraState, NEW sensor \in BOOLEAN,
         AdjustQuality(s, sensor)
  PROVE  /\ last_camera_state' \in CameraState
         /\ quality' \in {"NORMAL", "DEGRADED", "UNKNOWN"}
         /\ ModeIsReal => ModeIsReal'
<1> USE DEF TypeOK, sensorVars, CameraState, ModeIsReal
<1>1. CASE s = last_camera_state \/ ~sensor
  BY <1>1 DEF AdjustQuality
<1>2. CASE ~(s = last_camera_state \/ ~sensor)
  <2>1. last_camera_state' = s /\ Sets(s)
    BY <1>2 DEF AdjustQuality
  <2> QED
    BY <2>1 DEF Sets
<1> QED
  BY <1>1, <1>2

(* A store is begun only with a number left for it. *)
Room == cap_pc = "copy" => s_latest_seq < MaxFrames

LEMMA CaptureType == TypeOK /\ Room /\ Capture => TypeOK'
<1> SUFFICES ASSUME TypeOK, Room, Capture PROVE TypeOK'
  OBVIOUS
<1> USE FrameAssumption DEF TypeOK, Room, capVars, sensorVars, latestVars, upVars
<1>1. ASSUME NEW sensor \in BOOLEAN, CapPoll(sensor) PROVE TypeOK'
  <2>1. /\ last_camera_state' \in CameraState
        /\ quality' \in {"NORMAL", "DEGRADED", "UNKNOWN"}
    BY <1>1, AdjustType DEF CapPoll, Run
  <2>2. s_cam_suspended' \in BOOLEAN /\ stream_open' \in BOOLEAN
    BY <1>1, Zenon DEF CapPoll, Run
  <2> QED
    BY <1>1, <2>1, <2>2 DEF CapPoll, Run
<1>2. ASSUME NEW sensor \in BOOLEAN, CapResume(sensor) PROVE TypeOK'
  <2>1. /\ last_camera_state' \in CameraState
        /\ quality' \in {"NORMAL", "DEGRADED", "UNKNOWN"}
    BY <1>2, AdjustType DEF CapResume, Run
  <2>2. s_cam_suspended' \in BOOLEAN /\ stream_open' \in BOOLEAN
    BY <1>2, Zenon DEF CapResume, Run
  <2> QED
    BY <1>2, <2>1, <2>2 DEF CapResume, Run
<1>3. CASE CapSuspend
  <2>1. s_cam_suspended' \in BOOLEAN /\ stream_open' \in BOOLEAN
    BY <1>3, Zenon DEF CapSuspend
  <2> QED
    BY <1>3, <2>1 DEF CapSuspend
<1>4. CASE CapWaitOver
  BY <1>4 DEF CapWaitOver
<1>5. CASE CapSkip
  BY <1>5 DEF CapSkip
<1>6. ASSUME NEW l \in 0..Cells, CapGrab(l) PROVE TypeOK'
  BY <1>6 DEF CapGrab
<1>7. CASE CapCopy
  <2>1. s_latest_seq + 1 \in Frame
    BY <1>7 DEF CapCopy, Frame
  <2>2. copied + 1 \in 1..Cells
    BY <1>7 DEF CapCopy
  <2>3. buffers' \in [Index -> Data]
    BY <1>7, <2>1, <2>2, NextIdxIsOther DEF CapCopy, Data
  <2> QED
    BY <1>7, <2>2, <2>3 DEF CapCopy
<1>8. CASE CapPublish
  BY <1>8, NextIdxIsOther DEF CapPublish, Frame
<1> QED
  BY <1>1, <1>2, <1>3, <1>4, <1>5, <1>6, <1>7, <1>8 DEF Capture

LEMMA UploadType == TypeOK /\ Upload => TypeOK'
<1> SUFFICES ASSUME TypeOK, Upload PROVE TypeOK'
  OBVIOUS
<1> USE FrameAssumption DEF TypeOK, capVars, sensorVars, latestVars
<1>1. CASE UpSuspended
  <2>1. s_cam_suspended' \in BOOLEAN /\ stream_open' \in BOOLEAN
    BY <1>1, Zenon DEF UpSuspended, CloseStream
  <2> QED
    BY <1>1, <2>1 DEF UpSuspended
<1>2. CASE UpAwake
  BY <1>2 DEF UpAwake
<1>3. CASE UpNothingNew
  BY <1>3 DEF UpNothingNew
<1>4. CASE UpSnapshot
  <2>1. snap' \in Snap
    BY <1>4 DEF UpSnapshot, Latest, Snap
  <2> QED
    BY <1>4, <2>1 DEF UpSnapshot
<1>5. CASE UpOpen
  <2>1. s_cam_suspended' \in BOOLEAN /\ stream_open' \in BOOLEAN
    BY <1>5, Zenon DEF UpOpen
  <2> QED
    BY <1>5, <2>1 DEF UpOpen
<1>6. ASSUME NEW n \in {1, 2}, Abandon(n) PROVE TypeOK'
  <2>1. s_http_error_streak' \in 0..StreakMax
    BY <1>6, RaisedBounds DEF Abandon
  <2>2. s_cam_suspended' \in BOOLEAN /\ stream_open' \in BOOLEAN
    BY <1>6, Zenon DEF Abandon
  <2>3. snap' \in Snap
    BY <1>6 DEF Abandon, NextIteration, NoSnap, Snap, Index, Frame
  <2> QED
    BY <1>6, <2>1, <2>2, <2>3 DEF Abandon, NextIteration
<1>7. CASE UpWrite
  <2>1. buffers[snap.idx][Len(wire) + 1] \in Frame
    BY <1>7 DEF UpWrite, Snap, Data
  <2>2. wire' \in Seq(Frame) /\ Len(wire') <= Cells
    BY <1>7, <2>1 DEF UpWrite, Snap
  <2> QED
    BY <1>7, <2>2 DEF UpWrite
<1>8. CASE UpDone
  <2>1. [seq |-> snap.seq, data |-> wire] \in [seq : Frame, data : Seq(Frame)]
    BY DEF Snap
  <2>2. delivered' \in Seq([seq : Frame, data : Seq(Frame)])
    BY <1>8, <2>1 DEF UpDone
  <2>3. snap' \in Snap
    BY <1>8 DEF UpDone, NextIteration, NoSnap, Snap, Index, Frame
  <2>4. snap.seq \in Frame
    BY DEF Snap
  <2> QED
    BY <1>8, <2>2, <2>3, <2>4 DEF UpDone, NextIteration
<1> QED
  BY <1>1, <1>2, <1>3, <1>4, <1>5, <1>6, <1>7, <1>8
     DEF Upload, UpOpenFails, UpWriteFails

LEMMA TypeNext == TypeOK /\ Room /\ [Next]_vars => TypeOK'
<1> SUFFICES ASSUME TypeOK, Room, [Next]_vars PROVE TypeOK'
  OBVIOUS
<1>1. CASE Capture
  BY <1>1, CaptureType
<1>2. CASE Upload
  BY <1>2, UploadType
<1>3. ASSUME NEW s \in CameraState, Throttle(s) PROVE TypeOK'
  BY <1>3 DEF Throttle, TypeOK, capVars, sensorVars, latestVars, upVars
<1>4. CASE UNCHANGED vars
  BY <1>4 DEF vars, TypeOK, capVars, sensorVars, latestVars, upVars
<1> QED
  BY <1>1, <1>2, <1>3, <1>4 DEF Next

(* What the steps of the tasks leave alone. *)
LEMMA Frames ==
  /\ Upload => UNCHANGED <<camera_state, capVars, sensorVars, buffers, latestVars>>
  /\ Capture => UNCHANGED <<camera_state, upVars, delivered>>
<1>1. Upload => UNCHANGED <<camera_state, capVars, sensorVars, buffers, latestVars>>
  BY DEF Upload, UpSuspended, UpAwake, UpNothingNew, UpSnapshot, UpOpen, UpWrite,
         UpWriteFails, UpOpenFails, Abandon, UpDone
<1>2. Capture => UNCHANGED <<camera_state, upVars, delivered>>
  BY DEF Capture, CapPoll, CapResume, CapSuspend, CapWaitOver, CapSkip, CapGrab,
         CapCopy, CapPublish
<1> QED
  BY <1>1, <1>2

LEMMA RoomNext == TypeOK /\ Room /\ [Next]_vars => Room'
<1> SUFFICES ASSUME TypeOK, Room, [Next]_vars PROVE Room'
  OBVIOUS
<1> USE FrameAssumption DEF TypeOK, Room, Frame, capVars, latestVars
<1>1. CASE Capture
  BY <1>1 DEF Capture, CapPoll, CapResume, Run, CapSuspend, CapWaitOver, CapSkip,
              CapGrab, CapCopy, CapPublish
<1>2. CASE Upload
  BY <1>2, Frames
<1>3. ASSUME NEW s \in CameraState, Throttle(s) PROVE Room'
  BY <1>3 DEF Throttle
<1>4. CASE UNCHANGED vars
  BY <1>4 DEF vars
<1> QED
  BY <1>1, <1>2, <1>3, <1>4 DEF Next

(* Every variable of cam_task keeps its type: the indices stay in the      *)
(* buffers, the error streak in its width.                                 *)
THEOREM TypeCorrect == Spec => []TypeOK
<1>1. Init => TypeOK /\ Room
  BY TypeInit DEF Init, Room
<1>2. TypeOK /\ Room /\ [Next]_vars => (TypeOK /\ Room)'
  BY TypeNext, RoomNext
<1> QED
  BY <1>1, <1>2, PTL DEF Spec

-----------------------------------------------------------------------------
(* The copy in progress is the first cells of the next frame, in the       *)
(* buffer that is not published.                                           *)
CopyIsNext ==
  cap_pc = "copy" =>
    /\ copied <= len
    /\ \A k \in 1..copied : buffers[NextIdx][k] = s_latest_seq + 1

StoreInv == CopyIsNext /\ PublishedIsWhole

LEMMA StoreNext == TypeOK /\ StoreInv /\ [Next]_vars => StoreInv'
<1> SUFFICES ASSUME TypeOK, StoreInv, [Next]_vars PROVE StoreInv'
  OBVIOUS
<1> USE FrameAssumption
    DEF StoreInv, CopyIsNext, PublishedIsWhole, capVars, latestVars
<1>1. CASE CapCopy
  <2>1. copied + 1 \in 1..Cells /\ copied \in Nat /\ s_latest_seq \in Nat
    BY <1>1 DEF CapCopy, TypeOK, Frame
  <2>2. NextIdx \in Index /\ NextIdx # s_latest_buf_idx /\ NextIdx' = NextIdx
    BY <1>1, NextIdxIsOther DEF CapCopy, TypeOK, NextIdx
  <2>3. \A k \in 1..Cells :
          /\ buffers'[s_latest_buf_idx][k] = buffers[s_latest_buf_idx][k]
          /\ buffers'[NextIdx][k] = IF k = copied + 1 THEN s_latest_seq + 1
                                    ELSE buffers[NextIdx][k]
    BY <1>1, <2>1, <2>2 DEF CapCopy, TypeOK, Data
  <2>4. CopyIsNext'
    BY <1>1, <2>1, <2>2, <2>3 DEF CapCopy, TypeOK
  <2>5. PublishedIsWhole'
    BY <1>1, <2>3 DEF CapCopy, TypeOK
  <2> QED
    BY <2>4, <2>5
<1>2. CASE CapPublish
  BY <1>2 DEF CapPublish, TypeOK, Frame
<1>3. ASSUME NEW l \in 0..Cells, CapGrab(l) PROVE StoreInv'
  BY <1>3 DEF CapGrab
<1>4. CASE \/ \E sensor \in BOOLEAN : CapPoll(sensor) \/ CapResume(sensor)
           \/ CapSuspend \/ CapWaitOver \/ CapSkip
  BY <1>4 DEF CapPoll, CapResume, Run, CapSuspend, CapWaitOver, CapSkip
<1>5. CASE Upload
  BY <1>5, Frames DEF NextIdx
<1>6. ASSUME NEW s \in CameraState, Throttle(s) PROVE StoreInv'
  BY <1>6 DEF Throttle, NextIdx
<1>7. CASE UNCHANGED vars
  BY <1>7 DEF vars, NextIdx
<1> QED
  BY <1>1, <1>2, <1>3, <1>4, <1>5, <1>6, <1>7 DEF Next, Capture

LEMMA StoreInit == Init => StoreInv
BY DEF Init, StoreInv, CopyIsNext, PublishedIsWhole

(* What the lock publishes is a whole frame at every moment, also while    *)
(* the capture task copies the next one without the lock.                  *)
THEOREM AlwaysPublishedWhole == Spec => []PublishedIsWhole
<1>1. Init => TypeOK /\ Room /\ StoreInv
  BY TypeInit, StoreInit DEF Init, Room
<1>2. TypeOK /\ Room /\ StoreInv /\ [Next]_vars => (TypeOK /\ Room /\ StoreInv)'
  BY TypeNext, RoomNext, StoreNext
<1>3. StoreInv => PublishedIsWhole
  BY DEF StoreInv
<1> QED
  BY <1>1, <1>2, <1>3, PTL DEF Spec

-----------------------------------------------------------------------------
Sending == up_pc \in {"open", "write"}

(* No second store has begun since the snapshot. *)
OnPace == Begun <= snap.seq + 1

(* The frame being sent was published: it is in the published buffer while *)
(* it is the newest, in the other one while a single frame is newer; and   *)
(* on pace, its cells are intact there and on the wire.                    *)
SnapInv ==
  /\ ~Sending => wire = <<>>
  /\ Sending =>
       /\ snap.seq \in 1..s_latest_seq
       /\ Len(wire) <= snap.len
       /\ snap.seq = s_latest_seq => snap.idx = s_latest_buf_idx
       /\ snap.seq = s_latest_seq - 1 => snap.idx = NextIdx
       /\ OnPace => /\ \A k \in 1..snap.len : buffers[snap.idx][k] = snap.seq
                    /\ \A k \in 1..Len(wire) : wire[k] = snap.seq

LEMMA SnapCapture == TypeOK /\ SnapInv /\ Capture => SnapInv'
<1> SUFFICES ASSUME TypeOK, SnapInv, Capture PROVE SnapInv'
  OBVIOUS
<1>1. UNCHANGED <<up_pc, snap, wire>>
  BY Frames DEF upVars
<1>2. s_latest_seq \in Nat /\ snap \in Snap /\ wire \in Seq(Frame)
  BY DEF TypeOK, Frame
<1>3. Sending' = Sending
  BY <1>1 DEF Sending
<1>4. CASE ~Sending
  BY <1>1, <1>3, <1>4 DEF SnapInv
<1>5. CASE Sending /\ CapCopy
  <2>1. UNCHANGED latestVars /\ NextIdx' = NextIdx /\ Begun' = Begun
    BY <1>5 DEF CapCopy, latestVars, NextIdx, Begun
  <2>2. Begun = s_latest_seq + 1
    BY <1>5 DEF CapCopy, Begun
  <2>3. ASSUME OnPace
        PROVE  \A k \in 1..snap.len : buffers'[snap.idx][k] = snap.seq
    <3>1. snap.seq = s_latest_seq
      BY <1>2, <1>5, <2>2, <2>3 DEF OnPace, SnapInv, Snap
    <3>2. snap.idx # NextIdx /\ snap.idx \in Index
      BY <1>5, <3>1, NextIdxIsOther DEF SnapInv, TypeOK
    <3>3. buffers'[snap.idx] = buffers[snap.idx]
      BY <1>5, <3>2 DEF CapCopy, TypeOK
    <3> QED
      BY <1>5, <2>3, <3>3 DEF SnapInv
  <2> QED
    BY <1>1, <1>3, <1>5, <2>1, <2>3 DEF SnapInv, OnPace, latestVars
<1>6. CASE Sending /\ CapPublish
  <2>1. buffers' = buffers /\ s_latest_seq' = s_latest_seq + 1
        /\ s_latest_buf_idx' = NextIdx
    BY <1>6 DEF CapPublish
  <2>2. Begun' = Begun
    BY <1>2, <1>6 DEF CapPublish, Begun
  <2>3. NextIdx' = s_latest_buf_idx
    BY <2>1 DEF NextIdx, TypeOK, Index
  <2> QED
    BY <1>1, <1>2, <1>3, <1>6, <2>1, <2>2, <2>3 DEF SnapInv, OnPace, Snap, Frame
<1>7. ASSUME Sending, NEW l \in 0..Cells, CapGrab(l) PROVE SnapInv'
  <2>1. UNCHANGED <<latestVars, buffers>> /\ NextIdx' = NextIdx
    BY <1>7 DEF CapGrab, latestVars, NextIdx
  <2>2. Begun' = Begun + 1 /\ Begun = s_latest_seq
    BY <1>7 DEF CapGrab, Begun, latestVars
  <2> QED
    BY <1>1, <1>2, <1>3, <1>7, <2>1, <2>2 DEF SnapInv, OnPace, latestVars, Snap, Frame
<1>8. CASE /\ Sending
           /\ \/ \E sensor \in BOOLEAN : CapPoll(sensor) \/ CapResume(sensor)
              \/ CapSuspend \/ CapWaitOver \/ CapSkip
  <2>1. UNCHANGED <<latestVars, buffers>> /\ NextIdx' = NextIdx /\ Begun' = Begun
    BY <1>8 DEF CapPoll, CapResume, Run, CapSuspend, CapWaitOver, CapSkip,
                latestVars, NextIdx, Begun
  <2> QED
    BY <1>1, <1>3, <1>8, <2>1 DEF SnapInv, OnPace, latestVars
<1> QED
  BY <1>4, <1>5, <1>6, <1>7, <1>8 DEF Capture

LEMMA SnapUpload == TypeOK /\ StoreInv /\ SnapInv /\ Upload => SnapInv'
<1> SUFFICES ASSUME TypeOK, StoreInv, SnapInv, Upload PROVE SnapInv'
  OBVIOUS
<1>1. UNCHANGED <<capVars, buffers, latestVars>>
  BY Frames
<1>2. NextIdx' = NextIdx /\ Begun' = Begun
  BY <1>1 DEF NextIdx, Begun, capVars, latestVars
<1>3. s_latest_seq \in Nat /\ snap \in Snap /\ wire \in Seq(Frame)
  BY DEF TypeOK, Frame
<1>4. CASE UpSuspended \/ UpAwake \/ UpNothingNew
  BY <1>4 DEF UpSuspended, UpAwake, UpNothingNew, SnapInv, Sending
<1>5. CASE UpSnapshot
  <2>1. /\ snap'.seq = s_latest_seq /\ snap'.idx = s_latest_buf_idx
        /\ snap'.len = s_latest_jpeg_len /\ s_latest_seq # 0 /\ wire' = <<>>
        /\ Sending'
    BY <1>5 DEF UpSnapshot, Latest, Fresh, SnapInv, Sending
  <2>2. \A k \in 1..snap'.len : buffers'[snap'.idx][k] = snap'.seq
    BY <1>1, <2>1 DEF StoreInv, PublishedIsWhole
  <2>3. Len(wire') = 0 /\ s_latest_jpeg_len \in Nat
    BY <2>1 DEF TypeOK
  <2>4. snap'.seq \in 1..s_latest_seq' /\ snap'.seq # s_latest_seq' - 1
    BY <1>1, <1>3, <2>1 DEF latestVars
  <2>5. Len(wire') <= snap'.len /\ snap'.idx = s_latest_buf_idx'
    BY <1>1, <2>1, <2>3 DEF latestVars
  <2>6. \A k \in 1..Len(wire') : wire'[k] = snap'.seq
    BY <2>3
  <2> QED
    BY <2>1, <2>2, <2>4, <2>5, <2>6 DEF SnapInv
<1>6. CASE UpOpen
  BY <1>1, <1>2, <1>6 DEF UpOpen, SnapInv, Sending, OnPace, latestVars
<1>7. CASE UpWrite
  <2>1. /\ up_pc' = up_pc /\ snap' = snap /\ Sending /\ Sending'
        /\ Len(wire) < snap.len
        /\ wire' = Append(wire, buffers[snap.idx][Len(wire) + 1])
    BY <1>7 DEF UpWrite, Sending
  <2>2. OnPace' = OnPace
    BY <1>2, <2>1 DEF OnPace
  <2>3. snap.len \in Nat /\ Len(wire) \in Nat
    BY <1>3 DEF Snap
  <2>4. ASSUME OnPace
        PROVE  \A k \in 1..Len(wire') : wire'[k] = snap.seq
    <3>1. buffers[snap.idx][Len(wire) + 1] = snap.seq
      BY <2>1, <2>3, <2>4 DEF SnapInv
    <3>2. \A k \in 1..Len(wire) : wire[k] = snap.seq
      BY <2>1, <2>4 DEF SnapInv
    <3>3. Len(wire') = Len(wire) + 1
      BY <1>3, <2>1
    <3>4. \A k \in 1..Len(wire') :
            wire'[k] = IF k = Len(wire) + 1 THEN snap.seq ELSE wire[k]
      BY <1>3, <2>1, <3>1
    <3> QED
      BY <2>3, <3>2, <3>3, <3>4
  <2>5. Len(wire') <= snap.len
    BY <1>3, <2>1, <2>3
  <2> QED
    BY <1>1, <1>2, <2>1, <2>2, <2>4, <2>5 DEF SnapInv, latestVars
<1>8. ASSUME NEW n \in {1, 2}, Abandon(n) PROVE SnapInv'
  BY <1>8 DEF Abandon, NextIteration, SnapInv, Sending
<1>9. CASE UpDone
  BY <1>9 DEF UpDone, NextIteration, SnapInv, Sending
<1> QED
  BY <1>4, <1>5, <1>6, <1>7, <1>8, <1>9 DEF Upload, UpOpenFails, UpWriteFails

LEMMA SnapNext == TypeOK /\ StoreInv /\ SnapInv /\ [Next]_vars => SnapInv'
<1> SUFFICES ASSUME TypeOK, StoreInv, SnapInv, [Next]_vars PROVE SnapInv'
  OBVIOUS
<1>1. CASE Capture
  BY <1>1, SnapCapture
<1>2. CASE Upload
  BY <1>2, SnapUpload
<1>3. CASE UNCHANGED <<cap_pc, buffers, latestVars, upVars>>
  BY <1>3 DEF SnapInv, Sending, OnPace, Begun, NextIdx, latestVars, upVars
<1>4. ASSUME NEW s \in CameraState, Throttle(s) PROVE SnapInv'
  BY <1>3, <1>4 DEF Throttle, capVars
<1>5. CASE UNCHANGED vars
  BY <1>3, <1>5 DEF vars, capVars
<1> QED
  BY <1>1, <1>2, <1>4, <1>5 DEF Next

FrameInv == TypeOK /\ Room /\ StoreInv /\ SnapInv

LEMMA FrameInvariant == Spec => []FrameInv
<1>1. Init => FrameInv
  BY TypeInit, StoreInit DEF Init, Room, SnapInv, Sending, FrameInv
<1>2. FrameInv /\ [Next]_vars => FrameInv'
  BY TypeNext, RoomNext, StoreNext, SnapNext DEF FrameInv
<1> QED
  BY <1>1, <1>2, PTL DEF Spec

(* The two buffers protect the frame being sent until the second store     *)
(* after its snapshot begins, whatever the tasks' speeds.                  *)
THEOREM OnlyLappedFramesTear == Spec => []TornOnlyWhenLapped
<1>1. FrameInv => TornOnlyWhenLapped
  BY DEF FrameInv, SnapInv, Sending, OnPace, TornOnlyWhenLapped
<1> QED
  BY <1>1, FrameInvariant, PTL

-----------------------------------------------------------------------------
(* last_sent_seq is the newest frame delivered, and older than the one     *)
(* being sent.                                                             *)
OrderInv ==
  /\ DeliveredInOrder
  /\ \A k \in 1..Len(delivered) : delivered[k].seq <= last_sent_seq
  /\ last_sent_seq <= s_latest_seq
  /\ Sending => last_sent_seq < snap.seq

(* An element of a sequence over S is in S. *)
LEMMA SeqElement ==
  ASSUME NEW S, NEW q \in Seq(S), NEW k \in 1..Len(q)
  PROVE  q[k] \in S
OBVIOUS

LEMMA OrderNext == FrameInv /\ OrderInv /\ [Next]_vars => OrderInv'
<1> SUFFICES ASSUME FrameInv, OrderInv, [Next]_vars PROVE OrderInv'
  OBVIOUS
<1> USE DEF OrderInv, DeliveredInOrder, Sending
<1>1. /\ last_sent_seq \in Nat /\ s_latest_seq \in Nat /\ snap.seq \in Nat
      /\ delivered \in Seq([seq : Frame, data : Seq(Frame)])
  BY DEF FrameInv, TypeOK, Frame, Snap
<1>2. CASE Capture
  <2>1. s_latest_seq' \in {s_latest_seq, s_latest_seq + 1}
    BY <1>2 DEF Capture, CapPoll, CapResume, CapSuspend, CapWaitOver, CapSkip,
                CapGrab, CapCopy, CapPublish, latestVars
  <2> QED
    BY <1>1, <1>2, <2>1, Frames DEF upVars
<1>3. CASE UpSuspended \/ UpAwake \/ UpNothingNew \/ UpOpen \/ UpWrite
  BY <1>3 DEF UpSuspended, UpAwake, UpNothingNew, UpOpen, UpWrite, latestVars
<1>4. CASE UpSnapshot
  BY <1>1, <1>4 DEF UpSnapshot, Fresh, Latest, latestVars
<1>5. ASSUME NEW n \in {1, 2}, Abandon(n) PROVE OrderInv'
  BY <1>5 DEF Abandon, NextIteration, latestVars
<1>6. CASE UpDone
  <2>1. /\ Len(delivered') = Len(delivered) + 1 /\ Len(delivered) \in Nat
        /\ \A k \in 1..Len(delivered') :
             delivered'[k] = IF k = Len(delivered) + 1
                               THEN [seq |-> snap.seq, data |-> wire]
                               ELSE delivered[k]
    BY <1>1, <1>6 DEF UpDone
  <2>2. /\ last_sent_seq' = snap.seq /\ last_sent_seq < snap.seq
        /\ snap.seq <= s_latest_seq /\ s_latest_seq' = s_latest_seq
        /\ up_pc' = "top"
    <3>1. up_pc = "write" /\ snap.seq \in 1..s_latest_seq
      BY <1>6 DEF UpDone, FrameInv, SnapInv
    <3> QED
      BY <1>1, <1>6, <3>1 DEF UpDone, NextIteration, latestVars
  <2>3. \A k \in 1..Len(delivered) :
          delivered[k].seq <= last_sent_seq /\ delivered[k].seq \in Nat
    <3>1. ASSUME NEW k \in 1..Len(delivered)
          PROVE  delivered[k] \in [seq : Frame, data : Seq(Frame)]
      BY <1>1, SeqElement
    <3>2. ASSUME NEW k \in 1..Len(delivered) PROVE delivered[k].seq \in Nat
      BY <3>1, FrameAssumption DEF Frame
    <3> QED
      BY <3>2
  <2>4. \A k \in 1..Len(delivered) : delivered'[k] = delivered[k]
    BY <2>1
  <2>5. delivered'[Len(delivered) + 1].seq = snap.seq
    BY <2>1
  <2>6. DeliveredInOrder'
    <3>1. TAKE j, k \in 1..Len(delivered')
    <3>2. HAVE j < k
    <3>3. j \in 1..Len(delivered) /\ delivered'[j].seq = delivered[j].seq
      BY <2>1, <2>4, <3>2
    <3>4. CASE k = Len(delivered) + 1
      <4>1. delivered'[k].seq = snap.seq
        BY <2>5, <3>4
      <4>2. delivered[j].seq <= last_sent_seq /\ delivered[j].seq \in Nat
        BY <2>3, <3>3
      <4>3. delivered[j].seq < snap.seq
        BY <1>1, <2>2, <4>2
      <4> QED
        BY <3>3, <4>1, <4>3
    <3>5. CASE k \in 1..Len(delivered)
      <4>1. delivered'[k].seq = delivered[k].seq
        BY <2>4, <3>5
      <4>2. delivered[j].seq < delivered[k].seq
        BY <3>2, <3>3, <3>5
      <4> QED
        BY <3>3, <4>1, <4>2
    <3> QED
      BY <2>1, <3>4, <3>5
  <2>7. \A k \in 1..Len(delivered') : delivered'[k].seq <= last_sent_seq'
    <3>1. TAKE k \in 1..Len(delivered')
    <3>2. CASE k = Len(delivered) + 1
      BY <1>1, <2>2, <2>5, <3>2
    <3>3. CASE k \in 1..Len(delivered)
      <4>1. delivered'[k].seq = delivered[k].seq
        BY <2>4, <3>3
      <4>2. delivered[k].seq <= last_sent_seq /\ delivered[k].seq \in Nat
        BY <2>3, <3>3
      <4> QED
        BY <1>1, <2>2, <4>1, <4>2
    <3> QED
      BY <2>1, <3>2, <3>3
  <2> QED
    BY <2>2, <2>6, <2>7
<1>7. ASSUME NEW s \in CameraState, Throttle(s) PROVE OrderInv'
  BY <1>7 DEF Throttle, upVars, latestVars
<1>8. CASE UNCHANGED vars
  BY <1>8 DEF vars, upVars, latestVars
<1> QED
  BY <1>2, <1>3, <1>4, <1>5, <1>6, <1>7, <1>8
     DEF Next, Upload, UpOpenFails, UpWriteFails

LEMMA OrderInvariant == Spec => []OrderInv
<1>1. Init => OrderInv
  BY DEF Init, OrderInv, DeliveredInOrder, Sending
<1> QED
  BY <1>1, FrameInvariant, OrderNext, PTL DEF Spec

(* The server is sent frames in the order they were captured, none twice,  *)
(* however often the stream fails and is opened again.                     *)
THEOREM AlwaysInOrder == Spec => []DeliveredInOrder
<1>1. OrderInv => DeliveredInOrder
  BY DEF OrderInv
<1> QED
  BY <1>1, OrderInvariant, PTL

(* No step but the end of a part clears the error streak, and the end of a *)
(* part advances last_sent_seq.                                            *)
THEOREM StreakAlwaysHolds == Spec => StreakHolds
<1> DEFINE Held == s_http_error_streak' < s_http_error_streak
                     => last_sent_seq' > last_sent_seq
<1>1. FrameInv /\ OrderInv /\ [Next]_vars => [Held]_vars
  <2> SUFFICES ASSUME FrameInv, OrderInv, [Next]_vars PROVE Held \/ UNCHANGED vars
    OBVIOUS
  <2>1. s_http_error_streak \in Nat /\ last_sent_seq \in Nat /\ snap.seq \in Nat
    BY FrameAssumption DEF FrameInv, TypeOK, Frame, Snap
  <2>2. CASE Capture
    BY <2>1, <2>2, Frames DEF upVars
  <2>3. CASE UpSuspended \/ UpAwake \/ UpNothingNew \/ UpSnapshot \/ UpOpen \/ UpWrite
    BY <2>1, <2>3 DEF UpSuspended, UpAwake, UpNothingNew, UpSnapshot, UpOpen, UpWrite
  <2>4. ASSUME NEW n \in {1, 2}, Abandon(n) PROVE Held
    <3>1. s_http_error_streak' >= s_http_error_streak /\ s_http_error_streak' \in Nat
      BY <2>4, RaisedBounds, FrameAssumption DEF Abandon, FrameInv
    <3> QED
      BY <2>1, <3>1
  <2>5. CASE UpDone
    BY <2>1, <2>5 DEF UpDone, OrderInv, Sending
  <2>6. ASSUME NEW s \in CameraState, Throttle(s) PROVE Held
    BY <2>1, <2>6 DEF Throttle, upVars
  <2> QED
    BY <2>2, <2>3, <2>4, <2>5, <2>6 DEF Next, Upload, UpOpenFails, UpWriteFails
<1> QED
  BY <1>1, FrameInvariant, OrderInvariant, PTL DEF Spec, StreakHolds

-----------------------------------------------------------------------------
(* The part in progress when the flag was set is the only one that can end *)
(* while it stays set, and after it the upload task is back at its test.   *)
LateInv == s_cam_suspended => late = 0 \/ (late = 1 /\ up_pc = "top")

LEMMA LateNext == LateInv /\ [Next]_vars => LateInv'
<1> SUFFICES ASSUME LateInv, [Next]_vars PROVE LateInv'
  OBVIOUS
<1> USE DEF LateInv, capVars, upVars
<1>1. CASE Capture
  BY <1>1 DEF Capture, CapPoll, CapResume, Run, CapSuspend, CapWaitOver, CapSkip,
              CapGrab, CapCopy, CapPublish
<1>2. CASE UpSuspended \/ UpAwake \/ UpNothingNew \/ UpSnapshot \/ UpOpen \/ UpWrite
  BY <1>2 DEF UpSuspended, UpAwake, Awake, UpNothingNew, UpSnapshot, UpOpen, UpWrite
<1>3. ASSUME NEW n \in {1, 2}, Abandon(n) PROVE LateInv'
  BY <1>3 DEF Abandon, NextIteration
<1>4. CASE UpDone
  BY <1>4 DEF UpDone, NextIteration
<1>5. ASSUME NEW s \in CameraState, Throttle(s) PROVE LateInv'
  BY <1>5 DEF Throttle
<1>6. CASE UNCHANGED vars
  BY <1>6 DEF vars
<1> QED
  BY <1>1, <1>2, <1>3, <1>4, <1>5, <1>6 DEF Next, Upload, UpOpenFails, UpWriteFails

(* A suspension lets through at most the part that was in progress.        *)
THEOREM SuspensionSendsAtMostOne == Spec => []SuspendedSendsOne
<1>1. Init => LateInv
  BY DEF Init, LateInv
<1>2. LateInv => SuspendedSendsOne
  BY DEF LateInv, SuspendedSendsOne
<1> QED
  BY <1>1, <1>2, LateNext, PTL DEF Spec

(* A frame stored under a state SUSPENDED leads back to the test of an     *)
(* iteration, which it cannot pass before the state changes.               *)
StoredInv ==
  /\ stored \in {0, 1}
  /\ stored = 1 => camera_state = "SUSPENDED" /\ cap_pc \in {"poll", "suspended"}

LEMMA StoredNext == StoredInv /\ [Next]_vars => StoredInv'
<1> SUFFICES ASSUME StoredInv, [Next]_vars PROVE StoredInv'
  OBVIOUS
<1> USE DEF StoredInv, capVars
<1>1. CASE Capture
  BY <1>1 DEF Capture, CapPoll, ToSuspend, CapResume, Run, CapSuspend, CapWaitOver,
              CapSkip, CapGrab, CapCopy, CapPublish
<1>2. CASE Upload
  BY <1>2 DEF Upload, UpSuspended, UpAwake, UpNothingNew, UpSnapshot, UpOpen, UpWrite,
              UpOpenFails, UpWriteFails, Abandon, UpDone
<1>3. ASSUME NEW s \in CameraState, Throttle(s) PROVE StoredInv'
  BY <1>3 DEF Throttle
<1>4. CASE UNCHANGED vars
  BY <1>4 DEF vars
<1> QED
  BY <1>1, <1>2, <1>3, <1>4 DEF Next

(* While the camera state is SUSPENDED at most one frame more is captured, *)
(* also when it became so again between the wait and the read after it.    *)
THEOREM SuspensionStoresAtMostOne == Spec => []SuspendedStoresOne
<1>1. Init => StoredInv
  BY DEF Init, StoredInv
<1>2. StoredInv => SuspendedStoresOne
  BY DEF StoredInv, SuspendedStoresOne
<1> QED
  BY <1>1, <1>2, StoredNext, PTL DEF Spec

LEMMA ModeNext == TypeOK /\ ModeIsReal /\ [Next]_vars => ModeIsReal'
<1> SUFFICES ASSUME TypeOK, ModeIsReal, [Next]_vars PROVE ModeIsReal'
  OBVIOUS
<1>1. CASE UNCHANGED sensorVars
  BY <1>1 DEF sensorVars, ModeIsReal
<1>2. ASSUME NEW sensor \in BOOLEAN, Run(sensor) PROVE ModeIsReal'
  BY <1>2, AdjustType DEF Run, TypeOK
<1>3. CASE Upload
  BY <1>1, <1>3, Frames
<1>4. ASSUME NEW s \in CameraState, Throttle(s) PROVE ModeIsReal'
  BY <1>1, <1>4 DEF Throttle
<1>5. CASE CapSuspend \/ CapWaitOver \/ CapSkip \/ CapCopy \/ CapPublish
           \/ \E l \in 0..Cells : CapGrab(l)
  BY <1>1, <1>5 DEF CapSuspend, CapWaitOver, CapSkip, CapCopy, CapPublish, CapGrab
<1>6. CASE UNCHANGED vars
  BY <1>1, <1>6 DEF vars
<1> QED
  BY <1>2, <1>3, <1>4, <1>5, <1>6 DEF Next, Capture, CapPoll, CapResume

(* The early return of camera_adjust_quality trusts last_camera_state, and *)
(* may: the sensor is in that mode, unless the setters that were to put it *)
(* there have failed.                                                      *)
THEOREM ModeIsAlwaysReal == Spec => []ModeIsReal
<1>1. Init => ModeIsReal
  BY DEF Init, ModeIsReal
<1>2. FrameInv => TypeOK
  BY DEF FrameInv
<1> QED
  BY <1>1, <1>2, ModeNext, FrameInvariant, PTL DEF Spec

-----------------------------------------------------------------------------
(* The channel of the newest frame. Between parts there is no snapshot.    *)
IdleInv == ~Sending => snap.seq = 0

Parts == [j \in 1..Len(delivered) |-> Part(delivered[j])]

LEMMA IdleNext == IdleInv /\ [Next]_vars => IdleInv'
<1> SUFFICES ASSUME IdleInv, [Next]_vars PROVE IdleInv'
  OBVIOUS
<1> USE DEF IdleInv, Sending
<1>1. CASE Capture
  BY <1>1 DEF Capture, CapPoll, CapResume, CapSuspend, CapWaitOver, CapSkip,
              CapGrab, CapCopy, CapPublish, upVars
<1>2. CASE UpSuspended \/ UpAwake \/ UpNothingNew \/ UpOpen \/ UpWrite
  BY <1>2 DEF UpSuspended, UpAwake, UpNothingNew, UpOpen, UpWrite
<1>3. CASE UpSnapshot
  BY <1>3 DEF UpSnapshot
<1>4. ASSUME NEW n \in {1, 2}, Abandon(n) PROVE IdleInv'
  BY <1>4 DEF Abandon, NextIteration, NoSnap
<1>5. CASE UpDone
  BY <1>5 DEF UpDone, NextIteration, NoSnap
<1>6. ASSUME NEW s \in CameraState, Throttle(s) PROVE IdleInv'
  BY <1>6 DEF Throttle, upVars
<1>7. CASE UNCHANGED vars
  BY <1>7 DEF vars, upVars
<1> QED
  BY <1>1, <1>2, <1>3, <1>4, <1>5, <1>6, <1>7
     DEF Next, Upload, UpOpenFails, UpWriteFails

LEMMA IsSequence ==
  ASSUME NEW S, NEW m \in Nat, NEW f
  PROVE  f \in Seq(S) /\ Len(f) = m <=> f \in [1..m -> S]
OBVIOUS

LEMMA OneMore ==
  ASSUME NEW S, NEW s \in Seq(S), NEW e \in S
  PROVE  /\ Append(s, e) \in Seq(S) /\ Len(Append(s, e)) = Len(s) + 1
         /\ Append(s, e)[Len(s) + 1] = e
         /\ \A j \in 1..Len(s) : Append(s, e)[j] = s[j]
OBVIOUS

LEMMA SameFunction ==
  ASSUME NEW n \in Nat, NEW S, NEW T, NEW f \in [1..n -> S], NEW g \in [1..n -> T],
         \A j \in 1..n : f[j] = g[j]
  PROVE  f = g
OBVIOUS

(* A part delivered is one more of the parts. *)
LEMMA PartsAppend ==
  ASSUME NEW part \in [seq : Frame, data : Seq(Frame)],
         delivered \in Seq([seq : Frame, data : Seq(Frame)]),
         delivered' = Append(delivered, part)
  PROVE  Parts' = Append(Parts, Part(part))
<1> DEFINE n == Len(delivered)
           Old == {Part(delivered[j]) : j \in 1..n} \cup {Part(part)}
           New == {Part(delivered'[j]) : j \in 1..n + 1}
           A == Append(Parts, Part(part))
<1>1. /\ Len(delivered') = n + 1 /\ n \in Nat
      /\ delivered'[n + 1] = part
      /\ \A j \in 1..n : delivered'[j] = delivered[j]
  OBVIOUS
<1>2. Parts' = [j \in 1..n + 1 |-> Part(delivered'[j])]
  BY <1>1 DEF Parts
<1>3. Parts' \in [1..n + 1 -> New]
  BY <1>2
<1>4. Parts \in Seq(Old) /\ Len(Parts) = n
  <2>1. Parts \in [1..n -> Old]
    BY DEF Parts
  <2> HIDE DEF Old, n
  <2> QED
    BY <1>1, <2>1, IsSequence
<1>5. /\ A \in [1..n + 1 -> Old]
      /\ A[n + 1] = Part(part)
      /\ \A j \in 1..n : A[j] = Parts[j]
  <2>1. Part(part) \in Old /\ n \in Nat
    BY <1>1
  <2> HIDE DEF Old, n
  <2>2. /\ A \in Seq(Old) /\ Len(A) = n + 1
        /\ A[n + 1] = Part(part)
        /\ \A j \in 1..n : A[j] = Parts[j]
    BY ONLY <2>1, <1>4, OneMore
  <2> HIDE DEF A
  <2> QED
    BY ONLY <2>1, <2>2, IsSequence
<1>6. ASSUME NEW j \in 1..n + 1 PROVE Parts'[j] = A[j]
  <2>1. Parts'[j] = Part(delivered'[j])
    BY <1>2
  <2>2. CASE j = n + 1
    <3>1. delivered'[j] = part
      BY <1>1, <2>2
    <3> HIDE DEF A
    <3> QED
      BY <1>5, <2>1, <2>2, <3>1
  <2>3. CASE j \in 1..n
    <3>1. delivered'[j] = delivered[j] /\ Parts[j] = Part(delivered[j])
      BY <1>1, <2>3 DEF Parts
    <3> HIDE DEF A
    <3> QED
      BY <1>5, <2>1, <2>3, <3>1
  <2>4. n \in Nat
    BY <1>1
  <2> HIDE DEF A, n
  <2>5. j = n + 1 \/ j \in 1..n
    BY <2>4
  <2> QED
    BY <2>2, <2>3, <2>5
<1>7. n + 1 \in Nat
  BY <1>1
<1>8. Parts' = A
  <2> HIDE DEF A, New, Old, n
  <2> QED
    BY <1>3, <1>5, <1>6, <1>7, SameFunction
<1> QED
  BY <1>8

LEMMA ChannelStarts == Init => Channel!Init
BY DEF Init, Channel!Init, Begun, NoSnap

(* What the capture task does is to begin a frame, or to publish it.       *)
LEMMA ChannelCapture ==
  ASSUME TypeOK, Capture
  PROVE  Channel!Begin \/ Channel!Publish \/ UNCHANGED Channel!vars
<1>1. /\ UNCHANGED <<snap, delivered>>
      /\ s_latest_seq \in Nat
  BY Frames, FrameAssumption DEF TypeOK, Frame, upVars
<1>2. CASE \/ \E sensor \in BOOLEAN : CapPoll(sensor) \/ CapResume(sensor)
           \/ CapSuspend \/ CapWaitOver \/ CapSkip \/ CapCopy
  <2>1. s_latest_seq' = s_latest_seq /\ (cap_pc' = "copy" <=> cap_pc = "copy")
    BY <1>2 DEF CapPoll, CapResume, Run, CapSuspend, CapWaitOver, CapSkip,
                CapCopy, latestVars
  <2> QED
    BY <1>1, <2>1 DEF Channel!vars, Begun
<1>3. ASSUME NEW l \in 0..Cells, CapGrab(l) PROVE Channel!Begin
  BY <1>1, <1>3 DEF CapGrab, Channel!Begin, Begun, latestVars
<1>4. CASE CapPublish
  BY <1>1, <1>4 DEF CapPublish, Channel!Publish, Begun
<1> QED
  BY <1>2, <1>3, <1>4 DEF Capture

(* And the upload task picks the newest frame, and abandons or delivers it.*)
LEMMA ChannelUpload ==
  ASSUME FrameInv, OrderInv, IdleInv, Upload
  PROVE  \/ Channel!Pick \/ Channel!Abandon
         \/ \E whole \in BOOLEAN : Channel!Deliver(whole)
         \/ UNCHANGED Channel!vars
<1>1. /\ UNCHANGED <<cap_pc, s_latest_seq>> /\ Begun' = Begun
  BY DEF Upload, UpSuspended, UpAwake, UpNothingNew, UpSnapshot, UpOpen, UpWrite,
         UpWriteFails, UpDone, UpOpenFails, Abandon, capVars, latestVars, Begun
<1>2. /\ delivered \in Seq([seq : Frame, data : Seq(Frame)])
      /\ snap.seq \in Nat /\ s_latest_seq \in Nat /\ last_sent_seq \in Nat
      /\ wire \in Seq(Frame) /\ snap.seq \in Frame
  BY Frames DEF FrameInv, TypeOK, Frame, Snap
<1>3. /\ Sending => snap.seq # 0
      /\ Begun \in Nat
  BY <1>2 DEF FrameInv, SnapInv, Begun
<1>4. CASE UpSuspended \/ UpAwake \/ UpNothingNew \/ UpOpen \/ UpWrite
  BY <1>1, <1>4 DEF UpSuspended, UpAwake, UpNothingNew, UpOpen, UpWrite, Channel!vars
<1>5. CASE UpSnapshot
  <2>1. /\ snap.seq = 0 /\ s_latest_seq # 0 /\ last_sent_seq < s_latest_seq
        /\ snap'.seq = s_latest_seq /\ delivered' = delivered
    BY <1>2, <1>5 DEF UpSnapshot, Fresh, Latest, IdleInv, Sending, OrderInv
  <2>2. \A j \in 1..Len(Parts) : Parts[j].seq < s_latest_seq
    <3>1. Len(Parts) = Len(delivered)
      BY <1>2 DEF Parts
    <3>2. ASSUME NEW j \in 1..Len(delivered)
          PROVE  Parts[j].seq < s_latest_seq
      <4>1. delivered[j].seq <= last_sent_seq
        BY DEF OrderInv
      <4>2. delivered[j] \in [seq : Frame, data : Seq(Frame)]
        BY <1>2, SeqElement
      <4>3. delivered[j].seq \in Nat
        BY <4>2, FrameAssumption DEF Frame
      <4>4. Parts[j].seq = delivered[j].seq
        BY DEF Parts, Part
      <4> QED
        BY <1>2, <2>1, <4>1, <4>3, <4>4
    <3> QED
      BY <3>1, <3>2
  <2>3. Channel!Pick
    BY <1>1, <2>1, <2>2 DEF Channel!Pick, Parts
  <2> QED
    BY <2>3
<1>6. ASSUME NEW n \in {1, 2}, Abandon(n), Sending PROVE Channel!Abandon
  BY <1>1, <1>3, <1>6 DEF Abandon, NextIteration, NoSnap, Channel!Abandon
<1>7. CASE UpDone
  <2> DEFINE part == [seq |-> snap.seq, data |-> wire]
             whole == PartWhole(part)
  <2>1. /\ up_pc = "write" /\ Sending /\ snap'.seq = 0
        /\ delivered' = Append(delivered, part)
    BY <1>7 DEF UpDone, NextIteration, NoSnap, Sending
  <2>2. part \in [seq : Frame, data : Seq(Frame)]
    BY <1>2
  <2>3. Parts' = Append(Parts, Part(part))
    BY <1>2, <2>1, <2>2, PartsAppend
  <2>4. Part(part) = [seq |-> snap.seq, whole |-> whole]
    BY DEF Part
  <2>5. whole \/ Begun > snap.seq + 1
    <3>1. OnPace => \A k \in 1..Len(wire) : wire[k] = snap.seq
      BY <2>1 DEF FrameInv, SnapInv
    <3> QED
      BY <1>2, <1>3, <3>1 DEF OnPace, PartWhole
  <2>6. whole \in BOOLEAN
    BY DEF PartWhole
  <2> HIDE DEF whole, part
  <2>7. Channel!Deliver(whole)
    BY <1>1, <1>3, <2>1, <2>3, <2>4, <2>5 DEF Channel!Deliver, Parts
  <2> QED
    BY <2>6, <2>7
<1> QED
  BY <1>4, <1>5, <1>6, <1>7 DEF Upload, UpOpenFails, UpWriteFails, Sending

LEMMA IdleInvariant == Spec => []IdleInv
<1>1. Init => IdleInv
  BY DEF Init, IdleInv, NoSnap
<1> QED
  BY <1>1, IdleNext, PTL DEF Spec

LEMMA ChannelStep ==
  ASSUME FrameInv, OrderInv, IdleInv, [Next]_vars
  PROVE  [Channel!Next]_(Channel!vars)
<1>1. CASE Capture
  BY <1>1, ChannelCapture DEF FrameInv, Channel!Next
<1>2. CASE Upload
  BY <1>2, ChannelUpload DEF Channel!Next
<1>3. ASSUME NEW s \in CameraState, Throttle(s) PROVE UNCHANGED Channel!vars
  BY <1>3 DEF Throttle, capVars, latestVars, upVars, Channel!vars, Begun
<1>4. CASE UNCHANGED vars
  BY <1>4 DEF vars, capVars, latestVars, upVars, Channel!vars, Begun
<1> QED
  BY <1>1, <1>2, <1>3, <1>4 DEF Next

(* camera_task and camera_upload_task, their two buffers and the lock      *)
(* implement the channel, for frames of any length and any failures.       *)
THEOREM ExchangeImplementsChannel == Spec => ChannelSpec
BY FrameInvariant, OrderInvariant, IdleInvariant, ChannelStarts, ChannelStep, PTL
   DEF Spec, ChannelSpec, Channel!Spec

(* So every part the server gets with the data of two frames in it was two *)
(* frames behind the camera, or more, when it ended.                       *)
TornInv ==
  \A j \in 1..Len(delivered) : PartWhole(delivered[j]) \/ Begun > delivered[j].seq + 1

LEMMA DeliveredType ==
  ASSUME TypeOK, NEW j \in 1..Len(delivered)
  PROVE  delivered[j].seq \in Nat
<1>1. delivered[j] \in [seq : Frame, data : Seq(Frame)]
  BY SeqElement DEF TypeOK
<1> QED
  BY <1>1, FrameAssumption DEF Frame

LEMMA BegunGrows ==
  ASSUME TypeOK, [Next]_vars
  PROVE  Begun \in Nat /\ Begun' \in Nat /\ Begun <= Begun'
<1>1. s_latest_seq \in Nat
  BY FrameAssumption DEF TypeOK, Frame
<1>2. CASE Capture
  BY <1>1, <1>2 DEF Capture, CapPoll, CapResume, Run, CapSuspend, CapWaitOver,
        CapSkip, CapGrab, CapCopy, CapPublish, latestVars, Begun
<1>3. CASE UNCHANGED <<cap_pc, s_latest_seq>>
  BY <1>1, <1>3 DEF Begun
<1>4. CASE Upload
  BY <1>3, <1>4, Frames DEF capVars, latestVars
<1>5. ASSUME NEW s \in CameraState, Throttle(s)
      PROVE  UNCHANGED <<cap_pc, s_latest_seq>>
  BY <1>5 DEF Throttle, capVars, latestVars
<1>6. CASE UNCHANGED vars
  BY <1>3, <1>6 DEF vars, capVars, latestVars
<1> QED
  BY <1>2, <1>3, <1>4, <1>5, <1>6 DEF Next

LEMMA TornNext == FrameInv /\ TornInv /\ [Next]_vars => TornInv'
<1> SUFFICES ASSUME FrameInv, TornInv, [Next]_vars PROVE TornInv'
  OBVIOUS
<1>1. /\ TypeOK
      /\ Begun \in Nat /\ Begun' \in Nat /\ Begun <= Begun'
  BY BegunGrows DEF FrameInv
<1>2. ASSUME NEW j \in 1..Len(delivered)
      PROVE  PartWhole(delivered[j]) \/ Begun' > delivered[j].seq + 1
  BY <1>1, <1>2, DeliveredType DEF TornInv
<1>3. CASE delivered' = delivered
  BY <1>2, <1>3 DEF TornInv, PartWhole
<1>4. CASE UpDone
  <2> DEFINE part == [seq |-> snap.seq, data |-> wire]
  <2>1. /\ up_pc = "write" /\ Sending
        /\ delivered' = Append(delivered, part) /\ UNCHANGED <<cap_pc, s_latest_seq>>
    BY <1>4 DEF UpDone, Sending, capVars, latestVars
  <2>2. snap.seq \in Nat /\ delivered \in Seq([seq : Frame, data : Seq(Frame)])
        /\ part \in [seq : Frame, data : Seq(Frame)]
    BY <1>1, FrameAssumption DEF TypeOK, Snap, Frame
  <2>3. PartWhole(part) \/ Begun' > part.seq + 1
    <3>1. OnPace => \A k \in 1..Len(wire) : wire[k] = snap.seq
      BY <2>1 DEF FrameInv, SnapInv
    <3>2. Begun' = Begun
      BY <2>1 DEF Begun
    <3> QED
      BY <1>1, <2>2, <3>1, <3>2 DEF OnPace, PartWhole
  <2> HIDE DEF part
  <2>4. /\ Len(delivered') = Len(delivered) + 1 /\ Len(delivered) \in Nat
        /\ delivered'[Len(delivered) + 1] = part
        /\ \A j \in 1..Len(delivered) : delivered'[j] = delivered[j]
    BY <2>1, <2>2
  <2>5. ASSUME NEW j \in 1..Len(delivered')
        PROVE  PartWhole(delivered'[j]) \/ Begun' > delivered'[j].seq + 1
    <3>1. CASE j = Len(delivered) + 1
      BY <2>3, <2>4, <3>1
    <3>2. CASE j \in 1..Len(delivered)
      BY <1>2, <2>4, <3>2
    <3> QED
      BY <2>4, <3>1, <3>2
  <2> QED
    BY <2>5 DEF TornInv, PartWhole
<1>5. CASE Upload /\ ~UpDone
  BY <1>3, <1>5 DEF Upload, UpSuspended, UpAwake, UpNothingNew, UpSnapshot, UpOpen,
        UpWrite, UpWriteFails, UpOpenFails, Abandon
<1>6. ASSUME NEW s \in CameraState, Throttle(s) PROVE delivered' = delivered
  BY <1>6 DEF Throttle
<1>7. CASE Capture \/ UNCHANGED vars
  BY <1>3, <1>7, Frames DEF vars
<1> QED
  BY <1>3, <1>4, <1>5, <1>6, <1>7 DEF Next

THEOREM TornPartsWereLapped == Spec => []Channel!TornWereLapped
<1>1. Init => TornInv
  BY DEF Init, TornInv
<1>2. FrameInv /\ TornInv => Channel!TornWereLapped
  <2> SUFFICES ASSUME FrameInv, TornInv, NEW j \in 1..Len(Parts), ~Parts[j].whole
               PROVE  Begun > Parts[j].seq + 1
    BY DEF Channel!TornWereLapped, Parts
  <2>1. j \in 1..Len(delivered)
    BY DEF FrameInv, TypeOK, Parts
  <2>2. Parts[j].seq = delivered[j].seq /\ Parts[j].whole = PartWhole(delivered[j])
    BY <2>1 DEF Parts, Part
  <2> QED
    BY <2>1, <2>2 DEF TornInv
<1> QED
  BY <1>1, <1>2, FrameInvariant, TornNext, PTL DEF Spec

=============================================================================
