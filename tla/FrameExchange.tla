---------------------------- MODULE FrameExchange ----------------------------
(***************************************************************************)
(* components/cam_task: the capture task stores frames in two buffers that *)
(* alternate, the upload task sends the newest one over a persistent HTTP  *)
(* stream. The lock covers the index, length and sequence number, not the  *)
(* bytes: memcpy and the socket writes are cell by cell here. The camera   *)
(* state is error_control's, free to change at any time.                   *)
(***************************************************************************)
EXTENDS Integers, Sequences

CONSTANTS
  MaxFrames,   (* bound: frames stored; far below the 2^32 of s_latest_seq *)
  Cells,       (* CAM_LATEST_JPEG_BUF_SIZE, in units of copying            *)
  StreakMax    (* UINT8_MAX                                                *)

ASSUME FrameAssumption ==
  /\ MaxFrames \in Nat
  /\ Cells \in Nat \ {0}
  /\ StreakMax \in Nat \ {0}

VARIABLES
  camera_state,                       (* error_control_get_camera_state()  *)
  cap_pc, current_state, s_cam_suspended,         (* camera_task           *)
  len, copied,                                    (* latest_frame_store    *)
  last_camera_state, quality,                     (* camera_adjust_quality *)
  buffers, s_latest_buf_idx, s_latest_jpeg_len, s_latest_seq,
  up_pc, snap, stream_open, last_sent_seq, s_http_error_streak,
  wire,        (* what of snap has been handed to the socket               *)
  delivered,   (* history: the parts sent, as the server gets them         *)
  late,        (* history: parts sent since the capture task last          *)
               (* suspended the stream                                     *)
  stored       (* history: frames stored since camera_state last became    *)
               (* SUSPENDED, 0 while it is not                             *)

capVars    == <<cap_pc, current_state, s_cam_suspended, len, copied>>
sensorVars == <<last_camera_state, quality>>
latestVars == <<s_latest_buf_idx, s_latest_jpeg_len, s_latest_seq>>
upVars     == <<up_pc, snap, stream_open, last_sent_seq, s_http_error_streak, wire>>
vars       == <<camera_state, capVars, sensorVars, buffers, latestVars, upVars,
                delivered, late, stored>>

CameraState == {"NORMAL", "DEGRADED", "SUSPENDED"}
Frame       == 0..MaxFrames          (* 0: no frame                        *)
Index       == {0, 1}
Data        == [1..Cells -> Frame]
Snap        == [idx : Index, len : 0..Cells, seq : Frame]
NoSnap      == [idx |-> 0, len |-> 0, seq |-> 0]

TypeOK ==
  /\ camera_state \in CameraState
  /\ cap_pc \in {"poll", "suspended", "resume", "grab", "copy"}
  /\ current_state \in CameraState
  /\ s_cam_suspended \in BOOLEAN
  /\ len \in 0..Cells /\ copied \in 0..Cells
  /\ last_camera_state \in CameraState
  /\ quality \in {"NORMAL", "DEGRADED", "UNKNOWN"}
  /\ buffers \in [Index -> Data]
  /\ s_latest_buf_idx \in Index
  /\ s_latest_jpeg_len \in 0..Cells
  /\ s_latest_seq \in Frame
  /\ up_pc \in {"top", "wait", "open", "write"}
  /\ snap \in Snap
  /\ stream_open \in BOOLEAN
  /\ last_sent_seq \in Frame
  /\ s_http_error_streak \in 0..StreakMax
  /\ wire \in Seq(Frame) /\ Len(wire) <= Cells
  /\ delivered \in Seq([seq : Frame, data : Seq(Frame)])
  /\ late \in Nat /\ stored \in Nat

Init ==
  /\ camera_state = "NORMAL"
  /\ cap_pc = "poll" /\ current_state = "NORMAL" /\ s_cam_suspended = FALSE
  /\ len = 0 /\ copied = 0
  /\ last_camera_state = "NORMAL" /\ quality = "NORMAL"
  /\ buffers = [x \in Index |-> [k \in 1..Cells |-> 0]]
  /\ s_latest_buf_idx = 0 /\ s_latest_jpeg_len = 0 /\ s_latest_seq = 0
  /\ up_pc = "top" /\ snap = NoSnap /\ stream_open = FALSE
  /\ last_sent_seq = 0 /\ s_http_error_streak = 0 /\ wire = <<>>
  /\ delivered = <<>>
  /\ late = 0 /\ stored = 0

-----------------------------------------------------------------------------
(* error_control throttles the camera, or lets it recover. *)
Throttle(s) ==
  /\ s # camera_state
  /\ camera_state' = s
  /\ stored' = 0
  /\ UNCHANGED <<capVars, sensorVars, buffers, latestVars, upVars, delivered, late>>

(* set_framesize and set_quality: a result that is an error is dropped,    *)
(* and what the sensor is left in, the old mode or half of the new, is     *)
(* "UNKNOWN".                                                              *)
Sets(state) ==
  IF state = "SUSPENDED" THEN quality' = quality ELSE quality' \in {state, "UNKNOWN"}

(* Mutant: the mode is recorded before the sensor is looked at.            *)
AdjustForgets(state, sensor) ==
  /\ last_camera_state' = state
  /\ IF sensor THEN Sets(state) ELSE quality' = quality

(* camera_adjust_quality: without a sensor it is tried again next time.    *)
AdjustQuality(state, sensor) ==
  IF state = last_camera_state \/ ~sensor
    THEN UNCHANGED sensorVars
    ELSE last_camera_state' = state /\ Sets(state)

(* Mutant: the upload task is not told that the suspension is over.        *)
RunForgets(sensor) ==
  /\ current_state' = camera_state
  /\ UNCHANGED s_cam_suspended
  /\ AdjustQuality(camera_state, sensor)
  /\ cap_pc' = "grab"

(* The rest of an iteration begins with the state read just before.        *)
Run(sensor) ==
  /\ current_state' = camera_state
  /\ s_cam_suspended' = FALSE
  /\ AdjustQuality(camera_state, sensor)
  /\ cap_pc' = "grab"

(* Mutant: what is tested is the state of the iteration before.            *)
ToSuspendStale == current_state = "SUSPENDED"

ToSuspend == camera_state = "SUSPENDED"

(* An iteration of camera_task: the state is read ...                      *)
CapPoll(sensor) ==
  /\ cap_pc = "poll"
  /\ ~ToSuspend
  /\ Run(sensor)
  /\ UNCHANGED <<camera_state, len, copied, buffers, latestVars, upVars,
                 delivered, late, stored>>

(* ... and if it is SUSPENDED, polled every second until it is not ...     *)
CapSuspend ==
  /\ cap_pc = "poll"
  /\ ToSuspend
  /\ current_state' = camera_state
  /\ s_cam_suspended' = TRUE
  /\ late' = 0
  /\ cap_pc' = "suspended"
  /\ UNCHANGED <<camera_state, len, copied, sensorVars, buffers, latestVars,
                 upVars, delivered, stored>>

CapWaitOver ==
  /\ cap_pc = "suspended"
  /\ camera_state # "SUSPENDED"
  /\ cap_pc' = "resume"
  /\ UNCHANGED <<camera_state, current_state, s_cam_suspended, len, copied,
                 sensorVars, buffers, latestVars, upVars, delivered, late, stored>>

(* ... then read once more, whatever it is by now.                         *)
CapResume(sensor) ==
  /\ cap_pc = "resume"
  /\ Run(sensor)
  /\ UNCHANGED <<camera_state, len, copied, buffers, latestVars, upVars,
                 delivered, late, stored>>

(* No frame, or one that does not fit a buffer: the next iteration.        *)
CapSkip ==
  /\ cap_pc = "grab"
  /\ cap_pc' = "poll"
  /\ UNCHANGED <<camera_state, current_state, s_cam_suspended, len, copied,
                 sensorVars, buffers, latestVars, upVars, delivered, late, stored>>

CapGrab(l) ==
  /\ cap_pc = "grab"
  /\ s_latest_seq < MaxFrames
  /\ cap_pc' = "copy"
  /\ len' = l
  /\ copied' = 0
  /\ UNCHANGED <<camera_state, current_state, s_cam_suspended, sensorVars,
                 buffers, latestVars, upVars, delivered, late, stored>>

(* Mutant: a single buffer. *)
NextIdxSame == s_latest_buf_idx

NextIdx == IF s_latest_buf_idx = 0 THEN 1 ELSE 0

(* memcpy(dst, src, len), a cell at a time. *)
CapCopy ==
  /\ cap_pc = "copy"
  /\ copied < len
  /\ copied' = copied + 1
  /\ buffers' = [buffers EXCEPT ![NextIdx][copied + 1] = s_latest_seq + 1]
  /\ UNCHANGED <<camera_state, cap_pc, current_state, s_cam_suspended, len,
                 sensorVars, latestVars, upVars, delivered, late, stored>>

(* The critical section of latest_frame_store; the task sleeps and loops.  *)
CapPublish ==
  /\ cap_pc = "copy"
  /\ copied = len
  /\ s_latest_buf_idx' = NextIdx
  /\ s_latest_jpeg_len' = len
  /\ s_latest_seq' = s_latest_seq + 1
  /\ cap_pc' = "poll"
  /\ len' = 0 /\ copied' = 0
  /\ stored' = IF camera_state = "SUSPENDED" THEN stored + 1 ELSE stored
  /\ UNCHANGED <<camera_state, current_state, s_cam_suspended, sensorVars,
                 buffers, upVars, delivered, late>>

-----------------------------------------------------------------------------
(* Mutants: the flag is not looked at; a suspension leaves the stream open.*)
AwakeAlways == TRUE
KeepOpen == UNCHANGED stream_open

Awake == ~s_cam_suspended

CloseStream == stream_open' = FALSE

(* Suspended, camera_upload_task closes its stream and sleeps a second.    *)
UpSuspended ==
  /\ up_pc = "top"
  /\ s_cam_suspended
  /\ CloseStream
  /\ UNCHANGED <<camera_state, capVars, sensorVars, buffers, latestVars, up_pc,
                 snap, last_sent_seq, s_http_error_streak, wire, delivered, late,
                 stored>>

(* Otherwise, after the backoff of its error streak, it waits for a        *)
(* notification, or one second.                                            *)
UpAwake ==
  /\ up_pc = "top"
  /\ Awake
  /\ up_pc' = "wait"
  /\ UNCHANGED <<camera_state, capVars, sensorVars, buffers, latestVars, snap,
                 stream_open, last_sent_seq, s_http_error_streak, wire,
                 delivered, late, stored>>

(* Mutants: a frame already sent is sent again; the index is the one       *)
(* before the last store.                                                  *)
FreshAlways == s_latest_seq # 0 /\ s_latest_jpeg_len # 0
LatestStale == [idx |-> 1 - s_latest_buf_idx, len |-> s_latest_jpeg_len,
                seq |-> s_latest_seq]

Fresh == s_latest_seq # 0 /\ s_latest_jpeg_len # 0 /\ s_latest_seq # last_sent_seq

(* The critical section of latest_frame_snapshot. *)
Latest == [idx |-> s_latest_buf_idx, len |-> s_latest_jpeg_len,
           seq |-> s_latest_seq]

UpNothingNew ==
  /\ up_pc = "wait"
  /\ ~Fresh
  /\ up_pc' = "top"
  /\ UNCHANGED <<camera_state, capVars, sensorVars, buffers, latestVars, snap,
                 stream_open, last_sent_seq, s_http_error_streak, wire,
                 delivered, late, stored>>

UpSnapshot ==
  /\ up_pc = "wait"
  /\ Fresh
  /\ snap' = Latest
  /\ up_pc' = IF stream_open THEN "write" ELSE "open"
  /\ UNCHANGED <<camera_state, capVars, sensorVars, buffers, latestVars,
                 stream_open, last_sent_seq, s_http_error_streak, wire,
                 delivered, late, stored>>

(* The stream is opened and its first boundary written. *)
UpOpen ==
  /\ up_pc = "open"
  /\ stream_open' = TRUE
  /\ up_pc' = "write"
  /\ UNCHANGED <<camera_state, capVars, sensorVars, buffers, latestVars, snap,
                 last_sent_seq, s_http_error_streak, wire, delivered, late, stored>>

(* The iteration ends; its locals go. *)
NextIteration ==
  /\ up_pc' = "top"
  /\ snap' = NoSnap
  /\ wire' = <<>>

(* Mutants: the streak is not capped, or wraps around like any uint8_t.    *)
RaisedFreely(n) == s_http_error_streak + n
RaisedWraps(n) == (s_http_error_streak + n) % (StreakMax + 1)

(* handle_http_error_streak, n times. *)
Raised(n) == IF s_http_error_streak + n > StreakMax
               THEN StreakMax ELSE s_http_error_streak + n

Abandon(n) ==
  /\ s_http_error_streak' = Raised(n)
  /\ stream_open' = FALSE
  /\ NextIteration
  /\ UNCHANGED <<camera_state, capVars, sensorVars, buffers, latestVars,
                 last_sent_seq, delivered, late, stored>>

(* The client is not created or opened, or the boundary is not written; a  *)
(* refused connection counts twice.                                        *)
UpOpenFails(n) == up_pc = "open" /\ Abandon(n)

(* http_write_chunk hands the frame over, reading the shared buffer as the *)
(* socket takes it.                                                        *)
UpWrite ==
  /\ up_pc = "write"
  /\ Len(wire) < snap.len
  /\ wire' = Append(wire, buffers[snap.idx][Len(wire) + 1])
  /\ UNCHANGED <<camera_state, capVars, sensorVars, buffers, latestVars, up_pc,
                 snap, stream_open, last_sent_seq, s_http_error_streak,
                 delivered, late, stored>>

UpWriteFails == up_pc = "write" /\ Abandon(1)

UpDone ==
  /\ up_pc = "write"
  /\ Len(wire) = snap.len
  /\ delivered' = Append(delivered, [seq |-> snap.seq, data |-> wire])
  /\ last_sent_seq' = snap.seq
  /\ s_http_error_streak' = 0
  /\ late' = late + 1
  /\ NextIteration
  /\ UNCHANGED <<camera_state, capVars, sensorVars, buffers, latestVars,
                 stream_open, stored>>

-----------------------------------------------------------------------------
Capture ==
  \/ \E sensor \in BOOLEAN : CapPoll(sensor) \/ CapResume(sensor)
  \/ CapSuspend \/ CapWaitOver \/ CapSkip
  \/ \E l \in 0..Cells : CapGrab(l)
  \/ CapCopy \/ CapPublish

Upload ==
  \/ UpSuspended \/ UpAwake \/ UpNothingNew \/ UpSnapshot
  \/ UpOpen \/ UpWrite \/ UpWriteFails \/ UpDone
  \/ \E n \in {1, 2} : UpOpenFails(n)

Next == Capture \/ Upload \/ \E s \in CameraState : Throttle(s)

Spec == Init /\ [][Next]_vars

(* FreeRTOS runs both tasks. A write of zero bytes is no step of Upload:   *)
(* weak fairness supposes that the server, or its timeout, lets every      *)
(* write end.                                                              *)
FairSpec == Spec /\ WF_vars(Capture) /\ WF_vars(Upload)

-----------------------------------------------------------------------------
(* The newest frame that a store has begun to write. *)
Begun == IF cap_pc = "copy" THEN s_latest_seq + 1 ELSE s_latest_seq

(* What the lock publishes is a whole frame: every cell of the published   *)
(* buffer, up to the published length, belongs to the published frame,     *)
(* also while the next frame is being copied.                              *)
PublishedIsWhole ==
  s_latest_seq # 0 =>
    \A k \in 1..s_latest_jpeg_len : buffers[s_latest_buf_idx][k] = s_latest_seq

(* Two buffers are enough while the upload keeps pace: what has been sent  *)
(* of a frame is that frame's data until the second store after its        *)
(* snapshot begins.                                                        *)
TornOnlyWhenLapped ==
  up_pc = "write" /\ Begun <= snap.seq + 1 =>
    \A k \in 1..Len(wire) : wire[k] = snap.seq

(* The server is sent frames in the order they were captured, none twice.  *)
DeliveredInOrder ==
  \A j, k \in 1..Len(delivered) : j < k => delivered[j].seq < delivered[k].seq

(* Buffers, stream and tasks implement a channel of the newest frame: what *)
(* is sent was the newest when it was picked, is newer than all before it, *)
(* and is whole unless the capture has lapped it.                          *)
PartWhole(part) == \A k \in 1..Len(part.data) : part.data[k] = part.seq

Part(part) == [seq |-> part.seq, whole |-> PartWhole(part)]

Channel == INSTANCE FrameChannel
             WITH begun <- Begun, newest <- s_latest_seq, sending <- snap.seq,
                  parts <- [j \in 1..Len(delivered) |-> Part(delivered[j])]

ChannelSpec == Channel!Spec

(* A suspension lets at most the part in progress through: the flag the    *)
(* upload task read before it was set is stale for one frame only.         *)
SuspendedSendsOne == s_cam_suspended => late <= 1

(* And it lets at most one frame more be captured, whichever of the two    *)
(* reads of the camera state it comes after: the one of an iteration or    *)
(* the one that follows a wait, whose result nobody tests.                 *)
SuspendedStoresOne == camera_state = "SUSPENDED" => stored <= 1

(* The sensor is in the mode last_camera_state claims, so that the early   *)
(* return of camera_adjust_quality never leaves it in another one, except  *)
(* for a setter that failed: then nobody knows, nor tries again before the *)
(* state changes.                                                          *)
ModeIsReal ==
  last_camera_state # "SUSPENDED" => quality \in {last_camera_state, "UNKNOWN"}

(* Only a frame sent to its end clears the error streak: the backoff of a  *)
(* long streak never lapses because a counter wrapped around.              *)
StreakHolds ==
  [][s_http_error_streak' < s_http_error_streak
       => last_sent_seq' > last_sent_seq]_vars

(* A stream open when the camera is suspended is closed, unless the        *)
(* suspension ends first.                                                  *)
SuspensionClosesStream == s_cam_suspended ~> ~(s_cam_suspended /\ stream_open)

(* A camera that error_control stops suspending is not left suspended.     *)
CameraRecovers ==
  <>[](camera_state # "SUSPENDED") => <>[]~s_cam_suspended

-----------------------------------------------------------------------------
(* A statement of docs/cam_task.md that the code refutes: every part of    *)
(* the stream carries the data of one JPEG.                                *)
PartsAreFrames == \A j \in 1..Len(delivered) : PartWhole(delivered[j])

=============================================================================
