# Verification of the rover's ESP32 firmware

TLA+ modules, TLC configurations and TLAPS proofs for the firmware under
`src/firmware`: an ESP32-CAM that takes driving commands from a web server over
a WebSocket, forwards them to a motor controller (the EDU-CIAA) over a serial
line, streams the camera to the server, and throttles the camera when commands
pile up. Paths below are relative to `src/firmware`; line numbers are those of
the commit under `src/`.

Contents: [the system](#the-system), [hard behaviours](#hard-behaviours),
[modules and code](#modules-and-code), [runs](#runs), [bounds](#bounds),
[fairness](#fairness), [proofs](#proofs), [disagreements](#disagreements-with-the-documents),
[not modelled](#what-is-not-modelled), [plan](#plan).

## The system

Several FreeRTOS tasks on two cores share three queues of ten elements, a few
`volatile` variables and one mutex.

```
  server --ws text--> WebSocket task --cmd_queue--> UART task <--serial--> CIAA
                          |   |  json_parser           |  |
                          |   +--- to_error_queue -----+  |
                          |              |                |
                          |              v                |
                          |          error task           |
                          |           |     |             |
       server <-- send_error_task <---+     |             |
                 (from_error_queue)         v             |
                          +--> error_control: counters, camera state
                                            |
                                            v
              capture task --double buffer--> upload task --HTTP--> server
```

| Component | State it keeps | Operations | Called by |
|---|---|---|---|
| `error_control` | `cmds_received`, `cmds_sent_ok`, `current_camera_state`, the error task | `cmd_received`, `cmd_sent_ok`, `evaluate_camera_state`, `get/set_camera_state`, `stop`; the error task's receive and `process_error` | WebSocket, UART and capture tasks; `to_error_queue` |
| `web_socket` | connection, handler locals | event handler (data, disconnected), `send_error_task`, start, stop | the client library, `app_main` |
| `uart_task` | event queue, `ready_handler`'s locals | read a response, `ready_handler` with retries, error reports, `uart_send_stop_to_ciaa` | itself, the WebSocket task |
| `json_parser` | circular buffer `cmd_buffer` | `parse_json`, `take_cmd`, `modify_cmd`, `parse_cmd` | the WebSocket task |
| `cam_task` | two frame buffers, index/length/sequence under a mutex, `s_cam_suspended`, stream, error streak | `camera_task`, `camera_adjust_quality`, `latest_frame_store`, `latest_frame_snapshot`, `camera_upload_task` | itself; reads `error_control` |
| `wifi_manager` | retry counter, two event bits | event handler, station, access point, the wait at boot | the event loop, `app_main` |
| `nvs_storage` | one handle; name, password, server address in flash | set, get | portal, boot |
| `http_portal` | server handle | form, save and restart | access-point mode |
| `dns_server` | task and socket | answer every name | access-point mode |
| `app_main` | the queues | boot sequence, two waits on the event bits | |

How they interact: a text frame is parsed into `json_parser`'s buffer, taken
out again, queued in `cmd_queue` with a wait of 100 ms, and only then counted
in `error_control`. The CIAA announces READY; the UART task then takes one
command, sends it, waits 200 ms for an ACK, and tries again. Every failure is
posted without waiting to `to_error_queue`; the error task logs it, passes
those of severity WARNING and above to `from_error_queue`, and counts a command
refused by a full queue as received, so that the difference
`cmds_received - cmds_sent_ok` sees it. That difference drives a hysteresis,
NORMAL / DEGRADED / SUSPENDED, that the capture task reads once per frame.

What makes each component correct:

- `error_control`: no call is counted that was not made; the state at rest
  answers the counters; a suspended camera has a cause, and comes back.
- The command path (`web_socket`, `uart_task`, `error_control` together): every
  command is acknowledged, given up or refused; none is lost, overtaken or sent
  twice by the firmware's own doing; it is refused only when the queue is full;
  a full error queue does not stay full.
- `json_parser`: `take_cmd` hands out what was last stored under the identifier
  asked for, or says that it is not there; recent identifiers are there.
- `cam_task`: what is published is a whole frame; what is sent is in order and
  not torn while the upload keeps pace; a suspension stops the upload and ends.
- `uart_task`'s byte stream: when an acknowledgment counted, or its absence, may
  be believed; no message boundary is lost for ever.
- Boot and provisioning (`app_main`, `wifi_manager`): the rover starts on a station
  with stored credentials; the station gives up after the retries and not before,
  and is left in between only by a call that was refused; every boot comes to an end.
- `nvs_storage` and the portal: a pair of name and password that was answered with
  "saved" is the one later boots find when they can read, wherever the power fails and
  whichever call does; both users of the server's address read the same one, or keep
  a default if they cannot read.

## Hard behaviours

The list with lines and properties is `PROJECT.json`, `hazards`. In short:

- `error_control` has no lock. `++` on a `volatile` counter is a load and a
  store, two tasks on two cores do it on `cmds_received`, and a decision is
  committed several instructions after the samples it is made from.
- A command is queued before it is counted; it can be sent and its
  acknowledgment counted first, so the difference can be negative for a moment.
- All error posts are dropped when their queue is full. Only one of them feeds
  back into the difference.
- The difference never forgets: what is lost is lost until the next restart.
- The disconnection handler sends STOP without touching `cmd_queue`.
- The UART task reads up to 13 bytes whenever the driver posts an event, wherever
  messages begin and end; while `ready_handler` runs the driver's events pile up
  and are dropped; a STOP can be written, and answered, in between.
- The frame being sent is read from the shared buffer outside the lock.
- The suspension flag is read once per iteration of the upload task.
- Identifiers are truncated to 16 bits, and identifier 0 has no slot.
- The event bits of `wifi_manager` are never cleared, so that the second wait of a boot
  returns at once with what the first one saw, and a failure and a connection can
  both be set. The waits have no timeout. After the boot nobody waits for them.
- The retry counter is set back in two places, by an address and by giving up; the
  event of an address can be handled after the link it was for is lost.
- Name and password are two writes and a commit, the server's address is
  another, and power may fail, or a call, between any two of them.
- All functions of `nvs_storage` share one handle: `app_main` may read the server's
  address while the portal's task is writing.
- The result of saving the server's address is dropped, and the answer is "saved".
- The results of `esp_wifi_connect` and of the calls that start the radio are dropped
  too: after an error no event comes, so nothing is tried again and no bit is set.
- A read of the flash that fails is a missing pair to `wifi_provisioning_init`, and the
  default address to `app_main` and `websocket_start`, each for itself.
- `last_camera_state` is recorded whether the sensor's setters succeed or not.

## Modules and code

| Module | Models | How |
|---|---|---|
| `CameraPolicy` | the switch of `evaluate_camera_state` (`Decide`), `error_map` (`Notifies`) | pure operators; `Settled` is what a decision promises |
| `ErrorControl` | `error_control.c` as shared state | one action per access to a `volatile`: `Load`, `Store`, `SampleReceived`, `SampleSent`, `ReadState`, `Switch`, `Commit`; `SetCameraState`, `Stop` |
| `ErrorControlCalls` | `ErrorControl` with free callers | bounded numbers of calls of three tasks |
| `CommandService` | abstract: a bounded FIFO service with one server | what the path promises to a sender of commands |
| `CommandPath` | `web_socket.c` handler and `send_error_task`, `uart_task.c` dispatch and `ready_handler`, the error task, the three queues | EXTENDS `ErrorControl`; each task has a program counter, and is inside `error_control` while its `ec_pc` is not `idle`; the serial link is what a read of it parses to |
| `UartLink` | the serial line below `CommandPath`: `task_uart`'s reads, `parse_data`, `ready_handler`, `uart_send_stop_to_ciaa`; the driver and the CIAA are external | a message is a run of numbered cells, so that a read can end inside it |
| `UartService` | | `UartLink` with a record of what became of each command, to compare it with `CommandService` |
| `CmdBuffer` | `json_parser.c` | `ParseJson` (parse and push), `TakeCmd`, `ModifyCmd` |
| `FrameExchange` | `cam_task.c` | capture and upload tasks; copies and writes go cell by cell; `error_control` is a camera state that changes at any time |
| `FrameChannel` | abstract: a channel that holds the newest frame only | what the server is promised of the stream |
| `KeyStore` | abstract: a store of one pair, confirmed or still open | what portal and flash promise to whoever sets the rover up |
| `Storage` | `nvs_storage.c`, `post_handler` of `http_portal.c` | one action per call of the NVS library, which is external; each call of a save may fail |
| `Provisioning` | `main.c` boot, `wifi_manager.c`, `websocket_start`, `start_ap_provisioning` | EXTENDS `Storage`; `app_main`, the event loop's task and the portal's task interleave; reads of the flash and calls to the driver may fail; the Wi-Fi driver, DHCP and the power supply are external |
| `DifferenceProofs` | | what `cmds_received - cmds_sent_ok` is worth, about `CommandPath` |
| the other `*Proofs` | | theorems about the module they are named after |
| `MC*` | | bounds for TLC |

Granularity. In `ErrorControl` an action is one access to shared memory.
`Commit` joins the last test and the store of `evaluate_camera_state`: a store
let through by a test that has since become false writes the value that is
already decided, so that the two accesses apart reach no further state.
In `CommandPath` an action is one queue operation or one read of the line with
the local control that leads to it, since FreeRTOS queues are atomic. A wait
with a timeout is two actions, one for the thing awaited and one for the
timeout, and which of them is enabled is the queue's condition, not a clock.
In `FrameExchange` the two critical sections are one action each and everything
outside them is split.

In `Provisioning` an action is one call of `app_main`, one event dispatched (the handlers
of one event run one after the other in one task) or one call of the portal's task.
The credentials are read in one step, because nothing else runs then; the server's
address, read with the portal possibly running, in two. `xEventGroupSetBits` gives a
task that waits the bits of that moment (`SetBit`), however late it runs. What can fail
fails: the flash at boot, where `ESP_ERROR_CHECK` restarts the chip (`InitFlash`); the
read of the credentials, which leads to the access point like a key that is not there
(`CredentialsUnread`), and of the address, which leaves the default (`IpFails`); the calls
that start station and access point, whose results are dropped together (`StartSta`,
`StartAp`: the radio is in the new mode or the old, and no event comes); and
`esp_wifi_connect` (`Connects`: no event comes either). A value is
the number of the form it came with. A restart, by `esp_restart` or a power
cut in any state, sets back everything but the flash, in which each key that was set
and not committed is old or new.

History variables record the past for the properties, and no guard of the code's
actions reads them: `calls`, `disturbed` (`ErrorControl`), `fate`
(`CommandPath`, `UartService`), `stores`, `latest`, `streak` (`CmdBuffer`; `stores` bounds),
`delivered`, `late`, `stored` (`FrameExchange`), `confirmed`, `stray`, `missed` (`UartLink`),
`kept`, `open`, `used`, `failures`, `refused` (a Wi-Fi call failed since the restart),
`unread` (whose read of the address failed) (`Storage`, `Provisioning`; `form` and `cuts` bound).

`CommandPath` and `CommandService`: `Service` is the `INSTANCE` of the abstract
module with `backlog <- cmd_queue`, `serving <- command`, and two derived values:
`Offered` leaves out the command the handler is still trying to queue, and
`Tries` counts the transmission whose answer is being awaited. Everything else
(error queues, connection, counters) is invisible to it.

`UartService` and `CommandService`: the queue of the link is what has arrived and was
not taken, in order (`Waiting`), and it has no bound of its own, so that nothing is
refused; `Tries` is as in `CommandPath`. So both views of the UART task keep one promise:
`CommandPath` whatever its reads parse to, `UartLink` whatever the bytes are.

`FrameExchange` and `FrameChannel`: `Channel` is the `INSTANCE` with `newest <-
s_latest_seq`, `begun` one more while a frame is copied, `sending <- snap.seq`
(0 between parts), and of each part its frame and whether its data is that frame's.

`Provisioning` and `KeyStore`: `Store` is the `INSTANCE` with `Key <- Login`, the two
keys of a pair, and the same `kept`, `open` and `used`. A form opens, the page "saved"
confirms, the read of the credentials at boot looks, and settles which of the open
saves is the one; every other step is invisible, a read that fails included.

`UartLink` and `CommandPath` are two views of the same task. `CommandPath` takes
the outcome of a read as given and any outcome as possible; `UartLink` has the bytes
and asks which outcomes can be trusted. A message is `Body` cells, the last of them
its `E`, and `Eol` cells of CR or LF; cell 1 is its `S`. `Whole` is what `parse_data`
accepts: from an `S` to an `E`, with or without the line ending. A read that begins
in an earlier message's tail has no `S` in front (`%c` reads whatever is there) and one
that ends in the next message has no `E` behind. That a read never holds two whole
messages is `LinkAssumption`: `RESPONSE_LEN` is 13 and the shortest two take 14.
Identifiers are left out because the code ignores them.

## Runs

Passing runs check every property they list on every reachable state.

| Run | Question | States |
|---|---|---|
| `error_control` | three tasks inside `error_control` at once, with manual sets and a stop: types, `SentOkExact`, `ReceivedNeverOvercounts`, `SerialCallsSettle` | 1.7 M |
| `command_path` | four commands through queues of 2, 1 and 1: types, `Ledger`, `DiffIsBacklogPlusLosses`, `SuspensionHasCause`, and the step simulation `ServiceSafety` | 1.1 M |
| `command_path_live` | the same with errors of every origin, under fairness: `ServiceSpec`, `EveryCommandAnswered`, `FullErrorQueueMoves` | 132 k |
| `cmd_buffer` | identifiers on both sides of the truncation, a buffer of 3: `TakeIsCurrent`, `WindowIsFound`, `CountCovers` | 237 k |
| `uart_link` | two commands and a STOP over a line read in pieces: `AckIsGenuine`, `FailureIsGenuine`, and the liveness `CommandsGetTaken` | 509 k |
| `provisioning` | two forms, two power cuts, two retries, any call to the flash or the driver may fail: `RoverHasStation`, `GivenUpIsFinal`, `NeverStranded`, `GivesUpOnlyAfterRetries`, `SameServer`, the refinement `StoreSpec`, and the liveness `BootEnds`, `SavedIsUsed`, `LinkReturnsOrGivesUp` | 213 k |
| `frame_exchange` | three frames, two cells: the safety of the double buffer (`PublishedIsWhole`, `TornOnlyWhenLapped`), the refinement `ChannelSpec`, `SuspendedSendsOne`, `SuspendedStoresOne`, `ModeIsReal`, `StreakHolds`, and the liveness `SuspensionClosesStream`, `CameraRecovers` | 993 k |

What they show, property by property:

- `ReceivedNeverOvercounts`: lost updates only ever lower `cmds_received`, and
  only when the error task has used it. So the difference can be too small but
  never so large that it suspends a camera for commands that never came.
- `SerialCallsSettle`: any call that ran alone leaves a state that answers the
  counters, from whatever state, reached by whatever overlaps before it.
- `DiffIsBacklogPlusLosses`: the number the camera is throttled by is what
  `error_control.md` takes it for, up to increments in progress, and exactly so
  as long as no refusal has been counted.
- `ServiceSafety`, `Ledger`: the three tasks, disconnections and full queues
  included, implement the FIFO service.
- `EveryCommandAnswered`: and they do so in the end, connected or not.
- `AckIsGenuine`: although identifiers are not compared, an acknowledgment counted is
  the command's own, late or split as it may be, unless an older answer was owed when
  the command was taken or a STOP was written past it. Those are the two ways
  it goes wrong, and the run `ack_of_another` shows one.
- `FailureIsGenuine`: a command the controller confirmed is reported as NO_ACK only if
  one of its reads was cut, took something else, or came too early.
- `CommandsGetTaken`: boundaries that were lost are found again, also after the driver
  has dropped events, because a read that fails consumes what it read, and one that
  finds less than 13 bytes ends where the bytes do.
- `WindowIsFound`: the last `N` identifiers of a sequence that counts up can all
  be taken, the one just parsed among them, although slots are chosen by residue.
- `TornOnlyWhenLapped`: exactly how much the two buffers protect.
- `ChannelSpec`: seen from the server, buffers, lock and stream are a channel of the
  newest frame: each part was the newest when it was picked, is newer than all before
  it, is sent again only if it failed, and mixes frames only if the capture lapped it.
- `SuspendedSendsOne`: the stale flag costs one frame sent, not two.
- `SuspendedStoresOne`: a camera state that is SUSPENDED costs one frame stored at most,
  also when it became so again between the end of the wait and the read behind it
  (`cam_task.c:264`), which nothing tests.
- `ModeIsReal`: no order of states, with the sensor there or not, makes the early return
  at `cam_task.c:156` keep the sensor in another mode than the recorded one. Only a
  setter that is refused can: the code drops its result, so that the sensor is left as
  it was until the state changes, and the model calls that mode `"UNKNOWN"`.
- `StreakHolds`: the `uint8_t` streak never wraps, so the backoff of a long
  outage is only ended by a frame sent.
- `RoverHasStation`: the two waits and the bits that stay set never start the rover in
  access-point mode or without credentials, but for one case that it names: the address
  and the last failure both set when `app_main` looks, which starts rover and
  portal side by side.
- `GivesUpOnlyAfterRetries`, `GivenUpIsFinal`: `MAX_RETRY + 1` disconnections in a
  row, for all orders of late addresses and losses, and then nothing is left that
  could connect.
- `NeverStranded`, `LinkReturnsOrGivesUp`: between those two there is no third, unless a
  call to the driver was refused: as long as the failure bit is not set, a station is
  connected or has an event, an attempt or a DHCP exchange under way, so that no order of
  events leaves a lost link just down; and `app_main` is blocked only while one of these
  will set a bit, or in a boot that found no pair. With a refused call it is otherwise,
  and `GivenUpIsFinal` says so: what was under way is over, and until a restart nothing
  connects.
- `BootEnds`: the only waits that last for ever are the one of a boot that found no pair,
  with the access point up, which the portal ends by a restart, and those after a refused
  call, which only the power supply ends. A boot that does not get past the flash, and
  restarts for ever, is the other case it excepts.
- `StoreSpec`, `SavedIsUsed`: "saved" is only answered to what a restart will use, unless
  that boot fails before it has read the pair, or in reading it; then nothing is lost, and
  the next boot that can read finds it. A mixture of two forms can only come of a save
  that was not answered so.
- `SameServer`: the shared handle does no harm to the two reads unless the portal runs. A
  read that fails does: the camera or the WebSocket then keeps its default address while the
  other has the stored one.

Runs that expect a violation each check one statement of a document, comment or
log and exhibit the behaviour that refutes it; see
[below](#disagreements-with-the-documents).

## Bounds

- Thresholds 6 / 10 / 2 become 1 / 2 / 0 or 2 / 3 / 0. The proofs hold for every
  `RESTORE < DEGRADE < SUSPEND`; the small values make every transition of the
  hysteresis reachable with four commands.
- `BurstBesideDrop`: four calls of the WebSocket task reach SUSPENDED, two of the
  UART task come back, and one of the error task is enough for a lost update and
  for a decision that is overtaken.
- Queues: `CmdLen = 2` with four commands fills it, refuses, and leaves one in
  flight. `ErrLen = WebLen = 1` makes "full" and "dropped" happen at once.
- `LastTry = 1` is two transmissions, first and last; the number is a parameter
  of the proofs.
- `Provoked` is empty in `command_path` (errors only come from the commands) and
  has one error of each origin, with and without a notice, in `command_path_live`.
- `UartLink`: messages of two cells and one of line ending, reads of four: a read
  holds one message and part of the next, so that both ends of it can fall inside one,
  and messages are lost and found. `QueueSize = 1` drops events at once.
  `Room` (a READY is only announced with at most three cells unread) keeps the line
  finite; it is lifted while the task is idle, so that it never silences the CIAA.
- `CmdBuffer`: `N = 3`, eight identifiers, raw values from -1 to 8, so that -1, 0
  and 8 (a multiple of the width) are included; five stores go round the buffer.
- `FrameExchange`: three frames go round the two buffers and lap a slow
  upload; two cells are the fewest that can be torn. `StreakMax = 2` makes the cap
  reachable by one double failure.
- `Provisioning`: two forms suffice for a mixture of old and new; two cuts for one
  during a save and another during the boot after it; `MAX_RETRY = 2` (5 in the code) has a first,
  a middle and a last failure. A link may be lost any number of times. The
  deadlock check is off because a boot may end: `app_main` returns or waits for good.
- A bounded counter of commands or frames makes the environment stop; the liveness
  properties speak of what arrived, not of more arriving.
  `error_control` and its violation runs switch off the deadlock check
  because a system whose callers have made their calls has stopped.

## Fairness

- `CommandPath`: weak fairness of each task's own steps. FreeRTOS schedules
  every ready task (the tasks block in each iteration, on queues or delays, so
  lower priorities run), and blocked sends and reads end at their timeouts.
  `UartStep` contains `UartReady`: weak fairness there says that the CIAA goes on
  announcing READY, which is an assumption on the CIAA, without which the
  firmware by design sends nothing. No fairness is assumed of connections,
  commands or errors (`Environment`): the socket may stay down for ever.
- Acknowledgments are not fair either: a command that is never acknowledged
  ends in `UartGiveUp` because `i` runs out.
- `UartLink`: weak fairness of the task's steps, of bytes arriving and of READY. The
  liveness property is about a `calm` CIAA, an assumption the firmware cannot
  enforce: it does not announce READY again while the last one is on its way or being
  read, and what it sends arrives in one burst. Without that, reads and messages
  may stay out of step for ever. It is what `CommandPath`'s fairness of `UartReady`
  rests on; `AckIsGenuine` and `FailureIsGenuine` do not need it.
- `Provisioning`: weak fairness of `app_main` once the flash is initialised (`BootStep`;
  none of `InitFlash`, because a lasting error of the flash restarts the chip for ever), of the event loop's task, of the portal's
  task and its restart; of the end of an attempt to connect, which the driver
  reports one way or the other; and of DHCP's answer while an exchange is under way.
  The last one is an assumption on the network: an access point that lets the station
  in and never gives it an address, nor loses it, leaves `app_main` waiting for ever with neither
  rover nor portal, since the wait has no timeout. No fairness of forms, power cuts
  or lost links.
- `FrameExchange`: weak fairness of the capture and of the upload task as a whole.
  Which outcome a write or an open has is left free, and the camera may yield
  nothing for ever (`CapSkip`). A write that returns 0 for ever is excluded by this
  assumption: see [not modelled](#what-is-not-modelled).

## Proofs

All proofs are checked by TLAPS from named assumptions on the constants only:
`ThresholdAssumption`, `PathAssumption`, `BufferAssumption`, `FrameAssumption`,
`LinkAssumption`, `FormsAssumption`, `ProvisioningAssumption`; the theorems about
`CommandService` say themselves that `MaxCmds` is a natural number, so that they can be
used through `INSTANCE`.

**`ErrorControlProofs`**, about `EcAnySpec`: any number of calls, any thresholds.
Types; `SentOkExact` by adding that the UART task's register equals the counter
between its load and its store, which needs that no other task writes it;
`ReceivedNeverOvercounts` by `ReceivedInv`: not only the counter but every value
about to be stored leaves room for the increments pending, which is what a lost
update preserves; `SerialCallsSettle` by `DecisionInv`: undisturbed, at most one
task is inside, and its samples are still what the variables hold. From it also
`SerialCallsMoveByPolicy`: not only the state at rest but every move on the way there is
`Decide`'s, for the counters at that step (`SerialCallsDecide`).

**`CommandServiceProofs`**, about the abstract service: `SvcInv` keeps the backlog in
order behind the command being served, with everything older decided; from it
`ServiceAnswersInOrder` and `ServiceDecidesOnce`. They hold of whatever implements the
service: `PathAnswersInOrder` and `PathDecidesOnce` are the same of the three tasks,
by `PathImplementsService` and an `INSTANCE` of this module, with no invariant of
their own.

**`CommandPathProofs`**, about `CpSpec`: any queue lengths, retries, thresholds
and errors. `PathImplementsErrorControl` shows that the composition takes only
steps `EcAny` allows, so the theorems above hold of it; `CpTypeCorrect` by
`PathInv`, the type invariant with its links between program counters and locals;
`PathImplementsService` is the refinement of `CommandService`, a step or a stutter
for each action; `LedgerBalances` needs `OrderInv`: commands in the queue are in
order of arrival and none is older than the one in flight, so that none is twice in
the ledger.

**`CmdBufferProofs`**, about `Spec`: any length up to 255, any identifier width
above it, any identifiers. The arithmetic is `SlotsApart`: two identifiers less than
`N` apart have different slots, from which `WindowAlwaysFound`;
`TakeAlwaysCurrent` and `CountAlwaysCovers` are inductive with the types.

**`UartLinkProofs`**, about `Spec`: any lengths of messages and reads that
`LinkAssumption` allows, any number of commands, STOPs, attempts and events.
`FlightInv` ties the command in flight to the program counter and bounds what is
written by what was taken. `OwnInv`: if nothing was owed when the command was taken and
no STOP passed it, everything still to be received by the CIAA is that command, and an
acknowledgment anywhere on its way back means that it was confirmed; with it
`AcknowledgmentsAreGenuine`. For `FailuresAreGenuine`, `FramedInv` says that on the
way, across the driver's bytes and the line's, the first cell of a message is followed
by the rest of it (kept by reads, bursts and new messages: `FramedShift`, `FramedAdd`),
so that a whole message with an acknowledgment in it is one (`WholeAck`); `HeardInv`
says that while every read was one message, or nothing, and left no answer behind, a
confirmed command has its acknowledgment still to be read. `LinkImplementsService`, about
`RecordSpec`, is the refinement of `CommandService`; it needs `FlightInv` and that no
attempt is counted between commands (`RestInv`).

**`FrameExchangeProofs`**, about `Spec`: any number of frames, cells and errors.
`FrameInv` is types, `Room` (a frame is copied only below the bound), `StoreInv`
(the copy in progress is the prefix of the next frame in the other buffer) and
`SnapInv` (where the frame being sent lies: in the published buffer while it
is the newest, in the other while one is newer; on pace it is intact there and on
the wire). From it `AlwaysPublishedWhole` and `OnlyLappedFramesTear`. `OrderInv`
adds that `last_sent_seq` is the newest delivered and older than the one being
sent: `AlwaysInOrder`, `StreakAlwaysHolds`. `LateInv` gives
`SuspensionSendsAtMostOne`: after the part in progress the upload task is back at
its test. `StoredInv` gives `SuspensionStoresAtMostOne`: once a frame is stored under a
state SUSPENDED, the capture task is back at its test. `ModeIsAlwaysReal` is inductive
with the types. `ExchangeImplementsChannel`
is the refinement of `FrameChannel`, from `SnapInv` (what makes a part whole),
`OrderInv` (why what is picked is newer) and `IdleInv` (no snapshot outlives its part);
`TornPartsWereLapped` is what it means for the parts the server has got.

**`DifferenceProofs`**, about `CpSpec`: `TallyInv` matches each call of
`error_control` with the fate of one command, by cardinalities: acknowledgments counted
with commands acknowledged, commands counted with those waiting, acknowledged or
failed, and refusals counted or on their way to it (in the handler, in
`to_error_queue`, in the error task) with those refused. `SettleCounts` is the step of
a set of commands, `MarksAppend` and `MarksTail` are those of the queue. With `SentOkExact` and
`ReceivedNeverOvercounts` it gives `DiffIsBounded`, and with `SerialCallsSettle`
`SuspensionAlwaysHasCause`; the step of it is `SuspendingHasCause`: an undisturbed call that
suspends finds SUSPEND or more commands waiting or lost. `QueuedCount` (no command is
twice in the queue) makes the ledger a number: `FewLeftAfterStop`, at most `CmdLen + 1`
commands are left to be transmitted after the STOP of a disconnection.

**`ProvisioningProofs`**, about `Spec`: any number of forms, retries and power cuts.
`EarlyInv`: until the credentials are read there is only the flash. `StationInv`: at most
one thing can make the station connect, an event to be handled or the attempt it led
to; so a disconnection is never handled twice, and when the failure bit is set
nothing is left, and so after a refused call (`GivenUpForGood`). With `CountInv` it also bounds the counter, which
the types need, and gives `GivesUpOnTime`. `ModeInv` says which mode, bits and tasks go
with which part of the boot (`RoverOnStation`), `ServerInv` what the two reads have seen
(`OneServer`). `DrivenInv` is the other bound, at
least one thing under way until the station gives up; with `ModeInv` it gives
`NobodyIsStranded`, with refused calls excepted in both. `StoreInv` says which keys are written, and committed, at which call
of a save; from it, `SaveImplementsKeyStore`: each step is one of `KeyStore` or a stutter,
a boot that cannot read among the latter; and what
`KeyStore` promises of confirmed pairs (`SettledStays`) holds of the flash:
`SettledPairStays`.

Every safety property of the passing runs is also proved. Of some statements there is a
theorem and no run: `SerialCallsDecide`, `LeftAfterStop`, `SuspendsWithCause`,
`DeliveredInOrder`, `TornWereLapped`, `SettledStays`, `AnsweredInOrder`, `DecidedOnce`, `LinkServes`;
most of them follow from a property that a run does check. Only model-checked:
everything under fairness (`ServiceSpec`, `EveryCommandAnswered`, `FullErrorQueueMoves`,
`SuspensionClosesStream`, `CameraRecovers`, `CommandsGetTaken`, `BootEnds`,
`SavedIsUsed`, `LinkReturnsOrGivesUp`), which is out of this prover's reach.

## Disagreements with the documents

Each has a run that finds the behaviour, and an entry under `findings`.

| Run | Statement | What happens |
|---|---|---|
| `stale_decision` | `docs/error_control.md:107`: the table of states | two overlapping decisions, the older one commits last, and the state at rest is not the table's |
| `suspended_for_good` | `docs/error_control.md:224`: wait until it is restored | losses never leave the difference; with more of them than RESTORE the camera stays suspended with nothing to do |
| `ack_of_another` | `uart_task.c:138`: "ACK received for command" | the acknowledgment of a STOP is counted for the command in flight |
| `lost_link` | `wifi_manager.h:18`: the failure bit means "AP mode active (provisioning)" | after the boot nobody waits for it: the station has given up, no access point starts, and nothing connects again |
| `torn_frame` | `docs/cam_task.md:62`: each part is one JPEG | two stores during one slow write mix two frames |

Smaller ones, read and not run: `error_control.h:58` says that a call registers a command,
and of two `++` that overlap one is lost; `json_parser.h:53` says that a command is stored,
and identifier 0 selects slot 255, outside the buffer, with `STATUS_OK`; the log at `uart_task.c:149` says "No ACK after 3
attempts", and the loop transmits for `i` = 0 to 3, four times; `docs/error_control.md` gives 5 as the degrading
threshold and the header (`error_control.h:33`) 6; it says that a notice is sent to
the server, and `send_error_task` drops it when the socket is down, which is always so
for the notice of a disconnection that stays down; `docs/json_parser.md` describes
overwriting when the buffer is full, and slots are chosen by residue, so
identifiers with a gap overwrite one another in a buffer that is not full;
`docs/cam_task.md` describes a server that answers `GET /stream`, and the code is a
client that uploads; `http_client_event_handler` is registered nowhere; the cap
`HTTP_ERROR_BACKOFF_MAX` of 5000 ms is never reached, since the shift stops at 3; `wifi_manager.h:24` calls
`wifi_provisioning_init` non-blocking and it waits for a bit without a timeout;
without credentials the access point starts and `WIFI_FAIL_BIT`, said to mean that, is never
set; the portal answers a form it could not save twice, with 500 and with 400; the
result of `http_portal_start` is dropped, and so is that of saving the server's
address (`http_portal.c:351`), and those of `esp_wifi_connect`, of the calls that start the
radio (`wifi_manager.c:35`, `41`, `68-70`) and of the sensor's setters
(`cam_task.c:171-178`), although `last_camera_state` is set after them.

## What is not modelled

- Clocks and priorities: delays only decide which step comes first, and every
  order is allowed.
- Of the serial line: bytes corrupted on their way, the driver's ring of 256 bytes
  running full, events other than data, and messages of different lengths on one line.
- What is in a frame, a message or a URL; the pins, the sensor's settings, the
  multipart headers.
- The write of `push` to slot 255 for identifier 0 (`json_parser.c:100`): outside the
  buffer and undefined. `CmdBuffer` leaves the buffer as it is.
- What `xEventGroupCreate`, `esp_netif_init`, `esp_event_loop_create_default`,
  `esp_wifi_init` and the registrations of the event handler return
  (`wifi_manager.c:104-113`), all dropped. A driver that is not there refuses the calls to
  start it, which is modelled; a handler that is not registered for one of the two kinds of event,
  or an event group that cannot be created, is not.
- A socket write that returns 0 for ever (`cam_task.c:115`).
- `dns_server`: one task that answers each request by itself and keeps nothing from one to
  the next, started by `start_ap_provisioning` without looking at the result. What could go
  wrong in it, `dns_server_stop` closing the socket under the task, is called by nobody.
- `http_portal_stop`, `websocket_stop`, `cmd_logger_task` and `storage_init` (which repeats
  `main.c:92-98`) are called by nobody; `server_init` exists only in a document.
- The pages of the portal, and how a form's fields are cut out of it. A form without name
  or password is answered and changes nothing.
- `init_uart`, `start_camera`: configuration of drivers at boot. That the camera, the
  WebSocket client or a queue cannot be started is modelled.

## Plan

Done: 1. `CameraPolicy`, `ErrorControl`, its calls and proofs. 2. `CommandPath`
over it, `CommandService`, the refinement and its proof. 3. `CmdBuffer` and
proofs. 4. `FrameExchange` and proofs. 5. `UartLink` and proofs. 6. `Storage`, `KeyStore`
and `Provisioning` with proofs. 7. The tally of the difference and its proofs.
8. `FrameChannel` and `UartService`, two more refinements.

Left out for good: `dns_server`, for the reason above.

Possible next steps: an abstract map of the last `N` identifiers for `CmdBuffer`;
`CommandPath` over `UartLink` in one module, so that the assumption
on READY of one is the property of the other (today both are compared with
`CommandService`, each by itself); and the server's address under a promise of
its own, once somebody looks at whether it was saved.
