# MultiCamRenderer: verification project

MultiCamRenderer captures video from V4L2 cameras and RTSP streams on a Rockchip board, decodes,
renders and republishes it, and carries audio beside it. This directory holds TLA+ models of its
core, the TLC configurations that check them on small instances, and theorems about them that
TLAPS checks for every instance. Paths below are relative to the repository.

## The system and its components

| component | state it keeps | operations | talks to |
|---|---|---|---|
| `CamManager` (`src/core/cam/CamManager.cpp`) | camera slots (state, generations, flags), hubs, command queue, return queue, eventfd, `m_running`, `m_stopRequested`, the poll thread | `addCamera`, `startCamera`, `stopCamera`, `delCamera`, `requestCameraRecovery`, `startPolling`, `requestStop`, `shutdownPolling`; the poll loop; `postReturnedFrame` | owns `V4L2CameraSource` and `FrameHub` per camera, a `DecodeWorker` per MJPEG camera |
| `V4L2CameraSource` | device stage, `queued` flag per DMA buffer | open, configure, start, stop, dequeue, requeue, close | the driver; called by `CamManager` only |
| `FrameHub` | weak list of sinks, `m_closed` | `addSink`, `publishFrame`, `close`, `removeSink` | calls `Sink::onFrame` with `m_publishMutex` held |
| `FrameLease` | one release function | the destructor of the last reference | posts the buffer back to its producer |
| `CamManager::DecodeWorker` | one pending packet, output pool, thread | `postFrame`, `workerLoop`, `shutdown` | takes leases from the poll thread, publishes decoded frames to the hub |
| `DmaBufferPool` | `inUse` per buffer, pool state | init, acquire, release, reset | used by the decode workers |
| `Stream`, `StreamManager` | stream slots, run generations, ready frames, compressed queue with its recovery gate | add, start, stop, delete, reconnect, publish loop | `RtspStream`, MPP decoder, hubs |
| RTSP client (`Live555RtspClient`, `RtspStream`) | session, event thread | start, stop, state callbacks | live555, `Stream` |
| RTSP server (`Live555RtspServer`, `RtspPublishSink`, `AnnexBFrameQueue`, `AnnexBSource`, `RtspAudioPublishSink`) | per stream: clients, session, NALU queue, source; per sink: requests, the frame in hand, the encoder; audio subscription | `start`, `stop`, `onClientPlaybackStateChanged`, `onFrame`, `workerMain`, `push`, `doGetNextFrame` | live555 event loop, OSD, encoder, `AudioPipeline` |
| `AudioPipeline`, `AudioHub`, `AudioCapture` | capture thread, nodes with their subscriptions, queues and workers | `startCapture`, `stopCapture`, `subscribe`, `reset` of a subscription | ALSA, APM, encoders, subscribers |
| `AudioPlaybackPipeline`, `AudioPlayback` | queue with its duration, worker, decoder, the device's ring | `start`, `stop`, `push` | ALSA, decoders |
| `MppDecoder` (`rk_mpp_decoder`, `rk_mpp_decoder_advance`) | external DMA buffers and their group, the task in flight | `initDecoder`, `sendPacket`, `decodeMjpeg`, `deinit` | MPP; called by one decode worker each |
| `RgaEngine`, `OsdRenderer`, `DmaAllocator` | text objects, bands and dirty marks, DMA memories | `addTextObject`, `updateTextObject`, `setRectangles`, `composite`, `rga`, `allocate` | RGA, FreeType, DMA heaps and DRM nodes |
| DRM display (`drm_display.c`, `DrmPresenter`, `RtspDrmPipeline`) | NALU queue, decode thread, output pool, framebuffer cache, leases of the front and the pending picture | `start`, `stop`, `present`, page flips | kernel, decoder, RGA |
| ISP controller, device probe | nothing | ioctl wrappers | the kernel |
| ONVIF | SOAP service state | discovery, requests | gSOAP |
| application, Qt front end, tools | wiring | | all of the above |

What is hard in this system, component by component, and what makes it right:

* **Camera control.** API calls only change a slot and post commands; a single poll thread executes
  them and owns every ioctl; sinks drop frames on threads of their own. A slot therefore changes
  between the lookup of a call and its push, between a poll snapshot and the use of a descriptor,
  and between a fault and its `ProcessError`. Right means: a buffer has one owner; no restart reuses
  a buffer that is still read; a recovery round is processed once and always ends; a deleted camera
  stays deleted and no sink sees its frames; the poll thread exists exactly when `m_running` says so.
* **Fan-out.** `close()` must wait for a publication in progress and nothing may be published after it.
* **Decoding.** A one-place mailbox drops the older frame: each lease is returned exactly once, an
  exhausted output pool loses no input buffer, shutdown leaves no thread behind.
* **Streams.** A restarted stream must ignore the events of its previous run; after an overflow no
  frame may be decoded before the next complete set of parameters and random access frame.
* **RTSP server.** Whether somebody watches is known to the event thread; the worker of the sink learns it at points of its own and holds
  a frame, an OSD buffer and an encoder meanwhile. Right means: what one audience caused is not seen by the next, nothing is encoded for
  nobody, no wake-up between `push()` and a waiting source is lost, and `start()`, `stop()` and the destructor end.
* **Audio.** Nodes live as long as a subscription holds them and end on the thread that let go last; blocks are lost to a full queue, an
  empty pool or an XRUN while an encoder holds half a packet. Right means: no packet spans a gap, nothing runs for nobody, and a
  listener who comes back after a failure is heard again. In playback the queue and its duration are kept apart, and `stop()` closes a device its
  worker may be writing to.
* **MPP decoder.** `put` must drain when MPP is full, MPP stops at a change of size until its buffers are exchanged, and each step of the
  exchange can fail. Right means: MPP never decodes into a descriptor that was closed, and every call returns, with a picture of its own.
* **Display.** A buffer is read by the hardware until the flip after the one that replaced it. Right means: such a buffer is leased and not
  written to, the cache of framebuffers agrees with the kernel, and a stop does not wait for a flip that will not come.
* **Overlay.** Three dirty marks decide what is computed again. Right means: what is shown is what was asked last, no access of RGA leaves its
  buffer, and a relayout that fails half-way leaks nothing.

`PROJECT.json` lists the components with their status and the hazards at their lines.

## Plan

1. `V4L2CameraSource`, `CamManager` with `MCCamManager` and the proof modules. *Done.*
2. `FrameHub` with its abstract specification `FanOut`; `CamDecodeWorker` composing `DmaBufferPool`, the
   leases and the hub; their proof modules. *Done.*
3. `StreamDecodeWorker` (queue and recovery gate) and `StreamManager` with run generations, the ready queue, the
   publisher and the RTSP client. *Done, with `StreamDecodeWorkerProofs` and `StreamManagerProofs`.*
4. `RtspPublish`, `AudioPipeline`, `AudioPlaybackPipeline`, with `RtspPublishProofs` and `AudioProofs`. *Done.*
5. `MppDecoder`; `RgaEngine`, `DmaAllocator` and `OsdRenderer`; `DrmDisplay`, with `PictureProofs` and `DisplayProofs`. *Done.*
6. A theorem for every invariant of every run, and for the action properties. *Done*; what remains with TLC is liveness (Proofs, below).
7. Models still to come: the audio access unit queue and its source, `AacAudioSubsession`.

## Modules and how they correspond to the code

`V4L2CameraSource` describes one device as a value `[stage, queued]`: `Stages` is `enum State`,
`queued` the buffers whose `DmaBuffer::queued` flag is set. Driver calls that can fail are sets of
outcomes: `StartOutcomes` keeps the QBUFs done before the failing one, `ReopenOutcomes` is the stage
at which close, open, configure and buffer setup stopped. Whether the buffers are imported or, after the
fallback, exported by the driver makes no difference: both setups queue all of them before `start()`.

`CamManager` has one step per critical section, and one step per access to shared state outside of
one. The correspondence of the state is noted at each variable. The actions by thread:

| thread | actions | code |
|---|---|---|
| API clients | `AddCamera`, `RequestControl`, `RequestCameraRecovery`, `DelCamera`, `StartPolling`, `RequestStop`, `ShutdownPolling` begin a call; `CloseHub`, `FinishDelete`, `EraseDeleted`, `PushCommand`, `NotifyPollThread`, `LaunchPollThread`, `JoinPollThread` continue it | `addCamera` .. `shutdownPolling`, `postCommand` |
| sinks | `ReleaseLease`, `NotifyReturn` | `postReturnedFrame`, `wakePollThread` |
| poll thread | `RunLoop`, `SwapCommands`, the `Execute...` actions, `SwapReturns`, `IgnoreReturn`, `CountReturn`, `RequeueReturn`, `RequeueFails`, `PostFromOutbox`, `CheckRestarts`, `Snapshot`, `TestWaitPredicate`, `FallAsleep`, `WaitTimesOut`, `PollReturns`, `PollFails`, `CameraFault`, `DequeueFrame`, `BeginPublish`, `EndPublish`, `PostToDecoder`, `HandleWakeEvent`, `RoundEnds` | `run`, `pollOnce`, `drainCommands`, `executeCommand`, `drainReturnedFrames`, `checkAndPostCameraRestartCommands`, `reportCameraFault` |
| clock | `BackoffElapses` | `nextRestartTime` |

Abstractions. The poll thread executes a command as one step: it holds `m_camChangeMutex` throughout,
and what other threads do meanwhile without that mutex (push a command, push a returned frame, set
`m_stopRequested`) commutes with it. It keeps the mutex over several steps where another thread's
step in between matters: while it handles a batch of returned frames (`"returns"`) and between the
test of the wait predicate and the sleep (`"cvEnter"`). The pending flags are the queues being
non-empty, which holds because both change in one critical section. Time is the boolean
`backingOff`. Texts of errors, warnings and statistics are left out; so is a stale text in
`lastError()` that makes `pollOnce` take an `EAGAIN` for a fault (the fault itself can always happen).
The two failures of a publication that `pollOnce` handles cannot occur: a hub always has its
stream id and its frame carries the same one, and a worker stops only when its slot is destroyed
by the poll thread itself or when none runs; the branch is not modelled. A driver call that fails for
no reason inside the program is paid from `MaxFaults`.

`FanOut` is what a hub promises, in terms of frames, members and what each is owed. `FrameHub` is the code:
`m_sinks` as a set of entries (one for each `addSink`, so that a sink may be in it twice), the strong references
that `publishFrame` keeps in its local vector, and the ownership of sinks by the application, from which
`destroyed` follows. `publishFrame` is `TakeSnapshot`, then `CallSink` and `SinkReturns` for each entry, then
`EndPublish`; `m_publishMutex` is `publishing`. The mapping to `FanOut` (`Promise`) takes the entries whose sink
still exists as the members, and `todo` as what is owed; `RemoveSink` and `DropSink` are departures there.

`DmaBufferPool` is a pool as a value: its state and the slots in use. The two are separate in the code too, and
`acquireFrame` decides by the slots.

`CamDecodeWorker` is one MJPEG camera behind the poll thread:

| thread | actions | code |
|---|---|---|
| the poll thread, later the one that erases the slot | `FindStillActive`, `PostFrame`, `NotifyWorker`, `Shutdown`, `JoinWorker` | `pollOnce`, `postFrame`, `shutdown` |
| a client of the manager | `CloseHub`, `Teardown` | `delCamera`, `~CamManager` |
| the worker | `TakePacket`, `NoPacketToTake`, `FallAsleep`, `AcquireOutput`, `PoolExhausted`, `Decode`, `DecodeFails`, `LockHub`, `Publish`, `SinksReturn` | `workerLoop`, `processFrame` |
| sinks | `SinkReleases` | the lease of a decoded frame |

The hub is only its state there (open, closed, gone) and all sinks are called in one step, which `FrameHub`
refines; that `close()` waits for the publication is the guard of `CloseHub`. A camera buffer whose lease goes is
with the `driver` again: the way through `m_returnQueue` is in `CamManager`. Wakeups that nobody caused are left
out: they lead to another test of the predicate.

`StreamDecodeWorker` is the input side of a stream. A NALU is its kind and its number; `ParameterSets` is the pair or
triple of parameter sets of the codec, so that H.264 and H.265 are two instances. The parts of an access unit arrive one
by one: `splitAnnexBNalus` only repeats what `Enqueue` does under one lock, and a boundary that comes in one unit is the
boundary whose parts come in a row. Notifications are steps of their own, because the code sends them after it has released `m_mutex`;
so are the reports to the manager, for the same reason. `sendPacket()` can fail: `lost` says that MPP lacks a NALU since its last start. One NALU comes at a time and of one codec,
as `AnnexBSink` delivers them for the one video track the RTSP client selects (`Live555RtspClient.cpp:383`).

| thread | actions | code |
|---|---|---|
| receiver (live555 event thread) | `Play`, `Enqueue`, `ReportRecovered`, `NotifyWorker`, `ConnectionFails`, `ReportFailed` | `enqueue`, `enqueueRecoveryNaluLocked`, `onRtspClientState` |
| worker | `Sleep`, `TimesOut`, `ReportTimeout`, `TakePacket`, `StartMpp`, `MppFails`, `ReportMppFailed`, `Send`, `Exit` | `workLoop` |
| client | `RequestStop`, `NotifyStop`, `JoinWorker` | `stop` |

`StreamManager` is the manager with one stream from its start to its deletion: the slot with its generation, the mailbox of
reports, the connection, the output side of the decode worker with the ready queue and the output pool, and the publisher. A decode
worker is only running, copying a picture, notifying or gone here; that its gate has been closed too long and opens again are `Stalls` and `Recovers`. `fed` says that it has something to decode: the packets that a connection has left are decoded after its event thread has ended, too.

| thread | actions | code |
|---|---|---|
| client | `CallStart`, `CallStop`, `CallShutdown`, `Refused` begin a call; `LockStart`, `StartAll`, `LockStop`, `StopAll`, `StopWorker`, `JoinWorker`, `SignalEvent`, `JoinEvent`, `FinishStop`, `FinishDelete`, `CloseHub`, `JoinPublisher` continue it | `startStream`, `stopStream`, `startAllStreams`, `stopAllStreams`, `delStream`, `shutdownPublishing`, `RtspStream::start` and `stop`, `Live555RtspClient::start` and `stop` |
| event thread | `Plays`, `Fails`, `ReportFailure`, `LeaveLoop`, `EndEvent` | `eventThreadMain`, `onRtspClientState` |
| decode worker | `Stalls`, `Recovers`, `ReplacePool`, `AcquireOutput`, `StealOldest`, `DropPicture`, `EnqueueFrame`, `CopyFails`, `NotifyFrame`, `WorkerExits` | `workLoop`, `ensureOutputPool`, `makeStableFramePacket`, `enqueueDecodedFrame` |
| publisher | `TestPending`, `SwapReports`, `ApplyReport`, `Snapshot`, `TakeFrame`, `NoFrameLeft`, `PublishFrame`, `SinksReturn` | `runPublishLoop`, `applyPendingStreamRuntimeStates`, `publishReadyFrames` |
| sinks | `SinkReleases` | the lease of a frame |

The client makes one call at a time: the calls exclude each other by `m_streamChangeMutex`, except for `shutdownPublishing`, which
belongs to the owner of the manager. A start holds that mutex from `LockStart` on, the publisher from its first `ApplyReport` of a batch to its last (`applying`), and each waits for
the other (`MutexFree`); reports and notifications do not, which is what `CallsReturn` is about. `Report` tags a report with the generation the stream has
when it is made, as the code does. The hub is only open or closed here, as in `CamDecodeWorker`.
A callback of live555 that runs when `stop()` signals the loop ends first, so `Plays` and `Fails` can come after `SignalEvent`. `ReplacePool` is a picture of
another layout: a frame that a sink still holds belongs to the old pool, and its slot is none of the new one.

`RtspPublish` is one published video stream with its clients:

| thread | actions | code |
|---|---|---|
| application | `Start`, `Started`, `Stop`, `Stopped`, `Destroy`, `Destroyed` | `Live555RtspServer::start`, `stop`, `~RtspPublishSink` |
| event thread | `Setup`, `SetUpSession`, `StartStream`, `DeleteStream`, `NotifySink`, `DoGetNextFrame`, `FrameArrived`, `LeaveLoop`, `CloseServer`, `DeleteScheduler`, `ResetClients`, `EndThread` | `eventThreadMain`, `VideoSubsession`, `AnnexBSource` |
| camera | `OnFrame` | `RtspPublishSink::onFrame` |
| worker | `Wake`, `StartOsd`, `Arm`, `TakeFrame`, `GiveUp`, `DropFrame`, `Compose`, `InitEncoder`, `Prepare`, `Encode`, `PushAnnexBFrame`, `Deinit` | `workerMain`, `pushAnnexBFrame` |

A frame, a packet and a NALU are the number of the session (the time between two empty audiences) they were captured in: that is what
`AudiencesApart` compares. The count of clients and the report to the sink are two steps, `event` in between, as in the code, which takes the two mutexes one after the other.

`AudioPipeline` is one capture, the nodes its subscriptions keep alive, and the publishing sink of the RTSP audio as one of them:

| thread | actions | code |
|---|---|---|
| application | `StartCapture`, `StopCapture`, `JoinCapture`, `CaptureStopped` | `startCapture`, `stopCapture` |
| ALSA thread | `Read`, `PublishCapturedPcm` | the capture loop, `publishCapturedPcm` |
| workers of the nodes | `TakeBlock`, `ProcessBlock`, `EncodeBlock` | `ApmNode`, `EncoderNode` |
| whoever drops the last reference to a node | `RequestStop`, `JoinNode`, `Discard` | the destructors of the nodes |
| live555, the sink's worker | `StreamPlays`, `StreamEnds`; `Decide`, `SinkSubscribes`, `Keep`, `LetGo`, `Left` | `RtspAudioPublishSink` |
| other subscribers | `OtherSubscribes`, `OtherResets` | `subscribe`, `reset` |

A block of sound is its number in time, so a gap is two numbers that do not follow. A node is an instance: taken when `findOrCreate` finds none that
fits, given back when nothing holds it.

`AudioPlaybackPipeline` counts time in periods of the device: `Start`, `Stop`, `Join`, `Drained` and `PushAny` of callers; `Take`, `Decode`, `Refuse`,
`WritePeriod`, `Recover`, `WriteFails` and `Written` of the worker; `DevicePlays` of the sound card.

`MppDecoder` has the calls of one decode worker and, as the other actor, MPP: `InitDecoder`, `Deinit` and `ImplicitInitFails`; `SendPacket`, `PutPacket`, `NoFrame`, `TakeFrame`,
`ChangeInfo` for streams; `DecodeMjpeg`, `BindBuffers`, `Submit`, `TakeResult`, `Recycle` for pictures; `Decode` and `Finish` are MPP's. What
MPP does is external, modelled from what the calls rely on: it stops at a change of size until it is told that the buffers are there, decodes in order,
and writes only to buffers of the group. The owner of the decoder may refuse a picture (`callbackOk`), which fails the call. Each ioctl and MPP call may fail, and each cleanup path is the code's.

`DrmDisplay` composes the three parts that a picture passes: the owner (`Start`, `Started`, `Stop`, `RequestDecodeThreadStop`, `Joined`, `Destroy`), the receiver
(`EnqueueNalu`), the decode thread (`Take`, `PacketDone`, `CopyFrame`, `Copied`, `EnsureInitialized`, `PollEvents`, `AwaitEvent`, `Submit`), and the kernel
(`VBlank`). The choice of connector, CRTC and plane is what `SetupConfig` finds on a board, a record of what the ioctls would report: the set of one route, or of none.

`OsdRenderer` extends `RgaEngine`, whose operators are the layout arithmetic of `VideoFrame.cpp` and the checks of `RgaEngine` in their order, and `DmaAllocator`, where an
allocation is the set of its outcomes, one for each system call that can fail. Every public operation of `OsdRenderer` holds `m_mutex`, so each is one step; a relayout and the
drawing of the bands are part of `CompositeFrame` or `RelayoutFails`. The objects join their bands one after the other (`JoinTopmost`, `JoinedBands`); a drawing that fails in the
middle leaves the bands before it drawn (`BeforeBlock`, `BandsAfter`), and a band whose sync failed dirty although its pixels are there.

## Runs

| run | question | bounds |
|---|---|---|
| `CamControl` | buffer ownership and lease counting over start, stop, start, a requested reopen and a fault; recovery rounds are processed once and end | 1 MJPEG camera, 1 buffer, 2 starts, 1 stop, 1 request, 1 fault |
| `CamLifecycle` | life of the poll thread and deletion | 2 client threads, 2 `startPolling`, 1 `requestStop`, 1 `shutdownPolling`, 1 deletion, 1 fault |
| `HubFanOut` | fan-out: nobody is called too late, skipped or called twice; refinement of `FanOut` | 3 entries of 2 sinks, 3 frames |
| `Decode` | who has each camera buffer and output slot; order of the frames; no lost wakeup of the worker | 3 camera buffers, 2 slots, 4 frames, 1 undecodable, deletion or destructor |
| `StreamDecode` | what `sendPacket()` is given is decodable; the gate is watched; no lost wakeup; `stop()` ends | H.264, queue of 3, 8 NALUs, 2 failures of MPP |
| `StreamControl` | output slots; silence after stop and deletion; no deadlock; no lost report | 1 stream, 2 output slots, ready queue of 1, 3 calls, 1 failure, stall or change of layout |
| `Publish` | audiences are kept apart; the encoder follows the clients; no lost wake-up; calls end | 2 clients, OSD on, queue of 2, 2 sessions, 2 starts, 1 failure |
| `Audio` | no packet across a gap; nothing runs for nobody; a subscription that failed is made again | 2 nodes, 1 other subscriber, queue of 1, packets of 2 blocks, 3 blocks, 1 start, 1 failure |
| `MppDecode` | MPP writes to open buffers; every call is answered with its own picture | 2 buffers, 2 layouts, 2 outputs, 1 packet inside, 1 task, 5 packets, 2 inits, 2 failures |
| `Display` | the picture on the screen is leased; the cache agrees with the kernel; the route is possible; flips and stops end | 4 buffers, 3 framebuffers (the code's numbers), 3 boards, pictures of 2 layouts, queue of 1, 2 starts, 1 failure |
| `Playback` | queue and duration agree, the device outlives the worker; what is accepted is played | items of 1 and 2 periods, queue of 3 items or 4 periods, prebuffer of 3, 3 requests, 2 starts, 2 failures |
| `Overlay` | what is shown is what was asked; bands and accesses; no leak | 3 text objects, videos of 2 layouts, 3 updates or frames, 1 failure |

The bounds are on what the environment does: how often each API call is made (`CallBudget`), how many
driver calls fail (`MaxFaults`), and the two thresholds of the code shrunk to 2 (`MaxFailures` for 10,
`EscalateAfter` for 3), so that each is reached. In the other modules `MaxFailures` is the number of failures of the environment. Two generations of a stream, a lease of each, and a
fault between them are what the generation logic distinguishes; a third start repeats the situation of
the second. One buffer makes the driver run out at once, and the same buffer is then the one that is held and the one that is reused;
two (`CamHeldBuffer`) show a held and a free one together. One camera is what the lease and recovery logic looks at at a time: slots share only
the queues and the lock.
Two sinks, one of them entered twice, give every relation between entries and sinks; the third frame is the
first that is published after a departure during a publication. Three camera buffers fill the mailbox and the worker
with one left to replace the waiting frame, two slots show one kept and one written. Eight NALUs are two complete boundaries
(three NALUs each) with two more to fill the queue of three, which is a boundary exactly, or to fall into a closed gate; a second failure of MPP can hit the recovery from the first.
Three calls are a start, a restart and a stop or deletion, or a shutdown between; with one slot in the ready queue of a pool of two, eviction, theft of the oldest and
a pool exhausted by sinks all happen. A second failure repeats the first: a failed connection is left by a start, which is a call.
Two sessions are an audience and the next one; two clients make one leave while the other stays; a second start finds what the first one left.
Two nodes are the chain of the RTSP audio, or the node it shares and one being destroyed; three blocks are a packet and the beginning of the next, or a gap in the
middle of one. A change of layout with two buffers and one packet inside makes MPP full while it waits for the exchange; five packets
are a picture before, one at and one after the change, and a second change. Display keeps the code's four buffers and three framebuffers, as the question is whether they
are enough. The boards are what decides a route: a CRTC that the primary plane cannot have, a connector beyond the scan, a plane that cannot be read.
The playback queue holds one period more than the prebuffer, so that the worker waits, starts and loses the oldest item. Of the three text objects one touches the second only
through the third; the second video has another layout, turned, on which the rectangle does not fit.
A bounded program stops when its budget is spent and the poll thread has nothing to do, so deadlock is
not checked; that nothing stops too early is what `RoundsAccounted` and the liveness properties say.

Invariants that belong together are named parts of one property: `RoundsAccounted` and `BuffersAccounted` of `CamManager`, `BuffersAccounted` and
`WorkerWakes` of `CamDecodeWorker`, `WakeupsArrive` of `StreamDecodeWorker` (the queue and `stop()`), `CallsAreSafe` of `FrameHub`, and so on; a counterexample shows which part fails.

What they show. Over every order of starts, a stop, faults and returning leases, `inFlightFrames` never
undercounts: it covers each lease that is out, of whatever generation, so a restart or a start from
`Stopped` that waits for it waits for every sink. A returned buffer reaches the driver's queue only if nobody
else has it, because a lease of an older generation is neither counted nor queued. A camera in `Error` always has the next command of its recovery underway or
the periodic check to post it, whichever of fault, request, failed start and stop comes first, and
one fault is processed once. A deletion cannot be undone by a command, a fault or a lease still
underway. In the decode worker every exit of `processFrame` returns the input once and frees or hands over the output once,
and although both notifications are sent outside of the mutex none is lost, because what the predicate reads
changes inside of it (compare `CamLostWakeup`). The gate of a stream keeps its promise wherever the worker is when the queue overflows,
MPP fails to start or the connection is lost: the first picture handed to `sendPacket()` follows all parameter sets and is a random access
point, and after it none is skipped; what `sendPacket()` loses when it fails is another matter (`DecodeGap`). `stop()` ends wherever the worker is. The calls of the stream manager cannot hang although they join two threads under its mutex,
after a stop or a deletion nothing of the stream is left (but a frame that the publisher had popped before `stopStream()` returned is published after it; `delStream()` waits for it), and its slots are accounted for over every way a frame can end.
The next audience of a published stream sees at most the one unit that was being encoded when the last one left, because the event thread clears the queue under the mutex under which the
worker decides to push. Encoder and OSD buffer go back when the worker wakes up next, whatever failed before. No audio packet spans lost blocks: wherever a block is lost its number is
missing, and the encoder is reset before it takes the next, even if an earlier reset failed. A subscription that failed is not repeated on its own; it is when everybody leaves and somebody comes. In the MPP decoder an info change closes
buffers only after the group has forgotten them. The four output buffers and three framebuffers of the display are enough for a
picture on the screen, one pending and one being written, and a failed flip changes neither lease. In playback eviction, `take` and `stop()` keep the duration with the queue. Composing
keeps its promise over every combination of the dirty marks, and what a failed allocation leaves is undone in its order. `StartCamera` on a camera in `Error` is the exception to the waiting rule: it is the subject of
`CamHeldBuffer` below (Counterexamples), and `RestartWaitsForLeases` is stated for the other two ways to start a device.

### Counterexamples

Where the code does what a comment or document says it does not, or what a reader would not expect, a configuration of its own shows
it: `tlc -config <name>.cfg <module>` finds the property of the configuration violated. These are not among the runs above, which all pass;
their bounds are those of the runs or smaller (but `CamHeldBuffer` has 2 buffers, `DecodeGap` a queue of 4 and `OverlayTorn` 4 calls). The modules are `MCCamManager` for the first two, `CamDecodeWorker`, `MCStreamDecodeWorker` for the next two, `StreamManager`,
`RtspPublish`, `MppDecoder`, `MCAudioPlayback`, `MCDrmDisplay`, and `MCOsdRenderer` for the last two, in this order.

* **`CamHeldBuffer`**: the wait for old leases at `CamManager.cpp:1104` tests `Stopped` only. A
  `StartCamera` executed while the camera is in `Error` and its device stopped queues buffers
  that sinks still hold, against `DEVELOPMENT_LOG.md:2896`.
  The same command, executed before the `ProcessError`, adopts the stream that still runs (`:1113`) without the buffers
  returned since the fault, against the comment at `:1398`, and clears `requiresDeviceReopen`, which `CamManager.hpp:134` says
  only a reopen may.
* **`CamLostWakeup`**: `postCommand()` sets its flag and notifies without the mutex of the wait
  predicate; the notification can be lost, and the wait of an idle manager has no deadline.
* **`DecodeTeardown`**: the destructor of `CamManager` joins the poll thread, but a decode worker is joined only
  when `m_cameraMap` is destroyed, after `m_returnQueue` and `m_returnMutex`, which are declared later. The lease it
  drops meanwhile, or that `shutdown()` drops from the mailbox, is posted to members already destroyed.
  `DEVELOPMENT_LOG.md:711` says that no background thread works on the object by then.
* **`DecodeGap`**: `sendPacket()` can fail without MPP having got the NALU (`mpp_simple.c:697-702`, `:731-739`). The worker takes note of
  the error and sends the next one (`Stream.cpp:447`) with the gate open, although the comments at `:172` and `:174` say of a NALU that is
  lost that the broken chain of references must not be fed, and that decoding begins again with the next parameter sets.
* **`StreamHealth`**: the timeout of the gate sets its flag under `m_mutex` and reports `Error` after it (`Stream.cpp:419`). A
  complete boundary enqueued in between reports `Streaming` first, and nothing corrects the `Error` that follows:
  the stream decodes and none of its frames is published, against the comment at `Stream.cpp:193`.
* **`StreamRestart`**: `startStream()` sets the new generation before the old event thread is joined
  (`StreamManager.cpp:150`), and `Live555RtspClient::start()` begins with `stop()`, so that a thread still leaving after a failure reports `Stopped` with
  the new generation. The slot becomes `Stopped`, in which the reports of the new connection are ignored, against the comment at `:452`.
* **`RtspSilent`**: `setActive(false)` clears `m_acceptingFrames` (`RtspPublishSink.cpp:74-90`), and the worker, which sets it when it arms
  itself (`:246-256`), samples only the level of `m_activeRequested`. If the last client leaves and another comes before the worker wakes, the worker
  goes on waiting for a frame that `onFrame()` refuses: the stream stays silent at least until everybody leaves again.
* **`MjpegDamaged`**: `rk_mpp_decoder_advance` returns success for a picture MPP marked as damaged (`mpp_advance.c:807-817`), where the stream decoder drops
  such frames (the comment at `mpp_simple.c:555`).
* **`PlaybackStarves`**: with the default limits and AAC packets of 64 ms the queue evicts before its duration reaches the prebuffer
  (`AudioPlaybackPipeline.cpp:200-209`, `:239-243`): packets are accepted for ever and nothing is played.
* **`DisplayRestart`**: `m_decoderInitialized` is a member of `RtspDrmPipeline`, the decoder a local variable of `decodeLoop()`
  (`rtsp_drm_sink_demo.cpp:371`, `:396`). After a second `start()` the new decoder is taken for initialized and refuses every packet.
* **`OverlayStalePlace`**: an update in place assigns `placementDirty` (`OsdRenderer.cpp:140`). A second update before the next frame, of the colour only or of nothing, clears what
  a longer text had set: the text is drawn at its old column on a background of its old width, against the comment at `:138`.
* **`OverlayTorn`**: a relayout for another video size that fails has moved the objects of its bands already (`rebuildBandLayoutLocked`), but the old
  bands stay. A band that is then drawn for a video of the old size has its objects at the rows and font sizes of the other.

Two more cases are written into the property instead: `CallsAreAnswered` of `MppDecoder` excepts a decoder whose info change failed (`InfoLost`) or whose task did not get back to its
port (`TaskLost`), after which the code waits for ever, and a call after a failed poll has `abandoned` its task, which the next call takes for its own.

### Fairness

`FairSpec` assumes weak fairness of the poll thread, of the continuation of each API call, of each sink
and of the clock, separately. The operating system schedules every thread; `poll()` returns after its timeout
at the latest; a sink drops its frames in the end (the code relies on it: a recovery waits for them); time
passes. Nothing is assumed of what clients call, of faults, or of the condition variable: a wakeup that is
lost stays lost. A poll thread asleep has no enabled step, so its fairness is not a promise that it wakes.

`CamDecodeWorker!FairSpec` assumes it of the worker and of the thread that posts and shuts down. This includes that
sinks return from `onFrame()`, which `Sink.hpp` demands of them; that they release the frames they keep is not
assumed, so the liveness there holds with the output pool exhausted for good.

That `decodeMjpeg()` returns is assumed as well, although it can wait for ever after a
task that got lost (`TaskLost` of `MppDecoder`).

`StreamDecodeWorker!FairSpec` assumes it of the worker, whose timed wait returns at its deadline, of a report or notification under way and
of a `stop()` under way. Nothing need arrive. That a call of `sendPacket()` returns is assumed here, in `StreamManager` and in `DrmDisplay`; the code cannot promise it of a decoder whose info change failed (`InfoLost` of `MppDecoder`), and
there `stop()` hangs with it. `StreamManager!FairSpec` assumes it of the calls under way, of the event thread once it is to end, of
the worker while it has a picture in hand, and of the publisher; a server need not answer and sinks need not release what they keep.
`SinksKeepUp` is one more assumption, and the code does need it: `publishReadyFrames()` drains the ready queue in a loop without a bound, so sinks that take
longer than the camera between two pictures keep the publisher from its reports and from its stop flag for ever.

`RtspPublish!FairSpec` assumes weak fairness of the worker, of the event thread's own work and of the calls under way, and strong fairness of leaving the loop and of serving a
trigger: `doEventLoop()` tests its watch variable before, and serves triggers in, every round, whatever the clients ask meanwhile. Clients need not play or leave. `AudioPipeline!FairSpec` assumes it of
each node's worker, of each thread that stops a node, of the sink's worker and of the capture's publication and join, nothing of the microphone and the listeners.
`MppDecoder!FairSpec` assumes that a call goes on and that MPP decodes what it can. `DrmDisplay!FairSpec` assumes it of the decode thread, of the vertical blank and of a stop under way, and strong
fairness of `PacketDone`: a packet has finitely many frames. `AudioPlaybackPipeline!FairSpec` assumes it of the worker, the sound card and a `stop()` under way; pushes may cease.

## Proofs

`CamManagerProofs` proves, for all constants that satisfy `CamManagerAssumption` and
`BufferCountAssumption`:

* `TypeCorrect`: `Spec => []TypeOK`. `TypeOK` alone is not inductive: a publication reads the frame in
  hand and the handling of returned frames takes the head of a sequence. `TypeInv` adds `Located`: while
  the poll thread is there, the frame is a real one and the sequence is not empty. The proof has one lemma
  per operator on slots and devices, then one per action.
* `NoThreadUnlessRunning`: `Spec => []NotRunningMeansNoThread`. For its first part, `ThreadOnlyWhileRunning`, the strengthening `ThreadInv` says that
  at most one client is inside the section of `m_threadMutex`, and that a client about to launch the thread
  has set `m_running` and finds no thread running. This is the mutual exclusion of
  `startPolling` and `shutdownPolling`; `requestStop` needs none. For the second, `ErasedIsInNoHand`, `HandsInv` says what the poll thread
  has in hand and when: a snapshot during a `poll()` round, a frame while it publishes. A client that erases a camera has seen no thread at work, and one launched
  after that does not take a marked camera into its snapshot.
* `DeletedForGood`: `Spec => DeletionIsFinal`, an action property, from the type invariant: every step that
  changes a slot either is guarded against `Deleting` or keeps the state of the slot.
* `ClosedBeforeErased`: `Spec => []NoFrameAfterDelete`. The strengthening `HubInv` follows the doomed
  camera: whoever holds the right to erase it (a client past `CloseHub`, about to erase it or not yet, a `DeleteCamera` command
  in a client, the queue or the batch) implies that its hub is closed, and a hub that is closed
  is not being published to.

It proves `RoundsStayAccounted`: `Spec => []RoundsAccounted`. Whether a camera in `Error` is looked after depends on commands
that may be anywhere, so `RoundInv` takes the two queues of the poll thread as one line and adds what is in its outbox and in the
hands of clients. It has three parts. `Placed`: commands are only where a thread works on them. `ErrorsOnce`: no two `ProcessError` of one fault are underway.
`RoundOk`, per camera: an unprocessed round has its `ProcessError` underway, a processed one its restart pending and, once queued, underway, and no `ProcessError`
underway is of a generation that is still to come. Without the last a new round could find its error already underway; without
`ErrorsOnce` an error that is executed could leave a second of its kind behind. The steps are sorted by what they do to a slot and to the line
(`Rests`, `Waits`), so that one lemma serves many actions.

From there it goes on with the buffers: `CameraBuffersStayAccounted` (`BuffersAccounted`) and two action properties, `StreamingStrandsNothing`
(`StreamingStrandsNoBuffer`) and `RestartsWaitForLeases` (`RestartWaitsForLeases`). `BufInv` says, per camera (`BufOk`): the leases held, on their way back and in hand have different
buffers, none of which the driver has, if they are of the present generation (`OneOwner`); `inFlightFrames` is at least their number (`Covered`), which needs lemmas on the
cardinality of the leases and returns of a generation; and none is of a future generation (`Known`), or the first frame of a new run could find its
buffer taken. `BufNext` proves of each step that it keeps `BufInv` and that no buffer of a camera that goes on streaming is lost. The restart property needs the
count: `inFlightFrames = 0`, which the code tests, implies that no lease is out.
`CamManagerAssumption` names one more thing than the code does: `none`, which stands for no camera in the frame in hand, is not the name of a camera.

`PictureProofs` is about what produces pictures and what hands them on. It proves the invariants of `FrameHub` (the two parts of `CallsAreSafe`, together `SinksCalledSafely`, and `NoFrameMissed`) and that it implements `FanOut` (`KeepsPromise`), under
`FrameHubAssumption`. The strengthening `HubInv` says what `m_publishMutex` gives: outside of a publication there is no
snapshot, a closed hub has neither publication nor entries, and a destroyed sink is in no snapshot. The refinement
has one step per action; a departure maps to `Leave`, the return of a sink to a stutter.

The other half of the module is about `MppDecoder`, under `MppDecoderAssumption`. (The two modules share no name, so that one can extend both: `FrameHub` calls its specification `HubSpec`, as `OsdRenderer` has `OsdSpec` and `AudioPlaybackPipeline` `PlaybackSpec`.)

* `PicturesKeepMemory`: `[]PicturesHaveMemory`. A picture is in memory that is open because MPP takes none while it waits and says nothing after a request for new
  buffers: `InfoIsLast`, and `GroupIsOpen`, which a failed exchange breaks only while MPP waits.
* `ResultStaysOwn`: `ResultIsOwn`, the safety part of `CallsAreAnswered`. `TaskIsOwn` follows the only task from submission to recycling, unless one was left behind.

`CamDecodeWorkerProofs` proves the safety properties of `CamDecodeWorker` under `CamDecodeWorkerAssumption` and
`PoolSizeAssumption`: `NoInputLost` and `NoOutputShared`, together `BuffersStayAccounted`, `JoinWaitsForNoSink`, `CaptureOrder`. `InputsAccounted`
and `OutputsAccounted` are inductive once `InHand` ties what the worker holds to where it is. The order of the
frames needs `NewestWaits`: along the path from the mailbox to the sinks frames only get older. That the join waits
for no sink needs that a deleted camera's hub stays closed until the worker has ended (`DeletedIsSilent`). There is one
lemma per part of the invariant.

`StreamDecodeWorkerProofs` proves, for every tuple of parameter sets, every queue limit above its length and every number of NALUs
(`StreamDecodeWorkerAssumption`), `TypeCorrect`, `GateAlwaysWatched` and `OnlySendPacketLoses` (`Spec => []OnlySendPacketLosesNalus`). The last
needs to know what is queued: `GateInv` says that a closed gate has an empty queue behind it; that after the gate has closed and opened
the queue begins with a whole boundary, in front of which MPP will be started anew; and that otherwise the queue continues what
`sendPacket()` has been given, the NALU in the worker's hand included (`Continues`: the rest of a boundary, or numbers in a row up to the last one received). `HandInv`
says the same of the NALU in hand. The lemmas on sequences (`BoundaryParts`, `HeadOfBoundary`, `HeadOfRow`, `AppendToRow`) say what
building a boundary, taking the head and appending make of these parts. What `sendPacket()` loses
(`lost`) is in no part of it, and the stronger `NothingUndecodableSent` is false (`DecodeGap`). `GateAlwaysWatched` needs `WakeInv`: a worker
asleep before a queue with something in it is about to be woken.

`StreamManagerProofs` proves, for every size of the pool and of the ready queue and every number of calls and faults (`StreamManagerAssumption`, `PoolSizeAssumption`), `TypeOK`,
`SlotsStayAccounted` (`Spec => []SlotsAccounted`) and `StopsAreComplete` (`Spec => StopIsComplete`). `TypeInv` adds to `TypeOK` that a call is paid for before it counts a generation or
a run (`Budget`), and what the worker and the publisher hold where (`Holding`): the worker has an output slot exactly while it copies, the publisher a frame only while it publishes.
With that `SlotsAccounted` is inductive. `Accounts` is the same statement as a relation of five values; `AccountsReady` and `AccountsSlot` say what clearing, shortening and extending the queue, acquiring
and giving up a slot make of it, and each action is one of these. `StopIsComplete` needs the order in which a stop does its work (`Stilled`):
from the release of the worker on there is no event thread, at the end no worker either, and a deleted stream has a closed hub and a publisher
outside of it. One report is applied per step because a fold over the batch could not be reasoned about; the
publisher keeps the mutex in between, as `applyPendingStreamRuntimeStates()` does.

`DisplayProofs` is about what is shown. Of `DrmDisplay` it proves `ScanoutStaysLeased` (`Spec => []ScanoutIsLeased`), which needs nothing of the sizes of pool and cache, and `CacheStaysSound` (`Spec => []CacheIsSound`), which needs three
buffers and two slots (`EnoughForOneThread`; the code has four and three). The strengthening `DisplayInv` says that a buffer of the pool has one holder (`OneHolder`) and one framebuffer at most
(`CachedOnce`), that nothing is shown before the first modeset and after the end (`BeforeModeset`), and in between where a flip stands in all three places at once: in the cache, the presenter and the kernel
(`NoFlip`, `FlipUnderWay`). `NoFlip` covers the moment in which the cache has taken note of a flip and the presenter has not yet given up its old packet. The step that matters is the import of a new framebuffer:
without a flip under way every slot but the front one is free, and the front one holds another buffer than the frame in hand, so that what is evicted is not on the screen (`SlotIsNotFront`,
`ImportIsSafe`). What is known of `FirstOf` over the cache (`CachedFbFound`, `FreeSlotFound`) rests on the least element of a set of naturals, that is on `WFMin` of the library.

`RouteStaysPossible` (`Spec => []RouteIsPossible`) follows the choice through its four scans: what a scan has looked at is what there is, up to `ScanLimit` (`LookedAt`, `PossibleCrtcs`), then `ConnectorChosen`, `EncoderCrtc` and
`CrtcChosen`, `PlaneChosen`, together `RouteChosen`; `RouteInv` says that the route in use was chosen for the board there is. It needs two things of the hardware (`HardwareAssumption`): a CRTC that an encoder has is one it can have, and
a connector that shows something has an encoder with a CRTC among those the scan reads. Without the second `chooseCrtcForConnector()` takes the first CRTC there is (`drm_display.c:620`), which need not be possible; what else
cannot be read, or is beyond the scan, the theorem covers.

Of the overlay it proves `OsdLeaksNothing`, `OsdLayoutIsSound` and `OsdShowsWhatWasAsked`, under `OsdRendererAssumption` and `InputsAssumption` (objects are what `validateTextObject()` accepts, the frames of a caller have a format of the enumeration and no negative size or crop). All three
come from one inductive invariant, `OsdInv`. Its parts:

* `OsdTypeOK`, `Registered` (each object is in the order once) and `Rendered` (a bitmap is that of the text and the font size the object was rendered with, if its text renders).
* `Owned`: the kernel holds what the bands own. That every attempt of an allocation leaves its memory or nothing is `AttemptLeavesItsMemory`; over all the heaps and nodes it is `AllocateIsSound`, an induction over the
  list with a set of indices (`CountingUp`, from `WFMin`), as `Allocate` is a recursive function of them.
* `Fits`, when the layout is not dirty and not torn: the bands hold every object and its rows, are apart by more than the gap, and the objects of one are linked; what is drawn in a band that is not dirty is what its objects are now. The horizontal place of
  an object and the width of its bitmap may be old: an update in place changes only those, and drawing computes them again.
* `FreshInv`: a frame that was returned is from a layout that is neither dirty nor has a dirty band, and its base copy stayed in its buffers. The source is aligned because `rga()` made it; that the last byte of a picture is inside a valid buffer
  is `LastRowFits`, about an odd half of the rows in the chroma plane.

The hard steps are the relayout and the drawing. Objects join from the top down; `JoinInv` says what the bands are after each: whoever joined touches one that joined before it and lies in its band, the bands are apart, and
nothing that is still to join begins above the last one. `OpensBand` and `ExtendsBand` are its two steps. `RelaidFits` puts the alignment on top of it, `DrawingKeepsFits` says that bands whose objects can be drawn fit afterwards, and one that
is blocked by an object is left dirty. An update in place keeps `Fits` because the font and the row stay what the layout was made for (`SameRowIsAsConfigured`).

What the properties say follows from `OsdInv`. Two objects of a band are connected because of any two parts of the band the one that was not opened has an object that joined first in it, and that one touches an earlier one, in the other part
(`BandIsConnected`); objects of two bands are not, as everything down to the upper band is a cut that nothing touches across (`BandsSeparate`). A frame has as many pictures as objects because the order is a bijection onto them (`OnePictureEach`).

`RtspPublishProofs` proves `AudiencesStayApart` (`Spec => []AudiencesApart`). The count of clients, the callback of the event thread and the worker of the sink change at
different times; `QuietWhenUnasked` says what they agree on: before the event thread has told of the first client, and after it has told of the last, the request has ended in every place the
worker reads it from. `AcceptsOnRequest` and `NobodyAtRest` keep that through a destroyed sink and a server that stops. For the units of a past session `StaleOnce` speaks of the queue
and the packet in hand together: one of them at most is of the past, and a packet of the past in hand means that all of the queue is of the present. The lemmas say what taking the
head, pushing and pushing at the limit make of it; `EmptyWhenUnplayed` is why a new session begins with an empty queue.

`AudioProofs` proves about `AudioPipeline`, under `AudioAssumption`, and about `AudioPlaybackPipeline`, under `PlaybackAssumption`; the two have no state in common and
the bounds and failures of each are its own.

* `PacketsHaveNoGap`: `[]NoPacketAcrossGap`. `PacketOk` adds what is expected: the block after the last one cached, and when nothing is known to follow (at the start, and after
  a codec that failed) the cache is empty or full, so that the next block does not join it.
* `CaptureStopsWhole`: `[]StopIsComplete`, the safety part of `NothingRunsForNobody`. `Answerable` says, in each stage of the capture, who will stop a node that runs: the subscriber that let
  go of it; while captured, or after a start that failed, whoever holds it; the application in the two stages of `stopCapture()`. With `ThreadJoined` and `OneSubscription` (a subscriber that
  holds nodes has finished stopping the last ones) it is inductive; the lists of nodes to stop need that `SetToSeq` of a finite set lists all of it (`EveryOneListed`).
* `WorkerKnowsItsQueue`: `[]WorkerIsNotMisled`. `PlaybackInv` is the property itself with the types and one fact about `stop()`: while it waits for the worker the queue is empty and stays so, because a push is refused. The duration of a queue is a recursive sum; that appending adds one
  item's duration to it, and taking or evicting the head takes that item's away, are lemmas about it, proved with `WFMin` over the set of lengths for which they hold.

`EnoughForOneThread`, `HardwareAssumption`, `InputsAssumption` and, in `AudioAssumption`, that there are finitely many nodes and that no subscriber is the application, are assumptions the theorems added to the models; TLC evaluates each on the values of its run.

Every invariant of the runs is stated by a theorem, and so is every action property. Only model-checked are the liveness properties (`RecoveryCompletes`, `WorkerWakes`, `WakeupsArrive`, `SilenceIsReported`, `CallsReturn`, `ReportsAreApplied`, `EncoderFollowsClients`,
`NobodyWaitsForGood`, `SubscriptionBegins`, `DisplayMovesOn`, `WorkerGetsOn`, and the leads-to parts of `NothingRunsForNobody` and `CallsAreAnswered`): liveness under fairness is outside of the prover's reach. So are the theorems
of the library that take an operator, which is why inductions are about sets and why what is computed in steps is a recursive function here and not a recursive operator.

## Not modelled

Of the streams: several side by side (their slots share the lock and the publisher only), the splitting of access units, a change of codec (the RTSP client and the DRM demo have one video track each), the audio callback, the RTSP handshake beyond its outcome. In `Fails` the event thread
clears `m_started` and the packets in one step; that a restart in between destroys the worker it calls is among the hazards.

Of the RTSP server: the audio access unit queue and its source, which are the video pair again, `AacAudioSubsession`, streams added before `start()`, several streams of one
server, and the use of `m_scheduler` after its deletion (a hazard). Of the audio: the configuration checks, the diagnostic dump and the statistics, sample conversion, the sound processing and
the packet file. Of MPP: the rate control arithmetic and the header handling of the encoder, and the entry points that work on files. Of RGA and the overlay: descriptors, and with them the test of
`composite()` that source and destination have different ones, the parameters of `importbuffer`, the scheduler core, the pixel loops and the rasterisation of glyphs. Of the display: the dump of properties, the RGB path, functions of the header that nothing calls.

ISP controller, device probe: wrappers around single ioctls. ONVIF: requests and responses over generated code, without state that several actors share. Runtime, application, Qt and
tools: wiring. All texts of errors: data no property depends on. Some of these texts (`m_lastError` of
`FrameHub` and of `DmaBufferPool`) are written or read without their mutex.
A call of the manager by a sink from within `onFrame()` is not modelled: `close()` from there would wait for the
caller's own `m_publishMutex`, and nothing in the repository does it.
