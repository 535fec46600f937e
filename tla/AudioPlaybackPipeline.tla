------------------------ MODULE AudioPlaybackPipeline ------------------------
(***************************************************************************)
(* AudioPlaybackPipeline with the ALSA playback device and the decoders    *)
(* under it: callers push PCM blocks or compressed packets into a queue    *)
(* that drops the oldest, a worker takes them once enough is buffered,     *)
(* decodes them and writes to the device, whose ring runs dry when nothing *)
(* is written for too long. Time is counted in periods of the device. The  *)
(* sound card and the decoder libraries are external.                      *)
(***************************************************************************)
EXTENDS Naturals, Sequences

CONSTANTS Items,           \* what can be pushed: records of codec, rate, duration
          Rate,            \* the sample rate the device was opened with
          OpusRates,       \* sample rates Opus has
          MaxQueuedItems,  \* maxQueuedItems
          MaxQueued,       \* maxQueuedDurationUs
          Prebuffer,       \* startupPrebufferDurationUs
          Requests,        \* pairs of requested buffer and start threshold, 0: default
          MaxOpens,        \* calls of start(), a bound
          MaxFaults        \* failures of ALSA and of the decoders, a bound

ASSUME PlaybackAssumption ==
    /\ MaxQueuedItems \in Nat \ {0} /\ MaxQueued \in Nat \ {0} /\ Prebuffer \in Nat
    /\ \A i \in Items : i.duration \in Nat \ {0}
    /\ MaxOpens \in Nat /\ MaxFaults \in Nat

VARIABLES
    owner,           \* where start() or stop() is
    playbackRunning, stopRequested,  \* m_running, m_stopRequested
    inputMode,       \* m_inputMode: "none", "pcm" or "encoded"
    playQueue,       \* m_queue, oldest first
    queuedDuration,  \* m_queuedDurationUs
    started,         \* m_playbackStarted
    accepted,        \* m_acceptedItems, modulo 2
    pc,              \* where the worker is
    item,            \* what it took
    left,            \* periods of it that are not written yet
    recovered,       \* recoveredFromDiscontinuity of this write
    decoder,         \* the codec and rate m_decoder was made for
    buffer, threshold,  \* depth of the ring and where the device starts
    device,          \* "closed", "prepared", "running" or "xrun"
    ring,            \* periods in the ring
    opensLeft, faultsLeft

control == <<owner, playbackRunning, stopRequested>>
pushed  == <<inputMode, playQueue, queuedDuration, started>>
worker  == <<pc, item, left, recovered, decoder>>
card    == <<buffer, threshold, device, ring>>
limits  == <<opensLeft, faultsLeft>>
playbackVars == <<control, pushed, accepted, worker, card, limits>>

NoItem == [codec |-> "none", rate |-> 0, duration |-> 0]
NoDecoder == <<"none", 0>>

PlaybackInit ==
    /\ owner = "idle" /\ playbackRunning = FALSE /\ stopRequested = FALSE
    /\ inputMode = "none" /\ playQueue = <<>> /\ queuedDuration = 0 /\ started = FALSE
    /\ accepted = 0 /\ pc = "off" /\ item = NoItem /\ left = 0 /\ recovered = FALSE
    /\ decoder = NoDecoder
    /\ buffer = 0 /\ threshold = 0 /\ device = "closed" /\ ring = 0
    /\ opensLeft = MaxOpens /\ faultsLeft = MaxFaults

Fault == faultsLeft > 0 /\ faultsLeft' = faultsLeft - 1
Smaller(a, b) == IF a < b THEN a ELSE b
Larger(a, b) == IF a > b THEN a ELSE b
-----------------------------------------------------------------------------
(* audio_playback_open_auto(): the ring has two periods at least, and the  *)
(* device starts one period before it is full unless told otherwise.       *)
BufferFor(requested) == IF requested = 0 THEN 4 ELSE Larger(requested, 2)

ThresholdAsked(requested, size) == IF requested = 0 THEN size - 1 ELSE requested

ThresholdFor(requested, size) == Smaller(ThresholdAsked(requested, size), size)

OpenAuto(request) ==
    /\ buffer' = BufferFor(request[1])
    /\ threshold' = ThresholdFor(request[2], buffer')
    /\ device' = "prepared" /\ ring' = 0

(* start(): nothing if it runs already.                                    *)
Start ==
    /\ owner = "idle" /\ ~playbackRunning /\ opensLeft > 0 /\ opensLeft' = opensLeft - 1
    /\ \/ /\ \E r \in Requests : OpenAuto(r)
          /\ playQueue' = <<>> /\ queuedDuration' = 0 /\ started' = FALSE
          /\ inputMode' = "none" /\ accepted' = 0 /\ stopRequested' = FALSE
          /\ playbackRunning' = TRUE /\ pc' = "wait"
          /\ UNCHANGED faultsLeft
       \/ /\ Fault
          /\ UNCHANGED <<playbackRunning, stopRequested, pushed, accepted, pc, card>>
    /\ UNCHANGED <<owner, item, left, recovered, decoder>>

Stop ==
    /\ owner = "idle" /\ playbackRunning
    /\ stopRequested' = TRUE
    /\ playQueue' = <<>> /\ queuedDuration' = 0 /\ started' = FALSE
    /\ owner' = "joining"
    /\ UNCHANGED <<accepted, playbackRunning, inputMode, worker, card, limits>>

(* audio_decoder_close() and audio_playback_close(): the device plays what *)
(* is in the ring before it is closed.                                     *)
CloseDecoder == decoder' = NoDecoder

JoinNobody ==
    /\ owner = "joining"
    /\ owner' = "draining" /\ CloseDecoder
    /\ device' = IF device = "prepared" /\ ring > 0 THEN "running" ELSE device
    /\ UNCHANGED <<accepted, playbackRunning, stopRequested, pushed, pc, item, left, recovered,
                   buffer, threshold, ring, limits>>

Join ==
    /\ owner = "joining" /\ pc = "off"
    /\ owner' = "draining" /\ CloseDecoder
    /\ device' = IF device = "prepared" /\ ring > 0 THEN "running" ELSE device
    /\ UNCHANGED <<accepted, playbackRunning, stopRequested, pushed, pc, item, left, recovered,
                   buffer, threshold, ring, limits>>

Drained ==
    /\ owner = "draining" /\ ring = 0
    /\ device' = "closed"
    /\ playbackRunning' = FALSE /\ stopRequested' = FALSE
    /\ inputMode' = "none" /\ playQueue' = <<>>
    /\ owner' = "idle"
    /\ UNCHANGED <<accepted, queuedDuration, started, worker, buffer, threshold, ring, limits>>
-----------------------------------------------------------------------------
(* push(): enqueuePcm(), enqueueEncoded() and enqueueItemLocked().         *)

ModeOf(i) == IF i.codec = "pcm" THEN "pcm" ELSE "encoded"

Duration(q) ==
    LET sum[n \in 0..Len(q)] == IF n = 0 THEN 0 ELSE sum[n - 1] + q[n].duration
    IN  sum[Len(q)]

(* How many of the oldest items have to go for i: one too many, or too long*)
MakesMore(i, n) ==
    LET rest == SubSeq(playQueue, n + 1, Len(playQueue))
    IN  rest = <<>> \/ (Len(rest) < MaxQueuedItems /\ Duration(rest) + i.duration < MaxQueued)

Makes(i, n) ==
    LET rest == SubSeq(playQueue, n + 1, Len(playQueue))
    IN  rest = <<>> \/ (Len(rest) < MaxQueuedItems /\ Duration(rest) + i.duration <= MaxQueued)

Evicted(i) ==
    CHOOSE n \in 0..Len(playQueue) : Makes(i, n) /\ \A m \in 0..(n - 1) : ~Makes(i, m)

Kept(i, n) ==
    /\ playQueue' = Append(SubSeq(playQueue, n + 1, Len(playQueue)), i)
    /\ queuedDuration' = queuedDuration + i.duration - Duration(SubSeq(playQueue, 1, n))

Push(i) ==
    /\ playbackRunning /\ ~stopRequested
    /\ inputMode \in {"none", ModeOf(i)}
    /\ inputMode' = ModeOf(i)
    /\ Kept(i, Evicted(i)) /\ accepted' = 1 - accepted
    /\ UNCHANGED <<control, started, worker, card, limits>>
-----------------------------------------------------------------------------
(* workerMain(): waits for the prebuffer, unless playback has started.     *)

Buffered == playQueue # <<>> /\ (started \/ queuedDuration >= Prebuffer)

Take ==
    /\ pc = "wait"
    /\ IF stopRequested
       THEN pc' = "off" /\ UNCHANGED <<pushed, item, left, recovered>>
       ELSE /\ Buffered
            /\ started' = TRUE /\ item' = playQueue[1] /\ playQueue' = Tail(playQueue)
            /\ queuedDuration' = queuedDuration - playQueue[1].duration
            /\ left' = playQueue[1].duration /\ recovered' = FALSE
            /\ pc' = IF playQueue[1].codec = "pcm" THEN "write" ELSE "decode"
            /\ UNCHANGED inputMode
    /\ UNCHANGED <<accepted, control, decoder, card, limits>>

Skip == pc' = "wait" /\ item' = NoItem /\ left' = 0

(* audio_decoder_init(): the codecs there are, and the formats they have.  *)
AacCreates(i) == i.codec = "aac"
OpusCreates(i) == i.codec = "opus" /\ i.rate \in OpusRates

Creates(i) == AacCreates(i) \/ OpusCreates(i)

(* ensureDecoder(): a decoder of another codec or format is closed first.  *)
Wanted == <<item.codec, item.rate>>

EnsureDecoder(made) ==
    \/ made /\ decoder = Wanted /\ UNCHANGED <<decoder, faultsLeft>>
    \/ /\ decoder # Wanted /\ made = Creates(item)
       /\ decoder' = IF made THEN Wanted ELSE NoDecoder
       /\ UNCHANGED faultsLeft
    \/ ~made /\ decoder # Wanted /\ Fault /\ decoder' = NoDecoder

(* aac_decode_packet() and opus_decode_packet() call playPcm() with what   *)
(* they decoded; a packet they refuse is skipped.                          *)
AacDecodes == item.codec = "aac" /\ decoder' = <<"aac", item.rate>>
OpusDecodes == item.codec = "opus" /\ decoder'[1] = "opus"

Decode ==
    /\ pc = "decode"
    /\ \/ /\ EnsureDecoder(TRUE)
          /\ AacDecodes \/ OpusDecodes
          /\ pc' = "write" /\ UNCHANGED <<item, left>>
       \/ EnsureDecoder(FALSE) /\ Skip
       \/ decoder = Wanted /\ Fault /\ Skip /\ UNCHANGED decoder
    /\ UNCHANGED <<accepted, control, pushed, recovered, card, opensLeft>>
-----------------------------------------------------------------------------
(* playPcm() and audio_playback_write_pcm_ex().                            *)

(* Another rate than that of the device is refused.                        *)
Refuse ==
    /\ pc = "write" /\ item.rate # Rate
    /\ Skip
    /\ UNCHANGED <<accepted, control, pushed, recovered, decoder, card, limits>>

(* snd_pcm_writei() blocks while the ring is full, and starts the device   *)
(* when there is enough in it.                                             *)
WritePeriod ==
    /\ pc = "write" /\ item.rate = Rate /\ left > 0
    /\ device \in {"prepared", "running"} /\ ring < buffer
    /\ ring' = ring + 1 /\ left' = left - 1
    /\ device' = IF ring' >= threshold THEN "running" ELSE device
    /\ UNCHANGED <<accepted, control, pushed, pc, item, recovered, decoder, buffer, threshold, limits>>

(* EPIPE: the ring ran dry; another error of the device is recovered from  *)
(* in the same way. The write goes on, or fails for good.                  *)
Recover ==
    /\ pc = "write" /\ item.rate = Rate /\ left > 0
    /\ \/ device = "xrun" /\ UNCHANGED faultsLeft
       \/ device # "xrun" /\ Fault
    /\ device' = "prepared" /\ ring' = 0 /\ recovered' = TRUE
    /\ UNCHANGED <<accepted, control, pushed, pc, item, left, decoder, buffer, threshold, opensLeft>>

WriteFails ==
    /\ pc = "write" /\ item.rate = Rate /\ left > 0
    /\ Fault /\ Skip
    /\ UNCHANGED <<accepted, control, pushed, recovered, decoder, card, opensLeft>>

(* After a recovery the next item waits for the prebuffer again.           *)
Written ==
    /\ pc = "write" /\ item.rate = Rate /\ left = 0
    /\ started' = (started /\ ~recovered)
    /\ Skip
    /\ UNCHANGED <<accepted, control, inputMode, playQueue, queuedDuration, recovered, decoder,
                   card, limits>>

(* The sound card.                                                         *)
DevicePlays ==
    /\ device = "running"
    /\ IF ring > 0 THEN ring' = ring - 1 /\ UNCHANGED device
       ELSE device' = "xrun" /\ UNCHANGED ring
    /\ UNCHANGED <<accepted, control, pushed, worker, buffer, threshold, limits>>

Worker ==
    Take \/ Decode \/ Refuse \/ WritePeriod \/ Recover \/ WriteFails \/ Written

PushAny == \E i \in Items : Push(i)

PlaybackNext == Start \/ Stop \/ Join \/ Drained \/ PushAny \/ Worker \/ DevicePlays

PlaybackSpec == PlaybackInit /\ [][PlaybackNext]_playbackVars

(* The worker runs, the card plays, and stop() goes on when it can.        *)
FairPlayback ==
    /\ PlaybackSpec
    /\ WF_playbackVars(Worker) /\ WF_playbackVars(DevicePlays)
    /\ WF_playbackVars(Join) /\ WF_playbackVars(Drained)
-----------------------------------------------------------------------------
(* What the worker waits for is what is queued, and what is queued is not  *)
(* older than the limits allow: the prebuffer test reads a duration that is*)
(* kept apart from the queue by push(), the worker and stop().             *)
QueueIsWithinLimits ==
    /\ playQueue # <<>> => queuedDuration = Duration(playQueue)
    /\ playQueue = <<>> => queuedDuration = 0
    /\ Len(playQueue) <= MaxQueuedItems /\ (queuedDuration <= MaxQueued \/ Len(playQueue) = 1)

(* The worker never decodes or writes with what stop() has closed.         *)
DeviceOutlivesWorker == pc # "off" => device # "closed" /\ owner # "draining"

(* Queue, duration and device are what the worker takes them for.          *)
WorkerIsNotMisled == QueueIsWithinLimits /\ DeviceOutlivesWorker

(* The worker blocks in a write no longer than the device plays, so that   *)
(* stop() returns, whatever depth and start threshold were asked for.      *)
StopReturns == owner = "joining" ~> owner = "idle"

(* As long as something is accepted again and again, it is played again and*)
(* again: neither an XRUN nor a failed decode or write leaves the worker   *)
(* waiting for a prebuffer the queue never reaches.                        *)
AudioFlows == []<><<PushAny>>_playbackVars => []<>(pc \in {"decode", "write"})

(* The worker gets on, with the queue and with a stop.                     *)
WorkerGetsOn == AudioFlows /\ StopReturns
==============================================================================
