----------------------------- MODULE MppDecoder -----------------------------
(***************************************************************************)
(* MppDecoder and the two C decoders under it: rk_mpp_decoder (H264/H265:  *)
(* packets go in, frames come out when the decoder has them, the buffers of*)
(* the frames are the program's) and rk_mpp_decoder_advance (MJPEG: one    *)
(* task with an input and an output buffer). One thread, the decode worker,*)
(* makes all calls; the other actor is the MPP library with its hardware,  *)
(* which is external.                                                      *)
(***************************************************************************)
EXTENDS Naturals, Sequences, SequencesExt, FiniteSets

CONSTANTS Buffers,     \* indices of ext_dma_fds
          Layouts,     \* picture sizes a stream can have
          Outputs,     \* output buffers of the callers of decodeMjpeg
          InputLimit,  \* packets MPP takes before BUFFER_FULL
          Tasks,       \* tasks of the input port
          MaxPackets,  \* packets and pictures to decode, a bound
          MaxInits,    \* calls of init, a bound
          MaxFailures  \* failures of MPP and of the kernel, a bound

ASSUME MppDecoderAssumption ==
    /\ Buffers # {} /\ Layouts # {} /\ "none" \notin Layouts
    /\ InputLimit \in Nat \ {0} /\ Tasks \in Nat \ {0}
    /\ MaxPackets \in Nat /\ MaxInits \in Nat /\ MaxFailures \in Nat

VARIABLES
    current,      \* currentCodec: "stream" or "mjpeg"
    codec,        \* the initialized decoder: "none" or current
    pc,           \* where the call is
    back,         \* where poll_frames() goes back to: "put" or "idle"
    work,         \* the packet or the picture of the call
    answer,       \* what the last call returned
    sent,         \* packets and pictures so far
    callbackOk,   \* the callback took every picture of the call
    fds,          \* ext_dma_fds that are open
    group,        \* buffers committed to the group of MPP
    waiting,      \* MPP waits for INFO_CHANGE_READY
    sized,        \* the layout MPP has its buffers for
    pending,      \* packets MPP has not decoded yet
    ready,        \* frames MPP has for decode_get_frame
    content,      \* the picture in each output buffer
    idle,         \* tasks that can be dequeued from the input port
    jobs,         \* tasks the hardware has
    results,      \* tasks at the output port
    abandoned,    \* a call returned and left its task with the hardware
    initsLeft,    \* what is left of MaxInits
    failuresLeft  \* what is left of MaxFailures

front  == <<current, codec>>
call   == <<pc, back, work, answer, sent, callbackOk>>
memory == <<fds, group, sized>>
stream == <<memory, waiting, pending, ready>>
ports  == <<idle, jobs, results>>
task   == <<content, ports, abandoned>>
bounds == <<initsLeft, failuresLeft>>
vars   == <<front, call, stream, task, bounds>>

Nothing == [id |-> 0, layout |-> "none", output |-> "none"]

Init ==
    /\ current = "mjpeg" /\ codec = "none"
    /\ pc = "idle" /\ back = "idle" /\ work = Nothing
    /\ answer = "none" /\ sent = 0 /\ callbackOk = TRUE
    /\ fds = {} /\ group = {} /\ waiting = FALSE /\ sized = "none"
    /\ pending = <<>> /\ ready = <<>>
    /\ content = [o \in Outputs |-> [of |-> 0, intact |-> TRUE]]
    /\ idle = Tasks /\ jobs = <<>> /\ results = <<>> /\ abandoned = FALSE
    /\ initsLeft = MaxInits /\ failuresLeft = MaxFailures

Fail == failuresLeft > 0 /\ failuresLeft' = failuresLeft - 1
Return(result) == pc' = "idle" /\ work' = Nothing /\ answer' = result
-----------------------------------------------------------------------------
(* rk_mpp_decoder_release_ext_dma_fds().                                   *)
ReleaseExtDmaFds == fds' = {}

(* rk_drm_create_dmabuf_fd() for every buffer of the group.                *)
CreateDmabufFds == fds' = Buffers

(* rk_mpp_decoder_deinit(): MPP is reset and destroyed with what it holds, *)
(* and only then the buffers are closed.                                   *)
ReleaseStream ==
    /\ pending' = <<>> /\ ready' = <<>> /\ waiting' = FALSE /\ sized' = "none"
    /\ group' = {}
    /\ ReleaseExtDmaFds

(* rk_mpp_decoder_advance_deinit(): the reset stops the hardware.          *)
ReleaseTasks ==
    idle' = Tasks /\ jobs' = <<>> /\ results' = <<>> /\ abandoned' = FALSE

(* deinit() releases the decoder there is; the other holds nothing.        *)
Released == ReleaseStream /\ ReleaseTasks

Initialized(c) ==
    /\ initsLeft > 0 /\ initsLeft' = initsLeft - 1
    /\ current' = c /\ codec' = c
    /\ Released

InitFails(c) ==
    /\ initsLeft > 0 /\ initsLeft' = initsLeft - 1
    /\ Fail
    /\ current' = c /\ codec' = "none"
    /\ Released

InitDecoder(c) ==
    /\ pc = "idle" /\ codec # c
    /\ \/ Initialized(c) /\ UNCHANGED failuresLeft
       \/ InitFails(c)
    /\ callbackOk' = TRUE
    /\ UNCHANGED <<pc, back, work, answer, sent, content>>

Deinit ==
    /\ pc = "idle" /\ codec # "none"
    /\ codec' = "none" /\ callbackOk' = TRUE
    /\ Released
    /\ UNCHANGED <<current, pc, back, work, answer, sent, content, bounds>>
-----------------------------------------------------------------------------
(* sendPacket() and decodeMjpeg() initialize a decoder that is not; when   *)
(* that fails the call does.                                               *)
ImplicitInitFails(c) ==
    /\ pc = "idle" /\ codec # c /\ sent < MaxPackets
    /\ c = "stream" => current = "stream"
    /\ InitFails(c)
    /\ sent' = sent + 1 /\ answer' = "failed" /\ callbackOk' = TRUE
    /\ UNCHANGED <<pc, back, work, content>>
-----------------------------------------------------------------------------
(* H264 and H265: mpp_simple.c.                                            *)

SendPacket(l) ==
    /\ pc = "idle" /\ current = "stream" /\ sent < MaxPackets
    /\ IF codec = "stream"
       THEN UNCHANGED <<front, stream, ports, abandoned, initsLeft>>
       ELSE Initialized("stream")
    /\ sent' = sent + 1
    /\ work' = [id |-> sent + 1, layout |-> l, output |-> "none"]
    /\ pc' = "put" /\ callbackOk' = TRUE
    /\ UNCHANGED <<back, answer, content, failuresLeft>>

(* The loop around decode_put_packet(): a full decoder is polled before it *)
(* is tried again, any other error just tried again.                       *)
PutPacket ==
    /\ pc = "put"
    /\ \/ /\ Len(pending) < InputLimit
          /\ pending' = Append(pending, work)
          /\ pc' = "poll" /\ back' = "idle"
          /\ UNCHANGED failuresLeft
       \/ /\ Len(pending) = InputLimit
          /\ pc' = "poll" /\ back' = "put"
          /\ UNCHANGED <<pending, failuresLeft>>
       \/ Fail /\ UNCHANGED <<pc, back, pending>>
    /\ UNCHANGED <<front, work, answer, sent, callbackOk, memory, waiting,
                   ready, task, initsLeft>>

(* poll_frames(): until MPP has no frame. An error ends the call, which    *)
(* fails too if the callback refused a picture.                            *)
NoFrame ==
    /\ pc = "poll"
    /\ \/ /\ ready = <<>>
          /\ IF back = "put" THEN pc' = "put" /\ UNCHANGED <<work, answer>>
             ELSE Return(IF callbackOk THEN "sent" ELSE "failed")
          /\ UNCHANGED failuresLeft
       \/ Fail /\ Return("failed")
    /\ UNCHANGED <<front, back, sent, callbackOk, stream, task, initsLeft>>

(* streamFrameCallback(): the caller takes the picture or refuses it.      *)
StreamFrameCallback == callbackOk' \in {callbackOk, FALSE}

(* A picture: it goes to the callback if it is not marked damaged, and its *)
(* buffer back to the group.                                               *)
TakeFrame ==
    /\ pc = "poll" /\ ready # <<>> /\ Head(ready).kind = "frame"
    /\ ready' = Tail(ready)
    /\ StreamFrameCallback
    /\ UNCHANGED <<front, pc, back, work, answer, sent, memory, waiting,
                   pending, task, bounds>>

(* handle_info_change(): the old buffers go, new ones are made and         *)
(* committed one by one, the group is set and MPP told to go on. A failure *)
(* closes what was made and leaves MPP waiting.                            *)
ChangeInfoAnyway ==
    /\ pc = "poll" /\ ready # <<>> /\ Head(ready).kind = "info"
    /\ ready' = Tail(ready)
    /\ waiting' = FALSE /\ sized' = Head(ready).layout
    /\ group' = Buffers
    /\ \/ fds' = Buffers /\ UNCHANGED failuresLeft
       \/ Fail /\ fds' = {}
    /\ UNCHANGED <<front, call, pending, task, initsLeft>>

ChangeInfo ==
    /\ pc = "poll" /\ ready # <<>> /\ Head(ready).kind = "info"
    /\ ready' = Tail(ready)
    /\ \/ /\ CreateDmabufFds /\ group' = Buffers
          /\ waiting' = FALSE /\ sized' = Head(ready).layout
          /\ UNCHANGED <<pc, work, answer, failuresLeft>>
       \/ /\ Fail /\ Return("failed")
          /\ \/ UNCHANGED <<fds, group>>
             \/ ReleaseExtDmaFds /\ group' \in SUBSET Buffers
             \/ CreateDmabufFds /\ group' = Buffers
          /\ UNCHANGED <<waiting, sized>>
    /\ UNCHANGED <<front, back, sent, callbackOk, pending, task, initsLeft>>

(* MPP: a packet of another size than the last asks for new buffers; a     *)
(* picture needs a buffer that no frame holds.                             *)
FreeBuffers ==
    group \ {ready[i].buffer : i \in {j \in DOMAIN ready : ready[j].kind = "frame"}}

Decode ==
    /\ codec = "stream" /\ pending # <<>> /\ ~waiting
    /\ LET p == Head(pending) IN
       IF p.layout # sized
       THEN /\ ready' = Append(ready, [kind |-> "info", layout |-> p.layout])
            /\ waiting' = TRUE
            /\ UNCHANGED pending
       ELSE \E b \in FreeBuffers :
            /\ ready' = Append(ready, [kind |-> "frame", buffer |-> b])
            /\ pending' = Tail(pending)
            /\ UNCHANGED waiting
    /\ UNCHANGED <<front, call, memory, task, bounds>>
-----------------------------------------------------------------------------
(* MJPEG: decodeMjpeg() and rk_mpp_decoder_advance_do_task(). The decoder  *)
(* is initialized by the first call.                                       *)
DecodeMjpeg(o) ==
    /\ pc = "idle" /\ sent < MaxPackets
    /\ IF codec = "mjpeg"
       THEN UNCHANGED <<front, stream, ports, abandoned, initsLeft>>
       ELSE Initialized("mjpeg")
    /\ sent' = sent + 1
    /\ work' = [id |-> sent + 1, layout |-> "none", output |-> o]
    /\ pc' = "bind"
    /\ IF codec = "mjpeg" THEN UNCHANGED callbackOk ELSE callbackOk' = TRUE
    /\ UNCHANGED <<back, answer, content, failuresLeft>>

(* Buffers, packet and frame are made before a task is asked for.          *)
BindBuffers ==
    /\ pc = "bind"
    /\ \/ pc' = "submit" /\ UNCHANGED <<work, answer, failuresLeft>>
       \/ Fail /\ Return("failed")
    /\ UNCHANGED <<front, back, sent, callbackOk, stream, task, initsLeft>>

(* Input port: wait for a task, bind packet and frame, submit. A task that *)
(* cannot be submitted goes back.                                          *)
Submit ==
    /\ pc = "submit"
    /\ \/ /\ idle > 0 /\ idle' = idle - 1
          /\ jobs' = Append(jobs, work)
          /\ pc' = "result"
          /\ UNCHANGED <<work, answer, failuresLeft>>
       \/ Fail /\ Return("failed") /\ UNCHANGED <<idle, jobs>>
    /\ UNCHANGED <<front, back, sent, callbackOk, stream, content, results,
                   abandoned, initsLeft>>

(* Output port: wait for a result, whichever it is. When that fails the    *)
(* call ends and its task stays with the hardware.                         *)
TakeResultAtOnce ==
    /\ pc = "result"
    /\ \/ results # <<>> /\ results' = Tail(results)
       \/ results = <<>> /\ UNCHANGED results
    /\ pc' = "recycle"
    /\ UNCHANGED <<front, back, work, answer, sent, callbackOk, stream,
                   content, idle, jobs, abandoned, bounds>>

TakeResult ==
    /\ pc = "result"
    /\ \/ /\ results # <<>> /\ results' = Tail(results)
          /\ pc' = "recycle"
          /\ UNCHANGED <<work, answer, abandoned, failuresLeft>>
       \/ /\ results # <<>> /\ results' = Tail(results)
          /\ Fail /\ Return("failed")
          /\ UNCHANGED abandoned
       \/ /\ Fail /\ Return("failed")
          /\ abandoned' = TRUE
          /\ UNCHANGED results
    /\ UNCHANGED <<front, back, sent, callbackOk, stream, content, idle, jobs,
                   initsLeft>>

(* The input task is fetched once more for its packet and given back; if   *)
(* that fails it goes to the output port and the input port never has it.  *)
Recycle ==
    /\ pc = "recycle"
    /\ \/ idle > 0 /\ Return("decoded") /\ UNCHANGED <<idle, failuresLeft>>
       \/ Fail /\ Return("failed") /\ UNCHANGED idle
       \/ idle > 0 /\ Fail /\ Return("failed") /\ idle' = idle - 1
    /\ UNCHANGED <<front, back, sent, callbackOk, stream, content, jobs,
                   results, abandoned, initsLeft>>

(* The hardware: one picture at a time, which it may mark as damaged.      *)
Finish ==
    /\ jobs # <<>>
    /\ \E intact \in BOOLEAN :
          content' = [content EXCEPT ![Head(jobs).output] =
                         [of |-> Head(jobs).id, intact |-> intact]]
    /\ results' = Append(results, Head(jobs).id)
    /\ jobs' = Tail(jobs)
    /\ idle' = idle + 1
    /\ UNCHANGED <<front, call, stream, abandoned, bounds>>
-----------------------------------------------------------------------------
Call == \/ \E c \in {"stream", "mjpeg"} : InitDecoder(c) \/ ImplicitInitFails(c)
        \/ Deinit
        \/ \E l \in Layouts : SendPacket(l)
        \/ \E o \in Outputs : DecodeMjpeg(o)
Worker == \/ PutPacket \/ NoFrame \/ TakeFrame \/ ChangeInfo
          \/ BindBuffers \/ Submit \/ TakeResult \/ Recycle
Mpp == Decode \/ Finish

Next == Call \/ Worker \/ Mpp

Spec == Init /\ [][Next]_vars

(* A call that has begun goes on, and MPP decodes what it can.             *)
Fairness == WF_vars(Worker) /\ WF_vars(Decode) /\ WF_vars(Finish)

FairSpec == Spec /\ Fairness
-----------------------------------------------------------------------------
(* MPP waits for an info change that handle_info_change() gave up on, or a *)
(* task was lost on the way back to its port.                              *)
InfoLost == waiting /\ \A i \in DOMAIN ready : ready[i].kind # "info"
TaskLost == codec = "mjpeg" /\ idle + Len(jobs) < Tasks

(* Memory that MPP writes a picture to has a descriptor that is open: the  *)
(* order of the info change and its failures never leaves the group with   *)
(* buffers that were closed while MPP goes on decoding.                    *)
PicturesHaveMemory ==
    \A i \in DOMAIN ready :
        ready[i].kind = "frame" => ready[i].buffer \in fds \cap group

(* decodeMjpeg() returns true when the output holds the picture of this    *)
(* input, not what an earlier call put there, unless an earlier call gave  *)
(* up waiting and left its task to answer the next.                        *)
ResultIsOwn ==
    [][answer' = "decoded" /\ pc = "recycle" =>
          abandoned \/ content[work.output].of = work.id]_vars

(* A picture the hardware marked as damaged does not reach the display     *)
(* (mpp_simple.c:555); decodeMjpeg() has no eye for the mark.               *)
DamagedIsRefused ==
    [][answer' = "decoded" /\ pc = "recycle" => content[work.output].intact]_vars

(* Worker and MPP never wait for each other: a full decoder is emptied by  *)
(* the thread that wants to fill it. The exceptions are failures the code  *)
(* does not recover from.                                                  *)
CallsReturn == pc # "idle" ~> pc = "idle" \/ InfoLost \/ TaskLost

(* Every call is answered, and with a picture of its own.                  *)
CallsAreAnswered == ResultIsOwn /\ CallsReturn
=============================================================================
