------------------------- MODULE V4L2CameraSource -------------------------
(***************************************************************************)
(* One V4L2 capture device as src/core/cam/V4L2CameraSource.cpp drives it: *)
(* the stage of the device (enum State) and, per buffer index, the flag    *)
(* DmaBuffer::queued, which says that the driver owns the buffer.          *)
(*                                                                         *)
(* A device is a value, not a variable: CamManager keeps one per camera.   *)
(* A call that talks to the driver may fail; it is described by the set of *)
(* its outcomes, records [ok, src] of the returned bool and the device the *)
(* call leaves behind.                                                     *)
(***************************************************************************)
EXTENDS Naturals

CONSTANT BufferCount      \* the number of buffers the driver granted

ASSUME BufferCountAssumption == BufferCount \in Nat \ {0}

Buffers == 1 .. BufferCount

Stages == {"Closed", "Opened", "Configured", "BufferAllocated", "Streaming"}

Sources == [stage : Stages, queued : SUBSET Buffers]

IsStreaming(src) == src.stage = "Streaming"

(* openDevice() and configure() have succeeded and setupDmaImportBuffers() *)
(* has queued every buffer once: its own ones or, when the driver rejects  *)
(* those, the ones that setupMmapExportBuffers() exports.                  *)
PreparedSource == [stage |-> "BufferAllocated", queued |-> Buffers]

ClosedSource == [stage |-> "Closed", queued |-> {}]

(* start(): every buffer the driver does not own is queued, in index       *)
(* order, then STREAMON. A failing QBUF leaves the buffers before it       *)
(* queued; a failing STREAMON leaves all of them queued.                   *)
Started(src) == [stage |-> "Streaming", queued |-> Buffers]

StartFailures(src) ==
    IF src.stage # "BufferAllocated"
    THEN {src}
    ELSE {[src EXCEPT !.queued = @ \cup 1 .. k] : k \in 0 .. BufferCount}

StartOutcomes(src) ==
    {[ok |-> FALSE, src |-> s] : s \in StartFailures(src)}
        \cup IF src.stage = "BufferAllocated"
             THEN {[ok |-> TRUE, src |-> Started(src)]}
             ELSE {}

(* stop(): STREAMOFF returns every buffer to the application.              *)
Stop(src) ==
    IF IsStreaming(src)
    THEN [stage |-> "BufferAllocated", queued |-> {}]
    ELSE src

(* configure() that finds no format leaves the device open, and            *)
(* setupDmaImportBuffers() that fails leaves it without buffers, whether   *)
(* the fallback has been tried or not.                                     *)
OpenedSource == [stage |-> "Opened", queued |-> {}]
ConfiguredSource == [stage |-> "Configured", queued |-> {}]

(* closeDevice(), openDevice(), configure() and setupDmaImportBuffers() in *)
(* a row: what the failing call leaves, or a prepared device.              *)
ReopenOutcomes ==
    {[ok |-> FALSE, src |-> s] :
         s \in {ClosedSource, OpenedSource, ConfiguredSource}}
        \cup {[ok |-> TRUE, src |-> PreparedSource]}

(* A successful dequeueFrame() hands buffer b to the application.          *)
Dequeue(src, b) == [src EXCEPT !.queued = @ \ {b}]

(* queueBuffer(), through requeueFrame(), refuses a buffer that is already  *)
(* queued and otherwise depends on the driver.                             *)
CanRequeue(src, b) == IsStreaming(src) /\ b \notin src.queued

Requeued(src, b) == [src EXCEPT !.queued = @ \cup {b}]
=============================================================================
