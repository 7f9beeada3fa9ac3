---------------------------- MODULE ImageCapture ----------------------------
(***************************************************************************)
(* How images come from the two cameras to vision: the thread that takes   *)
(* filled buffers from the camera driver (ImageCapture::dequeueThread),    *)
(* and vision's thread, which exchanges the image it has finished with for *)
(* the next one (ImageCapture::requeue).  They hand over under             *)
(* buffer_mutex_, with a flag and a condition variable for each direction. *)
(* NaoCamera keeps the buffer that came last (nextBuf) and the one vision  *)
(* reads (prevBuf); all others are in the driver's queue, and the camera   *)
(* may write to those at any time.                                         *)
(*                                                                         *)
(* Both of the driver's ioctls may fail, and the code only prints it.      *)
(* After a failed dequeue it goes on with what the last one left in its    *)
(* buffer structure; a buffer that could not be queued is forgotten.  A    *)
(* dequeue waits, with the mutex locked, while the driver has no buffer.   *)
(***************************************************************************)
EXTENDS Integers, Sequences, Functions

CONSTANT frameBufferCount

ASSUME CountAssumption == frameBufferCount \in Nat /\ frameBufferCount >= 3

Buffers == 0 .. frameBufferCount - 1
None == -1

Cameras == {"top", "bottom"}

VARIABLES
  mutex,             \* buffer_mutex_: "free", "dequeue", "vision"
  dpc,               \* the dequeue thread
  vpc,               \* vision's thread
  buffer_requeued_,
  buffer_dequeued_,
  queued,            \* per camera: the buffers the driver has, in the order it fills them
  buf,               \* per camera: the structure the driver fills in
  nextBuf,
  prevBuf,
  image,             \* what vision reads (image_->setImgTop, setImgBottom)
  (* history *)
  failed,            \* per camera: the last dequeue failed
  bad,               \* per camera: the dequeue of image failed
  dropped            \* per camera: the buffers forgotten when queueing them failed

vars == <<mutex, dpc, vpc, buffer_requeued_, buffer_dequeued_, queued, buf, nextBuf, prevBuf,
          image, failed, bad, dropped>>
cameraVars == <<queued, buf, nextBuf, prevBuf, image, failed, bad, dropped>>

(* ImageCapture::initVision and NaoCamera::updateBuffers: two buffers have been *)
(* taken, 0 and 1, and the first of them given back; no ioctl has failed yet.   *)
Init ==
  /\ mutex = "free" /\ dpc = "lock" /\ vpc = "lock"
  /\ buffer_requeued_ = TRUE /\ buffer_dequeued_ = FALSE
  /\ buf = [c \in Cameras |-> 1] /\ prevBuf = buf
  /\ queued = [c \in Cameras |-> [i \in 1 .. frameBufferCount - 1 |-> (i + 1) % frameBufferCount]]
  /\ nextBuf = [c \in Cameras |-> None]
  /\ image = [c \in Cameras |-> None]
  /\ failed = [c \in Cameras |-> FALSE] /\ bad = [c \in Cameras |-> FALSE]
  /\ dropped = [c \in Cameras |-> 0]

-----------------------------------------------------------------------------
(* The dequeue thread. *)
DequeueLock ==
  /\ dpc \in {"lock", "notified"} /\ mutex = "free"
  /\ mutex' = "dequeue" /\ dpc' = "test"
  /\ UNCHANGED <<vpc, buffer_requeued_, buffer_dequeued_, cameraVars>>

(* The predicate of dequeue_cv_.wait; waiting releases the mutex. *)
MayDequeue_Always == TRUE
MayDequeue == buffer_requeued_

DequeueWait ==
  /\ dpc = "test"
  /\ IF MayDequeue THEN dpc' = "top" /\ UNCHANGED mutex
                   ELSE dpc' = "waiting" /\ mutex' = "free"
  /\ UNCHANGED <<vpc, buffer_requeued_, buffer_dequeued_, cameraVars>>

(* NaoCamera::dequeueBuffer.  With no buffer in the queue the ioctl waits; it    *)
(* may still fail, for instance when a signal interrupts it.                     *)
Dequeue(c) ==
  \/ /\ queued[c] # <<>>
     /\ queued' = [queued EXCEPT ![c] = Tail(queued[c])]
     /\ buf' = [buf EXCEPT ![c] = Head(queued[c])]
     /\ nextBuf' = [nextBuf EXCEPT ![c] = Head(queued[c])]
     /\ failed' = [failed EXCEPT ![c] = FALSE]
  \/ /\ nextBuf' = [nextBuf EXCEPT ![c] = buf[c]]
     /\ failed' = [failed EXCEPT ![c] = TRUE]
     /\ UNCHANGED <<queued, buf>>

DequeueTop ==
  /\ dpc = "top" /\ dpc' = "bottom"
  /\ Dequeue("top")
  /\ UNCHANGED <<mutex, vpc, buffer_requeued_, buffer_dequeued_, prevBuf, image, bad,
                 dropped>>

DequeueBottom ==
  /\ dpc = "bottom" /\ dpc' = "done"
  /\ Dequeue("bottom")
  /\ UNCHANGED <<mutex, vpc, buffer_requeued_, buffer_dequeued_, prevBuf, image, bad,
                 dropped>>

(* The flags, requeue_cv_.notify_one, and the end of the lock's scope. *)
DequeueDone_Silent ==
  /\ dpc = "done"
  /\ buffer_requeued_' = FALSE /\ buffer_dequeued_' = TRUE
  /\ mutex' = "free" /\ dpc' = "lock"
  /\ UNCHANGED <<vpc, cameraVars>>

DequeueDone ==
  /\ dpc = "done"
  /\ buffer_requeued_' = FALSE /\ buffer_dequeued_' = TRUE
  /\ vpc' = IF vpc = "waiting" THEN "notified" ELSE vpc
  /\ mutex' = "free" /\ dpc' = "lock"
  /\ UNCHANGED cameraVars

-----------------------------------------------------------------------------
(* Vision's thread. *)
RequeueLock ==
  /\ vpc \in {"lock", "notified"} /\ mutex = "free"
  /\ mutex' = "vision" /\ vpc' = "test"
  /\ UNCHANGED <<dpc, buffer_requeued_, buffer_dequeued_, cameraVars>>

MayRequeue == buffer_dequeued_

RequeueWait ==
  /\ vpc = "test"
  /\ IF MayRequeue THEN vpc' = "requeue" /\ UNCHANGED mutex
                   ELSE vpc' = "waiting" /\ mutex' = "free"
  /\ UNCHANGED <<dpc, buffer_requeued_, buffer_dequeued_, cameraVars>>

(* NaoCamera::enqueueBuffer: queueing fails when the driver already has the      *)
(* buffer, and may fail at other times; it then changes nothing.                 *)
Enqueued(q, b) == IF b \in Range(q) THEN q ELSE Append(q, b)

EnqueueBuffer_Next(c, fails) == IF fails THEN queued[c] ELSE Enqueued(queued[c], nextBuf[c])
EnqueueBuffer(c, fails) == IF fails THEN queued[c] ELSE Enqueued(queued[c], prevBuf[c])

(* swapBuffers then overwrites the only place where the buffer was known. *)
Forgets(c, fails) == fails /\ prevBuf[c] \notin Range(queued[c]) /\ prevBuf[c] # nextBuf[c]

(* The rest of ImageCapture::requeue; NaoCamera::getImage, swapBuffers. *)
Requeue ==
  /\ vpc = "requeue"
  /\ image' = nextBuf
  /\ \E fails \in SUBSET Cameras :
       /\ queued' = [c \in Cameras |-> EnqueueBuffer(c, c \in fails)]
       /\ dropped' = [c \in Cameras |-> IF Forgets(c, c \in fails) THEN dropped[c] + 1
                                                                  ELSE dropped[c]]
  /\ prevBuf' = nextBuf
  /\ nextBuf' = [c \in Cameras |-> None]
  /\ bad' = failed
  /\ buffer_dequeued_' = FALSE /\ buffer_requeued_' = TRUE
  /\ dpc' = IF dpc = "waiting" THEN "notified" ELSE dpc
  /\ mutex' = "free" /\ vpc' = "frame"
  /\ UNCHANGED <<buf, failed>>

(* The frame vision processes between two exchanges. *)
ProcessFrame ==
  /\ vpc = "frame"
  /\ vpc' = "lock"
  /\ UNCHANGED <<mutex, dpc, buffer_requeued_, buffer_dequeued_, cameraVars>>

-----------------------------------------------------------------------------
(* A condition variable may wake its waiter without a notification. *)
SpuriousWakeup ==
  /\ \/ dpc = "waiting" /\ dpc' = "notified" /\ UNCHANGED vpc
     \/ vpc = "waiting" /\ vpc' = "notified" /\ UNCHANGED dpc
  /\ UNCHANGED <<mutex, buffer_requeued_, buffer_dequeued_, cameraVars>>

DequeueThread == DequeueLock \/ DequeueWait \/ DequeueTop \/ DequeueBottom \/ DequeueDone
VisionThread == RequeueLock \/ RequeueWait \/ Requeue \/ ProcessFrame

Next == DequeueThread \/ VisionThread \/ SpuriousWakeup

Spec == Init /\ [][Next]_vars

(* Both threads run on, the camera fills the buffers it has, and whoever keeps   *)
(* finding the mutex free gets it.  Nothing is assumed of spurious wakeups, and  *)
(* nothing ends the wait for a camera that has no buffer.                        *)
FairSpec ==
  /\ Spec
  /\ WF_vars(\/ DequeueWait \/ DequeueDone
             \/ queued["top"] # <<>> /\ DequeueTop
             \/ queued["bottom"] # <<>> /\ DequeueBottom)
  /\ WF_vars(RequeueWait \/ Requeue \/ ProcessFrame)
  /\ SF_vars(DequeueLock) /\ SF_vars(RequeueLock)

-----------------------------------------------------------------------------
(* Properties. *)

TypeOK ==
  /\ mutex \in {"free", "dequeue", "vision"}
  /\ dpc \in {"lock", "notified", "test", "waiting", "top", "bottom", "done"}
  /\ vpc \in {"lock", "notified", "test", "waiting", "requeue", "frame"}
  /\ buffer_requeued_ \in BOOLEAN /\ buffer_dequeued_ \in BOOLEAN
  /\ queued \in [Cameras -> Seq(Buffers)] /\ \A c \in Cameras : IsInjective(queued[c])
  /\ buf \in [Cameras -> Buffers] /\ prevBuf \in [Cameras -> Buffers]
  /\ nextBuf \in [Cameras -> Buffers \cup {None}] /\ image \in [Cameras -> Buffers \cup {None}]
  /\ bad \in [Cameras -> BOOLEAN] /\ failed \in [Cameras -> BOOLEAN]
  /\ dropped \in [Cameras -> 0 .. frameBufferCount - 1]

(* All buffers of the camera but one have been forgotten. *)
OneLeft(c) == dropped[c] = frameBufferCount - 1

(* The camera does not write into the image vision has, unless the dequeue of   *)
(* that image failed or the camera has no other buffer left.                    *)
ImageNotOverwritten ==
  \A c \in Cameras : image[c] \in Range(queued[c]) => bad[c] \/ OneLeft(c)

(* Vision is given each image once: no image is replaced before vision had it,  *)
(* and getImage never meets an index of -1, which it calls fatal.               *)
EveryImageOnce ==
  [][/\ Requeue => \A c \in Cameras : nextBuf[c] # None
     /\ DequeueTop => nextBuf["top"] = None
     /\ DequeueBottom => nextBuf["bottom"] = None]_vars

(* The buffers the code has and the driver has not. *)
Held(c) ==
  (IF prevBuf[c] \in Range(queued[c]) THEN 0 ELSE 1)
  + (IF nextBuf[c] \in {None, prevBuf[c]} \cup Range(queued[c]) THEN 0 ELSE 1)

(* Failed dequeues cost no buffer, although the same one is then queued twice,   *)
(* and a failed queueing costs just the buffer that was not queued; so whenever  *)
(* the code asks for an image the driver has a buffer to fill, until queueing    *)
(* has failed for all but one of them.                                           *)
DriverHasBuffer ==
  \A c \in Cameras :
    /\ Len(queued[c]) + Held(c) + dropped[c] = frameBufferCount
    /\ nextBuf[c] = None /\ ~OneLeft(c) => queued[c] # <<>>

(* Neither thread waits for ever for the other one's notification: images stop   *)
(* only with a camera that has no buffer left to fill.                           *)
ImagesKeepComing == []<>(vpc = "frame") \/ <>(\E c \in Cameras : OneLeft(c))

(* The strengthenings that make the invariants above inductive: who has the     *)
(* mutex, what the flags say about nextBuf, and where each camera's buffers     *)
(* are.  Either the buffer vision reads is not in the queue, or the dequeue     *)
(* failed and it is the last one of a queue with all buffers that are left, so  *)
(* that it does not come back before the next exchange, as long as there are    *)
(* two.  A camera's last buffer goes to and fro.                                *)
HandoverInv ==
  /\ mutex = "dequeue" <=> dpc \in {"test", "top", "bottom", "done"}
  /\ mutex = "vision" <=> vpc \in {"test", "requeue"}
  /\ buffer_requeued_ # buffer_dequeued_
  /\ dpc \in {"top", "bottom", "done"} => buffer_requeued_
  /\ vpc = "requeue" => buffer_dequeued_
  /\ nextBuf["top"] # None <=> (buffer_dequeued_ \/ dpc \in {"bottom", "done"})
  /\ nextBuf["bottom"] # None <=> (buffer_dequeued_ \/ dpc = "done")

Taken(c) == IF nextBuf[c] # None /\ ~failed[c] THEN 1 ELSE 0

BufferInv(c) ==
  /\ image[c] \in {None, prevBuf[c]}
  /\ nextBuf[c] = None => buf[c] = prevBuf[c]
  /\ nextBuf[c] # None => nextBuf[c] = buf[c]
  /\ nextBuf[c] # None /\ failed[c] => buf[c] = prevBuf[c]
  /\ \/ /\ OneLeft(c) /\ buf[c] = prevBuf[c]
        /\ queued[c] \in {<<>>, <<prevBuf[c]>>}
     \/ /\ ~OneLeft(c)
        /\ nextBuf[c] # None /\ ~failed[c] =>
             buf[c] # prevBuf[c] /\ buf[c] \notin Range(queued[c])
        /\ \/ /\ prevBuf[c] \notin Range(queued[c])
              /\ Len(queued[c]) + Taken(c) = frameBufferCount - 1 - dropped[c]
           \/ /\ bad[c] /\ queued[c] # <<>> /\ queued[c][Len(queued[c])] = prevBuf[c]
              /\ Len(queued[c]) + Taken(c) = frameBufferCount - dropped[c]

CaptureInv == HandoverInv /\ \A c \in Cameras : BufferInv(c)
=============================================================================
