------------------------- MODULE ImageCaptureProofs -------------------------
(***************************************************************************)
(* Proofs about ImageCapture: for every number of buffers from three up,   *)
(* the camera never writes into an image vision reads unless the dequeue   *)
(* of that image failed or no other buffer is left, every image is handed  *)
(* over once, and the driver runs out of buffers only by failed queueing.  *)
(***************************************************************************)
EXTENDS ImageCapture, TLAPS

USE CountAssumption

(* What taking the first element does to a queue without repetitions. *)
LEMMA TailFacts ==
  ASSUME NEW S, NEW q \in Seq(S), IsInjective(q), q # <<>>
  PROVE  /\ Head(q) \in S /\ Tail(q) \in Seq(S)
         /\ Len(Tail(q)) = Len(q) - 1 /\ Len(q) \in Nat
         /\ IsInjective(Tail(q))
         /\ Head(q) \in Range(q) /\ Head(q) \notin Range(Tail(q))
         /\ \A b : b \in Range(q) => b = Head(q) \/ b \in Range(Tail(q))
         /\ \A b : b \in Range(Tail(q)) => b \in Range(q)
         /\ Len(q) > 1 => /\ Tail(q) # <<>>
                          /\ Tail(q)[Len(Tail(q))] = q[Len(q)]
                          /\ Head(q) # q[Len(q)]
<1>1. Head(q) = q[1] /\ Len(q) \in Nat /\ Len(q) >= 1 /\ DOMAIN q = 1..Len(q)
  OBVIOUS
<1>2. Tail(q) \in Seq(S) /\ Len(Tail(q)) = Len(q) - 1 /\ DOMAIN Tail(q) = 1..(Len(q) - 1)
  OBVIOUS
<1>3. \A i \in 1..(Len(q) - 1) : Tail(q)[i] = q[i + 1]
  OBVIOUS
<1>4. \A i, j \in 1..Len(q) : q[i] = q[j] => i = j
  BY <1>1 DEF IsInjective
<1>5. IsInjective(Tail(q))
  <2>1. SUFFICES ASSUME NEW i \in 1..(Len(q) - 1), NEW j \in 1..(Len(q) - 1), Tail(q)[i] = Tail(q)[j]
                 PROVE  i = j
    BY <1>2 DEF IsInjective
  <2>2. i + 1 \in 1..Len(q) /\ j + 1 \in 1..Len(q) /\ q[i + 1] = q[j + 1]
    BY <1>1, <1>3, <2>1
  <2>3. i + 1 = j + 1
    BY <1>4, <2>2
  <2> QED
    BY <2>3
<1>6. Head(q) \notin Range(Tail(q))
  <2>1. SUFFICES ASSUME NEW i \in 1..(Len(q) - 1), Tail(q)[i] = Head(q) PROVE FALSE
    BY <1>2 DEF Range
  <2>2. i + 1 \in 1..Len(q) /\ 1 \in 1..Len(q) /\ q[i + 1] = q[1]
    BY <1>1, <1>3, <2>1
  <2> QED
    BY <1>4, <2>2
<1>7. ASSUME NEW b \in Range(q) PROVE b = Head(q) \/ b \in Range(Tail(q))
  <2>1. PICK i \in 1..Len(q) : b = q[i]
    BY <1>1, <1>7 DEF Range
  <2>2. CASE i = 1
    BY <1>1, <2>1, <2>2
  <2>3. CASE i # 1
    <3>1. i - 1 \in 1..(Len(q) - 1) /\ Tail(q)[i - 1] = q[i]
      BY <1>1, <1>3, <2>3
    <3> QED
      BY <1>2, <2>1, <3>1 DEF Range
  <2> QED
    BY <2>2, <2>3
<1>8. ASSUME NEW b \in Range(Tail(q)) PROVE b \in Range(q)
  <2>1. PICK i \in 1..(Len(q) - 1) : b = Tail(q)[i]
    BY <1>2, <1>8 DEF Range
  <2>2. i + 1 \in DOMAIN q /\ b = q[i + 1]
    BY <1>1, <1>3, <2>1
  <2> QED
    BY <2>2 DEF Range
<1>9. Len(q) > 1 => Tail(q) # <<>> /\ Tail(q)[Len(Tail(q))] = q[Len(q)] /\ Head(q) # q[Len(q)]
  <2>1. SUFFICES ASSUME Len(q) > 1
                 PROVE  Tail(q) # <<>> /\ Tail(q)[Len(Tail(q))] = q[Len(q)] /\ Head(q) # q[Len(q)]
    OBVIOUS
  <2>2. Len(q) - 1 \in 1..(Len(q) - 1) /\ 1 \in 1..Len(q) /\ Len(q) \in 1..Len(q)
    BY <1>1, <2>1
  <2>3. Tail(q)[Len(Tail(q))] = q[Len(q)]
    BY <1>1, <1>2, <1>3, <2>2
  <2>4. Head(q) # q[Len(q)]
    BY <1>1, <1>4, <2>1, <2>2
  <2>5. Tail(q) # <<>>
    <3>1. Len(Tail(q)) # 0 /\ Len(<<>>) = 0
      BY <1>1, <1>2, <2>1
    <3> QED
      BY <3>1
  <2> QED
    BY <2>3, <2>4, <2>5
<1> QED
  BY <1>1, <1>2, <1>5, <1>6, <1>7, <1>8, <1>9 DEF Range

(* What NaoCamera::enqueueBuffer does to it. *)
LEMMA EnqueuedFacts ==
  ASSUME NEW S, NEW q \in Seq(S), IsInjective(q), NEW b \in S
  PROVE  /\ Enqueued(q, b) \in Seq(S)
         /\ IsInjective(Enqueued(q, b))
         /\ \A d : d \in Range(Enqueued(q, b)) <=> d \in Range(q) \/ d = b
         /\ b \in Range(q) => Enqueued(q, b) = q
         /\ b \notin Range(q) => /\ Len(Enqueued(q, b)) = Len(q) + 1
                                 /\ Enqueued(q, b) # <<>>
                                 /\ Enqueued(q, b)[Len(Enqueued(q, b))] = b
<1>1. CASE b \in Range(q)
  BY <1>1 DEF Enqueued
<1>2. CASE b \notin Range(q)
  <2> DEFINE r == Append(q, b)
  <2>1. Enqueued(q, b) = r
    BY <1>2 DEF Enqueued
  <2>2. /\ r \in Seq(S) /\ Len(r) = Len(q) + 1 /\ Len(q) \in Nat
        /\ DOMAIN q = 1..Len(q) /\ DOMAIN r = 1..(Len(q) + 1)
        /\ r[Len(q) + 1] = b
    OBVIOUS
  <2>3. \A i \in 1..Len(q) : r[i] = q[i]
    OBVIOUS
  <2>4. \A i \in 1..Len(q) : q[i] # b
    BY <1>2, <2>2 DEF Range
  <2>5. \A i, j \in 1..Len(q) : q[i] = q[j] => i = j
    BY <2>2 DEF IsInjective
  <2> HIDE DEF r
  <2>6. IsInjective(r)
    <3>1. SUFFICES ASSUME NEW i \in 1..(Len(q) + 1), NEW j \in 1..(Len(q) + 1), r[i] = r[j]
                   PROVE  i = j
      BY <2>2 DEF IsInjective
    <3>2. (i \in 1..Len(q) \/ i = Len(q) + 1) /\ (j \in 1..Len(q) \/ j = Len(q) + 1)
      BY <2>2
    <3> QED
      BY <2>2, <2>3, <2>4, <2>5, <3>1, <3>2
  <2>7. ASSUME NEW d PROVE d \in Range(r) <=> d \in Range(q) \/ d = b
    <3>1. ASSUME d \in Range(r) PROVE d \in Range(q) \/ d = b
      <4>1. PICK i \in 1..(Len(q) + 1) : d = r[i]
        BY <2>2, <3>1 DEF Range
      <4>2. i \in 1..Len(q) \/ i = Len(q) + 1
        BY <2>2
      <4> QED
        BY <2>2, <2>3, <4>1, <4>2 DEF Range
    <3>2. ASSUME d \in Range(q) PROVE d \in Range(r)
      <4>1. PICK i \in 1..Len(q) : d = q[i]
        BY <2>2, <3>2 DEF Range
      <4>2. i \in DOMAIN r /\ d = r[i]
        BY <2>2, <2>3, <4>1
      <4> QED
        BY <4>2 DEF Range
    <3>3. b \in Range(r)
      BY <2>2 DEF Range
    <3> QED
      BY <3>1, <3>2, <3>3
  <2>8. r # <<>>
    BY <2>2
  <2> QED
    BY <1>2, <2>1, <2>2, <2>6, <2>7, <2>8
<1> QED
  BY <1>1, <1>2

-----------------------------------------------------------------------------
CaptureType == TypeOK /\ CaptureInv

LEMMA CaptureInit == Init => CaptureType
<1> SUFFICES ASSUME Init PROVE CaptureType
  OBVIOUS
<1> DEFINE q == [i \in 1 .. frameBufferCount - 1 |-> (i + 1) % frameBufferCount]
<1>1. \A i \in 1 .. frameBufferCount - 1 :
        (i + 1) % frameBufferCount = IF i = frameBufferCount - 1 THEN 0 ELSE i + 1
  OBVIOUS
<1>2. q \in Seq(Buffers) /\ Len(q) = frameBufferCount - 1 /\ DOMAIN q = 1 .. frameBufferCount - 1
  BY <1>1 DEF Buffers
<1>3. \A i \in 1 .. frameBufferCount - 1 : q[i] = IF i = frameBufferCount - 1 THEN 0 ELSE i + 1
  BY <1>1
<1>4. \A c \in Cameras : queued[c] = q /\ buf[c] = 1 /\ prevBuf[c] = 1 /\ nextBuf[c] = None
                          /\ image[c] = None /\ ~failed[c] /\ ~bad[c] /\ dropped[c] = 0
  BY DEF Init
<1>5. queued = [c \in Cameras |-> q]
  BY DEF Init
<1> HIDE DEF q
<1>6. IsInjective(q)
  BY <1>2, <1>3 DEF IsInjective
<1>7. 1 \notin Range(q)
  BY <1>2, <1>3 DEF Range
<1>8. 1 \in Buffers
  BY DEF Buffers
<1>9. TypeOK
  <2>1. queued \in [Cameras -> Seq(Buffers)] /\ \A c \in Cameras : IsInjective(queued[c])
    BY <1>2, <1>4, <1>5, <1>6
  <2> QED
    <3>1. dropped \in [Cameras -> 0 .. frameBufferCount - 1]
      BY DEF Init
    <3> QED
      BY <1>8, <2>1, <3>1, Zenon DEF Init, TypeOK
<1>10. ASSUME NEW c \in Cameras PROVE BufferInv(c)
  <2>1. queued[c] = q /\ prevBuf[c] = 1 /\ buf[c] = 1 /\ nextBuf[c] = None /\ image[c] = None
        /\ dropped[c] = 0
    BY <1>4, <1>10
  <2>2. Taken(c) = 0
    BY <2>1 DEF Taken
  <2>3. prevBuf[c] \notin Range(queued[c])
        /\ Len(queued[c]) + Taken(c) = frameBufferCount - 1 - dropped[c]
    <3>1. prevBuf[c] \notin Range(queued[c])
      BY <1>7, <2>1
    <3>2. Len(queued[c]) = frameBufferCount - 1
      BY <1>2, <2>1
    <3> QED
      BY <2>1, <2>2, <3>1, <3>2
  <2>4. ~OneLeft(c)
    BY <2>1 DEF OneLeft
  <2> QED
    BY <2>1, <2>3, <2>4 DEF BufferInv
<1>11. HandoverInv
  BY DEF Init, HandoverInv, Cameras
<1> QED
  BY <1>9, <1>10, <1>11 DEF CaptureType, CaptureInv

(* A dequeue of one camera, successful or not: where its buffers are then. *)
LEMMA DequeueKeeps ==
  ASSUME CaptureType, NEW c \in Cameras, nextBuf[c] = None, Dequeue(c),
         UNCHANGED <<prevBuf, image, bad, dropped>>
  PROVE  /\ queued' \in [Cameras -> Seq(Buffers)] /\ \A d \in Cameras : IsInjective(queued[d])'
         /\ buf' \in [Cameras -> Buffers] /\ nextBuf' \in [Cameras -> Buffers \cup {None}]
         /\ failed' \in [Cameras -> BOOLEAN]
         /\ nextBuf'[c] # None /\ \A d \in Cameras \ {c} : nextBuf'[d] = nextBuf[d]
         /\ \A d \in Cameras : BufferInv(d)'
<1> USE DEF CaptureType, CaptureInv
<1>0. None \notin Buffers
  BY DEF None, Buffers
<1>1. ASSUME NEW d \in Cameras, d # c PROVE BufferInv(d)' /\ nextBuf'[d] = nextBuf[d]
  <2>1. /\ queued'[d] = queued[d] /\ buf'[d] = buf[d] /\ nextBuf'[d] = nextBuf[d]
        /\ failed'[d] = failed[d]
    BY <1>1 DEF Dequeue, TypeOK
  <2>2. Taken(d)' = Taken(d) /\ (OneLeft(d)' <=> OneLeft(d))
    BY <2>1 DEF Taken, OneLeft
  <2> QED
    BY <1>1, <2>1, <2>2 DEF BufferInv
<1>2. CASE queued[c] # <<>> /\ failed' = [failed EXCEPT ![c] = FALSE]
           /\ queued' = [queued EXCEPT ![c] = Tail(queued[c])]
           /\ buf' = [buf EXCEPT ![c] = Head(queued[c])]
           /\ nextBuf' = [nextBuf EXCEPT ![c] = Head(queued[c])]
  <2> DEFINE q == queued[c]
  <2>1. q \in Seq(Buffers) /\ IsInjective(q) /\ q # <<>>
    BY <1>2 DEF TypeOK
  <2>2. queued'[c] = Tail(q) /\ buf'[c] = Head(q) /\ nextBuf'[c] = Head(q) /\ ~failed'[c]
    BY <1>2 DEF TypeOK
  <2> HIDE DEF q
  <2>3. /\ Head(q) \in Buffers /\ Tail(q) \in Seq(Buffers) /\ IsInjective(Tail(q))
        /\ Len(Tail(q)) = Len(q) - 1 /\ Len(q) \in Nat
        /\ Head(q) \in Range(q) /\ Head(q) \notin Range(Tail(q))
        /\ \A b : b \in Range(Tail(q)) => b \in Range(q)
        /\ Len(q) > 1 => Tail(q) # <<>> /\ Tail(q)[Len(Tail(q))] = q[Len(q)] /\ Head(q) # q[Len(q)]
    BY <2>1, TailFacts, Zenon
  <2>4. Taken(c) = 0 /\ Taken(c)' = 1
    BY <1>0, <2>2, <2>3 DEF Taken
  <2>5. BufferInv(c)'
    <3>1. /\ image'[c] \in {None, prevBuf'[c]} /\ nextBuf'[c] # None /\ nextBuf'[c] = buf'[c]
          /\ prevBuf'[c] = prevBuf[c] /\ bad'[c] = bad[c] /\ dropped'[c] = dropped[c]
          /\ (OneLeft(c)' <=> OneLeft(c)) /\ dropped[c] \in 0 .. frameBufferCount - 1
      BY <1>0, <2>2, <2>3 DEF BufferInv, OneLeft, TypeOK
    <3>2. CASE OneLeft(c)
      <4>1. q = <<prevBuf[c]>>
        BY <2>1, <3>2 DEF BufferInv, q
      <4>2. Head(q) = prevBuf[c] /\ Tail(q) = <<>>
        BY <4>1
      <4> QED
        BY <2>2, <3>1, <3>2, <4>2 DEF BufferInv
    <3>3. CASE ~OneLeft(c) /\ prevBuf[c] \notin Range(q)
               /\ Len(q) + Taken(c) = frameBufferCount - 1 - dropped[c]
      <4>1. prevBuf'[c] \notin Range(queued'[c]) /\ buf'[c] \notin Range(queued'[c])
            /\ buf'[c] # prevBuf'[c]
        BY <2>2, <2>3, <3>1, <3>3
      <4>2. Len(queued'[c]) + Taken(c)' = frameBufferCount - 1 - dropped'[c]
        BY <2>2, <2>3, <2>4, <3>1, <3>3
      <4> QED
        BY <2>2, <3>1, <3>3, <4>1, <4>2 DEF BufferInv
    <3>4. CASE ~OneLeft(c) /\ bad[c] /\ q[Len(q)] = prevBuf[c]
               /\ Len(q) + Taken(c) = frameBufferCount - dropped[c]
      <4>1. Len(q) > 1
        BY <2>3, <2>4, <3>1, <3>4 DEF OneLeft
      <4>2. /\ buf'[c] \notin Range(queued'[c]) /\ buf'[c] # prevBuf'[c]
            /\ queued'[c] # <<>> /\ queued'[c][Len(queued'[c])] = prevBuf'[c]
        BY <2>2, <2>3, <3>1, <3>4, <4>1
      <4>3. Len(queued'[c]) + Taken(c)' = frameBufferCount - dropped'[c]
        BY <2>2, <2>3, <2>4, <3>1, <3>4
      <4> QED
        BY <2>2, <3>1, <3>4, <4>2, <4>3 DEF BufferInv
    <3> QED
      BY <3>2, <3>3, <3>4 DEF BufferInv, q
  <2>6. \A d \in Cameras : IsInjective(queued'[d])
    BY <1>2, <2>2, <2>3 DEF TypeOK
  <2>7. queued' \in [Cameras -> Seq(Buffers)] /\ buf' \in [Cameras -> Buffers]
        /\ nextBuf' \in [Cameras -> Buffers \cup {None}] /\ failed' \in [Cameras -> BOOLEAN]
    BY <1>2, <2>3 DEF TypeOK, q
  <2> QED
    BY <1>0, <1>1, <2>2, <2>3, <2>5, <2>6, <2>7
<1>3. CASE failed' = [failed EXCEPT ![c] = TRUE] /\ nextBuf' = [nextBuf EXCEPT ![c] = buf[c]]
           /\ UNCHANGED <<queued, buf>>
  <2>1. buf[c] \in Buffers /\ nextBuf'[c] = buf[c] /\ failed'[c] /\ queued'[c] = queued[c]
        /\ buf'[c] = buf[c]
    BY <1>3 DEF TypeOK
  <2>2. Taken(c) = 0 /\ Taken(c)' = 0 /\ (OneLeft(c)' <=> OneLeft(c))
    BY <2>1 DEF Taken, OneLeft
  <2>3. BufferInv(c)'
    BY <1>0, <2>1, <2>2 DEF BufferInv
  <2>4. buf' \in [Cameras -> Buffers] /\ queued' \in [Cameras -> Seq(Buffers)]
        /\ nextBuf' \in [Cameras -> Buffers \cup {None}] /\ failed' \in [Cameras -> BOOLEAN]
        /\ \A d \in Cameras : IsInjective(queued'[d])
    BY <1>3, <2>1 DEF TypeOK
  <2> QED
    BY <1>0, <1>1, <2>1, <2>3, <2>4
<1> QED
  BY <1>2, <1>3 DEF Dequeue

(* The exchange: the buffer vision has finished with goes back, or is forgotten, *)
(* and the one that came last is vision's.  A failed dequeue is repaired by the  *)
(* next one since what is queued twice was at the end of the queue.              *)
LEMMA RequeueKeeps ==
  ASSUME CaptureType, Requeue, NEW c \in Cameras
  PROVE  /\ queued'[c] \in Seq(Buffers) /\ IsInjective(queued'[c])
         /\ dropped'[c] \in 0 .. frameBufferCount - 1
         /\ BufferInv(c)' /\ nextBuf[c] \in Buffers
<1> DEFINE q == queued[c]
<1> DEFINE b == prevBuf[c]
<1> DEFINE r == queued'[c]
<1>0. None \notin Buffers
  BY DEF None, Buffers
<1>1. /\ q \in Seq(Buffers) /\ IsInjective(q) /\ b \in Buffers /\ Len(q) \in Nat
      /\ dropped[c] \in 0 .. frameBufferCount - 1
  BY DEF CaptureType, TypeOK
<1>2. nextBuf[c] # None /\ nextBuf[c] \in Buffers
  BY DEF CaptureType, CaptureInv, HandoverInv, Requeue, TypeOK, Cameras
<1>3. /\ prevBuf'[c] = nextBuf[c] /\ image'[c] = nextBuf[c]
      /\ nextBuf'[c] = None /\ bad'[c] = failed[c] /\ buf'[c] = buf[c] /\ failed'[c] = failed[c]
  BY DEF Requeue, CaptureType, TypeOK
<1>4. \/ r = Enqueued(q, b) /\ dropped'[c] = dropped[c]
      \/ r = q /\ dropped'[c] = IF b \notin Range(q) /\ b # nextBuf[c] THEN dropped[c] + 1
                                                                     ELSE dropped[c]
  BY DEF Requeue, EnqueueBuffer, Forgets
<1>5. BufferInv(c)
  BY DEF CaptureType, CaptureInv
<1>6. Taken(c)' = 0
  BY <1>3 DEF Taken
<1>7. buf[c] = nextBuf[c]
  BY <1>2, <1>5 DEF BufferInv
<1> HIDE DEF q, b
<1>8. /\ Enqueued(q, b) \in Seq(Buffers) /\ IsInjective(Enqueued(q, b))
      /\ \A d : d \in Range(Enqueued(q, b)) <=> d \in Range(q) \/ d = b
      /\ b \in Range(q) => Enqueued(q, b) = q
      /\ b \notin Range(q) => /\ Len(Enqueued(q, b)) = Len(q) + 1 /\ Enqueued(q, b) # <<>>
                              /\ Enqueued(q, b)[Len(Enqueued(q, b))] = b
  BY <1>1, EnqueuedFacts, Zenon
<1>9. q # <<>> /\ q[Len(q)] = b => b \in Range(q)
  <2>1. q # <<>> => Len(q) \in DOMAIN q
    BY <1>1
  <2> QED
    BY <2>1 DEF Range
<1>10. /\ r \in Seq(Buffers) /\ IsInjective(r)
       /\ \A d : d \in Range(r) => d \in Range(q) \/ d = b
  BY <1>1, <1>4, <1>8
<1>11. \/ b \in Range(q) /\ r = q /\ dropped'[c] = dropped[c]
       \/ b \notin Range(q) /\ b = nextBuf[c] /\ r = q /\ dropped'[c] = dropped[c]
       \/ /\ b \notin Range(q) /\ b # nextBuf[c]
          /\ r = q /\ dropped'[c] = dropped[c] + 1
       \/ /\ b \notin Range(q) /\ dropped'[c] = dropped[c]
          /\ r # <<>> /\ r[Len(r)] = b /\ Len(r) = Len(q) + 1
  BY <1>4, <1>8
<1>12. CASE OneLeft(c)
  <2>1. b = nextBuf[c] /\ q \in {<<>>, <<b>>}
    BY <1>5, <1>7, <1>12 DEF BufferInv, q, b
  <2>2. r \in {<<>>, <<b>>} /\ dropped'[c] = dropped[c]
    <3>1. dropped'[c] = dropped[c]
      BY <1>4, <2>1
    <3>2. r = q \/ (b \notin Range(q) /\ r = Append(q, b))
      BY <1>4 DEF Enqueued
    <3>3. Append(<<>>, b) = <<b>> /\ b \in Range(<<b>>)
      BY DEF Range
    <3>4. CASE q = <<>>
      BY <3>1, <3>2, <3>3, <3>4, Zenon
    <3>5. CASE q = <<b>>
      BY <3>1, <3>2, <3>3, <3>5, Zenon
    <3> QED
      BY <2>1, <3>4, <3>5
  <2>3. OneLeft(c)' /\ BufferInv(c)'
    BY <1>3, <1>7, <1>12, <2>1, <2>2 DEF BufferInv, OneLeft
  <2> QED
    BY <1>1, <1>2, <1>10, <2>2, <2>3
<1>13. CASE ~OneLeft(c) /\ failed[c]
  <2>1. nextBuf[c] = b /\ Taken(c) = 0
    BY <1>2, <1>5, <1>7, <1>13 DEF BufferInv, Taken, b
  <2>2. dropped'[c] = dropped[c] /\ (OneLeft(c)' <=> OneLeft(c))
    BY <1>11, <2>1 DEF OneLeft
  <2>3. ASSUME b \notin Range(q), Len(q) + Taken(c) = frameBufferCount - 1 - dropped[c]
        PROVE  \/ b \notin Range(r) /\ Len(r) = frameBufferCount - 1 - dropped'[c]
               \/ r # <<>> /\ r[Len(r)] = b /\ Len(r) = frameBufferCount - dropped'[c]
    BY <1>1, <1>11, <2>1, <2>2, <2>3, SMTT(30)
  <2>4. ASSUME q # <<>>, q[Len(q)] = b, Len(q) + Taken(c) = frameBufferCount - dropped[c]
        PROVE  r # <<>> /\ r[Len(r)] = b /\ Len(r) = frameBufferCount - dropped'[c]
    BY <1>1, <1>9, <1>11, <2>1, <2>2, <2>4
  <2>5. \/ b \notin Range(r) /\ Len(r) = frameBufferCount - 1 - dropped'[c]
        \/ r # <<>> /\ r[Len(r)] = b /\ Len(r) = frameBufferCount - dropped'[c]
    BY <1>5, <1>13, <2>3, <2>4 DEF BufferInv, q, b
  <2>6. Len(r) + Taken(c)' = Len(r)
    BY <1>6, <1>10
  <2>7. BufferInv(c)'
    BY <1>3, <1>7, <1>13, <2>1, <2>2, <2>5, <2>6 DEF BufferInv
  <2> QED
    BY <1>1, <1>2, <1>10, <2>2, <2>7
<1>14. CASE ~OneLeft(c) /\ ~failed[c]
  <2>1. Taken(c) = 1 /\ nextBuf[c] # b /\ nextBuf[c] \notin Range(q)
    BY <1>2, <1>5, <1>7, <1>14 DEF BufferInv, Taken, q, b
  <2>2. nextBuf[c] \notin Range(r)
    BY <1>10, <2>1
  <2>3. Len(r) = frameBufferCount - 1 - dropped'[c] /\ dropped'[c] \in 0 .. frameBufferCount - 1
    <3>1. CASE b \notin Range(q) /\ Len(q) + Taken(c) = frameBufferCount - 1 - dropped[c]
      BY <1>1, <1>11, <1>14, <2>1, <3>1, SMTT(30) DEF OneLeft
    <3>2. CASE q # <<>> /\ q[Len(q)] = b /\ Len(q) + Taken(c) = frameBufferCount - dropped[c]
      BY <1>1, <1>9, <1>11, <2>1, <3>2
    <3> QED
      BY <1>5, <1>14, <3>1, <3>2 DEF BufferInv, q, b
  <2>4. Len(r) + Taken(c)' = Len(r)
    BY <1>6, <1>10
  <2>5. OneLeft(c)' => r = <<>>
    BY <1>10, <2>3 DEF OneLeft
  <2>6. BufferInv(c)'
    BY <1>3, <1>7, <2>2, <2>3, <2>4, <2>5 DEF BufferInv
  <2> QED
    BY <1>2, <1>10, <2>3, <2>6
<1> QED
  BY <1>12, <1>13, <1>14

(* A step that leaves the cameras alone keeps where the buffers are. *)
LEMMA BuffersUnchanged ==
  ASSUME CaptureType, UNCHANGED cameraVars
  PROVE  /\ \A c \in Cameras : BufferInv(c)'
         /\ queued' \in [Cameras -> Seq(Buffers)] /\ \A c \in Cameras : IsInjective(queued[c])'
         /\ buf' \in [Cameras -> Buffers] /\ prevBuf' \in [Cameras -> Buffers]
         /\ nextBuf' \in [Cameras -> Buffers \cup {None}]
         /\ image' \in [Cameras -> Buffers \cup {None}]
         /\ bad' \in [Cameras -> BOOLEAN] /\ failed' \in [Cameras -> BOOLEAN]
         /\ dropped' \in [Cameras -> 0 .. frameBufferCount - 1]
         /\ nextBuf' = nextBuf
<1> USE DEF cameraVars
<1>1. ASSUME NEW c \in Cameras PROVE BufferInv(c)'
  <2>1. BufferInv(c) /\ Taken(c)' = Taken(c) /\ (OneLeft(c)' <=> OneLeft(c))
    BY <1>1 DEF CaptureType, CaptureInv, Taken, OneLeft
  <2> QED
    BY <2>1 DEF BufferInv
<1> QED
  BY <1>1 DEF CaptureType, TypeOK

LEMMA CaptureStep == CaptureType /\ [Next]_vars => CaptureType'
<1> SUFFICES ASSUME CaptureType, [Next]_vars PROVE CaptureType'
  OBVIOUS
<1> USE DEF CaptureType, CaptureInv
<1>0. None \notin Buffers
  BY DEF None, Buffers
<1>1. CASE DequeueLock
  <2>1. UNCHANGED cameraVars
    BY <1>1 DEF DequeueLock
  <2>2. HandoverInv'
    BY <1>1, <2>1, BuffersUnchanged DEF DequeueLock, HandoverInv, TypeOK
  <2>3. TypeOK'
    BY <1>1, <2>1, BuffersUnchanged DEF DequeueLock, TypeOK
  <2> QED
    BY <2>1, <2>2, <2>3, BuffersUnchanged
<1>2. CASE DequeueWait
  <2>1. UNCHANGED cameraVars
    BY <1>2 DEF DequeueWait
  <2>2. HandoverInv'
    BY <1>2, <2>1, BuffersUnchanged DEF DequeueWait, MayDequeue, HandoverInv, TypeOK
  <2>3. TypeOK'
    BY <1>2, <2>1, BuffersUnchanged DEF DequeueWait, TypeOK
  <2> QED
    BY <2>1, <2>2, <2>3, BuffersUnchanged
<1>3. CASE DequeueTop
  <2>1. "top" \in Cameras /\ nextBuf["top"] = None /\ Dequeue("top")
        /\ UNCHANGED <<prevBuf, image, bad, dropped>>
    BY <1>3 DEF DequeueTop, HandoverInv, Cameras, TypeOK
  <2>2. /\ queued' \in [Cameras -> Seq(Buffers)] /\ \A d \in Cameras : IsInjective(queued[d])'
        /\ buf' \in [Cameras -> Buffers] /\ nextBuf' \in [Cameras -> Buffers \cup {None}]
        /\ failed' \in [Cameras -> BOOLEAN]
        /\ nextBuf'["top"] # None /\ \A d \in Cameras \ {"top"} : nextBuf'[d] = nextBuf[d]
        /\ \A d \in Cameras : BufferInv(d)'
    BY <2>1, DequeueKeeps
  <2>3. nextBuf'["bottom"] = nextBuf["bottom"]
    BY <2>2 DEF Cameras
  <2>4. HandoverInv'
    BY <1>3, <2>2, <2>3 DEF DequeueTop, HandoverInv, TypeOK
  <2>5. TypeOK'
    BY <1>3, <2>2 DEF DequeueTop, TypeOK
  <2> QED
    BY <2>2, <2>4, <2>5
<1>4. CASE DequeueBottom
  <2>1. "bottom" \in Cameras /\ nextBuf["bottom"] = None /\ Dequeue("bottom")
        /\ UNCHANGED <<prevBuf, image, bad, dropped>>
    BY <1>4 DEF DequeueBottom, HandoverInv, Cameras, TypeOK
  <2>2. /\ queued' \in [Cameras -> Seq(Buffers)] /\ \A d \in Cameras : IsInjective(queued[d])'
        /\ buf' \in [Cameras -> Buffers] /\ nextBuf' \in [Cameras -> Buffers \cup {None}]
        /\ failed' \in [Cameras -> BOOLEAN]
        /\ nextBuf'["bottom"] # None /\ \A d \in Cameras \ {"bottom"} : nextBuf'[d] = nextBuf[d]
        /\ \A d \in Cameras : BufferInv(d)'
    BY <2>1, DequeueKeeps
  <2>3. nextBuf'["top"] = nextBuf["top"]
    BY <2>2 DEF Cameras
  <2>4. HandoverInv'
    BY <1>4, <2>2, <2>3 DEF DequeueBottom, HandoverInv, TypeOK
  <2>5. TypeOK'
    BY <1>4, <2>2 DEF DequeueBottom, TypeOK
  <2> QED
    BY <2>2, <2>4, <2>5
<1>5. CASE DequeueDone
  <2>1. UNCHANGED cameraVars
    BY <1>5 DEF DequeueDone
  <2>2. HandoverInv'
    BY <1>5, <2>1, BuffersUnchanged DEF DequeueDone, HandoverInv, TypeOK
  <2>3. TypeOK'
    BY <1>5, <2>1, BuffersUnchanged DEF DequeueDone, TypeOK
  <2> QED
    BY <2>1, <2>2, <2>3, BuffersUnchanged
<1>6. CASE RequeueLock
  <2>1. UNCHANGED cameraVars
    BY <1>6 DEF RequeueLock
  <2>2. HandoverInv'
    BY <1>6, <2>1, BuffersUnchanged DEF RequeueLock, HandoverInv, TypeOK
  <2>3. TypeOK'
    BY <1>6, <2>1, BuffersUnchanged DEF RequeueLock, TypeOK
  <2> QED
    BY <2>1, <2>2, <2>3, BuffersUnchanged
<1>7. CASE RequeueWait
  <2>1. UNCHANGED cameraVars
    BY <1>7 DEF RequeueWait
  <2>2. HandoverInv'
    BY <1>7, <2>1, BuffersUnchanged DEF RequeueWait, MayRequeue, HandoverInv, TypeOK
  <2>3. TypeOK'
    BY <1>7, <2>1, BuffersUnchanged DEF RequeueWait, TypeOK
  <2> QED
    BY <2>1, <2>2, <2>3, BuffersUnchanged
<1>8. CASE Requeue
  <2>1. \A c \in Cameras : /\ queued'[c] \in Seq(Buffers) /\ IsInjective(queued'[c])
                           /\ dropped'[c] \in 0 .. frameBufferCount - 1
                           /\ BufferInv(c)' /\ nextBuf[c] \in Buffers
    BY <1>8, RequeueKeeps
  <2>2. /\ queued' \in [Cameras -> Seq(Buffers)] /\ prevBuf' \in [Cameras -> Buffers]
        /\ dropped' \in [Cameras -> 0 .. frameBufferCount - 1]
    BY <1>8, <2>1 DEF Requeue, TypeOK
  <2>3. /\ image' \in [Cameras -> Buffers \cup {None}]
        /\ nextBuf' \in [Cameras -> Buffers \cup {None}] /\ bad' \in [Cameras -> BOOLEAN]
        /\ nextBuf'["top"] = None /\ nextBuf'["bottom"] = None
    BY <1>8 DEF Requeue, TypeOK, Cameras
  <2>4. HandoverInv'
    BY <1>8, <2>3 DEF Requeue, HandoverInv, TypeOK
  <2>5. TypeOK'
    BY <1>8, <2>1, <2>2, <2>3 DEF Requeue, TypeOK
  <2> QED
    BY <2>1, <2>4, <2>5
<1>9. CASE ProcessFrame
  <2>1. UNCHANGED cameraVars
    BY <1>9 DEF ProcessFrame
  <2>2. HandoverInv'
    BY <1>9, <2>1, BuffersUnchanged DEF ProcessFrame, HandoverInv, TypeOK
  <2>3. TypeOK'
    BY <1>9, <2>1, BuffersUnchanged DEF ProcessFrame, TypeOK
  <2> QED
    BY <2>1, <2>2, <2>3, BuffersUnchanged
<1>10. CASE SpuriousWakeup
  <2>1. UNCHANGED cameraVars
    BY <1>10 DEF SpuriousWakeup
  <2>2. HandoverInv'
    BY <1>10, <2>1, BuffersUnchanged DEF SpuriousWakeup, HandoverInv, TypeOK
  <2>3. TypeOK'
    BY <1>10, <2>1, BuffersUnchanged DEF SpuriousWakeup, TypeOK
  <2> QED
    BY <2>1, <2>2, <2>3, BuffersUnchanged
<1>11. CASE UNCHANGED vars
  <2>1. UNCHANGED cameraVars
    BY <1>11 DEF vars, cameraVars
  <2>2. HandoverInv' /\ TypeOK'
    BY <1>11, <2>1, BuffersUnchanged DEF vars, HandoverInv, TypeOK
  <2> QED
    BY <2>1, <2>2, BuffersUnchanged
<1> QED
  BY <1>1, <1>2, <1>3, <1>4, <1>5, <1>6, <1>7, <1>8, <1>9, <1>10, <1>11
  DEF Next, DequeueThread, VisionThread

LEMMA CaptureInvariant == Spec => []CaptureType
  BY CaptureInit, CaptureStep, PTL DEF Spec

-----------------------------------------------------------------------------
(* Flags, threads, queues and buffers keep their types: in particular no buffer *)
(* is in the driver's queue twice, and vision's old buffer is always one.       *)
THEOREM CaptureTypeCorrect == Spec => []TypeOK
<1>1. CaptureType => TypeOK
  BY DEF CaptureType
<1> QED
  BY <1>1, CaptureInvariant, PTL

(* ImageCapture::requeue never gives the driver the image vision reads, unless  *)
(* the dequeue of that image failed (NaoCamera::dequeueBuffer only prints it)   *)
(* or queueing failed for all other buffers (enqueueBuffer only prints that).   *)
THEOREM ImagesSafe == Spec => []ImageNotOverwritten
<1>1. CaptureType => ImageNotOverwritten
  <2>1. SUFFICES ASSUME CaptureType, NEW c \in Cameras, image[c] \in Range(queued[c])
                 PROVE  bad[c] \/ OneLeft(c)
    BY DEF ImageNotOverwritten
  <2>2. BufferInv(c)
    BY <2>1 DEF CaptureType, CaptureInv
  <2>3. image[c] # None
    <3>1. queued[c] \in Seq(Buffers) /\ DOMAIN queued[c] = 1 .. Len(queued[c])
      BY <2>1 DEF CaptureType, TypeOK
    <3>2. PICK i \in DOMAIN queued[c] : image[c] = queued[c][i]
      BY <2>1 DEF Range
    <3>3. image[c] \in Buffers
      BY <3>1, <3>2
    <3> QED
      BY <3>3 DEF None, Buffers
  <2> QED
    BY <2>1, <2>2, <2>3 DEF BufferInv
<1> QED
  BY <1>1, CaptureInvariant, PTL

(* The two flags of the handover: vision gets a buffer from both cameras at     *)
(* every exchange, and the dequeue thread replaces none before it was taken.    *)
THEOREM HandedOverOnce == Spec => EveryImageOnce
<1>1. CaptureType /\ [Next]_vars =>
        [/\ Requeue => \A c \in Cameras : nextBuf[c] # None
         /\ DequeueTop => nextBuf["top"] = None
         /\ DequeueBottom => nextBuf["bottom"] = None]_vars
  BY DEF CaptureType, CaptureInv, HandoverInv, TypeOK, Cameras, Requeue, DequeueTop, DequeueBottom
<1> QED
  BY <1>1, CaptureInvariant, PTL DEF Spec, EveryImageOnce

-----------------------------------------------------------------------------
(* Dequeues that fail cost the driver no buffer, however many there are and      *)
(* however often a buffer is then queued twice; a failed queueing costs just the *)
(* buffer NaoCamera::swapBuffers forgets.  With two buffers left, the driver has *)
(* one whenever ImageCapture::dequeueThread asks it for an image.                *)
THEOREM NoBufferLost == Spec => []DriverHasBuffer
<1>1. CaptureType => DriverHasBuffer
  <2> SUFFICES ASSUME CaptureType, NEW c \in Cameras
               PROVE  /\ Len(queued[c]) + Held(c) + dropped[c] = frameBufferCount
                      /\ nextBuf[c] = None /\ ~OneLeft(c) => queued[c] # <<>>
    BY DEF DriverHasBuffer
  <2> DEFINE q == queued[c]
  <2> DEFINE b == prevBuf[c]
  <2>1. /\ BufferInv(c) /\ q \in Seq(Buffers) /\ b \in Buffers /\ Len(q) \in Nat
        /\ dropped[c] \in 0 .. frameBufferCount - 1 /\ DOMAIN q = 1 .. Len(q)
    BY DEF CaptureType, CaptureInv, TypeOK
  <2>2. None \notin Range(q)
    <3>1. ASSUME NEW i \in DOMAIN q PROVE q[i] # None
      BY <2>1, <3>1, SMTT(30) DEF None, Buffers
    <3> QED
      BY <3>1 DEF Range
  <2>3. CASE OneLeft(c)
    <3>1. q \in {<<>>, <<b>>} /\ nextBuf[c] \in {None, b}
      BY <2>1, <2>3 DEF BufferInv
    <3>2. Range(<<>>) = {} /\ b \in Range(<<b>>)
      BY DEF Range
    <3>3. Len(<<>>) = 0 /\ Len(<<b>>) = 1
      OBVIOUS
    <3> HIDE DEF q, b
    <3>4. (Len(q) = 0 /\ b \notin Range(q)) \/ (Len(q) = 1 /\ b \in Range(q))
      BY <3>1, <3>2, <3>3, Zenon
    <3>5. Held(c) = IF b \in Range(q) THEN 0 ELSE 1
      BY <3>1 DEF Held, q, b
    <3>6. Len(q) + Held(c) = 1
      BY <3>4, <3>5
    <3>7. Len(q) + Held(c) + dropped[c] = frameBufferCount
      BY <2>3, <3>6, CountAssumption DEF OneLeft
    <3> QED
      BY <2>3, <3>7 DEF q
  <2>4. CASE ~OneLeft(c)
    <3>1. (nextBuf[c] \in {None, b} \cup Range(q)) <=> Taken(c) = 0
      <4>1. CASE nextBuf[c] = None \/ failed[c]
        BY <2>1, <4>1 DEF BufferInv, Taken
      <4>2. CASE nextBuf[c] # None /\ ~failed[c]
        BY <2>1, <2>4, <4>2 DEF BufferInv, Taken
      <4> QED
        BY <4>1, <4>2
    <3>2. Taken(c) \in {0, 1}
      BY DEF Taken
    <3>3. Held(c) = (IF b \in Range(q) THEN 0 ELSE 1) + Taken(c)
      BY <3>1, <3>2 DEF Held
    <3>4. q # <<>> /\ q[Len(q)] = b => b \in Range(q)
      BY <2>1 DEF Range
    <3>5. Len(q) + Held(c) + dropped[c] = frameBufferCount
      BY <2>1, <2>4, <3>2, <3>3, <3>4, SMTT(30) DEF BufferInv
    <3>6. nextBuf[c] = None => Len(q) > 0
      BY <2>1, <2>4, <3>2 DEF BufferInv, Taken, OneLeft
    <3> QED
      BY <2>1, <3>5, <3>6
  <2> QED
    BY <2>3, <2>4
<1> QED
  BY <1>1, CaptureInvariant, PTL
=============================================================================
