------------------------- MODULE DataEvents_proofs -------------------------
(* Proofs about DataEvents, for every MAX_MSG_SIZE, CHUNK_LIMIT, LOOP_LIMIT *)
(* and every byte count and vector.                                         *)
EXTENDS DataEvents, TLAPS

EventType == [start : Nat, msg_size : Nat, msg_buf_size : Nat, position : Nat]

\* What the loops keep: besides the properties, how the position and the end of
\* a buffer relate to the bytes submitted.
IndInv ==
  /\ TypeOK
  /\ NeverPastEnd
  /\ CopyInBounds
  /\ Tiles
  /\ OnlyLastTruncated
  /\ VectorPositions
  /\ vecs => position = done
  /\ ~vecs => i <= ChunkLimit /\ (i = ChunkLimit => done = total)
  /\ BufferSubmitted

\* perf_submit_buf copies a part of the bytes that fits an event, all of them if
\* they fit, and none only if there are none or too many.
LEMMA CopiedBounds ==
  ASSUME NEW size \in Nat
  PROVE  /\ Copied(size) \in Nat
         /\ Copied(size) <= size
         /\ Copied(size) <= MaxMsg
         /\ size <= MaxMsg => Copied(size) = size
         /\ size > 0 /\ size <= HugeSize => Copied(size) > 0
  BY DEAssumption DEF Copied

\* The next piece of a buffer or of a vector is within what remains.
LEMMA SizeBounds ==
  ASSUME NeverPastEnd, TypeOK
  PROVE  /\ ChunkSize(total - done) \in Nat
         /\ done + ChunkSize(total - done) <= total
         /\ ChunkSize(total - done) > MaxMsg => i = ChunkLimit - 1
         /\ i = ChunkLimit - 1 => done + ChunkSize(total - done) = total
         /\ \A len \in Nat : IovSize(len) \in Nat /\ done + IovSize(len) <= total
  BY DEAssumption DEF NeverPastEnd, TypeOK, ChunkSize, IovSize

\* One call of perf_submit_buf for the next size bytes, whatever the loop.
LEMMA PieceKeepsEvents ==
  ASSUME IndInv, NEW size \in Nat,
         perf_submit_buf(size), done' = done + size, done + size <= total,
         UNCHANGED <<vecs, total, iov, status>>
  PROVE  /\ events' \in Seq(EventType)
         /\ CopyInBounds'
         /\ Tiles'
         /\ VectorPositions'
         /\ \A k \in DOMAIN events' :
              \/ k \in DOMAIN events /\ events'[k] = events[k]
              \/ k = Len(events') /\ events'[k] = Event(done, size, Copied(size))
  <1> USE DEAssumption
  <1>1. /\ events \in Seq(EventType) /\ done \in Nat /\ position \in Nat /\ total \in Nat
        /\ vecs \in BOOLEAN
    BY DEF IndInv, TypeOK, EventType
  <1>2. /\ Copied(size) \in Nat /\ Copied(size) <= size /\ Copied(size) <= MaxMsg
        /\ size > 0 /\ size <= HugeSize => Copied(size) > 0
    BY CopiedBounds
  <1>3. CASE Copied(size) = 0
    <2>1. events' = events
      BY <1>3 DEF perf_submit_buf
    <2>2. total <= HugeSize => size = 0
      BY <1>1, <1>2, <1>3
    <2>3. CopyInBounds' /\ VectorPositions'
      BY <2>1 DEF IndInv, CopyInBounds, VectorPositions
    <2>4. Tiles'
      BY <1>1, <2>1, <2>2 DEF IndInv, Tiles
    <2> QED
      BY <1>1, <2>1, <2>3, <2>4
  <1>4. CASE Copied(size) > 0
    <2> DEFINE e == Event(done, size, Copied(size))
    <2>1. events' = Append(events, e)
      BY <1>4 DEF perf_submit_buf
    <2>2. /\ e \in EventType
          /\ e.start = done /\ e.msg_size = size /\ e.msg_buf_size = Copied(size)
          /\ e.position = position
      BY <1>1, <1>2 DEF Event, EventType
    <2> HIDE DEF e
    <2>3. /\ events' \in Seq(EventType)
          /\ Len(events') = Len(events) + 1
          /\ DOMAIN events' = 1 .. Len(events) + 1
          /\ DOMAIN events = 1 .. Len(events)
          /\ Len(events) \in Nat
          /\ events'[Len(events) + 1] = e
          /\ \A k \in DOMAIN events : events'[k] = events[k]
      BY <1>1, <2>1, <2>2
    <2>4. CopyInBounds'
      BY <1>1, <1>2, <1>4, <2>2, <2>3 DEF IndInv, CopyInBounds
    <2>5. VectorPositions'
      BY <1>1, <2>2, <2>3 DEF IndInv, VectorPositions
    <2>6. ASSUME total <= HugeSize, NEW k \in DOMAIN events'
          PROVE  /\ k = 1 => events'[k].start = 0
                 /\ events'[k].start + events'[k].msg_size =
                      IF k = Len(events') THEN done' ELSE events'[k + 1].start
      <3>1. CASE k = Len(events) + 1
        <4>1. Len(events) = 0 => done = 0
          BY <1>1, <2>6 DEF IndInv, Tiles
        <4> QED
          BY <1>1, <2>2, <2>3, <3>1, <4>1
      <3>2. CASE k = Len(events)
        <4>0. k \in 1 .. Len(events) + 1
          BY <2>3, <2>6
        <4>a. k \in DOMAIN events
          BY <2>3, <3>2, <4>0
        <4>b. events'[k] = events[k]
          BY <2>3, <4>a, Zenon
        <4>c. k # Len(events')
          <5> DEFINE n == Len(events)
                     m == Len(events')
          <5>1. n \in Nat /\ m = n + 1 /\ k = n
            BY <2>3, <3>2
          <5> HIDE DEF n, m
          <5>2. k # m
            BY <5>1
          <5> QED
            BY <5>2 DEF m
        <4>1. k \in DOMAIN events /\ events'[k] = events[k] /\ k # Len(events')
          BY <4>a, <4>b, <4>c
        <4>2. /\ k = 1 => events[k].start = 0
              /\ events[k].start + events[k].msg_size = done
          BY <2>6, <3>2, <4>1 DEF IndInv, Tiles
        <4>3. events'[k + 1].start = done
          BY <2>2, <2>3, <3>2
        <4> QED
          BY <4>1, <4>2, <4>3
      <3>3. CASE k < Len(events)
        BY <1>1, <2>2, <2>3, <2>6, <3>3 DEF IndInv, Tiles
      <3> QED
        BY <2>3, <3>1, <3>2, <3>3
    <2>7. Tiles'
      BY <2>3, <2>6 DEF Tiles
    <2> QED
      BY <2>3, <2>4, <2>5, <2>7 DEF e
  <1> QED
    BY <1>2, <1>3, <1>4

\* Every state of a loop satisfies IndInv.
THEOREM Invariance == Spec => []IndInv
  <1> USE DEAssumption
  <1>1. Init => IndInv
    BY DEF Init, IndInv, TypeOK, NeverPastEnd, CopyInBounds, Tiles, OnlyLastTruncated,
           VectorPositions, BufferSubmitted
  <1>2. IndInv /\ [Next]_vars => IndInv'
    <2> SUFFICES ASSUME IndInv, [Next]_vars PROVE IndInv'
      OBVIOUS
    <2>0. TypeOK /\ NeverPastEnd
      BY DEF IndInv
    <2>1. CASE SubmitChunk
      <3> DEFINE size == ChunkSize(total - done)
      <3>1. /\ size \in Nat /\ done + size <= total
            /\ size > MaxMsg => i = ChunkLimit - 1
            /\ i = ChunkLimit - 1 => done + size = total
        BY <2>0, SizeBounds
      <3>2. /\ perf_submit_buf(size) /\ done' = done + size
            /\ UNCHANGED <<vecs, total, iov, position, status>>
            /\ i' = i + 1 /\ i < ChunkLimit /\ ~vecs /\ status = "running"
        BY <2>1 DEF SubmitChunk
      <3> HIDE DEF size
      <3>3. /\ events' \in Seq(EventType) /\ CopyInBounds' /\ Tiles' /\ VectorPositions'
            /\ \A k \in DOMAIN events' :
                 \/ k \in DOMAIN events /\ events'[k] = events[k]
                 \/ k = Len(events') /\ events'[k] = Event(done, size, Copied(size))
        BY <3>1, <3>2, PieceKeepsEvents
      <3>4. TypeOK' /\ NeverPastEnd'
        BY <2>0, <3>1, <3>2, <3>3 DEF TypeOK, NeverPastEnd, EventType
      <3>5. OnlyLastTruncated'
        <4> SUFFICES ASSUME NEW k \in DOMAIN events',
                            events'[k].msg_buf_size < events'[k].msg_size
                     PROVE  k = Len(events') /\ i' = ChunkLimit
          BY DEF OnlyLastTruncated
        <4>1. ASSUME k \in DOMAIN events, events'[k] = events[k] PROVE FALSE
          <5>1. events[k].msg_buf_size < events[k].msg_size
            BY <4>1
          <5>2. i = ChunkLimit
            BY <3>2, <4>1, <5>1 DEF IndInv, OnlyLastTruncated
          <5> QED
            BY <2>0, <3>2, <5>2 DEF TypeOK
        <4>2. k = Len(events') /\ events'[k] = Event(done, size, Copied(size))
          BY <3>3, <4>1
        <4>3. Copied(size) < size
          BY <4>2 DEF Event
        <4>4. size > MaxMsg
          BY <3>1, <4>3, CopiedBounds
        <4> QED
          BY <2>0, <3>1, <3>2, <4>2, <4>4 DEF TypeOK
      <3>6. i' <= ChunkLimit /\ (i' = ChunkLimit => done' = total')
        BY <2>0, <3>1, <3>2 DEF TypeOK
      <3> QED
        BY <3>2, <3>3, <3>4, <3>5, <3>6 DEF IndInv, BufferSubmitted
    <2>2. CASE SubmitIovec
      <3> DEFINE size == IovSize(iov[i + 1])
      <3>1. size \in Nat /\ done + size <= total
        <4>1. iov[i + 1] \in Nat
          BY <2>0, <2>2 DEF SubmitIovec, TypeOK
        <4> QED
          BY <2>0, <4>1, SizeBounds
      <3>2. /\ perf_submit_buf(size) /\ done' = done + size /\ position' = position + size
            /\ UNCHANGED <<vecs, total, iov, status>>
            /\ i' = i + 1 /\ vecs
        BY <2>2 DEF SubmitIovec
      <3> HIDE DEF size
      <3>3. events' \in Seq(EventType) /\ CopyInBounds' /\ Tiles' /\ VectorPositions'
        BY <3>1, <3>2, PieceKeepsEvents
      <3>4. TypeOK' /\ NeverPastEnd'
        BY <2>0, <3>1, <3>2, <3>3 DEF TypeOK, NeverPastEnd, EventType
      <3> QED
        BY <2>0, <3>1, <3>2, <3>3, <3>4
           DEF IndInv, OnlyLastTruncated, BufferSubmitted, TypeOK
    <2>3. CASE Finish
      <3>1. UNCHANGED <<vecs, total, iov, i, done, position, events>> /\ status' = "ended"
        BY <2>3 DEF Finish
      <3>2. ~vecs => done = total
        BY <2>0, <2>3 DEF Finish, IndInv, TypeOK
      <3> QED
        BY <2>0, <3>1, <3>2 DEF IndInv, TypeOK, NeverPastEnd, CopyInBounds, Tiles,
           OnlyLastTruncated, VectorPositions, BufferSubmitted
    <2>4. CASE Fail
      <3>1. UNCHANGED <<vecs, total, iov, i, done, position, events>> /\ status' = "failed"
        BY <2>4 DEF Fail
      <3> QED
        BY <2>0, <3>1 DEF IndInv, TypeOK, NeverPastEnd, CopyInBounds, Tiles,
           OnlyLastTruncated, VectorPositions, BufferSubmitted
    <2>5. CASE UNCHANGED vars
      BY <2>0, <2>5 DEF vars, IndInv, TypeOK, NeverPastEnd, CopyInBounds, Tiles,
         OnlyLastTruncated, VectorPositions, BufferSubmitted
    <2> QED
      BY <2>1, <2>2, <2>3, <2>4, <2>5 DEF Next
  <1> QED
    BY <1>1, <1>2, PTL DEF Spec

\* The unsigned subtractions of submit_data_event and submit_data_event_iovecs
\* never wrap, and perf_submit_buf stays within the event and the call's bytes.
THEOREM LoopsStayInBounds == Spec => [](NeverPastEnd /\ CopyInBounds)
  <1>1. IndInv => NeverPastEnd /\ CopyInBounds
    BY DEF IndInv
  <1> QED
    BY <1>1, Invariance, PTL

\* The events tile the bytes of the call, truncated only at the very end of a
\* buffer, and a loop over a buffer that ends has submitted all of it.
THEOREM EventsCoverTheCall == Spec => [](Tiles /\ OnlyLastTruncated /\ BufferSubmitted)
  <1>1. IndInv => Tiles /\ OnlyLastTruncated /\ BufferSubmitted
    BY DEF IndInv
  <1> QED
    BY <1>1, Invariance, PTL

\* Events of vectors carry the offset of their first byte.
THEOREM VectorsArePositioned == Spec => []VectorPositions
  <1>1. IndInv => VectorPositions
    BY DEF IndInv
  <1> QED
    BY <1>1, Invariance, PTL
=============================================================================
