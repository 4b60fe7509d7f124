----------------------------- MODULE DataEvents -----------------------------
(***************************************************************************)
(* How the socket tracer cuts the data of one system call into events:     *)
(* submit_data_event for a buffer, submit_data_event_iovecs for a vector   *)
(* of buffers, and perf_submit_buf, which copies at most MAX_MSG_SIZE      *)
(* bytes into an event.  The loops are bounded for the eBPF verifier.  One *)
(* action is one iteration.                                                *)
(***************************************************************************)
EXTENDS Naturals, Sequences

CONSTANTS
  MaxMsg,      \* MAX_MSG_SIZE
  ChunkLimit,  \* CHUNK_LIMIT
  LoopLimit,   \* LOOP_LIMIT
  HugeSize,    \* 0x7fffffff, above which nothing is copied
  Totals,      \* byte counts the calls return
  Iovecs       \* vectors the calls are given, as the lengths of their buffers

ASSUME DEAssumption ==
  /\ MaxMsg \in Nat \ {0} /\ ChunkLimit \in Nat \ {0}
  /\ LoopLimit \in Nat \ {0} /\ HugeSize \in Nat
  /\ Totals \subseteq Nat \ {0}
  /\ Iovecs \subseteq Seq(Nat)

VARIABLES
  vecs,      \* ProcessDataArgs::vecs
  total,     \* bytes_count
  iov,       \* the lengths of the buffers of iov
  i,         \* the loop counter
  done,      \* bytes_submitted, bytes_sent
  position,  \* event.inner.position
  status,    \* whether the loop runs, has ended or has failed
  events     \* what has been sent

vars == <<vecs, total, iov, i, done, position, status, events>>

Event(start, size, copied) ==
  [start |-> start, msg_size |-> size, msg_buf_size |-> copied, position |-> position]

CopiedUncapped(size) == size
\* perf_submit_buf: how many of size bytes are copied.
Copied(size) ==
  IF size = 0 THEN 0
  ELSE IF size - 1 < MaxMsg THEN size
  ELSE IF size - 1 < HugeSize THEN MaxMsg
  ELSE 0
perf_submit_buf(size) ==
  events' = IF Copied(size) > 0 THEN Append(events, Event(done, size, Copied(size)))
                                ELSE events

Init ==
  /\ vecs \in BOOLEAN
  /\ total \in Totals
  /\ iov \in Iovecs
  /\ i = 0 /\ done = 0 /\ position = 0
  /\ status = "running"
  /\ events = <<>>

-----------------------------------------------------------------------------
ChunkSizeCapped(remaining) == IF remaining > MaxMsg THEN MaxMsg ELSE remaining
ChunkSizeOver(remaining) == IF remaining > MaxMsg THEN MaxMsg + 1 ELSE remaining
\* The size of the next chunk of a buffer.
ChunkSize(remaining) ==
  IF remaining > MaxMsg /\ i # ChunkLimit - 1 THEN MaxMsg ELSE remaining

SubmitChunkCopied ==   \* advances by what was copied
  /\ status = "running" /\ ~vecs
  /\ i < ChunkLimit
  /\ LET size == ChunkSize(total - done)
     IN /\ perf_submit_buf(size)
        /\ done' = done + Copied(size)
  /\ i' = i + 1
  /\ UNCHANGED <<vecs, total, iov, position, status>>
\* An iteration of submit_data_event.
SubmitChunk ==
  /\ status = "running" /\ ~vecs
  /\ i < ChunkLimit
  /\ LET size == ChunkSize(total - done)
     IN /\ perf_submit_buf(size)
        /\ done' = done + size
  /\ i' = i + 1
  /\ UNCHANGED <<vecs, total, iov, position, status>>

IovSizeWhole(len) == len
\* The part of a buffer of a vector that the call used.
IovSize(len) == IF total - done < len THEN total - done ELSE len

SubmitIovecStill ==   \* the position is left where it was
  /\ status = "running" /\ vecs
  /\ i < LoopLimit /\ i < Len(iov) /\ done < total
  /\ LET size == IovSize(iov[i + 1])
     IN /\ perf_submit_buf(size)
        /\ done' = done + size
  /\ i' = i + 1
  /\ UNCHANGED <<vecs, total, iov, position, status>>
\* An iteration of submit_data_event_iovecs.
SubmitIovec ==
  /\ status = "running" /\ vecs
  /\ i < LoopLimit /\ i < Len(iov) /\ done < total
  /\ LET size == IovSize(iov[i + 1])
     IN /\ perf_submit_buf(size)
        /\ done' = done + size
        /\ position' = position + size
  /\ i' = i + 1
  /\ UNCHANGED <<vecs, total, iov, status>>

FinishEarly ==   \* one buffer short of LOOP_LIMIT
  /\ status = "running"
  /\ IF vecs THEN i + 1 >= LoopLimit ELSE i >= ChunkLimit
  /\ status' = "ended"
  /\ UNCHANGED <<vecs, total, iov, i, done, position, events>>
\* The loop ends.
Finish ==
  /\ status = "running"
  /\ IF vecs THEN i >= LoopLimit \/ i >= Len(iov) \/ done >= total ELSE i >= ChunkLimit
  /\ status' = "ended"
  /\ UNCHANGED <<vecs, total, iov, i, done, position, events>>

\* bpf_probe_read_user_buf or bpf_probe_read_kernel fails: the function returns
\* from within the loop.
Fail ==
  /\ status = "running"
  /\ IF vecs THEN i < LoopLimit /\ i < Len(iov) /\ done < total
             ELSE i < ChunkLimit /\ done < total
  /\ status' = "failed"
  /\ UNCHANGED <<vecs, total, iov, i, done, position, events>>

Next == SubmitChunk \/ SubmitIovec \/ Finish \/ Fail

Spec == Init /\ [][Next]_vars

-----------------------------------------------------------------------------
(* Properties *)

\* Every variable has its type.
TypeOK ==
  /\ vecs \in BOOLEAN /\ status \in {"running", "ended", "failed"}
  /\ total \in Nat \ {0} /\ iov \in Seq(Nat)
  /\ i \in Nat /\ done \in Nat /\ position \in Nat
  /\ events \in Seq([start : Nat, msg_size : Nat, msg_buf_size : Nat, position : Nat])

\* buf_size - bytes_submitted and total_size - bytes_sent, which are unsigned,
\* never wrap around.
NeverPastEnd == done <= total

\* The copy never leaves the event's array of MAX_MSG_SIZE bytes, nor reads past
\* the bytes of the call.
CopyInBounds ==
  \A k \in DOMAIN events :
    /\ events[k].msg_buf_size \in 1 .. MaxMsg
    /\ events[k].msg_buf_size <= events[k].msg_size
    /\ events[k].start + events[k].msg_size <= total

\* Without huge chunks the messages follow each other without gap or overlap,
\* from the first byte up to what was submitted.
Tiles ==
  total <= HugeSize =>
    /\ (events = <<>> => done = 0)
    /\ \A k \in DOMAIN events :
         /\ k = 1 => events[k].start = 0
         /\ events[k].start + events[k].msg_size =
              IF k = Len(events) THEN done ELSE events[k + 1].start

\* A buffer is truncated only in the last of CHUNK_LIMIT chunks.
OnlyLastTruncated ==
  ~vecs => \A k \in DOMAIN events :
    events[k].msg_buf_size < events[k].msg_size => k = Len(events) /\ i = ChunkLimit

\* When the loop over a buffer has run to its end, the whole call is submitted.
BufferSubmitted == ~vecs /\ status = "ended" => done = total

\* "The position is for the first byte of this message"
\* (socket-tracer-common/src/lib.rs:170), in events of vectors: event.position
\* is advanced by what was submitted.
VectorPositions ==
  vecs => \A k \in DOMAIN events : events[k].position = events[k].start
=============================================================================
