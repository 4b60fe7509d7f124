--------------------------- MODULE MC_DataEvents ---------------------------
(* Instances of DataEvents for TLC: up to seven bytes, in events of two. *)
EXTENDS DataEvents, SequencesExt

SomeTotals == 1 .. 7
SomeIovecs == UNION {[1 .. n -> 0 .. 3] : n \in 1 .. 4}

\* When submit_data_event_iovecs has run to its end, it has submitted what the
\* first LOOP_LIMIT buffers of the vector hold, up to the bytes the call moved.
VectorSubmitted ==
  vecs /\ status = "ended" =>
    LET used == SubSeq(iov, 1, IF Len(iov) < LoopLimit THEN Len(iov) ELSE LoopLimit)
        held == FoldSeq(+, 0, used)
    IN done = IF held < total THEN held ELSE total
=============================================================================
