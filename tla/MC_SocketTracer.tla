-------------------------- MODULE MC_SocketTracer --------------------------
(* Instances of SocketTracer for TLC. *)
EXTENDS SocketTracer, TLC

OneFd == {1}

\* All calls but sendmmsg and recvmmsg, which report data for a call that failed, on
\* an unconnected socket too; and one call for each way a return probe treats its
\* arguments.
SingleCalls == {c \in DataCalls : ~Probe[c].mmsg}
RaceCalls   == {"write", "sendto", "recvmmsg"}

Symmetry == Permutations(Threads)
=============================================================================
