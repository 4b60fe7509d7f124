----------------------------- MODULE ConnTracer -----------------------------
(***************************************************************************)
(* The conn-tracer eBPF programs (ebpf/conn-tracer/conn-tracer-ebpf): the  *)
(* kprobe on tcp_data_queue and the tracepoint on inet_sock_set_state,     *)
(* which keep the maps SOCKETS and CONNECTIONS up to date.                 *)
(*                                                                         *)
(* A handler runs with its socket locked and touches CONNECTIONS once, so  *)
(* that it is one action, together with the step of the TCP stack that     *)
(* fires it.  The parts of a ConnectionKey that one connection cannot      *)
(* change (pid, addresses, ports) are its peer; its id tells it from every *)
(* other.  Sockets that are not AF_INET fail parse_sock_data before        *)
(* anything is stored, and are left out.                                   *)
(***************************************************************************)
EXTENDS Naturals, FiniteSets

CONSTANTS
  Socks,     \* addresses of struct sock
  Peers,     \* remote ends
  MaxBytes,  \* bound: bytes_sent of a socket
  MaxIds,    \* bound: ids handed out by get_unique_id
  Capacity,  \* MAX_CONNECTIONS, of either map
  SimOpen,   \* simultaneous opens happen: SYN_RECV of a socket with a peer
  Absent     \* no entry

ASSUME CTAssumption ==
  /\ MaxBytes \in Nat /\ MaxIds \in Nat
  /\ Capacity \in Nat \ {0}
  /\ SimOpen \in BOOLEAN

VARIABLES
  tcp,      \* the TCP stack's view of each socket
  sockets,  \* SOCKETS: what is known of each socket
  conns,    \* CONNECTIONS: the entry of each id
  nextId,   \* the next value of get_unique_id
  sent,     \* history: bytes sent to each peer
  closed    \* history: bytes sent to each peer by the connections that closed

tracerVars == <<tcp, sockets, conns, nextId, sent, closed>>

Ids   == 1 .. MaxIds
Roles == {"client", "server", "unknown"}

Idle     == [phase |-> "closed", peer |-> Absent, role |-> "unknown", bytes |-> 0]
Info(id, role) == [id |-> id, role |-> role]
Entry(s, role, active) ==
  [peer |-> tcp[s].peer, role |-> role, bytes |-> tcp[s].bytes, active |-> active]

Present(map) == {k \in DOMAIN map : map[k] # Absent}

\* An LRU map after insert: in a full map some other entry makes room.
LruInsert(map, key, value) ==
  IF map[key] = Absent /\ Cardinality(Present(map)) >= Capacity
    THEN {[map EXCEPT ![victim] = Absent, ![key] = value] : victim \in Present(map)}
    ELSE {[map EXCEPT ![key] = value]}

\* get_unique_id: the time in nanoseconds, which no two connections between the
\* same ends share.
TakeId == nextId \in Ids /\ nextId' = nextId + 1

-----------------------------------------------------------------------------

\* connect(): handle_tcp_syn_sent.
SynSent(s, peer) ==
  /\ tcp[s].phase = "closed"
  /\ tcp' = [tcp EXCEPT ![s] =
               [phase |-> "syn", peer |-> peer, role |-> "client", bytes |-> 0]]
  /\ TakeId
  /\ sockets' \in LruInsert(sockets, s, Info(nextId, "client"))
  /\ UNCHANGED <<conns, sent, closed>>

\* A listener's child, cloned before it has a peer: handle_tcp_syn_recv returns
\* at dest_addr == 0.
SynRecv(s, peer) ==
  /\ tcp[s].phase = "closed"
  /\ tcp' = [tcp EXCEPT ![s] =
               [phase |-> "open", peer |-> peer, role |-> "server", bytes |-> 0]]
  /\ TakeId
  /\ sockets' \in LruInsert(sockets, s, Info(nextId, "server"))
  /\ UNCHANGED <<conns, sent, closed>>

\* A simultaneous open: handle_tcp_syn_recv stores an entry, whose is_active is
\* the default 0.
SynRecvCrossed(s) ==
  /\ SimOpen
  /\ tcp[s].phase = "syn"
  /\ tcp' = [tcp EXCEPT ![s].phase = "open"]
  /\ TakeId
  /\ sockets' \in LruInsert(sockets, s, Info(nextId, "server"))
  /\ conns' \in LruInsert(conns, nextId, Entry(s, "server", FALSE))
  /\ UNCHANGED <<sent, closed>>

\* No handler for ESTABLISHED, nor for sending.
Established(s) ==
  /\ tcp[s].phase = "syn"
  /\ tcp' = [tcp EXCEPT ![s].phase = "open"]
  /\ UNCHANGED <<sockets, conns, nextId, sent, closed>>

Send(s) ==
  /\ tcp[s].phase = "open"
  /\ tcp[s].bytes < MaxBytes
  /\ tcp' = [tcp EXCEPT ![s].bytes = @ + 1]
  /\ sent' = [sent EXCEPT ![tcp[s].peer] = @ + 1]
  /\ UNCHANGED <<sockets, conns, nextId, closed>>

\* Mutant: the entry of an unknown socket is stored, the socket is not.
DataQueueForgets(s) ==
  /\ tcp[s].phase = "open"
  /\ \/ /\ sockets[s] # Absent
        /\ conns' \in LruInsert(conns, sockets[s].id, Entry(s, sockets[s].role, TRUE))
        /\ UNCHANGED <<sockets, nextId>>
     \/ /\ sockets[s] = Absent
        /\ TakeId
        /\ conns' \in LruInsert(conns, nextId, Entry(s, tcp[s].role, TRUE))
        /\ UNCHANGED sockets
  /\ UNCHANGED <<tcp, sent, closed>>

\* tcp_data_queue: try_sock_conn_tracer.  Every SockInfo is stored active.  The
\* role of a socket first seen here is read from it by get_sock_role, which may
\* fail.
DataQueue(s) ==
  /\ tcp[s].phase = "open"
  /\ \/ /\ sockets[s] # Absent
        /\ conns' \in LruInsert(conns, sockets[s].id, Entry(s, sockets[s].role, TRUE))
        /\ UNCHANGED <<sockets, nextId>>
     \/ /\ sockets[s] = Absent
        /\ TakeId
        /\ \E role \in {tcp[s].role, "unknown"} :
             /\ sockets' \in LruInsert(sockets, s, Info(nextId, role))
             /\ conns' \in LruInsert(conns, nextId, Entry(s, role, TRUE))
  /\ UNCHANGED <<tcp, sent, closed>>

\* Mutants: the close of a known socket takes a new id; the socket is read after
\* it was cleared.
CloseRenames(s) ==
  /\ tcp[s].phase # "closed"
  /\ TakeId
  /\ sockets' = [sockets EXCEPT ![s] = Absent]
  /\ conns' \in LruInsert(conns, nextId, Entry(s, tcp[s].role, FALSE))
  /\ tcp' = [tcp EXCEPT ![s] = Idle]
  /\ closed' = [closed EXCEPT ![tcp[s].peer] = @ + tcp[s].bytes]
  /\ UNCHANGED sent

CloseReadsLate(s) ==
  /\ tcp[s].phase # "closed" /\ sockets[s] # Absent
  /\ conns' \in LruInsert(conns, sockets[s].id,
                [peer |-> Absent, role |-> sockets[s].role, bytes |-> 0, active |-> FALSE])
  /\ sockets' = [sockets EXCEPT ![s] = Absent]
  /\ tcp' = [tcp EXCEPT ![s] = Idle]
  /\ UNCHANGED <<nextId, sent, closed>>

\* handle_tcp_close: the last word on the connection, stored inactive.
Close(s) ==
  /\ tcp[s].phase # "closed"
  /\ \/ /\ sockets[s] # Absent
        /\ conns' \in LruInsert(conns, sockets[s].id, Entry(s, sockets[s].role, FALSE))
        /\ sockets' = [sockets EXCEPT ![s] = Absent]
        /\ UNCHANGED nextId
     \/ /\ sockets[s] = Absent
        /\ TakeId
        /\ \E role \in {tcp[s].role, "unknown"} :
             conns' \in LruInsert(conns, nextId, Entry(s, role, FALSE))
        /\ UNCHANGED sockets
  /\ tcp' = [tcp EXCEPT ![s] = Idle]
  /\ closed' = [closed EXCEPT ![tcp[s].peer] = @ + tcp[s].bytes]
  /\ UNCHANGED sent

\* Sockets may be open already when the probes are attached.
TracerInit ==
  /\ tcp \in [Socks -> {Idle} \cup
               {[phase |-> "open", peer |-> p, role |-> "client", bytes |-> 0] : p \in Peers}]
  /\ sockets = [s \in Socks |-> Absent]
  /\ conns = [k \in Ids |-> Absent]
  /\ nextId = 1
  /\ sent = [p \in Peers |-> 0]
  /\ closed = [p \in Peers |-> 0]

TracerNext ==
  \E s \in Socks :
    \/ \E peer \in Peers : SynSent(s, peer) \/ SynRecv(s, peer)
    \/ SynRecvCrossed(s) \/ Established(s) \/ Send(s) \/ DataQueue(s) \/ Close(s)

-----------------------------------------------------------------------------

TracerTypeOK ==
  /\ tcp \in [Socks -> [phase : {"closed", "syn", "open"}, peer : Peers \cup {Absent},
                        role : Roles, bytes : 0 .. MaxBytes]]
  /\ sockets \in [Socks -> [id : Ids, role : Roles] \cup {Absent}]
  /\ conns \in [Ids -> [peer : Peers, role : Roles, bytes : 0 .. MaxBytes,
                        active : BOOLEAN] \cup {Absent}]
  /\ nextId \in 1 .. MaxIds + 1

\* A connection that CONNECTIONS shows as active belongs to an open socket that
\* will turn it inactive: as long as SOCKETS does not overflow, no entry stays
\* active after its connection closed (try_sock_conn_tracer, handle_tcp_close).
ActiveHasSocket ==
  \A k \in Ids : conns[k] # Absent /\ conns[k].active =>
    \E s \in Socks : /\ tcp[s].phase = "open" /\ tcp[s].peer = conns[k].peer
                     /\ sockets[s] # Absent /\ sockets[s].id = k
=============================================================================
