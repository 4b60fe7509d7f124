---------------------------- MODULE SocketTracer ----------------------------
(***************************************************************************)
(* The socket-tracer eBPF programs: an entry and a return probe on each    *)
(* socket system call of one process, which pair a call's arguments with   *)
(* its result, keep what is known of each file descriptor in CONN_INFO_MAP *)
(* and send data, open, close and statistics events.                       *)
(*                                                                         *)
(* Threads make the calls and share the descriptors.  A call is an entry   *)
(* probe, the kernel's work and a return probe; a return probe is split    *)
(* where it reads the shared map and later writes it.  ACTIVE_ACCEPT_MAP,  *)
(* ACTIVE_CLOSE_MAP and ACTIVE_SENDFILE_MAP are rewritten by the entry     *)
(* probe of every call that reads them, so the call's own arguments stand  *)
(* for them; ACTIVE_WRITE_MAP, ACTIVE_READ_MAP and ACTIVE_CONNECT_MAP are  *)
(* shared by several calls and are modelled.                               *)
(***************************************************************************)
EXTENDS Integers, FiniteSets

CONSTANTS
  Threads, Fds,
  Calls,      \* the data calls the process makes
  MaxIO,      \* bound: bytes moved by one call
  MaxBytes,   \* bound: bytes moved in each direction on one open file
  MaxOpens,   \* bound: files and sockets opened
  MaxIds,     \* bound: values of gen_tsid
  Threshold,  \* CONN_STATS_DATA_THRESHOLD
  Match,      \* match_trace_tgid of the process
  Control,    \* CONTROL_MAP: the roles whose HTTP data is sent
  Faulty,     \* a probe's read of memory or write of a full map may fail
  Absent      \* no entry

(* The probes of each data call.  map: where the entry probe keeps the        *)
(* arguments; vecs: the data is in iovecs; msghdr: the entry probe reads a     *)
(* message header; mmsg: the byte count comes from that header; needsAddr: the *)
(* return probe fails without an entry of ACTIVE_CONNECT_MAP; filtered: it     *)
(* processes the call only if sock_event is set; leaky: it leaves with `?`     *)
(* before it removes the arguments.                                            *)
Sending ==
  [map |-> "write", vecs |-> FALSE, msghdr |-> FALSE, mmsg |-> FALSE,
   sock_event |-> FALSE, needsAddr |-> FALSE, filtered |-> FALSE, leaky |-> FALSE]
Receiving == [Sending EXCEPT !.map = "read"]

Write    == [Sending EXCEPT !.leaky = TRUE]
Writev   == [Sending EXCEPT !.vecs = TRUE, !.filtered = TRUE, !.leaky = TRUE]
Send     == Sending
Sendto   == [Sending EXCEPT !.needsAddr = TRUE]
Sendmsg  == [Sending EXCEPT !.vecs = TRUE, !.msghdr = TRUE, !.sock_event = TRUE]
Sendmmsg == [Sending EXCEPT !.vecs = TRUE, !.msghdr = TRUE, !.mmsg = TRUE]
Sendfile == [Sending EXCEPT !.map = "sendfile", !.leaky = TRUE]
Read     == [Receiving EXCEPT !.filtered = TRUE]
Readv    == [Receiving EXCEPT !.vecs = TRUE, !.filtered = TRUE]
Recv     == Receiving
Recvfrom == [Receiving EXCEPT !.leaky = TRUE]
Recvmsg  == [Receiving EXCEPT !.vecs = TRUE, !.msghdr = TRUE]
Recvmmsg == [Receiving EXCEPT !.vecs = TRUE, !.msghdr = TRUE, !.mmsg = TRUE]

Probe ==
  [write |-> Write, writev |-> Writev, send |-> Send, sendto |-> Sendto,
   sendmsg |-> Sendmsg, sendmmsg |-> Sendmmsg, sendfile |-> Sendfile,
   read |-> Read, readv |-> Readv, recv |-> Recv, recvfrom |-> Recvfrom,
   recvmsg |-> Recvmsg, recvmmsg |-> Recvmmsg]
DataCalls == DOMAIN Probe
Egress    == {c \in DataCalls : Probe[c].map # "read"}

ASSUME STAssumption ==
  /\ Calls \subseteq DataCalls
  /\ MaxIO \in Nat /\ MaxBytes \in Nat /\ MaxOpens \in Nat /\ MaxIds \in Nat
  /\ Threshold \in Nat \ {0}
  /\ Match \in {"All", "Matched", "Unmatched"}
  /\ Control \subseteq {"unknown", "client", "server"}
  /\ Faulty \in BOOLEAN

VARIABLES
  file,           \* the open file behind each descriptor
  opens,          \* files opened so far
  pc, cur,        \* where each thread is, and its system call
  activeWrite,    \* ACTIVE_WRITE_MAP
  activeRead,     \* ACTIVE_READ_MAP
  activeConnect,  \* ACTIVE_CONNECT_MAP: which threads have an entry
  connInfo,       \* CONN_INFO_MAP
  nextId,         \* the next value of gen_tsid
  out,            \* the events each thread's last return probe sent
  named           \* history: pairs of an open file and an id it was reported under

osVars == <<file, opens>>
argVars == <<activeWrite, activeRead, activeConnect>>
vars == <<file, opens, pc, cur, activeWrite, activeRead, activeConnect,
          connInfo, nextId, out, named>>

\* Calls that fail on a file that is not a socket.
SocketCalls == DataCalls \ {"write", "writev", "read", "readv", "sendfile"}

Closed == [kind |-> "closed", conn |-> 0, role |-> "unknown", w |-> 0, r |-> 0]
\* The next open file.
Opened(kind, role) == [kind |-> kind, conn |-> opens + 1, role |-> role, w |-> 0, r |-> 0]
NoCall ==
  [call |-> "none", fd |-> 0, n |-> 0, msg |-> "unknown", on |-> Closed, tsid |-> 0]
DataArgs(c, fd, len) ==
  [source_function |-> c, fd |-> fd, sock_event |-> Probe[c].sock_event, msg_len |-> len]
ConnInfoDefault(id, role) ==   \* init_conn_info forgotten
  [id |-> 0, role |-> role, protocol |-> "unknown",
   write_bytes |-> 0, read_bytes |-> 0, prev_reported_bytes |-> 0]
ConnInfo(id, role) ==
  [id |-> id, role |-> role, protocol |-> "unknown",
   write_bytes |-> 0, read_bytes |-> 0, prev_reported_bytes |-> 0]

Init ==
  /\ file = [fd \in Fds |-> Closed]
  /\ opens = 0
  /\ pc = [t \in Threads |-> "user"]
  /\ cur = [t \in Threads |-> NoCall]
  /\ activeWrite = [t \in Threads |-> Absent]
  /\ activeRead = [t \in Threads |-> Absent]
  /\ activeConnect = [t \in Threads |-> FALSE]
  /\ connInfo = [fd \in Fds |-> Absent]
  /\ nextId = 1
  /\ out = [t \in Threads |-> {}]
  /\ named = {}

Goto(t, l) == pc' = [pc EXCEPT ![t] = l]
Begin(t, c, fd) ==
  /\ pc[t] = "user" /\ Goto(t, "kernel")
  /\ cur' = [cur EXCEPT ![t] = [NoCall EXCEPT !.call = c, !.fd = fd]]
\* The kernel has done the call: its result, and the open file it worked on.
Done(t, fd, n, msg, on) ==
  /\ Goto(t, "returned")
  /\ cur' = [cur EXCEPT ![t] = [@ EXCEPT !.fd = fd, !.n = n, !.msg = msg, !.on = on]]
\* The events sent for thread t, all under one connection id.
Submit(t, events) ==
  /\ out' = [out EXCEPT ![t] = events]
  /\ named' = named \union {<<cur[t].on.conn, e.id>> : e \in events}

-----------------------------------------------------------------------------
(* The entry probes *)

\* Calls whose probes are not modelled put files and unconnected sockets behind
\* free descriptors.
OpenFile(t, fd) ==
  /\ pc[t] = "user"
  /\ file[fd].kind = "closed"
  /\ opens < MaxOpens /\ opens' = opens + 1
  /\ \E kind \in {"file", "fresh"} :
       file' = [file EXCEPT ![fd] = Opened(kind, "unknown")]
  /\ UNCHANGED <<pc, cur, argVars, connInfo, nextId, out, named>>

InsertKeeping(map, t, args) ==   \* as with BPF_NOEXIST
  IF map[t] = Absent THEN [map EXCEPT ![t] = args] ELSE map
\* The insertion of an entry probe: with flag 0 it replaces an old entry.
Insert(map, t, args) == [map EXCEPT ![t] = args]

Enter(t) ==
  \E c \in Calls, fd \in Fds :
    /\ file[fd].kind # "closed"
    /\ Begin(t, c, fd)
    /\ \E addr \in BOOLEAN, len \in 0 .. MaxIO :
         /\ len # 0 => Probe[c].mmsg
         /\ \/ /\ addr => Probe[c].msghdr \/ Probe[c].needsAddr
               /\ activeConnect' = [activeConnect EXCEPT ![t] = @ \/ addr]
               /\ activeWrite' = IF Probe[c].map = "write"
                    THEN Insert(activeWrite, t, DataArgs(c, fd, len)) ELSE activeWrite
               /\ activeRead' = IF Probe[c].map = "read"
                    THEN Insert(activeRead, t, DataArgs(c, fd, len)) ELSE activeRead
            \/ /\ Faulty /\ Probe[c].msghdr   \* the header cannot be read
               /\ ~addr /\ len = 0
               /\ UNCHANGED argVars
    /\ UNCHANGED <<osVars, connInfo, nextId, out, named>>

EnterConnect(t) ==
  \E fd \in Fds :
    /\ file[fd].kind = "fresh"
    /\ Begin(t, "connect", fd)
    /\ activeConnect' = [activeConnect EXCEPT ![t] = TRUE]
    /\ UNCHANGED <<osVars, activeWrite, activeRead, connInfo, nextId, out, named>>

\* try_entry_accept and try_entry_accept4 take nothing from the descriptor.
EnterAccept(t) ==
  /\ opens < MaxOpens
  /\ Begin(t, "accept", 0)
  /\ UNCHANGED <<osVars, argVars, connInfo, nextId, out, named>>

EnterClose(t) ==
  \E fd \in Fds :
    /\ file[fd].kind # "closed"
    /\ Begin(t, "close", fd)
    /\ UNCHANGED <<osVars, argVars, connInfo, nextId, out, named>>

-----------------------------------------------------------------------------
(* The kernel's work *)

\* Both probes of ssendmsg.rs are attached to security_socket_sendmsg, so that
\* sending on a socket marks the thread's write and read arguments.
Marked(map, t) == IF map[t] = Absent THEN map ELSE [map EXCEPT ![t].sock_event = TRUE]

\* A client's requests go out and its responses come in; a server's the other way.
Messages(role, c) ==
  {"unknown"} \union
  IF role = "unknown" THEN {}
  ELSE IF (role = "client") = (c \in Egress) THEN {"request"} ELSE {"response"}

Transfer(t) ==
  /\ pc[t] = "kernel" /\ cur[t].call \in DataCalls
  /\ LET c == cur[t].call
         f == file[cur[t].fd]
         works == f.kind = "sock" \/ (f.kind = "file" /\ c \notin SocketCalls)
     IN \E n \in -1 .. MaxIO : \E msg \in Messages(f.role, c) :
          /\ ~works => n = -1
          /\ n <= 0 => msg = "unknown"
          /\ f.w + n <= MaxBytes /\ f.r + n <= MaxBytes
          /\ Done(t, cur[t].fd, n, msg, f)
          /\ file' = IF n <= 0 THEN file
                     ELSE IF c \in Egress THEN [file EXCEPT ![cur[t].fd].w = @ + n]
                     ELSE [file EXCEPT ![cur[t].fd].r = @ + n]
          /\ IF c \in Egress /\ f.kind \in {"sock", "fresh"}
               THEN /\ activeWrite' = Marked(activeWrite, t)
                    /\ activeRead' = Marked(activeRead, t)
               ELSE UNCHANGED <<activeWrite, activeRead>>
  /\ UNCHANGED <<opens, activeConnect, connInfo, nextId, out, named>>

DoConnect(t) ==
  /\ pc[t] = "kernel" /\ cur[t].call = "connect"
  /\ LET fd == cur[t].fd
         sock == [file[fd] EXCEPT !.kind = "sock", !.role = "client"]
     IN \/ /\ file[fd].kind = "fresh"
           /\ file' = [file EXCEPT ![fd] = sock]
           /\ Done(t, fd, 0, "unknown", sock)
        \/ /\ Done(t, fd, -1, "unknown", file[fd])
           /\ file' = file
  /\ UNCHANGED <<opens, argVars, connInfo, nextId, out, named>>

DoAccept(t) ==
  /\ pc[t] = "kernel" /\ cur[t].call = "accept"
  /\ \/ \E fd \in Fds :
          LET sock == Opened("sock", "server")
          IN /\ file[fd].kind = "closed"
             /\ opens < MaxOpens /\ opens' = opens + 1
             /\ file' = [file EXCEPT ![fd] = sock]
             /\ Done(t, fd, 0, "unknown", sock)
     \/ /\ Done(t, 0, -1, "unknown", Closed)
        /\ UNCHANGED osVars
  /\ UNCHANGED <<argVars, connInfo, nextId, out, named>>

\* close of an open descriptor frees it and returns 0: a socket's close has nothing
\* to flush that could fail.
DoClose(t) ==
  /\ pc[t] = "kernel" /\ cur[t].call = "close"
  /\ LET fd == cur[t].fd
     IN \/ /\ file[fd].kind # "closed"
           /\ file' = [file EXCEPT ![fd] = Closed]
           /\ Done(t, fd, 0, "unknown", file[fd])
        \/ /\ file[fd].kind = "closed"
           /\ Done(t, fd, -1, "unknown", Closed)
           /\ file' = file
  /\ UNCHANGED <<opens, argVars, connInfo, nextId, out, named>>

-----------------------------------------------------------------------------
(* The return probes of the data calls *)

Made(t) == Probe[cur[t].call]
Args(t) ==
  CASE Made(t).map = "write" -> activeWrite[t]
    [] Made(t).map = "read" -> activeRead[t]
    [] Made(t).map = "sendfile" -> DataArgs("sendfile", cur[t].fd, 0)

BytesCount(t) == IF Made(t).mmsg THEN Args(t).msg_len ELSE cur[t].n

\* The probe returns an error before it looks at the data: there are no
\* arguments, or sendto had no address and so no entry to remove.
Bails(t) == Args(t) = Absent \/ (Made(t).needsAddr /\ ~activeConnect[t])

\* Nothing to process: not a socket, no message, another kind of buffer, no
\* bytes, another process.  num_msgs is unsigned, so an error counts as messages.
Skips(t) ==
  \/ Made(t).filtered /\ ~Args(t).sock_event
  \/ Made(t).mmsg /\ cur[t].n = 0
  \/ Made(t).vecs # Probe[Args(t).source_function].vecs
  \/ BytesCount(t) <= 0
  \/ Match = "Unmatched"

RemoveArgs(t) ==
  /\ activeWrite' = IF Made(t).map = "write"
       THEN [activeWrite EXCEPT ![t] = Absent] ELSE activeWrite
  /\ activeRead' = IF Made(t).map = "read"
       THEN [activeRead EXCEPT ![t] = Absent] ELSE activeRead
\* The return probe fails while it processes the data.
FailArgs(t) == IF Made(t).leaky THEN UNCHANGED <<activeWrite, activeRead>> ELSE RemoveArgs(t)

RoleSwapped(call, msg) ==   \* the branches exchanged
  IF (call \in Egress) # (msg = "response") THEN "server" ELSE "client"
\* update_traffic_class: the role that a request or a response tells.
RoleOf(call, msg) ==
  IF (call \in Egress) # (msg = "response") THEN "client" ELSE "server"
update_traffic_class(info, call, msg) ==
  IF msg = "unknown" \/ call = "sendfile" THEN info
  ELSE [info EXCEPT !.protocol = "http",
          !.role = IF @ = "unknown" THEN RoleOf(call, msg) ELSE @]

should_send_data(info) ==
  Match = "Matched" \/ info.protocol = "unknown" \/ info.role \in Control

DataEvent(t, info) ==
  [type |-> "data", id |-> info.id, role |-> info.role, fd |-> Args(t).fd,
   source_function |-> Args(t).source_function,
   position |-> IF cur[t].call \in Egress THEN info.write_bytes ELSE info.read_bytes]
TotalsEvent(type, info) ==
  [type |-> type, id |-> info.id, role |-> info.role,
   write_bytes |-> info.write_bytes, read_bytes |-> info.read_bytes]

\* update_conn_stats, on the return probe's copy of the ConnInfo: the copy is
\* never written back to CONN_INFO_MAP.
Counted(info, call, n) ==
  IF call \in Egress THEN [info EXCEPT !.write_bytes = @ + n]
                     ELSE [info EXCEPT !.read_bytes = @ + n]
StatsEvents(info) ==
  IF info.write_bytes + info.read_bytes >= info.prev_reported_bytes + Threshold
    THEN {TotalsEvent("stats", info)} ELSE {}

\* process_data once it has the ConnInfo, and the removal of the arguments.
Process(t, info) ==
  LET c == update_traffic_class(info, cur[t].call, cur[t].msg)
      data == IF should_send_data(c) THEN {DataEvent(t, c)} ELSE {}
  IN /\ Goto(t, "leave")
     /\ \/ /\ Submit(t, data \union StatsEvents(Counted(c, cur[t].call, BytesCount(t))))
           /\ RemoveArgs(t)
        \/ /\ Faulty /\ cur[t].call # "sendfile"   \* the data cannot be read
           /\ \E events \in SUBSET data : Submit(t, events)
           /\ FailArgs(t)

ReturnData(t) ==
  /\ pc[t] = "returned" /\ cur[t].call \in DataCalls
  /\ activeConnect' = IF Made(t).msghdr \/ Made(t).needsAddr
       THEN [activeConnect EXCEPT ![t] = FALSE] ELSE activeConnect
  /\ \/ /\ Bails(t)
        /\ Goto(t, "leave")
        /\ UNCHANGED <<cur, activeWrite, activeRead, nextId, out, named>>
     \/ /\ ~Bails(t) /\ Skips(t)
        /\ Goto(t, "leave")
        /\ RemoveArgs(t)
        /\ UNCHANGED <<cur, nextId, out, named>>
     \/ /\ ~Bails(t) /\ ~Skips(t) /\ connInfo[Args(t).fd] # Absent
        /\ Process(t, connInfo[Args(t).fd])
        /\ UNCHANGED <<cur, nextId>>
     \/ /\ ~Bails(t) /\ ~Skips(t) /\ connInfo[Args(t).fd] = Absent
        /\ Goto(t, "create")
        /\ nextId <= MaxIds /\ nextId' = nextId + 1
        /\ cur' = [cur EXCEPT ![t].tsid = nextId]
        /\ UNCHANGED <<activeWrite, activeRead, out, named>>
  /\ UNCHANGED <<osVars, connInfo>>

\* get_or_create_conn_info, after it took a tsid and found no entry.
CreateConnInfo(t) ==
  /\ pc[t] = "create"
  /\ \/ LET info == ConnInfo(cur[t].tsid, "unknown")
        IN /\ connInfo' = [connInfo EXCEPT ![Args(t).fd] = info]
           /\ Process(t, info)
     \/ /\ Faulty
        /\ Goto(t, "leave")
        /\ FailArgs(t)
        /\ UNCHANGED <<connInfo, out, named>>
  /\ UNCHANGED <<osVars, cur, activeConnect, nextId>>

-----------------------------------------------------------------------------
(* The return probes of connect, accept and close *)

SubmitOpenUntimed(t, role) ==   \* an id made of the descriptor alone
  /\ nextId <= MaxIds /\ nextId' = nextId + 1
  /\ connInfo' = [connInfo EXCEPT ![cur[t].fd] = ConnInfo(cur[t].fd, role)]
  /\ Submit(t, {TotalsEvent("open", ConnInfo(cur[t].fd, role))})
\* submit_open_event, which fails on an address it cannot parse.
submit_open_event(t, role) ==
  \/ /\ nextId <= MaxIds /\ nextId' = nextId + 1
     /\ connInfo' = [connInfo EXCEPT ![cur[t].fd] = ConnInfo(nextId, role)]
     /\ Submit(t, {TotalsEvent("open", ConnInfo(nextId, role))})
  \/ UNCHANGED <<connInfo, nextId, out, named>>

ReturnConnect(t) ==
  /\ pc[t] = "returned" /\ cur[t].call = "connect"
  /\ Goto(t, "leave")
  /\ activeConnect' = [activeConnect EXCEPT ![t] = FALSE]
  /\ IF Match = "Unmatched" \/ cur[t].n < 0
       THEN UNCHANGED <<connInfo, nextId, out, named>>
       ELSE submit_open_event(t, "client")
  /\ UNCHANGED <<osVars, cur, activeWrite, activeRead>>

ReturnAccept(t) ==
  /\ pc[t] = "returned" /\ cur[t].call = "accept"
  /\ Goto(t, "leave")
  /\ IF Match = "Unmatched" \/ cur[t].n < 0
       THEN UNCHANGED <<connInfo, nextId, out, named>>
       ELSE submit_open_event(t, "server")
  /\ UNCHANGED <<osVars, cur, argVars>>

\* process_syscall_close: the events are sent from the entry ...
ReturnClose(t) ==
  /\ pc[t] = "returned" /\ cur[t].call = "close"
  /\ LET info == connInfo[cur[t].fd]
     IN \/ /\ cur[t].n < 0 \/ Match = "Unmatched" \/ info = Absent
           /\ Goto(t, "leave")
           /\ UNCHANGED <<out, named>>
        \/ /\ cur[t].n >= 0 /\ Match # "Unmatched" /\ info # Absent
           /\ Goto(t, "remove")
           /\ Submit(t, {TotalsEvent("close", info), TotalsEvent("stats", info)})
  /\ UNCHANGED <<osVars, cur, argVars, connInfo, nextId>>

RemoveIfKnown(t) ==   \* removal only of connections whose open was seen
  /\ pc[t] = "remove"
  /\ Goto(t, "leave")
  /\ connInfo' = IF \E e \in out[t] : e.role = "unknown" THEN connInfo
                 ELSE [connInfo EXCEPT ![cur[t].fd] = Absent]
  /\ UNCHANGED <<osVars, cur, argVars, nextId, out, named>>
\* ... and then whatever the map holds for the descriptor is removed.
RemoveConnInfo(t) ==
  /\ pc[t] = "remove"
  /\ Goto(t, "leave")
  /\ connInfo' = [connInfo EXCEPT ![cur[t].fd] = Absent]
  /\ UNCHANGED <<osVars, cur, argVars, nextId, out, named>>

\* The thread goes back to its program.
Leave(t) ==
  /\ pc[t] = "leave" /\ Goto(t, "user")
  /\ cur' = [cur EXCEPT ![t] = NoCall]
  /\ out' = [out EXCEPT ![t] = {}]
  /\ UNCHANGED <<osVars, argVars, connInfo, nextId, named>>

Next ==
  \E t \in Threads :
    \/ \E fd \in Fds : OpenFile(t, fd)
    \/ Enter(t) \/ EnterConnect(t) \/ EnterAccept(t) \/ EnterClose(t)
    \/ Transfer(t) \/ DoConnect(t) \/ DoAccept(t) \/ DoClose(t)
    \/ ReturnData(t) \/ CreateConnInfo(t)
    \/ ReturnConnect(t) \/ ReturnAccept(t) \/ ReturnClose(t) \/ RemoveConnInfo(t) \/ Leave(t)

Spec == Init /\ [][Next]_vars

-----------------------------------------------------------------------------
(* Properties *)

Ids == 1 .. MaxIds
Roles == {"unknown", "client", "server"}
InfoType ==
  [id : Ids, role : Roles, protocol : {"unknown", "http"},
   write_bytes : Nat, read_bytes : Nat, prev_reported_bytes : Nat]
ArgsType ==
  [source_function : DataCalls, fd : Fds, sock_event : BOOLEAN, msg_len : 0 .. MaxIO]

\* Every variable has its type.
TypeOK ==
  /\ opens \in 0 .. MaxOpens
  /\ \A fd \in Fds :
       /\ file[fd].kind \in {"closed", "file", "fresh", "sock"}
       /\ file[fd].conn \in 0 .. opens
       /\ connInfo[fd] \in InfoType \union {Absent}
  /\ nextId \in 1 .. MaxIds + 1
  /\ \A t \in Threads :
       /\ pc[t] \in {"user", "kernel", "returned", "create", "remove", "leave"}
       /\ activeWrite[t] \in ArgsType \union {Absent}
       /\ activeRead[t] \in ArgsType \union {Absent}
       /\ activeConnect[t] \in BOOLEAN
       /\ \A e \in out[t] : e.id \in Ids /\ e.role \in Roles
  /\ named \subseteq (0 .. MaxOpens) \X Ids

Events(t, type) == {e \in out[t] : e.type = type}

\* A return probe reports a call with the arguments its own entry probe stored,
\* although return probes leave arguments behind (sendto without an address, the
\* `?` of write, writev and recvfrom): "The function that triggered the data
\* collection" (socket-tracer-common/src/lib.rs, SocketDataEventInner).
OwnArguments ==
  \A t \in Threads : \A e \in Events(t, "data") :
    e.source_function = cur[t].call /\ e.fd = cur[t].fd

\* An id names one connection and a connection has one id: "The unique
\* identifier of the connection" (ConnInfo::id).
OneIdPerConnection ==
  \A p, q \in named : p[1] = q[1] <=> p[2] = q[2]

\* Between calls no entry outlives its descriptor: ret_close removes what the
\* calls on the descriptor created, so that the next file opened there starts
\* without one.
NoStaleEntry ==
  (\A t \in Threads : pc[t] = "user")
    => \A fd \in Fds : file[fd].kind = "closed" => connInfo[fd] = Absent

\* The role a data or statistics event carries is the process's role on the
\* connection, whether the open was seen or it was inferred from a request or a
\* response (the table in update_traffic_class).
RoleIsRight ==
  \A t \in Threads : \A e \in out[t] :
    e.role # "unknown" => e.role = cur[t].on.role

\* The position of a data event on a connection is the offset of its first byte:
\* "A 0-based position number for this event on the connection, in terms of byte
\* position" (socket-tracer-common/src/lib.rs:169).
PositionIsOffset ==
  \A t \in Threads : \A e \in Events(t, "data") :
    cur[t].on.kind = "sock" =>
      e.position = IF cur[t].call \in Egress THEN cur[t].on.w ELSE cur[t].on.r
=============================================================================
