------------------------ MODULE SocketTracer_proofs ------------------------
(* Proofs about SocketTracer, for any number of threads and descriptors and *)
(* any set of calls.                                                        *)
EXTENDS SocketTracer, TLAPS

FileType ==
  [kind : {"closed", "file", "fresh", "sock"}, conn : Nat, role : Roles, w : Int, r : Int]
CallType ==
  [call : DataCalls \union {"none", "connect", "accept", "close"}, fd : Fds \union {0},
   n : Int, msg : {"unknown", "request", "response"}, on : FileType, tsid : Nat]

Types ==
  /\ file \in [Fds -> FileType] /\ opens \in Nat /\ nextId \in Nat
  /\ pc \in [Threads -> {"user", "kernel", "returned", "create", "remove", "leave"}]
  /\ cur \in [Threads -> CallType]
  /\ activeWrite \in [Threads -> ArgsType \union {Absent}]
  /\ activeRead \in [Threads -> ArgsType \union {Absent}]
  /\ DOMAIN out = Threads
  /\ \A t \in Threads : cur[t].call \notin {"none", "accept"} => cur[t].fd \in Fds

\* The arguments in map[t] are those of thread t's call.
Of(map, t) == map[t].source_function = cur[t].call /\ map[t].fd = cur[t].fd

\* While a data call is under way, the map its return probe reads holds its own
\* arguments, whatever earlier calls left there.
Pending(t) ==
  /\ pc[t] \in {"kernel", "returned", "create"} /\ cur[t].call \in DataCalls =>
       /\ Probe[cur[t].call].map = "write" => Of(activeWrite, t)
       /\ Probe[cur[t].call].map = "read" => Of(activeRead, t)
  /\ pc[t] = "create" => cur[t].call \in DataCalls

\* A call sends nothing before its return probe, and close sends no data.
Quiet(t) ==
  /\ pc[t] \notin {"leave", "remove"} => out[t] = {}
  /\ pc[t] = "remove" => \A e \in out[t] : e.type # "data"

\* OwnArguments, of one thread.
Own(t) ==
  \A e \in Events(t, "data") : e.source_function = cur[t].call /\ e.fd = cur[t].fd

IndInv == Types /\ \A t \in Threads : Pending(t) /\ Quiet(t) /\ Own(t)

\* What is used of the table of probes.
LEMMA ProbeTypes ==
  ASSUME NEW c \in DataCalls
  PROVE  /\ Probe[c].sock_event \in BOOLEAN
         /\ Probe[c].map \in {"write", "read", "sendfile"}
         /\ Probe[c].map = "sendfile" => c = "sendfile"
         /\ c \notin {"none", "connect", "accept", "close"}
  <1> DEFINE Good(r, m) == r.sock_event \in BOOLEAN /\ r.map = m
  <1>1. Good(Sending, "write") /\ Good(Receiving, "read")
    BY DEF Sending, Receiving
  <1>2. /\ Good(Write, "write") /\ Good(Writev, "write") /\ Good(Send, "write")
        /\ Good(Sendto, "write") /\ Good(Sendmsg, "write") /\ Good(Sendmmsg, "write")
        /\ Good(Sendfile, "sendfile")
    BY DEF Write, Writev, Send, Sendto, Sendmsg, Sendmmsg, Sendfile, Sending
  <1>3. /\ Good(Read, "read") /\ Good(Readv, "read") /\ Good(Recv, "read")
        /\ Good(Recvfrom, "read") /\ Good(Recvmsg, "read") /\ Good(Recvmmsg, "read")
    BY DEF Read, Readv, Recv, Recvfrom, Recvmsg, Recvmmsg, Receiving, Sending
  <1>4. DataCalls = {"write", "writev", "send", "sendto", "sendmsg", "sendmmsg", "sendfile",
                     "read", "readv", "recv", "recvfrom", "recvmsg", "recvmmsg"}
    BY DEF DataCalls, Probe
  <1>5. /\ Probe["write"] = Write /\ Probe["writev"] = Writev /\ Probe["send"] = Send
        /\ Probe["sendto"] = Sendto /\ Probe["sendmsg"] = Sendmsg
        /\ Probe["sendmmsg"] = Sendmmsg /\ Probe["sendfile"] = Sendfile
        /\ Probe["read"] = Read /\ Probe["readv"] = Readv /\ Probe["recv"] = Recv
        /\ Probe["recvfrom"] = Recvfrom /\ Probe["recvmsg"] = Recvmsg
        /\ Probe["recvmmsg"] = Recvmmsg
    BY DEF Probe
  <1> HIDE DEF Good
  <1>6. \/ Good(Probe[c], "write") \/ Good(Probe[c], "read")
        \/ Good(Probe[c], "sendfile") /\ c = "sendfile"
    BY <1>2, <1>3, <1>4, <1>5
  <1>7. c \notin {"none", "connect", "accept", "close"}
    BY <1>4
  <1> QED
    BY <1>6, <1>7 DEF Good

PcType == {"user", "kernel", "returned", "create", "remove", "leave"}
CallNames == DataCalls \union {"none", "connect", "accept", "close"}

FdsNamed == \A t \in Threads : cur[t].call \notin {"none", "accept"} => cur[t].fd \in Fds
CurTyped == pc \in [Threads -> PcType] /\ cur \in [Threads -> CallType] /\ FdsNamed

\* Where the steps of a thread leave pc and cur well typed.
LEMMA ThreadSteps ==
  ASSUME Types, NEW t \in Threads
  PROVE  /\ NoCall \in CallType /\ Closed \in FileType
         /\ \A l \in PcType : Goto(t, l) /\ cur' = cur => CurTyped'
         /\ \A c \in CallNames, fd \in Fds \union {0} :
              Begin(t, c, fd) /\ (c = "accept" \/ fd \in Fds) => CurTyped'
         /\ \A fd \in Fds \union {0}, n \in Int,
               msg \in {"unknown", "request", "response"}, on \in FileType :
              Done(t, fd, n, msg, on) /\ (cur[t].call = "accept" \/ fd \in Fds) => CurTyped'
  <1>1. NoCall \in CallType /\ Closed \in FileType
    BY DEF NoCall, Closed, CallType, FileType, Roles
  <1>2. /\ CurTyped
        /\ \A l \in PcType : Goto(t, l) => pc' \in [Threads -> PcType]
    BY DEF Types, Goto, PcType, CurTyped, FdsNamed
  <1>3. ASSUME NEW c \in CallNames, NEW fd \in Fds \union {0}, Begin(t, c, fd),
               c = "accept" \/ fd \in Fds
        PROVE  CurTyped'
    <2> DEFINE new == [NoCall EXCEPT !.call = c, !.fd = fd]
    <2>1. new \in CallType /\ new.call = c /\ new.fd = fd
      BY <1>1 DEF NoCall, CallType, CallNames
    <2> HIDE DEF new
    <2>2. cur' = [cur EXCEPT ![t] = new] /\ pc' \in [Threads -> PcType]
      BY <1>2, <1>3 DEF Begin, PcType, new
    <2> QED
      BY <1>2, <1>3, <2>1, <2>2 DEF CurTyped, FdsNamed
  <1>4. ASSUME NEW fd \in Fds \union {0}, NEW n \in Int,
               NEW msg \in {"unknown", "request", "response"}, NEW on \in FileType,
               Done(t, fd, n, msg, on), cur[t].call = "accept" \/ fd \in Fds
        PROVE  CurTyped'
    <2> DEFINE new == [cur[t] EXCEPT !.fd = fd, !.n = n, !.msg = msg, !.on = on]
    <2>1. new \in CallType /\ new.call = cur[t].call /\ new.fd = fd
      <3>1. cur[t] \in CallType
        BY DEF Types
      <3> QED
        BY <3>1 DEF CallType
    <2> HIDE DEF new
    <2>2. cur' = [cur EXCEPT ![t] = new] /\ pc' \in [Threads -> PcType]
      BY <1>2, <1>4 DEF Done, PcType, new
    <2> QED
      BY <1>2, <1>4, <2>1, <2>2 DEF CurTyped, FdsNamed
  <1>5. ASSUME NEW l \in PcType, Goto(t, l), cur' = cur PROVE CurTyped'
    BY <1>2, <1>5 DEF CurTyped, FdsNamed
  <1> QED
    BY <1>1, <1>3, <1>4, <1>5

\* Removing or keeping arguments is well typed.
LEMMA ArgSteps ==
  ASSUME Types, NEW t \in Threads,
         RemoveArgs(t) \/ FailArgs(t) \/ UNCHANGED <<activeWrite, activeRead>>
  PROVE  /\ activeWrite' \in [Threads -> ArgsType \union {Absent}]
         /\ activeRead' \in [Threads -> ArgsType \union {Absent}]
  BY DEF RemoveArgs, FailArgs, Types

\* Each step keeps the types.
LEMMA TypesKept ==
  ASSUME Types, Next PROVE Types'
  <1> USE STAssumption
  <1>1. PICK t \in Threads :
          \/ \E fd \in Fds : OpenFile(t, fd)
          \/ Enter(t) \/ EnterConnect(t) \/ EnterAccept(t) \/ EnterClose(t)
          \/ Transfer(t) \/ DoConnect(t) \/ DoAccept(t) \/ DoClose(t)
          \/ ReturnData(t) \/ CreateConnInfo(t)
          \/ ReturnConnect(t) \/ ReturnAccept(t) \/ ReturnClose(t)
          \/ RemoveConnInfo(t) \/ Leave(t)
    BY DEF Next
  <1>2. NoCall \in CallType /\ Closed \in FileType
    BY ThreadSteps
  <1>3. CASE \E fd \in Fds : OpenFile(t, fd)
    <2>1. PICK fd \in Fds : OpenFile(t, fd)
      BY <1>3
    <2>2. opens' \in Nat
      BY <2>1 DEF OpenFile, Types
    <2>3. \A kind \in {"file", "fresh"} : Opened(kind, "unknown") \in FileType
      BY DEF Types, FileType, Opened, Roles
    <2>4. file' \in [Fds -> FileType]
      BY <2>1, <2>3 DEF OpenFile, Types
    <2> QED
      BY <2>1, <2>2, <2>4 DEF OpenFile, argVars, Types
  <1>4. CASE Enter(t)
    <2>1. PICK c \in Calls, fd \in Fds :
            /\ Begin(t, c, fd)
            /\ \E addr \in BOOLEAN, len \in 0 .. MaxIO :
                 \/ /\ activeWrite' = IF Probe[c].map = "write"
                         THEN Insert(activeWrite, t, DataArgs(c, fd, len)) ELSE activeWrite
                    /\ activeRead' = IF Probe[c].map = "read"
                         THEN Insert(activeRead, t, DataArgs(c, fd, len)) ELSE activeRead
                 \/ UNCHANGED <<activeWrite, activeRead>>
            /\ UNCHANGED <<file, opens, nextId, out>>
      BY <1>4 DEF Enter, osVars, argVars
    <2>2. \A len \in 0 .. MaxIO : DataArgs(c, fd, len) \in ArgsType
      BY ProbeTypes DEF DataArgs, ArgsType
    <2>3. CurTyped'
      <3>1. c \in CallNames
        BY DEF CallNames
      <3> QED
        BY <2>1, <3>1, ThreadSteps
    <2>4. /\ activeWrite' \in [Threads -> ArgsType \union {Absent}]
          /\ activeRead' \in [Threads -> ArgsType \union {Absent}]
      BY <2>1, <2>2 DEF Insert, Types
    <2> QED
      BY <2>1, <2>3, <2>4 DEF Types, PcType, CurTyped, FdsNamed
  <1>5. CASE EnterConnect(t) \/ EnterAccept(t) \/ EnterClose(t)
    <2>1. /\ \/ \E c \in {"connect", "close"}, fd \in Fds : Begin(t, c, fd)
             \/ Begin(t, "accept", 0)
          /\ UNCHANGED <<file, opens, activeWrite, activeRead, nextId, out>>
      BY <1>5 DEF EnterConnect, EnterAccept, EnterClose, osVars, argVars
    <2>2. CurTyped'
      <3>1. {"connect", "accept", "close"} \subseteq CallNames
        BY DEF CallNames
      <3> QED
        BY <2>1, <3>1, ThreadSteps
    <2> QED
      BY <2>1, <2>2 DEF Types, PcType, CurTyped, FdsNamed
  <1>6. CASE Transfer(t)
    <2> DEFINE f == file[cur[t].fd]
               c == cur[t].call
    <2>1. c \in DataCalls /\ cur[t].fd \in Fds /\ f \in FileType
      BY <1>6, ProbeTypes DEF Transfer, Types
    <2>2. PICK n \in -1 .. MaxIO : \E msg \in Messages(f.role, c) :
            /\ Done(t, cur[t].fd, n, msg, f)
            /\ file' = IF n <= 0 THEN file
                       ELSE IF c \in Egress THEN [file EXCEPT ![cur[t].fd].w = @ + n]
                       ELSE [file EXCEPT ![cur[t].fd].r = @ + n]
            /\ IF c \in Egress /\ f.kind \in {"sock", "fresh"}
                 THEN /\ activeWrite' = Marked(activeWrite, t)
                      /\ activeRead' = Marked(activeRead, t)
                 ELSE UNCHANGED <<activeWrite, activeRead>>
      BY <1>6 DEF Transfer
    <2>3. n \in Int
      BY <2>2
    <2>4. CurTyped'
      <3>1. Messages(f.role, c) \subseteq {"unknown", "request", "response"}
        BY DEF Messages
      <3> QED
        BY <2>1, <2>2, <2>3, <3>1, ThreadSteps
    <2>5. file' \in [Fds -> FileType]
      <3>1. /\ [f EXCEPT !.w = @ + n] \in FileType
            /\ [f EXCEPT !.r = @ + n] \in FileType
        BY <2>1, <2>3 DEF FileType
      <3> QED
        BY <2>1, <2>2, <3>1 DEF Types
    <2>6. ASSUME NEW map \in [Threads -> ArgsType \union {Absent}]
          PROVE  Marked(map, t) \in [Threads -> ArgsType \union {Absent}]
      <3>1. map[t] # Absent => [map[t] EXCEPT !.sock_event = TRUE] \in ArgsType
        BY DEF ArgsType
      <3> QED
        BY <3>1 DEF Marked
    <2>7. /\ activeWrite' \in [Threads -> ArgsType \union {Absent}]
          /\ activeRead' \in [Threads -> ArgsType \union {Absent}]
      BY <2>2, <2>6 DEF Types
    <2> QED
      BY <1>6, <2>4, <2>5, <2>7 DEF Transfer, Types, PcType, CurTyped, FdsNamed
  <1>7. CASE DoConnect(t)
    <2> DEFINE fd == cur[t].fd
               sock == [file[fd] EXCEPT !.kind = "sock", !.role = "client"]
    <2>1. fd \in Fds /\ file[fd] \in FileType
      BY <1>7 DEF DoConnect, Types
    <2>2. sock \in FileType
      BY <2>1 DEF FileType, Roles
    <2> HIDE DEF sock
    <2>3. /\ \/ file' = [file EXCEPT ![fd] = sock] /\ Done(t, fd, 0, "unknown", sock)
             \/ file' = file /\ Done(t, fd, -1, "unknown", file[fd])
          /\ UNCHANGED <<opens, activeWrite, activeRead, nextId, out>>
      BY <1>7 DEF DoConnect, argVars, sock
    <2>4. CurTyped'
      BY <2>1, <2>2, <2>3, ThreadSteps
    <2> QED
      BY <2>1, <2>2, <2>3, <2>4 DEF Types, PcType, CurTyped, FdsNamed
  <1>8. CASE DoAccept(t)
    <2> DEFINE sock == Opened("sock", "server")
    <2>1. sock \in FileType
      BY DEF Types, FileType, Opened, Roles
    <2> HIDE DEF sock
    <2>2. /\ \/ \E fd \in Fds : /\ opens' = opens + 1
                                /\ file' = [file EXCEPT ![fd] = sock]
                                /\ Done(t, fd, 0, "unknown", sock)
             \/ /\ Done(t, 0, -1, "unknown", Closed)
                /\ UNCHANGED <<file, opens>>
          /\ cur[t].call = "accept"
          /\ UNCHANGED <<activeWrite, activeRead, nextId, out>>
      BY <1>8 DEF DoAccept, argVars, osVars, sock
    <2>3. CurTyped'
      BY <1>2, <2>1, <2>2, ThreadSteps
    <2> QED
      BY <2>1, <2>2, <2>3 DEF Types, PcType, CurTyped, FdsNamed
  <1>9. CASE DoClose(t)
    <2> DEFINE fd == cur[t].fd
    <2>1. fd \in Fds /\ file[fd] \in FileType
      BY <1>9 DEF DoClose, Types
    <2>2. /\ \/ /\ file' = [file EXCEPT ![fd] = Closed]
                /\ \E n \in {0, -1} : Done(t, fd, n, "unknown", file[fd])
             \/ file' = file /\ Done(t, fd, -1, "unknown", Closed)
          /\ UNCHANGED <<opens, activeWrite, activeRead, nextId, out>>
      BY <1>9 DEF DoClose, argVars
    <2>3. CurTyped'
      BY <1>2, <2>1, <2>2, ThreadSteps
    <2> QED
      BY <1>2, <2>1, <2>2, <2>3 DEF Types, PcType, CurTyped, FdsNamed
  <1>10. CASE ReturnData(t)
    <2>1. CurTyped'
      <3>1. CASE Goto(t, "create") /\ cur' = [cur EXCEPT ![t].tsid = nextId]
        <4> DEFINE new == [cur[t] EXCEPT !.tsid = nextId]
        <4>1. new \in CallType /\ new.call = cur[t].call /\ new.fd = cur[t].fd
          BY DEF Types, CallType
        <4>2. cur' = [cur EXCEPT ![t] = new]
          BY <3>1
        <4> HIDE DEF new
        <4> QED
          BY <3>1, <4>1, <4>2 DEF Goto, Types, PcType, CurTyped, FdsNamed
      <3>2. CASE cur' = cur /\ Goto(t, "leave")
        BY <3>2, ThreadSteps DEF PcType
      <3> QED
        BY <1>10, <3>1, <3>2 DEF ReturnData, Process
    <2>2. /\ activeWrite' \in [Threads -> ArgsType \union {Absent}]
          /\ activeRead' \in [Threads -> ArgsType \union {Absent}]
      BY <1>10, ArgSteps DEF ReturnData, Process
    <2>3. nextId' \in Nat /\ DOMAIN out' = Threads /\ UNCHANGED osVars
      BY <1>10 DEF ReturnData, Process, Submit, Types
    <2> QED
      BY <2>1, <2>2, <2>3 DEF osVars, Types, PcType, CurTyped, FdsNamed
  <1>11. CASE CreateConnInfo(t)
    <2>1. CurTyped'
      BY <1>11, ThreadSteps DEF CreateConnInfo, Process, PcType
    <2>2. /\ activeWrite' \in [Threads -> ArgsType \union {Absent}]
          /\ activeRead' \in [Threads -> ArgsType \union {Absent}]
      BY <1>11, ArgSteps DEF CreateConnInfo, Process
    <2> QED
      BY <1>11, <2>1, <2>2 DEF CreateConnInfo, Process, Submit, osVars, Types, PcType,
         CurTyped, FdsNamed
  <1>12. CASE ReturnConnect(t) \/ ReturnAccept(t)
    BY <1>12, ThreadSteps DEF ReturnConnect, ReturnAccept, submit_open_event, Submit,
       osVars, argVars, Types, PcType, CurTyped, FdsNamed
  <1>13. CASE ReturnClose(t)
    BY <1>13, ThreadSteps DEF ReturnClose, Submit, osVars, argVars, Types, PcType,
       CurTyped, FdsNamed
  <1>14. CASE RemoveConnInfo(t)
    BY <1>14, ThreadSteps DEF RemoveConnInfo, osVars, argVars, Types, PcType, CurTyped,
       FdsNamed
  <1>15. CASE Leave(t)
    BY <1>2, <1>15 DEF Leave, Goto, osVars, argVars, Types, NoCall
  <1> QED
    BY <1>1, <1>3, <1>4, <1>5, <1>6, <1>7, <1>8, <1>9, <1>10, <1>11, <1>12, <1>13, <1>14,
       <1>15

\* A step of one thread leaves the call, the arguments and the events of the others.
LEMMA OthersKept ==
  ASSUME Types, NEW t \in Threads, NEW u \in Threads, u # t,
         \/ \E fd \in Fds : OpenFile(t, fd)
         \/ Enter(t) \/ EnterConnect(t) \/ EnterAccept(t) \/ EnterClose(t)
         \/ Transfer(t) \/ DoConnect(t) \/ DoAccept(t) \/ DoClose(t)
         \/ ReturnData(t) \/ CreateConnInfo(t)
         \/ ReturnConnect(t) \/ ReturnAccept(t) \/ ReturnClose(t)
         \/ RemoveConnInfo(t) \/ Leave(t)
  PROVE  /\ pc'[u] = pc[u] /\ cur'[u] = cur[u] /\ out'[u] = out[u]
         /\ activeWrite'[u] = activeWrite[u] /\ activeRead'[u] = activeRead[u]
  <1>1. pc \in [Threads -> PcType] /\ DOMAIN cur = Threads /\ DOMAIN out = Threads
        /\ DOMAIN activeWrite = Threads /\ DOMAIN activeRead = Threads
    BY DEF Types, PcType
  <1>2. CASE \E fd \in Fds : OpenFile(t, fd)
    BY <1>2 DEF OpenFile, argVars
  <1>3. CASE Enter(t)
    BY <1>1, <1>3 DEF Enter, Begin, Goto, Insert, argVars
  <1>4. CASE EnterConnect(t) \/ EnterAccept(t) \/ EnterClose(t)
    BY <1>1, <1>4 DEF EnterConnect, EnterAccept, EnterClose, Begin, Goto, argVars
  <1>5. CASE Transfer(t)
    BY <1>1, <1>5 DEF Transfer, Done, Goto, Marked
  <1>6. CASE DoConnect(t) \/ DoAccept(t) \/ DoClose(t)
    BY <1>1, <1>6 DEF DoConnect, DoAccept, DoClose, Done, Goto, argVars
  <1>7. CASE ReturnData(t)
    BY <1>1, <1>7 DEF ReturnData, Process, Submit, RemoveArgs, FailArgs, Goto
  <1>8. CASE CreateConnInfo(t)
    BY <1>1, <1>8 DEF CreateConnInfo, Process, Submit, RemoveArgs, FailArgs, Goto
  <1>9. CASE ReturnConnect(t) \/ ReturnAccept(t) \/ ReturnClose(t)
    BY <1>1, <1>9 DEF ReturnConnect, ReturnAccept, ReturnClose, submit_open_event, Submit,
       Goto, argVars
  <1>10. CASE RemoveConnInfo(t) \/ Leave(t)
    BY <1>1, <1>10 DEF RemoveConnInfo, Leave, Goto, argVars
  <1> QED
    BY <1>2, <1>3, <1>4, <1>5, <1>6, <1>7, <1>8, <1>9, <1>10

\* The arguments that the return probe of a data call reads are the call's.
LEMMA ReadsOwnArgs ==
  ASSUME Types, NEW t \in Threads, Pending(t), cur[t].call \in DataCalls,
         pc[t] \in {"returned", "create"}
  PROVE  Args(t).source_function = cur[t].call /\ Args(t).fd = cur[t].fd
  <1>1. CASE Made(t).map = "write"
    BY <1>1 DEF Args, Made, Pending, Of
  <1>2. CASE Made(t).map = "read"
    BY <1>2 DEF Args, Made, Pending, Of
  <1>3. CASE Made(t).map = "sendfile"
    <2>1. cur[t].call = "sendfile"
      BY <1>3, ProbeTypes DEF Made
    <2> QED
      BY <1>3, <2>1 DEF Args, DataArgs
  <1> QED
    BY <1>1, <1>2, <1>3, ProbeTypes DEF Made

\* What process_data sends describes the call.
LEMMA ProcessReportsOwn ==
  ASSUME Types, NEW t \in Threads, NEW info, Process(t, info), cur' = cur,
         Args(t).source_function = cur[t].call, Args(t).fd = cur[t].fd
  PROVE  Own(t)' /\ pc'[t] = "leave"
  <1> DEFINE c == update_traffic_class(info, cur[t].call, cur[t].msg)
             data == IF should_send_data(c) THEN {DataEvent(t, c)} ELSE {}
             stats == StatsEvents(Counted(c, cur[t].call, BytesCount(t)))
  <1>1. \A e \in data : e.source_function = cur[t].call /\ e.fd = cur[t].fd
    BY DEF DataEvent
  <1>2. \A e \in stats : e.type = "stats"
    BY DEF StatsEvents, TotalsEvent
  <1>3. /\ \/ Submit(t, data \union stats)
           \/ \E events \in SUBSET data : Submit(t, events)
        /\ Goto(t, "leave")
    BY DEF Process
  <1> HIDE DEF c, data, stats
  <1>4. \E events \in SUBSET (data \union stats) : out' = [out EXCEPT ![t] = events]
    BY <1>3 DEF Submit
  <1>5. out'[t] \subseteq data \union stats
    BY <1>4 DEF Types
  <1> QED
    BY <1>1, <1>2, <1>3, <1>5 DEF Own, Events, Goto, Types

\* Each step keeps the three facts of the thread that takes it.
LEMMA OwnKept ==
  ASSUME IndInv, Faulty = FALSE, NEW t \in Threads,
         \/ \E fd \in Fds : OpenFile(t, fd)
         \/ Enter(t) \/ EnterConnect(t) \/ EnterAccept(t) \/ EnterClose(t)
         \/ Transfer(t) \/ DoConnect(t) \/ DoAccept(t) \/ DoClose(t)
         \/ ReturnData(t) \/ CreateConnInfo(t)
         \/ ReturnConnect(t) \/ ReturnAccept(t) \/ ReturnClose(t)
         \/ RemoveConnInfo(t) \/ Leave(t)
  PROVE  Pending(t)' /\ Quiet(t)' /\ Own(t)'
  <1> USE STAssumption
  <1>1. /\ Types /\ Pending(t) /\ Quiet(t) /\ Own(t)
        /\ DOMAIN pc = Threads /\ DOMAIN cur = Threads /\ DOMAIN out = Threads
        /\ DOMAIN activeWrite = Threads /\ DOMAIN activeRead = Threads
    BY DEF IndInv, Types
  <1>2. \A l : Goto(t, l) => pc'[t] = l
    BY <1>1 DEF Goto
  <1>3. out'[t] = {} => Own(t)' /\ Quiet(t)'
    BY DEF Own, Quiet, Events
  <1>4. {"none", "connect", "accept", "close"} \intersect DataCalls = {}
    BY ProbeTypes
  <1>5. CASE \E fd \in Fds : OpenFile(t, fd)
    BY <1>1, <1>5 DEF OpenFile, argVars, Pending, Quiet, Own, Of, Events
  <1>6. CASE Enter(t)
    <2>1. PICK c \in Calls, fd \in Fds :
            /\ Begin(t, c, fd)
            /\ \E len \in 0 .. MaxIO :
                 /\ activeWrite' = IF Probe[c].map = "write"
                      THEN Insert(activeWrite, t, DataArgs(c, fd, len)) ELSE activeWrite
                 /\ activeRead' = IF Probe[c].map = "read"
                      THEN Insert(activeRead, t, DataArgs(c, fd, len)) ELSE activeRead
            /\ out' = out
      BY <1>6 DEF Enter
    <2>2. out'[t] = {}
      BY <1>1, <2>1 DEF Begin, Quiet
    <2>3. cur'[t].call = c /\ cur'[t].fd = fd
      BY <1>1, <2>1 DEF Begin, NoCall
    <2>4. \A len : DataArgs(c, fd, len).source_function = c /\ DataArgs(c, fd, len).fd = fd
      BY DEF DataArgs
    <2>5. Pending(t)'
      BY <1>1, <1>2, <2>1, <2>3, <2>4 DEF Pending, Of, Insert, Begin
    <2> QED
      BY <1>3, <2>2, <2>5
  <1>7. CASE EnterConnect(t) \/ EnterAccept(t) \/ EnterClose(t)
    <2>1. PICK c \in {"connect", "accept", "close"}, fd \in Fds \union {0} :
            Begin(t, c, fd) /\ out' = out
      BY <1>7 DEF EnterConnect, EnterAccept, EnterClose
    <2>2. out'[t] = {}
      BY <1>1, <2>1 DEF Begin, Quiet
    <2>3. cur'[t].call = c
      BY <1>1, <2>1 DEF Begin, NoCall
    <2> QED
      BY <1>2, <1>3, <1>4, <2>1, <2>2, <2>3 DEF Pending, Begin
  <1>8. CASE Transfer(t)
    <2>1. PICK n, msg, f :
            /\ Done(t, cur[t].fd, n, msg, f)
            /\ \/ activeWrite' = Marked(activeWrite, t) /\ activeRead' = Marked(activeRead, t)
               \/ UNCHANGED <<activeWrite, activeRead>>
            /\ out' = out /\ pc[t] = "kernel" /\ cur[t].call \in DataCalls
      BY <1>8 DEF Transfer
    <2>2. out'[t] = {}
      BY <1>1, <2>1 DEF Quiet
    <2>3. cur'[t].call = cur[t].call /\ cur'[t].fd = cur[t].fd
      BY <1>1, <2>1 DEF Done, Types, CallType
    <2>4. ASSUME NEW map \in [Threads -> ArgsType \union {Absent}]
          PROVE  /\ Marked(map, t)[t].source_function = map[t].source_function
                 /\ Marked(map, t)[t].fd = map[t].fd
      BY DEF Marked, ArgsType
    <2>5. /\ activeWrite'[t].source_function = activeWrite[t].source_function
          /\ activeWrite'[t].fd = activeWrite[t].fd
          /\ activeRead'[t].source_function = activeRead[t].source_function
          /\ activeRead'[t].fd = activeRead[t].fd
      BY <1>1, <2>1, <2>4 DEF Types
    <2>6. Pending(t)'
      BY <1>1, <2>1, <2>3, <2>5 DEF Pending, Of
    <2> QED
      BY <1>3, <2>2, <2>6
  <1>9. CASE DoConnect(t) \/ DoAccept(t) \/ DoClose(t)
    <2>1. /\ \E fd, n, on : Done(t, fd, n, "unknown", on)
          /\ out' = out /\ pc[t] = "kernel"
          /\ cur[t].call \in {"connect", "accept", "close"}
      BY <1>9 DEF DoConnect, DoAccept, DoClose
    <2>2. out'[t] = {}
      BY <1>1, <2>1 DEF Quiet
    <2>3. cur'[t].call = cur[t].call
      BY <1>1, <2>1 DEF Done, Types, CallType
    <2> QED
      BY <1>2, <1>3, <1>4, <2>1, <2>2, <2>3 DEF Pending, Done
  <1>10. CASE ReturnData(t)
    <2>1. pc[t] = "returned" /\ cur[t].call \in DataCalls /\ out[t] = {}
      BY <1>1, <1>10 DEF ReturnData, Quiet
    <2>2. CASE Goto(t, "leave") /\ out' = out
      BY <1>2, <1>3, <2>1, <2>2 DEF Pending
    <2>3. CASE cur' = cur /\ \E info : Process(t, info)
      <3>1. Own(t)' /\ pc'[t] = "leave"
        BY <1>1, <2>1, <2>3, ReadsOwnArgs, ProcessReportsOwn
      <3> QED
        BY <3>1 DEF Pending, Quiet
    <2>4. CASE /\ cur' = [cur EXCEPT ![t].tsid = nextId]
               /\ UNCHANGED <<activeWrite, activeRead, out>>
      <3>1. cur'[t].call = cur[t].call /\ cur'[t].fd = cur[t].fd
        BY <1>1, <2>4 DEF Types, CallType
      <3> QED
        BY <1>1, <1>3, <2>1, <2>4, <3>1 DEF Pending, Of
    <2> QED
      BY <1>10, <2>2, <2>3, <2>4 DEF ReturnData
  <1>11. CASE CreateConnInfo(t)
    <2>1. PICK info : Process(t, info)
      BY <1>11 DEF CreateConnInfo
    <2>2. cur' = cur /\ pc[t] = "create"
      BY <1>11 DEF CreateConnInfo
    <2>3. Own(t)' /\ pc'[t] = "leave"
      BY <1>1, <2>1, <2>2, ReadsOwnArgs, ProcessReportsOwn DEF Pending
    <2> QED
      BY <2>3 DEF Pending, Quiet
  <1>12. CASE ReturnConnect(t) \/ ReturnAccept(t) \/ ReturnClose(t)
    <2>1. pc[t] = "returned" /\ out[t] = {}
      BY <1>1, <1>12 DEF ReturnConnect, ReturnAccept, ReturnClose, Quiet
    <2>2. pc'[t] \in {"leave", "remove"}
      BY <1>2, <1>12 DEF ReturnConnect, ReturnAccept, ReturnClose
    <2>3. \A type, info : TotalsEvent(type, info).type = type
      BY DEF TotalsEvent
    <2>4. \/ out' = out
          \/ \E info : out' = [out EXCEPT ![t] = {TotalsEvent("open", info)}]
          \/ \E info : out' = [out EXCEPT ![t] =
                         {TotalsEvent("close", info), TotalsEvent("stats", info)}]
      BY <1>12 DEF ReturnConnect, ReturnAccept, ReturnClose, submit_open_event, Submit
    <2>5. \/ out'[t] = {}
          \/ \E info : out'[t] = {TotalsEvent("open", info)}
          \/ \E info : out'[t] = {TotalsEvent("close", info), TotalsEvent("stats", info)}
      BY <1>1, <2>1, <2>4 DEF Types
    <2>6. \A e \in out'[t] : e.type # "data"
      BY <2>3, <2>5
    <2> QED
      BY <2>2, <2>6 DEF Pending, Quiet, Own, Events
  <1>13. CASE RemoveConnInfo(t)
    BY <1>1, <1>2, <1>13 DEF RemoveConnInfo, Pending, Quiet, Own, Events
  <1>14. CASE Leave(t)
    BY <1>1, <1>2, <1>3, <1>14 DEF Leave, Pending
  <1> QED
    BY <1>5, <1>6, <1>7, <1>8, <1>9, <1>10, <1>11, <1>12, <1>13, <1>14

\* IndInv is an invariant when no probe's read of memory fails.
THEOREM Invariance ==
  ASSUME Faulty = FALSE PROVE Spec => []IndInv
  <1>1. Init => IndInv
    <2> SUFFICES ASSUME Init PROVE IndInv
      OBVIOUS
    <2>1. NoCall \in CallType /\ Closed \in FileType /\ NoCall.call = "none"
      BY DEF NoCall, Closed, CallType, FileType, Roles
    <2>2. Types
      BY <2>1 DEF Init, Types
    <2>3. \A t \in Threads : Pending(t) /\ Quiet(t) /\ Own(t)
      BY DEF Init, Pending, Quiet, Own, Events
    <2> QED
      BY <2>2, <2>3 DEF IndInv
  <1>2. IndInv /\ [Next]_vars => IndInv'
    <2> SUFFICES ASSUME IndInv, [Next]_vars PROVE IndInv'
      OBVIOUS
    <2>1. CASE Next
      <3>1. Types'
        BY <2>1, TypesKept DEF IndInv
      <3>2. PICK t \in Threads :
              \/ \E fd \in Fds : OpenFile(t, fd)
              \/ Enter(t) \/ EnterConnect(t) \/ EnterAccept(t) \/ EnterClose(t)
              \/ Transfer(t) \/ DoConnect(t) \/ DoAccept(t) \/ DoClose(t)
              \/ ReturnData(t) \/ CreateConnInfo(t)
              \/ ReturnConnect(t) \/ ReturnAccept(t) \/ ReturnClose(t)
              \/ RemoveConnInfo(t) \/ Leave(t)
        BY <2>1 DEF Next
      <3>3. Pending(t)' /\ Quiet(t)' /\ Own(t)'
        BY <3>2, OwnKept
      <3>4. ASSUME NEW u \in Threads, u # t PROVE Pending(u)' /\ Quiet(u)' /\ Own(u)'
        <4>1. /\ pc'[u] = pc[u] /\ cur'[u] = cur[u] /\ out'[u] = out[u]
              /\ activeWrite'[u] = activeWrite[u] /\ activeRead'[u] = activeRead[u]
          BY <3>2, <3>4, OthersKept DEF IndInv
        <4>2. Pending(u) /\ Quiet(u) /\ Own(u)
          BY DEF IndInv
        <4> QED
          BY <4>1, <4>2 DEF Pending, Quiet, Own, Of, Events
      <3> QED
        BY <3>1, <3>3, <3>4 DEF IndInv
    <2>2. CASE UNCHANGED vars
      BY <2>2 DEF IndInv, Types, Pending, Quiet, Own, Of, Events, vars
    <2> QED
      BY <2>1, <2>2
  <1> QED
    BY <1>1, <1>2, PTL DEF Spec

\* Without failed reads, every data event carries the function and the descriptor of
\* the call it reports, for any number of threads, descriptors and calls: the entry
\* probe's insertion replaces whatever an earlier call left in the map.
THEOREM ReportsOwnArguments ==
  ASSUME Faulty = FALSE PROVE Spec => []OwnArguments
  <1>1. IndInv => OwnArguments
    BY DEF IndInv, OwnArguments, Own
  <1> QED
    BY <1>1, Invariance, PTL

=============================================================================
