---------------------------- MODULE AgentServer ----------------------------
(***************************************************************************)
(* The agent's start and shutdown (agent/src/server): serve brings up the  *)
(* program manager and two listeners, shutdown_handler broadcasts All on   *)
(* SIGINT or SIGTERM, and serve returns when the listeners and the handler *)
(* have ended.  Unload broadcasts on the same channel.                     *)
(*                                                                         *)
(* The program tasks, which hold receivers too, are reduced to whether     *)
(* there are any: ProgManager models them.  When serve returns, the        *)
(* runtime drops whatever still runs.                                      *)
(***************************************************************************)
EXTENDS Naturals, Sequences

CONSTANTS
  Cap,         \* capacity of the broadcast channel (32 in serve)
  MaxCalls,    \* bound: RPCs in flight
  MaxUnloads,  \* bound: Unloads
  MayFail      \* a listener may fail: bind, accept

ASSUME ASAssumption ==
  /\ Cap \in Nat \ {0} /\ MaxCalls \in Nat /\ MaxUnloads \in Nat
  /\ MayFail \in BOOLEAN

VARIABLES
  main,       \* where serve is
  signalled,  \* SIGINT or SIGTERM has arrived
  handler,    \* shutdown_handler: waiting, done, or panicked
  listener,   \* where each listener is
  rx, lagged, \* the receiver of each listener
  calls,      \* RPCs in flight
  unloads,    \* Unloads so far
  tasks,      \* program tasks hold receivers
  deaf        \* history: the listeners that will not hear All

vars == <<main, signalled, handler, listener, rx, lagged, calls, unloads, tasks, deaf>>

Listeners == {"rpc", "http"}
\* The agent's process exists.
Up == main \notin {"exited", "failed"}

\* shutdown_rx1 exists from the start, in serve's hands; shutdown_rx2 only once
\* the RPC listener is up.  A listener drops its receiver when it has heard All.
Subscribed(l) ==
  \/ listener[l] \in {"bind", "serving", "acceptOnly"}
  \/ l = "rpc" /\ main \in {"sync", "rpc"}
HasReceiver == tasks \/ \E l \in Listeners : Subscribed(l)

\* Mutants: a full receiver drops the new signal; it keeps everything.
DeliverNot(queue, sig) == IF Len(queue) < Cap THEN Append(queue, sig) ELSE queue
DeliverUnbounded(queue, sig) == Append(queue, sig)
\* A full receiver loses its oldest signal.
Deliver(queue, sig) ==
  IF Len(queue) < Cap THEN Append(queue, sig) ELSE Append(Tail(queue), sig)
\* What l loses of a broadcast: its oldest signal when it is full, the new one when
\* it is still to subscribe.
Loses(l, sig) ==
  IF Subscribed(l) THEN (IF Len(rx[l]) < Cap THEN {} ELSE {Head(rx[l])})
  ELSE IF listener[l] = "none" THEN {sig} ELSE {}

Broadcast(sig) ==
  /\ rx' = [l \in Listeners |-> IF Subscribed(l) THEN Deliver(rx[l], sig) ELSE rx[l]]
  /\ lagged' = [l \in Listeners |-> lagged[l] \/ (Subscribed(l) /\ Len(rx[l]) >= Cap)]
  /\ deaf' = deaf \union {l \in Listeners : "All" \in Loses(l, sig)}

Goto(l, at) == listener' = [listener EXCEPT ![l] = at]

-----------------------------------------------------------------------------
(* serve *)

\* ProgManager::new, which waits until the caches are in sync.
ManagerReady ==
  /\ main = "sync"
  /\ main' \in {"rpc", "failed"}
  /\ UNCHANGED <<signalled, handler, listener, rx, lagged, calls, unloads, tasks, deaf>>

\* rpc::serve gets shutdown_rx1.
ServeRpc ==
  /\ main = "rpc"
  /\ \/ main' = "http" /\ Goto("rpc", "serving")
     \/ MayFail /\ main' = "failed" /\ UNCHANGED listener
  /\ UNCHANGED <<signalled, handler, rx, lagged, calls, unloads, tasks, deaf>>

\* shutdown_tx.subscribe(), and http::serve, which fails on an address it cannot
\* parse.
ServeHttp ==
  /\ main = "http"
  /\ \/ main' = "join" /\ Goto("http", "bind")
     \/ MayFail /\ main' = "failed" /\ UNCHANGED listener
  /\ UNCHANGED <<signalled, handler, rx, lagged, calls, unloads, tasks, deaf>>

Ended == \A l \in Listeners : listener[l] \in {"ended", "failed"}

\* Mutant: select! instead of join!.
JoinEither ==
  /\ main = "join"
  /\ Ended \/ handler # "waiting"
  /\ main' = IF handler = "panicked" THEN "failed" ELSE "exited"
  /\ UNCHANGED <<signalled, handler, listener, rx, lagged, calls, unloads, tasks, deaf>>
\* join!(join_listeners, shutdown_handle): a listener that panicked is logged, a
\* handler that panicked is an error.
Join ==
  /\ main = "join"
  /\ Ended /\ handler # "waiting"
  /\ main' = IF handler = "panicked" THEN "failed" ELSE "exited"
  /\ UNCHANGED <<signalled, handler, listener, rx, lagged, calls, unloads, tasks, deaf>>

-----------------------------------------------------------------------------
(* shutdown_handler *)

Signal ==
  /\ Up /\ ~signalled
  /\ signalled' = TRUE
  /\ UNCHANGED <<main, handler, listener, rx, lagged, calls, unloads, tasks, deaf>>

\* send(All).unwrap() panics without a receiver.
ShutdownSend ==
  /\ Up /\ signalled /\ handler = "waiting"
  /\ Broadcast("All")
  /\ handler' = IF HasReceiver THEN "sent" ELSE "panicked"
  /\ UNCHANGED <<main, signalled, listener, calls, unloads, tasks>>

-----------------------------------------------------------------------------
(* The RPC listener *)

\* The loop around shutdown_rx.recv(): Err(Lagged) and other signals are passed
\* over; All starts tonic's graceful shutdown.
RpcRecv ==
  /\ Up /\ listener["rpc"] = "serving"
  /\ \/ /\ lagged["rpc"]
        /\ lagged' = [lagged EXCEPT !["rpc"] = FALSE]
        /\ UNCHANGED <<rx, listener>>
     \/ /\ ~lagged["rpc"] /\ rx["rpc"] # <<>>
        /\ rx' = [rx EXCEPT !["rpc"] = Tail(@)]
        /\ Goto("rpc", IF Head(rx["rpc"]) = "All" THEN "draining" ELSE "serving")
        /\ UNCHANGED lagged
  /\ UNCHANGED <<main, signalled, handler, calls, unloads, tasks, deaf>>

\* The graceful shutdown waits for the RPCs in flight.
RpcDrained ==
  /\ Up /\ listener["rpc"] = "draining" /\ calls = 0
  /\ Goto("rpc", "ended")
  /\ UNCHANGED <<main, signalled, handler, rx, lagged, calls, unloads, tasks, deaf>>

RpcFails ==
  /\ Up /\ MayFail /\ listener["rpc"] \in {"serving", "draining"}
  /\ Goto("rpc", "failed")
  /\ UNCHANGED <<main, signalled, handler, rx, lagged, calls, unloads, tasks, deaf>>

RpcCall ==
  /\ Up /\ listener["rpc"] = "serving"
  /\ calls < MaxCalls /\ calls' = calls + 1
  /\ UNCHANGED <<main, signalled, handler, listener, rx, lagged, unloads, tasks, deaf>>

\* A Load spawns a task, an Unload broadcasts the name of its program, the
\* others only read.
RpcReturn ==
  /\ Up /\ calls > 0 /\ calls' = calls - 1
  /\ \/ tasks' = TRUE /\ UNCHANGED <<rx, lagged, deaf, unloads>>
     \/ /\ unloads < MaxUnloads /\ unloads' = unloads + 1
        /\ Broadcast("ProgramName")
        /\ UNCHANGED tasks
     \/ UNCHANGED <<rx, lagged, deaf, unloads, tasks>>
  /\ UNCHANGED <<main, signalled, handler, listener>>

TasksEnd ==
  /\ Up /\ tasks /\ tasks' = FALSE
  /\ UNCHANGED <<main, signalled, handler, listener, rx, lagged, calls, unloads, deaf>>

-----------------------------------------------------------------------------
(* The metrics listener *)

\* An error of bind is unwrapped: the listener's task panics.
HttpBind ==
  /\ Up /\ listener["http"] = "bind"
  /\ \E at \in {"serving"} \union (IF MayFail THEN {"failed"} ELSE {}) : Goto("http", at)
  /\ UNCHANGED <<main, signalled, handler, rx, lagged, calls, unloads, tasks, deaf>>

\* Mutant: no signal ends the loop.
HttpRecvIgnores ==
  /\ Up /\ listener["http"] = "serving"
  /\ ~lagged["http"] /\ rx["http"] # <<>>
  /\ rx' = [rx EXCEPT !["http"] = Tail(@)]
  /\ UNCHANGED <<main, signalled, handler, listener, lagged, calls, unloads, tasks, deaf>>
HttpRecv ==
  /\ Up /\ listener["http"] = "serving"
  /\ ~lagged["http"] /\ rx["http"] # <<>>
  /\ rx' = [rx EXCEPT !["http"] = Tail(@)]
  /\ Goto("http", IF Head(rx["http"]) = "All" THEN "ended" ELSE "serving")
  /\ UNCHANGED <<main, signalled, handler, lagged, calls, unloads, tasks, deaf>>

\* Err(Lagged) does not match the branch, which select! disables: only accept is
\* left.
HttpLag ==
  /\ Up /\ listener["http"] = "serving" /\ lagged["http"]
  /\ lagged' = [lagged EXCEPT !["http"] = FALSE]
  /\ Goto("http", "acceptOnly")
  /\ UNCHANGED <<main, signalled, handler, rx, calls, unloads, tasks, deaf>>

\* Mutant: the loop is not restarted.
HttpAcceptStays ==
  /\ Up /\ listener["http"] \in {"serving", "acceptOnly"}
  /\ \E at \in {listener["http"]} \union (IF MayFail THEN {"failed"} ELSE {}) : Goto("http", at)
  /\ UNCHANGED <<main, signalled, handler, rx, lagged, calls, unloads, tasks, deaf>>
\* A connection is accepted and served by a task of its own.  An error is
\* unwrapped.
HttpAccept ==
  /\ Up /\ listener["http"] \in {"serving", "acceptOnly"}
  /\ \E at \in {"serving"} \union (IF MayFail THEN {"failed"} ELSE {}) : Goto("http", at)
  /\ UNCHANGED <<main, signalled, handler, rx, lagged, calls, unloads, tasks, deaf>>

-----------------------------------------------------------------------------
Init ==
  /\ main = "sync" /\ signalled = FALSE /\ handler = "waiting"
  /\ listener = [l \in Listeners |-> "none"]
  /\ rx = [l \in Listeners |-> <<>>]
  /\ lagged = [l \in Listeners |-> FALSE]
  /\ calls = 0 /\ unloads = 0 /\ tasks = FALSE
  /\ deaf = {}

Next ==
  \/ ManagerReady \/ ServeRpc \/ ServeHttp \/ Join
  \/ Signal \/ ShutdownSend
  \/ RpcRecv \/ RpcDrained \/ RpcFails \/ RpcCall \/ RpcReturn \/ TasksEnd
  \/ HttpBind \/ HttpRecv \/ HttpLag \/ HttpAccept

Spec == Init /\ [][Next]_vars

(***************************************************************************)
(* Tokio schedules every task that can go on, and RPCs return (ProgManager *)
(* shows it of Unload; bpfman is trusted to answer Load).  Nothing is      *)
(* assumed of the cluster, of signals and of clients.                      *)
(***************************************************************************)
Fairness ==
  /\ WF_vars(ServeRpc) /\ WF_vars(ServeHttp) /\ WF_vars(Join)
  /\ WF_vars(ShutdownSend)
  /\ WF_vars(RpcRecv) /\ WF_vars(RpcDrained) /\ WF_vars(RpcReturn)
  /\ WF_vars(HttpBind) /\ WF_vars(HttpRecv) /\ WF_vars(HttpLag)

FairSpec == Spec /\ Fairness

-----------------------------------------------------------------------------
(* Properties *)

ListenerPc == {"none", "bind", "serving", "acceptOnly", "draining", "ended", "failed"}

\* Every variable has its type, and no receiver holds more than Cap signals.
TypeOK ==
  /\ main \in {"sync", "rpc", "http", "join", "exited", "failed"}
  /\ signalled \in BOOLEAN /\ handler \in {"waiting", "sent", "panicked"}
  /\ listener \in [Listeners -> ListenerPc]
  /\ rx \in [Listeners -> Seq({"All", "ProgramName"})]
  /\ \A l \in Listeners : Len(rx[l]) <= Cap
  /\ lagged \in [Listeners -> BOOLEAN]
  /\ calls \in 0 .. MaxCalls /\ unloads \in 0 .. MaxUnloads
  /\ tasks \in BOOLEAN /\ deaf \subseteq Listeners

\* Once All was sent it waits in the receiver of every listener that serves,
\* however many Unloads broadcast before and after it, except for one that
\* subscribed later or whose receiver has overflowed since
\* (server/mod.rs shutdown_handler and serve).
AllWaits ==
  handler # "waiting" =>
    \A l \in Listeners \ deaf :
      Subscribed(l) => \E k \in DOMAIN rx[l] : rx[l][k] = "All"

\* SIGTERM ends the agent, whatever listeners have failed and however far the
\* start has come, unless All was lost to a listener or the metrics listener,
\* having lagged, waits for a connection.
ShutdownCompletes ==
  signalled /\ main = "join"
    ~> ~Up \/ deaf # {} \/ listener["http"] = "acceptOnly"

Scrape == HttpAccept /\ listener'["http"] = "serving"
\* As long as something keeps scraping the metrics, lagging only delays it
\* (the loop of start_metrics_server enables the disabled branch again).
ScrapedShutdownCompletes ==
  WF_vars(Scrape) => (signalled /\ main = "join" ~> ~Up \/ deaf # {})

\* When serve returns normally nothing is left in flight that a client waits
\* for, unless the RPC listener failed: the RPCs have been answered (tonic's
\* graceful shutdown, awaited by join_listeners).
NoCallDropped == main = "exited" /\ listener["rpc"] # "failed" => calls = 0
=============================================================================
