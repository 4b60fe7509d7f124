---------------------------- MODULE ProgManager ----------------------------
(***************************************************************************)
(* The program manager of the agent (agent/src/managers/prog.rs) driven by *)
(* the Load and Unload handlers of the gRPC service (server/rpc.rs), with  *)
(* the tokio task that runs each loaded program (ServiceMap::start).       *)
(*                                                                         *)
(* Every handler and every task is a process.  One action is one critical  *)
(* section: a getter, a setter, init, reset and each map operation take    *)
(* and release their lock on their own, so that other processes run in     *)
(* between.  A request is served once; the task a Load spawns carries the  *)
(* identity of that request.                                               *)
(***************************************************************************)
EXTENDS Naturals, Sequences

CONSTANTS
  Progs,      \* names in the registry
  Unknown,    \* a name that is not in the registry
  Reqs,       \* Load and Unload requests
  Inputs,     \* what a request may ask for
  Listeners,  \* server tasks that hold a receiver of the shutdown channel
  MayStop,    \* the agent may be told to terminate, and its listeners may end
  Cap,        \* capacity of the shutdown channel (32 in server/mod.rs)
  None        \* no handle

ASSUME PMAssumption ==
  /\ Unknown \notin Progs
  /\ None \notin Reqs
  /\ Cap \in Nat \ {0}
  /\ MayStop \in BOOLEAN
  /\ "All" \notin Progs
  /\ Inputs \subseteq [op : {"Load", "Unload"}, name : Progs \cup {Unknown},
                       zero : BOOLEAN]

VARIABLES
  state,      \* Inner.program_state of each program
  connsMap,   \* Inner.current_conns_map.is_some()
  metadata,   \* Inner.metadata: "empty", "set", or "zero" when interval is 0
  handles,    \* ProgManager.program_handles: the task behind each JoinHandle
  ask,        \* what each request asks for
  pc,         \* where the handler of each request is
  joins,      \* the task whose JoinHandle the handler awaits
  task,       \* where the task spawned by each request is
  rx,         \* signals waiting in each task's receiver
  lagged,     \* the receiver has lost its oldest signals
  listening,  \* the listeners whose receiver still exists
  shutdown    \* the shutdown handler has sent All

program == <<state, connsMap, metadata>>
channel == <<rx, lagged, listening, shutdown>>
vars    == <<program, handles, ask, pc, joins, task, channel>>

ProgramState == {"Uninitialized", "Initialized", "Running", "Stopped", "Failed"}
Signal       == Progs \cup {"All"}
Finished     == {"ok", "err", "gone"}
RpcPc        == {"idle", "ids", "pre", "init", "mark", "load", "spawn", "insert",
                 "info", "stop", "send", "take", "await", "unset"} \cup Finished
TaskPc       == {"none", "spawned", "start", "select", "tickOnly", "fold",
                 "stopping", "failing", "ended", "panicked"}
Request      == [op : {"Load", "Unload"}, name : Progs \cup {Unknown}, zero : BOOLEAN]

\* The receiver is owned by start(), and dropped when start() returns or panics.
Subscribed(t) == task[t] \in {"spawned", "start", "select", "tickOnly", "fold"}
\* The task has not finished: its JoinHandle is not ready.
Live(t)       == Subscribed(t) \/ task[t] \in {"stopping", "failing"}
ProgOf(t)     == ask[t].name
InFlight(r)   == pc[r] \notin {"idle"} \cup Finished

Goto(r, label) == pc' = [pc EXCEPT ![r] = label]

-----------------------------------------------------------------------------
(* The broadcast channel.                                                  *)

\* Mutant: a full receiver keeps everything.
DeliverUnbounded(queue, sig) == Append(queue, sig)

\* A full receiver loses its oldest signal and learns about it at its next recv.
Deliver(queue, sig) ==
  IF Len(queue) < Cap THEN Append(queue, sig) ELSE Append(Tail(queue), sig)

Broadcast(sig) ==
  /\ rx' = [t \in Reqs |-> IF Subscribed(t) THEN Deliver(rx[t], sig) ELSE rx[t]]
  /\ lagged' = [t \in Reqs |-> lagged[t] \/ (Subscribed(t) /\ Len(rx[t]) >= Cap)]

HasReceiver == listening # {} \/ \E t \in Reqs : Subscribed(t)

-----------------------------------------------------------------------------
(* Load: rpc.rs load, then ProgManager::pre_load and ProgManager::load.    *)

\* A request arrives.  The program of a Load is asked for by name and type; a
\* type that does not match is a name that is not found.
Begin(r, op, name, zero) ==
  /\ pc[r] = "idle"
  /\ ask' = [ask EXCEPT ![r] = [op |-> op, name |-> name, zero |-> zero]]
  /\ Goto(r, IF op = "Load" THEN "ids" ELSE "stop")
  /\ UNCHANGED <<program, handles, joins, task, channel>>

\* bpfman is asked for the program ids, and the program is looked up.
LoadResolve(r) ==
  /\ pc[r] = "ids"
  /\ \/ Goto(r, "err")
     \/ /\ ask[r].name \in Progs
        /\ Goto(r, "pre")
  /\ UNCHANGED <<program, handles, ask, joins, task, channel>>

\* pre_load: get_state.
LoadPre(r) ==
  /\ pc[r] = "pre"
  /\ Goto(r, IF state[ProgOf(r)] = "Uninitialized" THEN "init" ELSE "load")
  /\ UNCHANGED <<program, handles, ask, joins, task, channel>>

\* Mutant: the error of init is ignored.
LoadInitIgnoresError(r) ==
  LET p == ProgOf(r) IN
  /\ pc[r] = "init"
  /\ metadata' = [metadata EXCEPT ![p] = IF ask[r].zero THEN "zero" ELSE "set"]
  /\ \E ok \in BOOLEAN : connsMap' = [connsMap EXCEPT ![p] = ok]
  /\ Goto(r, "mark")
  /\ UNCHANGED <<state, handles, ask, joins, task, channel>>

\* pre_load: init stores the metadata before the checks that may fail, and the
\* connections map after them.
LoadInit(r) ==
  LET p == ProgOf(r) IN
  /\ pc[r] = "init"
  /\ metadata' = [metadata EXCEPT ![p] = IF ask[r].zero THEN "zero" ELSE "set"]
  /\ \/ /\ connsMap' = [connsMap EXCEPT ![p] = TRUE]
        /\ Goto(r, "mark")
     \/ /\ UNCHANGED connsMap
        /\ Goto(r, "err")
  /\ UNCHANGED <<state, handles, ask, joins, task, channel>>

\* Mutant: the program is initialised and never started.
LoadMarkOnly(r) ==
  /\ pc[r] = "mark"
  /\ state' = [state EXCEPT ![ProgOf(r)] = "Initialized"]
  /\ Goto(r, "info")
  /\ UNCHANGED <<connsMap, metadata, handles, ask, joins, task, channel>>

\* pre_load: set_state(Initialized).
LoadMark(r) ==
  /\ pc[r] = "mark"
  /\ state' = [state EXCEPT ![ProgOf(r)] = "Initialized"]
  /\ Goto(r, "load")
  /\ UNCHANGED <<connsMap, metadata, handles, ask, joins, task, channel>>

\* Mutant: a program that runs may be started again.
LoadCheckRestarts(r) ==
  /\ pc[r] = "load"
  /\ Goto(r, IF state[ProgOf(r)] \in {"Initialized", "Running"} THEN "spawn" ELSE "err")
  /\ UNCHANGED <<program, handles, ask, joins, task, channel>>

\* load: get_state.
LoadCheck(r) ==
  /\ pc[r] = "load"
  /\ Goto(r, IF state[ProgOf(r)] = "Initialized" THEN "spawn" ELSE "err")
  /\ UNCHANGED <<program, handles, ask, joins, task, channel>>

\* load: subscribe and spawn.
LoadSpawn(r) ==
  /\ pc[r] = "spawn"
  /\ task' = [task EXCEPT ![r] = "spawned"]
  /\ Goto(r, "insert")
  /\ UNCHANGED <<program, handles, ask, joins, channel>>

\* load: the handle is stored; the one it replaces is dropped, which detaches
\* its task.
LoadInsert(r) ==
  /\ pc[r] = "insert"
  /\ handles' = [handles EXCEPT ![ProgOf(r)] = r]
  /\ Goto(r, "info")
  /\ UNCHANGED <<program, ask, joins, task, channel>>

\* get_program_info, and the response.
LoadInfo(r) ==
  /\ pc[r] = "info"
  /\ Goto(r, "ok")
  /\ UNCHANGED <<program, handles, ask, joins, task, channel>>

-----------------------------------------------------------------------------
(* Unload: ProgManager::unload.                                            *)

\* get_program, then stop(), which resets the program.
UnloadStop(r) ==
  LET p == ask[r].name IN
  /\ pc[r] = "stop"
  /\ \/ /\ p \notin Progs
        /\ Goto(r, "err")
        /\ UNCHANGED <<connsMap, metadata>>
     \/ /\ p \in Progs
        /\ connsMap' = [connsMap EXCEPT ![p] = FALSE]
        /\ metadata' = [metadata EXCEPT ![p] = "empty"]
        /\ Goto(r, "send")
  /\ UNCHANGED <<state, handles, ask, joins, task, channel>>

\* shutdown_tx.send fails when there is no receiver at all.
UnloadSend(r) ==
  /\ pc[r] = "send"
  /\ \/ /\ HasReceiver
        /\ Broadcast(ProgOf(r))
        /\ Goto(r, "take")
     \/ /\ ~HasReceiver
        /\ Goto(r, "err")
        /\ UNCHANGED <<rx, lagged>>
  /\ UNCHANGED <<program, handles, ask, joins, task, listening, shutdown>>

\* Mutants: the handle is left in the table; the handle is not awaited.
UnloadTakeLeaves(r) ==
  LET h == handles[ProgOf(r)] IN
  /\ pc[r] = "take"
  /\ joins' = [joins EXCEPT ![r] = h]
  /\ Goto(r, IF h = None THEN "unset" ELSE "await")
  /\ UNCHANGED <<program, handles, ask, task, channel>>

UnloadTakeForgets(r) ==
  /\ pc[r] = "take"
  /\ handles' = [handles EXCEPT ![ProgOf(r)] = None]
  /\ Goto(r, "unset")
  /\ UNCHANGED <<program, ask, joins, task, channel>>

\* The handle, if there is one, is taken out of the table.
UnloadTake(r) ==
  LET h == handles[ProgOf(r)] IN
  /\ pc[r] = "take"
  /\ handles' = [handles EXCEPT ![ProgOf(r)] = None]
  /\ joins' = [joins EXCEPT ![r] = h]
  /\ Goto(r, IF h = None THEN "unset" ELSE "await")
  /\ UNCHANGED <<program, ask, task, channel>>

\* Mutant: the task is aborted instead of awaited, and runs on for a while.
UnloadAwaitNot(r) ==
  /\ pc[r] = "await"
  /\ Goto(r, "unset")
  /\ UNCHANGED <<program, handles, ask, joins, task, channel>>

\* handle.await returns when the task has ended, or with an error, which is
\* logged, when it has panicked.
UnloadAwait(r) ==
  /\ pc[r] = "await"
  /\ ~Live(joins[r])
  /\ Goto(r, "unset")
  /\ UNCHANGED <<program, handles, ask, joins, task, channel>>

\* set_state(Uninitialized).
UnloadUnset(r) ==
  /\ pc[r] = "unset"
  /\ state' = [state EXCEPT ![ProgOf(r)] = "Uninitialized"]
  /\ Goto(r, "ok")
  /\ UNCHANGED <<connsMap, metadata, handles, ask, joins, task, channel>>

\* The client goes away and the handler's future is dropped where it is
\* suspended: in the call to bpfman, or in handle.await.
Disconnect(r) ==
  /\ pc[r] \in {"ids", "await"}
  /\ Goto(r, "gone")
  /\ UNCHANGED <<program, handles, ask, joins, task, channel>>

-----------------------------------------------------------------------------
(* The spawned task: the async block of ProgManager::load around           *)
(* ServiceMap::start.                                                      *)

TaskGoto(t, label) == task' = [task EXCEPT ![t] = label]

\* Mutant: the task does not record that it runs.
TaskRunSilent(t) ==
  /\ task[t] = "spawned"
  /\ TaskGoto(t, "start")
  /\ UNCHANGED <<program, handles, ask, pc, joins, channel>>

\* set_state(Running).
TaskRun(t) ==
  /\ task[t] = "spawned"
  /\ state' = [state EXCEPT ![ProgOf(t)] = "Running"]
  /\ TaskGoto(t, "start")
  /\ UNCHANGED <<connsMap, metadata, handles, ask, pc, joins, channel>>

\* start reads the interval from the metadata; tokio's interval panics on zero.
TaskStart(t) ==
  /\ task[t] = "start"
  /\ TaskGoto(t, IF metadata[ProgOf(t)] = "zero" THEN "panicked" ELSE "select")
  /\ UNCHANGED <<program, handles, ask, pc, joins, channel>>

\* Mutant: an error of poll is logged and the loop goes on.
TaskTickGoesOn(t) ==
  /\ task[t] \in {"select", "tickOnly"}
  /\ \/ TaskGoto(t, "select")
     \/ connsMap[ProgOf(t)] /\ TaskGoto(t, "fold")
  /\ UNCHANGED <<program, handles, ask, pc, joins, channel>>

\* interval.tick(), and the part of poll under the read lock: without a
\* connections map it is an error; otherwise poll goes on to fold the inactive
\* connections, if it met any.
TaskTick(t) ==
  /\ task[t] \in {"select", "tickOnly"}
  /\ \/ /\ connsMap[ProgOf(t)]
        /\ \/ TaskGoto(t, "select")
           \/ TaskGoto(t, "fold")
     \/ /\ ~connsMap[ProgOf(t)]
        /\ TaskGoto(t, "failing")
  /\ UNCHANGED <<program, handles, ask, pc, joins, channel>>

\* The part of poll under the write lock: handle_inactive_connection unwraps
\* the connections map.
TaskFold(t) ==
  /\ task[t] = "fold"
  /\ TaskGoto(t, IF connsMap[ProgOf(t)] THEN "select" ELSE "panicked")
  /\ UNCHANGED <<program, handles, ask, pc, joins, channel>>

\* recv() returns Err(Lagged): the branch is disabled until the next tick.
TaskLag(t) ==
  /\ task[t] = "select"
  /\ lagged[t]
  /\ lagged' = [lagged EXCEPT ![t] = FALSE]
  /\ TaskGoto(t, "tickOnly")
  /\ UNCHANGED <<program, handles, ask, pc, joins, rx, listening, shutdown>>

\* Mutant: the name in the signal is not compared.
StopsOnAny(t, sig) == sig \in Signal

StopsOn(t, sig) == sig = "All" \/ sig = ProgOf(t)

\* recv() returns a signal: for everyone or for this program it ends the loop.
TaskRecv(t) ==
  /\ task[t] = "select"
  /\ ~lagged[t]
  /\ rx[t] # <<>>
  /\ rx' = [rx EXCEPT ![t] = Tail(@)]
  /\ TaskGoto(t, IF StopsOn(t, Head(rx[t])) THEN "stopping" ELSE "select")
  /\ UNCHANGED <<program, handles, ask, pc, joins, lagged, listening, shutdown>>

\* Mutant: the end of the task is not recorded.
TaskEndSilent(t) ==
  /\ task[t] \in {"stopping", "failing"}
  /\ TaskGoto(t, "ended")
  /\ UNCHANGED <<program, handles, ask, pc, joins, channel>>

\* set_state(Stopped) or set_state(Failed), and the task ends.
TaskEnd(t) ==
  /\ task[t] \in {"stopping", "failing"}
  /\ state' = [state EXCEPT ![ProgOf(t)] =
                 IF task[t] = "stopping" THEN "Stopped" ELSE "Failed"]
  /\ TaskGoto(t, "ended")
  /\ UNCHANGED <<connsMap, metadata, handles, ask, pc, joins, channel>>

-----------------------------------------------------------------------------

(* The agent's shutdown handler and listeners (server/mod.rs), as far as   *)
(* the channel knows them.                                                 *)

\* SIGINT or SIGTERM: All is sent once.  Without a receiver the send fails and
\* the handler panics, which changes nothing here.
ShutdownAll ==
  /\ MayStop
  /\ ~shutdown
  /\ shutdown' = TRUE
  /\ \/ HasReceiver /\ Broadcast("All")
     \/ ~HasReceiver /\ UNCHANGED <<rx, lagged>>
  /\ UNCHANGED <<program, handles, ask, pc, joins, task, listening>>

\* A listener returns, on All or on an error, and its receiver is dropped.
ListenerGone(l) ==
  /\ MayStop
  /\ l \in listening
  /\ listening' = listening \ {l}
  /\ UNCHANGED <<program, handles, ask, pc, joins, task, rx, lagged, shutdown>>

-----------------------------------------------------------------------------

Init ==
  /\ state = [p \in Progs |-> "Uninitialized"]
  /\ connsMap = [p \in Progs |-> FALSE]
  /\ metadata = [p \in Progs |-> "empty"]
  /\ handles = [p \in Progs |-> None]
  /\ ask = [r \in Reqs |-> [op |-> "Load", name |-> Unknown, zero |-> FALSE]]
  /\ pc = [r \in Reqs |-> "idle"]
  /\ joins = [r \in Reqs |-> None]
  /\ task = [t \in Reqs |-> "none"]
  /\ rx = [t \in Reqs |-> <<>>]
  /\ lagged = [t \in Reqs |-> FALSE]
  /\ listening = Listeners
  /\ shutdown = FALSE

LoadStep(r) ==
  \/ LoadResolve(r) \/ LoadPre(r) \/ LoadInit(r) \/ LoadMark(r)
  \/ LoadCheck(r) \/ LoadSpawn(r) \/ LoadInsert(r) \/ LoadInfo(r)

UnloadStep(r) ==
  UnloadStop(r) \/ UnloadSend(r) \/ UnloadTake(r) \/ UnloadAwait(r) \/ UnloadUnset(r)

TaskStep(t) ==
  \/ TaskRun(t) \/ TaskStart(t) \/ TaskTick(t) \/ TaskFold(t)
  \/ TaskLag(t) \/ TaskRecv(t) \/ TaskEnd(t)

Arrive(r) == \E i \in Inputs : Begin(r, i.op, i.name, i.zero)

RequestStep(r) ==
  Arrive(r) \/ LoadStep(r) \/ UnloadStep(r) \/ Disconnect(r) \/ TaskStep(r)

Next ==
  \/ \E r \in Reqs : RequestStep(r)
  \/ ShutdownAll
  \/ \E l \in Listeners : ListenerGone(l)

Spec == Init /\ [][Next]_vars

(***************************************************************************)
(* Tokio schedules every runnable handler and task.  A task in its select  *)
(* loop takes the ready branches in random order, so that a waiting signal *)
(* is received eventually even if ticks keep coming.  Clients owe nothing. *)
(***************************************************************************)
Fairness ==
  \A r \in Reqs :
    /\ WF_vars(LoadStep(r))
    /\ WF_vars(UnloadStep(r))
    /\ WF_vars(TaskStep(r))
    /\ SF_vars(TaskRecv(r))

FairSpec == Spec /\ Fairness

-----------------------------------------------------------------------------
(* Commands one at a time: the operator waits for each answer and does not *)
(* hang up.                                                                *)

CommandsNext ==
  \E r \in Reqs :
    \/ (\A q \in Reqs : ~InFlight(q)) /\ Arrive(r)
    \/ LoadStep(r) \/ UnloadStep(r) \/ TaskStep(r)

CommandsSpec == Init /\ [][CommandsNext]_vars

\* Besides, the operator does not load a program that still reads Initialized.
SerialArrive(r) ==
  \E i \in Inputs :
    /\ \A q \in Reqs : ~InFlight(q)
    /\ i.op = "Load" /\ i.name \in Progs => state[i.name] # "Initialized"
    /\ Begin(r, i.op, i.name, i.zero)

SerialNext ==
  \E r \in Reqs : SerialArrive(r) \/ LoadStep(r) \/ UnloadStep(r) \/ TaskStep(r)

SerialSpec == Init /\ [][SerialNext]_vars

-----------------------------------------------------------------------------
(* Properties under any interleaving of requests.                          *)

\* An Unload of p has reset it at some point.
Unloaded(p) ==
  \E r \in Reqs : /\ ask[r].op = "Unload" /\ ProgOf(r) = p
                  /\ pc[r] \notin {"idle", "stop"}

TypeOK ==
  /\ state \in [Progs -> ProgramState]
  /\ connsMap \in [Progs -> BOOLEAN]
  /\ metadata \in [Progs -> {"empty", "set", "zero"}]
  /\ handles \in [Progs -> Reqs \cup {None}]
  /\ ask \in [Reqs -> Request]
  /\ pc \in [Reqs -> RpcPc]
  /\ joins \in [Reqs -> Reqs \cup {None}]
  /\ task \in [Reqs -> TaskPc]
  /\ rx \in [Reqs -> Seq(Signal)] /\ \A t \in Reqs : Len(rx[t]) <= Cap
  /\ lagged \in [Reqs -> BOOLEAN]
  /\ listening \subseteq Listeners
  /\ shutdown \in BOOLEAN

\* A program that reads Running (and whose metrics are therefore collected) has
\* a task that entered start() and has not recorded its end, or that panicked:
\* whatever the requests do, no late write leaves Running behind a task that
\* returned (the async block of ProgManager::load).
RunningHasTask ==
  \A p \in Progs : state[p] = "Running" =>
    \E t \in Reqs :
      /\ ProgOf(t) = p
      /\ task[t] \in {"start", "select", "tickOnly", "fold", "stopping", "failing",
                      "panicked"}

\* Initialized is always a step of some Load on its way to spawning the task,
\* or of a spawned task that has not run yet: the state no request can leave
\* behind (ProgManager::pre_load and load).
InitializedHasOwner ==
  \A p \in Progs : state[p] = "Initialized" =>
    \E r \in Reqs :
      /\ ProgOf(r) = p
      /\ pc[r] \in {"load", "spawn"} \/ task[r] = "spawned"

\* A JoinHandle is of a task of the program it is filed under, and it is either
\* in the table or awaited by one Unload, never both: no Unload waits for
\* another program's task or for a task somebody else waits for.
HandleOwnership ==
  /\ \A p \in Progs : handles[p] # None =>
       /\ ProgOf(handles[p]) = p
       /\ task[handles[p]] # "none"
  /\ \A r \in Reqs : pc[r] = "await" =>
       /\ joins[r] \in Reqs
       /\ ProgOf(joins[r]) = ProgOf(r)
       /\ \A p \in Progs : handles[p] # joins[r]
       /\ \A q \in Reqs : pc[q] = "await" /\ joins[q] = joins[r] => q = r

\* The task of a program leaves its loop only when that program is being
\* unloaded or the agent shuts down: the signal of another program's Unload, or
\* a lagging receiver, never ends it.  It fails, and the program reads Failed,
\* only after an Unload of it: no poll of a loaded program meets an absent map,
\* and a shutdown alone is never reported as a failure (ServiceMap::start).
StoppedByOwnUnload ==
  /\ \A t \in Reqs : task[t] \in {"stopping", "ended"} => shutdown \/ Unloaded(ProgOf(t))
  /\ \A t \in Reqs : task[t] = "failing" => Unloaded(ProgOf(t))
  /\ \A p \in Progs : state[p] = "Failed" => Unloaded(p)

\* No program stays Initialized: each Load that marks it goes on to start it,
\* or the mark is overwritten.
InitializedIsTransient ==
  \A p \in Progs : state[p] = "Initialized" ~> state[p] # "Initialized"

\* An Unload does not wait forever for a task of a program it has reset, even if
\* the task lost the signal to a full channel or subscribed after it was sent:
\* the next tick finds no connections map.
UnloadReturns ==
  \A r \in Reqs :
    []<>~(pc[r] = "await" /\ ~connsMap[ProgOf(r)])

-----------------------------------------------------------------------------
(* The inductive invariant behind the properties above.                    *)

LoadPc   == {"ids", "pre", "init", "mark", "load", "spawn", "insert", "info"}
UnloadPc == {"stop", "send", "take", "await", "unset"}

\* A request that got past the lookup is of a registered program, and a task
\* exists exactly for the Loads that spawned one.
Requests ==
  \A r \in Reqs :
    /\ pc[r] \in LoadPc => ask[r].op = "Load"
    /\ pc[r] \in UnloadPc => ask[r].op = "Unload"
    /\ pc[r] \in (LoadPc \cup UnloadPc) \ {"ids", "stop"} => ProgOf(r) \in Progs
    /\ task[r] # "none"
         <=> ask[r].op = "Load" /\ pc[r] \in {"insert", "info", "ok"}
    /\ task[r] # "none" => ProgOf(r) \in Progs

\* The Load of the task has stored its handle.
Stored(t) == ask[t].op = "Load" /\ pc[t] \in {"info", "ok"}

\* A handle is stored only by the Load that spawned its task.
Inserted ==
  /\ \A p \in Progs : handles[p] # None => Stored(handles[p])
  /\ \A r \in Reqs : pc[r] = "await" => Stored(joins[r])

\* A program that may be polled has its connections map, unless it was unloaded.
Mapped(p) == connsMap[p] \/ Unloaded(p)

MapOrUnloaded ==
  /\ \A p \in Progs : state[p] # "Uninitialized" => Mapped(p)
  /\ \A r \in Reqs : pc[r] \in {"mark", "spawn"} \/ task[r] # "none" => Mapped(ProgOf(r))

\* A signal was sent by the shutdown handler, or by an Unload of the program it
\* names.
Sent(sig) == (sig = "All" /\ shutdown) \/ (sig \in Progs /\ Unloaded(sig))

SignalsFromUnloads == \A t \in Reqs : \A i \in DOMAIN rx[t] : Sent(rx[t][i])

IndInv ==
  /\ TypeOK /\ Requests /\ Inserted /\ MapOrUnloaded /\ SignalsFromUnloads
  /\ RunningHasTask /\ InitializedHasOwner /\ HandleOwnership /\ StoppedByOwnUnload

-----------------------------------------------------------------------------
(* Properties of one command at a time.                                    *)

\* A program has at most one task that has not finished.
OneInstance ==
  \A t, u \in Reqs : Live(t) /\ Live(u) /\ ProgOf(t) = ProgOf(u) => t = u

\* A program that reads Uninitialized, which is what a successful Unload leaves,
\* has no task that could still write its state or poll its map.
UninitializedHasNoTask ==
  \A p \in Progs : state[p] = "Uninitialized" =>
    \A t \in Reqs : ProgOf(t) = p => ~Live(t)

\* The inductive invariant of SerialSpec, next to IndInv.
SerialInv ==
  /\ \A r, q \in Reqs : InFlight(r) /\ InFlight(q) => r = q
  /\ OneInstance
  /\ \A t \in Reqs : Live(t) =>
       /\ state[ProgOf(t)] = IF task[t] = "spawned" THEN "Initialized" ELSE "Running"
       /\ \/ handles[ProgOf(t)] = t
          \/ pc[t] = "insert"
          \/ \E r \in Reqs : pc[r] = "await" /\ joins[r] = t
  /\ \A r \in Reqs :
       /\ pc[r] \in {"ids", "pre"} /\ ProgOf(r) \in Progs
            => state[ProgOf(r)] # "Initialized"
       /\ pc[r] \in {"init", "mark"} => state[ProgOf(r)] = "Uninitialized"
       /\ pc[r] = "spawn" => state[ProgOf(r)] = "Initialized"
       /\ \/ pc[r] = "load" /\ state[ProgOf(r)] = "Initialized"
          \/ pc[r] \in {"spawn", "unset"}
          => \A t \in Reqs : ProgOf(t) = ProgOf(r) => ~Live(t)

\* Once an Unload has succeeded and nothing else is asked, the program stays
\* Uninitialized.  It does when commands come from SerialSpec, where it follows
\* from ImplementsLifecycle; under CommandsSpec a second Load that arrives before
\* the first task has run spawns a task whose handle replaces the first one's,
\* and the next Unload does not wait for the first task.
UnloadedStaysUnloaded ==
  [][\A p \in Progs :
       (\A r \in Reqs : ~InFlight(r)) /\ state[p] = "Uninitialized"
         => state'[p] = "Uninitialized"]_vars

\* One command at a time, the manager implements the life cycle of
\* ProgLifecycle: the map's reset before the signal, the late handle and the
\* status written by the task itself are invisible to the operator.
Lifecycle ==
  INSTANCE ProgLifecycle
    WITH status <- state,
         executing <- [p \in Progs |-> \E t \in Reqs : ProgOf(t) = p /\ Live(t)]

ImplementsLifecycle == Lifecycle!LifecycleSpec
=============================================================================
