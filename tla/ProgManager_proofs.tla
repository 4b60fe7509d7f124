------------------------- MODULE ProgManager_proofs -------------------------
(***************************************************************************)
(* Proofs about ProgManager, for every set of programs and of requests and *)
(* every channel capacity.                                                 *)
(***************************************************************************)
EXTENDS ProgManager, TLAPS

-----------------------------------------------------------------------------
(* Types.                                                                  *)

\* What a receiver holds after a send: still a sequence of signals, of which
\* each was there before or is the new one.
LEMMA DeliverType ==
  ASSUME NEW queue \in Seq(Signal), NEW sig \in Signal
  PROVE  /\ Deliver(queue, sig) \in Seq(Signal)
         /\ Len(queue) <= Cap => Len(Deliver(queue, sig)) <= Cap
         /\ \A i \in DOMAIN Deliver(queue, sig) :
              \/ Deliver(queue, sig)[i] = sig
              \/ \E j \in DOMAIN queue : Deliver(queue, sig)[i] = queue[j]
<1>1. CASE Len(queue) < Cap
  <2>1. Deliver(queue, sig) = Append(queue, sig)
    BY <1>1 DEF Deliver
  <2> QED BY <1>1, <2>1, PMAssumption
<1>2. CASE ~(Len(queue) < Cap)
  <2>1. Deliver(queue, sig) = Append(Tail(queue), sig)
    BY <1>2 DEF Deliver
  <2>2. queue # <<>> /\ Tail(queue) \in Seq(Signal)
    BY <1>2, PMAssumption
  <2>3. \A i \in DOMAIN Tail(queue) : i + 1 \in DOMAIN queue /\ Tail(queue)[i] = queue[i + 1]
    BY <2>2
  <2>4. Len(Append(Tail(queue), sig)) = Len(queue)
    BY <2>2
  <2> QED BY <2>1, <2>2, <2>3, <2>4
<1> QED BY <1>1, <1>2

\* shutdown_tx.send keeps the receivers within the channel's capacity.
LEMMA BroadcastType ==
  ASSUME TypeOK, NEW sig \in Signal, Broadcast(sig)
  PROVE  /\ rx' \in [Reqs -> Seq(Signal)] /\ \A t \in Reqs : Len(rx'[t]) <= Cap
         /\ lagged' \in [Reqs -> BOOLEAN]
<1>1. \A t \in Reqs : Deliver(rx[t], sig) \in Seq(Signal) /\ Len(Deliver(rx[t], sig)) <= Cap
  BY DeliverType DEF TypeOK
<1>2. rx' \in [Reqs -> Seq(Signal)] /\ \A t \in Reqs : Len(rx'[t]) <= Cap
  BY <1>1 DEF TypeOK, Broadcast
<1>3. lagged' \in [Reqs -> BOOLEAN]
  BY DEF TypeOK, Broadcast
<1> QED BY <1>2, <1>3

\* No step of a handler or of its task breaks a type.
LEMMA TypeRequestStep ==
  ASSUME TypeOK, Requests, NEW r \in Reqs, RequestStep(r)
  PROVE  TypeOK'
<1> USE DEF program, channel, TypeOK, RpcPc, TaskPc, Finished, ProgramState, Goto, TaskGoto
<1>1. CASE Arrive(r)
  BY <1>1, PMAssumption DEF Arrive, Begin, Request
<1>2. CASE LoadStep(r)
  <2>1. CASE LoadResolve(r) \/ LoadPre(r) \/ LoadCheck(r) \/ LoadInfo(r)
    BY <2>1 DEF LoadResolve, LoadPre, LoadCheck, LoadInfo
  <2>2. CASE LoadInit(r)
    BY <2>2 DEF LoadInit
  <2>3. CASE LoadMark(r)
    BY <2>3 DEF LoadMark
  <2>4. CASE LoadSpawn(r)
    BY <2>4 DEF LoadSpawn
  <2>5. CASE LoadInsert(r)
    BY <2>5 DEF LoadInsert
  <2> QED BY <1>2, <2>1, <2>2, <2>3, <2>4, <2>5 DEF LoadStep
<1>3. CASE UnloadStep(r)
  <2>1. CASE UnloadStop(r)
    BY <2>1 DEF UnloadStop
  <2>2. CASE UnloadSend(r)
    <3>1. ProgOf(r) \in Signal
      BY <2>2 DEF UnloadSend, Requests, LoadPc, UnloadPc, Signal
    <3>2. CASE Broadcast(ProgOf(r))
      BY <2>2, <3>1, <3>2, BroadcastType DEF UnloadSend
    <3>3. CASE UNCHANGED <<rx, lagged>>
      BY <2>2, <3>3 DEF UnloadSend
    <3> QED BY <2>2, <3>2, <3>3 DEF UnloadSend
  <2>3. CASE UnloadTake(r)
    <3>1. PICK p : p = ProgOf(r) OBVIOUS
    <3>2. handles[p] \in Reqs \cup {None}
      BY <2>3, <3>1 DEF UnloadTake, Requests, UnloadPc
    <3> QED BY <2>3, <3>1, <3>2 DEF UnloadTake
  <2>4. CASE UnloadAwait(r)
    BY <2>4 DEF UnloadAwait
  <2>5. CASE UnloadUnset(r)
    BY <2>5 DEF UnloadUnset
  <2> QED BY <1>3, <2>1, <2>2, <2>3, <2>4, <2>5 DEF UnloadStep
<1>4. CASE Disconnect(r)
  BY <1>4 DEF Disconnect
<1>5. CASE TaskStep(r)
  <2>1. CASE TaskRun(r)
    BY <2>1 DEF TaskRun
  <2>2. CASE TaskStart(r) \/ TaskFold(r)
    BY <2>2 DEF TaskStart, TaskFold
  <2>6. CASE TaskTick(r)
    BY <2>6 DEF TaskTick
  <2>3. CASE TaskLag(r)
    BY <2>3 DEF TaskLag
  <2>4. CASE TaskRecv(r)
    <3>1. Tail(rx[r]) \in Seq(Signal) /\ Len(Tail(rx[r])) <= Cap
      BY <2>4, PMAssumption DEF TaskRecv
    <3> QED BY <2>4, <3>1 DEF TaskRecv
  <2>5. CASE TaskEnd(r)
    BY <2>5 DEF TaskEnd
  <2> QED BY <1>5, <2>1, <2>2, <2>3, <2>4, <2>5, <2>6 DEF TaskStep
<1> QED
  BY <1>1, <1>2, <1>3, <1>4, <1>5 DEF RequestStep

\* No step breaks a type.
LEMMA TypeStep ==
  ASSUME TypeOK, Requests, Next
  PROVE  TypeOK'
<1>1. CASE \E r \in Reqs : RequestStep(r)
  BY <1>1, TypeRequestStep
<1>2. CASE ShutdownAll
  <2>1. CASE Broadcast("All")
    BY <1>2, <2>1, BroadcastType DEF ShutdownAll, TypeOK, program, Signal
  <2>2. CASE UNCHANGED <<rx, lagged>>
    BY <1>2, <2>2 DEF ShutdownAll, TypeOK, program
  <2> QED BY <1>2, <2>1, <2>2 DEF ShutdownAll
<1>3. CASE \E l \in Listeners : ListenerGone(l)
  BY <1>3 DEF ListenerGone, TypeOK, program
<1> QED BY <1>1, <1>2, <1>3 DEF Next

-----------------------------------------------------------------------------
(* Requests, and what an Unload leaves behind.                             *)

\* Handlers stay on the path of what they were asked for: Requests is kept.
LEMMA RequestsStep ==
  ASSUME TypeOK, Requests, Next
  PROVE  Requests'
<1> USE DEF TypeOK, Requests, LoadPc, UnloadPc, ProgOf, Goto, TaskGoto, program, channel
<1>1. ASSUME NEW r \in Reqs, Arrive(r)
      PROVE  Requests'
  BY <1>1, PMAssumption DEF Arrive, Begin
<1>2. ASSUME NEW r \in Reqs, LoadStep(r)
      PROVE  Requests'
  <2>1. CASE LoadResolve(r)
    BY <2>1 DEF LoadResolve
  <2>6. CASE LoadPre(r)
    BY <2>6 DEF LoadPre
  <2>7. CASE LoadCheck(r)
    BY <2>7 DEF LoadCheck
  <2>8. CASE LoadInfo(r)
    BY <2>8 DEF LoadInfo
  <2>2. CASE LoadInit(r)
    BY <2>2 DEF LoadInit
  <2>3. CASE LoadMark(r)
    BY <2>3 DEF LoadMark
  <2>4. CASE LoadSpawn(r)
    BY <2>4 DEF LoadSpawn
  <2>5. CASE LoadInsert(r)
    BY <2>5 DEF LoadInsert
  <2> QED BY <1>2, <2>1, <2>2, <2>3, <2>4, <2>5, <2>6, <2>7, <2>8 DEF LoadStep
<1>3. ASSUME NEW r \in Reqs, UnloadStep(r)
      PROVE  Requests'
  <2>1. CASE UnloadStop(r)
    BY <2>1 DEF UnloadStop
  <2>2. CASE UnloadSend(r)
    BY <2>2 DEF UnloadSend
  <2>3. CASE UnloadTake(r)
    BY <2>3 DEF UnloadTake
  <2>4. CASE UnloadAwait(r)
    BY <2>4 DEF UnloadAwait
  <2>5. CASE UnloadUnset(r)
    BY <2>5 DEF UnloadUnset
  <2> QED BY <1>3, <2>1, <2>2, <2>3, <2>4, <2>5 DEF UnloadStep
<1>4. ASSUME NEW r \in Reqs, Disconnect(r)
      PROVE  Requests'
  BY <1>4 DEF Disconnect
<1>5. ASSUME NEW r \in Reqs, TaskStep(r)
      PROVE  Requests'
  <2>1. CASE TaskRun(r) \/ TaskStart(r) \/ TaskFold(r)
    BY <2>1 DEF TaskRun, TaskStart, TaskFold
  <2>2. CASE TaskTick(r)
    BY <2>2 DEF TaskTick
  <2>3. CASE TaskLag(r) \/ TaskRecv(r) \/ TaskEnd(r)
    BY <2>3 DEF TaskLag, TaskRecv, TaskEnd
  <2> QED BY <1>5, <2>1, <2>2, <2>3 DEF TaskStep
<1>6. CASE ShutdownAll \/ \E l \in Listeners : ListenerGone(l)
  BY <1>6 DEF ShutdownAll, ListenerGone
<1> QED BY <1>1, <1>2, <1>3, <1>4, <1>5, <1>6 DEF Next, RequestStep

\* What a step may change of a request: nothing of what it asks for once it is
\* under way, and only its own handler moves it.
LEMMA RequestMoves ==
  ASSUME TypeOK, Requests, Next, NEW q \in Reqs, pc[q] # "idle"
  PROVE  /\ ask'[q] = ask[q]
         /\ pc'[q] # "idle"
         /\ pc[q] # "stop" => pc'[q] # "stop"
         /\ pc[q] \in {"info", "ok"} => pc'[q] \in {"info", "ok"}
<1> USE DEF TypeOK, Goto, program, channel
<1>1. ASSUME NEW r \in Reqs, Arrive(r)
      PROVE  /\ ask'[q] = ask[q]
             /\ pc'[q] # "idle"
             /\ pc[q] # "stop" => pc'[q] # "stop"
             /\ pc[q] \in {"info", "ok"} => pc'[q] \in {"info", "ok"}
  BY <1>1 DEF Arrive, Begin
<1>2. ASSUME NEW r \in Reqs, LoadStep(r)
      PROVE  /\ ask'[q] = ask[q]
             /\ pc'[q] # "idle"
             /\ pc[q] # "stop" => pc'[q] # "stop"
             /\ pc[q] \in {"info", "ok"} => pc'[q] \in {"info", "ok"}
  BY <1>2 DEF LoadStep, LoadResolve, LoadPre, LoadInit, LoadMark, LoadCheck, LoadSpawn,
     LoadInsert, LoadInfo
<1>3. ASSUME NEW r \in Reqs, UnloadStep(r) \/ Disconnect(r)
      PROVE  /\ ask'[q] = ask[q]
             /\ pc'[q] # "idle"
             /\ pc[q] # "stop" => pc'[q] # "stop"
             /\ pc[q] \in {"info", "ok"} => pc'[q] \in {"info", "ok"}
  BY <1>3 DEF UnloadStep, UnloadStop, UnloadSend, UnloadTake, UnloadAwait, UnloadUnset,
     Disconnect
<1>4. ASSUME NEW r \in Reqs, TaskStep(r)
      PROVE  ask' = ask /\ pc' = pc
  BY <1>4 DEF TaskStep, TaskRun, TaskStart, TaskTick, TaskFold, TaskLag, TaskRecv, TaskEnd
<1>5. CASE ShutdownAll \/ \E l \in Listeners : ListenerGone(l)
  BY <1>5 DEF ShutdownAll, ListenerGone
<1> QED BY <1>1, <1>2, <1>3, <1>4, <1>5 DEF Next, RequestStep

\* Once an Unload has reset a program, that remains so.
LEMMA UnloadedStable ==
  ASSUME TypeOK, Requests, Next, NEW p, Unloaded(p)
  PROVE  Unloaded(p)'
<1>1. PICK r \in Reqs : /\ ask[r].op = "Unload" /\ ProgOf(r) = p
                        /\ pc[r] \notin {"idle", "stop"}
  BY DEF Unloaded
<1>2. ask'[r] = ask[r] /\ pc'[r] \notin {"idle", "stop"}
  BY <1>1, RequestMoves
<1> QED BY <1>1, <1>2 DEF Unloaded, ProgOf

-----------------------------------------------------------------------------
(* The table of handles.                                                   *)

\* Only LoadInsert and UnloadTake touch the table or choose what to await.
LEMMA HandlesFrame ==
  ASSUME TypeOK, Next,
         \A r \in Reqs : ~LoadInsert(r) /\ ~UnloadTake(r)
  PROVE  /\ UNCHANGED <<handles, joins>>
         /\ \A r \in Reqs : pc'[r] = "await" => pc[r] = "await"
<1> USE DEF TypeOK, Goto, program, channel
<1>1. ASSUME NEW q \in Reqs, Arrive(q) \/ LoadStep(q)
      PROVE  /\ UNCHANGED <<handles, joins>>
             /\ \A r \in Reqs : pc'[r] = "await" => pc[r] = "await"
  BY <1>1 DEF Arrive, Begin, LoadStep, LoadResolve, LoadPre, LoadInit, LoadMark, LoadCheck,
     LoadSpawn, LoadInfo
<1>2. ASSUME NEW q \in Reqs, UnloadStep(q) \/ Disconnect(q)
      PROVE  /\ UNCHANGED <<handles, joins>>
             /\ \A r \in Reqs : pc'[r] = "await" => pc[r] = "await"
  BY <1>2 DEF UnloadStep, UnloadStop, UnloadSend, UnloadAwait, UnloadUnset, Disconnect
<1>3. ASSUME NEW q \in Reqs, TaskStep(q)
      PROVE  UNCHANGED <<handles, joins, pc>>
  BY <1>3 DEF TaskStep, TaskRun, TaskStart, TaskTick, TaskFold, TaskLag, TaskRecv, TaskEnd
<1>4. CASE ShutdownAll \/ \E l \in Listeners : ListenerGone(l)
  BY <1>4 DEF ShutdownAll, ListenerGone
<1> QED BY <1>1, <1>2, <1>3, <1>4 DEF Next, RequestStep

\* A Load whose handle has been stored stays one.
LEMMA StoredStable ==
  ASSUME TypeOK, Requests, Next, NEW q \in Reqs, Stored(q)
  PROVE  Stored(q)' /\ ask'[q] = ask[q]
BY RequestMoves DEF Stored

\* Handles in the table or awaited come from a Load's insert: Inserted is kept.
LEMMA InsertedStep ==
  ASSUME TypeOK, Requests, Inserted, HandleOwnership, Next
  PROVE  Inserted'
<1>1. \A q \in Reqs : Stored(q) => Stored(q)'
  BY StoredStable
<1>2. \A p \in Progs : handles[p] # None => handles[p] \in Reqs /\ Stored(handles[p])
  BY DEF TypeOK, Inserted
<1>3. \A q \in Reqs : pc[q] = "await" => joins[q] \in Reqs /\ Stored(joins[q])
  BY DEF HandleOwnership, Inserted
<1>4. ASSUME NEW r \in Reqs, LoadInsert(r)
      PROVE  Inserted'
  <2>1. Stored(r)'
    BY <1>4 DEF LoadInsert, Goto, TypeOK, Requests, LoadPc, Stored
  <2>2. \A p \in Progs : handles'[p] = r \/ handles'[p] = handles[p]
    BY <1>4 DEF LoadInsert, TypeOK
  <2>3. joins' = joins /\ \A q \in Reqs : pc'[q] = "await" => pc[q] = "await"
    BY <1>4 DEF LoadInsert, Goto, TypeOK
  <2> QED BY <1>1, <1>2, <1>3, <2>1, <2>2, <2>3 DEF Inserted
<1>5. ASSUME NEW r \in Reqs, UnloadTake(r)
      PROVE  Inserted'
  <2>1. ProgOf(r) \in Progs
    BY <1>5 DEF UnloadTake, Requests, UnloadPc
  <2>2. \A p \in Progs : handles'[p] = None \/ handles'[p] = handles[p]
    BY <1>5 DEF UnloadTake, TypeOK
  <2>3. joins'[r] = handles[ProgOf(r)] /\ (pc'[r] = "await" => handles[ProgOf(r)] # None)
    BY <1>5 DEF UnloadTake, Goto, TypeOK
  <2>4. \A q \in Reqs \ {r} : joins'[q] = joins[q] /\ pc'[q] = pc[q]
    BY <1>5 DEF UnloadTake, Goto, TypeOK
  <2> QED BY <1>1, <1>2, <1>3, <2>1, <2>2, <2>3, <2>4 DEF Inserted
<1>6. CASE \A r \in Reqs : ~LoadInsert(r) /\ ~UnloadTake(r)
  BY <1>1, <1>2, <1>3, <1>6, HandlesFrame DEF Inserted
<1> QED BY <1>4, <1>5, <1>6

\* program_handles.insert and remove keep every handle with one owner.
LEMMA HandleOwnershipStep ==
  ASSUME TypeOK, Requests, Inserted, HandleOwnership, Next, Requests', Inserted'
  PROVE  HandleOwnership'
<1>1. \A q \in Reqs : Stored(q)' => task'[q] # "none"
  BY DEF Requests, Stored
<1>2. \A q \in Reqs : Stored(q) => Stored(q)' /\ ask'[q] = ask[q]
  BY StoredStable
<1>3. \A p \in Progs : handles[p] # None =>
        /\ handles[p] \in Reqs /\ Stored(handles[p]) /\ ask[handles[p]].name = p
  BY DEF TypeOK, Inserted, HandleOwnership, ProgOf
<1>4. \A q \in Reqs : pc[q] = "await" =>
        /\ joins[q] \in Reqs /\ Stored(joins[q])
        /\ ask[joins[q]].name = ask[q].name
        /\ \A p \in Progs : handles[p] # joins[q]
        /\ \A z \in Reqs : pc[z] = "await" /\ joins[z] = joins[q] => z = q
  BY DEF Inserted, HandleOwnership, ProgOf
<1>5. \A q \in Reqs : pc[q] = "await" => ask'[q] = ask[q]
  BY RequestMoves
<1>6. ASSUME NEW r \in Reqs, LoadInsert(r)
      PROVE  HandleOwnership'
  <2>1. Stored(r)' /\ ask' = ask /\ ~Stored(r)
    BY <1>6 DEF LoadInsert, Goto, TypeOK, Requests, LoadPc, Stored
  <2>2. \A p \in Progs : handles'[p] = IF p = ask[r].name THEN r ELSE handles[p]
    BY <1>6 DEF LoadInsert, TypeOK, ProgOf
  <2>3. joins' = joins /\ \A q \in Reqs : pc'[q] = "await" => pc[q] = "await"
    BY <1>6 DEF LoadInsert, Goto, TypeOK
  <2>4. \A p \in Progs : handles'[p] # None =>
          ask'[handles'[p]].name = p /\ task'[handles'[p]] # "none"
    BY <1>1, <1>2, <1>3, <2>1, <2>2
  <2>5. \A q \in Reqs : pc'[q] = "await" => \A p \in Progs : handles'[p] # joins'[q]
    BY <1>4, <2>1, <2>2, <2>3
  <2> QED BY <1>4, <2>1, <2>3, <2>4, <2>5 DEF HandleOwnership, ProgOf
<1>7. ASSUME NEW r \in Reqs, UnloadTake(r)
      PROVE  HandleOwnership'
  <2> DEFINE n == ask[r].name
  <2>1. n \in Progs /\ ask' = ask /\ task' = task
    BY <1>7 DEF UnloadTake, Requests, UnloadPc, ProgOf
  <2>2. \A p \in Progs : handles'[p] = IF p = n THEN None ELSE handles[p]
    BY <1>7 DEF UnloadTake, TypeOK, ProgOf
  <2>3. joins'[r] = handles[n] /\ (pc'[r] = "await" => handles[n] # None)
    BY <1>7 DEF UnloadTake, Goto, TypeOK, ProgOf
  <2>4. \A q \in Reqs \ {r} : joins'[q] = joins[q] /\ pc'[q] = pc[q]
    BY <1>7 DEF UnloadTake, Goto, TypeOK
  <2> HIDE DEF n
  <2>5. \A p \in Progs : handles'[p] # None =>
          ask'[handles'[p]].name = p /\ task'[handles'[p]] # "none"
    BY <1>1, <1>2, <1>3, <2>1, <2>2
  <2>6. ASSUME NEW q \in Reqs, pc'[q] = "await"
        PROVE  /\ joins'[q] \in Reqs
               /\ ask'[joins'[q]].name = ask'[q].name
               /\ \A p \in Progs : handles'[p] # joins'[q]
               /\ \A z \in Reqs : pc'[z] = "await" /\ joins'[z] = joins'[q] => z = q
    <3>1. CASE q = r
      BY <1>3, <1>4, <2>1, <2>2, <2>3, <2>4, <2>6, <3>1 DEF n
    <3>2. CASE q # r
      BY <1>3, <1>4, <2>1, <2>2, <2>3, <2>4, <2>6, <3>2, PMAssumption
    <3> QED BY <3>1, <3>2
  <2> QED BY <2>5, <2>6 DEF HandleOwnership, ProgOf
<1>8. CASE \A r \in Reqs : ~LoadInsert(r) /\ ~UnloadTake(r)
  <2>1. /\ handles' = handles /\ joins' = joins
        /\ \A r \in Reqs : pc'[r] = "await" => pc[r] = "await"
    BY <1>8, HandlesFrame
  <2>2. \A p \in Progs : handles'[p] # None =>
          ask'[handles'[p]].name = p /\ task'[handles'[p]] # "none"
    BY <1>1, <1>2, <1>3, <2>1
  <2>3. \A q \in Reqs : pc'[q] = "await" =>
          /\ joins'[q] \in Reqs
          /\ ask'[joins'[q]].name = ask'[q].name
          /\ \A p \in Progs : handles'[p] # joins'[q]
          /\ \A z \in Reqs : pc'[z] = "await" /\ joins'[z] = joins'[q] => z = q
    BY <1>2, <1>4, <1>5, <2>1
  <2> QED BY <2>2, <2>3 DEF HandleOwnership, ProgOf
<1> QED BY <1>6, <1>7, <1>8

-----------------------------------------------------------------------------
(* The connections map, and the signals.                                   *)

\* A program keeps its map until an Unload of it takes it away.
LEMMA MapStable ==
  ASSUME TypeOK, Requests, Next, NEW p \in Progs, Mapped(p)
  PROVE  Mapped(p)'
<1>1. CASE Unloaded(p)
  BY <1>1, UnloadedStable DEF Mapped
<1> USE DEF program, Mapped
<1>2. ASSUME connsMap[p], NEW r \in Reqs, UnloadStop(r)
      PROVE  Mapped(p)'
  <2>1. CASE ask[r].name = p
    <3>1. /\ ask[r].op = "Unload" /\ ask'[r] = ask[r]
          /\ pc'[r] = "send"
      BY <1>2, <2>1 DEF UnloadStop, Requests, UnloadPc, Goto, TypeOK
    <3> QED BY <2>1, <3>1 DEF Unloaded, ProgOf
  <2>2. CASE ask[r].name # p
    BY <1>2, <2>2 DEF UnloadStop, TypeOK
  <2> QED BY <2>1, <2>2
<1>3. ASSUME connsMap[p], NEW r \in Reqs, LoadStep(r)
      PROVE  connsMap'[p]
  BY <1>3 DEF LoadStep, LoadResolve, LoadPre, LoadInit, LoadMark, LoadCheck, LoadSpawn,
     LoadInsert, LoadInfo, TypeOK
<1>4. ASSUME NEW r \in Reqs,
             Arrive(r) \/ UnloadSend(r) \/ UnloadTake(r) \/ UnloadAwait(r) \/ UnloadUnset(r)
               \/ Disconnect(r)
      PROVE  connsMap' = connsMap
  BY <1>4 DEF Arrive, Begin, UnloadSend, UnloadTake, UnloadAwait, UnloadUnset, Disconnect
<1>5. ASSUME NEW r \in Reqs, TaskStep(r)
      PROVE  connsMap' = connsMap
  BY <1>5 DEF TaskStep, TaskRun, TaskStart, TaskTick, TaskFold, TaskLag, TaskRecv, TaskEnd
<1>6. CASE ShutdownAll \/ \E l \in Listeners : ListenerGone(l)
  BY <1>1, <1>6 DEF ShutdownAll, ListenerGone
<1> QED BY <1>1, <1>2, <1>3, <1>4, <1>5, <1>6 DEF Next, RequestStep, UnloadStep

\* Where a state other than Uninitialized comes from, and what brings a request
\* to the point where its program must have a map.
LEMMA MapOrigins ==
  ASSUME TypeOK, Requests, Next
  PROVE  /\ \A p \in Progs : state'[p] # "Uninitialized" =>
              \/ state[p] # "Uninitialized"
              \/ \E q \in Reqs : (pc[q] = "mark" \/ task[q] # "none") /\ ask[q].name = p
         /\ \A q \in Reqs : pc'[q] \in {"mark", "spawn"} \/ task'[q] # "none" =>
              \/ pc[q] \in {"mark", "spawn"} \/ task[q] # "none"
              \/ pc[q] = "init" /\ connsMap'[ask[q].name]
              \/ pc[q] = "load" /\ state[ask[q].name] = "Initialized"
<1> USE DEF TypeOK, ProgOf, Goto, TaskGoto, program, channel
<1>1. ASSUME NEW r \in Reqs, LoadStep(r)
      PROVE  /\ \A p \in Progs : state'[p] # "Uninitialized" =>
                  \/ state[p] # "Uninitialized"
                  \/ \E q \in Reqs : pc[q] = "mark" /\ ask[q].name = p
             /\ \A q \in Reqs : pc'[q] \in {"mark", "spawn"} \/ task'[q] # "none" =>
                  \/ pc[q] \in {"mark", "spawn"} \/ task[q] # "none"
                  \/ pc[q] = "init" /\ connsMap'[ask[q].name]
                  \/ pc[q] = "load" /\ state[ask[q].name] = "Initialized"
  <2>1. CASE LoadInit(r)
    BY <2>1 DEF LoadInit, Requests, LoadPc
  <2>2. CASE LoadMark(r)
    BY <2>2 DEF LoadMark
  <2>3. CASE LoadCheck(r)
    BY <2>3 DEF LoadCheck
  <2>4. CASE LoadSpawn(r)
    BY <2>4 DEF LoadSpawn
  <2>5. CASE LoadResolve(r) \/ LoadPre(r) \/ LoadInsert(r) \/ LoadInfo(r)
    BY <2>5 DEF LoadResolve, LoadPre, LoadInsert, LoadInfo
  <2> QED BY <1>1, <2>1, <2>2, <2>3, <2>4, <2>5 DEF LoadStep
<1>2. ASSUME NEW r \in Reqs, Arrive(r) \/ UnloadStep(r) \/ Disconnect(r)
      PROVE  /\ \A p \in Progs : state'[p] # "Uninitialized" => state[p] # "Uninitialized"
             /\ \A q \in Reqs : pc'[q] \in {"mark", "spawn"} => pc[q] \in {"mark", "spawn"}
             /\ task' = task
  BY <1>2 DEF Arrive, Begin, UnloadStep, UnloadStop, UnloadSend, UnloadTake, UnloadAwait,
     UnloadUnset, Disconnect
<1>3. ASSUME NEW r \in Reqs, TaskStep(r)
      PROVE  /\ task[r] # "none"
             /\ \A p \in Progs : state'[p] # state[p] => ask[r].name = p
             /\ \A q \in Reqs \ {r} : task'[q] = task[q]
             /\ pc' = pc
  <2>1. CASE TaskRun(r) \/ TaskEnd(r)
    BY <2>1 DEF TaskRun, TaskEnd
  <2>2. CASE TaskStart(r) \/ TaskTick(r) \/ TaskFold(r)
    BY <2>2 DEF TaskStart, TaskTick, TaskFold
  <2>3. CASE TaskLag(r) \/ TaskRecv(r)
    BY <2>3 DEF TaskLag, TaskRecv
  <2> QED BY <1>3, <2>1, <2>2, <2>3 DEF TaskStep
<1>4. CASE ShutdownAll \/ \E l \in Listeners : ListenerGone(l)
  BY <1>4 DEF ShutdownAll, ListenerGone
<1>5. CASE \E r \in Reqs : TaskStep(r)
  BY <1>3, <1>5
<1> QED BY <1>1, <1>2, <1>4, <1>5 DEF Next, RequestStep

\* A program past init has its map, or was unloaded: MapOrUnloaded is kept.
LEMMA MapOrUnloadedStep ==
  ASSUME TypeOK, Requests, MapOrUnloaded, Next
  PROVE  MapOrUnloaded'
<1>1. \A p \in Progs : Mapped(p) => Mapped(p)'
  BY MapStable
<1>2. ASSUME NEW q \in Reqs, pc[q] \in {"init", "mark", "load", "spawn"} \/ task[q] # "none"
      PROVE  ask[q].name \in Progs /\ ask'[q] = ask[q]
  BY <1>2, RequestMoves DEF Requests, LoadPc, UnloadPc, ProgOf
<1>3. \A q \in Reqs : pc[q] \in {"mark", "spawn"} \/ task[q] # "none" => Mapped(ask[q].name)
  BY DEF MapOrUnloaded, ProgOf
<1>4. ASSUME NEW p \in Progs, state'[p] # "Uninitialized"
      PROVE  Mapped(p)'
  BY <1>1, <1>2, <1>3, <1>4, MapOrigins DEF MapOrUnloaded
<1>5. ASSUME NEW q \in Reqs, pc'[q] \in {"mark", "spawn"} \/ task'[q] # "none"
      PROVE  Mapped(ProgOf(q))'
  <2>1. /\ ask[q].name \in Progs /\ ask'[q] = ask[q]
        /\ Mapped(ask[q].name) \/ connsMap'[ask[q].name]
    BY <1>2, <1>3, <1>5, MapOrigins DEF MapOrUnloaded
  <2>2. PICK n \in Progs : n = ask[q].name
    BY <2>1
  <2>3. Mapped(n)'
    BY <1>1, <2>1, <2>2 DEF Mapped
  <2>4. ProgOf(q)' = n
    BY <2>1, <2>2 DEF ProgOf
  <2> QED BY <2>3, <2>4
<1> QED BY <1>4, <1>5 DEF MapOrUnloaded

\* shutdown_handler sends All once and for all.
LEMMA ShutdownStable ==
  ASSUME Next, shutdown
  PROVE  shutdown'
<1> USE DEF program, channel
<1>1. ASSUME NEW r \in Reqs, Arrive(r) \/ LoadStep(r)
      PROVE  shutdown' = shutdown
  BY <1>1 DEF Arrive, Begin, LoadStep, LoadResolve, LoadPre, LoadInit, LoadMark, LoadCheck,
     LoadSpawn, LoadInsert, LoadInfo
<1>2. ASSUME NEW r \in Reqs, UnloadStep(r) \/ Disconnect(r)
      PROVE  shutdown' = shutdown
  BY <1>2 DEF UnloadStep, UnloadStop, UnloadSend, UnloadTake, UnloadAwait, UnloadUnset,
     Disconnect
<1>3. ASSUME NEW r \in Reqs, TaskStep(r)
      PROVE  shutdown' = shutdown
  BY <1>3 DEF TaskStep, TaskRun, TaskStart, TaskTick, TaskFold, TaskLag, TaskRecv, TaskEnd
<1> QED BY <1>1, <1>2, <1>3 DEF Next, RequestStep, ShutdownAll, ListenerGone

\* What a receiver holds was there before, or has just been sent.
LEMMA RxOrigins ==
  ASSUME TypeOK, Requests, Next, NEW t \in Reqs, NEW i \in DOMAIN rx'[t]
  PROVE  \/ \E j \in DOMAIN rx[t] : rx'[t][i] = rx[t][j]
         \/ rx'[t][i] = "All" /\ shutdown'
         \/ \E r \in Reqs : /\ rx'[t][i] = ask[r].name /\ ask[r].name \in Progs
                            /\ ask[r].op = "Unload" /\ pc[r] = "send"
<1> DEFINE Kept == \E j \in DOMAIN rx[t] : rx'[t][i] = rx[t][j]
<1>1. ASSUME NEW sig \in Signal, Broadcast(sig)
      PROVE  Kept \/ rx'[t][i] = sig
  <2>1. rx'[t] = rx[t] \/ rx'[t] = Deliver(rx[t], sig)
    BY <1>1 DEF Broadcast
  <2> QED BY <2>1, DeliverType DEF TypeOK
<1>2. ASSUME NEW r \in Reqs, UnloadSend(r)
      PROVE  \/ Kept
             \/ /\ rx'[t][i] = ask[r].name /\ ask[r].name \in Progs
                /\ ask[r].op = "Unload" /\ pc[r] = "send"
  <2>1. ask[r].name \in Progs /\ ask[r].op = "Unload" /\ pc[r] = "send"
    BY <1>2 DEF UnloadSend, Requests, UnloadPc, ProgOf
  <2>2. Broadcast(ask[r].name) \/ rx' = rx
    BY <1>2 DEF UnloadSend, ProgOf
  <2> QED BY <1>1, <2>1, <2>2 DEF Signal
<1>3. ASSUME ShutdownAll
      PROVE  Kept \/ (rx'[t][i] = "All" /\ shutdown')
  BY <1>1, <1>3 DEF ShutdownAll, Signal
<1>4. ASSUME NEW r \in Reqs, TaskRecv(r)
      PROVE  Kept
  <2>1. CASE t = r
    <3>1. rx[t] # <<>> /\ rx[t] \in Seq(Signal) /\ rx'[t] = Tail(rx[t])
      BY <1>4, <2>1 DEF TaskRecv, TypeOK
    <3>2. i + 1 \in DOMAIN rx[t] /\ rx'[t][i] = rx[t][i + 1]
      BY <3>1
    <3> QED BY <3>2
  <2>2. CASE t # r
    BY <1>4, <2>2 DEF TaskRecv, TypeOK
  <2> QED BY <2>1, <2>2
<1> USE DEF program, channel
<1>5. ASSUME NEW r \in Reqs, Arrive(r) \/ LoadStep(r)
      PROVE  rx' = rx
  BY <1>5 DEF Arrive, Begin, LoadStep, LoadResolve, LoadPre, LoadInit, LoadMark, LoadCheck,
     LoadSpawn, LoadInsert, LoadInfo
<1>6. ASSUME NEW r \in Reqs,
             UnloadStop(r) \/ UnloadTake(r) \/ UnloadAwait(r) \/ UnloadUnset(r) \/ Disconnect(r)
      PROVE  rx' = rx
  BY <1>6 DEF UnloadStop, UnloadTake, UnloadAwait, UnloadUnset, Disconnect
<1>7. ASSUME NEW r \in Reqs,
             TaskRun(r) \/ TaskStart(r) \/ TaskTick(r) \/ TaskFold(r) \/ TaskLag(r) \/ TaskEnd(r)
      PROVE  rx' = rx
  BY <1>7 DEF TaskRun, TaskStart, TaskTick, TaskFold, TaskLag, TaskEnd
<1>8. ASSUME NEW l \in Listeners, ListenerGone(l)
      PROVE  rx' = rx
  BY <1>8 DEF ListenerGone
<1>9. rx' = rx => Kept
  OBVIOUS
<1> HIDE DEF Kept
<1>10. \/ Kept
       \/ rx'[t][i] = "All" /\ shutdown'
       \/ \E r \in Reqs : /\ rx'[t][i] = ask[r].name /\ ask[r].name \in Progs
                          /\ ask[r].op = "Unload" /\ pc[r] = "send"
  BY <1>2, <1>3, <1>4, <1>5, <1>6, <1>7, <1>8, <1>9
     DEF Next, RequestStep, UnloadStep, TaskStep
<1> QED BY <1>10 DEF Kept

\* A signal that was sent stays sent.
LEMMA SentStable ==
  ASSUME TypeOK, Requests, Next, NEW sig, Sent(sig)
  PROVE  Sent(sig)'
BY UnloadedStable, ShutdownStable DEF Sent

\* Receivers only hold signals that were sent: SignalsFromUnloads is kept.
LEMMA SignalsStep ==
  ASSUME TypeOK, Requests, SignalsFromUnloads, Next
  PROVE  SignalsFromUnloads'
<1>1. ASSUME NEW t \in Reqs, NEW i \in DOMAIN rx'[t]
      PROVE  Sent(rx[t][i])'
  <2>1. PICK sig : sig = rx'[t][i]
    OBVIOUS
  <2>2. CASE \E j \in DOMAIN rx[t] : sig = rx[t][j]
    BY <2>2, SentStable, <2>1 DEF SignalsFromUnloads
  <2>3. CASE sig = "All" /\ shutdown'
    BY <2>1, <2>3 DEF Sent
  <2>4. CASE \E r \in Reqs : /\ sig = ask[r].name /\ ask[r].name \in Progs
                            /\ ask[r].op = "Unload" /\ pc[r] = "send"
    <3>1. Sent(sig)
      BY <2>4 DEF Sent, Unloaded, ProgOf
    <3> QED BY <2>1, <3>1, SentStable
  <2> QED BY <2>1, <2>2, <2>3, <2>4, RxOrigins
<1> QED BY <1>1 DEF SignalsFromUnloads

-----------------------------------------------------------------------------
(* The states and the tasks.                                               *)

\* Where a task is after a step, and what it did to get there.
LEMMA TaskOrigins ==
  ASSUME TypeOK, Requests, Next, NEW t \in Reqs
  PROVE  \/ task'[t] = task[t]
         \/ LoadSpawn(t) /\ task'[t] = "spawned"
         \/ TaskRun(t) /\ task'[t] = "start"
         \/ task[t] = "start" /\ task'[t] \in {"select", "panicked"}
         \/ /\ task[t] \in {"select", "tickOnly", "fold"}
            /\ task'[t] \in {"select", "tickOnly", "fold", "panicked"}
         \/ /\ task[t] \in {"select", "tickOnly"} /\ ~connsMap[ask[t].name]
            /\ task'[t] = "failing"
         \/ /\ task[t] = "select" /\ task'[t] = "stopping"
            /\ \E i \in DOMAIN rx[t] : rx[t][i] = "All" \/ rx[t][i] = ask[t].name
         \/ TaskEnd(t) /\ task'[t] = "ended"
<1> USE DEF TypeOK, ProgOf, TaskGoto, program, channel
<1>1. ASSUME NEW r \in Reqs, LoadSpawn(r)
      PROVE  task'[t] = task[t] \/ (LoadSpawn(t) /\ task'[t] = "spawned")
  <2>1. CASE r = t
    BY <1>1, <2>1 DEF LoadSpawn
  <2>2. CASE r # t
    BY <1>1, <2>2 DEF LoadSpawn
  <2> QED BY <2>1, <2>2
<1>2. ASSUME NEW r \in Reqs,
             \/ Arrive(r) \/ LoadResolve(r) \/ LoadPre(r) \/ LoadInit(r) \/ LoadMark(r)
             \/ LoadCheck(r) \/ LoadInsert(r) \/ LoadInfo(r) \/ UnloadStep(r) \/ Disconnect(r)
      PROVE  task' = task
  BY <1>2 DEF Arrive, Begin, LoadResolve, LoadPre, LoadInit, LoadMark, LoadCheck, LoadInsert,
     LoadInfo, UnloadStep, UnloadStop, UnloadSend, UnloadTake, UnloadAwait, UnloadUnset,
     Disconnect
<1>3. CASE ShutdownAll \/ \E l \in Listeners : ListenerGone(l)
  BY <1>3 DEF ShutdownAll, ListenerGone
<1>4. ASSUME NEW r \in Reqs, TaskStep(r), r # t
      PROVE  task'[t] = task[t]
  BY <1>4 DEF TaskStep, TaskRun, TaskStart, TaskTick, TaskFold, TaskLag, TaskRecv, TaskEnd
<1>5. CASE TaskRun(t)
  BY <1>5 DEF TaskRun
<1>6. CASE TaskStart(t)
  BY <1>6 DEF TaskStart
<1>7. CASE TaskTick(t)
  BY <1>7 DEF TaskTick
<1>8. CASE TaskFold(t)
  BY <1>8 DEF TaskFold
<1>9. CASE TaskLag(t)
  BY <1>9 DEF TaskLag
<1>10. CASE TaskRecv(t)
  <2>1. CASE StopsOn(t, Head(rx[t]))
    <3>1. 1 \in DOMAIN rx[t] /\ Head(rx[t]) = rx[t][1]
      BY <1>10 DEF TaskRecv
    <3>2. rx[t][1] = "All" \/ rx[t][1] = ask[t].name
      BY <2>1, <3>1 DEF StopsOn
    <3>3. task[t] = "select" /\ task'[t] = "stopping"
      BY <1>10, <2>1 DEF TaskRecv
    <3> QED BY <3>1, <3>2, <3>3
  <2>2. CASE ~StopsOn(t, Head(rx[t]))
    BY <1>10, <2>2 DEF TaskRecv
  <2> QED BY <2>1, <2>2
<1>11. CASE TaskEnd(t)
  BY <1>11 DEF TaskEnd
<1>12. CASE TaskStep(t)
  BY <1>5, <1>6, <1>7, <1>8, <1>9, <1>10, <1>11, <1>12 DEF TaskStep
<1> QED BY <1>1, <1>2, <1>3, <1>4, <1>12 DEF Next, RequestStep, LoadStep

\* Where the state of a program after a step comes from.
LEMMA StateOrigins ==
  ASSUME TypeOK, Requests, Next, NEW p \in Progs
  PROVE  \/ state'[p] = state[p]
         \/ state'[p] = "Uninitialized"
         \/ \E r \in Reqs : /\ LoadMark(r) /\ ask[r].name = p /\ state'[p] = "Initialized"
         \/ \E t \in Reqs : /\ TaskRun(t) /\ ask[t].name = p /\ state'[p] = "Running"
         \/ \E t \in Reqs : /\ TaskEnd(t) /\ ask[t].name = p
                            /\ state'[p] = IF task[t] = "stopping" THEN "Stopped" ELSE "Failed"
<1> USE DEF TypeOK, ProgOf, program, channel
<1>1. ASSUME NEW r \in Reqs, LoadMark(r)
      PROVE  state'[p] = state[p] \/ (ask[r].name = p /\ state'[p] = "Initialized")
  BY <1>1 DEF LoadMark
<1>2. ASSUME NEW r \in Reqs, UnloadUnset(r)
      PROVE  state'[p] = state[p] \/ state'[p] = "Uninitialized"
  BY <1>2 DEF UnloadUnset
<1>3. ASSUME NEW t \in Reqs, TaskRun(t)
      PROVE  state'[p] = state[p] \/ (ask[t].name = p /\ state'[p] = "Running")
  BY <1>3 DEF TaskRun
<1>4. ASSUME NEW t \in Reqs, TaskEnd(t)
      PROVE  \/ state'[p] = state[p]
             \/ /\ ask[t].name = p
                /\ state'[p] = IF task[t] = "stopping" THEN "Stopped" ELSE "Failed"
  BY <1>4 DEF TaskEnd
<1>5. ASSUME NEW r \in Reqs,
             \/ Arrive(r) \/ LoadResolve(r) \/ LoadPre(r) \/ LoadInit(r) \/ LoadCheck(r)
             \/ LoadSpawn(r) \/ LoadInsert(r) \/ LoadInfo(r) \/ Disconnect(r)
      PROVE  state' = state
  BY <1>5 DEF Arrive, Begin, LoadResolve, LoadPre, LoadInit, LoadCheck, LoadSpawn, LoadInsert,
     LoadInfo, Disconnect
<1>6. ASSUME NEW r \in Reqs,
             UnloadStop(r) \/ UnloadSend(r) \/ UnloadTake(r) \/ UnloadAwait(r)
      PROVE  state' = state
  BY <1>6 DEF UnloadStop, UnloadSend, UnloadTake, UnloadAwait
<1>7. ASSUME NEW r \in Reqs,
             TaskStart(r) \/ TaskTick(r) \/ TaskFold(r) \/ TaskLag(r) \/ TaskRecv(r)
      PROVE  state' = state
  BY <1>7 DEF TaskStart, TaskTick, TaskFold, TaskLag, TaskRecv
<1>8. CASE ShutdownAll \/ \E l \in Listeners : ListenerGone(l)
  BY <1>8 DEF ShutdownAll, ListenerGone
<1> QED
  BY <1>1, <1>2, <1>3, <1>4, <1>5, <1>6, <1>7, <1>8
     DEF Next, RequestStep, LoadStep, UnloadStep, TaskStep

\* A request with a task is past its arrival, so that it keeps its name.
LEMMA TaskKeepsName ==
  ASSUME TypeOK, Requests, Next, NEW t \in Reqs,
         task[t] # "none" \/ pc[t] \in {"load", "spawn"}
  PROVE  ask'[t] = ask[t] /\ ask[t].name \in Progs /\ pc[t] # "idle"
BY RequestMoves DEF Requests, ProgOf, LoadPc, UnloadPc

\* No late set_state leaves Running behind a task that returned.
LEMMA RunningHasTaskStep ==
  ASSUME TypeOK, Requests, RunningHasTask, Next
  PROVE  RunningHasTask'
<1> DEFINE S == {"start", "select", "tickOnly", "fold", "stopping", "failing", "panicked"}
<1> SUFFICES ASSUME NEW p \in Progs, state'[p] = "Running"
             PROVE  \E t \in Reqs : ask'[t].name = p /\ task'[t] \in S
  BY DEF RunningHasTask, ProgOf
<1>1. CASE state[p] = "Running"
  <2>1. PICK t \in Reqs : ask[t].name = p /\ task[t] \in S
    BY <1>1 DEF RunningHasTask, ProgOf
  <2>2. ask'[t].name = p
    BY <2>1, TaskKeepsName
  <2>3. ~TaskEnd(t)
    BY <2>1 DEF TaskEnd, ProgOf, TypeOK
  <2>4. ~LoadSpawn(t)
    BY <2>1 DEF LoadSpawn, Requests
  <2>5. task'[t] \in S
    BY <2>1, <2>3, <2>4, TaskOrigins
  <2> QED BY <2>2, <2>5
<1>2. ASSUME NEW t \in Reqs, TaskRun(t), ask[t].name = p
      PROVE  \E u \in Reqs : ask'[u].name = p /\ task'[u] \in S
  <2>1. task'[t] = "start" /\ task[t] # "none"
    BY <1>2 DEF TaskRun, TaskGoto, TypeOK
  <2>2. ask'[t] = ask[t]
    BY <2>1, TaskKeepsName
  <2> QED BY <1>2, <2>1, <2>2
<1> QED BY <1>1, <1>2, StateOrigins

\* A handler about to check or to spawn goes on to spawn, unless it finds another
\* state.
LEMMA HandlerOrigins ==
  ASSUME TypeOK, Requests, Next, NEW q \in Reqs, pc[q] \in {"load", "spawn"}
  PROVE  \/ pc'[q] = pc[q]
         \/ pc[q] = "load" /\ pc'[q] = IF state[ask[q].name] = "Initialized" THEN "spawn" ELSE "err"
         \/ LoadSpawn(q) /\ pc[q] = "spawn"
<1> USE DEF TypeOK, Goto, ProgOf, program, channel
<1>1. ASSUME NEW r \in Reqs, r # q, RequestStep(r)
      PROVE  pc'[q] = pc[q]
  <2>1. CASE Arrive(r) \/ LoadStep(r)
    BY <1>1, <2>1 DEF Arrive, Begin, LoadStep, LoadResolve, LoadPre, LoadInit, LoadMark,
       LoadCheck, LoadSpawn, LoadInsert, LoadInfo
  <2>2. CASE UnloadStep(r) \/ Disconnect(r)
    BY <1>1, <2>2 DEF UnloadStep, UnloadStop, UnloadSend, UnloadTake, UnloadAwait,
       UnloadUnset, Disconnect
  <2>3. CASE TaskStep(r)
    BY <2>3 DEF TaskStep, TaskRun, TaskStart, TaskTick, TaskFold, TaskLag, TaskRecv, TaskEnd
  <2> QED BY <1>1, <2>1, <2>2, <2>3 DEF RequestStep
<1>2. CASE TaskStep(q)
  BY <1>2 DEF TaskStep, TaskRun, TaskStart, TaskTick, TaskFold, TaskLag, TaskRecv, TaskEnd
<1>3. CASE LoadCheck(q)
  BY <1>3 DEF LoadCheck
<1>4. CASE LoadSpawn(q)
  BY <1>4 DEF LoadSpawn
<1>5. ~Arrive(q) /\ ~UnloadStep(q) /\ ~Disconnect(q)
  BY DEF Arrive, Begin, UnloadStep, UnloadStop, UnloadSend, UnloadTake, UnloadAwait,
     UnloadUnset, Disconnect
<1>6. LoadStep(q) => LoadCheck(q) \/ LoadSpawn(q)
  BY DEF LoadStep, LoadResolve, LoadPre, LoadInit, LoadMark, LoadInsert, LoadInfo
<1>7. CASE ShutdownAll \/ \E l \in Listeners : ListenerGone(l)
  BY <1>7 DEF ShutdownAll, ListenerGone
<1> QED BY <1>1, <1>2, <1>3, <1>4, <1>5, <1>6, <1>7 DEF Next, RequestStep

\* Every set_state(Initialized) is followed up by a Load or its task.
LEMMA InitializedHasOwnerStep ==
  ASSUME TypeOK, Requests, InitializedHasOwner, Next
  PROVE  InitializedHasOwner'
<1> DEFINE Owns(r) == pc[r] \in {"load", "spawn"} \/ task[r] = "spawned"
<1> SUFFICES ASSUME NEW p \in Progs, state'[p] = "Initialized"
             PROVE  \E r \in Reqs : ask'[r].name = p /\ Owns(r)'
  BY DEF InitializedHasOwner, ProgOf
<1>1. CASE state[p] = "Initialized"
  <2>1. PICK r \in Reqs : ask[r].name = p /\ Owns(r)
    BY <1>1 DEF InitializedHasOwner, ProgOf
  <2>2. ask'[r].name = p
    BY <2>1, TaskKeepsName
  <2>3. CASE task[r] = "spawned"
    <3>1. ~TaskRun(r)
      BY <2>1 DEF TaskRun, ProgOf, TypeOK
    <3>2. ~TaskEnd(r)
      BY <2>3 DEF TaskEnd
    <3>3. task'[r] = "spawned"
      BY <2>3, <3>1, <3>2, TaskOrigins
    <3> QED BY <2>2, <3>3
  <2>4. CASE pc[r] \in {"load", "spawn"}
    <3>1. pc'[r] \in {"load", "spawn"} \/ (pc[r] = "spawn" /\ LoadSpawn(r))
      BY <1>1, <2>1, <2>4, HandlerOrigins DEF ProgOf
    <3> QED BY <2>2, <3>1 DEF LoadSpawn, TypeOK
  <2> QED BY <2>1, <2>3, <2>4
<1>2. ASSUME NEW r \in Reqs, LoadMark(r), ask[r].name = p
      PROVE  \E q \in Reqs : ask'[q].name = p /\ Owns(q)'
  BY <1>2 DEF LoadMark, Goto, TypeOK
<1> QED BY <1>1, <1>2, StateOrigins

\* start() only ends on its own program's signal or All, and only fails
\* without a map, which is after an Unload.
LEMMA StoppedByOwnUnloadStep ==
  ASSUME TypeOK, Requests, MapOrUnloaded, SignalsFromUnloads, StoppedByOwnUnload, Next
  PROVE  StoppedByOwnUnload'
<1>1. \A p \in Progs : Unloaded(p) => Unloaded(p)'
  BY UnloadedStable
<1>2. shutdown => shutdown'
  BY ShutdownStable
<1>3. ASSUME NEW p \in Progs, state'[p] = "Failed"
      PROVE  Unloaded(p)'
  <2>1. CASE state[p] = "Failed"
    BY <1>1, <2>1 DEF StoppedByOwnUnload
  <2>2. ASSUME NEW t \in Reqs, TaskEnd(t), ask[t].name = p, task[t] # "stopping"
        PROVE  Unloaded(p)'
    <3>1. task[t] = "failing"
      BY <2>2 DEF TaskEnd
    <3> QED BY <1>1, <2>2, <3>1 DEF StoppedByOwnUnload, ProgOf
  <2> QED BY <1>3, <2>1, <2>2, StateOrigins
<1>4. ASSUME NEW t \in Reqs, task'[t] \in {"stopping", "failing", "ended"}
      PROVE  /\ task'[t] = "failing" => Unloaded(ProgOf(t))'
             /\ (shutdown \/ Unloaded(ProgOf(t)))'
  <2>1. task[t] # "none" /\ task[t] \in {"select", "tickOnly", "fold", "stopping", "failing", "ended"}
    BY <1>4, TaskOrigins DEF TaskEnd
  <2>2. PICK n \in Progs : n = ask[t].name /\ n = ask'[t].name
    BY <2>1, TaskKeepsName
  <2>3. /\ task'[t] = "failing" => Unloaded(n)
        /\ shutdown \/ Unloaded(n)
    <3>1. CASE task'[t] = task[t]
      BY <1>4, <2>2, <3>1 DEF StoppedByOwnUnload, ProgOf
    <3>2. CASE task'[t] = "failing" /\ ~connsMap[ask[t].name]
      BY <2>1, <2>2, <3>2 DEF MapOrUnloaded, Mapped, ProgOf
    <3>3. CASE /\ task'[t] = "stopping"
               /\ \E i \in DOMAIN rx[t] : rx[t][i] = "All" \/ rx[t][i] = ask[t].name
      BY <2>2, <3>3, PMAssumption DEF SignalsFromUnloads, Sent
    <3>4. CASE TaskEnd(t) /\ task'[t] = "ended"
      BY <2>2, <3>4 DEF TaskEnd, StoppedByOwnUnload, ProgOf
    <3> QED BY <1>4, <3>1, <3>2, <3>3, <3>4, TaskOrigins
  <2>4. /\ task'[t] = "failing" => Unloaded(n)'
        /\ shutdown' \/ Unloaded(n)'
    BY <1>1, <1>2, <2>3
  <2>5. ProgOf(t)' = n
    BY <2>2 DEF ProgOf
  <2> QED BY <2>4, <2>5
<1> QED BY <1>3, <1>4 DEF StoppedByOwnUnload

-----------------------------------------------------------------------------
(* The theorems about any interleaving of requests.                        *)

\* The inductive invariant holds when the agent starts.
LEMMA IndInvInit == Init => IndInv
<1> SUFFICES ASSUME Init PROVE IndInv
  OBVIOUS
<1>1. TypeOK
  <2>1. <<>> \in Seq(Signal) /\ Len(<<>>) <= Cap
    BY PMAssumption
  <2>2. [op |-> "Load", name |-> Unknown, zero |-> FALSE] \in Request
    BY DEF Request
  <2> QED BY <2>1, <2>2 DEF Init, TypeOK, ProgramState, RpcPc, TaskPc
<1>2. Requests /\ Inserted /\ HandleOwnership
  BY DEF Init, Requests, Inserted, HandleOwnership, LoadPc, UnloadPc, ProgOf
<1>3. MapOrUnloaded /\ SignalsFromUnloads
  BY DEF Init, MapOrUnloaded, SignalsFromUnloads
<1>4. RunningHasTask /\ InitializedHasOwner /\ StoppedByOwnUnload
  BY DEF Init, RunningHasTask, InitializedHasOwner, StoppedByOwnUnload
<1> QED BY <1>1, <1>2, <1>3, <1>4 DEF IndInv

\* Every step of a request, a task or the server keeps it.
LEMMA IndInvStep == IndInv /\ Next => IndInv'
BY TypeStep, RequestsStep, InsertedStep, HandleOwnershipStep, MapOrUnloadedStep, SignalsStep,
   RunningHasTaskStep, InitializedHasOwnerStep, StoppedByOwnUnloadStep DEF IndInv

\* It only depends on the variables.
LEMMA IndInvStutter == IndInv /\ UNCHANGED vars => IndInv'
<1> SUFFICES ASSUME IndInv, UNCHANGED vars PROVE IndInv'
  OBVIOUS
<1> USE DEF vars, program, channel, IndInv
<1>1. TypeOK' /\ Requests'
  BY DEF TypeOK, Requests, ProgOf
<1>2. Inserted' /\ HandleOwnership'
  BY DEF Inserted, HandleOwnership, Stored, ProgOf
<1>3. MapOrUnloaded' /\ SignalsFromUnloads'
  BY DEF MapOrUnloaded, SignalsFromUnloads, Mapped, Sent, Unloaded, ProgOf
<1>4. RunningHasTask' /\ InitializedHasOwner' /\ StoppedByOwnUnload'
  BY DEF RunningHasTask, InitializedHasOwner, StoppedByOwnUnload, Unloaded, ProgOf
<1> QED BY <1>1, <1>2, <1>3, <1>4

\* The inductive invariant holds however the handlers of the gRPC service, the
\* tasks of the programs and the shutdown of the agent interleave.
THEOREM Invariance == Spec => []IndInv
<1>1. IndInv /\ [Next]_vars => IndInv'
  BY IndInvStep, IndInvStutter
<1> QED BY IndInvInit, <1>1, PTL DEF Spec

\* Every variable keeps its type.
THEOREM TypeCorrect == Spec => []TypeOK
<1>1. IndInv => TypeOK
  BY DEF IndInv
<1> QED BY Invariance, <1>1, PTL

\* No JoinHandle is awaited by two Unloads, stays in the table while it is
\* awaited, or is filed under another program (ProgManager::load and unload).
THEOREM HandlesAreOwned == Spec => []HandleOwnership
<1>1. IndInv => HandleOwnership
  BY DEF IndInv
<1> QED BY Invariance, <1>1, PTL

\* Running always has a task behind it that has not returned, and Initialized a
\* Load or a fresh task that will overwrite it (ProgManager::pre_load and load).
THEOREM StatesAreBacked == Spec => [](RunningHasTask /\ InitializedHasOwner)
<1>1. IndInv => RunningHasTask /\ InitializedHasOwner
  BY DEF IndInv
<1> QED BY Invariance, <1>1, PTL

\* A task ends only on its own program's Unload or on the agent's shutdown, and
\* only an Unload makes it fail (ServiceMap::start).
THEOREM TasksEndForAReason == Spec => []StoppedByOwnUnload
<1>1. IndInv => StoppedByOwnUnload
  BY DEF IndInv
<1> QED BY Invariance, <1>1, PTL
=============================================================================
