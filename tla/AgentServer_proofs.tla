------------------------- MODULE AgentServer_proofs -------------------------
(***************************************************************************)
(* That shutdown_handler's All waits in the receiver of every listener     *)
(* that did not lose it, for any capacity of the channel and any number of *)
(* RPCs and Unloads.                                                       *)
(***************************************************************************)
EXTENDS AgentServer, TLAPS

Signals == {"All", "ProgramName"}
HasAll(queue) == \E k \in DOMAIN queue : queue[k] = "All"

\* Where serve is tells which listeners it has started.
Started ==
  /\ main \in {"sync", "rpc"} => listener["rpc"] = "none"
  /\ main \in {"sync", "rpc", "http"} => listener["http"] = "none"

\* A metrics listener that starts after All was sent has no chance to hear it.
LateIsDeaf == handler # "waiting" /\ listener["http"] = "none" => "http" \in deaf

IndInv == TypeOK /\ Started /\ LateIsDeaf /\ AllWaits

-----------------------------------------------------------------------------
\* A signal appended to a receiver's queue is in it, and so is what was.
LEMMA AppendHasAll ==
  ASSUME NEW queue \in Seq(Signals), NEW sig \in Signals, sig = "All" \/ HasAll(queue)
  PROVE  HasAll(Append(queue, sig))
<1>1. CASE sig = "All"
  <2>1. Len(queue) + 1 \in DOMAIN Append(queue, sig) /\ Append(queue, sig)[Len(queue) + 1] = "All"
    BY <1>1
  <2> QED BY <2>1 DEF HasAll
<1>2. CASE HasAll(queue)
  <2>1. PICK k \in DOMAIN queue : queue[k] = "All"
    BY <1>2 DEF HasAll
  <2>2. k \in DOMAIN Append(queue, sig) /\ Append(queue, sig)[k] = "All"
    BY <2>1
  <2> QED BY <2>2 DEF HasAll
<1> QED BY <1>1, <1>2

\* Taking another signal from the queue leaves All in it.
LEMMA TailHasAll ==
  ASSUME NEW queue \in Seq(Signals), queue # <<>>, HasAll(queue), Head(queue) # "All"
  PROVE  Tail(queue) \in Seq(Signals) /\ HasAll(Tail(queue))
<1>1. PICK k \in DOMAIN queue : queue[k] = "All"
  BY DEF HasAll
<1>2. k \in 2 .. Len(queue)
  BY <1>1
<1>3. k - 1 \in DOMAIN Tail(queue) /\ Tail(queue)[k - 1] = "All"
  BY <1>1, <1>2
<1> QED BY <1>3 DEF HasAll

\* What a receiver holds after a broadcast, whether it was full or not.
LEMMA DeliverKeeps ==
  ASSUME NEW queue \in Seq(Signals), NEW sig \in Signals, Len(queue) <= Cap
  PROVE  /\ Deliver(queue, sig) \in Seq(Signals)
         /\ Len(Deliver(queue, sig)) <= Cap
         /\ sig = "All" => HasAll(Deliver(queue, sig))
         /\ HasAll(queue) /\ (Len(queue) < Cap \/ Head(queue) # "All")
              => HasAll(Deliver(queue, sig))
<1> USE ASAssumption
<1>1. CASE Len(queue) < Cap
  <2>1. Deliver(queue, sig) = Append(queue, sig)
    BY <1>1 DEF Deliver
  <2>2. Append(queue, sig) \in Seq(Signals) /\ Len(Append(queue, sig)) <= Cap
    BY <1>1
  <2> QED BY <2>1, <2>2, AppendHasAll
<1>2. CASE ~(Len(queue) < Cap)
  <2>1. Deliver(queue, sig) = Append(Tail(queue), sig)
    BY <1>2 DEF Deliver
  <2>2. queue # <<>> /\ Len(queue) = Cap
    BY <1>2
  <2>3. Tail(queue) \in Seq(Signals) /\ Len(Tail(queue)) = Cap - 1
    BY <2>2
  <2>4. Append(Tail(queue), sig) \in Seq(Signals) /\ Len(Append(Tail(queue), sig)) <= Cap
    BY <2>3
  <2>5. HasAll(queue) /\ Head(queue) # "All" => HasAll(Tail(queue))
    BY <2>2, TailHasAll
  <2> QED BY <1>2, <2>1, <2>3, <2>4, <2>5, AppendHasAll
<1> QED BY <1>1, <1>2

\* A broadcast keeps the receivers' types, and All in those that do not lose it.
LEMMA BroadcastKeeps ==
  ASSUME TypeOK, NEW sig \in Signals, Broadcast(sig), AllWaits
  PROVE  /\ rx' \in [Listeners -> Seq(Signals)]
         /\ \A l \in Listeners : Len(rx'[l]) <= Cap
         /\ lagged' \in [Listeners -> BOOLEAN]
         /\ deaf' \subseteq Listeners /\ deaf \subseteq deaf'
         /\ \A l \in Listeners \ deaf' :
              Subscribed(l) /\ (sig = "All" \/ handler # "waiting") => HasAll(rx'[l])
<1>1. \A l \in Listeners : rx[l] \in Seq(Signals) /\ Len(rx[l]) <= Cap
  BY DEF TypeOK, Signals
<1>2. \A l \in Listeners : rx'[l] \in Seq(Signals) /\ Len(rx'[l]) <= Cap
  BY <1>1, DeliverKeeps DEF Broadcast
<1>3. rx' \in [Listeners -> Seq(Signals)]
  BY <1>2 DEF Broadcast
<1>4. lagged' \in [Listeners -> BOOLEAN]
  BY DEF Broadcast, TypeOK
<1>5. deaf' \subseteq Listeners /\ deaf \subseteq deaf'
  BY DEF Broadcast, TypeOK
<1>6. ASSUME NEW l \in Listeners \ deaf', Subscribed(l), sig = "All" \/ handler # "waiting"
      PROVE  HasAll(rx'[l])
  <2>1. rx'[l] = Deliver(rx[l], sig)
    BY <1>6 DEF Broadcast
  <2>2. Len(rx[l]) < Cap \/ Head(rx[l]) # "All"
    BY <1>6 DEF Broadcast, Loses
  <2>3. handler # "waiting" => HasAll(rx[l])
    BY <1>5, <1>6 DEF AllWaits, HasAll
  <2> QED BY <1>1, <1>6, <2>1, <2>2, <2>3, DeliverKeeps
<1> QED BY <1>2, <1>3, <1>4, <1>5, <1>6

-----------------------------------------------------------------------------
\* The inductive invariant: no step of serve, of its listeners or of
\* shutdown_handler makes a listener miss All without becoming deaf.
THEOREM Invariance == Spec => []IndInv
<1>1. Init => IndInv
  <2> SUFFICES ASSUME Init PROVE IndInv
    OBVIOUS
  <2>1. rx \in [Listeners -> Seq(Signals)] /\ \A l \in Listeners : Len(rx[l]) = 0
    BY DEF Init
  <2>2. \A l \in Listeners : Len(rx[l]) <= Cap
    BY <2>1, ASAssumption
  <2>3. /\ lagged \in [Listeners -> BOOLEAN]
        /\ listener \in [Listeners -> ListenerPc]
    BY DEF Init, ListenerPc
  <2>4. calls \in 0 .. MaxCalls /\ unloads \in 0 .. MaxUnloads
    BY ASAssumption DEF Init
  <2>5. /\ main \in {"sync", "rpc", "http", "join", "exited", "failed"}
        /\ signalled \in BOOLEAN /\ handler \in {"waiting", "sent", "panicked"}
        /\ tasks \in BOOLEAN /\ deaf \subseteq Listeners
    BY DEF Init
  <2>6. TypeOK
    BY <2>1, <2>2, <2>3, <2>4, <2>5, Zenon DEF TypeOK, Signals
  <2> QED BY <2>6 DEF Init, IndInv, Started, LateIsDeaf, AllWaits, Listeners
<1>2. IndInv /\ [Next]_vars => IndInv'
  <2> SUFFICES ASSUME IndInv, [Next]_vars PROVE IndInv'
    OBVIOUS
  <2> USE ASAssumption
  <2>a. /\ listener["rpc"] \in ListenerPc
        /\ listener["http"] \in ListenerPc
        /\ rx["rpc"] \in Seq(Signals) /\ rx["http"] \in Seq(Signals)
    BY DEF IndInv, TypeOK, ListenerPc, Listeners, Signals
  <2>1. CASE ManagerReady
    BY <2>1 DEF ManagerReady, IndInv, TypeOK, ListenerPc, Started, LateIsDeaf, AllWaits, Subscribed, Listeners
  <2>2. CASE ServeRpc
    BY <2>2 DEF ServeRpc, Goto, IndInv, TypeOK, ListenerPc, Started, LateIsDeaf, AllWaits, Subscribed, Listeners
  <2>3. CASE ServeHttp
    BY <2>3 DEF ServeHttp, Goto, IndInv, TypeOK, ListenerPc, Started, LateIsDeaf, AllWaits, Subscribed, Listeners
  <2>4. CASE Join
    BY <2>4 DEF Join, IndInv, TypeOK, ListenerPc, Started, LateIsDeaf, AllWaits, Subscribed, Listeners
  <2>5. CASE Signal
    BY <2>5 DEF Signal, IndInv, TypeOK, ListenerPc, Started, LateIsDeaf, AllWaits, Subscribed, Listeners
  <2>6. CASE ShutdownSend
    <3>1. "All" \in Signals /\ Broadcast("All") /\ UNCHANGED <<main, listener>>
      BY <2>6 DEF ShutdownSend, Signals
    <3>2. TypeOK'
      BY <2>6, <3>1, BroadcastKeeps DEF ShutdownSend, IndInv, TypeOK, ListenerPc, Signals
    <3>3. Started' BY <3>1 DEF IndInv, Started
    <3>4. LateIsDeaf'
      <4> SUFFICES ASSUME listener'["http"] = "none" PROVE "http" \in deaf'
        BY DEF LateIsDeaf
      <4>1. listener["http"] = "none" /\ ~Subscribed("http")
        BY <3>1 DEF Subscribed
      <4>2. Loses("http", "All") = {"All"}
        BY <4>1 DEF Loses
      <4> QED BY <3>1, <4>2 DEF Broadcast, Listeners
    <3>5. \A l \in Listeners : Subscribed(l)' <=> Subscribed(l)
      BY <3>1 DEF Subscribed
    <3>6. AllWaits'
      BY <3>1, <3>5, BroadcastKeeps DEF IndInv, AllWaits, HasAll
    <3> QED BY <3>2, <3>3, <3>4, <3>6 DEF IndInv
  <2>7. CASE RpcRecv
    <3>1. CASE /\ lagged' = [lagged EXCEPT !["rpc"] = FALSE]
               /\ UNCHANGED <<rx, listener>>
      BY <2>7, <3>1 DEF RpcRecv, IndInv, TypeOK, ListenerPc, Started, LateIsDeaf, AllWaits, Subscribed, Listeners
    <3>2. CASE /\ ~lagged["rpc"] /\ rx["rpc"] # <<>>
               /\ rx' = [rx EXCEPT !["rpc"] = Tail(@)]
               /\ Goto("rpc", IF Head(rx["rpc"]) = "All" THEN "draining" ELSE "serving")
               /\ UNCHANGED lagged
      <4>1. Tail(rx["rpc"]) \in Seq(Signals) /\ Len(Tail(rx["rpc"])) <= Cap
        BY <2>a, <3>2 DEF IndInv, TypeOK, ListenerPc, Listeners
      <4>2. TypeOK' /\ Started' /\ LateIsDeaf'
        BY <2>7, <3>2, <4>1 DEF RpcRecv, Goto, Signals, IndInv, TypeOK, ListenerPc, Started, LateIsDeaf, Listeners
      <4>3. AllWaits'
        <5> SUFFICES ASSUME handler' # "waiting", NEW l \in Listeners \ deaf', Subscribed(l)'
                     PROVE  HasAll(rx'[l])
          BY DEF AllWaits, HasAll
        <5>1. Subscribed(l) /\ HasAll(rx[l])
          BY <2>7, <3>2 DEF RpcRecv, Goto, IndInv, TypeOK, ListenerPc, AllWaits, HasAll, Subscribed, Listeners
        <5>2. CASE l = "http"
          BY <3>2, <5>1, <5>2 DEF IndInv, TypeOK, ListenerPc, Listeners
        <5>3. CASE l = "rpc"
          <6>1. Head(rx["rpc"]) # "All"
            BY <2>7, <3>2, <5>3 DEF RpcRecv, Goto, Subscribed, IndInv, TypeOK, ListenerPc, Started, Listeners
          <6>2. rx'["rpc"] = Tail(rx["rpc"])
            BY <3>2 DEF IndInv, TypeOK, ListenerPc, Listeners
          <6> QED BY <2>a, <3>2, <5>1, <5>3, <6>1, <6>2, TailHasAll
        <5> QED BY <5>2, <5>3 DEF Listeners
      <4> QED BY <4>2, <4>3 DEF IndInv
    <3> QED BY <2>7, <3>1, <3>2 DEF RpcRecv
  <2>8. CASE RpcDrained
    BY <2>8 DEF RpcDrained, Goto, IndInv, TypeOK, ListenerPc, Started, LateIsDeaf, AllWaits, Subscribed, Listeners
  <2>9. CASE RpcFails
    BY <2>9 DEF RpcFails, Goto, IndInv, TypeOK, ListenerPc, Started, LateIsDeaf, AllWaits, Subscribed, Listeners
  <2>10. CASE RpcCall
    BY <2>10 DEF RpcCall, IndInv, TypeOK, ListenerPc, Started, LateIsDeaf, AllWaits, Subscribed, Listeners
  <2>11. CASE RpcReturn
    <3>1. calls' \in 0 .. MaxCalls /\ UNCHANGED <<main, signalled, handler, listener>>
      BY <2>11 DEF RpcReturn, IndInv, TypeOK, ListenerPc
    <3>2. \A l \in Listeners : Subscribed(l)' <=> Subscribed(l)
      BY <3>1 DEF Subscribed
    <3>3. CASE Broadcast("ProgramName") /\ UNCHANGED tasks /\ unloads' \in 0 .. MaxUnloads
      <4>1. "ProgramName" \in Signals BY DEF Signals
      <4>2. TypeOK'
        BY <3>1, <3>3, <4>1, BroadcastKeeps DEF IndInv, TypeOK, ListenerPc, Signals
      <4>3. Started' /\ LateIsDeaf'
        BY <3>1, <3>3, <4>1, BroadcastKeeps DEF IndInv, Started, LateIsDeaf
      <4>4. AllWaits'
        BY <3>1, <3>2, <3>3, <4>1, BroadcastKeeps DEF IndInv, AllWaits, HasAll
      <4> QED BY <4>2, <4>3, <4>4 DEF IndInv
    <3>4. CASE UNCHANGED <<rx, lagged, deaf, unloads>> /\ tasks' \in BOOLEAN
      BY <3>1, <3>2, <3>4 DEF IndInv, TypeOK, ListenerPc, Started, LateIsDeaf, AllWaits
    <3>5. CASE unloads < MaxUnloads /\ unloads' = unloads + 1 /\ Broadcast("ProgramName") /\ UNCHANGED tasks
      BY <3>3, <3>5 DEF IndInv, TypeOK, ListenerPc
    <3>6. CASE UNCHANGED <<rx, lagged, deaf, unloads>> /\ (tasks' = TRUE \/ UNCHANGED tasks)
      BY <3>4, <3>6 DEF IndInv, TypeOK, ListenerPc
    <3> QED BY <2>11, <3>5, <3>6 DEF RpcReturn
  <2>12. CASE TasksEnd
    BY <2>12 DEF TasksEnd, IndInv, TypeOK, ListenerPc, Started, LateIsDeaf, AllWaits, Subscribed, Listeners
  <2>13. CASE HttpBind
    BY <2>13 DEF HttpBind, Goto, IndInv, TypeOK, ListenerPc, Started, LateIsDeaf, AllWaits, Subscribed, Listeners
  <2>14. CASE HttpRecv
    <3>1. Tail(rx["http"]) \in Seq(Signals) /\ Len(Tail(rx["http"])) <= Cap
      BY <2>a, <2>14 DEF HttpRecv, IndInv, TypeOK, ListenerPc, Listeners
    <3>2. TypeOK' /\ Started' /\ LateIsDeaf'
      BY <2>14, <3>1 DEF HttpRecv, Goto, Signals, IndInv, TypeOK, ListenerPc, Started, LateIsDeaf, Listeners
    <3>3. AllWaits'
      <4> SUFFICES ASSUME handler' # "waiting", NEW l \in Listeners \ deaf', Subscribed(l)'
                   PROVE  HasAll(rx'[l])
        BY DEF AllWaits, HasAll
      <4>1. Subscribed(l) /\ HasAll(rx[l])
        BY <2>14 DEF HttpRecv, Goto, IndInv, TypeOK, ListenerPc, AllWaits, HasAll, Subscribed, Listeners
      <4>2. CASE l = "rpc"
        BY <2>14, <4>1, <4>2 DEF HttpRecv, IndInv, TypeOK, ListenerPc, Listeners
      <4>3. CASE l = "http"
        <5>1. Head(rx["http"]) # "All"
          BY <2>14, <4>3 DEF HttpRecv, Goto, Subscribed, IndInv, TypeOK, ListenerPc, Listeners
        <5>2. rx'["http"] = Tail(rx["http"]) /\ rx["http"] # <<>>
          BY <2>14 DEF HttpRecv, IndInv, TypeOK, ListenerPc, Listeners
        <5> QED BY <2>a, <4>1, <4>3, <5>1, <5>2, TailHasAll
      <4> QED BY <4>2, <4>3 DEF Listeners
    <3> QED BY <3>2, <3>3 DEF IndInv
  <2>15. CASE HttpLag
    BY <2>15 DEF HttpLag, Goto, IndInv, TypeOK, ListenerPc, Started, LateIsDeaf, AllWaits, Subscribed, Listeners
  <2>16. CASE HttpAccept
    BY <2>16 DEF HttpAccept, Goto, IndInv, TypeOK, ListenerPc, Started, LateIsDeaf, AllWaits, Subscribed, Listeners
  <2>17. CASE UNCHANGED vars
    BY <2>17 DEF vars, IndInv, TypeOK, ListenerPc, Started, LateIsDeaf, AllWaits, Subscribed
  <2> QED
    BY <2>1, <2>2, <2>3, <2>4, <2>5, <2>6, <2>7, <2>8, <2>9, <2>10, <2>11, <2>12,
       <2>13, <2>14, <2>15, <2>16, <2>17 DEF Next
<1> QED BY <1>1, <1>2, PTL DEF Spec

\* However many Unloads broadcast on the channel and however far the start has
\* come, All waits in the receiver of every listener that serves and is not known
\* to have lost it (server/mod.rs, serve and shutdown_handler).
THEOREM AllReachesListeners == Spec => []AllWaits
<1>1. IndInv => AllWaits
  BY DEF IndInv
<1> QED BY Invariance, <1>1, PTL

-----------------------------------------------------------------------------
\* The RPC listener ends, unless it fails, only when no RPC is in flight, and then
\* takes none; serve returns only after it has ended.
Answered ==
  /\ listener["rpc"] = "ended" => calls = 0
  /\ main = "exited" => Ended

\* Once serve has returned normally, no client waits for the answer to an RPC, unless
\* the RPC listener failed (join_listeners awaits tonic's graceful shutdown).
THEOREM AnswersBeforeExit == Spec => []NoCallDropped
<1>1. Init => Answered
  BY DEF Init, Answered, Listeners
<1>2. IndInv /\ Answered /\ [Next]_vars => Answered'
  <2> SUFFICES ASSUME IndInv, Answered, [Next]_vars PROVE Answered'
    OBVIOUS
  <2> USE DEF Answered, Ended, Listeners
  <2>1. listener \in [Listeners -> ListenerPc] /\ calls \in Nat
    BY ASAssumption DEF IndInv, TypeOK
  <2>2. CASE ManagerReady \/ Join \/ Signal \/ ShutdownSend \/ TasksEnd
    BY <2>2 DEF ManagerReady, Join, Signal, ShutdownSend, TasksEnd
  <2>3. CASE ServeRpc \/ ServeHttp
    BY <2>1, <2>3 DEF ServeRpc, ServeHttp, Goto
  <2>4. CASE RpcRecv \/ RpcDrained \/ RpcFails
    BY <2>1, <2>4 DEF RpcRecv, RpcDrained, RpcFails, Goto, Up
  <2>5. CASE RpcCall \/ RpcReturn
    BY <2>1, <2>5 DEF RpcCall, RpcReturn, Up
  <2>6. CASE HttpBind \/ HttpRecv \/ HttpLag \/ HttpAccept
    BY <2>1, <2>6 DEF HttpBind, HttpRecv, HttpLag, HttpAccept, Goto, Up
  <2>7. CASE UNCHANGED vars
    BY <2>7 DEF vars
  <2> QED BY <2>2, <2>3, <2>4, <2>5, <2>6, <2>7 DEF Next
<1>3. Answered => NoCallDropped
  BY DEF Answered, NoCallDropped, Ended, Listeners
<1> QED BY <1>1, <1>2, <1>3, Invariance, PTL DEF Spec
=============================================================================
