---------------------------- MODULE CacheManager ----------------------------
(***************************************************************************)
(* The cache manager (agent/src/managers/cache.rs): a task per kind of     *)
(* Kubernetes object watches the API server and fills a store; the pod,    *)
(* node and service watchers also map addresses to workloads.  ServiceMap  *)
(* reads that map.                                                         *)
(*                                                                         *)
(* The cluster and the watch protocol are external: a list returns what    *)
(* exists, then every change arrives in order.  A watcher takes the next   *)
(* object only when it is done with the last one.  What an object owns     *)
(* and a node's or a service's addresses do not change; pods get and lose  *)
(* addresses.                                                              *)
(***************************************************************************)
EXTENDS Naturals, Sequences, FiniteSets

CONSTANTS
  Objs,       \* the objects of the cluster; those of kind Other nobody watches
  Kind,       \* the kind of each
  Parent,     \* its controller reference, or None
  Addr,       \* the addresses each node and service may have; None in a headless one's
  Ips,        \* addresses of pods
  SyncOrder,  \* the kinds wait_for_cache_sync waits for, in order
  MaxChanges, \* bound: changes of the cluster
  MaxErrors,  \* bound: errors of watches that are retried
  MayEnd,     \* the kinds whose watcher may meet an error it does not survive
  None

Watched == {o \in Objs : Kind[o] # "Other"}
Pods    == {o \in Objs : Kind[o] = "Pod"}
Kinds   == {SyncOrder[i] : i \in DOMAIN SyncOrder}
Active  == {"Pod", "Node", "Service"}   \* watchers that handle the objects
Owners  == {"ReplicaSet", "Deployment", "DaemonSet", "StatefulSet", "Job", "CronJob"}

ASSUME CMAssumption ==
  /\ Kind \in [Objs -> Active \union Owners \union {"Other"}]
  /\ {Kind[o] : o \in Objs} \subseteq Kinds \union {"Other"}
  /\ Parent \in [Objs -> Objs \union {None}]
  /\ None \notin Objs
  /\ MaxChanges \in Nat /\ MaxErrors \in Nat /\ MayEnd \subseteq Kinds

VARIABLES
  cluster,      \* the addresses of each object that exists, None for the others
  changes,      \* changes of the cluster so far
  watch,        \* where the watcher of each kind is
  errors,       \* errors so far
  store,        \* the reflector's stores: the addresses of the objects in them
  ready,        \* the kinds whose store has been filled
  todo,         \* objects of the first list that were not handled yet
  queue,        \* the changes under way to each watcher
  pod,          \* what the pod watcher is at
  descriptors,  \* pod_descriptors
  ipTo,         \* ip_to_workload
  sync,         \* wait_for_cache_sync: the kinds seen ready, and how it is going
  held          \* history: addresses and the objects that had them

clusterVars == <<cluster, changes, held>>
vars == <<clusterVars, watch, errors, store, ready, todo, queue, pod, descriptors, ipTo, sync>>

Idle == [at |-> "next", obj |-> None, ips |-> {}, owner |-> None, name |-> None]
AllIps == (Ips \union UNION UNION {Addr[o] : o \in DOMAIN Addr}) \ {None}

-----------------------------------------------------------------------------
(* The cluster *)

\* Object o now has the given addresses, or is gone.
Change(o, addrs) ==
  /\ changes < MaxChanges /\ changes' = changes + 1
  /\ cluster' = [cluster EXCEPT ![o] = addrs]
  /\ held' = held \union {<<x, o>> : x \in IF addrs = None THEN {} ELSE addrs}
  /\ queue' = IF watch[Kind[o]] = "watching"
       THEN [queue EXCEPT ![Kind[o]] = Append(@, [obj |-> o, ips |-> addrs])] ELSE queue
  /\ UNCHANGED <<watch, errors, store, ready, todo, pod, descriptors, ipTo, sync>>

Existing(o) == IF o \in DOMAIN Addr THEN Addr[o] ELSE {{}}
Create(o) == cluster[o] = None /\ \E addrs \in Existing(o) : Change(o, addrs)
Delete(o) == cluster[o] # None /\ Change(o, None)
\* The network gives a pod an address that no pod has.
Assign(p, x) ==
  /\ cluster[p] = {}
  /\ \A q \in Pods : cluster[q] # None => x \notin cluster[q]
  /\ Change(p, {x})

-----------------------------------------------------------------------------
(* The watchers *)

\* Mutant: an empty list does not make the store ready.
ListSilent(k) ==
  /\ watch[k] = "listing"
  /\ watch' = [watch EXCEPT ![k] = "watching"]
  /\ store' = [o \in Objs |-> IF Kind[o] = k THEN cluster[o] ELSE store[o]]
  /\ ready' = IF cluster \in [Objs -> {None}] THEN ready ELSE ready \union {k}
  /\ todo' = IF k \in Active
       THEN [todo EXCEPT ![k] = {o \in Objs : Kind[o] = k /\ cluster[o] # None}] ELSE todo
  /\ queue' = [queue EXCEPT ![k] = <<>>]
  /\ UNCHANGED <<clusterVars, errors, pod, descriptors, ipTo, sync>>
\* Client::try_default, and the watcher's list: the store is replaced, and the
\* objects go on to the watcher, which handles those of the first list one by one.
\* reflect() fills the store before applied_objects() lets anything through.
List(k) ==
  /\ watch[k] = "listing"
  /\ watch' = [watch EXCEPT ![k] = "watching"]
  /\ store' = [o \in Objs |-> IF Kind[o] = k THEN cluster[o] ELSE store[o]]
  /\ ready' = ready \union {k}
  /\ todo' = IF k \in Active
       THEN [todo EXCEPT ![k] = {o \in Objs : Kind[o] = k /\ cluster[o] # None}] ELSE todo
  /\ queue' = [queue EXCEPT ![k] = <<>>]
  /\ UNCHANGED <<clusterVars, errors, pod, descriptors, ipTo, sync>>

\* Without a client the watcher ends at once, and the store's writer is dropped; so
\* does a watcher of pods, nodes or services whose first list fails.
ConnectFails(k) ==
  /\ k \in MayEnd
  /\ watch[k] = "listing" /\ k \notin ready
  /\ watch' = [watch EXCEPT ![k] = "ended"]
  /\ UNCHANGED <<clusterVars, errors, store, ready, todo, queue, pod, descriptors, ipTo, sync>>

\* The watcher waits for the next item of its stream.
Waiting(k) == todo[k] = {} /\ (k = "Pod" => pod.at = "next")

\* try_next().await? ends a watcher of pods, nodes or services; for_each passes
\* over the error, and the watcher lists again after a backoff.
StreamError(k) ==
  /\ watch[k] = "watching" /\ Waiting(k)
  /\ \/ /\ k \in Active \intersect MayEnd
        /\ watch' = [watch EXCEPT ![k] = "ended"]
        /\ UNCHANGED errors
     \/ /\ k \notin Active
        /\ errors < MaxErrors /\ errors' = errors + 1
        /\ watch' = [watch EXCEPT ![k] = "listing"]
  /\ UNCHANGED <<clusterVars, store, ready, todo, queue, pod, descriptors, ipTo, sync>>

\* Mutant: the descriptor is resolved anew every time.
ResolveAnew(p, ips) ==
  [at |-> "walk", obj |-> p, ips |-> ips, owner |-> Parent[p], name |-> p]
\* A pod, as the watcher is given it: its descriptor may be in the cache.
Resolve(p, ips) ==
  [at |-> IF descriptors[p] = None THEN "walk" ELSE "ips", obj |-> p, ips |-> ips,
   owner |-> Parent[p], name |-> IF descriptors[p] = None THEN p ELSE descriptors[p]]
\* Mutant: the "None" of a headless service is an address like any other.
InsertAllHeadless(name, ips) ==
  ipTo' = [x \in DOMAIN ipTo \union ips |-> IF x \in ips THEN name ELSE ipTo[x]]
\* The addresses go into the map under the workload's name; a headless service has
\* none.
InsertAll(name, ips) ==
  ipTo' = [x \in AllIps |-> IF x \in ips \ {None} THEN name ELSE ipTo[x]]
Handle(o, ips) ==
  \/ Kind[o] = "Pod" /\ pod' = Resolve(o, ips) /\ UNCHANGED ipTo
  \/ Kind[o] \in {"Node", "Service"} /\ InsertAll(o, ips) /\ UNCHANGED pod
  \/ Kind[o] \in Owners /\ UNCHANGED <<pod, ipTo>>

\* The next object of the first list.
TakeListed(k) ==
  /\ watch[k] = "watching" /\ (k = "Pod" => pod.at = "next")
  /\ \E o \in todo[k] :
       /\ todo' = [todo EXCEPT ![k] = @ \ {o}]
       /\ Handle(o, store[o])
  /\ UNCHANGED <<clusterVars, watch, errors, store, ready, queue, descriptors, sync>>

\* The next change.  A deletion only leaves the store.
TakeChange(k) ==
  /\ watch[k] = "watching" /\ Waiting(k) /\ queue[k] # <<>>
  /\ LET e == Head(queue[k])
     IN /\ store' = [store EXCEPT ![e.obj] = e.ips]
        /\ IF e.ips = None THEN UNCHANGED <<pod, ipTo>> ELSE Handle(e.obj, e.ips)
  /\ queue' = [queue EXCEPT ![k] = Tail(@)]
  /\ UNCHANGED <<clusterVars, watch, errors, ready, todo, descriptors, sync>>

-----------------------------------------------------------------------------
(* watching_pods: the rest of the loop's body *)

\* get_controller_of_owner: the controller reference of an object in the stores.
Controller(o) == IF Kind[o] \in Owners /\ store[o] # None THEN Parent[o] ELSE None

\* Mutant: the owner gives the name.
PodWalkNames ==
  /\ pod.at = "walk" /\ pod.owner # None
  /\ pod' = [pod EXCEPT !.owner = Controller(pod.owner), !.name = pod.owner]
  /\ UNCHANGED <<clusterVars, watch, errors, store, ready, todo, queue, descriptors, ipTo, sync>>
\* An iteration of resolve_pod_descriptor: only a controller that an owner names
\* gives the workload its name.  The stores change between iterations.
PodWalk ==
  /\ pod.at = "walk" /\ pod.owner # None
  /\ LET controller == Controller(pod.owner)
     IN pod' = [pod EXCEPT !.owner = controller,
                           !.name = IF controller = None THEN @ ELSE controller]
  /\ UNCHANGED <<clusterVars, watch, errors, store, ready, todo, queue, descriptors, ipTo, sync>>

\* The end of the loop: the descriptor is stored.
PodDescribe ==
  /\ pod.at = "walk" /\ pod.owner = None
  /\ descriptors' = [descriptors EXCEPT ![pod.obj] = pod.name]
  /\ pod' = [pod EXCEPT !.at = "ips"]
  /\ UNCHANGED <<clusterVars, watch, errors, store, ready, todo, queue, ipTo, sync>>

\* Mutant: the loop goes on with the pod's name as it was before the walk.
PodIpsStale ==
  /\ pod.at = "ips"
  /\ InsertAll(pod.obj, pod.ips)
  /\ pod' = Idle
  /\ UNCHANGED <<clusterVars, watch, errors, store, ready, todo, queue, descriptors, sync>>
\* Mutant: an address that is in the map stays as it is.
PodIpsKeeps ==
  /\ pod.at = "ips"
  /\ ipTo' = [x \in AllIps |-> IF x \in pod.ips /\ ipTo[x] = None THEN pod.name ELSE ipTo[x]]
  /\ pod' = Idle
  /\ UNCHANGED <<clusterVars, watch, errors, store, ready, todo, queue, descriptors, sync>>
PodIps ==
  /\ pod.at = "ips"
  /\ InsertAll(pod.name, pod.ips)
  /\ pod' = Idle
  /\ UNCHANGED <<clusterVars, watch, errors, store, ready, todo, queue, descriptors, sync>>

-----------------------------------------------------------------------------
\* wait_for_cache_sync: one store after the other, each filled or, with an error,
\* without a writer.
Sync ==
  /\ sync.at = "waiting"
  /\ LET k == SyncOrder[sync.seen + 1]
         last == sync.seen + 1 = Len(SyncOrder)
     IN \/ k \in ready /\ sync' = [at |-> IF last THEN "done" ELSE "waiting", seen |-> sync.seen + 1]
        \/ k \notin ready /\ watch[k] = "ended" /\ sync' = [sync EXCEPT !.at = "failed"]
  /\ UNCHANGED <<clusterVars, watch, errors, store, ready, todo, queue, pod, descriptors, ipTo>>

\* Any part of the cluster may exist when the agent starts, and pods may have
\* addresses, no two the same.
Init ==
  /\ cluster \in [Objs -> {None} \union {{x} : x \in Ips} \union UNION {Existing(o) : o \in Objs}]
  /\ \A o \in Objs :
       cluster[o] \in {None} \union (IF o \in Watched THEN Existing(o) ELSE {})
                            \union (IF o \in Pods THEN {{x} : x \in Ips} ELSE {})
  /\ \A p, q \in Pods, x \in Ips : cluster[p] = {x} /\ cluster[q] = {x} => p = q
  /\ changes = 0 /\ errors = 0
  /\ watch = [k \in Kinds |-> "listing"]
  /\ store = [o \in Objs |-> None]
  /\ ready = {}
  /\ todo = [k \in Kinds |-> {}]
  /\ queue = [k \in Kinds |-> <<>>]
  /\ pod = Idle
  /\ descriptors = [p \in Pods |-> None]
  /\ ipTo = [x \in AllIps |-> None]
  /\ sync = [at |-> "waiting", seen |-> 0]
  /\ held = {<<x, o>> \in AllIps \X Objs : cluster[o] # None /\ x \in cluster[o]}

Watcher(k) == List(k) \/ TakeListed(k) \/ TakeChange(k)
PodStep == PodWalk \/ PodDescribe \/ PodIps

Next ==
  \/ \E o \in Watched : Create(o) \/ Delete(o)
  \/ \E p \in Pods, x \in Ips : Assign(p, x)
  \/ \E k \in Kinds : Watcher(k) \/ ConnectFails(k) \/ StreamError(k)
  \/ PodStep \/ Sync

Spec == Init /\ [][Next]_vars

(***************************************************************************)
(* Tokio schedules the watchers, the API server answers a watcher that     *)
(* keeps trying and delivers its events.                                   *)
(***************************************************************************)
Fairness == (\A k \in Kinds : WF_vars(Watcher(k))) /\ WF_vars(PodStep) /\ WF_vars(Sync)
FairSpec == Spec /\ Fairness

-----------------------------------------------------------------------------
(* Properties *)

\* Every variable has its type.
TypeOK ==
  /\ \A o \in Objs : /\ cluster[o] = None \/ cluster[o] \subseteq AllIps \union {None}
                     /\ store[o] = None \/ store[o] \subseteq AllIps \union {None}
  /\ watch \in [Kinds -> {"listing", "watching", "ended"}]
  /\ ready \subseteq Kinds
  /\ pod.at \in {"next", "walk", "ips"}
  /\ descriptors \in [Pods -> Objs \union {None}]
  /\ ipTo \in [AllIps -> Objs \union {None}]
  /\ sync \in [at : {"waiting", "done", "failed"}, seen : 0 .. Len(SyncOrder)]

\* The objects that control o, directly or not.
Above(o) ==
  LET up[n \in 0 .. Cardinality(Objs)] ==
        IF n = 0 THEN {Parent[o]} \ {None}
        ELSE up[n - 1] \union ({Parent[c] : c \in up[n - 1]} \ {None})
  IN up[Cardinality(Objs)]

\* A pod's workload is the pod, or a controller of its owner; never the owner, be
\* it in a store or not (resolve_pod_descriptor replaces the name only by what
\* get_controller_of_owner returns).
NamedAboveOwner ==
  \A p \in Pods : descriptors[p] # None =>
    \/ descriptors[p] = p
    \/ Parent[p] # None /\ descriptors[p] \in Above(Parent[p])

\* An address is only ever attributed to a node or service that has it, or to the
\* workload of a pod that has or had it: the watchers, which share the map, never
\* mix up the objects they are at.
AttributedToHolder ==
  \A x \in AllIps : ipTo[x] # None =>
    \E o \in Objs : /\ <<x, o>> \in held
                    /\ ipTo[x] = IF o \in Pods THEN descriptors[o] ELSE o

\* The workload of a pod, once resolved, stays: the connections of its addresses are
\* counted under one name, whatever the stores hold when the pod is seen again
\* ("if pod already exists in the cache, return it", cache.rs:186).
DescriptorsStay ==
  [][\A p \in Pods : descriptors[p] # None => descriptors'[p] = descriptors[p]]_vars

\* The agent does not wait for its caches for ever: a watcher fills its store or
\* is seen to have ended (ProgManager::new awaits wait_for_cache_sync).
SyncEnds == <>(sync.at # "waiting")

\* The watcher of pods has nothing left to do.
PodsHandled == watch["Pod"] = "watching" /\ Waiting("Pod") /\ queue["Pod"] = <<>>

\* An address that a pod has, got late or taken over from a deleted one included,
\* is attributed to that pod's workload once the watcher of pods has caught up,
\* although nothing ever removes an address from the map.
AddressesFollowPods ==
  PodsHandled =>
    \A p \in Pods, x \in Ips :
      cluster[p] = {x} => descriptors[p] # None /\ ipTo[x] = descriptors[p]
=============================================================================
