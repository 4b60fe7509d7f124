----------------------------- MODULE ServiceMap -----------------------------
(***************************************************************************)
(* The service_map program (agent/src/progs/service_map/program.rs) at     *)
(* work on the maps of conn-tracer: several pollers, the program's own     *)
(* ticker and the scrapes of the metrics endpoint, read CONNECTIONS, sum   *)
(* its active entries per connection, and fold the inactive ones into      *)
(* past_conns_map.                                                         *)
(*                                                                         *)
(* A poll holds the read lock of Inner while it iterates, drops it, and    *)
(* takes the write lock to fold.  The kernel honours no lock: each system  *)
(* call on the map is an action of its own.                                *)
(***************************************************************************)
EXTENDS ConnTracer, Sequences, FiniteSetsExt

CONSTANTS
  Pollers,    \* the ticker and the scrapes
  Ticker,     \* the poller of ServiceMap::start
  LocalPeers, \* peers that are loopback addresses or the source itself
  MaxResets   \* bound: Unloads

ASSUME SMAssumption ==
  /\ Ticker \in Pollers
  /\ LocalPeers \subseteq Peers
  /\ MaxResets \in Nat

VARIABLES
  mapped,     \* Inner.current_conns_map.is_some()
  past,       \* Inner.past_conns_map
  known,      \* addresses in CacheManager.ip_to_workload
  at,         \* where each poller is
  due,        \* the keys in the map when the iteration began
  seen,       \* the keys the iteration has returned
  current,    \* current_conns
  toRemove,   \* keys_to_remove
  throughput, \* the bytes read by handle_inactive_connection
  report,     \* what each scrape returned last
  resets,     \* Unloads so far
  forgotten   \* history: closed bytes given up, by a reset or for an unknown address

pollVars == <<at, due, seen, current, toRemove, throughput, report>>
vars     == <<tracerVars, mapped, past, known, pollVars, resets, forgotten>>

\* A Connection: the workload at the other end, and which side serves.
Labels == Peers \X {"client", "server"}
Zero   == [l \in Labels |-> 0]

Reading(p) == at[p] = "iterate"
Writing(p) == at[p] \in {"get", "remove"}
Unlocked   == \A p \in Pollers : ~Reading(p) /\ ~Writing(p)

\* build_connection: both ends are known and so is the role.
Resolves(entry) == entry.peer \in known /\ entry.role # "unknown"
LabelOf(entry)  == <<entry.peer, entry.role>>

Total(counts, peer) == counts[<<peer, "client">>] + counts[<<peer, "server">>]

Goto(p, label) == at' = [at EXCEPT ![p] = label]

-----------------------------------------------------------------------------
(* ServiceMap::poll.                                                       *)

\* The read lock; past_conns_map is cloned and added to what is counted.
PollBegin(p) ==
  /\ at[p] = "idle"
  /\ mapped
  /\ \A q \in Pollers : ~Writing(q)
  /\ Goto(p, "iterate")
  /\ due' = [due EXCEPT ![p] = Present(conns)]
  /\ current' = [current EXCEPT ![p] = past]
  /\ UNCHANGED <<tracerVars, mapped, past, known, seen, toRemove, throughput, report,
                 resets, forgotten>>

\* Mutant: an entry that cannot be resolved is skipped before it is looked at.
VisitResolvesFirst(p, k) ==
  /\ Reading(p)
  /\ k \notin seen[p] /\ conns[k] # Absent
  /\ seen' = [seen EXCEPT ![p] = @ \cup {k}]
  /\ \/ /\ ~Resolves(conns[k])
        /\ UNCHANGED <<current, toRemove>>
     \/ /\ Resolves(conns[k]) /\ ~conns[k].active
        /\ toRemove' = [toRemove EXCEPT ![p] = Append(@, k)]
        /\ UNCHANGED current
     \/ /\ Resolves(conns[k]) /\ conns[k].active
        /\ current' = [current EXCEPT ![p][LabelOf(conns[k])] = @ + conns[k].bytes]
        /\ UNCHANGED toRemove
  /\ UNCHANGED <<tracerVars, mapped, past, known, at, due, throughput, report,
                 resets, forgotten>>

\* The iteration returns an entry.  Inactive ones are put aside; local ones, ones
\* of unknown role and ones build_connection cannot resolve are not counted.
Visit(p, k) ==
  /\ Reading(p)
  /\ k \notin seen[p] /\ conns[k] # Absent
  /\ seen' = [seen EXCEPT ![p] = @ \cup {k}]
  /\ \/ /\ ~conns[k].active
        /\ toRemove' = [toRemove EXCEPT ![p] = Append(@, k)]
        /\ UNCHANGED current
     \/ /\ conns[k].active
        /\ conns[k].peer \in LocalPeers \/ ~Resolves(conns[k])
        /\ UNCHANGED <<current, toRemove>>
     \/ /\ conns[k].active
        /\ conns[k].peer \notin LocalPeers /\ Resolves(conns[k])
        /\ current' = [current EXCEPT ![p][LabelOf(conns[k])] = @ + conns[k].bytes]
        /\ UNCHANGED toRemove
  /\ UNCHANGED <<tracerVars, mapped, past, known, at, due, throughput, report,
                 resets, forgotten>>

\* Keys inserted while the iteration runs may or may not be returned.  The read
\* lock is dropped.
IterationEnds(p) ==
  /\ Reading(p)
  /\ due[p] \cap Present(conns) \subseteq seen[p]
  /\ Goto(p, "relock")
  /\ due' = [due EXCEPT ![p] = {}]
  /\ seen' = [seen EXCEPT ![p] = {}]
  /\ UNCHANGED <<tracerVars, mapped, past, known, current, toRemove, throughput, report,
                 resets, forgotten>>

WriteLock(p) ==
  /\ at[p] = "relock"
  /\ Unlocked
  /\ Goto(p, "get")
  /\ UNCHANGED <<tracerVars, mapped, past, known, due, seen, current, toRemove,
                 throughput, report, resets, forgotten>>

\* Mutant: the entry is removed before it is read.
FoldGetLate(p) ==
  LET k == Head(toRemove[p]) IN
  /\ at[p] = "get" /\ toRemove[p] # <<>>
  /\ mapped
  /\ conns' = [conns EXCEPT ![k] = Absent]
  /\ Goto(p, "remove")
  /\ UNCHANGED <<tcp, sockets, nextId, sent, closed, mapped, past, known, due, seen,
                 current, toRemove, throughput, report, resets, forgotten>>

\* handle_inactive_connection: get.  It unwraps the map: a reset since the read
\* lock was dropped makes it panic, which releases the lock.
FoldGet(p) ==
  LET k == Head(toRemove[p]) IN
  /\ at[p] = "get" /\ toRemove[p] # <<>>
  /\ \/ /\ mapped
        /\ throughput' = [throughput EXCEPT ![p] =
                            IF conns[k] = Absent THEN 0 ELSE conns[k].bytes]
        /\ Goto(p, "remove")
        /\ UNCHANGED <<current, toRemove>>
     \/ /\ ~mapped
        /\ Goto(p, "idle")
        /\ current' = [current EXCEPT ![p] = Zero]
        /\ toRemove' = [toRemove EXCEPT ![p] = <<>>]
        /\ UNCHANGED throughput
  /\ UNCHANGED <<tracerVars, mapped, past, known, due, seen, report, resets, forgotten>>

\* handle_inactive_connection: remove, whose error ends it, then build_connection
\* and the addition to past_conns_map.
FoldRemove(p) ==
  LET k == Head(toRemove[p]) IN
  /\ at[p] = "remove"
  /\ \/ /\ conns[k] = Absent
        /\ UNCHANGED <<conns, past, forgotten>>
     \/ /\ conns[k] # Absent
        /\ conns' = [conns EXCEPT ![k] = Absent]
        /\ \/ /\ Resolves(conns[k])
              /\ past' = [past EXCEPT ![LabelOf(conns[k])] = @ + throughput[p]]
              /\ UNCHANGED forgotten
           \/ /\ ~Resolves(conns[k])
              /\ forgotten' = [forgotten EXCEPT ![conns[k].peer] = @ + throughput[p]]
              /\ UNCHANGED past
  /\ throughput' = [throughput EXCEPT ![p] = 0]
  /\ toRemove' = [toRemove EXCEPT ![p] = Tail(@)]
  /\ Goto(p, "get")
  /\ UNCHANGED <<tcp, sockets, nextId, sent, closed, mapped, known, due, seen, current,
                 report, resets>>

\* The counts go into the metrics of a scrape; the ticker drops them.
PollEnds(p) ==
  /\ at[p] = "get" /\ toRemove[p] = <<>>
  /\ report' = IF p = Ticker THEN report ELSE [report EXCEPT ![p] = current[p]]
  /\ current' = [current EXCEPT ![p] = Zero]
  /\ Goto(p, "idle")
  /\ UNCHANGED <<tracerVars, mapped, past, known, due, seen, toRemove, throughput,
                 resets, forgotten>>

-----------------------------------------------------------------------------
(* The rest of the agent.                                                  *)

\* ServiceMap::init opens the pinned map, which outlives the program.
InitMap ==
  /\ ~mapped
  /\ Unlocked
  /\ mapped' = TRUE
  /\ UNCHANGED <<tracerVars, past, known, pollVars, resets, forgotten>>

\* ServiceMap::reset, from Unload.
Reset ==
  /\ resets < MaxResets
  /\ Unlocked
  /\ mapped' = FALSE
  /\ past' = Zero
  /\ forgotten' = [x \in Peers |-> forgotten[x] + Total(past, x)]
  /\ resets' = resets + 1
  /\ UNCHANGED <<tracerVars, known, pollVars>>

\* A watcher of CacheManager adds an address; no watcher removes one.
Learn(x) ==
  /\ x \notin known
  /\ known' = known \cup {x}
  /\ UNCHANGED <<tracerVars, mapped, past, pollVars, resets, forgotten>>

Init ==
  /\ TracerInit
  /\ mapped = FALSE
  /\ past = Zero
  /\ known \in SUBSET Peers
  /\ at = [p \in Pollers |-> "idle"]
  /\ due = [p \in Pollers |-> {}]
  /\ seen = [p \in Pollers |-> {}]
  /\ current = [p \in Pollers |-> Zero]
  /\ toRemove = [p \in Pollers |-> <<>>]
  /\ throughput = [p \in Pollers |-> 0]
  /\ report = [p \in Pollers |-> Zero]
  /\ resets = 0
  /\ forgotten = [x \in Peers |-> 0]

Kernel == TracerNext /\ UNCHANGED <<mapped, past, known, pollVars, resets, forgotten>>

PollStep(p) ==
  \/ (\E k \in Ids : Visit(p, k)) \/ IterationEnds(p) \/ WriteLock(p)
  \/ FoldGet(p) \/ FoldRemove(p) \/ PollEnds(p)

Next ==
  \/ Kernel
  \/ \E p \in Pollers : PollBegin(p) \/ PollStep(p)
  \/ InitMap \/ Reset \/ \E x \in Peers : Learn(x)

Spec == Init /\ [][Next]_vars

(***************************************************************************)
(* The interval keeps ticking while the program is loaded, and a poll once *)
(* begun is carried through: parking_lot's locks are fair, so that a poll  *)
(* waiting for the write lock gets it although others keep reading.        *)
(***************************************************************************)
Fairness ==
  /\ WF_vars(PollBegin(Ticker))
  /\ \A p \in Pollers : WF_vars(PollStep(p)) /\ SF_vars(WriteLock(p))

FairSpec == Spec /\ Fairness

-----------------------------------------------------------------------------
(* Properties.                                                             *)

TypeOK ==
  /\ TracerTypeOK
  /\ mapped \in BOOLEAN
  /\ past \in [Labels -> Nat]
  /\ known \subseteq Peers
  /\ at \in [Pollers -> {"idle", "iterate", "relock", "get", "remove"}]
  /\ due \in [Pollers -> SUBSET Ids] /\ seen \in [Pollers -> SUBSET Ids]
  /\ current \in [Pollers -> [Labels -> Nat]]
  /\ toRemove \in [Pollers -> Seq(Ids)]
  /\ throughput \in [Pollers -> 0 .. MaxBytes]
  /\ report \in [Pollers -> [Labels -> Nat]]
  /\ resets \in 0 .. MaxResets

Bytes(x, keys) == MapThenSumSet(LAMBDA k : conns[k].bytes, {k \in keys : conns[k].peer = x})
Inactive == {k \in Present(conns) : ~conns[k].active}

\* No byte is counted twice: what is folded, with what the map still holds, is
\* never more than was sent, and neither is what a poll is about to return or a
\* scrape has returned, however the two pollers and the kernel interleave
\* (ServiceMap::poll and handle_inactive_connection).
NeverOvercounts ==
  \A x \in Peers :
    /\ Total(past, x) + Bytes(x, Present(conns)) <= sent[x]
    /\ \A p \in Pollers : Total(current[p], x) <= sent[x] /\ Total(report[p], x) <= sent[x]

\* No byte of a closed connection is lost or folded twice: it is in an inactive
\* entry, in past_conns_map, or was given up by an Unload or because an address
\* was unknown.
ClosedAccounted ==
  \A x \in Peers :
    closed[x] = Total(past, x) + Bytes(x, Inactive) + forgotten[x]

\* An inactive entry does not stay in the kernel's map while the program is
\* loaded: some poll folds it, or (after a simultaneous open) its connection
\* turns it active, even if the map overflows meanwhile.
InactiveIsFolded ==
  \A k \in Ids : k \in Inactive /\ mapped ~> k \notin Inactive \/ ~mapped
=============================================================================
