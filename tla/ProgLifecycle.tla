---------------------------- MODULE ProgLifecycle ----------------------------
(***************************************************************************)
(* What the program manager promises about a program, seen through its     *)
(* state and whether an instance of it executes: it is initialised when    *)
(* nothing executes, runs once per initialisation, and becomes             *)
(* Uninitialized again only when its instance is gone.                     *)
(***************************************************************************)

CONSTANT Progs

VARIABLES
  status,    \* the ProgramState of each program
  executing  \* an instance of the program exists

lifecycleVars == <<status, executing>>

LifecycleInit ==
  /\ status = [p \in Progs |-> "Uninitialized"]
  /\ executing = [p \in Progs |-> FALSE]

Initialize(p) ==
  /\ status[p] = "Uninitialized" /\ ~executing[p]
  /\ status' = [status EXCEPT ![p] = "Initialized"]
  /\ UNCHANGED executing

Launch(p) ==
  /\ status[p] = "Initialized" /\ ~executing[p]
  /\ executing' = [executing EXCEPT ![p] = TRUE]
  /\ UNCHANGED status

Run(p) ==
  /\ status[p] = "Initialized" /\ executing[p]
  /\ status' = [status EXCEPT ![p] = "Running"]
  /\ UNCHANGED executing

Finish(p) ==
  /\ status[p] = "Running" /\ executing[p]
  /\ \E s \in {"Stopped", "Failed"} : status' = [status EXCEPT ![p] = s]
  /\ executing' = [executing EXCEPT ![p] = FALSE]

\* A panic records nothing.
Crash(p) ==
  /\ status[p] = "Running" /\ executing[p]
  /\ executing' = [executing EXCEPT ![p] = FALSE]
  /\ UNCHANGED status

Retire(p) ==
  /\ ~executing[p]
  /\ status' = [status EXCEPT ![p] = "Uninitialized"]
  /\ UNCHANGED executing

LifecycleNext ==
  \E p \in Progs :
    Initialize(p) \/ Launch(p) \/ Run(p) \/ Finish(p) \/ Crash(p) \/ Retire(p)

LifecycleSpec == LifecycleInit /\ [][LifecycleNext]_lifecycleVars
=============================================================================
