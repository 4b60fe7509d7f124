-------------------------- MODULE MC_CacheManager --------------------------
(* An instance of CacheManager for TLC. *)
EXTENDS CacheManager, TLC

CONSTANTS p1, p2, rs, crd, svc, x, y

\* A pod of a replica set that a custom resource controls, a pod on its own, and a
\* service that has an address or is headless.
MCObjs   == {p1, p2, rs, crd, svc}
MCKind   == p1 :> "Pod" @@ p2 :> "Pod" @@ rs :> "ReplicaSet" @@ crd :> "Other" @@ svc :> "Service"
MCParent == p1 :> rs @@ p2 :> None @@ rs :> crd @@ crd :> None @@ svc :> None
MCAddr   == svc :> {{y}, {None}}
MCOrder  == <<"Pod", "Service", "ReplicaSet">>
=============================================================================
