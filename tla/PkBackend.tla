------------------------------- MODULE PkBackend -------------------------------
(***************************************************************************)
(* The daemon with the spawn backend it was configured to load: conary or  *)
(* smart.  The backend is chosen once, when the daemon starts, and every   *)
(* transaction then runs through that backend's role functions.            *)
(***************************************************************************)
EXTENDS PkBackendSpawn

CONSTANT Backends   \* the backends the daemon may be configured with

ASSUME Backends \subseteq {"conary", "smart"}

VARIABLE backend    \* the loaded backend

Conary == INSTANCE PkBackendConary
Smart  == INSTANCE PkBackendSmart

allVars == <<vars, backend>>

Init == backend \in Backends /\ InitSpawn

Next ==
  /\ IF backend = "conary" THEN Conary!Next ELSE Smart!Next
  /\ UNCHANGED backend

Spec == Init /\ [][Next]_allVars /\ EngineFairness

HungSpec == Init /\ [][Next]_allVars /\ HungFairness
=============================================================================
