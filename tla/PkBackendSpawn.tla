---------------------------- MODULE PkBackendSpawn ----------------------------
(***************************************************************************)
(* What a spawn-based backend (src/backends/...) runs inside: the daemon's   *)
(* transaction engine, which hands one transaction at a time to the        *)
(* backend's role function, and the helper-process supervisor              *)
(* (PkBackendSpawn, PkNetwork, pk_backend_error_code/finished) that the    *)
(* role functions call.  Neither is under src/: they are modelled from the *)
(* helper-process contract of the spec (section 4.5).  The backends'       *)
(* modules extend this one with their role functions.                      *)
(***************************************************************************)
EXTENDS Naturals, Sequences

CONSTANTS
  TxIds,      \* transactions the daemon runs
  MaxFlips,   \* bound on network reachability changes
  NULL

ASSUME MaxFlips \in Nat

VARIABLES
  loaded,      \* backend module: "unloaded" | "loaded" | "destroyed"
  online,      \* what pk_network_is_online reports now
  flips,       \* reachability changes so far
  role,        \* per transaction: the role it was started with, or NULL
  helper,      \* per transaction: "none" | "running" | "exit-ok" | "exit-fail"
               \*   | "killed" | "reaped"
  cmd,         \* per transaction: the helper's argv (script first), or <<>>
  netAtSpawn,  \* per transaction: reachability when its helper was spawned
  result,      \* per transaction: the error or exit the daemon reports, or NULL
  finishes,    \* per transaction: times pk_backend_finished ran for it
  cancelReq    \* transactions whose cancel the client requested

vars == <<loaded, online, flips, role, helper, cmd, netAtSpawn, result,
          finishes, cancelReq>>

\* Helpers whose role needs the network (spec section 4.5).
NetworkScripts == {"install.py", "refresh-cache.py", "update.py", "update-system.py"}

\* A transaction has been handed to the backend and has not finished.
Active(t) == role[t] # NULL /\ finishes[t] = 0

Finished(t) == finishes[t] > 0

-----------------------------------------------------------------------------
(* What the role functions call.                                           *)

\* pk_backend_spawn_helper: start the helper with its argv.
SpawnHelper(t, argv) ==
  /\ helper' = [helper EXCEPT ![t] = "running"]
  /\ cmd' = [cmd EXCEPT ![t] = argv]
  /\ netAtSpawn' = [netAtSpawn EXCEPT ![t] = online]

\* pk_backend_error_code.
ErrorCode(t, e) == result' = [result EXCEPT ![t] = e]

\* pk_backend_finished.
BackendFinished(t) == finishes' = [finishes EXCEPT ![t] = @ + 1]

\* A role function whose only step is to spawn its helper.
Spawn(t, argv) == SpawnHelper(t, argv) /\ UNCHANGED <<result, finishes>>

\* The offline branch of a network-checked role: report NO_NETWORK,
\* finish, return without spawning.
FailNoNetwork(t) ==
  /\ ErrorCode(t, "no-network")
  /\ BackendFinished(t)
  /\ UNCHANGED <<helper, cmd, netAtSpawn>>

\* pk_backend_spawn_kill: terminate the running helper, if there is one.
Kill(t) ==
  helper' = [helper EXCEPT ![t] = IF @ = "running" THEN "killed" ELSE @]

-----------------------------------------------------------------------------
(* Engine and environment.                                                 *)

InitSpawn ==
  /\ loaded = "unloaded"
  /\ online \in BOOLEAN /\ flips = 0
  /\ role = [t \in TxIds |-> NULL]
  /\ helper = [t \in TxIds |-> "none"]
  /\ cmd = [t \in TxIds |-> <<>>]
  /\ netAtSpawn = [t \in TxIds |-> NULL]
  /\ result = [t \in TxIds |-> NULL]
  /\ finishes = [t \in TxIds |-> 0]
  /\ cancelReq = {}

\* Network reachability changes.
NetworkChange ==
  /\ flips < MaxFlips
  /\ online' = ~online /\ flips' = flips + 1
  /\ UNCHANGED <<loaded, role, helper, cmd, netAtSpawn, result, finishes, cancelReq>>

\* The engine hands a new transaction to the backend when none is active;
\* the role function Handler runs in the same dispatch.
Begin(t, r) ==
  /\ loaded = "loaded"
  /\ role[t] = NULL
  /\ \A u \in TxIds : ~Active(u)
  /\ role' = [role EXCEPT ![t] = r]
  /\ UNCHANGED <<loaded, online, flips, cancelReq>>

\* The helper process exits, having announced success or not.
HelperExit(t) ==
  /\ helper[t] = "running"
  /\ \E ok \in BOOLEAN : helper' = [helper EXCEPT ![t] = IF ok THEN "exit-ok" ELSE "exit-fail"]
  /\ UNCHANGED <<loaded, online, flips, role, cmd, netAtSpawn, result, finishes, cancelReq>>

\* The supervisor's exit callback: report the outcome and finish.
SpawnExitCb(t) ==
  /\ helper[t] \in {"exit-ok", "exit-fail", "killed"}
  /\ helper' = [helper EXCEPT ![t] = "reaped"]
  /\ ErrorCode(t, CASE helper[t] = "exit-ok"   -> "success"
                    [] helper[t] = "exit-fail" -> "failed"
                    [] helper[t] = "killed"    -> "cancelled")
  /\ BackendFinished(t)
  /\ UNCHANGED <<loaded, online, flips, role, cmd, netAtSpawn, cancelReq>>

\* The client asks to cancel an active transaction; the engine calls the
\* backend's cancel function, BackendCancel, if it has one.
RequestCancel(t) ==
  /\ Active(t) /\ t \notin cancelReq
  /\ cancelReq' = cancelReq \cup {t}
  /\ UNCHANGED <<loaded, online, flips, role, cmd, netAtSpawn, result, finishes>>

EngineNext ==
  \/ NetworkChange
  \/ \E t \in TxIds : HelperExit(t) \/ SpawnExitCb(t)

\* Helpers eventually exit and the daemon's main loop reaps them.
EngineFairness ==
  \A t \in TxIds : WF_vars(HelperExit(t)) /\ WF_vars(SpawnExitCb(t))

\* A helper that hangs: only the reaping of exited or killed helpers is fair.
HungFairness == \A t \in TxIds : WF_vars(SpawnExitCb(t))

-----------------------------------------------------------------------------
(* Properties shared by every backend.                                     *)

Tokens == {"pid", "pids", "filter", "search", "path", "rid",
           "yes", "no", "true", "false"}

TypeOK ==
  /\ loaded \in {"unloaded", "loaded", "destroyed"}
  /\ online \in BOOLEAN /\ flips \in 0..MaxFlips
  /\ helper \in [TxIds -> {"none", "running", "exit-ok", "exit-fail", "killed", "reaped"}]
  /\ \A t \in TxIds : cmd[t] = <<>> \/
        (\A i \in 2..Len(cmd[t]) : cmd[t][i] \in Tokens)
  /\ result \in [TxIds -> {NULL, "no-network", "success", "failed", "cancelled"}]
  /\ finishes \in [TxIds -> Nat] /\ cancelReq \subseteq TxIds

\* A transaction is finished once, and nothing of it runs after: once
\* pk_backend_finished has been called, no helper of it is still running,
\* whether it ended on the offline branch of a role function, by its
\* helper's exit or by a cancel.
FinishedOnceAndQuiet ==
  \A t \in TxIds : /\ finishes[t] <= 1
                   /\ Finished(t) => helper[t] \notin {"running", "exit-ok", "exit-fail", "killed"}

\* A transaction whose cancel was requested finishes even if its helper
\* would never exit by itself (spec section 4.5: cancellation terminates
\* the helper).
CancelledTxFinishes == \A t \in TxIds : t \in cancelReq ~> Finished(t)

\* No helper of a role that needs the network is spawned while offline
\* (spec section 4.5).
NoNetworkHelperOffline ==
  \A t \in TxIds : cmd[t] # <<>> /\ cmd[t][1] \in NetworkScripts => netAtSpawn[t]

\* The backend implements the abstract transaction contract PkBackendJob: a
\* transaction is running from the dispatch that handed it to the backend
\* until pk_backend_finished, and its outcome is the error code reported
\* with that finish, whether from an offline branch, a helper's exit or a
\* kill.  Helpers, argv and the module's lifecycle are hidden.
Job == INSTANCE PkBackendJob WITH
  status <- [t \in TxIds |-> IF role[t] = NULL THEN "idle"
                            ELSE IF Finished(t) THEN "finished" ELSE "running"]

JobRefinement == Job!Spec
=============================================================================
