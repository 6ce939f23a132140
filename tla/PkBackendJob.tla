----------------------------- MODULE PkBackendJob -----------------------------
(***************************************************************************)
(* What a backend promises the daemon for its transactions (spec section   *)
(* 4.5), with no helper processes in sight: the engine runs one            *)
(* transaction at a time; a transaction is refused with NO_NETWORK only   *)
(* while the network is down; a running transaction finishes once, with   *)
(* an outcome, and reports "cancelled" only if its cancel was requested.  *)
(* PkBackendSpawn's backends are shown to implement this module.          *)
(***************************************************************************)
CONSTANTS TxIds, NULL

VARIABLES
  online,     \* network reachability
  status,     \* per transaction: "idle" | "running" | "finished"
  result,     \* per transaction: its outcome once finished, else NULL
  cancelReq   \* transactions whose cancel was requested

jobVars == <<online, status, result, cancelReq>>

Outcomes == {"success", "failed", "cancelled", "no-network"}

NoneRunning == \A u \in TxIds : status[u] # "running"

Init ==
  /\ online \in BOOLEAN
  /\ status = [t \in TxIds |-> "idle"]
  /\ result = [t \in TxIds |-> NULL]
  /\ cancelReq = {}

NetworkChange ==
  /\ online' = ~online
  /\ UNCHANGED <<status, result, cancelReq>>

\* The engine hands an idle transaction to the backend.
Start(t) ==
  /\ status[t] = "idle" /\ NoneRunning
  /\ status' = [status EXCEPT ![t] = "running"]
  /\ UNCHANGED <<online, result, cancelReq>>

\* The transaction is refused at once because the network is down.
Refuse(t) ==
  /\ status[t] = "idle" /\ NoneRunning /\ ~online
  /\ status' = [status EXCEPT ![t] = "finished"]
  /\ result' = [result EXCEPT ![t] = "no-network"]
  /\ UNCHANGED <<online, cancelReq>>

Cancel(t) ==
  /\ status[t] = "running" /\ t \notin cancelReq
  /\ cancelReq' = cancelReq \cup {t}
  /\ UNCHANGED <<online, status, result>>

\* A running transaction finishes; "cancelled" only after a cancel request.
Finish(t, r) ==
  /\ status[t] = "running"
  /\ r \in {"success", "failed"} \/ (r = "cancelled" /\ t \in cancelReq)
  /\ status' = [status EXCEPT ![t] = "finished"]
  /\ result' = [result EXCEPT ![t] = r]
  /\ UNCHANGED <<online, cancelReq>>

Next ==
  \/ NetworkChange
  \/ \E t \in TxIds : Start(t) \/ Refuse(t) \/ Cancel(t)
  \/ \E t \in TxIds, r \in Outcomes : Finish(t, r)

\* A running transaction is not left running forever.
Spec == Init /\ [][Next]_jobVars
        /\ \A t \in TxIds : WF_jobVars(\E r \in Outcomes : Finish(t, r))
=============================================================================
