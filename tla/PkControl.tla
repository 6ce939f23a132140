------------------------------ MODULE PkControl ------------------------------
(***************************************************************************)
(* The PkControl client object of packagekit-glib2 (pk-control.c): the     *)
(* process-wide singleton, its registry of in-flight D-Bus calls           *)
(* (priv->calls), the eight asynchronous operations, their D-Bus reply     *)
(* callbacks and *_state_finish completions, the idle delivery of the      *)
(* caller's GAsyncReadyCallback, the blocking get-properties wrapper and   *)
(* the reference-counted teardown that cancels in-flight calls.            *)
(*                                                                         *)
(* Everything runs on one GLib main loop, so each action is one dispatch:  *)
(* an application call, one D-Bus reply, one idle source, one timeout.     *)
(* Interleaving is the order in which those dispatches happen.             *)
(***************************************************************************)
EXTENDS Naturals, FiniteSets, Sequences

CONSTANTS
  CallIds,      \* PkControlState slots; each slot is used by at most one call
  Ops,          \* the D-Bus methods the application may issue (subset of AllOps)
  MaxUserRefs,  \* bound on references the application holds at once
  MaxObjects,   \* bound on PkControl instances created by pk_control_new
  MaxRestarts,  \* bound on daemon restarts (each restart is a new property snapshot)
  NULL          \* model value: absent pointer / no error

AllOps == {"GetTid", "GetDaemonState", "SetProxy", "GetTransactionList",
           "GetTimeSinceAction", "GetNetworkState", "CanAuthorize", "GetProperties"}

ASSUME /\ Ops \subseteq AllOps /\ Ops # {}
       /\ MaxUserRefs \in Nat \ {0} /\ MaxObjects \in Nat \ {0}
       /\ MaxRestarts \in Nat

VARIABLES
  alive,      \* pk_control_object # NULL: the singleton exists
  objs,       \* number of PkControl instances created so far (current = objs)
  userRefs,   \* references held by the application
  calls,      \* priv->calls of the live instance
  cache,      \* property cache: daemon snapshot last collected (0 = defaults)
  st,         \* per slot: "unused" | "pending" | "finished" (freed) | "cancelled" (leaked)
  op,         \* per slot: the D-Bus method of the call
  owner,      \* per slot: instance number the call was issued on
  weakReg,    \* slots whose state->control is a registered weak pointer
  srcRef,     \* slots whose GSimpleAsyncResult holds a ref on its source object
  idle,       \* per slot: completions scheduled by complete_in_idle, not yet run
  delivered,  \* per slot: times the caller's callback has run
  outcome,    \* per slot: what the *_finish function returns to the caller
  pending,    \* libdbus pending calls not yet answered or cancelled
  reply,      \* per slot: the reply the bus delivered (history, for the contract)
  sync,       \* the slots blocked pk_control_get_properties_sync calls wait on,
              \*   outermost first (nested main loops)
  daemonUp,   \* packagekitd owns its bus name
  daemonGen   \* daemon incarnation; its properties are snapshot daemonGen

ctlVars == <<alive, objs, userRefs, calls, cache>>
callVars == <<st, op, owner, weakReg, srcRef, idle, delivered, outcome>>
busVars == <<pending, reply, sync, daemonUp, daemonGen>>
vars == <<ctlVars, callVars, busVars>>

-----------------------------------------------------------------------------
(* Replies, errors and results.                                            *)

\* A D-Bus reply: a return value or an error name.
Ret(v) == [kind |-> "ret", val |-> v]
Err(k) == [kind |-> "err", val |-> k]

DBusErrors == {"SpawnChildExited", "NoReply", "Remote"}
NetworkTexts == {"online", "offline", "bogus"}
AuthorizeTexts == {"yes", "no", "interactive", "bogus"}

\* GError as domain and code.
GErr(d, c) == [dom |-> d, code |-> c]

\* What the caller's *_finish gets: a value, or an error (NULL if none was set).
Ok(v) == [ok |-> TRUE, val |-> v, err |-> NULL]
Fail(e) == [ok |-> FALSE, val |-> NULL, err |-> e]

\* pk_network_enum_from_text / pk_authorize_type_enum_from_text: unknown
\* text decodes to "unknown".
NetworkEnumFromText(t) == IF t \in {"online", "offline"} THEN t ELSE "unknown"
AuthorizeEnumFromText(t) == IF t \in {"yes", "no", "interactive"} THEN t ELSE "unknown"

\* pk_control_fixup_dbus_error: rewrite a D-Bus error into the PkControl domain.
FixupDBusError(k) ==
  GErr("pk_control", IF k = "SpawnChildExited" THEN "CannotStartDaemon" ELSE "Failed")

\* Return values the daemon can send for each method.
RetValues(o) ==
  CASE o = "GetTimeSinceAction" -> {0, 1}
    [] o = "GetNetworkState"    -> NetworkTexts
    [] o = "CanAuthorize"       -> AuthorizeTexts
    [] o = "GetProperties"      -> {daemonGen}
    [] OTHER                    -> {"v"}

\* Mutant: the INT_MAX timeout also set on the properties proxy.
NoTimeoutProxiesAll == {"main", "props"}

\* pk_control_init: the main proxy never times out, the others keep the
\* dbus-glib default (~25 s).
NoTimeoutProxies == {"main"}
ProxyOf(o) == IF o = "GetProperties" THEN "props" ELSE "main"

-----------------------------------------------------------------------------
(* Reference counting and teardown.                                        *)

\* The instance's reference count: the application's refs plus one per
\* GSimpleAsyncResult still alive with it as source object.
RefCount == userRefs + Cardinality(srcRef)

\* pk_control_cancel_all_dbus_methods: cancel every call of priv->calls.
\* A cancelled call's notify never runs, so its state is left behind.
CancelAllDBusMethods ==
  /\ pending' = pending \ calls
  /\ st' = [c \in CallIds |-> IF c \in calls THEN "cancelled" ELSE st[c]]

\* pk_control_finalize: cancel the in-flight calls, drop the signal
\* handlers and proxies; GObject nulls the weak pointers and
\* pk_control_object.
Finalize ==
  /\ CancelAllDBusMethods
  /\ weakReg' = {}
  /\ calls' = {}
  /\ alive' = FALSE

\* A reference of the instance is dropped: the last one finalizes it.
ReleaseRef ==
  IF alive /\ RefCount' = 0
  THEN Finalize
  ELSE UNCHANGED <<pending, st, weakReg, calls, alive>>

-----------------------------------------------------------------------------
(* Application operations.                                                 *)

Init ==
  /\ alive = FALSE /\ objs = 0 /\ userRefs = 0 /\ calls = {} /\ cache = 0
  /\ st = [c \in CallIds |-> "unused"]
  /\ op = [c \in CallIds |-> NULL]
  /\ owner = [c \in CallIds |-> 0]
  /\ weakReg = {} /\ srcRef = {}
  /\ idle = [c \in CallIds |-> 0]
  /\ delivered = [c \in CallIds |-> 0]
  /\ outcome = [c \in CallIds |-> NULL]
  /\ pending = {}
  /\ reply = [c \in CallIds |-> NULL]
  /\ sync = <<>>
  /\ daemonUp \in BOOLEAN
  /\ daemonGen = 1

\* pk_control_init: an empty registry and the default property cache; the
\* proxies and signal connections it sets up are fixed for the instance.
PkControlInit == calls' = {} /\ cache' = 0

\* pk_control_new: ref the live singleton, or create one (pk_control_init
\* starts with an empty registry and a default property cache).
PkControlNew ==
  /\ userRefs < MaxUserRefs
  /\ IF alive
     THEN UNCHANGED <<objs, calls, cache>>
     ELSE /\ objs < MaxObjects
          /\ objs' = objs + 1
          /\ PkControlInit
  /\ alive' = TRUE
  /\ userRefs' = userRefs + 1
  /\ UNCHANGED <<callVars, busVars>>

\* g_object_unref by the application.
Unref ==
  /\ userRefs > 0
  /\ userRefs' = userRefs - 1
  /\ UNCHANGED srcRef
  /\ ReleaseRef
  /\ UNCHANGED <<objs, cache, op, owner, idle, delivered, outcome,
                 reply, sync, daemonUp, daemonGen>>

\* Mutant: the result is created without a ref on its source object.
AsyncWithoutSourceRef(c, o) ==
  /\ alive /\ userRefs > 0
  /\ st[c] = "unused"
  /\ st' = [st EXCEPT ![c] = "pending"]
  /\ op' = [op EXCEPT ![c] = o]
  /\ owner' = [owner EXCEPT ![c] = objs]
  /\ weakReg' = weakReg \cup {c}
  /\ pending' = pending \cup {c}
  /\ calls' = calls \cup {c}
  /\ UNCHANGED <<alive, objs, userRefs, cache, srcRef, idle, delivered, outcome,
                 reply, daemonUp, daemonGen>>

\* pk_control_<op>_async: build the state, take the weak pointer, begin
\* the D-Bus call, track it in priv->calls.  The result refs the instance.
Async(c, o) ==
  /\ alive /\ userRefs > 0
  /\ st[c] = "unused"
  /\ st' = [st EXCEPT ![c] = "pending"]
  /\ op' = [op EXCEPT ![c] = o]
  /\ owner' = [owner EXCEPT ![c] = objs]
  /\ srcRef' = srcRef \cup {c}
  /\ weakReg' = weakReg \cup {c}
  /\ pending' = pending \cup {c}
  /\ calls' = calls \cup {c}
  /\ UNCHANGED <<alive, objs, userRefs, cache, idle, delivered, outcome,
                 reply, daemonUp, daemonGen>>

\* The eight public entry points; each is Async on its method, on the main
\* proxy except get-properties (GetAll on the properties proxy).  Their
\* arguments (role, proxy URLs) only select what the daemon answers.
GetTidAsync(c) == "GetTid" \in Ops /\ Async(c, "GetTid")
GetDaemonStateAsync(c) == "GetDaemonState" \in Ops /\ Async(c, "GetDaemonState")
SetProxyAsync(c) == "SetProxy" \in Ops /\ Async(c, "SetProxy")
GetTransactionListAsync(c) ==
  "GetTransactionList" \in Ops /\ Async(c, "GetTransactionList")
GetTimeSinceActionAsync(c) ==
  "GetTimeSinceAction" \in Ops /\ Async(c, "GetTimeSinceAction")
GetNetworkStateAsync(c) == "GetNetworkState" \in Ops /\ Async(c, "GetNetworkState")
CanAuthorizeAsync(c) == "CanAuthorize" \in Ops /\ Async(c, "CanAuthorize")
GetPropertiesAsync(c) == "GetProperties" \in Ops /\ Async(c, "GetProperties")

\* pk_control_get_properties_sync: start GetAll and block in a private
\* main loop until the callback quits it.  Other sources keep dispatching,
\* and a callback they run may call the wrapper again: its loop then runs
\* nested inside the first one.
GetPropertiesSync(c) ==
  /\ GetPropertiesAsync(c)
  /\ sync' = Append(sync, c)

\* The innermost g_main_loop_run returns once pk_control_get_properties_sync_cb
\* quit its loop; an outer wrapper whose callback already ran inside it
\* returns only after it.
SyncReturn ==
  /\ sync # <<>>
  /\ delivered[sync[Len(sync)]] > 0
  /\ sync' = SubSeq(sync, 1, Len(sync) - 1)
  /\ UNCHANGED <<ctlVars, callVars, pending, reply, daemonUp, daemonGen>>

-----------------------------------------------------------------------------
(* D-Bus reply callbacks.                                                  *)

\* Mutant: g_object_remove_weak_pointer forgotten before the state is freed.
StateFinishKeepsWeakRef(c, res) ==
  /\ UNCHANGED weakReg
  /\ outcome' = [outcome EXCEPT ![c] = res]
  /\ calls' = calls \ {c}
  /\ idle' = [idle EXCEPT ![c] = @ + 1]
  /\ st' = [st EXCEPT ![c] = "finished"]

\* pk_control_<op>_state_finish: drop the weak pointer, store the value or
\* the error in the result, remove the state from priv->calls, schedule the
\* caller's callback with complete_in_idle, free the state.
StateFinish(c, res) ==
  /\ weakReg' = weakReg \ {c}
  /\ outcome' = [outcome EXCEPT ![c] = res]
  /\ calls' = calls \ {c}
  /\ idle' = [idle EXCEPT ![c] = @ + 1]
  /\ st' = [st EXCEPT ![c] = "finished"]

\* Each *_state_finish stores the value when the state's field is set, and
\* the error it was handed otherwise.
GetTidStateFinish(c, tid, error) ==
  StateFinish(c, IF tid # NULL THEN Ok(tid) ELSE Fail(error))
GetDaemonStateStateFinish(c, daemonState, error) ==
  StateFinish(c, IF daemonState # NULL THEN Ok(daemonState) ELSE Fail(error))
SetProxyStateFinish(c, ret, error) ==
  StateFinish(c, IF ret THEN Ok(TRUE) ELSE Fail(error))
GetTransactionListStateFinish(c, list, error) ==
  StateFinish(c, IF list # NULL THEN Ok(list) ELSE Fail(error))
GetTimeSinceActionStateFinish(c, time, error) ==
  StateFinish(c, IF time # 0 THEN Ok(time) ELSE Fail(error))
GetNetworkStateStateFinish(c, network, error) ==
  StateFinish(c, IF network # "unknown" THEN Ok(network) ELSE Fail(error))
CanAuthorizeStateFinish(c, authorize, error) ==
  StateFinish(c, IF authorize # "unknown" THEN Ok(authorize) ELSE Fail(error))
GetPropertiesStateFinish(c, ret, error) ==
  StateFinish(c, IF ret THEN Ok(TRUE) ELSE Fail(error))

\* pk_control_get_tid_cb: a D-Bus error is fixed up, a string is kept.
GetTidCb(c, r) ==
  /\ IF r.kind = "err" THEN GetTidStateFinish(c, NULL, FixupDBusError(r.val))
                       ELSE GetTidStateFinish(c, r.val, NULL)
  /\ UNCHANGED cache

\* pk_control_get_daemon_state_cb: same shape as GetTidCb.
GetDaemonStateCb(c, r) ==
  /\ IF r.kind = "err" THEN GetDaemonStateStateFinish(c, NULL, FixupDBusError(r.val))
                       ELSE GetDaemonStateStateFinish(c, r.val, NULL)
  /\ UNCHANGED cache

\* pk_control_set_proxy_cb: the D-Bus error is passed on without fixup.
SetProxyCb(c, r) ==
  /\ IF r.kind = "err" THEN SetProxyStateFinish(c, FALSE, GErr("dbus", r.val))
                       ELSE SetProxyStateFinish(c, TRUE, NULL)
  /\ UNCHANGED cache

\* pk_control_get_transaction_list_cb: same shape as GetTidCb.
GetTransactionListCb(c, r) ==
  /\ IF r.kind = "err"
     THEN GetTransactionListStateFinish(c, NULL, FixupDBusError(r.val))
     ELSE GetTransactionListStateFinish(c, r.val, NULL)
  /\ UNCHANGED cache

\* Mutant: the "goto out" after the zero-seconds finish is missing, so the
\* state is finished a second time and a second completion is scheduled.
GetTimeSinceActionCbNoGoto(c, r) ==
  /\ IF r.kind = "ret" /\ r.val = 0
     THEN /\ weakReg' = weakReg \ {c}
          /\ outcome' = [outcome EXCEPT ![c] = Fail(GErr("pk_control", "Failed"))]
          /\ calls' = calls \ {c}
          /\ idle' = [idle EXCEPT ![c] = @ + 2]
          /\ st' = [st EXCEPT ![c] = "finished"]
     ELSE IF r.kind = "err"
          THEN GetTimeSinceActionStateFinish(c, 0, FixupDBusError(r.val))
          ELSE GetTimeSinceActionStateFinish(c, r.val, NULL)
  /\ UNCHANGED cache

\* pk_control_get_time_since_action_cb: zero seconds is turned into an error.
GetTimeSinceActionCb(c, r) ==
  /\ CASE r.kind = "err" -> GetTimeSinceActionStateFinish(c, 0, FixupDBusError(r.val))
       [] r.val = 0      -> GetTimeSinceActionStateFinish(c, 0, GErr("pk_control", "Failed"))
       [] OTHER          -> GetTimeSinceActionStateFinish(c, r.val, NULL)
  /\ UNCHANGED cache

\* Mutant: the UNKNOWN check after decoding is missing, so the state is
\* finished with an UNKNOWN value and no error.
GetNetworkStateCbNoUnknownCheck(c, r) ==
  /\ IF r.kind = "err"
     THEN GetNetworkStateStateFinish(c, "unknown", FixupDBusError(r.val))
     ELSE GetNetworkStateStateFinish(c, NetworkEnumFromText(r.val), NULL)
  /\ UNCHANGED cache

\* pk_control_get_network_state_cb: text that decodes to UNKNOWN is an
\* error (the state's field starts UNKNOWN in the _async).
GetNetworkStateCb(c, r) ==
  /\ LET network == NetworkEnumFromText(r.val) IN
     CASE r.kind = "err" -> GetNetworkStateStateFinish(c, "unknown", FixupDBusError(r.val))
       [] network = "unknown"
              -> GetNetworkStateStateFinish(c, network, GErr("pk_control", "Failed"))
       [] OTHER -> GetNetworkStateStateFinish(c, network, NULL)
  /\ UNCHANGED cache

\* pk_control_can_authorize_cb: text that decodes to UNKNOWN is an error.
CanAuthorizeCb(c, r) ==
  /\ LET authorize == AuthorizeEnumFromText(r.val) IN
     CASE r.kind = "err" -> CanAuthorizeStateFinish(c, "unknown", FixupDBusError(r.val))
       [] authorize = "unknown"
              -> CanAuthorizeStateFinish(c, authorize, GErr("pk_control", "Failed"))
       [] OTHER -> CanAuthorizeStateFinish(c, authorize, NULL)
  /\ UNCHANGED cache

\* Mutant: the properties are collected only into a cache still at its
\* defaults, so a restarted daemon's properties are never picked up.
PropertiesCollectOnce(snapshot) == cache' = IF cache = 0 THEN snapshot ELSE cache

\* pk_control_get_properties_collect_cb: every property of the reply
\* overwrites its cache field; the snapshot stands for the whole hash.
PropertiesCollect(snapshot) == cache' = snapshot

\* pk_control_get_property: each GObject property reads its cache field.
GetProperty == cache

\* pk_control_get_properties_cb: error passed on as is; on success the
\* hash is collected into the instance's cache before finishing.
GetPropertiesCb(c, r) ==
  IF r.kind = "err"
  THEN GetPropertiesStateFinish(c, FALSE, GErr("dbus", r.val)) /\ UNCHANGED cache
  ELSE GetPropertiesStateFinish(c, TRUE, NULL) /\ PropertiesCollect(r.val)

\* The notify each _async passed to dbus_g_proxy_begin_call.
Callback(c, r) ==
  CASE op[c] = "GetTid"             -> GetTidCb(c, r)
    [] op[c] = "GetDaemonState"     -> GetDaemonStateCb(c, r)
    [] op[c] = "SetProxy"           -> SetProxyCb(c, r)
    [] op[c] = "GetTransactionList" -> GetTransactionListCb(c, r)
    [] op[c] = "GetTimeSinceAction" -> GetTimeSinceActionCb(c, r)
    [] op[c] = "GetNetworkState"    -> GetNetworkStateCb(c, r)
    [] op[c] = "CanAuthorize"       -> CanAuthorizeCb(c, r)
    [] op[c] = "GetProperties"      -> GetPropertiesCb(c, r)

\* libdbus completes a pending call with reply r and runs its notify.
Complete(c, r) ==
  /\ c \in pending
  /\ pending' = pending \ {c}
  /\ reply' = [reply EXCEPT ![c] = r]
  /\ Callback(c, r)
  /\ UNCHANGED <<alive, objs, userRefs, op, owner, srcRef, delivered,
                 sync, daemonUp, daemonGen>>

\* The daemon answers a method call: a return value or a method error.
DaemonReply(c) ==
  /\ daemonUp
  /\ \E r \in {Ret(v) : v \in RetValues(op[c])} \cup {Err("Remote")} : Complete(c, r)

\* The bus answers for a daemon that is gone: activation failed or the
\* owner vanished before replying.
BusError(c) ==
  /\ ~daemonUp
  /\ \E k \in {"SpawnChildExited", "NoReply"} : Complete(c, Err(k))

\* dbus-glib's default call timeout fires on a proxy that keeps it.
Timeout(c) ==
  /\ c \in pending
  /\ ProxyOf(op[c]) \notin NoTimeoutProxies
  /\ Complete(c, Err("NoReply"))

DaemonExit ==
  /\ daemonUp
  /\ daemonUp' = FALSE
  /\ UNCHANGED <<ctlVars, callVars, pending, reply, sync, daemonGen>>

\* The daemon (re)starts, by bus activation or by hand: a new incarnation.
DaemonStart ==
  /\ ~daemonUp
  /\ daemonGen <= MaxRestarts
  /\ daemonUp' = TRUE
  /\ daemonGen' = daemonGen + 1
  /\ UNCHANGED <<ctlVars, callVars, pending, reply, sync>>

\* Mutant: the idle source runs whether or not a completion is scheduled.
DeliverUnscheduled(c) ==
  /\ idle' = [idle EXCEPT ![c] = @ - 1]
  /\ delivered' = [delivered EXCEPT ![c] = @ + 1]
  /\ srcRef' = IF idle[c] = 1 THEN srcRef \ {c} ELSE srcRef
  /\ UNCHANGED userRefs
  /\ ReleaseRef
  /\ UNCHANGED <<objs, cache, op, owner, outcome, busVars>>

\* The idle source of complete_in_idle runs the caller's callback (which
\* calls <op>_finish); then the result is unreffed, and with it its source.
Deliver(c) ==
  /\ idle[c] > 0
  /\ idle' = [idle EXCEPT ![c] = @ - 1]
  /\ delivered' = [delivered EXCEPT ![c] = @ + 1]
  /\ srcRef' = IF idle[c] = 1 THEN srcRef \ {c} ELSE srcRef
  /\ UNCHANGED userRefs
  /\ ReleaseRef
  /\ UNCHANGED <<objs, cache, op, owner, outcome, busVars>>

-----------------------------------------------------------------------------
(* What the caller's callback gets from <op>_finish.                       *)

\* g_simple_async_result_propagate_error: a failed result hands the caller
\* its error together with the value the function returns on failure;
\* otherwise the stored value is returned.
FinishReturn(res, unset) == IF res.ok THEN res ELSE [res EXCEPT !.val = unset]

GetTidFinish(res)             == FinishReturn(res, NULL)
GetDaemonStateFinish(res)     == FinishReturn(res, NULL)
SetProxyFinish(res)           == FinishReturn(res, FALSE)
GetTransactionListFinish(res) == FinishReturn(res, NULL)
GetTimeSinceActionFinish(res) == FinishReturn(res, 0)
GetNetworkStateFinish(res)    == FinishReturn(res, "unknown")
CanAuthorizeFinish(res)       == FinishReturn(res, "unknown")
GetPropertiesFinish(res)      == FinishReturn(res, FALSE)

\* The caller's callback calls the _finish of the _async it started.
OpFinish(o, res) ==
  CASE o = "GetTid"             -> GetTidFinish(res)
    [] o = "GetDaemonState"     -> GetDaemonStateFinish(res)
    [] o = "SetProxy"           -> SetProxyFinish(res)
    [] o = "GetTransactionList" -> GetTransactionListFinish(res)
    [] o = "GetTimeSinceAction" -> GetTimeSinceActionFinish(res)
    [] o = "GetNetworkState"    -> GetNetworkStateFinish(res)
    [] o = "CanAuthorize"       -> CanAuthorizeFinish(res)
    [] o = "GetProperties"      -> GetPropertiesFinish(res)

-----------------------------------------------------------------------------
Next ==
  \/ PkControlNew
  \/ Unref
  \/ \E c \in CallIds :
       /\ \/ GetTidAsync(c) \/ GetDaemonStateAsync(c)
          \/ SetProxyAsync(c) \/ GetTransactionListAsync(c)
          \/ GetTimeSinceActionAsync(c) \/ GetNetworkStateAsync(c)
          \/ CanAuthorizeAsync(c) \/ GetPropertiesAsync(c)
       /\ UNCHANGED sync
  \/ \E c \in CallIds : GetPropertiesSync(c)
  \/ SyncReturn
  \/ \E c \in CallIds : DaemonReply(c) \/ BusError(c) \/ Timeout(c)
  \/ \E c \in CallIds : Deliver(c)
  \/ DaemonExit
  \/ DaemonStart

\* The main loop keeps dispatching idle sources, libdbus keeps completing
\* calls (the daemon or the bus answers every call), and the blocked sync
\* wrapper returns once its callback ran.  Application steps are not fair.
Fairness ==
  /\ \A c \in CallIds : WF_vars(Deliver(c))
  /\ \A c \in CallIds : WF_vars(DaemonReply(c) \/ BusError(c) \/ Timeout(c))
  /\ WF_vars(SyncReturn)

Spec == Init /\ [][Next]_vars /\ Fairness

\* A daemon that is up but never answers: only timeouts complete calls.
HungFairness ==
  /\ \A c \in CallIds : WF_vars(Deliver(c))
  /\ \A c \in CallIds : WF_vars(Timeout(c))
  /\ WF_vars(SyncReturn)

HungSpec == Init /\ [][Next]_vars /\ HungFairness

-----------------------------------------------------------------------------
(* Properties.                                                             *)

GErrs == {GErr(d, k) : d \in {"dbus", "pk_control"},
                       k \in DBusErrors \cup {"CannotStartDaemon", "Failed"}}

TypeOK ==
  /\ alive \in BOOLEAN /\ objs \in 0..MaxObjects /\ userRefs \in 0..MaxUserRefs
  /\ calls \subseteq CallIds /\ cache \in 0..MaxRestarts + 1
  /\ st \in [CallIds -> {"unused", "pending", "finished", "cancelled"}]
  /\ op \in [CallIds -> Ops \cup {NULL}]
  /\ owner \in [CallIds -> 0..MaxObjects]
  /\ weakReg \subseteq CallIds /\ srcRef \subseteq CallIds
  /\ idle \in [CallIds -> Nat] /\ delivered \in [CallIds -> Nat]
  /\ \A c \in CallIds : outcome[c] = NULL \/
        /\ outcome[c].ok \in BOOLEAN /\ outcome[c].err \in GErrs \cup {NULL}
  /\ pending \subseteq CallIds
  /\ sync \in Seq(CallIds)
  /\ daemonUp \in BOOLEAN /\ daemonGen \in 1..MaxRestarts + 1

\* Registry, transport and weak pointers agree through every interleaving of
\* calls, replies, timeouts, idle completions and unrefs: priv->calls of the
\* live instance is exactly the set of libdbus calls in flight, each with
\* its weak pointer registered, so finalize cancels every call that could
\* still run a notify and never writes NULL into a state *_state_finish
\* already freed.
RegistryMatchesTransport ==
  /\ pending = calls
  /\ weakReg = calls
  /\ \A c \in calls : alive /\ owner[c] = objs /\ st[c] = "pending"

\* A caller that reads the properties (g_object_get, i.e.
\* pk_control_get_property) from the callback of a successful
\* get-properties sees the snapshot its reply carried or a newer one: not
\* the defaults of a re-created instance, nor an older daemon's values,
\* whatever replies, restarts and unrefs ran between the collect and the
\* idle completion.
PropertiesFreshInCallback ==
  [][\A c \in CallIds :
       Deliver(c) /\ op[c] = "GetProperties" /\ outcome[c].ok
         => GetProperty >= reply[c].val]_vars

\* The caller's callback never runs against a finalized PkControl: while a
\* completion is scheduled by complete_in_idle, the instance it was issued
\* on is still the live singleton (the result's ref keeps it alive).
NoCallbackOnFinalizedControl ==
  \A c \in CallIds : idle[c] > 0 => alive /\ owner[c] = objs

\* Each call is completed at most once: *_state_finish runs once per call,
\* so one idle completion is ever scheduled and the callback runs once.
CompletedAtMostOnce ==
  \A c \in CallIds : idle[c] + delivered[c] <= 1

\* The result the caller's _finish returns follows the reply the bus
\* delivered, per the table of the spec (section 4.4): a value is passed on,
\* zero seconds or an unknown enum text is a PkControl error, and a failed
\* call always carries an error.
ResultMatchesReply ==
  \A c \in CallIds : st[c] = "finished" =>
    LET r == reply[c]
        res == outcome[c]
    IN IF r.kind = "err" THEN ~res.ok /\ res.err # NULL
       ELSE CASE op[c] = "GetTimeSinceAction" ->
                   res = IF r.val = 0 THEN Fail(GErr("pk_control", "Failed")) ELSE Ok(r.val)
              [] op[c] = "GetNetworkState" ->
                   res = IF r.val \in {"online", "offline"} THEN Ok(r.val)
                         ELSE Fail(GErr("pk_control", "Failed"))
              [] op[c] = "CanAuthorize" ->
                   res = IF r.val \in {"yes", "no", "interactive"} THEN Ok(r.val)
                         ELSE Fail(GErr("pk_control", "Failed"))
              [] op[c] \in {"SetProxy", "GetProperties"} -> res = Ok(TRUE)
              [] OTHER -> res = Ok(r.val)

\* Any transport error is rewritten into the PkControl domain before it
\* reaches the caller, except get-properties which passes it on verbatim
\* (spec section 4.4, "Error normalization").
ErrorsNormalized ==
  \A c \in CallIds :
    (st[c] = "finished" /\ op[c] # "GetProperties" /\ ~outcome[c].ok)
      => outcome[c].err.dom = "pk_control"

\* Every blocking pk_control_get_properties_sync returns, nested ones
\* included, even when the daemon holds its name but never answers: an
\* outer wrapper whose callback already ran waits for the inner ones, which
\* return in turn.
SyncWaiting(c) == \E i \in 1 .. Len(sync) : sync[i] = c

SyncReturns == \A c \in CallIds : SyncWaiting(c) ~> ~SyncWaiting(c)

\* The detailed object implements the abstract call contract PkControlCalls:
\* a call is resolved when its callback has run, with what <op>_finish
\* returned to it.
Calls == INSTANCE PkControlCalls WITH
  issued <- [c \in CallIds |-> IF st[c] = "unused" THEN NULL ELSE op[c]],
  resolved <- [c \in CallIds |-> IF delivered[c] > 0 THEN OpFinish(op[c], outcome[c])
                                                    ELSE NULL]

CallsRefinement == Calls!Spec
=============================================================================
