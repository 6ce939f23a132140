--------------------------- MODULE PkControlSignals ---------------------------
(***************************************************************************)
(* The daemon-signal side of PkControl (pk-control.c): the handlers that   *)
(* pk_control_init connects on the main proxy and on the bus proxy, which  *)
(* re-emit daemon signals as local GObject signals, and the NameOwnerChanged *)
(* handler that emits connection-changed.  pk_control_finalize disconnects *)
(* them and drops the proxies, which removes the match rules.              *)
(*                                                                         *)
(* The system bus connection is shared by every instance (dbus_g_bus_get). *)
(* Signals the bus routes to the process wait in the connection's incoming *)
(* queue, in order, and are dispatched one per main-loop iteration to the  *)
(* handlers connected at that moment.                                      *)
(***************************************************************************)
EXTENDS Naturals, Sequences

CONSTANTS
  Owners,       \* unique bus names the daemon can hold PK_DBUS_SERVICE with
  MaxObjects,   \* bound on PkControl instances created by pk_control_new
  MaxMsgs,      \* bound on signals the bus sends to the process
  NULL

ASSUME Owners # {} /\ "" \notin Owners /\ MaxObjects \in Nat \ {0} /\ MaxMsgs \in Nat

VARIABLES
  alive,     \* pk_control_object # NULL: handlers and match rules installed
  objs,      \* number of instances created so far
  owner,     \* current owner of PK_DBUS_SERVICE, "" when unowned
  q,         \* the shared connection's incoming signal queue
  sent,      \* signals the bus has routed to the process so far
  events     \* local signals emitted by the current instance, in order

vars == <<alive, objs, owner, q, sent, events>>

-----------------------------------------------------------------------------
(* Messages and local events.                                              *)

\* NameOwnerChanged(name, prev, new) from org.freedesktop.DBus; only the
\* daemon's name and one other name are told apart.
NOC(name, prev, new) == [iface |-> "dbus", name |-> name, prev |-> prev, new |-> new]

\* A signal of the PackageKit interface with its argument (NULL if none).
PkSig(s, a) == [iface |-> "pk", sig |-> s, arg |-> a]

ArglessSignals == {"TransactionListChanged", "UpdatesChanged",
                   "RepoListChanged", "RestartSchedule"}
NetworkTexts == {"online", "bogus"}

Ev(s, a) == [sig |-> s, arg |-> a]

NetworkEnumFromText(t) == IF t \in {"online", "offline"} THEN t ELSE "unknown"

\* The last connection-changed value the current instance emitted, or NULL.
ConnEvents == SelectSeq(events, LAMBDA e : e.sig = "connection-changed")
View == IF ConnEvents = <<>> THEN NULL ELSE ConnEvents[Len(ConnEvents)].arg

-----------------------------------------------------------------------------
Init ==
  /\ alive = FALSE /\ objs = 0
  /\ owner \in Owners \cup {""}
  /\ q = <<>> /\ sent = 0 /\ events = <<>>

\* pk_control_new creating an instance: pk_control_init builds the proxies
\* (installing the match rules) and connects the seven handlers.  The new
\* instance has emitted nothing yet.
PkControlNew ==
  /\ ~alive /\ objs < MaxObjects
  /\ alive' = TRUE /\ objs' = objs + 1
  /\ events' = <<>>
  /\ UNCHANGED <<owner, q, sent>>

\* pk_control_finalize: disconnect every handler and unref the proxies,
\* which removes the match rules.  Signals already queued stay queued.
Finalize ==
  /\ alive
  /\ alive' = FALSE
  /\ UNCHANGED <<objs, owner, q, sent, events>>

\* The bus routes a signal to the process only while a match rule exists.
Route(m) ==
  IF alive THEN q' = Append(q, m) /\ sent' = sent + 1 ELSE UNCHANGED <<q, sent>>

\* The daemon takes its name (bus activation or a manual start).
DaemonAcquire(o) ==
  /\ owner = "" /\ sent < MaxMsgs
  /\ owner' = o
  /\ Route(NOC("pk", "", o))
  /\ UNCHANGED <<alive, objs, events>>

\* The daemon exits and its name is released.
DaemonRelease ==
  /\ owner # "" /\ sent < MaxMsgs
  /\ owner' = ""
  /\ Route(NOC("pk", owner, ""))
  /\ UNCHANGED <<alive, objs, events>>

\* Another client queues for the name and replaces the owner.
DaemonReplace(o) ==
  /\ owner \notin {"", o} /\ sent < MaxMsgs
  /\ owner' = o
  /\ Route(NOC("pk", owner, o))
  /\ UNCHANGED <<alive, objs, events>>

\* Some unrelated name changes owner.
OtherNameChange ==
  /\ sent < MaxMsgs
  /\ Route(NOC("other", "", "x"))
  /\ UNCHANGED <<alive, objs, owner, events>>

\* The running daemon emits one of its signals.
DaemonEmit ==
  /\ owner # "" /\ sent < MaxMsgs
  /\ \E m \in {PkSig(s, NULL) : s \in ArglessSignals}
              \cup {PkSig("NetworkStateChanged", t) : t \in NetworkTexts}
              \cup {PkSig("Locked", b) : b \in BOOLEAN} : Route(m)
  /\ UNCHANGED <<alive, objs, owner, events>>

-----------------------------------------------------------------------------
(* Handlers.  Each emits at most one local signal.                         *)

Emit(e) == events' = Append(events, e)

\* pk_control_transaction_list_changed_cb, pk_control_restart_schedule_cb,
\* pk_control_updates_changed_cb, pk_control_repo_list_changed_cb.
ArglessCb(m) ==
  Emit(Ev(CASE m.sig = "TransactionListChanged" -> "transaction-list-changed"
            [] m.sig = "UpdatesChanged"         -> "updates-changed"
            [] m.sig = "RepoListChanged"        -> "repo-list-changed"
            [] m.sig = "RestartSchedule"        -> "restart-schedule", NULL))

\* Mutant: the wire text is emitted without pk_network_enum_from_text.
NetworkStateChangedCbRaw(m) == Emit(Ev("network-state-changed", m.arg))

\* pk_control_network_state_changed_cb: unknown text is emitted as UNKNOWN.
NetworkStateChangedCb(m) ==
  Emit(Ev("network-state-changed", NetworkEnumFromText(m.arg)))

\* pk_control_locked_cb.
LockedCb(m) == Emit(Ev("locked", m.arg))

\* Mutant: connected is emitted for any new owner, without the prev check.
NameOwnerChangedCbNoPrevCheck(m) ==
  CASE m.name # "pk"                -> UNCHANGED events
    [] m.prev # "" /\ m.new = ""    -> Emit(Ev("connection-changed", FALSE))
    [] m.new # ""                   -> Emit(Ev("connection-changed", TRUE))
    [] OTHER                        -> UNCHANGED events

\* Mutant: the "not us" filter on the name is missing.
NameOwnerChangedCbAnyName(m) ==
  CASE m.prev # "" /\ m.new = "" -> Emit(Ev("connection-changed", FALSE))
    [] m.prev = "" /\ m.new # "" -> Emit(Ev("connection-changed", TRUE))
    [] OTHER -> UNCHANGED events

\* pk_control_name_owner_changed_cb: only PK_DBUS_SERVICE; something to
\* nothing emits FALSE, nothing to something emits TRUE, anything else
\* (a replacement) emits nothing.
NameOwnerChangedCb(m) ==
  CASE m.name # "pk"                -> UNCHANGED events
    [] m.prev # "" /\ m.new = ""    -> Emit(Ev("connection-changed", FALSE))
    [] m.prev = "" /\ m.new # ""    -> Emit(Ev("connection-changed", TRUE))
    [] OTHER                        -> UNCHANGED events

\* The handler connected for a message.
Handler(m) ==
  CASE m.iface = "dbus"                    -> NameOwnerChangedCb(m)
    [] m.sig \in ArglessSignals         -> ArglessCb(m)
    [] m.sig = "NetworkStateChanged"    -> NetworkStateChangedCb(m)
    [] m.sig = "Locked"                 -> LockedCb(m)

\* The main loop dispatches the oldest queued signal to the handlers
\* connected now; with none connected the message is dropped.
Dispatch ==
  /\ q # <<>>
  /\ q' = Tail(q)
  /\ IF alive THEN Handler(Head(q)) ELSE UNCHANGED events
  /\ UNCHANGED <<alive, objs, owner, sent>>

Next ==
  \/ PkControlNew \/ Finalize
  \/ \E o \in Owners : DaemonAcquire(o) \/ DaemonReplace(o)
  \/ DaemonRelease \/ OtherNameChange \/ DaemonEmit
  \/ Dispatch

Spec == Init /\ [][Next]_vars /\ WF_vars(Dispatch)

-----------------------------------------------------------------------------
(* Properties.                                                             *)

TypeOK ==
  /\ alive \in BOOLEAN /\ objs \in 0..MaxObjects
  /\ owner \in Owners \cup {""}
  /\ sent \in 0..MaxMsgs /\ Len(q) <= sent
  /\ \A i \in 1..Len(events) :
       \/ events[i].sig \in {"transaction-list-changed", "updates-changed",
                             "repo-list-changed", "restart-schedule"}
          /\ events[i].arg = NULL
       \/ events[i].sig = "network-state-changed"
          /\ events[i].arg \in {"online", "offline", "unknown"}
       \/ events[i].sig \in {"locked", "connection-changed"} /\ events[i].arg \in BOOLEAN

\* connection-changed events of one instance alternate: the handler never
\* reports connected twice (or disconnected twice) in a row, through any
\* sequence of daemon starts, exits, replacements and unrelated name changes.
ConnectionEventsAlternate ==
  \A i \in 1..Len(ConnEvents) - 1 : ConnEvents[i].arg # ConnEvents[i + 1].arg

\* Once the instance has dispatched every queued NameOwnerChanged, the
\* last connection-changed it emitted says whether the daemon owns its name
\* now (spec section 4.2, connection-changed semantics).
NoNameChangeQueued == \A i \in 1..Len(q) : q[i].iface # "dbus" \/ q[i].name # "pk"

ConnectionViewMatchesOwner ==
  (alive /\ NoNameChangeQueued /\ View # NULL) => (View = (owner # ""))
=============================================================================
