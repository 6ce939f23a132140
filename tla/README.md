# TLA+ models of PackageKit's client control object and backends

This directory holds the TLA+ specifications checked with TLC for the code
under `src/`. The main subject is `PkControl` (`src/lib/packagekit-glib2/pk-control.c`),
the client object that talks to the `packagekitd` daemon over D-Bus. The
other parts of `src/` are in the inventory below, with the plan for them.

## 1. Inventory

### Components and their state

| Component | Source | State it keeps |
|---|---|---|
| PkControl object | `pk-control.c` | the process-wide singleton `pk_control_object`; the three proxies (main, properties, bus); `priv->calls`, the registry of in-flight calls; the property cache (versions, backend name, roles, groups, filters, ...) |
| Per-call state `PkControlState` | `pk-control.c:102-114` | the `GSimpleAsyncResult` (which refs the control); the weak pointer `state->control`; the libdbus pending call; the stored GCancellable; the decoded reply field |
| Blocking wrapper `PkControlHelper` | `pk-control.c:117-122`, `1334-1378` | a private `GMainLoop` and the result |
| Signals and connection tracking | `pk-control.c:1385-1513` | none of its own: it re-emits daemon signals and `connection-changed` from `NameOwnerChanged` |
| Daemon and system bus | not in `src/` | whether the name is owned; the daemon's answers; dbus-glib timeouts |
| Conary and smart backends | `src/backends/conary/`, `src/backends/smart/` | the module's static `spawn` helper and network monitor; one helper script per role, the networked roles behind a `pk_network_is_online` check |
| Backend engine (environment) | not in `src/` | the daemon's transaction engine (one active transaction), `PkBackendSpawn` (the helper process and its exit callback), `PkNetwork`; modelled from spec section 4.5 |
| Private unit tests | `pk-test-private.c` | assertions on the bitfield, enum and package-id codecs (the codecs are not in `src/`; only the filter print/parse rule is modelled, from the spec) |

### Operations and interaction

The application calls `pk_control_new`, one of the eight `pk_control_<op>_async`
entry points, `pk_control_get_properties_sync` and `g_object_unref`. Each
`_async` does the following:

1. it creates a result that holds a ref on the control;
2. it registers the weak pointer;
3. it begins the D-Bus call;
4. it appends the state to `priv->calls`.

libdbus later runs the reply callback (`*_cb`). The callback decodes the reply,
rewrites errors with `pk_control_fixup_dbus_error` (except set-proxy and
get-properties), and calls `*_state_finish`. That function:

1. drops the weak pointer;
2. stores the value or the error;
3. removes the state from the registry;
4. schedules the caller's callback with `complete_in_idle`;
5. frees the state.

The idle source then runs the caller's callback, which calls `_finish`, and
unrefs the result. With it goes the result's ref on the control. The last
unref runs `pk_control_finalize`, which cancels the calls still registered.

Everything runs on one GLib main loop. The concurrency is the order of
dispatches: application calls, replies, timeouts and idle sources.

### What is hard

- **Interleavings** of replies, idle completions and the application's
  unref. `*_state_finish` dereferences `state->control` (line 179). It is safe
  only because the result's ref keeps the control alive.
- **Teardown with calls in flight.** finalize cancels the calls still
  registered, and their notifies never run (line 1870). Every registered
  call's result holds a ref on the control, so finalize only ever runs with
  an empty registry. `RegistryMatchesTransport` checks the invariant this
  relies on.
- **Timeouts.** The main proxy never times out (line 1828). The properties
  proxy does, and the blocking wrapper (line 1369) depends on that.
- **Double completion** if an early-exit `goto out` is missing (for example
  line 774).
- **Numeric and enum edges.** Zero seconds (line 771) and UNKNOWN enum texts
  (lines 917 and 1060) are turned into errors, and each is checked twice.
- **Stale cached properties** across daemon restarts (lines 1188 and 1502).

### Properties per component

- **PkControl.** The registry matches the transport and the weak pointers.
  No callback runs on a finalized control. Each call completes at most once.
  Each result follows its reply. A
  get-properties callback reads properties at least as new as its reply. The
  abstract call contract is refined: every issued call resolves, and what
  `<op>_finish` returns is a value of the method or an error with the
  method's unset value. The blocking wrapper returns.
- **Spec claims checked against the code.** Errors are normalized. This is
  found violated.
- **Signals.** `connection-changed` events alternate, and once no
  NameOwnerChanged is queued they say whether the daemon owns its name.
- **Backends.** A transaction is finished once and nothing of it runs after.
  The backends implement the abstract job contract `PkBackendJob`: one
  transaction at a time, each finishes once, it reports "cancelled" only
  after a cancel request, and it is refused with NO_NETWORK only while
  offline. A networked role never spawns its helper while offline, and a
  cancelled transaction finishes even when its helper hangs.
- **Codecs.** The round trip of spec section 8, checked against what the
  filter tests assert. It is found violated at the empty bitfield.

## 2. Plan

1. `PkControl` and the abstract `PkControlCalls`, with `MCPkControl`. Done;
   described below.
2. `PkControlSignals`: the signal handlers, `name_owner_changed_cb` and the
   disconnects at finalize. Done; still to do:
   - `get_property` is `GetProperty` of `PkControl`;
   - it is not composed with `PkControl` (see "Not modelled").
3. `PkBitfield`: the filter bitfield codec, with the `none` rule that
   `pk-test-private.c` asserts. Done. The codec is modelled from the spec,
   because it is not in `src/`.
4. `PkBackendSpawn`, `PkBackendConary`, `PkBackendSmart`, `PkBackend`: the
   role functions of both spawn backends over a model of the engine. Done.
   They refine the abstract `PkBackendJob`.

## 3. Modules

### `PkControl.tla`

Variables (each commented in the module):

- `alive`, `objs`, `userRefs` and `calls` for the singleton and its registry;
- `cache` for the property cache;
- per call slot: `st`, `op`, `owner`, `weakReg`, `srcRef`, `idle`,
  `delivered` and `outcome`;
- `pending` and `reply` for libdbus;
- `sync` for the blocked wrappers, a stack, because a callback dispatched
  inside a wrapper's loop may call the wrapper again;
- `daemonUp` and `daemonGen` for the daemon.

A call slot's `st` is `"cancelled"` when finalize cancelled it. Its state is
then leaked, because the notify never runs.

Actions, and the code each models:

| Action | Models |
|---|---|
| `PkControlNew` / `PkControlInit` | `pk_control_new`, `pk_control_init` |
| `Unref` (+ `ReleaseRef`, `Finalize`, `CancelAllDBusMethods`) | the application's unref and `pk_control_finalize` |
| `GetTidAsync` ... `GetPropertiesAsync` (via `Async`) | the eight `_async` entry points |
| `GetPropertiesSync`, `SyncReturn` | `pk_control_get_properties_sync` and its callback |
| `DaemonReply`, `BusError`, `Timeout` → `Complete` → `Callback` → `<op>Cb` → `<op>StateFinish` → `StateFinish` | the reply callbacks |
| `Deliver` | the idle completion running the caller's callback and `_finish` |
| `GetTidFinish` ... `GetPropertiesFinish` (via `FinishReturn`, `OpFinish`) | the eight `pk_control_<op>_finish`: the stored value, or the error with the method's unset value (NULL, FALSE, 0, UNKNOWN) |
| `GetProperty` | `pk_control_get_property`: a read of the property cache |
| `DaemonExit`, `DaemonStart` | the environment |

Replies are abstracted to a small set per method:

- seconds 0 or 1;
- the known enum texts plus one unknown text;
- the daemon generation for GetAll;
- one opaque string for the others.

Errors are abstracted to the D-Bus error names that `fixup` tells apart.

### `PkControlCalls.tla`

This is the abstract promise of the public API. A call is issued once and is
eventually resolved once, with a value allowed for its method or with an error.
`PkControl` maps onto it through `Calls == INSTANCE PkControlCalls WITH ...`:

- a slot is issued when it leaves `"unused"`;
- it is resolved when its callback has run, with what the slot's
  `<op>_finish` returned.

A failed call resolves to its error together with the method's unset value,
and no successful call returns that value. So a caller can tell failure from
the return value alone, as the API documentation of each `_finish` says.

### `PkControlSignals.tla`

This module models the seven handlers that `pk_control_init` connects
(lines 1830-1856) and the shared connection's incoming signal queue.

State:

- `alive`: whether handlers and match rules are installed;
- `owner`: the current owner of the daemon's name;
- `q`: the FIFO of routed signals;
- `events`: the local signals the current instance emitted.

Actions:

- `PkControlNew` and `Finalize` for `pk_control_init` and
  `pk_control_finalize`;
- the environment actions: the daemon acquiring, releasing or being
  replaced on its name, an unrelated name change, and the daemon emitting
  a signal;
- `Dispatch`, which runs the handler connected at dispatch time (line
  1385-1513), or drops the message when none is connected.

The bus routes a signal only while a match rule exists. A message already
queued stays queued across finalize, as it does in libdbus's incoming
queue.

### `PkBackendSpawn.tla`

The engine a spawn backend runs in. It is modelled from spec section 4.5,
because the daemon and `PkBackendSpawn` are not in `src/`.

State, per transaction `t`:

- `role[t]`: the role the engine started it with;
- `helper[t]`: the helper process, `none`, `running`, `exit-ok`, `exit-fail`,
  `killed`, then `reaped`;
- `cmd[t]`: the helper's argv, with the script first;
- `netAtSpawn[t]`: reachability when the helper was spawned;
- `result[t]`: the error or exit the daemon reports;
- `finishes[t]`: how often `pk_backend_finished` ran;

and globally `loaded` (the module's lifecycle), `online` with `flips` (the
network), and `cancelReq`.

What the role functions call:

- `SpawnHelper` for `pk_backend_spawn_helper`;
- `ErrorCode` and `BackendFinished`;
- `FailNoNetwork`: the offline branch of a networked role (error, finished,
  return);
- `Kill` for `pk_backend_spawn_kill`.

The engine's actions:

- `Begin` hands a transaction to the backend when none is active, and the
  role function runs in the same step;
- `HelperExit` and `SpawnExitCb`: the helper exits, and the exit callback
  reports the outcome and finishes;
- `RequestCancel` and `NetworkChange`.

Package ids, filters and search terms are abstract tokens. The booleans are
converted to text as the code converts them.

### `PkBackendJob.tla`

This is the abstract contract a backend keeps with the daemon, with no
helpers in it. Each transaction goes `idle` → `running` → `finished`, or
`idle` → `finished` (`Refuse`, only while offline). Only one is running at a
time, and `Finish` reports `cancelled` only for a transaction in
`cancelReq`. `PkBackendSpawn` maps onto it with
`Job == INSTANCE PkBackendJob WITH status <- ...`:

- a transaction is running from `Begin` until `pk_backend_finished`;
- its result is the error code reported with that finish.

The helpers, argv and the module lifecycle are hidden.

### `PkBackendConary.tla`, `PkBackendSmart.tla`

Each module extends `PkBackendSpawn` with one definition per function of the
backend's `PK_BACKEND_OPTIONS` table:

- `BackendInitialize` and `BackendDestroy`;
- one `Backend<Role>` per role function, with the guard and branches of the
  C function (`IF online THEN Spawn(...) ELSE FailNoNetwork(t)` for the
  networked roles);
- `Run(t)`, the table itself;
- `Cancel(t)`: conary's `backend_cancel` kills the helper, while smart's
  table has no cancel.

Conary's `pk_backend_bool_to_text` is `BoolToText`. The roles that are
commented out of the tables are not modelled.

### `PkBackend.tla`

This module instantiates both backends. `backend` is chosen in `Init`, so
one run checks both.

### `PkBitfield.tla`

The filter bitfield codec is modelled from the spec (sections 4.1 and 8),
because it is not in `src/`. `FilterTable` holds 7 filter names. An enum
value is its index in the table, and a bitfield is a set of indices. A text
is a sequence of name tokens, because the `;` splitting is not what the
property is about. The operators are `EnumFromString`, `BitfieldValue`,
`BitfieldAdd`, `BitfieldRemove`, `BitfieldInvert`, `BitfieldToString`,
`BitfieldTextValid` and `BitfieldFromString`.

The state machine is a caller holding a filter:

- `AssignValue`, `AddMember`, `RemoveMember` and `InvertMember` change the
  filter, as `pk_bitfield_value`, `pk_bitfield_add` and their siblings do;
- `FilterToString` and `FilterFromString` print the filter to `text` and
  parse it back.

The assertions of `pk_test_bitfield_func` fix the `none` rule the codec
follows: the empty filter prints as `none` (line 109), and `none` parses to
the NONE bit (line 74).

### `MCPkControl.tla`

This module defines the call slots as model values.

## 4. Runs

| Run | Config | Bounds | Expect | Shows |
|---|---|---|---|---|
| control_safety | `PkControl.cfg` | 2 slots, 8 methods, 2 refs, 2 instances, 1 restart | pass (~1.1M states) | `RegistryMatchesTransport`, `NoCallbackOnFinalizedControl`, `CompletedAtMostOnce`, `ResultMatchesReply` and `PropertiesFreshInCallback` (line 1249) hold in every interleaving |
| calls_refinement | `PkControlRefinement.cfg` | 2 slots, 6 methods, 1 ref, 1 instance | pass (~165k states) | PkControl, through its `_finish` functions, implements `PkControlCalls`, liveness included |
| sync_hung_daemon | `PkControlSyncHung.cfg` | 2 slots, GetTid + GetProperties | pass (~42k states) | every blocking wrapper returns under `HungSpec`, where the daemon never answers, including a wrapper called from a callback dispatched inside another one's loop (nested loops return innermost first) |
| errors_normalized | `PkControlErrors.cfg` | 1 ref | violation | set-proxy leaks a D-Bus-domain error (`pk-control.c:484`) |
| signals_safety | `PkControlSignals.cfg` | 1 instance, 2 owners, 5 routed signals | pass (~2.5M states) | `ConnectionEventsAlternate`, `ConnectionViewMatchesOwner` |
| signals_stale_owner | `PkControlSignalsStale.cfg` | 2 instances, 3 routed signals | violation | a NameOwnerChanged queued for a finalized instance makes the next one report disconnected while the daemon runs (`pk-control.c:1499`) |
| backend_safety | `PkBackend.cfg` | both backends, 2 transactions, 2 network flips | pass (~515k states) | `FinishedOnceAndQuiet`, and `JobRefinement` (the backend implements `PkBackendJob`, liveness included) under `EngineFairness` |
| backend_offline | `PkBackendOffline.cfg` | both backends, 1 transaction, 1 flip | violation | `update_system` spawns `update-system.py` offline (conary `:329`, smart `:226`), against spec section 4.5 |
| backend_smart_cancel | `PkBackendSmartCancel.cfg` | smart, 1 transaction, no flips, `HungSpec` | violation | smart's table has no cancel (`:267`), so a cancelled transaction with a hung helper never finishes |
| bitfield_round_trip | `PkBitfieldRoundTrip.cfg` | 7 filter names | violation | the empty bitfield prints as `none`, which parses to the NONE bit (`pk-test-private.c:109`, `:74`), so the round trip of spec section 8 fails at 0 |

Why these bounds are enough:

- **Two slots** let two calls be in flight at once, with replies in either
  order, and let one call be pending while another's completion is scheduled.
- **Two refs** let the application's unref race an in-flight call.
- **Two instances** let a second singleton be created after the first is
  finalized, so a call of the old instance could meet the new one.
- **One restart** gives two daemon generations for the cache.
- **Two transactions and two network flips** in the backend runs. A second
  transaction can start only after the first finished, so this checks that
  nothing of the first runs on. Two flips let the network go down and come
  back around a spawn.
- **Seven filter names** cover `none`, a plain filter and both halves of two
  inverted pairs. The empty bitfield, where the round trip fails, is
  reached in one print.

Each passing run has a mutant: a plausible bug in the mapped code that TLC
finds. The mutants are listed in `PROJECT.json`:

- a weak pointer not removed;
- a result that does not ref its source object;
- a missing `goto out`;
- a missing UNKNOWN check;
- a double unref;
- an INT_MAX timeout on the properties proxy;
- the name filter or the prev-owner check dropped in
  `name_owner_changed_cb`;
- network text emitted without decoding;
- properties collected only into a cache still at its defaults;
- in the backends, a missing `return` after `pk_backend_finished`, a missing
  `pk_backend_finished` on the offline branch, and booleans printed as
  numbers.

Five routed signals are enough for `signals_safety`. They allow a start,
a replacement, an exit and a restart, with an unrelated name change or a
daemon signal among them. `signals_stale_owner` needs only three to show
its violation.

## 5. Fairness

`Spec` assumes the following:

- **Weak fairness on each idle completion.** The main loop keeps
  dispatching.
- **Weak fairness on each call being answered** by a daemon reply, a bus
  error or a timeout. Every D-Bus call gets a reply or an error from the bus
  when the daemon is gone.
- **Weak fairness on the blocked wrapper returning.**

In `PkControlSignals`, only dispatch of queued signals is fair.

The backend runs use two fairness conditions:

- `EngineFairness`, used by `Spec`: weak fairness on each helper's exit and
  on its reaping. Helpers are finite scripts, and the exit callback is
  dispatched by the daemon's main loop.
- `HungFairness`, used by `HungSpec`: only the reaping is fair. It models a
  helper that never exits by itself, which is the case cancellation exists
  for.

The engine starting transactions and the network changing are not fair.

Application steps are not fair: the application may stop at any time, which
is also why deadlock is not checked.

`HungSpec` drops fairness on daemon replies and bus errors. It models a daemon
that holds its name but never answers. Only dbus-glib timeouts stay fair,
because those are driven by the main loop.

## 6. Not modelled

- **Composition of `PkControlSignals` with `PkControl`.** They share only
  the singleton's lifecycle and the daemon's name. The spec says the cache
  is never invalidated on a connection change, and callers re-fetch it
  (spec section 3, CapabilityCache). So no property relates a signal to a
  call. The product of the two state spaces would also leave TLC's reach at
  useful bounds.
- **The helpers' stdout protocol.** The package, error and finished lines a
  helper prints are parsed by `PkBackendSpawn`, which is not in `src/`. A
  helper's run is abstracted to its exit status. Spec section 4.5 says only that malformed lines are dropped
  and that a helper exiting without a terminal line fails. A model of that
  would be built from the spec alone, and its properties would hold by
  construction.
- **`pk_control_test`** (lines 1920-2161, built only with `EGG_TEST`). Its
  calls are application steps `PkControl` already allows. What its callbacks
  rely on is checked by `CallsRefinement`: a sentinel return such as 0 or
  UNKNOWN always comes with a set error, so reading `error->message` is safe.
  Its harness (`egg_test_loop_wait` with its 5 s timeout, and
  `egg_test_failed`) is neither in the repository nor in the spec.
- **Backend roles.** `get_groups` and `get_filters` only return constants,
  and the roles commented out of the backends' tables are not built.
- **Other unit tests.** The other assertions of `pk_test_bitfield_func`
  (groups, roles, `contain_priority`), the enum and package-id tests,
  `to_printable`, iso8601, the distro id, and the results, package, progress
  and progress-bar tests are not modelled. They are fixed expressions over
  code that is not in `src/`. Evaluated over a model of that code written
  from the spec, they would only compare the model with itself.
- **The property cache fields themselves.** The cache is one snapshot number.
  `collect_cb` (line 1249) overwrites only the fields whose keys the reply
  hash carries. The model assumes a reply carries every property, so one
  reply moves every field to the same daemon generation. The snapshot number
  stands for that. A partial reply, which would leave some fields at an
  older generation, is not modelled. Replies also arrive in the order the
  daemon sends them, so `PropertiesFreshInCallback` does not cover a reply
  overtaken by a later one.
- **Memory management of strings and `GError`s.** This is left out except
  where it decides control flow.
- **The daemon.** It is not in `src/`: its behaviour is the set of answers
  the spec allows.
