--------------------------- MODULE PkBackendConary ---------------------------
(***************************************************************************)
(* The conary backend (src/backends/conary/pk-backend-conary.c): one role  *)
(* function per entry of its PK_BACKEND_OPTIONS table, each spawning a     *)
(* helper script through the module's static PkBackendSpawn, the networked *)
(* ones after a pk_network_is_online check; cancel kills the helper.       *)
(* Package ids, filters and search terms are the abstract tokens of        *)
(* PkBackendSpawn; the booleans are converted as the code converts them.   *)
(***************************************************************************)
EXTENDS PkBackendSpawn

\* backend_initialize: create the network monitor and the spawn helper.
BackendInitialize ==
  /\ loaded = "unloaded"
  /\ loaded' = "loaded"
  /\ UNCHANGED <<online, flips, role, helper, cmd, netAtSpawn, result, finishes, cancelReq>>

\* backend_destroy: g_return_if_fail (spawn != NULL), then unref both.  The
\* engine unloads the backend only with no transaction active.
BackendDestroy ==
  /\ loaded = "loaded"
  /\ \A t \in TxIds : ~Active(t)
  /\ loaded' = "destroyed"
  /\ UNCHANGED <<online, flips, role, helper, cmd, netAtSpawn, result, finishes, cancelReq>>

\* Mutant: the gboolean is printed as a number.
BoolToTextNumeric(value) == IF value THEN "1" ELSE "0"

\* pk_backend_bool_to_text.
BoolToText(value) == IF value THEN "yes" ELSE "no"

\* backend_cancel: pk_backend_spawn_kill on the module's spawn.
BackendCancel(t) == Kill(t)

BackendGetDescription(t) == Spawn(t, <<"get-description.py", "pid">>)
BackendGetFiles(t)       == Spawn(t, <<"get-files.py", "pid">>)
BackendGetUpdates(t)     == Spawn(t, <<"get-updates.py", "filter">>)
BackendGetUpdateDetail(t) == Spawn(t, <<"get-update-detail.py", "pid">>)

\* Mutant: the offline branch does not return and spawns the helper too.
BackendInstallPackageNoReturn(t) ==
  IF online THEN Spawn(t, <<"install.py", "pid">>)
  ELSE ErrorCode(t, "no-network") /\ BackendFinished(t) /\ SpawnHelper(t, <<"install.py", "pid">>)

\* backend_install_package: NO_NETWORK and finished when offline.
BackendInstallPackage(t) ==
  IF online THEN Spawn(t, <<"install.py", "pid">>) ELSE FailNoNetwork(t)

\* Mutant: the offline branch reports the error but never finishes.
BackendRefreshCacheNoFinished(t) ==
  IF online THEN Spawn(t, <<"refresh-cache.py">>)
  ELSE ErrorCode(t, "no-network") /\ UNCHANGED <<helper, cmd, netAtSpawn, finishes>>

\* backend_refresh_cache (force is not passed on).
BackendRefreshCache(t) ==
  IF online THEN Spawn(t, <<"refresh-cache.py">>) ELSE FailNoNetwork(t)

\* backend_remove_package: allow_deps as yes/no before the package id.
BackendRemovePackage(t, allowDeps) ==
  Spawn(t, <<"remove.py", BoolToText(allowDeps), "pid">>)

BackendSearchName(t) == Spawn(t, <<"search-name.py", "filter", "search">>)

\* backend_update_packages: the ids joined with "|" as one argument.
BackendUpdatePackages(t) ==
  IF online THEN Spawn(t, <<"update.py", "pids">>) ELSE FailNoNetwork(t)

\* backend_update_system: no network check.
BackendUpdateSystem(t) == Spawn(t, <<"update-system.py">>)

BackendResolve(t) == Spawn(t, <<"resolve.py", "filter", "pid">>)

-----------------------------------------------------------------------------
\* The engine starts transaction t with one of the roles of the table.
Run(t) ==
  \/ Begin(t, "get_description")   /\ BackendGetDescription(t)
  \/ Begin(t, "get_files")         /\ BackendGetFiles(t)
  \/ Begin(t, "get_update_detail") /\ BackendGetUpdateDetail(t)
  \/ Begin(t, "get_updates")       /\ BackendGetUpdates(t)
  \/ Begin(t, "install_package")   /\ BackendInstallPackage(t)
  \/ Begin(t, "refresh_cache")     /\ BackendRefreshCache(t)
  \/ Begin(t, "remove_package")    /\ \E b \in BOOLEAN : BackendRemovePackage(t, b)
  \/ Begin(t, "resolve")           /\ BackendResolve(t)
  \/ Begin(t, "search_name")       /\ BackendSearchName(t)
  \/ Begin(t, "update_packages")   /\ BackendUpdatePackages(t)
  \/ Begin(t, "update_system")     /\ BackendUpdateSystem(t)

\* The client's cancel reaches backend_cancel.
Cancel(t) == RequestCancel(t) /\ BackendCancel(t)

Init == InitSpawn

Next ==
  \/ BackendInitialize \/ BackendDestroy
  \/ \E t \in TxIds : Run(t) \/ Cancel(t)
  \/ EngineNext
=============================================================================
