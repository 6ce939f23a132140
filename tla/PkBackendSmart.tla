---------------------------- MODULE PkBackendSmart ----------------------------
(***************************************************************************)
(* The smart backend (src/backends/smart/pk-backend-smart.c): one role     *)
(* function per entry of its PK_BACKEND_OPTIONS table, each spawning a     *)
(* helper script through the module's static PkBackendSpawn, the networked *)
(* ones after a pk_network_is_online check.  Its table has no cancel.      *)
(***************************************************************************)
EXTENDS PkBackendSpawn

\* backend_initialize: create the network monitor and the spawn helper.
BackendInitialize ==
  /\ loaded = "unloaded"
  /\ loaded' = "loaded"
  /\ UNCHANGED <<online, flips, role, helper, cmd, netAtSpawn, result, finishes, cancelReq>>

\* backend_destroy: g_return_if_fail (spawn != NULL), then unref both.  The
\* engine unloads the backend only with no transaction active.
BackendDestroy ==
  /\ loaded = "loaded"
  /\ \A t \in TxIds : ~Active(t)
  /\ loaded' = "destroyed"
  /\ UNCHANGED <<online, flips, role, helper, cmd, netAtSpawn, result, finishes, cancelReq>>

\* backend_get_depends: filter and recursive are dropped (FIXME in the code).
BackendGetDepends(t)     == Spawn(t, <<"get-depends.py", "pid">>)
BackendGetDescription(t) == Spawn(t, <<"get-description.py", "pid">>)
BackendGetFiles(t)       == Spawn(t, <<"get-files.py", "pid">>)
BackendGetUpdates(t)     == Spawn(t, <<"get-updates.py", "filter">>)

\* Mutant: the offline branch reports the error but never finishes.
BackendInstallPackageNoFinished(t) ==
  IF online THEN Spawn(t, <<"install.py", "pid">>)
  ELSE ErrorCode(t, "no-network") /\ UNCHANGED <<helper, cmd, netAtSpawn, finishes>>

\* backend_install_package: NO_NETWORK and finished when offline.
BackendInstallPackage(t) ==
  IF online THEN Spawn(t, <<"install.py", "pid">>) ELSE FailNoNetwork(t)

BackendInstallFile(t) == Spawn(t, <<"install-file.py", "path">>)

BackendRefreshCache(t) ==
  IF online THEN Spawn(t, <<"refresh-cache.py">>) ELSE FailNoNetwork(t)

\* backend_remove_package: allow_deps and autoremove are dropped (FIXME).
BackendRemovePackage(t) == Spawn(t, <<"remove.py", "pid">>)

BackendResolve(t)       == Spawn(t, <<"resolve.py", "filter", "pid">>)
BackendSearchDetails(t) == Spawn(t, <<"search-details.py", "filter", "search">>)
BackendSearchName(t)    == Spawn(t, <<"search-name.py", "filter", "search">>)

\* Mutant: the offline branch does not return and spawns the helper too.
BackendUpdatePackagesNoReturn(t) ==
  IF online THEN Spawn(t, <<"update.py", "pids">>)
  ELSE ErrorCode(t, "no-network") /\ BackendFinished(t) /\ SpawnHelper(t, <<"update.py", "pids">>)

\* backend_update_packages: the ids joined with "|" as one argument.
BackendUpdatePackages(t) ==
  IF online THEN Spawn(t, <<"update.py", "pids">>) ELSE FailNoNetwork(t)

\* backend_update_system: no network check.
BackendUpdateSystem(t) == Spawn(t, <<"update-system.py">>)

BackendGetRepoList(t) == Spawn(t, <<"get-repo-list.py", "filter">>)

\* Mutant: enabled is printed as a number.
BackendRepoEnableNumeric(t, enabled) ==
  Spawn(t, <<"repo-enable.py", "rid", IF enabled THEN "1" ELSE "0">>)

\* backend_repo_enable: enabled as "true" or "false".
BackendRepoEnable(t, enabled) ==
  IF enabled THEN Spawn(t, <<"repo-enable.py", "rid", "true">>)
  ELSE Spawn(t, <<"repo-enable.py", "rid", "false">>)

-----------------------------------------------------------------------------
\* The engine starts transaction t with one of the roles of the table.
Run(t) ==
  \/ Begin(t, "get_depends")     /\ BackendGetDepends(t)
  \/ Begin(t, "get_description") /\ BackendGetDescription(t)
  \/ Begin(t, "get_files")       /\ BackendGetFiles(t)
  \/ Begin(t, "get_updates")     /\ BackendGetUpdates(t)
  \/ Begin(t, "install_package") /\ BackendInstallPackage(t)
  \/ Begin(t, "install_file")    /\ BackendInstallFile(t)
  \/ Begin(t, "refresh_cache")   /\ BackendRefreshCache(t)
  \/ Begin(t, "remove_package")  /\ BackendRemovePackage(t)
  \/ Begin(t, "resolve")         /\ BackendResolve(t)
  \/ Begin(t, "search_details")  /\ BackendSearchDetails(t)
  \/ Begin(t, "search_name")     /\ BackendSearchName(t)
  \/ Begin(t, "update_packages") /\ BackendUpdatePackages(t)
  \/ Begin(t, "update_system")   /\ BackendUpdateSystem(t)
  \/ Begin(t, "get_repo_list")   /\ BackendGetRepoList(t)
  \/ Begin(t, "repo_enable")     /\ \E b \in BOOLEAN : BackendRepoEnable(t, b)

\* The client's cancel: the table's cancel is NULL, so the engine rejects
\* it and the helper runs on.
Cancel(t) == RequestCancel(t) /\ UNCHANGED helper

Init == InitSpawn

Next ==
  \/ BackendInitialize \/ BackendDestroy
  \/ \E t \in TxIds : Run(t) \/ Cancel(t)
  \/ EngineNext
=============================================================================
