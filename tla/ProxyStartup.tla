---------------------------- MODULE ProxyStartup ----------------------------
(***************************************************************************)
(* The start of a proxy (proxy-startup.sh): it mounts the exports of the   *)
(* source filers, writes them to the exports file, and starts knfsd-fsidd  *)
(* and the NFS server.  The exports come from EXPORT_MAP, from showmount   *)
(* and from netapp-exports, the latter two through filter-exports.  The    *)
(* script runs at every boot, and may be run again on a running proxy.     *)
(*                                                                         *)
(* The script exits at the first command that fails (errexit, pipefail),   *)
(* except where the command is a condition or isolated by a process        *)
(* substitution.  FSID_MODE is "external".                                 *)
(*                                                                         *)
(* systemd ties the services together: knfsd-fsidd.service has             *)
(* BindsTo=nfs-server.service, so that every start of knfsd-fsidd queues a *)
(* start of the NFS server, and Before=nfs-server.service, so that this    *)
(* waits for the end of the start of knfsd-fsidd, successful or not.  The  *)
(* script also starts knfsd-fsidd.socket: a connection to it starts the    *)
(* service.                                                                *)
(***************************************************************************)
EXTENDS FsiddBoot, FilterExports, NetappExports, Functions

CONSTANTS
  ExportMap,    \* the local paths of EXPORT_MAP, in order
  AutoExports,  \* the exports showmount lists, <<>> if it is not to be used
  Symlinks,     \* paths of the image that are symbolic links
  Filters,      \* include and exclude patterns the parameters may have
  FsidConfigs,  \* values FSID_DATABASE_CONFIG may have
  MaxRuns       \* runs of the script

ASSUME ProxyAssumption == 
  ExportMap \in Seq(STRING) /\ AutoExports \in Seq(STRING)

VARIABLES
  pPc,       \* the function of main that runs; "off", "ready", "failed"
  pFilters,  \* the patterns of this run
  pFsid,     \* FSID_DATABASE_CONFIG as this run loaded it
  pTodo,     \* exports that are still to be mounted
  pAttempt,  \* attempts to mount the first of them
  pMounts,   \* exports that export_auto_detect has mounted
  pMounted,  \* local paths that are mounted
  pExports,  \* local paths in the exports file
  pNfs,      \* the NFS server: "inactive", "queued" (its start is) or "active"
  pRuns

proxyVars == <<pPc, pFilters, pFsid, pTodo, pAttempt, pMounts, pMounted, pExports, pNfs, pRuns>>

ProxyInit ==
  /\ pPc = "off" /\ pFilters \in Filters /\ pFsid = EmptyFile /\ pTodo = <<>> /\ pAttempt = 1
  /\ pMounts = 0 /\ pMounted = {} /\ pExports = {} /\ pNfs = "inactive" /\ pRuns = 0
  /\ BootInit /\ NetappInit

\* A machine boots: nothing is mounted and no service runs; the files are there.
Boot ==
  /\ pPc \in {"off", "ready", "failed"} /\ pRuns < MaxRuns
  /\ pPc' = "begin" /\ pRuns' = pRuns + 1 /\ pMounted' = {} /\ pNfs' = "inactive"
  /\ NoProcess
  /\ UNCHANGED <<pFilters, pFsid, pTodo, pAttempt, pMounts, pExports, fFile, fSettings,
                 netappVars>>

\* The script is run by hand.
RunAgain ==
  /\ pPc \in {"ready", "failed"} /\ pRuns < MaxRuns
  /\ pPc' = "begin" /\ pRuns' = pRuns + 1
  /\ UNCHANGED <<pFilters, pFsid, pTodo, pAttempt, pMounts, pMounted, pExports, pNfs,
                 bootVars, netappVars>>

\* Mutant: a service that is ready is left alone.
stop_services_silently_skipped == IF fPc = "serving" THEN UNCHANGED bootVars ELSE StopService

\* The units are stopped whatever systemctl stop says: a process that does not end is
\* killed, and systemctl fails only for a unit that is not loaded, of which none runs.
stop_services_silently == StopService

\* load_parameters and the stop of the services, in init.
StopServices(ok, config) ==
  /\ pPc = "begin"
  /\ IF ok
     THEN pPc' = "init" /\ pFsid' = config /\ pNfs' = "inactive" /\ stop_services_silently
     ELSE pPc' = "failed" /\ UNCHANGED <<pFsid, pNfs, bootVars>>
  /\ UNCHANGED <<pFilters, pTodo, pAttempt, pMounts, pMounted, pExports, pRuns, netappVars>>

\* The rest of init, once systemctl stop has returned; and the steps up to
\* configure_nfs, any of which may fail.
Configured(ok) ==
  /\ pPc = "init" /\ fPc \notin Running
  /\ fFile' = pFsid
  /\ pExports' = {}
  /\ pPc' = IF ok THEN "export_map" ELSE "failed"
  /\ pTodo' = IF ok THEN ExportMap ELSE <<>>
  /\ UNCHANGED <<pFilters, pFsid, pAttempt, pMounts, pMounted, pNfs, pRuns, fSettings, fPc, fConfig,
                 fClock, fSignal, fReport, fStarts, checkVars, netappVars>>

-----------------------------------------------------------------------------
(* Mounting and exporting. *)

NextExport == pTodo' = Tail(pTodo) /\ pAttempt' = 1

\* Mutant: reexport does not look at the result of mount_nfs_server.
mountFailedIgnored ==
  /\ pExports' = pExports \cup {Head(pTodo)}
  /\ NextExport /\ UNCHANGED <<pPc, pMounts>>

\* reexport returns 1: the script ends, unless the call is a condition.
mountFailed ==
  /\ IF pPc = "export_auto_detect"
     THEN NextExport /\ UNCHANGED pPc
     ELSE pPc' = "failed" /\ pTodo' = <<>> /\ pAttempt' = 1
  /\ UNCHANGED <<pExports, pMounts>>

\* One attempt of mount_nfs_server, and add_nfs_export after it.
Reexport(ok) ==
  /\ pPc \in {"export_map", "export_auto_detect", "export_netapp"} /\ pTodo # <<>>
  /\ LET p == Head(pTodo) IN
     \/ /\ p \notin Symlinks /\ (ok \/ p \in pMounted)
        /\ pMounted' = pMounted \cup {p}
        /\ pExports' = pExports \cup {p}
        /\ pMounts' = IF pPc = "export_auto_detect" THEN pMounts + 1 ELSE pMounts
        /\ NextExport /\ UNCHANGED pPc
     \/ /\ ~ok /\ p \notin Symlinks \cup pMounted /\ pAttempt < 3
        /\ pAttempt' = pAttempt + 1
        /\ UNCHANGED <<pPc, pTodo, pMounts, pMounted, pExports>>
     \/ /\ p \in Symlinks \/ (~ok /\ p \notin pMounted /\ pAttempt = 3)
        /\ mountFailed /\ UNCHANGED pMounted
  /\ UNCHANGED <<pFilters, pFsid, pNfs, pRuns, bootVars, netappVars>>

\* filter_exports on a list; it fails before it reads the list.
FilterFails == loadPatternsFails(pFilters.includes \cup pFilters.excludes)
filter_exports(lines) ==
  IF FilterFails THEN <<>> ELSE runFilter(lines, pFilters.includes, pFilters.excludes)

\* The end of export_map; then mapfile takes what showmount lists, or the part of it
\* that arrives before one of the commands fails.
AutoDetect(listed) ==
  /\ pPc = "export_map" /\ pTodo = <<>>
  /\ pPc' = "export_auto_detect" /\ pMounts' = 0
  /\ pTodo' = filter_exports(listed)
  /\ UNCHANGED <<pFilters, pFsid, pAttempt, pMounted, pExports, pNfs, pRuns, bootVars, netappVars>>

\* The end of export_auto_detect, and the start of netapp-exports.
DetectNetapp(start) ==
  /\ pPc = "export_auto_detect" /\ pTodo = <<>>
  /\ IF AutoExports # <<>> /\ pMounts = 0
     THEN pPc' = "failed" /\ UNCHANGED netappVars
     ELSE pPc' = "netapp-exports" /\ start
  /\ UNCHANGED <<pFilters, pFsid, pTodo, pAttempt, pMounts, pMounted, pExports, pNfs, pRuns, bootVars>>

\* netapp-exports has ended.  If it or the filter failed there are no lines, and
\* the pipeline fails.
ReadNetapp ==
  /\ pPc = "netapp-exports" /\ nPc \in {"exit0", "exit1"}
  /\ pTodo' = filter_exports(nOutput)
  /\ pPc' = IF nPc = "exit1" \/ FilterFails THEN "failed" ELSE "export_netapp"
  /\ UNCHANGED <<pFilters, pFsid, pAttempt, pMounts, pMounted, pExports, pNfs, pRuns, bootVars, netappVars>>

-----------------------------------------------------------------------------
(* Starting the services. *)

\* BindsTo=nfs-server.service
QueueNfs == pNfs' = IF pNfs = "inactive" THEN "queued" ELSE pNfs

\* start_fsidd stops what is left of the service, which may fail, and starts it;
\* systemctl start does nothing for a service that runs.
StartFsidd(ok) ==
  /\ pPc = "export_netapp" /\ pTodo = <<>>
  /\ IF ok
     THEN /\ pPc' = "start_fsidd"
          /\ IF fPc = "serving" THEN UNCHANGED bootVars ELSE StartProcess(1)
          /\ QueueNfs
     ELSE pPc' = "failed" /\ UNCHANGED <<pNfs, bootVars>>
  /\ UNCHANGED <<pFilters, pFsid, pTodo, pAttempt, pMounts, pMounted, pExports, pRuns, netappVars>>

\* systemctl start returns when the service is ready or its first start has failed;
\* start_knfsd_agent comes next.
FsiddStarted(ok) ==
  /\ pPc = "start_fsidd" /\ fPc \in {"serving", "failed"}
  /\ pPc' = IF ok /\ fPc = "serving" THEN "start_nfs" ELSE "failed"
  /\ UNCHANGED <<pFilters, pFsid, pTodo, pAttempt, pMounts, pMounted, pExports, pNfs, pRuns, bootVars, netappVars>>

\* The start of the NFS server.  One that fails stops a knfsd-fsidd that serves, and may
\* stop one that is to be restarted (BindsTo).
NfsStarts(ok) ==
  /\ fPc \notin Running
  /\ IF ok
     THEN pNfs' = "active" /\ UNCHANGED bootVars
     ELSE /\ pNfs' = "inactive"
          /\ StopService \/ (fPc # "serving" /\ UNCHANGED bootVars)

\* start_nfs starts portmap and waits for the NFS server, which may be active already.
StartNfs(ok) ==
  /\ pPc = "start_nfs"
  /\ IF pNfs = "active" THEN UNCHANGED <<pNfs, bootVars>> ELSE NfsStarts(ok)
  /\ pPc' = IF ok THEN "start_metrics" ELSE "failed"
  /\ UNCHANGED <<pFilters, pFsid, pTodo, pAttempt, pMounts, pMounted, pExports, pRuns, netappVars>>

\* start_metrics, post_startup and completed_startup.
CompleteStartup(ok) ==
  /\ pPc = "start_metrics"
  /\ pPc' = IF ok THEN "ready" ELSE "failed"
  /\ UNCHANGED <<pFilters, pFsid, pTodo, pAttempt, pMounts, pMounted, pExports, pNfs, pRuns, bootVars, netappVars>>

ScriptNext ==
  \/ Boot \/ RunAgain \/ ReadNetapp
  \/ \E ok \in BOOLEAN : Configured(ok) \/ Reexport(ok) \/ CompleteStartup(ok)
  \/ \E ok \in BOOLEAN : StartFsidd(ok) \/ FsiddStarted(ok) \/ StartNfs(ok)
  \/ \E ok \in BOOLEAN, c \in FsidConfigs : StopServices(ok, c)
  \/ \E part \in SUBSET Range(AutoExports) : AutoDetect(Selected(AutoExports, part))
  \/ DetectNetapp(SkipNetapp)
  \/ \E env \in Environments, ok \in BOOLEAN : DetectNetapp(StartNetapp(env, ok))

\* mountd, which runs beside the NFS server, connects to knfsd-fsidd.socket while the
\* service is stopped; for one that has failed this is what Restart does.
Activate == pNfs = "active" /\ fPc = "off" /\ StartProcess(1) /\ UNCHANGED pNfs

\* systemd: a queued start of the NFS server, and the restart of knfsd-fsidd.  A crash or
\* a restart may as well come after the script has seen the result of the first start,
\* which they do not change.
SystemdNext ==
  /\ \/ \E ok \in BOOLEAN : pNfs = "queued" /\ NfsStarts(ok)
     \/ pPc # "start_fsidd" /\ Crash /\ UNCHANGED pNfs
     \/ pPc # "start_fsidd" /\ Restart /\ QueueNfs
     \/ Activate
  /\ UNCHANGED <<pPc, pFilters, pFsid, pTodo, pAttempt, pMounts, pMounted, pExports, pRuns, netappVars>>

ProxyNext ==
  \/ ScriptNext
  \/ SystemdNext
  \/ BootNext /\ UNCHANGED <<proxyVars, netappVars>>
  \/ NetappNext /\ UNCHANGED <<proxyVars, bootVars>>

-----------------------------------------------------------------------------
(* Properties. *)

\* What the filters of the parameters select, as a set.
Wanted(p) ==
  /\ pFilters.includes = {} \/ \E i \in pFilters.includes : p \in Matches[i]
  /\ \A x \in pFilters.excludes : p \notin Matches[x]

\* While the NFS server runs, every exported path has the file system of a source
\* filer mounted on it, and no empty directory of the proxy is served in its place.
ExportedIsMounted == pNfs = "active" => pExports \subseteq pMounted

\* A proxy that serves, serves all of EXPORT_MAP, and all volumes of the NetApp server
\* that the filters select and that existed during the listing, also when the listing
\* fails between two pages; and nothing that the filters exclude.
ServedComplete ==
  pNfs = "active" =>
    /\ Range(ExportMap) \subseteq pExports
    /\ \A v \in nSteady : Volumes[v] # "" /\ Wanted(Volumes[v]) => Volumes[v] \in pExports
    /\ \A p \in pExports : p \in Range(ExportMap) \/ Wanted(p)

\* A knfsd-fsidd that serves uses the table the operator asks for: that of a flag, else
\* of the environment, else of the FSID_DATABASE_CONFIG that this run of the script has
\* loaded; also after a crash and a restart, and when the script has failed since.
TableAsDeployed ==
  fPc = "serving" =>
    fConfig.table = CASE "table" \in DOMAIN fSettings.flags -> fSettings.flags.table
                      [] "table" \notin DOMAIN fSettings.flags
                           /\ "table" \in DOMAIN fSettings.env
                           /\ fSettings.env.table # "" -> fSettings.env.table
                      [] OTHER -> IF "table" \in DOMAIN pFsid.set THEN pFsid.set.table ELSE ""
=============================================================================
