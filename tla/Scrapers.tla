------------------------------ MODULE Scrapers ------------------------------
(***************************************************************************)
(* The receivers of knfsd-metrics-agent that read counters and levels of   *)
(* the kernel: nfsd, slab, exports, connections and fscache.  A behaviour  *)
(* is that of one receiver, which scrapes again and again while the kernel *)
(* counts.  A scrape records points in the receiver's metrics builder and  *)
(* emits them; any of its inputs may be unreadable.                        *)
(*                                                                         *)
(* The files under /proc are parsed here to the counters in them: lines    *)
(* and values that do not parse are skipped, and what is missing is zero.  *)
(***************************************************************************)
EXTENDS Metrics, FiniteSetsExt

CONSTANTS
  Pools,        \* thread pools of nfsd
  ClientIPs,    \* addresses of NFS clients
  MaxScrapings, \* scrapes of a behaviour
  MaxBumps      \* counts of the kernel, by receiver

VARIABLES
  xReceiver,    \* the receiver; "none" before it is created, "failed" if it is not
  xCounters,    \* the kernel's counters; those that are absent are zero
  xMb,          \* the metrics builder
  xOut,         \* the last emission
  xScrapings

scraperVars == <<xReceiver, xCounters, xMb, xOut, xScrapings>>

\* The counter <<category, key>> of a file.
count(c) == IF c \in DOMAIN xCounters THEN xCounters[c] ELSE 0

-----------------------------------------------------------------------------
(* fscache *)

\* /proc/fs/fscache/stats, of kernels that have all of it: by category and key (C2
\* is printed 2C) the metric that metadata.yaml documents, with the kernel's own
\* name of the counter, as in "Number of read folio requests
\* (netfs_n_rh_read_folio)", printed as RF of Reads.
fscacheStats ==
  [Reads |-> [DR |-> "NetfsReadsDirect", RA |-> "NetfsReadsReadahead", RF |-> "NetfsReadsFolio",
              RS |-> "NetfsReadsSingle", WB |-> "NetfsReadsWriteBegin",
              WBZ |-> "NetfsReadsWriteZskip"],
   Writes |-> [BW |-> "NetfsWritesBuffered", WT |-> "NetfsWritesWritethrough",
               DW |-> "NetfsWritesDirect", WP |-> "NetfsWritesPages",
               C2 |-> "NetfsWritesCopyToCache"],
   ZeroOps |-> [ZR |-> "NetfsZeroOpsZero", sh |-> "NetfsZeroOpsShort", sk |-> "NetfsZeroOpsSkip"],
   DownOps |-> [DL |-> "NetfsDownloadRequests", ds |-> "NetfsDownloadDone",
                df |-> "NetfsDownloadFailed", di |-> "NetfsDownloadInstead"],
   CaRdOps |-> [RD |-> "NetfsCacheReadRequests", rs |-> "NetfsCacheReadDone",
                rf |-> "NetfsCacheReadFailed"],
   UpldOps |-> [UL |-> "NetfsUploadRequests", us |-> "NetfsUploadDone", uf |-> "NetfsUploadFailed"],
   CaWrOps |-> [WR |-> "NetfsCacheWriteRequests", ws |-> "NetfsCacheWriteDone",
                wf |-> "NetfsCacheWriteFailed"],
   Retries |-> [rq |-> "NetfsRetriesReadReq", rs |-> "NetfsRetriesReadSubreq",
                wq |-> "NetfsRetriesWriteReq", ws |-> "NetfsRetriesWriteSubreq"],
   Objs |-> [rr |-> "NetfsObjectsReadReqs", sr |-> "NetfsObjectsSubreqs",
             foq |-> "NetfsObjectsFolioQueue", wsc |-> "NetfsObjectsWriteConflicts"],
   WbLock |-> [skip |-> "NetfsWblockSkip", wait |-> "NetfsWblockWait"],
   Cookies |-> [n |-> "FscacheCookiesData", v |-> "FscacheCookiesVolume",
                vcol |-> "FscacheCookiesVolumeCollisions", voom |-> "FscacheCookiesVolumeOom"],
   Acquire |-> [n |-> "FscacheAcquireRequests", ok |-> "FscacheAcquireOk",
                oom |-> "FscacheAcquireOom"],
   LRU |-> [n |-> "FscacheLruCount", exp |-> "FscacheLruExpired", rmv |-> "FscacheLruRemoved",
            drp |-> "FscacheLruDropped", at |-> "unreported"],
   Invals |-> [n |-> "FscacheInvalidations"],
   Updates |-> [n |-> "FscacheUpdatesRequests", rsz |-> "FscacheUpdatesResize",
                rsn |-> "FscacheUpdatesResizeSkipped"],
   Relinqs |-> [n |-> "FscacheRelinquishRequests", rtr |-> "FscacheRelinquishRetire",
                drop |-> "FscacheRelinquishDrop"],
   NoSpace |-> [nwr |-> "FscacheNospaceWrite", ncr |-> "FscacheNospaceCreate",
                cull |-> "FscacheNospaceCull"],
   IO |-> [rd |-> "FscacheIoRead", wr |-> "FscacheIoWrite", mis |-> "FscacheIoMisfit"]]

\* parseLine and parseKeyValues, then convert.Int64.
stat(category, key) == Int64(count(<<category, key>>))


recordReads ==
  [NetfsReadsDirect |-> stat("Reads", "DR"), NetfsReadsReadahead |-> stat("Reads", "RA"),
   NetfsReadsFolio |-> stat("Reads", "RF"), NetfsReadsSingle |-> stat("Reads", "RS"),
   NetfsReadsWriteBegin |-> stat("Reads", "WB"), NetfsReadsWriteZskip |-> stat("Reads", "WBZ")]

\* The lines after Reads.
recordTransfers ==
  [NetfsWritesBuffered |-> stat("Writes", "BW"), NetfsWritesWritethrough |-> stat("Writes", "WT"),
   NetfsWritesDirect |-> stat("Writes", "DW"), NetfsWritesPages |-> stat("Writes", "WP"),
   NetfsWritesCopyToCache |-> stat("Writes", "C2"),
   NetfsZeroOpsZero |-> stat("ZeroOps", "ZR"), NetfsZeroOpsShort |-> stat("ZeroOps", "sh"),
   NetfsZeroOpsSkip |-> stat("ZeroOps", "sk"),
   NetfsDownloadRequests |-> stat("DownOps", "DL"), NetfsDownloadDone |-> stat("DownOps", "ds"),
   NetfsDownloadFailed |-> stat("DownOps", "df"), NetfsDownloadInstead |-> stat("DownOps", "di"),
   NetfsCacheReadRequests |-> stat("CaRdOps", "RD"), NetfsCacheReadDone |-> stat("CaRdOps", "rs"),
   NetfsCacheReadFailed |-> stat("CaRdOps", "rf"),
   NetfsUploadRequests |-> stat("UpldOps", "UL"), NetfsUploadDone |-> stat("UpldOps", "us"),
   NetfsUploadFailed |-> stat("UpldOps", "uf"),
   NetfsCacheWriteRequests |-> stat("CaWrOps", "WR"), NetfsCacheWriteDone |-> stat("CaWrOps", "ws"),
   NetfsCacheWriteFailed |-> stat("CaWrOps", "wf"),
   NetfsRetriesReadReq |-> stat("Retries", "rq"), NetfsRetriesReadSubreq |-> stat("Retries", "rs"),
   NetfsRetriesWriteReq |-> stat("Retries", "wq"),
   NetfsRetriesWriteSubreq |-> stat("Retries", "ws"),
   NetfsObjectsReadReqs |-> stat("Objs", "rr"), NetfsObjectsSubreqs |-> stat("Objs", "sr"),
   NetfsObjectsFolioQueue |-> stat("Objs", "foq"),
   NetfsObjectsWriteConflicts |-> stat("Objs", "wsc"),
   NetfsWblockSkip |-> stat("WbLock", "skip"), NetfsWblockWait |-> stat("WbLock", "wait")]

recordNetfsMetrics == Joined({recordReads, recordTransfers})

recordFscacheMetrics ==
  [FscacheCookiesData |-> stat("Cookies", "n"), FscacheCookiesVolume |-> stat("Cookies", "v"),
   FscacheCookiesVolumeCollisions |-> stat("Cookies", "vcol"),
   FscacheCookiesVolumeOom |-> stat("Cookies", "voom"),
   FscacheAcquireRequests |-> stat("Acquire", "n"), FscacheAcquireOk |-> stat("Acquire", "ok"),
   FscacheAcquireOom |-> stat("Acquire", "oom"),
   FscacheLruCount |-> stat("LRU", "n"), FscacheLruExpired |-> stat("LRU", "exp"),
   FscacheLruRemoved |-> stat("LRU", "rmv"), FscacheLruDropped |-> stat("LRU", "drp"),
   FscacheInvalidations |-> stat("Invals", "n"),
   FscacheUpdatesRequests |-> stat("Updates", "n"), FscacheUpdatesResize |-> stat("Updates", "rsz"),
   FscacheUpdatesResizeSkipped |-> stat("Updates", "rsn"),
   FscacheRelinquishRequests |-> stat("Relinqs", "n"),
   FscacheRelinquishRetire |-> stat("Relinqs", "rtr"),
   FscacheRelinquishDrop |-> stat("Relinqs", "drop"),
   FscacheNospaceWrite |-> stat("NoSpace", "nwr"), FscacheNospaceCreate |-> stat("NoSpace", "ncr"),
   FscacheNospaceCull |-> stat("NoSpace", "cull"),
   FscacheIoRead |-> stat("IO", "rd"), FscacheIoWrite |-> stat("IO", "wr"),
   FscacheIoMisfit |-> stat("IO", "mis")]

-----------------------------------------------------------------------------
(* nfsd, exports, slab, connections *)

SocketStates == {"ESTAB", "FIN-WAIT-1"}
poolStats == {"PacketsArrived", "SocketsEnqueued", "ThreadsWoken", "ThreadsTimedout"}

\* The sums over the pools wrap around; packets are deferred that arrived and
\* neither queued a socket nor woke a thread.
scrapePoolStats ==
  LET total == [f \in poolStats |->
                  FoldSet(LAMBDA p, n : (n + count(<<f, p>>)) % 2^UintBits, 0, Pools)]
      handled == (total["SocketsEnqueued"] + total["ThreadsWoken"]) % 2^UintBits
      arrived == total["PacketsArrived"]
  IN [NfsPacketsArrived |-> Int64(arrived),
      NfsPacketsDeferred |-> IF arrived >= handled THEN Int64(arrived - handled) ELSE 0,
      NfsSocketsEnqueued |-> Int64(total["SocketsEnqueued"]),
      NfsThreadsWoken |-> Int64(total["ThreadsWoken"]),
      NfsThreadsTimedout |-> Int64(total["ThreadsTimedout"])]

\* Operations of V3Stats, ServerV4Stats and V4Ops, one of each; COMPOUND and
\* two operations of V4Ops are not in the total.
countedOps == {"V3Stats.Read", "ServerV4Stats.Null", "V4Ops.Read"}
uncountedOps == {"ServerV4Stats.Compound", "V4Ops.SetClientID"}

totalOperations ==
  FoldSet(LAMBDA o, n : (n + count(<<"rpc", o>>)) % 2^UintBits, 0, countedOps)

recordExports ==
  [NfsExportsTotalOperations |-> Int64(totalOperations),
   NfsExportsTotalReadBytes |-> Int64(count(<<"InputOutput", "Read">>)),
   NfsExportsTotalWriteBytes |-> Int64(count(<<"InputOutput", "Write">>))]

recordDentry ==
  [SlabDentryCacheActiveObjects |-> count(<<"dentry", "ObjActive">>),
   SlabDentryCacheObjsize |-> count(<<"dentry", "ObjSize">>)]
recordNfsInode ==
  [SlabNfsInodeCacheActiveObjects |-> count(<<"nfs_inode_cache", "ObjActive">>),
   SlabNfsInodeCacheObjsize |-> count(<<"nfs_inode_cache", "ObjSize">>)]

\* Connections that are established, and clients with one in any state.
parseSSOutput ==
  [NfsConnections |-> MapThenSumSet(LAMBDA ip : count(<<ip, "ESTAB">>), ClientIPs),
   NfsClients |-> Cardinality({ip \in ClientIPs : \E st \in SocketStates : count(<<ip, st>>) > 0})]

recordThreads == [NfsThreads |-> count(<<"pgrep", "nfsd">>)]

-----------------------------------------------------------------------------
(* A scrape: what it emits, the builder it leaves. *)

Receivers ==
  [nfsd |-> nfsdMetrics, slab |-> slabMetrics, exports |-> exportsMetrics,
   connections |-> connectionsMetrics, fscache |-> fscacheMetrics]

Emitted(mb) == [out |-> EmitForResource(mb), mb |-> Emit(mb)]
NoMetrics == [out |-> <<>>, mb |-> xMb]

RecordIf(ok, mb, now, vals) == IF ok THEN Record(mb, now, vals) ELSE mb

\* Mutant: a pool_stats that cannot be read ends the scrape.
scrapeNfsdStops(now, ok1, ok2) ==
  LET mb == RecordIf(ok1, xMb, now, recordThreads) IN
  IF ok2 THEN Emitted(Record(mb, now, scrapePoolStats)) ELSE [out |-> <<>>, mb |-> mb]

\* pgrep and pool_stats; the failure of one leaves the other.
scrapeNfsd(now, ok1, ok2) ==
  Emitted(RecordIf(ok2, RecordIf(ok1, xMb, now, recordThreads), now, scrapePoolStats))

\* The slabs dentry and nfs_inode_cache, if they are there.
scrapeSlab(now, ok1, ok2) ==
  Emitted(RecordIf(ok2, RecordIf(ok1, xMb, now, recordDentry),
                   now, recordNfsInode))

\* A failure of ServerRPCStats, or of ss, is the scrape's.
scrapeExports(now, ok) == IF ok THEN Emitted(Record(xMb, now, recordExports)) ELSE NoMetrics
scrapeConnections(now, ok) ==
  IF ok THEN Emitted(Record(xMb, now, parseSSOutput)) ELSE NoMetrics

\* Without the file, an empty builder is emitted.
scrapeFscache(now, ok) ==
  Emitted(RecordIf(ok, xMb, now, Joined({recordNetfsMetrics, recordFscacheMetrics})))

scrapeOf(now, ok1, ok2) ==
  CASE xReceiver = "nfsd" -> scrapeNfsd(now, ok1, ok2)
    [] xReceiver = "slab" -> scrapeSlab(now, ok1, ok2)
    [] xReceiver = "exports" -> scrapeExports(now, ok1)
    [] xReceiver = "connections" -> scrapeConnections(now, ok1)
    [] xReceiver = "fscache" -> scrapeFscache(now, ok1)

-----------------------------------------------------------------------------

\* The counters and levels of the kernel that a receiver's metrics come from.
Sources ==
  CASE xReceiver = "nfsd" -> (poolStats \X Pools) \cup {<<"pgrep", "nfsd">>}
    [] xReceiver = "slab" -> {"dentry", "nfs_inode_cache"} \X {"ObjActive", "ObjSize"}
    [] xReceiver = "connections" -> ClientIPs \X SocketStates
    [] xReceiver = "exports" ->
         ({"rpc"} \X (countedOps \cup uncountedOps)) \cup ({"InputOutput"} \X {"Read", "Write"})
    [] xReceiver = "fscache" -> UNION {{c} \X DOMAIN fscacheStats[c] : c \in DOMAIN fscacheStats}
    [] OTHER -> {}

\* Those that may fall: how many threads, objects, sockets and cookies there are.
FallingSources ==
  {<<"pgrep", "nfsd">>, <<"LRU", "n">>, <<"Cookies", "n">>, <<"Cookies", "v">>,
   <<"Objs", "rr">>, <<"Objs", "sr">>, <<"Objs", "foq">>}
    \cup ({"dentry", "nfs_inode_cache"} \X {"ObjActive"}) \cup (ClientIPs \X SocketStates)

ScrapersInit ==
  /\ xReceiver = "none" /\ xCounters = <<>> /\ xMb = <<>> /\ xOut = <<>> /\ xScrapings = 0

\* createMetricsReceiver; that of slab fails to start without slabinfo.
Create(r) ==
  /\ xReceiver = "none"
  /\ \/ /\ xReceiver' = r
        /\ xMb' = NewMetricsBuilder(Receivers[r], DefaultMetricsConfig(Receivers[r]))
     \/ r = "slab" /\ xReceiver' = "failed" /\ UNCHANGED xMb
  /\ UNCHANGED <<xCounters, xOut, xScrapings>>

Bump(c) ==
  /\ MapThenSumSet(count, DOMAIN xCounters) < MaxBumps[xReceiver]
  /\ xCounters' = With(xCounters, c, count(c) + 1)
  /\ UNCHANGED <<xReceiver, xMb, xOut, xScrapings>>

Fall(c) ==
  /\ c \in FallingSources /\ count(c) > 0
  /\ xCounters' = With(xCounters, c, count(c) - 1)
  /\ UNCHANGED <<xReceiver, xMb, xOut, xScrapings>>

\* Whether its inputs can be read; nfsd and slab have two.
ScrapeOnce(ok1, ok2) ==
  LET now == xScrapings + 1 result == scrapeOf(now, ok1, ok2) IN
  /\ xReceiver \in DOMAIN Receivers /\ xScrapings < MaxScrapings
  /\ xReceiver \in {"nfsd", "slab"} \/ ok1 = ok2
  /\ xScrapings' = now
  /\ xMb' = result.mb /\ xOut' = result.out
  /\ UNCHANGED <<xReceiver, xCounters>>

ScrapersNext ==
  \/ \E r \in DOMAIN Receivers : Create(r)
  \/ \E c \in Sources : Bump(c) \/ Fall(c)
  \/ \E ok1, ok2 \in BOOLEAN : ScrapeOnce(ok1, ok2)

ScrapersSpec == ScrapersInit /\ [][ScrapersNext]_scraperVars

-----------------------------------------------------------------------------
(* Properties. *)

\* The metrics of a receiver that one input gives.
Groups ==
  CASE xReceiver = "nfsd" -> {{"NfsThreads"}, DOMAIN nfsdMetrics \ {"NfsThreads"}}
    [] xReceiver = "slab" -> {DOMAIN slabDentryMetrics, DOMAIN slabNfsInodeMetrics}
    [] OTHER -> {DOMAIN Receivers[xReceiver]}

\* An emission has the points of its own scrape and no others, one for each
\* metric, and the metrics that come from one input are all there or all absent:
\* no scrape that fails half way leaves points in the builder that a later one
\* would emit (scrape of each receiver, Emit).
EmissionWhole ==
  xReceiver \in DOMAIN Receivers =>
    /\ \A m \in DOMAIN xOut : Len(xOut[m]) = 1 /\ xOut[m][1].ts = xScrapings
    /\ \A g \in Groups : g \subseteq DOMAIN xOut \/ g \cap DOMAIN xOut = {}

\* The metric that metadata.yaml documents for a counter.
otherStats ==
  [PacketsArrived |-> "NfsPacketsArrived", SocketsEnqueued |-> "NfsSocketsEnqueued",
   ThreadsWoken |-> "NfsThreadsWoken", ThreadsTimedout |-> "NfsThreadsTimedout",
   pgrep |-> "NfsThreads"]
slabAndIO ==
  [dentry |-> [ObjActive |-> "SlabDentryCacheActiveObjects",
               ObjSize |-> "SlabDentryCacheObjsize"],
   nfs_inode_cache |-> [ObjActive |-> "SlabNfsInodeCacheActiveObjects",
                        ObjSize |-> "SlabNfsInodeCacheObjsize"],
   InputOutput |-> [Read |-> "NfsExportsTotalReadBytes", Write |-> "NfsExportsTotalWriteBytes"]]
Documented(c) ==
  CASE c[1] \in DOMAIN fscacheStats -> fscacheStats[c[1]][c[2]]
    [] c[1] \in DOMAIN slabAndIO -> slabAndIO[c[1]][c[2]]
    [] c[1] \in DOMAIN otherStats -> otherStats[c[1]]
    [] c[2] \in countedOps -> "NfsExportsTotalOperations"
    [] c[2] = "ESTAB" -> "NfsConnections"
    [] OTHER -> "unreported"

\* Metrics that are worked out of several counters.
Derived == {"NfsPacketsDeferred", "NfsClients"}

=============================================================================
