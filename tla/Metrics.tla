------------------------------ MODULE Metrics ------------------------------
(***************************************************************************)
(* The metrics builders of knfsd-metrics-agent.  Each receiver has a       *)
(* generated package metadata: a buffer of data points for every metric,   *)
(* a configuration for every metric, and a MetricsBuilder that records     *)
(* points and emits them.  The generated functions are the same for every  *)
(* metric; what differs is described by a record, one per metric below.    *)
(*                                                                         *)
(* Two generations of the generator are in use.  The receiver mounts       *)
(* selects attributes and merges points that agree on the selected ones    *)
(* (aggregated); the others append every point.                            *)
(***************************************************************************)
EXTENDS Integers, Sequences

CONSTANT UintBits  \* width of a kernel counter, 64 in the code

\* A function with key k set to v, and the functions of a set taken together.
With(f, k, v) == [x \in DOMAIN f \cup {k} |-> IF x = k THEN v ELSE f[x]]
Joined(fs) ==
  [x \in UNION {DOMAIN f : f \in fs} |-> (CHOOSE f \in fs : x \in DOMAIN f)[x]]

Strategies == {"sum", "avg", "min", "max"}

Counter == [type |-> "sum", val |-> "int", attributes |-> {}, aggregated |-> FALSE]
Level == [type |-> "gauge", val |-> "int", attributes |-> {}, aggregated |-> FALSE]
AggregatedSum(attrs) ==
  [type |-> "sum", val |-> "int", attributes |-> attrs, aggregated |-> TRUE]
AggregatedGauge(attrs) ==
  [type |-> "gauge", val |-> "double", attributes |-> attrs, aggregated |-> TRUE]
Counters(names) == [m \in names |-> Counter]
Levels(names) == [m \in names |-> Level]

-----------------------------------------------------------------------------
(* Configuration. *)

\* The configuration a metric has unless the user sets one.
DefaultMetricConfig(metric) ==
  [enabled |-> TRUE,
   aggregation_strategy |-> IF metric.type = "sum" THEN "sum" ELSE "avg",
   attributes |-> metric.attributes]

DefaultMetricsConfig(metrics) == [m \in DOMAIN metrics |-> DefaultMetricConfig(metrics[m])]

\* What the user sets replaces the default, key by key; user has the keys that
\* are set.
Unmarshal(config, user) ==
  [k \in DOMAIN config |-> IF k \in DOMAIN user THEN user[k] ELSE config[k]]

Validate(metric, config) ==
  /\ config.attributes \subseteq metric.attributes
  /\ config.aggregation_strategy \in Strategies

-----------------------------------------------------------------------------
(* Recording and emitting. *)

\* Mutant: a merged point does not count in the average.
mergePointUncounted(strategy, p, v) ==
  IF strategy \in {"sum", "avg"} THEN [p EXCEPT !.val = @ + v]
  ELSE [p EXCEPT !.val = IF (strategy = "min") = (v < @) THEN v ELSE @]

\* A value for a point that is in the buffer already.
mergePoint(strategy, p, v) ==
  CASE strategy \in {"sum", "avg"} -> [p EXCEPT !.val = @ + v, !.count = @ + 1]
    [] strategy = "min" -> [p EXCEPT !.val = IF @ > v THEN v ELSE @]
    [] strategy = "max" -> [p EXCEPT !.val = IF @ < v THEN v ELSE @]

\* The buffer after a point with timestamp ts, value v and attribute values
\* attrs.  Points are the same (dataPointKey) when the attributes that are put
\* on them and the timestamps are.
recordDataPoint(metric, config, points, ts, v, attrs) ==
  LET put == [a \in config.attributes |-> attrs[a]]
      same == {i \in DOMAIN points : points[i].attributes = put /\ points[i].ts = ts}
  IN IF ~config.enabled THEN points
     ELSE IF metric.aggregated /\ same # {}
     THEN LET i == CHOOSE i \in same : TRUE IN
            [points EXCEPT ![i] = mergePoint(config.aggregation_strategy, @, v)]
     ELSE Append(points, [attributes |-> put, ts |-> ts, val |-> v, count |-> 1])

\* The points of one metric as they are emitted.  The average of integers is
\* rounded down; that of floating point numbers is given as a fraction.
emit(metric, config, points) ==
  LET average(p) == IF metric.val = "int" THEN p.val \div p.count ELSE <<p.val, p.count>>
      averaged == metric.aggregated /\ config.aggregation_strategy = "avg"
  IN [i \in DOMAIN points |->
        [attributes |-> points[i].attributes, ts |-> points[i].ts,
         val |-> IF averaged THEN average(points[i]) ELSE points[i].val]]

NewMetricsBuilder(metrics, config) ==
  [metrics |-> metrics, config |-> config, data |-> [m \in DOMAIN metrics |-> <<>>]]

\* Record...DataPoint of the metrics in DOMAIN vals, which have no attributes.
Record(mb, ts, vals) ==
  [mb EXCEPT !.data = [m \in DOMAIN @ |->
     IF m \in DOMAIN vals
     THEN recordDataPoint(mb.metrics[m], mb.config[m], @[m], ts, vals[m], <<>>)
     ELSE @[m]]]

\* EmitForResource: the metrics that have points.
EmitForResource(mb) ==
  [m \in {n \in DOMAIN mb.data : mb.config[n].enabled /\ mb.data[n] # <<>>} |->
     emit(mb.metrics[m], mb.config[m], mb.data[m])]

\* Emit leaves an empty builder.
Emit(mb) == [mb EXCEPT !.data = [m \in DOMAIN @ |-> <<>>]]

-----------------------------------------------------------------------------
(* The metrics of each receiver. *)

ByOperation == {"server", "instance", "operation"}
ByMount == {"server", "instance"}
metricNfsMountOperationErrors == AggregatedSum(ByOperation)
metricNfsMountOperationMajorTimeouts == AggregatedSum(ByOperation)
metricNfsMountOperationReceivedBytes == AggregatedSum(ByOperation)
metricNfsMountOperationRequests == AggregatedSum(ByOperation)
metricNfsMountOperationSentBytes == AggregatedSum(ByOperation)
metricNfsMountOpsPerSecond == AggregatedGauge(ByMount)
metricNfsMountReadBytes == AggregatedSum(ByMount)
metricNfsMountReadExe == AggregatedGauge(ByMount)
metricNfsMountReadRtt == AggregatedGauge(ByMount)
metricNfsMountRPCBacklog == AggregatedGauge(ByMount)
metricNfsMountWriteBytes == AggregatedSum(ByMount)
metricNfsMountWriteExe == AggregatedGauge(ByMount)
metricNfsMountWriteRtt == AggregatedGauge(ByMount)

mountsMetrics ==
  [NfsMountOperationErrors |-> metricNfsMountOperationErrors,
   NfsMountOperationMajorTimeouts |-> metricNfsMountOperationMajorTimeouts,
   NfsMountOperationReceivedBytes |-> metricNfsMountOperationReceivedBytes,
   NfsMountOperationRequests |-> metricNfsMountOperationRequests,
   NfsMountOperationSentBytes |-> metricNfsMountOperationSentBytes,
   NfsMountOpsPerSecond |-> metricNfsMountOpsPerSecond,
   NfsMountReadBytes |-> metricNfsMountReadBytes,
   NfsMountReadExe |-> metricNfsMountReadExe,
   NfsMountReadRtt |-> metricNfsMountReadRtt,
   NfsMountRPCBacklog |-> metricNfsMountRPCBacklog,
   NfsMountWriteBytes |-> metricNfsMountWriteBytes,
   NfsMountWriteExe |-> metricNfsMountWriteExe,
   NfsMountWriteRtt |-> metricNfsMountWriteRtt]

connectionsMetrics == Levels({"NfsClients", "NfsConnections"})
slabDentryMetrics == Levels({"SlabDentryCacheActiveObjects", "SlabDentryCacheObjsize"})
slabNfsInodeMetrics ==
  Levels({"SlabNfsInodeCacheActiveObjects", "SlabNfsInodeCacheObjsize"})
slabMetrics == Joined({slabDentryMetrics, slabNfsInodeMetrics})
exportsMetrics ==
  Counters({"NfsExportsTotalOperations", "NfsExportsTotalReadBytes",
            "NfsExportsTotalWriteBytes"})
nfsdPacketMetrics ==
  Joined({Counters({"NfsPacketsArrived", "NfsSocketsEnqueued"}), Levels({"NfsPacketsDeferred"})})
nfsdThreadMetrics ==
  Joined({Counters({"NfsThreadsTimedout", "NfsThreadsWoken"}), Levels({"NfsThreads"})})
nfsdMetrics == Joined({nfsdPacketMetrics, nfsdThreadMetrics})
oldestfileMetrics == Levels({"FscacheOldestFile"})
extentsMetrics == Levels({"FscacheExtentsMax", "FscacheExtentsMeanBytes"})
fragmentationMetrics ==
  Joined({extentsMetrics,
          Levels({"FscacheExtentsUnwrittenBytes", "FscacheFragmentationScrapeDuration"})})

acquireMetrics ==
  Counters({"FscacheAcquireOk", "FscacheAcquireOom", "FscacheAcquireRequests"})
cookiesMetrics ==
  Counters({"FscacheCookiesData", "FscacheCookiesVolume",
            "FscacheCookiesVolumeCollisions", "FscacheCookiesVolumeOom"})
invalidationsMetrics == Counters({"FscacheInvalidations"})
ioMetrics == Counters({"FscacheIoMisfit", "FscacheIoRead", "FscacheIoWrite"})
lruMetrics ==
  Counters({"FscacheLruCount", "FscacheLruDropped", "FscacheLruExpired",
            "FscacheLruRemoved"})
nospaceMetrics ==
  Counters({"FscacheNospaceCreate", "FscacheNospaceCull", "FscacheNospaceWrite"})
relinquishMetrics ==
  Counters({"FscacheRelinquishDrop", "FscacheRelinquishRequests",
            "FscacheRelinquishRetire"})
updatesMetrics ==
  Counters({"FscacheUpdatesRequests", "FscacheUpdatesResize",
            "FscacheUpdatesResizeSkipped"})
cacheReadMetrics ==
  Counters({"NetfsCacheReadDone", "NetfsCacheReadFailed", "NetfsCacheReadRequests"})
cacheWriteMetrics ==
  Counters({"NetfsCacheWriteDone", "NetfsCacheWriteFailed", "NetfsCacheWriteRequests"})
downloadMetrics ==
  Counters({"NetfsDownloadDone", "NetfsDownloadFailed", "NetfsDownloadInstead",
            "NetfsDownloadRequests"})
objectsMetrics ==
  Counters({"NetfsObjectsFolioQueue", "NetfsObjectsReadReqs", "NetfsObjectsSubreqs",
            "NetfsObjectsWriteConflicts"})
readsMetrics ==
  Counters({"NetfsReadsDirect", "NetfsReadsFolio", "NetfsReadsReadahead"})
readsWriteMetrics ==
  Counters({"NetfsReadsSingle", "NetfsReadsWriteBegin", "NetfsReadsWriteZskip"})
retriesMetrics ==
  Counters({"NetfsRetriesReadReq", "NetfsRetriesReadSubreq", "NetfsRetriesWriteReq",
            "NetfsRetriesWriteSubreq"})
uploadMetrics ==
  Counters({"NetfsUploadDone", "NetfsUploadFailed", "NetfsUploadRequests"})
wblockMetrics == Counters({"NetfsWblockSkip", "NetfsWblockWait"})
writesMetrics ==
  Counters({"NetfsWritesBuffered", "NetfsWritesCopyToCache", "NetfsWritesDirect"})
writesPagesMetrics == Counters({"NetfsWritesPages", "NetfsWritesWritethrough"})
zeroOpsMetrics ==
  Counters({"NetfsZeroOpsShort", "NetfsZeroOpsSkip", "NetfsZeroOpsZero"})

fscacheMetrics ==
  Joined({acquireMetrics, cookiesMetrics, invalidationsMetrics, ioMetrics, lruMetrics,
          nospaceMetrics, relinquishMetrics, updatesMetrics, cacheReadMetrics,
          cacheWriteMetrics, downloadMetrics, objectsMetrics, readsMetrics,
          readsWriteMetrics, retriesMetrics, uploadMetrics, wblockMetrics, writesMetrics,
          writesPagesMetrics, zeroOpsMetrics})

-----------------------------------------------------------------------------
\* convert.Int64: the top bit of a counter is dropped.
Int64(v) == v % 2^(UintBits - 1)
=============================================================================
