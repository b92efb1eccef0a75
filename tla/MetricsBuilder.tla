--------------------------- MODULE MetricsBuilder ---------------------------
(***************************************************************************)
(* One metric of a receiver of knfsd-metrics-agent under a configuration   *)
(* the user chose: it is read and validated, then points are recorded and  *)
(* emitted, once per scrape (EmitForResource).                             *)
(***************************************************************************)
EXTENDS Metrics, FiniteSetsExt

CONSTANTS
  UserConfigs,   \* what users set, as partial configurations
  BuilderValues, \* values of the points recorded
  BuilderServers,
  MaxPoints,     \* points recorded by one scrape
  MaxEmits       \* scrapes

ASSUME BuilderAssumption ==
  /\ BuilderValues \subseteq Nat
  /\ \A u \in UserConfigs : "enabled" \in DOMAIN u => u["enabled"] \in BOOLEAN

VARIABLES
  bMetric,  \* the metric, an element of mountsMetrics or a plain Counter
  bConfig,  \* its configuration
  bState,   \* "start", "refused" or "running"
  bPoints,  \* its buffer
  bLog,     \* ghost: the points recorded since the last emit
  bOut,     \* ghost: what was emitted, and its log, until the next scrape begins
  bEmits

builderVars == <<bMetric, bConfig, bState, bPoints, bLog, bOut, bEmits>>

BuilderMetrics == {metricNfsMountReadBytes, metricNfsMountOpsPerSecond, Counter}

NothingEmitted == [points |-> <<>>, log |-> <<>>]

BuilderInit ==
  /\ bMetric = Counter /\ bConfig = DefaultMetricConfig(Counter) /\ bState = "start"
  /\ bPoints = <<>> /\ bLog = <<>> /\ bEmits = 0
  /\ bOut = NothingEmitted

\* The collector loads the configuration and creates the receiver, or refuses.
\* Plain metrics have no attributes and no strategy to set.
Configure(metric, user) ==
  LET config == Unmarshal(DefaultMetricConfig(metric), user) IN
  /\ bState = "start"
  /\ ~metric.aggregated => DOMAIN user \subseteq {"enabled"}
  /\ bMetric' = metric /\ bConfig' = config
  /\ bState' = IF Validate(metric, config) THEN "running" ELSE "refused"
  /\ UNCHANGED <<bPoints, bLog, bOut, bEmits>>

RecordPoint(v, attrs) ==
  /\ bState = "running" /\ Len(bLog) < MaxPoints /\ bEmits < MaxEmits
  /\ bPoints' = recordDataPoint(bMetric, bConfig, bPoints, bEmits, v, attrs)
  /\ bLog' = Append(bLog, [val |-> v, attributes |-> attrs])
  /\ bOut' = NothingEmitted
  /\ UNCHANGED <<bMetric, bConfig, bState, bEmits>>

EmitPoints ==
  /\ bState = "running" /\ bEmits < MaxEmits
  /\ bOut' = [points |-> IF bConfig.enabled THEN emit(bMetric, bConfig, bPoints) ELSE <<>>,
              log |-> bLog]
  /\ bPoints' = <<>> /\ bLog' = <<>> /\ bEmits' = bEmits + 1
  /\ UNCHANGED <<bMetric, bConfig, bState>>

BuilderNext ==
  \/ \E metric \in BuilderMetrics, user \in UserConfigs : Configure(metric, user)
  \/ \E v \in BuilderValues, s \in BuilderServers :
       RecordPoint(v, [server |-> s, instance |-> "i"])
  \/ EmitPoints

-----------------------------------------------------------------------------
\* What a strategy makes of the values recorded for one point.
Aggregate(metric, strategy, log, idx) ==
  LET vals == {log[i].val : i \in idx}
      total == MapThenSumSet(LAMBDA i : log[i].val, idx)
  IN CASE strategy = "sum" -> total
       [] strategy = "avg" -> IF metric.val = "int" THEN total \div Cardinality(idx)
                              ELSE <<total, Cardinality(idx)>>
       [] strategy = "min" -> Min(vals)
       [] strategy = "max" -> Max(vals)

\* What is emitted is what was recorded since the last emit, and nothing else.
\* With selected attributes there is one point for each combination of their
\* values, and it holds the sum, average, minimum or maximum of all values that
\* were recorded with it, in whatever order (recordDataPoint and emit of the
\* receiver mounts).  A plain metric has every point; a disabled one has none,
\* and neither has a metric whose configuration was refused.
AggregationExact ==
  LET points == bOut.points
      log == bOut.log
      put(attrs) == [a \in bConfig.attributes |-> attrs[a]]
  IN /\ bState = "refused" => points = <<>> /\ bPoints = <<>>
     /\ ~bConfig.enabled => points = <<>>
     /\ bConfig.enabled /\ ~bMetric.aggregated =>
          [i \in DOMAIN points |-> points[i].val] = [i \in DOMAIN log |-> log[i].val]
     /\ bConfig.enabled /\ bMetric.aggregated =>
          /\ {points[i].attributes : i \in DOMAIN points}
               = {put(log[i].attributes) : i \in DOMAIN log}
          /\ \A i, j \in DOMAIN points :
               points[i].attributes = points[j].attributes => i = j
          /\ \A i \in DOMAIN points :
               points[i].val =
                 Aggregate(bMetric, bConfig.aggregation_strategy, log,
                   {j \in DOMAIN log : put(log[j].attributes) = points[i].attributes})
=============================================================================
