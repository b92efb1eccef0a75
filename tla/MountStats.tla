----------------------------- MODULE MountStats -----------------------------
(***************************************************************************)
(* The receiver "mounts" of knfsd-metrics-agent: one scrape reads          *)
(* /proc/self/mountinfo, then /proc/self/mountstats, adds the statistics   *)
(* of the mounts of each server, asks the agents of the servers for their  *)
(* instance names, and reports totals and, against the scrape before,      *)
(* rates.  Meanwhile the kernel serves operations, and file systems are    *)
(* mounted and unmounted.                                                  *)
(*                                                                         *)
(* Mounts of one remote file system share a superblock, with its counters  *)
(* and its device ID.  A superblock lives as long as it has a mount; the   *)
(* lowest free ID is given to the next one.  All mounts of a server share  *)
(* its transports, whose counters live as long as the server has a mount;  *)
(* the sum over the transports that newSummary takes is all that is kept   *)
(* of them.  An export is always mounted at the same path                  *)
(* (proxy-startup.sh), so a path belongs to one remote file system.  Each  *)
(* of the two files is read in one step.                                   *)
(***************************************************************************)
EXTENDS Metrics, FiniteSetsExt

CONSTANTS
  MountPaths,      \* local mount points
  RemoteFs,        \* the remote file system each belongs to
  ServerOf,        \* and the server it is on
  Operations,      \* NFS operations the mounts perform
  Delays,          \* time an operation may spend on the client, beyond its RTT
  QueryEnabled,    \* query_proxy_instance.enabled
  ExcludedServers, ExcludedPaths, \* query_proxy_instance.exclude
  AgentAnswers,    \* names a server's agent answers with ("" included)
  UmountsInScrape, \* whether mounts go away between the two reads of a scrape
  MaxOps, MaxTime, MaxMounts, MaxScrapes

FileSystems == {RemoteFs[p] : p \in MountPaths}
Servers == {ServerOf[p] : p \in MountPaths}
MaxUint64 == 2^UintBits - 1
NoInstance == ""
OpFields == {"Requests", "MajorTimeouts", "BytesSent", "BytesReceived", "Errors",
             "CumulativeTotalResponseMilliseconds", "CumulativeTotalRequestMilliseconds"}
SuperFields == {"ReadTotal", "WriteTotal"}
XprtFields == {"Sends", "CumulativeBacklog"}
Fields == SuperFields \cup XprtFields

\* The operations whose counts are looked at.
AllOperations == Operations \cup {"READ", "WRITE"}

ASSUME MountStatsAssumption ==
  /\ UintBits \in Nat \ {0} /\ MaxUint64 \in Nat /\ Delays \subseteq Nat
  /\ IsFiniteSet(MountPaths) /\ IsFiniteSet(Operations)
  /\ \A p, q \in MountPaths : RemoteFs[p] = RemoteFs[q] => ServerOf[p] = ServerOf[q]

VARIABLES
  kTime, kMounted,  \* the clock, the mount points in use
  kSuper,           \* the superblock of a mounted file system
  kXprt,            \* the transport of a server with mounts, its xprt line
  kServed, kMounts, \* ghosts: operations served by server and kind, mounts made
  sPc,              \* the next step of the scrape
  sIds,             \* its map ids: device IDs by mount point
  sAgg,             \* its map agg: nfsStatsGroup by server
  sTodo,            \* servers queryInstanceNames has yet to come to
  sPrevious,        \* s.previous: nfsStats by server
  sOut,             \* what was emitted last
  sInfo, sMark,     \* ghosts: kServed when this scrape, and the scrape that set
                    \* s.previous, read mountinfo
  sLimit,           \* ghost: operations served from sMark to this mountstats
  sScrapes

kernelVars == <<kTime, kMounted, kSuper, kXprt, kServed, kMounts>>
scrapeVars == <<sPc, sIds, sAgg, sTodo, sPrevious, sOut, sInfo, sMark, sLimit, sScrapes>>
mountVars == <<kernelVars, scrapeVars>>

-----------------------------------------------------------------------------
(* stats.go *)

ZeroOp == [f \in OpFields |-> 0]
ZeroSummary == [age |-> 0, counters |-> [f \in Fields |-> 0], operations |-> <<>>]

\* Sums stop at the largest counter, differences at zero.
add(x, y) == IF y >= MaxUint64 - x THEN MaxUint64 ELSE x + y
sub(x, y) == IF x > y THEN x - y ELSE 0

addCounters(new, old) == [f \in Fields |-> add(new[f], old[f])]
diffCounters(new, old) == [f \in Fields |-> sub(new[f], old[f])]
addOperation(new, old) == [f \in OpFields |-> add(new[f], old[f])]
diffOperation(new, old) == [f \in OpFields |-> sub(new[f], old[f])]

lookup(ops, o) == IF o \in DOMAIN ops THEN ops[o] ELSE ZeroOp

addOperations(new, old) ==
  [o \in DOMAIN new \cup DOMAIN old |->
     IF o \in DOMAIN old THEN addOperation(lookup(new, o), old[o]) ELSE new[o]]
diffOperations(new, old) ==
  [o \in DOMAIN new |-> IF o \in DOMAIN old THEN diffOperation(new[o], old[o]) ELSE new[o]]

addSummary(new, old) ==
  [age |-> Max({new.age, old.age}),
   counters |-> addCounters(new.counters, old.counters),
   operations |-> addOperations(new.operations, old.operations)]
diffSummary(new, old) ==
  [age |-> new.age - old.age,
   counters |-> diffCounters(new.counters, old.counters),
   operations |-> diffOperations(new.operations, old.operations)]

\* What mountstats says of the mount p: the statistics of its superblock, and
\* the transport, which is that of every mount of the server.
newSummary(p) ==
  LET sb == kSuper[RemoteFs[p]] IN
  [age |-> kTime - sb.born,
   counters |-> [f \in Fields |-> IF f \in XprtFields THEN kXprt[ServerOf[p]][f]
                                   ELSE sb.counters[f]],
   operations |-> sb.operations]

-----------------------------------------------------------------------------
(* The kernel. *)

\* Its counters start over.
wrap(n) == n % (MaxUint64 + 1)

MountsInit ==
  /\ kTime = 1 /\ kMounted = {} /\ kSuper = <<>> /\ kXprt = <<>> /\ kMounts = 0
  /\ kServed = [s \in Servers |-> [o \in AllOperations |-> 0]]
  /\ sPc = "idle" /\ sIds = <<>> /\ sAgg = <<>> /\ sTodo = {} /\ sPrevious = <<>>
  /\ sOut = <<>> /\ sInfo = kServed /\ sMark = kServed /\ sLimit = kServed
  /\ sScrapes = 0

Tick ==
  /\ kTime < MaxTime
  /\ kTime' = kTime + 1
  /\ UNCHANGED <<kMounted, kSuper, kXprt, kServed, kMounts, scrapeVars>>

Mount(p) ==
  LET fs == RemoteFs[p]
      taken == {kSuper[f].dev : f \in DOMAIN kSuper}
      new == [dev |-> Min(1..Cardinality(FileSystems) \ taken), born |-> kTime,
              counters |-> [f \in SuperFields |-> 0],
              operations |-> [o \in Operations |-> ZeroOp]]
  IN /\ p \notin kMounted /\ kMounts < MaxMounts
     /\ kMounted' = kMounted \cup {p}
     /\ kSuper' = IF fs \in DOMAIN kSuper THEN kSuper ELSE With(kSuper, fs, new)
     /\ kXprt' = IF ServerOf[p] \in DOMAIN kXprt THEN kXprt
                 ELSE With(kXprt, ServerOf[p], [f \in XprtFields |-> 0])
     /\ kMounts' = kMounts + 1
     /\ UNCHANGED <<kTime, kServed, scrapeVars>>

Umount(p) ==
  /\ p \in kMounted
  /\ sPc = "stats" => UmountsInScrape
  /\ kMounted' = kMounted \ {p}
  /\ kSuper' = [f \in {RemoteFs[q] : q \in kMounted \ {p}} |-> kSuper[f]]
  /\ kXprt' = [s \in {ServerOf[q] : q \in kMounted \ {p}} |-> kXprt[s]]
  /\ UNCHANGED <<kTime, kServed, kMounts, scrapeVars>>

\* An operation o; its total time is its RTT, one, and the delay d, which it
\* spends waiting for a slot of the transport.
Serve(p, o, d) ==
  LET sb == kSuper[RemoteFs[p]]
      s == ServerOf[p]
      total == IF o = "READ" THEN "ReadTotal" ELSE "WriteTotal"
      done == [Requests |-> 1, MajorTimeouts |-> 0, BytesSent |-> 1, BytesReceived |-> 1,
               Errors |-> 0, CumulativeTotalResponseMilliseconds |-> 1,
               CumulativeTotalRequestMilliseconds |-> 1 + d]
      counters == [sb.counters EXCEPT ![total] = wrap(@ + 1)]
      operations == [sb.operations EXCEPT ![o] = [f \in OpFields |-> wrap(@[f] + done[f])]]
      xprt == [kXprt[s] EXCEPT !["Sends"] = wrap(@ + 1), !["CumulativeBacklog"] = wrap(@ + d)]
  IN /\ p \in kMounted /\ kServed[s][o] < MaxOps
     /\ kSuper' = [kSuper EXCEPT ![RemoteFs[p]] =
          [sb EXCEPT !.counters = counters, !.operations = operations]]
     /\ kXprt' = [kXprt EXCEPT ![s] = xprt]
     /\ kServed' = [kServed EXCEPT ![s][o] = @ + 1]
     /\ UNCHANGED <<kTime, kMounted, kMounts, scrapeVars>>

-----------------------------------------------------------------------------
(* scraper.go *)

\* findNFSDeviceIDs.  A failure of either file ends the scrape with an error
\* and leaves s.previous.
ReadMountInfo ==
  /\ sPc = "idle" /\ sScrapes < MaxScrapes
  /\ sScrapes' = sScrapes + 1 /\ sOut' = <<>>
  /\ \/ /\ sIds' = [p \in kMounted |-> kSuper[RemoteFs[p]].dev]
        /\ sInfo' = kServed
        /\ sPc' = "stats"
     \/ UNCHANGED <<sIds, sInfo, sPc>>
  /\ UNCHANGED <<kernelVars, sAgg, sTodo, sPrevious, sMark, sLimit>>

\* Mutant: mounts that share a superblock are all counted.
AddMountUnshared(agg, p) ==
  LET s == ServerOf[p]
      grp == IF s \in DOMAIN agg THEN agg[s]
             ELSE [localPaths |-> {}, blockIDs |-> {}, summary |-> ZeroSummary,
                   instance |-> NoInstance]
  IN With(agg, s, [grp EXCEPT !.localPaths = @ \cup {p}, !.blockIDs = @ \cup {sIds[p]},
                     !.summary = addSummary(newSummary(p), @)])

\* The mount p joins its server's group; its statistics are added unless those
\* of its device ID are there already.
AddMount(agg, p) ==
  LET s == ServerOf[p]
      grp == IF s \in DOMAIN agg THEN agg[s]
             ELSE [localPaths |-> {}, blockIDs |-> {}, summary |-> ZeroSummary,
                   instance |-> NoInstance]
      with == [grp EXCEPT !.localPaths = @ \cup {p}]
  IN With(agg, s, IF sIds[p] \in grp.blockIDs THEN with
                  ELSE [with EXCEPT !.blockIDs = @ \cup {sIds[p]},
                          !.summary = addSummary(newSummary(p), @)])

\* aggregateNFSStats, from MountStats on.  A mount that mountinfo did not have
\* is left out.
ReadMountStats ==
  /\ sPc = "stats"
  /\ sIds' = <<>>
  /\ \/ LET agg == FoldSet(LAMBDA p, a : AddMount(a, p), <<>>,
                           {p \in kMounted : p \in DOMAIN sIds})
        IN /\ sAgg' = agg
           /\ sTodo' = IF QueryEnabled THEN DOMAIN agg ELSE {}
           /\ sLimit' = [s \in Servers |->
                         [o \in AllOperations |-> kServed[s][o] - sMark[s][o]]]
           /\ sPc' = "query"
     \/ sPc' = "idle" /\ UNCHANGED <<sAgg, sTodo, sLimit>>
  /\ UNCHANGED <<kernelVars, sPrevious, sOut, sInfo, sMark, sScrapes>>

excluded(s) == s \in ExcludedServers \/ sAgg[s].localPaths \cap ExcludedPaths # {}

previousInstanceName(s) == IF s \in DOMAIN sPrevious THEN sPrevious[s].instance ELSE NoInstance

\* Mutant: an empty name is taken for the answer.
instanceNameEmpty(s, answer) == IF answer = "err" THEN previousInstanceName(s) ELSE answer

\* The name to use when the agent of s answers so.
instanceName(s, answer) ==
  IF answer \in {"err", NoInstance} THEN previousInstanceName(s) ELSE answer

\* queryInstanceNames, for one server.
QueryInstanceName(s) ==
  /\ sPc = "query" /\ s \in sTodo
  /\ sTodo' = sTodo \ {s}
  /\ IF excluded(s) THEN UNCHANGED sAgg
     ELSE \E answer \in AgentAnswers \cup {"err"} :
            sAgg' = [sAgg EXCEPT ![s].instance = instanceName(s, answer)]
  /\ UNCHANGED <<kernelVars, sPc, sIds, sPrevious, sOut, sInfo, sMark, sLimit,
                 sScrapes>>

\* Per operation; rtt is taken from the total of the requests and exe from that
\* of the responses.  Fractions are pairs.
calc(op) ==
  LET per(f) == IF op.Requests > 0 THEN <<op[f], op.Requests>> ELSE <<0, 1>> IN
  [rtt |-> per("CumulativeTotalRequestMilliseconds"),
   exe |-> per("CumulativeTotalResponseMilliseconds")]

hasPrevious(s) == s \in DOMAIN sPrevious /\ sAgg[s].summary.age > sPrevious[s].summary.age

reportDelta(s) ==
  LET old == IF s \in DOMAIN sPrevious THEN sPrevious[s].summary ELSE ZeroSummary
      diff == diffSummary(sAgg[s].summary, old)
      sends == diff.counters["Sends"]
      read == calc(lookup(diff.operations, "READ"))
      write == calc(lookup(diff.operations, "WRITE"))
  IN IF ~hasPrevious(s) THEN <<>>
     ELSE [NfsMountOpsPerSecond |-> <<sends, diff.age>>,
           NfsMountRPCBacklog |->
             IF sends > 0 THEN <<diff.counters["CumulativeBacklog"], sends * diff.age>>
             ELSE <<0, diff.age>>,
           NfsMountReadExe |-> read.exe, NfsMountReadRtt |-> read.rtt,
           NfsMountWriteExe |-> write.exe, NfsMountWriteRtt |-> write.rtt]

\* The values of the metrics without the attribute operation.
report(s) ==
  LET counters == sAgg[s].summary.counters IN
  Joined({[NfsMountReadBytes |-> Int64(counters["ReadTotal"]),
           NfsMountWriteBytes |-> Int64(counters["WriteTotal"])], reportDelta(s)})

reportOperation(op) ==
  [NfsMountOperationRequests |-> Int64(op.Requests),
   NfsMountOperationSentBytes |-> Int64(op.BytesSent),
   NfsMountOperationReceivedBytes |-> Int64(op.BytesReceived),
   NfsMountOperationMajorTimeouts |-> Int64(op.MajorTimeouts),
   NfsMountOperationErrors |-> Int64(op.Errors)]

\* The buffers after a point of server s for each metric in DOMAIN vals; o is the
\* operation, of the metrics that have one.
record(data, s, o, vals) ==
  LET attrs == [server |-> s, instance |-> sAgg[s].instance, operation |-> o] IN
  [m \in DOMAIN data |->
     IF m \in DOMAIN vals
     THEN recordDataPoint(mountsMetrics[m], DefaultMetricConfig(mountsMetrics[m]),
                          data[m], kTime, vals[m], attrs)
     ELSE data[m]]

recordOperations(data, s) ==
  LET ops == sAgg[s].summary.operations IN
  FoldSet(LAMBDA o, d : record(d, s, o, reportOperation(ops[o])), data, DOMAIN ops)

recordServer(data, s) == record(recordOperations(data, s), s, NoInstance, report(s))

recordAll ==
  FoldSet(LAMBDA s, d : recordServer(d, s), [m \in DOMAIN mountsMetrics |-> <<>>], DOMAIN sAgg)

\* The points of all servers, recorded with one timestamp and emitted; then
\* track, which replaces s.previous.  Servers differ, so no points are merged and
\* the averages that emit takes are of one value.
Report ==
  /\ sPc = "query" /\ sTodo = {}
  /\ sOut' = [m \in {n \in DOMAIN mountsMetrics : recordAll[n] # <<>>} |-> recordAll[m]]
  /\ sPrevious' = [s \in DOMAIN sAgg |->
                     [instance |-> sAgg[s].instance, summary |-> sAgg[s].summary]]
  /\ sMark' = sInfo
  /\ sAgg' = <<>> /\ sPc' = "idle"
  /\ UNCHANGED <<kernelVars, sIds, sTodo, sInfo, sLimit, sScrapes>>

Scrape == ReadMountInfo \/ ReadMountStats \/ Report \/ \E s \in Servers : QueryInstanceName(s)

MountsNext ==
  \/ Tick \/ Scrape
  \/ \E p \in MountPaths : Mount(p) \/ Umount(p)
  \/ \E p \in MountPaths, o \in Operations, d \in Delays : Serve(p, o, d)

MountsSpec == MountsInit /\ [][MountsNext]_mountVars

-----------------------------------------------------------------------------
(* Properties. *)

\* The operation that a metric is the average time of.
AveragedOperation ==
  [NfsMountReadExe |-> "READ", NfsMountReadRtt |-> "READ",
   NfsMountWriteExe |-> "WRITE", NfsMountWriteRtt |-> "WRITE"]

\* The times of READs and WRITEs that are reported average operations that were
\* served since the previous scrape looked at the mounts, each counted once, and
\* are zero if there were none, whatever is mounted during a scrape and mounted,
\* re-mounted or unmounted between two: shared statistics are added once
\* (AddMount), and a server without a previous scrape or whose statistics are
\* younger has no rate (reportDelta).  Nothing is divided by zero (calc,
\* reportDelta).  "Where possible the per-operation statistics should be
\* summarised as these will give the correct value" (docs/known-issues.md:97); of
\* the transports' operations per second only the period is claimed to be right.
RatesHonest ==
  /\ \A m \in DOMAIN AveragedOperation \cap DOMAIN sOut : \A i \in DOMAIN sOut[m] :
       LET p == sOut[m][i] IN
         /\ p.val[2] > 0
         /\ \/ p.val = <<0, 1>>
            \/ p.val[2] <= sLimit[p.attributes["server"]][AveragedOperation[m]]
  /\ "NfsMountOpsPerSecond" \in DOMAIN sOut =>
       \A i \in DOMAIN sOut["NfsMountOpsPerSecond"] :
         sOut["NfsMountOpsPerSecond"][i].val[2] > 0

\* A server that is in two successive reports does not lose its instance name
\* when its agent fails, or answers with an empty name because a concurrent
\* request is failing (queryInstanceNames keeps the previous name).
LabelsStable ==
  [][sPc = "query" /\ sPc' = "idle" =>
       \A s \in DOMAIN sPrevious \cap DOMAIN sPrevious' :
         sPrevious[s].instance # NoInstance /\ ~excluded(s) =>
           sPrevious'[s].instance # NoInstance]_mountVars

\* read_rtt is the round trip time of a READ and read_exe the time from its
\* request to its completion (deployment/docs/metrics.md:37-40), so the first is
\* at most the second.
RttWithinExe ==
  "NfsMountReadRtt" \in DOMAIN sOut =>
    \A i \in DOMAIN sOut["NfsMountReadRtt"] :
      sOut["NfsMountReadRtt"][i].val[1] <= sOut["NfsMountReadExe"][i].val[1]
=============================================================================
