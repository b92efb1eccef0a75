---------------------------- MODULE MountsProofs ----------------------------
(***************************************************************************)
(* Proofs about the receiver mounts of knfsd-metrics-agent, for any number *)
(* of mounts, servers, operations and scrapes: times are averages of       *)
(* operations that were served, and a server keeps its name.               *)
(*                                                                         *)
(* Loops over maps are folds of the model; each has a table of its rounds  *)
(* over the subsets of the map's keys, and proofs about it go from a       *)
(* subset to one with a key more (SubsetInduction).                        *)
(***************************************************************************)
EXTENDS MountStats, SumLemmas

-----------------------------------------------------------------------------
(* The receiver mounts: what a scrape reads. *)

\* Functions from some of D to R.
Partial(D, R) == UNION {[d -> R] : d \in SUBSET D}

OpStats == [OpFields -> 0..MaxUint64]
Summaries ==
  [age : Int, counters : [Fields -> Nat], operations : Partial(Operations, OpStats)]
Names == AgentAnswers \cup {NoInstance}
ServerGroups(names) ==
  [localPaths : SUBSET MountPaths, blockIDs : SUBSET Nat, summary : Summaries, instance : names]
Aggregates(names) == Partial(Servers, ServerGroups(names))
Superblocks ==
  [dev : Nat, born : Int, counters : [SuperFields -> Nat], operations : [Operations -> OpStats]]
Xprts == [XprtFields -> Nat]
Counts == [Servers -> [AllOperations -> Nat]]

\* The file systems of server s that paths are mounts of.
FsOf(paths, s) == {RemoteFs[p] : p \in {q \in paths : ServerOf[q] = s}}

\* The requests for o in a summary, and those that the superblocks count.
Count(summary, o) == lookup(summary.operations, o).Requests
Requests(super, o) == [f \in DOMAIN super |-> Count(super[f], o)]

\* A partial function has its domain in D and its values in R.
LEMMA PartialIs ==
  ASSUME NEW D, NEW R, NEW f
  PROVE  f \in Partial(D, R) <=> DOMAIN f \in SUBSET D /\ f \in [DOMAIN f -> R]
<1>1. ASSUME f \in Partial(D, R) PROVE DOMAIN f \in SUBSET D /\ f \in [DOMAIN f -> R]
  <2>1. PICK d \in SUBSET D : f \in [d -> R]
    BY <1>1, Zenon DEF Partial
  <2>2. DOMAIN f = d
    BY <2>1
  <2> QED BY <2>1, <2>2
<1> QED BY <1>1, Zenon DEF Partial

\* The empty map of a first scrape is one.
LEMMA PartialEmpty ==
  ASSUME NEW D, NEW R
  PROVE  <<>> \in Partial(D, R) /\ DOMAIN << >> = {}
<1>1. DOMAIN << >> = {} /\ << >> \in [{} -> R]
  OBVIOUS
<1> QED BY <1>1, Zenon DEF Partial

\* Setting an entry of a map gives one, and leaves the other entries.
LEMMA PartialWith ==
  ASSUME NEW D, NEW R, NEW f \in Partial(D, R), NEW k \in D, NEW v \in R
  PROVE  /\ With(f, k, v) \in Partial(D, R)
         /\ DOMAIN With(f, k, v) = DOMAIN f \cup {k}
         /\ With(f, k, v)[k] = v
         /\ \A x \in DOMAIN f \ {k} : With(f, k, v)[x] = f[x]
<1>1. DOMAIN f \in SUBSET D /\ f \in [DOMAIN f -> R]
  BY PartialIs, Zenon
<1>2. /\ DOMAIN With(f, k, v) = DOMAIN f \cup {k}
      /\ With(f, k, v)[k] = v
      /\ \A x \in DOMAIN f \ {k} : With(f, k, v)[x] = f[x]
      /\ With(f, k, v) \in [DOMAIN f \cup {k} -> R]
  BY <1>1 DEF With
<1>3. With(f, k, v) \in Partial(D, R)
  <2>1. DOMAIN f \cup {k} \in SUBSET D
    BY <1>1
  <2> QED BY <1>2, <2>1, Zenon DEF Partial
<1> QED BY <1>2, <1>3, Zenon

-----------------------------------------------------------------------------
\* add is the sum, cut off.
LEMMA AddIs ==
  ASSUME NEW x \in Nat, NEW y \in Nat
  PROVE  /\ add(x, y) \in Nat /\ add(x, y) <= MaxUint64
         /\ add(x, y) = IF x + y >= MaxUint64 THEN MaxUint64 ELSE x + y
BY MountStatsAssumption DEF add

\* sub is the difference, and stops at zero.
LEMMA SubIs ==
  ASSUME NEW x \in Nat, NEW y \in Nat
  PROVE  /\ sub(x, y) \in Nat /\ sub(x, y) = IF x > y THEN x - y ELSE 0
BY DEF sub

\* The age that addSummary keeps is an age.
LEMMA MaxOfTwo ==
  ASSUME NEW x \in Int, NEW y \in Int
  PROVE  Max({x, y}) \in Int
<1>1. \E m \in {x, y} : \A z \in {x, y} : z <= m
  OBVIOUS
<1>2. Max({x, y}) \in {x, y}
  BY <1>1, Zenon DEF Max
<1> QED BY <1>2

\* addOperation adds field by field.
LEMMA OperationAdded ==
  ASSUME NEW new \in OpStats, NEW old \in OpStats
  PROVE  /\ addOperation(new, old) \in OpStats
         /\ addOperation(new, old).Requests = add(new.Requests, old.Requests)
<1>1. \A f \in OpFields : new[f] \in Nat /\ old[f] \in Nat
  BY MountStatsAssumption DEF OpStats
<1>2. \A f \in OpFields : add(new[f], old[f]) \in 0..MaxUint64
  <2>1. \A x \in Nat, y \in Nat : add(x, y) \in Nat /\ add(x, y) <= MaxUint64
    BY AddIs
  <2>2. \A x \in Nat, y \in Nat : add(x, y) \in 0..MaxUint64
    BY <2>1, MountStatsAssumption
  <2> QED BY <1>1, <2>2, Zenon
<1>3. "Requests" \in OpFields
  BY DEF OpFields
<1> QED BY <1>2, <1>3 DEF addOperation, OpStats

\* There are no requests for an operation that is not there.
LEMMA ZeroOpIs == ZeroOp \in OpStats /\ ZeroOp.Requests = 0
BY MountStatsAssumption DEF ZeroOp, OpStats, OpFields

\* lookup finds statistics, and requests that a counter can have.
LEMMA LookupIs ==
  ASSUME NEW ops \in Partial(Operations, OpStats), NEW o
  PROVE  /\ lookup(ops, o) \in OpStats
         /\ lookup(ops, o).Requests \in Nat /\ lookup(ops, o).Requests <= MaxUint64
<1>1. ops \in [DOMAIN ops -> OpStats]
  BY PartialIs, Zenon
<1>2. lookup(ops, o) \in OpStats
  BY <1>1, ZeroOpIs DEF lookup
<1> DEFINE op == lookup(ops, o)
<1> HIDE DEF op
<1>3. op \in OpStats
  BY <1>2, Zenon DEF op
<1>4. op.Requests \in Nat /\ op.Requests <= MaxUint64
  BY <1>3, MountStatsAssumption DEF OpStats, OpFields
<1> QED BY <1>2, <1>4, Zenon DEF op

\* addOperations merges two maps of operations, and adds the requests for each.
LEMMA OperationsAdded ==
  ASSUME NEW new \in Partial(Operations, OpStats), NEW old \in Partial(Operations, OpStats)
  PROVE  /\ addOperations(new, old) \in Partial(Operations, OpStats)
         /\ \A o : lookup(addOperations(new, old), o).Requests
                    = add(lookup(new, o).Requests, lookup(old, o).Requests)
<1>1. /\ DOMAIN new \in SUBSET Operations /\ new \in [DOMAIN new -> OpStats]
      /\ DOMAIN old \in SUBSET Operations /\ old \in [DOMAIN old -> OpStats]
  BY PartialIs, Zenon
<1>2. \A o : lookup(new, o) \in OpStats /\ lookup(old, o) \in OpStats
  BY LookupIs, Zenon
<1> DEFINE sum == addOperations(new, old)
           D == DOMAIN new \cup DOMAIN old
<1>3. /\ DOMAIN sum = D
      /\ \A o \in D : sum[o] = IF o \in DOMAIN old THEN addOperation(lookup(new, o), old[o])
                               ELSE new[o]
  BY Zenon DEF addOperations
<1>a. sum = [o \in D |-> sum[o]]
  BY Zenon DEF addOperations
<1> HIDE DEF sum
<1>4. ASSUME NEW o \in D
      PROVE  /\ sum[o] \in OpStats
             /\ sum[o].Requests = add(lookup(new, o).Requests, lookup(old, o).Requests)
  <2>1. CASE o \in DOMAIN old
    <3>1. old[o] \in OpStats /\ lookup(old, o) = old[o]
      BY <1>1, <2>1 DEF lookup
    <3>2. sum[o] = addOperation(lookup(new, o), old[o])
      BY <1>3, <2>1, Zenon
    <3>3. lookup(new, o) \in OpStats
      BY <1>2, Zenon
    <3>4. /\ addOperation(lookup(new, o), old[o]) \in OpStats
          /\ addOperation(lookup(new, o), old[o]).Requests
               = add(lookup(new, o).Requests, old[o].Requests)
      BY <3>1, <3>3, OperationAdded
    <3> QED BY <3>1, <3>2, <3>4
  <2>2. CASE o \notin DOMAIN old
    <3>1. o \in DOMAIN new /\ sum[o] = new[o]
      BY <1>3, <1>4, <2>2, Zenon
    <3>2. lookup(new, o) = new[o] /\ lookup(old, o) = ZeroOp
      BY <2>2, <3>1, Zenon DEF lookup
    <3>3. new[o] \in OpStats
      BY <1>1, <3>1
    <3> DEFINE n == new[o].Requests
    <3>4. n \in Nat /\ n <= MaxUint64
      BY <3>2, LookupIs, Zenon
    <3> HIDE DEF n
    <3>5. add(n, 0) = n
      BY <3>4, MountStatsAssumption DEF add
    <3> QED BY <3>1, <3>2, <3>3, <3>5, ZeroOpIs, Zenon DEF n
  <2> QED BY <2>1, <2>2
<1>5. sum \in Partial(Operations, OpStats)
  <2>1. sum \in [D -> OpStats]
    BY <1>4, <1>a, Zenon
  <2>2. D \in SUBSET Operations
    BY <1>1
  <2> HIDE DEF D
  <2> QED BY <2>1, <2>2, Zenon DEF Partial
<1>6. ASSUME NEW o
      PROVE  lookup(sum, o).Requests = add(lookup(new, o).Requests, lookup(old, o).Requests)
  <2>1. CASE o \in D
    BY <1>3, <1>4, <2>1, Zenon DEF lookup
  <2>2. CASE o \notin D
    <3>1. lookup(new, o) = ZeroOp /\ lookup(old, o) = ZeroOp /\ lookup(sum, o) = ZeroOp
      BY <1>3, <2>2, Zenon DEF lookup
    <3>2. add(0, 0) = 0
      BY MountStatsAssumption DEF add
    <3> QED BY <3>1, <3>2, ZeroOpIs, Zenon
  <2> QED BY <2>1, <2>2
<1> QED BY <1>5, <1>6, Zenon DEF sum

\* addSummary adds two summaries; their requests add up, cut off.
LEMMA SummaryAdded ==
  ASSUME NEW new \in Summaries, NEW old \in Summaries
  PROVE  /\ addSummary(new, old) \in Summaries
         /\ \A o : Count(addSummary(new, old), o) = add(Count(new, o), Count(old, o))
<1>1. /\ new.age \in Int /\ old.age \in Int
      /\ new.counters \in [Fields -> Nat] /\ old.counters \in [Fields -> Nat]
      /\ new.operations \in Partial(Operations, OpStats)
      /\ old.operations \in Partial(Operations, OpStats)
  BY DEF Summaries
<1>2. \A f \in Fields : new.counters[f] \in Nat /\ old.counters[f] \in Nat
  BY <1>1
<1>3. \A f \in Fields : add(new.counters[f], old.counters[f]) \in Nat
  BY <1>2, AddIs
<1>4. addCounters(new.counters, old.counters) \in [Fields -> Nat]
  BY <1>3, Zenon DEF addCounters
<1>5. /\ addOperations(new.operations, old.operations) \in Partial(Operations, OpStats)
      /\ \A o : lookup(addOperations(new.operations, old.operations), o).Requests
                 = add(Count(new, o), Count(old, o))
  BY <1>1, OperationsAdded, Zenon DEF Count
<1>6. Max({new.age, old.age}) \in Int
  BY <1>1, MaxOfTwo, Zenon
<1> DEFINE a == Max({new.age, old.age})
           c == addCounters(new.counters, old.counters)
           ops == addOperations(new.operations, old.operations)
<1>7. addSummary(new, old) = [age |-> a, counters |-> c, operations |-> ops]
  BY Zenon DEF addSummary
<1> HIDE DEF a, c, ops
<1>8. addSummary(new, old) \in Summaries /\ addSummary(new, old).operations = ops
  <2>1. a \in Int /\ c \in [Fields -> Nat] /\ ops \in Partial(Operations, OpStats)
    BY <1>4, <1>5, <1>6, Zenon DEF a, c, ops
  <2> QED BY <1>7, <2>1 DEF Summaries
<1> QED BY <1>5, <1>8, Zenon DEF Count, ops

-----------------------------------------------------------------------------
(* The maps agg of a scrape. *)

KernelTyped ==
  /\ kTime \in Int /\ kMounted \in SUBSET MountPaths
  /\ kSuper \in [{RemoteFs[p] : p \in kMounted} -> Superblocks]
  /\ kXprt \in [{ServerOf[p] : p \in kMounted} -> Xprts]
  /\ kServed \in Counts

Newcomer == [localPaths |-> {}, blockIDs |-> {}, summary |-> ZeroSummary, instance |-> NoInstance]
GroupOf(agg, s) == IF s \in DOMAIN agg THEN agg[s] ELSE Newcomer

\* The group of server s once the mount p is in it.
Joining(agg, p) ==
  LET with == [GroupOf(agg, ServerOf[p]) EXCEPT !.localPaths = @ \cup {p}]
  IN IF sIds[p] \in GroupOf(agg, ServerOf[p]).blockIDs THEN with
     ELSE [with EXCEPT !.blockIDs = @ \cup {sIds[p]},
             !.summary = addSummary(newSummary(p), @)]

\* newSummary of a mount has the operations of its superblock.
LEMMA SummaryRead ==
  ASSUME KernelTyped, NEW p \in kMounted
  PROVE  /\ RemoteFs[p] \in DOMAIN kSuper /\ kSuper[RemoteFs[p]] \in Superblocks
         /\ newSummary(p) \in Summaries
         /\ \A o : /\ Count(newSummary(p), o) = Requests(kSuper, o)[RemoteFs[p]]
                   /\ Requests(kSuper, o)[RemoteFs[p]] \in Nat
<1> DEFINE sb == kSuper[RemoteFs[p]]
           xprt == kXprt[ServerOf[p]]
<1>1. RemoteFs[p] \in DOMAIN kSuper /\ sb \in Superblocks /\ xprt \in Xprts
  BY DEF KernelTyped
<1>2. \A o : Requests(kSuper, o)[RemoteFs[p]] = Count(sb, o)
  BY <1>1, Zenon DEF Requests
<1> DEFINE c == [f \in Fields |-> IF f \in XprtFields THEN xprt[f] ELSE sb.counters[f]]
<1>a. newSummary(p) = [age |-> kTime - sb.born, counters |-> c, operations |-> sb.operations]
  BY Zenon DEF newSummary
<1> HIDE DEF sb, xprt
<1>3. /\ sb.born \in Int /\ sb.counters \in [SuperFields -> Nat]
      /\ sb.operations \in [Operations -> OpStats]
  BY <1>1 DEF Superblocks
<1>4. sb.operations \in Partial(Operations, OpStats)
  BY <1>3, Zenon DEF Partial
<1>5. kTime - sb.born \in Int
  BY <1>3 DEF KernelTyped
<1>b. c \in [Fields -> Nat]
  BY <1>1, <1>3 DEF Xprts, Fields
<1> HIDE DEF c
<1>6. newSummary(p) \in Summaries /\ newSummary(p).operations = sb.operations
  BY <1>3, <1>4, <1>5, <1>a, <1>b DEF Summaries
<1>7. \A o : Count(sb, o) \in Nat
  BY <1>4, LookupIs, Zenon DEF Count
<1> QED BY <1>1, <1>2, <1>6, <1>7, Zenon DEF sb, Count

\* The step of the loop over mountstats sets the group of one server.
LEMMA AddMountIs ==
  ASSUME NEW agg, NEW p
  PROVE  AddMount(agg, p) = With(agg, ServerOf[p], Joining(agg, p))
BY Zenon DEF AddMount, Joining, GroupOf, Newcomer

\* The group of a server is a group, a new one included.
LEMMA GroupTyped ==
  ASSUME NEW agg \in Aggregates({NoInstance}), NEW s
  PROVE  GroupOf(agg, s) \in ServerGroups({NoInstance})
<1>1. CASE s \in DOMAIN agg
  <2>1. agg \in [DOMAIN agg -> ServerGroups({NoInstance})]
    BY PartialIs, Zenon DEF Aggregates
  <2> QED BY <1>1, <2>1 DEF GroupOf
<1>2. CASE s \notin DOMAIN agg
  <2>1. ZeroSummary \in Summaries
    <3>1. <<>> \in Partial(Operations, OpStats)
      BY PartialEmpty, Zenon
    <3> DEFINE none == <<>>
    <3>2. ZeroSummary = [age |-> 0, counters |-> [f \in Fields |-> 0], operations |-> none]
      BY Zenon DEF ZeroSummary
    <3> HIDE DEF none
    <3>3. none \in Partial(Operations, OpStats)
      BY <3>1, Zenon DEF none
    <3> QED BY <3>2, <3>3 DEF Summaries
  <2>2. Newcomer \in ServerGroups({NoInstance})
    BY <2>1 DEF Newcomer, ServerGroups
  <2> QED BY <1>2, <2>2, Zenon DEF GroupOf
<1> QED BY <1>1, <1>2

\* A mount joins a group: its device ID is noted, and its statistics are added
\* unless its device ID was there.
LEMMA JoiningIs ==
  ASSUME KernelTyped, NEW agg \in Aggregates({NoInstance}), NEW p \in kMounted, sIds[p] \in Nat
  PROVE  /\ Joining(agg, p) \in ServerGroups({NoInstance})
         /\ Joining(agg, p).blockIDs = GroupOf(agg, ServerOf[p]).blockIDs \cup {sIds[p]}
         /\ Joining(agg, p).summary =
              IF sIds[p] \in GroupOf(agg, ServerOf[p]).blockIDs
              THEN GroupOf(agg, ServerOf[p]).summary
              ELSE addSummary(newSummary(p), GroupOf(agg, ServerOf[p]).summary)
<1> DEFINE grp == GroupOf(agg, ServerOf[p])
           new == newSummary(p)
           sum == addSummary(new, grp.summary)
<1>1. grp \in ServerGroups({NoInstance})
  BY GroupTyped, Zenon
<1>2. Joining(agg, p) =
        IF sIds[p] \in grp.blockIDs THEN [grp EXCEPT !.localPaths = @ \cup {p}]
        ELSE [[grp EXCEPT !.localPaths = @ \cup {p}] EXCEPT !.blockIDs = @ \cup {sIds[p]},
                !.summary = addSummary(new, @)]
  BY Zenon DEF Joining
<1>3. new \in Summaries /\ p \in MountPaths
  BY SummaryRead, Zenon DEF KernelTyped
<1> HIDE DEF grp, new
<1>4. grp.summary \in Summaries
  BY <1>1 DEF ServerGroups
<1>5. sum \in Summaries
  BY <1>3, <1>4, SummaryAdded, Zenon
<1>6. [[grp EXCEPT !.localPaths = @ \cup {p}] EXCEPT !.blockIDs = @ \cup {sIds[p]},
                !.summary = addSummary(new, @)]
      = [[grp EXCEPT !.localPaths = @ \cup {p}] EXCEPT !.blockIDs = @ \cup {sIds[p]},
                !.summary = sum]
  <2>1. [grp EXCEPT !.localPaths = @ \cup {p}].summary = grp.summary
    BY <1>1 DEF ServerGroups
  <2> QED BY <1>1, <2>1 DEF ServerGroups
<1> HIDE DEF sum
<1>7. CASE sIds[p] \in grp.blockIDs
  BY <1>1, <1>2, <1>3, <1>7 DEF ServerGroups, grp
<1>8. CASE sIds[p] \notin grp.blockIDs
  <2> DEFINE j == [[grp EXCEPT !.localPaths = @ \cup {p}] EXCEPT !.blockIDs = @ \cup {sIds[p]},
                     !.summary = sum]
  <2>1. Joining(agg, p) = j
    BY <1>2, <1>6, <1>8, Zenon
  <2>2. /\ j \in ServerGroups({NoInstance}) /\ j.blockIDs = grp.blockIDs \cup {sIds[p]}
        /\ j.summary = sum
    BY <1>1, <1>3, <1>5 DEF ServerGroups
  <2> HIDE DEF j
  <2> QED BY <1>8, <2>1, <2>2, Zenon DEF grp, sum, new
<1> QED BY <1>7, <1>8

\* What is read of the mounts S, in the order of a fold.
MountsFold(S) == FoldSet(LAMBDA p, a : AddMount(a, p), <<>>, S)

\* S are mounts that mountinfo had.
Readable(S) == S \in SUBSET kMounted /\ \A p \in S : sIds[p] \in Nat

\* The loop keeps the map well typed.
LEMMA AddMountTyped ==
  ASSUME KernelTyped, NEW agg \in Aggregates({NoInstance}), NEW p \in kMounted, sIds[p] \in Nat
  PROVE  AddMount(agg, p) \in Aggregates({NoInstance})
<1>1. ServerOf[p] \in Servers
  BY Zenon DEF KernelTyped, Servers
<1>2. Joining(agg, p) \in ServerGroups({NoInstance})
  BY JoiningIs, Zenon
<1>3. With(agg, ServerOf[p], Joining(agg, p)) \in Aggregates({NoInstance})
  BY <1>1, <1>2, PartialWith, Zenon DEF Aggregates
<1> QED BY <1>3, AddMountIs, Zenon

\* What the loop reads of the mounts S is made one mount at a time.
LEMMA MountsFoldSteps ==
  ASSUME KernelTyped, NEW S, Readable(S)
  PROVE  /\ IsFiniteSet(S)
         /\ \E h : /\ MountsFold(S) = h[S] /\ h[{}] = <<>>
                   /\ \A s \in SUBSET S : s # {} =>
                        h[s] = AddMount(h[s \ {First(s)}], First(s))
<1> DEFINE A == Aggregates({NoInstance})
           step == [x \in S \X A |-> AddMount(x[2], x[1])]
           F == CHOOSE f : f = [s \in SUBSET S |->
                  IF s = {} THEN <<>> ELSE AddMount(f[s \ {First(s)}], First(s))]
<1>1. MountsFold(S) = F[S]
  BY Zenon DEF MountsFold, FoldSet, MapThenFoldSet, First
<1>2. IsFiniteSet(S)
  BY MountStatsAssumption, FS_Subset DEF Readable, KernelTyped
<1>3. <<>> \in A
  BY PartialEmpty, Zenon DEF Aggregates
<1>4. \A p \in S, a \in A : AddMount(a, p) \in A
  BY AddMountTyped, Zenon DEF Readable
<1> HIDE DEF A, F
<1>5. step \in [S \X A -> A]
  <2>1. \A x \in S \X A : x[1] \in S /\ x[2] \in A
    OBVIOUS
  <2> QED BY <1>4, <2>1, Zenon
<1>6. \A p \in S, a \in A : step[p, a] = AddMount(a, p)
  BY Zenon
<1> HIDE DEF step
<1>7. PICK k \in [SUBSET S -> A] : IsFold(k, S, <<>>, step)
  BY <1>2, <1>3, <1>5, FoldExists, Zenon
<1>8. ASSUME NEW s \in SUBSET S
      PROVE  Folded(k, <<>>, step, s) =
               IF s = {} THEN <<>> ELSE AddMount(k[s \ {First(s)}], First(s))
  <2>1. CASE s = {}
    BY <2>1, Zenon DEF Folded
  <2>2. CASE s # {}
    <3>1. First(s) \in S /\ s \ {First(s)} \in SUBSET S
      BY <1>2, <2>2, SmallerSet
    <3>2. k[s \ {First(s)}] \in A
      BY <3>1
    <3> QED BY <1>6, <2>2, <3>1, <3>2, Zenon DEF Folded
  <2> QED BY <2>1, <2>2
<1>9. k = [s \in SUBSET S |-> IF s = {} THEN <<>> ELSE AddMount(k[s \ {First(s)}], First(s))]
  BY <1>7, <1>8, Zenon DEF IsFold
<1>10. F = [s \in SUBSET S |-> IF s = {} THEN <<>> ELSE AddMount(F[s \ {First(s)}], First(s))]
  BY <1>9, Zenon DEF F
<1>11. F[{}] = <<>>
  <2>1. {} \in SUBSET S
    OBVIOUS
  <2> QED BY <1>10, <2>1, Zenon
<1>12. \A s \in SUBSET S : s # {} => F[s] = AddMount(F[s \ {First(s)}], First(s))
  BY <1>10, Zenon
<1> QED BY <1>1, <1>2, <1>11, <1>12, Zenon

\* What a scrape reads is well typed, and the names are yet to be asked for.
LEMMA MountsFoldTyped ==
  ASSUME KernelTyped, NEW S, Readable(S)
  PROVE  MountsFold(S) \in Aggregates({NoInstance})
<1> DEFINE A == Aggregates({NoInstance})
<1>1. IsFiniteSet(S)
  BY MountsFoldSteps, Zenon
<1>2. PICK h : /\ MountsFold(S) = h[S] /\ h[{}] = <<>>
               /\ \A s \in SUBSET S : s # {} => h[s] = AddMount(h[s \ {First(s)}], First(s))
  BY MountsFoldSteps, Zenon
<1> DEFINE Q == {s \in SUBSET S : h[s] \in A}
<1>3. {} \in Q
  BY <1>2, PartialEmpty, Zenon DEF Aggregates
<1>4. ASSUME NEW s \in SUBSET S, s # {}, s \ {First(s)} \in Q
      PROVE  s \in Q
  <2>1. First(s) \in S
    BY <1>1, <1>4, SmallerSet
  <2>2. First(s) \in kMounted /\ sIds[First(s)] \in Nat
    BY <2>1, Zenon DEF Readable
  <2>3. h[s \ {First(s)}] \in A
    BY <1>4, Zenon
  <2>4. AddMount(h[s \ {First(s)}], First(s)) \in A
    BY <2>2, <2>3, AddMountTyped, Zenon
  <2> QED BY <1>2, <1>4, <2>4, Zenon
<1> HIDE DEF A
<1>5. \A s \in SUBSET S : s \in Q
  <2> HIDE DEF Q
  <2> QED BY <1>1, <1>3, <1>4, SubsetInduction, Zenon
<1>6. S \in Q
  BY <1>5, Zenon
<1> QED BY <1>2, <1>6, Zenon DEF A

-----------------------------------------------------------------------------
(* What the statistics of a server add up to. *)

\* A sum as the counters have it.
Cut(n) == IF n >= MaxUint64 THEN MaxUint64 ELSE n

\* Device IDs tell superblocks apart, and those of a scrape are still right.
DevicesApart == \A f, g \in DOMAIN kSuper : kSuper[f].dev = kSuper[g].dev => f = g
Matching(S) == \A p \in S : sIds[p] = kSuper[RemoteFs[p]].dev

\* The IDs of the mounts Q of server s.
IdsOf(Q, s) == {sIds[p] : p \in {q \in Q : ServerOf[q] = s}}

\* The group has the statistics of the mounts Q of server s, each superblock once.
GroupCovers(grp, Q, s) ==
  /\ grp.blockIDs = IdsOf(Q, s)
  /\ \A o : Count(grp.summary, o) = Cut(Total(Requests(kSuper, o), FsOf(Q, s)))
Covers(agg, Q) ==
  /\ DOMAIN agg = {ServerOf[p] : p \in Q}
  /\ \A s \in DOMAIN agg : GroupCovers(agg[s], Q, s)

\* The requests that the mounts Q of a server have made have a sum.
LEMMA FsOfIs ==
  ASSUME KernelTyped, NEW Q \in SUBSET kMounted, NEW s, NEW o
  PROVE  /\ IsFiniteSet(FsOf(Q, s)) /\ FsOf(Q, s) \in SUBSET DOMAIN kSuper
         /\ \A f \in FsOf(Q, s) : Requests(kSuper, o)[f] \in Nat
         /\ Total(Requests(kSuper, o), FsOf(Q, s)) \in Nat
<1>1. IsFiniteSet({q \in Q : ServerOf[q] = s})
  BY MountStatsAssumption, FS_Subset DEF KernelTyped
<1>2. IsFiniteSet(FsOf(Q, s))
  <2> DEFINE T == {q \in Q : ServerOf[q] = s}
             img == [q \in T |-> RemoteFs[q]]
  <2>1. FsOf(Q, s) = {RemoteFs[q] : q \in T}
    BY Zenon DEF FsOf
  <2>2. IsFiniteSet(T)
    BY <1>1, Zenon
  <2> HIDE DEF T
  <2>3. IsFiniteSet({RemoteFs[q] : q \in T})
    <3>1. img \in Surjection(T, {RemoteFs[q] : q \in T})
      BY DEF Surjection
    <3> QED BY <2>2, <3>1, FS_Surjection, Zenon
  <2> QED BY <2>1, <2>3, Zenon
<1>3. \A f \in FsOf(Q, s) : f \in DOMAIN kSuper /\ Requests(kSuper, o)[f] \in Nat
  <2>1. \A p \in Q : RemoteFs[p] \in DOMAIN kSuper /\ Requests(kSuper, o)[RemoteFs[p]] \in Nat
    BY SummaryRead, Zenon
  <2> QED BY <2>1, Zenon DEF FsOf
<1>4. Total(Requests(kSuper, o), FsOf(Q, s)) \in Nat
  BY <1>2, <1>3, TotalNat
<1> QED BY <1>2, <1>3, <1>4, Zenon

\* One mount more of a server adds its file system and its device ID.
LEMMA FsOfMore ==
  ASSUME NEW Q, NEW p
  PROVE  /\ FsOf(Q \cup {p}, ServerOf[p]) = FsOf(Q, ServerOf[p]) \cup {RemoteFs[p]}
         /\ IdsOf(Q \cup {p}, ServerOf[p]) = IdsOf(Q, ServerOf[p]) \cup {sIds[p]}
<1> DEFINE s == ServerOf[p]
<1>1. {q \in Q \cup {p} : ServerOf[q] = s} = {q \in Q : ServerOf[q] = s} \cup {p}
  OBVIOUS
<1> QED BY <1>1 DEF FsOf, IdsOf

\* It adds nothing to the other servers.
LEMMA FsOfOther ==
  ASSUME NEW Q, NEW p, NEW s, s # ServerOf[p]
  PROVE  FsOf(Q \cup {p}, s) = FsOf(Q, s) /\ IdsOf(Q \cup {p}, s) = IdsOf(Q, s)
<1>1. {q \in Q \cup {p} : ServerOf[q] = s} = {q \in Q : ServerOf[q] = s}
  OBVIOUS
<1> QED BY <1>1, Zenon DEF FsOf, IdsOf

\* A device ID was seen just if its superblock was.
LEMMA SeenById ==
  ASSUME KernelTyped, DevicesApart, NEW Q \in SUBSET kMounted, NEW p \in kMounted,
         Matching(Q \cup {p})
  PROVE  sIds[p] \in IdsOf(Q, ServerOf[p]) <=> RemoteFs[p] \in FsOf(Q, ServerOf[p])
<1>1. \A q \in Q \cup {p} : RemoteFs[q] \in DOMAIN kSuper
  BY SummaryRead
<1>2. \A q \in Q : sIds[p] = sIds[q] <=> RemoteFs[p] = RemoteFs[q]
  BY <1>1 DEF Matching, DevicesApart
<1> QED BY <1>2, Zenon DEF IdsOf, FsOf

\* Adding to a sum that was cut off is cutting off the sum.
LEMMA CutAdd ==
  ASSUME NEW x \in Nat, NEW n \in Nat
  PROVE  Cut(n) \in Nat /\ add(x, Cut(n)) = Cut(x + n)
<1>1. MaxUint64 \in Nat
  BY MountStatsAssumption
<1>2. Cut(n) \in Nat
  BY <1>1 DEF Cut
<1>3. add(x, Cut(n)) = IF x + Cut(n) >= MaxUint64 THEN MaxUint64 ELSE x + Cut(n)
  BY <1>2, AddIs
<1> QED BY <1>1, <1>2, <1>3 DEF Cut

\* The group of a server without mounts so far is zero.
LEMMA NewcomerCovers ==
  ASSUME NEW Q, NEW s, s \notin {ServerOf[p] : p \in Q}
  PROVE  GroupCovers(Newcomer, Q, s)
<1>1. FsOf(Q, s) = {} /\ IdsOf(Q, s) = {}
  BY DEF FsOf, IdsOf
<1>2. \A o : Total(Requests(kSuper, o), {}) = 0
  BY TotalEmpty
<1>3. Cut(0) = 0
  BY MountStatsAssumption DEF Cut
<1>4. Newcomer.blockIDs = {} /\ Newcomer.summary = ZeroSummary
  BY DEF Newcomer
<1>5. ZeroSummary.operations = << >> /\ DOMAIN << >> = {}
  BY DEF ZeroSummary
<1>6. \A o : Count(ZeroSummary, o) = 0
  BY <1>5, ZeroOpIs, Zenon DEF Count, lookup
<1> QED BY <1>1, <1>2, <1>3, <1>4, <1>6, Zenon DEF GroupCovers

\* A mount that joins a group that has each superblock once leaves it so: the
\* device ID tells whether the superblock was counted.
LEMMA JoiningCovers ==
  ASSUME KernelTyped, DevicesApart, NEW agg \in Aggregates({NoInstance}),
         NEW Q \in SUBSET kMounted, NEW p \in kMounted, sIds[p] \in Nat,
         Matching(Q \cup {p}), Covers(agg, Q)
  PROVE  GroupCovers(Joining(agg, p), Q \cup {p}, ServerOf[p])
<1> DEFINE s == ServerOf[p]
           grp == GroupOf(agg, s)
           f == RemoteFs[p]
           new == newSummary(p)
           T == FsOf(Q, s)
           j == Joining(agg, p)
<1>1. GroupCovers(grp, Q, s)
  BY NewcomerCovers, Zenon DEF Covers, GroupOf
<1>2. /\ j.blockIDs = grp.blockIDs \cup {sIds[p]}
      /\ j.summary = IF sIds[p] \in grp.blockIDs THEN grp.summary ELSE addSummary(new, grp.summary)
  BY JoiningIs, Zenon
<1>3. grp.summary \in Summaries
  <2>1. grp \in ServerGroups({NoInstance})
    BY GroupTyped, Zenon
  <2> HIDE DEF grp
  <2> QED BY <2>1 DEF ServerGroups
<1>4. new \in Summaries
  BY SummaryRead, Zenon
<1>5. FsOf(Q \cup {p}, s) = T \cup {f} /\ IdsOf(Q \cup {p}, s) = IdsOf(Q, s) \cup {sIds[p]}
  BY FsOfMore, Zenon
<1>6. sIds[p] \in IdsOf(Q, s) <=> f \in T
  BY SeenById, Zenon
<1>7. grp.blockIDs = IdsOf(Q, s)
  BY <1>1, Zenon DEF GroupCovers
<1>8. ASSUME NEW o
      PROVE  Count(j.summary, o) = Cut(Total(Requests(kSuper, o), T \cup {f}))
  <2> DEFINE g == Requests(kSuper, o)
  <2>1. Count(new, o) = g[f] /\ g[f] \in Nat
    BY SummaryRead, Zenon
  <2>2. IsFiniteSet(T) /\ (\A x \in T : g[x] \in Nat) /\ Total(g, T) \in Nat
    BY FsOfIs, Zenon
  <2>3. Count(grp.summary, o) = Cut(Total(g, T))
    BY <1>1, Zenon DEF GroupCovers
  <2> HIDE DEF s, grp, f, new, T, g, j
  <2>4. CASE f \in T
    <3>1. T \cup {f} = T
      BY <2>4
    <3>2. j.summary = grp.summary
      BY <1>2, <1>6, <1>7, <2>4, Zenon
    <3> QED BY <2>3, <3>1, <3>2, Zenon DEF g
  <2>5. CASE f \notin T
    <3>1. j.summary = addSummary(new, grp.summary)
      BY <1>2, <1>6, <1>7, <2>5, Zenon
    <3>2. Count(addSummary(new, grp.summary), o) = add(g[f], Cut(Total(g, T)))
      <4>1. Count(addSummary(new, grp.summary), o) = add(Count(new, o), Count(grp.summary, o))
        BY <1>3, <1>4, SummaryAdded, Zenon
      <4> QED BY <2>1, <2>3, <4>1
    <3>3. Total(g, T \cup {f}) = g[f] + Total(g, T)
      <4>1. IsFiniteSet(T \cup {f}) /\ f \in T \cup {f} /\ (T \cup {f}) \ {f} = T
        BY <2>2, <2>5, FS_AddElement
      <4>2. \A x \in T \cup {f} : g[x] \in Int
        BY <2>1, <2>2
      <4>3. Total(g, T \cup {f}) = g[f] + Total(g, (T \cup {f}) \ {f})
        BY <4>1, <4>2, TotalRemove, Zenon
      <4> QED BY <4>1, <4>3, Zenon
    <3>4. add(g[f], Cut(Total(g, T))) = Cut(Total(g, T \cup {f}))
      BY <2>1, <2>2, <3>3, CutAdd, Zenon
    <3> QED BY <3>1, <3>2, <3>4, Zenon DEF g
  <2> QED BY <2>4, <2>5
<1> HIDE DEF s, grp, f, new, T, j
<1>9. GroupCovers(j, Q \cup {p}, s)
  BY <1>2, <1>5, <1>7, <1>8, Zenon DEF GroupCovers
<1> QED BY <1>9, Zenon DEF s, j

\* So does the step of the loop, for all servers.
LEMMA CoversMore ==
  ASSUME KernelTyped, DevicesApart, NEW agg \in Aggregates({NoInstance}),
         NEW Q \in SUBSET kMounted, NEW p \in kMounted, sIds[p] \in Nat,
         Matching(Q \cup {p}), Covers(agg, Q)
  PROVE  Covers(AddMount(agg, p), Q \cup {p})
<1> DEFINE new == AddMount(agg, p)
           sv == ServerOf[p]
<1>1. /\ DOMAIN new = DOMAIN agg \cup {sv} /\ new[sv] = Joining(agg, p)
      /\ \A s \in DOMAIN agg \ {sv} : new[s] = agg[s]
  <2>1. sv \in Servers
    BY Zenon DEF KernelTyped, Servers
  <2>2. Joining(agg, p) \in ServerGroups({NoInstance})
    BY JoiningIs, Zenon
  <2>3. agg \in Partial(Servers, ServerGroups({NoInstance}))
    BY Zenon DEF Aggregates
  <2>4. new = With(agg, sv, Joining(agg, p))
    BY AddMountIs, Zenon
  <2> HIDE DEF new, sv
  <2> QED BY <2>1, <2>2, <2>3, <2>4, PartialWith
<1>2. GroupCovers(Joining(agg, p), Q \cup {p}, sv)
  BY JoiningCovers, Zenon
<1>3. ASSUME NEW s \in DOMAIN agg, s # sv
      PROVE  GroupCovers(agg[s], Q \cup {p}, s)
  <2>1. FsOf(Q \cup {p}, s) = FsOf(Q, s) /\ IdsOf(Q \cup {p}, s) = IdsOf(Q, s)
    BY <1>3, FsOfOther, Zenon
  <2>2. GroupCovers(agg[s], Q, s)
    BY Zenon DEF Covers
  <2> QED BY <2>1, <2>2, Zenon DEF GroupCovers
<1>4. DOMAIN agg \cup {sv} = {ServerOf[q] : q \in Q \cup {p}}
  BY DEF Covers
<1> HIDE DEF new, sv
<1>5. \A s \in DOMAIN new : GroupCovers(new[s], Q \cup {p}, s)
  BY <1>1, <1>2, <1>3, Zenon
<1> QED BY <1>1, <1>4, <1>5, Zenon DEF Covers, new

\* What a scrape reads has every superblock of its mounts once.
LEMMA MountsFoldCovers ==
  ASSUME KernelTyped, DevicesApart, NEW S, Readable(S), Matching(S)
  PROVE  Covers(MountsFold(S), S)
<1> DEFINE A == Aggregates({NoInstance})
<1>1. IsFiniteSet(S)
  BY MountsFoldSteps, Zenon
<1>2. PICK h : /\ MountsFold(S) = h[S] /\ h[{}] = <<>>
               /\ \A s \in SUBSET S : s # {} => h[s] = AddMount(h[s \ {First(s)}], First(s))
  BY MountsFoldSteps, Zenon
<1> DEFINE Q == {s \in SUBSET S : h[s] \in A /\ Covers(h[s], s)}
<1>3. {} \in Q
  <2>1. <<>> \in A /\ DOMAIN << >> = {}
    BY PartialEmpty, Zenon DEF Aggregates
  <2>2. Covers(<<>>, {})
    BY <2>1, Zenon DEF Covers
  <2> QED BY <1>2, <2>1, <2>2, Zenon
<1>4. ASSUME NEW s \in SUBSET S, s # {}, s \ {First(s)} \in Q
      PROVE  s \in Q
  <2> DEFINE t == s \ {First(s)}
  <2>1. First(s) \in S /\ t \in SUBSET S /\ t \cup {First(s)} = s
    BY <1>1, <1>4, SmallerSet
  <2>2. First(s) \in kMounted /\ sIds[First(s)] \in Nat /\ t \in SUBSET kMounted
    BY <2>1 DEF Readable
  <2>3. Matching(t \cup {First(s)})
    BY <2>1, Zenon DEF Matching
  <2>4. h[t] \in A /\ Covers(h[t], t)
    BY <1>4, Zenon
  <2> HIDE DEF t
  <2>5. AddMount(h[t], First(s)) \in A
    BY <2>2, <2>4, AddMountTyped, Zenon
  <2>6. Covers(AddMount(h[t], First(s)), t \cup {First(s)})
    BY <2>2, <2>3, <2>4, CoversMore, Zenon
  <2>7. h[s] = AddMount(h[t], First(s))
    BY <1>2, <1>4, Zenon DEF t
  <2> QED BY <2>1, <2>5, <2>6, <2>7, Zenon
<1> HIDE DEF A
<1>5. \A s \in SUBSET S : s \in Q
  <2> HIDE DEF Q
  <2> QED BY <1>1, <1>3, <1>4, SubsetInduction, Zenon
<1>6. S \in Q
  BY <1>5, Zenon
<1> QED BY <1>2, <1>6, Zenon

-----------------------------------------------------------------------------
(* The kernel. *)

\* The device ID that the next superblock is given is free.
FreeDev == Min(1..Cardinality(FileSystems) \ {kSuper[f].dev : f \in DOMAIN kSuper})

\* A file system that is mounted gets a device ID that no superblock has.
LEMMA FreeDevice ==
  ASSUME KernelTyped, NEW p \in MountPaths, RemoteFs[p] \notin DOMAIN kSuper
  PROVE  FreeDev \in Nat /\ \A f \in DOMAIN kSuper : kSuper[f].dev # FreeDev
<1> DEFINE n == Cardinality(FileSystems)
           D == DOMAIN kSuper
           taken == {kSuper[f].dev : f \in D}
           free == 1..n \ taken
<1>1. IsFiniteSet(FileSystems)
  <2> DEFINE img == [q \in MountPaths |-> RemoteFs[q]]
  <2>1. img \in Surjection(MountPaths, FileSystems)
    BY DEF Surjection, FileSystems
  <2> QED BY <2>1, MountStatsAssumption, FS_Surjection, Zenon
<1>2. n \in Nat
  BY <1>1, FS_CardinalityType
<1>3. RemoteFs[p] \in FileSystems /\ D \in SUBSET (FileSystems \ {RemoteFs[p]})
  BY DEF KernelTyped, FileSystems
<1>4. /\ IsFiniteSet(FileSystems \ {RemoteFs[p]})
      /\ Cardinality(FileSystems \ {RemoteFs[p]}) = n - 1
  BY <1>1, <1>3, FS_RemoveElement
<1>5. IsFiniteSet(D) /\ Cardinality(D) <= n - 1
  BY <1>3, <1>4, FS_Subset
<1>6. IsFiniteSet(taken) /\ Cardinality(taken) <= Cardinality(D)
  <2> DEFINE img == [f \in D |-> kSuper[f].dev]
  <2> HIDE DEF D
  <2>1. img \in Surjection(D, taken)
    BY DEF Surjection
  <2> QED BY <1>5, <2>1, FS_Surjection, Zenon
<1> HIDE DEF D, taken, n
<1>7. IsFiniteSet(1..n) /\ Cardinality(1..n) = n
  BY <1>2, FS_Interval
<1>8. free # {}
  <2>1. SUFFICES ASSUME 1..n \subseteq taken PROVE FALSE
    OBVIOUS
  <2>2. Cardinality(1..n) <= Cardinality(taken)
    BY <1>6, <2>1, FS_Subset
  <2>3. Cardinality(D) \in Nat /\ Cardinality(taken) \in Nat
    BY <1>5, <1>6, FS_CardinalityType
  <2> QED BY <1>2, <1>5, <1>6, <1>7, <2>2, <2>3
<1>9. free \in SUBSET Nat
  BY <1>2
<1>10. Min(free) \in free
  <2> HIDE DEF free
  <2> QED BY <1>8, <1>9, LeastNumber, Zenon
<1>11. Min(free) \in Nat /\ Min(free) \notin taken
  BY <1>9, <1>10
<1>12. Min(free) = FreeDev
  BY Zenon DEF n, taken, D, FreeDev
<1> HIDE DEF free
<1> QED BY <1>11, <1>12, Zenon DEF taken, D

\* A superblock as it is made, and after an operation.
LEMMA NewSuperblock ==
  ASSUME NEW dev \in Nat, NEW born \in Int
  PROVE  [dev |-> dev, born |-> born, counters |-> [f \in SuperFields |-> 0],
          operations |-> [o \in Operations |-> ZeroOp]] \in Superblocks
<1>1. [o \in Operations |-> ZeroOp] \in [Operations -> OpStats]
  BY ZeroOpIs
<1> QED BY <1>1 DEF Superblocks

\* Totals over file systems whose counters do not change.
LEMMA RequestsSame ==
  ASSUME KernelTyped, NEW Q \in SUBSET kMounted, NEW s, NEW o, NEW next,
         \A f \in FsOf(Q, s) : Requests(next, o)[f] = Requests(kSuper, o)[f]
  PROVE  Total(Requests(next, o), FsOf(Q, s)) = Total(Requests(kSuper, o), FsOf(Q, s))
<1>1. IsFiniteSet(FsOf(Q, s)) /\ \A f \in FsOf(Q, s) : Requests(kSuper, o)[f] \in Int
  BY FsOfIs
<1>2. \A f \in FsOf(Q, s) : Requests(kSuper, o)[f] \in Int /\ Requests(kSuper, o)[f] = Requests(next, o)[f]
  BY <1>1, Zenon
<1> HIDE DEF Requests
<1>3. Total(Requests(kSuper, o), FsOf(Q, s)) = Total(Requests(next, o), FsOf(Q, s))
  BY <1>1, <1>2, TotalSame, Zenon
<1> QED BY <1>3, Zenon

\* A mount adds no operations: a superblock that is new has none, one that is
\* shared is counted already.
LEMMA MountEffect ==
  ASSUME KernelTyped, NEW p \in MountPaths, Mount(p)
  PROVE  /\ KernelTyped' /\ kServed' = kServed /\ scrapeVars' = scrapeVars
         /\ kMounted \subseteq kMounted'
         /\ \A f \in DOMAIN kSuper : f \in DOMAIN kSuper' /\ kSuper'[f] = kSuper[f]
         /\ DevicesApart => DevicesApart'
         /\ \A s, o : Total(Requests(kSuper', o), FsOf(kMounted', s)) = Total(Requests(kSuper, o), FsOf(kMounted, s))
<1> DEFINE fs == RemoteFs[p]
           new == [dev |-> FreeDev, born |-> kTime, counters |-> [f \in SuperFields |-> 0],
                   operations |-> [o \in Operations |-> ZeroOp]]
           sv == ServerOf[p]
           xprt == [f \in XprtFields |-> 0]
<1>1. /\ kMounted' = kMounted \cup {p} /\ kTime' = kTime /\ kServed' = kServed
      /\ scrapeVars' = scrapeVars
      /\ kSuper' = IF fs \in DOMAIN kSuper THEN kSuper ELSE With(kSuper, fs, new)
      /\ kXprt' = IF sv \in DOMAIN kXprt THEN kXprt ELSE With(kXprt, sv, xprt)
  BY Zenon DEF Mount, FreeDev
<1>2. DOMAIN kSuper = {RemoteFs[q] : q \in kMounted}
  BY DEF KernelTyped
<1>3. {RemoteFs[q] : q \in kMounted'} = DOMAIN kSuper \cup {fs}
  BY <1>1, <1>2
<1>x. kXprt' \in [{ServerOf[q] : q \in kMounted'} -> Xprts]
  <2>1. kXprt \in [DOMAIN kXprt -> Xprts] /\ DOMAIN kXprt = {ServerOf[q] : q \in kMounted}
    BY DEF KernelTyped
  <2>2. {ServerOf[q] : q \in kMounted'} = DOMAIN kXprt \cup {sv}
    BY <1>1, <2>1
  <2>3. xprt \in Xprts
    BY DEF Xprts
  <2> HIDE DEF xprt, sv
  <2>4. kXprt' \in [DOMAIN kXprt \cup {sv} -> Xprts]
    <3>1. CASE sv \in DOMAIN kXprt
      <4>1. DOMAIN kXprt \cup {sv} = DOMAIN kXprt /\ kXprt' = kXprt
        BY <1>1, <3>1
      <4> QED BY <2>1, <4>1, Zenon
    <3>2. CASE sv \notin DOMAIN kXprt
      BY <1>1, <2>1, <2>3, <3>2 DEF With
    <3> QED BY <3>1, <3>2
  <2> QED BY <2>2, <2>4, Zenon
<1> HIDE DEF xprt, sv
<1>4. CASE fs \in DOMAIN kSuper
  <2>1. kSuper' = kSuper /\ {RemoteFs[q] : q \in kMounted'} = {RemoteFs[q] : q \in kMounted}
    BY <1>1, <1>2, <1>3, <1>4
  <2>2. KernelTyped'
    BY <1>1, <1>x, <2>1 DEF KernelTyped
  <2>3. \A s : FsOf(kMounted', s) = FsOf(kMounted, s)
    <3>1. PICK q \in kMounted : RemoteFs[p] = RemoteFs[q]
      BY <1>2, <1>4
    <3>2. ServerOf[q] = ServerOf[p]
      BY <3>1, MountStatsAssumption DEF KernelTyped
    <3>3. RemoteFs[p] \in FsOf(kMounted, ServerOf[p])
      BY <3>1, <3>2, Zenon DEF FsOf
    <3>4. FsOf(kMounted \cup {p}, ServerOf[p]) = FsOf(kMounted, ServerOf[p]) \cup {RemoteFs[p]}
      BY FsOfMore, Zenon
    <3>5. FsOf(kMounted \cup {p}, ServerOf[p]) = FsOf(kMounted, ServerOf[p])
      BY <3>3, <3>4
    <3>6. \A s : s # ServerOf[p] => FsOf(kMounted \cup {p}, s) = FsOf(kMounted, s)
      BY FsOfOther, Zenon
    <3> QED BY <1>1, <3>5, <3>6, Zenon
  <2> QED BY <1>1, <2>1, <2>2, <2>3, Zenon DEF DevicesApart
<1>5. CASE fs \notin DOMAIN kSuper
  <2>1. FreeDev \in Nat /\ \A f \in DOMAIN kSuper : kSuper[f].dev # FreeDev
    BY <1>5, FreeDevice, Zenon
  <2>2. new \in Superblocks
    BY <2>1, NewSuperblock, Zenon DEF KernelTyped
  <2>3. new.dev = FreeDev /\ new.operations = [o \in Operations |-> ZeroOp]
    BY Zenon
  <2> HIDE DEF new
  <2>4. kSuper' = With(kSuper, fs, new) /\ kSuper \in [DOMAIN kSuper -> Superblocks]
    BY <1>1, <1>2, <1>5, Zenon DEF KernelTyped
  <2>5. /\ DOMAIN kSuper' = DOMAIN kSuper \cup {fs} /\ kSuper'[fs] = new
        /\ \A f \in DOMAIN kSuper : kSuper'[f] = kSuper[f]
        /\ kSuper' \in [DOMAIN kSuper \cup {fs} -> Superblocks]
    BY <1>5, <2>2, <2>4 DEF With
  <2>6. KernelTyped'
    <3>1. kSuper' \in [{RemoteFs[q] : q \in kMounted'} -> Superblocks]
      BY <1>3, <2>5, Zenon
    <3>2. kMounted' \in SUBSET MountPaths
      BY <1>1 DEF KernelTyped
    <3> QED BY <1>1, <1>x, <3>1, <3>2 DEF KernelTyped
  <2>7. DevicesApart => DevicesApart'
    BY <2>1, <2>3, <2>5 DEF DevicesApart
  <2>8. ASSUME NEW s, NEW o
        PROVE  Total(Requests(kSuper', o), FsOf(kMounted', s)) = Total(Requests(kSuper, o), FsOf(kMounted, s))
    <3> DEFINE T == FsOf(kMounted, s)
               g == Requests(kSuper', o)
    <3>1. IsFiniteSet(T) /\ T \in SUBSET DOMAIN kSuper /\ \A f \in T : Requests(kSuper, o)[f] \in Nat
      BY FsOfIs, Zenon
    <3>2. \A f \in DOMAIN kSuper : g[f] = Requests(kSuper, o)[f]
      BY <2>5, Zenon DEF Requests
    <3>3. Total(g, T) = Total(Requests(kSuper, o), T)
      BY <3>1, <3>2, RequestsSame, Zenon
    <3>4. CASE s # ServerOf[p]
      BY <1>1, <3>3, <3>4, FsOfOther, Zenon
    <3>5. CASE s = ServerOf[p]
      <4>1. FsOf(kMounted', s) = T \cup {fs}
        BY <1>1, <3>5, FsOfMore, Zenon
      <4>2. g[fs] = 0
        <5>1. g[fs] = lookup(new.operations, o).Requests
          BY <2>5, Zenon DEF Requests, Count
        <5>2. lookup(new.operations, o) = ZeroOp
          BY <2>3, Zenon DEF lookup
        <5> QED BY <5>1, <5>2, ZeroOpIs, Zenon
      <4>3. fs \notin T
        BY <1>5, <3>1, Zenon
      <4> HIDE DEF T, g, fs
      <4>4. \A f \in T \cup {fs} : g[f] \in Int
        BY <3>1, <3>2, <4>2
      <4>5. IsFiniteSet(T \cup {fs}) /\ fs \in T \cup {fs} /\ (T \cup {fs}) \ {fs} = T
        BY <3>1, <4>3, FS_AddElement
      <4>6. /\ Total(g, T \cup {fs}) = g[fs] + Total(g, (T \cup {fs}) \ {fs})
            /\ Total(g, (T \cup {fs}) \ {fs}) \in Int
        BY <4>4, <4>5, TotalRemove, Zenon
      <4>7. Total(g, T \cup {fs}) = Total(g, T)
        BY <4>2, <4>5, <4>6
      <4> QED BY <3>3, <4>1, <4>7, Zenon DEF T, g
    <3> QED BY <3>4, <3>5, Zenon
  <2>9. \A f \in DOMAIN kSuper : f \in DOMAIN kSuper' /\ kSuper'[f] = kSuper[f]
    BY <2>5, Zenon
  <2>10. kMounted \subseteq kMounted'
    BY <1>1
  <2> QED BY <1>1, <2>6, <2>7, <2>8, <2>9, <2>10, Zenon
<1> QED BY <1>4, <1>5

\* The last unmount of a file system takes its counters away; no other counter
\* changes.
LEMMA UmountEffect ==
  ASSUME KernelTyped, NEW p \in MountPaths, Umount(p)
  PROVE  /\ KernelTyped' /\ kServed' = kServed /\ scrapeVars' = scrapeVars
         /\ sPc = "stats" => UmountsInScrape
         /\ DevicesApart => DevicesApart'
         /\ \A s, o : Total(Requests(kSuper', o), FsOf(kMounted', s)) <= Total(Requests(kSuper, o), FsOf(kMounted, s))
<1> DEFINE D == {RemoteFs[q] : q \in kMounted \ {p}}
<1>1. /\ kMounted' = kMounted \ {p} /\ kTime' = kTime /\ kServed' = kServed
      /\ scrapeVars' = scrapeVars
      /\ sPc = "stats" => UmountsInScrape
      /\ kSuper' = [f \in D |-> kSuper[f]]
      /\ kXprt' = [s \in {ServerOf[q] : q \in kMounted \ {p}} |-> kXprt[s]]
  BY Zenon DEF Umount
<1>2. D \in SUBSET DOMAIN kSuper /\ kSuper \in [DOMAIN kSuper -> Superblocks]
  BY DEF KernelTyped
<1>3. D = {RemoteFs[q] : q \in kMounted'}
  BY <1>1, Zenon
<1> HIDE DEF D
<1>4. /\ kSuper' \in [D -> Superblocks] /\ DOMAIN kSuper' = D
      /\ \A f \in D : kSuper'[f] = kSuper[f]
  BY <1>1, <1>2
<1>5. KernelTyped'
  <2>1. kSuper' \in [{RemoteFs[q] : q \in kMounted'} -> Superblocks]
    BY <1>3, <1>4, Zenon
  <2>2. kMounted' \in SUBSET MountPaths
    BY <1>1 DEF KernelTyped
  <2>3. kXprt' \in [{ServerOf[q] : q \in kMounted'} -> Xprts]
    <3>1. \A s \in {ServerOf[q] : q \in kMounted \ {p}} : kXprt[s] \in Xprts
      BY DEF KernelTyped
    <3> QED BY <1>1, <3>1, Zenon
  <2> QED BY <1>1, <2>1, <2>2, <2>3 DEF KernelTyped
<1>6. DevicesApart => DevicesApart'
  BY <1>2, <1>4 DEF DevicesApart
<1>7. ASSUME NEW s, NEW o
      PROVE  Total(Requests(kSuper', o), FsOf(kMounted', s)) <= Total(Requests(kSuper, o), FsOf(kMounted, s))
  <2> DEFINE T == FsOf(kMounted, s)
             R == FsOf(kMounted', s)
             g == Requests(kSuper, o)
             e == Requests(kSuper', o)
  <2>1. IsFiniteSet(T) /\ \A f \in T : g[f] \in Nat
    BY FsOfIs, Zenon
  <2>2. R \in SUBSET T
    BY <1>1 DEF FsOf
  <2>3. R \in SUBSET D
    BY <1>3 DEF FsOf
  <2>4. \A f \in D : e[f] = g[f]
    BY <1>2, <1>4 DEF Requests
  <2>5. \A f \in R : e[f] = g[f]
    BY <2>3, <2>4, Zenon
  <2> HIDE DEF T, R, g, e
  <2>6. Total(e, R) <= Total(g, T)
    BY <2>1, <2>2, <2>5, TotalOfPart, Zenon
  <2> QED BY <2>6, Zenon DEF T, R, g, e
<1> QED BY <1>1, <1>5, <1>6, <1>7, Zenon

\* The superblock sb after an operation o.
Done(d) == [Requests |-> 1, MajorTimeouts |-> 0, BytesSent |-> 1, BytesReceived |-> 1,
            Errors |-> 0, CumulativeTotalResponseMilliseconds |-> 1,
            CumulativeTotalRequestMilliseconds |-> 1 + d]
ServedOp(op, d) == [f \in OpFields |-> wrap(op[f] + Done(d)[f])]
Served(sb, o, d) ==
  [sb EXCEPT !.counters = [sb.counters EXCEPT
                             ![IF o = "READ" THEN "ReadTotal" ELSE "WriteTotal"] = wrap(@ + 1)],
             !.operations = [sb.operations EXCEPT ![o] = ServedOp(@, d)]]
ServedXprt(xprt, d) ==
  [xprt EXCEPT !["Sends"] = wrap(@ + 1), !["CumulativeBacklog"] = wrap(@ + d)]

\* A counter that starts over is no larger than it would be.
LEMMA WrapIs ==
  ASSUME NEW n \in Nat
  PROVE  wrap(n) \in 0..MaxUint64 /\ wrap(n) \in Nat /\ wrap(n) <= n
<1> DEFINE m == MaxUint64
<1>1. m \in Nat
  BY MountStatsAssumption
<1> HIDE DEF m
<1>2. n % (m + 1) \in 0..m /\ n % (m + 1) <= n
  BY <1>1
<1>3. wrap(n) \in 0..m /\ wrap(n) <= n
  BY <1>2, Zenon DEF wrap, m
<1>4. wrap(n) \in Nat
  BY <1>1, <1>3
<1> QED BY <1>3, <1>4, Zenon DEF m

\* An operation adds at most one to the requests.
LEMMA ServedOpIs ==
  ASSUME NEW op \in OpStats, NEW d \in Nat
  PROVE  /\ ServedOp(op, d) \in OpStats
         /\ op.Requests \in Nat /\ ServedOp(op, d).Requests \in Nat
         /\ ServedOp(op, d).Requests <= op.Requests + 1
<1>1. \A f \in OpFields : op[f] \in Nat
  BY MountStatsAssumption DEF OpStats
<1>2. Done(d).Requests = 1 /\ \A f \in OpFields : Done(d)[f] \in Nat
  BY DEF Done, OpFields
<1> DEFINE sum(f) == op[f] + Done(d)[f]
<1>3. \A f \in OpFields : sum(f) \in Nat
  BY <1>1, <1>2
<1>4. "Requests" \in OpFields /\ sum("Requests") = op.Requests + 1
  BY <1>1, <1>2 DEF OpFields
<1>5. ServedOp(op, d) = [f \in OpFields |-> wrap(sum(f))]
  BY Zenon DEF ServedOp
<1> HIDE DEF sum
<1>6. \A f \in OpFields : wrap(sum(f)) \in 0..MaxUint64 /\ wrap(sum(f)) \in Nat /\ wrap(sum(f)) <= sum(f)
  BY <1>3, WrapIs, Zenon
<1>7. ServedOp(op, d) \in OpStats
  BY <1>5, <1>6, Zenon DEF OpStats
<1>8. ServedOp(op, d).Requests = wrap(sum("Requests"))
  BY <1>4, <1>5
<1> QED BY <1>1, <1>4, <1>6, <1>7, <1>8

\* An operation counts once in the superblock of its file system.
LEMMA ServedIs ==
  ASSUME NEW sb \in Superblocks, NEW o \in Operations, NEW d \in Nat
  PROVE  /\ Served(sb, o, d) \in Superblocks /\ Served(sb, o, d).dev = sb.dev
         /\ Count(sb, o) \in Nat /\ Count(Served(sb, o, d), o) \in Nat
         /\ Count(Served(sb, o, d), o) <= Count(sb, o) + 1
         /\ \A x : x # o => Count(Served(sb, o, d), x) = Count(sb, x)
<1> DEFINE total == IF o = "READ" THEN "ReadTotal" ELSE "WriteTotal"
           c == [sb.counters EXCEPT ![total] = wrap(@ + 1)]
           op == ServedOp(sb.operations[o], d)
           ops == [sb.operations EXCEPT ![o] = op]
<1>1. sb.counters \in [SuperFields -> Nat] /\ sb.operations \in [Operations -> OpStats]
  BY DEF Superblocks
<1>2. total \in SuperFields
  BY DEF SuperFields
<1>3. Served(sb, o, d) = [sb EXCEPT !.counters = c, !.operations = ops]
  BY <1>1, Zenon DEF Served
<1> HIDE DEF total
<1>4. c \in [SuperFields -> Nat]
  <2>1. sb.counters[total] + 1 \in Nat
    BY <1>1, <1>2
  <2>2. wrap(sb.counters[total] + 1) \in Nat
    BY <2>1, WrapIs, Zenon
  <2> QED BY <1>1, <1>2, <2>2
<1>5. sb.operations[o] \in OpStats
  BY <1>1
<1>6. /\ op \in OpStats /\ sb.operations[o].Requests \in Nat /\ op.Requests \in Nat
      /\ op.Requests <= sb.operations[o].Requests + 1
  BY <1>5, ServedOpIs, Zenon
<1> HIDE DEF op
<1>7. /\ ops \in [Operations -> OpStats] /\ ops[o] = op
      /\ DOMAIN ops = DOMAIN sb.operations /\ o \in DOMAIN ops
      /\ \A x \in DOMAIN ops : x # o => ops[x] = sb.operations[x]
  BY <1>1, <1>6
<1> HIDE DEF c, ops
<1>8. /\ Served(sb, o, d) \in Superblocks /\ Served(sb, o, d).dev = sb.dev
      /\ Served(sb, o, d).operations = ops
  BY <1>3, <1>4, <1>7 DEF Superblocks
<1>9. Count(sb, o) = sb.operations[o].Requests /\ Count(Served(sb, o, d), o) = op.Requests
  BY <1>7, <1>8, Zenon DEF Count, lookup
<1>10. \A x : x # o => Count(Served(sb, o, d), x) = Count(sb, x)
  BY <1>7, <1>8, Zenon DEF Count, lookup
<1> QED BY <1>6, <1>8, <1>9, <1>10

\* An operation adds the same number, at most one, to the sums of its server that
\* have its file system, nothing to those that do not, and one to what the server
\* has served.
LEMMA ServeEffect ==
  ASSUME KernelTyped, NEW p \in MountPaths, NEW o \in Operations, NEW d \in Delays, Serve(p, o, d)
  PROVE  /\ KernelTyped' /\ kMounted' = kMounted /\ scrapeVars' = scrapeVars
         /\ DOMAIN kSuper' = DOMAIN kSuper
         /\ \A f \in DOMAIN kSuper : kSuper'[f].dev = kSuper[f].dev
         /\ ServerOf[p] \in Servers
         /\ kServed' = [kServed EXCEPT ![ServerOf[p]][o] = @ + 1]
         /\ \A x : \E n \in Int : /\ n <= IF x = o THEN 1 ELSE 0
              /\ \A Q \in SUBSET kMounted : \A s :
                   Total(Requests(kSuper', x), FsOf(Q, s)) =
                     Total(Requests(kSuper, x), FsOf(Q, s)) + IF RemoteFs[p] \in FsOf(Q, s) THEN n ELSE 0
<1> DEFINE fs == RemoteFs[p]
           sb == kSuper[fs]
           new == Served(sb, o, d)
           sv == ServerOf[p]
           xprt == ServedXprt(kXprt[sv], d)
<1>1. /\ p \in kMounted /\ kMounted' = kMounted /\ kTime' = kTime /\ scrapeVars' = scrapeVars
      /\ kSuper' = [kSuper EXCEPT ![fs] = new]
      /\ kXprt' = [kXprt EXCEPT ![sv] = xprt]
      /\ kServed' = [kServed EXCEPT ![sv][o] = @ + 1]
  BY Zenon DEF Serve, Served, ServedOp, Done, ServedXprt
<1>2. fs \in DOMAIN kSuper /\ sb \in Superblocks
  BY <1>1, SummaryRead, Zenon
<1>3. d \in Nat
  BY MountStatsAssumption
<1>4. /\ new \in Superblocks /\ new.dev = sb.dev
      /\ Count(sb, o) \in Nat /\ Count(new, o) \in Nat
      /\ Count(new, o) <= Count(sb, o) + 1
      /\ \A x : x # o => Count(new, x) = Count(sb, x)
  BY <1>2, <1>3, ServedIs, Zenon
<1>5. sv \in Servers
  BY Zenon DEF Servers
<1>a. sv \in DOMAIN kXprt /\ kXprt' \in [{ServerOf[q] : q \in kMounted} -> Xprts]
  <2>1. kXprt \in [{ServerOf[q] : q \in kMounted} -> Xprts] /\ sv \in DOMAIN kXprt
    BY <1>1 DEF KernelTyped
  <2>2. xprt \in Xprts
    <3> DEFINE x == kXprt[sv]
    <3>1. x \in Xprts
      BY <2>1
    <3> HIDE DEF x
    <3>2. x["Sends"] + 1 \in Nat /\ x["CumulativeBacklog"] + d \in Nat
      BY <1>3, <3>1 DEF Xprts, XprtFields
    <3>3. wrap(x["Sends"] + 1) \in Nat /\ wrap(x["CumulativeBacklog"] + d) \in Nat
      BY <3>2, WrapIs, Zenon
    <3>4. ServedXprt(x, d) \in Xprts
      BY <3>1, <3>3 DEF ServedXprt, Xprts, XprtFields
    <3> QED BY <3>4, Zenon DEF x
  <2> HIDE DEF xprt
  <2> QED BY <1>1, <2>1, <2>2
<1> HIDE DEF new, xprt
<1>6. /\ DOMAIN kSuper' = DOMAIN kSuper /\ kSuper'[fs] = new
      /\ \A f \in DOMAIN kSuper \ {fs} : kSuper'[f] = kSuper[f]
      /\ kSuper' \in [{RemoteFs[q] : q \in kMounted} -> Superblocks]
  BY <1>1, <1>2, <1>4 DEF KernelTyped
<1>7. \A f \in DOMAIN kSuper : kSuper'[f].dev = kSuper[f].dev
  BY <1>2, <1>4, <1>6
<1>8. KernelTyped'
  <2>1. kServed' \in Counts
    <3> DEFINE row == [kServed[sv] EXCEPT ![o] = @ + 1]
               A == AllOperations
    <3>1. kServed \in [Servers -> [A -> Nat]]
      BY Zenon DEF KernelTyped, Counts
    <3>2. o \in A
      BY Zenon DEF AllOperations
    <3>3. kServed' = [kServed EXCEPT ![sv] = row]
      BY <1>1, Zenon
    <3> HIDE DEF A
    <3>4. row \in [A -> Nat]
      BY <1>5, <3>1, <3>2
    <3> HIDE DEF row
    <3> QED BY <1>5, <3>1, <3>3, <3>4 DEF Counts, A
  <2> QED BY <1>1, <1>6, <1>a, <2>1 DEF KernelTyped
<1>9. ASSUME NEW x, NEW n \in Int, n = Count(new, x) - Count(sb, x), NEW Q \in SUBSET kMounted, NEW s
      PROVE  Total(Requests(kSuper', x), FsOf(Q, s)) =
               Total(Requests(kSuper, x), FsOf(Q, s)) + IF fs \in FsOf(Q, s) THEN n ELSE 0
  <2> DEFINE T == FsOf(Q, s)
             g == Requests(kSuper, x)
             e == Requests(kSuper', x)
  <2>1. /\ IsFiniteSet(T) /\ T \in SUBSET DOMAIN kSuper /\ Total(g, T) \in Nat
        /\ \A f \in T : g[f] \in Nat
    BY FsOfIs, Zenon
  <2>2. \A f \in DOMAIN kSuper \ {fs} : e[f] = g[f]
    BY <1>6, Zenon DEF Requests
  <2>3. e[fs] = Count(new, x) /\ g[fs] = Count(sb, x)
    BY <1>2, <1>6, Zenon DEF Requests
  <2>4. e[fs] \in Nat /\ g[fs] \in Nat
    BY <1>1, <1>4, <2>3, SummaryRead, Zenon
  <2>5. e[fs] = g[fs] + n
    BY <1>9, <2>3, <2>4
  <2> HIDE DEF T, g, e, fs, sb
  <2>6. CASE fs \notin T
    <3>1. \A f \in T : g[f] \in Int /\ g[f] = e[f]
      BY <2>1, <2>2, <2>6
    <3>2. Total(g, T) = Total(e, T)
      BY <2>1, <3>1, TotalSame, Zenon
    <3> QED BY <2>1, <2>6, <3>2 DEF T, g, e
  <2>7. CASE fs \in T
    <3>1. \A f \in T : g[f] \in Int /\ e[f] \in Int
      BY <2>1, <2>2, <2>4
    <3>2. Total(g, T) = g[fs] + Total(g, T \ {fs}) /\ Total(g, T \ {fs}) \in Int
      BY <2>1, <2>7, <3>1, TotalRemove, Zenon
    <3>3. Total(e, T) = e[fs] + Total(e, T \ {fs})
      BY <2>1, <2>7, <3>1, TotalRemove, Zenon
    <3>4. Total(g, T \ {fs}) = Total(e, T \ {fs})
      <4>1. IsFiniteSet(T \ {fs})
        BY <2>1, FS_RemoveElement, Zenon
      <4>2. \A f \in T \ {fs} : g[f] \in Int /\ g[f] = e[f]
        BY <2>1, <2>2, <3>1
      <4> QED BY <4>1, <4>2, TotalSame, Zenon
    <3>5. Total(e, T) = Total(g, T) + n
      BY <2>4, <2>5, <3>2, <3>3, <3>4
    <3> QED BY <2>7, <3>5, Zenon DEF T, g, e
  <2> QED BY <2>6, <2>7
<1>10. ASSUME NEW x
       PROVE  LET n == Count(new, x) - Count(sb, x) IN n \in Int /\ n <= IF x = o THEN 1 ELSE 0
  <2>1. CASE x = o
    BY <1>4, <2>1
  <2>2. CASE x # o
    <3>1. Count(new, x) = Count(sb, x) /\ Count(sb, x) \in Nat
      <4>1. Requests(kSuper, x)[fs] = Count(sb, x)
        BY <1>2, Zenon DEF Requests
      <4> QED BY <1>1, <1>4, <2>2, <4>1, SummaryRead, Zenon
    <3> HIDE DEF sb
    <3> QED BY <2>2, <3>1
  <2> QED BY <2>1, <2>2
<1> HIDE DEF fs, sb, sv
<1>11. \A x : \E n \in Int : /\ n <= IF x = o THEN 1 ELSE 0
         /\ \A Q \in SUBSET kMounted : \A s :
              Total(Requests(kSuper', x), FsOf(Q, s)) =
                Total(Requests(kSuper, x), FsOf(Q, s)) + IF fs \in FsOf(Q, s) THEN n ELSE 0
  <2> TAKE x
  <2> DEFINE n == Count(new, x) - Count(sb, x)
  <2>1. n \in Int /\ n <= IF x = o THEN 1 ELSE 0
    BY <1>10, Zenon
  <2>2. \A Q \in SUBSET kMounted : \A s :
          Total(Requests(kSuper', x), FsOf(Q, s)) =
            Total(Requests(kSuper, x), FsOf(Q, s)) + IF fs \in FsOf(Q, s) THEN n ELSE 0
    BY <1>9, <2>1, Zenon
  <2> HIDE DEF n
  <2> QED BY <2>1, <2>2, Zenon
<1> QED BY <1>1, <1>5, <1>6, <1>7, <1>8, <1>11, Zenon DEF fs, sv
-----------------------------------------------------------------------------
(* What a report records. *)

\* What a sequence over S holds is in S,
LEMMA SeqElement ==
  ASSUME NEW S, NEW q \in Seq(S), NEW i \in DOMAIN q
  PROVE  q[i] \in S
OBVIOUS

\* and it is a sequence over any larger set.
LEMMA SeqWider ==
  ASSUME NEW A, NEW B, A \subseteq B, NEW q \in Seq(A)
  PROVE  q \in Seq(B)
OBVIOUS

\* One round of the fold of recordOperations, and a table of its rounds.
OperationsRound(data, s, h, t) ==
  IF t = {} THEN data
  ELSE record(h[t \ {First(t)}], s, First(t),
              reportOperation(sAgg[s].summary.operations[First(t)]))

OperationsTable(data, s, D, h) == h = [t \in SUBSET D |-> OperationsRound(data, s, h, t)]

\* The rounds of recordOperations have a table, so it records one operation at
\* a time.
LEMMA OperationsExists ==
  ASSUME NEW data, NEW s, NEW D, IsFiniteSet(D)
  PROVE  \E h : OperationsTable(data, s, D, h)
<1> DEFINE R(h, t) == OperationsRound(data, s, h, t)
           P(n) == \E h : h = [t \in SUBSET D |-> h[t]] /\
                     \A t \in SUBSET D : Cardinality(t) <= n => h[t] = R(h, t)
           N == {n \in Nat : P(n)}
<1>1. 0 \in N
  <2>1. ASSUME NEW t \in SUBSET D, Cardinality(t) <= 0
        PROVE  t = {}
    <3>1. t # {} => Cardinality(t) \in Nat \ {0}
      BY SmallerSet
    <3> QED BY <2>1, <3>1
  <2> DEFINE h == [t \in SUBSET D |-> data]
  <2>2. /\ h = [t \in SUBSET D |-> h[t]]
        /\ \A t \in SUBSET D : Cardinality(t) <= 0 => h[t] = R(h, t)
    BY <2>1, Zenon DEF OperationsRound
  <2>3. P(0)
    <3> HIDE DEF h, R
    <3> QED BY <2>2, Zenon
  <2> HIDE DEF P
  <2> QED BY <2>3
<1>2. ASSUME NEW n \in Nat, P(n)
      PROVE  P(n + 1)
  <2>1. PICK h : /\ h = [t \in SUBSET D |-> h[t]]
                 /\ \A t \in SUBSET D : Cardinality(t) <= n => h[t] = R(h, t)
    BY <1>2, Zenon
  <2> DEFINE k == [t \in SUBSET D |-> R(h, t)]
  <2>2. k = [t \in SUBSET D |-> k[t]] /\ \A t \in SUBSET D : k[t] = R(h, t)
    BY Zenon
  <2> HIDE DEF k
  <2>3. ASSUME NEW t \in SUBSET D, Cardinality(t) <= n + 1
        PROVE  k[t] = R(k, t)
    <3>1. CASE t = {}
      BY <2>2, <3>1, Zenon DEF OperationsRound
    <3>2. CASE t # {}
      <4> DEFINE u == t \ {First(t)}
      <4>1. u \in SUBSET D /\ Cardinality(u) <= n
        BY <2>3, <3>2, SmallerSet
      <4>2. k[u] = h[u]
        <5> HIDE DEF u, R
        <5> QED BY <2>1, <2>2, <4>1, Zenon
      <4> QED BY <2>2, <3>2, <4>2, Zenon DEF OperationsRound
    <3> QED BY <3>1, <3>2
  <2> HIDE DEF R
  <2> QED BY <2>2, <2>3, Zenon
<1>3. P(Cardinality(D))
  <2>1. \A n \in Nat : n \in N => n + 1 \in N
    <3> HIDE DEF P
    <3> QED BY <1>2
  <2>2. \A n \in Nat : n \in N
    <3> HIDE DEF N
    <3> QED BY <1>1, <2>1, SetInduction
  <2> HIDE DEF P
  <2> QED BY <2>2, FS_CardinalityType
<1>4. PICK h : /\ h = [t \in SUBSET D |-> h[t]]
               /\ \A t \in SUBSET D : Cardinality(t) <= Cardinality(D) => h[t] = R(h, t)
  BY <1>3, Zenon
<1>5. \A t \in SUBSET D : Cardinality(t) <= Cardinality(D)
  BY FS_Subset
<1>6. \A t \in SUBSET D : h[t] = R(h, t)
  BY <1>4, <1>5, Zenon
<1> HIDE DEF R
<1>7. h = [t \in SUBSET D |-> R(h, t)]
  BY <1>4, <1>6, Zenon
<1> QED BY <1>7, Zenon DEF R, OperationsTable

\* The same of recordAll.
ServersRound(data, h, t) == IF t = {} THEN data ELSE recordServer(h[t \ {First(t)}], First(t))

ServersTable(data, D, h) == h = [t \in SUBSET D |-> ServersRound(data, h, t)]

\* The rounds of recordAll have one.
LEMMA ServersExists ==
  ASSUME NEW data, NEW D, IsFiniteSet(D)
  PROVE  \E h : ServersTable(data, D, h)
<1> DEFINE R(h, t) == ServersRound(data, h, t)
           P(n) == \E h : h = [t \in SUBSET D |-> h[t]] /\
                     \A t \in SUBSET D : Cardinality(t) <= n => h[t] = R(h, t)
           N == {n \in Nat : P(n)}
<1>1. 0 \in N
  <2>1. ASSUME NEW t \in SUBSET D, Cardinality(t) <= 0
        PROVE  t = {}
    <3>1. t # {} => Cardinality(t) \in Nat \ {0}
      BY SmallerSet
    <3> QED BY <2>1, <3>1
  <2> DEFINE h == [t \in SUBSET D |-> data]
  <2>2. /\ h = [t \in SUBSET D |-> h[t]]
        /\ \A t \in SUBSET D : Cardinality(t) <= 0 => h[t] = R(h, t)
    BY <2>1, Zenon DEF ServersRound
  <2>3. P(0)
    <3> HIDE DEF h, R
    <3> QED BY <2>2, Zenon
  <2> HIDE DEF P
  <2> QED BY <2>3
<1>2. ASSUME NEW n \in Nat, P(n)
      PROVE  P(n + 1)
  <2>1. PICK h : /\ h = [t \in SUBSET D |-> h[t]]
                 /\ \A t \in SUBSET D : Cardinality(t) <= n => h[t] = R(h, t)
    BY <1>2, Zenon
  <2> DEFINE k == [t \in SUBSET D |-> R(h, t)]
  <2>2. k = [t \in SUBSET D |-> k[t]] /\ \A t \in SUBSET D : k[t] = R(h, t)
    BY Zenon
  <2> HIDE DEF k
  <2>3. ASSUME NEW t \in SUBSET D, Cardinality(t) <= n + 1
        PROVE  k[t] = R(k, t)
    <3>1. CASE t = {}
      BY <2>2, <3>1, Zenon DEF ServersRound
    <3>2. CASE t # {}
      <4> DEFINE u == t \ {First(t)}
      <4>1. u \in SUBSET D /\ Cardinality(u) <= n
        BY <2>3, <3>2, SmallerSet
      <4>2. k[u] = h[u]
        <5> HIDE DEF u, R
        <5> QED BY <2>1, <2>2, <4>1, Zenon
      <4> QED BY <2>2, <3>2, <4>2, Zenon DEF ServersRound
    <3> QED BY <3>1, <3>2
  <2> HIDE DEF R
  <2> QED BY <2>2, <2>3, Zenon
<1>3. P(Cardinality(D))
  <2>1. \A n \in Nat : n \in N => n + 1 \in N
    <3> HIDE DEF P
    <3> QED BY <1>2
  <2>2. \A n \in Nat : n \in N
    <3> HIDE DEF N
    <3> QED BY <1>1, <2>1, SetInduction
  <2> HIDE DEF P
  <2> QED BY <2>2, FS_CardinalityType
<1>4. PICK h : /\ h = [t \in SUBSET D |-> h[t]]
               /\ \A t \in SUBSET D : Cardinality(t) <= Cardinality(D) => h[t] = R(h, t)
  BY <1>3, Zenon
<1>5. \A t \in SUBSET D : Cardinality(t) <= Cardinality(D)
  BY FS_Subset
<1>6. \A t \in SUBSET D : h[t] = R(h, t)
  BY <1>4, <1>5, Zenon
<1> HIDE DEF R
<1>7. h = [t \in SUBSET D |-> R(h, t)]
  BY <1>4, <1>6, Zenon
<1> QED BY <1>7, Zenon DEF R, ServersTable

\* The metrics that RatesHonest is about.
RateMetrics == DOMAIN AveragedOperation \cup {"NfsMountOpsPerSecond"}

\* Metrics of operations leave the buffer of a rate.
LEMMA RecordElsewhere ==
  ASSUME NEW data, NEW rate \in DOMAIN data, NEW s, NEW o, NEW vals, rate \notin DOMAIN vals
  PROVE  /\ DOMAIN record(data, s, o, vals) = DOMAIN data
         /\ record(data, s, o, vals)[rate] = data[rate]
BY Zenon DEF record

\* So does all of recordOperations.
LEMMA OperationsElsewhere ==
  ASSUME NEW data, NEW rate \in RateMetrics, rate \in DOMAIN data, NEW s,
         IsFiniteSet(DOMAIN sAgg[s].summary.operations)
  PROVE  /\ DOMAIN recordOperations(data, s) = DOMAIN data
         /\ recordOperations(data, s)[rate] = data[rate]
<1> DEFINE D == DOMAIN sAgg[s].summary.operations
           F == CHOOSE f : f = [t \in SUBSET D |-> OperationsRound(data, s, f, t)]
<1>1. recordOperations(data, s) = F[D]
  BY Zenon DEF recordOperations, FoldSet, MapThenFoldSet, First, OperationsRound
<1> HIDE DEF D, F
<1>2. F = [t \in SUBSET D |-> OperationsRound(data, s, F, t)]
  <2>1. IsFiniteSet(D)
    BY Zenon DEF D
  <2>2. \E h : OperationsTable(data, s, D, h)
    BY <2>1, OperationsExists, Zenon
  <2> QED BY <2>2, Zenon DEF F, OperationsTable
<1>3. \A t \in SUBSET D : F[t] = OperationsRound(data, s, F, t)
  BY <1>2, Zenon
<1> DEFINE Q == {t \in SUBSET D : DOMAIN F[t] = DOMAIN data /\ F[t][rate] = data[rate]}
<1>4. {} \in Q
  <2>1. F[{}] = data
    BY <1>3, Zenon DEF OperationsRound
  <2> QED BY <2>1, Zenon
<1>5. ASSUME NEW t \in SUBSET D, t # {}, t \ {First(t)} \in Q
      PROVE  t \in Q
  <2> DEFINE d == F[t \ {First(t)}]
             vals == reportOperation(sAgg[s].summary.operations[First(t)])
  <2>1. F[t] = record(d, s, First(t), vals)
    BY <1>3, <1>5, Zenon DEF OperationsRound
  <2>2. DOMAIN d = DOMAIN data /\ d[rate] = data[rate]
    BY <1>5, Zenon
  <2>3. rate \notin DOMAIN vals
    BY DEF reportOperation, RateMetrics, AveragedOperation
  <2> HIDE DEF d, vals
  <2>4. rate \in DOMAIN d
    BY <2>2, Zenon
  <2>5. /\ DOMAIN record(d, s, First(t), vals) = DOMAIN d
        /\ record(d, s, First(t), vals)[rate] = d[rate]
    BY <2>3, <2>4, RecordElsewhere
  <2> QED BY <2>1, <2>2, <2>5, Zenon
<1>6. \A t \in SUBSET D : t \in Q
  <2>1. IsFiniteSet(D)
    BY Zenon DEF D
  <2> HIDE DEF Q
  <2> QED BY <1>4, <1>5, <2>1, SubsetInduction, Zenon
<1>7. D \in Q
  BY <1>6, Zenon
<1> QED BY <1>1, <1>7, Zenon

\* Its values for a server.
RateOf(rate, s) == report(s)[rate]

\* The totals are no rates; reportDelta has all the rates of a server that was
\* there at the previous scrape, and no other.
LEMMA ReportRate ==
  ASSUME NEW s, NEW rate \in RateMetrics
  PROVE  /\ rate \in DOMAIN report(s) <=> hasPrevious(s)
         /\ hasPrevious(s) => RateOf(rate, s) = reportDelta(s)[rate]
<1> DEFINE delta == reportDelta(s)
           totals == [NfsMountReadBytes |-> Int64(sAgg[s].summary.counters["ReadTotal"]),
                      NfsMountWriteBytes |-> Int64(sAgg[s].summary.counters["WriteTotal"])]
<1>1. report(s) = Joined({totals, delta})
  BY Zenon DEF report
<1>2. rate \notin DOMAIN totals
  BY DEF RateMetrics, AveragedOperation
<1>3. rate \in DOMAIN delta <=> hasPrevious(s)
  <2>1. CASE ~hasPrevious(s)
    <3>1. delta = << >> /\ DOMAIN << >> = {}
      BY <2>1 DEF reportDelta
    <3> QED BY <2>1, <3>1, Zenon
  <2>2. CASE hasPrevious(s)
    <3>1. RateMetrics \subseteq DOMAIN delta
      BY <2>2 DEF reportDelta, RateMetrics, AveragedOperation
    <3> QED BY <2>2, <3>1, Zenon
  <2> QED BY <2>1, <2>2
<1> HIDE DEF totals, delta
<1>4. rate \in DOMAIN report(s) <=> hasPrevious(s)
  BY <1>1, <1>2, <1>3, Zenon DEF Joined
<1>5. ASSUME hasPrevious(s)
      PROVE  report(s)[rate] = delta[rate]
  <2>1. (CHOOSE f \in {totals, delta} : rate \in DOMAIN f) = delta
    <3>1. \A f \in {totals, delta} : rate \in DOMAIN f => f = delta
      BY <1>2, Zenon
    <3> QED BY <1>3, <1>5, <3>1, Zenon
  <2>2. rate \in DOMAIN report(s)
    BY <1>4, <1>5
  <2> QED BY <1>1, <2>1, <2>2, Zenon DEF Joined
<1> QED BY <1>4, <1>5, Zenon DEF RateOf, delta

\* The statistics of the operations since the previous scrape.
Since(s) == diffOperations(sAgg[s].summary.operations, sPrevious[s].summary.operations)

\* calc averages over the requests, if there were any.
LEMMA CalcIs ==
  ASSUME NEW op, op.Requests \in Nat
  PROVE  /\ IF op.Requests > 0 THEN calc(op).rtt[2] = op.Requests ELSE calc(op).rtt = <<0, 1>>
         /\ IF op.Requests > 0 THEN calc(op).exe[2] = op.Requests ELSE calc(op).exe = <<0, 1>>
BY DEF calc

\* The period of the operations per second is that since the previous scrape; the
\* times are averages over the requests since then.
LEMMA RateIs ==
  ASSUME NEW s, hasPrevious(s)
  PROVE  /\ RateOf("NfsMountOpsPerSecond", s)[2] = sAgg[s].summary.age - sPrevious[s].summary.age
         /\ \A m \in DOMAIN AveragedOperation :
              LET op == lookup(Since(s), AveragedOperation[m]) IN
                RateOf(m, s) = calc(op).rtt \/ RateOf(m, s) = calc(op).exe
<1> DEFINE old == IF s \in DOMAIN sPrevious THEN sPrevious[s].summary ELSE ZeroSummary
           diff == diffSummary(sAgg[s].summary, old)
           sends == diff.counters["Sends"]
           backlog == IF sends > 0 THEN <<diff.counters["CumulativeBacklog"], sends * diff.age>>
                      ELSE <<0, diff.age>>
           read == calc(lookup(diff.operations, "READ"))
           write == calc(lookup(diff.operations, "WRITE"))
           delta == [NfsMountOpsPerSecond |-> <<sends, diff.age>>, NfsMountRPCBacklog |-> backlog,
                     NfsMountReadExe |-> read.exe, NfsMountReadRtt |-> read.rtt,
                     NfsMountWriteExe |-> write.exe, NfsMountWriteRtt |-> write.rtt]
<1>1. reportDelta(s) = delta
  BY Zenon DEF reportDelta
<1>2. old = sPrevious[s].summary
  BY Zenon DEF hasPrevious
<1> HIDE DEF old
<1>3. diff.age = sAgg[s].summary.age - old.age /\ diff.operations = Since(s)
  BY <1>2 DEF diffSummary, Since
<1> HIDE DEF diff
<1>4. read = calc(lookup(Since(s), "READ")) /\ write = calc(lookup(Since(s), "WRITE"))
  BY <1>3, Zenon
<1> HIDE DEF sends, backlog, read, write
<1>5. /\ delta["NfsMountOpsPerSecond"][2] = diff.age
      /\ delta["NfsMountReadExe"] = read.exe /\ delta["NfsMountReadRtt"] = read.rtt
      /\ delta["NfsMountWriteExe"] = write.exe /\ delta["NfsMountWriteRtt"] = write.rtt
  OBVIOUS
<1> HIDE DEF delta
<1>6. \A m \in RateMetrics : RateOf(m, s) = delta[m]
  BY <1>1, ReportRate, Zenon
<1>7. RateOf("NfsMountOpsPerSecond", s)[2] = sAgg[s].summary.age - sPrevious[s].summary.age
  <2>1. "NfsMountOpsPerSecond" \in RateMetrics
    BY Zenon DEF RateMetrics
  <2> QED BY <1>2, <1>3, <1>5, <1>6, <2>1, Zenon
<1>8. ASSUME NEW m \in DOMAIN AveragedOperation
      PROVE  LET op == lookup(Since(s), AveragedOperation[m]) IN
               RateOf(m, s) = calc(op).rtt \/ RateOf(m, s) = calc(op).exe
  <2> DEFINE of == calc(lookup(Since(s), AveragedOperation[m]))
  <2>1. RateOf(m, s) = delta[m]
    BY <1>6, Zenon DEF RateMetrics
  <2>2. \/ m \in {"NfsMountReadExe", "NfsMountReadRtt"} /\ AveragedOperation[m] = "READ"
        \/ m \in {"NfsMountWriteExe", "NfsMountWriteRtt"} /\ AveragedOperation[m] = "WRITE"
    BY DEF AveragedOperation
  <2>3. \/ m \in {"NfsMountReadExe", "NfsMountReadRtt"} /\ of = read
        \/ m \in {"NfsMountWriteExe", "NfsMountWriteRtt"} /\ of = write
    BY <1>4, <2>2, Zenon
  <2> HIDE DEF of
  <2>4. delta[m] = of.rtt \/ delta[m] = of.exe
    BY <1>5, <2>3
  <2> QED BY <2>1, <2>4, Zenon DEF of
<1> QED BY <1>7, <1>8, Zenon

\* The requests since the previous scrape are the difference, and no less than zero.
LEMMA SinceIs ==
  ASSUME NEW s, sAgg[s].summary \in Summaries, sPrevious[s].summary \in Summaries, NEW o
  PROVE  lookup(Since(s), o).Requests = sub(Count(sAgg[s].summary, o), Count(sPrevious[s].summary, o))
<1> DEFINE new == sAgg[s].summary.operations
           old == sPrevious[s].summary.operations
           diff == Since(s)
<1>1. new \in Partial(Operations, OpStats) /\ old \in Partial(Operations, OpStats)
  BY DEF Summaries
<1>2. /\ DOMAIN diff = DOMAIN new
      /\ \A x \in DOMAIN new : diff[x] = IF x \in DOMAIN old THEN diffOperation(new[x], old[x]) ELSE new[x]
  BY Zenon DEF Since, diffOperations
<1>3. Count(sAgg[s].summary, o) = lookup(new, o).Requests /\ Count(sPrevious[s].summary, o) = lookup(old, o).Requests
  BY Zenon DEF Count
<1> HIDE DEF new, old, diff
<1>4. lookup(new, o).Requests \in Nat /\ lookup(old, o).Requests \in Nat
  BY <1>1, LookupIs, Zenon
<1>5. CASE o \notin DOMAIN new
  <2>1. lookup(new, o) = ZeroOp /\ lookup(diff, o) = ZeroOp
    BY <1>2, <1>5, Zenon DEF lookup
  <2>2. \A y \in Nat : sub(0, y) = 0
    BY DEF sub
  <2>3. lookup(diff, o).Requests = sub(lookup(new, o).Requests, lookup(old, o).Requests)
    BY <1>4, <2>1, <2>2, ZeroOpIs, Zenon
  <2> QED BY <1>3, <2>3, Zenon DEF diff
<1>6. CASE o \in DOMAIN new /\ o \notin DOMAIN old
  <2>1. lookup(old, o) = ZeroOp /\ lookup(diff, o) = lookup(new, o)
    BY <1>2, <1>6, Zenon DEF lookup
  <2>2. \A x \in Nat : sub(x, 0) = x
    BY DEF sub
  <2>3. lookup(diff, o).Requests = sub(lookup(new, o).Requests, lookup(old, o).Requests)
    BY <1>4, <2>1, <2>2, ZeroOpIs, Zenon
  <2> QED BY <1>3, <2>3, Zenon DEF diff
<1>7. CASE o \in DOMAIN new /\ o \in DOMAIN old
  <2>1. lookup(diff, o) = diffOperation(lookup(new, o), lookup(old, o))
    BY <1>2, <1>7, Zenon DEF lookup
  <2>2. "Requests" \in OpFields
    BY DEF OpFields
  <2> DEFINE x == lookup(new, o)
             y == lookup(old, o)
  <2> HIDE DEF x, y
  <2>3. diffOperation(x, y).Requests = sub(x.Requests, y.Requests)
    BY <2>2 DEF diffOperation
  <2> QED BY <1>3, <2>1, <2>3, Zenon DEF x, y, diff
<1> QED BY <1>5, <1>6, <1>7

\* The point of the rate of server s, and those of the servers S.
RatePointOf(rate, s) ==
  [attributes |-> [a \in ByMount |->
     [server |-> s, instance |-> sAgg[s].instance, operation |-> NoInstance][a]],
   ts |-> kTime, val |-> RateOf(rate, s), count |-> 1]
RatePoints(rate, S) == {RatePointOf(rate, s) : s \in {t \in S : hasPrevious(t)}}

\* The point of a rate has the server and the rate.
LEMMA RatePointIs ==
  ASSUME NEW rate, NEW s
  PROVE  /\ RatePointOf(rate, s).attributes["server"] = s /\ RatePointOf(rate, s).val = RateOf(rate, s)
<1>1. "server" \in ByMount
  BY DEF ByMount
<1>2. [server |-> s, instance |-> sAgg[s].instance, operation |-> NoInstance]["server"] = s
  OBVIOUS
<1>3. RatePointOf(rate, s).attributes = [a \in ByMount |->
        [server |-> s, instance |-> sAgg[s].instance, operation |-> NoInstance][a]]
  BY Zenon DEF RatePointOf
<1>4. RatePointOf(rate, s).val = RateOf(rate, s)
  BY Zenon DEF RatePointOf
<1> QED BY <1>1, <1>2, <1>3, <1>4, Zenon

\* By default the rates are enabled, merged, and told apart by server.
LEMMA RateConfig ==
  ASSUME NEW rate \in RateMetrics
  PROVE  /\ rate \in DOMAIN mountsMetrics
         /\ mountsMetrics[rate].aggregated
         /\ DefaultMetricConfig(mountsMetrics[rate]).enabled
         /\ DefaultMetricConfig(mountsMetrics[rate]).attributes = ByMount
<1>1. rate \in DOMAIN mountsMetrics /\ mountsMetrics[rate] = AggregatedGauge(ByMount)
  <2>1. rate \in {"NfsMountOpsPerSecond", "NfsMountReadExe", "NfsMountReadRtt", "NfsMountWriteExe",
                  "NfsMountWriteRtt"}
    BY DEF RateMetrics, AveragedOperation
  <2> QED BY <2>1 DEF mountsMetrics, metricNfsMountOpsPerSecond, metricNfsMountReadExe,
            metricNfsMountReadRtt, metricNfsMountWriteExe, metricNfsMountWriteRtt
<1>2. /\ AggregatedGauge(ByMount).aggregated
      /\ DefaultMetricConfig(AggregatedGauge(ByMount)).enabled
      /\ DefaultMetricConfig(AggregatedGauge(ByMount)).attributes = ByMount
  BY Zenon DEF AggregatedGauge, DefaultMetricConfig
<1> QED BY <1>1, <1>2, Zenon

\* The rate of a server is appended: no other point has its server.
LEMMA RateAppended ==
  ASSUME NEW rate \in RateMetrics, NEW S, NEW s, s \notin S, hasPrevious(s), NEW points \in Seq(RatePoints(rate, S))
  PROVE  recordDataPoint(mountsMetrics[rate], DefaultMetricConfig(mountsMetrics[rate]),
                         points, kTime, RateOf(rate, s),
                         [server |-> s, instance |-> sAgg[s].instance, operation |-> NoInstance])
           = Append(points, RatePointOf(rate, s))
<1> DEFINE attrs == [server |-> s, instance |-> sAgg[s].instance, operation |-> NoInstance]
           metric == mountsMetrics[rate]
           config == DefaultMetricConfig(metric)
           put == [a \in config.attributes |-> attrs[a]]
           same == {i \in DOMAIN points : points[i].attributes = put /\ points[i].ts = kTime}
<1>1. metric.aggregated /\ config.enabled /\ config.attributes = ByMount
  BY RateConfig, Zenon
<1> HIDE DEF metric, config
<1>2. put = [a \in ByMount |-> attrs[a]]
  BY <1>1, Zenon
<1>3. put["server"] = s
  <2>1. "server" \in ByMount
    BY DEF ByMount
  <2>2. attrs["server"] = s
    OBVIOUS
  <2> HIDE DEF attrs
  <2> QED BY <1>2, <2>1, <2>2, Zenon
<1>4. same = {}
  <2>1. ASSUME NEW i \in DOMAIN points
        PROVE  points[i].attributes # put
    <3>1. points[i] \in RatePoints(rate, S)
      BY <2>1, SeqElement
    <3>2. PICK t \in S : points[i] = RatePointOf(rate, t)
      BY <3>1, Zenon DEF RatePoints
    <3>3. points[i].attributes["server"] = t
      BY <3>2, RatePointIs, Zenon
    <3> HIDE DEF put
    <3> QED BY <1>3, <3>3, Zenon
  <2> HIDE DEF put
  <2> QED BY <2>1, Zenon
<1>5. recordDataPoint(metric, config, points, kTime, RateOf(rate, s), attrs)
        = Append(points, [attributes |-> put, ts |-> kTime, val |-> RateOf(rate, s), count |-> 1])
  <2> HIDE DEF attrs
  <2> QED BY <1>1, <1>4, Zenon DEF recordDataPoint
<1>6. [attributes |-> put, ts |-> kTime, val |-> RateOf(rate, s), count |-> 1] = RatePointOf(rate, s)
  BY <1>2, Zenon DEF RatePointOf
<1> QED BY <1>5, <1>6, Zenon DEF metric, config

\* recordServer adds at most the one rate of its server to those of the servers
\* before it.
LEMMA RateRecorded ==
  ASSUME NEW data, NEW rate \in RateMetrics, rate \in DOMAIN data, NEW s,
         IsFiniteSet(DOMAIN sAgg[s].summary.operations),
         NEW S, s \notin S, data[rate] \in Seq(RatePoints(rate, S))
  PROVE  /\ DOMAIN recordServer(data, s) = DOMAIN data
         /\ recordServer(data, s)[rate] \in Seq(RatePoints(rate, S \cup {s}))
<1> DEFINE d == recordOperations(data, s)
           points == data[rate]
<1>1. DOMAIN d = DOMAIN data /\ d[rate] = points
  BY OperationsElsewhere, Zenon
<1>2. recordServer(data, s) = record(d, s, NoInstance, report(s))
  BY Zenon DEF recordServer
<1> HIDE DEF d, points
<1>3. points \in Seq(RatePoints(rate, S \cup {s}))
  <2>1. RatePoints(rate, S) \subseteq RatePoints(rate, S \cup {s})
    BY Zenon DEF RatePoints
  <2> HIDE DEF points
  <2>2. points \in Seq(RatePoints(rate, S))
    BY Zenon DEF points
  <2> QED BY <2>1, <2>2, SeqWider, Zenon
<1>4. CASE hasPrevious(s)
  <2>1. rate \in DOMAIN report(s) /\ report(s)[rate] = RateOf(rate, s)
    BY <1>4, ReportRate, Zenon DEF RateOf
  <2>2. record(d, s, NoInstance, report(s))[rate] = Append(points, RatePointOf(rate, s))
    <3>1. record(d, s, NoInstance, report(s))[rate] =
            recordDataPoint(mountsMetrics[rate], DefaultMetricConfig(mountsMetrics[rate]),
                            points, kTime, RateOf(rate, s),
                         [server |-> s, instance |-> sAgg[s].instance, operation |-> NoInstance])
      BY <1>1, <2>1, Zenon DEF record
    <3>2. points \in Seq(RatePoints(rate, S))
      BY Zenon DEF points
    <3> QED BY <1>4, <3>1, <3>2, RateAppended, Zenon
  <2>3. RatePointOf(rate, s) \in RatePoints(rate, S \cup {s})
    BY <1>4, Zenon DEF RatePoints
  <2>4. Append(points, RatePointOf(rate, s)) \in Seq(RatePoints(rate, S \cup {s}))
    BY <1>3, <2>3
  <2>5. DOMAIN record(d, s, NoInstance, report(s)) = DOMAIN d
    BY Zenon DEF record
  <2> QED BY <1>1, <1>2, <2>2, <2>4, <2>5, Zenon
<1>5. CASE ~hasPrevious(s)
  <2>1. rate \notin DOMAIN report(s)
    BY <1>5, ReportRate, Zenon
  <2>2. /\ DOMAIN record(d, s, NoInstance, report(s)) = DOMAIN d
        /\ record(d, s, NoInstance, report(s))[rate] = d[rate]
    BY <1>1, <2>1, RecordElsewhere
  <2> QED BY <1>1, <1>2, <1>3, <2>2, Zenon
<1> QED BY <1>4, <1>5

\* The rates that a scrape reports are those of its servers that have a previous scrape.
LEMMA RatesRecorded ==
  ASSUME NEW rate \in RateMetrics, IsFiniteSet(DOMAIN sAgg),
         \A s \in DOMAIN sAgg : IsFiniteSet(DOMAIN sAgg[s].summary.operations)
  PROVE  recordAll[rate] \in Seq(RatePoints(rate, DOMAIN sAgg))
<1> DEFINE D == DOMAIN sAgg
           data == [m \in DOMAIN mountsMetrics |-> <<>>]
           F == CHOOSE f : f = [t \in SUBSET D |-> ServersRound(data, f, t)]
<1>1. recordAll = F[D]
  BY Zenon DEF recordAll, FoldSet, MapThenFoldSet, First, ServersRound
<1>a. IsFiniteSet(D) /\ \A s \in D : IsFiniteSet(DOMAIN sAgg[s].summary.operations)
  OBVIOUS
<1>b. rate \in DOMAIN data /\ data[rate] = <<>>
  BY RateConfig, Zenon
<1> HIDE DEF D, F, data
<1>2. F = [t \in SUBSET D |-> ServersRound(data, F, t)]
  <2>1. \E h : ServersTable(data, D, h)
    BY <1>a, ServersExists, Zenon
  <2> QED BY <2>1, Zenon DEF F, ServersTable
<1>3. \A t \in SUBSET D : F[t] = ServersRound(data, F, t)
  BY <1>2, Zenon
<1> DEFINE Q == {t \in SUBSET D : DOMAIN F[t] = DOMAIN data /\ F[t][rate] \in Seq(RatePoints(rate, t))}
<1>4. {} \in Q
  <2>1. F[{}] = data
    BY <1>3, Zenon DEF ServersRound
  <2>2. << >> \in Seq(RatePoints(rate, {}))
    OBVIOUS
  <2> QED BY <1>b, <2>1, <2>2, Zenon
<1>5. ASSUME NEW t \in SUBSET D, t # {}, t \ {First(t)} \in Q
      PROVE  t \in Q
  <2> DEFINE u == t \ {First(t)}
             d == F[u]
  <2>1. F[t] = recordServer(d, First(t))
    BY <1>3, <1>5, Zenon DEF ServersRound
  <2>2. DOMAIN d = DOMAIN data /\ d[rate] \in Seq(RatePoints(rate, u))
    BY <1>5, Zenon
  <2>3. First(t) \in t
    BY <1>5, Zenon DEF First
  <2>4. IsFiniteSet(DOMAIN sAgg[First(t)].summary.operations)
    BY <1>a, <2>3, Zenon
  <2>5. First(t) \notin u /\ u \cup {First(t)} = t
    BY <2>3
  <2> HIDE DEF d, u
  <2>6. rate \in DOMAIN d
    BY <1>b, <2>2, Zenon
  <2>7. /\ DOMAIN recordServer(d, First(t)) = DOMAIN d
        /\ recordServer(d, First(t))[rate] \in Seq(RatePoints(rate, u \cup {First(t)}))
    BY <2>2, <2>4, <2>5, <2>6, RateRecorded, Zenon
  <2> QED BY <2>1, <2>2, <2>5, <2>7, Zenon
<1>6. \A t \in SUBSET D : t \in Q
  <2> HIDE DEF Q
  <2> QED BY <1>4, <1>5, <1>a, SubsetInduction, Zenon
<1>7. D \in Q
  BY <1>6, Zenon
<1> QED BY <1>1, <1>7, Zenon DEF D
-----------------------------------------------------------------------------
(* The invariant of the receiver mounts. *)

Previous == [instance : Names, summary : Summaries]

ScrapeTyped ==
  /\ sPc \in {"idle", "stats", "query"}
  /\ sIds \in Partial(MountPaths, Nat)
  /\ sAgg \in Aggregates(Names)
  /\ sPrevious \in Partial(Servers, Previous)
  /\ sInfo \in Counts /\ sMark \in Counts /\ sLimit \in Counts
  /\ \A s \in Servers, o \in AllOperations :
       sInfo[s][o] <= kServed[s][o] /\ sMark[s][o] <= kServed[s][o]

\* The names: without queries there are none; a server that was asked has one if it
\* had one, unless it is excluded.
Named ==
  \A s \in DOMAIN sAgg \ sTodo :
    ~excluded(s) /\ previousInstanceName(s) # NoInstance => sAgg[s].instance # NoInstance
Nameless ==
  /\ sTodo = {}
  /\ \A s \in DOMAIN sAgg : sAgg[s].instance = NoInstance
  /\ \A s \in DOMAIN sPrevious : sPrevious[s].instance = NoInstance
NamesKept ==
  /\ sTodo \in SUBSET DOMAIN sAgg
  /\ ~QueryEnabled => Nameless
  /\ sPc = "query" /\ QueryEnabled => Named

\* The requests for o of server s that the kernel has counters for.
Live(s, o) == Total(Requests(kSuper, o), FsOf(kMounted, s))

\* All but the requests since mark are in the statistics.
SeenOf(summary, s, o, mark) ==
  \/ Count(summary, o) = MaxUint64
  \/ Live(s, o) <= Count(summary, o) + (kServed[s][o] - mark[s][o])
Seen(summary, s, mark) == \A o \in AllOperations : SeenOf(summary, s, o, mark)

\* From the one summary to the other there are at most limit requests.
Within(new, old, s, limit) == \A o \in AllOperations : sub(Count(new, o), Count(old, o)) <= limit[s][o]

\* Between the two reads of a scrape.
Reading ==
  /\ DOMAIN sIds \in SUBSET kMounted /\ Matching(DOMAIN sIds)
  /\ \A s \in Servers, o \in AllOperations :
       Live(s, o) <= Total(Requests(kSuper, o), FsOf(DOMAIN sIds, s)) + (kServed[s][o] - sInfo[s][o])
Reported ==
  \A s \in DOMAIN sAgg :
    /\ Seen(sAgg[s].summary, s, sInfo)
    /\ s \in DOMAIN sPrevious => Within(sAgg[s].summary, sPrevious[s].summary, s, sLimit)
RatesKept ==
  /\ \A s \in DOMAIN sPrevious : Seen(sPrevious[s].summary, s, sMark)
  /\ sPc # "idle" => sOut = <<>>
  /\ sPc = "stats" => Reading
  /\ sPc = "query" => Reported
  /\ RatesHonest

\* What is kept of the kernel and of the receiver.
MountsInv ==
  /\ KernelTyped /\ DevicesApart /\ ScrapeTyped /\ NamesKept
  /\ ~UmountsInScrape => RatesKept

-----------------------------------------------------------------------------

\* What was served is a number.
LEMMA CountsIs ==
  ASSUME NEW c \in Counts, NEW s \in Servers, NEW o \in AllOperations
  PROVE  c[s][o] \in Nat
BY DEF Counts

\* The live requests of a server have a sum.
LEMMA LiveIs ==
  ASSUME KernelTyped, NEW s, NEW o
  PROVE  Live(s, o) \in Nat
<1>1. kMounted \in SUBSET kMounted
  OBVIOUS
<1> QED BY <1>1, FsOfIs, Zenon DEF Live

\* So they do after a step.
LEMMA LiveNext ==
  ASSUME NEW s, NEW o
  PROVE  KernelTyped' => (Live(s, o) \in Nat)'
<1>1. KernelTyped => Live(s, o) \in Nat
  BY LiveIs
<1> QED BY <1>1, PTL

\* Where nothing was emitted no rate is wrong.
LEMMA EmptyHonest ==
  ASSUME sOut = <<>>
  PROVE  RatesHonest
BY DEF RatesHonest

\* MountsInv holds before the first scrape.
LEMMA MountsStart ==
  ASSUME MountsInit
  PROVE  MountsInv
<1> USE DEF MountsInit
<1>1. kMounted = {} /\ DOMAIN kSuper = {} /\ kSuper \in [{} -> Superblocks]
  OBVIOUS
<1>2. {RemoteFs[p] : p \in kMounted} = {}
  BY <1>1, Zenon
<1>b. kServed \in Counts
  BY DEF Counts
<1>3. KernelTyped
  <2>1. kSuper \in [{RemoteFs[p] : p \in kMounted} -> Superblocks]
    BY <1>1, <1>2, Zenon
  <2>2. kTime \in Int /\ kMounted \in SUBSET MountPaths
    OBVIOUS
  <2>3. kXprt \in [{ServerOf[p] : p \in kMounted} -> Xprts]
    <3>1. kXprt \in [{} -> Xprts]
      OBVIOUS
    <3>2. {ServerOf[p] : p \in kMounted} = {}
      BY <1>1, Zenon
    <3> QED BY <3>1, <3>2, Zenon
  <2> QED BY <1>b, <2>1, <2>2, <2>3, Zenon DEF KernelTyped
<1>4. DevicesApart
  BY <1>1, Zenon DEF DevicesApart
<1>5. DOMAIN sAgg = {} /\ DOMAIN sPrevious = {}
  OBVIOUS
<1>6. ScrapeTyped
  <2>1. /\ sIds \in Partial(MountPaths, Nat) /\ sAgg \in Aggregates(Names)
        /\ sPrevious \in Partial(Servers, Previous)
    BY PartialEmpty, Zenon DEF Aggregates
  <2>2. /\ sInfo \in Counts /\ sMark \in Counts /\ sLimit \in Counts
        /\ \A s \in Servers, o \in AllOperations :
             sInfo[s][o] <= kServed[s][o] /\ sMark[s][o] <= kServed[s][o]
    <3>1. sInfo = kServed /\ sMark = kServed /\ sLimit = kServed
      OBVIOUS
    <3>2. \A s \in Servers, o \in AllOperations : kServed[s][o] \in Nat
      BY <1>b, CountsIs, Zenon
    <3>3. \A s \in Servers, o \in AllOperations : kServed[s][o] <= kServed[s][o]
      BY <3>2
    <3> QED BY <1>b, <3>1, <3>3, Zenon
  <2>3. sPc \in {"idle", "stats", "query"}
    OBVIOUS
  <2> QED BY <2>1, <2>2, <2>3, Zenon DEF ScrapeTyped
<1>7. sPc = "idle" /\ sPc # "query" /\ sPc # "stats" /\ sTodo = {} /\ sOut = <<>>
  OBVIOUS
<1>8. NamesKept
  BY <1>5, <1>7, Zenon DEF NamesKept, Nameless
<1>9. RatesKept
  BY <1>5, <1>7, EmptyHonest, Zenon DEF RatesKept
<1> QED BY <1>3, <1>4, <1>6, <1>8, <1>9, Zenon DEF MountsInv

-----------------------------------------------------------------------------
(* Steps of the kernel. *)

\* No more requests are counted than served.
Paced ==
  \A s \in Servers, o \in AllOperations :
    /\ kServed[s][o] <= kServed'[s][o]
    /\ Live(s, o)' <= Live(s, o) + (kServed'[s][o] - kServed[s][o])

\* A step of the kernel that keeps this pace keeps statistics complete but for
\* the operations since their mark.
LEMMA SeenKept ==
  ASSUME KernelTyped, KernelTyped', Paced, NEW s \in Servers, NEW summary \in Summaries,
         NEW o \in AllOperations, NEW mark \in Counts, mark[s][o] <= kServed[s][o],
         SeenOf(summary, s, o, mark), NEW next, next = summary
  PROVE  \/ Count(next, o) = MaxUint64
         \/ Live(s, o)' <= Count(next, o) + (kServed'[s][o] - mark[s][o])
<1>1. Count(summary, o) \in Nat
  <2>1. summary.operations \in Partial(Operations, OpStats)
    BY DEF Summaries
  <2> QED BY <2>1, LookupIs, Zenon DEF Count
<1>2. kServed[s][o] \in Nat /\ kServed'[s][o] \in Nat /\ mark[s][o] \in Nat
  <2>1. kServed \in Counts /\ kServed' \in Counts
    BY Zenon DEF KernelTyped
  <2> QED BY <2>1, CountsIs, Zenon
<1>3. Live(s, o) \in Nat /\ Live(s, o)' \in Nat
  <2>1. Live(s, o) \in Nat
    BY LiveIs
  <2>2. Live(s, o)' \in Nat
    BY LiveNext
  <2> QED BY <2>1, <2>2
<1> DEFINE n == Count(summary, o)
           k == kServed[s][o]
           l == kServed'[s][o]
           live == Live(s, o)
           live1 == Live(s, o)'
           m == mark[s][o]
<1>4. n = MaxUint64 \/ live <= n + (k - m)
  BY Zenon DEF SeenOf
<1>5. k <= l /\ live1 <= live + (l - k)
  BY Zenon DEF Paced
<1>6. n \in Nat /\ k \in Nat /\ l \in Nat /\ live \in Nat /\ live1 \in Nat /\ m \in Nat
  BY <1>1, <1>2, <1>3
<1> HIDE DEF n, k, l, live, live1, m
<1>7. n = MaxUint64 \/ live1 <= n + (l - m)
  BY <1>4, <1>5, <1>6
<1> QED BY <1>7, Zenon DEF n, k, l, live, live1, m

\* A step of the kernel that keeps this pace keeps what is known of the scrapes.
LEMMA KernelKeeps ==
  ASSUME MountsInv, KernelTyped', DevicesApart', scrapeVars' = scrapeVars, Paced,
         ~UmountsInScrape /\ sPc = "stats" /\ Reading => Reading'
  PROVE  MountsInv'
<1>1. /\ sPc' = sPc /\ sIds' = sIds /\ sAgg' = sAgg /\ sTodo' = sTodo /\ sPrevious' = sPrevious
      /\ sOut' = sOut /\ sInfo' = sInfo /\ sMark' = sMark /\ sLimit' = sLimit
  BY DEF scrapeVars
<1>2. KernelTyped /\ ScrapeTyped /\ NamesKept /\ (~UmountsInScrape => RatesKept)
  BY Zenon DEF MountsInv
<1>3. ScrapeTyped'
  <2>1. ASSUME NEW s \in Servers, NEW o \in AllOperations
        PROVE  sInfo'[s][o] <= kServed'[s][o] /\ sMark'[s][o] <= kServed'[s][o]
    <3>1. /\ sInfo[s][o] \in Nat /\ sMark[s][o] \in Nat
          /\ sInfo[s][o] <= kServed[s][o] /\ sMark[s][o] <= kServed[s][o]
      BY <1>2, CountsIs, Zenon DEF ScrapeTyped
    <3>2. kServed[s][o] \in Nat /\ kServed'[s][o] \in Nat
      BY <1>2, CountsIs, Zenon DEF KernelTyped
    <3>3. kServed[s][o] <= kServed'[s][o]
      BY Zenon DEF Paced
    <3> QED BY <1>1, <3>1, <3>2, <3>3
  <2> QED BY <1>1, <1>2, <2>1, Zenon DEF ScrapeTyped
<1>4. NamesKept'
  BY <1>1, <1>2, Zenon DEF NamesKept, Nameless, Named, excluded, previousInstanceName
<1>5. ASSUME ~UmountsInScrape
      PROVE  RatesKept'
  <2>1. RatesKept
    BY <1>2, <1>5
  <2>2. DOMAIN sAgg \in SUBSET Servers /\ sAgg \in [DOMAIN sAgg -> ServerGroups(Names)]
    BY <1>2, PartialIs, Zenon DEF ScrapeTyped, Aggregates
  <2>3. DOMAIN sPrevious \in SUBSET Servers /\ sPrevious \in [DOMAIN sPrevious -> Previous]
    BY <1>2, PartialIs, Zenon DEF ScrapeTyped
  <2>4. sInfo \in Counts /\ sMark \in Counts
    BY <1>2, Zenon DEF ScrapeTyped
  <2>5. \A s \in Servers, o \in AllOperations :
          sInfo[s][o] <= kServed[s][o] /\ sMark[s][o] <= kServed[s][o]
    BY <1>2, Zenon DEF ScrapeTyped
  <2>6. ASSUME NEW s \in DOMAIN sPrevious'
        PROVE  Seen(sPrevious[s].summary, s, sMark)'
    <3>1. s \in Servers /\ s \in DOMAIN sPrevious
      BY <1>1, <2>3
    <3>2. sPrevious[s].summary \in Summaries
      BY <2>3, <3>1 DEF Previous
    <3>3. Seen(sPrevious[s].summary, s, sMark)
      BY <2>1, <3>1, Zenon DEF RatesKept
    <3>4. sPrevious'[s].summary = sPrevious[s].summary
      BY <1>1
    <3>5. ASSUME NEW o \in AllOperations
          PROVE  \/ Count(sPrevious'[s].summary, o) = MaxUint64
                 \/ Live(s, o)' <= Count(sPrevious'[s].summary, o) + (kServed'[s][o] - sMark[s][o])
      <4>1. SeenOf(sPrevious[s].summary, s, o, sMark)
        BY <3>3, Zenon DEF Seen
      <4> QED BY <1>2, <2>4, <2>5, <3>1, <3>2, <3>4, <4>1, SeenKept, Zenon
    <3> QED BY <1>1, <3>5, Zenon DEF Seen, SeenOf
  <2>7. ASSUME sPc' = "query", NEW s \in DOMAIN sAgg'
        PROVE  /\ Seen(sAgg[s].summary, s, sInfo)'
               /\ s \in DOMAIN sPrevious' => Within(sAgg[s].summary, sPrevious[s].summary, s, sLimit)'
    <3>1. s \in Servers /\ s \in DOMAIN sAgg
      BY <1>1, <2>2, <2>7
    <3>2. sAgg[s].summary \in Summaries
      BY <2>2, <3>1 DEF ServerGroups
    <3>3. Reported
      BY <1>1, <2>1, <2>7, Zenon DEF RatesKept
    <3>4. sAgg'[s].summary = sAgg[s].summary
      BY <1>1
    <3>5. Seen(sAgg[s].summary, s, sInfo)
      BY <3>1, <3>3, Zenon DEF Reported
    <3>6. ASSUME NEW o \in AllOperations
          PROVE  \/ Count(sAgg'[s].summary, o) = MaxUint64
                 \/ Live(s, o)' <= Count(sAgg'[s].summary, o) + (kServed'[s][o] - sInfo[s][o])
      <4>1. SeenOf(sAgg[s].summary, s, o, sInfo)
        BY <3>5, Zenon DEF Seen
      <4> QED BY <1>2, <2>4, <2>5, <3>1, <3>2, <3>4, <4>1, SeenKept, Zenon
    <3>7. Seen(sAgg[s].summary, s, sInfo)'
      BY <1>1, <3>6, Zenon DEF Seen, SeenOf
    <3> QED BY <1>1, <3>1, <3>3, <3>7, Zenon DEF Reported, Within
  <2>8. sPc' = "query" => Reported'
    BY <2>7, Zenon DEF Reported
  <2>9. sPc' = "stats" => Reading'
    BY <1>1, <1>5, <2>1, Zenon DEF RatesKept
  <2>10. RatesHonest'
    BY <1>1, <2>1, Zenon DEF RatesKept, RatesHonest
  <2> QED BY <1>1, <2>1, <2>6, <2>8, <2>9, <2>10, Zenon DEF RatesKept
<1> QED BY <1>3, <1>4, <1>5, Zenon DEF MountsInv

\* Time passes.
LEMMA TickKeeps ==
  ASSUME MountsInv, Tick
  PROVE  MountsInv'
<1>1. /\ kTime' = kTime + 1 /\ kMounted' = kMounted /\ kSuper' = kSuper /\ kServed' = kServed
      /\ kXprt' = kXprt /\ scrapeVars' = scrapeVars
  BY Zenon DEF Tick
<1>2. KernelTyped /\ DevicesApart
  BY Zenon DEF MountsInv
<1>3. KernelTyped'
  BY <1>1, <1>2 DEF KernelTyped
<1>4. DevicesApart'
  BY <1>1, <1>2, Zenon DEF DevicesApart
<1>5. \A s, o : Live(s, o)' = Live(s, o)
  BY <1>1, Zenon DEF Live
<1>6. Paced
  <2>1. ASSUME NEW s \in Servers, NEW o \in AllOperations
        PROVE  /\ kServed[s][o] <= kServed'[s][o]
               /\ Live(s, o)' <= Live(s, o) + (kServed'[s][o] - kServed[s][o])
    <3>1. kServed[s][o] \in Nat /\ kServed'[s][o] = kServed[s][o]
      BY <1>1, <1>2, CountsIs, Zenon DEF KernelTyped
    <3>2. Live(s, o) \in Nat /\ Live(s, o)' = Live(s, o)
      BY <1>2, <1>5, LiveIs, Zenon
    <3> QED BY <3>1, <3>2
  <2> QED BY <2>1, Zenon DEF Paced
<1>7. Reading => Reading'
  <2>1. sIds' = sIds /\ sInfo' = sInfo
    BY <1>1 DEF scrapeVars
  <2> QED BY <1>1, <1>5, <2>1, Zenon DEF Reading, Matching
<1> QED BY <1>1, <1>3, <1>4, <1>6, <1>7, KernelKeeps, Zenon

\* A mount keeps MountsInv, in the middle of a scrape too.
LEMMA MountKeeps ==
  ASSUME MountsInv, NEW p \in MountPaths, Mount(p)
  PROVE  MountsInv'
<1>1. KernelTyped /\ DevicesApart
  BY Zenon DEF MountsInv
<1>2. /\ KernelTyped' /\ kServed' = kServed /\ scrapeVars' = scrapeVars
      /\ kMounted \subseteq kMounted'
      /\ \A f \in DOMAIN kSuper : f \in DOMAIN kSuper' /\ kSuper'[f] = kSuper[f]
      /\ DevicesApart'
  BY <1>1, MountEffect, Zenon
<1>3. \A s, o : Live(s, o)' = Live(s, o)
  <2>1. \A s, o : Total(Requests(kSuper', o), FsOf(kMounted', s)) = Total(Requests(kSuper, o), FsOf(kMounted, s))
    BY <1>1, MountEffect, Zenon
  <2> QED BY <2>1, Zenon DEF Live
<1>4. Paced
  <2>1. ASSUME NEW s \in Servers, NEW o \in AllOperations
        PROVE  /\ kServed[s][o] <= kServed'[s][o]
               /\ Live(s, o)' <= Live(s, o) + (kServed'[s][o] - kServed[s][o])
    <3>1. kServed[s][o] \in Nat /\ kServed'[s][o] = kServed[s][o]
      BY <1>1, <1>2, CountsIs, Zenon DEF KernelTyped
    <3>2. Live(s, o) \in Nat /\ Live(s, o)' = Live(s, o)
      BY <1>1, <1>3, LiveIs, Zenon
    <3> QED BY <3>1, <3>2
  <2> QED BY <2>1, Zenon DEF Paced
<1>5. ASSUME Reading
      PROVE  Reading'
  <2>1. sIds' = sIds /\ sInfo' = sInfo
    BY <1>2 DEF scrapeVars
  <2>2. DOMAIN sIds \in SUBSET kMounted /\ DOMAIN sIds \in SUBSET kMounted'
    BY <1>2, <1>5 DEF Reading
  <2>3. ASSUME NEW q \in DOMAIN sIds
        PROVE  sIds[q] = kSuper'[RemoteFs[q]].dev
    <3>1. RemoteFs[q] \in DOMAIN kSuper
      BY <1>1, <2>2, SummaryRead
    <3>2. sIds[q] = kSuper[RemoteFs[q]].dev
      BY <1>5, Zenon DEF Reading, Matching
    <3> QED BY <1>2, <3>1, <3>2, Zenon
  <2>4. ASSUME NEW s, NEW o
        PROVE  Total(Requests(kSuper', o), FsOf(DOMAIN sIds, s)) = Total(Requests(kSuper, o), FsOf(DOMAIN sIds, s))
    <3>1. ASSUME NEW f \in FsOf(DOMAIN sIds, s)
          PROVE  Requests(kSuper', o)[f] = Requests(kSuper, o)[f]
      <4>1. f \in DOMAIN kSuper
        BY <1>1, <2>2, FsOfIs, Zenon
      <4>2. f \in DOMAIN kSuper' /\ kSuper'[f] = kSuper[f]
        BY <1>2, <4>1, Zenon
      <4> QED BY <4>1, <4>2, Zenon DEF Requests
    <3> QED BY <1>1, <2>2, <3>1, RequestsSame, Zenon
  <2>5. Matching(DOMAIN sIds)'
    BY <2>1, <2>3, Zenon DEF Matching
  <2>6. \A s \in Servers, o \in AllOperations :
          Live(s, o)' <= Total(Requests(kSuper', o), FsOf(DOMAIN sIds', s)) + (kServed'[s][o] - sInfo'[s][o])
    BY <1>2, <1>3, <1>5, <2>1, <2>4, Zenon DEF Reading
  <2> QED BY <2>1, <2>2, <2>5, <2>6, Zenon DEF Reading
<1> QED BY <1>2, <1>4, <1>5, KernelKeeps, Zenon

\* So does an unmount; one between the two reads of a scrape is left to
\* UmountsInScrape.
LEMMA UmountKeeps ==
  ASSUME MountsInv, NEW p \in MountPaths, Umount(p)
  PROVE  MountsInv'
<1>1. KernelTyped /\ DevicesApart
  BY Zenon DEF MountsInv
<1>2. /\ KernelTyped' /\ kServed' = kServed /\ scrapeVars' = scrapeVars
      /\ sPc = "stats" => UmountsInScrape
      /\ DevicesApart'
  BY <1>1, UmountEffect, Zenon
<1>3. \A s, o : Live(s, o)' <= Live(s, o)
  <2>1. \A s, o : Total(Requests(kSuper', o), FsOf(kMounted', s)) <= Total(Requests(kSuper, o), FsOf(kMounted, s))
    BY <1>1, UmountEffect, Zenon
  <2> QED BY <2>1, Zenon DEF Live
<1>4. Paced
  <2>1. ASSUME NEW s \in Servers, NEW o \in AllOperations
        PROVE  /\ kServed[s][o] <= kServed'[s][o]
               /\ Live(s, o)' <= Live(s, o) + (kServed'[s][o] - kServed[s][o])
    <3>1. kServed[s][o] \in Nat /\ kServed'[s][o] = kServed[s][o]
      BY <1>1, <1>2, CountsIs, Zenon DEF KernelTyped
    <3>2. Live(s, o) \in Nat /\ Live(s, o)' <= Live(s, o)
      BY <1>1, <1>3, LiveIs, Zenon
    <3>3. Live(s, o)' \in Nat
      BY <1>2, LiveNext
    <3> QED BY <3>1, <3>2, <3>3
  <2> QED BY <2>1, Zenon DEF Paced
<1> QED BY <1>2, <1>4, KernelKeeps, Zenon

\* So does an operation: it is among those served since every mark.
LEMMA ServeKeeps ==
  ASSUME MountsInv, NEW p \in MountPaths, NEW o \in Operations, NEW d \in Delays, Serve(p, o, d)
  PROVE  MountsInv'
<1>1. KernelTyped /\ DevicesApart
  BY Zenon DEF MountsInv
<1>2. /\ KernelTyped' /\ kMounted' = kMounted /\ scrapeVars' = scrapeVars
      /\ DOMAIN kSuper' = DOMAIN kSuper
      /\ \A f \in DOMAIN kSuper : kSuper'[f].dev = kSuper[f].dev
      /\ ServerOf[p] \in Servers
      /\ kServed' = [kServed EXCEPT ![ServerOf[p]][o] = @ + 1]
  BY <1>1, ServeEffect, Zenon
<1>3. DevicesApart'
  BY <1>1, <1>2, Zenon DEF DevicesApart
<1> DEFINE Sum1(Q, s, x) == Total(Requests(kSuper, x), FsOf(Q, s))
           SumN(Q, s, x) == Total(Requests(kSuper', x), FsOf(Q, s))
           Done1(s, x) == kServed'[s][x] - kServed[s][x]
<1>4. ASSUME NEW s \in Servers, NEW x \in AllOperations
      PROVE  /\ kServed[s][x] \in Nat /\ kServed'[s][x] \in Nat
             /\ Done1(s, x) >= 0
             /\ s = ServerOf[p] => Done1(s, x) = IF x = o THEN 1 ELSE 0
  <2>1. kServed \in Counts /\ kServed' \in Counts
    BY <1>1, <1>2, Zenon DEF KernelTyped
  <2>2. kServed[s][x] \in Nat /\ kServed'[s][x] \in Nat
    BY <2>1, CountsIs, Zenon
  <2>3. kServed'[s][x] = IF s = ServerOf[p] /\ x = o THEN kServed[s][x] + 1 ELSE kServed[s][x]
    BY <1>2, <2>1 DEF Counts
  <2> QED BY <2>2, <2>3
<1>5. ASSUME NEW s \in Servers, NEW x \in AllOperations
      PROVE  /\ Live(s, x)' <= Live(s, x) + Done1(s, x)
             /\ \A Q \in SUBSET kMounted :
                  /\ SumN(Q, s, x) \in Int
                  /\ Live(s, x)' - SumN(Q, s, x) <= Live(s, x) - Sum1(Q, s, x) + Done1(s, x)
  <2> DEFINE inc(n, Q) == IF RemoteFs[p] \in FsOf(Q, s) THEN n ELSE 0
  <2>1. PICK n \in Int : /\ n <= IF x = o THEN 1 ELSE 0
                         /\ \A Q \in SUBSET kMounted : SumN(Q, s, x) = Sum1(Q, s, x) + inc(n, Q)
    <3>1. PICK n \in Int : /\ n <= IF x = o THEN 1 ELSE 0
            /\ \A Q \in SUBSET kMounted : \A v :
                 Total(Requests(kSuper', x), FsOf(Q, v)) =
                   Total(Requests(kSuper, x), FsOf(Q, v)) + IF RemoteFs[p] \in FsOf(Q, v) THEN n ELSE 0
      <4>1. \A y : \E n \in Int : /\ n <= IF y = o THEN 1 ELSE 0
              /\ \A Q \in SUBSET kMounted : \A v :
                   Total(Requests(kSuper', y), FsOf(Q, v)) =
                     Total(Requests(kSuper, y), FsOf(Q, v)) + IF RemoteFs[p] \in FsOf(Q, v) THEN n ELSE 0
        BY <1>1, ServeEffect
      <4> QED BY <4>1
    <3>2. \A Q \in SUBSET kMounted : SumN(Q, s, x) = Sum1(Q, s, x) + inc(n, Q)
      BY <3>1
    <3> HIDE DEF inc, Sum1, SumN
    <3> QED BY <3>1, <3>2
  <2>2. Live(s, x) = Sum1(kMounted, s, x) /\ Live(s, x)' = SumN(kMounted, s, x)
    BY <1>2, Zenon DEF Live
  <2>3. \A Q \in SUBSET kMounted : Sum1(Q, s, x) \in Nat
    BY <1>1, FsOfIs, Zenon
  <2>4. kMounted \in SUBSET kMounted
    OBVIOUS
  <2>5. Done1(s, x) \in Int /\ Done1(s, x) >= 0
    BY <1>4
  <2>6. RemoteFs[p] \in FsOf(kMounted, s) => s = ServerOf[p]
    <3>1. SUFFICES ASSUME NEW q \in kMounted, ServerOf[q] = s, RemoteFs[p] = RemoteFs[q]
                   PROVE  s = ServerOf[p]
      BY Zenon DEF FsOf
    <3>2. q \in MountPaths
      BY <1>1, Zenon DEF KernelTyped
    <3> QED BY <3>1, <3>2, MountStatsAssumption, Zenon
  <2>7. RemoteFs[p] \in FsOf(kMounted, s) => n <= Done1(s, x)
    BY <1>4, <2>1, <2>6
  <2>8. \A Q \in SUBSET kMounted : RemoteFs[p] \in FsOf(Q, s) => RemoteFs[p] \in FsOf(kMounted, s)
    BY Zenon DEF FsOf
  <2>9. /\ inc(n, kMounted) \in Int /\ inc(n, kMounted) <= Done1(s, x)
        /\ \A Q \in SUBSET kMounted : /\ inc(n, Q) \in Int
                                      /\ inc(n, kMounted) - inc(n, Q) <= Done1(s, x)
    <3> HIDE DEF Done1
    <3> QED BY <2>1, <2>5, <2>7, <2>8
  <2> HIDE DEF add, Sum1, SumN, Done1
  <2>10. ASSUME NEW Q \in SUBSET kMounted
         PROVE  /\ SumN(Q, s, x) \in Int
                /\ Live(s, x)' - SumN(Q, s, x) <= Live(s, x) - Sum1(Q, s, x) + Done1(s, x)
    <3>1. SumN(Q, s, x) = Sum1(Q, s, x) + inc(n, Q) /\ SumN(kMounted, s, x) = Sum1(kMounted, s, x) + inc(n, kMounted)
      BY <2>1, <2>4, Zenon
    <3>2. Sum1(Q, s, x) \in Nat /\ Sum1(kMounted, s, x) \in Nat
      BY <2>3, <2>4, Zenon
    <3> QED BY <2>2, <2>5, <2>9, <3>1, <3>2
  <2>11. Live(s, x)' <= Live(s, x) + Done1(s, x)
    <3>1. SumN(kMounted, s, x) = Sum1(kMounted, s, x) + inc(n, kMounted) /\ Sum1(kMounted, s, x) \in Nat
      BY <2>1, <2>3, <2>4, Zenon
    <3> QED BY <2>2, <2>5, <2>9, <3>1
  <2> QED BY <2>10, <2>11
<1>6. Paced
  <2>1. ASSUME NEW s \in Servers, NEW x \in AllOperations
        PROVE  /\ kServed[s][x] <= kServed'[s][x]
               /\ Live(s, x)' <= Live(s, x) + (kServed'[s][x] - kServed[s][x])
    <3>1. kServed[s][x] <= kServed'[s][x]
      BY <1>4
    <3>2. Live(s, x)' <= Live(s, x) + (kServed'[s][x] - kServed[s][x])
      BY <1>5, Zenon
    <3> QED BY <3>1, <3>2
  <2> QED BY <2>1, Zenon DEF Paced
<1>7. ASSUME Reading
      PROVE  Reading'
  <2>1. sIds' = sIds /\ sInfo' = sInfo
    BY <1>2 DEF scrapeVars
  <2>2. DOMAIN sIds \in SUBSET kMounted
    BY <1>7, Zenon DEF Reading
  <2>3. ASSUME NEW q \in DOMAIN sIds
        PROVE  sIds[q] = kSuper'[RemoteFs[q]].dev
    <3>1. RemoteFs[q] \in DOMAIN kSuper
      BY <1>1, <2>2, SummaryRead
    <3>2. sIds[q] = kSuper[RemoteFs[q]].dev
      BY <1>7, Zenon DEF Reading, Matching
    <3> QED BY <1>2, <3>1, <3>2, Zenon
  <2>4. Matching(DOMAIN sIds)'
    BY <2>1, <2>3, Zenon DEF Matching
  <2>5. ASSUME NEW s \in Servers, NEW x \in AllOperations
        PROVE  Live(s, x)' <= Total(Requests(kSuper', x), FsOf(DOMAIN sIds', s)) + (kServed'[s][x] - sInfo'[s][x])
    <3> DEFINE t == Sum1(DOMAIN sIds, s, x)
               t1 == SumN(DOMAIN sIds, s, x)
    <3>1. t \in Nat
      BY <1>1, <2>2, FsOfIs, Zenon
    <3>2. t1 \in Int
      BY <1>5, <2>2, Zenon
    <3>3. Live(s, x) \in Nat /\ Live(s, x)' \in Nat
      <4>1. Live(s, x) \in Nat
        BY <1>1, LiveIs
      <4>2. Live(s, x)' \in Nat
        BY <1>2, LiveNext
      <4> QED BY <4>1, <4>2
    <3>4. sInfo[s][x] \in Nat
      <4>1. sInfo \in Counts
        BY Zenon DEF MountsInv, ScrapeTyped
      <4> QED BY <4>1, CountsIs, Zenon
    <3>5. Live(s, x) <= t + (kServed[s][x] - sInfo[s][x])
      BY <1>7, Zenon DEF Reading
    <3>6. Live(s, x)' - t1 <= Live(s, x) - t + Done1(s, x)
      BY <1>5, <2>2, Zenon
    <3>7. kServed[s][x] \in Nat /\ kServed'[s][x] \in Nat
      BY <1>4
    <3> HIDE DEF t, t1
    <3>8. Live(s, x)' <= t1 + (kServed'[s][x] - sInfo[s][x])
      BY <3>1, <3>2, <3>3, <3>4, <3>5, <3>6, <3>7
    <3> QED BY <2>1, <3>8, Zenon DEF t1
  <2> QED BY <1>2, <2>1, <2>2, <2>4, <2>5, Zenon DEF Reading
<1> QED BY <1>2, <1>3, <1>6, <1>7, KernelKeeps, Zenon

-----------------------------------------------------------------------------
(* Steps of a scrape. *)

\* A step of the receiver leaves the kernel alone.
LEMMA KernelStill ==
  ASSUME MountsInv, kernelVars' = kernelVars
  PROVE  /\ KernelTyped' /\ DevicesApart' /\ kServed' = kServed /\ kMounted' = kMounted
         /\ kSuper' = kSuper /\ \A s, o : Live(s, o)' = Live(s, o)
<1>1. /\ kTime' = kTime /\ kMounted' = kMounted /\ kSuper' = kSuper /\ kXprt' = kXprt
      /\ kServed' = kServed
  BY DEF kernelVars
<1>2. KernelTyped /\ DevicesApart
  BY Zenon DEF MountsInv
<1>3. KernelTyped'
  BY <1>1, <1>2, Zenon DEF KernelTyped
<1>4. DevicesApart'
  BY <1>1, <1>2, Zenon DEF DevicesApart
<1>5. \A s, o : Live(s, o)' = Live(s, o)
  BY <1>1, Zenon DEF Live
<1> QED BY <1>1, <1>3, <1>4, <1>5, Zenon

\* EmptyHonest of the next state.
LEMMA EmptyNext == (sOut = <<>>)' => RatesHonest'
<1>1. sOut = <<>> => RatesHonest
  BY EmptyHonest
<1> QED BY <1>1, PTL

\* The scrape reads mountinfo: it knows all mounts, and their device IDs.
LEMMA ReadMountInfoKeeps ==
  ASSUME MountsInv, ReadMountInfo
  PROVE  MountsInv'
<1>1. /\ sPc = "idle" /\ sOut' = <<>> /\ kernelVars' = kernelVars /\ sAgg' = sAgg /\ sTodo' = sTodo
      /\ sPrevious' = sPrevious /\ sMark' = sMark /\ sLimit' = sLimit
  BY DEF ReadMountInfo
<1>2. \/ /\ sIds' = [p \in kMounted |-> kSuper[RemoteFs[p]].dev]
         /\ sInfo' = kServed /\ sPc' = "stats"
      \/ sIds' = sIds /\ sInfo' = sInfo /\ sPc' = sPc
  BY Zenon DEF ReadMountInfo
<1>3. /\ KernelTyped' /\ DevicesApart' /\ kServed' = kServed /\ kMounted' = kMounted
      /\ kSuper' = kSuper /\ \A s, o : Live(s, o)' = Live(s, o)
  BY <1>1, KernelStill, Zenon
<1>4. KernelTyped /\ ScrapeTyped /\ NamesKept /\ (~UmountsInScrape => RatesKept)
  BY Zenon DEF MountsInv
<1>a. kServed \in Counts
  BY <1>4, Zenon DEF KernelTyped
<1>5. ScrapeTyped'
  <2>1. sPc' \in {"idle", "stats", "query"}
    BY <1>1, <1>2
  <2>2. sIds' \in Partial(MountPaths, Nat)
    <3>1. CASE sIds' = sIds
      BY <1>4, <3>1, Zenon DEF ScrapeTyped
    <3>2. CASE sIds' = [p \in kMounted |-> kSuper[RemoteFs[p]].dev]
      <4>1. ASSUME NEW p \in kMounted
            PROVE  kSuper[RemoteFs[p]].dev \in Nat
        <5>1. kSuper[RemoteFs[p]] \in Superblocks
          BY <1>4, SummaryRead
        <5> QED BY <5>1 DEF Superblocks
      <4>2. sIds' \in [kMounted -> Nat] /\ DOMAIN sIds' = kMounted
        BY <3>2, <4>1
      <4>3. kMounted \in SUBSET MountPaths
        BY <1>4, Zenon DEF KernelTyped
      <4> QED BY <4>2, <4>3, Zenon DEF Partial
    <3> QED BY <1>2, <3>1, <3>2, Zenon
  <2>3. sInfo' \in Counts /\ \A s \in Servers, o \in AllOperations : sInfo'[s][o] <= kServed'[s][o]
    <3>1. CASE sInfo' = sInfo
      BY <1>3, <1>4, <3>1, Zenon DEF ScrapeTyped
    <3>2. CASE sInfo' = kServed
      <4>1. \A s \in Servers, o \in AllOperations : kServed[s][o] \in Nat
        BY <1>a, CountsIs, Zenon
      <4>2. \A s \in Servers, o \in AllOperations : kServed[s][o] <= kServed[s][o]
        BY <4>1
      <4> QED BY <1>3, <1>a, <3>2, <4>2, Zenon
    <3> QED BY <1>2, <3>1, <3>2, Zenon
  <2> QED BY <1>1, <1>3, <1>4, <2>1, <2>2, <2>3, Zenon DEF ScrapeTyped
<1>6. /\ sPc' # "query"
      /\ sPc' = "stats" =>
           sIds' = [p \in kMounted |-> kSuper[RemoteFs[p]].dev] /\ sInfo' = kServed
  BY <1>1, <1>2
<1>7. NamesKept'
  BY <1>1, <1>4, <1>6, Zenon DEF NamesKept, Nameless
<1>8. ASSUME ~UmountsInScrape
      PROVE  RatesKept'
  <2>1. \A s \in DOMAIN sPrevious : Seen(sPrevious[s].summary, s, sMark)
    BY <1>4, <1>8, Zenon DEF RatesKept
  <2>2. \A s \in DOMAIN sPrevious' : Seen(sPrevious[s].summary, s, sMark)'
    BY <1>1, <1>3, <2>1, Zenon DEF Seen, SeenOf
  <2>3. ASSUME sPc' = "stats"
        PROVE  Reading'
    <3>1. sIds' = [p \in kMounted |-> kSuper[RemoteFs[p]].dev] /\ sInfo' = kServed
      BY <1>6, <2>3
    <3>2. DOMAIN sIds' = kMounted /\ \A p \in kMounted : sIds'[p] = kSuper[RemoteFs[p]].dev
      BY <3>1, Zenon
    <3>3. DOMAIN sIds' \in SUBSET kMounted' /\ Matching(DOMAIN sIds)'
      BY <1>3, <3>2, Zenon DEF Matching
    <3>4. ASSUME NEW s \in Servers, NEW o \in AllOperations
          PROVE  Live(s, o)' <= Total(Requests(kSuper', o), FsOf(DOMAIN sIds', s)) + (kServed'[s][o] - sInfo'[s][o])
      <4>1. Total(Requests(kSuper', o), FsOf(DOMAIN sIds', s)) = Live(s, o)'
        BY <1>3, <3>2, Zenon DEF Live
      <4>2. Live(s, o)' \in Nat
        BY <1>3, LiveNext
      <4>3. kServed'[s][o] = sInfo'[s][o] /\ sInfo'[s][o] \in Nat
        BY <1>3, <1>a, <3>1, CountsIs, Zenon
      <4> QED BY <4>1, <4>2, <4>3
    <3> QED BY <3>3, <3>4, Zenon DEF Reading
  <2>4. RatesHonest'
    BY <1>1, EmptyNext, Zenon
  <2> QED BY <1>1, <1>6, <2>2, <2>3, <2>4, Zenon DEF RatesKept
<1> QED BY <1>3, <1>5, <1>7, <1>8, Zenon DEF MountsInv

\* The mounts a scrape reads, the statistics of.
Scraped == {p \in kMounted : p \in DOMAIN sIds}

\* What a scrape reads from mountstats is well typed and has no names yet.
LEMMA MountsRead ==
  ASSUME MountsInv
  PROVE  /\ Readable(Scraped) /\ MountsFold(Scraped) \in Aggregates({NoInstance})
         /\ MountsFold(Scraped) \in Aggregates(Names)
         /\ \A s \in DOMAIN MountsFold(Scraped) : MountsFold(Scraped)[s].instance = NoInstance
<1>1. KernelTyped /\ ScrapeTyped
  BY Zenon DEF MountsInv
<1>2. sIds \in [DOMAIN sIds -> Nat]
  BY <1>1, PartialIs, Zenon DEF ScrapeTyped
<1>3. Readable(Scraped)
  BY <1>2 DEF Readable, Scraped
<1>4. MountsFold(Scraped) \in Aggregates({NoInstance})
  BY <1>1, <1>3, MountsFoldTyped, Zenon
<1> DEFINE agg == MountsFold(Scraped)
<1> HIDE DEF agg
<1>5. DOMAIN agg \in SUBSET Servers /\ agg \in [DOMAIN agg -> ServerGroups({NoInstance})]
  BY <1>4, PartialIs, Zenon DEF Aggregates, agg
<1>6. \A s \in DOMAIN agg : agg[s].instance = NoInstance
  BY <1>5 DEF ServerGroups
<1>7. ServerGroups({NoInstance}) \subseteq ServerGroups(Names)
  BY DEF ServerGroups, Names
<1>8. agg \in [DOMAIN agg -> ServerGroups(Names)]
  BY <1>5, <1>7
<1>9. agg \in Aggregates(Names)
  BY <1>5, <1>8, PartialIs, Zenon DEF Aggregates
<1> QED BY <1>3, <1>4, <1>6, <1>9, Zenon DEF agg

\* What a scrape reads has all but the operations since it read mountinfo, and no
\* more beyond the previous scrape than were served since that read mountinfo.
LEMMA MountsReadHonest ==
  ASSUME MountsInv, Reading, NEW s \in DOMAIN MountsFold(Scraped),
         \A t \in DOMAIN sPrevious : Seen(sPrevious[t].summary, t, sMark)
  PROVE  \A o \in AllOperations :
           /\ SeenOf(MountsFold(Scraped)[s].summary, s, o, sInfo)
           /\ s \in DOMAIN sPrevious =>
                sub(Count(MountsFold(Scraped)[s].summary, o),
                    Count(sPrevious[s].summary, o)) <= kServed[s][o] - sMark[s][o]
<1> TAKE o \in AllOperations
<1>1. KernelTyped /\ ScrapeTyped /\ DevicesApart
  BY Zenon DEF MountsInv
<1>2. Readable(Scraped) /\ MountsFold(Scraped) \in Aggregates({NoInstance})
  BY MountsRead, Zenon
<1>3. Scraped = DOMAIN sIds /\ Scraped \in SUBSET kMounted
  BY DEF Reading, Scraped
<1>4. Matching(Scraped)
  BY <1>3, Zenon DEF Reading
<1>5. Covers(MountsFold(Scraped), Scraped)
  BY <1>1, <1>2, <1>4, MountsFoldCovers, Zenon
<1> DEFINE n == Count(MountsFold(Scraped)[s].summary, o)
           t == Total(Requests(kSuper, o), FsOf(Scraped, s))
           live == Live(s, o)
           k == kServed[s][o]
<1>6. n = Cut(t)
  BY <1>5, Zenon DEF Covers, GroupCovers
<1>7. s \in Servers
  BY <1>2, PartialIs, Zenon DEF Aggregates
<1>8. live <= t + (k - sInfo[s][o])
  BY <1>3, <1>7, Zenon DEF Reading
<1>9. t \in Nat /\ live \in Nat /\ t <= live
  <2>1. kMounted \in SUBSET kMounted
    OBVIOUS
  <2>2. /\ IsFiniteSet(FsOf(kMounted, s)) /\ \A f \in FsOf(kMounted, s) : Requests(kSuper, o)[f] \in Nat
    BY <1>1, <2>1, FsOfIs, Zenon
  <2>3. FsOf(Scraped, s) \in SUBSET FsOf(kMounted, s)
    BY <1>3, Zenon DEF FsOf
  <2> QED BY <2>2, <2>3, TotalOfPart, Zenon DEF Live
<1>10. k \in Nat /\ sInfo[s][o] \in Nat /\ sMark[s][o] \in Nat /\ sInfo[s][o] <= k /\ sMark[s][o] <= k
  <2>1. kServed \in Counts /\ sInfo \in Counts /\ sMark \in Counts
    BY <1>1, Zenon DEF KernelTyped, ScrapeTyped
  <2> QED BY <1>1, <1>7, <2>1, CountsIs, Zenon DEF ScrapeTyped
<1> HIDE DEF n, t, live, k
<1>11. MaxUint64 \in Nat
  BY MountStatsAssumption, Zenon
<1>12. n \in Nat /\ n <= MaxUint64 /\ n <= t /\ (n = MaxUint64 \/ n = t)
  BY <1>6, <1>9, <1>11 DEF Cut
<1>13. n = MaxUint64 \/ live <= n + (k - sInfo[s][o])
  BY <1>8, <1>12
<1>14. SeenOf(MountsFold(Scraped)[s].summary, s, o, sInfo)
  BY <1>13, Zenon DEF SeenOf, n, live, k
<1>15. ASSUME s \in DOMAIN sPrevious
       PROVE  sub(n, Count(sPrevious[s].summary, o)) <= k - sMark[s][o]
  <2> DEFINE m == Count(sPrevious[s].summary, o)
  <2>1. sPrevious \in [DOMAIN sPrevious -> Previous]
    BY <1>1, PartialIs, Zenon DEF ScrapeTyped
  <2>2. m \in Nat
    <3>1. sPrevious[s].summary.operations \in Partial(Operations, OpStats)
      BY <1>15, <2>1 DEF Previous, Summaries
    <3> QED BY <3>1, LookupIs, Zenon DEF Count
  <2>3. m = MaxUint64 \/ live <= m + (k - sMark[s][o])
    BY <1>15, Zenon DEF Seen, SeenOf, live, k
  <2> HIDE DEF m
  <2>4. sub(n, m) = IF n > m THEN n - m ELSE 0
    BY DEF sub
  <2>5. sub(n, m) <= k - sMark[s][o]
    BY <1>9, <1>10, <1>11, <1>12, <2>2, <2>3, <2>4
  <2> QED BY <2>5, Zenon DEF m
<1> QED BY <1>14, <1>15, Zenon DEF n, k

\* The scrape reads mountstats.
LEMMA ReadMountStatsKeeps ==
  ASSUME MountsInv, ReadMountStats
  PROVE  MountsInv'
<1>1. /\ sPc = "stats" /\ sIds' = <<>> /\ kernelVars' = kernelVars /\ sPrevious' = sPrevious
      /\ sOut' = sOut /\ sInfo' = sInfo /\ sMark' = sMark
  BY Zenon DEF ReadMountStats
<1>2. \/ /\ sAgg' = MountsFold(Scraped) /\ sTodo' = (IF QueryEnabled THEN DOMAIN sAgg' ELSE {})
         /\ sLimit' = [s \in Servers |-> [o \in AllOperations |-> kServed[s][o] - sMark[s][o]]]
         /\ sPc' = "query"
      \/ sPc' = "idle" /\ sAgg' = sAgg /\ sTodo' = sTodo /\ sLimit' = sLimit
  BY Zenon DEF ReadMountStats, MountsFold, Scraped
<1>3. /\ KernelTyped' /\ DevicesApart' /\ kServed' = kServed /\ kMounted' = kMounted
      /\ kSuper' = kSuper /\ \A s, o : Live(s, o)' = Live(s, o)
  BY <1>1, KernelStill, Zenon
<1>4. KernelTyped /\ ScrapeTyped /\ NamesKept /\ (~UmountsInScrape => RatesKept)
  BY Zenon DEF MountsInv
<1>5. ScrapeTyped'
  <2>1. sPc' \in {"idle", "stats", "query"}
    BY <1>2
  <2>2. sIds' \in Partial(MountPaths, Nat)
    BY <1>1, PartialEmpty, Zenon
  <2>3. sAgg' \in Aggregates(Names)
    BY <1>2, <1>4, MountsRead, Zenon DEF ScrapeTyped
  <2>4. sLimit' \in Counts
    <3>1. CASE sLimit' = sLimit
      BY <1>4, <3>1, Zenon DEF ScrapeTyped
    <3>2. CASE sLimit' = [s \in Servers |-> [o \in AllOperations |-> kServed[s][o] - sMark[s][o]]]
      <4>1. ASSUME NEW s \in Servers, NEW o \in AllOperations
            PROVE  kServed[s][o] - sMark[s][o] \in Nat
        <5>1. kServed[s][o] \in Nat /\ sMark[s][o] \in Nat /\ sMark[s][o] <= kServed[s][o]
          BY <1>4, CountsIs, Zenon DEF KernelTyped, ScrapeTyped
        <5> QED BY <5>1
      <4> QED BY <3>2, <4>1 DEF Counts
    <3> QED BY <1>2, <3>1, <3>2, Zenon
  <2> QED BY <1>1, <1>3, <1>4, <2>1, <2>2, <2>3, <2>4, Zenon DEF ScrapeTyped
<1>6. NamesKept'
  <2>1. CASE sPc' = "idle" /\ sAgg' = sAgg /\ sTodo' = sTodo
    <3>1. sPc' # "query"
      BY <2>1
    <3> QED BY <1>1, <1>4, <2>1, <3>1, Zenon DEF NamesKept, Nameless
  <2>2. CASE sAgg' = MountsFold(Scraped) /\ sTodo' = (IF QueryEnabled THEN DOMAIN sAgg' ELSE {})
    <3>1. sTodo' \in SUBSET DOMAIN sAgg'
      BY <2>2, Zenon
    <3>2. \A s \in DOMAIN sAgg' : sAgg'[s].instance = NoInstance
      BY <2>2, MountsRead, Zenon
    <3>3. ~QueryEnabled => Nameless'
      BY <1>1, <1>4, <2>2, <3>2, Zenon DEF NamesKept, Nameless
    <3>4. QueryEnabled => Named'
      BY <2>2, Zenon DEF Named
    <3> QED BY <3>1, <3>3, <3>4, Zenon DEF NamesKept
  <2> QED BY <1>2, <2>1, <2>2, Zenon
<1>7. ASSUME ~UmountsInScrape
      PROVE  RatesKept'
  <2>1. RatesKept /\ sPc # "idle"
    BY <1>1, <1>4, <1>7
  <2>2. /\ \A s \in DOMAIN sPrevious : Seen(sPrevious[s].summary, s, sMark)
        /\ sOut = <<>> /\ Reading
    BY <1>1, <2>1, Zenon DEF RatesKept
  <2>3. \A s \in DOMAIN sPrevious' : Seen(sPrevious[s].summary, s, sMark)'
    BY <1>1, <1>3, <2>2, Zenon DEF Seen, SeenOf
  <2>4. RatesHonest'
    BY <1>1, <2>2, EmptyNext, Zenon
  <2>5. sPc' # "stats"
    BY <1>2
  <2>6. ASSUME sPc' = "query"
        PROVE  Reported'
    <3>1. /\ sAgg' = MountsFold(Scraped)
          /\ sLimit' = [s \in Servers |-> [o \in AllOperations |-> kServed[s][o] - sMark[s][o]]]
      BY <1>2, <2>6
    <3>2. ASSUME NEW s \in DOMAIN sAgg'
          PROVE  /\ Seen(sAgg[s].summary, s, sInfo)'
                 /\ s \in DOMAIN sPrevious' => Within(sAgg[s].summary, sPrevious[s].summary, s, sLimit)'
      <4>1. s \in Servers
        BY <1>5, PartialIs, Zenon DEF ScrapeTyped, Aggregates
      <4>2. \A o \in AllOperations : sLimit'[s][o] = kServed[s][o] - sMark[s][o]
        BY <3>1, <4>1, Zenon
      <4>3. s \in DOMAIN MountsFold(Scraped)
        BY <3>1, Zenon
      <4>4. \A o \in AllOperations :
              /\ SeenOf(MountsFold(Scraped)[s].summary, s, o, sInfo)
              /\ s \in DOMAIN sPrevious =>
                   sub(Count(MountsFold(Scraped)[s].summary, o),
                       Count(sPrevious[s].summary, o)) <= kServed[s][o] - sMark[s][o]
        BY <2>2, <4>3, MountsReadHonest, Zenon
      <4>5. Seen(sAgg[s].summary, s, sInfo)'
        BY <1>1, <1>3, <3>1, <4>4, Zenon DEF Seen, SeenOf
      <4> QED BY <1>1, <3>1, <4>2, <4>4, <4>5, Zenon DEF Within
    <3> QED BY <3>2, Zenon DEF Reported
  <2> QED BY <1>1, <2>2, <2>3, <2>4, <2>5, <2>6, Zenon DEF RatesKept
<1> QED BY <1>3, <1>5, <1>6, <1>7, Zenon DEF MountsInv

\* A name that a query comes to is a name, and not empty if there was one.
LEMMA InstanceNameIs ==
  ASSUME ScrapeTyped, NEW s, NEW answer \in AgentAnswers \cup {"err"}
  PROVE  /\ instanceName(s, answer) \in Names
         /\ previousInstanceName(s) # NoInstance => instanceName(s, answer) # NoInstance
<1>1. previousInstanceName(s) \in Names
  <2>1. sPrevious \in [DOMAIN sPrevious -> Previous]
    BY PartialIs, Zenon DEF ScrapeTyped
  <2>2. s \in DOMAIN sPrevious => sPrevious[s].instance \in Names
    BY <2>1 DEF Previous
  <2>3. NoInstance \in Names
    BY Zenon DEF Names
  <2> QED BY <2>2, <2>3, Zenon DEF previousInstanceName
<1>2. answer \notin {"err", NoInstance} => answer \in Names /\ answer # NoInstance
  BY Zenon DEF Names
<1> QED BY <1>1, <1>2, Zenon DEF instanceName

\* The receiver asks a server for its name, and keeps the previous one when it
\* gets none.
LEMMA QueryKeeps ==
  ASSUME MountsInv, NEW s \in Servers, QueryInstanceName(s)
  PROVE  MountsInv'
<1>1. /\ sPc = "query" /\ s \in sTodo /\ sTodo' = sTodo \ {s} /\ kernelVars' = kernelVars
      /\ sPc' = sPc /\ sIds' = sIds /\ sPrevious' = sPrevious /\ sOut' = sOut /\ sInfo' = sInfo
      /\ sMark' = sMark /\ sLimit' = sLimit
  BY DEF QueryInstanceName
<1>2. IF excluded(s) THEN sAgg' = sAgg
      ELSE \E answer \in AgentAnswers \cup {"err"} :
             sAgg' = [sAgg EXCEPT ![s].instance = instanceName(s, answer)]
  BY Zenon DEF QueryInstanceName
<1>3. /\ KernelTyped' /\ DevicesApart' /\ kServed' = kServed /\ kMounted' = kMounted
      /\ kSuper' = kSuper /\ \A t, o : Live(t, o)' = Live(t, o)
  BY <1>1, KernelStill, Zenon
<1>4. KernelTyped /\ ScrapeTyped /\ NamesKept /\ (~UmountsInScrape => RatesKept)
  BY Zenon DEF MountsInv
<1>5. s \in DOMAIN sAgg /\ sTodo \in SUBSET DOMAIN sAgg
  BY <1>1, <1>4 DEF NamesKept
<1>6. DOMAIN sAgg \in SUBSET Servers /\ sAgg \in [DOMAIN sAgg -> ServerGroups(Names)]
  BY <1>4, PartialIs, Zenon DEF ScrapeTyped, Aggregates
<1>7. /\ sAgg' \in [DOMAIN sAgg -> ServerGroups(Names)] /\ DOMAIN sAgg' = DOMAIN sAgg
      /\ \A t \in DOMAIN sAgg : /\ sAgg'[t].summary = sAgg[t].summary
                                /\ sAgg'[t].localPaths = sAgg[t].localPaths
                                /\ t # s => sAgg'[t] = sAgg[t]
      /\ ~excluded(s) /\ previousInstanceName(s) # NoInstance => sAgg'[s].instance # NoInstance
  <2>1. CASE excluded(s)
    <3>1. sAgg' = sAgg
      BY <1>2, <2>1, Zenon
    <3> QED BY <1>6, <2>1, <3>1, Zenon
  <2>2. CASE ~excluded(s)
    <3>1. PICK answer \in AgentAnswers \cup {"err"} :
             sAgg' = [sAgg EXCEPT ![s].instance = instanceName(s, answer)]
      BY <1>2, <2>2, Zenon
    <3> DEFINE name == instanceName(s, answer)
    <3>2. name \in Names /\ (previousInstanceName(s) # NoInstance => name # NoInstance)
      BY <1>4, <3>1, InstanceNameIs, Zenon
    <3>3. sAgg' = [sAgg EXCEPT ![s].instance = name]
      BY <3>1, Zenon
    <3> HIDE DEF name
    <3>4. sAgg[s] \in ServerGroups(Names)
      BY <1>5, <1>6
    <3> DEFINE g == [sAgg[s] EXCEPT !.instance = name]
    <3>5. /\ g \in ServerGroups(Names) /\ g.instance = name
          /\ g.summary = sAgg[s].summary /\ g.localPaths = sAgg[s].localPaths
      BY <3>2, <3>4 DEF ServerGroups
    <3>6. sAgg' = [sAgg EXCEPT ![s] = g]
      BY <3>3
    <3> HIDE DEF g
    <3>7. /\ sAgg' \in [DOMAIN sAgg -> ServerGroups(Names)] /\ DOMAIN sAgg' = DOMAIN sAgg
          /\ sAgg'[s] = g /\ \A t \in DOMAIN sAgg : t # s => sAgg'[t] = sAgg[t]
      BY <1>5, <1>6, <3>5, <3>6
    <3> QED BY <3>2, <3>5, <3>7, Zenon
  <2> QED BY <2>1, <2>2
<1>8. ScrapeTyped'
  <2>1. sAgg' \in Aggregates(Names)
    BY <1>6, <1>7, PartialIs, Zenon DEF Aggregates
  <2> QED BY <1>1, <1>3, <1>4, <2>1, Zenon DEF ScrapeTyped
<1>9. NamesKept'
  <2>1. sTodo' \in SUBSET DOMAIN sAgg'
    BY <1>1, <1>5, <1>7
  <2>2. ASSUME ~QueryEnabled
        PROVE  Nameless'
    BY <1>1, <1>4, <2>2, Zenon DEF NamesKept, Nameless
  <2>3. ASSUME QueryEnabled
        PROVE  Named'
    <3>1. Named
      BY <1>1, <1>4, <2>3, Zenon DEF NamesKept
    <3>2. ASSUME NEW t \in DOMAIN sAgg' \ sTodo', ~excluded(t)', previousInstanceName(t)' # NoInstance
          PROVE  sAgg'[t].instance # NoInstance
      <4>1. t \in DOMAIN sAgg /\ (t = s \/ t \notin sTodo)
        BY <1>1, <1>7, <3>2
      <4>2. ~excluded(t)
        BY <1>7, <3>2, <4>1, Zenon DEF excluded
      <4>3. previousInstanceName(t) # NoInstance
        BY <1>1, <3>2, Zenon DEF previousInstanceName
      <4>4. CASE t = s
        BY <1>7, <4>2, <4>3, <4>4, Zenon
      <4>5. CASE t # s
        <5>1. sAgg[t].instance # NoInstance
          BY <3>1, <4>1, <4>2, <4>3, <4>5, Zenon DEF Named
        <5> QED BY <1>7, <4>1, <4>5, <5>1, Zenon
      <4> QED BY <4>4, <4>5
    <3> QED BY <3>2, Zenon DEF Named
  <2> QED BY <2>1, <2>2, <2>3, Zenon DEF NamesKept
<1>10. ASSUME ~UmountsInScrape
       PROVE  RatesKept'
  <2>1. RatesKept
    BY <1>4, <1>10
  <2>2. \A t \in DOMAIN sPrevious' : Seen(sPrevious[t].summary, t, sMark)'
    BY <1>1, <1>3, <2>1, Zenon DEF RatesKept, Seen, SeenOf
  <2>3. Reported
    BY <1>1, <2>1, Zenon DEF RatesKept
  <2>4. \A t \in DOMAIN sAgg' : Seen(sAgg[t].summary, t, sInfo)'
    BY <1>1, <1>3, <1>7, <2>3, Zenon DEF Reported, Seen, SeenOf
  <2>5. Reported'
    BY <1>1, <1>7, <2>3, <2>4, Zenon DEF Reported, Within
  <2>6. RatesHonest' /\ sOut' = <<>>
    <3>1. sPc # "idle"
      BY <1>1
    <3>2. sOut' = <<>>
      BY <1>1, <2>1, <3>1, Zenon DEF RatesKept
    <3> QED BY <3>2, EmptyNext, Zenon
  <2>7. sPc' # "stats"
    BY <1>1
  <2> QED BY <2>2, <2>5, <2>6, <2>7, Zenon DEF RatesKept
<1> QED BY <1>3, <1>8, <1>9, <1>10, Zenon DEF MountsInv

\* What a scrape reports is no more than was served.
LEMMA ReportHonest ==
  ASSUME MountsInv, ~UmountsInScrape, sPc = "query", Report
  PROVE  RatesHonest'
<1>1. KernelTyped /\ ScrapeTyped /\ Reported
  BY Zenon DEF MountsInv, RatesKept
<1>2. /\ sOut' = [m \in {n \in DOMAIN mountsMetrics : recordAll[n] # <<>>} |-> recordAll[m]]
      /\ sLimit' = sLimit
  BY Zenon DEF Report
<1>3. DOMAIN sAgg \in SUBSET Servers /\ sAgg \in [DOMAIN sAgg -> ServerGroups(Names)]
  BY <1>1, PartialIs, Zenon DEF ScrapeTyped, Aggregates
<1>4. IsFiniteSet(DOMAIN sAgg)
  <2>1. IsFiniteSet(Servers)
    <3> DEFINE img == [p \in MountPaths |-> ServerOf[p]]
    <3>1. img \in Surjection(MountPaths, {ServerOf[p] : p \in MountPaths})
      BY DEF Surjection
    <3> QED BY <3>1, MountStatsAssumption, FS_Surjection, Zenon DEF Servers
  <2> QED BY <1>3, <2>1, FS_Subset
<1>5. ASSUME NEW s \in DOMAIN sAgg
      PROVE  IsFiniteSet(DOMAIN sAgg[s].summary.operations)
  <2>1. sAgg[s].summary.operations \in Partial(Operations, OpStats)
    BY <1>3, <1>5 DEF ServerGroups, Summaries
  <2> DEFINE ops == sAgg[s].summary.operations
  <2>2. ops \in Partial(Operations, OpStats)
    BY <2>1, Zenon
  <2> HIDE DEF ops
  <2>3. DOMAIN ops \in SUBSET Operations
    BY <2>2, PartialIs, Zenon
  <2>4. IsFiniteSet(DOMAIN ops)
    BY <2>3, MountStatsAssumption, FS_Subset
  <2> QED BY <2>4, Zenon DEF ops
<1>6. ASSUME NEW rate \in RateMetrics, rate \in DOMAIN sOut', NEW i \in DOMAIN sOut'[rate]
      PROVE  \E s \in DOMAIN sAgg : /\ hasPrevious(s) /\ sOut'[rate][i].attributes["server"] = s
                                    /\ sOut'[rate][i].val = RateOf(rate, s)
  <2>1. sOut'[rate] = recordAll[rate]
    BY <1>2, <1>6, Zenon
  <2> DEFINE points == recordAll[rate]
  <2>2. points \in Seq(RatePoints(rate, DOMAIN sAgg)) /\ i \in DOMAIN points
    BY <1>4, <1>5, <1>6, <2>1, RatesRecorded, Zenon
  <2> HIDE DEF points
  <2>3. points[i] \in RatePoints(rate, DOMAIN sAgg)
    BY <2>2, SeqElement
  <2>4. PICK s \in DOMAIN sAgg : hasPrevious(s) /\ points[i] = RatePointOf(rate, s)
    BY <2>3, Zenon DEF RatePoints
  <2>5. sOut'[rate][i] = RatePointOf(rate, s)
    BY <2>1, <2>4, Zenon DEF points
  <2>6. sOut'[rate][i].attributes["server"] = s /\ sOut'[rate][i].val = RateOf(rate, s)
    BY <2>5, RatePointIs, Zenon
  <2> QED BY <2>4, <2>6, Zenon
<1>7. ASSUME NEW s \in DOMAIN sAgg, hasPrevious(s)
      PROVE  /\ RateOf("NfsMountOpsPerSecond", s)[2] > 0
             /\ \A m \in DOMAIN AveragedOperation :
                  LET v == RateOf(m, s) IN
                    v[2] > 0 /\ (v = <<0, 1>> \/ v[2] <= sLimit[s][AveragedOperation[m]])
  <2>1. s \in DOMAIN sPrevious /\ sAgg[s].summary.age > sPrevious[s].summary.age
    BY <1>7, Zenon DEF hasPrevious
  <2>2. sAgg[s].summary \in Summaries /\ sPrevious[s].summary \in Summaries
    <3>1. sPrevious \in [DOMAIN sPrevious -> Previous]
      BY <1>1, PartialIs, Zenon DEF ScrapeTyped
    <3> QED BY <1>3, <2>1, <3>1 DEF ServerGroups, Previous
  <2>3. sAgg[s].summary.age \in Int /\ sPrevious[s].summary.age \in Int
    BY <2>2 DEF Summaries
  <2>4. RateOf("NfsMountOpsPerSecond", s)[2] > 0
    <3>1. RateOf("NfsMountOpsPerSecond", s)[2] = sAgg[s].summary.age - sPrevious[s].summary.age
      BY <1>7, RateIs, Zenon
    <3> QED BY <2>1, <2>3, <3>1
  <2>5. ASSUME NEW m \in DOMAIN AveragedOperation
        PROVE  /\ RateOf(m, s)[2] > 0
               /\ RateOf(m, s) = <<0, 1>> \/ RateOf(m, s)[2] <= sLimit[s][AveragedOperation[m]]
    <3> DEFINE x == AveragedOperation[m]
               op == lookup(Since(s), x)
    <3>1. x \in AllOperations
      BY DEF AveragedOperation, AllOperations
    <3>2. op.Requests = sub(Count(sAgg[s].summary, x), Count(sPrevious[s].summary, x))
      BY <2>2, SinceIs, Zenon
    <3>3. op.Requests <= sLimit[s][x]
      BY <1>1, <2>1, <3>1, <3>2, Zenon DEF Reported, Within
    <3>4. RateOf(m, s) = calc(op).rtt \/ RateOf(m, s) = calc(op).exe
      BY <1>7, RateIs, Zenon
    <3>5. op.Requests \in Nat
      <4>1. sAgg[s].summary.operations \in Partial(Operations, OpStats) /\ sPrevious[s].summary.operations \in Partial(Operations, OpStats)
        BY <2>2 DEF Summaries
      <4>2. Count(sAgg[s].summary, x) \in Nat /\ Count(sPrevious[s].summary, x) \in Nat
        BY <4>1, LookupIs, Zenon DEF Count
      <4>3. \A k, l \in Nat : sub(k, l) \in Nat
        BY DEF sub
      <4> QED BY <3>2, <4>2, <4>3, Zenon
    <3> HIDE DEF op
    <3>6. IF op.Requests > 0 THEN RateOf(m, s)[2] = op.Requests ELSE RateOf(m, s) = <<0, 1>>
      BY <3>4, <3>5, CalcIs, Zenon
    <3>7. op.Requests > 0 \/ RateOf(m, s)[2] = 1
      BY <3>6
    <3> HIDE DEF x
    <3>8. RateOf(m, s)[2] > 0
      BY <3>6, <3>7
    <3>9. RateOf(m, s) = <<0, 1>> \/ RateOf(m, s)[2] <= sLimit[s][x]
      BY <3>3, <3>6, Zenon
    <3> QED BY <3>8, <3>9, Zenon DEF x
  <2> QED BY <2>4, <2>5, Zenon
<1>8. "NfsMountOpsPerSecond" \in RateMetrics /\ DOMAIN AveragedOperation \subseteq RateMetrics
  BY Zenon DEF RateMetrics
<1>9. ASSUME NEW m \in DOMAIN AveragedOperation \cap DOMAIN sOut', NEW i \in DOMAIN sOut'[m]
      PROVE  /\ sOut'[m][i].val[2] > 0
             /\ \/ sOut'[m][i].val = <<0, 1>>
                \/ sOut'[m][i].val[2] <= sLimit'[sOut'[m][i].attributes["server"]][AveragedOperation[m]]
  <2>1. m \in RateMetrics /\ m \in DOMAIN sOut' /\ m \in DOMAIN AveragedOperation
    BY <1>8, <1>9, Zenon
  <2>2. PICK s \in DOMAIN sAgg : /\ hasPrevious(s) /\ sOut'[m][i].attributes["server"] = s
                                 /\ sOut'[m][i].val = RateOf(m, s)
    BY <1>6, <1>9, <2>1, Zenon
  <2>3. /\ RateOf(m, s)[2] > 0
        /\ RateOf(m, s) = <<0, 1>> \/ RateOf(m, s)[2] <= sLimit[s][AveragedOperation[m]]
    BY <1>7, <2>1, <2>2, Zenon
  <2> QED BY <1>2, <2>2, <2>3, Zenon
<1>10. ASSUME "NfsMountOpsPerSecond" \in DOMAIN sOut', NEW i \in DOMAIN sOut'["NfsMountOpsPerSecond"]
       PROVE  sOut'["NfsMountOpsPerSecond"][i].val[2] > 0
  <2>1. PICK s \in DOMAIN sAgg :
          hasPrevious(s) /\ sOut'["NfsMountOpsPerSecond"][i].val = RateOf("NfsMountOpsPerSecond", s)
    BY <1>6, <1>8, <1>10, Zenon
  <2> QED BY <1>7, <2>1, Zenon
<1> QED BY <1>9, <1>10, Zenon DEF RatesHonest

\* The scrape reports, and keeps its summaries and names for the next one.
LEMMA ReportKeeps ==
  ASSUME MountsInv, Report
  PROVE  MountsInv'
<1>1. /\ sPc = "query" /\ sTodo = {} /\ sMark' = sInfo /\ sAgg' = <<>> /\ sPc' = "idle"
      /\ kernelVars' = kernelVars /\ sIds' = sIds /\ sTodo' = sTodo /\ sInfo' = sInfo
      /\ sLimit' = sLimit
  BY Zenon DEF Report
<1>2. sPrevious' = [s \in DOMAIN sAgg |->
                      [instance |-> sAgg[s].instance, summary |-> sAgg[s].summary]]
  BY Zenon DEF Report
<1>3. /\ KernelTyped' /\ DevicesApart' /\ kServed' = kServed /\ kMounted' = kMounted
      /\ kSuper' = kSuper /\ \A t, o : Live(t, o)' = Live(t, o)
  BY <1>1, KernelStill, Zenon
<1>4. KernelTyped /\ ScrapeTyped /\ NamesKept /\ (~UmountsInScrape => RatesKept)
  BY Zenon DEF MountsInv
<1>5. DOMAIN sAgg \in SUBSET Servers /\ sAgg \in [DOMAIN sAgg -> ServerGroups(Names)]
  BY <1>4, PartialIs, Zenon DEF ScrapeTyped, Aggregates
<1>6. /\ DOMAIN sPrevious' = DOMAIN sAgg
      /\ \A s \in DOMAIN sAgg : /\ sPrevious'[s].instance = sAgg[s].instance
                                /\ sPrevious'[s].summary = sAgg[s].summary
  BY <1>2, Zenon
<1>7. DOMAIN sAgg' = {}
  BY <1>1, PartialEmpty, Zenon
<1>8. ScrapeTyped'
  <2>1. sPrevious' \in [DOMAIN sAgg -> Previous]
    BY <1>2, <1>5 DEF Previous, ServerGroups
  <2>2. sPrevious' \in Partial(Servers, Previous)
    BY <1>5, <1>6, <2>1, PartialIs, Zenon
  <2>3. sAgg' \in Aggregates(Names)
    BY <1>1, PartialEmpty, Zenon DEF Aggregates
  <2>4. sPc' \in {"idle", "stats", "query"}
    BY <1>1
  <2> QED BY <1>1, <1>3, <1>4, <2>2, <2>3, <2>4, Zenon DEF ScrapeTyped
<1>a. sPc' # "query" /\ sPc' # "stats" /\ sPc # "idle"
  BY <1>1
<1>9. NamesKept'
  <2>1. ~QueryEnabled => Nameless'
    BY <1>1, <1>4, <1>6, <1>7, Zenon DEF NamesKept, Nameless
  <2>2. sTodo' \in SUBSET DOMAIN sAgg'
    BY <1>1, <1>7, Zenon
  <2> QED BY <1>a, <2>1, <2>2, Zenon DEF NamesKept
<1>10. ASSUME ~UmountsInScrape
       PROVE  RatesKept'
  <2>1. Reported
    BY <1>1, <1>4, <1>10, Zenon DEF RatesKept
  <2>2. \A s \in DOMAIN sPrevious' : Seen(sPrevious[s].summary, s, sMark)'
    BY <1>1, <1>3, <1>6, <2>1, Zenon DEF Reported, Seen, SeenOf
  <2>3. RatesHonest'
    BY <1>1, <1>10, ReportHonest, Zenon
  <2> QED BY <1>1, <1>a, <2>2, <2>3, Zenon DEF RatesKept
<1> QED BY <1>3, <1>8, <1>9, <1>10, Zenon DEF MountsInv

-----------------------------------------------------------------------------

\* Every step keeps MountsInv.
LEMMA MountsKept ==
  ASSUME MountsInv, [MountsNext]_mountVars
  PROVE  MountsInv'
<1>1. CASE Tick
  BY <1>1, TickKeeps
<1>2. CASE ReadMountInfo
  BY <1>2, ReadMountInfoKeeps
<1>3. CASE ReadMountStats
  BY <1>3, ReadMountStatsKeeps
<1>4. CASE Report
  BY <1>4, ReportKeeps
<1>5. CASE \E s \in Servers : QueryInstanceName(s)
  BY <1>5, QueryKeeps, Zenon
<1>6. CASE \E p \in MountPaths : Mount(p) \/ Umount(p)
  BY <1>6, MountKeeps, UmountKeeps, Zenon
<1>7. CASE \E p \in MountPaths, o \in Operations, d \in Delays : Serve(p, o, d)
  BY <1>7, ServeKeeps, Zenon
<1>8. CASE UNCHANGED mountVars
  <2>1. kernelVars' = kernelVars /\ scrapeVars' = scrapeVars
    BY <1>8 DEF mountVars
  <2>2. /\ KernelTyped' /\ DevicesApart' /\ kServed' = kServed /\ kMounted' = kMounted
        /\ kSuper' = kSuper /\ \A s, o : Live(s, o)' = Live(s, o)
    BY <2>1, KernelStill, Zenon
  <2>3. KernelTyped
    BY Zenon DEF MountsInv
  <2>4. Paced
    <3>1. ASSUME NEW s \in Servers, NEW o \in AllOperations
          PROVE  /\ kServed[s][o] <= kServed'[s][o]
                 /\ Live(s, o)' <= Live(s, o) + (kServed'[s][o] - kServed[s][o])
      <4>1. kServed[s][o] \in Nat /\ kServed'[s][o] = kServed[s][o]
        BY <2>2, <2>3, CountsIs, Zenon DEF KernelTyped
      <4>2. Live(s, o) \in Nat /\ Live(s, o)' = Live(s, o)
        BY <2>2, <2>3, LiveIs, Zenon
      <4> QED BY <4>1, <4>2
    <3> QED BY <3>1, Zenon DEF Paced
  <2>5. Reading => Reading'
    <3>1. sIds' = sIds /\ sInfo' = sInfo
      BY <2>1 DEF scrapeVars
    <3> QED BY <2>2, <3>1, Zenon DEF Reading, Matching
  <2> QED BY <2>1, <2>2, <2>4, <2>5, KernelKeeps, Zenon
<1> QED BY <1>1, <1>2, <1>3, <1>4, <1>5, <1>6, <1>7, <1>8, Zenon DEF MountsNext, Scrape

\* MountsInv is inductive: the receiver mounts keeps the statistics of a server
\* complete but for the operations served since its last scrape read mountinfo.
THEOREM MountsInvariance == MountsSpec => []MountsInv
<1>1. MountsInit => MountsInv
  BY MountsStart
<1>2. MountsInv /\ [MountsNext]_mountVars => MountsInv'
  BY MountsKept
<1> QED BY <1>1, <1>2, PTL DEF MountsSpec

\* The times of READs and WRITEs that the receiver mounts reports average no more
\* operations than the server was asked for since the previous scrape read
\* mountinfo, and no rate is over a period of zero: statistics shared by several
\* mounts are added once (AddMount), and a counter that restarts does not go below
\* zero (sub).  It assumes that nothing is unmounted between the two reads of a
\* scrape; README.md says what happens otherwise.
THEOREM RatesAreHonest ==
  ASSUME ~UmountsInScrape
  PROVE  MountsSpec => []RatesHonest
<1>1. MountsInv => RatesHonest
  BY Zenon DEF MountsInv, RatesKept
<1> QED BY <1>1, MountsInvariance, PTL

\* A step from the query to the idle state is a report.
LEMMA ReportEnds ==
  ASSUME MountsInv, [MountsNext]_mountVars, sPc = "query", sPc' = "idle"
  PROVE  Report
<1>1. sPc' # sPc
  OBVIOUS
<1>2. sPc # "idle" /\ sPc # "stats"
  OBVIOUS
<1>3. ~Tick /\ \A p \in MountPaths : ~Mount(p) /\ ~Umount(p)
  BY <1>1 DEF Tick, Mount, Umount, scrapeVars
<1>4. \A p \in MountPaths, o \in Operations, d \in Delays : ~Serve(p, o, d)
  BY <1>1 DEF Serve, scrapeVars
<1>5. \A s \in Servers : ~QueryInstanceName(s)
  BY <1>1 DEF QueryInstanceName
<1>6. ~ReadMountInfo /\ ~ReadMountStats
  BY <1>2, Zenon DEF ReadMountInfo, ReadMountStats
<1>7. ~(UNCHANGED mountVars)
  BY <1>1 DEF mountVars, scrapeVars
<1> QED BY <1>3, <1>4, <1>5, <1>6, <1>7, Zenon DEF MountsNext, Scrape

\* A server in two successive reports that has a name, and is not excluded from
\* the queries, keeps one: a query that fails or gets an empty answer reports the
\* previous name (instanceName), so the series of a server does not split.
THEOREM LabelsAreStable == MountsSpec => LabelsStable
<1>1. ASSUME MountsInv, [MountsNext]_mountVars, sPc = "query", sPc' = "idle",
             NEW s \in DOMAIN sPrevious \cap DOMAIN sPrevious',
             sPrevious[s].instance # NoInstance, ~excluded(s)
      PROVE  sPrevious'[s].instance # NoInstance
  <2>1. Report
    BY <1>1, ReportEnds
  <2>2. /\ sTodo = {}
        /\ sPrevious' = [t \in DOMAIN sAgg |->
                           [instance |-> sAgg[t].instance, summary |-> sAgg[t].summary]]
    BY <2>1, Zenon DEF Report
  <2>3. s \in DOMAIN sAgg /\ sPrevious'[s].instance = sAgg[s].instance
    BY <1>1, <2>2, Zenon
  <2>4. NamesKept
    BY <1>1, Zenon DEF MountsInv
  <2>5. QueryEnabled
    BY <1>1, <2>4, Zenon DEF NamesKept, Nameless
  <2>6. Named
    BY <1>1, <2>4, <2>5, Zenon DEF NamesKept
  <2>7. sAgg[s].instance # NoInstance
    BY <1>1, <2>2, <2>3, <2>6, Zenon DEF Named, previousInstanceName
  <2> QED BY <2>3, <2>7, Zenon
<1>2. MountsInv /\ [MountsNext]_mountVars =>
        [sPc = "query" /\ sPc' = "idle" =>
           \A s \in DOMAIN sPrevious \cap DOMAIN sPrevious' :
             sPrevious[s].instance # NoInstance /\ ~excluded(s) =>
               sPrevious'[s].instance # NoInstance]_mountVars
  BY <1>1, Zenon
<1> QED BY <1>2, MountsInvariance, PTL DEF MountsSpec, LabelsStable

=============================================================================
