---------------------------- MODULE FsiddProofs ----------------------------
(***************************************************************************)
(* Proofs about Fsidd for any number of processes, commands and paths, any *)
(* MaxInt32, with and without a cache, and whatever faults occur.          *)
(***************************************************************************)
EXTENDS Fsidd, TLAPS

\* c holds the mapping it found, and the table holds it too.
HasMapping(c) ==
  /\ path[c] \in Paths
  /\ fsid[c] >= 1
  /\ pathItem[path[c]] = fsid[c]
  /\ fsidItem[fsid[c]] = path[c]

\* A transaction in flight asks for a FSID that exists.
InRange(s) == NextFsid(s) \in 1..MaxInt32

CounterInv == NextFsid(counter) \in 1..(MaxInt32 + 1)

TableInv == CounterInv /\ ItemsAgree /\ Dense

LateInv == \A t \in late : InRange(t.seen)

\* What holds of a command at each label.
ConnInv(c) ==
  /\ pc[c] \in {"load", "get", "alloc", "counter", "wait", "committed", "race"}
       => path[c] \in Paths /\ op[c] # "get_path"
  /\ pc[c] = "retry" /\ op[c] # "get_path" => path[c] \in Paths
  /\ pc[c] = "retry" => err[c] # "nil"
  /\ op[c] = "get_path" /\ pc[c] \notin {"idle", "done"} => fsid[c] >= 1
  /\ pc[c] \in {"loadpath", "getpath"} => op[c] = "get_path"
  /\ pc[c] \in {"wait", "committed"} => InRange(seen[c])
  /\ pc[c] = "committed" => pathItem[path[c]] = NextFsid(seen[c])
  /\ pc[c] \in {"storefsid", "storepath"} => err[c] = "nil" /\ HasMapping(c)
  /\ pc[c] = "storepath" => fsids[Owner[c]][path[c]] = fsid[c]
  /\ pc[c] = "done" /\ err[c] = "nil" => HasMapping(c)

IInv ==
  /\ TypeOK
  /\ TableInv
  /\ ErrorsMeanWhatTheySay
  /\ CacheCoherent
  /\ LateInv
  /\ \A c \in Conns : ConnInv(c)

-----------------------------------------------------------------------------
(* The table: what applying a transaction does to it. *)

\* Mappings are added and none is changed.
Grows ==
  /\ \A p \in Paths : pathItem[p] # None => pathItem'[p] = pathItem[p]
  /\ \A f \in Fsid : fsidItem[f] # None => fsidItem'[f] = fsidItem[f]

TableType ==
  /\ counter \in Opt(Nat)
  /\ pathItem \in [Paths -> Opt(Fsid)]
  /\ fsidItem \in [Fsid -> Opt(Paths)]

\* A transaction whose three conditions hold keeps the items in agreement and
\* the FSIDs dense, changes no mapping and gives its path the FSID it read.
LEMMA ApplyKeepsTable ==
  ASSUME TableType, TableInv, NEW t \in Transaction, InRange(t.seen),
         Applicable(t), Apply(t)
  PROVE  /\ TableType'
         /\ TableInv'
         /\ Grows
         /\ pathItem'[t.path] = NextFsid(t.seen)
         /\ pathItem[t.path] = None
         /\ NextFsid(counter) = NextFsid(t.seen)
         /\ NextFsid(counter') = NextFsid(counter) + 1
<1> DEFINE f == NextFsid(t.seen)
<1>1. counter = t.seen /\ pathItem[t.path] = None /\ fsidItem[f] = None
  BY DEF Applicable, FailedWrites
<1>2. t.path \in Paths /\ t.seen \in Opt(Nat)
  BY DEF Transaction
<1>3. f \in 1..MaxInt32 /\ f \in Fsid /\ f # None /\ f + 1 # None /\ f + 1 \in Nat
  BY ConstantsAssumption DEF InRange, Fsid
<1>4. /\ counter' = f + 1
      /\ pathItem' = [pathItem EXCEPT ![t.path] = f]
      /\ fsidItem' = [fsidItem EXCEPT ![f] = t.path]
  BY DEF Apply
<1>5. TableType'
  BY <1>2, <1>3, <1>4 DEF TableType, Opt
<1>6. NextFsid(counter) = f /\ NextFsid(counter') = f + 1
  BY <1>1, <1>3, <1>4 DEF NextFsid
<1>7. CounterInv'
  BY <1>3, <1>4, ConstantsAssumption DEF CounterInv, NextFsid
<1>8. ItemsAgree'
  <2>1. ASSUME NEW p \in Paths, pathItem'[p] # None
        PROVE  fsidItem'[pathItem'[p]] = p
    <3>1. CASE p = t.path
      BY <3>1, <1>2, <1>3, <1>4 DEF TableType
    <3>2. CASE p # t.path
      <4>1. pathItem'[p] = pathItem[p] /\ pathItem[p] \in Fsid
        BY <2>1, <3>2, <1>2, <1>4 DEF TableType, Opt
      <4>2. fsidItem[pathItem[p]] = p /\ p # None
        BY <2>1, <4>1, ConstantsAssumption DEF TableInv, ItemsAgree
      <4> QED
        BY <4>1, <4>2, <1>1, <1>4 DEF TableType
    <3> QED
      BY <3>1, <3>2
  <2>2. ASSUME NEW g \in Fsid, fsidItem'[g] # None
        PROVE  pathItem'[fsidItem'[g]] = g
    <3>1. CASE g = f
      BY <3>1, <1>2, <1>3, <1>4 DEF TableType
    <3>2. CASE g # f
      <4>1. fsidItem'[g] = fsidItem[g] /\ fsidItem[g] \in Paths
        BY <2>2, <3>2, <1>3, <1>4 DEF TableType, Opt
      <4>2. pathItem[fsidItem[g]] = g /\ g # None
        BY <2>2, <4>1, ConstantsAssumption DEF TableInv, ItemsAgree, Fsid
      <4> QED
        BY <4>1, <4>2, <1>1, <1>4 DEF TableType
    <3> QED
      BY <3>1, <3>2
  <2> QED
    BY <2>1, <2>2 DEF ItemsAgree
<1>9. Dense'
  <2> SUFFICES ASSUME NEW g \in Fsid
               PROVE  fsidItem'[g] # None <=> 1 <= g /\ g < NextFsid(counter')
    BY DEF Dense, NextFsid
  <2>1. fsidItem[g] # None <=> 1 <= g /\ g < f
    BY <1>6 DEF TableInv, Dense
  <2>2. g = f => fsidItem'[g] = t.path /\ t.path # None
    BY <1>2, <1>3, <1>4, ConstantsAssumption DEF TableType
  <2>3. g # f => fsidItem'[g] = fsidItem[g]
    BY <1>3, <1>4 DEF TableType
  <2> QED
    BY <2>1, <2>2, <2>3, <1>3, <1>6, ConstantsAssumption DEF Fsid
<1>10. Grows /\ pathItem'[t.path] = f
  BY <1>1, <1>2, <1>3, <1>4 DEF Grows, TableType
<1> QED
  BY <1>1, <1>5, <1>6, <1>7, <1>8, <1>9, <1>10 DEF TableInv

-----------------------------------------------------------------------------
(* Commands that take no part in a step. *)

LocalType ==
  /\ pc \in [Conns -> Labels]
  /\ op \in [Conns -> Opt(Ops)]
  /\ path \in [Conns -> Opt(Paths)]
  /\ fsid \in [Conns -> Fsid]
  /\ seen \in [Conns -> Opt(Nat)]
  /\ err \in [Conns -> Errors]

Same(d) ==
  /\ pc'[d] = pc[d] /\ op'[d] = op[d] /\ path'[d] = path[d]
  /\ fsid'[d] = fsid[d] /\ seen'[d] = seen[d] /\ err'[d] = err[d]

Only(c) == \A d \in Conns \ {c} : Same(d)

ErrOK(c) ==
  /\ err[c] # "Inconsistent"
  /\ err[c] = "Exhausted" => \A f \in 1..MaxInt32 : fsidItem[f] # None

\* Cached FSIDs of process i are kept.
CacheGrows(i) == \A p \in Paths : fsids[i][p] # None => fsids'[i][p] = fsids[i][p]

\* What a command knows stays true while the table and the cache grow.
LEMMA Frame ==
  ASSUME TypeOK, TypeOK', NEW d \in Conns, Same(d), Grows, CacheGrows(Owner[d]),
         ConnInv(d)
  PROVE  ConnInv(d)'
<1>1. HasMapping(d) => HasMapping(d)'
  <2> SUFFICES ASSUME HasMapping(d) PROVE HasMapping(d)'
    OBVIOUS
  <2>1. fsid[d] # None /\ path[d] # None /\ fsid[d] \in Fsid
    BY ConstantsAssumption DEF HasMapping, TypeOK, Fsid
  <2> QED
    BY <2>1 DEF HasMapping, Same, Grows
<1>2. pc[d] = "committed" => pathItem'[path[d]] = NextFsid(seen[d])
  <2> SUFFICES ASSUME pc[d] = "committed"
               PROVE  pathItem'[path[d]] = NextFsid(seen[d])
    OBVIOUS
  <2>1. InRange(seen[d]) /\ path[d] \in Paths /\ pathItem[path[d]] = NextFsid(seen[d])
    BY DEF ConnInv
  <2>2. NextFsid(seen[d]) # None
    BY <2>1, ConstantsAssumption DEF InRange
  <2> QED
    BY <2>1, <2>2 DEF Grows
<1>3. pc[d] = "storepath" => fsids'[Owner[d]][path[d]] = fsid[d]
  <2> SUFFICES ASSUME pc[d] = "storepath"
               PROVE  fsids'[Owner[d]][path[d]] = fsid[d]
    OBVIOUS
  <2>1. path[d] \in Paths /\ fsids[Owner[d]][path[d]] = fsid[d]
    BY DEF ConnInv, HasMapping
  <2>2. fsid[d] # None
    BY ConstantsAssumption DEF TypeOK, Fsid
  <2> QED
    BY <2>1, <2>2 DEF CacheGrows
<1> QED
  BY <1>1, <1>2, <1>3 DEF ConnInv, Same, InRange, NextFsid

\* An error keeps its meaning while the table grows.
LEMMA ErrorFrame ==
  ASSUME NEW d \in Conns, err'[d] = err[d], Grows, ErrOK(d)
  PROVE  ErrOK(d)'
<1>1. \A f \in 1..MaxInt32 : f \in Fsid
  BY ConstantsAssumption DEF Fsid
<1> QED
  BY <1>1 DEF ErrOK, Grows

\* A step in which the commands in C take part, keeps the invariant if it keeps
\* what concerns the table, the caches, the transactions and these commands.
LEMMA AnyStep ==
  ASSUME IInv, NEW C \in SUBSET Conns, TypeOK', TableInv', CacheCoherent', LateInv',
         Grows, \A d \in Conns \ C : Same(d) /\ CacheGrows(Owner[d]),
         \A d \in C : ErrOK(d)' /\ ConnInv(d)'
  PROVE  IInv'
<1>1. \A d \in Conns : ErrOK(d)'
  <2> SUFFICES ASSUME NEW d \in Conns \ C PROVE ErrOK(d)'
    OBVIOUS
  <2>1. err'[d] = err[d] /\ ErrOK(d)
    BY DEF Same, IInv, ErrorsMeanWhatTheySay, ErrOK
  <2> QED
    BY <2>1, ErrorFrame
<1>2. ErrorsMeanWhatTheySay'
  BY <1>1 DEF ErrorsMeanWhatTheySay, ErrOK
<1>3. ASSUME NEW d \in Conns
      PROVE  ConnInv(d)'
  <2>1. CASE d \in C
    BY <2>1
  <2>2. CASE d \notin C
    <3>1. Same(d) /\ ConnInv(d) /\ CacheGrows(Owner[d]) /\ TypeOK
      BY <2>2 DEF IInv
    <3> QED
      BY <3>1, Frame
  <2> QED
    BY <2>1, <2>2
<1> QED
  BY <1>2, <1>3 DEF IInv

\* A step of c that leaves the table alone.
LEMMA CacheStep ==
  ASSUME IInv, NEW c \in Conns, UNCHANGED table, Only(c), LocalType',
         late' \in SUBSET Transaction, LateInv',
         fsids' \in [Instances -> [Paths -> Opt(Fsid)]],
         paths' \in [Instances -> [Fsid -> Opt(Paths)]],
         CacheCoherent', \A i \in Instances : CacheGrows(i), ErrOK(c)', ConnInv(c)'
  PROVE  IInv'
<1>1. TypeOK'
  BY DEF IInv, TypeOK, LocalType, table
<1>2. TableInv' /\ Grows
  BY DEF IInv, TableInv, CounterInv, ItemsAgree, Dense, table, NextFsid, Grows
<1>3. \A d \in Conns \ {c} : Same(d) /\ CacheGrows(Owner[d])
  BY ConstantsAssumption DEF Only
<1>4. {c} \in SUBSET Conns /\ \A d \in {c} : ErrOK(d)' /\ ConnInv(d)'
  OBVIOUS
<1> QED
  BY Zenon, <1>1, <1>2, <1>3, <1>4, AnyStep

\* The transactions in flight stay what they are.
LEMMA LateFrame ==
  ASSUME IInv, UNCHANGED late
  PROVE  late' \in SUBSET Transaction /\ LateInv'
BY DEF IInv, TypeOK, LateInv, InRange, NextFsid

\* The same, when it leaves the caches alone too.
LEMMA LocalStep ==
  ASSUME IInv, NEW c \in Conns, UNCHANGED <<table, cache, late>>, Only(c),
         LocalType', ErrOK(c)', ConnInv(c)'
  PROVE  IInv'
<1>1. /\ fsids' \in [Instances -> [Paths -> Opt(Fsid)]]
      /\ paths' \in [Instances -> [Fsid -> Opt(Paths)]]
  BY DEF IInv, TypeOK, cache
<1>2. CacheCoherent' /\ \A i \in Instances : CacheGrows(i)
  BY DEF IInv, CacheCoherent, CacheGrows, table, cache
<1> QED
  BY <1>1, <1>2, LateFrame, CacheStep

-----------------------------------------------------------------------------
(* The steps of a command that are its own. *)

\* Moving to label l with result f and error e.
LEMMA GotoOK ==
  ASSUME IInv, NEW c \in Conns, NEW l \in Labels, NEW f \in Fsid,
         NEW e \in Errors, Goto(c, l, f, e)
  PROVE  /\ pc' \in [Conns -> Labels]
         /\ fsid' \in [Conns -> Fsid]
         /\ err' \in [Conns -> Errors]
         /\ pc'[c] = l /\ fsid'[c] = f /\ err'[c] = e
         /\ \A d \in Conns \ {c} :
              pc'[d] = pc[d] /\ fsid'[d] = fsid[d] /\ err'[d] = err[d]
BY DEF IInv, TypeOK, Goto

\* The same, when the command and its argument stay.
LEMMA GotoLocal ==
  ASSUME IInv, NEW c \in Conns, NEW l \in Labels, NEW f \in Fsid,
         NEW e \in Errors, Goto(c, l, f, e), UNCHANGED <<op, path, seen>>
  PROVE  /\ LocalType' /\ Only(c)
         /\ pc'[c] = l /\ fsid'[c] = f /\ err'[c] = e
         /\ op'[c] = op[c] /\ path'[c] = path[c] /\ seen'[c] = seen[c]
BY GotoOK DEF IInv, TypeOK, LocalType, Only, Same

\* A command that arrives, valid or not, keeps the invariant.
LEMMA BeginOK ==
  ASSUME IInv, NEW c \in Conns, NEW o \in Ops, NEW p \in Opt(Paths),
         NEW f \in Fsid, NEW valid \in BOOLEAN, NEW l \in Labels,
         Begin(c, o, p, f, valid, l),
         valid => \/ o # "get_path" /\ l = "load" /\ p \in Paths
                  \/ o = "get_path" /\ l = "loadpath" /\ f >= 1
  PROVE  IInv'
<1>1. UNCHANGED <<table, cache, late, seen>>
  BY DEF Begin
<1>2. PICK l1 \in Labels, e1 \in Errors :
        /\ Goto(c, l1, f, e1)
        /\ \/ valid /\ l1 = l /\ e1 = "nil"
           \/ ~valid /\ l1 = "done" /\ e1 = "InvalidArgument"
  <2>1. "nil" \in Errors /\ "InvalidArgument" \in Errors /\ "done" \in Labels
    BY DEF Errors, Labels
  <2> QED
    BY <2>1 DEF Begin
<1>3. /\ op' \in [Conns -> Opt(Ops)] /\ path' \in [Conns -> Opt(Paths)]
      /\ op'[c] = o /\ path'[c] = p
      /\ \A d \in Conns \ {c} : op'[d] = op[d] /\ path'[d] = path[d]
  BY DEF Begin, IInv, TypeOK, Opt
<1>4. /\ pc' \in [Conns -> Labels] /\ fsid' \in [Conns -> Fsid]
      /\ err' \in [Conns -> Errors]
      /\ pc'[c] = l1 /\ fsid'[c] = f /\ err'[c] = e1
      /\ \A d \in Conns \ {c} :
           pc'[d] = pc[d] /\ fsid'[d] = fsid[d] /\ err'[d] = err[d]
  BY <1>2, GotoOK
<1>5. LocalType' /\ Only(c)
  BY <1>1, <1>3, <1>4 DEF LocalType, Only, Same, IInv, TypeOK
<1>6. ErrOK(c)' /\ ConnInv(c)'
  BY <1>2, <1>3, <1>4 DEF ErrOK, ConnInv
<1> QED
  BY <1>1, <1>5, <1>6, LocalStep

\* The arrival of a command keeps the invariant.
LEMMA ReceiveOK ==
  ASSUME IInv, NEW c \in Conns, Receive(c)
  PROVE  IInv'
<1>1. 0 \in Fsid
  BY ConstantsAssumption DEF Fsid
<1>2. "load" \in Labels /\ "loadpath" \in Labels
  BY DEF Labels
<1>3. ASSUME NEW p \in Opt(Paths), GetFsidNum(c, p) PROVE IInv'
  BY Zenon, <1>1, <1>2, <1>3, BeginOK DEF GetFsidNum, Opt, Ops
<1>4. ASSUME NEW p \in Opt(Paths), GetOrCreateFsidNum(c, p) PROVE IInv'
  BY Zenon, <1>1, <1>2, <1>4, BeginOK DEF GetOrCreateFsidNum, Opt, Ops
<1>5. ASSUME NEW f \in Fsid, GetPath(c, f) PROVE IInv'
  <2>1. Begin(c, "get_path", None, f, f >= 1, "loadpath")
    BY <1>5 DEF GetPath
  <2>2. None \in Opt(Paths) /\ "get_path" \in Ops /\ (f >= 1) \in BOOLEAN
    BY DEF Opt, Ops
  <2> QED
    BY Zenon, <2>1, <2>2, <1>2, BeginOK
<1> QED
  BY <1>3, <1>4, <1>5 DEF Receive

\* A command that moves on without having called anything.
LEMMA JumpOK ==
  ASSUME IInv, NEW c \in Conns, NEW l \in Labels, pc' = [pc EXCEPT ![c] = l],
         UNCHANGED <<op, path, fsid, seen, err>>
  PROVE  /\ LocalType' /\ Only(c) /\ pc'[c] = l
         /\ UNCHANGED table => ErrOK(c)'
BY DEF IInv, TypeOK, LocalType, Only, Same, ErrorsMeanWhatTheySay, ErrOK, table

\* A lookup of FSIDCache.GetFSID or AllocateFSID keeps the invariant.
LEMMA LoadFsidOK ==
  ASSUME IInv, NEW c \in Conns, NEW from, NEW miss, LoadFsid(c, from, miss),
         \/ from = "load" /\ miss = "get"
         \/ from = "alloc" /\ miss = "counter"
  PROVE  IInv'
<1> DEFINE hit == fsids[Owner[c]][path[c]]
<1>1. UNCHANGED <<table, cache, late, op, path, seen>> /\ pc[c] = from
  BY DEF LoadFsid
<1>2. path[c] \in Paths /\ op[c] # "get_path"
  BY <1>1 DEF IInv, ConnInv
<1>3. CASE UseCache /\ hit # None
  <2>1. Goto(c, "done", hit, "nil")
    BY <1>3 DEF LoadFsid
  <2>2. pathItem[path[c]] = hit /\ hit \in Fsid
    BY <1>2, <1>3, ConstantsAssumption DEF IInv, TypeOK, CacheCoherent, Opt
  <2>3. fsidItem[hit] = path[c] /\ hit >= 1
    BY <2>2, <1>2, <1>3, ConstantsAssumption DEF IInv, TableInv, ItemsAgree, Dense, Fsid
  <2>4. "done" \in Labels /\ "nil" \in Errors
    BY DEF Labels, Errors
  <2>5. /\ LocalType' /\ Only(c)
        /\ pc'[c] = "done" /\ fsid'[c] = hit /\ err'[c] = "nil"
        /\ op'[c] = op[c] /\ path'[c] = path[c]
    BY <1>1, <2>1, <2>2, <2>4, GotoLocal
  <2>6. ErrOK(c)' /\ ConnInv(c)'
    BY <1>1, <1>2, <2>2, <2>3, <2>5 DEF ErrOK, ConnInv, HasMapping, table
  <2> QED
    BY <1>1, <2>5, <2>6, LocalStep
<1>4. CASE ~(UseCache /\ hit # None)
  <2>1. pc' = [pc EXCEPT ![c] = miss] /\ UNCHANGED <<fsid, err>>
    BY <1>4 DEF LoadFsid
  <2>2. miss \in Labels
    BY DEF Labels
  <2>3. LocalType' /\ Only(c) /\ pc'[c] = miss /\ ErrOK(c)'
    BY Zenon, <1>1, <2>1, <2>2, JumpOK
  <2>4. ConnInv(c)'
    BY <1>1, <1>2, <2>1, <2>3 DEF ConnInv
  <2> QED
    BY <1>1, <2>3, <2>4, LocalStep
<1> QED
  BY <1>3, <1>4

\* A lookup of FSIDCache.GetPath keeps the invariant.
LEMMA CacheGetPathOK ==
  ASSUME IInv, NEW c \in Conns, CacheGetPath(c)
  PROVE  IInv'
<1> DEFINE hit == paths[Owner[c]][fsid[c]]
<1>1. UNCHANGED <<table, cache, late, op, seen>> /\ pc[c] = "loadpath"
  BY DEF CacheGetPath
<1>2. op[c] = "get_path" /\ fsid[c] >= 1 /\ fsid[c] \in Fsid
  BY <1>1 DEF IInv, ConnInv, TypeOK
<1>3. CASE UseCache /\ hit # None
  <2>1. path' = [path EXCEPT ![c] = hit] /\ Goto(c, "done", fsid[c], "nil")
    BY <1>3 DEF CacheGetPath
  <2>2. hit \in Paths /\ fsids[Owner[c]][hit] = fsid[c]
    BY <1>2, <1>3, ConstantsAssumption DEF IInv, TypeOK, CacheCoherent, Opt
  <2>3. pathItem[hit] = fsid[c] /\ fsidItem[fsid[c]] = hit
    <3>1. fsid[c] # None /\ Owner[c] \in Instances
      BY <1>2, ConstantsAssumption DEF Fsid
    <3>2. pathItem[hit] = fsid[c]
      BY <3>1, <2>2 DEF IInv, CacheCoherent
    <3> QED
      BY <3>1, <3>2, <2>2 DEF IInv, TableInv, ItemsAgree
  <2>4. "done" \in Labels /\ "nil" \in Errors
    BY DEF Labels, Errors
  <2>5. /\ pc' \in [Conns -> Labels] /\ fsid' \in [Conns -> Fsid]
        /\ err' \in [Conns -> Errors]
        /\ pc'[c] = "done" /\ fsid'[c] = fsid[c] /\ err'[c] = "nil"
        /\ \A d \in Conns \ {c} :
             pc'[d] = pc[d] /\ fsid'[d] = fsid[d] /\ err'[d] = err[d]
    BY <1>2, <2>1, <2>4, GotoOK
  <2>6. LocalType' /\ Only(c) /\ path'[c] = hit
    BY Zenon, <1>1, <2>1, <2>2, <2>5 DEF IInv, TypeOK, LocalType, Only, Same, Opt
  <2>7. ErrOK(c)' /\ ConnInv(c)'
    BY <1>1, <1>2, <2>2, <2>3, <2>5, <2>6 DEF ErrOK, ConnInv, HasMapping, table
  <2> QED
    BY <1>1, <2>6, <2>7, LocalStep
<1>4. CASE ~(UseCache /\ hit # None)
  <2>1. pc' = [pc EXCEPT ![c] = "getpath"] /\ UNCHANGED <<path, fsid, err>>
    BY <1>4 DEF CacheGetPath
  <2>2. "getpath" \in Labels
    BY DEF Labels
  <2>3. LocalType' /\ Only(c) /\ pc'[c] = "getpath" /\ ErrOK(c)'
    BY Zenon, <1>1, <2>1, <2>2, JumpOK
  <2>4. ConnInv(c)'
    BY <1>1, <1>2, <2>1, <2>3 DEF ConnInv
  <2> QED
    BY <1>1, <2>3, <2>4, LocalStep
<1> QED
  BY <1>3, <1>4

\* Failed's result: the classes AfterAttempt and withRetry tell apart.
LEMMA FailedOK ==
  ASSUME IInv, NEW c \in Conns, NEW e \in Errors, e # "nil", e # "Inconsistent",
         Failed(c, e), UNCHANGED <<op, path, seen>>,
         op[c] = "get_path" => fsid[c] >= 1,
         op[c] # "get_path" => path[c] \in Paths
  PROVE  /\ LocalType' /\ Only(c) /\ ConnInv(c)' /\ err'[c] = e
         /\ e # "Exhausted" => ErrOK(c)'
<1> DEFINE l == AfterAttempt(e)
           f == IF op[c] = "get_path" THEN fsid[c] ELSE 0
<1>1. l \in Labels /\ f \in Fsid
  BY ConstantsAssumption DEF AfterAttempt, Labels, IInv, TypeOK, Fsid
<1>2. Goto(c, l, f, e)
  BY DEF Failed
<1>3. /\ LocalType' /\ Only(c)
      /\ pc'[c] = l /\ fsid'[c] = f /\ err'[c] = e
      /\ op'[c] = op[c] /\ path'[c] = path[c]
  BY <1>1, <1>2, GotoLocal
<1>4. ConnInv(c)'
  BY <1>3 DEF ConnInv, AfterAttempt
<1> QED
  BY <1>3, <1>4 DEF ErrOK

\* Found's result.
LEMMA FoundOK ==
  ASSUME IInv, NEW c \in Conns, NEW f \in Fsid, Found(c, f),
         UNCHANGED <<table, op, path, seen>>, f >= 1, path[c] \in Paths,
         pathItem[path[c]] = f
  PROVE  LocalType' /\ Only(c) /\ ConnInv(c)' /\ ErrOK(c)'
<1> DEFINE l == IF UseCache THEN "storefsid" ELSE "done"
<1>1. l \in Labels /\ "nil" \in Errors
  BY DEF Labels, Errors
<1>2. Goto(c, l, f, "nil")
  BY DEF Found
<1>3. /\ LocalType' /\ Only(c)
      /\ pc'[c] = l /\ fsid'[c] = f /\ err'[c] = "nil"
      /\ op'[c] = op[c] /\ path'[c] = path[c]
  BY <1>1, <1>2, GotoLocal
<1>4. fsidItem[f] = path[c]
  BY ConstantsAssumption DEF IInv, TableInv, ItemsAgree, Fsid
<1>5. ConnInv(c)'
  BY <1>3, <1>4 DEF ConnInv, HasMapping, table
<1> QED
  BY <1>3, <1>5 DEF ErrOK

\* The read of a PATH# item keeps the invariant.
LEMMA SourceGetFSIDOK ==
  ASSUME IInv, NEW c \in Conns, SourceGetFSID(c)
  PROVE  IInv'
<1>1. UNCHANGED <<table, cache, late, op, path, seen>> /\ pc[c] = "get"
  BY DEF SourceGetFSID
<1>2. path[c] \in Paths /\ op[c] # "get_path"
  BY <1>1 DEF IInv, ConnInv
<1>3. CASE pathItem[path[c]] # None /\ Found(c, pathItem[path[c]])
  <2>1. pathItem[path[c]] \in Fsid
    BY <1>2, <1>3 DEF IInv, TypeOK, Opt
  <2>2. pathItem[path[c]] >= 1
    BY <1>2, <1>3, <2>1, ConstantsAssumption DEF IInv, TableInv, ItemsAgree, Dense
  <2> QED
    BY <1>1, <1>2, <1>3, <2>1, <2>2, FoundOK, LocalStep
<1>4. CASE Goto(c, IF op[c] = "get_or_create_fsidnum" THEN "alloc" ELSE "done",
                0, "NotFound")
  <2> DEFINE l == IF op[c] = "get_or_create_fsidnum" THEN "alloc" ELSE "done"
  <2>1. l \in Labels /\ 0 \in Fsid /\ "NotFound" \in Errors
    BY ConstantsAssumption DEF Labels, Fsid, Errors
  <2>2. /\ LocalType' /\ Only(c) /\ pc'[c] = l /\ err'[c] = "NotFound"
        /\ op'[c] = op[c] /\ path'[c] = path[c]
    BY <1>1, <1>4, <2>1, GotoLocal
  <2>3. ErrOK(c)' /\ ConnInv(c)'
    BY <1>2, <2>2 DEF ErrOK, ConnInv
  <2> QED
    BY <1>1, <2>2, <2>3, LocalStep
<1>5. CASE \E e \in CallErrors : Failed(c, e)
  <2> PICK e \in CallErrors : Failed(c, e)
    BY <1>5
  <2>1. e \in Errors /\ e \notin {"nil", "Inconsistent", "Exhausted"}
    BY DEF CallErrors, Errors
  <2> QED
    BY <1>1, <1>2, <2>1, FailedOK, LocalStep
<1> QED
  BY <1>3, <1>4, <1>5 DEF SourceGetFSID

\* The read of a FSID# item keeps the invariant.
LEMMA SourceGetPathOK ==
  ASSUME IInv, NEW c \in Conns, SourceGetPath(c)
  PROVE  IInv'
<1>1. UNCHANGED <<table, cache, late, op, seen>> /\ pc[c] = "getpath"
  BY DEF SourceGetPath
<1>2. op[c] = "get_path" /\ fsid[c] >= 1 /\ fsid[c] \in Fsid
  BY <1>1 DEF IInv, ConnInv, TypeOK
<1>3. CASE /\ fsidItem[fsid[c]] # None
           /\ path' = [path EXCEPT ![c] = fsidItem[fsid[c]]]
           /\ Found(c, fsid[c])
  <2> DEFINE l == IF UseCache THEN "storefsid" ELSE "done"
             p == fsidItem[fsid[c]]
  <2>1. p \in Paths /\ pathItem[p] = fsid[c]
    BY <1>2, <1>3 DEF IInv, TypeOK, Opt, TableInv, ItemsAgree
  <2>2. l \in Labels /\ "nil" \in Errors /\ Goto(c, l, fsid[c], "nil")
    BY <1>3 DEF Labels, Errors, Found
  <2>3. /\ pc' \in [Conns -> Labels] /\ fsid' \in [Conns -> Fsid]
        /\ err' \in [Conns -> Errors]
        /\ pc'[c] = l /\ fsid'[c] = fsid[c] /\ err'[c] = "nil"
        /\ \A d \in Conns \ {c} :
             pc'[d] = pc[d] /\ fsid'[d] = fsid[d] /\ err'[d] = err[d]
    BY <1>2, <2>2, GotoOK
  <2>4. LocalType' /\ Only(c) /\ path'[c] = p
    BY Zenon, <1>1, <1>3, <2>1, <2>3 DEF IInv, TypeOK, LocalType, Only, Same, Opt
  <2>5. ErrOK(c)' /\ ConnInv(c)'
    BY <1>1, <1>2, <2>1, <2>3, <2>4 DEF ErrOK, ConnInv, HasMapping, table
  <2> QED
    BY <1>1, <2>4, <2>5, LocalStep
<1>4. ASSUME NEW e \in CallErrors \cup {"NotFound"}, Failed(c, e), UNCHANGED path
      PROVE  IInv'
  <2>1. e \in Errors /\ e \notin {"nil", "Inconsistent", "Exhausted"}
    BY DEF CallErrors, Errors
  <2> QED
    BY Zenon, <1>1, <1>2, <1>4, <2>1, FailedOK, LocalStep
<1> QED
  BY <1>3, <1>4 DEF SourceGetPath

\* The first write of FSIDCache.store keeps the invariant.
LEMMA StoreFsidOK ==
  ASSUME IInv, NEW c \in Conns, StoreFsid(c)
  PROVE  IInv'
<1>1. /\ pc[c] = "storefsid" /\ pc' = [pc EXCEPT ![c] = "storepath"]
      /\ fsids' = [fsids EXCEPT ![Owner[c]][path[c]] = fsid[c]]
      /\ UNCHANGED <<table, paths, late, op, path, fsid, seen, err>>
  BY DEF StoreFsid
<1>2. /\ err[c] = "nil" /\ HasMapping(c) /\ path[c] \in Paths
      /\ fsid[c] \in Fsid /\ Owner[c] \in Instances /\ fsid[c] # None
      /\ op[c] = "get_path" => fsid[c] >= 1
  <2>1. err[c] = "nil" /\ HasMapping(c)
    BY <1>1 DEF IInv, ConnInv
  <2>2. fsid[c] \in Fsid /\ fsid[c] # None
    BY ConstantsAssumption DEF IInv, TypeOK, Fsid
  <2> QED
    BY <2>1, <2>2, ConstantsAssumption DEF HasMapping
<1>3. /\ LocalType' /\ Only(c) /\ pc'[c] = "storepath" /\ ErrOK(c)'
  <2>1. "storepath" \in Labels
    BY DEF Labels
  <2> QED
    BY Zenon, <1>1, <2>1, JumpOK
<1>4. fsids' \in [Instances -> [Paths -> Opt(Fsid)]]
  BY <1>1, <1>2 DEF IInv, TypeOK, Opt
<1>5. /\ fsids'[Owner[c]][path[c]] = fsid[c]
      /\ \A i \in Instances, p \in Paths :
           i # Owner[c] \/ p # path[c] => fsids'[i][p] = fsids[i][p]
  BY <1>1, <1>2 DEF IInv, TypeOK
<1>6. pathItem[path[c]] = fsid[c]
  BY <1>2 DEF HasMapping
<1>7. \A i \in Instances : CacheGrows(i)
  <2>1. SUFFICES ASSUME NEW i \in Instances, NEW p \in Paths, fsids[i][p] # None
                 PROVE  fsids'[i][p] = fsids[i][p]
    BY <2>1 DEF CacheGrows
  <2>2. pathItem[p] = fsids[i][p]
    BY <2>1 DEF IInv, CacheCoherent
  <2> QED
    BY <1>5, <1>6, <2>2
<1>8. CacheCoherent'
  <2> SUFFICES ASSUME NEW i \in Instances
               PROVE  /\ \A p \in Paths : fsids'[i][p] # None => pathItem[p] = fsids'[i][p]
                      /\ \A f \in Fsid : paths[i][f] # None => fsids'[i][paths[i][f]] = f
    BY <1>1 DEF CacheCoherent, table
  <2>1. ASSUME NEW p \in Paths, fsids'[i][p] # None
        PROVE  pathItem[p] = fsids'[i][p]
    BY <2>1, <1>5, <1>6 DEF IInv, CacheCoherent
  <2>2. ASSUME NEW f \in Fsid, paths[i][f] # None
        PROVE  fsids'[i][paths[i][f]] = f
    <3>1. paths[i][f] \in Paths /\ fsids[i][paths[i][f]] = f /\ f # None
      BY <2>2, ConstantsAssumption DEF IInv, TypeOK, Opt, CacheCoherent, Fsid
    <3> QED
      BY <3>1, <1>7 DEF CacheGrows
  <2> QED
    BY <2>1, <2>2
<1>9. ConnInv(c)'
  BY <1>1, <1>2, <1>3, <1>5 DEF ConnInv, HasMapping, table
<1> QED
  <2>1. paths' \in [Instances -> [Fsid -> Opt(Paths)]]
    BY <1>1 DEF IInv, TypeOK
  <2> QED
    BY Zenon, <2>1, <1>1, <1>3, <1>4, <1>7, <1>8, <1>9, LateFrame, CacheStep

\* The second write of FSIDCache.store keeps the invariant.
LEMMA StorePathOK ==
  ASSUME IInv, NEW c \in Conns, StorePath(c)
  PROVE  IInv'
<1>1. /\ pc[c] = "storepath" /\ pc' = [pc EXCEPT ![c] = "done"]
      /\ paths' = [paths EXCEPT ![Owner[c]][fsid[c]] = path[c]]
      /\ UNCHANGED <<table, fsids, late, op, path, fsid, seen, err>>
  BY DEF StorePath
<1>2. /\ err[c] = "nil" /\ HasMapping(c) /\ path[c] \in Paths
      /\ fsid[c] \in Fsid /\ Owner[c] \in Instances /\ path[c] # None
      /\ fsids[Owner[c]][path[c]] = fsid[c]
  <2>1. err[c] = "nil" /\ HasMapping(c) /\ fsids[Owner[c]][path[c]] = fsid[c]
    BY <1>1 DEF IInv, ConnInv
  <2>2. fsid[c] \in Fsid
    BY DEF IInv, TypeOK
  <2> QED
    BY <2>1, <2>2, ConstantsAssumption DEF HasMapping
<1>3. /\ LocalType' /\ Only(c) /\ pc'[c] = "done" /\ ErrOK(c)'
  <2>1. "done" \in Labels
    BY DEF Labels
  <2> QED
    BY Zenon, <1>1, <2>1, JumpOK
<1>4. paths' \in [Instances -> [Fsid -> Opt(Paths)]]
  BY <1>1, <1>2 DEF IInv, TypeOK, Opt
<1>5. /\ paths'[Owner[c]][fsid[c]] = path[c]
      /\ \A i \in Instances, f \in Fsid :
           i # Owner[c] \/ f # fsid[c] => paths'[i][f] = paths[i][f]
  BY <1>1, <1>2 DEF IInv, TypeOK
<1>6. CacheCoherent'
  <2> SUFFICES ASSUME NEW i \in Instances, NEW f \in Fsid, paths'[i][f] # None
               PROVE  fsids[i][paths'[i][f]] = f
    BY <1>1 DEF CacheCoherent, table, IInv
  <2>1. CASE i = Owner[c] /\ f = fsid[c]
    BY <1>2, <1>5, <2>1
  <2>2. CASE i # Owner[c] \/ f # fsid[c]
    <3>1. paths'[i][f] = paths[i][f]
      BY <1>5, <2>2
    <3> QED
      BY <3>1 DEF IInv, CacheCoherent
  <2> QED
    BY <2>1, <2>2
<1>7. \A i \in Instances : CacheGrows(i)
  BY <1>1 DEF CacheGrows
<1>8. ConnInv(c)'
  BY <1>1, <1>2, <1>3 DEF ConnInv, HasMapping, table
<1> QED
  <2>1. fsids' \in [Instances -> [Paths -> Opt(Fsid)]]
    BY <1>1 DEF IInv, TypeOK
  <2> QED
    BY Zenon, <2>1, <1>1, <1>3, <1>4, <1>6, <1>7, <1>8, LateFrame, CacheStep

\* A command that moves between the labels of the allocation and of withRetry.
LEMMA MoveOK ==
  ASSUME IInv, NEW c \in Conns,
         RetryRace(c) \/ Retry(c) \/ GiveUp(c)
  PROVE  IInv'
<1> DEFINE l == IF pc[c] = "race" THEN "counter"
                ELSE IF pc'[c] = "done" THEN "done"
                ELSE IF op[c] = "get_path" THEN "loadpath" ELSE "load"
<1>1. /\ UNCHANGED <<table, cache, late, op, path, fsid, seen, err>>
      /\ pc' = [pc EXCEPT ![c] = l] /\ pc[c] \in {"race", "retry"}
      /\ l = "counter" <=> pc[c] = "race"
  <2>1. pc \in [Conns -> Labels]
    BY DEF IInv, TypeOK
  <2> QED
    BY <2>1 DEF RetryRace, Retry, GiveUp
<1>2. l \in Labels
  BY DEF Labels
<1>3. LocalType' /\ Only(c) /\ pc'[c] = l /\ ErrOK(c)'
  BY <1>1, <1>2, JumpOK
<1>4. pc[c] = "retry" => err[c] # "nil"
  BY DEF IInv, ConnInv
<1>5. ConnInv(c)'
  BY Zenon, <1>1, <1>3, <1>4 DEF IInv, ConnInv, table
<1> QED
  BY <1>1, <1>3, <1>5, LocalStep

\* The read of the COUNTER item keeps the invariant.
LEMMA NextFSIDOK ==
  ASSUME IInv, NEW c \in Conns, NextFSID(c)
  PROVE  IInv'
<1>1. UNCHANGED <<table, cache, late, op, path>> /\ pc[c] = "counter"
  BY DEF NextFSID
<1>2. path[c] \in Paths /\ op[c] # "get_path"
  BY <1>1 DEF IInv, ConnInv
<1>3. CASE NextFsid(counter) > MaxInt32 /\ Failed(c, "Exhausted") /\ UNCHANGED seen
  <2>1. "Exhausted" \in Errors
    BY DEF Errors
  <2>2. LocalType' /\ Only(c) /\ ConnInv(c)' /\ err'[c] = "Exhausted"
    BY <1>1, <1>2, <1>3, <2>1, FailedOK
  <2>3. \A f \in 1..MaxInt32 : fsidItem[f] # None
    BY <1>3, ConstantsAssumption DEF IInv, TableInv, CounterInv, Dense, Fsid
  <2>4. ErrOK(c)'
    BY <1>1, <2>2, <2>3 DEF ErrOK, table
  <2> QED
    BY <1>1, <2>2, <2>4, LocalStep
<1>4. CASE /\ NextFsid(counter) <= MaxInt32
           /\ seen' = [seen EXCEPT ![c] = counter]
           /\ pc' = [pc EXCEPT ![c] = "wait"]
           /\ UNCHANGED <<fsid, err>>
  <2>1. InRange(counter) /\ counter \in Opt(Nat)
    BY <1>4, ConstantsAssumption DEF IInv, TypeOK, TableInv, CounterInv, InRange
  <2>2. LocalType' /\ Only(c) /\ pc'[c] = "wait" /\ seen'[c] = counter
    BY <1>1, <1>4, <2>1 DEF IInv, TypeOK, LocalType, Only, Same, Labels
  <2>3. ErrOK(c)'
    BY <1>1, <1>4 DEF IInv, ErrorsMeanWhatTheySay, ErrOK, table
  <2>4. ConnInv(c)'
    BY Zenon, <1>1, <1>2, <1>4, <2>1, <2>2 DEF ConnInv, InRange, NextFsid
  <2> QED
    BY <1>1, <2>2, <2>3, <2>4, LocalStep
<1>5. CASE (\E e \in CallErrors : Failed(c, e)) /\ UNCHANGED seen
  <2> PICK e \in CallErrors : Failed(c, e)
    BY <1>5
  <2>1. e \in Errors /\ e \notin {"nil", "Inconsistent", "Exhausted"}
    BY DEF CallErrors, Errors
  <2> QED
    BY Zenon, <1>1, <1>2, <1>5, <2>1, FailedOK, LocalStep
<1> QED
  BY <1>3, <1>4, <1>5 DEF NextFSID

\* The answer to a transaction that was applied keeps the invariant.
LEMMA RespondOK ==
  ASSUME IInv, NEW c \in Conns, Respond(c)
  PROVE  IInv'
<1>1. /\ UNCHANGED <<table, cache, late, op, path, seen>> /\ pc[c] = "committed"
      /\ Found(c, NextFsid(seen[c]))
  BY Zenon DEF Respond
<1>2. path[c] \in Paths /\ pathItem[path[c]] = NextFsid(seen[c]) /\ InRange(seen[c])
  BY <1>1 DEF IInv, ConnInv
<1>3. NextFsid(seen[c]) \in Fsid /\ NextFsid(seen[c]) >= 1
  BY <1>2, ConstantsAssumption DEF InRange, Fsid
<1> QED
  BY Zenon, <1>1, <1>2, <1>3, FoundOK, LocalStep

-----------------------------------------------------------------------------
(* The steps of a transaction. *)

\* The COUNTER condition holding means that the FSID# condition holds too: the
\* class "Inconsistent" never occurs.
LEMMA NeverInconsistent ==
  ASSUME IInv, NEW t \in Transaction, InRange(t.seen), NEW X \in SUBSET (1..3)
  PROVE  ClassifyAllocateError(Reasons(t, X)) # "Inconsistent"
<1> DEFINE r == Reasons(t, X)
<1> SUFFICES ASSUME r[3] = "ConditionalCheckFailed", r[1] # "ConditionalCheckFailed",
                    \A k \in 1..3 : r[k] # "TransactionConflict"
             PROVE  FALSE
  BY DEF ClassifyAllocateError
<1>1. 1 \notin X /\ 3 \in FailedWrites(t) /\ 1 \notin FailedWrites(t)
  BY DEF Reasons
<1>2. counter = t.seen /\ fsidItem[NextFsid(t.seen)] # None
  BY <1>1 DEF FailedWrites
<1> QED
  BY <1>2, ConstantsAssumption DEF IInv, TableInv, Dense, InRange, Fsid

\* A cancelled transaction, its reasons classified, keeps the invariant.
LEMMA CancelledOK ==
  ASSUME IInv, NEW c \in Conns, pc[c] = "wait", NEW r, Cancelled(c, r),
         ClassifyAllocateError(r) # "Inconsistent"
  PROVE  IInv'
<1> DEFINE e == ClassifyAllocateError(r)
<1>1. UNCHANGED <<table, cache, late, op, path, seen>>
  BY DEF Cancelled
<1>2. path[c] \in Paths /\ op[c] # "get_path"
  BY DEF IInv, ConnInv
<1>3. e \in Errors /\ e \notin {"nil", "Inconsistent", "Exhausted"}
  BY DEF ClassifyAllocateError, Errors
<1>4. CASE e = "CounterRace"
  <2>1. "race" \in Labels /\ 0 \in Fsid /\ Goto(c, "race", 0, e)
    BY <1>4, ConstantsAssumption DEF Labels, Fsid, Cancelled
  <2>2. LocalType' /\ Only(c) /\ pc'[c] = "race" /\ err'[c] = e
    BY <1>1, <1>3, <2>1, GotoLocal
  <2>3. op'[c] = op[c] /\ path'[c] = path[c]
    BY <1>1
  <2>4. ErrOK(c)' /\ ConnInv(c)'
    BY <1>2, <1>3, <2>2, <2>3 DEF ErrOK, ConnInv
  <2> QED
    BY <1>1, <2>2, <2>4, LocalStep
<1>5. CASE e # "CounterRace"
  <2>1. Failed(c, e)
    BY <1>5 DEF Cancelled
  <2> QED
    BY Zenon, <1>1, <1>2, <1>3, <2>1, FailedOK, LocalStep
<1> QED
  BY <1>4, <1>5

\* The transaction a command waits for.
LEMMA TxOK ==
  ASSUME IInv, NEW c \in Conns, pc[c] = "wait"
  PROVE  Tx(c) \in Transaction /\ InRange(Tx(c).seen) /\ Tx(c).path = path[c]
<1>1. path[c] \in Paths /\ InRange(seen[c])
  BY DEF IInv, ConnInv
<1>2. seen[c] \in Opt(Nat)
  BY DEF IInv, TypeOK
<1> QED
  BY <1>1, <1>2 DEF Tx, Transaction

\* A transaction DynamoDB refuses keeps the invariant.
LEMMA RefusedOK ==
  ASSUME IInv, NEW c \in Conns, ConditionFails(c) \/ Contention(c) \/ Throttled(c)
  PROVE  IInv'
<1>1. pc[c] = "wait"
  BY DEF ConditionFails, Contention, Throttled
<1>2. CASE ConditionFails(c)
  <2>1. Cancelled(c, Reasons(Tx(c), {})) /\ {} \in SUBSET (1..3)
    BY <1>2 DEF ConditionFails
  <2> QED
    BY <1>1, <2>1, TxOK, NeverInconsistent, CancelledOK
<1>3. CASE Contention(c)
  <2> PICK X \in SUBSET (1..3) : Cancelled(c, Reasons(Tx(c), X))
    BY <1>3 DEF Contention
  <2> QED
    BY <1>1, TxOK, NeverInconsistent, CancelledOK
<1>4. CASE Throttled(c)
  <2> DEFINE r == <<"ThrottlingError", "None", "None">>
  <2>1. ClassifyAllocateError(r) = "Fatal" /\ Cancelled(c, r)
    BY <1>4 DEF Throttled, ClassifyAllocateError
  <2> QED
    BY <1>1, <2>1, CancelledOK
<1> QED
  BY <1>2, <1>3, <1>4

\* An interrupted sleep keeps the invariant.
LEMMA CancelSleepOK ==
  ASSUME IInv, NEW c \in Conns, CancelSleep(c)
  PROVE  IInv'
<1>1. /\ UNCHANGED <<table, cache, late, op, path, seen>> /\ Failed(c, "Fatal")
      /\ pc[c] \in {"retry", "race"}
  BY DEF CancelSleep
<1>2. /\ op[c] = "get_path" => fsid[c] >= 1
      /\ op[c] # "get_path" => path[c] \in Paths
  BY <1>1 DEF IInv, ConnInv
<1>3. "Fatal" \in Errors
  BY DEF Errors
<1> QED
  BY <1>1, <1>2, <1>3, FailedOK, LocalStep

\* A lost answer keeps the invariant.
LEMMA LoseAnswerOK ==
  ASSUME IInv, NEW c \in Conns, LoseAnswer(c)
  PROVE  IInv'
<1> PICK e \in {"Retryable", "Fatal"} : Failed(c, e)
  BY DEF LoseAnswer
<1>1. /\ UNCHANGED <<table, cache, op, path, seen>> /\ pc[c] \in {"wait", "committed"}
      /\ late' = IF pc[c] = "wait" THEN late \cup {Tx(c)} ELSE late
  BY DEF LoseAnswer
<1>2. path[c] \in Paths /\ op[c] # "get_path"
  BY <1>1 DEF IInv, ConnInv
<1>3. e \in Errors /\ e \notin {"nil", "Inconsistent", "Exhausted"}
  BY DEF Errors
<1>4. LocalType' /\ Only(c) /\ ConnInv(c)' /\ ErrOK(c)'
  BY Zenon, <1>1, <1>2, <1>3, FailedOK
<1>5. late' \in SUBSET Transaction /\ LateInv'
  BY <1>1, TxOK DEF IInv, TypeOK, LateInv, InRange, NextFsid
<1>6. /\ fsids' \in [Instances -> [Paths -> Opt(Fsid)]]
      /\ paths' \in [Instances -> [Fsid -> Opt(Paths)]]
  BY <1>1 DEF IInv, TypeOK, cache
<1>7. CacheCoherent' /\ \A i \in Instances : CacheGrows(i)
  BY <1>1 DEF IInv, CacheCoherent, CacheGrows, table, cache
<1> QED
  BY <1>1, <1>4, <1>5, <1>6, <1>7, CacheStep

\* Caches stay coherent while the table grows.
LEMMA CacheFrame ==
  ASSUME IInv, Grows, UNCHANGED cache
  PROVE  CacheCoherent' /\ \A i \in Instances : CacheGrows(i)
<1>1. ASSUME NEW i \in Instances, NEW p \in Paths, fsids[i][p] # None
      PROVE  pathItem'[p] = fsids[i][p]
  BY <1>1 DEF IInv, CacheCoherent, Grows
<1> QED
  BY <1>1 DEF IInv, CacheCoherent, CacheGrows, cache

\* A transaction that is applied keeps the invariant.
LEMMA CommitOK ==
  ASSUME IInv, NEW c \in Conns, Commit(c)
  PROVE  IInv'
<1>1. /\ pc[c] = "wait" /\ Applicable(Tx(c)) /\ Apply(Tx(c))
      /\ pc' = [pc EXCEPT ![c] = "committed"]
      /\ UNCHANGED <<cache, late, op, path, fsid, seen, err>>
  BY DEF Commit
<1>2. Tx(c) \in Transaction /\ InRange(Tx(c).seen) /\ Tx(c).path = path[c]
  BY <1>1, TxOK
<1>3. TableType /\ TableInv
  BY DEF IInv, TypeOK, TableType
<1>4. TableType' /\ TableInv' /\ Grows /\ pathItem'[path[c]] = NextFsid(seen[c])
  <2>1. Tx(c).seen = seen[c]
    BY Zenon DEF Tx
  <2> QED
    BY Zenon, <1>1, <1>2, <1>3, <2>1, ApplyKeepsTable
<1>5. LocalType' /\ Only(c) /\ pc'[c] = "committed"
  <2>1. "committed" \in Labels
    BY DEF Labels
  <2> QED
    BY Zenon, <1>1, <2>1, JumpOK
<1>6. TypeOK'
  BY Zenon, <1>1, <1>4, <1>5 DEF IInv, TypeOK, TableType, LocalType, cache
<1>7. CacheCoherent' /\ \A i \in Instances : CacheGrows(i)
  BY <1>1, <1>4, CacheFrame
<1>8. ConnInv(c)'
  <2>1. path[c] \in Paths /\ op[c] # "get_path" /\ InRange(seen[c])
    BY Zenon, <1>1 DEF IInv, ConnInv
  <2> QED
    BY <1>1, <1>4, <1>5, <2>1 DEF ConnInv, InRange, NextFsid
<1>9. ErrOK(c)'
  <2>1. ErrOK(c) /\ err'[c] = err[c]
    BY <1>1 DEF IInv, ErrorsMeanWhatTheySay, ErrOK
  <2> QED
    BY <2>1, <1>4, ErrorFrame
<1>10. \A d \in Conns \ {c} : Same(d) /\ CacheGrows(Owner[d])
  BY <1>5, <1>7, ConstantsAssumption DEF Only
<1>11. {c} \in SUBSET Conns /\ \A d \in {c} : ErrOK(d)' /\ ConnInv(d)'
  BY <1>8, <1>9
<1> QED
  BY Zenon, <1>1, <1>4, <1>6, <1>7, <1>10, <1>11, LateFrame, AnyStep

\* A transaction that is applied or dropped after its caller left keeps the
\* invariant.
LEMMA LateOK ==
  ASSUME IInv, NEW t \in late, LateCommit(t) \/ LateDrop(t)
  PROVE  IInv'
<1>1. UNCHANGED <<cache, local>> /\ late' = late \ {t}
  BY DEF LateCommit, LateDrop
<1>2. t \in Transaction /\ InRange(t.seen) /\ TableType /\ TableInv
  BY DEF IInv, TypeOK, TableType, LateInv
<1>3. TableType' /\ TableInv' /\ Grows
  <2>1. CASE LateCommit(t)
    <3>1. Applicable(t) /\ Apply(t)
      BY <2>1 DEF LateCommit
    <3> QED
      BY Zenon, <1>2, <3>1, ApplyKeepsTable
  <2>2. CASE LateDrop(t)
    <3>1. UNCHANGED table
      BY <2>2 DEF LateDrop
    <3> QED
      BY <1>2, <3>1 DEF TableType, TableInv, CounterInv, ItemsAgree, Dense, table,
                        NextFsid, Grows
  <2> QED
    BY <2>1, <2>2
<1>4. CacheCoherent' /\ \A i \in Instances : CacheGrows(i)
  BY <1>1, <1>3, CacheFrame
<1>5. TypeOK' /\ LateInv'
  BY <1>1, <1>3
     DEF IInv, TypeOK, TableType, cache, local, LateInv, InRange, NextFsid
<1>6. \A d \in Conns \ {} : Same(d) /\ CacheGrows(Owner[d])
  BY Zenon, <1>1, <1>4, ConstantsAssumption DEF Same, local
<1>7. {} \in SUBSET Conns /\ \A d \in {} : ErrOK(d)' /\ ConnInv(d)'
  OBVIOUS
<1> QED
  BY Zenon, <1>3, <1>4, <1>5, <1>6, <1>7, AnyStep

-----------------------------------------------------------------------------
(* The end of commands and of processes. *)

\* Commands that are gone know nothing.
LEMMA DiscardOK ==
  ASSUME IInv, NEW C \in SUBSET Conns, Discard(C)
  PROVE  /\ LocalType'
         /\ \A d \in Conns \ C : Same(d)
         /\ \A d \in C : ErrOK(d)' /\ ConnInv(d)'
<1>1. LocalType'
  <2>1. "idle" \in Labels /\ "nil" \in Errors /\ 0 \in Fsid
    BY ConstantsAssumption DEF Labels, Errors, Fsid
  <2> QED
    BY <2>1 DEF IInv, TypeOK, LocalType, Discard, Opt
<1>2. \A d \in Conns \ C : Same(d)
  BY DEF Discard, Same
<1>3. ASSUME NEW d \in C
      PROVE  ErrOK(d)' /\ ConnInv(d)'
  <2>1. pc'[d] = "idle" /\ op'[d] = None /\ err'[d] = "nil"
    BY DEF Discard
  <2>2. ErrOK(d)'
    BY <2>1 DEF ErrOK
  <2> QED
    BY <2>1, <2>2 DEF ConnInv
<1> QED
  BY <1>1, <1>2, <1>3

\* The end of a command keeps the invariant.
LEMMA FinishOK ==
  ASSUME IInv, NEW c \in Conns, Finish(c)
  PROVE  IInv'
<1>1. Discard({c}) /\ UNCHANGED <<table, cache, late>> /\ {c} \in SUBSET Conns
  BY DEF Finish
<1>2. LocalType' /\ Only(c) /\ ErrOK(c)' /\ ConnInv(c)'
  BY <1>1, DiscardOK DEF Only
<1> QED
  BY <1>1, <1>2, LocalStep

\* The restart of a process keeps the invariant.
LEMMA CrashOK ==
  ASSUME IInv, NEW i \in Instances, Crash(i)
  PROVE  IInv'
<1> DEFINE mine == {c \in Conns : Owner[c] = i}
<1>1. /\ fsids' = [fsids EXCEPT ![i] = [p \in Paths |-> None]]
      /\ paths' = [paths EXCEPT ![i] = [f \in Fsid |-> None]]
      /\ late' = late \cup {Tx(c) : c \in {d \in mine : pc[d] = "wait"}}
      /\ Discard(mine) /\ UNCHANGED table
  BY DEF Crash
<1>2. mine \in SUBSET Conns
  OBVIOUS
<1>3. /\ LocalType'
      /\ \A d \in Conns \ mine : Same(d)
      /\ \A d \in mine : ErrOK(d)' /\ ConnInv(d)'
  BY Zenon, <1>1, <1>2, DiscardOK
<1>4. /\ fsids' \in [Instances -> [Paths -> Opt(Fsid)]]
      /\ paths' \in [Instances -> [Fsid -> Opt(Paths)]]
  BY <1>1 DEF IInv, TypeOK, Opt
<1>5. late' \in SUBSET Transaction /\ LateInv'
  <2>1. ASSUME NEW t \in late' PROVE t \in Transaction /\ InRange(t.seen)
    <3>1. CASE t \in late
      BY <3>1 DEF IInv, TypeOK, LateInv
    <3>2. CASE t \notin late
      <4> PICK c \in Conns : pc[c] = "wait" /\ t = Tx(c)
        BY <3>2, <1>1
      <4> QED
        BY TxOK
    <3> QED
      BY <3>1, <3>2
  <2> QED
    BY <2>1 DEF LateInv, InRange, NextFsid
<1>6. TypeOK'
  BY <1>1, <1>3, <1>4, <1>5 DEF IInv, TypeOK, LocalType, table
<1>7. TableInv' /\ Grows
  BY Zenon, <1>1 DEF IInv, TableInv, CounterInv, ItemsAgree, Dense, table, NextFsid, Grows
<1>8. /\ \A p \in Paths : fsids'[i][p] = None
      /\ \A f \in Fsid : paths'[i][f] = None
      /\ \A j \in Instances \ {i} : fsids'[j] = fsids[j] /\ paths'[j] = paths[j]
  BY <1>1 DEF IInv, TypeOK
<1>9. CacheCoherent'
  <2> SUFFICES ASSUME NEW j \in Instances
               PROVE  /\ \A p \in Paths : fsids'[j][p] # None => pathItem'[p] = fsids'[j][p]
                      /\ \A f \in Fsid : paths'[j][f] # None => fsids'[j][paths'[j][f]] = f
    BY DEF CacheCoherent
  <2>1. CASE j = i
    BY <1>8, <2>1
  <2>2. CASE j # i
    <3>1. fsids'[j] = fsids[j] /\ paths'[j] = paths[j] /\ pathItem' = pathItem
      BY <1>1, <1>8, <2>2 DEF table
    <3> QED
      BY <3>1 DEF IInv, CacheCoherent
  <2> QED
    BY <2>1, <2>2
<1>10. \A d \in Conns \ mine : Same(d) /\ CacheGrows(Owner[d])
  BY <1>3, <1>8, ConstantsAssumption DEF CacheGrows
<1> QED
  BY Zenon, <1>2, <1>3, <1>5, <1>6, <1>7, <1>9, <1>10, AnyStep

-----------------------------------------------------------------------------
(* The inductive invariant. *)

\* The invariant holds of an empty table and idle connections.
LEMMA InitOK == Init => IInv
<1> SUFFICES ASSUME Init PROVE IInv
  OBVIOUS
<1>1. "idle" \in Labels /\ "nil" \in Errors /\ 0 \in Fsid
  BY ConstantsAssumption DEF Labels, Errors, Fsid
<1>2. TypeOK
  BY <1>1 DEF Init, TypeOK, Opt
<1>3. TableInv
  BY ConstantsAssumption
     DEF Init, TableInv, CounterInv, ItemsAgree, Dense, NextFsid, Fsid
<1>4. ErrorsMeanWhatTheySay /\ CacheCoherent /\ LateInv
  BY DEF Init, ErrorsMeanWhatTheySay, CacheCoherent, LateInv
<1>5. ASSUME NEW c \in Conns PROVE ConnInv(c)
  <2>1. pc[c] = "idle"
    BY DEF Init
  <2> QED
    BY <2>1 DEF ConnInv
<1> QED
  BY <1>2, <1>3, <1>4, <1>5 DEF IInv

\* Every step keeps the invariant.
LEMMA NextOK == IInv /\ [Next]_vars => IInv'
<1> SUFFICES ASSUME IInv, [Next]_vars PROVE IInv'
  OBVIOUS
<1>1. ASSUME NEW c \in Conns, Receive(c) PROVE IInv'
  BY <1>1, ReceiveOK
<1>2. ASSUME NEW c \in Conns, Step(c) PROVE IInv'
  <2>1. CASE CacheGetFSID(c)
    BY <2>1, LoadFsidOK DEF CacheGetFSID
  <2>2. CASE CacheAllocateFSID(c)
    BY <2>2, LoadFsidOK DEF CacheAllocateFSID
  <2>3. CASE CacheGetPath(c)
    BY <2>3, CacheGetPathOK
  <2>4. CASE StoreFsid(c) \/ StorePath(c)
    BY <2>4, StoreFsidOK, StorePathOK
  <2>5. CASE SourceGetFSID(c) \/ SourceGetPath(c)
    BY <2>5, SourceGetFSIDOK, SourceGetPathOK
  <2>6. CASE NextFSID(c) \/ Respond(c)
    BY <2>6, NextFSIDOK, RespondOK
  <2>7. CASE RetryRace(c) \/ Retry(c)
    BY <2>7, MoveOK
  <2>8. CASE Finish(c)
    BY <2>8, FinishOK
  <2> QED
    BY <1>2, <2>1, <2>2, <2>3, <2>4, <2>5, <2>6, <2>7, <2>8 DEF Step
<1>3. ASSUME NEW c \in Conns, Transact(c) \/ Fault(c) PROVE IInv'
  <2>1. CASE Commit(c)
    BY <2>1, CommitOK
  <2>2. CASE ConditionFails(c) \/ Contention(c) \/ Throttled(c)
    BY <2>2, RefusedOK
  <2>3. CASE LoseAnswer(c)
    BY <2>3, LoseAnswerOK
  <2>4. CASE GiveUp(c) \/ CancelSleep(c)
    BY <2>4, MoveOK, CancelSleepOK
  <2> QED
    BY <1>3, <2>1, <2>2, <2>3, <2>4 DEF Transact, Fault
<1>4. ASSUME NEW t \in late, LateCommit(t) \/ LateDrop(t) PROVE IInv'
  BY <1>4, LateOK
<1>5. ASSUME NEW i \in Instances, Crash(i) PROVE IInv'
  BY <1>5, CrashOK
<1>6. CASE UNCHANGED vars
  <2>1. UNCHANGED <<table, cache, late, local>>
    BY <1>6 DEF vars
  <2>2. TypeOK' /\ TableInv' /\ CacheCoherent' /\ LateInv' /\ Grows
    BY <2>1 DEF IInv, TypeOK, TableInv, CounterInv, ItemsAgree, Dense, NextFsid,
                CacheCoherent, LateInv, InRange, Grows, table, cache, local
  <2>3. \A d \in Conns \ {} : Same(d) /\ CacheGrows(Owner[d])
    BY Zenon, <2>1 DEF Same, CacheGrows, cache, local
  <2>4. {} \in SUBSET Conns /\ \A d \in {} : ErrOK(d)' /\ ConnInv(d)'
    OBVIOUS
  <2> QED
    BY Zenon, <2>2, <2>3, <2>4, AnyStep
<1> QED
  BY <1>1, <1>2, <1>3, <1>4, <1>5, <1>6 DEF Next

\* The invariant the proofs rest on: besides the properties of the table and of
\* the caches, what a command knows at each of its labels.
THEOREM Invariance == Spec => []IInv
<1> QED
  BY InitOK, NextOK, PTL DEF Spec

\* Every variable keeps its type; in particular every FSID a command holds is in
\* the range fsidFromItem accepts, and no item is read that is not there.
THEOREM TypeCorrect == Spec => []TypeOK
<1>1. IInv => TypeOK
  BY DEF IInv
<1> QED
  BY <1>1, Invariance, PTL

\* The one transaction of tryAllocateFSID keeps the PATH# and the FSID# items in
\* agreement, and the FSIDs dense.
THEOREM TableCorrect == Spec => [](ItemsAgree /\ Dense)
<1>1. IInv => ItemsAgree /\ Dense
  BY DEF IInv, TableInv
<1> QED
  BY <1>1, Invariance, PTL

\* The FSIDs in use are the first ones: tryAllocateFSID takes the one after the
\* counter it has read, and its transaction fails unless the counter is still that.
THEOREM NoGaps == Spec => []Dense
BY TableCorrect, PTL

\* No process caches anything but a mapping of the table (FSIDCache.store).
THEOREM CacheCorrect == Spec => []CacheCoherent
<1>1. IInv => CacheCoherent
  BY DEF IInv
<1> QED
  BY <1>1, Invariance, PTL

\* classifyAllocateError never reports an inconsistent table, and the FSIDs are
\* only reported exhausted when they are.
THEOREM ErrorsCorrect == Spec => []ErrorsMeanWhatTheySay
<1>1. IInv => ErrorsMeanWhatTheySay
  BY DEF IInv
<1> QED
  BY <1>1, Invariance, PTL

\* What withRetry returns without an error is a mapping of the table, so two
\* processes never answer the same path with different FSIDs.
THEOREM AnswersCorrect == Spec => []AnswersAgree
<1>1. IInv => AnswersAgree
  BY Zenon DEF IInv, ConnInv, HasMapping, AnswersAgree
<1> QED
  BY <1>1, Invariance, PTL

-----------------------------------------------------------------------------
(* What a step does to the table, and the registry. *)

\* The steps of a command, its commit excepted, leave the table and the other
\* commands alone.
LEMMA OwnStep ==
  ASSUME IInv, NEW c \in Conns,
         Receive(c) \/ Step(c) \/ ConditionFails(c) \/ Fault(c)
  PROVE  UNCHANGED table /\ Only(c)
<1>1. LocalType
  BY DEF IInv, TypeOK, LocalType
<1>2. CASE Receive(c)
  <2>1. ASSUME NEW o, NEW p, NEW f, NEW valid, NEW l, Begin(c, o, p, f, valid, l)
        PROVE  UNCHANGED table /\ Only(c)
    BY <1>1, <2>1 DEF Begin, Goto, LocalType, Only, Same
  <2>2. CASE \E p \in Opt(Paths) : GetFsidNum(c, p) \/ GetOrCreateFsidNum(c, p)
    BY <2>1, <2>2 DEF GetFsidNum, GetOrCreateFsidNum
  <2>3. CASE \E f \in Fsid : GetPath(c, f)
    BY <2>1, <2>3 DEF GetPath
  <2> QED
    BY <1>2, <2>2, <2>3 DEF Receive
<1>3. CASE CacheGetFSID(c) \/ CacheAllocateFSID(c) \/ CacheGetPath(c)
  <2>1. ASSUME NEW from, NEW miss, LoadFsid(c, from, miss)
        PROVE  UNCHANGED table /\ Only(c)
    BY Zenon, <1>1, <2>1 DEF LoadFsid, Goto, LocalType, Only, Same
  <2>2. CASE CacheGetPath(c)
    <3>1. CASE UNCHANGED path
      BY Zenon, <1>1, <2>2, <3>1 DEF CacheGetPath, Goto, LocalType, Only, Same
    <3>2. CASE path' # path
      BY Zenon, <1>1, <2>2, <3>2 DEF CacheGetPath, Goto, LocalType, Only, Same
    <3> QED
      BY <3>1, <3>2
  <2> QED
    BY <1>3, <2>1, <2>2 DEF CacheGetFSID, CacheAllocateFSID
<1>4. CASE \/ StoreFsid(c) \/ StorePath(c) \/ RetryRace(c) \/ Retry(c)
           \/ GiveUp(c)
  BY <1>1, <1>4 DEF StoreFsid, StorePath, RetryRace, Retry, GiveUp,
                    LocalType, Only, Same
<1>5. CASE SourceGetFSID(c) \/ SourceGetPath(c)
  BY Zenon, <1>1, <1>5 DEF SourceGetFSID, SourceGetPath, Found, Failed, Goto,
                    LocalType, Only, Same
<1>6. CASE NextFSID(c) \/ Respond(c) \/ LoseAnswer(c) \/ CancelSleep(c)
  BY <1>1, <1>6 DEF NextFSID, Respond, LoseAnswer, CancelSleep, Found, Failed, Goto,
                    LocalType, Only, Same
<1>7. CASE ConditionFails(c) \/ Contention(c) \/ Throttled(c)
  BY Zenon, <1>1, <1>7 DEF ConditionFails, Contention, Throttled, Cancelled, Failed, Goto,
                    LocalType, Only, Same
<1>8. CASE Finish(c)
  BY Zenon, <1>8 DEF Finish, Discard, Only, Same
<1> QED
  BY <1>2, <1>3, <1>4, <1>5, <1>6, <1>7, <1>8 DEF Step, Fault

\* The steps that apply a transaction.
LEMMA ApplyStep ==
  ASSUME IInv, NEW t \in Transaction, InRange(t.seen), Applicable(t), Apply(t)
  PROVE  /\ Grows
         /\ pathItem[t.path] = None /\ NextFsid(counter) <= MaxInt32
         /\ pathItem' = [pathItem EXCEPT ![t.path] = NextFsid(counter)]
         /\ NextFsid(counter') = NextFsid(counter) + 1
         /\ counter' = NextFsid(counter) + 1
<1>1. TableType /\ TableInv
  BY DEF IInv, TypeOK, TableType
<1>2. /\ Grows /\ pathItem[t.path] = None
      /\ NextFsid(counter) = NextFsid(t.seen)
      /\ NextFsid(counter') = NextFsid(counter) + 1
  BY <1>1, ApplyKeepsTable
<1> QED
  BY <1>2, ConstantsAssumption DEF Apply, InRange

\* A FSID, once given to a path, is that path's for ever: no transaction that is
\* applied, in time or late, overwrites an item or moves the counter back.
THEOREM Forever == Spec => MappingsAreForever
<1> DEFINE Kept == /\ Grows
                   /\ counter' # counter => counter' = NextFsid(counter) + 1
<1>1. IInv /\ [Next]_vars => Kept
  <2> SUFFICES ASSUME IInv, [Next]_vars PROVE Kept
    OBVIOUS
  <2>1. ASSUME UNCHANGED table PROVE Kept
    BY <2>1 DEF Grows, table
  <2>2. ASSUME NEW c \in Conns, Commit(c) PROVE Kept
    <3>1. pc[c] = "wait" /\ Applicable(Tx(c)) /\ Apply(Tx(c))
      BY <2>2 DEF Commit
    <3> QED
      BY <3>1, TxOK, ApplyStep
  <2>3. ASSUME NEW t \in late, LateCommit(t) PROVE Kept
    <3>1. t \in Transaction /\ InRange(t.seen) /\ Applicable(t) /\ Apply(t)
      BY <2>3 DEF IInv, TypeOK, LateInv, LateCommit
    <3> QED
      BY <3>1, ApplyStep
  <2>4. ASSUME NEW c \in Conns,
               Receive(c) \/ Step(c) \/ ConditionFails(c) \/ Fault(c)
        PROVE  Kept
    BY <2>1, <2>4, OwnStep
  <2> QED
    BY Zenon, <2>1, <2>2, <2>3, <2>4
       DEF Next, Transact, LateDrop, Crash, vars
<1>2. IInv /\ [Next]_vars
        => [/\ \A p \in Paths : pathItem[p] # None => pathItem'[p] = pathItem[p]
            /\ \A f \in Fsid : fsidItem[f] # None => fsidItem'[f] = fsidItem[f]
            /\ counter' # counter => counter' = NextFsid(counter) + 1]_vars
  BY <1>1 DEF Grows
<1> QED
  BY <1>2, Invariance, PTL DEF Spec, MappingsAreForever

\* A step that leaves the table alone changes, of what the registry shows, the
\* answers of the commands in C at most: either one of them is answered, or
\* they all forget their answers.
LEMMA AnswerStep ==
  ASSUME IInv, IInv', NEW C \in SUBSET Conns, UNCHANGED table,
         \A d \in Conns \ C : Same(d),
         \/ \A d \in C : Answers'[d] = None
         \/ \E c \in Conns : C = {c}
  PROVE  Registry!Next
<1>1. UNCHANGED <<pathItem, NextFsid(counter)>>
  BY DEF table, NextFsid
<1>2. \A d \in Conns \ C : Answers'[d] = Answers[d]
  BY DEF Answers, Same
<1>3. CASE \A d \in C : Answers'[d] = None
  <2>1. Answers' = [d \in Conns |-> IF d \in C THEN None ELSE Answers[d]]
    BY Zenon, <1>2, <1>3 DEF Answers
  <2>2. Registry!Forget(C)
    BY <1>1, <2>1 DEF Registry!Forget
  <2> QED
    BY <2>2 DEF Registry!Next
<1>4. ASSUME NEW c \in Conns, C = {c}, Answers'[c] # None
      PROVE  Registry!Next
  <2>1. pc'[c] = "done" /\ err'[c] = "nil" /\ Answers'[c] = <<path'[c], fsid'[c]>>
    BY <1>4 DEF Answers
  <2>2. path'[c] \in Paths /\ pathItem'[path'[c]] = fsid'[c] /\ fsid'[c] \in Fsid
    BY Zenon, <2>1 DEF IInv, TypeOK, ConnInv, HasMapping
  <2>3. pathItem[path'[c]] = fsid'[c] /\ fsid'[c] # None
    <3>1. pathItem' = pathItem
      BY <1>1
    <3>2. fsid'[c] # None
      BY <2>2, ConstantsAssumption DEF Fsid
    <3> QED
      BY Zenon, <2>2, <3>1, <3>2
  <2>4. Answers' = [Answers EXCEPT ![c] = <<path'[c], pathItem[path'[c]]>>]
    <3>1. /\ Answers = [d \in Conns |-> Answers[d]]
          /\ Answers' = [d \in Conns |-> Answers'[d]]
      BY Zenon DEF Answers
    <3>2. Answers'[c] = <<path'[c], pathItem[path'[c]]>>
      BY <2>1, <2>3
    <3>3. \A d \in Conns \ {c} : Answers'[d] = Answers[d]
      BY <1>2, <1>4
    <3> QED
      BY <3>1, <3>2, <3>3
  <2>5. Registry!Answer(c, path'[c])
    BY <1>1, <2>3, <2>4 DEF Registry!Answer
  <2> QED
    BY <2>2, <2>5 DEF Registry!Next
<1> QED
  BY <1>3, <1>4

\* A transaction that is applied is an allocation of the registry.
LEMMA AllocateStep ==
  ASSUME IInv, NEW t \in Transaction, InRange(t.seen), Applicable(t), Apply(t),
         Answers' = Answers
  PROVE  Registry!Next
<1>1. /\ pathItem[t.path] = None /\ NextFsid(counter) <= MaxInt32
      /\ pathItem' = [pathItem EXCEPT ![t.path] = NextFsid(counter)]
      /\ NextFsid(counter') = NextFsid(counter) + 1
  BY ApplyStep
<1>2. NextFsid(counter)' = NextFsid(counter) + 1
  BY <1>1 DEF NextFsid
<1>3. Registry!Allocate(t.path) /\ t.path \in Paths
  BY <1>1, <1>2 DEF Registry!Allocate, Transaction
<1> QED
  BY <1>3 DEF Registry!Next

\* The fsidd processes and the table implement the registry: every step of theirs
\* allocates the next FSID to a path that has none, answers with what is
\* assigned, forgets answers, or does nothing the registry would show.
THEOREM Refinement == Spec => ImplementsRegistry
<1>1. Init => Registry!Init
  BY DEF Init, Registry!Init, NextFsid, Answers
<1>2. IInv /\ IInv' /\ [Next]_vars => [Registry!Next]_Registry!vars
  <2> SUFFICES ASSUME IInv, IInv', [Next]_vars
               PROVE  Registry!Next \/ UNCHANGED Registry!vars
    OBVIOUS
  <2>1. ASSUME NEW c \in Conns, Commit(c) PROVE Registry!Next
    <3>1. /\ pc[c] = "wait" /\ Applicable(Tx(c)) /\ Apply(Tx(c))
          /\ pc' = [pc EXCEPT ![c] = "committed"] /\ UNCHANGED <<path, fsid, err>>
      BY <2>1 DEF Commit
    <3>2. Answers' = Answers
      BY Zenon, <3>1 DEF IInv, TypeOK, Answers
    <3> QED
      BY <3>1, <3>2, TxOK, AllocateStep
  <2>2. ASSUME NEW t \in late, LateCommit(t) PROVE Registry!Next
    <3>1. t \in Transaction /\ InRange(t.seen) /\ Applicable(t) /\ Apply(t)
      BY <2>2 DEF IInv, TypeOK, LateInv, LateCommit
    <3>2. Answers' = Answers
      BY Zenon, <2>2 DEF LateCommit, local, Answers
    <3> QED
      BY <3>1, <3>2, AllocateStep
  <2>3. ASSUME NEW c \in Conns,
               Receive(c) \/ Step(c) \/ ConditionFails(c) \/ Fault(c)
        PROVE  Registry!Next
    <3>1. UNCHANGED table /\ Only(c)
      BY <2>3, OwnStep
    <3>2. {c} \in SUBSET Conns /\ \A d \in Conns \ {c} : Same(d)
      BY <3>1 DEF Only
    <3> QED
      BY Zenon, <3>1, <3>2, AnswerStep
  <2>4. ASSUME NEW i \in Instances, Crash(i) PROVE Registry!Next
    <3> DEFINE mine == {c \in Conns : Owner[c] = i}
    <3>1. UNCHANGED table /\ Discard(mine) /\ mine \in SUBSET Conns
      BY <2>4 DEF Crash
    <3>2. \A d \in Conns \ mine : Same(d)
      BY <3>1, DiscardOK
    <3>3. \A d \in mine : Answers'[d] = None
      BY <3>1 DEF Discard, Answers
    <3> QED
      BY Zenon, <3>1, <3>2, <3>3, AnswerStep
  <2>5. ASSUME UNCHANGED <<table, local>> PROVE UNCHANGED Registry!vars
    BY <2>5 DEF Registry!vars, table, local, NextFsid, Answers
  <2> QED
    BY <2>1, <2>2, <2>3, <2>4, <2>5 DEF Next, Transact, LateDrop, vars
<1> QED
  BY <1>1, <1>2, Invariance, PTL DEF Spec, ImplementsRegistry, Registry!Spec
=============================================================================
