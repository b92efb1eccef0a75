------------------------------- MODULE Fsidd -------------------------------
(***************************************************************************)
(* The FSID service of a cluster: one knfsd-fsidd process on every proxy,  *)
(* all of them sharing one DynamoDB table.                                 *)
(*                                                                         *)
(* The table (dynamodb.go) holds a COUNTER item and, for every allocated   *)
(* FSID, a PATH# item and a FSID# item; the three are written by one       *)
(* transaction.  Each process keeps a read cache of the mappings           *)
(* (cache.go).  A command from mountd runs a closure of main.go under      *)
(* withRetry (retry.go).  This module covers a command from its arrival to *)
(* the return of withRetry; what the handler makes of that return value is *)
(* FsiddReply.tla.                                                         *)
(*                                                                         *)
(* Between any two calls of a command the other commands, on this process  *)
(* and on others, may take steps; calls fail, answers get lost, a          *)
(* transaction is applied after its caller gave up on it, and a process is *)
(* killed and restarted.                                                   *)
(***************************************************************************)
EXTENDS Integers

CONSTANTS
  Instances,  \* the fsidd processes
  Conns,      \* connections of mountd; one runs one command at a time
  Owner,      \* the process a connection belongs to
  Paths,      \* export paths
  MaxInt32,   \* math.MaxInt32, the largest FSID
  UseCache,   \* cfg.Cache
  Faults,     \* what goes wrong: see FaultKinds
  None        \* no item, no entry, and the empty path

\* "Retryable": a call fails with an error ShouldRetry accepts; "Fatal": with
\* one it does not (a cancelled context among them); "Lost": the answer to a
\* transaction does not arrive in time; "Deadline": withRetry's budget runs
\* out; "Crash": a process is killed.
FaultKinds == {"Retryable", "Fatal", "Lost", "Deadline", "Crash"}

ASSUME ConstantsAssumption ==
  /\ Owner \in [Conns -> Instances]
  /\ MaxInt32 \in Nat \ {0}
  /\ UseCache \in BOOLEAN
  /\ Faults \subseteq FaultKinds
  /\ None \notin Paths
  /\ None \notin Nat

VARIABLES
  counter,    \* next_fsid of the COUNTER item, or None
  pathItem,   \* the fsid in each PATH# item, or None
  fsidItem,   \* the path in each FSID# item, or None
  fsids,      \* FSIDCache.fsids of each process
  paths,      \* FSIDCache.paths of each process
  late,       \* transactions sent, whose callers no longer wait for them
  pc, op,     \* where each connection is, and the command it runs
  path, fsid, \* the command's variables of these names
  seen,       \* the COUNTER item as nextFSID read it
  err         \* the class of the last error

table == <<counter, pathItem, fsidItem>>
cache == <<fsids, paths>>
local == <<pc, op, path, fsid, seen, err>>
vars == <<table, cache, late, local>>

Fsid == 0..MaxInt32
Opt(S) == S \cup {None}
Transaction == [path : Paths, seen : Opt(Nat)]

Ops == {"get_fsidnum", "get_or_create_fsidnum", "get_path"}
Errors == {"nil", "NotFound", "Conflict", "CounterRace", "Retryable", "Fatal",
           "Exhausted", "Inconsistent", "InvalidArgument"}
Labels == {"idle", "load", "get", "alloc", "counter", "wait", "committed",
           "race", "loadpath", "getpath", "storefsid", "storepath", "retry",
           "done"}

TypeOK ==
  /\ counter \in Opt(Nat)
  /\ pathItem \in [Paths -> Opt(Fsid)]
  /\ fsidItem \in [Fsid -> Opt(Paths)]
  /\ fsids \in [Instances -> [Paths -> Opt(Fsid)]]
  /\ paths \in [Instances -> [Fsid -> Opt(Paths)]]
  /\ late \subseteq Transaction
  /\ pc \in [Conns -> Labels]
  /\ op \in [Conns -> Opt(Ops)]
  /\ path \in [Conns -> Opt(Paths)]
  /\ fsid \in [Conns -> Fsid]
  /\ seen \in [Conns -> Opt(Nat)]
  /\ err \in [Conns -> Errors]

Init ==
  /\ counter = None
  /\ pathItem = [p \in Paths |-> None]
  /\ fsidItem = [f \in Fsid |-> None]
  /\ fsids = [i \in Instances |-> [p \in Paths |-> None]]
  /\ paths = [i \in Instances |-> [f \in Fsid |-> None]]
  /\ late = {}
  /\ pc = [c \in Conns |-> "idle"]
  /\ op = [c \in Conns |-> None]
  /\ path = [c \in Conns |-> None]
  /\ fsid = [c \in Conns |-> 0]
  /\ seen = [c \in Conns |-> None]
  /\ err = [c \in Conns |-> "nil"]

-----------------------------------------------------------------------------
(* Steps of a command. *)

\* Mutant: a lost race for the path is not retried.
ShouldRetryNotConflict(e) == e = "Retryable"

ShouldRetry(e) == e \in {"Conflict", "Retryable"}

\* Where withRetryDeadline goes when its closure has returned e.
AfterAttempt(e) == IF ShouldRetry(e) THEN "retry" ELSE "done"

\* c moves to label l with f and e as the result of the call it made.
Goto(c, l, f, e) ==
  /\ pc' = [pc EXCEPT ![c] = l]
  /\ fsid' = [fsid EXCEPT ![c] = f]
  /\ err' = [err EXCEPT ![c] = e]

\* A call succeeded with a mapping: FSIDCache.store it, when there is a cache.
Found(c, f) == Goto(c, IF UseCache THEN "storefsid" ELSE "done", f, "nil")

\* A call failed.  A FSID result is 0 then; get_path's argument stays.
Failed(c, e) ==
  Goto(c, AfterAttempt(e), IF op[c] = "get_path" THEN fsid[c] ELSE 0, e)

CallErrors == Faults \cap {"Retryable", "Fatal"}

-----------------------------------------------------------------------------
(* mountd sends a command. *)

Begin(c, o, p, f, valid, l) ==
  /\ pc[c] = "idle"
  /\ op' = [op EXCEPT ![c] = o]
  /\ path' = [path EXCEPT ![c] = p]
  /\ IF valid THEN Goto(c, l, f, "nil") ELSE Goto(c, "done", f, "InvalidArgument")
  /\ UNCHANGED <<table, cache, late, seen>>

GetFsidNum(c, p) == Begin(c, "get_fsidnum", p, 0, p # None, "load")

GetOrCreateFsidNum(c, p) ==
  Begin(c, "get_or_create_fsidnum", p, 0, p # None, "load")

GetPath(c, f) == Begin(c, "get_path", None, f, f >= 1, "loadpath")

-----------------------------------------------------------------------------
(* FSIDCache: GetFSID, AllocateFSID and GetPath look the mapping up first. *)

LoadFsid(c, from, miss) ==
  LET hit == fsids[Owner[c]][path[c]] IN
  /\ pc[c] = from
  /\ IF UseCache /\ hit # None
     THEN Goto(c, "done", hit, "nil")
     ELSE pc' = [pc EXCEPT ![c] = miss] /\ UNCHANGED <<fsid, err>>
  /\ UNCHANGED <<table, cache, late, op, path, seen>>

CacheGetFSID(c) == LoadFsid(c, "load", "get")

CacheAllocateFSID(c) == LoadFsid(c, "alloc", "counter")

CacheGetPath(c) ==
  LET hit == paths[Owner[c]][fsid[c]] IN
  /\ pc[c] = "loadpath"
  /\ IF UseCache /\ hit # None
     THEN /\ path' = [path EXCEPT ![c] = hit]
          /\ Goto(c, "done", fsid[c], "nil")
     ELSE pc' = [pc EXCEPT ![c] = "getpath"] /\ UNCHANGED <<path, fsid, err>>
  /\ UNCHANGED <<table, cache, late, op, seen>>

\* store writes the two maps one after the other.
StoreFsid(c) ==
  /\ pc[c] = "storefsid"
  /\ fsids' = [fsids EXCEPT ![Owner[c]][path[c]] = fsid[c]]
  /\ pc' = [pc EXCEPT ![c] = "storepath"]
  /\ UNCHANGED <<table, paths, late, op, path, fsid, seen, err>>

StorePath(c) ==
  /\ pc[c] = "storepath"
  /\ paths' = [paths EXCEPT ![Owner[c]][fsid[c]] = path[c]]
  /\ pc' = [pc EXCEPT ![c] = "done"]
  /\ UNCHANGED <<table, fsids, late, op, path, fsid, seen, err>>

-----------------------------------------------------------------------------
(* FSIDSource: the consistent reads. *)

\* Mutant: the missing item is not checked for.
SourceGetFSIDUnchecked(c) ==
  /\ pc[c] = "get"
  /\ Found(c, pathItem[path[c]])
  /\ UNCHANGED <<table, cache, late, op, path, seen>>

SourceGetFSID(c) ==
  /\ pc[c] = "get"
  /\ \/ pathItem[path[c]] # None /\ Found(c, pathItem[path[c]])
     \/ /\ pathItem[path[c]] = None
        /\ Goto(c, IF op[c] = "get_or_create_fsidnum" THEN "alloc" ELSE "done",
                0, "NotFound")
     \/ \E e \in CallErrors : Failed(c, e)
  /\ UNCHANGED <<table, cache, late, op, path, seen>>

SourceGetPath(c) ==
  /\ pc[c] = "getpath"
  /\ \/ /\ fsidItem[fsid[c]] # None
        /\ path' = [path EXCEPT ![c] = fsidItem[fsid[c]]]
        /\ Found(c, fsid[c])
     \/ /\ fsidItem[fsid[c]] = None
        /\ Failed(c, "NotFound")
        /\ UNCHANGED path
     \/ /\ \E e \in CallErrors : Failed(c, e)
        /\ UNCHANGED path
  /\ UNCHANGED <<table, cache, late, op, seen>>

-----------------------------------------------------------------------------
(* FSIDSource: the allocating transaction. *)

\* Mutant: a fresh table starts at 0.
NextFsidFromZero(s) == IF s = None THEN 0 ELSE s

\* The FSID to allocate, given the COUNTER item: 1 on a fresh table.
NextFsid(s) == IF s = None THEN 1 ELSE s

\* Mutant: the bound is off by one.
NextFSIDOffByOne(c) ==
  /\ pc[c] = "counter"
  /\ IF NextFsid(counter) >= MaxInt32
     THEN Failed(c, "Exhausted") /\ UNCHANGED seen
     ELSE /\ seen' = [seen EXCEPT ![c] = counter]
          /\ pc' = [pc EXCEPT ![c] = "wait"]
          /\ UNCHANGED <<fsid, err>>
  /\ UNCHANGED <<table, cache, late, op, path>>

\* tryAllocateFSID up to the call of TransactWriteItems.
NextFSID(c) ==
  /\ pc[c] = "counter"
  /\ \/ /\ NextFsid(counter) > MaxInt32
        /\ Failed(c, "Exhausted")
        /\ UNCHANGED seen
     \/ /\ NextFsid(counter) <= MaxInt32
        /\ seen' = [seen EXCEPT ![c] = counter]
        /\ pc' = [pc EXCEPT ![c] = "wait"]
        /\ UNCHANGED <<fsid, err>>
     \/ /\ \E e \in CallErrors : Failed(c, e)
        /\ UNCHANGED seen
  /\ UNCHANGED <<table, cache, late, op, path>>

\* Mutant: the put of the PATH# item has no condition.
FailedWritesPathUnconditional(t) ==
  {k \in {1, 3} : \/ k = 1 /\ counter # t.seen
                  \/ k = 3 /\ fsidItem[NextFsid(t.seen)] # None}

\* The writes of a transaction t whose condition expressions fail: 1 is the
\* update of COUNTER, 2 the put of the PATH# item, 3 that of the FSID# item.
FailedWrites(t) ==
  {k \in 1..3 : \/ k = 1 /\ counter # t.seen
                \/ k = 2 /\ pathItem[t.path] # None
                \/ k = 3 /\ fsidItem[NextFsid(t.seen)] # None}

Applicable(t) == FailedWrites(t) = {}

Apply(t) ==
  LET f == NextFsid(t.seen) IN
  /\ counter' = f + 1
  /\ pathItem' = [pathItem EXCEPT ![t.path] = f]
  /\ fsidItem' = [fsidItem EXCEPT ![f] = t.path]

Tx(c) == [path |-> path[c], seen |-> seen[c]]

\* The transaction of c is applied; its answer is on the way.
Commit(c) ==
  /\ pc[c] = "wait"
  /\ Applicable(Tx(c))
  /\ Apply(Tx(c))
  /\ pc' = [pc EXCEPT ![c] = "committed"]
  /\ UNCHANGED <<cache, late, op, path, fsid, seen, err>>

\* DynamoDB cancels a transaction and gives a reason for each write: its
\* condition failed or, for the writes in X, another transaction touches it.
Reasons(t, X) ==
  [k \in 1..3 |-> IF k \in X THEN "TransactionConflict"
                  ELSE IF k \in FailedWrites(t) THEN "ConditionalCheckFailed"
                  ELSE "None"]

ClassifyAllocateError(r) ==
  IF r[2] = "ConditionalCheckFailed" THEN "Conflict"
  ELSE IF r[1] = "ConditionalCheckFailed" THEN "CounterRace"
  ELSE IF \E k \in 1..3 : r[k] = "TransactionConflict" THEN "CounterRace"
  ELSE IF r[3] = "ConditionalCheckFailed" THEN "Inconsistent"
  ELSE "Fatal"

\* Mutant: a conflict is taken for an allocation that was already done.
CancelledConflictIsSuccess(c, r) ==
  LET e == ClassifyAllocateError(r) IN
  /\ IF e = "CounterRace" THEN Goto(c, "race", 0, e)
     ELSE IF e = "Conflict" THEN Found(c, NextFsid(seen[c]))
     ELSE Failed(c, e)
  /\ UNCHANGED <<table, cache, late, op, path, seen>>

Cancelled(c, r) ==
  LET e == ClassifyAllocateError(r) IN
  /\ IF e = "CounterRace" THEN Goto(c, "race", 0, e) ELSE Failed(c, e)
  /\ UNCHANGED <<table, cache, late, op, path, seen>>

ConditionFails(c) ==
  /\ pc[c] = "wait"
  /\ ~Applicable(Tx(c))
  /\ Cancelled(c, Reasons(Tx(c), {}))

\* Another transaction is in flight.  They all write the COUNTER item.
Contention(c) ==
  /\ pc[c] = "wait"
  /\ late # {} \/ \E d \in Conns \ {c} : pc[d] = "wait"
  /\ \E X \in SUBSET (1..3) \ {{}} : Cancelled(c, Reasons(Tx(c), X))

\* Throttled before the conditions are looked at.
Throttled(c) ==
  /\ pc[c] = "wait"
  /\ "Fatal" \in Faults
  /\ Cancelled(c, <<"ThrottlingError", "None", "None">>)

\* allocateFSID's own loop: sleep, then read the counter again.
RetryRace(c) ==
  /\ pc[c] = "race"
  /\ pc' = [pc EXCEPT ![c] = "counter"]
  /\ UNCHANGED <<table, cache, late, op, path, fsid, seen, err>>

Respond(c) ==
  /\ pc[c] = "committed"
  /\ Found(c, NextFsid(seen[c]))
  /\ UNCHANGED <<table, cache, late, op, path, seen>>

\* The caller stops waiting, by a transport error or a cancelled context.  If
\* the transaction has not been applied yet, it may still be.
LoseAnswer(c) ==
  /\ pc[c] \in {"wait", "committed"}
  /\ "Lost" \in Faults
  /\ \E e \in {"Retryable", "Fatal"} : Failed(c, e)
  /\ late' = IF pc[c] = "wait" THEN late \cup {Tx(c)} ELSE late
  /\ UNCHANGED <<table, cache, op, path, seen>>

LateCommit(t) ==
  /\ Applicable(t)
  /\ Apply(t)
  /\ late' = late \ {t}
  /\ UNCHANGED <<cache, local>>

LateDrop(t) ==
  /\ late' = late \ {t}
  /\ UNCHANGED <<table, cache, local>>

-----------------------------------------------------------------------------
(* withRetryDeadline, when its closure has returned a retryable error. *)

Retry(c) ==
  /\ pc[c] = "retry"
  /\ pc' = [pc EXCEPT ![c] = IF op[c] = "get_path" THEN "loadpath" ELSE "load"]
  /\ UNCHANGED <<table, cache, late, op, path, fsid, seen, err>>

\* Mutant: withRetry has no deadline.
GiveUpNever(c) == pc[c] # pc[c]

\* The next pause would go past the deadline: the last error is returned.
GiveUp(c) ==
  /\ pc[c] = "retry"
  /\ "Deadline" \in Faults
  /\ pc' = [pc EXCEPT ![c] = "done"]
  /\ UNCHANGED <<table, cache, late, op, path, fsid, seen, err>>

\* sleep is interrupted by the cancelled context, here or in allocateFSID.
CancelSleep(c) ==
  /\ pc[c] \in {"retry", "race"}
  /\ "Fatal" \in Faults
  /\ Failed(c, "Fatal")
  /\ UNCHANGED <<table, cache, late, op, path, seen>>

-----------------------------------------------------------------------------
(* The end of a command, and of a process. *)

\* The variables of the commands in C are gone.
Discard(C) ==
  /\ pc' = [c \in Conns |-> IF c \in C THEN "idle" ELSE pc[c]]
  /\ op' = [c \in Conns |-> IF c \in C THEN None ELSE op[c]]
  /\ path' = [c \in Conns |-> IF c \in C THEN None ELSE path[c]]
  /\ fsid' = [c \in Conns |-> IF c \in C THEN 0 ELSE fsid[c]]
  /\ seen' = [c \in Conns |-> IF c \in C THEN None ELSE seen[c]]
  /\ err' = [c \in Conns |-> IF c \in C THEN "nil" ELSE err[c]]

Finish(c) ==
  /\ pc[c] = "done"
  /\ Discard({c})
  /\ UNCHANGED <<table, cache, late>>

\* Process i dies and systemd starts it again with an empty cache.
Crash(i) ==
  LET mine == {c \in Conns : Owner[c] = i} IN
  /\ "Crash" \in Faults
  /\ fsids' = [fsids EXCEPT ![i] = [p \in Paths |-> None]]
  /\ paths' = [paths EXCEPT ![i] = [f \in Fsid |-> None]]
  /\ late' = late \cup {Tx(c) : c \in {d \in mine : pc[d] = "wait"}}
  /\ Discard(mine)
  /\ UNCHANGED table

-----------------------------------------------------------------------------
Receive(c) ==
  \/ \E p \in Opt(Paths) : GetFsidNum(c, p) \/ GetOrCreateFsidNum(c, p)
  \/ \E f \in Fsid : GetPath(c, f)

Step(c) ==
  \/ CacheGetFSID(c) \/ CacheAllocateFSID(c) \/ CacheGetPath(c)
  \/ StoreFsid(c) \/ StorePath(c)
  \/ SourceGetFSID(c) \/ SourceGetPath(c)
  \/ NextFSID(c) \/ RetryRace(c) \/ Respond(c)
  \/ Retry(c) \/ Finish(c)

Transact(c) == Commit(c) \/ ConditionFails(c)

Fault(c) ==
  Contention(c) \/ Throttled(c) \/ LoseAnswer(c) \/ GiveUp(c) \/ CancelSleep(c)

Next ==
  \/ \E c \in Conns : Receive(c) \/ Step(c) \/ Transact(c) \/ Fault(c)
  \/ \E t \in late : LateCommit(t) \/ LateDrop(t)
  \/ \E i \in Instances : Crash(i)

Spec == Init /\ [][Next]_vars

\* A command whose next step is its own is not suspended for ever.  A waiting
\* transaction is sooner or later judged on its conditions: the pauses between
\* attempts are random and grow, so it does not meet another one every time.
\* withRetry's budget is wall-clock time, so it does run out.
Fairness ==
  \A c \in Conns :
    /\ WF_vars(Step(c))
    /\ SF_vars(Transact(c))
    /\ SF_vars(GiveUp(c))

FairSpec == Spec /\ Fairness

-----------------------------------------------------------------------------
(* Properties. *)

\* PATH# and FSID# items never diverge (dynamodb.go:322-324): each is there
\* exactly when the other is, and they name each other.
ItemsAgree ==
  /\ \A p \in Paths : pathItem[p] # None => fsidItem[pathItem[p]] = p
  /\ \A f \in Fsid : fsidItem[f] # None => pathItem[fsidItem[f]] = f

\* No FSID gaps: whatever commits, gets lost or is applied late, the allocated
\* FSIDs are those from 1 up to the counter (exclusive), and 0, the FSID of the
\* NFS root, is never among them.
Dense == \A f \in Fsid : fsidItem[f] # None <=> 1 <= f /\ f < NextFsid(counter)

\* The counter never offers a FSID whose FSID# item exists, so the branch of
\* classifyAllocateError for an inconsistent table is dead, and the space is
\* only reported exhausted when every FSID up to MaxInt32 is in use.
ErrorsMeanWhatTheySay ==
  \A c \in Conns :
    /\ err[c] # "Inconsistent"
    /\ err[c] = "Exhausted" => \A f \in 1..MaxInt32 : fsidItem[f] # None

\* What withRetry returns without an error is the mapping of the table, on
\* every process, whether it came from the cache, from a read, from its own
\* transaction or from a transaction some other process won.
AnswersAgree ==
  \A c \in Conns :
    pc[c] = "done" /\ err[c] = "nil" =>
      /\ fsid[c] >= 1
      /\ pathItem[path[c]] = fsid[c]
      /\ fsidItem[fsid[c]] = path[c]

\* "Concurrent requests will all result in the same fsid, path pair so just
\* blindly store the results" (cache.go:71): no process ever caches a mapping
\* the table does not hold, and the reverse map is never ahead of the other.
CacheCoherent ==
  \A i \in Instances :
    /\ \A p \in Paths : fsids[i][p] # None => pathItem[p] = fsids[i][p]
    /\ \A f \in Fsid : paths[i][f] # None => fsids[i][paths[i][f]] = f

\* A FSID, once given to a path, is that path's for ever, and the counter only
\* moves forward, one FSID at a time.
MappingsAreForever ==
  [][/\ \A p \in Paths : pathItem[p] # None => pathItem'[p] = pathItem[p]
     /\ \A f \in Fsid : fsidItem[f] # None => fsidItem'[f] = fsidItem[f]
     /\ counter' # counter => counter' = NextFsid(counter) + 1]_vars

\* The mapping each connection is about to be answered with.
Answers ==
  [c \in Conns |-> IF pc[c] = "done" /\ err[c] = "nil"
                   THEN <<path[c], fsid[c]>> ELSE None]

\* The cluster of fsidd processes behaves as one FSID registry.
Registry == INSTANCE FsidRegistry WITH
  Clients <- Conns,
  MaxFsid <- MaxInt32,
  assigned <- pathItem,
  next <- NextFsid(counter),
  answer <- Answers

\* Every behaviour of the processes and the table is one of the registry.
ImplementsRegistry == Registry!Spec

\* Every command is answered, in spite of faults: neither the retries nor
\* allocateFSID's loop, which has no deadline, go on for ever.
EveryCommandEnds == \A c \in Conns : pc[c] # "idle" ~> pc[c] = "idle"

\* Processes that ask for a FSID at the same time converge: a loser finds the
\* winner's FSID, whatever it lost its race on.  A command ends with an error only if
\* the deadline of withRetry cut its retries short, or for an error that DynamoDB, and
\* not another process, is the cause of.
Converges ==
  \A c \in Conns :
    op[c] = "get_or_create_fsidnum" /\ path[c] # None
      ~> /\ pc[c] = "done"
         /\ \/ err[c] = "nil"
            \/ "Deadline" \in Faults /\ ShouldRetry(err[c])
            \/ "Fatal" \in Faults /\ err[c] = "Fatal"
=============================================================================
