----------------------------- MODULE FsiddReply -----------------------------
(***************************************************************************)
(* The handlers of the knfsd-fsidd commands (run in main.go) and the reply *)
(* they give to mountd (connection.execute in socket.go), from the return  *)
(* of withRetry, where Fsidd.tla ends, to the reply.                       *)
(*                                                                         *)
(* The handler of get_or_create_fsidnum keeps the result of withRetry in   *)
(* the variable err of run, which all connections of the process share     *)
(* without a lock.  run itself keeps the result of Serve there when the    *)
(* service stops, while handlers may still be active.  An interface is two *)
(* words, a type and a data pointer, written and read one at a time: a     *)
(* reader may see the words of two different writes.                       *)
(***************************************************************************)
EXTENDS Integers

CONSTANTS
  Conns,     \* connections of mountd to one process
  Run,       \* the goroutine of run
  Creators,  \* those among them that send get_or_create_fsidnum
  Paths,     \* export paths
  FsidOf,    \* the FSID the table holds for each of them
  ApiErrors, \* errors a command may fail with, other than ErrNotFound
  None       \* nil, the empty path, and no reply yet

ASSUME ReplyAssumption ==
  /\ Creators \subseteq Conns /\ Run \notin Conns
  /\ FsidOf \in [Paths -> Nat \ {0}]
  /\ None \notin Paths \cup ApiErrors \cup Nat
  /\ None \notin {"NotFound", "InvalidArgument", "ErrServerClosed", "AcceptError"}

VARIABLES
  typ, data,  \* the two words of err, the variable of run
  pc,         \* where each handler is, and where run is
  cmd, path,  \* the command of a handler; for get_path, the path of its FSID
  val, err,   \* what withRetry returned to it; err is also what run writes
  todo,       \* the words of run's err that are still to be written or read
  got,        \* the words that have been read
  reply       \* the reply, or None

vars == <<typ, data, pc, cmd, path, val, err, todo, got, reply>>

Threads == Conns \cup {Run}
Words == {"typ", "data"}
Unread == [w \in Words |-> None]
ServeErrors == {"ErrServerClosed", "AcceptError"}
Errs == ApiErrors \cup ServeErrors \cup {None, "NotFound", "InvalidArgument"}
Commands == {"get_fsidnum", "get_or_create_fsidnum", "get_path", "version"}
Values == Nat \cup Paths \cup {None}
Replies == [ok : Values] \cup [error : Errs \ {None}]

TypeOK ==
  /\ typ \in Errs /\ data \in Errs
  /\ pc \in [Threads -> {"idle", "retry", "store", "end", "clear", "load", "return", "crash", "exit"}]
  /\ cmd \in [Conns -> Commands] /\ path \in [Conns -> Paths \cup {None}]
  /\ val \in [Conns -> Values] /\ err \in [Threads -> Errs]
  /\ todo \in [Threads -> SUBSET Words]
  /\ got \in [Threads -> [Words -> Errs]]
  /\ reply \in [Conns -> Replies \cup {None}]

Init ==
  /\ typ = None /\ data = None
  /\ pc = [t \in Threads |-> "idle"]
  /\ cmd = [c \in Conns |-> "version"]
  /\ path = [c \in Conns |-> None]
  /\ val = [c \in Conns |-> None]
  /\ err = [t \in Threads |-> None]
  /\ todo = [t \in Threads |-> {}]
  /\ got = [t \in Threads |-> Unread]
  /\ reply = [c \in Conns |-> None]

-----------------------------------------------------------------------------
\* mountd sends a command, after the reply to the one before.  A service that stops
\* reads commands until it closes the connection, which may be as late as run's return.
Receive(c, m, p) ==
  /\ pc[c] = "idle"
  /\ (m = "get_or_create_fsidnum") = (c \in Creators)
  /\ cmd' = [cmd EXCEPT ![c] = m]
  /\ path' = [path EXCEPT ![c] = p]
  /\ reply' = [reply EXCEPT ![c] = None]
  /\ pc' = [pc EXCEPT ![c] = "retry"]
  /\ UNCHANGED <<typ, data, val, err, todo, got>>

\* Mutant: get_fsidnum keeps its result in run's err as well.
SharesErrAlways(m) == m # "version"

\* The commands whose result goes through run's err.
SharesErr(m) == m = "get_or_create_fsidnum"

\* A command ends with v and e, in its own variables.
Result(c, v, e) ==
  /\ val' = [val EXCEPT ![c] = v]
  /\ err' = [err EXCEPT ![c] = e]
  /\ IF SharesErr(cmd[c]) /\ path[c] # None
     THEN /\ pc' = [pc EXCEPT ![c] = "store"]
          /\ todo' = [todo EXCEPT ![c] = Words]
     ELSE /\ pc' = [pc EXCEPT ![c] = "return"]
          /\ UNCHANGED todo
  /\ UNCHANGED <<typ, data, cmd, path, got, reply>>

\* withRetry returns, or the argument was refused.
WithRetry(c) ==
  /\ pc[c] = "retry"
  /\ CASE cmd[c] = "version" -> Result(c, 1, None)
       [] cmd[c] # "version" /\ path[c] = None -> Result(c, None, "InvalidArgument")
       [] cmd[c] = "get_path" /\ path[c] # None ->
            \/ Result(c, path[c], None)
            \/ \E e \in ApiErrors \cup {"NotFound"} : Result(c, None, e)
       [] cmd[c] = "get_fsidnum" /\ path[c] # None ->
            \/ Result(c, FsidOf[path[c]], None)
            \/ \E e \in ApiErrors \cup {"NotFound"} : Result(c, 0, e)
       [] cmd[c] = "get_or_create_fsidnum" /\ path[c] # None ->
            \/ Result(c, FsidOf[path[c]], None)
            \/ \E e \in ApiErrors : Result(c, 0, e)

\* s.Serve() returns to run: the listener was closed to stop the service, or Accept
\* failed.  Handlers go on.
ServeReturns(e) ==
  /\ pc[Run] = "idle"
  /\ err' = [err EXCEPT ![Run] = e]
  /\ pc' = [pc EXCEPT ![Run] = "store"]
  /\ todo' = [todo EXCEPT ![Run] = Words]
  /\ UNCHANGED <<typ, data, cmd, path, val, got, reply>>

\* err = withRetry(...) of a handler, err = s.Serve() and err = nil ("clear") of run:
\* one word of it.
Store(t, w) ==
  /\ pc[t] \in {"store", "clear"} /\ w \in todo[t]
  /\ typ' = IF w = "typ" THEN err[t] ELSE typ
  /\ data' = IF w = "data" THEN err[t] ELSE data
  /\ todo' = [todo EXCEPT ![t] = IF @ = {w} THEN Words ELSE @ \ {w}]
  /\ pc' = [pc EXCEPT ![t] = IF todo[t] # {w} THEN @ ELSE IF @ = "store" THEN "end" ELSE "load"]
  /\ UNCHANGED <<cmd, path, val, err, got, reply>>

\* One word of err is read, for rec.End or errors.Is ("end") and again for the result.
Load(t, w) ==
  /\ pc[t] \in {"end", "load"} /\ w \in todo[t]
  /\ got' = [got EXCEPT ![t][w] = IF w = "typ" THEN typ ELSE data]
  /\ todo' = [todo EXCEPT ![t] = @ \ {w}]
  /\ UNCHANGED <<typ, data, pc, cmd, path, val, err, reply>>

\* The type of one error on the data of another, or of nil.
Torn(g) == g["typ"] # None /\ g["typ"] # g["data"]

\* DBMetricResult and execute's look at the error, or errors.Is and main's look at it:
\* all call methods of it.  run forgets ErrServerClosed.
Loaded(t) ==
  /\ pc[t] \in {"end", "load"} /\ todo[t] = {}
  /\ LET closed == t = Run /\ pc[t] = "end" /\ got[t]["typ"] = "ErrServerClosed" IN
     IF Torn(got[t])
     THEN pc' = [pc EXCEPT ![t] = "crash"] /\ UNCHANGED <<err, todo>>
     ELSE /\ pc' = [pc EXCEPT ![t] = IF closed THEN "clear"
                                     ELSE IF @ = "end" THEN "load" ELSE "return"]
          /\ err' = [err EXCEPT ![t] = IF closed THEN None ELSE @]
          /\ todo' = [todo EXCEPT ![t] = IF pc[t] = "end" THEN Words ELSE {}]
  /\ UNCHANGED <<typ, data, cmd, path, val, got, reply>>

\* The deferred calls of run are over, and the process ends.
Exit ==
  /\ pc[Run] = "return"
  /\ pc' = [pc EXCEPT ![Run] = "exit"]
  /\ UNCHANGED <<typ, data, cmd, path, val, err, todo, got, reply>>

\* Mutant: the check of the error is inverted.
ReplyToInverted(m, v, e) == IF e # None THEN [ok |-> v] ELSE [error |-> e]

\* The reply to a command m that ended with value v and error e: "not found" is
\* an empty answer to get_fsidnum, and an error to the others.
ReplyTo(m, v, e) ==
  CASE e = None -> [ok |-> v]
    [] e = "NotFound" /\ m = "get_fsidnum" -> [ok |-> None]
    [] OTHER -> [error |-> e]

\* The handler returns, and execute writes the reply.
Execute(c) ==
  /\ pc[c] = "return"
  /\ LET e == IF SharesErr(cmd[c]) /\ path[c] # None THEN got[c]["typ"] ELSE err[c] IN
       reply' = [reply EXCEPT ![c] = ReplyTo(cmd[c], val[c], e)]
  /\ pc' = [pc EXCEPT ![c] = "idle"]
  /\ got' = [got EXCEPT ![c] = Unread]
  /\ UNCHANGED <<typ, data, cmd, path, val, err, todo>>

\* A crash, or the return of main, ends the process and all its connections.
Next ==
  /\ \A t \in Threads : pc[t] \notin {"crash", "exit"}
  /\ \/ \E c \in Conns :
          \/ \E m \in Commands, p \in Paths \cup {None} : Receive(c, m, p)
          \/ WithRetry(c) \/ Execute(c)
     \/ \E t \in Threads : Loaded(t) \/ \E w \in Words : Store(t, w) \/ Load(t, w)
     \/ \E e \in ServeErrors : ServeReturns(e)
     \/ Exit

Spec == Init /\ [][Next]_vars

-----------------------------------------------------------------------------
(* Properties. *)

\* Serve has not returned: the service is not stopping.
Serving == pc[Run] = "idle"

\* The reply on a connection is the result of its own command, and no command
\* crashes the process.  get_fsidnum and get_path have an err of their own, and keep
\* it while the service stops; one connection that creates FSIDs has run's err for
\* itself until Serve has returned.
OwnReply ==
  \A c \in Conns :
    c \notin Creators \/ Serving =>
      /\ pc[c] # "crash"
      /\ reply[c] # None => reply[c] = ReplyTo(cmd[c], val[c], err[c])

\* "This ensures that all the instances in a cluster use the same FSID for each
\* export path" (deployment/docs/fsids.md:82): a get_or_create_fsidnum that
\* succeeds is answered with the FSID the table holds for the path.
SameFsid ==
  \A c \in Creators :
    reply[c] # None /\ "ok" \in DOMAIN reply[c] =>
      path[c] \in Paths /\ reply[c].ok = FsidOf[path[c]]
=============================================================================
