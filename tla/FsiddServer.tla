---------------------------- MODULE FsiddServer ----------------------------
(***************************************************************************)
(* The unix socket server of knfsd-fsidd (socket.go) and the life of its   *)
(* process (run in main.go): the goroutine of main accepts connections,    *)
(* each connection has a goroutine that reads commands and answers them,   *)
(* and a shutdown goroutine stops the server when the process gets a       *)
(* signal.  What a command does is left to Fsidd.tla; here it runs until   *)
(* it returns.                                                             *)
(*                                                                         *)
(* A critical section of server.mu is one step, except the loop of stop,   *)
(* which holds the lock while it closes one connection after the other.    *)
(***************************************************************************)
EXTENDS Integers

CONSTANTS
  Conns,      \* connections a client may open
  MaxSends,   \* commands a client sends on one connection
  None        \* nobody

Stoppers == {"main", "shutdown"}   \* the goroutines that call stop

ASSUME ServerAssumption ==
  /\ MaxSends \in Nat
  /\ None \notin Conns \cup Stoppers \cup {"run", "panic"}

VARIABLES
  pc,          \* where the two goroutines are
  ret,         \* where each goes when its call of stop returns
  mu,          \* which of them holds server.mu over several steps, or None
  todo,        \* the connections the loop of stop has still to close
  closing,     \* the connection it is closing, or None
  open,        \* the listener is open
  stopping,    \* server.inShutdown
  listeners,   \* server.listenerGroup
  tracked,     \* server.connections
  cpc,         \* where each connection is
  marked,      \* connection.inShutdown
  readClosed,  \* its read side is closed, by this process or by the client
  cancel,      \* connection.cancel: "nil", "set" or "called"
  queue, sent, \* commands in the socket buffer, and sent so far
  signalled,   \* SIGTERM or SIGINT was received
  grace,       \* the 30 seconds after the signal are over
  exited       \* how the process has ended, or None

threads == <<pc, ret, mu, todo, closing>>
listener == <<open, stopping, listeners>>
conn == <<tracked, cpc, marked, readClosed, cancel>>
client == <<queue, sent>>
outside == <<signalled, grace, exited>>
vars == <<threads, listener, conn, client, outside>>

Labels == {"serve", "accept", "track", "untrack", "return", "signal", "conns",
           "end", "stop", "wait", "close", "closing"}
ConnLabels == {"none", "backlog", "accepted", "start", "loop", "read", "exec",
               "reply", "close", "untrack", "gone"}

TypeOK ==
  /\ pc \in [Stoppers -> Labels] /\ ret \in [Stoppers -> {"return", "conns", "end"}]
  /\ mu \in Stoppers \cup {None}
  /\ todo \subseteq tracked /\ closing \in tracked \cup {None}
  /\ open \in BOOLEAN /\ stopping \in BOOLEAN /\ listeners \in 0..1
  /\ tracked \subseteq Conns
  /\ cpc \in [Conns -> ConnLabels]
  /\ marked \in [Conns -> BOOLEAN] /\ readClosed \in [Conns -> BOOLEAN]
  /\ cancel \in [Conns -> {"nil", "set", "called"}]
  /\ queue \in [Conns -> 0..MaxSends] /\ sent \in [Conns -> 0..MaxSends]
  /\ signalled \in BOOLEAN /\ grace \in BOOLEAN
  /\ exited \in {None, "run", "panic"}

Init ==
  /\ pc = [t \in Stoppers |-> IF t = "main" THEN "serve" ELSE "signal"]
  /\ ret = [t \in Stoppers |-> IF t = "main" THEN "return" ELSE "conns"]
  /\ mu = None /\ todo = {} /\ closing = None
  /\ open = TRUE /\ stopping = FALSE /\ listeners = 0
  /\ tracked = {}
  /\ cpc = [c \in Conns |-> "none"]
  /\ marked = [c \in Conns |-> FALSE]
  /\ readClosed = [c \in Conns |-> FALSE]
  /\ cancel = [c \in Conns |-> "nil"]
  /\ queue = [c \in Conns |-> 0] /\ sent = [c \in Conns |-> 0]
  /\ signalled = FALSE /\ grace = FALSE /\ exited = None

Goto(t, l) == pc' = [pc EXCEPT ![t] = l]
Move(c, l) == cpc' = [cpc EXCEPT ![c] = l]

-----------------------------------------------------------------------------
(* main: server.Serve, then the deferred Close of run. *)

\* Mutant: the deferred trackListener(false) also runs when the server refused
\* to start.
ServeAlwaysUntracks ==
  /\ pc["main"] = "serve" /\ mu = None
  /\ IF stopping
     THEN Goto("main", "untrack") /\ UNCHANGED listeners
     ELSE Goto("main", "accept") /\ listeners' = listeners + 1
  /\ UNCHANGED <<ret, mu, todo, closing, open, stopping, conn, client, outside>>

\* trackListener(true)
Serve ==
  /\ pc["main"] = "serve" /\ mu = None
  /\ IF stopping
     THEN Goto("main", "stop") /\ UNCHANGED listeners
     ELSE Goto("main", "accept") /\ listeners' = listeners + 1
  /\ UNCHANGED <<ret, mu, todo, closing, open, stopping, conn, client, outside>>

Accept(c) ==
  /\ pc["main"] = "accept" /\ open /\ cpc[c] = "backlog"
  /\ Move(c, "accepted") /\ Goto("main", "track")
  /\ UNCHANGED <<ret, mu, todo, closing, listener, tracked, marked, readClosed,
                 cancel, client, outside>>

\* trackConnection(c, true), then go c.Serve()
Track(c) ==
  /\ pc["main"] = "track" /\ cpc[c] = "accepted" /\ mu = None
  /\ tracked' = tracked \cup {c}
  /\ Move(c, "start") /\ Goto("main", "accept")
  /\ UNCHANGED <<ret, mu, todo, closing, listener, marked, readClosed, cancel,
                 client, outside>>

\* AcceptUnix fails: the listener was closed, or for some other reason.
AcceptFails ==
  /\ pc["main"] = "accept"
  /\ Goto("main", "untrack")
  /\ UNCHANGED <<ret, mu, todo, closing, listener, conn, client, outside>>

\* trackListener(false)
UntrackListener ==
  /\ pc["main"] = "untrack" /\ mu = None
  /\ listeners' = listeners - 1
  /\ Goto("main", "stop")
  /\ UNCHANGED <<ret, mu, todo, closing, open, stopping, conn, client, outside>>

\* run has returned, and the process ends with it.
Exit ==
  /\ pc["main"] = "return"
  /\ exited' = "run"
  /\ UNCHANGED <<threads, listener, conn, client, signalled, grace>>

-----------------------------------------------------------------------------
(* The goroutine of run that waits for the signal: Shutdown, then Close. *)

Notified ==
  /\ pc["shutdown"] = "signal" /\ signalled
  /\ Goto("shutdown", "stop")
  /\ UNCHANGED <<ret, mu, todo, closing, listener, conn, client, outside>>

\* The rest of Shutdown.  server.c is a sync.Cond without a Locker: its Wait
\* dereferences nil, and the process ends.
CheckConnections ==
  /\ pc["shutdown"] = "conns" /\ mu = None
  /\ IF tracked = {}
     THEN /\ Goto("shutdown", "stop")
          /\ ret' = [ret EXCEPT !["shutdown"] = "end"]
          /\ UNCHANGED exited
     ELSE exited' = "panic" /\ UNCHANGED <<pc, ret>>
  /\ UNCHANGED <<mu, todo, closing, listener, conn, client, signalled, grace>>

-----------------------------------------------------------------------------
(* server.stop, which both goroutines call. *)

\* Mutant: the lock is kept while stop waits for the listener.
StopListenerKeepsLock(t) ==
  /\ pc[t] = "stop" /\ mu = None
  /\ stopping' = TRUE /\ open' = FALSE /\ mu' = t
  /\ Goto(t, "wait")
  /\ UNCHANGED <<ret, todo, closing, listeners, conn, client, outside>>

StopListener(t) ==
  /\ pc[t] = "stop" /\ mu = None
  /\ stopping' = TRUE /\ open' = FALSE
  /\ Goto(t, "wait")
  /\ UNCHANGED <<ret, mu, todo, closing, listeners, conn, client, outside>>

\* Mutant: stop does not wait for the listener.
StopWaitSkipped(t) ==
  /\ pc[t] = "wait" /\ mu = None
  /\ mu' = t /\ todo' = tracked
  /\ Goto(t, "close")
  /\ UNCHANGED <<ret, closing, listener, conn, client, outside>>

\* listenerGroup.Wait, and the lock is taken again.
StopWait(t) ==
  /\ pc[t] = "wait" /\ listeners = 0 /\ mu = None
  /\ mu' = t /\ todo' = tracked
  /\ Goto(t, "close")
  /\ UNCHANGED <<ret, closing, listener, conn, client, outside>>

\* connection.Close of the next connection: inShutdown.Store(true) ...
StopMark(t, c) ==
  /\ pc[t] = "close" /\ c \in todo
  /\ todo' = todo \ {c} /\ closing' = c
  /\ marked' = [marked EXCEPT ![c] = TRUE]
  /\ Goto(t, "closing")
  /\ UNCHANGED <<ret, mu, listener, tracked, cpc, readClosed, cancel, client, outside>>

\* ... then CloseRead, and cancel unless it is still nil.
StopClose(t) ==
  /\ pc[t] = "closing"
  /\ readClosed' = [readClosed EXCEPT ![closing] = TRUE]
  /\ cancel' = [cancel EXCEPT ![closing] = IF @ = "nil" THEN @ ELSE "called"]
  /\ closing' = None
  /\ Goto(t, "close")
  /\ UNCHANGED <<ret, mu, todo, listener, tracked, cpc, marked, client, outside>>

StopReturn(t) ==
  /\ pc[t] = "close" /\ todo = {}
  /\ mu' = None
  /\ Goto(t, ret[t])
  /\ UNCHANGED <<ret, todo, closing, listener, conn, client, outside>>

-----------------------------------------------------------------------------
(* connection.Serve. *)

\* The context of the connection is made, and its cancel function stored.
StartConn(c) ==
  /\ cpc[c] = "start"
  /\ cancel' = [cancel EXCEPT ![c] = "set"]
  /\ Move(c, "loop")
  /\ UNCHANGED <<threads, listener, tracked, marked, readClosed, client, outside>>

\* Mutant: the loop does not look at inShutdown.
LoopUnchecked(c) ==
  /\ cpc[c] = "loop"
  /\ Move(c, "read")
  /\ UNCHANGED <<threads, listener, tracked, marked, readClosed, cancel, client, outside>>

Loop(c) ==
  /\ cpc[c] = "loop"
  /\ Move(c, IF marked[c] THEN "close" ELSE "read")
  /\ UNCHANGED <<threads, listener, tracked, marked, readClosed, cancel, client, outside>>

\* Read returns a command, which is known or not, or a truncated message, or it
\* fails.  What is in the buffer is still read after CloseRead.
Read(c) ==
  /\ cpc[c] = "read"
  /\ \/ /\ queue[c] > 0
        /\ queue' = [queue EXCEPT ![c] = @ - 1]
        /\ \E l \in {"exec", "reply", "loop"} : Move(c, l)
     \/ /\ queue[c] = 0 /\ readClosed[c]
        /\ Move(c, "close")
        /\ UNCHANGED queue
  /\ UNCHANGED <<threads, listener, tracked, marked, readClosed, cancel, sent, outside>>

ReadFails(c) ==
  /\ cpc[c] = "read"
  /\ Move(c, "close")
  /\ UNCHANGED <<threads, listener, tracked, marked, readClosed, cancel, client, outside>>

\* The handler of the command returns.
Execute(c) ==
  /\ cpc[c] = "exec"
  /\ Move(c, "reply")
  /\ UNCHANGED <<threads, listener, tracked, marked, readClosed, cancel, client, outside>>

\* A reply that cannot be written resets the connection.
Write(c) ==
  /\ cpc[c] = "reply"
  /\ \E l \in {"loop", "close"} : Move(c, l)
  /\ UNCHANGED <<threads, listener, tracked, marked, readClosed, cancel, client, outside>>

\* The deferred connection.Close ...
CloseConn(c) ==
  /\ cpc[c] = "close"
  /\ marked' = [marked EXCEPT ![c] = TRUE]
  /\ readClosed' = [readClosed EXCEPT ![c] = TRUE]
  /\ cancel' = [cancel EXCEPT ![c] = "called"]
  /\ Move(c, "untrack")
  /\ UNCHANGED <<threads, listener, tracked, client, outside>>

\* ... and trackConnection(c, false).
UntrackConn(c) ==
  /\ cpc[c] = "untrack" /\ mu = None
  /\ tracked' = tracked \ {c}
  /\ Move(c, "gone")
  /\ UNCHANGED <<threads, listener, marked, readClosed, cancel, client, outside>>

-----------------------------------------------------------------------------
(* mountd, at the other end of the connections, and the world outside. *)

Connect(c) ==
  /\ cpc[c] = "none" /\ open
  /\ Move(c, "backlog")
  /\ UNCHANGED <<threads, listener, tracked, marked, readClosed, cancel, client, outside>>

Send(c) ==
  /\ cpc[c] # "none" /\ ~readClosed[c] /\ sent[c] < MaxSends
  /\ queue' = [queue EXCEPT ![c] = @ + 1]
  /\ sent' = [sent EXCEPT ![c] = @ + 1]
  /\ UNCHANGED <<threads, listener, conn, outside>>

Disconnect(c) ==
  /\ cpc[c] # "none" /\ ~readClosed[c]
  /\ readClosed' = [readClosed EXCEPT ![c] = TRUE]
  /\ UNCHANGED <<threads, listener, tracked, cpc, marked, cancel, client, outside>>

Signal ==
  /\ ~signalled
  /\ signalled' = TRUE
  /\ UNCHANGED <<threads, listener, conn, client, grace, exited>>

GraceElapses ==
  /\ signalled /\ ~grace
  /\ grace' = TRUE
  /\ UNCHANGED <<threads, listener, conn, client, signalled, exited>>

-----------------------------------------------------------------------------
Stop(t) ==
  StopListener(t) \/ StopWait(t) \/ StopClose(t) \/ StopReturn(t)
    \/ \E c \in Conns : StopMark(t, c)

Main ==
  \/ Serve \/ UntrackListener \/ Exit \/ Stop("main")
  \/ \E c \in Conns : Accept(c) \/ Track(c)

Shutdown == Notified \/ CheckConnections \/ Stop("shutdown")

Serving(c) ==
  StartConn(c) \/ Loop(c) \/ Read(c) \/ Execute(c) \/ Write(c) \/ CloseConn(c)
    \/ UntrackConn(c)

Outside ==
  \/ Signal \/ GraceElapses
  \/ \E c \in Conns : Connect(c) \/ Send(c) \/ Disconnect(c) \/ ReadFails(c)

\* Nothing runs in a process that has ended.
Next ==
  \/ /\ exited = None
     /\ Main \/ AcceptFails \/ Shutdown \/ (\E c \in Conns : Serving(c)) \/ Outside
  \/ exited # None /\ UNCHANGED vars

Spec == Init /\ [][Next]_vars

\* The goroutines of main and of the shutdown are scheduled; AcceptUnix returns
\* once the listener is closed.  Nothing is assumed of the connections.
FairSpec ==
  /\ Spec
  /\ WF_vars(exited = None /\ Main)
  /\ WF_vars(exited = None /\ ~open /\ AcceptFails)
  /\ WF_vars(exited = None /\ Shutdown)

-----------------------------------------------------------------------------
(* Properties. *)

\* A call of stop has returned in goroutine main or shutdown.
Stopped == pc["main"] = "return" \/ pc["shutdown"] = "conns" \/ ret["shutdown"] = "end"

Alive(c) == cpc[c] \notin {"none", "backlog", "gone"}

\* "Wait for the listener to shutdown to avoid race between accept and tracking
\* the new connection" (socket.go:254): when stop returns, every connection that
\* was ever accepted has been told to stop, even one accepted meanwhile.
NoneLeftBehind == Stopped => \A c \in Conns : Alive(c) => marked[c]

\* After stop no command runs with a live context, although connection.cancel
\* is written by one goroutine and read by another without a lock, and a
\* command may still be read from the buffer: a Close that finds cancel nil
\* comes before the first look at inShutdown.
NoCommandEscapes ==
  Stopped => \A c \in Conns : cpc[c] = "exec" => cancel[c] = "called"

\* A process that is told to stop ends, whatever its commands are doing.
StopsWhenTold == signalled ~> exited # None

\* "If there are any connections, wait until they have terminated, or until ctx
\* is cancelled" (socket.go:235): Shutdown waits, and does not bring the process
\* down.
ShutdownWaits == exited # "panic"

\* "the command will have the grace period to complete its work before being
\* terminated" (socket.go:303): no running command is cancelled before the 30
\* seconds run gives Shutdown are over.
GracePeriod == \A c \in Conns : cpc[c] = "exec" /\ cancel[c] = "called" => grace
=============================================================================
