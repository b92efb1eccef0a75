------------------------- MODULE FsiddServerProofs -------------------------
(***************************************************************************)
(* Proofs about FsiddServer for any number of connections and of commands  *)
(* sent on them.                                                           *)
(***************************************************************************)
EXTENDS FsiddServer, TLAPS

\* Goroutine t is in the second critical section of stop.
InLoop(t) == pc[t] \in {"close", "closing"}

\* Where the two goroutines may be, what they hold and whom they wait for.
ThreadInv ==
  /\ pc["main"] \in {"serve", "accept", "track", "untrack", "stop", "wait", "close",
                     "closing", "return"}
  /\ pc["shutdown"] \in {"signal", "stop", "wait", "close", "closing", "conns", "end"}
  /\ ret["main"] = "return" /\ ret["shutdown"] # "return"
  /\ pc["shutdown"] = "end" => ret["shutdown"] = "end"
  /\ \A t \in Stoppers : InLoop(t) <=> mu = t
  /\ mu = None => todo = {} /\ closing = None
  /\ \A t \in Stoppers : pc[t] = "closing" => closing # None
  /\ \A t \in Stoppers : pc[t] = "close" => closing = None
  /\ listeners = IF pc["main"] \in {"accept", "track", "untrack"} THEN 1 ELSE 0

\* Once a goroutine waits in stop, the listener accepts nothing more; once it is
\* past the wait, the goroutine of main has left Serve.
StopInv ==
  /\ \A t \in Stoppers : pc[t] \in {"wait", "close", "closing"} => stopping
  /\ \A t \in Stoppers : InLoop(t) => listeners = 0
  /\ Stopped => stopping /\ listeners = 0

\* Connections between accept and track, connections that are served, and those
\* whose goroutine has stored its cancel function.
ConnsInv ==
  \A c \in Conns :
    /\ cpc[c] = "accepted" =>
         pc["main"] = "track" /\ \A d \in Conns : cpc[d] = "accepted" => d = c
    /\ c \in tracked <=> Alive(c) /\ cpc[c] # "accepted"
    /\ cpc[c] \notin {"none", "backlog", "accepted", "start"} => cancel[c] # "nil"

\* connection.Close was called for c: it is cancelled, or it will find itself
\* marked before it reads another command.
Told(c) ==
  /\ marked[c]
  /\ cancel[c] = "called" \/ cpc[c] \in {"start", "loop", "close", "untrack", "gone"}

\* The loop of stop has told the connections it has passed, and a call of stop that
\* has returned has told all.
ToldInv ==
  /\ \A t \in Stoppers : InLoop(t) => \A c \in tracked \ (todo \cup {closing}) : Told(c)
  /\ closing # None => marked[closing]
  /\ Stopped => \A c \in Conns : Alive(c) => Told(c)

\* What is in a socket buffer was sent.
QueueInv == \A c \in Conns : queue[c] <= sent[c]

IInv == TypeOK /\ ThreadInv /\ StopInv /\ ConnsInv /\ ToldInv /\ QueueInv

-----------------------------------------------------------------------------
(* Every action keeps the invariant. *)

USE DEF Goto, Move, threads, listener, conn, client, outside

\* Serve registers its listener, or goes to the deferred Close when the server
\* is stopping already.
LEMMA ServeOK ==
  ASSUME IInv, Serve
  PROVE  IInv'
<1>1. TypeOK'
  BY DEF IInv, TypeOK, Labels, ThreadInv, Serve
<1>2. ThreadInv'
  BY DEF IInv, ThreadInv, InLoop, TypeOK, Stoppers, Serve
<1>3. StopInv'
  BY DEF IInv, StopInv, InLoop, Stopped, TypeOK, Stoppers, Serve
<1>4. ConnsInv'
  BY DEF IInv, TypeOK, ConnsInv, Alive, Serve
<1>5. ToldInv'
  BY DEF IInv, ToldInv, Told, InLoop, Stopped, Alive, TypeOK, Stoppers, Serve
<1>6. QueueInv'
  BY DEF IInv, QueueInv, Serve
<1> QED
  BY <1>1, <1>2, <1>3, <1>4, <1>5, <1>6 DEF IInv

\* A connection is accepted: it is the only one between AcceptUnix and
\* trackConnection.
LEMMA AcceptOK ==
  ASSUME IInv, NEW c \in Conns, Accept(c)
  PROVE  IInv'
<1>1. TypeOK'
  BY DEF IInv, TypeOK, Stoppers, Labels, ConnLabels, Accept
<1>2. ThreadInv'
  BY DEF IInv, TypeOK, ThreadInv, InLoop, Accept
<1>3. StopInv'
  BY DEF IInv, TypeOK, StopInv, InLoop, Stopped, Accept
<1>4. ConnsInv'
  BY DEF IInv, ConnsInv, Alive, TypeOK, Stoppers, Accept
<1>5. ToldInv'
  BY DEF IInv, TypeOK, ToldInv, InLoop, Stopped, ThreadInv, StopInv, Accept
<1>6. QueueInv'
  BY DEF IInv, QueueInv, Accept
<1> QED
  BY <1>1, <1>2, <1>3, <1>4, <1>5, <1>6 DEF IInv

\* trackConnection: stop is not going through the connections yet, as the listener
\* is still counted in listenerGroup.
LEMMA TrackOK ==
  ASSUME IInv, NEW c \in Conns, Track(c)
  PROVE  IInv'
<1>1. TypeOK'
  BY DEF IInv, TypeOK, Stoppers, Labels, ConnLabels, Track
<1>2. ThreadInv'
  BY DEF IInv, TypeOK, ThreadInv, InLoop, Track
<1>3. StopInv'
  BY DEF IInv, TypeOK, StopInv, InLoop, Stopped, Track
<1>4. ConnsInv'
  BY DEF IInv, ConnsInv, Alive, TypeOK, Track
<1>5. ToldInv'
  BY DEF IInv, TypeOK, ToldInv, InLoop, Stopped, ThreadInv, StopInv, Track
<1>6. QueueInv'
  BY DEF IInv, QueueInv, Track
<1> QED
  BY <1>1, <1>2, <1>3, <1>4, <1>5, <1>6 DEF IInv

\* AcceptUnix fails, and Serve ends.
LEMMA AcceptFailsOK ==
  ASSUME IInv, AcceptFails
  PROVE  IInv'
<1>1. TypeOK'
  BY DEF IInv, TypeOK, Stoppers, Labels, AcceptFails
<1>2. ThreadInv'
  BY DEF IInv, TypeOK, ThreadInv, InLoop, AcceptFails
<1>3. StopInv'
  BY DEF IInv, TypeOK, StopInv, InLoop, Stopped, AcceptFails
<1>4. ConnsInv'
  BY DEF IInv, TypeOK, ConnsInv, Alive, AcceptFails
<1>5. ToldInv'
  BY DEF IInv, TypeOK, ToldInv, InLoop, Stopped, ThreadInv, StopInv, AcceptFails
<1>6. QueueInv'
  BY DEF IInv, QueueInv, AcceptFails
<1> QED
  BY <1>1, <1>2, <1>3, <1>4, <1>5, <1>6 DEF IInv

\* trackListener(false): the listener is gone, and stop may go on.
LEMMA UntrackListenerOK ==
  ASSUME IInv, UntrackListener
  PROVE  IInv'
<1>1. TypeOK'
  BY DEF IInv, TypeOK, Stoppers, Labels, ThreadInv, UntrackListener
<1>2. ThreadInv'
  BY DEF IInv, ThreadInv, InLoop, TypeOK, Stoppers, UntrackListener
<1>3. StopInv'
  BY DEF IInv, TypeOK, StopInv, Stopped, ThreadInv, UntrackListener
<1>4. ConnsInv'
  BY DEF IInv, TypeOK, ConnsInv, Alive, UntrackListener
<1>5. ToldInv'
  BY DEF IInv, TypeOK, ToldInv, InLoop, Stopped, ThreadInv, StopInv, UntrackListener
<1>6. QueueInv'
  BY DEF IInv, QueueInv, UntrackListener
<1> QED
  BY <1>1, <1>2, <1>3, <1>4, <1>5, <1>6 DEF IInv

\* run returns.
LEMMA ExitOK ==
  ASSUME IInv, Exit
  PROVE  IInv'
<1>1. TypeOK'
  BY DEF IInv, TypeOK, Exit
<1>2. ThreadInv' /\ StopInv' /\ ConnsInv' /\ ToldInv' /\ QueueInv'
  BY DEF IInv, ThreadInv, InLoop, StopInv, Stopped, ConnsInv, Alive, ToldInv, Told,
     QueueInv, Exit
<1> QED
  BY <1>1, <1>2 DEF IInv

\* The shutdown goroutine gets the signal.
LEMMA NotifiedOK ==
  ASSUME IInv, Notified
  PROVE  IInv'
<1>1. TypeOK'
  BY DEF IInv, TypeOK, Stoppers, Labels, Notified
<1>2. ThreadInv'
  BY DEF IInv, TypeOK, ThreadInv, InLoop, Notified
<1>3. StopInv'
  BY DEF IInv, TypeOK, StopInv, InLoop, Stopped, Notified
<1>4. ConnsInv'
  BY DEF IInv, TypeOK, ConnsInv, Alive, Notified
<1>5. ToldInv'
  BY DEF IInv, TypeOK, ToldInv, Told, InLoop, Stopped, Alive, Notified
<1>6. QueueInv'
  BY DEF IInv, QueueInv, Notified
<1> QED
  BY <1>1, <1>2, <1>3, <1>4, <1>5, <1>6 DEF IInv

\* Shutdown looks for connections after its stop: it ends, calls stop again, or
\* panics.
LEMMA CheckConnectionsOK ==
  ASSUME IInv, CheckConnections
  PROVE  IInv'
<1>1. TypeOK'
  BY DEF IInv, TypeOK, Labels, CheckConnections
<1>2. ThreadInv'
  BY DEF IInv, ThreadInv, InLoop, TypeOK, Stoppers, CheckConnections
<1>3. StopInv'
  BY DEF IInv, TypeOK, StopInv, Stopped, CheckConnections
<1>4. ConnsInv'
  BY DEF IInv, ConnsInv, Alive, TypeOK, Stoppers, CheckConnections
<1>5. ToldInv'
  BY DEF IInv, ToldInv, Told, Stopped, Alive, TypeOK, ConnsInv, CheckConnections
<1>6. QueueInv'
  BY DEF IInv, QueueInv, CheckConnections
<1> QED
  BY <1>1, <1>2, <1>3, <1>4, <1>5, <1>6 DEF IInv

\* The first critical section of stop: the server is stopping before the
\* listener is closed.
LEMMA StopListenerOK ==
  ASSUME IInv, NEW t \in Stoppers, StopListener(t)
  PROVE  IInv'
<1>1. TypeOK'
  BY ServerAssumption DEF IInv, TypeOK, Stoppers, Labels, StopListener
<1>2. ThreadInv'
  BY DEF IInv, TypeOK, ThreadInv, InLoop, StopListener
<1>3. StopInv'
  BY DEF IInv, TypeOK, StopInv, InLoop, Stopped, StopListener
<1>4. ConnsInv'
  BY DEF IInv, TypeOK, ConnsInv, Alive, StopListener
<1>5. ToldInv'
  BY DEF IInv, TypeOK, ToldInv, Told, InLoop, Stopped, Alive, StopListener
<1>6. QueueInv'
  BY DEF IInv, QueueInv, StopListener
<1> QED
  BY <1>1, <1>2, <1>3, <1>4, <1>5, <1>6 DEF IInv

\* listenerGroup.Wait, then the lock: every connection accepted so far is
\* tracked, and stop has all of them before it.
LEMMA StopWaitOK ==
  ASSUME IInv, NEW t \in Stoppers, StopWait(t)
  PROVE  IInv'
<1>1. TypeOK'
  BY DEF IInv, TypeOK, Labels, StopWait
<1>2. ThreadInv'
  BY ServerAssumption DEF IInv, ThreadInv, InLoop, TypeOK, StopWait
<1>3. StopInv'
  BY DEF IInv, TypeOK, StopInv, StopWait
<1>4. ConnsInv'
  BY DEF IInv, TypeOK, ConnsInv, Alive, StopWait
<1>5. ToldInv'
  BY DEF IInv, TypeOK, ToldInv, Told, Stopped, Alive, StopWait
<1>6. QueueInv'
  BY DEF IInv, QueueInv, StopWait
<1> QED
  BY <1>1, <1>2, <1>3, <1>4, <1>5, <1>6 DEF IInv

\* stop marks the next connection.
LEMMA StopMarkOK ==
  ASSUME IInv, NEW t \in Stoppers, NEW c \in Conns, StopMark(t, c)
  PROVE  IInv'
<1>1. TypeOK'
  BY DEF IInv, TypeOK, Labels, StopMark
<1>2. ThreadInv'
  BY ServerAssumption DEF IInv, ThreadInv, InLoop, TypeOK, StopMark
<1>3. StopInv'
  BY DEF IInv, StopInv, TypeOK, ThreadInv, StopMark
<1>4. ConnsInv'
  BY DEF IInv, TypeOK, ConnsInv, Alive, StopMark
<1>5. ToldInv'
  BY ServerAssumption DEF IInv, ToldInv, Told, Stopped, Alive, TypeOK, ThreadInv,
     StopMark
<1>6. QueueInv'
  BY DEF IInv, QueueInv, StopMark
<1> QED
  BY <1>1, <1>2, <1>3, <1>4, <1>5, <1>6 DEF IInv

\* stop closes the connection it has marked. A connection whose cancel function
\* is not there yet has not looked at its mark yet, so that it is told all the
\* same.
LEMMA StopCloseOK ==
  ASSUME IInv, NEW t \in Stoppers, StopClose(t)
  PROVE  IInv'
<1>1. TypeOK'
  BY DEF IInv, TypeOK, Labels, ThreadInv, StopClose
<1>2. ThreadInv'
  BY DEF IInv, ThreadInv, InLoop, TypeOK, StopClose
<1>3. StopInv'
  BY DEF IInv, StopInv, TypeOK, ThreadInv, StopClose
<1>4. ConnsInv'
  BY DEF IInv, TypeOK, ConnsInv, Alive, StopClose
<1>5. ToldInv'
  <2> USE ServerAssumption DEF IInv, TypeOK, Stoppers, StopClose
  <2>1. \A s \in Stoppers : InLoop(s)' => s = t
    BY DEF ThreadInv, InLoop <2>2. closing \in tracked BY DEF ThreadInv <2>3. \A c \in
       Conns : c = closing => Told(c)' BY <2>2 DEF ToldInv, Told, ConnsInv, Alive <2>4.
       \A c \in Conns : Told(c) => Told(c)' BY DEF Told <2>5. \A c \in tracked \ todo :
       Told(c)' BY <2>2, <2>3, <2>4 DEF ToldInv, InLoop <2>6. Stopped' = Stopped BY DEF
       Stopped, ThreadInv <2>7. \A c \in Conns : Alive(c)' = Alive(c) BY DEF Alive <2>
       QED BY <2>1, <2>4, <2>5, <2>6, <2>7 DEF ToldInv
<1>6. QueueInv'
  BY DEF IInv, QueueInv, StopClose
<1> QED
  BY <1>1, <1>2, <1>3, <1>4, <1>5, <1>6 DEF IInv

\* stop has passed all connections that are tracked, and returns.
LEMMA StopReturnOK ==
  ASSUME IInv, NEW t \in Stoppers, StopReturn(t)
  PROVE  IInv'
<1>1. TypeOK'
  BY DEF IInv, TypeOK, Labels, StopReturn
<1>2. ThreadInv'
  BY ServerAssumption DEF IInv, ThreadInv, InLoop, TypeOK, StopReturn
<1>3. StopInv'
  BY DEF IInv, TypeOK, StopInv, InLoop, StopReturn
<1>4. ConnsInv'
  BY DEF IInv, TypeOK, ConnsInv, Alive, StopReturn
<1>5. ToldInv'
  BY ServerAssumption DEF IInv, TypeOK, ToldInv, Told, InLoop, Alive, ThreadInv,
     StopInv, ConnsInv, StopReturn
<1>6. QueueInv'
  BY DEF IInv, QueueInv, StopReturn
<1> QED
  BY <1>1, <1>2, <1>3, <1>4, <1>5, <1>6 DEF IInv

\* The goroutine of a connection stores its cancel function, before its first
\* look at its mark.
LEMMA StartConnOK ==
  ASSUME IInv, NEW c \in Conns, StartConn(c)
  PROVE  IInv'
<1>1. TypeOK'
  BY DEF IInv, TypeOK, ConnLabels, StartConn
<1>2. ConnsInv'
  BY DEF IInv, ConnsInv, Alive, TypeOK, StartConn
<1>3. ToldInv'
  BY DEF IInv, TypeOK, ToldInv, Told, InLoop, Stopped, Alive, StartConn
<1>4. ThreadInv' /\ StopInv' /\ QueueInv'
  BY DEF IInv, ThreadInv, InLoop, StopInv, Stopped, QueueInv, StartConn
<1> QED
  BY <1>1, <1>2, <1>3, <1>4 DEF IInv

\* A connection looks at its mark before it reads.
LEMMA LoopOK ==
  ASSUME IInv, NEW c \in Conns, Loop(c)
  PROVE  IInv'
<1>1. TypeOK'
  BY DEF IInv, TypeOK, ConnLabels, Loop
<1>2. ConnsInv'
  BY DEF IInv, TypeOK, ConnsInv, Alive, Loop
<1>3. ToldInv'
  BY DEF IInv, TypeOK, ToldInv, Told, InLoop, Stopped, Alive, Loop
<1>4. ThreadInv' /\ StopInv' /\ QueueInv'
  BY DEF IInv, ThreadInv, InLoop, StopInv, Stopped, QueueInv, Loop
<1> QED
  BY <1>1, <1>2, <1>3, <1>4 DEF IInv

\* A connection takes a command out of its socket buffer.
LEMMA ReadOK ==
  ASSUME IInv, NEW c \in Conns, Read(c)
  PROVE  IInv'
<1>1. TypeOK'
  BY ServerAssumption DEF IInv, TypeOK, ConnLabels, Read
<1>2. ConnsInv'
  BY DEF IInv, ConnsInv, Alive, TypeOK, Read
<1>3. ToldInv'
  BY DEF IInv, ToldInv, Told, InLoop, Stopped, Alive, TypeOK, Read
<1>4. QueueInv'
  BY DEF IInv, QueueInv, TypeOK, Read
<1>5. ThreadInv' /\ StopInv'
  BY DEF IInv, ThreadInv, InLoop, StopInv, Stopped, Read
<1> QED
  BY <1>1, <1>2, <1>3, <1>4, <1>5 DEF IInv

\* The read of a connection fails.
LEMMA ReadFailsOK ==
  ASSUME IInv, NEW c \in Conns, ReadFails(c)
  PROVE  IInv'
<1>1. TypeOK'
  BY DEF IInv, TypeOK, ConnLabels, ReadFails
<1>2. ConnsInv'
  BY DEF IInv, TypeOK, ConnsInv, Alive, ReadFails
<1>3. ToldInv'
  BY DEF IInv, TypeOK, ToldInv, Told, InLoop, Stopped, Alive, ReadFails
<1>4. ThreadInv' /\ StopInv' /\ QueueInv'
  BY DEF IInv, ThreadInv, InLoop, StopInv, Stopped, QueueInv, ReadFails
<1> QED
  BY <1>1, <1>2, <1>3, <1>4 DEF IInv

\* A command returns.
LEMMA ExecuteOK ==
  ASSUME IInv, NEW c \in Conns, Execute(c)
  PROVE  IInv'
<1>1. TypeOK'
  BY DEF IInv, TypeOK, ConnLabels, Execute
<1>2. ConnsInv'
  BY DEF IInv, TypeOK, ConnsInv, Alive, Execute
<1>3. ToldInv'
  BY DEF IInv, TypeOK, ToldInv, Told, InLoop, Stopped, Alive, Execute
<1>4. ThreadInv' /\ StopInv' /\ QueueInv'
  BY DEF IInv, ThreadInv, InLoop, StopInv, Stopped, QueueInv, Execute
<1> QED
  BY <1>1, <1>2, <1>3, <1>4 DEF IInv

\* A connection answers.
LEMMA WriteOK ==
  ASSUME IInv, NEW c \in Conns, Write(c)
  PROVE  IInv'
<1>1. TypeOK'
  BY DEF IInv, TypeOK, ConnLabels, Write
<1>2. ConnsInv'
  BY DEF IInv, TypeOK, ConnsInv, Alive, Write
<1>3. ToldInv'
  BY DEF IInv, TypeOK, ToldInv, Told, InLoop, Stopped, Alive, Write
<1>4. ThreadInv' /\ StopInv' /\ QueueInv'
  BY DEF IInv, ThreadInv, InLoop, StopInv, Stopped, QueueInv, Write
<1> QED
  BY <1>1, <1>2, <1>3, <1>4 DEF IInv

\* A connection closes itself.
LEMMA CloseConnOK ==
  ASSUME IInv, NEW c \in Conns, CloseConn(c)
  PROVE  IInv'
<1>1. TypeOK'
  BY DEF IInv, TypeOK, ConnLabels, CloseConn
<1>2. ConnsInv'
  BY DEF IInv, TypeOK, ConnsInv, Alive, CloseConn
<1>3. ToldInv'
  BY DEF IInv, TypeOK, ToldInv, Told, InLoop, Stopped, Alive, CloseConn
<1>4. ThreadInv' /\ StopInv' /\ QueueInv'
  BY DEF IInv, ThreadInv, InLoop, StopInv, Stopped, QueueInv, CloseConn
<1> QED
  BY <1>1, <1>2, <1>3, <1>4 DEF IInv

\* trackConnection(c, false) waits for the lock of stop.
LEMMA UntrackConnOK ==
  ASSUME IInv, NEW c \in Conns, UntrackConn(c)
  PROVE  IInv'
<1>1. TypeOK'
  BY DEF IInv, TypeOK, ConnLabels, ThreadInv, UntrackConn
<1>2. ConnsInv'
  BY DEF IInv, ConnsInv, Alive, TypeOK, UntrackConn
<1>3. ToldInv'
  BY DEF IInv, TypeOK, ToldInv, Told, InLoop, Stopped, Alive, UntrackConn
<1>4. ThreadInv' /\ StopInv' /\ QueueInv'
  BY DEF IInv, ThreadInv, InLoop, StopInv, Stopped, QueueInv, UntrackConn
<1> QED
  BY <1>1, <1>2, <1>3, <1>4 DEF IInv

\* A client connects.
LEMMA ConnectOK ==
  ASSUME IInv, NEW c \in Conns, Connect(c)
  PROVE  IInv'
<1>1. TypeOK'
  BY DEF IInv, TypeOK, ConnLabels, Connect
<1>2. ConnsInv'
  BY DEF IInv, TypeOK, ConnsInv, Alive, Connect
<1>3. ToldInv'
  BY DEF IInv, TypeOK, ToldInv, Told, InLoop, Stopped, Alive, Connect
<1>4. ThreadInv' /\ StopInv' /\ QueueInv'
  BY DEF IInv, ThreadInv, InLoop, StopInv, Stopped, QueueInv, Connect
<1> QED
  BY <1>1, <1>2, <1>3, <1>4 DEF IInv

\* A client sends a command.
LEMMA SendOK ==
  ASSUME IInv, NEW c \in Conns, Send(c)
  PROVE  IInv'
<1>1. TypeOK'
  BY ServerAssumption DEF IInv, TypeOK, QueueInv, Send
<1>2. QueueInv'
  BY DEF IInv, QueueInv, TypeOK, Send
<1>3. ThreadInv' /\ StopInv' /\ ConnsInv' /\ ToldInv'
  BY DEF IInv, ThreadInv, InLoop, StopInv, Stopped, ConnsInv, Alive, ToldInv, Told, Send
<1> QED
  BY <1>1, <1>2, <1>3 DEF IInv

\* A client goes away.
LEMMA DisconnectOK ==
  ASSUME IInv, NEW c \in Conns, Disconnect(c)
  PROVE  IInv'
<1>1. TypeOK'
  BY DEF IInv, TypeOK, Disconnect
<1>2. ThreadInv' /\ StopInv' /\ ConnsInv' /\ ToldInv' /\ QueueInv'
  BY DEF IInv, ThreadInv, InLoop, StopInv, Stopped, ConnsInv, Alive, ToldInv, Told,
     QueueInv, Disconnect
<1> QED
  BY <1>1, <1>2 DEF IInv

\* The process gets a signal.
LEMMA SignalOK ==
  ASSUME IInv, Signal
  PROVE  IInv'
<1>1. TypeOK'
  BY DEF IInv, TypeOK, Signal
<1>2. ThreadInv' /\ StopInv' /\ ConnsInv' /\ ToldInv' /\ QueueInv'
  BY DEF IInv, ThreadInv, InLoop, StopInv, Stopped, ConnsInv, Alive, ToldInv, Told,
     QueueInv, Signal
<1> QED
  BY <1>1, <1>2 DEF IInv

\* The grace period ends.
LEMMA GraceElapsesOK ==
  ASSUME IInv, GraceElapses
  PROVE  IInv'
<1>1. TypeOK'
  BY DEF IInv, TypeOK, GraceElapses
<1>2. ThreadInv' /\ StopInv' /\ ConnsInv' /\ ToldInv' /\ QueueInv'
  BY DEF IInv, ThreadInv, InLoop, StopInv, Stopped, ConnsInv, Alive, ToldInv, Told,
     QueueInv, GraceElapses
<1> QED
  BY <1>1, <1>2 DEF IInv

-----------------------------------------------------------------------------

\* The server is about to start.
LEMMA InitOK == Init => IInv
<1> SUFFICES ASSUME Init PROVE IInv
  OBVIOUS
<1> USE ServerAssumption DEF Init, Stoppers
<1>1. TypeOK
  <2>1. pc \in [Stoppers -> Labels] /\ ret \in [Stoppers -> {"return", "conns", "end"}]
    BY DEF Labels <2>2. marked \in [Conns -> BOOLEAN] /\ readClosed \in [Conns ->
       BOOLEAN] BY Zenon <2>3. cpc \in [Conns -> ConnLabels] /\ cancel \in [Conns ->
       {"nil", "called"}] BY DEF ConnLabels <2>4. queue \in [Conns -> 0..MaxSends] /\
       sent \in [Conns -> 0..MaxSends] OBVIOUS <2>5. open \in BOOLEAN /\ stopping \in
       BOOLEAN /\ signalled \in BOOLEAN /\ grace \in BOOLEAN BY Zenon <2>6. listeners
       \in 0..1 BY SMT <2> QED BY <2>1, <2>3, <2>4, <2>6, Zenon DEF TypeOK
<1>2. ThreadInv /\ StopInv
  BY DEF ThreadInv, StopInv, InLoop, Stopped
<1>3. ConnsInv /\ ToldInv /\ QueueInv
  BY DEF ConnsInv, ToldInv, QueueInv, Alive
<1> QED
  BY <1>1, <1>2, <1>3 DEF IInv

\* Every step of stop keeps the invariant, whichever goroutine calls it.
LEMMA StopOK ==
  ASSUME IInv, NEW t \in Stoppers, Stop(t)
  PROVE  IInv'
BY StopListenerOK, StopWaitOK, StopMarkOK, StopCloseOK, StopReturnOK DEF Stop, IInv, TypeOK

\* Every step keeps the invariant.
LEMMA NextOK == IInv /\ [Next]_vars => IInv'
<1> SUFFICES ASSUME IInv, [Next]_vars PROVE IInv'
  OBVIOUS
<1>1. CASE Main
  BY <1>1, ServeOK, UntrackListenerOK, ExitOK, StopOK, AcceptOK, TrackOK DEF Main,
     Stoppers
<1>2. CASE AcceptFails
  BY <1>2, AcceptFailsOK
<1>3. CASE Shutdown
  BY <1>3, NotifiedOK, CheckConnectionsOK, StopOK DEF Shutdown, Stoppers
<1>4. CASE \E c \in Conns : Serving(c)
  BY <1>4, StartConnOK, LoopOK, ReadOK, ExecuteOK, WriteOK, CloseConnOK, UntrackConnOK
     DEF Serving
<1>5. CASE Outside
  BY <1>5, SignalOK, GraceElapsesOK, ConnectOK, SendOK, DisconnectOK, ReadFailsOK DEF
     Outside
<1>6. CASE UNCHANGED vars
  <2> USE <1>6 DEF vars, IInv
  <2>1. TypeOK'
    BY DEF TypeOK
  <2>2. ThreadInv' /\ StopInv' /\ QueueInv'
    BY DEF ThreadInv, StopInv, QueueInv, InLoop, Stopped
  <2>3. ConnsInv' /\ ToldInv'
    BY DEF ConnsInv, ToldInv, Told, InLoop, Stopped, Alive
  <2> QED
    BY <2>1, <2>2, <2>3
<1> QED
  BY <1>1, <1>2, <1>3, <1>4, <1>5, <1>6 DEF Next

\* The inductive invariant of the server: who holds its lock, what stop waits
\* for, and which connections have been told to stop.
THEOREM ServerInvariance == Spec => []IInv
BY InitOK, NextOK, PTL DEF Spec

\* Every state is well typed; the connection stop is closing, and those it has
\* still to close, are tracked, and listenerGroup counts one listener at most.
THEOREM ServerTyped == Spec => []TypeOK
<1>1. IInv => TypeOK
  BY DEF IInv
<1> QED
  BY <1>1, ServerInvariance, PTL

\* "Wait for the listener to shutdown to avoid race between accept and tracking
\* the new connection": when stop has returned, every connection that was ever
\* accepted and is not gone has been told to stop, for any number of
\* connections.
THEOREM StopTellsAll == Spec => []NoneLeftBehind
<1>1. IInv => NoneLeftBehind
  BY DEF IInv, ToldInv, Told, NoneLeftBehind
<1> QED
  BY <1>1, ServerInvariance, PTL

\* After stop has returned no command runs with a live context, for any number
\* of connections and commands, although connection.cancel is written and read
\* without a lock.
THEOREM NoCommandOutlivesStop == Spec => []NoCommandEscapes
<1>1. IInv => NoCommandEscapes
  BY DEF IInv, ToldInv, Told, NoCommandEscapes, Alive
<1> QED
  BY <1>1, ServerInvariance, PTL

=============================================================================
