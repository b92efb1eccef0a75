---------------------------- MODULE FsidRegistry ----------------------------
(***************************************************************************)
(* What the FSID service promises to the NFS servers of a cluster: one     *)
(* registry, shared by all of them, that gives every export path a FSID    *)
(* the first time it is asked for, takes the FSIDs from 1 upwards without  *)
(* a gap, never changes a FSID it has given out, and only answers with     *)
(* what it holds.  Fsidd.tla is shown to implement it.                     *)
(***************************************************************************)
EXTENDS Integers

CONSTANTS
  Clients,   \* who is waiting for an answer
  Paths,     \* the export paths
  MaxFsid,   \* the largest FSID there is
  None       \* no value

VARIABLES
  assigned,  \* the FSID of each path, or None
  next,      \* the FSID the next new path gets
  answer     \* the mapping each client has been answered with, or None

vars == <<assigned, next, answer>>

Init ==
  /\ assigned = [p \in Paths |-> None]
  /\ next = 1
  /\ answer = [c \in Clients |-> None]

Allocate(p) ==
  /\ assigned[p] = None
  /\ next <= MaxFsid
  /\ assigned' = [assigned EXCEPT ![p] = next]
  /\ next' = next + 1
  /\ UNCHANGED answer

Answer(c, p) ==
  /\ assigned[p] # None
  /\ answer' = [answer EXCEPT ![c] = <<p, assigned[p]>>]
  /\ UNCHANGED <<assigned, next>>

\* Clients move on to their next question, or lose their server.
Forget(S) ==
  /\ answer' = [c \in Clients |-> IF c \in S THEN None ELSE answer[c]]
  /\ UNCHANGED <<assigned, next>>

Next ==
  \/ \E p \in Paths : Allocate(p)
  \/ \E c \in Clients, p \in Paths : Answer(c, p)
  \/ \E S \in SUBSET Clients : Forget(S)

Spec == Init /\ [][Next]_vars
=============================================================================
