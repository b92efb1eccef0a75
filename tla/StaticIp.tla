------------------------------ MODULE StaticIp ------------------------------
(***************************************************************************)
(* The static_ip Lambda function (static_ip.py): it gives every proxy of   *)
(* the Auto Scaling group a second network interface (ENI), whose address  *)
(* clients find under the DNS name of the cluster, and hands the ENI of a  *)
(* replaced instance to its replacement.                                   *)
(*                                                                         *)
(* The function is driven by events of the group: an instance is launching *)
(* or terminating (and waits in a lifecycle hook, for 300 seconds at most) *)
(* or it has been terminated.  Events wait in a queue, as the function has *)
(* one concurrent execution at most; they may be delivered in any order    *)
(* and more than once, and each call a handler makes may fail.             *)
(***************************************************************************)
EXTENDS Integers, FiniteSets

CONSTANTS
  Instances,  \* EC2 instances; none is launched twice
  Enis,       \* ENIs there may be, each with the address it always has
  Workers,    \* execution environments of the function
  Faults,     \* subset of FaultKinds
  None

\* "ApiError": a call of a handler fails; "Timeout": a lifecycle hook, a poll or
\* the function itself runs out of time; "Duplicate": an event is delivered more
\* than once.
FaultKinds == {"ApiError", "Timeout", "Duplicate"}

ASSUME StaticIpAssumption ==
  Faults \subseteq FaultKinds /\ Workers # {} /\ None \notin Instances

VARIABLES
  inst,    \* the state of each instance
  cause,   \* the cause it is terminated for
  eni,     \* the state of each ENI
  at,      \* the instance an ENI is attached to, as device 1, or None
  tag,     \* its tag knfsd-file-cache:instance-id, or None
  dns,     \* the ENIs that have an A record
  events,  \* events waiting for the function
  lpc,     \* where each execution is
  event,   \* the event it handles
  got      \* the ENI it works on, or None

group == <<inst, cause>>
network == <<eni, at, tag, dns>>
lambda == <<lpc, event, got>>
vars == <<group, network, events, lambda>>

Kinds == {"launching", "terminating", "terminated"}
Events == [kind : Kinds, id : Instances]
LambdaLabels == {"idle", "find", "create", "attach", "modify", "tags", "upsert",
                 "describe", "detach", "poll", "delete", "complete", "abandon",
                 "get", "free"}

TypeOK ==
  /\ inst \in [Instances -> {"none", "pending", "inservice", "terminating",
                             "shutting", "terminated"}]
  /\ cause \in [Instances -> {"shrinking the capacity", "other"}]
  /\ eni \in [Enis -> {"none", "available", "in-use", "detaching"}]
  /\ at \in [Enis -> Instances \cup {None}]
  /\ \A e \in Enis : eni[e] = "in-use" <=> at[e] # None
  /\ tag \in [Enis -> Instances \cup {None}]
  /\ dns \subseteq Enis
  /\ events \subseteq Events
  /\ lpc \in [Workers -> LambdaLabels]
  /\ event \in [Workers -> Events \cup {None}]
  /\ got \in [Workers -> Enis \cup {None}]

Init ==
  /\ inst = [i \in Instances |-> "none"]
  /\ cause = [i \in Instances |-> "other"]
  /\ eni = [e \in Enis |-> "none"]
  /\ at = [e \in Enis |-> None]
  /\ tag = [e \in Enis |-> None]
  /\ dns = {} /\ events = {}
  /\ lpc = [w \in Workers |-> "idle"]
  /\ event = [w \in Workers |-> None]
  /\ got = [w \in Workers |-> None]

-----------------------------------------------------------------------------
(* The Auto Scaling group and EC2, as the function relies on them. *)

Emit(k, i) == events' = events \cup {[kind |-> k, id |-> i]}

Launch(i) ==
  /\ inst[i] = "none"
  /\ inst' = [inst EXCEPT ![i] = "pending"]
  /\ Emit("launching", i)
  /\ UNCHANGED <<cause, network, lambda>>

\* The group shrinks, or replaces an instance that fails its health check.
Terminate(i, why) ==
  /\ inst[i] = "inservice"
  /\ inst' = [inst EXCEPT ![i] = "terminating"]
  /\ cause' = [cause EXCEPT ![i] = why]
  /\ Emit("terminating", i)
  /\ UNCHANGED <<network, lambda>>

\* A lifecycle action ends, by the function or by its timeout.  An instance
\* whose launch is abandoned is terminated, with or without its own hook.
AfterHook(i, result) ==
  \/ /\ inst[i] = "pending" /\ result = "CONTINUE"
     /\ inst' = [inst EXCEPT ![i] = "inservice"]
     /\ UNCHANGED events
  \/ /\ inst[i] = "pending" /\ result = "ABANDON"
     /\ inst' = [inst EXCEPT ![i] = "terminating"]
     /\ Emit("terminating", i)
  \/ /\ inst[i] = "terminating" \/ (inst[i] = "pending" /\ result = "ABANDON")
     /\ inst' = [inst EXCEPT ![i] = "shutting"]
     /\ UNCHANGED events

HookTimeout(i) ==
  /\ "Timeout" \in Faults
  /\ AfterHook(i, "ABANDON")
  /\ UNCHANGED <<cause, network, lambda>>

\* EC2 releases the ENIs of an instance that is shut down.
Terminated(i) ==
  /\ inst[i] = "shutting"
  /\ inst' = [inst EXCEPT ![i] = "terminated"]
  /\ eni' = [e \in Enis |-> IF at[e] = i THEN "available" ELSE eni[e]]
  /\ at' = [e \in Enis |-> IF at[e] = i THEN None ELSE at[e]]
  /\ Emit("terminated", i)
  /\ UNCHANGED <<cause, tag, dns, lambda>>

Detached(e) ==
  /\ eni[e] = "detaching"
  /\ eni' = [eni EXCEPT ![e] = "available"]
  /\ UNCHANGED <<group, at, tag, dns, events, lambda>>

-----------------------------------------------------------------------------
(* lambda_handler. *)

Id(w) == event[w].id

\* Execution w goes on at label l, with ENI e.
Goto(w, l, e) ==
  /\ lpc' = [lpc EXCEPT ![w] = l]
  /\ got' = [got EXCEPT ![w] = e]
  /\ UNCHANGED event

Done(w) ==
  /\ lpc' = [lpc EXCEPT ![w] = "idle"]
  /\ got' = [got EXCEPT ![w] = None]
  /\ event' = [event EXCEPT ![w] = None]

\* A handler raises an exception: a lifecycle action is abandoned, and when that
\* fails too the handler returns.
Raise(w) ==
  IF event[w].kind = "terminated" \/ lpc[w] = "abandon"
  THEN Done(w)
  ELSE Goto(w, "abandon", None)

\* Mutant: as many executions as there are execution environments.
MayStartAny(w) == lpc[w] = "idle"

\* reserved_concurrent_executions = 1
MayStart(w) == \A v \in Workers : lpc[v] = "idle"

\* determine_reason
DetermineReason(why) ==
  IF why = "shrinking the capacity" THEN "SCALE_IN" ELSE "UNKNOWN"

\* The first step of the handler of an event.
First(k, why) ==
  CASE k = "launching" -> "find"
    [] k = "terminating" -> "describe"
    [] k = "terminated" -> IF DetermineReason(why) = "SCALE_IN" THEN "get" ELSE "idle"

Invoke(w, ev) ==
  /\ MayStart(w) /\ ev \in events
  /\ lpc' = [lpc EXCEPT ![w] = First(ev.kind, cause[ev.id])]
  /\ event' = [event EXCEPT ![w] = IF lpc'[w] = "idle" THEN None ELSE ev]
  /\ \/ events' = events \ {ev}
     \/ "Duplicate" \in Faults /\ UNCHANGED events
  /\ UNCHANGED <<group, network, got>>

\* A call of a handler fails.
ApiError(w) ==
  /\ "ApiError" \in Faults
  /\ lpc[w] # "idle"
  /\ Raise(w)
  /\ UNCHANGED <<group, network, events>>

\* The function times out; the event is delivered again.
FunctionTimeout(w) ==
  /\ "Timeout" \in Faults
  /\ lpc[w] # "idle"
  /\ events' = events \cup {event[w]}
  /\ Done(w)
  /\ UNCHANGED <<group, network>>

-----------------------------------------------------------------------------
(* instance_launching. *)

Available == {e \in Enis : eni[e] = "available"}

\* An ENI of the group that is available, any one of them; then the instance is
\* described, which raises an exception when it has no interface any more.
FindEni(w) ==
  /\ lpc[w] = "find"
  /\ CASE inst[Id(w)] = "terminated" -> Raise(w)
       [] inst[Id(w)] # "terminated" /\ Available = {} -> Goto(w, "create", None)
       [] OTHER -> \E e \in Available : Goto(w, "attach", e)
  /\ UNCHANGED <<group, network, events>>

\* create_network_interface: it fails when the subnet has no address left.
CreateEni(w) ==
  /\ lpc[w] = "create"
  /\ \/ \E e \in Enis :
          /\ eni[e] = "none"
          /\ eni' = [eni EXCEPT ![e] = "available"]
          /\ Goto(w, "attach", e)
     \/ /\ \A e \in Enis : eni[e] # "none"
        /\ Raise(w)
        /\ UNCHANGED eni
  /\ UNCHANGED <<group, at, tag, dns, events>>

\* attach_network_interface as device 1 of an instance that is running.
AttachEni(w) ==
  /\ lpc[w] = "attach"
  /\ IF /\ eni[got[w]] = "available"
        /\ inst[Id(w)] \in {"pending", "inservice", "terminating"}
        /\ \A e \in Enis : at[e] # Id(w)
     THEN /\ eni' = [eni EXCEPT ![got[w]] = "in-use"]
          /\ at' = [at EXCEPT ![got[w]] = Id(w)]
          /\ Goto(w, "modify", got[w])
     ELSE Raise(w) /\ UNCHANGED <<eni, at>>
  /\ UNCHANGED <<group, tag, dns, events>>

\* DeleteOnTermination is turned off, so that Terminated leaves the ENI.
ModifyAttachment(w) ==
  /\ lpc[w] = "modify"
  /\ IF at[got[w]] = Id(w) THEN Goto(w, "tags", got[w]) ELSE Raise(w)
  /\ UNCHANGED <<group, network, events>>

CreateTags(w) ==
  /\ lpc[w] = "tags"
  /\ tag' = [tag EXCEPT ![got[w]] = Id(w)]
  /\ Goto(w, "upsert", got[w])
  /\ UNCHANGED <<group, eni, at, dns, events>>

\* Mutant: the lifecycle action of a launch is left open.
UpsertLast(w) ==
  /\ lpc[w] = "upsert"
  /\ dns' = dns \cup {got[w]}
  /\ Done(w)
  /\ UNCHANGED <<group, eni, at, tag, events>>

Upsert(w) ==
  /\ lpc[w] = "upsert"
  /\ dns' = dns \cup {got[w]}
  /\ Goto(w, "complete", None)
  /\ UNCHANGED <<group, eni, at, tag, events>>

-----------------------------------------------------------------------------
(* instance_terminating. *)

\* The secondary ENI, if the instance has one.
DescribeInstance(w) ==
  /\ lpc[w] = "describe"
  /\ \/ \E e \in Enis : at[e] = Id(w) /\ Goto(w, "detach", e)
     \/ (\A e \in Enis : at[e] # Id(w)) /\ Goto(w, "complete", None)
  /\ UNCHANGED <<group, network, events>>

\* Mutant: the attachment of a detached ENI is still on record.
DetachEniKept(w) ==
  /\ lpc[w] = "detach"
  /\ eni' = [eni EXCEPT ![got[w]] = "detaching"]
  /\ Goto(w, "poll", got[w])
  /\ UNCHANGED <<group, at, tag, dns, events>>

\* An ENI that is being detached is no longer listed with its instance.
DetachEni(w) ==
  /\ lpc[w] = "detach"
  /\ IF at[got[w]] = Id(w)
     THEN /\ eni' = [eni EXCEPT ![got[w]] = "detaching"]
          /\ at' = [at EXCEPT ![got[w]] = None]
          /\ Goto(w, "poll", got[w])
     ELSE Raise(w) /\ UNCHANGED <<eni, at>>
  /\ UNCHANGED <<group, tag, dns, events>>

\* wait_for_eni_available: the ENI is available, or 12 polls have gone by.
WaitForEniAvailable(w) ==
  /\ lpc[w] = "poll"
  /\ eni[got[w]] = "available" \/ "Timeout" \in Faults
  /\ Goto(w, "delete", got[w])
  /\ UNCHANGED <<group, network, events>>

\* Mutant: the record of a detached ENI stays.
DeleteRecordForgotten(w) ==
  /\ lpc[w] = "delete"
  /\ Goto(w, "complete", None)
  /\ UNCHANGED <<group, network, events>>

\* Route 53 refuses to delete a record that is not there.
DeleteRecord(w) ==
  /\ lpc[w] = "delete"
  /\ IF got[w] \in dns THEN Goto(w, "complete", None) ELSE Raise(w)
  /\ dns' = dns \ {got[w]}
  /\ UNCHANGED <<group, eni, at, tag, events>>

-----------------------------------------------------------------------------
(* instance_terminated, for a scale-in. *)

\* Mutant: any ENI of the group will do.
OwnEnisAnyTag(i) == Available

\* get_eni: the available ENIs tagged with the instance.
OwnEnis(i) == {e \in Available : tag[e] = i}

\* get_eni finds one, or gives up after ten attempts, which is time enough for
\* an ENI that is being detached unless something is late.
GetEni(w) ==
  /\ lpc[w] = "get"
  /\ \/ \E e \in OwnEnis(Id(w)) : Goto(w, "free", e)
     \/ /\ OwnEnis(Id(w)) = {}
        /\ \/ "Timeout" \in Faults
           \/ \A e \in Enis : ~(eni[e] = "detaching" /\ tag[e] = Id(w))
        /\ Raise(w)
  /\ UNCHANGED <<group, network, events>>

DeleteEni(w) ==
  /\ lpc[w] = "free"
  /\ IF eni[got[w]] = "available"
     THEN /\ eni' = [eni EXCEPT ![got[w]] = "none"]
          /\ tag' = [tag EXCEPT ![got[w]] = None]
          /\ Done(w)
     ELSE Raise(w) /\ UNCHANGED <<eni, tag>>
  /\ UNCHANGED <<group, at, dns, events>>

-----------------------------------------------------------------------------
\* complete_lifecycle_action; its token is good only while the hook waits.
HookWaits(ev) ==
  inst[ev.id] = IF ev.kind = "launching" THEN "pending" ELSE "terminating"

CompleteLifecycleAction(w) ==
  /\ lpc[w] \in {"complete", "abandon"}
  /\ LET result == IF lpc[w] = "complete" THEN "CONTINUE" ELSE "ABANDON" IN
     IF HookWaits(event[w])
     THEN AfterHook(Id(w), result) /\ Done(w)
     ELSE Raise(w) /\ UNCHANGED <<inst, events>>
  /\ UNCHANGED <<cause, network>>

Group ==
  \/ \E i \in Instances :
       \/ Launch(i) \/ HookTimeout(i) \/ Terminated(i)
       \/ \E why \in {"shrinking the capacity", "other"} : Terminate(i, why)
  \/ \E e \in Enis : Detached(e)

Handle(w) ==
  \/ FindEni(w) \/ CreateEni(w) \/ AttachEni(w) \/ ModifyAttachment(w)
  \/ CreateTags(w) \/ Upsert(w)
  \/ DescribeInstance(w) \/ DetachEni(w) \/ WaitForEniAvailable(w) \/ DeleteRecord(w)
  \/ GetEni(w) \/ DeleteEni(w)
  \/ CompleteLifecycleAction(w)

Lambda ==
  \E w \in Workers :
    \/ \E ev \in events : Invoke(w, ev)
    \/ Handle(w) \/ ApiError(w) \/ FunctionTimeout(w)

Next == Group \/ Lambda

Spec == Init /\ [][Next]_vars

\* A lifecycle event is taken off the queue some day, handlers do not stop
\* half-way, and EC2 ends what it has begun.
Fairness ==
  /\ \A i \in Instances, k \in {"launching", "terminating"} :
       SF_vars(\E w \in Workers : Invoke(w, [kind |-> k, id |-> i]) /\ events' # events)
  /\ \A w \in Workers : WF_vars(Handle(w))
  /\ \A i \in Instances : WF_vars(Terminated(i))
  /\ \A e \in Enis : WF_vars(Detached(e))

FairSpec == Spec /\ Fairness

-----------------------------------------------------------------------------
(* Properties. *)

\* The group is at rest: nothing is launched or terminated, nothing is queued.
AtRest ==
  /\ events = {} /\ \A w \in Workers : lpc[w] = "idle"
  /\ \A i \in Instances : inst[i] \in {"none", "inservice", "terminated"}

\* 'A DNS "A" record is created/deleted to reflect the IPv4 address of the
\* secondary ENI' (static_ip.py:8): at rest, the name of the cluster resolves to
\* the ENIs attached to an instance, and to nothing else.
DnsReflectsEnis == AtRest => dns = {e \in Enis : at[e] # None}

\* An instance in service can be reached: it has its ENI, tagged with it, and the
\* A record of the ENI is there, whatever else the function is doing.
InServiceReachable ==
  \A i \in Instances :
    inst[i] = "inservice" =>
      \E e \in Enis : at[e] = i /\ tag[e] = i /\ e \in dns

\* "This py script ensures that the secondary private IP address is maintained
\* (static) across instance replacements" (static_ip.py:11): an ENI is only
\* deleted when the instance it was last given to is gone, by a scale-in.
AddressesKept ==
  [][\A e \in Enis :
       eni[e] # "none" /\ eni'[e] = "none" =>
         /\ tag[e] # None /\ inst[tag[e]] = "terminated"
         /\ cause[tag[e]] = "shrinking the capacity"]_vars

\* Neither hook holds an instance for ever: one that is launched gets into
\* service, and one the group takes out of service is terminated.
LifecyclesComplete ==
  \A i \in Instances :
    /\ inst[i] = "pending" ~> inst[i] = "inservice"
    /\ inst[i] = "terminating" ~> inst[i] = "terminated"
=============================================================================
