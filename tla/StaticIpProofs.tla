--------------------------- MODULE StaticIpProofs ---------------------------
(***************************************************************************)
(* Proofs about StaticIp for any instances, addresses and execution        *)
(* environments: what holds whatever fails and however late it is, and,    *)
(* for a group in which no call fails and nothing is late, that the A      *)
(* records are those of the attached ENIs.                                 *)
(***************************************************************************)
EXTENDS StaticIp, TLAPS

\* The function has one execution at a time.
OneExecution ==
  \A v, w \in Workers : lpc[v] # "idle" /\ lpc[w] # "idle" => v = w

\* What an event says has happened has happened.
Known(ev) ==
  /\ inst[ev.id] # "none"
  /\ ev.kind = "terminating" => inst[ev.id] \in {"terminating", "shutting", "terminated"}
  /\ ev.kind = "terminated" => inst[ev.id] = "terminated"

EventsInv == \A ev \in events : Known(ev)

Launching == {"find", "create", "attach", "modify", "tags", "upsert"}
Terminating == {"describe", "detach", "poll", "delete"}

\* The event an execution handles is one its step belongs to.
HandlerOK(w) ==
  /\ event[w] \in Events /\ Known(event[w])
  /\ lpc[w] \in Launching => event[w].kind = "launching"
  /\ lpc[w] \in Terminating => event[w].kind = "terminating"
  /\ lpc[w] \in {"complete", "abandon"} => event[w].kind # "terminated"
  /\ lpc[w] \in {"get", "free"} =>
       event[w].kind = "terminated" /\ cause[Id(w)] = "shrinking the capacity"

Reachable(i) == \E e \in Enis : at[e] = i /\ tag[e] = i /\ e \in dns

\* The ENI an execution works on is the one its instance has, had, or is not
\* going to get back.
EniOK(w) ==
  /\ lpc[w] \in {"attach", "modify", "tags", "upsert", "detach", "poll", "delete", "free"}
       => got[w] \in Enis
  /\ lpc[w] \in {"modify", "tags", "upsert"} =>
       /\ at[got[w]] \in {Id(w), None}
       /\ inst[Id(w)] # "terminated" => at[got[w]] = Id(w)
  /\ lpc[w] \in {"upsert", "free"} => tag[got[w]] = Id(w)
  /\ lpc[w] \in {"poll", "delete"} => at[got[w]] = None
  /\ lpc[w] = "complete" /\ event[w].kind = "launching" /\ inst[Id(w)] = "pending"
       => Reachable(Id(w))

WorkersInv == \A w \in Workers : lpc[w] # "idle" => HandlerOK(w) /\ EniOK(w)

\* The ENIs and the records are what TypeOK says of them.
NetworkOK ==
  /\ eni \in [Enis -> {"none", "available", "in-use", "detaching"}]
  /\ at \in [Enis -> Instances \cup {None}]
  /\ \A e \in Enis : eni[e] = "in-use" <=> at[e] # None
  /\ tag \in [Enis -> Instances \cup {None}]
  /\ dns \subseteq Enis

IInv ==
  /\ TypeOK /\ OneExecution /\ EventsInv /\ WorkersInv
  /\ InServiceReachable

-----------------------------------------------------------------------------
(* What the steps of a handler have in common. *)

\* What is known of an execution that is under way: its event, and that it is the
\* only one.
LEMMA Busy ==
  ASSUME IInv, NEW w \in Workers, lpc[w] # "idle"
  PROVE  /\ HandlerOK(w) /\ EniOK(w)
         /\ event[w].kind \in Kinds /\ Id(w) \in Instances
         /\ \A v \in Workers \ {w} : lpc[v] = "idle"
<1>1. HandlerOK(w) /\ EniOK(w)
  BY DEF IInv, WorkersInv
<1>2. event[w].kind \in Kinds /\ Id(w) \in Instances
  BY <1>1, Zenon DEF HandlerOK, Events, Id
<1>3. \A v \in Workers \ {w} : lpc[v] = "idle"
  BY DEF IInv, OneExecution
<1> QED
  BY <1>1, <1>2, <1>3

\* Goto, for the execution that goes on.
LEMMA Moved ==
  ASSUME IInv, NEW w \in Workers, NEW l, NEW g, Goto(w, l, g)
  PROVE  lpc'[w] = l /\ got'[w] = g /\ event' = event
BY Zenon DEF Goto, IInv, TypeOK

\* An instance in service can still be reached if its ENI, its tag and its record
\* are left alone.
LEMMA ReachableKept ==
  ASSUME IInv, UNCHANGED inst,
         \A i \in Instances, e \in Enis :
           inst[i] = "inservice" /\ at[e] = i /\ tag[e] = i /\ e \in dns =>
             at'[e] = i /\ tag'[e] = i /\ e \in dns'
  PROVE  InServiceReachable'
BY DEF IInv, InServiceReachable

\* A handler goes on at another label, with another ENI: it is enough to look at
\* what it does to the network and at what it knows afterwards.
LEMMA GotoOK ==
  ASSUME IInv, NEW w \in Workers, lpc[w] # "idle",
         NEW l \in LambdaLabels, NEW g \in Enis \cup {None}, Goto(w, l, g),
         UNCHANGED <<group, events>>,
         NetworkOK', InServiceReachable', HandlerOK(w)', EniOK(w)'
  PROVE  IInv'
<1> USE DEF Goto, group
<1>1. TypeOK'
  BY Zenon DEF IInv, TypeOK, NetworkOK
<1>2. lpc'[w] = l /\ \A v \in Workers \ {w} : lpc'[v] = "idle"
  BY Busy, Zenon DEF IInv, TypeOK
<1>3. OneExecution'
  BY <1>2 DEF OneExecution
<1>4. EventsInv'
  BY DEF IInv, EventsInv, Known
<1>5. WorkersInv'
  BY <1>2 DEF WorkersInv
<1> QED
  BY <1>1, <1>3, <1>4, <1>5 DEF IInv

\* A handler returns.  It may leave an event behind, and its last call may let an
\* instance go on.
LEMMA DoneOK ==
  ASSUME IInv, NEW w \in Workers, lpc[w] # "idle", Done(w), UNCHANGED cause,
         inst' \in [Instances -> {"none", "pending", "inservice", "terminating",
                                  "shutting", "terminated"}],
         NetworkOK', InServiceReachable', events' \subseteq Events, EventsInv'
  PROVE  IInv'
<1> USE DEF Done
<1>1. TypeOK'
  BY Zenon DEF IInv, TypeOK, NetworkOK, LambdaLabels
<1>2. \A v \in Workers : lpc'[v] = "idle"
  BY Busy, Zenon DEF IInv, TypeOK
<1>3. OneExecution' /\ WorkersInv'
  BY <1>2 DEF OneExecution, WorkersInv
<1> QED
  BY <1>1, <1>3 DEF IInv

\* A handler raises an exception, having changed nothing but the network.
LEMMA RaiseOK ==
  ASSUME IInv, NEW w \in Workers, lpc[w] # "idle", Raise(w),
         UNCHANGED <<group, events>>, NetworkOK', InServiceReachable'
  PROVE  IInv'
<1>1. CASE event[w].kind = "terminated" \/ lpc[w] = "abandon"
  <2>1. Done(w) /\ UNCHANGED cause
    BY <1>1 DEF Raise, group
  <2>2. EventsInv' /\ events' \subseteq Events
    BY Zenon DEF IInv, TypeOK, EventsInv, Known, group
  <2>3. inst' = inst
    BY DEF group
  <2> QED
    BY <2>1, <2>2, <2>3, DoneOK, Zenon DEF IInv, TypeOK
<1>2. CASE ~(event[w].kind = "terminated" \/ lpc[w] = "abandon")
  <2>1. Goto(w, "abandon", None) /\ "abandon" \in LambdaLabels
    BY <1>2 DEF Raise, LambdaLabels
  <2>2. lpc'[w] = "abandon" /\ event' = event
    BY <2>1, Zenon DEF Goto, IInv, TypeOK
  <2>3. HandlerOK(w)'
    BY <1>2, <2>2, Busy, Zenon DEF HandlerOK, Known, Launching, Terminating, group
  <2>4. EniOK(w)'
    BY <2>2 DEF EniOK
  <2> QED
    BY <2>1, <2>3, <2>4, GotoOK
<1> QED
  BY <1>1, <1>2

\* Instances only go forward, so that what an event says stays true.
LEMMA KnownKept ==
  ASSUME IInv, NEW i \in Instances, NEW s,
         inst' = [inst EXCEPT ![i] = s], s # "none", inst[i] # "terminated",
         inst[i] \in {"terminating", "shutting"} => s \in {"shutting", "terminated"},
         NEW ev \in Events, Known(ev)
  PROVE  Known(ev)'
BY Zenon DEF IInv, TypeOK, Known, Events

-----------------------------------------------------------------------------
(* The handlers. *)

\* instance_launching: an ENI of the group is available, or the launch needs a
\* new one; nothing in the network changes.
LEMMA FindEniOK ==
  ASSUME IInv, NEW w \in Workers, FindEni(w)
  PROVE  IInv'
<1> USE DEF FindEni, network
<1>1. lpc[w] = "find" /\ NetworkOK' /\ InServiceReachable'
  BY Zenon DEF IInv, TypeOK, NetworkOK, InServiceReachable, group
<1>2. CASE Raise(w)
  BY <1>1, <1>2, RaiseOK
<1>3. ASSUME NEW l \in {"create", "attach"}, NEW e \in Enis \cup {None},
             Goto(w, l, e), l = "attach" => e \in Enis
      PROVE  IInv'
  <2>1. lpc'[w] = l /\ got'[w] = e /\ event' = event /\ l \in LambdaLabels
    BY <1>3, Moved DEF LambdaLabels
  <2>2. HandlerOK(w)'
    BY <1>1, <2>1, Busy, Zenon DEF HandlerOK, Known, Launching, Terminating, group
  <2>3. EniOK(w)'
    BY <1>3, <2>1 DEF EniOK
  <2> QED
    BY <1>1, <1>3, <2>1, <2>2, <2>3, GotoOK
<1> QED
  BY <1>2, <1>3 DEF Available

\* create_network_interface: the new ENI is available and attached to nothing.
LEMMA CreateEniOK ==
  ASSUME IInv, NEW w \in Workers, CreateEni(w)
  PROVE  IInv'
<1> USE DEF CreateEni
<1>1. lpc[w] = "create" /\ InServiceReachable'
  BY DEF IInv, InServiceReachable, group
<1>2. CASE Raise(w) /\ UNCHANGED eni
  <2>1. NetworkOK'
    BY <1>2, Zenon DEF IInv, TypeOK, NetworkOK
  <2> QED
    BY <1>1, <1>2, <2>1, RaiseOK
<1>3. ASSUME NEW e \in Enis, eni[e] = "none", eni' = [eni EXCEPT ![e] = "available"],
             Goto(w, "attach", e)
      PROVE  IInv'
  <2>1. NetworkOK'
    BY <1>3, Zenon DEF IInv, TypeOK, NetworkOK
  <2>2. lpc'[w] = "attach" /\ got'[w] = e /\ event' = event /\ "attach" \in LambdaLabels
    BY <1>3, Moved DEF LambdaLabels
  <2>3. HandlerOK(w)'
    BY <1>1, <2>2, Busy, Zenon DEF HandlerOK, Known, Launching, Terminating, group
  <2>4. EniOK(w)'
    BY <2>2 DEF EniOK
  <2> QED
    BY <1>1, <1>3, <2>1, <2>2, <2>3, <2>4, GotoOK
<1> QED
  BY <1>2, <1>3

\* attach_network_interface: the ENI was available, so that it is taken from no instance in
\* service.
LEMMA AttachEniOK ==
  ASSUME IInv, NEW w \in Workers, AttachEni(w)
  PROVE  IInv'
<1> USE DEF AttachEni
<1>1. lpc[w] = "attach" /\ got[w] \in Enis /\ Id(w) \in Instances
  BY Busy DEF EniOK
<1>2. CASE Raise(w) /\ UNCHANGED <<eni, at>>
  <2>1. NetworkOK' /\ InServiceReachable'
    BY <1>2, Zenon DEF IInv, TypeOK, NetworkOK, InServiceReachable, group
  <2> QED
    BY <1>1, <1>2, <2>1, RaiseOK
<1>3. CASE /\ eni[got[w]] = "available"
           /\ eni' = [eni EXCEPT ![got[w]] = "in-use"]
           /\ at' = [at EXCEPT ![got[w]] = Id(w)]
           /\ Goto(w, "modify", got[w])
  <2>1. NetworkOK'
    BY <1>1, <1>3, StaticIpAssumption, Zenon DEF IInv, TypeOK, NetworkOK
  <2>2. InServiceReachable'
    BY <1>1, <1>3, StaticIpAssumption, ReachableKept, Zenon DEF IInv, TypeOK, group
  <2>3. lpc'[w] = "modify" /\ got'[w] = got[w] /\ event' = event
          /\ "modify" \in LambdaLabels
    BY <1>3, Moved DEF LambdaLabels
  <2>4. HandlerOK(w)'
    BY <1>1, <2>3, Busy, Zenon DEF HandlerOK, Known, Launching, Terminating, group
  <2>5. EniOK(w)'
    BY <1>1, <1>3, <2>3, Zenon DEF EniOK, Id, IInv, TypeOK
  <2> QED
    BY <1>1, <1>3, <2>1, <2>2, <2>3, <2>4, <2>5, GotoOK
<1> QED
  BY <1>2, <1>3

\* modify_network_interface_attribute: the ENI is still that of the instance,
\* unless the instance is terminated.
LEMMA ModifyAttachmentOK ==
  ASSUME IInv, NEW w \in Workers, ModifyAttachment(w)
  PROVE  IInv'
<1> USE DEF ModifyAttachment, network
<1>1. lpc[w] = "modify" /\ got[w] \in Enis /\ NetworkOK' /\ InServiceReachable'
  BY Busy, Zenon DEF EniOK, IInv, TypeOK, NetworkOK, InServiceReachable, group
<1>2. CASE Raise(w)
  BY <1>1, <1>2, RaiseOK
<1>3. CASE Goto(w, "tags", got[w])
  <2>1. lpc'[w] = "tags" /\ got'[w] = got[w] /\ event' = event /\ "tags" \in LambdaLabels
    BY <1>3, Moved DEF LambdaLabels
  <2>2. HandlerOK(w)'
    BY <1>1, <2>1, Busy, Zenon DEF HandlerOK, Known, Launching, Terminating, group
  <2>3. EniOK(w)'
    BY <1>1, <2>1, Busy DEF EniOK, Id, group
  <2> QED
    BY <1>1, <1>3, <2>1, <2>2, <2>3, GotoOK
<1> QED
  BY <1>2, <1>3

\* create_tags: the ENI that is tagged is attached to the instance of the event
\* or to nothing, so that no other instance in service loses its tag.
LEMMA CreateTagsOK ==
  ASSUME IInv, NEW w \in Workers, CreateTags(w)
  PROVE  IInv'
<1> USE DEF CreateTags
<1>1. lpc[w] = "tags" /\ got[w] \in Enis /\ Id(w) \in Instances
        /\ at[got[w]] \in {Id(w), None}
  BY Busy DEF EniOK
<1>2. NetworkOK'
  BY <1>1, Zenon DEF IInv, TypeOK, NetworkOK
<1>3. InServiceReachable'
  <2>1. UNCHANGED <<inst, at, dns>> /\ tag' = [tag EXCEPT ![got[w]] = Id(w)]
    BY DEF group
  <2>2. tag \in [Enis -> Instances \cup {None}] /\ None \notin Instances
    BY StaticIpAssumption, Zenon DEF IInv, TypeOK
  <2>3. ASSUME NEW i \in Instances, NEW e \in Enis, at[e] = i, tag[e] = i
        PROVE  tag'[e] = i
    BY <1>1, <2>1, <2>2, <2>3
  <2> QED BY <2>1, <2>3, ReachableKept
<1>4. lpc'[w] = "upsert" /\ got'[w] = got[w] /\ event' = event /\ "upsert" \in LambdaLabels
  BY Moved DEF LambdaLabels
<1>5. HandlerOK(w)'
  BY <1>1, <1>4, Busy, Zenon DEF HandlerOK, Known, Launching, Terminating, group
<1>6. EniOK(w)'
  BY <1>1, <1>4, Busy, Zenon DEF EniOK, Id, group, IInv, TypeOK
<1> QED
  BY <1>1, <1>2, <1>3, <1>4, <1>5, <1>6, GotoOK

\* The A record is added: an instance that is still pending is reachable from
\* here on, which is what complete_lifecycle_action relies on.
LEMMA UpsertOK ==
  ASSUME IInv, NEW w \in Workers, Upsert(w)
  PROVE  IInv'
<1> USE DEF Upsert
<1>1. lpc[w] = "upsert" /\ got[w] \in Enis
  BY Busy DEF EniOK
<1>2. NetworkOK' /\ InServiceReachable'
  BY <1>1, Zenon DEF IInv, TypeOK, NetworkOK, InServiceReachable, group
<1>3. lpc'[w] = "complete" /\ event' = event /\ "complete" \in LambdaLabels
  BY Moved DEF LambdaLabels
<1>4. HandlerOK(w)'
  BY <1>1, <1>3, Busy, Zenon DEF HandlerOK, Known, Launching, Terminating, group
<1>5. EniOK(w)'
  BY <1>1, <1>3, Busy DEF EniOK, Id, Reachable, group
<1> QED
  BY <1>1, <1>2, <1>3, <1>4, <1>5, GotoOK

\* describe_instances finds the secondary ENI of an instance that is
\* terminating, or none.
LEMMA DescribeInstanceOK ==
  ASSUME IInv, NEW w \in Workers, DescribeInstance(w)
  PROVE  IInv'
<1> USE DEF DescribeInstance, network
<1>1. lpc[w] = "describe" /\ NetworkOK' /\ InServiceReachable'
  BY Zenon DEF IInv, TypeOK, NetworkOK, InServiceReachable, group
<1>2. ASSUME NEW l \in {"detach", "complete"}, NEW e \in Enis \cup {None},
             Goto(w, l, e), l = "detach" => e \in Enis
      PROVE  IInv'
  <2>1. lpc'[w] = l /\ got'[w] = e /\ event' = event /\ l \in LambdaLabels
    BY <1>2, Moved DEF LambdaLabels
  <2>2. HandlerOK(w)'
    BY <1>1, <2>1, Busy, Zenon DEF HandlerOK, Known, Launching, Terminating, group
  <2>3. EniOK(w)'
    BY <1>1, <1>2, <2>1, Busy, Zenon DEF EniOK, HandlerOK, Terminating
  <2> QED
    BY <1>1, <1>2, <2>1, <2>2, <2>3, GotoOK
<1> QED
  BY <1>2

\* detach_network_interface: an instance that loses its ENI is not in service,
\* as an event says that it is terminating.
LEMMA DetachEniOK ==
  ASSUME IInv, NEW w \in Workers, DetachEni(w)
  PROVE  IInv'
<1> USE DEF DetachEni
<1>1. lpc[w] = "detach" /\ got[w] \in Enis /\ Id(w) \in Instances
        /\ inst[Id(w)] # "inservice"
  BY Busy, Zenon DEF EniOK, HandlerOK, Known, Terminating, Id
<1>2. CASE Raise(w) /\ UNCHANGED <<eni, at>>
  <2>1. NetworkOK' /\ InServiceReachable'
    BY <1>2, Zenon DEF IInv, TypeOK, NetworkOK, InServiceReachable, group
  <2> QED
    BY <1>1, <1>2, <2>1, RaiseOK
<1>3. CASE /\ at[got[w]] = Id(w)
           /\ eni' = [eni EXCEPT ![got[w]] = "detaching"]
           /\ at' = [at EXCEPT ![got[w]] = None]
           /\ Goto(w, "poll", got[w])
  <2>1. NetworkOK'
    BY <1>1, <1>3, Zenon DEF IInv, TypeOK, NetworkOK
  <2>2. InServiceReachable'
    BY <1>1, <1>3, StaticIpAssumption, ReachableKept, Zenon DEF IInv, TypeOK, group
  <2>3. lpc'[w] = "poll" /\ got'[w] = got[w] /\ event' = event /\ "poll" \in LambdaLabels
    BY <1>3, Moved DEF LambdaLabels
  <2>4. HandlerOK(w)'
    BY <1>1, <2>3, Busy, Zenon DEF HandlerOK, Known, Launching, Terminating, group
  <2>5. EniOK(w)'
    BY <1>1, <1>3, <2>3, Zenon DEF EniOK, IInv, TypeOK
  <2> QED
    BY <1>1, <1>3, <2>1, <2>2, <2>3, <2>4, <2>5, GotoOK
<1> QED
  BY <1>2, <1>3

\* wait_for_eni_available changes nothing: the ENI stays detached, whether it
\* is available in time or not.
LEMMA WaitForEniAvailableOK ==
  ASSUME IInv, NEW w \in Workers, WaitForEniAvailable(w)
  PROVE  IInv'
<1> USE DEF WaitForEniAvailable, network
<1>1. lpc[w] = "poll" /\ got[w] \in Enis /\ NetworkOK' /\ InServiceReachable'
  BY Busy, Zenon DEF EniOK, IInv, TypeOK, NetworkOK, InServiceReachable, group
<1>2. lpc'[w] = "delete" /\ got'[w] = got[w] /\ event' = event /\ "delete" \in LambdaLabels
  BY Moved DEF LambdaLabels
<1>3. HandlerOK(w)'
  BY <1>1, <1>2, Busy, Zenon DEF HandlerOK, Known, Launching, Terminating, group
<1>4. EniOK(w)'
  BY <1>1, <1>2, Busy DEF EniOK
<1> QED
  BY <1>1, <1>2, <1>3, <1>4, GotoOK

\* The A record of a detached ENI is removed, that of no instance in service.
LEMMA DeleteRecordOK ==
  ASSUME IInv, NEW w \in Workers, DeleteRecord(w)
  PROVE  IInv'
<1> USE DEF DeleteRecord
<1>1. lpc[w] = "delete" /\ got[w] \in Enis /\ at[got[w]] = None
  BY Busy DEF EniOK
<1>2. NetworkOK'
  BY <1>1, Zenon DEF IInv, TypeOK, NetworkOK
<1>3. InServiceReachable'
  BY <1>1, StaticIpAssumption, ReachableKept, Zenon DEF IInv, TypeOK, group
<1>4. CASE Raise(w)
  BY <1>1, <1>2, <1>3, <1>4, RaiseOK
<1>5. CASE Goto(w, "complete", None)
  <2>1. lpc'[w] = "complete" /\ event' = event /\ "complete" \in LambdaLabels
    BY <1>5, Moved DEF LambdaLabels
  <2>2. HandlerOK(w)'
    BY <1>1, <2>1, Busy, Zenon DEF HandlerOK, Known, Launching, Terminating, group
  <2>3. EniOK(w)'
    BY <1>1, <2>1, Busy, Zenon DEF EniOK, HandlerOK, Terminating
  <2> QED
    BY <1>1, <1>2, <1>3, <1>5, <2>1, <2>2, <2>3, GotoOK
<1> QED
  BY <1>4, <1>5

\* get_eni finds an available ENI tagged with an instance that a scale-in has
\* terminated.
LEMMA GetEniOK ==
  ASSUME IInv, NEW w \in Workers, GetEni(w)
  PROVE  IInv'
<1> USE DEF GetEni, network
<1>1. lpc[w] = "get" /\ NetworkOK' /\ InServiceReachable'
  BY Zenon DEF IInv, TypeOK, NetworkOK, InServiceReachable, group
<1>2. CASE Raise(w)
  BY <1>1, <1>2, RaiseOK
<1>3. ASSUME NEW e \in OwnEnis(Id(w)), Goto(w, "free", e)
      PROVE  IInv'
  <2>1. e \in Enis /\ tag[e] = Id(w)
    BY DEF OwnEnis, Available
  <2>2. lpc'[w] = "free" /\ got'[w] = e /\ event' = event /\ "free" \in LambdaLabels
    BY <1>3, Moved DEF LambdaLabels
  <2>3. HandlerOK(w)'
    BY <1>1, <2>2, Busy, Zenon DEF HandlerOK, Known, Launching, Terminating, Id, group
  <2>4. EniOK(w)'
    BY <2>1, <2>2 DEF EniOK, Id
  <2> QED
    BY <1>1, <1>3, <2>1, <2>2, <2>3, <2>4, GotoOK
<1> QED
  BY <1>2, <1>3

\* delete_network_interface: an ENI that is available is attached to no
\* instance.
LEMMA DeleteEniOK ==
  ASSUME IInv, NEW w \in Workers, DeleteEni(w)
  PROVE  IInv'
<1> USE DEF DeleteEni
<1>1. lpc[w] = "free" /\ got[w] \in Enis
  BY Busy DEF EniOK
<1>2. CASE Raise(w) /\ UNCHANGED <<eni, tag>>
  <2>1. NetworkOK' /\ InServiceReachable'
    BY <1>2, Zenon DEF IInv, TypeOK, NetworkOK, InServiceReachable, group
  <2> QED
    BY <1>1, <1>2, <2>1, RaiseOK
<1>3. CASE /\ eni[got[w]] = "available"
           /\ eni' = [eni EXCEPT ![got[w]] = "none"]
           /\ tag' = [tag EXCEPT ![got[w]] = None]
           /\ Done(w)
  <2>1. NetworkOK'
    BY <1>1, <1>3, Zenon DEF IInv, TypeOK, NetworkOK
  <2>2. InServiceReachable'
    BY <1>1, <1>3, StaticIpAssumption, ReachableKept, Zenon DEF IInv, TypeOK, group
  <2>3. EventsInv' /\ events' \subseteq Events /\ UNCHANGED <<inst, cause>>
    BY Zenon DEF IInv, TypeOK, EventsInv, Known, group
  <2> QED
    BY <1>1, <1>3, <2>1, <2>2, <2>3, DoneOK, Zenon DEF IInv, TypeOK
<1> QED
  BY <1>2, <1>3

-----------------------------------------------------------------------------
(* The events of the group, and the life of an execution. *)

\* An instance goes on and the network stays: the handler of its event, if there
\* is one, still knows what it knew.
LEMMA AdvanceOK ==
  ASSUME IInv, NEW i \in Instances, NEW s,
         inst' = [inst EXCEPT ![i] = s], s # "none", inst[i] # "terminated",
         inst[i] \in {"terminating", "shutting"} => s \in {"shutting", "terminated"},
         s \notin {"pending", "inservice"} \/ inst[i] = "none",
         s \in {"none", "pending", "terminating", "shutting", "terminated"},
         cause' \in [Instances -> {"shrinking the capacity", "other"}],
         \A j \in Instances : inst[j] = "terminated" => cause'[j] = cause[j],
         UNCHANGED <<network, lambda>>,
         events' \subseteq Events, \A ev \in events' : ev \in events \/ Known(ev)'
  PROVE  IInv'
<1> USE DEF network, lambda
<1>1. TypeOK'
  BY Zenon DEF IInv, TypeOK
<1>2. OneExecution'
  BY Zenon DEF IInv, OneExecution
<1>3. EventsInv'
  BY KnownKept, Zenon DEF IInv, EventsInv, TypeOK
<1>4. ASSUME NEW w \in Workers, lpc[w] # "idle"
      PROVE  HandlerOK(w)' /\ EniOK(w)'
  <2>1. \A f \in Events : Known(f) => Known(f)'
    BY KnownKept, Zenon
  <2>2. /\ HandlerOK(w) /\ EniOK(w) /\ Id(w) \in Instances
        /\ UNCHANGED <<lpc, got, event, at, tag, dns>> /\ Id(w)' = Id(w)
    BY <1>4, Busy, Zenon DEF Id
  <2>3. HandlerOK(w)'
    <3>1. Known(event[w]) /\ event[w] \in Events
      BY <2>2, Zenon DEF HandlerOK
    <3>2. event[w].kind = "terminated" => cause'[Id(w)] = cause[Id(w)]
      BY <2>2, <3>1, Zenon DEF Known, Id
    <3> QED
      BY <2>1, <2>2, <3>1, <3>2, Zenon DEF HandlerOK
  <2>4. EniOK(w)'
    <3>1. inst[Id(w)] # "none"
      BY <2>2, Zenon DEF HandlerOK, Known, Id
    <3>2. /\ inst'[Id(w)] # "terminated" => inst[Id(w)] # "terminated"
          /\ inst'[Id(w)] = "pending" => inst[Id(w)] = "pending"
      BY <2>2, <3>1, Zenon DEF IInv, TypeOK
    <3>3. Reachable(Id(w))' <=> Reachable(Id(w))
      BY <2>2, Zenon DEF Reachable
    <3> QED
      BY <2>2, <3>2, <3>3, Zenon DEF EniOK
  <2> QED
    BY <2>3, <2>4, Zenon
<1>5. WorkersInv'
  BY <1>4, Zenon DEF WorkersInv
<1>6. InServiceReachable'
  BY Zenon DEF IInv, TypeOK, InServiceReachable
<1> QED
  BY <1>1, <1>2, <1>3, <1>5, <1>6, Zenon DEF IInv

\* The group launches an instance and tells the function.
LEMMA LaunchOK ==
  ASSUME IInv, NEW i \in Instances, Launch(i)
  PROVE  IInv'
<1> DEFINE ev == [kind |-> "launching", id |-> i]
<1>1. inst[i] = "none" /\ inst' = [inst EXCEPT ![i] = "pending"] /\ inst'[i] = "pending"
  BY Zenon DEF Launch, IInv, TypeOK
<1>2. ev \in Events /\ Known(ev)'
  BY <1>1 DEF Known, Events, Kinds
<1>3. events' \subseteq Events /\ \A f \in events' : f \in events \/ Known(f)'
  BY <1>2, Zenon DEF Launch, Emit, IInv, TypeOK
<1>4. cause' = cause /\ UNCHANGED <<network, lambda>>
  BY DEF Launch
<1> QED
  BY <1>1, <1>3, <1>4, AdvanceOK, Zenon DEF IInv, TypeOK

\* The group takes an instance out of service and tells the function; the cause
\* of an instance that is terminated stays as it is.
LEMMA TerminateOK ==
  ASSUME IInv, NEW i \in Instances, NEW why \in {"shrinking the capacity", "other"},
         Terminate(i, why)
  PROVE  IInv'
<1> DEFINE ev == [kind |-> "terminating", id |-> i]
<1>1. inst[i] = "inservice" /\ inst' = [inst EXCEPT ![i] = "terminating"]
        /\ inst'[i] = "terminating"
  BY Zenon DEF Terminate, IInv, TypeOK
<1>2. ev \in Events /\ Known(ev)'
  BY <1>1, Zenon DEF Known, Events, Kinds
<1>3. events' \subseteq Events /\ \A f \in events' : f \in events \/ Known(f)'
  BY <1>2, Zenon DEF Terminate, Emit, IInv, TypeOK
<1>4. /\ cause' \in [Instances -> {"shrinking the capacity", "other"}]
      /\ \A j \in Instances : inst[j] = "terminated" => cause'[j] = cause[j]
  BY <1>1, Zenon DEF Terminate, IInv, TypeOK
<1>5. UNCHANGED <<network, lambda>>
  BY Zenon DEF Terminate
<1> QED
  BY <1>1, <1>3, <1>4, <1>5, AdvanceOK, Zenon

\* What the end of a lifecycle action does to its instance.
LEMMA HookEnds ==
  ASSUME NEW i, NEW result, AfterHook(i, result)
  PROVE  \E s \in {"inservice", "terminating", "shutting"} :
           /\ inst' = [inst EXCEPT ![i] = s]
           /\ inst[i] = "pending" \/ (inst[i] = "terminating" /\ s = "shutting")
           /\ s = "inservice" => inst[i] = "pending" /\ result = "CONTINUE"
           /\ s # "inservice" => inst[i] = "terminating" \/ result = "ABANDON"
           /\ UNCHANGED events \/ (s = "terminating" /\ Emit("terminating", i))
<1> DEFINE P(s) ==
      /\ inst' = [inst EXCEPT ![i] = s]
      /\ inst[i] = "pending" \/ (inst[i] = "terminating" /\ s = "shutting")
      /\ s = "inservice" => inst[i] = "pending" /\ result = "CONTINUE"
      /\ s # "inservice" => inst[i] = "terminating" \/ result = "ABANDON"
      /\ UNCHANGED events \/ (s = "terminating" /\ Emit("terminating", i))
<1>1. P("inservice") \/ P("terminating") \/ P("shutting")
  BY DEF AfterHook
<1> QED
  BY <1>1

\* The timeout of either hook: the instance is not in service after it.
LEMMA HookTimeoutOK ==
  ASSUME IInv, NEW i \in Instances, HookTimeout(i)
  PROVE  IInv'
<1> DEFINE ev == [kind |-> "terminating", id |-> i]
<1>1. PICK s \in {"inservice", "terminating", "shutting"} :
        /\ inst' = [inst EXCEPT ![i] = s]
        /\ inst[i] = "pending" \/ (inst[i] = "terminating" /\ s = "shutting")
        /\ s # "inservice"
        /\ UNCHANGED events \/ (s = "terminating" /\ Emit("terminating", i))
  BY HookEnds DEF HookTimeout
<1>2. inst'[i] = s
  BY <1>1, Zenon DEF IInv, TypeOK
<1>3. s = "terminating" => ev \in Events /\ Known(ev)'
  BY <1>2 DEF Known, Events, Kinds
<1>4. events' \subseteq Events /\ \A f \in events' : f \in events \/ Known(f)'
  BY <1>1, <1>3, Zenon DEF Emit, IInv, TypeOK
<1>5. cause' = cause /\ UNCHANGED <<network, lambda>>
  BY DEF HookTimeout
<1> QED
  BY <1>1, <1>4, <1>5, AdvanceOK, Zenon DEF IInv, TypeOK

\* EC2 releases the ENIs of the instance; the handler of its launch may be between
\* attach and upsert.
LEMMA TerminatedOK ==
  ASSUME IInv, NEW i \in Instances, Terminated(i)
  PROVE  IInv'
<1> DEFINE ev == [kind |-> "terminated", id |-> i]
<1>1. inst[i] = "shutting" /\ inst' = [inst EXCEPT ![i] = "terminated"]
        /\ inst'[i] = "terminated"
  BY Zenon DEF Terminated, IInv, TypeOK
<1>2. ev \in Events /\ Known(ev)'
  BY <1>1 DEF Known, Events, Kinds
<1>3. NetworkOK'
  BY StaticIpAssumption, Zenon DEF Terminated, IInv, TypeOK, NetworkOK
<1>4. TypeOK'
  <2>1. events' \subseteq Events
    BY <1>2, Zenon DEF Terminated, Emit, IInv, TypeOK
  <2>2. UNCHANGED <<cause, lpc, event, got>>
    BY DEF Terminated, lambda
  <2> QED
    BY <1>1, <1>3, <2>1, <2>2, Zenon DEF IInv, TypeOK, NetworkOK
<1>5. OneExecution'
  BY DEF Terminated, IInv, OneExecution, lambda
<1>6. EventsInv'
  BY <1>1, <1>2, KnownKept, Zenon DEF Terminated, Emit, IInv, TypeOK, EventsInv
<1>7. ASSUME NEW w \in Workers, lpc[w] # "idle"
      PROVE  HandlerOK(w)' /\ EniOK(w)'
  <2>1. UNCHANGED <<lpc, got, event, cause, tag, dns>> /\ Id(w)' = Id(w)
    BY DEF Terminated, lambda, Id
  <2>2. \A f \in Events : Known(f) => Known(f)'
    BY <1>1, KnownKept, Zenon
  <2>3. HandlerOK(w)'
    BY <1>7, <2>1, <2>2, Busy, Zenon DEF HandlerOK
  <2>4. \A e \in Enis : at'[e] = IF at[e] = i THEN None ELSE at[e]
    BY DEF Terminated
  <2>5. \A j \in Instances \ {i} : inst'[j] = inst[j]
    BY <1>1, Zenon DEF IInv, TypeOK
  <2>6. \A j \in Instances \ {i} : Reachable(j) => Reachable(j)'
    BY <2>1, <2>4, Zenon DEF Reachable
  <2>7. EniOK(w) /\ Id(w) \in Instances
    BY <1>7, Busy
  <2>8. EniOK(w)'
    <3>1. CASE Id(w) = i
      BY <1>1, <2>1, <2>4, <2>7, <3>1 DEF EniOK
    <3>2. CASE Id(w) # i
      BY <1>1, <2>1, <2>4, <2>5, <2>6, <2>7, <3>2 DEF EniOK
    <3> QED
      BY <3>1, <3>2
  <2> QED
    BY <2>3, <2>8
<1>8. WorkersInv'
  BY <1>7 DEF WorkersInv, Terminated, lambda
<1>9. InServiceReachable'
  <2>1. \A j \in Instances : inst'[j] = "inservice" => inst[j] = "inservice" /\ j # i
    BY <1>1, Zenon DEF IInv, TypeOK
  <2>2. \A e \in Enis : at[e] # i => at'[e] = at[e]
    BY DEF Terminated
  <2>3. UNCHANGED <<tag, dns>> /\ InServiceReachable
    BY DEF Terminated, IInv
  <2> QED
    BY <2>1, <2>2, <2>3 DEF InServiceReachable
<1> QED
  BY <1>4, <1>5, <1>6, <1>8, <1>9 DEF IInv

\* EC2 completes a detachment.
LEMMA DetachedOK ==
  ASSUME IInv, NEW e \in Enis, Detached(e)
  PROVE  IInv'
<1> USE DEF Detached, group, lambda
<1>1. TypeOK'
  BY Zenon DEF IInv, TypeOK
<1>2. OneExecution' /\ EventsInv' /\ InServiceReachable'
  BY DEF IInv, OneExecution, EventsInv, Known, InServiceReachable
<1>3. \A w \in Workers : (HandlerOK(w) => HandlerOK(w)') /\ (EniOK(w) => EniOK(w)')
  <2>1. \A w \in Workers : HandlerOK(w) => HandlerOK(w)'
    BY Zenon DEF HandlerOK, Known, Id
  <2>2. \A w \in Workers : EniOK(w) => EniOK(w)'
    BY Zenon DEF EniOK, Reachable, Id
  <2> QED
    BY <2>1, <2>2
<1>4. WorkersInv'
  BY <1>3 DEF IInv, WorkersInv
<1> QED
  BY <1>1, <1>2, <1>4 DEF IInv

\* reserved_concurrent_executions = 1: an execution starts when there is no other.
LEMMA InvokeOK ==
  ASSUME IInv, NEW w \in Workers, NEW ev \in events, Invoke(w, ev)
  PROVE  IInv'
<1> DEFINE l == First(ev.kind, cause[ev.id])
<1>1. ev \in Events /\ ev.kind \in Kinds /\ Known(ev)
  BY Zenon DEF IInv, TypeOK, EventsInv, Events
<1>2. /\ l \in {"find", "describe", "get", "idle"}
      /\ l = "find" => ev.kind = "launching"
      /\ l = "describe" => ev.kind = "terminating"
      /\ l = "get" => ev.kind = "terminated" /\ cause[ev.id] = "shrinking the capacity"
  BY <1>1, Zenon DEF First, DetermineReason, Kinds
<1> HIDE DEF l
<1>3. /\ lpc' = [lpc EXCEPT ![w] = l] /\ UNCHANGED <<group, network, got>>
      /\ event' = [event EXCEPT ![w] = IF lpc'[w] = "idle" THEN None ELSE ev]
  BY DEF Invoke, l
<1>4. lpc'[w] = l /\ \A v \in Workers \ {w} : lpc'[v] = "idle"
  <2>1. \A v \in Workers : lpc[v] = "idle"
    BY Zenon DEF Invoke, MayStart
  <2> QED
    BY <1>3, <2>1, Zenon DEF IInv, TypeOK
<1>5. l # "idle" => event'[w] = ev
  BY <1>3, <1>4, Zenon DEF IInv, TypeOK
<1>6. TypeOK'
  <2>1. lpc' \in [Workers -> LambdaLabels]
    BY <1>2, <1>3, Zenon DEF IInv, TypeOK, LambdaLabels
  <2>2. event' \in [Workers -> Events \cup {None}]
    BY <1>1, <1>3, Zenon DEF IInv, TypeOK
  <2>3. events' \subseteq Events
    BY Zenon DEF Invoke, IInv, TypeOK
  <2> QED
    BY <1>3, <2>1, <2>2, <2>3, Zenon DEF IInv, TypeOK, group, network
<1>7. OneExecution'
  BY <1>4 DEF OneExecution
<1>8. EventsInv' /\ InServiceReachable'
  BY <1>3 DEF Invoke, IInv, EventsInv, Known, InServiceReachable, group, network
<1>9. l # "idle" => HandlerOK(w)'
  BY <1>1, <1>2, <1>3, <1>4, <1>5, Zenon DEF HandlerOK, Known, Id, Launching,
     Terminating, group
<1>10. l # "idle" => EniOK(w)'
  BY <1>2, <1>4, Zenon DEF EniOK
<1>11. WorkersInv'
  BY <1>4, <1>9, <1>10 DEF WorkersInv
<1> QED
  BY <1>6, <1>7, <1>8, <1>11 DEF IInv

\* A call of a handler fails.
LEMMA ApiErrorOK ==
  ASSUME IInv, NEW w \in Workers, ApiError(w)
  PROVE  IInv'
<1>1. NetworkOK' /\ InServiceReachable'
  BY Zenon DEF ApiError, IInv, TypeOK, NetworkOK, InServiceReachable, group, network
<1> QED
  BY <1>1, RaiseOK DEF ApiError

\* The function times out, whatever it was doing; its event comes again.
LEMMA FunctionTimeoutOK ==
  ASSUME IInv, NEW w \in Workers, FunctionTimeout(w)
  PROVE  IInv'
<1> USE DEF FunctionTimeout, group, network
<1>1. NetworkOK' /\ InServiceReachable'
  BY Zenon DEF IInv, TypeOK, NetworkOK, InServiceReachable
<1>2. events' \subseteq Events
  BY Busy, Zenon DEF HandlerOK, IInv, TypeOK
<1>3. EventsInv'
  BY Busy, Zenon DEF HandlerOK, IInv, EventsInv, Known
<1> QED
  BY <1>1, <1>2, <1>3, DoneOK, Zenon DEF IInv, TypeOK

\* complete_lifecycle_action: an instance goes into service only by the handler
\* of its launch, which has reached its end, and then it is reachable.
LEMMA CompleteLifecycleActionOK ==
  ASSUME IInv, NEW w \in Workers, CompleteLifecycleAction(w)
  PROVE  IInv'
<1>0. PICK i \in Instances : i = Id(w)
  BY Busy DEF CompleteLifecycleAction
<1> DEFINE ev == [kind |-> "terminating", id |-> i]
<1>1. /\ lpc[w] \in {"complete", "abandon"}
      /\ UNCHANGED <<cause, network>>
      /\ \/ Raise(w) /\ UNCHANGED <<inst, events>>
         \/ /\ HookWaits(event[w]) /\ Done(w)
            /\ AfterHook(i, IF lpc[w] = "complete" THEN "CONTINUE" ELSE "ABANDON")
  BY <1>0 DEF CompleteLifecycleAction
<1>2. NetworkOK'
  BY <1>1, Zenon DEF IInv, TypeOK, NetworkOK, network
<1>3. CASE Raise(w) /\ UNCHANGED <<inst, events>>
  <2>1. InServiceReachable'
    BY <1>1, <1>3 DEF IInv, InServiceReachable, network
  <2> QED
    BY <1>1, <1>2, <1>3, <2>1, RaiseOK, Zenon DEF group
<1>4. CASE HookWaits(event[w]) /\ Done(w)
             /\ AfterHook(i, IF lpc[w] = "complete" THEN "CONTINUE" ELSE "ABANDON")
  <2>1. PICK s \in {"inservice", "terminating", "shutting"} :
          /\ inst' = [inst EXCEPT ![i] = s]
          /\ inst[i] = "pending" \/ (inst[i] = "terminating" /\ s = "shutting")
          /\ s = "inservice" => lpc[w] = "complete" /\ inst[i] = "pending"
          /\ UNCHANGED events \/ (s = "terminating" /\ Emit("terminating", i))
    BY <1>4, HookEnds
  <2>2. inst'[i] = s
    BY <2>1, Zenon DEF IInv, TypeOK
  <2>3. s = "terminating" => ev \in Events /\ Known(ev)'
    BY <2>2 DEF Known, Events, Kinds
  <2>4. events' \subseteq Events /\ \A f \in events' : f \in events \/ Known(f)'
    BY <2>1, <2>3, Zenon DEF Emit, IInv, TypeOK
  <2>5. EventsInv'
    BY <2>1, <2>4, KnownKept, Zenon DEF EventsInv, IInv, TypeOK
  <2>6. s = "inservice" => Reachable(i)
    <3>1. HookWaits(event[w]) /\ event[w].kind \in Kinds
      BY <1>1, <1>4, Busy
    <3>2. inst[i] = "pending" => event[w].kind = "launching"
      BY <1>0, <3>1 DEF HookWaits, Id
    <3> QED
      BY <1>0, <1>1, <2>1, <3>2, Busy DEF EniOK
  <2>7. InServiceReachable'
    <3>1. \A j \in Instances : inst'[j] = "inservice" => Reachable(j)
      BY <2>1, <2>2, <2>6, Zenon DEF InServiceReachable, Reachable, IInv, TypeOK
    <3> QED
      BY <1>1, <3>1 DEF InServiceReachable, Reachable, network
  <2>8. inst' \in [Instances -> {"none", "pending", "inservice", "terminating",
                                 "shutting", "terminated"}]
    BY <2>1, Zenon DEF IInv, TypeOK
  <2> QED
    BY <1>1, <1>2, <1>4, <2>4, <2>5, <2>7, <2>8, DoneOK
<1> QED
  BY <1>1, <1>3, <1>4

-----------------------------------------------------------------------------
(* The theorems, whatever fails. *)

\* Before the first launch there is nothing.
LEMMA InitOK == Init => IInv
<1> SUFFICES ASSUME Init PROVE IInv
  OBVIOUS
<1>1. TypeOK
  BY DEF Init, TypeOK, LambdaLabels
<1>2. OneExecution /\ EventsInv /\ WorkersInv /\ InServiceReachable
  BY DEF Init, OneExecution, EventsInv, WorkersInv, InServiceReachable
<1> QED
  BY <1>1, <1>2 DEF IInv

\* Every step of a handler keeps the invariant.
LEMMA HandleOK ==
  ASSUME IInv, NEW w \in Workers, Handle(w)
  PROVE  IInv'
BY FindEniOK, CreateEniOK, AttachEniOK, ModifyAttachmentOK, CreateTagsOK, UpsertOK,
   DescribeInstanceOK, DetachEniOK, WaitForEniAvailableOK, DeleteRecordOK, GetEniOK,
   DeleteEniOK, CompleteLifecycleActionOK DEF Handle

\* Every step keeps the invariant, whatever fails.
LEMMA NextOK == IInv /\ [Next]_vars => IInv'
<1> SUFFICES ASSUME IInv, [Next]_vars PROVE IInv'
  OBVIOUS
<1>1. CASE Group
  BY <1>1, LaunchOK, HookTimeoutOK, TerminatedOK, TerminateOK, DetachedOK, Zenon DEF
     Group
<1>2. CASE Lambda
  BY <1>2, InvokeOK, HandleOK, ApiErrorOK, FunctionTimeoutOK DEF Lambda
<1>3. CASE UNCHANGED vars
  <2> USE <1>3 DEF vars, group, network, lambda, IInv
  <2>1. TypeOK'
    BY Zenon DEF TypeOK
  <2>2. OneExecution' /\ EventsInv' /\ InServiceReachable'
    BY DEF OneExecution, EventsInv, Known, InServiceReachable
  <2>3. WorkersInv'
    BY Zenon DEF WorkersInv, HandlerOK, Known, EniOK, Reachable, Id
  <2> QED
    BY <2>1, <2>2, <2>3
<1> QED
  BY <1>1, <1>2, <1>3 DEF Next

\* The inductive invariant of the function: one execution at a time, events
\* that are true, and handlers that know what they rely on.
THEOREM StaticIpInvariance == Spec => []IInv
BY InitOK, NextOK, PTL DEF Spec

\* Every state is well typed, and an ENI is in use exactly when it is attached
\* (describe_network_interfaces is filtered by that status).
THEOREM StaticIpTyped == Spec => []TypeOK
<1>1. IInv => TypeOK
  BY DEF IInv
<1> QED
  BY <1>1, StaticIpInvariance, PTL

\* An instance in service has its ENI, tagged with it and with its A record,
\* although each call of lambda_handler may fail, the function and the hooks
\* may time out, and events come twice and in any order.
THEOREM InServiceIsReachable == Spec => []InServiceReachable
<1>1. IInv => InServiceReachable
  BY DEF IInv
<1> QED
  BY <1>1, StaticIpInvariance, PTL

\* "This py script ensures that the secondary private IP address is maintained
\* (static) across instance replacements": whatever fails and however late it is,
\* the function deletes no ENI but one last given to an instance that a scale-in
\* has terminated.  DeleteEni is the only step that can: the tag it found with
\* get_eni is still there, as no other execution runs.
THEOREM AddressesAreKept == Spec => AddressesKept
<1> DEFINE Gone(e) ==
      /\ tag[e] # None /\ inst[tag[e]] = "terminated"
      /\ cause[tag[e]] = "shrinking the capacity"
<1>1. ASSUME IInv, Next, NEW e \in Enis, eni[e] # "none", eni'[e] = "none"
      PROVE  Gone(e)
  <2>1. PICK w \in Workers : DeleteEni(w)
    <3>1. ~Group
      <4>1. \A i \in Instances : ~Terminated(i)
        BY <1>1 DEF Terminated
      <4>2. \A f \in Enis : ~Detached(f)
        BY <1>1, Zenon DEF Detached, IInv, TypeOK
      <4> QED
        BY <1>1, <4>1, <4>2, Zenon DEF Group, Launch, HookTimeout, Terminate, network
    <3>2. PICK w \in Workers :
            (\E ev \in events : Invoke(w, ev)) \/ Handle(w) \/ ApiError(w)
              \/ FunctionTimeout(w)
      BY <1>1, <3>1 DEF Next, Lambda
    <3>3. Handle(w)
      BY <1>1, <3>2 DEF Invoke, ApiError, FunctionTimeout, network
    <3>4. ~CreateEni(w) /\ ~AttachEni(w) /\ ~DetachEni(w)
      <4>1. eni \in [Enis -> {"none", "available", "in-use", "detaching"}]
        BY <1>1, Zenon DEF IInv, TypeOK
      <4>2. ~CreateEni(w)
        BY <1>1, <4>1 DEF CreateEni
      <4>3. ~AttachEni(w)
        BY <1>1, <4>1 DEF AttachEni
      <4>4. ~DetachEni(w)
        BY <1>1, <4>1 DEF DetachEni
      <4> QED
        BY <4>2, <4>3, <4>4
    <3> QED
      BY <1>1, <3>3, <3>4 DEF Handle, FindEni, ModifyAttachment, CreateTags, Upsert,
         DescribeInstance, WaitForEniAvailable, DeleteRecord, GetEni,
         CompleteLifecycleAction, network
  <2>2. lpc[w] = "free" /\ got[w] = e
    <3>1. eni \in [Enis -> {"none", "available", "in-use", "detaching"}]
      BY <1>1, Zenon DEF IInv, TypeOK
    <3> QED
      BY <1>1, <2>1, <3>1 DEF DeleteEni
  <2>3. Id(w) \in Instances /\ tag[e] = Id(w) /\ cause[Id(w)] = "shrinking the capacity"
    BY <1>1, <2>2, Busy, Zenon DEF EniOK, HandlerOK
  <2>4. inst[Id(w)] = "terminated"
    BY <1>1, <2>2, Busy, Zenon DEF HandlerOK, Known, Id
  <2> QED
    BY <2>3, <2>4, StaticIpAssumption, Zenon
<1>2. ASSUME IInv, [Next]_vars
      PROVE  [\A e \in Enis : eni[e] # "none" /\ eni'[e] = "none" => Gone(e)]_vars
  BY <1>1, <1>2, Zenon
<1> QED
  BY <1>2, StaticIpInvariance, PTL DEF Spec, AddressesKept


-----------------------------------------------------------------------------
(* As long as no call fails and nothing is late. *)

\* An instance that has no ENI.
Bare(i) == \A e \in Enis : at[e] # i

\* The handler of execution w is between the attachment of ENI e and its record, or
\* between its detachment and the removal of its record.
Attaching(w, e) == lpc[w] \in {"modify", "tags", "upsert"} /\ got[w] = e
Removing(w, e) == lpc[w] \in {"poll", "delete"} /\ got[w] = e

\* The handler of execution w has given instance i its ENI.
Equipping(w, i) ==
  /\ lpc[w] \in {"modify", "tags", "upsert", "complete"}
  /\ event[w].kind = "launching" /\ Id(w) = i

\* While nothing fails, a record is out of step with the attachment of its ENI
\* only in the middle of a handler.
RecordInv ==
  \A e \in Enis :
    /\ at[e] # None /\ e \notin dns => \E w \in Workers : Attaching(w, e)
    /\ at[e] = None /\ e \in dns => \E w \in Workers : Removing(w, e)

\* While nothing fails, an instance has no ENI before its launch is handled, one
\* at most afterwards, and none once its hook has let it go.
BareInv ==
  /\ \A e, f \in Enis : at[e] = at[f] /\ at[e] # None => e = f
  /\ \A i \in Instances :
       /\ inst[i] \in {"none", "shutting", "terminated"} => Bare(i)
       /\ inst[i] = "pending" /\ ~Bare(i) => \E w \in Workers : Equipping(w, i)

\* While nothing fails, a handler finds the ENI and the record it works on, and a
\* termination is not abandoned.
FoundOK(w) ==
  /\ lpc[w] = "abandon" /\ event[w].kind = "terminating" =>
       inst[Id(w)] \in {"shutting", "terminated"}
  /\ lpc[w] \in {"modify", "tags", "upsert", "detach"} => at[got[w]] = Id(w)
  /\ lpc[w] \in {"poll", "delete"} => got[w] \in dns
  /\ lpc[w] \in {"poll", "delete", "complete"} /\ event[w].kind = "terminating" =>
       Bare(Id(w))

FoundInv == \A w \in Workers : lpc[w] # "idle" => FoundOK(w)

FInv == IInv /\ RecordInv /\ BareInv /\ FoundInv

\* RecordInv and BareInv when w is the only execution that may be under way.
Local(w) ==
  /\ \A e \in Enis :
       /\ at[e] # None /\ e \notin dns => Attaching(w, e)
       /\ at[e] = None /\ e \in dns => Removing(w, e)
  /\ \A e, f \in Enis : at[e] = at[f] /\ at[e] # None => e = f
  /\ \A i \in Instances :
       /\ inst[i] \in {"none", "shutting", "terminated"} => Bare(i)
       /\ inst[i] = "pending" /\ ~Bare(i) => Equipping(w, i)

-----------------------------------------------------------------------------
(* While nothing fails: events may still come twice and in any order. *)

\* With one execution under way, what some execution must be doing is what this
\* one does.
LEMMA ToLocal ==
  ASSUME FInv, NEW w \in Workers, \A v \in Workers \ {w} : lpc[v] = "idle"
  PROVE  Local(w)
<1>1. \A v \in Workers, e \in Enis :
        (Attaching(v, e) => v = w) /\ (Removing(v, e) => v = w)
  BY DEF Attaching, Removing
<1>2. \A v \in Workers, i \in Instances : Equipping(v, i) => v = w
  BY DEF Equipping
<1> QED
  BY <1>1, <1>2 DEF FInv, RecordInv, BareInv, Local

\* And back: what this execution does is what some execution does.
LEMMA FromLocal ==
  ASSUME IInv', NEW w \in Workers, \A v \in Workers \ {w} : lpc'[v] = "idle",
         Local(w)', lpc'[w] # "idle" => FoundOK(w)'
  PROVE  FInv'
<1>1. RecordInv' /\ BareInv'
  BY DEF RecordInv, BareInv, Local
<1>2. FoundInv'
  BY DEF FoundInv
<1> QED
  BY <1>1, <1>2 DEF FInv

\* A handler goes on at another label.
LEMMA GotoF ==
  ASSUME FInv, IInv', NEW w \in Workers, lpc[w] # "idle", NEW l, NEW g, Goto(w, l, g),
         Local(w)', FoundOK(w)'
  PROVE  FInv'
<1>1. \A v \in Workers \ {w} : lpc'[v] = "idle"
  <2>1. \A v \in Workers \ {w} : lpc[v] = "idle"
    BY Busy DEF FInv
  <2>2. lpc' = [lpc EXCEPT ![w] = l] /\ DOMAIN lpc = Workers
    BY DEF FInv, IInv, TypeOK, Goto
  <2> QED BY <2>1, <2>2
<1> QED
  BY <1>1, FromLocal

\* Where a handler holds no ENI, every record is that of an attached ENI.
Settled ==
  /\ \A e \in Enis : at[e] # None <=> e \in dns
  /\ \A e, f \in Enis : at[e] = at[f] /\ at[e] # None => e = f
  /\ \A i \in Instances :
       /\ inst[i] \in {"none", "shutting", "terminated"} => Bare(i)
       /\ inst[i] = "pending" => Bare(i)

\* A handler that holds no ENI, and has none to put into service, leaves
\* nothing unfinished behind.
LEMMA SettledNow ==
  ASSUME FInv, NEW w \in Workers, lpc[w] # "idle",
         lpc[w] \notin {"modify", "tags", "upsert", "poll", "delete"},
         lpc[w] = "complete" /\ event[w].kind = "launching" => inst[Id(w)] # "pending"
  PROVE  Settled
<1>1. Local(w)
  BY Busy, ToLocal DEF FInv
<1>2. \A e \in Enis : ~Attaching(w, e) /\ ~Removing(w, e)
  BY DEF Attaching, Removing
<1>3. \A i \in Instances : inst[i] = "pending" => ~Equipping(w, i)
  BY DEF Equipping
<1> QED
  BY <1>1, <1>2, <1>3 DEF Local, Settled

\* When nothing is unfinished, it does not matter where the execution is.
LEMMA SettledLocal ==
  ASSUME Settled', NEW w \in Workers
  PROVE  Local(w)'
BY DEF Settled, Local

\* Nothing becomes unfinished while attachments, records and instances stay as
\* they are.
LEMMA SettledKept ==
  ASSUME Settled, UNCHANGED <<inst, at, dns>>
  PROVE  Settled'
BY DEF Settled, Bare

\* A handler returns.
LEMMA DoneF ==
  ASSUME FInv, IInv', NEW w \in Workers, lpc[w] # "idle", Done(w), Settled'
  PROVE  FInv'
<1>1. \A v \in Workers : lpc'[v] = "idle"
  BY Busy, Zenon DEF FInv, IInv, TypeOK, Done
<1> QED
  BY <1>1, SettledLocal, FromLocal

\* A handler raises an exception where it holds no ENI.
LEMMA RaiseF ==
  ASSUME FInv, IInv', NEW w \in Workers, lpc[w] # "idle", Raise(w), Settled',
         UNCHANGED group,
         event[w].kind = "terminating" => inst[Id(w)] \in {"shutting", "terminated"}
  PROVE  FInv'
<1>1. CASE Done(w)
  BY <1>1, DoneF
<1>2. CASE Goto(w, "abandon", None)
  <2>1. lpc'[w] = "abandon" /\ event' = event
    BY <1>2, Moved DEF FInv
  <2>2. FoundOK(w)'
    BY <2>1 DEF FoundOK, Id, group
  <2> QED
    BY <1>2, <2>2, SettledLocal, GotoF
<1> QED
  BY <1>1, <1>2 DEF Raise

\* The first calls of instance_launching: an instance whose launch is abandoned
\* here has no ENI.
LEMMA LaunchHandlerF ==
  ASSUME FInv, NEW w \in Workers, FindEni(w) \/ CreateEni(w)
  PROVE  FInv'
<1>1. IInv'
  BY FindEniOK, CreateEniOK DEF FInv
<1>2. /\ lpc[w] \in {"find", "create"}
      /\ UNCHANGED <<group, at, dns>>
      /\ Raise(w) \/ \E l \in {"create", "attach"}, e \in Enis \cup {None} : Goto(w, l, e)
  BY DEF FindEni, CreateEni, network, Available
<1>3. Settled'
  BY <1>2, SettledNow, SettledKept DEF group
<1>4. CASE Raise(w)
  <2>1. event[w].kind = "launching"
    BY <1>2, Busy, Zenon DEF HandlerOK, Launching, FInv
  <2> QED
    BY <1>1, <1>2, <1>3, <1>4, <2>1, RaiseF
<1>5. ASSUME NEW l \in {"create", "attach"}, NEW e \in Enis \cup {None}, Goto(w, l, e)
      PROVE  FInv'
  <2>1. FoundOK(w)'
    BY <1>5, Moved DEF FoundOK, FInv
  <2> QED
    BY <1>1, <1>2, <1>3, <1>5, <2>1, SettledLocal, GotoF
<1> QED
  BY <1>2, <1>4, <1>5

\* attach_network_interface: it is the first ENI of the instance, and its A record is yet to
\* come.
LEMMA AttachEniF ==
  ASSUME FInv, NEW w \in Workers, AttachEni(w)
  PROVE  FInv'
<1>1. IInv' /\ lpc[w] = "attach"
  BY AttachEniOK DEF FInv, AttachEni
<1>2. Settled /\ UNCHANGED <<group, dns>>
  BY <1>1, SettledNow DEF AttachEni
<1>3. event[w].kind = "launching" /\ Id(w) \in Instances /\ got[w] \in Enis
  BY <1>1, Busy, Zenon DEF HandlerOK, EniOK, Launching, FInv
<1>4. CASE Raise(w) /\ UNCHANGED <<eni, at>>
  <2>1. Settled'
    BY <1>2, <1>4, SettledKept DEF group
  <2> QED
    BY <1>1, <1>2, <1>3, <1>4, <2>1, RaiseF
<1>5. CASE /\ eni[got[w]] = "available"
           /\ inst[Id(w)] \in {"pending", "inservice", "terminating"}
           /\ \A e \in Enis : at[e] # Id(w)
           /\ at' = [at EXCEPT ![got[w]] = Id(w)]
           /\ Goto(w, "modify", got[w])
  <2>1. lpc'[w] = "modify" /\ got'[w] = got[w] /\ event' = event /\ Id(w)' = Id(w)
    BY <1>5, Moved DEF FInv, Id
  <2>2. \A e \in Enis : at'[e] = IF e = got[w] THEN Id(w) ELSE at[e]
    BY <1>5, Zenon DEF FInv, IInv, TypeOK
  <2>3. at[got[w]] = None
    BY <1>3, <1>5, Zenon DEF FInv, IInv, TypeOK
  <2>4. \A e \in Enis : at'[e] # None /\ e \notin dns' => Attaching(w, e)'
    BY <1>2, <2>1, <2>2 DEF Settled, Attaching
  <2>5. \A e \in Enis : at'[e] = None => e \notin dns'
    BY <1>2, <1>3, <2>2, StaticIpAssumption DEF Settled
  <2>6. \A e, f \in Enis : at'[e] = at'[f] /\ at'[e] # None => e = f
    BY <1>2, <1>5, <2>2 DEF Settled
  <2>7. \A i \in Instances \ {Id(w)} : Bare(i) => Bare(i)'
    BY <2>2 DEF Bare
  <2>8. \A i \in Instances :
          /\ inst'[i] \in {"none", "shutting", "terminated"} => Bare(i)'
          /\ inst'[i] = "pending" => Bare(i)' \/ i = Id(w)
    BY <1>2, <1>5, <2>7 DEF Settled, group
  <2>9. Local(w)'
    BY <1>3, <2>1, <2>4, <2>5, <2>6, <2>8 DEF Local, Equipping
  <2>10. FoundOK(w)'
    BY <1>3, <2>1, <2>2 DEF FoundOK
  <2> QED
    BY <1>1, <1>5, <2>9, <2>10, GotoF
<1> QED
  BY <1>4, <1>5 DEF AttachEni

\* The ENI is still attached when its attachment is modified and when it is
\* tagged, as no hook lets its instance go meanwhile.
LEMMA ModifyAttachmentF ==
  ASSUME FInv, NEW w \in Workers, ModifyAttachment(w) \/ CreateTags(w)
  PROVE  FInv'
<1>1. IInv' /\ lpc[w] \in {"modify", "tags"}
  BY ModifyAttachmentOK, CreateTagsOK DEF FInv, ModifyAttachment, CreateTags
<1>2. UNCHANGED <<group, at, dns>>
  BY DEF ModifyAttachment, CreateTags, network
<1>3. Local(w) /\ FoundOK(w)
  BY <1>1, Busy, ToLocal DEF FInv, FoundInv
<1>4. PICK l \in {"tags", "upsert"} : Goto(w, l, got[w])
  BY <1>1, <1>3 DEF ModifyAttachment, CreateTags, FoundOK
<1>5. lpc'[w] = l /\ got'[w] = got[w] /\ event' = event /\ Id(w)' = Id(w)
  BY <1>4, Moved DEF FInv, Id
<1>6. Local(w)'
  BY <1>1, <1>2, <1>3, <1>5 DEF Local, Attaching, Removing, Equipping, Bare, group
<1>7. FoundOK(w)'
  BY <1>1, <1>2, <1>3, <1>5, Zenon DEF FoundOK
<1> QED
  BY <1>1, <1>4, <1>6, <1>7, GotoF

\* The A record that was to come is there.
LEMMA UpsertF ==
  ASSUME FInv, NEW w \in Workers, Upsert(w)
  PROVE  FInv'
<1>1. IInv' /\ lpc[w] = "upsert"
  BY UpsertOK DEF FInv, Upsert
<1>2. UNCHANGED <<group, at>> /\ dns' = dns \cup {got[w]} /\ Goto(w, "complete", None)
  BY DEF Upsert
<1>3. Local(w) /\ FoundOK(w) /\ event[w].kind = "launching" /\ Id(w) \in Instances
  BY <1>1, Busy, ToLocal, Zenon DEF FInv, FoundInv, HandlerOK, Launching
<1>4. lpc'[w] = "complete" /\ event' = event /\ Id(w)' = Id(w)
  BY <1>2, Moved DEF FInv, Id
<1>5. \A e \in Enis : at'[e] # None <=> e \in dns'
  BY <1>1, <1>2, <1>3, StaticIpAssumption DEF Local, Attaching, Removing, FoundOK
<1>6. \A i \in Instances : (Bare(i)' <=> Bare(i)) /\ (Equipping(w, i) => Equipping(w, i)')
  BY <1>1, <1>2, <1>4 DEF Bare, Equipping
<1>7. Local(w)'
  BY <1>2, <1>3, <1>5, <1>6, Zenon DEF Local, group
<1>8. FoundOK(w)'
  BY <1>3, <1>4, Zenon DEF FoundOK
<1> QED
  BY <1>1, <1>2, <1>7, <1>8, GotoF

\* describe_instances: the instance has an ENI, or none that would be left
\* attached.
LEMMA DescribeInstanceF ==
  ASSUME FInv, NEW w \in Workers, DescribeInstance(w)
  PROVE  FInv'
<1>1. IInv' /\ lpc[w] = "describe" /\ UNCHANGED <<group, at, dns>>
  BY DescribeInstanceOK DEF FInv, DescribeInstance, network
<1>2. Settled'
  BY <1>1, SettledNow, SettledKept DEF group
<1>3. PICK l \in {"detach", "complete"}, e \in Enis \cup {None} :
        /\ Goto(w, l, e)
        /\ IF l = "detach" THEN at[e] = Id(w) ELSE Bare(Id(w))
  BY DEF DescribeInstance, Bare
<1>4. lpc'[w] = l /\ got'[w] = e /\ event' = event /\ Id(w)' = Id(w)
  BY <1>3, Moved DEF FInv, Id
<1>5. FoundOK(w)'
  BY <1>1, <1>3, <1>4 DEF FoundOK, Bare
<1> QED
  BY <1>1, <1>2, <1>3, <1>5, SettledLocal, GotoF

\* detach_network_interface: the instance has no other ENI, and a record is
\* left to be removed.
LEMMA DetachEniF ==
  ASSUME FInv, NEW w \in Workers, DetachEni(w)
  PROVE  FInv'
<1>1. IInv' /\ lpc[w] = "detach" /\ UNCHANGED <<group, dns>>
  BY DetachEniOK DEF FInv, DetachEni
<1>2. Settled /\ FoundOK(w) /\ got[w] \in Enis /\ Id(w) \in Instances
  BY <1>1, SettledNow, Busy DEF FInv, FoundInv, EniOK
<1>3. at[got[w]] = Id(w) /\ at' = [at EXCEPT ![got[w]] = None] /\ Goto(w, "poll", got[w])
  BY <1>1, <1>2 DEF DetachEni, FoundOK
<1>4. lpc'[w] = "poll" /\ got'[w] = got[w] /\ event' = event /\ Id(w)' = Id(w)
  BY <1>3, Moved DEF FInv, Id
<1>5. \A e \in Enis : at'[e] = IF e = got[w] THEN None ELSE at[e]
  BY <1>3, Zenon DEF FInv, IInv, TypeOK
<1>6. \A e \in Enis :
        /\ at'[e] # None => e \in dns'
        /\ at'[e] = None /\ e \in dns' => Removing(w, e)'
  BY <1>1, <1>2, <1>4, <1>5 DEF Settled, Removing
<1>7. \A e, f \in Enis : at'[e] = at'[f] /\ at'[e] # None => e = f
  BY <1>2, <1>5 DEF Settled
<1>8. \A i \in Instances : Bare(i) => Bare(i)'
  BY <1>5, StaticIpAssumption DEF Bare
<1>9. Bare(Id(w))'
  BY <1>2, <1>3, <1>4, <1>5, StaticIpAssumption DEF Bare, Settled
<1>10. Local(w)'
  BY <1>1, <1>2, <1>6, <1>7, <1>8 DEF Local, Settled, group
<1>11. FoundOK(w)'
  BY <1>1, <1>2, <1>3, <1>4, <1>9, StaticIpAssumption, Zenon DEF FoundOK, Settled
<1> QED
  BY <1>1, <1>3, <1>10, <1>11, GotoF

\* wait_for_eni_available leaves the record to be removed.
LEMMA WaitForEniAvailableF ==
  ASSUME FInv, NEW w \in Workers, WaitForEniAvailable(w)
  PROVE  FInv'
<1>1. /\ IInv' /\ lpc[w] = "poll" /\ UNCHANGED <<group, at, dns>>
      /\ Goto(w, "delete", got[w])
  BY WaitForEniAvailableOK DEF FInv, WaitForEniAvailable, network
<1>2. Local(w) /\ FoundOK(w)
  BY <1>1, Busy, ToLocal DEF FInv, FoundInv
<1>3. lpc'[w] = "delete" /\ got'[w] = got[w] /\ event' = event /\ Id(w)' = Id(w)
  BY <1>1, Moved DEF FInv, Id
<1>4. Local(w)'
  BY <1>1, <1>2, <1>3 DEF Local, Attaching, Removing, Equipping, Bare, group
<1>5. FoundOK(w)'
  BY <1>1, <1>2, <1>3, Zenon DEF FoundOK, Bare
<1> QED
  BY <1>1, <1>4, <1>5, GotoF, Zenon

\* The record is there when it is to be removed, so that Route 53 does not
\* refuse.
LEMMA DeleteRecordF ==
  ASSUME FInv, NEW w \in Workers, DeleteRecord(w)
  PROVE  FInv'
<1>1. IInv' /\ lpc[w] = "delete" /\ UNCHANGED <<group, at>> /\ dns' = dns \ {got[w]}
  BY DeleteRecordOK DEF FInv, DeleteRecord
<1>2. Local(w) /\ FoundOK(w) /\ at[got[w]] = None /\ event[w].kind = "terminating"
  BY <1>1, Busy, ToLocal, Zenon DEF FInv, FoundInv, EniOK, HandlerOK, Terminating
<1>3. Goto(w, "complete", None)
  BY <1>1, <1>2 DEF DeleteRecord, FoundOK
<1>4. lpc'[w] = "complete" /\ event' = event /\ Id(w)' = Id(w)
  BY <1>3, Moved DEF FInv, Id
<1>5. \A e \in Enis : at'[e] # None <=> e \in dns'
  BY <1>1, <1>2 DEF Local, Attaching, Removing
<1>6. \A i \in Instances : (Bare(i)' <=> Bare(i)) /\ ~Equipping(w, i)
  BY <1>1 DEF Bare, Equipping
<1>7. Local(w)'
  BY <1>1, <1>2, <1>5, <1>6, Zenon DEF Local, group
<1>8. FoundOK(w)'
  BY <1>1, <1>2, <1>4, Zenon DEF FoundOK, Bare
<1> QED
  BY <1>1, <1>3, <1>7, <1>8, GotoF

\* instance_terminated leaves attachments and records alone.
LEMMA TerminatedHandlerF ==
  ASSUME FInv, NEW w \in Workers, GetEni(w) \/ DeleteEni(w)
  PROVE  FInv'
<1>1. IInv' /\ lpc[w] \in {"get", "free"} /\ UNCHANGED <<group, at, dns>>
  BY GetEniOK, DeleteEniOK, Zenon DEF FInv, GetEni, DeleteEni, network
<1>2. event[w].kind = "terminated" /\ Settled'
  BY <1>1, Busy, SettledNow, SettledKept, Zenon DEF FInv, HandlerOK, group
<1>3. CASE Raise(w) \/ Done(w)
  BY <1>1, <1>2, <1>3, RaiseF, DoneF, Zenon
<1>4. ASSUME NEW e, Goto(w, "free", e)
      PROVE  FInv'
  <2>1. lpc'[w] = "free"
    BY <1>4, Moved DEF FInv
  <2>2. FoundOK(w)'
    BY <2>1 DEF FoundOK
  <2> QED
    BY <1>1, <1>2, <1>4, <2>2, SettledLocal, GotoF, Zenon
<1> QED
  BY <1>3, <1>4, Zenon DEF GetEni, DeleteEni

\* complete_lifecycle_action: an instance that its hook lets go, or whose
\* launch is abandoned, has no ENI; a lifecycle action that is over is
\* abandoned in vain.
LEMMA CompleteLifecycleActionF ==
  ASSUME FInv, NEW w \in Workers, CompleteLifecycleAction(w)
  PROVE  FInv'
<1>1. /\ IInv' /\ lpc[w] \in {"complete", "abandon"} /\ UNCHANGED <<cause, network>>
      /\ event[w].kind \in {"launching", "terminating"} /\ Known(event[w]) /\ FoundOK(w)
  BY CompleteLifecycleActionOK, Busy, Zenon DEF FInv, FoundInv, CompleteLifecycleAction,
     HandlerOK, Kinds
<1>2. PICK i \in Instances : i = Id(w)
  BY <1>1, Busy DEF FInv
<1>3. Local(w)
  BY <1>1, Busy, ToLocal DEF FInv
<1>4. CASE ~HookWaits(event[w])
  <2>1. Raise(w) /\ UNCHANGED <<inst, events>>
    BY <1>4 DEF CompleteLifecycleAction
  <2>2. event[w].kind = "launching" => inst[i] # "pending"
    BY <1>2, <1>4 DEF HookWaits, Id
  <2>3. event[w].kind = "terminating" => inst[i] \in {"shutting", "terminated"}
    BY <1>1, <1>2, <1>4 DEF HookWaits, Id, Known
  <2>4. Settled'
    BY <1>1, <1>2, <2>1, <2>2, SettledNow, SettledKept DEF network
  <2> QED
    BY <1>1, <1>2, <2>1, <2>3, <2>4, RaiseF DEF group
<1>5. CASE HookWaits(event[w])
  <2>1. Done(w) /\ AfterHook(i, IF lpc[w] = "complete" THEN "CONTINUE" ELSE "ABANDON")
    BY <1>2, <1>5 DEF CompleteLifecycleAction
  <2>2. PICK s \in {"inservice", "terminating", "shutting"} :
          /\ inst' = [inst EXCEPT ![i] = s]
          /\ s # "inservice" => inst[i] = "terminating" \/ lpc[w] = "abandon"
    BY <1>1, <2>1, HookEnds
  <2>3. \A j \in Instances : inst'[j] = IF j = i THEN s ELSE inst[j]
    BY <2>2, Zenon DEF FInv, IInv, TypeOK
  <2>4. inst[i] = "terminating" => lpc[w] = "complete" /\ Bare(i)
    BY <1>1, <1>2, <1>5, Zenon DEF HookWaits, Id, FoundOK
  <2>5. \A j \in Instances : inst[j] = "pending" /\ ~Bare(j) => j = i /\ lpc[w] = "complete"
    BY <1>1, <1>2, <1>3, Zenon DEF Local, Equipping
  <2>6. s = "shutting" => Bare(i)
    BY <1>5, <1>2, <2>2, <2>4, <2>5 DEF HookWaits, Id
  <2>7. \A e \in Enis : at[e] # None <=> e \in dns
    BY <1>1, <1>3 DEF Local, Attaching, Removing
  <2>8. \A j \in Instances : Bare(j)' <=> Bare(j)
    BY <1>1 DEF Bare, network
  <2>9. Settled'
    BY <1>1, <1>3, <2>3, <2>5, <2>6, <2>7, <2>8, Zenon DEF Settled, Local, network
  <2> QED
    BY <1>1, <2>1, <2>9, DoneF
<1> QED
  BY <1>4, <1>5

\* An execution starts from where nothing is unfinished.
LEMMA InvokeF ==
  ASSUME FInv, NEW w \in Workers, NEW ev \in events, Invoke(w, ev)
  PROVE  FInv'
<1>1. IInv' /\ UNCHANGED <<group, network>>
  BY InvokeOK, Zenon DEF FInv, Invoke
<1>2. \A v \in Workers : lpc[v] = "idle"
  BY DEF Invoke, MayStart
<1>3. Settled
  <2>1. Local(w)
    BY <1>2, ToLocal
  <2> QED
    BY <1>2, <2>1, Zenon DEF Local, Settled, Attaching, Removing, Equipping
<1>4. \A v \in Workers \ {w} : lpc'[v] = "idle"
  BY <1>2, Zenon DEF Invoke, FInv, IInv, TypeOK
<1>5. lpc'[w] \in {"find", "describe", "get", "idle"}
  <2>1. ev.kind \in Kinds
    BY Zenon DEF FInv, IInv, TypeOK, Events
  <2> QED
    BY <2>1, Zenon DEF Invoke, First, Kinds, FInv, IInv, TypeOK
<1>6. FoundOK(w)'
  BY <1>5, Zenon DEF FoundOK
<1> QED
  BY <1>1, <1>3, <1>4, <1>6, SettledKept, SettledLocal, FromLocal DEF group, network

\* The group moves an instance that keeps what it has, or has nothing to lose.
LEMMA GroupF ==
  ASSUME FInv, Faults \subseteq {"Duplicate"}, Group
  PROVE  FInv'
<1>1. IInv'
  BY LaunchOK, HookTimeoutOK, TerminatedOK, TerminateOK, DetachedOK, Zenon DEF FInv,
     Group
<1>2. \A i \in Instances : ~HookTimeout(i)
  BY DEF HookTimeout
<1>3. UNCHANGED <<at, dns, lambda>>
  <2>1. ASSUME NEW i \in Instances, Terminated(i)
        PROVE  at' = at
    <3>1. \A e \in Enis : at[e] # i
      BY <2>1, Zenon DEF Terminated, FInv, BareInv, Bare
    <3>2. at' = [e \in Enis |-> IF at[e] = i THEN None ELSE at[e]]
      BY <2>1, Zenon DEF Terminated
    <3>3. at = [e \in Enis |-> at[e]]
      BY Zenon DEF FInv, IInv, TypeOK
    <3> QED
      BY <3>1, <3>2, <3>3
  <2> QED
    BY <1>2, <2>1, Zenon DEF Group, Launch, Terminate, Terminated, Detached, network
<1>4. \A i \in Instances :
        \/ inst'[i] = inst[i]
        \/ inst[i] = "none" /\ inst'[i] = "pending"
        \/ inst[i] = "inservice" /\ inst'[i] = "terminating"
        \/ inst[i] = "shutting" /\ inst'[i] = "terminated"
  <2>1. \A i \in Instances :
          Launch(i) => inst[i] = "none" /\ inst' = [inst EXCEPT ![i] = "pending"]
    BY DEF Launch
  <2>2. \A i \in Instances : \A why \in {"shrinking the capacity", "other"} :
          Terminate(i, why) =>
            inst[i] = "inservice" /\ inst' = [inst EXCEPT ![i] = "terminating"]
    BY Zenon DEF Terminate
  <2>3. \A i \in Instances :
          Terminated(i) => inst[i] = "shutting" /\ inst' = [inst EXCEPT ![i] = "terminated"]
    BY DEF Terminated
  <2>4. \A e \in Enis : Detached(e) => inst' = inst
    BY DEF Detached, group
  <2>5. inst \in [Instances -> {"none", "pending", "inservice", "terminating", "shutting",
                               "terminated"}]
    BY Zenon DEF FInv, IInv, TypeOK
  <2> QED
    BY <1>2, <2>1, <2>2, <2>3, <2>4, <2>5, Zenon DEF Group
<1>5. \A w \in Workers : Id(w)' = Id(w)
  BY <1>3 DEF Id, lambda
<1>6. RecordInv'
  BY <1>3 DEF FInv, RecordInv, Attaching, Removing, lambda
<1>7. \A i \in Instances : Bare(i)' <=> Bare(i)
  BY <1>3 DEF Bare
<1>8. BareInv'
  <2>1. \A w \in Workers, i \in Instances : Equipping(w, i) => Equipping(w, i)'
    BY <1>3, <1>5 DEF Equipping, lambda
  <2> QED
    BY <1>3, <1>4, <1>7, <2>1 DEF FInv, BareInv
<1>9. ASSUME NEW w \in Workers, lpc[w] # "idle"
      PROVE  FoundOK(w)'
  <2>1. FoundOK(w) /\ Id(w) \in Instances
    BY <1>9, Busy DEF FInv, FoundInv
  <2> QED
    BY <1>3, <1>4, <1>5, <1>7, <2>1 DEF FoundOK, lambda
<1>10. FoundInv'
  BY <1>3, <1>9 DEF FoundInv, lambda
<1> QED
  BY <1>1, <1>6, <1>8, <1>10 DEF FInv

\* Every step keeps the invariant as long as no call fails and nothing is late.
LEMMA NextF ==
  ASSUME Faults \subseteq {"Duplicate"}
  PROVE  FInv /\ [Next]_vars => FInv'
<1> SUFFICES ASSUME FInv, [Next]_vars PROVE FInv'
  OBVIOUS
<1>1. CASE Group
  BY <1>1, GroupF
<1>2. ASSUME NEW w \in Workers, Handle(w)
      PROVE  FInv'
  BY <1>2, LaunchHandlerF, AttachEniF, ModifyAttachmentF, UpsertF, DescribeInstanceF,
     DetachEniF, WaitForEniAvailableF, DeleteRecordF, TerminatedHandlerF,
     CompleteLifecycleActionF DEF Handle
<1>3. CASE Lambda
  BY <1>2, <1>3, InvokeF DEF Lambda, ApiError, FunctionTimeout
<1>4. CASE UNCHANGED vars
  <2>1. IInv'
    BY <1>4, NextOK DEF FInv
  <2>0. UNCHANGED <<inst, cause, eni, at, tag, dns, events, lpc, event, got>>
    BY <1>4 DEF vars, group, network, lambda
  <2>2. RecordInv' /\ BareInv'
    <3>1. RecordInv'
      BY <2>0 DEF FInv, RecordInv, Attaching, Removing, Id
    <3>2. BareInv'
      BY <2>0 DEF FInv, BareInv, Bare, Equipping, Id
    <3> QED BY <3>1, <3>2
  <2>3. FoundInv'
    BY <2>0 DEF FInv, FoundInv, FoundOK, Bare, Id
  <2> QED
    BY <2>1, <2>2, <2>3 DEF FInv
<1> QED
  BY <1>1, <1>3, <1>4 DEF Next

\* 'A DNS "A" record is created/deleted to reflect the IPv4 address of the
\* secondary ENI': as long as no call fails and nothing is late, the records are
\* those of the attached ENIs whenever the group is at rest, for any number of
\* instances, although events come twice and out of order.
THEOREM DnsIsExact ==
  ASSUME Faults \subseteq {"Duplicate"}
  PROVE  Spec => []DnsReflectsEnis
<1>1. Init => FInv
  <2> SUFFICES ASSUME Init PROVE FInv
    OBVIOUS
  <2>1. RecordInv /\ FoundInv
    BY DEF Init, RecordInv, FoundInv
  <2>2. BareInv
    BY StaticIpAssumption DEF Init, BareInv, Bare
  <2> QED
    BY <2>1, <2>2, InitOK DEF FInv
<1>2. FInv /\ [Next]_vars => FInv'
  BY NextF
<1>3. FInv => DnsReflectsEnis
  BY Zenon DEF FInv, RecordInv, Attaching, Removing, DnsReflectsEnis, AtRest, IInv,
     TypeOK
<1> QED
  BY <1>1, <1>2, <1>3, PTL DEF Spec

=============================================================================
