---------------------------- MODULE AgentsProofs ----------------------------
(***************************************************************************)
(* Proofs about the two agents of a proxy.                                 *)
(*                                                                         *)
(* knfsd-agent: what a GET of the node information answers with, and what  *)
(* DropCaches has freed when it returns.                                   *)
(*                                                                         *)
(* knfsd-metrics-agent: what a generated builder emits is the aggregate of *)
(* what was recorded, and an emission of a receiver of counters is whole   *)
(* and of its own scrape. MountsProofs and ReceiverProofs are about the    *)
(* other receivers.                                                        *)
(***************************************************************************)
EXTENDS Agent, MetricsBuilder, Scrapers, SumLemmas

-----------------------------------------------------------------------------
(* knfsd-agent. *)

AgentSpec == AgentInit /\ [][AgentNext]_agentVars

AgentTyped ==
  /\ nodeInfo \in [1..3 -> SUBSET Words2]
  /\ cached \in [Objects -> {"dirty", "clean", "absent"}]
  /\ rPc \in [Callers -> {"idle", "fetch", "store", "marshal", "sync", "write"}]
  /\ rCall \in [Callers -> Calls \cup {NoCall}]
  /\ rField \in [Callers -> 1..3]
  /\ rStore \in [Callers -> [words : SUBSET Words2, value : {Filled, Blank}]]
  /\ rBody \in [Callers -> Seq({Filled, Blank})]
  /\ DOMAIN rReply = Callers /\ rReply = [c \in Callers |-> rReply[c]]
  /\ rDisturbed \in [Callers -> BOOLEAN]
  /\ rTouched \in [Callers -> SUBSET Objects]

\* A step of a handler is one of the request's own handler.
OwnHandler(c) ==
  /\ rPc[c] \in {"fetch", "store", "marshal"} => rCall[c].route = "nodeInfo"
  /\ rPc[c] \in {"sync", "write"} => rCall[c].route = "drop"

\* What an undisturbed request has stored is still there when it is read.
Stored(c) ==
  /\ rPc[c] \in {"fetch", "store"} =>
       /\ rBody[c] = EmptyBody
       /\ ~rDisturbed[c] => \A f \in 1..3 : f < rField[c] => nodeInfo[f] = Words2
  /\ rPc[c] = "store" /\ rStore[c].value = Filled /\ ~rDisturbed[c] =>
       Words2 \ rStore[c].words \subseteq nodeInfo[rField[c]]
  /\ rPc[c] = "marshal" =>
       /\ Len(rBody[c]) = rField[c] - 1
       /\ ~rDisturbed[c] => /\ \A f \in 1..3 : nodeInfo[f] = Words2
                            /\ \A i \in 1..Len(rBody[c]) : rBody[c][i] = Filled

\* After Sync an object that is dirty was used since the request was sent.
WrittenBack(c) ==
  rPc[c] = "write" => \A o \in Objects : cached[o] = "dirty" => o \in rTouched[c]

InfoHonest(c) ==
  rPc[c] = "idle" /\ rCall[c].route = "nodeInfo" /\ rCall[c].method = "GET"
    /\ ~rDisturbed[c] =>
      /\ get(rReply[c]) # EmptyBody
      /\ \A f, g \in DOMAIN get(rReply[c]) : get(rReply[c])[f] = get(rReply[c])[g]

DropReal(c) ==
  rPc[c] = "idle" /\ rCall[c].route = "drop" /\ post(rReply[c]) = "nil" =>
    \A o \in rReply[c].body[1] : o \in Objects /\ (cached[o] # "absent" => o \in rTouched[c])

AInv ==
  /\ AgentTyped
  /\ \A c \in Callers :
       OwnHandler(c) /\ Stored(c) /\ WrittenBack(c) /\ InfoHonest(c) /\ DropReal(c)

\* The record of node information has three fields (fetchNodeInfo).
LEMMA FieldCount == Len(InfoFields) = 3
BY DEF InfoFields

\* The MAC address, whose URL the third field is fetched with, is the second.
LEMMA MacIsSecond ==
  (CHOOSE i \in 1..Len(InfoFields) : InfoFields[i] = "MACAddress") = 2
<1>1. \A i \in 1..3 : InfoFields[i] = "MACAddress" <=> i = 2
  BY DEF InfoFields
<1> QED BY <1>1, FieldCount

\* Neither the message of an error nor a record of empty strings is an empty
\* body.
LEMMA Bodies ==
  /\ Message # EmptyBody
  /\ [f \in 1..Len(InfoFields) |-> Blank] # EmptyBody
<1>1. Len(Message) = 1 /\ Len(EmptyBody) = 0
  BY DEF Message, EmptyBody
<1>2. 1 \in DOMAIN [f \in 1..Len(InfoFields) |-> Blank]
  BY FieldCount
<1>3. DOMAIN EmptyBody = 1..0
  BY DEF EmptyBody
<1> QED BY <1>1, <1>2, <1>3

\* The client decodes the message of an error as a record without any field
\* (get).
LEMMA ErrorIsHonest ==
  ASSUME NEW r, r.status # 200, r.body = Message
  PROVE  /\ get(r) # EmptyBody
         /\ \A f, g \in DOMAIN get(r) : get(r)[f] = get(r)[g]
<1>1. get(r) = [f \in 1..Len(InfoFields) |-> Blank]
  BY Bodies DEF get
<1> QED BY <1>1, Bodies

\* The invariant of the agent holds before the first request.
LEMMA AgentStart == AgentInit => AInv
<1> SUFFICES ASSUME AgentInit PROVE AInv
  OBVIOUS
<1>1. EmptyBody \in Seq({Filled, Blank})
  BY DEF EmptyBody
<1>2. AgentTyped
  BY <1>1, FieldCount DEF AgentInit, AgentTyped, Objects
<1>3. ASSUME NEW c \in Callers
      PROVE OwnHandler(c) /\ Stored(c) /\ WrittenBack(c) /\ InfoHonest(c) /\ DropReal(c)
  BY Zenon DEF AgentInit, OwnHandler, Stored, WrittenBack, InfoHonest, DropReal, NoCall
<1> QED BY <1>2, <1>3 DEF AInv

\* What a request leaves of another one that it does not disturb.
Untouched(d) ==
  /\ rPc'[d] = rPc[d] /\ rCall'[d] = rCall[d] /\ rField'[d] = rField[d]
  /\ rStore'[d] = rStore[d] /\ rBody'[d] = rBody[d] /\ rReply'[d] = rReply[d]
  /\ (~rDisturbed'[d] => ~rDisturbed[d]) /\ rTouched[d] \subseteq rTouched'[d]

\* What is known of a request survives the steps of the others, if they lose
\* none of the words of the global record and dirty or cache no object that
\* they do not touch.
LEMMA OthersKeep ==
  ASSUME NEW d \in Callers, AInv, Untouched(d), rPc[d] # "idle" \/ rDisturbed'[d] = rDisturbed[d],
         rPc[d] # "idle" /\ ~rDisturbed'[d] => \A f \in 1..3 : nodeInfo[f] \subseteq nodeInfo'[f],
         nodeInfo' \in [1..3 -> SUBSET Words2],
         \A o \in Objects : cached'[o] = "dirty" => cached[o] = "dirty" \/ o \in rTouched'[d],
         \A o \in Objects : cached'[o] # "absent" => cached[o] # "absent" \/ o \in rTouched'[d]
  PROVE  OwnHandler(d)' /\ Stored(d)' /\ WrittenBack(d)' /\ InfoHonest(d)' /\ DropReal(d)'
<1>0. OwnHandler(d) /\ Stored(d) /\ WrittenBack(d) /\ InfoHonest(d) /\ DropReal(d) /\ AgentTyped
  BY DEF AInv
<1>1. OwnHandler(d)'
  BY <1>0 DEF OwnHandler, Untouched
<1>2. Stored(d)'
  <2>1. rField[d] \in 1..3 /\ nodeInfo \in [1..3 -> SUBSET Words2]
    BY <1>0 DEF AgentTyped
  <2>2. rPc[d] # "idle" /\ ~rDisturbed'[d] =>
          /\ ~rDisturbed[d]
          /\ \A f \in 1..3 : nodeInfo[f] = Words2 => nodeInfo'[f] = Words2
          /\ nodeInfo[rField[d]] \subseteq nodeInfo'[rField[d]]
    BY <2>1, Zenon DEF Untouched
  <2> QED BY <1>0, <2>2 DEF Stored, Untouched
<1>3. WrittenBack(d)'
  BY <1>0 DEF WrittenBack, Untouched
<1>4. InfoHonest(d)'
  BY <1>0 DEF InfoHonest, Untouched, get
<1>5. DropReal(d)'
  BY <1>0 DEF DropReal, Untouched, post
<1> QED BY <1>1, <1>2, <1>3, <1>4, <1>5

\* A new request: it knows nothing yet, and it does not disturb the ones that
\* are served.
LEMMA RequestKeeps ==
  ASSUME AInv, NEW c \in Callers, NEW call \in Calls, Request(c, call)
  PROVE  AInv'
<1> USE DEF Reply
<1>0. AgentTyped /\ EmptyBody \in Seq({Filled, Blank})
  BY DEF AInv, EmptyBody
<1>1. AgentTyped'
  <2>1. rPc' \in [Callers -> {"idle", "fetch", "store", "marshal", "sync", "write"}]
    <3>1. \/ rPc' = [rPc EXCEPT ![c] = "idle"] \/ rPc' = [rPc EXCEPT ![c] = "sync"]
          \/ rPc' = [rPc EXCEPT ![c] = "fetch"]
      BY DEF Request
    <3> QED BY <1>0, <3>1, Zenon DEF AgentTyped
  <2>4. DOMAIN rReply' = Callers /\ rReply' = [d \in Callers |-> rReply'[d]]
    <3>1. rReply' = rReply \/ \E r : rReply' = [rReply EXCEPT ![c] = r]
      BY DEF Request
    <3> QED BY <1>0, <3>1 DEF AgentTyped
  <2>2. /\ rCall' \in [Callers -> Calls \cup {NoCall}]
        /\ rField' \in [Callers -> 1..3]
        /\ rBody' \in [Callers -> Seq({Filled, Blank})]
        /\ rTouched' \in [Callers -> SUBSET Objects]
        /\ UNCHANGED <<nodeInfo, cached, rStore>>
    BY <1>0 DEF AgentTyped, Request
  <2>3. rDisturbed' \in [Callers -> BOOLEAN]
    BY <1>0 DEF AgentTyped, Request
  <2> QED BY <1>0, <2>1, <2>2, <2>3, <2>4 DEF AgentTyped
<1>2. ASSUME NEW d \in Callers, d # c
      PROVE  OwnHandler(d)' /\ Stored(d)' /\ WrittenBack(d)' /\ InfoHonest(d)' /\ DropReal(d)'
  <2>1. Untouched(d) /\ rDisturbed'[d] = rDisturbed[d] /\ nodeInfo' = nodeInfo /\ cached' = cached
    BY <1>0, <1>2 DEF AgentTyped, Request, Untouched
  <2> QED BY <1>0, <2>1, OthersKeep, Zenon DEF AgentTyped
<1>3. rCall'[c] = call /\ rField'[c] = 1 /\ rBody'[c] = EmptyBody
  BY <1>0 DEF AgentTyped, Request
<1>4. OwnHandler(c)' /\ Stored(c)' /\ WrittenBack(c)'
  <2>1. rPc'[c] \in {"idle", "sync", "fetch"} /\ (rPc'[c] = "sync" <=> rPc'[c] # "idle" /\ call.route = "drop")
    BY <1>0 DEF AgentTyped, Request
  <2>2. call.route \in {"nodeInfo", "drop"}
    BY Zenon DEF Calls
  <2> QED BY <1>3, <2>1, <2>2 DEF OwnHandler, Stored, WrittenBack
<1>5. InfoHonest(c)'
  <2>1. call.route = "nodeInfo" /\ call.method = "GET" => rPc'[c] = "fetch"
    BY <1>0 DEF AgentTyped, Request
  <2> QED BY <1>3, <2>1 DEF InfoHonest
<1>6. DropReal(c)'
  <2>1. call.route = "drop" /\ rPc'[c] = "idle" => rReply'[c].status # 200
    BY <1>0 DEF AgentTyped, Request
  <2> QED BY <1>3, <2>1 DEF DropReal, post
<1> QED BY <1>1, <1>2, <1>4, <1>5, <1>6 DEF AInv

\* A reply ends the request that it answers, and no other.
LEMMA AnswerTyped ==
  ASSUME AgentTyped, NEW c \in Callers, NEW status, NEW body, Reply(c, status, body)
  PROVE  /\ rPc' \in [Callers -> {"idle", "fetch", "store", "marshal", "sync", "write"}]
         /\ DOMAIN rReply' = Callers /\ rReply' = [d \in Callers |-> rReply'[d]]
         /\ rPc'[c] = "idle" /\ rReply'[c] = [status |-> status, body |-> body]
         /\ \A d \in Callers \ {c} : rPc'[d] = rPc[d] /\ rReply'[d] = rReply[d]
BY Zenon DEF AgentTyped, Reply

\* A handler goes on, and no other does.
LEMMA PcTyped ==
  ASSUME AgentTyped, NEW c \in Callers,
         NEW next \in {"idle", "fetch", "store", "marshal", "sync", "write"},
         rPc' = [rPc EXCEPT ![c] = next], UNCHANGED rReply
  PROVE  /\ rPc' \in [Callers -> {"idle", "fetch", "store", "marshal", "sync", "write"}]
         /\ DOMAIN rReply' = Callers /\ rReply' = [d \in Callers |-> rReply'[d]]
         /\ rPc'[c] = next
         /\ \A d \in Callers \ {c} : rPc'[d] = rPc[d] /\ rReply'[d] = rReply[d]
BY DEF AgentTyped

\* fetchNodeInfo asks the metadata service for a field: a failure answers with
\* an error and disturbs the others, since the field was emptied.
LEMMA FetchKeeps ==
  ASSUME AInv, NEW c \in Callers, Fetch(c)
  PROVE  AInv'
<1>0. AgentTyped /\ OwnHandler(c) /\ Stored(c) /\ rPc[c] = "fetch" /\ rField[c] \in 1..3
  BY DEF AInv, AgentTyped, Fetch
<1>1. UNCHANGED <<nodeInfo, rField, rBody, cached, rTouched, rCall, rDisturbed>>
  BY DEF Fetch, dropVars
<1>2. CASE UsesMAC(rField[c]) /\ Panics(2)
  <2>1. Reply(c, 0, EmptyBody) /\ UNCHANGED rStore
    BY <1>2, MacIsSecond, Zenon DEF Fetch, Closed
  <2>2. rDisturbed[c]
    <3>1. rField[c] = 3
      BY <1>0, <1>2 DEF UsesMAC, InfoFields
    <3>2. nodeInfo[2] # Words2
      BY <1>2 DEF Panics, Words2
    <3>3. ~rDisturbed[c] => nodeInfo[2] = Words2
      BY <1>0, <3>1 DEF Stored
    <3> QED BY <3>2, <3>3
  <2>3. AgentTyped'
    BY <1>0, <1>1, <2>1, AnswerTyped, Zenon DEF AgentTyped
  <2>4. ASSUME NEW d \in Callers, d # c
        PROVE  OwnHandler(d)' /\ Stored(d)' /\ WrittenBack(d)' /\ InfoHonest(d)' /\ DropReal(d)'
    <3>1. Untouched(d)
      BY <1>0, <1>1, <2>1, <2>4, AnswerTyped, Zenon DEF Untouched
    <3> QED BY <1>0, <1>1, <3>1, OthersKeep, Zenon DEF AgentTyped
  <2>5. OwnHandler(c)' /\ Stored(c)' /\ WrittenBack(c)' /\ InfoHonest(c)' /\ DropReal(c)'
    <3>0. rPc'[c] = "idle" /\ rReply'[c] = [status |-> 0, body |-> EmptyBody]
      BY <1>0, <2>1, AnswerTyped
    <3>1. rPc'[c] = "idle" /\ rReply'[c].status # 200
      BY <3>0
    <3> QED BY <1>1, <2>2, <3>1 DEF OwnHandler, Stored, WrittenBack, InfoHonest, DropReal, post
  <2> QED BY <2>3, <2>4, <2>5 DEF AInv
<1>3. CASE ~(UsesMAC(rField[c]) /\ Panics(2))
  <2>1. PICK value \in {Filled, Blank} :
          /\ rStore' = [rStore EXCEPT ![c] = [words |-> Words2, value |-> value]]
          /\ rPc' = [rPc EXCEPT ![c] = "store"]
          /\ UNCHANGED rReply
    BY <1>3, MacIsSecond, Zenon DEF Fetch
  <2>2. rStore' \in [Callers -> [words : SUBSET Words2, value : {Filled, Blank}]]
    BY <1>0, <2>1 DEF AgentTyped
  <2>3. AgentTyped'
    BY <1>0, <1>1, <2>1, <2>2, PcTyped DEF AgentTyped
  <2>4. ASSUME NEW d \in Callers, d # c
        PROVE  OwnHandler(d)' /\ Stored(d)' /\ WrittenBack(d)' /\ InfoHonest(d)' /\ DropReal(d)'
    <3>1. Untouched(d)
      BY <1>0, <1>1, <2>1, <2>4 DEF Untouched, AgentTyped
    <3> QED BY <1>0, <1>1, <3>1, OthersKeep, Zenon DEF AgentTyped
  <2>5. OwnHandler(c)' /\ Stored(c)' /\ WrittenBack(c)' /\ InfoHonest(c)' /\ DropReal(c)'
    <3>1. rPc'[c] = "store" /\ rStore'[c].words = Words2
      BY <1>0, <2>1 DEF AgentTyped
    <3> QED BY <1>0, <1>1, <3>1 DEF OwnHandler, Stored, WrittenBack, InfoHonest, DropReal
  <2> QED BY <2>3, <2>4, <2>5 DEF AInv
<1> QED BY <1>2, <1>3

\* A word of a string is stored into the global record: it is the one that all
\* requests store, so what is there stays.
LEMMA StoreKeeps ==
  ASSUME AInv, NEW c \in Callers, NEW w \in Words2, Store2(c, w)
  PROVE  AInv'
<1> DEFINE value == rStore[c].value
<1>0. /\ AgentTyped /\ OwnHandler(c) /\ Stored(c) /\ rPc[c] = "store" /\ rField[c] \in 1..3
      /\ value \in {Filled, Blank} /\ rStore[c].words \subseteq Words2 /\ w \in rStore[c].words
  BY DEF AInv, AgentTyped, Store2
<1>1. UNCHANGED <<rBody, cached, rTouched, rCall>>
  BY DEF Store2, dropVars
<1>2. /\ nodeInfo' \in [1..3 -> SUBSET Words2]
      /\ \A f \in 1..3 \ {rField[c]} : nodeInfo'[f] = nodeInfo[f]
      /\ value # Blank => nodeInfo'[rField[c]] = nodeInfo[rField[c]] \cup {w}
  BY <1>0 DEF AgentTyped, Store2
<1>3. /\ rStore' \in [Callers -> [words : SUBSET Words2, value : {Filled, Blank}]]
      /\ rStore'[c].words = rStore[c].words \ {w} /\ rStore'[c].value = value
      /\ \A d \in Callers \ {c} : rStore'[d] = rStore[d]
  BY <1>0 DEF AgentTyped, Store2
<1>4. /\ rDisturbed' \in [Callers -> BOOLEAN]
      /\ rDisturbed'[c] <=> rDisturbed[c]
      /\ \A d \in Callers \ {c} :
           rDisturbed'[d] <=> (rDisturbed[d] \/ (value = Blank /\ rPc[d] # "idle"))
  <2>1. rDisturbed' = [d \in Callers |->
          rDisturbed[d] \/ (value = Blank /\ d # c /\ rPc[d] # "idle")]
    BY DEF Store2
  <2>2. rDisturbed \in [Callers -> BOOLEAN]
    BY <1>0 DEF AgentTyped
  <2> HIDE DEF value
  <2> QED BY <2>1, <2>2, Zenon
<1>5. /\ rPc' \in [Callers -> {"idle", "fetch", "store", "marshal", "sync", "write"}]
      /\ DOMAIN rReply' = Callers /\ rReply' = [d \in Callers |-> rReply'[d]]
      /\ rField' \in [Callers -> 1..3]
      /\ \A d \in Callers \ {c} :
           rPc'[d] = rPc[d] /\ rReply'[d] = rReply[d] /\ rField'[d] = rField[d]
      /\ \/ /\ rPc'[c] = "store" /\ rField'[c] = rField[c] /\ rStore[c].words # {w}
         \/ /\ rPc'[c] = "idle" /\ rReply'[c] = [status |-> 500, body |-> Message]
         \/ /\ value = Filled /\ rStore[c].words = {w} /\ rPc'[c] = "fetch"
            /\ rField[c] < 3 /\ rField'[c] = rField[c] + 1
         \/ /\ value = Filled /\ rStore[c].words = {w} /\ rPc'[c] = "marshal"
            /\ rField[c] = 3 /\ rField'[c] = 1
  <2>1. CASE rStore[c].words # {w}
    BY <1>0, <2>1 DEF AgentTyped, Store2
  <2>2. CASE rStore[c].words = {w}
    <3>1. Fetched(c, value)
      BY <2>2 DEF Store2
    <3>2. CASE value = Blank
      <4>1. Reply(c, 500, Message) /\ UNCHANGED rField
        <5>1. value # Filled
          BY <3>2, Zenon DEF Filled, Blank
        <5> HIDE DEF value
        <5> QED BY <3>1, <3>2, <5>1, Zenon DEF Fetched
      <4> QED BY <1>0, <4>1, AnswerTyped DEF AgentTyped
    <3>3. CASE value # Blank /\ rField[c] < 3
      <4>1. /\ rField' = [rField EXCEPT ![c] = @ + 1]
            /\ rPc' = [rPc EXCEPT ![c] = "fetch"] /\ UNCHANGED rReply
        <5>1. value = Filled /\ rField[c] < Len(InfoFields)
          BY <1>0, <3>3, FieldCount
        <5> HIDE DEF value
        <5> QED BY <3>1, <3>3, <5>1, Zenon DEF Fetched
      <4>2. /\ rField' \in [Callers -> 1..3] /\ rField'[c] = rField[c] + 1
            /\ \A d \in Callers \ {c} : rField'[d] = rField[d]
        BY <1>0, <3>3, <4>1 DEF AgentTyped
      <4>3. /\ rPc' \in [Callers -> {"idle", "fetch", "store", "marshal", "sync", "write"}]
            /\ DOMAIN rReply' = Callers /\ rReply' = [d \in Callers |-> rReply'[d]]
            /\ rPc'[c] = "fetch"
            /\ \A d \in Callers \ {c} : rPc'[d] = rPc[d] /\ rReply'[d] = rReply[d]
        BY <1>0, <4>1, PcTyped, Zenon
      <4> QED BY <1>0, <2>2, <3>3, <4>2, <4>3
    <3>4. CASE value # Blank /\ ~(rField[c] < 3)
      <4>1. /\ rField' = [rField EXCEPT ![c] = 1]
            /\ rPc' = [rPc EXCEPT ![c] = "marshal"] /\ UNCHANGED rReply
        <5>1. ~(rField[c] < Len(InfoFields))
          BY <3>4, FieldCount
        <5> HIDE DEF value
        <5>2. \/ Reply(c, 500, Message) /\ value = Blank
              \/ rField[c] < Len(InfoFields)
              \/ /\ rField' = [rField EXCEPT ![c] = 1]
                 /\ rPc' = [rPc EXCEPT ![c] = "marshal"] /\ UNCHANGED rReply
          BY <3>1, Zenon DEF Fetched
        <5> QED BY <3>4, <5>1, <5>2
      <4>2. /\ rField' \in [Callers -> 1..3] /\ rField'[c] = 1 /\ rField[c] = 3
            /\ \A d \in Callers \ {c} : rField'[d] = rField[d]
        BY <1>0, <3>4, <4>1 DEF AgentTyped
      <4>3. /\ rPc' \in [Callers -> {"idle", "fetch", "store", "marshal", "sync", "write"}]
            /\ DOMAIN rReply' = Callers /\ rReply' = [d \in Callers |-> rReply'[d]]
            /\ rPc'[c] = "marshal"
            /\ \A d \in Callers \ {c} : rPc'[d] = rPc[d] /\ rReply'[d] = rReply[d]
        BY <1>0, <4>1, PcTyped, Zenon
      <4> QED BY <1>0, <2>2, <3>4, <4>2, <4>3
    <3> QED BY <3>2, <3>3, <3>4, Zenon
  <2> QED BY <2>1, <2>2
<1>6. AgentTyped'
  BY <1>0, <1>1, <1>2, <1>3, <1>4, <1>5 DEF AgentTyped
<1>7. ASSUME NEW d \in Callers, d # c
      PROVE  OwnHandler(d)' /\ Stored(d)' /\ WrittenBack(d)' /\ InfoHonest(d)' /\ DropReal(d)'
  <2>1. rDisturbed[d] \in BOOLEAN /\ rDisturbed'[d] \in BOOLEAN /\ rTouched' = rTouched
    BY <1>0, <1>1, <1>4 DEF AgentTyped
  <2>2. Untouched(d)
    BY <1>1, <1>3, <1>4, <1>5, <1>7, <2>1 DEF Untouched
  <2>3. rPc[d] # "idle" \/ rDisturbed'[d] = rDisturbed[d]
    BY <1>4, <1>7, <2>1
  <2>4. rPc[d] # "idle" /\ ~rDisturbed'[d] => \A f \in 1..3 : nodeInfo[f] \subseteq nodeInfo'[f]
    BY <1>2, <1>4, <1>7
  <2> QED BY <1>1, <1>2, <2>2, <2>3, <2>4, OthersKeep, Zenon
<1>8. OwnHandler(c)' /\ WrittenBack(c)' /\ DropReal(c)'
  <2>1. rPc'[c] = "idle" => rReply'[c].status # 200
    BY <1>5
  <2> QED BY <1>0, <1>1, <1>5, <2>1 DEF OwnHandler, WrittenBack, DropReal, post
<1>9. InfoHonest(c)'
  BY <1>5, ErrorIsHonest DEF InfoHonest
<1>10. Stored(c)'
  <2>1. \A f \in 1..3 : f < rField[c] /\ ~rDisturbed'[c] => nodeInfo'[f] = Words2
    BY <1>0, <1>2, <1>4 DEF Stored
  <2>2. rBody'[c] = EmptyBody /\ Len(EmptyBody) = 0
    BY <1>0, <1>1 DEF Stored, EmptyBody
  <2>3. value = Filled /\ ~rDisturbed'[c] =>
          Words2 \ rStore'[c].words \subseteq nodeInfo'[rField[c]]
    BY <1>0, <1>2, <1>3, <1>4, Zenon DEF Stored, Filled, Blank
  <2>4. value = Filled /\ ~rDisturbed'[c] /\ rStore[c].words = {w} => nodeInfo'[rField[c]] = Words2
    BY <1>0, <1>2, <1>3, <2>3, Zenon
  <2>5. CASE rPc'[c] = "store"
    BY <1>3, <1>5, <2>1, <2>2, <2>3, <2>5 DEF Stored
  <2>6. CASE rPc'[c] = "fetch"
    BY <1>0, <1>5, <2>1, <2>2, <2>4, <2>6 DEF Stored
  <2>7. CASE rPc'[c] = "marshal"
    BY <1>0, <1>5, <2>1, <2>2, <2>4, <2>7 DEF Stored
  <2>8. CASE rPc'[c] = "idle"
    BY <2>8 DEF Stored
  <2> QED BY <1>5, <2>5, <2>6, <2>7, <2>8
<1> QED BY <1>6, <1>7, <1>8, <1>9, <1>10 DEF AInv

\* The global record is marshalled after the handler has returned: without a
\* disturbance all of it is filled by then.
LEMMA MarshalKeeps ==
  ASSUME AInv, NEW c \in Callers, Marshal(c)
  PROVE  AInv'
<1> DEFINE f == rField[c]
           body == Append(rBody[c], Read(f))
<1>0. /\ AgentTyped /\ OwnHandler(c) /\ Stored(c) /\ rPc[c] = "marshal" /\ f \in 1..3
      /\ rBody[c] \in Seq({Filled, Blank}) /\ Read(f) \in {Filled, Blank}
  BY DEF AInv, AgentTyped, Marshal, Read
<1>1. /\ UNCHANGED <<nodeInfo, rStore, cached, rTouched, rCall, rDisturbed>>
      /\ rBody' = [rBody EXCEPT ![c] = body]
  BY DEF Marshal, dropVars
<1>2. /\ body \in Seq({Filled, Blank}) /\ Len(body) = f
      /\ \A i \in 1..(f - 1) : body[i] = rBody[c][i]
      /\ body[f] = Read(f) /\ DOMAIN body = 1..f
  <2>1. Len(rBody[c]) = f - 1
    BY <1>0 DEF Stored
  <2> QED BY <1>0, <2>1
<1>3. rBody' \in [Callers -> Seq({Filled, Blank})] /\ rBody'[c] = body
      /\ \A d \in Callers \ {c} : rBody'[d] = rBody[d]
  <2> HIDE DEF body
  <2> QED BY <1>0, <1>1, <1>2 DEF AgentTyped
<1>4. ~rDisturbed[c] => nodeInfo[f] = Words2 /\ \A i \in 1..f : body[i] = Filled
  <2>1. ~rDisturbed[c] => nodeInfo[f] = Words2 /\ \A i \in 1..(f - 1) : rBody[c][i] = Filled
    BY <1>0 DEF Stored
  <2>2. nodeInfo[f] = Words2 => Read(f) = Filled
    BY DEF Read, Words2
  <2> HIDE DEF body
  <2> QED BY <1>0, <1>2, <2>1, <2>2
<1> HIDE DEF body
<1>5. /\ rPc' \in [Callers -> {"idle", "fetch", "store", "marshal", "sync", "write"}]
      /\ DOMAIN rReply' = Callers /\ rReply' = [d \in Callers |-> rReply'[d]]
      /\ rField' \in [Callers -> 1..3]
      /\ \A d \in Callers \ {c} :
           rPc'[d] = rPc[d] /\ rReply'[d] = rReply[d] /\ rField'[d] = rField[d]
      /\ \/ /\ rPc'[c] = "idle" /\ Panics(f)
         \/ /\ rPc'[c] = "idle" /\ f = 3 /\ rReply'[c] = [status |-> 200, body |-> body]
         \/ /\ rPc'[c] = "marshal" /\ f < 3 /\ rField'[c] = f + 1
  <2>1. CASE Panics(f)
    <3>1. Reply(c, 0, EmptyBody) /\ UNCHANGED rField
      BY <2>1 DEF Marshal, Closed
    <3>2. rField \in [Callers -> 1..3]
      BY <1>0 DEF AgentTyped
    <3> QED BY <1>0, <2>1, <3>1, <3>2, AnswerTyped, Zenon
  <2>2. CASE ~Panics(f) /\ f = 3
    <3>1. Reply(c, 200, body) /\ UNCHANGED rField
      BY <2>2, FieldCount, Zenon DEF Marshal, body
    <3>2. rField \in [Callers -> 1..3]
      BY <1>0 DEF AgentTyped
    <3> QED BY <1>0, <2>2, <3>1, <3>2, AnswerTyped
  <2>3. CASE ~Panics(f) /\ f # 3
    <3>1. rField' = [rField EXCEPT ![c] = @ + 1] /\ UNCHANGED <<rPc, rReply>>
      BY <2>3, FieldCount DEF Marshal
    <3>2. /\ rField' \in [Callers -> 1..3] /\ rField'[c] = f + 1
          /\ \A d \in Callers \ {c} : rField'[d] = rField[d]
      BY <1>0, <2>3, <3>1 DEF AgentTyped
    <3> QED BY <1>0, <2>3, <3>1, <3>2 DEF AgentTyped
  <2> QED BY <2>1, <2>2, <2>3
<1>6. AgentTyped'
  BY <1>0, <1>1, <1>3, <1>5 DEF AgentTyped
<1>7. ASSUME NEW d \in Callers, d # c
      PROVE  OwnHandler(d)' /\ Stored(d)' /\ WrittenBack(d)' /\ InfoHonest(d)' /\ DropReal(d)'
  <2>1. Untouched(d)
    BY <1>1, <1>3, <1>5, <1>7 DEF Untouched
  <2> QED BY <1>0, <1>1, <2>1, OthersKeep, Zenon DEF AgentTyped
<1>8. OwnHandler(c)' /\ WrittenBack(c)' /\ DropReal(c)'
  BY <1>0, <1>1, <1>5 DEF OwnHandler, WrittenBack, DropReal
<1>9. InfoHonest(c)'
  <2>1. SUFFICES ASSUME rPc'[c] = "idle", ~rDisturbed[c]
                 PROVE  /\ get(rReply'[c]) # EmptyBody
                        /\ \A i, j \in DOMAIN get(rReply'[c]) :
                             get(rReply'[c])[i] = get(rReply'[c])[j]
    BY <1>1 DEF InfoHonest, get
  <2>2. f = 3 /\ rReply'[c] = [status |-> 200, body |-> body]
    <3>1. ~Panics(f)
      BY <1>4, <2>1 DEF Panics, Words2
    <3> QED BY <1>5, <2>1, <3>1
  <2>3. get(rReply'[c]) = body
    BY <2>2 DEF get
  <2>4. body # EmptyBody
    <3>1. Len(EmptyBody) = 0
      BY DEF EmptyBody
    <3>2. Len(body) = 3
      BY <1>2, <2>2
    <3> QED BY <3>1, <3>2
  <2> QED BY <1>2, <1>4, <2>1, <2>3, <2>4, Zenon
<1>10. Stored(c)'
  <2>1. CASE rPc'[c] = "marshal"
    <3>1. Len(rBody'[c]) = rField'[c] - 1
      BY <1>0, <1>2, <1>3, <1>5, <2>1
    <3>2. ~rDisturbed'[c] => \A g \in 1..3 : nodeInfo'[g] = Words2
      BY <1>0, <1>1 DEF Stored
    <3> QED BY <1>1, <1>2, <1>3, <1>4, <2>1, <3>1, <3>2 DEF Stored
  <2>2. CASE rPc'[c] = "idle"
    BY <2>2 DEF Stored
  <2> QED BY <1>5, <2>1, <2>2
<1> QED BY <1>6, <1>7, <1>8, <1>9, <1>10 DEF AInv

\* dropCaches writes dirty objects back; what is dirty from there on was
\* touched since.
LEMMA SyncKeeps ==
  ASSUME AInv, NEW c \in Callers, Sync(c)
  PROVE  AInv'
<1>0. AgentTyped /\ OwnHandler(c) /\ rPc[c] = "sync"
  BY DEF AInv, Sync
<1>1. /\ UNCHANGED <<nodeInfo, rField, rStore, rBody, rTouched, rCall, rReply, rDisturbed>>
      /\ rPc' = [rPc EXCEPT ![c] = "write"]
  BY DEF Sync, infoVars
<1>2. /\ cached' \in [Objects -> {"dirty", "clean", "absent"}]
      /\ \A o \in Objects : cached'[o] # "dirty" /\ (cached'[o] # "absent" => cached[o] # "absent")
  BY <1>0 DEF AgentTyped, Sync
<1>3. AgentTyped'
  BY <1>0, <1>1, <1>2, PcTyped, Zenon DEF AgentTyped
<1>4. ASSUME NEW d \in Callers, d # c
      PROVE  OwnHandler(d)' /\ Stored(d)' /\ WrittenBack(d)' /\ InfoHonest(d)' /\ DropReal(d)'
  <2>1. Untouched(d)
    BY <1>0, <1>1, <1>4, PcTyped DEF Untouched
  <2> QED BY <1>0, <1>1, <1>2, <2>1, OthersKeep, Zenon DEF AgentTyped
<1>5. OwnHandler(c)' /\ Stored(c)' /\ WrittenBack(c)' /\ InfoHonest(c)' /\ DropReal(c)'
  <2>1. rPc'[c] = "write"
    BY <1>0, <1>1, PcTyped, Zenon
  <2> QED BY <1>0, <1>1, <1>2, <2>1 DEF OwnHandler, Stored, WrittenBack, InfoHonest, DropReal
<1> QED BY <1>3, <1>4, <1>5 DEF AInv

\* The mode is written to drop_caches: the kernel frees what is clean, and what
\* is left was touched since the objects were written back.
LEMMA WriteModeKeeps ==
  ASSUME AInv, NEW c \in Callers, WriteMode(c)
  PROVE  AInv'
<1> DEFINE mode == parseDropCachesMode(rCall[c].mode)
<1>0. AgentTyped /\ OwnHandler(c) /\ WrittenBack(c) /\ rPc[c] = "write" /\ mode \subseteq Objects
  BY Zenon DEF AInv, WriteMode, parseDropCachesMode, Objects
<1>1. UNCHANGED <<nodeInfo, rField, rStore, rBody, rTouched, rCall, rDisturbed>>
  BY Zenon DEF WriteMode, infoVars
<1> HIDE DEF mode
<1>2. PICK status, body :
        /\ Reply(c, status, body)
        /\ \/ /\ status = 200 /\ body = <<mode>>
              /\ cached' = [o \in Objects |->
                   IF o \in mode /\ cached[o] = "clean" THEN "absent" ELSE cached[o]]
           \/ status = 500 /\ cached' = cached
  BY DEF WriteMode, mode
<1>3. /\ cached' \in [Objects -> {"dirty", "clean", "absent"}]
      /\ \A o \in Objects : /\ cached'[o] = "dirty" => cached[o] = "dirty"
                            /\ cached'[o] # "absent" => cached[o] # "absent"
                            /\ status = 200 /\ o \in mode /\ cached'[o] # "absent" => cached[o] = "dirty"
  BY <1>0, <1>2 DEF AgentTyped
<1>4. /\ rPc' \in [Callers -> {"idle", "fetch", "store", "marshal", "sync", "write"}]
      /\ DOMAIN rReply' = Callers /\ rReply' = [d \in Callers |-> rReply'[d]]
      /\ rPc'[c] = "idle" /\ rReply'[c] = [status |-> status, body |-> body]
      /\ \A d \in Callers \ {c} : rPc'[d] = rPc[d] /\ rReply'[d] = rReply[d]
  BY <1>0, <1>2, AnswerTyped
<1>5. AgentTyped'
  BY <1>0, <1>1, <1>3, <1>4 DEF AgentTyped
<1>6. ASSUME NEW d \in Callers, d # c
      PROVE  OwnHandler(d)' /\ Stored(d)' /\ WrittenBack(d)' /\ InfoHonest(d)' /\ DropReal(d)'
  <2>1. Untouched(d)
    BY <1>1, <1>4, <1>6 DEF Untouched
  <2> QED BY <1>0, <1>1, <1>3, <2>1, OthersKeep, Zenon DEF AgentTyped
<1>7. OwnHandler(c)' /\ Stored(c)' /\ WrittenBack(c)' /\ InfoHonest(c)'
  <2>1. rCall'[c].route = "drop"
    BY <1>0, <1>1 DEF OwnHandler
  <2> QED BY <1>4, <2>1 DEF OwnHandler, Stored, WrittenBack, InfoHonest
<1>8. DropReal(c)'
  <2>1. SUFFICES ASSUME status = 200, NEW o \in rReply'[c].body[1]
                 PROVE  o \in Objects /\ (cached'[o] # "absent" => o \in rTouched'[c])
    BY <1>4 DEF DropReal, post
  <2>2. o \in mode
    BY <1>2, <1>4, <2>1
  <2> QED BY <1>0, <1>1, <1>3, <2>1, <2>2 DEF WrittenBack
<1> QED BY <1>5, <1>6, <1>7, <1>8 DEF AInv

\* The kernel uses an object: every request that is served takes note of it.
LEMMA TouchKeeps ==
  ASSUME AInv, NEW o \in Objects, NEW state \in {"clean", "dirty"}, Touch(o, state)
  PROVE  AInv'
<1>0. AgentTyped
  BY DEF AInv
<1>1. UNCHANGED <<nodeInfo, rField, rStore, rBody, rPc, rCall, rReply, rDisturbed>>
  BY DEF Touch, infoVars, requestVars
<1>2. /\ cached' \in [Objects -> {"dirty", "clean", "absent"}]
      /\ rTouched' \in [Callers -> SUBSET Objects]
      /\ \A p \in Objects \ {o} : cached'[p] = cached[p]
      /\ \A d \in Callers : rTouched'[d] = rTouched[d] \cup {o}
  BY <1>0 DEF AgentTyped, Touch
<1>3. AgentTyped'
  BY <1>0, <1>1, <1>2 DEF AgentTyped
<1>4. ASSUME NEW d \in Callers
      PROVE  OwnHandler(d)' /\ Stored(d)' /\ WrittenBack(d)' /\ InfoHonest(d)' /\ DropReal(d)'
  <2>1. Untouched(d)
    BY <1>1, <1>2, <1>4, Zenon DEF Untouched
  <2>2. \A p \in Objects : cached'[p] = cached[p] \/ p \in rTouched'[d]
    BY <1>2
  <2>3. nodeInfo' \in [1..3 -> SUBSET Words2]
    BY <1>0, <1>1 DEF AgentTyped
  <2> QED BY <1>1, <2>1, <2>2, <2>3, OthersKeep, Zenon
<1> QED BY <1>3, <1>4 DEF AInv

\* A step that changes nothing.
LEMMA AgentStutters ==
  ASSUME AInv, UNCHANGED agentVars
  PROVE  AInv'
<1>1. UNCHANGED <<nodeInfo, rField, rStore, rBody, cached, rTouched, rPc, rCall, rReply, rDisturbed>>
  BY DEF agentVars, infoVars, dropVars, requestVars
<1>2. AgentTyped'
  BY <1>1 DEF AInv, AgentTyped
<1>3. ASSUME NEW c \in Callers
      PROVE  OwnHandler(c)' /\ Stored(c)' /\ WrittenBack(c)' /\ InfoHonest(c)' /\ DropReal(c)'
  <2>1. OwnHandler(c)' /\ Stored(c)'
    BY <1>1 DEF AInv, OwnHandler, Stored
  <2>2. WrittenBack(c)' /\ InfoHonest(c)' /\ DropReal(c)'
    BY <1>1 DEF AInv, WrittenBack, InfoHonest, DropReal
  <2> QED BY <2>1, <2>2
<1> QED BY <1>2, <1>3 DEF AInv

\* The invariant holds for any callers and any cached objects, however the
\* goroutines of the requests interleave.
THEOREM AgentInvariance == AgentSpec => []AInv
<1>1. AInv /\ [AgentNext]_agentVars => AInv'
  BY RequestKeeps, FetchKeeps, StoreKeeps, MarshalKeeps, SyncKeeps, WriteModeKeeps, TouchKeeps,
     AgentStutters DEF AgentNext
<1> QED BY <1>1, AgentStart, PTL DEF AgentSpec

\* A GET of the node information that no failure of another request disturbs
\* answers with the whole record or with none of it (handleNodeInfo,
\* fetchNodeInfo), for any number of callers, although they share a record
\* without a lock.
THEOREM NodeInfoIsHonest == AgentSpec => []NodeInfoHonest
<1>1. AInv => NodeInfoHonest
  BY DEF AInv, InfoHonest, NodeInfoHonest
<1> QED BY <1>1, AgentInvariance, PTL

\* When DropCaches returns without an error, what it was to free is not cached,
\* unless it was used since (handleCacheDrop, dropCaches, post), for any number
\* of callers and of cached objects.
THEOREM DropsAreReal == AgentSpec => []DropIsReal
<1>1. AInv => DropIsReal
  BY DEF AInv, DropReal, DropIsReal
<1> QED BY <1>1, AgentInvariance, PTL

-----------------------------------------------------------------------------
(* The metrics builder. *)

\* An element of a sequence replaced.
LEMMA SeqReplaced ==
  ASSUME NEW S, NEW q \in Seq(S), NEW i \in 1..Len(q), NEW v \in S
  PROVE  [q EXCEPT ![i] = v] \in Seq(S)
OBVIOUS

BuilderSpec == BuilderInit /\ [][BuilderNext]_builderVars

AttributeValues == [{"server", "instance"} -> BuilderServers \cup {"i"}]
LogEntries == [val : Nat, attributes : AttributeValues]

\* The attributes that are put on a point, and the entries of a log it stands for.
Put(config, attrs) == [a \in config.attributes |-> attrs[a]]
Behind(config, log, attributes) ==
  {j \in DOMAIN log : Put(config, log[j].attributes) = attributes}

Values(log) == [j \in DOMAIN log |-> log[j].val]

Buffered(config) ==
  [attributes : {Put(config, attrs) : attrs \in AttributeValues}, ts : Nat, val : Nat, count : Nat]

\* A point has what its strategy makes of the entries idx.
Holds(strategy, p, log, idx) ==
  /\ idx # {}
  /\ strategy \in {"sum", "avg"} => p.val = Total(Values(log), idx) /\ p.count = Cardinality(idx)
  /\ strategy = "min" => (\E j \in idx : p.val = log[j].val) /\ \A j \in idx : p.val <= log[j].val
  /\ strategy = "max" => (\E j \in idx : p.val = log[j].val) /\ \A j \in idx : log[j].val <= p.val

\* The buffer of a metric that merges points.
Merged(config, points, log, ts) ==
  /\ points \in Seq(Buffered(config))
  /\ \A i \in DOMAIN points : points[i].ts = ts
  /\ \A i, j \in DOMAIN points : points[i].attributes = points[j].attributes => i = j
  /\ \A j \in DOMAIN log :
       \E i \in DOMAIN points : points[i].attributes = Put(config, log[j].attributes)
  /\ \A i \in DOMAIN points :
       Holds(config.aggregation_strategy, points[i], log,
             Behind(config, log, points[i].attributes))

\* That of one that does not.
Listed(config, points, log) ==
  /\ points \in Seq(Buffered(config)) /\ DOMAIN points = DOMAIN log
  /\ \A i \in DOMAIN log : points[i].val = log[i].val

BuilderTyped ==
  /\ bMetric \in BuilderMetrics /\ bState \in {"start", "refused", "running"}
  /\ bConfig.enabled \in BOOLEAN /\ bLog \in Seq(LogEntries) /\ bEmits \in Nat

BufferInv ==
  /\ bState # "running" => bPoints = <<>> /\ bLog = <<>> /\ bOut = NothingEmitted
  /\ bState = "running" =>
       /\ Validate(bMetric, bConfig)
       /\ ~bConfig.enabled => bPoints = <<>>
       /\ bConfig.enabled /\ bMetric.aggregated => Merged(bConfig, bPoints, bLog, bEmits)
       /\ bConfig.enabled /\ ~bMetric.aggregated => Listed(bConfig, bPoints, bLog)

BInv == BuilderTyped /\ BufferInv /\ AggregationExact


\* A log with one entry more.
LEMMA LogGrows ==
  ASSUME NEW log \in Seq(LogEntries), NEW e \in LogEntries
  PROVE  /\ Append(log, e) \in Seq(LogEntries)
         /\ Len(log) \in Nat /\ DOMAIN log = 1..Len(log)
         /\ DOMAIN Append(log, e) = DOMAIN log \cup {Len(log) + 1}
         /\ Len(log) + 1 \notin DOMAIN log
         /\ \A j \in DOMAIN log : Append(log, e)[j] = log[j] /\ log[j] \in LogEntries
         /\ Append(log, e)[Len(log) + 1] = e
<1>1. Len(log) \in Nat /\ DOMAIN log = 1..Len(log) /\ Append(log, e) \in Seq(LogEntries)
  OBVIOUS
<1>2. DOMAIN Append(log, e) = 1..(Len(log) + 1)
  OBVIOUS
<1> QED BY <1>1, <1>2

\* The entries behind a point, and those after one entry more.
LEMMA BehindPart ==
  ASSUME NEW config, NEW log, NEW attributes
  PROVE  Behind(config, log, attributes) \in SUBSET DOMAIN log
BY Zenon DEF Behind

\* An entry is behind the point with its attributes,
LEMMA BehindMore ==
  ASSUME NEW log \in Seq(LogEntries), NEW e \in LogEntries, NEW config
  PROVE  Behind(config, Append(log, e), Put(config, e.attributes))
           = Behind(config, log, Put(config, e.attributes)) \cup {Len(log) + 1}
<1> DEFINE new == Append(log, e)
           n == Len(log) + 1
<1>1. /\ DOMAIN new = DOMAIN log \cup {n} /\ n \notin DOMAIN log /\ new[n] = e
      /\ \A j \in DOMAIN log : new[j] = log[j]
  BY LogGrows
<1> HIDE DEF new, n
<1> QED BY <1>1, Zenon DEF Behind, new, n

\* and behind no other.
LEMMA BehindSame ==
  ASSUME NEW log \in Seq(LogEntries), NEW e \in LogEntries, NEW config, NEW attributes,
         Put(config, e.attributes) # attributes
  PROVE  Behind(config, Append(log, e), attributes) = Behind(config, log, attributes)
<1> DEFINE new == Append(log, e)
           n == Len(log) + 1
<1>1. /\ DOMAIN new = DOMAIN log \cup {n} /\ n \notin DOMAIN log /\ new[n] = e
      /\ \A j \in DOMAIN log : new[j] = log[j]
  BY LogGrows
<1> HIDE DEF new, n
<1> QED BY <1>1, Zenon DEF Behind, new, n

\* The values of a log, and their sum over some of its entries.
LEMMA ValuesTotal ==
  ASSUME NEW log \in Seq(LogEntries), NEW idx \in SUBSET DOMAIN log
  PROVE  /\ IsFiniteSet(idx) /\ Cardinality(idx) \in Nat
         /\ \A j \in idx : Values(log)[j] = log[j].val /\ log[j].val \in Nat
         /\ Total(Values(log), idx) \in Nat
<1>1. IsFiniteSet(idx)
  <2>1. DOMAIN log = 1..Len(log) /\ Len(log) \in Nat
    OBVIOUS
  <2>2. IsFiniteSet(1..Len(log))
    BY <2>1, FS_Interval
  <2> QED BY <2>1, <2>2, FS_Subset, Zenon
<1>2. Cardinality(idx) \in Nat
  BY <1>1, FS_CardinalityType
<1>3. \A j \in idx : Values(log)[j] = log[j].val /\ log[j].val \in Nat
  <2>1. \A j \in DOMAIN log : log[j] \in LogEntries
    OBVIOUS
  <2> QED BY <2>1 DEF Values, LogEntries
<1>4. Total(Values(log), idx) \in Nat
  BY <1>1, <1>3, TotalNat
<1> QED BY <1>1, <1>2, <1>3, <1>4

\* A sum over entries that were there stays, and one over one entry more grows by
\* its value.
LEMMA TotalGrows ==
  ASSUME NEW log \in Seq(LogEntries), NEW e \in LogEntries, NEW idx \in SUBSET DOMAIN log
  PROVE  /\ Total(Values(Append(log, e)), idx) = Total(Values(log), idx)
         /\ Total(Values(Append(log, e)), idx \cup {Len(log) + 1})
              = Total(Values(log), idx) + e.val
         /\ Cardinality(idx \cup {Len(log) + 1}) = Cardinality(idx) + 1
<1> DEFINE new == Append(log, e)
           n == Len(log) + 1
           more == idx \cup {n}
<1>1. /\ new \in Seq(LogEntries) /\ DOMAIN new = DOMAIN log \cup {n} /\ n \notin DOMAIN log
      /\ new[n] = e /\ \A j \in DOMAIN log : new[j] = log[j]
  BY LogGrows
<1> HIDE DEF new, n
<1>2. idx \in SUBSET DOMAIN new /\ more \in SUBSET DOMAIN new /\ n \notin idx /\ more \ {n} = idx
  BY <1>1
<1>3. /\ IsFiniteSet(idx) /\ Cardinality(idx) \in Nat /\ Total(Values(log), idx) \in Nat
      /\ \A j \in idx : Values(log)[j] = log[j].val /\ log[j].val \in Nat
  BY ValuesTotal, Zenon
<1>4. /\ IsFiniteSet(more)
      /\ \A j \in more : Values(new)[j] = new[j].val /\ new[j].val \in Nat
  <2> HIDE DEF more
  <2> QED BY <1>1, <1>2, ValuesTotal, Zenon
<1>5. Total(Values(new), idx) = Total(Values(log), idx)
  <2>1. \A j \in idx : Values(new)[j] \in Int /\ Values(new)[j] = Values(log)[j]
    BY <1>1, <1>3, <1>4
  <2> QED BY <1>3, <2>1, TotalSame, Zenon
<1>6. Total(Values(new), more) = Values(new)[n] + Total(Values(new), more \ {n})
  <2>1. \A j \in more : Values(new)[j] \in Int
    BY <1>4
  <2>2. n \in more
    OBVIOUS
  <2> HIDE DEF more
  <2> QED BY <1>4, <2>1, <2>2, TotalRemove, Zenon
<1>7. Values(new)[n] = e.val /\ e.val \in Nat
  BY <1>1, <1>4
<1>8. Cardinality(more) = Cardinality(idx) + 1
  BY <1>2, <1>3, FS_AddElement
<1>9. Total(Values(new), more) = Total(Values(log), idx) + e.val
  <2>1. Total(Values(new), more) = e.val + Total(Values(log), idx)
    <3> HIDE DEF more
    <3> QED BY <1>2, <1>5, <1>6, <1>7, Zenon
  <2>2. \A x, y \in Nat : x + y = y + x
    OBVIOUS
  <2> HIDE DEF more
  <2> QED BY <1>3, <1>7, <2>1, <2>2, Zenon
<1> QED BY <1>5, <1>8, <1>9, Zenon DEF new, n

\* What a point has does not change with an entry that is not behind it.
LEMMA HoldsLonger ==
  ASSUME NEW st, NEW p, NEW log \in Seq(LogEntries), NEW e \in LogEntries,
         NEW idx \in SUBSET DOMAIN log, Holds(st, p, log, idx)
  PROVE  Holds(st, p, Append(log, e), idx)
<1>1. Total(Values(Append(log, e)), idx) = Total(Values(log), idx)
  BY TotalGrows, Zenon
<1>2. \A j \in idx : Append(log, e)[j] = log[j]
  BY LogGrows
<1> QED BY <1>1, <1>2, Zenon DEF Holds

\* A new point has the value of its one entry.
LEMMA HoldsFirst ==
  ASSUME NEW st, NEW p, NEW log \in Seq(LogEntries), NEW e \in LogEntries,
         p.val = e.val, p.count = 1
  PROVE  Holds(st, p, Append(log, e), {Len(log) + 1})
<1> DEFINE n == Len(log) + 1
           new == Append(log, e)
<1>1. /\ Total(Values(new), {} \cup {n}) = Total(Values(log), {}) + e.val
      /\ Cardinality({} \cup {n}) = Cardinality({}) + 1
  BY TotalGrows, Zenon
<1>2. Total(Values(log), {}) = 0 /\ Cardinality({}) = 0 /\ {} \cup {n} = {n}
  BY TotalEmpty, FS_EmptySet
<1>3. e.val \in Nat
  BY DEF LogEntries
<1>4. Total(Values(new), {n}) = e.val /\ Cardinality({n}) = 1
  <2>1. \A x \in Nat : 0 + x = x
    OBVIOUS
  <2>2. 0 + 1 = 1
    OBVIOUS
  <2> HIDE DEF n, new
  <2> QED BY <1>1, <1>2, <1>3, <2>1, <2>2, Zenon
<1>5. new[n] = e
  BY LogGrows
<1>6. e.val <= e.val
  BY <1>3
<1> HIDE DEF n, new
<1>7. Holds(st, p, new, {n})
  BY <1>4, <1>5, <1>6, Zenon DEF Holds
<1> QED BY <1>7 DEF n, new

\* A merged point has the value of one entry more.
LEMMA HoldsMerged ==
  ASSUME NEW st \in Strategies, NEW config, NEW p \in Buffered(config),
         NEW log \in Seq(LogEntries), NEW e \in LogEntries,
         NEW idx \in SUBSET DOMAIN log, Holds(st, p, log, idx)
  PROVE  /\ mergePoint(st, p, e.val) \in Buffered(config)
         /\ mergePoint(st, p, e.val).attributes = p.attributes
         /\ mergePoint(st, p, e.val).ts = p.ts
         /\ Holds(st, mergePoint(st, p, e.val), Append(log, e), idx \cup {Len(log) + 1})
<1> DEFINE v == e.val
           m == mergePoint(st, p, v)
           n == Len(log) + 1
           new == Append(log, e)
<1>1. v \in Nat /\ p.val \in Nat /\ p.count \in Nat
  BY DEF LogEntries, Buffered
<1>2. new[n] = e /\ \A j \in idx : new[j] = log[j] /\ log[j].val \in Nat
  <2>1. new[n] = e /\ \A j \in idx : new[j] = log[j] /\ log[j] \in LogEntries
    BY LogGrows
  <2> QED BY <2>1 DEF LogEntries
<1>3. /\ Total(Values(new), idx \cup {n}) = Total(Values(log), idx) + v
      /\ Cardinality(idx \cup {n}) = Cardinality(idx) + 1
  BY TotalGrows, Zenon
<1> HIDE DEF n, new, v
<1>4. CASE st \in {"sum", "avg"}
  <2>1. m = [p EXCEPT !.val = @ + v, !.count = @ + 1]
    BY <1>4, Zenon DEF mergePoint
  <2>2. /\ m.val = p.val + v /\ m.count = p.count + 1 /\ m.attributes = p.attributes /\ m.ts = p.ts
        /\ m \in Buffered(config)
    <3>1. p.val + v \in Nat /\ p.count + 1 \in Nat
      BY <1>1
    <3> HIDE DEF m
    <3>2. m = [p EXCEPT !.val = p.val + v, !.count = p.count + 1]
      BY <2>1
    <3> QED BY <3>1, <3>2 DEF Buffered
  <2>3. p.val = Total(Values(log), idx) /\ p.count = Cardinality(idx)
    BY <1>4, Zenon DEF Holds
  <2>4. Holds(st, m, new, idx \cup {n})
    <3>1. st # "min" /\ st # "max" /\ idx \cup {n} # {}
      BY <1>4, Zenon
    <3> HIDE DEF m
    <3> QED BY <1>3, <2>2, <2>3, <3>1, Zenon DEF Holds
  <2> QED BY <2>2, <2>4, Zenon DEF n, new, v
<1>5. CASE st = "min"
  <2>1. m = [p EXCEPT !.val = IF @ > v THEN v ELSE @]
    BY <1>5, Zenon DEF mergePoint
  <2>2. /\ m.val = IF p.val > v THEN v ELSE p.val
        /\ m.attributes = p.attributes /\ m.ts = p.ts /\ m \in Buffered(config)
    <3> HIDE DEF m
    <3> QED BY <1>1, <2>1 DEF Buffered
  <2>3. (\E j \in idx : p.val = log[j].val) /\ \A j \in idx : p.val <= log[j].val
    BY <1>5, Zenon DEF Holds
  <2>4. /\ \E j \in idx \cup {n} : m.val = new[j].val
        /\ \A j \in idx \cup {n} : m.val <= new[j].val
    <3> HIDE DEF m
    <3> QED BY <1>1, <1>2, <2>2, <2>3 DEF v
  <2>5. Holds(st, m, new, idx \cup {n})
    <3>1. st \notin {"sum", "avg"} /\ st # "max" /\ idx \cup {n} # {}
      BY <1>5, Zenon
    <3> HIDE DEF m
    <3> QED BY <2>4, <3>1, Zenon DEF Holds
  <2> QED BY <2>2, <2>5, Zenon DEF n, new, v
<1>6. CASE st = "max"
  <2>1. m = [p EXCEPT !.val = IF @ < v THEN v ELSE @]
    BY <1>6, Zenon DEF mergePoint
  <2>2. /\ m.val = IF p.val < v THEN v ELSE p.val
        /\ m.attributes = p.attributes /\ m.ts = p.ts /\ m \in Buffered(config)
    <3> HIDE DEF m
    <3> QED BY <1>1, <2>1 DEF Buffered
  <2>3. (\E j \in idx : p.val = log[j].val) /\ \A j \in idx : log[j].val <= p.val
    BY <1>6, Zenon DEF Holds
  <2>4. /\ \E j \in idx \cup {n} : m.val = new[j].val
        /\ \A j \in idx \cup {n} : new[j].val <= m.val
    <3> HIDE DEF m
    <3> QED BY <1>1, <1>2, <2>2, <2>3 DEF v
  <2>5. Holds(st, m, new, idx \cup {n})
    <3>1. st \notin {"sum", "avg"} /\ st # "min" /\ idx \cup {n} # {}
      BY <1>6, Zenon
    <3> HIDE DEF m
    <3> QED BY <2>4, <3>1, Zenon DEF Holds
  <2> QED BY <2>2, <2>5, Zenon DEF n, new, v
<1> QED BY <1>4, <1>5, <1>6 DEF Strategies

\* recordDataPoint of a metric that merges points.
LEMMA RecordMerged ==
  ASSUME NEW metric, NEW config, config.enabled, metric.aggregated,
         config.aggregation_strategy \in Strategies,
         NEW points, NEW log \in Seq(LogEntries), NEW ts \in Nat, Merged(config, points, log, ts),
         NEW e \in LogEntries
  PROVE  Merged(config, recordDataPoint(metric, config, points, ts, e.val, e.attributes),
                Append(log, e), ts)
<1> DEFINE put == Put(config, e.attributes)
           same == {i \in DOMAIN points : points[i].attributes = put /\ points[i].ts = ts}
           new == Append(log, e)
           n == Len(log) + 1
           st == config.aggregation_strategy
           recorded == recordDataPoint(metric, config, points, ts, e.val, e.attributes)
<1>1. /\ points \in Seq(Buffered(config))
      /\ \A i \in DOMAIN points : points[i].ts = ts /\ points[i] \in Buffered(config)
      /\ \A i, j \in DOMAIN points : points[i].attributes = points[j].attributes => i = j
  <2>1. points \in Seq(Buffered(config))
    BY DEF Merged
  <2>2. \A i \in DOMAIN points : points[i] \in Buffered(config)
    BY <2>1
  <2> QED BY <2>1, <2>2, Zenon DEF Merged
<1>2. \A j \in DOMAIN log :
        \E i \in DOMAIN points : points[i].attributes = Put(config, log[j].attributes)
  BY Zenon DEF Merged
<1>3. ASSUME NEW i \in DOMAIN points
      PROVE  /\ Behind(config, log, points[i].attributes) \in SUBSET DOMAIN log
             /\ Holds(st, points[i], log, Behind(config, log, points[i].attributes))
  BY BehindPart, Zenon DEF Merged
<1>4. /\ DOMAIN new = DOMAIN log \cup {n} /\ new[n] = e
      /\ \A j \in DOMAIN log : new[j] = log[j]
  BY LogGrows
<1>5. ASSUME NEW i \in DOMAIN points, points[i].attributes # put
      PROVE  Holds(st, points[i], new, Behind(config, new, points[i].attributes))
  <2>1. Behind(config, new, points[i].attributes) = Behind(config, log, points[i].attributes)
    <3>1. Put(config, e.attributes) # points[i].attributes
      BY <1>5
    <3> QED BY <3>1, BehindSame
  <2> QED BY <1>3, <2>1, HoldsLonger, Zenon
<1>6. CASE same # {}
  <2> DEFINE i == CHOOSE k \in same : TRUE
             pt == points[i]
             m == mergePoint(st, pt, e.val)
  <2>1. i \in DOMAIN points /\ points[i].attributes = put
    <3>1. i \in same
      BY <1>6, Zenon
    <3> QED BY <3>1, Zenon
  <2>2. recorded = [points EXCEPT ![i] = m]
    BY <1>6, Zenon DEF recordDataPoint, Put
  <2> HIDE DEF i
  <2>3. /\ m \in Buffered(config) /\ m.attributes = put /\ m.ts = ts
        /\ Holds(st, m, new, Behind(config, log, put) \cup {n})
    <3> DEFINE idx == Behind(config, log, points[i].attributes)
    <3>1. points[i] \in Buffered(config) /\ idx \in SUBSET DOMAIN log /\ Holds(st, points[i], log, idx)
      BY <1>1, <1>3, <2>1, Zenon
    <3>2. points[i].ts = ts /\ idx = Behind(config, log, put)
      BY <1>1, <2>1, Zenon
    <3> HIDE DEF idx
    <3>3. /\ m \in Buffered(config) /\ m.attributes = pt.attributes /\ m.ts = pt.ts
          /\ Holds(st, m, new, idx \cup {n})
      <4>1. pt \in Buffered(config) /\ idx \in SUBSET DOMAIN log /\ Holds(st, pt, log, idx)
            /\ st \in Strategies
        BY <3>1, Zenon
      <4> HIDE DEF put, pt, st
      <4>2. m \in Buffered(config)
        BY <4>1, HoldsMerged, Zenon
      <4>3. m.attributes = pt.attributes
        BY <4>1, HoldsMerged, Zenon
      <4>4. m.ts = pt.ts
        BY <4>1, HoldsMerged, Zenon
      <4>5. Holds(st, m, new, idx \cup {n})
        BY <4>1, HoldsMerged, Zenon
      <4> QED BY <4>2, <4>3, <4>4, <4>5
    <3> HIDE DEF m, put
    <3> QED BY <2>1, <3>2, <3>3, Zenon
  <2>4. Behind(config, new, put) = Behind(config, log, put) \cup {n}
    BY BehindMore, Zenon
  <2> HIDE DEF m, put, new, n, st
  <2>5. /\ recorded \in Seq(Buffered(config)) /\ DOMAIN recorded = DOMAIN points
        /\ recorded[i] = m /\ \A j \in DOMAIN points : j # i => recorded[j] = points[j]
    <3> HIDE DEF recorded
    <3>1. recorded \in Seq(Buffered(config))
      BY <1>1, <2>1, <2>2, <2>3, SeqReplaced
    <3> QED BY <2>1, <2>2, <3>1, Zenon
  <2> HIDE DEF recorded
  <2>6. \A j \in DOMAIN recorded : recorded[j].attributes = points[j].attributes
    BY <2>1, <2>3, <2>5, Zenon
  <2>7. \A j \in DOMAIN recorded : recorded[j].ts = ts
    BY <1>1, <2>3, <2>5, Zenon
  <2>8. \A j, k \in DOMAIN recorded : recorded[j].attributes = recorded[k].attributes => j = k
    BY <1>1, <2>5, <2>6, Zenon
  <2>9. \A j \in DOMAIN new :
          \E k \in DOMAIN recorded : recorded[k].attributes = Put(config, new[j].attributes)
    <3>1. i \in DOMAIN recorded /\ recorded[i].attributes = Put(config, new[n].attributes)
      BY <1>4, <2>1, <2>5, <2>6, Zenon DEF put
    <3>2. ASSUME NEW j \in DOMAIN log
          PROVE  \E k \in DOMAIN recorded : recorded[k].attributes = Put(config, new[j].attributes)
      <4>1. PICK k \in DOMAIN points : points[k].attributes = Put(config, log[j].attributes)
        BY <1>2, Zenon
      <4> QED BY <1>4, <2>5, <2>6, <4>1, Zenon
    <3> QED BY <1>4, <3>1, <3>2, Zenon
  <2>10. ASSUME NEW j \in DOMAIN recorded
         PROVE  Holds(st, recorded[j], new, Behind(config, new, recorded[j].attributes))
    <3>1. CASE j = i
      BY <2>1, <2>3, <2>4, <2>5, <3>1, Zenon
    <3>2. CASE j # i
      <4>1. points[j].attributes # put
        BY <1>1, <2>1, <2>5, <3>2, Zenon
      <4> QED BY <1>5, <2>5, <3>2, <4>1, Zenon
    <3> QED BY <3>1, <3>2
  <2> QED BY <2>5, <2>7, <2>8, <2>9, <2>10, Zenon DEF Merged, st, recorded, new
<1>7. CASE same = {}
  <2> DEFINE p == [attributes |-> put, ts |-> ts, val |-> e.val, count |-> 1]
             k == Len(points) + 1
  <2>1. recorded = Append(points, p)
    BY <1>7, Zenon DEF recordDataPoint, Put
  <2>2. p \in Buffered(config) /\ p.attributes = put /\ p.ts = ts /\ p.val = e.val /\ p.count = 1
    <3>1. e.val \in Nat /\ e.attributes \in AttributeValues
      BY DEF LogEntries
    <3>2. put \in {Put(config, attrs) : attrs \in AttributeValues}
      BY <3>1, Zenon
    <3> HIDE DEF put
    <3> QED BY <3>1, <3>2 DEF Buffered
  <2>3. \A i \in DOMAIN points : points[i].attributes # put
    BY <1>1, <1>7, Zenon
  <2>4. Behind(config, new, put) = {n}
    <3>1. Behind(config, log, put) = {}
      BY <1>2, <2>3, Zenon DEF Behind
    <3>2. Behind(config, new, put) = Behind(config, log, put) \cup {n}
      BY BehindMore, Zenon
    <3> QED BY <3>1, <3>2, Zenon
  <2> HIDE DEF p
  <2>5. Holds(st, p, new, {n})
    BY <2>2, HoldsFirst, Zenon
  <2> HIDE DEF put, new, n, st
  <2>6. /\ recorded \in Seq(Buffered(config)) /\ DOMAIN recorded = DOMAIN points \cup {k}
        /\ k \notin DOMAIN points
        /\ recorded[k] = p /\ \A j \in DOMAIN points : recorded[j] = points[j]
    <3> HIDE DEF recorded
    <3>1. DOMAIN points = 1..Len(points) /\ Len(points) \in Nat
      BY <1>1
    <3>2. recorded \in Seq(Buffered(config)) /\ DOMAIN recorded = 1..(Len(points) + 1)
      BY <1>1, <2>1, <2>2
    <3> QED BY <1>1, <2>1, <2>2, <3>1, <3>2
  <2> HIDE DEF recorded, k
  <2>7. \A j \in DOMAIN recorded : recorded[j].ts = ts
    BY <1>1, <2>2, <2>6, Zenon
  <2>8. \A j, l \in DOMAIN recorded : recorded[j].attributes = recorded[l].attributes => j = l
    BY <1>1, <2>2, <2>3, <2>6, Zenon
  <2>9. \A j \in DOMAIN new :
          \E l \in DOMAIN recorded : recorded[l].attributes = Put(config, new[j].attributes)
    <3>1. k \in DOMAIN recorded /\ recorded[k].attributes = Put(config, new[n].attributes)
      BY <1>4, <2>2, <2>6, Zenon DEF put
    <3>2. ASSUME NEW j \in DOMAIN log
          PROVE  \E l \in DOMAIN recorded : recorded[l].attributes = Put(config, new[j].attributes)
      <4>1. PICK l \in DOMAIN points : points[l].attributes = Put(config, log[j].attributes)
        BY <1>2, Zenon
      <4> QED BY <1>4, <2>6, <4>1, Zenon
    <3> QED BY <1>4, <3>1, <3>2, Zenon
  <2>10. \A j \in DOMAIN recorded :
           Holds(st, recorded[j], new, Behind(config, new, recorded[j].attributes))
    BY <1>5, <2>2, <2>3, <2>4, <2>5, <2>6, Zenon
  <2> QED BY <2>6, <2>7, <2>8, <2>9, <2>10, Zenon DEF Merged, st, recorded, new
<1> QED BY <1>6, <1>7

\* recordDataPoint of a metric that does not merge points.
LEMMA RecordListed ==
  ASSUME NEW metric, NEW config, config.enabled, ~metric.aggregated,
         NEW points, NEW log \in Seq(LogEntries), NEW ts \in Nat, Listed(config, points, log),
         NEW e \in LogEntries
  PROVE  Listed(config, recordDataPoint(metric, config, points, ts, e.val, e.attributes),
                Append(log, e))
<1> DEFINE p == [attributes |-> Put(config, e.attributes), ts |-> ts, val |-> e.val, count |-> 1]
           recorded == recordDataPoint(metric, config, points, ts, e.val, e.attributes)
<1>1. recorded = Append(points, p)
  BY Zenon DEF recordDataPoint, Put
<1>2. p \in Buffered(config) /\ p.val = e.val
  <2>1. e.val \in Nat /\ e.attributes \in AttributeValues
    BY DEF LogEntries
  <2>2. Put(config, e.attributes) \in {Put(config, attrs) : attrs \in AttributeValues}
    BY <2>1, Zenon
  <2> QED BY <2>1, <2>2 DEF Buffered
<1> HIDE DEF p, recorded
<1>3. points \in Seq(Buffered(config)) /\ DOMAIN points = DOMAIN log
      /\ \A i \in DOMAIN log : points[i].val = log[i].val
  BY Zenon DEF Listed
<1>4. Len(points) = Len(log)
  BY <1>3
<1>5. /\ recorded \in Seq(Buffered(config)) /\ DOMAIN recorded = 1..(Len(log) + 1)
      /\ recorded[Len(log) + 1] = p /\ \A i \in DOMAIN log : recorded[i] = points[i]
  BY <1>1, <1>2, <1>3, <1>4
<1>6. /\ DOMAIN Append(log, e) = 1..(Len(log) + 1)
      /\ DOMAIN Append(log, e) = DOMAIN log \cup {Len(log) + 1}
      /\ Append(log, e)[Len(log) + 1] = e /\ \A j \in DOMAIN log : Append(log, e)[j] = log[j]
  BY LogGrows
<1> QED BY <1>2, <1>3, <1>5, <1>6, Zenon DEF Listed, recorded

\* What Aggregate adds up is the total of the log's values.
LEMMA AggregateTotal ==
  ASSUME NEW log \in Seq(LogEntries), NEW idx \in SUBSET DOMAIN log
  PROVE  MapThenSumSet(LAMBDA i : log[i].val, idx) = Total(Values(log), idx)
<1> DEFINE g == Values(log)
           F == CHOOSE f : f = [s \in SUBSET idx |->
                  IF s = {} THEN 0 ELSE log[First(s)].val + f[s \ {First(s)}]]
<1>1. MapThenSumSet(LAMBDA i : log[i].val, idx) = F[idx]
  BY Zenon DEF MapThenSumSet, MapThenFoldSet, First
<1>2. /\ IsFiniteSet(idx)
      /\ \A j \in idx : g[j] = log[j].val /\ g[j] \in Int
  BY ValuesTotal
<1> HIDE DEF g
<1>3. PICK h : IsSum(h, idx, g)
  BY <1>2, SumExists, Zenon
<1>4. \A s \in SUBSET idx : s # {} => g[First(s)] = log[First(s)].val
  BY <1>2, SmallerSet
<1>5. h = [s \in SUBSET idx |-> IF s = {} THEN 0 ELSE log[First(s)].val + h[s \ {First(s)}]]
  BY <1>3, <1>4 DEF IsSum, Added
<1>6. F = [s \in SUBSET idx |-> IF s = {} THEN 0 ELSE log[First(s)].val + F[s \ {First(s)}]]
  BY <1>5, Zenon
<1> HIDE DEF F
<1>7. IsSum(F, idx, g)
  BY <1>4, <1>6 DEF IsSum, Added
<1>8. Total(g, idx) = F[idx]
  BY <1>2, <1>7, TotalIs
<1> QED BY <1>1, <1>8 DEF g

\* What the points of a metric are to be, given the log of what was recorded.
PointsExact(metric, config, points, log) ==
  /\ ~config.enabled => points = <<>>
  /\ config.enabled /\ ~metric.aggregated =>
       [i \in DOMAIN points |-> points[i].val] = [i \in DOMAIN log |-> log[i].val]
  /\ config.enabled /\ metric.aggregated =>
       /\ {points[i].attributes : i \in DOMAIN points}
            = {Put(config, log[i].attributes) : i \in DOMAIN log}
       /\ \A i, j \in DOMAIN points : points[i].attributes = points[j].attributes => i = j
       /\ \A i \in DOMAIN points :
            points[i].val = Aggregate(metric, config.aggregation_strategy, log,
                                      Behind(config, log, points[i].attributes))

\* What emit makes of a point whose values were merged.
Made(metric, strategy, p) ==
  IF strategy = "avg" THEN IF metric.val = "int" THEN p.val \div p.count ELSE <<p.val, p.count>>
  ELSE p.val

\* The value that is emitted for a point is the aggregate of the entries behind it.
LEMMA EmitAggregates ==
  ASSUME NEW metric, NEW st \in Strategies, NEW p, NEW log \in Seq(LogEntries),
         NEW idx \in SUBSET DOMAIN log, Holds(st, p, log, idx)
  PROVE  Made(metric, st, p) = Aggregate(metric, st, log, idx)
<1> DEFINE vals == {log[i].val : i \in idx}
           total == MapThenSumSet(LAMBDA i : log[i].val, idx)
<1>1. total = Total(Values(log), idx)
  BY AggregateTotal, Zenon
<1> HIDE DEF total
<1>2. idx # {} /\ \A j \in idx : log[j].val \in Nat
  BY ValuesTotal DEF Holds
<1>3. CASE st = "sum"
  <2>1. p.val = Total(Values(log), idx)
    BY <1>3, Zenon DEF Holds
  <2>2. Aggregate(metric, st, log, idx) = total
    BY <1>3, Zenon DEF Aggregate, total
  <2> QED BY <1>1, <1>3, <2>1, <2>2, Zenon DEF Made
<1>4. CASE st = "avg"
  <2>1. p.val = Total(Values(log), idx) /\ p.count = Cardinality(idx)
    BY <1>4, Zenon DEF Holds
  <2>2. Aggregate(metric, st, log, idx) =
          IF metric.val = "int" THEN total \div Cardinality(idx) ELSE <<total, Cardinality(idx)>>
    BY <1>4, Zenon DEF Aggregate, total
  <2> QED BY <1>1, <1>4, <2>1, <2>2, Zenon DEF Made
<1>5. vals \in SUBSET Nat /\ vals # {}
  BY <1>2, Zenon
<1>6. CASE st = "min"
  <2>1. p.val \in vals /\ \A y \in vals : p.val <= y
    BY <1>6, Zenon DEF Holds
  <2>2. Aggregate(metric, st, log, idx) = Min(vals)
    BY <1>6, Zenon DEF Aggregate
  <2> HIDE DEF vals
  <2>3. Min(vals) \in vals /\ \A y \in vals : Min(vals) <= y
    BY <1>5, LeastNumber
  <2>4. Min(vals) = p.val
    <3> DEFINE m == Min(vals)
    <3>1. m \in Nat /\ p.val \in Nat /\ m <= p.val /\ p.val <= m
      BY <1>5, <2>1, <2>3, Zenon
    <3> HIDE DEF m
    <3>2. m = p.val
      BY <3>1
    <3> QED BY <3>2 DEF m
  <2> QED BY <1>6, <2>2, <2>4, Zenon DEF Made
<1>7. CASE st = "max"
  <2>1. p.val \in vals /\ \A y \in vals : y <= p.val
    BY <1>7, Zenon DEF Holds
  <2>2. Aggregate(metric, st, log, idx) = Max(vals)
    BY <1>7, Zenon DEF Aggregate
  <2> HIDE DEF vals
  <2>3. Max(vals) = p.val
    BY <1>5, <2>1, GreatestNumber
  <2> QED BY <1>7, <2>2, <2>3, Zenon DEF Made
<1> QED BY <1>3, <1>4, <1>6, <1>7 DEF Strategies

\* emit gives each point its attributes, and the value its strategy makes of it.
LEMMA EmitPoint ==
  ASSUME NEW metric, NEW config, NEW points
  PROVE  emit(metric, config, points) = [i \in DOMAIN points |->
           [attributes |-> points[i].attributes, ts |-> points[i].ts,
            val |-> IF metric.aggregated THEN Made(metric, config.aggregation_strategy, points[i])
                    ELSE points[i].val]]
<1>1. ASSUME NEW i \in DOMAIN points
      PROVE  (IF metric.aggregated /\ config.aggregation_strategy = "avg"
              THEN IF metric.val = "int" THEN points[i].val \div points[i].count
                   ELSE <<points[i].val, points[i].count>>
              ELSE points[i].val)
             = (IF metric.aggregated THEN Made(metric, config.aggregation_strategy, points[i])
                ELSE points[i].val)
  BY Zenon DEF Made
<1> QED BY <1>1, Zenon DEF emit

\* What EmitPoints emits of a buffer.
Flushed(metric, config, points) ==
  IF config.enabled THEN emit(metric, config, points) ELSE <<>>

\* It is exact.
LEMMA EmitExact ==
  ASSUME NEW metric, NEW config, config.aggregation_strategy \in Strategies,
         NEW points, NEW log \in Seq(LogEntries), NEW ts,
         config.enabled /\ metric.aggregated => Merged(config, points, log, ts),
         config.enabled /\ ~metric.aggregated => Listed(config, points, log)
  PROVE  PointsExact(metric, config, Flushed(metric, config, points), log)
<1> DEFINE out == emit(metric, config, points)
           st == config.aggregation_strategy
<1>0. /\ DOMAIN out = DOMAIN points
      /\ \A i \in DOMAIN points :
           /\ out[i].attributes = points[i].attributes
           /\ metric.aggregated => out[i].val = Made(metric, st, points[i])
           /\ ~metric.aggregated => out[i].val = points[i].val
  <2>1. out = [i \in DOMAIN points |->
           [attributes |-> points[i].attributes, ts |-> points[i].ts,
            val |-> IF metric.aggregated THEN Made(metric, st, points[i]) ELSE points[i].val]]
    BY EmitPoint, Zenon
  <2> HIDE DEF out, st
  <2> QED BY <2>1
<1>1. CASE ~config.enabled
  BY <1>1, Zenon DEF PointsExact, Flushed
<1>2. CASE config.enabled /\ ~metric.aggregated
  <2>1. DOMAIN out = DOMAIN log /\ \A i \in DOMAIN log : out[i].val = log[i].val
    BY <1>0, <1>2, Zenon DEF Listed
  <2> HIDE DEF out
  <2>2. [i \in DOMAIN out |-> out[i].val] = [i \in DOMAIN log |-> log[i].val]
    BY <2>1
  <2> QED BY <1>2, <2>2, Zenon DEF PointsExact, Flushed, out
<1>3. CASE config.enabled /\ metric.aggregated
  <2>1. /\ DOMAIN out = DOMAIN points
        /\ \A i \in DOMAIN points : out[i].attributes = points[i].attributes
    BY <1>0, Zenon
  <2>2. ASSUME NEW i \in DOMAIN points
        PROVE  /\ Behind(config, log, points[i].attributes) \in SUBSET DOMAIN log
               /\ Holds(st, points[i], log, Behind(config, log, points[i].attributes))
    BY <1>3, BehindPart, Zenon DEF Merged
  <2>3. ASSUME NEW i \in DOMAIN points
        PROVE  out[i].val = Aggregate(metric, st, log, Behind(config, log, points[i].attributes))
    <3> DEFINE p == points[i]
               idx == Behind(config, log, p.attributes)
    <3>1. idx \in SUBSET DOMAIN log /\ Holds(st, p, log, idx)
      BY <2>2, Zenon
    <3>2. out[i].val = Made(metric, st, p)
      BY <1>0, <1>3, Zenon
    <3> HIDE DEF idx, p, out
    <3>3. Made(metric, st, p) = Aggregate(metric, st, log, idx)
      BY <3>1, EmitAggregates, Zenon
    <3> QED BY <3>2, <3>3, Zenon DEF idx, p
  <2> HIDE DEF out, st
  <2>4. /\ \A i, j \in DOMAIN points : points[i].attributes = points[j].attributes => i = j
        /\ \A j \in DOMAIN log :
             \E i \in DOMAIN points : points[i].attributes = Put(config, log[j].attributes)
    BY <1>3, Zenon DEF Merged
  <2>5. \A i \in DOMAIN points :
          \E j \in DOMAIN log : points[i].attributes = Put(config, log[j].attributes)
    <3>1. \A i \in DOMAIN points : Behind(config, log, points[i].attributes) # {}
      BY <2>2, Zenon DEF Holds
    <3> QED BY <3>1, Zenon DEF Behind
  <2>6. {out[i].attributes : i \in DOMAIN out} = {Put(config, log[i].attributes) : i \in DOMAIN log}
    BY <2>1, <2>4, <2>5
  <2>7. \A i, j \in DOMAIN out : out[i].attributes = out[j].attributes => i = j
    BY <2>1, <2>4, Zenon
  <2>8. \A i \in DOMAIN out :
          out[i].val = Aggregate(metric, st, log, Behind(config, log, out[i].attributes))
    BY <2>1, <2>3, Zenon
  <2> QED BY <1>3, <2>6, <2>7, <2>8, Zenon DEF PointsExact, Flushed, out, st
<1> QED BY <1>1, <1>2, <1>3

\* AggregationExact in terms of PointsExact.
LEMMA ExactByPoints ==
  AggregationExact <=> /\ bState = "refused" => bOut.points = <<>> /\ bPoints = <<>>
                       /\ PointsExact(bMetric, bConfig, bOut.points, bOut.log)
BY Zenon DEF AggregationExact, PointsExact, Put, Behind

\* The same of the next state.
LEMMA ExactNext ==
  ASSUME bState' = "refused" => bOut'.points = <<>> /\ bPoints' = <<>>,
         PointsExact(bMetric', bConfig', bOut'.points, bOut'.log)
  PROVE  AggregationExact'
BY Zenon DEF AggregationExact, PointsExact, Put, Behind

\* Nothing emitted is exact for a log with nothing in it, and an empty buffer
\* stands for it.
LEMMA NothingExact ==
  ASSUME NEW metric, NEW config, NEW ts
  PROVE  /\ PointsExact(metric, config, NothingEmitted.points, NothingEmitted.log)
         /\ Merged(config, <<>>, <<>>, ts) /\ Listed(config, <<>>, <<>>)
<1>1. DOMAIN << >> = {}
  OBVIOUS
<1>2. NothingEmitted.points = <<>> /\ NothingEmitted.log = <<>>
  BY DEF NothingEmitted
<1>3. <<>> \in Seq(Buffered(config))
  OBVIOUS
<1>4. PointsExact(metric, config, <<>>, <<>>)
  BY <1>1, Zenon DEF PointsExact
<1>5. Merged(config, <<>>, <<>>, ts)
  BY <1>1, <1>3, Zenon DEF Merged
<1>6. Listed(config, <<>>, <<>>)
  BY <1>1, <1>3, Zenon DEF Listed
<1> QED BY <1>2, <1>4, <1>5, <1>6, Zenon

\* BInv holds before a builder is made.
LEMMA BuilderStarts == BuilderInit => BInv
<1> SUFFICES ASSUME BuilderInit PROVE BInv
  OBVIOUS
<1>1. BuilderTyped
  BY DEF BuilderInit, BuilderTyped, BuilderMetrics, DefaultMetricConfig
<1>2. BufferInv
  BY DEF BuilderInit, BufferInv
<1>3. PointsExact(bMetric, bConfig, bOut.points, bOut.log)
  BY NothingExact, Zenon DEF BuilderInit
<1>4. bState # "refused"
  BY DEF BuilderInit
<1> QED BY <1>1, <1>2, <1>3, <1>4, ExactByPoints, Zenon DEF BInv

\* NewMetricsBuilder makes an empty buffer, and Validate refuses a
\* configuration that recordDataPoint could not follow.
LEMMA ConfigureKeeps ==
  ASSUME BInv, NEW metric \in BuilderMetrics, NEW user \in UserConfigs, Configure(metric, user)
  PROVE  BInv'
<1> DEFINE config == Unmarshal(DefaultMetricConfig(metric), user)
<1>1. /\ bState = "start" /\ bMetric' = metric /\ bConfig' = config
      /\ bState' = IF Validate(metric, config) THEN "running" ELSE "refused"
      /\ bPoints' = bPoints /\ bLog' = bLog /\ bOut' = bOut /\ bEmits' = bEmits
  BY Zenon DEF Configure
<1>2. config.enabled \in BOOLEAN
  <2>1. config = [k \in DOMAIN DefaultMetricConfig(metric) |->
                    IF k \in DOMAIN user THEN user[k] ELSE DefaultMetricConfig(metric)[k]]
    BY Zenon DEF Unmarshal
  <2>2. "enabled" \in DOMAIN DefaultMetricConfig(metric) /\ DefaultMetricConfig(metric)["enabled"] = TRUE
    BY DEF DefaultMetricConfig
  <2>3. "enabled" \in DOMAIN user => user["enabled"] \in BOOLEAN
    BY BuilderAssumption, Zenon
  <2> HIDE DEF config
  <2>4. config["enabled"] = IF "enabled" \in DOMAIN user THEN user["enabled"] ELSE TRUE
    BY <2>1, <2>2
  <2> QED BY <2>3, <2>4
<1> HIDE DEF config
<1>3. bPoints = <<>> /\ bLog = <<>> /\ bOut = NothingEmitted /\ bEmits \in Nat
  BY <1>1 DEF BInv, BufferInv, BuilderTyped
<1>4. bState' \in {"refused", "running"} /\ (bState' = "running" => Validate(metric, config))
  BY <1>1
<1>5. BuilderTyped'
  BY <1>1, <1>2, <1>3, <1>4 DEF BuilderTyped
<1>6. Merged(config, <<>>, <<>>, bEmits) /\ Listed(config, <<>>, <<>>)
  BY NothingExact, Zenon
<1>7. BufferInv'
  BY <1>1, <1>3, <1>4, <1>6, Zenon DEF BufferInv
<1>8. PointsExact(metric, config, NothingEmitted.points, NothingEmitted.log)
  BY NothingExact, Zenon
<1>9. NothingEmitted.points = <<>>
  BY DEF NothingEmitted
<1>10. AggregationExact'
  <2>1. PointsExact(bMetric', bConfig', bOut'.points, bOut'.log)
    BY <1>1, <1>3, <1>8, Zenon
  <2>2. bOut'.points = <<>> /\ bPoints' = <<>>
    BY <1>1, <1>3, <1>9, Zenon
  <2> QED BY <2>1, <2>2, ExactNext, Zenon
<1> QED BY <1>5, <1>7, <1>10, Zenon DEF BInv

\* A Record function adds its value to the buffer and to the log.
LEMMA RecordKeeps ==
  ASSUME BInv, NEW v \in BuilderValues, NEW s \in BuilderServers,
         RecordPoint(v, [server |-> s, instance |-> "i"])
  PROVE  BInv'
<1> DEFINE attrs == [server |-> s, instance |-> "i"]
           e == [val |-> v, attributes |-> attrs]
           recorded == recordDataPoint(bMetric, bConfig, bPoints, bEmits, v, attrs)
<1>1. /\ bState = "running" /\ bPoints' = recorded /\ bLog' = Append(bLog, e)
      /\ bOut' = NothingEmitted /\ bMetric' = bMetric /\ bConfig' = bConfig
      /\ bState' = bState /\ bEmits' = bEmits
  BY Zenon DEF RecordPoint
<1>2. e \in LogEntries
  <2>1. v \in Nat
    BY BuilderAssumption
  <2>2. attrs \in AttributeValues
    BY DEF AttributeValues
  <2> HIDE DEF attrs
  <2> QED BY <2>1, <2>2 DEF LogEntries
<1>3. e.val = v /\ e.attributes = attrs
  OBVIOUS
<1>4. /\ bMetric \in BuilderMetrics /\ bConfig.enabled \in BOOLEAN /\ bLog \in Seq(LogEntries)
      /\ bEmits \in Nat /\ Validate(bMetric, bConfig)
      /\ ~bConfig.enabled => bPoints = <<>>
      /\ bConfig.enabled /\ bMetric.aggregated => Merged(bConfig, bPoints, bLog, bEmits)
      /\ bConfig.enabled /\ ~bMetric.aggregated => Listed(bConfig, bPoints, bLog)
  BY <1>1, Zenon DEF BInv, BuilderTyped, BufferInv
<1>5. bConfig.aggregation_strategy \in Strategies
  BY <1>4, Zenon DEF Validate
<1>6. Append(bLog, e) \in Seq(LogEntries)
  BY <1>2, <1>4, LogGrows
<1>7. ~bConfig.enabled => recorded = <<>>
  BY <1>4, Zenon DEF recordDataPoint
<1>8. recorded = recordDataPoint(bMetric, bConfig, bPoints, bEmits, e.val, e.attributes)
  BY <1>3, Zenon
<1> HIDE DEF e, recorded, attrs
<1>9. bConfig.enabled /\ bMetric.aggregated => Merged(bConfig, recorded, Append(bLog, e), bEmits)
  BY <1>2, <1>4, <1>5, <1>8, RecordMerged, Zenon
<1>10. bConfig.enabled /\ ~bMetric.aggregated => Listed(bConfig, recorded, Append(bLog, e))
  BY <1>2, <1>4, <1>8, RecordListed, Zenon
<1>11. BuilderTyped'
  BY <1>1, <1>4, <1>6 DEF BuilderTyped
<1>12. BufferInv'
  BY <1>1, <1>4, <1>7, <1>9, <1>10, Zenon DEF BufferInv
<1>13. PointsExact(bMetric, bConfig, NothingEmitted.points, NothingEmitted.log)
  BY NothingExact, Zenon
<1>14. bState' # "refused"
  BY <1>1
<1>15. AggregationExact'
  <2>1. PointsExact(bMetric', bConfig', bOut'.points, bOut'.log)
    BY <1>1, <1>13, Zenon
  <2> QED BY <1>14, <2>1, ExactNext, Zenon
<1> QED BY <1>11, <1>12, <1>15, Zenon DEF BInv

\* Emit empties the buffer.
LEMMA EmitKeeps ==
  ASSUME BInv, EmitPoints
  PROVE  BInv'
<1> DEFINE out == Flushed(bMetric, bConfig, bPoints)
<1>1. /\ bState = "running" /\ bOut' = [points |-> out, log |-> bLog]
      /\ bPoints' = <<>> /\ bLog' = <<>> /\ bEmits' = bEmits + 1
      /\ bMetric' = bMetric /\ bConfig' = bConfig /\ bState' = bState
  BY Zenon DEF EmitPoints, Flushed
<1>2. /\ bMetric \in BuilderMetrics /\ bConfig.enabled \in BOOLEAN /\ bLog \in Seq(LogEntries)
      /\ bEmits \in Nat /\ Validate(bMetric, bConfig)
      /\ bConfig.enabled /\ bMetric.aggregated => Merged(bConfig, bPoints, bLog, bEmits)
      /\ bConfig.enabled /\ ~bMetric.aggregated => Listed(bConfig, bPoints, bLog)
  BY <1>1, Zenon DEF BInv, BuilderTyped, BufferInv
<1>3. bConfig.aggregation_strategy \in Strategies
  BY <1>2, Zenon DEF Validate
<1>4. PointsExact(bMetric, bConfig, out, bLog)
  <2> HIDE DEF out
  <2>2. PointsExact(bMetric, bConfig, Flushed(bMetric, bConfig, bPoints), bLog)
    BY <1>2, <1>3, EmitExact, Zenon
  <2> QED BY <2>2, Zenon DEF out
<1> HIDE DEF out
<1>5. bOut'.points = out /\ bOut'.log = bLog
  <2>1. bOut' = [points |-> out, log |-> bLog]
    BY <1>1, Zenon
  <2> QED BY <2>1, Zenon
<1>6. <<>> \in Seq(LogEntries) /\ bEmits + 1 \in Nat
  BY <1>2
<1>7. BuilderTyped'
  BY <1>1, <1>2, <1>6 DEF BuilderTyped
<1>8. Merged(bConfig, <<>>, <<>>, bEmits + 1) /\ Listed(bConfig, <<>>, <<>>)
  BY NothingExact, Zenon
<1>9. BufferInv'
  BY <1>1, <1>2, <1>8, Zenon DEF BufferInv
<1>10. bState' # "refused"
  BY <1>1
<1>11. AggregationExact'
  <2>1. PointsExact(bMetric', bConfig', bOut'.points, bOut'.log)
    BY <1>1, <1>4, <1>5, Zenon
  <2> QED BY <1>10, <2>1, ExactNext, Zenon
<1> QED BY <1>7, <1>9, <1>11, Zenon DEF BInv

\* BInv is inductive: between two emissions the buffer of a metric stands for
\* all that was recorded since the last one, under any configuration that
\* Validate lets pass.
THEOREM BuilderInvariance == BuilderSpec => []BInv
<1>1. BInv /\ [BuilderNext]_builderVars => BInv'
  <2> SUFFICES ASSUME BInv, [BuilderNext]_builderVars PROVE BInv'
    OBVIOUS
  <2>1. CASE \E metric \in BuilderMetrics, user \in UserConfigs : Configure(metric, user)
    BY <2>1, ConfigureKeeps, Zenon
  <2>2. CASE \E v \in BuilderValues, s \in BuilderServers :
               RecordPoint(v, [server |-> s, instance |-> "i"])
    BY <2>2, RecordKeeps, Zenon
  <2>3. CASE EmitPoints
    BY <2>3, EmitKeeps, Zenon
  <2>4. CASE UNCHANGED builderVars
    <3>1. /\ bMetric' = bMetric /\ bConfig' = bConfig /\ bState' = bState /\ bPoints' = bPoints
          /\ bLog' = bLog /\ bOut' = bOut /\ bEmits' = bEmits
      BY <2>4, Zenon DEF builderVars
    <3>2. BuilderTyped'
      BY <3>1, Zenon DEF BInv, BuilderTyped
    <3>3. BufferInv'
      BY <3>1, Zenon DEF BInv, BufferInv
    <3>4. /\ bState = "refused" => bOut.points = <<>> /\ bPoints = <<>>
          /\ PointsExact(bMetric, bConfig, bOut.points, bOut.log)
      BY ExactByPoints, Zenon DEF BInv
    <3>5. PointsExact(bMetric', bConfig', bOut'.points, bOut'.log)
      BY <3>1, <3>4, Zenon
    <3>6. AggregationExact'
      BY <3>1, <3>4, <3>5, ExactNext, Zenon
    <3> QED BY <3>2, <3>3, <3>6, Zenon DEF BInv
  <2> QED BY <2>1, <2>2, <2>3, <2>4, Zenon DEF BuilderNext
<1> QED BY <1>1, BuilderStarts, PTL DEF BuilderSpec

\* What a generated builder emits for a metric is the aggregate, by its
\* strategy, of the values recorded for the attributes that are enabled, no
\* value lost or counted twice; a metric that is disabled emits nothing.
THEOREM AggregationIsExact == BuilderSpec => []AggregationExact
<1>1. BInv => AggregationExact
  BY Zenon DEF BInv
<1> QED BY <1>1, BuilderInvariance, PTL
-----------------------------------------------------------------------------
(* The receivers of counters and levels. *)

\* The builder of receiver r as it is made, and as Emit leaves it.
EmptyBuilder(r) == NewMetricsBuilder(Receivers[r], DefaultMetricsConfig(Receivers[r]))

\* q has one point, of time now.
OnePoint(q, now) == \E p : p.ts = now /\ q = <<p>>

\* The builder of r with one point, of this scrape, for each of the metrics S.
Loaded(mb, r, now, S) ==
  /\ mb = [metrics |-> Receivers[r], config |-> DefaultMetricsConfig(Receivers[r]), data |-> mb.data]
  /\ DOMAIN mb.data = DOMAIN Receivers[r] /\ mb.data = [m \in DOMAIN Receivers[r] |-> mb.data[m]]
  /\ \A m \in DOMAIN Receivers[r] \cap S : OnePoint(mb.data[m], now)
  /\ \A m \in DOMAIN Receivers[r] \ S : mb.data[m] = <<>>

\* A builder as it is made has no points.
LEMMA EmptyFilled ==
  ASSUME NEW r, NEW now
  PROVE  Loaded(EmptyBuilder(r), r, now, {})
<1>1. EmptyBuilder(r) = [metrics |-> Receivers[r], config |-> DefaultMetricsConfig(Receivers[r]),
                         data |-> [m \in DOMAIN Receivers[r] |-> <<>>]]
  BY Zenon DEF EmptyBuilder, NewMetricsBuilder
<1>2. EmptyBuilder(r).data = [m \in DOMAIN Receivers[r] |-> <<>>]
  BY <1>1
<1> QED BY <1>1, <1>2, Zenon DEF Loaded

\* The first value that is recorded is appended.
LEMMA FirstPoint ==
  ASSUME NEW metric, NEW r, NEW m \in DOMAIN Receivers[r], NEW now, NEW v
  PROVE  OnePoint(recordDataPoint(metric, DefaultMetricsConfig(Receivers[r])[m], <<>>, now, v, <<>>),
                  now)
<1> DEFINE config == DefaultMetricsConfig(Receivers[r])[m]
           put == [a \in config.attributes |-> << >>[a]]
           p == [attributes |-> put, ts |-> now, val |-> v, count |-> 1]
<1>1. config.enabled
  BY Zenon DEF DefaultMetricsConfig, DefaultMetricConfig
<1> HIDE DEF config
<1>2. DOMAIN << >> = {}
  OBVIOUS
<1>3. {i \in DOMAIN << >> : << >>[i].attributes = put /\ << >>[i].ts = now} = {}
  <2> HIDE DEF put
  <2> QED BY <1>2, Zenon
<1>4. recordDataPoint(metric, config, <<>>, now, v, <<>>) = Append(<<>>, p)
  BY <1>1, <1>3, Zenon DEF recordDataPoint
<1>5. p.ts = now
  BY Zenon
<1> HIDE DEF p
<1>6. Append(<<>>, p) = <<p>>
  OBVIOUS
<1> QED BY <1>4, <1>5, <1>6, Zenon DEF config, OnePoint

\* Recording metrics that have no point yet gives each of them one.
LEMMA RecordFills ==
  ASSUME NEW r, NEW now, NEW S, NEW mb, Loaded(mb, r, now, S), NEW vals, DOMAIN vals \cap S = {}
  PROVE  Loaded(Record(mb, now, vals), r, now, S \cup DOMAIN vals)
<1> DEFINE M == DOMAIN Receivers[r]
           C == DefaultMetricsConfig(Receivers[r])
           data == [m \in M |-> IF m \in DOMAIN vals
                                THEN recordDataPoint(Receivers[r][m], C[m], mb.data[m], now, vals[m], <<>>)
                                ELSE mb.data[m]]
           next == [metrics |-> Receivers[r], config |-> C, data |-> data]
<1>1. /\ mb = [metrics |-> Receivers[r], config |-> C, data |-> mb.data]
      /\ DOMAIN mb.data = M
  BY Zenon DEF Loaded
<1>2. Record(mb, now, vals) = next
  <2> DEFINE old == mb.data
  <2>1. mb = [metrics |-> Receivers[r], config |-> C, data |-> old] /\ DOMAIN old = M
    BY <1>1, Zenon
  <2>2. data = [m \in M |-> IF m \in DOMAIN vals
                            THEN recordDataPoint(Receivers[r][m], C[m], old[m], now, vals[m], <<>>)
                            ELSE old[m]]
    BY Zenon
  <2> HIDE DEF old, M, C, data
  <2>3. mb.metrics = Receivers[r] /\ mb.config = C /\ mb.data = old
    BY <2>1
  <2>4. Record(mb, now, vals) = [mb EXCEPT !.data = data]
    BY <2>1, <2>2, <2>3, Zenon DEF Record
  <2> QED BY <2>1, <2>4, Zenon
<1>3. next.data = data
  BY Zenon
<1>4. DOMAIN data = M /\ data = [m \in M |-> data[m]]
  BY Zenon
<1>5. ASSUME NEW m \in M \cap (S \cup DOMAIN vals)
      PROVE  OnePoint(data[m], now)
  <2>1. CASE m \in DOMAIN vals
    <3>1. mb.data[m] = <<>>
      BY <1>5, <2>1, Zenon DEF Loaded
    <3>2. data[m] = recordDataPoint(Receivers[r][m], C[m], <<>>, now, vals[m], <<>>)
      BY <1>5, <2>1, <3>1, Zenon
    <3> HIDE DEF data
    <3> QED BY <1>5, <3>2, FirstPoint, Zenon
  <2>2. CASE m \notin DOMAIN vals
    <3>1. data[m] = mb.data[m]
      BY <1>5, <2>2, Zenon
    <3> HIDE DEF data
    <3> QED BY <1>5, <2>2, <3>1, Zenon DEF Loaded
  <2> QED BY <2>1, <2>2
<1>6. ASSUME NEW m \in M \ (S \cup DOMAIN vals)
      PROVE  data[m] = <<>>
  <2>1. data[m] = mb.data[m]
    BY <1>6, Zenon
  <2> HIDE DEF data
  <2> QED BY <1>6, <2>1, Zenon DEF Loaded
<1> HIDE DEF data
<1>7. next = [metrics |-> Receivers[r], config |-> C, data |-> next.data]
  BY <1>3, Zenon
<1> HIDE DEF next
<1> QED BY <1>2, <1>3, <1>4, <1>5, <1>6, <1>7, Zenon DEF Loaded

\* Each of the metrics D was emitted with one point, of time now.
Fresh(out, D, now) == \A m \in D : Len(out[m]) = 1 /\ out[m][1].ts = now

\* Emitting gives the points of the metrics S and leaves the builder empty.
LEMMA EmitFilled ==
  ASSUME NEW r, NEW now, NEW S, NEW mb, Loaded(mb, r, now, S)
  PROVE  /\ Emit(mb) = EmptyBuilder(r)
         /\ DOMAIN EmitForResource(mb) = DOMAIN Receivers[r] \cap S
         /\ Fresh(EmitForResource(mb), DOMAIN Receivers[r] \cap S, now)
<1> DEFINE M == DOMAIN Receivers[r]
           C == DefaultMetricsConfig(Receivers[r])
           old == mb.data
<1>1. mb = [metrics |-> Receivers[r], config |-> C, data |-> old] /\ DOMAIN old = M
  BY Zenon DEF Loaded
<1>2. Emit(mb) = EmptyBuilder(r)
  <2> DEFINE none == [m \in M |-> <<>>]
  <2>1. Emit(mb) = [mb EXCEPT !.data = none]
    BY <1>1, Zenon DEF Emit
  <2>2. EmptyBuilder(r) = [metrics |-> Receivers[r], config |-> C, data |-> none]
    BY Zenon DEF EmptyBuilder, NewMetricsBuilder
  <2> HIDE DEF none, M, C, old
  <2> QED BY <1>1, <2>1, <2>2, Zenon
<1>3. \A m \in M : C[m].enabled
  BY Zenon DEF DefaultMetricsConfig, DefaultMetricConfig
<1>4. \A m \in M \cap S : OnePoint(old[m], now) /\ old[m] # <<>>
  <2>1. \A p : <<p>> # << >>
    OBVIOUS
  <2> QED BY <2>1, Zenon DEF Loaded, OnePoint
<1>5. \A m \in M \ S : old[m] = <<>>
  BY Zenon DEF Loaded
<1> HIDE DEF M, C, old
<1>6. mb.metrics = Receivers[r] /\ mb.config = C /\ mb.data = old
  BY <1>1
<1>7. EmitForResource(mb) = [m \in M \cap S |-> emit(Receivers[r][m], C[m], old[m])]
  <2>1. {n \in M : C[n].enabled /\ old[n] # <<>>} = M \cap S
    BY <1>3, <1>4, <1>5, Zenon
  <2>2. EmitForResource(mb) = [m \in {n \in M : C[n].enabled /\ old[n] # <<>>} |->
                                 emit(Receivers[r][m], C[m], old[m])]
    BY <1>1, <1>6, Zenon DEF EmitForResource
  <2> QED BY <2>1, <2>2, Zenon
<1>8. ASSUME NEW m \in M \cap S
      PROVE  Len(EmitForResource(mb)[m]) = 1 /\ EmitForResource(mb)[m][1].ts = now
  <2>1. PICK p : p.ts = now /\ old[m] = <<p>>
    BY <1>4, <1>8, Zenon DEF OnePoint
  <2> DEFINE q == emit(Receivers[r][m], C[m], old[m])
  <2>2. DOMAIN <<p>> = 1..1 /\ << p >>[1] = p
    OBVIOUS
  <2>3. \E v : q = [i \in 1..1 |-> v[i]] /\ v[1].ts = now
    <3> DEFINE v == q
    <3>1. DOMAIN q = 1..1 /\ q = [i \in 1..1 |-> q[i]]
      BY <2>1, <2>2, Zenon DEF emit
    <3>2. 1 \in 1..1
      OBVIOUS
    <3>3. q[1].ts = << p >>[1].ts
      BY <2>1, <2>2, <3>2, Zenon DEF emit
    <3> HIDE DEF q
    <3> QED BY <2>1, <2>2, <3>1, <3>3, Zenon
  <2>4. EmitForResource(mb)[m] = q
    BY <1>7, <1>8, Zenon
  <2> HIDE DEF q
  <2>5. PICK v : q = [i \in 1..1 |-> v[i]] /\ v[1].ts = now
    BY <2>3, Zenon
  <2>6. Len(q) = 1 /\ q[1] = v[1]
    BY <2>5
  <2> QED BY <2>4, <2>5, <2>6, Zenon
<1>9. DOMAIN EmitForResource(mb) = M \cap S
  BY <1>7, Zenon
<1> QED BY <1>2, <1>8, <1>9, Zenon DEF M, Fresh

\* A scrape of receiver r at time now that emits whole groups of points of its own,
\* and leaves an empty builder.
WholeScrape(result, r, now, groups) ==
  /\ result.mb = EmptyBuilder(r)
  /\ Fresh(result.out, DOMAIN result.out, now)
  /\ \A g \in groups : g \subseteq DOMAIN result.out \/ g \cap DOMAIN result.out = {}

\* A scrape whose inputs were recorded in whole groups emits whole groups.
LEMMA EmittedWhole ==
  ASSUME NEW r, NEW now, NEW S, NEW mb, Loaded(mb, r, now, S), NEW groups,
         \A g \in groups : g \subseteq DOMAIN Receivers[r] /\ (g \subseteq S \/ g \cap S = {})
  PROVE  WholeScrape(Emitted(mb), r, now, groups)
<1>1. Emitted(mb).out = EmitForResource(mb) /\ Emitted(mb).mb = Emit(mb)
  BY Zenon DEF Emitted
<1>2. /\ Emit(mb) = EmptyBuilder(r)
      /\ DOMAIN EmitForResource(mb) = DOMAIN Receivers[r] \cap S
      /\ Fresh(EmitForResource(mb), DOMAIN Receivers[r] \cap S, now)
  BY EmitFilled, Zenon
<1>3. \A g \in groups : g \subseteq DOMAIN EmitForResource(mb) \/ g \cap DOMAIN EmitForResource(mb) = {}
  BY <1>2, Zenon
<1> QED BY <1>1, <1>2, <1>3, Zenon DEF WholeScrape

\* A scrape that fails emits nothing, and has recorded nothing.
LEMMA NothingWhole ==
  ASSUME NEW r, xMb = EmptyBuilder(r), NEW now, NEW groups
  PROVE  WholeScrape(NoMetrics, r, now, groups)
<1>1. NoMetrics.out = <<>> /\ NoMetrics.mb = xMb
  BY Zenon DEF NoMetrics
<1>2. DOMAIN << >> = {}
  OBVIOUS
<1> QED BY <1>1, <1>2, Zenon DEF WholeScrape, Fresh

\* An input that may be unreadable.
LEMMA RecordIfFills ==
  ASSUME NEW ok, NEW r, NEW now, NEW S, NEW mb, Loaded(mb, r, now, S),
         NEW vals, DOMAIN vals \cap S = {}
  PROVE  Loaded(RecordIf(ok, mb, now, vals), r, now, IF ok THEN S \cup DOMAIN vals ELSE S)
<1>1. CASE ok
  BY <1>1, RecordFills, Zenon DEF RecordIf
<1>2. CASE ~ok
  BY <1>2, Zenon DEF RecordIf
<1> QED BY <1>1, <1>2

\* A receiver with one input,
LEMMA OneInput ==
  ASSUME NEW r, NEW now, NEW ok, NEW vals, DOMAIN Receivers[r] \subseteq DOMAIN vals
  PROVE  WholeScrape(Emitted(RecordIf(ok, EmptyBuilder(r), now, vals)), r, now, {DOMAIN Receivers[r]})
<1> DEFINE S == IF ok THEN {} \cup DOMAIN vals ELSE {}
<1>1. Loaded(RecordIf(ok, EmptyBuilder(r), now, vals), r, now, S)
  <2>1. DOMAIN vals \cap {} = {}
    OBVIOUS
  <2> QED BY <2>1, EmptyFilled, RecordIfFills, Zenon
<1>2. \A g \in {DOMAIN Receivers[r]} : g \subseteq DOMAIN Receivers[r] /\ (g \subseteq S \/ g \cap S = {})
  OBVIOUS
<1> HIDE DEF S
<1> QED BY <1>1, <1>2, EmittedWhole, Zenon

\* and one with two.
LEMMA TwoInputs ==
  ASSUME NEW r, NEW now, NEW ok1, NEW ok2, NEW v, NEW w,
         DOMAIN v \cap DOMAIN w = {}, DOMAIN v \cup DOMAIN w = DOMAIN Receivers[r]
  PROVE  WholeScrape(Emitted(RecordIf(ok2, RecordIf(ok1, EmptyBuilder(r), now, v), now, w)),
                     r, now, {DOMAIN v, DOMAIN w})
<1> DEFINE S == IF ok1 THEN {} \cup DOMAIN v ELSE {}
           T == IF ok2 THEN S \cup DOMAIN w ELSE S
           mb == RecordIf(ok1, EmptyBuilder(r), now, v)
<1>1. Loaded(mb, r, now, S)
  <2>1. DOMAIN v \cap {} = {}
    OBVIOUS
  <2> QED BY <2>1, EmptyFilled, RecordIfFills, Zenon
<1>2. DOMAIN w \cap S = {}
  OBVIOUS
<1>3. \A g \in {DOMAIN v, DOMAIN w} : g \subseteq DOMAIN Receivers[r] /\ (g \subseteq T \/ g \cap T = {})
  OBVIOUS
<1> HIDE DEF S, mb
<1>4. Loaded(RecordIf(ok2, mb, now, w), r, now, T)
  BY <1>1, <1>2, RecordIfFills, Zenon
<1> HIDE DEF T
<1>5. WholeScrape(Emitted(RecordIf(ok2, mb, now, w)), r, now, {DOMAIN v, DOMAIN w})
  BY <1>3, <1>4, EmittedWhole, Zenon
<1> QED BY <1>5, Zenon DEF mb

-----------------------------------------------------------------------------
(* The names of the metrics, as they are declared and as they are recorded. *)

\* The names of two tables together,
LEMMA JoinedNames ==
  ASSUME NEW f, NEW g
  PROVE  /\ DOMAIN Joined({f, g}) = DOMAIN f \cup DOMAIN g
BY DEF Joined

\* of a group of counters or levels,
LEMMA NamesOf ==
  ASSUME NEW N
  PROVE  DOMAIN Counters(N) = N /\ DOMAIN Levels(N) = N
BY Zenon DEF Counters, Levels

\* and of both.
LEMMA MixedNames ==
  ASSUME NEW A, NEW B
  PROVE  DOMAIN Joined({Counters(A), Levels(B)}) = A \cup B
<1>1. DOMAIN Joined({Counters(A), Levels(B)}) = DOMAIN Counters(A) \cup DOMAIN Levels(B)
  BY JoinedNames, Zenon
<1> QED BY <1>1, NamesOf, Zenon

\* The receivers and their metrics.
LEMMA ReceiverMetrics ==
  /\ DOMAIN Receivers = {"nfsd", "slab", "exports", "connections", "fscache"}
  /\ Receivers["nfsd"] = nfsdMetrics /\ Receivers["slab"] = slabMetrics
  /\ Receivers["exports"] = exportsMetrics /\ Receivers["connections"] = connectionsMetrics
  /\ Receivers["fscache"] = fscacheMetrics
BY DEF Receivers

\* scrapeNfsd records each of its metrics from one of its two files.
LEMMA NfsdNames ==
  /\ DOMAIN recordThreads = {"NfsThreads"}
  /\ DOMAIN recordThreads \cap DOMAIN scrapePoolStats = {}
  /\ DOMAIN recordThreads \cup DOMAIN scrapePoolStats = DOMAIN nfsdMetrics
  /\ DOMAIN scrapePoolStats = DOMAIN nfsdMetrics \ {"NfsThreads"}
<1>1. DOMAIN recordThreads = {"NfsThreads"}
  BY DEF recordThreads
<1>2. DOMAIN scrapePoolStats = {"NfsPacketsArrived", "NfsPacketsDeferred", "NfsSocketsEnqueued",
                                "NfsThreadsWoken", "NfsThreadsTimedout"}
  BY Zenon DEF scrapePoolStats
<1>3. DOMAIN nfsdPacketMetrics = {"NfsPacketsArrived", "NfsSocketsEnqueued"} \cup {"NfsPacketsDeferred"}
  BY MixedNames, Zenon DEF nfsdPacketMetrics
<1>4. DOMAIN nfsdThreadMetrics = {"NfsThreadsTimedout", "NfsThreadsWoken"} \cup {"NfsThreads"}
  BY MixedNames, Zenon DEF nfsdThreadMetrics
<1>5. DOMAIN nfsdMetrics = DOMAIN nfsdPacketMetrics \cup DOMAIN nfsdThreadMetrics
  BY JoinedNames, Zenon DEF nfsdMetrics
<1> QED BY <1>1, <1>2, <1>3, <1>4, <1>5

\* scrapeSlab records each of its metrics from one of two lines.
LEMMA SlabNames ==
  /\ DOMAIN recordDentry = DOMAIN slabDentryMetrics
  /\ DOMAIN recordNfsInode = DOMAIN slabNfsInodeMetrics
  /\ DOMAIN recordDentry \cap DOMAIN recordNfsInode = {}
  /\ DOMAIN recordDentry \cup DOMAIN recordNfsInode = DOMAIN slabMetrics
<1>1. DOMAIN recordDentry = {"SlabDentryCacheActiveObjects", "SlabDentryCacheObjsize"}
  BY DEF recordDentry
<1>2. DOMAIN recordNfsInode = {"SlabNfsInodeCacheActiveObjects", "SlabNfsInodeCacheObjsize"}
  BY DEF recordNfsInode
<1>3. /\ DOMAIN slabDentryMetrics = {"SlabDentryCacheActiveObjects", "SlabDentryCacheObjsize"}
      /\ DOMAIN slabNfsInodeMetrics = {"SlabNfsInodeCacheActiveObjects", "SlabNfsInodeCacheObjsize"}
  BY NamesOf, Zenon DEF slabDentryMetrics, slabNfsInodeMetrics
<1>4. DOMAIN slabMetrics = DOMAIN slabDentryMetrics \cup DOMAIN slabNfsInodeMetrics
  BY JoinedNames, Zenon DEF slabMetrics
<1> QED BY <1>1, <1>2, <1>3, <1>4

\* The exports receiver records each of its metrics,
LEMMA ExportsNames == DOMAIN exportsMetrics \subseteq DOMAIN recordExports
<1>1. DOMAIN exportsMetrics = {"NfsExportsTotalOperations", "NfsExportsTotalReadBytes",
                               "NfsExportsTotalWriteBytes"}
  BY NamesOf, Zenon DEF exportsMetrics
<1> QED BY <1>1 DEF recordExports

\* so does the connections receiver,
LEMMA ConnectionsNames == DOMAIN connectionsMetrics \subseteq DOMAIN parseSSOutput
<1>1. DOMAIN connectionsMetrics = {"NfsClients", "NfsConnections"}
  BY NamesOf, Zenon DEF connectionsMetrics
<1>2. DOMAIN parseSSOutput = {"NfsConnections", "NfsClients"}
  BY Zenon DEF parseSSOutput
<1> QED BY <1>1, <1>2


\* and so does the fscache receiver, name by name.
LEMMA FscacheNames ==
  DOMAIN fscacheMetrics \subseteq DOMAIN Joined({recordNetfsMetrics, recordFscacheMetrics})
<1> DEFINE N == DOMAIN recordReads
           W == DOMAIN recordTransfers
           F == DOMAIN recordFscacheMetrics
           V == DOMAIN Joined({recordNetfsMetrics, recordFscacheMetrics})
<1>1. DOMAIN recordNetfsMetrics = N \cup W
  BY JoinedNames, Zenon DEF recordNetfsMetrics
<1>2. V = (N \cup W) \cup F
  BY <1>1, JoinedNames, Zenon
<1>3. DOMAIN acquireMetrics \subseteq F
  <2>1. DOMAIN acquireMetrics =
          {"FscacheAcquireOk", "FscacheAcquireOom", "FscacheAcquireRequests"}
    BY NamesOf, Zenon DEF acquireMetrics
  <2> QED BY <2>1 DEF recordFscacheMetrics
<1>4. DOMAIN cookiesMetrics \subseteq F
  <2>1. DOMAIN cookiesMetrics =
          {"FscacheCookiesData", "FscacheCookiesVolume", "FscacheCookiesVolumeCollisions",
           "FscacheCookiesVolumeOom"}
    BY NamesOf, Zenon DEF cookiesMetrics
  <2> QED BY <2>1 DEF recordFscacheMetrics
<1>5. DOMAIN invalidationsMetrics \subseteq F
  <2>1. DOMAIN invalidationsMetrics =
          {"FscacheInvalidations"}
    BY NamesOf, Zenon DEF invalidationsMetrics
  <2> QED BY <2>1 DEF recordFscacheMetrics
<1>6. DOMAIN ioMetrics \subseteq F
  <2>1. DOMAIN ioMetrics =
          {"FscacheIoMisfit", "FscacheIoRead", "FscacheIoWrite"}
    BY NamesOf, Zenon DEF ioMetrics
  <2> QED BY <2>1 DEF recordFscacheMetrics
<1>7. DOMAIN lruMetrics \subseteq F
  <2>1. DOMAIN lruMetrics =
          {"FscacheLruCount", "FscacheLruDropped", "FscacheLruExpired", "FscacheLruRemoved"}
    BY NamesOf, Zenon DEF lruMetrics
  <2> QED BY <2>1 DEF recordFscacheMetrics
<1>8. DOMAIN nospaceMetrics \subseteq F
  <2>1. DOMAIN nospaceMetrics =
          {"FscacheNospaceCreate", "FscacheNospaceCull", "FscacheNospaceWrite"}
    BY NamesOf, Zenon DEF nospaceMetrics
  <2> QED BY <2>1 DEF recordFscacheMetrics
<1>9. DOMAIN relinquishMetrics \subseteq F
  <2>1. DOMAIN relinquishMetrics =
          {"FscacheRelinquishDrop", "FscacheRelinquishRequests", "FscacheRelinquishRetire"}
    BY NamesOf, Zenon DEF relinquishMetrics
  <2> QED BY <2>1 DEF recordFscacheMetrics
<1>10. DOMAIN updatesMetrics \subseteq F
  <2>1. DOMAIN updatesMetrics =
          {"FscacheUpdatesRequests", "FscacheUpdatesResize", "FscacheUpdatesResizeSkipped"}
    BY NamesOf, Zenon DEF updatesMetrics
  <2> QED BY <2>1 DEF recordFscacheMetrics
<1>11. DOMAIN cacheReadMetrics \subseteq W
  <2>1. DOMAIN cacheReadMetrics =
          {"NetfsCacheReadDone", "NetfsCacheReadFailed", "NetfsCacheReadRequests"}
    BY NamesOf, Zenon DEF cacheReadMetrics
  <2> QED BY <2>1 DEF recordTransfers
<1>12. DOMAIN cacheWriteMetrics \subseteq W
  <2>1. DOMAIN cacheWriteMetrics =
          {"NetfsCacheWriteDone", "NetfsCacheWriteFailed", "NetfsCacheWriteRequests"}
    BY NamesOf, Zenon DEF cacheWriteMetrics
  <2> QED BY <2>1 DEF recordTransfers
<1>13. DOMAIN downloadMetrics \subseteq W
  <2>1. DOMAIN downloadMetrics =
          {"NetfsDownloadDone", "NetfsDownloadFailed", "NetfsDownloadInstead",
           "NetfsDownloadRequests"}
    BY NamesOf, Zenon DEF downloadMetrics
  <2> QED BY <2>1 DEF recordTransfers
<1>14. DOMAIN objectsMetrics \subseteq W
  <2>1. DOMAIN objectsMetrics =
          {"NetfsObjectsFolioQueue", "NetfsObjectsReadReqs", "NetfsObjectsSubreqs",
           "NetfsObjectsWriteConflicts"}
    BY NamesOf, Zenon DEF objectsMetrics
  <2> QED BY <2>1 DEF recordTransfers
<1>15. DOMAIN readsMetrics \subseteq N
  <2>1. DOMAIN readsMetrics =
          {"NetfsReadsDirect", "NetfsReadsFolio", "NetfsReadsReadahead"}
    BY NamesOf, Zenon DEF readsMetrics
  <2> QED BY <2>1 DEF recordReads
<1>16. DOMAIN readsWriteMetrics \subseteq N
  <2>1. DOMAIN readsWriteMetrics =
          {"NetfsReadsSingle", "NetfsReadsWriteBegin", "NetfsReadsWriteZskip"}
    BY NamesOf, Zenon DEF readsWriteMetrics
  <2> QED BY <2>1 DEF recordReads
<1>17. DOMAIN retriesMetrics \subseteq W
  <2>1. DOMAIN retriesMetrics =
          {"NetfsRetriesReadReq", "NetfsRetriesReadSubreq", "NetfsRetriesWriteReq",
           "NetfsRetriesWriteSubreq"}
    BY NamesOf, Zenon DEF retriesMetrics
  <2> QED BY <2>1 DEF recordTransfers
<1>18. DOMAIN uploadMetrics \subseteq W
  <2>1. DOMAIN uploadMetrics =
          {"NetfsUploadDone", "NetfsUploadFailed", "NetfsUploadRequests"}
    BY NamesOf, Zenon DEF uploadMetrics
  <2> QED BY <2>1 DEF recordTransfers
<1>19. DOMAIN wblockMetrics \subseteq W
  <2>1. DOMAIN wblockMetrics =
          {"NetfsWblockSkip", "NetfsWblockWait"}
    BY NamesOf, Zenon DEF wblockMetrics
  <2> QED BY <2>1 DEF recordTransfers
<1>20. DOMAIN writesMetrics \subseteq W
  <2>1. DOMAIN writesMetrics =
          {"NetfsWritesBuffered", "NetfsWritesCopyToCache", "NetfsWritesDirect"}
    BY NamesOf, Zenon DEF writesMetrics
  <2> QED BY <2>1 DEF recordTransfers
<1>21. DOMAIN writesPagesMetrics \subseteq W
  <2>1. DOMAIN writesPagesMetrics =
          {"NetfsWritesPages", "NetfsWritesWritethrough"}
    BY NamesOf, Zenon DEF writesPagesMetrics
  <2> QED BY <2>1 DEF recordTransfers
<1>22. DOMAIN zeroOpsMetrics \subseteq W
  <2>1. DOMAIN zeroOpsMetrics =
          {"NetfsZeroOpsShort", "NetfsZeroOpsSkip", "NetfsZeroOpsZero"}
    BY NamesOf, Zenon DEF zeroOpsMetrics
  <2> QED BY <2>1 DEF recordTransfers
<1> HIDE DEF N, W, F, V
<1>23. ASSUME NEW m \in DOMAIN fscacheMetrics
       PROVE  m \in V
  <2> DEFINE tables ==
    {acquireMetrics, cookiesMetrics, invalidationsMetrics, ioMetrics, lruMetrics, nospaceMetrics,
     relinquishMetrics, updatesMetrics, cacheReadMetrics, cacheWriteMetrics, downloadMetrics,
     objectsMetrics, readsMetrics, readsWriteMetrics, retriesMetrics, uploadMetrics,
     wblockMetrics, writesMetrics, writesPagesMetrics, zeroOpsMetrics}
  <2>1. PICK f \in tables : m \in DOMAIN f
    BY <1>23, Zenon DEF fscacheMetrics, Joined
  <2>2. DOMAIN f \subseteq N \/ DOMAIN f \subseteq W \/ DOMAIN f \subseteq F
    BY <1>3, <1>4, <1>5, <1>6, <1>7, <1>8, <1>9, <1>10, <1>11, <1>12,
       <1>13, <1>14, <1>15, <1>16, <1>17, <1>18, <1>19, <1>20, <1>21, <1>22, Zenon
  <2> QED BY <1>2, <2>1, <2>2, Zenon
<1> QED BY <1>23, Zenon DEF V

-----------------------------------------------------------------------------

\* Every scrape is whole.
LEMMA ScrapeWhole ==
  ASSUME xReceiver \in DOMAIN Receivers, xMb = EmptyBuilder(xReceiver), NEW now, NEW ok1, NEW ok2
  PROVE  WholeScrape(scrapeOf(now, ok1, ok2), xReceiver, now, Groups)
<1>1. CASE xReceiver = "nfsd"
  <2>1. scrapeOf(now, ok1, ok2) = scrapeNfsd(now, ok1, ok2)
    BY <1>1 DEF scrapeOf
  <2>2. Groups = {{"NfsThreads"}, DOMAIN nfsdMetrics \ {"NfsThreads"}}
    BY <1>1 DEF Groups
  <2>3. Groups = {DOMAIN recordThreads, DOMAIN scrapePoolStats}
    BY <2>2, NfsdNames, Zenon
  <2>4. /\ DOMAIN recordThreads \cap DOMAIN scrapePoolStats = {}
        /\ DOMAIN recordThreads \cup DOMAIN scrapePoolStats = DOMAIN Receivers[xReceiver]
    BY <1>1, NfsdNames, ReceiverMetrics, Zenon
  <2> DEFINE e == Emitted(RecordIf(ok2,
                    RecordIf(ok1, EmptyBuilder(xReceiver), now, recordThreads), now, scrapePoolStats))
  <2>5. WholeScrape(e, xReceiver, now, {DOMAIN recordThreads, DOMAIN scrapePoolStats})
    BY <2>4, TwoInputs, Zenon
  <2>6. scrapeNfsd(now, ok1, ok2) = e
    BY Zenon DEF scrapeNfsd
  <2> HIDE DEF e
  <2> QED BY <2>1, <2>3, <2>5, <2>6, Zenon
<1>2. CASE xReceiver = "slab"
  <2>1. scrapeOf(now, ok1, ok2) = scrapeSlab(now, ok1, ok2)
    BY <1>2 DEF scrapeOf
  <2>2. Groups = {DOMAIN slabDentryMetrics, DOMAIN slabNfsInodeMetrics}
    BY <1>2 DEF Groups
  <2>3. Groups = {DOMAIN recordDentry, DOMAIN recordNfsInode}
    BY <2>2, SlabNames, Zenon
  <2>4. /\ DOMAIN recordDentry \cap DOMAIN recordNfsInode = {}
        /\ DOMAIN recordDentry \cup DOMAIN recordNfsInode = DOMAIN Receivers[xReceiver]
    BY <1>2, SlabNames, ReceiverMetrics, Zenon
  <2> DEFINE e == Emitted(RecordIf(ok2,
                    RecordIf(ok1, EmptyBuilder(xReceiver), now, recordDentry), now, recordNfsInode))
  <2>5. WholeScrape(e, xReceiver, now, {DOMAIN recordDentry, DOMAIN recordNfsInode})
    BY <2>4, TwoInputs, Zenon
  <2>6. scrapeSlab(now, ok1, ok2) = e
    BY Zenon DEF scrapeSlab
  <2> HIDE DEF e
  <2> QED BY <2>1, <2>3, <2>5, <2>6, Zenon
<1>3. xReceiver \notin {"nfsd", "slab"} => Groups = {DOMAIN Receivers[xReceiver]}
  BY DEF Groups
<1>4. CASE xReceiver = "exports"
  <2>1. scrapeOf(now, ok1, ok2) = scrapeExports(now, ok1)
    BY <1>4 DEF scrapeOf
  <2>2. Groups = {DOMAIN Receivers[xReceiver]}
    BY <1>3, <1>4
  <2>3. DOMAIN Receivers[xReceiver] \subseteq DOMAIN recordExports
    BY <1>4, ExportsNames, ReceiverMetrics, Zenon
  <2>4. WholeScrape(Emitted(RecordIf(ok1, EmptyBuilder(xReceiver), now, recordExports)),
                    xReceiver, now, {DOMAIN Receivers[xReceiver]})
    BY <2>3, OneInput, Zenon
  <2>5. CASE ok1
    <3>1. scrapeExports(now, ok1) = Emitted(RecordIf(ok1, EmptyBuilder(xReceiver), now, recordExports))
      BY <2>5, Zenon DEF scrapeExports, RecordIf
    <3> QED BY <2>1, <2>2, <2>4, <3>1, Zenon
  <2>6. CASE ~ok1
    <3>1. scrapeExports(now, ok1) = NoMetrics
      BY <2>6, Zenon DEF scrapeExports
    <3> QED BY <2>1, <3>1, NothingWhole, Zenon
  <2> QED BY <2>5, <2>6
<1>5. CASE xReceiver = "connections"
  <2>1. scrapeOf(now, ok1, ok2) = scrapeConnections(now, ok1)
    BY <1>5 DEF scrapeOf
  <2>2. Groups = {DOMAIN Receivers[xReceiver]}
    BY <1>3, <1>5
  <2>3. DOMAIN Receivers[xReceiver] \subseteq DOMAIN parseSSOutput
    BY <1>5, ConnectionsNames, ReceiverMetrics, Zenon
  <2>4. WholeScrape(Emitted(RecordIf(ok1, EmptyBuilder(xReceiver), now, parseSSOutput)),
                    xReceiver, now, {DOMAIN Receivers[xReceiver]})
    BY <2>3, OneInput, Zenon
  <2>5. CASE ok1
    <3>1. scrapeConnections(now, ok1) = Emitted(RecordIf(ok1, EmptyBuilder(xReceiver), now, parseSSOutput))
      BY <2>5, Zenon DEF scrapeConnections, RecordIf
    <3> QED BY <2>1, <2>2, <2>4, <3>1, Zenon
  <2>6. CASE ~ok1
    <3>1. scrapeConnections(now, ok1) = NoMetrics
      BY <2>6, Zenon DEF scrapeConnections
    <3> QED BY <2>1, <3>1, NothingWhole, Zenon
  <2> QED BY <2>5, <2>6
<1>6. CASE xReceiver = "fscache"
  <2>1. scrapeOf(now, ok1, ok2) = scrapeFscache(now, ok1)
    BY <1>6 DEF scrapeOf
  <2>2. Groups = {DOMAIN Receivers[xReceiver]}
    BY <1>3, <1>6
  <2>3. DOMAIN Receivers[xReceiver] \subseteq DOMAIN Joined({recordNetfsMetrics, recordFscacheMetrics})
    BY <1>6, FscacheNames, ReceiverMetrics, Zenon
  <2> DEFINE vals == Joined({recordNetfsMetrics, recordFscacheMetrics})
             e == Emitted(RecordIf(ok1, EmptyBuilder(xReceiver), now, vals))
  <2>4. scrapeFscache(now, ok1) = e
    BY Zenon DEF scrapeFscache
  <2>5. WholeScrape(e, xReceiver, now, {DOMAIN Receivers[xReceiver]})
    <3>1. DOMAIN Receivers[xReceiver] \subseteq DOMAIN vals
      BY <2>3, Zenon
    <3> HIDE DEF vals
    <3> QED BY <3>1, OneInput, Zenon
  <2> HIDE DEF e
  <2> QED BY <2>1, <2>2, <2>4, <2>5, Zenon
<1> QED BY <1>1, <1>2, <1>4, <1>5, <1>6, ReceiverMetrics

\* The builder is empty between scrapes, and nothing is emitted before there is a receiver.
ScrapersInv ==
  /\ xReceiver = "none" => xOut = <<>>
  /\ xReceiver \in DOMAIN Receivers => xMb = EmptyBuilder(xReceiver)
  /\ EmissionWhole

\* Every step keeps ScrapersInv.
LEMMA ScrapersKept ==
  ASSUME ScrapersInv, [ScrapersNext]_scraperVars
  PROVE  ScrapersInv'
<1>0. DOMAIN << >> = {} /\ "none" \notin DOMAIN Receivers /\ "failed" \notin DOMAIN Receivers
      /\ "failed" # "none"
  BY ReceiverMetrics
<1>1. ASSUME NEW r \in DOMAIN Receivers, Create(r)
      PROVE  ScrapersInv'
  <2>1. xReceiver = "none" /\ xOut' = xOut /\ xOut' = <<>>
    BY <1>1, Zenon DEF Create, ScrapersInv
  <2>2. EmissionWhole'
    BY <1>0, <2>1, Zenon DEF EmissionWhole
  <2>3. CASE xReceiver' = r /\ xMb' = NewMetricsBuilder(Receivers[r], DefaultMetricsConfig(Receivers[r]))
    <3>1. xMb' = EmptyBuilder(xReceiver')
      BY <2>3, Zenon DEF EmptyBuilder
    <3> QED BY <2>1, <2>2, <3>1, Zenon DEF ScrapersInv
  <2>4. CASE xReceiver' = "failed"
    BY <1>0, <2>1, <2>2, <2>4, Zenon DEF ScrapersInv
  <2> QED BY <1>1, <2>3, <2>4, Zenon DEF Create
<1>2. ASSUME NEW ok1 \in BOOLEAN, NEW ok2 \in BOOLEAN, ScrapeOnce(ok1, ok2)
      PROVE  ScrapersInv'
  <2> DEFINE now == xScrapings + 1
             result == scrapeOf(now, ok1, ok2)
  <2>1. /\ xReceiver \in DOMAIN Receivers /\ xScrapings' = now /\ xMb' = result.mb
        /\ xOut' = result.out /\ xReceiver' = xReceiver
    BY <1>2, Zenon DEF ScrapeOnce
  <2>2. xMb = EmptyBuilder(xReceiver)
    BY <2>1, Zenon DEF ScrapersInv
  <2>3. WholeScrape(result, xReceiver, now, Groups)
    BY <2>1, <2>2, ScrapeWhole, Zenon
  <2> HIDE DEF now, result
  <2>4. Groups' = Groups
    BY <2>1, Zenon DEF Groups
  <2>5. EmissionWhole'
    BY <2>1, <2>3, <2>4, Zenon DEF EmissionWhole, WholeScrape, Fresh
  <2>6. xMb' = EmptyBuilder(xReceiver)
    BY <2>1, <2>3, Zenon DEF WholeScrape
  <2>7. xReceiver' # "none"
    BY <1>0, <2>1, Zenon
  <2> QED BY <2>1, <2>5, <2>6, <2>7, Zenon DEF ScrapersInv
<1>3. ASSUME xReceiver' = xReceiver, xMb' = xMb, xOut' = xOut, xScrapings' = xScrapings
      PROVE  ScrapersInv'
  <2>1. Groups' = Groups
    BY <1>3, Zenon DEF Groups
  <2> QED BY <1>3, <2>1, Zenon DEF ScrapersInv, EmissionWhole
<1>4. ASSUME NEW c, Bump(c) \/ Fall(c)
      PROVE  ScrapersInv'
  BY <1>3, <1>4, Zenon DEF Bump, Fall
<1>5. CASE UNCHANGED scraperVars
  BY <1>3, <1>5 DEF scraperVars
<1> QED BY <1>1, <1>2, <1>4, <1>5, Zenon DEF ScrapersNext

\* A receiver of counters emits the metrics of one input together or not at
\* all, each with one point of this scrape: an input that cannot be read takes
\* its own metrics only, and nothing recorded before an error is left for a
\* later scrape.
THEOREM EmissionsAreWhole == ScrapersSpec => []EmissionWhole
<1>1. ScrapersInit => ScrapersInv
  <2>1. "none" \notin DOMAIN Receivers
    BY ReceiverMetrics
  <2> QED BY <2>1, Zenon DEF ScrapersInit, ScrapersInv, EmissionWhole
<1>2. ScrapersInv /\ [ScrapersNext]_scraperVars => ScrapersInv'
  BY ScrapersKept
<1>3. ScrapersInv => EmissionWhole
  BY Zenon DEF ScrapersInv
<1> QED BY <1>1, <1>2, <1>3, PTL DEF ScrapersSpec
=============================================================================
