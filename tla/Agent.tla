------------------------------- MODULE Agent -------------------------------
(***************************************************************************)
(* knfsd-agent: the HTTP handlers of a proxy's agent and the client        *)
(* library that its callers use.                                           *)
(*                                                                         *)
(* Requests are served concurrently.  handleNodeInfo refreshes one global  *)
(* record field by field from the metadata service, without a lock, and    *)
(* the record is marshalled after the handler has returned.  A string is   *)
(* two words, its pointer and its length; goroutines that race write and   *)
(* read them one at a time.  A string with a length and no pointer makes   *)
(* the reader panic, and net/http closes that connection.  The metadata    *)
(* service answers the same for the life of an instance, so a value is     *)
(* either there or "".                                                     *)
(*                                                                         *)
(* handleCacheDrop frees kernel caches.  Meanwhile the kernel reads and    *)
(* writes cached objects: one stands for the page cache, one for the slab. *)
(***************************************************************************)
EXTENDS Sequences, Naturals

CONSTANTS
  Callers,      \* those who send requests
  MaxRequests,  \* requests of each
  MaxTouches    \* uses of cached objects

\* The fields of NodeInfo in the order they are fetched.  One stands for those
\* before the MAC address, one for those whose path has the MAC address in it.
InfoFields == <<"Name", "MACAddress", "VPCID">>
Objects == {"page", "slab"}
Words2 == {"ptr", "len"}
Blank == ""
Filled == "filled"
EmptyBody == <<>>
Message == <<"message">>
Closed == [status |-> 0, body |-> EmptyBody]
NoCall == [route |-> "none", method |-> "none", mode |-> ""]

VARIABLES
  nodeInfo,     \* the global: the words of each field that are not zero
  cached,       \* state of the kernel's cached objects
  rPc, rCall,   \* the step a request is at, and the request
  rField,       \* the field it fetches or marshals
  rStore,       \* the words it has yet to store, and whether the value is Blank
  rBody,        \* what it has marshalled
  rReply,       \* the response to the last request
  rDisturbed,   \* ghost: another request, whose call failed, stored "" meanwhile
  rTouched,     \* ghost: objects used since the request was sent
  rLeft, kTouches

infoVars == <<nodeInfo, rField, rStore, rBody>>
dropVars == <<cached, rTouched, kTouches>>
requestVars == <<rPc, rCall, rReply, rDisturbed, rLeft>>
agentVars == <<infoVars, dropVars, requestVars>>

AgentInit ==
  /\ nodeInfo = [f \in 1..Len(InfoFields) |-> {}]
  /\ cached = [o \in Objects |-> "dirty"] /\ kTouches = 0
  /\ rPc = [c \in Callers |-> "idle"] /\ rCall = [c \in Callers |-> NoCall]
  /\ rField = [c \in Callers |-> 1] /\ rBody = [c \in Callers |-> EmptyBody]
  /\ rStore = [c \in Callers |-> [words |-> {}, value |-> Blank]]
  /\ rReply = [c \in Callers |-> Closed]
  /\ rDisturbed = [c \in Callers |-> FALSE] /\ rTouched = [c \in Callers |-> {}]
  /\ rLeft = [c \in Callers |-> MaxRequests]

-----------------------------------------------------------------------------
(* Requests. *)

\* What a caller may ask for.  DropCaches of the library refuses other modes.
Calls ==
  [route : {"nodeInfo"}, method : {"GET", "HEAD", "POST"}, mode : {""}]
    \cup [route : {"drop"}, method : {"GET", "POST"}, mode : {"", "1", "2", "9"}]

parseDropCachesMode(raw) ==
  CASE raw \in {"", "3"} -> {"page", "slab"}
    [] raw = "1" -> {"page"}
    [] raw = "2" -> {"slab"}
    [] OTHER -> {}

Reply(c, status, body) ==
  /\ rReply' = [rReply EXCEPT ![c] = [status |-> status, body |-> body]]
  /\ rPc' = [rPc EXCEPT ![c] = "idle"]

\* The request arrives.  Execute of routes.go answers HEAD at once and refuses
\* methods other than GET; handleCacheDrop refuses those other than POST, and
\* modes it does not know.
Request(c, call) ==
  /\ rPc[c] = "idle" /\ rLeft[c] > 0
  /\ rLeft' = [rLeft EXCEPT ![c] = @ - 1]
  /\ rCall' = [rCall EXCEPT ![c] = call]
  /\ rDisturbed' = [rDisturbed EXCEPT ![c] = FALSE]
  /\ rTouched' = [rTouched EXCEPT ![c] = {}]
  /\ rField' = [rField EXCEPT ![c] = 1] /\ rBody' = [rBody EXCEPT ![c] = EmptyBody]
  /\ CASE call.route = "nodeInfo" /\ call.method = "HEAD" -> Reply(c, 200, EmptyBody)
       [] call.route = "nodeInfo" /\ call.method = "POST" -> Reply(c, 405, Message)
       [] call.route = "drop" /\ call.method # "POST" -> Reply(c, 405, Message)
       [] call.route = "drop" /\ call.method = "POST"
            /\ parseDropCachesMode(call.mode) = {} -> Reply(c, 400, Message)
       [] OTHER -> /\ rPc' = [rPc EXCEPT ![c] = IF call.route = "drop" THEN "sync" ELSE "fetch"]
                   /\ UNCHANGED rReply
  /\ UNCHANGED <<nodeInfo, rStore, cached, kTouches>>

-----------------------------------------------------------------------------
(* nodeinfo.go, metadata.go *)

Read(f) == IF "len" \in nodeInfo[f] THEN Filled ELSE Blank
Panics(f) == nodeInfo[f] = {"len"}
UsesMAC(f) == InfoFields[f] = "VPCID"

\* getMetadataValue for the field that fetchNodeInfo has come to.  A path with
\* an empty MAC address does not exist.  The value, or "" with an error, is
\* assigned to the field.
Fetch(c) ==
  LET f == rField[c]
      mac == CHOOSE i \in 1..Len(InfoFields) : InfoFields[i] = "MACAddress"
  IN
  /\ rPc[c] = "fetch"
  /\ IF UsesMAC(f) /\ Panics(mac) THEN
       Reply(c, Closed.status, Closed.body) /\ UNCHANGED rStore
     ELSE
       \E value \in {Filled, Blank} :
         /\ UsesMAC(f) /\ Read(mac) = Blank => value = Blank
         /\ rStore' = [rStore EXCEPT ![c] = [words |-> Words2, value |-> value]]
         /\ rPc' = [rPc EXCEPT ![c] = "store"]
         /\ UNCHANGED rReply
  /\ UNCHANGED <<nodeInfo, rField, rBody, dropVars, rCall, rDisturbed, rLeft>>

\* Mutant: handleNodeInfo answers with the record although a call has failed.
FetchedAnyway(c, value) ==
  LET more == value = Filled /\ rField[c] < Len(InfoFields) IN
  /\ rPc' = [rPc EXCEPT ![c] = IF more THEN "fetch" ELSE "marshal"]
  /\ rField' = [rField EXCEPT ![c] = IF more THEN @ + 1 ELSE 1]
  /\ UNCHANGED rReply

\* fetchNodeInfo returns on the first error, and Execute answers 500; otherwise
\* it goes on, and after the last field the record is marshalled.
Fetched(c, value) ==
  CASE value = Blank -> Reply(c, 500, Message) /\ UNCHANGED rField
    [] value = Filled /\ rField[c] < Len(InfoFields) ->
         /\ rField' = [rField EXCEPT ![c] = @ + 1]
         /\ rPc' = [rPc EXCEPT ![c] = "fetch"]
         /\ UNCHANGED rReply
    [] OTHER -> /\ rField' = [rField EXCEPT ![c] = 1]
                /\ rPc' = [rPc EXCEPT ![c] = "marshal"]
                /\ UNCHANGED rReply

\* One word of the string is stored.
Store2(c, w) ==
  LET f == rField[c] st == rStore[c] IN
  /\ rPc[c] = "store" /\ w \in st.words
  /\ nodeInfo' = [nodeInfo EXCEPT ![f] = IF st.value = Blank THEN @ \ {w} ELSE @ \cup {w}]
  /\ rStore' = [rStore EXCEPT ![c].words = @ \ {w}]
  /\ rDisturbed' = [d \in Callers |->
       rDisturbed[d] \/ (st.value = Blank /\ d # c /\ rPc[d] # "idle")]
  /\ IF st.words = {w} THEN Fetched(c, st.value) ELSE UNCHANGED <<rPc, rField, rReply>>
  /\ UNCHANGED <<rBody, dropVars, rCall, rLeft>>

\* MarshalIndent comes to the next field of the global.
Marshal(c) ==
  LET f == rField[c] body == Append(rBody[c], Read(f)) IN
  /\ rPc[c] = "marshal"
  /\ rBody' = [rBody EXCEPT ![c] = body]
  /\ IF Panics(f) THEN Reply(c, Closed.status, Closed.body) /\ UNCHANGED rField
     ELSE IF f = Len(InfoFields) THEN Reply(c, 200, body) /\ UNCHANGED rField
     ELSE rField' = [rField EXCEPT ![c] = @ + 1] /\ UNCHANGED <<rPc, rReply>>
  /\ UNCHANGED <<nodeInfo, rStore, dropVars, rCall, rDisturbed, rLeft>>

-----------------------------------------------------------------------------
(* cachedrop.go *)

\* Mutant: the caches are dropped without writing dirty objects back.
SyncNever(c) ==
  /\ rPc[c] = "sync"
  /\ rPc' = [rPc EXCEPT ![c] = "write"]
  /\ UNCHANGED <<cached, infoVars, rTouched, kTouches, rCall, rReply, rDisturbed, rLeft>>

\* dropCaches: unix.Sync writes back every dirty object.
Sync(c) ==
  /\ rPc[c] = "sync"
  /\ cached' = [o \in Objects |-> IF cached[o] = "dirty" THEN "clean" ELSE cached[o]]
  /\ rPc' = [rPc EXCEPT ![c] = "write"]
  /\ UNCHANGED <<infoVars, rTouched, kTouches, rCall, rReply, rDisturbed, rLeft>>

\* dropCaches: writing the mode frees clean objects, or the write fails.
WriteMode(c) ==
  LET mode == parseDropCachesMode(rCall[c].mode) IN
  /\ rPc[c] = "write"
  /\ \/ /\ cached' = [o \in Objects |->
             IF o \in mode /\ cached[o] = "clean" THEN "absent" ELSE cached[o]]
        /\ Reply(c, 200, <<mode>>)
     \/ Reply(c, 500, Message) /\ UNCHANGED cached
  /\ UNCHANGED <<infoVars, rTouched, kTouches, rCall, rDisturbed, rLeft>>

\* The kernel reads or writes a cached object.
Touch(o, state) ==
  /\ kTouches < MaxTouches
  /\ kTouches' = kTouches + 1
  /\ cached' = [cached EXCEPT ![o] = IF @ = "dirty" THEN @ ELSE state]
  /\ rTouched' = [c \in Callers |-> rTouched[c] \cup {o}]
  /\ UNCHANGED <<infoVars, requestVars>>

AgentNext ==
  \/ \E c \in Callers :
       \/ \E call \in Calls : Request(c, call)
       \/ Fetch(c) \/ Marshal(c) \/ Sync(c) \/ WriteMode(c)
       \/ \E w \in Words2 : Store2(c, w)
  \/ \E o \in Objects, state \in {"clean", "dirty"} : Touch(o, state)

-----------------------------------------------------------------------------
(* client.go: what a caller makes of a response. *)

\* get decodes any body, whatever its status: that of an error has none of the
\* fields of NodeInfo.  Without a body it returns an error, here EmptyBody.
get(r) ==
  IF r.status = 200 \/ r.body = EmptyBody THEN r.body
  ELSE [f \in 1..Len(InfoFields) |-> Blank]

post(r) == IF r.status = 200 THEN "nil" ELSE "err"

-----------------------------------------------------------------------------
(* Properties. *)

\* A request that no failure of another one disturbs answers with the whole
\* record, or with none of it: the fields that concurrent requests store into the
\* global (fetchNodeInfo) are the same, and a handler whose own call fails does
\* not answer with it (handleNodeInfo).  No connection breaks for a torn string.
NodeInfoHonest ==
  \A c \in Callers :
    rPc[c] = "idle" /\ rCall[c].route = "nodeInfo" /\ rCall[c].method = "GET"
      /\ ~rDisturbed[c] =>
        LET info == get(rReply[c]) IN
          info # EmptyBody /\ \A f, g \in DOMAIN info : info[f] = info[g]

\* When DropCaches returns without an error, none of the objects of its mode that
\* were cached when it was called are still cached, unless they were used again
\* since: they were written back first (dropCaches), by this request or by one that
\* overlaps it, and an error is not mistaken for success (post).
DropIsReal ==
  \A c \in Callers :
    rPc[c] = "idle" /\ rCall[c].route = "drop" /\ post(rReply[c]) = "nil" =>
      \A o \in rReply[c].body[1] : cached[o] # "absent" => o \in rTouched[c]
=============================================================================
