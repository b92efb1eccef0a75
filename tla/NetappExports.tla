--------------------------- MODULE NetappExports ---------------------------
(***************************************************************************)
(* netapp-exports: lists the volumes of a NetApp server, page by page, and *)
(* prints their paths.  The server is external: a page has the first       *)
(* PageSize volumes after the one its URL names, at the time of the        *)
(* request, and a link to the next page when there are more.  Volumes come *)
(* and go between requests.                                                *)
(***************************************************************************)
EXTENDS Lines

CONSTANTS
  Volumes,        \* the volumes there may be, in the server's order
  InitialVolumes, \* the positions of those there are at first
  PageSize,       \* max_records, 100 in the code
  Environments,   \* NETAPP_* variables the program may find, {} if it is disabled
  MaxVolumeChanges

ASSUME NetappAssumption ==
  Volumes \in Seq(STRING) /\ InitialVolumes \subseteq DOMAIN Volumes /\ PageSize \in Nat \ {0}

VARIABLES
  nVolumes,  \* positions of the volumes that exist
  nPc,       \* where the program is: "fetch", or "exit0", "exit1"
  nServer,   \* the server it was told of
  nNext,     \* the position after which the next page begins
  nPaths,    \* paths of FetchAll
  nOutput,   \* the paths it has printed
  nSteady,   \* the volumes that have existed since the program started
  nChanges

netappVars == <<nVolumes, nPc, nServer, nNext, nPaths, nOutput, nSteady, nChanges>>

NetappInit ==
  /\ nVolumes = InitialVolumes /\ nPc = "exit0" /\ nServer = <<>>
  /\ nNext = 0 /\ nPaths = <<>> /\ nOutput = <<>> /\ nSteady = {} /\ nChanges = 0

\* Parse of opt.go: without flags, a variable that is set and not empty counts.
Parse(env) == [k \in {j \in DOMAIN env : env[j] # ""} |-> env[k]]

validate(server) ==
  /\ {"host", "url", "user"} \subseteq DOMAIN server
  /\ ("password" \in DOMAIN server) # ("secret" \in DOMAIN server)

\* main, up to FetchAll; the password may have to come from Secrets Manager.
StartNetapp(env, secretOk) ==
  LET server == Parse(env)
      ok == validate(server) /\ ("secret" \in DOMAIN server => secretOk)
  IN /\ nServer' = server
     /\ nPc' = IF ok THEN "fetch" ELSE "exit1"
     /\ nNext' = 0 /\ nPaths' = <<>> /\ nOutput' = <<>> /\ nSteady' = nVolumes
     /\ UNCHANGED <<nVolumes, nChanges>>

\* ENABLE_NETAPP_AUTO_DETECT is not set, and the program does not run.
SkipNetapp ==
  /\ nOutput' = <<>> /\ nSteady' = {} /\ nPc' = "exit0"
  /\ UNCHANGED <<nVolumes, nServer, nNext, nPaths, nChanges>>

\* FetchNextPage: the answer of the server without the records that have no path,
\* and the link to the next page, 0 for none.
FetchNextPage(after) ==
  LET rest == Selected([v \in DOMAIN Volumes |-> v], {v \in nVolumes : v > after})
      page == SubSeq(rest, 1, IF Len(rest) < PageSize THEN Len(rest) ELSE PageSize)
  IN [paths |-> Selected([i \in DOMAIN page |-> Volumes[page[i]]], {Volumes[v] : v \in nVolumes} \ {""}),
      next |-> IF Len(rest) > PageSize THEN page[PageSize] ELSE 0]

\* Mutant: an error on a later page ends the list.
fetchFailsFirst(ok) == ~ok /\ nPaths = <<>>

\* FetchAll returns the error of any page, and listExports then prints nothing.
fetchFails(ok) == ~ok

\* One round of the loop of FetchAll, and listExports after the last one.
FetchRound(ok) ==
  /\ nPc = "fetch"
  /\ LET page == IF ok THEN FetchNextPage(nNext) ELSE [paths |-> <<>>, next |-> 0]
         paths == nPaths \o page.paths
     IN /\ nNext' = page.next
        /\ nPc' = IF fetchFails(ok) THEN "exit1" ELSE IF page.next = 0 THEN "exit0" ELSE "fetch"
        /\ nPaths' = IF nPc' = "fetch" THEN paths ELSE <<>>
        /\ nOutput' = IF nPc' = "exit0" THEN paths ELSE <<>>
  /\ UNCHANGED <<nVolumes, nServer, nSteady, nChanges>>

\* A volume is created or deleted on the server.
ChangeVolume(v) ==
  /\ nPc = "fetch" /\ nChanges < MaxVolumeChanges
  /\ nVolumes' = IF v \in nVolumes THEN nVolumes \ {v} ELSE nVolumes \cup {v}
  /\ nSteady' = nSteady \cap nVolumes'
  /\ nChanges' = nChanges + 1
  /\ UNCHANGED <<nPc, nServer, nNext, nPaths, nOutput>>

NetappNext ==
  \/ \E ok \in BOOLEAN : FetchRound(ok)
  \/ \E v \in DOMAIN Volumes : ChangeVolume(v)
=============================================================================
