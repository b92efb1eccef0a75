------------------------------ MODULE MCAgents ------------------------------
(***************************************************************************)
(* The programs that observe a proxy: the receivers of knfsd-metrics-agent *)
(* and knfsd-agent.  They share no state beyond the answers of the agents  *)
(* that the receiver mounts asks for (AgentAnswers), so each behaviour is  *)
(* one of one program, the focus.                                          *)
(***************************************************************************)
EXTENDS MetricsBuilder, MCMounts, Scrapers, CacheWalk, Agent

VARIABLE focus

Programs == {"builder", "mounts", "scrapers", "walk", "agent"}

\* Which attributes are kept, how points are merged, and configurations that are
\* refused.
MCUserConfigs ==
  {<<>>, [enabled |-> FALSE], [attributes |-> {"server", "path"}],
   [aggregation_strategy |-> "median"]}
    \cup {[attributes |-> a, aggregation_strategy |-> s] : a \in {{}, {"server"}}, s \in Strategies}

MCMaxBumps == [nfsd |-> 3, exports |-> 2, fscache |-> 1, slab |-> 2, connections |-> 2]

MCDirOf == [f |-> "d", g |-> "d", h |-> "e"]

AgentsInit ==
  /\ focus \in Programs
  /\ BuilderInit /\ MountsInit /\ ScrapersInit /\ CacheWalkInit /\ AgentInit

AgentsNext ==
  /\ UNCHANGED focus
  /\ \/ focus = "builder" /\ BuilderNext
        /\ UNCHANGED <<mountVars, scraperVars, cacheWalkVars, agentVars>>
     \/ focus = "mounts" /\ MountsNext
        /\ UNCHANGED <<builderVars, scraperVars, cacheWalkVars, agentVars>>
     \/ focus = "scrapers" /\ ScrapersNext
        /\ UNCHANGED <<builderVars, mountVars, cacheWalkVars, agentVars>>
     \/ focus = "walk" /\ CacheWalkNext
        /\ UNCHANGED <<builderVars, mountVars, scraperVars, agentVars>>
     \/ focus = "agent" /\ AgentNext
        /\ UNCHANGED <<builderVars, mountVars, scraperVars, cacheWalkVars>>

AgentsSpec ==
  AgentsInit /\ [][AgentsNext]_<<focus, builderVars, mountVars, scraperVars, cacheWalkVars, agentVars>>
=============================================================================
