------------------------------ MODULE MCProxy ------------------------------
(* The start of a proxy, and the handlers of knfsd-fsidd, which share no state with
   it: each behaviour is one of one of them, the focus. *)
EXTENDS ProxyStartup, MCFsiddReply

VARIABLE focus

MCVolumes == <<"n1", "", "n2", "n3">>
MCMatches == [inN |-> {"n1", "n2", "a1"}, outN |-> {"n2"}, bad |-> {}]
MCFilters ==
  {[includes |-> {}, excludes |-> {}], [includes |-> {"inN"}, excludes |-> {"outN"}],
   [includes |-> {}, excludes |-> {"bad"}]}
MCExportMap == <<"m1", "n2">>
MCAutoExports == <<"a1", "bin">>
MCFsidConfigs ==
  {[ok |-> TRUE, set |-> [table |-> "t1"]], [ok |-> TRUE, set |-> [table |-> "t2"]],
   [ok |-> FALSE, set |-> <<>>]}
MCSettings == {[flags |-> <<>>, env |-> <<>>], [flags |-> [table |-> "t3"], env |-> [cache |-> "no"]]}
MCEnvironments ==
  {[host |-> "h", url |-> "u", user |-> "x", secret |-> "s"],
   [host |-> "h", url |-> "u", user |-> "", secret |-> "s"]}

ProxyAndReplyInit ==
  /\ focus \in {"proxy", "reply"} /\ ProxyInit /\ Init
  /\ focus = "reply" => pFilters = [includes |-> {}, excludes |-> {}] /\ fSettings.flags = <<>>

ProxyAndReplyNext ==
  /\ UNCHANGED focus
  /\ \/ focus = "proxy" /\ ProxyNext /\ UNCHANGED vars
     \/ focus = "reply" /\ Next /\ UNCHANGED <<proxyVars, bootVars, netappVars>>

ProxySpec ==
  ProxyAndReplyInit /\ [][ProxyAndReplyNext]_<<focus, proxyVars, bootVars, netappVars, vars>>
=============================================================================
