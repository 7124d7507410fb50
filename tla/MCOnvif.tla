------------------------------- MODULE MCOnvif -------------------------------
(***************************************************************************)
(* Access, OnvifService and Discovery together, for TLC.  A handler reads  *)
(* the configuration once and answers from what it read, so what it        *)
(* answers does not depend on who else asks: requests and changes of the   *)
(* account interleave under one small configuration only (a bound),        *)
(* datagrams under another, and every other configuration is described as  *)
(* it was loaded, until a factory reset.                                   *)
(***************************************************************************)
EXTENDS Access, OnvifService, Discovery

MCSkew == {-3, 0, 2, 3}
Symmetry == Permutations(Nonce) \cup Permutations(Prober)

\* One silent profile, no PTZ: where requests come, and where datagrams come.
Lone(p) == Configuration(<<[p EXCEPT !.audio.enabled = FALSE]>>, [enabled |-> FALSE, node |-> "PTZNode_1"])
Asked == Lone(MainStream)
Probed == Lone(SubStream)

MCInit ==
  /\ Init /\ DiscoveryInit
  /\ \/ config = Asked
     \/ /\ config \in {Probed, DefaultConfig} \cup OneProfile \cup ManyProfiles /\ Configured
        /\ account = CHOOSE a \in Account : TRUE

FactoryReset ==
  /\ config \notin {Asked, Probed, DefaultConfig} /\ config' = DefaultConfig
  /\ \E a \in Account : ChangeAccount(a)
  /\ UNCHANGED discoveryVars

MCNext ==
  \/ config = Asked /\ Next /\ UNCHANGED <<config, discoveryVars>>
  \/ config = Probed /\ DiscoveryNext /\ UNCHANGED <<config, accessVars>>
  \/ FactoryReset

MCSpec == MCInit /\ [][MCNext]_<<accessVars, config, discoveryVars>>
=============================================================================
