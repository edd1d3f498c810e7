---------------------------- MODULE MCSpecManager ----------------------------
(***************************************************************************)
(* Instances of SpecManager for TLC: the specs a manager sends to a pod of  *)
(* subset "blue" of the VirtualApp "app" while its rules, its endpoints and *)
(* its subset labels change.                                                *)
(***************************************************************************)
EXTENDS SpecManager

Rule(nss) == [namespaces |-> nss, resources |-> <<>>, objectSelector |-> NoSelector]

SelectorRule(sel) == [namespaces |-> {}, resources |-> <<>>, objectSelector |-> sel]

\* Subset "blue" owns nss, the default subset the other namespaces.
RouteOf(subset, nss, globalLimits, userAgents) ==
  [subset |-> subset,
   globalLimits |-> globalLimits,
   subsetLimits |->
     <<[subset |-> "blue", limits |-> <<Rule(nss)>>],
       [subset |-> "", limits |-> <<Rule(Namespaces \ nss)>>]>>,
   subsetPublicResources |-> <<>>,
   subsetDefaultOnlyUserAgents |-> userAgents]

SpecOf(app, hash, route, ips) ==
  [vAppName |-> app, hash |-> hash, route |-> route,
   endpoints |-> [i \in DOMAIN ips |-> [subset |-> "blue", ip |-> ips[i]]]]

MCDeployments == {[group |-> "apps", resource |-> "deployments"]}

OwnsA     == SpecOf("app", "h1", RouteOf("blue", {"a"}, <<>>, {}), <<>>)
OwnsAB    == SpecOf("app", "h2", RouteOf("blue", {"a", "b"}, <<>>, {}), <<>>)
OwnsB     == SpecOf("app", "h3", RouteOf("blue", {"b"}, <<>>, {}), <<>>)
OwnsAEndpoint == [OwnsA EXCEPT !.hash = "h4",
                               !.endpoints = <<[subset |-> "", ip |-> "ip1"]>>]
OwnsAAgent == SpecOf("app", "h5", RouteOf("blue", {"a"}, <<>>, {"mgr"}), <<>>)
Relabelled == SpecOf("app", "h2", RouteOf("", {"a", "b"}, <<>>, {}), <<>>)
OtherApp   == [OwnsAB EXCEPT !.vAppName = "other"]

MCSpecs == {OwnsA, OwnsAB, OwnsB, OwnsAEndpoint, OwnsAAgent, Relabelled, OtherApp}

MCRestartSpecs == {OwnsA, OwnsAB, OwnsAAgent, Relabelled}

MCGrowingSpecs == {OwnsA, OwnsAB, OwnsB}

Labelled == [matchLabels |-> (1 :> "x"), matchExpressions |-> <<>>]

SelectsX == SpecOf("app", "h6", RouteOf("blue", {"a"}, <<SelectorRule(Labelled)>>, {}), <<>>)
SelectsXEndpoint == [SelectsX EXCEPT !.hash = "h7",
                                     !.endpoints = <<[subset |-> "", ip |-> "ip1"]>>]

MCSelectorSpecs == {OwnsA, SelectsX, SelectsXEndpoint}

\* No definition tells the request goroutines apart.
HandlerSymmetry == Permutations(Handlers)
=============================================================================
