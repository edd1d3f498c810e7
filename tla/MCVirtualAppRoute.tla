-------------------------- MODULE MCVirtualAppRoute --------------------------
(***************************************************************************)
(* VirtualApps for the model checker: overlapping rules, rules about one    *)
(* resource, public resources, global limits, object selectors, no subsets, *)
(* and two the validating webhook must refuse.                              *)
(***************************************************************************)
EXTENDS VirtualAppRoute

Only(r) == <<[apiGroups |-> <<"*">>, resources |-> <<r>>]>>

ByLabel(ls, res) ==
  [kind |-> "selector", matches |-> ls, resources |-> res, objectSelector |-> NoSelector]

ByName(ns, res) ==
  [kind |-> "regex", matches |-> ns, resources |-> res, objectSelector |-> NoSelector]

ByObject(res) ==
  [kind |-> "object", matches |-> {}, resources |-> res, objectSelector |-> EmptySelector]

Rule(name, match) == [name |-> name, match |-> match]

Subset(name, labels, rules) == [name |-> name, labels |-> labels, routeRules |-> rules]

VApp(limits, rules, public, subsets) ==
  [selector |-> {"app"}, configuration |-> "complete", globalLimits |-> limits,
   subRules |-> rules, subsetPublicResources |-> public,
   subsetDefaultOnlyUserAgents |-> {}, subsets |-> subsets]

Blue == Subset("blue", {"blue"}, <<"r1">>)

Green == Subset("green", {"green", "big"}, <<"r2">>)

Plain == VApp(<<>>, <<>>, <<>>, <<>>)

Overlapping ==
  VApp(<<>>,
       <<Rule("r1", <<ByLabel({"x"}, Nil)>>),
         Rule("r2", <<ByName({"a"}, Nil), ByObject(Only("pods"))>>)>>,
       <<>>, <<Blue, Green>>)

Limited ==
  VApp(<<ByLabel({"x"}, Only("pods")), ByName({"b"}, Only("secrets"))>>,
       <<Rule("r1", <<ByLabel({"x"}, Nil), ByName({"a"}, Only("secrets"))>>)>>,
       Only("secrets"), <<Blue>>)

Public ==
  VApp(<<>>, <<Rule("r1", <<ByLabel({"y"}, Nil)>>), Rule("r2", <<ByObject(Only("pods"))>>)>>,
       Only("secrets"), <<Blue, Green>>)

\* Refused: the subset has no name.
Unnamed == VApp(<<>>, <<Rule("r1", <<ByLabel({"x"}, Nil)>>)>>, <<>>,
                <<Subset("", {"blue"}, <<"r1">>)>>)

\* Refused: the selector is another one.
Reselected == [Plain EXCEPT !.selector = {"app", "v2"}]

MCVirtualApps == {Plain, Overlapping, Limited, Public, Unnamed, Reselected}

MCGRs == { [group |-> "", resource |-> r] : r \in {"pods", "secrets"} }

Pod(labels, ready) == [labels |-> labels, ready |-> ready]

\* The last pod has the labels of two subsets.
MCPods ==
  <<Pod({"app", "green", "big"}, FALSE), Pod({"app", "big"}, TRUE),
    Pod({"app", "blue", "green", "big"}, TRUE)>>
=============================================================================
