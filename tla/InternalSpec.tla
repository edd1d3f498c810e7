---------------------------- MODULE InternalSpec ----------------------------
(***************************************************************************)
(* The routing spec a proxy receives (ProxySpecV1) and the decisions it     *)
(* answers: which subset owns a namespace, whether a user-agent is served,  *)
(* which object selector a list or watch must carry, where a webhook call   *)
(* goes.  Pure operators, translated from                                   *)
(* apis/ctrlmesh/proto/ctrlmesh_internal.go and util/selector.go.           *)
(*                                                                          *)
(* A spec is a record                                                       *)
(*   [vAppName, hash, route, endpoints]                                     *)
(* a route                                                                  *)
(*   [subset, globalLimits, subsetLimits, subsetPublicResources,            *)
(*    subsetDefaultOnlyUserAgents]                                          *)
(* a limit rule [namespaces, resources, objectSelector], a label selector   *)
(* [matchLabels, matchExpressions].  Label keys are numbers in the order of *)
(* the strings they stand for (NegateLabelSelector sorts by key).           *)
(***************************************************************************)
EXTENDS Naturals, Sequences, SequencesExt

CONSTANT NoSelector      \* the nil *metav1.LabelSelector

ResourceAll == "*"

AllSubsetPublic == "AllSubsetPublic"

ClusterScope == ""

DefaultSubset == ""

-----------------------------------------------------------------------------
(* Resources *)

\* The wildcard counts only as the single member of the list.
containsString(x, list) ==
  \/ list = <<ResourceAll>>
  \/ Contains(list, x)

isGRMatchedAPIResources(gr, resources) ==
  \E i \in DOMAIN resources :
     /\ containsString(gr.group, resources[i].apiGroups)
     /\ containsString(gr.resource, resources[i].resources)

\* A rule without resources is about every resource.
AppliesTo(limit, gr) ==
  limit.resources = <<>> \/ isGRMatchedAPIResources(gr, limit.resources)

HasSelector(limit) == limit.objectSelector # NoSelector

-----------------------------------------------------------------------------
(* Namespaces and user-agents *)

OwnedBy(subset) == [subset |-> subset, ok |-> TRUE]

NotOwned == [subset |-> "", ok |-> FALSE]

GloballyDenied(route, ns, gr) ==
  \E i \in DOMAIN route.globalLimits :
     LET limit == route.globalLimits[i]
     IN  /\ AppliesTo(limit, gr)
         /\ ~HasSelector(limit)
         /\ ns \notin limit.namespaces

\* The limit rules of subset entry i that are consulted for gr: a rule that
\* names no resource is skipped for a public resource.
ConsultedLimits(route, i, gr) ==
  LET limits == route.subsetLimits[i].limits
      public == isGRMatchedAPIResources(gr, route.subsetPublicResources)
  IN  { limits[j] : j \in { k \in DOMAIN limits :
          /\ ~HasSelector(limits[k])
          /\ AppliesTo(limits[k], gr)
          /\ limits[k].resources = <<>> => ~public } }

\* The result pair (subset, ok); the first subset entry with a rule that
\* contains ns wins.
determineNamespaceSubset(route, ns, gr) ==
  LET entries == DOMAIN route.subsetLimits
      Owns(i) == \E l \in ConsultedLimits(route, i, gr) : ns \in l.namespaces
      owners  == { i \in entries : Owns(i) }
      named   == \E i \in entries :
                   \E l \in ConsultedLimits(route, i, gr) : l.resources # <<>>
  IN  CASE ns = ClusterScope -> OwnedBy(DefaultSubset)
        [] ns # ClusterScope /\ GloballyDenied(route, ns, gr) -> NotOwned
        [] OTHER ->
             IF owners # {}
             THEN OwnedBy(route.subsetLimits[Min(owners)].subset)
             ELSE IF isGRMatchedAPIResources(gr, route.subsetPublicResources)
                     /\ ~named
                  THEN OwnedBy(AllSubsetPublic)
                  ELSE NotOwned

IsSelf(route, owner) ==
  owner.ok /\ owner.subset \in {AllSubsetPublic, route.subset}

IsNamespaceMatch(spec, ns, gr) ==
  IsSelf(spec.route, determineNamespaceSubset(spec.route, ns, gr))

IsUserAgentMatch(spec, userAgent) ==
  userAgent \in spec.route.subsetDefaultOnlyUserAgents
    => spec.route.subset = DefaultSubset

\* Where a webhook call for ns goes: ignored, served by this pod, or sent to
\* one of the hosts of the owning subset.
GetMatchedSubsetEndpoint(spec, ns, gr) ==
  LET owner == determineNamespaceSubset(spec.route, ns, gr)
      self  == IsSelf(spec.route, owner)
      theirs == SelectSeq(spec.endpoints, LAMBDA e : e.subset = owner.subset)
  IN  [ignore |-> ~owner.ok,
       self   |-> self,
       hosts  |-> IF owner.ok /\ ~self
                  THEN [i \in DOMAIN theirs |-> theirs[i].ip]
                  ELSE <<>>]

-----------------------------------------------------------------------------
(* Object selectors *)

EmptySelector == [matchLabels |-> <<>>, matchExpressions |-> <<>>]

\* The labels of b replace those of a with the same key.
MergeLabelSelector(a, b) ==
  CASE b = NoSelector -> a
    [] a = NoSelector -> b
    [] OTHER ->
         [matchLabels      |-> b.matchLabels @@ a.matchLabels,
          matchExpressions |-> a.matchExpressions \o b.matchExpressions]

NegatedOperator ==
  [In |-> "NotIn", NotIn |-> "In",
   Exists |-> "DoesNotExist", DoesNotExist |-> "Exists"]

\* Every requirement is negated on its own; the result is their conjunction.
NegateLabelSelector(sel) ==
  LET keys  == SetToSortSeq(DOMAIN sel.matchLabels, <)
      exprs == sel.matchExpressions
  IN  [matchLabels      |-> <<>>,
       matchExpressions |->
         [i \in DOMAIN keys |-> [key |-> keys[i], operator |-> "NotIn",
                                 values |-> {sel.matchLabels[keys[i]]}]]
         \o [i \in DOMAIN exprs |->
               [exprs[i] EXCEPT !.operator = NegatedOperator[@]]]]

\* The selectors of the rules in limits that are about gr, in order.
SelectorsFor(limits, gr) ==
  LET chosen == SelectSeq(limits, LAMBDA l : HasSelector(l) /\ AppliesTo(l, gr))
  IN  [i \in DOMAIN chosen |-> chosen[i].objectSelector]

\* The global selectors, the negations of those of the subsets listed before
\* the pod's own subset, and those of its own subset, merged in this order.
getObjectSelector(route, gr) ==
  LET entries == route.subsetLimits
      own     == { i \in DOMAIN entries : entries[i].subset = route.subset }
      last    == IF own = {} THEN Len(entries) ELSE Min(own)
      Part(i) == LET sels == SelectorsFor(entries[i].limits, gr)
                 IN  IF i \in own
                     THEN sels
                     ELSE [j \in DOMAIN sels |-> NegateLabelSelector(sels[j])]
  IN  FoldLeft(MergeLabelSelector, NoSelector,
               SelectorsFor(route.globalLimits, gr)
                 \o FlattenSeq([i \in 1 .. last |-> Part(i)]))

GetObjectSelector(spec, gr) == getObjectSelector(spec.route, gr)
=============================================================================
