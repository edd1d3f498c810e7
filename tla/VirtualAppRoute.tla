--------------------------- MODULE VirtualAppRoute ---------------------------
(***************************************************************************)
(* From a VirtualApp to the route of its proxies: the validation of the     *)
(* VirtualApp, the events of namespaces, and the route and the endpoints    *)
(* that Reconcile generates from the VirtualApp, the namespaces and the     *)
(* pods (controllers/server, webhook/virtualapp, proxy/webhook/router).     *)
(*                                                                          *)
(* A VirtualApp is a record                                                 *)
(*   [selector, configuration, globalLimits, subRules,                      *)
(*    subsetPublicResources, subsetDefaultOnlyUserAgents, subsets]          *)
(* and a limit selector [kind, matches, resources, objectSelector]: of kind *)
(* "selector" it matches the namespaces with a label in matches, of kind    *)
(* "regex" those with a name in it, of kind "object" it is about objects;   *)
(* any other kind stands for none, several, or one that cannot be parsed.   *)
(* Resources are Nil when they are not given.                               *)
(***************************************************************************)
EXTENDS InternalSpec, FiniteSets

CONSTANTS
  VirtualApps,  \* what users submit
  GRs,          \* the resources requests are about
  Namespaces,   \* names of namespaces
  Labels,       \* what a namespace may be labelled with
  Pods,         \* the active pods [labels, ready] in the order of their names
  Nil,          \* no object
  MaxChanges    \* bound on the changes of VirtualApp and namespaces

VARIABLES
  vApp, nss,            \* the VirtualApp and the namespaces in the apiserver
  vAppCache, nsCache,   \* the same in the manager's cache
  nsLog,                \* changes of namespaces the informer has not seen yet
  vAppEvent, nsEvents,  \* events the handlers have not seen yet
  queued,               \* the VirtualApp is in the work queue
  w,                    \* the VirtualApp the worker has read, or Nil
  sent,                 \* the last spec that was generated: route and endpoints
  changes               \* counter for the bound

vars == <<vApp, nss, vAppCache, nsCache, vAppEvent, nsLog, nsEvents, queued, w, sent, changes>>

-----------------------------------------------------------------------------
(* The validating webhook *)

NamespaceKinds == {"selector", "regex"}

validateMatchLimitSelector(m) ==
  /\ m.kind \in NamespaceKinds \cup {"object"}
  /\ m.kind = "object" => m.resources # Nil

Unique(seq) == \A i, j \in DOMAIN seq : seq[i] = seq[j] => i = j

Names(seq) == [i \in DOMAIN seq |-> seq[i].name]

\* The rules all subsets use, in the order in which they are looked at.
UsedRules(v) == FlattenSeq([i \in DOMAIN v.subsets |-> v.subsets[i].routeRules])

\* Mutant: a subset may lack a name.
validateUnnamed(v) ==
  /\ v.selector # {}
  /\ v.configuration \in {"empty", "complete"}
  /\ v.subsets # <<>> => v.configuration = "complete"
  /\ \A i \in DOMAIN v.globalLimits : validateMatchLimitSelector(v.globalLimits[i])
  /\ Unique(Names(v.subRules)) /\ Unique(Names(v.subsets)) /\ Unique(UsedRules(v))
  /\ \A i \in DOMAIN v.subRules :
       LET r == v.subRules[i]
       IN  /\ r.name # "" /\ r.match # <<>>
           /\ \A j \in DOMAIN r.match : validateMatchLimitSelector(r.match[j])
  /\ \A i \in DOMAIN v.subsets :
       LET s == v.subsets[i]
       IN  s.labels # {} /\ s.routeRules # <<>>
  /\ ToSet(UsedRules(v)) \subseteq ToSet(Names(v.subRules))

\* A configuration is "missing" (which makes the webhook panic), "empty",
\* "complete" or "wrong" (a name, directory or port is not given).
validate(v) ==
  /\ v.selector # {}
  /\ v.configuration \in {"empty", "complete"}
  /\ v.subsets # <<>> => v.configuration = "complete"
  /\ \A i \in DOMAIN v.globalLimits : validateMatchLimitSelector(v.globalLimits[i])
  /\ Unique(Names(v.subRules)) /\ Unique(Names(v.subsets)) /\ Unique(UsedRules(v))
  /\ \A i \in DOMAIN v.subRules :
       LET r == v.subRules[i]
       IN  /\ r.name # "" /\ r.match # <<>>
           /\ \A j \in DOMAIN r.match : validateMatchLimitSelector(r.match[j])
  /\ \A i \in DOMAIN v.subsets :
       LET s == v.subsets[i]
       IN  s.name # "" /\ s.labels # {} /\ s.routeRules # <<>>
  /\ ToSet(UsedRules(v)) \subseteq ToSet(Names(v.subRules))

validateUpdate(v, old) == v.selector = old.selector

-----------------------------------------------------------------------------
(* The route *)

\* A namespace is a record [labels, deleting].
isNamespaceMatched(ms, n, ns) ==
  CASE ms.kind = "selector" -> ns.labels \in ms.matches
    [] ms.kind = "regex" -> n \in ms.matches
    [] OTHER -> FALSE

getActiveNamespaces(all) ==
  { n \in Namespaces : all[n] # Nil /\ ~all[n].deleting }

Matched(ms, all) ==
  { n \in getActiveNamespaces(all) : isNamespaceMatched(ms, n, all[n]) }

generateAPIResources(resources) == IF resources = Nil THEN <<>> ELSE resources

LimitRule(names, resources, sel) ==
  [namespaces |-> names, resources |-> generateAPIResources(resources),
   objectSelector |-> sel]

includeRules(limits, all) ==
  [i \in DOMAIN limits |->
     LET ms == limits[i]
     IN  IF ms.kind = "object"
         THEN LimitRule({}, ms.resources, ms.objectSelector)
         ELSE LimitRule(Matched(ms, all), ms.resources, NoSelector)]

excludeRules(limits, all) ==
  LET ofNamespaces == SelectSeq(limits, LAMBDA ms : ms.kind \in NamespaceKinds)
  IN  [i \in DOMAIN ofNamespaces |->
         LimitRule(getActiveNamespaces(all) \ Matched(ofNamespaces[i], all),
                   ofNamespaces[i].resources, NoSelector)]

\* The limit selectors of a subset, rule by rule.
SubsetLimits(v, s) ==
  LET Match(name) ==
        v.subRules[CHOOSE i \in DOMAIN v.subRules : v.subRules[i].name = name].match
  IN  FlattenSeq([i \in DOMAIN s.routeRules |-> Match(s.routeRules[i])])

\* The default subset comes last, with what the rules of the others exclude.
generateProtoRoute(v, all) ==
  LET limits(i) == SubsetLimits(v, v.subsets[i])
  IN  [subset |-> DefaultSubset,
       globalLimits |-> includeRules(v.globalLimits, all),
       subsetLimits |->
         [i \in DOMAIN v.subsets |->
            [subset |-> v.subsets[i].name, limits |-> includeRules(limits(i), all)]]
         \o <<[subset |-> DefaultSubset,
               limits |-> FlattenSeq([i \in DOMAIN v.subsets |->
                                        excludeRules(limits(i), all)])]>>,
       subsetPublicResources |-> v.subsetPublicResources,
       subsetDefaultOnlyUserAgents |-> v.subsetDefaultOnlyUserAgents]

determinePodSubset(v, pod) ==
  LET fits == { i \in DOMAIN v.subsets : v.subsets[i].labels \subseteq pod.labels }
  IN  IF fits = {} THEN DefaultSubset ELSE v.subsets[Min(fits)].name

ReadyPods == SelectSeq([i \in DOMAIN Pods |-> i], LAMBDA i : Pods[i].ready)

\* Mutant: one common label makes an endpoint one of the subset.
generateProtoEndpointsLoose(v) ==
  LET Fits(i) == { j \in DOMAIN v.subsets : v.subsets[j].labels \cap Pods[i].labels # {} }
  IN  [k \in DOMAIN ReadyPods |->
         [ip |-> ReadyPods[k],
          subset |-> IF Fits(ReadyPods[k]) = {} THEN DefaultSubset
                     ELSE v.subsets[Min(Fits(ReadyPods[k]))].name]]

\* The address of a pod is its number.
generateProtoEndpoints(v) ==
  [k \in DOMAIN ReadyPods |->
     [ip |-> ReadyPods[k], subset |-> determinePodSubset(v, Pods[ReadyPods[k]])]]

\* The specs of all pods: they differ in the subset.
newSpecs(v, all) ==
  LET protoRoute == generateProtoRoute(v, all)
      protoEndpoints == generateProtoEndpoints(v)
  IN  [i \in DOMAIN Pods |->
         [route |-> [protoRoute EXCEPT !.subset = determinePodSubset(v, Pods[i])],
          endpoints |-> protoEndpoints]]

\* The answer of the webhook router of a pod to a request.
Route(spec, ns, gr) ==
  LET m == GetMatchedSubsetEndpoint(spec, ns, gr)
  IN  CASE m.ignore -> [answer |-> "ignore", hosts |-> <<>>]
        [] ~m.ignore /\ m.self -> [answer |-> "accept", hosts |-> <<>>]
        [] OTHER -> [answer |-> IF m.hosts = <<>> THEN "error" ELSE "redirect",
                     hosts |-> m.hosts]

-----------------------------------------------------------------------------
(* Users: VirtualApps and namespaces *)

Init ==
  /\ vApp \in { v \in VirtualApps : validate(v) }
  /\ nss \in [Namespaces -> {Nil} \cup [labels : Labels, deleting : {FALSE}]]
  /\ vAppCache = vApp /\ nsCache = nss
  /\ vAppEvent = FALSE /\ nsLog = <<>> /\ nsEvents = <<>>
  /\ queued = TRUE /\ w = Nil /\ sent = Nil
  /\ changes = 0

Change == changes < MaxChanges /\ changes' = changes + 1

\* Mutant: what the webhook answers is not looked at.
HandleUnchecked(v) ==
  /\ Change
  /\ vApp' = v
  /\ UNCHANGED <<nss, vAppCache, nsCache, vAppEvent, nsLog, nsEvents, queued, w, sent>>

Handle(v) ==
  /\ Change
  /\ validate(v) /\ validateUpdate(v, vApp)
  /\ vApp' = v
  /\ UNCHANGED <<nss, vAppCache, nsCache, vAppEvent, nsLog, nsEvents, queued, w, sent>>

\* A namespace is created, labelled, marked as deleted, and removed.
NamespaceSteps(ns) ==
  IF ns = Nil
  THEN [labels : Labels, deleting : {FALSE}]
  ELSE [labels : Labels, deleting : {ns.deleting}]
         \cup {[ns EXCEPT !.deleting = TRUE]}
         \cup (IF ns.deleting THEN {Nil} ELSE {})

NamespaceChange(n) ==
  /\ Change
  /\ \E new \in NamespaceSteps(nss[n]) \ {nss[n]} :
       /\ nss' = [nss EXCEPT ![n] = new]
       /\ nsLog' = Append(nsLog, [name |-> n, ns |-> new])
  /\ UNCHANGED <<vApp, vAppCache, nsCache, vAppEvent, nsEvents, queued, w, sent>>

-----------------------------------------------------------------------------
(* The informers fill the cache first and call the handlers later *)

VAppWatch ==
  /\ vAppCache # vApp
  /\ vAppCache' = vApp /\ vAppEvent' = TRUE
  /\ UNCHANGED <<vApp, nss, nsCache, nsLog, nsEvents, queued, w, sent, changes>>

NamespaceWatch ==
  /\ nsLog # <<>>
  /\ LET e == Head(nsLog)
     IN  /\ nsCache' = [nsCache EXCEPT ![e.name] = e.ns]
         /\ nsEvents' = Append(nsEvents,
                          [name |-> e.name, old |-> nsCache[e.name], new |-> e.ns])
  /\ nsLog' = Tail(nsLog)
  /\ UNCHANGED <<vApp, nss, vAppCache, vAppEvent, queued, w, sent, changes>>

VAppHandle ==
  /\ vAppEvent
  /\ vAppEvent' = FALSE /\ queued' = TRUE
  /\ UNCHANGED <<vApp, nss, vAppCache, nsCache, nsLog, nsEvents, w, sent, changes>>

IsSensitive(v) == v.globalLimits # <<>> \/ v.subRules # <<>>

AllLimits(v) ==
  ToSet(v.globalLimits) \cup UNION { ToSet(v.subRules[i].match) : i \in DOMAIN v.subRules }

\* Mutant: only the global limits are compared.
UpdateMattersGlobally(v, e) ==
  \E ms \in ToSet(v.globalLimits) :
     isNamespaceMatched(ms, e.name, e.old) # isNamespaceMatched(ms, e.name, e.new)

\* An update with the same labels matters to nobody.
UpdateMatters(v, e) ==
  /\ e.old.labels # e.new.labels
  /\ \E ms \in AllLimits(v) :
       isNamespaceMatched(ms, e.name, e.old) # isNamespaceMatched(ms, e.name, e.new)

NamespaceHandle ==
  /\ nsEvents # <<>>
  /\ LET e == Head(nsEvents)
         matters == IsSensitive(vAppCache)
                      /\ (e.old # Nil /\ e.new # Nil => UpdateMatters(vAppCache, e))
     IN  queued' = (queued \/ matters)
  /\ nsEvents' = Tail(nsEvents)
  /\ UNCHANGED <<vApp, nss, vAppCache, nsCache, vAppEvent, nsLog, w, sent, changes>>

-----------------------------------------------------------------------------
(* Reconcile: the VirtualApp is read first, the namespaces are read later *)

ReconcileBegin ==
  /\ queued /\ w = Nil
  /\ queued' = FALSE /\ w' = vAppCache
  /\ UNCHANGED <<vApp, nss, vAppCache, nsCache, vAppEvent, nsLog, nsEvents, sent, changes>>

ReconcileGenerate ==
  /\ w # Nil
  /\ sent' = [vApp |-> w, specs |-> newSpecs(w, nsCache)]
  /\ w' = Nil
  /\ UNCHANGED <<vApp, nss, vAppCache, nsCache, vAppEvent, nsLog, nsEvents, queued, changes>>

Next ==
  \/ \E v \in VirtualApps \ {vApp} : Handle(v)
  \/ \E n \in Namespaces : NamespaceChange(n)
  \/ VAppWatch \/ NamespaceWatch \/ VAppHandle \/ NamespaceHandle
  \/ ReconcileBegin \/ ReconcileGenerate

Spec == Init /\ [][Next]_vars

-----------------------------------------------------------------------------
(* Properties *)

NamespaceType == {Nil} \cup [labels : Labels, deleting : BOOLEAN]

\* Every VirtualApp the manager works with has passed the validating webhook,
\* and everything about namespaces is one of them (Handle, getActiveNamespaces).
TypeOK ==
  /\ {vApp, vAppCache} \subseteq { v \in VirtualApps : validate(v) }
  /\ w \in {Nil} \cup { v \in VirtualApps : validate(v) }
  /\ {nss, nsCache} \subseteq [Namespaces -> NamespaceType]
  /\ nsLog \in Seq([name : Namespaces, ns : NamespaceType])
  /\ nsEvents \in Seq([name : Namespaces, old : NamespaceType, new : NamespaceType])
  /\ vAppEvent \in BOOLEAN /\ queued \in BOOLEAN /\ changes \in 0 .. MaxChanges
  /\ sent # Nil => DOMAIN sent.specs = DOMAIN Pods

\* What a VirtualApp says about a namespace, without any list of namespaces: the
\* first subset with a rule that matches it; the default subset when there are
\* rules about the resource and none matches; everybody when there are none and
\* the resource is public.
Owner(v, n, ns, gr) ==
  LET public == isGRMatchedAPIResources(gr, v.subsetPublicResources)
      About(ms) == /\ ms.kind \in NamespaceKinds
                   /\ \/ ms.resources \in {Nil, <<>>} /\ ~public
                      \/ ms.resources \notin {Nil, <<>>}
                           /\ isGRMatchedAPIResources(gr, ms.resources)
      Rules(i) == { ms \in ToSet(SubsetLimits(v, v.subsets[i])) : About(ms) }
      claims == { i \in DOMAIN v.subsets :
                    \E ms \in Rules(i) : isNamespaceMatched(ms, n, ns) }
      denied == \E ms \in ToSet(v.globalLimits) :
                  /\ ms.kind \in NamespaceKinds
                  /\ ms.resources \in {Nil, <<>>} \/ isGRMatchedAPIResources(gr, ms.resources)
                  /\ ~isNamespaceMatched(ms, n, ns)
  IN  IF denied THEN NotOwned
      ELSE IF claims # {} THEN OwnedBy(v.subsets[Min(claims)].name)
      ELSE IF \E i \in DOMAIN v.subsets : Rules(i) # {} THEN OwnedBy(DefaultSubset)
      ELSE IF public THEN OwnedBy(AllSubsetPublic) ELSE NotOwned

Quiet ==
  /\ vAppCache = vApp /\ ~vAppEvent /\ nsLog = <<>> /\ nsEvents = <<>>
  /\ ~queued /\ w = Nil

\* When no event and no reconcile is left, the proxies decide about every active
\* namespace as the VirtualApp says: the events namespaceEventHandler.Update
\* drops change nothing, and the lists of matched and unmatched namespaces of
\* generateProtoRoute, the default subset's included, amount to the rules.
RouteFresh ==
  Quiet =>
    \A i \in DOMAIN Pods, n \in getActiveNamespaces(nss), gr \in GRs :
       determineNamespaceSubset(sent.specs[i].route, n, gr) = Owner(vApp, n, nss[n], gr)

\* The entry of the subsets a pod belongs to; 0 is the default subset.
Entry(v, pod) ==
  LET fits == { i \in DOMAIN v.subsets : v.subsets[i].labels \subseteq pod.labels }
  IN  IF fits = {} THEN 0 ELSE Min(fits)

\* A namespace of a resource that is not public is served by the pods of one
\* entry of the VirtualApp's subsets only: names tell the entries, and the
\* default subset, apart (validate, determinePodSubset, IsNamespaceMatch).
OneEntryServes ==
  sent # Nil =>
    \A n \in Namespaces :
      \A gr \in { g \in GRs : ~isGRMatchedAPIResources(g, sent.vApp.subsetPublicResources) } :
        \A i, j \in { k \in DOMAIN Pods : IsNamespaceMatch(sent.specs[k], n, gr) } :
           Entry(sent.vApp, Pods[i]) = Entry(sent.vApp, Pods[j])

\* A webhook request that a pod redirects is accepted by every host it may be
\* sent to, so no request is passed on twice, and it is answered with an error
\* only when no ready pod would accept it (router.Route, generateProtoEndpoints).
RedirectIsAccepted ==
  sent # Nil =>
    \A n \in Namespaces \cup {ClusterScope}, gr \in GRs :
      LET r == [i \in DOMAIN Pods |-> Route(sent.specs[i], n, gr)]
          Accepts(i) == r[i].answer = "accept"
      IN  \A i \in DOMAIN Pods :
            /\ r[i].answer = "redirect" => \A h \in ToSet(r[i].hosts) : Accepts(h)
            /\ r[i].answer = "error" => \A h \in ToSet(ReadyPods) : ~Accepts(h)
=============================================================================
