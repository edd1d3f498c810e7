----------------------------- MODULE SpecManager -----------------------------
(***************************************************************************)
(* The spec manager of a ctrlmesh-proxy (proxy/protomanager) together with  *)
(* the request handlers that read the spec (proxy/apiserver/router).        *)
(*                                                                          *)
(* One goroutine receives specs and calls UpdateSpec, one reports status,   *)
(* and every request of the controller behind the proxy is handled by a     *)
(* goroutine of its own, which holds the read lock of the manager while it  *)
(* decides and records what the controller was shown.  A new spec is loaded *)
(* only if it contradicts nothing that was recorded.  Specs and records are *)
(* appended to files that a restarted proxy reads back.                     *)
(***************************************************************************)
EXTENDS InternalSpec

CONSTANTS
  Specs,        \* the specs the manager may send
  GRs,          \* group-resources the controller lists or watches
  Namespaces,   \* namespaces of the objects in responses
  UserAgents,   \* user-agents of the controller's clients
  Handlers,     \* goroutines that serve requests of the controller
  Nil,          \* the nil pointer
  MaxUpdates,   \* bound on the specs received
  MaxRestarts   \* bound on the restarts of the proxy container

\* The hash covers the route and the endpoints (calculateSpecHash), so two
\* specs for the same app and subset with the same hash are the same spec.
ASSUME HashAssumption ==
  \A s, t \in Specs :
     s.vAppName = t.vAppName /\ s.route.subset = t.route.subset
       /\ s.hash = t.hash => s = t

\* What a record of the requests for one resource may hold.
RecordedNamespaces == Namespaces \cup {ClusterScope}

Selectors ==
  {NoSelector} \cup { GetObjectSelector(s, gr) : s \in Specs, gr \in GRs }

GRRecord ==
  [selector : Selectors,
   passed : SUBSET RecordedNamespaces, denied : SUBSET RecordedNamespaces]

ASSUME NilAssumption == Nil \notin Specs /\ Nil \notin GRRecord

VARIABLES
  expectedSpec, currentSpec, unloadReason,  \* fields of SpecManager
  pack,         \* requestsStore.pack: what was recorded
  updating,     \* the receiving goroutine: "idle", or in UpdateSpec "assigned"
                \* (before it asks for the lock) or "locking" (waiting for it)
  stage,        \* "connecting" until the first recv, "starting", "serving"
  electionSubset, \* the subset the leader election handler was built with
  hpc, hreq, hspec, \* per handler: program counter, request, spec acquired
  disk,         \* the three files under /ctrlmesh
  seen,         \* history: what the controller was shown
  updates, restarts \* counters for the bounds

managerVars == <<expectedSpec, currentSpec, unloadReason, updating>>
handlerVars == <<hpc, hreq, hspec>>
vars == <<managerVars, pack, stage, electionSubset, handlerVars,
          disk, seen, updates, restarts>>

-----------------------------------------------------------------------------
(* requestsStore *)

EmptyPack ==
  [RequestsByGR |-> [gr \in GRs |-> Nil],
   UserAgentPassed |-> {}, UserAgentDenied |-> {}]

\* A ResourceRequest as a handler releases it.
ResourceRequest(gr, uaPassed, uaDenied, sel, passed, denied) ==
  [GR |-> gr, UserAgentPassed |-> uaPassed, UserAgentDenied |-> uaDenied,
   ObjectSelector |-> sel, NamespacePassed |-> passed, NamespaceDenied |-> denied]

\* Mutant: a resource that has a record is not recorded again.
AddByGRFirstOnly(old, req) ==
  IF old # Nil THEN old
  ELSE [selector |-> req.ObjectSelector,
        passed |-> req.NamespacePassed, denied |-> req.NamespaceDenied]

\* The record of a resource: the first one is kept as it is, a later one
\* replaces the selector (by nil, too) and adds its namespaces.
AddByGR(old, req) ==
  LET before == IF old = Nil THEN [passed |-> {}, denied |-> {}]
                             ELSE [passed |-> old.passed, denied |-> old.denied]
  IN  [selector |-> req.ObjectSelector,
       passed   |-> before.passed \cup req.NamespacePassed,
       denied   |-> before.denied \cup req.NamespaceDenied]

add(p, req) ==
  [RequestsByGR |->
     IF req.ObjectSelector # NoSelector
        \/ req.NamespacePassed # {} \/ req.NamespaceDenied # {}
     THEN [p.RequestsByGR EXCEPT ![req.GR] = AddByGR(@, req)]
     ELSE p.RequestsByGR,
   UserAgentPassed |-> p.UserAgentPassed \cup req.UserAgentPassed,
   UserAgentDenied |-> p.UserAgentDenied \cup req.UserAgentDenied]

\* Mutant: what was denied is not checked.
NamespacesAgreePassedOnly(s, gr, rec) ==
  \A ns \in rec.passed : IsNamespaceMatch(s, ns, gr)

\* Spec s decides the recorded namespaces of a resource as they were decided.
NamespacesAgree(s, gr, rec) ==
  /\ \A ns \in rec.passed : IsNamespaceMatch(s, ns, gr)
  /\ \A ns \in rec.denied : ~IsNamespaceMatch(s, ns, gr)

UserAgentsAgree(s, p) ==
  /\ \A ua \in p.UserAgentPassed : IsUserAgentMatch(s, ua)
  /\ \A ua \in p.UserAgentDenied : ~IsUserAgentMatch(s, ua)

-----------------------------------------------------------------------------
(* storage *)

\* Files are opened without O_TRUNC and written at the end of what was read,
\* so a file holds the concatenation of all that was ever written to it.
\* Decoding a concatenation of protobuf messages merges them: a scalar is the
\* last one that is not the zero value, a repeated field is concatenated.
LastSet(a, b) == IF b = "" THEN a ELSE b

MergeSpec(a, b) ==
  [vAppName |-> LastSet(a.vAppName, b.vAppName),
   hash     |-> LastSet(a.hash, b.hash),
   route    |->
     [subset       |-> LastSet(a.route.subset, b.route.subset),
      globalLimits |-> a.route.globalLimits \o b.route.globalLimits,
      subsetLimits |-> a.route.subsetLimits \o b.route.subsetLimits,
      subsetPublicResources |->
        a.route.subsetPublicResources \o b.route.subsetPublicResources,
      subsetDefaultOnlyUserAgents |->
        a.route.subsetDefaultOnlyUserAgents \cup b.route.subsetDefaultOnlyUserAgents],
   endpoints |-> a.endpoints \o b.endpoints]

AppendSpec(file, s) == IF file = Nil THEN s ELSE MergeSpec(file, s)

\* What the history file holds: nothing, one JSON document, or more than one
\* (two stand for any number), which json.Unmarshal refuses.
AppendHistory(file, p) == IF Len(file) < 2 THEN Append(file, p) ELSE file

EmptyDisk == [expected |-> Nil, current |-> Nil, history |-> <<>>]

\* loadData: all or nothing.
loadData ==
  IF Len(disk.history) = 2
  THEN [expected |-> Nil, current |-> Nil, pack |-> EmptyPack]
  ELSE [expected |-> disk.expected, current |-> disk.current,
        pack |-> IF disk.history = <<>> THEN EmptyPack ELSE disk.history[1]]

writeExpectedSpec(d, s) == [d EXCEPT !.expected = AppendSpec(@, s)]

writeCurrentSpec(d, s) == [d EXCEPT !.current = AppendSpec(@, s)]

writeHistoryRequests(d, p) == [d EXCEPT !.history = AppendHistory(@, p)]

-----------------------------------------------------------------------------
(* UpdateSpec and GetStatus *)

\* Goroutines inside AcquireSpec ... ReleaseSpec hold the read lock.
Readers == { h \in Handlers : hpc[h] \in {"routing", "filtering"} }

\* Mutant: equal hashes are looked at before the subsets are compared.
checkLoadableHashFirst(cur, exp, p) ==
  \/ cur = Nil
  \/ cur.hash = exp.hash
  \/ /\ cur.vAppName = exp.vAppName
     /\ cur.route.subset = exp.route.subset
     /\ UserAgentsAgree(exp, p)
     /\ \A gr \in GRs :
          LET rec == p.RequestsByGR[gr]
          IN  rec # Nil =>
                /\ GetObjectSelector(exp, gr) = rec.selector
                /\ NamespacesAgree(exp, gr, rec)

\* Mutant: the recorded user-agents are not checked.
checkLoadableNoAgents(cur, exp, p) ==
  \/ cur = Nil
  \/ /\ cur.vAppName = exp.vAppName
     /\ cur.route.subset = exp.route.subset
     /\ \/ cur.hash = exp.hash
        \/ \A gr \in GRs :
             LET rec == p.RequestsByGR[gr]
             IN  rec # Nil =>
                   /\ GetObjectSelector(exp, gr) = rec.selector
                   /\ NamespacesAgree(exp, gr, rec)

\* Mutant: no selector is taken for an empty one.
checkLoadableEmptySelector(cur, exp, p) ==
  \/ cur = Nil
  \/ /\ cur.vAppName = exp.vAppName
     /\ cur.route.subset = exp.route.subset
     /\ \/ cur.hash = exp.hash
        \/ /\ UserAgentsAgree(exp, p)
           /\ \A gr \in GRs :
                LET rec == p.RequestsByGR[gr]
                    sel == GetObjectSelector(exp, gr)
                IN  rec # Nil =>
                      /\ (IF sel = NoSelector THEN EmptySelector ELSE sel) = rec.selector
                      /\ NamespacesAgree(exp, gr, rec)

checkLoadable(cur, exp, p) ==
  \/ cur = Nil
  \/ /\ cur.vAppName = exp.vAppName
     /\ cur.route.subset = exp.route.subset
     /\ \/ cur.hash = exp.hash
        \/ /\ UserAgentsAgree(exp, p)
           /\ \A gr \in GRs :
                LET rec == p.RequestsByGR[gr]
                IN  rec # Nil =>
                      /\ GetObjectSelector(exp, gr) = rec.selector
                      /\ NamespacesAgree(exp, gr, rec)

\* Mutant: the expected spec is not written.
UpdateSpecAssignUnwritten(s) ==
  /\ updating = "idle" /\ updates < MaxUpdates
  /\ expectedSpec' = s
  /\ updating' = "assigned"
  /\ updates' = updates + 1
  /\ UNCHANGED <<currentSpec, unloadReason, pack, stage, electionSubset,
                 handlerVars, disk, seen, restarts>>

\* UpdateSpec up to the call of Lock: the expected spec is assigned and
\* written without the lock.
UpdateSpecAssign(s) ==
  /\ updating = "idle" /\ updates < MaxUpdates
  /\ expectedSpec' = s
  /\ disk' = writeExpectedSpec(disk, s)
  /\ updating' = "assigned"
  /\ updates' = updates + 1
  /\ UNCHANGED <<currentSpec, unloadReason, pack, stage, electionSubset,
                 handlerVars, seen, restarts>>

\* The call of Lock: from here on no reader is let in.
UpdateSpecLock ==
  /\ updating = "assigned"
  /\ updating' = "locking"
  /\ UNCHANGED <<expectedSpec, currentSpec, unloadReason, pack, stage,
                 electionSubset, handlerVars, disk, seen, updates,
                 restarts>>

\* Mutant: the spec is replaced without the lock.
UpdateSpecLoadUnlocked ==
  /\ updating = "locking"
  /\ IF checkLoadable(currentSpec, expectedSpec, pack)
     THEN /\ currentSpec' = expectedSpec
          /\ disk' = writeCurrentSpec(disk, expectedSpec)
          /\ UNCHANGED unloadReason
     ELSE /\ unloadReason' = "unloadable"
          /\ UNCHANGED <<currentSpec, disk>>
  /\ updating' = "idle"
  /\ stage' = IF stage = "connecting" THEN "starting" ELSE stage
  /\ UNCHANGED <<expectedSpec, pack, electionSubset, handlerVars, seen, updates, restarts>>

\* The rest of UpdateSpec, under the lock, and the return from recv, which
\* lets Start return the first time.
UpdateSpecLoad ==
  /\ updating = "locking" /\ Readers = {}
  /\ IF checkLoadable(currentSpec, expectedSpec, pack)
     THEN /\ currentSpec' = expectedSpec
          /\ disk' = writeCurrentSpec(disk, expectedSpec)
          /\ UNCHANGED unloadReason
     ELSE /\ unloadReason' = "unloadable"
          /\ UNCHANGED <<currentSpec, disk>>
  /\ updating' = "idle"
  /\ stage' = IF stage = "connecting" THEN "starting" ELSE stage
  /\ UNCHANGED <<expectedSpec, pack, electionSubset, handlerVars, seen, updates, restarts>>

\* The status the sending goroutine reads under the (write) lock.
GetStatus ==
  IF currentSpec = Nil THEN Nil
  ELSE [subset |-> currentSpec.route.subset, expectedHash |-> expectedSpec.hash,
        currentHash |-> currentSpec.hash, unloadReason |-> unloadReason]

\* Mutant: the handler is built from the expected spec.
NewProxyExpected ==
  /\ stage = "starting" /\ updating # "locking"
  /\ electionSubset' = expectedSpec.route.subset
  /\ stage' = "serving"
  /\ UNCHANGED <<managerVars, pack, handlerVars, disk, seen, updates, restarts>>

\* After the first recv main builds the apiserver proxy, whose election
\* handler keeps the subset of the spec it was built with.
NewProxy ==
  /\ stage = "starting" /\ updating # "locking"
  /\ electionSubset' = currentSpec.route.subset
  /\ stage' = "serving"
  /\ UNCHANGED <<managerVars, pack, handlerVars, disk, seen, updates,
                 restarts>>

-----------------------------------------------------------------------------
(* Requests of the controller *)

Requests == [userAgent : UserAgents, gr : GRs, verb : {"list", "watch", "other"}]

\* Mutant: a read lock that does not yield to a waiting writer.
AcquireSpecReadersFirst(h) ==
  hspec' = [hspec EXCEPT ![h] = currentSpec]

AcquireSpec(h) ==
  /\ updating # "locking"
  /\ hspec' = [hspec EXCEPT ![h] = currentSpec]

\* ReleaseSpec: record the request, write the history if it changed, give the
\* read lock back.
ReleaseSpec(h, req) ==
  /\ pack' = add(pack, req)
  /\ disk' = IF pack' = pack THEN disk ELSE writeHistoryRequests(disk, pack')
  /\ hspec' = [hspec EXCEPT ![h] = Nil]

RouteBegin(h, req) ==
  /\ stage = "serving" /\ hpc[h] = "idle"
  /\ AcquireSpec(h)
  /\ hpc' = [hpc EXCEPT ![h] = "routing"]
  /\ hreq' = [hreq EXCEPT ![h] = req]
  /\ UNCHANGED <<managerVars, pack, stage, electionSubset, disk, seen,
                 updates, restarts>>

\* The user-agent fields of the record Route releases.
UserAgentPassed(h) ==
  IF IsUserAgentMatch(hspec[h], hreq[h].userAgent) THEN {hreq[h].userAgent} ELSE {}

UserAgentDenied(h) == {hreq[h].userAgent} \ UserAgentPassed(h)

\* Route returns without a response filter: the verb is not list or watch,
\* discovery does not know the resource or fails, or the selector cannot be
\* injected.  Only the user-agent is recorded.
RouteEnd(h) ==
  /\ hpc[h] = "routing"
  /\ ReleaseSpec(h, ResourceRequest(hreq[h].gr, UserAgentPassed(h),
                                    UserAgentDenied(h), NoSelector, {}, {}))
  /\ seen' = [seen EXCEPT !.uaPassed = @ \cup UserAgentPassed(h),
                          !.uaDenied = @ \cup UserAgentDenied(h)]
  /\ hpc' = [hpc EXCEPT ![h] = "idle"]
  /\ hreq' = [hreq EXCEPT ![h] = Nil]
  /\ UNCHANGED <<managerVars, stage, electionSubset, updates, restarts>>

\* Route accepts a list or a watch: the object selector is injected into the
\* query and the response will be filtered.
RouteListWatch(h) ==
  LET sel == GetObjectSelector(hspec[h], hreq[h].gr)
  IN  /\ hpc[h] = "routing" /\ hreq[h].verb \in {"list", "watch"}
      /\ ReleaseSpec(h, ResourceRequest(hreq[h].gr, UserAgentPassed(h),
                                        UserAgentDenied(h), sel, {}, {}))
      /\ seen' = [seen EXCEPT !.uaPassed = @ \cup UserAgentPassed(h),
                              !.uaDenied = @ \cup UserAgentDenied(h),
                              !.selectors = @ \cup {<<hreq[h].gr, sel>>}]
      /\ hpc' = [hpc EXCEPT ![h] =
                   IF UserAgentDenied(h) # {} THEN "emptied" ELSE "responding"]
      /\ UNCHANGED <<managerVars, stage, electionSubset, hreq, updates,
                     restarts>>

\* filterItems or filterEvent starts on a response of the apiserver.
FilterBegin(h) ==
  /\ hpc[h] = "responding"
  /\ AcquireSpec(h)
  /\ hpc' = [hpc EXCEPT ![h] = "filtering"]
  /\ UNCHANGED <<managerVars, pack, stage, electionSubset, hreq, disk,
                 seen, updates, restarts>>

\* The objects of namespaces nss are passed or dropped, and recorded.
ShowNamespaces(h, nss) ==
  LET passed == { ns \in nss : IsNamespaceMatch(hspec[h], ns, hreq[h].gr) }
      denied == nss \ passed
  IN  /\ ReleaseSpec(h, ResourceRequest(hreq[h].gr, {}, {}, NoSelector,
                                        passed, denied))
      /\ seen' = [seen EXCEPT
                    !.passed = @ \cup ({hreq[h].gr} \X passed),
                    !.denied = @ \cup ({hreq[h].gr} \X denied)]

\* A list response is filtered once; objects without a namespace are not
\* recorded.
FilterItems(h, nss) ==
  /\ hpc[h] = "filtering" /\ hreq[h].verb = "list"
  /\ ShowNamespaces(h, nss)
  /\ hpc' = [hpc EXCEPT ![h] = "idle"]
  /\ hreq' = [hreq EXCEPT ![h] = Nil]
  /\ UNCHANGED <<managerVars, stage, electionSubset, updates, restarts>>

\* Mutant: the request is dropped after the first event.
FilterEventOnce(h, ns) ==
  /\ hpc[h] = "filtering" /\ hreq[h].verb = "watch"
  /\ ShowNamespaces(h, {ns})
  /\ hpc' = [hpc EXCEPT ![h] = "responding"]
  /\ hreq' = [hreq EXCEPT ![h] = Nil]
  /\ UNCHANGED <<managerVars, stage, electionSubset, updates, restarts>>

\* A watch is filtered event by event; the namespace of an event is recorded
\* also when it is empty.
FilterEvent(h, ns) ==
  /\ hpc[h] = "filtering" /\ hreq[h].verb = "watch"
  /\ ShowNamespaces(h, {ns})
  /\ hpc' = [hpc EXCEPT ![h] = "responding"]
  /\ UNCHANGED <<managerVars, stage, electionSubset, hreq, updates,
                 restarts>>

\* The response ends: it was an error, the watch is over, or the user-agent
\* is denied and every object was dropped without reading the spec.
ResponseEnd(h) ==
  /\ hpc[h] \in {"responding", "emptied"}
  /\ hpc' = [hpc EXCEPT ![h] = "idle"]
  /\ hreq' = [hreq EXCEPT ![h] = Nil]
  /\ UNCHANGED <<managerVars, pack, stage, electionSubset, hspec, disk,
                 seen, updates, restarts>>

-----------------------------------------------------------------------------
(* The process *)

NothingSeen ==
  [passed |-> {}, denied |-> {}, uaPassed |-> {}, uaDenied |-> {},
   selectors |-> {}]

\* newSpecManager over empty files.
Init ==
  /\ expectedSpec = Nil /\ currentSpec = Nil /\ unloadReason = ""
  /\ pack = EmptyPack
  /\ updating = "idle" /\ stage = "connecting" /\ electionSubset = Nil
  /\ hpc = [h \in Handlers |-> "idle"]
  /\ hreq = [h \in Handlers |-> Nil]
  /\ hspec = [h \in Handlers |-> Nil]
  /\ disk = EmptyDisk
  /\ seen = NothingSeen
  /\ updates = 0 /\ restarts = 0

\* The proxy container restarts in the same pod: the controller and the files
\* survive.  newSpecManager loads the files and, if there is an expected
\* spec, calls UpdateSpec on it.
Restart ==
  LET data == loadData
      exp  == data.expected
      loads == exp # Nil /\ checkLoadable(data.current, exp, data.pack)
      written == IF exp = Nil THEN disk ELSE writeExpectedSpec(disk, exp)
  IN  /\ restarts < MaxRestarts
      /\ restarts' = restarts + 1
      /\ expectedSpec' = exp
      /\ currentSpec' = IF loads THEN exp ELSE data.current
      /\ unloadReason' = IF exp = Nil \/ loads THEN "" ELSE "unloadable"
      /\ pack' = data.pack
      /\ disk' = IF loads THEN writeCurrentSpec(written, exp) ELSE written
      /\ updating' = "idle" /\ stage' = "connecting" /\ electionSubset' = Nil
      /\ hpc' = [h \in Handlers |-> "idle"]
      /\ hreq' = [h \in Handlers |-> Nil]
      /\ hspec' = [h \in Handlers |-> Nil]
      /\ UNCHANGED <<seen, updates>>

HandlerStep(h) ==
  \/ \E req \in Requests : RouteBegin(h, req)
  \/ RouteEnd(h)
  \/ RouteListWatch(h)
  \/ FilterBegin(h)
  \/ \E nss \in SUBSET Namespaces : FilterItems(h, nss)
  \/ \E ns \in RecordedNamespaces : FilterEvent(h, ns)
  \/ ResponseEnd(h)

UpdateSpec ==
  \/ \E s \in Specs : UpdateSpecAssign(s)
  \/ UpdateSpecLock
  \/ UpdateSpecLoad

Next ==
  \/ UpdateSpec
  \/ NewProxy
  \/ \E h \in Handlers : HandlerStep(h)

\* One lifetime of the proxy process.
Spec == Init /\ [][Next]_vars

\* The proxy container may be restarted at any point.
NextR == Next \/ Restart

SpecR == Init /\ [][NextR]_vars

\* Goroutines are scheduled: one that holds the read lock goes on until it
\* gives it back, and the receiving goroutine goes on when it gets the lock.
\* Nothing is assumed of the controller or of the manager.
LockFairness ==
  /\ WF_vars(UpdateSpecLock) /\ WF_vars(UpdateSpecLoad)
  /\ \A h \in Handlers :
       WF_vars(\/ RouteEnd(h)
               \/ RouteListWatch(h)
               \/ \E nss \in SUBSET Namespaces : FilterItems(h, nss)
               \/ \E ns \in RecordedNamespaces : FilterEvent(h, ns))

FairSpecR == SpecR /\ LockFairness

-----------------------------------------------------------------------------
(* Properties *)

\* The type of the state within one process lifetime: the specs in use are
\* specs that were received, and a handler holds a spec exactly between
\* AcquireSpec and ReleaseSpec.
TypeOK ==
  /\ expectedSpec \in Specs \cup {Nil}
  /\ currentSpec \in Specs \cup {Nil}
  /\ unloadReason \in {"", "unloadable"}
  /\ pack \in [RequestsByGR : [GRs -> GRRecord \cup {Nil}],
               UserAgentPassed : SUBSET UserAgents,
               UserAgentDenied : SUBSET UserAgents]
  /\ updating \in {"idle", "assigned", "locking"}
  /\ stage \in {"connecting", "starting", "serving"}
  /\ hpc \in [Handlers -> {"idle", "routing", "responding", "emptied", "filtering"}]
  /\ hreq \in [Handlers -> Requests \cup {Nil}]
  /\ hspec \in [Handlers -> Specs \cup {Nil}]
  /\ \A h \in Handlers : hpc[h] # "idle" => hreq[h] \in Requests
  /\ seen \in [passed : SUBSET (GRs \X RecordedNamespaces),
               denied : SUBSET (GRs \X RecordedNamespaces),
               uaPassed : SUBSET UserAgents, uaDenied : SUBSET UserAgents,
               selectors : SUBSET (GRs \X Selectors)]

\* What was recorded agrees with the current spec: every namespace and
\* user-agent recorded as passed is still one the spec serves, every one
\* recorded as denied is still one it refuses (checkLoadable keeps UpdateSpec
\* from loading anything else, and the read lock keeps a record from being
\* made with an older spec).
HistoryAgrees ==
  currentSpec # Nil =>
    /\ UserAgentsAgree(currentSpec, pack)
    /\ \A gr \in GRs : pack.RequestsByGR[gr] # Nil =>
         NamespacesAgree(currentSpec, gr, pack.RequestsByGR[gr])

\* The controller never sees the mesh change its mind: a namespace of a
\* resource it was shown in a list or a watch is one the current spec still
\* assigns to it, and one that was withheld is still withheld.
ControllerViewStable ==
  currentSpec # Nil =>
    /\ \A v \in seen.passed : IsNamespaceMatch(currentSpec, v[2], v[1])
    /\ \A v \in seen.denied : ~IsNamespaceMatch(currentSpec, v[2], v[1])
    /\ \A ua \in seen.uaPassed : IsUserAgentMatch(currentSpec, ua)
    /\ \A ua \in seen.uaDenied : ~IsUserAgentMatch(currentSpec, ua)

\* A goroutine between AcquireSpec and ReleaseSpec works on the spec that is
\* current: UpdateSpec replaces it only when no reader is left.
ReadersHoldCurrent ==
  \A h \in Readers : currentSpec # Nil /\ hspec[h] = currentSpec

\* GetStatus dereferences both specs once there is a current one, and the
\* handlers of a serving proxy dereference the current one: neither is nil.
\* Also after a crash between the two writes of UpdateSpec.
NoNilSpec ==
  /\ currentSpec # Nil => expectedSpec # Nil
  /\ stage # "connecting" => currentSpec # Nil

\* The subset captured by the leader election handler when the proxy was built
\* is the subset of the spec in use, however many specs were received since.
ElectionSubsetCurrent ==
  stage = "serving" => electionSubset = currentSpec.route.subset

\* Loading a spec never moves a running proxy to another app or subset, and
\* never unloads a spec.
LoadKeepsIdentity ==
  [][ currentSpec # Nil /\ currentSpec' # currentSpec =>
        /\ currentSpec' # Nil
        /\ currentSpec'.vAppName = currentSpec.vAppName
        /\ currentSpec'.route.subset = currentSpec.route.subset ]_vars

\* A spec that changes only the endpoints is always loaded: without object
\* selectors the check of a spec against the records cannot fail for a route
\* that is already in use, so a pod coming or going never gets another pod
\* deleted.
SameRouteLoads ==
  [][ /\ updating = "locking" /\ updating' = "idle"
      /\ currentSpec # Nil
      /\ expectedSpec.vAppName = currentSpec.vAppName
      /\ expectedSpec.route = currentSpec.route
      => currentSpec' = expectedSpec ]_vars

\* The promise of ControllerView, for the namespaces of list and watch
\* responses and for user-agents: over all the specs one process loads, no item
\* the controller was shown is ever withheld from it, and none withheld is ever
\* shown.
NamespaceView == INSTANCE ControllerView
  WITH Items <- GRs \X RecordedNamespaces,
       shown <- seen.passed, withheld <- seen.denied

UserAgentView == INSTANCE ControllerView
  WITH Items <- UserAgents, shown <- seen.uaPassed, withheld <- seen.uaDenied

ViewPromise == NamespaceView!Spec /\ UserAgentView!Spec

\* UpdateSpec always gets the lock and returns: readers cannot starve it.
UpdateSpecReturns == (updating # "idle") ~> (updating = "idle")

(* What comments and checks of the code say and the code does not keep *)

\* virtualapp_controller.go:197, of a status without MetaState: "Should be the
\* first time start and connect".  A proxy that reports no spec has shown the
\* controller nothing.
NoSpecMeansFirstStart == GetStatus = Nil => seen = NothingSeen

\* proto_manager.go:176: a spec under which the "object selector for %v changed"
\* is not loadable.  Every selector that was injected into a list or watch is
\* the one the current spec has for the resource.
SelectorStable ==
  currentSpec # Nil =>
    \A v \in seen.selectors :
       v[2] # NoSelector => GetObjectSelector(currentSpec, v[1]) = v[2]
=============================================================================
