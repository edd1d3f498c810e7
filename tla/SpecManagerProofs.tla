-------------------------- MODULE SpecManagerProofs --------------------------
(***************************************************************************)
(* Proofs about one lifetime of the proxy process (Spec of SpecManager):    *)
(* for every set of specs, namespaces, resources, user-agents and handlers, *)
(* what the controller was shown agrees with the spec in use.               *)
(***************************************************************************)
EXTENDS SpecManager, TLAPS

\* Whoever waits for the lock has assigned an expected spec; nobody is served,
\* and nothing is recorded, before the first spec is loaded.
ServingInv ==
  /\ updating # "idle" => expectedSpec # Nil
  /\ currentSpec # Nil => expectedSpec # Nil
  /\ stage # "connecting" => currentSpec # Nil
  /\ currentSpec = Nil => pack = EmptyPack
  /\ \A h \in Handlers : hpc[h] # "idle" => stage = "serving"

\* Everything the controller was shown is recorded.
SeenIsRecorded ==
  /\ \A v \in seen.passed :
       /\ pack.RequestsByGR[v[1]] # Nil
       /\ v[2] \in pack.RequestsByGR[v[1]].passed
  /\ \A v \in seen.denied :
       /\ pack.RequestsByGR[v[1]] # Nil
       /\ v[2] \in pack.RequestsByGR[v[1]].denied
  /\ seen.uaPassed \subseteq pack.UserAgentPassed
  /\ seen.uaDenied \subseteq pack.UserAgentDenied

\* The inductive invariant.
IInv ==
  /\ TypeOK
  /\ ServingInv
  /\ ReadersHoldCurrent
  /\ HistoryAgrees
  /\ SeenIsRecorded

-----------------------------------------------------------------------------

Pack ==
  [RequestsByGR : [GRs -> GRRecord \cup {Nil}],
   UserAgentPassed : SUBSET UserAgents,
   UserAgentDenied : SUBSET UserAgents]

ReleasedRequest ==
  [GR : GRs,
   UserAgentPassed : SUBSET UserAgents, UserAgentDenied : SUBSET UserAgents,
   ObjectSelector : Selectors,
   NamespacePassed : SUBSET RecordedNamespaces,
   NamespaceDenied : SUBSET RecordedNamespaces]

\* Adding a request to a record of its resource yields a record that keeps
\* what was recorded.
LEMMA AddByGRType ==
  ASSUME NEW old \in GRRecord \cup {Nil}, NEW req \in ReleasedRequest
  PROVE  /\ AddByGR(old, req) \in GRRecord
         /\ AddByGR(old, req) # Nil
         /\ AddByGR(old, req).passed =
              (IF old = Nil THEN {} ELSE old.passed) \cup req.NamespacePassed
         /\ AddByGR(old, req).denied =
              (IF old = Nil THEN {} ELSE old.denied) \cup req.NamespaceDenied
  BY NilAssumption DEF AddByGR, GRRecord, ReleasedRequest

\* What requestsStore.add does to each part of the pack.
LEMMA AddType ==
  ASSUME NEW p \in Pack, NEW req \in ReleasedRequest
  PROVE  /\ add(p, req) \in Pack
         /\ add(p, req).UserAgentPassed = p.UserAgentPassed \cup req.UserAgentPassed
         /\ add(p, req).UserAgentDenied = p.UserAgentDenied \cup req.UserAgentDenied
         /\ \A gr \in GRs :
              add(p, req).RequestsByGR[gr] =
                IF gr = req.GR /\ (req.ObjectSelector # NoSelector
                     \/ req.NamespacePassed # {} \/ req.NamespaceDenied # {})
                THEN AddByGR(p.RequestsByGR[gr], req)
                ELSE p.RequestsByGR[gr]
  <1>1. req.GR \in GRs
    BY DEF ReleasedRequest
  <1>2. p.RequestsByGR \in [GRs -> GRRecord \cup {Nil}]
    BY DEF Pack
  <1>3. AddByGR(p.RequestsByGR[req.GR], req) \in GRRecord
    BY <1>1, <1>2, AddByGRType
  <1>4. [p.RequestsByGR EXCEPT ![req.GR] = AddByGR(p.RequestsByGR[req.GR], req)]
          \in [GRs -> GRRecord \cup {Nil}]
    BY <1>1, <1>2, <1>3
  <1>. QED
    BY <1>1, <1>2, <1>4 DEF add, Pack, ReleasedRequest

\* What a spec agrees with after a request has been added.
AgreesWithPack(s, p) ==
  /\ UserAgentsAgree(s, p)
  /\ \A gr \in GRs : p.RequestsByGR[gr] # Nil => NamespacesAgree(s, gr, p.RequestsByGR[gr])

\* A spec that agrees with the records and with a request agrees with the
\* records once the request is added.
LEMMA AddAgrees ==
  ASSUME NEW s, NEW p \in Pack, NEW req \in ReleasedRequest,
         AgreesWithPack(s, p),
         \A ua \in req.UserAgentPassed : IsUserAgentMatch(s, ua),
         \A ua \in req.UserAgentDenied : ~IsUserAgentMatch(s, ua),
         \A ns \in req.NamespacePassed : IsNamespaceMatch(s, ns, req.GR),
         \A ns \in req.NamespaceDenied : ~IsNamespaceMatch(s, ns, req.GR)
  PROVE  AgreesWithPack(s, add(p, req))
  <1>1. UserAgentsAgree(s, add(p, req))
    BY AddType DEF UserAgentsAgree, AgreesWithPack
  <1>2. ASSUME NEW gr \in GRs, add(p, req).RequestsByGR[gr] # Nil
        PROVE  NamespacesAgree(s, gr, add(p, req).RequestsByGR[gr])
    <2>1. CASE add(p, req).RequestsByGR[gr] = p.RequestsByGR[gr]
      BY <1>2, <2>1 DEF AgreesWithPack
    <2>2. CASE /\ gr = req.GR
               /\ add(p, req).RequestsByGR[gr] = AddByGR(p.RequestsByGR[gr], req)
      <3>. DEFINE old == p.RequestsByGR[gr]
                  new == AddByGR(old, req)
      <3>1. old \in GRRecord \cup {Nil}
        BY DEF Pack
      <3>2. old # Nil => NamespacesAgree(s, gr, old)
        BY DEF AgreesWithPack
      <3>3. /\ new.passed = (IF old = Nil THEN {} ELSE old.passed) \cup req.NamespacePassed
            /\ new.denied = (IF old = Nil THEN {} ELSE old.denied) \cup req.NamespaceDenied
        BY <3>1, AddByGRType
      <3>. HIDE DEF old, new
      <3>4. /\ \A ns \in new.passed : IsNamespaceMatch(s, ns, gr)
            /\ \A ns \in new.denied : ~IsNamespaceMatch(s, ns, gr)
        BY <2>2, <3>2, <3>3 DEF NamespacesAgree
      <3>. QED
        BY <2>2, <3>4 DEF NamespacesAgree, new, old
    <2>. QED
      BY <1>2, <2>1, <2>2, AddType
  <1>. QED
    BY <1>1, <1>2 DEF AgreesWithPack

\* Adding a request forgets nothing and records the namespaces it names.
LEMMA AddRecords ==
  ASSUME NEW p \in Pack, NEW req \in ReleasedRequest, NEW gr \in GRs
  PROVE  LET old == p.RequestsByGR[gr]
             new == add(p, req).RequestsByGR[gr]
         IN  /\ old # Nil => /\ new # Nil
                             /\ old.passed \subseteq new.passed
                             /\ old.denied \subseteq new.denied
             /\ gr = req.GR /\ req.NamespacePassed # {} =>
                  new # Nil /\ req.NamespacePassed \subseteq new.passed
             /\ gr = req.GR /\ req.NamespaceDenied # {} =>
                  new # Nil /\ req.NamespaceDenied \subseteq new.denied
  <1>1. p.RequestsByGR[gr] \in GRRecord \cup {Nil}
    BY DEF Pack
  <1>2. CASE /\ gr = req.GR
             /\ add(p, req).RequestsByGR[gr] = AddByGR(p.RequestsByGR[gr], req)
    <2>. DEFINE old == p.RequestsByGR[gr]
                new == AddByGR(old, req)
    <2>1. /\ new # Nil
          /\ new.passed = (IF old = Nil THEN {} ELSE old.passed) \cup req.NamespacePassed
          /\ new.denied = (IF old = Nil THEN {} ELSE old.denied) \cup req.NamespaceDenied
      BY <1>1, AddByGRType
    <2>. HIDE DEF new, old
    <2>2. /\ old # Nil => /\ old.passed \subseteq new.passed
                          /\ old.denied \subseteq new.denied
          /\ req.NamespacePassed \subseteq new.passed
          /\ req.NamespaceDenied \subseteq new.denied
      BY <2>1
    <2>. QED
      BY <1>2, <2>1, <2>2 DEF new, old
  <1>3. CASE /\ add(p, req).RequestsByGR[gr] = p.RequestsByGR[gr]
             /\ gr = req.GR => req.NamespacePassed = {} /\ req.NamespaceDenied = {}
    BY <1>3
  <1>. QED
    BY <1>2, <1>3, AddType

\* The initial state satisfies the invariant.
LEMMA InitIInv == Init => IInv
  <1>. SUFFICES ASSUME Init PROVE IInv
    OBVIOUS
  <1>. USE DEF Init
  <1>1. TypeOK
    BY DEF TypeOK, EmptyPack, NothingSeen
  <1>2. ServingInv
    BY DEF ServingInv
  <1>3. ReadersHoldCurrent
    BY DEF ReadersHoldCurrent, Readers
  <1>4. HistoryAgrees
    BY DEF HistoryAgrees
  <1>5. SeenIsRecorded
    BY DEF SeenIsRecorded, NothingSeen
  <1>. QED
    BY <1>1, <1>2, <1>3, <1>4, <1>5 DEF IInv

\* What a handler releases agrees with the spec it holds, which is the current
\* one, so the records go on agreeing with it; nothing else of the manager
\* changes.
LEMMA ReleaseKeeps ==
  ASSUME IInv, NEW h \in Readers, NEW req \in ReleasedRequest,
         ReleaseSpec(h, req), UNCHANGED <<managerVars, stage>>,
         \A ua \in req.UserAgentPassed : IsUserAgentMatch(hspec[h], ua),
         \A ua \in req.UserAgentDenied : ~IsUserAgentMatch(hspec[h], ua),
         \A ns \in req.NamespacePassed : IsNamespaceMatch(hspec[h], ns, req.GR),
         \A ns \in req.NamespaceDenied : ~IsNamespaceMatch(hspec[h], ns, req.GR)
  PROVE  /\ pack \in Pack /\ pack' \in Pack
         /\ hspec' \in [Handlers -> Specs \cup {Nil}]
         /\ hspec[h] \in Specs
         /\ HistoryAgrees'
  <1>1. currentSpec # Nil /\ hspec[h] = currentSpec
    BY DEF IInv, ReadersHoldCurrent
  <1>2. pack \in Pack
    BY DEF IInv, TypeOK, Pack
  <1>3. pack' \in Pack
    BY <1>2, AddType DEF ReleaseSpec
  <1>4. hspec' \in [Handlers -> Specs \cup {Nil}] /\ hspec[h] \in Specs
    BY <1>1 DEF ReleaseSpec, IInv, TypeOK
  <1>5. AgreesWithPack(currentSpec, pack)
    BY <1>1 DEF IInv, HistoryAgrees, AgreesWithPack
  <1>6. AgreesWithPack(currentSpec, pack')
    BY <1>1, <1>2, <1>5, AddAgrees DEF ReleaseSpec
  <1>7. HistoryAgrees'
    BY <1>6 DEF HistoryAgrees, AgreesWithPack, managerVars
  <1>. QED
    BY <1>2, <1>3, <1>4, <1>7

\* The rest of the invariant when a handler releases the spec: the lock is
\* given back, and what is added to what the controller was shown is what is
\* recorded.
LEMMA ReleaseKeepsSeen ==
  ASSUME NEW req \in ReleasedRequest, pack \in Pack, seen \in
           [passed : SUBSET (GRs \X RecordedNamespaces),
            denied : SUBSET (GRs \X RecordedNamespaces),
            uaPassed : SUBSET UserAgents, uaDenied : SUBSET UserAgents,
            selectors : SUBSET (GRs \X Selectors)],
         SeenIsRecorded,
         pack' = add(pack, req),
         seen'.passed = seen.passed \cup ({req.GR} \X req.NamespacePassed),
         seen'.denied = seen.denied \cup ({req.GR} \X req.NamespaceDenied),
         seen'.uaPassed = seen.uaPassed \cup req.UserAgentPassed,
         seen'.uaDenied = seen.uaDenied \cup req.UserAgentDenied
  PROVE  SeenIsRecorded'
  <1>1. ASSUME NEW v \in seen'.passed
        PROVE  /\ pack'.RequestsByGR[v[1]] # Nil
               /\ v[2] \in pack'.RequestsByGR[v[1]].passed
    <2>1. CASE v \in seen.passed
      <3>1. v[1] \in GRs
        BY <2>1
      <3>2. /\ pack.RequestsByGR[v[1]] # Nil
            /\ v[2] \in pack.RequestsByGR[v[1]].passed
        BY <2>1 DEF SeenIsRecorded
      <3>. QED
        BY <3>1, <3>2, AddRecords
    <2>2. CASE v \in {req.GR} \X req.NamespacePassed
      BY <2>2, AddRecords DEF ReleasedRequest
    <2>. QED
      BY <2>1, <2>2
  <1>2. ASSUME NEW v \in seen'.denied
        PROVE  /\ pack'.RequestsByGR[v[1]] # Nil
               /\ v[2] \in pack'.RequestsByGR[v[1]].denied
    <2>1. CASE v \in seen.denied
      <3>1. v[1] \in GRs
        BY <2>1
      <3>2. /\ pack.RequestsByGR[v[1]] # Nil
            /\ v[2] \in pack.RequestsByGR[v[1]].denied
        BY <2>1 DEF SeenIsRecorded
      <3>. QED
        BY <3>1, <3>2, AddRecords
    <2>2. CASE v \in {req.GR} \X req.NamespaceDenied
      BY <2>2, AddRecords DEF ReleasedRequest
    <2>. QED
      BY <2>1, <2>2
  <1>3. /\ seen'.uaPassed \subseteq pack'.UserAgentPassed
        /\ seen'.uaDenied \subseteq pack'.UserAgentDenied
    BY AddType DEF SeenIsRecorded
  <1>. QED
    BY <1>1, <1>2, <1>3 DEF SeenIsRecorded

\* The lock when handler h, which held the spec, gives it back.
LEMMA ReleaseKeepsLock ==
  ASSUME IInv, NEW h \in Readers, NEW pc \in {"idle", "responding", "emptied"},
         UNCHANGED <<managerVars, stage>>,
         hspec' = [hspec EXCEPT ![h] = Nil],
         hpc' = [hpc EXCEPT ![h] = pc]
  PROVE  /\ hpc' \in [Handlers -> {"idle", "routing", "responding", "emptied", "filtering"}]
         /\ ReadersHoldCurrent'
         /\ ServingInv'
  <1>. h \in Handlers /\ hpc[h] # "idle"
    BY DEF Readers
  <1>1. hpc' \in [Handlers -> {"idle", "routing", "responding", "emptied", "filtering"}]
    BY DEF IInv, TypeOK
  <1>2. ReadersHoldCurrent'
    BY DEF IInv, TypeOK, ReadersHoldCurrent, Readers, managerVars
  <1>3. ServingInv'
    BY DEF IInv, TypeOK, ServingInv, ReadersHoldCurrent, managerVars
  <1>. QED
    BY <1>1, <1>2, <1>3

-----------------------------------------------------------------------------
(* The steps *)

\* UpdateSpec: what is loaded is loadable, so it agrees with the records.
LEMMA UpdateSpecKeeps == IInv /\ UpdateSpec => IInv'
  <1>. SUFFICES ASSUME IInv, UpdateSpec PROVE IInv'
    OBVIOUS
  <1>. USE DEF IInv, handlerVars
  <1>1. ASSUME NEW s \in Specs, UpdateSpecAssign(s) PROVE IInv'
    <2>. USE <1>1 DEF UpdateSpecAssign
    <2>0. s # Nil
      BY NilAssumption
    <2>1. TypeOK'
      BY DEF TypeOK
    <2>2. ServingInv'
      BY <2>0 DEF ServingInv
    <2>3. ReadersHoldCurrent' /\ HistoryAgrees' /\ SeenIsRecorded'
      BY DEF ReadersHoldCurrent, Readers, HistoryAgrees, SeenIsRecorded
    <2>. QED
      BY <2>1, <2>2, <2>3
  <1>2. CASE UpdateSpecLock
    <2>. USE <1>2 DEF UpdateSpecLock
    <2>1. TypeOK'
      BY DEF TypeOK
    <2>2. ServingInv'
      BY DEF ServingInv
    <2>3. ReadersHoldCurrent' /\ HistoryAgrees' /\ SeenIsRecorded'
      BY DEF ReadersHoldCurrent, Readers, HistoryAgrees, SeenIsRecorded
    <2>. QED
      BY <2>1, <2>2, <2>3
  <1>3. CASE UpdateSpecLoad
    <2>. USE <1>3 DEF UpdateSpecLoad
    <2>0. expectedSpec # Nil /\ expectedSpec \in Specs
      BY DEF ServingInv, TypeOK
    <2>1. TypeOK'
      BY <2>0 DEF TypeOK
    <2>2. ServingInv'
      BY <2>0 DEF ServingInv, checkLoadable
    <2>3. ReadersHoldCurrent'
      BY DEF ReadersHoldCurrent, Readers
    <2>4. HistoryAgrees'
      <3>1. CASE currentSpec = Nil
        <4>1. pack' = EmptyPack
          BY <3>1 DEF ServingInv
        <4>. QED
          BY <4>1 DEF HistoryAgrees, EmptyPack, UserAgentsAgree
      <3>2. CASE /\ currentSpec # Nil
                 /\ checkLoadable(currentSpec, expectedSpec, pack)
        <4>1. CASE currentSpec.hash = expectedSpec.hash
          <5>1. currentSpec = expectedSpec
            BY <2>0, <3>2, <4>1, HashAssumption DEF checkLoadable, TypeOK
          <5>. QED
            BY <3>2, <5>1 DEF HistoryAgrees
        <4>2. CASE currentSpec.hash # expectedSpec.hash
          BY <3>2, <4>2 DEF HistoryAgrees, checkLoadable
        <4>. QED
          BY <4>1, <4>2
      <3>3. CASE ~checkLoadable(currentSpec, expectedSpec, pack)
        BY <3>3 DEF HistoryAgrees
      <3>. QED
        BY <3>1, <3>2, <3>3
    <2>5. SeenIsRecorded'
      BY DEF SeenIsRecorded
    <2>. QED
      BY <2>1, <2>2, <2>3, <2>4, <2>5
  <1>. QED
    BY <1>1, <1>2, <1>3 DEF UpdateSpec

\* The apiserver proxy is built after the first spec is loaded.
LEMMA NewProxyKeeps == IInv /\ NewProxy => IInv'
  <1>. SUFFICES ASSUME IInv, NewProxy PROVE IInv'
    OBVIOUS
  <1>. USE DEF IInv, NewProxy, managerVars, handlerVars
  <1>1. TypeOK'
    BY DEF TypeOK
  <1>2. ServingInv'
    BY DEF ServingInv
  <1>3. ReadersHoldCurrent' /\ HistoryAgrees' /\ SeenIsRecorded'
    BY DEF ReadersHoldCurrent, Readers, HistoryAgrees, SeenIsRecorded
  <1>. QED
    BY <1>1, <1>2, <1>3

\* A handler that takes the read lock holds the current spec from then on.
LEMMA AcquireKeeps ==
  ASSUME IInv, NEW h \in Handlers, AcquireSpec(h), stage = "serving",
         NEW pc \in {"routing", "filtering"}, hpc' = [hpc EXCEPT ![h] = pc],
         hreq' \in [Handlers -> Requests \cup {Nil}],
         \A g \in Handlers : hreq'[g] = hreq[g] \/ hreq'[g] \in Requests,
         hreq'[h] \in Requests,
         UNCHANGED <<managerVars, pack, stage, seen>>
  PROVE  IInv'
  <1>. USE DEF IInv, AcquireSpec, managerVars
  <1>1. TypeOK'
    BY DEF TypeOK
  <1>2. ServingInv'
    BY DEF ServingInv, TypeOK
  <1>3. ReadersHoldCurrent'
    BY DEF ReadersHoldCurrent, Readers, TypeOK, ServingInv
  <1>4. HistoryAgrees' /\ SeenIsRecorded'
    BY DEF HistoryAgrees, SeenIsRecorded
  <1>. QED
    BY <1>1, <1>2, <1>3, <1>4

\* Route releases the user-agent it decided on and, for a list or a watch, the
\* selector it injected.
LEMMA RouteKeeps ==
  ASSUME IInv, NEW h \in Handlers, RouteEnd(h) \/ RouteListWatch(h)
  PROVE  IInv'
  <1>. USE DEF IInv
  <1>0. /\ h \in Readers
        /\ hreq[h] \in Requests
        /\ hspec[h] \in Specs
    BY DEF RouteEnd, RouteListWatch, Readers, TypeOK, ReadersHoldCurrent
  <1>1. /\ UserAgentPassed(h) \in SUBSET UserAgents
        /\ UserAgentDenied(h) \in SUBSET UserAgents
        /\ \A ua \in UserAgentPassed(h) : IsUserAgentMatch(hspec[h], ua)
        /\ \A ua \in UserAgentDenied(h) : ~IsUserAgentMatch(hspec[h], ua)
    BY <1>0 DEF UserAgentPassed, UserAgentDenied, Requests
  <1>2. GetObjectSelector(hspec[h], hreq[h].gr) \in Selectors /\ NoSelector \in Selectors
    BY <1>0 DEF Selectors, Requests
  <1>3. PICK rel \in ReleasedRequest :
          /\ ReleaseSpec(h, rel)
          /\ rel.GR = hreq[h].gr
          /\ rel.UserAgentPassed = UserAgentPassed(h)
          /\ rel.UserAgentDenied = UserAgentDenied(h)
          /\ rel.NamespacePassed = {} /\ rel.NamespaceDenied = {}
    BY <1>0, <1>1, <1>2 DEF RouteEnd, RouteListWatch, ResourceRequest, ReleasedRequest, Requests
  <1>4. UNCHANGED <<managerVars, stage>>
    BY DEF RouteEnd, RouteListWatch
  <1>5. /\ pack \in Pack /\ pack' \in Pack
        /\ hspec' \in [Handlers -> Specs \cup {Nil}]
        /\ HistoryAgrees'
    BY <1>0, <1>1, <1>3, <1>4, ReleaseKeeps
  <1>6. PICK pc \in {"idle", "responding", "emptied"} : hpc' = [hpc EXCEPT ![h] = pc]
    BY DEF RouteEnd, RouteListWatch
  <1>7. /\ hpc' \in [Handlers -> {"idle", "routing", "responding", "emptied", "filtering"}]
        /\ ReadersHoldCurrent'
        /\ ServingInv'
    BY <1>0, <1>3, <1>4, <1>6, ReleaseKeepsLock DEF ReleaseSpec
  <1>8. /\ seen'.passed = seen.passed /\ seen'.denied = seen.denied
        /\ seen'.uaPassed = seen.uaPassed \cup rel.UserAgentPassed
        /\ seen'.uaDenied = seen.uaDenied \cup rel.UserAgentDenied
        /\ seen' \in [passed : SUBSET (GRs \X RecordedNamespaces),
                      denied : SUBSET (GRs \X RecordedNamespaces),
                      uaPassed : SUBSET UserAgents, uaDenied : SUBSET UserAgents,
                      selectors : SUBSET (GRs \X Selectors)]
    <2>1. seen \in [passed : SUBSET (GRs \X RecordedNamespaces),
                    denied : SUBSET (GRs \X RecordedNamespaces),
                    uaPassed : SUBSET UserAgents, uaDenied : SUBSET UserAgents,
                    selectors : SUBSET (GRs \X Selectors)]
      BY DEF TypeOK
    <2>2. PICK sels \in SUBSET (GRs \X Selectors) :
            seen' = [seen EXCEPT !.uaPassed = @ \cup UserAgentPassed(h),
                                 !.uaDenied = @ \cup UserAgentDenied(h),
                                 !.selectors = @ \cup sels]
      <3>1. CASE RouteEnd(h)
        <4>1. seen' = [seen EXCEPT !.uaPassed = @ \cup UserAgentPassed(h),
                                   !.uaDenied = @ \cup UserAgentDenied(h),
                                   !.selectors = @ \cup {}]
          BY <2>1, <3>1 DEF RouteEnd
        <4>. QED
          BY <4>1
      <3>2. CASE RouteListWatch(h)
        <4>1. {<<hreq[h].gr, GetObjectSelector(hspec[h], hreq[h].gr)>>}
                 \in SUBSET (GRs \X Selectors)
          BY <1>0, <1>2 DEF Requests
        <4>. QED
          BY <3>2, <4>1 DEF RouteListWatch
      <3>. QED
        BY <3>1, <3>2
    <2>. QED
      BY <1>1, <1>3, <2>1, <2>2
  <1>9. SeenIsRecorded'
    BY <1>3, <1>5, <1>8, ReleaseKeepsSeen DEF ReleaseSpec, TypeOK
  <1>10. /\ hreq' \in [Handlers -> Requests \cup {Nil}]
         /\ \A g \in Handlers : hpc'[g] # "idle" => hreq'[g] \in Requests
    BY <1>0 DEF RouteEnd, RouteListWatch, TypeOK
  <1>11. TypeOK'
    BY <1>4, <1>5, <1>7, <1>8, <1>10 DEF TypeOK, Pack, managerVars
  <1>. QED
    BY <1>5, <1>7, <1>9, <1>11

\* A response filter releases the namespaces it decided on.
LEMMA FilterKeeps ==
  ASSUME IInv, NEW h \in Handlers, NEW nss \in SUBSET RecordedNamespaces,
         h \in Readers, ShowNamespaces(h, nss), UNCHANGED <<managerVars, stage>>,
         NEW pc \in {"idle", "responding"}, hpc' = [hpc EXCEPT ![h] = pc],
         hreq' = IF pc = "idle" THEN [hreq EXCEPT ![h] = Nil] ELSE hreq
  PROVE  IInv'
  <1>. DEFINE passed == { ns \in nss : IsNamespaceMatch(hspec[h], ns, hreq[h].gr) }
              denied == nss \ passed
              rel == ResourceRequest(hreq[h].gr, {}, {}, NoSelector, passed, denied)
  <1>. USE DEF IInv
  <1>0. hreq[h] \in Requests /\ hreq[h].gr \in GRs
    BY DEF Readers, TypeOK, Requests
  <1>1. passed \subseteq RecordedNamespaces /\ denied \subseteq RecordedNamespaces
    OBVIOUS
  <1>2. rel \in ReleasedRequest
    BY <1>0, <1>1 DEF ResourceRequest, ReleasedRequest, Selectors
  <1>3. /\ rel.GR = hreq[h].gr
        /\ rel.UserAgentPassed = {} /\ rel.UserAgentDenied = {}
        /\ rel.NamespacePassed = passed /\ rel.NamespaceDenied = denied
    BY DEF ResourceRequest
  <1>4. /\ ReleaseSpec(h, rel)
        /\ seen' = [seen EXCEPT !.passed = @ \cup ({hreq[h].gr} \X passed),
                                !.denied = @ \cup ({hreq[h].gr} \X denied)]
    BY DEF ShowNamespaces
  <1>5. /\ \A ns \in passed : IsNamespaceMatch(hspec[h], ns, hreq[h].gr)
        /\ \A ns \in denied : ~IsNamespaceMatch(hspec[h], ns, hreq[h].gr)
    OBVIOUS
  <1>. HIDE DEF passed, denied, rel
  <1>6. /\ pack \in Pack /\ pack' \in Pack
        /\ hspec' \in [Handlers -> Specs \cup {Nil}]
        /\ HistoryAgrees'
    BY <1>2, <1>3, <1>4, <1>5, ReleaseKeeps
  <1>7. /\ hpc' \in [Handlers -> {"idle", "routing", "responding", "emptied", "filtering"}]
        /\ ReadersHoldCurrent'
        /\ ServingInv'
    BY <1>4, ReleaseKeepsLock DEF ReleaseSpec
  <1>8. /\ seen'.passed = seen.passed \cup ({rel.GR} \X rel.NamespacePassed)
        /\ seen'.denied = seen.denied \cup ({rel.GR} \X rel.NamespaceDenied)
        /\ seen'.uaPassed = seen.uaPassed /\ seen'.uaDenied = seen.uaDenied
        /\ seen' \in [passed : SUBSET (GRs \X RecordedNamespaces),
                      denied : SUBSET (GRs \X RecordedNamespaces),
                      uaPassed : SUBSET UserAgents, uaDenied : SUBSET UserAgents,
                      selectors : SUBSET (GRs \X Selectors)]
    BY <1>0, <1>1, <1>3, <1>4 DEF TypeOK
  <1>9. SeenIsRecorded'
    BY <1>2, <1>3, <1>4, <1>6, <1>8, ReleaseKeepsSeen DEF ReleaseSpec, TypeOK
  <1>10. /\ hreq' \in [Handlers -> Requests \cup {Nil}]
         /\ \A g \in Handlers : hpc'[g] # "idle" => hreq'[g] \in Requests
    BY <1>0 DEF TypeOK
  <1>11. TypeOK'
    BY <1>6, <1>7, <1>8, <1>10 DEF TypeOK, Pack, managerVars
  <1>. QED
    BY <1>6, <1>7, <1>9, <1>11

\* Every step of the process keeps the invariant.
LEMMA NextIInv == IInv /\ [Next]_vars => IInv'
  <1>. SUFFICES ASSUME IInv, [Next]_vars PROVE IInv'
    OBVIOUS
  <1>1. CASE UpdateSpec
    BY <1>1, UpdateSpecKeeps
  <1>2. CASE NewProxy
    BY <1>2, NewProxyKeeps
  <1>3. ASSUME NEW h \in Handlers, NEW req \in Requests, RouteBegin(h, req)
        PROVE  IInv'
    <2>1. /\ hreq' \in [Handlers -> Requests \cup {Nil}]
          /\ \A g \in Handlers : hreq'[g] = hreq[g] \/ hreq'[g] \in Requests
          /\ hreq'[h] \in Requests
      BY <1>3 DEF RouteBegin, IInv, TypeOK
    <2>. QED
      BY <1>3, <2>1, AcquireKeeps DEF RouteBegin
  <1>4. ASSUME NEW h \in Handlers, RouteEnd(h) \/ RouteListWatch(h)
        PROVE  IInv'
    BY <1>4, RouteKeeps
  <1>5. ASSUME NEW h \in Handlers, FilterBegin(h)
        PROVE  IInv'
    <2>1. stage = "serving" /\ hreq[h] \in Requests
      BY <1>5 DEF FilterBegin, IInv, TypeOK, ServingInv
    <2>. QED
      BY <1>5, <2>1, AcquireKeeps DEF FilterBegin, IInv, TypeOK
  <1>6. ASSUME NEW h \in Handlers, NEW nss \in SUBSET Namespaces, FilterItems(h, nss)
        PROVE  IInv'
    BY <1>6, FilterKeeps DEF FilterItems, Readers, RecordedNamespaces
  <1>7. ASSUME NEW h \in Handlers, NEW ns \in RecordedNamespaces, FilterEvent(h, ns)
        PROVE  IInv'
    BY <1>7, FilterKeeps DEF FilterEvent, Readers
  <1>8. ASSUME NEW h \in Handlers, ResponseEnd(h)
        PROVE  IInv'
    <2>. USE <1>8 DEF ResponseEnd, IInv, managerVars
    <2>1. TypeOK'
      BY DEF TypeOK
    <2>2. ServingInv'
      BY DEF ServingInv, TypeOK
    <2>3. ReadersHoldCurrent'
      BY DEF ReadersHoldCurrent, Readers, TypeOK
    <2>4. HistoryAgrees' /\ SeenIsRecorded'
      BY DEF HistoryAgrees, SeenIsRecorded
    <2>. QED
      BY <2>1, <2>2, <2>3, <2>4
  <1>9. CASE UNCHANGED vars
    BY <1>9 DEF vars, managerVars, handlerVars, IInv, TypeOK, ServingInv,
                ReadersHoldCurrent, Readers, HistoryAgrees, SeenIsRecorded
  <1>. QED
    BY <1>1, <1>2, <1>3, <1>4, <1>5, <1>6, <1>7, <1>8, <1>9 DEF Next, HandlerStep

\* What was recorded covers what was shown, so a spec that agrees with the
\* records agrees with what was shown.
LEMMA ViewFromRecords == IInv => ControllerViewStable
  BY DEF IInv, TypeOK, HistoryAgrees, SeenIsRecorded, ControllerViewStable,
         NamespacesAgree, UserAgentsAgree

-----------------------------------------------------------------------------
(* The theorems *)

\* IInv holds throughout one lifetime of the proxy process.
THEOREM Invariance == Spec => []IInv
  BY InitIInv, NextIInv, PTL DEF Spec

\* Within one lifetime of the proxy process its state has its type.
THEOREM TypeCorrect == Spec => []TypeOK
  <1>1. IInv => TypeOK
    BY DEF IInv
  <1>. QED
    BY <1>1, Invariance, PTL

\* UpdateSpec replaces the spec only when no request is being decided on it.
THEOREM ReadersHoldCurrentSpec == Spec => []ReadersHoldCurrent
  <1>1. IInv => ReadersHoldCurrent
    BY DEF IInv
  <1>. QED
    BY <1>1, Invariance, PTL

\* The records of the requests store agree with the spec in use.
THEOREM HistoryAgreesWithSpec == Spec => []HistoryAgrees
  <1>1. IInv => HistoryAgrees
    BY DEF IInv
  <1>. QED
    BY <1>1, Invariance, PTL

\* What a controller was ever shown or refused by list and watch filtering
\* and by user-agent is what the spec in use shows and refuses.
THEOREM ControllerViewIsStable == Spec => []ControllerViewStable
  BY ViewFromRecords, Invariance, PTL

\* UpdateSpec never moves a proxy to another app or subset, and never takes
\* its spec away.
THEOREM LoadKeepsAppAndSubset == Spec => LoadKeepsIdentity
  <1>1. ASSUME IInv, [Next]_vars, currentSpec # Nil, currentSpec' # currentSpec
        PROVE  /\ currentSpec' # Nil
               /\ currentSpec'.vAppName = currentSpec.vAppName
               /\ currentSpec'.route.subset = currentSpec.route.subset
    <2>1. UpdateSpecLoad
      BY <1>1 DEF Next, HandlerStep, UpdateSpec, UpdateSpecAssign, UpdateSpecLock,
                  NewProxy, RouteBegin, RouteEnd, RouteListWatch, FilterBegin,
                  FilterItems, FilterEvent, ResponseEnd, managerVars, vars
    <2>2. /\ checkLoadable(currentSpec, expectedSpec, pack)
          /\ currentSpec' = expectedSpec
      BY <1>1, <2>1 DEF UpdateSpecLoad
    <2>. QED
      BY <1>1, <2>1, <2>2 DEF checkLoadable, UpdateSpecLoad, IInv, ServingInv
  <1>2. IInv /\ [Next]_vars =>
          [ currentSpec # Nil /\ currentSpec' # currentSpec =>
              /\ currentSpec' # Nil
              /\ currentSpec'.vAppName = currentSpec.vAppName
              /\ currentSpec'.route.subset = currentSpec.route.subset ]_vars
    BY <1>1
  <1>. QED
    BY <1>2, Invariance, PTL DEF Spec, LoadKeepsIdentity

\* Neither GetStatus nor a handler of a serving proxy meets a nil spec.
THEOREM NoNilSpecInOneLifetime == Spec => []NoNilSpec
  <1>1. IInv => NoNilSpec
    BY DEF IInv, ServingInv, NoNilSpec
  <1>. QED
    BY <1>1, Invariance, PTL

\* The subset the leader election handler was built with stays the subset of
\* the spec in use.
THEOREM ElectionSubsetIsCurrent == Spec => []ElectionSubsetCurrent
  <1>1. Init => ElectionSubsetCurrent
    BY DEF Init, ElectionSubsetCurrent
  <1>2. ASSUME IInv, [Next]_vars, ElectionSubsetCurrent
        PROVE  ElectionSubsetCurrent'
    <2>1. CASE UpdateSpecLoad
      BY <1>2, <2>1 DEF UpdateSpecLoad, checkLoadable, ElectionSubsetCurrent,
                        IInv, TypeOK, ServingInv
    <2>2. CASE NewProxy
      BY <2>2 DEF NewProxy, ElectionSubsetCurrent, managerVars
    <2>3. CASE UNCHANGED <<stage, currentSpec, electionSubset>>
      BY <1>2, <2>3 DEF ElectionSubsetCurrent
    <2>. QED
      BY <1>2, <2>1, <2>2, <2>3
         DEF Next, HandlerStep, UpdateSpec, UpdateSpecAssign, UpdateSpecLock,
             RouteBegin, RouteEnd, RouteListWatch, FilterBegin, FilterItems,
             FilterEvent, ResponseEnd, managerVars, vars
  <1>. QED
    BY <1>1, <1>2, Invariance, PTL DEF Spec

\* Where no spec has an object selector, a spec that differs from the one in
\* use only in its hash and its endpoints is loaded, whatever was recorded.
THEOREM EndpointChangesLoad ==
  ASSUME Selectors = {NoSelector}
  PROVE  Spec => SameRouteLoads
  <1>1. ASSUME IInv, [Next]_vars, updating = "locking", updating' = "idle",
               currentSpec # Nil,
               expectedSpec.vAppName = currentSpec.vAppName,
               expectedSpec.route = currentSpec.route
        PROVE  currentSpec' = expectedSpec
    <2>1. UpdateSpecLoad
      BY <1>1 DEF Next, HandlerStep, UpdateSpec, UpdateSpecAssign, UpdateSpecLock,
                  NewProxy, RouteBegin, RouteEnd, RouteListWatch, FilterBegin,
                  FilterItems, FilterEvent, ResponseEnd, managerVars, vars
    <2>2. /\ expectedSpec \in Specs
          /\ UserAgentsAgree(currentSpec, pack)
          /\ \A gr \in GRs : pack.RequestsByGR[gr] # Nil =>
               NamespacesAgree(currentSpec, gr, pack.RequestsByGR[gr])
      BY <1>1 DEF IInv, TypeOK, ServingInv, HistoryAgrees
    <2>3. UserAgentsAgree(expectedSpec, pack)
      BY <1>1, <2>2 DEF UserAgentsAgree, IsUserAgentMatch
    <2>4. ASSUME NEW gr \in GRs, pack.RequestsByGR[gr] # Nil
          PROVE  /\ GetObjectSelector(expectedSpec, gr) = pack.RequestsByGR[gr].selector
                 /\ NamespacesAgree(expectedSpec, gr, pack.RequestsByGR[gr])
      <3>1. pack.RequestsByGR[gr].selector \in Selectors
        BY <1>1, <2>4 DEF IInv, TypeOK, GRRecord
      <3>2. GetObjectSelector(expectedSpec, gr) \in Selectors
        BY <2>2 DEF Selectors
      <3>3. NamespacesAgree(expectedSpec, gr, pack.RequestsByGR[gr])
        BY <1>1, <2>2, <2>4 DEF NamespacesAgree, IsNamespaceMatch
      <3>. QED
        BY <3>1, <3>2, <3>3
    <2>5. checkLoadable(currentSpec, expectedSpec, pack)
      BY <1>1, <2>3, <2>4 DEF checkLoadable
    <2>. QED
      BY <2>1, <2>5 DEF UpdateSpecLoad
  <1>2. IInv /\ [Next]_vars =>
          [ /\ updating = "locking" /\ updating' = "idle"
            /\ currentSpec # Nil
            /\ expectedSpec.vAppName = currentSpec.vAppName
            /\ expectedSpec.route = currentSpec.route
            => currentSpec' = expectedSpec ]_vars
    BY <1>1
  <1>. QED
    BY <1>2, Invariance, PTL DEF Spec, SameRouteLoads

\* The spec manager and its request handlers implement ControllerView: what
\* one process shows a controller and withholds from it never overlaps and is
\* never taken back, whatever specs it receives meanwhile.
THEOREM ManagerKeepsViewPromise == Spec => ViewPromise
  <1>. DEFINE Disjoint == /\ seen.passed \cap seen.denied = {}
                          /\ seen.uaPassed \cap seen.uaDenied = {}
              Grows == /\ seen.passed \subseteq seen'.passed
                       /\ seen.denied \subseteq seen'.denied
                       /\ seen.uaPassed \subseteq seen'.uaPassed
                       /\ seen.uaDenied \subseteq seen'.uaDenied
  <1>1. Init => NamespaceView!Init /\ UserAgentView!Init
    <2>. SUFFICES ASSUME Init PROVE NamespaceView!Init /\ UserAgentView!Init
      OBVIOUS
    <2>1. /\ seen.passed = {} /\ seen.denied = {}
          /\ seen.uaPassed = {} /\ seen.uaDenied = {}
      BY DEF Init, NothingSeen
    <2>. QED
      BY <2>1 DEF NamespaceView!Init, UserAgentView!Init
  <1>2. IInv => Disjoint
    <2>. SUFFICES ASSUME IInv PROVE Disjoint
      OBVIOUS
    <2>1. CASE currentSpec # Nil
      BY <2>1, ViewFromRecords DEF ControllerViewStable
    <2>2. CASE currentSpec = Nil
      <3>1. pack = EmptyPack
        BY <2>2 DEF IInv, ServingInv
      <3>. QED
        <4>1. ASSUME NEW v \in seen.passed PROVE FALSE
          BY <3>1, <4>1 DEF IInv, TypeOK, SeenIsRecorded, EmptyPack
        <4>2. seen.uaPassed = {}
          BY <3>1 DEF IInv, SeenIsRecorded, EmptyPack
        <4>. QED
          BY <4>1, <4>2
    <2>. QED
      BY <2>1, <2>2
  <1>3. ASSUME IInv, [Next]_vars
        PROVE  Grows
    <2>1. CASE UNCHANGED seen
      BY <2>1
    <2>2. ASSUME NEW h \in Handlers, RouteEnd(h) \/ RouteListWatch(h)
          PROVE  Grows
      <3>1. seen \in [passed : SUBSET (GRs \X RecordedNamespaces),
                      denied : SUBSET (GRs \X RecordedNamespaces),
                      uaPassed : SUBSET UserAgents, uaDenied : SUBSET UserAgents,
                      selectors : SUBSET (GRs \X Selectors)]
        BY <1>3 DEF IInv, TypeOK
      <3>2. PICK P, D, S : seen' = [seen EXCEPT !.uaPassed = @ \cup P,
                                                !.uaDenied = @ \cup D,
                                                !.selectors = @ \cup S]
        <4>1. CASE RouteEnd(h)
          <5>1. seen' = [seen EXCEPT !.uaPassed = @ \cup UserAgentPassed(h),
                                     !.uaDenied = @ \cup UserAgentDenied(h),
                                     !.selectors = @ \cup {}]
            BY <3>1, <4>1 DEF RouteEnd
          <5>. QED
            BY <5>1
        <4>2. CASE RouteListWatch(h)
          BY <4>2 DEF RouteListWatch
        <4>. QED
          BY <2>2, <4>1, <4>2
      <3>. QED
        BY <3>1, <3>2
    <2>3. ASSUME NEW h \in Handlers, NEW nss, ShowNamespaces(h, nss)
          PROVE  Grows
      BY <1>3, <2>3 DEF ShowNamespaces, IInv, TypeOK
    <2>4. \/ UNCHANGED seen
          \/ \E h \in Handlers : RouteEnd(h) \/ RouteListWatch(h)
          \/ \E h \in Handlers : \E nss : ShowNamespaces(h, nss)
      BY <1>3
         DEF Next, HandlerStep, UpdateSpec, UpdateSpecAssign, UpdateSpecLock,
             UpdateSpecLoad, NewProxy, RouteBegin, FilterBegin, FilterItems,
             FilterEvent, ResponseEnd, vars
    <2>. HIDE DEF Grows
    <2>. QED
      BY <2>1, <2>2, <2>3, <2>4
  <1>4. IInv /\ IInv' /\ Disjoint' /\ [Next]_vars =>
          /\ [NamespaceView!Decide]_<<seen.passed, seen.denied>>
          /\ [UserAgentView!Decide]_<<seen.uaPassed, seen.uaDenied>>
    <2>. SUFFICES ASSUME IInv, IInv', Disjoint', [Next]_vars
                  PROVE  NamespaceView!Decide /\ UserAgentView!Decide
      OBVIOUS
    <2>1. /\ seen'.passed \in SUBSET (GRs \X RecordedNamespaces)
          /\ seen'.denied \in SUBSET (GRs \X RecordedNamespaces)
          /\ seen'.uaPassed \in SUBSET UserAgents
          /\ seen'.uaDenied \in SUBSET UserAgents
      BY DEF IInv, TypeOK
    <2>. QED
      BY <1>3, <2>1 DEF NamespaceView!Decide, UserAgentView!Decide
  <1>. HIDE DEF Disjoint
  <1>. QED
    BY <1>1, <1>2, <1>4, Invariance, PTL
       DEF Spec, ViewPromise, NamespaceView!Spec, UserAgentView!Spec

=============================================================================
