----------------------- MODULE VirtualAppServerProofs -----------------------
(***************************************************************************)
(* Proofs about the distribution of specs (Spec of VirtualAppServer), for  *)
(* any pods, streams and versions, whatever fails: the state has its type, *)
(* and no proxy goes back to older rules.                                  *)
(***************************************************************************)
EXTENDS VirtualAppServerStreamProofs, WellFoundedInduction

\* The next of the pods that are left is one of them.
LEMMA MinIn ==
  ASSUME NEW T \in SUBSET Pods, T # {}
  PROVE  Min(T) \in T /\ Min(T) \in Pods
<1>1. T \subseteq Nat
  BY PodsAssumption
<1>2. PICK x \in T : \A y \in T : ~(<<y, x>> \in OpToRel(<, Nat))
  BY <1>1, NatLessThanWellFounded, WFMin, Zenon
<1>3. \A y \in T : x <= y
  <2> SUFFICES ASSUME NEW y \in T PROVE x <= y
    OBVIOUS
  <2>1. <<y, x>> \in Nat \X Nat
    BY <1>1
  <2>2. ~(y < x)
    BY <1>2, <2>1, Zenon DEF OpToRel
  <2> QED
    BY <1>1, <2>2
<1> QED
  BY <1>3 DEF Min

\* What the worker does between two calls, and when it returns.
WorkerStep ==
  /\ w.pc # "idle" /\ w'.pc # "idle" /\ w' \in Workers
  /\ w'.ver = w.ver /\ w'.snap = w.snap
  /\ w'.sync \in [Pods -> Syncs \cup {Nil}]
  /\ \A p \in Pods : w'.sync[p] # Nil => Registered(p, w'.sync[p].conn)
  /\ w'.pc \in {"act", "sent"} => \A p \in w'.plan : w'.sync[p] # Nil

\* Neither disturbs what is on its way to the proxies.
LEMMA WorkerKeeps ==
  ASSUME DistInv, UNCHANGED <<wire, cached, vApp>>, ClusterType', MapsType',
         w' = Idle \/ WorkerStep
  PROVE  DistInv'
<1>0. UNCHANGED <<conn, rpc>>
  BY DEF wire
<1>1. w.ver \in Nat /\ vApp \in Nat /\ (w.pc # "idle" => w.ver <= vApp)
  <2>1. w.ver \in Nat
    BY Zenon DEF DistInv, WorkerType, Workers
  <2>2. vApp \in Nat
    BY VersionAssumption DEF DistInv, ClusterType
  <2> QED
    BY <2>1, <2>2 DEF DistInv, RulesInv
<1>2. \A p \in Pods : cached'[p] # Nil => Registered(p, cached[p])'
  BY <1>0 DEF DistInv, ConnsInv, Registered
<1>3. CASE w' = Idle
  <2>1. w'.pc = "idle" /\ WorkerType'
    BY <1>3, Zenon DEF WorkerType, Workers, Idle
  <2>2. Newest' = vApp /\ Newest <= Newest'
    BY <1>1, <2>1 DEF Newest
  <2>3. ConnsInv'
    BY <1>2, <2>1 DEF ConnsInv
  <2> QED
    BY <2>1, <2>2, <2>3, RulesKeep DEF DistInv
<1>4. CASE WorkerStep
  <2>1. w'.pc # "idle" /\ w.pc # "idle" /\ w'.ver = w.ver
    BY <1>4 DEF WorkerStep
  <2>2. WorkerType'
    BY <1>4 DEF WorkerStep, DistInv, WorkerType
  <2>3. Newest' = Newest /\ Newest \in Nat /\ w'.ver <= vApp'
    BY <1>1, <2>1 DEF Newest
  <2>4. ConnsInv'
    BY <1>0, <1>2, <1>4 DEF ConnsInv, WorkerStep, Registered
  <2>5. Newest <= Newest'
    BY <2>3
  <2> QED
    BY <2>2, <2>3, <2>4, <2>5, RulesKeep DEF DistInv
<1> QED
  BY <1>3, <1>4

\* A reconcile starts from the rules of the moment.
LEMMA BeginKeeps == DistInv /\ ReconcileBegin => DistInv'
<1> SUFFICES ASSUME DistInv, ReconcileBegin PROVE DistInv'
  OBVIOUS
<1>1. UNCHANGED <<wire, maps, cluster, vApp, pod, cache, cached, conn, rpc>>
  BY DEF ReconcileBegin, cluster, maps, wire
<1>2. ClusterType' /\ MapsType'
  BY <1>1 DEF DistInv, ClusterType, MapsType, maps
<1>3. vApp \in Nat
  BY VersionAssumption DEF DistInv, ClusterType
<1>4. cache \in [Pods -> PodStates]
  BY DEF DistInv, ClusterType
<1>5. PICK todo \in SUBSET Pods : todo = { p \in Pods : InCache(cache[p]) }
  BY Zenon
<1>6. PICK sync \in [Pods -> Syncs \cup {Nil}] : sync = [p \in Pods |-> Nil]
  BY Zenon
<1>7. w' = [Idle EXCEPT !.pc = "collect", !.ver = vApp, !.snap = cache,
                        !.todo = todo, !.sync = sync]
  BY <1>5, <1>6 DEF ReconcileBegin
<1>8. w' \in Workers /\ w'.pc = "collect" /\ w'.ver = vApp /\ w'.snap = cache
      /\ w'.sync = sync
  BY <1>3, <1>4, <1>7, Zenon DEF Idle, Workers
<1>9. WorkerType'
  BY <1>4, <1>8 DEF WorkerType
<1>10. Newest = vApp /\ Newest' = vApp
  BY <1>8 DEF Newest, ReconcileBegin
<1>11. Newest <= Newest' /\ w'.ver <= vApp'
  BY <1>1, <1>3, <1>8, <1>10
<1>12. ConnsInv'
  BY <1>1, <1>6, <1>8 DEF DistInv, ConnsInv, Registered
<1> QED
  BY <1>1, <1>2, <1>9, <1>11, <1>12, RulesKeep DEF DistInv

\* What the worker knows in the middle of a reconcile.
LEMMA Busy ==
  ASSUME DistInv, w.pc # "idle"
  PROVE  /\ w \in Workers /\ w.snap \in [Pods -> PodStates]
         /\ w.sync \in [Pods -> Syncs \cup {Nil}]
         /\ \A p \in Pods : w.sync[p] # Nil => Registered(p, w.sync[p].conn)
         /\ w.pc \in {"act", "sent"} => \A p \in w.plan : w.sync[p] # Nil
         /\ w.todo \in SUBSET Pods /\ w.plan \in SUBSET Pods
  BY Zenon DEF DistInv, WorkerType, Workers, ConnsInv

\* The connection it reads is one of the pod.
LEMMA CollectConnKeeps == DistInv /\ CollectConn => DistInv'
<1> SUFFICES ASSUME DistInv, CollectConn PROVE DistInv'
  OBVIOUS
<1>1. UNCHANGED <<wire, maps, cluster, vApp, pod, cache, cached>>
  BY DEF CollectConn, cluster, maps
<1>2. ClusterType' /\ MapsType'
  BY <1>1 DEF DistInv, ClusterType, MapsType, maps
<1>3. w.pc = "collect" /\ w.todo # {}
  BY DEF CollectConn
<1>4. PICK p \in Pods : p = Min(w.todo)
  BY <1>3, Busy, MinIn
<1>5. PICK c : c = cached[p]
  OBVIOUS
<1>6. \/ w' = Idle
      \/ w' = [w EXCEPT !.todo = w.todo \ {p}]
      \/ /\ c # Nil
         /\ w' = [w EXCEPT !.pc = "hash",
                           !.sync[p] = [conn |-> c, status |-> conn[c].status,
                                        dispatched |-> conn[c].sent]]
  BY <1>4, <1>5 DEF CollectConn, Return, Skip
<1>7. CASE w' = [w EXCEPT !.todo = w.todo \ {p}]
  <2>1. /\ w' \in Workers /\ w'.pc = w.pc /\ w'.ver = w.ver /\ w'.snap = w.snap
        /\ w'.sync = w.sync /\ w'.plan = w.plan
    BY <1>3, <1>7, Busy, Zenon DEF Workers
  <2>2. WorkerStep
    BY <1>3, <2>1, Busy DEF WorkerStep
  <2> QED
    BY <1>1, <1>2, <2>2, WorkerKeeps
<1>8. CASE /\ c # Nil
           /\ w' = [w EXCEPT !.pc = "hash",
                             !.sync[p] = [conn |-> c, status |-> conn[c].status,
                                          dispatched |-> conn[c].sent]]
  <2>1. c \in Conns /\ Registered(p, c)
    BY <1>4, <1>5, <1>8 DEF DistInv, MapsType, ConnsInv
  <2>2. conn[c] \in ConnStates
    BY <2>1 DEF DistInv, WireType
  <2>3. PICK y \in Syncs : y = [conn |-> c, status |-> conn[c].status,
                                dispatched |-> conn[c].sent]
    BY <2>1, <2>2, Zenon DEF ConnStates, Syncs
  <2>4. PICK sync \in [Pods -> Syncs \cup {Nil}] : sync = [w.sync EXCEPT ![p] = y]
    BY <1>3, Busy, Zenon
  <2>5. w' = [w EXCEPT !.pc = "hash", !.sync = sync]
    BY <1>8, <2>3, <2>4
  <2>6. /\ w' \in Workers /\ w'.pc = "hash" /\ w'.ver = w.ver /\ w'.snap = w.snap
        /\ w'.sync = sync
    BY <1>3, <2>5, Busy, Zenon DEF Workers
  <2>7. \A q \in Pods : sync[q] # Nil => Registered(q, sync[q].conn)
    <3>1. \A q \in Pods : sync[q] = IF q = p THEN y ELSE w.sync[q]
      BY <1>3, <2>4, Busy
    <3>2. y.conn = c
      BY <2>3
    <3> QED
      BY <1>3, <2>1, <3>1, <3>2, Busy
  <2>8. WorkerStep
    BY <1>3, <2>6, <2>7 DEF WorkerStep
  <2> QED
    BY <1>1, <1>2, <2>8, WorkerKeeps
<1>9. CASE w' = Idle
  BY <1>1, <1>2, <1>9, WorkerKeeps
<1> QED
  BY <1>6, <1>7, <1>8, <1>9

\* It compares the expectation and goes on or returns.
LEMMA CollectHashKeeps == DistInv /\ CollectHash => DistInv'
<1> SUFFICES ASSUME DistInv, CollectHash PROVE DistInv'
  OBVIOUS
<1>1. UNCHANGED <<wire, cluster, vApp, pod, cache, cached, podDeletionExpectation>>
  BY Zenon DEF CollectHash, cluster, maps
<1>2. w.pc = "hash"
  BY DEF CollectHash
<1>3. \/ w' = Idle /\ UNCHANGED podHashExpectation
      \/ /\ w' = [w EXCEPT !.pc = "collect", !.todo = w.todo \ {Min(w.todo)}]
         /\ podHashExpectation' = [podHashExpectation EXCEPT ![Min(w.todo)] = Nil]
  BY DEF CollectHash, Return, maps
<1>4. ClusterType' /\ MapsType'
  BY <1>1, <1>3 DEF DistInv, ClusterType, MapsType
<1>5. CASE w' = [w EXCEPT !.pc = "collect", !.todo = w.todo \ {Min(w.todo)}]
  <2>1. /\ w' \in Workers /\ w'.pc = "collect" /\ w'.ver = w.ver /\ w'.snap = w.snap
        /\ w'.sync = w.sync
    BY <1>2, <1>5, Busy, Zenon DEF Workers
  <2>2. WorkerStep
    BY <1>2, <2>1, Busy DEF WorkerStep
  <2> QED
    BY <1>1, <1>4, <2>2, WorkerKeeps
<1> QED
  BY <1>1, <1>3, <1>4, <1>5, WorkerKeeps

\* It plans for pods whose connection it has read.
LEMMA PlanKeeps == DistInv /\ Plan => DistInv'
<1> SUFFICES ASSUME DistInv, Plan PROVE DistInv'
  OBVIOUS
<1>1. UNCHANGED <<wire, maps, cluster, vApp, pod, cache, cached>>
  BY DEF Plan, cluster, maps
<1>2. ClusterType' /\ MapsType'
  BY <1>1 DEF DistInv, ClusterType, MapsType, maps
<1>3. w.pc = "collect"
  BY DEF Plan
<1>4. /\ ToDelete \subseteq SyncPods /\ ToUpdate \subseteq SyncPods
      /\ ToDispatch \subseteq SyncPods
  BY DEF ToDelete, ToUpdate, ToDispatch
<1>5. PICK ps \in SUBSET SyncPods, kind \in {"delete", "update", "dispatch"} :
        w' = [w EXCEPT !.pc = "act", !.kind = kind, !.plan = ps]
  BY <1>4, Zenon DEF Plan
<1>6. ps \subseteq Pods /\ \A p \in ps : w.sync[p] # Nil
  BY <1>5 DEF SyncPods
<1>7. /\ w' \in Workers /\ w'.pc = "act" /\ w'.ver = w.ver /\ w'.snap = w.snap
      /\ w'.sync = w.sync /\ w'.plan = ps
  BY <1>3, <1>5, <1>6, Busy, Zenon DEF Workers
<1>8. WorkerStep
  BY <1>3, <1>6, <1>7, Busy DEF WorkerStep
<1> QED
  BY <1>1, <1>2, <1>8, WorkerKeeps

\* A pod is done with.
LEMMA NextPod ==
  ASSUME DistInv, w.pc \in {"act", "sent"}, NEW p, NEW err \in BOOLEAN,
         w' = [w EXCEPT !.pc = "act", !.plan = w.plan \ {p}, !.err = err]
  PROVE  WorkerStep
<1>1. /\ w' \in Workers /\ w'.pc = "act" /\ w'.ver = w.ver /\ w'.snap = w.snap
      /\ w'.sync = w.sync /\ w'.plan = w.plan \ {p}
  BY Busy, Zenon DEF Workers
<1> QED
  BY <1>1, Busy DEF WorkerStep

\* It deletes a pod, or fails to.
LEMMA DeletePodKeeps == DistInv /\ DeletePod => DistInv'
<1> SUFFICES ASSUME DistInv, DeletePod PROVE DistInv'
  OBVIOUS
<1>1. UNCHANGED <<wire, vApp, cache, cached, podHashExpectation>> /\ w.pc = "act"
  BY DEF DeletePod
<1>2. PICK p \in Pods : p = Min(w.plan)
  <2>1. w.plan # {}
    BY DEF DeletePod
  <2> QED
    BY <1>1, <2>1, Busy, MinIn
<1>3. PICK life : life = CASE pod[p].life \in {"running", "ready"} -> "terminating"
                           [] pod[p].life = "pending" -> "stopped"
                           [] OTHER -> pod[p].life
  OBVIOUS
<1>4. pod[p] \in PodStates /\ life \in Lives
  <2>1. pod[p] \in PodStates
    BY DEF DistInv, ClusterType
  <2>2. pod[p].life \in Lives
    BY <2>1 DEF PodStates
  <2> QED
    BY <1>3, <2>1, <2>2 DEF Lives
<1>5. /\ pod' = pod \/ pod' = [pod EXCEPT ![p].life = life]
      /\ \/ podDeletionExpectation' = podDeletionExpectation
         \/ podDeletionExpectation' = podDeletionExpectation \cup {p}
  BY <1>2, <1>3 DEF DeletePod
<1>6. ClusterType' /\ MapsType'
  BY <1>1, <1>4, <1>5 DEF DistInv, ClusterType, MapsType, PodStates
<1>7. PICK err \in BOOLEAN : w' = [w EXCEPT !.plan = w.plan \ {p}, !.err = err]
  BY <1>2, Zenon DEF DeletePod
<1>8. w' = [w EXCEPT !.pc = "act", !.plan = w.plan \ {p}, !.err = err]
  BY <1>1, <1>7, Busy, Zenon DEF Workers
<1>9. WorkerStep
  BY <1>1, <1>8, NextPod, Zenon
<1> QED
  BY <1>1, <1>6, <1>9, WorkerKeeps

\* The hash of this reconcile, of the rules it has read.
LEMMA NewSpecType ==
  ASSUME DistInv, w.pc # "idle", NEW p \in Pods
  PROVE  /\ SpecHash \in Hashes /\ newSpec(p) \in Specs
         /\ newSpec(p).hash = SpecHash /\ SpecHash.route = w.ver
<1>1. w.ver \in Nat /\ w.snap \in [Pods -> PodStates]
  BY Busy, Zenon DEF Workers
<1>2. \A q \in Pods : w.snap[q].subset \in Subsets
  BY <1>1 DEF PodStates
<1>3. SpecHash \in Hashes /\ SpecHash.route = w.ver
  BY <1>1, <1>2 DEF SpecHash, Hashes
<1> QED
  BY <1>2, <1>3 DEF newSpec, Specs

\* It stores what it expects.
LEMMA StoreKeeps == DistInv /\ StoreExpectation => DistInv'
<1> SUFFICES ASSUME DistInv, StoreExpectation PROVE DistInv'
  OBVIOUS
<1>1. UNCHANGED <<wire, cluster, vApp, pod, cache, cached, podDeletionExpectation>>
      /\ w.pc = "sent"
  BY DEF StoreExpectation, cluster
<1>2. /\ podHashExpectation' = [podHashExpectation EXCEPT ![Min(w.plan)] = SpecHash]
      /\ w' = [w EXCEPT !.pc = "act", !.plan = w.plan \ {Min(w.plan)}]
  BY DEF StoreExpectation
<1>3. podHashExpectation' \in [Pods -> Hashes \cup {Nil}]
  <2>1. ASSUME NEW p \in Pods PROVE SpecHash \in Hashes
    BY <1>1, <2>1, NewSpecType
  <2> QED
    BY <1>2, <2>1, Zenon DEF DistInv, MapsType
<1>4. ClusterType' /\ MapsType'
  BY <1>1, <1>3 DEF DistInv, ClusterType, MapsType
<1>5. w.err \in BOOLEAN
      /\ w' = [w EXCEPT !.pc = "act", !.plan = w.plan \ {Min(w.plan)}, !.err = w.err]
  BY <1>1, <1>2, Busy, Zenon DEF Workers
<1>6. WorkerStep
  BY <1>1, <1>5, NextPod, Zenon
<1> QED
  BY <1>1, <1>4, <1>6, WorkerKeeps

\* It returns.
LEMMA EndKeeps == DistInv /\ ReconcileEnd => DistInv'
<1> SUFFICES ASSUME DistInv, ReconcileEnd PROVE DistInv'
  OBVIOUS
<1>1. UNCHANGED <<wire, maps, cluster, vApp, pod, cache, cached>> /\ w' = Idle
  BY DEF ReconcileEnd, Return, cluster, maps
<1>2. ClusterType' /\ MapsType'
  BY <1>1 DEF DistInv, ClusterType, MapsType, maps
<1> QED
  BY <1>1, <1>2, WorkerKeeps

\* The newest rules go to the end of what is on its way.
LEMMA AppendInOrder ==
  ASSUME NEW s \in Seq(Specs), InOrder(s), NEW e \in Specs, e.hash.route = Newest
  PROVE  Append(s, e) \in Seq(Specs) /\ InOrder(Append(s, e))
<1>1. PICK t \in Seq(Specs) : t = Append(s, e)
  BY Appended, Zenon
<1>2. PICK n \in Nat : n = Len(s) /\ DOMAIN s = 1 .. n
  BY Appended
<1>3. /\ DOMAIN t = 1 .. (n + 1)
      /\ \A i \in 1 .. (n + 1) : t[i] = IF i = n + 1 THEN e ELSE s[i]
  BY <1>1, <1>2, Appended
<1>4. Newest \in Nat
  BY DEF Specs, Hashes
<1>5. \A i \in DOMAIN t : t[i].hash.route <= Newest
  BY <1>2, <1>3, <1>4 DEF InOrder
<1>6. ASSUME NEW i \in DOMAIN t, NEW j \in DOMAIN t, i < j
      PROVE  t[i].hash.route <= t[j].hash.route
  <2>1. CASE j = n + 1
    BY <1>3, <1>5, <2>1
  <2>2. CASE j # n + 1
    <3>1. i \in DOMAIN s /\ j \in DOMAIN s
      BY <1>2, <1>3, <1>6, <2>2
    <3>2. t[i] = s[i] /\ t[j] = s[j]
      BY <1>2, <1>3, <1>6, <2>2
    <3> QED
      BY <1>6, <3>1, <3>2 DEF InOrder
  <2> QED
    BY <2>1, <2>2
<1> QED
  BY <1>1, <1>5, <1>6 DEF InOrder

\* A spec is sent: it is at least as new as all that the proxy has or will get.
LEMMA SendKeeps == DistInv /\ Send => DistInv'
<1> SUFFICES ASSUME DistInv, Send PROVE DistInv'
  OBVIOUS
<1>1. UNCHANGED <<cluster, maps, rpc, proxy, vApp, pod, cache, cached>> /\ w.pc = "act"
  BY Zenon DEF Send, cluster, maps
<1>2. ClusterType' /\ MapsType'
  BY <1>1 DEF DistInv, ClusterType, MapsType, maps
<1>3. PICK p \in Pods : p = Min(w.plan) /\ p \in w.plan
  <2>1. w.plan # {}
    BY Zenon DEF Send
  <2> QED
    BY <1>1, <2>1, Busy, MinIn
<1>4. PICK c \in Conns : c = w.sync[p].conn /\ Registered(p, c)
  <2>1. w.sync[p] # Nil /\ w.sync[p] \in Syncs
    BY <1>1, <1>3, Busy
  <2> QED
    BY <1>1, <2>1, Busy DEF Syncs
<1>5. PICK e \in Specs : e = newSpec(p) /\ e.hash.route = w.ver
  BY <1>1, NewSpecType
<1>6. PICK k \in ConnStates : conn' = [conn EXCEPT ![c] = k] /\ k.pod = conn[c].pod
  <2> DEFINE k == [conn[c] EXCEPT !.sent = TRUE]
  <2>1. k \in ConnStates /\ k.pod = conn[c].pod
    BY Zenon DEF DistInv, WireType, ConnStates
  <2> QED
    BY <1>3, <1>4, <2>1, Zenon DEF Send
<1>7. Newest = w.ver /\ w.ver \in Nat
  BY <1>1, Busy, Zenon DEF Newest, Workers
<1>8. stream[c] \in StreamStates /\ stream[c].down \in Seq(Specs) /\ InOrder(stream[c].down)
  BY Zenon DEF DistInv, WireType, StreamStates, RulesInv
<1>9. PICK d \in Seq(Specs) : d = Append(stream[c].down, e) /\ InOrder(d)
  BY <1>5, <1>7, <1>8, AppendInOrder, Zenon
<1>10. \/ UNCHANGED stream
       \/ /\ stream[c].open
          /\ \E s \in StreamStates : /\ stream' = [stream EXCEPT ![c] = s]
                                     /\ s.open /\ s.down = d
  <2> DEFINE s == [stream[c] EXCEPT !.down = d]
  <2>1. s \in StreamStates /\ s.open = stream[c].open /\ s.down = d
    BY <1>8, SMTT(20) DEF StreamStates
  <2>2. \/ UNCHANGED stream
        \/ stream[c].open /\ stream' = [stream EXCEPT ![c] = s]
    BY <1>3, <1>4, <1>5, <1>9, Zenon DEF Send
  <2> QED
    BY <2>1, <2>2, Zenon
<1>11. WorkerStep
  <2>1. CASE w' = [w EXCEPT !.pc = "sent", !.err = FALSE]
    <3>1. /\ w' \in Workers /\ w'.pc = "sent" /\ w'.ver = w.ver /\ w'.snap = w.snap
          /\ w'.sync = w.sync /\ w'.plan = w.plan
      BY <1>1, <2>1, Busy, Zenon DEF Workers
    <3> QED
      BY <1>1, <3>1, Busy DEF WorkerStep
  <2>2. CASE w' = [w EXCEPT !.plan = w.plan \ {p}, !.err = TRUE]
    <3>1. w' = [w EXCEPT !.pc = "act", !.plan = w.plan \ {p}, !.err = TRUE]
      BY <1>1, <2>2, Busy, Zenon DEF Workers
    <3> QED
      BY <1>1, <3>1, NextPod, Zenon
  <2> QED
    BY <1>3, <2>1, <2>2, Zenon DEF Send
<1>12. WorkerType' /\ w'.pc # "idle" /\ w'.ver = w.ver
  BY <1>11 DEF WorkerStep, DistInv, WorkerType
<1>13. WireType'
  BY <1>1, <1>6, <1>10 DEF DistInv, WireType
<1>14. \A q \in Conns : /\ conn'[q].pod = conn[q].pod
                        /\ stream'[q].open = stream[q].open
                        /\ ~stream[q].open => stream'[q] = stream[q]
                        /\ \/ stream'[q].down = stream[q].down
                           \/ q = c /\ stream'[q].down = d
  BY <1>6, <1>10 DEF DistInv, WireType, StreamStates
<1>15. /\ StreamsInv'
       /\ \A q \in Pods, b \in Conns : Registered(q, b) => Registered(q, b)'
  BY <1>1, <1>14, SameStreams
<1>16. ConnsInv'
  <2>1. ASSUME NEW q \in Pods, cached'[q] # Nil PROVE Registered(q, cached[q])'
    <3>1. PICK b \in Conns : b = cached[q] /\ Registered(q, b)
      BY <1>1, <2>1 DEF DistInv, MapsType, ConnsInv
    <3> QED
      BY <1>1, <1>15, <3>1 DEF Registered
  <2>2. ASSUME NEW q \in Pods, w'.sync[q] # Nil PROVE Registered(q, w.sync[q].conn)'
    <3>1. PICK b \in Conns : b = w'.sync[q].conn /\ Registered(q, b)
      BY <1>11, <2>2 DEF WorkerStep, Syncs
    <3> QED
      BY <1>15, <3>1 DEF Registered
  <2> QED
    BY <1>11, <2>1, <2>2 DEF ConnsInv, WorkerStep
<1>17. RulesInv'
  <2>1. Newest' = Newest /\ w'.ver <= vApp'
    BY <1>1, <1>7, <1>12, SMTT(20) DEF Newest, DistInv, RulesInv
  <2>2. \A q \in Pods : ProxyInOrder(proxy[q])'
    BY <1>1, <2>1 DEF DistInv, RulesInv, ProxyInOrder
  <2>3. \A b \in Conns : InOrder(stream[b].down)'
    BY <1>9, <1>14, <2>1, Zenon DEF DistInv, RulesInv, InOrder
  <2>4. ASSUME NEW b \in Conns, conn'[b].pod \in Pods, proxy'[conn'[b].pod].exp # Nil,
               NEW i \in DOMAIN stream'[b].down
        PROVE  proxy'[conn'[b].pod].exp.hash.route <= stream'[b].down[i].hash.route
    <3>1. PICK q \in Pods : /\ q = conn[b].pod /\ q = conn'[b].pod
                            /\ proxy'[q] = proxy[q] /\ proxy[q].exp # Nil
      BY <1>1, <1>14, <2>4
    <3>2. CASE stream'[b].down = stream[b].down
      BY <2>4, <3>1, <3>2, Zenon DEF DistInv, RulesInv
    <3>3. CASE b = c /\ stream'[b].down = d
      <4>1. proxy[q].exp.hash.route <= w.ver
        BY <1>7, <3>1 DEF DistInv, RulesInv, ProxyInOrder
      <4>2. PICK n \in Nat : /\ n = Len(stream[c].down) /\ DOMAIN stream[c].down = 1 .. n
                             /\ DOMAIN d = 1 .. (n + 1)
                             /\ \A j \in 1 .. (n + 1) :
                                  d[j] = IF j = n + 1 THEN e ELSE stream[c].down[j]
        BY <1>8, <1>9, Appended
      <4>3. \A j \in DOMAIN stream[c].down :
              proxy[q].exp.hash.route <= stream[c].down[j].hash.route
        BY <3>1, <3>3, Zenon DEF DistInv, RulesInv
      <4>4. i \in 1 .. (n + 1)
        BY <2>4, <3>3, <4>2
      <4>5. proxy[q].exp.hash.route <= d[i].hash.route
        <5>1. CASE i = n + 1
          <6>1. d[i] = e
            BY <4>2, <4>4, <5>1
          <6> QED
            BY <1>5, <4>1, <6>1
        <5>2. CASE i # n + 1
          <6>1. i \in DOMAIN stream[c].down /\ d[i] = stream[c].down[i]
            BY <4>2, <4>4, <5>2
          <6> QED
            BY <4>3, <6>1
        <5> QED
          BY <5>1, <5>2
      <4> QED
        BY <3>1, <3>3, <4>5, SMTT(20)
    <3> QED
      BY <1>14, <3>2, <3>3
  <2> QED
    BY <2>1, <2>2, <2>3, <2>4, SMTT(20) DEF RulesInv
<1> QED
  BY <1>2, <1>12, <1>13, <1>15, <1>16, <1>17 DEF DistInv

\* Another manager takes over.
LEMMA RestartKeeps == DistInv /\ ManagerRestart => DistInv'
<1> SUFFICES ASSUME DistInv, ManagerRestart PROVE DistInv'
  OBVIOUS
<1>1. UNCHANGED <<cluster, conn, proxy, vApp, pod, cache>> /\ w' = Idle
  BY DEF ManagerRestart, cluster
<1>2. /\ cached' = [p \in Pods |-> Nil] /\ podHashExpectation' = [p \in Pods |-> Nil]
      /\ podDeletionExpectation' = {} /\ stream' = [c \in Conns |-> Closed]
      /\ rpc' = [c \in Conns |-> IF Opened(c) THEN "done" ELSE rpc[c]]
  BY DEF ManagerRestart
<1>3. ClusterType' /\ MapsType'
  BY <1>1, <1>2 DEF DistInv, ClusterType, MapsType
<1>4. WorkerType' /\ w'.pc = "idle"
  BY <1>1, Zenon DEF WorkerType, Workers, Idle
<1>5. WireType'
  BY <1>1, <1>2 DEF DistInv, WireType, StreamStates, Closed, RpcStates
<1>6. StreamsInv' /\ ConnsInv'
  <2>1. \A c \in Conns : /\ ~stream'[c].open /\ stream'[c].down = <<>>
                         /\ stream'[c].up = <<>>
    BY <1>2 DEF Closed
  <2>2. \A c \in Conns : rpc'[c] = "none" <=> conn'[c].pod = Nil
    BY <1>1, <1>2 DEF DistInv, StreamsInv, Opened
  <2>3. StreamsInv'
    BY <2>1, <2>2 DEF StreamsInv
  <2> QED
    BY <1>2, <1>4, <2>3, Zenon DEF ConnsInv
<1>7. RulesInv'
  <2>1. Newest <= Newest' /\ Newest \in Nat /\ Newest' \in Nat
    <3>1. w.ver \in Nat
      BY Zenon DEF DistInv, WorkerType, Workers
    <3>2. vApp \in Nat
      BY VersionAssumption DEF DistInv, ClusterType
    <3>3. Newest' = vApp
      BY <1>1, <1>4 DEF Newest
    <3> QED
      BY <3>1, <3>2, <3>3 DEF Newest, DistInv, RulesInv
  <2>2. ASSUME NEW p \in Pods PROVE ProxyInOrder(proxy[p])'
    <3>1. proxy'[p] = proxy[p] /\ ProxyInOrder(proxy[p])
      BY <1>1, Zenon DEF DistInv, RulesInv
    <3>2. proxy[p].exp # Nil => proxy[p].exp.hash.route \in Nat
      BY DEF DistInv, WireType, Proxies, Specs, Hashes
    <3> QED
      BY <2>1, <3>1, <3>2 DEF ProxyInOrder
  <2>3. \A c \in Conns : stream'[c].down = <<>>
    BY <1>2 DEF Closed
  <2> QED
    BY <1>4, <2>2, <2>3, EmptyInOrder, SMTT(20) DEF RulesInv, InOrder
<1> QED
  BY <1>3, <1>4, <1>5, <1>6, <1>7 DEF DistInv

\* Every step preserves the invariant.
LEMMA DistStep == DistInv /\ [Next]_vars => DistInv'
<1> SUFFICES ASSUME DistInv, [Next]_vars PROVE DistInv'
  OBVIOUS
<1>1. ASSUME NEW p \in Pods, PodLife(p) \/ Outside(p) \/ PodEvent(p) \/ ProxyStep(p)
      PROVE  DistInv'
  <2>1. CASE PodLife(p)
    BY <2>1, PodsKeep, BreaksKeep DEF PodLife
  <2>2. CASE Outside(p)
    BY <2>2, PodsKeep, BreaksKeep DEF Outside
  <2>3. CASE PodEvent(p)
    BY <2>3, PodsKeep
  <2>4. CASE ProxyStep(p)
    BY <2>4, LoadKeeps, ConnectKeeps DEF ProxyStep
  <2> QED
    BY <1>1, <2>1, <2>2, <2>3, <2>4
<1>2. ASSUME NEW c \in Conns, StreamStep(c) \/ StreamBreak(c)
      PROVE  DistInv'
  <2>1. CASE StreamStep(c)
    BY <2>1, AssignKeeps, SendStatusKeeps, RegisterCheckKeeps, RegisterStoreKeeps,
       RegisterKeeps DEF StreamStep
  <2>2. CASE StreamBreak(c)
    BY <2>2, BreaksKeep
  <2> QED
    BY <1>2, <2>1, <2>2
<1>3. CASE Reconcile
  BY <1>3, BeginKeeps, CollectConnKeeps, CollectHashKeeps, PlanKeeps, DeletePodKeeps,
     SendKeeps, StoreKeeps, EndKeeps DEF Reconcile
<1>4. CASE UNCHANGED vars
  <2>1. UNCHANGED <<vApp, pod, cache, maps, wire, w, cached>>
    BY <1>4 DEF vars, cluster, maps
  <2>2. vApp <= vApp'
    BY <2>1, VersionAssumption DEF DistInv, ClusterType
  <2>3. ClusterType' /\ MapsType'
    BY <2>1 DEF DistInv, ClusterType, MapsType, maps
  <2> QED
    BY <2>1, <2>2, <2>3, ClusterKeeps
<1> QED
  BY <1>1, <1>2, <1>3, <1>4, VAppKeeps, RestartKeeps DEF Next

\* So it always holds.
LEMMA DistInvariance == Spec => []DistInv
  BY DistStart, DistStep, PTL DEF Spec

\* The state always has its type: the cache knows connections of the pod they
\* are stored for only, and a stream that is not open has lost its messages.
THEOREM TypeCorrect == Spec => []TypeOK
<1>1. ASSUME DistInv PROVE TypeOK
  <2>1. ASSUME NEW p \in Pods
        PROVE  /\ pod[p].life \in Lives
               /\ {pod[p].subset, cache[p].subset} \subseteq Subsets
    BY <1>1 DEF DistInv, ClusterType, PodStates
  <2>2. ASSUME NEW p \in Pods
        PROVE  /\ cached[p] \in Conns \cup {Nil}
               /\ cached[p] # Nil => conn[cached[p]].pod = p
               /\ proxy[p].cur # Nil => proxy[p].exp # Nil
    BY <1>1, Zenon DEF DistInv, MapsType, ConnsInv, Registered, RulesInv, ProxyInOrder
  <2>3. ASSUME NEW c \in Conns
        PROVE  /\ conn[c].pod \in Pods \cup {Nil} /\ rpc[c] \in RpcStates
               /\ rpc[c] = "none" <=> ~Opened(c)
               /\ stream[c].open \/ (stream[c].down = <<>> /\ stream[c].up = <<>>)
    BY <1>1, Zenon DEF DistInv, WireType, ConnStates, StreamsInv, Opened
  <2>4. /\ vApp \in 1 .. MaxVersion /\ podDeletionExpectation \subseteq Pods
        /\ w.pc \in {"idle", "collect", "hash", "act", "sent"}
    BY <1>1, Zenon DEF DistInv, ClusterType, MapsType, WorkerType, Workers
  <2> QED
    BY <2>1, <2>2, <2>3, <2>4 DEF TypeOK, Lives, RpcStates
<1> QED
  BY <1>1, DistInvariance, PTL

\* No step makes the rules of a proxy older.
LEMMA CurNewer ==
  ASSUME DistInv, [Next]_vars, NEW p \in Pods, proxy[p].cur # Nil, proxy'[p].cur # Nil
  PROVE  proxy'[p].cur.hash.route >= proxy[p].cur.hash.route
<1>0. proxy \in [Pods -> Proxies] /\ proxy[p].cur.hash.route \in Nat
  BY Zenon DEF DistInv, WireType, Proxies, Specs, Hashes
<1>1. CASE UNCHANGED proxy
  BY <1>0, <1>1
<1>2. ASSUME NEW q \in Pods, PodStop(q)
      PROVE  proxy'[p].cur.hash.route >= proxy[p].cur.hash.route
  BY <1>0, <1>2 DEF PodStop, NewProxy
<1>3. ASSUME NEW q \in Pods, ProxyRestart(q)
      PROVE  proxy'[p].cur.hash.route >= proxy[p].cur.hash.route
  <2>1. CASE proxy' = [proxy EXCEPT ![q] = NewProxy]
    BY <1>0, <2>1 DEF NewProxy
  <2>2. ASSUME proxy[q].exp # Nil, NEW cur \in Loads(proxy[q]),
               proxy' = [proxy EXCEPT ![q].cur = cur, ![q].loading = FALSE,
                                      ![q].init = FALSE]
        PROVE  proxy'[p].cur.hash.route >= proxy[p].cur.hash.route
    <3>1. CASE p # q
      BY <1>0, <2>2, <3>1
    <3>2. CASE p = q
      <4>1. proxy'[p].cur = cur
        BY <1>0, <2>2, <3>2 DEF Proxies
      <4>2. ProxyInOrder(proxy[p]) /\ proxy[p] \in Proxies
        BY <1>0 DEF DistInv, RulesInv
      <4>3. cur \in Specs /\ proxy[p].cur.hash.route <= cur.hash.route
        BY <2>2, <3>2, <4>2, LoadsNewer
      <4>4. cur.hash.route \in Nat
        BY <4>3 DEF Specs, Hashes
      <4> QED
        BY <1>0, <4>1, <4>3, <4>4
    <3> QED
      BY <3>1, <3>2
  <2> QED
    BY <1>3, <2>1, <2>2, Zenon DEF ProxyRestart
<1>4. ASSUME NEW q \in Pods, ProxyLoad(q)
      PROVE  proxy'[p].cur.hash.route >= proxy[p].cur.hash.route
  <2>1. /\ DistInv'
        /\ proxy[q].cur # Nil => proxy[q].cur.hash.route <= proxy'[q].cur.hash.route
        /\ \A r \in Pods \ {q} : proxy'[r] = proxy[r]
    BY <1>4, LoadKeeps
  <2>2. proxy'[p].cur.hash.route \in Nat
    BY <2>1 DEF DistInv, WireType, Proxies, Specs, Hashes
  <2> QED
    BY <1>0, <2>1, <2>2
<1>5. ASSUME NEW q \in Pods, NEW c \in Conns, Connect(q, c)
      PROVE  proxy'[p].cur.hash.route >= proxy[p].cur.hash.route
  <2>1. proxy' = [proxy EXCEPT ![q].prev = Nil]
    BY <1>5 DEF Connect
  <2>2. proxy'[p].cur = proxy[p].cur
    BY <1>0, <2>1 DEF Proxies
  <2> QED
    BY <1>0, <2>2
<1>6. ASSUME NEW c \in Conns, ProxyAssign(c) \/ ProxySend(c)
      PROVE  proxy'[p].cur.hash.route >= proxy[p].cur.hash.route
  <2>1. proxy'[p].cur = proxy[p].cur
    BY <1>0, <1>6 DEF ProxyAssign, ProxySend, Proxies
  <2> QED
    BY <1>0, <2>1
<1>7. \/ UNCHANGED proxy
      \/ \E q \in Pods : PodStop(q) \/ ProxyRestart(q) \/ ProxyLoad(q)
      \/ \E q \in Pods, c \in Conns : Connect(q, c)
      \/ \E c \in Conns : ProxyAssign(c) \/ ProxySend(c)
  <2>1. ASSUME NEW q \in Pods, PodLife(q) \/ Outside(q) \/ PodEvent(q) \/ ProxyStep(q)
        PROVE  \/ UNCHANGED proxy
               \/ PodStop(q) \/ ProxyRestart(q) \/ ProxyLoad(q)
               \/ \E c \in Conns : Connect(q, c)
    BY <2>1 DEF PodLife, Outside, ProxyStep, PodCreate, PodStart, PodRemove, PodReady,
                PodUnready, PodRelabel, UserDelete, PodEvent, wire
  <2>2. ASSUME NEW c \in Conns, StreamStep(c) \/ StreamBreak(c)
        PROVE  UNCHANGED proxy \/ ProxyAssign(c) \/ ProxySend(c)
    BY <2>2 DEF StreamStep, StreamBreak, RegisterCheck, RegisterStore, RegisterTrigger,
                RecvStatus, StopExpectation, StopMark
  <2>3. CASE Reconcile
    BY <2>3, Zenon DEF Reconcile, ReconcileBegin, CollectConn, CollectHash, Plan, DeletePod,
                Send, StoreExpectation, ReconcileEnd, wire
  <2>4. CASE VAppUpdate \/ ManagerRestart \/ UNCHANGED vars
    BY <2>4 DEF VAppUpdate, ManagerRestart, vars, wire
  <2> QED
    BY <2>1, <2>2, <2>3, <2>4 DEF Next
<1> QED
  BY <1>1, <1>2, <1>3, <1>4, <1>5, <1>6, <1>7, Zenon

\* A proxy never goes back to older rules, however many reconciles, streams,
\* broken connections, restarts of proxies and of managers there are: the specs
\* on a stream are in the order in which they were sent, and a stream is new
\* whenever the manager is.
THEOREM RulesOnlyGetNewer == Spec => RulesNeverGoBack
<1>1. ASSUME DistInv, [Next]_vars
      PROVE  [ \A p \in Pods :
                 proxy[p].cur # Nil /\ proxy'[p].cur # Nil =>
                   proxy'[p].cur.hash.route >= proxy[p].cur.hash.route ]_vars
  BY <1>1, CurNewer
<1> QED
  BY <1>1, DistInvariance, PTL DEF Spec, RulesNeverGoBack
=============================================================================
