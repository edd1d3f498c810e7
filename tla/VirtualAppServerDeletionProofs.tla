------------------- MODULE VirtualAppServerDeletionProofs -------------------
(***************************************************************************)
(* A proof about deleted pods (Spec of VirtualAppServer), as long as the   *)
(* manager is not restarted and no call fails: the pods it deleted stop    *)
(* before it goes on.                                                      *)
(***************************************************************************)
EXTENDS VirtualAppServerProofs

\* b may be a later state of a pod than a, as far as the proof needs it.
Later(a, b) ==
  /\ a.life # "absent" => b.life # "absent"
  /\ a.life = "stopped" => b.life \in {"stopped", "gone"}
  /\ a.life = "gone" => b.life = "gone"

\* What the worker has read of a pod is not newer than the cache, and the cache
\* is not newer than the pod.
CacheInv ==
  /\ \A p \in Pods : Later(cache[p], pod[p])
  /\ w.pc # "idle" =>
       \A p \in Pods : /\ Later(w.snap[p], cache[p])
                       /\ p \in w.todo \/ w.sync[p] # Nil => InCache(w.snap[p])

\* A pod that Reconcile deleted and whose containers run is expected to be
\* deleted, and no reconcile gets past it.
Passed(p) ==
  /\ w.pc \in {"collect", "hash"} => p \in w.todo
  /\ w.pc \in {"act", "sent"} =>
       w.kind = "delete" /\ (w.plan \cap Leaders = {} \/ p \in Leaders)

Terminated == {"terminating", "stopped", "gone"}

DeletedInv ==
  /\ restarts = 0
  /\ deleted \subseteq Pods
  /\ \A p \in deleted :
       /\ pod[p].life \in Terminated /\ cache[p].life # "absent"
       /\ pod[p].life = "terminating" => p \in podDeletionExpectation /\ Passed(p)
  /\ w.pc = "hash" => w.todo # {} /\ Min(w.todo) \notin podDeletionExpectation
  /\ w.pc \in {"act", "sent"} /\ w.kind = "delete" =>
       w.plan \subseteq Leaders \/ w.plan \cap Leaders = {}

\* The inductive invariant for DeletedStopFirst.
DeletionInv == DistInv /\ CacheInv /\ DeletedInv

\* The initial states satisfy it.
LEMMA DeletionStart == Init => CacheInv /\ DeletedInv
<1> SUFFICES ASSUME Init PROVE CacheInv /\ DeletedInv
  OBVIOUS
<1>1. w.pc = "idle" /\ cache = pod /\ deleted = {} /\ restarts = 0
  BY Zenon DEF Init, Idle
<1>2. \A x : Later(x, x)
  BY DEF Later
<1> QED
  BY <1>1, <1>2, Zenon DEF CacheInv, DeletedInv

\* A step that has nothing to do with it.
LEMMA OthersKeep ==
  ASSUME CacheInv, DeletedInv,
         UNCHANGED <<pod, cache, podDeletionExpectation, w, deleted, restarts>>
  PROVE  CacheInv' /\ DeletedInv'
  BY Zenon DEF CacheInv, DeletedInv, Passed

\* A pod goes on in its life.
LEMMA PodGoesOn ==
  ASSUME CacheInv, DeletedInv, DistInv, NEW p \in Pods, NEW x \in PodStates,
         pod' = [pod EXCEPT ![p] = x], Later(pod[p], x),
         pod[p].life \in Terminated => x.life \in Terminated,
         pod[p].life \in Terminated /\ x.life = "terminating" => pod[p].life = "terminating",
         UNCHANGED <<cache, podDeletionExpectation, w, deleted, restarts>>
  PROVE  CacheInv' /\ DeletedInv'
<1>1. \A q \in Pods : pod'[q] = IF q = p THEN x ELSE pod[q]
  BY DEF DistInv, ClusterType
<1>2. CacheInv'
  BY <1>1, Zenon DEF CacheInv, Later
<1>3. DeletedInv'
  BY <1>1, Zenon DEF DeletedInv, Passed
<1> QED
  BY <1>2, <1>3

\* What the workload, the kubelet and the user do is of that kind.
LEMMA PodsGoOn ==
  ASSUME CacheInv, DeletedInv, DistInv, NEW p \in Pods,
         \/ PodCreate(p) \/ PodStart(p) \/ PodStop(p) \/ PodRemove(p) \/ PodReady(p)
         \/ PodUnready(p) \/ UserDelete(p) \/ \E s \in Subsets : PodRelabel(p, s)
  PROVE  CacheInv' /\ DeletedInv'
<1>1. UNCHANGED <<cache, podDeletionExpectation, w, deleted, restarts>>
  BY DEF PodCreate, PodStart, PodStop, PodRemove, PodReady, PodUnready, UserDelete,
         PodRelabel, maps, counters
<1>2. pod \in [Pods -> PodStates] /\ pod[p] \in PodStates
  BY DEF DistInv, ClusterType
<1>3. CASE \E s \in Subsets : PodRelabel(p, s)
  <2>1. PICK s \in Subsets : /\ IsPodActive(pod[p])
                             /\ pod' = [pod EXCEPT ![p].subset = s]
    BY <1>3, Zenon DEF PodRelabel
  <2>2. PICK x \in PodStates : /\ pod' = [pod EXCEPT ![p] = x]
                               /\ x.life = pod[p].life
    <3> DEFINE x == [pod[p] EXCEPT !.subset = s]
    <3>1. x \in PodStates /\ x.life = pod[p].life
      BY <1>2 DEF PodStates
    <3> QED
      BY <2>1, <3>1, Zenon
  <2>3. Later(pod[p], x)
    BY <2>2 DEF Later
  <2> QED
    BY <1>1, <2>2, <2>3, PodGoesOn, Zenon
<1>4. CASE ~\E s \in Subsets : PodRelabel(p, s)
  <2>1. PICK life \in Lives \ {"absent"} :
          /\ pod' = [pod EXCEPT ![p].life = life]
          /\ pod[p].life = "terminating" => life = "stopped"
          /\ pod[p].life = "stopped" => life = "gone"
          /\ pod[p].life # "gone"
    BY <1>4 DEF PodCreate, PodStart, PodStop, PodRemove, PodReady, PodUnready,
                UserDelete, Live, Lives
  <2>2. PICK x \in PodStates : pod' = [pod EXCEPT ![p] = x] /\ x.life = life
    <3> DEFINE x == [pod[p] EXCEPT !.life = life]
    <3>1. x \in PodStates /\ x.life = life
      BY <1>2, <2>1 DEF PodStates
    <3> QED
      BY <2>1, <3>1, Zenon
  <2>3. /\ Later(pod[p], x)
        /\ pod[p].life \in Terminated => x.life \in Terminated
        /\ pod[p].life \in Terminated /\ x.life = "terminating" =>
             pod[p].life = "terminating"
    BY <2>1, <2>2 DEF Later, Terminated
  <2> QED
    BY <1>1, <2>2, <2>3, PodGoesOn, Zenon
<1> QED
  BY <1>3, <1>4

\* The informer delivers a pod.
LEMMA EventGoesOn ==
  ASSUME CacheInv, DeletedInv, DistInv, NEW p \in Pods, PodEvent(p)
  PROVE  CacheInv' /\ DeletedInv'
<1>1. UNCHANGED <<pod, w, deleted, restarts>>
  BY Zenon DEF PodEvent, counters
<1>2. \A q \in Pods : cache'[q] = IF q = p THEN pod[q] ELSE cache[q]
  BY DEF PodEvent, DistInv, ClusterType
<1>3. /\ podDeletionExpectation' \subseteq podDeletionExpectation
      /\ \A q \in podDeletionExpectation :
           q # p \/ InCache(pod[p]) => q \in podDeletionExpectation'
  BY DEF PodEvent, maps
<1>4. CacheInv'
  <2>1. \A q \in Pods : Later(cache'[q], pod'[q]) /\ Later(cache[q], cache'[q])
    BY <1>1, <1>2 DEF CacheInv, Later
  <2> QED
    BY <1>1, <2>1, Zenon DEF CacheInv, Later
<1>5. DeletedInv'
  <2>1. ASSUME NEW q \in deleted
        PROVE  /\ cache'[q].life # "absent"
               /\ pod[q].life = "terminating" => q \in podDeletionExpectation'
    BY <1>2, <1>3 DEF DeletedInv, Terminated, InCache
  <2> QED
    BY <1>1, <1>3, <2>1 DEF DeletedInv, Passed
<1> QED
  BY <1>4, <1>5

\* The worker returns.
LEMMA ReturnGoesOn ==
  ASSUME CacheInv, DeletedInv, w' = Idle,
         UNCHANGED <<pod, cache, podDeletionExpectation, deleted, restarts>>
  PROVE  CacheInv' /\ DeletedInv'
<1>1. w'.pc = "idle"
  BY Zenon DEF Idle
<1> QED
  BY <1>1, Zenon DEF CacheInv, DeletedInv, Passed

\* A reconcile has every deleted pod whose containers run still to look at.
LEMMA BeginGoesOn ==
  ASSUME CacheInv, DeletedInv, DistInv, ReconcileBegin
  PROVE  CacheInv' /\ DeletedInv'
<1>1. UNCHANGED <<pod, cache, podDeletionExpectation, deleted, restarts>>
  BY DEF ReconcileBegin, cluster, maps, counters
<1>2. /\ w'.pc = "collect" /\ w'.snap = cache
      /\ w'.todo = { p \in Pods : InCache(cache[p]) }
      /\ w'.sync = [p \in Pods |-> Nil]
  BY DEF ReconcileBegin, Idle
<1>3. CacheInv'
  BY <1>1, <1>2 DEF CacheInv, Later
<1>4. ASSUME NEW p \in deleted, pod[p].life = "terminating" PROVE p \in w'.todo
  <2>1. p \in Pods /\ cache[p].life # "absent" /\ cache[p].life # "gone"
    BY <1>4 DEF DeletedInv, CacheInv, Later
  <2> QED
    BY <1>2, <2>1 DEF InCache
<1>5. DeletedInv'
  BY <1>1, <1>2, <1>4, Zenon DEF DeletedInv, Passed
<1> QED
  BY <1>3, <1>5

\* A pod whose containers run is not passed.
LEMMA CollectConnGoesOn ==
  ASSUME CacheInv, DeletedInv, DistInv, CollectConn
  PROVE  CacheInv' /\ DeletedInv'
<1>1. UNCHANGED <<pod, cache, podDeletionExpectation, deleted, restarts>>
  BY DEF CollectConn, cluster, maps, counters
<1>2. w.pc = "collect" /\ w.todo # {}
  BY DEF CollectConn
<1>3. PICK p \in Pods : p = Min(w.todo) /\ p \in w.todo
  BY <1>2, Busy, MinIn
<1>4. PICK x : x = w.snap[p]
  OBVIOUS
<1>5. InCache(x) /\ Later(x, cache[p]) /\ Later(cache[p], pod[p])
  BY <1>2, <1>3, <1>4 DEF CacheInv
<1>6. \/ w' = Idle
      \/ /\ ~IsPodActive(x) /\ ~HasRunningContainers(x)
         /\ w' = [w EXCEPT !.todo = w.todo \ {p}]
      \/ /\ p \notin podDeletionExpectation
         /\ \/ w' = [w EXCEPT !.todo = w.todo \ {p}]
            \/ \E y : w' = [w EXCEPT !.pc = "hash", !.sync = [w.sync EXCEPT ![p] = y]]
  BY <1>3, <1>4, Zenon DEF CollectConn, Return, Skip
<1>7. ~IsPodActive(x) /\ ~HasRunningContainers(x) => pod[p].life # "terminating"
  <2>1. x.life \in Lives
    BY <1>2, <1>4, Busy DEF PodStates
  <2> QED
    BY <1>5, <2>1 DEF IsPodActive, HasRunningContainers, InCache, Later, Lives
<1>8. CASE /\ w' = [w EXCEPT !.todo = w.todo \ {p}]
           /\ ~(p \in deleted /\ pod[p].life = "terminating")
  <2>1. /\ w'.pc = "collect" /\ w'.todo = w.todo \ {p} /\ w'.snap = w.snap
        /\ w'.sync = w.sync
    BY <1>2, <1>8, Busy, Zenon DEF Workers
  <2>2. CacheInv'
    BY <1>1, <1>2, <2>1 DEF CacheInv
  <2>3. DeletedInv'
    BY <1>1, <1>2, <1>8, <2>1 DEF DeletedInv, Passed
  <2> QED
    BY <2>2, <2>3
<1>9. ASSUME p \notin podDeletionExpectation,
             NEW y, w' = [w EXCEPT !.pc = "hash", !.sync = [w.sync EXCEPT ![p] = y]]
      PROVE  CacheInv' /\ DeletedInv'
  <2>1. /\ w'.pc = "hash" /\ w'.todo = w.todo /\ w'.snap = w.snap
        /\ w'.sync = [w.sync EXCEPT ![p] = y]
    BY <1>2, <1>9, Busy, Zenon DEF Workers
  <2>2. \A q \in Pods : w'.sync[q] = IF q = p THEN y ELSE w.sync[q]
    BY <1>2, <2>1, Busy
  <2>3. CacheInv'
    BY <1>1, <1>2, <1>3, <1>4, <1>5, <2>1, <2>2, Zenon DEF CacheInv
  <2>4. DeletedInv'
    BY <1>1, <1>2, <1>3, <1>9, <2>1 DEF DeletedInv, Passed
  <2> QED
    BY <2>3, <2>4
<1>10. p \in deleted /\ pod[p].life = "terminating" => p \in podDeletionExpectation
  BY DEF DeletedInv
<1>11. CASE w' = Idle
  BY <1>1, <1>11, ReturnGoesOn
<1> QED
  BY <1>6, <1>7, <1>8, <1>9, <1>10, <1>11, Zenon

\* The pod whose expectation it compares is not one of them.
LEMMA CollectHashGoesOn ==
  ASSUME CacheInv, DeletedInv, DistInv, CollectHash
  PROVE  CacheInv' /\ DeletedInv'
<1>1. UNCHANGED <<pod, cache, podDeletionExpectation, deleted, restarts>>
  BY Zenon DEF CollectHash, cluster, maps, counters
<1>2. w.pc = "hash"
  BY DEF CollectHash
<1>3. w' = Idle \/ w' = [w EXCEPT !.pc = "collect", !.todo = w.todo \ {Min(w.todo)}]
  BY DEF CollectHash, Return
<1>4. CASE w' = [w EXCEPT !.pc = "collect", !.todo = w.todo \ {Min(w.todo)}]
  <2>1. /\ w'.pc = "collect" /\ w'.todo = w.todo \ {Min(w.todo)} /\ w'.snap = w.snap
        /\ w'.sync = w.sync
    BY <1>2, <1>4, Busy, Zenon DEF Workers
  <2>2. CacheInv'
    BY <1>1, <1>2, <2>1 DEF CacheInv
  <2>3. DeletedInv'
    BY <1>1, <1>2, <2>1 DEF DeletedInv, Passed
  <2> QED
    BY <2>2, <2>3
<1> QED
  BY <1>1, <1>3, <1>4, ReturnGoesOn

\* A plan is made when nothing that was deleted runs.
LEMMA NothingRuns ==
  ASSUME DeletedInv,
         \/ w.pc = "collect" /\ w.todo = {}
         \/ w.pc \in {"act", "sent"} /\ w.kind # "delete"
  PROVE  \A p \in deleted : pod[p].life # "terminating"
  BY DEF DeletedInv, Passed

\* It deletes leaders only, or none.
LEMMA PlanGoesOn ==
  ASSUME CacheInv, DeletedInv, DistInv, Plan
  PROVE  CacheInv' /\ DeletedInv'
<1>1. UNCHANGED <<pod, cache, podDeletionExpectation, deleted, restarts>>
  BY DEF Plan, cluster, maps, counters
<1>2. w.pc = "collect" /\ w.todo = {}
  BY DEF Plan
<1>3. PICK ps, kind :
        /\ w' = [w EXCEPT !.pc = "act", !.kind = kind, !.plan = ps]
        /\ kind = "delete" => ps \subseteq Leaders \/ ps \cap Leaders = {}
  <2> DEFINE Do(kind, ps) == w' = [w EXCEPT !.pc = "act", !.kind = kind, !.plan = ps]
  <2>1. \/ Do("delete", ToDelete \ Leaders)
        \/ ToDelete \ Leaders = {} /\ Do("delete", ToDelete)
        \/ Do("update", ToUpdate)
        \/ Do("dispatch", ToDispatch)
    BY DEF Plan
  <2>2. CASE Do("delete", ToDelete \ Leaders)
    <3>1. (ToDelete \ Leaders) \cap Leaders = {}
      OBVIOUS
    <3> QED
      BY <2>2, <3>1, Zenon
  <2>3. CASE ToDelete \ Leaders = {} /\ Do("delete", ToDelete)
    <3>1. ToDelete \subseteq Leaders
      BY <2>3
    <3> QED
      BY <2>3, <3>1, Zenon
  <2>4. CASE Do("update", ToUpdate) \/ Do("dispatch", ToDispatch)
    <3>1. "update" # "delete" /\ "dispatch" # "delete"
      OBVIOUS
    <3> QED
      BY <2>4, <3>1, Zenon
  <2> QED
    BY <2>1, <2>2, <2>3, <2>4, Zenon
<1>4. /\ w'.pc = "act" /\ w'.todo = w.todo /\ w'.snap = w.snap /\ w'.sync = w.sync
      /\ w'.kind = kind /\ w'.plan = ps
  BY <1>2, <1>3, Busy, Zenon DEF Workers
<1>5. CacheInv'
  BY <1>1, <1>2, <1>4, Zenon DEF CacheInv
<1>6. DeletedInv'
  <2>1. \A p \in deleted : pod[p].life # "terminating"
    BY <1>2, NothingRuns
  <2>2. \A p \in deleted' : pod'[p].life \in Terminated /\ cache'[p].life # "absent"
                            /\ pod'[p].life # "terminating"
    BY <1>1, <2>1 DEF DeletedInv
  <2> QED
    BY <1>1, <1>3, <1>4, <2>2 DEF DeletedInv
<1> QED
  BY <1>5, <1>6

\* The worker sends a spec, stores an expectation or goes to the next pod.
LEMMA ActGoesOn ==
  ASSUME CacheInv, DeletedInv, DistInv, Send \/ StoreExpectation
  PROVE  CacheInv' /\ DeletedInv'
<1>1. UNCHANGED <<pod, cache, podDeletionExpectation, deleted, restarts>>
  BY Zenon DEF Send, StoreExpectation, cluster, maps, counters
<1>2. w.pc \in {"act", "sent"}
  BY Zenon DEF Send, StoreExpectation
<1>3. \/ w' = [w EXCEPT !.pc = "sent", !.err = FALSE]
      \/ w' = [w EXCEPT !.plan = w.plan \ {Min(w.plan)}, !.err = TRUE]
      \/ w' = [w EXCEPT !.pc = "act", !.plan = w.plan \ {Min(w.plan)}]
  BY Zenon DEF Send, StoreExpectation
<1>4. /\ w'.pc \in {"act", "sent"} /\ w'.todo = w.todo /\ w'.snap = w.snap
      /\ w'.sync = w.sync /\ w'.kind = w.kind /\ w'.plan \subseteq w.plan
  BY <1>2, <1>3, Busy, Zenon DEF Workers
<1>5. CacheInv'
  BY <1>1, <1>2, <1>4 DEF CacheInv
<1>6. DeletedInv'
  BY <1>1, <1>2, <1>4 DEF DeletedInv, Passed
<1> QED
  BY <1>5, <1>6

\* A pod that is deleted is expected to be, and the leaders are not in this plan
\* unless it is one.
LEMMA DeletePodGoesOn ==
  ASSUME CacheInv, DeletedInv, DistInv, DeletePod, MaxRestarts = 0
  PROVE  CacheInv' /\ DeletedInv'
<1>1. UNCHANGED cache /\ w.pc = "act" /\ w.kind = "delete" /\ w.plan # {}
  BY DEF DeletePod
<1>2. PICK p \in Pods : p = Min(w.plan) /\ p \in w.plan
  BY <1>1, Busy, MinIn
<1>3. PICK life : life = CASE pod[p].life \in {"running", "ready"} -> "terminating"
                           [] pod[p].life = "pending" -> "stopped"
                           [] OTHER -> pod[p].life
  OBVIOUS
<1>4. /\ restarts' = 0
      /\ \E err : w' = [w EXCEPT !.plan = w.plan \ {p}, !.err = err]
      /\ \/ UNCHANGED <<pod, podDeletionExpectation, deleted>>
         \/ /\ pod[p].life # "gone"
            /\ pod' = [pod EXCEPT ![p].life = life]
            /\ podDeletionExpectation' = podDeletionExpectation \cup {p}
            /\ deleted' = deleted \cup {p}
  <2>1. ~Fails
    BY DEF DeletedInv, Fails
  <2>2. restarts = 0
    BY DEF DeletedInv
  <2> QED
    BY <1>2, <1>3, <2>1, <2>2, Zenon DEF DeletePod
<1>5. /\ w'.pc = "act" /\ w'.todo = w.todo /\ w'.snap = w.snap /\ w'.sync = w.sync
      /\ w'.kind = w.kind /\ w'.plan = w.plan \ {p}
  BY <1>1, <1>4, Busy, Zenon DEF Workers
<1>6. pod \in [Pods -> PodStates] /\ pod[p].life \in Lives
  BY DEF DistInv, ClusterType, PodStates
<1>7. InCache(w.snap[p]) /\ Later(w.snap[p], cache[p]) /\ Later(cache[p], pod[p])
  BY <1>1, <1>2, Busy, Zenon DEF CacheInv
<1>8. cache[p].life # "absent" /\ pod[p].life # "absent"
  BY <1>7 DEF InCache, Later
<1>9. CASE UNCHANGED <<pod, podDeletionExpectation, deleted>>
  BY <1>1, <1>4, <1>5, <1>9 DEF CacheInv, DeletedInv, Passed
<1>10. CASE /\ pod[p].life # "gone"
            /\ pod' = [pod EXCEPT ![p].life = life]
            /\ podDeletionExpectation' = podDeletionExpectation \cup {p}
            /\ deleted' = deleted \cup {p}
  <2>1. life \in {"terminating", "stopped"} /\ (pod[p].life = "stopped" => life = "stopped")
    BY <1>3, <1>6, <1>8, <1>10 DEF Lives
  <2>2. /\ pod'[p].life = life
        /\ \A q \in Pods \ {p} : pod'[q] = pod[q]
    BY <1>6, <1>10 DEF PodStates
  <2>3. CacheInv'
    <3>1. \A q \in Pods : Later(cache[q], pod'[q])
      BY <1>7, <1>10, <2>1, <2>2 DEF CacheInv, Later
    <3> QED
      BY <1>1, <1>5, <3>1, Zenon DEF CacheInv
  <2>4. DeletedInv'
    <3>1. w'.plan \subseteq Leaders \/ w'.plan \cap Leaders = {}
      BY <1>1, <1>5 DEF DeletedInv
    <3>2. w'.plan \cap Leaders = {} \/ p \in Leaders
      BY <1>1, <1>2, <1>5 DEF DeletedInv
    <3>3. ASSUME NEW q \in deleted'
          PROVE  /\ q \in Pods /\ pod'[q].life \in Terminated /\ cache'[q].life # "absent"
                 /\ pod'[q].life = "terminating" =>
                      /\ q \in podDeletionExpectation'
                      /\ w'.plan \cap Leaders = {} \/ q \in Leaders
      <4>1. CASE q = p
        BY <1>1, <1>8, <1>10, <2>1, <2>2, <3>2, <4>1 DEF Terminated
      <4>2. CASE q # p
        <5>1. q \in deleted /\ q \in Pods /\ pod'[q] = pod[q]
          BY <1>10, <2>2, <3>3, <4>2 DEF DeletedInv
        <5> QED
          BY <1>1, <1>5, <1>10, <5>1, Zenon DEF DeletedInv, Passed
      <4> QED
        BY <4>1, <4>2
    <3> QED
      BY <1>1, <1>4, <1>5, <3>1, <3>3 DEF DeletedInv, Passed
  <2> QED
    BY <2>3, <2>4
<1> QED
  BY <1>4, <1>9, <1>10

\* Every step preserves the invariant.
LEMMA DeletionStep ==
  ASSUME MaxRestarts = 0, DeletionInv, [Next]_vars
  PROVE  DeletionInv'
<1> USE DEF DeletionInv
<1>1. DistInv'
  BY DistStep
<1>2. ASSUME NEW p \in Pods, PodLife(p) \/ Outside(p) \/ PodEvent(p) \/ ProxyStep(p)
      PROVE  CacheInv' /\ DeletedInv'
  <2>1. CASE ProxyRestart(p) \/ ProxyStep(p)
    <3>1. UNCHANGED <<pod, cache, podDeletionExpectation, w, deleted, restarts>>
      BY <2>1, Zenon DEF ProxyRestart, ProxyStep, ProxyLoad, Connect, cluster, maps, counters
    <3> QED
      BY <3>1, OthersKeep
  <2> QED
    BY <1>2, <2>1, PodsGoOn, EventGoesOn DEF PodLife, Outside
<1>3. ASSUME NEW c \in Conns, StreamStep(c) \/ StreamBreak(c)
      PROVE  CacheInv' /\ DeletedInv'
  <2>1. UNCHANGED <<pod, cache, podDeletionExpectation, w, deleted, restarts>>
    BY <1>3, Zenon DEF StreamStep, StreamBreak, ProxyAssign, ProxySend, RegisterCheck,
                RegisterStore, RegisterTrigger, RecvStatus, StopExpectation, StopMark,
                cluster, maps, counters
  <2> QED
    BY <2>1, OthersKeep
<1>4. CASE Reconcile
  <2>1. CASE ReconcileEnd
    <3>1. w' = Idle /\ UNCHANGED <<pod, cache, podDeletionExpectation, deleted, restarts>>
      BY <2>1 DEF ReconcileEnd, Return, cluster, maps, counters
    <3> QED
      BY <1>1, <3>1, ReturnGoesOn
  <2> QED
    BY <1>1, <1>4, <2>1, BeginGoesOn, CollectConnGoesOn, CollectHashGoesOn, PlanGoesOn,
       ActGoesOn, DeletePodGoesOn DEF Reconcile
<1>5. CASE VAppUpdate \/ UNCHANGED vars
  <2>1. UNCHANGED <<pod, cache, podDeletionExpectation, w, deleted, restarts>>
    BY <1>5 DEF VAppUpdate, vars, cluster, maps, counters
  <2> QED
    BY <1>1, <2>1, OthersKeep
<1>6. ~ManagerRestart
  BY DEF ManagerRestart, Fails, DeletedInv
<1> QED
  BY <1>1, <1>2, <1>3, <1>4, <1>5, <1>6 DEF Next

\* When the manager is not restarted, Reconcile goes on from its deletions only
\* when the pods it deleted have stopped: no spec is sent while a container of
\* a deleted pod runs, and no leader is deleted while one of a deleted
\* non-leader does, however late the informer cache is.
THEOREM DeletedPodsStopFirst ==
  ASSUME MaxRestarts = 0
  PROVE  Spec => DeletedStopFirst
<1>1. ASSUME DeletionInv, [Next]_vars
      PROVE  [ /\ Sends("update") \/ Sends("dispatch") =>
                    \A p \in deleted : ~HasRunningContainers(pod[p])
               /\ DeletesLeader =>
                    \A p \in deleted \ Leaders : ~HasRunningContainers(pod[p]) ]_vars
  <2>0. \A p \in deleted : HasRunningContainers(pod[p]) => pod[p].life = "terminating"
    BY <1>1 DEF DeletionInv, DeletedInv, Terminated, HasRunningContainers
  <2>1. ASSUME Sends("update") \/ Sends("dispatch")
        PROVE  \A p \in deleted : ~HasRunningContainers(pod[p])
    BY <1>1, <2>0, <2>1, NothingRuns DEF Sends, DeletionInv
  <2>2. ASSUME DeletesLeader
        PROVE  \A p \in deleted \ Leaders : ~HasRunningContainers(pod[p])
    <3>1. deleted' # deleted
      BY <2>2 DEF DeletesLeader
    <3>2. DeletePod
      <4>1. ASSUME NEW p \in Pods, PodLife(p) \/ Outside(p) \/ PodEvent(p) \/ ProxyStep(p)
            PROVE  deleted' = deleted
        BY <4>1, ZenonT(30) DEF PodLife, Outside, ProxyStep, PodCreate, PodStart, PodStop,
                                PodRemove, PodReady, PodUnready, PodRelabel, UserDelete,
                                PodEvent, ProxyRestart, ProxyLoad, Connect, counters
      <4>2. ASSUME NEW c \in Conns, StreamStep(c) \/ StreamBreak(c)
            PROVE  deleted' = deleted
        BY <4>2, Zenon DEF StreamStep, StreamBreak, ProxyAssign, ProxySend, RegisterCheck,
                    RegisterStore, RegisterTrigger, RecvStatus, StopExpectation, StopMark,
                    counters
      <4>3. CASE Reconcile
        BY <3>1, <4>3, Zenon DEF Reconcile, ReconcileBegin, CollectConn, CollectHash, Plan,
                                 Send, StoreExpectation, ReconcileEnd, counters
      <4>4. ~(VAppUpdate \/ ManagerRestart \/ UNCHANGED vars)
        BY <3>1 DEF VAppUpdate, ManagerRestart, vars, counters
      <4> QED
        BY <1>1, <3>1, <4>1, <4>2, <4>3, <4>4 DEF Next
    <3>3. /\ w.pc = "act" /\ w.kind = "delete" /\ w.plan # {}
          /\ deleted' = deleted \/ deleted' = deleted \cup {Min(w.plan)}
      BY <3>2 DEF DeletePod
    <3>4. Min(w.plan) \in w.plan
      BY <1>1, <3>3, Busy, MinIn DEF DeletionInv
    <3>5. Min(w.plan) \in Leaders
      BY <2>2, <3>3 DEF DeletesLeader
    <3> QED
      BY <1>1, <2>0, <3>3, <3>4, <3>5 DEF DeletionInv, DeletedInv, Passed
  <2> QED
    BY <2>1, <2>2
<1>2. Init => DeletionInv
  BY DistStart, DeletionStart DEF DeletionInv
<1>3. DeletionInv /\ [Next]_vars => DeletionInv'
  BY DeletionStep
<1> QED
  BY <1>1, <1>2, <1>3, PTL DEF Spec, DeletedStopFirst
=============================================================================
