-------------------------- MODULE VirtualAppServer --------------------------
(***************************************************************************)
(* The ctrlmesh-manager's side of the spec distribution (controllers/server)*)
(* composed with the pods of one VirtualApp, the proxies in them and the    *)
(* gRPC streams between.                                                    *)
(*                                                                          *)
(* One worker reconciles the VirtualApp.  Every stream has a RegisterV1     *)
(* handler and a receiving goroutine.  Worker, handlers and the pod event   *)
(* handler share the connection cache and the two expectation maps, which   *)
(* are locked one call at a time only.                                      *)
(*                                                                          *)
(* Pods stand for pod UIDs, and are numbered in the order of their names.   *)
(* A proxy is modelled by what SpecManager shows of it: the expected and    *)
(* the current spec, and whether a spec that differs from the current one   *)
(* is loaded or refused.  A spec is its hash and its subset.  A hash stands *)
(* for the rules of the VirtualApp and the endpoints it was computed from.  *)
(* Of a status the hashes and the subset are kept; which proxies report     *)
(* that their controller leads does not change.                             *)
(***************************************************************************)
EXTENDS Naturals, Sequences, FiniteSets, FiniteSetsExt

CONSTANTS
  Pods,        \* a set of numbers
  Subsets,     \* subsets a pod may be labelled with
  InitLives,   \* how far a pod may be when the manager starts
  Leaders,     \* the pods whose controller is the leader
  Nil,         \* the nil pointer, no entry in a map
  MaxVersion,  \* bound on the changes of the rules
  MaxConns,    \* bound on the streams
  MaxEvents,   \* bound on what users and workloads do to pods that run
  MaxBreaks,   \* bound on broken streams and restarted proxies
  MaxRestarts  \* bound on restarts of the manager and failed calls

ASSUME PodsAssumption == Pods \subseteq Nat /\ Leaders \subseteq Pods

ASSUME InitAssumption == InitLives \subseteq {"absent", "pending", "running", "ready"}

ASSUME VersionAssumption == MaxVersion \in Nat \ {0}

Conns == 1 .. MaxConns

\* The hash of a spec, a spec, and the status a proxy reports.
Hashes == [route : Nat, endpoints : SUBSET (Pods \X Subsets)]
Specs == [hash : Hashes, subset : Subsets]
Statuses == [subset : Subsets, expectedHash : Hashes, currentHash : Hashes]

ASSUME NilAssumption == /\ Nil \notin Pods /\ Nil \notin Conns
                        /\ Nil \notin Hashes /\ Nil \notin Specs /\ Nil \notin Statuses

VARIABLES
  vApp,          \* the VirtualApp: a version of its rules
  pod,           \* the pods in the apiserver
  cache,         \* the pods in the manager's informer cache
  cached,        \* cachedGrpcSrvConnection
  podHashExpectation, podDeletionExpectation,
  conn,          \* the grpcSrvConnection of each stream, and its pod
  rpc,           \* how far RegisterV1 is on each stream
  stream,        \* [open, down, up]: the streams, and the messages in flight
  proxy,         \* the proxy of each pod
  queued,        \* the VirtualApp is in the work queue
  w,             \* the worker
  deleted,       \* history: the pods Reconcile deleted
  events, breaks, restarts \* counters for the bounds

maps == <<cached, podHashExpectation, podDeletionExpectation>>
cluster == <<vApp, pod, cache>>
wire == <<conn, rpc, stream, proxy>>
counters == <<deleted, events, breaks, restarts>>
vars == <<cluster, maps, wire, queued, w, counters>>

-----------------------------------------------------------------------------
(* Pods *)

\* A pod is pending, running, ready, terminating (deleted, with containers that
\* run), stopped (inactive, no container runs) or gone; UIDs are used once.
IsPodActive(p) == p.life \in {"pending", "running", "ready"}

HasRunningContainers(p) == p.life \in {"running", "ready", "terminating"}

InCache(p) == p.life \notin {"absent", "gone"}

Closed == [open |-> FALSE, down |-> <<>>, up |-> <<>>]

\* What happens to a pod when its containers stop or its proxy restarts: the
\* proxy's streams break.
Broken(p) ==
  [c \in Conns |->
     IF conn[c].pod = p THEN Closed ELSE stream[c]]

NewProxy == [exp |-> Nil, cur |-> Nil, prev |-> Nil, loading |-> FALSE, init |-> FALSE]

Live(p, life) == pod' = [pod EXCEPT ![p].life = life]

\* What the workload, the kubelet and the user do to pods.
PodCreate(p) ==
  /\ pod[p].life = "absent" /\ Live(p, "pending")
  /\ UNCHANGED <<vApp, cache, maps, wire, queued, w, counters>>

PodStart(p) ==
  /\ pod[p].life = "pending" /\ Live(p, "running")
  /\ UNCHANGED <<vApp, cache, maps, wire, queued, w, counters>>

PodStop(p) ==
  /\ pod[p].life = "terminating" /\ Live(p, "stopped")
  /\ stream' = Broken(p) /\ proxy' = [proxy EXCEPT ![p] = NewProxy]
  /\ UNCHANGED <<vApp, cache, maps, conn, rpc, queued, w, counters>>

PodRemove(p) ==
  /\ pod[p].life = "stopped" /\ Live(p, "gone")
  /\ UNCHANGED <<vApp, cache, maps, wire, queued, w, counters>>

Event == events < MaxEvents /\ events' = events + 1

PodReady(p) ==
  /\ Event /\ pod[p].life = "running" /\ Live(p, "ready")
  /\ UNCHANGED <<vApp, cache, maps, wire, queued, w, deleted, breaks, restarts>>

PodUnready(p) ==
  /\ Event /\ pod[p].life = "ready" /\ Live(p, "running")
  /\ UNCHANGED <<vApp, cache, maps, wire, queued, w, deleted, breaks, restarts>>

PodRelabel(p, s) ==
  /\ Event /\ IsPodActive(pod[p]) /\ s # pod[p].subset
  /\ pod' = [pod EXCEPT ![p].subset = s]
  /\ UNCHANGED <<vApp, cache, maps, wire, queued, w, deleted, breaks, restarts>>

UserDelete(p) ==
  /\ Event /\ pod[p].life \in {"running", "ready"} /\ Live(p, "terminating")
  /\ UNCHANGED <<vApp, cache, maps, wire, queued, w, deleted, breaks, restarts>>

-----------------------------------------------------------------------------
(* The event handlers of the manager *)

VAppUpdate ==
  /\ vApp < MaxVersion /\ vApp' = vApp + 1
  /\ queued' = TRUE
  /\ UNCHANGED <<pod, cache, maps, wire, w, counters>>

\* Mutant: a change of the labels is not noticed.
SensitiveToPhase(old, new) ==
  IF ~IsPodActive(new)
  THEN IsPodActive(old) \/ HasRunningContainers(old) # HasRunningContainers(new)
  ELSE old.life # new.life

\* podEventHandler.Update looks for these differences.
Sensitive(old, new) ==
  IF ~IsPodActive(new)
  THEN IsPodActive(old) \/ HasRunningContainers(old) # HasRunningContainers(new)
  ELSE old.subset # new.subset \/ old.life # new.life

\* The informer delivers the latest state of a pod and the handler runs.
PodEvent(p) ==
  /\ cache[p] # pod[p]
  /\ cache' = [cache EXCEPT ![p] = pod[p]]
  /\ IF InCache(pod[p])
     THEN /\ queued' = (queued \/ ~InCache(cache[p]) \/ Sensitive(cache[p], pod[p]))
          /\ UNCHANGED maps
     ELSE /\ queued' = (queued \/ InCache(cache[p]))
          /\ podHashExpectation' = [podHashExpectation EXCEPT ![p] = Nil]
          /\ podDeletionExpectation' = podDeletionExpectation \ {p}
          /\ UNCHANGED cached
  /\ UNCHANGED <<vApp, pod, wire, w, counters>>

-----------------------------------------------------------------------------
(* The proxies, as SpecManager and the gRPC client show them *)

\* The MetaState of a proxy's status.
GetStatus(p) ==
  IF proxy[p].cur = Nil THEN Nil
  ELSE [subset |-> proxy[p].cur.subset, expectedHash |-> proxy[p].exp.hash,
        currentHash |-> proxy[p].cur.hash]

Opened(c) == conn[c].pod # Nil

\* The proxy dials the leader and sends its first status.
Connect(p, c) ==
  /\ HasRunningContainers(pod[p]) /\ ~proxy[p].loading
  /\ ~Opened(c) /\ \A d \in Conns : d < c => Opened(d)
  /\ \A d \in Conns : conn[d].pod = p => ~stream[d].open
  /\ conn' = [conn EXCEPT ![c].pod = p, ![c].status = GetStatus(p), ![c].first = TRUE]
  /\ rpc' = [rpc EXCEPT ![c] = "first"]
  /\ stream' = [stream EXCEPT ![c].open = TRUE]
  /\ proxy' = [proxy EXCEPT ![p].prev = Nil]
  /\ UNCHANGED <<cluster, maps, queued, w, counters>>

\* UpdateSpec up to the lock, on the next spec of the stream.
ProxyAssign(c) ==
  LET p == conn[c].pod
  IN  /\ stream[c].down # <<>> /\ ~proxy[p].loading
      /\ proxy' = [proxy EXCEPT ![p].exp = Head(stream[c].down),
                                ![p].loading = TRUE]
      /\ stream' = [stream EXCEPT ![c].down = Tail(@)]
      /\ UNCHANGED <<cluster, maps, conn, rpc, queued, w, counters>>

\* What is current after the rest of UpdateSpec: a spec with another hash for
\* the same subset is loaded or refused, depending on what was recorded.
Loads(x) ==
  LET same == x.cur # Nil /\ x.cur.subset = x.exp.subset
  IN  (IF x.cur = Nil \/ same THEN {x.exp} ELSE {})
        \cup (IF x.cur # Nil /\ ~(same /\ x.cur.hash = x.exp.hash) THEN {x.cur} ELSE {})

ProxyLoad(p) ==
  /\ proxy[p].loading
  /\ \E cur \in Loads(proxy[p]) :
       proxy' = [proxy EXCEPT ![p].cur = cur, ![p].loading = FALSE, ![p].init = TRUE]
  /\ UNCHANGED <<cluster, maps, conn, rpc, stream, queued, w, counters>>

\* The sending goroutine, on a trigger or when its timer fires.
ProxySend(c) ==
  LET p == conn[c].pod
  IN  /\ stream[c].open /\ proxy[p].init
      /\ GetStatus(p) # Nil /\ GetStatus(p) # proxy[p].prev
      /\ stream' = [stream EXCEPT ![c].up = Append(@, GetStatus(p))]
      /\ proxy' = [proxy EXCEPT ![p].prev = GetStatus(p)]
      /\ UNCHANGED <<cluster, maps, conn, rpc, queued, w, counters>>

Break == breaks < MaxBreaks /\ breaks' = breaks + 1

\* The stream breaks; what is in flight is lost.
StreamBreak(c) ==
  /\ Break /\ stream[c].open
  /\ stream' = [stream EXCEPT ![c] = Closed]
  /\ UNCHANGED <<cluster, maps, conn, rpc, proxy, queued, w, deleted, events, restarts>>

\* The proxy container restarts: its files are lost or of no use, or the
\* expected spec in them goes through UpdateSpec again.
ProxyRestart(p) ==
  /\ Break /\ pod[p].life \in {"running", "ready"}
  /\ \/ proxy' = [proxy EXCEPT ![p] = NewProxy]
     \/ /\ proxy[p].exp # Nil
        /\ \E cur \in Loads(proxy[p]) :
             proxy' = [proxy EXCEPT ![p].cur = cur, ![p].loading = FALSE,
                                    ![p].init = FALSE]
  /\ stream' = Broken(p)
  /\ UNCHANGED <<cluster, maps, conn, rpc, queued, w, deleted, events, restarts>>

-----------------------------------------------------------------------------
(* RegisterV1 *)

\* The status a stream starts with carries the SelfInfo of the proxy.
NoConn ==
  [pod |-> Nil, status |-> Nil, first |-> FALSE, sent |-> FALSE, disconnected |-> FALSE]

\* The first message is received and the pod is looked up in the cache; when
\* that fails RegisterV1 returns, and nothing of the stream is left.
RegisterCheck(c) ==
  /\ rpc[c] = "first"
  /\ IF stream[c].open /\ IsPodActive(cache[conn[c].pod])
     THEN /\ rpc' = [rpc EXCEPT ![c] = "checked"]
          /\ UNCHANGED <<conn, stream>>
     ELSE /\ rpc' = [rpc EXCEPT ![c] = "none"]
          /\ conn' = [conn EXCEPT ![c] = NoConn]
          /\ stream' = [stream EXCEPT ![c] = Closed]
  /\ UNCHANGED <<cluster, maps, proxy, queued, w, counters>>

RegisterStore(c) ==
  /\ rpc[c] = "checked"
  /\ rpc' = [rpc EXCEPT ![c] = "stored"]
  /\ cached' = [cached EXCEPT ![conn[c].pod] = c]
  /\ UNCHANGED <<cluster, podHashExpectation, podDeletionExpectation, conn, stream,
                 proxy, queued, w, counters>>

\* The old expectation is dropped, and the VirtualApp is triggered.
RegisterTrigger(c) ==
  /\ rpc[c] = "stored"
  /\ rpc' = [rpc EXCEPT ![c] = "waiting"]
  /\ podHashExpectation' = [podHashExpectation EXCEPT ![conn[c].pod] = Nil]
  /\ queued' = TRUE
  /\ UNCHANGED <<cluster, cached, podDeletionExpectation, conn, stream, proxy, w, counters>>

\* Mutant: a changed status does not trigger a reconcile.
RecvStatusSilently(c) ==
  /\ rpc[c] = "waiting" /\ stream[c].up # <<>>
  /\ conn' = [conn EXCEPT ![c].status = Head(stream[c].up), ![c].first = FALSE]
  /\ stream' = [stream EXCEPT ![c].up = Tail(@)]
  /\ UNCHANGED <<cluster, maps, rpc, proxy, queued, w, counters>>

\* The receiving goroutine.  A later status has no SelfInfo, so the first of
\* them always differs from what it replaces.
RecvStatus(c) ==
  /\ rpc[c] = "waiting" /\ stream[c].up # <<>>
  /\ LET status == Head(stream[c].up)
     IN  /\ conn' = [conn EXCEPT ![c].status = status, ![c].first = FALSE]
         /\ queued' = (queued \/ conn[c].first \/ status # conn[c].status)
  /\ stream' = [stream EXCEPT ![c].up = Tail(@)]
  /\ UNCHANGED <<cluster, maps, rpc, proxy, w, counters>>

\* The context of the stream is done: RegisterV1 drops the expectation of the
\* pod, then marks its connection.
StopExpectation(c) ==
  /\ rpc[c] = "waiting" /\ ~stream[c].open
  /\ rpc' = [rpc EXCEPT ![c] = "stopping"]
  /\ podHashExpectation' = [podHashExpectation EXCEPT ![conn[c].pod] = Nil]
  /\ UNCHANGED <<cluster, cached, podDeletionExpectation, conn, stream, proxy,
                 queued, w, counters>>

\* Mutant: the connection is not marked.
StopUnmarked(c) ==
  /\ rpc[c] = "stopping"
  /\ rpc' = [rpc EXCEPT ![c] = "done"]
  /\ queued' = TRUE
  /\ UNCHANGED <<cluster, maps, conn, stream, proxy, w, counters>>

StopMark(c) ==
  /\ rpc[c] = "stopping"
  /\ rpc' = [rpc EXCEPT ![c] = "done"]
  /\ conn' = [conn EXCEPT ![c].disconnected = TRUE]
  /\ queued' = TRUE
  /\ UNCHANGED <<cluster, maps, stream, proxy, w, counters>>

-----------------------------------------------------------------------------
(* Reconcile *)

\* The worker between two reconciles.
Idle == [pc |-> "idle", ver |-> 0, snap |-> Nil, todo |-> {}, sync |-> <<>>,
         plan |-> {}, kind |-> "", err |-> FALSE]

Return(requeue) ==
  /\ w' = Idle
  /\ queued' = (queued \/ requeue)

\* Mutant: the VirtualApp may be read as it was earlier.
ReconcileBeginStale ==
  /\ w.pc = "idle" /\ queued
  /\ queued' = FALSE
  /\ \E ver \in 1 .. vApp :
       w' = [Idle EXCEPT !.pc = "collect", !.ver = ver, !.snap = cache,
                         !.todo = { p \in Pods : InCache(cache[p]) },
                         !.sync = [p \in Pods |-> Nil]]
  /\ UNCHANGED <<cluster, maps, wire, counters>>

\* The VirtualApp and its pods are read from the cache.
ReconcileBegin ==
  /\ w.pc = "idle" /\ queued
  /\ queued' = FALSE
  /\ w' = [Idle EXCEPT !.pc = "collect", !.ver = vApp, !.snap = cache,
                       !.todo = { p \in Pods : InCache(cache[p]) },
                       !.sync = [p \in Pods |-> Nil]]
  /\ UNCHANGED <<cluster, maps, wire, counters>>

Skip(p) ==
  /\ w' = [w EXCEPT !.todo = @ \ {p}]
  /\ UNCHANGED queued

\* A pod is looked at up to its connection, in the order of the names.
CollectConn ==
  LET p == Min(w.todo)
      x == w.snap[p]
      c == cached[p]
  IN  /\ w.pc = "collect" /\ w.todo # {}
      /\ \/ ~IsPodActive(x) /\ HasRunningContainers(x) /\ Return(FALSE)
         \/ ~IsPodActive(x) /\ ~HasRunningContainers(x) /\ Skip(p)
         \/ IsPodActive(x) /\ p \in podDeletionExpectation /\ Return(FALSE)
         \/ /\ IsPodActive(x) /\ p \notin podDeletionExpectation /\ c = Nil
            /\ \/ x.life \in {"ready", "pending"} /\ Return(TRUE)
               \/ x.life \in {"running", "pending"} /\ Skip(p)
         \/ /\ IsPodActive(x) /\ p \notin podDeletionExpectation /\ c # Nil
            /\ IF conn[c].disconnected
               THEN Return(FALSE)
               ELSE /\ w' = [w EXCEPT !.pc = "hash",
                               !.sync[p] = [conn |-> c, status |-> conn[c].status,
                                            dispatched |-> conn[c].sent]]
                    /\ UNCHANGED queued
      /\ UNCHANGED <<cluster, maps, wire, counters>>

\* Then its hash expectation is compared with the status that was read.
CollectHash ==
  LET p == Min(w.todo)
      expectHash == podHashExpectation[p]
      status == w.sync[p].status
  IN  /\ w.pc = "hash"
      /\ IF expectHash # Nil /\ (status = Nil \/ status.expectedHash # expectHash)
         THEN Return(FALSE) /\ UNCHANGED maps
         ELSE /\ w' = [w EXCEPT !.pc = "collect", !.todo = @ \ {p}]
              /\ podHashExpectation' = [podHashExpectation EXCEPT ![p] = Nil]
              /\ UNCHANGED <<cached, podDeletionExpectation, queued>>
      /\ UNCHANGED <<cluster, wire, counters>>

\* Mutant: the hash depends on an order that differs from the last one.
SpecHashUnsorted ==
  LET flipped == \E p \in Pods : w.sync[p] # Nil /\ w.sync[p].status # Nil
                    /\ w.sync[p].status.expectedHash.endpoints = {}
  IN  [route |-> w.ver, endpoints |-> IF flipped THEN {<<>>} ELSE {}]

\* The hash of the spec this reconcile distributes: the rules and the ready
\* pods with their subsets.
SpecHash ==
  [route |-> w.ver,
   endpoints |-> { <<p, w.snap[p].subset>> : p \in { q \in Pods : w.snap[q].life = "ready" } }]

newSpec(p) == [hash |-> SpecHash, subset |-> w.snap[p].subset]

SyncPods == { p \in Pods : w.sync[p] # Nil }

\* The pods to delete, to update and to dispatch to.
Meta(p) == w.sync[p].status

ToDelete ==
  { p \in SyncPods : Meta(p) # Nil
      /\ (Meta(p).subset # newSpec(p).subset \/ Meta(p).expectedHash # Meta(p).currentHash) }

ToUpdate ==
  { p \in SyncPods \ ToDelete : Meta(p) # Nil /\ Meta(p).expectedHash # SpecHash }

ToDispatch ==
  { p \in SyncPods \ (ToDelete \cup ToUpdate) :
      Meta(p) = Nil \/ ~w.sync[p].dispatched }

\* Non-leaders are deleted before leaders, deletions come before updates and
\* updates before dispatches: one kind is done per reconcile.
Plan ==
  /\ w.pc = "collect" /\ w.todo = {}
  /\ LET nonLeaders == ToDelete \ Leaders
         Do(kind, ps) == w' = [w EXCEPT !.pc = "act", !.kind = kind, !.plan = ps]
     IN  CASE nonLeaders # {} -> Do("delete", nonLeaders)
           [] nonLeaders = {} /\ ToDelete # {} -> Do("delete", ToDelete)
           [] ToDelete = {} /\ ToUpdate # {} -> Do("update", ToUpdate)
           [] OTHER -> Do("dispatch", ToDispatch)
  /\ UNCHANGED <<cluster, maps, wire, queued, counters>>

Fails == restarts < MaxRestarts /\ restarts' = restarts + 1

\* Mutant: the success is not noted.
DeletePodUnexpected ==
  LET p == Min(w.plan)
  IN  /\ w.pc = "act" /\ w.kind = "delete" /\ w.plan # {}
      /\ pod' = [pod EXCEPT ![p].life =
                   CASE @ \in {"running", "ready"} -> "terminating"
                     [] @ = "pending" -> "stopped"
                     [] OTHER -> @]
      /\ deleted' = deleted \cup {p}
      /\ w' = [w EXCEPT !.plan = @ \ {p}, !.err = FALSE]
      /\ UNCHANGED <<vApp, cache, maps, wire, queued, events, breaks, restarts>>

\* Delete is called and its success noted.
DeletePod ==
  LET p == Min(w.plan)
      ok == /\ pod[p].life # "gone"
            /\ pod' = [pod EXCEPT ![p].life =
                         CASE @ \in {"running", "ready"} -> "terminating"
                           [] @ = "pending" -> "stopped"
                           [] OTHER -> @]
            /\ podDeletionExpectation' = podDeletionExpectation \cup {p}
            /\ deleted' = deleted \cup {p}
            /\ w' = [w EXCEPT !.plan = @ \ {p}, !.err = FALSE]
      failed == /\ w' = [w EXCEPT !.plan = @ \ {p}, !.err = TRUE]
                /\ UNCHANGED <<pod, podDeletionExpectation, deleted>>
  IN  /\ w.pc = "act" /\ w.kind = "delete" /\ w.plan # {}
      /\ \/ ok /\ UNCHANGED restarts
         \/ failed /\ (IF pod[p].life = "gone" THEN UNCHANGED restarts ELSE Fails)
      /\ UNCHANGED <<vApp, cache, cached, podHashExpectation, wire, queued, events, breaks>>

\* Mutant: a spec is put on a stream whether it is open or not.
SendUnchecked ==
  LET p == Min(w.plan)
      c == w.sync[p].conn
  IN  /\ w.pc = "act" /\ w.kind \in {"update", "dispatch"} /\ w.plan # {}
      /\ conn' = [conn EXCEPT ![c].sent = TRUE]
      /\ stream' = [stream EXCEPT ![c].down = Append(@, newSpec(p))]
      /\ w' = [w EXCEPT !.pc = "sent", !.err = FALSE]
      /\ UNCHANGED <<cluster, maps, rpc, proxy, queued, counters>>

\* A spec is sent on the connection that was read.  On a stream that broke it
\* is lost, or Send fails once the server knows.
Send ==
  LET p == Min(w.plan)
      c == w.sync[p].conn
  IN  /\ w.pc = "act" /\ w.kind \in {"update", "dispatch"} /\ w.plan # {}
      /\ conn' = [conn EXCEPT ![c].sent = TRUE]
      /\ \/ /\ rpc[c] \notin {"stopping", "done"}
            /\ stream' = IF stream[c].open
                         THEN [stream EXCEPT ![c].down = Append(@, newSpec(p))]
                         ELSE stream
            /\ w' = [w EXCEPT !.pc = "sent", !.err = FALSE]
         \/ /\ ~stream[c].open
            /\ w' = [w EXCEPT !.plan = @ \ {p}, !.err = TRUE]
            /\ UNCHANGED stream
      /\ UNCHANGED <<cluster, maps, rpc, proxy, queued, counters>>

\* Mutant: what is stored is computed from the VirtualApp of the moment.
StoreExpectationOfNow ==
  LET p == Min(w.plan)
  IN  /\ w.pc = "sent"
      /\ podHashExpectation' =
           [podHashExpectation EXCEPT ![p] = [SpecHash EXCEPT !.route = vApp]]
      /\ w' = [w EXCEPT !.pc = "act", !.plan = @ \ {p}]
      /\ UNCHANGED <<cluster, cached, podDeletionExpectation, wire, queued, counters>>

\* After Send has returned the expectation is stored.
StoreExpectation ==
  LET p == Min(w.plan)
  IN  /\ w.pc = "sent"
      /\ podHashExpectation' = [podHashExpectation EXCEPT ![p] = SpecHash]
      /\ w' = [w EXCEPT !.pc = "act", !.plan = @ \ {p}]
      /\ UNCHANGED <<cluster, cached, podDeletionExpectation, wire, queued, counters>>

ReconcileEnd ==
  /\ w.pc = "act" /\ w.plan = {}
  /\ Return(w.err)
  /\ UNCHANGED <<cluster, maps, wire, counters>>

Reconcile ==
  \/ ReconcileBegin \/ CollectConn \/ CollectHash \/ Plan
  \/ DeletePod \/ Send \/ StoreExpectation \/ ReconcileEnd

\* Another manager becomes the leader: it has no connections and no
\* expectations, and it reconciles every VirtualApp.  Its informer cache ran
\* before and may lag.
ManagerRestart ==
  /\ Fails
  /\ cached' = [p \in Pods |-> Nil]
  /\ podHashExpectation' = [p \in Pods |-> Nil]
  /\ podDeletionExpectation' = {}
  /\ rpc' = [c \in Conns |-> IF Opened(c) THEN "done" ELSE rpc[c]]
  /\ stream' = [c \in Conns |-> Closed]
  /\ queued' = TRUE /\ w' = Idle
  /\ UNCHANGED <<cluster, conn, proxy, deleted, events, breaks>>

-----------------------------------------------------------------------------
(* The system *)

Init ==
  /\ vApp = 1
  /\ pod \in [Pods -> [life : InitLives, subset : Subsets]]
  /\ cache = pod
  /\ cached = [p \in Pods |-> Nil]
  /\ podHashExpectation = [p \in Pods |-> Nil]
  /\ podDeletionExpectation = {}
  /\ conn = [c \in Conns |-> NoConn]
  /\ rpc = [c \in Conns |-> "none"]
  /\ stream = [c \in Conns |-> Closed]
  /\ proxy = [p \in Pods |-> NewProxy]
  /\ queued = TRUE /\ w = Idle
  /\ deleted = {} /\ events = 0 /\ breaks = 0 /\ restarts = 0

PodLife(p) == PodStart(p) \/ PodStop(p) \/ PodRemove(p)

Outside(p) ==
  \/ PodCreate(p) \/ PodReady(p) \/ PodUnready(p) \/ UserDelete(p) \/ ProxyRestart(p)
  \/ \E s \in Subsets : PodRelabel(p, s)

ProxyStep(p) == ProxyLoad(p) \/ \E c \in Conns : Connect(p, c)

StreamStep(c) ==
  \/ ProxyAssign(c) \/ ProxySend(c)
  \/ RegisterCheck(c) \/ RegisterStore(c) \/ RegisterTrigger(c)
  \/ RecvStatus(c) \/ StopExpectation(c) \/ StopMark(c)

Next ==
  \/ \E p \in Pods : PodLife(p) \/ Outside(p) \/ PodEvent(p) \/ ProxyStep(p)
  \/ \E c \in Conns : StreamStep(c) \/ StreamBreak(c)
  \/ VAppUpdate
  \/ Reconcile
  \/ ManagerRestart

Spec == Init /\ [][Next]_vars

\* Every goroutine, the informer, the kubelet and the streams go on; nothing is
\* assumed of the user, the workload and of failures.
Fairness ==
  /\ \A p \in Pods : /\ WF_vars(PodLife(p)) /\ WF_vars(PodEvent(p))
                     /\ WF_vars(ProxyLoad(p)) /\ WF_vars(\E c \in Conns : Connect(p, c))
  /\ \A c \in Conns :
       /\ WF_vars(ProxyAssign(c)) /\ WF_vars(ProxySend(c)) /\ WF_vars(RecvStatus(c))
       /\ WF_vars(RegisterCheck(c) \/ RegisterStore(c) \/ RegisterTrigger(c))
       /\ WF_vars(StopExpectation(c) \/ StopMark(c))
  /\ WF_vars(Reconcile)

FairSpec == Spec /\ Fairness

-----------------------------------------------------------------------------
(* Properties *)

Sends(kind) == w.pc = "act" /\ w.kind = kind /\ w'.pc = "sent"

\* The state has its type.
TypeOK ==
  /\ vApp \in 1 .. MaxVersion
  /\ \A p \in Pods :
       /\ pod[p].life \in {"absent", "pending", "running", "ready",
                           "terminating", "stopped", "gone"}
       /\ {pod[p].subset, cache[p].subset} \subseteq Subsets
       /\ cached[p] \in Conns \cup {Nil}
       /\ cached[p] # Nil => conn[cached[p]].pod = p
       /\ proxy[p].cur # Nil => proxy[p].exp # Nil
  /\ \A c \in Conns :
       /\ conn[c].pod \in Pods \cup {Nil}
       /\ rpc[c] \in {"none", "first", "checked", "stored", "waiting", "stopping", "done"}
       /\ rpc[c] = "none" <=> ~Opened(c)
       /\ stream[c].open \/ (stream[c].down = <<>> /\ stream[c].up = <<>>)
  /\ podDeletionExpectation \subseteq Pods
  /\ w.pc \in {"idle", "collect", "hash", "act", "sent"}

DeletesLeader == w.kind = "delete" /\ \E p \in Leaders : p \in deleted' \ deleted

\* Reconcile goes on from its deletions only when the pods it deleted have
\* stopped: no spec is sent while a container of a deleted pod runs, and the
\* leader is deleted only when none of a deleted non-leader does.  The deletion
\* expectation bridges the time until the cache shows the pod as inactive, and
\* then its running containers hold everything up.
DeletedStopFirst ==
  [][ /\ Sends("update") \/ Sends("dispatch") =>
           \A p \in deleted : ~HasRunningContainers(pod[p])
      /\ DeletesLeader =>
           \A p \in deleted \ Leaders : ~HasRunningContainers(pod[p]) ]_vars

\* A hash that Reconcile waits for will come: the spec is on its way to the
\* proxy, or it is the one the proxy expects and reports, or the stream is
\* broken and RegisterV1 is about to drop the expectation.
ExpectationMet ==
  \A p \in Pods : podHashExpectation[p] # Nil =>
    LET c == cached[p]
    IN  \/ ~stream[c].open
        \/ \E i \in DOMAIN stream[c].down : stream[c].down[i].hash = podHashExpectation[p]
        \/ proxy[p].exp # Nil /\ proxy[p].exp.hash = podHashExpectation[p]

\* A proxy never goes back to older rules, though specs are sent by different
\* reconciles on different streams, as long as it keeps a spec at all.
RulesNeverGoBack ==
  [][ \A p \in Pods :
        proxy[p].cur # Nil /\ proxy'[p].cur # Nil =>
          proxy'[p].cur.hash.route >= proxy[p].cur.hash.route ]_vars

\* A connection Reconcile finds in the cache does not stay there as a connected
\* one after its stream broke.
BrokenIsNoticed ==
  \A c \in Conns :
    (\E p \in Pods : cached[p] = c /\ ~stream[c].open)
      ~> (conn[c].disconnected \/ \A p \in Pods : cached[p] # c)

\* The manager comes to rest: no two reconciles go on undoing each other.
EventuallyQuiet == <>[](w.pc # "sent")

\* README.md:19: "The `ctrlmesh-manager` dispatches rules to the proxies".  Once
\* nothing changes any more, every pod that runs has the rules of the VirtualApp
\* and the subset of its labels.
Distributed ==
  \A p \in Pods : pod[p].life \in {"running", "ready"} =>
    /\ proxy[p].cur # Nil
    /\ proxy[p].cur.hash.route = vApp
    /\ proxy[p].cur.subset = pod[p].subset

EventuallyDistributed == <>[]Distributed

=============================================================================
