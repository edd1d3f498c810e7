-------------------- MODULE VirtualAppServerStreamProofs --------------------
(***************************************************************************)
(* The invariant behind the proofs about the distribution of specs (Spec of *)
(* VirtualAppServer), for any pods, streams and versions, and that what    *)
(* happens to pods, proxies and streams preserves it: everything but the   *)
(* steps of Reconcile and the restart of the manager.                      *)
(***************************************************************************)
EXTENDS VirtualAppServer, TLAPS

Lives == {"absent", "pending", "running", "ready", "terminating", "stopped", "gone"}
PodStates == [life : Lives, subset : Subsets]
Proxies == [exp : Specs \cup {Nil}, cur : Specs \cup {Nil},
            prev : Statuses \cup {Nil}, loading : BOOLEAN, init : BOOLEAN]
ConnStates == [pod : Pods \cup {Nil}, status : Statuses \cup {Nil},
               first : BOOLEAN, sent : BOOLEAN, disconnected : BOOLEAN]
StreamStates == [open : BOOLEAN, down : Seq(Specs), up : Seq(Statuses)]
RpcStates == {"none", "first", "checked", "stored", "waiting", "stopping", "done"}
Syncs == [conn : Conns, status : Statuses \cup {Nil}, dispatched : BOOLEAN]
Workers == [pc : {"idle", "collect", "hash", "act", "sent"}, ver : Nat,
            snap : [Pods -> PodStates] \cup {Nil}, todo : SUBSET Pods,
            sync : [Pods -> Syncs \cup {Nil}] \cup {<<>>}, plan : SUBSET Pods,
            kind : {"", "delete", "update", "dispatch"}, err : BOOLEAN]

ClusterType ==
  /\ vApp \in 1 .. MaxVersion
  /\ pod \in [Pods -> PodStates]
  /\ cache \in [Pods -> PodStates]

WireType ==
  /\ conn \in [Conns -> ConnStates]
  /\ rpc \in [Conns -> RpcStates]
  /\ stream \in [Conns -> StreamStates]
  /\ proxy \in [Pods -> Proxies]

MapsType ==
  /\ cached \in [Pods -> Conns \cup {Nil}]
  /\ podHashExpectation \in [Pods -> Hashes \cup {Nil}]
  /\ podDeletionExpectation \subseteq Pods

WorkerType ==
  /\ w \in Workers
  /\ w.pc # "idle" => /\ w.snap \in [Pods -> PodStates]
                      /\ w.sync \in [Pods -> Syncs \cup {Nil}]

\* Every stream belongs to a pod, and a proxy has one that is open at most; the
\* connections in the cache, and those a reconcile has read, are of their pods
\* and past the look-up after which RegisterV1 may forget them.
StreamsInv ==
  /\ \A c \in Conns :
       /\ rpc[c] = "none" <=> conn[c].pod = Nil
       /\ stream[c].open => conn[c].pod # Nil
       /\ ~stream[c].open => stream[c].down = <<>> /\ stream[c].up = <<>>
  /\ \A c, d \in Conns :
       stream[c].open /\ stream[d].open /\ conn[c].pod = conn[d].pod => c = d

Registered(p, c) == conn[c].pod = p /\ rpc[c] \notin {"none", "first"}

ConnsInv ==
  /\ \A p \in Pods : cached[p] # Nil => Registered(p, cached[p])
  /\ w.pc # "idle" =>
       \A p \in Pods : w.sync[p] # Nil => Registered(p, w.sync[p].conn)
  /\ w.pc \in {"act", "sent"} => \A p \in w.plan : w.sync[p] # Nil

\* The newest rules that a reconcile may have sent.
Newest == IF w.pc = "idle" THEN vApp ELSE w.ver

\* What is on its way to a proxy is in order and not older than what the proxy
\* expects, which is not older than what it has loaded.
InOrder(s) ==
  /\ \A i \in DOMAIN s : s[i].hash.route <= Newest
  /\ \A i, j \in DOMAIN s : i < j => s[i].hash.route <= s[j].hash.route

ProxyInOrder(x) ==
  /\ x.exp # Nil => x.exp.hash.route <= Newest
  /\ x.cur # Nil => x.exp # Nil /\ x.cur.hash.route <= x.exp.hash.route
  /\ x.loading => x.exp # Nil

RulesInv ==
  /\ w.pc # "idle" => w.ver <= vApp
  /\ \A p \in Pods : ProxyInOrder(proxy[p])
  /\ \A c \in Conns :
       /\ InOrder(stream[c].down)
       /\ conn[c].pod \in Pods /\ proxy[conn[c].pod].exp # Nil =>
            \A i \in DOMAIN stream[c].down :
              proxy[conn[c].pod].exp.hash.route <= stream[c].down[i].hash.route

\* The inductive invariant for RulesNeverGoBack.
DistInv == /\ ClusterType /\ WireType /\ MapsType /\ WorkerType
           /\ StreamsInv /\ ConnsInv /\ RulesInv

\* A sequence of a set stays one when an element of the set is appended.
LEMMA Appended ==
  ASSUME NEW S, NEW s \in Seq(S), NEW e \in S
  PROVE  /\ Append(s, e) \in Seq(S)
         /\ Len(s) \in Nat /\ DOMAIN s = 1 .. Len(s)
         /\ DOMAIN Append(s, e) = 1 .. (Len(s) + 1)
         /\ \A i \in 1 .. (Len(s) + 1) :
              Append(s, e)[i] = IF i = Len(s) + 1 THEN e ELSE s[i]
  OBVIOUS

\* And when its first element is taken.
LEMMA Taken ==
  ASSUME NEW S, NEW s \in Seq(S), s # <<>>
  PROVE  Head(s) \in S /\ Tail(s) \in Seq(S)
  OBVIOUS

\* Nothing on its way is in order.
LEMMA EmptyInOrder == InOrder(<<>>) /\ DOMAIN <<>> = {}
  BY DEF InOrder

\* The specs of a stream have a version.
LEMMA SpecOf ==
  ASSUME NEW s \in Seq(Specs), NEW i \in DOMAIN s
  PROVE  s[i] \in Specs /\ s[i].hash.route \in Nat
<1>1. s[i] \in Specs
  OBVIOUS
<1> QED
  BY <1>1 DEF Specs, Hashes

\* The initial states satisfy it.
LEMMA DistStart == Init => DistInv
<1> SUFFICES ASSUME Init PROVE DistInv
  OBVIOUS
<1>1. ClusterType
  <2>1. [life : InitLives, subset : Subsets] \subseteq PodStates
    BY InitAssumption, Zenon DEF PodStates, Lives
  <2>2. pod \in [Pods -> PodStates] /\ cache = pod /\ vApp = 1
    BY <2>1 DEF Init
  <2> QED
    BY <2>2, VersionAssumption DEF ClusterType
<1>2. WireType
  BY DEF Init, WireType, NoConn, Closed, NewProxy, ConnStates, RpcStates,
         StreamStates, Proxies
<1>3. MapsType
  BY DEF Init, MapsType
<1>4. WorkerType
  BY Zenon DEF Init, WorkerType, Idle, Workers
<1>5. StreamsInv /\ ConnsInv
  BY Zenon DEF Init, StreamsInv, ConnsInv, NoConn, Closed, Idle
<1>6. RulesInv
  <2>1. w.pc = "idle"
    BY Zenon DEF Init, Idle
  <2>2. \A p \in Pods : ProxyInOrder(proxy[p])
    BY DEF Init, NewProxy, ProxyInOrder
  <2>3. \A c \in Conns : stream[c].down = <<>>
    BY DEF Init, Closed
  <2> QED
    BY <2>1, <2>2, <2>3, EmptyInOrder DEF RulesInv
<1> QED
  BY <1>1, <1>2, <1>3, <1>4, <1>5, <1>6 DEF DistInv

\* A step that leaves streams and proxies alone while the newest rules do not
\* get older.
LEMMA RulesKeep ==
  ASSUME DistInv, UNCHANGED wire, ClusterType', WorkerType', Newest <= Newest',
         w'.pc # "idle" => w'.ver <= vApp'
  PROVE  WireType' /\ StreamsInv' /\ RulesInv'
<1>1. UNCHANGED <<conn, rpc, stream, proxy>>
  BY DEF wire
<1>2. WireType' /\ StreamsInv'
  BY <1>1 DEF DistInv, WireType, StreamsInv
<1>3. Newest \in Nat /\ Newest' \in Nat
  <2>1. w.ver \in Nat /\ w'.ver \in Nat
    BY Zenon DEF DistInv, WorkerType, Workers
  <2>2. vApp \in Nat /\ vApp' \in Nat
    BY VersionAssumption DEF DistInv, ClusterType
  <2> QED
    BY <2>1, <2>2 DEF Newest
<1>4. ASSUME NEW p \in Pods PROVE ProxyInOrder(proxy[p])'
  <2>1. proxy'[p] = proxy[p] /\ ProxyInOrder(proxy[p])
    BY <1>1 DEF DistInv, RulesInv
  <2>2. proxy[p].exp # Nil => proxy[p].exp.hash.route \in Nat
    BY DEF DistInv, WireType, Proxies, Specs, Hashes
  <2> QED
    BY <1>3, <2>1, <2>2 DEF ProxyInOrder
<1>5. ASSUME NEW c \in Conns PROVE InOrder(stream[c].down)'
  <2>1. stream[c].down \in Seq(Specs) /\ stream'[c].down = stream[c].down
    BY <1>1 DEF DistInv, WireType, StreamStates
  <2>2. \A i \in DOMAIN stream[c].down : stream[c].down[i].hash.route \in Nat
    BY <2>1, SpecOf
  <2> QED
    BY <1>3, <2>1, <2>2 DEF DistInv, RulesInv, InOrder
<1> QED
  BY <1>1, <1>2, <1>4, <1>5 DEF DistInv, RulesInv

\* A step that touches neither streams nor proxies nor the worker.
LEMMA ClusterKeeps ==
  ASSUME DistInv, ClusterType', MapsType', UNCHANGED <<wire, w, cached>>,
         vApp <= vApp'
  PROVE  DistInv'
<1>1. w.ver \in Nat /\ WorkerType'
  BY Zenon DEF DistInv, WorkerType, Workers
<1>2. vApp \in Nat /\ vApp' \in Nat
  BY VersionAssumption DEF DistInv, ClusterType
<1>3. Newest <= Newest' /\ (w'.pc # "idle" => w'.ver <= vApp')
  BY <1>1, <1>2 DEF Newest, DistInv, RulesInv
<1>4. ConnsInv'
  BY DEF DistInv, ConnsInv, Registered, wire
<1> QED
  BY <1>1, <1>3, <1>4, RulesKeep DEF DistInv

\* What happens to the pods, and the events of the manager.
LEMMA PodsKeep ==
  ASSUME DistInv, NEW p \in Pods,
         \/ PodCreate(p) \/ PodStart(p) \/ PodRemove(p) \/ PodReady(p)
         \/ PodUnready(p) \/ UserDelete(p) \/ PodEvent(p)
         \/ \E s \in Subsets : PodRelabel(p, s)
  PROVE  DistInv'
<1>1. UNCHANGED <<wire, w, cached, vApp>>
  BY DEF PodCreate, PodStart, PodRemove, PodReady, PodUnready, UserDelete,
         PodEvent, PodRelabel, maps
<1>2. pod' \in [Pods -> PodStates]
  BY DEF DistInv, ClusterType, PodCreate, PodStart, PodRemove, PodReady,
         PodUnready, UserDelete, PodEvent, PodRelabel, Live, PodStates, Lives
<1>3. cache' \in [Pods -> PodStates]
  BY DEF DistInv, ClusterType, PodCreate, PodStart, PodRemove, PodReady,
         PodUnready, UserDelete, PodEvent, PodRelabel
<1>4. MapsType'
  BY DEF DistInv, MapsType, PodCreate, PodStart, PodRemove, PodReady,
         PodUnready, UserDelete, PodEvent, PodRelabel, maps
<1>5. ClusterType' /\ vApp <= vApp'
  BY <1>1, <1>2, <1>3 DEF DistInv, ClusterType
<1> QED
  BY <1>1, <1>4, <1>5, ClusterKeeps

\* The user changes the rules.
LEMMA VAppKeeps == DistInv /\ VAppUpdate => DistInv'
<1> SUFFICES ASSUME DistInv, VAppUpdate PROVE DistInv'
  OBVIOUS
<1>1. UNCHANGED <<wire, w, cached, pod, cache>> /\ MapsType'
  BY DEF VAppUpdate, DistInv, MapsType, maps
<1>2. ClusterType' /\ vApp <= vApp'
  BY <1>1, VersionAssumption DEF DistInv, ClusterType, VAppUpdate
<1> QED
  BY <1>1, <1>2, ClusterKeeps

\* What is loaded is not older than what was loaded before.
LEMMA LoadsNewer ==
  ASSUME NEW x \in Proxies, x.exp # Nil, ProxyInOrder(x), NEW cur \in Loads(x)
  PROVE  /\ cur \in Specs
         /\ cur.hash.route <= x.exp.hash.route
         /\ x.cur # Nil => x.cur.hash.route <= cur.hash.route
<1>1. x.exp \in Specs /\ x.exp.hash.route \in Nat
  BY DEF Proxies, Specs, Hashes
<1>2. x.cur # Nil => x.cur \in Specs /\ x.cur.hash.route \in Nat
  BY DEF Proxies, Specs, Hashes
<1>3. cur = x.exp \/ (x.cur # Nil /\ cur = x.cur)
  BY DEF Loads
<1> QED
  BY <1>1, <1>2, <1>3 DEF ProxyInOrder

\* Streams are closed, and proxies without any other stream change.
LEMMA CloseKeeps ==
  ASSUME DistInv, ClusterType', UNCHANGED <<vApp, maps, conn, rpc, w>>,
         proxy' \in [Pods -> Proxies],
         NEW gone,
         stream' = [c \in Conns |-> IF c \in gone THEN Closed ELSE stream[c]],
         \A p \in Pods : proxy'[p] = proxy[p]
                         \/ \A c \in Conns : conn[c].pod = p => c \in gone,
         \A p \in Pods : ProxyInOrder(proxy'[p])
  PROVE  DistInv'
<1>1. stream' \in [Conns -> StreamStates]
  <2>1. Closed \in StreamStates
    BY DEF Closed, StreamStates
  <2> QED
    BY <2>1 DEF DistInv, WireType
<1>2. WireType' /\ MapsType' /\ WorkerType'
  BY <1>1 DEF DistInv, WireType, MapsType, WorkerType, maps
<1>3. \A c \in Conns : stream'[c] = stream[c] \/ stream'[c] = Closed
  OBVIOUS
<1>4. StreamsInv'
  BY <1>3 DEF DistInv, StreamsInv, Closed
<1>5. ConnsInv'
  BY DEF DistInv, ConnsInv, Registered, maps
<1>6. Newest' = Newest
  BY SMTT(20) DEF Newest
<1>7. RulesInv'
  <2>1. \A p \in Pods : ProxyInOrder(proxy[p])'
    BY <1>6, SMTT(20) DEF ProxyInOrder
  <2>2. \A c \in Conns : InOrder(stream[c].down)'
    BY <1>3, <1>6, EmptyInOrder, SMTT(20) DEF DistInv, RulesInv, InOrder, Closed
  <2>3. ASSUME NEW c \in Conns, conn[c].pod \in Pods, proxy'[conn[c].pod].exp # Nil,
               NEW i \in DOMAIN stream'[c].down
        PROVE  proxy'[conn[c].pod].exp.hash.route <= stream'[c].down[i].hash.route
    <3>1. stream'[c] # Closed
      BY <2>3, EmptyInOrder DEF Closed
    <3>2. stream'[c] = stream[c] /\ proxy'[conn[c].pod] = proxy[conn[c].pod]
      BY <2>3, <3>1
    <3> QED
      BY <2>3, <3>2 DEF DistInv, RulesInv
  <2> QED
    BY <2>1, <2>2, <2>3 DEF DistInv, RulesInv
<1> QED
  BY <1>2, <1>4, <1>5, <1>7 DEF DistInv

\* A new proxy process.
LEMMA NewProxyType == NewProxy \in Proxies /\ ProxyInOrder(NewProxy)
  BY DEF NewProxy, Proxies, ProxyInOrder

\* Streams that break, with their proxy or alone.
LEMMA BreaksKeep ==
  ASSUME DistInv
  PROVE  /\ \A p \in Pods : PodStop(p) \/ ProxyRestart(p) => DistInv'
         /\ \A c \in Conns : StreamBreak(c) => DistInv'
<1>1. ASSUME NEW p \in Pods, PodStop(p) \/ ProxyRestart(p) PROVE DistInv'
  <2> DEFINE gone == {c \in Conns : conn[c].pod = p}
  <2>1. ClusterType' /\ UNCHANGED <<vApp, maps, conn, rpc, w>>
    <3>1. pod' \in [Pods -> PodStates]
      BY <1>1, Zenon DEF PodStop, ProxyRestart, Live, DistInv, ClusterType, PodStates,
                  Lives, cluster
    <3> QED
      BY <1>1, <3>1, Zenon DEF PodStop, ProxyRestart, DistInv, ClusterType, cluster
  <2>2. stream' = [c \in Conns |-> IF c \in gone THEN Closed ELSE stream[c]]
    BY <1>1, Zenon DEF PodStop, ProxyRestart, Broken
  <2>3. PICK x : proxy' = [proxy EXCEPT ![p] = x] /\ x \in Proxies /\ ProxyInOrder(x)
    <3>1. CASE proxy' = [proxy EXCEPT ![p] = NewProxy]
      BY <3>1, NewProxyType, Zenon
    <3>2. CASE proxy' # [proxy EXCEPT ![p] = NewProxy]
      <4>1. PICK cur \in Loads(proxy[p]) :
              proxy' = [proxy EXCEPT ![p].cur = cur, ![p].loading = FALSE,
                                     ![p].init = FALSE]
        BY <1>1, <3>2, Zenon DEF PodStop, ProxyRestart
      <4>2. proxy[p].exp # Nil /\ proxy[p] \in Proxies /\ ProxyInOrder(proxy[p])
        BY <1>1, <3>2, Zenon DEF PodStop, ProxyRestart, DistInv, WireType, RulesInv
      <4>3. cur \in Specs /\ cur.hash.route <= proxy[p].exp.hash.route
        BY <4>2, LoadsNewer
      <4> DEFINE x == [proxy[p] EXCEPT !.cur = cur, !.loading = FALSE, !.init = FALSE]
      <4>4. x \in Proxies /\ ProxyInOrder(x)
        BY <4>2, <4>3, Zenon DEF Proxies, ProxyInOrder
      <4> QED
        BY <4>1, <4>4, Zenon
    <3> QED
      BY <3>1, <3>2
  <2>4. proxy' \in [Pods -> Proxies] /\ \A q \in Pods : ProxyInOrder(proxy'[q])
    BY <2>3 DEF DistInv, WireType, RulesInv
  <2>5. \A q \in Pods : proxy'[q] = proxy[q]
                        \/ \A c \in Conns : conn[c].pod = q => c \in gone
    BY <2>3 DEF DistInv, WireType
  <2> QED
    BY <2>1, <2>2, <2>4, <2>5, CloseKeeps, Zenon
<1>2. ASSUME NEW c \in Conns, StreamBreak(c) PROVE DistInv'
  <2>1. ClusterType' /\ UNCHANGED <<vApp, maps, conn, rpc, w, proxy>>
    BY <1>2 DEF StreamBreak, DistInv, ClusterType, cluster
  <2>2. stream' = [d \in Conns |-> IF d \in {c} THEN Closed ELSE stream[d]]
    BY <1>2, Zenon DEF StreamBreak, DistInv, WireType
  <2>3. /\ proxy' \in [Pods -> Proxies]
        /\ \A q \in Pods : proxy'[q] = proxy[q] /\ ProxyInOrder(proxy'[q])
    BY <2>1 DEF DistInv, WireType, RulesInv
  <2> QED
    BY <2>1, <2>2, <2>3, CloseKeeps, Zenon
<1> QED
  BY <1>1, <1>2

\* What a proxy reports is a status.
LEMMA StatusType ==
  ASSUME DistInv, NEW p \in Pods
  PROVE  GetStatus(p) \in Statuses \cup {Nil}
<1>1. proxy[p] \in Proxies /\ (proxy[p].cur # Nil => proxy[p].exp # Nil)
  BY DEF DistInv, WireType, RulesInv, ProxyInOrder
<1>2. CASE proxy[p].cur # Nil
  <2>1. proxy[p].cur \in Specs /\ proxy[p].exp \in Specs
    BY <1>1, <1>2 DEF Proxies
  <2> QED
    BY <1>2, <2>1 DEF GetStatus, Statuses, Specs
<1> QED
  BY <1>2 DEF GetStatus

\* The proxy dials on a connection that nobody uses.
LEMMA ConnectKeeps ==
  ASSUME DistInv, NEW p \in Pods, NEW c \in Conns, Connect(p, c)
  PROVE  DistInv'
<1>1. UNCHANGED <<cluster, maps, w, vApp, pod, cache>>
  BY DEF Connect, cluster
<1>2. ClusterType' /\ MapsType' /\ WorkerType'
  BY <1>1 DEF DistInv, ClusterType, MapsType, WorkerType, cluster, maps
<1>3. conn[c] \in ConnStates /\ stream[c] \in StreamStates /\ proxy[p] \in Proxies
  BY DEF DistInv, WireType
<1>4. conn[c].pod = Nil /\ ~stream[c].open /\ rpc[c] = "none"
      /\ stream[c].down = <<>> /\ stream[c].up = <<>>
  BY DEF Connect, Opened, DistInv, StreamsInv
<1>5. PICK k \in ConnStates : conn' = [conn EXCEPT ![c] = k] /\ k.pod = p
  <2> DEFINE k == [conn[c] EXCEPT !.pod = p, !.status = GetStatus(p), !.first = TRUE]
  <2>1. k \in ConnStates /\ k.pod = p
    BY <1>3, StatusType, Zenon DEF ConnStates
  <2> QED
    BY <2>1, Zenon DEF Connect
<1>6. PICK s \in StreamStates : /\ stream' = [stream EXCEPT ![c] = s]
                                /\ s.open /\ s.down = <<>>
  <2> DEFINE s == [stream[c] EXCEPT !.open = TRUE]
  <2>1. s \in StreamStates /\ s.open /\ s.down = <<>>
    BY <1>3, <1>4, Zenon DEF StreamStates
  <2> QED
    BY <2>1, Zenon DEF Connect
<1>7. PICK x \in Proxies : /\ proxy' = [proxy EXCEPT ![p] = x]
                           /\ x.exp = proxy[p].exp /\ x.cur = proxy[p].cur
                           /\ x.loading = proxy[p].loading
  <2> DEFINE x == [proxy[p] EXCEPT !.prev = Nil]
  <2>1. /\ x \in Proxies /\ x.exp = proxy[p].exp /\ x.cur = proxy[p].cur
        /\ x.loading = proxy[p].loading
    BY <1>3 DEF Proxies
  <2> QED
    BY <2>1, Zenon DEF Connect
<1>8. rpc' = [rpc EXCEPT ![c] = "first"]
  BY DEF Connect
<1>9. WireType'
  BY <1>5, <1>6, <1>7, <1>8 DEF DistInv, WireType, RpcStates
<1>10. StreamsInv'
  <2>1. \A d \in Conns : conn[d].pod = p => ~stream[d].open
    BY DEF Connect
  <2>2. \A d \in Conns : d # c => /\ conn'[d] = conn[d] /\ rpc'[d] = rpc[d]
                                  /\ stream'[d] = stream[d]
    BY <1>5, <1>6, <1>8 DEF DistInv, WireType
  <2>3. conn'[c].pod = p /\ rpc'[c] = "first" /\ stream'[c].open
    BY <1>5, <1>6, <1>8 DEF DistInv, WireType
  <2> QED
    BY <2>1, <2>2, <2>3, NilAssumption DEF DistInv, StreamsInv
<1>11. ConnsInv'
  <2>1. ASSUME NEW q \in Pods, NEW d, Registered(q, d), d \in Conns
        PROVE  Registered(q, d)'
    <3>1. d # c
      BY <1>4, <2>1 DEF Registered
    <3> QED
      BY <1>5, <1>8, <2>1, <3>1 DEF Registered, DistInv, WireType
  <2> QED
    BY <1>1, <2>1 DEF DistInv, ConnsInv, MapsType, maps, WorkerType, Syncs
<1>12. RulesInv'
  <2>1. Newest' = Newest
    BY <1>1 DEF Newest
  <2>2. ASSUME NEW q \in Pods
        PROVE /\ ProxyInOrder(proxy[q])'
              /\ proxy'[q].exp = proxy[q].exp
    BY <1>7, <2>1, SMTT(20) DEF DistInv, RulesInv, ProxyInOrder, WireType
  <2>3. ASSUME NEW d \in Conns
        PROVE  /\ InOrder(stream[d].down)'
               /\ conn'[d].pod \in Pods /\ proxy'[conn'[d].pod].exp # Nil =>
                    \A i \in DOMAIN stream'[d].down :
                      proxy'[conn'[d].pod].exp.hash.route
                        <= stream'[d].down[i].hash.route
    <3>1. CASE d = c
      <4>1. stream'[d].down = <<>>
        BY <1>6, <3>1, SMTT(20) DEF DistInv, WireType
      <4> QED
        BY <4>1, EmptyInOrder DEF InOrder
    <3>2. CASE d # c
      <4>1. stream'[d] = stream[d] /\ conn'[d] = conn[d]
        BY <1>5, <1>6, <3>2 DEF DistInv, WireType
      <4> QED
        BY <2>1, <2>2, <4>1 DEF DistInv, RulesInv, InOrder
    <3> QED
      BY <3>1, <3>2
  <2> QED
    BY <1>1, <2>2, <2>3 DEF DistInv, RulesInv
<1> QED
  BY <1>2, <1>9, <1>10, <1>11, <1>12 DEF DistInv

\* A step on which no stream opens, closes or gets another pod.
LEMMA SameStreams ==
  ASSUME DistInv,
         \A c \in Conns :
           /\ conn'[c].pod = conn[c].pod
           /\ rpc'[c] = "none" <=> rpc[c] = "none"
           /\ rpc[c] \notin {"none", "first"} => rpc'[c] \notin {"none", "first"}
           /\ stream'[c].open = stream[c].open
           /\ ~stream[c].open => stream'[c] = stream[c]
  PROVE  /\ StreamsInv'
         /\ \A p \in Pods, c \in Conns : Registered(p, c) => Registered(p, c)'
         /\ UNCHANGED <<cached, w>> => ConnsInv'
<1>1. StreamsInv'
  BY DEF DistInv, StreamsInv
<1>2. \A p \in Pods, c \in Conns : Registered(p, c) => Registered(p, c)'
  BY DEF Registered
<1>3. ASSUME UNCHANGED <<cached, w>> PROVE ConnsInv'
  BY <1>2, <1>3, SMTT(20) DEF DistInv, ConnsInv, MapsType, WorkerType, Syncs
<1> QED
  BY <1>1, <1>2, <1>3

\* A step on which no spec is sent, received or loaded.
LEMMA SameRules ==
  ASSUME DistInv, Newest' = Newest, w'.pc # "idle" => w'.ver <= vApp',
         \A p \in Pods : /\ proxy'[p].exp = proxy[p].exp
                         /\ proxy'[p].cur = proxy[p].cur
                         /\ proxy'[p].loading = proxy[p].loading,
         \A c \in Conns : /\ conn'[c].pod = conn[c].pod
                          /\ stream'[c].down = stream[c].down
  PROVE  RulesInv'
<1>1. \A p \in Pods : ProxyInOrder(proxy[p])'
  BY DEF DistInv, RulesInv, ProxyInOrder
<1>2. \A c \in Conns : InOrder(stream[c].down)'
  BY DEF DistInv, RulesInv, InOrder
<1> QED
  BY <1>1, <1>2, SMTT(20) DEF DistInv, RulesInv

\* The head and the tail of what is in order.
LEMMA TailInOrder ==
  ASSUME NEW s \in Seq(Specs), s # <<>>, InOrder(s)
  PROVE  /\ Head(s) \in Specs /\ Tail(s) \in Seq(Specs) /\ InOrder(Tail(s))
         /\ Head(s).hash.route <= Newest
         /\ \A i \in DOMAIN Tail(s) : Head(s).hash.route <= Tail(s)[i].hash.route
<1>1. Len(s) \in Nat /\ Len(s) > 0 /\ DOMAIN s = 1 .. Len(s) /\ Head(s) = s[1]
  OBVIOUS
<1>2. Tail(s) \in Seq(Specs) /\ DOMAIN Tail(s) = 1 .. (Len(s) - 1)
  BY <1>1
<1>3. \A i \in DOMAIN Tail(s) : Tail(s)[i] = s[i + 1] /\ i + 1 \in DOMAIN s
                                /\ i \in Nat
  BY <1>1, <1>2
<1>4. 1 \in DOMAIN s /\ s[1] \in Specs
  BY <1>1
<1>5. InOrder(Tail(s))
  BY <1>3 DEF InOrder
<1>6. \A i \in DOMAIN Tail(s) : Head(s).hash.route <= Tail(s)[i].hash.route
  <2> SUFFICES ASSUME NEW i \in DOMAIN Tail(s)
               PROVE  Head(s).hash.route <= Tail(s)[i].hash.route
    OBVIOUS
  <2>1. i + 1 \in DOMAIN s /\ 1 < i + 1
    BY <1>2, <1>3
  <2> QED
    BY <1>1, <1>3, <1>4, <2>1 DEF InOrder
<1> QED
  BY <1>1, <1>2, <1>4, <1>5, <1>6 DEF InOrder

\* The proxy takes the next spec of its stream.
LEMMA AssignKeeps ==
  ASSUME DistInv, NEW c \in Conns, ProxyAssign(c)
  PROVE  DistInv'
<1> DEFINE p == conn[c].pod
<1>1. UNCHANGED <<cluster, maps, w, vApp, pod, cache, cached, conn, rpc>>
  BY DEF ProxyAssign, cluster, maps
<1>2. ClusterType' /\ MapsType' /\ WorkerType'
  BY <1>1 DEF DistInv, ClusterType, MapsType, WorkerType, cluster, maps
<1>3. p \in Pods /\ stream[c].open /\ stream[c].down # <<>>
  BY DEF ProxyAssign, DistInv, StreamsInv, WireType, ConnStates
<1>4. stream[c] \in StreamStates /\ proxy[p] \in Proxies /\ stream[c].down \in Seq(Specs)
  BY <1>3 DEF DistInv, WireType, StreamStates
<1>5. PICK h : h = Head(stream[c].down)
  OBVIOUS
<1>6. PICK t : t = Tail(stream[c].down)
  BY Zenon
<1>7. /\ h \in Specs /\ t \in Seq(Specs) /\ InOrder(t) /\ h.hash.route <= Newest
      /\ \A i \in DOMAIN t : h.hash.route <= t[i].hash.route
  <2>1. InOrder(stream[c].down)
    BY DEF DistInv, RulesInv
  <2> QED
    BY <1>3, <1>4, <1>5, <1>6, <2>1, TailInOrder
<1>8. PICK x \in Proxies : /\ proxy' = [proxy EXCEPT ![p] = x]
                           /\ x.exp = h /\ x.cur = proxy[p].cur /\ x.loading
  <2> DEFINE x == [proxy[p] EXCEPT !.exp = h, !.loading = TRUE]
  <2>1. x \in Proxies /\ x.exp = h /\ x.cur = proxy[p].cur /\ x.loading
    BY <1>4, <1>7, Zenon DEF Proxies
  <2> QED
    BY <1>5, <2>1, Zenon DEF ProxyAssign
<1>9. PICK s \in StreamStates : /\ stream' = [stream EXCEPT ![c] = s]
                                /\ s.open /\ s.down = t
  <2> DEFINE s == [stream[c] EXCEPT !.down = t]
  <2>1. s \in StreamStates /\ s.open /\ s.down = t
    BY <1>3, <1>4, <1>7 DEF StreamStates
  <2> QED
    BY <1>6, <2>1, Zenon DEF ProxyAssign
<1>10. WireType'
  BY <1>1, <1>8, <1>9, Zenon DEF DistInv, WireType
<1>11. StreamsInv' /\ ConnsInv'
  <2>1. \A d \in Conns : /\ stream'[d].open = stream[d].open
                         /\ ~stream[d].open => stream'[d] = stream[d]
    BY <1>3, <1>9, SMTT(20) DEF DistInv, WireType, StreamStates
  <2> QED
    BY <1>1, <2>1, SameStreams
<1>12. RulesInv'
  <2>1. Newest' = Newest
    BY <1>1 DEF Newest
  <2>2. \A q \in Pods : proxy'[q] = IF q = p THEN x ELSE proxy[q]
    BY <1>8 DEF DistInv, WireType
  <2>3. ASSUME NEW q \in Pods PROVE ProxyInOrder(proxy[q])'
    <3>1. CASE q = p
      <4>1. x.cur # Nil => x.cur.hash.route <= h.hash.route
        <5>1. ASSUME x.cur # Nil
              PROVE  /\ proxy[p].exp # Nil
                     /\ x.cur.hash.route <= proxy[p].exp.hash.route
                     /\ proxy[p].exp.hash.route <= h.hash.route
          <6>1. /\ proxy[p].exp # Nil
                /\ x.cur.hash.route <= proxy[p].exp.hash.route
            BY <1>3, <1>8, <5>1 DEF DistInv, RulesInv, ProxyInOrder
          <6>2. 1 \in DOMAIN stream[c].down /\ h = stream[c].down[1]
            BY <1>3, <1>4, <1>5, SMTT(20)
          <6> QED
            BY <1>3, <6>1, <6>2, SMTT(20) DEF DistInv, RulesInv
        <5>2. ASSUME x.cur # Nil, proxy[p].exp # Nil
              PROVE  /\ x.cur.hash.route \in Nat /\ h.hash.route \in Nat
                     /\ proxy[p].exp.hash.route \in Nat
          BY <1>4, <1>7, <1>8, <5>2 DEF Proxies, Specs, Hashes
        <5> QED
          BY <5>1, <5>2
      <4> QED
        BY <1>7, <1>8, <2>1, <2>2, <3>1, <4>1, NilAssumption, SMTT(20) DEF ProxyInOrder
    <3>2. CASE q # p
      BY <2>1, <2>2, <3>2, SMTT(20) DEF DistInv, RulesInv, ProxyInOrder
    <3> QED
      BY <3>1, <3>2
  <2>4. ASSUME NEW d \in Conns
        PROVE  /\ InOrder(stream[d].down)'
               /\ conn'[d].pod \in Pods /\ proxy'[conn'[d].pod].exp # Nil =>
                    \A i \in DOMAIN stream'[d].down :
                      proxy'[conn'[d].pod].exp.hash.route
                        <= stream'[d].down[i].hash.route
    <3>1. CASE d = c
      <4>1. stream'[d].down = t /\ conn'[d].pod = p
        BY <1>1, <1>9, <3>1 DEF DistInv, WireType
      <4>2. proxy'[p].exp = h
        BY <1>3, <1>8, <2>2
      <4> QED
        BY <1>7, <2>1, <4>1, <4>2 DEF InOrder
    <3>2. CASE d # c /\ conn[d].pod = p
      <4>1. stream'[d].down = <<>>
        BY <1>3, <1>9, <3>2, SMTT(20) DEF DistInv, WireType, StreamsInv
      <4> QED
        BY <4>1, EmptyInOrder DEF InOrder
    <3>3. CASE d # c /\ conn[d].pod # p
      <4>1. stream'[d] = stream[d] /\ conn'[d] = conn[d]
        BY <1>1, <1>9, <3>3 DEF DistInv, WireType
      <4>2. conn[d].pod \in Pods => proxy'[conn[d].pod] = proxy[conn[d].pod]
        BY <2>2, <3>3
      <4> QED
        BY <2>1, <4>1, <4>2 DEF DistInv, RulesInv, InOrder
    <3> QED
      BY <3>1, <3>2, <3>3, SMTT(20)
  <2> QED
    BY <1>1, <2>3, <2>4 DEF DistInv, RulesInv
<1> QED
  BY <1>2, <1>10, <1>11, <1>12 DEF DistInv

\* The proxy loads or refuses what it expects.
LEMMA LoadKeeps ==
  ASSUME DistInv, NEW p \in Pods, ProxyLoad(p)
  PROVE  /\ DistInv'
         /\ proxy[p].cur # Nil => /\ proxy'[p].cur # Nil
                                  /\ proxy[p].cur.hash.route <= proxy'[p].cur.hash.route
         /\ \A q \in Pods \ {p} : proxy'[q] = proxy[q]
<1>1. UNCHANGED <<cluster, maps, w, vApp, pod, cache, cached, conn, rpc, stream>>
  BY SMTT(20) DEF ProxyLoad, cluster, maps
<1>2. ClusterType' /\ MapsType' /\ WorkerType'
  BY <1>1 DEF DistInv, ClusterType, MapsType, WorkerType, cluster, maps
<1>3. proxy[p] \in Proxies /\ proxy[p].exp # Nil /\ ProxyInOrder(proxy[p])
  BY DEF ProxyLoad, DistInv, WireType, RulesInv, ProxyInOrder
<1>4. PICK cur \in Loads(proxy[p]) :
        proxy' = [proxy EXCEPT ![p].cur = cur, ![p].loading = FALSE, ![p].init = TRUE]
  BY Zenon DEF ProxyLoad
<1>5. /\ cur \in Specs /\ cur.hash.route <= proxy[p].exp.hash.route
      /\ proxy[p].cur # Nil => proxy[p].cur.hash.route <= cur.hash.route
  BY <1>3, LoadsNewer
<1>6. PICK x \in Proxies : /\ proxy' = [proxy EXCEPT ![p] = x] /\ x.cur = cur
                           /\ x.exp = proxy[p].exp /\ ProxyInOrder(x)
  <2> DEFINE x == [proxy[p] EXCEPT !.cur = cur, !.loading = FALSE, !.init = TRUE]
  <2>1. x \in Proxies /\ x.cur = cur /\ x.exp = proxy[p].exp /\ ProxyInOrder(x)
    BY <1>3, <1>5, Zenon DEF Proxies, ProxyInOrder
  <2> QED
    BY <1>4, <2>1, Zenon
<1>7. \A q \in Pods : proxy'[q] = IF q = p THEN x ELSE proxy[q]
  BY <1>6 DEF DistInv, WireType
<1>8. WireType'
  BY <1>1, <1>6 DEF DistInv, WireType
<1>9. StreamsInv' /\ ConnsInv'
  BY <1>1, SameStreams, SMTT(20)
<1>10. RulesInv'
  <2>1. Newest' = Newest
    BY <1>1, SMTT(20) DEF Newest
  <2>2. \A q \in Pods : ProxyInOrder(proxy[q])' /\ proxy'[q].exp = proxy[q].exp
    BY <1>6, <1>7, <2>1 DEF DistInv, RulesInv, ProxyInOrder
  <2> QED
    BY <1>1, <2>1, <2>2 DEF DistInv, RulesInv, InOrder
<1> QED
  BY <1>2, <1>5, <1>6, <1>7, <1>8, <1>9, <1>10, NilAssumption DEF DistInv

\* A proxy reports its status.
LEMMA SendStatusKeeps ==
  ASSUME DistInv, NEW c \in Conns, ProxySend(c)
  PROVE  DistInv'
<1> DEFINE p == conn[c].pod
<1>1. UNCHANGED <<cluster, maps, w, vApp, pod, cache, cached, conn, rpc>>
  BY DEF ProxySend, cluster, maps
<1>2. ClusterType' /\ MapsType' /\ WorkerType'
  BY <1>1 DEF DistInv, ClusterType, MapsType, WorkerType, cluster, maps
<1>3. p \in Pods /\ stream[c].open
  BY DEF ProxySend, DistInv, StreamsInv, WireType, ConnStates
<1>4. stream[c] \in StreamStates /\ proxy[p] \in Proxies
  BY <1>3 DEF DistInv, WireType
<1>5. PICK status \in Statuses : status = GetStatus(p)
  BY <1>3, StatusType DEF ProxySend
<1>6. PICK x \in Proxies : /\ proxy' = [proxy EXCEPT ![p] = x]
                           /\ x.exp = proxy[p].exp /\ x.cur = proxy[p].cur
                           /\ x.loading = proxy[p].loading
  <2> DEFINE x == [proxy[p] EXCEPT !.prev = status]
  <2>1. /\ x \in Proxies /\ x.exp = proxy[p].exp /\ x.cur = proxy[p].cur
        /\ x.loading = proxy[p].loading
    BY <1>4 DEF Proxies
  <2> QED
    BY <1>5, <2>1, Zenon DEF ProxySend
<1>7. PICK s \in StreamStates : /\ stream' = [stream EXCEPT ![c] = s]
                                /\ s.open /\ s.down = stream[c].down
  <2> DEFINE s == [stream[c] EXCEPT !.up = Append(stream[c].up, status)]
  <2>0. stream[c].up \in Seq(Statuses)
    BY <1>4 DEF StreamStates
  <2>1. PICK up \in Seq(Statuses) : up = Append(stream[c].up, status)
    BY <2>0, Appended, Zenon
  <2>2. s \in StreamStates /\ s.open /\ s.down = stream[c].down
    BY <1>3, <1>4, <2>1, Zenon DEF StreamStates
  <2> QED
    BY <1>5, <2>2, Zenon DEF ProxySend
<1>8. WireType'
  BY <1>1, <1>6, <1>7, Zenon DEF DistInv, WireType
<1>9. \A d \in Conns : /\ stream'[d].open = stream[d].open
                       /\ ~stream[d].open => stream'[d] = stream[d]
                       /\ stream'[d].down = stream[d].down
  BY <1>3, <1>7 DEF DistInv, WireType, StreamStates
<1>10. StreamsInv' /\ ConnsInv'
  BY <1>1, <1>9, SameStreams
<1>11. \A q \in Pods : /\ proxy'[q].exp = proxy[q].exp
                       /\ proxy'[q].cur = proxy[q].cur
                       /\ proxy'[q].loading = proxy[q].loading
  BY <1>6, SMTT(20) DEF DistInv, WireType
<1>12. RulesInv'
  <2>1. Newest' = Newest
    BY <1>1 DEF Newest
  <2>2. w'.pc # "idle" => w'.ver <= vApp'
    BY <1>1 DEF DistInv, RulesInv
  <2> QED
    BY <1>1, <1>9, <1>11, <2>1, <2>2, SameRules
<1> QED
  BY <1>2, <1>8, <1>10, <1>12 DEF DistInv

\* The first look at a new stream, which may end it.
LEMMA RegisterCheckKeeps ==
  ASSUME DistInv, NEW c \in Conns, RegisterCheck(c)
  PROVE  DistInv'
<1>1. UNCHANGED <<cluster, maps, w, vApp, pod, cache, cached, proxy>>
  BY SMTT(20) DEF RegisterCheck, cluster, maps
<1>2. ClusterType' /\ MapsType' /\ WorkerType'
  BY <1>1 DEF DistInv, ClusterType, MapsType, WorkerType, cluster, maps
<1>3. CASE stream[c].open /\ IsPodActive(cache[conn[c].pod])
  <2>1. UNCHANGED <<conn, stream>> /\ rpc' = [rpc EXCEPT ![c] = "checked"]
        /\ rpc[c] = "first"
    BY <1>3 DEF RegisterCheck
  <2>2. WireType'
    BY <1>1, <2>1 DEF DistInv, WireType, RpcStates
  <2>3. \A d \in Conns : rpc'[d] = IF d = c THEN "checked" ELSE rpc[d]
    BY <2>1, SMTT(20) DEF DistInv, WireType
  <2>4. StreamsInv' /\ ConnsInv'
    BY <1>1, <2>1, <2>3, SameStreams, SMTT(20)
  <2>5. Newest' = Newest /\ (w'.pc # "idle" => w'.ver <= vApp')
    BY <1>1 DEF Newest, DistInv, RulesInv
  <2>6. RulesInv'
    BY <1>1, <2>1, <2>5, SameRules
  <2> QED
    BY <1>2, <2>2, <2>4, <2>6 DEF DistInv
<1>4. CASE ~(stream[c].open /\ IsPodActive(cache[conn[c].pod]))
  <2>1. /\ conn' = [conn EXCEPT ![c] = NoConn]
        /\ rpc' = [rpc EXCEPT ![c] = "none"]
        /\ stream' = [stream EXCEPT ![c] = Closed]
        /\ rpc[c] = "first"
    BY <1>4, SMTT(20) DEF RegisterCheck
  <2>2. NoConn \in ConnStates /\ Closed \in StreamStates /\ NoConn.pod = Nil
    BY DEF NoConn, Closed, ConnStates, StreamStates
  <2>3. WireType'
    BY <1>1, <2>1, <2>2 DEF DistInv, WireType, RpcStates
  <2>4. \A d \in Conns : /\ conn'[d] = IF d = c THEN NoConn ELSE conn[d]
                         /\ rpc'[d] = IF d = c THEN "none" ELSE rpc[d]
                         /\ stream'[d] = IF d = c THEN Closed ELSE stream[d]
    BY <2>1, SMTT(20) DEF DistInv, WireType
  <2>5. StreamsInv'
    BY <2>2, <2>4, SMTT(20) DEF DistInv, StreamsInv, Closed
  <2>6. ConnsInv'
    <3>1. \A q \in Pods, d \in Conns : Registered(q, d) => Registered(q, d)'
      BY <2>1, <2>4, SMTT(20) DEF Registered
    <3> QED
      BY <1>1, <3>1 DEF DistInv, ConnsInv, MapsType, WorkerType, Syncs
  <2>7. RulesInv'
    <3>1. Newest' = Newest
      BY <1>1, SMTT(20) DEF Newest
    <3>2. \A q \in Pods : ProxyInOrder(proxy[q])'
      BY <1>1, <3>1 DEF DistInv, RulesInv, ProxyInOrder
    <3>3. ASSUME NEW d \in Conns PROVE InOrder(stream[d].down)'
      <4>1. CASE d = c
        <5>1. stream'[d].down = <<>>
          BY <2>4, <4>1 DEF Closed
        <5> QED
          BY <5>1, EmptyInOrder DEF InOrder
      <4>2. CASE d # c
        <5>1. stream'[d].down = stream[d].down /\ InOrder(stream[d].down)
          BY <2>4, <4>2 DEF DistInv, RulesInv
        <5> QED
          BY <3>1, <5>1 DEF InOrder
      <4> QED
        BY <4>1, <4>2
    <3> QED
      BY <1>1, <2>2, <2>4, <3>2, <3>3, NilAssumption DEF DistInv, RulesInv
  <2> QED
    BY <1>2, <2>3, <2>5, <2>6, <2>7 DEF DistInv
<1> QED
  BY <1>3, <1>4, SMTT(20)

\* The connection gets into the cache.
LEMMA RegisterStoreKeeps ==
  ASSUME DistInv, NEW c \in Conns, RegisterStore(c)
  PROVE  DistInv'
<1> DEFINE p == conn[c].pod
<1>1. UNCHANGED <<cluster, w, vApp, pod, cache, podHashExpectation,
                  podDeletionExpectation, conn, stream, proxy>>
  BY DEF RegisterStore, cluster
<1>2. p \in Pods /\ rpc[c] = "checked"
  BY SMTT(20) DEF RegisterStore, DistInv, StreamsInv, WireType, ConnStates
<1>3. cached' = [cached EXCEPT ![p] = c] /\ rpc' = [rpc EXCEPT ![c] = "stored"]
  BY DEF RegisterStore
<1>4. ClusterType' /\ MapsType' /\ WorkerType'
  BY <1>1, <1>3, Zenon DEF DistInv, ClusterType, MapsType, WorkerType
<1>5. WireType'
  BY <1>1, <1>3 DEF DistInv, WireType, RpcStates
<1>6. \A d \in Conns : rpc'[d] = IF d = c THEN "stored" ELSE rpc[d]
  BY <1>3 DEF DistInv, WireType
<1>7. StreamsInv' /\ \A q \in Pods, d \in Conns : Registered(q, d) => Registered(q, d)'
  BY <1>1, <1>2, <1>6, SameStreams, SMTT(20)
<1>8. ConnsInv'
  <2>1. Registered(p, c)'
    BY <1>1, <1>6 DEF Registered
  <2>2. \A q \in Pods : cached'[q] = IF q = p THEN c ELSE cached[q]
    BY <1>3 DEF DistInv, MapsType
  <2>3. \A q \in Pods : cached[q] # Nil => cached[q] \in Conns /\ Registered(q, cached[q])
    BY DEF DistInv, MapsType, ConnsInv
  <2>4. ASSUME NEW q \in Pods, cached'[q] # Nil PROVE Registered(q, cached[q])'
    <3>1. CASE q = p
      BY <1>1, <2>1, <2>2, <3>1 DEF Registered
    <3>2. CASE q # p
      <4>1. cached'[q] = cached[q] /\ cached[q] # Nil
        BY <2>2, <2>4, <3>2
      <4>2. PICK d \in Conns : d = cached[q] /\ Registered(q, d)
        BY <2>3, <4>1
      <4> QED
        BY <1>7, <4>1, <4>2 DEF Registered
    <3> QED
      BY <3>1, <3>2
  <2>5. w.pc # "idle" =>
          \A q \in Pods : w.sync[q] # Nil =>
            w.sync[q].conn \in Conns /\ Registered(q, w.sync[q].conn)
    BY DEF DistInv, WorkerType, Syncs, ConnsInv
  <2>6. w'.pc # "idle" => \A q \in Pods : w'.sync[q] # Nil => Registered(q, w.sync[q].conn)'
    BY <1>1, <1>7, <2>5
  <2> QED
    BY <1>1, <2>4, <2>6 DEF DistInv, ConnsInv
<1>9. Newest' = Newest /\ (w'.pc # "idle" => w'.ver <= vApp')
  BY <1>1 DEF Newest, DistInv, RulesInv
<1>10. RulesInv'
  BY <1>1, <1>9, SameRules
<1> QED
  BY <1>4, <1>5, <1>7, <1>8, <1>10 DEF DistInv

\* The other steps of RegisterV1 and of its receiving goroutine.
LEMMA RegisterKeeps ==
  ASSUME DistInv, NEW c \in Conns,
         \/ RegisterTrigger(c) \/ RecvStatus(c) \/ StopExpectation(c) \/ StopMark(c)
  PROVE  DistInv'
<1>1. UNCHANGED <<cluster, w, vApp, pod, cache, cached, podDeletionExpectation, proxy>>
  BY DEF RegisterTrigger, RecvStatus, StopExpectation, StopMark, cluster, maps
<1>2. rpc[c] \notin {"none", "first"} /\ conn[c].pod \in Pods
  BY DEF RegisterTrigger, RecvStatus, StopExpectation, StopMark,
         DistInv, StreamsInv, WireType, ConnStates
<1>3. podHashExpectation' \in [Pods -> Hashes \cup {Nil}]
  BY <1>2, SMTT(20) DEF RegisterTrigger, RecvStatus, StopExpectation, StopMark, maps,
              DistInv, MapsType
<1>4. ClusterType' /\ MapsType' /\ WorkerType'
  BY <1>1, <1>3 DEF DistInv, ClusterType, MapsType, WorkerType
<1>5. PICK r \in RpcStates \ {"none", "first"} : rpc' = [rpc EXCEPT ![c] = r]
  <2>1. rpc = [rpc EXCEPT ![c] = rpc[c]] /\ rpc[c] \in RpcStates
    BY DEF DistInv, WireType
  <2> QED
    BY <1>2, <2>1 DEF RegisterTrigger, RecvStatus, StopExpectation, StopMark, RpcStates
<1>6. PICK k \in ConnStates : conn' = [conn EXCEPT ![c] = k] /\ k.pod = conn[c].pod
  <2>1. conn = [conn EXCEPT ![c] = conn[c]] /\ conn[c] \in ConnStates
    BY DEF DistInv, WireType
  <2>2. CASE RegisterTrigger(c) \/ StopExpectation(c)
    BY <2>1, <2>2 DEF RegisterTrigger, StopExpectation
  <2>3. CASE RecvStatus(c)
    <3>1. stream[c].up \in Seq(Statuses) /\ stream[c].up # <<>>
      BY <2>3, SMTT(20) DEF RecvStatus, DistInv, WireType, StreamStates
    <3>2. PICK status \in Statuses : status = Head(stream[c].up)
      BY <3>1
    <3> DEFINE k == [conn[c] EXCEPT !.status = status, !.first = FALSE]
    <3>3. k \in ConnStates /\ k.pod = conn[c].pod
      BY <2>1, Zenon DEF ConnStates
    <3> QED
      BY <2>3, <3>2, <3>3, Zenon DEF RecvStatus
  <2>4. CASE StopMark(c)
    <3> DEFINE k == [conn[c] EXCEPT !.disconnected = TRUE]
    <3>1. k \in ConnStates /\ k.pod = conn[c].pod
      BY <2>1, Zenon DEF ConnStates
    <3> QED
      BY <2>4, <3>1, Zenon DEF StopMark
  <2> QED
    BY <2>2, <2>3, <2>4
<1>7. PICK s \in StreamStates :
        /\ stream' = [stream EXCEPT ![c] = s] /\ s.open = stream[c].open
        /\ s.down = stream[c].down /\ (~stream[c].open => s = stream[c])
  <2>1. stream = [stream EXCEPT ![c] = stream[c]] /\ stream[c] \in StreamStates
    BY DEF DistInv, WireType
  <2>2. CASE RegisterTrigger(c) \/ StopExpectation(c) \/ StopMark(c)
    BY <2>1, <2>2 DEF RegisterTrigger, StopExpectation, StopMark
  <2>3. CASE RecvStatus(c)
    <3>1. stream[c].up \in Seq(Statuses) /\ stream[c].up # <<>> /\ stream[c].open
      BY <2>3 DEF RecvStatus, DistInv, WireType, StreamStates, StreamsInv
    <3>2. PICK up \in Seq(Statuses) : up = Tail(stream[c].up)
      BY <3>1, Taken, Zenon
    <3> DEFINE s == [stream[c] EXCEPT !.up = up]
    <3>3. s \in StreamStates /\ s.open = stream[c].open /\ s.down = stream[c].down
      BY <2>1, SMTT(20) DEF StreamStates
    <3> QED
      BY <2>3, <3>1, <3>2, <3>3, Zenon DEF RecvStatus
  <2> QED
    BY <2>2, <2>3
<1>8. WireType'
  BY <1>1, <1>5, <1>6, <1>7 DEF DistInv, WireType
<1>9. \A d \in Conns : /\ conn'[d].pod = conn[d].pod
                       /\ rpc'[d] = IF d = c THEN r ELSE rpc[d]
                       /\ stream'[d].open = stream[d].open
                       /\ stream'[d].down = stream[d].down
                       /\ ~stream[d].open => stream'[d] = stream[d]
  BY <1>5, <1>6, <1>7, SMTT(20) DEF DistInv, WireType
<1>10. StreamsInv' /\ ConnsInv'
  <2>1. \A d \in Conns :
          /\ rpc'[d] = "none" <=> rpc[d] = "none"
          /\ rpc[d] \notin {"none", "first"} => rpc'[d] \notin {"none", "first"}
    BY <1>2, <1>5, <1>9, SMTT(20)
  <2> QED
    BY <1>1, <1>9, <2>1, SameStreams, SMTT(20)
<1>11. Newest' = Newest /\ (w'.pc # "idle" => w'.ver <= vApp')
  BY <1>1, SMTT(20) DEF Newest, DistInv, RulesInv
<1>12. RulesInv'
  BY <1>1, <1>9, <1>11, SameRules
<1> QED
  BY <1>4, <1>8, <1>10, <1>12 DEF DistInv
=============================================================================
