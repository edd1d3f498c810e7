----------------------------- MODULE ManagerState -----------------------------
(***************************************************************************)
(* How the proxies find the leader of the managers.  A manager that has    *)
(* the lease starts its gRPC server (grpcregistry) and, once its webhook   *)
(* is ready (main.go), its controllers; the ManagerState reconciler        *)
(* (controllers/managerstate) publishes the managers' endpoints, with      *)
(* itself as the leader.  A proxy looks the leader up in the ManagerState, *)
(* dials it and starts again three seconds after the stream has ended      *)
(* (connect, proxy/protomanager/proto_manager_grpc.go).                    *)
(*                                                                         *)
(* The lease is Kubernetes': a manager that loses it exits, and no other   *)
(* gets it before.  An update that a manager has sent may arrive at the    *)
(* API server after the manager has exited.                                *)
(***************************************************************************)
EXTENDS Integers, FiniteSets

CONSTANTS Managers, Proxies, Nobody,
          MaxExits    \* exits of managers

VARIABLES holder,   \* who has the lease
          leading,  \* that process still runs
          term,     \* number of the last lease
          exits,
          active,   \* the pods of managers that are active
          ending,   \* the pods that are being deleted and still run
          ready,    \* WaitReady has returned, the controllers are set up
          serving,  \* the gRPC server for the leader is started
          state,    \* the ManagerState: [rv, term, leader, endpoints], rv 0 when
                    \* there is none; term is that of its last writer
          cache,    \* the leader's cache of it
          podCache, \* the leader's cache of the active pods
          keyed,    \* the leader's work queue has the key
          call,     \* the call that Reconcile is about to make
          late,     \* updates of managers that have exited
          lister,   \* a proxy's cache of the ManagerState
          conn      \* the manager a proxy has a stream to

leaseVars == <<holder, leading, term, exits, active, ending>>
leaderVars == <<cache, podCache, keyed, call>>
proxyVars == <<lister, conn>>
stateVars == <<leaseVars, ready, serving, state, leaderVars, late, proxyVars>>

NoState == [rv |-> 0, term |-> 0, leader |-> Nobody, endpoints |-> {}]
NoCall == [verb |-> "none", status |-> NoState]

StateInit ==
  /\ holder = Nobody
  /\ leading = FALSE
  /\ term = 0
  /\ exits = 0
  /\ active = Managers
  /\ ending = {}
  /\ ready = {}
  /\ serving = FALSE
  /\ state = NoState
  /\ cache = NoState
  /\ podCache = {}
  /\ keyed = FALSE
  /\ call = NoCall
  /\ late = {}
  /\ lister = [p \in Proxies |-> NoState]
  /\ conn = [p \in Proxies |-> Nobody]

(***************************************************************************)
(* The managers                                                            *)
(***************************************************************************)

\* The lease is free.  The leader's controllers fill the caches and get an
\* event for every object, when they start.
Lead(m) ==
  /\ holder = Nobody
  /\ m \in active
  /\ holder' = m
  /\ leading' = TRUE
  /\ term' = term + 1
  /\ cache' = state
  /\ podCache' = active
  /\ keyed' = TRUE
  /\ call' = NoCall
  /\ UNCHANGED <<exits, active, ending, ready, serving, state, late, proxyVars>>

\* main: WaitReady returns, and the controllers are added to the manager.
WaitReady(m) ==
  /\ m \in active \ ready
  /\ ready' = ready \cup {m}
  /\ UNCHANGED <<leaseVars, serving, state, leaderVars, late, proxyVars>>

\* Start of the registry that needs leader election.
StartRegistry ==
  /\ leading
  /\ ~serving
  /\ serving' = TRUE
  /\ UNCHANGED <<leaseVars, ready, state, leaderVars, late, proxyVars>>

\* The pod of a manager is deleted; the process has time to end.
DeletePod(m) ==
  /\ exits < MaxExits
  /\ m \in active
  /\ active # {m}
  /\ active' = active \ {m}
  /\ ending' = ending \cup {m}
  /\ exits' = exits + 1
  /\ UNCHANGED <<holder, leading, term, ready, serving, state, leaderVars, late,
                 proxyVars>>

\* A manager exits: with its pod, or to start again because it has lost the
\* lease or for another reason.  The streams to it end.
Exit(m) ==
  /\ \/ /\ m \in ending
        /\ ending' = ending \ {m}
        /\ UNCHANGED exits
     \/ /\ m \in active
        /\ exits < MaxExits
        /\ exits' = exits + 1
        /\ UNCHANGED ending
  /\ ready' = ready \ {m}
  /\ IF leading /\ holder = m
     THEN /\ leading' = FALSE
          /\ serving' = FALSE
          /\ late' = late \cup ({call} \ {NoCall})
          /\ call' = NoCall
          /\ conn' = [p \in Proxies |-> Nobody]
     ELSE UNCHANGED <<leading, serving, late, call, conn>>
  /\ UNCHANGED <<holder, term, active, state, cache, podCache, keyed, lister>>

LeaseExpires ==
  /\ holder # Nobody
  /\ ~leading
  /\ holder' = Nobody
  /\ UNCHANGED <<leading, term, exits, active, ending, ready, serving, state,
                 leaderVars, late, proxyVars>>

(***************************************************************************)
(* The ManagerState reconciler of the leader                               *)
(***************************************************************************)
newStatus == [rv |-> cache.rv, term |-> term, leader |-> holder,
              endpoints |-> podCache]

\* What differs in the status: its Namespace and Ports are constant.
SameStatus(s, t) == s.leader = t.leader /\ s.endpoints = t.endpoints

\* Reconcile, up to the call it makes: an error without the leader's own pod,
\* otherwise a create, an update or nothing.
Reconcile ==
  /\ leading
  /\ holder \in ready
  /\ keyed
  /\ call = NoCall
  /\ IF holder \notin podCache
     THEN UNCHANGED <<keyed, call>>
     ELSE /\ keyed' = FALSE
          /\ call' = IF cache.rv = 0
                     THEN [verb |-> "create", status |-> newStatus]
                     ELSE IF SameStatus(cache, newStatus) THEN NoCall
                     ELSE [verb |-> "update", status |-> newStatus]
  /\ UNCHANGED <<leaseVars, ready, serving, state, cache, podCache, late,
                 proxyVars>>

\* As Accepted, but an update is of whatever version there is.
AcceptedAnyVersion(c) == IF c.verb = "create" THEN state.rv = 0
               ELSE state.rv # 0

\* What the API server makes of a call.  The status is a subresource: a create
\* does not set it.
Accepted(c) == IF c.verb = "create" THEN state.rv = 0
               ELSE state.rv = c.status.rv

Apply(c) ==
  state' = IF ~Accepted(c) THEN state
           ELSE IF c.verb = "create"
           THEN [NoState EXCEPT !.rv = 1, !.term = c.status.term]
           ELSE [c.status EXCEPT !.rv = @ + 1]

\* Reconcile makes its call.  An object that exists is no error for a create;
\* a conflict is one, and the key comes back.
CallReturns ==
  /\ leading
  /\ call # NoCall
  /\ Apply(call)
  /\ keyed' = (keyed \/ (call.verb = "update" /\ ~Accepted(call)))
  /\ call' = NoCall
  /\ UNCHANGED <<leaseVars, ready, serving, cache, podCache, late, proxyVars>>

LateCall ==
  /\ \E c \in late : /\ Apply(c)
                     /\ late' = late \ {c}
  /\ UNCHANGED <<leaseVars, ready, serving, leaderVars, proxyVars>>

\* As StateEvent, but the controller does not watch ManagerStates.
StateEventUnkeyed ==
  /\ leading
  /\ cache # state
  /\ cache' = state
  /\ UNCHANGED keyed
  /\ UNCHANGED <<leaseVars, ready, serving, state, podCache, call, late,
                 proxyVars>>

\* The informers of the controller: For(ManagerState), Watches(Pod).
StateEvent ==
  /\ leading
  /\ cache # state
  /\ cache' = state
  /\ keyed' = TRUE
  /\ UNCHANGED <<leaseVars, ready, serving, state, podCache, call, late,
                 proxyVars>>

PodEvent ==
  /\ leading
  /\ podCache # active
  /\ podCache' = active
  /\ keyed' = TRUE
  /\ UNCHANGED <<leaseVars, ready, serving, state, cache, call, late, proxyVars>>

(***************************************************************************)
(* The proxies                                                             *)
(***************************************************************************)
ListerEvent(p) ==
  /\ lister[p] # state
  /\ lister' = [lister EXCEPT ![p] = state]
  /\ UNCHANGED <<leaseVars, ready, serving, state, leaderVars, late, conn>>

\* As LeaderIn, but any endpoint will do.
LeaderInFirst(s) == CHOOSE m \in s.endpoints \cup {Nobody} :
                      s.endpoints # {} => m # Nobody

\* The endpoint that is marked as the leader.
LeaderIn(s) == s.leader

\* connect gets a stream only if the manager it finds serves.
connect(p) ==
  /\ conn[p] = Nobody
  /\ lister[p].rv # 0
  /\ LeaderIn(lister[p]) # Nobody
  /\ serving
  /\ holder = LeaderIn(lister[p])
  /\ conn' = [conn EXCEPT ![p] = holder]
  /\ UNCHANGED <<leaseVars, ready, serving, state, leaderVars, late, lister>>

LeaderStep == \/ StartRegistry \/ LeaseExpires \/ Reconcile \/ CallReturns
              \/ StateEvent \/ PodEvent

StateNext ==
  \/ LeaderStep \/ LateCall
  \/ \E m \in Managers : \/ Lead(m) \/ WaitReady(m)
                        \/ DeletePod(m) \/ Exit(m)
  \/ \E p \in Proxies : ListerEvent(p) \/ connect(p)

StateSpec == StateInit /\ [][StateNext]_stateVars

\* Running processes go on, deleted pods end, events arrive, and somebody takes
\* a free lease.
StateFairSpec ==
  /\ StateSpec
  /\ WF_stateVars(StartRegistry)
  /\ WF_stateVars(LeaseExpires)
  /\ WF_stateVars(Reconcile \/ CallReturns)
  /\ WF_stateVars(StateEvent)
  /\ WF_stateVars(PodEvent)
  /\ WF_stateVars(LateCall)
  /\ WF_stateVars(\E m \in Managers : Lead(m))
  /\ \A m \in Managers : /\ WF_stateVars(WaitReady(m))
                         /\ WF_stateVars(m \in ending /\ Exit(m))
  /\ \A p \in Proxies : WF_stateVars(ListerEvent(p)) /\ WF_stateVars(connect(p))

(***************************************************************************)
(* Properties                                                              *)
(***************************************************************************)

\* Once no manager exits any more, the ManagerState names the leader and the
\* active pods, also when the update of a former leader arrives late and puts
\* that one back (Reconcile, For(ManagerState)).
LeaderPublished ==
  <>[](leading /\ state.leader = holder /\ state.endpoints = active)

\* And then every proxy has a stream to the leader (connect).
ProxiesConnected == <>[](leading /\ \A p \in Proxies : conn[p] = holder)

\* A former leader never replaces what a later one has written (the resource
\* version in Status().Update).
NoOlderWriter == [][state'.term >= state.term]_stateVars
===============================================================================
