-------------------------- MODULE ManagerStateProofs --------------------------
(***************************************************************************)
(* Proof that no former leader of the managers ever replaces what a later  *)
(* one has written into the ManagerState, for every number of managers,    *)
(* proxies and exits, and however late the calls of managers arrive that   *)
(* have exited (StateSpec of ManagerState).                                *)
(***************************************************************************)
EXTENDS ManagerState, TLAPS

Status == [rv : Nat, term : Nat, leader : Managers \cup {Nobody},
           endpoints : SUBSET Managers]
Calls == [verb : {"none", "create", "update"}, status : Status]

StateTypeOK ==
  /\ holder \in Managers \cup {Nobody}
  /\ term \in Nat
  /\ active \subseteq Managers
  /\ podCache \subseteq Managers
  /\ state \in Status
  /\ cache \in Status
  /\ call \in Calls
  /\ late \subseteq Calls

\* A call is for a version that the object has or had, and when it still has
\* that version, nobody with a later lease has written it.
CallInTime(c) ==
  /\ c.status.rv <= state.rv
  /\ c.status.rv = state.rv => state.term <= c.status.term
  /\ c.status.term <= term

\* The inductive invariant.
WritersInv ==
  /\ StateTypeOK
  /\ state.term <= term
  /\ state.rv = 0 => state.term = 0
  /\ cache.rv <= state.rv
  /\ \A c \in late \cup {call} : CallInTime(c)

\* The initial state satisfies the invariant.
LEMMA WritersInit == StateInit => WritersInv
  BY DEF StateInit, WritersInv, StateTypeOK, CallInTime, NoState, NoCall,
         Status, Calls

\* What the API server does with a call that is in time.
LEMMA ApplyInTime ==
  ASSUME WritersInv, NEW c \in Calls, CallInTime(c), Apply(c)
  PROVE  /\ state' \in Status
         /\ state.term <= state'.term
         /\ state'.term <= term
         /\ state'.rv = 0 => state'.term = 0
         /\ state.rv <= state'.rv
         /\ state'.rv = state.rv => state' = state
<1>1. CASE ~Accepted(c)
  BY <1>1 DEF Apply, WritersInv, StateTypeOK, Status
<1>2. CASE Accepted(c) /\ c.verb = "create"
  <2>1. state' = [rv |-> 1, term |-> c.status.term, leader |-> Nobody,
                  endpoints |-> {}]
    BY <1>2 DEF Apply, NoState
  <2>2. state.rv = 0
    BY <1>2 DEF Accepted
  <2> QED
    BY <2>1, <2>2 DEF WritersInv, StateTypeOK, Status, Calls, CallInTime
<1>3. CASE Accepted(c) /\ c.verb # "create"
  <2>1. state' = [c.status EXCEPT !.rv = @ + 1]
    BY <1>3 DEF Apply
  <2>2. state.rv = c.status.rv
    BY <1>3 DEF Accepted
  <2> QED
    BY <2>1, <2>2 DEF WritersInv, StateTypeOK, Status, Calls, CallInTime
<1> QED
  BY <1>1, <1>2, <1>3

\* A call that is in time stays so while the ManagerState gets new versions.
LEMMA StaysInTime ==
  ASSUME WritersInv, NEW c \in Calls, CallInTime(c),
         term' \in Nat, term <= term', state' \in Status,
         state.rv <= state'.rv, state'.rv = state.rv => state' = state
  PROVE  CallInTime(c)'
  BY DEF CallInTime, WritersInv, StateTypeOK, Status, Calls

\* Every step keeps the invariant, and no step puts an older writer back.
LEMMA WritersStep ==
  ASSUME WritersInv, [StateNext]_stateVars
  PROVE  WritersInv' /\ state.term <= state'.term
<1> USE DEF WritersInv, StateTypeOK
<1>1. ASSUME NEW m \in Managers, Lead(m)
      PROVE  WritersInv' /\ state.term <= state'.term
  BY <1>1 DEF Lead, CallInTime, NoCall, NoState, Calls, Status, leaseVars
<1>2. ASSUME NEW m \in Managers, Exit(m)
      PROVE  WritersInv' /\ state.term <= state'.term
  BY <1>2 DEF Exit, CallInTime, NoCall, NoState, Calls, Status
<1>3. ASSUME Reconcile
      PROVE  WritersInv' /\ state.term <= state'.term
  <2>1. newStatus \in Status
    BY <1>3 DEF Reconcile, newStatus, Status
  <2>2. call' \in {NoCall, call, [verb |-> "create", status |-> newStatus],
                   [verb |-> "update", status |-> newStatus]}
    BY <1>3 DEF Reconcile
  <2>3. /\ call' \in Calls
        /\ call'.status \in {newStatus, NoState, call.status}
    BY <2>1, <2>2 DEF NoCall, NoState, Calls, Status
  <2>4. UNCHANGED <<holder, term, active, podCache, state, cache, late>>
    BY <1>3 DEF Reconcile, leaseVars
  <2>5. CallInTime(call)'
    BY <2>3, <2>4 DEF CallInTime, newStatus, NoState, Calls, Status
  <2>6. \A c \in late : CallInTime(c)'
    BY <2>4 DEF CallInTime
  <2> QED
    BY <2>3, <2>4, <2>5, <2>6 DEF Status
<1>4. ASSUME CallReturns
      PROVE  WritersInv' /\ state.term <= state'.term
  <2>1. UNCHANGED <<holder, term, active, podCache, cache, late>>
    BY <1>4 DEF CallReturns, leaseVars
  <2>2. Apply(call) /\ CallInTime(call) /\ call' = NoCall
    BY <1>4 DEF CallReturns
  <2>3. /\ state' \in Status /\ state.term <= state'.term
        /\ state'.term <= term /\ (state'.rv = 0 => state'.term = 0)
        /\ state.rv <= state'.rv /\ (state'.rv = state.rv => state' = state)
    BY <2>2, ApplyInTime
  <2>4. \A c \in late : CallInTime(c)'
    BY <2>1, <2>3, StaysInTime
  <2>5. CallInTime(NoCall)' /\ NoCall \in Calls
    BY <2>1, <2>3 DEF CallInTime, NoCall, NoState, Status, Calls
  <2> QED
    BY <2>1, <2>2, <2>3, <2>4, <2>5 DEF Status
<1>5. ASSUME LateCall
      PROVE  WritersInv' /\ state.term <= state'.term
  <2>1. UNCHANGED <<holder, term, active, podCache, cache, call>>
    BY <1>5 DEF LateCall, leaseVars, leaderVars
  <2>2. PICK d \in late : Apply(d) /\ late' = late \ {d}
    BY <1>5 DEF LateCall
  <2>3. /\ state' \in Status /\ state.term <= state'.term
        /\ state'.term <= term /\ (state'.rv = 0 => state'.term = 0)
        /\ state.rv <= state'.rv /\ (state'.rv = state.rv => state' = state)
    BY <2>2, ApplyInTime
  <2>4. \A c \in late \cup {call} : CallInTime(c)'
    BY <2>1, <2>3, StaysInTime
  <2> QED
    BY <2>1, <2>2, <2>3, <2>4 DEF Status
<1>6. ASSUME StateEvent
      PROVE  WritersInv' /\ state.term <= state'.term
  BY <1>6 DEF StateEvent, CallInTime, Status, leaseVars
<1>7. ASSUME \/ PodEvent
             \/ \E m \in Managers : DeletePod(m) \/ WaitReady(m)
             \/ StartRegistry \/ LeaseExpires
             \/ \E p \in Proxies : ListerEvent(p) \/ connect(p)
             \/ UNCHANGED stateVars
      PROVE  WritersInv' /\ state.term <= state'.term
  <2>1. UNCHANGED <<term, state, cache, call, late>>
    BY <1>7 DEF PodEvent, DeletePod, WaitReady, StartRegistry, LeaseExpires,
                ListerEvent, connect, stateVars, leaseVars, leaderVars, proxyVars
  <2>2. /\ holder' \in Managers \cup {Nobody}
        /\ active' \subseteq Managers
        /\ podCache' \subseteq Managers
    BY <1>7 DEF PodEvent, DeletePod, WaitReady, StartRegistry, LeaseExpires,
                ListerEvent, connect, stateVars, leaseVars, leaderVars, proxyVars
  <2> QED
    BY <2>1, <2>2 DEF CallInTime, Status
<1> QED
  BY <1>1, <1>2, <1>3, <1>4, <1>5, <1>6, <1>7 DEF StateNext, LeaderStep

\* NoOlderWriter: the resource version in Status().Update keeps a former
\* leader of the managers from replacing what a later one has written.
THEOREM OlderWriterRefused == StateSpec => NoOlderWriter
<1>1. WritersInv /\ [StateNext]_stateVars => WritersInv'
  BY WritersStep
<1>2. WritersInv /\ [StateNext]_stateVars
        => [state'.term >= state.term]_stateVars
  <2> SUFFICES ASSUME WritersInv, [StateNext]_stateVars
               PROVE  state'.term >= state.term
    OBVIOUS
  <2>1. state.term \in Nat /\ state'.term \in Nat
    BY WritersStep DEF WritersInv, StateTypeOK, Status
  <2> QED
    BY <2>1, WritersStep
<1> QED
  BY <1>1, <1>2, WritersInit, PTL DEF StateSpec, NoOlderWriter
===============================================================================
