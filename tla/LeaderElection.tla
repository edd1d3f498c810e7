---------------------------- MODULE LeaderElection ----------------------------
(***************************************************************************)
(* The leader election of the controllers behind their proxies             *)
(* (proxy/leaderelection).  The controllers of all pods know one lock by   *)
(* its name; the proxy of a pod of a subset puts the name of the subset    *)
(* behind it, so that every subset elects a leader of its own, and it      *)
(* notices from the answers of the apiserver who leads.  The elector in    *)
(* the controller (client-go) and the apiserver are external.              *)
(*                                                                         *)
(* A name is a sequence: the lock's name, and the subset behind it.        *)
(***************************************************************************)
EXTENDS Integers, Sequences, FiniteSets, SequencesExt

CONSTANTS Pods,
          SubsetOf,   \* the subset of each pod, "" for none: handler.subset
          MaxFaults,  \* bound on leaders that stop, answers that are lost and
                      \* creations of other objects
          NoLock      \* no object, no identity

VARIABLES lock,     \* the lock objects of the apiserver, by name
          elector,  \* where the elector of each pod is
          seen,     \* the lock object it has read: [name, holder]
          current,  \* pod and name, where the pod has the last resourceVersion
          answer,   \* the answer that is on its way to it
          leads,    \* it believes to lead
          leState,  \* the identity in the proxy's leaderElectionState
          other,    \* the outcome of a create of something else
          faults

electionVars == <<lock, elector, seen, current, answer, leads, leState, other,
                  faults>>

lockName == <<"lock">>

setSubsetIntoName(name, subset) == Append(name, subset)

LockNames == {lockName} \cup {setSubsetIntoName(lockName, SubsetOf[p]) :
                                p \in {p \in Pods : SubsetOf[p] # ""}}

\* The lock the pods of p's subset compete for.
LockOf(p) == IF SubsetOf[p] = "" THEN lockName
             ELSE setSubsetIntoName(lockName, SubsetOf[p])

(***************************************************************************)
(* Handle.  A request has a verb, a resource and subresource, the name in  *)
(* its URL ("create" has none), the media type of its body and the object  *)
(* in it, whose record of the holder is NoLock when there is none.  The    *)
(* result says what happens to the request: "pass", it is none of the      *)
(* handler's business; "drained", it is not either, but its body has been  *)
(* read; "error"; "forward", with the name it goes to the apiserver under, *)
(* and whether the answer to it will be noticed, as the holder's.          *)
(***************************************************************************)
NotHandled(how) == [how |-> how, name |-> <<>>, notice |-> NoLock]
Forward(name, notice) ==
  [how |-> "forward", name |-> name, notice |-> notice]

\* As LastReplace, but it gives what it is given.
LastReplaceNothing(name, new) == name

\* In the path, whose last occurrence of the lock's name is in the name of
\* the object.
LastReplace(name, new) == new \o SubSeq(name, Len(lockName) + 1, Len(name))

\* DecodeFrom of the adapters: getSerializer knows the media types that the
\* codecs of the built-in kinds have.
DecodeFrom(req) == req.mediaType \in {"json", "yaml", "protobuf"}

\* The holder in the spec of a lease, or in the record that another object
\* has as an annotation; NoLock when there is none, and nobody when the
\* annotation is no record.
GetHoldIdentity(object) ==
  IF object.record = "garbled" THEN "" ELSE object.record

\* The lock's name, alone or with a subset behind it.
IsLockName(name) == name # <<>> /\ Head(name) = Head(lockName)

Handle(p, req) ==
  IF \/ req.subresource # ""
     \/ req.verb # "create" /\ ~IsLockName(req.name)
     \/ req.resource \notin {"configmaps", "endpoints", "leases"}
  THEN NotHandled("pass")
  ELSE CASE req.verb = "create" ->
              IF ~DecodeFrom(req) THEN NotHandled("error")
              ELSE IF req.object.name # lockName THEN NotHandled("drained")
              ELSE IF GetHoldIdentity(req.object) = NoLock
                   THEN NotHandled("error")
              ELSE Forward(IF SubsetOf[p] # ""
                           THEN setSubsetIntoName(lockName, SubsetOf[p])
                           ELSE req.object.name, GetHoldIdentity(req.object))
         [] req.verb = "update" ->
              IF \/ ~DecodeFrom(req)
                 \/ GetHoldIdentity(req.object) = NoLock
              THEN NotHandled("error")
              ELSE Forward(req.name, GetHoldIdentity(req.object))
         [] req.verb = "get" ->
              Forward(IF SubsetOf[p] # ""
                      THEN LastReplace(req.name,
                                       setSubsetIntoName(lockName, SubsetOf[p]))
                      ELSE req.name, NoLock)
         [] OTHER -> NotHandled("pass")

(***************************************************************************)
(* The apiserver: a lock object is its holder.                             *)
(***************************************************************************)
Response(code, name, holder, notice) ==
  [code |-> code, name |-> name, holder |-> holder, notice |-> notice]

NoAnswer == Response(0, <<>>, NoLock, NoLock)

\* The object called name is written for p.
Stored(p, name, holder) ==
  /\ lock' = [lock EXCEPT ![name] = holder]
  /\ current' = {c \in current : c[2] # name} \cup {<<p, name>>}

\* The apiserver answers the forwarded request of p.
Apiserver(p, verb, fwd, holder) ==
  LET name == fwd.name
      absent == name \notin LockNames \/ lock[name] = NoLock
      refuse(code) == /\ answer' = [answer EXCEPT ![p] =
                                     Response(code, name, NoLock, fwd.notice)]
                      /\ UNCHANGED <<lock, current>>
      accept(code, h) == answer' = [answer EXCEPT ![p] =
                                     Response(code, name, h, fwd.notice)]
  IN CASE verb = "get" /\ absent -> refuse(404)
       [] verb = "get" /\ ~absent ->
            /\ accept(200, lock[name])
            /\ current' = current \cup {<<p, name>>}
            /\ UNCHANGED lock
       [] verb = "create" /\ ~absent -> refuse(409)
       [] verb = "create" /\ absent ->
            accept(201, holder) /\ Stored(p, name, holder)
       [] verb = "update" /\ absent -> refuse(404)
       [] verb = "update" /\ ~absent /\ <<p, name>> \notin current ->
            refuse(409)
       [] verb = "update" /\ ~absent /\ <<p, name>> \in current ->
            accept(200, holder) /\ Stored(p, name, holder)

(***************************************************************************)
(* The elector and its requests.                                           *)
(***************************************************************************)
ElectionInit ==
  /\ lock = [n \in LockNames |-> NoLock]
  /\ elector = [p \in Pods |-> "get"]
  /\ seen = [p \in Pods |-> [name |-> <<>>, holder |-> NoLock]]
  /\ current = {}
  /\ answer = [p \in Pods |-> NoAnswer]
  /\ leads = [p \in Pods |-> FALSE]
  /\ leState = [p \in Pods |-> NoLock]
  /\ other = "none"
  /\ faults = 0

\* ServeHTTP of the proxy: requests to upgrade the connection go their own
\* way, then the election handler is asked, and what it does not handle goes
\* to the router.  A body that has been read is missing in the request to
\* the apiserver, which therefore fails.  fwd is the result of Handle.
ServeRequest(req, fwd) ==
  CASE req.subresource \in {"attach", "exec"} -> "upgrade"
    [] fwd.how = "error" -> "badRequest"
    [] fwd.how = "forward" -> "election"
    [] fwd.how = "drained" -> "broken"
    [] OTHER -> "route"

\* The request of p's elector, through its proxy: what Handle does not
\* forward fails.
SendRequest(p, req) ==
  LET fwd == Handle(p, req) IN
  IF ServeRequest(req, fwd) = "election"
  THEN Apiserver(p, req.verb, fwd, req.object.record)
  ELSE /\ answer' = [answer EXCEPT ![p] = Response(400, <<>>, NoLock, NoLock)]
       /\ UNCHANGED <<lock, current>>

\* The elector reads the lock, creates it, or takes or renews it; a leader
\* that stops gives it up.
Elect(p) ==
  /\ answer[p] = NoAnswer
  /\ SendRequest(p,
       [verb |-> IF elector[p] = "release" THEN "update" ELSE elector[p],
        resource |-> "leases", subresource |-> "", mediaType |-> "json",
        name |-> IF elector[p] = "get" THEN lockName ELSE seen[p].name,
        object |-> [name |-> IF elector[p] = "create" THEN lockName
                             ELSE seen[p].name,
                    record |-> IF elector[p] = "release" THEN "" ELSE p]])
  /\ UNCHANGED <<elector, seen, leads, leState, other, faults>>

\* The lease of holder h has not run out: h leads, or will when it gets the
\* answer that is on its way.
LeaseRuns(h) ==
  /\ h \in Pods
  /\ \/ leads[h]
     \/ elector[h] \in {"create", "update"} /\ answer[h].code \in {200, 201}

\* modifyResponse, then the elector.  UpdateLeaderElection is called for the
\* status 200 only, which the answer to a create does not have.
Answered(p) ==
  LET a == answer[p]
      took == elector[p] \in {"create", "update"} /\ a.code \in {200, 201} IN
  /\ a # NoAnswer
  /\ answer' = [answer EXCEPT ![p] = NoAnswer]
  /\ leState' = IF a.notice # NoLock /\ a.code = 200
                THEN [leState EXCEPT ![p] = a.notice] ELSE leState
  /\ seen' = IF a.code \in {200, 201}
             THEN [seen EXCEPT ![p] = [name |-> a.name, holder |-> a.holder]]
             ELSE seen
  /\ leads' = [leads EXCEPT ![p] = @ \/ took]
  /\ elector' = [elector EXCEPT ![p] =
       CASE elector[p] = "get" /\ a.code = 404 -> "create"
         [] /\ elector[p] = "get"
            /\ a.code = 200
            /\ a.holder = p \/ ~LeaseRuns(a.holder) -> "update"
         [] OTHER -> "get"]
  /\ UNCHANGED <<lock, current, other, faults>>

\* The answer is lost after the proxy has seen it, or before.
AnswerLost(p) ==
  /\ answer[p] # NoAnswer
  /\ faults < MaxFaults
  /\ faults' = faults + 1
  /\ answer' = [answer EXCEPT ![p] = NoAnswer]
  /\ leState' \in {leState, IF answer[p].notice # NoLock /\ answer[p].code = 200
                            THEN [leState EXCEPT ![p] = answer[p].notice]
                            ELSE leState}
  /\ elector' = [elector EXCEPT ![p] = "get"]
  /\ UNCHANGED <<lock, seen, current, leads, other>>

\* A leader stops: its lease runs out, or it releases the lock.
StopLeading(p) ==
  /\ leads[p]
  /\ answer[p] = NoAnswer
  /\ elector[p] \in {"get", "update"}
  /\ faults < MaxFaults
  /\ faults' = faults + 1
  /\ leads' = [leads EXCEPT ![p] = FALSE]
  /\ \E next \in {"get", "release"} : elector' = [elector EXCEPT ![p] = next]
  /\ UNCHANGED <<lock, seen, current, answer, leState, other>>

\* The controller creates another object, of a kind that locks have, whose
\* body the handler reads, or of another.
CreateOther(p) ==
  /\ faults < MaxFaults
  /\ faults' = faults + 1
  /\ \E resource \in {"configmaps", "pods"}, mediaType \in {"json", "other"} :
       LET req == [verb |-> "create", resource |-> resource,
                   subresource |-> "", name |-> <<>>, mediaType |-> mediaType,
                   object |-> [name |-> <<"other">>, record |-> NoLock]] IN
       other' = IF ServeRequest(req, Handle(p, req)) = "route" THEN "created"
                ELSE "failed"
  /\ UNCHANGED <<lock, elector, seen, current, answer, leads, leState>>

ElectionNext == \E p \in Pods : \/ Elect(p) \/ Answered(p) \/ AnswerLost(p)
                               \/ StopLeading(p) \/ CreateOther(p)

ElectionSpec == ElectionInit /\ [][ElectionNext]_electionVars

\* Electors keep trying, and answers arrive unless they are lost.
ElectionFairSpec ==
  ElectionSpec /\ \A p \in Pods : WF_electionVars(Elect(p) \/ Answered(p))

(***************************************************************************)
(* Properties                                                              *)
(***************************************************************************)

\* Again and again every subset has a leader and the proxies of all leaders
\* know that they lead: no pod waits for the lock of another subset or for one
\* that nobody renews, and no proxy depends on the answer to a create, which
\* it does not notice (Handle, UpdateLeaderElection).
SubsetsLed ==
  []<>(\A p \in Pods : /\ \E q \in Pods : LockOf(q) = LockOf(p) /\ leads[q]
                       /\ leads[p] => leState[p] = p)
===============================================================================
