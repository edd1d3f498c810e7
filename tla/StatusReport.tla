----------------------------- MODULE StatusReport -----------------------------
(***************************************************************************)
(* How a proxy reports its status to the manager: the gRPC client connects *)
(* and syncs (proxy/protomanager/proto_manager_grpc.go), a goroutine per   *)
(* stream sends the status when reportTriggerChan has something for it or  *)
(* its timer fires, and both a received spec and a change of the leader    *)
(* election state put something into that channel.  The goroutine of a     *)
(* broken stream stops some time after the stream, and takes from the same *)
(* channel until then.                                                     *)
(*                                                                         *)
(* A status is the leader election state and the number of the spec.       *)
(***************************************************************************)
EXTENDS Integers, Sequences

CONSTANTS Identities,  \* what UpdateLeaderElection may be called with
          ChanSize,    \* capacity of reportTriggerChan
          MaxStreams, MaxSpecs, MaxElections  \* bounds

NoStatus == [leader |-> "", spec |-> 0]
StreamIds == 1..MaxStreams

VARIABLES leader,     \* identity in leaderElectionState, "" at first
          spec,       \* number of the current spec, 0 for none
          locked,     \* UpdateLeaderElection holds the SpecManager's lock
          trigger,    \* length of reportTriggerChan
          inited,     \* initChan is closed
          client,     \* where connect and syncing are
          stream,     \* number of the last stream
          open,       \* it is not broken
          sender,     \* the goroutine of each stream: [at, timer, prev, status]
          specs, elections, \* counters
          view        \* the last status the manager has received

reportVars == <<leader, spec, locked, trigger, inited, client, stream, open,
                sender, specs, elections, view>>

\* GetStatus, when the lock is free: nil without a spec.
GetStatus == [leader |-> leader, spec |-> spec]

ReportInit ==
  /\ leader = ""
  /\ spec \in {0, 1}      \* 1 when newSpecManager has loaded one
  /\ locked = FALSE
  /\ trigger = 0
  /\ inited = FALSE
  /\ client = "connect"
  /\ stream = 0
  /\ open = FALSE
  /\ sender = [g \in StreamIds |-> [at |-> "none", timer |-> FALSE,
                                   prev |-> NoStatus, status |-> NoStatus]]
  /\ specs = spec
  /\ elections = 0
  /\ view = NoStatus

\* connect opens a stream and syncing gets the first status: the information
\* about the proxy only, when there is no spec.
Connect ==
  /\ client = "connect"
  /\ stream < MaxStreams
  /\ ~locked
  /\ stream' = stream + 1
  /\ open' = TRUE
  /\ sender' = [sender EXCEPT ![stream + 1].status =
                   IF spec = 0 THEN NoStatus ELSE GetStatus]
  /\ client' = "first"
  /\ UNCHANGED <<leader, spec, locked, trigger, inited, specs, elections, view>>

\* The first status goes out, and the sender of the stream starts.
FirstSend ==
  /\ client = "first"
  /\ IF open
     THEN /\ view' = sender[stream].status
          /\ sender' = [sender EXCEPT ![stream].at = "init",
                                      ![stream].timer = TRUE]
          /\ client' = "recv"
     ELSE /\ client' = "connect"
          /\ UNCHANGED <<view, sender>>
  /\ UNCHANGED <<leader, spec, locked, trigger, inited, stream, open, specs,
                 elections>>

\* recv: UpdateSpec takes the lock; then initChan is closed if it is not, and
\* the channel gets a value.
Recv ==
  /\ client = "recv"
  /\ open
  /\ specs < MaxSpecs
  /\ ~locked
  /\ specs' = specs + 1
  /\ spec' = specs + 1
  /\ inited' = TRUE
  /\ client' = "push"
  /\ UNCHANGED <<leader, locked, trigger, stream, open, sender, elections,
                 view>>

Push ==
  /\ client = "push"
  /\ trigger < ChanSize
  /\ trigger' = trigger + 1
  /\ client' = "recv"
  /\ UNCHANGED <<leader, spec, locked, inited, stream, open, sender, specs,
                 elections, view>>

BreakStream ==
  /\ open
  /\ stream < MaxStreams
  /\ open' = FALSE
  /\ UNCHANGED <<leader, spec, locked, trigger, inited, client, stream, sender,
                 specs, elections, view>>

\* recv fails: syncing returns and closes stopChan, and connect goes on after
\* three seconds.
RecvFails ==
  /\ client = "recv"
  /\ ~open
  /\ client' = "connect"
  /\ UNCHANGED <<leader, spec, locked, trigger, inited, stream, open, sender,
                 specs, elections, view>>

(***************************************************************************)
(* The sender of stream g.                                                 *)
(***************************************************************************)
Stopped(g) == g < stream \/ client = "connect"

SenderGoes(g, where) == sender' = [sender EXCEPT ![g].at = where]

AwaitInit(g) ==
  /\ sender[g].at = "init"
  /\ inited
  /\ SenderGoes(g, "select")
  /\ UNCHANGED <<leader, spec, locked, trigger, inited, client, stream, open,
                 specs, elections, view>>

\* As Select, without the timer.
SelectUntimed(g) ==
  /\ sender[g].at = "select"
  /\ \/ /\ trigger > 0
        /\ trigger' = trigger - 1
        /\ sender' = [sender EXCEPT ![g].at = "status", ![g].timer = FALSE]
     \/ /\ Stopped(g)
        /\ SenderGoes(g, "done")
        /\ UNCHANGED trigger
  /\ UNCHANGED <<leader, spec, locked, inited, client, stream, open, specs,
                 elections, view>>

\* select: whatever is ready, in any order; then the timer is stopped.
Select(g) ==
  /\ sender[g].at = "select"
  /\ \/ /\ trigger > 0
        /\ trigger' = trigger - 1
        /\ sender' = [sender EXCEPT ![g].at = "status", ![g].timer = FALSE]
     \/ /\ sender[g].timer
        /\ sender' = [sender EXCEPT ![g].at = "status", ![g].timer = FALSE]
        /\ UNCHANGED trigger
     \/ /\ Stopped(g)
        /\ SenderGoes(g, "done")
        /\ UNCHANGED trigger
  /\ UNCHANGED <<leader, spec, locked, inited, client, stream, open, specs,
                 elections, view>>

\* send gets the status, and has nothing to do when it is the last one.
SendStatus(g) ==
  /\ sender[g].at = "status"
  /\ ~locked
  /\ IF spec = 0 \/ GetStatus = sender[g].prev
     THEN sender' = [sender EXCEPT ![g].at = "select", ![g].timer = TRUE]
     ELSE sender' = [sender EXCEPT ![g].at = "send", ![g].status = GetStatus]
  /\ UNCHANGED <<leader, spec, locked, trigger, inited, client, stream, open,
                 specs, elections, view>>

\* The status goes out.  On a broken stream the call fails, and the timer stays
\* off, or it returns before that is known.
Send(g) ==
  /\ sender[g].at = "send"
  /\ IF g = stream /\ open
     THEN /\ view' = sender[g].status
          /\ sender' = [sender EXCEPT ![g].at = "select", ![g].timer = TRUE,
                                      ![g].prev = sender[g].status]
     ELSE /\ \/ SenderGoes(g, "select")
             \/ sender' = [sender EXCEPT ![g].at = "select", ![g].timer = TRUE,
                                         ![g].prev = sender[g].status]
          /\ UNCHANGED view
  /\ UNCHANGED <<leader, spec, locked, trigger, inited, client, stream, open,
                 specs, elections>>

(***************************************************************************)
(* UpdateLeaderElection holds the lock while it puts a value into the      *)
(* channel.                                                                *)
(***************************************************************************)
UpdateLeaderElection ==
  /\ ~locked
  /\ elections < MaxElections
  /\ elections' = elections + 1
  /\ \E id \in Identities : /\ leader' = id
                            /\ locked' = (id # leader)
  /\ UNCHANGED <<spec, trigger, inited, client, stream, open, sender, specs,
                 view>>

ReportTrigger ==
  /\ locked
  /\ trigger < ChanSize
  /\ trigger' = trigger + 1
  /\ locked' = FALSE
  /\ UNCHANGED <<leader, spec, inited, client, stream, open, sender, specs,
                 elections, view>>

ClientStep == Connect \/ FirstSend \/ Recv \/ Push \/ RecvFails

SenderStep(g) == AwaitInit(g) \/ Select(g) \/ SendStatus(g) \/ Send(g)

ReportNext == \/ ClientStep \/ BreakStream \/ UpdateLeaderElection
              \/ ReportTrigger
              \/ \E g \in StreamIds : SenderStep(g)

ReportSpec == ReportInit /\ [][ReportNext]_reportVars

\* Goroutines run on, the timer fires, and the manager sends its specs: one to
\* every proxy that has connected, at least (Reconcile).
ReportFairSpec ==
  /\ ReportSpec
  /\ WF_reportVars(ClientStep)
  /\ WF_reportVars(ReportTrigger)
  /\ \A g \in StreamIds : WF_reportVars(SenderStep(g))

(***************************************************************************)
(* Properties                                                              *)
(***************************************************************************)

\* Once there is nothing new, the manager has the last leader election state
\* and the last spec of the proxy, although the sender of an older stream may
\* take what was meant for the present one, and although the lock is held
\* while the channel is written (syncing, UpdateLeaderElection).
LastStatusReported == <>[](view = GetStatus)
===============================================================================
