-------------------------------- MODULE MCProxy --------------------------------
(***************************************************************************)
(* The parts of a proxy that share no state with each other, for the model *)
(* checker: the traffic policies with two lists or with a list and a       *)
(* health check, and with two lists under one policy that stays, the       *)
(* copying of responses, the leader election and the report of the status. *)
(* A behaviour is one of one part, the others rest, so that their states   *)
(* add up and do not multiply.                                             *)
(***************************************************************************)
EXTENDS TrafficControl, ResponseStream, LeaderElection, StatusReport, TLC

CONSTANTS r1, r2, r3, l1, w1

VARIABLE part

proxyVars == <<part, trafficVars, streamVars, electionVars, reportVars>>

(***************************************************************************)
(* The traffic policies: slots and a bucket, one of them met twice by a    *)
(* request, a policy that breaks the circuit for health checks and has     *)
(* exponential backoff for lists, and one without circuit breaking (nil).  *)
(***************************************************************************)
MCRequests == {r1, r2, r3}

Rule(verbs, resources) ==
  [resourceRules |-> {[verbs |-> verbs, resources |-> resources,
                       groups |-> {"*"}, clusterScope |-> FALSE,
                       namespaces |-> {"*"}]},
   nonResourceRules |-> {}]

NoRules == [resourceRules |-> {}, nonResourceRules |-> {}]

Healthz ==
  {[verbs |-> {"*"},
    urls |-> {[path |-> <<"healthz">>, star |-> TRUE, all |-> FALSE]}]}

ListRules == Rule({"list"}, {"pods"})
AnyRules == [Rule({"*"}, {"*"}) EXCEPT !.nonResourceRules = Healthz]

RatePolicy(rules, max, bucket, backoff) ==
  [rules |-> rules, maxInFlight |-> max, bucket |-> bucket,
   exponentialBackoff |-> backoff]

Slot == RatePolicy(AnyRules, 1, None, FALSE)
SlotAndBucket == RatePolicy(ListRules, 1, [qps |-> 1, burst |-> 1], FALSE)
Backoff == RatePolicy(ListRules, 1, None, TRUE)

TrafficPolicy(name, subsets, breaking, limits) ==
  [name |-> name, targets |-> {[name |-> "app", subsets |-> subsets]},
   circuitBreaking |-> breaking, rateLimiting |-> limits]

Limit == TrafficPolicy("limit", {"blue"}, NoRules,
                       <<Slot, SlotAndBucket, SlotAndBucket>>)

MCPolicies ==
  {Limit,
   TrafficPolicy("break", {}, [NoRules EXCEPT !.nonResourceRules = Healthz], <<Backoff>>),
   TrafficPolicy("other", {}, None, <<>>)}

ListInfo == [isResource |-> TRUE, verb |-> "list", resource |-> "pods",
             group |-> "", namespace |-> "ns", path |-> <<>>]
HealthInfo == [isResource |-> FALSE, verb |-> "get", resource |-> "",
               group |-> "", namespace |-> "", path |-> <<"healthz", "etcd">>]
MCInfos == (r1 :> ListInfo) @@ (r2 :> ListInfo) @@ (r3 :> HealthInfo)

TrafficParts == {"lists", "health", "clients"}
InPart == IF part = "health" THEN {r1, r3} ELSE {r1, r2}

\* The larger list does not fit into a buffer of the pool, and neither does
\* the event that is denied once it is encoded.
MCFrames == (l1 :> <<[size |-> 3, kind |-> "passed"]>>)
            @@ (w1 :> <<[size |-> 2, kind |-> "denied"],
                        [size |-> 1, kind |-> "other"]>>)

MCSubsetOf == ("p0" :> "") @@ ("p1" :> "blue") @@ ("p2" :> "blue")

(***************************************************************************)
(* The parts                                                               *)
(***************************************************************************)
ProxyInit ==
  /\ part \in TrafficParts \cup {"stream", "election", "report"}
  /\ TrafficInit
  /\ part = "clients" => policies = {Limit}
  /\ part \notin TrafficParts => policies = {}
  /\ StreamInit
  /\ ElectionInit
  /\ ReportInit
  /\ part # "report" => spec = 0

ProxyNext ==
  /\ UNCHANGED part
  /\ \/ /\ part \in TrafficParts
        /\ \/ Tick \/ (part # "clients" /\ ChangePolicies)
           \/ \E r \in InPart : ServeHTTP(r)
        /\ UNCHANGED <<streamVars, electionVars, reportVars>>
     \/ /\ part = "stream"
        /\ StreamNext
        /\ UNCHANGED <<trafficVars, electionVars, reportVars>>
     \/ /\ part = "election"
        /\ ElectionNext
        /\ UNCHANGED <<trafficVars, streamVars, reportVars>>
     \/ /\ part = "report"
        /\ ReportNext
        /\ UNCHANGED <<trafficVars, streamVars, electionVars>>

\* The fairness of each part is that of its module.
ProxySpec ==
  /\ ProxyInit /\ [][ProxyNext]_proxyVars
  /\ WF_trafficVars(part = "clients" /\ Tick)
  /\ \A r \in {r1, r2} : WF_trafficVars(part = "clients" /\ ServeHTTP(r))
  /\ \A r \in Streams : WF_streamVars(part = "stream" /\ Flush(r))
  /\ \A p \in Pods : WF_electionVars(part = "election"
                                     /\ (Elect(p) \/ Answered(p)))
  /\ WF_reportVars(part = "report" /\ ClientStep)
  /\ WF_reportVars(part = "report" /\ ReportTrigger)
  /\ \A g \in StreamIds : WF_reportVars(part = "report" /\ SenderStep(g))

\* Two clients that respect the Retry-After header are both answered in the
\* end: the reservations that refused requests leave in the bucket do not keep
\* them out for ever (allow, tooManyRequests).  With three clients they can.
TwoClientsAnswered ==
  part = "clients" => <>(step[r1] = "done" /\ step[r2] = "done")

\* EventuallyFlushed: what is written for the client leaves the proxy while
\* the request runs (maxLatencyWriter).
PartFlushed == part = "stream" => EventuallyFlushed

\* SubsetsLed: again and again every subset has a leader whose proxy knows it
\* (Handle of the leader election).
PartLed == part = "election" => SubsetsLed

\* LastStatusReported: in the end the manager has the last status (syncing,
\* UpdateLeaderElection).
PartReported == part = "report" => LastStatusReported
===============================================================================
