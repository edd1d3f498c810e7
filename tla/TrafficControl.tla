---------------------------- MODULE TrafficControl ----------------------------
(***************************************************************************)
(* The filter of the proxy that applies TrafficPolicies to the requests of *)
(* the controller (proxy/filters/traffic), between the panic recovery      *)
(* filter and the apiserver handler.  Every request runs in a goroutine of *)
(* its own; the goroutines share the cached policies and one rateControl   *)
(* per rate policy.  A client that is told 429 comes back after the delay  *)
(* of the Retry-After header, as client-go does.                           *)
(*                                                                         *)
(* Time passes in seconds.  Rules are sets where the code has slices; the  *)
(* wildcard counts only when it is alone, as in containsString.            *)
(***************************************************************************)
EXTENDS Integers, Sequences, FiniteSets, SequencesExt, FiniteSetsExt

CONSTANTS Requests,        \* the requests, each with a goroutine of its own
          Policies,        \* the versions of TrafficPolicies that may exist
          Infos,           \* the RequestInfos of the requests
          VAppName, Subset, \* those of this proxy, read once when it starts
          CacheExpiration, \* defaultCacheExpiration, in seconds
          MaxChanges,      \* bound on the changes of the policies
          None             \* the nil pointer

VARIABLES policies,   \* the TrafficPolicies in the informer's store
          settled,    \* seconds since they changed, up to CacheExpiration
          changes,    \* how often they changed
          cached,     \* cachedPolicies
          left,       \* seconds until cacheExpirationTime
          inFlight,   \* for each rateControl the length of its maxInFlightChan
          tokens,     \* for each rateControl the tokens of its bucket
          step,       \* where the goroutine of each request is
          todo,       \* the policies it has not looked at
          rates,      \* the rate policies of the present one it has not
                      \* looked at, with the policy's name
          rateHashes, \* the rate policies it has met
          taken,      \* the slot allow has taken and not returned yet
          defers,     \* the slots its deferred calls will release
          status,     \* the status of the answer
          wait        \* seconds until the client sends the request again

requestVars == <<step, todo, rates, rateHashes, taken, defers, status, wait>>

trafficVars == <<policies, settled, changes, cached, left, inFlight, tokens,
                 requestVars>>

(***************************************************************************)
(* Matching a request against rules (rules_util.go).                       *)
(***************************************************************************)
containsString(x, list) == list = {"*"} \/ x \in list

matchesResourcePolicyRule(ri, rule) ==
  /\ containsString(ri.verb, rule.verbs)
  /\ containsString(ri.resource, rule.resources)
  /\ containsString(ri.group, rule.groups)
  /\ IF ri.namespace = "" THEN rule.clusterScope
     ELSE containsString(ri.namespace, rule.namespaces)

\* A path is a sequence of segments.  The star of a rule is cut off and a
\* slash put in its place, so that with or without one a rule matches what
\* lies below it, and only a rule without one matches the path itself.
matchPolicyRuleNonResourceURL(urls, path) ==
  \E url \in urls : \/ url.all
                    \/ ~url.star /\ url.path = path
                    \/ url.path # path /\ IsPrefix(url.path, path)

matchesNonResourcePolicyRule(ri, rule) ==
  /\ containsString(ri.verb, rule.verbs)
  /\ matchPolicyRuleNonResourceURL(rule.urls, ri.path)

matchesAPIServerRules(ri, rules) ==
  IF ri.isResource
  THEN \E rule \in rules.resourceRules : matchesResourcePolicyRule(ri, rule)
  ELSE \E rule \in rules.nonResourceRules :
          matchesNonResourcePolicyRule(ri, rule)

(***************************************************************************)
(* The policies.                                                           *)
(***************************************************************************)
Targets(policy) ==
  \E target \in policy.targets :
     /\ target.name = VAppName
     /\ target.subsets = {} \/ containsString(Subset, target.subsets)

Targeted(ps) == {policy \in ps : Targets(policy)}

\* The hash of a rate policy: the name of its policy and its whole content.
hashRatePolicy(name, ratePolicy) == <<name, ratePolicy>>

RatePolicies(policy) == Range(policy.rateLimiting)

RateControls ==
  UNION {{hashRatePolicy(policy.name, rp) : rp \in RatePolicies(policy)} :
            policy \in Policies}

ASSUME RequestsFinite == IsFiniteSet(Requests)
ASSUME RateControlsAssumption ==
  /\ None \notin RateControls
  /\ \A k \in RateControls : k[2].maxInFlight = None \/ k[2].maxInFlight \in Nat

(***************************************************************************)
(* The requests.  Each starts with no policy looked at.                    *)
(***************************************************************************)
TrafficInit ==
  /\ policies \in {ps \in SUBSET Policies :
                     \A p, q \in ps : p.name = q.name => p = q}
  /\ settled = 0
  /\ changes = 0
  /\ cached = <<>>
  /\ left = 0
  /\ inFlight = [k \in RateControls |-> 0]
  /\ tokens = [k \in RateControls |->
                 IF k[2].bucket = None THEN 0 ELSE k[2].bucket.burst]
  /\ step = [r \in Requests |-> "client"]
  /\ todo = [r \in Requests |-> <<>>]
  /\ rates = [r \in Requests |-> <<>>]
  /\ rateHashes = [r \in Requests |-> {}]
  /\ taken = [r \in Requests |-> None]
  /\ defers = [r \in Requests |-> {}]
  /\ status = [r \in Requests |-> 0]
  /\ wait = [r \in Requests |-> 0]

\* What a request is about does not change: Infos maps each to its
\* RequestInfo.
Matches(r, rules) == matchesAPIServerRules(Infos[r], rules)

\* The goroutine of r goes to step s.
Goto(r, s) == step' = [step EXCEPT ![r] = s]

\* The filter answers r itself, or panics and leaves the answer to the panic
\* recovery filter; either way the deferred calls run next.
Answer(r, code) ==
  /\ status' = [status EXCEPT ![r] = code]
  /\ Goto(r, "unwind")

\* As getTrafficPolicies, but every use puts the expiration off.
getTrafficPoliciesSliding(r) ==
  /\ step[r] = "client"
  /\ wait[r] = 0
  /\ \/ /\ left > 0
        /\ todo' = [todo EXCEPT ![r] = cached]
        /\ left' = CacheExpiration
        /\ UNCHANGED cached
     \/ /\ left = 0
        /\ \E ret \in SetToSeqs(Targeted(policies)) :
              /\ cached' = ret
              /\ todo' = [todo EXCEPT ![r] = ret]
        /\ left' = CacheExpiration
  /\ Goto(r, "rate")
  /\ UNCHANGED <<policies, settled, changes, inFlight, tokens, rates,
                 rateHashes, taken, defers, status, wait>>

\* getTrafficPolicies, under cacheLock: the cached policies while they last,
\* else those of the store that target this proxy, in any order.
getTrafficPolicies(r) ==
  /\ step[r] = "client"
  /\ wait[r] = 0
  /\ \/ /\ left > 0
        /\ todo' = [todo EXCEPT ![r] = cached]
        /\ UNCHANGED <<cached, left>>
     \/ /\ left = 0
        /\ \E ret \in SetToSeqs(Targeted(policies)) :
              /\ cached' = ret
              /\ todo' = [todo EXCEPT ![r] = ret]
        /\ left' = CacheExpiration
  /\ Goto(r, "rate")
  /\ UNCHANGED <<policies, settled, changes, inFlight, tokens, rates,
                 rateHashes, taken, defers, status, wait>>

\* No policy is left, or there was none: the wrapped handler is called.
CallHandler(r) ==
  /\ step[r] = "rate"
  /\ rates[r] = <<>>
  /\ todo[r] = <<>>
  /\ Goto(r, "handler")
  /\ UNCHANGED <<policies, settled, changes, cached, left, inFlight, tokens,
                 todo, rates, rateHashes, taken, defers, status, wait>>

\* The next policy, when no rate policy of the last one is left.  A policy
\* without circuit breaking is a nil dereference; rules that are nil are rules
\* that match nothing.
NextPolicy(r) ==
  /\ step[r] = "rate"
  /\ rates[r] = <<>>
  /\ todo[r] # <<>>
  /\ LET policy == Head(todo[r]) IN
       \/ /\ policy.circuitBreaking = None
          /\ Answer(r, 500)
          /\ UNCHANGED <<todo, rates>>
       \/ /\ policy.circuitBreaking # None
          /\ Matches(r, policy.circuitBreaking)
          /\ Answer(r, 417)
          /\ UNCHANGED <<todo, rates>>
       \/ /\ policy.circuitBreaking # None
          /\ ~Matches(r, policy.circuitBreaking)
          /\ rates' = [rates EXCEPT ![r] =
                [i \in DOMAIN policy.rateLimiting |->
                   hashRatePolicy(policy.name, policy.rateLimiting[i])]]
          /\ todo' = [todo EXCEPT ![r] = Tail(@)]
          /\ UNCHANGED <<step, status>>
  /\ UNCHANGED <<policies, settled, changes, cached, left, inFlight, tokens,
                 rateHashes, taken, defers, wait>>

\* A rate policy that does not match, or that was met before.
SkipRate(r) ==
  /\ step[r] = "rate"
  /\ rates[r] # <<>>
  /\ LET hash == Head(rates[r]) IN
       ~Matches(r, hash[2].rules) \/ hash \in rateHashes[r]
  /\ rates' = [rates EXCEPT ![r] = Tail(@)]
  /\ UNCHANGED <<policies, settled, changes, cached, left, inFlight, tokens,
                 step, todo, rateHashes, taken, defers, status, wait>>

\* tooManyRequests: status 429, and the delay in the Retry-After header.
tooManyRequests(r, delaySeconds) ==
  /\ wait' = [wait EXCEPT ![r] = IF delaySeconds <= 1 THEN 1 ELSE delaySeconds]
  /\ Answer(r, 429)

\* As TakeSlot, with a channel that has room for one more.
TakeSlotOneMore(r) ==
  /\ step[r] = "rate"
  /\ rates[r] # <<>>
  /\ LET hash == Head(rates[r])
         maxInFlight == hash[2].maxInFlight IN
       /\ Matches(r, hash[2].rules)
       /\ hash \notin rateHashes[r]
       /\ rateHashes' = [rateHashes EXCEPT ![r] = @ \cup {hash}]
       /\ \/ /\ maxInFlight # None
             /\ inFlight[hash] > maxInFlight
             /\ tooManyRequests(r, 1)
             /\ UNCHANGED <<inFlight, taken>>
          \/ /\ maxInFlight # None
             /\ inFlight[hash] <= maxInFlight
             /\ inFlight' = [inFlight EXCEPT ![hash] = @ + 1]
             /\ taken' = [taken EXCEPT ![r] = hash]
             /\ Goto(r, "allow")
             /\ UNCHANGED <<status, wait>>
          \/ /\ maxInFlight = None
             /\ Goto(r, "allow")
             /\ UNCHANGED <<inFlight, taken, status, wait>>
  /\ UNCHANGED <<policies, settled, changes, cached, left, tokens, todo,
                 rates, defers>>

\* allow, first half: a slot of maxInFlightChan is taken if there is one.
\* The rateControl is the one stored under the hash, however many requests
\* and versions of the cache ask for it.
TakeSlot(r) ==
  /\ step[r] = "rate"
  /\ rates[r] # <<>>
  /\ LET hash == Head(rates[r])
         maxInFlight == hash[2].maxInFlight IN
       /\ Matches(r, hash[2].rules)
       /\ hash \notin rateHashes[r]
       /\ rateHashes' = [rateHashes EXCEPT ![r] = @ \cup {hash}]
       /\ \/ /\ maxInFlight # None
             /\ inFlight[hash] >= maxInFlight
             /\ tooManyRequests(r, 1)
             /\ UNCHANGED <<inFlight, taken>>
          \/ /\ maxInFlight # None
             /\ inFlight[hash] < maxInFlight
             /\ inFlight' = [inFlight EXCEPT ![hash] = @ + 1]
             /\ taken' = [taken EXCEPT ![r] = hash]
             /\ Goto(r, "allow")
             /\ UNCHANGED <<status, wait>>
          \/ /\ maxInFlight = None
             /\ Goto(r, "allow")
             /\ UNCHANGED <<inFlight, taken, status, wait>>
  /\ UNCHANGED <<policies, settled, changes, cached, left, tokens, todo,
                 rates, defers>>

\* The deferred function that allow returns releases the slot it has taken.
DeferRelease(r) ==
  /\ defers' = [defers EXCEPT ![r] = IF taken[r] = None THEN @
                                     ELSE @ \cup {taken[r]}]
  /\ taken' = [taken EXCEPT ![r] = None]

\* As RetryDelay, without rounding up.
RetryDelayRoundedDown(bucket, t) == (-t) \div bucket.qps

\* Seconds until the bucket holds a token for the reservation that left it
\* with t tokens, rounded as allow does.
RetryDelay(bucket, t) == (-t) \div bucket.qps + 1

\* As TakeToken, but the slot is not released when the bucket refuses.
TakeTokenSlotKept(r) ==
  /\ step[r] = "allow"
  /\ LET hash == Head(rates[r])
         bucket == hash[2].bucket
         refused == bucket # None /\ tokens[hash] <= 0 IN
       /\ tokens' = IF bucket = None THEN tokens
                    ELSE [tokens EXCEPT ![hash] = @ - 1]
       /\ \/ /\ refused
             /\ taken' = [taken EXCEPT ![r] = None]
             /\ tooManyRequests(r, RetryDelay(bucket, tokens'[hash]))
             /\ UNCHANGED <<rates, defers>>
          \/ /\ ~refused
             /\ hash[2].exponentialBackoff
             /\ taken' = [taken EXCEPT ![r] = None]
             /\ Answer(r, 500)
             /\ UNCHANGED <<rates, defers, wait>>
          \/ /\ ~refused
             /\ ~hash[2].exponentialBackoff
             /\ DeferRelease(r)
             /\ rates' = [rates EXCEPT ![r] = Tail(@)]
             /\ Goto(r, "rate")
             /\ UNCHANGED <<status, wait>>
  /\ UNCHANGED <<policies, settled, changes, cached, left, inFlight, todo,
                 rateHashes>>

\* allow, second half.  The bucket gives a reservation also when it is for
\* later, and a refused request keeps it.  The exponential backoff looks the
\* RequestInfo up in a sync.Map, which panics because RequestInfo holds a
\* slice: the slot that was taken has no deferred release yet.
TakeToken(r) ==
  /\ step[r] = "allow"
  /\ LET hash == Head(rates[r])
         bucket == hash[2].bucket
         refused == bucket # None /\ tokens[hash] <= 0 IN
       /\ tokens' = IF bucket = None THEN tokens
                    ELSE [tokens EXCEPT ![hash] = @ - 1]
       /\ \/ /\ refused
             /\ DeferRelease(r)
             /\ tooManyRequests(r, RetryDelay(bucket, tokens'[hash]))
             /\ UNCHANGED rates
          \/ /\ ~refused
             /\ hash[2].exponentialBackoff
             /\ taken' = [taken EXCEPT ![r] = None]
             /\ Answer(r, 500)
             /\ UNCHANGED <<rates, defers, wait>>
          \/ /\ ~refused
             /\ ~hash[2].exponentialBackoff
             /\ DeferRelease(r)
             /\ rates' = [rates EXCEPT ![r] = Tail(@)]
             /\ Goto(r, "rate")
             /\ UNCHANGED <<status, wait>>
  /\ UNCHANGED <<policies, settled, changes, cached, left, inFlight, todo,
                 rateHashes>>

\* The wrapped handler returns, or panics: the deferred calls run then too,
\* and the panic recovery filter answers.
HandlerReturns(r) ==
  /\ step[r] = "handler"
  /\ \E code \in {200, 500} : Answer(r, code)
  /\ UNCHANGED <<policies, settled, changes, cached, left, inFlight, tokens,
                 todo, rates, rateHashes, taken, defers, wait>>

\* A deferred call receives from the channel of its rateControl.
Release(r) ==
  /\ step[r] = "unwind"
  /\ \E hash \in defers[r] :
       /\ inFlight' = [inFlight EXCEPT ![hash] = @ - 1]
       /\ defers' = [defers EXCEPT ![r] = @ \ {hash}]
  /\ UNCHANGED <<policies, settled, changes, cached, left, tokens, step, todo,
                 rates, rateHashes, taken, status, wait>>

\* The goroutine ends.  A request that was told 429 is sent again.
Return(r) ==
  /\ step[r] = "unwind"
  /\ defers[r] = {}
  /\ Goto(r, IF status[r] = 429 THEN "client" ELSE "done")
  /\ todo' = [todo EXCEPT ![r] = <<>>]
  /\ rates' = [rates EXCEPT ![r] = <<>>]
  /\ rateHashes' = [rateHashes EXCEPT ![r] = {}]
  /\ status' = [status EXCEPT ![r] = IF @ = 429 THEN 0 ELSE @]
  /\ UNCHANGED <<policies, settled, changes, cached, left, inFlight, tokens,
                 taken, defers, wait>>

ServeHTTP(r) ==
  \/ getTrafficPolicies(r) \/ CallHandler(r) \/ NextPolicy(r)
  \/ SkipRate(r) \/ TakeSlot(r) \/ TakeToken(r) \/ HandlerReturns(r)
  \/ Release(r) \/ Return(r)

\* The tokens of a bucket one second later.
Refill(bucket, t) == IF bucket = None THEN t
                     ELSE IF t + bucket.qps > bucket.burst THEN bucket.burst
                     ELSE t + bucket.qps

\* A second passes.
Tick ==
  /\ settled' = IF settled < CacheExpiration THEN settled + 1 ELSE settled
  /\ left' = IF left > 0 THEN left - 1 ELSE 0
  /\ tokens' = [k \in RateControls |-> Refill(k[2].bucket, tokens[k])]
  /\ wait' = [r \in Requests |-> IF wait[r] > 0 THEN wait[r] - 1 ELSE 0]
  /\ UNCHANGED <<policies, changes, cached, inFlight, step, todo, rates,
                 rateHashes, taken, defers, status>>

\* The informer stores a new policy, a new version of one, or drops one.
ChangePolicies ==
  /\ changes < MaxChanges
  /\ changes' = changes + 1
  /\ settled' = 0
  /\ \E policy \in Policies :
       policies' = IF policy \in policies THEN policies \ {policy}
                   ELSE {p \in policies : p.name # policy.name} \cup {policy}
  /\ UNCHANGED <<cached, left, inFlight, tokens, requestVars>>

TrafficNext == Tick \/ ChangePolicies \/ \E r \in Requests : ServeHTTP(r)

TrafficSpec == TrafficInit /\ [][TrafficNext]_trafficVars

\* A goroutine runs on, time passes, and the handler returns: the apiserver
\* ends every request, watches after their timeout.
TrafficFairness == WF_trafficVars(Tick)
                   /\ \A r \in Requests : WF_trafficVars(ServeHTTP(r))

TrafficFairSpec == TrafficSpec /\ TrafficFairness

(***************************************************************************)
(* Properties                                                              *)
(***************************************************************************)

\* The requests that occupy a slot of a rateControl: their deferred call is
\* still to come, or allow has not returned.
Holders(k) == {r \in Requests : k \in defers[r] \/ taken[r] = k}

\* maxInFlightChan holds one value for every request that still has to
\* release it: whatever a later policy, the bucket, the circuit breaker or
\* the handler does with a request, its slot is neither lost nor released
\* twice (allow, and the deferred calls of ServeHTTP).  The exception is a
\* rate policy with exponential backoff, which loses the slot of every
\* request.
SlotsExact ==
  \A k \in RateControls :
     ~k[2].exponentialBackoff => inFlight[k] = Cardinality(Holders(k))

\* The requests in the handler that a rate policy has admitted.
Admitted(k) == {r \in Requests : step[r] = "handler" /\ k \in rateHashes[r]}

\* What maxInFlight promises: never more requests of a rate policy are in the
\* handler, also while its policy is changed, dropped and created again and
\* requests still run with older lists of policies.
InFlightBounded ==
  \A k \in RateControls :
     k[2].maxInFlight # None => Cardinality(Admitted(k)) <= k[2].maxInFlight

\* However busy the proxy is, a policy that has been in the informer's store
\* for defaultCacheExpiration is the one that requests see
\* (getTrafficPolicies).
CacheNotStale ==
  settled = CacheExpiration /\ left > 0 => Range(cached) = Targeted(policies)
===============================================================================
