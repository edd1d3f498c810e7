------------------------- MODULE TrafficControlProofs -------------------------
(***************************************************************************)
(* Proofs that the slots of the rateControls are exact, and that no more   *)
(* requests than maxInFlight are in the handler, for any finite number of  *)
(* requests and any policies (TrafficSpec of TrafficControl).              *)
(***************************************************************************)
EXTENDS TrafficControl, FiniteSetTheorems, TLAPS

SlotsTypeOK ==
  /\ inFlight \in [RateControls -> Int]
  /\ DOMAIN taken = Requests
  /\ DOMAIN defers = Requests
  /\ DOMAIN rateHashes = Requests
  /\ DOMAIN rates = Requests
  /\ DOMAIN step = Requests

\* A request releases only slots of rate policies it has met, each once, and
\* as long as it is served it holds the slot of every policy it has passed.
RequestInv(r) ==
  /\ taken[r] # None => /\ step[r] = "allow"
                        /\ taken[r] = Head(rates[r])
                        /\ taken[r] \in rateHashes[r]
                        /\ taken[r] \notin defers[r]
  /\ \A k \in defers[r] : k \in rateHashes[r]
  /\ step[r] = "client" => rateHashes[r] = {}
  /\ step[r] \in {"rate", "allow", "handler"} =>
       \A k \in RateControls :
         k \in rateHashes[r] /\ k[2].maxInFlight # None
           => k \in defers[r] \/ k = taken[r]

\* The channel of a rateControl is within its capacity, and holds a value for
\* every holder, and no other unless the backoff has lost some.
SlotInv(k) ==
  /\ Cardinality(Holders(k)) <= inFlight[k]
  /\ ~k[2].exponentialBackoff => inFlight[k] = Cardinality(Holders(k))
  /\ k[2].maxInFlight # None => inFlight[k] <= k[2].maxInFlight

TrafficInv ==
  /\ SlotsTypeOK
  /\ \A r \in Requests : RequestInv(r)
  /\ \A k \in RateControls : SlotInv(k)

\* The holders are finitely many.
LEMMA HoldersFinite ==
  ASSUME NEW k
  PROVE  IsFiniteSet(Holders(k)) /\ Cardinality(Holders(k)) \in Nat
  BY RequestsFinite, FS_Subset, FS_CardinalityType DEF Holders

\* At the start no slot is taken.
LEMMA TrafficStart == TrafficInit => TrafficInv
<1> SUFFICES ASSUME TrafficInit PROVE TrafficInv
  OBVIOUS
<1>1. SlotsTypeOK
  BY DEF TrafficInit, SlotsTypeOK
<1>2. ASSUME NEW r \in Requests PROVE RequestInv(r)
  BY DEF TrafficInit, RequestInv
<1>3. ASSUME NEW k \in RateControls PROVE SlotInv(k)
  <2>1. Holders(k) = {}
    BY RateControlsAssumption DEF TrafficInit, Holders
  <2>2. Cardinality(Holders(k)) = 0 /\ inFlight[k] = 0
    BY <2>1, FS_EmptySet DEF TrafficInit
  <2> QED
    BY <2>2, RateControlsAssumption DEF SlotInv
<1> QED
  BY <1>1, <1>2, <1>3 DEF TrafficInv

\* A slot whose holders stay, and whose channel stays, is as it was.
LEMMA SlotStays ==
  ASSUME NEW k \in RateControls, SlotInv(k), inFlight'[k] = inFlight[k],
         \A q \in Requests : (k \in defers'[q] \/ taken'[q] = k)
                             <=> (k \in defers[q] \/ taken[q] = k)
  PROVE  SlotInv(k)'
<1>1. Holders(k)' = Holders(k)
  BY DEF Holders
<1> QED
  BY <1>1 DEF SlotInv

\* What a step of one request has to keep: its own part of the invariant, and
\* the slots.
LEMMA OneRequest ==
  ASSUME TrafficInv, NEW r \in Requests, SlotsTypeOK', RequestInv(r)',
         \A q \in Requests \ {r} :
           /\ taken'[q] = taken[q] /\ defers'[q] = defers[q]
           /\ rateHashes'[q] = rateHashes[q] /\ rates'[q] = rates[q]
           /\ step'[q] = step[q],
         \A k \in RateControls : SlotInv(k)'
  PROVE  TrafficInv'
<1>1. ASSUME NEW q \in Requests, q # r PROVE RequestInv(q)'
  BY <1>1 DEF TrafficInv, RequestInv
<1> QED
  BY <1>1 DEF TrafficInv

\* A step that leaves the slots alone keeps their invariant.
LEMMA SlotsUnchanged ==
  ASSUME TrafficInv, UNCHANGED <<inFlight, taken, defers>>
  PROVE  \A k \in RateControls : SlotInv(k)'
  BY SlotStays DEF TrafficInv

\* The deferred release takes over the slot that was taken.
LEMMA DeferKeepsSlots ==
  ASSUME TrafficInv, NEW r \in Requests, DeferRelease(r), inFlight' = inFlight
  PROVE  /\ \A k \in RateControls : SlotInv(k)'
         /\ DOMAIN taken' = Requests /\ DOMAIN defers' = Requests
         /\ \A q \in Requests \ {r} : taken'[q] = taken[q] /\ defers'[q] = defers[q]
         /\ taken'[r] = None
         /\ defers'[r] = IF taken[r] = None THEN defers[r]
                         ELSE defers[r] \cup {taken[r]}
<1>1. DOMAIN taken = Requests /\ DOMAIN defers = Requests
  BY DEF TrafficInv, SlotsTypeOK
<1>2. /\ DOMAIN taken' = Requests /\ DOMAIN defers' = Requests
      /\ \A q \in Requests \ {r} : taken'[q] = taken[q] /\ defers'[q] = defers[q]
      /\ taken'[r] = None
      /\ defers'[r] = IF taken[r] = None THEN defers[r]
                      ELSE defers[r] \cup {taken[r]}
  BY <1>1 DEF DeferRelease
<1>3. ASSUME NEW k \in RateControls PROVE SlotInv(k)'
  <2>1. k # None
    BY RateControlsAssumption
  <2>2. \A q \in Requests : (k \in defers'[q] \/ taken'[q] = k)
                            <=> (k \in defers[q] \/ taken[q] = k)
    BY <1>2, <2>1
  <2> QED
    BY <2>2, SlotStays DEF TrafficInv
<1> QED
  BY <1>2, <1>3

\* allow takes a slot only where there is one.
LEMMA TakeSlotKeepsInv ==
  ASSUME TrafficInv, NEW r \in Requests, TakeSlot(r)
  PROVE  TrafficInv'
<1>1. PICK hash :
      /\ step[r] = "rate" /\ hash \notin rateHashes[r]
      /\ rateHashes' = [rateHashes EXCEPT ![r] = @ \cup {hash}]
      /\ UNCHANGED <<rates, defers>> /\ hash = Head(rates[r])
  BY DEF TakeSlot
<1>2. /\ SlotsTypeOK /\ RequestInv(r) /\ taken[r] = None
      /\ hash \notin defers[r]
  BY <1>1 DEF TrafficInv, RequestInv
<1>3. /\ DOMAIN rateHashes' = Requests
      /\ rateHashes'[r] = rateHashes[r] \cup {hash}
      /\ \A q \in Requests \ {r} : rateHashes'[q] = rateHashes[q]
  BY <1>1, <1>2 DEF SlotsTypeOK
<1>4. CASE Answer(r, 429) /\ UNCHANGED <<inFlight, taken>>
  <2>1. /\ DOMAIN step' = Requests /\ step'[r] = "unwind"
        /\ \A q \in Requests \ {r} : step'[q] = step[q]
    BY <1>2, <1>4 DEF Answer, Goto, SlotsTypeOK
  <2>2. SlotsTypeOK'
    BY <1>1, <1>2, <1>3, <1>4, <2>1 DEF SlotsTypeOK
  <2>3. RequestInv(r)'
    BY <1>1, <1>2, <1>3, <1>4, <2>1 DEF RequestInv
  <2>4. \A k \in RateControls : SlotInv(k)'
    BY <1>1, <1>4, SlotsUnchanged
  <2> QED
    BY <1>1, <1>3, <1>4, <2>1, <2>2, <2>3, <2>4, OneRequest
<1>5. CASE /\ hash[2].maxInFlight = None
           /\ Goto(r, "allow") /\ UNCHANGED <<inFlight, taken>>
  <2>1. /\ DOMAIN step' = Requests /\ step'[r] = "allow"
        /\ \A q \in Requests \ {r} : step'[q] = step[q]
    BY <1>2, <1>5 DEF Goto, SlotsTypeOK
  <2>2. SlotsTypeOK'
    BY <1>1, <1>2, <1>3, <1>5, <2>1 DEF SlotsTypeOK
  <2>3. RequestInv(r)'
    BY <1>1, <1>2, <1>3, <1>5, <2>1 DEF RequestInv
  <2>4. \A k \in RateControls : SlotInv(k)'
    BY <1>1, <1>5, SlotsUnchanged
  <2> QED
    BY <1>1, <1>3, <1>5, <2>1, <2>2, <2>3, <2>4, OneRequest
<1>6. CASE /\ hash[2].maxInFlight # None /\ inFlight[hash] < hash[2].maxInFlight
           /\ inFlight' = [inFlight EXCEPT ![hash] = @ + 1]
           /\ taken' = [taken EXCEPT ![r] = hash]
           /\ Goto(r, "allow")
  <2>1. /\ DOMAIN step' = Requests /\ step'[r] = "allow"
        /\ \A q \in Requests \ {r} : step'[q] = step[q]
    BY <1>2, <1>6 DEF Goto, SlotsTypeOK
  <2>2. /\ DOMAIN taken' = Requests /\ taken'[r] = hash
        /\ \A q \in Requests \ {r} : taken'[q] = taken[q]
    BY <1>2, <1>6 DEF SlotsTypeOK
  <2>3. inFlight' \in [RateControls -> Int]
    <3>1. inFlight \in [RateControls -> Int]
      BY <1>2 DEF SlotsTypeOK
    <3>2. CASE hash \in RateControls
      BY <1>6, <3>1, <3>2
    <3>3. CASE hash \notin RateControls
      BY <1>6, <3>1, <3>3
    <3> QED
      BY <3>2, <3>3
  <2>4. SlotsTypeOK'
    BY <1>1, <1>2, <1>3, <2>1, <2>2, <2>3 DEF SlotsTypeOK
  <2>5. RequestInv(r)'
    <3>1. /\ taken'[r] = Head(rates'[r]) /\ taken'[r] \in rateHashes'[r]
          /\ taken'[r] \notin defers'[r]
      BY <1>1, <1>2, <1>3, <2>2
    <3>2. \A k \in defers'[r] : k \in rateHashes'[r]
      BY <1>1, <1>2, <1>3 DEF RequestInv
    <3>3. \A k \in RateControls :
            k \in rateHashes'[r] /\ k[2].maxInFlight # None
              => k \in defers'[r] \/ k = taken'[r]
      BY <1>1, <1>2, <1>3, <2>2, RateControlsAssumption DEF RequestInv
    <3> QED
      BY <2>1, <3>1, <3>2, <3>3 DEF RequestInv
  <2>6. ASSUME NEW k \in RateControls, k # hash PROVE SlotInv(k)'
    <3>1. inFlight'[k] = inFlight[k]
      BY <1>2, <1>6, <2>6 DEF SlotsTypeOK
    <3>2. \A q \in Requests : (k \in defers'[q] \/ taken'[q] = k)
                              <=> (k \in defers[q] \/ taken[q] = k)
      BY <1>1, <1>2, <2>2, <2>6, RateControlsAssumption
    <3> QED
      BY <3>1, <3>2, SlotStays DEF TrafficInv
  <2>7. ASSUME hash \in RateControls PROVE SlotInv(hash)'
    <3>1. /\ inFlight'[hash] = inFlight[hash] + 1 /\ inFlight[hash] \in Int
          /\ SlotInv(hash) /\ hash # None
      BY <1>2, <1>6, <2>7, RateControlsAssumption DEF SlotsTypeOK, TrafficInv
    <3>2. r \notin Holders(hash)
      BY <1>2, <3>1 DEF Holders
    <3>3. Holders(hash)' = Holders(hash) \cup {r}
      BY <1>1, <2>2 DEF Holders
    <3>4. /\ Cardinality(Holders(hash)') = Cardinality(Holders(hash)) + 1
          /\ Cardinality(Holders(hash)) \in Nat
      BY <3>2, <3>3, HoldersFinite, FS_AddElement
    <3>5. hash[2].maxInFlight \in Nat
      BY <1>6, <2>7, RateControlsAssumption
    <3> QED
      BY <1>1, <1>6, <3>1, <3>4, <3>5 DEF SlotInv
  <2>8. \A k \in RateControls : SlotInv(k)'
    BY <1>1, <2>6, <2>7
  <2> QED
    BY <1>1, <1>3, <2>1, <2>2, <2>4, <2>5, <2>8, OneRequest
<1> QED
  BY <1>1, <1>4, <1>5, <1>6 DEF TakeSlot, tooManyRequests

\* allow hands the slot over to a deferred release, or loses it in the panic
\* of the exponential backoff.
LEMMA TakeTokenKeepsInv ==
  ASSUME TrafficInv, NEW r \in Requests, TakeToken(r)
  PROVE  TrafficInv'
<1>1. PICK hash :
      /\ step[r] = "allow" /\ hash = Head(rates[r])
      /\ UNCHANGED <<inFlight, rateHashes>>
  BY DEF TakeToken
<1>2. SlotsTypeOK /\ RequestInv(r)
  BY DEF TrafficInv
<1>3. CASE DeferRelease(r) /\ Answer(r, 429) /\ UNCHANGED rates
  <2>1. /\ DOMAIN step' = Requests /\ step'[r] = "unwind"
        /\ \A q \in Requests \ {r} : step'[q] = step[q]
    BY <1>2, <1>3 DEF Answer, Goto, SlotsTypeOK
  <2>2. SlotsTypeOK'
    BY <1>1, <1>2, <1>3, <2>1, DeferKeepsSlots DEF SlotsTypeOK
  <2>3. /\ taken'[r] = None
        /\ defers'[r] = IF taken[r] = None THEN defers[r]
                        ELSE defers[r] \cup {taken[r]}
    BY <1>1, <1>3, DeferKeepsSlots
  <2>4. RequestInv(r)'
    BY <1>1, <1>2, <2>1, <2>3 DEF RequestInv
  <2> QED
    BY <1>1, <1>3, <2>1, <2>2, <2>4, DeferKeepsSlots, OneRequest
<1>4. CASE /\ hash[2].exponentialBackoff
           /\ taken' = [taken EXCEPT ![r] = None]
           /\ Answer(r, 500) /\ UNCHANGED <<rates, defers>>
  <2>1. /\ DOMAIN step' = Requests /\ step'[r] = "unwind"
        /\ \A q \in Requests \ {r} : step'[q] = step[q]
    BY <1>2, <1>4 DEF Answer, Goto, SlotsTypeOK
  <2>2. /\ DOMAIN taken' = Requests /\ taken'[r] = None
        /\ \A q \in Requests \ {r} : taken'[q] = taken[q]
    BY <1>2, <1>4 DEF SlotsTypeOK
  <2>3. SlotsTypeOK'
    BY <1>1, <1>2, <1>4, <2>1, <2>2 DEF SlotsTypeOK
  <2>4. RequestInv(r)'
    BY <1>1, <1>2, <1>4, <2>1, <2>2 DEF RequestInv
  <2>5. ASSUME NEW k \in RateControls, k # hash PROVE SlotInv(k)'
    <3>1. k # None /\ k # taken[r]
      BY <1>1, <1>2, <2>5, RateControlsAssumption DEF RequestInv
    <3>2. \A q \in Requests : (k \in defers'[q] \/ taken'[q] = k)
                              <=> (k \in defers[q] \/ taken[q] = k)
      BY <1>4, <2>2, <3>1
    <3> QED
      BY <1>1, <3>2, SlotStays DEF TrafficInv
  <2>6. ASSUME hash \in RateControls PROVE SlotInv(hash)'
    <3>1. /\ SlotInv(hash) /\ hash # None
          /\ inFlight'[hash] = inFlight[hash] /\ inFlight[hash] \in Int
      BY <1>1, <1>2, <2>6, RateControlsAssumption DEF SlotsTypeOK, TrafficInv
    <3>2. Holders(hash)' \subseteq Holders(hash)
      BY <1>4, <2>2, <3>1 DEF Holders
    <3>3. /\ Cardinality(Holders(hash)') <= Cardinality(Holders(hash))
          /\ Cardinality(Holders(hash)') \in Nat
          /\ Cardinality(Holders(hash)) \in Nat
      BY <3>2, HoldersFinite, FS_Subset, FS_CardinalityType
    <3> QED
      BY <1>4, <3>1, <3>3 DEF SlotInv
  <2>7. \A k \in RateControls : SlotInv(k)'
    BY <2>5, <2>6
  <2> QED
    BY <1>1, <1>4, <2>1, <2>2, <2>3, <2>4, <2>7, OneRequest
<1>5. CASE /\ DeferRelease(r) /\ Goto(r, "rate")
           /\ rates' = [rates EXCEPT ![r] = Tail(@)]
  <2>1. /\ DOMAIN step' = Requests /\ step'[r] = "rate"
        /\ \A q \in Requests \ {r} : step'[q] = step[q]
    BY <1>2, <1>5 DEF Goto, SlotsTypeOK
  <2>2. /\ DOMAIN rates' = Requests
        /\ \A q \in Requests \ {r} : rates'[q] = rates[q]
    BY <1>2, <1>5 DEF SlotsTypeOK
  <2>3. SlotsTypeOK'
    BY <1>1, <1>2, <1>5, <2>1, <2>2, DeferKeepsSlots DEF SlotsTypeOK
  <2>4. /\ taken'[r] = None
        /\ defers'[r] = IF taken[r] = None THEN defers[r]
                        ELSE defers[r] \cup {taken[r]}
    BY <1>1, <1>5, DeferKeepsSlots
  <2>5. RequestInv(r)'
    BY <1>1, <1>2, <2>1, <2>4, RateControlsAssumption DEF RequestInv
  <2> QED
    BY <1>1, <1>5, <2>1, <2>2, <2>3, <2>5, DeferKeepsSlots, OneRequest
<1> QED
  BY <1>1, <1>3, <1>4, <1>5 DEF TakeToken, tooManyRequests

\* A deferred call gives back a slot that its request holds.
LEMMA ReleaseKeepsInv ==
  ASSUME TrafficInv, NEW r \in Requests, Release(r)
  PROVE  TrafficInv'
<1>1. PICK hash \in defers[r] :
      /\ inFlight' = [inFlight EXCEPT ![hash] = @ - 1]
      /\ defers' = [defers EXCEPT ![r] = @ \ {hash}]
  BY DEF Release
<1>2. step[r] = "unwind" /\ UNCHANGED <<step, rates, rateHashes, taken>>
  BY DEF Release
<1>3. SlotsTypeOK /\ RequestInv(r) /\ taken[r] = None
  BY <1>2 DEF TrafficInv, RequestInv
<1>4. /\ DOMAIN defers' = Requests /\ defers'[r] = defers[r] \ {hash}
      /\ \A q \in Requests \ {r} : defers'[q] = defers[q]
  BY <1>1, <1>3 DEF SlotsTypeOK
<1>5. inFlight' \in [RateControls -> Int]
  <2>1. inFlight \in [RateControls -> Int]
    BY <1>3 DEF SlotsTypeOK
  <2>2. CASE hash \in RateControls
    BY <1>1, <2>1, <2>2
  <2>3. CASE hash \notin RateControls
    BY <1>1, <2>1, <2>3
  <2> QED
    BY <2>2, <2>3
<1>6. SlotsTypeOK'
  BY <1>2, <1>3, <1>4, <1>5 DEF SlotsTypeOK
<1>7. RequestInv(r)'
  BY <1>2, <1>3, <1>4 DEF RequestInv
<1>8. ASSUME NEW k \in RateControls, k # hash PROVE SlotInv(k)'
  <2>1. inFlight'[k] = inFlight[k]
    BY <1>1, <1>3, <1>8 DEF SlotsTypeOK
  <2>2. \A q \in Requests : (k \in defers'[q] \/ taken'[q] = k)
                            <=> (k \in defers[q] \/ taken[q] = k)
    BY <1>2, <1>4, <1>8
  <2> QED
    BY <2>1, <2>2, SlotStays DEF TrafficInv
<1>9. ASSUME hash \in RateControls PROVE SlotInv(hash)'
  <2>1. /\ inFlight'[hash] = inFlight[hash] - 1 /\ inFlight[hash] \in Int
        /\ SlotInv(hash) /\ hash # None
    BY <1>1, <1>3, <1>9, RateControlsAssumption DEF SlotsTypeOK, TrafficInv
  <2>2. r \in Holders(hash)
    BY <1>1 DEF Holders
  <2>3. Holders(hash)' = Holders(hash) \ {r}
    BY <1>2, <1>3, <1>4, <2>1 DEF Holders
  <2>4. /\ Cardinality(Holders(hash)') = Cardinality(Holders(hash)) - 1
        /\ Cardinality(Holders(hash)) \in Nat
    BY <2>2, <2>3, HoldersFinite, FS_RemoveElement
  <2>5. hash[2].maxInFlight = None \/ hash[2].maxInFlight \in Nat
    BY <1>9, RateControlsAssumption
  <2> QED
    BY <2>1, <2>4, <2>5 DEF SlotInv
<1>10. \A k \in RateControls : SlotInv(k)'
  BY <1>8, <1>9
<1> QED
  BY <1>2, <1>4, <1>6, <1>7, <1>10, OneRequest

\* The steps of ServeHTTP between the policies, which touch no slot: the
\* request goes on to what, and has no slot in its hands.
LEMMA WalkKeepsInv ==
  ASSUME TrafficInv, NEW r \in Requests, NEW what,
         UNCHANGED <<inFlight, taken, defers, rateHashes>>,
         step' = [step EXCEPT ![r] = what],
         \/ rates' = rates
         \/ \E v : rates' = [rates EXCEPT ![r] = v],
         \/ step[r] \in {"client", "rate"} /\ what \in {"rate", "handler"}
         \/ step[r] \in {"rate", "handler"} /\ what = "unwind"
  PROVE  TrafficInv'
<1>1. SlotsTypeOK /\ RequestInv(r) /\ taken[r] = None
  BY DEF TrafficInv, RequestInv
<1>2. /\ DOMAIN step' = Requests /\ step'[r] = what
      /\ \A q \in Requests \ {r} : step'[q] = step[q]
  BY <1>1 DEF SlotsTypeOK
<1>3. /\ DOMAIN rates' = Requests
      /\ \A q \in Requests \ {r} : rates'[q] = rates[q]
  BY <1>1 DEF SlotsTypeOK
<1>4. SlotsTypeOK'
  BY <1>1, <1>2, <1>3 DEF SlotsTypeOK
<1>5. RequestInv(r)'
  BY <1>1, <1>2 DEF RequestInv
<1>6. \A k \in RateControls : SlotInv(k)'
  BY SlotsUnchanged
<1> QED
  BY <1>2, <1>3, <1>4, <1>5, <1>6, OneRequest

\* As WalkKeepsInv, when the request goes on at the same place.
LEMMA StepStays ==
  ASSUME TrafficInv, NEW r \in Requests, step[r] = "rate",
         UNCHANGED <<inFlight, taken, defers, rateHashes, step>>,
         \E v : rates' = [rates EXCEPT ![r] = v]
  PROVE  TrafficInv'
<1>1. SlotsTypeOK /\ RequestInv(r) /\ taken[r] = None
  BY DEF TrafficInv, RequestInv
<1>2. /\ DOMAIN rates' = Requests
      /\ \A q \in Requests \ {r} : rates'[q] = rates[q]
  BY <1>1 DEF SlotsTypeOK
<1>3. SlotsTypeOK' /\ RequestInv(r)'
  BY <1>1, <1>2 DEF SlotsTypeOK, RequestInv
<1>4. \A k \in RateControls : SlotInv(k)'
  BY SlotsUnchanged
<1> QED
  BY <1>2, <1>3, <1>4, OneRequest

\* A request ends with no slot left.
LEMMA ReturnKeepsInv ==
  ASSUME TrafficInv, NEW r \in Requests, Return(r)
  PROVE  TrafficInv'
<1>1. /\ step[r] = "unwind" /\ defers[r] = {}
      /\ UNCHANGED <<inFlight, taken, defers>>
      /\ rates' = [rates EXCEPT ![r] = <<>>]
      /\ rateHashes' = [rateHashes EXCEPT ![r] = {}]
      /\ \E s \in {"client", "done"} : step' = [step EXCEPT ![r] = s]
  BY DEF Return, Goto
<1>2. SlotsTypeOK /\ RequestInv(r) /\ taken[r] = None
  BY <1>1 DEF TrafficInv, RequestInv
<1>3. /\ DOMAIN step' = Requests /\ step'[r] \in {"client", "done"}
      /\ \A q \in Requests \ {r} : step'[q] = step[q]
  BY <1>1, <1>2 DEF SlotsTypeOK
<1>4. /\ DOMAIN rates' = Requests /\ DOMAIN rateHashes' = Requests
      /\ rateHashes'[r] = {}
      /\ \A q \in Requests \ {r} : /\ rates'[q] = rates[q]
                                   /\ rateHashes'[q] = rateHashes[q]
  BY <1>1, <1>2 DEF SlotsTypeOK
<1>5. SlotsTypeOK'
  BY <1>1, <1>2, <1>3, <1>4 DEF SlotsTypeOK
<1>6. RequestInv(r)'
  BY <1>1, <1>2, <1>3, <1>4 DEF RequestInv
<1>7. \A k \in RateControls : SlotInv(k)'
  BY <1>1, SlotsUnchanged
<1> QED
  BY <1>1, <1>3, <1>4, <1>5, <1>6, <1>7, OneRequest

\* Every step keeps the invariant.
LEMMA TrafficStep ==
  ASSUME TrafficInv, [TrafficNext]_trafficVars
  PROVE  TrafficInv'
<1>1. ASSUME UNCHANGED <<inFlight, taken, defers, rateHashes, rates, step>>
      PROVE  TrafficInv'
  <2>1. \A k \in RateControls : SlotInv(k)'
    BY <1>1, SlotsUnchanged
  <2>2. SlotsTypeOK' /\ \A r \in Requests : RequestInv(r)'
    BY <1>1 DEF TrafficInv, SlotsTypeOK, RequestInv
  <2> QED
    BY <2>1, <2>2 DEF TrafficInv
<1>2. CASE Tick \/ ChangePolicies \/ UNCHANGED trafficVars
  BY <1>1, <1>2 DEF Tick, ChangePolicies, trafficVars, requestVars
<1>3. ASSUME NEW r \in Requests, getTrafficPolicies(r) PROVE TrafficInv'
  BY <1>3, WalkKeepsInv DEF getTrafficPolicies, Goto
<1>4. ASSUME NEW r \in Requests, CallHandler(r) PROVE TrafficInv'
  BY <1>4, WalkKeepsInv DEF CallHandler, Goto
<1>5. ASSUME NEW r \in Requests, NextPolicy(r) PROVE TrafficInv'
  <2>1. /\ step[r] = "rate" /\ UNCHANGED <<inFlight, taken, defers, rateHashes>>
        /\ \/ rates' = rates /\ step' = [step EXCEPT ![r] = "unwind"]
           \/ step' = step /\ \E v : rates' = [rates EXCEPT ![r] = v]
    BY <1>5 DEF NextPolicy, Answer, Goto
  <2>2. CASE rates' = rates /\ step' = [step EXCEPT ![r] = "unwind"]
    BY <2>1, <2>2, WalkKeepsInv
  <2>3. CASE step' = step /\ \E v : rates' = [rates EXCEPT ![r] = v]
    BY <2>1, <2>3, StepStays
  <2> QED
    BY <2>1, <2>2, <2>3
<1>6. ASSUME NEW r \in Requests, SkipRate(r) PROVE TrafficInv'
  BY <1>6, StepStays DEF SkipRate
<1>7. ASSUME NEW r \in Requests, HandlerReturns(r) PROVE TrafficInv'
  BY <1>7, WalkKeepsInv DEF HandlerReturns, Answer, Goto
<1> QED
  BY <1>2, <1>3, <1>4, <1>5, <1>6, <1>7, TakeSlotKeepsInv, TakeTokenKeepsInv,
     ReleaseKeepsInv, ReturnKeepsInv DEF TrafficNext, ServeHTTP

\* SlotsExact: no slot of a rateControl is lost or released twice, whatever
\* becomes of the requests (allow and the deferred calls of ServeHTTP).
THEOREM NoSlotLost == TrafficSpec => []SlotsExact
<1>1. TrafficInv /\ [TrafficNext]_trafficVars => TrafficInv'
  BY TrafficStep
<1>2. TrafficInv => SlotsExact
  BY DEF TrafficInv, SlotInv, SlotsExact
<1> QED
  BY <1>1, <1>2, TrafficStart, PTL DEF TrafficSpec

\* The invariant bounds what the handler serves.
LEMMA InvBoundsInFlight == TrafficInv => InFlightBounded
<1> SUFFICES ASSUME TrafficInv, NEW k \in RateControls, k[2].maxInFlight # None
             PROVE  Cardinality(Admitted(k)) <= k[2].maxInFlight
  BY DEF InFlightBounded
<1>1. Admitted(k) \subseteq Holders(k)
  BY DEF Admitted, Holders, TrafficInv, RequestInv
<1>2. /\ Cardinality(Admitted(k)) <= Cardinality(Holders(k))
      /\ Cardinality(Admitted(k)) \in Nat /\ Cardinality(Holders(k)) \in Nat
  BY <1>1, HoldersFinite, FS_Subset, FS_CardinalityType
<1>3. /\ Cardinality(Holders(k)) <= inFlight[k] /\ inFlight[k] \in Int
      /\ inFlight[k] <= k[2].maxInFlight /\ k[2].maxInFlight \in Nat
  BY RateControlsAssumption DEF TrafficInv, SlotInv, SlotsTypeOK
<1> QED
  BY <1>2, <1>3

\* InFlightBounded: never more than maxInFlight requests of a rate policy are
\* in the handler, whatever versions of the policies they have read
\* (getTrafficPolicies, allow).
THEOREM MaxInFlightKept == TrafficSpec => []InFlightBounded
<1>1. TrafficInv /\ [TrafficNext]_trafficVars => TrafficInv'
  BY TrafficStep
<1> QED
  BY <1>1, TrafficStart, InvBoundsInFlight, PTL DEF TrafficSpec
===============================================================================
