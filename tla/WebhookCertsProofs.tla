-------------------------- MODULE WebhookCertsProofs --------------------------
(***************************************************************************)
(* Proof that the replicas of the manager, however many there are, never   *)
(* replace a CA in the secret that can still sign (CertsSpec of            *)
(* WebhookCerts).  No replica is a leader here: the resource version of    *)
(* the update and the CA that was read with it are what the proof uses.    *)
(***************************************************************************)
EXTENDS WebhookCerts, TLAPS

Secrets == [rv : Nat, ca : Nat, cert : Nat, valid : BOOLEAN, usable : BOOLEAN]

CertsTypeOK ==
  /\ lastId \in Nat
  /\ secret \in Secrets \cup {Missing}
  /\ hand \in [Replicas -> Secrets]

\* The inductive invariant: versions are numbered upwards, and a replica that
\* has read the version the secret still has knows its CA, and takes it for
\* usable if it is.
VersionsInv ==
  /\ CertsTypeOK
  /\ secret # Missing => secret.rv \in 1..lastId
  /\ \A m \in Replicas :
       /\ hand[m].rv <= lastId
       /\ secret # Missing /\ hand[m].rv = secret.rv =>
            /\ hand[m].ca = secret.ca
            /\ secret.usable => hand[m].usable

\* The CA stays when it can still sign: the step that CAKept speaks of.
KeepsCA ==
  secret # Missing /\ secret' # Missing /\ secret.usable
    => secret'.ca = secret.ca

\* The initial state satisfies the invariant.
LEMMA VersionsInit == CertsInit => VersionsInv
  BY DEF CertsInit, VersionsInv, CertsTypeOK, Empty, Secrets

\* A replica that stores a new secret, made from certs.
LEMMA StoreKeepsInv ==
  ASSUME VersionsInv, NEW m \in Replicas, NEW certs \in Secrets,
         Store(m, buildSecret(certs)),
         secret # Missing /\ secret.usable =>
           certs.usable /\ certs.ca = secret.ca
  PROVE  VersionsInv' /\ KeepsCA
<1>1. buildSecret(certs) =
        [rv |-> lastId + 1, ca |-> IF certs.usable THEN certs.ca ELSE lastId + 1,
         cert |-> lastId + 1, valid |-> TRUE, usable |-> TRUE]
  BY DEF buildSecret, certsToSecret, Generate
<1>2. buildSecret(certs) \in Secrets
  BY <1>1 DEF Secrets, VersionsInv, CertsTypeOK
<1>3. /\ secret' = buildSecret(certs)
      /\ hand' = [hand EXCEPT ![m] = buildSecret(certs)]
      /\ lastId' = lastId + 1
  BY DEF Store
<1>4. CertsTypeOK'
  BY <1>2, <1>3 DEF VersionsInv, CertsTypeOK
<1>5. secret'.rv \in 1..lastId'
  BY <1>1, <1>3 DEF VersionsInv, CertsTypeOK
<1>6. ASSUME NEW q \in Replicas
      PROVE  /\ hand'[q].rv <= lastId'
             /\ hand'[q].rv = secret'.rv => hand'[q] = secret'
  <2>1. CASE q = m
    BY <1>1, <1>3, <2>1 DEF VersionsInv, CertsTypeOK
  <2>2. CASE q # m
    <3>1. hand'[q] = hand[q] /\ hand[q] \in Secrets
      BY <1>3, <2>2 DEF VersionsInv, CertsTypeOK
    <3>2. hand[q].rv <= lastId /\ hand[q].rv \in Nat /\ lastId \in Nat
      BY <3>1 DEF VersionsInv, CertsTypeOK, Secrets
    <3> QED
      BY <1>1, <1>3, <3>1, <3>2
  <2> QED
    BY <2>1, <2>2
<1>7. KeepsCA
  BY <1>1, <1>3 DEF KeepsCA
<1> QED
  BY <1>4, <1>5, <1>6, <1>7 DEF VersionsInv

\* Every step keeps the invariant and a CA that can still sign.
LEMMA VersionsStep ==
  ASSUME VersionsInv, [CertsNext]_certVars
  PROVE  VersionsInv' /\ KeepsCA
<1>1. ASSUME UNCHANGED <<secret, lastId, hand>>
      PROVE  VersionsInv' /\ KeepsCA
  BY <1>1 DEF VersionsInv, CertsTypeOK, KeepsCA
<1>2. ASSUME NEW m \in Replicas, ReadSecret(m)
      PROVE  VersionsInv' /\ KeepsCA
  <2>1. CASE secret = Missing
    BY <1>1, <1>2, <2>1 DEF ReadSecret
  <2>2. CASE secret # Missing
    <3>1. UNCHANGED <<secret, lastId>> /\ hand' = [hand EXCEPT ![m] = secret]
      BY <1>2, <2>2 DEF ReadSecret
    <3> QED
      BY <2>2, <3>1 DEF VersionsInv, CertsTypeOK, Secrets, KeepsCA
  <2> QED
    BY <2>1, <2>2
<1>3. ASSUME NEW m \in Replicas, CreateSecret(m)
      PROVE  VersionsInv' /\ KeepsCA
  <2>1. CASE secret = Missing
    <3>1. Store(m, buildSecret(Empty)) /\ Empty \in Secrets
      BY <1>3, <2>1 DEF CreateSecret, Empty, Secrets
    <3> QED
      BY <2>1, <3>1, StoreKeepsInv
  <2>2. CASE secret # Missing
    BY <1>1, <1>3, <2>2 DEF CreateSecret
  <2> QED
    BY <2>1, <2>2
<1>4. ASSUME NEW m \in Replicas, overwrite(m)
      PROVE  VersionsInv' /\ KeepsCA
  <2>1. CASE secret # Missing /\ secret.rv = hand[m].rv
    <3>1. Store(m, buildSecret(hand[m])) /\ hand[m] \in Secrets
      BY <1>4, <2>1 DEF overwrite, VersionsInv, CertsTypeOK
    <3>2. secret.usable => hand[m].usable /\ hand[m].ca = secret.ca
      BY <2>1 DEF VersionsInv
    <3> QED
      BY <3>1, <3>2, StoreKeepsInv
  <2>2. CASE ~(secret # Missing /\ secret.rv = hand[m].rv)
    BY <1>1, <1>4, <2>2 DEF overwrite
  <2> QED
    BY <2>1, <2>2
<1>5. ASSUME EditSecret
      PROVE  VersionsInv' /\ KeepsCA
  <2>1. /\ lastId' = lastId + 1 /\ hand' = hand
        /\ secret # Missing /\ secret \in Secrets /\ secret.rv \in 1..lastId
        /\ lastId \in Nat
    BY <1>5 DEF EditSecret, VersionsInv, CertsTypeOK
  <2>2. ASSUME NEW q \in Replicas
        PROVE  /\ hand[q] \in Secrets /\ hand[q].rv \in Nat
               /\ hand[q].rv <= lastId /\ hand'[q] = hand[q]
    BY <2>1, <2>2 DEF VersionsInv, CertsTypeOK, Secrets
  <2>3. hand' \in [Replicas -> Secrets] /\ lastId' \in Nat
    BY <2>1 DEF VersionsInv, CertsTypeOK
  <2>4. CASE secret' = [secret EXCEPT !.rv = lastId + 1, !.valid = FALSE]
    <3>1. /\ secret' \in Secrets /\ secret'.rv = lastId + 1
          /\ secret'.ca = secret.ca
      <4>1. lastId + 1 \in Nat
        BY <2>1
      <4>2. ASSUME NEW s \in Secrets, NEW v \in Nat
            PROVE  LET t == [s EXCEPT !.rv = v, !.valid = FALSE]
                   IN t \in Secrets /\ t.rv = v /\ t.ca = s.ca
        BY DEF Secrets
      <4> QED
        BY <2>1, <2>4, <4>1, <4>2
    <3>2. \A q \in Replicas : hand'[q].rv <= lastId' /\ hand'[q].rv # secret'.rv
      BY <2>1, <2>2, <3>1
    <3>3. secret'.rv \in 1..lastId'
      BY <2>1, <3>1
    <3> QED
      BY <2>3, <3>1, <3>2, <3>3 DEF VersionsInv, CertsTypeOK, KeepsCA
  <2>5. CASE secret' = [secret EXCEPT !.valid = FALSE, !.usable = FALSE]
    <3>1. /\ secret' \in Secrets /\ secret'.rv = secret.rv
          /\ secret'.ca = secret.ca /\ ~secret'.usable
      BY <2>1, <2>5 DEF Secrets
    <3>2. \A q \in Replicas :
            /\ hand'[q].rv <= lastId'
            /\ hand'[q].rv = secret'.rv => hand'[q].ca = secret'.ca
      BY <2>1, <2>2, <3>1 DEF VersionsInv
    <3>3. secret'.rv \in 1..lastId'
      BY <2>1, <3>1
    <3> QED
      BY <2>3, <3>1, <3>2, <3>3 DEF VersionsInv, CertsTypeOK, KeepsCA
  <2>6. CASE secret' = Missing
    <3>1. \A q \in Replicas : hand'[q].rv <= lastId'
      BY <2>1, <2>2
    <3> QED
      BY <2>3, <2>6, <3>1 DEF VersionsInv, CertsTypeOK, KeepsCA
  <2> QED
    BY <1>5, <2>4, <2>5, <2>6 DEF EditSecret
<1>6. ASSUME NEW m \in Replicas,
             \/ GetItem(m) \/ WriteDir(m) \/ Initialize(m)
             \/ GetConfig(m, "mutating", "mutating get", "validating get")
             \/ GetConfig(m, "validating", "validating get", "mutating")
             \/ UpdateConfig(m, "mutating", "mutating", "validating")
             \/ UpdateConfig(m, "validating", "validating", "done")
             \/ SyncFails(m) \/ RestartReplica(m)
      PROVE  UNCHANGED <<secret, lastId, hand>>
  BY <1>6 DEF GetItem, WriteDir, Initialize, GetConfig, UpdateConfig, SyncFails,
              RestartReplica
<1>7. ASSUME EditConfig \/ UNCHANGED certVars
      PROVE  UNCHANGED <<secret, lastId, hand>>
  BY <1>7 DEF EditConfig, certVars
<1>8. ASSUME NEW m \in Replicas, sync(m)
      PROVE  VersionsInv' /\ KeepsCA
  BY <1>1, <1>2, <1>3, <1>4, <1>6, <1>8 DEF sync
<1> QED
  BY <1>1, <1>5, <1>6, <1>7, <1>8 DEF CertsNext

\* CAKept: no replica replaces a CA that can still sign, whatever it has read
\* before others wrote the secret (overwrite, Generate).
THEOREM UsableCAKept == CertsSpec => CAKept
<1>1. VersionsInv /\ [CertsNext]_certVars => VersionsInv'
  BY VersionsStep
<1>2. VersionsInv /\ [CertsNext]_certVars
        => [secret # Missing /\ secret' # Missing /\ secret.usable
              => secret'.ca = secret.ca]_certVars
  BY VersionsStep DEF KeepsCA
<1> QED
  BY <1>1, <1>2, VersionsInit, PTL DEF CertsSpec, CAKept
===============================================================================
