----------------------------- MODULE WebhookCerts -----------------------------
(***************************************************************************)
(* Every replica of the manager runs the webhook controller                *)
(* (webhook/util/controller/webhook_controller.go): sync makes sure that   *)
(* there is a valid certificate in the secret (webhook/util/writer), with  *)
(* a generated CA (webhook/util/generator), writes it to the replica's     *)
(* directory and puts the CA into both webhook configurations.  Nobody is  *)
(* the leader here: the replicas share the secret and the configurations   *)
(* and only the resource versions keep them apart.                         *)
(*                                                                         *)
(* A CA and a certificate are numbers.  Writing to the directory is one    *)
(* step here; module CertDir has its steps.                                *)
(***************************************************************************)
EXTENDS Integers

CONSTANTS Replicas, Missing,
          MaxEdits,   \* changes to the objects by others, and the time
          MaxErrors   \* failed calls and restarts

VARIABLES secret,     \* Missing, or [rv, ca, cert, valid, usable]
          config,     \* the two webhook configurations: [rv, ca]
          lastId,     \* the last number given to a version of the secret, to
                      \* a CA or to a certificate
          at,         \* where each replica's sync is
          hand,       \* the certificates it has
          read,       \* the configurations it has got
          queued,     \* there is a key in its queue
          dir,        \* the certificates in its directory
          initialized,\* Initialized() is closed
          edits, errors

certVars == <<secret, config, lastId, at, hand, read, queued, dir, initialized,
              edits, errors>>

Kinds == {"mutating", "validating"}
Empty == [rv |-> 0, ca |-> 0, cert |-> 0, valid |-> FALSE, usable |-> FALSE]

CertsInit ==
  /\ secret = Missing
  /\ config = [k \in Kinds |-> [rv |-> 1, ca |-> 0]]
  /\ lastId = 0
  /\ at = [m \in Replicas |-> "idle"]
  /\ hand = [m \in Replicas |-> Empty]
  /\ read = [m \in Replicas |-> [k \in Kinds |-> [rv |-> 0, ca |-> 0]]]
  /\ queued = [m \in Replicas |-> TRUE]
  /\ dir = [m \in Replicas |-> Empty]
  /\ initialized = [m \in Replicas |-> FALSE]
  /\ edits = 0
  /\ errors = 0

Goto(m, where) == at' = [at EXCEPT ![m] = where]

\* The event handlers of New: every replica has something to do.
Notify == queued' = [m \in Replicas |-> TRUE]

\* As RateLimited, but the key is not added again.
RateLimitedForgotten(m) == /\ Goto(m, "idle")
                  /\ UNCHANGED queued

\* processNextWorkItem after sync has returned an error.
RateLimited(m) == /\ Goto(m, "idle")
                  /\ queued' = [queued EXCEPT ![m] = TRUE]

\* processNextWorkItem: a new sync, with a new writer and a new generator.
GetItem(m) ==
  /\ at[m] = "idle"
  /\ queued[m]
  /\ queued' = [queued EXCEPT ![m] = FALSE]
  /\ Goto(m, "read")
  /\ UNCHANGED <<secret, config, lastId, hand, read, dir, initialized, edits,
                 errors>>

\* read, and validCert on what there is; createIfNotExists reads a second time
\* when another replica has been faster to create the secret.
ReadSecret(m) ==
  /\ at[m] \in {"read", "reread"}
  /\ IF secret # Missing
     THEN /\ hand' = [hand EXCEPT ![m] = secret]
          /\ Goto(m, IF secret.valid THEN "dir" ELSE "overwrite")
          /\ UNCHANGED queued
     ELSE /\ IF at[m] = "read" THEN Goto(m, "create") /\ UNCHANGED queued
             ELSE RateLimited(m)
          /\ UNCHANGED hand
  /\ UNCHANGED <<secret, config, lastId, read, dir, initialized, edits, errors>>

\* Generate: a new certificate, signed by the CA that was read if that is good
\* for another year, otherwise by a new one.
Generate(certs) ==
  [ca |-> IF certs.usable THEN certs.ca ELSE lastId + 1,
   cert |-> lastId + 1, valid |-> TRUE, usable |-> TRUE]

certsToSecret(certs, rv) ==
  [rv |-> rv, ca |-> certs.ca, cert |-> certs.cert, valid |-> certs.valid,
   usable |-> certs.usable]

\* The secret made from what the generator gives, which has got the CA that
\* was read.
buildSecret(certs) == certsToSecret(Generate(certs), lastId + 1)

Store(m, new) ==
  /\ secret' = new
  /\ hand' = [hand EXCEPT ![m] = new]
  /\ lastId' = lastId + 1
  /\ Goto(m, "dir")
  /\ Notify

\* write
CreateSecret(m) ==
  /\ at[m] = "create"
  /\ IF secret = Missing
     THEN Store(m, buildSecret(Empty))
     ELSE /\ Goto(m, "reread")
          /\ UNCHANGED <<secret, hand, lastId, queued>>
  /\ UNCHANGED <<config, read, dir, initialized, edits, errors>>

\* As overwrite, but the update is of whatever version there is.
overwriteUnversioned(m) ==
  /\ at[m] = "overwrite"
  /\ IF secret # Missing
     THEN Store(m, buildSecret(hand[m]))
     ELSE /\ RateLimited(m)
          /\ UNCHANGED <<secret, hand, lastId>>
  /\ UNCHANGED <<config, read, dir, initialized, edits, errors>>

\* overwrite: the update must be of the version that was read.
overwrite(m) ==
  /\ at[m] = "overwrite"
  /\ IF secret # Missing /\ secret.rv = hand[m].rv
     THEN Store(m, buildSecret(hand[m]))
     ELSE /\ RateLimited(m)
          /\ UNCHANGED <<secret, hand, lastId>>
  /\ UNCHANGED <<config, read, dir, initialized, edits, errors>>

WriteDir(m) ==
  /\ at[m] = "dir"
  /\ dir' = [dir EXCEPT ![m] = hand[m]]
  /\ Goto(m, "mutating get")
  /\ UNCHANGED <<secret, config, lastId, hand, read, queued, initialized, edits,
                 errors>>

(***************************************************************************)
(* ensureConfigurations                                                    *)
(***************************************************************************)
GetConfig(m, k, from, to) ==
  /\ at[m] = from
  /\ read' = [read EXCEPT ![m][k] = config[k]]
  /\ Goto(m, to)
  /\ UNCHANGED <<secret, config, lastId, hand, queued, dir, initialized, edits,
                 errors>>

\* No update without a difference, and none of another version.
UpdateConfig(m, k, from, to) ==
  /\ at[m] = from
  /\ \/ /\ read[m][k].ca = hand[m].ca
        /\ Goto(m, to)
        /\ UNCHANGED <<config, queued>>
     \/ /\ read[m][k].ca # hand[m].ca
        /\ read[m][k].rv = config[k].rv
        /\ config' = [config EXCEPT ![k] = [rv |-> @.rv + 1, ca |-> hand[m].ca]]
        /\ Goto(m, to)
        /\ Notify
     \/ /\ read[m][k].ca # hand[m].ca
        /\ read[m][k].rv # config[k].rv
        /\ RateLimited(m)
        /\ UNCHANGED config
  /\ UNCHANGED <<secret, lastId, hand, read, dir, initialized, edits, errors>>

\* sync returns.
Initialize(m) ==
  /\ at[m] = "done"
  /\ initialized' = [initialized EXCEPT ![m] = TRUE]
  /\ Goto(m, "idle")
  /\ UNCHANGED <<secret, config, lastId, hand, read, queued, dir, edits, errors>>

sync(m) ==
  \/ GetItem(m) \/ ReadSecret(m) \/ CreateSecret(m) \/ overwrite(m) \/ WriteDir(m)
  \/ GetConfig(m, "mutating", "mutating get", "validating get")
  \/ GetConfig(m, "validating", "validating get", "mutating")
  \/ UpdateConfig(m, "mutating", "mutating", "validating")
  \/ UpdateConfig(m, "validating", "validating", "done")
  \/ Initialize(m)

(***************************************************************************)
(* The environment                                                         *)
(***************************************************************************)

\* A call of sync fails.
SyncFails(m) ==
  /\ at[m] # "idle"
  /\ errors < MaxErrors
  /\ errors' = errors + 1
  /\ RateLimited(m)
  /\ UNCHANGED <<secret, config, lastId, hand, read, dir, initialized, edits>>

\* A replica dies; it starts with the directory or without it, and the
\* informers add all the objects.
RestartReplica(m) ==
  /\ errors < MaxErrors
  /\ errors' = errors + 1
  /\ RateLimited(m)
  /\ \E d \in {dir[m], Empty} : dir' = [dir EXCEPT ![m] = d]
  /\ initialized' = [initialized EXCEPT ![m] = FALSE]
  /\ UNCHANGED <<secret, config, lastId, hand, read, edits>>

Edit == edits < MaxEdits /\ edits' = edits + 1

\* The certificate is made useless by an update of the secret (the CA is not),
\* or the CA comes close to its end and the certificate with it, of which
\* nobody is told, or the secret is deleted, of which nobody is told either.
EditSecret ==
  /\ Edit
  /\ secret # Missing
  /\ \/ /\ secret' = [secret EXCEPT !.rv = lastId + 1, !.valid = FALSE]
        /\ Notify
     \/ /\ secret' = [secret EXCEPT !.valid = FALSE, !.usable = FALSE]
        /\ UNCHANGED queued
     \/ /\ secret' = Missing
        /\ UNCHANGED queued
  /\ lastId' = lastId + 1
  /\ UNCHANGED <<config, at, hand, read, dir, initialized, errors>>

\* A configuration is applied again, without a CA.
EditConfig ==
  /\ Edit
  /\ \E k \in Kinds : config' = [config EXCEPT ![k] = [rv |-> @.rv + 1, ca |-> 0]]
  /\ Notify
  /\ UNCHANGED <<secret, lastId, at, hand, read, dir, initialized, errors>>

CertsNext == \/ EditSecret \/ EditConfig
             \/ \E m \in Replicas : sync(m) \/ SyncFails(m) \/ RestartReplica(m)

CertsSpec == CertsInit /\ [][CertsNext]_certVars

\* The worker of every replica goes on, also after errors.
CertsFairSpec == CertsSpec /\ \A m \in Replicas : WF_certVars(sync(m))

(***************************************************************************)
(* Properties                                                              *)
(***************************************************************************)

\* However the replicas overtake each other, in the end each has the
\* certificate of the secret in its directory, both configurations have the
\* CA of it, and every replica is initialized (sync, ensureConfigurations,
\* the event handlers of New).
CertsConverge ==
  <>[](secret # Missing =>
         /\ \A m \in Replicas : /\ dir[m].cert = secret.cert
                                 /\ initialized[m]
         /\ \A k \in Kinds : config[k].ca = secret.ca)

\* A CA that can still sign is never replaced in the secret, not even by a
\* replica that has read the secret before it was there (overwrite, Generate).
CAKept ==
  [][secret # Missing /\ secret' # Missing /\ secret.usable
     => secret'.ca = secret.ca]_certVars
===============================================================================
