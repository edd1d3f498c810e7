----------------------------- MODULE PodInjection -----------------------------
(***************************************************************************)
(* The webhook that injects the proxy into a pod when the pod is created   *)
(* (webhook/pod).  It looks for the one VirtualApp that selects the pod,   *)
(* puts an init container and the proxy in front of the pod's containers,  *)
(* and copies the pull secrets of the proxy's image into the namespace of  *)
(* the pod when they are missing there.  Creations run concurrently, and   *)
(* the handler reads VirtualApps and secrets from a cache.                 *)
(*                                                                         *)
(* The secrets are those of one namespace of pods; the manager's own       *)
(* namespace is the other.                                                 *)
(***************************************************************************)
EXTENDS Integers, Sequences, FiniteSets, SequencesExt

CONSTANTS Creations,      \* creations of pods
          Pods,           \* what may be asked for: [namespace, labels,
                          \* hostNetwork, containers]
          VApps,          \* [name, valid, selector, controller, webhook,
                          \* userAgent]
          ExtraEnvs,      \* --proxy-extra-envs, split at ";" and "="
          PullSecrets,    \* --proxy-image-pull-secrets, split
          ManagerSecrets, \* which of them the manager's namespace has
          ImagesSet,      \* --init-image and --proxy-image are set
          MaxChanges,     \* bound on changes to the VirtualApps
          MaxFailures,    \* bound on calls that fail
          Unset

VARIABLES apps, appCache,       \* the VirtualApps, and the manager's cache
          secrets, secretCache, \* the secrets in the pods' namespace
          stage,                \* where each creation is
          pod,                  \* its pod
          matched,              \* the VirtualApp that selects it
          todo,                 \* the pull secrets still to be looked for
          refs,                 \* those that were found
          before,               \* the cached secrets when it began to look
          changes, failures

clusterVars == <<apps, appCache, secrets, secretCache, changes>>
injectVars == <<clusterVars, stage, pod, matched, todo, refs, before, failures>>

\* Names of secrets: of a pull secret, and of the copy of one.
secretName(s) == <<s>>
injectionSecretName(s) == <<"ctrlmesh-injection", s>>

(***************************************************************************)
(* The edit of the pod                                                     *)
(***************************************************************************)

\* The values the containers of p give to the environment variable name.
EnvValues(p, name) ==
  {c.env[name] : c \in {c \in ToSet(p.containers) : c.env[name] # Unset}}

ServiceEnvs == {"KUBERNETES_SERVICE_HOST", "KUBERNETES_SERVICE_PORT"}

\* getKubernetesServiceHostPort: the containers must agree on each.
EnvConflict(p) == \E n \in ServiceEnvs : Cardinality(EnvValues(p, n)) > 1
getKubernetesServiceHostPort(p) ==
  UNION {{[name |-> n, value |-> v] : v \in EnvValues(p, n)} : n \in ServiceEnvs}

\* The volumes that are mounted at dir, container by container.
getCertVolumeMounts(p, dir) ==
  SelectSeq(FlattenSeq([i \in DOMAIN p.containers |-> p.containers[i].mounts]),
            LAMBDA mount : mount.path = dir)

\* What has another number of "=" than one is left out.
getExtraEnvs ==
  {[name |-> kv[1], value |-> kv[2]] :
     kv \in {kv \in ToSet(ExtraEnvs) : Len(kv) = 2}}

meshVolume == [volume |-> "ctrlmesh-volume", path |-> "ctrlmesh"]

initContainer(p, app) ==
  [name |-> "ctrlmesh-init",
   env |-> getKubernetesServiceHostPort(p)
           \cup (IF app.webhook = Unset THEN {}
                 ELSE {[name |-> "INBOUND_WEBHOOK_PORT",
                        value |-> app.webhook.port]}),
   args |-> {}, mounts |-> <<meshVolume>>]

proxyContainer(p, app) ==
  [name |-> "ctrlmesh-proxy",
   env |-> getExtraEnvs \cup getKubernetesServiceHostPort(p),
   args |-> (IF app.controller = Unset THEN {}
             ELSE {[flag |-> "leader-election-name", value |-> app.controller]})
            \cup (IF app.webhook = Unset THEN {}
                  ELSE {[flag |-> "webhook-cert-dir",
                         value |-> app.webhook.certDir],
                        [flag |-> "webhook-serve-port",
                         value |-> app.webhook.port]})
            \cup (IF app.userAgent = Unset THEN {}
                  ELSE {[flag |-> "user-agent-override",
                         value |-> app.userAgent]}),
   mounts |-> <<meshVolume>>
              \o (IF app.webhook = Unset THEN <<>>
                  ELSE SubSeq(getCertVolumeMounts(p, app.webhook.certDir),
                              1, 1))]

\* The pod cannot be injected: the creation is denied.
InjectionFails(p, app) ==
  \/ p.hostNetwork
  \/ ~ImagesSet
  \/ EnvConflict(p)
  \/ app.webhook # Unset /\ Len(getCertVolumeMounts(p, app.webhook.certDir)) # 1

Injected(p, app) ==
  [p EXCEPT !.initContainers = <<initContainer(p, app)>> \o @,
            !.containers = <<proxyContainer(p, app)>> \o @,
            !.volumes = Append(@, meshVolume.volume)]

(***************************************************************************)
(* The handler                                                             *)
(***************************************************************************)
NoPod == [namespace |-> "", labels |-> {}, hostNetwork |-> FALSE,
          containers |-> <<>>, initContainers |-> <<>>, volumes |-> <<>>,
          injectedBy |-> Unset]

InjectInit ==
  /\ apps \in SUBSET VApps
  /\ appCache = apps
  /\ secrets \in SUBSET {secretName(s) : s \in ToSet(PullSecrets)}
  /\ secretCache = secrets
  /\ stage = [c \in Creations |-> "request"]
  /\ pod = [c \in Creations |-> NoPod]
  /\ matched = [c \in Creations |-> Unset]
  /\ todo = [c \in Creations |-> <<>>]
  /\ refs = [c \in Creations |-> {}]
  /\ before = [c \in Creations |-> {}]
  /\ changes = 0
  /\ failures = 0

\* The VirtualApps that select p; one with an invalid selector is skipped.
Matching(p) == {a \in appCache : a.valid /\ a.selector \subseteq p.labels}

\* The creation of a pod arrives.  injectByVirtualApp up to the pull secrets:
\* the List may fail; no VirtualApp leaves the pod alone, two are an error.
Handle(c, p) ==
  LET deny == /\ stage' = [stage EXCEPT ![c] = "denied"]
              /\ UNCHANGED <<matched, todo, before>>
  IN
  /\ stage[c] = "request"
  /\ \/ /\ failures < MaxFailures
        /\ failures' = failures + 1
        /\ pod' = [pod EXCEPT ![c] = p]
        /\ deny
     \/ /\ UNCHANGED failures
        /\ \/ /\ Matching(p) = {}
              /\ stage' = [stage EXCEPT ![c] = "allowed"]
              /\ pod' = [pod EXCEPT ![c] = p]
              /\ UNCHANGED <<matched, todo, before>>
           \/ /\ Cardinality(Matching(p)) > 1
              /\ pod' = [pod EXCEPT ![c] = p]
              /\ deny
           \/ \E a \in VApps :
                /\ Matching(p) = {a}
                /\ IF InjectionFails(p, a)
                   THEN pod' = [pod EXCEPT ![c] = p] /\ deny
                   ELSE /\ pod' = [pod EXCEPT ![c] = Injected(p, a)]
                        /\ matched' = [matched EXCEPT ![c] = a]
                        /\ todo' = [todo EXCEPT ![c] = PullSecrets]
                        /\ before' = [before EXCEPT ![c] = secretCache]
                        /\ stage' = [stage EXCEPT ![c] = "get"]
  /\ UNCHANGED <<clusterVars, refs>>

\* getImagePullSecrets goes on with the next secret, with ref added.
NextSecret(c, found) ==
  /\ refs' = [refs EXCEPT ![c] = @ \cup found]
  /\ todo' = [todo EXCEPT ![c] = Tail(@)]
  /\ stage' = [stage EXCEPT ![c] = "get"]

\* In the manager's namespace the secrets are taken for granted; elsewhere the
\* namespace of the pod may have the secret.
GetSecret(c) ==
  /\ stage[c] = "get"
  /\ todo[c] # <<>>
  /\ LET s == Head(todo[c]) IN
     IF pod[c].namespace = "manager" \/ secretName(s) \in secretCache
     THEN NextSecret(c, {secretName(s)})
     ELSE /\ stage' = [stage EXCEPT ![c] = "getCopy"]
          /\ UNCHANGED <<todo, refs>>
  /\ UNCHANGED <<clusterVars, pod, matched, before, failures>>

\* As GetCopy, but the copy of another creation is not looked for.
GetCopyNever(c) ==
  /\ stage[c] = "getCopy"
  /\ LET s == Head(todo[c]) IN
     IF s \notin ManagerSecrets
     THEN NextSecret(c, {})
     ELSE /\ stage' = [stage EXCEPT ![c] = "create"]
          /\ UNCHANGED <<todo, refs>>
  /\ UNCHANGED <<clusterVars, pod, matched, before, failures>>

\* Or a copy of it; without a secret to copy the pod is injected without.
GetCopy(c) ==
  /\ stage[c] = "getCopy"
  /\ LET s == Head(todo[c]) IN
     CASE injectionSecretName(s) \in secretCache ->
            NextSecret(c, {injectionSecretName(s)})
       [] /\ injectionSecretName(s) \notin secretCache
          /\ s \notin ManagerSecrets -> NextSecret(c, {})
       [] OTHER -> /\ stage' = [stage EXCEPT ![c] = "create"]
                   /\ UNCHANGED <<todo, refs>>
  /\ UNCHANGED <<clusterVars, pod, matched, before, failures>>

\* The copy is created, unless it is there already or the call fails.
CreateCopy(c) ==
  LET copy == injectionSecretName(Head(todo[c])) IN
  /\ stage[c] = "create"
  /\ \/ /\ copy \notin secrets
        /\ secrets' = secrets \cup {copy}
        /\ NextSecret(c, {copy})
        /\ UNCHANGED failures
     \/ /\ copy \in secrets
        /\ NextSecret(c, {})
        /\ UNCHANGED <<secrets, failures>>
     \/ /\ failures < MaxFailures
        /\ failures' = failures + 1
        /\ NextSecret(c, {})
        /\ UNCHANGED secrets
  /\ UNCHANGED <<apps, appCache, secretCache, changes, pod, matched, before>>

\* injectByVirtualApp returns with the label that names the VirtualApp.
Respond(c) ==
  /\ stage[c] = "get"
  /\ todo[c] = <<>>
  /\ pod' = [pod EXCEPT ![c].injectedBy = matched[c].name]
  /\ stage' = [stage EXCEPT ![c] = "allowed"]
  /\ UNCHANGED <<clusterVars, matched, todo, refs, before, failures>>

HandlerStep(c) ==
  \/ \E p \in Pods : Handle(c, p)
  \/ GetSecret(c) \/ GetCopy(c) \/ CreateCopy(c) \/ Respond(c)

(***************************************************************************)
(* The environment                                                         *)
(***************************************************************************)

\* A VirtualApp is created or deleted.
ChangeApps ==
  /\ changes < MaxChanges
  /\ changes' = changes + 1
  /\ \E a \in VApps : apps' = IF a \in apps THEN apps \ {a} ELSE apps \cup {a}
  /\ UNCHANGED <<appCache, secrets, secretCache, stage, pod, matched, todo, refs,
                 before, failures>>

\* The caches catch up.
CacheEvent ==
  /\ <<appCache, secretCache>> # <<apps, secrets>>
  /\ appCache' = apps
  /\ secretCache' = secrets
  /\ UNCHANGED <<apps, secrets, changes, stage, pod, matched, todo, refs, before,
                 failures>>

InjectNext == \/ \E c \in Creations : HandlerStep(c)
              \/ ChangeApps \/ CacheEvent

InjectSpec == InjectInit /\ [][InjectNext]_injectVars

(***************************************************************************)
(* Properties                                                              *)
(***************************************************************************)

\* A pod that is injected with the proxy can pull its image: every pull secret
\* it refers to exists in its namespace, and it refers to each one that the
\* manager's cache had there, as it is or as a copy, when the handler began
\* to look, whatever other creations copied in between
\* (getImagePullSecrets).
PullSecretsKept ==
  LET names(s) == {secretName(s), injectionSecretName(s)} IN
  \A c \in Creations :
     stage[c] = "allowed" /\ matched[c] # Unset /\ pod[c].namespace # "manager" =>
       /\ refs[c] \subseteq secrets
       /\ \A s \in ToSet(PullSecrets) :
            names(s) \cap before[c] # {} =>
               names(s) \cap refs[c] # {}
===============================================================================
