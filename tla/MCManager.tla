------------------------------- MODULE MCManager -------------------------------
(***************************************************************************)
(* The parts of the managers that share no state with each other, for the  *)
(* model checker: the directory with the certificates, the certificates in *)
(* the cluster, the ManagerState with the proxies that look for the        *)
(* leader, and the injection of pods.  A behaviour is one of one part, the *)
(* others rest.                                                            *)
(***************************************************************************)
EXTENDS CertDir, WebhookCerts, ManagerState, PodInjection

VARIABLE part

managerVars == <<part, dirVars, certVars, stateVars, injectVars>>

(***************************************************************************)
(* The pods: one that can be injected, one in the manager's namespace, and *)
(* one whose containers know the apiserver by two addresses.               *)
(***************************************************************************)
Container(host, mounts) ==
  [env |-> [KUBERNETES_SERVICE_HOST |-> host, KUBERNETES_SERVICE_PORT |-> Unset],
   mounts |-> mounts]

CertMount == [volume |-> "certs", path |-> "/certs"]

Pod(namespace, containers) ==
  [NoPod EXCEPT !.namespace = namespace, !.labels = {"x"},
                !.containers = containers]

MCPods ==
  {Pod("app", <<Container("h", <<>>), Container("h", <<CertMount>>)>>),
   Pod("app", <<Container("h", <<CertMount>>), Container("i", <<>>)>>),
   Pod("manager", <<Container(Unset, <<CertMount>>)>>)}

\* Two VirtualApps that select the same pods.
VApp(name, webhook) ==
  [name |-> name, valid |-> TRUE, selector |-> {"x"}, controller |-> "lock",
   webhook |-> webhook, userAgent |-> Unset]

MCVApps == {VApp("a", [port |-> "443", certDir |-> "/certs"]), VApp("b", Unset)}

MCExtraEnvs == <<<<"KEY", "value">>, <<"novalue">>>>
MCPullSecrets == <<"s1", "s2">>

(***************************************************************************)
(* The parts                                                               *)
(***************************************************************************)

ManagerInit ==
  /\ part \in {"dir", "certs", "state", "inject"}
  /\ DirInit
  /\ part # "dir" => plain = {}
  /\ CertsInit
  /\ StateInit
  /\ InjectInit
  /\ part # "inject" => apps = {} /\ secrets = {}

ManagerNext ==
  /\ UNCHANGED part
  /\ \/ part = "dir" /\ DirNext /\ UNCHANGED <<certVars, stateVars, injectVars>>
     \/ part = "certs" /\ CertsNext /\ UNCHANGED <<dirVars, stateVars, injectVars>>
     \/ part = "state" /\ StateNext /\ UNCHANGED <<dirVars, certVars, injectVars>>
     \/ part = "inject" /\ InjectNext /\ UNCHANGED <<dirVars, certVars, stateVars>>

\* The fairness of each part is that of its module.
ManagerSpec ==
  /\ ManagerInit /\ [][ManagerNext]_managerVars
  /\ WF_dirVars(part = "dir" /\ WriterStep)
  /\ WF_dirVars(part = "dir" /\ WatcherStep)
  /\ \A m \in Replicas : WF_certVars(part = "certs" /\ sync(m))
  /\ WF_stateVars(part = "state" /\ StartRegistry)
  /\ WF_stateVars(part = "state" /\ LeaseExpires)
  /\ WF_stateVars(part = "state" /\ (Reconcile \/ CallReturns))
  /\ WF_stateVars(part = "state" /\ StateEvent)
  /\ WF_stateVars(part = "state" /\ PodEvent)
  /\ WF_stateVars(part = "state" /\ LateCall)
  /\ WF_stateVars(part = "state" /\ \E m \in Managers : Lead(m))
  /\ \A m \in Managers :
       /\ WF_stateVars(part = "state" /\ WaitReady(m))
       /\ WF_stateVars(part = "state" /\ m \in ending /\ Exit(m))
  /\ \A p \in Proxies : /\ WF_stateVars(part = "state" /\ ListerEvent(p))
                        /\ WF_stateVars(part = "state" /\ connect(p))

\* WriteRecovers: the payload asked for last gets into the directory, unless a
\* crash has left ..data_tmp there (Write).
PartWritten == part = "dir" => WriteRecovers

\* NewestServed: the CertWatcher ends up with the certificate in the directory
\* (handleEvent, ReadCertificate).
PartServed == part = "dir" => NewestServed

\* CertsConverge: the replicas agree in the end on the secret, the directories
\* and the configurations (sync).
PartConverged == part = "certs" => CertsConverge

\* LeaderPublished: in the end the ManagerState names the leader (Reconcile).
PartPublished == part = "state" => LeaderPublished

\* ProxiesConnected: in the end every proxy has a stream to it (connect).
PartConnected == part = "state" => ProxiesConnected
===============================================================================
