-------------------------------- MODULE CertDir --------------------------------
(***************************************************************************)
(* The directory with the certificates of a webhook.  WriteCertsToDir      *)
(* (webhook/util/writer/fs.go) writes them with the atomic writer          *)
(* (webhook/util/writer/atomic/atomic_writer.go): every file is a link     *)
(* into ..data, which is a link to a timestamped directory, and ..data is  *)
(* replaced by renaming ..data_tmp.  A CertWatcher (util/certwatcher) of   *)
(* another process reads the certificate and the key, watches the two      *)
(* files, and reads them again when they are removed.                      *)
(*                                                                         *)
(* Payload 0 is what the directory holds as plain files before the first   *)
(* write; later payloads keep the CA of payload 1.  The names of the files *)
(* never change, so that no path is ever to be removed.                    *)
(***************************************************************************)
EXTENDS Integers, FiniteSets

CONSTANTS MaxWrites,  \* payloads to write
          MaxFaults   \* crashes of the writer and failed calls

ASSUME CertDirBounds == MaxWrites \in Nat /\ MaxFaults \in Nat

Files == {"ca", "cert", "key"}
Pair == {"cert", "key"}      \* what the CertWatcher reads
None == -1

\* certToProjectionMap: what is in a file of payload p.
FileData(p, f) == IF f = "ca" /\ p > 0 THEN 1 ELSE p

VARIABLES plain,   \* files that are no links
          link,    \* files that are links into ..data
          dirs,    \* timestamped directories: file |-> data
          data,    \* where ..data leads, 0 when it does not exist
          tmp,     \* where ..data_tmp leads, 0 when it does not exist
          writer,  \* [at, payload, old, new]
          faults,
          watcher, \* [at, start, cert]
          current, \* payload of currentCert
          watch,   \* the directory whose file is watched
          events,  \* removed files the watcher has not heard of
          missed   \* the watcher cannot hear of some change

diskVars == <<plain, link, dirs, data, tmp>>
watchVars == <<watcher, current, watch, events, missed>>
dirVars == <<diskVars, writer, faults, watchVars>>

Inode(f) == IF f \in plain THEN 0
            ELSE IF f \in link /\ data # 0 /\ f \in DOMAIN dirs[data] THEN data
            ELSE None

Readable(f) == Inode(f) # None
ReadFile(f) == IF f \in plain THEN FileData(0, f) ELSE dirs[data][f]

DirInit ==
  /\ plain \in {{}, Files}
  /\ link = {}
  /\ dirs = <<>>
  /\ data = 0
  /\ tmp = 0
  /\ writer = [at |-> "idle", payload |-> 0, old |-> 0, new |-> 0]
  /\ faults = 0
  /\ watcher = [at |-> "off", start |-> TRUE, cert |-> None]
  /\ current = None
  /\ watch = [f \in Pair |-> None]
  /\ events = {}
  /\ missed = FALSE

\* Files that are removed from directory d: the watcher gets an event for each
\* that it watches.
Removed(gone, d) ==
  LET heard == {f \in gone \cap Pair : watch[f] = d}
  IN /\ events' = events \cup heard
     /\ watch' = [f \in Pair |-> IF f \in heard THEN None ELSE watch[f]]

Put(fn, x, v) == [y \in DOMAIN fn \cup {x} |-> IF y = x THEN v ELSE fn[y]]

Drop(d) == [e \in DOMAIN dirs \ {d} |-> dirs[e]]

(***************************************************************************)
(* WriteCertsToDir, again with the last payload or with a new one.         *)
(***************************************************************************)
WriteCertsToDir ==
  /\ writer.at = "idle"
  /\ \E p \in {writer.payload, writer.payload + 1} \cap 1..MaxWrites :
       writer' = [writer EXCEPT !.at = "prepare", !.payload = p]
  /\ UNCHANGED <<diskVars, faults, watchVars>>

\* prepareToWrite removes what is no link.
prepareToWrite ==
  /\ writer.at = "prepare"
  /\ \E f \in plain : /\ plain' = plain \ {f}
                      /\ Removed({f}, 0)
  /\ UNCHANGED <<link, dirs, data, tmp, writer, faults, watcher,
                 current, missed>>

\* As shouldWritePayload, but one file that is the same is enough.
shouldWritePayloadAll ==
  data # 0 => \A f \in Files : \/ f \notin DOMAIN dirs[data]
                               \/ dirs[data][f] # FileData(writer.payload, f)

shouldWritePayload ==
  data # 0 => \E f \in Files : \/ f \notin DOMAIN dirs[data]
                               \/ dirs[data][f] # FileData(writer.payload, f)

\* A name that no timestamped directory has.
NewName == CHOOSE d \in 1..(Cardinality(DOMAIN dirs) + 1) : d \notin DOMAIN dirs

\* As NewTimestampDir, without waiting for prepareToWrite.
NewTimestampDirUnprepared ==
  /\ writer.at = "prepare"
  /\ IF shouldWritePayload
     THEN LET d == NewName
          IN /\ dirs' = Put(dirs, d, <<>>)
             /\ writer' = [writer EXCEPT !.at = "write", !.old = data,
                                         !.new = d]
     ELSE /\ writer' = [writer EXCEPT !.at = "idle"]
          /\ UNCHANGED dirs
  /\ UNCHANGED <<plain, link, data, tmp, faults, watchVars>>

\* Write, steps 1 to 5: nothing to do, or a new timestamped directory.
NewTimestampDir ==
  /\ writer.at = "prepare"
  /\ plain = {}
  /\ IF shouldWritePayload
     THEN LET d == NewName
          IN /\ dirs' = Put(dirs, d, <<>>)
             /\ writer' = [writer EXCEPT !.at = "write", !.old = data,
                                         !.new = d]
     ELSE /\ writer' = [writer EXCEPT !.at = "idle"]
          /\ UNCHANGED dirs
  /\ UNCHANGED <<plain, link, data, tmp, faults, watchVars>>

\* Step 6, one file after the other.
writePayloadToDir ==
  /\ writer.at = "write"
  /\ LET new == dirs[writer.new]
     IN IF DOMAIN new = Files
        THEN /\ writer' = [writer EXCEPT !.at = "links"]
             /\ UNCHANGED dirs
        ELSE /\ \E f \in Files \ DOMAIN new :
                  dirs' = [dirs EXCEPT ![writer.new] =
                             Put(new, f, FileData(writer.payload, f))]
             /\ UNCHANGED writer
  /\ UNCHANGED <<plain, link, data, tmp, faults, watchVars>>

\* Step 7: the links that do not exist yet.
createUserVisibleFiles ==
  /\ writer.at = "links"
  /\ IF link \cup plain = Files
     THEN /\ writer' = [writer EXCEPT !.at = "tmp"]
          /\ UNCHANGED link
     ELSE /\ \E f \in Files \ (link \cup plain) : link' = link \cup {f}
          /\ UNCHANGED writer
  /\ UNCHANGED <<plain, dirs, data, tmp, faults, watchVars>>

\* Step 8 fails, and gives the new directory up, when ..data_tmp exists.
SymlinkTmp ==
  /\ writer.at = "tmp"
  /\ IF tmp = 0
     THEN /\ tmp' = writer.new
          /\ writer' = [writer EXCEPT !.at = "rename"]
          /\ UNCHANGED dirs
     ELSE /\ dirs' = Drop(writer.new)
          /\ writer' = [writer EXCEPT !.at = "idle"]
          /\ UNCHANGED tmp
  /\ UNCHANGED <<plain, link, data, faults, watchVars>>

\* Step 9.  A watcher that has read the old files and does not watch them yet
\* misses this change.
RenameTmp ==
  /\ writer.at = "rename"
  /\ data' = tmp
  /\ tmp' = 0
  /\ writer' = [writer EXCEPT !.at = "remove"]
  /\ missed' = (missed \/ (watcher.start /\ watcher.at \in {"key", "add"}))
  /\ UNCHANGED <<plain, link, dirs, faults, watcher, current, watch,
                 events>>

RenameFails ==
  /\ writer.at = "rename"
  /\ faults < MaxFaults
  /\ faults' = faults + 1
  /\ tmp' = 0
  /\ dirs' = Drop(writer.new)
  /\ writer' = [writer EXCEPT !.at = "idle"]
  /\ UNCHANGED <<plain, link, data, watchVars>>

\* Step 11: the files of the old directory, and then the directory.
RemoveOld ==
  /\ writer.at = "remove"
  /\ IF writer.old = 0 \/ DOMAIN dirs[writer.old] = {}
     THEN /\ dirs' = Drop(writer.old)
          /\ writer' = [writer EXCEPT !.at = "idle"]
          /\ UNCHANGED <<events, watch>>
     ELSE /\ \E f \in DOMAIN dirs[writer.old] :
               /\ dirs' = [dirs EXCEPT ![writer.old] =
                             [g \in DOMAIN @ \ {f} |-> @[g]]]
               /\ Removed({f}, writer.old)
          /\ UNCHANGED writer
  /\ UNCHANGED <<plain, link, data, tmp, faults, watcher, current,
                 missed>>

\* The writer dies, or one of its calls fails and it returns the error without
\* cleaning up.  What is not removed any more gives no event.
Abort ==
  /\ writer.at # "idle"
  /\ faults < MaxFaults
  /\ faults' = faults + 1
  /\ writer' = [writer EXCEPT !.at = "idle"]
  /\ missed' = (missed \/ /\ writer.at = "remove"
                          /\ \E f \in Pair : watch[f] = writer.old)
  /\ UNCHANGED <<diskVars, watcher, current, watch, events>>

WriterStep == \/ WriteCertsToDir \/ prepareToWrite \/ NewTimestampDir
              \/ writePayloadToDir \/ createUserVisibleFiles \/ SymlinkTmp
              \/ RenameTmp \/ RemoveOld

(***************************************************************************)
(* The CertWatcher.                                                        *)
(***************************************************************************)

\* New, once ensureCerts has found the files: the first ReadCertificate.
NewCertWatcher ==
  /\ watcher.at = "off"
  /\ \A f \in Pair : Readable(f)
  /\ watcher' = [at |-> "cert", start |-> TRUE, cert |-> None]
  /\ watch' = [f \in Pair |-> None]
  /\ events' = {}
  /\ missed' = FALSE
  /\ UNCHANGED <<diskVars, writer, faults, current>>

\* ReadCertificate fails: the process ends in New, otherwise nothing changes.
ReadFailed == watcher' = [watcher EXCEPT !.at = IF watcher.start THEN "off"
                                                ELSE "wait"]

\* ReadCertificate reads the certificate and then the key, which must match.
ReadCert ==
  /\ watcher.at = "cert"
  /\ IF Readable("cert")
     THEN watcher' = [watcher EXCEPT !.at = "key", !.cert = ReadFile("cert")]
     ELSE ReadFailed
  /\ UNCHANGED <<diskVars, writer, faults, current, watch, events, missed>>

ReadKey ==
  /\ watcher.at = "key"
  /\ IF Readable("key") /\ ReadFile("key") = watcher.cert
     THEN /\ current' = watcher.cert
          /\ watcher' = [watcher EXCEPT !.at = IF watcher.start THEN "add"
                                               ELSE "wait"]
     ELSE /\ ReadFailed
          /\ UNCHANGED current
  /\ UNCHANGED <<diskVars, writer, faults, watch, events, missed>>

\* Start watches both files; the process ends when one is not there.
StartWatch ==
  /\ watcher.at = "add"
  /\ IF \A f \in Pair : Readable(f)
     THEN /\ watch' = [f \in Pair |-> Inode(f)]
          /\ watcher' = [watcher EXCEPT !.at = "wait", !.start = FALSE]
     ELSE /\ watcher' = [watcher EXCEPT !.at = "off"]
          /\ UNCHANGED watch
  /\ UNCHANGED <<diskVars, writer, faults, current, events, missed>>

\* As handleEvent, but the file is not watched again.
handleEventOnce ==
  /\ watcher.at = "wait"
  /\ \E f \in events :
       /\ events' = events \ {f}
       /\ watch' = [watch EXCEPT ![f] = None]
       /\ missed' = (missed \/ ~Readable(f))
  /\ watcher' = [watcher EXCEPT !.at = "cert"]
  /\ UNCHANGED <<diskVars, writer, faults, current>>

\* handleEvent of a removed file: watch what is there now, and read again.
\* The error of a file that is not there is only logged.
handleEvent ==
  /\ watcher.at = "wait"
  /\ \E f \in events :
       /\ events' = events \ {f}
       /\ watch' = [watch EXCEPT ![f] = Inode(f)]
       /\ missed' = (missed \/ ~Readable(f))
  /\ watcher' = [watcher EXCEPT !.at = "cert"]
  /\ UNCHANGED <<diskVars, writer, faults, current>>

WatcherStep == NewCertWatcher \/ ReadCert \/ ReadKey \/ StartWatch \/ handleEvent

DirNext == WriterStep \/ RenameFails \/ Abort \/ WatcherStep

DirSpec == DirInit /\ [][DirNext]_dirVars

\* A process that has something to do goes on; a failed write is tried again
\* by the work queue or after a restart.
DirFairSpec == DirSpec /\ WF_dirVars(WriterStep) /\ WF_dirVars(WatcherStep)

(***************************************************************************)
(* Properties                                                              *)
(***************************************************************************)

\* The payload that a reader of the certificate finds.
Shown == IF Readable("cert") THEN ReadFile("cert") ELSE None

\* Whoever opens the files finds the files of one payload, and all of them
\* once there is a first one, wherever the writer is and wherever it has died
\* (the order of the steps of Write, prepareToWrite).
OnePayload ==
  /\ \E p \in 0..MaxWrites : \A f \in Files :
       Readable(f) => ReadFile(f) = FileData(p, f)
  /\ data # 0 => \A f \in Files : Readable(f)

\* After the last crash the payload that was asked for last is in the
\* directory, unless a crash has left ..data_tmp behind, with which every
\* later Write fails (Write, shouldWritePayload).
WriteRecovers == <>[](Shown = writer.payload \/ tmp # 0)

\* The watcher ends up with the certificate that is in the directory, whatever
\* it reads while the directory changes, unless it cannot hear of a change
\* (handleEvent, ReadCertificate).
NewestServed == <>[](missed \/ Shown \in {None, current})
===============================================================================
