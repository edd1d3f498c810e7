---------------------------- MODULE CertDirProofs ----------------------------
(***************************************************************************)
(* Proof that the files of a webhook's certificates are always those of    *)
(* one payload, for any number of writes, crashes and failed calls         *)
(* (DirSpec of CertDir).                                                   *)
(***************************************************************************)
EXTENDS CertDir, FiniteSetTheorems, TLAPS

Writing == {"write", "links", "tmp", "rename"}

DirTypeOK ==
  /\ plain \in SUBSET Files
  /\ link \in SUBSET Files
  /\ data \in Nat
  /\ tmp \in Nat
  /\ writer \in [at : {"idle", "prepare", "remove"} \cup Writing,
                 payload : 0..MaxWrites, old : Nat, new : Nat]
  /\ IsFiniteSet(DOMAIN dirs)

\* Directory d has all files of payload p.
Full(d, p) ==
  /\ d \in DOMAIN dirs
  /\ DOMAIN dirs[d] = Files
  /\ \A f \in Files : dirs[d][f] = FileData(p, f)

\* Plain files are there only before the first write has removed them all.
PlainFirst ==
  plain # {} => link = {} /\ data = 0 /\ writer.at \in {"idle", "prepare"}

\* What ..data leads to is complete, and every link leads there.
DataFull ==
  data # 0 => link = Files /\ \E p \in 1..MaxWrites : Full(data, p)

\* How far the writer is: its directory is not the one that is shown, and is
\* complete before it is.
WriterInv ==
  /\ writer.at = "prepare" => writer.payload \in 1..MaxWrites
  /\ writer.at \in Writing =>
       /\ writer.payload \in 1..MaxWrites
       /\ writer.new \in DOMAIN dirs
       /\ writer.new # 0 /\ writer.new # data /\ writer.old = data
  /\ writer.at = "write" =>
       \A f \in DOMAIN dirs[writer.new] :
         f \in Files /\ dirs[writer.new][f] = FileData(writer.payload, f)
  /\ writer.at \in {"links", "tmp", "rename"} => Full(writer.new, writer.payload)
  /\ writer.at \in {"tmp", "rename"} => link = Files
  /\ writer.at = "rename" => tmp = writer.new
  /\ writer.at = "remove" => writer.old # data

DirInv == DirTypeOK /\ PlainFirst /\ DataFull /\ WriterInv

\* The name of a new directory is no directory yet.
LEMMA NewNameIsNew ==
  ASSUME IsFiniteSet(DOMAIN dirs)
  PROVE  NewName \in Nat \ {0} /\ NewName \notin DOMAIN dirs
<1> DEFINE n == Cardinality(DOMAIN dirs)
<1>1. n \in Nat
  BY FS_CardinalityType
<1>2. IsFiniteSet(1..(n + 1)) /\ Cardinality(1..(n + 1)) = n + 1
  BY <1>1, FS_Interval
<1>3. ~(1..(n + 1) \subseteq DOMAIN dirs)
  <2> SUFFICES ASSUME 1..(n + 1) \subseteq DOMAIN dirs PROVE FALSE
    OBVIOUS
  <2>1. Cardinality(1..(n + 1)) <= n
    BY FS_Subset
  <2> QED
    BY <1>1, <1>2, <2>1
<1>4. \E d \in 1..(n + 1) : d \notin DOMAIN dirs
  BY <1>3
<1>5. NewName \in 1..(n + 1) /\ NewName \notin DOMAIN dirs
  BY <1>4 DEF NewName
<1> QED
  BY <1>1, <1>5

\* The initial states satisfy the invariant.
LEMMA DirStart == DirInit => DirInv
<1> SUFFICES ASSUME DirInit PROVE DirInv
  OBVIOUS
<1>1. DOMAIN dirs = {}
  BY DEF DirInit
<1>2. IsFiniteSet(DOMAIN dirs)
  BY <1>1, FS_EmptySet
<1> QED
  BY <1>2, CertDirBounds
     DEF DirInit, DirInv, DirTypeOK, PlainFirst, DataFull, WriterInv, Writing

\* A directory that keeps its files stays complete.
LEMMA FullKept ==
  ASSUME NEW d, NEW p, Full(d, p), d \in DOMAIN dirs', dirs'[d] = dirs[d]
  PROVE  Full(d, p)'
  BY DEF Full

\* A writer step that shows nothing else: the invariant of the data stays.
LEMMA DataStays ==
  ASSUME DirInv, data' = data, link \subseteq link', link' \in SUBSET Files,
         data # 0 => data \in DOMAIN dirs' /\ dirs'[data] = dirs[data]
  PROVE  DataFull'
<1>1. CASE data = 0
  BY <1>1 DEF DataFull
<1>2. CASE data # 0
  <2>1. PICK p \in 1..MaxWrites : Full(data, p)
    BY <1>2 DEF DirInv, DataFull
  <2>2. Full(data, p)'
    BY <1>2, <2>1, FullKept DEF Full
  <2>3. link' = Files
    BY <1>2 DEF DirInv, DataFull
  <2> QED
    BY <2>2, <2>3 DEF DataFull
<1> QED
  BY <1>1, <1>2

\* Every step keeps the invariant.
LEMMA DirStep ==
  ASSUME DirInv, [DirNext]_dirVars
  PROVE  DirInv'
<1> DEFINE W == [at : {"idle", "prepare", "remove"} \cup Writing,
                 payload : 0..MaxWrites, old : Nat, new : Nat]
<1>0. /\ writer \in W /\ data \in Nat /\ tmp \in Nat
      /\ plain \in SUBSET Files /\ link \in SUBSET Files
      /\ IsFiniteSet(DOMAIN dirs)
  BY DEF DirInv, DirTypeOK
<1> USE DEF Writing
<1>1. ASSUME WriteCertsToDir PROVE DirInv'
  <2>1. PICK p \in 1..MaxWrites :
          writer' = [writer EXCEPT !.at = "prepare", !.payload = p]
    BY <1>1 DEF WriteCertsToDir
  <2>2. UNCHANGED diskVars
    BY <1>1 DEF WriteCertsToDir
  <2>3. /\ writer' \in W /\ writer'.at = "prepare"
        /\ writer'.payload \in 1..MaxWrites
    <3>1. p \in 0..MaxWrites
      BY CertDirBounds
    <3>2. \A w \in W, q \in 0..MaxWrites :
            LET v == [w EXCEPT !.at = "prepare", !.payload = q]
            IN v \in W /\ v.at = "prepare" /\ v.payload = q
      OBVIOUS
    <3> QED
      BY <1>0, <2>1, <3>1, <3>2
  <2>4. DirTypeOK'
    BY <1>0, <2>2, <2>3 DEF DirTypeOK, diskVars
  <2>5. DataFull'
    BY <1>0, <2>2, DataStays DEF diskVars, DirInv, DataFull, Full
  <2> QED
    BY <2>2, <2>3, <2>4, <2>5 DEF DirInv, PlainFirst, WriterInv, diskVars
<1>2. ASSUME prepareToWrite PROVE DirInv'
  <2>1. /\ plain' \subseteq plain /\ writer.at = "prepare"
        /\ UNCHANGED <<link, dirs, data, tmp, writer>>
    BY <1>2 DEF prepareToWrite
  <2> QED
    BY <1>0, <2>1, DataStays
       DEF DirInv, DirTypeOK, PlainFirst, DataFull, WriterInv, Full
<1>3. ASSUME NewTimestampDir PROVE DirInv'
  <2>1. /\ writer.at = "prepare" /\ plain = {}
        /\ UNCHANGED <<plain, link, data, tmp>>
    BY <1>3 DEF NewTimestampDir
  <2>2. CASE shouldWritePayload
    <3> DEFINE d == NewName
    <3>1. d \in Nat \ {0} /\ d \notin DOMAIN dirs
      BY <1>0, NewNameIsNew
    <3>2. /\ dirs' = Put(dirs, d, <<>>)
          /\ writer' = [writer EXCEPT !.at = "write", !.old = data, !.new = d]
      BY <1>3, <2>2 DEF NewTimestampDir
    <3> HIDE DEF d
    <3>3. /\ DOMAIN dirs' = DOMAIN dirs \cup {d} /\ dirs'[d] = <<>>
          /\ \A e \in DOMAIN dirs : dirs'[e] = dirs[e]
      BY <3>1, <3>2 DEF Put
    <3>4. /\ writer' \in W /\ writer'.at = "write" /\ writer'.new = d
          /\ writer'.old = data /\ writer'.payload = writer.payload
      BY <1>0, <3>1, <3>2
    <3>5. IsFiniteSet(DOMAIN dirs')
      BY <1>0, <3>3, FS_AddElement
    <3>6. DirTypeOK'
      BY <1>0, <2>1, <3>4, <3>5 DEF DirTypeOK
    <3>7. DataFull'
      <4>1. data # 0 => data \in DOMAIN dirs
        BY DEF DirInv, DataFull, Full
      <4> QED
        BY <1>0, <2>1, <3>3, <4>1, DataStays
    <3>8. d # data
      BY <3>1 DEF DirInv, DataFull, Full
    <3>9. DOMAIN dirs'[d] = {}
      BY <3>3
    <3> QED
      BY <2>1, <3>1, <3>3, <3>4, <3>6, <3>7, <3>8, <3>9
         DEF DirInv, PlainFirst, WriterInv
  <2>3. CASE ~shouldWritePayload
    <3>1. dirs' = dirs /\ writer' = [writer EXCEPT !.at = "idle"]
      BY <1>3, <2>3 DEF NewTimestampDir
    <3>2. writer' \in W /\ writer'.at = "idle"
      BY <1>0, <3>1
    <3> QED
      BY <1>0, <2>1, <3>1, <3>2, DataStays
         DEF DirInv, DirTypeOK, PlainFirst, DataFull, WriterInv, Full
  <2> QED
    BY <2>2, <2>3
<1>4. ASSUME writePayloadToDir PROVE DirInv'
  <2>1. /\ writer.at = "write" /\ UNCHANGED <<plain, link, data, tmp>>
        /\ writer.new \in DOMAIN dirs /\ writer.new # data
        /\ plain = {}
    BY <1>4 DEF writePayloadToDir, DirInv, WriterInv, PlainFirst
  <2>2. CASE DOMAIN dirs[writer.new] = Files
    <3>1. dirs' = dirs /\ writer' = [writer EXCEPT !.at = "links"]
      BY <1>4, <2>2 DEF writePayloadToDir
    <3>2. /\ writer' \in W /\ writer'.at = "links" /\ writer'.new = writer.new
          /\ writer'.old = writer.old /\ writer'.payload = writer.payload
      BY <1>0, <3>1
    <3>3. Full(writer.new, writer.payload)'
      BY <2>1, <2>2, <3>1, <3>2 DEF DirInv, WriterInv, Full
    <3>4. DirTypeOK' /\ DataFull'
      BY <1>0, <2>1, <3>1, <3>2, DataStays DEF DirTypeOK, DirInv, DataFull, Full
    <3> QED
      BY <2>1, <3>1, <3>2, <3>3, <3>4 DEF DirInv, PlainFirst, WriterInv
  <2>3. CASE DOMAIN dirs[writer.new] # Files
    <3> DEFINE new == dirs[writer.new]
    <3>1. PICK f \in Files \ DOMAIN new :
            dirs' = [dirs EXCEPT ![writer.new] =
                       Put(new, f, FileData(writer.payload, f))]
      BY <1>4, <2>3 DEF writePayloadToDir
    <3>2. writer' = writer
      BY <1>4, <2>3 DEF writePayloadToDir
    <3>3. /\ DOMAIN dirs' = DOMAIN dirs
          /\ dirs'[writer.new] = Put(new, f, FileData(writer.payload, f))
          /\ \A e \in DOMAIN dirs : e # writer.new => dirs'[e] = dirs[e]
      BY <2>1, <3>1
    <3>4. \A g \in DOMAIN dirs'[writer.new] :
            g \in Files /\ dirs'[writer.new][g] = FileData(writer.payload, g)
      BY <2>1, <3>1, <3>3 DEF Put, DirInv, WriterInv
    <3>5. DirTypeOK'
      BY <1>0, <2>1, <3>2, <3>3 DEF DirTypeOK
    <3>6. DataFull'
      <4>1. data # 0 => data \in DOMAIN dirs
        BY DEF DirInv, DataFull, Full
      <4> QED
        BY <1>0, <2>1, <3>3, <4>1, DataStays
    <3> QED
      BY <2>1, <3>2, <3>3, <3>4, <3>5, <3>6 DEF DirInv, PlainFirst, WriterInv
  <2> QED
    BY <2>2, <2>3
<1>5. ASSUME createUserVisibleFiles PROVE DirInv'
  <2>1. /\ writer.at = "links" /\ UNCHANGED <<plain, dirs, data, tmp>>
        /\ plain = {}
    BY <1>5 DEF createUserVisibleFiles, DirInv, PlainFirst
  <2>2. CASE link = Files
    <3>1. link' = link /\ writer' = [writer EXCEPT !.at = "tmp"]
      BY <1>5, <2>1, <2>2 DEF createUserVisibleFiles
    <3>2. /\ writer' \in W /\ writer'.at = "tmp" /\ writer'.new = writer.new
          /\ writer'.old = writer.old /\ writer'.payload = writer.payload
      BY <1>0, <3>1
    <3>3. Full(writer.new, writer.payload)'
      BY <2>1, <3>2 DEF DirInv, WriterInv, Full
    <3>4. DirTypeOK' /\ DataFull'
      BY <1>0, <2>1, <3>1, <3>2, DataStays DEF DirTypeOK, DirInv, DataFull, Full
    <3> QED
      BY <2>1, <2>2, <3>1, <3>2, <3>3, <3>4 DEF DirInv, PlainFirst, WriterInv
  <2>3. CASE link # Files
    <3>1. PICK f \in Files : link' = link \cup {f}
      BY <1>5, <2>1, <2>3 DEF createUserVisibleFiles
    <3>2. writer' = writer
      BY <1>5, <2>1, <2>3 DEF createUserVisibleFiles
    <3>3. Full(writer.new, writer.payload)'
      BY <2>1, <3>2 DEF DirInv, WriterInv, Full
    <3>4. DirTypeOK' /\ DataFull'
      BY <1>0, <2>1, <3>1, <3>2, DataStays DEF DirTypeOK, DirInv, DataFull, Full
    <3> QED
      BY <2>1, <3>2, <3>3, <3>4 DEF DirInv, PlainFirst, WriterInv
  <2> QED
    BY <2>2, <2>3
<1>6. ASSUME UNCHANGED <<plain, link, data>>, writer.at \in Writing,
             dirs' = Drop(writer.new), tmp' \in Nat,
             writer' = [writer EXCEPT !.at = "idle"]
      PROVE  DirInv'
  <2>1. writer' \in W /\ writer'.at = "idle"
    BY <1>0, <1>6
  <2>2. /\ DOMAIN dirs' = DOMAIN dirs \ {writer.new}
        /\ \A e \in DOMAIN dirs' : dirs'[e] = dirs[e]
    BY <1>6 DEF Drop
  <2>3. IsFiniteSet(DOMAIN dirs')
    BY <1>0, <2>2, FS_Subset
  <2>4. data # 0 => data \in DOMAIN dirs' /\ dirs'[data] = dirs[data]
    BY <1>6, <2>2 DEF DirInv, DataFull, WriterInv, Full
  <2>5. DataFull'
    BY <1>0, <1>6, <2>4, DataStays
  <2> QED
    BY <1>0, <1>6, <2>1, <2>3, <2>5 DEF DirInv, DirTypeOK, PlainFirst, WriterInv
<1>7. ASSUME SymlinkTmp PROVE DirInv'
  <2>1. writer.at = "tmp" /\ UNCHANGED <<plain, link, data>>
    BY <1>7 DEF SymlinkTmp
  <2>2. CASE tmp = 0
    <3>1. /\ tmp' = writer.new /\ dirs' = dirs
          /\ writer' = [writer EXCEPT !.at = "rename"]
      BY <1>7, <2>2 DEF SymlinkTmp
    <3>2. /\ writer' \in W /\ writer'.at = "rename" /\ writer'.new = writer.new
          /\ writer'.old = writer.old /\ writer'.payload = writer.payload
      BY <1>0, <3>1
    <3>3. Full(writer.new, writer.payload)'
      BY <2>1, <3>1, <3>2 DEF DirInv, WriterInv, Full
    <3>4. DirTypeOK' /\ DataFull'
      BY <1>0, <2>1, <3>1, <3>2, DataStays DEF DirTypeOK, DirInv, DataFull, Full
    <3> QED
      BY <2>1, <3>1, <3>2, <3>3, <3>4 DEF DirInv, PlainFirst, WriterInv
  <2>3. CASE tmp # 0
    BY <1>0, <1>6, <1>7, <2>1, <2>3 DEF SymlinkTmp
  <2> QED
    BY <2>2, <2>3
<1>8. ASSUME RenameFails PROVE DirInv'
  BY <1>6, <1>8 DEF RenameFails
<1>9. ASSUME RenameTmp PROVE DirInv'
  <2>1. /\ writer.at = "rename" /\ data' = writer.new /\ tmp' = 0
        /\ writer' = [writer EXCEPT !.at = "remove"]
        /\ UNCHANGED <<plain, link, dirs>>
    BY <1>9 DEF RenameTmp, DirInv, WriterInv
  <2>2. /\ writer' \in W /\ writer'.at = "remove"
        /\ writer'.old = writer.old /\ writer.new \in Nat
    BY <1>0, <2>1
  <2>3. /\ link = Files /\ Full(writer.new, writer.payload) /\ plain = {}
        /\ writer.payload \in 1..MaxWrites /\ writer.old # writer.new
    BY <2>1 DEF DirInv, WriterInv, PlainFirst
  <2>4. DataFull'
    BY <2>1, <2>3 DEF DataFull, Full
  <2> QED
    BY <1>0, <2>1, <2>2, <2>3, <2>4 DEF DirInv, DirTypeOK, PlainFirst, WriterInv
<1>10. ASSUME RemoveOld PROVE DirInv'
  <2>1. /\ writer.at = "remove" /\ UNCHANGED <<plain, link, data, tmp>>
        /\ writer.old # data
    BY <1>10 DEF RemoveOld, DirInv, WriterInv
  <2>2. \/ dirs' = Drop(writer.old) /\ writer' = [writer EXCEPT !.at = "idle"]
        \/ writer' = writer /\ \E v : dirs' = [dirs EXCEPT ![writer.old] = v]
    BY <1>10 DEF RemoveOld
  <2>3. /\ writer' \in W /\ writer'.at \in {"idle", "remove"}
        /\ writer'.old = writer.old
    BY <1>0, <2>1, <2>2
  <2>4. /\ DOMAIN dirs' \subseteq DOMAIN dirs
        /\ \A e \in DOMAIN dirs : e # writer.old =>
             e \in DOMAIN dirs' /\ dirs'[e] = dirs[e]
    BY <2>2 DEF Drop
  <2>5. IsFiniteSet(DOMAIN dirs')
    BY <1>0, <2>4, FS_Subset
  <2>6. data # 0 => data \in DOMAIN dirs' /\ dirs'[data] = dirs[data]
    BY <2>1, <2>4 DEF DirInv, DataFull, Full
  <2>7. DataFull'
    BY <1>0, <2>1, <2>6, DataStays
  <2> QED
    BY <1>0, <2>1, <2>3, <2>5, <2>7 DEF DirInv, DirTypeOK, PlainFirst, WriterInv
<1>11. ASSUME Abort PROVE DirInv'
  <2>1. UNCHANGED diskVars /\ writer' = [writer EXCEPT !.at = "idle"]
    BY <1>11 DEF Abort
  <2>2. writer' \in W /\ writer'.at = "idle"
    BY <1>0, <2>1
  <2> QED
    BY <1>0, <2>1, <2>2, DataStays
       DEF DirInv, DirTypeOK, PlainFirst, DataFull, WriterInv, Full, diskVars
<1>12. ASSUME WatcherStep \/ UNCHANGED dirVars PROVE DirInv'
  <2>1. UNCHANGED diskVars /\ UNCHANGED writer
    BY <1>12 DEF WatcherStep, NewCertWatcher, ReadCert, ReadKey, StartWatch,
                 handleEvent, dirVars
  <2> QED
    BY <2>1 DEF DirInv, DirTypeOK, PlainFirst, DataFull, WriterInv, Full, diskVars
<1> QED
  BY <1>1, <1>2, <1>3, <1>4, <1>5, <1>7, <1>8, <1>9, <1>10, <1>11, <1>12
     DEF DirNext, WriterStep

\* The invariant says that what can be read is of one payload, and complete.
LEMMA InvShowsOnePayload == DirInv => OnePayload
<1> SUFFICES ASSUME DirInv PROVE OnePayload
  OBVIOUS
<1>1. CASE data = 0
  <2>1. \A f \in Files : Readable(f) => f \in plain
    BY <1>1 DEF Readable, Inode, None
  <2>2. \A f \in Files : Readable(f) => ReadFile(f) = FileData(0, f)
    BY <2>1 DEF ReadFile
  <2>3. 0 \in 0..MaxWrites
    BY CertDirBounds
  <2> QED
    BY <1>1, <2>2, <2>3 DEF OnePayload
<1>2. CASE data # 0
  <2>1. plain = {} /\ link = Files /\ data \in Nat
    BY <1>2 DEF DirInv, DirTypeOK, PlainFirst, DataFull
  <2>2. PICK p \in 1..MaxWrites : Full(data, p)
    BY <1>2 DEF DirInv, DataFull
  <2>3. \A f \in Files : ReadFile(f) = FileData(p, f)
    BY <2>1, <2>2 DEF ReadFile, Full
  <2>4. \A f \in Files : Readable(f)
    BY <1>2, <2>1, <2>2 DEF Readable, Inode, Full, None
  <2>5. p \in 0..MaxWrites
    BY CertDirBounds
  <2> QED
    BY <2>3, <2>4, <2>5 DEF OnePayload
<1> QED
  BY <1>1, <1>2

\* OnePayload: whoever reads the directory finds the files of one payload, all
\* of them after the first write, at every step of Write and after every crash.
THEOREM OnePayloadShown == DirSpec => []OnePayload
<1>1. DirInv /\ [DirNext]_dirVars => DirInv'
  BY DirStep
<1> QED
  BY <1>1, DirStart, InvShowsOnePayload, PTL DEF DirSpec
===============================================================================
