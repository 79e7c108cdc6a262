---------------------------- MODULE FileCacheProofs ----------------------------
(***************************************************************************)
(* What holds of the file-based cache for any number of threads, processes *)
(* and documents, and any crashes.                                         *)
(***************************************************************************)
EXTENDS FileCache, TLAPS

-------------------------------------------------------------------------------
(* The parts of the inductive invariant.                                   *)

(* A temporary file is whole when its rename is due: nobody else writes to *)
(* it.                                                                     *)
TempIsWhole == \A t \in Threads : At(t, "rename") => temp[StoreTemp(t)] = FileText(t)

(* What has its final name is whole.                                       *)
FilesAreWhole == \A h \in Hashes : contentFile[h] # Partial /\ recordFile[h] # Partial

(* The content is in place before its record is written.                   *)
ContentFirst ==
  /\ \A h \in Hashes : recordFile[h] # NoFile => contentFile[h] # NoFile
  /\ \A t \in Threads :
       call[t].pc \in StorePcs /\ call[t].part = "record" => contentFile[HashOf[call[t].storing]] # NoFile

IInv == TypeOK /\ TempIsWhole /\ FilesAreWhole /\ ContentFirst

-------------------------------------------------------------------------------
(* Facts about types.                                                      *)

LEMMA NoCallType == NoCall \in Calls /\ NoCall.pc = "idle"
<1>1. AnyUrl \in Urls
  BY CacheAssumption DEF AnyUrl
<1>2. 0 \in 0 .. MaxVersion + 1
  BY CacheAssumption
<1> QED BY <1>1, <1>2 DEF NoCall, Calls, Pcs, StorePcs, Parts, FirstPart, Results, Bodies

LEMMA FileTextType ==
  ASSUME TypeOK, NEW t \in Threads
  PROVE  /\ call[t].part = "content" => FileText(t) \in Bodies
         /\ call[t].part = "record" => FileText(t) \in Records
         /\ call[t].part \in {"content", "record"}
         /\ FileText(t) \notin {NoFile, Partial}
<1>1. call[t] \in Calls
  BY DEF TypeOK
<1>2. call[t].part \in {"content", "record"} /\ call[t].got \in Results /\ call[t].storing \in Urls
  BY <1>1 DEF Calls, Parts
<1>3. call[t].got.body \in Bodies /\ call[t].got.final \in Urls
  BY <1>2 DEF Results
<1>4. call[t].part = "content" => FileText(t) \in Bodies
  BY <1>3 DEF FileText
<1>5. call[t].part = "record" => FileText(t) \in Records
  BY <1>2, <1>3 DEF FileText, Records
<1> QED BY <1>2, <1>4, <1>5, CacheAssumption

LEMMA StoreTempType ==
  ASSUME TypeOK, NEW t \in Threads
  PROVE  StoreTemp(t) \in TempNames /\ StoreTemp(t)[1] = t
<1>1. call[t] \in Calls
  BY DEF TypeOK
<1>2. call[t].part \in Parts /\ call[t].storing \in Urls
  BY <1>1 DEF Calls
<1>3. HashOf[call[t].storing] \in Hashes
  BY <1>2, CacheAssumption
<1> QED BY <1>2, <1>3 DEF StoreTemp, TempName, TempNames

LEMMA InitIInv == Init => IInv
<1> SUFFICES ASSUME Init PROVE IInv
  OBVIOUS
<1>1. \A t \in Threads : call[t] = NoCall /\ call[t].pc = "idle"
  BY NoCallType DEF Init
<1>2. TypeOK
  BY NoCallType, CacheAssumption DEF Init, TypeOK, Versions
<1>3. TempIsWhole
  BY <1>1 DEF TempIsWhole, At
<1>4. FilesAreWhole
  BY CacheAssumption DEF Init, FilesAreWhole
<1>5. ContentFirst
  BY <1>1 DEF Init, ContentFirst, StorePcs
<1> QED BY <1>2, <1>3, <1>4, <1>5 DEF IInv

-------------------------------------------------------------------------------
(* Steps that change the locals of one call and leave the files alone.     *)

SameStore(c, d) == c.part = d.part /\ c.storing = d.storing /\ c.got = d.got

LEMMA QuietStep ==
  ASSUME IInv, NEW t \in Threads, NEW c \in Calls,
         call' = [call EXCEPT ![t] = c], UNCHANGED disk,
         c.pc = "rename" => call[t].pc = "rename" /\ SameStore(c, call[t]),
         c.pc \in StorePcs /\ c.part = "record" =>
           call[t].pc \in StorePcs /\ SameStore(c, call[t])
  PROVE  /\ call' \in [Threads -> Calls]
         /\ TempIsWhole' /\ FilesAreWhole' /\ ContentFirst'
<1>1. call \in [Threads -> Calls]
  BY DEF IInv, TypeOK
<1>2. call'[t] = c /\ \A u \in Threads \ {t} : call'[u] = call[u]
  BY <1>1
<1>3. call' \in [Threads -> Calls]
  BY <1>1
<1>4. TempIsWhole'
  <2> SUFFICES ASSUME NEW u \in Threads, At(u, "rename")' PROVE (temp[StoreTemp(u)] = FileText(u))'
    BY DEF TempIsWhole
  <2>1. At(u, "rename") /\ SameStore(call'[u], call[u])
    BY <1>2 DEF At, SameStore
  <2>2. StoreTemp(u)' = StoreTemp(u) /\ FileText(u)' = FileText(u)
    BY <2>1 DEF SameStore, StoreTemp, FileText, TempName
  <2> QED BY <2>1, <2>2 DEF IInv, TempIsWhole, disk
<1>5. FilesAreWhole'
  BY DEF IInv, FilesAreWhole, disk
<1>6. ContentFirst'
  BY <1>2 DEF IInv, ContentFirst, disk, SameStore
<1> QED BY <1>3, <1>4, <1>5, <1>6

LEMMA CallFields ==
  ASSUME TypeOK, NEW t \in Threads
  PROVE  /\ call[t] \in Calls
         /\ call[t].url \in Urls /\ call[t].storing \in Urls
         /\ call[t].got \in Results /\ call[t].got.final \in Urls /\ call[t].got.body \in Bodies
         /\ call[t].part \in Parts /\ call[t].dropped \in BOOLEAN
         /\ call[t].entry \in {None} \cup Entries
<1>1. call[t] \in Calls
  BY DEF TypeOK
<1>2. call[t].got \in Results
  BY <1>1 DEF Calls
<1> QED BY <1>1, <1>2 DEF Calls, Results

(* A store that begins now writes the content first.                       *)
LEMMA StartStoreStep ==
  ASSUME IInv, NEW t \in Threads, NEW url \in Urls, NEW u \in Urls, NEW r \in Results,
         StartStore(t, url, u, r), UNCHANGED disk
  PROVE  /\ call' \in [Threads -> Calls]
         /\ TempIsWhole' /\ FilesAreWhole' /\ ContentFirst'
<1> DEFINE c == [NoCall EXCEPT !.pc = "create", !.url = url, !.got = r, !.storing = u,
                               !.dropped = call[t].dropped]
<1>1. call' = [call EXCEPT ![t] = c]
  BY DEF StartStore
<1>2. call[t].dropped \in BOOLEAN
  BY CallFields DEF IInv
<1>3. c \in Calls /\ c.pc = "create" /\ c.part = NoCall.part
  BY <1>2, NoCallType DEF Calls, Pcs, StorePcs
<1>4. c.part = "content"
  BY <1>3 DEF NoCall, FirstPart
<1> HIDE DEF c
<1> QED BY <1>1, <1>3, <1>4, QuietStep

(* A call that ends, or changes only its pc to one outside a store.        *)
LEMMA EndStep ==
  ASSUME IInv, NEW t \in Threads, UNCHANGED disk,
         EndCall(t) \/ Succeed(t) \/ \E pc \in Pcs \ StorePcs : Goto(t, pc)
  PROVE  /\ call' \in [Threads -> Calls]
         /\ TempIsWhole' /\ FilesAreWhole' /\ ContentFirst'
<1>1. /\ call[t] \in Calls /\ call[t].url \in Urls /\ call[t].got \in Results
  BY CallFields DEF IInv
<1>2. NoCall \in Calls /\ NoCall.pc = "idle"
  BY NoCallType
<1>3. CASE EndCall(t)
  BY <1>2, <1>3, QuietStep DEF EndCall, StorePcs
<1>4. CASE Succeed(t)
  <2> DEFINE c == [NoCall EXCEPT !.pc = "done", !.url = call[t].url, !.got = call[t].got]
  <2>1. c \in Calls /\ c.pc = "done"
    BY <1>1, <1>2 DEF Calls, Pcs
  <2>2. call' = [call EXCEPT ![t] = c]
    BY <1>4 DEF Succeed
  <2> HIDE DEF c
  <2> QED BY <2>1, <2>2, QuietStep DEF StorePcs
<1>5. CASE \E pc \in Pcs \ StorePcs : Goto(t, pc)
  <2>1. PICK pc \in Pcs \ StorePcs : Goto(t, pc)
    BY <1>5
  <2> DEFINE c == [call[t] EXCEPT !.pc = pc]
  <2>2. c \in Calls /\ c.pc = pc
    BY <1>1 DEF Calls
  <2>3. call' = [call EXCEPT ![t] = c]
    BY <2>1 DEF Goto
  <2> HIDE DEF c
  <2> QED BY <2>1, <2>2, <2>3, QuietStep DEF StorePcs
<1> QED BY <1>3, <1>4, <1>5

-------------------------------------------------------------------------------
(* The steps of a store.                                                   *)

(* Where t's temporary file is no other thread's.                          *)
LEMMA TempsApart ==
  ASSUME TypeOK, NEW t \in Threads, NEW u \in Threads, t # u
  PROVE  StoreTemp(t) # StoreTemp(u)
BY StoreTempType

LEMMA CreateTempStep ==
  ASSUME IInv, NEW t \in Threads, CreateTemp(t)
  PROVE  IInv'
<1> DEFINE c == [call[t] EXCEPT !.pc = "fill"]
<1>1. call' = [call EXCEPT ![t] = c] /\ call \in [Threads -> Calls] /\ At(t, "create")
  BY DEF CreateTemp, Goto, IInv, TypeOK
<1>2. c \in Calls /\ c.pc = "fill" /\ SameStore(c, call[t])
  BY <1>1 DEF Calls, Pcs, StorePcs, SameStore
<1> HIDE DEF c
<1>3. call'[t] = c /\ \A u \in Threads \ {t} : call'[u] = call[u]
  BY <1>1
<1>4. temp' = [temp EXCEPT ![StoreTemp(t)] = Partial] /\ UNCHANGED <<contentFile, recordFile, index, world, obtained>>
  BY DEF CreateTemp
<1>5. TypeOK'
  <2>1. temp' \in [TempNames -> {NoFile, Partial} \cup Bodies \cup Records]
    BY <1>4 DEF IInv, TypeOK
  <2>2. call' \in [Threads -> Calls]
    BY <1>1, <1>2
  <2> QED BY <1>4, <2>1, <2>2 DEF IInv, TypeOK, world
<1>6. TempIsWhole'
  <2> SUFFICES ASSUME NEW u \in Threads, At(u, "rename")' PROVE (temp[StoreTemp(u)] = FileText(u))'
    BY DEF TempIsWhole
  <2>1. u # t /\ At(u, "rename") /\ call'[u] = call[u]
    BY <1>2, <1>3 DEF At
  <2>2. StoreTemp(u)' = StoreTemp(u) /\ FileText(u)' = FileText(u)
    BY <2>1 DEF StoreTemp, FileText, TempName
  <2>3. StoreTemp(u) # StoreTemp(t) /\ StoreTemp(u) \in TempNames /\ temp \in [TempNames -> {NoFile, Partial} \cup Bodies \cup Records]
    BY <2>1, TempsApart, StoreTempType DEF IInv, TypeOK
  <2>4. temp'[StoreTemp(u)] = temp[StoreTemp(u)]
    BY <1>4, <2>3
  <2> QED BY <2>1, <2>2, <2>4 DEF IInv, TempIsWhole
<1>7. FilesAreWhole'
  BY <1>4 DEF IInv, FilesAreWhole
<1>8. ContentFirst'
  BY <1>1, <1>2, <1>3, <1>4 DEF IInv, ContentFirst, SameStore, StorePcs, At
<1> QED BY <1>5, <1>6, <1>7, <1>8 DEF IInv

LEMMA FillTempStep ==
  ASSUME IInv, NEW t \in Threads, FillTemp(t)
  PROVE  IInv'
<1> DEFINE c == [call[t] EXCEPT !.pc = "rename"]
<1>1. call' = [call EXCEPT ![t] = c] /\ call \in [Threads -> Calls] /\ At(t, "fill")
  BY DEF FillTemp, Goto, IInv, TypeOK
<1>2. c \in Calls /\ c.pc = "rename" /\ SameStore(c, call[t])
  BY <1>1 DEF Calls, Pcs, StorePcs, SameStore
<1> HIDE DEF c
<1>3. call'[t] = c /\ \A u \in Threads \ {t} : call'[u] = call[u]
  BY <1>1
<1>4. temp' = [temp EXCEPT ![StoreTemp(t)] = FileText(t)] /\ UNCHANGED <<contentFile, recordFile, index, world, obtained>>
  BY DEF FillTemp
<1>5. FileText(t) \in Bodies \cup Records
  BY FileTextType DEF IInv
<1>6. TypeOK'
  <2>1. temp' \in [TempNames -> {NoFile, Partial} \cup Bodies \cup Records]
    BY <1>4, <1>5 DEF IInv, TypeOK
  <2>2. call' \in [Threads -> Calls]
    BY <1>1, <1>2
  <2> QED BY <1>4, <2>1, <2>2 DEF IInv, TypeOK, world
<1>7. TempIsWhole'
  <2> SUFFICES ASSUME NEW u \in Threads, At(u, "rename")' PROVE (temp[StoreTemp(u)] = FileText(u))'
    BY DEF TempIsWhole
  <2>1. SameStore(call'[u], call[u])
    BY <1>2, <1>3 DEF SameStore
  <2>2. StoreTemp(u)' = StoreTemp(u) /\ FileText(u)' = FileText(u)
    BY <2>1 DEF StoreTemp, FileText, TempName, SameStore
  <2>3. StoreTemp(u) \in TempNames /\ temp \in [TempNames -> {NoFile, Partial} \cup Bodies \cup Records]
    BY StoreTempType DEF IInv, TypeOK
  <2>4. CASE u = t
    BY <1>4, <2>2, <2>3, <2>4
  <2>5. CASE u # t
    <3>1. At(u, "rename") /\ StoreTemp(u) # StoreTemp(t)
      BY <1>3, <2>5, TempsApart DEF At, IInv
    <3>2. temp'[StoreTemp(u)] = temp[StoreTemp(u)]
      BY <1>4, <2>3, <3>1
    <3> QED BY <2>2, <3>1, <3>2 DEF IInv, TempIsWhole
  <2> QED BY <2>4, <2>5
<1>8. FilesAreWhole'
  BY <1>4 DEF IInv, FilesAreWhole
<1>9. ContentFirst'
  BY <1>1, <1>2, <1>3, <1>4 DEF IInv, ContentFirst, SameStore, StorePcs, At
<1> QED BY <1>6, <1>7, <1>8, <1>9 DEF IInv

(* After a rename the call writes the record, or leaves the store.         *)
LEMMA StoreNextType ==
  ASSUME IInv, NEW t \in Threads, StoreNext(t)
  PROVE  \E c \in Calls :
           /\ call' = [call EXCEPT ![t] = c]
           /\ c.pc # "rename"
           /\ c.pc \in StorePcs =>
                call[t].part = "content" /\ c.storing = call[t].storing
<1>1. call[t] \in Calls
  BY CallFields DEF IInv
<1>2. CASE call[t].part = FirstPart
  <2> DEFINE c == [call[t] EXCEPT !.pc = "create", !.part = CHOOSE p \in Parts : p # FirstPart]
  <2>1. (CHOOSE p \in Parts : p # FirstPart) \in Parts
    BY DEF Parts, FirstPart
  <2>2. call' = [call EXCEPT ![t] = c]
    BY <1>2 DEF StoreNext
  <2>3. c \in Calls /\ c.pc = "create" /\ c.storing = call[t].storing
    BY <1>1, <2>1 DEF Calls, Pcs, StorePcs
  <2>4. call[t].part = "content"
    BY <1>2 DEF FirstPart
  <2> HIDE DEF c
  <2> QED BY <2>2, <2>3, <2>4
<1>3. CASE call[t].part # FirstPart /\ call[t].dropped
  BY <1>3, NoCallType DEF StoreNext, EndCall, StorePcs
<1>4. CASE call[t].part # FirstPart /\ ~call[t].dropped
  <2> DEFINE c == [call[t] EXCEPT !.pc = "insert"]
  <2>1. call' = [call EXCEPT ![t] = c]
    BY <1>4 DEF StoreNext, Goto
  <2>2. c \in Calls /\ c.pc = "insert"
    BY <1>1 DEF Calls, Pcs
  <2> HIDE DEF c
  <2> QED BY <2>1, <2>2 DEF StorePcs
<1> QED BY <1>2, <1>3, <1>4

LEMMA StoreFileStep ==
  ASSUME IInv, NEW t \in Threads, StoreFile(t)
  PROVE  IInv'
<1> DEFINE h == HashOf[call[t].storing]
<1>1. PICK c \in Calls : /\ call' = [call EXCEPT ![t] = c]
                         /\ c.pc # "rename"
                         /\ c.pc \in StorePcs => call[t].part = "content" /\ c.storing = call[t].storing
  BY StoreNextType DEF StoreFile
<1>2. /\ call \in [Threads -> Calls] /\ call' \in [Threads -> Calls]
      /\ call'[t] = c /\ \A u \in Threads \ {t} : call'[u] = call[u]
  <2>1. call \in [Threads -> Calls]
    BY DEF IInv, TypeOK
  <2>2. call' = [call EXCEPT ![t] = c]
    BY <1>1
  <2> QED BY <2>1, <2>2
<1>3. At(t, "rename") /\ temp[StoreTemp(t)] = FileText(t) /\ temp' = [temp EXCEPT ![StoreTemp(t)] = NoFile]
  BY DEF StoreFile, RenameTemp, IInv, TempIsWhole
<1>4. h \in Hashes
  BY CallFields, CacheAssumption DEF IInv
<1>5. /\ call[t].part = "content" => FileText(t) \in Bodies
      /\ call[t].part = "record" => FileText(t) \in Records
      /\ call[t].part \in {"content", "record"} /\ FileText(t) \notin {NoFile, Partial}
  BY FileTextType DEF IInv
<1>6. call[t].part = "content" =>
        contentFile' = [contentFile EXCEPT ![h] = FileText(t)] /\ recordFile' = recordFile
  BY <1>3 DEF StoreFile, RenameTemp
<1>7. call[t].part = "record" =>
        recordFile' = [recordFile EXCEPT ![h] = FileText(t)] /\ contentFile' = contentFile
  BY <1>3 DEF StoreFile, RenameTemp
<1>8. /\ contentFile \in [Hashes -> {NoFile, Partial} \cup Bodies]
      /\ recordFile \in [Hashes -> {NoFile, Partial} \cup Records]
      /\ temp \in [TempNames -> {NoFile, Partial} \cup Bodies \cup Records]
  BY DEF IInv, TypeOK
<1>9. UNCHANGED <<index, version, crashes, obtained>>
  BY DEF StoreFile, world
<1>10. TypeOK'
  <2>1. temp' \in [TempNames -> {NoFile, Partial} \cup Bodies \cup Records]
    BY <1>3, <1>8
  <2>2. contentFile' \in [Hashes -> {NoFile, Partial} \cup Bodies]
    BY <1>5, <1>6, <1>7, <1>8
  <2>3. recordFile' \in [Hashes -> {NoFile, Partial} \cup Records]
    BY <1>5, <1>6, <1>7, <1>8
  <2> QED BY <1>2, <1>9, <2>1, <2>2, <2>3 DEF IInv, TypeOK
<1>11. TempIsWhole'
  <2> SUFFICES ASSUME NEW u \in Threads, At(u, "rename")' PROVE (temp[StoreTemp(u)] = FileText(u))'
    BY DEF TempIsWhole
  <2>1. u # t /\ At(u, "rename") /\ call'[u] = call[u]
    BY <1>1, <1>2 DEF At
  <2>2. StoreTemp(u)' = StoreTemp(u) /\ FileText(u)' = FileText(u)
    BY <2>1 DEF StoreTemp, FileText, TempName
  <2>3. StoreTemp(u) # StoreTemp(t) /\ StoreTemp(u) \in TempNames
    BY <2>1, TempsApart, StoreTempType DEF IInv
  <2>4. temp'[StoreTemp(u)] = temp[StoreTemp(u)]
    BY <1>3, <1>8, <2>3
  <2> QED BY <2>1, <2>2, <2>4 DEF IInv, TempIsWhole
<1>12. FilesAreWhole'
  BY <1>4, <1>5, <1>6, <1>7, <1>8 DEF IInv, FilesAreWhole
<1>13. \A g \in Hashes : contentFile[g] # NoFile => contentFile'[g] # NoFile
  BY <1>4, <1>5, <1>6, <1>7, <1>8
<1>14. call[t].part = "record" => contentFile[h] # NoFile
  BY <1>3 DEF IInv, ContentFirst, At, StorePcs
<1>15. call[t].part = "content" => contentFile'[h] # NoFile
  BY <1>4, <1>5, <1>6, <1>8
<1>16. ContentFirst'
  <2>1. \A g \in Hashes : recordFile'[g] # NoFile => contentFile'[g] # NoFile
    BY <1>4, <1>5, <1>6, <1>7, <1>8, <1>13, <1>14 DEF IInv, ContentFirst
  <2>2. ASSUME NEW u \in Threads, call'[u].pc \in StorePcs, call'[u].part = "record"
        PROVE  contentFile'[HashOf[call'[u].storing]] # NoFile
    <3>1. CASE u = t
      BY <1>1, <1>2, <1>15, <2>2, <3>1
    <3>2. CASE u # t
      <4>1. call[u].storing \in Urls /\ HashOf[call[u].storing] \in Hashes /\ call'[u] = call[u]
        BY <1>2, <3>2, CallFields, CacheAssumption DEF IInv
      <4> QED BY <1>13, <2>2, <4>1 DEF IInv, ContentFirst
    <3> QED BY <3>1, <3>2
  <2> QED BY <2>1, <2>2 DEF ContentFirst
<1> QED BY <1>10, <1>11, <1>12, <1>16 DEF IInv

(* Threads whose calls end leave their temporary files behind.             *)
LEMMA AbandonStep ==
  ASSUME IInv, NEW T \in SUBSET Threads, ForgetTemps(T), UNCHANGED <<contentFile, recordFile>>,
         call' \in [Threads -> Calls],
         \A t \in T : call'[t].pc \notin StorePcs,
         \A t \in Threads \ T : call'[t] = call[t]
  PROVE  /\ temp' \in [TempNames -> {NoFile, Partial} \cup Bodies \cup Records]
         /\ TempIsWhole' /\ FilesAreWhole' /\ ContentFirst'
<1>1. temp' \in [TempNames -> {NoFile, Partial} \cup Bodies \cup Records]
  BY DEF ForgetTemps, IInv, TypeOK
<1>2. TempIsWhole'
  <2> SUFFICES ASSUME NEW u \in Threads, At(u, "rename")' PROVE (temp[StoreTemp(u)] = FileText(u))'
    BY DEF TempIsWhole
  <2>1. u \notin T /\ At(u, "rename") /\ call'[u] = call[u]
    BY DEF At, StorePcs
  <2>2. StoreTemp(u)' = StoreTemp(u) /\ FileText(u)' = FileText(u)
    BY <2>1 DEF StoreTemp, FileText, TempName
  <2>3. StoreTemp(u) \in TempNames /\ StoreTemp(u)[1] = u
    BY StoreTempType DEF IInv
  <2>4. temp'[StoreTemp(u)] = temp[StoreTemp(u)]
    BY <2>1, <2>3 DEF ForgetTemps
  <2> QED BY <2>1, <2>2, <2>4 DEF IInv, TempIsWhole
<1>3. FilesAreWhole'
  BY DEF IInv, FilesAreWhole
<1>4. ContentFirst'
  BY DEF IInv, ContentFirst
<1> QED BY <1>1, <1>2, <1>3, <1>4

-------------------------------------------------------------------------------
(* The other steps.                                                        *)

LEMMA CallStep ==
  ASSUME IInv, NEW t \in Threads, NEW u \in Asks[t], Call(t, u)
  PROVE  IInv'
<1>0. u \in Urls
  BY CacheAssumption
<1> DEFINE c == [call[t] EXCEPT !.pc = "index", !.url = u, !.cached = Cached(Owner[t], u)]
<1>1. call[t] \in Calls
  BY CallFields DEF IInv
<1>2. Cached(Owner[t], u) \in BOOLEAN
  BY DEF Cached, IsRecordOf
<1>3. c \in Calls /\ c.pc = "index"
  BY <1>0, <1>1, <1>2 DEF Calls, Pcs
<1>4. call' = [call EXCEPT ![t] = c] /\ UNCHANGED disk
  BY DEF Call
<1> HIDE DEF c
<1>5. call' \in [Threads -> Calls] /\ TempIsWhole' /\ FilesAreWhole' /\ ContentFirst'
  BY <1>3, <1>4, QuietStep DEF StorePcs
<1> QED BY <1>5 DEF Call, disk, world, IInv, TypeOK

LEMMA SeedStep ==
  ASSUME IInv, NEW t \in Threads, NEW u \in Seedable, Seed(t, u)
  PROVE  IInv'
<1> DEFINE r == [body |-> [src |-> u, ver |-> MaxVersion + 1], final |-> u]
<1>1. u \in Urls /\ r \in Results
  BY CacheAssumption DEF Results, Bodies
<1>2. StartStore(t, u, u, r) /\ UNCHANGED <<disk, index, world>>
  BY DEF Seed
<1>3. obtained' \in [Urls -> SUBSET Results]
  BY <1>1 DEF Seed, IInv, TypeOK
<1> HIDE DEF r
<1>4. call' \in [Threads -> Calls] /\ TempIsWhole' /\ FilesAreWhole' /\ ContentFirst'
  BY <1>1, <1>2, StartStoreStep
<1> QED BY <1>2, <1>3, <1>4 DEF disk, world, IInv, TypeOK

LEMMA LookUpStep ==
  ASSUME IInv, NEW t \in Threads, LookUp(t)
  PROVE  IInv'
<1> DEFINE e == index[Owner[t]][call[t].url]
           c == [call[t] EXCEPT !.pc = IF e = None THEN "record" ELSE "read", !.entry = e]
<1>1. call[t] \in Calls /\ call[t].url \in Urls /\ Owner[t] \in Fetchers
  BY CallFields, CacheAssumption DEF IInv
<1>2. e \in {None} \cup Entries
  BY <1>1 DEF IInv, TypeOK
<1>3. c \in Calls /\ c.pc \in {"record", "read"}
  BY <1>1, <1>2 DEF Calls, Pcs
<1>4. call' = [call EXCEPT ![t] = c] /\ UNCHANGED disk
  BY DEF LookUp
<1> HIDE DEF c
<1>5. call' \in [Threads -> Calls] /\ TempIsWhole' /\ FilesAreWhole' /\ ContentFirst'
  BY <1>3, <1>4, QuietStep DEF StorePcs
<1> QED BY <1>5 DEF LookUp, disk, world, IInv, TypeOK

LEMMA LoadRecordStep ==
  ASSUME IInv, NEW t \in Threads, LoadRecord(t)
  PROVE  IInv'
<1> DEFINE u   == call[t].url
           rec == recordFile[HashOf[u]]
           c   == [call[t] EXCEPT !.pc = "exists", !.entry = [hash |-> HashOf[u], final |-> rec.final]]
<1>1. call[t] \in Calls /\ u \in Urls /\ HashOf[u] \in Hashes
  BY CallFields, CacheAssumption DEF IInv
<1>2. call' \in [Threads -> Calls] /\ TempIsWhole' /\ FilesAreWhole' /\ ContentFirst'
  <2>1. CASE IsRecordOf(rec, u)
    <3>1. rec \in Records
      BY <1>1, <2>1 DEF IsRecordOf, IInv, TypeOK
    <3>2. [hash |-> HashOf[u], final |-> rec.final] \in Entries
      BY <1>1, <3>1 DEF Records, Entries
    <3>3. c \in Calls /\ c.pc = "exists"
      BY <1>1, <3>2 DEF Calls, Pcs
    <3>4. call' = [call EXCEPT ![t] = c] /\ UNCHANGED disk
      BY <2>1 DEF LoadRecord
    <3> HIDE DEF c
    <3> QED BY <3>3, <3>4, QuietStep DEF StorePcs
  <2>2. CASE ~IsRecordOf(rec, u)
    <3>1. Goto(t, "inner") /\ UNCHANGED disk
      BY <2>2 DEF LoadRecord
    <3>2. "inner" \in Pcs \ StorePcs
      BY DEF Pcs, StorePcs
    <3> QED BY <3>1, <3>2, EndStep
  <2> QED BY <2>1, <2>2
<1> QED BY <1>2 DEF LoadRecord, disk, world, IInv, TypeOK

LEMMA LoadExistsStep ==
  ASSUME IInv, NEW t \in Threads, LoadExists(t)
  PROVE  IInv'
<1>1. "read" \in Pcs \ StorePcs /\ "inner" \in Pcs \ StorePcs
  BY DEF Pcs, StorePcs
<1>2. (Goto(t, "read") \/ Goto(t, "inner")) /\ UNCHANGED disk
  BY DEF LoadExists
<1>3. call' \in [Threads -> Calls] /\ TempIsWhole' /\ FilesAreWhole' /\ ContentFirst'
  BY <1>1, <1>2, EndStep
<1> QED BY <1>3 DEF LoadExists, disk, world, IInv, TypeOK

LEMMA ReadContentStep ==
  ASSUME IInv, NEW t \in Threads, ReadContent(t), call[t].entry # None
  PROVE  IInv'
<1> DEFINE e == call[t].entry
           c == [call[t] EXCEPT !.pc = "register", !.got = [body |-> contentFile[e.hash], final |-> e.final]]
<1>1. call[t] \in Calls /\ e \in Entries
  BY CallFields DEF IInv
<1>2. e.hash \in Hashes /\ e.final \in Urls
  BY <1>1 DEF Entries
<1>3. contentFile[e.hash] \in Bodies
  BY <1>2 DEF ReadContent, IInv, TypeOK, FilesAreWhole
<1>4. [body |-> contentFile[e.hash], final |-> e.final] \in Results
  BY <1>2, <1>3 DEF Results
<1>5. c \in Calls /\ c.pc = "register"
  BY <1>1, <1>4 DEF Calls, Pcs
<1>6. call' = [call EXCEPT ![t] = c] /\ UNCHANGED disk
  BY DEF ReadContent
<1> HIDE DEF c
<1>7. call' \in [Threads -> Calls] /\ TempIsWhole' /\ FilesAreWhole' /\ ContentFirst'
  BY <1>5, <1>6, QuietStep DEF StorePcs
<1> QED BY <1>7 DEF ReadContent, disk, world, IInv, TypeOK

LEMMA RegisterStep ==
  ASSUME IInv, NEW t \in Threads, Register(t)
  PROVE  IInv'
<1>1. call[t].url \in Urls /\ Owner[t] \in Fetchers /\ call[t].entry \in {None} \cup Entries
  BY CallFields, CacheAssumption DEF IInv
<1>2. index' \in [Fetchers -> [Urls -> {None} \cup Entries]]
  BY <1>1 DEF Register, IInv, TypeOK
<1>3. Succeed(t) /\ UNCHANGED disk
  BY DEF Register
<1>4. call' \in [Threads -> Calls] /\ TempIsWhole' /\ FilesAreWhole' /\ ContentFirst'
  BY <1>3, EndStep
<1> QED BY <1>2, <1>4 DEF Register, disk, world, IInv, TypeOK

LEMMA InnerFetchStep ==
  ASSUME IInv, NEW t \in Threads, InnerFetch(t)
  PROVE  IInv'
<1> DEFINE u     == call[t].url
           final == Target[u][version]
           r     == [body |-> [src |-> final, ver |-> version], final |-> final]
<1>1. u \in Urls /\ Owner[t] \in Fetchers /\ version \in Versions
  BY CallFields, CacheAssumption DEF IInv, TypeOK
<1>2. final \in Urls
  BY <1>1, CacheAssumption
<1>3. version \in 0 .. MaxVersion + 1
  BY <1>1, CacheAssumption DEF Versions
<1>4. r \in Results
  BY <1>2, <1>3 DEF Results, Bodies
<1>5. StartStore(t, u, u, r) /\ UNCHANGED <<disk, index, world>>
  BY DEF InnerFetch
<1>6. obtained' = [v \in Urls |-> IF v \in {u, final} THEN obtained[v] \cup {r} ELSE obtained[v]]
  BY DEF InnerFetch
<1> HIDE DEF r, final, u
<1>8. obtained' \in [Urls -> SUBSET Results]
  BY <1>4, <1>6 DEF IInv, TypeOK
<1>10. call' \in [Threads -> Calls] /\ TempIsWhole' /\ FilesAreWhole' /\ ContentFirst'
  BY <1>1, <1>4, <1>5, StartStoreStep DEF disk
<1> QED BY <1>5, <1>8, <1>10 DEF disk, world, IInv, TypeOK

LEMMA CallFailsStep ==
  ASSUME IInv, NEW t \in Threads, CallFails(t)
  PROVE  IInv'
<1> DEFINE c == IF call[t].dropped THEN NoCall ELSE [NoCall EXCEPT !.pc = "failed"]
<1>1. c \in Calls /\ c.pc \in {"idle", "failed"}
  BY NoCallType DEF Calls, Pcs
<1>2. call' = [call EXCEPT ![t] = c] /\ call \in [Threads -> Calls]
  BY DEF CallFails, GiveUp, IInv, TypeOK
<1> HIDE DEF c
<1>3. call' \in [Threads -> Calls] /\ call'[t] = c /\ \A u \in Threads \ {t} : call'[u] = call[u]
  BY <1>1, <1>2
<1>4. ForgetTemps({t}) /\ UNCHANGED <<contentFile, recordFile, index, world, obtained>>
  BY DEF CallFails
<1>5. /\ temp' \in [TempNames -> {NoFile, Partial} \cup Bodies \cup Records]
      /\ TempIsWhole' /\ FilesAreWhole' /\ ContentFirst'
  <2>1. \A u \in {t} : call'[u].pc \notin StorePcs
    BY <1>1, <1>3 DEF StorePcs
  <2> QED BY <1>3, <1>4, <2>1, AbandonStep
<1> QED BY <1>3, <1>4, <1>5 DEF world, IInv, TypeOK

LEMMA InsertIndexStep ==
  ASSUME IInv, NEW t \in Threads, InsertIndex(t)
  PROVE  IInv'
<1> DEFINE u == call[t].storing
           r == call[t].got
<1>1. /\ u \in Urls /\ r \in Results /\ r.final \in Urls /\ call[t].url \in Urls
      /\ Owner[t] \in Fetchers /\ HashOf[u] \in Hashes
  BY CallFields, CacheAssumption DEF IInv
<1>2. [hash |-> HashOf[u], final |-> r.final] \in Entries
  BY <1>1 DEF Entries
<1>3. index' \in [Fetchers -> [Urls -> {None} \cup Entries]]
  BY <1>1, <1>2 DEF InsertIndex, IInv, TypeOK
<1>4. (StartStore(t, call[t].url, r.final, r) \/ Succeed(t)) /\ UNCHANGED disk
  BY DEF InsertIndex
<1>5. call' \in [Threads -> Calls] /\ TempIsWhole' /\ FilesAreWhole' /\ ContentFirst'
  BY <1>1, <1>4, StartStoreStep, EndStep
<1> QED BY <1>3, <1>5 DEF InsertIndex, disk, world, IInv, TypeOK

LEMMA ReturnStep ==
  ASSUME IInv, NEW t \in Threads, Return(t)
  PROVE  IInv'
<1>1. EndCall(t) /\ UNCHANGED disk
  BY DEF Return
<1>2. call' \in [Threads -> Calls] /\ TempIsWhole' /\ FilesAreWhole' /\ ContentFirst'
  BY <1>1, EndStep
<1> QED BY <1>2 DEF Return, disk, world, IInv, TypeOK

LEMMA DropFutureStep ==
  ASSUME IInv, NEW t \in Threads, DropFuture(t)
  PROVE  IInv'
<1>1. call' \in [Threads -> Calls] /\ TempIsWhole' /\ FilesAreWhole' /\ ContentFirst'
  <2>1. CASE call[t].pc \in StorePcs
    <3> DEFINE c == [call[t] EXCEPT !.dropped = TRUE]
    <3>1. call[t] \in Calls
      BY CallFields DEF IInv
    <3>2. c \in Calls /\ c.pc = call[t].pc /\ SameStore(c, call[t])
      BY <3>1 DEF Calls, SameStore
    <3>3. call' = [call EXCEPT ![t] = c] /\ UNCHANGED disk
      BY <2>1 DEF DropFuture
    <3> HIDE DEF c
    <3> QED BY <2>1, <3>2, <3>3, QuietStep
  <2>2. CASE call[t].pc \notin StorePcs
    <3>1. EndCall(t) /\ UNCHANGED disk
      BY <2>2 DEF DropFuture
    <3> QED BY <3>1, EndStep
  <2> QED BY <2>1, <2>2
<1> QED BY <1>1 DEF DropFuture, disk, world, IInv, TypeOK

LEMMA CrashStep ==
  ASSUME IInv, NEW f \in Fetchers, Crash(f)
  PROVE  IInv'
<1> DEFINE T == {t \in Threads : Owner[t] = f}
<1>1. call' = [t \in Threads |-> IF Owner[t] = f THEN NoCall ELSE call[t]] /\ ForgetTemps(T)
  BY DEF Crash
<1>2. call' \in [Threads -> Calls]
  BY <1>1, NoCallType DEF IInv, TypeOK
<1>3. (\A t \in T : call'[t].pc \notin StorePcs) /\ (\A t \in Threads \ T : call'[t] = call[t])
  BY <1>1, NoCallType DEF StorePcs
<1>4. UNCHANGED <<contentFile, recordFile>>
  BY DEF Crash
<1>5. /\ temp' \in [TempNames -> {NoFile, Partial} \cup Bodies \cup Records]
      /\ TempIsWhole' /\ FilesAreWhole' /\ ContentFirst'
  BY <1>1, <1>2, <1>3, <1>4, AbandonStep
<1>6. index' \in [Fetchers -> [Urls -> {None} \cup Entries]]
  BY DEF Crash, IInv, TypeOK
<1>7. crashes' \in 0 .. MaxCrashes
  BY CacheAssumption DEF Crash, IInv, TypeOK
<1> QED BY <1>2, <1>4, <1>5, <1>6, <1>7 DEF Crash, IInv, TypeOK

LEMMA ServerChangesStep ==
  ASSUME IInv, ServerChanges
  PROVE  IInv'
<1>1. version' \in Versions
  BY CacheAssumption DEF ServerChanges, IInv, TypeOK, Versions
<1>2. UNCHANGED <<contentFile, recordFile, temp, index, call, crashes, obtained>>
  BY DEF ServerChanges, disk
<1>3. TypeOK'
  BY <1>1, <1>2 DEF IInv, TypeOK
<1>4. TempIsWhole' /\ FilesAreWhole' /\ ContentFirst'
  BY <1>2 DEF IInv, TempIsWhole, FilesAreWhole, ContentFirst, At, StoreTemp, FileText, TempName
<1> QED BY <1>3, <1>4 DEF IInv

-------------------------------------------------------------------------------
(* The entry a call works with is there when it is used.                   *)

EntryPcs == {"exists", "read", "register"}

EntryAtHand == \A t \in Threads : call[t].pc \in EntryPcs => call[t].entry # None

LEMMA EntryStep ==
  ASSUME IInv, EntryAtHand, NEW t \in Threads, Step(t)
  PROVE  EntryAtHand'
<1>1. call \in [Threads -> Calls]
  BY DEF IInv, TypeOK
<1>2. NoCall.pc = "idle"
  BY NoCallType
<1>3. ASSUME NEW c, call' = [call EXCEPT ![t] = c], c.pc \in EntryPcs => c.entry # None
      PROVE  EntryAtHand'
  <2>1. call'[t] = c /\ \A u \in Threads \ {t} : call'[u] = call[u]
    BY <1>1, <1>3
  <2> QED BY <1>3, <2>1 DEF EntryAtHand
<1>4. ASSUME NEW pc, pc \notin EntryPcs, Goto(t, pc)
      PROVE  EntryAtHand'
  <2>1. call' = [call EXCEPT ![t] = [call[t] EXCEPT !.pc = pc]]
    BY <1>4 DEF Goto
  <2>2. [call[t] EXCEPT !.pc = pc].pc = pc
    BY <1>1 DEF Calls
  <2> QED BY <1>3, <1>4, <2>1, <2>2
<1>5. ASSUME NEW url, NEW u, NEW r, StartStore(t, url, u, r)
      PROVE  EntryAtHand'
  <2> DEFINE c == [NoCall EXCEPT !.pc = "create", !.url = url, !.got = r, !.storing = u,
                                 !.dropped = call[t].dropped]
  <2>1. c.pc = "create" /\ call' = [call EXCEPT ![t] = c]
    BY <1>5, NoCallType DEF StartStore, Calls
  <2> HIDE DEF c
  <2> QED BY <1>3, <2>1 DEF EntryPcs
<1>6. ASSUME Succeed(t) PROVE EntryAtHand'
  <2> DEFINE c == [NoCall EXCEPT !.pc = "done", !.url = call[t].url, !.got = call[t].got]
  <2>1. c.pc = "done" /\ call' = [call EXCEPT ![t] = c]
    BY <1>6, NoCallType DEF Succeed, Calls
  <2> HIDE DEF c
  <2> QED BY <1>3, <2>1 DEF EntryPcs
<1>7. ASSUME EndCall(t) PROVE EntryAtHand'
  BY <1>2, <1>3, <1>7 DEF EndCall, EntryPcs
<1>8. ASSUME LookUp(t) PROVE EntryAtHand'
  <2> DEFINE e == index[Owner[t]][call[t].url]
             c == [call[t] EXCEPT !.pc = IF e = None THEN "record" ELSE "read", !.entry = e]
  <2>1. call' = [call EXCEPT ![t] = c]
    BY <1>8 DEF LookUp
  <2>2. c.pc \in EntryPcs => c.entry # None
    BY <1>1 DEF Calls, EntryPcs
  <2> HIDE DEF c
  <2> QED BY <1>3, <2>1, <2>2
<1>9. ASSUME LoadRecord(t) PROVE EntryAtHand'
  <2> DEFINE u   == call[t].url
             rec == recordFile[HashOf[u]]
             c   == [call[t] EXCEPT !.pc = "exists", !.entry = [hash |-> HashOf[u], final |-> rec.final]]
  <2>1. CASE IsRecordOf(rec, u)
    <3>1. u \in Urls /\ HashOf[u] \in Hashes
      BY CallFields, CacheAssumption DEF IInv
    <3>2. rec \in Records
      BY <2>1, <3>1 DEF IsRecordOf, IInv, TypeOK
    <3>3. [hash |-> HashOf[u], final |-> rec.final] \in Entries
      BY <3>1, <3>2 DEF Records, Entries
    <3>4. c.entry = [hash |-> HashOf[u], final |-> rec.final]
      BY <1>1 DEF Calls
    <3>5. call' = [call EXCEPT ![t] = c] /\ c.entry # None
      BY <1>9, <2>1, <3>3, <3>4, CacheAssumption DEF LoadRecord
    <3> HIDE DEF c
    <3> QED BY <1>3, <3>5
  <2>2. CASE ~IsRecordOf(rec, u)
    BY <1>4, <1>9, <2>2 DEF LoadRecord, EntryPcs
  <2> QED BY <2>1, <2>2
<1>10. ASSUME LoadExists(t) PROVE EntryAtHand'
  <2> DEFINE pc == IF contentFile[call[t].entry.hash] # NoFile THEN "read" ELSE "inner"
             c == [call[t] EXCEPT !.pc = pc]
  <2>1. call' = [call EXCEPT ![t] = c] /\ call[t].entry # None
    BY <1>10 DEF LoadExists, Goto, EntryAtHand, At, EntryPcs
  <2>2. c.entry = call[t].entry
    BY <1>1 DEF Calls
  <2> HIDE DEF c
  <2> QED BY <1>3, <2>1, <2>2
<1>11. ASSUME ReadContent(t) PROVE EntryAtHand'
  <2> DEFINE e == call[t].entry
             c == [call[t] EXCEPT !.pc = "register", !.got = [body |-> contentFile[e.hash], final |-> e.final]]
  <2>1. call' = [call EXCEPT ![t] = c] /\ call[t].entry # None
    BY <1>11 DEF ReadContent, EntryAtHand, At, EntryPcs
  <2>2. c.entry = call[t].entry
    BY <1>1 DEF Calls
  <2> HIDE DEF c
  <2> QED BY <1>3, <2>1, <2>2
<1>12. ASSUME CallFails(t) PROVE EntryAtHand'
  <2> DEFINE c == IF call[t].dropped THEN NoCall ELSE [NoCall EXCEPT !.pc = "failed"]
  <2>1. call' = [call EXCEPT ![t] = c] /\ c.pc \in {"idle", "failed"}
    BY <1>12, NoCallType DEF CallFails, GiveUp, Calls
  <2> HIDE DEF c
  <2> QED BY <1>3, <2>1 DEF EntryPcs
<1>13. ASSUME StoreFile(t) PROVE EntryAtHand'
  <2>1. CASE call[t].part = FirstPart
    <3> DEFINE c == [call[t] EXCEPT !.pc = "create", !.part = CHOOSE p \in Parts : p # FirstPart]
    <3>1. call' = [call EXCEPT ![t] = c] /\ c.pc = "create"
      BY <1>1, <1>13, <2>1 DEF StoreFile, StoreNext, Calls
    <3> HIDE DEF c
    <3> QED BY <1>3, <3>1 DEF EntryPcs
  <2>2. CASE call[t].part # FirstPart
    BY <1>4, <1>7, <1>13, <2>2 DEF StoreFile, StoreNext, EntryPcs
  <2> QED BY <2>1, <2>2
<1>14. ASSUME DropFuture(t) PROVE EntryAtHand'
  <2>1. CASE call[t].pc \in StorePcs
    <3> DEFINE c == [call[t] EXCEPT !.dropped = TRUE]
    <3>1. call' = [call EXCEPT ![t] = c] /\ c.pc = call[t].pc
      BY <1>1, <1>14, <2>1 DEF DropFuture, Calls
    <3> HIDE DEF c
    <3> QED BY <1>3, <2>1, <3>1 DEF StorePcs, EntryPcs
  <2>2. CASE call[t].pc \notin StorePcs
    BY <1>7, <1>14, <2>2 DEF DropFuture
  <2> QED BY <2>1, <2>2
<1>15. ASSUME NEW u \in Asks[t], Call(t, u) PROVE EntryAtHand'
  <2> DEFINE c == [call[t] EXCEPT !.pc = "index", !.url = u, !.cached = Cached(Owner[t], u)]
  <2>1. call' = [call EXCEPT ![t] = c] /\ c.pc = "index"
    BY <1>1, <1>15 DEF Call, Calls
  <2> HIDE DEF c
  <2> QED BY <1>3, <2>1 DEF EntryPcs
<1>16. Register(t) => EntryAtHand'
  BY <1>6 DEF Register
<1>17. InnerFetch(t) => EntryAtHand'
  BY <1>5 DEF InnerFetch
<1>18. CreateTemp(t) \/ FillTemp(t) => EntryAtHand'
  BY <1>4 DEF CreateTemp, FillTemp, EntryPcs
<1>19. InsertIndex(t) => EntryAtHand'
  BY <1>5, <1>6 DEF InsertIndex
<1>20. Return(t) => EntryAtHand'
  BY <1>7 DEF Return
<1>21. ASSUME NEW u \in Seedable, Seed(t, u) PROVE EntryAtHand'
  BY <1>5, <1>21 DEF Seed
<1> QED BY <1>8, <1>9, <1>10, <1>11, <1>12, <1>13, <1>14, <1>15, <1>16, <1>17, <1>18, <1>19,
           <1>20, <1>21 DEF Step

-------------------------------------------------------------------------------
(* The invariant, and what it gives.                                       *)

Inv == IInv /\ EntryAtHand

LEMMA StepInv ==
  ASSUME Inv, NEW t \in Threads, Step(t)
  PROVE  Inv'
<1>1. EntryAtHand'
  BY EntryStep DEF Inv
<1>2. ReadContent(t) => call[t].entry # None
  BY DEF ReadContent, Inv, EntryAtHand, At, EntryPcs
<1>3. IInv'
  BY <1>2, LookUpStep, LoadRecordStep, LoadExistsStep, ReadContentStep, RegisterStep,
     InnerFetchStep, CallFailsStep, CreateTempStep, FillTempStep, StoreFileStep,
     InsertIndexStep, ReturnStep, DropFutureStep, CallStep, SeedStep DEF Step, Inv
<1> QED BY <1>1, <1>3 DEF Inv

LEMMA NextInv == Inv /\ [Next]_vars => Inv'
<1> SUFFICES ASSUME Inv, [Next]_vars PROVE Inv'
  OBVIOUS
<1>1. CASE \E t \in Threads : Step(t)
  BY <1>1, StepInv
<1>2. CASE ServerChanges
  <2>1. UNCHANGED call
    BY <1>2 DEF ServerChanges
  <2> QED BY <1>2, <2>1, ServerChangesStep DEF Inv, EntryAtHand
<1>3. CASE \E f \in Fetchers : Crash(f)
  <2>1. PICK f \in Fetchers : Crash(f)
    BY <1>3
  <2>2. EntryAtHand'
    BY <2>1, NoCallType DEF Crash, Inv, EntryAtHand, EntryPcs
  <2> QED BY <2>1, <2>2, CrashStep DEF Inv
<1>4. CASE UNCHANGED vars
  BY <1>4 DEF vars, Inv, EntryAtHand, IInv, TypeOK, TempIsWhole, FilesAreWhole, ContentFirst,
              At, StoreTemp, FileText, TempName
<1> QED BY <1>1, <1>2, <1>3, <1>4 DEF Next

LEMMA InitInv == Init => Inv
<1> SUFFICES ASSUME Init PROVE Inv
  OBVIOUS
<1>1. \A t \in Threads : call[t].pc = "idle"
  BY NoCallType DEF Init
<1> QED BY <1>1, InitIInv DEF Inv, EntryAtHand, EntryPcs

LEMMA AlwaysInv == Spec => []Inv
BY InitInv, NextInv, PTL DEF Spec

(* Every variable of the cache keeps its type; in particular the content a *)
(* hit reads (ReadContent) is a whole document, never a partial file.      *)
THEOREM TypeCorrect == Spec => []TypeOK
<1>1. Inv => TypeOK
  BY DEF Inv, IInv
<1> QED BY <1>1, AlwaysInv, PTL

(* "The record is written after the content, so its presence marks a       *)
(* complete entry": for any number of threads and of processes sharing the *)
(* directory, and wherever any of them fails, is dropped or dies.          *)
THEOREM RecordsMarkCompleteEntries == Spec => []RecordMarksComplete
<1>1. Inv => RecordMarksComplete
  BY DEF Inv, IInv, FilesAreWhole, ContentFirst, RecordMarksComplete
<1> QED BY <1>1, AlwaysInv, PTL

-------------------------------------------------------------------------------
(* What the helpers of a step leave in the call's locals.                  *)

LEMMA OthersKeep ==
  ASSUME TypeOK, NEW t \in Threads, Step(t), NEW u \in Threads, u # t
  PROVE  call'[u] = call[u]
<1>1. call \in [Threads -> Calls]
  BY DEF TypeOK
<1>2. \E c : call' = [call EXCEPT ![t] = c]
  BY DEF Step, LookUp, LoadRecord, LoadExists, ReadContent, Register, InnerFetch, CallFails, CreateTemp,
         FillTemp, StoreFile, StoreNext, InsertIndex, Return, DropFuture, Call, Seed,
         EndCall, Goto, Succeed, GiveUp, StartStore
<1> QED BY <1>1, <1>2

LEMMA GotoFields ==
  ASSUME TypeOK, NEW t \in Threads, NEW pc, Goto(t, pc)
  PROVE  /\ call'[t].pc = pc
         /\ call'[t].url = call[t].url /\ call'[t].entry = call[t].entry /\ call'[t].got = call[t].got
         /\ call'[t].storing = call[t].storing /\ call'[t].part = call[t].part
         /\ call'[t].cached = call[t].cached
<1>1. call \in [Threads -> Calls]
  BY DEF TypeOK
<1>2. call'[t] = [call[t] EXCEPT !.pc = pc]
  BY <1>1 DEF Goto
<1> QED BY <1>1, <1>2 DEF Calls

LEMMA EndCallFields ==
  ASSUME TypeOK, NEW t \in Threads, EndCall(t)
  PROVE  call'[t] = NoCall /\ call'[t].pc = "idle" /\ ~call'[t].cached
<1>1. call \in [Threads -> Calls]
  BY DEF TypeOK
<1> QED BY <1>1, NoCallType DEF EndCall, NoCall

LEMMA SucceedFields ==
  ASSUME TypeOK, NEW t \in Threads, Succeed(t)
  PROVE  /\ call'[t].pc = "done" /\ ~call'[t].cached
         /\ call'[t].url = call[t].url /\ call'[t].got = call[t].got
<1>1. call \in [Threads -> Calls]
  BY DEF TypeOK
<1>2. call'[t] = [NoCall EXCEPT !.pc = "done", !.url = call[t].url, !.got = call[t].got]
  BY <1>1 DEF Succeed
<1> QED BY <1>2 DEF NoCall

LEMMA StartStoreFields ==
  ASSUME TypeOK, NEW t \in Threads, NEW url, NEW u, NEW r, StartStore(t, url, u, r)
  PROVE  /\ call'[t].pc = "create" /\ ~call'[t].cached
         /\ call'[t].url = url /\ call'[t].got = r /\ call'[t].storing = u
<1>1. call \in [Threads -> Calls]
  BY DEF TypeOK
<1>2. call'[t] = [NoCall EXCEPT !.pc = "create", !.url = url, !.got = r, !.storing = u,
                                !.dropped = call[t].dropped]
  BY <1>1 DEF StartStore
<1> QED BY <1>2 DEF NoCall

LEMMA GiveUpFields ==
  ASSUME TypeOK, NEW t \in Threads, GiveUp(t)
  PROVE  /\ call'[t].pc = (IF call[t].dropped THEN "idle" ELSE "failed") /\ ~call'[t].cached
<1>1. call \in [Threads -> Calls]
  BY DEF TypeOK
<1>2. call'[t] = IF call[t].dropped THEN NoCall ELSE [NoCall EXCEPT !.pc = "failed"]
  BY <1>1 DEF GiveUp
<1> QED BY <1>2 DEF NoCall

LEMMA StoreNextFields ==
  ASSUME TypeOK, NEW t \in Threads, StoreNext(t), At(t, "rename")
  PROVE  \/ call'[t].pc = "idle" /\ ~call'[t].cached
         \/ /\ call'[t].pc \in {"create", "insert"}
            /\ call'[t].url = call[t].url /\ call'[t].got = call[t].got
            /\ call'[t].storing = call[t].storing /\ call'[t].cached = call[t].cached
<1>1. call \in [Threads -> Calls]
  BY DEF TypeOK
<1>2. CASE call[t].part = FirstPart
  <2>1. call'[t] = [call[t] EXCEPT !.pc = "create", !.part = CHOOSE p \in Parts : p # FirstPart]
    BY <1>1, <1>2 DEF StoreNext
  <2> QED BY <1>1, <2>1 DEF Calls
<1>3. CASE call[t].part # FirstPart
  BY <1>3, EndCallFields, GotoFields DEF StoreNext
<1> QED BY <1>2, <1>3

(* A future that is dropped in a store goes on, and ends elsewhere.        *)
LEMMA DropFutureFields ==
  ASSUME TypeOK, NEW t \in Threads, DropFuture(t)
  PROVE  \/ call'[t].pc = "idle" /\ ~call'[t].cached
         \/ /\ call'[t].pc = call[t].pc /\ call[t].pc \in StorePcs
            /\ call'[t].url = call[t].url /\ call'[t].got = call[t].got
            /\ call'[t].storing = call[t].storing /\ call'[t].cached = call[t].cached
<1>1. call \in [Threads -> Calls]
  BY DEF TypeOK
<1>2. CASE call[t].pc \in StorePcs
  <2>1. call'[t] = [call[t] EXCEPT !.dropped = TRUE]
    BY <1>1, <1>2 DEF DropFuture
  <2> QED BY <1>1, <1>2, <2>1 DEF Calls
<1>3. CASE call[t].pc \notin StorePcs
  BY <1>3, EndCallFields DEF DropFuture
<1> QED BY <1>2, <1>3

-------------------------------------------------------------------------------
(* What was cached stays cached, if no two URLs share a hash: their files  *)
(* would overwrite one another.                                            *)

HashesApart == \A u, v \in Urls : HashOf[u] = HashOf[v] => u = v

(* A record lies under the hash of the URL it names.                       *)
RecordsAtHome == \A h \in Hashes : recordFile[h] # NoFile => HashOf[recordFile[h].url] = h

(* What a call whose document was cached when it began has found so far.   *)
CachedAtHand ==
  \A t \in Threads : call[t].cached =>
    /\ At(t, "index") => Cached(Owner[t], call[t].url)
    /\ At(t, "record") => IsRecordOf(recordFile[HashOf[call[t].url]], call[t].url)
    /\ At(t, "exists") => contentFile[call[t].entry.hash] # NoFile
    /\ ~At(t, "inner")

LEMMA RecordsStep ==
  ASSUME Inv, RecordsAtHome, NEW t \in Threads, Step(t)
  PROVE  /\ RecordsAtHome'
         /\ \A h \in Hashes : contentFile[h] # NoFile => contentFile'[h] # NoFile
         /\ HashesApart => \A u \in Urls : IsRecordOf(recordFile[HashOf[u]], u) =>
                                           IsRecordOf(recordFile[HashOf[u]], u)'
<1>1. CASE UNCHANGED <<contentFile, recordFile>>
  BY <1>1 DEF RecordsAtHome, IsRecordOf
<1>2. CASE StoreFile(t)
  <2> DEFINE h == HashOf[call[t].storing]
  <2>1. /\ At(t, "rename") /\ temp[StoreTemp(t)] = FileText(t)
        /\ contentFile \in [Hashes -> {NoFile, Partial} \cup Bodies]
        /\ recordFile \in [Hashes -> {NoFile, Partial} \cup Records]
        /\ call[t].storing \in Urls /\ h \in Hashes /\ call[t].part \in {"content", "record"}
    BY <1>2, CallFields, CacheAssumption DEF StoreFile, RenameTemp, Inv, IInv, TempIsWhole, TypeOK, Parts
  <2>2. FileText(t) \notin {NoFile, Partial}
    BY FileTextType DEF Inv, IInv
  <2>3. CASE call[t].part = "content"
    <3>1. contentFile' = [contentFile EXCEPT ![h] = FileText(t)] /\ recordFile' = recordFile
      BY <1>2, <2>1, <2>3 DEF StoreFile, RenameTemp
    <3> QED BY <2>1, <2>2, <3>1 DEF RecordsAtHome, IsRecordOf
  <2>4. CASE call[t].part = "record"
    <3>1. recordFile' = [recordFile EXCEPT ![h] = FileText(t)] /\ contentFile' = contentFile
      BY <1>2, <2>1, <2>4 DEF StoreFile, RenameTemp
    <3>2. FileText(t).url = call[t].storing
      BY <2>4 DEF FileText
    <3>3. RecordsAtHome'
      BY <2>1, <3>1, <3>2 DEF RecordsAtHome
    <3>4. ASSUME HashesApart, NEW u \in Urls, IsRecordOf(recordFile[HashOf[u]], u)
          PROVE  IsRecordOf(recordFile[HashOf[u]], u)'
      <4>1. HashOf[u] \in Hashes
        BY CacheAssumption
      <4>2. CASE HashOf[u] = h
        <5>1. u = call[t].storing
          BY <2>1, <3>4, <4>2 DEF HashesApart
        <5>2. recordFile'[HashOf[u]] = FileText(t)
          BY <2>1, <3>1, <4>2
        <5> QED BY <2>2, <3>2, <5>1, <5>2 DEF IsRecordOf
      <4>3. CASE HashOf[u] # h
        BY <2>1, <3>1, <3>4, <4>1, <4>3 DEF IsRecordOf
      <4> QED BY <4>2, <4>3
    <3> QED BY <3>1, <3>3, <3>4
  <2> QED BY <2>1, <2>3, <2>4
<1>3. StoreFile(t) \/ UNCHANGED <<contentFile, recordFile>>
  BY DEF Step, LookUp, LoadRecord, LoadExists, ReadContent, Register, InnerFetch, CallFails, CreateTemp,
         FillTemp, InsertIndex, Return, DropFuture, Call, Seed, disk
<1> QED BY <1>1, <1>2, <1>3

LEMMA IndexStep ==
  ASSUME Inv, NEW t \in Threads, Step(t), NEW f \in Fetchers, NEW u \in Urls, index[f][u] # None
  PROVE  index'[f][u] # None
<1>1. index \in [Fetchers -> [Urls -> {None} \cup Entries]] /\ Owner[t] \in Fetchers
  BY CacheAssumption DEF Inv, IInv, TypeOK
<1>2. CASE Register(t)
  <2>1. index' = [index EXCEPT ![Owner[t]][call[t].url] = call[t].entry] /\ call[t].entry # None
    BY <1>2 DEF Register, Inv, EntryAtHand, At, EntryPcs
  <2> QED BY <1>1, <2>1
<1>3. CASE InsertIndex(t)
  <2> DEFINE e == [hash |-> HashOf[call[t].storing], final |-> call[t].got.final]
  <2>1. index' = [index EXCEPT ![Owner[t]][call[t].storing] = e]
    BY <1>3 DEF InsertIndex
  <2>2. e \in Entries
    BY CallFields, CacheAssumption DEF Inv, IInv, Entries
  <2>3. e # None
    BY <2>2, CacheAssumption
  <2> HIDE DEF e
  <2> QED BY <1>1, <2>1, <2>3
<1>4. Register(t) \/ InsertIndex(t) \/ UNCHANGED index
  BY DEF Step, LookUp, LoadRecord, LoadExists, ReadContent, InnerFetch, CallFails, CreateTemp,
         FillTemp, StoreFile, Return, DropFuture, Call, Seed
<1> QED BY <1>2, <1>3, <1>4

LEMMA CachedStep ==
  ASSUME Inv, RecordsAtHome, CachedAtHand, HashesApart, NEW t \in Threads, Step(t)
  PROVE  CachedAtHand'
<1>1. TypeOK /\ \A u \in Threads : call[u] \in Calls /\ call[u].url \in Urls /\ Owner[u] \in Fetchers
  BY CallFields, CacheAssumption DEF Inv, IInv
<1>2. ASSUME NEW u \in Urls, IsRecordOf(recordFile[HashOf[u]], u) PROVE IsRecordOf(recordFile[HashOf[u]], u)'
  BY <1>2, RecordsStep
<1>3. ASSUME NEW f \in Fetchers, NEW u \in Urls, Cached(f, u) PROVE Cached(f, u)'
  BY <1>2, <1>3, IndexStep DEF Cached
<1>4. ASSUME NEW u \in Urls, IsRecordOf(recordFile[HashOf[u]], u)
      PROVE  contentFile[HashOf[u]] # NoFile
  BY <1>4, CacheAssumption DEF IsRecordOf, Inv, IInv, ContentFirst
<1>5. ASSUME NEW u \in Threads, call[u].pc = "exists" PROVE call[u].entry.hash \in Hashes
  <2>1. call[u].entry \in Entries
    BY <1>5, CallFields DEF Inv, IInv, EntryAtHand, EntryPcs
  <2> QED BY <2>1 DEF Entries
<1>6. ASSUME NEW u \in Threads, u # t, call[u].cached
      PROVE  /\ At(u, "index")' => Cached(Owner[u], call[u].url)'
             /\ At(u, "record")' => IsRecordOf(recordFile[HashOf[call[u].url]], call[u].url)'
             /\ At(u, "exists")' => contentFile'[call'[u].entry.hash] # NoFile
             /\ ~At(u, "inner")'
  <2>1. call'[u] = call[u]
    BY <1>1, <1>6, OthersKeep
  <2>2. contentFile[call[u].entry.hash] # NoFile /\ At(u, "exists") => contentFile'[call[u].entry.hash] # NoFile
    BY <1>5, RecordsStep DEF At
  <2>3. PICK url \in Urls : url = call[u].url
    BY <1>1
  <2>4. At(u, "index") => Cached(Owner[u], url)'
    BY <1>1, <1>3, <1>6, <2>3 DEF CachedAtHand
  <2> QED BY <1>1, <1>2, <1>6, <2>1, <2>2, <2>3, <2>4 DEF CachedAtHand, At, Cached, IsRecordOf
<1>7. ASSUME call'[t].cached
      PROVE  /\ At(t, "index")' => Cached(Owner[t], call[t].url)'
             /\ At(t, "record")' => IsRecordOf(recordFile[HashOf[call[t].url]], call[t].url)'
             /\ At(t, "exists")' => contentFile'[call'[t].entry.hash] # NoFile
             /\ ~At(t, "inner")'
  <2>1. ASSUME NEW u \in Asks[t], Call(t, u) PROVE At(t, "index")' /\ Cached(Owner[t], call[t].url)'
    <3>1. call'[t] = [call[t] EXCEPT !.pc = "index", !.url = u, !.cached = Cached(Owner[t], u)]
      BY <1>1, <2>1 DEF Call, TypeOK
    <3>2. call'[t].pc = "index" /\ call'[t].url = u /\ call'[t].cached = Cached(Owner[t], u)
      BY <1>1, <3>1 DEF Calls
    <3>3. u \in Urls
      BY <2>1, CacheAssumption
    <3>4. Cached(Owner[t], u)'
      <4>1. Cached(Owner[t], u)
        BY <1>7, <3>2 DEF Cached
      <4> QED BY <1>1, <1>3, <3>3, <4>1
    <3> QED BY <3>2, <3>4 DEF At
  <2>2. CASE LookUp(t)
    <3>1. call'[t] = [call[t] EXCEPT !.pc = IF index[Owner[t]][call[t].url] = None THEN "record" ELSE "read",
                                     !.entry = index[Owner[t]][call[t].url]]
      BY <1>1, <2>2 DEF LookUp, TypeOK
    <3>2. /\ call'[t].pc = (IF index[Owner[t]][call[t].url] = None THEN "record" ELSE "read")
          /\ call'[t].url = call[t].url /\ call[t].cached
      BY <1>1, <1>7, <3>1 DEF Calls
    <3>3. Cached(Owner[t], call[t].url) /\ recordFile' = recordFile
      BY <2>2, <3>2 DEF LookUp, CachedAtHand, disk
    <3> QED BY <3>2, <3>3 DEF At, Cached
  <2>3. CASE LoadRecord(t)
    <3>1. IsRecordOf(recordFile[HashOf[call[t].url]], call[t].url) /\ contentFile' = contentFile
      <4>1. call[t].cached
        <5>1. CASE IsRecordOf(recordFile[HashOf[call[t].url]], call[t].url)
          <6>1. call'[t] = [call[t] EXCEPT !.pc = "exists",
                              !.entry = [hash |-> HashOf[call[t].url], final |-> recordFile[HashOf[call[t].url]].final]]
            BY <1>1, <2>3, <5>1 DEF LoadRecord, TypeOK
          <6> QED BY <1>1, <1>7, <6>1 DEF Calls
        <5>2. CASE ~IsRecordOf(recordFile[HashOf[call[t].url]], call[t].url)
          BY <1>1, <1>7, <2>3, <5>2, GotoFields DEF LoadRecord
        <5> QED BY <5>1, <5>2
      <4> QED BY <2>3, <4>1 DEF LoadRecord, CachedAtHand, disk
    <3>2. call'[t] = [call[t] EXCEPT !.pc = "exists",
                        !.entry = [hash |-> HashOf[call[t].url], final |-> recordFile[HashOf[call[t].url]].final]]
      BY <1>1, <2>3, <3>1 DEF LoadRecord, TypeOK
    <3>3. call'[t].pc = "exists" /\ call'[t].entry.hash = HashOf[call[t].url]
      BY <1>1, <3>2 DEF Calls
    <3> QED BY <1>1, <1>4, <3>1, <3>3 DEF At
  <2>4. CASE LoadExists(t)
    <3>1. call'[t].cached = call[t].cached /\ call'[t].pc = IF contentFile[call[t].entry.hash] # NoFile THEN "read" ELSE "inner"
      BY <1>1, <2>4, GotoFields DEF LoadExists
    <3>2. At(t, "exists")
      BY <2>4 DEF LoadExists
    <3> QED BY <1>7, <3>1, <3>2 DEF CachedAtHand, At
  <2>5. CASE ReadContent(t)
    <3>1. call'[t] = [call[t] EXCEPT !.pc = "register",
                        !.got = [body |-> contentFile[call[t].entry.hash], final |-> call[t].entry.final]]
      BY <1>1, <2>5 DEF ReadContent, TypeOK
    <3>2. call'[t].pc = "register"
      BY <1>1, <3>1 DEF Calls
    <3> QED BY <3>2 DEF At
  <2>6. CASE StoreFile(t)
    BY <1>1, <2>6, StoreNextFields DEF StoreFile, RenameTemp, At
  <2>7. CASE DropFuture(t)
    BY <1>1, <2>7, DropFutureFields DEF At, StorePcs
  <2>8. CASE CreateTemp(t) \/ FillTemp(t)
    BY <1>1, <2>8, GotoFields DEF CreateTemp, FillTemp, At
  <2>9. Register(t) \/ InnerFetch(t) \/ CallFails(t) \/ InsertIndex(t) \/ Return(t) => ~call'[t].cached
    BY <1>1, SucceedFields, StartStoreFields, GiveUpFields, EndCallFields
    DEF Register, InnerFetch, CallFails, InsertIndex, Return
  <2>10. (\E u \in Seedable : Seed(t, u)) => ~call'[t].cached
    BY <1>1, StartStoreFields DEF Seed
  <2> QED BY <1>7, <2>1, <2>2, <2>3, <2>4, <2>5, <2>6, <2>7, <2>8, <2>9, <2>10 DEF Step, At
<1>8. \A u \in Threads \ {t} : call'[u] = call[u]
  BY <1>1, OthersKeep
<1> QED BY <1>6, <1>7, <1>8 DEF CachedAtHand, Cached, IsRecordOf, At

RefetchInv == Inv /\ RecordsAtHome /\ CachedAtHand

LEMMA NextRefetchInv == HashesApart /\ RefetchInv /\ [Next]_vars => RefetchInv'
<1> SUFFICES ASSUME HashesApart, RefetchInv, [Next]_vars PROVE RefetchInv'
  OBVIOUS
<1>1. Inv'
  BY NextInv DEF RefetchInv
<1>2. CASE \E t \in Threads : Step(t)
  BY <1>1, <1>2, RecordsStep, CachedStep DEF RefetchInv
<1>3. CASE \E f \in Fetchers : Crash(f)
  <2>1. PICK f \in Fetchers : Crash(f)
    BY <1>3
  <2>2. contentFile' = contentFile /\ recordFile' = recordFile
    BY <2>1 DEF Crash
  <2>3. \A t \in Threads : Owner[t] # f => index'[Owner[t]] = index[Owner[t]]
    BY <2>1, CacheAssumption DEF Crash, RefetchInv, Inv, IInv, TypeOK
  <2>4. \A t \in Threads : IF Owner[t] = f THEN ~call'[t].cached ELSE call'[t] = call[t]
    BY <2>1 DEF Crash, NoCall
  <2>5. CachedAtHand'
    BY <2>2, <2>3, <2>4 DEF RefetchInv, CachedAtHand, Cached, IsRecordOf, At
  <2> QED BY <1>1, <2>2, <2>5 DEF RefetchInv, RecordsAtHome
<1>4. CASE ServerChanges \/ UNCHANGED vars
  BY <1>1, <1>4 DEF ServerChanges, vars, disk, RefetchInv, RecordsAtHome, CachedAtHand, Cached, IsRecordOf, At
<1> QED BY <1>2, <1>3, <1>4 DEF Next

(* A document whose entry was there when it was asked for is not requested *)
(* again, in this process or after a restart on the same directory, if no  *)
(* two of the URLs share a hash: whatever other calls and other processes  *)
(* store, fail or die meanwhile.                                           *)
THEOREM CachedNotRefetched == HashesApart /\ Spec => []NoRefetch
<1>1. Init => RefetchInv
  <2>1. Init => \A t \in Threads : ~call[t].cached
    BY DEF Init, NoCall
  <2> QED BY <2>1, InitInv DEF RefetchInv, Init, RecordsAtHome, CachedAtHand
<1>2. RefetchInv => NoRefetch
  BY DEF RefetchInv, CachedAtHand, NoRefetch
<1>3. HashesApart => HashesApart'
  OBVIOUS
<1> QED BY <1>1, <1>2, <1>3, NextRefetchInv, PTL DEF Spec

-------------------------------------------------------------------------------
(* The promise of FetchCache is kept while no two URLs share a hash and    *)
(* every URL is redirected, if at all, always to the same place: a record  *)
(* and the content beside it may come from two fetches.                    *)

FinalOf(u) == Target[u][0]

StableRedirects ==
  \A u \in Urls :
    /\ \A v \in Versions : Target[u][v] = FinalOf(u)
    /\ FinalOf(FinalOf(u)) = FinalOf(u)
    /\ u \in Seedable => FinalOf(u) = u

FinalsKnown == \A u \in Urls : \A r \in obtained[u] : r.final = FinalOf(u)

(* A content file is what some fetch got for its URL.                      *)
ContentKnown ==
  \A u \in Urls : contentFile[HashOf[u]] # NoFile =>
    [body |-> contentFile[HashOf[u]], final |-> FinalOf(u)] \in obtained[u]

RecordsKnown ==
  \A h \in Hashes : recordFile[h] # NoFile => recordFile[h].final = FinalOf(recordFile[h].url)

EntryFor(u) == [hash |-> HashOf[u], final |-> FinalOf(u)]

IndexKnown == \A f \in Fetchers, u \in Urls : index[f][u] \in {None, EntryFor(u)}

(* What a call holds, at each of its steps, was obtained for its URL.      *)
CallKnown(t) ==
  /\ call[t].pc \in EntryPcs => call[t].entry = EntryFor(call[t].url)
  /\ call[t].pc \in {"insert", "register", "done"} \cup StorePcs => call[t].got \in obtained[call[t].url]
  /\ call[t].pc \in {"insert"} \cup StorePcs =>
       call[t].got \in obtained[call[t].storing] /\ call[t].got \in obtained[call[t].got.final]

CallsKnown == \A t \in Threads : CallKnown(t)

KnownInv ==
  Inv /\ RecordsAtHome /\ FinalsKnown /\ ContentKnown /\ RecordsKnown /\ IndexKnown /\ CallsKnown

LEMMA FinalOfType == \A u \in Urls : FinalOf(u) \in Urls
BY CacheAssumption DEF FinalOf, Versions

(* What was obtained for a URL stays obtained.                             *)
LEMMA ObtainedStep ==
  ASSUME KnownInv, StableRedirects, NEW t \in Threads, Step(t)
  PROVE  /\ \A u \in Urls : obtained[u] \subseteq obtained'[u]
         /\ FinalsKnown'
<1>1. obtained \in [Urls -> SUBSET Results] /\ version \in Versions
  BY DEF KnownInv, Inv, IInv, TypeOK
<1>2. ASSUME NEW u \in Seedable, Seed(t, u)
      PROVE  (\A v \in Urls : obtained[v] \subseteq obtained'[v]) /\ FinalsKnown'
  <2> DEFINE r == [body |-> [src |-> u, ver |-> MaxVersion + 1], final |-> u]
  <2>1. obtained' = [obtained EXCEPT ![u] = @ \cup {r}] /\ r.final = u
    BY <1>2 DEF Seed
  <2>2. u \in Urls /\ FinalOf(u) = u
    BY CacheAssumption DEF StableRedirects
  <2> HIDE DEF r
  <2> QED BY <1>1, <2>1, <2>2 DEF FinalsKnown, KnownInv
<1>3. CASE InnerFetch(t)
  <2> DEFINE u == call[t].url
             final == Target[u][version]
             r == [body |-> [src |-> final, ver |-> version], final |-> final]
  <2>1. obtained' = [v \in Urls |-> IF v \in {u, final} THEN obtained[v] \cup {r} ELSE obtained[v]] /\ r.final = final
    BY <1>3 DEF InnerFetch
  <2>2. u \in Urls /\ final = FinalOf(u) /\ FinalOf(final) = final
    BY <1>1, CallFields DEF StableRedirects, KnownInv, Inv, IInv
  <2> HIDE DEF r, final, u
  <2> QED BY <1>1, <2>1, <2>2 DEF FinalsKnown, KnownInv
<1>4. InnerFetch(t) \/ UNCHANGED obtained \/ \E u \in Seedable : Seed(t, u)
  BY DEF Step, LookUp, LoadRecord, LoadExists, ReadContent, Register, CallFails, CreateTemp,
         FillTemp, StoreFile, InsertIndex, Return, DropFuture, Call
<1> QED BY <1>2, <1>3, <1>4 DEF FinalsKnown, KnownInv

LEMMA FilesKnownStep ==
  ASSUME KnownInv, HashesApart, StableRedirects, NEW t \in Threads, Step(t)
  PROVE  ContentKnown' /\ RecordsKnown'
<1>1. \A u \in Urls : HashOf[u] \in Hashes /\ obtained[u] \subseteq obtained'[u]
  BY ObtainedStep, CacheAssumption
<1>2. CASE UNCHANGED <<contentFile, recordFile>>
  BY <1>1, <1>2 DEF KnownInv, ContentKnown, RecordsKnown, FinalOf
<1>3. CASE StoreFile(t)
  <2> DEFINE s == call[t].storing
             h == HashOf[s]
  <2>1. /\ At(t, "rename") /\ temp[StoreTemp(t)] = FileText(t)
        /\ contentFile \in [Hashes -> {NoFile, Partial} \cup Bodies]
        /\ recordFile \in [Hashes -> {NoFile, Partial} \cup Records]
        /\ s \in Urls /\ h \in Hashes /\ call[t].part \in {"content", "record"}
        /\ call[t].got \in Results
    BY <1>3, CallFields, CacheAssumption
    DEF StoreFile, RenameTemp, KnownInv, Inv, IInv, TempIsWhole, TypeOK, Parts
  <2>2. call[t].got \in obtained[s]
    BY <2>1 DEF KnownInv, CallsKnown, CallKnown, At, StorePcs
  <2>3. call[t].got.final = FinalOf(s) /\ call[t].got = [body |-> call[t].got.body, final |-> call[t].got.final]
    BY <2>1, <2>2 DEF KnownInv, FinalsKnown, Results
  <2>4. CASE call[t].part = "content"
    <3>1. contentFile' = [contentFile EXCEPT ![h] = call[t].got.body] /\ recordFile' = recordFile
      BY <1>3, <2>1, <2>4 DEF StoreFile, RenameTemp, FileText
    <3>2. ASSUME NEW u \in Urls, contentFile'[HashOf[u]] # NoFile
          PROVE  [body |-> contentFile'[HashOf[u]], final |-> FinalOf(u)] \in obtained'[u]
      <4>1. CASE HashOf[u] = h
        <5>1. u = s
          BY <2>1, <4>1 DEF HashesApart
        <5>2. contentFile'[HashOf[u]] = call[t].got.body
          BY <2>1, <3>1, <4>1
        <5> QED BY <1>1, <2>2, <2>3, <5>1, <5>2
      <4>2. CASE HashOf[u] # h
        <5>1. contentFile'[HashOf[u]] = contentFile[HashOf[u]]
          BY <1>1, <2>1, <3>1, <4>2
        <5> QED BY <1>1, <3>2, <5>1 DEF KnownInv, ContentKnown
      <4> QED BY <4>1, <4>2
    <3> QED BY <3>1, <3>2 DEF KnownInv, ContentKnown, RecordsKnown, FinalOf
  <2>5. CASE call[t].part = "record"
    <3>1. /\ recordFile' = [recordFile EXCEPT ![h] = [url |-> s, final |-> call[t].got.final]]
          /\ contentFile' = contentFile
      BY <1>3, <2>1, <2>5 DEF StoreFile, RenameTemp, FileText
    <3>2. RecordsKnown'
      BY <2>1, <2>3, <3>1 DEF KnownInv, RecordsKnown, FinalOf
    <3> QED BY <1>1, <3>1, <3>2 DEF KnownInv, ContentKnown, FinalOf
  <2> QED BY <2>1, <2>4, <2>5
<1>4. StoreFile(t) \/ UNCHANGED <<contentFile, recordFile>>
  BY DEF Step, LookUp, LoadRecord, LoadExists, ReadContent, Register, InnerFetch, CallFails, CreateTemp,
         FillTemp, InsertIndex, Return, DropFuture, Call, Seed, disk
<1> QED BY <1>2, <1>3, <1>4

LEMMA IndexKnownStep ==
  ASSUME KnownInv, NEW t \in Threads, Step(t)
  PROVE  IndexKnown'
<1>1. index \in [Fetchers -> [Urls -> {None} \cup Entries]] /\ Owner[t] \in Fetchers
  BY CacheAssumption DEF KnownInv, Inv, IInv, TypeOK
<1>2. CASE Register(t)
  <2>1. index' = [index EXCEPT ![Owner[t]][call[t].url] = EntryFor(call[t].url)]
    BY <1>2 DEF Register, KnownInv, CallsKnown, CallKnown, At, EntryPcs
  <2> QED BY <1>1, <2>1 DEF KnownInv, IndexKnown, EntryFor, FinalOf
<1>3. CASE InsertIndex(t)
  <2>1. index' = [index EXCEPT ![Owner[t]][call[t].storing] = [hash |-> HashOf[call[t].storing], final |-> call[t].got.final]]
    BY <1>3 DEF InsertIndex
  <2>2. call[t].got.final = FinalOf(call[t].storing)
    BY <1>3, CallFields DEF InsertIndex, KnownInv, Inv, IInv, CallsKnown, CallKnown, FinalsKnown, At
  <2>3. index' = [index EXCEPT ![Owner[t]][call[t].storing] = EntryFor(call[t].storing)]
    BY <2>1, <2>2 DEF EntryFor
  <2> QED BY <1>1, <2>3 DEF KnownInv, IndexKnown, EntryFor, FinalOf
<1>4. Register(t) \/ InsertIndex(t) \/ UNCHANGED index
  BY DEF Step, LookUp, LoadRecord, LoadExists, ReadContent, InnerFetch, CallFails, CreateTemp,
         FillTemp, StoreFile, Return, DropFuture, Call, Seed
<1> QED BY <1>2, <1>3, <1>4 DEF KnownInv, IndexKnown, EntryFor, FinalOf

LEMMA CallKnownStep ==
  ASSUME KnownInv, HashesApart, StableRedirects, NEW t \in Threads, Step(t)
  PROVE  CallsKnown'
<1>1. /\ TypeOK /\ CallKnown(t)
      /\ call[t] \in Calls /\ call[t].url \in Urls /\ call[t].storing \in Urls /\ call[t].got.final \in Urls
  BY CallFields DEF KnownInv, Inv, IInv, CallsKnown
<1>2. \A u \in Urls : obtained[u] \subseteq obtained'[u]
  BY ObtainedStep
<1>3. ASSUME NEW u \in Threads, u # t PROVE CallKnown(u)'
  <2>1. call'[u] = call[u] /\ CallKnown(u)
    BY <1>1, <1>3, OthersKeep DEF KnownInv, CallsKnown
  <2>2. call[u].url \in Urls /\ call[u].storing \in Urls /\ call[u].got.final \in Urls
    BY <1>1, CallFields
  <2> QED BY <1>2, <2>1, <2>2 DEF CallKnown, EntryFor, FinalOf
<1> SUFFICES CallKnown(t)'
  BY <1>3 DEF CallsKnown
<1>4. CASE LookUp(t)
  <2> DEFINE e == index[Owner[t]][call[t].url]
  <2>1. call'[t] = [call[t] EXCEPT !.pc = IF e = None THEN "record" ELSE "read", !.entry = e]
    BY <1>1, <1>4 DEF LookUp, TypeOK
  <2>2. call'[t].pc = (IF e = None THEN "record" ELSE "read") /\ call'[t].entry = e /\ call'[t].url = call[t].url
    BY <1>1, <2>1 DEF Calls
  <2>3. e \in {None, EntryFor(call[t].url)}
    BY <1>1, CacheAssumption DEF KnownInv, IndexKnown
  <2> QED BY <2>2, <2>3 DEF CallKnown, EntryPcs, StorePcs, EntryFor, FinalOf
<1>5. CASE LoadRecord(t)
  <2> DEFINE u   == call[t].url
             rec == recordFile[HashOf[u]]
  <2>1. CASE IsRecordOf(rec, u)
    <3>1. call'[t] = [call[t] EXCEPT !.pc = "exists", !.entry = [hash |-> HashOf[u], final |-> rec.final]]
      BY <1>1, <1>5, <2>1 DEF LoadRecord, TypeOK
    <3>2. call'[t].pc = "exists" /\ call'[t].entry = [hash |-> HashOf[u], final |-> rec.final] /\ call'[t].url = u
      BY <1>1, <3>1 DEF Calls
    <3>3. rec.final = FinalOf(u)
      BY <1>1, <2>1, CacheAssumption DEF IsRecordOf, KnownInv, RecordsKnown
    <3> QED BY <3>2, <3>3 DEF CallKnown, EntryPcs, StorePcs, EntryFor, FinalOf
  <2>2. CASE ~IsRecordOf(rec, u)
    <3>1. call'[t].pc = "inner"
      BY <1>1, <1>5, <2>2, GotoFields DEF LoadRecord
    <3> QED BY <3>1 DEF CallKnown, EntryPcs, StorePcs
  <2> QED BY <2>1, <2>2
<1>6. CASE LoadExists(t)
  <2>1. /\ call'[t].pc \in {"read", "inner"}
        /\ call'[t].entry = call[t].entry /\ call'[t].url = call[t].url /\ call[t].pc = "exists"
    BY <1>1, <1>6, GotoFields DEF LoadExists, At
  <2> QED BY <1>1, <2>1 DEF CallKnown, EntryPcs, StorePcs, EntryFor, FinalOf
<1>7. CASE ReadContent(t)
  <2> DEFINE e == call[t].entry
  <2>1. call'[t] = [call[t] EXCEPT !.pc = "register", !.got = [body |-> contentFile[e.hash], final |-> e.final]]
    BY <1>1, <1>7 DEF ReadContent, TypeOK
  <2>2. /\ call'[t].pc = "register" /\ call'[t].entry = e /\ call'[t].url = call[t].url
        /\ call'[t].got = [body |-> contentFile[e.hash], final |-> e.final]
    BY <1>1, <2>1 DEF Calls
  <2>3. e = EntryFor(call[t].url) /\ contentFile[e.hash] # NoFile
    BY <1>1, <1>7 DEF ReadContent, CallKnown, At, EntryPcs
  <2>4. call'[t].got \in obtained[call[t].url]
    BY <1>1, <2>2, <2>3 DEF EntryFor, KnownInv, ContentKnown
  <2> QED BY <1>1, <1>2, <2>2, <2>3, <2>4 DEF CallKnown, EntryPcs, StorePcs, EntryFor, FinalOf
<1>8. CASE Register(t)
  <2>1. call'[t].pc = "done" /\ call'[t].url = call[t].url /\ call'[t].got = call[t].got /\ call[t].pc = "register"
    BY <1>1, <1>8, SucceedFields DEF Register, At
  <2> QED BY <1>1, <1>2, <2>1 DEF CallKnown, EntryPcs, StorePcs
<1>9. CASE InnerFetch(t)
  <2> DEFINE u     == call[t].url
             final == Target[u][version]
             r     == [body |-> [src |-> final, ver |-> version], final |-> final]
  <2>1. call'[t].pc = "create" /\ call'[t].url = u /\ call'[t].got = r /\ call'[t].storing = u
    BY <1>1, <1>9, StartStoreFields DEF InnerFetch
  <2>2. obtained' = [v \in Urls |-> IF v \in {u, final} THEN obtained[v] \cup {r} ELSE obtained[v]]
    BY <1>9 DEF InnerFetch
  <2>3. final \in Urls /\ u \in Urls
    BY <1>1, CacheAssumption DEF TypeOK
  <2>4. r \in obtained'[u] /\ r \in obtained'[final] /\ r.final = final
    BY <2>2, <2>3
  <2> HIDE DEF r, final, u
  <2> QED BY <2>1, <2>4 DEF CallKnown, EntryPcs, StorePcs
<1>10. ASSUME NEW u \in Seedable, Seed(t, u) PROVE CallKnown(t)'
  <2> DEFINE r == [body |-> [src |-> u, ver |-> MaxVersion + 1], final |-> u]
  <2>1. call'[t].pc = "create" /\ call'[t].url = u /\ call'[t].got = r /\ call'[t].storing = u
    BY <1>1, <1>10, StartStoreFields DEF Seed
  <2>2. obtained' = [obtained EXCEPT ![u] = @ \cup {r}] /\ u \in Urls /\ r.final = u
    BY <1>10, CacheAssumption DEF Seed
  <2>3. r \in obtained'[u]
    BY <1>1, <2>2 DEF TypeOK
  <2> HIDE DEF r
  <2> QED BY <2>1, <2>2, <2>3 DEF CallKnown, EntryPcs, StorePcs
<1>11. CASE CallFails(t)
  BY <1>1, <1>11, GiveUpFields DEF CallFails, CallKnown, EntryPcs, StorePcs
<1>12. CASE CreateTemp(t) \/ FillTemp(t)
  <2>1. /\ call[t].pc \in StorePcs /\ call'[t].pc \in StorePcs
        /\ call'[t].url = call[t].url /\ call'[t].got = call[t].got /\ call'[t].storing = call[t].storing
    BY <1>1, <1>12, GotoFields DEF CreateTemp, FillTemp, At, StorePcs
  <2> QED BY <1>1, <1>2, <2>1 DEF CallKnown, EntryPcs, StorePcs
<1>13. CASE StoreFile(t)
  <2>1. At(t, "rename") /\ StoreNext(t)
    BY <1>13 DEF StoreFile, RenameTemp
  <2> QED BY <1>1, <1>2, <2>1, StoreNextFields DEF CallKnown, EntryPcs, StorePcs, At
<1>14. CASE InsertIndex(t)
  <2> DEFINE r == call[t].got
  <2>1. call[t].pc = "insert" /\ r \in obtained[call[t].url] /\ r \in obtained[r.final]
    BY <1>1, <1>14 DEF InsertIndex, At, CallKnown
  <2>2. CASE r.final # call[t].storing
    <3>1. call'[t].pc = "create" /\ call'[t].url = call[t].url /\ call'[t].got = r /\ call'[t].storing = r.final
      BY <1>1, <1>14, <2>2, StartStoreFields DEF InsertIndex
    <3> QED BY <1>1, <1>2, <2>1, <3>1 DEF CallKnown, EntryPcs, StorePcs
  <2>3. CASE r.final = call[t].storing
    <3>1. call'[t].pc = "done" /\ call'[t].url = call[t].url /\ call'[t].got = r
      BY <1>1, <1>14, <2>3, SucceedFields DEF InsertIndex
    <3> QED BY <1>1, <1>2, <2>1, <3>1 DEF CallKnown, EntryPcs, StorePcs
  <2> QED BY <2>2, <2>3
<1>15. CASE Return(t)
  BY <1>1, <1>15, EndCallFields DEF Return, CallKnown, EntryPcs, StorePcs
<1>16. CASE DropFuture(t)
  BY <1>1, <1>2, <1>16, DropFutureFields DEF CallKnown, EntryPcs, StorePcs
<1>17. ASSUME NEW u \in Asks[t], Call(t, u) PROVE CallKnown(t)'
  <2>1. call'[t] = [call[t] EXCEPT !.pc = "index", !.url = u, !.cached = Cached(Owner[t], u)]
    BY <1>1, <1>17 DEF Call, TypeOK
  <2>2. call'[t].pc = "index"
    BY <1>1, <2>1 DEF Calls
  <2> QED BY <2>2 DEF CallKnown, EntryPcs, StorePcs
<1> QED BY <1>4, <1>5, <1>6, <1>7, <1>8, <1>9, <1>10, <1>11, <1>12, <1>13, <1>14, <1>15, <1>16, <1>17 DEF Step

LEMMA NextKnownInv == HashesApart /\ StableRedirects /\ KnownInv /\ [Next]_vars => KnownInv'
<1> SUFFICES ASSUME HashesApart, StableRedirects, KnownInv, [Next]_vars PROVE KnownInv'
  OBVIOUS
<1>1. Inv'
  BY NextInv DEF KnownInv
<1>2. CASE \E t \in Threads : Step(t)
  BY <1>1, <1>2, RecordsStep, ObtainedStep, FilesKnownStep, IndexKnownStep, CallKnownStep DEF KnownInv
<1>3. CASE \E f \in Fetchers : Crash(f)
  <2>1. PICK f \in Fetchers : Crash(f)
    BY <1>3
  <2>2. contentFile' = contentFile /\ recordFile' = recordFile /\ obtained' = obtained
    BY <2>1 DEF Crash
  <2>3. IndexKnown'
    BY <2>1 DEF Crash, KnownInv, Inv, IInv, TypeOK, IndexKnown, EntryFor, FinalOf
  <2>4. \A t \in Threads : call'[t] \in {NoCall, call[t]}
    BY <2>1 DEF Crash
  <2>5. CallsKnown'
    BY <2>2, <2>4, NoCallType DEF KnownInv, CallsKnown, CallKnown, EntryPcs, StorePcs, EntryFor, FinalOf
  <2> QED BY <1>1, <2>2, <2>3, <2>5
          DEF KnownInv, RecordsAtHome, FinalsKnown, ContentKnown, RecordsKnown, FinalOf
<1>4. CASE ServerChanges \/ UNCHANGED vars
  BY <1>1, <1>4
  DEF ServerChanges, vars, disk, KnownInv, RecordsAtHome, FinalsKnown, ContentKnown, RecordsKnown, IndexKnown,
      CallsKnown, CallKnown, EntryFor, FinalOf
<1> QED BY <1>2, <1>3, <1>4 DEF Next

-------------------------------------------------------------------------------
(* Every step obtains, answers, fails, takes an answer, or shows nothing.  *)

LEMMA AnswerOfFields ==
  ASSUME NEW t \in Threads
  PROVE  /\ call[t].pc = "done" => AnswerOf(t) = [url |-> call[t].url, result |-> call[t].got]
         /\ call[t].pc = "failed" => AnswerOf(t) = Failed
         /\ call[t].pc \notin {"done", "failed"} => AnswerOf(t) = Idle
BY DEF AnswerOf, At

LEMMA AnswerOfFieldsNext ==
  ASSUME NEW t \in Threads
  PROVE  /\ call'[t].pc = "done" => AnswerOf(t)' = [url |-> call'[t].url, result |-> call'[t].got]
         /\ call'[t].pc = "failed" => AnswerOf(t)' = Failed
         /\ call'[t].pc \notin {"done", "failed"} => AnswerOf(t)' = Idle
BY DEF AnswerOf, At

LEMMA InitPromise == Init => Promise!CacheInit
<1> SUFFICES ASSUME Init PROVE Promise!CacheInit
  OBVIOUS
<1>1. \A t \in Threads : AnswerOf(t) = Idle
  BY NoCallType, AnswerOfFields DEF Init
<1> QED BY <1>1 DEF Init, Promise!CacheInit

LEMMA StepPromise ==
  ASSUME KnownInv, StableRedirects, NEW t \in Threads, Step(t)
  PROVE  [Promise!CacheNext]_Promise!cacheVars
<1> DEFINE answer == [u \in Threads |-> AnswerOf(u)]
           answerNext == [u \in Threads |-> AnswerOf(u)']
<1>1. /\ TypeOK /\ CallKnown(t)
      /\ call[t] \in Calls /\ call[t].url \in Urls /\ call[t].got \in Results
  BY CallFields DEF KnownInv, Inv, IInv, CallsKnown
<1>2. \A u \in Threads \ {t} : AnswerOf(u)' = AnswerOf(u)
  <2>1. \A u \in Threads \ {t} : call'[u] = call[u]
    BY <1>1, OthersKeep
  <2> QED BY <2>1, AnswerOfFields, AnswerOfFieldsNext DEF AnswerOf, At
<1>3. ASSUME AnswerOf(t)' = AnswerOf(t) PROVE answerNext = answer
  BY <1>2, <1>3
<1>4. ASSUME call[t].pc \notin {"done", "failed"}, call'[t].pc \notin {"done", "failed"}
      PROVE  answerNext = answer
  BY <1>3, <1>4, AnswerOfFields, AnswerOfFieldsNext
<1>5. ASSUME call[t].pc \notin {"done", "failed"}, call'[t].pc = "done", obtained' = obtained,
             call'[t].url = call[t].url, call'[t].got = call[t].got,
             call[t].got \in obtained[call[t].url]
      PROVE  Promise!Answer(t, call[t].url)
  <2>1. AnswerOf(t) = Idle /\ AnswerOf(t)' = [url |-> call[t].url, result |-> call[t].got]
    BY <1>5, AnswerOfFields, AnswerOfFieldsNext
  <2>2. answerNext = [answer EXCEPT ![t] = [url |-> call[t].url, result |-> call[t].got]]
    BY <1>2, <2>1
  <2> QED BY <1>5, <2>1, <2>2 DEF Promise!Answer
<1>6. ASSUME NEW u \in Seedable, Seed(t, u) PROVE \E v \in Urls, r \in Results : Promise!Obtain(v, r)
  <2> DEFINE r == [body |-> [src |-> u, ver |-> MaxVersion + 1], final |-> u]
  <2>1. /\ call[t].pc = "idle" /\ call'[t].pc = "create"
        /\ obtained' = [obtained EXCEPT ![u] = @ \cup {r}]
    BY <1>1, <1>6, StartStoreFields DEF Seed, At
  <2>2. u \in Urls /\ r.final = u
    BY CacheAssumption
  <2>3. r \in Results
    BY <2>2, CacheAssumption DEF Results, Bodies
  <2> HIDE DEF r
  <2>4. obtained' = [v \in Urls |-> IF v \in {u, r.final} THEN obtained[v] \cup {r} ELSE obtained[v]]
    BY <1>1, <2>1, <2>2 DEF TypeOK
  <2>5. answerNext = answer
    BY <1>4, <2>1
  <2>6. Promise!Obtain(u, r)
    BY <2>4, <2>5 DEF Promise!Obtain
  <2> QED BY <2>2, <2>3, <2>6
<1>7. CASE InnerFetch(t)
  <2> DEFINE u     == call[t].url
             final == Target[u][version]
             r     == [body |-> [src |-> final, ver |-> version], final |-> final]
  <2>1. call[t].pc = "inner" /\ call'[t].pc = "create"
    BY <1>1, <1>7, StartStoreFields DEF InnerFetch, At
  <2>2. obtained' = [v \in Urls |-> IF v \in {u, final} THEN obtained[v] \cup {r} ELSE obtained[v]]
    BY <1>7 DEF InnerFetch
  <2>3. u \in Urls /\ final \in Urls /\ r.final = final
    BY <1>1, CacheAssumption DEF TypeOK
  <2>4. r \in Results
    BY <1>1, <2>3, CacheAssumption DEF Results, Bodies, TypeOK, Versions
  <2>5. answerNext = answer
    BY <1>4, <2>1
  <2> HIDE DEF r, final
  <2>6. Promise!Obtain(u, r)
    BY <2>2, <2>3, <2>5 DEF Promise!Obtain
  <2> QED BY <2>3, <2>4, <2>6 DEF Promise!CacheNext, Promise!Results, Results
<1>8. CASE Register(t)
  <2>1. Promise!Answer(t, call[t].url)
    BY <1>1, <1>5, <1>8, SucceedFields DEF Register, At, CallKnown
  <2> QED BY <1>1, <2>1 DEF Promise!CacheNext
<1>9. CASE InsertIndex(t)
  <2> DEFINE r == call[t].got
  <2>1. call[t].pc = "insert" /\ r \in obtained[call[t].url] /\ obtained' = obtained
    BY <1>1, <1>9 DEF InsertIndex, At, CallKnown
  <2>2. CASE r.final # call[t].storing
    <3>1. call'[t].pc = "create"
      BY <1>1, <1>9, <2>2, StartStoreFields DEF InsertIndex
    <3> QED BY <1>4, <2>1, <3>1 DEF Promise!cacheVars
  <2>3. CASE r.final = call[t].storing
    <3>1. Promise!Answer(t, call[t].url)
      BY <1>1, <1>5, <1>9, <2>1, <2>3, SucceedFields DEF InsertIndex
    <3> QED BY <1>1, <3>1 DEF Promise!CacheNext
  <2> QED BY <2>2, <2>3
<1>10. CASE CallFails(t)
  <2>1. call[t].pc \notin {"done", "failed"} /\ call'[t].pc \in {"idle", "failed"} /\ obtained' = obtained
    BY <1>1, <1>10, GiveUpFields DEF CallFails, StorePcs
  <2>2. CASE call'[t].pc = "idle"
    BY <1>4, <2>1, <2>2 DEF Promise!cacheVars
  <2>3. CASE call'[t].pc = "failed"
    <3>1. AnswerOf(t) = Idle /\ AnswerOf(t)' = Failed
      BY <2>1, <2>3, AnswerOfFields, AnswerOfFieldsNext
    <3>2. answerNext = [answer EXCEPT ![t] = Failed]
      BY <1>2, <3>1
    <3>3. Promise!Fail(t)
      BY <2>1, <3>1, <3>2 DEF Promise!Fail
    <3> QED BY <3>3 DEF Promise!CacheNext
  <2> QED BY <2>1, <2>2, <2>3
<1>11. CASE Return(t)
  <2>1. call'[t].pc = "idle" /\ obtained' = obtained
    BY <1>1, <1>11, EndCallFields DEF Return
  <2>2. AnswerOf(t)' = Idle
    BY <2>1, AnswerOfFieldsNext
  <2>3. answerNext = [u \in Threads |-> IF u \in {t} THEN Idle ELSE answer[u]]
    BY <1>2, <2>2
  <2>4. Promise!Take({t})
    BY <2>1, <2>3 DEF Promise!Take
  <2> QED BY <2>4 DEF Promise!CacheNext
<1>12. ASSUME obtained' = obtained, call[t].pc \notin {"done", "failed"}, call'[t].pc \notin {"done", "failed"}
       PROVE  UNCHANGED Promise!cacheVars
  BY <1>4, <1>12 DEF Promise!cacheVars
<1>13. CASE LookUp(t) \/ ReadContent(t) \/ LoadExists(t) \/ CreateTemp(t) \/ FillTemp(t) \/ LoadRecord(t)
  <2>1. obtained' = obtained /\ call[t].pc \in {"index", "read", "exists", "create", "fill", "record"}
    BY <1>13 DEF LookUp, ReadContent, LoadExists, CreateTemp, FillTemp, LoadRecord, At
  <2>2. call'[t].pc \in {"record", "read", "register", "inner", "fill", "rename", "exists"}
    <3>1. LoadExists(t) \/ CreateTemp(t) \/ FillTemp(t)
            => call'[t].pc \in {"record", "read", "register", "inner", "fill", "rename", "exists"}
      BY <1>1, GotoFields DEF LoadExists, CreateTemp, FillTemp
    <3>3. CASE LookUp(t)
      <4>1. call'[t] = [call[t] EXCEPT !.pc = IF index[Owner[t]][call[t].url] = None THEN "record" ELSE "read",
                                       !.entry = index[Owner[t]][call[t].url]]
        BY <1>1, <3>3 DEF LookUp, TypeOK
      <4> QED BY <1>1, <4>1 DEF Calls
    <3>4. CASE ReadContent(t)
      <4>1. call'[t] = [call[t] EXCEPT !.pc = "register",
                          !.got = [body |-> contentFile[call[t].entry.hash], final |-> call[t].entry.final]]
        BY <1>1, <3>4 DEF ReadContent, TypeOK
      <4> QED BY <1>1, <4>1 DEF Calls
    <3>5. CASE LoadRecord(t)
      <4> DEFINE e == [hash |-> HashOf[call[t].url], final |-> recordFile[HashOf[call[t].url]].final]
      <4>1. call'[t] = [call[t] EXCEPT !.pc = "exists", !.entry = e] \/ Goto(t, "inner")
        BY <1>1, <3>5 DEF LoadRecord, TypeOK
      <4> QED BY <1>1, <4>1, GotoFields DEF Calls
    <3> QED BY <1>13, <3>1, <3>3, <3>4, <3>5
  <2> QED BY <1>12, <2>1, <2>2
<1>14. CASE StoreFile(t)
  <2>1. At(t, "rename") /\ StoreNext(t) /\ obtained' = obtained
    BY <1>14 DEF StoreFile, RenameTemp
  <2>2. call[t].pc \notin {"done", "failed"} /\ call'[t].pc \notin {"done", "failed"}
    BY <1>1, <2>1, StoreNextFields DEF At
  <2> QED BY <1>12, <2>1, <2>2
<1>15. CASE DropFuture(t)
  <2>1. call[t].pc \notin {"done", "failed"} /\ call'[t].pc \notin {"done", "failed"} /\ obtained' = obtained
    BY <1>1, <1>15, DropFutureFields DEF DropFuture, StorePcs
  <2> QED BY <1>12, <2>1
<1>16. ASSUME NEW u \in Asks[t], Call(t, u) PROVE UNCHANGED Promise!cacheVars
  <2>1. call'[t] = [call[t] EXCEPT !.pc = "index", !.url = u, !.cached = Cached(Owner[t], u)]
    BY <1>1, <1>16 DEF Call, TypeOK
  <2>2. call'[t].pc = "index"
    BY <1>1, <2>1 DEF Calls
  <2>3. call[t].pc = "idle" /\ obtained' = obtained
    BY <1>16 DEF Call, At
  <2> QED BY <1>12, <2>2, <2>3
<1>17. (\E u \in Seedable : Seed(t, u)) => Promise!CacheNext
  BY <1>6 DEF Promise!CacheNext, Promise!Results, Results
<1> QED BY <1>7, <1>8, <1>9, <1>10, <1>11, <1>13, <1>14, <1>15, <1>16, <1>17 DEF Step

LEMMA NextPromise ==
  ASSUME KnownInv, StableRedirects, [Next]_vars
  PROVE  [Promise!CacheNext]_Promise!cacheVars
<1>1. CASE \E f \in Fetchers : Crash(f)
  <2>1. PICK f \in Fetchers : Crash(f)
    BY <1>1
  <2> DEFINE C == {t \in Threads : Owner[t] = f}
  <2>2. \A t \in Threads : call'[t] = IF t \in C THEN NoCall ELSE call[t]
    BY <2>1 DEF Crash
  <2>3. \A t \in Threads : AnswerOf(t)' = IF t \in C THEN Idle ELSE AnswerOf(t)
    BY <2>2, NoCallType, AnswerOfFields, AnswerOfFieldsNext DEF AnswerOf, At
  <2>4. C \in SUBSET Threads /\ obtained' = obtained
    BY <2>1 DEF Crash
  <2>5. Promise!Take(C)
    BY <2>3, <2>4 DEF Promise!Take
  <2> QED BY <2>4, <2>5 DEF Promise!CacheNext
<1>2. CASE ServerChanges \/ UNCHANGED vars
  BY <1>2 DEF ServerChanges, vars, AnswerOf, At, Promise!cacheVars
<1> QED BY <1>1, <1>2, StepPromise DEF Next

(* What a call returns was fetched for its URL, the content and the final  *)
(* URL by one fetch: every behaviour of the cache is one of FetchCache, if *)
(* no two URLs share a hash and every URL is always redirected to the same *)
(* place.                                                                  *)
THEOREM CacheKeepsPromise == HashesApart /\ StableRedirects /\ Spec => KeepsPromise
<1>1. Init => KnownInv
  <2> SUFFICES ASSUME Init PROVE KnownInv
    OBVIOUS
  <2>1. \A t \in Threads : call[t] = NoCall /\ call[t].pc = "idle"
    BY NoCallType DEF Init
  <2>2. CallsKnown
    BY <2>1 DEF CallsKnown, CallKnown, EntryPcs, StorePcs
  <2>3. ContentKnown
    BY CacheAssumption DEF Init, ContentKnown
  <2> QED BY <2>2, <2>3, InitInv
          DEF Init, KnownInv, RecordsAtHome, FinalsKnown, RecordsKnown, IndexKnown
<1>2. HashesApart /\ StableRedirects => HashesApart' /\ StableRedirects'
  BY DEF StableRedirects, HashesApart, FinalOf
<1>3. HashesApart /\ StableRedirects /\ KnownInv /\ [Next]_vars => [Promise!CacheNext]_Promise!cacheVars
  BY NextPromise
<1> QED BY <1>1, <1>2, <1>3, InitPromise, NextKnownInv, PTL DEF Spec, KeepsPromise, Promise!CacheSpec

==============================================================================
