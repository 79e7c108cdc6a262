------------------------------- MODULE FileCache -------------------------------
(***************************************************************************)
(* The file-based caching fetchers (src/schema/fetcher/file_cache.rs):     *)
(* FileCachingFetcher called from several threads and                      *)
(* AsyncFileCachingFetcher called from several tasks, in one process or in *)
(* several that share a persistent cache directory.                        *)
(*                                                                         *)
(* A document is kept as two files named after a hash of its URL: the      *)
(* content, and a record naming the URL and the final URL.  Each file is   *)
(* written to a temporary file that is then renamed into place, content    *)
(* first.  Every process also keeps an in-memory index (a DashMap) of the  *)
(* entries it has seen.  No lock is held over a call.                      *)
(***************************************************************************)
EXTENDS Naturals, FiniteSets

CONSTANTS
  Threads,      \* threads, or tasks of an async runtime
  Fetchers,     \* fetcher values, each in a process of its own
  Owner,        \* Owner[t]: the fetcher t calls
  Urls,
  Hashes,
  HashOf,       \* HashOf[u]: xxh64 of u, the stem of both file names
  Target,       \* Target[u][v]: where server version v redirects u (u: nowhere)
  MaxVersion,   \* bound: how often the server's documents change
  Seedable,     \* the URLs callers pre-seed
  Asks,         \* bound: Asks[t], the URLs t asks for
  MaxCalls,     \* bound: calls in progress at one time
  MaxCrashes,   \* bound: process crashes
  NoFile,       \* a file that is not there
  Partial,      \* a file still being written
  None,         \* no entry
  Idle,         \* no call in progress
  Failed        \* a call that ended in an error

Versions == 0 .. MaxVersion

(* A document as the server had it in some version; a seeded document is   *)
(* told apart by the version after the last.                               *)
Bodies == [src : Urls, ver : 0 .. MaxVersion + 1]

Records == [url : Urls, final : Urls]

Entries == [hash : Hashes, final : Urls]

Results == [body : Bodies, final : Urls]

ASSUME CacheAssumption ==
  /\ Threads # {} /\ Urls # {}
  /\ Owner \in [Threads -> Fetchers]
  /\ MaxVersion \in Nat /\ MaxCrashes \in Nat
  /\ HashOf \in [Urls -> Hashes]
  /\ Target \in [Urls -> [Versions -> Urls]]
  /\ Seedable \subseteq Urls
  /\ Asks \in [Threads -> SUBSET Urls]
  /\ NoFile # Partial
  /\ {NoFile, Partial} \cap Bodies = {} /\ {NoFile, Partial} \cap Records = {}
  /\ {None} \cap Entries = {}

VARIABLES
  contentFile,  \* contentFile[h]: the file <h>.xsd
  recordFile,   \* recordFile[h]: the file <h>.url
  temp,         \* temporary files, by name
  index,        \* index[f]: the DashMap of fetcher f
  call,         \* call[t]: the locals of t's call
  version,      \* the server's version
  crashes,
  obtained      \* history: obtained[u], the results fetched for u or seeded

disk  == <<contentFile, recordFile, temp>>
world == <<version, crashes>>
vars  == <<contentFile, recordFile, temp, index, call, version, crashes, obtained>>

-------------------------------------------------------------------------------
(* The locals of a call.                                                   *)

Parts == {"content", "record"}

(* The record's file is written first.                                     *)
RecordFirst == "record"

FirstPart == "content"

StorePcs == {"create", "fill", "rename"}

Pcs == {"idle", "index", "record", "exists", "read", "register", "inner",
        "insert", "done", "failed"} \cup StorePcs

Calls ==
  [pc : Pcs,
   url : Urls,                \* what was asked for, or is seeded
   entry : {None} \cup Entries, \* what the index or the directory had
   got : Results,             \* what the call will return
   storing : Urls,            \* the URL `got` is being stored under
   part : Parts,              \* which of its two files is being written
   dropped : BOOLEAN,         \* the future is gone, a blocking store runs on
   cached : BOOLEAN]          \* history: the entry was complete when the call began

AnyUrl == CHOOSE u \in Urls : TRUE

NoCall ==
  [pc |-> "idle", url |-> AnyUrl, entry |-> None,
   got |-> [body |-> [src |-> AnyUrl, ver |-> 0], final |-> AnyUrl],
   storing |-> AnyUrl, part |-> FirstPart, dropped |-> FALSE, cached |-> FALSE]

EndCall(t) == call' = [call EXCEPT ![t] = NoCall]

At(t, pc) == call[t].pc = pc

MayBegin == Cardinality({t \in Threads : ~At(t, "idle")}) < MaxCalls

Goto(t, pc) == call' = [call EXCEPT ![t].pc = pc]

(* The call returns Ok, or an error; its other locals are gone.            *)
Succeed(t) ==
  call' = [call EXCEPT ![t] = [NoCall EXCEPT !.pc = "done", !.url = call[t].url, !.got = call[t].got]]

GiveUp(t) ==
  call' = [call EXCEPT ![t] = IF call[t].dropped THEN NoCall ELSE [NoCall EXCEPT !.pc = "failed"]]

(* store(u, r.final, r.body), for a call for url, begins with FirstPart.   *)
StartStore(t, url, u, r) ==
  call' = [call EXCEPT ![t] = [NoCall EXCEPT !.pc = "create", !.url = url, !.got = r, !.storing = u,
                                             !.dropped = call[t].dropped]]

(* temp_path: unique to the process and the call, so to the thread here.   *)
TempName(t, k, h) == <<t, k, h>>

TempNames == Threads \X Parts \X Hashes

StoreTemp(t) == TempName(t, call[t].part, HashOf[call[t].storing])

(* A temporary file left behind by a call that ended is never looked at    *)
(* again, for its name is not used twice.                                  *)
ForgetTemps(T) ==
  temp' = [n \in TempNames |-> IF n[1] \in T THEN NoFile ELSE temp[n]]

(* The record forgets a redirect.                                          *)
RecordWithoutRedirect(t) ==
  IF call[t].part = "content"
  THEN call[t].got.body
  ELSE [url |-> call[t].storing, final |-> call[t].storing]

(* What store writes: the content, or the record of the URL stored.        *)
FileText(t) ==
  IF call[t].part = "content"
  THEN call[t].got.body
  ELSE [url |-> call[t].storing, final |-> call[t].got.final]

(* A record can be read as a record of u.                                  *)
IsRecordOf(rec, u) == rec \notin {NoFile, Partial} /\ rec.url = u

(* The cache holds an entry for u that a new call of f would use.          *)
Cached(f, u) == index[f][u] # None \/ IsRecordOf(recordFile[HashOf[u]], u)

-------------------------------------------------------------------------------
(* Steps of a call.  Between any two of them other threads may run.        *)

Call(t, u) ==
  /\ At(t, "idle") /\ MayBegin
  /\ call' = [call EXCEPT ![t].pc = "index", ![t].url = u, ![t].cached = Cached(Owner[t], u)]
  /\ UNCHANGED <<disk, index, world, obtained>>

(* seed(url, content): store, then insert into the index.                  *)
Seed(t, u) ==
  LET r == [body |-> [src |-> u, ver |-> MaxVersion + 1], final |-> u]
  IN  /\ At(t, "idle") /\ MayBegin
      /\ StartStore(t, u, u, r)
      /\ obtained' = [obtained EXCEPT ![u] = @ \cup {r}]
      /\ UNCHANGED <<disk, index, world>>

(* The index is all the cache: a restart finds nothing.                    *)
LookUpIndexOnly(t) ==
  LET e == index[Owner[t]][call[t].url]
  IN  /\ At(t, "index")
      /\ call' = [call EXCEPT ![t].pc = IF e = None THEN "inner" ELSE "read", ![t].entry = e]
      /\ UNCHANGED <<disk, index, world, obtained>>

(* self.index.get(url)                                                     *)
LookUp(t) ==
  LET e == index[Owner[t]][call[t].url]
  IN  /\ At(t, "index")
      /\ call' = [call EXCEPT ![t].pc = IF e = None THEN "record" ELSE "read", ![t].entry = e]
      /\ UNCHANGED <<disk, index, world, obtained>>

(* load: read_to_string and parse_record, which refuses another URL's.     *)
LoadRecord(t) ==
  LET u   == call[t].url
      rec == recordFile[HashOf[u]]
  IN  /\ At(t, "record")
      /\ IF IsRecordOf(rec, u)
         THEN call' = [call EXCEPT ![t].pc = "exists",
                                   ![t].entry = [hash |-> HashOf[u], final |-> rec.final]]
         ELSE Goto(t, "inner")
      /\ UNCHANGED <<disk, index, world, obtained>>

(* load: path.is_file()                                                    *)
LoadExists(t) ==
  /\ At(t, "exists")
  /\ Goto(t, IF contentFile[call[t].entry.hash] # NoFile THEN "read" ELSE "inner")
  /\ UNCHANGED <<disk, index, world, obtained>>

(* fs::read of the entry's path                                            *)
ReadContent(t) ==
  LET e == call[t].entry
  IN  /\ At(t, "read")
      /\ contentFile[e.hash] # NoFile
      /\ call' = [call EXCEPT ![t].pc = "register",
                              ![t].got = [body |-> contentFile[e.hash], final |-> e.final]]
      /\ UNCHANGED <<disk, index, world, obtained>>

(* index.insert of the entry that was hit, and Ok(result)                  *)
Register(t) ==
  /\ At(t, "register")
  /\ index' = [index EXCEPT ![Owner[t]][call[t].url] = call[t].entry]
  /\ Succeed(t)
  /\ UNCHANGED <<disk, world, obtained>>

(* inner.fetch: the server's present document, after its redirect.         *)
InnerFetch(t) ==
  LET u     == call[t].url
      final == Target[u][version]
      r     == [body |-> [src |-> final, ver |-> version], final |-> final]
  IN  /\ At(t, "inner")
      /\ StartStore(t, u, u, r)
      /\ obtained' = [v \in Urls |-> IF v \in {u, final} THEN obtained[v] \cup {r} ELSE obtained[v]]
      /\ UNCHANGED <<disk, index, world>>

(* inner.fetch failed, or an I/O call did (the `?` operators).  What was   *)
(* renamed into place before stays.                                        *)
CallFails(t) ==
  /\ call[t].pc \in {"read", "inner"} \cup StorePcs
  /\ GiveUp(t)
  /\ ForgetTemps({t})
  /\ UNCHANGED <<contentFile, recordFile, index, world, obtained>>

-------------------------------------------------------------------------------
(* store: write_atomic of the content, then write_atomic of the record.    *)

CreateTemp(t) ==
  /\ At(t, "create")
  /\ temp' = [temp EXCEPT ![StoreTemp(t)] = Partial]
  /\ Goto(t, "fill")
  /\ UNCHANGED <<contentFile, recordFile, index, world, obtained>>

FillTemp(t) ==
  /\ At(t, "fill")
  /\ temp' = [temp EXCEPT ![StoreTemp(t)] = FileText(t)]
  /\ Goto(t, "rename")
  /\ UNCHANGED <<contentFile, recordFile, index, world, obtained>>

(* rename(temp, path): the new file is visible all at once.                *)
RenameTemp(t) ==
  /\ At(t, "rename")
  /\ temp[StoreTemp(t)] # NoFile
  /\ temp' = [temp EXCEPT ![StoreTemp(t)] = NoFile]
  /\ LET h == HashOf[call[t].storing]
     IN  IF call[t].part = "content"
         THEN /\ contentFile' = [contentFile EXCEPT ![h] = temp[StoreTemp(t)]]
              /\ UNCHANGED recordFile
         ELSE /\ recordFile' = [recordFile EXCEPT ![h] = temp[StoreTemp(t)]]
              /\ UNCHANGED contentFile

(* The record follows the content; then store returns to its caller for    *)
(* the index insert, which a dropped future no longer runs.                *)
StoreNext(t) ==
  IF call[t].part = FirstPart
  THEN call' = [call EXCEPT ![t].pc = "create", ![t].part = CHOOSE p \in Parts : p # FirstPart]
  ELSE IF call[t].dropped THEN EndCall(t) ELSE Goto(t, "insert")

StoreFile(t) ==
  /\ RenameTemp(t)
  /\ StoreNext(t)
  /\ UNCHANGED <<index, world, obtained>>

(* index.insert after a store; a redirected result is then stored once     *)
(* more, under its final URL.                                              *)
InsertIndex(t) ==
  LET u == call[t].storing
      r == call[t].got
  IN  /\ At(t, "insert")
      /\ index' = [index EXCEPT ![Owner[t]][u] = [hash |-> HashOf[u], final |-> r.final]]
      /\ IF r.final # u THEN StartStore(t, call[t].url, r.final, r) ELSE Succeed(t)
      /\ UNCHANGED <<disk, world, obtained>>

-------------------------------------------------------------------------------
(* The world around the calls.                                             *)

Return(t) ==
  /\ call[t].pc \in {"done", "failed"}
  /\ EndCall(t)
  /\ UNCHANGED <<disk, index, world, obtained>>

(* An async caller drops the future.  A store that was handed to           *)
(* spawn_blocking runs to its end all the same.                            *)
DropFuture(t) ==
  /\ call[t].pc \notin {"idle", "done", "failed"} /\ ~call[t].dropped
  /\ IF call[t].pc \in StorePcs
     THEN call' = [call EXCEPT ![t].dropped = TRUE]
     ELSE EndCall(t)
  /\ UNCHANGED <<disk, index, world, obtained>>

ServerChanges ==
  /\ version < MaxVersion
  /\ version' = version + 1
  /\ UNCHANGED <<disk, index, call, crashes, obtained>>

(* A process dies and is started again on the same directory: its calls    *)
(* and its index are gone, the files are as the last rename left them.     *)
Crash(f) ==
  /\ crashes < MaxCrashes
  /\ crashes' = crashes + 1
  /\ index' = [index EXCEPT ![f] = [u \in Urls |-> None]]
  /\ call' = [t \in Threads |-> IF Owner[t] = f THEN NoCall ELSE call[t]]
  /\ ForgetTemps({t \in Threads : Owner[t] = f})
  /\ UNCHANGED <<contentFile, recordFile, version, obtained>>

Init ==
  /\ contentFile = [h \in Hashes |-> NoFile]
  /\ recordFile = [h \in Hashes |-> NoFile]
  /\ temp = [n \in TempNames |-> NoFile]
  /\ index = [f \in Fetchers |-> [u \in Urls |-> None]]
  /\ call = [t \in Threads |-> NoCall]
  /\ version = 0
  /\ crashes = 0
  /\ obtained = [u \in Urls |-> {}]

Step(t) ==
  \/ LookUp(t) \/ LoadRecord(t) \/ LoadExists(t) \/ ReadContent(t) \/ Register(t)
  \/ InnerFetch(t) \/ CallFails(t)
  \/ CreateTemp(t) \/ FillTemp(t) \/ StoreFile(t) \/ InsertIndex(t)
  \/ Return(t) \/ DropFuture(t)
  \/ \E u \in Asks[t] : Call(t, u)
  \/ \E u \in Seedable : Seed(t, u)

Next ==
  \/ \E t \in Threads : Step(t)
  \/ ServerChanges
  \/ \E f \in Fetchers : Crash(f)

Spec == Init /\ [][Next]_vars

-------------------------------------------------------------------------------
(* Properties.                                                             *)

(* Every variable has its type.                                            *)
TypeOK ==
  /\ contentFile \in [Hashes -> {NoFile, Partial} \cup Bodies]
  /\ recordFile \in [Hashes -> {NoFile, Partial} \cup Records]
  /\ temp \in [TempNames -> {NoFile, Partial} \cup Bodies \cup Records]
  /\ index \in [Fetchers -> [Urls -> {None} \cup Entries]]
  /\ call \in [Threads -> Calls]
  /\ version \in Versions
  /\ crashes \in 0 .. MaxCrashes
  /\ obtained \in [Urls -> SUBSET Results]

(* "The record is written after the content, so its presence marks a       *)
(* complete entry": whatever crashed, failed or was dropped on the way, a  *)
(* record that can be seen has its content beside it, and both are whole.  *)
RecordMarksComplete ==
  \A h \in Hashes :
    recordFile[h] # NoFile =>
      /\ recordFile[h] # Partial
      /\ contentFile[h] \notin {NoFile, Partial}

(* A document whose entry was there when it was asked for is not requested *)
(* again, in this process or after a restart on the same directory.        *)
NoRefetch == \A t \in Threads : At(t, "inner") => ~call[t].cached

-------------------------------------------------------------------------------
(* A call's answer, as FetchCache has it.                                  *)

AnswerOf(t) ==
  CASE At(t, "done")   -> [url |-> call[t].url, result |-> call[t].got]
    [] At(t, "failed") -> Failed
    [] OTHER           -> Idle

Promise == INSTANCE FetchCache WITH
             Callers <- Threads, known <- obtained, answer <- [t \in Threads |-> AnswerOf(t)]

(* The fetcher keeps the promise of FetchCache: what a call returns was    *)
(* fetched for its URL, the content and the final URL by one fetch.        *)
KeepsPromise == Promise!CacheSpec

==============================================================================
