----------------------------- MODULE SchemaLoaders -----------------------------
(***************************************************************************)
(* The two ways to the schemas of a document, over the same hints and the  *)
(* same network.                                                           *)
(*                                                                         *)
(* The loader is validation's (load_hinted_schema in                       *)
(* src/schema/validator/api.rs), with one resolver for all hints           *)
(* (src/schema/xsd/resolver): each entry's imports, includes and redefines *)
(* are fetched breadth first.  The asynchronous versions do the same, step *)
(* for step.                                                               *)
(*                                                                         *)
(* The collector is export's: it collects the schemas a document's hints   *)
(* name into a closed set, to compile or to write out with their           *)
(* references rewritten (SchemaSet in src/schema/export.rs;                *)
(* resolve_schema_from_xml, export_schemas_from_xml).  Unlike the resolver *)
(* of validation it keeps a document under its final URL, parses a         *)
(* document only when its references are followed, and has a resolve_uri   *)
(* of its own.                                                             *)
(***************************************************************************)
EXTENDS SchemaWorld

VARIABLES
  hintAt,       \* the hint to fetch next
  schemas,      \* the resolver's IndexMap: the URIs it has, in order
  queue,        \* URIs whose references are still to be followed
  current,      \* the URI whose references are being followed
  pending,      \* those of its locations not followed yet
  errors,       \* the hints there is an error for; 0: the hints themselves
  unreachable,  \* the hints whose fetch failed
  outcome       \* "loading", "loaded", "compiled" or "refused"

loader == <<hintAt, schemas, queue, current, pending, errors, unreachable, outcome>>

(* self.schemas.contains_key(u)                                            *)
Known(u) == \E i \in DOMAIN schemas : schemas[i] = u

(* resolve_entry has returned, or was not called yet.                      *)
BetweenHints == queue = <<>> /\ pending = <<>>

LoaderInit ==
  /\ hintAt = 1
  /\ schemas = <<>> /\ queue = <<>> /\ current = NoUri /\ pending = <<>>
  /\ errors = IF hints = <<>> \/ problem THEN {0} ELSE {}
  /\ unreachable = {}
  /\ outcome = "loading"

-------------------------------------------------------------------------------
(* fetcher.fetch(&hint.location), and the beginning of resolve_entry for   *)
(* what it returned, under the final URL.                                  *)

AtHint ==
  /\ outcome = "loading" /\ BetweenHints /\ hintAt <= Len(hints)
  /\ hintAt' = hintAt + 1
  /\ UNCHANGED <<current, pending, outcome>>

Hint == hints[hintAt].location

HintUnreachable ==
  /\ AtHint
  /\ Hint \notin up
  /\ unreachable' = unreachable \cup {hintAt}
  /\ UNCHANGED <<schemas, queue, errors>>

(* "Skip if already resolved"                                              *)
HintKnown ==
  /\ AtHint
  /\ Hint \in up /\ Known(Target[Hint])
  /\ UNCHANGED <<schemas, queue, errors, unreachable>>

HintDoesNotParse ==
  /\ AtHint
  /\ Hint \in up /\ ~Known(Target[Hint]) /\ Target[Hint] \in broken
  /\ errors' = errors \cup {hintAt}
  /\ UNCHANGED <<schemas, queue, unreachable>>

HintIsEntry ==
  /\ AtHint
  /\ Hint \in up /\ ~Known(Target[Hint]) /\ Target[Hint] \notin broken
  /\ schemas' = Append(schemas, Target[Hint])
  /\ queue' = <<Target[Hint]>>
  /\ UNCHANGED <<errors, unreachable>>

-------------------------------------------------------------------------------
(* The breadth-first search of resolve_entry and resolve_all.              *)

(* front instead of pop_front.                                             *)
NextSchemaStays ==
  /\ outcome = "loading" /\ pending = <<>> /\ queue # <<>>
  /\ current' = Head(queue)
  /\ pending' = References[Target[Head(queue)]]
  /\ UNCHANGED <<hintAt, schemas, queue, errors, unreachable, outcome>>

(* pop_front, and the references of what was popped.                       *)
NextSchema ==
  /\ outcome = "loading" /\ pending = <<>> /\ queue # <<>>
  /\ current' = Head(queue)
  /\ queue' = Tail(queue)
  /\ pending' = References[Target[Head(queue)]]
  /\ UNCHANGED <<hintAt, schemas, errors, unreachable, outcome>>

(* The location to follow, resolved against the URI its document was       *)
(* fetched by.                                                             *)
Followed == Resolve[current][Head(pending)]

AtReference ==
  /\ outcome = "loading" /\ pending # <<>>
  /\ UNCHANGED <<hintAt, current, unreachable, outcome>>

FollowKnown ==
  /\ AtReference
  /\ Followed # NoUri /\ Known(Followed)
  /\ pending' = Tail(pending)
  /\ UNCHANGED <<schemas, queue, errors>>

FollowNew ==
  /\ AtReference
  /\ Followed # NoUri /\ ~Known(Followed)
  /\ Followed \in up /\ Target[Followed] \notin broken
  /\ schemas' = Append(schemas, Followed)
  /\ queue' = Append(queue, Followed)
  /\ pending' = Tail(pending)
  /\ UNCHANGED errors

(* The error of a dependency is dropped.                                   *)
FollowFailsSilently ==
  /\ AtReference
  /\ \/ Followed = NoUri
     \/ ~Known(Followed) /\ ~ (Followed \in up /\ Target[Followed] \notin broken)
  /\ queue' = <<>> /\ pending' = <<>>
  /\ UNCHANGED <<schemas, errors>>

(* Any failure ends resolve_entry; what it has inserted so far stays.      *)
FollowFails ==
  /\ AtReference
  /\ \/ Followed = NoUri
     \/ ~Known(Followed) /\ ~ (Followed \in up /\ Target[Followed] \notin broken)
  /\ errors' = errors \cup {hintAt - 1}
  /\ queue' = <<>> /\ pending' = <<>>
  /\ UNCHANGED schemas

-------------------------------------------------------------------------------
(* settle_unreachable_hints: a loaded schema has the hint's namespace.     *)
Provided(i) ==
  /\ hints[i].namespace # NoNamespace
  /\ \E j \in DOMAIN schemas : NamespaceOf[Target[schemas[j]]] = hints[i].namespace

(* Only the hints are judged: an entry that failed half-way is forgotten.  *)
SettleForgetful ==
  /\ outcome = "loading" /\ BetweenHints /\ hintAt > Len(hints)
  /\ outcome' = IF 0 \notin errors /\ \A i \in unreachable : Provided(i)
                THEN "loaded" ELSE "refused"
  /\ UNCHANGED <<hintAt, schemas, queue, current, pending, errors, unreachable>>

Settle ==
  /\ outcome = "loading" /\ BetweenHints /\ hintAt > Len(hints)
  /\ outcome' = IF errors = {} /\ \A i \in unreachable : Provided(i)
                THEN "loaded" ELSE "refused"
  /\ UNCHANGED <<hintAt, schemas, queue, current, pending, errors, unreachable>>

(* compile: the schemas, taken together, may be in error.                  *)
Compile ==
  /\ outcome = "loaded"
  /\ outcome' \in {"compiled", "refused"}
  /\ UNCHANGED <<hintAt, schemas, queue, current, pending, errors, unreachable>>

LoaderStep ==
  \/ HintUnreachable \/ HintKnown \/ HintDoesNotParse \/ HintIsEntry
  \/ NextSchema \/ FollowKnown \/ FollowNew \/ FollowFails
  \/ Settle \/ Compile

-------------------------------------------------------------------------------
(* Export collects into a set.                                             *)

VARIABLES
  nextHint,   \* the hint to fetch next
  docs,       \* the documents, in the order of discovery
  byUri,      \* byUri[u]: the index in docs of what u resolved to; 0: none
  toParse,    \* indices of documents still to be parsed
  parsing,    \* the index of the document whose references are followed
  toFollow,   \* its locations that are left
  parsed,     \* the indices of the documents parsed
  lost,       \* the hints that could not be fetched
  collection  \* "collecting", "collected", "refused" or "builtin"

collector == <<nextHint, docs, byUri, toParse, parsing, toFollow, parsed, lost, collection>>

CollectorInit ==
  /\ nextHint = 1
  /\ docs = <<>> /\ byUri = [u \in Uris |-> 0]
  /\ toParse = <<>> /\ parsing = 0 /\ toFollow = <<>>
  /\ parsed = {} /\ lost = {}
  /\ collection = IF problem THEN "refused"
                  ELSE IF hints = <<>> THEN "builtin" ELSE "collecting"

(* The final URL is not looked up.                                         *)
FetchAlways(u) ==
  /\ docs' = Append(docs, Target[u])
  /\ byUri' = [byUri EXCEPT ![Target[u]] = Len(docs) + 1, ![u] = Len(docs) + 1]
  /\ toParse' = Append(toParse, Len(docs) + 1)

(* fetch_new for a URI that was fetched: one that leads to a document the  *)
(* set has is another name for it.                                         *)
FetchNew(u) ==
  LET known == byUri[Target[u]]
      idx   == IF known # 0 THEN known ELSE Len(docs) + 1
  IN  /\ docs' = IF known # 0 THEN docs ELSE Append(docs, Target[u])
      /\ byUri' = [byUri EXCEPT ![Target[u]] = idx, ![u] = idx]
      /\ toParse' = IF known # 0 THEN toParse ELSE Append(toParse, idx)

-------------------------------------------------------------------------------
(* The hints first.                                                        *)

AtNextHint ==
  /\ collection = "collecting" /\ nextHint <= Len(hints)
  /\ nextHint' = nextHint + 1
  /\ UNCHANGED <<parsing, toFollow, parsed, collection>>

Named == hints[nextHint].location

CollectKnownHint ==
  /\ AtNextHint
  /\ byUri[Named] # 0
  /\ UNCHANGED <<docs, byUri, toParse, lost>>

CollectHint ==
  /\ AtNextHint
  /\ byUri[Named] = 0 /\ Named \in up
  /\ FetchNew(Named)
  /\ UNCHANGED lost

LoseHint ==
  /\ AtNextHint
  /\ byUri[Named] = 0 /\ Named \notin up
  /\ lost' = lost \cup {nextHint}
  /\ UNCHANGED <<docs, byUri, toParse>>

-------------------------------------------------------------------------------
(* Then the documents, breadth first.                                      *)

Collecting == collection = "collecting" /\ nextHint > Len(hints)

ParseNext ==
  /\ Collecting /\ toFollow = <<>> /\ toParse # <<>>
  /\ docs[Head(toParse)] \notin broken
  /\ parsing' = Head(toParse)
  /\ toParse' = Tail(toParse)
  /\ toFollow' = References[docs[Head(toParse)]]
  /\ parsed' = parsed \cup {Head(toParse)}
  /\ UNCHANGED <<nextHint, docs, byUri, lost, collection>>

(* A location resolves against the final URL of its document, by export's  *)
(* own resolve_uri.                                                        *)
Reference == ExportResolve[docs[parsing]][Head(toFollow)]

CollectKnown ==
  /\ Collecting /\ toFollow # <<>>
  /\ byUri[Reference] # 0
  /\ toFollow' = Tail(toFollow)
  /\ UNCHANGED <<nextHint, docs, byUri, toParse, parsing, parsed, lost, collection>>

CollectReference ==
  /\ Collecting /\ toFollow # <<>>
  /\ byUri[Reference] = 0 /\ Reference \in up
  /\ FetchNew(Reference)
  /\ toFollow' = Tail(toFollow)
  /\ UNCHANGED <<nextHint, parsing, parsed, lost, collection>>

CollectFails ==
  /\ Collecting
  /\ \/ toFollow = <<>> /\ toParse # <<>> /\ docs[Head(toParse)] \in broken
     \/ toFollow # <<>> /\ byUri[Reference] = 0 /\ Reference \notin up
  /\ collection' = "refused"
  /\ UNCHANGED <<nextHint, docs, byUri, toParse, parsing, toFollow, parsed, lost>>

(* A lost hint is forgiven once anything was collected.                    *)
SettleLostLenient ==
  /\ Collecting /\ toFollow = <<>> /\ toParse = <<>>
  /\ collection' = IF docs # <<>> THEN "collected" ELSE "refused"
  /\ UNCHANGED <<nextHint, docs, byUri, toParse, parsing, toFollow, parsed, lost>>

(* Lost hints need a collected document of their namespace.                *)
SettleLost ==
  /\ Collecting /\ toFollow = <<>> /\ toParse = <<>>
  /\ collection' =
       IF \A i \in lost :
            /\ hints[i].namespace # NoNamespace
            /\ \E j \in DOMAIN docs : NamespaceOf[docs[j]] = hints[i].namespace
       THEN "collected" ELSE "refused"
  /\ UNCHANGED <<nextHint, docs, byUri, toParse, parsing, toFollow, parsed, lost>>

CollectorStep ==
  \/ CollectKnownHint \/ CollectHint \/ LoseHint
  \/ ParseNext \/ CollectKnown \/ CollectReference \/ CollectFails \/ SettleLost

-------------------------------------------------------------------------------
(* Properties.                                                             *)

(* "The verdict is never valid for a schema that was not loaded": a load   *)
(* that ends well has every hinted document (or one of its namespace) and  *)
(* everything they import, include or redefine; and nothing was fetched    *)
(* that no document asked for.                                             *)
Closure == INSTANCE SchemaClosure WITH
             KeyOf <- [u \in Uris |-> u],
             loaded <- {schemas[i] : i \in DOMAIN schemas},
             accepted <- outcome = "compiled"

LoadsTheClosure == Closure!ClosureSpec

(* The set is closed, as SchemaClosure has it, documents being kept under  *)
(* their final URLs and their locations resolved as export does.           *)
SetClosure == INSTANCE SchemaClosure WITH
                Resolve <- ExportResolve,
                KeyOf <- Target,
                loaded <- {docs[i] : i \in DOMAIN docs},
                accepted <- collection = "collected"

CollectsTheClosure == SetClosure!ClosureSpec

(* An exported set never points outside itself: each location of each      *)
(* document is rewritten to the file of the document it leads to, and "a   *)
(* document reached under more than one URI" has one file.                 *)
ExportIsSelfContained ==
  collection = "collected" =>
    /\ \A i, j \in DOMAIN docs : docs[i] = docs[j] => i = j
    /\ \A i \in DOMAIN docs : \A u \in ExportWanted(docs[i]) :
         byUri[u] # 0 /\ docs[byUri[u]] = Target[u]

-------------------------------------------------------------------------------
(* Both at once.                                                           *)

vars == <<world, loader, collector>>

Init == WorldInit /\ LoaderInit /\ CollectorInit

Load == LoaderStep /\ UNCHANGED <<world, collector>>

Collect == CollectorStep /\ UNCHANGED <<world, loader>>

Change == NetworkChanges /\ UNCHANGED <<loader, collector>>

(* Both loops run on: a fetch returns, with a document or an error.        *)
Spec == Init /\ [][Load \/ Collect \/ Change]_vars /\ WF_vars(Load) /\ WF_vars(Collect)

(* A redirect leads to a document that can be fetched too.                 *)
RedirectsLead == \A u \in up : Target[u] \in up

(* Each location of the document loaded as u, by the one resolve_uri and   *)
(* against the URI asked for, and by the other against the final URL, gets *)
(* the same document from the servers, or none.                            *)
SameReferences(u) ==
  \A i \in DOMAIN References[Target[u]] :
    LET l == References[Target[u]][i]
    IN  Served(Resolve[u][l]) = Served(ExportResolve[Target[u]][l])

(* Where the two ways to an address come to the same document - the only   *)
(* thing asked of them, for the documents that were loaded - validation    *)
(* and export agree, while no server changes and redirects lead somewhere: *)
(* one loads when the other does, and they load the same documents, though *)
(* one keeps them by the URIs asked for and stops at the first failure     *)
(* under a hint, and the other keeps them by their final URLs, fetches all *)
(* hints first and parses late.  Only a document without hints is told     *)
(* apart: it has a schema to resolve (the built-in one), but none to be    *)
(* validated against.                                                      *)
LoadersAgree ==
  /\ changes = 0 /\ RedirectsLead
  /\ outcome # "loading" /\ collection # "collecting"
  /\ hints # <<>>
  /\ \A i \in DOMAIN schemas : SameReferences(schemas[i])
  => /\ outcome \in {"loaded", "compiled"} => collection = "collected"
     /\ collection = "collected" =>
          errors = {} /\ {Target[schemas[i]] : i \in DOMAIN schemas} = {docs[i] : i \in DOMAIN docs}
     /\ collection = "refused" => outcome = "refused"

(* Loading ends, and collecting ends, however schemas refer to one another *)
(* and whatever fails.                                                     *)
BothEnd == <>(outcome \in {"compiled", "refused"} /\ collection # "collecting")

==============================================================================
