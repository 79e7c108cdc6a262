----------------------------- MODULE SchemaClosure -----------------------------
(***************************************************************************)
(* What loading the schemas of a document promises, whoever does it: only  *)
(* documents that a hint names or a loaded document refers to are loaded,  *)
(* and the load is accepted only when nothing it refers to is missing.     *)
(***************************************************************************)
EXTENDS SchemaWorld

CONSTANT KeyOf   \* KeyOf[u]: the name under which a document referred to as u is kept

VARIABLES
  loaded,   \* the documents loaded, by the names they are kept under
  accepted

(* The document kept as k, and the keys of what it refers to.              *)
Needs(k) == {IF u = NoUri THEN NoUri ELSE KeyOf[u] : u \in Wanted(k, Target[k])}

(* A hint is met by its document, or by any document of its namespace.     *)
Met(h) ==
  \/ Target[h.location] \in loaded
  \/ h.namespace # NoNamespace /\ \E k \in loaded : NamespaceOf[Target[k]] = h.namespace

Complete ==
  /\ ~problem
  /\ \A i \in DOMAIN hints : Met(hints[i])
  /\ \A k \in loaded : Needs(k) \subseteq loaded
  /\ \A k \in loaded : Target[k] \notin broken

HintedKeys == {Target[hints[i].location] : i \in DOMAIN hints}

(* Load one document that is asked for.                                    *)
Load ==
  /\ ~accepted /\ UNCHANGED accepted
  /\ \E k \in HintedKeys \cup UNION {Needs(j) : j \in loaded} :
       k \in Uris /\ loaded' = loaded \cup {k}

Accept ==
  /\ ~accepted /\ Complete
  /\ accepted' = TRUE
  /\ UNCHANGED loaded

ClosureInit == loaded = {} /\ accepted = FALSE

ClosureSpec == ClosureInit /\ [][Load \/ Accept]_<<loaded, accepted>>

==============================================================================
