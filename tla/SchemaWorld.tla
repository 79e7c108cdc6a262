------------------------------ MODULE SchemaWorld ------------------------------
(***************************************************************************)
(* What the loaders of schemas work on: an instance document whose root    *)
(* names schema documents (src/schema/hints.rs), and a network of schema   *)
(* documents that import, include and redefine one another.                *)
(*                                                                         *)
(* A document is named by the URI it is served from after redirects.       *)
(***************************************************************************)
EXTENDS Naturals, Sequences, FiniteSets

CONSTANTS
  Uris,
  NoUri,        \* what does not resolve to a URI
  Target,       \* Target[u]: the URI a request for u is redirected to (u: none)
  Locations,    \* the locations written in documents
  Resolve,      \* Resolve[base][location], by resolver/common.rs: Url::join, or NoUri
  ExportResolve, \* the same by export.rs: text appended to a base, never a failure
  References,   \* References[d]: document d's locations, imports first
  Namespaces,
  NoNamespace,  \* what a noNamespaceSchemaLocation hint is for
  NamespaceOf,  \* NamespaceOf[d]: the target namespace of document d
  HintLists,    \* the lists of hints considered
  MaxBroken,    \* bound: documents that are not schemas
  MaxDown,      \* bound: URIs that cannot be fetched at first
  MaxChanges    \* bound: how often servers go down or come back

Hints == [namespace : Namespaces \cup {NoNamespace}, location : Uris]

ASSUME WorldAssumption ==
  /\ NoUri \notin Uris /\ NoNamespace \notin Namespaces
  /\ Target \in [Uris -> Uris] /\ \A u \in Uris : Target[Target[u]] = Target[u]
  /\ Resolve \in [Uris -> [Locations -> Uris \cup {NoUri}]]
  /\ ExportResolve \in [Uris -> [Locations -> Uris]]
  /\ References \in [Uris -> Seq(Locations)]
  /\ NamespaceOf \in [Uris -> Namespaces]
  /\ HintLists \subseteq Seq(Hints)
  /\ MaxBroken \in Nat /\ MaxDown \in Nat /\ MaxChanges \in Nat

VARIABLES
  hints,    \* the hints of the root element, in order
  problem,  \* a hint attribute is malformed
  broken,   \* the documents that do not parse as a schema
  up,       \* the URIs that can be fetched now
  changes

world == <<hints, problem, broken, up, changes>>

(* What the document d refers to when validation loads it as u ...         *)
Wanted(u, d) == {Resolve[u][References[d][i]] : i \in DOMAIN References[d]}

(* ... and when export does, which always has it as d.                     *)
ExportWanted(d) == {ExportResolve[d][References[d][i]] : i \in DOMAIN References[d]}

(* The document that a request for u yields.                               *)
Served(u) == IF u \in up THEN Target[u] ELSE NoUri

WorldInit ==
  /\ hints \in HintLists
  /\ problem \in BOOLEAN
  /\ broken \in {B \in SUBSET Uris : Cardinality(B) <= MaxBroken}
  /\ up \in {U \in SUBSET Uris : Cardinality(Uris \ U) <= MaxDown}
  /\ changes = 0

(* A server goes down or comes back.                                       *)
NetworkChanges ==
  /\ changes < MaxChanges
  /\ changes' = changes + 1
  /\ \E u \in Uris : up' = IF u \in up THEN up \ {u} ELSE up \cup {u}
  /\ UNCHANGED <<hints, problem, broken>>

==============================================================================
