# A TLA+ model of fastxml

fastxml is an XML library in Rust: a parser (to a tree or to events), XPath, a
streaming transformer, and an XML Schema validator with its own loader, cache
and compiler of schemas. This directory holds TLA+ modules that model parts of
it, TLC configurations that check them on small instances, and theorems about
them that TLAPS proves for every instance. Paths below are relative to the
repository root, and `schema/` stands for `src/schema/` in the crate.

## The system

| component | state it keeps | operations | what is hard | what makes it correct |
|---|---|---|---|---|
| file cache (`schema/fetcher/file_cache.rs`) | two files per URL, an in-memory index per process | fetch, seed | threads and processes race, crashes, dropped futures, redirects | a record marks a complete entry; an answer is one fetch's result; nothing cached is fetched again |
| memory cache (`schema/fetcher/cache.rs`, `async_default.rs`) | a concurrent map | fetch, seed | check-then-act races | as above, without files |
| restricted fetcher (`schema/fetcher/restricted/`) | a policy | fetch | redirects leave the policy | only permitted locations are requested and returned |
| hints (`schema/hints.rs`, `validator/prescan.rs`) | – | read the root's start tag | malformed hints | every hint is honoured or reported |
| resolver (`schema/xsd/resolver/`) | schemas by URI, a queue | resolve_entry, resolve_all | cycles, failure half-way, redirects | loads the closure of the references, and ends |
| hinted loading (`schema/validator/api.rs`) | errors, unreachable hints | load, compile | hints that fail | never a verdict from a schema that was not loaded |
| collecting and exporting (`schema/export.rs`, `resolve.rs`) | documents, names for them | collect, write | one document under several names | the set is closed; references lead inside it |
| schema parser, compiler (`schema/xsd/parser`, `schema/xsd/compiler`) | frame stack; type tables | parse, compile | cyclic definitions, redefinition | definitions resolve once, cycles are refused |
| content automaton (`schema/xsd/content_automaton`) | positions, transitions; a cursor of configurations | build, step, finish | repeated groups, counters, caps | accepts what the particles allow, never less |
| DOM and streaming validators (`schema/validator/dom`, `streaming`) | a stack of element states, an error list | start, text, end | agreement of the two engines | same verdict for the same document |
| identity constraints (`schema/xsd/constraints.rs`, ...) | key tables per scope | open, record, close | keyrefs before keys, nested scopes | uniqueness and reference within the scope |
| simple types (`schema/xsd/primitive.rs`, `facets`, `value_compare.rs`) | – | check a value | orders, patterns, bounds | the value spaces of XML Schema |
| parser (`parser/`, `event.rs`) | element stack, open entities, doctype | events | recursive or exploding entities | well-formed input and only that |
| document tree (`document.rs`, `node/`, `serialize.rs`) | an arena of nodes under a lock | read, mutate, serialize | links under mutation | parent and child links agree |
| transformer (`transform/`) | element path, the open match, handler progress | transform, for_each | nesting, limits, several handlers | each byte once, each match once |
| XPath (`xpath/`) | – | parse, evaluate | axes, document order | XPath 1.0 |
| command line, generator, profiling, compat, conformance harness | – | – | – | not core |

Interaction: a validator run reads the hints of the root element, loads the
schemas through a fetcher (usually a cache around the network), resolves their
references, compiles them (which builds a content automaton per type), and then
feeds each element's children to the automaton. The exporter reads the same
hints and fetches through the same fetchers, with an algorithm of its own. The
calls are synchronous or `async`; the shared state is the fetchers' caches.

## The modules

| module | models | state |
|---|---|---|
| `FetchCache` | what a caching fetcher promises | results known, answers being returned |
| `FileCache` | `FileCachingFetcher` and `AsyncFileCachingFetcher` | the files, the indexes, the locals of every call |
| `ContentAutomaton` | the run of an automaton over children | the automaton, the configurations, the errors |
| `ContentModel` | construction of an automaton, `check_upa`; what a particle allows | adds the particle |
| `SchemaWorld` | hints, schema documents and their references, servers | hints, broken documents, servers that are up |
| `SchemaClosure` | what loading promises | the documents loaded, whether they were accepted |
| `SchemaLoaders` | `load_hinted_schema` and the resolver; `SchemaSet::collect`; both over one world | resolver map and queue, errors; documents, names, queue |
| `SchemaRules` | what the schema parser asks of one element, from its attributes and what is remembered of its parent | none: operators |
| `SchemaParser` | the schema parser, tag by tag | scopes, frames, children seen, names taken, the AST |
| `SchemaGrammar` | the schema for schemas, and the tree a document stands for | none |
| `Values` | the values of the built-in types: how they are parsed, compared and made into keys | none: operators |
| `SimpleTypes` | facets against those of the base, and texts against the facets of all steps; what belongs to a type by its definition | none: operators |
| `Restriction` | particles, their expansion and flattening, the rules of particle restriction; attribute uses and wildcards under restriction | none: operators |
| `SchemaCompiler` | looking names up in a set of schema documents, the checker's way and the compiler's; redefinition; cycles; the compilation of the set, stage by stage; texts judged by the compiled types | documents, stage, why it was refused, content models, attribute uses, verdict, the type judged |
| `SchemaInstance` | a schema in use and the document being validated: declarations, types, `xsi:type`, attributes, text | the document, the open elements |
| `StreamValidator` | the streaming validator; keys, uniques and keyrefs while streaming | a stack of element states, scopes, tables, pending keyrefs, IDs, errors |
| `Validators` | the DOM validator; both validators on one document | contexts of visited elements, tasks, IDs, errors; which of the two runs |
| `InputReader` | `EolNormalizer`, `PositionTrackingReader`, `SliceSource` | what is unread, the buffers, positions |
| `Documents` | entity declarations and the expansion of references; the event loop of the parser, its checks and both sinks; what a parse promises. An input is either bytes for `InputReader` or events | which of the two; pieces still to be read, open entities, elements, scopes, tree |
| `DocumentTree` | the array of nodes and its operations | none: operators |
| `EditedTree` | editing a document in place, and asking XPath for attributes and namespaces; compared with `DocumentValue` | the nodes, the extra nodes, the last answer |
| `DocumentValue` | what editing promises | the document as a value |
| `Selection` | axes, node tests and location paths on a tree; the analysis of streamable paths; the streaming matcher against the evaluator | the tree, the open elements, counters, the elements matched |
| `XmlEvents` | the events of a document, read one at a time; elements and subtrees | events read, open elements, outcome |
| `Rewrite` | `rewrite.rs`: transforms that write output | the open match, both outputs |
| `Dispatch` | `dispatch.rs`: `for_each` | the progress of each handler |
| `Fallback` | `fallback.rs`: an XPath that needs the tree | position, stacks, the open match, output |
| `Transformer` | which of the three runs | composition |

The `MC` modules give the constants their values, one per run or group of runs.
`FileCacheProofs`, `ContentAutomatonProofs`, `SchemaLoadersProofs`, `XmlEventsProofs`,
`RewriteProofs`, `FallbackProofs`, `TransformerProofs` and `InputReaderProofs` hold the theorems.

### FileCache

`call[t]` holds the locals of the fetch that thread `t` is in; `pc` names the
next step. `fetch` is LookUp (the index), LoadRecord and LoadExists (`load`),
then ReadContent and Register for a hit, or InnerFetch, CreateTemp, FillTemp,
StoreFile (`write_atomic`, for the content and again for the record) and
InsertIndex for a miss; after a redirect the last four run once more for the
final URL. CallFails is any `?` that returns. DropFuture is an `async` caller
that goes away; a store already handed to `spawn_blocking` runs on. Crash ends
a process: its calls and its index are gone, the files stay. A temporary file
never has the same name twice, so one that is left behind is never looked at,
and the model forgets it.

`obtained` is history: what was fetched or seeded for each URL. Content is
identified by the URL and version it came from. The cache refines `FetchCache`, with `obtained` for what is known and
a call at `done` or `failed` for an answer.

### ContentAutomaton and ContentModel

The code numbers positions from 0 and states from 0 with the start; here state
`p` is position `p` and 0 the start. A child name stands for the pair of name
and namespace; `admits[p]` is the set of names a position's matcher takes
(a substitution group, a wildcard's namespaces). The cursor is the code's set of
`(state, run)` pairs. `exact` is the same without the cap on runs.

`ContentModel` builds the automaton as the code does, with Glushkov sets
computed bottom-up; group copies, particle ids that copies share, the expansion
cap and the lost bound of a leaf in a repeated group are all there. `Ends` says
directly what a particle allows, and TLC compares the two on every sequence of
children. `Takers` says in the same way which leaf of the tree may take which child,
and a content model is `Ambiguous` when two of them may take the same child
after the same children; `UpaIsAmbiguity` compares `check_upa` with that, copied
groups included. Neither looks at a position or a transition.

### The loaders

A document is named by the URI it is served from, after redirects. Validation's
loader keys a hinted document by that URI and a dependency by the URI it was asked
for, as the code does; the exporter's set uses the final one for both. The code has two
functions named `resolve_uri`, and the model two constants: `Resolve`
(`xsd/resolver/common.rs:16-41`: parse the base, join, fail) for validation,
`ExportResolve` (`export.rs:430-458`: append, normalize, never fail) for export. They
give the same for absolute `http`, `https` and `file` locations and for plain
relative paths under a normalized base, and differ for others: a location that
starts with `/` or `//` under a document in a directory, an empty one, a query or
fragment (in the location, or with a slash in the base), dots and doubled slashes where
only one of them tidies, percent-encoding, other schemes, a base that is only a host,
`file:` paths (export follows links on the disk), and a base that is no URL
(validation fails, export appends). Besides, the one resolves against the URI asked for,
as `fetch_schema` drops the final one (`sync.rs:121-124`), and the other against the final URL,
so under a redirected import the bases differ too. `LoadersAgree` assumes nothing of the
two functions beyond what it says: for the documents that were loaded, both
addresses of each location get the same document from the servers, or none
(`SameReferences`). Where that fails, the two do load different documents, and
nothing is claimed. The instance has two redirected documents, one of them
imported by where it has moved from, a root-relative location under documents in a directory,
and a location that cannot be joined. `hintAt` and
`nextHint` are the loops over hints, `queue`/`toParse` the breadth-first search
and `pending`/`toFollow` the references of the document in hand. Servers go down
and come back between any two fetches. Compiling is an outcome.

### The transformer

The input is not generated beforehand: each step of a loop picks the event the
reader returns next, with the set of handlers whose XPath selects it, so the
checks range over every document and every selection. Event `i` is the input
between offsets `i - 1` and `i`; that is all that the copying of byte ranges
can tell apart. Text, CDATA, comments and processing instructions go the same
way through every loop and are one kind. A `ref` is text with a reference to an
entity that holds an element: outside a subtree it is copied, inside one
`unescape` fails, and in a tree it is an element. Declarations, and a DOCTYPE, come
first or not at all (`CanFollow`). The reader of the transformer does not refuse a DOCTYPE inside an
element, which is not well-formed; inside a match, `EchoOutput::other`
(`rewrite.rs:195`) would echo it and `CopyOutput` (`rewrite.rs:150`) drop it with
the range. That input is outside the model.

`Rewrite` runs `CopyOutput` (in-memory input, copied in ranges) and `EchoOutput`
(reader input, echoed by event) side by side over one loop, so that each
property is stated of both. `open` is the `Option<OpenMatch>`; what a callback did
is only whether it removed the node. `Rewritten` in `XmlEvents` says what the
output should be from the structure of the document alone: the places from which
there is output (`OutputPlaces`), in order. `InOrder` lists any finite set of
numbers by the rank of each, without recursion, so that theorems can speak of it.

`Dispatch` takes a tag through all handlers in one step, as the code's inner
loop does: handlers share nothing, so only the order of the calls is visible,
and `calls` keeps it. `progress[h].depth` of 0 is `builder: None`.

`Fallback` first reads the whole document (pass 1), then again (pass 2) with the
code's `node_stack` and `current_child_index`. Writing and iterating have the
same loop; a limit belongs to iterating only, so the output is judged where
there is none.

`Transformer` chooses the engine at the start; the state of the others is
unused.

### The schema parser

A schema document is a tree of elements with their declarations, attributes and
children; `SchemaParser` reads its tags one at a time. A start tag that is
neither skipped nor foreign nor pruned is refused by a rule of `SchemaRules` or
a handler, or admitted: it is counted in its parent, and pushes the frame its
handler pushes, if it has one. An end tag pops whatever frame is on top and
puts it where its finisher puts it (`SlotFor`, `WholeOf`). `scopes` stands for both stacks of
namespaces. Values of attributes are texts where a rule only compares them;
names, lists and XPaths come split, as the code splits them.

`SchemaGrammar` is written from the other side: contents of whole elements as
the schema for schemas gives them, conditions between elements of the whole
document, namespaces by their ancestors, and the AST by recursion over the tree.
It covers documents in which every schema element is recognized
(`IsRecognized`) and, for what is accepted, in which no element is misplaced
(`HasKnown`): the code asks nothing of the children of some elements.

### The schema compiler

A set of documents with definitions of one class (types, groups or attribute
groups) is compiled stage by stage, as `XsdCompiler::compile` does: the
namespaces in which references must resolve, the redefinitions one at a time,
the search for cycles, the reference check document by document, the content
model of the last of a chain of types, and the restriction check. The checker
and the compiler resolve names by rules of their own, and both are there:
`Checked` follows `references.rs` and `cycles.rs`, `Compiled` follows
`resolve_qname`, `group_ref_key` and the lookups of `types.rs`. A definition's
content model is compiled twice, as in the code: `Tree`, from which the
automaton and the restriction check are made, and `EffectiveElements`, the bounds of
each child. `Restriction` has every case of the particle rules in the code's
order, with their three verdicts. `Allowed` says directly which sequences of
children a particle allows. `ElementsFit` is the coarser check of the flattened
children, and `Effective` gathers attribute uses along a chain of types, with the
wildcard that comes first in it (which one, not the bounds that scaling gives it).

Simple types are compiled before the chain and judged after it. A text is a
record of its words, and a word a record of digits and signs, so that leading
zeros, a missing point or time zone, and white space are told apart; parsing and
comparing are arithmetic on them. `FitsBase` is the check of a type's facets
against its base, `ElementAccepts` and `AttributeAccepts` what validation asks of a text, with the facets
gathered from all steps and the fast path for plain numbers, and `Belongs` what the
definition of the type says: every facet of every step.

### The validators

`StreamValidator` has one action for each event. A start tag places the child
in its parent's automaton, chooses its declaration (in the order the code
tries: a wildcard that skips, a declaration, a lax wildcard, `xsi:type`),
checks attributes and `xsi:type`, opens identity scopes and pushes an element
state; text goes to the element on top; an end tag judges content and value and
closes scopes; the end of the document settles IDREFs and keyrefs.
The DOM validator visits the finished tree in document order, each element with
the context its parent's visit left, and evaluates identity constraints as
tasks over the tree, keys before keyrefs (`Visit`, then `DomFinish`). `SchemaInstance` holds what both share:
the compiled schema, lookups in it and the rules for `xsi:type` and attributes.
Errors are kept as a kind and an element. `Validators` runs the one, then the
other, over one document that TLC builds event by event.

### Reading a document

`InputReader`: the reader beneath hands out any piece of what is left, and the
tokenizer consumes any part of what it is given, so a line end or a byte-order
mark can be cut anywhere. `JoinSplitBom` and `JoinByte` put together a mark that
arrives in pieces. The search for a CR in what the inner buffer holds has one
action for each way it goes on (`InputEnds`, `DropLf`, `BeginNormalizing`,
`PassThrough`), and `Normalize` is one turn of the inner loop, up to the next CR or
the end of the window; `taken` is the loop's index. `NormalTo` says what the first
n bytes should be read as, from the input alone: the bytes that are kept, in order,
found by their rank. Positions are counted by `PositionTrackingReader` at each consumption,
and by `SliceSource` when somebody asks.

`Documents`: the tokenizer delivers any sequence of events in which tags
match (quick-xml checks that itself). `work` is the call stack of the code: the
runs of text still to be delivered and the entity fragments being read. Checks,
the DOM builder and the streaming handler see the same events in the same
step, in the code's order. The two stacks of namespace bindings and their
memos are both there. `Included` says what the outcome should be by replacing
references by the text they stand for.

### Editing and selecting

`DocumentTree` is the array of nodes; index 1 is the document. Each operation
of `EditedTree` is one action, for any of the nodes a caller holds, including
those that an earlier edit took out of the tree. XPath's attribute and namespace
nodes are made on the first query and kept in `pseudo`, as in `document.rs`.
`DocumentValue` knows no indexes: a document is a value, a handle is a path of
child places, and each call has its effect at a path with its arguments; at no
path, or for a query, nothing changes. `EditsAreLocal` maps call to call: a call on a handle, with its
arguments, must be the call of that name at the handle's `Place`, which is found by walking the
child lists from the document. An edit of a node that was taken out, which would
reach the tree through its stale parent link, or one that lands elsewhere, or a query
that changes something, is a violation. Each operation is therefore an operator of its own
(`SetContentOf(n, text)`) that the action chooses arguments for.

`Selection` builds a document start tag by start tag and, at the same time,
keeps the tracker's path of open elements and its sibling counters. `Analyze`
is the reduction of an XPath to its streamable form; `Matches` is the matcher,
asked at each start tag. When the document is complete, `Evaluate` gives the
tree engine's answer for the same XPath. XPaths are given as steps, not as text.

## The runs

| run | bounds | shows |
|---|---|---|
| `filecache` | 2 threads in one process and 1 in another on one directory, 2 URLs (one redirects to the other), 2 calls at a time, 2 versions of the documents, 1 crash, one URL may be seeded | records mark complete entries; no cached URL is fetched again; answers refine `FetchCache` |
| `contentmodel` | all models of one group of one or two elements and many of two levels, 5 children, groups expanded up to 2 copies | the cursor is exact and bounded; never a false error, and none missed except where the code says it is lenient; `check_upa` reports exactly the ambiguous models, copied groups included, outside two named cases |
| `schemaloaders` | 9 URIs on 2 servers, two moved, mutual imports, two resolving functions, up to 1 broken document, up to 2 URIs down, 1 change | both loaders load the closure or refuse, end, and agree while no server changes, redirects lead somewhere and the two addresses of each location get the same document; an export points only inside itself |
| `compiler` | every pair of documents around one reference or redefinition, every graph of references among three definitions, chains of types with their attributes, and pairs of content models of one and two levels; sequences of up to 4 children; up to three simple types, each on the one before it, with one or two facets, and up to a dozen texts around their bounds | what was checked is what is compiled; cycles, and only they, are refused; a redefinition takes the original's place; an accepted restriction allows nothing its base does not; a definite verdict stays whatever is missing; flattened bounds refuse nothing the model allows, and agree with the tree outside named cases; a text is accepted when it belongs to its type by definition, and two values have one key when they are one value |
| `validators` | 14 schemas, documents of 4 or 5 elements and depth 3 | both engines give the same verdict and blame the same elements; identity constraints are those of the finished tree; scopes follow the stack |
| `documents` | inputs of up to 4 bytes of six kinds and some longer ones, cut and consumed in every way; 6 events, depth 3, 6 tags, the DOCTYPEs of `MCDocuments`, 8 units of expansion | what is read is the normal form, a byte-order mark in one piece, and both position counts are those of the text; a document is accepted exactly when its inclusion is well-formed, and handler and tree see the inclusion; names resolve by their ancestors; no entity is left open |
| `schemaparser` | every kind of element with every two children of 21 kinds, four with three of 6; each attribute with its candidate values, alone, missing, and in pairs; facets, names, ids, prefixes, version conditions, XPaths of up to 5 tokens; a large document | a document is refused only if it is no schema, and accepted only if it is one, up to what is listed under "Where code and docs disagree"; the AST is the document's tree |
| `selection` | documents of 4 elements (7 kinds), depth 3, 1 text; about 26 XPaths | the streaming matcher selects what the evaluator selects; every axis is complete and in its order |
| `editing` | 4 edits or queries of 3 held nodes, up to 12 nodes | each call changes what it is made on, as promised, and nothing else; links agree; answers are current and in document order |
| `transformer` | 2 handlers, 5 events (6 for the fallback), limits none, 0, 1 and 2, four ways to register the handlers | each event is written once, to both outputs; first match wins; handlers do not affect each other; calls are ordered; the fallback edits what was selected |
| `transformer_truncated` (violated) | the same | if the input ends inside a match, what precedes the match is written twice |
| `transformer_entity` (violated) | the same | after an entity that holds an element, the fallback calls the callback with elements that were not selected |

The bounds are enough for the cases that matter. Two calls are the fewest that
race, and every step of one may fall between any two of the other; a redirect
makes one call write both pairs of files, so two calls for the two URLs collide
on the same names. Five children exceed the largest count two expanded copies of
a two-element group can consume, so the cap, the counters and the moves between
copies are all exercised; `EXPAND_CAP` is 16 in the code and 2 in the runs, which
changes where leniency begins and nothing else. Five also
show an ambiguity in every model that `check_upa` reports. Nine URIs hold a
cycle, a diamond, a moved hint, a moved import, a second document with the same
relative reference, a location that does not resolve and one that the two
functions resolve differently. Five events hold a match inside a match
inside the root or two matches side by side, and two handlers are the fewest
that can overlap or stop at different times; six let the fallback meet an empty
element, then a sibling with a child. Two documents are the fewest in which a
name can resolve differently by place, and three definitions the fewest in
which a cycle can be missed by marks that another search left. Content models of
two levels meet every pair of kinds that the restriction rules dispatch on; four
children tell the ranges 0 to 3 and unbounded apart. Three simple types
hold a facet, one that overrides it and one between, and texts on both sides of
each bound; the limits on chains of types (16 and 64) are not modelled. Two
children show an order, a repetition and an exclusion, and three a phase that was left; an
attribute beside one other shows every exclusion between two. Four elements give a parent
two children, one of them with a child, or three siblings, which is what it
takes for a substitution, an occurrence count, a position or an inner scope to
go wrong; the schemas of identity constraints have five, for a key and a keyref
in two scopes. Six events hold an entity in an entity between two tags. Four
bytes hold CR LF across a cut, followed by a further line, and the longer inputs
hold a mark in each position. Four steps edit a node, ask for it, edit it again
and ask again.

The systems that stop by themselves (content models, loaders, the compiler and
the transformers) switch deadlock checking off; the others end in a step that
repeats, or may always move, and deadlock is checked.

**Fairness.** Only `schemaloaders` has a liveness property. It assumes weak
fairness of each loader's step: the loops are sequential code, and a fetch
returns with a document or an error (the HTTP clients have timeouts). Nothing is
assumed of the servers.

**Excluded cases.** Some properties leave out a case in which the code differs:
`IsTolerated`, `IsLost` and `IsRecognized` in
`SchemaGrammar`, `KnownByXsiOnly` in `Validators`, `OnlyPrefixed` in `Selection`,
`AmbiguousWithoutPrefix`, `GroupOfNoNamespace` and `GuessesNames` in
`SchemaCompiler`, `RedirectsLead` and `SameReferences` in `SchemaLoaders`, `LeftOpen` and `LosesCount` in
`ContentModel`, and the input that ends inside a match in
`Rewrite`. The last has a run of its own; the others are described in "The proofs" or under "Where code and docs
disagree" or, for the loaders, above.

## The proofs

`FileCacheProofs` proves for any number of threads, processes, URLs, hashes and
crashes that every variable has its type (`TypeCorrect`) and that records mark
complete entries (`RecordsMarkCompleteEntries`). RecordMarksComplete is not
inductive: a record appears when a temporary file is renamed, so the invariant
must say what temporary files hold. `IInv` adds that a filled temporary file that is about
to be renamed is whole and is the text its call meant (`TempIsWhole`), that the
visible files are whole (`FilesAreWhole`), and that a call writing its record
has its content file in place (`ContentFirst`); `EntryAtHand` extends this to
calls that read. The proof has one lemma per action; those that only move a call
share `QuietStep`. Temporary file names are unique to the thread
(`TempsApart`), which is what rules out one call renaming another's half-written
file.

`ContentAutomatonProofs` proves for every automaton and every bound on children
that the cursor is well formed and never empty, that runs are bounded
(`BoundedRuns`), that capping them is exact, and that a deterministic automaton
has one configuration. The heart is `CapCommutes`: capping the successors of a
configuration gives the successors of the capped configuration. From it, the
cursor equals the capped exact set after every step, including the children
that cannot be placed.

For the cache, two more. `CachedNotRefetched`: when no two URLs share a hash
(`HashesApart`, a 64-bit hash in the code; the collision is a listed hazard), no
cached URL is fetched again. The invariant says that whatever is registered in
an index, or about to be, has its whole entry on the disk, through every
crash. `CacheKeepsPromise`: every step is a step of `FetchCache` or none, so each
answer is one whole document that the server gave for that URL. It needs also that
redirects are stable (`StableRedirects`: where a URL leads does not change, and
leads no further), for otherwise the entry of a redirecting URL can pair one
fetch's content with another's final URL; this is listed below.

`XmlEventsProofs` has the lemmas about documents that the three engines' proofs
share: what reading one more event does to levels, subtrees, outermost matches,
and to the list of what is due. Reading is always inside one match or away from
all (`AwayOrWithin`), and what is due only grows at its end (`DueGrows`).

`RewriteProofs` proves for any handlers and input that each event is written once, to
both outputs, and that the first match wins (`RewritesEachMatchOnce`). On the way it
proves that the two outputs are the same up to a range that is about to be copied
(`OutputsAgree`), which is inductive once the types are known and
an open match is known to have an element in its builder (`IInv`); the steps rest
on facts about ranges, of which `EchoIsCopy` (echoing an event is copying a range
that is one longer) is the heart. The other two are not inductive: they say
nothing of the open match. `AtMatch` adds that the code's depth counter is the
level of the document above the match, that what the builder holds is every event
since its start, and that there is no open match exactly when reading is away from
every selected element; `History`, that echo and calls are those of the document
read so far. Together they are `RInv`. The input that ends inside a match is
excluded in the properties: the `transformer_truncated` run shows what happens
there.

`TransformerProofs` proves of `for_each`, for any number of handlers, limits and events, that a
stopped handler has no subtree in progress, which a comment in `start_tag`
claims and the end tag's loop relies on, and that the unsigned count of calls
left reaches zero only when the handler stops (`StoppedHandlersHoldNothing`);
that calls come in order (`CallsAreInOrder`), and that each handler gets what it would
get alone (`HandlersAreAlone`). `IInv` is `TypeOK` and `Sound` of every handler's
progress: stopped, reading and calls left exclude one another as they should.
`OInv` adds that calls so far end in the part of the input that was read, so that
those of the next event come after them. `AInv` adds, per handler, that the calls
to it are a prefix of what is due and all of it unless it stopped
(`UpToDate`), that the calls made and left add up to its limit (`Counted`), and what
a handler that has not stopped is reading (`Reads`); without the last, the end tag
of a subtree could not be known to end the right one.

`FallbackProofs` proves that the second pass edits the elements that the first one
selected (`SecondPassFinds`), for any document in which no entity holds an element;
for the others `transformer_entity` shows that it does not. `StackAt` says what the
code's two stacks mean after n events: `node_stack` holds the elements that are
open, each at the index of its depth, and `current_child_index` counts for each
how many of its children have been read. From it, the node that
`find_child_element_id` returns is the one that is being read (`ExpectedIsNext`):
its parent is the innermost open element, and as many of that parent's children
come before it as were counted. Once the right nodes are found, the second pass
is the streaming rewrite, by one handler, of the document that it has read so far:
`EventIs` maps each of its events to an event of `Rewrite`, under the refinement
mapping of the instance `R`, whose invariant `RInv` is thereby the invariant of the
second pass (`Rereading`). What the rewrite promises of a part of the document is then
carried over to the whole, of which it is a prefix (`PrefixSelection`,
`DueComesFirst`); and since the first pass has read a whole document, no
match is open at the end (`AllComplete`), so nothing that was selected is left out.

The transformer that the run checks is one of the three engines; the one that runs
keeps its invariant (`RunInv`). `TransformerProofs` extends `Transformer`, and with it
`Dispatch`; what `RewriteProofs` and `FallbackProofs` prove is carried over, as an
instance of a module has the same definitions as the module its proofs extend (the
`Same...` lemmas). The run's five properties are all theorems.

`InputReaderProofs` proves that the tokenizer reads the normal form of the input and
is told the right positions (`InputIsReadExactly`), whatever the input, the pieces
it arrives in, the size of the window and what is taken at a time. `ReadsTheString`
alone is not inductive: it says nothing of what is buffered. `IInv` adds that what
was consumed, followed by what is left of the internal buffer, is the normal form of
exactly the bytes that were read (`ReadIsNormal`); that `skip_lf` is set if and
only if the next LF is to be dropped (`SkipsAfterCr`), which is where a CR LF cut
between two pieces could go wrong; that the bytes known to be clean are
(`CleanIsClean`); what each place in `fill_buf` may rely on (`Phase`), among it that
nothing was read before a mark is looked for, that an LF to be dropped is never
forgotten in the middle of a piece, and that an empty buffer is only returned when
nothing is left; and that until the first buffer is handed out a mark at the start of the
input is still whole or being put together (`BomInSight`). The steps rest on four
lemmas about normal forms (`NormalRun`, `NormalCr`, `NormalDropped`, `NormalPrefix`), on ranks being
without gaps and one to one (`RankRun`, `NthOfRank`), and on one about counting:
counting a text piece by piece is counting it at once (`TrackPosition`). That the
window ends before the piece does, that a CR ends the piece, and that the byte after
a CR lies beyond the window are cases of `NormalizeHolds`.

The type invariants, the bound on runs and what a stopped handler holds are
proved and not run again.

`SchemaLoadersProofs` proves all four safety properties of the loaders, for any
documents, servers and hints. `LoaderImplementsClosure` and
`CollectorImplementsClosure`: each step of either loads one more document that is
wanted, or accepts a set that is closed, or is none of these. Both
need to know that nothing is forgotten on the way: a document that was loaded is
in the queue, in hand, or has all its references loaded (`NothingForgotten`,
`NothingLeftOut`), and every hint passed was honoured or is an error
(`HintsAnswered`, `HintsCollected`); they are `LInv` and `CInv`.
`ExportsAreSelfContained` follows from the latter. `LoadersAlwaysAgree` compares two
searches in different orders, with two resolving functions, which may be any. Call a
set of final URLs fitting (`Fits`) when it holds what the hints lead to and what its
members ask for by export's function, and nothing broken or unreachable. `SameReferences` of
what was loaded is all that ties the other function to it. Neither loader ever leaves a fitting set, and neither fails while
there is one (`BothWithin`); and what either has when it ends without an error
is fitting. So each result includes the other. The proof found the property
false as it was first stated: export fetches all hints before any reference, so
where a hint is redirected to what cannot be fetched itself, export knows a document
that validation, which meets a reference to it first, finds missing.
`RedirectsLead` excludes this, and the run has such hints.

Assumptions are those the modules state of their constants (`CacheAssumption`,
`AutomatonAssumption`, `EventsAssumption`, `TreeEventsAssumption`, `WorldAssumption`,
`InputsAssumption`); TLC evaluates them in the runs.

Only model-checked: everything about the construction of automata, content models
and documents, whose operators are recursive; the schema parser; the
compiler; the validators; the parser above its reader; selection; editing and its
refinement of `DocumentValue`; what happens to the fallback when entities hold elements; liveness.

## Where code and docs disagree

Two have runs: `transformer_truncated` and `transformer_entity`. The others
were met while modelling:

- `file_cache.rs:4`: "each URL is fetched at most once"; two callers that miss
  together both fetch. `file_cache.rs:223` against the comment at `:109`: when a
  redirect moves between two overlapping fetches, an entry can pair one fetch's
  content with the other's final URL.
- `validator/api.rs` loads a hint with its references before the next hint,
  `export.rs:153-159` all hints first: with a redirect to a document that cannot be
  fetched itself, one fails where the other does not (`RedirectsLead`).
- `resolver/sync.rs:41` promises dependencies first; the order is that of
  discovery.
- `content_automaton/mod.rs:3-8` says an ambiguous model is found as a state with two
  transitions. Copies of a group share particle ids, and in a group that occurs
  exactly n > 1 times, around a part that repeats a variable number of times, no one state
  has both: `((a{1,2} | b){2,2}, b)` is ambiguous after two a, and passes
  (`LosesCount`).
- `content_automaton/mod.rs:16-17` and `:34-35`: beyond the cap a group is lenient, "never a
  false error". `check_upa` (`:832-862`) reads the open end as a choice, so a sequence of an a,
  17 times, followed by another a is refused (`compiler/mod.rs:180-189`) although
  the 18th a can only be the last (`LeftOpen`).
- `tests/validator_api_test.rs:69` says the engines agree; they do not for a child
  that only its own `xsi:type` makes known, also under a lax wildcard
  (`streaming/content.rs:256-265`, `dom/occurrence.rs:65-74`).
- `tracker.rs` says a streamable XPath selects what the evaluator selects;
  `@id` finds `p:id` in the tree where there is no `id`, and not while streaming.
- `references.rs:296-298` says the compiler merges groups of documents without a
  target namespace; `group_ref_key` does not look for them there, and an
  attribute group of that name may be taken from any namespace, in the order of
  a hash map. A reference without prefix where there is no default namespace,
  to a name that is both in no namespace and in the document's own: the checker
  takes the first and the compiler the second.
- `particles.rs:260`: an optional `xs:all` is flattened with its children required
  (`docs/validation.md:259`).
- `elements.rs:36-43` against `restriction/mod.rs:6-9`: a reference to a missing
  declaration is judged by its name, where "unknown" is promised.
- `redefine.rs:3-8`: of chained redefinitions the first is lost; a definition of
  the same local name in another namespace is renamed too, and the
  redefinition's references to one are rewritten.
- `handlers.rs:864-879` lists the facets that push no frame without
  `explicitTimezone`, which pushes none: its end tag ends the restriction it is in,
  and what follows is refused or lost. The end tags of `notation`, of `assertion`
  in a restriction ("ignored but not rejected", `rules/mod.rs:142`) and of elements
  without a handler pop a frame too.
- `handlers.rs:295-334` reads only "true" where `attribute_values.rs:16` admits "1".
- `finish_simple_type` drops the inline type of a restriction of simple content.
- `handle_start` knows one prefix for the schema namespace, the first: an
  element under another one is passed over, and its content is read as if it
  stood in the parent's place.
- The structural rules ask nothing of the children of `schema`, `redefine`,
  `sequence`, `choice`, `list`, `union` and facets, nor of some orders, counts and
  attributes (`IsTolerated` in `SchemaGrammar`).
- `text.rs:84-86` says facets are looked up by type; `FacetCache::get` remembers them
  by a type's local name, so two types of that name in two namespaces share the
  first one's.
- `PrimitiveKind::resolve` takes a user's type that is named `integer` for the
  built-in one, wherever it is.
- Padded values of facets are stored as written: a padded bound is skipped, a
  padded enumeration never matches.
- Keys of durations and time stamps are texts, and a float -0 has a key of its own.
  24:00:00 and 00:00:00 of the next day differ, and a missing time zone counts as
  UTC.
- The built-in list types may be empty at run time. `fractionDigits` counts trailing
  zeros. A union's own facets see the text as written.
- Not checked against the base: the facets of an anonymous base (they are lost), an
  enumeration or a time zone facet that replaces another, bounds without an order
  between them, a base in another document, and the range facets of types
  derived from a string type or from a restriction of a restriction of a union.
- Fixed values of attributes are compared as texts when validating and as values
  when compiling; one on a reference is never compared with the type; a derived
  local declaration may drop the fixed value of a global one that the base refers
  to, while a derived reference whose declaration fixes the value is refused; those
  of anonymous types are compared as texts. Default and fixed values of types over
  built-in lists are not looked at.
- Of several attribute wildcards in a chain of types, the nearest counts; a
  prohibited use is admitted again by the type's own wildcard; the types of
  attributes are not compared in a restriction.
- Whether an `xs:all` may stand where it does is looked at only when its base is
  declared before it.
- `restriction/mod.rs:4-11` promises that no valid restriction is refused; the
  check of flattened children (`validity.rs`) refuses some: those with elements of
  `maxOccurs="0"` and those whose base lists an element twice.

## Not modelled

- Caches and fetchers: the in-memory caches (one insert under a lock, a subset
  of the file cache's steps), the restricted fetcher's policy, network and file
  I/O. Two URLs with the same hash are listed as a hazard; every URL of the runs
  has its own.
- Schema parser: the text of values (whitespace, numbers beyond `u32`), the
  namespace bindings of the root kept for the compiler, and `mixed` of a content
  derivation, which nothing reads.
- Compiler: fixed values of elements in restrictions, `block`, substitution groups,
  keys, duplicate definitions, and the particles of redefined groups (their
  references are).
- Simple types: base64 and hexadecimal, names and URIs, and patterns, of which a
  facet here has the texts that it matches.
- Validators: the limit on errors and their aggregation, the lenient fallback
  for an `xs:sequence` without automaton, unions of fields, ID-typed element
  content, default ID values, namespaces of tags. The schemas avoid the
  following, where the engines are known to differ: a keyref field that matches
  several nodes, a keyref whose key is never opened, text in a complex type
  with empty content, an undeclared child under a strict wildcard (streaming
  does not step), a literal `xsi:` prefix, children and nil of nilled and of
  positional declarations, selectors that reach into skipped content, an
  attribute field through a path (compared lexically), and an `xs:all` that
  names a member of a substitution group.
- Parser: the grammar of characters, names, declarations, comments and
  processing instructions; DTD syntax; the memory check; `xmlns` values through
  references; whitespace normalization of attributes; an external declaration of
  an entity that is then declared internally.
- Reader: errors of the reader beneath. `InputReader` has it hand out pieces until it
  ends; an `Interrupted` or another error, such as one between the two reads of a
  mark that is cut (`eol.rs:142`), is not there.
- XPath: the function library, arithmetic, variables, the text of expressions;
  prefixes that are not bound (an error in the tree, matched as written while
  streaming); the namespaces registered by the caller, which the fallback
  engine does not pass on (`fallback.rs:60-64`).
- Editing: serialization (a declaration is skipped where `xmlns:p=` appears
  anywhere below, `serialize.rs:109-114`), the modification log, attributes with a
  prefix in new elements (stored by their local names, `insert.rs:65-72`),
  attributes set on text, siblings of a detached node, and XPath results after
  a node was put before others, whose order is that of the array.
- Transformer: `process_matches`, builders and `collect_multi`, failures of the
  writer inside an event.
- Encodings, messages, profiling, the generator, the command line, the libxml
  compatibility layer and the conformance harness: no state that the rest
  depends on, or characters rather than control.
