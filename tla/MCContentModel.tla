---------------------------- MODULE MCContentModel ----------------------------
(* Content models of two levels over two element names, and a wildcard.    *)
EXTENDS ContentModel

Element(n, min, max) ==
  [kind |-> "element", name |-> n, admits |-> {n}, min |-> min, max |-> max]

Group(k, items, b) == [kind |-> k, items |-> items, min |-> b[1], max |-> b[2]]

MCBounds == {<<1, 1>>, <<0, 1>>, <<1, 2>>, <<2, 2>>, <<2, 3>>, <<0, Unbounded>>}

MCLeaves == {Element(n, b[1], b[2]) : n \in {"a", "b"}, b \in MCBounds}

(* One group of one or two elements.                                       *)
MCKinds == {"sequence", "choice"}

MCGroupBounds == {<<1, 1>>, <<0, 2>>, <<2, 2>>, <<1, Unbounded>>, <<2, 3>>, <<3, 4>>}

MCSingle == {Group(k, <<l>>, b) : k \in MCKinds, l \in MCLeaves, b \in MCGroupBounds}

MCFlat == MCSingle \cup {Group(k, <<l, m>>, b) : k \in MCKinds, l, m \in MCLeaves, b \in MCGroupBounds}

(* Elements, a substitution group's head, a wildcard, a prohibited element. *)
MCOthers ==
  {Element("a", 1, 1), Element("b", 0, 1), Element("a", 1, 2), Element("b", 0, 0),
   [kind |-> "element", name |-> "a", admits |-> {"a", "b"}, min |-> 1, max |-> 1],
   [kind |-> "wildcard", name |-> "*", admits |-> {"b"}, min |-> 0, max |-> Unbounded]}

(* A group in a group, beside an element.                                  *)
MCInner ==
  {Group(k, <<l, m>>, b) :
     k \in MCKinds, l \in MCOthers, m \in {Element("a", 1, 2), Element("b", 0, 1), Element("b", 0, 0)},
     b \in {<<1, 1>>, <<1, 2>>, <<2, 2>>, <<0, Unbounded>>}}

MCNested ==
  {Group(k, <<g, l>>, b) :
     k \in MCKinds, g \in MCInner, l \in {Element("a", 1, 1), Element("a", 1, 2), Element("b", 0, 1)},
     b \in {<<1, 1>>, <<1, 2>>, <<3, 3>>}}

(* An element that comes after a group that is copied or left open.        *)
MCRepeated ==
  {Group(k, <<l, m>>, b) :
     k \in MCKinds,
     l, m \in {Element("a", 0, 1), Element("a", 1, 2), Element("b", 1, 1), Element("b", 1, 2)},
     b \in {<<2, 2>>, <<2, 3>>, <<3, 3>>, <<1, Unbounded>>}}

MCFollowed ==
  {Group("sequence", <<g, Element(n, 1, 1)>>, <<1, 1>>) : g \in MCRepeated, n \in {"a", "b"}}

MCParticles == MCFlat \cup MCNested \cup MCFollowed

(* The automata a run starts with are made from its particle; these stand  *)
(* for the ones it could be handed.                                        *)
MCAutomata == {AutomatonOf(p) : p \in MCSingle}

==============================================================================
