---------------------------- MODULE MCSchemaLoaders ----------------------------
(* Nine URIs on two servers.  Server A's copy of g has moved to server B,  *)
(* and A/d/t to A/t.                                                       *)
EXTENDS SchemaLoaders

MCUris == {"A/m", "A/t", "A/g", "A/d/x", "A/d/y", "A/d/t", "A/d/?", "B/g", "B/t"}

MCTarget ==
  [u \in MCUris |-> CASE u = "A/g"   -> "B/g"
                      [] u = "A/d/t" -> "A/t"
                      [] OTHER       -> u]

MCLocations == {"t", "g", "d/t", "/t", "http://A/m", "http://B/g", "?"}

OnB == {"B/g", "B/t"}

(* Url::join: "/t" is taken from the server's root, and "?" stands for     *)
(* what cannot be joined.                                                  *)
MCResolve ==
  [base \in MCUris |->
    [l \in MCLocations |->
      CASE l = "http://A/m" -> "A/m"
        [] l = "http://B/g" -> "B/g"
        [] l = "?"          -> "none"
        [] l \in {"t", "/t"} -> IF base \in OnB THEN "B/t" ELSE "A/t"
        [] l = "g"           -> IF base \in OnB THEN "B/g" ELSE "A/g"
        [] l = "d/t"         -> "A/d/t"]]

(* Appended to the directory of the base, whatever it looks like; only x   *)
(* and y, which use "/t" and "?", are in one.                              *)
MCExportResolve ==
  [base \in MCUris |->
    [l \in MCLocations |->
      CASE l = "/t" /\ base \notin OnB -> IF base \in {"A/d/x", "A/d/y"} THEN "A/d/t" ELSE "A/t"
        [] l = "?"                     -> "A/d/?"
        [] OTHER                       -> MCResolve[base][l]]]

(* m imports g and includes t where t has moved from; t includes m again,  *)
(* g a t of its own; y imports g where g has moved from, and has a         *)
(* location that cannot be joined.                                         *)
MCReferences ==
  [d \in MCUris |->
    CASE d = "A/m"   -> <<"http://B/g", "d/t">>
      [] d = "A/t"   -> <<"http://A/m">>
      [] d = "A/d/x" -> <<"http://A/m", "/t">>
      [] d = "A/d/y" -> <<"g", "?">>
      [] d = "B/g"   -> <<"t">>
      [] d = "B/t"   -> <<>>
      [] OTHER       -> <<>>]

MCNamespaceOf == [d \in MCUris |-> IF d \in {"A/m", "A/t", "A/d/x", "A/d/y"} THEN "n" ELSE "g"]

For(n, u) == [namespace |-> n, location |-> u]

MCHintLists ==
  {<<>>,
   <<For("n", "A/m"), For("g", "A/g")>>,
   <<For("g", "B/g"), For("g", "A/g"), For("g", "B/t")>>,
   <<For("n", "A/d/y"), For("g", "B/t")>>,
   <<For("no", "A/g"), For("n", "A/d/x")>>}
==============================================================================
