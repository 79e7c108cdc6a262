----------------------------- MODULE MCFileCache -----------------------------
(* A document at "b" that "a" redirects to, on a server that changes it.   *)
(* Two callers of one process ask for it through the redirect, and one of  *)
(* another process directly; the processes share the cache directory.      *)
EXTENDS FileCache, TLC

CONSTANTS t1, t2, t3, f1, f2

MCUrls == {"a", "b"}

MCOwner == (t1 :> f1) @@ (t2 :> f1) @@ (t3 :> f2)

MCAsks == (t1 :> {"a"}) @@ (t2 :> {"a"}) @@ (t3 :> {"b"})

MCSymmetry == Permutations({t1, t2})

(* No two URLs share a hash.                                               *)
MCHashOf == [u \in MCUrls |-> IF u = "a" THEN 1 ELSE 2]

(* "a" always redirects to "b".                                            *)
MCTarget == [u \in MCUrls |-> [v \in 0 .. MaxVersion |-> "b"]]

==============================================================================
