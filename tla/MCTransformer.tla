----------------------------- MODULE MCTransformer ------------------------------
(* Two handlers; a for_each is given each callback with and without limits. *)
EXTENDS Transformer

On(k, n) == [kind |-> k, limit |-> n]

MCRegistrations ==
  {<<On("node", 2), On("node", 1)>>,
   <<On("match", NoLimit), On("node", NoLimit)>>,
   <<On("node", NoLimit), On("match", 2)>>,
   <<On("node", 0), On("match", 1)>>}

==============================================================================
