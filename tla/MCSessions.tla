----------------------------- MODULE MCSessions -----------------------------
(* Sessions on small sets.  In the runs without liveness, the tokens, the  *)
(* families and the request slots are interchangeable.                     *)
EXTENDS Sessions, TLC

Symmetric ==
    Permutations(Tokens) \union Permutations(Families) \union Permutations(Requests)
=============================================================================
