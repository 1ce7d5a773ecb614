-------------------------- MODULE SessionFamilies --------------------------
(***************************************************************************)
(* What the refresh-token store promises, family by family: a session is   *)
(* opened once, has exactly one refresh token that works while it lives,   *)
(* hands that token's role to a token never used before at each rotation,  *)
(* and is closed for good.  Sessions implements it.                        *)
(***************************************************************************)
CONSTANTS Tokens, Families, None

VARIABLES
    current,    \* the refresh token of each family that works, None if none
    opened,     \* the families that have had one
    used        \* the tokens that have been some family's

fvars == <<current, opened, used>>

FInit ==
    /\ current = [f \in Families |-> None]
    /\ opened = {}
    /\ used = {}

Open(f, t) ==
    /\ f \notin opened
    /\ t \notin used
    /\ current' = [current EXCEPT ![f] = t]
    /\ opened' = opened \union {f}
    /\ used' = used \union {t}

Rotate(f, t) ==
    /\ current[f] # None
    /\ t \notin used
    /\ current' = [current EXCEPT ![f] = t]
    /\ used' = used \union {t}
    /\ UNCHANGED opened

\* One statement may close the sessions of a family, of a user, or all that
\* have expired.
Close(F) ==
    /\ current' = [f \in Families |-> IF f \in F THEN None ELSE current[f]]
    /\ UNCHANGED <<opened, used>>

FNext ==
    \/ \E f \in Families, t \in Tokens : Open(f, t) \/ Rotate(f, t)
    \/ \E F \in SUBSET Families : Close(F)

FSpec == FInit /\ [][FNext]_fvars
=============================================================================
