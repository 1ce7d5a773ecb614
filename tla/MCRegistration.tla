--------------------------- MODULE MCRegistration ---------------------------
(* Registration for TLC.  Two requests and one address need three row ids. *)
EXTENDS Registration, TLC
=============================================================================
