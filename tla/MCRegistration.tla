--------------------------- MODULE MCRegistration ----------------------------
(* Registration with the constants of its configurations.                   *)
EXTENDS Registration
=============================================================================
