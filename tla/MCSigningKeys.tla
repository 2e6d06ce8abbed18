--------------------------- MODULE MCSigningKeys ---------------------------
(* SigningKeys with one or two rotating callers, as the .cfg chooses.      *)
EXTENDS SigningKeys
=============================================================================
