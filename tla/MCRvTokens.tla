----------------------------- MODULE MCRvTokens -----------------------------
(* RvTokens with the root token, one that was stored and two generated.    *)
EXTENDS RvTokens
=============================================================================
