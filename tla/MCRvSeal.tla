------------------------------ MODULE MCRvSeal ------------------------------
(* RvSeal with 2 of 3 shares.                                              *)
EXTENDS RvSeal
=============================================================================
