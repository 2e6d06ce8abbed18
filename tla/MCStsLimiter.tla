---------------------------- MODULE MCStsLimiter ----------------------------
(* StsLimiter with one or two callers, as the .cfg chooses.                *)
EXTENDS StsLimiter
=============================================================================
