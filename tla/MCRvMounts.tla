----------------------------- MODULE MCRvMounts -----------------------------
(* RvMounts on a secret path with one below it, another, and an auth path. *)
EXTENDS RvMounts

CONSTANTS team, teamA, kv, ldap

Paths == {team, teamA, kv, ldap}
Auths == {ldap}
Nested == {<<team, teamA>>}
=============================================================================
