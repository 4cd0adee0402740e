------------------------------ MODULE MCOrgFile -------------------------------
(* Instances of OrgFile for TLC. *)
EXTENDS OrgFile

CONSTANTS c1, c2, j1, j2, s1, s2

=============================================================================
