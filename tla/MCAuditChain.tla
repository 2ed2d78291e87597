---------------------------- MODULE MCAuditChain ----------------------------
(***************************************************************************)
(* Model-checking instance of AuditChain: two organizations with old rows  *)
(* in the audit table, the platform without.                               *)
(***************************************************************************)
EXTENDS AuditChain, TLC

CONSTANTS org, shop, r1, r2, r3, d1, d2, a1, a2

Event(source, name, scope, at) == [source |-> source, name |-> name, scope |-> scope, at |-> at]

\* Times with a part the table does not keep.
MCLegacyRows == <<Event("legacy", r1, org, 2), Event("legacy", r2, shop, 4),
                  Event("legacy", r3, org, 6)>>
MCDomainEvents == {Event("domain", d1, org, 7), Event("domain", d2, org, 9)}
MCSecurityEvents == {Event("security", a1, org, 8), Event("security", a2, Platform, 8)}

Symmetry == Permutations(Writers)
=============================================================================
