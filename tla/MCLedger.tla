------------------------------ MODULE MCLedger ------------------------------
(***************************************************************************)
(* Model-checking instance of LedgerWorkflow: values and symmetry.         *)
(***************************************************************************)
EXTENDS LedgerProperties, TLC

\* Users, transaction ids and organizations are interchangeable.
Symmetry == Permutations(Users) \cup Permutations(TxIds) \cup Permutations(Orgs)

\* One category is created at most, for the expenses of an organization.
FewCategories ==
    LET created == {c \in categories : c.name # OtherCategory}
    IN  /\ \A c, d \in created : c = d
        /\ \A c \in created : c.ledger \in Orgs /\ c.kind = "Expense"
=============================================================================
