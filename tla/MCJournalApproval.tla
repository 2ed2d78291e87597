------------------------- MODULE MCJournalApproval -------------------------
(***************************************************************************)
(* Model-checking instance of JournalApproval: a company's book.           *)
(***************************************************************************)
EXTENDS JournalApproval, TLC

CONSTANTS clerk, chief, owner

Line(side, amount, currency) == [side |-> side, amount |-> amount, currency |-> currency]

\* A small and a large entry, and one of each kind that validate refuses.
MCDrafts ==
    {<<Line("Debit", 2, "CNY"), Line("Credit", 2, "CNY")>>,
     <<Line("Debit", 9, "CNY"), Line("Credit", 4, "CNY"), Line("Credit", 5, "CNY")>>,
     <<Line("Debit", 2, "CNY"), Line("Credit", 1, "CNY")>>,
     <<Line("Debit", 2, "CNY")>>,
     <<Line("Debit", 0, "CNY"), Line("Credit", 0, "CNY")>>,
     <<Line("Debit", 2, "CNY"), Line("Credit", 2, "USD")>>}

MCBook ==
    [kind |-> "CompanyPublic", owner |-> None,
     company_entries_require_approval |-> TRUE,
     high_value_threshold |-> [currency |-> "CNY", minor_units |-> 9],
     min_approvals |-> 2]

MCMembers ==
    {[user |-> clerk, role |-> "Bookkeeper"], [user |-> chief, role |-> "Approver"],
     [user |-> owner, role |-> "Owner"]}

MCNewMembers == {[user |-> clerk, role |-> "Approver"]}

Symmetry == Permutations(Callers)
=============================================================================
