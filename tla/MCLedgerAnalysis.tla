-------------------------- MODULE MCLedgerAnalysis --------------------------
(***************************************************************************)
(* Model-checking instance of LedgerAnalysis: two documents of older       *)
(* schemas, each with an organization of three people and one expense.     *)
(***************************************************************************)
EXTENDS LedgerAnalysis, TLC

CONSTANTS admin, boss, clerk, org, oldtx, cash

Roles(manager, employee) ==
    [o \in Orgs |-> [u \in Users |-> CASE u = admin -> "Owner"
                                       [] u = boss -> manager
                                       [] u = clerk -> employee]]

\* An expense of the clerk without a category, in the states given.
OldExpense(approval, payment) ==
    [client_mutation_id |-> None, ledger |-> org,
     account |-> [ledger |-> org, kind |-> cash], category |-> None,
     kind |-> "Expense", amount |-> 3, approval_state |-> approval,
     payment_state |-> payment, created_by |-> clerk, submitted_by |-> clerk,
     approved_by |-> boss, paid_by |-> None, received_by |-> None, version |-> 2]

Event(action, u) == [action |-> action, actor |-> u]

Document(version, manager, employee, expense, approved_at) ==
    [schema_version |-> version, users |-> Users, organizations |-> {org},
     ledgers |-> {org, boss, clerk}, memberships |-> Roles(manager, employee),
     categories |-> {c \in Category : c.name # OtherCategory},
     transactions |-> [t \in TxIds |-> IF t = oldtx THEN expense ELSE None],
     audit_logs |-> [t \in TxIds |-> IF t = oldtx THEN <<Event("submitted", clerk),
                                                      Event("approved", boss)>> ELSE <<>>],
     stamps |-> [t \in TxIds |-> IF t = oldtx
                    THEN [NoStamps EXCEPT !.occurred_at = 0, !.approved_at = approved_at]
                    ELSE NoStamps],
     updated_at |-> [t \in TxIds |-> IF t = oldtx THEN 2 ELSE None],
     latest |-> [t \in TxIds |-> IF t = oldtx THEN 2 ELSE None]]

\* Schema 1 knew no payments; schema 2 knew no categories.
MCLegacyDocuments ==
    {Document(1, "Approver", "Member", OldExpense("Approved", "NotApplicable"), None),
     Document(2, "BusinessOwner", "Employee", OldExpense("Approved", "PendingPayment"), 2)}

\* Who decided, paid or voided is read by no guard and no report: states that
\* differ in those names only are taken as one.
Anonymous(tx) ==
    IF tx = None THEN None
    ELSE [tx EXCEPT !.approved_by = (@ # None), !.paid_by = (@ # None)]

View == <<memberships, categories, stamps, latest, now,
          [t \in TxIds |-> Anonymous(transactions[t])],
          [t \in TxIds |-> Len(audit_logs[t])]>>
=============================================================================
