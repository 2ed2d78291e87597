--------------------------- MODULE LedgerWorkflow ---------------------------
(***************************************************************************)
(* The accounting service of CloudLedger (cloudledger-service, app.rs):    *)
(* organizations and their members, personal and public ledgers, and the   *)
(* life of a transaction from application to approval, payment, receipt    *)
(* and voiding, with the audit log that every step on a public ledger      *)
(* writes.                                                                 *)
(*                                                                         *)
(* One action is one call of the service: the server clones the state,     *)
(* runs the call on the clone under its write gate and publishes the clone *)
(* when the call returns Ok, so a call that returns Err changes nothing    *)
(* and its guard is the conjunction of the code's early returns.           *)
(*                                                                         *)
(* A personal ledger is identified with its owner and a public ledger with *)
(* its organization, because the service creates exactly one of each.      *)
(* Timestamps are left out: an actor field and its timestamp are assigned  *)
(* together.  No service call sets deleted_at, so it is left out too.      *)
(***************************************************************************)
EXTENDS Integers, Sequences, FiniteSets, Functions, Permissions

CONSTANTS
    Users,          \* people, each with one login identity
    Orgs,           \* organizations, and so public ledgers
    TxIds,          \* identifiers Uuid::new_v4 can draw for transactions
    MutationIds,    \* identifiers a client attaches to a creation request
    AccountKinds,   \* the standard accounts of a ledger
    CategoryNames,  \* category names, up to the case of their letters
    OtherCategory,  \* the fallback category of either direction
    Amounts,        \* amounts in minor units; the service accepts any i64
    None            \* the absent Option

ASSUME LedgerConstants ==
    /\ Users \cap Orgs = {}
    /\ None \notin Users \cup MutationIds \cup MembershipRole
    /\ OtherCategory \in CategoryNames
    /\ Amounts \subseteq Int

VARIABLES
    users,          \* users the ledger service knows
    organizations,  \* organizations that exist
    memberships,    \* the role of each user in each organization, or None
    ledgers,        \* ledgers that exist
    categories,     \* categories that exist
    transactions,   \* the record of each transaction, or None
    audit_logs      \* for each transaction, the audit events about it in order

vars == <<users, organizations, memberships, ledgers, categories,
          transactions, audit_logs>>

-----------------------------------------------------------------------------
(* Types.                                                                  *)

Ledgers == Users \cup Orgs

CategoryKind == {"Income", "Expense"}

TransactionKind == {"Income", "Expense", "Transfer"}

ApprovalState == {"Draft", "Submitted", "Approved", "Rejected", "Voided"}

PaymentState == {"NotApplicable", "PendingPayment", "PaidPendingReceipt", "Received"}

Account == [ledger : Ledgers, kind : AccountKinds]

Category == [ledger : Ledgers, kind : CategoryKind, name : CategoryNames]

OptUser == Users \cup {None}

Transaction ==
    [client_mutation_id : MutationIds \cup {None},
     ledger : Ledgers, account : Account, category : Category,
     kind : TransactionKind, amount : Amounts,
     approval_state : ApprovalState, payment_state : PaymentState,
     created_by : Users, submitted_by : OptUser, approved_by : OptUser,
     paid_by : OptUser, received_by : OptUser, version : Nat]

ASSUME NoTransaction == None \notin Transaction

\* The action names of the audit events about a transaction, without their
\* common prefix "transaction.".
AuditAction ==
    {"submitted", "auto_approved", "approved", "rejected", "paid", "received", "voided"}

AuditLog == [action : AuditAction, actor : Users]

TypeOK ==
    /\ users \subseteq Users
    /\ organizations \subseteq Orgs
    /\ memberships \in [Orgs -> [Users -> MembershipRole \cup {None}]]
    /\ ledgers \subseteq Ledgers
    /\ categories \subseteq Category
    /\ transactions \in [TxIds -> Transaction \cup {None}]
    /\ audit_logs \in [TxIds -> Seq(AuditLog)]

-----------------------------------------------------------------------------
(* Queries of the service.                                                 *)

Existing == {t \in TxIds : transactions[t] # None}

authorized(u, l, action) ==
    IF l \in Orgs
    THEN action \in can_perform_organization(memberships[l][u])
    ELSE l = u /\ action \in PersonalActions

owner_count(o) == Cardinality({u \in Users : memberships[o][u] = "Owner"})

BusinessOwners(o) ==
    {u \in Users : memberships[o][u] \in {"BusinessOwner", "Approver"}}

business_owner_count(o) == Cardinality(BusinessOwners(o))

\* Mutant: only a demotion to Employee and a removal are looked at.
LastOwnerMayChangeSides(o, u, role) ==
    memberships[o][u] = "Owner" /\ role \in {"Employee", None} /\ owner_count(o) <= 1

\* The change of u's role (None: removal) would leave o without an Owner.
LastOwnerDenied(o, u, role) ==
    memberships[o][u] = "Owner" /\ role # "Owner" /\ owner_count(o) <= 1

\* Mutant: the client's mutation id is ignored.
NeverRecorded(u, l, m) == FALSE

\* The applicant has already recorded this mutation on this ledger.
AlreadyRecorded(u, l, m) ==
    /\ m # None
    /\ \E t \in Existing :
          /\ transactions[t].ledger = l
          /\ transactions[t].created_by = u
          /\ transactions[t].client_mutation_id = m

can_view_balances(u, l) ==
    IF l \in Orgs THEN u \in BusinessOwners(l) ELSE l = u

transaction_visible_to_actor(u, t) ==
    LET tx == transactions[t]
    IN  /\ authorized(u, tx.ledger, "ViewLedger")
        /\ \/ can_view_balances(u, tx.ledger)
           \/ tx.ledger \in Orgs /\ tx.created_by = u

\* Mutant: an audit event about a transaction is shown to every member.
AuditVisibleToMembers(u, t) == transactions[t].ledger \in Ledgers

audit_visible_to_actor(u, t) ==
    \/ can_view_balances(u, transactions[t].ledger)
    \/ transactions[t].ledger \notin Orgs
    \/ transaction_visible_to_actor(u, t)

\* The audit events of the overview: the ledger must be visible and its audit
\* log open to the actor, besides the filter on the event.
overview_shows_audit(u, t) ==
    /\ authorized(u, transactions[t].ledger, "ViewLedger")
    /\ authorized(u, transactions[t].ledger, "ViewAuditLog")
    /\ audit_visible_to_actor(u, t)

\* Mutant: an expense is posted as soon as it is approved.
PostedWhenApproved(tx) ==
    tx.approval_state = "Approved" /\ tx.kind \in {"Income", "Expense"}

transaction_affects_balance(tx) ==
    /\ tx.approval_state = "Approved"
    /\ \/ tx.kind = "Income"
       \/ tx.kind = "Expense" /\ tx.payment_state # "PendingPayment"

SignedAmount(tx) == IF tx.kind = "Income" THEN tx.amount ELSE -tx.amount

\* Every account is opened with a zero balance.
account_balance_minor(account) ==
    LET booked == {t \in Existing : /\ transactions[t].account = account
                                    /\ transaction_affects_balance(transactions[t])}
    IN  SumFunction([t \in booked |-> SignedAmount(transactions[t])])

DefaultCategories(l) ==
    {[ledger |-> l, kind |-> k, name |-> OtherCategory] : k \in CategoryKind}

-----------------------------------------------------------------------------
(* Organizations, people and categories.                                   *)

Init ==
    /\ users = {}
    /\ organizations = {}
    /\ memberships = [o \in Orgs |-> [u \in Users |-> None]]
    /\ ledgers = {}
    /\ categories = {}
    /\ transactions = [t \in TxIds |-> None]
    /\ audit_logs = [t \in TxIds |-> <<>>]

\* The platform creates an organization with a fresh administrator account,
\* who becomes its technical Owner and gets no personal ledger.
create_organization(o, admin) ==
    /\ o \notin organizations
    /\ admin \notin users
    /\ users' = users \cup {admin}
    /\ organizations' = organizations \cup {o}
    /\ memberships' = [memberships EXCEPT ![o][admin] = "Owner"]
    /\ ledgers' = ledgers \cup {o}
    /\ categories' = categories \cup DefaultCategories(o)
    /\ UNCHANGED <<transactions, audit_logs>>

\* Login, token refresh and a profile change of a business account make sure
\* the user and its personal ledger exist.  The user is new to the ledger only
\* when its account stems from the time of open registration.  Administrators
\* cannot log in as business users.
ensure_user_identity(u) ==
    /\ \A o \in Orgs : memberships[o][u] # "Owner"
    /\ users' = users \cup {u}
    /\ ledgers' = ledgers \cup {u}
    /\ categories' = categories \cup DefaultCategories(u)
    /\ UNCHANGED <<organizations, memberships, transactions, audit_logs>>

\* The roles the admin backend assigns (require_employee_role).
EmployeeRoles == {"BusinessOwner", "Employee"}

\* Adding a person who is already a member changes the role.
add_organization_member(o, u, role) ==
    /\ o \in organizations
    /\ role \in EmployeeRoles
    /\ \A p \in Orgs \ {o} : memberships[p][u] = None
    /\ ~LastOwnerDenied(o, u, role)
    /\ users' = users \cup {u}
    /\ ledgers' = ledgers \cup {u}
    /\ categories' = categories \cup DefaultCategories(u)
    /\ memberships' = [memberships EXCEPT ![o][u] = role]
    /\ UNCHANGED <<organizations, transactions, audit_logs>>

\* require_business_member: administrators are not managed as employees.
BusinessMember(o, u) == memberships[o][u] \notin {None, "Owner", "Admin"}

update_organization_member_role(o, u, role) ==
    /\ o \in organizations
    /\ role \in EmployeeRoles
    /\ BusinessMember(o, u)
    /\ ~LastOwnerDenied(o, u, role)
    /\ memberships' = [memberships EXCEPT ![o][u] = role]
    /\ UNCHANGED <<users, organizations, ledgers, categories, transactions, audit_logs>>

\* Removal leaves the person's transactions and personal ledger in place.
remove_organization_member(o, u) ==
    /\ o \in organizations
    /\ BusinessMember(o, u)
    /\ ~LastOwnerDenied(o, u, None)
    /\ memberships' = [memberships EXCEPT ![o][u] = None]
    /\ UNCHANGED <<users, organizations, ledgers, categories, transactions, audit_logs>>

create_category(u, l, kind, name) ==
    /\ l \in ledgers
    /\ authorized(u, l, "CreateTransaction")
    /\ [ledger |-> l, kind |-> kind, name |-> name] \notin categories
    /\ categories' = categories \cup {[ledger |-> l, kind |-> kind, name |-> name]}
    /\ UNCHANGED <<users, organizations, memberships, ledgers, transactions, audit_logs>>

-----------------------------------------------------------------------------
(* The life of a transaction.                                              *)

\* AuditLog::new pushed to the log.
Logged(log, action, u) == Append(log, [action |-> action, actor |-> u])

\* Append an audit event about t.
Record(t, action, u) ==
    audit_logs' = [audit_logs EXCEPT ![t] = Logged(audit_logs[t], action, u)]

TransactionUnchanged == UNCHANGED <<users, organizations, memberships, ledgers, categories>>

\* Mutant: the payment state is left unset until the approval.
DraftWithoutPaymentState(u, l, account, category, kind, amount, m) ==
    [client_mutation_id |-> m, ledger |-> l, account |-> account,
     category |-> category, kind |-> kind, amount |-> amount,
     approval_state |-> "Draft", payment_state |-> None,
     created_by |-> u, submitted_by |-> None, approved_by |-> None,
     paid_by |-> None, received_by |-> None, version |-> 1]

\* Transaction::draft with the client's mutation id.
draft(u, l, account, category, kind, amount, m) ==
    [client_mutation_id |-> m, ledger |-> l, account |-> account,
     category |-> category, kind |-> kind, amount |-> amount,
     approval_state |-> "Draft", payment_state |-> "NotApplicable",
     created_by |-> u, submitted_by |-> None, approved_by |-> None,
     paid_by |-> None, received_by |-> None, version |-> 1]

\* An approved expense waits for payment; an income has nothing to pay.
PaymentOnApproval(tx) ==
    IF tx.kind = "Expense" THEN "PendingPayment" ELSE tx.payment_state

\* The single business owner's entries need no second person.
AutoApprove(u, o) == u \in BusinessOwners(o) /\ business_owner_count(o) = 1

\* The category given by the client, or the fallback of the ledger.
ChosenCategory(l, kind, category) ==
    IF category = None
    THEN [ledger |-> l, kind |-> kind, name |-> OtherCategory]
    ELSE category

\* The single owner's entry, another member's application, a personal entry.
AutoApproved(new, u) ==
    [new EXCEPT !.submitted_by = u, !.approval_state = "Approved",
                !.payment_state = PaymentOnApproval(new)]

Submitted(new, u) == [new EXCEPT !.submitted_by = u, !.approval_state = "Submitted"]

PersonalEntry(new, u) == [new EXCEPT !.approved_by = u, !.approval_state = "Approved"]

create_transaction(t, u, l, account, category, kind, amount, m) ==
    LET chosen == ChosenCategory(l, kind, category)
        new    == draft(u, l, account, chosen, kind, amount, m)
    IN  /\ transactions[t] = None
        /\ l \in ledgers /\ account.ledger = l
        /\ authorized(u, l, "CreateTransaction")
        /\ kind # "Transfer"
        /\ chosen \in categories /\ chosen.ledger = l /\ chosen.kind = kind
        /\ ~AlreadyRecorded(u, l, m)
        /\ \/ /\ l \in Orgs /\ AutoApprove(u, l)
              /\ transactions' = [transactions EXCEPT ![t] = AutoApproved(new, u)]
              /\ Record(t, "auto_approved", u)
           \/ /\ l \in Orgs /\ ~AutoApprove(u, l)
              /\ transactions' = [transactions EXCEPT ![t] = Submitted(new, u)]
              /\ Record(t, "submitted", u)
           \/ /\ l \notin Orgs
              /\ transactions' = [transactions EXCEPT ![t] = PersonalEntry(new, u)]
              /\ UNCHANGED audit_logs
        /\ TransactionUnchanged

\* Mutant: the check that the decider is not the applicant is missing.
NobodyIsApplicant(u, tx) == FALSE

\* A decision on one's own application is denied.
SelfApproval(u, tx) == tx.submitted_by = u \/ tx.created_by = u

Approved(tx, u) ==
    [tx EXCEPT !.approval_state = "Approved", !.approved_by = u,
               !.payment_state = PaymentOnApproval(tx), !.version = @ + 1]

\* Mutant: a rejection leaves the version as it was.
RejectedSameVersion(tx) == [tx EXCEPT !.approval_state = "Rejected"]

Rejected(tx) == [tx EXCEPT !.approval_state = "Rejected", !.version = @ + 1]

\* A rejection needs a note, which only the error path looks at.
decide_approval(t, u, decision) ==
    LET tx == transactions[t]
    IN  /\ tx # None
        /\ tx.approval_state = "Submitted"
        /\ authorized(u, tx.ledger, "ApproveTransaction")
        /\ ~SelfApproval(u, tx)
        /\ \/ /\ decision = "Approve"
              /\ transactions' = [transactions EXCEPT ![t] = Approved(tx, u)]
              /\ Record(t, "approved", u)
           \/ /\ decision = "Reject"
              /\ transactions' = [transactions EXCEPT ![t] = Rejected(tx)]
              /\ Record(t, "rejected", u)
        /\ TransactionUnchanged

\* Mutant: voiding also accepts a transaction that was rejected.
VoidableOrRejected(tx) == tx.approval_state \in {"Approved", "Rejected"}

Voidable(tx) == tx.approval_state = "Approved"

\* Voiding keeps the payment and receipt facts.
Voided(tx) == [tx EXCEPT !.approval_state = "Voided", !.version = @ + 1]

void_transaction(t, u) ==
    LET tx == transactions[t]
    IN  /\ tx # None
        /\ tx.ledger \in Orgs
        /\ authorized(u, tx.ledger, "VoidTransaction")
        /\ Voidable(tx)
        /\ transactions' = [transactions EXCEPT ![t] = Voided(tx)]
        /\ Record(t, "voided", u)
        /\ TransactionUnchanged

\* Mutant: the approval state is not looked at.
PayableOnceApproved(tx) == tx.payment_state = "PendingPayment"

Payable(tx) == tx.approval_state = "Approved" /\ tx.payment_state = "PendingPayment"

\* Mutant: a payment leaves the version as it was.
PaidKeepsVersion(tx, u) ==
    [tx EXCEPT !.payment_state = "PaidPendingReceipt", !.paid_by = u]

Paid(tx, u) ==
    [tx EXCEPT !.payment_state = "PaidPendingReceipt", !.paid_by = u, !.version = @ + 1]

mark_transaction_paid(t, u) ==
    LET tx == transactions[t]
    IN  /\ tx # None
        /\ authorized(u, tx.ledger, "MarkTransactionPaid")
        /\ Payable(tx)
        /\ transactions' = [transactions EXCEPT ![t] = Paid(tx, u)]
        /\ Record(t, "paid", u)
        /\ TransactionUnchanged

\* Mutant: a receipt is confirmed before the payment.
ReceivableOnceApproved(tx) ==
    /\ tx.approval_state = "Approved"
    /\ tx.payment_state \in {"PendingPayment", "PaidPendingReceipt"}

Receivable(tx) ==
    tx.approval_state = "Approved" /\ tx.payment_state = "PaidPendingReceipt"

Received(tx, u) ==
    [tx EXCEPT !.payment_state = "Received", !.received_by = u, !.version = @ + 1]

confirm_transaction_receipt(t, u) ==
    LET tx == transactions[t]
    IN  /\ tx # None
        /\ tx.created_by = u
        /\ authorized(u, tx.ledger, "ConfirmReceipt")
        /\ Receivable(tx)
        /\ transactions' = [transactions EXCEPT ![t] = Received(tx, u)]
        /\ Record(t, "received", u)
        /\ TransactionUnchanged

-----------------------------------------------------------------------------

ManageNext ==
    \/ \E o \in Orgs, u \in Users : create_organization(o, u)
    \/ \E u \in Users : ensure_user_identity(u)
    \/ \E o \in Orgs, u \in Users, role \in EmployeeRoles :
          \/ add_organization_member(o, u, role)
          \/ update_organization_member_role(o, u, role)
    \/ \E o \in Orgs, u \in Users : remove_organization_member(o, u)
    \/ \E u \in Users, l \in Ledgers, kind \in CategoryKind, name \in CategoryNames :
          create_category(u, l, kind, name)

CreateNext ==
    \E t \in TxIds, u \in Users, l \in Ledgers, account \in Account,
       category \in Category \cup {None}, kind \in TransactionKind,
       amount \in Amounts, m \in MutationIds \cup {None} :
          create_transaction(t, u, l, account, category, kind, amount, m)

DecideNext ==
    \E t \in TxIds, u \in Users :
       \/ \E decision \in {"Approve", "Reject"} : decide_approval(t, u, decision)
       \/ void_transaction(t, u)
       \/ mark_transaction_paid(t, u)
       \/ confirm_transaction_receipt(t, u)

Next == ManageNext \/ CreateNext \/ DecideNext

Spec == Init /\ [][Next]_vars
=============================================================================
