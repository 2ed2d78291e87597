-------------------------- MODULE LedgerProperties --------------------------
(***************************************************************************)
(* The correctness properties of LedgerWorkflow.                           *)
(***************************************************************************)
EXTENDS LedgerWorkflow

PublicTx == {t \in TxIds : transactions[t] # None /\ transactions[t].ledger \in Orgs}

\* The log holds an event with this action, or this event.
Happened(log, action) == \E i \in DOMAIN log : log[i].action = action

DoneBy(log, action, u) == \E i \in DOMAIN log : log[i] = [action |-> action, actor |-> u]

\* The approval and payment state that the audit log alone tells.
ApprovalFromLog(log) ==
    IF Happened(log, "voided") THEN "Voided"
    ELSE IF Happened(log, "rejected") THEN "Rejected"
    ELSE IF Happened(log, "approved") \/ Happened(log, "auto_approved") THEN "Approved"
    ELSE "Submitted"

PaymentFromLog(kind, log) ==
    IF kind = "Income" THEN "NotApplicable"
    ELSE IF Happened(log, "received") THEN "Received"
    ELSE IF Happened(log, "paid") THEN "PaidPendingReceipt"
    ELSE IF Happened(log, "approved") \/ Happened(log, "auto_approved") THEN "PendingPayment"
    ELSE "NotApplicable"

LogTells(tx, log) ==
    /\ tx.version = Len(log)
    /\ tx.approval_state = ApprovalFromLog(log)
    /\ tx.payment_state = PaymentFromLog(tx.kind, log)
    /\ \A u \in Users :
          /\ tx.approved_by = u <=> DoneBy(log, "approved", u)
          /\ tx.paid_by = u <=> DoneBy(log, "paid", u)
          /\ tx.received_by = u <=> DoneBy(log, "received", u)
          /\ tx.created_by = u <=> \/ DoneBy(log, "submitted", u)
                                   \/ DoneBy(log, "auto_approved", u)

(***************************************************************************)
(* A transaction on a public ledger can be rebuilt from its audit log: the *)
(* log has one event for every version, and the approval state, the        *)
(* payment state and every actor of the record are the ones it tells.      *)
(* Each of create_transaction, decide_approval, mark_transaction_paid,     *)
(* confirm_transaction_receipt and void_transaction writes both.           *)
(***************************************************************************)
AuditLogTellsState == \A t \in PublicTx : LogTells(transactions[t], audit_logs[t])

\* The events that may follow an event of the audit log of a transaction of
\* this kind; "none" stands for the beginning.
FollowUps(kind, action) ==
    CASE action = "none" -> {"submitted", "auto_approved"}
      [] action = "submitted" -> {"approved", "rejected"}
      [] action \in {"approved", "auto_approved"} ->
            {"voided"} \cup (IF kind = "Expense" THEN {"paid"} ELSE {})
      [] action = "paid" -> {"received", "voided"}
      [] action = "received" -> {"voided"}
      [] OTHER -> {}

LogFollows(kind, log) ==
    \A i \in DOMAIN log :
        log[i].action \in FollowUps(kind, IF i = 1 THEN "none" ELSE log[i - 1].action)

(***************************************************************************)
(* The audit log of every transaction is a path of the workflow: nothing   *)
(* is paid before it is approved, received before it is paid, decided      *)
(* twice, or touched once rejected or voided, in whatever order owners,    *)
(* applicants and administrators act.                                      *)
(***************************************************************************)
AuditLogFollowsWorkflow ==
    \A t \in PublicTx : LogFollows(transactions[t].kind, audit_logs[t])

DutiesOf(tx, log) ==
    \A u \in Users :
        /\ DoneBy(log, "approved", u) \/ DoneBy(log, "rejected", u) =>
              tx.created_by # u /\ ~DoneBy(log, "submitted", u)
        /\ DoneBy(log, "received", u) => tx.created_by = u

(***************************************************************************)
(* Separation of duties: whoever approved or rejected an application did   *)
(* not submit it, and a receipt was confirmed by the applicant, even when  *)
(* roles changed or people left between the steps.                         *)
(***************************************************************************)
DutiesSeparated == \A t \in PublicTx : DutiesOf(transactions[t], audit_logs[t])

\* What the audit log says has moved money and was not taken back; a personal
\* ledger has no audit log and its entries are final.
BookedFromLog(t) ==
    LET log == audit_logs[t]
    IN  t \in PublicTx =>
            /\ IF transactions[t].kind = "Income"
               THEN Happened(log, "approved") \/ Happened(log, "auto_approved")
               ELSE Happened(log, "paid")
            /\ ~Happened(log, "voided")

\* The transactions that count in a balance are exactly those whose audit log
\* shows an approved income or a paid expense that was not voided.
PostedAsLogged ==
    \A t \in Existing :
        transaction_affects_balance(transactions[t]) <=> BookedFromLog(t)

(***************************************************************************)
(* The balance that account_balance_minor shows is the sum of what the     *)
(* audit log says was earned or paid out and not voided.                   *)
(***************************************************************************)
BalanceFollowsLog ==
    \A account \in Account :
        account_balance_minor(account) =
            LET booked == {t \in Existing : /\ transactions[t].account = account
                                            /\ BookedFromLog(t)}
            IN  SumFunction([t \in booked |-> SignedAmount(transactions[t])])

(***************************************************************************)
(* A creation request that is sent again, by a retry or by the offline     *)
(* queue, is recorded once: no two transactions carry the same mutation id *)
(* of the same person on the same ledger.                                  *)
(***************************************************************************)
MutationRecordedOnce ==
    \A s, t \in Existing :
        /\ s # t
        /\ transactions[s].client_mutation_id # None
        /\ transactions[s].client_mutation_id = transactions[t].client_mutation_id
        /\ transactions[s].created_by = transactions[t].created_by
        => transactions[s].ledger # transactions[t].ledger

(***************************************************************************)
(* Every organization keeps its technical Owner through any sequence of    *)
(* additions, role changes and removals, nobody belongs to two             *)
(* organizations, and an Owner never has a personal ledger.                *)
(***************************************************************************)
OwnersKept ==
    /\ \A o \in organizations : \E u \in Users : memberships[o][u] = "Owner"
    /\ \A o, p \in Orgs, u \in Users :
          memberships[o][u] # None /\ memberships[p][u] # None => o = p
    /\ \A o \in Orgs, u \in Users : memberships[o][u] = "Owner" => u \notin ledgers

(***************************************************************************)
(* Administration and business never mix: whoever is the Owner of an       *)
(* organization has not applied for, decided, paid, received or voided     *)
(* anything, on any ledger, at any time before.                            *)
(***************************************************************************)
AdministratorsNeverAct ==
    \A o \in Orgs, u \in Users : memberships[o][u] = "Owner" =>
        /\ \A t \in Existing : transactions[t].created_by # u
        /\ \A t \in TxIds : \A i \in DOMAIN audit_logs[t] : audit_logs[t][i].actor # u

\* A membership row: foreign keys and the role check.
MembershipRowsFit ==
    \A o \in Orgs, u \in Users : memberships[o][u] # None =>
        /\ o \in organizations /\ u \in users
        /\ memberships[o][u] \in {"Owner", "Admin", "BusinessOwner", "Employee"}

Actors(tx) ==
    {tx.created_by, tx.submitted_by, tx.approved_by, tx.paid_by, tx.received_by} \ {None}

\* The check of migration 0002 on payment states and their actors.
PaymentRowFits(tx) ==
    \/ /\ tx.payment_state \in {"NotApplicable", "PendingPayment"}
       /\ tx.paid_by = None /\ tx.received_by = None
    \/ /\ tx.payment_state = "PaidPendingReceipt"
       /\ tx.paid_by # None /\ tx.received_by = None
    \/ /\ tx.payment_state = "Received"
       /\ tx.received_by # None

\* The foreign keys of a transaction row, and its category.
ForeignKeysFit(tx) ==
    /\ tx.ledger \in ledgers
    /\ Actors(tx) \subseteq users
    /\ tx.category \in categories
    /\ tx.category.ledger = tx.ledger /\ tx.category.kind = tx.kind

(***************************************************************************)
(* Every state the service publishes can be stored: the rows satisfy the   *)
(* foreign keys of the PostgreSQL schema, the check on payment states and  *)
(* their actors (migration 0002) and the role check of memberships, and    *)
(* the category of a transaction is one of its ledger and direction.       *)
(***************************************************************************)
RowsFitSchema ==
    /\ MembershipRowsFit
    /\ \A t \in Existing :
          ForeignKeysFit(transactions[t]) /\ PaymentRowFits(transactions[t])

(***************************************************************************)
(* Both views of a public ledger agree for every reader and every role:    *)
(* the overview shows the audit events of a transaction exactly to those   *)
(* it shows the transaction to.                                            *)
(***************************************************************************)
AuditShownWithTransaction ==
    \A t \in PublicTx, u \in Users :
        overview_shows_audit(u, t) <=> transaction_visible_to_actor(u, t)

(***************************************************************************)
(* History only grows: no step removes a transaction, changes what was     *)
(* recorded (applicant, ledger, account, amount, category, mutation id),   *)
(* rewrites an audit event, or touches a rejected or voided transaction.   *)
(***************************************************************************)
KeepsHistory ==
    \A t \in Existing :
        LET old == transactions[t]
            new == transactions'[t]
        IN  /\ new # None
            /\ \A f \in {"client_mutation_id", "ledger", "account", "category",
                         "kind", "amount", "created_by", "submitted_by"} : new[f] = old[f]
            /\ Len(audit_logs[t]) <= Len(audit_logs'[t])
            /\ \A i \in DOMAIN audit_logs[t] : audit_logs'[t][i] = audit_logs[t][i]
            /\ old.approval_state \in {"Rejected", "Voided"} => new = old

HistoryOnlyGrows == [][KeepsHistory]_vars

-----------------------------------------------------------------------------
(* The inductive invariant behind the properties of a transaction.         *)

LastAction(log) == log[Len(log)].action

\* The last event that the state of a record asks for.
LastActionsOf(tx) ==
    CASE tx.approval_state = "Submitted" -> {"submitted"}
      [] tx.approval_state = "Rejected" -> {"rejected"}
      [] tx.approval_state = "Voided" -> {"voided"}
      [] OTHER -> CASE tx.payment_state = "PaidPendingReceipt" -> {"paid"}
                    [] tx.payment_state = "Received" -> {"received"}
                    [] OTHER -> {"approved", "auto_approved"}

\* How approval state, payment state and actors of a record hang together.
RecordShape(tx) ==
    /\ tx.kind \in {"Income", "Expense"}
    /\ tx.approval_state # "Draft"
    /\ tx.kind = "Income" \/ tx.approval_state \in {"Submitted", "Rejected"}
          => tx.payment_state = "NotApplicable"
    /\ tx.payment_state \in {"NotApplicable", "PendingPayment"} => tx.paid_by = None
    /\ tx.payment_state = "PaidPendingReceipt" => tx.paid_by # None
    /\ tx.payment_state # "Received" => tx.received_by = None
    /\ tx.payment_state = "Received" => tx.paid_by # None /\ tx.received_by # None

PublicConsistent(tx, log) ==
    /\ RecordShape(tx)
    /\ tx.kind = "Expense" /\ tx.approval_state = "Approved" => tx.payment_state # "NotApplicable"
    /\ tx.submitted_by = tx.created_by
    /\ tx.approval_state = "Rejected" =>
          ~Happened(log, "approved") /\ ~Happened(log, "auto_approved")
    /\ log # <<>> /\ LastAction(log) \in LastActionsOf(tx)
    /\ LogTells(tx, log)
    /\ LogFollows(tx.kind, log)
    /\ DutiesOf(tx, log)

PersonalConsistent(tx, log) ==
    /\ RecordShape(tx)
    /\ tx.approval_state = "Approved" /\ tx.payment_state = "NotApplicable"
    /\ log = <<>>

\* A record and its audit log agree, and there is no log without a record.
Consistent(tx, log) ==
    /\ tx = None => log = <<>>
    /\ tx # None => IF tx.ledger \in Orgs THEN PublicConsistent(tx, log)
                                         ELSE PersonalConsistent(tx, log)

(***************************************************************************)
(* Every record and its audit log agree in full detail.  Inductive on its  *)
(* own; the properties of the audit log and of the balances follow.        *)
(***************************************************************************)
RecordsAndLogsAgree ==
    /\ TypeOK
    /\ \A t \in TxIds : Consistent(transactions[t], audit_logs[t])

(***************************************************************************)
(* The memberships hang together: the properties of OwnersKept, with       *)
(* exactly one Owner in an organization, members who are known users, and  *)
(* personal ledgers of known users only.  Inductive on its own: the one    *)
(* Owner is always the last one, whom no call demotes or removes.          *)
(***************************************************************************)
TeamsFit ==
    /\ OwnersKept
    /\ MembershipRowsFit
    /\ \A o \in Orgs, u, v \in Users :
          memberships[o][u] = "Owner" /\ memberships[o][v] = "Owner" => u = v
    /\ ledgers \cap Users \subseteq users

(***************************************************************************)
(* Whoever appears in a record or an audit event is a known user, so that  *)
(* the fresh administrator of a new organization has no past.  Inductive   *)
(* together with RecordsAndLogsAgree and TeamsFit.                         *)
(***************************************************************************)
RecordsFit ==
    /\ \A t \in Existing : ForeignKeysFit(transactions[t])
    /\ \A t \in TxIds : \A i \in DOMAIN audit_logs[t] : audit_logs[t][i].actor \in users
    /\ AdministratorsNeverAct

(***************************************************************************)
(* The inductive invariant of the whole service.                           *)
(***************************************************************************)
ServiceInvariant == RecordsAndLogsAgree /\ TeamsFit /\ RecordsFit /\ MutationRecordedOnce

-----------------------------------------------------------------------------
(* LedgerWorkflow implements TransactionLifecycle.                         *)

StageOf(tx) ==
    CASE tx = None -> "absent"
      [] tx # None /\ tx.approval_state \in {"Draft", "Submitted"} -> "submitted"
      [] tx # None /\ tx.approval_state = "Rejected" -> "rejected"
      [] tx # None /\ tx.approval_state = "Voided" -> "voided"
      [] OTHER -> CASE tx.payment_state = "PendingPayment" -> "awaiting_payment"
                    [] tx.payment_state = "PaidPendingReceipt" -> "paid"
                    [] tx.payment_state = "Received" -> "received"
                    [] tx.payment_state = "NotApplicable" -> "settled"

Lifecycle ==
    INSTANCE TransactionLifecycle WITH
        stage <- [t \in TxIds |-> StageOf(transactions[t])],
        booked <- {t \in Existing : transaction_affects_balance(transactions[t])}

(***************************************************************************)
(* Seen as stages and a set of booked transactions, the service takes only *)
(* the steps the lifecycle allows: a transaction is booked once, when it   *)
(* is paid or settled, and unbooked only by voiding.                       *)
(***************************************************************************)
ImplementsLifecycle == Lifecycle!Spec
=============================================================================
