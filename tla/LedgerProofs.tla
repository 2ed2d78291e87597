---------------------------- MODULE LedgerProofs ----------------------------
(***************************************************************************)
(* Proofs about LedgerWorkflow, for any number of users, organizations,    *)
(* transactions, categories and amounts: records and their audit logs,     *)
(* teams and their Owners, the rows of the database, repeated creations,   *)
(* what members see of the audit trail, the history, and the refinement of *)
(* TransactionLifecycle.                                                   *)
(***************************************************************************)
EXTENDS LedgerProperties, FiniteSetTheorems, TLAPS

-----------------------------------------------------------------------------
(* People and categories.                                                  *)

\* The calls that manage people and categories leave transactions and audit
\* events alone, and keep the other variables in their types.
LEMMA ManageTypes ==
    ASSUME TypeOK, ManageNext
    PROVE  /\ TypeOK'
           /\ UNCHANGED <<transactions, audit_logs>>
  <1>1. ASSUME NEW o \in Orgs, NEW u \in Users, create_organization(o, u)
        PROVE  TypeOK' /\ UNCHANGED <<transactions, audit_logs>>
    BY <1>1, LedgerConstants DEF create_organization, TypeOK, Ledgers, DefaultCategories, Category,
       CategoryKind, MembershipRole
  <1>2. ASSUME NEW u \in Users, ensure_user_identity(u)
        PROVE  TypeOK' /\ UNCHANGED <<transactions, audit_logs>>
    BY <1>2, LedgerConstants DEF ensure_user_identity, TypeOK, Ledgers, DefaultCategories, Category,
       CategoryKind
  <1>3. ASSUME NEW o \in Orgs, NEW u \in Users, NEW role \in EmployeeRoles,
               add_organization_member(o, u, role)
        PROVE  TypeOK' /\ UNCHANGED <<transactions, audit_logs>>
    BY <1>3, LedgerConstants DEF add_organization_member, TypeOK, Ledgers, DefaultCategories, Category,
       CategoryKind, EmployeeRoles, MembershipRole
  <1>4. ASSUME NEW o \in Orgs, NEW u \in Users, NEW role \in EmployeeRoles,
               update_organization_member_role(o, u, role)
        PROVE  TypeOK' /\ UNCHANGED <<transactions, audit_logs>>
    BY <1>4 DEF update_organization_member_role, TypeOK, EmployeeRoles, MembershipRole
  <1>5. ASSUME NEW o \in Orgs, NEW u \in Users, remove_organization_member(o, u)
        PROVE  TypeOK' /\ UNCHANGED <<transactions, audit_logs>>
    BY <1>5 DEF remove_organization_member, TypeOK
  <1>6. ASSUME NEW u \in Users, NEW l \in Ledgers, NEW kind \in CategoryKind,
               NEW name \in CategoryNames, create_category(u, l, kind, name)
        PROVE  TypeOK' /\ UNCHANGED <<transactions, audit_logs>>
    BY <1>6 DEF create_category, TypeOK, Category
  <1>7. QED
    BY <1>1, <1>2, <1>3, <1>4, <1>5, <1>6 DEF ManageNext

-----------------------------------------------------------------------------
(* Audit logs.                                                             *)

\* An action was logged exactly when somebody is logged to have done it.
LEMMA HappenedIsDone ==
    ASSUME NEW log \in Seq(AuditLog), NEW a
    PROVE  Happened(log, a) <=> \E u \in Users : DoneBy(log, a, u)
  <1>1. ASSUME NEW i \in DOMAIN log
        PROVE  log[i] \in AuditLog /\ log[i].actor \in Users
               /\ log[i] = [action |-> log[i].action, actor |-> log[i].actor]
    <2>1. log[i] \in AuditLog
      OBVIOUS
    <2>2. QED
      BY <2>1 DEF AuditLog
  <1>2. QED
    BY <1>1 DEF Happened, DoneBy

\* What a log is after one more event.
LEMMA LoggedShape ==
    ASSUME NEW log \in Seq(AuditLog), NEW a \in AuditAction, NEW u \in Users,
           NEW new, new = Logged(log, a, u)
    PROVE  /\ new \in Seq(AuditLog) /\ new # <<>>
           /\ Len(new) = Len(log) + 1 /\ Len(log) \in Nat
           /\ DOMAIN log = 1 .. Len(log) /\ DOMAIN new = 1 .. Len(log) + 1
           /\ \A i \in 1 .. Len(log) : new[i] = log[i]
           /\ new[Len(log) + 1] = [action |-> a, actor |-> u]
  <1> DEFINE e == [action |-> a, actor |-> u]
  <1>1. e \in AuditLog
    BY DEF AuditLog
  <1>2. /\ new \in Seq(AuditLog) /\ Len(new) = Len(log) + 1
        /\ DOMAIN log = 1 .. Len(log) /\ DOMAIN new = 1 .. Len(log) + 1
        /\ Len(log) \in Nat
        /\ \A i \in 1 .. Len(log) : new[i] = log[i]
        /\ new[Len(log) + 1] = e
    BY <1>1 DEF Logged
  <1>3. new # <<>>
    BY <1>2
  <1>4. QED
    BY <1>2, <1>3

LEMMA LoggedType ==
    ASSUME NEW log \in Seq(AuditLog), NEW a \in AuditAction, NEW u \in Users
    PROVE  /\ Logged(log, a, u) \in Seq(AuditLog)
           /\ Logged(log, a, u) # <<>>
           /\ Len(Logged(log, a, u)) = Len(log) + 1
  BY LoggedShape

LEMMA LoggedLast ==
    ASSUME NEW log \in Seq(AuditLog), NEW a \in AuditAction, NEW u \in Users
    PROVE  LastAction(Logged(log, a, u)) = a
  <1> DEFINE new == Logged(log, a, u)
  <1>1. /\ Len(new) = Len(log) + 1
        /\ new[Len(log) + 1] = [action |-> a, actor |-> u]
    BY LoggedShape
  <1> HIDE DEF new
  <1>2. LastAction(new) = a
    BY <1>1 DEF LastAction
  <1>3. QED
    BY <1>2 DEF new

LEMMA LoggedHappened ==
    ASSUME NEW log \in Seq(AuditLog), NEW a \in AuditAction, NEW u \in Users, NEW b
    PROVE  Happened(Logged(log, a, u), b) <=> Happened(log, b) \/ b = a
  <1> DEFINE new == Logged(log, a, u)
  <1>1. /\ Len(log) \in Nat
        /\ DOMAIN log = 1 .. Len(log) /\ DOMAIN new = 1 .. Len(log) + 1
        /\ \A i \in 1 .. Len(log) : new[i] = log[i]
        /\ new[Len(log) + 1] = [action |-> a, actor |-> u]
    BY LoggedShape
  <1> HIDE DEF new
  <1>2. Happened(new, b) <=> Happened(log, b) \/ b = a
    BY <1>1 DEF Happened
  <1>3. QED
    BY <1>2 DEF new

LEMMA LoggedDone ==
    ASSUME NEW log \in Seq(AuditLog), NEW a \in AuditAction, NEW u \in Users, NEW b, NEW v
    PROVE  DoneBy(Logged(log, a, u), b, v) <=> DoneBy(log, b, v) \/ (b = a /\ v = u)
  <1> DEFINE new == Logged(log, a, u)
             e == [action |-> a, actor |-> u]
  <1>1. /\ Len(log) \in Nat
        /\ DOMAIN log = 1 .. Len(log) /\ DOMAIN new = 1 .. Len(log) + 1
        /\ \A i \in 1 .. Len(log) : new[i] = log[i]
        /\ new[Len(log) + 1] = e
    BY LoggedShape
  <1>2. e = [action |-> b, actor |-> v] <=> b = a /\ v = u
    OBVIOUS
  <1> HIDE DEF new, e
  <1>3. DoneBy(new, b, v) <=> DoneBy(log, b, v) \/ (b = a /\ v = u)
    BY <1>1, <1>2 DEF DoneBy
  <1>4. QED
    BY <1>3 DEF new

LEMMA LoggedFollows ==
    ASSUME NEW log \in Seq(AuditLog), NEW a \in AuditAction, NEW u \in Users, NEW kind,
           LogFollows(kind, log),
           a \in FollowUps(kind, IF log = <<>> THEN "none" ELSE LastAction(log))
    PROVE  LogFollows(kind, Logged(log, a, u))
  <1> DEFINE new == Logged(log, a, u)
             n == Len(log)
  <1>0. /\ Len(log) \in Nat
        /\ DOMAIN log = 1 .. Len(log) /\ DOMAIN new = 1 .. Len(log) + 1
        /\ \A i \in 1 .. Len(log) : new[i] = log[i]
        /\ new[Len(log) + 1] = [action |-> a, actor |-> u]
    BY LoggedShape
  <1> HIDE DEF new
  <1>1. /\ n \in Nat /\ DOMAIN log = 1 .. n /\ DOMAIN new = 1 .. n + 1
        /\ \A i \in 1 .. n : new[i] = log[i]
        /\ new[n + 1].action = a
    BY <1>0
  <1>2. LogFollows(kind, new)
    <2> SUFFICES ASSUME NEW i \in DOMAIN new
                 PROVE  new[i].action \in
                          FollowUps(kind, IF i = 1 THEN "none" ELSE new[i - 1].action)
      BY DEF LogFollows
    <2>1. CASE i \in 1 .. n
      <3>1. new[i] = log[i] /\ (i # 1 => new[i - 1] = log[i - 1])
        BY <1>1, <2>1
      <3>2. QED
        BY <1>1, <2>1, <3>1 DEF LogFollows
    <2>2. CASE i = n + 1
      <3>1. i = 1 <=> log = <<>>
        BY <1>1, <2>2
      <3>2. ASSUME i # 1 PROVE new[i - 1].action = LastAction(log)
        <4>1. i - 1 = n /\ n \in 1 .. n
          BY <1>1, <2>2, <3>2
        <4>2. new[i - 1] = log[n]
          BY <1>1, <4>1
        <4>3. QED
          BY <4>2 DEF LastAction
      <3>3. QED
        BY <1>1, <2>2, <3>1, <3>2
    <2>3. QED
      BY <1>1, <2>1, <2>2
  <1>3. QED
    BY <1>2 DEF new

\* The effect of one event on everything the properties read of a log.
Extends(new, log, a, u) ==
    /\ new # <<>> /\ Len(new) = Len(log) + 1 /\ LastAction(new) = a
    /\ \A b \in AuditAction : Happened(new, b) <=> Happened(log, b) \/ b = a
    /\ \A b \in AuditAction, v \in Users :
          DoneBy(new, b, v) <=> DoneBy(log, b, v) \/ (b = a /\ v = u)

LEMMA LoggedExtends ==
    ASSUME NEW log \in Seq(AuditLog), NEW a \in AuditAction, NEW u \in Users
    PROVE  Extends(Logged(log, a, u), log, a, u)
  <1> DEFINE new == Logged(log, a, u)
  <1>1. new # <<>> /\ Len(new) = Len(log) + 1
    BY LoggedType
  <1>2. LastAction(new) = a
    BY LoggedLast
  <1>3. ASSUME NEW b \in AuditAction
        PROVE  Happened(new, b) <=> Happened(log, b) \/ b = a
    BY LoggedHappened
  <1>4. ASSUME NEW b \in AuditAction, NEW v \in Users
        PROVE  DoneBy(new, b, v) <=> DoneBy(log, b, v) \/ (b = a /\ v = u)
    BY LoggedDone
  <1> HIDE DEF new
  <1>5. Extends(new, log, a, u)
    BY <1>1, <1>2, <1>3, <1>4 DEF Extends
  <1>6. QED
    BY <1>5 DEF new

\* An empty log tells nothing.
LEMMA EmptyLog ==
    ASSUME NEW empty \in Seq(AuditLog), Len(empty) = 0, NEW kind
    PROVE  /\ \A b \in AuditAction : ~Happened(empty, b)
           /\ \A b \in AuditAction, v \in Users : ~DoneBy(empty, b, v)
           /\ LogFollows(kind, empty)
  BY DEF Happened, DoneBy, LogFollows

-----------------------------------------------------------------------------
(* One step of one transaction: record and log keep agreeing.              *)

\* The record of a new application after its first event.
Opened(tx, u, a) ==
    /\ tx.ledger \in Orgs /\ tx.kind \in {"Income", "Expense"}
    /\ a \in {"submitted", "auto_approved"}
    /\ tx.approval_state = (IF a = "submitted" THEN "Submitted" ELSE "Approved")
    /\ tx.payment_state = (IF a = "auto_approved" /\ tx.kind = "Expense"
                           THEN "PendingPayment" ELSE "NotApplicable")
    /\ tx.created_by = u /\ tx.submitted_by = u /\ tx.approved_by = None
    /\ tx.paid_by = None /\ tx.received_by = None /\ tx.version = 1

\* Such a record and the log of its first event agree.
LEMMA CreateConsistent ==
    ASSUME NEW tx \in Transaction, NEW u \in Users, NEW a \in AuditAction,
           NEW empty \in Seq(AuditLog), Len(empty) = 0, Opened(tx, u, a)
    PROVE  Consistent(tx, Logged(empty, a, u))
  <1> DEFINE log == Logged(empty, a, u)
  <1>1. Extends(log, empty, a, u)
    BY LoggedExtends
  <1>2. LogFollows(tx.kind, log)
    <2>1. empty = <<>>
      OBVIOUS
    <2>2. LogFollows(tx.kind, empty)
      BY EmptyLog
    <2>3. a \in FollowUps(tx.kind, "none")
      BY DEF FollowUps, Opened
    <2>4. a \in FollowUps(tx.kind, IF empty = <<>> THEN "none" ELSE LastAction(empty))
      BY <2>1, <2>3
    <2>5. QED
      BY <2>2, <2>4, LoggedFollows
  <1> HIDE DEF log
  <1>3. None \notin Users
    BY LedgerConstants
  <1>4. /\ \A b \in AuditAction : ~Happened(empty, b)
        /\ \A b \in AuditAction, v \in Users : ~DoneBy(empty, b, v)
    BY EmptyLog
  <1>5. LogTells(tx, log)
    BY <1>1, <1>3, <1>4 DEF Extends, Opened, LogTells, ApprovalFromLog, PaymentFromLog, AuditAction
  <1>6. DutiesOf(tx, log)
    BY <1>1, <1>4 DEF Extends, Opened, DutiesOf, AuditAction
  <1>7. RecordShape(tx) /\ LastAction(log) \in LastActionsOf(tx) /\ log # <<>>
    BY <1>1 DEF Extends, Opened, RecordShape, LastActionsOf
  <1>8. /\ tx.kind = "Expense" /\ tx.approval_state = "Approved"
              => tx.payment_state # "NotApplicable"
        /\ tx.approval_state # "Rejected"
        /\ tx.submitted_by = tx.created_by /\ tx.ledger \in Orgs
    BY DEF Opened
  <1>9. PublicConsistent(tx, log)
    BY <1>2, <1>5, <1>6, <1>7, <1>8 DEF PublicConsistent
  <1>10. tx # None
    BY NoTransaction
  <1>11. QED
    BY <1>8, <1>9, <1>10 DEF Consistent, log

\* Approval of another person's application.
LEMMA ApproveConsistent ==
    ASSUME NEW tx \in Transaction, NEW log \in Seq(AuditLog), NEW u \in Users,
           tx.ledger \in Orgs, PublicConsistent(tx, log),
           tx.approval_state = "Submitted", ~SelfApproval(u, tx)
    PROVE  /\ Approved(tx, u) \in Transaction
           /\ Consistent(Approved(tx, u), Logged(log, "approved", u))
  <1> DEFINE tx2 == Approved(tx, u)
             new == Logged(log, "approved", u)
  <1>1. tx2 \in Transaction
    <2>1. /\ "Approved" \in ApprovalState /\ u \in OptUser
          /\ PaymentOnApproval(tx) \in PaymentState /\ tx.version + 1 \in Nat
      BY DEF ApprovalState, PaymentState, OptUser, PaymentOnApproval, Transaction
    <2>2. QED
      BY <2>1 DEF Approved, Transaction
  <1>2. /\ tx2.ledger = tx.ledger /\ tx2.kind = tx.kind
        /\ tx2.approval_state = "Approved" /\ tx2.approved_by = u
        /\ tx2.payment_state = (IF tx.kind = "Expense" THEN "PendingPayment" ELSE tx.payment_state)
        /\ tx2.created_by = tx.created_by /\ tx2.submitted_by = tx.submitted_by
        /\ tx2.paid_by = tx.paid_by /\ tx2.received_by = tx.received_by
        /\ tx2.version = tx.version + 1
    BY DEF Approved, Transaction, PaymentOnApproval
  <1>3. Extends(new, log, "approved", u)
    BY LoggedExtends DEF AuditAction
  <1>4. /\ LogTells(tx, log) /\ RecordShape(tx) /\ LastAction(log) = "submitted"
        /\ log # <<>> /\ LogFollows(tx.kind, log) /\ DutiesOf(tx, log)
        /\ tx.submitted_by = tx.created_by
    BY DEF PublicConsistent, LastActionsOf
  <1>5. LogFollows(tx.kind, new)
    <2>1. "approved" \in AuditAction
      BY DEF AuditAction
    <2>2. "approved" \in FollowUps(tx.kind, IF log = <<>> THEN "none" ELSE LastAction(log))
      BY <1>4 DEF FollowUps
    <2>3. QED
      BY <1>4, <2>1, <2>2, LoggedFollows
  <1> HIDE DEF new, tx2
  <1>6. /\ tx.created_by # u
        /\ tx.kind \in {"Income", "Expense"} /\ tx.payment_state = "NotApplicable"
    BY <1>4 DEF SelfApproval, RecordShape
  <1>7. LogTells(tx2, new)
    <2>1. /\ ~Happened(log, "voided") /\ ~Happened(log, "rejected")
          /\ ~Happened(log, "approved") /\ ~Happened(log, "auto_approved")
          /\ tx.kind = "Expense" => ~Happened(log, "paid") /\ ~Happened(log, "received")
      BY <1>4, <1>6 DEF LogTells, ApprovalFromLog, PaymentFromLog
    <2>2. \A v \in Users : ~DoneBy(log, "approved", v)
      BY <2>1, HappenedIsDone
    <2>3. tx2.version = Len(new)
      BY <1>2, <1>3, <1>4 DEF Extends, LogTells
    <2>4. tx2.approval_state = ApprovalFromLog(new)
      BY <1>2, <1>3, <2>1 DEF Extends, ApprovalFromLog, AuditAction
    <2>5. tx2.payment_state = PaymentFromLog(tx2.kind, new)
      BY <1>2, <1>3, <1>6, <2>1 DEF Extends, PaymentFromLog, AuditAction
    <2>6. ASSUME NEW v \in Users
          PROVE  /\ tx2.approved_by = v <=> DoneBy(new, "approved", v)
                 /\ tx2.paid_by = v <=> DoneBy(new, "paid", v)
                 /\ tx2.received_by = v <=> DoneBy(new, "received", v)
                 /\ tx2.created_by = v <=> \/ DoneBy(new, "submitted", v)
                                           \/ DoneBy(new, "auto_approved", v)
      BY <1>2, <1>3, <1>4, <2>2 DEF Extends, LogTells, AuditAction
    <2>7. QED
      BY <2>3, <2>4, <2>5, <2>6 DEF LogTells
  <1>8. DutiesOf(tx2, new)
    BY <1>2, <1>3, <1>4, <1>6 DEF Extends, DutiesOf, LogTells, AuditAction
  <1>9. RecordShape(tx2) /\ LastAction(new) \in LastActionsOf(tx2) /\ new # <<>>
    BY <1>2, <1>3, <1>4, <1>6 DEF Extends, RecordShape, LastActionsOf
  <1>10. PublicConsistent(tx2, new)
    BY <1>2, <1>4, <1>5, <1>7, <1>8, <1>9 DEF PublicConsistent
  <1>11. tx2 # None
    BY <1>1, NoTransaction
  <1>12. Consistent(tx2, new)
    BY <1>2, <1>10, <1>11 DEF Consistent
  <1>13. QED
    BY <1>1, <1>12 DEF tx2, new

\* Rejection of another person's application.
LEMMA RejectConsistent ==
    ASSUME NEW tx \in Transaction, NEW log \in Seq(AuditLog), NEW u \in Users,
           tx.ledger \in Orgs, PublicConsistent(tx, log), tx.approval_state = "Submitted", ~SelfApproval(u, tx)
    PROVE  /\ Rejected(tx) \in Transaction
           /\ Consistent(Rejected(tx), Logged(log, "rejected", u))
  <1> DEFINE tx2 == Rejected(tx)
             new == Logged(log, "rejected", u)
  <1>1. tx2 \in Transaction
    <2>1. "Rejected" \in ApprovalState /\ tx.version + 1 \in Nat
      BY DEF ApprovalState, Transaction
    <2>2. QED
      BY <2>1 DEF Rejected, Transaction
  <1>2. /\ tx2.approval_state = "Rejected" /\ tx2.ledger = tx.ledger /\ tx2.kind = tx.kind
        /\ tx2.payment_state = tx.payment_state /\ tx2.approved_by = tx.approved_by /\ tx2.paid_by = tx.paid_by
        /\ tx2.received_by = tx.received_by /\ tx2.created_by = tx.created_by /\ tx2.submitted_by = tx.submitted_by
        /\ tx2.version = tx.version + 1
    BY DEF Rejected, Transaction
  <1>3. Extends(new, log, "rejected", u)
    BY LoggedExtends DEF AuditAction
  <1>4. /\ LogTells(tx, log) /\ RecordShape(tx) /\ LastAction(log) = "submitted"
        /\ log # <<>> /\ LogFollows(tx.kind, log) /\ DutiesOf(tx, log)
        /\ tx.submitted_by = tx.created_by
    BY DEF PublicConsistent, LastActionsOf
  <1>5. tx.created_by # u /\ tx.payment_state = "NotApplicable"
    BY <1>4 DEF RecordShape, SelfApproval
  <1>6. LogFollows(tx.kind, new)
    <2>1. "rejected" \in AuditAction
      BY DEF AuditAction
    <2>2. "rejected" \in FollowUps(tx.kind, IF log = <<>> THEN "none" ELSE LastAction(log))
      BY <1>4, <1>5 DEF FollowUps
    <2>3. QED
      BY <1>4, <2>1, <2>2, LoggedFollows
  <1> HIDE DEF new, tx2
  <1>7. LogTells(tx2, new)
    <2>1. /\ ~Happened(log, "voided") /\ ~Happened(log, "rejected")
          /\ ~Happened(log, "approved") /\ ~Happened(log, "auto_approved")
      BY <1>4, <1>5 DEF LogTells, ApprovalFromLog, PaymentFromLog
    <2>3. tx2.version = Len(new)
      BY <1>2, <1>3, <1>4 DEF Extends, LogTells
    <2>4. tx2.approval_state = ApprovalFromLog(new)
      BY <1>2, <1>3, <1>4, <1>5, <2>1 DEF Extends, LogTells, ApprovalFromLog, AuditAction
    <2>5. tx2.payment_state = PaymentFromLog(tx2.kind, new)
      BY <1>2, <1>3, <1>4, <1>5, <2>1 DEF Extends, LogTells, PaymentFromLog, AuditAction
    <2>6. ASSUME NEW v \in Users
          PROVE  /\ tx2.approved_by = v <=> DoneBy(new, "approved", v)
                 /\ tx2.paid_by = v <=> DoneBy(new, "paid", v)
                 /\ tx2.received_by = v <=> DoneBy(new, "received", v)
                 /\ tx2.created_by = v <=> \/ DoneBy(new, "submitted", v)
                                           \/ DoneBy(new, "auto_approved", v)
      BY <1>2, <1>3, <1>4 DEF Extends, LogTells, AuditAction
    <2>7. QED
      BY <2>3, <2>4, <2>5, <2>6 DEF LogTells
  <1>8. DutiesOf(tx2, new)
    BY <1>2, <1>3, <1>4, <1>5 DEF Extends, DutiesOf, LogTells, AuditAction
  <1>9. RecordShape(tx2) /\ LastAction(new) \in LastActionsOf(tx2) /\ new # <<>>
    BY <1>2, <1>3, <1>4, <1>5, LedgerConstants DEF Extends, RecordShape, LastActionsOf
  <1>10. ~Happened(new, "approved") /\ ~Happened(new, "auto_approved")
    <2>1. ~Happened(log, "approved") /\ ~Happened(log, "auto_approved")
      BY <1>4, <1>5 DEF LogTells, ApprovalFromLog
    <2>2. QED
      BY <1>3, <2>1 DEF Extends, AuditAction
  <1>11. PublicConsistent(tx2, new)
    BY <1>2, <1>4, <1>5, <1>6, <1>7, <1>8, <1>9, <1>10 DEF PublicConsistent
  <1>12. tx2 # None
    BY <1>1, NoTransaction
  <1>13. Consistent(tx2, new)
    BY <1>2, <1>11, <1>12 DEF Consistent
  <1>14. QED
    BY <1>1, <1>13 DEF tx2, new

\* Payment of an approved expense.
LEMMA PayConsistent ==
    ASSUME NEW tx \in Transaction, NEW log \in Seq(AuditLog), NEW u \in Users,
           tx.ledger \in Orgs, PublicConsistent(tx, log), Payable(tx)
    PROVE  /\ Paid(tx, u) \in Transaction
           /\ Consistent(Paid(tx, u), Logged(log, "paid", u))
  <1> DEFINE tx2 == Paid(tx, u)
             new == Logged(log, "paid", u)
  <1>1. tx2 \in Transaction
    <2>1. "PaidPendingReceipt" \in PaymentState /\ u \in OptUser /\ tx.version + 1 \in Nat
      BY DEF PaymentState, OptUser, Transaction
    <2>2. QED
      BY <2>1 DEF Paid, Transaction
  <1>2. /\ tx2.payment_state = "PaidPendingReceipt" /\ tx2.paid_by = u /\ tx2.ledger = tx.ledger
        /\ tx2.kind = tx.kind /\ tx2.approval_state = tx.approval_state /\ tx2.approved_by = tx.approved_by
        /\ tx2.received_by = tx.received_by /\ tx2.created_by = tx.created_by /\ tx2.submitted_by = tx.submitted_by
        /\ tx2.version = tx.version + 1
    BY DEF Paid, Transaction
  <1>3. Extends(new, log, "paid", u)
    BY LoggedExtends DEF AuditAction
  <1>4. /\ LogTells(tx, log) /\ RecordShape(tx) /\ LastAction(log) \in {"approved", "auto_approved"}
        /\ log # <<>> /\ LogFollows(tx.kind, log) /\ DutiesOf(tx, log)
        /\ tx.submitted_by = tx.created_by
    BY DEF PublicConsistent, LastActionsOf, Payable
  <1>5. /\ tx.kind = "Expense" /\ tx.approval_state = "Approved"
        /\ tx.payment_state = "PendingPayment" /\ tx.received_by = None
    BY <1>4 DEF RecordShape, Payable
  <1>6. LogFollows(tx.kind, new)
    <2>1. "paid" \in AuditAction
      BY DEF AuditAction
    <2>2. "paid" \in FollowUps(tx.kind, IF log = <<>> THEN "none" ELSE LastAction(log))
      BY <1>4, <1>5 DEF FollowUps
    <2>3. QED
      BY <1>4, <2>1, <2>2, LoggedFollows
  <1> HIDE DEF new, tx2
  <1>7. LogTells(tx2, new)
    <2>1. /\ ~Happened(log, "voided") /\ ~Happened(log, "rejected")
          /\ Happened(log, "approved") \/ Happened(log, "auto_approved")
          /\ ~Happened(log, "paid") /\ ~Happened(log, "received")
      BY <1>4, <1>5 DEF LogTells, ApprovalFromLog, PaymentFromLog
    <2>2. \A v \in Users : ~DoneBy(log, "paid", v)
      BY <2>1, HappenedIsDone
    <2>3. tx2.version = Len(new)
      BY <1>2, <1>3, <1>4 DEF Extends, LogTells
    <2>4. tx2.approval_state = ApprovalFromLog(new)
      BY <1>2, <1>3, <1>4, <1>5, <2>1 DEF Extends, LogTells, ApprovalFromLog, AuditAction
    <2>5. tx2.payment_state = PaymentFromLog(tx2.kind, new)
      BY <1>2, <1>3, <1>4, <1>5, <2>1 DEF Extends, LogTells, PaymentFromLog, AuditAction
    <2>6. ASSUME NEW v \in Users
          PROVE  /\ tx2.approved_by = v <=> DoneBy(new, "approved", v)
                 /\ tx2.paid_by = v <=> DoneBy(new, "paid", v)
                 /\ tx2.received_by = v <=> DoneBy(new, "received", v)
                 /\ tx2.created_by = v <=> \/ DoneBy(new, "submitted", v)
                                           \/ DoneBy(new, "auto_approved", v)
      BY <1>2, <1>3, <1>4, <2>2 DEF Extends, LogTells, AuditAction
    <2>7. QED
      BY <2>3, <2>4, <2>5, <2>6 DEF LogTells
  <1>8. DutiesOf(tx2, new)
    BY <1>2, <1>3, <1>4, <1>5 DEF Extends, DutiesOf, LogTells, AuditAction
  <1>9. RecordShape(tx2) /\ LastAction(new) \in LastActionsOf(tx2) /\ new # <<>>
    BY <1>2, <1>3, <1>4, <1>5, LedgerConstants DEF Extends, RecordShape, LastActionsOf
  <1>10. PublicConsistent(tx2, new)
    BY <1>2, <1>4, <1>5, <1>6, <1>7, <1>8, <1>9 DEF PublicConsistent
  <1>11. tx2 # None
    BY <1>1, NoTransaction
  <1>12. Consistent(tx2, new)
    BY <1>2, <1>10, <1>11 DEF Consistent
  <1>13. QED
    BY <1>1, <1>12 DEF tx2, new

\* The applicant confirms the receipt of a payment.
LEMMA ReceiveConsistent ==
    ASSUME NEW tx \in Transaction, NEW log \in Seq(AuditLog), NEW u \in Users,
           tx.ledger \in Orgs, PublicConsistent(tx, log), Receivable(tx), tx.created_by = u
    PROVE  /\ Received(tx, u) \in Transaction
           /\ Consistent(Received(tx, u), Logged(log, "received", u))
  <1> DEFINE tx2 == Received(tx, u)
             new == Logged(log, "received", u)
  <1>1. tx2 \in Transaction
    <2>1. "Received" \in PaymentState /\ u \in OptUser /\ tx.version + 1 \in Nat
      BY DEF PaymentState, OptUser, Transaction
    <2>2. QED
      BY <2>1 DEF Received, Transaction
  <1>2. /\ tx2.payment_state = "Received" /\ tx2.received_by = u /\ tx2.ledger = tx.ledger
        /\ tx2.kind = tx.kind /\ tx2.approval_state = tx.approval_state /\ tx2.approved_by = tx.approved_by
        /\ tx2.paid_by = tx.paid_by /\ tx2.created_by = tx.created_by /\ tx2.submitted_by = tx.submitted_by
        /\ tx2.version = tx.version + 1
    BY DEF Received, Transaction
  <1>3. Extends(new, log, "received", u)
    BY LoggedExtends DEF AuditAction
  <1>4. /\ LogTells(tx, log) /\ RecordShape(tx) /\ LastAction(log) = "paid"
        /\ log # <<>> /\ LogFollows(tx.kind, log) /\ DutiesOf(tx, log)
        /\ tx.submitted_by = tx.created_by
    BY DEF PublicConsistent, LastActionsOf, Receivable
  <1>5. /\ tx.kind = "Expense" /\ tx.approval_state = "Approved"
        /\ tx.payment_state = "PaidPendingReceipt" /\ tx.paid_by # None
    BY <1>4 DEF RecordShape, Receivable
  <1>6. LogFollows(tx.kind, new)
    <2>1. "received" \in AuditAction
      BY DEF AuditAction
    <2>2. "received" \in FollowUps(tx.kind, IF log = <<>> THEN "none" ELSE LastAction(log))
      BY <1>4, <1>5 DEF FollowUps
    <2>3. QED
      BY <1>4, <2>1, <2>2, LoggedFollows
  <1> HIDE DEF new, tx2
  <1>7. LogTells(tx2, new)
    <2>1. /\ ~Happened(log, "voided") /\ ~Happened(log, "rejected")
          /\ Happened(log, "approved") \/ Happened(log, "auto_approved")
          /\ Happened(log, "paid") /\ ~Happened(log, "received")
      BY <1>4, <1>5 DEF LogTells, ApprovalFromLog, PaymentFromLog
    <2>2. \A v \in Users : ~DoneBy(log, "received", v)
      BY <2>1, HappenedIsDone
    <2>3. tx2.version = Len(new)
      BY <1>2, <1>3, <1>4 DEF Extends, LogTells
    <2>4. tx2.approval_state = ApprovalFromLog(new)
      BY <1>2, <1>3, <1>4, <1>5, <2>1 DEF Extends, LogTells, ApprovalFromLog, AuditAction
    <2>5. tx2.payment_state = PaymentFromLog(tx2.kind, new)
      BY <1>2, <1>3, <1>4, <1>5, <2>1 DEF Extends, LogTells, PaymentFromLog, AuditAction
    <2>6. ASSUME NEW v \in Users
          PROVE  /\ tx2.approved_by = v <=> DoneBy(new, "approved", v)
                 /\ tx2.paid_by = v <=> DoneBy(new, "paid", v)
                 /\ tx2.received_by = v <=> DoneBy(new, "received", v)
                 /\ tx2.created_by = v <=> \/ DoneBy(new, "submitted", v)
                                           \/ DoneBy(new, "auto_approved", v)
      BY <1>2, <1>3, <1>4, <2>2 DEF Extends, LogTells, AuditAction
    <2>7. QED
      BY <2>3, <2>4, <2>5, <2>6 DEF LogTells
  <1>8. DutiesOf(tx2, new)
    BY <1>2, <1>3, <1>4, <1>5 DEF Extends, DutiesOf, LogTells, AuditAction
  <1>9. RecordShape(tx2) /\ LastAction(new) \in LastActionsOf(tx2) /\ new # <<>>
    BY <1>2, <1>3, <1>4, <1>5, LedgerConstants DEF Extends, RecordShape, LastActionsOf
  <1>10. PublicConsistent(tx2, new)
    BY <1>2, <1>4, <1>5, <1>6, <1>7, <1>8, <1>9 DEF PublicConsistent
  <1>11. tx2 # None
    BY <1>1, NoTransaction
  <1>12. Consistent(tx2, new)
    BY <1>2, <1>10, <1>11 DEF Consistent
  <1>13. QED
    BY <1>1, <1>12 DEF tx2, new

\* Voiding of an approved transaction.
LEMMA VoidConsistent ==
    ASSUME NEW tx \in Transaction, NEW log \in Seq(AuditLog), NEW u \in Users,
           tx.ledger \in Orgs, PublicConsistent(tx, log), Voidable(tx)
    PROVE  /\ Voided(tx) \in Transaction
           /\ Consistent(Voided(tx), Logged(log, "voided", u))
  <1> DEFINE tx2 == Voided(tx)
             new == Logged(log, "voided", u)
  <1>1. tx2 \in Transaction
    <2>1. "Voided" \in ApprovalState /\ tx.version + 1 \in Nat
      BY DEF ApprovalState, Transaction
    <2>2. QED
      BY <2>1 DEF Voided, Transaction
  <1>2. /\ tx2.approval_state = "Voided" /\ tx2.ledger = tx.ledger /\ tx2.kind = tx.kind
        /\ tx2.payment_state = tx.payment_state /\ tx2.approved_by = tx.approved_by /\ tx2.paid_by = tx.paid_by
        /\ tx2.received_by = tx.received_by /\ tx2.created_by = tx.created_by /\ tx2.submitted_by = tx.submitted_by
        /\ tx2.version = tx.version + 1
    BY DEF Voided, Transaction
  <1>3. Extends(new, log, "voided", u)
    BY LoggedExtends DEF AuditAction
  <1>4. /\ LogTells(tx, log) /\ RecordShape(tx) /\ LastAction(log) \in {"approved", "auto_approved", "paid", "received"}
        /\ log # <<>> /\ LogFollows(tx.kind, log) /\ DutiesOf(tx, log)
        /\ tx.submitted_by = tx.created_by
    BY DEF PublicConsistent, LastActionsOf, Voidable
  <1>5. tx.approval_state = "Approved" /\ tx.kind \in {"Income", "Expense"}
    BY <1>4 DEF RecordShape, Voidable
  <1>6. LogFollows(tx.kind, new)
    <2>1. "voided" \in AuditAction
      BY DEF AuditAction
    <2>2. "voided" \in FollowUps(tx.kind, IF log = <<>> THEN "none" ELSE LastAction(log))
      BY <1>4, <1>5 DEF FollowUps
    <2>3. QED
      BY <1>4, <2>1, <2>2, LoggedFollows
  <1> HIDE DEF new, tx2
  <1>7. LogTells(tx2, new)
    <2>1. /\ ~Happened(log, "voided") /\ ~Happened(log, "rejected")
          /\ Happened(log, "approved") \/ Happened(log, "auto_approved")
      BY <1>4, <1>5 DEF LogTells, ApprovalFromLog, PaymentFromLog
    <2>3. tx2.version = Len(new)
      BY <1>2, <1>3, <1>4 DEF Extends, LogTells
    <2>4. tx2.approval_state = ApprovalFromLog(new)
      BY <1>2, <1>3, <1>4, <1>5, <2>1 DEF Extends, LogTells, ApprovalFromLog, AuditAction
    <2>5. tx2.payment_state = PaymentFromLog(tx2.kind, new)
      BY <1>2, <1>3, <1>4, <1>5, <2>1 DEF Extends, LogTells, PaymentFromLog, AuditAction
    <2>6. ASSUME NEW v \in Users
          PROVE  /\ tx2.approved_by = v <=> DoneBy(new, "approved", v)
                 /\ tx2.paid_by = v <=> DoneBy(new, "paid", v)
                 /\ tx2.received_by = v <=> DoneBy(new, "received", v)
                 /\ tx2.created_by = v <=> \/ DoneBy(new, "submitted", v)
                                           \/ DoneBy(new, "auto_approved", v)
      BY <1>2, <1>3, <1>4 DEF Extends, LogTells, AuditAction
    <2>7. QED
      BY <2>3, <2>4, <2>5, <2>6 DEF LogTells
  <1>8. DutiesOf(tx2, new)
    BY <1>2, <1>3, <1>4, <1>5 DEF Extends, DutiesOf, LogTells, AuditAction
  <1>9. RecordShape(tx2) /\ LastAction(new) \in LastActionsOf(tx2) /\ new # <<>>
    BY <1>2, <1>3, <1>4, <1>5, LedgerConstants DEF Extends, RecordShape, LastActionsOf
  <1>10. PublicConsistent(tx2, new)
    BY <1>2, <1>4, <1>5, <1>6, <1>7, <1>8, <1>9 DEF PublicConsistent
  <1>11. tx2 # None
    BY <1>1, NoTransaction
  <1>12. Consistent(tx2, new)
    BY <1>2, <1>10, <1>11 DEF Consistent
  <1>13. QED
    BY <1>1, <1>12 DEF tx2, new

-----------------------------------------------------------------------------
(* The inductive invariant.                                                *)

\* A step that rewrites one transaction and its log, consistently.
LEMMA OneTransactionStep ==
    ASSUME RecordsAndLogsAgree, NEW t \in TxIds, NEW tx2 \in Transaction,
           NEW log2 \in Seq(AuditLog), Consistent(tx2, log2),
           transactions' = [transactions EXCEPT ![t] = tx2],
           audit_logs' = [audit_logs EXCEPT ![t] = log2], TransactionUnchanged
    PROVE  RecordsAndLogsAgree'
  <1>1. TypeOK'
    BY DEF RecordsAndLogsAgree, TypeOK, TransactionUnchanged
  <1>2. ASSUME NEW s \in TxIds
        PROVE  Consistent(transactions[s], audit_logs[s])'
    <2>1. CASE s = t
      <3>1. transactions'[s] = tx2 /\ audit_logs'[s] = log2
        BY <2>1 DEF RecordsAndLogsAgree, TypeOK
      <3>2. QED
        BY <3>1
    <2>2. CASE s # t
      <3>1. transactions'[s] = transactions[s] /\ audit_logs'[s] = audit_logs[s]
        BY <2>2 DEF RecordsAndLogsAgree, TypeOK
      <3>2. QED
        BY <3>1 DEF RecordsAndLogsAgree
    <2>3. QED
      BY <2>1, <2>2
  <1>3. QED
    BY <1>1, <1>2 DEF RecordsAndLogsAgree

\* The record and log of a transaction on a public ledger that exists.
LEMMA PublicRecord ==
    ASSUME RecordsAndLogsAgree, NEW t \in TxIds,
           transactions[t] # None, transactions[t].ledger \in Orgs
    PROVE  /\ transactions[t] \in Transaction /\ audit_logs[t] \in Seq(AuditLog)
           /\ PublicConsistent(transactions[t], audit_logs[t])
  BY DEF RecordsAndLogsAgree, TypeOK, Consistent

\* On a personal ledger no permission of the organization's workflow is given.
LEMMA PublicOnly ==
    ASSUME NEW u \in Users, NEW l \in Ledgers,
           NEW action \in {"ApproveTransaction", "MarkTransactionPaid", "ConfirmReceipt"},
           authorized(u, l, action)
    PROVE  l \in Orgs
  BY DEF authorized, PersonalActions

LEMMA DecideAgrees ==
    ASSUME RecordsAndLogsAgree, NEW t \in TxIds, NEW u \in Users, NEW decision,
           decide_approval(t, u, decision)
    PROVE  RecordsAndLogsAgree'
  <1> DEFINE tx == transactions[t]
             log == audit_logs[t]
  <1>1. /\ tx # None /\ tx.approval_state = "Submitted" /\ ~SelfApproval(u, tx)
        /\ authorized(u, tx.ledger, "ApproveTransaction") /\ TransactionUnchanged
    BY DEF decide_approval
  <1>2. tx \in Transaction /\ tx.ledger \in Ledgers
    BY <1>1 DEF RecordsAndLogsAgree, TypeOK, Transaction
  <1>3. tx.ledger \in Orgs
    BY <1>1, <1>2, PublicOnly
  <1>4. log \in Seq(AuditLog) /\ PublicConsistent(tx, log)
    BY <1>1, <1>3, PublicRecord
  <1>5. CASE decision = "Approve"
    <2> DEFINE tx2 == Approved(tx, u)
               log2 == Logged(log, "approved", u)
    <2>1. tx2 \in Transaction /\ Consistent(tx2, log2)
      BY <1>1, <1>2, <1>3, <1>4, ApproveConsistent
    <2>2. log2 \in Seq(AuditLog)
      BY <1>4, LoggedType DEF AuditAction
    <2>3. /\ transactions' = [transactions EXCEPT ![t] = tx2]
          /\ audit_logs' = [audit_logs EXCEPT ![t] = log2]
      BY <1>5 DEF decide_approval, Record
    <2> HIDE DEF tx2, log2
    <2>4. QED
      BY <1>1, <2>1, <2>2, <2>3, OneTransactionStep
  <1>6. CASE decision # "Approve"
    <2> DEFINE tx2 == Rejected(tx)
               log2 == Logged(log, "rejected", u)
    <2>1. tx2 \in Transaction /\ Consistent(tx2, log2)
      BY <1>1, <1>2, <1>3, <1>4, RejectConsistent
    <2>2. log2 \in Seq(AuditLog)
      BY <1>4, LoggedType DEF AuditAction
    <2>3. /\ transactions' = [transactions EXCEPT ![t] = tx2]
          /\ audit_logs' = [audit_logs EXCEPT ![t] = log2]
      BY <1>6 DEF decide_approval, Record
    <2> HIDE DEF tx2, log2
    <2>4. QED
      BY <1>1, <2>1, <2>2, <2>3, OneTransactionStep
  <1>7. QED
    BY <1>5, <1>6

LEMMA PayAgrees ==
    ASSUME RecordsAndLogsAgree, NEW t \in TxIds, NEW u \in Users, mark_transaction_paid(t, u)
    PROVE  RecordsAndLogsAgree'
  <1> DEFINE tx == transactions[t]
             log == audit_logs[t]
             tx2 == Paid(tx, u)
             log2 == Logged(log, "paid", u)
  <1>1. /\ tx # None /\ Payable(tx) /\ TransactionUnchanged
        /\ authorized(u, tx.ledger, "MarkTransactionPaid")
    BY DEF mark_transaction_paid
  <1>2. tx \in Transaction /\ tx.ledger \in Ledgers
    BY <1>1 DEF RecordsAndLogsAgree, TypeOK, Transaction
  <1>3. tx.ledger \in Orgs
    BY <1>1, <1>2, PublicOnly
  <1>4. log \in Seq(AuditLog) /\ PublicConsistent(tx, log)
    BY <1>1, <1>3, PublicRecord
  <1>5. tx2 \in Transaction /\ Consistent(tx2, log2)
    BY <1>1, <1>2, <1>3, <1>4, PayConsistent
  <1>6. log2 \in Seq(AuditLog)
    BY <1>4, LoggedType DEF AuditAction
  <1>7. /\ transactions' = [transactions EXCEPT ![t] = tx2]
        /\ audit_logs' = [audit_logs EXCEPT ![t] = log2]
    BY DEF mark_transaction_paid, Record
  <1> HIDE DEF tx2, log2
  <1>8. QED
    BY <1>1, <1>5, <1>6, <1>7, OneTransactionStep

LEMMA ReceiveAgrees ==
    ASSUME RecordsAndLogsAgree, NEW t \in TxIds, NEW u \in Users, confirm_transaction_receipt(t, u)
    PROVE  RecordsAndLogsAgree'
  <1> DEFINE tx == transactions[t]
             log == audit_logs[t]
             tx2 == Received(tx, u)
             log2 == Logged(log, "received", u)
  <1>1. /\ tx # None /\ Receivable(tx) /\ tx.created_by = u /\ TransactionUnchanged
        /\ authorized(u, tx.ledger, "ConfirmReceipt")
    BY DEF confirm_transaction_receipt
  <1>2. tx \in Transaction /\ tx.ledger \in Ledgers
    BY <1>1 DEF RecordsAndLogsAgree, TypeOK, Transaction
  <1>3. tx.ledger \in Orgs
    BY <1>1, <1>2, PublicOnly
  <1>4. log \in Seq(AuditLog) /\ PublicConsistent(tx, log)
    BY <1>1, <1>3, PublicRecord
  <1>5. tx2 \in Transaction /\ Consistent(tx2, log2)
    BY <1>1, <1>2, <1>3, <1>4, ReceiveConsistent
  <1>6. log2 \in Seq(AuditLog)
    BY <1>4, LoggedType DEF AuditAction
  <1>7. /\ transactions' = [transactions EXCEPT ![t] = tx2]
        /\ audit_logs' = [audit_logs EXCEPT ![t] = log2]
    BY DEF confirm_transaction_receipt, Record
  <1> HIDE DEF tx2, log2
  <1>8. QED
    BY <1>1, <1>5, <1>6, <1>7, OneTransactionStep

LEMMA VoidAgrees ==
    ASSUME RecordsAndLogsAgree, NEW t \in TxIds, NEW u \in Users, void_transaction(t, u)
    PROVE  RecordsAndLogsAgree'
  <1> DEFINE tx == transactions[t]
             log == audit_logs[t]
             tx2 == Voided(tx)
             log2 == Logged(log, "voided", u)
  <1>1. /\ tx # None /\ Voidable(tx) /\ TransactionUnchanged
    BY DEF void_transaction
  <1>2. tx \in Transaction /\ tx.ledger \in Ledgers
    BY <1>1 DEF RecordsAndLogsAgree, TypeOK, Transaction
  <1>3. tx.ledger \in Orgs
    BY DEF void_transaction
  <1>4. log \in Seq(AuditLog) /\ PublicConsistent(tx, log)
    BY <1>1, <1>3, PublicRecord
  <1>5. tx2 \in Transaction /\ Consistent(tx2, log2)
    BY <1>1, <1>2, <1>3, <1>4, VoidConsistent
  <1>6. log2 \in Seq(AuditLog)
    BY <1>4, LoggedType DEF AuditAction
  <1>7. /\ transactions' = [transactions EXCEPT ![t] = tx2]
        /\ audit_logs' = [audit_logs EXCEPT ![t] = log2]
    BY DEF void_transaction, Record
  <1> HIDE DEF tx2, log2
  <1>8. QED
    BY <1>1, <1>5, <1>6, <1>7, OneTransactionStep

\* Creation on a public ledger, approved at once or not, and on a personal one.
LEMMA CreateAgrees ==
    ASSUME RecordsAndLogsAgree, NEW t \in TxIds, NEW u \in Users, NEW l \in Ledgers,
           NEW account \in Account, NEW category, NEW kind \in TransactionKind,
           NEW amount \in Amounts, NEW m \in MutationIds \cup {None},
           create_transaction(t, u, l, account, category, kind, amount, m)
    PROVE  RecordsAndLogsAgree'
  <1> DEFINE chosen == ChosenCategory(l, kind, category)
             new == draft(u, l, account, chosen, kind, amount, m)
             log == audit_logs[t]
  <1>1. /\ transactions[t] = None /\ kind # "Transfer" /\ chosen \in categories
        /\ TransactionUnchanged
    BY DEF create_transaction
  <1>2. log \in Seq(AuditLog) /\ Len(log) = 0
    <2>1. log \in Seq(AuditLog) /\ log = <<>>
      BY <1>1 DEF RecordsAndLogsAgree, TypeOK, Consistent
    <2>2. QED
      BY <2>1
  <1>3. chosen \in Category /\ kind \in {"Income", "Expense"}
    BY <1>1 DEF RecordsAndLogsAgree, TypeOK, TransactionKind
  <1> HIDE DEF chosen
  <1>4. new \in Transaction
    <2>1. /\ "Draft" \in ApprovalState /\ "NotApplicable" \in PaymentState
          /\ None \in OptUser /\ 1 \in Nat
      BY DEF ApprovalState, PaymentState, OptUser
    <2>2. QED
      BY <1>3, <2>1 DEF draft, Transaction
  <1>5. /\ new.ledger = l /\ new.kind = kind /\ new.created_by = u /\ new.version = 1
        /\ new.payment_state = "NotApplicable" /\ new.approved_by = None
        /\ new.paid_by = None /\ new.received_by = None
    BY DEF draft
  <1> HIDE DEF new
  <1>6. ASSUME l \in Orgs, NEW tx2, NEW a \in AuditAction, tx2 \in Transaction,
               Opened(tx2, u, a),
               transactions' = [transactions EXCEPT ![t] = tx2],
               audit_logs' = [audit_logs EXCEPT ![t] = Logged(log, a, u)]
        PROVE  RecordsAndLogsAgree'
    <2>1. Consistent(tx2, Logged(log, a, u))
      BY <1>2, <1>6, CreateConsistent
    <2>2. Logged(log, a, u) \in Seq(AuditLog)
      BY <1>2, <1>6, LoggedType
    <2>3. QED
      BY <1>1, <1>6, <2>1, <2>2, OneTransactionStep
  <1>7. CASE l \in Orgs /\ AutoApprove(u, l)
    <2> DEFINE tx2 == AutoApproved(new, u)
    <2>1. tx2 \in Transaction
      <3>1. /\ "Approved" \in ApprovalState /\ u \in OptUser
            /\ PaymentOnApproval(new) \in PaymentState
        BY <1>5 DEF ApprovalState, OptUser, PaymentState, PaymentOnApproval
      <3>2. QED
        BY <1>4, <3>1 DEF AutoApproved, Transaction
    <2>2. Opened(tx2, u, "auto_approved")
      <3>1. /\ tx2.ledger = l /\ tx2.kind = kind /\ tx2.created_by = u /\ tx2.submitted_by = u
            /\ tx2.approval_state = "Approved" /\ tx2.version = 1
            /\ tx2.payment_state = (IF kind = "Expense" THEN "PendingPayment" ELSE "NotApplicable")
            /\ tx2.approved_by = None /\ tx2.paid_by = None /\ tx2.received_by = None
        BY <1>4, <1>5 DEF AutoApproved, Transaction, PaymentOnApproval
      <3> HIDE DEF tx2
      <3>2. QED
        BY <1>3, <1>7, <3>1 DEF Opened
    <2>3. /\ transactions' = [transactions EXCEPT ![t] = tx2]
          /\ audit_logs' = [audit_logs EXCEPT ![t] = Logged(log, "auto_approved", u)]
      BY <1>7 DEF create_transaction, Record, new, chosen
    <2>4. "auto_approved" \in AuditAction
      BY DEF AuditAction
    <2> HIDE DEF tx2
    <2>5. QED
      BY <1>6, <1>7, <2>1, <2>2, <2>3, <2>4
  <1>8. CASE l \in Orgs /\ ~AutoApprove(u, l)
    <2> DEFINE tx2 == Submitted(new, u)
    <2>1. tx2 \in Transaction
      <3>1. "Submitted" \in ApprovalState /\ u \in OptUser
        BY DEF ApprovalState, OptUser
      <3>2. QED
        BY <1>4, <3>1 DEF Submitted, Transaction
    <2>2. Opened(tx2, u, "submitted")
      <3>1. /\ tx2.ledger = l /\ tx2.kind = kind /\ tx2.created_by = u /\ tx2.submitted_by = u
            /\ tx2.approval_state = "Submitted" /\ tx2.version = 1
            /\ tx2.payment_state = "NotApplicable"
            /\ tx2.approved_by = None /\ tx2.paid_by = None /\ tx2.received_by = None
        BY <1>4, <1>5 DEF Submitted, Transaction
      <3> HIDE DEF tx2
      <3>2. QED
        BY <1>3, <1>8, <3>1 DEF Opened
    <2>3. /\ transactions' = [transactions EXCEPT ![t] = tx2]
          /\ audit_logs' = [audit_logs EXCEPT ![t] = Logged(log, "submitted", u)]
      BY <1>8 DEF create_transaction, Record, new, chosen
    <2>4. "submitted" \in AuditAction
      BY DEF AuditAction
    <2> HIDE DEF tx2
    <2>5. QED
      BY <1>6, <1>8, <2>1, <2>2, <2>3, <2>4
  <1>9. CASE l \notin Orgs
    <2> DEFINE tx2 == PersonalEntry(new, u)
    <2>1. tx2 \in Transaction
      <3>1. "Approved" \in ApprovalState /\ u \in OptUser
        BY DEF ApprovalState, OptUser
      <3>2. QED
        BY <1>4, <3>1 DEF PersonalEntry, Transaction
    <2>2. /\ tx2.ledger = l /\ tx2.kind = kind /\ tx2.approval_state = "Approved"
          /\ tx2.payment_state = "NotApplicable" /\ tx2.paid_by = None /\ tx2.received_by = None
      BY <1>4, <1>5 DEF PersonalEntry, Transaction
    <2>3. /\ transactions' = [transactions EXCEPT ![t] = tx2]
          /\ audit_logs' = audit_logs
      BY <1>9 DEF create_transaction, new, chosen
    <2> HIDE DEF tx2
    <2>4. PersonalConsistent(tx2, log)
      <3>1. log = <<>>
        BY <1>2
      <3>2. QED
        BY <1>3, <2>2, <3>1 DEF PersonalConsistent, RecordShape
    <2>5. Consistent(tx2, log)
      BY <1>9, <2>1, <2>2, <2>4, NoTransaction DEF Consistent
    <2>6. audit_logs' = [audit_logs EXCEPT ![t] = log]
      BY <2>3 DEF RecordsAndLogsAgree, TypeOK
    <2>7. QED
      BY <1>1, <1>2, <2>1, <2>3, <2>5, <2>6, OneTransactionStep
  <1>10. QED
    BY <1>7, <1>8, <1>9

\* Every step of the service keeps the invariant.
LEMMA StepAgrees ==
    ASSUME RecordsAndLogsAgree, [Next]_vars
    PROVE  RecordsAndLogsAgree'
  <1>1. ASSUME UNCHANGED <<transactions, audit_logs>>, TypeOK'
        PROVE  RecordsAndLogsAgree'
    BY <1>1 DEF RecordsAndLogsAgree
  <1>2. CASE UNCHANGED vars
    <2>1. TypeOK'
      BY <1>2 DEF RecordsAndLogsAgree, TypeOK, vars
    <2>2. QED
      BY <1>1, <1>2, <2>1 DEF vars
  <1>3. CASE ManageNext
    <2>1. TypeOK
      BY DEF RecordsAndLogsAgree
    <2>2. QED
      BY <1>1, <1>3, <2>1, ManageTypes
  <1>4. CASE CreateNext
    BY <1>4, CreateAgrees DEF CreateNext
  <1>5. CASE DecideNext
    BY <1>5, DecideAgrees, VoidAgrees, PayAgrees, ReceiveAgrees DEF DecideNext
  <1>6. QED
    BY <1>2, <1>3, <1>4, <1>5 DEF Next

(***************************************************************************)
(* In every state of the service, whatever the numbers of people,          *)
(* organizations and transactions, each record and its audit log agree in  *)
(* full detail.  RecordsAndLogsAgree is inductive on its own.              *)
(***************************************************************************)
THEOREM RecordsAndLogsAlwaysAgree == Spec => []RecordsAndLogsAgree
  <1>1. Init => RecordsAndLogsAgree
    <2> SUFFICES ASSUME Init PROVE RecordsAndLogsAgree
      OBVIOUS
    <2>1. TypeOK
      BY DEF Init, TypeOK
    <2>2. \A t \in TxIds : Consistent(transactions[t], audit_logs[t])
      BY DEF Init, Consistent
    <2>3. QED
      BY <2>1, <2>2 DEF RecordsAndLogsAgree
  <1>2. RecordsAndLogsAgree /\ [Next]_vars => RecordsAndLogsAgree'
    BY StepAgrees
  <1>3. QED
    BY <1>1, <1>2, PTL DEF Spec

-----------------------------------------------------------------------------
(* What follows from the invariant.                                        *)

(***************************************************************************)
(* The state of the service keeps its types.                               *)
(***************************************************************************)
THEOREM TypesKept == Spec => []TypeOK
  <1>1. RecordsAndLogsAgree => TypeOK
    BY DEF RecordsAndLogsAgree
  <1>2. QED
    BY <1>1, RecordsAndLogsAlwaysAgree, PTL

\* The part of the invariant about a transaction on a public ledger.
LEMMA PublicTxConsistent ==
    ASSUME RecordsAndLogsAgree, NEW t \in PublicTx
    PROVE  /\ t \in TxIds /\ transactions[t] \in Transaction
           /\ audit_logs[t] \in Seq(AuditLog)
           /\ PublicConsistent(transactions[t], audit_logs[t])
  BY PublicRecord DEF PublicTx

(***************************************************************************)
(* A transaction on a public ledger can always be rebuilt from its audit   *)
(* log: version, states and actors are the ones the log tells.             *)
(***************************************************************************)
THEOREM AuditLogAlwaysTellsState == Spec => []AuditLogTellsState
  <1>1. RecordsAndLogsAgree => AuditLogTellsState
    BY PublicTxConsistent DEF AuditLogTellsState, PublicConsistent
  <1>2. QED
    BY <1>1, RecordsAndLogsAlwaysAgree, PTL

(***************************************************************************)
(* The audit log of every transaction is always a path of the workflow.    *)
(***************************************************************************)
THEOREM AuditLogAlwaysFollowsWorkflow == Spec => []AuditLogFollowsWorkflow
  <1>1. RecordsAndLogsAgree => AuditLogFollowsWorkflow
    BY PublicTxConsistent DEF AuditLogFollowsWorkflow, PublicConsistent
  <1>2. QED
    BY <1>1, RecordsAndLogsAlwaysAgree, PTL

(***************************************************************************)
(* Nobody ever decided an own application, and only the applicant ever     *)
(* confirmed a receipt, however roles changed between the steps.           *)
(***************************************************************************)
THEOREM DutiesAlwaysSeparated == Spec => []DutiesSeparated
  <1>1. RecordsAndLogsAgree => DutiesSeparated
    BY PublicTxConsistent DEF DutiesSeparated, PublicConsistent
  <1>2. QED
    BY <1>1, RecordsAndLogsAlwaysAgree, PTL

\* A transaction counts in a balance exactly when its log says money moved.
LEMMA PostedAsTheLogSays ==
    ASSUME RecordsAndLogsAgree
    PROVE  PostedAsLogged
  <1> SUFFICES ASSUME NEW t \in Existing
               PROVE  transaction_affects_balance(transactions[t]) <=> BookedFromLog(t)
    BY DEF PostedAsLogged
  <1>1. t \in TxIds /\ transactions[t] # None
    BY DEF Existing
  <1>2. CASE transactions[t].ledger \in Orgs
    <2>1. t \in PublicTx
      BY <1>1, <1>2 DEF PublicTx
    <2>2. PublicConsistent(transactions[t], audit_logs[t])
      BY <2>1, PublicTxConsistent
    <2> DEFINE tx == transactions[t]
               log == audit_logs[t]
    <2>3. /\ tx.kind \in {"Income", "Expense"} /\ tx.approval_state = ApprovalFromLog(log)
          /\ tx.payment_state = PaymentFromLog(tx.kind, log)
          /\ tx.approval_state \in {"Submitted", "Rejected"} => tx.payment_state = "NotApplicable"
          /\ tx.approval_state = "Rejected" =>
                ~Happened(log, "approved") /\ ~Happened(log, "auto_approved")
          /\ tx.kind = "Expense" /\ tx.approval_state = "Approved"
                => tx.payment_state # "NotApplicable"
      BY <2>2 DEF PublicConsistent, RecordShape, LogTells
    <2>4. BookedFromLog(t) <=>
            /\ IF tx.kind = "Income"
               THEN Happened(log, "approved") \/ Happened(log, "auto_approved")
               ELSE Happened(log, "paid")
            /\ ~Happened(log, "voided")
      BY <2>1 DEF BookedFromLog
    <2>5. tx \in Transaction /\ log \in Seq(AuditLog)
      BY <2>1, PublicTxConsistent
    <2> HIDE DEF tx, log
    <2>6. ASSUME tx.payment_state = "Received" PROVE Happened(log, "paid")
      <3>1. RecordShape(tx) /\ LogTells(tx, log)
        BY <2>2 DEF PublicConsistent, tx, log
      <3>2. tx.paid_by \in Users
        BY <2>5, <2>6, <3>1 DEF RecordShape, Transaction, OptUser
      <3>3. DoneBy(log, "paid", tx.paid_by)
        BY <3>1, <3>2 DEF LogTells
      <3>4. QED
        BY <2>5, <3>2, <3>3, HappenedIsDone
    <2>7. transaction_affects_balance(tx) <=>
            /\ IF tx.kind = "Income"
               THEN Happened(log, "approved") \/ Happened(log, "auto_approved")
               ELSE Happened(log, "paid")
            /\ ~Happened(log, "voided")
      BY <2>3, <2>6 DEF transaction_affects_balance, ApprovalFromLog, PaymentFromLog
    <2>8. QED
      BY <2>4, <2>7 DEF tx
  <1>3. CASE transactions[t].ledger \notin Orgs
    <2>1. t \notin PublicTx
      BY <1>3 DEF PublicTx
    <2>2. PersonalConsistent(transactions[t], audit_logs[t])
      BY <1>1, <1>3 DEF RecordsAndLogsAgree, Consistent
    <2>3. QED
      BY <2>1, <2>2 DEF PersonalConsistent, RecordShape, BookedFromLog,
         transaction_affects_balance
  <1>4. QED
    BY <1>2, <1>3

(***************************************************************************)
(* The balance of every account is always the sum of what the audit log    *)
(* says was earned or paid out and not voided.                             *)
(***************************************************************************)
THEOREM BalanceAlwaysFollowsLog == Spec => []BalanceFollowsLog
  <1>1. RecordsAndLogsAgree => BalanceFollowsLog
    <2> SUFFICES ASSUME RecordsAndLogsAgree, NEW account \in Account
                 PROVE  account_balance_minor(account) =
                          LET booked == {t \in Existing : /\ transactions[t].account = account
                                                          /\ BookedFromLog(t)}
                          IN  SumFunction([t \in booked |-> SignedAmount(transactions[t])])
      BY DEF BalanceFollowsLog
    <2>1. {t \in Existing : /\ transactions[t].account = account
                            /\ transaction_affects_balance(transactions[t])}
          = {t \in Existing : /\ transactions[t].account = account
                              /\ BookedFromLog(t)}
      BY PostedAsTheLogSays DEF PostedAsLogged
    <2>2. QED
      BY <2>1 DEF account_balance_minor
  <1>2. QED
    BY <1>1, RecordsAndLogsAlwaysAgree, PTL

-----------------------------------------------------------------------------
(* Memberships.                                                            *)

\* The one Owner of an organization is always its last one.
LEMMA OnlyOwnerIsLast ==
    ASSUME TeamsFit, NEW o \in Orgs, NEW u \in Users, NEW role,
           memberships[o][u] = "Owner", role # "Owner"
    PROVE  LastOwnerDenied(o, u, role)
  <1>1. {v \in Users : memberships[o][v] = "Owner"} = {u}
    BY DEF TeamsFit
  <1>2. Cardinality({u}) = 1
    BY FS_Singleton
  <1>3. owner_count(o) <= 1
    BY <1>1, <1>2 DEF owner_count
  <1>4. QED
    BY <1>3 DEF LastOwnerDenied

\* A new organization gets the one Owner, who is new to the service.
LEMMA CreateOrganizationTeams ==
    ASSUME TypeOK, TeamsFit, NEW o \in Orgs, NEW admin \in Users,
           create_organization(o, admin)
    PROVE  TeamsFit'
  <1>1. /\ o \notin organizations /\ admin \notin users
        /\ organizations' = organizations \cup {o} /\ users' = users \cup {admin}
        /\ ledgers' = ledgers \cup {o}
        /\ memberships' = [memberships EXCEPT ![o][admin] = "Owner"]
    BY DEF create_organization
  <1>2. /\ \A u \in Users : memberships[o][u] = None
        /\ \A p \in Orgs : memberships[p][admin] = None
        /\ admin \notin ledgers
    BY <1>1 DEF TeamsFit, MembershipRowsFit
  <1>3. \A p \in Orgs, u \in Users :
            memberships'[p][u] = IF p = o /\ u = admin THEN "Owner" ELSE memberships[p][u]
    BY <1>1 DEF TypeOK
  <1>4. None # "Owner" /\ o \notin Users
    BY LedgerConstants DEF MembershipRole
  <1>5. OwnersKept'
    BY <1>1, <1>2, <1>3, <1>4 DEF TeamsFit, OwnersKept, TypeOK
  <1>6. MembershipRowsFit'
    BY <1>1, <1>3 DEF TeamsFit, MembershipRowsFit
  <1>7. QED
    BY <1>1, <1>2, <1>3, <1>4, <1>5, <1>6 DEF TeamsFit

\* The role of one person in one organization changes to an employee's role
\* or to none.  Nobody is deposed, and no second membership arises.
LEMMA RoleChangeTeams ==
    ASSUME TypeOK, TeamsFit, NEW o \in Orgs, NEW u \in Users,
           NEW role \in EmployeeRoles \cup {None},
           memberships[o][u] # "Owner",
           role # None => o \in organizations /\ u \in users',
           role # None => \A p \in Orgs \ {o} : memberships[p][u] = None,
           memberships' = [memberships EXCEPT ![o][u] = role],
           organizations' = organizations,
           users \subseteq users', ledgers' = ledgers \/ ledgers' = ledgers \cup {u},
           ledgers' # ledgers => u \in users' /\ role # None
    PROVE  TeamsFit'
  <1>1. \A p \in Orgs, v \in Users :
            memberships'[p][v] = IF p = o /\ v = u THEN role ELSE memberships[p][v]
    BY DEF TypeOK
  <1>2. role # "Owner" /\ None # "Owner"
    BY LedgerConstants DEF EmployeeRoles, MembershipRole
  <1>3. \A p \in Orgs, v \in Users :
            memberships'[p][v] = "Owner" <=> memberships[p][v] = "Owner"
    BY <1>1, <1>2
  <1>4. role # None => \A p \in Orgs : memberships[p][u] # "Owner"
    BY <1>2
  <1>5. \A p \in organizations' : \E v \in Users : memberships'[p][v] = "Owner"
    BY <1>3 DEF TeamsFit, OwnersKept, TypeOK
  <1>6. \A p, q \in Orgs, v \in Users :
            memberships'[p][v] # None /\ memberships'[q][v] # None => p = q
    BY <1>1 DEF TeamsFit, OwnersKept
  <1>7. \A p \in Orgs, v \in Users : memberships'[p][v] = "Owner" => v \notin ledgers'
    BY <1>3, <1>4 DEF TeamsFit, OwnersKept
  <1>8. MembershipRowsFit'
    BY <1>1 DEF TeamsFit, MembershipRowsFit, EmployeeRoles
  <1>9. \A p \in Orgs, v, w \in Users :
            memberships'[p][v] = "Owner" /\ memberships'[p][w] = "Owner" => v = w
    BY <1>3 DEF TeamsFit
  <1>10. (ledgers \cap Users \subseteq users)'
    BY DEF TeamsFit
  <1>11. OwnersKept'
    BY <1>5, <1>6, <1>7 DEF OwnersKept
  <1>12. QED
    BY <1>8, <1>9, <1>10, <1>11 DEF TeamsFit

\* Every call that manages people and categories keeps the teams in order.
LEMMA ManageTeams ==
    ASSUME TypeOK, TeamsFit, ManageNext
    PROVE  TeamsFit'
  <1>1. ASSUME NEW o \in Orgs, NEW u \in Users, create_organization(o, u)
        PROVE  TeamsFit'
    BY <1>1, CreateOrganizationTeams
  <1>2. ASSUME NEW u \in Users, ensure_user_identity(u)
        PROVE  TeamsFit'
    BY <1>2 DEF ensure_user_identity, TeamsFit, OwnersKept, MembershipRowsFit
  <1>3. ASSUME NEW o \in Orgs, NEW u \in Users, NEW role \in EmployeeRoles,
               add_organization_member(o, u, role)
        PROVE  TeamsFit'
    <2>1. role # None /\ role # "Owner"
      BY LedgerConstants DEF EmployeeRoles, MembershipRole
    <2>2. memberships[o][u] # "Owner"
      BY <1>3, <2>1, OnlyOwnerIsLast DEF add_organization_member
    <2>3. /\ o \in organizations /\ users' = users \cup {u} /\ ledgers' = ledgers \cup {u}
          /\ organizations' = organizations
          /\ \A p \in Orgs \ {o} : memberships[p][u] = None
          /\ memberships' = [memberships EXCEPT ![o][u] = role]
      BY <1>3 DEF add_organization_member
    <2>4. QED
      BY <2>1, <2>2, <2>3, RoleChangeTeams
  <1>4. ASSUME NEW o \in Orgs, NEW u \in Users, NEW role \in EmployeeRoles,
               update_organization_member_role(o, u, role)
        PROVE  TeamsFit'
    <2>1. /\ o \in organizations /\ memberships[o][u] # None /\ memberships[o][u] # "Owner"
          /\ UNCHANGED <<users, organizations, ledgers>>
          /\ memberships' = [memberships EXCEPT ![o][u] = role]
      BY <1>4 DEF update_organization_member_role, BusinessMember
    <2>2. u \in users /\ \A p \in Orgs \ {o} : memberships[p][u] = None
      BY <2>1 DEF TeamsFit, MembershipRowsFit, OwnersKept
    <2>3. QED
      BY <2>1, <2>2, RoleChangeTeams
  <1>5. ASSUME NEW o \in Orgs, NEW u \in Users, remove_organization_member(o, u)
        PROVE  TeamsFit'
    <2>1. /\ memberships[o][u] # "Owner"
          /\ UNCHANGED <<users, organizations, ledgers>>
          /\ memberships' = [memberships EXCEPT ![o][u] = None]
      BY <1>5 DEF remove_organization_member, BusinessMember
    <2>2. QED
      BY <2>1, RoleChangeTeams
  <1>6. ASSUME NEW u \in Users, NEW l \in Ledgers, NEW kind \in CategoryKind,
               NEW name \in CategoryNames, create_category(u, l, kind, name)
        PROVE  TeamsFit'
    BY <1>6 DEF create_category, TeamsFit, OwnersKept, MembershipRowsFit
  <1>7. QED
    BY <1>1, <1>2, <1>3, <1>4, <1>5, <1>6 DEF ManageNext

\* The calls that handle transactions leave people, roles and ledgers alone.
LEMMA TransactionsLeaveTeams ==
    ASSUME CreateNext \/ DecideNext
    PROVE  TransactionUnchanged
  BY DEF CreateNext, DecideNext, create_transaction, decide_approval, void_transaction,
     mark_transaction_paid, confirm_transaction_receipt

LEMMA StepTeams ==
    ASSUME TypeOK, TeamsFit, [Next]_vars
    PROVE  TeamsFit'
  <1>1. ASSUME TransactionUnchanged PROVE TeamsFit'
    BY <1>1 DEF TransactionUnchanged, TeamsFit, OwnersKept, MembershipRowsFit
  <1>2. CASE UNCHANGED vars
    BY <1>1, <1>2 DEF vars, TransactionUnchanged
  <1>3. CASE ManageNext
    BY <1>3, ManageTeams
  <1>4. CASE CreateNext \/ DecideNext
    BY <1>1, <1>4, TransactionsLeaveTeams
  <1>5. QED
    BY <1>2, <1>3, <1>4 DEF Next

(***************************************************************************)
(* Whatever the order of additions, role changes and removals, every       *)
(* organization has exactly one Owner, nobody belongs to two, and only     *)
(* known users are members or own a personal ledger.                       *)
(***************************************************************************)
THEOREM TeamsAlwaysFit == Spec => []TeamsFit
  <1>1. Init => TeamsFit
    <2>1. None # "Owner"
      BY LedgerConstants DEF MembershipRole
    <2>2. QED
      BY <2>1 DEF Init, TeamsFit, OwnersKept, MembershipRowsFit
  <1>2. TypeOK /\ TeamsFit /\ [Next]_vars => TeamsFit'
    BY StepTeams
  <1>3. QED
    BY <1>1, <1>2, TypesKept, PTL DEF Spec

(***************************************************************************)
(* Every organization keeps its Owner, nobody belongs to two               *)
(* organizations, and an Owner never has a personal ledger.                *)
(***************************************************************************)
THEOREM OwnersAlwaysKept == Spec => []OwnersKept
  <1>1. TeamsFit => OwnersKept
    BY DEF TeamsFit
  <1>2. QED
    BY <1>1, TeamsAlwaysFit, PTL

-----------------------------------------------------------------------------
(* The shape of a step on a transaction.                                   *)

\* What was recorded at the creation stays.
SameFacts(new, old) ==
    \A f \in {"client_mutation_id", "ledger", "account", "category",
              "kind", "amount", "created_by", "submitted_by"} : new[f] = old[f]

\* A move of the lifecycle, with its effect on the balance.
Moves(old, new) ==
    \/ /\ StageOf(old) = "submitted" /\ StageOf(new) \in {"rejected", "awaiting_payment"}
       /\ ~transaction_affects_balance(old) /\ ~transaction_affects_balance(new)
    \/ /\ StageOf(old) = "submitted" /\ StageOf(new) = "settled"
       /\ transaction_affects_balance(new)
    \/ /\ StageOf(old) = "awaiting_payment" /\ StageOf(new) = "paid"
       /\ transaction_affects_balance(new)
    \/ /\ StageOf(old) = "paid" /\ StageOf(new) = "received"
       /\ transaction_affects_balance(old) /\ transaction_affects_balance(new)
    \/ /\ StageOf(old) \in {"awaiting_payment", "paid", "received", "settled"}
       /\ StageOf(new) = "voided" /\ ~transaction_affects_balance(new)

\* How u's call changes the record old of a transaction on a public ledger.
Develops(new, old, u) ==
    /\ new \in Transaction
    /\ SameFacts(new, old)
    /\ Actors(new) \subseteq Actors(old) \cup {u}
    /\ old.approval_state \notin {"Rejected", "Voided"}
    /\ Moves(old, new)

LEMMA ApprovedDevelops ==
    ASSUME NEW tx \in Transaction, NEW u \in Users, RecordShape(tx),
           tx.approval_state = "Submitted", Approved(tx, u) \in Transaction
    PROVE  Develops(Approved(tx, u), tx, u)
  <1> DEFINE tx2 == Approved(tx, u)
  <1>1. /\ SameFacts(tx2, tx)
        /\ tx2.approval_state = "Approved" /\ tx2.approved_by = u
        /\ tx2.payment_state = (IF tx.kind = "Expense" THEN "PendingPayment" ELSE tx.payment_state)
        /\ tx2.paid_by = tx.paid_by /\ tx2.received_by = tx.received_by
        /\ tx2.kind = tx.kind /\ tx2.created_by = tx.created_by
        /\ tx2.submitted_by = tx.submitted_by
    BY DEF Approved, Transaction, PaymentOnApproval, SameFacts
  <1>2. tx # None /\ tx2 # None /\ tx2 \in Transaction
    BY NoTransaction
  <1> HIDE DEF tx2
  <1>3. Actors(tx2) \subseteq Actors(tx) \cup {u}
    BY <1>1 DEF Actors
  <1>4. Moves(tx, tx2)
    BY <1>1, <1>2 DEF Moves, StageOf, transaction_affects_balance, RecordShape
  <1>5. QED
    BY <1>1, <1>2, <1>3, <1>4 DEF Develops, tx2

LEMMA RejectedDevelops ==
    ASSUME NEW tx \in Transaction, NEW u \in Users,
           tx.approval_state = "Submitted", Rejected(tx) \in Transaction
    PROVE  Develops(Rejected(tx), tx, u)
  <1> DEFINE tx2 == Rejected(tx)
  <1>1. /\ SameFacts(tx2, tx)
        /\ tx2.approval_state = "Rejected" /\ tx2.approved_by = tx.approved_by
        /\ tx2.paid_by = tx.paid_by /\ tx2.received_by = tx.received_by
        /\ tx2.created_by = tx.created_by /\ tx2.submitted_by = tx.submitted_by
    BY DEF Rejected, Transaction, SameFacts
  <1>2. tx # None /\ tx2 # None /\ tx2 \in Transaction
    BY NoTransaction
  <1> HIDE DEF tx2
  <1>3. Actors(tx2) \subseteq Actors(tx) \cup {u}
    BY <1>1 DEF Actors
  <1>4. Moves(tx, tx2)
    BY <1>1, <1>2 DEF Moves, StageOf, transaction_affects_balance
  <1>5. QED
    BY <1>1, <1>2, <1>3, <1>4 DEF Develops, tx2

LEMMA PaidDevelops ==
    ASSUME NEW tx \in Transaction, NEW u \in Users, RecordShape(tx),
           Payable(tx), Paid(tx, u) \in Transaction
    PROVE  Develops(Paid(tx, u), tx, u)
  <1> DEFINE tx2 == Paid(tx, u)
  <1>1. /\ SameFacts(tx2, tx)
        /\ tx2.approval_state = tx.approval_state /\ tx2.approved_by = tx.approved_by
        /\ tx2.payment_state = "PaidPendingReceipt"
        /\ tx2.paid_by = u /\ tx2.received_by = tx.received_by
        /\ tx2.kind = tx.kind /\ tx2.created_by = tx.created_by
        /\ tx2.submitted_by = tx.submitted_by
    BY DEF Paid, Transaction, SameFacts
  <1>2. tx # None /\ tx2 # None /\ tx2 \in Transaction
    BY NoTransaction
  <1> HIDE DEF tx2
  <1>3. Actors(tx2) \subseteq Actors(tx) \cup {u}
    BY <1>1 DEF Actors
  <1>4. Moves(tx, tx2)
    BY <1>1, <1>2 DEF Moves, StageOf, transaction_affects_balance, RecordShape, Payable
  <1>5. QED
    BY <1>1, <1>2, <1>3, <1>4 DEF Develops, tx2, Payable

LEMMA ReceivedDevelops ==
    ASSUME NEW tx \in Transaction, NEW u \in Users, RecordShape(tx),
           Receivable(tx), Received(tx, u) \in Transaction
    PROVE  Develops(Received(tx, u), tx, u)
  <1> DEFINE tx2 == Received(tx, u)
  <1>1. /\ SameFacts(tx2, tx)
        /\ tx2.approval_state = tx.approval_state /\ tx2.approved_by = tx.approved_by
        /\ tx2.payment_state = "Received"
        /\ tx2.paid_by = tx.paid_by /\ tx2.received_by = u
        /\ tx2.kind = tx.kind /\ tx2.created_by = tx.created_by
        /\ tx2.submitted_by = tx.submitted_by
    BY DEF Received, Transaction, SameFacts
  <1>2. tx # None /\ tx2 # None /\ tx2 \in Transaction
    BY NoTransaction
  <1> HIDE DEF tx2
  <1>3. Actors(tx2) \subseteq Actors(tx) \cup {u}
    BY <1>1 DEF Actors
  <1>4. Moves(tx, tx2)
    BY <1>1, <1>2 DEF Moves, StageOf, transaction_affects_balance, RecordShape, Receivable
  <1>5. QED
    BY <1>1, <1>2, <1>3, <1>4 DEF Develops, tx2, Receivable

LEMMA VoidedDevelops ==
    ASSUME NEW tx \in Transaction, NEW u \in Users,
           Voidable(tx), Voided(tx) \in Transaction
    PROVE  Develops(Voided(tx), tx, u)
  <1> DEFINE tx2 == Voided(tx)
  <1>1. /\ SameFacts(tx2, tx)
        /\ tx2.approval_state = "Voided" /\ tx2.approved_by = tx.approved_by
        /\ tx2.paid_by = tx.paid_by /\ tx2.received_by = tx.received_by
        /\ tx2.created_by = tx.created_by /\ tx2.submitted_by = tx.submitted_by
    BY DEF Voided, Transaction, SameFacts
  <1>2. tx # None /\ tx2 # None /\ tx2 \in Transaction
    BY NoTransaction
  <1>0. tx.payment_state \in PaymentState
    BY DEF Transaction
  <1> HIDE DEF tx2
  <1>3. Actors(tx2) \subseteq Actors(tx) \cup {u}
    BY <1>1 DEF Actors
  <1>4. Moves(tx, tx2)
    BY <1>0, <1>1, <1>2 DEF Moves, StageOf, transaction_affects_balance, Voidable, PaymentState
  <1>5. QED
    BY <1>1, <1>2, <1>3, <1>4 DEF Develops, tx2, Voidable

\* A step of u on the existing transaction t of a public ledger.
FollowUp(t, u) ==
    /\ t \in TxIds /\ transactions[t] \in Transaction /\ transactions[t].ledger \in Orgs
    /\ \E action \in Action : authorized(u, transactions[t].ledger, action)
    /\ TransactionUnchanged
    /\ \E new \in Transaction, a \in AuditAction :
          /\ Develops(new, transactions[t], u)
          /\ transactions' = [transactions EXCEPT ![t] = new]
          /\ audit_logs' = [audit_logs EXCEPT ![t] = Logged(audit_logs[t], a, u)]

\* The decision, payment, receipt and voiding of a transaction are such steps.
LEMMA DecideNextFollowsUp ==
    ASSUME RecordsAndLogsAgree, DecideNext
    PROVE  \E t \in TxIds, u \in Users : FollowUp(t, u)
  <1>1. ASSUME NEW t \in TxIds, NEW u \in Users, NEW action \in Action,
               NEW new, NEW a \in AuditAction,
               transactions[t] # None, transactions[t].ledger \in Orgs,
               authorized(u, transactions[t].ledger, action), TransactionUnchanged,
               Develops(new, transactions[t], u),
               transactions' = [transactions EXCEPT ![t] = new], Record(t, a, u)
        PROVE  FollowUp(t, u)
    <2>1. transactions[t] \in Transaction
      BY <1>1, PublicRecord
    <2>2. audit_logs' = [audit_logs EXCEPT ![t] = Logged(audit_logs[t], a, u)]
      BY <1>1 DEF Record
    <2>3. new \in Transaction
      BY <1>1 DEF Develops
    <2>4. QED
      BY <1>1, <2>1, <2>2, <2>3 DEF FollowUp
  <1>2. ASSUME NEW t \in TxIds, transactions[t] # None, transactions[t].ledger \in Orgs
        PROVE  /\ transactions[t] \in Transaction /\ audit_logs[t] \in Seq(AuditLog)
               /\ PublicConsistent(transactions[t], audit_logs[t])
               /\ RecordShape(transactions[t])
    BY <1>2, PublicRecord DEF PublicConsistent
  <1>3. ASSUME NEW t \in TxIds, NEW u \in Users, transactions[t] # None,
               NEW action \in {"ApproveTransaction", "MarkTransactionPaid", "ConfirmReceipt"},
               authorized(u, transactions[t].ledger, action)
        PROVE  transactions[t].ledger \in Orgs
    <2>1. transactions[t].ledger \in Ledgers
      BY <1>3 DEF RecordsAndLogsAgree, TypeOK, Transaction
    <2>2. QED
      BY <1>3, <2>1, PublicOnly
  <1>4. ASSUME NEW t \in TxIds, NEW u \in Users, NEW decision, decide_approval(t, u, decision)
        PROVE  FollowUp(t, u)
    <2> DEFINE tx == transactions[t]
    <2>1. /\ tx # None /\ tx.approval_state = "Submitted" /\ ~SelfApproval(u, tx)
          /\ authorized(u, tx.ledger, "ApproveTransaction") /\ TransactionUnchanged
      BY <1>4 DEF decide_approval
    <2>2. tx.ledger \in Orgs
      BY <1>3, <2>1
    <2>3. "ApproveTransaction" \in Action /\ "approved" \in AuditAction /\ "rejected" \in AuditAction
      BY DEF Action, AuditAction
    <2>4. CASE transactions' = [transactions EXCEPT ![t] = Approved(tx, u)] /\ Record(t, "approved", u)
      <3>1. Approved(tx, u) \in Transaction
        BY <1>2, <2>1, <2>2, ApproveConsistent
      <3>2. Develops(Approved(tx, u), tx, u)
        BY <1>2, <2>1, <2>2, <3>1, ApprovedDevelops
      <3>3. QED
        BY <1>1, <2>1, <2>2, <2>3, <2>4, <3>2
    <2>5. CASE transactions' = [transactions EXCEPT ![t] = Rejected(tx)] /\ Record(t, "rejected", u)
      <3>1. Rejected(tx) \in Transaction
        BY <1>2, <2>1, <2>2, RejectConsistent
      <3>2. Develops(Rejected(tx), tx, u)
        BY <1>2, <2>1, <2>2, <3>1, RejectedDevelops
      <3>3. QED
        BY <1>1, <2>1, <2>2, <2>3, <2>5, <3>2
    <2>6. QED
      BY <1>4, <2>4, <2>5 DEF decide_approval
  <1>5. ASSUME NEW t \in TxIds, NEW u \in Users, void_transaction(t, u)
        PROVE  FollowUp(t, u)
    <2> DEFINE tx == transactions[t]
    <2>1. /\ tx # None /\ tx.ledger \in Orgs /\ Voidable(tx) /\ TransactionUnchanged
          /\ authorized(u, tx.ledger, "VoidTransaction")
          /\ transactions' = [transactions EXCEPT ![t] = Voided(tx)]
          /\ Record(t, "voided", u)
      BY <1>5 DEF void_transaction
    <2>2. Voided(tx) \in Transaction
      BY <1>2, <2>1, VoidConsistent
    <2>3. Develops(Voided(tx), tx, u)
      BY <1>2, <2>1, <2>2, VoidedDevelops
    <2>4. "VoidTransaction" \in Action /\ "voided" \in AuditAction
      BY DEF Action, AuditAction
    <2>5. QED
      BY <1>1, <2>1, <2>3, <2>4
  <1>6. ASSUME NEW t \in TxIds, NEW u \in Users, mark_transaction_paid(t, u)
        PROVE  FollowUp(t, u)
    <2> DEFINE tx == transactions[t]
    <2>1. /\ tx # None /\ Payable(tx) /\ TransactionUnchanged
          /\ authorized(u, tx.ledger, "MarkTransactionPaid")
          /\ transactions' = [transactions EXCEPT ![t] = Paid(tx, u)]
          /\ Record(t, "paid", u)
      BY <1>6 DEF mark_transaction_paid
    <2>2. tx.ledger \in Orgs
      BY <1>3, <2>1
    <2>3. Paid(tx, u) \in Transaction
      BY <1>2, <2>1, <2>2, PayConsistent
    <2>4. Develops(Paid(tx, u), tx, u)
      BY <1>2, <2>1, <2>2, <2>3, PaidDevelops
    <2>5. "MarkTransactionPaid" \in Action /\ "paid" \in AuditAction
      BY DEF Action, AuditAction
    <2>6. QED
      BY <1>1, <2>1, <2>2, <2>4, <2>5
  <1>7. ASSUME NEW t \in TxIds, NEW u \in Users, confirm_transaction_receipt(t, u)
        PROVE  FollowUp(t, u)
    <2> DEFINE tx == transactions[t]
    <2>1. /\ tx # None /\ Receivable(tx) /\ TransactionUnchanged /\ tx.created_by = u
          /\ authorized(u, tx.ledger, "ConfirmReceipt")
          /\ transactions' = [transactions EXCEPT ![t] = Received(tx, u)]
          /\ Record(t, "received", u)
      BY <1>7 DEF confirm_transaction_receipt
    <2>2. tx.ledger \in Orgs
      BY <1>3, <2>1
    <2>3. Received(tx, u) \in Transaction
      BY <1>2, <2>1, <2>2, ReceiveConsistent
    <2>4. Develops(Received(tx, u), tx, u)
      BY <1>2, <2>1, <2>2, <2>3, ReceivedDevelops
    <2>5. "ConfirmReceipt" \in Action /\ "received" \in AuditAction
      BY DEF Action, AuditAction
    <2>6. QED
      BY <1>1, <2>1, <2>2, <2>4, <2>5
  <1>8. QED
    BY <1>4, <1>5, <1>6, <1>7 DEF DecideNext

\* The first stage of a transaction, and whether it counts in a balance.
Enters(new) ==
    \/ /\ StageOf(new) \in {"submitted", "awaiting_payment"}
       /\ ~transaction_affects_balance(new)
    \/ /\ StageOf(new) = "settled" /\ transaction_affects_balance(new)

\* A new record of u with what it refers to.
Starts(new, u) ==
    /\ new \in Transaction
    /\ new.created_by = u /\ Actors(new) \subseteq {u}
    /\ new.ledger \in ledgers /\ new.category \in categories
    /\ new.category.ledger = new.ledger /\ new.category.kind = new.kind
    /\ authorized(u, new.ledger, "CreateTransaction")
    /\ ~AlreadyRecorded(u, new.ledger, new.client_mutation_id)
    /\ Enters(new)

\* The step that records a new transaction t of u.
Opening(t, u) ==
    /\ t \in TxIds /\ transactions[t] = None
    /\ TransactionUnchanged
    /\ \E new \in Transaction :
          /\ Starts(new, u)
          /\ transactions' = [transactions EXCEPT ![t] = new]
    /\ \/ audit_logs' = audit_logs
       \/ \E a \in AuditAction :
             audit_logs' = [audit_logs EXCEPT ![t] = Logged(audit_logs[t], a, u)]

LEMMA CreateNextOpens ==
    ASSUME CreateNext
    PROVE  \E t \in TxIds, u \in Users : Opening(t, u)
  <1> SUFFICES ASSUME NEW t \in TxIds, NEW u \in Users, NEW l \in Ledgers,
                      NEW account \in Account, NEW category \in Category \cup {None},
                      NEW kind \in TransactionKind, NEW amount \in Amounts,
                      NEW m \in MutationIds \cup {None},
                      create_transaction(t, u, l, account, category, kind, amount, m)
               PROVE  Opening(t, u)
    BY DEF CreateNext
  <1> DEFINE chosen == ChosenCategory(l, kind, category)
             new == draft(u, l, account, chosen, kind, amount, m)
  <1>1. /\ transactions[t] = None /\ l \in ledgers /\ TransactionUnchanged
        /\ authorized(u, l, "CreateTransaction") /\ kind # "Transfer"
        /\ chosen \in categories /\ chosen.ledger = l /\ chosen.kind = kind
        /\ ~AlreadyRecorded(u, l, m)
    BY DEF create_transaction
  <1>2. chosen \in Category /\ kind \in {"Income", "Expense"} /\ None \notin Users
    BY <1>1, LedgerConstants DEF ChosenCategory, Category, CategoryKind, TransactionKind
  <1> HIDE DEF chosen
  <1>3. new \in Transaction
    <2>1. /\ "Draft" \in ApprovalState /\ "NotApplicable" \in PaymentState
          /\ None \in OptUser /\ 1 \in Nat
      BY DEF ApprovalState, PaymentState, OptUser
    <2>2. QED
      BY <1>2, <2>1 DEF draft, Transaction
  <1>4. /\ new.ledger = l /\ new.kind = kind /\ new.created_by = u
        /\ new.category = chosen /\ new.client_mutation_id = m
        /\ new.payment_state = "NotApplicable"
        /\ new.submitted_by = None /\ new.approved_by = None
        /\ new.paid_by = None /\ new.received_by = None
    BY DEF draft
  <1>5. /\ "Approved" \in ApprovalState /\ "Submitted" \in ApprovalState /\ u \in OptUser
        /\ PaymentOnApproval(new) \in PaymentState
        /\ "auto_approved" \in AuditAction /\ "submitted" \in AuditAction
    BY <1>4 DEF ApprovalState, OptUser, PaymentState, PaymentOnApproval, AuditAction
  <1>6. \/ /\ transactions' = [transactions EXCEPT ![t] = AutoApproved(new, u)]
           /\ Record(t, "auto_approved", u)
        \/ /\ transactions' = [transactions EXCEPT ![t] = Submitted(new, u)]
           /\ Record(t, "submitted", u)
        \/ /\ transactions' = [transactions EXCEPT ![t] = PersonalEntry(new, u)]
           /\ UNCHANGED audit_logs
    BY DEF create_transaction, chosen
  <1> HIDE DEF new
  <1>7. ASSUME NEW tx2 \in Transaction,
               /\ tx2.ledger = l /\ tx2.kind = kind /\ tx2.created_by = u
               /\ tx2.category = chosen /\ tx2.client_mutation_id = m,
               {tx2.submitted_by, tx2.approved_by, tx2.paid_by, tx2.received_by} \subseteq {u, None},
               Enters(tx2)
        PROVE  Starts(tx2, u)
    BY <1>1, <1>7 DEF Starts, Actors
  <1>8. CASE /\ transactions' = [transactions EXCEPT ![t] = AutoApproved(new, u)]
             /\ Record(t, "auto_approved", u)
    <2> DEFINE tx2 == AutoApproved(new, u)
    <2>1. tx2 \in Transaction
      BY <1>3, <1>5 DEF AutoApproved, Transaction
    <2>2. /\ tx2.ledger = l /\ tx2.kind = kind /\ tx2.created_by = u
          /\ tx2.category = chosen /\ tx2.client_mutation_id = m
          /\ tx2.submitted_by = u /\ tx2.approved_by = None
          /\ tx2.paid_by = None /\ tx2.received_by = None
          /\ tx2.approval_state = "Approved"
          /\ tx2.payment_state = (IF kind = "Expense" THEN "PendingPayment" ELSE "NotApplicable")
      BY <1>3, <1>4 DEF AutoApproved, Transaction, PaymentOnApproval
    <2> HIDE DEF tx2
    <2>3. Enters(tx2)
      BY <1>2, <2>1, <2>2, NoTransaction DEF Enters, StageOf, transaction_affects_balance
    <2>4. Starts(tx2, u)
      BY <1>7, <2>1, <2>2, <2>3
    <2>5. QED
      BY <1>1, <1>5, <1>8, <2>1, <2>4 DEF Opening, Record, tx2
  <1>9. CASE /\ transactions' = [transactions EXCEPT ![t] = Submitted(new, u)]
             /\ Record(t, "submitted", u)
    <2> DEFINE tx2 == Submitted(new, u)
    <2>1. tx2 \in Transaction
      BY <1>3, <1>5 DEF Submitted, Transaction
    <2>2. /\ tx2.ledger = l /\ tx2.kind = kind /\ tx2.created_by = u
          /\ tx2.category = chosen /\ tx2.client_mutation_id = m
          /\ tx2.submitted_by = u /\ tx2.approved_by = None
          /\ tx2.paid_by = None /\ tx2.received_by = None
          /\ tx2.approval_state = "Submitted"
      BY <1>3, <1>4 DEF Submitted, Transaction
    <2> HIDE DEF tx2
    <2>3. Enters(tx2)
      BY <1>2, <2>1, <2>2, NoTransaction DEF Enters, StageOf, transaction_affects_balance
    <2>4. Starts(tx2, u)
      BY <1>7, <2>1, <2>2, <2>3
    <2>5. QED
      BY <1>1, <1>5, <1>9, <2>1, <2>4 DEF Opening, Record, tx2
  <1>10. CASE /\ transactions' = [transactions EXCEPT ![t] = PersonalEntry(new, u)]
              /\ UNCHANGED audit_logs
    <2> DEFINE tx2 == PersonalEntry(new, u)
    <2>1. tx2 \in Transaction
      BY <1>3, <1>5 DEF PersonalEntry, Transaction
    <2>2. /\ tx2.ledger = l /\ tx2.kind = kind /\ tx2.created_by = u
          /\ tx2.category = chosen /\ tx2.client_mutation_id = m
          /\ tx2.submitted_by = None /\ tx2.approved_by = u
          /\ tx2.paid_by = None /\ tx2.received_by = None
          /\ tx2.approval_state = "Approved" /\ tx2.payment_state = "NotApplicable"
      BY <1>3, <1>4 DEF PersonalEntry, Transaction
    <2> HIDE DEF tx2
    <2>3. Enters(tx2)
      BY <1>2, <2>1, <2>2, NoTransaction DEF Enters, StageOf, transaction_affects_balance
    <2>4. Starts(tx2, u)
      BY <1>7, <2>1, <2>2, <2>3
    <2>5. QED
      BY <1>1, <1>10, <2>1, <2>4 DEF Opening, tx2
  <1>11. QED
    BY <1>6, <1>8, <1>9, <1>10

-----------------------------------------------------------------------------
(* Who acts, and what the rows refer to.                                   *)

\* Whoever is authorized on an existing ledger is a known user and nobody's
\* technical Owner.
LEMMA ActingPerson ==
    ASSUME TypeOK, TeamsFit, NEW u \in Users, NEW l \in Ledgers, NEW action,
           authorized(u, l, action), l \in Orgs \/ l \in ledgers
    PROVE  u \in users /\ \A o \in Orgs : memberships[o][u] # "Owner"
  <1>1. CASE l \in Orgs
    <2>1. memberships[l][u] # None /\ memberships[l][u] # "Owner"
      BY <1>1, LedgerConstants DEF authorized, can_perform_organization, MembershipRole
    <2>2. QED
      BY <1>1, <2>1, LedgerConstants DEF TeamsFit, MembershipRowsFit, OwnersKept, MembershipRole
  <1>2. CASE l \notin Orgs
    <2>1. l = u /\ u \in ledgers
      BY <1>2 DEF authorized
    <2>2. QED
      BY <2>1 DEF TeamsFit, OwnersKept
  <1>3. QED
    BY <1>1, <1>2

\* Managing people and categories removes nothing a row could refer to, and
\* the only new Owner is a person the service did not know.
LEMMA ManageGrows ==
    ASSUME TypeOK, TeamsFit, ManageNext
    PROVE  /\ users \subseteq users' /\ ledgers \subseteq ledgers'
           /\ categories \subseteq categories'
           /\ \A o \in Orgs, u \in Users : memberships'[o][u] = "Owner" =>
                 memberships[o][u] = "Owner" \/ u \notin users
  <1> DEFINE Grown == /\ users \subseteq users' /\ ledgers \subseteq ledgers'
                      /\ categories \subseteq categories'
                      /\ \A o \in Orgs, u \in Users : memberships'[o][u] = "Owner" =>
                            memberships[o][u] = "Owner" \/ u \notin users
  <1>0. None # "Owner" /\ \A role \in EmployeeRoles : role # "Owner"
    BY LedgerConstants DEF EmployeeRoles, MembershipRole
  <1>1. ASSUME NEW o \in Orgs, NEW u \in Users, create_organization(o, u)
        PROVE  Grown
    BY <1>1 DEF create_organization, TypeOK
  <1>2. ASSUME NEW u \in Users, ensure_user_identity(u)
        PROVE  Grown
    BY <1>2 DEF ensure_user_identity
  <1>3. ASSUME NEW o \in Orgs, NEW u \in Users, NEW role \in EmployeeRoles,
               add_organization_member(o, u, role)
        PROVE  Grown
    BY <1>0, <1>3 DEF add_organization_member, TypeOK
  <1>4. ASSUME NEW o \in Orgs, NEW u \in Users, NEW role \in EmployeeRoles,
               update_organization_member_role(o, u, role)
        PROVE  Grown
    BY <1>0, <1>4 DEF update_organization_member_role, TypeOK
  <1>5. ASSUME NEW o \in Orgs, NEW u \in Users, remove_organization_member(o, u)
        PROVE  Grown
    BY <1>0, <1>5 DEF remove_organization_member, TypeOK
  <1>6. ASSUME NEW u \in Users, NEW l \in Ledgers, NEW kind \in CategoryKind,
               NEW name \in CategoryNames, create_category(u, l, kind, name)
        PROVE  Grown
    BY <1>6 DEF create_category
  <1>7. QED
    BY <1>1, <1>2, <1>3, <1>4, <1>5, <1>6 DEF ManageNext

LEMMA ManageRecords ==
    ASSUME TypeOK, TeamsFit, RecordsFit, ManageNext
    PROVE  RecordsFit'
  <1>1. UNCHANGED <<transactions, audit_logs>>
    BY ManageTypes
  <1>2. /\ users \subseteq users' /\ ledgers \subseteq ledgers'
        /\ categories \subseteq categories'
        /\ \A o \in Orgs, u \in Users : memberships'[o][u] = "Owner" =>
              memberships[o][u] = "Owner" \/ u \notin users
    BY ManageGrows
  <1>3. ASSUME NEW t \in Existing' PROVE ForeignKeysFit(transactions[t])'
    <2>1. t \in Existing /\ transactions'[t] = transactions[t]
      BY <1>1, <1>3 DEF Existing
    <2>2. ForeignKeysFit(transactions[t])
      BY <2>1 DEF RecordsFit
    <2>3. QED
      BY <1>2, <2>1, <2>2 DEF ForeignKeysFit
  <1>4. \A t \in TxIds : \A i \in DOMAIN audit_logs'[t] : audit_logs'[t][i].actor \in users'
    BY <1>1, <1>2 DEF RecordsFit
  <1>5. \A t \in Existing : transactions[t].created_by \in users
    <2>1. ASSUME NEW t \in Existing PROVE transactions[t].created_by \in users
      <3>1. transactions[t].created_by # None
        BY LedgerConstants DEF Existing, TypeOK, Transaction
      <3>2. QED
        BY <3>1 DEF RecordsFit, ForeignKeysFit, Actors
    <2>2. QED
      BY <2>1
  <1>6. AdministratorsNeverAct'
    <2> SUFFICES ASSUME NEW o \in Orgs, NEW u \in Users, memberships'[o][u] = "Owner"
                 PROVE  /\ \A t \in Existing : transactions[t].created_by # u
                        /\ \A t \in TxIds : \A i \in DOMAIN audit_logs[t] :
                              audit_logs[t][i].actor # u
      BY <1>1 DEF AdministratorsNeverAct, Existing
    <2>1. CASE memberships[o][u] = "Owner"
      BY <2>1 DEF RecordsFit, AdministratorsNeverAct
    <2>2. CASE u \notin users
      BY <1>5, <2>2 DEF RecordsFit
    <2>3. QED
      BY <1>2, <2>1, <2>2
  <1>7. QED
    BY <1>3, <1>4, <1>6 DEF RecordsFit

\* The actors of a log after one more event.
LEMMA LoggedActors ==
    ASSUME NEW log \in Seq(AuditLog), NEW a \in AuditAction, NEW u \in Users, NEW S,
           \A i \in DOMAIN log : log[i].actor \in S, u \in S
    PROVE  \A i \in DOMAIN Logged(log, a, u) : Logged(log, a, u)[i].actor \in S
  <1> DEFINE new == Logged(log, a, u)
             e == [action |-> a, actor |-> u]
  <1>1. /\ Len(log) \in Nat
        /\ DOMAIN log = 1 .. Len(log) /\ DOMAIN new = 1 .. Len(log) + 1
        /\ \A i \in 1 .. Len(log) : new[i] = log[i]
        /\ new[Len(log) + 1] = e
    BY LoggedShape
  <1>2. e.actor = u
    OBVIOUS
  <1> HIDE DEF new, e
  <1>3. \A i \in DOMAIN new : new[i].actor \in S
    BY <1>1, <1>2
  <1>4. QED
    BY <1>3 DEF new

\* The step logs at most one event about t, of u.
LogsOf(t, u) ==
    \/ audit_logs' = audit_logs
    \/ \E a \in AuditAction :
          audit_logs' = [audit_logs EXCEPT ![t] = Logged(audit_logs[t], a, u)]

\* The record is u's, or keeps its applicant.
CreatorOf(new, t, u) ==
    \/ new.created_by = u
    \/ t \in Existing /\ new.created_by = transactions[t].created_by

\* A step of a known user who administers nothing, on one transaction.
LEMMA ActingRecords ==
    ASSUME TypeOK, RecordsFit, NEW t \in TxIds, NEW u \in Users, NEW new \in Transaction,
           u \in users, \A o \in Orgs : memberships[o][u] # "Owner", TransactionUnchanged,
           transactions' = [transactions EXCEPT ![t] = new],
           LogsOf(t, u), ForeignKeysFit(new), CreatorOf(new, t, u)
    PROVE  RecordsFit'
  <1>1. UNCHANGED <<users, organizations, memberships, ledgers, categories>>
    BY DEF TransactionUnchanged
  <1>2. \A s \in TxIds : transactions'[s] = IF s = t THEN new ELSE transactions[s]
    BY DEF TypeOK
  <1>3. ASSUME NEW s \in Existing' PROVE ForeignKeysFit(transactions[s])'
    <2>1. s \in TxIds /\ transactions'[s] # None
      BY <1>3 DEF Existing
    <2>2. CASE s = t
      <3>1. transactions'[s] = new
        BY <1>2, <2>1, <2>2
      <3>2. QED
        BY <1>1, <3>1 DEF ForeignKeysFit
    <2>3. CASE s # t
      <3>1. s \in Existing /\ transactions'[s] = transactions[s]
        BY <1>2, <2>1, <2>3 DEF Existing
      <3>2. ForeignKeysFit(transactions[s])
        BY <3>1 DEF RecordsFit
      <3>3. QED
        BY <1>1, <3>1, <3>2 DEF ForeignKeysFit
    <2>4. QED
      BY <2>2, <2>3
  <1>4. ASSUME NEW S, u \in S, \A s \in TxIds : \A i \in DOMAIN audit_logs[s] : audit_logs[s][i].actor \in S
        PROVE  \A s \in TxIds : \A i \in DOMAIN audit_logs'[s] : audit_logs'[s][i].actor \in S
    <2>1. CASE audit_logs' = audit_logs
      BY <1>4, <2>1
    <2>2. CASE \E a \in AuditAction :
                  audit_logs' = [audit_logs EXCEPT ![t] = Logged(audit_logs[t], a, u)]
      <3>1. PICK a \in AuditAction :
                  audit_logs' = [audit_logs EXCEPT ![t] = Logged(audit_logs[t], a, u)]
        BY <2>2
      <3>2. audit_logs[t] \in Seq(AuditLog)
        BY DEF TypeOK
      <3> DEFINE log2 == Logged(audit_logs[t], a, u)
      <3>3. \A i \in DOMAIN log2 : log2[i].actor \in S
        BY <1>4, <3>2, LoggedActors
      <3> HIDE DEF log2
      <3>4. \A s \in TxIds : audit_logs'[s] = IF s = t THEN log2 ELSE audit_logs[s]
        BY <3>1 DEF TypeOK, log2
      <3>5. QED
        BY <1>4, <3>3, <3>4
    <2>3. QED
      BY <2>1, <2>2 DEF LogsOf
  <1>5. \A s \in TxIds : \A i \in DOMAIN audit_logs'[s] : audit_logs'[s][i].actor \in users'
    BY <1>1, <1>4 DEF RecordsFit
  <1>6. AdministratorsNeverAct'
    <2> SUFFICES ASSUME NEW o \in Orgs, NEW v \in Users, memberships'[o][v] = "Owner"
                 PROVE  /\ \A s \in Existing' : transactions'[s].created_by # v
                        /\ \A s \in TxIds : \A i \in DOMAIN audit_logs'[s] :
                              audit_logs'[s][i].actor # v
      BY DEF AdministratorsNeverAct
    <2>1. memberships[o][v] = "Owner" /\ v # u
      BY <1>1
    <2>2. /\ \A s \in Existing : transactions[s].created_by # v
          /\ \A s \in TxIds : \A i \in DOMAIN audit_logs[s] : audit_logs[s][i].actor # v
      BY <2>1 DEF RecordsFit, AdministratorsNeverAct
    <2>3. ASSUME NEW s \in Existing' PROVE transactions'[s].created_by # v
      <3>1. s \in TxIds /\ transactions'[s] # None
        BY <2>3 DEF Existing
      <3>2. CASE s = t
        BY <1>2, <2>1, <2>2, <3>1, <3>2 DEF CreatorOf
      <3>3. CASE s # t
        BY <1>2, <2>2, <3>1, <3>3 DEF Existing
      <3>4. QED
        BY <3>2, <3>3
    <2> DEFINE S == {w \in Users : w # v}
    <2>4. \A s \in TxIds : \A i \in DOMAIN audit_logs[s] : audit_logs[s][i].actor \in S
      <3>1. ASSUME NEW s \in TxIds, NEW i \in DOMAIN audit_logs[s]
            PROVE  audit_logs[s][i].actor \in Users
        <4>1. audit_logs[s] \in Seq(AuditLog)
          BY DEF TypeOK
        <4>2. audit_logs[s][i] \in AuditLog
          BY <4>1
        <4>3. QED
          BY <4>2 DEF AuditLog
      <3>2. QED
        BY <2>2, <3>1
    <2>5. \A s \in TxIds : \A i \in DOMAIN audit_logs'[s] : audit_logs'[s][i].actor \in S
      BY <1>4, <2>1, <2>4
    <2>6. QED
      BY <2>3, <2>5
  <1>7. QED
    BY <1>3, <1>5, <1>6 DEF RecordsFit

\* Decisions, payments, receipts and voidings leave what rows refer to.
LEMMA FollowUpRecords ==
    ASSUME TypeOK, TeamsFit, RecordsFit, NEW t \in TxIds, NEW u \in Users, FollowUp(t, u)
    PROVE  RecordsFit'
  <1> DEFINE tx == transactions[t]
  <1>1. PICK new \in Transaction, a \in AuditAction :
          /\ Develops(new, tx, u)
          /\ transactions' = [transactions EXCEPT ![t] = new]
          /\ audit_logs' = [audit_logs EXCEPT ![t] = Logged(audit_logs[t], a, u)]
    BY DEF FollowUp
  <1>2. /\ tx \in Transaction /\ tx # None /\ tx.ledger \in Orgs /\ TransactionUnchanged
        /\ tx.ledger \in Ledgers /\ t \in Existing
        /\ \E action \in Action : authorized(u, tx.ledger, action)
    BY NoTransaction DEF FollowUp, Ledgers, Existing
  <1>3. u \in users /\ \A o \in Orgs : memberships[o][u] # "Owner"
    BY <1>2, ActingPerson
  <1>4. ForeignKeysFit(tx)
    BY <1>2 DEF RecordsFit
  <1>5. /\ new.ledger = tx.ledger /\ new.category = tx.category /\ new.kind = tx.kind
        /\ new.created_by = tx.created_by /\ Actors(new) \subseteq Actors(tx) \cup {u}
    BY <1>1 DEF Develops, SameFacts
  <1>6. ForeignKeysFit(new)
    BY <1>3, <1>4, <1>5 DEF ForeignKeysFit
  <1>7. LogsOf(t, u) /\ CreatorOf(new, t, u)
    BY <1>1, <1>2, <1>5 DEF LogsOf, CreatorOf
  <1>8. QED
    BY <1>1, <1>2, <1>3, <1>6, <1>7, ActingRecords

\* A new transaction refers to what exists.
LEMMA OpeningRecords ==
    ASSUME TypeOK, TeamsFit, RecordsFit, NEW t \in TxIds, NEW u \in Users, Opening(t, u)
    PROVE  RecordsFit'
  <1>1. PICK new \in Transaction :
          Starts(new, u) /\ transactions' = [transactions EXCEPT ![t] = new]
    BY DEF Opening
  <1>2. /\ new.ledger \in Ledgers /\ new.ledger \in ledgers /\ new.created_by = u
        /\ authorized(u, new.ledger, "CreateTransaction") /\ Actors(new) \subseteq {u}
        /\ new.category \in categories
        /\ new.category.ledger = new.ledger /\ new.category.kind = new.kind
    BY <1>1 DEF Starts, TypeOK
  <1>3. u \in users /\ \A o \in Orgs : memberships[o][u] # "Owner"
    BY <1>2, ActingPerson
  <1>4. ForeignKeysFit(new)
    BY <1>2, <1>3 DEF ForeignKeysFit
  <1>5. TransactionUnchanged /\ LogsOf(t, u) /\ CreatorOf(new, t, u)
    BY <1>2 DEF Opening, LogsOf, CreatorOf
  <1>6. QED
    BY <1>1, <1>3, <1>4, <1>5, ActingRecords

LEMMA StepRecords ==
    ASSUME RecordsAndLogsAgree, TeamsFit, RecordsFit, [Next]_vars
    PROVE  RecordsFit'
  <1>0. TypeOK
    BY DEF RecordsAndLogsAgree
  <1>1. CASE UNCHANGED vars
    BY <1>1 DEF vars, RecordsFit, AdministratorsNeverAct, Existing, ForeignKeysFit
  <1>2. CASE ManageNext
    BY <1>0, <1>2, ManageRecords
  <1>3. CASE CreateNext
    BY <1>0, <1>3, CreateNextOpens, OpeningRecords
  <1>4. CASE DecideNext
    BY <1>0, <1>4, DecideNextFollowsUp, FollowUpRecords
  <1>5. QED
    BY <1>1, <1>2, <1>3, <1>4 DEF Next

(***************************************************************************)
(* Whoever appears in a record or in an audit event is always a known      *)
(* user, and every transaction refers to a ledger and a category that      *)
(* exist.  Inductive only together with the two invariants before it.      *)
(***************************************************************************)
THEOREM RecordsAlwaysFit == Spec => []RecordsFit
  <1>1. Init => RecordsFit
    BY DEF Init, RecordsFit, AdministratorsNeverAct, Existing
  <1>2. RecordsAndLogsAgree /\ TeamsFit /\ RecordsFit /\ [Next]_vars => RecordsFit'
    BY StepRecords
  <1>3. QED
    BY <1>1, <1>2, RecordsAndLogsAlwaysAgree, TeamsAlwaysFit, PTL DEF Spec

(***************************************************************************)
(* Administration and business never mix: an organization's Owner has      *)
(* never applied for, decided, paid, received or voided anything.          *)
(***************************************************************************)
THEOREM AdministratorsNeverEverAct == Spec => []AdministratorsNeverAct
  <1>1. RecordsFit => AdministratorsNeverAct
    BY DEF RecordsFit
  <1>2. QED
    BY <1>1, RecordsAlwaysFit, PTL

(***************************************************************************)
(* Every state the service publishes satisfies the foreign keys and the    *)
(* checks of the database schema.                                          *)
(***************************************************************************)
THEOREM RowsAlwaysFitSchema == Spec => []RowsFitSchema
  <1>1. RecordsAndLogsAgree /\ TeamsFit /\ RecordsFit => RowsFitSchema
    <2> SUFFICES ASSUME RecordsAndLogsAgree, TeamsFit, RecordsFit
                 PROVE  RowsFitSchema
      OBVIOUS
    <2>1. ASSUME NEW t \in Existing PROVE PaymentRowFits(transactions[t])
      <3>1. t \in TxIds /\ transactions[t] \in Transaction /\ transactions[t] # None
        BY DEF Existing, RecordsAndLogsAgree, TypeOK
      <3>2. RecordShape(transactions[t])
        BY <3>1 DEF RecordsAndLogsAgree, Consistent, PublicConsistent, PersonalConsistent
      <3>3. transactions[t].payment_state \in PaymentState
        BY <3>1 DEF Transaction
      <3>4. QED
        BY <3>2, <3>3 DEF RecordShape, PaymentRowFits, PaymentState
    <2>2. QED
      BY <2>1 DEF RowsFitSchema, TeamsFit, RecordsFit
  <1>2. QED
    BY <1>1, RecordsAndLogsAlwaysAgree, TeamsAlwaysFit, RecordsAlwaysFit, PTL

-----------------------------------------------------------------------------
(* Retried creations.                                                      *)

\* A creation is recorded only when its mutation is new, and no later step
\* touches the applicant, the ledger or the mutation id of a record.
LEMMA StepMutations ==
    ASSUME RecordsAndLogsAgree, MutationRecordedOnce, [Next]_vars
    PROVE  MutationRecordedOnce'
  <1>0. TypeOK
    BY DEF RecordsAndLogsAgree
  <1>1. CASE UNCHANGED transactions
    BY <1>1 DEF MutationRecordedOnce, Existing
  <1>2. CASE CreateNext
    <2>1. PICK t \in TxIds, u \in Users : Opening(t, u)
      BY <1>2, CreateNextOpens
    <2>2. PICK new \in Transaction :
            Starts(new, u) /\ transactions' = [transactions EXCEPT ![t] = new]
      BY <2>1 DEF Opening
    <2>3. \A s \in TxIds : transactions'[s] = IF s = t THEN new ELSE transactions[s]
      BY <1>0, <2>2 DEF TypeOK
    <2>4. \A s \in Existing' : s = t \/ s \in Existing
      BY <2>3 DEF Existing
    <2>5. \A s \in Existing :
             new.client_mutation_id # None =>
                ~(/\ transactions[s].ledger = new.ledger
                  /\ transactions[s].created_by = new.created_by
                  /\ transactions[s].client_mutation_id = new.client_mutation_id)
      BY <2>2 DEF Starts, AlreadyRecorded
    <2>6. Existing \subseteq TxIds
      BY DEF Existing
    <2> SUFFICES ASSUME NEW r \in Existing', NEW s \in Existing', r # s,
                        transactions'[r].client_mutation_id # None,
                        transactions'[r].client_mutation_id = transactions'[s].client_mutation_id,
                        transactions'[r].created_by = transactions'[s].created_by
                 PROVE  transactions'[r].ledger # transactions'[s].ledger
      BY DEF MutationRecordedOnce
    <2>7. CASE r = t
      BY <2>3, <2>4, <2>5, <2>6, <2>7
    <2>8. CASE s = t
      BY <2>3, <2>4, <2>5, <2>6, <2>8
    <2>9. CASE r # t /\ s # t
      BY <2>3, <2>4, <2>6, <2>9 DEF MutationRecordedOnce
    <2>10. QED
      BY <2>7, <2>8, <2>9
  <1>3. CASE DecideNext
    <2>1. PICK t \in TxIds, u \in Users : FollowUp(t, u)
      BY <1>3, DecideNextFollowsUp
    <2>2. PICK new \in Transaction :
            /\ Develops(new, transactions[t], u)
            /\ transactions' = [transactions EXCEPT ![t] = new]
      BY <2>1 DEF FollowUp
    <2>3. /\ new.client_mutation_id = transactions[t].client_mutation_id
          /\ new.created_by = transactions[t].created_by /\ new.ledger = transactions[t].ledger
      BY <2>2 DEF Develops, SameFacts
    <2>4. \A s \in TxIds : transactions'[s] = IF s = t THEN new ELSE transactions[s]
      BY <1>0, <2>2 DEF TypeOK
    <2>5. transactions[t] # None
      BY <2>1, NoTransaction DEF FollowUp
    <2>6. Existing' \subseteq Existing
      BY <2>4, <2>5 DEF Existing
    <2>7. \A s \in Existing :
            /\ transactions'[s].client_mutation_id = transactions[s].client_mutation_id
            /\ transactions'[s].created_by = transactions[s].created_by
            /\ transactions'[s].ledger = transactions[s].ledger
      BY <2>3, <2>4 DEF Existing
    <2>8. QED
      BY <2>6, <2>7 DEF MutationRecordedOnce
  <1>4. CASE ManageNext \/ UNCHANGED vars
    BY <1>0, <1>1, <1>4, ManageTypes DEF vars
  <1>5. QED
    BY <1>2, <1>3, <1>4 DEF Next

(***************************************************************************)
(* However often a creation is sent again, and whatever happens between    *)
(* the attempts, it is recorded once.                                      *)
(***************************************************************************)
THEOREM MutationAlwaysRecordedOnce == Spec => []MutationRecordedOnce
  <1>1. Init => MutationRecordedOnce
    BY DEF Init, MutationRecordedOnce, Existing
  <1>2. RecordsAndLogsAgree /\ MutationRecordedOnce /\ [Next]_vars => MutationRecordedOnce'
    BY StepMutations
  <1>3. QED
    BY <1>1, <1>2, RecordsAndLogsAlwaysAgree, PTL DEF Spec

-----------------------------------------------------------------------------
(* Both views of a ledger.                                                 *)

(***************************************************************************)
(* The overview shows the audit events of a transaction exactly to those   *)
(* it shows the transaction to: every role that may see a ledger may see   *)
(* its audit log, and both filters come down to the same people.           *)
(***************************************************************************)
THEOREM AuditAlwaysShownWithTransaction == Spec => []AuditShownWithTransaction
  <1>1. ASSUME NEW role
        PROVE  "ViewLedger" \in can_perform_organization(role) =>
                  "ViewAuditLog" \in can_perform_organization(role)
    BY DEF can_perform_organization, ApproverActions, EmployeeActions
  <1>2. AuditShownWithTransaction
    BY <1>1 DEF AuditShownWithTransaction, PublicTx, overview_shows_audit, authorized,
       audit_visible_to_actor, transaction_visible_to_actor
  <1>3. QED
    BY <1>2, PTL

-----------------------------------------------------------------------------
(* The history of a transaction.                                           *)

\* One transaction and its log across a step on transaction t.
LEMMA LoggedKeeps ==
    ASSUME NEW log \in Seq(AuditLog), NEW a \in AuditAction, NEW u \in Users
    PROVE  /\ Len(log) <= Len(Logged(log, a, u))
           /\ \A i \in DOMAIN log : Logged(log, a, u)[i] = log[i]
  <1> DEFINE new == Logged(log, a, u)
  <1>0. Len(new) = Len(log) + 1
    BY LoggedType
  <1>1. /\ Len(log) \in Nat
        /\ DOMAIN log = 1 .. Len(log) /\ DOMAIN new = 1 .. Len(log) + 1
        /\ \A i \in 1 .. Len(log) : new[i] = log[i]
        /\ new[Len(log) + 1] = [action |-> a, actor |-> u]
    BY LoggedShape
  <1> HIDE DEF new
  <1>2. Len(log) <= Len(new) /\ \A i \in DOMAIN log : new[i] = log[i]
    BY <1>0, <1>1
  <1>3. QED
    BY <1>2 DEF new

\* What KeepsHistory asks of one transaction.
Kept(t) ==
    /\ transactions'[t] # None
    /\ SameFacts(transactions'[t], transactions[t])
    /\ Len(audit_logs[t]) <= Len(audit_logs'[t])
    /\ \A i \in DOMAIN audit_logs[t] : audit_logs'[t][i] = audit_logs[t][i]
    /\ transactions[t].approval_state \in {"Rejected", "Voided"} =>
          transactions'[t] = transactions[t]

LEMMA StepKeepsHistory ==
    ASSUME RecordsAndLogsAgree, [Next]_vars
    PROVE  KeepsHistory
  <1>0. TypeOK
    BY DEF RecordsAndLogsAgree
  <1> SUFFICES ASSUME NEW s \in Existing PROVE Kept(s)
    BY DEF KeepsHistory, Kept, SameFacts
  <1>1. s \in TxIds /\ transactions[s] # None /\ audit_logs[s] \in Seq(AuditLog)
    BY <1>0 DEF Existing, TypeOK
  <1>2. ASSUME transactions'[s] = transactions[s], audit_logs'[s] = audit_logs[s]
        PROVE  Kept(s)
    <2>1. Len(audit_logs[s]) \in Nat
      BY <1>1
    <2>2. Len(audit_logs[s]) <= Len(audit_logs'[s])
      BY <1>2, <2>1
    <2>3. QED
      BY <1>1, <1>2, <2>2 DEF Kept, SameFacts
  <1>3. CASE ManageNext \/ UNCHANGED vars
    BY <1>0, <1>2, <1>3, ManageTypes DEF vars
  <1>4. CASE CreateNext
    <2>1. PICK t \in TxIds, u \in Users : Opening(t, u)
      BY <1>4, CreateNextOpens
    <2>2. s # t
      BY <1>1, <2>1 DEF Opening
    <2>3. transactions'[s] = transactions[s]
      BY <1>0, <1>1, <2>1, <2>2 DEF Opening, TypeOK
    <2>4. audit_logs'[s] = audit_logs[s]
      BY <1>0, <1>1, <2>1, <2>2 DEF Opening, TypeOK
    <2>5. QED
      BY <1>2, <2>3, <2>4
  <1>5. CASE DecideNext
    <2>1. PICK t \in TxIds, u \in Users : FollowUp(t, u)
      BY <1>5, DecideNextFollowsUp
    <2>2. PICK new \in Transaction, a \in AuditAction :
            /\ Develops(new, transactions[t], u)
            /\ transactions' = [transactions EXCEPT ![t] = new]
            /\ audit_logs' = [audit_logs EXCEPT ![t] = Logged(audit_logs[t], a, u)]
      BY <2>1 DEF FollowUp
    <2>3. CASE s # t
      <3>1. transactions'[s] = transactions[s] /\ audit_logs'[s] = audit_logs[s]
        BY <1>0, <1>1, <2>2, <2>3 DEF TypeOK
      <3>2. QED
        BY <1>2, <3>1
    <2>4. CASE s = t
      <3>1. transactions'[s] = new /\ audit_logs'[s] = Logged(audit_logs[s], a, u)
        BY <1>0, <1>1, <2>2, <2>4 DEF TypeOK
      <3>2. /\ SameFacts(new, transactions[s])
            /\ transactions[s].approval_state \notin {"Rejected", "Voided"}
        BY <2>2, <2>4 DEF Develops
      <3>3. new # None
        BY NoTransaction
      <3>4. /\ Len(audit_logs[s]) <= Len(audit_logs'[s])
            /\ \A i \in DOMAIN audit_logs[s] : audit_logs'[s][i] = audit_logs[s][i]
        BY <1>1, <3>1, LoggedKeeps
      <3>5. QED
        BY <3>1, <3>2, <3>3, <3>4 DEF Kept
    <2>5. QED
      BY <2>3, <2>4
  <1>6. QED
    BY <1>3, <1>4, <1>5 DEF Next

(***************************************************************************)
(* No step of the service removes a transaction, changes what was          *)
(* recorded of it, rewrites an audit event or touches a transaction that   *)
(* was rejected or voided.                                                 *)
(***************************************************************************)
THEOREM HistoryAlwaysGrows == Spec => HistoryOnlyGrows
  <1>1. RecordsAndLogsAgree /\ [Next]_vars => [KeepsHistory]_vars
    BY StepKeepsHistory
  <1>2. QED
    BY <1>1, RecordsAndLogsAlwaysAgree, PTL DEF Spec, HistoryOnlyGrows

-----------------------------------------------------------------------------
(* The refinement of TransactionLifecycle.                                 *)

Stages == [t \in TxIds |-> StageOf(transactions[t])]

Booked == {t \in Existing : transaction_affects_balance(transactions[t])}

\* The stages and the booked transactions after a change of one record.
LEMMA OneStage ==
    ASSUME TypeOK, NEW t \in TxIds, NEW new \in Transaction,
           transactions' = [transactions EXCEPT ![t] = new]
    PROVE  /\ Stages' = [Stages EXCEPT ![t] = StageOf(new)]
           /\ Booked' = IF transaction_affects_balance(new) THEN Booked \cup {t} ELSE Booked \ {t}
           /\ Stages[t] = StageOf(transactions[t])
  <1>1. \A s \in TxIds : transactions'[s] = IF s = t THEN new ELSE transactions[s]
    BY DEF TypeOK
  <1>2. new # None
    BY NoTransaction
  <1>3. ASSUME NEW s \in TxIds
        PROVE  StageOf(transactions'[s]) = IF s = t THEN StageOf(new) ELSE StageOf(transactions[s])
    BY <1>1
  <1>4. Stages' = [s \in TxIds |-> IF s = t THEN StageOf(new) ELSE StageOf(transactions[s])]
    BY <1>3 DEF Stages
  <1>5. [Stages EXCEPT ![t] = StageOf(new)]
          = [s \in TxIds |-> IF s = t THEN StageOf(new) ELSE StageOf(transactions[s])]
    BY DEF Stages
  <1>6. ASSUME NEW s \in TxIds
        PROVE  s \in Booked' <=> IF s = t THEN transaction_affects_balance(new) ELSE s \in Booked
    BY <1>1, <1>2 DEF Booked, Existing
  <1>7. Booked \subseteq TxIds /\ Booked' \subseteq TxIds
    BY DEF Booked, Existing
  <1>8. QED
    BY <1>4, <1>5, <1>6, <1>7 DEF Stages

\* A record is booked only if it exists; the booking of the old record.
LEMMA BookedBefore ==
    ASSUME NEW t \in TxIds
    PROVE  /\ transactions[t] = None => t \notin Booked /\ StageOf(transactions[t]) = "absent"
           /\ transactions[t] # None =>
                 (t \in Booked <=> transaction_affects_balance(transactions[t]))
  BY DEF Booked, Existing, StageOf

\* Recording a transaction enters it in the lifecycle.
LEMMA OpeningMaps ==
    ASSUME TypeOK, NEW t \in TxIds, NEW u \in Users, Opening(t, u)
    PROVE  Lifecycle!Next
  <1>1. PICK new \in Transaction :
          Starts(new, u) /\ transactions' = [transactions EXCEPT ![t] = new]
    BY DEF Opening
  <1>2. transactions[t] = None /\ Enters(new)
    BY <1>1 DEF Opening, Starts
  <1>3. /\ Stages' = [Stages EXCEPT ![t] = StageOf(new)]
        /\ Booked' = IF transaction_affects_balance(new) THEN Booked \cup {t} ELSE Booked \ {t}
        /\ Stages[t] = "absent" /\ t \notin Booked
    BY <1>1, <1>2, OneStage, BookedBefore
  <1>4. \/ StageOf(new) \in {"submitted", "awaiting_payment"} /\ Booked' = Booked
        \/ StageOf(new) = "settled" /\ Booked' = Booked \cup {t}
    BY <1>2, <1>3 DEF Enters
  <1>5. Lifecycle!Apply(t) \/ Lifecycle!Settle(t)
    BY <1>3, <1>4 DEF Lifecycle!Apply, Lifecycle!Settle, Lifecycle!Move, Stages, Booked
  <1>6. QED
    BY <1>5 DEF Lifecycle!Next

\* Every later step moves the transaction along the lifecycle.
LEMMA FollowUpMaps ==
    ASSUME TypeOK, NEW t \in TxIds, NEW u \in Users, FollowUp(t, u)
    PROVE  Lifecycle!Next
  <1>1. PICK new \in Transaction :
          Develops(new, transactions[t], u) /\ transactions' = [transactions EXCEPT ![t] = new]
    BY DEF FollowUp
  <1>2. transactions[t] # None /\ Moves(transactions[t], new)
    BY <1>1, NoTransaction DEF FollowUp, Develops
  <1>3. /\ Stages' = [Stages EXCEPT ![t] = StageOf(new)]
        /\ Booked' = IF transaction_affects_balance(new) THEN Booked \cup {t} ELSE Booked \ {t}
        /\ Stages[t] = StageOf(transactions[t])
        /\ t \in Booked <=> transaction_affects_balance(transactions[t])
    BY <1>1, <1>2, OneStage, BookedBefore
  <1>4. CASE Stages[t] = "submitted" /\ StageOf(new) \in {"rejected", "awaiting_payment"}
             /\ ~transaction_affects_balance(transactions[t]) /\ ~transaction_affects_balance(new)
    <2>1. Booked' = Booked
      BY <1>3, <1>4
    <2>2. Lifecycle!Reject(t) \/ Lifecycle!Approve(t)
      BY <1>3, <1>4, <2>1 DEF Lifecycle!Reject, Lifecycle!Approve, Lifecycle!Move, Stages, Booked
    <2>3. QED
      BY <2>2 DEF Lifecycle!Next
  <1>5. CASE Stages[t] = "submitted" /\ StageOf(new) = "settled" /\ transaction_affects_balance(new)
    <2>1. Lifecycle!Settle(t)
      BY <1>3, <1>5 DEF Lifecycle!Settle, Lifecycle!Move, Stages, Booked
    <2>2. QED
      BY <2>1 DEF Lifecycle!Next
  <1>6. CASE Stages[t] = "awaiting_payment" /\ StageOf(new) = "paid"
             /\ transaction_affects_balance(new)
    <2>1. Lifecycle!Pay(t)
      BY <1>3, <1>6 DEF Lifecycle!Pay, Lifecycle!Move, Stages, Booked
    <2>2. QED
      BY <2>1 DEF Lifecycle!Next
  <1>7. CASE Stages[t] = "paid" /\ StageOf(new) = "received"
             /\ transaction_affects_balance(transactions[t]) /\ transaction_affects_balance(new)
    <2>1. Booked' = Booked
      BY <1>3, <1>7
    <2>2. Lifecycle!Receive(t)
      BY <1>3, <1>7, <2>1 DEF Lifecycle!Receive, Lifecycle!Move, Stages, Booked
    <2>3. QED
      BY <2>2 DEF Lifecycle!Next
  <1>8. CASE /\ Stages[t] \in {"awaiting_payment", "paid", "received", "settled"}
             /\ StageOf(new) = "voided" /\ ~transaction_affects_balance(new)
    <2>1. Lifecycle!Void(t)
      BY <1>3, <1>8 DEF Lifecycle!Void, Lifecycle!Move, Stages, Booked
    <2>2. QED
      BY <2>1 DEF Lifecycle!Next
  <1>9. QED
    BY <1>2, <1>3, <1>4, <1>5, <1>6, <1>7, <1>8 DEF Moves

(***************************************************************************)
(* The service implements the lifecycle: its initial state maps to the     *)
(* initial state, and each of its steps to a step of one transaction that  *)
(* the lifecycle allows, or to no step at all.                             *)
(***************************************************************************)
THEOREM ServiceImplementsLifecycle == Spec => ImplementsLifecycle
  <1>1. Init => Lifecycle!Init
    BY DEF Init, Lifecycle!Init, StageOf, Existing
  <1>2. RecordsAndLogsAgree /\ [Next]_vars => [Lifecycle!Next]_<<Stages, Booked>>
    <2> SUFFICES ASSUME RecordsAndLogsAgree, [Next]_vars
                 PROVE  [Lifecycle!Next]_<<Stages, Booked>>
      OBVIOUS
    <2>1. TypeOK
      BY DEF RecordsAndLogsAgree
    <2>2. CASE UNCHANGED transactions
      BY <2>2 DEF Stages, Booked, Existing
    <2>3. CASE ManageNext \/ UNCHANGED vars
      BY <2>1, <2>2, <2>3, ManageTypes DEF vars
    <2>4. CASE CreateNext
      BY <2>1, <2>4, CreateNextOpens, OpeningMaps
    <2>5. CASE DecideNext
      BY <2>1, <2>5, DecideNextFollowsUp, FollowUpMaps
    <2>6. QED
      BY <2>3, <2>4, <2>5 DEF Next
  <1>3. [Lifecycle!Next]_<<Stages, Booked>> =>
          [Lifecycle!Next]_<<[t \in TxIds |-> StageOf(transactions[t])],
                             {t \in Existing : transaction_affects_balance(transactions[t])}>>
    BY DEF Stages, Booked
  <1>4. QED
    BY <1>1, <1>2, <1>3, RecordsAndLogsAlwaysAgree, PTL
       DEF Spec, ImplementsLifecycle, Lifecycle!Spec
=============================================================================
