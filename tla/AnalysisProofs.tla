--------------------------- MODULE AnalysisProofs ---------------------------
(***************************************************************************)
(* Proofs about LedgerAnalysis, for any documents that are imported, any   *)
(* calendar, and any number of people, organizations and transactions.     *)
(***************************************************************************)
EXTENDS LedgerAnalysis, LedgerProofs, Sums

-----------------------------------------------------------------------------
(* The import.                                                             *)

\* The fields that the import fills in.
LEMMA CategoryGiven ==
    ASSUME NEW tx \in StoredTransaction, NEW new, new = assign_default_categories(tx)
    PROVE  /\ new.category = IF tx.category = None
                             THEN [ledger |-> tx.ledger, kind |-> tx.kind, name |-> OtherCategory]
                             ELSE tx.category
           /\ new.category \in Category => new \in Transaction
           /\ new.ledger = tx.ledger /\ new.kind = tx.kind /\ Actors(new) = Actors(tx)
           /\ new.approval_state = tx.approval_state /\ new.payment_state = tx.payment_state
           /\ new.paid_by = tx.paid_by /\ new.received_by = tx.received_by
  BY DEF assign_default_categories, StoredTransaction, Transaction, Actors

LEMMA PaymentGiven ==
    ASSUME NEW tx \in StoredTransaction, NEW new, new = WithPayment(tx)
    PROVE  /\ new \in StoredTransaction
           /\ new.payment_state = "Received" /\ new.received_by = tx.created_by
           /\ new.ledger = tx.ledger /\ new.kind = tx.kind /\ new.category = tx.category
           /\ new.approval_state = tx.approval_state
           /\ new.created_by = tx.created_by /\ new.submitted_by = tx.submitted_by
           /\ new.approved_by = tx.approved_by /\ new.paid_by = tx.paid_by
  BY DEF WithPayment, StoredTransaction, PaymentState, OptUser

(***************************************************************************)
(* The import makes a record of the present version of every stored one.   *)
(***************************************************************************)
LEMMA MigratedFits ==
    ASSUME NEW doc, DocumentWellFormed(doc), migrate_to_current_schema(doc),
           NEW t \in TxIds, doc.transactions[t] # None
    PROVE  /\ MigratedRecord(doc, t) \in Transaction
           /\ ForeignKeysFit(MigratedRecord(doc, t)) /\ WorkflowFits(MigratedRecord(doc, t))
  <1> DEFINE tx == doc.transactions[t]
             paid == IF doc.schema_version < 2 /\ Settled(tx) THEN WithPayment(tx) ELSE tx
             new == assign_default_categories(paid)
  <1>1. RecordWellFormed(doc, tx)
    BY DEF DocumentWellFormed
  <1>2. /\ tx \in StoredTransaction /\ tx.created_by \in Users /\ tx.created_by # None
        /\ tx.ledger \in Ledgers /\ tx.kind \in TransactionKind
    BY <1>1, LedgerConstants DEF RecordWellFormed, StoredTransaction
  <1>3. MigratedRecord(doc, t) = new
    BY DEF MigratedRecord
  <1> HIDE DEF tx
  <1>4. /\ paid \in StoredTransaction
        /\ paid.ledger = tx.ledger /\ paid.kind = tx.kind /\ paid.category = tx.category
        /\ Actors(paid) \subseteq Actors(tx)
        /\ WorkflowFits(paid)
    <2>1. CASE doc.schema_version < 2 /\ Settled(tx)
      <3> DEFINE with == WithPayment(tx)
      <3>1. /\ with \in StoredTransaction
            /\ with.payment_state = "Received" /\ with.received_by = tx.created_by
            /\ with.ledger = tx.ledger /\ with.kind = tx.kind /\ with.category = tx.category
            /\ with.approval_state = tx.approval_state
            /\ with.created_by = tx.created_by /\ with.submitted_by = tx.submitted_by
            /\ with.approved_by = tx.approved_by /\ with.paid_by = tx.paid_by
        BY <1>2, PaymentGiven
      <3>2. paid = with
        BY <2>1
      <3> HIDE DEF with, paid
      <3>3. Actors(paid) \subseteq Actors(tx)
        BY <1>2, <3>1, <3>2 DEF Actors
      <3>4. WorkflowFits(paid)
        BY <1>2, <2>1, <3>1, <3>2 DEF WorkflowFits, PaymentRowFits, Settled
      <3>5. QED
        BY <3>1, <3>2, <3>3, <3>4
    <2>2. CASE ~(doc.schema_version < 2 /\ Settled(tx))
      BY <1>1, <1>2, <2>2 DEF RecordWellFormed
    <2>3. QED
      BY <2>1, <2>2
  <1> HIDE DEF paid
  <1>5. /\ new.category = IF paid.category = None
                          THEN [ledger |-> paid.ledger, kind |-> paid.kind, name |-> OtherCategory]
                          ELSE paid.category
        /\ new.category \in Category => new \in Transaction
        /\ new.ledger = paid.ledger /\ new.kind = paid.kind /\ Actors(new) = Actors(paid)
        /\ new.approval_state = paid.approval_state /\ new.payment_state = paid.payment_state
        /\ new.paid_by = paid.paid_by /\ new.received_by = paid.received_by
    BY <1>4, CategoryGiven
  <1> HIDE DEF new
  <1>6. /\ users = doc.users /\ ledgers = doc.ledgers
        /\ categories = doc.categories \cup UNION {DefaultCategories(l) : l \in doc.ledgers}
        /\ doc.categories \subseteq Category
    BY DEF migrate_to_current_schema, DocumentWellFormed
  <1>7. WorkflowFits(new)
    BY <1>4, <1>5 DEF WorkflowFits, PaymentRowFits
  <1>8. /\ new.category \in categories /\ new.category \in Category
        /\ new.category.ledger = new.ledger /\ new.category.kind = new.kind
    <2>1. CASE tx.category = None
      <3> DEFINE c == [ledger |-> tx.ledger, kind |-> tx.kind, name |-> OtherCategory]
      <3>1. new.category = c
        BY <1>4, <1>5, <2>1
      <3>2. tx.kind \in CategoryKind /\ tx.ledger \in doc.ledgers
        BY <1>1 DEF RecordWellFormed, WorkflowFits, CategoryKind
      <3>3. c \in DefaultCategories(tx.ledger) /\ c \in Category
        BY <1>2, <3>2, LedgerConstants DEF DefaultCategories, Category
      <3>4. c.ledger = tx.ledger /\ c.kind = tx.kind
        OBVIOUS
      <3> HIDE DEF c
      <3>5. QED
        BY <1>4, <1>5, <1>6, <3>1, <3>2, <3>3, <3>4
    <2>2. CASE tx.category # None
      BY <1>1, <1>4, <1>5, <1>6, <2>2 DEF RecordWellFormed
    <2>3. QED
      BY <2>1, <2>2
  <1>9. ForeignKeysFit(new)
    BY <1>1, <1>4, <1>5, <1>6, <1>8 DEF ForeignKeysFit, RecordWellFormed
  <1>10. QED
    BY <1>3, <1>5, <1>7, <1>8, <1>9

\* Old roles become present ones, and nobody becomes or ceases to be a member.
LEMMA RoleMigrated ==
    ASSUME NEW role \in MembershipRole \cup {None}
    PROVE  /\ MigratedRole(role) \in {None, "Owner", "Admin", "BusinessOwner", "Employee"}
           /\ MigratedRole(role) = None <=> role = None
  BY LedgerConstants DEF MigratedRole, MembershipRole

\* The imported memberships fit.
LEMMA MembersMigrated ==
    ASSUME NEW doc, DocumentWellFormed(doc), migrate_to_current_schema(doc)
    PROVE  /\ memberships \in [Orgs -> [Users -> MembershipRole \cup {None}]]
           /\ MembersFit(users, organizations, memberships, ledgers)
           /\ MembershipRowsFit
  <1> DEFINE roles == doc.memberships
             present == {None, "Owner", "Admin", "BusinessOwner", "Employee"}
  <1>1. /\ users = doc.users /\ organizations = doc.organizations /\ ledgers = doc.ledgers
        /\ memberships = IF doc.schema_version < 2
                         THEN [o \in Orgs |-> [u \in Users |-> MigratedRole(roles[o][u])]]
                         ELSE roles
    BY DEF migrate_to_current_schema
  <1>2. /\ roles \in [Orgs -> [Users -> MembershipRole \cup {None}]]
        /\ MembersFit(doc.users, doc.organizations, roles, doc.ledgers)
        /\ doc.schema_version \in 0 .. 2
        /\ doc.schema_version = 2 => \A o \in Orgs, u \in Users : roles[o][u] \in present
    BY DEF DocumentWellFormed
  <1> HIDE DEF roles
  <1>3. \A o \in Orgs, u \in Users : roles[o][u] \in MembershipRole \cup {None}
    BY <1>2
  <1>4. present \subseteq MembershipRole \cup {None}
    BY DEF MembershipRole
  <1>5. /\ memberships \in [Orgs -> [Users -> present]]
        /\ \A o \in Orgs, u \in Users : memberships[o][u] = None <=> roles[o][u] = None
    <2>1. CASE doc.schema_version < 2
      <3>1. \A o \in Orgs, u \in Users :
               /\ MigratedRole(roles[o][u]) \in present
               /\ MigratedRole(roles[o][u]) = None <=> roles[o][u] = None
        BY <1>3, RoleMigrated
      <3> HIDE DEF present
      <3>2. memberships = [o \in Orgs |-> [u \in Users |-> MigratedRole(roles[o][u])]]
        BY <1>1, <2>1
      <3>3. QED
        BY <3>1, <3>2
    <2>2. CASE ~(doc.schema_version < 2)
      <3>1. doc.schema_version = 2
        BY <1>2, <2>2
      <3> HIDE DEF present
      <3>2. memberships = roles /\ \A o \in Orgs, u \in Users : roles[o][u] \in present
        BY <1>1, <1>2, <2>2, <3>1
      <3>3. QED
        BY <1>2, <3>2
    <2>3. QED
      BY <2>1, <2>2
  <1>6. MembersFit(users, organizations, memberships, ledgers)
    BY <1>1, <1>2, <1>5 DEF MembersFit
  <1>7. MembershipRowsFit
    BY <1>5, <1>6 DEF MembersFit, MembershipRowsFit
  <1>8. memberships \in [Orgs -> [Users -> MembershipRole \cup {None}]]
    <2> HIDE DEF present
    <2>1. QED
      BY <1>4, <1>5
  <1>9. QED
    BY <1>6, <1>7, <1>8

\* The import stamps a payment with times the document knows.
LEMMA PaymentStamped ==
    ASSUME NEW tx, NEW s \in Stamps, NEW at \in Nat \cup {None}, NEW new,
           new = StampedPayment(tx, s, at)
    PROVE  /\ new \in Stamps
           /\ \A f \in DOMAIN NoStamps : new[f] = at \/ new[f] = s[f]
           /\ DOMAIN new = DOMAIN NoStamps
  BY DEF StampedPayment, Stamps, NoStamps

\* The import leaves or takes over times the document knows.
LEMMA TimesMigrated ==
    ASSUME NEW doc, DocumentWellFormed(doc), migrate_to_current_schema(doc), now \in Instants
    PROVE  TimesFit
  <1>1. now \in Nat
    BY AnalysisConstants
  <1> SUFFICES ASSUME NEW t \in TxIds
               PROVE  /\ stamps[t] \in Stamps
                      /\ \A at \in TimesOf(t) : at \in Nat /\ at <= now
                      /\ audit_logs[t] # <<>> =>
                            /\ latest[t] \in Nat /\ latest[t] <= now
                            /\ \A at \in TimesOf(t) : at <= latest[t]
    BY <1>1 DEF TimesFit
  <1> DEFINE old == doc.stamps[t]
             times == ({old[f] : f \in DOMAIN NoStamps} \cup {doc.updated_at[t]}) \ {None}
  <1>2. /\ old \in Stamps
        /\ \A at \in times : at \in Nat /\ at <= now
        /\ doc.audit_logs[t] # <<>> => /\ doc.latest[t] \in Nat /\ doc.latest[t] <= now
                                       /\ \A at \in times : at <= doc.latest[t]
    BY DEF DocumentWellFormed, TimesWellFormed
  <1>3. /\ stamps[t] = MigratedStamps(doc, t)
        /\ audit_logs = doc.audit_logs /\ latest = doc.latest
    BY DEF migrate_to_current_schema
  <1>4. doc.updated_at[t] \in Nat \cup {None}
    BY <1>2
  <1>5. /\ stamps[t] \in Stamps
        /\ \A f \in DOMAIN stamps[t] : stamps[t][f] \in times \cup {None}
    <2>1. old \in Stamps => DOMAIN old = DOMAIN NoStamps
      BY DEF Stamps, NoStamps
    <2>2. CASE doc.transactions[t] # None /\ doc.schema_version < 2
      <3> DEFINE tx == doc.transactions[t]
                 filled == doc.updated_at[t]
                 new == stamps[t]
      <3>1. new = StampedPayment(tx, old, filled)
        BY <1>3, <2>2 DEF MigratedStamps
      <3>2. filled \in times \cup {None} /\ \A f \in DOMAIN NoStamps : old[f] \in times \cup {None}
        OBVIOUS
      <3>3. filled \in Nat \cup {None} /\ old \in Stamps
        BY <1>2, <1>4
      <3> HIDE DEF times, old, tx, filled, new
      <3>4. /\ new \in Stamps
            /\ \A f \in DOMAIN NoStamps : new[f] = filled \/ new[f] = old[f]
            /\ DOMAIN new = DOMAIN NoStamps
        <4>1. ASSUME NEW r
              PROVE  r = StampedPayment(tx, old, filled) =>
                        /\ r \in Stamps
                        /\ \A f \in DOMAIN NoStamps : r[f] = filled \/ r[f] = old[f]
                        /\ DOMAIN r = DOMAIN NoStamps
          BY <3>3, PaymentStamped
        <4>2. QED
          BY <3>1, <4>1
      <3>5. new \in Stamps /\ \A f \in DOMAIN new : new[f] \in times \cup {None}
        BY <3>2, <3>4
      <3>6. QED
        BY <3>5 DEF new
    <2>3. CASE ~(doc.transactions[t] # None /\ doc.schema_version < 2)
      BY <1>2, <1>3, <2>1, <2>3 DEF MigratedStamps
    <2>4. QED
      BY <2>2, <2>3
  <1>6. TimesOf(t) \subseteq times
    BY <1>5 DEF TimesOf
  <1> HIDE DEF times, old
  <1>7. QED
    BY <1>2, <1>3, <1>5, <1>6

(***************************************************************************)
(* Every imported ledger fits.                                             *)
(***************************************************************************)
LEMMA ImportedFits ==
    AnalysisInit => ImportFits
  <1> SUFFICES ASSUME AnalysisInit PROVE ImportFits
    OBVIOUS
  <1>1. PICK doc \in LegacyDocuments : migrate_to_current_schema(doc)
    BY DEF AnalysisInit
  <1>2. DocumentWellFormed(doc)
    BY LegacyWellFormed
  <1>3. now \in Instants
    <2>1. PICK t \in Instants : \A s \in Instants : t <= s
      BY AnalysisConstants
    <2>2. QED
      BY <2>1 DEF AnalysisInit
  <1>4. /\ memberships \in [Orgs -> [Users -> MembershipRole \cup {None}]]
        /\ MembersFit(users, organizations, memberships, ledgers) /\ MembershipRowsFit
    BY <1>1, <1>2, MembersMigrated
  <1>5. TimesFit
    BY <1>1, <1>2, <1>3, TimesMigrated
  <1>6. /\ users = doc.users /\ organizations = doc.organizations /\ ledgers = doc.ledgers
        /\ categories = doc.categories \cup UNION {DefaultCategories(l) : l \in doc.ledgers}
        /\ transactions = [t \in TxIds |-> MigratedRecord(doc, t)]
        /\ audit_logs = doc.audit_logs
    BY <1>1 DEF migrate_to_current_schema
  <1>7. /\ doc.users \subseteq Users /\ doc.organizations \subseteq Orgs
        /\ doc.ledgers \subseteq Ledgers /\ doc.categories \subseteq Category
        /\ doc.audit_logs \in [TxIds -> Seq(AuditLog)]
        /\ \A t \in TxIds : doc.transactions[t] = None => doc.audit_logs[t] = <<>>
    BY <1>2 DEF DocumentWellFormed
  <1>8. categories \subseteq Category
    <2>1. \A l \in Ledgers : DefaultCategories(l) \subseteq Category
      BY LedgerConstants DEF DefaultCategories, Category
    <2>2. QED
      BY <1>6, <1>7, <2>1
  <1>9. \A t \in TxIds :
           IF doc.transactions[t] = None THEN transactions[t] = None
           ELSE /\ transactions[t] \in Transaction
                /\ ForeignKeysFit(transactions[t]) /\ WorkflowFits(transactions[t])
    <2>1. ASSUME NEW t \in TxIds, doc.transactions[t] # None
          PROVE  /\ transactions[t] \in Transaction
                 /\ ForeignKeysFit(transactions[t]) /\ WorkflowFits(transactions[t])
      <3>1. transactions[t] = MigratedRecord(doc, t)
        BY <1>6
      <3>2. QED
        BY <1>1, <1>2, <2>1, <3>1, MigratedFits
    <2>2. ASSUME NEW t \in TxIds, doc.transactions[t] = None
          PROVE  transactions[t] = None
      BY <1>6, <2>2 DEF MigratedRecord
    <2>3. QED
      BY <2>1, <2>2
  <1>10. TypeOK
    <2>1. transactions \in [TxIds -> Transaction \cup {None}]
      BY <1>6, <1>9
    <2>2. QED
      BY <1>4, <1>6, <1>7, <1>8, <2>1 DEF TypeOK
  <1>11. QED
    BY <1>4, <1>5, <1>6, <1>7, <1>9, <1>10, NoTransaction DEF ImportFits

-----------------------------------------------------------------------------
(* People, roles and categories.                                           *)

\* The invariant's part about people.
PeopleFit ==
    MembersFit(users, organizations, memberships, ledgers) /\ MembershipRowsFit

\* The role of one person in one organization changes.
LEMMA RoleChangeFits ==
    ASSUME TypeOK, PeopleFit, NEW o \in Orgs, NEW u \in Users,
           NEW role \in {None, "Owner", "BusinessOwner", "Employee"},
           role # None => /\ o \in organizations' /\ u \in users'
                          /\ \A p \in Orgs \ {o} : memberships[p][u] = None,
           memberships' = [memberships EXCEPT ![o][u] = role],
           organizations \subseteq organizations', users \subseteq users',
           ledgers' \cap Users \subseteq users'
    PROVE  PeopleFit'
  <1>1. \A p \in Orgs, v \in Users :
            memberships'[p][v] = IF p = o /\ v = u THEN role ELSE memberships[p][v]
    BY DEF TypeOK
  <1>2. /\ \A p \in Orgs, v \in Users : memberships[p][v] # None =>
              /\ p \in organizations /\ v \in users
              /\ memberships[p][v] \in {"Owner", "Admin", "BusinessOwner", "Employee"}
        /\ \A p, q \in Orgs, v \in Users : memberships[p][v] # None /\ memberships[q][v] # None => p = q
    BY DEF PeopleFit, MembersFit, MembershipRowsFit
  <1>3. ASSUME NEW p \in Orgs, NEW v \in Users, memberships'[p][v] # None
        PROVE  /\ p \in organizations' /\ v \in users'
               /\ memberships'[p][v] \in {"Owner", "Admin", "BusinessOwner", "Employee"}
    BY <1>1, <1>2, <1>3
  <1>4. ASSUME NEW p \in Orgs, NEW q \in Orgs, NEW v \in Users,
               memberships'[p][v] # None, memberships'[q][v] # None
        PROVE  p = q
    BY <1>1, <1>2, <1>4
  <1>5. QED
    BY <1>3, <1>4 DEF PeopleFit, MembersFit, MembershipRowsFit

\* No change of people, roles or categories unfits the people.
LEMMA ManagePeople ==
    ASSUME TypeOK, PeopleFit, ManageNext
    PROVE  PeopleFit'
  <1>0. /\ "BusinessOwner" # None /\ "Employee" # None /\ "Owner" # None
        /\ \A o \in Orgs : o \notin Users
        /\ ledgers \cap Users \subseteq users
    BY LedgerConstants DEF MembershipRole, PeopleFit, MembersFit
  <1>1. ASSUME NEW o \in Orgs, NEW u \in Users, create_organization(o, u)
        PROVE  PeopleFit'
    <2>1. /\ u \notin users /\ users' = users \cup {u} /\ organizations' = organizations \cup {o}
          /\ ledgers' = ledgers \cup {o}
          /\ memberships' = [memberships EXCEPT ![o][u] = "Owner"]
      BY <1>1 DEF create_organization
    <2>2. \A p \in Orgs : memberships[p][u] = None
      BY <2>1 DEF PeopleFit, MembersFit
    <2>3. QED
      BY <1>0, <2>1, <2>2, RoleChangeFits
  <1>2. ASSUME NEW u \in Users, ensure_user_identity(u)
        PROVE  PeopleFit'
    BY <1>2 DEF ensure_user_identity, PeopleFit, MembersFit, MembershipRowsFit
  <1>3. ASSUME NEW o \in Orgs, NEW u \in Users, NEW role \in EmployeeRoles,
               add_organization_member(o, u, role)
        PROVE  PeopleFit'
    <2>1. /\ o \in organizations /\ organizations' = organizations /\ users' = users \cup {u}
          /\ ledgers' = ledgers \cup {u} /\ \A p \in Orgs \ {o} : memberships[p][u] = None
          /\ memberships' = [memberships EXCEPT ![o][u] = role]
      BY <1>3 DEF add_organization_member
    <2>2. role \in {None, "Owner", "BusinessOwner", "Employee"}
      BY DEF EmployeeRoles
    <2>3. QED
      BY <1>0, <2>1, <2>2, RoleChangeFits
  <1>4. ASSUME NEW o \in Orgs, NEW u \in Users, NEW role \in {"BusinessOwner", "Employee", None},
               BusinessMember(o, u), memberships' = [memberships EXCEPT ![o][u] = role],
               UNCHANGED <<users, organizations, ledgers>>
        PROVE  PeopleFit'
    <2>1. memberships[o][u] # None
      BY <1>4 DEF BusinessMember
    <2>2. /\ o \in organizations /\ u \in users
          /\ \A p \in Orgs \ {o} : memberships[p][u] = None
      BY <2>1 DEF PeopleFit, MembersFit
    <2>3. role \in {None, "Owner", "BusinessOwner", "Employee"}
      OBVIOUS
    <2>4. QED
      BY <1>0, <1>4, <2>2, <2>3, RoleChangeFits
  <1>5. ASSUME NEW o \in Orgs, NEW u \in Users, NEW role \in EmployeeRoles,
               update_organization_member_role(o, u, role)
        PROVE  PeopleFit'
    BY <1>4, <1>5 DEF update_organization_member_role, EmployeeRoles
  <1>6. ASSUME NEW o \in Orgs, NEW u \in Users, remove_organization_member(o, u)
        PROVE  PeopleFit'
    BY <1>4, <1>6 DEF remove_organization_member
  <1>7. ASSUME NEW u \in Users, NEW l \in Ledgers, NEW kind \in CategoryKind,
               NEW name \in CategoryNames, create_category(u, l, kind, name)
        PROVE  PeopleFit'
    BY <1>7 DEF create_category, PeopleFit, MembersFit, MembershipRowsFit
  <1>8. QED
    BY <1>1, <1>2, <1>3, <1>5, <1>6, <1>7 DEF ManageNext

\* What a row refers to stays.
LEMMA ManageKeepsRows ==
    ASSUME ManageNext
    PROVE  users \subseteq users' /\ ledgers \subseteq ledgers' /\ categories \subseteq categories'
  BY DEF ManageNext, create_organization, ensure_user_identity, add_organization_member,
     update_organization_member_role, remove_organization_member, create_category

\* Whoever may act on an existing ledger is a known user.
LEMMA KnownActor ==
    ASSUME TypeOK, PeopleFit, NEW u \in Users, NEW l \in Ledgers, NEW action,
           authorized(u, l, action), l \in ledgers
    PROVE  u \in users
  <1>1. CASE l \in Orgs
    <2>1. memberships[l][u] # None
      BY <1>1, LedgerConstants DEF authorized, can_perform_organization, MembershipRole
    <2>2. QED
      BY <1>1, <2>1 DEF PeopleFit, MembersFit
  <1>2. CASE l \notin Orgs
    BY <1>2 DEF authorized, PeopleFit, MembersFit
  <1>3. QED
    BY <1>1, <1>2

-----------------------------------------------------------------------------
(* The record of a transaction after each step.                            *)

\* A decision, a payment, a receipt or a voiding: whose it is, where and how
\* much stays, and one state moves on.
Advances(tx, new) ==
    /\ new.ledger = tx.ledger /\ new.account = tx.account /\ new.category = tx.category
    /\ new.kind = tx.kind /\ new.amount = tx.amount /\ new.created_by = tx.created_by
    /\ \/ /\ tx.approval_state = "Submitted" /\ new.approval_state = "Approved"
          /\ new.payment_state = PaymentOnApproval(tx)
       \/ /\ tx.approval_state = "Submitted" /\ new.approval_state = "Rejected"
          /\ new.payment_state = tx.payment_state
       \/ /\ tx.approval_state = "Approved" /\ new.approval_state = "Voided"
          /\ new.payment_state = tx.payment_state
       \/ /\ tx.approval_state = "Approved" /\ new.approval_state = "Approved"
          /\ \/ tx.payment_state = "PendingPayment" /\ new.payment_state = "PaidPendingReceipt"
             \/ tx.payment_state = "PaidPendingReceipt" /\ new.payment_state = "Received"

\* A new record is booked on its ledger, and nothing of a public one is paid.
Opens(new) ==
    /\ new.account.ledger = new.ledger
    /\ new.payment_state \in {"NotApplicable", "PendingPayment"}
    /\ new.approval_state \in {"Submitted", "Approved"}
    /\ new.ledger \in Orgs /\ new.kind = "Expense" /\ new.approval_state = "Approved"
          => new.payment_state = "PendingPayment"

\* The record new, which u makes of tx, fits as tx does.
Continues(new, tx, u) ==
    /\ new \in Transaction
    /\ Advances(tx, new)
    /\ Actors(new) \subseteq Actors(tx) \cup {u}
    /\ WorkflowFits(new)

\* The record that each step makes.
LEMMA ApprovedContinues ==
    ASSUME NEW tx \in Transaction, NEW u \in Users, WorkflowFits(tx),
           tx.approval_state = "Submitted", NEW new, new = Approved(tx, u)
    PROVE  Continues(new, tx, u)
  <1>1. new \in Transaction
    <2>1. /\ "Approved" \in ApprovalState /\ u \in OptUser /\ tx.version + 1 \in Nat
          /\ PaymentOnApproval(tx) \in PaymentState
      BY DEF ApprovalState, OptUser, PaymentState, PaymentOnApproval, Transaction
    <2>2. QED
      BY <2>1 DEF Approved, Transaction
  <1>2. /\ new.ledger = tx.ledger /\ new.category = tx.category /\ new.kind = tx.kind
        /\ new.account = tx.account /\ new.amount = tx.amount
        /\ new.created_by = tx.created_by /\ new.submitted_by = tx.submitted_by
        /\ new.approved_by = u /\ new.paid_by = tx.paid_by /\ new.received_by = tx.received_by
        /\ new.approval_state = "Approved" /\ new.payment_state = PaymentOnApproval(tx)
    BY DEF Approved, Transaction
  <1>3. Actors(new) \subseteq Actors(tx) \cup {u}
    BY <1>2 DEF Actors
  <1>4. WorkflowFits(new)
    BY <1>2 DEF WorkflowFits, PaymentRowFits, PaymentOnApproval
  <1>5. Advances(tx, new)
    BY <1>2 DEF Advances
  <1>6. QED
    BY <1>1, <1>2, <1>3, <1>4, <1>5 DEF Continues

LEMMA RejectedContinues ==
    ASSUME NEW tx \in Transaction, NEW u \in Users, WorkflowFits(tx),
           tx.approval_state = "Submitted", NEW new, new = Rejected(tx)
    PROVE  Continues(new, tx, u)
  <1>1. new \in Transaction
    <2>1. "Rejected" \in ApprovalState /\ tx.version + 1 \in Nat
      BY DEF ApprovalState, Transaction
    <2>2. QED
      BY <2>1 DEF Rejected, Transaction
  <1>2. /\ new.ledger = tx.ledger /\ new.category = tx.category /\ new.kind = tx.kind
        /\ new.account = tx.account /\ new.amount = tx.amount
        /\ new.created_by = tx.created_by /\ new.submitted_by = tx.submitted_by
        /\ new.approved_by = tx.approved_by /\ new.paid_by = tx.paid_by
        /\ new.received_by = tx.received_by
        /\ new.approval_state = "Rejected" /\ new.payment_state = tx.payment_state
    BY DEF Rejected, Transaction
  <1>3. Actors(new) \subseteq Actors(tx) \cup {u}
    BY <1>2 DEF Actors
  <1>4. WorkflowFits(new)
    BY <1>2 DEF WorkflowFits, PaymentRowFits
  <1>5. Advances(tx, new)
    BY <1>2 DEF Advances
  <1>6. QED
    BY <1>1, <1>2, <1>3, <1>4, <1>5 DEF Continues

LEMMA VoidedContinues ==
    ASSUME NEW tx \in Transaction, NEW u \in Users, WorkflowFits(tx), Voidable(tx),
           NEW new, new = Voided(tx)
    PROVE  Continues(new, tx, u)
  <1>1. new \in Transaction
    <2>1. "Voided" \in ApprovalState /\ tx.version + 1 \in Nat
      BY DEF ApprovalState, Transaction
    <2>2. QED
      BY <2>1 DEF Voided, Transaction
  <1>2. /\ new.ledger = tx.ledger /\ new.category = tx.category /\ new.kind = tx.kind
        /\ new.account = tx.account /\ new.amount = tx.amount
        /\ new.created_by = tx.created_by /\ new.submitted_by = tx.submitted_by
        /\ new.approved_by = tx.approved_by /\ new.paid_by = tx.paid_by
        /\ new.received_by = tx.received_by
        /\ new.approval_state = "Voided" /\ new.payment_state = tx.payment_state
    BY DEF Voided, Transaction
  <1>3. Actors(new) \subseteq Actors(tx) \cup {u}
    BY <1>2 DEF Actors
  <1>4. WorkflowFits(new)
    BY <1>2 DEF WorkflowFits, PaymentRowFits
  <1>5. Advances(tx, new)
    BY <1>2 DEF Advances, Voidable
  <1>6. QED
    BY <1>1, <1>2, <1>3, <1>4, <1>5 DEF Continues

LEMMA PaidContinues ==
    ASSUME NEW tx \in Transaction, NEW u \in Users, WorkflowFits(tx), Payable(tx),
           NEW new, new = Paid(tx, u)
    PROVE  Continues(new, tx, u)
  <1>1. new \in Transaction
    <2>1. "PaidPendingReceipt" \in PaymentState /\ u \in OptUser /\ tx.version + 1 \in Nat
      BY DEF PaymentState, OptUser, Transaction
    <2>2. QED
      BY <2>1 DEF Paid, Transaction
  <1>2. /\ new.ledger = tx.ledger /\ new.category = tx.category /\ new.kind = tx.kind
        /\ new.account = tx.account /\ new.amount = tx.amount
        /\ new.created_by = tx.created_by /\ new.submitted_by = tx.submitted_by
        /\ new.approved_by = tx.approved_by /\ new.paid_by = u
        /\ new.received_by = tx.received_by
        /\ new.approval_state = tx.approval_state /\ new.payment_state = "PaidPendingReceipt"
    BY DEF Paid, Transaction
  <1>3. Actors(new) \subseteq Actors(tx) \cup {u}
    BY <1>2 DEF Actors
  <1>4. u # None
    BY LedgerConstants
  <1>5. WorkflowFits(new)
    BY <1>2, <1>4 DEF WorkflowFits, PaymentRowFits, Payable
  <1>6. Advances(tx, new)
    BY <1>2 DEF Advances, Payable
  <1>7. QED
    BY <1>1, <1>2, <1>3, <1>5, <1>6 DEF Continues

LEMMA ReceivedContinues ==
    ASSUME NEW tx \in Transaction, NEW u \in Users, WorkflowFits(tx), Receivable(tx),
           NEW new, new = Received(tx, u)
    PROVE  Continues(new, tx, u)
  <1>1. new \in Transaction
    <2>1. "Received" \in PaymentState /\ u \in OptUser /\ tx.version + 1 \in Nat
      BY DEF PaymentState, OptUser, Transaction
    <2>2. QED
      BY <2>1 DEF Received, Transaction
  <1>2. /\ new.ledger = tx.ledger /\ new.category = tx.category /\ new.kind = tx.kind
        /\ new.account = tx.account /\ new.amount = tx.amount
        /\ new.created_by = tx.created_by /\ new.submitted_by = tx.submitted_by
        /\ new.approved_by = tx.approved_by /\ new.paid_by = tx.paid_by
        /\ new.received_by = u
        /\ new.approval_state = tx.approval_state /\ new.payment_state = "Received"
    BY DEF Received, Transaction
  <1>3. Actors(new) \subseteq Actors(tx) \cup {u}
    BY <1>2 DEF Actors
  <1>4. u # None
    BY LedgerConstants
  <1>5. WorkflowFits(new)
    BY <1>2, <1>4 DEF WorkflowFits, PaymentRowFits, Receivable
  <1>6. Advances(tx, new)
    BY <1>2 DEF Advances, Receivable
  <1>7. QED
    BY <1>1, <1>2, <1>3, <1>5, <1>6 DEF Continues

\* A record that fits is put in the place of t's.  Its step is logged, unless
\* it opens a transaction.
Writes(t) ==
    /\ t \in TxIds
    /\ TransactionUnchanged
    /\ \E new \in Transaction : /\ ForeignKeysFit(new) /\ WorkflowFits(new)
                                /\ IF transactions[t] = None THEN Opens(new)
                                   ELSE Advances(transactions[t], new)
                                /\ transactions' = [transactions EXCEPT ![t] = new]
    /\ \/ \E a \in AuditAction, u \in Users :
             audit_logs' = [audit_logs EXCEPT ![t] = Logged(audit_logs[t], a, u)]
       \/ audit_logs' = audit_logs /\ transactions[t] = None

\* The invariant's part about one record.
RecordFits(t) ==
    IF transactions[t] = None THEN audit_logs[t] = <<>>
    ELSE ForeignKeysFit(transactions[t]) /\ WorkflowFits(transactions[t])

\* Decisions, payments, receipts and voidings write such records.
LEMMA DecideWrites ==
    ASSUME TypeOK, PeopleFit, \A t \in TxIds : RecordFits(t), DecideNext
    PROVE  \E t \in TxIds : Writes(t)
  <1>1. ASSUME NEW t \in TxIds, NEW u \in Users, transactions[t] # None
        PROVE  /\ transactions[t] \in Transaction /\ transactions[t].ledger \in Ledgers
               /\ ForeignKeysFit(transactions[t]) /\ WorkflowFits(transactions[t])
    BY <1>1 DEF TypeOK, RecordFits, Transaction
  <1>2. ASSUME NEW t \in TxIds, NEW u \in Users, transactions[t] # None,
               NEW action, authorized(u, transactions[t].ledger, action),
               NEW new, Continues(new, transactions[t], u),
               NEW a \in AuditAction, Record(t, a, u), TransactionUnchanged,
               transactions' = [transactions EXCEPT ![t] = new]
        PROVE  Writes(t)
    <2>1. u \in users
      BY <1>1, <1>2, KnownActor DEF ForeignKeysFit
    <2>2. new \in Transaction /\ WorkflowFits(new) /\ Advances(transactions[t], new)
      BY <1>2 DEF Continues
    <2>3. ForeignKeysFit(new)
      BY <1>1, <1>2, <2>1 DEF ForeignKeysFit, Continues, Advances
    <2>4. audit_logs' = [audit_logs EXCEPT ![t] = Logged(audit_logs[t], a, u)]
      BY <1>2 DEF Record
    <2>5. QED
      BY <1>2, <2>2, <2>3, <2>4 DEF Writes
  <1>3. ASSUME NEW t \in TxIds, NEW u \in Users, NEW decision, decide_approval(t, u, decision)
        PROVE  Writes(t)
    <2> DEFINE tx == transactions[t]
    <2>1. /\ tx # None /\ tx.approval_state = "Submitted" /\ TransactionUnchanged
          /\ authorized(u, tx.ledger, "ApproveTransaction")
      BY <1>3 DEF decide_approval
    <2>2. CASE transactions' = [transactions EXCEPT ![t] = Approved(tx, u)] /\ Record(t, "approved", u)
      <3>1. Continues(Approved(tx, u), tx, u)
        BY <1>1, <2>1, ApprovedContinues
      <3>2. "approved" \in AuditAction
        BY DEF AuditAction
      <3>3. QED
        BY <1>2, <2>1, <2>2, <3>1, <3>2
    <2>3. CASE transactions' = [transactions EXCEPT ![t] = Rejected(tx)] /\ Record(t, "rejected", u)
      <3>1. Continues(Rejected(tx), tx, u)
        BY <1>1, <2>1, RejectedContinues
      <3>2. "rejected" \in AuditAction
        BY DEF AuditAction
      <3>3. QED
        BY <1>2, <2>1, <2>3, <3>1, <3>2
    <2>4. QED
      BY <1>3, <2>2, <2>3 DEF decide_approval
  <1>4. ASSUME NEW t \in TxIds, NEW u \in Users, void_transaction(t, u)
        PROVE  Writes(t)
    <2> DEFINE tx == transactions[t]
    <2>1. /\ tx # None /\ TransactionUnchanged /\ authorized(u, tx.ledger, "VoidTransaction")
          /\ Voidable(tx)
          /\ transactions' = [transactions EXCEPT ![t] = Voided(tx)] /\ Record(t, "voided", u)
      BY <1>4 DEF void_transaction
    <2>2. Continues(Voided(tx), tx, u)
      BY <1>1, <2>1, VoidedContinues
    <2>3. "voided" \in AuditAction
      BY DEF AuditAction
    <2>4. QED
      BY <1>2, <2>1, <2>2, <2>3
  <1>5. ASSUME NEW t \in TxIds, NEW u \in Users, mark_transaction_paid(t, u)
        PROVE  Writes(t)
    <2> DEFINE tx == transactions[t]
    <2>1. /\ tx # None /\ TransactionUnchanged /\ authorized(u, tx.ledger, "MarkTransactionPaid")
          /\ Payable(tx)
          /\ transactions' = [transactions EXCEPT ![t] = Paid(tx, u)] /\ Record(t, "paid", u)
      BY <1>5 DEF mark_transaction_paid
    <2>2. Continues(Paid(tx, u), tx, u)
      BY <1>1, <2>1, PaidContinues
    <2>3. "paid" \in AuditAction
      BY DEF AuditAction
    <2>4. QED
      BY <1>2, <2>1, <2>2, <2>3
  <1>6. ASSUME NEW t \in TxIds, NEW u \in Users, confirm_transaction_receipt(t, u)
        PROVE  Writes(t)
    <2> DEFINE tx == transactions[t]
    <2>1. /\ tx # None /\ TransactionUnchanged /\ authorized(u, tx.ledger, "ConfirmReceipt")
          /\ Receivable(tx)
          /\ transactions' = [transactions EXCEPT ![t] = Received(tx, u)] /\ Record(t, "received", u)
      BY <1>6 DEF confirm_transaction_receipt
    <2>2. Continues(Received(tx, u), tx, u)
      BY <1>1, <2>1, ReceivedContinues
    <2>3. "received" \in AuditAction
      BY DEF AuditAction
    <2>4. QED
      BY <1>2, <2>1, <2>2, <2>3
  <1>7. QED
    BY <1>3, <1>4, <1>5, <1>6 DEF DecideNext

\* So does a creation.
LEMMA CreateWrites ==
    ASSUME TypeOK, PeopleFit, CreateNext
    PROVE  \E t \in TxIds : Writes(t)
  <1> SUFFICES ASSUME NEW t \in TxIds, NEW u \in Users, NEW l \in Ledgers,
                      NEW account \in Account, NEW category \in Category \cup {None},
                      NEW kind \in TransactionKind, NEW amount \in Amounts,
                      NEW m \in MutationIds \cup {None},
                      create_transaction(t, u, l, account, category, kind, amount, m)
               PROVE  Writes(t)
    BY DEF CreateNext
  <1> DEFINE chosen == ChosenCategory(l, kind, category)
             new == draft(u, l, account, chosen, kind, amount, m)
  <1>1. /\ transactions[t] = None /\ l \in ledgers /\ TransactionUnchanged
        /\ authorized(u, l, "CreateTransaction") /\ kind # "Transfer" /\ account.ledger = l
        /\ chosen \in categories /\ chosen.ledger = l /\ chosen.kind = kind
    BY DEF create_transaction
  <1>2. chosen \in Category /\ kind \in {"Income", "Expense"} /\ None \notin Users
    BY <1>1, LedgerConstants DEF ChosenCategory, Category, CategoryKind, TransactionKind
  <1>3. u \in users
    BY <1>1, KnownActor
  <1> HIDE DEF chosen
  <1>4. new \in Transaction
    <2>1. /\ "Draft" \in ApprovalState /\ "NotApplicable" \in PaymentState
          /\ None \in OptUser /\ 1 \in Nat
      BY DEF ApprovalState, PaymentState, OptUser
    <2>2. QED
      BY <1>2, <2>1 DEF draft, Transaction
  <1>5. /\ new.ledger = l /\ new.kind = kind /\ new.created_by = u /\ new.account = account
        /\ new.category = chosen /\ new.payment_state = "NotApplicable"
        /\ new.submitted_by = None /\ new.approved_by = None
        /\ new.paid_by = None /\ new.received_by = None
    BY DEF draft
  <1>6. /\ "Approved" \in ApprovalState /\ "Submitted" \in ApprovalState /\ u \in OptUser
        /\ PaymentOnApproval(new) \in PaymentState
        /\ "auto_approved" \in AuditAction /\ "submitted" \in AuditAction
    BY <1>5 DEF ApprovalState, OptUser, PaymentState, PaymentOnApproval, AuditAction
  <1>7. \/ /\ l \in Orgs /\ transactions' = [transactions EXCEPT ![t] = AutoApproved(new, u)]
           /\ Record(t, "auto_approved", u)
        \/ /\ l \in Orgs /\ transactions' = [transactions EXCEPT ![t] = Submitted(new, u)]
           /\ Record(t, "submitted", u)
        \/ /\ l \notin Orgs /\ transactions' = [transactions EXCEPT ![t] = PersonalEntry(new, u)]
           /\ UNCHANGED audit_logs
    BY DEF create_transaction, chosen
  <1> HIDE DEF new
  <1>8. ASSUME NEW tx2 \in Transaction,
               tx2.ledger = l /\ tx2.kind = kind /\ tx2.created_by = u /\ tx2.category = chosen,
               {tx2.submitted_by, tx2.approved_by} \subseteq {u, None},
               tx2.paid_by = None /\ tx2.received_by = None
        PROVE  ForeignKeysFit(tx2)
    BY <1>1, <1>3, <1>8 DEF ForeignKeysFit, Actors
  <1>9. CASE /\ l \in Orgs /\ transactions' = [transactions EXCEPT ![t] = AutoApproved(new, u)]
             /\ Record(t, "auto_approved", u)
    <2> DEFINE tx2 == AutoApproved(new, u)
    <2>1. tx2 \in Transaction
      BY <1>4, <1>6 DEF AutoApproved, Transaction
    <2>2. /\ tx2.ledger = l /\ tx2.kind = kind /\ tx2.created_by = u /\ tx2.category = chosen
          /\ tx2.account = account
          /\ tx2.submitted_by = u /\ tx2.approved_by = None
          /\ tx2.paid_by = None /\ tx2.received_by = None
          /\ tx2.approval_state = "Approved"
          /\ tx2.payment_state = (IF kind = "Expense" THEN "PendingPayment" ELSE "NotApplicable")
      BY <1>4, <1>5 DEF AutoApproved, Transaction, PaymentOnApproval
    <2> HIDE DEF tx2
    <2>3. WorkflowFits(tx2)
      BY <1>2, <1>9, <2>2 DEF WorkflowFits, PaymentRowFits
    <2>4. ForeignKeysFit(tx2)
      BY <1>8, <2>1, <2>2
    <2>5. Opens(tx2)
      BY <1>1, <1>9, <2>2 DEF Opens
    <2>6. QED
      BY <1>1, <1>6, <1>9, <2>1, <2>3, <2>4, <2>5 DEF Writes, Record, tx2
  <1>10. CASE /\ l \in Orgs /\ transactions' = [transactions EXCEPT ![t] = Submitted(new, u)]
              /\ Record(t, "submitted", u)
    <2> DEFINE tx2 == Submitted(new, u)
    <2>1. tx2 \in Transaction
      BY <1>4, <1>6 DEF Submitted, Transaction
    <2>2. /\ tx2.ledger = l /\ tx2.kind = kind /\ tx2.created_by = u /\ tx2.category = chosen
          /\ tx2.account = account
          /\ tx2.submitted_by = u /\ tx2.approved_by = None
          /\ tx2.paid_by = None /\ tx2.received_by = None
          /\ tx2.approval_state = "Submitted" /\ tx2.payment_state = "NotApplicable"
      BY <1>4, <1>5 DEF Submitted, Transaction
    <2> HIDE DEF tx2
    <2>3. WorkflowFits(tx2)
      BY <1>2, <1>10, <2>2 DEF WorkflowFits, PaymentRowFits
    <2>4. ForeignKeysFit(tx2)
      BY <1>8, <2>1, <2>2
    <2>5. Opens(tx2)
      BY <1>1, <1>10, <2>2 DEF Opens
    <2>6. QED
      BY <1>1, <1>6, <1>10, <2>1, <2>3, <2>4, <2>5 DEF Writes, Record, tx2
  <1>11. CASE /\ l \notin Orgs /\ transactions' = [transactions EXCEPT ![t] = PersonalEntry(new, u)]
              /\ UNCHANGED audit_logs
    <2> DEFINE tx2 == PersonalEntry(new, u)
    <2>1. tx2 \in Transaction
      BY <1>4, <1>6 DEF PersonalEntry, Transaction
    <2>2. /\ tx2.ledger = l /\ tx2.kind = kind /\ tx2.created_by = u /\ tx2.category = chosen
          /\ tx2.account = account
          /\ tx2.submitted_by = None /\ tx2.approved_by = u
          /\ tx2.paid_by = None /\ tx2.received_by = None
          /\ tx2.approval_state = "Approved" /\ tx2.payment_state = "NotApplicable"
      BY <1>4, <1>5 DEF PersonalEntry, Transaction
    <2> HIDE DEF tx2
    <2>3. WorkflowFits(tx2)
      BY <1>2, <2>2 DEF WorkflowFits, PaymentRowFits
    <2>4. ForeignKeysFit(tx2)
      BY <1>8, <2>1, <2>2
    <2>5. Opens(tx2)
      BY <1>1, <1>11, <2>2 DEF Opens
    <2>6. QED
      BY <1>1, <1>11, <2>1, <2>3, <2>4, <2>5 DEF Writes, tx2
  <1>12. QED
    BY <1>7, <1>9, <1>10, <1>11

\* A write leaves everything fitting.
LEMMA WritesFit ==
    ASSUME TypeOK, PeopleFit, \A s \in TxIds : RecordFits(s), NEW t \in TxIds, Writes(t)
    PROVE  TypeOK' /\ PeopleFit' /\ \A s \in TxIds : RecordFits(s)'
  <1>1. PICK new \in Transaction : /\ ForeignKeysFit(new) /\ WorkflowFits(new)
                                   /\ transactions' = [transactions EXCEPT ![t] = new]
    BY DEF Writes
  <1>2. UNCHANGED <<users, organizations, memberships, ledgers, categories>>
    BY DEF Writes, TransactionUnchanged
  <1>3. /\ audit_logs' \in [TxIds -> Seq(AuditLog)]
        /\ \A s \in TxIds : s # t => audit_logs'[s] = audit_logs[s]
    <2>1. CASE \E a \in AuditAction, u \in Users :
                  audit_logs' = [audit_logs EXCEPT ![t] = Logged(audit_logs[t], a, u)]
      <3>1. PICK a \in AuditAction, u \in Users :
                  audit_logs' = [audit_logs EXCEPT ![t] = Logged(audit_logs[t], a, u)]
        BY <2>1
      <3>2. Logged(audit_logs[t], a, u) \in Seq(AuditLog)
        BY LoggedType DEF TypeOK
      <3>3. QED
        BY <3>1, <3>2 DEF TypeOK
    <2>2. CASE audit_logs' = audit_logs
      BY <2>2 DEF TypeOK
    <2>3. QED
      BY <2>1, <2>2 DEF Writes
  <1>4. transactions' \in [TxIds -> Transaction \cup {None}]
    BY <1>1 DEF TypeOK
  <1>5. TypeOK'
    BY <1>2, <1>3, <1>4 DEF TypeOK
  <1>6. PeopleFit'
    BY <1>2 DEF PeopleFit, MembersFit, MembershipRowsFit
  <1>7. ASSUME NEW s \in TxIds PROVE RecordFits(s)'
    <2>1. CASE s = t
      <3>1. transactions'[s] = new /\ new # None
        BY <1>1, <2>1, NoTransaction DEF TypeOK
      <3>2. QED
        BY <1>1, <1>2, <3>1 DEF RecordFits, ForeignKeysFit
    <2>2. CASE s # t
      <3>1. transactions'[s] = transactions[s] /\ audit_logs'[s] = audit_logs[s]
        BY <1>1, <1>3, <2>2 DEF TypeOK
      <3>2. QED
        BY <1>2, <3>1 DEF RecordFits, ForeignKeysFit
    <2>3. QED
      BY <2>1, <2>2
  <1>8. QED
    BY <1>5, <1>6, <1>7

-----------------------------------------------------------------------------
(* Times.                                                                  *)

\* A step stamps with the present time only, and only what it changes.
LEMMA StampsKept ==
    ASSUME NEW t \in TxIds, stamps[t] \in Stamps, now \in Nat, stamps'[t] = StampsAfter(t)
    PROVE  /\ stamps'[t] \in Stamps
           /\ TimesOf(t)' \subseteq TimesOf(t) \cup {now}
           /\ transactions'[t] = transactions[t] => TimesOf(t)' \subseteq TimesOf(t)
  <1> DEFINE old == stamps[t]
             new == stamps'[t]
             fields == {"occurred_at", "approved_at", "paid_at", "received_at"}
  <1>1. /\ new \in Stamps
        /\ \A f \in fields : new[f] = now \/ new[f] = old[f]
    BY DEF StampsAfter, Stamps
  <1>2. transactions'[t] = transactions[t] => \A f \in fields : new[f] = old[f]
    BY DEF StampsAfter, Becomes
  <1>3. DOMAIN new = fields /\ DOMAIN old = fields
    BY <1>1 DEF Stamps
  <1>4. TimesOf(t) = {old[f] : f \in fields} \ {None} /\ TimesOf(t)' = {new[f] : f \in fields} \ {None}
    BY <1>3 DEF TimesOf
  <1> HIDE DEF old, new, fields
  <1>5. TimesOf(t)' \subseteq TimesOf(t) \cup {now}
    BY <1>1, <1>4
  <1>6. transactions'[t] = transactions[t] => TimesOf(t)' \subseteq TimesOf(t)
    BY <1>2, <1>4
  <1>7. QED
    BY <1>1, <1>5, <1>6 DEF new

\* The part of TimesFit about one transaction, at this time.
TimesFitAt(t, time) ==
    /\ stamps[t] \in Stamps
    /\ \A at \in TimesOf(t) : at \in Nat /\ at <= time
    /\ audit_logs[t] # <<>> => /\ latest[t] \in Nat /\ latest[t] <= time
                               /\ \A at \in TimesOf(t) : at <= latest[t]

\* A call that logs what it stamps, or stamps what has no log yet.
LEMMA OperateTimes ==
    ASSUME NEW t \in TxIds, TimesFitAt(t, now), now \in Nat, now' = now,
           stamps'[t] = StampsAfter(t),
           latest'[t] = IF audit_logs'[t] # audit_logs[t] THEN now ELSE latest[t],
           \/ audit_logs'[t] # audit_logs[t]
           \/ audit_logs'[t] = <<>>
           \/ transactions'[t] = transactions[t]
    PROVE  TimesFitAt(t, now)'
  <1>1. /\ stamps[t] \in Stamps
        /\ \A at \in TimesOf(t) : at \in Nat /\ at <= now
        /\ audit_logs[t] # <<>> => /\ latest[t] \in Nat /\ latest[t] <= now
                                   /\ \A at \in TimesOf(t) : at <= latest[t]
    BY DEF TimesFitAt
  <1>2. /\ stamps'[t] \in Stamps
        /\ TimesOf(t)' \subseteq TimesOf(t) \cup {now}
        /\ transactions'[t] = transactions[t] => TimesOf(t)' \subseteq TimesOf(t)
    BY <1>1, StampsKept
  <1>3. \A at \in TimesOf(t)' : at \in Nat /\ at <= now
    BY <1>1, <1>2
  <1>4. ASSUME audit_logs'[t] # <<>>
        PROVE  latest'[t] \in Nat /\ latest'[t] <= now /\ \A at \in TimesOf(t)' : at <= latest'[t]
    <2>1. CASE audit_logs'[t] # audit_logs[t]
      BY <1>3, <2>1
    <2>2. CASE audit_logs'[t] = audit_logs[t] /\ transactions'[t] = transactions[t]
      BY <1>1, <1>2, <1>4, <2>2
    <2>3. QED
      BY <1>4, <2>1, <2>2
  <1>5. QED
    BY <1>2, <1>3, <1>4 DEF TimesFitAt

\* TimesFit, one transaction at a time.
LEMMA TimesFitSplit ==
    TimesFit <=> now \in Nat /\ \A t \in TxIds : TimesFitAt(t, now)
  BY DEF TimesFit, TimesFitAt

\* The passing of time puts no step into the future.
LEMMA TickTimes ==
    ASSUME TimesFit, Tick
    PROVE  TimesFit'
  <1>1. now \in Nat /\ now' \in Nat /\ now' > now
    BY AnalysisConstants DEF TimesFit, Tick
  <1>2. UNCHANGED <<stamps, latest, audit_logs>>
    BY DEF Tick, vars
  <1>3. \A t \in TxIds : TimesOf(t)' = TimesOf(t)
    BY <1>2 DEF TimesOf
  <1>4. ASSUME NEW t \in TxIds PROVE TimesFitAt(t, now)'
    <2>1. /\ stamps'[t] = stamps[t] /\ latest'[t] = latest[t] /\ audit_logs'[t] = audit_logs[t]
          /\ TimesOf(t)' = TimesOf(t) /\ TimesFitAt(t, now)
      BY <1>2, <1>3, TimesFitSplit
    <2>2. /\ stamps[t] \in Stamps
          /\ \A at \in TimesOf(t) : at \in Nat /\ at <= now
          /\ audit_logs[t] # <<>> => /\ latest[t] \in Nat /\ latest[t] <= now
                                     /\ \A at \in TimesOf(t) : at <= latest[t]
      BY <2>1 DEF TimesFitAt
    <2>3. \A at \in TimesOf(t) : at <= now'
      BY <1>1, <2>2
    <2>4. audit_logs[t] # <<>> => latest[t] <= now'
      BY <1>1, <2>2
    <2>5. QED
      BY <2>1, <2>2, <2>3, <2>4 DEF TimesFitAt
  <1>5. now' \in Nat /\ \A t \in TxIds : TimesFitAt(t, now)'
    BY <1>1, <1>4
  <1>6. QED
    BY <1>5 DEF TimesFit, TimesFitAt

-----------------------------------------------------------------------------
(* The inductive invariant.                                                *)

\* The parts of the invariant.
LEMMA ImportFitsSplit ==
    ImportFits <=> TypeOK /\ PeopleFit /\ (\A t \in TxIds : RecordFits(t)) /\ TimesFit
  BY DEF ImportFits, PeopleFit, RecordFits

\* A call about a transaction writes one record.
LEMMA CallWrites ==
    ASSUME ImportFits, CreateOnLedger \/ DecideNext
    PROVE  \E t \in TxIds : Writes(t)
  <1>1. TypeOK /\ PeopleFit /\ \A t \in TxIds : RecordFits(t)
    BY ImportFitsSplit
  <1>2. CASE DecideNext
    BY <1>1, <1>2, DecideWrites
  <1>3. CASE CreateOnLedger
    <2>1. PICK t \in TxIds \ Existing, u \in users, l \in ledgers :
             \E account \in {a \in Account : a.ledger = l},
                category \in {c \in categories : c.ledger = l} \cup {None},
                kind \in {"Income", "Expense"}, amount \in Amounts, m \in MutationIds \cup {None} :
                   create_transaction(t, u, l, account, category, kind, amount, m)
      BY <1>3 DEF CreateOnLedger
    <2>2. PICK account \in {a \in Account : a.ledger = l},
               category \in {c \in categories : c.ledger = l} \cup {None},
               kind \in {"Income", "Expense"}, amount \in Amounts, m \in MutationIds \cup {None} :
                  create_transaction(t, u, l, account, category, kind, amount, m)
      BY <2>1
    <2>3. /\ t \in TxIds /\ u \in Users /\ l \in Ledgers /\ account \in Account
          /\ category \in Category \cup {None} /\ kind \in TransactionKind
      BY <1>1 DEF TypeOK, TransactionKind
    <2>4. CreateNext
      BY <2>2, <2>3 DEF CreateNext
    <2>5. QED
      BY <1>1, <2>4, CreateWrites
  <1>4. QED
    BY <1>2, <1>3

\* What a call of the service does to the ledger and its logs.
LEMMA CallFits ==
    ASSUME ImportFits, ManageNext \/ CreateOnLedger \/ DecideNext
    PROVE  /\ TypeOK' /\ PeopleFit' /\ \A t \in TxIds : RecordFits(t)'
           /\ \A t \in TxIds : \/ audit_logs'[t] # audit_logs[t]
                               \/ audit_logs'[t] = <<>>
                               \/ transactions'[t] = transactions[t]
  <1>1. TypeOK /\ PeopleFit /\ \A t \in TxIds : RecordFits(t)
    BY ImportFitsSplit
  <1>2. CASE ManageNext
    <2>1. TypeOK' /\ UNCHANGED <<transactions, audit_logs>>
      BY <1>1, <1>2, ManageTypes
    <2>2. PeopleFit'
      BY <1>1, <1>2, ManagePeople
    <2>3. users \subseteq users' /\ ledgers \subseteq ledgers' /\ categories \subseteq categories'
      BY <1>2, ManageKeepsRows
    <2>4. ASSUME NEW t \in TxIds PROVE RecordFits(t)'
      <3>1. RecordFits(t)
        BY <1>1
      <3>2. QED
        BY <2>1, <2>3, <3>1 DEF RecordFits, ForeignKeysFit
    <2>5. QED
      BY <2>1, <2>2, <2>4
  <1>3. ASSUME NEW t \in TxIds, Writes(t)
        PROVE  /\ TypeOK' /\ PeopleFit' /\ \A s \in TxIds : RecordFits(s)'
               /\ \A s \in TxIds : \/ audit_logs'[s] # audit_logs[s]
                                   \/ audit_logs'[s] = <<>>
                                   \/ transactions'[s] = transactions[s]
    <2>1. TypeOK' /\ PeopleFit' /\ \A s \in TxIds : RecordFits(s)'
      BY <1>1, <1>3, WritesFit
    <2>2. \A s \in TxIds : s # t => transactions'[s] = transactions[s]
      BY <1>1, <1>3 DEF Writes, TypeOK
    <2>3. audit_logs'[t] # audit_logs[t] \/ audit_logs'[t] = <<>>
      <3>1. CASE \E a \in AuditAction, u \in Users :
                    audit_logs' = [audit_logs EXCEPT ![t] = Logged(audit_logs[t], a, u)]
        <4>1. PICK a \in AuditAction, u \in Users :
                    audit_logs' = [audit_logs EXCEPT ![t] = Logged(audit_logs[t], a, u)]
          BY <3>1
        <4>2. audit_logs[t] \in Seq(AuditLog) /\ audit_logs'[t] = Logged(audit_logs[t], a, u)
          BY <1>1, <4>1 DEF TypeOK
        <4>3. Len(audit_logs'[t]) = Len(audit_logs[t]) + 1 /\ Len(audit_logs[t]) \in Nat
          BY <4>2, LoggedType
        <4>4. QED
          BY <4>3
      <3>2. CASE audit_logs' = audit_logs /\ transactions[t] = None
        <4>1. RecordFits(t)
          BY <1>1
        <4>2. QED
          BY <3>2, <4>1 DEF RecordFits
      <3>3. QED
        BY <1>3, <3>1, <3>2 DEF Writes
    <2>4. QED
      BY <2>1, <2>2, <2>3
  <1>4. CASE CreateOnLedger \/ DecideNext
    BY <1>3, <1>4, CallWrites
  <1>5. QED
    BY <1>2, <1>4

\* The invariant is kept by every step.
LEMMA StepImportFits ==
    ASSUME ImportFits, [Operate \/ Tick]_<<vars, clock>>
    PROVE  ImportFits'
  <1>1. ASSUME TypeOK', PeopleFit', \A t \in TxIds : RecordFits(t)', TimesFit'
        PROVE  ImportFits'
    BY <1>1 DEF ImportFits, PeopleFit, RecordFits
  <1>2. TypeOK /\ PeopleFit /\ (\A t \in TxIds : RecordFits(t)) /\ TimesFit
    BY ImportFitsSplit
  <1>3. CASE Operate
    <2>1. /\ TypeOK' /\ PeopleFit' /\ \A t \in TxIds : RecordFits(t)'
          /\ \A t \in TxIds : \/ audit_logs'[t] # audit_logs[t]
                              \/ audit_logs'[t] = <<>>
                              \/ transactions'[t] = transactions[t]
      BY <1>3, CallFits DEF Operate
    <2>2. /\ now' = now /\ now \in Nat
          /\ \A t \in TxIds :
                /\ TimesFitAt(t, now)
                /\ stamps'[t] = StampsAfter(t)
                /\ latest'[t] = IF audit_logs'[t] # audit_logs[t] THEN now ELSE latest[t]
      BY <1>2, <1>3, TimesFitSplit DEF Operate
    <2>3. \A t \in TxIds : TimesFitAt(t, now)'
      BY <2>1, <2>2, OperateTimes
    <2>4. TimesFit'
      BY <2>2, <2>3 DEF TimesFit, TimesFitAt
    <2>5. QED
      BY <1>1, <2>1, <2>4
  <1>4. CASE Tick
    <2>1. TypeOK' /\ PeopleFit' /\ \A t \in TxIds : RecordFits(t)'
      BY <1>2, <1>4 DEF Tick, vars, TypeOK, PeopleFit, MembersFit, MembershipRowsFit, RecordFits,
         ForeignKeysFit
    <2>2. TimesFit'
      BY <1>2, <1>4, TickTimes
    <2>3. QED
      BY <1>1, <2>1, <2>2
  <1>5. CASE UNCHANGED <<vars, clock>>
    <2>1. TypeOK' /\ PeopleFit' /\ \A t \in TxIds : RecordFits(t)'
      BY <1>2, <1>5 DEF vars, TypeOK, PeopleFit, MembersFit, MembershipRowsFit, RecordFits,
         ForeignKeysFit
    <2>2. TimesFit'
      BY <1>2, <1>5 DEF vars, clock, TimesFit, TimesOf
    <2>3. QED
      BY <1>1, <2>1, <2>2
  <1>6. QED
    BY <1>3, <1>4, <1>5

(***************************************************************************)
(* The service, started from any document that an older version saved,     *)
(* never leaves what holds of an imported ledger.                          *)
(***************************************************************************)
THEOREM ImportAlwaysFits == AnalysisSpec => []ImportFits
  <1>1. AnalysisInit => ImportFits
    BY ImportedFits
  <1>2. ImportFits /\ [Operate \/ Tick]_<<vars, clock>> => ImportFits'
    BY StepImportFits
  <1>3. QED
    BY <1>1, <1>2, PTL DEF AnalysisSpec

(***************************************************************************)
(* Every state reached from an imported ledger satisfies the foreign keys  *)
(* and the checks of the schema, also with the payments and categories     *)
(* that the import filled in.                                              *)
(***************************************************************************)
THEOREM ImportedRowsAlwaysFit == AnalysisSpec => []RowsFitSchema
  <1>1. ImportFits => RowsFitSchema
    BY DEF ImportFits, RowsFitSchema, WorkflowFits, Existing
  <1>2. QED
    BY <1>1, ImportAlwaysFits, PTL

-----------------------------------------------------------------------------
(* The queues.                                                             *)

\* The exposures that an analysis shows.
LEMMA AnalysisQueues ==
    ASSUME NEW o, NEW months
    PROVE  LET a == financial_analysis(o, months)
           IN  /\ a.pending_approval = Exposure(o, "Submitted", PaymentState)
               /\ a.pending_payment = Exposure(o, "Approved", {"PendingPayment"})
               /\ a.paid_pending_receipt = Exposure(o, "Approved", {"PaidPendingReceipt"})
  BY DEF financial_analysis

\* Who may approve, pay or analyse is a business owner; who may do anything on
\* a public ledger may view it.
LEMMA RolesOfSteps ==
    ASSUME NEW u \in Users, NEW l \in Ledgers, NEW action \in Action, authorized(u, l, action)
    PROVE  /\ authorized(u, l, "ViewLedger")
           /\ action \in {"ApproveTransaction", "MarkTransactionPaid", "ViewFinancialAnalytics"} =>
                 l \in Orgs /\ u \in BusinessOwners(l)
           /\ action = "ConfirmReceipt" => l \in Orgs
           /\ l \in Orgs => memberships[l][u] # None
  <1>1. CASE l \in Orgs
    <2> DEFINE role == memberships[l][u]
    <2>1. action \in can_perform_organization(role)
      BY <1>1 DEF authorized
    <2> HIDE DEF role
    <2>2. role # None /\ "ViewLedger" \in can_perform_organization(role)
      BY <2>1, LedgerConstants DEF can_perform_organization, ApproverActions, EmployeeActions,
         MembershipRole
    <2>3. action \in {"ApproveTransaction", "MarkTransactionPaid", "ViewFinancialAnalytics"} =>
             role \in {"BusinessOwner", "Approver"}
      BY <2>1 DEF can_perform_organization, ApproverActions, EmployeeActions
    <2>4. QED
      BY <1>1, <2>2, <2>3 DEF role, authorized, BusinessOwners
  <1>2. CASE l \notin Orgs
    BY <1>2 DEF authorized, PersonalActions
  <1>3. QED
    BY <1>1, <1>2

\* Whoever may take the next step finds it in the overview.
LEMMA StepsInOverview ==
    ASSUME ImportFits, NEW u \in Users, NEW t \in Existing, MayActOn(u, t)
    PROVE  t \in OverviewTransactions(u)
  <1> DEFINE tx == transactions[t]
  <1>1. tx.ledger \in Ledgers
    BY DEF ImportFits, TypeOK, Existing, Transaction
  <1>2. /\ "ApproveTransaction" \in Action /\ "MarkTransactionPaid" \in Action
        /\ "ConfirmReceipt" \in Action
    BY DEF Action
  <1>3. CASE tx.approval_state = "Submitted" /\ authorized(u, tx.ledger, "ApproveTransaction")
    <2>1. transaction_visible_to_actor(u, t)
      BY <1>1, <1>2, <1>3, RolesOfSteps DEF transaction_visible_to_actor, can_view_balances
    <2>2. QED
      BY <1>3, <2>1 DEF OverviewTransactions
  <1>4. CASE Payable(tx) /\ authorized(u, tx.ledger, "MarkTransactionPaid")
    <2>1. transaction_visible_to_actor(u, t)
      BY <1>1, <1>2, <1>4, RolesOfSteps DEF transaction_visible_to_actor, can_view_balances
    <2>2. QED
      BY <1>4, <2>1 DEF OverviewTransactions, Payable
  <1>5. CASE Receivable(tx) /\ tx.created_by = u /\ authorized(u, tx.ledger, "ConfirmReceipt")
    <2>1. transaction_visible_to_actor(u, t)
      BY <1>1, <1>2, <1>5, RolesOfSteps DEF transaction_visible_to_actor
    <2>2. QED
      BY <1>5, <2>1 DEF OverviewTransactions, Receivable
  <1>6. QED
    BY <1>3, <1>4, <1>5 DEF MayActOn

\* What the overview of u lists in these states.
Queue(u, approval, payments) ==
    {t \in OverviewTransactions(u) : /\ transactions[t].approval_state = approval
                                     /\ transactions[t].payment_state \in payments}

\* A business owner of o sees the exposures of o, and on other public ledgers
\* nothing.
LEMMA ExposuresQueued ==
    ASSUME ImportFits, NEW u \in Users, NEW o \in Orgs, may_analyse(u, o)
    PROVE  /\ Exposure(o, "Submitted", PaymentState) \subseteq Queue(u, "Submitted", PaymentState)
           /\ \A payment \in {"PendingPayment", "PaidPendingReceipt"} :
                 Exposure(o, "Approved", {payment}) = Queue(u, "Approved", {payment})
  <1>1. u \in BusinessOwners(o) /\ authorized(u, o, "ViewLedger") /\ memberships[o][u] # None
    <2>1. "ViewFinancialAnalytics" \in Action /\ o \in Ledgers
      BY DEF Action, Ledgers
    <2>2. QED
      BY <2>1, RolesOfSteps DEF may_analyse
  <1>2. ASSUME NEW t \in Existing, transactions[t].ledger = o
        PROVE  transaction_visible_to_actor(u, t)
    BY <1>1, <1>2 DEF transaction_visible_to_actor, can_view_balances
  <1>3. ASSUME NEW t \in Existing, transaction_visible_to_actor(u, t), transactions[t].ledger \in Orgs
        PROVE  transactions[t].ledger = o
    <2>1. authorized(u, transactions[t].ledger, "ViewLedger")
      BY <1>3 DEF transaction_visible_to_actor
    <2>2. memberships[transactions[t].ledger][u] # None
      <3>1. "ViewLedger" \in Action /\ transactions[t].ledger \in Ledgers
        BY <1>3 DEF Action, Ledgers
      <3>2. QED
        BY <1>3, <2>1, <3>1, RolesOfSteps
    <2>3. QED
      BY <1>1, <1>3, <2>2 DEF ImportFits, MembersFit
  <1>4. ASSUME NEW t \in Existing,
               transactions[t].payment_state \in {"PendingPayment", "PaidPendingReceipt"}
        PROVE  transactions[t].kind = "Expense" /\ transactions[t].ledger \in Orgs
    BY <1>4 DEF ImportFits, Existing, WorkflowFits
  <1>5. Exposure(o, "Submitted", PaymentState) \subseteq Queue(u, "Submitted", PaymentState)
    BY <1>2 DEF Exposure, Queue, OverviewTransactions
  <1>6. ASSUME NEW payment \in {"PendingPayment", "PaidPendingReceipt"}
        PROVE  Exposure(o, "Approved", {payment}) = Queue(u, "Approved", {payment})
    <2>1. Exposure(o, "Approved", {payment}) \subseteq Queue(u, "Approved", {payment})
      BY <1>2 DEF Exposure, Queue, OverviewTransactions
    <2>2. Queue(u, "Approved", {payment}) \subseteq Exposure(o, "Approved", {payment})
      <3>1. ASSUME NEW t \in Queue(u, "Approved", {payment})
            PROVE  t \in Exposure(o, "Approved", {payment})
        <4>1. /\ t \in Existing /\ transaction_visible_to_actor(u, t)
              /\ transactions[t].approval_state = "Approved"
              /\ transactions[t].payment_state = payment
          BY <3>1 DEF Queue, OverviewTransactions
        <4>2. transactions[t].kind = "Expense" /\ transactions[t].ledger \in Orgs
          BY <1>4, <4>1
        <4>3. transactions[t].ledger = o
          BY <1>3, <4>1, <4>2
        <4>4. QED
          BY <4>1, <4>2, <4>3 DEF Exposure
      <3>2. QED
        BY <3>1
    <2>3. QED
      BY <2>1, <2>2
  <1>7. QED
    BY <1>5, <1>6

(***************************************************************************)
(* From any imported ledger on, whoever may take the next step of a        *)
(* transaction finds it in the overview, and for whoever may see the       *)
(* analysis the queues are as long as the exposures.                       *)
(***************************************************************************)
THEOREM QueuesAlwaysComplete == AnalysisSpec => []QueuesComplete
  <1>1. ImportFits => QueuesComplete
    <2> SUFFICES ASSUME ImportFits, NEW u \in Users
                 PROVE  /\ \A t \in Existing : MayActOn(u, t) => t \in OverviewTransactions(u)
                        /\ \A o \in organizations : may_analyse(u, o) =>
                              LET a == financial_analysis(o, 1)
                              IN  /\ Cardinality(a.pending_approval) <= pending_approval_count(u)
                                  /\ Cardinality(a.pending_payment) = pending_payment_count(u)
                                  /\ Cardinality(a.paid_pending_receipt) = pending_receipt_count(u)
      BY DEF QueuesComplete
    <2>1. \A t \in Existing : MayActOn(u, t) => t \in OverviewTransactions(u)
      BY StepsInOverview
    <2>2. ASSUME NEW o \in organizations, may_analyse(u, o)
          PROVE  LET a == financial_analysis(o, 1)
                 IN  /\ Cardinality(a.pending_approval) <= pending_approval_count(u)
                     /\ Cardinality(a.pending_payment) = pending_payment_count(u)
                     /\ Cardinality(a.paid_pending_receipt) = pending_receipt_count(u)
      <3> DEFINE approval == Exposure(o, "Submitted", PaymentState)
                 payment  == Exposure(o, "Approved", {"PendingPayment"})
                 receipt  == Exposure(o, "Approved", {"PaidPendingReceipt"})
                 queued   == Queue(u, "Submitted", PaymentState)
      <3>1. o \in Orgs
        BY DEF ImportFits, TypeOK
      <3>2. /\ approval \subseteq queued
            /\ payment = Queue(u, "Approved", {"PendingPayment"})
            /\ receipt = Queue(u, "Approved", {"PaidPendingReceipt"})
        BY <2>2, <3>1, ExposuresQueued
      <3>3. /\ pending_approval_count(u) = Cardinality(queued)
            /\ pending_payment_count(u) = Cardinality(payment)
            /\ pending_receipt_count(u) = Cardinality(receipt)
        BY <3>2 DEF pending_approval_count, pending_payment_count, pending_receipt_count,
           OverviewCount, Queue
      <3>4. Cardinality(approval) <= Cardinality(queued)
        <4>1. IsFiniteSet(TxIds) /\ queued \subseteq TxIds
          BY AnalysisConstants DEF Queue, OverviewTransactions, Existing
        <4> HIDE DEF queued, approval
        <4>2. IsFiniteSet(queued)
          BY <4>1, FS_Subset
        <4>3. QED
          BY <3>2, <4>2, FS_Subset
      <3>5. LET a == financial_analysis(o, 1)
            IN  /\ a.pending_approval = approval /\ a.pending_payment = payment
                /\ a.paid_pending_receipt = receipt
        BY AnalysisQueues
      <3> HIDE DEF approval, payment, receipt, queued
      <3>6. QED
        BY <3>3, <3>4, <3>5
    <2>3. QED
      BY <2>1, <2>2
  <1>2. QED
    BY <1>1, ImportAlwaysFits, PTL

-----------------------------------------------------------------------------
(* The pages.                                                              *)

\* Quotients keep the order.
LEMMA DivisionMonotone ==
    ASSUME NEW a \in Nat, NEW b \in Nat, NEW d \in Nat \ {0}, a <= b
    PROVE  a \div d \in Int /\ b \div d \in Int /\ a \div d <= b \div d
  OBVIOUS

\* Later instants are on the same page or on a later one.
LEMMA PagesInOrder ==
    ASSUME NEW a \in Nat, NEW b \in Nat, a <= b, NEW granularity
    PROVE  PeriodKey(granularity, a) <= PeriodKey(granularity, b)
  <1>1. Beijing \in Nat /\ DayLength \in Nat \ {0} /\ MonthLength \in Nat \ {0}
    BY AnalysisConstants
  <1>2. a + Beijing \in Nat /\ b + Beijing \in Nat /\ a + Beijing <= b + Beijing
    BY <1>1
  <1>3. day_key(a) <= day_key(b) /\ month_key(a) <= month_key(b)
    BY <1>1, <1>2, DivisionMonotone DEF day_key, month_key
  <1>4. QED
    BY <1>3 DEF PeriodKey

\* The pages of the history that show t.
PagesOf(u, l, t) ==
    {page \in UNION {{m} \X available_days(u, l, m) : m \in available_months(u, l)} :
        t \in transactions_for_day(u, l, page[1], page[2])}

\* They are exactly one.
LEMMA OnePage ==
    ASSUME NEW u, NEW l, NEW t \in VisibleOn(u, l)
    PROVE  PagesOf(u, l, t)
              = {<<month_key(stamps[t].occurred_at), day_key(stamps[t].occurred_at)>>}
  <1> DEFINE month == month_key(stamps[t].occurred_at)
             day   == day_key(stamps[t].occurred_at)
  <1>1. \A m, d : t \in transactions_for_day(u, l, m, d) <=> m = month /\ d = day
    BY DEF transactions_for_day, transactions_for_month
  <1>2. month \in available_months(u, l) /\ day \in available_days(u, l, month)
    BY DEF available_months, available_days, transactions_for_month
  <1> HIDE DEF month, day
  <1>3. <<month, day>> \in PagesOf(u, l, t)
    <2>1. <<month, day>> \in {month} \X available_days(u, l, month)
      BY <1>2
    <2>2. <<month, day>> \in UNION {{m} \X available_days(u, l, m) : m \in available_months(u, l)}
      BY <1>2, <2>1
    <2>3. QED
      BY <1>1, <2>2 DEF PagesOf
  <1>4. ASSUME NEW page \in PagesOf(u, l, t)
        PROVE  page = <<month, day>>
    <2>1. PICK m \in available_months(u, l) : page \in {m} \X available_days(u, l, m)
      BY <1>4 DEF PagesOf
    <2>2. page[1] = month /\ page[2] = day
      BY <1>1, <1>4 DEF PagesOf
    <2>3. QED
      BY <2>1, <2>2
  <1>5. PagesOf(u, l, t) = {<<month, day>>}
    BY <1>3, <1>4
  <1>6. QED
    BY <1>5 DEF month, day

\* The life of t is on the page of its last event, and no step it shows is on
\* a later one.
LEMMA LastPage ==
    ASSUME ImportFits, NEW u, NEW l, NEW t \in Lifecycles(u, l), NEW granularity
    PROVE  \E p \in audit_available(u, l, granularity) :
              /\ t \in audit_period(u, l, granularity, p)
              /\ \A at \in TimesOf(t) : PeriodKey(granularity, at) <= p
  <1> DEFINE p == PeriodKey(granularity, latest[t])
  <1>1. p \in audit_available(u, l, granularity) /\ t \in audit_period(u, l, granularity, p)
    BY DEF audit_available, audit_period
  <1>2. t \in TxIds /\ audit_logs[t] # <<>>
    BY DEF Lifecycles, Existing
  <1>3. latest[t] \in Nat /\ \A at \in TimesOf(t) : at \in Nat /\ at <= latest[t]
    BY <1>2 DEF ImportFits, TimesFit
  <1>4. \A at \in TimesOf(t) : PeriodKey(granularity, at) <= p
    BY <1>3, PagesInOrder
  <1>5. QED
    BY <1>1, <1>4

(***************************************************************************)
(* From any imported ledger on, every transaction somebody may see is on   *)
(* one page of the history, and every audited one on the page of its last  *)
(* event, after which none of its steps was taken.                         *)
(***************************************************************************)
THEOREM PagesAlwaysComplete == AnalysisSpec => []PagesComplete
  <1>1. ImportFits => PagesComplete
    <2> SUFFICES ASSUME ImportFits, NEW u \in Users, NEW l \in ledgers
                 PROVE  /\ \A t \in VisibleOn(u, l) : Cardinality(PagesOf(u, l, t)) = 1
                        /\ \A t \in Lifecycles(u, l), granularity \in {"Day", "Month"} :
                              \E p \in audit_available(u, l, granularity) :
                                 /\ t \in audit_period(u, l, granularity, p)
                                 /\ \A at \in TimesOf(t) : PeriodKey(granularity, at) <= p
      BY DEF PagesComplete, PagesOf
    <2>1. ASSUME NEW t \in VisibleOn(u, l)
          PROVE  Cardinality(PagesOf(u, l, t)) = 1
      <3> DEFINE page == <<month_key(stamps[t].occurred_at), day_key(stamps[t].occurred_at)>>
      <3>1. PagesOf(u, l, t) = {page}
        BY OnePage
      <3> HIDE DEF page
      <3>2. QED
        BY <3>1, FS_Singleton
    <2>2. QED
      BY <2>1, LastPage
  <1>2. QED
    BY <1>1, ImportAlwaysFits, PTL

-----------------------------------------------------------------------------
(* The dates of the books.                                                 *)

\* What a call may do to the record of t.
RecordMoves(t) ==
    \/ transactions'[t] = transactions[t]
    \/ transactions[t] = None /\ transactions'[t] # None /\ Opens(transactions'[t])
    \/ /\ transactions[t] # None /\ transactions'[t] # None
       /\ Advances(transactions[t], transactions'[t])

\* Every call does that.
LEMMA CallMoves ==
    ASSUME ImportFits, ManageNext \/ CreateOnLedger \/ DecideNext, NEW t \in TxIds
    PROVE  RecordMoves(t)
  <1>1. TypeOK
    BY ImportFitsSplit
  <1>2. CASE ManageNext
    BY <1>1, <1>2, ManageTypes DEF RecordMoves
  <1>3. CASE CreateOnLedger \/ DecideNext
    <2>1. PICK s \in TxIds : Writes(s)
      BY <1>3, CallWrites
    <2>2. PICK new \in Transaction : /\ IF transactions[s] = None THEN Opens(new)
                                        ELSE Advances(transactions[s], new)
                                     /\ transactions' = [transactions EXCEPT ![s] = new]
      BY <2>1 DEF Writes
    <2>3. transactions'[t] = IF t = s THEN new ELSE transactions[t]
      BY <1>1, <2>2 DEF TypeOK
    <2>4. new # None
      BY NoTransaction
    <2>5. QED
      BY <2>2, <2>3, <2>4 DEF RecordMoves
  <1>4. QED
    BY <1>2, <1>3

\* The part of BooksFit about one transaction.
BookFits(t) ==
    transactions[t] # None =>
        /\ transactions[t].account.ledger = transactions[t].ledger
        /\ stamps[t].occurred_at # None
        /\ transactions[t].payment_state = "PaidPendingReceipt" => stamps[t].paid_at # None

\* BooksFit, one transaction at a time.
LEMMA BooksFitSplit ==
    BooksFit <=> \A t \in TxIds : BookFits(t)
  BY DEF BooksFit, BookFits, Existing

\* The import keeps the accounts and the dates it finds.
LEMMA CategoryKeeps ==
    ASSUME NEW tx \in StoredTransaction, NEW new, new = assign_default_categories(tx)
    PROVE  /\ new.account = tx.account /\ new.ledger = tx.ledger
           /\ new.payment_state = tx.payment_state
  BY DEF assign_default_categories, StoredTransaction

LEMMA PaymentKeeps ==
    ASSUME NEW tx \in StoredTransaction, NEW new, new = WithPayment(tx)
    PROVE  /\ new \in StoredTransaction /\ new.account = tx.account /\ new.ledger = tx.ledger
           /\ new.payment_state = "Received"
  BY PaymentGiven DEF WithPayment, StoredTransaction

LEMMA StampingKeeps ==
    ASSUME NEW tx, NEW s \in Stamps, NEW at, NEW new, new = StampedPayment(tx, s, at)
    PROVE  new.occurred_at = s.occurred_at /\ new.paid_at = s.paid_at
  BY DEF StampedPayment, Stamps

\* Every imported transaction is booked and dated.
LEMMA ImportedBooks ==
    ASSUME NEW doc, DocumentWellFormed(doc), migrate_to_current_schema(doc), NEW t \in TxIds
    PROVE  BookFits(t)
  <1> SUFFICES ASSUME transactions[t] # None
               PROVE  /\ transactions[t].account.ledger = transactions[t].ledger
                      /\ stamps[t].occurred_at # None
                      /\ transactions[t].payment_state = "PaidPendingReceipt" =>
                            stamps[t].paid_at # None
    BY DEF BookFits
  <1> DEFINE tx == doc.transactions[t]
             old == doc.stamps[t]
             with == WithPayment(tx)
             paid == IF doc.schema_version < 2 /\ Settled(tx) THEN with ELSE tx
             new == assign_default_categories(paid)
             stamped == StampedPayment(tx, old, doc.updated_at[t])
  <1>1. transactions[t] = MigratedRecord(doc, t) /\ stamps[t] = MigratedStamps(doc, t)
    BY DEF migrate_to_current_schema
  <1>2. tx # None
    BY <1>1 DEF MigratedRecord
  <1>3. RecordWellFormed(doc, tx) /\ TimesWellFormed(doc, t)
    BY <1>2 DEF DocumentWellFormed
  <1>4. /\ tx \in StoredTransaction /\ tx.account.ledger = tx.ledger
        /\ old \in Stamps /\ old.occurred_at # None
        /\ tx.payment_state = "PaidPendingReceipt" => old.paid_at # None
    BY <1>2, <1>3 DEF RecordWellFormed, TimesWellFormed
  <1>5. transactions[t] = new /\ (stamps[t] = old \/ stamps[t] = stamped)
    BY <1>1, <1>2 DEF MigratedRecord, MigratedStamps
  <1> HIDE DEF tx, old
  <1>6. stamps[t].occurred_at = old.occurred_at /\ stamps[t].paid_at = old.paid_at
    <2>1. stamped.occurred_at = old.occurred_at /\ stamped.paid_at = old.paid_at
      BY <1>4, StampingKeeps
    <2> HIDE DEF stamped
    <2>2. QED
      BY <1>5, <2>1
  <1>7. /\ with \in StoredTransaction /\ with.account = tx.account /\ with.ledger = tx.ledger
        /\ with.payment_state = "Received"
    BY <1>4, PaymentKeeps
  <1> HIDE DEF with
  <1>8. /\ paid \in StoredTransaction /\ paid.account = tx.account /\ paid.ledger = tx.ledger
        /\ paid.payment_state \in {"Received", tx.payment_state}
    BY <1>4, <1>7
  <1> HIDE DEF paid
  <1>9. /\ new.account = paid.account /\ new.ledger = paid.ledger
        /\ new.payment_state = paid.payment_state
    BY <1>8, CategoryKeeps
  <1> HIDE DEF new
  <1>10. QED
    BY <1>4, <1>5, <1>6, <1>8, <1>9

\* A call keeps accounts and stamps payments.
LEMMA OperateBooks ==
    ASSUME NEW t \in TxIds, BookFits(t), RecordMoves(t), stamps'[t] = StampsAfter(t), now \in Nat
    PROVE  BookFits(t)'
  <1>1. /\ stamps'[t].occurred_at = IF transactions[t] = None /\ transactions'[t] # None
                                    THEN now ELSE stamps[t].occurred_at
        /\ stamps'[t].paid_at = IF Becomes(t, "payment_state", "PaidPendingReceipt")
                                THEN now ELSE stamps[t].paid_at
    BY DEF StampsAfter
  <1>2. now # None
    BY AnalysisConstants
  <1>3. QED
    BY <1>1, <1>2 DEF BookFits, RecordMoves, Opens, Advances, Becomes, PaymentOnApproval

\* The invariant of the reports.
BooksAndImportFit == ImportFits /\ BooksFit

\* No step of the service or of the clock unfits the books.
LEMMA StepBooksFit ==
    ASSUME ImportFits, BooksFit, [Operate \/ Tick]_<<vars, clock>>
    PROVE  BooksFit'
  <1>1. CASE Operate
    <2>1. ASSUME NEW t \in TxIds PROVE BookFits(t)'
      <3>1. RecordMoves(t)
        BY <1>1, CallMoves DEF Operate
      <3>2. stamps'[t] = StampsAfter(t) /\ now \in Nat
        BY <1>1 DEF Operate, ImportFits, TimesFit
      <3>3. BookFits(t)
        BY BooksFitSplit
      <3>4. QED
        BY <3>1, <3>2, <3>3, OperateBooks
    <2>2. QED
      BY <2>1 DEF BookFits, BooksFit, Existing
  <1>2. CASE Tick \/ UNCHANGED <<vars, clock>>
    BY <1>2 DEF Tick, vars, clock, BooksFit, Existing
  <1>3. QED
    BY <1>1, <1>2

(***************************************************************************)
(* In every state reached from an imported ledger each transaction is      *)
(* booked on an account of its ledger and has a date, and a payment whose  *)
(* receipt may be confirmed has one.                                       *)
(***************************************************************************)
THEOREM BooksAlwaysFit == AnalysisSpec => []BooksAndImportFit
  <1>1. AnalysisInit => BooksAndImportFit
    <2> SUFFICES ASSUME AnalysisInit PROVE ImportFits /\ BooksFit
      BY DEF BooksAndImportFit
    <2>1. PICK doc \in LegacyDocuments : migrate_to_current_schema(doc)
      BY DEF AnalysisInit
    <2>2. DocumentWellFormed(doc)
      BY LegacyWellFormed
    <2>3. BooksFit
      BY <2>1, <2>2, ImportedBooks, BooksFitSplit
    <2>4. QED
      BY <2>3, ImportedFits
  <1>2. BooksAndImportFit /\ [Operate \/ Tick]_<<vars, clock>> => BooksAndImportFit'
    BY StepImportFits, StepBooksFit DEF BooksAndImportFit
  <1>3. QED
    BY <1>1, <1>2, PTL DEF AnalysisSpec

-----------------------------------------------------------------------------
(* The calendar.                                                           *)

\* The quotient by d, as the interval of d numbers it stands for.
LEMMA Quotient ==
    ASSUME NEW a \in Nat, NEW d \in Nat \ {0}, NEW m \in Int
    PROVE  m * d <= a /\ a <= m * d + d - 1 <=> a \div d = m
OBVIOUS

\* The instants of a month.
InMonth(m) == calendar_month_start(m) .. calendar_month_start(m) + MonthLength - 1

\* An instant lies in the month of its key and in no other.
LEMMA MonthsPartition ==
    ASSUME NEW at \in Nat, NEW m \in Int
    PROVE  at \in InMonth(m) <=> month_key(at) = m
  <1>1. Beijing \in Nat /\ MonthLength \in Nat \ {0}
    BY AnalysisConstants
  <1> DEFINE start == m * MonthLength
  <1>2. start <= at + Beijing /\ at + Beijing <= start + MonthLength - 1 <=> month_key(at) = m
    BY <1>1, Quotient DEF month_key
  <1>3. start \in Int
    BY <1>1
  <1>4. InMonth(m) = start - Beijing .. start - Beijing + MonthLength - 1
    BY DEF InMonth, calendar_month_start
  <1> HIDE DEF start
  <1>5. QED
    BY <1>1, <1>2, <1>3, <1>4

\* When the cash of a transaction moved, if it did.
LEMMA CashDate ==
    ASSUME NEW t
    PROVE  transaction_cash_effective_at(t) =
              IF Earned(transactions[t])
              THEN OrElse(stamps[t].approved_at, stamps[t].occurred_at)
              ELSE IF PaidOut(transactions[t])
              THEN OrElse(stamps[t].paid_at, OrElse(stamps[t].received_at, stamps[t].occurred_at))
              ELSE None
  BY DEF transaction_cash_effective_at, Earned, PaidOut

\* A cash movement has one date, in one of the months so far, exactly if it
\* counts in the balance.
LEMMA CashDated ==
    ASSUME ImportFits, BooksFit, NEW t \in Existing
    PROVE  LET at == transaction_cash_effective_at(t)
           IN  /\ at # None <=> transaction_affects_balance(transactions[t])
               /\ at # None => /\ at \in Nat /\ at <= now
                               /\ month_key(at) \in 0 .. month_key(now)
  <1> DEFINE s == stamps[t]
             at == transaction_cash_effective_at(t)
  <1>1. /\ t \in TxIds /\ s \in Stamps /\ s.occurred_at # None /\ now \in Nat
        /\ \A time \in TimesOf(t) : time \in Nat /\ time <= now
    BY DEF ImportFits, TimesFit, BooksFit, Existing
  <1>2. \A f \in {"occurred_at", "approved_at", "paid_at", "received_at"} :
           s[f] # None => s[f] \in TimesOf(t)
    <2>1. DOMAIN s = {"occurred_at", "approved_at", "paid_at", "received_at"}
      BY <1>1 DEF Stamps
    <2>2. QED
      BY <2>1 DEF TimesOf
  <1>3. at = IF Earned(transactions[t]) THEN OrElse(s.approved_at, s.occurred_at)
             ELSE IF PaidOut(transactions[t])
             THEN OrElse(s.paid_at, OrElse(s.received_at, s.occurred_at))
             ELSE None
    BY CashDate
  <1> HIDE DEF s, at
  <1>4. at # None => at \in TimesOf(t)
    BY <1>2, <1>3 DEF OrElse
  <1>5. at # None <=> Earned(transactions[t]) \/ PaidOut(transactions[t])
    BY <1>1, <1>3 DEF OrElse
  <1>6. Earned(transactions[t]) \/ PaidOut(transactions[t])
           <=> transaction_affects_balance(transactions[t])
    BY DEF Earned, PaidOut, transaction_affects_balance
  <1>7. ASSUME at # None
        PROVE  at \in Nat /\ at <= now /\ month_key(at) \in 0 .. month_key(now)
    <2>1. at \in Nat /\ at <= now
      BY <1>1, <1>4, <1>7
    <2>2. /\ at + Beijing \in Nat /\ now + Beijing \in Nat /\ at + Beijing <= now + Beijing
          /\ MonthLength \in Nat \ {0}
      BY <1>1, <2>1, AnalysisConstants
    <2>3. /\ month_key(at) \in Int /\ month_key(now) \in Int /\ month_key(at) <= month_key(now)
      BY <2>2, DivisionMonotone DEF month_key
    <2>4. 0 <= month_key(at)
      <3>1. 0 \div MonthLength = 0
        BY <2>2
      <3>2. QED
        BY <2>2, <3>1, DivisionMonotone DEF month_key
    <2>5. QED
      BY <2>1, <2>3, <2>4
  <1>8. QED
    BY <1>5, <1>6, <1>7 DEF at

-----------------------------------------------------------------------------
(* Closed months.                                                          *)

\* A call that does not void t leaves its cash date alone or makes it now.
LEMMA CashDateMoves ==
    ASSUME ImportFits, BooksFit, NEW t \in TxIds, RecordMoves(t), stamps'[t] = StampsAfter(t),
           transactions'[t] # None, transactions'[t].ledger \in Orgs,
           ~(/\ transactions[t] # None /\ transactions[t].approval_state = "Approved"
             /\ transactions'[t].approval_state = "Voided")
    PROVE  IF transactions[t] = None
           THEN transaction_cash_effective_at(t)' \in {None, now}
           ELSE \/ transaction_cash_effective_at(t)' = transaction_cash_effective_at(t)
                \/ /\ transaction_cash_effective_at(t) = None
                   /\ transaction_cash_effective_at(t)' \in {None, now}
  <1> DEFINE tx == transactions[t]
             new == transactions'[t]
             s == stamps[t]
             after == stamps'[t]
  <1>1. /\ after.occurred_at = (IF tx = None THEN now ELSE s.occurred_at)
        /\ after.approved_at = IF /\ new.approval_state = "Approved"
                                  /\ tx = None \/ tx.approval_state # "Approved"
                               THEN now ELSE s.approved_at
        /\ after.paid_at = IF /\ new.payment_state = "PaidPendingReceipt"
                              /\ tx = None \/ tx.payment_state # "PaidPendingReceipt"
                           THEN now ELSE s.paid_at
        /\ after.received_at = IF /\ new.payment_state = "Received"
                                  /\ tx = None \/ tx.payment_state # "Received"
                               THEN now ELSE s.received_at
    BY DEF StampsAfter, Becomes
  <1>2. transaction_cash_effective_at(t)' =
           IF Earned(new) THEN OrElse(after.approved_at, after.occurred_at)
           ELSE IF PaidOut(new)
           THEN OrElse(after.paid_at, OrElse(after.received_at, after.occurred_at))
           ELSE None
    BY DEF transaction_cash_effective_at, Earned, PaidOut
  <1>3. transaction_cash_effective_at(t) =
           IF Earned(tx) THEN OrElse(s.approved_at, s.occurred_at)
           ELSE IF PaidOut(tx) THEN OrElse(s.paid_at, OrElse(s.received_at, s.occurred_at))
           ELSE None
    BY CashDate
  <1>4. now # None
    BY AnalysisConstants DEF ImportFits, TimesFit
  <1>5. CASE new = tx
    <2>1. /\ after.occurred_at = s.occurred_at /\ after.approved_at = s.approved_at
          /\ after.paid_at = s.paid_at /\ after.received_at = s.received_at
      BY <1>1, <1>5
    <2> HIDE DEF tx, new, s, after
    <2>2. transaction_cash_effective_at(t)' = transaction_cash_effective_at(t)
      BY <1>2, <1>3, <1>5, <2>1
    <2>3. tx # None
      BY <1>5 DEF new
    <2>4. QED
      BY <2>2, <2>3 DEF tx
  <1>6. CASE tx = None /\ Opens(new)
    <2>1. ~PaidOut(new)
      BY <1>6 DEF Opens, PaidOut
    <2>2. Earned(new) => after.approved_at = now
      BY <1>1, <1>6 DEF Earned
    <2> HIDE DEF tx, new, s, after
    <2>3. transaction_cash_effective_at(t)' \in {None, now}
      BY <1>2, <1>4, <2>1, <2>2 DEF OrElse
    <2>4. QED
      BY <1>6, <2>3 DEF tx
  <1>7. CASE tx # None /\ Advances(tx, new)
    <2>1. WorkflowFits(tx) /\ (tx.payment_state = "PaidPendingReceipt" => s.paid_at # None)
      BY <1>7 DEF ImportFits, BooksFit, Existing
    <2>2. ~(tx.approval_state = "Approved" /\ new.approval_state = "Voided") /\ new.kind = tx.kind
      BY <1>7 DEF Advances
    <2> HIDE DEF tx, new, s, after
    <2>3. CASE tx.approval_state = "Submitted"
      <3>1. ~Earned(tx) /\ ~PaidOut(tx)
        BY <2>3 DEF Earned, PaidOut
      <3>2. ~PaidOut(new) /\ (Earned(new) => after.approved_at = now)
        BY <1>1, <1>7, <2>3 DEF Advances, Earned, PaidOut, PaymentOnApproval
      <3>3. /\ transaction_cash_effective_at(t) = None
            /\ transaction_cash_effective_at(t)' \in {None, now}
        BY <1>2, <1>3, <1>4, <3>1, <3>2 DEF OrElse
      <3>4. QED
        BY <1>7, <3>3 DEF tx
    <2>4. CASE tx.payment_state = "PendingPayment" /\ new.payment_state = "PaidPendingReceipt"
      <3>1. ~Earned(tx) /\ ~PaidOut(tx) /\ ~Earned(new)
        BY <2>1, <2>2, <2>4 DEF WorkflowFits, Earned, PaidOut
      <3>2. after.paid_at = now
        BY <1>1, <2>4
      <3>3. /\ transaction_cash_effective_at(t) = None
            /\ transaction_cash_effective_at(t)' \in {None, now}
        BY <1>2, <1>3, <1>4, <3>1, <3>2 DEF OrElse
      <3>4. QED
        BY <1>7, <3>3 DEF tx
    <2>5. CASE /\ tx.approval_state = "Approved" /\ new.approval_state = "Approved"
               /\ tx.payment_state = "PaidPendingReceipt" /\ new.payment_state = "Received"
      <3>1. ~Earned(tx) /\ PaidOut(tx) /\ ~Earned(new) /\ PaidOut(new)
        BY <2>1, <2>2, <2>5 DEF WorkflowFits, Earned, PaidOut
      <3>2. after.paid_at = s.paid_at /\ s.paid_at # None
        BY <1>1, <2>1, <2>5
      <3>3. transaction_cash_effective_at(t)' = transaction_cash_effective_at(t)
        BY <1>2, <1>3, <3>1, <3>2 DEF OrElse
      <3>4. QED
        BY <1>7, <3>3 DEF tx
    <2>6. QED
      BY <1>7, <2>2, <2>3, <2>4, <2>5 DEF Advances
  <1>8. QED
    BY <1>5, <1>6, <1>7 DEF RecordMoves

\* What no call changes of a record but the states.
LEMMA RecordKeeps ==
    ASSUME NEW t \in Existing, RecordMoves(t)
    PROVE  /\ transactions'[t] # None
           /\ transactions'[t].ledger = transactions[t].ledger
           /\ transactions'[t].kind = transactions[t].kind
           /\ transactions'[t].amount = transactions[t].amount
  BY DEF RecordMoves, Advances, Existing

\* The present lies in no closed month.
LEMMA NowIsNotClosed ==
    ASSUME now \in Nat, NEW m \in 0 .. month_key(now) - 1
    PROVE  m \in Int /\ now \notin InMonth(m)
  <1>1. month_key(now) \in Int
    <2>1. now + Beijing \in Nat /\ MonthLength \in Nat \ {0}
      BY AnalysisConstants
    <2>2. QED
      BY <2>1, DivisionMonotone DEF month_key
  <1>2. m \in Int /\ m # month_key(now)
    BY <1>1
  <1>3. QED
    BY <1>2, MonthsPartition

\* Without a voiding a call leaves the cash flow of a closed month alone.
LEMMA ClosedFlowKept ==
    ASSUME ImportFits, BooksFit, Operate, NEW o \in Orgs, NEW m \in 0 .. month_key(now) - 1,
           ~\E t \in Existing : /\ transactions[t].approval_state = "Approved"
                               /\ transactions'[t].approval_state = "Voided"
                               /\ transactions[t].ledger = o
    PROVE  /\ CashFlow(o, InMonth(m))' = CashFlow(o, InMonth(m))
           /\ \A t \in CashFlow(o, InMonth(m)) :
                 /\ transactions'[t].kind = transactions[t].kind
                 /\ transactions'[t].amount = transactions[t].amount
  <1> DEFINE month == InMonth(m)
             flow == CashFlow(o, month)
             flowAfter == {t \in Existing' : /\ transactions'[t].ledger = o
                                           /\ transaction_cash_effective_at(t)' # None
                                           /\ transaction_cash_effective_at(t)' \in month}
  <1>1. now \in Nat /\ now \notin month
    BY NowIsNotClosed DEF ImportFits, TimesFit
  <1>2. \A t \in TxIds : RecordMoves(t) /\ stamps'[t] = StampsAfter(t)
    BY CallMoves DEF Operate
  <1>3. CashFlow(o, InMonth(m))' = flowAfter
    BY DEF CashFlow, InMonth, calendar_month_start
  <1> HIDE DEF month
  <1>4. ASSUME NEW t \in TxIds
        PROVE  t \in flow <=> t \in flowAfter
    <2>1. CASE transactions[t] = None
      <3>1. t \notin flow
        BY <2>1 DEF CashFlow, Existing
      <3>2. ASSUME t \in flowAfter PROVE FALSE
        <4>1. transaction_cash_effective_at(t)' \in {None, now}
          BY <1>2, <2>1, <3>2, CashDateMoves DEF Existing
        <4>2. QED
          BY <1>1, <3>2, <4>1
      <3>3. QED
        BY <3>1, <3>2
    <2>2. CASE transactions[t] # None
      <3>1. t \in Existing /\ transactions'[t] # None
            /\ transactions'[t].ledger = transactions[t].ledger
        BY <1>2, <2>2, RecordKeeps DEF Existing
      <3>2. CASE transactions[t].ledger # o
        BY <3>1, <3>2 DEF CashFlow
      <3>3. CASE transactions[t].ledger = o
        <4>1. \/ transaction_cash_effective_at(t)' = transaction_cash_effective_at(t)
              \/ /\ transaction_cash_effective_at(t) = None
                 /\ transaction_cash_effective_at(t)' \in {None, now}
          <5>1. ~(/\ transactions[t] # None /\ transactions[t].approval_state = "Approved"
                  /\ transactions'[t].approval_state = "Voided")
            BY <3>1, <3>3
          <5>2. QED
            BY <1>2, <2>2, <3>1, <3>3, <5>1, CashDateMoves
        <4>2. QED
          BY <1>1, <3>1, <3>3, <4>1 DEF CashFlow, Existing
      <3>4. QED
        BY <3>2, <3>3
    <2>3. QED
      BY <2>1, <2>2
  <1>5. flow \subseteq Existing /\ flowAfter \subseteq TxIds /\ Existing \subseteq TxIds
    BY DEF CashFlow, Existing
  <1>6. flow = flowAfter
    BY <1>4, <1>5
  <1>7. \A t \in flow : /\ transactions'[t].kind = transactions[t].kind
                        /\ transactions'[t].amount = transactions[t].amount
    BY <1>2, <1>5, RecordKeeps
  <1>8. QED
    BY <1>3, <1>6, <1>7 DEF month

\* The totals of a month.
LEMMA MonthTotals ==
    ASSUME NEW o, NEW m
    PROVE  financial_month_detail(o, m).totals = IncomeAndExpense(CashFlow(o, InMonth(m)))
  BY DEF financial_month_detail, InMonth

(***************************************************************************)
(* The totals of a month that is over change by a voiding only, from any   *)
(* imported ledger on and whatever happens to its transactions, people and *)
(* roles.                                                                  *)
(***************************************************************************)
THEOREM ClosedMonthsAlwaysFixed == AnalysisSpec => ClosedMonthsFixed
  <1>1. BooksAndImportFit /\ [Operate \/ Tick]_<<vars, clock>>
           => [KeepsClosedMonths]_<<vars, clock>>
    <2> SUFFICES ASSUME ImportFits, BooksFit, Operate \/ Tick,
                        NEW o \in organizations, NEW m \in 0 .. month_key(now) - 1,
                        ~\E t \in Existing : /\ transactions[t].approval_state = "Approved"
                                            /\ transactions'[t].approval_state = "Voided"
                                            /\ transactions[t].ledger = o
                 PROVE  financial_month_detail(o, m).totals' = financial_month_detail(o, m).totals
      BY DEF BooksAndImportFit, KeepsClosedMonths
    <2>1. o \in Orgs
      BY DEF ImportFits, TypeOK
    <2> DEFINE flow == CashFlow(o, InMonth(m))
    <2>2. /\ flow' = flow
          /\ \A t \in flow : /\ transactions'[t].kind = transactions[t].kind
                             /\ transactions'[t].amount = transactions[t].amount
      <3>1. CASE Operate
        BY <2>1, <3>1, ClosedFlowKept
      <3>2. CASE Tick
        BY <3>2 DEF Tick, vars, CashFlow, Existing, transaction_cash_effective_at, Earned, PaidOut,
           InMonth, calendar_month_start
      <3>3. QED
        BY <3>1, <3>2
    <2>3. financial_month_detail(o, m).totals = IncomeAndExpense(flow)
      BY MonthTotals
    <2>4. financial_month_detail(o, m).totals' = IncomeAndExpense(flow)'
      BY DEF financial_month_detail, InMonth
    <2> HIDE DEF flow
    <2>5. IncomeAndExpense(flow)' = IncomeAndExpense(flow)
      BY <2>2 DEF IncomeAndExpense, OfKind, AmountOf
    <2>6. QED
      BY <2>3, <2>4, <2>5
  <1>2. QED
    BY <1>1, BooksAlwaysFit, PTL DEF AnalysisSpec, ClosedMonthsFixed

-----------------------------------------------------------------------------
(* Sums over the books.                                                    *)

\* The transactions of a ledger that count in its balances.
BookedOn(o) == {t \in Existing : /\ transactions[t].ledger = o
                                 /\ transaction_affects_balance(transactions[t])}

\* The month in which the cash of t moved.
CashMonth(t) == month_key(transaction_cash_effective_at(t))

AmountSigned == [t \in TxIds |-> SignedAmount(transactions[t])]

AmountUnsigned == [t \in TxIds |-> transactions[t].amount]

\* Sums over transactions are over finite sets.
LEMMA FiniteExisting ==
    /\ IsFiniteSet(Existing)
    /\ \A flow \in SUBSET Existing : IsFiniteSet(flow)
  BY AnalysisConstants, FS_Subset DEF Existing

\* Amounts are numbers, and every transaction is an income or an expense.
LEMMA AmountsInt ==
    ASSUME ImportFits, NEW t \in Existing
    PROVE  /\ AmountUnsigned[t] = transactions[t].amount /\ AmountUnsigned[t] \in Int
           /\ AmountSigned[t] = SignedAmount(transactions[t]) /\ AmountSigned[t] \in Int
           /\ transactions[t].kind \in {"Income", "Expense"}
  <1>1. t \in TxIds /\ transactions[t] \in Transaction /\ WorkflowFits(transactions[t])
    BY DEF ImportFits, TypeOK, Existing
  <1>2. transactions[t].amount \in Int /\ transactions[t].kind \in {"Income", "Expense"}
    BY <1>1, LedgerConstants DEF Transaction, WorkflowFits
  <1>3. QED
    BY <1>1, <1>2 DEF AmountSigned, AmountUnsigned, SignedAmount

\* The amount of a flow is the sum of its transactions.
LEMMA AmountIsSum ==
    ASSUME NEW flow \in SUBSET Existing
    PROVE  AmountOf(flow) = SumFunctionOnSet(AmountUnsigned, flow)
  <1> DEFINE f == [t \in flow |-> transactions[t].amount]
  <1>1. AmountOf(flow) = SumFunctionOnSet(f, flow)
    BY DEF AmountOf, SumFunction
  <1>2. IsFiniteSet(flow)
    BY FiniteExisting
  <1>3. \A t \in flow : f[t] = AmountUnsigned[t]
    BY DEF AmountUnsigned, Existing
  <1> HIDE DEF f
  <1>4. QED
    BY <1>1, <1>2, <1>3, SumSame

\* So are the amounts of flows.
LEMMA AmountInt ==
    ASSUME ImportFits, NEW flow \in SUBSET Existing
    PROVE  AmountOf(flow) \in Int
  <1>1. IsFiniteSet(flow) /\ \A t \in flow : AmountUnsigned[t] \in Int
    BY FiniteExisting, AmountsInt
  <1>2. SumFunctionOnSet(AmountUnsigned, flow) \in Int
    BY <1>1, SumInt
  <1>3. QED
    BY <1>2, AmountIsSum

\* A flow is its income and its expense.
LEMMA FlowByKind ==
    ASSUME ImportFits, NEW flow \in SUBSET Existing
    PROVE  /\ OfKind(flow, "Income") \in SUBSET flow /\ OfKind(flow, "Expense") \in SUBSET flow
           /\ OfKind(flow, "Income") \cup OfKind(flow, "Expense") = flow
           /\ OfKind(flow, "Income") \cap OfKind(flow, "Expense") = {}
  BY AmountsInt DEF OfKind

\* The amount of a flow is that of its income and its expense.
LEMMA FlowTotal ==
    ASSUME ImportFits, NEW flow \in SUBSET Existing
    PROVE  AmountOf(flow) = AmountOf(OfKind(flow, "Income")) + AmountOf(OfKind(flow, "Expense"))
  <1> DEFINE in == OfKind(flow, "Income")
             out == OfKind(flow, "Expense")
  <1>1. /\ in \in SUBSET Existing /\ out \in SUBSET Existing
        /\ in \cup out = flow /\ in \cap out = {}
    BY FlowByKind
  <1> HIDE DEF in, out
  <1>2. IsFiniteSet(in) /\ IsFiniteSet(out) /\ \A t \in in \cup out : AmountUnsigned[t] \in Int
    BY <1>1, FiniteExisting, AmountsInt
  <1>3. SumFunctionOnSet(AmountUnsigned, flow)
           = SumFunctionOnSet(AmountUnsigned, in) + SumFunctionOnSet(AmountUnsigned, out)
    BY <1>1, <1>2, SumUnion
  <1>4. QED
    BY <1>1, <1>3, AmountIsSum DEF in, out

\* Income less expense is the sum of the signed amounts.
LEMMA FlowBalance ==
    ASSUME ImportFits, NEW flow \in SUBSET Existing
    PROVE  SumFunctionOnSet(AmountSigned, flow)
              = AmountOf(OfKind(flow, "Income")) - AmountOf(OfKind(flow, "Expense"))
  <1> DEFINE in == OfKind(flow, "Income")
             out == OfKind(flow, "Expense")
             zero == [t \in TxIds |-> 0]
             IN1 == SumFunctionOnSet(AmountSigned, in)
             OUT1 == SumFunctionOnSet(AmountSigned, out)
  <1>1. /\ in \in SUBSET Existing /\ out \in SUBSET Existing
        /\ in \cup out = flow /\ in \cap out = {}
        /\ \A t \in in : transactions[t].kind = "Income"
        /\ \A t \in out : transactions[t].kind = "Expense"
    BY FlowByKind DEF OfKind
  <1>2. \A t \in Existing : zero[t] = 0
    BY DEF Existing
  <1> HIDE DEF in, out, zero
  <1>3. IsFiniteSet(in) /\ IsFiniteSet(out) /\ \A t \in in \cup out : AmountSigned[t] \in Int
    BY <1>1, FiniteExisting, AmountsInt
  <1>4. SumFunctionOnSet(AmountSigned, flow) = IN1 + OUT1
    BY <1>1, <1>3, SumUnion
  <1>5. IN1 = SumFunctionOnSet(AmountUnsigned, in)
    <2>1. \A t \in in : AmountSigned[t] = AmountUnsigned[t]
      BY <1>1, AmountsInt DEF SignedAmount
    <2>2. QED
      BY <1>3, <2>1, SumSame
  <1>6. OUT1 = 0 - SumFunctionOnSet(AmountUnsigned, out)
    <2>1. \A t \in out : zero[t] \in Int /\ AmountUnsigned[t] \in Int
                         /\ AmountSigned[t] = zero[t] - AmountUnsigned[t]
      BY <1>1, <1>2, AmountsInt DEF SignedAmount
    <2>2. OUT1 = SumFunctionOnSet(zero, out) - SumFunctionOnSet(AmountUnsigned, out)
      BY <1>3, <2>1, SumMinus
    <2>3. SumFunctionOnSet(zero, out) = 0
      BY <1>1, <1>2, <1>3, SumZero
    <2>4. QED
      BY <2>2, <2>3
  <1>7. AmountOf(in) = SumFunctionOnSet(AmountUnsigned, in)
        /\ AmountOf(out) = SumFunctionOnSet(AmountUnsigned, out)
    BY <1>1, AmountIsSum
  <1>8. AmountOf(in) \in Int /\ AmountOf(out) \in Int
    BY <1>1, AmountInt
  <1> HIDE DEF IN1, OUT1
  <1>9. QED
    BY <1>4, <1>5, <1>6, <1>7, <1>8 DEF in, out

\* The flow of a month is what was booked in it.
LEMMA MonthFlow ==
    ASSUME ImportFits, BooksFit, NEW o, NEW m \in Int
    PROVE  CashFlow(o, InMonth(m)) = {t \in BookedOn(o) : CashMonth(t) = m}
  <1>1. ASSUME NEW t \in Existing, transaction_cash_effective_at(t) # None
        PROVE  transaction_cash_effective_at(t) \in InMonth(m) <=> CashMonth(t) = m
    BY <1>1, CashDated, MonthsPartition DEF CashMonth
  <1>2. \A t \in Existing : transaction_cash_effective_at(t) # None
                               <=> transaction_affects_balance(transactions[t])
    BY CashDated
  <1>3. QED
    BY <1>1, <1>2 DEF CashFlow, BookedOn

\* The months so far are finitely many, from month 0 on.
LEMMA MonthKeyNow ==
    ASSUME now \in Nat
    PROVE  month_key(now) \in Nat
  <1>1. now + Beijing \in Nat /\ MonthLength \in Nat \ {0}
    BY AnalysisConstants
  <1>2. month_key(now) \in Int
    BY <1>1, DivisionMonotone DEF month_key
  <1>3. 0 \div MonthLength = 0
    BY <1>1
  <1>4. 0 <= month_key(now)
    BY <1>1, <1>3, DivisionMonotone DEF month_key
  <1>5. QED
    BY <1>2, <1>4

LEMMA FiniteMonths ==
    ASSUME ImportFits
    PROVE  /\ IsFiniteSet(MonthsSoFar) /\ MonthsSoFar \subseteq Nat
           /\ \A s \in SUBSET MonthsSoFar : IsFiniteSet(s)
  <1>1. month_key(now) \in Nat
    BY MonthKeyNow DEF ImportFits, TimesFit
  <1>2. IsFiniteSet(0 .. month_key(now))
    BY <1>1, FS_Interval
  <1>3. MonthsSoFar = 0 .. month_key(now)
    BY DEF MonthsSoFar
  <1>4. MonthsSoFar \subseteq Nat
    BY <1>3
  <1>5. \A s \in SUBSET MonthsSoFar : IsFiniteSet(s)
    BY <1>2, <1>3, FS_Subset
  <1>6. QED
    BY <1>2, <1>3, <1>4, <1>5

\* What is booked on a ledger, month by month.
LEMMA BookedByMonth ==
    ASSUME ImportFits, BooksFit, NEW o, NEW F,
           \A m \in MonthsSoFar :
              F[m] = AmountOf(OfKind(CashFlow(o, InMonth(m)), "Income"))
                        - AmountOf(OfKind(CashFlow(o, InMonth(m)), "Expense"))
    PROVE  SumFunctionOnSet(F, MonthsSoFar) = SumFunctionOnSet(AmountSigned, BookedOn(o))
  <1> DEFINE S == BookedOn(o)
             key == [t \in TxIds |-> CashMonth(t)]
             f == AmountSigned
             K == MonthsSoFar
  <1>1. S \in SUBSET Existing /\ S \subseteq TxIds
    BY DEF BookedOn, Existing
  <1>2. IsFiniteSet(S) /\ IsFiniteSet(K)
    BY <1>1, FiniteExisting, FiniteMonths
  <1>3. \A t \in S : f[t] \in Int
    BY <1>1, AmountsInt
  <1>4. \A t \in S : key[t] = CashMonth(t) /\ key[t] \in K
    <2>1. ASSUME NEW t \in S PROVE CashMonth(t) \in K
      BY CashDated DEF BookedOn, CashMonth, MonthsSoFar
    <2>2. QED
      BY <1>1, <2>1
  <1>5. \A m \in K : F[m] = SumFunctionOnSet(f, Part(S, key, m))
    <2> SUFFICES ASSUME NEW m \in K
                 PROVE  F[m] = SumFunctionOnSet(f, Part(S, key, m))
      OBVIOUS
    <2> DEFINE flow == CashFlow(o, InMonth(m))
    <2>1. m \in Int
      BY FiniteMonths
    <2>2. flow = Part(S, key, m)
      BY <1>4, <2>1, MonthFlow DEF Part
    <2>3. flow \in SUBSET Existing
      BY DEF CashFlow
    <2>4. F[m] = AmountOf(OfKind(flow, "Income")) - AmountOf(OfKind(flow, "Expense"))
      OBVIOUS
    <2> HIDE DEF flow, key, S, K, f
    <2>5. F[m] = SumFunctionOnSet(AmountSigned, flow)
      BY <2>3, <2>4, FlowBalance
    <2>6. QED
      BY <2>2, <2>5 DEF f
  <1> HIDE DEF S, key, f, K
  <1>6. SumFunctionOnSet(F, K) = SumFunctionOnSet(f, S)
    BY <1>2, <1>3, <1>4, <1>5, SumByKey
  <1>7. QED
    BY <1>6 DEF K, f, S

AccountsOf(o) == {a \in Account : a.ledger = o}

\* A ledger has finitely many accounts.
LEMMA FiniteAccounts ==
    ASSUME NEW o \in Ledgers
    PROVE  IsFiniteSet(AccountsOf(o))
  <1> DEFINE kindOf == [a \in AccountsOf(o) |-> a.kind]
  <1>1. kindOf \in Injection(AccountsOf(o), AccountKinds)
    <2>1. kindOf \in [AccountsOf(o) -> AccountKinds]
      BY DEF AccountsOf, Account
    <2>2. \A a \in AccountsOf(o) : a = [ledger |-> o, kind |-> a.kind]
      BY DEF AccountsOf, Account
    <2>3. \A a, b \in AccountsOf(o) : kindOf[a] = kindOf[b] => a = b
      BY <2>2
    <2>4. QED
      BY <2>1, <2>3 DEF Injection, IsInjective
  <1>2. QED
    BY <1>1, AnalysisConstants, FS_Injection

\* The balance of an account is the sum of what is booked on it.
LEMMA BalanceIsSum ==
    ASSUME ImportFits, BooksFit, NEW o \in Ledgers, NEW a \in AccountsOf(o)
    PROVE  account_balance_minor(a)
              = SumFunctionOnSet(AmountSigned, {t \in BookedOn(o) : transactions[t].account = a})
  <1> DEFINE booked == {t \in Existing : /\ transactions[t].account = a
                                         /\ transaction_affects_balance(transactions[t])}
             f == [t \in booked |-> SignedAmount(transactions[t])]
  <1>1. account_balance_minor(a) = SumFunctionOnSet(f, booked)
    BY DEF account_balance_minor, SumFunction
  <1>2. booked = {t \in BookedOn(o) : transactions[t].account = a}
    <2>1. a.ledger = o
      BY DEF AccountsOf
    <2>2. \A t \in Existing : transactions[t].account.ledger = transactions[t].ledger
      BY DEF BooksFit
    <2>3. QED
      BY <2>1, <2>2 DEF BookedOn
  <1>3. \A t \in booked : f[t] = AmountSigned[t]
    BY AmountsInt
  <1>4. IsFiniteSet(booked)
    BY FiniteExisting
  <1> HIDE DEF booked, f
  <1>5. QED
    BY <1>1, <1>2, <1>3, <1>4, SumSame

\* What is booked on a ledger, account by account.
LEMMA BookedByAccount ==
    ASSUME ImportFits, BooksFit, NEW o \in Ledgers, NEW F,
           \A a \in AccountsOf(o) : F[a] = account_balance_minor(a)
    PROVE  SumFunctionOnSet(F, AccountsOf(o)) = SumFunctionOnSet(AmountSigned, BookedOn(o))
  <1> DEFINE S == BookedOn(o)
             key == [t \in TxIds |-> transactions[t].account]
             f == AmountSigned
             K == AccountsOf(o)
  <1>1. S \in SUBSET Existing /\ S \subseteq TxIds
    BY DEF BookedOn, Existing
  <1>2. IsFiniteSet(S) /\ IsFiniteSet(K)
    BY <1>1, FiniteExisting, FiniteAccounts
  <1>3. \A t \in S : f[t] \in Int
    BY <1>1, AmountsInt
  <1>4. \A t \in S : key[t] = transactions[t].account /\ key[t] \in K
    <2>1. ASSUME NEW t \in S PROVE transactions[t].account \in K
      <3>1. transactions[t] \in Transaction /\ t \in Existing
        BY <1>1 DEF ImportFits, TypeOK, Existing
      <3>2. transactions[t].account \in Account /\ transactions[t].account.ledger = o
        BY <3>1 DEF Transaction, BooksFit, BookedOn
      <3>3. QED
        BY <3>2 DEF AccountsOf
    <2>2. QED
      BY <1>1, <2>1
  <1>5. \A k \in K : F[k] = SumFunctionOnSet(f, Part(S, key, k))
    <2> SUFFICES ASSUME NEW a \in K
                 PROVE  F[a] = SumFunctionOnSet(f, Part(S, key, a))
      OBVIOUS
    <2>1. Part(S, key, a) = {t \in S : transactions[t].account = a}
      BY <1>4 DEF Part
    <2>2. F[a] = SumFunctionOnSet(f, {t \in S : transactions[t].account = a})
      BY BalanceIsSum
    <2>3. QED
      BY <2>1, <2>2
  <1>6. \A t \in S : key[t] \in K
    BY <1>4
  <1> HIDE DEF S, key, f, K
  <1>7. SumFunctionOnSet(F, K) = SumFunctionOnSet(f, S)
    BY <1>2, <1>3, <1>5, <1>6, SumByKey
  <1>8. QED
    BY <1>7 DEF K, f, S

\* The balance that an analysis shows.
LEMMA CurrentBalance ==
    ASSUME NEW o, NEW months
    PROVE  financial_analysis(o, months).current_balance
              = SumFunction([a \in {b \in Account : b.ledger = o} |-> account_balance_minor(a)])
  BY DEF financial_analysis

(***************************************************************************)
(* From any imported ledger on, the months of a public ledger add up to    *)
(* the balance of its accounts: no payment is left out or counted in two   *)
(* months, whatever the import had to fill in.                             *)
(***************************************************************************)
THEOREM CashFlowIsAlwaysBalance == AnalysisSpec => []CashFlowIsBalance
  <1>1. BooksAndImportFit => CashFlowIsBalance
    <2> SUFFICES ASSUME ImportFits, BooksFit, NEW o \in organizations
                 PROVE  financial_analysis(o, 1).current_balance
                           = SumFunction([m \in MonthsSoFar |->
                                             LET d == financial_month_detail(o, m).totals
                                             IN  d.income - d.expense])
      BY DEF BooksAndImportFit, CashFlowIsBalance
    <2> DEFINE byMonth == [m \in MonthsSoFar |-> LET d == financial_month_detail(o, m).totals
                                                 IN  d.income - d.expense]
               byAccount == [a \in AccountsOf(o) |-> account_balance_minor(a)]
    <2>1. o \in Ledgers
      BY DEF ImportFits, TypeOK, Ledgers
    <2>2. /\ financial_analysis(o, 1).current_balance = SumFunctionOnSet(byAccount, AccountsOf(o))
          /\ SumFunction(byMonth) = SumFunctionOnSet(byMonth, MonthsSoFar)
      BY CurrentBalance DEF SumFunction, AccountsOf
    <2>3. \A a \in AccountsOf(o) : byAccount[a] = account_balance_minor(a)
      OBVIOUS
    <2>4. \A m \in MonthsSoFar :
             byMonth[m] = AmountOf(OfKind(CashFlow(o, InMonth(m)), "Income"))
                             - AmountOf(OfKind(CashFlow(o, InMonth(m)), "Expense"))
      <3> SUFFICES ASSUME NEW m \in MonthsSoFar
                   PROVE  byMonth[m] = AmountOf(OfKind(CashFlow(o, InMonth(m)), "Income"))
                                          - AmountOf(OfKind(CashFlow(o, InMonth(m)), "Expense"))
        OBVIOUS
      <3> DEFINE d == financial_month_detail(o, m).totals
      <3>1. d = IncomeAndExpense(CashFlow(o, InMonth(m)))
        BY MonthTotals
      <3>2. byMonth[m] = d.income - d.expense
        OBVIOUS
      <3> HIDE DEF d
      <3>3. QED
        BY <3>1, <3>2 DEF IncomeAndExpense
    <2> HIDE DEF byMonth, byAccount
    <2>5. SumFunctionOnSet(byAccount, AccountsOf(o)) = SumFunctionOnSet(AmountSigned, BookedOn(o))
      BY <2>1, <2>3, BookedByAccount
    <2>6. SumFunctionOnSet(byMonth, MonthsSoFar) = SumFunctionOnSet(AmountSigned, BookedOn(o))
      BY <2>4, BookedByMonth
    <2>7. QED
      BY <2>2, <2>5, <2>6 DEF byMonth
  <1>2. QED
    BY <1>1, BooksAlwaysFit, PTL

-----------------------------------------------------------------------------
(* The reports.                                                            *)

\* The amount of a flow, part by part.
LEMMA AmountByKey ==
    ASSUME ImportFits, NEW flow \in SUBSET Existing, NEW key, NEW K, IsFiniteSet(K),
           \A t \in flow : key[t] \in K,
           NEW F, \A k \in K : F[k] = AmountOf(Part(flow, key, k))
    PROVE  SumFunctionOnSet(F, K) = AmountOf(flow)
  <1> DEFINE f == AmountUnsigned
  <1>1. IsFiniteSet(flow)
    BY FiniteExisting
  <1>2. \A t \in flow : f[t] \in Int
    BY AmountsInt
  <1>3. \A k \in K : F[k] = SumFunctionOnSet(f, Part(flow, key, k))
    <2> SUFFICES ASSUME NEW k \in K
                 PROVE  F[k] = SumFunctionOnSet(f, Part(flow, key, k))
      OBVIOUS
    <2> DEFINE part == Part(flow, key, k)
    <2>1. part \in SUBSET Existing /\ F[k] = AmountOf(part)
      BY DEF Part
    <2> HIDE DEF part
    <2>2. F[k] = SumFunctionOnSet(AmountUnsigned, part)
      BY <2>1, AmountIsSum
    <2>3. QED
      BY <2>2 DEF part
  <1> HIDE DEF f
  <1>4. SumFunctionOnSet(F, K) = SumFunctionOnSet(f, flow)
    BY <1>1, <1>2, <1>3, SumByKey
  <1>5. QED
    BY <1>4, AmountIsSum DEF f

\* The categories of a flow add up to it.
LEMMA CategoriesAddUp ==
    ASSUME ImportFits, NEW flow \in SUBSET Existing
    PROVE  SumFunction([c \in {transactions[t].category : t \in flow} |->
                           AmountOf({t \in flow : transactions[t].category = c})]) = AmountOf(flow)
  <1> DEFINE K == {transactions[t].category : t \in flow}
             F == [c \in K |-> AmountOf({t \in flow : transactions[t].category = c})]
             key == [t \in flow |-> transactions[t].category]
  <1>1. IsFiniteSet(K)
    <2>1. key \in [flow -> K] /\ \A c \in K : \E t \in flow : key[t] = c
      OBVIOUS
    <2>2. key \in Surjection(flow, K)
      BY <2>1 DEF Surjection, IsInjective
    <2>3. IsFiniteSet(flow)
      BY FiniteExisting
    <2> HIDE DEF K, key
    <2>4. QED
      BY <2>2, <2>3, FS_Surjection
  <1>2. \A t \in flow : key[t] \in K
    OBVIOUS
  <1>3. \A c \in K : F[c] = AmountOf(Part(flow, key, c))
    <2> SUFFICES ASSUME NEW c \in K PROVE F[c] = AmountOf(Part(flow, key, c))
      OBVIOUS
    <2>1. {t \in flow : transactions[t].category = c} = Part(flow, key, c)
      BY DEF Part
    <2>2. QED
      BY <2>1
  <1>4. SumFunction(F) = SumFunctionOnSet(F, K)
    BY DEF SumFunction
  <1> HIDE DEF K, F, key
  <1>5. SumFunctionOnSet(F, K) = AmountOf(flow)
    BY <1>1, <1>2, <1>3, AmountByKey
  <1>6. QED
    BY <1>4, <1>5 DEF F, K

\* Whose expense it is.
MembersOf(o, expenses) ==
    business_members_for_ledger(o) \cup {transactions[t].created_by : t \in expenses}

\* The expense of each member.
LEMMA MemberExpenses ==
    ASSUME NEW o, NEW expenses
    PROVE  /\ DOMAIN member_expenses(o, expenses) = MembersOf(o, expenses)
           /\ \A u \in MembersOf(o, expenses) :
                 member_expenses(o, expenses)[u].expense
                    = AmountOf({t \in expenses : transactions[t].created_by = u})
  BY DEF member_expenses, MembersOf

\* The members' expenses add up to the expenses.
LEMMA MembersAddUp ==
    ASSUME ImportFits, NEW o, NEW expenses \in SUBSET Existing
    PROVE  SumFunction([u \in DOMAIN member_expenses(o, expenses) |->
                           member_expenses(o, expenses)[u].expense]) = AmountOf(expenses)
  <1> DEFINE K == MembersOf(o, expenses)
             F == [u \in DOMAIN member_expenses(o, expenses) |->
                      member_expenses(o, expenses)[u].expense]
             key == [t \in TxIds |-> transactions[t].created_by]
  <1>1. \A t \in expenses : /\ key[t] = transactions[t].created_by /\ key[t] \in Users
                            /\ key[t] \in K
    <2>1. ASSUME NEW t \in expenses
          PROVE  t \in TxIds /\ transactions[t].created_by \in Users
      BY DEF ImportFits, TypeOK, Existing, Transaction
    <2>2. QED
      BY <2>1 DEF MembersOf
  <1>2. IsFiniteSet(K)
    <2>1. K \subseteq Users
      BY <1>1 DEF MembersOf, business_members_for_ledger
    <2> HIDE DEF K
    <2>2. QED
      BY <2>1, AnalysisConstants, FS_Subset
  <1>3. \A u \in K : F[u] = AmountOf(Part(expenses, key, u))
    <2> SUFFICES ASSUME NEW u \in K PROVE F[u] = AmountOf(Part(expenses, key, u))
      OBVIOUS
    <2>1. {t \in expenses : transactions[t].created_by = u} = Part(expenses, key, u)
      BY <1>1 DEF Part
    <2>2. F[u] = AmountOf({t \in expenses : transactions[t].created_by = u})
      BY MemberExpenses
    <2>3. QED
      BY <2>1, <2>2
  <1>4. SumFunction(F) = SumFunctionOnSet(F, K)
    BY MemberExpenses DEF SumFunction
  <1>5. \A t \in expenses : key[t] \in K
    BY <1>1
  <1> HIDE DEF K, F, key
  <1>6. SumFunctionOnSet(F, K) = AmountOf(expenses)
    BY <1>2, <1>3, <1>5, AmountByKey
  <1>7. QED
    BY <1>4, <1>6 DEF F

-----------------------------------------------------------------------------
(* The months of an analysis.                                              *)

\* Arithmetic of months: multiples of d and quotients by d.
LEMMA AtLeastQuotient ==
    ASSUME NEW a \in Nat, NEW d \in Nat \ {0}, NEW m \in Int
    PROVE  m * d <= a <=> m <= a \div d
OBVIOUS

LEMMA MultipleDivided ==
    ASSUME NEW k \in Int, NEW d \in Nat \ {0}
    PROVE  (k * d) \div d = k
OBVIOUS

LEMMA MultiplesApart ==
    ASSUME NEW a \in Int, NEW c \in Int, NEW d \in Int, NEW b \in Int
    PROVE  /\ (a * d - b) - (c * d - b) = (a - c) * d
           /\ (a * d - b) - c * d = (a - c) * d - b
           /\ a * d \in Int /\ c * d \in Int
OBVIOUS

\* The first month of an analysis of this many months.
FirstMonth(months) == month_key(now) - months + 1

\* An analysis begins with the first instant of its first month.
LEMMA PeriodStart ==
    ASSUME now \in Nat, NEW months \in Nat \ {0}
    PROVE  /\ FirstMonth(months) \in Int
           /\ period_start(months) = FirstMonth(months) * MonthLength - Beijing
           /\ period_start(months) \in Int
  <1> DEFINE k == month_key(now)
  <1>1. k \in Nat /\ Beijing \in Nat /\ MonthLength \in Nat \ {0}
    BY MonthKeyNow, AnalysisConstants
  <1>2. period_start(months) = (k * MonthLength - Beijing) - (months - 1) * MonthLength
    BY DEF period_start, month_start, calendar_month_start, month_key
  <1>3. FirstMonth(months) = k - (months - 1)
    BY <1>1 DEF FirstMonth
  <1> HIDE DEF k
  <1>4. months - 1 \in Int /\ FirstMonth(months) \in Int
    BY <1>1, <1>3
  <1>5. period_start(months) = (k - (months - 1)) * MonthLength - Beijing
    BY <1>1, <1>2, <1>4, MultiplesApart
  <1>6. (k - (months - 1)) * MonthLength \in Int
    BY <1>1, <1>4
  <1>7. QED
    BY <1>1, <1>3, <1>4, <1>5, <1>6

\* Up to now, the instants of an analysis are those of its months, and
\* month_distance counts the months from the first one.
LEMMA PeriodMonths ==
    ASSUME now \in Nat, NEW months \in Nat \ {0}, NEW at \in Nat, at <= now
    PROVE  /\ at \in InPeriod(months) <=> FirstMonth(months) <= month_key(at)
           /\ month_distance(period_start(months), month_start(at))
                 = month_key(at) - FirstMonth(months)
  <1> DEFINE first == FirstMonth(months)
             k == month_key(at)
  <1>1. Beijing \in Nat /\ MonthLength \in Nat \ {0} /\ first \in Int
        /\ period_start(months) = first * MonthLength - Beijing
    BY PeriodStart, AnalysisConstants
  <1>2. at + Beijing \in Nat /\ k = (at + Beijing) \div MonthLength /\ k \in Int
    BY <1>1, DivisionMonotone DEF month_key
  <1>3. month_start(at) = k * MonthLength - Beijing
    BY <1>2 DEF month_start, calendar_month_start
  <1> HIDE DEF first, k
  <1>4. first * MonthLength <= at + Beijing <=> first <= k
    BY <1>1, <1>2, AtLeastQuotient
  <1>5. first * MonthLength \in Int
    BY <1>1
  <1>6. at \in InPeriod(months) <=> first <= k
    <2> DEFINE edge == first * MonthLength
    <2>1. InPeriod(months) = edge - Beijing .. now
      BY <1>1 DEF InPeriod
    <2>2. edge <= at + Beijing <=> first <= k
      BY <1>4
    <2>3. edge \in Int
      BY <1>5
    <2> HIDE DEF edge
    <2>4. QED
      BY <1>1, <2>1, <2>2, <2>3
  <1>7. month_distance(period_start(months), month_start(at)) = ((k - first) * MonthLength) \div MonthLength
    BY <1>1, <1>2, <1>3, MultiplesApart DEF month_distance
  <1>8. k - first \in Int
    BY <1>1, <1>2
  <1>9. QED
    BY <1>1, <1>6, <1>7, <1>8, MultipleDivided DEF first, k

\* What an analysis counts, and in which month of it.
LEMMA AnalysisFlow ==
    ASSUME ImportFits, BooksFit, NEW o, NEW months \in Nat \ {0}
    PROVE  /\ CashFlow(o, InPeriod(months))
                 = {t \in BookedOn(o) : FirstMonth(months) <= CashMonth(t)}
           /\ \A t \in BookedOn(o) : /\ TrendIndex(months, t) = CashMonth(t) - FirstMonth(months)
                                     /\ CashMonth(t) \in MonthsSoFar
  <1>1. now \in Nat
    BY DEF ImportFits, TimesFit
  <1>2. \A t \in Existing : transaction_cash_effective_at(t) # None
                               <=> transaction_affects_balance(transactions[t])
    BY CashDated
  <1>3. ASSUME NEW t \in Existing, transaction_cash_effective_at(t) # None
        PROVE  /\ transaction_cash_effective_at(t) \in InPeriod(months)
                     <=> FirstMonth(months) <= CashMonth(t)
               /\ TrendIndex(months, t) = CashMonth(t) - FirstMonth(months)
               /\ CashMonth(t) \in MonthsSoFar
    BY <1>1, <1>3, CashDated, PeriodMonths DEF CashMonth, TrendIndex, MonthsSoFar
  <1>4. CashFlow(o, InPeriod(months)) = {t \in BookedOn(o) : FirstMonth(months) <= CashMonth(t)}
    BY <1>2, <1>3 DEF CashFlow, BookedOn
  <1>5. QED
    BY <1>2, <1>3, <1>4 DEF BookedOn

\* What a month detail shows.
LEMMA DetailFields ==
    ASSUME NEW o, NEW m
    PROVE  LET flow == CashFlow(o, InMonth(m))
               d == financial_month_detail(o, m)
           IN  /\ d.totals.income = AmountOf(OfKind(flow, "Income"))
               /\ d.totals.expense = AmountOf(OfKind(flow, "Expense"))
               /\ d.totals = IncomeAndExpense(flow)
               /\ d.categories = [c \in {transactions[t].category : t \in flow} |->
                                     AmountOf({t \in flow : transactions[t].category = c})]
               /\ d.member_expenses = member_expenses(o, OfKind(flow, "Expense"))
  BY DEF financial_month_detail, InMonth, IncomeAndExpense

\* What an analysis shows.
LEMMA AnalysisFields ==
    ASSUME NEW o, NEW months
    PROVE  LET flow == CashFlow(o, InPeriod(months))
               a == financial_analysis(o, months)
           IN  /\ a.totals = IncomeAndExpense(flow)
               /\ a.trend = [i \in 0 .. months - 1 |->
                                IncomeAndExpense({t \in flow : TrendIndex(months, t) = i})]
  BY DEF financial_analysis

\* The months of an analysis that have begun since month 0.
RecentMonths(months) == {m \in MonthsSoFar : m >= FirstMonth(months)}

\* A point of the trend is the month it stands for.
LEMMA TrendIsDetail ==
    ASSUME ImportFits, BooksFit, NEW o, NEW months \in Nat \ {0}, NEW m \in RecentMonths(months)
    PROVE  financial_analysis(o, months).trend[m - FirstMonth(months)]
              = financial_month_detail(o, m).totals
  <1> DEFINE flow == CashFlow(o, InPeriod(months))
             first == FirstMonth(months)
             i == m - first
             trend == financial_analysis(o, months).trend
  <1>1. month_key(now) \in Nat /\ first \in Int /\ first = month_key(now) - months + 1
    BY MonthKeyNow, PeriodStart DEF ImportFits, TimesFit, FirstMonth
  <1>2. m \in Int /\ i \in 0 .. months - 1
    BY <1>1 DEF RecentMonths, MonthsSoFar
  <1>3. trend[i] = IncomeAndExpense({t \in flow : TrendIndex(months, t) = i})
    <2>1. trend = [j \in 0 .. months - 1 |->
                      IncomeAndExpense({t \in flow : TrendIndex(months, t) = j})]
      BY AnalysisFields
    <2> HIDE DEF trend, flow, i
    <2>2. QED
      BY <1>2, <2>1
  <1>4. {t \in flow : TrendIndex(months, t) = i} = CashFlow(o, InMonth(m))
    <2>1. /\ flow = {t \in BookedOn(o) : first <= CashMonth(t)}
          /\ \A t \in BookedOn(o) : TrendIndex(months, t) = CashMonth(t) - first
                                    /\ CashMonth(t) \in MonthsSoFar
      BY AnalysisFlow
    <2>2. CashFlow(o, InMonth(m)) = {t \in BookedOn(o) : CashMonth(t) = m}
      BY <1>2, MonthFlow
    <2> HIDE DEF flow, first
    <2>3. \A t \in BookedOn(o) : CashMonth(t) \in Int
      BY <2>1, FiniteMonths
    <2>4. first <= m
      BY DEF RecentMonths, first
    <2>5. ASSUME NEW t \in BookedOn(o)
          PROVE  first <= CashMonth(t) /\ TrendIndex(months, t) = i <=> CashMonth(t) = m
      BY <1>1, <1>2, <2>1, <2>3, <2>4
    <2>6. QED
      BY <2>1, <2>2, <2>5
  <1>5. financial_month_detail(o, m).totals = IncomeAndExpense(CashFlow(o, InMonth(m)))
    BY DetailFields
  <1>6. trend[i] = financial_month_detail(o, m).totals
    <2> HIDE DEF trend, flow, i
    <2>1. QED
      BY <1>3, <1>4, <1>5
  <1>7. QED
    BY <1>6

\* The trend adds up to the totals of the analysis.
LEMMA TrendAddsUp ==
    ASSUME ImportFits, BooksFit, NEW o, NEW months \in Nat \ {0},
           NEW kind \in {"Income", "Expense"}, NEW field,
           field = IF kind = "Income" THEN "income" ELSE "expense"
    PROVE  LET a == financial_analysis(o, months)
           IN  SumFunction([i \in DOMAIN a.trend |-> a.trend[i][field]]) = a.totals[field]
  <1> DEFINE flow == CashFlow(o, InPeriod(months))
             of == OfKind(flow, kind)
             K == 0 .. months - 1
             point(i) == {t \in flow : TrendIndex(months, t) = i}
             trend == financial_analysis(o, months).trend
             totals == financial_analysis(o, months).totals
             F == [i \in DOMAIN trend |-> trend[i][field]]
             key == [t \in TxIds |-> TrendIndex(months, t)]
  <1>1. of \in SUBSET Existing /\ of \subseteq flow /\ of \subseteq TxIds
    BY DEF OfKind, CashFlow, Existing
  <1>2. \A t \in of : key[t] = TrendIndex(months, t) /\ key[t] \in K
    <2>1. ASSUME NEW t \in of PROVE TrendIndex(months, t) \in K
      <3>1. /\ t \in BookedOn(o) /\ FirstMonth(months) <= CashMonth(t)
            /\ TrendIndex(months, t) = CashMonth(t) - FirstMonth(months)
            /\ CashMonth(t) \in MonthsSoFar
        BY <1>1, AnalysisFlow
      <3>2. month_key(now) \in Nat /\ FirstMonth(months) = month_key(now) - months + 1
        BY MonthKeyNow DEF ImportFits, TimesFit, FirstMonth
      <3>3. CashMonth(t) \in 0 .. month_key(now)
        BY <3>1 DEF MonthsSoFar
      <3>4. QED
        BY <3>1, <3>2, <3>3
    <2>2. QED
      BY <1>1, <2>1
  <1>3. trend = [i \in K |-> IncomeAndExpense(point(i))] /\ totals = IncomeAndExpense(flow)
    BY AnalysisFields
  <1>4. ASSUME NEW s PROVE IncomeAndExpense(s)[field] = AmountOf(OfKind(s, kind))
    BY DEF IncomeAndExpense
  <1>5. totals[field] = AmountOf(of)
    BY <1>3, <1>4
  <1>6. SumFunction(F) = SumFunctionOnSet(F, K)
    <2> HIDE DEF trend, point, K
    <2>1. DOMAIN F = K
      BY <1>3
    <2>2. QED
      BY <2>1 DEF SumFunction
  <1>7. \A i \in K : F[i] = AmountOf(Part(of, key, i))
    <2> SUFFICES ASSUME NEW i \in K PROVE F[i] = AmountOf(Part(of, key, i))
      OBVIOUS
    <2>1. F[i] = AmountOf(OfKind(point(i), kind))
      <3> HIDE DEF trend, point, K
      <3>1. F[i] = IncomeAndExpense(point(i))[field]
        BY <1>3
      <3>2. QED
        BY <1>4, <3>1
    <2>2. OfKind(point(i), kind) = Part(of, key, i)
      BY <1>2 DEF OfKind, Part
    <2>3. QED
      BY <2>1, <2>2
  <1>8. IsFiniteSet(K) /\ \A t \in of : key[t] \in K
    <2>1. months - 1 \in Int
      OBVIOUS
    <2>2. IsFiniteSet(0 .. months - 1)
      BY <2>1, FS_Interval
    <2>3. QED
      BY <1>2, <2>2
  <1> HIDE DEF of, K, key, F, trend, totals
  <1>9. SumFunctionOnSet(F, K) = AmountOf(of)
    BY <1>1, <1>7, <1>8, AmountByKey
  <1>10. QED
    BY <1>5, <1>6, <1>9 DEF F, trend, totals

\* A member's own report is the sum of the member's months.
LEMMA MemberMonthsAddUp ==
    ASSUME ImportFits, BooksFit, NEW o, NEW months \in Nat \ {0},
           NEW u \in business_members_for_ledger(o)
    PROVE  financial_member_detail(o, months, u)
              = SumFunction([m \in RecentMonths(months) |->
                               MemberExpense(financial_month_detail(o, m).member_expenses, u)])
  <1> DEFINE flow == CashFlow(o, InPeriod(months))
             own == {t \in OfKind(flow, "Expense") : transactions[t].created_by = u}
             monthly(m) == OfKind(CashFlow(o, InMonth(m)), "Expense")
             K == RecentMonths(months)
             F == [m \in K |-> MemberExpense(financial_month_detail(o, m).member_expenses, u)]
             key == [t \in TxIds |-> CashMonth(t)]
  <1>1. own \in SUBSET Existing /\ own \subseteq flow /\ own \subseteq TxIds
    BY DEF OfKind, CashFlow, Existing
  <1>2. /\ flow = {t \in BookedOn(o) : FirstMonth(months) <= CashMonth(t)}
        /\ \A t \in BookedOn(o) : CashMonth(t) \in MonthsSoFar
    BY AnalysisFlow
  <1>3. /\ month_key(now) \in Nat /\ FirstMonth(months) \in Int
        /\ IsFiniteSet(MonthsSoFar) /\ MonthsSoFar \subseteq Nat
    BY MonthKeyNow, PeriodStart, FiniteMonths DEF ImportFits, TimesFit
  <1>4. IsFiniteSet(K)
    BY FiniteMonths DEF RecentMonths
  <1>5. \A t \in own : key[t] = CashMonth(t) /\ key[t] \in K
    <2>1. ASSUME NEW t \in own PROVE CashMonth(t) \in K
      <3>1. CashMonth(t) \in MonthsSoFar /\ FirstMonth(months) <= CashMonth(t)
        BY <1>1, <1>2
      <3>2. QED
        BY <1>3, <3>1 DEF RecentMonths
    <2>2. QED
      BY <1>1, <2>1
  <1>6. \A m \in K : F[m] = AmountOf(Part(own, key, m))
    <2> SUFFICES ASSUME NEW m \in K PROVE F[m] = AmountOf(Part(own, key, m))
      OBVIOUS
    <2>1. m \in Int /\ FirstMonth(months) <= m
      BY <1>3 DEF RecentMonths
    <2>2. financial_month_detail(o, m).member_expenses = member_expenses(o, monthly(m))
      BY DetailFields
    <2>3. /\ u \in DOMAIN member_expenses(o, monthly(m))
          /\ member_expenses(o, monthly(m))[u].expense
                = AmountOf({t \in monthly(m) : transactions[t].created_by = u})
      <3>1. u \in MembersOf(o, monthly(m))
        BY DEF MembersOf
      <3>2. QED
        BY <3>1, MemberExpenses
    <2>4. F[m] = AmountOf({t \in monthly(m) : transactions[t].created_by = u})
      <3>1. F[m] = MemberExpense(member_expenses(o, monthly(m)), u)
        BY <2>2
      <3> HIDE DEF F, monthly
      <3>2. QED
        BY <2>3, <3>1 DEF MemberExpense
    <2>5. {t \in monthly(m) : transactions[t].created_by = u} = Part(own, key, m)
      <3>1. CashFlow(o, InMonth(m)) = {t \in BookedOn(o) : CashMonth(t) = m}
        BY <2>1, MonthFlow
      <3>2. CashFlow(o, InMonth(m)) = {t \in flow : CashMonth(t) = m}
        BY <1>2, <2>1, <3>1
      <3>3. monthly(m) = {t \in OfKind(flow, "Expense") : CashMonth(t) = m}
        BY <3>2 DEF OfKind
      <3>4. {t \in monthly(m) : transactions[t].created_by = u} = {t \in own : CashMonth(t) = m}
        BY <3>3
      <3> HIDE DEF own, key, monthly
      <3>5. QED
        BY <1>5, <3>4 DEF Part
    <2>6. QED
      BY <2>4, <2>5
  <1>7. financial_member_detail(o, months, u) = AmountOf(own)
    BY DEF financial_member_detail
  <1>8. SumFunction(F) = SumFunctionOnSet(F, K)
    BY DEF SumFunction
  <1>9. \A t \in own : key[t] \in K
    BY <1>5
  <1> HIDE DEF own, K, key, F
  <1>10. SumFunctionOnSet(F, K) = AmountOf(own)
    BY <1>1, <1>4, <1>6, <1>9, AmountByKey
  <1>11. QED
    BY <1>7, <1>8, <1>10 DEF F, K

(***************************************************************************)
(* From any imported ledger on, the reports of a public ledger agree: the  *)
(* trend of an analysis shows the months their details show and adds up to *)
(* its totals, a month is the sum of its categories and its expense that   *)
(* of its members, and a member's report the sum of the member's months.   *)
(***************************************************************************)
THEOREM ReportsAlwaysAgree == AnalysisSpec => []ReportsAgree
  <1>1. BooksAndImportFit => ReportsAgree
    <2> SUFFICES ASSUME ImportFits, BooksFit, NEW o \in organizations
                 PROVE  LET detail == [m \in MonthsSoFar |-> financial_month_detail(o, m)]
                            first(months) == month_key(now) - months + 1
                            recent(months) == {m \in MonthsSoFar : m >= first(months)}
                        IN  /\ \A m \in MonthsSoFar :
                                  /\ SumFunction(detail[m].categories)
                                        = detail[m].totals.income + detail[m].totals.expense
                                  /\ SumFunction([u \in DOMAIN detail[m].member_expenses |->
                                                      detail[m].member_expenses[u].expense])
                                        = detail[m].totals.expense
                            /\ \A months \in Ranges :
                                  LET a == financial_analysis(o, months)
                                  IN  /\ \A m \in recent(months) :
                                            a.trend[m - first(months)] = detail[m].totals
                                      /\ \A k \in {"income", "expense"} :
                                            SumFunction([i \in DOMAIN a.trend |-> a.trend[i][k]])
                                               = a.totals[k]
                                      /\ \A u \in business_members_for_ledger(o) :
                                            financial_member_detail(o, months, u)
                                               = SumFunction([m \in recent(months) |->
                                                    MemberExpense(detail[m].member_expenses, u)])
      BY DEF BooksAndImportFit, ReportsAgree
    <2> DEFINE detail == [m \in MonthsSoFar |-> financial_month_detail(o, m)]
    <2>1. ASSUME NEW m \in MonthsSoFar
          PROVE  /\ SumFunction(detail[m].categories)
                       = detail[m].totals.income + detail[m].totals.expense
                 /\ SumFunction([u \in DOMAIN detail[m].member_expenses |->
                                     detail[m].member_expenses[u].expense])
                       = detail[m].totals.expense
      <3> DEFINE d == financial_month_detail(o, m)
                 flow == CashFlow(o, InMonth(m))
      <3>1. detail[m] = d
        OBVIOUS
      <3>2. /\ d.totals.income = AmountOf(OfKind(flow, "Income"))
            /\ d.totals.expense = AmountOf(OfKind(flow, "Expense"))
            /\ d.categories = [c \in {transactions[t].category : t \in flow} |->
                                  AmountOf({t \in flow : transactions[t].category = c})]
            /\ d.member_expenses = member_expenses(o, OfKind(flow, "Expense"))
        BY DetailFields
      <3>3. flow \in SUBSET Existing /\ OfKind(flow, "Expense") \in SUBSET Existing
        BY DEF CashFlow, OfKind
      <3> HIDE DEF detail, d, flow
      <3>4. SumFunction(d.categories) = d.totals.income + d.totals.expense
        <4>1. SumFunction(d.categories) = AmountOf(flow)
          BY <3>2, <3>3, CategoriesAddUp
        <4>2. QED
          BY <3>2, <3>3, <4>1, FlowTotal
      <3>5. SumFunction([u \in DOMAIN d.member_expenses |-> d.member_expenses[u].expense])
               = d.totals.expense
        BY <3>2, <3>3, MembersAddUp
      <3>6. QED
        BY <3>1, <3>4, <3>5
    <2>2. ASSUME NEW months \in Ranges
          PROVE  LET a == financial_analysis(o, months)
                 IN  /\ \A m \in RecentMonths(months) :
                           a.trend[m - FirstMonth(months)] = detail[m].totals
                     /\ \A k \in {"income", "expense"} :
                           SumFunction([i \in DOMAIN a.trend |-> a.trend[i][k]]) = a.totals[k]
                     /\ \A u \in business_members_for_ledger(o) :
                           financial_member_detail(o, months, u)
                              = SumFunction([m \in RecentMonths(months) |->
                                               MemberExpense(detail[m].member_expenses, u)])
      <3> DEFINE a == financial_analysis(o, months)
      <3>1. months \in Nat \ {0}
        BY AnalysisConstants
      <3>2. \A m \in RecentMonths(months) : detail[m] = financial_month_detail(o, m)
        BY DEF RecentMonths
      <3>3. \A m \in RecentMonths(months) : a.trend[m - FirstMonth(months)] = detail[m].totals
        BY <3>1, <3>2, TrendIsDetail
      <3>4. ASSUME NEW k \in {"income", "expense"}
            PROVE  SumFunction([i \in DOMAIN a.trend |-> a.trend[i][k]]) = a.totals[k]
        <4>1. CASE k = "income"
          BY <3>1, <4>1, TrendAddsUp
        <4>2. CASE k = "expense"
          BY <3>1, <4>2, TrendAddsUp
        <4>3. QED
          BY <4>1, <4>2
      <3>5. ASSUME NEW u \in business_members_for_ledger(o)
            PROVE  financial_member_detail(o, months, u)
                      = SumFunction([m \in RecentMonths(months) |->
                                       MemberExpense(detail[m].member_expenses, u)])
        <4> DEFINE F == [m \in RecentMonths(months) |->
                           MemberExpense(financial_month_detail(o, m).member_expenses, u)]
                   G == [m \in RecentMonths(months) |-> MemberExpense(detail[m].member_expenses, u)]
        <4>1. financial_member_detail(o, months, u) = SumFunction(F)
          BY <3>1, MemberMonthsAddUp
        <4>2. F = G
          BY <3>2
        <4>3. QED
          BY <4>1, <4>2
      <3>6. QED
        BY <3>3, <3>4, <3>5
    <2>3. QED
      BY <2>1, <2>2 DEF RecentMonths, FirstMonth
  <1>2. QED
    BY <1>1, BooksAlwaysFit, PTL
=============================================================================
