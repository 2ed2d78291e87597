--------------------------- MODULE LedgerAnalysis ---------------------------
(***************************************************************************)
(* What the accounting service reports (cloudledger-service, app.rs): the  *)
(* overview, the pages of a month, the audit periods and the financial     *)
(* analyses.  LedgerWorkflow is run with a clock, from a document of an    *)
(* older schema that migrate_to_current_schema has brought up to date.     *)
(*                                                                         *)
(* An instant is a number in UTC; days and months are counted in Beijing   *)
(* time, as in the code, from a day and a month 0.                         *)
(***************************************************************************)
EXTENDS LedgerProperties

CONSTANTS
    Instants,        \* the instants at which something may happen
    DayLength, MonthLength,
    Beijing,         \* how far Beijing is ahead of UTC
    Ranges,          \* the lengths of an analysis: 3, 6 or 12 months
    LegacyDocuments  \* stored states of older schemas

ASSUME AnalysisConstants ==
    /\ Instants \subseteq Nat /\ \E first \in Instants : \A t \in Instants : first <= t
    /\ Beijing \in Nat /\ None \notin Nat
    /\ DayLength \in Nat \ {0} /\ MonthLength \in Nat \ {0}
    /\ Ranges \subseteq Nat \ {0}
    /\ IsFiniteSet(TxIds) /\ IsFiniteSet(Users) /\ IsFiniteSet(AccountKinds)

VARIABLES
    now,     \* OffsetDateTime::now_utc
    stamps,  \* the times of each transaction
    latest   \* when the last audit event about each transaction was written

clock == <<now, stamps, latest>>

NoStamps == [occurred_at |-> None, approved_at |-> None, paid_at |-> None, received_at |-> None]

-----------------------------------------------------------------------------
(* The documents that are imported.  load_from_path takes what it reads    *)
(* for a document that a version of the service has saved; what it was     *)
(* like is assumed.                                                        *)

\* A person belongs to one organization, and members are known users, as are
\* the owners of personal ledgers.
MembersFit(people, orgs, roles, books) ==
    /\ \A o \in Orgs, u \in Users : roles[o][u] # None => o \in orgs /\ u \in people
    /\ \A o, p \in Orgs, u \in Users : roles[o][u] # None /\ roles[p][u] # None => o = p
    /\ books \cap Users \subseteq people

\* The states, actors and ledger of a record: something waits on public
\* ledgers only, and only an expense for its payment.
WorkflowFits(tx) ==
    /\ PaymentRowFits(tx)
    /\ tx.kind \in {"Income", "Expense"}
    /\ tx.approval_state = "Submitted" => tx.payment_state = "NotApplicable" /\ tx.ledger \in Orgs
    /\ tx.payment_state \in {"PendingPayment", "PaidPendingReceipt"} =>
          tx.kind = "Expense" /\ tx.ledger \in Orgs

\* A record of any schema; before the third it may have no category.
StoredTransaction ==
    [client_mutation_id : MutationIds \cup {None},
     ledger : Ledgers, account : Account, category : Category \cup {None},
     kind : TransactionKind, amount : Amounts,
     approval_state : ApprovalState, payment_state : PaymentState,
     created_by : Users, submitted_by : OptUser, approved_by : OptUser,
     paid_by : OptUser, received_by : OptUser, version : Nat]

RecordWellFormed(doc, tx) ==
    /\ tx \in StoredTransaction
    /\ tx.ledger \in doc.ledgers /\ Actors(tx) \subseteq doc.users
    /\ tx.account.ledger = tx.ledger
    /\ tx.category # None => /\ tx.category \in doc.categories
                             /\ tx.category.ledger = tx.ledger /\ tx.category.kind = tx.kind
    /\ WorkflowFits(tx)

Stamps == [occurred_at : Nat \cup {None}, approved_at : Nat \cup {None},
           paid_at : Nat \cup {None}, received_at : Nat \cup {None}]

\* Each step was stamped before its audit event was, and that before the start.
\* A transaction has a date, and a payment that may be confirmed has one.
TimesWellFormed(doc, t) ==
    LET times == ({doc.stamps[t][f] : f \in DOMAIN NoStamps} \cup {doc.updated_at[t]}) \ {None}
    IN  /\ doc.stamps[t] \in Stamps
        /\ \A at \in times : at \in Nat /\ \A start \in Instants : at <= start
        /\ doc.transactions[t] # None => doc.stamps[t].occurred_at # None
        /\ doc.transactions[t] # None /\ doc.transactions[t].payment_state = "PaidPendingReceipt"
              => doc.stamps[t].paid_at # None
        /\ doc.audit_logs[t] # <<>> => /\ doc.latest[t] \in Nat
                                       /\ \A start \in Instants : doc.latest[t] <= start
                                       /\ \A at \in times : at <= doc.latest[t]

\* Old roles are known before the second schema only.
DocumentWellFormed(doc) ==
    /\ doc.users \subseteq Users /\ doc.organizations \subseteq Orgs
    /\ doc.ledgers \subseteq Ledgers /\ doc.categories \subseteq Category
    /\ doc.memberships \in [Orgs -> [Users -> MembershipRole \cup {None}]]
    /\ MembersFit(doc.users, doc.organizations, doc.memberships, doc.ledgers)
    /\ doc.schema_version \in 0 .. 2
    /\ doc.schema_version = 2 => \A o \in Orgs, u \in Users :
          doc.memberships[o][u] \in {None, "Owner", "Admin", "BusinessOwner", "Employee"}
    /\ doc.audit_logs \in [TxIds -> Seq(AuditLog)]
    /\ \A t \in TxIds : /\ TimesWellFormed(doc, t)
                        /\ IF doc.transactions[t] = None THEN doc.audit_logs[t] = <<>>
                           ELSE RecordWellFormed(doc, doc.transactions[t])

ASSUME LegacyWellFormed == \A doc \in LegacyDocuments : DocumentWellFormed(doc)

-----------------------------------------------------------------------------
(* The import of older documents.                                          *)

MigratedRole(role) ==
    CASE role = "Approver" -> "BusinessOwner"
      [] role \in {"Accountant", "Member", "Viewer"} -> "Employee"
      [] OTHER -> role

\* Before schema 2 an approved public expense was taken as settled.
Settled(tx) ==
    tx.approval_state = "Approved" /\ tx.kind = "Expense" /\ tx.ledger \in Orgs

\* Mutant: only the payment state is filled in.
SettledWithoutReceiver(tx) == [tx EXCEPT !.payment_state = "Received"]

\* Schema 2: the payment workflow.
WithPayment(tx) == [tx EXCEPT !.payment_state = "Received", !.received_by = tx.created_by]

StampedPayment(tx, s, updated_at) ==
    IF tx.approval_state # "Approved" THEN s
    ELSE [s EXCEPT !.approved_at = IF @ = None THEN updated_at ELSE @,
                   !.received_at = IF Settled(tx) THEN updated_at ELSE @]

\* Schema 3: every transaction has a category.
assign_default_categories(tx) ==
    [tx EXCEPT !.category = IF @ = None THEN [ledger |-> tx.ledger, kind |-> tx.kind,
                                              name |-> OtherCategory] ELSE @]

MigratedRecord(doc, t) ==
    LET tx == doc.transactions[t]
    IN  IF tx = None THEN None
        ELSE assign_default_categories(
                IF doc.schema_version < 2 /\ Settled(tx) THEN WithPayment(tx) ELSE tx)

MigratedStamps(doc, t) ==
    IF doc.transactions[t] # None /\ doc.schema_version < 2
    THEN StampedPayment(doc.transactions[t], doc.stamps[t], doc.updated_at[t])
    ELSE doc.stamps[t]

\* load_from_path and migrate_to_current_schema with ensure_standard_setup.
migrate_to_current_schema(doc) ==
    /\ users = doc.users /\ organizations = doc.organizations /\ ledgers = doc.ledgers
    /\ memberships = IF doc.schema_version < 2
                     THEN [o \in Orgs |-> [u \in Users |-> MigratedRole(doc.memberships[o][u])]]
                     ELSE doc.memberships
    /\ categories = doc.categories \cup UNION {DefaultCategories(l) : l \in doc.ledgers}
    /\ transactions = [t \in TxIds |-> MigratedRecord(doc, t)]
    /\ stamps = [t \in TxIds |-> MigratedStamps(doc, t)]
    /\ audit_logs = doc.audit_logs
    /\ latest = doc.latest

AnalysisInit ==
    /\ now = CHOOSE t \in Instants : \A s \in Instants : t <= s
    /\ \E doc \in LegacyDocuments : migrate_to_current_schema(doc)

-----------------------------------------------------------------------------
(* A call of the service stamps what it changes with the present time.     *)

Becomes(t, field, value) ==
    /\ transactions'[t] # None /\ transactions'[t][field] = value
    /\ transactions[t] = None \/ transactions[t][field] # value

\* Transaction::draft, create_transaction, decide_approval,
\* mark_transaction_paid and confirm_transaction_receipt.
StampsAfter(t) ==
    [occurred_at |-> IF transactions[t] = None /\ transactions'[t] # None
                     THEN now ELSE stamps[t].occurred_at,
     approved_at |-> IF Becomes(t, "approval_state", "Approved")
                     THEN now ELSE stamps[t].approved_at,
     paid_at     |-> IF Becomes(t, "payment_state", "PaidPendingReceipt")
                     THEN now ELSE stamps[t].paid_at,
     received_at |-> IF Becomes(t, "payment_state", "Received")
                     THEN now ELSE stamps[t].received_at]

\* CreateNext, over the arguments its guard lets through.
CreateOnLedger ==
    \E t \in TxIds \ Existing, u \in users, l \in ledgers :
       \E account \in {a \in Account : a.ledger = l},
          category \in {c \in categories : c.ledger = l} \cup {None},
          kind \in {"Income", "Expense"}, amount \in Amounts, m \in MutationIds \cup {None} :
             create_transaction(t, u, l, account, category, kind, amount, m)

Operate ==
    /\ ManageNext \/ CreateOnLedger \/ DecideNext
    /\ stamps' = [t \in TxIds |-> StampsAfter(t)]
    /\ latest' = [t \in TxIds |-> IF audit_logs'[t] # audit_logs[t] THEN now ELSE latest[t]]
    /\ UNCHANGED now

Tick ==
    /\ now' \in {t \in Instants : t > now}
    /\ UNCHANGED <<vars, stamps, latest>>

AnalysisSpec == AnalysisInit /\ [][Operate \/ Tick]_<<vars, clock>>

-----------------------------------------------------------------------------
(* Calendar.                                                               *)

day_key(t) == (t + Beijing) \div DayLength

\* Mutant: the month is taken in UTC.
MonthInUtc(t) == t \div MonthLength

month_key(t) == (t + Beijing) \div MonthLength

\* calendar_month_start of the month with this key, in UTC.
calendar_month_start(month) == month * MonthLength - Beijing

month_start(t) == calendar_month_start((t + Beijing) \div MonthLength)

\* The first instant of an analysis of this many months.
period_start(months) == month_start(now) - (months - 1) * MonthLength

month_distance(start, end) == (end - start) \div MonthLength

-----------------------------------------------------------------------------
(* The overview and the pages of the history.                              *)

\* Mutant: what waits for a receipt is listed in its own month only.
OverviewOfUnpaid(u) ==
    {t \in Existing :
        /\ transaction_visible_to_actor(u, t)
        /\ \/ month_key(stamps[t].occurred_at) = month_key(now)
           \/ transactions[t].approval_state = "Submitted"
           \/ transactions[t].payment_state = "PendingPayment"}

\* overview: this month's transactions and those with an open step.
OverviewTransactions(u) ==
    {t \in Existing :
        /\ transaction_visible_to_actor(u, t)
        /\ \/ month_key(stamps[t].occurred_at) = month_key(now)
           \/ transactions[t].approval_state = "Submitted"
           \/ transactions[t].payment_state \in {"PendingPayment", "PaidPendingReceipt"}}

OverviewCount(u, approval, payments) ==
    Cardinality({t \in OverviewTransactions(u) :
                    /\ transactions[t].approval_state = approval
                    /\ transactions[t].payment_state \in payments})

pending_approval_count(u) == OverviewCount(u, "Submitted", PaymentState)
pending_payment_count(u) == OverviewCount(u, "Approved", {"PendingPayment"})
pending_receipt_count(u) == OverviewCount(u, "Approved", {"PaidPendingReceipt"})

VisibleOn(u, l) == {t \in Existing : transactions[t].ledger = l /\ transaction_visible_to_actor(u, t)}

\* transactions_for_period: the pages on offer and the content of one.
available_months(u, l) == {month_key(stamps[t].occurred_at) : t \in VisibleOn(u, l)}

transactions_for_month(u, l, month) ==
    {t \in VisibleOn(u, l) : month_key(stamps[t].occurred_at) = month}

available_days(u, l, month) ==
    {day_key(stamps[t].occurred_at) : t \in transactions_for_month(u, l, month)}

transactions_for_day(u, l, month, day) ==
    {t \in transactions_for_month(u, l, month) : day_key(stamps[t].occurred_at) = day}

\* audit_period: the lifecycles whose last event falls in the period.
Lifecycles(u, l) ==
    {t \in Existing : /\ transactions[t].ledger = l /\ audit_logs[t] # <<>>
                      /\ audit_visible_to_actor(u, t)}

PeriodKey(granularity, t) == IF granularity = "Day" THEN day_key(t) ELSE month_key(t)

\* Mutant: a lifecycle is listed under the month of its transaction.
AuditPeriodOfTransaction(u, l, granularity, period) ==
    {t \in Lifecycles(u, l) : PeriodKey(granularity, stamps[t].occurred_at) = period}

audit_period(u, l, granularity, period) ==
    {t \in Lifecycles(u, l) : PeriodKey(granularity, latest[t]) = period}

audit_available(u, l, granularity) == {PeriodKey(granularity, latest[t]) : t \in Lifecycles(u, l)}

-----------------------------------------------------------------------------
(* The financial analyses.                                                 *)

\* unwrap_or on times.
OrElse(time, other) == IF time # None THEN time ELSE other

PaidOut(tx) ==
    tx.approval_state = "Approved" /\ tx.kind = "Expense" /\ tx.payment_state # "PendingPayment"

Earned(tx) == tx.approval_state = "Approved" /\ tx.kind = "Income"

\* Mutant: the confirmation of the receipt counts as the payment.
EffectiveWhenReceived(t) ==
    LET s == stamps[t]
    IN  CASE Earned(transactions[t])  -> OrElse(s.approved_at, s.occurred_at)
          [] PaidOut(transactions[t]) -> OrElse(s.received_at, OrElse(s.paid_at, s.occurred_at))
          [] OTHER -> None

\* Mutant: a payment whose time is not known is left out.
EffectiveWhenPaidOnly(t) ==
    LET s == stamps[t]
    IN  CASE Earned(transactions[t])  -> OrElse(s.approved_at, s.occurred_at)
          [] PaidOut(transactions[t]) -> s.paid_at
          [] OTHER -> None

transaction_cash_effective_at(t) ==
    LET s == stamps[t]
    IN  CASE Earned(transactions[t])  -> OrElse(s.approved_at, s.occurred_at)
          [] PaidOut(transactions[t]) -> OrElse(s.paid_at, OrElse(s.received_at, s.occurred_at))
          [] OTHER -> None

\* The transactions of the ledger whose cash moved in this interval.
CashFlow(l, interval) ==
    {t \in Existing : /\ transactions[t].ledger = l
                      /\ transaction_cash_effective_at(t) # None
                      /\ transaction_cash_effective_at(t) \in interval}

OfKind(flow, kind) == {t \in flow : transactions[t].kind = kind}

AmountOf(flow) == SumFunction([t \in flow |-> transactions[t].amount])

IncomeAndExpense(flow) ==
    [income |-> AmountOf(OfKind(flow, "Income")), expense |-> AmountOf(OfKind(flow, "Expense"))]

BusinessMemberRoles == {"BusinessOwner", "Employee", "Accountant", "Approver", "Member"}

business_members_for_ledger(o) == {u \in Users : memberships[o][u] \in BusinessMemberRoles}

\* One entry for every business member and every applicant of these expenses.
member_expenses(o, expenses) ==
    [u \in business_members_for_ledger(o) \cup {transactions[t].created_by : t \in expenses} |->
        LET own == {t \in expenses : transactions[t].created_by = u}
        IN  [expense |-> AmountOf(own), count |-> Cardinality(own)]]

\* add_exposure over the ledger's expenses in these states.
Exposure(o, approval, payments) ==
    {t \in Existing : /\ transactions[t].ledger = o /\ transactions[t].kind = "Expense"
                      /\ transactions[t].approval_state = approval
                      /\ transactions[t].payment_state \in payments}

InPeriod(months) == period_start(months) .. now

\* The period of the same length before.
InPreviousPeriod(months) ==
    LET start == period_start(months) IN start - (now - start) .. start - 1

TrendIndex(months, t) ==
    month_distance(period_start(months), month_start(transaction_cash_effective_at(t)))

may_analyse(u, o) == authorized(u, o, "ViewFinancialAnalytics")

financial_analysis(o, months) ==
    LET flow == CashFlow(o, InPeriod(months))
        positive == {t \in OfKind(flow, "Expense") : transactions[t].amount > 0}
    IN  [totals |-> IncomeAndExpense(flow),
         previous |-> IncomeAndExpense(CashFlow(o, InPreviousPeriod(months))),
         transaction_count |-> Cardinality(flow),
         trend |-> [i \in 0 .. months - 1 |->
                       IncomeAndExpense({t \in flow : TrendIndex(months, t) = i})],
         current_balance |-> SumFunction([a \in {b \in Account : b.ledger = o} |->
                                            account_balance_minor(a)]),
         member_expenses |-> member_expenses(o, positive),
         pending_approval |-> Exposure(o, "Submitted", PaymentState),
         pending_payment |-> Exposure(o, "Approved", {"PendingPayment"}),
         paid_pending_receipt |-> Exposure(o, "Approved", {"PaidPendingReceipt"})]

financial_month_detail(o, month) ==
    LET start == calendar_month_start(month)
        flow  == CashFlow(o, start .. start + MonthLength - 1)
    IN  [totals |-> IncomeAndExpense(flow),
         categories |-> [c \in {transactions[t].category : t \in flow} |->
                            AmountOf({t \in flow : transactions[t].category = c})],
         member_expenses |-> member_expenses(o, OfKind(flow, "Expense"))]

\* Only for those who are business members at present.
financial_member_detail(o, months, member) ==
    AmountOf({t \in OfKind(CashFlow(o, InPeriod(months)), "Expense") :
                 transactions[t].created_by = member})

-----------------------------------------------------------------------------
(* Properties.                                                             *)

MonthsSoFar == 0 .. month_key(now)

MemberExpense(f, u) == IF u \in DOMAIN f THEN f[u].expense ELSE 0

(***************************************************************************)
(* The reports of a ledger agree with each other, at any time and from any *)
(* past: the months of an analysis are the ones the month details show and *)
(* add up to its totals; categories and members of a month add up to the   *)
(* month; and a member's own report is the sum of the member's months.     *)
(***************************************************************************)
ReportsAgree ==
    \A o \in organizations :
        LET detail == [m \in MonthsSoFar |-> financial_month_detail(o, m)]
            first(months) == month_key(now) - months + 1
            recent(months) == {m \in MonthsSoFar : m >= first(months)}
        IN  /\ \A m \in MonthsSoFar :
                  /\ SumFunction(detail[m].categories)
                        = detail[m].totals.income + detail[m].totals.expense
                  /\ SumFunction([u \in DOMAIN detail[m].member_expenses |->
                                      detail[m].member_expenses[u].expense])
                        = detail[m].totals.expense
            /\ \A months \in Ranges :
                  LET a == financial_analysis(o, months)
                  IN  /\ \A m \in recent(months) : a.trend[m - first(months)] = detail[m].totals
                      /\ \A k \in {"income", "expense"} :
                            SumFunction([i \in DOMAIN a.trend |-> a.trend[i][k]]) = a.totals[k]
                      /\ \A u \in business_members_for_ledger(o) :
                            financial_member_detail(o, months, u)
                               = SumFunction([m \in recent(months) |->
                                                 MemberExpense(detail[m].member_expenses, u)])

(***************************************************************************)
(* Every cash movement has one date, not in the future: the months of a    *)
(* ledger, from the first one on, add up to the balance of its accounts,   *)
(* also for records whose payment the import had to fill in.               *)
(***************************************************************************)
CashFlowIsBalance ==
    \A o \in organizations :
        financial_analysis(o, 1).current_balance
            = SumFunction([m \in MonthsSoFar |->
                              LET d == financial_month_detail(o, m).totals
                              IN  d.income - d.expense])

(***************************************************************************)
(* The books of a month that is over change only when one of its           *)
(* transactions is voided: a late approval, payment, receipt or role       *)
(* change does not reach back (backend-data-model.md, Financial Analysis). *)
(***************************************************************************)
KeepsClosedMonths ==
    \A o \in organizations, m \in 0 .. month_key(now) - 1 :
        \/ financial_month_detail(o, m).totals' = financial_month_detail(o, m).totals
        \/ \E t \in Existing : /\ transactions[t].approval_state = "Approved"
                               /\ transactions'[t].approval_state = "Voided"
                               /\ transactions[t].ledger = o

ClosedMonthsFixed == [][KeepsClosedMonths]_<<vars, clock>>

\* The transaction waits for a step that this person may take now.
MayActOn(u, t) ==
    LET tx == transactions[t]
    IN  \/ /\ tx.approval_state = "Submitted" /\ ~SelfApproval(u, tx)
           /\ authorized(u, tx.ledger, "ApproveTransaction")
        \/ Payable(tx) /\ authorized(u, tx.ledger, "MarkTransactionPaid")
        \/ /\ Receivable(tx) /\ tx.created_by = u
           /\ authorized(u, tx.ledger, "ConfirmReceipt")

(***************************************************************************)
(* "Operational queues remain complete" (backend-data-model.md): whoever   *)
(* may take the next step of a transaction finds it in the overview,       *)
(* however old it is, and the queues of somebody who may see the analysis  *)
(* are as long as the exposures it shows.                                  *)
(***************************************************************************)
QueuesComplete ==
    \A u \in Users :
        /\ \A t \in Existing : MayActOn(u, t) => t \in OverviewTransactions(u)
        /\ \A o \in organizations : may_analyse(u, o) =>
              LET a == financial_analysis(o, 1)
              IN  /\ Cardinality(a.pending_approval) <= pending_approval_count(u)
                  /\ Cardinality(a.pending_payment) = pending_payment_count(u)
                  /\ Cardinality(a.paid_pending_receipt) = pending_receipt_count(u)

\* The times of the steps a transaction has taken.
TimesOf(t) == {stamps[t][f] : f \in DOMAIN stamps[t]} \ {None}

(***************************************************************************)
(* Nothing is hidden between the pages: every transaction a person may see *)
(* is on one page of the history, and every transaction with an audit log  *)
(* has its life on one page of the audit periods, the page of the period   *)
(* in which it last changed and not of one before a step it shows.         *)
(***************************************************************************)
PagesComplete ==
    \A u \in Users, l \in ledgers :
        /\ \A t \in VisibleOn(u, l) :
              Cardinality({page \in UNION {{m} \X available_days(u, l, m) :
                                              m \in available_months(u, l)} :
                              t \in transactions_for_day(u, l, page[1], page[2])}) = 1
        /\ \A t \in Lifecycles(u, l), granularity \in {"Day", "Month"} :
              \E p \in audit_available(u, l, granularity) :
                 /\ t \in audit_period(u, l, granularity, p)
                 /\ \A at \in TimesOf(t) : PeriodKey(granularity, at) <= p

-----------------------------------------------------------------------------
(* The inductive invariant behind RowsFitSchema, QueuesComplete and        *)
(* PagesComplete from imported documents, whose records and audit logs     *)
(* need not agree as those of the present version do.                      *)

\* No step of a transaction lies in the future or after its last audit event.
TimesFit ==
    /\ now \in Nat
    /\ \A t \in TxIds :
          /\ stamps[t] \in Stamps
          /\ \A at \in TimesOf(t) : at \in Nat /\ at <= now
          /\ audit_logs[t] # <<>> => /\ latest[t] \in Nat /\ latest[t] <= now
                                     /\ \A at \in TimesOf(t) : at <= latest[t]

\* A transaction is booked on an account of its ledger and has a date, and a
\* payment that may be confirmed has one.
BooksFit ==
    \A t \in Existing :
        /\ transactions[t].account.ledger = transactions[t].ledger
        /\ stamps[t].occurred_at # None
        /\ transactions[t].payment_state = "PaidPendingReceipt" => stamps[t].paid_at # None

(***************************************************************************)
(* What holds of an imported ledger, and of every state reached from it.   *)
(***************************************************************************)
ImportFits ==
    /\ TypeOK
    /\ MembersFit(users, organizations, memberships, ledgers)
    /\ MembershipRowsFit
    /\ \A t \in TxIds :
          IF transactions[t] = None THEN audit_logs[t] = <<>>
          ELSE ForeignKeysFit(transactions[t]) /\ WorkflowFits(transactions[t])
    /\ TimesFit
=============================================================================
