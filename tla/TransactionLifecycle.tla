------------------------ MODULE TransactionLifecycle ------------------------
(***************************************************************************)
(* What CloudLedger promises about one transaction, whoever acts on it and *)
(* however memberships change meanwhile: the stages it may pass through    *)
(* and when its amount counts in the balance of its account.  The          *)
(* promise is the invariant list of docs/backend-data-model.md, "Employee  *)
(* public expenses move through submitted, then approved/pending_payment,  *)
(* paid_pending_receipt, and received" and "Marking it paid posts it once; *)
(* receipt confirmation records settlement without changing the balance    *)
(* again".  LedgerWorkflow implements this specification.                  *)
(***************************************************************************)

CONSTANT TxIds

VARIABLES
    stage,   \* where each transaction is
    booked   \* the transactions that count in a balance

Stage == {"absent", "submitted", "rejected", "awaiting_payment", "paid",
          "received", "settled", "voided"}

Init ==
    /\ stage = [t \in TxIds |-> "absent"]
    /\ booked = {}

Move(t, from, to) ==
    /\ stage[t] \in from
    /\ stage' = [stage EXCEPT ![t] = to]

\* An application on a public ledger, or the single owner's own expense.
Apply(t) ==
    /\ Move(t, {"absent"}, "submitted") \/ Move(t, {"absent"}, "awaiting_payment")
    /\ UNCHANGED booked

Reject(t) == Move(t, {"submitted"}, "rejected") /\ UNCHANGED booked

\* An approved expense is not posted yet.
Approve(t) == Move(t, {"submitted"}, "awaiting_payment") /\ UNCHANGED booked

\* Income, and everything on a personal ledger, is final and posted at once.
Settle(t) ==
    /\ Move(t, {"absent", "submitted"}, "settled")
    /\ booked' = booked \cup {t}

Pay(t) == Move(t, {"awaiting_payment"}, "paid") /\ booked' = booked \cup {t}

Receive(t) == Move(t, {"paid"}, "received") /\ UNCHANGED booked

Void(t) ==
    /\ Move(t, {"awaiting_payment", "paid", "received", "settled"}, "voided")
    /\ booked' = booked \ {t}

Next ==
    \E t \in TxIds :
        Apply(t) \/ Reject(t) \/ Approve(t) \/ Settle(t) \/ Pay(t) \/ Receive(t) \/ Void(t)

Spec == Init /\ [][Next]_<<stage, booked>>
=============================================================================
