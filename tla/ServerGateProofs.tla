-------------------------- MODULE ServerGateProofs --------------------------
(***************************************************************************)
(* Proofs about ServerGate, for any number of requests and operations and  *)
(* for both storage backends.                                              *)
(*                                                                         *)
(* GateInvariant is inductive: a clone is only as good as the published    *)
(* state it was taken from, and that state stands still while the holder   *)
(* of the gate is at work, because only the holder publishes.              *)
(***************************************************************************)
EXTENDS ServerGate, TLAPS

\* A clone contains the published state, and the operation where it belongs.
LEMMA AppliedContains ==
    ASSUME NEW op \in Ops, StateOK
    PROVE  /\ Applied(op) \in [Parts -> SUBSET Ops]
           /\ \A p \in Parts : memory[p] \subseteq Applied(op)[p]
           /\ \A p \in Parts : Touches(op, p) => op \in Applied(op)[p]
           /\ \A p \in Parts : ~Touches(op, p) => Applied(op)[p] = memory[p]
BY DEF Applied, StateOK

\* The two parts of the server's state.
LEMMA PartsAre == Parts = {"ledger", "auth"} /\ Nothing \in [Parts -> SUBSET Ops]
BY DEF Parts, Nothing

LEMMA InitInvariant == Init => GateInvariant
<1> SUFFICES ASSUME Init PROVE GateInvariant
    OBVIOUS
<1>1. StateOK
    BY PartsAre, GateConstants DEF Init, StateOK
<1>2. \A r \in Requests : HolderConsistent(r)
    BY GateConstants DEF Init, HolderConsistent, Holding
<1>3. PublishedIsStored /\ AckedSurvives /\ TrailComplete
    BY PartsAre DEF Init, PublishedIsStored, AckedSurvives, TrailComplete, Nothing
<1> QED
    BY <1>1, <1>2, <1>3 DEF GateInvariant

-----------------------------------------------------------------------------
(* The steps of a handler, one lemma for each.                             *)

LEMMA ReceiveStep ==
    ASSUME GateInvariant, backend' = backend, NEW r \in Requests, NEW op \in Ops, Receive(r, op)
    PROVE  GateInvariant'
<1>1. StateOK'
    BY DEF GateInvariant, StateOK, Receive, stores
<1>2. ASSUME NEW q \in Requests PROVE HolderConsistent(q)'
    <2>1. CASE q = r
        BY <2>1 DEF GateInvariant, HolderConsistent, Receive, Holding, Finished, StateOK
    <2>2. CASE q # r
        BY <2>2 DEF GateInvariant, HolderConsistent, Receive, Holding, StateOK, Applied, stores
    <2> QED
        BY <2>1, <2>2
<1>3. PublishedIsStored' /\ AckedSurvives' /\ TrailComplete'
    BY DEF GateInvariant, PublishedIsStored, AckedSurvives, TrailComplete, Receive, stores
<1> QED
    BY <1>1, <1>2, <1>3 DEF GateInvariant

LEMMA StageStep ==
    ASSUME GateInvariant, backend' = backend, NEW r \in Requests, Stage(r)
    PROVE  GateInvariant'
<1>0. want[r] \in Ops /\ StateOK /\ holder = None /\ up
    BY DEF GateInvariant, HolderConsistent, Stage, GateOpens
<1>1. StateOK'
    BY <1>0, AppliedContains DEF StateOK, Stage, stores, Holding
<1>2. ASSUME NEW q \in Requests PROVE HolderConsistent(q)'
    <2>1. CASE q = r
        BY <2>1, <1>0 DEF HolderConsistent, Stage, Holding, StateOK, Applied, stores
    <2>2. CASE q # r
        <3>1. pc[q] \notin Holding /\ (pc[q] = "queued" => up /\ want[q] \in Ops)
            BY <1>0, GateConstants DEF GateInvariant, HolderConsistent
        <3> QED
            BY <2>2, <3>1, <1>0 DEF HolderConsistent, Stage, Holding, StateOK, stores
    <2> QED
        BY <2>1, <2>2
<1>3. PublishedIsStored' /\ AckedSurvives' /\ TrailComplete'
    BY DEF GateInvariant, PublishedIsStored, AckedSurvives, TrailComplete, Stage, stores
<1> QED
    BY <1>1, <1>2, <1>3 DEF GateInvariant

\* However a handler ends, the others are not disturbed.
LEMMA LeaveKeeps ==
    ASSUME GateInvariant, backend' = backend, NEW r \in Requests, NEW how \in Finished, Leave(r, how),
           acked' \subseteq Ops, AckedSurvives', TrailComplete'
    PROVE  GateInvariant'
<1>1. StateOK'
    BY PartsAre, GateConstants DEF GateInvariant, StateOK, Leave, stores
<1>2. ASSUME NEW q \in Requests PROVE HolderConsistent(q)'
    <2>1. CASE q = r
        BY <2>1, GateConstants DEF GateInvariant, HolderConsistent, Leave, Holding, Finished, StateOK
    <2>2. CASE q # r
        BY <2>2, GateConstants DEF GateInvariant, HolderConsistent, Leave, Holding, StateOK, Applied, stores
    <2> QED
        BY <2>1, <2>2
<1>3. PublishedIsStored'
    BY DEF GateInvariant, PublishedIsStored, Leave, stores
<1> QED
    BY <1>1, <1>2, <1>3 DEF GateInvariant

\* A refusal, an error and a dropped handler acknowledge nothing.
LEMMA FailureStep ==
    ASSUME GateInvariant, backend' = backend, NEW r \in Requests,
           \/ Refuse(r) \/ StorageError(r) \/ AnswerLost(r)
           \/ AppendError(r) \/ Abandon(r)
    PROVE  GateInvariant'
<1>1. /\ acked' = acked
      /\ Leave(r, "failed") \/ Leave(r, "abandoned")
    BY DEF Refuse, StorageError, AnswerLost, AppendError, Abandon, Fail
<1>2. acked' \subseteq Ops /\ AckedSurvives' /\ TrailComplete'
    BY <1>1 DEF GateInvariant, StateOK, AckedSurvives, TrailComplete, Leave, stores
<1> QED
    BY <1>1, <1>2, LeaveKeeps DEF Finished

LEMMA RespondStep ==
    ASSUME GateInvariant, backend' = backend, NEW r \in Requests, Respond(r)
    PROVE  GateInvariant'
<1>1. /\ acked' = acked \cup {want[r]} /\ Leave(r, "answered")
      /\ pc[r] \in {"published", "audited"}
      /\ want[r] \in AuditedOps => pc[r] = "audited"
    BY DEF Respond, Answerable
<1>2. /\ want[r] \in Ops
      /\ \A p \in Parts : Touches(want[r], p) => want[r] \in memory[p]
      /\ want[r] \in AuditedOps /\ backend = "Postgres" => want[r] \in security_events
    BY <1>1 DEF GateInvariant, HolderConsistent, Holding
<1>3. acked' \subseteq Ops /\ AckedSurvives'
    BY <1>1, <1>2 DEF GateInvariant, StateOK, AckedSurvives, PublishedIsStored, Leave, stores
<1>4. TrailComplete'
    BY <1>1, <1>2 DEF GateInvariant, TrailComplete, Leave, stores
<1> QED
    BY <1>1, <1>3, <1>4, LeaveKeeps DEF Finished

-----------------------------------------------------------------------------
(* Steps of the holder that write.                                         *)

\* While one request is at work no other one is.
LEMMA OnlyHolderWorks ==
    ASSUME GateInvariant, NEW r \in Requests, pc[r] \in Holding, NEW q \in Requests, q # r
    PROVE  /\ pc[q] \notin Holding
           /\ holder = r /\ up /\ want[r] \in Ops
           /\ pc[q] = "queued" => want[q] \in Ops
BY DEF GateInvariant, HolderConsistent

LEMMA CommitStep ==
    ASSUME GateInvariant, backend' = backend, NEW r \in Requests, CommitSnapshot(r)
    PROVE  GateInvariant'
<1>0. /\ pc[r] = "staged" /\ holder = r /\ up /\ want[r] \in Ops /\ StateOK
      /\ staged[r] = Applied(want[r])
    BY DEF GateInvariant, HolderConsistent, Holding, CommitSnapshot
<1>a. /\ staged[r] \in [Parts -> SUBSET Ops]
      /\ \A p \in Parts : memory[p] \subseteq staged[r][p]
    BY <1>0, AppliedContains
<1>b. PICK auth \in MergedAuth(r) :
          durable' = [p \in Parts |-> IF p = "ledger" THEN ReplacedLedger(r) ELSE auth]
    BY DEF CommitSnapshot
<1>c. /\ auth \subseteq Ops
      /\ Touches(want[r], "auth") => staged[r]["auth"] \subseteq auth
      /\ ~Touches(want[r], "auth") => auth = durable["auth"]
    BY <1>0, <1>a, PartsAre DEF MergedAuth, StateOK
<1>d. /\ durable' \in [Parts -> SUBSET Ops]
      /\ \A p \in Parts : Touches(want[r], p) => staged[r][p] \subseteq durable'[p]
      /\ \A p \in Parts : ~Touches(want[r], p) => durable'[p] = durable[p]
    BY <1>0, <1>a, <1>b, <1>c, PartsAre DEF ReplacedLedger, StateOK
<1>1. StateOK'
    BY <1>0, <1>a, <1>d, PartsAre DEF StateOK, CommitSnapshot, TrailOf, Holding
<1>2. ASSUME NEW q \in Requests PROVE HolderConsistent(q)'
    <2>1. CASE q = r
        BY <2>1, <1>0, <1>d DEF HolderConsistent, CommitSnapshot, Holding, StateOK, Applied
    <2>2. CASE q # r
        <3>1. /\ pc[q] \notin Holding /\ (pc[q] = "queued" => want[q] \in Ops)
            BY <2>2, <1>0, OnlyHolderWorks DEF Holding
        <3> QED
            BY <2>2, <3>1, <1>0 DEF HolderConsistent, CommitSnapshot, Holding, StateOK
    <2> QED
        BY <2>1, <2>2
<1>3. PublishedIsStored'
    BY <1>a, <1>0, <1>d DEF GateInvariant, PublishedIsStored, CommitSnapshot
<1>4. AckedSurvives'
    BY <1>3 DEF GateInvariant, AckedSurvives, PublishedIsStored, CommitSnapshot
<1>5. TrailComplete'
    BY <1>b, PartsAre DEF GateInvariant, TrailComplete, CommitSnapshot, ReplacedLedger, TrailOf
<1> QED
    BY <1>1, <1>2, <1>3, <1>4, <1>5 DEF GateInvariant

LEMMA WriteLedgerStep ==
    ASSUME GateInvariant, backend' = backend, NEW r \in Requests, WriteLedgerFile(r)
    PROVE  GateInvariant'
<1>0. /\ pc[r] = "staged" /\ holder = r /\ up /\ want[r] \in Ops /\ StateOK
      /\ staged[r] = Applied(want[r])
    BY DEF GateInvariant, HolderConsistent, Holding, WriteLedgerFile
<1>a. /\ staged[r] \in [Parts -> SUBSET Ops]
      /\ \A p \in Parts : memory[p] \subseteq staged[r][p]
    BY <1>0, AppliedContains
<1>1. StateOK'
    BY <1>0, <1>a, PartsAre DEF StateOK, WriteLedgerFile, Holding
<1>2. ASSUME NEW q \in Requests PROVE HolderConsistent(q)'
    <2>1. CASE q = r
        BY <2>1, <1>0, PartsAre DEF HolderConsistent, WriteLedgerFile, Holding, StateOK, Applied
    <2>2. CASE q # r
        <3>1. /\ pc[q] \notin Holding /\ (pc[q] = "queued" => want[q] \in Ops)
            BY <2>2, <1>0, OnlyHolderWorks DEF Holding
        <3> QED
            BY <2>2, <3>1, <1>0 DEF HolderConsistent, WriteLedgerFile, Holding, StateOK
    <2> QED
        BY <2>1, <2>2
<1>3. PublishedIsStored'
    BY <1>a, <1>0, PartsAre DEF GateInvariant, PublishedIsStored, WriteLedgerFile, StateOK
<1>4. AckedSurvives'
    BY <1>3 DEF GateInvariant, AckedSurvives, PublishedIsStored, WriteLedgerFile
<1>5. TrailComplete'
    BY <1>0, PartsAre DEF GateInvariant, TrailComplete, WriteLedgerFile, StateOK
<1> QED
    BY <1>1, <1>2, <1>3, <1>4, <1>5 DEF GateInvariant

LEMMA WriteAuthStep ==
    ASSUME GateInvariant, backend' = backend, NEW r \in Requests, WriteAuthFile(r)
    PROVE  GateInvariant'
<1>0. /\ pc[r] \in {"staged", "ledger_written"} /\ holder = r /\ up
      /\ want[r] \in Ops /\ StateOK
      /\ staged[r] = Applied(want[r])
      /\ Touches(want[r], "ledger") => durable["ledger"] = staged[r]["ledger"]
    BY DEF GateInvariant, HolderConsistent, Holding, WriteAuthFile
<1>a. /\ staged[r] \in [Parts -> SUBSET Ops]
      /\ \A p \in Parts : memory[p] \subseteq staged[r][p]
    BY <1>0, AppliedContains
<1>1. StateOK'
    BY <1>0, <1>a, PartsAre DEF StateOK, WriteAuthFile, Holding
<1>2. ASSUME NEW q \in Requests PROVE HolderConsistent(q)'
    <2>1. CASE q = r
        BY <2>1, <1>0, PartsAre DEF HolderConsistent, WriteAuthFile, Holding, StateOK, Applied
    <2>2. CASE q # r
        <3>1. /\ pc[q] \notin Holding /\ (pc[q] = "queued" => want[q] \in Ops)
            BY <2>2, <1>0, OnlyHolderWorks DEF Holding
        <3> QED
            BY <2>2, <3>1, <1>0 DEF HolderConsistent, WriteAuthFile, Holding, StateOK
    <2> QED
        BY <2>1, <2>2
<1>3. PublishedIsStored'
    BY <1>a, <1>0, PartsAre DEF GateInvariant, PublishedIsStored, WriteAuthFile, StateOK
<1>4. AckedSurvives'
    BY <1>3 DEF GateInvariant, AckedSurvives, PublishedIsStored, WriteAuthFile
<1>5. TrailComplete'
    BY <1>0, PartsAre DEF GateInvariant, TrailComplete, WriteAuthFile, StateOK
<1> QED
    BY <1>1, <1>2, <1>3, <1>4, <1>5 DEF GateInvariant

\* Publishing adds the operation to the published state, which is stored.
LEMMA PublishStep ==
    ASSUME GateInvariant, backend' = backend, NEW r \in Requests, Publish(r)
    PROVE  /\ GateInvariant'
           /\ \A p \in Parts : memory[p] \subseteq memory'[p]
<1>0. /\ pc[r] = "saved" /\ holder = r /\ up /\ want[r] \in Ops /\ StateOK
      /\ staged[r] = Applied(want[r])
      /\ \A p \in Parts : Touches(want[r], p) => staged[r][p] \subseteq durable[p]
    BY DEF GateInvariant, HolderConsistent, Holding, Publish, Publishable
<1>a. /\ staged[r] \in [Parts -> SUBSET Ops]
      /\ \A p \in Parts : memory[p] \subseteq staged[r][p]
      /\ \A p \in Parts : Touches(want[r], p) => want[r] \in staged[r][p]
    BY <1>0, AppliedContains
<1>1. StateOK'
    BY <1>0, <1>a DEF StateOK, Publish, stores, Holding
<1>2. ASSUME NEW q \in Requests PROVE HolderConsistent(q)'
    <2>1. CASE q = r
        BY <2>1, <1>0, <1>a DEF HolderConsistent, Publish, Holding, StateOK, stores
    <2>2. CASE q # r
        <3>1. /\ pc[q] \notin Holding /\ (pc[q] = "queued" => want[q] \in Ops)
            BY <2>2, <1>0, OnlyHolderWorks DEF Holding
        <3> QED
            BY <2>2, <3>1, <1>0 DEF HolderConsistent, Publish, Holding, StateOK, stores
    <2> QED
        BY <2>1, <2>2
<1>3. PublishedIsStored' /\ \A p \in Parts : memory[p] \subseteq memory'[p]
    BY <1>0, <1>a DEF GateInvariant, PublishedIsStored, Publish, stores
<1>4. AckedSurvives'
    BY <1>3 DEF GateInvariant, AckedSurvives, Publish, stores
<1>5. TrailComplete'
    BY DEF GateInvariant, TrailComplete, Publish, stores
<1> QED
    BY <1>1, <1>2, <1>3, <1>4, <1>5 DEF GateInvariant

LEMMA AppendSecurityStep ==
    ASSUME GateInvariant, backend' = backend, NEW r \in Requests, AppendSecurityEvent(r)
    PROVE  GateInvariant'
<1>0. /\ pc[r] = "published" /\ holder = r /\ up /\ want[r] \in Ops /\ StateOK
    BY DEF GateInvariant, HolderConsistent, Holding, AppendSecurityEvent
<1>1. StateOK'
    BY <1>0 DEF StateOK, AppendSecurityEvent, Holding
<1>2. ASSUME NEW q \in Requests PROVE HolderConsistent(q)'
    <2>1. CASE q = r
        BY <2>1, <1>0 DEF GateInvariant, HolderConsistent, AppendSecurityEvent, Holding, StateOK
    <2>2. CASE q # r
        <3>1. /\ pc[q] \notin Holding /\ (pc[q] = "queued" => want[q] \in Ops)
            BY <2>2, <1>0, OnlyHolderWorks DEF Holding
        <3> QED
            BY <2>2, <3>1, <1>0 DEF HolderConsistent, AppendSecurityEvent, Holding, StateOK
    <2> QED
        BY <2>1, <2>2
<1>3. PublishedIsStored' /\ AckedSurvives' /\ TrailComplete'
    BY DEF GateInvariant, PublishedIsStored, AckedSurvives, TrailComplete, AppendSecurityEvent
<1> QED
    BY <1>1, <1>2, <1>3 DEF GateInvariant

-----------------------------------------------------------------------------
(* The process.                                                            *)

LEMMA CrashStep ==
    ASSUME GateInvariant, backend' = backend, Crash
    PROVE  GateInvariant'
<1>1. StateOK'
    <2>1. pc' \in [Requests -> {"idle", "queued"} \cup Holding \cup Finished]
        BY DEF GateInvariant, StateOK, Crash, Finished
    <2>2. crashes' \in 0 .. MaxCrashes
        BY GateConstants DEF GateInvariant, StateOK, Crash
    <2>3. /\ staged' \in [Requests -> [Parts -> SUBSET Ops]]
          /\ want' \in [Requests -> Ops \cup {None}]
          /\ holder' \in Requests \cup {None}
        BY PartsAre DEF Crash
    <2> QED
        BY <2>1, <2>2, <2>3 DEF GateInvariant, StateOK, Crash, stores
<1>2. ASSUME NEW q \in Requests PROVE HolderConsistent(q)'
    BY GateConstants DEF GateInvariant, StateOK, HolderConsistent, Crash, Holding
<1>3. PublishedIsStored' /\ AckedSurvives' /\ TrailComplete'
    BY DEF GateInvariant, PublishedIsStored, AckedSurvives, TrailComplete, Crash, stores
<1> QED
    BY <1>1, <1>2, <1>3 DEF GateInvariant

LEMMA RestartStep ==
    ASSUME GateInvariant, backend' = backend, Restart
    PROVE  /\ GateInvariant'
           /\ \A p \in Parts : memory[p] \subseteq memory'[p]
<1>1. StateOK'
    BY DEF GateInvariant, StateOK, Restart, stores
<1>2. ASSUME NEW q \in Requests PROVE HolderConsistent(q)'
    BY DEF GateInvariant, HolderConsistent, Restart, Holding
<1>3. /\ PublishedIsStored' /\ AckedSurvives' /\ TrailComplete'
      /\ \A p \in Parts : memory[p] \subseteq memory'[p]
    BY DEF GateInvariant, PublishedIsStored, AckedSurvives, TrailComplete, Restart, stores
<1> QED
    BY <1>1, <1>2, <1>3 DEF GateInvariant

\* Nothing but publishing and restarting changes the published state.
LEMMA StepKeeps ==
    ASSUME GateInvariant, [Next]_vars
    PROVE  GateInvariant' /\ \A p \in Parts : memory[p] \subseteq memory'[p]
<1>0. backend' = backend
    BY DEF Next, vars
<1>1. CASE UNCHANGED vars
    BY <1>1 DEF vars, GateInvariant, StateOK, HolderConsistent, Applied, PublishedIsStored,
                AckedSurvives, TrailComplete
<1>2. ASSUME NEW r \in Requests, NEW op \in Ops, Receive(r, op)
      PROVE  GateInvariant' /\ memory' = memory
    BY <1>0, <1>2, ReceiveStep DEF Receive
<1>3. ASSUME NEW r \in Requests, Progress(r) \/ Abandon(r)
      PROVE  GateInvariant' /\ \A p \in Parts : memory[p] \subseteq memory'[p]
    <2>1. CASE Stage(r)
        BY <1>0, <2>1, StageStep DEF Stage
    <2>2. CASE Refuse(r) \/ StorageError(r) \/ AnswerLost(r) \/ AppendError(r) \/ Abandon(r)
        <3>1. memory' = memory
            BY <2>2 DEF Refuse, StorageError, AnswerLost, AppendError, Abandon, Fail, Leave
        <3> QED
            BY <1>0, <2>2, <3>1, FailureStep
    <2>3. CASE CommitSnapshot(r)
        BY <1>0, <2>3, CommitStep DEF CommitSnapshot
    <2>4. CASE WriteLedgerFile(r)
        BY <1>0, <2>4, WriteLedgerStep DEF WriteLedgerFile
    <2>5. CASE WriteAuthFile(r)
        BY <1>0, <2>5, WriteAuthStep DEF WriteAuthFile
    <2>6. CASE Publish(r)
        BY <1>0, <2>6, PublishStep
    <2>7. CASE AppendSecurityEvent(r)
        BY <1>0, <2>7, AppendSecurityStep DEF AppendSecurityEvent
    <2>8. CASE Respond(r)
        BY <1>0, <2>8, RespondStep DEF Respond, Leave
    <2> QED
        BY <1>3, <2>1, <2>2, <2>3, <2>4, <2>5, <2>6, <2>7, <2>8 DEF Progress
<1>4. CASE Crash
    BY <1>0, <1>4, CrashStep DEF Crash
<1>5. CASE Restart
    BY <1>0, <1>5, RestartStep
<1> QED
    BY <1>1, <1>2, <1>3, <1>4, <1>5 DEF Next

-----------------------------------------------------------------------------

(***************************************************************************)
(* The invariant of the write path holds for any number of concurrent      *)
(* requests, whatever fails, is dropped or crashes.                        *)
(***************************************************************************)
THEOREM GateAlwaysConsistent == Spec => []GateInvariant
<1>1. GateInvariant /\ [Next]_vars => GateInvariant'
    BY StepKeeps
<1> QED
    BY <1>1, InitInvariant, PTL DEF Spec

(***************************************************************************)
(* An acknowledged operation is never lost: not to a concurrent request,   *)
(* not to a failed one, not to a crash.                                    *)
(***************************************************************************)
THEOREM AckedAlwaysSurvives == Spec => []AckedSurvives
<1>1. GateInvariant => AckedSurvives
    BY DEF GateInvariant
<1> QED
    BY <1>1, GateAlwaysConsistent, PTL

(***************************************************************************)
(* What readers see is always stored.                                      *)
(***************************************************************************)
THEOREM PublishedAlwaysStored == Spec => []PublishedIsStored
<1>1. GateInvariant => PublishedIsStored
    BY DEF GateInvariant
<1> QED
    BY <1>1, GateAlwaysConsistent, PTL

(***************************************************************************)
(* The audit trail covers every stored and every acknowledged operation.   *)
(***************************************************************************)
THEOREM TrailAlwaysComplete == Spec => []TrailComplete
<1>1. GateInvariant => TrailComplete
    BY DEF GateInvariant
<1> QED
    BY <1>1, GateAlwaysConsistent, PTL

(***************************************************************************)
(* No step takes back what readers have seen, the restart after a crash    *)
(* included.                                                               *)
(***************************************************************************)
THEOREM ReadsNeverGoBack == Spec => ReadsNeverRegress
<1>1. GateInvariant /\ [Next]_vars => [\A p \in Parts : memory[p] \subseteq memory'[p]]_vars
    BY StepKeeps
<1> QED
    BY <1>1, GateAlwaysConsistent, PTL DEF Spec, ReadsNeverRegress
=============================================================================
