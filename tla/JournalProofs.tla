--------------------------- MODULE JournalProofs ---------------------------
(***************************************************************************)
(* Proofs about JournalApproval, for any number of users, entries and      *)
(* callers, any drafts, any book and any memberships.                      *)
(***************************************************************************)
EXTENDS JournalApproval, Sums

-----------------------------------------------------------------------------
(* Requests and their decisions.                                           *)

LEMMA RequirementsType ==
    ASSUME NEW requirement \in Requirements
    PROVE  /\ requirement \in Requirement
           /\ requirement.min_approvals \in Nat /\ requirement.min_approvals >= 1
           /\ requirement.required_roles \subseteq {"Approver", "Owner"}
           /\ "Owner" \in requirement.required_roles
  <1>1. ASSUME NEW roles \in SUBSET LedgerRole
        PROVE  /\ RequiredFrom(roles) \in Requirement
               /\ RequiredFrom(roles).min_approvals \in Nat
               /\ RequiredFrom(roles).min_approvals >= 1
               /\ RequiredFrom(roles).required_roles = roles
    BY JournalConstants DEF RequiredFrom, Requirement
  <1>2. {"Owner"} \in SUBSET LedgerRole /\ {"Approver", "Owner"} \in SUBSET LedgerRole
    BY DEF LedgerRole
  <1>3. CASE requirement = RequiredFrom({"Owner"})
    BY <1>1, <1>2, <1>3
  <1>4. CASE requirement = RequiredFrom({"Approver", "Owner"})
    BY <1>1, <1>2, <1>4
  <1>5. QED
    BY <1>3, <1>4 DEF Requirements

\* A request without decisions is sound and open.
LEMMA NewRequestSound ==
    ASSUME NEW u \in Users, NEW requirement \in Requirements
    PROVE  /\ NewRequest(u, requirement) \in ApprovalRequest
           /\ SoundRequest(NewRequest(u, requirement))
           /\ NewRequest(u, requirement).requirement = requirement
           /\ NewRequest(u, requirement).submitted_by = u
           /\ NewRequest(u, requirement).status = "Pending"
           /\ DOMAIN NewRequest(u, requirement).decisions = {}
  <1> DEFINE r == NewRequest(u, requirement)
             none == r.decisions
  <1>1. /\ r.submitted_by = u /\ r.requirement = requirement /\ r.status = "Pending"
        /\ none = <<>>
    BY DEF NewRequest
  <1>2. none \in Seq(Decision) /\ DOMAIN none = {}
    BY <1>1
  <1>3. requirement \in Requirement /\ "Pending" \in ApprovalStatus
    BY RequirementsType DEF ApprovalStatus
  <1>4. r \in ApprovalRequest
    BY <1>1, <1>2, <1>3 DEF NewRequest, ApprovalRequest
  <1> HIDE DEF r
  <1>5. approval_count(none) = 0
    <2>1. {i \in DOMAIN none : none[i].vote = "Approve"} = {}
      BY <1>2
    <2>2. QED
      BY <2>1, FS_EmptySet DEF approval_count
  <1>6. requirement.min_approvals \in Nat /\ requirement.min_approvals >= 1
    BY RequirementsType
  <1>7. StatusOf(none, requirement) = "Pending"
    BY <1>2, <1>5, <1>6 DEF StatusOf
  <1>8. SoundRequest(r)
    BY <1>1, <1>2, <1>6, <1>7 DEF SoundRequest
  <1>9. QED
    BY <1>1, <1>2, <1>4, <1>8 DEF r

LEMMA StatusType ==
    ASSUME NEW decisions, NEW requirement
    PROVE  StatusOf(decisions, requirement) \in ApprovalStatus
  BY DEF StatusOf, ApprovalStatus

\* What the decision of an acceptable approver makes of a sound request.
LEMMA DecidedSound ==
    ASSUME NEW r \in ApprovalRequest, SoundRequest(r), r.requirement \in Requirements,
           NEW actor \in Users, Acceptable(r, actor),
           NEW vote \in ApprovalVote, NEW lines \in Drafts,
           NEW d, d = [approver |-> actor,
                       role |-> accepted_role(r.requirement, roles_for(actor)),
                       vote |-> vote, on |-> lines]
    PROVE  /\ add_decision(r, d) \in ApprovalRequest
           /\ SoundRequest(add_decision(r, d))
           /\ add_decision(r, d).requirement = r.requirement
           /\ add_decision(r, d).submitted_by = r.submitted_by
           /\ \A i \in DOMAIN add_decision(r, d).decisions :
                 \/ add_decision(r, d).decisions[i].on = lines
                 \/ /\ i \in DOMAIN r.decisions
                    /\ add_decision(r, d).decisions[i] = r.decisions[i]
           /\ r.status = "Pending"
  <1> DEFINE old == r.decisions
             new == Append(old, d)
             n == Len(old)
             r2 == add_decision(r, d)
  <1>1. /\ r.submitted_by # actor /\ MayDecide(r, actor)
        /\ r.requirement.required_roles \cap roles_for(actor) # {}
    BY DEF Acceptable, Accepts
  <1>2. /\ r.requirement.required_roles \subseteq {"Approver", "Owner"}
        /\ r.requirement.min_approvals >= 1
    BY RequirementsType
  <1>3. d.role \in r.requirement.required_roles /\ d.role \in LedgerRole
    <2>1. accepted_role(r.requirement, roles_for(actor)) \in r.requirement.required_roles
      BY <1>1, <1>2 DEF accepted_role
    <2>2. QED
      BY <1>2, <2>1 DEF LedgerRole
  <1>4. d \in Decision /\ d.approver = actor /\ d.on = lines
    BY <1>3 DEF Decision
  <1>5. old \in Seq(Decision)
    BY DEF ApprovalRequest
  <1>6. /\ n \in Nat /\ DOMAIN old = 1 .. n /\ new \in Seq(Decision)
        /\ DOMAIN new = 1 .. n + 1
        /\ \A i \in 1 .. n : new[i] = old[i]
        /\ new[n + 1] = d
    BY <1>4, <1>5
  <1> HIDE DEF new, n
  <1>7. /\ r2.decisions = new /\ r2.requirement = r.requirement
        /\ r2.submitted_by = r.submitted_by
        /\ r2.status = StatusOf(new, r.requirement)
    BY DEF add_decision, ApprovalRequest, new
  <1>8. r2 \in ApprovalRequest
    <2>1. StatusOf(new, r.requirement) \in ApprovalStatus
      BY StatusType
    <2>2. QED
      BY <1>6, <2>1 DEF add_decision, ApprovalRequest, new
  <1> HIDE DEF r2, old
  <1>9. /\ \A i \in DOMAIN old : old[i].approver # actor
        /\ r.status = "Pending"
    BY <1>1 DEF MayDecide, old
  <1>10. SoundRequest(r2)
    <2>1. \A i, j \in DOMAIN new : i # j => new[i].approver # new[j].approver
      <3>1. \A i, j \in 1 .. n : i # j => old[i].approver # old[j].approver
        BY <1>6 DEF SoundRequest, old
      <3>2. ASSUME NEW i \in DOMAIN new, NEW j \in DOMAIN new, i # j
            PROVE  new[i].approver # new[j].approver
        <4>1. CASE i \in 1 .. n /\ j \in 1 .. n
          BY <1>6, <3>1, <3>2, <4>1
        <4>2. CASE i = n + 1 /\ j \in 1 .. n
          BY <1>4, <1>6, <1>9, <4>2
        <4>3. CASE j = n + 1 /\ i \in 1 .. n
          BY <1>4, <1>6, <1>9, <4>3
        <4>4. QED
          BY <1>6, <3>2, <4>1, <4>2, <4>3
      <3>3. QED
        BY <3>2
    <2>2. \A i \in DOMAIN new : /\ new[i].approver # r.submitted_by
                                /\ new[i].role \in r.requirement.required_roles
      <3>1. \A i \in 1 .. n : /\ old[i].approver # r.submitted_by
                              /\ old[i].role \in r.requirement.required_roles
        BY <1>6 DEF SoundRequest, old
      <3>2. QED
        BY <1>1, <1>3, <1>4, <1>6, <3>1
    <2>3. QED
      BY <1>2, <1>7, <2>1, <2>2 DEF SoundRequest
  <1>11. \A i \in DOMAIN new : new[i].on = lines \/ (i \in DOMAIN old /\ new[i] = old[i])
    BY <1>4, <1>6
  <1>12. QED
    BY <1>7, <1>8, <1>9, <1>10, <1>11 DEF r2, old

\* A request that is approved has enough approvals.
LEMMA ApprovedCount ==
    ASSUME NEW r, SoundRequest(r), r.status = "Approved"
    PROVE  approval_count(r.decisions) >= r.requirement.min_approvals
  BY DEF SoundRequest, StatusOf

\* What the policy asks for is one of two requirements.
LEMMA RequirementAsked ==
    ASSUME NEW roles, NEW lines
    PROVE  /\ approval_requirement(roles, lines) \in Requirements \cup {None}
           /\ high_value(lines) /\ approval_requirement(roles, lines) # None =>
                 approval_requirement(roles, lines).required_roles = {"Owner"}
  <1>1. RequiredFrom({"Owner"}).required_roles = {"Owner"}
    BY DEF RequiredFrom
  <1>2. QED
    BY <1>1 DEF approval_requirement, Requirements

-----------------------------------------------------------------------------
(* Calls.                                                                  *)

\* What a call under way holds, by the step it is at.
LEMMA CallKinds ==
    ASSUME NEW call \in Call
    PROVE  /\ call # Idle => /\ call.id \in EntryIds
                             /\ call.request \in ApprovalRequest \cup {None}
           /\ call.step \in {"save_entry", "save_request"} =>
                 call # Idle /\ call \in SaveCall /\ call.entry \in Entry
           /\ call.step = "read_entry" =>
                 /\ call # Idle /\ call \in ReadCall /\ call.request \in ApprovalRequest
                 /\ call.actor \in Users /\ call.vote \in ApprovalVote
           /\ call # Idle => \/ call.step \in {"save_entry", "save_request"}
                             \/ call.step = "read_entry"
  <1>1. CASE call = Idle
    BY <1>1 DEF Idle
  <1>2. CASE call \in SaveCall
    BY <1>2 DEF SaveCall, Idle
  <1>3. CASE call \in ReadCall
    BY <1>3 DEF ReadCall, Idle
  <1>4. QED
    BY <1>1, <1>2, <1>3 DEF Call

\* The part of CopiesSound about one call, one stored request, one entry.
CallSound(call) ==
    /\ call \in Call
    /\ call # Idle /\ call.request # None =>
          SoundRequest(call.request) /\ call.request.requirement \in Requirements
    /\ call.step \in {"save_entry", "save_request"} => validate(call.entry.lines)
    /\ call.step = "save_request" => call.request # None

StoredRequestSound(r) ==
    /\ r \in ApprovalRequest \cup {None}
    /\ r # None => SoundRequest(r) /\ r.requirement \in Requirements

StoredEntryValid(entry) ==
    /\ entry \in Entry \cup {None}
    /\ entry # None => validate(entry.lines)

LEMMA CopiesSoundParts ==
    CopiesSound <=>
        /\ TypeOK
        /\ \A c \in Callers : CallSound(calls[c])
        /\ \A e \in EntryIds : StoredRequestSound(requests[e]) /\ StoredEntryValid(entries[e])
  BY DEF CopiesSound, RequestsSound, TypeOK, Busy, Saving, CallSound, StoredRequestSound,
     StoredEntryValid

LEMMA IdleSound == CallSound(Idle)
  BY DEF CallSound, Call, Idle

\* A step that changes one call and nothing it was made of.
LEMMA CallStepSound ==
    ASSUME CopiesSound, NEW c \in Callers, NEW call, CallSound(call),
           calls' = [calls EXCEPT ![c] = call],
           UNCHANGED <<members, entries, requests, grounds>>,
           submitted' \in [EntryIds -> 0 .. MaxSubmissions], disturbed' \in BOOLEAN
    PROVE  CopiesSound'
  <1>1. TypeOK /\ \A d \in Callers : CallSound(calls[d])
    BY CopiesSoundParts
  <1>2. TypeOK'
    BY <1>1 DEF TypeOK, CallSound
  <1>3. \A d \in Callers : CallSound(calls'[d])
    BY <1>1 DEF TypeOK
  <1>4. \A e \in EntryIds : StoredRequestSound(requests[e]) /\ StoredEntryValid(entries[e])
    BY CopiesSoundParts
  <1>5. /\ TypeOK'
        /\ \A d \in Callers : CallSound(calls'[d])
        /\ \A e \in EntryIds : StoredRequestSound(requests'[e]) /\ StoredEntryValid(entries'[e])
    BY <1>2, <1>3, <1>4
  <1>6. CopiesSound' <=>
          /\ TypeOK'
          /\ \A d \in Callers : CallSound(calls'[d])
          /\ \A e \in EntryIds : StoredRequestSound(requests'[e]) /\ StoredEntryValid(entries'[e])
    BY DEF CopiesSound, RequestsSound, TypeOK, Busy, Saving, CallSound, StoredRequestSound,
       StoredEntryValid
  <1>7. QED
    BY <1>5, <1>6

\* The call that submit_entry leaves to be saved.
LEMMA SubmissionSound ==
    ASSUME NEW id \in EntryIds, NEW actor \in Users, NEW lines \in Drafts, validate(lines),
           NEW requirement \in Requirements \cup {None}
    PROVE  /\ CallSound(Submission(id, actor, lines, requirement))
           /\ Submission(id, actor, lines, requirement).id = id
           /\ Submission(id, actor, lines, requirement).step = "save_entry"
           /\ EntryOf(Submission(id, actor, lines, requirement).entry, actor, lines)
           /\ Submission(id, actor, lines, requirement).entry.status =
                 IF requirement = None THEN "Posted" ELSE "PendingApproval"
           /\ Submission(id, actor, lines, requirement).request =
                 IF requirement = None THEN None ELSE NewRequest(actor, requirement)
  <1> DEFINE call == Submission(id, actor, lines, requirement)
             entry == [created_by |-> actor, lines |-> lines,
                       status |-> IF requirement = None THEN "Posted" ELSE "PendingApproval"]
             request == IF requirement = None THEN None ELSE NewRequest(actor, requirement)
  <1>1. entry \in Entry /\ entry.lines = lines /\ entry.created_by = actor
        /\ entry.status = IF requirement = None THEN "Posted" ELSE "PendingApproval"
    BY DEF Entry, JournalStatus
  <1>2. /\ request \in ApprovalRequest \cup {None}
        /\ request # None => SoundRequest(request) /\ request.requirement \in Requirements
    BY NewRequestSound
  <1>3. call = [step |-> "save_entry", id |-> id, entry |-> entry, request |-> request]
    BY DEF Submission
  <1> HIDE DEF entry, request
  <1>4. /\ call \in SaveCall /\ call.step = "save_entry" /\ call.id = id
        /\ call.entry = entry /\ call.request = request
    BY <1>1, <1>2, <1>3 DEF SaveCall
  <1> HIDE DEF call
  <1>5. CallSound(call)
    BY <1>1, <1>2, <1>4 DEF CallSound, Call
  <1>6. QED
    BY <1>1, <1>4, <1>5 DEF call, request, EntryOf

LEMMA SubmitSound ==
    ASSUME CopiesSound, NEW c \in Callers, NEW actor \in Users, NEW id \in EntryIds,
           NEW lines \in Drafts, submit_entry(c, actor, id, lines)
    PROVE  CopiesSound'
  <1> DEFINE requirement == approval_requirement(roles_for(actor), lines)
             call == Submission(id, actor, lines, requirement)
  <1>1. requirement \in Requirements \cup {None}
    BY RequirementAsked
  <1>2. /\ validate(lines) /\ submitted[id] < MaxSubmissions
        /\ calls' = [calls EXCEPT ![c] = call]
        /\ submitted' = [submitted EXCEPT ![id] = @ + 1]
        /\ disturbed' = (disturbed \/ ~Alone)
        /\ UNCHANGED <<members, entries, requests, grounds>>
    BY DEF submit_entry
  <1> HIDE DEF requirement
  <1>3. CallSound(call)
    BY <1>1, <1>2, SubmissionSound
  <1>4. submitted' \in [EntryIds -> 0 .. MaxSubmissions]
    BY <1>2, JournalConstants DEF CopiesSound, TypeOK
  <1>5. disturbed' \in BOOLEAN
    BY <1>2 DEF CopiesSound, TypeOK
  <1> HIDE DEF call
  <1>6. QED
    BY <1>2, <1>3, <1>4, <1>5, CallStepSound

LEMMA ReadSound ==
    ASSUME CopiesSound, NEW c \in Callers, NEW actor \in Users, NEW id \in EntryIds,
           NEW vote \in ApprovalVote, read_request(c, actor, id, vote)
    PROVE  CopiesSound'
  <1> DEFINE call == [step |-> "read_entry", id |-> id, actor |-> actor,
                      vote |-> vote, request |-> requests[id]]
  <1>1. /\ requests[id] # None /\ calls' = [calls EXCEPT ![c] = call]
        /\ disturbed' = (disturbed \/ ~Alone)
        /\ UNCHANGED <<members, entries, requests, grounds, submitted>>
    BY DEF read_request
  <1>2. StoredRequestSound(requests[id])
    BY CopiesSoundParts
  <1>3. call \in ReadCall /\ call.request = requests[id] /\ call.step = "read_entry"
    BY <1>1, <1>2 DEF ReadCall, StoredRequestSound
  <1> HIDE DEF call
  <1>4. CallSound(call)
    BY <1>2, <1>3 DEF CallSound, Call, StoredRequestSound
  <1>5. submitted' \in [EntryIds -> 0 .. MaxSubmissions] /\ disturbed' \in BOOLEAN
    BY <1>1 DEF CopiesSound, TypeOK
  <1>6. QED
    BY <1>1, <1>4, <1>5, CallStepSound

\* The decision on the request that a call has read, and what is known of it.
DecisionOf(c) ==
    [approver |-> calls[c].actor,
     role |-> accepted_role(calls[c].request.requirement, roles_for(calls[c].actor)),
     vote |-> calls[c].vote, on |-> entries[calls[c].id].lines]

DecidedCall(c) ==
    LET decided == add_decision(calls[c].request, DecisionOf(c))
    IN  [step |-> "save_entry", id |-> calls[c].id,
         entry |-> EntryAfter(entries[calls[c].id], decided), request |-> decided]

LEMMA DecidedCallSound ==
    ASSUME CopiesSound, NEW c \in Callers, decide_approval(c)
    PROVE  /\ calls' = [calls EXCEPT ![c] = DecidedCall(c)]
           /\ CallSound(DecidedCall(c))
           /\ Busy(c) /\ calls[c].step = "read_entry" /\ calls[c].id \in EntryIds
           /\ calls[c].request \in ApprovalRequest /\ SoundRequest(calls[c].request)
           /\ calls[c].request.status = "Pending"
           /\ entries[calls[c].id] # None /\ entries[calls[c].id] \in Entry
           /\ DecidedCall(c).id = calls[c].id /\ DecidedCall(c).step = "save_entry"
           /\ DecidedCall(c).request \in ApprovalRequest
           /\ SoundRequest(DecidedCall(c).request)
           /\ DecidedCall(c).request.requirement = calls[c].request.requirement
           /\ DecidedCall(c).request.submitted_by = calls[c].request.submitted_by
           /\ \A i \in DOMAIN DecidedCall(c).request.decisions :
                 \/ DecidedCall(c).request.decisions[i].on = entries[calls[c].id].lines
                 \/ /\ i \in DOMAIN calls[c].request.decisions
                    /\ DecidedCall(c).request.decisions[i] = calls[c].request.decisions[i]
           /\ DecidedCall(c).entry.lines = entries[calls[c].id].lines
           /\ DecidedCall(c).entry.created_by = entries[calls[c].id].created_by
           /\ DecidedCall(c).entry.status =
                 CASE DecidedCall(c).request.status = "Approved" -> "Posted"
                   [] DecidedCall(c).request.status = "Rejected" -> "Rejected"
                   [] DecidedCall(c).request.status = "Pending" -> entries[calls[c].id].status
  <1> DEFINE call == calls[c]
             id == call.id
             r == call.request
             entry == entries[id]
             d == DecisionOf(c)
             r2 == add_decision(r, d)
             entry2 == EntryAfter(entry, r2)
             call2 == [step |-> "save_entry", id |-> id, entry |-> entry2, request |-> r2]
  <1>1. /\ call.step = "read_entry" /\ entry # None /\ Acceptable(r, call.actor)
        /\ calls' = [calls EXCEPT ![c] = call2]
    BY DEF decide_approval, DecisionOf
  <1>2. CallSound(call) /\ call \in Call
    BY CopiesSoundParts DEF CallSound
  <1>3. /\ call # Idle /\ id \in EntryIds /\ r \in ApprovalRequest
        /\ call.actor \in Users /\ call.vote \in ApprovalVote
    BY <1>1, <1>2, CallKinds
  <1>4. SoundRequest(r) /\ r.requirement \in Requirements
    BY <1>2, <1>3, NoDocument DEF CallSound
  <1>5. entry \in Entry /\ validate(entry.lines) /\ entry.lines \in Drafts
    <2>1. StoredEntryValid(entry)
      BY <1>3, CopiesSoundParts
    <2>2. QED
      BY <1>1, <2>1 DEF StoredEntryValid, Entry
  <1>6. d = [approver |-> call.actor,
             role |-> accepted_role(r.requirement, roles_for(call.actor)),
             vote |-> call.vote, on |-> entry.lines]
    BY DEF DecisionOf
  <1> HIDE DEF d
  <1>7. /\ r2 \in ApprovalRequest /\ SoundRequest(r2)
        /\ r2.requirement = r.requirement /\ r2.submitted_by = r.submitted_by
        /\ \A i \in DOMAIN r2.decisions :
              \/ r2.decisions[i].on = entry.lines
              \/ i \in DOMAIN r.decisions /\ r2.decisions[i] = r.decisions[i]
        /\ r.status = "Pending"
    <2> DEFINE lines == entry.lines
               actor == call.actor
               vote == call.vote
    <2>1. /\ r \in ApprovalRequest /\ SoundRequest(r) /\ r.requirement \in Requirements
          /\ actor \in Users /\ Acceptable(r, actor) /\ vote \in ApprovalVote
          /\ lines \in Drafts
          /\ d = [approver |-> actor,
                  role |-> accepted_role(r.requirement, roles_for(actor)),
                  vote |-> vote, on |-> lines]
      BY <1>1, <1>3, <1>4, <1>5, <1>6
    <2> HIDE DEF lines, actor, vote, r
    <2>2. QED
      BY <2>1, DecidedSound DEF lines
  <1>8. r2.status \in ApprovalStatus
    BY <1>7 DEF ApprovalRequest
  <1> HIDE DEF r2
  <1>9. /\ entry2 \in Entry /\ entry2.lines = entry.lines /\ entry2.created_by = entry.created_by
        /\ entry2.status = CASE r2.status = "Approved" -> "Posted"
                             [] r2.status = "Rejected" -> "Rejected"
                             [] r2.status = "Pending" -> entry.status
    BY <1>5, <1>8 DEF EntryAfter, Entry, JournalStatus, ApprovalStatus
  <1> HIDE DEF entry2
  <1>10. /\ call2 \in SaveCall /\ call2.request = r2 /\ call2.entry = entry2
         /\ call2.step = "save_entry" /\ call2.id = id
    BY <1>3, <1>7, <1>9 DEF SaveCall
  <1>11. DecidedCall(c) = call2
    BY DEF DecidedCall, d, r2, entry2
  <1> HIDE DEF call2
  <1>12. CallSound(call2)
    BY <1>4, <1>5, <1>7, <1>9, <1>10 DEF CallSound, Call
  <1>13. Busy(c)
    BY <1>3 DEF Busy
  <1>14. calls' = [calls EXCEPT ![c] = call2]
    BY <1>1 DEF call2, entry2, r2, d
  <1> DEFINE n == DecidedCall(c)
  <1>15. /\ n = call2 /\ n.request = r2 /\ n.entry = entry2 /\ n.id = id /\ n.step = "save_entry"
    BY <1>10, <1>11
  <1> HIDE DEF n
  <1>16. /\ n.request.requirement = r.requirement /\ n.request.submitted_by = r.submitted_by
         /\ SoundRequest(n.request) /\ n.request \in ApprovalRequest
         /\ \A i \in DOMAIN n.request.decisions :
              \/ n.request.decisions[i].on = entry.lines
              \/ i \in DOMAIN r.decisions /\ n.request.decisions[i] = r.decisions[i]
    BY <1>7, <1>15
  <1>17. /\ n.entry.lines = entry.lines /\ n.entry.created_by = entry.created_by
         /\ n.entry.status = CASE n.request.status = "Approved" -> "Posted"
                               [] n.request.status = "Rejected" -> "Rejected"
                               [] n.request.status = "Pending" -> entry.status
    BY <1>9, <1>15
  <1>18. CallSound(n) /\ calls' = [calls EXCEPT ![c] = n]
    BY <1>12, <1>14, <1>15
  <1>19. QED
    BY <1>1, <1>3, <1>4, <1>5, <1>7, <1>13, <1>15, <1>16, <1>17, <1>18 DEF n

LEMMA DecideSound ==
    ASSUME CopiesSound, NEW c \in Callers, decide_approval(c)
    PROVE  CopiesSound'
  <1>1. calls' = [calls EXCEPT ![c] = DecidedCall(c)] /\ CallSound(DecidedCall(c))
    BY DecidedCallSound
  <1>2. UNCHANGED <<members, entries, requests, grounds, submitted, disturbed>>
    BY DEF decide_approval
  <1>3. submitted' \in [EntryIds -> 0 .. MaxSubmissions] /\ disturbed' \in BOOLEAN
    BY <1>2 DEF CopiesSound, TypeOK
  <1>4. QED
    BY <1>1, <1>2, <1>3, CallStepSound

\* The end of a call that saves nothing more.
LEMMA EndSound ==
    ASSUME CopiesSound, NEW c \in Callers, decide_refused(c) \/ fail(c)
    PROVE  CopiesSound'
  <1>1. /\ calls' = [calls EXCEPT ![c] = Idle]
        /\ UNCHANGED <<members, entries, requests, grounds, submitted>>
        /\ disturbed' \in BOOLEAN
    BY DEF decide_refused, fail, CopiesSound, TypeOK
  <1>2. submitted' \in [EntryIds -> 0 .. MaxSubmissions]
    BY <1>1 DEF CopiesSound, TypeOK
  <1>3. QED
    BY <1>1, <1>2, IdleSound, CallStepSound

\* The call after it has saved its entry.
AfterEntry(c) ==
    IF calls[c].request = None THEN Idle ELSE [calls[c] EXCEPT !.step = "save_request"]

LEMMA AfterEntryKeeps ==
    ASSUME CopiesSound, NEW c \in Callers, calls[c].step = "save_entry"
    PROVE  /\ calls[c] \in SaveCall /\ Busy(c) /\ Saving(c)
           /\ calls[c].id \in EntryIds /\ calls[c].entry \in Entry
           /\ calls[c].request \in ApprovalRequest \cup {None}
           /\ validate(calls[c].entry.lines)
           /\ CallSound(AfterEntry(c))
           /\ calls[c].request # None =>
                 /\ AfterEntry(c).step = "save_request" /\ AfterEntry(c) # Idle
                 /\ AfterEntry(c).id = calls[c].id /\ AfterEntry(c).entry = calls[c].entry
                 /\ AfterEntry(c).request = calls[c].request
  <1> DEFINE call == calls[c]
  <1>1. CallSound(call)
    BY CopiesSoundParts
  <1>2. /\ call # Idle /\ call \in SaveCall /\ call.entry \in Entry /\ call.id \in EntryIds
        /\ call.request \in ApprovalRequest \cup {None}
    BY <1>1, CallKinds DEF CallSound
  <1>3. validate(call.entry.lines)
    BY <1>1 DEF CallSound
  <1>4. CASE call.request = None
    BY <1>2, <1>3, <1>4, IdleSound DEF AfterEntry, Busy, Saving
  <1>5. CASE call.request # None
    <2> DEFINE next == [call EXCEPT !.step = "save_request"]
    <2>1. /\ next \in SaveCall /\ next.step = "save_request" /\ next.id = call.id
          /\ next.entry = call.entry /\ next.request = call.request
      BY <1>2 DEF SaveCall
    <2>2. AfterEntry(c) = next
      BY <1>5 DEF AfterEntry
    <2> HIDE DEF next
    <2>3. SoundRequest(call.request) /\ call.request.requirement \in Requirements
      BY <1>1, <1>2, <1>5 DEF CallSound
    <2>4. CallSound(next)
      BY <1>3, <1>5, <2>1, <2>3 DEF CallSound, Call
    <2>5. next # Idle
      BY <2>1 DEF Idle
    <2>6. QED
      BY <1>2, <1>3, <2>1, <2>2, <2>4, <2>5 DEF Busy, Saving
  <1>6. QED
    BY <1>4, <1>5

LEMMA SaveEntryEffect ==
    ASSUME CopiesSound, NEW c \in Callers, save_journal_entry(c)
    PROVE  /\ calls[c].step = "save_entry"
           /\ entries' = [entries EXCEPT ![calls[c].id] = calls[c].entry]
           /\ calls' = [calls EXCEPT ![c] = AfterEntry(c)]
           /\ \/ /\ calls[c].request # None /\ calls[c].request.status = "Approved"
                 /\ grounds' = [grounds EXCEPT ![calls[c].id] = calls[c].request.decisions]
              \/ /\ ~(calls[c].request # None /\ calls[c].request.status = "Approved")
                 /\ grounds' = grounds
           /\ UNCHANGED <<members, requests, submitted, disturbed>>
  BY DEF save_journal_entry, AfterEntry

LEMMA SaveEntrySound ==
    ASSUME CopiesSound, NEW c \in Callers, save_journal_entry(c)
    PROVE  CopiesSound'
  <1>1. /\ calls[c].step = "save_entry"
        /\ entries' = [entries EXCEPT ![calls[c].id] = calls[c].entry]
        /\ calls' = [calls EXCEPT ![c] = AfterEntry(c)]
        /\ UNCHANGED <<members, requests, submitted, disturbed>>
    BY SaveEntryEffect
  <1>2. /\ calls[c].id \in EntryIds /\ calls[c].entry \in Entry
        /\ calls[c].request \in ApprovalRequest \cup {None}
        /\ validate(calls[c].entry.lines) /\ CallSound(AfterEntry(c))
    BY <1>1, AfterEntryKeeps
  <1>3. TypeOK /\ \A d \in Callers : CallSound(calls[d])
    BY CopiesSoundParts
  <1>4. grounds' \in [EntryIds -> Seq(Decision)]
    <2>1. grounds \in [EntryIds -> Seq(Decision)]
      BY <1>3 DEF TypeOK
    <2>2. CASE /\ calls[c].request # None
               /\ grounds' = [grounds EXCEPT ![calls[c].id] = calls[c].request.decisions]
      <3>1. calls[c].request.decisions \in Seq(Decision)
        BY <1>2, <2>2 DEF ApprovalRequest
      <3>2. QED
        BY <1>2, <2>1, <2>2, <3>1
    <2>3. QED
      BY <2>1, <2>2, SaveEntryEffect
  <1>5. TypeOK'
    <2>1. calls' \in [Callers -> Call]
      BY <1>1, <1>2, <1>3 DEF TypeOK, CallSound
    <2>2. entries' \in [EntryIds -> Entry \cup {None}]
      BY <1>1, <1>2, <1>3 DEF TypeOK
    <2>3. QED
      BY <1>1, <1>3, <1>4, <2>1, <2>2 DEF TypeOK
  <1>6. \A d \in Callers : CallSound(calls'[d])
    BY <1>1, <1>2, <1>3 DEF TypeOK
  <1>7. \A e \in EntryIds : StoredEntryValid(entries'[e])
    <2>1. StoredEntryValid(calls[c].entry)
      BY <1>2 DEF StoredEntryValid
    <2>2. \A e \in EntryIds : StoredEntryValid(entries[e])
      BY CopiesSoundParts
    <2>3. QED
      BY <1>1, <1>2, <1>3, <2>1, <2>2 DEF TypeOK
  <1>8. \A e \in EntryIds : StoredRequestSound(requests'[e])
    BY <1>1, CopiesSoundParts
  <1>9. QED
    BY <1>5, <1>6, <1>7, <1>8 DEF CopiesSound, RequestsSound, TypeOK, Busy, Saving, CallSound,
       StoredRequestSound, StoredEntryValid

\* What the second save stores.
LEMMA SaveRequestHolds ==
    ASSUME CopiesSound, NEW c \in Callers, calls[c].step = "save_request"
    PROVE  /\ Busy(c) /\ Saving(c) /\ calls[c].id \in EntryIds
           /\ calls[c].request \in ApprovalRequest /\ calls[c].request # None
           /\ calls[c].entry \in Entry
           /\ StoredRequestSound(calls[c].request)
  <1>1. CallSound(calls[c])
    BY CopiesSoundParts
  <1>2. /\ calls[c] # Idle /\ calls[c].id \in EntryIds /\ calls[c].request # None
        /\ calls[c].request \in ApprovalRequest \cup {None} /\ calls[c].entry \in Entry
    BY <1>1, CallKinds DEF CallSound
  <1>3. QED
    BY <1>1, <1>2 DEF CallSound, StoredRequestSound, Busy, Saving

LEMMA SaveRequestSound ==
    ASSUME CopiesSound, NEW c \in Callers, save_approval_request(c)
    PROVE  CopiesSound'
  <1>1. /\ calls[c].step = "save_request"
        /\ requests' = [requests EXCEPT ![calls[c].id] = calls[c].request]
        /\ calls' = [calls EXCEPT ![c] = Idle]
        /\ UNCHANGED <<members, entries, grounds, submitted, disturbed>>
    BY DEF save_approval_request
  <1>2. /\ calls[c].id \in EntryIds /\ calls[c].request \in ApprovalRequest
        /\ StoredRequestSound(calls[c].request)
    BY <1>1, SaveRequestHolds
  <1>3. TypeOK /\ \A d \in Callers : CallSound(calls[d])
    BY CopiesSoundParts
  <1>4. TypeOK'
    <2>1. calls' \in [Callers -> Call]
      BY <1>1, <1>3 DEF TypeOK, Call
    <2>2. QED
      BY <1>1, <1>2, <1>3, <2>1 DEF TypeOK
  <1>5. \A d \in Callers : CallSound(calls'[d])
    BY <1>1, <1>3, IdleSound DEF TypeOK
  <1>6. \A e \in EntryIds : StoredRequestSound(requests'[e])
    BY <1>1, <1>2, <1>3, CopiesSoundParts DEF TypeOK
  <1>7. \A e \in EntryIds : StoredEntryValid(entries'[e])
    BY <1>1, CopiesSoundParts
  <1>8. QED
    BY <1>4, <1>5, <1>6, <1>7 DEF CopiesSound, RequestsSound, TypeOK, Busy, Saving, CallSound,
       StoredRequestSound, StoredEntryValid

LEMMA MemberSound ==
    ASSUME CopiesSound, NEW m \in NewMembers, save_member(m)
    PROVE  CopiesSound'
  <1>1. TypeOK'
    BY JournalConstants DEF CopiesSound, TypeOK, save_member
  <1>2. UNCHANGED <<entries, requests, calls, grounds, submitted, disturbed>>
    BY DEF save_member
  <1>3. QED
    BY <1>1, <1>2 DEF CopiesSound, RequestsSound, Busy, Saving

LEMMA StepSound ==
    ASSUME CopiesSound, [Next]_vars
    PROVE  CopiesSound'
  <1>1. CASE UNCHANGED vars
    BY <1>1 DEF vars, CopiesSound, RequestsSound, TypeOK, Busy, Saving
  <1>2. CASE Next
    BY <1>2, SubmitSound, ReadSound, DecideSound, EndSound, SaveEntrySound, SaveRequestSound,
       MemberSound DEF Next
  <1>3. QED
    BY <1>1, <1>2

(***************************************************************************)
(* However calls overlap, fail and repeat, every stored or held copy of a  *)
(* request is sound and every copy of an entry is valid.                   *)
(***************************************************************************)
THEOREM CopiesAlwaysSound == Spec => []CopiesSound
  <1>1. Init => CopiesSound
    <2> SUFFICES ASSUME Init PROVE CopiesSound
      OBVIOUS
    <2>1. TypeOK
      <3>1. InitialMembers \subseteq Member /\ MaxSubmissions \in Nat
        BY JournalConstants
      <3>2. 0 \in 0 .. MaxSubmissions
        BY <3>1
      <3>3. <<>> \in Seq(Decision) /\ Idle \in Call
        BY DEF Call
      <3>4. grounds \in [EntryIds -> Seq(Decision)] /\ calls \in [Callers -> Call]
        BY <3>3 DEF Init
      <3>5. QED
        BY <3>1, <3>2, <3>4 DEF Init, TypeOK
    <2>2. \A c \in Callers : calls[c] = Idle
      BY DEF Init
    <2>3. \A c \in Callers : CallSound(calls[c])
      BY <2>2, IdleSound
    <2>4. \A e \in EntryIds : requests[e] = None /\ entries[e] = None
      BY DEF Init
    <2>5. \A e \in EntryIds : StoredRequestSound(requests[e]) /\ StoredEntryValid(entries[e])
      BY <2>4 DEF StoredRequestSound, StoredEntryValid
    <2>6. QED
      BY <2>1, <2>3, <2>5, CopiesSoundParts
  <1>2. CopiesSound /\ [Next]_vars => CopiesSound'
    BY StepSound
  <1>3. QED
    BY <1>1, <1>2, PTL DEF Spec

(***************************************************************************)
(* The decisions of a request always come from different people, none of   *)
(* them the submitter and each in a required role, and its status is what  *)
(* they amount to.                                                         *)
(***************************************************************************)
THEOREM RequestsAlwaysSound == Spec => []RequestsSound
  <1>1. CopiesSound => RequestsSound
    BY DEF CopiesSound
  <1>2. QED
    BY <1>1, CopiesAlwaysSound, PTL

-----------------------------------------------------------------------------
(* One submission, one story.                                              *)

\* Memberships are only added, so nobody loses a role.
LEMMA RolesGrow ==
    ASSUME members \subseteq members', NEW u
    PROVE  roles_for(u) \subseteq roles_for(u)'
  BY DEF roles_for

\* Who needs no approval for these lines never needs one later.
LEMMA NoRequirementKept ==
    ASSUME NEW lines, NEW old, NEW new, old \subseteq new,
           approval_requirement(old, lines) = None
    PROVE  approval_requirement(new, lines) = None
  BY DEF approval_requirement

LEMMA GroundsKept ==
    ASSUME NEW e, NEW u, NEW lines, NEW requirement, GoodGrounds(e, u, lines, requirement),
           requests[e] # None => requests'[e] # None, grounds'[e] = grounds[e]
    PROVE  GoodGrounds(e, u, lines, requirement)'
  BY DEF GoodGrounds

LEMMA CallOfKept ==
    ASSUME NEW e, NEW u, NEW lines, NEW requirement, NEW d \in Callers,
           CallOf(d, e, u, lines, requirement), calls'[d] = calls[d],
           requests[e] # None => requests'[e] # None,
           GoodGrounds(e, u, lines, requirement) => GoodGrounds(e, u, lines, requirement)'
    PROVE  CallOf(d, e, u, lines, requirement)'
  BY DEF CallOf, Saving

\* The policy part of a story, which only the memberships can touch.
Asked(u, lines, requirement) ==
    /\ requirement = None => approval_requirement(roles_for(u), lines) = None
    /\ requirement # None /\ high_value(lines) => requirement.required_roles = {"Owner"}

EntryStory(e, u, lines, requirement) ==
    entries[e] # None =>
        /\ EntryOf(entries[e], u, lines)
        /\ entries[e].status = "Posted" =>
              requirement = None \/ GoodGrounds(e, u, lines, requirement)

RequestStory(e, u, lines, requirement) ==
    requests[e] # None => requirement # None /\ RequestOf(requests[e], u, lines, requirement)

CallStory(c, e, u, lines, requirement) ==
    Busy(c) /\ calls[c].id = e => CallOf(c, e, u, lines, requirement)

LEMMA StoryParts ==
    ASSUME NEW e, NEW u, NEW lines, NEW requirement
    PROVE  Story(e, u, lines, requirement) <=>
              /\ Asked(u, lines, requirement)
              /\ EntryStory(e, u, lines, requirement)
              /\ RequestStory(e, u, lines, requirement)
              /\ \A c \in Callers : CallStory(c, e, u, lines, requirement)
  BY DEF Story, Asked, EntryStory, RequestStory, CallStory

LEMMA StoryPartsNext ==
    ASSUME NEW e, NEW u, NEW lines, NEW requirement
    PROVE  Story(e, u, lines, requirement)' <=>
              /\ Asked(u, lines, requirement)'
              /\ EntryStory(e, u, lines, requirement)'
              /\ RequestStory(e, u, lines, requirement)'
              /\ \A c \in Callers : CallStory(c, e, u, lines, requirement)'
  BY DEF Story, Asked, EntryStory, RequestStory, CallStory

LEMMA AskedKept ==
    ASSUME NEW u, NEW lines, NEW requirement, Asked(u, lines, requirement),
           members \subseteq members'
    PROVE  Asked(u, lines, requirement)'
  <1>1. roles_for(u) \subseteq roles_for(u)'
    BY RolesGrow
  <1>2. requirement = None => approval_requirement(roles_for(u)', lines) = None
    BY <1>1, NoRequirementKept DEF Asked
  <1>3. (approval_requirement(roles_for(u), lines) = None)'
          <=> approval_requirement(roles_for(u)', lines) = None
    BY DEF approval_requirement, RequiredFrom, high_value
  <1>4. high_value(lines)' <=> high_value(lines)
    BY DEF high_value
  <1>5. QED
    BY <1>2, <1>3, <1>4 DEF Asked

\* A step of c that changes its call, and nothing that is stored.
LEMMA CallStepStory ==
    ASSUME NEW c \in Callers, NEW call,
           calls \in [Callers -> Call],
           calls' = [calls EXCEPT ![c] = call],
           UNCHANGED <<members, entries, requests, grounds>>,
           NEW e \in EntryIds, NEW u, NEW lines, NEW requirement,
           Story(e, u, lines, requirement),
           CallStory(c, e, u, lines, requirement)'
    PROVE  Story(e, u, lines, requirement)'
  <1>1. Asked(u, lines, requirement)'
    BY StoryParts, AskedKept
  <1>2. GoodGrounds(e, u, lines, requirement) => GoodGrounds(e, u, lines, requirement)'
    BY GroundsKept
  <1>3. EntryStory(e, u, lines, requirement)'
    <2>1. EntryStory(e, u, lines, requirement)
      BY StoryParts
    <2>2. QED
      BY <1>2, <2>1 DEF EntryStory, EntryOf
  <1>4. RequestStory(e, u, lines, requirement)'
    <2>1. RequestStory(e, u, lines, requirement)
      BY StoryParts
    <2>2. QED
      BY <2>1 DEF RequestStory, RequestOf
  <1>5. ASSUME NEW d \in Callers
        PROVE  CallStory(d, e, u, lines, requirement)'
    <2>1. CASE d = c
      BY <2>1
    <2>2. CASE d # c
      <3>1. calls'[d] = calls[d]
        BY <2>2
      <3>2. CallStory(d, e, u, lines, requirement)
        BY StoryParts
      <3>3. CASE Busy(d) /\ calls[d].id = e
        <4>1. CallOf(d, e, u, lines, requirement)'
          BY <1>2, <3>1, <3>2, <3>3, CallOfKept DEF CallStory
        <4>2. QED
          BY <4>1 DEF CallStory
      <3>4. CASE ~(Busy(d) /\ calls[d].id = e)
        BY <3>1, <3>4 DEF CallStory, Busy
      <3>5. QED
        BY <3>3, <3>4
    <2>3. QED
      BY <2>1, <2>2
  <1>6. QED
    BY <1>1, <1>3, <1>4, <1>5, StoryPartsNext

\* The first submission of an id begins its story.
LEMMA SubmitBegins ==
    ASSUME CopiesSound, NEW c \in Callers, NEW actor \in Users, NEW id \in EntryIds,
           NEW lines \in Drafts, submit_entry(c, actor, id, lines), Unused(id)
    PROVE  \E requirement \in Requirements \cup {None} : Story(id, actor, lines, requirement)'
  <1> DEFINE requirement == approval_requirement(roles_for(actor), lines)
             call == Submission(id, actor, lines, requirement)
  <1>1. /\ validate(lines) /\ calls' = [calls EXCEPT ![c] = call]
        /\ UNCHANGED <<members, entries, requests, grounds>>
    BY DEF submit_entry
  <1>2. PICK R \in Requirements \cup {None} : R = requirement
    BY RequirementAsked
  <1>3. /\ high_value(lines) /\ R # None => R.required_roles = {"Owner"}
    BY <1>2, RequirementAsked
  <1>4. Asked(actor, lines, R)
    BY <1>2, <1>3 DEF Asked
  <1> HIDE DEF requirement
  <1>5. /\ call.step = "save_entry" /\ call.id = id /\ EntryOf(call.entry, actor, lines)
        /\ call.entry.status = IF R = None THEN "Posted" ELSE "PendingApproval"
        /\ call.request = IF R = None THEN None ELSE NewRequest(actor, R)
    BY <1>1, <1>2, SubmissionSound
  <1> HIDE DEF call
  <1>6. calls \in [Callers -> Call] /\ calls'[c] = call
    BY <1>1 DEF CopiesSound, TypeOK
  <1>7. CallOf(c, id, actor, lines, R)'
    <2>1. CASE R = None
      BY <1>5, <1>6, <2>1 DEF CallOf, Saving, EntryOf
    <2>2. CASE R # None
      <3>1. R \in Requirements
        BY <2>2
      <3>2. /\ call.request = NewRequest(actor, R) /\ call.request \in ApprovalRequest
            /\ call.request.submitted_by = actor /\ call.request.requirement = R
            /\ call.request.status = "Pending" /\ DOMAIN call.request.decisions = {}
        BY <1>5, <2>2, <3>1, NewRequestSound
      <3>3. RequestOf(call.request, actor, lines, R)
        BY <3>2 DEF RequestOf
      <3>4. QED
        BY <1>5, <1>6, <2>2, <3>2, <3>3, NoDocument DEF CallOf, Saving, EntryOf, RequestOf
    <2>3. QED
      BY <2>1, <2>2
  <1>8. \A d \in Callers : CallStory(d, id, actor, lines, R)'
    <2>1. \A d \in Callers : d # c => calls'[d] = calls[d]
      BY <1>1, <1>6
    <2>2. \A d \in Callers : Busy(d) => calls[d].id # id
      BY DEF Unused
    <2>3. \A d \in Callers : d # c => CallStory(d, id, actor, lines, R)'
      BY <2>1, <2>2 DEF CallStory, Busy
    <2>4. QED
      BY <1>7, <2>3 DEF CallStory
  <1>9. Asked(actor, lines, R)'
    BY <1>1, <1>4, AskedKept
  <1>10. EntryStory(id, actor, lines, R)' /\ RequestStory(id, actor, lines, R)'
    BY <1>1 DEF EntryStory, RequestStory, Unused
  <1>11. Story(id, actor, lines, R)'
    BY <1>8, <1>9, <1>10, StoryPartsNext
  <1>12. QED
    BY <1>11

LEMMA SubmitOther ==
    ASSUME CopiesSound, NEW c \in Callers, NEW actor \in Users, NEW id \in EntryIds,
           NEW drafted \in Drafts, submit_entry(c, actor, id, drafted),
           NEW e \in EntryIds, e # id, NEW u, NEW lines, NEW requirement,
           Story(e, u, lines, requirement)
    PROVE  Story(e, u, lines, requirement)'
  <1> DEFINE asked == approval_requirement(roles_for(actor), drafted)
             call == Submission(id, actor, drafted, asked)
  <1>1. /\ validate(drafted) /\ calls' = [calls EXCEPT ![c] = call]
        /\ UNCHANGED <<members, entries, requests, grounds>>
    BY DEF submit_entry
  <1>2. asked \in Requirements \cup {None}
    BY RequirementAsked
  <1> HIDE DEF asked
  <1>3. call.id = id
    BY <1>1, <1>2, SubmissionSound
  <1> HIDE DEF call
  <1>4. calls \in [Callers -> Call] /\ calls'[c] = call
    BY <1>1 DEF CopiesSound, TypeOK
  <1>5. CallStory(c, e, u, lines, requirement)'
    BY <1>3, <1>4 DEF CallStory
  <1>6. QED
    BY <1>1, <1>4, <1>5, CallStepStory

LEMMA ReadStory ==
    ASSUME CopiesSound, NEW c \in Callers, NEW actor \in Users, NEW id \in EntryIds,
           NEW vote \in ApprovalVote, read_request(c, actor, id, vote),
           NEW e \in EntryIds, NEW u, NEW lines, NEW requirement,
           Story(e, u, lines, requirement)
    PROVE  Story(e, u, lines, requirement)'
  <1> DEFINE call == [step |-> "read_entry", id |-> id, actor |-> actor,
                      vote |-> vote, request |-> requests[id]]
  <1>1. /\ requests[id] # None /\ calls' = [calls EXCEPT ![c] = call]
        /\ UNCHANGED <<members, entries, requests, grounds>>
    BY DEF read_request
  <1>2. call.id = id /\ call.step = "read_entry" /\ call.request = requests[id]
    OBVIOUS
  <1> HIDE DEF call
  <1>3. calls \in [Callers -> Call] /\ calls'[c] = call
    BY <1>1 DEF CopiesSound, TypeOK
  <1>4. RequestStory(e, u, lines, requirement)
    BY StoryParts
  <1>5. CASE id = e
    <2>1. requirement # None /\ RequestOf(requests[e], u, lines, requirement)
      BY <1>1, <1>4, <1>5 DEF RequestStory
    <2>2. CallOf(c, e, u, lines, requirement)'
      BY <1>1, <1>2, <1>3, <1>5, <2>1 DEF CallOf, Saving, RequestOf
    <2>3. CallStory(c, e, u, lines, requirement)'
      BY <2>2 DEF CallStory
    <2>4. QED
      BY <1>1, <1>3, <2>3, CallStepStory
  <1>6. CASE id # e
    <2>1. CallStory(c, e, u, lines, requirement)'
      BY <1>2, <1>3, <1>6 DEF CallStory
    <2>2. QED
      BY <1>1, <1>3, <2>1, CallStepStory
  <1>7. QED
    BY <1>5, <1>6

LEMMA DecideStory ==
    ASSUME CopiesSound, NEW c \in Callers, decide_approval(c),
           NEW e \in EntryIds, NEW u, NEW lines, NEW requirement,
           Story(e, u, lines, requirement)
    PROVE  Story(e, u, lines, requirement)'
  <1> DEFINE call == DecidedCall(c)
  <1>1. /\ calls' = [calls EXCEPT ![c] = call]
        /\ call.id = calls[c].id /\ call.step = "save_entry" /\ Busy(c)
        /\ calls[c].step = "read_entry" /\ calls[c].request \in ApprovalRequest
        /\ entries[calls[c].id] # None
        /\ call.request \in ApprovalRequest
        /\ call.request.requirement = calls[c].request.requirement
        /\ call.request.submitted_by = calls[c].request.submitted_by
        /\ call.entry.lines = entries[calls[c].id].lines
        /\ call.entry.created_by = entries[calls[c].id].created_by
    BY DecidedCallSound
  <1>2. \A i \in DOMAIN call.request.decisions :
            \/ call.request.decisions[i].on = entries[calls[c].id].lines
            \/ /\ i \in DOMAIN calls[c].request.decisions
               /\ call.request.decisions[i] = calls[c].request.decisions[i]
    BY DecidedCallSound
  <1>3. call.entry.status = CASE call.request.status = "Approved" -> "Posted"
                              [] call.request.status = "Rejected" -> "Rejected"
                              [] call.request.status = "Pending" -> entries[calls[c].id].status
    BY DecidedCallSound
  <1>4. UNCHANGED <<members, entries, requests, grounds>>
    BY DEF decide_approval
  <1> HIDE DEF call
  <1>5. calls \in [Callers -> Call] /\ calls'[c] = call
    BY <1>1 DEF CopiesSound, TypeOK
  <1>6. CASE calls[c].id = e
    <2>1. CallOf(c, e, u, lines, requirement)
      BY <1>1, <1>6, StoryParts DEF CallStory
    <2>2. /\ requirement # None /\ RequestOf(calls[c].request, u, lines, requirement)
          /\ requests[e] # None
      BY <1>1, <2>1, NoDocument DEF CallOf
    <2>3. /\ EntryOf(entries[e], u, lines)
          /\ entries[e].status = "Posted" =>
                requirement = None \/ GoodGrounds(e, u, lines, requirement)
      BY <1>1, <1>6, StoryParts DEF EntryStory
    <2>4. RequestOf(call.request, u, lines, requirement)
      BY <1>1, <1>2, <1>6, <2>2, <2>3 DEF RequestOf, EntryOf
    <2>5. EntryOf(call.entry, u, lines)
      BY <1>1, <1>6, <2>3 DEF EntryOf
    <2>6. call.request.status \in ApprovalStatus
      BY <1>1 DEF ApprovalRequest
    <2>7. call.entry.status = "Posted" =>
              call.request.status = "Approved" \/ GoodGrounds(e, u, lines, requirement)
      BY <1>3, <1>6, <2>2, <2>3, <2>6 DEF ApprovalStatus
    <2>8. GoodGrounds(e, u, lines, requirement) => GoodGrounds(e, u, lines, requirement)'
      BY <1>4, GroundsKept
    <2>9. CallOf(c, e, u, lines, requirement)'
      <3>1. calls'[c].request # None
        BY <1>1, <1>5, NoDocument
      <3>2. RequestOf(calls[c].request, u, lines, requirement)'
        BY <1>5, <2>4 DEF RequestOf
      <3>3. EntryOf(calls[c].entry, u, lines)'
        BY <1>5, <2>5 DEF EntryOf
      <3>4. QED
        BY <1>1, <1>4, <1>5, <2>2, <2>7, <2>8, <3>1, <3>2, <3>3 DEF CallOf
    <2>10. CallStory(c, e, u, lines, requirement)'
      BY <2>9 DEF CallStory
    <2>11. QED
      BY <1>1, <1>4, <1>5, <2>10, CallStepStory
  <1>7. CASE calls[c].id # e
    <2>1. CallStory(c, e, u, lines, requirement)'
      BY <1>1, <1>5, <1>7 DEF CallStory
    <2>2. QED
      BY <1>1, <1>4, <1>5, <2>1, CallStepStory
  <1>8. QED
    BY <1>6, <1>7

LEMMA EndStory ==
    ASSUME CopiesSound, NEW c \in Callers, decide_refused(c) \/ fail(c),
           NEW e \in EntryIds, NEW u, NEW lines, NEW requirement,
           Story(e, u, lines, requirement)
    PROVE  Story(e, u, lines, requirement)'
  <1>1. /\ calls' = [calls EXCEPT ![c] = Idle]
        /\ UNCHANGED <<members, entries, requests, grounds>>
    BY DEF decide_refused, fail
  <1>2. calls \in [Callers -> Call] /\ calls'[c] = Idle
    BY <1>1 DEF CopiesSound, TypeOK
  <1>3. CallStory(c, e, u, lines, requirement)'
    BY <1>2 DEF CallStory, Busy
  <1>4. QED
    BY <1>1, <1>2, <1>3, CallStepStory

\* An approved request brings the grounds on which its entry is posted.
LEMMA ApprovedGrounds ==
    ASSUME NEW r, SoundRequest(r), r.status = "Approved",
           NEW e, NEW u, NEW lines, NEW requirement, RequestOf(r, u, lines, requirement),
           requests'[e] # None, grounds'[e] = r.decisions
    PROVE  GoodGrounds(e, u, lines, requirement)'
  <1>1. approval_count(r.decisions) >= requirement.min_approvals
    BY ApprovedCount DEF RequestOf
  <1>2. \A i \in DOMAIN r.decisions :
            /\ r.decisions[i].approver # u /\ r.decisions[i].role \in requirement.required_roles
            /\ r.decisions[i].on = lines
    BY DEF SoundRequest, RequestOf
  <1>3. approval_count(grounds[e])' = approval_count(r.decisions)
    BY DEF approval_count
  <1>4. QED
    BY <1>1, <1>2, <1>3 DEF GoodGrounds

\* A step that leaves a call as it is leaves its part of the story.
LEMMA CallStoryKept ==
    ASSUME NEW e, NEW u, NEW lines, NEW requirement, NEW d \in Callers,
           CallStory(d, e, u, lines, requirement), calls'[d] = calls[d],
           requests[e] # None => requests'[e] # None,
           GoodGrounds(e, u, lines, requirement) => GoodGrounds(e, u, lines, requirement)'
    PROVE  CallStory(d, e, u, lines, requirement)'
  <1>1. CASE Busy(d) /\ calls[d].id = e
    <2>1. CallOf(d, e, u, lines, requirement)'
      BY <1>1, CallOfKept DEF CallStory
    <2>2. QED
      BY <2>1 DEF CallStory
  <1>2. CASE ~(Busy(d) /\ calls[d].id = e)
    BY <1>2 DEF CallStory, Busy
  <1>3. QED
    BY <1>1, <1>2

LEMMA SaveEntryStory ==
    ASSUME CopiesSound, NEW c \in Callers, save_journal_entry(c),
           NEW e \in EntryIds, NEW u, NEW lines, NEW requirement,
           Story(e, u, lines, requirement)
    PROVE  Story(e, u, lines, requirement)'
  <1>1. /\ calls[c].step = "save_entry"
        /\ entries' = [entries EXCEPT ![calls[c].id] = calls[c].entry]
        /\ calls' = [calls EXCEPT ![c] = AfterEntry(c)]
        /\ UNCHANGED <<members, requests, submitted, disturbed>>
    BY SaveEntryEffect
  <1>2. \/ /\ calls[c].request # None /\ calls[c].request.status = "Approved"
           /\ grounds' = [grounds EXCEPT ![calls[c].id] = calls[c].request.decisions]
        \/ /\ ~(calls[c].request # None /\ calls[c].request.status = "Approved")
           /\ grounds' = grounds
    BY SaveEntryEffect
  <1>3. /\ Busy(c) /\ Saving(c) /\ calls[c].id \in EntryIds
        /\ calls[c].request \in ApprovalRequest \cup {None}
        /\ calls[c].request # None =>
              /\ AfterEntry(c).step = "save_request" /\ AfterEntry(c) # Idle
              /\ AfterEntry(c).id = calls[c].id /\ AfterEntry(c).entry = calls[c].entry
              /\ AfterEntry(c).request = calls[c].request
    BY <1>1, AfterEntryKeeps
  <1>4. TypeOK /\ CallSound(calls[c])
    BY CopiesSoundParts
  <1>5. calls'[c] = AfterEntry(c) /\ \A d \in Callers : d # c => calls'[d] = calls[d]
    BY <1>1, <1>4 DEF TypeOK
  <1>6. Asked(u, lines, requirement)'
    BY <1>1, StoryParts, AskedKept
  <1>7. RequestStory(e, u, lines, requirement)'
    <2>1. RequestStory(e, u, lines, requirement)
      BY StoryParts
    <2>2. QED
      BY <1>1, <2>1 DEF RequestStory, RequestOf
  <1>8. EntryStory(e, u, lines, requirement) /\ CallStory(c, e, u, lines, requirement)
    BY StoryParts
  <1>9. CASE calls[c].id = e
    <2>1. CallOf(c, e, u, lines, requirement)
      BY <1>3, <1>8, <1>9 DEF CallStory
    <2>2. /\ EntryOf(calls[c].entry, u, lines)
          /\ calls[c].request = None => requirement = None
          /\ calls[c].request # None =>
                requirement # None /\ RequestOf(calls[c].request, u, lines, requirement)
          /\ calls[c].request # None /\ calls[c].request.status = "Approved"
                => requests[e] # None
          /\ calls[c].entry.status = "Posted" =>
                \/ requirement = None
                \/ calls[c].request.status = "Approved"
                \/ GoodGrounds(e, u, lines, requirement)
      BY <1>3, <2>1 DEF CallOf
    <2>3. calls[c].request # None /\ calls[c].request.status = "Approved"
            => GoodGrounds(e, u, lines, requirement)'
      <3> SUFFICES ASSUME calls[c].request # None, calls[c].request.status = "Approved"
                   PROVE  GoodGrounds(e, u, lines, requirement)'
        OBVIOUS
      <3>1. SoundRequest(calls[c].request)
        BY <1>3, <1>4 DEF CallSound, Busy
      <3>2. grounds'[e] = calls[c].request.decisions /\ requests'[e] # None
        BY <1>1, <1>2, <1>4, <1>9, <2>2 DEF TypeOK
      <3>3. RequestOf(calls[c].request, u, lines, requirement)
        BY <2>2
      <3>4. \A r : SoundRequest(r) /\ r.status = "Approved"
                   /\ RequestOf(r, u, lines, requirement) /\ grounds'[e] = r.decisions
                   => GoodGrounds(e, u, lines, requirement)'
        <4> SUFFICES ASSUME NEW r, SoundRequest(r), r.status = "Approved",
                            RequestOf(r, u, lines, requirement), grounds'[e] = r.decisions
                     PROVE  GoodGrounds(e, u, lines, requirement)'
          OBVIOUS
        <4>1. QED
          BY <3>2, ApprovedGrounds
      <3>5. QED
        BY <3>1, <3>2, <3>3, <3>4
    <2>4. GoodGrounds(e, u, lines, requirement) => GoodGrounds(e, u, lines, requirement)'
      <3>1. CASE calls[c].request # None /\ calls[c].request.status = "Approved"
        BY <2>3, <3>1
      <3>2. CASE ~(calls[c].request # None /\ calls[c].request.status = "Approved")
        BY <1>1, <1>2, <3>2, GroundsKept
      <3>3. QED
        BY <3>1, <3>2
    <2>5. entries'[e] = calls[c].entry
      BY <1>1, <1>4, <1>9 DEF TypeOK
    <2>6. EntryStory(e, u, lines, requirement)'
      <3>1. EntryOf(entries[e], u, lines)'
        BY <2>2, <2>5 DEF EntryOf
      <3>2. calls[c].entry.status = "Posted" =>
                requirement = None \/ GoodGrounds(e, u, lines, requirement)'
        BY <2>2, <2>3, <2>4
      <3>3. QED
        BY <2>5, <3>1, <3>2 DEF EntryStory
    <2>7. CallStory(c, e, u, lines, requirement)'
      <3>1. CASE calls[c].request = None
        BY <1>5, <3>1 DEF CallStory, Busy, AfterEntry
      <3>2. CASE calls[c].request # None
        <4>1. /\ calls'[c].step = "save_request" /\ calls'[c].request = calls[c].request
              /\ calls'[c].entry = calls[c].entry
          BY <1>3, <1>5, <3>2
        <4>2. RequestOf(calls[c].request, u, lines, requirement)'
          BY <2>2, <3>2, <4>1 DEF RequestOf
        <4>3. EntryOf(calls[c].entry, u, lines)'
          BY <2>2, <4>1 DEF EntryOf
        <4>4. CallOf(c, e, u, lines, requirement)'
          BY <1>1, <2>2, <2>4, <3>2, <4>1, <4>2, <4>3 DEF CallOf
        <4>5. QED
          BY <4>4 DEF CallStory
      <3>3. QED
        BY <3>1, <3>2
    <2>8. \A d \in Callers : d # c => CallStory(d, e, u, lines, requirement)'
      BY <1>1, <1>5, <2>4, StoryParts, CallStoryKept
    <2>9. QED
      BY <1>6, <1>7, <2>6, <2>7, <2>8, StoryPartsNext
  <1>10. CASE calls[c].id # e
    <2>1. entries'[e] = entries[e] /\ grounds'[e] = grounds[e] /\ requests'[e] = requests[e]
      BY <1>1, <1>2, <1>4, <1>10 DEF TypeOK
    <2>2. GoodGrounds(e, u, lines, requirement) => GoodGrounds(e, u, lines, requirement)'
      BY <2>1, GroundsKept
    <2>3. EntryStory(e, u, lines, requirement)'
      BY <1>8, <2>1, <2>2 DEF EntryStory, EntryOf
    <2>4. CallStory(c, e, u, lines, requirement)'
      BY <1>3, <1>5, <1>10 DEF CallStory, Busy, AfterEntry
    <2>5. \A d \in Callers : d # c => CallStory(d, e, u, lines, requirement)'
      BY <1>5, <2>1, <2>2, StoryParts, CallStoryKept
    <2>6. QED
      BY <1>6, <1>7, <2>3, <2>4, <2>5, StoryPartsNext
  <1>11. QED
    BY <1>9, <1>10

LEMMA SaveRequestStory ==
    ASSUME CopiesSound, NEW c \in Callers, save_approval_request(c),
           NEW e \in EntryIds, NEW u, NEW lines, NEW requirement,
           Story(e, u, lines, requirement)
    PROVE  Story(e, u, lines, requirement)'
  <1>1. /\ calls[c].step = "save_request"
        /\ requests' = [requests EXCEPT ![calls[c].id] = calls[c].request]
        /\ calls' = [calls EXCEPT ![c] = Idle]
        /\ UNCHANGED <<members, entries, grounds, submitted, disturbed>>
    BY DEF save_approval_request
  <1>2. Busy(c) /\ calls[c].id \in EntryIds /\ calls[c].request # None
    BY <1>1, SaveRequestHolds
  <1>3. TypeOK
    BY CopiesSoundParts
  <1>4. calls'[c] = Idle /\ \A d \in Callers : d # c => calls'[d] = calls[d]
    BY <1>1, <1>3 DEF TypeOK
  <1>5. requests[e] # None => requests'[e] # None
    BY <1>1, <1>2, <1>3 DEF TypeOK
  <1>6. GoodGrounds(e, u, lines, requirement) => GoodGrounds(e, u, lines, requirement)'
    BY <1>1, <1>5, GroundsKept
  <1>7. Asked(u, lines, requirement)'
    BY <1>1, StoryParts, AskedKept
  <1>8. /\ EntryStory(e, u, lines, requirement) /\ RequestStory(e, u, lines, requirement)
        /\ CallStory(c, e, u, lines, requirement)
    BY StoryParts
  <1>9. EntryStory(e, u, lines, requirement)'
    BY <1>1, <1>6, <1>8 DEF EntryStory, EntryOf
  <1>10. RequestStory(e, u, lines, requirement)'
    <2>1. CASE calls[c].id = e
      <3>1. requests'[e] = calls[c].request
        BY <1>1, <1>3, <2>1 DEF TypeOK
      <3>2. requirement # None /\ RequestOf(calls[c].request, u, lines, requirement)
        BY <1>2, <1>8, <2>1 DEF CallStory, CallOf
      <3>3. RequestOf(requests[e], u, lines, requirement)'
        BY <3>1, <3>2 DEF RequestOf
      <3>4. QED
        BY <3>2, <3>3 DEF RequestStory
    <2>2. CASE calls[c].id # e
      <3>1. requests'[e] = requests[e]
        BY <1>1, <1>3, <2>2 DEF TypeOK
      <3>2. QED
        BY <1>8, <3>1 DEF RequestStory, RequestOf
    <2>3. QED
      BY <2>1, <2>2
  <1>11. CallStory(c, e, u, lines, requirement)'
    BY <1>4 DEF CallStory, Busy
  <1>12. \A d \in Callers : d # c => CallStory(d, e, u, lines, requirement)'
    BY <1>4, <1>5, <1>6, StoryParts, CallStoryKept
  <1>13. QED
    BY <1>7, <1>9, <1>10, <1>11, <1>12, StoryPartsNext

\* Nothing happens, or a membership is added.
LEMMA QuietStory ==
    ASSUME members \subseteq members',
           UNCHANGED <<entries, requests, calls, grounds>>,
           NEW e \in EntryIds, NEW u, NEW lines, NEW requirement,
           Story(e, u, lines, requirement)
    PROVE  Story(e, u, lines, requirement)'
  <1>1. Asked(u, lines, requirement)'
    BY StoryParts, AskedKept
  <1>2. GoodGrounds(e, u, lines, requirement) => GoodGrounds(e, u, lines, requirement)'
    BY GroundsKept
  <1>3. EntryStory(e, u, lines, requirement)'
    BY <1>2, StoryParts DEF EntryStory, EntryOf
  <1>4. RequestStory(e, u, lines, requirement)'
    BY StoryParts DEF RequestStory, RequestOf
  <1>5. \A d \in Callers : CallStory(d, e, u, lines, requirement)'
    BY <1>2, StoryParts, CallStoryKept
  <1>6. QED
    BY <1>1, <1>3, <1>4, <1>5, StoryPartsNext

\* An id stays unused until it is submitted.
LEMMA UnusedKept ==
    ASSUME CopiesSound, Next, NEW e \in EntryIds, Unused(e),
           \A c \in Callers, u \in Users, lines \in Drafts : ~submit_entry(c, u, e, lines)
    PROVE  Unused(e)'
  <1>1. /\ calls \in [Callers -> Call] /\ entries \in [EntryIds -> Entry \cup {None}]
        /\ requests \in [EntryIds -> ApprovalRequest \cup {None}]
    BY DEF CopiesSound, TypeOK
  <1>2. /\ entries[e] = None /\ requests[e] = None
        /\ \A d \in Callers : calls[d] # Idle => calls[d].id # e
    BY DEF Unused, Busy
  <1>3. ASSUME NEW c \in Callers, NEW call, calls' = [calls EXCEPT ![c] = call],
               call # Idle => call.id # e
        PROVE  \A d \in Callers : calls'[d] # Idle => calls'[d].id # e
    BY <1>1, <1>2, <1>3
  <1>4. ASSUME NEW c \in Callers, NEW actor \in Users, NEW id \in EntryIds,
               NEW lines \in Drafts, submit_entry(c, actor, id, lines)
        PROVE  Unused(e)'
    <2> DEFINE requirement == approval_requirement(roles_for(actor), lines)
               call == Submission(id, actor, lines, requirement)
    <2>1. /\ validate(lines) /\ calls' = [calls EXCEPT ![c] = call]
          /\ UNCHANGED <<entries, requests>>
      BY <1>4 DEF submit_entry
    <2>2. requirement \in Requirements \cup {None}
      BY RequirementAsked
    <2>3. id # e
      BY <1>4
    <2> HIDE DEF requirement
    <2>4. call.id # e
      BY <2>1, <2>2, <2>3, SubmissionSound
    <2> HIDE DEF call
    <2>5. QED
      BY <1>2, <1>3, <2>1, <2>4 DEF Unused, Busy
  <1>5. ASSUME NEW c \in Callers, NEW actor \in Users, NEW id \in EntryIds,
               NEW vote \in ApprovalVote, read_request(c, actor, id, vote)
        PROVE  Unused(e)'
    <2> DEFINE call == [step |-> "read_entry", id |-> id, actor |-> actor,
                        vote |-> vote, request |-> requests[id]]
    <2>1. /\ requests[id] # None /\ calls' = [calls EXCEPT ![c] = call]
          /\ UNCHANGED <<entries, requests>>
      BY <1>5 DEF read_request
    <2>2. call.id # e
      BY <1>2, <2>1
    <2> HIDE DEF call
    <2>3. QED
      BY <1>2, <1>3, <2>1, <2>2 DEF Unused, Busy
  <1>6. ASSUME NEW c \in Callers, decide_approval(c)
        PROVE  Unused(e)'
    <2> DEFINE call == DecidedCall(c)
    <2>1. /\ calls' = [calls EXCEPT ![c] = call] /\ call.id = calls[c].id /\ Busy(c)
      BY <1>6, DecidedCallSound
    <2>2. UNCHANGED <<entries, requests>>
      BY <1>6 DEF decide_approval
    <2> HIDE DEF call
    <2>3. QED
      BY <1>2, <1>3, <2>1, <2>2 DEF Unused, Busy
  <1>7. ASSUME NEW c \in Callers, decide_refused(c) \/ fail(c)
        PROVE  Unused(e)'
    <2>1. calls' = [calls EXCEPT ![c] = Idle] /\ UNCHANGED <<entries, requests>>
      BY <1>7 DEF decide_refused, fail
    <2>2. QED
      BY <1>2, <1>3, <2>1 DEF Unused, Busy
  <1>8. ASSUME NEW c \in Callers, save_journal_entry(c)
        PROVE  Unused(e)'
    <2>1. /\ calls[c].step = "save_entry"
          /\ entries' = [entries EXCEPT ![calls[c].id] = calls[c].entry]
          /\ calls' = [calls EXCEPT ![c] = AfterEntry(c)]
          /\ requests' = requests
      BY <1>8, SaveEntryEffect
    <2>2. /\ Busy(c)
          /\ calls[c].request # None => AfterEntry(c).id = calls[c].id
      BY <2>1, AfterEntryKeeps
    <2>3. calls[c].id # e
      BY <1>2, <2>2 DEF Busy
    <2>4. AfterEntry(c) # Idle => AfterEntry(c).id # e
      BY <2>2, <2>3 DEF AfterEntry
    <2>5. entries'[e] = entries[e]
      BY <1>1, <2>1, <2>3
    <2>6. \A d \in Callers : calls'[d] # Idle => calls'[d].id # e
      BY <1>3, <2>1, <2>4
    <2>7. QED
      BY <1>2, <2>1, <2>5, <2>6 DEF Unused, Busy
  <1>9. ASSUME NEW c \in Callers, save_approval_request(c)
        PROVE  Unused(e)'
    <2>1. /\ calls[c].step = "save_request"
          /\ requests' = [requests EXCEPT ![calls[c].id] = calls[c].request]
          /\ calls' = [calls EXCEPT ![c] = Idle] /\ entries' = entries
      BY <1>9 DEF save_approval_request
    <2>2. Busy(c)
      BY <2>1, SaveRequestHolds
    <2>3. requests'[e] = requests[e]
      BY <1>1, <1>2, <2>1, <2>2 DEF Busy
    <2>4. QED
      BY <1>2, <1>3, <2>1, <2>3 DEF Unused, Busy
  <1>10. ASSUME NEW m \in NewMembers, save_member(m)
         PROVE  Unused(e)'
    BY <1>2, <1>10 DEF save_member, Unused, Busy
  <1>11. QED
    BY <1>4, <1>5, <1>6, <1>7, <1>8, <1>9, <1>10 DEF Next

\* A story goes on until its id is submitted again.
LEMMA StoryGoesOn ==
    ASSUME CopiesSound, Next, NEW e \in EntryIds,
           NEW u, NEW lines, NEW requirement, Story(e, u, lines, requirement),
           \A c \in Callers, v \in Users, drafted \in Drafts : ~submit_entry(c, v, e, drafted)
    PROVE  Story(e, u, lines, requirement)'
  <1>1. ASSUME NEW c \in Callers, NEW actor \in Users, NEW id \in EntryIds,
               NEW drafted \in Drafts, submit_entry(c, actor, id, drafted)
        PROVE  Story(e, u, lines, requirement)'
    BY <1>1, SubmitOther
  <1>2. ASSUME NEW c \in Callers, NEW actor \in Users, NEW id \in EntryIds,
               NEW vote \in ApprovalVote, read_request(c, actor, id, vote)
        PROVE  Story(e, u, lines, requirement)'
    BY <1>2, ReadStory
  <1>3. ASSUME NEW m \in NewMembers, save_member(m)
        PROVE  Story(e, u, lines, requirement)'
    BY <1>3, QuietStory DEF save_member
  <1>4. QED
    BY <1>1, <1>2, <1>3, DecideStory, EndStory, SaveEntryStory, SaveRequestStory DEF Next

LEMMA SubmissionsCounted ==
    ASSUME CopiesSound, Next, NEW e \in EntryIds
    PROVE  \/ /\ submitted'[e] = submitted[e]
              /\ \A c \in Callers, u \in Users, lines \in Drafts : ~submit_entry(c, u, e, lines)
           \/ /\ submitted'[e] = submitted[e] + 1
              /\ \E c \in Callers, u \in Users, lines \in Drafts : submit_entry(c, u, e, lines)
  <1>1. submitted \in [EntryIds -> 0 .. MaxSubmissions] /\ MaxSubmissions \in Nat
    BY JournalConstants DEF CopiesSound, TypeOK
  <1>2. submitted[e] \in Nat
    BY <1>1
  <1>3. CASE \E c \in Callers, u \in Users, lines \in Drafts : submit_entry(c, u, e, lines)
    BY <1>1, <1>3 DEF submit_entry
  <1>4. CASE \A c \in Callers, u \in Users, lines \in Drafts : ~submit_entry(c, u, e, lines)
    <2>1. ASSUME NEW c \in Callers, NEW u \in Users, NEW id \in EntryIds, NEW lines \in Drafts,
                 submit_entry(c, u, id, lines)
          PROVE  submitted'[e] = submitted[e]
      <3>1. id # e
        BY <1>4, <2>1
      <3>2. submitted' = [submitted EXCEPT ![id] = @ + 1]
        BY <2>1 DEF submit_entry
      <3>3. QED
        BY <1>1, <3>1, <3>2
    <2>2. CASE submitted' = submitted
      BY <1>4, <2>2
    <2>3. QED
      BY <1>4, <2>1, <2>2 DEF Next, read_request, decide_approval, decide_refused,
         save_journal_entry, save_approval_request, fail, save_member
  <1>5. QED
    BY <1>3, <1>4

LEMMA StepOneStory ==
    ASSUME CopiesSound, OneStory, Next
    PROVE  OneStory'
  <1> SUFFICES ASSUME NEW e \in EntryIds
               PROVE  /\ submitted'[e] = 0 => Unused(e)'
                      /\ submitted'[e] = 1 =>
                            \E u \in Users, lines \in Drafts, requirement \in Requirements \cup {None} :
                                Story(e, u, lines, requirement)'
    BY DEF OneStory, Requirements, RequiredFrom
  <1>1. submitted[e] \in Nat
    BY JournalConstants DEF CopiesSound, TypeOK
  <1>2. /\ submitted[e] = 0 => Unused(e)
        /\ submitted[e] = 1 =>
              \E u \in Users, lines \in Drafts, requirement \in Requirements \cup {None} :
                  Story(e, u, lines, requirement)
    BY DEF OneStory
  <1>3. CASE /\ submitted'[e] = submitted[e]
             /\ \A c \in Callers, u \in Users, lines \in Drafts : ~submit_entry(c, u, e, lines)
    <2>1. submitted'[e] = 0 => Unused(e)'
      BY <1>2, <1>3, UnusedKept
    <2>2. ASSUME submitted'[e] = 1
          PROVE  \E u \in Users, lines \in Drafts, requirement \in Requirements \cup {None} :
                     Story(e, u, lines, requirement)'
      <3>1. PICK u \in Users, lines \in Drafts, requirement \in Requirements \cup {None} :
                Story(e, u, lines, requirement)
        BY <1>2, <1>3, <2>2
      <3>2. \A x, y, z : Story(e, x, y, z) => Story(e, x, y, z)'
        BY <1>3, StoryGoesOn
      <3>3. QED
        BY <3>1, <3>2
    <2>3. QED
      BY <2>1, <2>2
  <1>4. CASE /\ submitted'[e] = submitted[e] + 1
             /\ \E c \in Callers, u \in Users, lines \in Drafts : submit_entry(c, u, e, lines)
    <2>1. submitted'[e] # 0
      BY <1>1, <1>4
    <2>2. ASSUME submitted'[e] = 1
          PROVE  \E u \in Users, lines \in Drafts, requirement \in Requirements \cup {None} :
                     Story(e, u, lines, requirement)'
      <3>1. Unused(e)
        BY <1>1, <1>2, <1>4, <2>2
      <3>2. QED
        BY <1>4, <3>1, SubmitBegins
    <2>3. QED
      BY <2>1, <2>2
  <1>5. QED
    BY <1>3, <1>4, SubmissionsCounted

(***************************************************************************)
(* Whatever is stored or held of an id that was submitted once stems from  *)
(* that submission.                                                        *)
(***************************************************************************)
THEOREM OneStoryAlways == Spec => [](CopiesSound /\ OneStory)
  <1>1. Init => OneStory
    BY DEF Init, OneStory, Unused, Busy
  <1>2. CopiesSound /\ OneStory /\ [Next]_vars => OneStory'
    <2>1. ASSUME OneStory, UNCHANGED vars PROVE OneStory'
      <3>1. \A e \in EntryIds : \A u, lines, requirement :
                Story(e, u, lines, requirement) => Story(e, u, lines, requirement)'
        BY <2>1, QuietStory DEF vars
      <3>2. \A e \in EntryIds : Unused(e) => Unused(e)'
        BY <2>1 DEF vars, Unused, Busy
      <3>3. QED
        BY <2>1, <3>1, <3>2 DEF vars, OneStory, Requirements, RequiredFrom
    <2>2. QED
      BY <2>1, StepOneStory
  <1>3. QED
    BY <1>1, <1>2, CopiesAlwaysSound, PTL DEF Spec

(***************************************************************************)
(* The four-eyes principle: a posted entry is valid, and when its id was   *)
(* submitted once it was posted by somebody who needed no approval, or on  *)
(* enough approvals by other people in the roles its amount calls for.     *)
(***************************************************************************)
THEOREM AlwaysPostedWithGrounds == Spec => []PostedWithGrounds
  <1>1. CopiesSound /\ OneStory => PostedWithGrounds
    <2> SUFFICES ASSUME CopiesSound, OneStory, NEW e \in EntryIds,
                        entries[e] # None, entries[e].status = "Posted", ~(submitted[e] > 1)
                 PROVE  \/ approval_requirement(roles_for(entries[e].created_by),
                                                entries[e].lines) = None
                        \/ LET needed == requests[e].requirement
                           IN  /\ approval_count(grounds[e]) >= needed.min_approvals
                               /\ high_value(entries[e].lines) => needed.required_roles = {"Owner"}
                               /\ \A i \in DOMAIN grounds[e] :
                                     /\ grounds[e][i].approver # entries[e].created_by
                                     /\ grounds[e][i].role \in needed.required_roles
                                     /\ grounds[e][i].on = entries[e].lines
      BY DEF PostedWithGrounds, CopiesSound
    <2>1. submitted[e] \in Nat
      BY JournalConstants DEF CopiesSound, TypeOK
    <2>2. submitted[e] = 1
      BY <2>1 DEF OneStory, Unused
    <2>3. PICK u \in Users, lines \in Drafts, requirement \in Requirements \cup {None} :
              Story(e, u, lines, requirement)
      BY <2>2 DEF OneStory
    <2>4. /\ Asked(u, lines, requirement) /\ EntryStory(e, u, lines, requirement)
          /\ RequestStory(e, u, lines, requirement)
      BY <2>3, StoryParts
    <2>5. entries[e].created_by = u /\ entries[e].lines = lines
      BY <2>4 DEF EntryStory, EntryOf
    <2>6. CASE requirement = None
      BY <2>4, <2>5, <2>6 DEF Asked
    <2>7. CASE requirement # None
      <3>1. GoodGrounds(e, u, lines, requirement)
        BY <2>4, <2>7 DEF EntryStory
      <3>2. requests[e].requirement = requirement
        BY <2>4, <3>1 DEF RequestStory, RequestOf, GoodGrounds
      <3>3. QED
        BY <2>4, <2>5, <2>7, <3>1, <3>2 DEF Asked, GoodGrounds
    <2>8. QED
      BY <2>6, <2>7
  <1>2. QED
    BY <1>1, OneStoryAlways, PTL

-----------------------------------------------------------------------------
(* One call at a time.                                                     *)

OneBusy == \A c, d \in Callers : Busy(c) /\ Busy(d) => c = d

StorePart(e) ==
    /\ submitted[e] = 1
    /\ \A c \in Callers : calls[c].step = "save_request" => calls[c].id # e
    => StoredAgree(e)

CallPart(c) == Busy(c) /\ submitted[calls[c].id] = 1 => CallAgrees(c)

LEMMA OrderlyParts ==
    ASSUME ~disturbed
    PROVE  Orderly <=> /\ OneBusy
                       /\ \A e \in EntryIds : StorePart(e)
                       /\ \A c \in Callers : CallPart(c)
  BY DEF Orderly, OneBusy, StorePart, CallPart

LEMMA OrderlyPartsNext ==
    Orderly' <=> (disturbed' \/ /\ OneBusy'
                                /\ \A e \in EntryIds : StorePart(e)'
                                /\ \A c \in Callers : CallPart(c)')
  BY DEF Orderly, OneBusy, StorePart, CallPart

LEMMA StoredAgreeKept ==
    ASSUME NEW e \in EntryIds, StoredAgree(e), entries'[e] = entries[e],
           requests'[e] = requests[e], grounds'[e] = grounds[e]
    PROVE  StoredAgree(e)'
  BY DEF StoredAgree, Agree, StatusAfter

\* The only busy caller moves on; nothing stored changes.
LEMMA MoveOrderly ==
    ASSUME CopiesSound, Orderly, ~disturbed, NEW c \in Callers, NEW call,
           calls' = [calls EXCEPT ![c] = call],
           UNCHANGED <<entries, requests, grounds, submitted>>,
           calls[c].step # "save_request", call # Idle => call.step # "save_request",
           \A d \in Callers : Busy(d) => d = c,
           CallPart(c)'
    PROVE  Orderly'
  <1>1. calls \in [Callers -> Call]
    BY DEF CopiesSound, TypeOK
  <1>2. calls'[c] = call /\ \A d \in Callers : d # c => calls'[d] = calls[d]
    BY <1>1
  <1>3. \A d \in Callers : d # c => calls'[d] = Idle
    BY <1>2 DEF Busy
  <1>4. OneBusy'
    BY <1>3 DEF OneBusy, Busy
  <1>5. \A d \in Callers : calls[d].step # "save_request"
    <2>1. Idle.step # "save_request"
      BY DEF Idle
    <2>2. QED
      BY <2>1 DEF Busy
  <1>6. \A e \in EntryIds : StorePart(e)'
    <2> SUFFICES ASSUME NEW e \in EntryIds, submitted'[e] = 1 PROVE StoredAgree(e)'
      BY DEF StorePart
    <2>1. StoredAgree(e)
      BY <1>5, OrderlyParts DEF StorePart
    <2>2. QED
      BY <2>1, StoredAgreeKept
  <1>7. \A d \in Callers : CallPart(d)'
    BY <1>3 DEF CallPart, Busy
  <1>8. QED
    BY <1>4, <1>6, <1>7, OrderlyPartsNext

LEMMA SubmitOrderly ==
    ASSUME CopiesSound, OneStory, Orderly, NEW c \in Callers, NEW actor \in Users,
           NEW id \in EntryIds, NEW lines \in Drafts, submit_entry(c, actor, id, lines)
    PROVE  Orderly'
  <1> SUFFICES ASSUME ~disturbed' PROVE Orderly'
    BY OrderlyPartsNext
  <1> DEFINE requirement == approval_requirement(roles_for(actor), lines)
             call == Submission(id, actor, lines, requirement)
  <1>1. /\ validate(lines) /\ calls' = [calls EXCEPT ![c] = call]
        /\ submitted' = [submitted EXCEPT ![id] = @ + 1]
        /\ UNCHANGED <<entries, requests, grounds>>
        /\ ~disturbed /\ \A d \in Callers : calls[d] = Idle
    BY DEF submit_entry, Alone
  <1>2. PICK R \in Requirements \cup {None} : R = requirement
    BY RequirementAsked
  <1> HIDE DEF requirement
  <1>3. /\ call.step = "save_entry" /\ call.id = id /\ EntryOf(call.entry, actor, lines)
        /\ call.entry.status = IF R = None THEN "Posted" ELSE "PendingApproval"
        /\ call.request = IF R = None THEN None ELSE NewRequest(actor, R)
    BY <1>1, <1>2, SubmissionSound
  <1> HIDE DEF call
  <1>4. /\ calls \in [Callers -> Call] /\ submitted \in [EntryIds -> 0 .. MaxSubmissions]
        /\ MaxSubmissions \in Nat
    BY JournalConstants DEF CopiesSound, TypeOK
  <1>5. calls'[c] = call /\ \A d \in Callers : d # c => calls'[d] = Idle
    BY <1>1, <1>4
  <1>6. OneBusy'
    BY <1>5 DEF OneBusy, Busy
  <1>7. \A e \in EntryIds : StorePart(e)'
    <2> SUFFICES ASSUME NEW e \in EntryIds, submitted'[e] = 1 PROVE StoredAgree(e)'
      BY DEF StorePart
    <2>1. CASE e = id
      <3>1. submitted[e] = 0
        BY <1>1, <1>4, <2>1
      <3>2. requests'[e] = None
        BY <1>1, <3>1 DEF OneStory, Unused
      <3>3. QED
        BY <3>2 DEF StoredAgree
    <2>2. CASE e # id
      <3>1. submitted[e] = 1
        BY <1>1, <1>4, <2>2
      <3>2. \A d \in Callers : calls[d].step # "save_request"
        BY <1>1 DEF Idle
      <3>3. StoredAgree(e)
        BY <1>1, <3>1, <3>2, OrderlyParts DEF StorePart
      <3>4. QED
        BY <1>1, <3>3, StoredAgreeKept
    <2>3. QED
      BY <2>1, <2>2
  <1>8. CallAgrees(c)'
    <2>1. call.request # None => Agree(call.entry, call.request)
      <3> SUFFICES ASSUME call.request # None PROVE Agree(call.entry, call.request)
        OBVIOUS
      <3>1. R # None /\ R \in Requirements
        BY <1>3
      <3>2. call.request.submitted_by = actor /\ call.request.status = "Pending"
        BY <1>3, <3>1, NewRequestSound
      <3>3. QED
        BY <1>3, <3>1, <3>2 DEF Agree, StatusAfter, EntryOf
    <2>2. call.request # None => Agree(calls[c].entry, calls[c].request)'
      BY <1>5, <2>1 DEF Agree, StatusAfter
    <2>3. QED
      BY <1>3, <1>5, <2>2 DEF CallAgrees, Saving
  <1>9. \A d \in Callers : CallPart(d)'
    BY <1>5, <1>8 DEF CallPart, Busy
  <1>10. QED
    BY <1>6, <1>7, <1>9, OrderlyPartsNext

LEMMA ReadOrderly ==
    ASSUME CopiesSound, Orderly, NEW c \in Callers, NEW actor \in Users, NEW id \in EntryIds,
           NEW vote \in ApprovalVote, read_request(c, actor, id, vote)
    PROVE  Orderly'
  <1> SUFFICES ASSUME ~disturbed' PROVE Orderly'
    BY OrderlyPartsNext
  <1> DEFINE call == [step |-> "read_entry", id |-> id, actor |-> actor,
                      vote |-> vote, request |-> requests[id]]
  <1>1. /\ calls' = [calls EXCEPT ![c] = call]
        /\ UNCHANGED <<entries, requests, grounds, submitted>>
        /\ ~disturbed /\ \A d \in Callers : calls[d] = Idle
    BY DEF read_request, Alone
  <1>2. call.id = id /\ call.step = "read_entry" /\ call.request = requests[id]
    OBVIOUS
  <1> HIDE DEF call
  <1>3. calls'[c] = call
    BY <1>1 DEF CopiesSound, TypeOK
  <1>4. CallPart(c)'
    BY <1>1, <1>2, <1>3 DEF CallPart, CallAgrees, Saving
  <1>5. calls[c].step # "save_request"
    BY <1>1 DEF Idle
  <1>6. QED
    BY <1>1, <1>2, <1>4, <1>5, MoveOrderly DEF Busy

LEMMA DecideOrderly ==
    ASSUME CopiesSound, Orderly, NEW c \in Callers, decide_approval(c)
    PROVE  Orderly'
  <1> SUFFICES ASSUME ~disturbed' PROVE Orderly'
    BY OrderlyPartsNext
  <1> DEFINE call == DecidedCall(c)
  <1>1. /\ calls' = [calls EXCEPT ![c] = call]
        /\ Busy(c) /\ calls[c].step = "read_entry" /\ calls[c].id \in EntryIds
        /\ calls[c].request \in ApprovalRequest /\ calls[c].request.status = "Pending"
        /\ call.id = calls[c].id /\ call.step = "save_entry"
        /\ call.request \in ApprovalRequest
        /\ call.request.submitted_by = calls[c].request.submitted_by
        /\ call.entry.created_by = entries[calls[c].id].created_by
        /\ call.entry.status =
              CASE call.request.status = "Approved" -> "Posted"
                [] call.request.status = "Rejected" -> "Rejected"
                [] call.request.status = "Pending" -> entries[calls[c].id].status
    BY DecidedCallSound
  <1>2. UNCHANGED <<entries, requests, grounds, submitted, disturbed>>
    BY DEF decide_approval
  <1> HIDE DEF call
  <1>3. OneBusy /\ CallPart(c) /\ \A e \in EntryIds : StorePart(e)
    BY <1>2, OrderlyParts
  <1>4. \A d \in Callers : Busy(d) => d = c
    BY <1>1, <1>3 DEF OneBusy
  <1>5. calls'[c] = call
    BY <1>1 DEF CopiesSound, TypeOK
  <1>6. CallPart(c)'
    <2> SUFFICES ASSUME submitted[calls[c].id] = 1 PROVE CallAgrees(c)'
      BY <1>1, <1>2, <1>5 DEF CallPart
    <2> DEFINE e == calls[c].id
    <2>1. calls[c].request = requests[e] /\ requests[e] # None
      BY <1>1, <1>3, NoDocument DEF CallPart, CallAgrees
    <2>2. \A d \in Callers : calls[d].step # "save_request"
      <3>1. Idle.step # "save_request"
        BY DEF Idle
      <3>2. QED
        BY <1>1, <1>4, <3>1 DEF Busy
    <2>3. StoredAgree(e)
      BY <1>1, <1>3, <2>2 DEF StorePart
    <2>4. /\ entries[e].created_by = calls[c].request.submitted_by
          /\ entries[e].status = "PendingApproval"
      BY <1>1, <2>1, <2>3 DEF StoredAgree, Agree, StatusAfter
    <2>5. call.request.status \in ApprovalStatus
      BY <1>1 DEF ApprovalRequest
    <2>6. Agree(call.entry, call.request)
      BY <1>1, <2>4, <2>5 DEF Agree, StatusAfter, ApprovalStatus
    <2>7. Agree(calls[c].entry, calls[c].request)'
      BY <1>5, <2>6 DEF Agree, StatusAfter
    <2>8. QED
      BY <1>1, <1>5, <2>7 DEF CallAgrees, Saving
  <1>7. QED
    BY <1>1, <1>2, <1>4, <1>6, MoveOrderly

LEMMA EndOrderly ==
    ASSUME CopiesSound, Orderly, NEW c \in Callers, decide_refused(c) \/ fail(c)
    PROVE  Orderly'
  <1> SUFFICES ASSUME ~disturbed' PROVE Orderly'
    BY OrderlyPartsNext
  <1>1. /\ calls' = [calls EXCEPT ![c] = Idle]
        /\ UNCHANGED <<entries, requests, grounds, submitted>>
        /\ ~disturbed /\ calls[c].step # "save_request" /\ Busy(c)
    <2>1. CASE decide_refused(c)
      <3>1. calls[c].step = "read_entry" /\ UNCHANGED disturbed
        BY <2>1 DEF decide_refused
      <3>2. ~disturbed /\ calls[c].step # "save_request" /\ Busy(c)
        BY <3>1 DEF Busy, Idle
      <3>3. QED
        BY <2>1, <3>2 DEF decide_refused
    <2>2. CASE fail(c)
      BY <2>2 DEF fail, Busy
    <2>3. QED
      BY <2>1, <2>2
  <1>2. \A d \in Callers : Busy(d) => d = c
    BY <1>1, OrderlyParts DEF OneBusy
  <1>3. calls'[c] = Idle
    BY <1>1 DEF CopiesSound, TypeOK
  <1>4. CallPart(c)'
    BY <1>3 DEF CallPart, Busy
  <1>5. QED
    BY <1>1, <1>2, <1>4, MoveOrderly

LEMMA SaveEntryOrderly ==
    ASSUME CopiesSound, OneStory, Orderly, NEW c \in Callers, save_journal_entry(c)
    PROVE  Orderly'
  <1> SUFFICES ASSUME ~disturbed' PROVE Orderly'
    BY OrderlyPartsNext
  <1>1. /\ calls[c].step = "save_entry"
        /\ entries' = [entries EXCEPT ![calls[c].id] = calls[c].entry]
        /\ calls' = [calls EXCEPT ![c] = AfterEntry(c)]
        /\ UNCHANGED <<members, requests, submitted, disturbed>>
    BY SaveEntryEffect
  <1>2. \/ /\ calls[c].request # None /\ calls[c].request.status = "Approved"
           /\ grounds' = [grounds EXCEPT ![calls[c].id] = calls[c].request.decisions]
        \/ /\ ~(calls[c].request # None /\ calls[c].request.status = "Approved")
           /\ grounds' = grounds
    BY SaveEntryEffect
  <1>3. /\ Busy(c) /\ Saving(c) /\ calls[c].id \in EntryIds
        /\ calls[c].request # None =>
              /\ AfterEntry(c).step = "save_request" /\ AfterEntry(c) # Idle
              /\ AfterEntry(c).id = calls[c].id /\ AfterEntry(c).entry = calls[c].entry
              /\ AfterEntry(c).request = calls[c].request
    BY <1>1, AfterEntryKeeps
  <1>4. /\ calls \in [Callers -> Call] /\ entries \in [EntryIds -> Entry \cup {None}]
        /\ grounds \in [EntryIds -> Seq(Decision)]
    BY DEF CopiesSound, TypeOK
  <1>5. OneBusy /\ CallPart(c) /\ \A e \in EntryIds : StorePart(e)
    BY <1>1, OrderlyParts
  <1>6. calls'[c] = AfterEntry(c) /\ \A d \in Callers : d # c => calls'[d] = Idle
    BY <1>1, <1>3, <1>4, <1>5 DEF OneBusy, Busy
  <1>7. OneBusy'
    BY <1>6 DEF OneBusy, Busy
  <1>8. \A d \in Callers : calls[d].step # "save_request"
    <2>1. Idle.step # "save_request"
      BY DEF Idle
    <2>2. QED
      BY <1>1, <1>3, <1>5, <2>1 DEF OneBusy, Busy
  <1>9. \A e \in EntryIds : StorePart(e)'
    <2> SUFFICES ASSUME NEW e \in EntryIds, submitted[e] = 1,
                        calls'[c].step = "save_request" => calls'[c].id # e
                 PROVE  StoredAgree(e)'
      BY <1>1 DEF StorePart
    <2>1. CASE calls[c].id = e
      <3>1. calls[c].request = None
        BY <1>3, <1>6, <2>1
      <3>2. PICK u \in Users, lines \in Drafts, requirement \in Requirements \cup {None} :
                Story(e, u, lines, requirement)
        BY DEF OneStory
      <3>3. CallStory(c, e, u, lines, requirement) /\ RequestStory(e, u, lines, requirement)
        BY <3>2, StoryParts
      <3>4. requirement = None
        BY <1>3, <2>1, <3>1, <3>3 DEF CallStory, CallOf
      <3>5. requests'[e] = None
        BY <1>1, <3>3, <3>4 DEF RequestStory
      <3>6. QED
        BY <3>5 DEF StoredAgree
    <2>2. CASE calls[c].id # e
      <3>1. StoredAgree(e)
        BY <1>5, <1>8 DEF StorePart
      <3>2. entries'[e] = entries[e] /\ requests'[e] = requests[e] /\ grounds'[e] = grounds[e]
        BY <1>1, <1>2, <1>4, <2>2
      <3>3. QED
        BY <3>1, <3>2, StoredAgreeKept
    <2>3. QED
      BY <2>1, <2>2
  <1>10. CallPart(c)'
    <2> SUFFICES ASSUME calls'[c] # Idle, submitted[calls'[c].id] = 1 PROVE CallAgrees(c)'
      BY <1>1 DEF CallPart, Busy
    <2>1. /\ calls[c].request # None
          /\ calls'[c].step = "save_request" /\ calls'[c].id = calls[c].id
          /\ calls'[c].entry = calls[c].entry /\ calls'[c].request = calls[c].request
      BY <1>3, <1>6 DEF AfterEntry
    <2>2. CallAgrees(c)
      BY <1>3, <1>5, <2>1 DEF CallPart
    <2>3. Agree(calls[c].entry, calls[c].request)
      BY <1>3, <2>1, <2>2 DEF CallAgrees
    <2>4. Agree(calls[c].entry, calls[c].request)'
      BY <2>1, <2>3 DEF Agree, StatusAfter
    <2>5. entries'[calls[c].id] = calls[c].entry
      BY <1>1, <1>3, <1>4
    <2>6. calls[c].request.status = "Approved"
            => grounds'[calls[c].id] = calls[c].request.decisions
      BY <1>2, <1>3, <1>4, <2>1
    <2>7. QED
      BY <2>1, <2>4, <2>5, <2>6 DEF CallAgrees
  <1>11. \A d \in Callers : CallPart(d)'
    BY <1>6, <1>10 DEF CallPart, Busy
  <1>12. QED
    BY <1>7, <1>9, <1>11, OrderlyPartsNext

LEMMA SaveRequestOrderly ==
    ASSUME CopiesSound, Orderly, NEW c \in Callers, save_approval_request(c)
    PROVE  Orderly'
  <1> SUFFICES ASSUME ~disturbed' PROVE Orderly'
    BY OrderlyPartsNext
  <1>1. /\ calls[c].step = "save_request"
        /\ requests' = [requests EXCEPT ![calls[c].id] = calls[c].request]
        /\ calls' = [calls EXCEPT ![c] = Idle]
        /\ UNCHANGED <<members, entries, grounds, submitted, disturbed>>
    BY DEF save_approval_request
  <1>2. /\ Busy(c) /\ Saving(c) /\ calls[c].id \in EntryIds /\ calls[c].request # None
        /\ calls[c].entry \in Entry
    BY <1>1, SaveRequestHolds
  <1>3. /\ calls \in [Callers -> Call]
        /\ requests \in [EntryIds -> ApprovalRequest \cup {None}]
    BY DEF CopiesSound, TypeOK
  <1>4. OneBusy /\ CallPart(c) /\ \A e \in EntryIds : StorePart(e)
    BY <1>1, OrderlyParts
  <1>5. \A d \in Callers : calls'[d] = Idle
    BY <1>1, <1>2, <1>3, <1>4 DEF OneBusy, Busy
  <1>6. OneBusy' /\ \A d \in Callers : CallPart(d)'
    BY <1>5 DEF OneBusy, CallPart, Busy
  <1>7. \A e \in EntryIds : StorePart(e)'
    <2> SUFFICES ASSUME NEW e \in EntryIds, submitted[e] = 1 PROVE StoredAgree(e)'
      BY <1>1 DEF StorePart
    <2>1. CASE calls[c].id = e
      <3>1. requests'[e] = calls[c].request
        BY <1>1, <1>3, <2>1
      <3>2. CallAgrees(c)
        BY <1>2, <1>4, <2>1 DEF CallPart
      <3>3. /\ Agree(calls[c].entry, calls[c].request) /\ entries[e] = calls[c].entry
            /\ calls[c].request.status = "Approved" => grounds[e] = calls[c].request.decisions
        BY <1>1, <1>2, <2>1, <3>2 DEF CallAgrees
      <3>4. entries'[e] = entries[e] /\ entries[e] # None
        BY <1>1, <1>2, <3>3, NoDocument
      <3>5. QED
        BY <1>1, <3>1, <3>3, <3>4 DEF StoredAgree, Agree, StatusAfter
    <2>2. CASE calls[c].id # e
      <3>1. \A d \in Callers : calls[d].step = "save_request" => calls[d].id # e
        <4>1. Idle.step # "save_request"
          BY DEF Idle
        <4>2. QED
          BY <1>2, <1>4, <2>2, <4>1 DEF OneBusy, Busy
      <3>2. StoredAgree(e)
        BY <1>4, <3>1 DEF StorePart
      <3>3. requests'[e] = requests[e]
        BY <1>1, <1>3, <2>2
      <3>4. QED
        BY <1>1, <3>2, <3>3, StoredAgreeKept
    <2>3. QED
      BY <2>1, <2>2
  <1>8. QED
    BY <1>6, <1>7, OrderlyPartsNext

LEMMA StepOrderly ==
    ASSUME CopiesSound, OneStory, Orderly, [Next]_vars
    PROVE  Orderly'
  <1>1. ASSUME UNCHANGED <<entries, requests, calls, grounds, submitted, disturbed>>
        PROVE  Orderly'
    BY <1>1 DEF Orderly, Busy, Saving, StoredAgree, CallAgrees, Agree, StatusAfter
  <1>2. ASSUME NEW m \in NewMembers, save_member(m) PROVE Orderly'
    BY <1>1, <1>2 DEF save_member
  <1>3. CASE UNCHANGED vars
    BY <1>1, <1>3 DEF vars
  <1>4. CASE Next
    BY <1>2, <1>4, SubmitOrderly, ReadOrderly, DecideOrderly, EndOrderly, SaveEntryOrderly,
       SaveRequestOrderly DEF Next
  <1>5. QED
    BY <1>3, <1>4

(***************************************************************************)
(* While no calls have overlapped and none has died between its saves, an  *)
(* entry and its request tell the same story between any two calls.        *)
(***************************************************************************)
THEOREM AlwaysAgreeUndisturbed == Spec => []UndisturbedAgree
  <1>1. Init => Orderly
    BY DEF Init, Orderly, Busy, StoredAgree
  <1>2. CopiesSound /\ OneStory /\ Orderly /\ [Next]_vars => Orderly'
    BY StepOrderly
  <1>3. Orderly => UndisturbedAgree
    <2> SUFFICES ASSUME Orderly, ~disturbed, Alone,
                        NEW e \in EntryIds, requests[e] # None, submitted[e] = 1
                 PROVE  /\ entries[e] # None
                        /\ Agree(entries[e], requests[e])
                        /\ requests[e].status = "Approved" => grounds[e] = requests[e].decisions
      BY DEF UndisturbedAgree, Agree, StatusAfter
    <2>1. \A c \in Callers : calls[c].step # "save_request"
      BY DEF Alone, Idle
    <2>2. StoredAgree(e)
      BY <2>1, OrderlyParts DEF StorePart
    <2>3. QED
      BY <2>2 DEF StoredAgree
  <1>4. QED
    BY <1>1, <1>2, <1>3, OneStoryAlways, PTL DEF Spec

-----------------------------------------------------------------------------
(* What a balanced draft is worth.                                         *)

\* The amounts of one side of the lines.
WeightOf(lines, side) ==
    [i \in DOMAIN lines |-> IF lines[i].side = side THEN lines[i].amount ELSE 0]

(***************************************************************************)
(* The fold of a draft's lines is the sum over their positions, however    *)
(* it is taken apart.                                                      *)
(***************************************************************************)
LEMMA LineTotalIsSum ==
    ASSUME NEW lines \in Drafts, NEW side
    PROVE  /\ IsFiniteSet(DOMAIN lines)
           /\ \A i \in DOMAIN lines : lines[i] \in JournalLine
           /\ LineTotal(lines, side) = SumFunctionOnSet(WeightOf(lines, side), DOMAIN lines)
  <1> DEFINE D == DOMAIN lines
             w == WeightOf(lines, side)
             Totals(g) == g = [s \in SUBSET D |->
                                 IF s = {} THEN 0
                                 ELSE IF lines[AnyOf(s)].side = side
                                      THEN g[s \ {AnyOf(s)}] + lines[AnyOf(s)].amount
                                      ELSE g[s \ {AnyOf(s)}]]
             G == CHOOSE g : Totals(g)
  <1>1. lines \in Seq(JournalLine)
    BY JournalConstants
  <1>2. IsFiniteSet(D) /\ \A i \in D : lines[i] \in JournalLine
    <2>1. Len(lines) \in Nat /\ D = 1 .. Len(lines) /\ \A i \in D : lines[i] \in JournalLine
      BY <1>1
    <2>2. 1 \in Int /\ Len(lines) \in Int
      BY <2>1
    <2> QED BY <2>1, <2>2, FS_Interval
  <1>3. \A i \in D : w[i] \in Int /\ w[i] = IF lines[i].side = side THEN lines[i].amount ELSE 0
    BY <1>2 DEF WeightOf, JournalLine
  <1>4. \A s \in SUBSET D : IsFiniteSet(s) /\ SumFunctionOnSet(w, s) \in Int
    <2> HIDE DEF D, w
    <2> QED BY <1>2, <1>3, FS_Subset, SumInt
  <1>5. ASSUME NEW s \in SUBSET D, s # {}
        PROVE  /\ AnyOf(s) \in s
               /\ SumFunctionOnSet(w, s) = IF lines[AnyOf(s)].side = side
                     THEN SumFunctionOnSet(w, s \ {AnyOf(s)}) + lines[AnyOf(s)].amount
                     ELSE SumFunctionOnSet(w, s \ {AnyOf(s)})
    <2> DEFINE a == AnyOf(s)
    <2> HIDE DEF D, w
    <2>1. a \in s /\ SumFunctionOnSet(w, s) = w[a] + SumFunctionOnSet(w, s \ {a})
      BY <1>4, <1>5, SumStep
    <2> HIDE DEF a
    <2>2. SumFunctionOnSet(w, s \ {a}) \in Int
      BY <1>4
    <2>3. w[a] \in Int /\ w[a] = IF lines[a].side = side THEN lines[a].amount ELSE 0
      BY <1>3, <2>1
    <2>4. SumFunctionOnSet(w, s) = IF lines[a].side = side
                                   THEN SumFunctionOnSet(w, s \ {a}) + lines[a].amount
                                   ELSE SumFunctionOnSet(w, s \ {a})
      BY <2>1, <2>2, <2>3
    <2> QED BY <2>1, <2>4 DEF a
  <1>6. Totals(G)
    <2> DEFINE g == [s \in SUBSET D |-> SumFunctionOnSet(w, s)]
    <2>1. Totals(g)
      <3> HIDE DEF D, w
      <3> QED BY <1>5, SumEmpty
    <2> HIDE DEF g, Totals
    <2> QED BY <2>1
  <1>7. LineTotal(lines, side) = G[D]
    BY DEF LineTotal, FoldSeq, FoldFunction, FoldFunctionOnSet, MapThenFoldSet, AnyOf
  <1>8. \A s \in SUBSET D : G[s] = SumFunctionOnSet(w, s)
    <2> HIDE DEF D, w, G
    <2> DEFINE T == {s \in SUBSET D : G[s] = SumFunctionOnSet(w, s)}
    <2>1. ASSUME NEW s \in SUBSET D, \A x \in s : s \ {x} \in T PROVE s \in T
      <3>1. CASE s = {}
        BY <1>6, <3>1, SumEmpty
      <3>2. CASE s # {}
        <4> DEFINE a == AnyOf(s)
        <4>1. G[s] = IF lines[a].side = side THEN G[s \ {a}] + lines[a].amount ELSE G[s \ {a}]
          BY <1>6, <3>2
        <4>2. /\ a \in s
              /\ SumFunctionOnSet(w, s) = IF lines[a].side = side
                    THEN SumFunctionOnSet(w, s \ {a}) + lines[a].amount
                    ELSE SumFunctionOnSet(w, s \ {a})
          BY <1>5, <3>2
        <4> HIDE DEF a
        <4>3. G[s \ {a}] = SumFunctionOnSet(w, s \ {a})
          BY <2>1, <4>2
        <4> QED BY <4>1, <4>2, <4>3
      <3> QED BY <3>1, <3>2
    <2>2. SUBSET D \subseteq T
      <3> HIDE DEF T
      <3> QED BY <1>2, <2>1, SubsetsByInduction
    <2> QED BY <2>2
  <1> QED BY <1>2, <1>7, <1>8

\* Debits count as they are, credits against them.
SignedOf(lines) ==
    [i \in DOMAIN lines |-> IF lines[i].side = "Debit" THEN lines[i].amount ELSE -lines[i].amount]

\* The fold of Balanced, by a name of its own.
SignedTotal(lines) ==
    FoldSeq(LAMBDA l, sum : IF l.side = "Debit" THEN sum + l.amount ELSE sum - l.amount,
            0, lines)

LEMMA SignedTotalIsSum ==
    ASSUME NEW lines \in Drafts
    PROVE  /\ IsFiniteSet(DOMAIN lines)
           /\ \A i \in DOMAIN lines : lines[i] \in JournalLine
           /\ SignedTotal(lines) = SumFunctionOnSet(SignedOf(lines), DOMAIN lines)
  <1> DEFINE D == DOMAIN lines
             w == SignedOf(lines)
             Totals(g) == g = [s \in SUBSET D |->
                                 IF s = {} THEN 0
                                 ELSE IF lines[AnyOf(s)].side = "Debit"
                                      THEN g[s \ {AnyOf(s)}] + lines[AnyOf(s)].amount
                                      ELSE g[s \ {AnyOf(s)}] - lines[AnyOf(s)].amount]
             G == CHOOSE g : Totals(g)
  <1>1. lines \in Seq(JournalLine)
    BY JournalConstants
  <1>2. IsFiniteSet(D) /\ \A i \in D : lines[i] \in JournalLine
    <2>1. Len(lines) \in Nat /\ D = 1 .. Len(lines) /\ \A i \in D : lines[i] \in JournalLine
      BY <1>1
    <2>2. 1 \in Int /\ Len(lines) \in Int
      BY <2>1
    <2> QED BY <2>1, <2>2, FS_Interval
  <1>3. \A i \in D : w[i] \in Int /\ w[i] = IF lines[i].side = "Debit" THEN lines[i].amount ELSE -lines[i].amount
    BY <1>2 DEF SignedOf, JournalLine
  <1>4. \A s \in SUBSET D : IsFiniteSet(s) /\ SumFunctionOnSet(w, s) \in Int
    <2> HIDE DEF D, w
    <2> QED BY <1>2, <1>3, FS_Subset, SumInt
  <1>5. ASSUME NEW s \in SUBSET D, s # {}
        PROVE  /\ AnyOf(s) \in s
               /\ SumFunctionOnSet(w, s) = IF lines[AnyOf(s)].side = "Debit"
                     THEN SumFunctionOnSet(w, s \ {AnyOf(s)}) + lines[AnyOf(s)].amount
                     ELSE SumFunctionOnSet(w, s \ {AnyOf(s)}) - lines[AnyOf(s)].amount
    <2> DEFINE a == AnyOf(s)
    <2> HIDE DEF D, w
    <2>1. a \in s /\ SumFunctionOnSet(w, s) = w[a] + SumFunctionOnSet(w, s \ {a})
      BY <1>4, <1>5, SumStep
    <2> HIDE DEF a
    <2>2. SumFunctionOnSet(w, s \ {a}) \in Int
      BY <1>4
    <2>3. w[a] \in Int /\ w[a] = IF lines[a].side = "Debit" THEN lines[a].amount ELSE -lines[a].amount
      BY <1>3, <2>1
    <2>4. lines[a].amount \in Int
      BY <1>2, <2>1 DEF JournalLine
    <2> DEFINE rest == SumFunctionOnSet(w, s \ {a})
    <2>5. rest \in Int /\ SumFunctionOnSet(w, s) = w[a] + rest
      BY <2>1, <2>2
    <2> HIDE DEF rest
    <2>6. SumFunctionOnSet(w, s) = IF lines[a].side = "Debit" THEN rest + lines[a].amount
                                                             ELSE rest - lines[a].amount
      BY <2>3, <2>4, <2>5
    <2>7. SumFunctionOnSet(w, s) = IF lines[a].side = "Debit"
                                   THEN SumFunctionOnSet(w, s \ {a}) + lines[a].amount
                                   ELSE SumFunctionOnSet(w, s \ {a}) - lines[a].amount
      BY <2>6 DEF rest
    <2> QED BY <2>1, <2>7 DEF a
  <1>6. Totals(G)
    <2> DEFINE g == [s \in SUBSET D |-> SumFunctionOnSet(w, s)]
    <2>1. Totals(g)
      <3> HIDE DEF D, w
      <3> QED BY <1>5, SumEmpty
    <2> HIDE DEF g, Totals
    <2> QED BY <2>1
  <1>7. SignedTotal(lines) = G[D]
    BY DEF SignedTotal, FoldSeq, FoldFunction, FoldFunctionOnSet, MapThenFoldSet, AnyOf
  <1>8. \A s \in SUBSET D : G[s] = SumFunctionOnSet(w, s)
    <2> HIDE DEF D, w, G
    <2> DEFINE T == {s \in SUBSET D : G[s] = SumFunctionOnSet(w, s)}
    <2>1. ASSUME NEW s \in SUBSET D, \A x \in s : s \ {x} \in T PROVE s \in T
      <3>1. CASE s = {}
        BY <1>6, <3>1, SumEmpty
      <3>2. CASE s # {}
        <4> DEFINE a == AnyOf(s)
        <4>1. G[s] = IF lines[a].side = "Debit" THEN G[s \ {a}] + lines[a].amount ELSE G[s \ {a}] - lines[a].amount
          BY <1>6, <3>2
        <4>2. /\ a \in s
              /\ SumFunctionOnSet(w, s) = IF lines[a].side = "Debit"
                    THEN SumFunctionOnSet(w, s \ {a}) + lines[a].amount
                    ELSE SumFunctionOnSet(w, s \ {a}) - lines[a].amount
          BY <1>5, <3>2
        <4> HIDE DEF a
        <4>3. G[s \ {a}] = SumFunctionOnSet(w, s \ {a})
          BY <2>1, <4>2
        <4> QED BY <4>1, <4>2, <4>3
      <3> QED BY <3>1, <3>2
    <2>2. SUBSET D \subseteq T
      <3> HIDE DEF T
      <3> QED BY <1>2, <2>1, SubsetsByInduction
    <2> QED BY <2>2
  <1> QED BY <1>2, <1>7, <1>8

\* Equal sides cancel out.
LEMMA ValidBalances ==
    ASSUME NEW lines \in Drafts, validate(lines)
    PROVE  Balanced(lines)
  <1> DEFINE D == DOMAIN lines
             d == WeightOf(lines, "Debit")
             c == WeightOf(lines, "Credit")
             v == SignedOf(lines)
  <1>1. IsFiniteSet(D) /\ \A i \in D : lines[i] \in JournalLine
    BY LineTotalIsSum
  <1>2. \A i \in D : d[i] \in Int /\ c[i] \in Int /\ v[i] = d[i] - c[i]
    BY <1>1 DEF WeightOf, SignedOf, JournalLine
  <1>3. /\ LineTotal(lines, "Debit") = SumFunctionOnSet(d, D)
        /\ LineTotal(lines, "Credit") = SumFunctionOnSet(c, D)
        /\ SignedTotal(lines) = SumFunctionOnSet(v, D)
    BY LineTotalIsSum, SignedTotalIsSum
  <1>4. SumFunctionOnSet(d, D) = SumFunctionOnSet(c, D)
    BY <1>3 DEF validate
  <1> HIDE DEF D, d, c, v
  <1>5. SumFunctionOnSet(d, D) \in Int
    BY <1>1, <1>2, SumInt
  <1>6. SumFunctionOnSet(v, D) = SumFunctionOnSet(d, D) - SumFunctionOnSet(c, D)
    BY <1>1, <1>2, SumMinus
  <1>7. SignedTotal(lines) = 0
    BY <1>3, <1>4, <1>5, <1>6
  <1> QED BY <1>7 DEF Balanced, SignedTotal

(***************************************************************************)
(* Debits and credits of every posted entry cancel out: what validate      *)
(* compared when the entry was proposed is what the book gets.             *)
(***************************************************************************)
THEOREM PostedAlwaysBalanced == Spec => []PostedBalanced
  <1>1. CopiesSound => PostedBalanced
    <2> SUFFICES ASSUME CopiesSound, NEW e \in EntryIds, entries[e] # None
                 PROVE  Balanced(entries[e].lines)
      BY DEF PostedBalanced
    <2>1. entries[e].lines \in Drafts /\ validate(entries[e].lines)
      BY DEF CopiesSound, TypeOK, Entry
    <2> QED BY <2>1, ValidBalances
  <1> QED BY <1>1, CopiesAlwaysSound, PTL
=============================================================================
