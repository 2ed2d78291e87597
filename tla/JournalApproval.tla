-------------------------- MODULE JournalApproval --------------------------
(***************************************************************************)
(* The double-entry book service (cloudledger-service: service.rs; its     *)
(* domain in cloudledger-core: journal.rs, approval.rs, auth.rs,           *)
(* ledger.rs; its repositories in cloudledger-db).                         *)
(*                                                                         *)
(* A call reads and writes through the repository, one document at a time  *)
(* and without a transaction: between two repository calls other callers   *)
(* take theirs, and a call may fail or die between its two saves.          *)
(***************************************************************************)
EXTENDS Integers, Sequences, FiniteSets, SequencesExt

CONSTANTS
    Users,
    EntryIds,       \* the approval request of entry e has the id "approval:e"
    Currencies,
    Drafts,         \* the lines an entry may be submitted with
    Book,           \* the ledger: its kind, owner and approval policy
    InitialMembers, \* its memberships at first
    NewMembers,     \* memberships that may be added
    Callers,        \* calls that may be under way at the same time
    MaxSubmissions, \* bound on the submissions under one id
    None

LedgerRole == {"Owner", "Bookkeeper", "Approver", "Auditor"}
Member == [user : Users, role : LedgerRole]
JournalStatus == {"PendingApproval", "Posted", "Rejected"}
ApprovalStatus == {"Pending", "Approved", "Rejected"}
ApprovalVote == {"Approve", "Reject"}

\* Amounts are in minor units; an account is not told from another.
JournalLine == [side : {"Debit", "Credit"}, amount : Int, currency : Currencies]

ASSUME JournalConstants ==
    /\ Drafts \subseteq Seq(JournalLine)
    /\ InitialMembers \subseteq Member /\ NewMembers \subseteq Member
    /\ Book.min_approvals \in Nat
    /\ MaxSubmissions \in Nat
    /\ None \notin Users

Requirement == [min_approvals : Nat, required_roles : SUBSET LedgerRole]

\* A decision remembers the lines it was made on.
Decision == [approver : Users, role : LedgerRole, vote : ApprovalVote, on : Drafts]
Entry == [created_by : Users, lines : Drafts, status : JournalStatus]
ApprovalRequest ==
    [submitted_by : Users, requirement : Requirement,
     status : ApprovalStatus, decisions : Seq(Decision)]

ASSUME NoDocument == None \notin Entry /\ None \notin ApprovalRequest

VARIABLES
    members,   \* the stored memberships
    entries,   \* the stored journal entries
    requests,  \* the stored approval requests
    calls,     \* the calls under way, with what they have read
    grounds,   \* the decisions for which an entry was last posted
    submitted, \* how often each id was submitted
    disturbed  \* calls have overlapped, or one ended between its saves

vars == <<members, entries, requests, calls, grounds, submitted, disturbed>>

Idle == [step |-> "idle"]

\* What a call still has to do, and the documents it works on.
SaveCall ==
    [step : {"save_entry", "save_request"}, id : EntryIds, entry : Entry,
     request : ApprovalRequest \cup {None}]

ReadCall ==
    [step : {"read_entry"}, id : EntryIds, actor : Users, vote : ApprovalVote,
     request : ApprovalRequest]

Call == {Idle} \cup SaveCall \cup ReadCall

TypeOK ==
    /\ members \subseteq Member
    /\ entries \in [EntryIds -> Entry \cup {None}]
    /\ requests \in [EntryIds -> ApprovalRequest \cup {None}]
    /\ calls \in [Callers -> Call]
    /\ grounds \in [EntryIds -> Seq(Decision)]
    /\ submitted \in [EntryIds -> 0 .. MaxSubmissions]
    /\ disturbed \in BOOLEAN

Init ==
    /\ members = InitialMembers
    /\ entries = [e \in EntryIds |-> None]
    /\ requests = [e \in EntryIds |-> None]
    /\ calls = [c \in Callers |-> Idle]
    /\ grounds = [e \in EntryIds |-> <<>>]
    /\ submitted = [e \in EntryIds |-> 0]
    /\ disturbed = FALSE

-----------------------------------------------------------------------------
(* Roles and permissions.                                                  *)

roles_for(u) ==
    {m.role : m \in {x \in members : x.user = u}}
    \cup {r \in {"Owner"} : Book.kind = "PersonalPrivate" /\ Book.owner = u}

role_allows(role) ==
    CASE role = "Owner"      -> {"SubmitEntry", "ApproveEntry", "PostWithoutApproval"}
      [] role = "Bookkeeper" -> {"SubmitEntry"}
      [] role = "Approver"   -> {"ApproveEntry"}
      [] role = "Auditor"    -> {}

has_permission(u, action) == \E r \in roles_for(u) : action \in role_allows(r)

-----------------------------------------------------------------------------
(* Journal entries.                                                        *)

LineTotal(lines, side) ==
    FoldSeq(LAMBDA l, sum : IF l.side = side THEN sum + l.amount ELSE sum, 0, lines)

\* Mutant: the two totals are not compared.
TotalsIgnored(lines) ==
    /\ Len(lines) >= 2
    /\ \A i \in DOMAIN lines : lines[i].amount > 0 /\ lines[i].currency = lines[1].currency

validate(lines) ==
    /\ Len(lines) >= 2
    /\ \A i \in DOMAIN lines : lines[i].amount > 0 /\ lines[i].currency = lines[1].currency
    /\ LineTotal(lines, "Debit") = LineTotal(lines, "Credit")

\* largest_line_amount compared with the policy's threshold, in its currency.
high_value(lines) ==
    LET top == CHOOSE i \in DOMAIN lines : \A j \in DOMAIN lines : lines[j].amount <= lines[i].amount
    IN  /\ lines[top].currency = Book.high_value_threshold.currency
        /\ lines[top].amount >= Book.high_value_threshold.minor_units

-----------------------------------------------------------------------------
(* Approval requests.                                                      *)

RequiredFrom(roles) ==
    [min_approvals |-> IF Book.min_approvals > 1 THEN Book.min_approvals ELSE 1,
     required_roles |-> roles]

\* approval_requirement: None when none is required.
approval_requirement(actor_roles, lines) ==
    CASE Book.kind = "PersonalPrivate" -> None
      [] Book.kind = "CompanyPublic" /\ high_value(lines) -> RequiredFrom({"Owner"})
      [] Book.kind = "CompanyPublic" /\ ~high_value(lines)
         /\ Book.company_entries_require_approval /\ "Owner" \notin actor_roles
            -> RequiredFrom({"Approver", "Owner"})
      [] OTHER -> None

\* accepted_role: the first of the required roles that the actor has.
accepted_role(requirement, roles) ==
    IF "Approver" \in requirement.required_roles \cap roles THEN "Approver" ELSE "Owner"

Accepts(requirement, roles) == requirement.required_roles \cap roles # {}

approval_count(decisions) ==
    Cardinality({i \in DOMAIN decisions : decisions[i].vote = "Approve"})

StatusOf(decisions, requirement) ==
    CASE \E i \in DOMAIN decisions : decisions[i].vote = "Reject" -> "Rejected"
      [] (\A i \in DOMAIN decisions : decisions[i].vote # "Reject")
         /\ approval_count(decisions) >= requirement.min_approvals -> "Approved"
      [] OTHER -> "Pending"

\* Mutant: somebody may decide twice.
AnyoneMayDecide(request, approver) == request.status = "Pending"

\* add_decision takes one more decision while the request is open.
MayDecide(request, approver) ==
    /\ request.status = "Pending"
    /\ \A i \in DOMAIN request.decisions : request.decisions[i].approver # approver

add_decision(request, decision) ==
    LET decisions == Append(request.decisions, decision)
    IN  [request EXCEPT !.decisions = decisions,
                        !.status = StatusOf(decisions, request.requirement)]

-----------------------------------------------------------------------------
(* submit_entry.                                                           *)

Alone == \A c \in Callers : calls[c] = Idle

NewRequest(actor, requirement) ==
    [submitted_by |-> actor, requirement |-> requirement,
     status |-> "Pending", decisions |-> <<>>]

\* The entry and, where approval is required, the request to be saved.
Submission(id, actor, lines, requirement) ==
    [step |-> "save_entry", id |-> id,
     entry |-> [created_by |-> actor, lines |-> lines,
                status |-> IF requirement = None THEN "Posted" ELSE "PendingApproval"],
     request |-> IF requirement = None THEN None ELSE NewRequest(actor, requirement)]

\* Reads the ledger and its members, validates and decides what to save.  The
\* id may have been used before: nothing in the service forbids it.
submit_entry(c, actor, id, lines) ==
    LET requirement == approval_requirement(roles_for(actor), lines)
    IN  /\ calls[c] = Idle /\ submitted[id] < MaxSubmissions
        /\ has_permission(actor, "SubmitEntry")
        /\ validate(lines)
        /\ requirement = None => has_permission(actor, "PostWithoutApproval")
        /\ calls' = [calls EXCEPT ![c] = Submission(id, actor, lines, requirement)]
        /\ submitted' = [submitted EXCEPT ![id] = @ + 1]
        /\ disturbed' = (disturbed \/ ~Alone)
        /\ UNCHANGED <<members, entries, requests, grounds>>

-----------------------------------------------------------------------------
(* decide_approval.                                                        *)

\* get_approval_request; the request may not exist.
read_request(c, actor, id, vote) ==
    /\ calls[c] = Idle /\ requests[id] # None
    /\ calls' = [calls EXCEPT ![c] = [step |-> "read_entry", id |-> id, actor |-> actor,
                                      vote |-> vote, request |-> requests[id]]]
    /\ disturbed' = (disturbed \/ ~Alone)
    /\ UNCHANGED <<members, entries, requests, grounds, submitted>>

\* Mutant: the submitter is not asked to stay out.
ApproverMayBeSubmitter(request, actor) ==
    /\ has_permission(actor, "ApproveEntry")
    /\ Accepts(request.requirement, roles_for(actor))
    /\ MayDecide(request, actor)

Acceptable(request, actor) ==
    /\ has_permission(actor, "ApproveEntry")
    /\ request.submitted_by # actor
    /\ Accepts(request.requirement, roles_for(actor))
    /\ MayDecide(request, actor)

\* Mutant: a rejection closes the request and leaves the entry.
EntryKeptOnRejection(entry, request) ==
    [entry EXCEPT !.status = IF request.status = "Approved" THEN "Posted" ELSE @]

EntryAfter(entry, request) ==
    [entry EXCEPT !.status = CASE request.status = "Approved" -> "Posted"
                               [] request.status = "Rejected" -> "Rejected"
                               [] request.status = "Pending"  -> @]

\* get_journal_entry, get_ledger, list_members and the decision.
decide_approval(c) ==
    /\ calls[c].step = "read_entry"
    /\ LET call == calls[c]
           entry == entries[call.id]
           role == accepted_role(call.request.requirement, roles_for(call.actor))
       IN  /\ entry # None /\ Acceptable(call.request, call.actor)
           /\ LET decided == add_decision(call.request,
                                [approver |-> call.actor, role |-> role,
                                 vote |-> call.vote, on |-> entry.lines])
              IN  calls' = [calls EXCEPT ![c] =
                              [step |-> "save_entry", id |-> call.id,
                               entry |-> EntryAfter(entry, decided), request |-> decided]]
    /\ UNCHANGED <<members, entries, requests, grounds, submitted, disturbed>>

\* The entry is missing, or the decision is not acceptable.
decide_refused(c) ==
    /\ calls[c].step = "read_entry"
    /\ entries[calls[c].id] = None \/ ~Acceptable(calls[c].request, calls[c].actor)
    /\ calls' = [calls EXCEPT ![c] = Idle]
    /\ UNCHANGED <<members, entries, requests, grounds, submitted, disturbed>>

-----------------------------------------------------------------------------
(* The saves that end both calls, and what may happen around them.         *)

save_journal_entry(c) ==
    /\ calls[c].step = "save_entry"
    /\ LET call == calls[c]
       IN  /\ entries' = [entries EXCEPT ![call.id] = call.entry]
           /\ grounds' = IF call.request # None /\ call.request.status = "Approved"
                         THEN [grounds EXCEPT ![call.id] = call.request.decisions]
                         ELSE grounds
           /\ calls' = [calls EXCEPT ![c] = IF call.request = None THEN Idle
                                            ELSE [call EXCEPT !.step = "save_request"]]
    /\ UNCHANGED <<members, requests, submitted, disturbed>>

save_approval_request(c) ==
    /\ calls[c].step = "save_request"
    /\ requests' = [requests EXCEPT ![calls[c].id] = calls[c].request]
    /\ calls' = [calls EXCEPT ![c] = Idle]
    /\ UNCHANGED <<members, entries, grounds, submitted, disturbed>>

\* The repository reports an error, or the process ends.
fail(c) ==
    /\ calls[c] # Idle
    /\ calls' = [calls EXCEPT ![c] = Idle]
    /\ disturbed' = (disturbed \/ calls[c].step = "save_request")
    /\ UNCHANGED <<members, entries, requests, grounds, submitted>>

save_member(m) ==
    /\ members' = members \cup {m}
    /\ UNCHANGED <<entries, requests, calls, grounds, submitted, disturbed>>

Next ==
    \/ \E c \in Callers :
          \/ \E u \in Users, e \in EntryIds :
                \/ \E lines \in Drafts : submit_entry(c, u, e, lines)
                \/ \E vote \in ApprovalVote : read_request(c, u, e, vote)
          \/ decide_approval(c) \/ decide_refused(c)
          \/ save_journal_entry(c) \/ save_approval_request(c)
          \/ fail(c)
    \/ \E m \in NewMembers : save_member(m)

Spec == Init /\ [][Next]_vars

-----------------------------------------------------------------------------
(* Properties.                                                             *)

\* What every copy of a request satisfies, stored or in a caller's hands.
SoundRequest(r) ==
    /\ \A i, j \in DOMAIN r.decisions :
          i # j => r.decisions[i].approver # r.decisions[j].approver
    /\ \A i \in DOMAIN r.decisions : /\ r.decisions[i].approver # r.submitted_by
                                     /\ r.decisions[i].role \in r.requirement.required_roles
    /\ r.requirement.min_approvals >= 1
    /\ r.status = StatusOf(r.decisions, r.requirement)

(***************************************************************************)
(* However calls overlap, fail and repeat: the decisions of a request come *)
(* from different people, none of them the submitter and each in a role    *)
(* that was required, and its status is what they amount to                *)
(* (ApprovalRequest::add_decision, LedgerService::decide_approval).        *)
(***************************************************************************)
RequestsSound ==
    /\ \A e \in EntryIds : requests[e] # None => SoundRequest(requests[e])
    /\ \A c \in Callers :
          calls[c] # Idle /\ calls[c].request # None => SoundRequest(calls[c].request)

\* What balances, said without the two totals of validate.
Balanced(lines) ==
    FoldSeq(LAMBDA l, sum : IF l.side = "Debit" THEN sum + l.amount ELSE sum - l.amount,
            0, lines) = 0

(***************************************************************************)
(* Nothing out of balance is ever posted: JournalEntry::validate compares  *)
(* the totals of both sides before an entry is saved, and no later call    *)
(* changes its lines.                                                      *)
(***************************************************************************)
PostedBalanced ==
    \A e \in EntryIds :
        entries[e] # None /\ entries[e].status = "Posted" => Balanced(entries[e].lines)

(***************************************************************************)
(* The four-eyes principle outlasts races and half-done calls: a posted    *)
(* entry is valid, and when its id was submitted once it is posted only    *)
(* without a request, by somebody who may post it, or on enough approvals  *)
(* by people other than its creator in the roles its amount calls for.     *)
(***************************************************************************)
PostedWithGrounds ==
    \A e \in EntryIds :
        entries[e] # None /\ entries[e].status = "Posted" =>
            /\ validate(entries[e].lines)
            /\ \/ submitted[e] > 1
               \/ approval_requirement(roles_for(entries[e].created_by), entries[e].lines) = None
               \/ LET needed == requests[e].requirement
                  IN  /\ approval_count(grounds[e]) >= needed.min_approvals
                      /\ high_value(entries[e].lines) => needed.required_roles = {"Owner"}
                      /\ \A i \in DOMAIN grounds[e] :
                            /\ grounds[e][i].approver # entries[e].created_by
                            /\ grounds[e][i].role \in needed.required_roles
                            /\ grounds[e][i].on = entries[e].lines

(***************************************************************************)
(* One call at a time, none of which died between its two saves: the entry *)
(* and its request always tell the same story.  With overlapping calls     *)
(* they need not: the service has no transaction around them.              *)
(***************************************************************************)
UndisturbedAgree ==
    ~disturbed /\ Alone =>
        \A e \in EntryIds :
            requests[e] # None /\ submitted[e] = 1 =>
                /\ entries[e] # None
                /\ entries[e].created_by = requests[e].submitted_by
                /\ entries[e].status = CASE requests[e].status = "Approved" -> "Posted"
                                         [] requests[e].status = "Rejected" -> "Rejected"
                                         [] requests[e].status = "Pending" -> "PendingApproval"
                /\ requests[e].status = "Approved" => grounds[e] = requests[e].decisions

-----------------------------------------------------------------------------
(* The inductive invariants behind these properties.                       *)

\* The requirements that approval_requirement can ask for.
Requirements == {RequiredFrom({"Owner"}), RequiredFrom({"Approver", "Owner"})}

Busy(c) == calls[c] # Idle

Saving(c) == calls[c].step \in {"save_entry", "save_request"}

(***************************************************************************)
(* Every copy of a request, stored or in a caller's hands, is sound and    *)
(* asks for what the policy can ask for; every copy of an entry is valid;  *)
(* a request is saved only where there is one.  Inductive on its own.      *)
(***************************************************************************)
CopiesSound ==
    /\ TypeOK
    /\ RequestsSound
    /\ \A e \in EntryIds : requests[e] # None => requests[e].requirement \in Requirements
    /\ \A e \in EntryIds : entries[e] # None => validate(entries[e].lines)
    /\ \A c \in Callers :
          /\ Busy(c) /\ calls[c].request # None => calls[c].request.requirement \in Requirements
          /\ Saving(c) => validate(calls[c].entry.lines)
          /\ calls[c].step = "save_request" => calls[c].request # None

\* A copy of the entry, of the request, stems from the submission by u of
\* these lines with this requirement.
EntryOf(entry, u, lines) == entry.created_by = u /\ entry.lines = lines

RequestOf(request, u, lines, requirement) ==
    /\ request.submitted_by = u /\ request.requirement = requirement
    /\ \A i \in DOMAIN request.decisions : request.decisions[i].on = lines

GoodGrounds(e, u, lines, requirement) ==
    /\ requests[e] # None
    /\ approval_count(grounds[e]) >= requirement.min_approvals
    /\ \A i \in DOMAIN grounds[e] : /\ grounds[e][i].approver # u
                                    /\ grounds[e][i].role \in requirement.required_roles
                                    /\ grounds[e][i].on = lines

\* What a call works on stems from that submission, and it posts the entry
\* only on good grounds, those it brings or those that are stored.
CallOf(c, e, u, lines, requirement) ==
    /\ calls[c].request = None => requirement = None
    /\ calls[c].request # None =>
          requirement # None /\ RequestOf(calls[c].request, u, lines, requirement)
    /\ calls[c].step = "read_entry" => requests[e] # None
    /\ Saving(c) =>
          /\ EntryOf(calls[c].entry, u, lines)
          /\ calls[c].request # None /\ calls[c].request.status = "Approved" => requests[e] # None
          /\ calls[c].entry.status = "Posted" =>
                \/ requirement = None
                \/ calls[c].request.status = "Approved"
                \/ GoodGrounds(e, u, lines, requirement)

Story(e, u, lines, requirement) ==
    /\ requirement = None => approval_requirement(roles_for(u), lines) = None
    /\ requirement # None /\ high_value(lines) => requirement.required_roles = {"Owner"}
    /\ entries[e] # None =>
          /\ EntryOf(entries[e], u, lines)
          /\ entries[e].status = "Posted" =>
                requirement = None \/ GoodGrounds(e, u, lines, requirement)
    /\ requests[e] # None => requirement # None /\ RequestOf(requests[e], u, lines, requirement)
    /\ \A c \in Callers : Busy(c) /\ calls[c].id = e => CallOf(c, e, u, lines, requirement)

\* Nothing is known of an id before it is submitted.
Unused(e) ==
    /\ entries[e] = None /\ requests[e] = None
    /\ \A c \in Callers : Busy(c) => calls[c].id # e

(***************************************************************************)
(* Everything about an id that was submitted once stems from that          *)
(* submission, whatever stale copies the callers hold.  Inductive together *)
(* with CopiesSound.                                                       *)
(***************************************************************************)
OneStory ==
    \A e \in EntryIds :
        /\ submitted[e] = 0 => Unused(e)
        /\ submitted[e] = 1 =>
              \E u \in Users, lines \in Drafts, requirement \in Requirements \cup {None} :
                  Story(e, u, lines, requirement)

StatusAfter(status) ==
    CASE status = "Approved" -> "Posted"
      [] status = "Rejected" -> "Rejected"
      [] status = "Pending" -> "PendingApproval"

\* An entry and a request tell the same story.
Agree(entry, request) ==
    /\ entry.created_by = request.submitted_by
    /\ entry.status = StatusAfter(request.status)

\* What the store says of an id between two calls.
StoredAgree(e) ==
    requests[e] # None =>
        /\ entries[e] # None /\ Agree(entries[e], requests[e])
        /\ requests[e].status = "Approved" => grounds[e] = requests[e].decisions

\* What an undisturbed call holds, and what it has saved already.
CallAgrees(c) ==
    LET e == calls[c].id
    IN  /\ calls[c].step = "read_entry" => calls[c].request = requests[e]
        /\ Saving(c) /\ calls[c].request # None => Agree(calls[c].entry, calls[c].request)
        /\ calls[c].step = "save_request" =>
              /\ entries[e] = calls[c].entry
              /\ calls[c].request.status = "Approved" => grounds[e] = calls[c].request.decisions

(***************************************************************************)
(* While no calls have overlapped and none has died between its saves:     *)
(* there is one call at most, it holds the request as it is stored, and    *)
(* entry and request agree, in the store and in its hands.  Inductive      *)
(* together with CopiesSound and OneStory.                                 *)
(***************************************************************************)
Orderly ==
    ~disturbed =>
        /\ \A c, d \in Callers : Busy(c) /\ Busy(d) => c = d
        /\ \A e \in EntryIds :
              /\ submitted[e] = 1
              /\ \A c \in Callers : calls[c].step = "save_request" => calls[c].id # e
              => StoredAgree(e)
        /\ \A c \in Callers : Busy(c) /\ submitted[calls[c].id] = 1 => CallAgrees(c)
=============================================================================
