---------------------------- MODULE Permissions ----------------------------
(***************************************************************************)
(* The authorization table of cloudledger-core (permissions.rs).  A       *)
(* personal ledger is open to its owner only; on an organization's public  *)
(* ledger the membership role decides.  Owner and Admin administer         *)
(* accounts in the backend and have no business permission at all.         *)
(***************************************************************************)

\* types.rs: MembershipRole.
MembershipRole ==
    {"Owner", "Admin", "BusinessOwner", "Employee",
     "Accountant", "Approver", "Member", "Viewer"}

\* permissions.rs: Action.
Action ==
    {"ViewLedger", "CreateTransaction", "SubmitTransaction",
     "ApproveTransaction", "MarkTransactionPaid", "ConfirmReceipt",
     "EditApprovedTransaction", "VoidTransaction", "ExportLedger",
     "ManageAccounts", "ManageMembers", "ViewAuditLog",
     "ViewFinancialAnalytics"}

\* What the owner of a personal ledger may do with it.
PersonalActions ==
    {"ViewLedger", "CreateTransaction", "SubmitTransaction",
     "VoidTransaction", "ExportLedger", "ManageAccounts", "ViewAuditLog"}

EmployeeActions ==
    {"ViewLedger", "CreateTransaction", "SubmitTransaction",
     "ConfirmReceipt", "ViewAuditLog"}

ApproverActions ==
    EmployeeActions \cup
    {"ApproveTransaction", "MarkTransactionPaid", "ExportLedger",
     "ManageAccounts", "ViewFinancialAnalytics"}

\* A mutant of the role table: the technical Owner gets business permissions.
OwnerActsAsBusinessOwner(role) ==
    CASE role \in {"BusinessOwner", "Owner"} -> ApproverActions \cup {"VoidTransaction"}
      [] role = "Approver" -> ApproverActions
      [] role \in {"Employee", "Accountant", "Member"} -> EmployeeActions
      [] role = "Viewer" -> {"ViewLedger", "ViewAuditLog"}
      [] OTHER -> {}

\* What a role may do on its organization's public ledger; a user without a
\* membership, an Owner and an Admin may do nothing.
can_perform_organization(role) ==
    CASE role = "BusinessOwner" -> ApproverActions \cup {"VoidTransaction"}
      [] role = "Approver" -> ApproverActions
      [] role \in {"Employee", "Accountant", "Member"} -> EmployeeActions
      [] role = "Viewer" -> {"ViewLedger", "ViewAuditLog"}
      [] OTHER -> {}
=============================================================================
