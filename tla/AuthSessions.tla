---------------------------- MODULE AuthSessions ----------------------------
(***************************************************************************)
(* Accounts, app installations and sessions of the server (auth.rs), as    *)
(* the routes of auth_routes.rs and admin.rs use them: login, rotation of  *)
(* refresh tokens, logout, password changes and resets, expiry, restart;   *)
(* and the rows of PostgreSQL (replace_auth, load_auth) they are saved to  *)
(* and loaded from.                                                        *)
(*                                                                         *)
(* A route holds the write gate, works on a clone, saves it and publishes  *)
(* it.  When the call returns Err the clone is dropped, so an action that  *)
(* fails changes nothing.  When the save took effect and the route does    *)
(* not learn of it (the answer to COMMIT is lost, or the caller has gone), *)
(* the rows are ahead of the services in memory, and stay so: replace_auth *)
(* merges what memory knows into them.                                     *)
(*                                                                         *)
(* A session stands for its pair of random tokens; sessions are numbered   *)
(* in the order they are issued, and a family by its first session.        *)
(* Identifiers, names and hashes are left out; a user is known by the      *)
(* email of the account, and a password by its number.                     *)
(***************************************************************************)
EXTENDS Naturals, FiniteSets

CONSTANTS
    Users,
    Orgs,
    Installations,
    ClientKinds,    \* the clients in use; Web login is off in production
    MaxSessions,    \* bound on the sessions ever issued
    MaxPasswords,   \* bound on how often one account's password is set
    MaxLeaving,     \* bound on the logouts that wait for the gate
    MaxUncertain,   \* bound on the saves whose effect the route does not learn
    None

SessionIds == 1 .. MaxSessions

ASSUME AuthConstants ==
    /\ ClientKinds \subseteq {"Tauri", "Web"}
    /\ MaxSessions \in Nat /\ MaxPasswords \in Nat /\ MaxLeaving \in Nat
    /\ MaxUncertain \in Nat
    /\ None \notin SessionIds \cup Users \cup Orgs \cup Installations

VARIABLES
    accounts,           \* users_by_id
    installations,      \* installations_by_id: the user an installation is bound to
    sessions,           \* sessions_by_access_token
    auth_users,         \* the rows of the three tables
    auth_installations,
    auth_sessions,
    age,                \* how far the lifetime of a session has passed
    issued,             \* how many sessions have been issued
    handed,             \* the sessions whose tokens a client was given
    changed,            \* how many sessions had been issued when the account of
                        \* a user was last changed, as far as anybody was told
    leaving,            \* sessions whose tauri_logout waits for the gate
    replayed,           \* the family of which a dead refresh token was last
                        \* presented, or None
    uncertain           \* the saves whose effect the route did not learn

memory == <<accounts, installations, sessions>>
rows == <<auth_users, auth_installations, auth_sessions>>
history == <<handed, changed>>

vars == <<memory, rows, age, issued, history, leaving, replayed, uncertain>>

AccountKind == {"Business", "OrganizationAdmin"}

Account == [kind : AccountKind, organization : Orgs \cup {None}, password : Nat]

SessionKind == {"Tauri", "Web", "Admin"}

Session ==
    [user : Users, installation : Installations \cup {None}, kind : SessionKind,
     family : SessionIds, rotated : BOOLEAN, revoked : BOOLEAN]

ASSUME NoSession == None \notin Account /\ None \notin Session

AccountsType == [Users -> Account \cup {None}]
InstallationsType == [Installations -> Users \cup {None}]
SessionsType == [SessionIds -> Session \cup {None}]

\* age 0: the access token is valid; 1: it has expired; 2: the refresh token
\* has expired too.
TypeOK ==
    /\ accounts \in AccountsType /\ auth_users \in AccountsType
    /\ installations \in InstallationsType /\ auth_installations \in InstallationsType
    /\ sessions \in SessionsType /\ auth_sessions \in SessionsType
    /\ age \in [SessionIds -> 0 .. 2]
    /\ issued \in 0 .. MaxSessions
    /\ handed \subseteq 1 .. issued
    /\ changed \in [Users -> 0 .. issued]
    /\ leaving \subseteq SessionIds
    /\ replayed \in SessionIds \cup {None}
    /\ uncertain \in Nat

Init ==
    /\ accounts = [u \in Users |-> None] /\ auth_users = accounts
    /\ installations = [i \in Installations |-> None] /\ auth_installations = installations
    /\ sessions = [s \in SessionIds |-> None] /\ auth_sessions = sessions
    /\ age = [s \in SessionIds |-> 0]
    /\ issued = 0
    /\ handed = {}
    /\ changed = [u \in Users |-> 0]
    /\ leaving = {}
    /\ replayed = None
    /\ uncertain = 0

-----------------------------------------------------------------------------
(* Queries.  A client can present the tokens it was given.                 *)

Stored == {s \in SessionIds : sessions[s] # None}

Presentable == handed \cap Stored

Expired(s, x) == age[s] >= (IF x.kind = "Admin" THEN 1 ELSE 2)

Current(x) == ~x.rotated /\ ~x.revoked

Alive(s) == Current(sessions[s]) /\ ~Expired(s, sessions[s])

\* authenticate_access_token and authenticate_admin_access_token.
authenticate_access_token(s) ==
    /\ s \in Presentable
    /\ sessions[s].kind # "Admin"
    /\ Current(sessions[s]) /\ age[s] = 0
    /\ accounts[sessions[s].user].kind = "Business"

authenticate_admin_access_token(s) ==
    /\ s \in Presentable
    /\ sessions[s].kind = "Admin"
    /\ ~sessions[s].revoked /\ age[s] = 0
    /\ accounts[sessions[s].user].kind = "OrganizationAdmin"
    /\ accounts[sessions[s].user].organization # None

\* A session of an administrator of this organization is at hand.
OrganizationAdminActs(o) ==
    \E s \in Presentable : /\ authenticate_admin_access_token(s)
                           /\ accounts[sessions[s].user].organization = o

-----------------------------------------------------------------------------
(* Saving.                                                                 *)

prune_expired_sessions(all) ==
    [s \in SessionIds |-> IF all[s] # None /\ Expired(s, all[s]) THEN None ELSE all[s]]

\* Mutant: a session that has a row is not written again (ON CONFLICT DO
\* NOTHING), so that its marks stay in memory.
InsertedOnly(row, x) == IF row = None THEN x ELSE row

\* The upsert of a session over its row: a mark that is set stays set.
Upserted(row, x) ==
    CASE x = None   -> row
      [] row = None -> x
      [] OTHER      -> [x EXCEPT !.rotated = @ \/ row.rotated, !.revoked = @ \/ row.revoked]

\* Expired rows are deleted.  The user the call has written replaces their
\* row; the rows of the others are as new as memory, or newer.  Installations
\* become those of memory.  Sessions that memory does not know of stay.
replace_auth(written, users, bindings, all) ==
    LET kept == prune_expired_sessions(auth_sessions)
    IN  /\ auth_users' = [u \in Users |->
              IF u = written \/ auth_users[u] = None THEN users[u] ELSE auth_users[u]]
        /\ auth_installations' = bindings
        /\ auth_sessions' = [s \in SessionIds |-> Upserted(kept[s], all[s])]

\* The clone is saved, and published unless the route does not learn of it.
\* The session the call issues is given to its client with the publication.
Save(written, users, bindings, all) ==
    /\ replace_auth(written, users, bindings, all)
    /\ \/ /\ accounts' = users /\ installations' = bindings /\ sessions' = all
          /\ handed' = handed \cup (issued + 1 .. issued')
          /\ changed' = [u \in Users |->
                            IF users[u] = accounts[u] THEN changed[u] ELSE issued]
          /\ UNCHANGED uncertain
       \/ /\ uncertain < MaxUncertain
          /\ uncertain' = uncertain + 1
          /\ UNCHANGED <<memory, history>>

\* save_all rewrites the ledger too, and fails when an administrator in
\* auth_users belongs to an organization the ledger in memory does not have.
LedgerSaved ==
    \A u \in Users :
        auth_users[u] # None /\ auth_users[u].organization # None => accounts[u] # None

\* A new account has a new id and fails on the unique email of a row.
Unknown(u) == accounts[u] = None /\ auth_users[u] = None

-----------------------------------------------------------------------------
(* Helpers of the service.                                                 *)

NewSession(u, i, kind, family) ==
    [user |-> u, installation |-> i, kind |-> kind, family |-> family,
     rotated |-> FALSE, revoked |-> FALSE]

\* issue_session and issue_admin_session, on the sessions as they are by then.
issue_session(bindings, all, new) ==
    /\ issued < MaxSessions
    /\ issued' = issued + 1
    /\ Save(None, accounts, bindings, [prune_expired_sessions(all) EXCEPT ![issued + 1] = new])
    /\ UNCHANGED age

Revoked(gone) ==
    [s \in SessionIds |->
        IF s \in gone THEN [sessions[s] EXCEPT !.revoked = TRUE] ELSE sessions[s]]

Freed(gone) == [i \in Installations |-> IF i \in gone THEN None ELSE installations[i]]

\* revoke_user_sessions ends all sessions of the user and their bindings.
revoke_user_sessions(u, users) ==
    Save(u, users, Freed({i \in Installations : installations[i] = u}),
         Revoked({s \in Stored : sessions[s].user = u}))

\* The sessions of the same user, installation and kind end, and the
\* installation is free, whoever it is bound to by now.
revoke_installation_sessions(x) ==
    Save(None, accounts, Freed({x.installation}),
         Revoked({s \in Stored : /\ sessions[s].user = x.user
                                 /\ sessions[s].installation = x.installation
                                 /\ sessions[s].kind = x.kind}))

\* Mutant: a new password does not end the sessions.
UpdatedWithoutRevoking(u, new) ==
    /\ new.password <= MaxPasswords
    /\ UNCHANGED <<issued, age, leaving, replayed>>
    /\ Save(u, [accounts EXCEPT ![u] = new], installations, sessions)

\* The account becomes this one; a change of password, kind or organization
\* ends its sessions.
update_account(u, new) ==
    /\ new.password <= MaxPasswords
    /\ UNCHANGED <<issued, age, leaving, replayed>>
    /\ IF accounts[u] = new
       THEN Save(u, accounts, installations, sessions)
       ELSE revoke_user_sessions(u, [accounts EXCEPT ![u] = new])

\* The account with a password that was never set before.
WithNewPassword(u) == [accounts[u] EXCEPT !.password = auth_users[u].password + 1]

-----------------------------------------------------------------------------
(* Accounts.                                                               *)

\* The platform creates an organization with the account of its administrator.
create_organization(u, o) ==
    /\ Unknown(u) /\ LedgerSaved
    /\ \A v \in Users : auth_users[v] # None => auth_users[v].organization # o
    /\ update_account(u, [kind |-> "OrganizationAdmin", organization |-> o, password |-> 1])

\* add_member of a new person, or of one who has an account already, with or
\* without a new password.  The ledger service denies adding an administrator:
\* as the last Owner, or as a member of another organization.
add_member(u, o, with_password) ==
    /\ OrganizationAdminActs(o) /\ LedgerSaved
    /\ \/ /\ Unknown(u) /\ with_password
          /\ update_account(u, [kind |-> "Business", organization |-> None, password |-> 1])
       \/ /\ accounts[u] # None /\ accounts[u].kind = "Business"
          /\ update_account(u, IF with_password THEN WithNewPassword(u) ELSE accounts[u])

reset_member_password(u, o) ==
    /\ OrganizationAdminActs(o)
    /\ accounts[u] # None /\ accounts[u].kind = "Business"
    /\ update_account(u, WithNewPassword(u))

\* By the platform.
reset_organization_admin_password(u) ==
    /\ accounts[u] # None /\ accounts[u].kind = "OrganizationAdmin"
    /\ update_account(u, WithNewPassword(u))

\* By the administrator, who presents a session and the current password.
change_admin_password(s) ==
    /\ authenticate_admin_access_token(s)
    /\ update_account(sessions[s].user, WithNewPassword(sessions[s].user))

\* A new name: the row of the user is written as memory knows it.
update_me(s) ==
    /\ authenticate_access_token(s) /\ LedgerSaved
    /\ update_account(sessions[s].user, accounts[sessions[s].user])

-----------------------------------------------------------------------------
(* Sessions.                                                               *)

\* bind_installation: a free installation, or one that is bound to the user.
Bindable(i, u) == installations[i] \in {None, u}

\* With the current password.
login_for_client(u, i, kind) ==
    /\ accounts[u] # None /\ accounts[u].kind = "Business"
    /\ Bindable(i, u) /\ LedgerSaved
    /\ issue_session([installations EXCEPT ![i] = u], sessions,
                     NewSession(u, i, kind, issued + 1))
    /\ UNCHANGED <<leaving, replayed>>

admin_login(u) ==
    /\ accounts[u] # None /\ accounts[u].kind = "OrganizationAdmin"
    /\ accounts[u].organization # None
    /\ issue_session(installations, sessions,
                     NewSession(u, None, "Admin", issued + 1))
    /\ UNCHANGED <<leaving, replayed>>

\* Mutant: the predecessor stays valid.
NotRotated(s) == sessions

Rotated(s) == [sessions EXCEPT ![s].rotated = TRUE]

Refreshable(s, x) == Current(x) /\ ~Expired(s, x)

\* The client presents the refresh token of a session from its installation.
refresh_for_client(s) ==
    LET x == sessions[s]
    IN  /\ s \in Presentable /\ x.kind # "Admin"
        /\ Refreshable(s, x) /\ LedgerSaved
        /\ issue_session(installations, Rotated(s),
                         NewSession(x.user, x.installation, x.kind, x.family))
        /\ UNCHANGED <<leaving, replayed>>

\* The token was rotated or revoked before: the service revokes the family
\* and returns an error, on which the route drops the clone.
refresh_replayed(s) ==
    /\ s \in Presentable /\ sessions[s].kind # "Admin"
    /\ ~Current(sessions[s])
    /\ replayed' = sessions[s].family
    /\ UNCHANGED <<memory, rows, age, issued, history, leaving, uncertain>>

\* tauri_logout authenticates, then waits for the gate.
tauri_logout(s) ==
    /\ authenticate_access_token(s)
    /\ s \notin leaving /\ Cardinality(leaving) < MaxLeaving
    /\ leaving' = leaving \cup {s}
    /\ UNCHANGED <<memory, rows, age, issued, history, replayed, uncertain>>

\* Behind the gate only the token is looked up; the request may be one of
\* several with the same token.
logout(s, last) ==
    /\ s \in leaving /\ s \in Stored
    /\ leaving' = IF last THEN leaving \ {s} ELSE leaving
    /\ UNCHANGED <<age, issued, replayed>>
    /\ revoke_installation_sessions(sessions[s])

\* The session was pruned while the logout waited, the save failed, or the
\* caller has gone.
logout_refused(s) ==
    /\ s \in leaving
    /\ leaving' = leaving \ {s}
    /\ UNCHANGED <<memory, rows, age, issued, history, replayed, uncertain>>

\* logout_refresh looks up the cookie's refresh token, dead or alive, of
\* whichever client.
web_logout(s) ==
    /\ "Web" \in ClientKinds
    /\ s \in Presentable /\ sessions[s].kind # "Admin"
    /\ UNCHANGED <<age, issued, leaving, replayed>>
    /\ revoke_installation_sessions(sessions[s])

admin_logout(s) ==
    /\ authenticate_admin_access_token(s)
    /\ UNCHANGED <<age, issued, leaving, replayed>>
    /\ revoke_installation_sessions(sessions[s])

-----------------------------------------------------------------------------
(* Time and restarts.                                                      *)

\* Sessions age in the order they were issued in: those of the app have the
\* same lifetimes, and so do those of administrators.
LastAge(x) == IF x.kind = "Admin" THEN 1 ELSE 2

Copy(s) == IF sessions[s] # None THEN sessions[s] ELSE auth_sessions[s]

Elapse(s) ==
    /\ Copy(s) # None /\ ~Expired(s, Copy(s))
    /\ \A q \in 1 .. s - 1 :
          Copy(q) # None /\ LastAge(Copy(q)) = LastAge(Copy(s)) => age[q] > age[s]
    /\ age' = [age EXCEPT ![s] = @ + 1]
    /\ UNCHANGED <<memory, rows, issued, history, leaving, replayed, uncertain>>

\* load_auth reads the rows, and from_snapshot prunes; requests in flight are
\* gone.
Restart ==
    /\ accounts' = auth_users
    /\ installations' = auth_installations
    /\ sessions' = prune_expired_sessions(auth_sessions)
    /\ leaving' = {}
    /\ UNCHANGED <<rows, age, issued, history, replayed, uncertain>>

Next ==
    \/ \E u \in Users, o \in Orgs :
          \/ create_organization(u, o)
          \/ \E with_password \in BOOLEAN : add_member(u, o, with_password)
          \/ reset_member_password(u, o)
    \/ \E u \in Users :
          \/ reset_organization_admin_password(u)
          \/ admin_login(u)
          \/ \E i \in Installations, kind \in ClientKinds : login_for_client(u, i, kind)
    \/ \E s \in SessionIds :
          \/ change_admin_password(s) \/ update_me(s)
          \/ refresh_for_client(s) \/ refresh_replayed(s)
          \/ tauri_logout(s) \/ logout_refused(s) \/ web_logout(s) \/ admin_logout(s)
          \/ \E last \in BOOLEAN : logout(s, last)
          \/ Elapse(s)
    \/ Restart

Spec == Init /\ [][Next]_vars

-----------------------------------------------------------------------------
(* Properties.  They speak of the sessions whose tokens a client was given: *)
(* tokens are random, and after an uncertain save memory or the rows may    *)
(* hold a session whose tokens nobody knows.                                *)

Live == {s \in Presentable : Alive(s)}

FitsAccount(x) ==
    /\ accounts[x.user] # None
    /\ x.kind = "Admin" <=> accounts[x.user].kind = "OrganizationAdmin"

(***************************************************************************)
(* "changing an account password or account type revokes all of that       *)
(* user's sessions immediately" (README): once a call that changed an      *)
(* account has been published, no session that goes back to an earlier     *)
(* login can be used or refreshed, however often its tokens were rotated,  *)
(* whatever was saved without the server learning of it, and after any     *)
(* restart; and app and administration sessions are of the matching kind   *)
(* of account.                                                             *)
(***************************************************************************)
ChangeEndsSessions ==
    \A s \in Live : /\ sessions[s].family > changed[sessions[s].user]
                    /\ FitsAccount(sessions[s])

(***************************************************************************)
(* "Refresh tokens are single-use" (README): clients never have two        *)
(* sessions of a family that can be used or refreshed.                     *)
(***************************************************************************)
OneLiveSessionPerFamily ==
    \A s, q \in Live : sessions[s].family = sessions[q].family => s = q

FamilyAlive(f) == \E s \in Live : sessions[s].family = f

(***************************************************************************)
(* What has ended stays ended: once a family has no session that can be    *)
(* used or refreshed, by logout, expiry, password change or restart, no    *)
(* later step gives it one; nor does a restart, which knows only the rows. *)
(***************************************************************************)
EndedStaysEnded ==
    [][\A f \in 1 .. issued : FamilyAlive(f)' => FamilyAlive(f)]_vars

(***************************************************************************)
(* The inductive invariant.  The rows of the users are those of memory or  *)
(* newer, of the same kind.  A session and its row are the same but for    *)
(* marks that only the row has; one of them is missing only when it has    *)
(* expired, or when memory never learnt of it.  Of the sessions clients    *)
(* have, those that are not revoked were opened after the last change of   *)
(* the account, and one of a family at most is current.                    *)
(***************************************************************************)
Numbered(all) == \A s \in SessionIds : all[s] # None => s <= issued /\ all[s].family <= issued

UsersStored ==
    \A u \in Users : accounts[u] # None =>
        auth_users[u] # None /\ auth_users[u].kind = accounts[u].kind

\* y is x at a later time.
Continued(x, y) ==
    /\ y.user = x.user /\ y.installation = x.installation /\ y.kind = x.kind
    /\ y.family = x.family
    /\ x.rotated => y.rotated
    /\ x.revoked => y.revoked

SessionsStored ==
    \A s \in Stored :
        IF auth_sessions[s] = None THEN Expired(s, sessions[s])
        ELSE Continued(sessions[s], auth_sessions[s])

\* A session that a client has and memory has dropped is dead in the rows.
DroppedExpired ==
    \A s \in handed \ Stored : auth_sessions[s] # None => Expired(s, auth_sessions[s])

HandedFit ==
    \A s \in Presentable : ~sessions[s].revoked =>
        sessions[s].family > changed[sessions[s].user] /\ FitsAccount(sessions[s])

OneCurrent ==
    \A s, q \in Presentable :
        /\ Current(sessions[s]) /\ Current(sessions[q])
        /\ sessions[s].family = sessions[q].family
        => s = q

AuthInvariant ==
    /\ TypeOK
    /\ Numbered(sessions) /\ Numbered(auth_sessions)
    /\ UsersStored /\ SessionsStored /\ DroppedExpired
    /\ HandedFit /\ OneCurrent

(***************************************************************************)
(* "Refresh tokens are single-use; replay revokes the entire session       *)
(* family" (README): a family of which a dead token was presented is dead. *)
(***************************************************************************)
ReplayRevokesFamily == replayed # None => ~FamilyAlive(replayed)

(***************************************************************************)
(* "auth_installations: one app installation bound to one business         *)
(* identity" (docs/backend-data-model.md): the app sessions that can be    *)
(* used on one installation belong to one user.                            *)
(***************************************************************************)
OneIdentityPerInstallation ==
    \A s, q \in Live :
        /\ sessions[s].kind # "Admin" /\ sessions[q].kind # "Admin"
        /\ sessions[s].installation = sessions[q].installation
        => sessions[s].user = sessions[q].user
=============================================================================
