------------------------- MODULE AuthSessionsProofs -------------------------
(***************************************************************************)
(* Proofs about AuthSessions, for any number of users, installations and   *)
(* sessions and of saves whose effect the server did not learn.            *)
(*                                                                         *)
(* A call changes a clone of the sessions: apart from the one session a    *)
(* login or a refresh issues, they only fade, which means that their marks *)
(* are set or that they are pruned.  SaveStep follows such a clone into    *)
(* the rows and, unless the save is uncertain, into memory.                *)
(***************************************************************************)
EXTENDS AuthSessions, TLAPS

\* A session and what has become of it.
Fades(s, old, new) ==
    \/ old = None /\ new = None
    \/ old # None /\ new = None /\ Expired(s, old)
    \/ old # None /\ new # None /\ Continued(old, new)

\* All of them in a clone.
AllFade(all) == \A s \in SessionIds : Fades(s, sessions[s], all[s])

\* No family that existed before the step is alive only after it.
NoFamilyRevives == \A f \in 1 .. issued : FamilyAlive(f)' => FamilyAlive(f)

LEMMA InitInvariant == Init => AuthInvariant
<1> SUFFICES ASSUME Init PROVE AuthInvariant
    OBVIOUS
<1>1. TypeOK
    BY AuthConstants DEF Init, TypeOK, AccountsType, InstallationsType, SessionsType, SessionIds
<1>2. Stored = {} /\ Presentable = {} /\ handed = {}
    BY DEF Init, Stored, Presentable
<1> QED
    BY <1>1, <1>2 DEF Init, AuthInvariant, Numbered, UsersStored, SessionsStored,
                      DroppedExpired, HandedFit, OneCurrent

-----------------------------------------------------------------------------
(* What pruning, revoking and rotating do to the sessions.                 *)

LEMMA Unchanging ==
    ASSUME NEW x \in Session
    PROVE  x # None /\ Continued(x, x)
BY NoSession DEF Continued

LEMMA AllStay == ASSUME TypeOK PROVE AllFade(sessions)
BY Unchanging DEF TypeOK, SessionsType, AllFade, Fades

LEMMA PruneFades ==
    ASSUME NEW all \in SessionsType, AllFade(all)
    PROVE  prune_expired_sessions(all) \in SessionsType /\ AllFade(prune_expired_sessions(all))
<1>1. prune_expired_sessions(all) \in SessionsType
    BY DEF prune_expired_sessions, SessionsType
<1>2. ASSUME NEW s \in SessionIds, all[s] # None, Expired(s, all[s])
      PROVE  sessions[s] # None /\ Expired(s, sessions[s])
    BY <1>2 DEF AllFade, Fades, Continued, Expired
<1> QED
    BY <1>1, <1>2 DEF prune_expired_sessions, AllFade, Fades

\* Setting a mark of a session.
LEMMA MarkFades ==
    ASSUME NEW x \in Session, NEW rotated \in BOOLEAN, NEW revoked \in BOOLEAN,
           NEW y, y = [x EXCEPT !.rotated = @ \/ rotated, !.revoked = @ \/ revoked]
    PROVE  y \in Session /\ y # None /\ Continued(x, y)
<1>0. x.rotated \in BOOLEAN /\ x.revoked \in BOOLEAN
    BY DEF Session
<1>1. y \in Session
    BY <1>0 DEF Session
<1>2. Continued(x, y)
    BY <1>0 DEF Session, Continued
<1> QED
    BY <1>1, <1>2, NoSession

LEMMA RevokeFades ==
    ASSUME TypeOK, NEW gone \in SUBSET Stored
    PROVE  /\ Revoked(gone) \in SessionsType
           /\ AllFade(Revoked(gone))
           /\ \A s \in gone : Revoked(gone)[s].revoked
<1>1. ASSUME NEW s \in SessionIds
      PROVE  /\ Revoked(gone)[s] \in Session \cup {None}
             /\ Fades(s, sessions[s], Revoked(gone)[s])
             /\ s \in gone => Revoked(gone)[s].revoked
    <2>1. CASE s \in gone
        <3>1. sessions[s] \in Session /\ sessions[s] # None
            BY <2>1 DEF TypeOK, SessionsType, Stored
        <3>2. [sessions[s] EXCEPT !.revoked = TRUE] \in Session
            BY <3>1 DEF Session
        <3>3. /\ Continued(sessions[s], [sessions[s] EXCEPT !.revoked = TRUE])
              /\ [sessions[s] EXCEPT !.revoked = TRUE].revoked
            BY <3>1 DEF Session, Continued
        <3> QED
            BY <2>1, <3>1, <3>2, <3>3, NoSession DEF Revoked, Fades
    <2>2. CASE s \notin gone
        <3>1. Revoked(gone)[s] = sessions[s]
            BY <2>2 DEF Revoked
        <3> QED
            BY <2>2, <3>1, AllStay DEF TypeOK, SessionsType, AllFade
    <2> QED
        BY <2>1, <2>2
<1> QED
    BY <1>1 DEF Revoked, AllFade, SessionsType, Stored

LEMMA RotateFades ==
    ASSUME TypeOK, NEW s \in Stored
    PROVE  /\ Rotated(s) \in SessionsType
           /\ AllFade(Rotated(s))
           /\ Rotated(s)[s].rotated
<1>1. sessions[s] \in Session /\ sessions[s] # None /\ s \in SessionIds
    BY DEF TypeOK, SessionsType, Stored
<1>2. [sessions[s] EXCEPT !.rotated = TRUE] \in Session
    BY <1>1 DEF Session
<1>3. /\ Continued(sessions[s], [sessions[s] EXCEPT !.rotated = TRUE])
      /\ [sessions[s] EXCEPT !.rotated = TRUE].rotated
    BY <1>1 DEF Session, Continued
<1>4. /\ Rotated(s) \in SessionsType
      /\ Rotated(s)[s] = [sessions[s] EXCEPT !.rotated = TRUE]
      /\ \A q \in SessionIds \ {s} : Rotated(s)[q] = sessions[q]
    BY <1>1, <1>2 DEF Rotated, TypeOK, SessionsType
<1>5. Fades(s, sessions[s], Rotated(s)[s])
    BY <1>1, <1>2, <1>3, <1>4, NoSession DEF Fades
<1> QED
    BY <1>3, <1>4, <1>5, AllStay DEF AllFade

-----------------------------------------------------------------------------
(* Saving a clone.                                                         *)

\* The accounts of the clone: only the written one changes, it keeps its kind,
\* and it loses its sessions.
AccountsUpdated(written, users, all) ==
    \A u \in Users :
        /\ u # written => users[u] = accounts[u]
        /\ accounts[u] # None => users[u] # None /\ users[u].kind = accounts[u].kind
        /\ users[u] # accounts[u] =>
              \A s \in Stored : sessions[s].user = u /\ all[s] # None => all[s].revoked

\* The session the clone has in addition: it fits its account, its family is
\* new or alive, and no session of its family is current beside it.
FreshlyIssued(all) ==
    LET new == all[issued + 1]
    IN  /\ new # None
        /\ new.family <= issued + 1
        /\ new.family > changed[new.user]
        /\ FitsAccount(new)
        /\ \A s \in Presentable : all[s] # None /\ Current(all[s]) => all[s].family # new.family
        /\ new.family = issued + 1 \/ FamilyAlive(new.family)

\* What the rows of the sessions are after the clone was saved.
LEMMA RowsAfter ==
    ASSUME TypeOK, NEW all \in SessionsType, NEW s \in SessionIds,
           auth_sessions' = [q \in SessionIds |->
               Upserted(prune_expired_sessions(auth_sessions)[q], all[q])]
    PROVE  /\ auth_sessions'[s] \in Session \cup {None}
           /\ all[s] # None => auth_sessions'[s] # None /\ Continued(all[s], auth_sessions'[s])
           /\ all[s] = None => \/ auth_sessions'[s] = None
                               \/ /\ auth_sessions'[s] = auth_sessions[s]
                                  /\ ~Expired(s, auth_sessions[s])
<1> DEFINE row == prune_expired_sessions(auth_sessions)[s]
<1>1. /\ row \in Session \cup {None}
      /\ row = None \/ (row = auth_sessions[s] /\ ~Expired(s, auth_sessions[s]))
    BY DEF prune_expired_sessions, TypeOK, SessionsType
<1>2. auth_sessions'[s] = Upserted(row, all[s])
    OBVIOUS
<1> HIDE DEF row
<1>3. CASE all[s] = None
    BY <1>1, <1>2, <1>3 DEF Upserted
<1>4. CASE all[s] # None /\ row = None
    BY <1>1, <1>2, <1>4, Unchanging DEF Upserted, SessionsType
<1>5. CASE all[s] # None /\ row # None
    <2>1. all[s] \in Session /\ row \in Session /\ row.rotated \in BOOLEAN /\ row.revoked \in BOOLEAN
        BY <1>1, <1>5 DEF SessionsType, Session
    <2>2. auth_sessions'[s] =
              [all[s] EXCEPT !.rotated = @ \/ row.rotated, !.revoked = @ \/ row.revoked]
        BY <1>2, <1>5 DEF Upserted
    <2>3. /\ auth_sessions'[s] \in Session /\ auth_sessions'[s] # None
          /\ Continued(all[s], auth_sessions'[s])
        <3> DEFINE x == all[s]
                   rotated == row.rotated
                   revoked == row.revoked
                   y == auth_sessions'[s]
        <3>1. /\ x \in Session /\ rotated \in BOOLEAN /\ revoked \in BOOLEAN
              /\ y = [x EXCEPT !.rotated = @ \/ rotated, !.revoked = @ \/ revoked]
            BY <2>1, <2>2
        <3> HIDE DEF x, rotated, revoked, y
        <3>2. y \in Session /\ y # None /\ Continued(x, y)
            BY <3>1, MarkFades
        <3> QED
            BY <3>2 DEF x, y
    <2> QED
        BY <1>5, <2>3
<1> QED
    BY <1>3, <1>4, <1>5

LEMMA SaveStep ==
    ASSUME AuthInvariant, NEW written \in Users \cup {None}, NEW users \in AccountsType,
           NEW bindings \in InstallationsType, NEW all \in SessionsType,
           Save(written, users, bindings, all), AccountsUpdated(written, users, all),
           \/ issued' = issued /\ AllFade(all)
           \/ /\ issued' = issued + 1 /\ issued + 1 \in SessionIds /\ FreshlyIssued(all)
              /\ users = accounts
              /\ \A s \in SessionIds : s # issued + 1 => Fades(s, sessions[s], all[s]),
           age' = age, leaving' \subseteq leaving, replayed' = replayed
    PROVE  AuthInvariant' /\ NoFamilyRevives
<1> USE DEF AccountsType, InstallationsType
<1>0. /\ TypeOK /\ issued \in Nat /\ issued' \in Nat /\ issued <= issued'
      /\ issued' \in 0 .. MaxSessions
    BY AuthConstants DEF AuthInvariant, TypeOK, SessionIds
<1>1. /\ auth_users' = [u \in Users |->
             IF u = written \/ auth_users[u] = None THEN users[u] ELSE auth_users[u]]
      /\ auth_installations' = bindings
      /\ auth_sessions' = [q \in SessionIds |->
             Upserted(prune_expired_sessions(auth_sessions)[q], all[q])]
    BY DEF Save, replace_auth
\* The sessions of the clone, seen from those in memory and from their rows.
<1>2. ASSUME NEW s \in SessionIds
      PROVE  /\ s \in 1 .. issued => Fades(s, sessions[s], all[s])
             /\ s \notin 1 .. issued /\ s # issued' => all[s] = None /\ sessions[s] = None
             /\ s \notin 1 .. issued => sessions[s] = None
             /\ s \notin 1 .. issued /\ all[s] # None => s = issued + 1 /\ s = issued'
    <2>1. s \in Nat /\ s >= 1
        BY DEF SessionIds
    <2>2. s \notin 1 .. issued => sessions[s] = None
        BY <1>0, <2>1 DEF AuthInvariant, Numbered
    <2>3. Fades(s, sessions[s], all[s]) \/ (s = issued + 1 /\ s = issued')
        BY DEF AllFade
    <2> QED
        BY <1>0, <2>1, <2>2, <2>3 DEF Fades
<1>3. ASSUME NEW s \in SessionIds
      PROVE  /\ auth_sessions'[s] \in Session \cup {None}
             /\ all[s] # None => auth_sessions'[s] # None /\ Continued(all[s], auth_sessions'[s])
             /\ all[s] = None => \/ auth_sessions'[s] = None
                                 \/ /\ auth_sessions'[s] = auth_sessions[s]
                                    /\ ~Expired(s, auth_sessions[s])
    BY <1>0, <1>1, RowsAfter
<1>4. ASSUME NEW s \in SessionIds, sessions[s] # None
      PROVE  /\ s \in 1 .. issued /\ sessions[s].family <= issued
             /\ sessions[s] \in Session /\ sessions[s].family \in Nat
    BY <1>0, <1>4, <1>2 DEF AuthInvariant, Numbered, TypeOK, SessionsType, Session, SessionIds
\* A session that has faded away has left the rows too.
<1>5. ASSUME NEW s \in 1 .. issued, s \in SessionIds, all[s] = None,
             s \in handed \/ sessions[s] # None
      PROVE  /\ sessions[s] # None => Expired(s, sessions[s])
             /\ auth_sessions'[s] = None
    <2>1. CASE sessions[s] # None
        <3>1. Expired(s, sessions[s])
            BY <1>2, <1>5, <2>1 DEF Fades
        <3>2. auth_sessions[s] # None => Continued(sessions[s], auth_sessions[s])
            BY <1>5, <2>1 DEF AuthInvariant, SessionsStored, Stored
        <3>3. auth_sessions[s] # None => Expired(s, auth_sessions[s])
            BY <3>1, <3>2 DEF Continued, Expired
        <3> QED
            BY <1>3, <1>5, <3>1, <3>3
    <2>2. CASE sessions[s] = None
        <3>1. auth_sessions[s] # None => Expired(s, auth_sessions[s])
            BY <1>5, <2>2 DEF AuthInvariant, DroppedExpired, Stored
        <3> QED
            BY <1>3, <1>5, <2>2, <3>1
    <2> QED
        BY <2>1, <2>2
<1>6. ASSUME NEW s \in SessionIds, all[s] # None
      PROVE  s <= issued' /\ all[s].family <= issued'
    <2>1. CASE s \in 1 .. issued
        <3>1. sessions[s] # None /\ all[s].family = sessions[s].family
            BY <1>2, <1>6, <2>1 DEF Fades, Continued
        <3> QED
            BY <1>0, <1>4, <2>1, <3>1
    <2>2. CASE s \notin 1 .. issued
        <3>1. s = issued + 1 /\ s = issued'
            BY <1>2, <1>6, <2>2
        <3>2. all[s].family <= issued + 1
            BY <1>0, <3>1 DEF FreshlyIssued
        <3> QED
            BY <1>0, <3>1, <3>2
    <2> QED
        BY <2>1, <2>2
<1>7. Numbered(auth_sessions)'
    <2>1. ASSUME NEW s \in SessionIds, auth_sessions'[s] # None
          PROVE  s <= issued' /\ auth_sessions'[s].family <= issued'
        <3>1. CASE all[s] # None
            BY <1>3, <1>6, <3>1 DEF Continued
        <3>2. CASE all[s] = None
            <4>1. auth_sessions'[s] = auth_sessions[s]
                BY <1>3, <2>1, <3>2
            <4>2. s <= issued /\ auth_sessions[s].family <= issued
                BY <2>1, <4>1 DEF AuthInvariant, Numbered
            <4>3. s \in Nat /\ auth_sessions[s].family \in Nat
                BY <1>0, <2>1, <4>1 DEF TypeOK, SessionsType, Session, SessionIds
            <4> QED
                BY <1>0, <4>1, <4>2, <4>3
        <3> QED
            BY <3>1, <3>2
    <2> QED
        BY <2>1 DEF Numbered
<1>8. /\ auth_users' \in AccountsType /\ auth_installations' \in InstallationsType
      /\ auth_sessions' \in SessionsType
    <2>1. auth_users' \in AccountsType
        BY <1>0, <1>1 DEF TypeOK
    <2>2. auth_sessions' = [s \in SessionIds |-> auth_sessions'[s]]
        BY <1>1
    <2> QED
        BY <1>1, <1>3, <2>1, <2>2 DEF SessionsType
<1>9. /\ age' \in [SessionIds -> 0 .. 2] /\ issued' \in 0 .. MaxSessions
      /\ leaving' \subseteq SessionIds /\ replayed' \in SessionIds \cup {None}
    BY <1>0 DEF TypeOK
<1>10. ASSUME NEW u \in Users, accounts[u] # None
       PROVE  auth_users'[u] # None /\ auth_users'[u].kind = accounts[u].kind
    <2>1. users[u] # None /\ users[u].kind = accounts[u].kind
        BY <1>10 DEF AccountsUpdated
    <2>2. auth_users[u] # None /\ auth_users[u].kind = accounts[u].kind
        BY <1>10 DEF AuthInvariant, UsersStored
    <2> QED
        BY <1>1, <2>1, <2>2
<1>11. CASE UNCHANGED <<memory, history>> /\ uncertain' = uncertain + 1
    <2>0. /\ accounts' = accounts /\ installations' = installations /\ sessions' = sessions
          /\ handed' = handed /\ changed' = changed /\ uncertain' = uncertain + 1
          /\ Stored' = Stored /\ Presentable' = Presentable
        BY <1>11 DEF memory, history, Stored, Presentable
    <2>1. TypeOK'
        <3>1. handed' \subseteq 1 .. issued' /\ changed' \in [Users -> 0 .. issued']
            BY <1>0, <2>0 DEF TypeOK
        <3> QED
            BY <1>0, <1>8, <1>9, <2>0, <3>1 DEF TypeOK
    <2>2. Numbered(sessions)'
        <3>1. ASSUME NEW s \in SessionIds, sessions'[s] # None
              PROVE  s <= issued' /\ sessions'[s].family <= issued'
            BY <1>0, <1>4, <2>0, <3>1
        <3> QED
            BY <3>1 DEF Numbered
    <2>3. UsersStored'
        BY <1>10, <2>0 DEF UsersStored
    <2>4. SessionsStored'
        <3>1. ASSUME NEW s \in Stored
              PROVE  IF auth_sessions'[s] = None THEN Expired(s, sessions[s])
                     ELSE Continued(sessions[s], auth_sessions'[s])
            <4>1. s \in SessionIds /\ sessions[s] # None /\ s \in 1 .. issued
                BY <1>4 DEF Stored
            <4>2. CASE all[s] = None
                BY <1>5, <4>1, <4>2
            <4>3. CASE all[s] # None
                <5>1. Continued(sessions[s], all[s])
                    BY <1>2, <4>1, <4>3 DEF Fades
                <5>2. auth_sessions'[s] # None /\ Continued(all[s], auth_sessions'[s])
                    BY <1>3, <4>1, <4>3
                <5> QED
                    BY <5>1, <5>2 DEF Continued
            <4> QED
                BY <4>2, <4>3
        <3> QED
            BY <2>0, <3>1 DEF SessionsStored, Expired
    <2>5. DroppedExpired'
        <3>1. ASSUME NEW s \in handed, s \notin Stored
              PROVE  auth_sessions'[s] = None
            <4>1. s \in 1 .. issued /\ s \in SessionIds /\ sessions[s] = None
                BY <1>0, <3>1, AuthConstants DEF TypeOK, Stored, SessionIds
            <4>2. all[s] = None
                BY <1>2, <4>1 DEF Fades
            <4> QED
                BY <1>5, <3>1, <4>1, <4>2
        <3> QED
            BY <2>0, <3>1 DEF DroppedExpired
    <2>6. HandedFit' /\ OneCurrent'
        BY <2>0 DEF AuthInvariant, HandedFit, OneCurrent, FitsAccount
    <2>7. NoFamilyRevives
        BY <2>0 DEF NoFamilyRevives, FamilyAlive, Live, Alive, Expired
    <2> QED
        BY <1>7, <2>1, <2>2, <2>3, <2>4, <2>5, <2>6, <2>7 DEF AuthInvariant
<1>12. CASE /\ accounts' = users /\ installations' = bindings /\ sessions' = all
            /\ handed' = handed \cup (issued + 1 .. issued')
            /\ changed' = [u \in Users |->
                              IF users[u] = accounts[u] THEN changed[u] ELSE issued]
            /\ uncertain' = uncertain
    <2>1. TypeOK'
        <3>1. handed' \subseteq 1 .. issued'
            BY <1>0, <1>12 DEF TypeOK
        <3>2. changed' \in [Users -> 0 .. issued']
            BY <1>0, <1>12 DEF TypeOK
        <3> QED
            BY <1>0, <1>8, <1>9, <1>12, <3>1, <3>2 DEF TypeOK
    <2>2. Numbered(sessions)'
        BY <1>6, <1>12 DEF Numbered
    <2>3. UsersStored'
        <3>1. ASSUME NEW u \in Users, users[u] # None
              PROVE  auth_users'[u] # None /\ auth_users'[u].kind = users[u].kind
            <4>1. CASE u = written \/ auth_users[u] = None
                BY <1>1, <3>1, <4>1
            <4>2. CASE u # written /\ auth_users[u] # None
                <5>1. users[u] = accounts[u]
                    BY <4>2 DEF AccountsUpdated
                <5> QED
                    BY <1>10, <3>1, <5>1
            <4> QED
                BY <4>1, <4>2
        <3> QED
            BY <1>12, <3>1 DEF UsersStored
    <2>4. SessionsStored'
        BY <1>3, <1>12 DEF SessionsStored, Stored, Expired
    <2>5. DroppedExpired'
        <3>1. ASSUME NEW s \in handed', all[s] = None, s \in SessionIds
              PROVE  auth_sessions'[s] = None
            <4>1. CASE s \in handed
                <5>1. s \in 1 .. issued
                    BY <1>0, <4>1 DEF TypeOK
                <5> QED
                    BY <1>5, <3>1, <4>1, <5>1
            <4>2. CASE s \notin handed
                <5>1. s \in issued + 1 .. issued'
                    BY <1>12, <4>2
                <5>2. issued' = issued + 1 /\ s = issued + 1 /\ FreshlyIssued(all)
                    BY <1>0, <5>1
                <5> QED
                    BY <3>1, <5>2 DEF FreshlyIssued
            <4> QED
                BY <4>1, <4>2
        <3>2. handed' \subseteq SessionIds
            BY <1>0, <2>1, AuthConstants DEF TypeOK, SessionIds
        <3> QED
            BY <1>12, <3>1, <3>2 DEF DroppedExpired, Stored
    \* A session of the clone that clients have.
    <2>6. ASSUME NEW s \in Presentable'
          PROVE  /\ s \in SessionIds /\ all[s] # None /\ all[s] \in Session
                 /\ \/ /\ s \in 1 .. issued /\ s \in Presentable
                       /\ Continued(sessions[s], all[s])
                    \/ s = issued + 1 /\ issued' = issued + 1 /\ FreshlyIssued(all)
                       /\ users = accounts
        <3>1. s \in SessionIds /\ s \in handed' /\ all[s] # None /\ all[s] \in Session
            BY <1>12 DEF Presentable, Stored, SessionsType
        <3>2. CASE s \in 1 .. issued
            <4>1. s \in handed
                BY <1>0, <1>12, <3>1, <3>2
            <4>2. sessions[s] # None /\ Continued(sessions[s], all[s])
                BY <1>2, <3>1, <3>2 DEF Fades
            <4> QED
                BY <3>1, <3>2, <4>1, <4>2 DEF Presentable, Stored
        <3>3. CASE s \notin 1 .. issued
            BY <1>0, <1>2, <3>1, <3>3
        <3> QED
            BY <3>1, <3>2, <3>3
    <2>7. HandedFit'
        <3>1. ASSUME NEW s \in Presentable', ~all[s].revoked
              PROVE  /\ all[s].family > changed'[all[s].user]
                     /\ users[all[s].user] # None
                     /\ all[s].kind = "Admin" <=> users[all[s].user].kind = "OrganizationAdmin"
            <4>0. all[s].user \in Users
                BY <2>6 DEF Session
            <4>1. CASE s \in 1 .. issued /\ s \in Presentable /\ Continued(sessions[s], all[s])
                <5>1. /\ s \in Stored /\ ~sessions[s].revoked
                      /\ all[s].user = sessions[s].user
                      /\ all[s].kind = sessions[s].kind /\ all[s].family = sessions[s].family
                    BY <3>1, <4>1 DEF Presentable, Continued
                <5>2. /\ sessions[s].family > changed[sessions[s].user]
                      /\ FitsAccount(sessions[s])
                    BY <4>1, <5>1 DEF AuthInvariant, HandedFit
                <5>3. users[all[s].user] = accounts[all[s].user]
                    BY <2>6, <3>1, <4>0, <5>1 DEF AccountsUpdated
                <5>4. changed'[all[s].user] = changed[all[s].user]
                    BY <1>12, <4>0, <5>3
                <5> QED
                    BY <5>1, <5>2, <5>3, <5>4 DEF FitsAccount
            <4>2. CASE s = issued + 1 /\ FreshlyIssued(all) /\ users = accounts
                <5>1. changed'[all[s].user] = changed[all[s].user]
                    BY <1>12, <4>0, <4>2
                <5> QED
                    BY <4>2, <5>1 DEF FreshlyIssued, FitsAccount
            <4> QED
                BY <2>6, <4>1, <4>2
        <3> QED
            BY <1>12, <3>1 DEF HandedFit, FitsAccount
    <2>8. OneCurrent'
        <3>1. ASSUME NEW s \in Presentable', NEW q \in Presentable',
                     Current(all[s]), Current(all[q]), all[s].family = all[q].family
              PROVE  s = q
            <4>1. CASE /\ s \in Presentable /\ Continued(sessions[s], all[s])
                       /\ q \in Presentable /\ Continued(sessions[q], all[q])
                <5>1. /\ Current(sessions[s]) /\ Current(sessions[q])
                      /\ sessions[s].family = sessions[q].family
                    BY <3>1, <4>1 DEF Continued, Current
                <5> QED
                    BY <4>1, <5>1 DEF AuthInvariant, OneCurrent
            <4>2. CASE s = issued + 1 /\ FreshlyIssued(all) /\ q \in Presentable
                BY <2>6, <3>1, <4>2 DEF FreshlyIssued
            <4>3. CASE q = issued + 1 /\ FreshlyIssued(all) /\ s \in Presentable
                BY <2>6, <3>1, <4>3 DEF FreshlyIssued
            <4>4. CASE s = issued + 1 /\ q = issued + 1
                BY <4>4
            <4> QED
                BY <2>6, <4>1, <4>2, <4>3, <4>4
        <3> QED
            BY <1>12, <3>1 DEF OneCurrent, Current
    <2>9. NoFamilyRevives
        <3> SUFFICES ASSUME NEW f \in 1 .. issued, FamilyAlive(f)' PROVE FamilyAlive(f)
            BY DEF NoFamilyRevives
        <3>1. PICK s \in Presentable' : /\ all[s].family = f
                                        /\ Current(all[s]) /\ ~Expired(s, all[s])
            BY <1>12 DEF FamilyAlive, Live, Alive, Expired, Current
        <3>2. CASE s \in Presentable /\ Continued(sessions[s], all[s])
            BY <3>1, <3>2 DEF Continued, Current, Expired, FamilyAlive, Live, Alive
        <3>3. CASE s = issued + 1 /\ FreshlyIssued(all)
            BY <1>0, <3>1, <3>3 DEF FreshlyIssued
        <3> QED
            BY <2>6, <3>2, <3>3
    <2> QED
        BY <1>7, <2>1, <2>2, <2>3, <2>4, <2>5, <2>7, <2>8, <2>9 DEF AuthInvariant
<1> QED
    BY <1>11, <1>12 DEF Save, memory, history

-----------------------------------------------------------------------------
(* Calls that issue no session.                                            *)

LEMMA UpdateStep ==
    ASSUME AuthInvariant, NEW u \in Users, NEW new \in Account,
           accounts[u] # None => new.kind = accounts[u].kind,
           update_account(u, new)
    PROVE  AuthInvariant' /\ NoFamilyRevives
<1> DEFINE users == [accounts EXCEPT ![u] = new]
           gone == {s \in Stored : sessions[s].user = u}
           free == {i \in Installations : installations[i] = u}
<1>0. /\ TypeOK /\ issued' = issued /\ age' = age /\ leaving' = leaving /\ replayed' = replayed
      /\ users \in AccountsType /\ accounts \in AccountsType
      /\ installations \in InstallationsType /\ sessions \in SessionsType
    BY DEF AuthInvariant, TypeOK, AccountsType, update_account
<1>1. CASE accounts[u] = new
    <2>1. Save(u, accounts, installations, sessions)
        BY <1>1 DEF update_account
    <2>2. AccountsUpdated(u, accounts, sessions)
        BY DEF AccountsUpdated
    <2> QED
        BY <1>0, <2>1, <2>2, AllStay, SaveStep
<1>2. CASE accounts[u] # new
    <2>1. Save(u, users, Freed(free), Revoked(gone))
        BY <1>2 DEF update_account, revoke_user_sessions
    <2>2. /\ Revoked(gone) \in SessionsType /\ AllFade(Revoked(gone))
          /\ \A s \in gone : Revoked(gone)[s].revoked
        BY <1>0, RevokeFades
    <2>3. Freed(free) \in InstallationsType
        BY <1>0 DEF Freed, InstallationsType
    <2>4. new # None
        BY NoSession
    <2>5. AccountsUpdated(u, users, Revoked(gone))
        BY <1>0, <2>2, <2>4 DEF AccountsUpdated, AccountsType
    <2> HIDE DEF users, gone, free
    <2> QED
        BY <1>0, <2>1, <2>2, <2>3, <2>5, SaveStep
<1> QED
    BY <1>1, <1>2

\* The account with a new password is an account of the same kind.
LEMMA NewPasswordFits ==
    ASSUME AuthInvariant, NEW u \in Users, accounts[u] # None
    PROVE  WithNewPassword(u) \in Account /\ WithNewPassword(u).kind = accounts[u].kind
<1>1. accounts[u] \in Account /\ auth_users[u] \in Account
    BY DEF AuthInvariant, TypeOK, AccountsType, UsersStored
<1>2. auth_users[u].password + 1 \in Nat
    BY <1>1 DEF Account
<1> QED
    BY <1>1, <1>2 DEF WithNewPassword, Account

LEMMA LogoutStep ==
    ASSUME AuthInvariant, NEW x, revoke_installation_sessions(x),
           leaving' \subseteq leaving, UNCHANGED <<age, issued, replayed>>
    PROVE  AuthInvariant' /\ NoFamilyRevives
<1> DEFINE gone == {s \in Stored : /\ sessions[s].user = x.user
                                   /\ sessions[s].installation = x.installation
                                   /\ sessions[s].kind = x.kind}
<1>0. TypeOK /\ accounts \in AccountsType /\ None \in Users \cup {None}
    BY DEF AuthInvariant, TypeOK
<1>1. Save(None, accounts, Freed({x.installation}), Revoked(gone))
    BY DEF revoke_installation_sessions
<1>2. Revoked(gone) \in SessionsType /\ AllFade(Revoked(gone))
    BY <1>0, RevokeFades
<1>3. Freed({x.installation}) \in InstallationsType
    BY <1>0 DEF Freed, InstallationsType, TypeOK
<1>4. AccountsUpdated(None, accounts, Revoked(gone))
    BY DEF AccountsUpdated
<1> HIDE DEF gone
<1> QED
    BY <1>0, <1>1, <1>2, <1>3, <1>4, SaveStep

-----------------------------------------------------------------------------
(* Calls that issue a session.                                             *)

LEMMA IssueStep ==
    ASSUME AuthInvariant, NEW bindings \in InstallationsType,
           NEW all \in SessionsType, AllFade(all), NEW new \in Session,
           issue_session(bindings, all, new), UNCHANGED <<leaving, replayed>>,
           new.family <= issued + 1, new.family > changed[new.user], FitsAccount(new),
           \/ new.family = issued + 1
           \/ \E s \in Live : sessions[s].family = new.family
                              /\ (all[s] # None => all[s].rotated)
    PROVE  AuthInvariant' /\ NoFamilyRevives
<1> DEFINE kept == prune_expired_sessions(all)
           clone == [kept EXCEPT ![issued + 1] = new]
<1>0. /\ TypeOK /\ issued \in Nat /\ issued + 1 \in SessionIds /\ issued' = issued + 1
      /\ age' = age /\ Save(None, accounts, bindings, clone)
      /\ accounts \in AccountsType /\ None \in Users \cup {None}
    BY AuthConstants DEF AuthInvariant, TypeOK, issue_session, SessionIds
<1>1. kept \in SessionsType /\ AllFade(kept)
    BY PruneFades
<1>2. ASSUME NEW s \in SessionIds PROVE kept[s] = None \/ kept[s] = all[s]
    BY DEF prune_expired_sessions
<1> HIDE DEF kept
<1>3. /\ clone \in SessionsType /\ clone[issued + 1] = new /\ new # None
      /\ \A s \in SessionIds : s # issued + 1 => clone[s] = kept[s]
    BY <1>0, <1>1, NoSession DEF SessionsType
<1> HIDE DEF clone
<1>4. \A s \in SessionIds : s # issued + 1 => Fades(s, sessions[s], clone[s])
    BY <1>1, <1>3 DEF AllFade
<1>5. AccountsUpdated(None, accounts, clone)
    BY DEF AccountsUpdated
<1>6. ASSUME NEW s \in Presentable, clone[s] # None, Current(clone[s])
      PROVE  clone[s].family # new.family
    <2>1. s \in SessionIds /\ s \in 1 .. issued /\ sessions[s] # None /\ s # issued + 1
        BY <1>0 DEF Presentable, Stored, TypeOK
    <2>2. Continued(sessions[s], clone[s]) /\ clone[s] = all[s]
        BY <1>2, <1>3, <1>4, <1>6, <2>1 DEF Fades
    <2>3. CASE new.family = issued + 1
        <3>1. sessions[s].family <= issued /\ sessions[s].family \in Nat
            BY <1>0, <2>1 DEF AuthInvariant, Numbered, TypeOK, SessionsType, Session, SessionIds
        <3> QED
            BY <1>0, <2>2, <2>3, <3>1 DEF Continued
    <2>4. ASSUME NEW q \in Live, sessions[q].family = new.family,
                 all[q] # None => all[q].rotated, clone[s].family = new.family
          PROVE  FALSE
        <3>1. q = s
            BY <1>6, <2>2, <2>4 DEF AuthInvariant, OneCurrent, Live, Alive, Continued, Current
        <3> QED
            BY <1>6, <2>2, <2>4, <3>1 DEF Current
    <2> QED
        BY <2>3, <2>4
<1>7. FreshlyIssued(clone)
    BY <1>3, <1>6 DEF FreshlyIssued, FamilyAlive
<1> QED
    BY <1>0, <1>3, <1>4, <1>5, <1>7, SaveStep

LEMMA LoginStep ==
    ASSUME AuthInvariant, NEW u \in Users, NEW i \in Installations \cup {None},
           NEW kind \in SessionKind, NEW bindings \in InstallationsType,
           accounts[u] # None,
           kind = "Admin" <=> accounts[u].kind = "OrganizationAdmin",
           issue_session(bindings, sessions, NewSession(u, i, kind, issued + 1)),
           UNCHANGED <<leaving, replayed>>
    PROVE  AuthInvariant' /\ NoFamilyRevives
<1> DEFINE new == NewSession(u, i, kind, issued + 1)
<1>1. /\ TypeOK /\ accounts[u] \in Account /\ issued + 1 \in SessionIds
      /\ issued \in Nat /\ changed[u] \in 0 .. issued /\ sessions \in SessionsType
    BY AuthConstants DEF AuthInvariant, TypeOK, AccountsType, issue_session, SessionIds
<1>2. new \in Session
    BY <1>1 DEF NewSession, Session
<1>3. FitsAccount(new) /\ new.family = issued + 1 /\ new.user = u
    BY DEF NewSession, FitsAccount
<1> HIDE DEF new
<1>4. issue_session(bindings, sessions, new)
    BY DEF new
<1>5. new.family <= issued + 1 /\ new.family > changed[new.user]
    BY <1>1, <1>3
<1> QED
    BY <1>1, <1>2, <1>3, <1>4, <1>5, AllStay, IssueStep

LEMMA RefreshStep ==
    ASSUME AuthInvariant, NEW s \in SessionIds, refresh_for_client(s)
    PROVE  AuthInvariant' /\ NoFamilyRevives
<1> DEFINE x == sessions[s]
           new == NewSession(x.user, x.installation, x.kind, x.family)
<1>1. TypeOK /\ s \in Presentable /\ s \in Stored /\ x \in Session /\ s \in Live
    BY DEF AuthInvariant, TypeOK, SessionsType, refresh_for_client, Presentable, Stored,
           Refreshable, Live, Alive
<1>2. x.family > changed[x.user] /\ FitsAccount(x)
    BY <1>1 DEF AuthInvariant, HandedFit, Live, Alive, Current
<1>3. /\ new \in Session /\ new.family = x.family /\ new.user = x.user
      /\ FitsAccount(new)
    BY <1>1, <1>2 DEF NewSession, Session, FitsAccount
<1>4. /\ Rotated(s) \in SessionsType /\ AllFade(Rotated(s)) /\ Rotated(s)[s].rotated
    BY <1>1, RotateFades
<1>5. issue_session(installations, Rotated(s), new) /\ UNCHANGED <<leaving, replayed>>
    BY DEF refresh_for_client
<1>6. installations \in InstallationsType
    BY <1>1 DEF TypeOK
<1>7. new.family <= issued + 1 /\ issued \in Nat
    <2>1. x.family <= issued /\ x.family \in Nat /\ issued \in Nat
        BY <1>1, AuthConstants DEF AuthInvariant, Numbered, Stored, TypeOK, Session, SessionIds
    <2> QED
        BY <1>3, <2>1
<1> HIDE DEF new
<1> QED
    BY <1>1, <1>2, <1>3, <1>4, <1>5, <1>6, <1>7, IssueStep

-----------------------------------------------------------------------------
(* Steps that save nothing.                                                *)

LEMMA QuietStep ==
    ASSUME AuthInvariant, UNCHANGED <<memory, rows, age, issued, history, uncertain>>,
           leaving' \subseteq SessionIds, replayed' \in SessionIds \cup {None}
    PROVE  AuthInvariant' /\ NoFamilyRevives
<1>1. /\ accounts' = accounts /\ installations' = installations /\ sessions' = sessions
      /\ auth_users' = auth_users /\ auth_installations' = auth_installations
      /\ auth_sessions' = auth_sessions
      /\ age' = age /\ issued' = issued /\ handed' = handed /\ changed' = changed
      /\ uncertain' = uncertain /\ Stored' = Stored /\ Presentable' = Presentable
    BY DEF memory, rows, history, Stored, Presentable
<1>2. TypeOK'
    BY <1>1 DEF AuthInvariant, TypeOK
<1>3. Numbered(sessions)' /\ Numbered(auth_sessions)' /\ UsersStored'
    BY <1>1 DEF AuthInvariant, Numbered, UsersStored
<1>4. SessionsStored' /\ DroppedExpired'
    BY <1>1 DEF AuthInvariant, SessionsStored, DroppedExpired, Expired
<1>5. HandedFit' /\ OneCurrent'
    BY <1>1 DEF AuthInvariant, HandedFit, OneCurrent, FitsAccount
<1>6. NoFamilyRevives
    BY <1>1 DEF NoFamilyRevives, FamilyAlive, Live, Alive, Expired
<1> QED
    BY <1>2, <1>3, <1>4, <1>5, <1>6 DEF AuthInvariant

LEMMA ElapseStep ==
    ASSUME AuthInvariant, NEW s \in SessionIds, Elapse(s)
    PROVE  AuthInvariant' /\ NoFamilyRevives
<1>1. /\ accounts' = accounts /\ installations' = installations /\ sessions' = sessions
      /\ auth_users' = auth_users /\ auth_installations' = auth_installations
      /\ auth_sessions' = auth_sessions /\ issued' = issued
      /\ handed' = handed /\ changed' = changed /\ leaving' = leaving
      /\ replayed' = replayed /\ uncertain' = uncertain
      /\ Stored' = Stored /\ Presentable' = Presentable
    BY DEF Elapse, memory, rows, history, Stored, Presentable
<1>2. /\ TypeOK /\ age \in [SessionIds -> 0 .. 2] /\ age[s] \in {0, 1}
      /\ age' = [age EXCEPT ![s] = age[s] + 1]
    BY DEF AuthInvariant, TypeOK, Elapse, Expired
<1>3. age' \in [SessionIds -> 0 .. 2] /\ \A q \in SessionIds : age'[q] >= age[q]
    BY <1>2
<1>4. TypeOK'
    BY <1>1, <1>2, <1>3 DEF TypeOK
<1>5. ASSUME NEW q \in SessionIds, NEW x, Expired(q, x) PROVE Expired(q, x)'
    <2>1. age[q] \in 0 .. 2 /\ age'[q] \in 0 .. 2 /\ age'[q] >= age[q]
        BY <1>2, <1>3
    <2> QED
        BY <1>5, <2>1 DEF Expired
<1>6. Numbered(sessions)' /\ Numbered(auth_sessions)' /\ UsersStored'
    BY <1>1 DEF AuthInvariant, Numbered, UsersStored
<1>7. SessionsStored'
    <2>1. ASSUME NEW q \in Stored, auth_sessions[q] = None PROVE age'[q] >= LastAge(sessions[q])
        <3>1. q \in SessionIds /\ Expired(q, sessions[q])
            BY <2>1 DEF AuthInvariant, SessionsStored, Stored
        <3> QED
            BY <1>5, <3>1 DEF Expired, LastAge
    <2> QED
        BY <1>1, <2>1 DEF AuthInvariant, SessionsStored, Expired, LastAge
<1>8. DroppedExpired'
    <2>1. ASSUME NEW q \in handed, q \notin Stored, auth_sessions[q] # None
          PROVE  age'[q] >= LastAge(auth_sessions[q])
        <3>1. q \in SessionIds /\ Expired(q, auth_sessions[q])
            BY <1>2, <2>1, AuthConstants DEF AuthInvariant, DroppedExpired, TypeOK, SessionIds
        <3> QED
            BY <1>5, <3>1 DEF Expired, LastAge
    <2> QED
        BY <1>1, <2>1 DEF DroppedExpired, Expired, LastAge
<1>9. HandedFit' /\ OneCurrent'
    BY <1>1 DEF AuthInvariant, HandedFit, OneCurrent, FitsAccount
<1>10. NoFamilyRevives
    <2> SUFFICES ASSUME NEW f \in 1 .. issued, FamilyAlive(f)' PROVE FamilyAlive(f)
        BY DEF NoFamilyRevives
    <2>1. PICK q \in Presentable : /\ sessions[q].family = f /\ Current(sessions[q])
                                   /\ ~(age'[q] >= LastAge(sessions[q]))
        BY <1>1 DEF FamilyAlive, Live, Alive, Expired, LastAge, Current
    <2>2. q \in SessionIds
        BY DEF Presentable, Stored
    <2>3. ~Expired(q, sessions[q])
        BY <1>5, <2>1, <2>2 DEF Expired, LastAge
    <2> QED
        BY <2>1, <2>3 DEF FamilyAlive, Live, Alive
<1> QED
    BY <1>4, <1>6, <1>7, <1>8, <1>9, <1>10 DEF AuthInvariant

\* What is loaded and has been given to a client was there before the restart,
\* with the marks of its row at most.
LEMMA RestartStep ==
    ASSUME AuthInvariant, Restart
    PROVE  AuthInvariant' /\ NoFamilyRevives
<1> DEFINE loaded == prune_expired_sessions(auth_sessions)
<1>0. /\ TypeOK /\ accounts' = auth_users /\ installations' = auth_installations
      /\ sessions' = loaded /\ leaving' = {}
      /\ auth_users' = auth_users /\ auth_installations' = auth_installations
      /\ auth_sessions' = auth_sessions /\ age' = age /\ issued' = issued
      /\ handed' = handed /\ changed' = changed /\ replayed' = replayed
      /\ uncertain' = uncertain
    BY DEF AuthInvariant, Restart, rows, history
<1>1. ASSUME NEW s \in SessionIds
      PROVE  \/ loaded[s] = None /\ (auth_sessions[s] # None => Expired(s, auth_sessions[s]))
             \/ /\ loaded[s] = auth_sessions[s] /\ loaded[s] # None /\ loaded[s] \in Session
                /\ ~Expired(s, auth_sessions[s])
    BY <1>0 DEF prune_expired_sessions, TypeOK, SessionsType
<1>2. loaded \in SessionsType
    BY <1>0 DEF prune_expired_sessions, TypeOK, SessionsType
<1> HIDE DEF loaded
<1>3. TypeOK'
    BY <1>0, <1>2 DEF TypeOK
<1>4. Numbered(sessions)' /\ Numbered(auth_sessions)' /\ UsersStored'
    BY <1>0, <1>1 DEF AuthInvariant, Numbered, UsersStored
<1>5. SessionsStored'
    <2>1. ASSUME NEW s \in SessionIds, loaded[s] # None
          PROVE  auth_sessions[s] # None /\ Continued(loaded[s], auth_sessions[s])
        BY <1>1, <2>1, Unchanging
    <2> QED
        BY <1>0, <2>1 DEF SessionsStored, Stored
<1>6. DroppedExpired'
    <2>1. ASSUME NEW s \in handed, loaded[s] = None, auth_sessions[s] # None
          PROVE  age[s] >= LastAge(auth_sessions[s])
        <3>1. s \in SessionIds
            BY <1>0, AuthConstants DEF TypeOK, SessionIds
        <3> QED
            BY <1>1, <2>1, <3>1 DEF Expired, LastAge
    <2>2. handed \subseteq SessionIds
        BY <1>0, AuthConstants DEF TypeOK, SessionIds
    <2> QED
        BY <1>0, <2>1, <2>2 DEF DroppedExpired, Stored, Expired, LastAge
<1>7. ASSUME NEW s \in Presentable'
      PROVE  /\ s \in Presentable /\ s \in SessionIds
             /\ loaded[s] = auth_sessions[s] /\ Continued(sessions[s], loaded[s])
             /\ ~Expired(s, loaded[s]) /\ loaded[s].user \in Users
    <2>1. s \in SessionIds /\ s \in handed /\ loaded[s] # None
        BY <1>0 DEF Presentable, Stored
    <2>2. /\ loaded[s] = auth_sessions[s] /\ loaded[s] \in Session
          /\ ~Expired(s, auth_sessions[s])
        BY <1>1, <2>1
    <2>3. s \in Stored
        BY <2>1, <2>2 DEF AuthInvariant, DroppedExpired
    <2>4. Continued(sessions[s], auth_sessions[s])
        BY <2>1, <2>2, <2>3 DEF AuthInvariant, SessionsStored
    <2> QED
        BY <2>1, <2>2, <2>3, <2>4 DEF Presentable, Session
<1>8. HandedFit'
    <2>1. ASSUME NEW s \in Presentable', ~loaded[s].revoked
          PROVE  /\ loaded[s].family > changed[loaded[s].user]
                 /\ auth_users[loaded[s].user] # None
                 /\ loaded[s].kind = "Admin" <=> auth_users[loaded[s].user].kind = "OrganizationAdmin"
        <3>1. /\ s \in Presentable /\ ~sessions[s].revoked /\ loaded[s].user \in Users
              /\ loaded[s].user = sessions[s].user /\ loaded[s].kind = sessions[s].kind
              /\ loaded[s].family = sessions[s].family
            BY <1>7, <2>1 DEF Continued
        <3>2. sessions[s].family > changed[sessions[s].user] /\ FitsAccount(sessions[s])
            BY <3>1 DEF AuthInvariant, HandedFit
        <3>3. /\ auth_users[sessions[s].user] # None
              /\ auth_users[sessions[s].user].kind = accounts[sessions[s].user].kind
            BY <3>1, <3>2 DEF AuthInvariant, UsersStored, FitsAccount
        <3> QED
            BY <3>1, <3>2, <3>3 DEF FitsAccount
    <2> QED
        BY <1>0, <2>1 DEF HandedFit, FitsAccount
<1>9. OneCurrent'
    <2>1. ASSUME NEW s \in Presentable', NEW q \in Presentable',
                 Current(loaded[s]), Current(loaded[q]), loaded[s].family = loaded[q].family
          PROVE  s = q
        <3>1. /\ s \in Presentable /\ q \in Presentable
              /\ Current(sessions[s]) /\ Current(sessions[q])
              /\ sessions[s].family = sessions[q].family
            BY <1>7, <2>1 DEF Continued, Current
        <3> QED
            BY <3>1 DEF AuthInvariant, OneCurrent
    <2> QED
        BY <1>0, <2>1 DEF OneCurrent, Current
<1>10. NoFamilyRevives
    <2> SUFFICES ASSUME NEW f \in 1 .. issued, FamilyAlive(f)' PROVE FamilyAlive(f)
        BY DEF NoFamilyRevives
    <2>1. PICK s \in Presentable' : loaded[s].family = f /\ Current(loaded[s])
        BY <1>0 DEF FamilyAlive, Live, Alive, Current
    <2>2. /\ s \in Presentable /\ sessions[s].family = f /\ Current(sessions[s])
          /\ ~Expired(s, sessions[s])
        BY <1>7, <2>1 DEF Continued, Current, Expired
    <2> QED
        BY <2>2 DEF FamilyAlive, Live, Alive
<1> QED
    BY <1>3, <1>4, <1>5, <1>6, <1>8, <1>9, <1>10 DEF AuthInvariant

-----------------------------------------------------------------------------

LEMMA StepKeeps ==
    ASSUME AuthInvariant, [Next]_vars
    PROVE  AuthInvariant' /\ NoFamilyRevives
<1>0. TypeOK
    BY DEF AuthInvariant
<1>1. ASSUME NEW u \in Users, NEW o \in Orgs, create_organization(u, o)
      PROVE  AuthInvariant' /\ NoFamilyRevives
    <2>1. [kind |-> "OrganizationAdmin", organization |-> o, password |-> 1] \in Account
        BY DEF Account, AccountKind
    <2> QED
        BY <1>1, <2>1, UpdateStep DEF create_organization, Unknown
<1>2. ASSUME NEW u \in Users, NEW o \in Orgs, NEW with_password \in BOOLEAN,
             add_member(u, o, with_password)
      PROVE  AuthInvariant' /\ NoFamilyRevives
    <2>1. CASE /\ accounts[u] = None
               /\ update_account(u, [kind |-> "Business", organization |-> None, password |-> 1])
        <3>1. [kind |-> "Business", organization |-> None, password |-> 1] \in Account
            BY DEF Account, AccountKind
        <3> QED
            BY <2>1, <3>1, UpdateStep
    <2>2. CASE /\ accounts[u] # None
               /\ \/ update_account(u, WithNewPassword(u))
                  \/ update_account(u, accounts[u])
        <3>1. accounts[u] \in Account
            BY <1>0, <2>2 DEF TypeOK, AccountsType
        <3> QED
            BY <2>2, <3>1, NewPasswordFits, UpdateStep
    <2> QED
        BY <1>2, <2>1, <2>2 DEF add_member, Unknown
<1>3. ASSUME NEW u \in Users, accounts[u] # None, update_account(u, WithNewPassword(u))
      PROVE  AuthInvariant' /\ NoFamilyRevives
    BY <1>3, NewPasswordFits, UpdateStep
<1>4. ASSUME NEW u \in Users, NEW o \in Orgs, reset_member_password(u, o)
      PROVE  AuthInvariant' /\ NoFamilyRevives
    BY <1>3, <1>4 DEF reset_member_password
<1>5. ASSUME NEW u \in Users, reset_organization_admin_password(u)
      PROVE  AuthInvariant' /\ NoFamilyRevives
    BY <1>3, <1>5 DEF reset_organization_admin_password
\* The owner of a session that is not revoked has an account.
<1>6. ASSUME NEW s \in Presentable, ~sessions[s].revoked
      PROVE  /\ sessions[s].user \in Users
             /\ accounts[sessions[s].user] # None
             /\ accounts[sessions[s].user] \in Account
    <2>1. sessions[s].user \in Users
        BY <1>0 DEF TypeOK, SessionsType, Session, Presentable, Stored
    <2>2. accounts[sessions[s].user] # None
        BY <1>6 DEF AuthInvariant, HandedFit, FitsAccount
    <2> QED
        BY <1>0, <2>1, <2>2 DEF TypeOK, AccountsType
<1>7. ASSUME NEW s \in SessionIds, change_admin_password(s)
      PROVE  AuthInvariant' /\ NoFamilyRevives
    <2>1. s \in Presentable /\ ~sessions[s].revoked
        BY <1>7 DEF change_admin_password, authenticate_admin_access_token
    <2>2. update_account(sessions[s].user, WithNewPassword(sessions[s].user))
        BY <1>7 DEF change_admin_password
    <2> QED
        BY <1>3, <1>6, <2>1, <2>2
<1>8. ASSUME NEW s \in SessionIds, update_me(s)
      PROVE  AuthInvariant' /\ NoFamilyRevives
    <2>1. s \in Presentable /\ ~sessions[s].revoked
        BY <1>8 DEF update_me, authenticate_access_token, Current
    <2>2. update_account(sessions[s].user, accounts[sessions[s].user])
        BY <1>8 DEF update_me
    <2> QED
        BY <1>6, <2>1, <2>2, UpdateStep
<1>9. ASSUME NEW u \in Users, admin_login(u)
      PROVE  AuthInvariant' /\ NoFamilyRevives
    BY <1>0, <1>9, LoginStep DEF admin_login, SessionKind, TypeOK
<1>10. ASSUME NEW u \in Users, NEW i \in Installations, NEW kind \in ClientKinds,
              login_for_client(u, i, kind)
       PROVE  AuthInvariant' /\ NoFamilyRevives
    <2>1. kind \in SessionKind /\ kind # "Admin"
        BY AuthConstants DEF SessionKind
    <2>2. [installations EXCEPT ![i] = u] \in InstallationsType
        BY <1>0 DEF TypeOK, InstallationsType
    <2>3. /\ accounts[u].kind # "OrganizationAdmin" /\ accounts[u] # None
          /\ issue_session([installations EXCEPT ![i] = u], sessions,
                           NewSession(u, i, kind, issued + 1))
          /\ UNCHANGED <<leaving, replayed>>
        BY <1>10 DEF login_for_client
    <2> QED
        BY <2>1, <2>2, <2>3, LoginStep
<1>11. ASSUME NEW s \in SessionIds, refresh_for_client(s)
       PROVE  AuthInvariant' /\ NoFamilyRevives
    BY <1>11, RefreshStep
<1>12. ASSUME NEW s \in SessionIds, refresh_replayed(s) \/ tauri_logout(s) \/ logout_refused(s)
       PROVE  AuthInvariant' /\ NoFamilyRevives
    <2>1. UNCHANGED <<memory, rows, age, issued, history, uncertain>>
        BY <1>12 DEF refresh_replayed, tauri_logout, logout_refused
    <2>2. leaving' \subseteq SessionIds /\ replayed' \in SessionIds \cup {None}
        BY <1>0, <1>12 DEF refresh_replayed, tauri_logout, logout_refused, TypeOK,
                           SessionsType, Session, Presentable, Stored
    <2> QED
        BY <2>1, <2>2, QuietStep
<1>13. ASSUME NEW s \in SessionIds,
              \/ web_logout(s) \/ admin_logout(s)
              \/ \E last \in BOOLEAN : logout(s, last)
       PROVE  AuthInvariant' /\ NoFamilyRevives
    <2>1. /\ revoke_installation_sessions(sessions[s])
          /\ leaving' \subseteq leaving /\ UNCHANGED <<age, issued, replayed>>
        BY <1>13 DEF web_logout, admin_logout, logout
    <2> QED
        BY <2>1, LogoutStep
<1>14. ASSUME NEW s \in SessionIds, Elapse(s)
       PROVE  AuthInvariant' /\ NoFamilyRevives
    BY <1>14, ElapseStep
<1>15. CASE Restart
    BY <1>15, RestartStep
<1>16. CASE UNCHANGED vars
    BY <1>0, <1>16, QuietStep DEF vars, TypeOK
<1> QED
    BY <1>1, <1>2, <1>4, <1>5, <1>7, <1>8, <1>9, <1>10, <1>11, <1>12, <1>13, <1>14, <1>15, <1>16
    DEF Next

(***************************************************************************)
(* The invariant of accounts, sessions and their rows holds for any number *)
(* of users, installations, sessions and uncertain saves.                  *)
(***************************************************************************)
THEOREM SessionsAlwaysConsistent == Spec => []AuthInvariant
<1>1. AuthInvariant /\ [Next]_vars => AuthInvariant'
    BY StepKeeps
<1> QED
    BY <1>1, InitInvariant, PTL DEF Spec

(***************************************************************************)
(* A published change of an account ends the sessions opened before it,    *)
(* also over restarts and uncertain saves.                                 *)
(***************************************************************************)
THEOREM ChangeAlwaysEndsSessions == Spec => []ChangeEndsSessions
<1>1. AuthInvariant => ChangeEndsSessions
    BY DEF AuthInvariant, HandedFit, ChangeEndsSessions, Live, Alive, Current
<1> QED
    BY <1>1, SessionsAlwaysConsistent, PTL

(***************************************************************************)
(* Rotation never leaves two tokens of a family in force.                  *)
(***************************************************************************)
THEOREM AlwaysOneLiveSessionPerFamily == Spec => []OneLiveSessionPerFamily
<1>1. AuthInvariant => OneLiveSessionPerFamily
    BY DEF AuthInvariant, OneCurrent, OneLiveSessionPerFamily, Live, Alive
<1> QED
    BY <1>1, SessionsAlwaysConsistent, PTL

(***************************************************************************)
(* A family that has ended is never revived, by a restart neither.         *)
(***************************************************************************)
THEOREM EndedAlwaysStaysEnded == Spec => EndedStaysEnded
<1>1. AuthInvariant /\ [Next]_vars =>
          [\A f \in 1 .. issued : FamilyAlive(f)' => FamilyAlive(f)]_vars
    BY StepKeeps DEF NoFamilyRevives
<1> QED
    BY <1>1, SessionsAlwaysConsistent, PTL DEF Spec, EndedStaysEnded
=============================================================================
