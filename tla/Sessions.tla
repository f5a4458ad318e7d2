------------------------------ MODULE Sessions ------------------------------
(***************************************************************************)
(* Portal sessions over the accounts: login_view, Django's login() and the *)
(* session hash of User.get_session_auth_hash.                             *)
(*                                                                         *)
(* A login is not one transaction.  authenticate_login reads the user row  *)
(* without a lock; login() takes the session hash from that copy; the      *)
(* user_logged_in receiver then saves last_login through User.save, which  *)
(* reads the row again (still without a lock) and writes in a later        *)
(* statement.  Administrators act in between.  The throttle is left out.   *)
(*                                                                         *)
(* A reset of one's own password is not one transaction either.  The view  *)
(* user_reset_password is entered with a session that is current; the reset *)
(* commits; then the new hash is written into the session, which is stored *)
(* with the response.  A browser has one such request at a time.            *)
(***************************************************************************)
EXTENDS Accounts

CONSTANTS Session,   \* browsers that may hold a session
          NoUser     \* the user of a browser without one

ASSUME SessionsAssumption == NoUser \notin User

\* Per browser: how far its login or its reset is, the user and auth_version its
\* session hash is made from, and the auth_version that User.save is about to
\* write to the row, or that the reset has written there (0: none).
VARIABLE sessions

sessionVars == <<users, is_active, is_administrator, auth_version, sessions>>

NoSession == [stage |-> "none", user |-> NoUser, version |-> 0, written |-> 0]

Init == AccountsInit /\ sessions = [s \in Session |-> NoSession]

----------------------------------------------------------------------------
\* ModelBackend finds the user active and the password right.
authenticate_login(s, u) ==
    /\ sessions[s].stage = "none"
    /\ u \in is_active
    /\ sessions' = [sessions EXCEPT ![s] =
                       [stage |-> "authenticated", user |-> u,
                        version |-> auth_version[u], written |-> 0]]
    /\ UNCHANGED accountVars

\* User.save on behalf of update_last_login: the copy says active; when the
\* row does not, auth_version is set from the row and joins the update.
save_reads_original(s) ==
    LET u == sessions[s].user IN
    /\ sessions[s].stage = "authenticated"
    /\ u \notin is_active => auth_version[u] < MaxAuthVersion
    /\ sessions' = [sessions EXCEPT
                       ![s].stage = "saving",
                       ![s].written = IF u \in is_active THEN 0
                                                         ELSE auth_version[u] + 1]
    /\ UNCHANGED accountVars

\* agora_user_auth_version_guard accepts a version that does not go back.
GuardAccepts(u, written) == written >= auth_version[u]

save_writes_WholeRow(s) ==
    LET u == sessions[s].user
        w == sessions[s].written
    IN  /\ sessions[s].stage = "saving"
        /\ is_active' = is_active \cup {u}
        /\ auth_version' = IF w = 0 THEN auth_version
                                    ELSE [auth_version EXCEPT ![u] = w]
        /\ sessions' = [sessions EXCEPT ![s].stage = "open", ![s].written = 0]
        /\ UNCHANGED <<users, is_administrator>>

\* The UPDATE.  is_active is not among its columns.
save_writes(s) ==
    LET u == sessions[s].user
        w == sessions[s].written
    IN  /\ sessions[s].stage = "saving"
        /\ w = 0 \/ GuardAccepts(u, w)
        /\ auth_version' = IF w = 0 THEN auth_version
                                    ELSE [auth_version EXCEPT ![u] = w]
        /\ sessions' = [sessions EXCEPT ![s].stage = "open", ![s].written = 0]
        /\ UNCHANGED <<users, is_active, is_administrator>>

\* The trigger raises: the response is a 500 and the session is not stored.
save_fails(s) ==
    /\ sessions[s].stage = "saving"
    /\ sessions[s].written # 0
    /\ ~GuardAccepts(sessions[s].user, sessions[s].written)
    /\ sessions' = [sessions EXCEPT ![s] = NoSession]
    /\ UNCHANGED accountVars

\* logout_view, the session cookie's expiry, or the flush of a stale session.
logout(s) ==
    /\ sessions[s].stage = "open"
    /\ sessions' = [sessions EXCEPT ![s] = NoSession]
    /\ UNCHANGED accountVars

\* The account changed since the password was checked.  AuthenticationMiddleware
\* serves a session only while its user is active and its hash is the one of
\* the row's current password and auth_version.
Superseded(s) ==
    /\ sessions[s].stage # "none"
    /\ \/ sessions[s].user \notin is_active
       \/ sessions[s].version # auth_version[sessions[s].user]

\* user_reset_password for the own account is entered: AuthenticationMiddleware
\* and administrator_required let the request pass.
ask_own_reset(s) ==
    /\ sessions[s].stage = "open"
    /\ ~Superseded(s)
    /\ sessions[s].user \in is_administrator
    /\ sessions' = [sessions EXCEPT ![s].stage = "asking"]
    /\ UNCHANGED accountVars

\* The service looks at the actor's row, not at the session.
reset_own_password(s) ==
    LET u == sessions[s].user IN
    /\ sessions[s].stage = "asking"
    /\ reset_user_password(u, u)
    /\ sessions' = [sessions EXCEPT ![s].stage = "renewing",
                                    ![s].written = auth_version[u] + 1]

\* NotAdministrator, or the password policy.
own_reset_refused(s) ==
    /\ sessions[s].stage = "asking"
    /\ sessions' = [sessions EXCEPT ![s].stage = "open"]
    /\ UNCHANGED accountVars

renew_session_FromRow(s) ==
    /\ sessions[s].stage = "renewing"
    /\ sessions' = [sessions EXCEPT ![s].stage = "open", ![s].written = 0,
                                    ![s].version = auth_version[sessions[s].user]]
    /\ UNCHANGED accountVars

\* cycle_key, and the hash of the copy that the reset returned.
renew_session(s) ==
    /\ sessions[s].stage = "renewing"
    /\ sessions' = [sessions EXCEPT ![s].stage = "open", ![s].written = 0,
                                    ![s].version = sessions[s].written]
    /\ UNCHANGED accountVars

\* The process dies behind the reset: the session is stored as it was, or, after
\* cycle_key, deleted.
renewal_lost(s) ==
    /\ sessions[s].stage = "renewing"
    /\ \/ sessions' = [sessions EXCEPT ![s].stage = "open", ![s].written = 0]
       \/ sessions' = [sessions EXCEPT ![s] = NoSession]
    /\ UNCHANGED accountVars

\* What is done in other browsers and on the command line.
Administration ==
    /\ \/ \E u \in User : bootstrap_first_administrator(u)
       \/ \E actor, target \in User :
              \/ \E administrator \in BOOLEAN :
                     provision_user(actor, target, administrator)
              \/ disable_user(actor, target)
              \/ enable_user(actor, target)
              \/ actor # target /\ reset_user_password(actor, target)
    /\ UNCHANGED sessions

Next == \/ Administration
        \/ \E s \in Session : \/ \E u \in User : authenticate_login(s, u)
                              \/ save_reads_original(s)
                              \/ save_writes(s)
                              \/ save_fails(s)
                              \/ logout(s)
                              \/ ask_own_reset(s)
                              \/ reset_own_password(s)
                              \/ own_reset_refused(s)
                              \/ renew_session(s)
                              \/ renewal_lost(s)

Spec == Init /\ [][Next]_sessionVars

----------------------------------------------------------------------------
SessionType == [stage : {"none", "authenticated", "saving", "open", "asking", "renewing"},
                user : User \cup {NoUser},
                version : 0..MaxAuthVersion,
                written : 0..MaxAuthVersion]

\* Types; a started login holds the version of a provisioned user, never one
\* from the future.
TypeOK == /\ AccountsTypeOK
          /\ sessions \in [Session -> SessionType]
          /\ \A s \in Session : sessions[s].stage # "none" =>
                 /\ sessions[s].user \in users
                 /\ sessions[s].version \in 1..auth_version[sessions[s].user]

\* The session's own reset is the last thing that happened to the account.
OwnResetIsLast(s) == /\ sessions[s].stage = "renewing"
                     /\ sessions[s].written = auth_version[sessions[s].user]

\* What a disable or a password reset ended never works again, not after any
\* later enable, login or late save, and neither does a login that was still
\* on its way (User.get_session_auth_hash binds it to the version it read).  The
\* one exception is the browser in which an administrator resets the own
\* password, and only if no disable, enable or reset has followed: the hash it
\* writes is that of its own reset, not of whatever the row holds by then.
NoSessionResurrection ==
    [][\A s \in Session : Superseded(s) /\ sessions'[s].stage # "none"
                              => Superseded(s)' \/ OwnResetIsLast(s)]_sessionVars
=============================================================================
