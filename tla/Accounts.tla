------------------------------ MODULE Accounts ------------------------------
(***************************************************************************)
(* User accounts of Agora: core/authentication.py and the User model.      *)
(*                                                                         *)
(* Every service of core/authentication.py is one durable transaction that *)
(* locks (SELECT ... FOR UPDATE) the rows its guards read before it writes *)
(* them, so each service is one action.  A refused call raises and rolls   *)
(* back: it is no step.  Soeids, passwords and audit rows are abstracted;  *)
(* a password matters here only through auth_version, which every password *)
(* change advances in the same UPDATE.                                     *)
(*                                                                         *)
(* An operator named <definition>_<Slip> is the definition with a plausible *)
(* mistake in it.  No specification uses it: it shows that a property would *)
(* notice the mistake.                                                      *)
(***************************************************************************)
EXTENDS Naturals, FiniteSets

CONSTANTS User,            \* every identity that may ever be provisioned
          MaxAuthVersion   \* bound on auth_version (the code has none)

ASSUME AccountsAssumption == /\ User # {}
                             /\ MaxAuthVersion \in Nat \ {0}

VARIABLES users,             \* the provisioned users (rows of TB_TA_AGORA_USER)
          is_active,         \* those whose is_active is TRUE
          is_administrator,  \* those whose is_administrator is TRUE
          auth_version       \* revocation version per user, 0 without a row

accountVars == <<users, is_active, is_administrator, auth_version>>

ActiveAdministrators == is_active \cap is_administrator

\* auth_version + 1, as reset_user_password and User.save compute it.
AdvanceAuthVersion(u) ==
    /\ auth_version[u] < MaxAuthVersion
    /\ auth_version' = [auth_version EXCEPT ![u] = @ + 1]

AccountsInit == /\ users = {}
                /\ is_active = {}
                /\ is_administrator = {}
                /\ auth_version = [u \in User |-> 0]

----------------------------------------------------------------------------
\* A fresh row: active, auth_version 1 (the field's default).
InsertUser(u, administrator) ==
    /\ u \notin users
    /\ users' = users \cup {u}
    /\ is_active' = is_active \cup {u}
    /\ is_administrator' = IF administrator THEN is_administrator \cup {u}
                                            ELSE is_administrator
    /\ auth_version' = [auth_version EXCEPT ![u] = 1]

\* LOCK TABLE ... IN EXCLUSIVE MODE serialises the emptiness check.
bootstrap_first_administrator(u) == /\ users = {}
                                    /\ InsertUser(u, TRUE)

provision_user(actor, u, administrator) == /\ actor \in ActiveAdministrators
                                           /\ InsertUser(u, administrator)

disable_user_SelfAllowed(actor, target) ==
    /\ actor \in ActiveAdministrators
    /\ target \in is_active
    /\ is_active' = is_active \ {target}
    /\ AdvanceAuthVersion(target)
    /\ UNCHANGED <<users, is_administrator>>

\* Locks every active administrator, so the actor's standing and the count
\* are current.  A self-disable is refused, whoever else is left.
disable_user(actor, target) ==
    /\ actor \in ActiveAdministrators
    /\ target \in users
    /\ target # actor
    /\ target \in is_active
    /\ is_active' = is_active \ {target}
    /\ AdvanceAuthVersion(target)
    /\ UNCHANGED <<users, is_administrator>>

enable_user(actor, target) ==
    /\ actor \in ActiveAdministrators
    /\ target \in users \ is_active
    /\ is_active' = is_active \cup {target}
    /\ AdvanceAuthVersion(target)
    /\ UNCHANGED <<users, is_administrator>>

reset_user_password(actor, target) ==
    /\ actor \in ActiveAdministrators
    /\ target \in users
    /\ AdvanceAuthVersion(target)
    /\ UNCHANGED <<users, is_active, is_administrator>>

\* Django's login() saves last_login through User.save.  When the account was
\* disabled after its password was checked, the in-memory is_active differs
\* from the row and save() advances auth_version.  Sessions models the read
\* and the write apart and shows that their net effect is this action.
save_stale_login(u) ==
    /\ u \in users \ is_active
    /\ AdvanceAuthVersion(u)
    /\ UNCHANGED <<users, is_active, is_administrator>>

----------------------------------------------------------------------------
\* What administrators and logins do to accounts that exist.
AccountChange == \/ \E actor, target \in User : \/ disable_user(actor, target)
                                                \/ enable_user(actor, target)
                                                \/ reset_user_password(actor, target)
                 \/ \E u \in User : save_stale_login(u)

AccountsNext == \/ \E u \in User : bootstrap_first_administrator(u)
                \/ \E actor, u \in User, administrator \in BOOLEAN :
                       provision_user(actor, u, administrator)
                \/ AccountChange

AccountsSpec == AccountsInit /\ [][AccountsNext]_accountVars

----------------------------------------------------------------------------
\* Types; a user without a row has version 0 and no flag, and one with a row
\* has a positive version (agora_user_auth_version_positive).
AccountsTypeOK == /\ users \subseteq User
                  /\ is_active \subseteq users
                  /\ is_administrator \subseteq users
                  /\ auth_version \in [User -> 0..MaxAuthVersion]
                  /\ \A u \in User : u \in users <=> auth_version[u] > 0

\* Once anybody is provisioned, an active administrator remains: the
\* bootstrap is closed for good, so without one nobody could ever administer
\* again (disable_user's LastAdministratorError and SelfDisableError).
AdministratorRemains == users # {} => ActiveAdministrators # {}

\* auth_version never moves backwards, and every change of is_active advances
\* it (User.save and the trigger agora_user_auth_version_guard): what was bound
\* to an earlier version stays dead.
VersionMonotone ==
    [][\A u \in User : /\ auth_version'[u] >= auth_version[u]
                       /\ (u \in is_active) # (u \in is_active')
                              => auth_version'[u] > auth_version[u]]_accountVars
=============================================================================
