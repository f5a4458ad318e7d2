--------------------------- MODULE AccountsProofs ---------------------------
(***************************************************************************)
(* What the account services of core/authentication.py guarantee for any   *)
(* set of users.  AdministratorRemains is inductive beside AccountsTypeOK:  *)
(* disable_user keeps its actor, everything else keeps every flag.         *)
(***************************************************************************)
EXTENDS Accounts, TLAPS

\* AdvanceAuthVersion stays within the bound and touches one user.
LEMMA AdvanceFacts ==
    ASSUME AccountsTypeOK, NEW u \in users, AdvanceAuthVersion(u)
    PROVE  /\ auth_version' \in [User -> 0..MaxAuthVersion]
           /\ auth_version'[u] = auth_version[u] + 1
           /\ \A v \in User : v # u => auth_version'[v] = auth_version[v]
BY AccountsAssumption DEF AccountsTypeOK, AdvanceAuthVersion

\* A provisioned row is typed, active, and the only one to change.
LEMMA InsertFacts ==
    ASSUME AccountsTypeOK, NEW u \in User, NEW administrator \in BOOLEAN,
           InsertUser(u, administrator)
    PROVE  /\ AccountsTypeOK'
           /\ is_active' = is_active \cup {u}
           /\ is_administrator \subseteq is_administrator'
           /\ administrator => u \in is_administrator'
           /\ \A v \in User : auth_version'[v] >= auth_version[v]
           /\ auth_version'[u] > auth_version[u]
<1>1. users' = users \cup {u} /\ is_active' = is_active \cup {u}
  BY DEF InsertUser
<1>2. is_administrator' = IF administrator THEN is_administrator \cup {u}
                                           ELSE is_administrator
  BY DEF InsertUser
<1>3. auth_version' = [auth_version EXCEPT ![u] = 1] /\ auth_version[u] = 0
  <2>1. u \notin users
    BY DEF InsertUser
  <2> QED
    BY <2>1 DEF InsertUser, AccountsTypeOK
<1>4. /\ auth_version' \in [User -> 0..MaxAuthVersion]
      /\ \A v \in User : v \in users' <=> auth_version'[v] > 0
      /\ \A v \in User : auth_version'[v] >= auth_version[v]
      /\ auth_version'[u] > auth_version[u]
  BY <1>1, <1>3, AccountsAssumption DEF AccountsTypeOK
<1> QED
  BY <1>1, <1>2, <1>4 DEF AccountsTypeOK

\* The three facts that every change of an existing account preserves.
LEMMA ChangeFacts ==
    ASSUME AccountsTypeOK, AccountChange
    PROVE  /\ AccountsTypeOK'
           /\ users' = users
           /\ is_administrator' = is_administrator
           /\ ActiveAdministrators # {} => ActiveAdministrators' # {}
           /\ \A u \in User : /\ auth_version'[u] >= auth_version[u]
                              /\ (u \in is_active) # (u \in is_active')
                                     => auth_version'[u] > auth_version[u]
<1>1. ASSUME NEW actor \in User, NEW target \in User, disable_user(actor, target)
      PROVE  /\ users' = users /\ is_administrator' = is_administrator
             /\ is_active' = is_active \ {target} /\ target \in users
             /\ AdvanceAuthVersion(target)
             /\ actor \in ActiveAdministrators'
  BY <1>1 DEF disable_user, ActiveAdministrators
<1>2. ASSUME NEW actor \in User, NEW target \in User, enable_user(actor, target)
      PROVE  /\ users' = users /\ is_administrator' = is_administrator
             /\ is_active' = is_active \cup {target} /\ target \in users
             /\ AdvanceAuthVersion(target)
             /\ actor \in ActiveAdministrators'
  BY <1>2 DEF enable_user, ActiveAdministrators
<1>3. ASSUME NEW target \in User,
             \/ \E actor \in User : reset_user_password(actor, target)
             \/ save_stale_login(target)
      PROVE  /\ users' = users /\ is_administrator' = is_administrator
             /\ is_active' = is_active /\ target \in users
             /\ AdvanceAuthVersion(target)
             /\ ActiveAdministrators' = ActiveAdministrators
  BY <1>3 DEF reset_user_password, save_stale_login, ActiveAdministrators
<1>4. PICK target \in users : /\ AdvanceAuthVersion(target)
                              /\ users' = users /\ is_administrator' = is_administrator
                              /\ \/ is_active' = is_active
                                 \/ is_active' = is_active \cup {target}
                                 \/ is_active' = is_active \ {target}
                              /\ ActiveAdministrators # {} => ActiveAdministrators' # {}
  BY <1>1, <1>2, <1>3 DEF AccountChange
<1>5. /\ auth_version' \in [User -> 0..MaxAuthVersion]
      /\ auth_version'[target] = auth_version[target] + 1
      /\ \A v \in User : v # target => auth_version'[v] = auth_version[v]
  BY <1>4, AdvanceFacts
<1>6. \A u \in User : auth_version[u] \in Nat /\ auth_version'[u] \in Nat
  BY <1>5 DEF AccountsTypeOK
<1>7. AccountsTypeOK'
  <2>1. /\ users' \subseteq User /\ is_active' \subseteq users'
        /\ is_administrator' \subseteq users'
    BY <1>4 DEF AccountsTypeOK
  <2>2. \A u \in User : u \in users' <=> auth_version'[u] > 0
    BY <1>4, <1>5, <1>6 DEF AccountsTypeOK
  <2> QED
    BY <1>5, <2>1, <2>2 DEF AccountsTypeOK
<1>8. ASSUME NEW u \in User
      PROVE  /\ auth_version'[u] >= auth_version[u]
             /\ (u \in is_active) # (u \in is_active')
                    => auth_version'[u] > auth_version[u]
  <2>1. CASE u = target
    BY <2>1, <1>5, <1>6
  <2>2. CASE u # target
    <3>1. auth_version'[u] = auth_version[u]
      BY <2>2, <1>5
    <3>2. u \in is_active <=> u \in is_active'
      BY <2>2, <1>4
    <3> QED
      BY <3>1, <3>2, <1>6
  <2> QED
    BY <2>1, <2>2
<1> QED
  BY <1>4, <1>7, <1>8

----------------------------------------------------------------------------
\* One step of any account service, from a typed state.
LEMMA AccountsStep ==
    ASSUME AccountsTypeOK, AdministratorRemains, AccountsNext
    PROVE  /\ AccountsTypeOK' /\ AdministratorRemains'
           /\ \A u \in User : /\ auth_version'[u] >= auth_version[u]
                              /\ (u \in is_active) # (u \in is_active')
                                     => auth_version'[u] > auth_version[u]
<1>1. ASSUME NEW u \in User, NEW administrator \in BOOLEAN,
             InsertUser(u, administrator),
             administrator \/ ActiveAdministrators # {}
      PROVE  /\ AccountsTypeOK' /\ AdministratorRemains'
             /\ \A v \in User : /\ auth_version'[v] >= auth_version[v]
                                /\ (v \in is_active) # (v \in is_active')
                                       => auth_version'[v] > auth_version[v]
  <2>1. /\ AccountsTypeOK'
        /\ is_active' = is_active \cup {u}
        /\ is_administrator \subseteq is_administrator'
        /\ administrator => u \in is_administrator'
        /\ \A v \in User : auth_version'[v] >= auth_version[v]
        /\ auth_version'[u] > auth_version[u]
    BY <1>1, InsertFacts
  <2>2. AdministratorRemains'
    BY <1>1, <2>1 DEF AdministratorRemains, ActiveAdministrators
  <2>3. \A v \in User : (v \in is_active) # (v \in is_active')
                            => auth_version'[v] > auth_version[v]
    BY <2>1
  <2> QED
    BY <2>1, <2>2, <2>3
<1>2. CASE \E u \in User : bootstrap_first_administrator(u)
  BY <1>1, <1>2 DEF bootstrap_first_administrator
<1>3. CASE \E actor, u \in User, administrator \in BOOLEAN :
               provision_user(actor, u, administrator)
  BY <1>1, <1>3 DEF provision_user
<1>4. CASE AccountChange
  BY <1>4, ChangeFacts DEF AdministratorRemains
<1> QED
  BY <1>2, <1>3, <1>4 DEF AccountsNext

\* Types and the remaining administrator are inductive as they stand.
LEMMA AccountsInvariant == AccountsSpec => [](AccountsTypeOK /\ AdministratorRemains)
<1>1. AccountsInit => AccountsTypeOK /\ AdministratorRemains
  BY AccountsAssumption DEF AccountsInit, AccountsTypeOK, AdministratorRemains
<1>2. AccountsTypeOK /\ AdministratorRemains /\ [AccountsNext]_accountVars
          => (AccountsTypeOK /\ AdministratorRemains)'
  <2> SUFFICES ASSUME AccountsTypeOK, AdministratorRemains, [AccountsNext]_accountVars
               PROVE  (AccountsTypeOK /\ AdministratorRemains)'
    OBVIOUS
  <2>1. CASE AccountsNext
    BY <2>1, AccountsStep
  <2>2. CASE UNCHANGED accountVars
    BY <2>2 DEF accountVars, AccountsTypeOK, AdministratorRemains, ActiveAdministrators
  <2> QED
    BY <2>1, <2>2
<1> QED
  BY <1>1, <1>2, PTL DEF AccountsSpec

\* Types and the version check constraint hold of every run of the services.
THEOREM AccountsTypeCorrect == AccountsSpec => []AccountsTypeOK
BY AccountsInvariant, PTL

\* No sequence of provisioning, disabling, enabling and resetting leaves a
\* provisioned system without an active administrator.
THEOREM AnAdministratorRemains == AccountsSpec => []AdministratorRemains
BY AccountsInvariant, PTL

\* No service moves auth_version back or changes is_active without advancing it.
THEOREM VersionsAdvance == AccountsSpec => VersionMonotone
<1>1. AccountsTypeOK /\ AdministratorRemains /\ [AccountsNext]_accountVars
          => [\A u \in User : /\ auth_version'[u] >= auth_version[u]
                              /\ (u \in is_active) # (u \in is_active')
                                     => auth_version'[u] > auth_version[u]]_accountVars
  BY AccountsStep
<1> QED
  BY <1>1, AccountsInvariant, PTL DEF AccountsSpec, VersionMonotone
=============================================================================
