--------------------------- MODULE SessionsProofs ---------------------------
(***************************************************************************)
(* Sessions, for any number of users and browsers: what a login leaves in  *)
(* the accounts is what AccountsSpec allows, and no superseded session     *)
(* comes back but by its own reset.                                        *)
(*                                                                         *)
(* The refinement needs to know what a version that User.save carries      *)
(* between its read and its write can still be worth (SavedVersions): at   *)
(* most one more than the row's, and one more only while the account is    *)
(* still disabled, because whatever enabled it advanced the version too.   *)
(***************************************************************************)
EXTENDS Sessions, AccountsProofs

SavedVersions ==
    \A s \in Session :
        LET w == sessions[s].written
            u == sessions[s].user
        IN  sessions[s].stage = "saving" /\ w # 0 =>
                /\ w <= auth_version[u] + 1
                /\ w = auth_version[u] + 1 => u \notin is_active

\* What a session is about to be renewed with is a version that its row has had.
RenewedVersions ==
    \A s \in Session : sessions[s].stage = "renewing" =>
        sessions[s].written \in 1..auth_version[sessions[s].user]

SessionsInvariant == /\ TypeOK /\ AdministratorRemains
                     /\ SavedVersions /\ RenewedVersions

\* What happens in a browser that leaves the accounts alone.
QuietStep(s) == \/ \E u \in User : authenticate_login(s, u)
                \/ save_reads_original(s) \/ save_fails(s) \/ logout(s)
                \/ ask_own_reset(s) \/ own_reset_refused(s)
                \/ renew_session(s) \/ renewal_lost(s)

SessionStep(s) == QuietStep(s) \/ save_writes(s) \/ reset_own_password(s)

\* What a step keeps of every account, whoever takes it.
AccountsKept ==
    /\ AccountsTypeOK' /\ AdministratorRemains'
    /\ users \subseteq users'
    /\ \A u \in User : /\ auth_version'[u] >= auth_version[u]
                       /\ (u \in is_active) # (u \in is_active')
                              => auth_version'[u] > auth_version[u]

\* The steps of Accounts keep what Accounts promises, seen from Sessions.
LEMMA AccountsStepKeeps ==
    ASSUME AccountsTypeOK, AdministratorRemains, [AccountsNext]_accountVars
    PROVE  AccountsKept
<1>1. CASE AccountsNext
  <2>1. users \subseteq users'
    BY <1>1, ChangeFacts DEF AccountsNext, bootstrap_first_administrator,
                             provision_user, InsertUser
  <2> QED
    BY <1>1, <2>1, AccountsStep DEF AccountsKept
<1>2. CASE UNCHANGED accountVars
  BY <1>2 DEF accountVars, AccountsKept, AccountsTypeOK, AdministratorRemains,
              ActiveAdministrators
<1> QED
  BY <1>1, <1>2

\* A step that keeps the accounts and a session keeps that session's part of
\* the invariant.
LEMMA SessionKept ==
    ASSUME SessionsInvariant, AccountsKept, NEW s \in Session,
           sessions'[s] = sessions[s]
    PROVE  /\ sessions'[s].stage # "none" =>
                 /\ sessions'[s].user \in users'
                 /\ sessions'[s].version \in 1..auth_version'[sessions'[s].user]
           /\ sessions'[s].stage = "saving" /\ sessions'[s].written # 0 =>
                 /\ sessions'[s].written <= auth_version'[sessions'[s].user] + 1
                 /\ sessions'[s].written = auth_version'[sessions'[s].user] + 1
                        => sessions'[s].user \notin is_active'
           /\ sessions'[s].stage = "renewing" =>
                 sessions'[s].written \in 1..auth_version'[sessions'[s].user]
<1> SUFFICES ASSUME sessions[s].stage # "none"
             PROVE  /\ sessions[s].user \in users'
                    /\ sessions[s].version \in 1..auth_version'[sessions[s].user]
                    /\ sessions[s].stage = "saving" /\ sessions[s].written # 0 =>
                         /\ sessions[s].written <= auth_version'[sessions[s].user] + 1
                         /\ sessions[s].written = auth_version'[sessions[s].user] + 1
                                => sessions[s].user \notin is_active'
                    /\ sessions[s].stage = "renewing" =>
                         sessions[s].written \in 1..auth_version'[sessions[s].user]
  OBVIOUS
<1> DEFINE u == sessions[s].user
<1>1. /\ u \in users /\ u \in User /\ u \in users'
      /\ sessions[s].version \in 1..auth_version[u]
  BY DEF SessionsInvariant, TypeOK, AccountsTypeOK, AccountsKept
<1>2. /\ auth_version[u] \in Nat /\ auth_version'[u] \in Nat
      /\ auth_version'[u] >= auth_version[u]
      /\ sessions[s].written \in Nat
  BY <1>1 DEF SessionsInvariant, TypeOK, AccountsTypeOK, AccountsKept, SessionType
<1>3. sessions[s].version \in 1..auth_version'[u]
  BY <1>1, <1>2
<1>4. ASSUME sessions[s].stage = "saving", sessions[s].written # 0
      PROVE  /\ sessions[s].written <= auth_version'[u] + 1
             /\ sessions[s].written = auth_version'[u] + 1 => u \notin is_active'
  <2>1. /\ sessions[s].written <= auth_version[u] + 1
        /\ sessions[s].written = auth_version[u] + 1 => u \notin is_active
    BY <1>4 DEF SessionsInvariant, SavedVersions
  <2>2. u \notin is_active /\ u \in is_active' => auth_version'[u] > auth_version[u]
    BY <1>1 DEF AccountsKept
  <2> QED
    BY <2>1, <2>2, <1>2
<1>5. sessions[s].stage = "renewing" => sessions[s].written \in 1..auth_version'[u]
  BY <1>2 DEF SessionsInvariant, RenewedVersions
<1> QED
  BY <1>1, <1>3, <1>4, <1>5

----------------------------------------------------------------------------
\* Every session step is an account step or leaves the accounts alone.
LEMMA SaveIsAccountStep ==
    ASSUME SessionsInvariant, NEW s \in Session, save_writes(s)
    PROVE  [AccountsNext]_accountVars
<1> DEFINE u == sessions[s].user
           w == sessions[s].written
<1>1. CASE w = 0
  BY <1>1 DEF save_writes, accountVars
<1>2. CASE w # 0
  <2>1. /\ u \in users /\ u \in User /\ w \in Nat /\ auth_version[u] \in Nat
        /\ w <= MaxAuthVersion
    BY AccountsAssumption
    DEF SessionsInvariant, TypeOK, AccountsTypeOK, SessionType, save_writes
  <2>2. /\ w >= auth_version[u]
        /\ w <= auth_version[u] + 1
        /\ w = auth_version[u] + 1 => u \notin is_active
    BY <1>2 DEF save_writes, GuardAccepts, SessionsInvariant, SavedVersions
  <2>3. /\ auth_version' = [auth_version EXCEPT ![u] = w]
        /\ UNCHANGED <<users, is_active, is_administrator>>
    BY <1>2 DEF save_writes
  <2>4. CASE w = auth_version[u]
    BY <2>1, <2>3, <2>4 DEF accountVars, SessionsInvariant, TypeOK, AccountsTypeOK
  <2>5. CASE w = auth_version[u] + 1
    <3>1. save_stale_login(u)
      BY <2>1, <2>2, <2>3, <2>5, AccountsAssumption
      DEF save_stale_login, AdvanceAuthVersion
    <3> QED
      BY <3>1, <2>1 DEF AccountsNext, AccountChange
  <2> QED
    BY <2>1, <2>2, <2>4, <2>5
<1> QED
  BY <1>1, <1>2

\* Every step of Sessions is a step of Accounts or a stutter: the refinement.
LEMMA StepIsAccountStep ==
    ASSUME SessionsInvariant, [Next]_sessionVars
    PROVE  [AccountsNext]_accountVars
<1>1. CASE Administration
  BY <1>1 DEF Administration, AccountsNext, AccountChange
<1>2. ASSUME NEW s \in Session, QuietStep(s)
      PROVE  UNCHANGED accountVars
  BY <1>2 DEF QuietStep, authenticate_login, save_reads_original, save_fails, logout,
              ask_own_reset, own_reset_refused, renew_session, renewal_lost
<1>3. CASE UNCHANGED sessionVars
  BY <1>3 DEF sessionVars, accountVars
<1>4. ASSUME NEW s \in Session, reset_own_password(s)
      PROVE  AccountsNext
  <2>1. sessions[s].user \in User
    BY <1>4 DEF reset_own_password, SessionsInvariant, TypeOK, AccountsTypeOK
  <2> QED
    BY <1>4, <2>1 DEF reset_own_password, AccountsNext, AccountChange
<1> QED
  BY <1>1, <1>2, <1>3, <1>4, SaveIsAccountStep DEF Next, QuietStep

----------------------------------------------------------------------------
\* One lemma per action that moves a session: the session keeps its type, its
\* bound on the version, and the bound on a version on its way to the row.

SessionOK(s) ==
    /\ sessions[s] \in SessionType
    /\ sessions[s].stage # "none" =>
          /\ sessions[s].user \in users
          /\ sessions[s].version \in 1..auth_version[sessions[s].user]
    /\ sessions[s].stage = "saving" /\ sessions[s].written # 0 =>
          /\ sessions[s].written <= auth_version[sessions[s].user] + 1
          /\ sessions[s].written = auth_version[sessions[s].user] + 1
                 => sessions[s].user \notin is_active
    /\ sessions[s].stage = "renewing" =>
          sessions[s].written \in 1..auth_version[sessions[s].user]

\* A session at rest, or whose reset is only asked for, with a version its row has.
LEMMA SessionSettles ==
    ASSUME SessionsInvariant, AccountsKept, NEW s \in Session,
           NEW stage \in {"open", "asking"}, NEW version,
           NEW written \in 0..MaxAuthVersion,
           sessions[s].stage # "none",
           version \in 1..auth_version[sessions[s].user],
           sessions'[s] = [stage |-> stage, user |-> sessions[s].user,
                           version |-> version, written |-> written]
    PROVE  SessionOK(s)'
<1> DEFINE u == sessions[s].user
<1>1. /\ u \in users /\ u \in User /\ u \in users'
      /\ auth_version[u] \in 0..MaxAuthVersion /\ MaxAuthVersion \in Nat
      /\ auth_version'[u] \in Nat /\ auth_version'[u] >= auth_version[u]
  BY AccountsAssumption DEF SessionsInvariant, TypeOK, AccountsTypeOK, AccountsKept
<1>2. version \in 0..MaxAuthVersion /\ version \in 1..auth_version'[u]
  BY <1>1
<1>3. sessions'[s] \in SessionType
  BY <1>1, <1>2 DEF SessionType
<1> QED
  BY <1>1, <1>2, <1>3 DEF SessionOK

\* What a step may do to one session: nothing, or one stage of its own login or reset.
LEMMA SessionMoves ==
    ASSUME SessionsInvariant, AccountsKept, NEW s \in Session, SessionStep(s)
    PROVE  /\ SessionOK(s)'
           /\ \A t \in Session : t # s => sessions'[t] = sessions[t]
           /\ DOMAIN sessions' = Session
<1> USE DEF SessionsInvariant, TypeOK, SessionOK, SessionType
<1>0. /\ sessions[s] \in SessionType
      /\ MaxAuthVersion \in Nat
      /\ \A u \in User : auth_version[u] \in 0..MaxAuthVersion
      /\ users \subseteq User
      /\ is_active \subseteq users
      /\ \A u \in User : u \in users <=> auth_version[u] > 0
  BY AccountsAssumption DEF AccountsTypeOK
<1>1. ASSUME NEW u \in User, authenticate_login(s, u)
      PROVE  SessionOK(s)'
  <2>1. sessions'[s] = [stage |-> "authenticated", user |-> u,
                        version |-> auth_version[u], written |-> 0]
    BY <1>1 DEF authenticate_login
  <2>2. /\ UNCHANGED accountVars /\ u \in users
        /\ auth_version[u] \in 1..auth_version[u]
    BY <1>1, <1>0 DEF authenticate_login
  <2> QED
    BY <2>1, <2>2, <1>0 DEF accountVars
<1>2. ASSUME save_reads_original(s)
      PROVE  SessionOK(s)'
  <2> DEFINE u == sessions[s].user
  <2>1. /\ u \in users /\ u \in User
        /\ sessions[s].version \in 1..auth_version[u]
        /\ UNCHANGED accountVars
    BY <1>2, <1>0 DEF save_reads_original
  <2>2. sessions'[s] = [sessions[s] EXCEPT
                           !.stage = "saving",
                           !.written = IF u \in is_active THEN 0
                                                          ELSE auth_version[u] + 1]
    BY <1>2 DEF save_reads_original
  <2>3. u \notin is_active => auth_version[u] + 1 \in 0..MaxAuthVersion
    BY <1>2, <1>0, <2>1 DEF save_reads_original
  <2>4. /\ sessions'[s].stage = "saving" /\ sessions'[s].user = u
        /\ sessions'[s].version = sessions[s].version
        /\ sessions'[s].written = IF u \in is_active THEN 0 ELSE auth_version[u] + 1
        /\ sessions'[s] \in SessionType
    <3> DEFINE w == IF u \in is_active THEN 0 ELSE auth_version[u] + 1
    <3>1. w \in 0..MaxAuthVersion
      BY <2>3, <1>0
    <3>2. sessions'[s] = [stage |-> "saving", user |-> u,
                          version |-> sessions[s].version, written |-> w]
      BY <2>2, <1>0
    <3> QED
      BY <3>1, <3>2, <1>0
  <2>5. /\ u \in users' /\ auth_version'[u] = auth_version[u]
        /\ auth_version[u] \in Nat
        /\ u \in is_active' <=> u \in is_active
    BY <2>1, <1>0 DEF accountVars
  <2>6. sessions'[s].version \in 1..auth_version'[u]
    BY <2>1, <2>4, <2>5
  <2>7. sessions'[s].written # 0 =>
            /\ sessions'[s].written <= auth_version'[u] + 1
            /\ u \notin is_active'
    BY <2>4, <2>5
  <2> QED
    BY <2>4, <2>5, <2>6, <2>7 DEF SessionOK
<1>3. ASSUME \/ save_writes(s) \/ ask_own_reset(s) \/ own_reset_refused(s)
             \/ renew_session(s) \/ (renewal_lost(s) /\ sessions'[s] # NoSession)
      PROVE  SessionOK(s)'
  <2>1. /\ sessions[s].stage # "none"
        /\ sessions[s].version \in 1..auth_version[sessions[s].user]
    BY <1>3, <1>0
    DEF save_writes, ask_own_reset, own_reset_refused, renew_session, renewal_lost
  <2>2. CASE save_writes(s) \/ (renewal_lost(s) /\ sessions'[s] # NoSession)
    <3>1. sessions'[s] = [sessions[s] EXCEPT !.stage = "open", !.written = 0]
      <4>1. CASE save_writes(s)
        BY <4>1 DEF save_writes
      <4>2. CASE renewal_lost(s) /\ sessions'[s] # NoSession
        BY <4>2 DEF renewal_lost
      <4> QED
        BY <2>2, <4>1, <4>2
    <3>2. sessions'[s] = [stage |-> "open", user |-> sessions[s].user,
                          version |-> sessions[s].version, written |-> 0]
      BY <3>1, <1>0
    <3>3. 0 \in 0..MaxAuthVersion
      BY <1>0
    <3> QED
      BY <2>1, <3>2, <3>3, SessionSettles
  <2>3. CASE ask_own_reset(s) \/ own_reset_refused(s)
    <3>1. PICK stage \in {"open", "asking"} :
              sessions'[s] = [sessions[s] EXCEPT !.stage = stage]
      BY <2>3 DEF ask_own_reset, own_reset_refused
    <3>2. sessions'[s] = [stage |-> stage, user |-> sessions[s].user,
                          version |-> sessions[s].version,
                          written |-> sessions[s].written]
      BY <3>1, <1>0
    <3>3. sessions[s].written \in 0..MaxAuthVersion
      BY <1>0
    <3> QED
      BY <2>1, <3>2, <3>3, SessionSettles
  <2>4. CASE renew_session(s)
    <3>1. sessions'[s] = [sessions[s] EXCEPT !.stage = "open", !.written = 0,
                                             !.version = sessions[s].written]
      BY <2>4 DEF renew_session
    <3>2. sessions'[s] = [stage |-> "open", user |-> sessions[s].user,
                          version |-> sessions[s].written, written |-> 0]
      BY <3>1, <1>0
    <3>3. sessions[s].written \in 1..auth_version[sessions[s].user]
      BY <2>4 DEF renew_session, RenewedVersions
    <3>4. 0 \in 0..MaxAuthVersion
      BY <1>0
    <3> QED
      BY <2>1, <3>2, <3>3, <3>4, SessionSettles
  <2> QED
    BY <1>3, <2>2, <2>3, <2>4
<1>4. ASSUME save_fails(s) \/ logout(s) \/ sessions'[s] = NoSession
      PROVE  SessionOK(s)'
  <2>1. sessions'[s] = NoSession
    BY <1>4 DEF save_fails, logout
  <2> QED
    BY <2>1, <1>0 DEF NoSession
<1>5. ASSUME reset_own_password(s)
      PROVE  SessionOK(s)'
  <2> DEFINE u == sessions[s].user
  <2>1. /\ sessions[s].stage = "asking" /\ u \in users /\ u \in User
        /\ sessions[s].version \in 1..auth_version[u]
        /\ auth_version[u] \in Nat /\ auth_version[u] < MaxAuthVersion
        /\ auth_version'[u] = auth_version[u] + 1
        /\ users' = users
    <3>1. sessions[s].stage = "asking" /\ reset_user_password(u, u)
      BY <1>5 DEF reset_own_password
    <3>2. u \in users /\ u \in User /\ sessions[s].version \in 1..auth_version[u]
      BY <3>1, <1>0
    <3>3. /\ auth_version[u] < MaxAuthVersion /\ users' = users
          /\ auth_version' = [auth_version EXCEPT ![u] = @ + 1]
      BY <3>1 DEF reset_user_password, AdvanceAuthVersion
    <3>4. auth_version \in [User -> 0..MaxAuthVersion]
      BY DEF AccountsTypeOK
    <3> QED
      BY <3>1, <3>2, <3>3, <3>4, <1>0
  <2>2. sessions'[s] = [sessions[s] EXCEPT !.stage = "renewing",
                                           !.written = auth_version[u] + 1]
    BY <1>5 DEF reset_own_password
  <2>3. sessions'[s] = [stage |-> "renewing", user |-> u,
                        version |-> sessions[s].version,
                        written |-> auth_version[u] + 1]
    BY <2>2, <1>0
  <2>4. /\ auth_version[u] + 1 \in 0..MaxAuthVersion
        /\ auth_version[u] + 1 \in 1..auth_version'[u]
        /\ sessions[s].version \in 1..auth_version'[u]
    BY <2>1, <1>0
  <2>5. sessions'[s] \in SessionType
    BY <2>1, <2>3, <2>4, <1>0
  <2> QED
    BY <2>1, <2>3, <2>4, <2>5
<1>6. /\ \A t \in Session : t # s => sessions'[t] = sessions[t]
      /\ DOMAIN sessions' = Session
  BY DEF SessionStep, QuietStep, authenticate_login, save_reads_original, save_writes,
         save_fails, logout, ask_own_reset, reset_own_password, own_reset_refused,
         renew_session, renewal_lost
<1> QED
  BY <1>1, <1>2, <1>3, <1>4, <1>5, <1>6 DEF SessionStep, QuietStep

\* SessionsInvariant is inductive.
LEMMA SessionsInductive ==
    ASSUME SessionsInvariant, [Next]_sessionVars
    PROVE  SessionsInvariant'
<1>1. AccountsKept
  BY StepIsAccountStep, AccountsStepKeeps DEF SessionsInvariant, TypeOK
<1>2. /\ sessions' \in [Session -> SessionType]
      /\ \A s \in Session : SessionOK(s)'
  <2>1. CASE sessions' = sessions
    <3>1. \A s \in Session : SessionOK(s)'
      BY <1>1, <2>1, SessionKept DEF SessionsInvariant, TypeOK, SessionOK
    <3> QED
      BY <2>1, <3>1 DEF SessionsInvariant, TypeOK
  <2>2. ASSUME NEW s \in Session, SessionStep(s)
        PROVE  /\ sessions' \in [Session -> SessionType]
               /\ \A t \in Session : SessionOK(t)'
    <3>1. /\ SessionOK(s)'
          /\ \A t \in Session : t # s => sessions'[t] = sessions[t]
          /\ DOMAIN sessions' = Session
      BY <1>1, <2>2, SessionMoves
    <3>2. ASSUME NEW t \in Session, t # s
          PROVE  SessionOK(t)'
      BY <1>1, <3>1, <3>2, SessionKept DEF SessionsInvariant, TypeOK, SessionOK
    <3>3. \A t \in Session : sessions'[t] \in SessionType
      BY <3>1, <3>2 DEF SessionOK
    <3>4. \E t \in Session : sessions' = [sessions EXCEPT ![t] = sessions'[t]]
      <4>1. sessions' \in [Session -> SessionType]
        BY <3>1, <3>3, <2>2
        DEF SessionStep, QuietStep, authenticate_login, save_reads_original, save_writes,
            save_fails, logout, ask_own_reset, reset_own_password, own_reset_refused,
            renew_session, renewal_lost
      <4> QED
        BY <3>1, <4>1 DEF SessionsInvariant, TypeOK
    <3> QED
      BY <3>1, <3>2, <3>3, <3>4 DEF SessionsInvariant, TypeOK
  <2> QED
    BY <2>1, <2>2 DEF Next, Administration, sessionVars, SessionStep, QuietStep
<1> QED
  BY <1>1, <1>2 DEF SessionsInvariant, TypeOK, SavedVersions, RenewedVersions, SessionOK,
                    AccountsKept, SessionType

\* SessionsInvariant holds in every reachable state.
LEMMA SessionsAlways == Spec => []SessionsInvariant
<1>1. Init => SessionsInvariant
  BY AccountsAssumption
  DEF Init, AccountsInit, SessionsInvariant, TypeOK, AccountsTypeOK,
      AdministratorRemains, SavedVersions, RenewedVersions, SessionType, NoSession
<1>2. SessionsInvariant /\ [Next]_sessionVars => SessionsInvariant'
  BY SessionsInductive
<1> QED
  BY <1>1, <1>2, PTL DEF Spec

----------------------------------------------------------------------------
\* Accounts and logins stay typed; a login never holds a version that its
\* user's row has not had.
THEOREM SessionsTypeCorrect == Spec => []TypeOK
<1>1. SessionsInvariant => TypeOK
  BY DEF SessionsInvariant
<1> QED
  BY <1>1, SessionsAlways, PTL

\* Logins interleaved with administration never take away the last active
\* administrator.
THEOREM SessionsKeepAdministrator == Spec => []AdministratorRemains
<1>1. SessionsInvariant => AdministratorRemains
  BY DEF SessionsInvariant
<1> QED
  BY <1>1, SessionsAlways, PTL

\* The unlocked read-then-write of User.save under login() implements the
\* atomic account services: its net effect is a save_stale_login or nothing.
THEOREM LoginsRefineAccounts == Spec => AccountsSpec
<1>1. Init => AccountsInit
  BY DEF Init
<1>2. SessionsInvariant /\ [Next]_sessionVars => [AccountsNext]_accountVars
  BY StepIsAccountStep
<1> QED
  BY <1>1, <1>2, SessionsAlways, PTL DEF Spec, AccountsSpec

\* So the versions of auth_version are monotone under logins too.
THEOREM LoginsKeepVersions == Spec => VersionMonotone
BY LoginsRefineAccounts, VersionsAdvance, PTL

\* Once superseded by a disable or a reset, a session or a login in progress
\* stays so until it is given up, unless the reset was asked for in it, and was
\* the last change of the account when user_reset_password writes the new hash.
THEOREM SupersededForGood == Spec => NoSessionResurrection
<1>1. SessionsInvariant /\ [Next]_sessionVars
          => [\A s \in Session : Superseded(s) /\ sessions'[s].stage # "none"
                                     => Superseded(s)' \/ OwnResetIsLast(s)]_sessionVars
  <2> SUFFICES ASSUME SessionsInvariant, [Next]_sessionVars, NEW s \in Session,
                      Superseded(s), sessions'[s].stage # "none", ~OwnResetIsLast(s)
               PROVE  Superseded(s)'
    OBVIOUS
  <2> DEFINE u == sessions[s].user
  <2>1. /\ sessions[s].stage # "none" /\ u \in User
        /\ sessions[s].version \in 1..auth_version[u]
        /\ auth_version[u] \in Nat
    BY DEF SessionsInvariant, TypeOK, AccountsTypeOK, Superseded
  <2>2. /\ auth_version'[u] \in Nat /\ auth_version'[u] >= auth_version[u]
        /\ (u \in is_active) # (u \in is_active') => auth_version'[u] > auth_version[u]
    BY <2>1, StepIsAccountStep, AccountsStepKeeps
    DEF SessionsInvariant, TypeOK, AccountsKept, AccountsTypeOK
  <2>3. CASE renew_session(s)
    <3>1. /\ sessions'[s].user = u /\ sessions'[s].version = sessions[s].written
          /\ sessions'[s].stage = "open" /\ auth_version' = auth_version
      BY <2>3 DEF renew_session, accountVars, SessionsInvariant, TypeOK, SessionType
    <3>2. sessions[s].written # auth_version[u]
      BY <2>3 DEF renew_session, OwnResetIsLast
    <3> QED
      BY <3>1, <3>2 DEF Superseded
  <2>4. CASE ~renew_session(s)
    <3>1. sessions'[s].user = u /\ sessions'[s].version = sessions[s].version
      <4>1. CASE sessions' = sessions
        BY <4>1
      <4>2. ASSUME NEW t \in Session, SessionStep(t), ~renew_session(t) \/ t # s
            PROVE  sessions'[s].user = u /\ sessions'[s].version = sessions[s].version
        BY <4>2, <2>1
        DEF SessionStep, QuietStep, authenticate_login, save_reads_original, save_writes,
            save_fails, logout, ask_own_reset, reset_own_password, own_reset_refused,
            renew_session, renewal_lost, NoSession, SessionsInvariant, TypeOK, SessionType
      <4> QED
        BY <4>1, <4>2, <2>4
        DEF Next, Administration, sessionVars, SessionStep, QuietStep
    <3> QED
      BY <2>1, <2>2, <3>1 DEF Superseded
  <2> QED
    BY <2>3, <2>4
<1> QED
  BY <1>1, SessionsAlways, PTL DEF Spec, NoSessionResurrection
=============================================================================
