---------------------------- MODULE LoginThrottle ----------------------------
(***************************************************************************)
(* The login throttle of core/authentication.py: authenticate_login and    *)
(* its buckets, one per remote address and one per known account.          *)
(*                                                                         *)
(* An attempt reads the clock, then opens a transaction and takes its      *)
(* buckets in the order of their hashes.  For each it runs get_or_create   *)
(* and, in a later statement, locks the row by the id it got.  Attempts    *)
(* therefore wait for each other between any two statements, and a bucket  *)
(* may be deleted between the two.  With its buckets locked, an attempt    *)
(* decides and commits.  What Django's backend makes of the password is a  *)
(* choice; who may log in is in Sessions.                                  *)
(*                                                                         *)
(* An operator named <definition>_<Slip> is the definition with a plausible *)
(* mistake in it.  No specification uses it: it shows that a property would *)
(* notice the mistake.                                                      *)
(***************************************************************************)
EXTENDS Integers, FiniteSets

CONSTANTS Address, Account,   \* their buckets, as numbers in hash order
          Attempt,            \* the worker threads that serve logins
          Nobody,             \* holds the lock of a free row
          Limit,              \* AUTH_FAILURE_LIMIT
          Window, Lockout,    \* AUTH_FAILURE_WINDOW, AUTH_LOCKOUT_DURATION
          MaxTime             \* bound on the clock

ASSUME ThrottleAssumption == /\ Address \cup Account \subseteq Nat
                             /\ Address \cap Account = {}
                             /\ IsFiniteSet(Attempt) /\ Nobody \notin Attempt
                             /\ {Limit, Window, Lockout, MaxTime} \subseteq Nat \ {0}

Bucket == Address \cup Account
Time == 0..MaxTime

VARIABLES bucket,    \* per bucket: its row as committed
          lock,      \* per bucket: the attempt whose transaction holds the row
          inserted,  \* rows inserted by a transaction that has not ended
          attempt,   \* per worker: the attempt it serves
          now,
          guesses    \* history: per bucket, the failures since its window began

vars == <<bucket, lock, inserted, attempt, now, guesses>>

\* blocked_until is 0 when null.
NoRow == [exists |-> FALSE, window |-> 0, failed |-> 0, blocked |-> 0]
NewRow(t) == [exists |-> TRUE, window |-> t, failed |-> 0, blocked |-> 0]

\* current: the bucket get_or_create returned last, found: its id names a row.
Idle == [pc |-> "idle", now |-> 0, hashes |-> {}, todo |-> {}, current |-> 0,
         found |-> FALSE]

Init == /\ bucket = [b \in Bucket |-> NoRow]
        /\ lock = [b \in Bucket |-> Nobody]
        /\ inserted = {}
        /\ attempt = [a \in Attempt |-> Idle]
        /\ now = 1
        /\ guesses = [b \in Bucket |-> 0]

----------------------------------------------------------------------------
\* The address's bucket, and the account's when the SOEID is one.
login_starts(a, hashes) ==
    /\ attempt[a].pc = "idle"
    /\ Cardinality(hashes \cap Address) = 1
    /\ Cardinality(hashes \cap Account) <= 1
    /\ attempt' = [attempt EXCEPT ![a] = [Idle EXCEPT !.pc = "get", !.now = now,
                                                      !.hashes = hashes,
                                                      !.todo = hashes]]
    /\ UNCHANGED <<bucket, lock, inserted, now, guesses>>

\* sorted(set(bucket_hashes))
NextBucket_Unsorted(a, b) == b \in attempt[a].todo
NextBucket(a, b) == /\ b \in attempt[a].todo
                    /\ \A other \in attempt[a].todo : b <= other

\* LoginThrottle.objects.get_or_create.  A committed row is returned at once;
\* behind another transaction's insert of the hash it waits for that one's end.
get_or_create(a, b) ==
    /\ attempt[a].pc = "get"
    /\ NextBucket(a, b)
    /\ b \notin inserted
    /\ IF bucket[b].exists
       THEN UNCHANGED <<bucket, lock, inserted>>
       ELSE /\ bucket' = [bucket EXCEPT ![b] = NewRow(attempt[a].now)]
            /\ lock' = [lock EXCEPT ![b] = a]
            /\ inserted' = inserted \cup {b}
    /\ attempt' = [attempt EXCEPT ![a].pc = "lock", ![a].current = b,
                                  ![a].found = TRUE]
    /\ UNCHANGED <<now, guesses>>

\* select_for_update().get(id=bucket.id)
lock_bucket(a) ==
    LET b == attempt[a].current IN
    /\ attempt[a].pc = "lock"
    /\ attempt[a].found
    /\ lock[b] \in {a, Nobody}
    /\ lock' = [lock EXCEPT ![b] = a]
    /\ attempt' = [attempt EXCEPT ![a].todo = @ \ {b}, ![a].found = FALSE,
                                  ![a].pc = IF attempt[a].todo = {b} THEN "decide"
                                                                     ELSE "get"]
    /\ UNCHANGED <<bucket, inserted, now, guesses>>

\* The transaction ends, and with it its locks.
EndTransaction(a) ==
    /\ lock' = [b \in Bucket |-> IF lock[b] = a THEN Nobody ELSE lock[b]]
    /\ inserted' = {b \in inserted : lock[b] # a}
    /\ UNCHANGED now

Rollback(a) ==
    /\ bucket' = [b \in Bucket |-> IF b \in inserted /\ lock[b] = a THEN NoRow
                                                                   ELSE bucket[b]]
    /\ EndTransaction(a)
    /\ UNCHANGED guesses

\* Somebody's success deleted the row meanwhile: DoesNotExist.
lock_raises(a) ==
    /\ attempt[a].pc = "lock"
    /\ ~attempt[a].found
    /\ Rollback(a)
    /\ attempt' = [attempt EXCEPT ![a] = [Idle EXCEPT !.pc = "raised"]]

----------------------------------------------------------------------------
\* The row after _lock_throttle_buckets, for an attempt that came at time t.
Refreshed_ForgivesAll(row, t) ==
    IF t - row.window >= Window \/ (row.blocked # 0 /\ row.blocked <= t)
    THEN NewRow(t)
    ELSE row
Refreshed(row, t) ==
    IF t - row.window >= Window THEN NewRow(t)
    ELSE IF row.blocked # 0 /\ row.blocked <= t THEN [row EXCEPT !.blocked = 0]
    ELSE row

\* The attempt's own copies of its buckets.
Buckets(a) == [b \in attempt[a].hashes |-> Refreshed(bucket[b], attempt[a].now)]

Blocked_ByAll(a) ==
    \A b \in attempt[a].hashes : Buckets(a)[b].blocked > attempt[a].now
Blocked(a) == \E b \in attempt[a].hashes : Buckets(a)[b].blocked > attempt[a].now

\* _register_failure
CountFailure(row, t) ==
    LET failed == IF row.failed < Limit THEN row.failed + 1 ELSE Limit IN
    [row EXCEPT !.failed = failed,
                !.blocked = IF failed >= Limit THEN t + Lockout ELSE @]

\* What the commit leaves in the attempt's buckets, and in their history.
Write(a, rows) ==
    bucket' = [b \in Bucket |-> IF b \in attempt[a].hashes THEN rows[b] ELSE bucket[b]]
Restarts(a, b) == attempt[a].now - bucket[b].window >= Window
CountGuesses(a, n) ==
    guesses' = [b \in Bucket |->
                   IF b \notin attempt[a].hashes THEN guesses[b]
                   ELSE n + (IF Restarts(a, b) THEN 0 ELSE guesses[b])]

Finish(a) == attempt' = [attempt EXCEPT ![a] = Idle]

login_refused(a) ==
    /\ attempt[a].pc = "decide"
    /\ Blocked(a)
    /\ Write(a, Buckets(a))
    /\ CountGuesses(a, 0)
    /\ EndTransaction(a)
    /\ Finish(a)

login_fails(a) ==
    /\ attempt[a].pc = "decide"
    /\ ~Blocked(a)
    /\ Write(a, [b \in attempt[a].hashes |->
                      CountFailure(Buckets(a)[b], attempt[a].now)])
    /\ CountGuesses(a, 1)
    /\ EndTransaction(a)
    /\ Finish(a)

\* The buckets go; whoever holds the id of one holds it in vain.
login_succeeds(a) ==
    /\ attempt[a].pc = "decide"
    /\ ~Blocked(a)
    /\ attempt[a].hashes \cap Account # {}
    /\ bucket' = [b \in Bucket |-> IF b \in attempt[a].hashes THEN NoRow ELSE bucket[b]]
    /\ guesses' = [b \in Bucket |-> IF b \in attempt[a].hashes THEN 0 ELSE guesses[b]]
    /\ EndTransaction(a)
    /\ attempt' = [x \in Attempt |->
                      IF x = a THEN Idle
                      ELSE IF attempt[x].current \in attempt[a].hashes
                      THEN [attempt[x] EXCEPT !.found = FALSE]
                      ELSE attempt[x]]

\* The worker is free for another request.
answer_error(a) == /\ attempt[a].pc = "raised"
                   /\ Finish(a)
                   /\ UNCHANGED <<bucket, lock, inserted, now, guesses>>

attempt_dies(a) == /\ attempt[a].pc \in {"get", "lock", "decide"}
                   /\ Rollback(a)
                   /\ Finish(a)

Tick == /\ now < MaxTime
        /\ now' = now + 1
        /\ UNCHANGED <<bucket, lock, inserted, attempt, guesses>>

authenticate_login(a) == \/ \E b \in Bucket : get_or_create(a, b)
                         \/ lock_bucket(a)
                         \/ lock_raises(a)
                         \/ login_refused(a)
                         \/ login_fails(a)
                         \/ login_succeeds(a)
                         \/ answer_error(a)

Next == \/ \E a \in Attempt : \/ \E hashes \in SUBSET Bucket : login_starts(a, hashes)
                              \/ authenticate_login(a)
                              \/ attempt_dies(a)
        \/ Tick

Spec == Init /\ [][Next]_vars

\* The database queues those who wait for a row and grants it in turn.
FairSpec == Spec /\ \A a \in Attempt : SF_vars(authenticate_login(a))

----------------------------------------------------------------------------
\* Types; a row is locked by the attempt that has passed it, or inserted it and
\* is about to, and inserted rows exist and are locked.
TypeOK ==
    /\ bucket \in [Bucket -> [exists : BOOLEAN, window : Time, failed : 0..Limit,
                              blocked : 0..(MaxTime + Lockout)]]
    /\ attempt \in [Attempt -> [pc : {"idle", "get", "lock", "decide", "raised"},
                                now : Time, hashes : SUBSET Bucket,
                                todo : SUBSET Bucket, current : Bucket \cup {0},
                                found : BOOLEAN]]
    /\ inserted \subseteq {b \in Bucket : bucket[b].exists /\ lock[b] # Nobody}
    /\ \A b \in Bucket, a \in Attempt :
          lock[b] = a <=>
             \/ b \in attempt[a].hashes \ attempt[a].todo
             \/ attempt[a].found /\ attempt[a].current = b /\ b \in inserted
    /\ lock \in [Bucket -> Attempt \cup {Nobody}]
    /\ now \in Time
    /\ guesses \in [Bucket -> Nat]

\* While a lockout lasts and its window has not ended, nobody's attempt counts,
\* clears or deletes the bucket, however long ago that attempt read the clock
\* and whatever its other bucket says.
LockoutHolds ==
    [][\A b \in Bucket :
          bucket[b].blocked > now /\ now - bucket[b].window < Window
              => bucket'[b] = bucket[b]]_vars

\* "Bounded throttling" (authenticate_login): in one window an account's or an
\* address's password is guessed wrong fewer than Limit times before it is locked
\* out, and then, and after each of the lockouts that end in the window, at most
\* once by each worker.
GuessesAreBounded ==
    LET lockouts == (Window - 1) \div Lockout
    IN  \A b \in Bucket :
            guesses[b] <= Limit - 1 + (lockouts + 1) * Cardinality(Attempt)

\* Every attempt ends: those that take two buckets never wait for each other.
AttemptsEnd == \A a \in Attempt : (attempt[a].pc # "idle") ~> (attempt[a].pc = "idle")

\* "Authenticate one form submission with generic failure" (authenticate_login):
\* an attempt ends in a user or in the one failure, never in an exception.
LoginAlwaysAnswers == \A a \in Attempt : attempt[a].pc # "raised"
=============================================================================
