------------------------- MODULE LoginThrottleProofs -------------------------
(***************************************************************************)
(* A lockout holds, and the guesses in a window are bounded, for any       *)
(* number of workers, addresses and accounts, and any order of their       *)
(* hashes.  TypeOK says which attempt holds which row; Progress and Rows   *)
(* say how far an attempt has come and what it may rely on while it waits. *)
(* Together they are inductive.  For the guesses, a window is cut into     *)
(* phases of the length of a lockout: in each phase every worker may       *)
(* guess once with a clock from before the phase, or one of them once with *)
(* a later clock, which locks the bucket for the rest of the phase.        *)
(***************************************************************************)
EXTENDS LoginThrottle, FiniteSetTheorems, TLAPS

\* Where an attempt is.  The id it waits with names a row until a success
\* deletes that row, and its clock is not ahead of anybody's.
Progress ==
    \A a \in Attempt :
       /\ attempt[a].todo \subseteq attempt[a].hashes
       /\ attempt[a].pc \in {"idle", "raised"} => attempt[a].hashes = {}
       /\ attempt[a].pc = "lock" => attempt[a].current \in attempt[a].todo
       /\ attempt[a].pc = "decide" => attempt[a].todo = {}
       /\ attempt[a].found => /\ attempt[a].pc = "lock"
                              /\ bucket[attempt[a].current].exists
       /\ attempt[a].now <= now

\* Only rows that exist are locked, and only committed ones are blocked.
Rows == /\ \A b \in Bucket : lock[b] # Nobody => bucket[b].exists
        /\ \A b \in Bucket : ~bucket[b].exists => bucket[b].blocked = 0
        /\ \A b \in inserted : bucket[b].blocked = 0

IInv == TypeOK /\ Progress /\ Rows

Row == [exists : BOOLEAN, window : Time, failed : 0..Limit,
        blocked : 0..(MaxTime + Lockout)]
AttemptRecord == [pc : {"idle", "get", "lock", "decide", "raised"},
                  now : Time, hashes : SUBSET Bucket, todo : SUBSET Bucket,
                  current : Bucket \cup {0}, found : BOOLEAN]

\* The bounds are positive, and no attempt is Nobody.
LEMMA Bounds == /\ Limit \in Nat \ {0} /\ Window \in Nat \ {0}
                /\ Lockout \in Nat \ {0} /\ MaxTime \in Nat \ {0}
                /\ Bucket \subseteq Nat
                /\ Nobody \notin Attempt
BY ThrottleAssumption DEF Bucket

\* The rows and records that the actions write.
LEMMA RecordTypes ==
    /\ NoRow \in Row
    /\ \A t \in Time : NewRow(t) \in Row
    /\ Idle \in AttemptRecord
    /\ [Idle EXCEPT !.pc = "raised"] \in AttemptRecord
<1>1. 0 \in Time /\ 0 \in 0..Limit /\ 0 \in 0..(MaxTime + Lockout)
  BY Bounds DEF Time
<1> QED BY <1>1 DEF NoRow, NewRow, Idle, Row, AttemptRecord

\* A row in force stays as it is; any other is still a row, and exists.
LEMMA RefreshedFacts ==
    ASSUME NEW row \in Row, NEW t \in Time
    PROVE  /\ Refreshed(row, t) \in Row
           /\ row.exists => Refreshed(row, t).exists
           /\ t - row.window < Window /\ row.blocked > t => Refreshed(row, t) = row
<1>1. row.window \in Time /\ row.blocked \in 0..(MaxTime + Lockout)
  BY DEF Row
<1>2. row.blocked \in Nat /\ row.window \in Nat /\ t \in Nat
  BY <1>1, Bounds DEF Time
<1>3. [row EXCEPT !.blocked = 0] \in Row /\ [row EXCEPT !.blocked = 0].exists = row.exists
  BY Bounds DEF Row
<1>4. NewRow(t) \in Row /\ NewRow(t).exists
  BY RecordTypes DEF NewRow
<1> QED BY <1>2, <1>3, <1>4, Bounds DEF Refreshed

\* A failure leaves a row.
LEMMA CountFailureFacts ==
    ASSUME NEW row \in Row, NEW t \in Time
    PROVE  /\ CountFailure(row, t) \in Row
           /\ CountFailure(row, t).exists = row.exists
<1> DEFINE failed == IF row.failed < Limit THEN row.failed + 1 ELSE Limit
           blocked == IF failed >= Limit THEN t + Lockout ELSE row.blocked
<1>1. row.failed \in 0..Limit /\ row.blocked \in 0..(MaxTime + Lockout)
  BY DEF Row
<1>2. failed \in 0..Limit
  BY <1>1, Bounds
<1>3. t + Lockout \in 0..(MaxTime + Lockout)
  BY Bounds DEF Time
<1>4. blocked \in 0..(MaxTime + Lockout)
  BY <1>1, <1>3
<1>5. CountFailure(row, t) = [row EXCEPT !.failed = failed, !.blocked = blocked]
  BY DEF CountFailure, Row
<1> HIDE DEF failed, blocked
<1> QED BY <1>2, <1>4, <1>5 DEF Row

----------------------------------------------------------------------------
\* A transaction that ends gives up the rows of its attempt and no others.
LEMMA EndFacts ==
    ASSUME IInv, NEW a \in Attempt, EndTransaction(a),
           attempt' \in [Attempt -> AttemptRecord],
           bucket' \in [Bucket -> Row],
           guesses' \in [Bucket -> Nat],
           attempt'[a].pc \in {"idle", "raised"},
           attempt'[a].hashes = {}, attempt'[a].todo = {},
           ~attempt'[a].found, attempt'[a].now = 0,
           \A x \in Attempt \ {a} :
              /\ attempt'[x].pc = attempt[x].pc
              /\ attempt'[x].hashes = attempt[x].hashes
              /\ attempt'[x].todo = attempt[x].todo
              /\ attempt'[x].current = attempt[x].current
              /\ attempt'[x].now = attempt[x].now
              /\ attempt'[x].found =>
                    attempt[x].found /\ bucket'[attempt[x].current].exists
              /\ attempt[x].found /\ attempt[x].current \in inserted'
                    => attempt'[x].found,
           \A b \in Bucket : lock[b] # a => bucket'[b] = bucket[b],
           \A b \in Bucket : ~bucket'[b].exists => bucket'[b].blocked = 0
    PROVE  IInv'
<1>1. /\ lock' = [b \in Bucket |-> IF lock[b] = a THEN Nobody ELSE lock[b]]
      /\ inserted' = {b \in inserted : lock[b] # a}
      /\ now' = now
  BY DEF EndTransaction
<1>2. /\ lock \in [Bucket -> Attempt \cup {Nobody}] /\ now \in Time
      /\ inserted \subseteq Bucket
      /\ \A b \in inserted : bucket[b].exists /\ lock[b] # Nobody
  BY DEF IInv, TypeOK
<1>3. lock' \in [Bucket -> Attempt \cup {Nobody}] /\ now' \in Time
  BY <1>1, <1>2
<1>4. inserted' \subseteq {b \in Bucket : bucket[b].exists /\ lock[b] # Nobody}'
  BY <1>1, <1>2
<1>5. ASSUME NEW b \in Bucket, NEW x \in Attempt
      PROVE  lock'[b] = x <=>
                \/ b \in attempt'[x].hashes \ attempt'[x].todo
                \/ attempt'[x].found /\ attempt'[x].current = b /\ b \in inserted'
  <2>1. lock[b] = x <=> \/ b \in attempt[x].hashes \ attempt[x].todo
                        \/ attempt[x].found /\ attempt[x].current = b /\ b \in inserted
    BY DEF IInv, TypeOK
  <2>2. CASE x = a
    BY <1>1, <2>2, Bounds
  <2>3. CASE x # a
    BY <1>1, <2>1, <2>3, Bounds
  <2> QED BY <2>2, <2>3
<1>6. TypeOK'
  BY <1>3, <1>4, <1>5 DEF TypeOK, Row, AttemptRecord
<1>7. Progress'
  <2>0. now \in Nat
    BY <1>2, Bounds DEF Time
  <2> QED BY <1>1, <2>0 DEF IInv, Progress
<1>8. Rows'
  BY <1>1, <1>2 DEF IInv, Rows
<1> QED BY <1>6, <1>7, <1>8 DEF IInv

----------------------------------------------------------------------------
\* A request starts with nothing locked.
LEMMA StartInv ==
    ASSUME IInv, NEW a \in Attempt, NEW hashes \in SUBSET Bucket,
           login_starts(a, hashes)
    PROVE  IInv'
<1> DEFINE r == [Idle EXCEPT !.pc = "get", !.now = now, !.hashes = hashes,
                             !.todo = hashes]
<1>1. /\ attempt' = [attempt EXCEPT ![a] = r]
      /\ attempt[a].pc = "idle"
      /\ UNCHANGED <<bucket, lock, inserted, now, guesses>>
  BY DEF login_starts
<1>2. /\ r \in AttemptRecord
      /\ r.pc = "get" /\ r.now = now /\ r.hashes = hashes /\ r.todo = hashes
      /\ r.found = FALSE
  BY RecordTypes DEF Idle, AttemptRecord, IInv, TypeOK
<1>3. attempt \in [Attempt -> AttemptRecord] /\ now \in Nat
  BY Bounds DEF IInv, TypeOK, AttemptRecord, Time
<1> HIDE DEF r
<1>4. /\ attempt' \in [Attempt -> AttemptRecord]
      /\ attempt'[a] = r
      /\ \A x \in Attempt \ {a} : attempt'[x] = attempt[x]
  BY <1>1, <1>2, <1>3
<1>5. attempt[a].hashes = {} /\ attempt[a].found = FALSE
  BY <1>1, <1>3 DEF IInv, Progress, AttemptRecord
<1>6. \A b \in Bucket, x \in Attempt :
         lock'[b] = x <=>
            \/ b \in attempt'[x].hashes \ attempt'[x].todo
            \/ attempt'[x].found /\ attempt'[x].current = b /\ b \in inserted'
  <2> TAKE b \in Bucket, x \in Attempt
  <2>1. lock[b] = x <=> \/ b \in attempt[x].hashes \ attempt[x].todo
                        \/ attempt[x].found /\ attempt[x].current = b /\ b \in inserted
    BY DEF IInv, TypeOK
  <2> QED BY <1>1, <1>2, <1>4, <1>5, <2>1
<1>7. TypeOK'
  BY <1>1, <1>4, <1>6 DEF IInv, TypeOK, AttemptRecord
<1>8. Progress'
  BY <1>1, <1>2, <1>3, <1>4 DEF IInv, Progress
<1> QED BY <1>1, <1>7, <1>8 DEF IInv, Rows

\* get_or_create returns the row, or inserts one that its transaction holds.
LEMMA GetInv ==
    ASSUME IInv, NEW a \in Attempt, NEW b \in Bucket, get_or_create(a, b)
    PROVE  IInv'
<1>1. /\ attempt[a].pc = "get" /\ b \in attempt[a].todo /\ b \notin inserted
      /\ UNCHANGED <<now, guesses>>
      /\ \/ bucket[b].exists /\ UNCHANGED <<bucket, lock, inserted>>
         \/ /\ ~bucket[b].exists
            /\ bucket' = [bucket EXCEPT ![b] = NewRow(attempt[a].now)]
            /\ lock' = [lock EXCEPT ![b] = a]
            /\ inserted' = inserted \cup {b}
  BY DEF get_or_create, NextBucket
<1>2. /\ attempt \in [Attempt -> AttemptRecord]
      /\ bucket \in [Bucket -> Row]
      /\ lock \in [Bucket -> Attempt \cup {Nobody}]
      /\ inserted \subseteq {c \in Bucket : bucket[c].exists /\ lock[c] # Nobody}
  BY DEF IInv, TypeOK, AttemptRecord, Row
<1>3. /\ attempt' \in [Attempt -> AttemptRecord]
      /\ \A x \in Attempt \ {a} : attempt'[x] = attempt[x]
      /\ attempt'[a].pc = "lock" /\ attempt'[a].current = b /\ attempt'[a].found = TRUE
      /\ attempt'[a].hashes = attempt[a].hashes /\ attempt'[a].todo = attempt[a].todo
      /\ attempt'[a].now = attempt[a].now
  <2> DEFINE r == [attempt[a] EXCEPT !.pc = "lock", !.current = b, !.found = TRUE]
  <2>1. /\ r \in AttemptRecord
        /\ r.pc = "lock" /\ r.current = b /\ r.found = TRUE
        /\ r.hashes = attempt[a].hashes /\ r.todo = attempt[a].todo
        /\ r.now = attempt[a].now
    BY <1>2 DEF AttemptRecord
  <2>2. attempt' = [attempt EXCEPT ![a] = r]
    BY <1>2 DEF get_or_create
  <2> HIDE DEF r
  <2> QED BY <1>2, <2>1, <2>2
<1>4. attempt[a].now \in Time /\ attempt[a].found = FALSE
  BY <1>1, <1>2 DEF IInv, Progress, AttemptRecord
<1>5. /\ NewRow(attempt[a].now) \in Row
      /\ NewRow(attempt[a].now).exists = TRUE /\ NewRow(attempt[a].now).blocked = 0
  BY <1>4, RecordTypes DEF NewRow
<1>6. /\ bucket' \in [Bucket -> Row]
      /\ bucket'[b].exists
      /\ \A c \in Bucket \ {b} : bucket'[c] = bucket[c]
      /\ bucket[b].exists => bucket'[b] = bucket[b]
      /\ ~bucket[b].exists => bucket'[b].blocked = 0
  BY <1>1, <1>2, <1>5
<1>7. /\ lock' \in [Bucket -> Attempt \cup {Nobody}]
      /\ \A c \in Bucket \ {b} : lock'[c] = lock[c]
      /\ inserted' \subseteq {c \in Bucket : bucket[c].exists /\ lock[c] # Nobody}'
  <2>1. CASE bucket[b].exists
    BY <1>1, <1>2, <2>1
  <2>2. CASE ~bucket[b].exists
    <3>1. lock' = [lock EXCEPT ![b] = a] /\ inserted' = inserted \cup {b}
      BY <1>1, <2>2
    <3>2. lock' \in [Bucket -> Attempt \cup {Nobody}] /\ lock'[b] = a
          /\ \A c \in Bucket \ {b} : lock'[c] = lock[c]
      BY <1>2, <3>1
    <3>3. \A c \in inserted' : c \in Bucket /\ bucket'[c].exists /\ lock'[c] # Nobody
      BY <1>2, <1>6, <3>1, <3>2, Bounds
    <3> QED BY <3>2, <3>3
  <2> QED BY <2>1, <2>2
<1>8. \A c \in Bucket, x \in Attempt :
         lock'[c] = x <=>
            \/ c \in attempt'[x].hashes \ attempt'[x].todo
            \/ attempt'[x].found /\ attempt'[x].current = c /\ c \in inserted'
  <2> TAKE c \in Bucket, x \in Attempt
  <2>1. lock[c] = x <=> \/ c \in attempt[x].hashes \ attempt[x].todo
                        \/ attempt[x].found /\ attempt[x].current = c /\ c \in inserted
    BY DEF IInv, TypeOK
  <2>2. CASE c # b
    BY <1>1, <1>3, <1>4, <1>7, <2>1, <2>2
  <2>3. CASE c = b /\ bucket[b].exists
    BY <1>1, <1>3, <1>4, <2>1, <2>3
  <2>4. CASE c = b /\ ~bucket[b].exists
    <3>1. lock[b] = Nobody /\ lock'[b] = a /\ b \in inserted'
      BY <1>1, <1>2, <2>4 DEF IInv, Rows
    <3>2. b \notin attempt[x].hashes \ attempt[x].todo
      BY <2>1, <2>4, <3>1, Bounds
    <3>3. ~(attempt[x].found /\ attempt[x].current = b)
      BY <2>4 DEF IInv, Progress
    <3>4. CASE x = a
      BY <1>3, <2>4, <3>1, <3>4
    <3>5. CASE x # a
      BY <1>3, <2>4, <3>1, <3>2, <3>3, <3>5
    <3> QED BY <3>4, <3>5
  <2> QED BY <2>2, <2>3, <2>4
<1>9. TypeOK'
  BY <1>1, <1>3, <1>6, <1>7, <1>8 DEF IInv, TypeOK, AttemptRecord, Row
<1>10. Progress'
  <2> SUFFICES ASSUME NEW x \in Attempt
               PROVE  /\ attempt'[x].todo \subseteq attempt'[x].hashes
                      /\ attempt'[x].pc \in {"idle", "raised"} => attempt'[x].hashes = {}
                      /\ attempt'[x].pc = "lock" => attempt'[x].current \in attempt'[x].todo
                      /\ attempt'[x].pc = "decide" => attempt'[x].todo = {}
                      /\ attempt'[x].found => /\ attempt'[x].pc = "lock"
                                              /\ bucket'[attempt'[x].current].exists
                      /\ attempt'[x].now <= now'
    BY DEF Progress
  <2>1. /\ \A c \in Bucket : bucket[c].exists => bucket'[c].exists
        /\ attempt[x].found => attempt[x].current \in Bucket
    <3>1. attempt[x].found => attempt[x].current \in attempt[x].todo
      BY DEF IInv, Progress
    <3> QED BY <1>2, <1>6, <3>1 DEF AttemptRecord
  <2>2. CASE x = a
    BY <1>1, <1>3, <1>6, <2>2 DEF IInv, Progress
  <2>3. CASE x # a
    BY <1>1, <1>3, <1>6, <2>1, <2>3 DEF IInv, Progress
  <2> QED BY <2>2, <2>3
<1>11. Rows'
  BY <1>1, <1>2, <1>6, <1>7 DEF IInv, Rows
<1> QED BY <1>9, <1>10, <1>11 DEF IInv

\* Once its row is locked, an attempt has passed the bucket.
LEMMA LockInv ==
    ASSUME IInv, NEW a \in Attempt, lock_bucket(a)
    PROVE  IInv'
<1> DEFINE b == attempt[a].current
<1>1. /\ attempt[a].pc = "lock" /\ attempt[a].found /\ lock[b] \in {a, Nobody}
      /\ lock' = [lock EXCEPT ![b] = a]
      /\ UNCHANGED <<bucket, inserted, now, guesses>>
  BY DEF lock_bucket
<1>2. /\ attempt \in [Attempt -> AttemptRecord]
      /\ lock \in [Bucket -> Attempt \cup {Nobody}]
      /\ inserted \subseteq {c \in Bucket : bucket[c].exists /\ lock[c] # Nobody}
  BY DEF IInv, TypeOK, AttemptRecord
<1>3. /\ attempt' \in [Attempt -> AttemptRecord]
      /\ \A x \in Attempt \ {a} : attempt'[x] = attempt[x]
      /\ attempt'[a].pc = IF attempt[a].todo = {b} THEN "decide" ELSE "get"
      /\ attempt'[a].todo = attempt[a].todo \ {b}
      /\ attempt'[a].hashes = attempt[a].hashes /\ attempt'[a].found = FALSE
      /\ attempt'[a].now = attempt[a].now
  <2> DEFINE pc == IF attempt[a].todo = {b} THEN "decide" ELSE "get"
             r == [attempt[a] EXCEPT !.todo = @ \ {b}, !.found = FALSE, !.pc = pc]
  <2>1. pc \in {"decide", "get"}
    OBVIOUS
  <2>2. attempt' = [attempt EXCEPT ![a] = r]
    BY <1>2 DEF lock_bucket
  <2> HIDE DEF pc
  <2>3. /\ r \in AttemptRecord
        /\ r.pc = pc /\ r.todo = attempt[a].todo \ {b} /\ r.found = FALSE
        /\ r.hashes = attempt[a].hashes /\ r.now = attempt[a].now
    <3>1. attempt[a] \in AttemptRecord /\ attempt[a].todo \ {b} \in SUBSET Bucket
      BY <1>2 DEF AttemptRecord
    <3> HIDE DEF b
    <3> QED BY <2>1, <3>1 DEF AttemptRecord
  <2> HIDE DEF r
  <2>4. /\ attempt' \in [Attempt -> AttemptRecord]
        /\ \A x \in Attempt \ {a} : attempt'[x] = attempt[x]
        /\ attempt'[a] = r
    BY <1>2, <2>2, <2>3
  <2> QED BY <2>3, <2>4 DEF pc
<1>4. /\ b \in attempt[a].todo /\ attempt[a].todo \subseteq attempt[a].hashes
      /\ bucket[b].exists
  BY <1>1 DEF IInv, Progress
<1>5. b \in Bucket
  BY <1>2, <1>4 DEF AttemptRecord
<1> HIDE DEF b
<1>6. /\ lock' \in [Bucket -> Attempt \cup {Nobody}] /\ lock'[b] = a
      /\ \A c \in Bucket \ {b} : lock'[c] = lock[c]
      /\ inserted' \subseteq {c \in Bucket : bucket[c].exists /\ lock[c] # Nobody}'
  BY <1>1, <1>2, <1>5, Bounds
<1>7. \A c \in Bucket, x \in Attempt :
         lock'[c] = x <=>
            \/ c \in attempt'[x].hashes \ attempt'[x].todo
            \/ attempt'[x].found /\ attempt'[x].current = c /\ c \in inserted'
  <2> TAKE c \in Bucket, x \in Attempt
  <2>1. lock[c] = x <=> \/ c \in attempt[x].hashes \ attempt[x].todo
                        \/ attempt[x].found /\ attempt[x].current = c /\ c \in inserted
    BY DEF IInv, TypeOK
  <2>2. CASE c # b
    BY <1>1, <1>3, <1>6, <2>1, <2>2 DEF b
  <2>3. CASE c = b
    BY <1>1, <1>3, <1>4, <1>6, <2>1, <2>3, Bounds
  <2> QED BY <2>2, <2>3
<1>8. TypeOK'
  BY <1>1, <1>3, <1>6, <1>7 DEF IInv, TypeOK, AttemptRecord
<1>9. Progress'
  <2>1. attempt'[a].pc = "decide" => attempt'[a].todo = {}
    BY <1>3
  <2> QED BY <1>1, <1>3, <1>4, <2>1 DEF IInv, Progress
<1>10. Rows'
  BY <1>1, <1>4, <1>6 DEF IInv, Rows
<1> QED BY <1>8, <1>9, <1>10 DEF IInv

----------------------------------------------------------------------------
\* A step of LockoutHolds.
Keeps == \A b \in Bucket :
            bucket[b].blocked > now /\ now - bucket[b].window < Window
                => bucket'[b] = bucket[b]

\* A rollback removes what its transaction inserted: nobody else waits for those
\* rows by id, and none of them is blocked.
LEMMA RollbackInv ==
    ASSUME IInv, NEW a \in Attempt, Rollback(a),
           NEW r \in {Idle, [Idle EXCEPT !.pc = "raised"]},
           attempt' = [attempt EXCEPT ![a] = r]
    PROVE  IInv' /\ Keeps
<1>1. /\ bucket' = [b \in Bucket |-> IF b \in inserted /\ lock[b] = a THEN NoRow
                                                                     ELSE bucket[b]]
      /\ EndTransaction(a) /\ guesses' = guesses
      /\ inserted' = {b \in inserted : lock[b] # a}
  BY DEF Rollback, EndTransaction
<1>2. /\ attempt \in [Attempt -> AttemptRecord] /\ bucket \in [Bucket -> Row]
      /\ guesses \in [Bucket -> Nat] /\ now \in Nat
  BY Bounds DEF IInv, TypeOK, AttemptRecord, Row, Time
<1>3. /\ r \in AttemptRecord /\ r.pc \in {"idle", "raised"} /\ r.hashes = {}
      /\ r.todo = {} /\ r.found = FALSE /\ r.now = 0
  <2>1. r \in AttemptRecord
    BY RecordTypes
  <2>2. CASE r = Idle
    BY <2>1, <2>2 DEF Idle
  <2>3. CASE r = [Idle EXCEPT !.pc = "raised"]
    BY <2>1, <2>3 DEF Idle
  <2> QED BY <2>2, <2>3
<1>4. /\ attempt' \in [Attempt -> AttemptRecord] /\ attempt'[a] = r
      /\ \A x \in Attempt \ {a} : attempt'[x] = attempt[x]
  BY <1>2, <1>3
<1>5. bucket' \in [Bucket -> Row]
  BY <1>1, <1>2, RecordTypes
<1>6. \A x \in Attempt \ {a} :
         attempt[x].found => bucket'[attempt[x].current].exists
  <2> SUFFICES ASSUME NEW x \in Attempt \ {a}, attempt[x].found
               PROVE  bucket'[attempt[x].current].exists
    OBVIOUS
  <2>1. /\ bucket[attempt[x].current].exists
        /\ attempt[x].current \in attempt[x].todo
    BY DEF IInv, Progress
  <2>2. attempt[x].current \in Bucket
    BY <1>2, <2>1 DEF AttemptRecord
  <2>3. ~(attempt[x].current \in inserted /\ lock[attempt[x].current] = a)
    BY <2>2 DEF IInv, TypeOK
  <2> QED BY <1>1, <2>1, <2>2, <2>3
<1>7. \A b \in Bucket : ~bucket'[b].exists => bucket'[b].blocked = 0
  BY <1>1 DEF IInv, Rows, NoRow
<1>8. IInv'
  BY <1>1, <1>2, <1>3, <1>4, <1>5, <1>6, <1>7, EndFacts
<1>9. Keeps
  BY <1>1, <1>2 DEF Keeps, IInv, Rows
<1> QED BY <1>8, <1>9

\* An attempt that decides holds the rows of all its buckets.
LEMMA DecideFacts ==
    ASSUME IInv, NEW a \in Attempt, attempt[a].pc = "decide"
    PROVE  /\ attempt[a].hashes \subseteq Bucket
           /\ attempt[a].now \in Time /\ attempt[a].now <= now /\ now \in Nat
           /\ bucket \in [Bucket -> Row]
           /\ attempt \in [Attempt -> AttemptRecord]
           /\ guesses \in [Bucket -> Nat]
           /\ \A b \in attempt[a].hashes :
                 /\ lock[b] = a /\ bucket[b].exists
                 /\ Buckets(a)[b] = Refreshed(bucket[b], attempt[a].now)
                 /\ Buckets(a)[b] \in Row /\ Buckets(a)[b].exists
<1>1. /\ attempt \in [Attempt -> AttemptRecord] /\ bucket \in [Bucket -> Row]
      /\ guesses \in [Bucket -> Nat] /\ now \in Nat
  BY Bounds DEF IInv, TypeOK, AttemptRecord, Row, Time
<1>2. /\ attempt[a].hashes \subseteq Bucket /\ attempt[a].now \in Time
      /\ attempt[a].todo = {} /\ attempt[a].now <= now
  BY <1>1 DEF IInv, Progress, AttemptRecord
<1>3. \A b \in attempt[a].hashes : lock[b] = a
  BY <1>2 DEF IInv, TypeOK
<1>4. \A b \in attempt[a].hashes : bucket[b].exists
  BY <1>2, <1>3, Bounds DEF IInv, Rows
<1> QED BY <1>1, <1>2, <1>3, <1>4, RefreshedFacts DEF Buckets

\* A lockout in force is in the attempt's copies as well, and blocks it.
LEMMA LockoutBlocks ==
    ASSUME IInv, NEW a \in Attempt, attempt[a].pc = "decide",
           NEW b \in attempt[a].hashes,
           bucket[b].blocked > now, now - bucket[b].window < Window
    PROVE  Buckets(a)[b] = bucket[b] /\ Blocked(a)
<1>1. bucket[b] \in Row
  BY DecideFacts
<1>2. /\ bucket[b].blocked \in Nat /\ bucket[b].window \in Nat
      /\ attempt[a].now \in Nat /\ now \in Nat /\ attempt[a].now <= now
  BY <1>1, DecideFacts, Bounds DEF Row, Time
<1>3. attempt[a].now - bucket[b].window < Window /\ bucket[b].blocked > attempt[a].now
  BY <1>2, Bounds
<1>4. Buckets(a)[b] = bucket[b]
  BY <1>1, <1>3, DecideFacts, RefreshedFacts
<1> QED BY <1>3, <1>4 DEF Blocked

\* The guesses of every bucket stay numbers.
LEMMA GuessesType ==
    ASSUME IInv, NEW a \in Attempt, NEW n \in {0, 1}, CountGuesses(a, n)
    PROVE  guesses' \in [Bucket -> Nat]
<1>1. guesses \in [Bucket -> Nat]
  BY DEF IInv, TypeOK
<1> QED BY <1>1 DEF CountGuesses

\* A refusal and a failure write rows that exist, and only their own.
LEMMA WriteInv ==
    ASSUME IInv, NEW a \in Attempt, attempt[a].pc = "decide",
           EndTransaction(a), Finish(a), guesses' \in [Bucket -> Nat],
           NEW rows, Write(a, rows),
           \A b \in attempt[a].hashes : rows[b] \in Row /\ rows[b].exists
    PROVE  IInv'
<1>1. /\ bucket' = [b \in Bucket |-> IF b \in attempt[a].hashes THEN rows[b]
                                                               ELSE bucket[b]]
      /\ attempt' = [attempt EXCEPT ![a] = Idle]
  BY DEF Write, Finish
<1>2. /\ Idle \in AttemptRecord /\ Idle.pc = "idle" /\ Idle.hashes = {}
      /\ Idle.todo = {} /\ Idle.found = FALSE /\ Idle.now = 0
  BY RecordTypes DEF Idle
<1>3. /\ attempt' \in [Attempt -> AttemptRecord] /\ attempt'[a] = Idle
      /\ \A x \in Attempt \ {a} : attempt'[x] = attempt[x]
  BY <1>1, <1>2, DecideFacts
<1>4. /\ bucket' \in [Bucket -> Row]
      /\ \A b \in Bucket : bucket[b].exists => bucket'[b].exists
      /\ \A b \in Bucket : lock[b] # a => bucket'[b] = bucket[b]
  BY <1>1, DecideFacts
<1>5. \A b \in Bucket : ~bucket'[b].exists => bucket'[b].blocked = 0
  BY <1>1, <1>4 DEF IInv, Rows
<1>6. \A x \in Attempt : attempt[x].found => bucket'[attempt[x].current].exists
  <2> SUFFICES ASSUME NEW x \in Attempt, attempt[x].found
               PROVE  bucket'[attempt[x].current].exists
    OBVIOUS
  <2>1. /\ bucket[attempt[x].current].exists
        /\ attempt[x].current \in attempt[x].todo
    BY DEF IInv, Progress
  <2>2. attempt[x].current \in Bucket
    BY <2>1, DecideFacts DEF AttemptRecord
  <2> QED BY <1>4, <2>1, <2>2
<1> QED BY <1>2, <1>3, <1>4, <1>5, <1>6, EndFacts

\* Who is refused writes the row back as it was.
LEMMA RefusedInv ==
    ASSUME IInv, NEW a \in Attempt, login_refused(a)
    PROVE  IInv' /\ Keeps
<1>1. /\ attempt[a].pc = "decide" /\ EndTransaction(a) /\ Finish(a)
      /\ Write(a, Buckets(a)) /\ guesses' \in [Bucket -> Nat]
  BY GuessesType DEF login_refused
<1>2. IInv'
  BY <1>1, DecideFacts, WriteInv
<1>3. Keeps
  BY <1>1, LockoutBlocks DEF Keeps, Write
<1> QED BY <1>2, <1>3

\* Who fails had no blocked bucket.
LEMMA FailsInv ==
    ASSUME IInv, NEW a \in Attempt, login_fails(a)
    PROVE  IInv' /\ Keeps
<1> DEFINE rows == [b \in attempt[a].hashes |->
                       CountFailure(Buckets(a)[b], attempt[a].now)]
<1>1. /\ attempt[a].pc = "decide" /\ EndTransaction(a) /\ Finish(a) /\ ~Blocked(a)
      /\ Write(a, rows) /\ guesses' \in [Bucket -> Nat]
  BY GuessesType DEF login_fails
<1>2. \A b \in attempt[a].hashes : rows[b] \in Row /\ rows[b].exists
  BY <1>1, DecideFacts, CountFailureFacts
<1> HIDE DEF rows
<1>3. IInv'
  BY <1>1, <1>2, WriteInv
<1>4. Keeps
  BY <1>1, LockoutBlocks DEF Keeps, Write
<1> QED BY <1>3, <1>4

\* Neither had who succeeds; whoever waited for a row of his learns it is gone.
LEMMA SucceedsInv ==
    ASSUME IInv, NEW a \in Attempt, login_succeeds(a)
    PROVE  IInv' /\ Keeps
<1>1. /\ attempt[a].pc = "decide" /\ EndTransaction(a) /\ ~Blocked(a)
      /\ inserted' = {b \in inserted : lock[b] # a}
      /\ bucket' = [b \in Bucket |-> IF b \in attempt[a].hashes THEN NoRow ELSE bucket[b]]
      /\ guesses' = [b \in Bucket |-> IF b \in attempt[a].hashes THEN 0 ELSE guesses[b]]
      /\ attempt' = [x \in Attempt |->
                        IF x = a THEN Idle
                        ELSE IF attempt[x].current \in attempt[a].hashes
                        THEN [attempt[x] EXCEPT !.found = FALSE]
                        ELSE attempt[x]]
  BY DEF login_succeeds, EndTransaction
<1>2. /\ Idle \in AttemptRecord /\ Idle.pc = "idle" /\ Idle.hashes = {}
      /\ Idle.todo = {} /\ Idle.found = FALSE /\ Idle.now = 0
  BY RecordTypes DEF Idle
<1>3. \A r \in AttemptRecord :
         /\ [r EXCEPT !.found = FALSE] \in AttemptRecord
         /\ [r EXCEPT !.found = FALSE].pc = r.pc
         /\ [r EXCEPT !.found = FALSE].hashes = r.hashes
         /\ [r EXCEPT !.found = FALSE].todo = r.todo
         /\ [r EXCEPT !.found = FALSE].current = r.current
         /\ [r EXCEPT !.found = FALSE].now = r.now
         /\ [r EXCEPT !.found = FALSE].found = FALSE
  BY DEF AttemptRecord
<1>4. attempt' \in [Attempt -> AttemptRecord] /\ attempt'[a] = Idle
  BY <1>1, <1>2, <1>3, DecideFacts
<1>5. /\ bucket' \in [Bucket -> Row] /\ guesses' \in [Bucket -> Nat]
      /\ \A b \in Bucket : lock[b] # a => bucket'[b] = bucket[b]
  BY <1>1, DecideFacts, RecordTypes
<1>6. \A b \in Bucket : ~bucket'[b].exists => bucket'[b].blocked = 0
  BY <1>1 DEF IInv, Rows, NoRow
<1>7. ASSUME NEW x \in Attempt \ {a}
      PROVE  /\ attempt'[x].pc = attempt[x].pc
             /\ attempt'[x].hashes = attempt[x].hashes
             /\ attempt'[x].todo = attempt[x].todo
             /\ attempt'[x].current = attempt[x].current
             /\ attempt'[x].now = attempt[x].now
             /\ attempt'[x].found =>
                   attempt[x].found /\ bucket'[attempt[x].current].exists
             /\ attempt[x].found /\ attempt[x].current \in inserted'
                   => attempt'[x].found
  <2>1. attempt[x] \in AttemptRecord
    BY DecideFacts, <1>1
  <2>2. attempt[x].found => /\ bucket[attempt[x].current].exists
                            /\ attempt[x].current \in Bucket
    <3>1. attempt[x].found => /\ bucket[attempt[x].current].exists
                              /\ attempt[x].current \in attempt[x].todo
      BY DEF IInv, Progress
    <3> QED BY <2>1, <3>1 DEF AttemptRecord
  <2>3. CASE attempt[x].current \in attempt[a].hashes
    <3>1. attempt[x].current \notin inserted'
      BY <1>1, <2>3, DecideFacts
    <3> QED BY <1>1, <1>3, <2>1, <2>3, <3>1
  <2>4. CASE attempt[x].current \notin attempt[a].hashes
    BY <1>1, <2>2, <2>4
  <2> QED BY <2>3, <2>4
<1>8. IInv'
  BY <1>1, <1>2, <1>4, <1>5, <1>6, <1>7, EndFacts
<1>9. Keeps
  BY <1>1, LockoutBlocks DEF Keeps
<1> QED BY <1>8, <1>9

\* The worker that answers an exception has nothing left to give up.
LEMMA AnswerInv ==
    ASSUME IInv, NEW a \in Attempt, answer_error(a)
    PROVE  IInv' /\ Keeps
<1>1. /\ attempt[a].pc = "raised" /\ attempt' = [attempt EXCEPT ![a] = Idle]
      /\ UNCHANGED <<bucket, lock, inserted, now, guesses>>
  BY DEF answer_error, Finish
<1>2. /\ attempt \in [Attempt -> AttemptRecord] /\ now \in Nat
  BY Bounds DEF IInv, TypeOK, AttemptRecord, Time
<1>3. /\ Idle \in AttemptRecord /\ Idle.pc = "idle" /\ Idle.hashes = {}
      /\ Idle.todo = {} /\ Idle.found = FALSE /\ Idle.now = 0
  BY RecordTypes DEF Idle
<1>4. /\ attempt' \in [Attempt -> AttemptRecord] /\ attempt'[a] = Idle
      /\ \A x \in Attempt \ {a} : attempt'[x] = attempt[x]
  BY <1>1, <1>2, <1>3
<1>5. attempt[a].hashes = {} /\ attempt[a].found = FALSE
  BY <1>1, <1>2 DEF IInv, Progress, AttemptRecord
<1>6. \A b \in Bucket, x \in Attempt :
         lock'[b] = x <=>
            \/ b \in attempt'[x].hashes \ attempt'[x].todo
            \/ attempt'[x].found /\ attempt'[x].current = b /\ b \in inserted'
  <2> TAKE b \in Bucket, x \in Attempt
  <2>1. lock[b] = x <=> \/ b \in attempt[x].hashes \ attempt[x].todo
                        \/ attempt[x].found /\ attempt[x].current = b /\ b \in inserted
    BY DEF IInv, TypeOK
  <2> QED BY <1>1, <1>3, <1>4, <1>5, <2>1
<1>7. TypeOK'
  BY <1>1, <1>4, <1>6 DEF IInv, TypeOK, AttemptRecord
<1>8. Progress'
  BY <1>1, <1>2, <1>3, <1>4 DEF IInv, Progress
<1>9. Keeps
  BY <1>1 DEF Keeps
<1> QED BY <1>1, <1>7, <1>8, <1>9 DEF IInv, Rows

----------------------------------------------------------------------------
\* Nothing is locked at first.
LEMMA InitInv == Init => IInv
<1> SUFFICES ASSUME Init PROVE IInv
  OBVIOUS
<1>1. /\ bucket = [b \in Bucket |-> NoRow] /\ lock = [b \in Bucket |-> Nobody]
      /\ inserted = {} /\ attempt = [a \in Attempt |-> Idle] /\ now = 1
      /\ guesses = [b \in Bucket |-> 0]
  BY DEF Init
<1>2. /\ Idle \in AttemptRecord /\ Idle.pc = "idle" /\ Idle.hashes = {}
      /\ Idle.todo = {} /\ Idle.found = FALSE /\ Idle.now = 0
  BY RecordTypes DEF Idle
<1>3. bucket \in [Bucket -> Row] /\ attempt \in [Attempt -> AttemptRecord]
  BY <1>1, RecordTypes
<1>4. 1 \in Time
  BY Bounds DEF Time
<1>5. TypeOK
  BY <1>1, <1>2, <1>3, <1>4, Bounds DEF TypeOK, Row, AttemptRecord
<1>6. Progress
  BY <1>1, <1>2 DEF Progress
<1>7. Rows
  BY <1>1 DEF Rows, NoRow
<1> QED BY <1>5, <1>6, <1>7 DEF IInv

\* Every step keeps the invariant and the lockouts in force.
LEMMA NextInv == IInv /\ [Next]_vars => IInv' /\ (UNCHANGED vars \/ Keeps)
<1> SUFFICES ASSUME IInv, [Next]_vars PROVE IInv' /\ (UNCHANGED vars \/ Keeps)
  OBVIOUS
<1>1. ASSUME NEW a \in Attempt, NEW hashes \in SUBSET Bucket, login_starts(a, hashes)
      PROVE  IInv' /\ Keeps
  BY <1>1, StartInv DEF login_starts, Keeps
<1>2. ASSUME NEW a \in Attempt, NEW b \in Bucket, get_or_create(a, b)
      PROVE  IInv' /\ Keeps
  <2>1. IInv'
    BY <1>2, GetInv
  <2>2. Keeps
    <3>1. \A c \in Bucket : bucket[c].exists => bucket'[c] = bucket[c]
      BY <1>2 DEF get_or_create, IInv, TypeOK
    <3>2. \A c \in Bucket : ~bucket[c].exists => bucket[c].blocked = 0
      BY DEF IInv, Rows
    <3>3. now \in Nat
      BY Bounds DEF IInv, TypeOK, Time
    <3> QED BY <3>1, <3>2, <3>3 DEF Keeps
  <2> QED BY <2>1, <2>2
<1>3. ASSUME NEW a \in Attempt, lock_bucket(a)
      PROVE  IInv' /\ Keeps
  BY <1>3, LockInv DEF lock_bucket, Keeps
<1>4. ASSUME NEW a \in Attempt, lock_raises(a) \/ attempt_dies(a)
      PROVE  IInv' /\ Keeps
  BY <1>4, RollbackInv DEF lock_raises, attempt_dies, Finish
<1>5. CASE Tick
  <2>1. /\ now' \in Time /\ now <= now' /\ now \in Nat /\ now' \in Nat
        /\ UNCHANGED <<bucket, lock, inserted, attempt, guesses>>
    BY <1>5, Bounds DEF Tick, Time, IInv, TypeOK
  <2>2. TypeOK' /\ Rows'
    BY <2>1 DEF IInv, TypeOK, Rows
  <2>3. \A a \in Attempt : attempt[a].now \in Nat
    BY Bounds DEF IInv, TypeOK, Time
  <2>4. Progress'
    BY <2>1, <2>3 DEF IInv, Progress
  <2> QED BY <2>1, <2>2, <2>4 DEF IInv, Keeps
<1>6. CASE UNCHANGED vars
  BY <1>6 DEF vars, IInv, TypeOK, Progress, Rows
<1> QED BY <1>1, <1>2, <1>3, <1>4, <1>5, <1>6, RefusedInv, FailsInv, SucceedsInv, AnswerInv
        DEF Next, authenticate_login

\* Rows, locks and attempts keep their types, and the locks are held by the
\* attempts that took them (_lock_throttle_buckets).
THEOREM ThrottleTypeCorrect == Spec => []TypeOK
<1>1. IInv => TypeOK
  BY DEF IInv
<1> QED BY <1>1, InitInv, NextInv, PTL DEF Spec

\* A lockout in force is not shortened, extended, counted or deleted by anybody,
\* whenever an attempt read the clock and whatever buckets it has.
THEOREM LockoutsHold == Spec => LockoutHolds
<1>1. IInv /\ [Next]_vars => [\A b \in Bucket :
         bucket[b].blocked > now /\ now - bucket[b].window < Window
            => bucket'[b] = bucket[b]]_vars
  BY NextInv DEF Keeps
<1>2. IInv /\ [Next]_vars => IInv'
  BY NextInv
<1> QED BY <1>1, <1>2, InitInv, PTL DEF Spec, LockoutHolds

----------------------------------------------------------------------------
(* The number of guesses.                                                   *)

Workers == Cardinality(Attempt)
InFlight == {"get", "lock", "decide"}

\* The attempts that read the clock before t and are not over.
LateIn(served, t) == {x \in Attempt : served[x].pc \in InFlight /\ served[x].now < t}
Late(t) == LateIn(attempt, t)

\* The l-th phase of a bucket's window, and how many guesses came before it.
PhaseStart(b, l) == bucket[b].window + l * Lockout
Allowed(l) == Limit - 1 + l * Workers

\* Who has not guessed yet in the phase.
MayFollow(b, l) == Workers - Cardinality(Late(PhaseStart(b, l)))

\* Somebody's clock has reached the phase, which begins in the window.  When a
\* guess has been made with such a clock, the bucket is locked to the next phase.
Phase(b, l) ==
    /\ PhaseStart(b, l) <= now
    /\ l * Lockout < Window
    /\ Cardinality(Late(PhaseStart(b, l))) < Workers
    /\ \/ guesses[b] < Allowed(l) + MayFollow(b, l)
       \/ /\ guesses[b] = Allowed(l) + MayFollow(b, l)
          /\ bucket[b].blocked >= PhaseStart(b, l + 1)

FailuresAreGuesses ==
    \A b \in Bucket :
       /\ bucket[b].failed = IF guesses[b] < Limit THEN guesses[b] ELSE Limit
       /\ ~bucket[b].exists \/ b \in inserted => guesses[b] = 0

InPhase(b) == bucket[b].exists => \E l \in Nat : Phase(b, l)

GuessInv == IInv /\ FailuresAreGuesses /\ \A b \in Bucket : InPhase(b)

\* Products, as far as they are needed.
LEMMA Products ==
    ASSUME NEW l \in Nat
    PROVE  /\ Workers \in Nat
           /\ l * Lockout \in Nat /\ (l + 1) * Lockout = l * Lockout + Lockout
           /\ Allowed(l) \in Nat /\ Allowed(l + 1) = Allowed(l) + Workers
           /\ Allowed(l) >= Limit - 1
<1>1. Workers \in Nat
  BY FS_CardinalityType, ThrottleAssumption DEF Workers
<1>2. /\ l * Lockout \in Nat /\ (l + 1) * Lockout = l * Lockout + Lockout
      /\ l * Workers \in Nat /\ (l + 1) * Workers = l * Workers + Workers
  BY <1>1, Bounds
<1> QED BY <1>1, <1>2, Bounds DEF Allowed

\* At most all workers are late, and fewer when somebody is not, or no longer.
LEMMA LateFacts ==
    ASSUME NEW served, NEW t
    PROVE  LET late == Cardinality(LateIn(served, t)) IN
           /\ late \in Nat /\ late <= Workers
           /\ \A a \in Attempt : a \notin LateIn(served, t) => late < Workers
           /\ \A others \in SUBSET LateIn(served, t) :
                 /\ Cardinality(others) \in Nat
                 /\ Cardinality(others) <= late
                 /\ \A a \in LateIn(served, t) \ others : Cardinality(others) < late
<1> DEFINE L == LateIn(served, t)
<1>1. L \subseteq Attempt /\ IsFiniteSet(Attempt)
  BY ThrottleAssumption DEF LateIn
<1>2. /\ IsFiniteSet(L) /\ Cardinality(L) <= Cardinality(Attempt)
      /\ Cardinality(L) = Cardinality(Attempt) => L = Attempt
  BY <1>1, FS_Subset
<1>3. Cardinality(L) \in Nat /\ Cardinality(Attempt) \in Nat
  BY <1>1, <1>2, FS_CardinalityType
<1> HIDE DEF L
<1>4. ASSUME NEW others \in SUBSET L
      PROVE  /\ Cardinality(others) \in Nat
             /\ Cardinality(others) <= Cardinality(L)
             /\ \A a \in L \ others : Cardinality(others) < Cardinality(L)
  <2>1. /\ IsFiniteSet(others) /\ Cardinality(others) <= Cardinality(L)
        /\ Cardinality(others) = Cardinality(L) => others = L
    BY <1>2, FS_Subset
  <2>2. Cardinality(others) \in Nat
    BY <2>1, FS_CardinalityType
  <2> QED BY <1>3, <2>1, <2>2
<1>5. \A a \in Attempt : a \notin L => Cardinality(L) < Workers
  BY <1>2, <1>3 DEF Workers
<1> QED BY <1>2, <1>3, <1>4, <1>5 DEF L, Workers

\* Types of what a phase is about.
LEMMA PhaseTypes ==
    ASSUME IInv, NEW b \in Bucket, NEW l \in Nat
    PROVE  /\ bucket[b].window \in Nat /\ bucket[b].blocked \in Nat
           /\ guesses[b] \in Nat /\ now \in Nat
           /\ PhaseStart(b, l) \in Nat
           /\ PhaseStart(b, l + 1) = PhaseStart(b, l) + Lockout
           /\ bucket[b].window <= PhaseStart(b, l)
<1>1. bucket[b] \in Row /\ guesses[b] \in Nat /\ now \in Time
  BY DEF IInv, TypeOK, Row
<1>2. bucket[b].window \in Nat /\ bucket[b].blocked \in Nat /\ now \in Nat
  BY <1>1, Bounds DEF Row, Time
<1> QED BY <1>1, <1>2, Products, Bounds DEF PhaseStart

\* A phase goes on while nobody touches the bucket and nobody who is late arrives.
LEMMA PhaseGoesOn ==
    ASSUME IInv, IInv', NEW b \in Bucket, NEW l \in Nat, Phase(b, l),
           bucket'[b].window = bucket[b].window,
           guesses'[b] = guesses[b],
           bucket'[b].blocked = bucket[b].blocked
              \/ guesses[b] < Allowed(l) + MayFollow(b, l),
           now <= now',
           \A t \in Nat : t <= now => LateIn(attempt', t) \subseteq LateIn(attempt, t)
    PROVE  Phase(b, l)'
<1> DEFINE t == PhaseStart(b, l)
           late == Cardinality(LateIn(attempt, t))
           later == Cardinality(LateIn(attempt', t))
<1>1. /\ t \in Nat /\ t <= now /\ now \in Nat /\ now' \in Nat /\ guesses[b] \in Nat
      /\ PhaseStart(b, l)' = t /\ PhaseStart(b, l + 1)' = PhaseStart(b, l + 1)
      /\ PhaseStart(b, l + 1) \in Nat /\ bucket[b].blocked \in Nat
  <2>1. now' \in Nat
    BY PhaseTypes, Bounds DEF IInv, TypeOK, Time
  <2> QED BY <2>1, PhaseTypes, Products DEF Phase, PhaseStart
<1>2. late \in Nat /\ later \in Nat /\ later <= late /\ late <= Workers
  BY <1>1, LateFacts
<1>3. /\ MayFollow(b, l) = Workers - late /\ MayFollow(b, l)' = Workers - later
      /\ late < Workers /\ l * Lockout < Window
  BY <1>1 DEF Phase, MayFollow, Late
<1> HIDE DEF t, late, later
<1>4. Workers \in Nat /\ Allowed(l) \in Nat
  BY Products
<1>5. \/ guesses[b] < Allowed(l) + (Workers - late)
      \/ /\ guesses[b] = Allowed(l) + (Workers - late)
         /\ bucket[b].blocked >= PhaseStart(b, l + 1)
  BY <1>3, <1>4, <1>2 DEF Phase
<1>6. \/ guesses'[b] < Allowed(l) + (Workers - later)
      \/ /\ guesses'[b] = Allowed(l) + (Workers - later)
         /\ bucket'[b].blocked >= PhaseStart(b, l + 1)
  BY <1>2, <1>3, <1>4, <1>5, <1>1
<1>7. later < Workers /\ t <= now'
  BY <1>1, <1>2, <1>3, <1>4
<1> QED BY <1>1, <1>3, <1>6, <1>7 DEF Phase, Late, t, later

\* A phase begins with somebody who is not late for it, and at most one guess.
LEMMA PhaseBegins ==
    ASSUME IInv', NEW b \in Bucket, NEW m \in Nat, NEW a \in Attempt,
           a \notin LateIn(attempt', PhaseStart(b, m)'),
           PhaseStart(b, m)' <= now', m * Lockout < Window,
           guesses'[b] <= Allowed(m) + 1,
           \/ guesses'[b] <= Allowed(m)
           \/ bucket'[b].blocked >= PhaseStart(b, m + 1)'
    PROVE  Phase(b, m)'
<1> DEFINE later == Cardinality(LateIn(attempt', PhaseStart(b, m)'))
<1>1. later \in Nat /\ later < Workers
  BY LateFacts
<1>2. MayFollow(b, m)' = Workers - later
  BY DEF MayFollow, Late
<1>3. guesses'[b] \in Nat /\ Workers \in Nat /\ Allowed(m) \in Nat
  BY Products DEF IInv, TypeOK
<1>4. Cardinality(Late(PhaseStart(b, m)))' = later
  BY DEF Late
<1> HIDE DEF later
<1>5. \/ guesses'[b] < Allowed(m) + (Workers - later)
      \/ /\ guesses'[b] = Allowed(m) + (Workers - later)
         /\ bucket'[b].blocked >= PhaseStart(b, m + 1)'
  BY <1>1, <1>3
<1> QED BY <1>1, <1>2, <1>4, <1>5 DEF Phase

\* The row that an attempt finds, when the window goes on.
LEMMA RefreshedRow ==
    ASSUME IInv, NEW a \in Attempt, attempt[a].pc = "decide",
           NEW b \in Bucket, b \in attempt[a].hashes, ~Restarts(a, b)
    PROVE  /\ attempt[a].now \in Nat /\ attempt[a].now - bucket[b].window < Window
           /\ Buckets(a)[b].window = bucket[b].window
           /\ Buckets(a)[b].failed = bucket[b].failed
           /\ \/ Buckets(a)[b].blocked = bucket[b].blocked
              \/ Buckets(a)[b].blocked = 0 /\ bucket[b].blocked <= attempt[a].now
<1>1. bucket[b] \in Row /\ attempt[a].now \in Nat /\ bucket[b].window \in Nat
  BY DecideFacts, Bounds DEF Row, Time
<1>2. attempt[a].now - bucket[b].window < Window
  BY <1>1, Bounds DEF Restarts
<1>3. Buckets(a)[b] = Refreshed(bucket[b], attempt[a].now)
  BY DecideFacts
<1>4. Refreshed(bucket[b], attempt[a].now) \in {bucket[b], [bucket[b] EXCEPT !.blocked = 0]}
  BY <1>1, <1>2, Bounds DEF Refreshed
<1>5. CASE Buckets(a)[b] = bucket[b]
  BY <1>1, <1>2, <1>5
<1>6. CASE Buckets(a)[b] # bucket[b]
  <2>1. /\ Buckets(a)[b] = [bucket[b] EXCEPT !.blocked = 0]
        /\ bucket[b].blocked <= attempt[a].now
    BY <1>3, <1>4, <1>6, <1>1, <1>2, Bounds DEF Refreshed
  <2> QED BY <1>1, <1>2, <2>1 DEF Row
<1> QED BY <1>5, <1>6

\* A refused attempt leaves the phase as it is, or lifts a lockout that is over by
\* its clock, which has then reached the next phase.
LEMMA RefusedPhase ==
    ASSUME IInv, IInv', NEW a \in Attempt, attempt[a].pc = "decide",
           NEW b \in Bucket, b \in attempt[a].hashes, ~Restarts(a, b),
           NEW l \in Nat, Phase(b, l),
           bucket'[b] = Buckets(a)[b], guesses'[b] = guesses[b], now' = now,
           \A t : LateIn(attempt', t) = LateIn(attempt, t) \ {a}
    PROVE  \E m \in Nat : Phase(b, m)'
<1>1. /\ guesses[b] \in Nat /\ now \in Nat
      /\ bucket[b].window \in Nat /\ bucket[b].blocked \in Nat
      /\ PhaseStart(b, l + 1) = bucket[b].window + (l + 1) * Lockout
      /\ Workers \in Nat /\ Allowed(l) \in Nat /\ Allowed(l + 1) = Allowed(l) + Workers
      /\ (l + 1) * Lockout \in Nat
  <2>1. /\ guesses[b] \in Nat /\ now \in Nat
        /\ bucket[b].window \in Nat /\ bucket[b].blocked \in Nat
    BY PhaseTypes
  <2>2. PhaseStart(b, l + 1) = bucket[b].window + (l + 1) * Lockout
    BY DEF PhaseStart
  <2>3. /\ Workers \in Nat /\ Allowed(l) \in Nat
        /\ Allowed(l + 1) = Allowed(l) + Workers
        /\ l * Lockout \in Nat /\ (l + 1) * Lockout = l * Lockout + Lockout
    BY Products
  <2> QED BY <2>1, <2>2, <2>3, Bounds
<1>2. bucket'[b].window = bucket[b].window /\ attempt[a].now <= now
  BY RefreshedRow, DecideFacts
<1>3. CASE \/ bucket'[b].blocked = bucket[b].blocked
           \/ guesses[b] < Allowed(l) + MayFollow(b, l)
  <2>1. now <= now' /\ \A t \in Nat : LateIn(attempt', t) \subseteq LateIn(attempt, t)
    BY <1>1
  <2> QED BY <1>2, <1>3, <2>1, PhaseGoesOn
<1>4. CASE /\ bucket'[b].blocked # bucket[b].blocked
           /\ ~(guesses[b] < Allowed(l) + MayFollow(b, l))
  <2>1. bucket[b].blocked >= PhaseStart(b, l + 1)
    BY <1>4 DEF Phase
  <2>2. bucket[b].blocked <= attempt[a].now
    BY <1>4, RefreshedRow
  <2>3. PhaseStart(b, l + 1)' = PhaseStart(b, l + 1)
    BY <1>2 DEF PhaseStart
  <2>4. /\ PhaseStart(b, l + 1) <= now /\ (l + 1) * Lockout < Window
        /\ ~(attempt[a].now < PhaseStart(b, l + 1))
    <3>1. attempt[a].now \in Nat /\ attempt[a].now - bucket[b].window < Window
      BY RefreshedRow
    <3> QED BY <1>1, <1>2, <2>1, <2>2, <3>1, Bounds
  <2>5. a \notin LateIn(attempt', PhaseStart(b, l + 1)')
    BY <2>3
  <2>6. guesses[b] <= Allowed(l + 1)
    <3>1. Cardinality(Late(PhaseStart(b, l))) \in Nat
      BY LateFacts DEF Late
    <3>2. guesses[b] = Allowed(l) + MayFollow(b, l)
      BY <1>4 DEF Phase
    <3> QED BY <1>1, <3>1, <3>2 DEF MayFollow
  <2>7. guesses'[b] <= Allowed(l + 1) /\ guesses'[b] <= Allowed(l + 1) + 1
    BY <1>1, <2>6
  <2>8. l + 1 \in Nat
    OBVIOUS
  <2>9. PhaseStart(b, l + 1)' <= now'
    BY <2>3, <2>4
  <2> QED BY <2>4, <2>5, <2>7, <2>8, <2>9, PhaseBegins
<1> QED BY <1>3, <1>4

\* What a failure writes into a row.
LEMMA FailureWrites ==
    ASSUME NEW row \in Row, NEW t \in Nat, NEW g \in Nat,
           row.failed = IF g < Limit THEN g ELSE Limit
    PROVE  LET after == CountFailure(row, t) IN
           /\ after.window = row.window
           /\ after.failed = IF g + 1 < Limit THEN g + 1 ELSE Limit
           /\ after.blocked = IF g + 1 < Limit THEN row.blocked ELSE t + Lockout
<1> DEFINE failed == IF row.failed < Limit THEN row.failed + 1 ELSE Limit
           blocked == IF failed >= Limit THEN t + Lockout ELSE row.blocked
           after == [row EXCEPT !.failed = failed, !.blocked = blocked]
<1>1. CountFailure(row, t) = after
  BY DEF CountFailure, Row
<1>2. /\ after.window = row.window /\ after.failed = failed
      /\ after.blocked = blocked
  BY DEF Row
<1>3. failed = IF g + 1 < Limit THEN g + 1 ELSE Limit
  BY Bounds
<1>4. blocked = IF g + 1 < Limit THEN row.blocked ELSE t + Lockout
  BY <1>3, Bounds
<1> HIDE DEF after, failed, blocked
<1> QED BY <1>1, <1>2, <1>3, <1>4

\* A failed attempt takes a guess of its phase: its own, when its clock is of before
\* the phase, or the one that locks the bucket.  If the bucket was locked already,
\* its clock has reached the next phase.
LEMMA FailedPhase ==
    ASSUME IInv, IInv', NEW a \in Attempt, attempt[a].pc = "decide", ~Blocked(a),
           NEW b \in Bucket, b \in attempt[a].hashes, ~Restarts(a, b),
           bucket[b].failed = IF guesses[b] < Limit THEN guesses[b] ELSE Limit,
           NEW l \in Nat, Phase(b, l),
           bucket'[b] = CountFailure(Buckets(a)[b], attempt[a].now),
           guesses'[b] = guesses[b] + 1, now' = now,
           \A t : LateIn(attempt', t) = LateIn(attempt, t) \ {a}
    PROVE  \E m \in Nat : Phase(b, m)'
<1> DEFINE t == attempt[a].now
           g == guesses[b]
           begin == PhaseStart(b, l)
           next == PhaseStart(b, l + 1)
           late == Cardinality(LateIn(attempt, begin))
           later == Cardinality(LateIn(attempt', begin))
<1>1. /\ g \in Nat /\ now \in Nat /\ t \in Nat /\ t <= now
      /\ bucket[b].window \in Nat /\ bucket[b].blocked \in Nat
      /\ t - bucket[b].window < Window
      /\ begin \in Nat /\ next = begin + Lockout
  BY PhaseTypes, DecideFacts, RefreshedRow
<1>2. /\ Workers \in Nat /\ Allowed(l) \in Nat /\ Allowed(l + 1) = Allowed(l) + Workers
      /\ Allowed(l) >= Limit - 1 /\ Allowed(l + 1) \in Nat
      /\ l * Lockout \in Nat /\ (l + 1) * Lockout = l * Lockout + Lockout
  <2>1. /\ Workers \in Nat /\ Allowed(l) \in Nat /\ Allowed(l + 1) = Allowed(l) + Workers
        /\ Allowed(l) >= Limit - 1
        /\ l * Lockout \in Nat /\ (l + 1) * Lockout = l * Lockout + Lockout
    BY Products
  <2> QED BY <2>1
<1>3. /\ Buckets(a)[b] \in Row /\ Buckets(a)[b].failed = bucket[b].failed
      /\ Buckets(a)[b].window = bucket[b].window
  BY DecideFacts, RefreshedRow
<1>4. /\ bucket'[b].window = bucket[b].window
      /\ g + 1 < Limit \/ bucket'[b].blocked = t + Lockout
  BY <1>1, <1>3, FailureWrites
<1>5. PhaseStart(b, l)' = begin /\ PhaseStart(b, l + 1)' = next
      /\ PhaseStart(b, (l + 1) + 1)' = next + Lockout
  <2>1. PhaseStart(b, l)' = begin /\ PhaseStart(b, l + 1)' = next
        /\ PhaseStart(b, (l + 1) + 1)' = PhaseStart(b, (l + 1) + 1)
    BY <1>4 DEF PhaseStart
  <2>2. PhaseStart(b, (l + 1) + 1) = next + Lockout
    BY PhaseTypes
  <2> QED BY <2>1, <2>2
<1>6. bucket[b].blocked <= t
  <2>1. Buckets(a)[b].blocked \in Nat
    BY <1>3, Bounds DEF Row
  <2>2. ~(Buckets(a)[b].blocked > t)
    BY DEF Blocked
  <2> QED BY <1>1, <2>1, <2>2, RefreshedRow
<1>7. /\ late \in Nat /\ late <= Workers /\ later \in Nat /\ later <= late
      /\ t < begin => later < late
      /\ late < Workers /\ MayFollow(b, l) = Workers - late
      /\ MayFollow(b, l)' = Workers - later
      /\ Cardinality(Late(PhaseStart(b, l)))' = later
  <2>1. LateIn(attempt', begin) \in SUBSET LateIn(attempt, begin)
    OBVIOUS
  <2>2. /\ late \in Nat /\ late <= Workers /\ later \in Nat /\ later <= late
        /\ \A x \in LateIn(attempt, begin) \ LateIn(attempt', begin) : later < late
    BY <2>1, LateFacts
  <2>3. t < begin => a \in LateIn(attempt, begin) \ LateIn(attempt', begin)
    BY DEF LateIn, InFlight
  <2> HIDE DEF late, later
  <2>4. /\ late < Workers /\ MayFollow(b, l) = Workers - late
    BY DEF Phase, MayFollow, Late, late
  <2>5. /\ MayFollow(b, l)' = Workers - later
        /\ Cardinality(Late(PhaseStart(b, l)))' = later
    BY <1>5 DEF MayFollow, Late, later
  <2> QED BY <2>2, <2>3, <2>4, <2>5
<1>8. /\ begin <= now /\ l * Lockout < Window
      /\ \/ g < Allowed(l) + (Workers - late)
         \/ g = Allowed(l) + (Workers - late) /\ bucket[b].blocked >= next
  BY <1>7 DEF Phase
<1> HIDE DEF t, g, begin, next, late, later
<1>9. CASE g + 1 < Limit \/ g < Allowed(l) + (Workers - late)
  <2>1. \/ g + 1 < Allowed(l) + (Workers - later)
        \/ /\ g + 1 = Allowed(l) + (Workers - later)
           /\ bucket'[b].blocked >= next
    <3>1. CASE g + 1 < Limit
      BY <1>1, <1>2, <1>7, <3>1, Bounds
    <3>2. CASE ~(g + 1 < Limit) /\ t < begin
      BY <1>1, <1>2, <1>7, <1>9, <3>2, Bounds
    <3>3. CASE ~(g + 1 < Limit) /\ ~(t < begin)
      <4>1. bucket'[b].blocked >= next
        BY <1>1, <1>4, <3>3, Bounds
      <4>2. g + 1 <= Allowed(l) + (Workers - later)
        BY <1>1, <1>2, <1>7, <1>9, <3>3, Bounds
      <4> QED BY <4>1, <4>2, <1>1, <1>2, <1>7
    <3> QED BY <3>1, <3>2, <3>3
  <2>2. later < Workers
    BY <1>2, <1>7
  <2>3. guesses'[b] = g + 1
    BY DEF g
  <2>4. Phase(b, l)'
    BY <1>5, <1>7, <1>8, <2>1, <2>2, <2>3 DEF Phase
  <2> QED BY <2>4
<1>10. CASE ~(g + 1 < Limit) /\ ~(g < Allowed(l) + (Workers - late))
  <2>1. next <= t /\ next <= now /\ bucket'[b].blocked >= next + Lockout
    BY <1>1, <1>4, <1>6, <1>8, <1>10, Bounds
  <2>2. (l + 1) * Lockout < Window
    <3>1. next = bucket[b].window + (l + 1) * Lockout
      BY DEF next, PhaseStart
    <3> QED BY <1>1, <1>2, <2>1, <3>1, Bounds
  <2>3. g + 1 <= Allowed(l + 1) + 1
    BY <1>1, <1>2, <1>7, <1>8
  <2>4. a \notin LateIn(attempt', PhaseStart(b, l + 1)')
    OBVIOUS
  <2>5. /\ guesses'[b] <= Allowed(l + 1) + 1 /\ l + 1 \in Nat
        /\ PhaseStart(b, l + 1)' <= now'
        /\ bucket'[b].blocked >= PhaseStart(b, (l + 1) + 1)'
    BY <1>5, <2>1, <2>3 DEF g
  <2> QED BY <2>2, <2>4, <2>5, PhaseBegins
<1> QED BY <1>9, <1>10

\* Who is through is late for nothing, and the others are as late as before.
LEMMA ThroughIsNotLate ==
    ASSUME NEW a \in Attempt, attempt'[a].pc \notin InFlight,
           \A x \in Attempt \ {a} : /\ attempt'[x].pc = attempt[x].pc
                                    /\ attempt'[x].now = attempt[x].now
    PROVE  \A t : LateIn(attempt', t) = LateIn(attempt, t) \ {a}
BY DEF LateIn

\* The first phase begins with the window.
LEMMA FirstPhase ==
    ASSUME IInv', NEW b \in Bucket, NEW a \in Attempt, NEW t \in Nat,
           bucket'[b].window = t, t <= now',
           a \notin LateIn(attempt', t),
           \/ guesses'[b] = 0
           \/ guesses'[b] = 1 /\ (1 < Limit \/ bucket'[b].blocked = t + Lockout)
    PROVE  Phase(b, 0)'
<1>1. 0 * Lockout = 0 /\ (0 + 1) * Lockout = Lockout /\ 0 * Workers = 0
  BY Products, Bounds
<1>2. PhaseStart(b, 0)' = t /\ PhaseStart(b, 0 + 1)' = t + Lockout
  BY <1>1, Bounds DEF PhaseStart
<1>3. Allowed(0) = Limit - 1
  BY <1>1, Bounds DEF Allowed
<1>4. /\ guesses'[b] <= Allowed(0) + 1
      /\ guesses'[b] <= Allowed(0) \/ bucket'[b].blocked >= t + Lockout
  BY <1>3, Bounds
<1>5. a \notin LateIn(attempt', PhaseStart(b, 0)') /\ PhaseStart(b, 0)' <= now'
  BY <1>2
<1>6. 0 * Lockout < Window /\ 0 \in Nat
  BY <1>1, Bounds
<1>7. \/ guesses'[b] <= Allowed(0)
      \/ bucket'[b].blocked >= PhaseStart(b, 0 + 1)'
  BY <1>2, <1>4
<1> QED BY <1>4, <1>5, <1>6, <1>7, PhaseBegins

\* A refusal writes its buckets as it found them, a failure counts in each of them.
Outcome(a, n, rows) ==
    \/ n = 0 /\ \A b \in attempt[a].hashes : rows[b] = Buckets(a)[b]
    \/ /\ n = 1 /\ ~Blocked(a)
       /\ \A b \in attempt[a].hashes :
             rows[b] = CountFailure(Buckets(a)[b], attempt[a].now)

\* Both keep the count of the guesses, and the phases.
LEMMA CommitKeepsGuesses ==
    ASSUME GuessInv, IInv', NEW a \in Attempt, attempt[a].pc = "decide",
           EndTransaction(a), Finish(a), NEW n \in {0, 1}, NEW rows,
           Write(a, rows), CountGuesses(a, n), Outcome(a, n, rows)
    PROVE  GuessInv'
<1> DEFINE t == attempt[a].now
<1>1. /\ IInv /\ FailuresAreGuesses /\ \A b \in Bucket : InPhase(b)
      /\ now' = now /\ inserted' = {b \in inserted : lock[b] # a}
      /\ bucket' = [b \in Bucket |-> IF b \in attempt[a].hashes THEN rows[b]
                                                               ELSE bucket[b]]
      /\ attempt' = [attempt EXCEPT ![a] = Idle]
      /\ guesses' = [b \in Bucket |->
                        IF b \notin attempt[a].hashes THEN guesses[b]
                        ELSE n + (IF Restarts(a, b) THEN 0 ELSE guesses[b])]
  BY DEF GuessInv, EndTransaction, Finish, Write, CountGuesses
<1>2. /\ t \in Time /\ t \in Nat /\ t <= now /\ now \in Nat
      /\ attempt \in [Attempt -> AttemptRecord] /\ guesses \in [Bucket -> Nat]
  BY <1>1, DecideFacts, Bounds DEF Time
<1>3. \A u : LateIn(attempt', u) = LateIn(attempt, u) \ {a}
  <2>1. attempt'[a] = Idle /\ \A x \in Attempt \ {a} : attempt'[x] = attempt[x]
    BY <1>1, <1>2
  <2>2. attempt'[a].pc \notin InFlight
    BY <2>1 DEF Idle, InFlight
  <2> QED BY <2>1, <2>2, ThroughIsNotLate
<1>4. ASSUME NEW b \in Bucket, b \notin attempt[a].hashes
      PROVE  /\ bucket'[b] = bucket[b] /\ guesses'[b] = guesses[b]
             /\ InPhase(b)'
  <2>1. bucket'[b] = bucket[b] /\ guesses'[b] = guesses[b]
    BY <1>1, <1>4
  <2>2. ASSUME NEW l \in Nat, Phase(b, l)
        PROVE  Phase(b, l)'
    <3>1. /\ bucket'[b].window = bucket[b].window
          /\ bucket'[b].blocked = bucket[b].blocked
          /\ now <= now'
      BY <1>1, <1>2, <2>1
    <3>2. \A u \in Nat : u <= now => LateIn(attempt', u) \subseteq LateIn(attempt, u)
      BY <1>3
    <3> HIDE DEF t
    <3> QED BY <1>1, <2>1, <2>2, <3>1, <3>2, PhaseGoesOn
  <2> QED BY <1>1, <2>1, <2>2 DEF InPhase
<1>5. ASSUME NEW b \in Bucket, b \in attempt[a].hashes
      PROVE  /\ bucket'[b] = rows[b] /\ bucket[b].exists /\ b \notin inserted'
             /\ guesses'[b] = n + (IF Restarts(a, b) THEN 0 ELSE guesses[b])
             /\ Buckets(a)[b] \in Row
             /\ bucket'[b].exists
  <2>1. /\ bucket'[b] = rows[b] /\ bucket[b].exists /\ b \notin inserted'
        /\ guesses'[b] = n + (IF Restarts(a, b) THEN 0 ELSE guesses[b])
        /\ Buckets(a)[b] \in Row /\ Buckets(a)[b].exists
    BY <1>1, <1>5, DecideFacts
  <2>2. bucket'[b].exists
    BY <1>2, <1>5, <2>1, CountFailureFacts DEF Outcome
  <2> QED BY <2>1, <2>2
<1>6. ASSUME NEW b \in Bucket, b \in attempt[a].hashes, Restarts(a, b)
      PROVE  /\ bucket'[b].failed = IF guesses'[b] < Limit THEN guesses'[b] ELSE Limit
             /\ InPhase(b)'
  <2>1. Buckets(a)[b] = NewRow(t)
    BY <1>1, <1>6, DecideFacts DEF Refreshed, Restarts
  <2>2. /\ Buckets(a)[b].window = t /\ Buckets(a)[b].failed = 0
        /\ guesses'[b] = n
    BY <1>5, <1>6, <2>1 DEF NewRow
  <2>3. a \notin LateIn(attempt', t) /\ t <= now'
    BY <1>1, <1>2, <1>3
  <2>4. CASE n = 0
    <3>1. bucket'[b] = Buckets(a)[b]
      BY <1>5, <1>6, <2>4 DEF Outcome
    <3>2. Phase(b, 0)'
      BY <1>2, <2>2, <2>3, <2>4, <3>1, FirstPhase
    <3> QED BY <2>2, <2>4, <3>1, <3>2, Bounds DEF InPhase
  <2>5. CASE n = 1
    <3>1. bucket'[b] = CountFailure(Buckets(a)[b], t)
      BY <1>5, <1>6, <2>5 DEF Outcome
    <3>2. /\ bucket'[b].window = t
          /\ bucket'[b].failed = IF 0 + 1 < Limit THEN 0 + 1 ELSE Limit
          /\ 0 + 1 < Limit \/ bucket'[b].blocked = t + Lockout
      BY <1>2, <1>5, <1>6, <2>2, <3>1, FailureWrites, Bounds
    <3>3. Phase(b, 0)'
      BY <1>2, <2>2, <2>3, <2>5, <3>2, FirstPhase
    <3> QED BY <2>2, <2>5, <3>2, <3>3, Bounds DEF InPhase
  <2> QED BY <2>4, <2>5
<1>7. ASSUME NEW b \in Bucket, b \in attempt[a].hashes, ~Restarts(a, b)
      PROVE  /\ bucket'[b].failed = IF guesses'[b] < Limit THEN guesses'[b] ELSE Limit
             /\ InPhase(b)'
  <2>1. /\ bucket[b].failed = IF guesses[b] < Limit THEN guesses[b] ELSE Limit
        /\ Buckets(a)[b].failed = bucket[b].failed
        /\ guesses'[b] = n + guesses[b] /\ guesses[b] \in Nat
    BY <1>1, <1>2, <1>5, <1>7, RefreshedRow DEF FailuresAreGuesses
  <2>2. PICK l \in Nat : Phase(b, l)
    BY <1>1, <1>5, <1>7 DEF InPhase
  <2>3. CASE n = 0
    <3>1. bucket'[b] = Buckets(a)[b] /\ guesses'[b] = guesses[b]
      BY <1>5, <1>7, <2>1, <2>3 DEF Outcome
    <3>2. \E m \in Nat : Phase(b, m)'
      BY <1>1, <1>3, <1>7, <2>2, <3>1, RefusedPhase
    <3> QED BY <2>1, <3>1, <3>2 DEF InPhase
  <2>4. CASE n = 1
    <3>1. /\ bucket'[b] = CountFailure(Buckets(a)[b], t)
          /\ guesses'[b] = guesses[b] + 1 /\ ~Blocked(a)
      BY <1>5, <1>7, <2>1, <2>4 DEF Outcome
    <3>2. bucket'[b].failed = IF guesses[b] + 1 < Limit THEN guesses[b] + 1 ELSE Limit
      BY <1>2, <1>5, <1>7, <2>1, <3>1, FailureWrites
    <3>3. \E m \in Nat : Phase(b, m)'
      BY <1>1, <1>3, <1>7, <2>1, <2>2, <3>1, FailedPhase
    <3> QED BY <3>1, <3>2, <3>3 DEF InPhase
  <2> QED BY <2>3, <2>4
<1>8. FailuresAreGuesses'
  <2> SUFFICES ASSUME NEW b \in Bucket
               PROVE  /\ bucket'[b].failed = IF guesses'[b] < Limit THEN guesses'[b]
                                                                    ELSE Limit
                      /\ ~bucket'[b].exists \/ b \in inserted' => guesses'[b] = 0
    BY DEF FailuresAreGuesses
  <2>1. CASE b \notin attempt[a].hashes
    BY <1>1, <1>4, <2>1 DEF FailuresAreGuesses
  <2>2. CASE b \in attempt[a].hashes
    BY <1>5, <1>6, <1>7, <2>2
  <2> QED BY <2>1, <2>2
<1> QED BY <1>4, <1>6, <1>7, <1>8 DEF GuessInv

\* So does every step that leaves the buckets alone or deletes them.
LEMMA OthersKeepGuesses ==
    ASSUME GuessInv, IInv', now <= now',
           \A t \in Nat : t <= now => LateIn(attempt', t) \subseteq LateIn(attempt, t),
           \A b \in Bucket :
              \/ /\ bucket'[b] = bucket[b] /\ guesses'[b] = guesses[b]
                 /\ b \in inserted' => b \in inserted
              \/ bucket'[b] = NoRow /\ guesses'[b] = 0
    PROVE  GuessInv'
<1>1. IInv /\ FailuresAreGuesses /\ \A b \in Bucket : InPhase(b)
  BY DEF GuessInv
<1>2. NoRow.failed = 0 /\ ~NoRow.exists
  BY DEF NoRow
<1>3. FailuresAreGuesses'
  BY <1>1, <1>2, Bounds DEF FailuresAreGuesses
<1>4. ASSUME NEW b \in Bucket
      PROVE  InPhase(b)'
  <2>1. CASE bucket'[b] = bucket[b] /\ guesses'[b] = guesses[b]
    <3>1. ASSUME NEW l \in Nat, Phase(b, l)
          PROVE  Phase(b, l)'
      <4>1. /\ bucket'[b].window = bucket[b].window
            /\ bucket'[b].blocked = bucket[b].blocked
        BY <2>1
      <4> QED BY <1>1, <2>1, <3>1, <4>1, PhaseGoesOn
    <3> QED BY <1>1, <2>1, <3>1 DEF InPhase
  <2>2. CASE bucket'[b] = NoRow
    BY <1>2, <2>2 DEF InPhase
  <2> QED BY <2>1, <2>2
<1> QED BY <1>3, <1>4 DEF GuessInv

\* Who starts reads the clock that everybody has read by now.
LEMMA StartKeepsGuesses ==
    ASSUME GuessInv, IInv', NEW a \in Attempt, NEW hashes \in SUBSET Bucket,
           login_starts(a, hashes)
    PROVE  GuessInv'
<1>1. /\ attempt \in [Attempt -> AttemptRecord] /\ now \in Nat
      /\ UNCHANGED <<bucket, lock, inserted, now, guesses>>
  BY Bounds DEF login_starts, GuessInv, IInv, TypeOK, AttemptRecord, Time
<1>2. /\ attempt'[a].now = now
      /\ \A x \in Attempt \ {a} : attempt'[x] = attempt[x]
  BY <1>1 DEF login_starts, Idle
<1>3. \A t \in Nat : t <= now => LateIn(attempt', t) \subseteq LateIn(attempt, t)
  BY <1>1, <1>2 DEF LateIn
<1> QED BY <1>1, <1>3, OthersKeepGuesses

\* An attempt that goes on is as late as it was.
LEMMA GoesOnLate ==
    ASSUME NEW a \in Attempt, attempt[a].pc \in InFlight,
           attempt'[a].now = attempt[a].now,
           \A x \in Attempt \ {a} : attempt'[x] = attempt[x]
    PROVE  \A t : LateIn(attempt', t) \subseteq LateIn(attempt, t)
BY DEF LateIn

\* A new row's window starts at the clock of the attempt that inserts it.
LEMMA GetKeepsGuesses ==
    ASSUME GuessInv, IInv', NEW a \in Attempt, NEW b \in Bucket, get_or_create(a, b)
    PROVE  GuessInv'
<1>1. /\ attempt \in [Attempt -> AttemptRecord] /\ now \in Nat
      /\ bucket \in [Bucket -> Row]
      /\ now' = now /\ guesses' = guesses /\ IInv
  BY Bounds DEF get_or_create, GuessInv, IInv, TypeOK, AttemptRecord, Row, Time
<1>2. /\ attempt[a].pc = "get" /\ attempt'[a].now = attempt[a].now
      /\ \A x \in Attempt \ {a} : attempt'[x] = attempt[x]
  BY <1>1 DEF get_or_create, AttemptRecord
<1>3. \A t : LateIn(attempt', t) \subseteq LateIn(attempt, t)
  BY <1>2, GoesOnLate DEF InFlight
<1>4. CASE bucket[b].exists
  <2>1. bucket' = bucket /\ inserted' = inserted
    BY <1>4 DEF get_or_create
  <2> QED BY <1>1, <1>3, <2>1, OthersKeepGuesses
<1>5. CASE ~bucket[b].exists
  <2> DEFINE t == attempt[a].now
  <2>1. /\ bucket' = [bucket EXCEPT ![b] = NewRow(t)]
        /\ inserted' = inserted \cup {b}
    BY <1>5 DEF get_or_create
  <2>2. /\ bucket'[b] = NewRow(t)
        /\ \A c \in Bucket \ {b} : bucket'[c] = bucket[c]
    BY <1>1, <2>1
  <2>3. /\ FailuresAreGuesses /\ \A c \in Bucket : InPhase(c)
        /\ guesses'[b] = 0
    BY <1>1, <1>5 DEF GuessInv, FailuresAreGuesses
  <2>4. FailuresAreGuesses'
    BY <1>1, <2>1, <2>2, <2>3, Bounds DEF FailuresAreGuesses, NewRow
  <2>5. ASSUME NEW c \in Bucket \ {b}
        PROVE  InPhase(c)'
    <3>1. ASSUME NEW l \in Nat, Phase(c, l)
          PROVE  Phase(c, l)'
      <4>1. /\ bucket'[c].window = bucket[c].window
            /\ bucket'[c].blocked = bucket[c].blocked
            /\ guesses'[c] = guesses[c] /\ now <= now'
        BY <1>1, <2>2
      <4> QED BY <1>1, <1>3, <3>1, <4>1, PhaseGoesOn
    <3> QED BY <2>2, <2>3, <3>1 DEF InPhase
  <2>6. InPhase(b)'
    <3>1. /\ t \in Nat /\ t <= now'
      BY <1>1, Bounds DEF IInv, Progress, AttemptRecord, Time
    <3>2. a \notin LateIn(attempt', t)
      BY <1>2, <3>1 DEF LateIn
    <3>3. bucket'[b].window = t
      BY <2>2 DEF NewRow
    <3>4. Phase(b, 0)'
      BY <2>3, <3>1, <3>2, <3>3, FirstPhase
    <3> QED BY <3>4 DEF InPhase
  <2> QED BY <2>4, <2>5, <2>6 DEF GuessInv
<1> QED BY <1>4, <1>5

\* A transaction that ends without a verdict leaves its buckets as they were
\* committed.
LEMMA RollbackKeepsGuesses ==
    ASSUME GuessInv, IInv', NEW a \in Attempt, Rollback(a),
           attempt'[a].pc \notin InFlight,
           \A x \in Attempt \ {a} : attempt'[x] = attempt[x]
    PROVE  GuessInv'
<1>1. /\ bucket' = [b \in Bucket |-> IF b \in inserted /\ lock[b] = a THEN NoRow
                                                                     ELSE bucket[b]]
      /\ guesses' = guesses /\ now' = now
      /\ inserted' = {b \in inserted : lock[b] # a}
  BY DEF Rollback, EndTransaction
<1>2. \A t : LateIn(attempt', t) \subseteq LateIn(attempt, t)
  BY ThroughIsNotLate
<1>3. now \in Nat /\ \A b \in inserted : b \in Bucket => guesses[b] = 0
  BY Bounds DEF GuessInv, IInv, TypeOK, FailuresAreGuesses, Time
<1> QED BY <1>1, <1>2, <1>3, OthersKeepGuesses

LEMMA SucceedsKeepsGuesses ==
    ASSUME GuessInv, IInv', NEW a \in Attempt, login_succeeds(a)
    PROVE  GuessInv'
<1>1. /\ bucket' = [b \in Bucket |-> IF b \in attempt[a].hashes THEN NoRow ELSE bucket[b]]
      /\ guesses' = [b \in Bucket |-> IF b \in attempt[a].hashes THEN 0 ELSE guesses[b]]
      /\ inserted' = {b \in inserted : lock[b] # a} /\ now' = now
      /\ attempt' = [x \in Attempt |->
                        IF x = a THEN Idle
                        ELSE IF attempt[x].current \in attempt[a].hashes
                        THEN [attempt[x] EXCEPT !.found = FALSE]
                        ELSE attempt[x]]
  BY DEF login_succeeds, EndTransaction
<1>2. attempt \in [Attempt -> AttemptRecord] /\ now \in Nat
  BY Bounds DEF GuessInv, IInv, TypeOK, AttemptRecord, Time
<1>3. /\ attempt'[a].pc \notin InFlight
      /\ \A x \in Attempt \ {a} : /\ attempt'[x].pc = attempt[x].pc
                                  /\ attempt'[x].now = attempt[x].now
  BY <1>1, <1>2 DEF Idle, InFlight, AttemptRecord
<1>4. \A t : LateIn(attempt', t) \subseteq LateIn(attempt, t)
  BY <1>3, ThroughIsNotLate
<1> QED BY <1>1, <1>2, <1>4, OthersKeepGuesses

\* Every step keeps the count of the guesses and the phases.
LEMMA NextGuesses == GuessInv /\ [Next]_vars => GuessInv'
<1> SUFFICES ASSUME GuessInv, [Next]_vars PROVE GuessInv'
  OBVIOUS
<1>1. IInv /\ IInv'
  BY NextInv DEF GuessInv
<1>2. attempt \in [Attempt -> AttemptRecord] /\ now \in Nat
  BY <1>1, Bounds DEF IInv, TypeOK, AttemptRecord, Time
<1>3. ASSUME NEW a \in Attempt, lock_bucket(a)
      PROVE  GuessInv'
  <2>1. UNCHANGED <<bucket, inserted, now, guesses>> /\ attempt[a].pc = "lock"
    BY <1>3 DEF lock_bucket
  <2>2. /\ attempt'[a].now = attempt[a].now
        /\ \A x \in Attempt \ {a} : attempt'[x] = attempt[x]
    BY <1>2, <1>3 DEF lock_bucket, AttemptRecord
  <2>3. \A t : LateIn(attempt', t) \subseteq LateIn(attempt, t)
    BY <2>1, <2>2, GoesOnLate DEF InFlight
  <2> QED BY <1>1, <1>2, <2>1, <2>3, OthersKeepGuesses
<1>4. ASSUME NEW a \in Attempt, lock_raises(a) \/ attempt_dies(a)
      PROVE  GuessInv'
  <2>1. /\ Rollback(a) /\ attempt'[a].pc \notin InFlight
        /\ \A x \in Attempt \ {a} : attempt'[x] = attempt[x]
    BY <1>2, <1>4 DEF lock_raises, attempt_dies, Finish, Idle, InFlight
  <2> QED BY <1>1, <2>1, RollbackKeepsGuesses
<1>5. ASSUME NEW a \in Attempt, login_refused(a)
      PROVE  GuessInv'
  <2>1. /\ attempt[a].pc = "decide" /\ EndTransaction(a) /\ Finish(a)
        /\ Write(a, Buckets(a)) /\ CountGuesses(a, 0) /\ Outcome(a, 0, Buckets(a))
    BY <1>5 DEF login_refused, Outcome
  <2> QED BY <1>1, <2>1, CommitKeepsGuesses
<1>6. ASSUME NEW a \in Attempt, login_fails(a)
      PROVE  GuessInv'
  <2> DEFINE rows == [b \in attempt[a].hashes |->
                         CountFailure(Buckets(a)[b], attempt[a].now)]
  <2>1. /\ attempt[a].pc = "decide" /\ EndTransaction(a) /\ Finish(a)
        /\ Write(a, rows) /\ CountGuesses(a, 1) /\ Outcome(a, 1, rows)
    BY <1>6 DEF login_fails, Outcome
  <2> HIDE DEF rows
  <2> QED BY <1>1, <2>1, CommitKeepsGuesses
<1>7. ASSUME NEW a \in Attempt, answer_error(a)
      PROVE  GuessInv'
  <2>1. /\ UNCHANGED <<bucket, inserted, now, guesses>>
        /\ attempt'[a].pc \notin InFlight
        /\ \A x \in Attempt \ {a} : attempt'[x] = attempt[x]
    BY <1>2, <1>7 DEF answer_error, Finish, Idle, InFlight
  <2>2. \A t : LateIn(attempt', t) \subseteq LateIn(attempt, t)
    BY <2>1, ThroughIsNotLate
  <2> QED BY <1>1, <1>2, <2>1, <2>2, OthersKeepGuesses
<1>8. CASE Tick
  <2>1. UNCHANGED <<bucket, inserted, attempt, guesses>> /\ now <= now'
    BY <1>2, <1>8 DEF Tick
  <2> QED BY <1>1, <2>1, OthersKeepGuesses
<1>9. CASE UNCHANGED vars
  <2>1. UNCHANGED <<bucket, inserted, attempt, guesses, now>>
    BY <1>9 DEF vars
  <2> QED BY <1>1, <1>2, <2>1, OthersKeepGuesses
<1> QED BY <1>1, <1>3, <1>4, <1>5, <1>6, <1>7, <1>8, <1>9, StartKeepsGuesses,
           GetKeepsGuesses, SucceedsKeepsGuesses
        DEF Next, authenticate_login

LEMMA InitGuesses == Init => GuessInv
<1> SUFFICES ASSUME Init PROVE GuessInv
  OBVIOUS
<1>1. IInv
  BY InitInv
<1> QED BY <1>1, Bounds DEF Init, GuessInv, FailuresAreGuesses, InPhase, NoRow

\* The last phase of a window is the one in which its last lockout ends.
LEMMA PhasesBound ==
    ASSUME GuessInv
    PROVE  GuessesAreBounded
<1> DEFINE lockouts == (Window - 1) \div Lockout
<1> SUFFICES ASSUME NEW b \in Bucket
             PROVE  guesses[b] <= Limit - 1 + (lockouts + 1) * Workers
  BY DEF GuessesAreBounded, Workers
<1>1. lockouts \in Nat /\ Workers \in Nat
  BY Products, Bounds
<1>2. guesses[b] \in Nat
  BY DEF GuessInv, IInv, TypeOK
<1>3. CASE ~bucket[b].exists
  <2>1. guesses[b] = 0
    BY <1>3 DEF GuessInv, FailuresAreGuesses
  <2>2. (lockouts + 1) * Workers \in Nat
    BY <1>1
  <2> QED BY <2>1, <2>2, Bounds
<1>4. CASE bucket[b].exists
  <2>1. PICK l \in Nat : Phase(b, l)
    BY <1>4 DEF GuessInv, InPhase
  <2>2. l <= lockouts
    <3>1. l * Lockout < Window /\ l * Lockout \in Nat
      BY <2>1, Products DEF Phase
    <3> QED BY <3>1, Bounds
  <2>3. guesses[b] <= Allowed(l + 1)
    <3>1. /\ Cardinality(Late(PhaseStart(b, l))) \in Nat
          /\ guesses[b] <= Allowed(l) + MayFollow(b, l)
      BY <1>2, <2>1, LateFacts, Products DEF Phase, Late, MayFollow
    <3> QED BY <1>1, <1>2, <3>1, Products DEF MayFollow
  <2>4. (l + 1) * Workers <= (lockouts + 1) * Workers
    BY <1>1, <2>2
  <2> QED BY <1>1, <1>2, <2>3, <2>4, Bounds DEF Allowed
<1> QED BY <1>3, <1>4

\* Throttling is bounded (authenticate_login) for any number of workers, addresses
\* and accounts: what a bucket lets through in a window depends on the workers and
\* the lockouts that fit in, however attempts overtake each other.
THEOREM GuessesStayBounded == Spec => []GuessesAreBounded
BY InitGuesses, NextGuesses, PhasesBound, PTL DEF Spec
=============================================================================
