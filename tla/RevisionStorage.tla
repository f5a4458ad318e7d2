--------------------------- MODULE RevisionStorage ---------------------------
(***************************************************************************)
(* Uploading a complete revision: create_complete_revision and the expiry  *)
(* cleaner of core/services.py over the private file store of              *)
(* core/storage.py.                                                        *)
(*                                                                         *)
(* Bytes and rows cannot be committed together, so every file is first     *)
(* reserved in the database, then written, marked verified, and at last    *)
(* owned by an Artifact row that replaces the reservation.  Every service  *)
(* transaction that touches a reservation holds its row lock; one that     *)
(* also deletes bytes deletes them before it commits.  Writers and         *)
(* cleaners may die at any statement and database calls may fail.          *)
(*                                                                         *)
(* Generated keys are unique, so a key is named by its writer and file;    *)
(* bytes that somebody else left under it are "foreign".                   *)
(*                                                                         *)
(* An operator named <definition>_<Slip> is the definition with a plausible *)
(* mistake in it.  No specification uses it: it shows that a property would *)
(* notice the mistake.                                                      *)
(***************************************************************************)
EXTENDS Naturals, FiniteSets

CONSTANTS Writer,        \* calls of create_complete_revision
          Files,         \* number of files of each
          Cleaner,       \* runs of cleanup_artifact_reservations
          Nobody,        \* holds no row lock
          OverdueDeaths  \* a cleaner may die although a call is overdue

ASSUME StorageAssumption == /\ Files \in Nat \ {0}
                            /\ Writer \cap Cleaner = {}
                            /\ Nobody \notin Writer \cup Cleaner
                            /\ OverdueDeaths \in BOOLEAN

Key == Writer \X (1..Files)
KeysOf(w) == {w} \X (1..Files)

VARIABLES reservation,   \* per key: its StorageReservation row, or NoReservation
          expired,       \* keys whose expires_at has passed
          lock,          \* per key: who holds the reservation's row lock
          pending,       \* keys with bytes in the hidden pending file
          final,         \* per key: the bytes under the final name
          artifacts,     \* keys owned by a committed Artifact row
          writer,        \* per writer: where it is and what it remembers
          cleaner        \* per cleaner: the transaction it is in

rowVars == <<reservation, expired, lock, artifacts>>
fileVars == <<pending, final>>
vars == <<rowVars, fileVars, writer, cleaner>>

NoReservation == [state |-> "absent", cleanup_required |-> FALSE]
Row(state, cleanup_required) == [state |-> state, cleanup_required |-> cleanup_required]

\* file: the one being written, or in cleanup the candidate being looked at.
\* reserved, owns_bytes, uncertain: the _CleanupCandidate list.
Start == [pc |-> "reserve", file |-> 1, reserved |-> {}, owns_bytes |-> {},
          uncertain |-> {}]
Idle == [pc |-> "idle", key |-> <<Nobody, 0>>]

Init == /\ reservation = [k \in Key |-> NoReservation]
        /\ expired = {}
        /\ lock = [k \in Key |-> Nobody]
        /\ pending = {}
        /\ final \in [Key -> {"none", "foreign"}]
        /\ artifacts = {}
        /\ writer = [w \in Writer |-> Start]
        /\ cleaner = [c \in Cleaner |-> Idle]

----------------------------------------------------------------------------
\* Moving a writer on.

CurrentKey(w) == <<w, writer[w].file>>
Goto(w, pc) == writer' = [writer EXCEPT ![w].pc = pc]

\* The exception handler of create_complete_revision: _cleanup_unowned.
Fail(w) == writer' = [writer EXCEPT ![w].pc = "cleanup", ![w].file = 1]

SetReservation(k, row) == reservation' = [reservation EXCEPT ![k] = row]
Unlocked(k) == lock[k] = Nobody

----------------------------------------------------------------------------
\* create_complete_revision, file by file.

\* _reserve_storage_key.  The candidate is remembered before bytes exist.
reserve(w) ==
    /\ writer[w].pc = "reserve"
    /\ \/ /\ SetReservation(CurrentKey(w), Row("reserved", FALSE))
          /\ writer' = [writer EXCEPT ![w].pc = "write",
                                      ![w].reserved = @ \cup {writer[w].file}]
       \/ Fail(w) /\ UNCHANGED reservation
    /\ UNCHANGED <<expired, lock, artifacts, fileVars, cleaner>>

\* FilesystemArtifactStorage.write opens and fills the pending file; somebody
\* else's file of that name is a collision.
write_pending(w) ==
    /\ writer[w].pc = "write"
    /\ \/ pending' = pending \cup {CurrentKey(w)} /\ Goto(w, "install")
       \/ UNCHANGED pending /\ (Fail(w) \/ Goto(w, "collided"))
    /\ UNCHANGED <<rowVars, final, cleaner>>

\* Giving a write up, the pending file goes, or the outcome is uncertain
\* (StorageCleanupRequired).
DropPending(w, pc) ==
    \/ /\ pending' = pending \ {CurrentKey(w)}
       /\ IF pc = "cleanup" THEN Fail(w) ELSE Goto(w, pc)
    \/ UNCHANGED pending /\ Goto(w, "uncertain")

\* Streaming, verification, close or link failed.
write_fails(w) == /\ writer[w].pc = "install"
                  /\ DropPending(w, "cleanup")
                  /\ UNCHANGED <<rowVars, final, cleaner>>

\* os.link: installs under the final name without ever replacing anything.
write_installs(w) ==
    LET k == CurrentKey(w) IN
    /\ writer[w].pc = "install"
    /\ IF final[k] = "none"
       THEN /\ final' = [final EXCEPT ![k] = "own"]
            /\ Goto(w, "settle")
            /\ UNCHANGED pending
       ELSE DropPending(w, "collided") /\ UNCHANGED final
    /\ UNCHANGED <<rowVars, cleaner>>

\* Unlinking the pending name and fsyncing the directory; an error here is
\* StorageWriteCommitted: the bytes are owned, and the call still fails.
write_settles(w) ==
    /\ writer[w].pc = "settle"
    /\ \/ /\ pending' = pending \ {CurrentKey(w)}
          /\ writer' = [writer EXCEPT ![w].pc = "verify",
                                      ![w].owns_bytes = @ \cup {writer[w].file}]
       \/ /\ pending' \in {pending, pending \ {CurrentKey(w)}}
          /\ writer' = [writer EXCEPT ![w].pc = "committed_write",
                                      ![w].owns_bytes = @ \cup {writer[w].file}]
    /\ UNCHANGED <<rowVars, final, cleaner>>

\* StorageReservation.save lets cleanup_required only be set, never cleared.
MayVerify(k) == /\ Unlocked(k)
                /\ reservation[k] = Row("reserved", FALSE)

Verified(k) == SetReservation(k, Row("owned", FALSE))

mark_verified(w) ==
    /\ writer[w].pc = "verify"
    /\ \/ /\ MayVerify(CurrentKey(w))
          /\ Verified(CurrentKey(w))
          /\ IF writer[w].file < Files
             THEN writer' = [writer EXCEPT ![w].pc = "reserve", ![w].file = @ + 1]
             ELSE Goto(w, "commit")
       \/ Fail(w) /\ UNCHANGED reservation
    /\ UNCHANGED <<expired, lock, artifacts, fileVars, cleaner>>

\* The three outcomes that fail the call are recorded first if they can be;
\* an error while recording is swallowed.
record_failed_write(w) ==
    LET k == CurrentKey(w) IN
    /\ \/ /\ writer[w].pc = "committed_write"
          /\ \/ MayVerify(k) /\ Verified(k)
             \/ UNCHANGED reservation
          /\ Fail(w)
       \/ /\ writer[w].pc = "collided"
          /\ \/ /\ Unlocked(k)
                /\ reservation[k].state = "reserved"
                /\ reservation' = [reservation EXCEPT ![k].state = "collision"]
             \/ UNCHANGED reservation
          /\ Fail(w)
       \/ /\ writer[w].pc = "uncertain"
          /\ \/ /\ Unlocked(k)
                /\ reservation[k] # NoReservation
                /\ reservation' = [reservation EXCEPT ![k].cleanup_required = TRUE]
             \/ UNCHANGED reservation
          /\ writer' = [writer EXCEPT ![w].pc = "cleanup", ![w].file = 1,
                                      ![w].uncertain = @ \cup {writer[w].file}]
    /\ UNCHANGED <<expired, lock, artifacts, fileVars, cleaner>>

\* _commit_revision_metadata: all reservations are there, verified and not
\* given up.
AllVerified_Unchecked(w) == \A k \in KeysOf(w) : Unlocked(k)
AllVerified(w) == \A k \in KeysOf(w) : /\ Unlocked(k)
                                       /\ reservation[k] = Row("owned", FALSE)

\* The reservations become artifacts.  The answer to COMMIT may be lost, and
\* the caller then believes that the revision failed.
commit_revision_metadata(w) ==
    /\ writer[w].pc = "commit"
    /\ AllVerified(w)
    /\ artifacts' = artifacts \cup KeysOf(w)
    /\ reservation' = [k \in Key |-> IF k \in KeysOf(w) THEN NoReservation
                                                       ELSE reservation[k]]
    /\ Goto(w, "done") \/ Fail(w)
    /\ UNCHANGED <<expired, lock, fileVars, cleaner>>

\* The owner, the dashboard or a reservation is not what it was; or an error.
commit_refused(w) == /\ writer[w].pc = "commit"
                     /\ Fail(w)
                     /\ UNCHANGED <<rowVars, fileVars, cleaner>>

----------------------------------------------------------------------------
\* Deleting bytes inside a transaction, for the writer and for the cleaner.

\* storage.delete unlinks the final name, then the pending one, then syncs.
\* ok: both are gone.  Otherwise it raised after any part of that.
DeleteBytes(k, ok) ==
    \/ final' = [final EXCEPT ![k] = "none"] /\ pending' = pending \ {k}
    \/ ~ok /\ final' = [final EXCEPT ![k] = "none"] /\ UNCHANGED pending
    \/ ~ok /\ UNCHANGED fileVars

Acquire(k, p) == Unlocked(k) /\ lock' = [lock EXCEPT ![k] = p]

\* The row's fate with the transaction: gone, or kept for a later cleaner.
SettleRow(k, ok) ==
    /\ lock' = [lock EXCEPT ![k] = Nobody]
    /\ IF ok THEN SetReservation(k, NoReservation)
             ELSE reservation' = [reservation EXCEPT ![k].cleanup_required = TRUE]

----------------------------------------------------------------------------
\* _cleanup_unowned, candidate by candidate; a candidate whose transaction
\* fails is skipped.

NextCandidate(w) ==
    writer' = IF writer[w].file < Files
              THEN [writer EXCEPT ![w].pc = "cleanup", ![w].file = @ + 1]
              ELSE [writer EXCEPT ![w].pc = "done"]

\* What the candidate and its row say may be forgotten without touching bytes.
ForgetsRow_IgnoresUncertainty(w, k, i) ==
    \/ k \in artifacts \/ reservation[k].state = "collision"
    \/ i \notin writer[w].owns_bytes
ForgetsRow(w, k, i) ==
    \/ k \in artifacts
    \/ reservation[k].state = "collision"
    \/ /\ i \notin writer[w].uncertain
       /\ ~reservation[k].cleanup_required
       /\ i \notin writer[w].owns_bytes

\* The bytes are this call's own and nobody else was made responsible.
DeletesBytes(w, k, i) ==
    /\ ~ForgetsRow(w, k, i)
    /\ i \notin writer[w].uncertain
    /\ ~reservation[k].cleanup_required
    /\ i \in writer[w].owns_bytes

cleanup_unowned(w) ==
    LET k == CurrentKey(w)
        i == writer[w].file
    IN  /\ writer[w].pc = "cleanup"
        /\ \/ /\ i \in writer[w].reserved
              /\ Unlocked(k)
              /\ reservation[k] # NoReservation
              /\ \/ /\ ForgetsRow(w, k, i)
                    /\ SetReservation(k, NoReservation)
                 \/ /\ ~ForgetsRow(w, k, i)
                    /\ i \in writer[w].uncertain
                    /\ SetReservation(k, [reservation[k] EXCEPT !.cleanup_required = TRUE])
           \/ UNCHANGED reservation   \* no row, kept as it is, or an error
        /\ NextCandidate(w)
        /\ UNCHANGED <<expired, lock, artifacts, fileVars, cleaner>>

cleanup_deletes(w) ==
    LET k == CurrentKey(w) IN
    /\ writer[w].pc = "cleanup"
    /\ writer[w].file \in writer[w].reserved
    /\ reservation[k] # NoReservation
    /\ DeletesBytes(w, k, writer[w].file)
    /\ Acquire(k, w)
    /\ \E ok \in BOOLEAN : /\ DeleteBytes(k, ok)
                           /\ Goto(w, IF ok THEN "deleted" ELSE "delete_failed")
    /\ UNCHANGED <<reservation, expired, artifacts, cleaner>>

cleanup_commits(w) ==
    /\ writer[w].pc \in {"deleted", "delete_failed"}
    /\ \/ SettleRow(CurrentKey(w), writer[w].pc = "deleted")
       \/ /\ lock' = [lock EXCEPT ![CurrentKey(w)] = Nobody]   \* rolled back
          /\ UNCHANGED reservation
    /\ NextCandidate(w)
    /\ UNCHANGED <<expired, artifacts, fileVars, cleaner>>

\* The process is gone: its transaction rolls back, files stay as they are.
ReleaseLocks(p) == lock' = [k \in Key |-> IF lock[k] = p THEN Nobody ELSE lock[k]]

writer_dies(w) == /\ writer[w].pc # "done"
                  /\ Goto(w, "done")
                  /\ ReleaseLocks(w)
                  /\ UNCHANGED <<reservation, expired, artifacts, fileVars, cleaner>>

----------------------------------------------------------------------------
\* cleanup_expired_reservations, one transaction per listed reservation.

\* expires_at passes, 24 hours after the reservation was made.
expire(k) ==
    /\ reservation[k] # NoReservation
    /\ k \notin expired
    /\ expired' = expired \cup {k}
    /\ UNCHANGED <<reservation, lock, artifacts, fileVars, writer, cleaner>>

Listed_SkipsFailed(k) == /\ k \in expired
                         /\ reservation[k] # NoReservation
                         /\ ~reservation[k].cleanup_required

\* The query: expired, and not a reserved row already given up.
Listed(k) == /\ k \in expired
             /\ reservation[k] # NoReservation
             /\ reservation[k] # Row("reserved", TRUE)

\* Rows that are settled without touching bytes.
cleaner_settles(c, k) ==
    /\ cleaner[c] = Idle
    /\ Listed(k)
    /\ Unlocked(k)
    /\ \/ /\ k \in artifacts \/ reservation[k].state = "collision"
          /\ SetReservation(k, NoReservation)
       \/ /\ k \notin artifacts
          /\ reservation[k].state = "reserved"
          /\ SetReservation(k, Row("reserved", TRUE))
    /\ UNCHANGED <<expired, lock, artifacts, fileVars, writer, cleaner>>

Deletable_EvenReserved(k) == k \notin artifacts /\ reservation[k].state # "collision"
Deletable(k) == k \notin artifacts /\ reservation[k].state = "owned"

cleaner_deletes(c, k, ok) ==
    /\ cleaner[c] = Idle
    /\ Listed(k)
    /\ Deletable(k)
    /\ Acquire(k, c)
    /\ DeleteBytes(k, ok)
    /\ cleaner' = [cleaner EXCEPT ![c] = [pc |-> IF ok THEN "deleted" ELSE "failed",
                                          key |-> k]]
    /\ UNCHANGED <<reservation, expired, artifacts, writer>>

cleaner_commits(c) ==
    /\ cleaner[c] # Idle
    /\ SettleRow(cleaner[c].key, cleaner[c].pc = "deleted")
    /\ cleaner' = [cleaner EXCEPT ![c] = Idle]
    /\ UNCHANGED <<expired, artifacts, fileVars, writer>>

\* A call that has outlived the 24 hours of one of its reservations.
Overdue == \E k \in expired : writer[k[1]].pc # "done"

cleaner_dies(c) ==
    /\ cleaner[c] # Idle
    /\ OverdueDeaths \/ ~Overdue
    /\ cleaner' = [cleaner EXCEPT ![c] = Idle]
    /\ ReleaseLocks(c)
    /\ UNCHANGED <<reservation, expired, artifacts, fileVars, writer>>

----------------------------------------------------------------------------
CreateRevision(w) == \/ reserve(w) \/ write_pending(w) \/ write_fails(w)
                     \/ write_installs(w) \/ write_settles(w) \/ mark_verified(w)
                     \/ record_failed_write(w) \/ commit_revision_metadata(w)
                     \/ commit_refused(w) \/ cleanup_unowned(w)
                     \/ cleanup_deletes(w) \/ cleanup_commits(w) \/ writer_dies(w)

CleanExpired(c) == \/ \E k \in Key : \/ cleaner_settles(c, k)
                                     \/ \E ok \in BOOLEAN : cleaner_deletes(c, k, ok)
                   \/ cleaner_commits(c)
                   \/ cleaner_dies(c)

Next == \/ \E w \in Writer : CreateRevision(w)
        \/ \E c \in Cleaner : CleanExpired(c)
        \/ \E k \in Key : expire(k)

Spec == Init /\ [][Next]_vars

\* The cleanup command is scheduled for ever (docs/deployment.md), time passes,
\* and a store that keeps being asked deletes at last.  Nothing is assumed of
\* the uploads.
FairSpec ==
    /\ Spec
    /\ \A k \in Key : WF_vars(expire(k))
    /\ \A c \in Cleaner : WF_vars(cleaner_commits(c))
    /\ \A k \in Key : /\ SF_vars(\E c \in Cleaner : cleaner_deletes(c, k, TRUE))
                      /\ WF_vars(\E c \in Cleaner : cleaner_settles(c, k))

----------------------------------------------------------------------------
WriterStages == {"reserve", "write", "install", "settle", "verify",
                 "committed_write", "collided", "uncertain", "commit", "cleanup",
                 "deleted", "delete_failed", "done"}

\* Types.
TypeOK ==
    /\ reservation \in [Key -> [state : {"absent", "reserved", "owned", "collision"},
                                cleanup_required : BOOLEAN]]
    /\ expired \subseteq Key
    /\ lock \in [Key -> Writer \cup Cleaner \cup {Nobody}]
    /\ pending \subseteq Key
    /\ final \in [Key -> {"none", "own", "foreign"}]
    /\ artifacts \subseteq Key
    /\ writer \in [Writer -> [pc : WriterStages, file : 1..Files,
                              reserved : SUBSET (1..Files),
                              owns_bytes : SUBSET (1..Files),
                              uncertain : SUBSET (1..Files)]]
    /\ cleaner \in [Cleaner -> [pc : {"idle", "deleted", "failed"},
                                key : Key \cup {<<Nobody, 0>>}]]

\* Every artifact of a revision that was ever exposed has its bytes ("Durably
\* store bytes, then atomically expose one complete immutable Revision",
\* create_complete_revision): no cleanup that races the commit, retries, or
\* follows a lost answer takes them away.
ArtifactHasBytes == \A k \in artifacts : final[k] = "own"

\* Bytes this system wrote are always accounted for: an artifact owns them, or
\* a reservation through which a cleaner or an operator finds them.
BytesAreTracked ==
    \A k \in Key : (final[k] = "own" \/ k \in pending)
                       => k \in artifacts \/ reservation[k] # NoReservation

\* Bytes under a key that somebody else wrote are never touched, not by the
\* write that collides, its compensation, or an expiry long after.
ForeignBytesKept == [][\A k \in Key : final[k] = "foreign" => final'[k] = "foreign"]_vars

\* Once an upload has ended, verified bytes that no artifact came to own are
\* removed in the end, however often deleting fails or a cleaner dies half-way.
OrphansAreRemoved ==
    \A k \in Key :
        (/\ reservation[k].state = "owned"
         /\ k \in expired
         /\ writer[k[1]].pc = "done") ~> (final[k] # "own" /\ k \notin pending)
=============================================================================
