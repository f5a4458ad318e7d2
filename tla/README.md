# Agora: a TLA+ verification of its core

Agora (`src/src/agora`) is a Django application that hosts self-contained HTML
dashboards.  Employees sign in to a *portal*, upload a dashboard (one HTML file and
CSV files), publish a revision of it, and decide who else may see it; a separate
*content origin* serves the bytes to whoever holds a short-lived render credential.
All state that matters is in one Oracle database, plus a private directory of files.

This directory holds TLA+ models of the parts whose correctness depends on what
happens when requests, jobs, crashes and administrators interleave, TLC
configurations that check them on small instances, and proofs, checked by TLAPS, that
every safety property the runs check holds for every number of users, dashboards, grants,
uploads, workers and so on; only liveness is left to TLC alone (section 6).  Paths below are relative to `src/src/agora`.

## 1. Inventory

How the system runs: Django workers serve portal and content requests; each service
function of `core/` opens one durable transaction, locks the rows its guards read
(`SELECT ... FOR UPDATE`) and commits or raises.  Triggers of the migrations repeat
many of the checks on every write.  Two commands run from a scheduler:
`cleanup_artifact_reservations` and `process_authorized_open_analytics`.

| Component | State | Operations | What is hard |
|---|---|---|---|
| Accounts (`core/authentication.py`, `User`) | users, active and administrator flags, `auth_version` | bootstrap, provision, disable, enable, reset | administrators acting on each other; the save of a login that holds a stale copy of the row |
| Portal sessions (`portal/views.py`, `authenticate_login`) | a hash of password and `auth_version` per browser | login, logout, reset of the own password | a login is several unlocked statements; a reset of the own password commits before the session is rewritten |
| Login throttle (`LoginThrottle`) | failure count, window start and block per address and per user | failed and successful attempts | two buckets per attempt, rows that disappear, windows and blocks that expire |
| Lifecycle and publication (`core/enhancements.py`, `Dashboard`) | state, pinned revision, release version and time | create, publish, unpublish, archive, restore, delete | times read before locks; what a release version names |
| Viewer grants (`core/access.py`) | grant rows, never reopened | grant, revoke | two ways to open a grant |
| Access requests | one row per dashboard and requester | request, approve, deny, cancel | a transfer that settles a request; archived dashboards |
| Ownership transfer | owner, chain of transfer markers, signed confirmations | sign, transfer | replayed confirmations (A to B to A) |
| Render authorizations (`rendering/authorization.py`) | credential rows bound to versions, grants and ownership epochs | preview, view, resolve, revoke | issuing reads five rows without a lock |
| Viewer state and opens (`core/analytics.py`) | `seen_publication_version`; open rows, rollups, checkpoint | capture, aggregate, purge | opens commit out of id order; a job in bounded batches that may die |
| Revision storage (`core/services.py`, `core/storage.py`) | reservations, pending and final files, artifacts | upload, verify, commit, compensate, clean up | bytes and rows do not commit together; crashes; slow uploads; lost answers |
| Pagination (`core/pagination.py`) | none on the server; the reader's page and its links | next and previous pages | ties, both directions, rows that change between two pages |
| Row locks (every service of `core/`) | the row locks of open transactions | `SELECT ... FOR UPDATE`, guard triggers | two services in each other's way, over rows that depend on who owns what |
| Upload validation (`uploads.py`, `core/uploads.py`, `project_upload`) | temporary files of a request; a process-wide CSV field limit; the state of two streaming parsers | manifest, staging under limits, validation | failures halfway; chunk borders; requests in threads of one process |
| Discovery and queries (`core/discovery.py`, `core/projects.py`, `core/*_queries.py`) | none (read-only) | lists, searches, access state of a link | a dozen queries spell out who may see a dashboard, each in its own joins |
| Tags, favourites, freshness, rename | single rows | set | whom they accept, what they lock |
| Names (`core/names.py`) | none (pure) | normalisation and comparison keys | Unicode |
| Content delivery, headers, settings, redaction, templates | none | | |

What makes each of them correct is what the runs of section 3 check.

Interactions: every other component reads the accounts; publication, grants and
ownership are what a render authorization is checked against, when it is issued and
again on every request for bytes; a published view captures an open and advances the
viewer state in its own transaction; a revision becomes publishable when its metadata
commit turns storage reservations into artifacts.

## 2. Modules and code

| Module | Extends | Models | State ↔ code |
|---|---|---|---|
| `Accounts` | | the services of `core/authentication.py` (`bootstrap_administrator`, `provision_user`, `disable_user`, `enable_user`, `reset_password`) with the rules of `User.save` and its trigger | `users` are the rows of `User`; `is_active`, `is_administrator`, `auth_version` its columns |
| `Sessions` | `Accounts` | `login_view` with the two statements of its `User.save` (`update_last_login`), `logout_view`, `user_reset_password` for the own account: the check of the session, the service, and the new hash in the session, each a step | `sessions` holds, per browser, the user and version its hash was made from, how far a login or a reset is, and what it is about to write |
| `Sharing` | `Accounts` | lifecycle and publication, viewer grants, access requests, ownership transfer with its signed confirmation | `state`, `owner`, `published_revision`, `publication_version`, `last_ownership_transfer` are columns of `Dashboard`; `grants`, `requests`, `transfers` are tables; `confirmations` is every confirmation ever signed |
| `Discovery` | `Sharing` | every query of the portal, and the checks that its services repeat under locks, as sets of dashboards, viewers or requests | no state of its own; favourites, viewer states and tags give or take no access and are arguments, any set of dashboards |
| `Rendering` | `Sharing` | `issue_owner_preview` and `issue_published_view` query by query, `resolve`, `revoke`, the viewer state that a view advances | `credentials` holds the request while it is served and the `RenderAuthorization` row afterwards |
| `Entitlement` | | what the content origin promises, in a page: no owner, grant, epoch or version in it.  `Rendering` implements it (`Promise`, with a refinement mapping) | |
| `RevisionStorage` | | `create_complete_revision` with its compensation, `cleanup_expired_reservations`, and `FilesystemArtifactStorage` under them | `reservation`, `artifacts` are tables; `pending`, `final` are files; `writer`, `cleaner` are the local variables of the calls |
| `Analytics` | | `process_authorized_open_analytics`: aggregation, checkpoint, purge, and the delete trigger | `open` is the raw table with what became of each row; `daily`, `summary`, `snapshot`, `checkpoint` are the rollup tables |
| `LoginThrottle` | | `authenticate_login` around its two buckets, statement by statement | `bucket` is `LoginThrottle`; `lock` and `inserted` are what the database holds for open transactions; `guesses` is a history variable |
| `Pagination` | | `paginate_keyset` and `CursorPage.with_urls`, as a reader follows the links of `_project_workspace` | `table` is what the list's query selects; `page` is the `CursorPage` before the reader; `stable` and `walk` are history variables.  A row is its two ordering columns (`updated_at` descending, `id`) |
| `RowLocks` | | the locking statements of every service that locks dashboards, users, requests or grants, in order, and what the guard triggers lock | `holder` is who has locked a row, `call` the running service and its arguments, `taken` how many of its statements have run; `owner` decides which row a join leads to |
| `UploadPolicy` | | the tables of kinds, media types and names of `uploads.py` | |
| `Uploads` | `UploadPolicy` | `project_upload`, `_build_manifest`, `stage_upload`, `create_upload_revision`: a request from its form to the call of `create_complete_revision`, chunk by chunk | `parts`, `entry`, `chunk_count`, `byte_size`, `total_size`, `temporaries`, `previous_limit` are the local variables of a request; `field_limit` is `csv.field_size_limit`, `limit_holder` its lock |
| `Markup` | `UploadPolicy` | `_HtmlValidator` handler by handler, with its attribute and code checks, `_CssValidator` chunk by chunk | `html`, `css` are the attributes of the two objects; `document` is what they have read |

The `MC*` modules instantiate these for TLC: symmetry sets, constraints, and values that
a configuration cannot write.  `MCSharing` runs `Sharing` with `Discovery`'s invariants;
`MCRequests` runs `Uploads`, `Markup` and `Pagination` side by side, since they share no
variable: one moves while the others are where they started.

Conventions.

* One action is one durable transaction when every row its guards read is locked
  first: such transactions are serial on that row.  Where the code reads without a
  lock, or does something that a rollback does not undo (unlinking a file), each
  statement is an action: logins, credential issuing, uploads, cleaners, and
  attempts that wait in the throttle.
* A refused call (an exception that rolls back) is no step.  Where a refusal
  leaves something behind it is an action (`purge_refused`, `commit_refused`,
  `lock_raises`, `write_fails`).
* Triggers and `save`/`clean` methods are part of the action they guard.
* `AccountsSpec`, the account rules alone, is the abstract specification that
  `Sessions` implements: every write of a login is an account step or none.
  The refinement mapping is the identity on the four account variables.
* `Entitlement` is the abstract specification that `Rendering` implements.  Mapped: the
  contents somebody is entitled to now (`EntitledNow`, which mentions nothing that a
  credential recorded), what each credential shows, and whether it is usable,
  suspended or retired.
* Operators named `<definition>_<Slip>` are the definition with one plausible
  mistake.  No specification uses them.  They document what each property notices.
* Audit rows, messages, display names and formatting are left out throughout.  A
  password, a token or a digest is the identity of what it stands for: two are
  equal exactly when they were made from the same things.

Choices a reader should know of.

* `Sharing` starts with every user provisioned and active (`Accounts` explores how
  they come to be); disabling and enabling go on during the run.
* `published_at` comes from a clock that is read before the dashboard lock is awaited, so
  a publication carries any time up to `clock`; one that is older than the release
  before is refused (`NotBackdated`).
* The credential of a preview is not bound to a lifecycle epoch.  It is refused while
  the dashboard is archived and resolves again after a restore within its lifetime.
  `Entitlement` names this as its one exception: a preview may be *suspended*.
* A cleaner may die anywhere in `RevisionStorage`, also between `storage.delete` and COMMIT,
  and an upload may last any time.  `OverdueDeaths` says whether both may meet: a cleaner
  that dies there although the call whose key it has is past the 24 hours of its
  reservations.  Without that nothing is lost; with it bytes are (section 7).  The
  cleaner's `limit` (100 rows) is not reached in the model.
* `RowLocks` explores calls with any actor and arguments, also ones that the service
  would refuse after locking: it asks what may wait for what, not what is allowed.
* In `Uploads` the views of several requests run in threads of one process
  (`docs/architecture.md:14`, an ASGI server with synchronous views), so they share Python's
  `csv.field_size_limit`.
* An administrator who resets the own password stays signed in in that browser: the handler
  cycles the session key and writes the hash of the copy that the service returned
  (`portal/views.py:1042`).  The reset has committed by then, so the session was superseded for
  a moment and matches again, as `tests/test_authentication.py:1062` wants.
  `NoSessionResurrection` names this exception, and its limit: if the account was disabled,
  enabled or reset once more in between, the session stays dead.
* In `Markup` a tag has at most one attribute, and the text of an inline style or script is one
  reference.  A style sheet is a sequence of symbols (`@`, `import`, `url(`, a
  reference, `)`, `https:`, `//`, a word) that is cut anywhere.  Symbols that begin or end as words
  make longer words when they meet, as in `@importers` or `myurl(`.
* The `\b` of the CSS expressions (`uploads.py:470-490`) sees a boundary wherever the text that
  it is given begins or ends.  So a cut inside a longer word can make the validator refuse
  `@importers` or list the file of `myurl(file)`, which one reading of the whole would
  pass over.  `StyleVerdict` says what is true: nothing gets past the validator because of a cut,
  and whatever it refuses or lists beyond one reading is there as part of a longer word.
* Character references reach `handle_charref` and `handle_entityref`, which `_HtmlValidator`
  does not override (`convert_charrefs=False`, `uploads.py:1042`).  They are ignored, outside the
  root element too, where text is refused; `HtmlVerdict` allows them there.
* `pending_access_requests` of `core/enhancement_queries.py` does not exclude deleted
  dashboards, the one of `core/stewardship_queries.py` does.  They agree (`EveryRouteAgrees`)
  because a deleted dashboard has no pending requests.
* `Analytics` counts time in abstract units.  `Skew` is how far the database clock, by
  which the trigger decides, is behind the application clock, by which the job
  decides.
* `GuessesAreBounded` allows, in one window, `Limit - 1` wrong guesses, and then one by
  each worker for every lockout that fits in the window and once more.  One per worker,
  because an attempt reads the clock before it waits: when a lockout begins, each other
  worker may be past its check with a clock from before.  And that again for every
  lockout, not once in a window: an attempt that is refused for its *other* bucket writes
  this one with its old clock, which may lift the lockout and let another late one through.
  With one address the bound is looser than needed; with two, an additive bound
  (`Limit`, the lockouts, and one for each other worker) is refuted by TLC.

## 3. Runs

Every passing run has `CHECK_DEADLOCK FALSE`: ids, versions and clocks are bounded, so
the models stop when the bounds are used up, which the program does not.

| Run | Checks | Bounds, and why they are enough |
|---|---|---|
| `sessions` | `AdministratorRemains`, `AccountsSpec`, `NoSessionResurrection` | 3 users: two administrators who act on each other and on a third; 2 browsers, so that two logins of one user race; 4 versions: disable, enable and reset of one user during one login, or between the reset of the own password and the renewal of the session |
| `sharing` | `OneActiveGrant`, `OwnerHoldsNoGrant`, `PendingNeverBlocksTransfer`, `ApprovalGivesAccess`, `TransferChain`, `ConsentIsCurrent`, `EveryRouteAgrees`, `OpenOrRequest` | 2 users, owner and other, who change places; 3 grants: granted, revoked and granted again; 3 markers: A to B to A to B, with every confirmation signed on the way at hand; 3 account versions, so that a participant is disabled and enabled in between; one release (`publication` has more), 2 clock values.  The queries look at one viewer at a time, so a bystander would add only their product |
| `publication` | `ReleaseIsPinned`, `SeenNeverGoesBack` | 2 dashboards with 2 revisions, 3 releases, 2 clock values: republishing the same and another revision after a withdrawal, with a late clock; 2 credentials, so that the slower of two views is of an older release.  One user, owner and viewer: grants have the other runs |
| `rendering` | `CurrentMeansEntitled`, `EntitlementSpec` | one credential (credentials do not read each other), 2 users, 2 grants, 2 markers and 2 releases: every right may be lost and regained while the credential is issued or afterwards |
| `storage` | `ArtifactHasBytes`, `BytesAreTracked`, `ForeignBytesKept`, `OrphansAreRemoved` | one upload of 3 files (a first, a middle and a last one), 2 cleaners that may die, with fairness.  Keys of different uploads are disjoint, so a second upload adds only its product |
| `requests` | `NoStrayTemporary`, `PackageWithinLimits`, `ReferencesAreDecided`, `FieldLimitIsOwn`, `HtmlVerdict`, `StyleVerdict`, `PagesAreSlices`, `WalkIsComplete`, `NeverTrapped` | 2 requests, each with a package that keeps the rules or breaks one of them (31 packages, with images and tables referred to, there or missing, and forms in every shape the view knows), files within and above each limit, the HTML file first and last; beside them every HTML document of up to 6 tokens (one more than the token limit) over five tags, an attribute that is a URL and one that is code, and every style sheet of up to 5 symbols (8 kinds) in chunks of at most 2 with a window of 2, so that a construct spans three chunks and a cut severs words; and lists of 4 rows, 2 values that tie, 2 rows to a page: no page to two full ones, every table as a start, any change between any two requests |
| `locks` | `CircularWaitsAreAmongUsers`, `DashboardsSerialise`, `SortedCallsNeverCircle`, `TriggersNeverWait` | any 2 calls of any services, 3 users (two of them administrators, the ordinary one between them in id order), 2 dashboards.  A longer circle needs more calls; that there is none is proved for any number |
| `analytics` | `CountedOnce`, `ViewerWindow`, `EventuallyPurged` | 3 opens of 2 viewers in 2 days, batches of 2: a full batch, a partial one, and an open that commits late; a skew of 2 makes the trigger refuse |
| `guesses` | `GuessesAreBounded` | 2 workers on two addresses and one account, limit 2, window 2, lockout 1, clock to 3: attempts on different addresses overtake each other at the account's bucket; a lockout ends in its window and a window ends |
| `throttle` | `LockoutHolds`, `AttemptsEnd` | 2 workers on one address and one account, with fairness; limit 2, window 3, lockout 1, clock to 4: a lockout ends in its window, a window ends, and an attempt is late by either |
| `storage_lost_bytes` | `ArtifactHasBytes`, violated | one file and one cleaner, `OverdueDeaths` |
| `throttle_answers` | `LoginAlwaysAnswers`, violated | two attempts, one of which succeeds |

Type invariants are proved (section 5) and not run.  Symmetry (of users, workers,
requests and ids, none of which is compared with another) is used only in runs without
liveness.  The constraint `NoRequests` of
`publication` and `rendering` leaves access requests out: an approval opens a grant as
the owner's direct grant does, and requests are in `sharing`.  It prunes no other behaviour,
since requests are read by no other action but the transfer's settlement.

## 4. Fairness

* `RevisionStorage!FairSpec`: `docs/deployment.md` has the clean-up command run on a
  schedule for ever, so an expired row is eventually looked at (weak fairness per
  key), reservations expire, a transaction that has deleted commits or dies, and a
  delete that is tried over and over succeeds at last (strong fairness of the
  successful delete per key, since deaths and failures disable it in between).
  Nothing is assumed of uploads, which may stop anywhere.
* `Analytics!FairSpec`: time passes, the job is started again and again (the same
  schedule, once a minute), and not every run dies before its next batch (strong
  fairness of a batch).  Nothing is assumed of views: an open may never commit.
* `LoginThrottle!FairSpec`: the database grants a row lock in the order of the queue, so
  an attempt that can move infinitely often moves (strong fairness per attempt).
  Deaths are not fair.  No fairness makes an attempt start.

The other modules claim safety only.

## 5. Proofs

Each `*Proofs` module holds the theorems of one component or of components that hang
together, for every number of users, dashboards, grants, releases, credentials, requests,
files, opens, rows, workers and calls, and every value of the bounds.  A theorem assumes
nothing but the assumption of its module:

* the sets of ids exclude their null values, and the bounds are natural numbers, positive
  where the code has a positive setting (`AccountsAssumption`, `SessionsAssumption`,
  `SharingAssumption`, `RenderingAssumption`, `StorageAssumption`, `AnalyticsAssumption`,
  `MarkupAssumption`, `PaginationAssumption`);
* the list of administrators that disable locks is in id order (`RowLocksAssumption`);
* the workers of a process are finitely many (`ThrottleAssumption`);
* a CSV field, which is counted in characters, is no wider than its file, which is counted
  in bytes (`UploadsAssumption`); it is why a parse under the limit `max_file_bytes` never
  raises for a field;
* a file of kind `csv` has that extension, and the absence of an attribute is none that the
  validator looks at (`KindsAssumption`, `NoAttributeAssumption`).

The states add that a list has finitely many rows (`Tables`) and that finitely many grants
were ever given, which is invariant.  `ArtifactsHaveBytes` has the hypothesis `~OverdueDeaths`,
without which it is false (section 7).

| Module | Theorems | Argument |
|---|---|---|
| `AccountsProofs` | `AccountsTypeCorrect`, `AnAdministratorRemains`, `VersionsAdvance` | types and the remaining administrator are inductive together: an actor is an active administrator at the commit (disable locks them all) and cannot be his own target |
| `SessionsProofs` | `SessionsTypeCorrect`, `SessionsKeepAdministrator`, `LoginsRefineAccounts`, `LoginsKeepVersions`, `SupersededForGood` | `SavedVersions` strengthens the types: the version a stale save is about to write is at most one ahead of the row, and if it is, the user is still disabled, because whatever enabled it advanced the version too.  So each save is an account step or changes nothing; sessions name a version, and versions only grow.  `RenewedVersions` says that what a session is about to be renewed with is a version its row has had, so a renewal matches only if the row has not moved since, which is the exception of `SupersededForGood` |
| `SharingProofs` (`Sharing`) | `SharingTypeCorrect`, `AtMostOneActiveGrant`, `OwnersHoldNoGrant`, `RequestsNeverBlockTransfers`, `OwnershipIsOneChain`, `ConsentStaysCurrent`, `ApprovalsGiveAccess`, `ReleasesStayPinned` | `GrantsFollowCreation` and `RequestsFollowPublication` strengthen the types: grants belong to dashboards that exist and pending requests to dashboards that were published once; with `OneActiveGrant`, `OwnerHoldsNoGrant` and `TransferChain` they are one inductive invariant, from which the action properties follow |
| the same (`Discovery`) | `EveryRouteIsTheSame`, `NoDeadEnds` | that the queries agree needs the invariants above: a list that joins the grants shows no dashboard twice because at most one grant is active, the owner's and the viewers' lists do not overlap because an owner holds none, and queries that forget to exclude deleted dashboards find no pending request on one.  What may be asked or cancelled is said by the services' guards (`Requestable`, `Dismissable`), not by `ENABLED` |
| the same (`Rendering`) | `CredentialsTypeCorrect`, `ResolvingMeansEntitled`, `SeenVersionsGrow`, `RenderingRefinesEntitlement` | the strengthening says what a request that has read some of its rows, and a row that was inserted, still share with the tables they were copied from: a version that is still the dashboard's names the same revision, an epoch that is still the tip has the same owner.  A credential that stopped is then retired for good, because release versions and epochs only move on and a grant is never reopened |
| `PackageProofs` (`Uploads`) | `TemporariesAreClosed`, `AcceptedPackagesFit`, `ReferencesNeedTheirFiles`, `FieldLimitsAreOwn` | `InOrder` says of a request how far it has come: which temporaries are open, that its counters are the running totals of the files and chunks before, that the references read so far are decided against the whole manifest.  It speaks of one request's own variables, so the others keep it; only the field limit is shared, and its lock's holder is the one request that parses.  That the running totals (`Sums`) exist and grow is proved with least counterexamples |
| the same (`Markup`, style sheets) | `StyleSheetsAreReadThrough` | a lemma about texts, `ReadingThroughASeam`: let the tail be what follows the first `o` symbols.  Whatever the whole text has of imports, external URLs and `url(...)` lies in the tail and the new chunk, or in the text before, or `url(...)` is longer than the window (`PairsThroughASeam`, `NothingSlipsThroughASeam`).  A prefix keeps word beginnings and a suffix only adds some (`PrefixesOpenAlike`, `SuffixesOpenMore`), so a reading of the parts finds at least what a reading of the whole does.  Conversely whatever a part has is in the whole, up to the words around it (`GluedFilesStay`).  The invariant says the tail is such a suffix, and what was listed is right |
| the same (`Markup`, HTML) | `TheStackDecides` | the property is in terms of the whole document (how many elements are open before a token, which of them is innermost), the validator has a stack and flags.  `Follows` relates them: each element of the stack was opened by a token, at its depth, and has been open since; the flags say which tags were met.  A new token is right for the document exactly if the handler does not refuse it (`DataIsRight`, `CharrefIsRight`, `EndIsRight`, `DeclarationIsRight`, `StartIsRight`), the tokens before it stay right, and the stack follows again |
| the same (`RevisionStorage`) | `StorageTypeCorrect`, `BytesAlwaysTracked`, `ArtifactsHaveBytes`, `ForeignBytesUntouched` | an invariant per key relates the row, the files, the lock and the call: the row follows the call (`RowFollowsCall`), the call knows what is under its key (`CallKnowsBytes`), so does the row (`RowKnowsBytes`), and the lock is held by whoever is about to commit (`LockIsHeld`).  `BytesStay` is the part that needs cleaners not to die on an overdue call, and only `ArtifactsHaveBytes` assumes it |
| `RowLocksProofs` | `LocksTypeCorrect`, `CircularWaitsAmongUsers`, `CallsAboutADashboardSerialise`, `SortedCallsNeverWaitInACircle`, `TriggersLockNothingNew` | `LocksInv`: a call holds exactly the rows of the statements it has run.  A call about a dashboard locks its row first, so a call that waits for a dashboard holds nothing, and one that waits for a request or a grant holds the dashboard without which nobody else can have locked it; neither can be in a circle.  A commit that changes the owner rewrites only plans that are stuck before their first row.  Of transfers alone, and of disables alone, one that waits for a user holds only smaller ones, so in a circle there would be no least user waited for.  Circular waits are sets of calls each of which waits for another of the set, so their length does not matter |
| `AnalyticsProofs` | `AnalyticsTypeCorrect`, `OpensAreCountedOnce`, `WindowsAreExact` | `CountedOnce` is inductive beside `TypeOK`: a batch is disjoint from what was counted before, so each rollup grows by the cardinality of its share; the first and last opens of the union of two batches are the lesser and the greater of the two.  That a finite set of numbers has a least and a greatest element follows from the well-foundedness of inclusion |
| `LoginThrottleProofs` | `ThrottleTypeCorrect`, `LockoutsHold`, `GuessesStayBounded` | `Progress` (how far an attempt is, and that a row whose id it holds exists until a success deletes it) and `Rows` (only committed rows are blocked) strengthen the types; the lockout then blocks every attempt that holds the bucket, because no attempt's clock is ahead.  For the bound a window is cut into phases as long as a lockout: within one, each worker guesses with a clock from before it at most once, and a guess with a later clock locks the bucket for the rest of it |
| `PaginationProofs` | `WalksAreComplete`, `NobodyIsTrapped`, `PagesAreTheSlices` | the order of the rows is total, so the rows before one are an initial segment, whose cardinality is its rank; the first page after a boundary is the slice that begins at the boundary's rank.  A walk has shown the rows between where it began and what it has reached, each once, since every page begins beyond the boundary of the last.  While the list rests the boundary of a link is a last or first row of a slice |

## 6. Model-checked only

Liveness (`OrphansAreRemoved`, `EventuallyPurged`, `AttemptsEnd`) is out of the prover's
reach and checked by TLC on the instances of section 3.  Everything else that a passing
run checks is stated by a theorem of section 5.  The prover cannot use `ENABLED`, induct
with a theorem that takes an operator, or reason about `RECURSIVE` operators either: no
module here has the first or the last, and inductions over numbers are done by least
counterexamples.  That the windows and bounds of the theorems are those of the deployed
settings is not stated: the theorems hold for all.

## 7. Findings

* *Lost bytes* (`storage_lost_bytes`).  `create_complete_revision` promises to "durably
  store bytes, then atomically expose one complete immutable Revision"
  (`core/services.py:87`).  The cleaner unlinks the file inside its transaction
  (`core/services.py:201`).  If it dies before COMMIT the row comes back as verified;
  an upload that has been running for 24 hours then commits a revision one of whose
  artifacts has no bytes.
* *A login without an answer* (`throttle_answers`).  `authenticate_login` promises
  "generic failure and bounded throttling" (`core/authentication.py:67`).  It finds a
  bucket and locks it by id in the next statement (`core/authentication.py:267`); a
  concurrent success from the same address deletes it in between, and the attempt
  ends in `DoesNotExist`, which nobody handles.

## 8. Not modelled

* Of upload validation: HTML comments that are never closed, the words of inline
  scripts, stray `<` in text, CSS escapes and the text of a CSV.  They are decided
  character by character; what follows from each verdict is modelled.  The inline styles
  of a document, elements and attributes, share one `_CssValidator`, whose tail runs from one
  into the next; here each is read by itself.
* Several requests of one browser at a time (a session is stored when its request ends).
* The Unicode rules of names, SOEIDs and tags; forms, messages and templates.
* The rows that tags, favourites, freshness and rename write, which nothing else reads.
* `visible_project` reads in two queries; each is right by itself (`EveryRouteAgrees`).
* The ordering, prefix matching and limits of the lists, apart from keyset pages; the
  encoding, signature and age of a cursor; the read queries of analytics.
* Settings, entry points, response headers, log redaction and the delivery of bytes
  keep no state; what delivery asks of a credential is `AuthorizationIsCurrent`.
* Of the migrations, the guard triggers are modelled with the writes they guard; the
  schema steps are not.

## 9. Plan

The most important behaviour, who may see which content, came first; uploads, row
locks, the queries and the abstract specification of entitlement followed, then the proofs.
Next:

1. The read queries of analytics against its rollups.
2. `Uploads` composed with `RevisionStorage`: a package is stored as it was staged.
3. An abstract specification of `RevisionStorage` (a revision appears whole, or not at
   all, and what does not appear goes away) with a refinement proof of its safety part.
