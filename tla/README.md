# TinkerCloud in TLA+

TLA+ models of TinkerCloud's server, the TLC runs that check them on small
instances, and TLAPS proofs of the properties that matter most. Every definition
is translated from the Go source; `PROJECT.json` maps each one to its lines.

## 1. The system

TinkerCloud hosts small web applications on one machine: one Go process
(`cmd/tinkercloud`), one SQLite database, and directories for releases, uploads,
blobs and per-application databases. Deployers upload archives through the
control API, activate them and set who may see them. Viewers sign in with a
one-time code and are served static files, a key-value store, collections, blobs,
an LLM endpoint and live channels.

| Component | State | Operations | Talks to |
|---|---|---|---|
| Deployments and releases (`deployments`, `releases`, `uploads`, `persistence/deployments.go`) | deployment rows, release directories named by content, current pointer, audit rows, a mutex per application | CreateDeployment, Upload, Finalize, Activate, ActivationReplay, RecoverStartup | policies, live hub (revocation), cleanup and deletion through the same directories |
| Retention cleanup (`jobs`, `persistence/cleanup.go`) | lease, selection | select surplus contents, remove directories | release directories, without the activation mutex |
| Application lifecycle (`persistence/control_adapter.go`) | applications row | SetAppStatus, ReplaceAccess, DeleteApp | all of the above, live hub |
| Access policies (`policies`) | policy rows with revision and mode | evaluate, compare-and-swap | gateway, activation |
| Gateway and authorization (`gateway`, `appauth`, `sessions`) | none of its own | resolve the app, validate the session, read the policy | live upgrade, static files, app API |
| Live hub (`live`) | connections, subscriptions, publish windows, outbound queues | Attach, subscribe, publish, fan-out, Revoke | data services publish committed changes; authority changes revoke |
| Identity broker (`compose/identity_broker.go`, `persistence/global_identity.go`) | challenges, handoffs, identity families with rotating secrets, app sessions | request and verify a code, hand over, switch account, sign out | gateway, live hub |
| Control login and tokens (`persistence/control_login.go`, `tokens.go`, `deployers.go`) | accounts, codes, bearer tokens | request and verify a code, mint, revoke, replace the allowlist | control API, CLI |
| Key-value store, collections, app databases (`kv`, `collections`, `persistence/app_database.go`) | versioned rows, revisions, quotas, one connection per database | conditional writes, list, snapshot, remove | live hub, deployer data access |
| Deployer data access (`persistence/control_data.go`) | intents in the audit table | intent, mutation, outcome, replay | app databases |
| Blobs (`blob`, `persistence/blob.go`) | catalog rows and files | upload, open, list, delete, reconcile | application deletion |
| LLM chat (`llm`, `persistence/llm.go`) | rate table, usage, reservations, profiles | admit, call, settle, edit | provider |
| Update (`update`, `cmd/tinkercloud/update_command.go`) | binary, copy, lock, schedule | apply, restart, check, roll back | service manager |
| Rate limits (`ratelimit`, `kv`) | buckets of recent admissions, bindings of transactions | admit in all buckets or refuse, prune, bind | identity broker, control login, key-value store |
| Write gate (`operations`) | watermarks | allow or refuse | uploads, data writes |
| Client, emulator, SDK (`client`, `cmd/tinker`, `sdk/typescript`) | credential file, subscriptions | login, deploy, follow a collection | the control and app APIs |

What is hard to test in it: SQLite transactions are atomic, but nearly every
operation is a transaction, then filesystem work, then another transaction;
requests run concurrently, retry with the same idempotency key, and are
cancelled between any two of these; a crash keeps the database and the files and
loses everything else; and several paths read a row early and use it late. The
`hazards` of `PROJECT.json` list each such place with the properties that watch
it.

What makes each part correct:

* Deployments: pointer, row states, policy mode and bytes on disk agree, in every
  interleaving and after every restart; public exposure was acknowledged; a
  receipt tells the truth; requests end.
* Cleanup: removes exactly the surplus, never what is live, and leaves a release
  to recover to.
* Deletion: ends with nothing left, can be retried, and never restores access.
* Live: limits hold, an answered revocation has cut off everyone it concerns,
  nobody silently misses a message, nothing leaks or waits for ever.
* Identity: a code and a handoff are used once; a login replaces the browser's
  older one and no newer one; a revoked family leaves no session, handoff or live
  connection behind; a sign-out that reports success is complete.
* Control plane and CLI: what was removed stays removed, a suspended application
  has no token, an application becomes public only when a person said so, and what
  a command reports is true.
* Gateway: nothing is granted on what was no longer true when the request began.
* Data: no lost update, a retried call takes effect once, a removed database stays
  removed, a page that follows a collection catches up with every hint.
* Blobs: listed means readable, and what was acknowledged stays, as far as the
  errors `Reconcile` takes for damage allow. LLM: the ledger balances, and concurrent
  chats respect the quota with what they reserve.
* Rate limits: no budget is exceeded within a window, in whatever order requests are
  handled, and no flood of keys grows the tables or makes them forget.
* Update: no copy to go back to means a binary that passed the gates.

## 2. Plan

The models are split by the state they own; what two of them share is modelled in
one and abstracted in the other by what the first guarantees:

* `Releases` → `Deployments` (→ `ReleasePointer`, its abstract specification),
  `CleanupPlan` for the selection `Deployments` takes as an operator.
* `Gateway` uses what `ReleasePointer` promises: release and mode change together.
  `AppData` composes `Gateway` and `AppStore` with the owner's calls, a following
  browser and the deletion of the application.
* `Live` has the upgrade of a connection and everything after it; `Identity` keeps
  of it the set of sessions that hold a connection.
* `Client` composes the CLI with `ControlAuth`.
* `Blobs`, `Llm`, `Update` and `RateLimits` stand alone.

One run per module group carries its safety properties; liveness is in `progress`,
`live` and `blobs`. Every safety property of the runs is a theorem too (section 6). Left,
in order of worth: an abstract specification of `Identity` (who is signed in where)
and the refinement of it; the ranking functions behind the liveness properties, of
which only the steps can be proved; the connection of `BlobRepository.List` as state.

## 3. Modules

| Module | Models |
|---|---|
| `Releases` | pure: the transition table of `releases.Transition`, `deployments.Recover`, `Repository.Fail`, the retention rule of `jobs.Cleanup` |
| `CleanupPlan` | the two loops of cleanup selection: grouping rows in cursor order (`CleanupCandidates`), sorting and scanning (`jobs.Cleanup`) |
| `Deployments` | one application's releases: uploads, activations, access rules, cleanup, deletion, crash, recovery |
| `ReleasePointer` | abstract: what owner and viewer may rely on |
| `Live` | one application's live hub with the gateway's authorization in front of it |
| `Blobs` | one application's blobs: catalog, directory, uploads, deletions, reconciliations, deletion of the application, crash |
| `Identity` | browser sign-in: broker, codes, families, handoffs, app sessions |
| `Gateway` | a request to an application host, read by read, under changes of authority |
| `AppStore` | pure: the transactions of the key-value store and of collections |
| `AppData` | extends both: viewers' data requests, the owner's calls, a following browser, deletion, restart |
| `ControlAuth` | the control plane's accounts, codes, tokens and one application |
| `Client` | extends it: commands of the `tinker` CLI |
| `Llm` | the chat capability of one application |
| `Update` | the root commands that replace the server's binary |
| `RateLimits` | the sliding windows in front of codes, handoffs and the key-value store |
| `MC...` | instances for TLC |
| `DeploymentsProofs` | theorems of `Deployments` (with the refinement of `ReleasePointer`) and `CleanupPlan` |
| `LiveProofs`, `BlobsProofs`, `IdentityProofs`, `UpdateProofs` | theorems of the module each is named for |
| `AppDataProofs` | theorems of `AppData` with `Gateway` and `AppStore` |
| `ClientProofs` | theorems of `Client` with `ControlAuth` |
| `LimitsProofs` | theorems of `RateLimits` and `Llm` |

### Deployments

*State.* `appStatus`, `current`, `policy`, `state`, `submission`, `audit` and
`publicGate` are columns of the database. `dir` is the content of
`releases/<app>/<hash>`: absent, partial (being removed) or complete; contents are
shared by uploads with equal hashes, as in the code. `upload`, `act`, `cleaner`
and `deleter` are the goroutines, `lock` the application's mutex in
`deployments.Service`, `editor` an owner's read of the rules before a
compare-and-swap, `budget` what is left of the external events.

*Grain.* Each `SQLiteStore.Write` transaction and each filesystem effect others can
observe is one step. Reads outside a transaction are steps of their own whose
results are carried in the request's record (`st`, `old`, `seen`).

*Uploads.* `AdmitUpload` … `PersistVerified` follow `CreateDeployment` and
`Service.Upload`; `Repository.Create` overwrites the state of an existing row
blindly (`UploadWrites`), so that only the order of steps keeps a row on the
transition table. `FinalizeInspect` and `FinalizeRename` are the two looks at the
destination in `releases.Finalize`. `FailUpload` is an error path with
`Repo.Fail`, `AbandonUpload` one whose write is lost or which has none.

*Activation.* `ActivateBegin` is the control adapter's lookup, `CheckReplay`
`Service.ActivationReplay`, `EnterActivation` … `ProbeCandidate` the part of
`Service.Activate` under the mutex, `CommitActivation` the transaction that swaps
the pointer, supersedes the old row, installs the manifest's policy and writes the
audit row. Probe and certificate outcomes are choices (`AbortActivation`).

*Abstractions.* An archive is its content hash; its manifest is the access mode
`ModeOf[hash]`; access rules are a revision, a mode and whether an activation or
an owner installed them. Archive validation has two outcomes. One application:
directories, mutex and rows are keyed by application throughout.

### ReleasePointer

At most one version is live, a version goes live at most once, every change of
what is live or of who may see it takes exactly one new policy revision, an
application that was taken down or is being deleted never publishes. The
refinement maps `phase` to `appStatus`, `live` to `current`, `rev` and `mode` to
the policy, `published` to the versions with an activation on record.

### Live

*State.* `hub` is `Hub.connections`, `subs` their subscriptions, `transport` and
`queue` the `wsTransport`, `conn` the handler goroutine of each upgrade, `fan` the
targets a publisher has still to send to, `closer` a `Hub.close` in progress,
`admin` a change of authority and the connections its `Hub.Revoke` still has to
close. `up`, `revision`, `allowed` and `valid` stand for the database. `lost` and
`admin.must` are history.

*Grain.* What runs under `Hub.mu` is one step. Sending, closing a transport and
each of the gateway's three reads are steps of their own, as none of them is under
the mutex.

*Handlers.* `ResolveActive`, `ValidateSession`, `ReadPolicy` are the gateway;
`Accept` and `Attach` the upgrade; `ReadFrame`, `Subscribe`, `Unsubscribe`,
`Publish` the reader loop; `Detach` and `Return` the deferred calls. `WriteLoop`
and `PeerSilent` close the transport without telling the hub, as `writeLoop` and
`watchLiveness` do. A frame is what it asks for; its syntax, and the window that
limits publications per second, are choices that end the connection.

### Blobs

*State.* `row` is `app_blobs.state`, `file` and `temp` the installed and the staging
files of the application's directory, `status` its row, `lock` its mutex in
`BlobRepository`. `up`, `del` and `rec` are the goroutines in `Upload`, `Delete` and
`Reconcile`, `purge` a `DeleteApp` between its first and last transaction.
`serving` is false from a crash until startup has reconciled. Four variables are
history: `kept` is what was acknowledged and neither deleted nor damaged, `selected`
what a reconciliation selected in its first phase, `doubted` what one could not open
although row and bytes agreed, `unhidden` what one could not hide before it removed
the bytes.

*Grain.* Each statement or transaction and each effect on the directory is one
step. `Upload` and `Delete` hold the mutex throughout; `Reconcile` only around the
removal of one blob, so that its pages of rows and keys, and what it saw when it opened
the blob, may be stale when it acts on them. It
runs at startup and, for all applications, whenever one of them is deleted
(`PurgeOther`, `DeleteApp`).

*Failures.* `PutFails` and `CommitFails` are the error paths of `Upload`; undoing
them may fail too (`ForgetRow`, `DiscardBytes`), and those errors are ignored as in
the code. `RecFails` ends a reconciliation at every statement and file operation whose
error it returns. Two errors it does not return: `OpenErrs` is an `Open` that fails for
a reason of its own (a cancelled request, the database, no file handle), on which the
second and third phase go on to remove the blob as if it were damaged, and `MarkErrs`
the UPDATE that should hide the row in the second phase, whose error is discarded before
the bytes are removed. `Crash` ends everything.
`Damage` alters bytes of a ready blob; it happens while requests are served, since
no check at startup can see what happens after it.

*Abstractions.* An id is used by one upload, as the code draws random ids. Bytes
are absent, as recorded, or altered; the byte quota is counted in blobs. A page
of `Reconcile` holds everything selected (the code takes pages of `LIMIT 256` and
repeats). `Open` for a viewer changes nothing. Left out: `List`, which tries to
hide a blob whose bytes do not match. Its cursor still holds the only database
connection then, so that this transaction waits, with the mutex, until the request's
context ends; the connection has to be state before this can be checked.

### Identity

*State.* `fam`, `handoff`, `chal` and `sess` are the tables; a family's secret is a
number, of which the row holds the current one and, for the overlap, its
predecessor. `jar` holds the cookies of a browser, `tab` the request in flight in
each of its tabs with the cookies it was sent with, `open` the app sessions with a
live connection.

*Grain.* Each transaction is a step. A handler is a chain of steps (`identityPage`,
then `AuthorizeIdentityHandoff`), which interleave with those of the other tab; the
sessions to close are closed (`RevokeChildren`) after the commit and before the
reply, and the cookies of a reply arrive (`Deliver`) later or never (`Fail`).

*Handlers.* `identityPage`, `requestOTP`, `verifyOTP`, `useAnother`, `AppLogin`,
`AppCallback` are the sign-in of an application; `platformLoginPage`,
`platformDashboard`, `platformRequestOTP`, `platformVerifyOTP`, `platformLogout`,
`logoutTo` that of the dashboard. `AuthenticateViewer` and `AuthenticatePlatform`
are the catalog and the dashboard presenting an identity. A handler spans at most one
`Tick`, as requests are short beside the lifetimes.

*Abstractions.* Identifiers and secrets are drawn in order. Mail is a flag on the
challenge. A wrong code costs an attempt whatever it is.

### Gateway, AppStore, AppData

*State.* `Gateway` has the authority (`status`, `active`, `mode`, `admits`, `gate`,
`session`) and the requests; `held` is a history of everything that was true at some
moment of a request. `AppData` adds the database `db`, whether its file exists, is
open or removed, who holds its only connection, the owner's attempts and the
intents on record, a deletion in progress and a browser that follows a collection.

*Grain.* A request resolves the release, reads the mode, the gate, the session and
the policy in separate steps. A data request takes the connection, commits
(`AppStore` gives answer and new contents), then publishes the hint. An owner's call
is an intent in the control database, the mutation, the outcome, the hint; `Crash`
falls between any two of them and `Reconcile` is what a repeated call does about an
intent without outcome. An intent for an application whose row is gone is refused, as
`audit_events.app_id` is a foreign key (`persistence/sql/0001_v1_schema.sql:15`).

*Follower.* `refresh` and `Settle` are the loop of the SDK's `subscribe`: one refresh
at a time and a mark for hints that come meanwhile. `ListDocuments` and
`ListRevision` are the two statements of a snapshot; `failed` marks a browser whose
last snapshot failed, which is not tried again.

*Abstractions.* A value is its size. A document id is drawn once. The policy admits
the viewer or does not. Rates are left out.

### ControlAuth, Client

*State.* `users`, `tokens` and `challenges` are tables, `app` the application's row
with its mode and live release, `page` the allowlist an operator has open. `store` is
the credential file, `cmd` the commands, `release` what became of each upload.
`epoch` (of accounts and tokens) and `confirmed` are history.

*Grain.* A request that writes is two steps, as `AuthenticateControl` and the handler
are two transactions; its answer may be lost (`Lose`). With `AuthFaults` admission may
fail in the database, which the server answers like a bad bearer. The commands are
functions from answer to next request (`AfterCheck` … `AfterDeploy`), each with
every early exit of the code.

*Abstractions.* Scopes, expiry and the command's checks of JSON are left out. A
deploy is one upload and one activation; the server's side of both is in
`Deployments`, here only its outcome.

### CleanupPlan

The rows are read one by one into groups by content; then the groups are scanned from
the newest to the oldest (`NewerGroup`), counting the inactive ones. The sorted slice of
the code is the set of groups still to be scanned, of which the newest is next.

### Llm

`Complete` is the chain `AdmissionLimits`, `reserveRate`, `Admit`, the provider,
`Reconcile`. The rate table is in memory and pruned as in the code (`Table`); `usage`
and `res` are tables, by month. Limits read before the reservation are compared after
it (`sameLimits`). Operators edit hosts, policies, connections and profiles in
between. `lost` is history: chats whose settlement failed or whose process died.
Tokens are counted in ones. A provider reports any output up to the profile's maximum,
whatever the request asked for, and any input up to the bound `MaxReported`, since
`Complete` checks nothing else of it and the reservation only estimates it. No name
of the module is one of `RateLimits`, so that one proof module can extend both.

### Update

`file` and `prev` are the binary and its copy, `run` what the service runs; every
rename, restart and check is a step, between which a command may be killed and the
service may be started anew. `Fails` says which gates a version fails, `Signed`,
`Compatible`, `Listed` and `Prerelease` what a release is. `proven` and `overwritten`
are history.

### RateLimits

*State.* `buckets` is the Limiter's table of all its kinds together with the table of
`kv.Service`; a key without events is not in the table, as the code deletes empty
buckets. An event carries its place in the order of appending (`n`) and the time it
was given (`at`), so a set of events stands for the slice. `bound` are the bindings of
transactions. `granted` and `seq` are history.

*Grain.* A request reads the clock, and later decides under the mutex in one step:
prune, check every bucket, append to all or none. Entering a code takes the mutex
twice and reads the clock twice. Others may decide in between with a later clock.

*Abstractions.* Digests are their arguments, strings are model values, the browser
hints of a fingerprint are the browser. The clock does not go back (Go's monotonic
reading), and the model is of one run of the process, which starts with empty tables.
The fixed window of `blob.Service` is left out.

## 4. Runs

| Run | Checks | Instance |
|---|---|---|
| `activation` | `CurrentIsActive`, `PublicWasAcknowledged`, `ReceiptIsCommitted`, `ActiveReleasePresent` | 2 uploads, 2 contents (one private, one public), with and without acknowledgement, 2 concurrent requests with 2 request ids, and one crash, gate change or suspension |
| `deletion` | `TransitionsFollowTable`, `NoLostPolicyUpdate`, `ImplementsReleasePointer` | 2 uploads, 2 contents that may be shared, 1 request, and 2 deletions, 1 cleanup run and 1 crash, or 1 edit and 1 suspension |
| `progress` | `ActivationTerminates` | 1 upload, 2 requests, 1 crash, 1 suspension, with fairness |
| `cleanup_plan` | `PlanIsSurplus`, `RecoveryReleaseRetained` | every assignment of 3 rows to 3 contents, 2 times and live or not, every cursor order, retention 0, 1, 2 |
| `live` | `RevocationIsComplete`, `NoSilentLoss`, `RevokedNeverPublishes`, `ClosedLeavesHub`, `RevocationEnds` | 1 connection for 1 place, 2 writers, one channel, prefix and collection, queue of 1, 2 events, 2 changes of authority, with fairness |
| `blobs` | `ReadyHasBytes`, `LostOnlyIfSelected`, `DeletionLeavesNoBlob`, `RestartIsClean`, `ReconcileEnds` | 2 uploads for 1 place, 2 goroutines that reconcile, seven budgets: crashes with failing steps and damage, deletion with retry, suspension, and purges alone, beside a crash or a deletion with a failing step, or with three failing steps of a reconciliation (an `Open`, the UPDATE, and what follows); with fairness |
| `identity` | `OneLoginPerBrowser`, `RedeemedOnce`, `SignOutIsComplete`, `NewerLoginWins`, `RevokedIsClosed` | 1 browser with 2 tabs, 2 addresses (one with a role), 1 application, 2 families, 2 codes, 1 handoff, 3 ticks, 4 requests and one lost reply, forgotten cookie, new policy or crash |
| `app_data` | `NoStaleGrant`, `OncePerKey`, `RemovedStaysRemoved`, `HintsAreSeen`, `NoLostUpdate` | 2 callers, 2 attempts under one key, 1 key, 2 documents, seven budgets (`Scenarios` in `MCAppData`) |
| `client` | `BroadeningIsConfirmed`, `ReportsAreTruthful`, `RemovalIsFinal`, `SuspendedHasNoTokens` | 2 commands of any kind, 2 addresses, 2 administrative steps, 2 tokens, 2 codes, database errors |
| `llm` | `LedgerBalances`, `QuotaHolds` | 2 chats of one viewer, 2 months, 1 edit, 1 fault, reported usage of up to 4 against reservations of 2 and 3 |
| `update` | `JudgedIsInstalled`, `ClearIsTruthful` | 2 commands, 5 versions (one good and one unhealthy one listed, one unhealthy and one unsigned given by hand), 2 faults |
| `rate_limits` | `BudgetsHold`, `TablesBounded` | 2 requests at once, 2 browsers behind one address, 2 viewers, 1 transaction, limits of 1 and 2, tables of 5 keys and 2 scopes, a window of 2 in 2 ticks, 3 admissions |

*Why the bounds suffice.* The races of `Deployments` are between two actors over
one pointer, one content or one request id: two uploads give a current release and
a candidate, two contents a private and a public one and the case of equal
content, two requests with two ids a retry and a competitor. A second crash finds
what the first left, since recovery is idempotent and runs before anything else.
In `Live` the conflicts are goroutines closing one connection, a full queue (size 1
is full after one message) and a revocation between two steps of one handler; that
one connection is enough is what `LiveProofs` shows for the safety properties. In
`Blobs` two uploads compete for the last place, one reconciliation meets one upload
of each stage, and a second one the removals of the first; three faults let one
reconciliation fail to open a blob, fail to hide it and stop. In `Identity` two tabs are
two handlers between any two of whose steps the other may act, and two families an
older and a newer login; three ticks reach rotation, the end of the overlap and the
expiry of code and handoff. `AppData` needs two writers of one document and two
attempts under one key. In `Client` every race is between two commands, or between a
command and at most two administrative steps (removal and re-admission). In `Llm` two
chats compete for one quota, settle in the month after, and may both report more than
they reserved. In `Update` two faults
give a kill and a failing restore. In `RateLimits` two requests give a late one that
decides after one with a newer clock, three admissions a bucket at its limit and an
event behind it, five keys a table that one request fills. Symmetry is used in safety runs over sets whose
members nothing distinguishes, never with liveness. The type invariants are
proved, so no run spends time on them.

*Deadlock* is not checked: budgets run out and every request ends, so behaviours
stop. That nobody waits for ever is what the liveness properties say.

*Fairness.* `progress`: weak fairness of a request's next step and of startup, since
goroutines run and each step is bounded work or a call with a timeout; strong
fairness for the two steps that wait for the mutex, which Go's `sync.Mutex` hands to
every waiter in turn. Nothing is assumed of uploads, owners, probes or crashes.
`live`: weak fairness of handlers, fan-outs, closes and revocations. Peers
owe nothing: no fairness for `WriteLoop` or `PeerSilent`, and `ReadFrame` may
return frames for as long as the transport is open. `blobs`: weak fairness of
uploads, deletions and reconciliations that have begun, strong fairness for the two
steps that wait for the mutex, and weak fairness of the reconciliation at startup,
as the service manager restarts a process that did not come up.

Every property has a mutant in `PROJECT.json`: a change of one definition that
such code could plausibly have, under which TLC finds the property violated.

## 5. Where the code departs from what is said of it

The following were found with TLC or while reading; the models reach these states, and
the properties of section 4 are stated so that they say what does hold.

*Cleanup.* `ExecuteCleanup` selects once and removes without the activation mutex
or a second look at the pointer (`persistence/cleanup.go:116`). A verified release
activated in between is removed while live; `specs/operations/m5-contract.md` says
cleanup "never deletes the active release". `ActiveReleasePresent` is proved for
behaviours without cleanup, so this race is the only way to lose the bytes. In
`activation`, where the property is checked among crashes and suspensions, no cleanup runs;
with "cleanup" among the events of `ActivationBudgets` TLC finds it violated.

*Deployments, live, blobs.*

* A crash after the purge and before the rows are deleted: recovery marks the
  application failed, whatever its status (`persistence/deployments.go:137`), and
  `DeleteApp` then refuses it; its comment promises a row that stays in `deleting`
  for a retry.
* A policy replaced between the gateway's read and `Hub.Attach`: `Hub.Revoke` does not
  know the connection yet, and it attaches under the replaced policy
  (`live/hub.go:113`). Decision 0012 says a replaced policy cannot remain usable.
* `Reconcile` selects rows in `staging`; by the time it has the mutex the upload may have
  been acknowledged, and it hides the row in whatever state it is
  (`persistence/blob.go:281`). The deletion of one application can so remove a fresh
  blob of another; `blob-contract.md` says cleanup reconciles non-ready rows.
* `Reconcile` takes every error of `Open` for damage (`persistence/blob.go:322` and 372),
  a cancelled context, a database error or a lack of file handles included: an
  acknowledged, undamaged blob is removed. At startup and in `DeleteApp`, whose context
  is the request's (`control_adapter.go`), this can happen to blobs of any application.
  In the second phase the error of the UPDATE that should hide the row is discarded
  (`blob.go:327`) and the bytes are removed nevertheless; when the DELETE of the row then
  fails too, as with a cancelled context, a ready row without bytes remains, where the
  comment at line 279 wants rows hidden "before byte work".
  `LostOnlyIfSelected` and `ReadyHasBytes` are stated with these exceptions, and proved:
  a blob is lost, and a ready row without its bytes, in no other way.
* Two copies of one activation request may revoke live connections twice; the receipt's
  posture comes from a record read before verification; a directory half removed before
  a restart is not selected by cleanup again; an upload admitted before a deletion may
  rename its directory into place after the purge (decision 0013).

*Identity.*

* `GET /login` validates the identity, which may rotate its secret, then authenticates
  the dashboard with the old cookie and sends back only the second call's replacement,
  which is empty within the overlap (`identity_broker.go:254`); the page for an account
  without a role and the CSRF check of `POST /logout` drop it too. The browser keeps a
  rotated-out secret, and its next visit is treated as theft, although
  `global_identity.go:331` accepts the prior hash "only to smooth concurrent browser
  tabs".
* `AuthenticatePlatform` returns on every error before it closes the live connections of
  the sessions a replay revoked (`control_adapter.go:89`), where `global_identity.go:68`
  says the caller must close them before replying. `RevokedIsClosed` excludes families
  revoked by a replay for this reason.
* When the identity cookie and the binding cookie of a browser belong to different
  logins, a sign-out ends only the one of the identity cookie; a comment there and
  `browser-identity-handoff-contract.md` make that credential the authoritative one.
  `SignOutIsComplete` says exactly this.

*Gateway and data.*

* A request resolved before a public release goes live and authorized after it is served
  the private release anonymously (`appauth.go:182`); the test matrix says public mode
  serves only the expected public files. `NoStaleGrant` still holds: each fact was true
  during the request, only not at the same time.
* `CollectionRepository.List` leaves its loop with the cursor open when there is one
  document more than the page holds, then asks for the revision on a database with a
  single connection (`collections.go:216`): it waits for itself until its caller gives
  up, and every other statement of the application waits with it.
* The documents and the revision of a list are two statements; a commit between them
  pairs older documents with a newer revision.
* A key that is deleted and created again starts at version 1, so an expected version
  from before may match the new entry; `m4-contract.md:19` promises "a monotonically
  increasing per-key version". A document's id is drawn at random, so `NoLostUpdate` is stated of documents.
* A crash between intent and mutation leaves a key that no retry can use; a retried
  deletion is confirmed by mere absence; the intent is looked up without the
  application's id.
* The SDK starts its first refresh before its subscription has been handled, and a
  snapshot that failed is not tried again; `HintsAreSeen` is stated of what was heard.

*Control plane and CLI.*

* A database error while a bearer is checked is answered 401 (`tokens.go:84`); logout
  takes it for proof that the bearer is unusable and removes the file. Decision 0036
  says a persistence failure "retains the local credential". A login that stores its
  bearer while logout waits loses it unrevoked in the same way
  (`client/store.go:287`).
* `CommitActivation` does not look at the owner's account: an activation admitted before
  the deployer is removed commits after it, where decision 0040 says removal prevents
  deployment immediately. A token created by a request admitted before a removal is
  good after the re-admission. (`RemovalIsFinal` is stated of CLI bearers.)
* `SetDeployerStatus` leaves open codes alone and revokes an operator's tokens without
  changing the operator's status; `RecoverOperator` promotes a deployer whose older
  tokens then speak for an operator.
* A database error makes `login` fall back to a new code, where the comment in
  `cmd/tinker/main.go` excludes it; a bearer whose `whoami` or storing fails lives on,
  unreachable, until it expires.

*LLM and update.*

* Every error of a provider but a cancellation is settled as failed, which gives the
  tokens back, also when the provider counted them (`llm.go:238`); the contract keeps
  the reservation of malformed and ambiguous outcomes. A crash keeps its concurrency
  slot taken for the rest of the month, and the path without an adapter does not
  release its permit.
* What a provider reports is settled as it is (`persistence/llm.go:231`). `Complete` holds
  the reported output to the profile's maximum, not to what was asked for and reserved,
  and the reported input to nothing (`llm.go:251`), so a settlement may take a month past
  its quota; `llm-chat-contract.md:62` reserves "a conservative token maximum".
  `QuotaHolds` therefore excepts the settlement of a success, by exactly what it reports
  beyond its reservation.
* `Snapshot` overwrites the copy an interrupted update left (`file_installer.go:12`): a
  second update replaces the only healthy binary by the unproven one, restores that one
  when it fails too, and reports all clear. `ClearIsTruthful` is stated for behaviours
  in which this did not happen.
* `runDiscoveredUpdate` writes a schedule back that it read before the update
  (`updates_command.go:185`) and compares versions before it has the lock (175);
  `--rollback` without an active application never completes
  (`update_command.go:78`); after a commit that failed half way the copy is gone and
  the restore that follows cannot succeed (115).

*Rate limits.* `MaxKeys` "bounds memory", but the table is compared with it once per key
before any key is inserted: a request with five new keys is admitted when there is room
for one, so the table may hold four keys more (`ratelimit.go:279`). Every request prunes
the buckets of all kinds with the window of its own kind (`ratelimit.go:275`): with
windows that differ, admissions of a kind with a longer one are forgotten early.
`BudgetsHold` is stated for the shortest window; the default ones are equal.

## 6. Proofs

All theorems hold for every value of the constants that satisfies the named
assumptions of the modules (types and distinctness only), and for every budget.

`DeploymentsProofs`

* `TypeCorrect`. `TypeOK` is not inductive: operators read the submission of a row
  and the target of a request, so `TypeInv` adds that rows (and uploads past the
  insertion) have a submission, busy requests a target, and the pointer a row.
* `PointerCorrect`, `TransitionsCorrect`. The row of an upload is at the state its
  program counter implies; only uploads past their last write can be verified, and
  only a verified row that no upload will write again can become active. With
  `CurrentIsActive` this is inductive (`StateInv`), and the blind writes of
  `Repository.Create` turn out to be table transitions.
* `ModeCorrect`, `PublicExposureAcknowledged`, `NoPolicyUpdateIsLost`,
  `ReceiptCorrect`: invariants on top of `StateInv`. An editor's copy with the
  current revision *is* the current policy, because revisions only grow.
* `RefinesReleasePointer`: initial states map to initial states, and each action
  to an abstract action or a stutter; a version is never published twice since its
  row would have to be verified again.
* `LiveBytesPresent`: without cleanup, evidenced rows and uploads about to become
  evidenced have their directory while the application is not being deleted.

`LiveProofs`

* `TypeCorrect`; `LimitsCorrect`: counting and inserting happen in one step.
* `RevocationCorrect`: a connection in the hub that a change must cut off is on the
  revoker's list, is being deleted by it, or the list has not been collected yet;
  and connections the hub knows never attach a second time (`KnownAreAttached`).
* `RevokedCannotPublish` follows, as `publishFrom` looks the sender up.
* `LossIsNeverSilent`: whoever was refused a message is closed or about to be.

`BlobsProofs`

* `TypeCorrect`; `TypeInv` adds that a removal knows its blob.
* `ListedIsReadable`, `DeletionComplete`, from `SafeInv`: whoever is between two
  steps holds the mutex (`Locking`), rows and bytes are where the steps of the
  upload say (`Uploading`), a row is hidden before its bytes go and stays hidden
  until the mutex is released (`HiddenFirst`), and nobody writes into a directory
  that was found empty (`Emptied`). `HiddenFirst` excepts the rows a reconciliation
  could not hide; that even those are no undamaged blobs unless their `Open` failed, as
  `ReadyHasBytes` says, needs `LossInv`, below.
* `QuotaKept`: only the commit, which counts, makes a blob ready.
* `AcknowledgedKept`, from `LossInv`: what a reconciliation holds in its pages was
  selected, or is the work of a finished upload; what it goes on to remove in its
  later phases it failed to open by an error, or nobody counts on any more and never will
  (`Gone` is stable); any other acknowledged blob keeps its row (`Listed`) and its bytes
  (`Kept`).
* `RestartClean`: while requests are not accepted one reconciliation runs alone, and
  `Swept` says what the phases behind it have achieved.

`DeploymentsProofs`, for `CleanupPlan`

* `PlanSelectsSurplus`, `RecoveryReleaseKept`, for every set of rows in every cursor
  order. `PlanInv`: a group tells the newest creation time and whether any row is live
  among the rows read so far (`GroupedTruly`); the groups passed are newer than those to
  come, and what is selected are the inactive ones with enough newer inactive ones
  before them (`ScannedTruly`). `NewerGroup` is a strict total order, so counting the
  passed groups is the same as counting the newer ones.

`LimitsProofs`

* `TypeCorrect`, for `RateLimits`.
* `BudgetsAlwaysHold`. `BudgetsHold` is not inductive, since the code counts what is
  stored and not what was granted. `Remembered` says that every admission younger than
  the shortest window is still stored: a pruning removes only outlived events and, as
  it works from the front, never one behind a recent one; and no request decides with
  a clock ahead of the present. `BucketsBounded` says that no stored bucket exceeds its
  limit, which the check before the append keeps.
* `TablesAlwaysBounded`, from the same check: a request adds at most five keys to a
  table with room for one, and pruning adds none.
* `QuotaIsKept`: an admission counts every reservation, and a settlement adds exactly
  what was used beyond its own, which only a success can (`SettlesAnOutcome`); quotas are
  positive, so emptying a deleted application's months respects them. No bound on what a
  provider reports is used but that it is a natural number.
* `LedgerIsBalanced`. On top of that a chat reserves only once (`ReservesOnce`), so a new
  reservation is never counted already. The sums are over finite sets, a recursion for
  which the library's induction theorems cannot be used; `SmallestMember` and
  `SmallestSubset` state the induction in first-order form, as the existence of a
  smallest member, from the library's well-foundedness of `<`. From these follow that
  the recursion of `SumFunctionOnSet` has a solution (`FoldExists`), that the sum
  depends on the values alone (`SumAgree`) and that any member may be taken out first
  (`SumRemove`).
* `ChatTypeCorrect`: being sums and cardinalities, the counters are never negative.

`UpdateProofs`

* `TypeCorrect`; `TypeInv` adds that a command holds the versions its step needs.
* `CandidateIsJudgedInPlace`, `NoCopyMeansProven`, from `FilesInv`: the holder of the
  lock is the only command past it, `Stage` says which binary and copy each of its steps
  finds, and `ProvenIsSafe` that, as long as no copy was taken of an unproven binary, the
  copy, or without one the binary, has passed the gates.

`ClientProofs`

* `TypeCorrect`, `RemovalStaysFinal`, `SuspensionTakesTokens` from `ControlInv`, shown
  transaction by transaction of `ControlAuth`: besides the two properties, a code that
  can be redeemed was requested after its address last came off the allowlist
  (`CodesAreCurrent`); without this a removed deployer's old code would be worth a token.
* `PublicIsConfirmed`, `DeployReportsTruth` from `ClientInv`: each command knows, at the
  place it has reached, what the server answered (`Knows`), and holds what that step
  requires (`Fits`).

`IdentityProofs`

* `TypeCorrect`, `OneLogin`, `NothingTwice`, `SignOutEnds`, `ConnectionsEnd` from
  `IdentityInv`. Its rows part (`RowInv`) follows from the few effects a step may have on
  the tables: families and sessions come from redeemed codes and handoffs. Its requests
  part (`TabInv`) says of every request in flight that the secrets it holds were issued,
  that the families it has seen are its browser's, and that the one it falls back from
  is unusable. It survives the steps of other tabs because of `RevocationIsFinal`: a
  family keeps its binding, its secret only gets newer and its revocation is final.
* `LateFormsLose`: an older form never takes over a newer login.

`AppDataProofs`

* `TypeCorrect`, `GrantsAreCurrent`, `DeletionIsFinal`, `RefreshesCatchUp`,
  `RetriesAreHarmless` from `AppDataInv`, which has one part for each: what a request
  has found by its point was true while it ran (`GrantInv`); a deleted application has
  nobody left who could open its database (`RemovalInv`); no hint runs ahead of the
  database, and a browser that is not marked dirty read after every hint (`HintInv`); of
  the calls under one key one at most may still commit, and one at most announce
  (`KeyInv`). The transactions enter by one lemma on `Apply` (`ApplyResult`).
* `NoUpdateIsLost`: only a commit changes the contents, and `DocumentInv` says that a
  document somebody has seen is unchanged, newer, or gone for good, as ids are drawn once.

The inductive invariants of `IdentityProofs` and `AppDataProofs` were checked with TLC on
the instances of the runs before they were proved. Two attempts corrected a model:
`SignOutIsComplete` used to claim more than the code does when the two cookies of a
browser belong to different logins, and an owner's intent used to be accepted after the
row of its application was gone.

Left to TLC: liveness (`ActivationTerminates`, `ClosedLeavesHub`, `RevocationEnds`,
`ReconcileEnds`), since fairness and ENABLED are outside the prover.

## 7. Not modelled

Archive and manifest parsing, routing, forms and rendering, analytics, e-mail,
migrations, configuration, installation, the emulator: stateless translation, parsing
of text, or I/O without state other parts depend on. The write gate appears as a
refusal the environment may choose, and so do the limits of `RateLimits` in the other
modules: they decide when a request is refused, never what an accepted one does. Within the modelled parts: several
applications at once, listings and descriptions, the scheduler's lease (one run at a
time), the sliding publish window of the hub, `BlobRepository.List`, token scopes and
expiry, the wire formats of providers.
