# Verification of homebrew-mlflow

TLA+ models of homebrew-mlflow, a research platform around MLflow, DVC, GitLab and Infisical: an
HTTP API over PostgreSQL, background workers that talk to the external products, a command line
client that runs experiments, and a web page. The models cover the parts in which several
processes meet over durable rows; every definition is translated from the source, and
`PROJECT.json` ("map") names the lines each one stands for. Paths below are relative to the
repository (`DB` is `packages/infrastructure/src/homebrew_mlflow/infrastructure/database.py`, `APP`
is `packages/application/src/homebrew_mlflow/application`).

## 1. Inventory

All durable state is in PostgreSQL at READ COMMITTED. An API request and a worker task each use one
SQLAlchemy session; a method of a store or unit of work is a transaction, or part of one. Workers do
not talk to each other: they meet in rows, by `FOR UPDATE SKIP LOCKED`. `deploy/compose/compose.yaml`
deploys two `publication-worker` processes, each of which runs the loop in `apps/worker/.../main.py`
(publication, provisioning, reconciliation, incomplete Runs, event pruning), one archive worker, and one
API process with a thread pool. Object retention is a task of the same loop that
`HOMEBREW_MLFLOW_ENABLE_OBJECT_RETENTION` switches on, "false" unless set: compose sets it for the first
publication worker and not for the second.

| Component | State | Operations | Meets | Hard behaviour |
|---|---|---|---|---|
| Publication queue | `publication_operations`, `publication_events`, `artifact_versions` | create (idempotency key), claim_next, advance, publish, fail | API and workers over the rows; GitLab and S3 through the validator | claims and their timeout, restart after a death, steps that never look at `claimed_by`, a lost COMMIT acknowledgement |
| Publication stream | `publication_events`, `events_expired_through` | append, prune, SSE request and generator, two clients | queue, hourly pruning, web page, CLI | events and state read in two statements, pruning between turns, numbering after pruning |
| Runs | `runs`, the journal on the client's disk | create, heartbeat, finalize, reconcile, mark_stale; `run`, `run-recover` | CLI with its heartbeat thread, API, worker loop | lost requests and replies, retries, a dying client, the race of heartbeat, finalization and the worker |
| ZIP archives | `artifact_download_archives`, objects | request, status, download, build, recover, expire | API, archive worker, S3 | capacity under concurrent requests, crash of the builder, expiry against a new request |
| Run content | parameters, metrics, tags; attachments and their bucket | log_batch, project and Run snapshots; upload, retention | MLflow plugin, API, S3 | Run state and quota read without a lock, snapshots of a dozen statements, object stored before its row commits |
| Experiments and metric progress | `experiments`, default metric | archive, progress of the latest Run, default metric | Run content, web page | metric found in one statement and read in another |
| Projects and provisioning | `research_projects`, `git_repositories`, `secret_contexts`, groups and projects in GitLab, projects in Infisical | create, retry, archive, restore; claim, complete, fail; find or create the Infisical project | API, worker, GitLab, Infisical | partial failure between GitLab calls, lost replies, two repositories that need one group, no claim timeout, completion against archiving |
| Memberships and reconcilers | `project_memberships`, `organization_memberships`, desired-state columns | set, remove, recover; reconcile with GitLab and Infisical | API, worker, GitLab, Infisical | requests against a reconciler in the middle of its calls, partial failures, last maintainer under concurrent requests, lost reconciliation marks |
| Catalog and model registry | artifacts, versions, aliases | create, update, archive; set and delete alias; listing | API, publication, MLflow registry plugin | requests that check what another writes, listings of several statements |
| Sharing | grants, references, derivations, Run inputs | grant, revoke, reference, derive, S3 keys | API, Runs (inputs), publication, MinIO | a check against a grant that is being revoked, grants that overlap |
| Published bytes and retention | objects of the DVC bucket, version files | validate, publish; prune provisional objects and expired attachments | publication worker, S3, the daily task of the one worker that has it enabled | protected keys read before the listing, deletion before the commit of its mark |
| Sessions | refresh token families, browser sessions | login, rotate, logout, revoke all, gateway | CLI keyring, web cookie, MLflow gateway | rotation against revocation, two clients with one token, tokens that are not stored |
| Machine and storage credentials | machine credentials, memberships | login, exchange, S3 keys, logging tokens, revoke | API, Runs, MinIO | a chain of tokens each made from the last |
| Pipelines, environments, secret contexts | definitions, versions | register, archive | Runs | archiving while Runs refer to them |
| Publication validator | none | validate | publication worker, GitLab, S3 | traversal of DVC metadata and hashing while objects come and go |
| Setup, audit, identity views, redaction | singleton row, append-only rows | claim setup; append; read | API | one insert under a singleton key |
| CLI repository and runtime capture, MLflow plugins, web page rendering, deployment, migrations | none of their own | - | - | none: stateless translation, subprocess inspection, configuration |

What makes each correct: an accepted publication ends once, with at most one version, numbered without gaps;
a stream never hides a gap or reports a wrong outcome; a finished Run never changes and no result is lost;
archive reservations fit the cache and a ready archive has its object; a finished Run gets only content that
was admitted before, and a reader sees all that was acknowledged; a project keeps a maintainer and external
members follow the desired state; bytes of published versions are not deleted and quotas are kept; an alias
points to a version that can be used; sharing ends for new uses when it is revoked; a session family has one
token that rotates, and everything made from a revoked credential runs out.

## 2. Plan

1. **Publications** - `PublicationStates`, `Publications`, `PublicationAbstract`, with proofs. Done.
2. **Publication stream** - `PublicationStream`. Done.
3. **Runs** - `Runs`, with proofs. Done.
4. **Archives** - `Archives`, with proofs: the ZIP archive job queue, its reservations, expiry and a
   crashing builder. Done.
5. **Memberships** - `Memberships`, with proofs: membership requests against both reconcilers. Done.
6. **Provisioning** - `Provisioning`, with proofs: projects, repositories and the workers that create
   them in GitLab and Infisical. Done.
7. **Content** - `Tracking`: batches and readers against the ends of Runs. `Storage`: attachments,
   publications and their bytes against the retention. Done.
8. **Catalog and sharing** - `Catalog`, `Sharing`. Done.
9. **Sessions and credentials** - `Sessions`, `Credentials`. Done.

Every safety property that a run checks is proved as well (section 6). What is left: the duties of the
single-statement components of section 7.

## 3. Modules

### Publications

A method of `SqlAlchemyPublicationWorkStore` (`DB` 4528-4793) is one transaction and one action;
`PublicationCoordinator.run_once` (`APP/publication_worker.py` 82-120) is the program counter `pc[w]` over
`LoadClaimed`, `Advance` (three times), `Validate`, `Publish`, `StepRaises`, `Fail`, and `mem[w]` is the
`PublicationOperation` object the worker carries between transactions: transitions are checked on that
object, never on the row. `service.create` is a read (`LookUp`) and an insert (`Insert`) in which the unique
key decides. `row[o].version` is the sequence of the `artifact_versions` row that refers to the operation.
`Crash` forgets `pc` and `mem` and keeps the rows. After a claim's COMMIT the store reads the row again
(SQLAlchemy's identity map holds rows weakly, and commit expires them), which is why `LoadClaimed` is an
action of its own. `advance` and `fail` read the row once more before they write it, without a lock
(`ReadRow`, remembered in `seen[w]`), and SQLAlchemy leaves a column out of its UPDATE that is assigned the
value it was read with: `Written` is what the row then holds, which is the other worker's state if that was
committed in between. `publish` reads the row in the same way, but no column it assigns can equal what it
read, as a row with a version refuses a second one. `LostAck` commits a step and makes the worker believe
that it failed. The validator's verdict is the choice between `Advance` and `StepRaises`.
`PublicationStates` holds the state machine of `domain/publications.py` and what each event announces;
`PublicationAbstract` is what a contributor is promised: one outcome, kept for ever, and a version that
becomes the next of its family in the instant its operation is published.

### PublicationStream

The history of one operation and those who watch it. A statement at READ COMMITTED is a step, because
the generator (`api/publications.py` 177-196) checks the history, reads events and reads the state in
three statements, and the queue and the pruners may commit between any two. `PruneRead`/`PruneWrite`
are the two halves of `prune_events`, whose UPDATE and DELETE become visible with one commit; every worker
runs it hourly, so that two may be in it at once, and each writes the `events_expired_through` it computed
from its own read (`ExpiredThrough`: an unchanged value is not written). `pruned`, the numbers whose
events are gone, and `restarted`, that an event was appended when none was left, are history for the
properties. `client[c]` is what a watcher runs. `Reaction` is what `watchPublication` (`main.tsx` 2866-2906)
and `publication submit` (`cli/main.py` 1639-1651) do with an event. The states `ended` and `broken`
distinguish a response that ended from one that broke. Heartbeat comments and the authorization of the
request are left out.

### Runs

The server's handlers are single steps because `finalize` and `heartbeat` lock the row and
`mark_stale_runs_incomplete` is one UPDATE. `phase` is the `run` command, `beating` its heartbeat
thread, `journal` the file under `pending-runs/`, and `pc`, `task`, `attempt` are
`_recover_finalization` (`cli/main.py` 154-228) in whichever process executes it. Requests travel in
`wire` and may be lost, overtaken, or answered after their sender gave up; an answer reaches only the
attempt that waits for it. The four server states succeeded, failed, cancelled and aborted are one
state "terminal" with the document's digest as `outcome`: nothing in the code tells them apart after
finalization. `context` and `inputs` are what finalization checks outside the Run's row: the pipeline
version and environment are not archived, shared inputs are not revoked. `Laggards` are Runs whose
heartbeats may stay away; for the others `Tick` waits for a heartbeat per interval.

### Archives

`row[v]` is the job of a version, `objects` the ZIPs in the bucket (their key is made from the version
alone, so a rebuilt archive has the key of its predecessor), `call[c]` a request between its reads
(`LookUp`) and `queue_archive` (`Queue`), which holds the advisory lock and counts capacity again but
does not look at the state of the job again. `pc`, `job`, `due` and `now` are the locals of `run_once`:
expiry (`DeleteObject`, `DeleteFails`, `MarkExpired`), recovery, claim, build, completion or failure.
A store method is one transaction; SQLAlchemy writes the columns a method assigned and reads a row
again in the next transaction, so a step never writes back what it read earlier. `updated` and
`expires` are kept only while something reads them. `compose.yaml` deploys one archive worker, and so
does the model; a second one would take over builds slower than fifteen minutes per file.

### Memberships

`org` and `role` are the membership rows of the organization and of one project, `bound` the people who
have logged in, `mark` and `recent` the desired-state columns of the project row (GitLab) and the secret
context row (Infisical), `member[s]` the access a service grants. A request is a read (`Begin`: the
checks of `ProjectMembershipService` and `OrganizationMembershipService`, and the columns as they were)
and a write (`CommitProject`, `CommitOrganization`); between them others may commit. SQLAlchemy writes
only columns whose value differs from what was read, which `Marked` and `saw` reproduce, and a write
waits while a reconciler holds the row. `Start`, `Apply`, `Succeed`, `Fail` are `run_once` of either
reconciler: a `FOR UPDATE SKIP LOCKED` that lasts through its HTTP calls, the list of the service's
members as it was at the start (`work[w].actual`), one account at a time in any order that the code allows
(`Before`: Infisical adds before it updates and removes), and the mark at the end. A call has a timeout of
20 seconds. `Fail` and `Crash` are a reconciler that gives up, or dies over, the call whose turn it is:
the call goes to `late`, and the service may carry it out at any later moment, with the row locked or free,
or never (`Land`), whatever the memberships have become. So the list of members can be stale under the
next reconciler (`Miss`: GitLab refuses to add a member it has and to change one it has not, Infisical
refuses too or passes over it). `landed` is history: whose access late calls changed during a
reconciliation. `Login` may come at any time. Access that somebody changes by hand in a service is left out, as
are machine principals and changed e-mail addresses.

### Provisioning

`project` and `repo[r]` are the rows: their state, whether the row is claimed, and whether it knows the
identifier of its GitLab group or project. `group`, `hosted[r]` (absent, bare, seeded) and `secrets` are
what exists outside. `CreateProject` and the `create` of its default repository are two transactions, as
in the API handler. `Claim`, `Load`, `MakeNamespace`, `Host`, `Seed`, `Complete`/`Fail` are
`ProjectProvisioningCoordinator.run_once` call by call, without a lock between them; `StepFails` is an
exception with or without the effect of the request. `job[w]` is what the coordinator knows, and `Kept`
what it hands to `fail()`. `LookForProject`, `Find`, `Register`, `InsertContext` are
`InfisicalProjectProvisioner.run_once`, one transaction that keeps the project row locked. Within one
turn of the worker loop the two tasks follow each other, so a worker does one at a time. `lost` is a
history variable: objects in GitLab whose creator died or never got the reply.

### Tracking

`run` is a Run's state with the moments of its creation and end, `param`, `metrics` and `tag` the rows.
A batch is a read (`Begin`: Run state, parameter and tag as they are) and a `Commit` in which the primary
keys decide; a conflict at commit breaks the request (`Break`) and leaves nothing. A reader
is the project snapshot of `api/mlflow_compat.py` or the snapshot of one Run: `ReadProject` or `ReadRun`,
`ReadRuns` (which reads the Runs a second time), `ReadTable` three times in the order of `Tables`, and
`Answer`, which fails on a row whose Run the first statement did not see. `View` is the metric
progress view of the latest Run of the Experiment.
One key stands for all parameters, one for all metrics and one for all tags, because rows of different
keys never meet; `now` counts the commits that the properties order.

### Storage

`object[k]` is a key of the DVC bucket with the only thing the retention asks of it, its age; `corrupt` the
keys whose bytes do not have their digest. `publication` is the validator between `StartValidation`
(metadata read from GitLab), one `Verify` per object, and `Publish` or `FailValidation`; `Defects` stands
for everything `publication_validator.py` refuses besides the objects. `attachment`, `stored`, `upload` are
the rows, the bucket and the requests of `AttachmentService` (check, `PutObject`, `CommitUpload`).
`prune[w]` is `S3RetentionCoordinator.run`: `DeleteAttachment` one by one, then `ReadProtected`,
`ListObjects`, `DeleteObject` one by one within the deletion limit, and one commit. `Expire` and `Grow` let
the clock pass. `Push` uploads what the bucket does not have, as `dvc push` does, which asks the remote
before; the S3 keys of a project member would let another client write over an object that is there, and
what becomes of published bytes then is outside the model. `raced` and `crowded` remember, for the
properties, that a publication was being verified, or another upload was under way, when it mattered.

### Catalog, Sharing, Credentials

Three modules of requests that check, and commit later what they found, without a lock in between. `Catalog`
is one Artifact: `Admit` stands for the checks of every request, the `Commit...` actions for what it writes,
`ListArtifacts`, `ListVersions`, `ListAliases`, `Answer` for the statements of a listing and the model
registry's search in its answer (`Unresolved`). `Sharing` is one version that its project shares with
another one. A request reads the clock when it begins and writes that time when it commits, and every
question of the code has its own definition because they differ: the latest grant (`Newest`, references),
any active grant (`Accessible`, derivations; `SharedKeys`), any grant in force at a time (`Available`, Run
inputs), any in force when the Run ended (`Recoverable`). `Publish` is the derivation that the publication
worker inserts for a Run with one input. `Credentials` is a machine: its row, its principal's membership,
one Run, and the expiry of the latest token of each kind, which is enough because a later token of a kind
can do all that an earlier one can. In both, a request takes less than a tick: the code has no request that
lasts as long as the shortest life (15 minutes).

### Sessions

`row` are the refresh tokens in the order of insertion, with the row lock that `rotate` takes
(`ReadToken`) and keeps to its commit (`CommitRotation`), or until a reuse has revoked the family. A
revocation reads its rows without locks (`ReadRows`) and waits for them (`Waiting`) when it writes
(`CommitRevocation`); PostgreSQL may end one of two that wait for each other (`Abort`). `held` is the token
in each keyring or cookie jar, `client` what a command or page does with a copy of it; answers may be lost.
`access` and `browser` are the access tokens, which are not stored, and the browser sessions. `excused`,
`cut` and `late` are history for the properties.

## 4. Runs of TLC

| Run | Instance | Shows |
|---|---|---|
| `PublicationsTimely` | 2 operations, workers, calls, keys, one family, one death | exclusive claims, row and last event agree, legal logs, idempotent creation, refinement of `PublicationAbstract` (final outcomes, a version iff published); every operation ends unless abandoned before it was begun |
| `PublicationsFaults` | 2 families and request bodies, overruns, lost acknowledgements | what survives when two workers do share an operation: gapless numbering |
| `StreamWatch` | a page or a submit, two pruners, 5 events | nobody is left waiting for an operation that is over, unless the pruners overlapped and lost one's `events_expired_through` |
| `RunsFaults` | a command, a `run-recover`, another finalizer, 2 documents, 2 attempts | acknowledged means final, results are kept, replays are accepted |
| `RunsLive` | a punctual and a lagging Run | the worker gives up silent Runs only, every Run ends, results arrive also afterwards |
| `Archives` | 3 requests, 2 versions of sizes 1 and 2, a cache of 2, one death | reservations fit under concurrent requests, a downloadable archive has its object, an expired one has none, every job ends |
| `Memberships` | a founder, a stranger with access who may log in late or be a member already, 2 requests, archiving, 2 workers, one failure or death with its late calls | whatever a reconciler changes is what the database says at that moment unless it gave up the call, "in sync" is earned, access converges |
| `LastMaintainer` | 4 requests, no failures | divergence (a), below |
| `Provisioning` | a project, 2 repositories, 4 requests, 2 workers, one failure or death | an active repository is seeded and known, nothing whose creation was answered is forgotten, one Infisical project, work ends |
| `Unlocked` | 2 Runs of which one exists, 2 batches, a snapshot, a viewer; 2 requests on an Artifact with 2 versions; 2 requests on a version with 2 grants; a machine; a watcher and two pruners of 5 events | acknowledged content stays and is seen by every later reader, late content was admitted before the end, snapshots fail only when a Run was created meanwhile, progress is backed by metrics; aliases resolve unless archiving and aliasing overlapped; uses are covered by a grant; credentials run out; events arrive in order and only pruned ones are missed, the outcome a watcher is told is true |
| `Storage` | a directory of one file, a publication, 2 uploads, a worker with deletion limit 1, one failure | published bytes stay unless the retention had read what is protected, rows and objects match, the quota is exceeded only by uploads that overlap, the retention finishes its work |
| `Sessions` | 2 clients over a keyring and a cookie jar, 3 tokens, 2 ticks | one live token per family, a reuse has a cause, access runs out after all sessions were revoked |

`Unlocked` composes five modules, Tracking, Catalog, Sharing, Credentials and PublicationStream. They
share no variable, so that a state of the composition is one state of each, and an invariant of one
holds in all interleavings if it holds while the others rest; `part` says which one moves. Tracking's
readers and viewers write nothing that the other reads and take turns in the same way. The type
invariants of Tracking, Storage, Sessions, Catalog, Sharing, Credentials and PublicationStream are
conjuncts of one of their properties; those of the other modules are theorems.

Definitions named `X_Something` are `X` with a plausible bug. No action uses them; each shows that a
property notices that bug.

**Bounds.** `MaxClock`, `MaxCrashes`, `MaxEvents`, `MaxAttempts` and those named below are the only bounds.
Two workers and two operations give every race of the claim query (a third worker can only repeat what the
second does to the first); `ClaimTimeout` 0 with a strict comparison makes a claim stale after one tick, so
two ticks hold a takeover and its own death. Two calls with two keys hold same-key, different-key and
conflicting requests. Five events cover a whole life, or a failure after a recovery; three ticks at
retention 1 let a pruner remove a prefix, the whole history of a finished operation, and run twice, and two
pruners overlap with different cut-off times. `Idles` is FALSE there, so that an unfinished operation gets
its next event before its last one is too old (the theorem of the stream has no such bound). Two attempts
(of seven in the code) tell a first attempt from a retry and a retry from giving up. `HeartbeatTimeout` 2
and interval 1 keep the code's order interval < timeout. Two versions of which the cache holds one or the
other make two requests compete for space, and the third request revives a job that is being expired;
`StaleAfter` 0 makes an abandoned build stale after one tick, and the last `Crash` happens while the clock
has room for that. In Memberships two people are enough for a login during a reconciliation and for a row
that another request removes between read and commit; `Calls` are numbers, and requests begin in their
order, since they differ in nothing else; one failure leaves the late calls of one HTTP request, which may
land before, during or after any later reconciliation; the second person may or may not belong to the
organization at the start, and `Granted` bounds the roles that requests give to viewers (a recovery still
makes maintainers; requests add nobody to the organization, which only guards other requests; the proofs
know no such bound); in Provisioning the default repository and a second one compete for the group, and four
requests hold creation of project and repository, a retry and an archiving, or two concurrent retries. One
failure or death in either leaves the recovery to be looked at; the proofs of the safety properties have no
such bound. In Tracking two batches log one parameter of one Run, or of two, one of which may be created
while a snapshot is read; a moment passes with every creation and end. In Storage three operations
(`MaxOperations`) hold a push, a second push or upload, and the publication; the small manifest with its one
file makes a version of two objects of which a retention with `Limit` 1 deletes one at a time; the bucket
fits into one page of a listing (`ListObjects` is one request). With `MaxCount` 1 the number of attachments
decides before their bytes do; the other limit is the theorem's. In Sessions three tokens (`MaxTokens`) are
two rotations of one family or a rotation beside a second family, and lives of one tick each follow each
other within two. In Catalog two versions and one alias let it move and leave; `MaxVersions` bounds
publications. In Sharing two grants (`MaxGrants`) overlap or follow each other, two ticks hold a grant and
the end of a Run, its revocation, and a use after that, and one use (`MaxUses`) is enough because uses do
not read each other. In Credentials the clock (`LastClock` 5) is as long as the whole chain of two token
lives and a key. Symmetry is used only in runs without liveness.

**Fairness.** Publication: `WF(RunOnce(w))`, since the worker loop asks for work for ever and every external
call has a timeout, and `WF(Tick)`. Nobody has to call the API, crash or overrun. Stream: generator and
client loop go on, and a broken response is noticed; the queue owes nothing, as the property starts from a
finished operation. Runs: handlers, worker loop, clock and a started command go on; that the child ends,
that anybody runs `run-recover`, or that anything is lost or archived is not assumed. Archives: the worker
loop, the clock and a request that has begun to queue a job go on; nobody has to ask for an archive, and a
build may always fail. Memberships: strong fairness for starting each reconciliation, because every turn of
the worker loop tries both and SKIP LOCKED passes one over only while the other worker is at it, weak
fairness for its HTTP calls (answered or refused) and for the interval to pass; nobody has to end a request,
a service owes nothing to a call that was given up, and nobody has to restore an archived project. Storage:
weak fairness of the retention of the one worker that has it enabled, as its loop runs it every day and it
waits for nobody; nobody has to push, publish or upload. Tracking, Sessions, Catalog, Sharing and
Credentials state safety only. Provisioning: weak fairness for claiming, for each step of a job and for the
Infisical provisioner, whose lock ends by itself. Deadlock checking is off for the stream, Runs,
Provisioning, Sessions and the modules of `Unlocked`, where everybody may be done.

## 5. Divergences found

`LastMaintainer` is a run that TLC must find violated, listed with its quotation under "findings":

- (a) Removing or demoting a maintainer counts the others without a lock: two requests at once leave a
  project without one, although "the last project Maintainer cannot be removed".

The others have no run of their own.

In the publication queue: a worker that dies between the commit of its claim and the commit of RESOLVING
leaves a row that is queued and claimed, which neither branch of the claim predicate (`DB` 4538-4557)
admits, so that nobody claims it again (`Abandoned` in `AbandonedOrFinished`); if the COMMIT of `publish`
succeeds and its reply is lost, `run_once` calls `fail`, which overwrites PUBLISHED with FAILED while the
version stays; a worker that outlasts the 35 minutes of its claim moves a row its successor has finished,
and leaves row and log in disagreement: while the row says `verifying` the successor reads it, assigns
`verifying` and so writes only `updated_at`, and if the late worker commits `committing` between the read
and the write, the row keeps that state under a last event `validation.progress` (`ClaimIsExclusive`,
`LogTellsState`, `LogIsLegal`, `KeepsPromise` and `TerminalIsFinal` are therefore stated for timely
workers); two concurrent creations with one key and one body get an operation and an error rather than two
answers with the operation.

In the stream: the generator reads events and then the state, so that a failure committed in between ends
the response without `operation.failed`, although "errors after establishment use `operation.failed`"
(specification, line 635), and `publication submit` exits with 0 (`OutcomeIsTrue` says no more than
that no failure had reached it); of the two workers that prune every hour, one that overlaps the other may
write an older `events_expired_through` over a newer one, so that a watcher whose cursor lies between the
two is let past pruned events without the `410 event_history_expired` of the specification (lines
625-632), and a page whose operation ended with one of them waits for ever (`DeliveredInOrder` counts
what was pruned, not what was told of it, and `WatchingEnds` excepts this: `ExpiryIsKnown`);
an operation idle for longer than the event retention numbers its next event 1 again, so that a watcher
takes it for one it has (`restarted`).

In Runs: `finalize` checks pipeline version and environment before the digest of a final Run, so that the
retry of an accepted finalization is refused once one of them is archived, although "repeating
finalization with the same normalized payload returns the existing result" (specification, line 373);
`ReplayIsAccepted` is therefore checked without "archive" among the faults.

In Archives, all by `queue_archive` not looking at
the state again or `mark_expired` not looking at all: a job queued between the deletion of its
predecessor and `mark_expired` is expired unbuilt, a second request that was slow starts a ready archive
over before its day is up, and a failing old job that is requested again and again keeps its
`created_at` and is claimed before younger ones; a build that uploads, dies and then fails leaves an
object that no row accounts for.

In Tracking: content of a batch that was admitted while its Run was running is committed to a finished
Run (specification, line 303: "Terminal Runs are immutable"); a Run created between the statements of
a snapshot makes it fail.

In Storage: a version published while a retention has already read what is protected may lose its bytes;
uploads that overlap exceed the quota together; an upload that dies, and the same content at a second
path whose row is refused, leave an object that no row and no retention knows.

In Catalog: `set_alias` ignores that an Artifact is archived; an alias and the archiving of its version
that overlap leave the alias on an archived version, and a listing of the model registry that reads such
an alias fails as a whole, as `next` has no default.

In Sharing and Credentials: an archived version stays shareable; `shared_dvc_read_keys` ignores an
archived owner project where `version_accessible` refuses; the worker derives a published version from a
shared input without asking for a grant; the creator of a Run may heartbeat and finalize it after the
removal from the project (`_authorize_run_actor`), so that logging tokens are renewed as long as the Run
runs; revoking a machine credential leaves its principal's membership.

In Sessions: a rotation that commits while its family is being revoked adds a token the revocation does
not know; two commands that read one token from the keyring end the session as stolen; after all sessions
were revoked, an access token still opens browser sessions.

In Memberships: a call to GitLab or Infisical that timed out may be carried out when its reconciler has
marked the failure and released the row, against memberships that have changed since, and a service may be
marked in sync over it; the next reconciliation, within the interval, undoes it; the admins of the
organization are counted like the maintainers; a mark that was pending when a request read it and in sync
when it commits is not set again, so that the change waits for the five-minute interval; the project row
with the oldest `updated_at` comes first, so that a project whose reconciliation keeps failing can hold up
others; removing somebody from the organization leaves the role in the project.

In Provisioning: a claim has no timeout, so that a repository whose worker died stays `provisioning`,
which no retry accepts (`Abandoned` in `WorkEnds`); `complete()` makes project and repository active
whatever they have become, so that one archived during the calls comes back; when the reply to the
creation of a group or project is lost, GitLab refuses every retry, and the object stays (`lost`); when
the default repository fails, its project fails and the other requested repositories wait until it is
retried; a project and its default repository are created in two transactions, and a process that dies
between them leaves a project without one; a second concurrent retry resets a claim, two workers
provision one repository, and it may end `failed` although it is seeded; a repository of an archived
project that is being provisioned is neither claimed nor failed.

## 6. Proofs

TLAPS checks, for every value of the constants, the theorems that `PROJECT.json` lists: every safety
property of the passing runs is among them. Each theorem rests on an inductive invariant, a conjunction
of named parts; what follows says which parts a property needs besides itself and its types.

**`PublicationProofs`**:

- `TypeCorrect`, `GaplessFamilies`. `Inv` adds that a row exists completely or not at all
  (`RowsFilled`), that a busy worker holds an existing operation (`HandsFull`) and that versions are
  numbered without gap (`Numbered`): without `HandsFull` an advance could write a row that does not
  exist, and without `RowsFilled` a version could belong to no family. `LastOfNumbered` says what
  `LastSequence` chooses; all faults are admitted.
- `IdempotentCreateSafety`, under all faults too, from `KeysAreUnique`: the lookup before the insert decides
  nothing, and what a call was told stays its own.
- `LogTellsStateSafety`, assuming that no run overruns its claim; deaths and lost acknowledgements are
  admitted. `Kept` says that a busy worker's claim is its own and not older than the timeout, and that what
  it has read of its row for the step under way is still there: nobody else writes that row before the
  claim is stale, so that an omitted column holds the target already.
- `ClaimsAreExclusive`, `TerminalStaysFinal`, `LogIsLegalSafety`, `PromiseIsKept`, assuming that `Faults`
  holds neither overrun nor lost acknowledgement, without which the code breaks them (section 5).
  `TimelyInv` adds `Live` (a busy worker's claim is its own, is not older than the timeout and its memory
  is the row) and `Unclaimed` (terminal rows have no claim): the claim of a live worker is never stale, so
  a claimable row is nobody's (`ClaimableIsFree`). Because memory and row agree, a transition that is
  legal for the object in memory is legal for the row, which is why the log is.
- `PromiseIsKept` is the refinement: the queue implements `PublicationAbstract` under the mapping that
  `KeepsPromise` states. An insert is an acceptance, `Publish` publishes and numbers in one step, a
  failure rejects, and everything else, claims, restarts and event log, is a stutter.

**`RunsProofs`**: `TypeCorrect`, `TerminalStaysImmutable`, `AcksAreFinal`, `ResultsAreKept`. `Honesty` says
that requests carry the document of a sender that is on that attempt, that a pending "ok" means the Run
holds the sender's document, and that a journal holds the result of its Run or nothing; `AckMeansFinal`
and `NoResultIsForgotten` are not inductive without it, since success is learnt from an answer that was
true when it was given. `ReplaysAreAccepted` assumes that nothing is archived (with it the code refuses,
section 5) and needs `RefusalIsRight`: a refusal that is still on its way had a reason that lasts.
`HealthyRunsStay` assumes that the heartbeat interval (30 s, `cli/main.py` 54) is not longer than the
timeout (300 s, `worker/main.py` 68) and needs `HeartIsHeard`, which bounds the silence of a punctual Run.

**`ArchiveProofs`**: `TypeCorrect`, `DownloadsExist`, `ExpiryLeavesNothing`, `CacheIsNotOverbooked`. `Inv`
adds where the worker has a job (`WorkerInv`), that the job it builds is still queued or building
(`BuilderHolds`), that nothing on its list of expired archives has become downloadable (`DueIsOver`;
only the one worker makes archives ready) and that the bucket is as the worker left it between an S3 call
and the transaction that records it (`BucketIsAsLeft`). The sum of the reservations needs `CallsAreDated`:
a request counts what is downloadable at the time it came with, and no archive that has expired since is
missing from that count. What a sum over a finite set does when a summand comes, goes or grows is proved
in lemmas of the module, by a set without a smaller counterexample (`WFMin`), and again in
`StorageProofs`, each as far as it is used.

**`MembershipProofs`**: `TypeCorrect`, `ReconcilersFollow`, `InSyncMeansAgreement`. The invariant says that
what a reconciler has read is still what the database says (`LockIsCurrent`, from the row locks that
requests have to wait for), that SKIP LOCKED gives a service to one reconciler (`OneReconciler`), that
its list of the service's members, kept up by its own calls, is right but for those whose access a late
call has changed since (`SnapshotIsTrue`), and that a request writes a role of the right kind
(`RoleFitsKind`). The two action properties follow step by step. Nothing is assumed about how many calls
are given up or when they are carried out.

**`ProvisioningProofs`**: `TypeCorrect`, `ActiveMeansSeeded`, `NothingGetsOrphaned`. `JobFits` says what a
worker holds at each stage, `KnownExists` that whatever a row or a worker knows exists in GitLab,
`ObjectsKnown` that whatever exists and was answered is known to a row or to a worker, and
`OneProvisioner` that the row lock leaves one worker to look for the Infisical project, which it
registers only while there is none. The steps that end a job share `EndInv`, those that move to another
stage `StageInv`, and requests `RequestFrame`. Nothing is assumed about claims: the properties hold even
when two workers provision one repository.

**`SessionProofs`**:

- `OneLiveTokenSafety`. A rotation under way has locked a token that is good (`RotationIsLocked`), and of a
  family that a revocation has seen in part, what it has not seen was added meanwhile and is marked
  (`LateTokensAreMarked`). The lock is what makes two rotations of one token exclude each other.
- `ReuseSafety`. The clients of a store without an excuse come one after the other (`Alone`), a token
  never gets from one store to another (`OneStore`), and what such a store has is unused but for the
  moment of its replacement (`FreshTokens`).
- `AccessSafety`, by `AccessIsBounded`: no token that rotates is left after the revocation of all, so that
  access lives out its lifetime, and a browser session its own after that.

**`StorageProofs`**:

- `PublishedBytesSafety`. A verification that does not race has the bucket to itself (`RaceIsNoticed`), what
  it has read is sound (`VerifiedIsSound`), and once it is published its bytes are protected from a
  retention that reads the versions later, and spared by one that lists objects later
  (`PublishedIsProtected`).
- `RowsMatchSafety`. A content has one row (`OneRowPerContent`), what a retention deleted stays away although
  its mark comes with the one commit at the end (`DeletedStaysAway`), and what is about to be committed
  is stored or has its row (`PutBeforeCommit`).
- `QuotaSafety`. An upload that has met no other is the only one, and there still is room for it
  (`AloneFits`); it is the bytes limit that needs the sums.

**`UnlockedProofs`**, about Tracking's own specification and, for the other modules, the composition:

- Tracking: `AckedStaysSafety`, `LateContentSafety`, `SnapshotSafety`, `ProgressSafety`, from one invariant.
  Rows and acknowledged batches are the same (`RowsAreAcked`), a batch at work was admitted
  (`BatchIsAdmitted`), finds the parameter as it read it (`SeenStays`), and once acknowledged stays
  (`ValuesStay`). A reader of all three tables that was never refused has shown what was acknowledged
  before it began and nothing else, and the list of Runs it began with holds every Run, unless one was
  created since (`ReaderGoesOn`).
- Catalog: `CatalogSafety`. Each way to an alias on an archived version is noticed while the two requests
  are under way (`AliasIsRaced`, `SetIsRaced`, `ArchiveIsRaced`, `ListingIsRaced`).
- Sharing: `SharingSafety`. Every request that meets a revocation under way is marked late (`RevocationIsSeen`),
  what was used in time is not dated after a revocation under way (`RevocationIsLater`), nothing is dated
  ahead of the clock (`NothingIsDatedAhead`), and what a request is about to write is covered now
  (`RequestIsCovered`); `GrantsFit` counts the grants under way.
- Credentials: `CredentialsSafety`. Nothing outlasts its life from now (`NothingOutlives`), and after a
  removal or revocation only from then (`RemovedIsOver`, `RevokedIsOver`).
- The stream: `OutcomeSafety`, for any number of watchers and pruners. An event of an end is told of an
  operation with that end only (`EndIsTrue`, of the history and of what is read but not yet sent), and a
  connection stops only at an end (`WatchersAreTold`). `DeliverySafety` assumes nothing, neither of
  how many workers prune at once nor of how long an operation rests. Numbers follow the age of the events, so
  that pruning by age takes a prefix, and every number up to `top` is in use or pruned (`HistoryIsInOrder`): as
  long as an event is left the newest is among them, which is why `max + 1` never numbers twice although it
  is taken from what pruning has left. A watcher's events, its batch included, have only pruned gaps, and
  until the numbers began again it has every kept event behind it (`WatchersGet`).

Assumed: only the named ASSUMEs on constants, which TLC evaluates in every run. They say that bounds and
lifetimes are natural numbers (positive where a step of zero would make no sense), that sentinels such as
`None` are no members of the sets they stand beside, that the senders of Runs are distinct, and that the
sets that are summed or counted (`Versions`, `Sharers`) are finite.

Model-checked only: liveness, as fairness and ENABLED are outside the prover (`AbandonedOrFinished`,
`WatchingEnds`, `EveryRunEnds`, `EveryResultIsRecorded`, `AccessConverges`, `WorkEnds`, `EveryJobEnds`,
`RetentionEnds`), and the violation that `LastMaintainer` shows.

## 7. Not modelled

- Pipelines, environments and secret contexts beyond their archiving: registering is one insert under a
  unique key. `register_version` reads its source from GitLab between its checks and its commit, so that
  a version may land in a definition that was archived meanwhile; nothing reads the difference.
- Setup, audit and identity views: one insert under a singleton key, appends and reads.
- The command line's repository commands and runtime capture: Git, DVC and environment inspection by
  subprocess; their results are inputs of the `run` command in Runs.
- Of the MLflow plugins, all that translates between MLflow's interface and the API without reading
  twice; of the web application, all but the watching of a publication and the refreshing of a session.
- Deployment and migrations: used as the reference for process counts, defaults and constraints.

Left out for good: formatting, logging, HTTP routing and JSON, signatures, OAuth state and CSRF tokens,
rendering; the content of artifacts (an object is there or not, sound or not). Authorization is an input
except where a model is about it (Memberships, Sharing, Credentials, Sessions): elsewhere a model starts
where the caller is allowed to act.
