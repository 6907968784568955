---------------------------- MODULE Provisioning ----------------------------
(***************************************************************************)
(* How a Research Project and its Git repositories come into being: API    *)
(* requests write rows, and worker processes create the GitLab group, the  *)
(* GitLab projects with their research template, and the Infisical project *)
(* for the secrets.                                                        *)
(*                                                                         *)
(* A claim and a completion are transactions of their own and the GitLab   *)
(* calls are made in between, without a lock.  The Infisical provisioner   *)
(* keeps the project row locked during its calls.                          *)
(***************************************************************************)
EXTENDS Naturals, FiniteSets

CONSTANTS Repositories,  \* slugs; rows come into being on request
          Default,       \* the repository that is created with the project
          Calls,         \* API requests
          Workers,
          MaxFaults      \* bound: failing requests and dying processes

ASSUME DefaultType == Default \in Repositories
ASSUME BoundType == MaxFaults \in Nat

States == {"absent", "provisioning", "active", "failed", "archived"}
Kinds == {"create", "retry", "discard", "archive", "restore"}
Stages == {"idle", "load", "namespace", "host", "seed", "complete", "fail",
           "find", "register", "insert"}

VARIABLES project,  \* research_projects: state, and whether the GitLab group's id is known
          repo,     \* git_repositories: state, claim, and whether the provider's id is known
          context,  \* the secret_contexts row exists
          call,     \* requests, between their reads and their commit
          pc, job,  \* workers: stage, and the RepositoryProvisioningJob with what came of it
          group,    \* GitLab: the group of the project exists
          hosted,   \* GitLab: the projects in it
          secrets,  \* Infisical: the number of projects with the slug of this one
          lost,     \* objects in GitLab that nobody was told of
          faults

vars == <<project, repo, context, call, pc, job, group, hosted, secrets, lost, faults>>
rows == <<project, repo, context>>
products == <<group, hosted, secrets, lost>>

None == "none"
Group == "group"
ProjectType == [state : States, namespace : BOOLEAN]
RepoType == [state : States, claimed : BOOLEAN, provider : BOOLEAN]
JobType == [repo : Repositories \cup {None}, namespace : BOOLEAN, provider : BOOLEAN]
CallType == [pc : {"new", "commit", "done"}, kind : Kinds \cup {None},
             repo : Repositories \cup {None}]

NewCall == [pc |-> "new", kind |-> None, repo |-> None]
NoJob == [repo |-> None, namespace |-> FALSE, provider |-> FALSE]

Init ==
    /\ project = [state |-> "absent", namespace |-> FALSE]
    /\ repo = [r \in Repositories |->
                  [state |-> "absent", claimed |-> FALSE, provider |-> FALSE]]
    /\ context = FALSE
    /\ call = [c \in Calls |-> NewCall]
    /\ pc = [w \in Workers |-> "idle"]
    /\ job = [w \in Workers |-> NoJob]
    /\ group = FALSE
    /\ hosted = [r \in Repositories |-> "absent"]
    /\ secrets = 0
    /\ lost = {}
    /\ faults = 0

-----------------------------------------------------------------------------
(* Requests. X_Something is X with a plausible bug: no action uses it, it  *)
(* shows that the properties notice the bug.                               *)

\* The project row is locked by the Infisical provisioner.
Locked == \E w \in Workers : pc[w] \in {"find", "register", "insert"}

\* ProjectService.create. The default repository has a transaction of its own.
CreateProject(c) ==
    /\ call[c].pc = "new"
    /\ project.state = "absent"
    /\ project' = [project EXCEPT !.state = "provisioning"]
    /\ call' = [call EXCEPT ![c] = [pc |-> "commit", kind |-> "create", repo |-> Default]]
    /\ UNCHANGED <<repo, context, pc, job, products, faults>>

Accessible == project.state \notin {"absent", "archived"}

\* What the services check before they write.
May(k, r) ==
    CASE k = "create"  -> Accessible /\ repo[r].state = "absent"
      [] k = "retry"   -> Accessible /\ repo[r].state = "failed"
      [] k = "discard" -> Accessible /\ repo[r].state \in {"active", "failed"}
      [] k = "archive" -> project.state = "active"
      [] k = "restore" -> project.state = "archived"

Begin(c, k, r) ==
    /\ call[c].pc = "new"
    /\ May(k, r)
    /\ call' = [call EXCEPT ![c] =
                   [pc |-> "commit", kind |-> k,
                    repo |-> IF k \in {"archive", "restore"} THEN None ELSE r]]
    /\ UNCHANGED <<rows, pc, job, products, faults>>

Requested(c, k) == call[c].pc = "commit" /\ call[c].kind = k

Finished(c) ==
    /\ call' = [call EXCEPT ![c] = [NewCall EXCEPT !.pc = "done"]]
    /\ UNCHANGED <<context, pc, job, products, faults>>

\* The slug is unique: another request may have been faster.
CommitCreate(c) ==
    /\ Requested(c, "create")
    /\ repo' = IF repo[call[c].repo].state = "absent"
               THEN [repo EXCEPT ![call[c].repo].state = "provisioning"]
               ELSE repo
    /\ Finished(c)
    /\ UNCHANGED project

\* retry_provisioning of the unit of work looks at nothing that was checked.
CommitRetry(c) ==
    /\ Requested(c, "retry")
    /\ repo' = [repo EXCEPT ![call[c].repo] =
                   [state |-> "provisioning", claimed |-> FALSE, provider |-> @.provider]]
    /\ project' = IF project.state = "failed"
                  THEN [project EXCEPT !.state = "provisioning"] ELSE project
    /\ Finished(c)

\* save_repository of an archived repository.
CommitDiscard(c) ==
    /\ Requested(c, "discard")
    /\ repo' = [repo EXCEPT ![call[c].repo].state = "archived"]
    /\ Finished(c)
    /\ UNCHANGED project

\* set_project_archived
CommitArchive(c) ==
    /\ Requested(c, "archive") \/ Requested(c, "restore")
    /\ ~Locked
    /\ project' = [project EXCEPT !.state = IF call[c].kind = "archive"
                                            THEN "archived" ELSE "active"]
    /\ Finished(c)
    /\ UNCHANGED repo

\* The API process dies, or the request is refused at its commit.
Abort(c) ==
    /\ call[c].pc = "commit"
    /\ faults < MaxFaults
    /\ call' = [call EXCEPT ![c] = [NewCall EXCEPT !.pc = "done"]]
    /\ faults' = faults + 1
    /\ UNCHANGED <<rows, pc, job, products>>

-----------------------------------------------------------------------------
(* Workers: repositories                                                   *)

Claimable_WhenActive(r) ==
    /\ repo[r].state = "provisioning" /\ ~repo[r].claimed
    /\ project.state = "active"
Claimable(r) ==
    /\ repo[r].state = "provisioning" /\ ~repo[r].claimed
    /\ project.state \in {"provisioning", "active"}

GoTo(w, s) == pc' = [pc EXCEPT ![w] = s]

\* claim_next locks both rows and passes over locked ones.
Claim(w, r) ==
    /\ pc[w] = "idle"
    /\ Claimable(r) /\ ~Locked
    /\ repo' = [repo EXCEPT ![r].claimed = TRUE]
    /\ job' = [job EXCEPT ![w] = [repo |-> r, namespace |-> FALSE, provider |-> FALSE]]
    /\ GoTo(w, "load")
    /\ UNCHANGED <<project, context, call, products, faults>>

\* After the COMMIT the rows are read again for the job.
Load(w) ==
    /\ pc[w] = "load"
    /\ job' = [job EXCEPT ![w] = [repo |-> @.repo, namespace |-> project.namespace,
                                  provider |-> repo[@.repo].provider]]
    /\ GoTo(w, "namespace")
    /\ UNCHANGED <<rows, call, products, faults>>

\* create_private, unless the job knows the group. GitLab refuses a second group
\* with the same path.
MakeNamespace(w) ==
    /\ pc[w] = "namespace"
    /\ IF group /\ ~job[w].namespace
       THEN GoTo(w, "fail") /\ UNCHANGED <<job, group>>
       ELSE /\ GoTo(w, "host")
            /\ job' = [job EXCEPT ![w].namespace = TRUE]
            /\ group' = TRUE
    /\ UNCHANGED <<rows, call, hosted, secrets, lost, faults>>

\* create_with_seed looks for its sentinel in a project it knows.
Resumed_AsIs(r) == "complete"
Resumed(r) == IF hosted[r] = "seeded" THEN "complete" ELSE "seed"

\* ... and creates one otherwise; GitLab refuses a path that is taken.
Host(w) ==
    LET r == job[w].repo IN
    /\ pc[w] = "host"
    /\ IF job[w].provider
       THEN GoTo(w, Resumed(r)) /\ UNCHANGED <<job, hosted>>
       ELSE IF hosted[r] # "absent"
       THEN GoTo(w, "fail") /\ UNCHANGED <<job, hosted>>
       ELSE /\ GoTo(w, "seed")
            /\ job' = [job EXCEPT ![w].provider = TRUE]
            /\ hosted' = [hosted EXCEPT ![r] = "bare"]
    /\ UNCHANGED <<rows, call, group, secrets, lost, faults>>

\* The commit of the template. It adds files, so that it succeeds only once.
Seed(w) ==
    /\ pc[w] = "seed"
    /\ GoTo(w, IF hosted[job[w].repo] = "bare" THEN "complete" ELSE "fail")
    /\ hosted' = [hosted EXCEPT ![job[w].repo] = "seeded"]
    /\ UNCHANGED <<rows, call, job, group, secrets, lost, faults>>

\* A request to GitLab fails, or its reply is lost, or the template cannot be read, or
\* complete() cannot commit.
StepFails(w) ==
    LET r == job[w].repo
        newGroup == pc[w] = "namespace" /\ ~job[w].namespace /\ ~group
        newHosted == pc[w] = "host" /\ ~job[w].provider /\ hosted[r] = "absent"
    IN
    /\ pc[w] \in {"namespace", "host", "seed", "complete"}
    /\ faults < MaxFaults
    /\ \/ UNCHANGED <<group, hosted, lost>>
       \/ newGroup /\ group' = TRUE /\ lost' = lost \cup {Group} /\ UNCHANGED hosted
       \/ /\ newHosted
          /\ hosted' = [hosted EXCEPT ![r] = "bare"]
          /\ lost' = lost \cup {r}
          /\ UNCHANGED group
       \/ /\ pc[w] = "seed"
          /\ hosted' = [hosted EXCEPT ![r] = "seeded"]
          /\ UNCHANGED <<group, lost>>
    /\ GoTo(w, "fail")
    /\ faults' = faults + 1
    /\ UNCHANGED <<rows, call, job, secrets>>

Ended(w) ==
    /\ GoTo(w, "idle")
    /\ job' = [job EXCEPT ![w] = NoJob]
    /\ UNCHANGED <<context, call, products, faults>>

\* complete() looks neither at the states nor at the claim.
Complete(w) ==
    /\ pc[w] = "complete"
    /\ ~Locked
    /\ project' = [state |-> "active", namespace |-> TRUE]
    /\ repo' = [repo EXCEPT ![job[w].repo] =
                   [state |-> "active", claimed |-> FALSE, provider |-> TRUE]]
    /\ Ended(w)

\* What fail() keeps of the objects that were created before the failure.
Kept_Nothing(w) == [namespace |-> FALSE, provider |-> FALSE]
Kept(w) == [namespace |-> job[w].namespace, provider |-> job[w].provider]

Fail(w) ==
    LET r == job[w].repo IN
    /\ pc[w] = "fail"
    /\ ~Locked
    /\ project' = [state |-> IF project.state = "provisioning" THEN "failed" ELSE project.state,
                   namespace |-> project.namespace \/ Kept(w).namespace]
    /\ repo' = [repo EXCEPT ![r] = [state |-> "failed", claimed |-> FALSE,
                                    provider |-> repo[r].provider \/ Kept(w).provider]]
    /\ Ended(w)

-----------------------------------------------------------------------------
(* Workers: the Infisical project                                          *)

LookForProject(w) ==
    /\ pc[w] = "idle"
    /\ project.state = "active" /\ ~context
    /\ ~Locked
    /\ GoTo(w, "find")
    /\ UNCHANGED <<rows, call, job, products, faults>>

Find(w) ==
    /\ pc[w] = "find"
    /\ GoTo(w, IF secrets > 0 THEN "insert" ELSE "register")
    /\ UNCHANGED <<rows, call, job, products, faults>>

Register(w) ==
    /\ pc[w] = "register"
    /\ secrets' = secrets + 1
    /\ GoTo(w, "insert")
    /\ UNCHANGED <<rows, call, job, group, hosted, lost, faults>>

InsertContext(w) ==
    /\ pc[w] = "insert"
    /\ context' = TRUE
    /\ GoTo(w, "idle")
    /\ UNCHANGED <<project, repo, call, job, products, faults>>

\* A request to Infisical fails, or its reply is lost. The next turn tries again.
InfisicalFails(w) ==
    /\ pc[w] \in {"find", "register"}
    /\ faults < MaxFaults
    /\ \/ UNCHANGED secrets
       \/ pc[w] = "register" /\ secrets' = secrets + 1
    /\ GoTo(w, "idle")
    /\ faults' = faults + 1
    /\ UNCHANGED <<rows, call, job, group, hosted, lost>>

\* The process dies; what it alone knew of GitLab is lost.
Crash(w) ==
    LET r == job[w].repo IN
    /\ pc[w] # "idle"
    /\ faults < MaxFaults
    /\ lost' = lost \cup (IF job[w].namespace /\ ~project.namespace THEN {Group} ELSE {})
                    \cup (IF job[w].provider /\ ~repo[r].provider THEN {r} ELSE {})
    /\ pc' = [pc EXCEPT ![w] = "idle"]
    /\ job' = [job EXCEPT ![w] = NoJob]
    /\ faults' = faults + 1
    /\ UNCHANGED <<rows, call, group, hosted, secrets>>

Commit(c) ==
    \/ CommitCreate(c) \/ CommitRetry(c) \/ CommitDiscard(c) \/ CommitArchive(c)

Request(c) ==
    \/ CreateProject(c) \/ Commit(c) \/ Abort(c)
    \/ \E k \in Kinds, r \in Repositories : Begin(c, k, r)

Proceed(w) ==
    \/ Load(w) \/ MakeNamespace(w) \/ Host(w) \/ Seed(w) \/ Complete(w) \/ Fail(w)
    \/ Find(w) \/ Register(w) \/ InsertContext(w)

Work(w) ==
    \/ \E r \in Repositories : Claim(w, r)
    \/ LookForProject(w) \/ Proceed(w)
    \/ StepFails(w) \/ InfisicalFails(w) \/ Crash(w)

Next == (\E c \in Calls : Request(c)) \/ (\E w \in Workers : Work(w))

Spec == Init /\ [][Next]_vars

\* The worker loop tries both tasks in every turn, and external calls have timeouts.
\* Weak fairness is enough, as the provisioner that locks others out ends by itself.
Fairness ==
    /\ \A w \in Workers : WF_vars(Proceed(w))
    /\ \A r \in Repositories : WF_vars(\E w \in Workers : Claim(w, r))
    /\ WF_vars(\E w \in Workers : LookForProject(w))

FairSpec == Spec /\ Fairness

-----------------------------------------------------------------------------
(* Properties                                                              *)

TypeOK ==
    /\ project \in ProjectType
    /\ repo \in [Repositories -> RepoType]
    /\ context \in BOOLEAN
    /\ call \in [Calls -> CallType]
    /\ pc \in [Workers -> Stages]
    /\ job \in [Workers -> JobType]
    /\ group \in BOOLEAN
    /\ hosted \in [Repositories -> {"absent", "bare", "seeded"}]
    /\ secrets \in Nat
    /\ lost \subseteq Repositories \cup {Group}
    /\ faults \in Nat

\* A repository that is shown as active exists in GitLab with the research template,
\* and its coordinates are known, also after failures, retries and two workers at once.
ActiveIsSeeded ==
    \A r \in Repositories : repo[r].state = "active" =>
        hosted[r] = "seeded" /\ repo[r].provider /\ group /\ project.namespace

\* When all workers are idle the database knows every object in GitLab whose creation
\* was answered, so that a retry can go on from it; and Infisical never holds a second
\* project, although nobody remembers a creation whose reply was lost.
NothingIsOrphaned ==
    /\ (\A w \in Workers : pc[w] = "idle") =>
          /\ group /\ Group \notin lost => project.namespace
          /\ \A r \in Repositories : hosted[r] # "absent" /\ r \notin lost => repo[r].provider
    /\ secrets <= 1

Abandoned(r) == repo[r].claimed /\ \A w \in Workers : job[w].repo # r

\* A requested repository becomes active or failed, unless its worker dies or the project
\* fails or is archived before; and an active project gets its place for secrets.
WorkEnds ==
    /\ \A r \in Repositories :
          (repo[r].state = "provisioning") ~>
             \/ repo[r].state # "provisioning" \/ Abandoned(r)
             \/ project.state \in {"failed", "archived"}
    /\ (project.state = "active") ~> (context \/ project.state # "active")
=============================================================================
