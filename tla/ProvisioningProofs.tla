-------------------------- MODULE ProvisioningProofs ------------------------
(***************************************************************************)
(* Proofs about Provisioning, for any number of repositories, requests and *)
(* workers, and any failures of GitLab, Infisical and the processes.       *)
(***************************************************************************)
EXTENDS Provisioning, TLAPS

Working == {"load", "namespace", "host", "seed", "complete", "fail"}
Locking == {"find", "register", "insert"}

\* A request that writes a repository has one.
CallFits ==
    \A c \in Calls : call[c].pc = "commit" /\ call[c].kind \in {"create", "retry", "discard"}
                        => call[c].repo \in Repositories

\* What a worker has in hand at each stage.
JobFits ==
    \A w \in Workers :
        /\ pc[w] \in Working => job[w].repo \in Repositories
        /\ pc[w] \notin Working \ {"load"} => ~job[w].namespace /\ ~job[w].provider
        /\ pc[w] \in {"host", "seed", "complete"} => job[w].namespace
        /\ pc[w] \in {"seed", "complete"} => job[w].provider
        /\ pc[w] = "complete" => hosted[job[w].repo] = "seeded"

\* What the database or a worker knows of exists in GitLab.
KnownExists ==
    /\ project.namespace => group
    /\ \A r \in Repositories : repo[r].provider => hosted[r] # "absent"
    /\ \A w \in Workers : job[w].namespace => group
    /\ \A w \in Workers : job[w].provider => hosted[job[w].repo] # "absent"

\* What exists in GitLab and was answered is known to the database or to a worker.
ObjectsKnown ==
    /\ group /\ Group \notin lost => project.namespace \/ \E w \in Workers : job[w].namespace
    /\ \A r \in Repositories : hosted[r] # "absent" /\ r \notin lost =>
          repo[r].provider \/ \E w \in Workers : job[w].repo = r /\ job[w].provider

\* The row lock lets one provisioner at a time look for the Infisical project.
OneProvisioner ==
    /\ \A v, w \in Workers : pc[v] \in Locking /\ pc[w] \in Locking => v = w
    /\ \A w \in Workers : pc[w] = "register" => secrets = 0
    /\ secrets <= 1

Inv == TypeOK /\ CallFits /\ JobFits /\ KnownExists /\ ObjectsKnown /\ OneProvisioner
           /\ ActiveIsSeeded

LEMMA NoJobType == NoJob \in JobType /\ NoJob.namespace = FALSE /\ NoJob.provider = FALSE
  BY DEF NoJob, JobType

LEMMA InitInv == Init => Inv
<1>1. SUFFICES ASSUME Init PROVE Inv
  OBVIOUS
<1>2. NewCall \in CallType /\ NewCall.pc = "new"
  BY DEF NewCall, CallType
<1>4. TypeOK
  BY <1>1, <1>2, NoJobType DEF Init, TypeOK, ProjectType, RepoType, States, Stages
<1> QED
  BY <1>1, <1>2, NoJobType, <1>4 DEF Init, Inv, CallFits, JobFits, KnownExists, ObjectsKnown,
     OneProvisioner, ActiveIsSeeded, Working, Locking

-----------------------------------------------------------------------------
(* Requests                                                                *)

\* Writing the state keeps the rest of a row.
LEMMA ProjectWithState ==
    ASSUME NEW p \in ProjectType, NEW s \in States
    PROVE  [p EXCEPT !.state = s] \in ProjectType /\ [p EXCEPT !.state = s].namespace = p.namespace
  BY DEF ProjectType

LEMMA RepoWithState ==
    ASSUME NEW n \in RepoType, NEW s \in States
    PROVE  /\ [n EXCEPT !.state = s] \in RepoType
           /\ [n EXCEPT !.state = s].state = s
           /\ [n EXCEPT !.state = s].provider = n.provider
  BY DEF RepoType

\* A finished request fits.
LEMMA FinishedFits ==
    ASSUME Inv, NEW c \in Calls, Finished(c)
    PROVE  call' \in [Calls -> CallType] /\ CallFits'
<1>1. PICK done \in CallType : done = [NewCall EXCEPT !.pc = "done"] /\ done.pc = "done"
  <2>1. [NewCall EXCEPT !.pc = "done"] = [pc |-> "done", kind |-> None, repo |-> None]
    BY DEF NewCall
  <2> QED
    BY <2>1 DEF CallType
<1>2. call' = [call EXCEPT ![c] = done]
  BY <1>1 DEF Finished
<1> QED
  BY <1>1, <1>2 DEF Inv, TypeOK, CallFits

\* Requests leave the workers and the products alone. They may write any state of a
\* repository but "active", and keep what is known of it.
RequestWrites ==
    /\ project' \in ProjectType /\ project'.namespace = project.namespace
    /\ repo' \in [Repositories -> RepoType]
    /\ \A r \in Repositories : /\ repo'[r].provider = repo[r].provider
                               /\ repo'[r].state = "active" => repo[r].state = "active"
    /\ call' \in [Calls -> CallType] /\ CallFits'
    /\ faults' \in Nat
    /\ UNCHANGED <<context, pc, job, group, hosted, secrets, lost>>

LEMMA RequestFrame == ASSUME Inv, RequestWrites PROVE Inv'
<1>1. TypeOK'
  BY DEF RequestWrites, Inv, TypeOK
<1>2. JobFits' /\ OneProvisioner'
  BY DEF RequestWrites, Inv, JobFits, OneProvisioner
<1>3. KnownExists' /\ ObjectsKnown'
  BY DEF RequestWrites, Inv, KnownExists, ObjectsKnown
<1>4. ActiveIsSeeded'
  BY DEF RequestWrites, Inv, ActiveIsSeeded
<1> QED
  BY <1>1, <1>2, <1>3, <1>4 DEF RequestWrites, Inv

LEMMA RequestInv == ASSUME Inv, NEW c \in Calls, Request(c) PROVE Inv'
<1>1. project \in ProjectType /\ repo \in [Repositories -> RepoType] /\ faults \in Nat
  BY DEF Inv, TypeOK
<1>2. \A r \in Repositories : repo[r].provider \in BOOLEAN /\ repo[r].claimed \in BOOLEAN
  BY <1>1 DEF RepoType
<1>a. "provisioning" \in States /\ "archived" \in States
  BY DEF States
<1>3. CASE CreateProject(c)
  <2>1. PICK p \in ProjectType : p = [project EXCEPT !.state = "provisioning"]
                                  /\ p.namespace = project.namespace
    BY <1>a, <1>1, ProjectWithState
  <2>2. PICK t \in CallType : t = [pc |-> "commit", kind |-> "create", repo |-> Default]
    BY DefaultType DEF CallType, Kinds
  <2>3. project' = p /\ call' = [call EXCEPT ![c] = t]
    BY <1>3, <2>1, <2>2 DEF CreateProject
  <2>4. call' \in [Calls -> CallType] /\ CallFits'
    BY <2>2, <2>3, DefaultType DEF Inv, TypeOK, CallFits
  <2>5. UNCHANGED <<repo, context, pc, job, group, hosted, secrets, lost, faults>>
    BY <1>3 DEF CreateProject, products
  <2>w. RequestWrites
    BY <1>1, <2>1, <2>3, <2>4, <2>5 DEF RequestWrites
  <2> QED
    BY <2>w, RequestFrame
<1>4. ASSUME NEW k \in Kinds, NEW r \in Repositories, Begin(c, k, r) PROVE Inv'
  <2>0. PICK x \in Repositories \cup {None} :
            x = (IF k \in {"archive", "restore"} THEN None ELSE r)
    OBVIOUS
  <2>1. PICK t \in CallType : t = [pc |-> "commit", kind |-> k, repo |-> x]
    BY DEF CallType
  <2>2. call' = [call EXCEPT ![c] = t]
    BY <1>4, <2>0, <2>1 DEF Begin
  <2>3. call' \in [Calls -> CallType] /\ CallFits'
    BY <2>0, <2>1, <2>2 DEF Inv, TypeOK, CallFits
  <2>4. UNCHANGED <<project, repo, context, pc, job, group, hosted, secrets, lost, faults>>
    BY <1>4 DEF Begin, products, rows
  <2>w. RequestWrites
    BY <1>1, <2>3, <2>4 DEF RequestWrites
  <2> QED
    BY <2>w, RequestFrame
<1>5. CASE CommitCreate(c)
  <2>1. call[c].repo \in Repositories /\ repo[call[c].repo] \in RepoType
    BY <1>1, <1>5 DEF CommitCreate, Requested, Inv, CallFits
  <2>o. PICK o \in RepoType : o = repo[call[c].repo]
    BY <2>1
  <2>2. PICK n \in RepoType : n = [o EXCEPT !.state = "provisioning"]
                               /\ n.state = "provisioning" /\ n.provider = o.provider
    BY <1>a, RepoWithState
  <2>3. repo' = [repo EXCEPT ![call[c].repo] = n] \/ repo' = repo
    BY <1>5, <2>o, <2>2 DEF CommitCreate
  <2>4. call' \in [Calls -> CallType] /\ CallFits'
    BY <1>5, FinishedFits DEF CommitCreate
  <2>5. UNCHANGED <<project, context, pc, job, group, hosted, secrets, lost, faults>>
    BY <1>5 DEF CommitCreate, Finished, products
  <2>w. RequestWrites
    BY <1>1, <2>1, <2>o, <2>2, <2>3, <2>4, <2>5 DEF RequestWrites
  <2> QED
    BY <2>w, RequestFrame
<1>6. CASE CommitRetry(c)
  <2>1. call[c].repo \in Repositories
    BY <1>6 DEF CommitRetry, Requested, Inv, CallFits
  <2>2. PICK n \in RepoType : n = [state |-> "provisioning", claimed |-> FALSE,
                                   provider |-> repo[call[c].repo].provider]
    BY <1>2, <2>1 DEF RepoType, States
  <2>3. repo' = [repo EXCEPT ![call[c].repo] = n]
    BY <1>6, <2>2 DEF CommitRetry
  <2>4. PICK p \in ProjectType : p = [project EXCEPT !.state = "provisioning"]
                                  /\ p.namespace = project.namespace
    BY <1>a, <1>1, ProjectWithState
  <2>5. project' \in ProjectType /\ project'.namespace = project.namespace
    BY <1>1, <1>6, <2>4 DEF CommitRetry
  <2>6. call' \in [Calls -> CallType] /\ CallFits'
    BY <1>6, FinishedFits DEF CommitRetry
  <2>7. UNCHANGED <<context, pc, job, group, hosted, secrets, lost, faults>>
    BY <1>6 DEF CommitRetry, Finished, products
  <2>w. RequestWrites
    BY <1>1, <2>1, <2>2, <2>3, <2>5, <2>6, <2>7 DEF RequestWrites
  <2> QED
    BY <2>w, RequestFrame
<1>7. CASE CommitDiscard(c)
  <2>1. call[c].repo \in Repositories /\ repo[call[c].repo] \in RepoType
    BY <1>1, <1>7 DEF CommitDiscard, Requested, Inv, CallFits
  <2>o. PICK o \in RepoType : o = repo[call[c].repo]
    BY <2>1
  <2>2. PICK n \in RepoType : n = [o EXCEPT !.state = "archived"]
                               /\ n.state = "archived" /\ n.provider = o.provider
    BY <1>a, RepoWithState
  <2>3. repo' = [repo EXCEPT ![call[c].repo] = n]
    BY <1>7, <2>o, <2>2 DEF CommitDiscard
  <2>4. call' \in [Calls -> CallType] /\ CallFits'
    BY <1>7, FinishedFits DEF CommitDiscard
  <2>5. UNCHANGED <<project, context, pc, job, group, hosted, secrets, lost, faults>>
    BY <1>7 DEF CommitDiscard, Finished, products
  <2>w. RequestWrites
    BY <1>1, <2>1, <2>o, <2>2, <2>3, <2>4, <2>5 DEF RequestWrites
  <2> QED
    BY <2>w, RequestFrame
<1>8. CASE CommitArchive(c)
  <2>1. PICK s \in States : s = (IF call[c].kind = "archive" THEN "archived" ELSE "active")
    BY DEF States
  <2>2. PICK p \in ProjectType : p = [project EXCEPT !.state = s]
                                  /\ p.namespace = project.namespace
    BY <1>1, ProjectWithState
  <2>3. project' = p
    BY <1>8, <2>1, <2>2 DEF CommitArchive
  <2>4. call' \in [Calls -> CallType] /\ CallFits'
    BY <1>8, FinishedFits DEF CommitArchive
  <2>5. UNCHANGED <<repo, context, pc, job, group, hosted, secrets, lost, faults>>
    BY <1>8 DEF CommitArchive, Finished, products
  <2>w. RequestWrites
    BY <1>1, <2>2, <2>3, <2>4, <2>5 DEF RequestWrites
  <2> QED
    BY <2>w, RequestFrame
<1>9. CASE Abort(c)
  <2>1. PICK done \in CallType : done = [NewCall EXCEPT !.pc = "done"] /\ done.pc = "done"
    <3>1. [NewCall EXCEPT !.pc = "done"] = [pc |-> "done", kind |-> None, repo |-> None]
      BY DEF NewCall
    <3> QED
      BY <3>1 DEF CallType
  <2>2. call' = [call EXCEPT ![c] = done]
    BY <1>9, <2>1 DEF Abort
  <2>3. call' \in [Calls -> CallType] /\ CallFits'
    BY <2>1, <2>2 DEF Inv, TypeOK, CallFits
  <2>4. UNCHANGED <<project, repo, context, pc, job, group, hosted, secrets, lost>>
    BY <1>9 DEF Abort, products, rows
  <2>5. faults' \in Nat
    BY <1>1, <1>9 DEF Abort
  <2>w. RequestWrites
    BY <1>1, <2>3, <2>4, <2>5 DEF RequestWrites
  <2> QED
    BY <2>w, RequestFrame
<1> QED
  BY <1>3, <1>4, <1>5, <1>6, <1>7, <1>8, <1>9 DEF Request, Commit

-----------------------------------------------------------------------------
(* Workers                                                                 *)

LEMMA RepoWithClaim ==
    ASSUME NEW n \in RepoType
    PROVE  /\ [n EXCEPT !.claimed = TRUE] \in RepoType
           /\ [n EXCEPT !.claimed = TRUE].state = n.state
           /\ [n EXCEPT !.claimed = TRUE].provider = n.provider
  BY DEF RepoType

LEMMA JobWithNamespace ==
    ASSUME NEW j \in JobType
    PROVE  /\ [j EXCEPT !.namespace = TRUE] \in JobType
           /\ [j EXCEPT !.namespace = TRUE].namespace = TRUE
           /\ [j EXCEPT !.namespace = TRUE].repo = j.repo
           /\ [j EXCEPT !.namespace = TRUE].provider = j.provider
  BY DEF JobType

LEMMA JobWithProvider ==
    ASSUME NEW j \in JobType
    PROVE  /\ [j EXCEPT !.provider = TRUE] \in JobType
           /\ [j EXCEPT !.provider = TRUE].provider = TRUE
           /\ [j EXCEPT !.provider = TRUE].repo = j.repo
           /\ [j EXCEPT !.provider = TRUE].namespace = j.namespace
  BY DEF JobType

\* Steps that neither write rows nor create anything, and change nothing that a
\* worker knows: the stage they lead to has to fit what is known.
LEMMA StageInv ==
    ASSUME Inv, NEW w \in Workers, NEW s \in Stages, pc' = [pc EXCEPT ![w] = s],
           s \in Working <=> pc[w] \in Working, s # "load",
           s \in {"host", "seed", "complete"} => job[w].namespace,
           s \in {"seed", "complete"} => job[w].provider,
           s = "complete" => hosted[job[w].repo] = "seeded",
           s \in Locking => pc[w] \in Locking \/ \A v \in Workers : pc[v] \notin Locking,
           s = "register" => secrets = 0,
           UNCHANGED <<project, repo, context, call, job, group, hosted, secrets, lost>>,
           faults' \in Nat
    PROVE  Inv'
<1>1. TypeOK' /\ CallFits' /\ KnownExists' /\ ObjectsKnown' /\ ActiveIsSeeded'
  BY DEF Inv, TypeOK, CallFits, KnownExists, ObjectsKnown, ActiveIsSeeded
<1>2. JobFits'
  BY DEF Inv, TypeOK, JobFits
<1>3. OneProvisioner'
  BY DEF Inv, TypeOK, OneProvisioner
<1> QED
  BY <1>1, <1>2, <1>3 DEF Inv

\* Claiming a repository and reading its job.
LEMMA ClaimInv ==
    ASSUME Inv, NEW w \in Workers, NEW r \in Repositories, Claim(w, r)
    PROVE  Inv'
<1>1. PICK o \in RepoType : o = repo[r]
  BY DEF Inv, TypeOK
<1>2. PICK n \in RepoType : n = [o EXCEPT !.claimed = TRUE]
                             /\ n.state = o.state /\ n.provider = o.provider
  BY RepoWithClaim
<1>3. repo' = [repo EXCEPT ![r] = n]
  BY <1>1, <1>2 DEF Claim
<1>4. PICK j \in JobType : j = [repo |-> r, namespace |-> FALSE, provider |-> FALSE]
  BY DEF JobType
<1>5. job' = [job EXCEPT ![w] = j] /\ ~j.namespace /\ ~j.provider /\ j.repo = r
  BY <1>4 DEF Claim
<1>6. /\ pc' = [pc EXCEPT ![w] = "load"] /\ pc[w] = "idle"
      /\ UNCHANGED <<project, context, call, group, hosted, secrets, lost, faults>>
  BY DEF Claim, GoTo, products
<1>7. pc' \in [Workers -> Stages] /\ job' \in [Workers -> JobType]
  BY <1>5, <1>6 DEF Inv, TypeOK, Stages
<1>8. ~job[w].namespace /\ ~job[w].provider
  BY <1>6 DEF Inv, JobFits, Working
<1>9. TypeOK' /\ CallFits'
  BY <1>3, <1>6, <1>7 DEF Inv, TypeOK, CallFits
<1>10. JobFits'
  BY <1>5, <1>6 DEF Inv, TypeOK, JobFits, Working
<1>11. \A q \in Repositories : repo'[q].provider = repo[q].provider /\ repo'[q].state = repo[q].state
  BY <1>1, <1>2, <1>3 DEF Inv, TypeOK
<1>12. KnownExists' /\ ActiveIsSeeded'
  BY <1>5, <1>6, <1>11 DEF Inv, TypeOK, KnownExists, ActiveIsSeeded
<1>13. \A v \in Workers : job[v].namespace \/ job[v].provider => job'[v] = job[v]
  BY <1>5, <1>8 DEF Inv, TypeOK
<1>14. ObjectsKnown'
  BY <1>6, <1>11, <1>13 DEF Inv, ObjectsKnown
<1>15. OneProvisioner'
  BY <1>6 DEF Inv, TypeOK, OneProvisioner, Locking
<1> QED
  BY <1>9, <1>10, <1>12, <1>14, <1>15 DEF Inv

LEMMA LoadInv == ASSUME Inv, NEW w \in Workers, Load(w) PROVE Inv'
<1>0. pc[w] = "load" /\ job[w].repo \in Repositories
  BY DEF Load, Inv, JobFits, Working
<1>1. project.namespace \in BOOLEAN /\ repo[job[w].repo].provider \in BOOLEAN
  BY <1>0 DEF Inv, TypeOK, ProjectType, RepoType
<1>2. PICK j \in JobType : j = [repo |-> job[w].repo, namespace |-> project.namespace,
                                provider |-> repo[job[w].repo].provider]
  BY <1>0, <1>1 DEF JobType
<1>3. /\ job' = [job EXCEPT ![w] = j]
      /\ j.repo = job[w].repo /\ j.namespace = project.namespace
      /\ j.provider = repo[job[w].repo].provider
  BY <1>2 DEF Load, Inv, TypeOK
<1>4. /\ pc' = [pc EXCEPT ![w] = "namespace"]
      /\ UNCHANGED <<project, repo, context, call, group, hosted, secrets, lost, faults>>
  BY DEF Load, GoTo, products, rows
<1>5. pc' \in [Workers -> Stages] /\ job' \in [Workers -> JobType]
  BY <1>3, <1>4 DEF Inv, TypeOK, Stages
<1>6. TypeOK' /\ CallFits' /\ ActiveIsSeeded'
  BY <1>4, <1>5 DEF Inv, TypeOK, CallFits, ActiveIsSeeded
<1>7. JobFits'
  BY <1>0, <1>3, <1>4 DEF Inv, TypeOK, JobFits, Working
<1>8. KnownExists'
  BY <1>0, <1>3, <1>4 DEF Inv, TypeOK, KnownExists
<1>9. ObjectsKnown'
  <2>1. ~job[w].namespace /\ ~job[w].provider
    BY <1>0 DEF Inv, JobFits, Working
  <2>2. \A v \in Workers : job[v].namespace \/ job[v].provider => job'[v] = job[v]
    BY <1>3, <2>1 DEF Inv, TypeOK
  <2> QED
    BY <1>4, <2>2 DEF Inv, ObjectsKnown
<1>10. OneProvisioner'
  BY <1>0, <1>4 DEF Inv, TypeOK, OneProvisioner, Locking
<1> QED
  BY <1>6, <1>7, <1>8, <1>9, <1>10 DEF Inv

\* Creating the group, a project in it, or its first commit.
LEMMA MakeNamespaceInv == ASSUME Inv, NEW w \in Workers, MakeNamespace(w) PROVE Inv'
<1>0. pc[w] = "namespace" /\ UNCHANGED <<project, repo, context, call, hosted, secrets, lost, faults>>
  BY DEF MakeNamespace, rows
<1>1. CASE group /\ ~job[w].namespace
  <2>1. pc' = [pc EXCEPT ![w] = "fail"] /\ UNCHANGED <<job, group>>
    BY <1>1 DEF MakeNamespace, GoTo
  <2>2. faults' \in Nat
    BY <1>0 DEF Inv, TypeOK
  <2> QED
    BY <1>0, <2>1, <2>2, StageInv DEF Working, Locking, Stages
<1>2. CASE ~(group /\ ~job[w].namespace)
  <2>1. PICK o \in JobType : o = job[w]
    BY DEF Inv, TypeOK
  <2>2. PICK j \in JobType : j = [o EXCEPT !.namespace = TRUE] /\ j.namespace = TRUE
                             /\ j.repo = o.repo /\ j.provider = o.provider
    BY JobWithNamespace
  <2>3. /\ job' = [job EXCEPT ![w] = j] /\ group' = TRUE
        /\ pc' = [pc EXCEPT ![w] = "host"]
    BY <1>2, <2>1, <2>2 DEF MakeNamespace, GoTo
  <2>4. pc' \in [Workers -> Stages] /\ job' \in [Workers -> JobType]
    BY <2>3 DEF Inv, TypeOK, Stages
  <2>5. TypeOK' /\ CallFits'
    BY <1>0, <2>3, <2>4 DEF Inv, TypeOK, CallFits
  <2>6. \A v \in Workers : job'[v].repo = job[v].repo /\ job'[v].provider = job[v].provider
    BY <2>1, <2>2, <2>3 DEF Inv, TypeOK
  <2>7. job'[w].namespace /\ \A v \in Workers : v # w => job'[v] = job[v]
    BY <2>2, <2>3 DEF Inv, TypeOK
  <2>8. JobFits'
    BY <1>0, <2>3, <2>6, <2>7 DEF Inv, TypeOK, JobFits, Working
  <2>9. KnownExists' /\ ActiveIsSeeded'
    BY <1>0, <2>3, <2>6 DEF Inv, KnownExists, ActiveIsSeeded
  <2>10. ObjectsKnown'
    BY <1>0, <2>6, <2>7 DEF Inv, ObjectsKnown
  <2>11. OneProvisioner'
    BY <1>0, <2>3 DEF Inv, TypeOK, OneProvisioner, Locking
  <2> QED
    BY <2>5, <2>8, <2>9, <2>10, <2>11 DEF Inv
<1> QED
  BY <1>1, <1>2

LEMMA HostInv == ASSUME Inv, NEW w \in Workers, Host(w) PROVE Inv'
<1>0. /\ pc[w] = "host" /\ job[w].namespace /\ job[w].repo \in Repositories
      /\ UNCHANGED <<project, repo, context, call, group, secrets, lost, faults>>
  BY DEF Host, rows, Inv, JobFits, Working
<1>1. faults \in Nat /\ pc[w] \notin Locking
  BY <1>0 DEF Inv, TypeOK, Locking
<1>2. CASE job[w].provider
  <2>1. /\ pc' = [pc EXCEPT ![w] = Resumed(job[w].repo)]
        /\ UNCHANGED <<job, hosted>>
    BY <1>2 DEF Host, GoTo
  <2>2. CASE hosted[job[w].repo] = "seeded"
    <3>1. pc' = [pc EXCEPT ![w] = "complete"]
      BY <2>1, <2>2 DEF Resumed
    <3> QED
      BY <1>0, <1>1, <1>2, <2>1, <2>2, <3>1, StageInv DEF Working, Locking, Stages
  <2>3. CASE hosted[job[w].repo] # "seeded"
    <3>1. pc' = [pc EXCEPT ![w] = "seed"]
      BY <2>1, <2>3 DEF Resumed
    <3> QED
      BY <1>0, <1>1, <1>2, <2>1, <3>1, StageInv DEF Working, Locking, Stages
  <2> QED
    BY <2>2, <2>3
<1>3. CASE ~job[w].provider /\ hosted[job[w].repo] # "absent"
  <2>1. pc' = [pc EXCEPT ![w] = "fail"] /\ UNCHANGED <<job, hosted>>
    BY <1>3 DEF Host, GoTo
  <2> QED
    BY <1>0, <1>1, <2>1, StageInv DEF Working, Locking, Stages
<1>4. CASE ~job[w].provider /\ hosted[job[w].repo] = "absent"
  <2>1. PICK o \in JobType : o = job[w]
    BY DEF Inv, TypeOK
  <2>2. PICK j \in JobType : j = [o EXCEPT !.provider = TRUE] /\ j.provider = TRUE
                             /\ j.repo = o.repo /\ j.namespace = o.namespace
    BY JobWithProvider
  <2>3. /\ job' = [job EXCEPT ![w] = j]
        /\ hosted' = [hosted EXCEPT ![job[w].repo] = "bare"]
        /\ pc' = [pc EXCEPT ![w] = "seed"]
    BY <1>4, <2>1, <2>2 DEF Host, GoTo
  <2>4. /\ pc' \in [Workers -> Stages] /\ job' \in [Workers -> JobType]
        /\ hosted' \in [Repositories -> {"absent", "bare", "seeded"}]
    BY <2>3 DEF Inv, TypeOK, Stages
  <2>5. TypeOK' /\ CallFits'
    BY <1>0, <2>4 DEF Inv, TypeOK, CallFits
  <2>6. \A v \in Workers : job'[v].repo = job[v].repo /\ job'[v].namespace = job[v].namespace
    BY <2>1, <2>2, <2>3 DEF Inv, TypeOK
  <2>7. job'[w].provider /\ \A v \in Workers : v # w => job'[v] = job[v]
    BY <2>2, <2>3 DEF Inv, TypeOK
  <2>8. \A r \in Repositories : r # job[w].repo => hosted'[r] = hosted[r]
    BY <2>3 DEF Inv, TypeOK
  <2>9. hosted'[job[w].repo] = "bare"
    BY <1>0, <2>3 DEF Inv, TypeOK
  <2>10. \A v \in Workers : job[v].provider => job[v].repo # job[w].repo
    BY <1>4 DEF Inv, KnownExists
  <2>11. \A v \in Workers : pc[v] = "complete" =>
            hosted'[job[v].repo] = hosted[job[v].repo] /\ job[v].repo \in Repositories
    BY <2>8, <2>10 DEF Inv, JobFits, Working
  <2>12. JobFits'
    BY <1>0, <2>3, <2>6, <2>7, <2>11 DEF Inv, TypeOK, JobFits, Working
  <2>13. KnownExists'
    <3>1. \A r \in Repositories : repo[r].provider => hosted'[r] # "absent"
      BY <2>8, <2>9 DEF Inv, KnownExists
    <3>2. \A v \in Workers : job'[v].provider => hosted'[job'[v].repo] # "absent"
      <4>1. SUFFICES ASSUME NEW v \in Workers, v # w, job[v].provider
                     PROVE  hosted'[job[v].repo] # "absent"
        BY <2>6, <2>7, <2>9
      <4>2. job[v].repo \in Repositories
        BY <4>1 DEF Inv, JobFits, Working
      <4> QED
        BY <2>8, <2>10, <4>1, <4>2 DEF Inv, KnownExists
    <3> QED
      BY <1>0, <2>6, <3>1, <3>2 DEF Inv, KnownExists
  <2>14. ActiveIsSeeded'
    <3>1. ~repo[job[w].repo].provider
      BY <1>0, <1>4 DEF Inv, KnownExists
    <3>2. \A r \in Repositories : repo[r].state = "active" => hosted'[r] = hosted[r]
      BY <2>8, <3>1 DEF Inv, ActiveIsSeeded
    <3> QED
      BY <1>0, <3>2 DEF Inv, ActiveIsSeeded
  <2>15. ObjectsKnown'
    <3>1. \A r \in Repositories : hosted'[r] # "absent" /\ r \notin lost =>
              repo[r].provider \/ \E v \in Workers : job'[v].repo = r /\ job'[v].provider
      <4>1. SUFFICES ASSUME NEW r \in Repositories, hosted'[r] # "absent", r \notin lost,
                            ~repo[r].provider, r # job[w].repo
                     PROVE  \E v \in Workers : job'[v].repo = r /\ job'[v].provider
        BY <2>6, <2>7
      <4>2. PICK v \in Workers : job[v].repo = r /\ job[v].provider
        BY <2>8, <4>1 DEF Inv, ObjectsKnown
      <4> QED
        BY <2>7, <4>1, <4>2
    <3>2. group /\ Group \notin lost =>
              project.namespace \/ \E v \in Workers : job'[v].namespace
      BY <2>6 DEF Inv, ObjectsKnown
    <3> QED
      BY <1>0, <3>1, <3>2 DEF ObjectsKnown
  <2>16. OneProvisioner'
    BY <1>0, <2>3 DEF Inv, TypeOK, OneProvisioner, Locking
  <2> QED
    BY <2>5, <2>12, <2>13, <2>14, <2>15, <2>16 DEF Inv
<1> QED
  BY <1>2, <1>3, <1>4

LEMMA SeedInv == ASSUME Inv, NEW w \in Workers, Seed(w) PROVE Inv'
<1>0. /\ pc[w] = "seed" /\ job[w].namespace /\ job[w].provider /\ job[w].repo \in Repositories
      /\ hosted' = [hosted EXCEPT ![job[w].repo] = "seeded"]
      /\ UNCHANGED <<project, repo, context, call, job, group, secrets, lost, faults>>
  BY DEF Seed, rows, Inv, JobFits, Working
<1>1. PICK s \in {"complete", "fail"} : pc' = [pc EXCEPT ![w] = s]
  BY DEF Seed, GoTo
<1>2. TypeOK' /\ CallFits'
  BY <1>0, <1>1 DEF Inv, TypeOK, CallFits, Stages
<1>3. \A r \in Repositories : /\ hosted'[r] # "absent" <=> hosted[r] # "absent" \/ r = job[w].repo
                             /\ hosted[r] = "seeded" => hosted'[r] = "seeded"
  BY <1>0 DEF Inv, TypeOK
<1>4. hosted'[job[w].repo] = "seeded" /\ hosted[job[w].repo] # "absent"
  BY <1>0 DEF Inv, TypeOK, KnownExists
<1>5. JobFits'
  BY <1>0, <1>1, <1>3, <1>4 DEF Inv, TypeOK, JobFits, Working
<1>6. \A v \in Workers : job[v].provider => job[v].repo \in Repositories
  BY DEF Inv, JobFits, Working
<1>7. KnownExists' /\ ActiveIsSeeded'
  BY <1>0, <1>3, <1>4, <1>6 DEF Inv, KnownExists, ActiveIsSeeded
<1>8. ObjectsKnown'
  BY <1>0, <1>3, <1>4 DEF Inv, ObjectsKnown
<1>9. OneProvisioner'
  BY <1>0, <1>1 DEF Inv, TypeOK, OneProvisioner, Locking
<1> QED
  BY <1>2, <1>5, <1>7, <1>8, <1>9 DEF Inv

\* A request that fails: what it did may have happened, and if so nobody was told.
LEMMA StepFailsInv == ASSUME Inv, NEW w \in Workers, StepFails(w) PROVE Inv'
<1>0. /\ pc[w] \in {"namespace", "host", "seed", "complete"} /\ job[w].repo \in Repositories
      /\ pc' = [pc EXCEPT ![w] = "fail"]
      /\ UNCHANGED <<project, repo, context, call, job, secrets>>
      /\ pc[w] = "seed" => job[w].provider
  BY DEF StepFails, GoTo, rows, Inv, JobFits, Working
<1>1. faults' \in Nat /\ pc' \in [Workers -> Stages]
  BY <1>0 DEF StepFails, Inv, TypeOK, Stages
<1>2. CASE UNCHANGED <<group, hosted, lost>>
  BY <1>0, <1>1, <1>2, StageInv DEF Working, Locking, Stages
<1>3. CASE /\ pc[w] = "namespace" /\ ~group
           /\ group' = TRUE /\ lost' = lost \cup {Group} /\ UNCHANGED hosted
  <2>1. TypeOK' /\ CallFits'
    BY <1>0, <1>1, <1>3 DEF Inv, TypeOK, CallFits
  <2>2. JobFits'
    BY <1>0, <1>3 DEF Inv, TypeOK, JobFits, Working
  <2>3. KnownExists' /\ ObjectsKnown' /\ ActiveIsSeeded'
    BY <1>0, <1>3 DEF Inv, KnownExists, ObjectsKnown, ActiveIsSeeded
  <2>4. OneProvisioner'
    BY <1>0 DEF Inv, TypeOK, OneProvisioner, Locking
  <2> QED
    BY <2>1, <2>2, <2>3, <2>4 DEF Inv
<1>4. CASE /\ pc[w] = "host" /\ hosted[job[w].repo] = "absent"
           /\ hosted' = [hosted EXCEPT ![job[w].repo] = "bare"]
           /\ lost' = lost \cup {job[w].repo} /\ UNCHANGED group
  <2>1. TypeOK' /\ CallFits'
    BY <1>0, <1>1, <1>4 DEF Inv, TypeOK, CallFits
  <2>2. \A r \in Repositories : hosted'[r] = hosted[r] \/ (r = job[w].repo /\ hosted'[r] = "bare")
    BY <1>0, <1>4 DEF Inv, TypeOK
  <2>3. \A v \in Workers : job[v].provider =>
            job[v].repo \in Repositories /\ job[v].repo # job[w].repo
    BY <1>4 DEF Inv, JobFits, KnownExists, Working
  <2>4. \A v \in Workers : pc[v] = "complete" => job[v].provider
    BY DEF Inv, JobFits
  <2>5. JobFits'
    BY <1>0, <1>4, <2>2, <2>3, <2>4 DEF Inv, TypeOK, JobFits, Working
  <2>6. \A r \in Repositories : repo[r].provider => hosted'[r] = hosted[r]
    BY <1>4, <2>2 DEF Inv, KnownExists
  <2>7. KnownExists' /\ ActiveIsSeeded'
    BY <1>0, <1>4, <2>2, <2>3, <2>6 DEF Inv, KnownExists, ActiveIsSeeded
  <2>8. ObjectsKnown'
    BY <1>0, <1>4, <2>2 DEF Inv, ObjectsKnown
  <2>9. OneProvisioner'
    BY <1>0 DEF Inv, TypeOK, OneProvisioner, Locking
  <2> QED
    BY <2>1, <2>5, <2>7, <2>8, <2>9 DEF Inv
<1>5. CASE /\ pc[w] = "seed" /\ hosted' = [hosted EXCEPT ![job[w].repo] = "seeded"]
           /\ UNCHANGED <<group, lost>>
  <2>1. TypeOK' /\ CallFits'
    BY <1>0, <1>1, <1>5 DEF Inv, TypeOK, CallFits
  <2>2. \A r \in Repositories : hosted'[r] = hosted[r] \/ (r = job[w].repo /\ hosted'[r] = "seeded")
    BY <1>0, <1>5 DEF Inv, TypeOK
  <2>3. hosted[job[w].repo] # "absent"
    BY <1>0, <1>5 DEF Inv, KnownExists
  <2>4. \A v \in Workers : job[v].provider => job[v].repo \in Repositories
    BY DEF Inv, JobFits, Working
  <2>5. JobFits'
    BY <1>0, <2>2, <2>4 DEF Inv, TypeOK, JobFits, Working
  <2>6. KnownExists' /\ ActiveIsSeeded'
    BY <1>0, <1>5, <2>2, <2>3, <2>4 DEF Inv, KnownExists, ActiveIsSeeded
  <2>7. ObjectsKnown'
    BY <1>0, <1>5, <2>2, <2>3 DEF Inv, ObjectsKnown
  <2>8. OneProvisioner'
    BY <1>0 DEF Inv, TypeOK, OneProvisioner, Locking
  <2> QED
    BY <2>1, <2>5, <2>6, <2>7, <2>8 DEF Inv
<1> QED
  BY <1>2, <1>3, <1>4, <1>5 DEF StepFails

\* The end of a job: the rows take over what the worker knows.
EndWrites(w, p, n) ==
    /\ project' = p /\ repo' = [repo EXCEPT ![job[w].repo] = n]
    /\ p.namespace <=> project.namespace \/ job[w].namespace
    /\ n.provider <=> repo[job[w].repo].provider \/ job[w].provider
    /\ n.state = "active" => hosted[job[w].repo] = "seeded" /\ n.provider /\ p.namespace
    /\ pc' = [pc EXCEPT ![w] = "idle"] /\ job' = [job EXCEPT ![w] = NoJob]
    /\ UNCHANGED <<context, call, group, hosted, secrets, lost, faults>>

LEMMA EndInv ==
    ASSUME Inv, NEW w \in Workers, pc[w] \in {"complete", "fail"},
           NEW p \in ProjectType, NEW n \in RepoType, EndWrites(w, p, n)
    PROVE  Inv'
<1>0. job[w].repo \in Repositories
  BY DEF Inv, JobFits, Working
<1>1. PICK j \in JobType : j = NoJob /\ j.namespace = FALSE /\ j.provider = FALSE
  BY NoJobType
<1>2. job' = [job EXCEPT ![w] = j] /\ pc' = [pc EXCEPT ![w] = "idle"]
  BY <1>1 DEF EndWrites
<1>3. pc' \in [Workers -> Stages] /\ job' \in [Workers -> JobType]
  BY <1>2 DEF Inv, TypeOK, Stages
<1>4. project' \in ProjectType /\ repo' \in [Repositories -> RepoType]
  BY DEF EndWrites, Inv, TypeOK
<1>5. TypeOK' /\ CallFits'
  BY <1>3, <1>4 DEF EndWrites, Inv, TypeOK, CallFits
<1>6. /\ \A v \in Workers : v # w => job'[v] = job[v] /\ pc'[v] = pc[v]
      /\ job'[w] = j /\ pc'[w] = "idle"
  BY <1>2 DEF Inv, TypeOK
<1>7. JobFits'
  BY <1>1, <1>6 DEF EndWrites, Inv, JobFits, Working
<1>8. /\ \A r \in Repositories : r # job[w].repo => repo'[r] = repo[r]
      /\ repo'[job[w].repo] = n
  BY <1>0 DEF EndWrites, Inv, TypeOK
<1>9. KnownExists'
  <2>1. project'.namespace => group'
    BY DEF EndWrites, Inv, KnownExists
  <2>2. \A r \in Repositories : repo'[r].provider => hosted'[r] # "absent"
    BY <1>8 DEF EndWrites, Inv, KnownExists
  <2>3. \A v \in Workers : /\ job'[v].namespace => group'
                           /\ job'[v].provider => hosted'[job'[v].repo] # "absent"
    BY <1>1, <1>6 DEF EndWrites, Inv, KnownExists
  <2> QED
    BY <2>1, <2>2, <2>3 DEF KnownExists
<1>10. ActiveIsSeeded'
  <2>1. \A r \in Repositories \ {job[w].repo} : repo'[r].state = "active" =>
            hosted'[r] = "seeded" /\ repo'[r].provider /\ group' /\ project'.namespace
    BY <1>8 DEF EndWrites, Inv, ActiveIsSeeded
  <2>2. n.state = "active" =>
            hosted'[job[w].repo] = "seeded" /\ n.provider /\ group' /\ project'.namespace
    BY DEF EndWrites, Inv, KnownExists
  <2> QED
    BY <1>8, <2>1, <2>2 DEF ActiveIsSeeded
<1>11. ObjectsKnown'
  <2>1. group' /\ Group \notin lost' => project'.namespace \/ \E v \in Workers : job'[v].namespace
    <3>1. SUFFICES ASSUME group, Group \notin lost, ~project.namespace, ~job[w].namespace
                   PROVE  \E v \in Workers : job'[v].namespace
      BY DEF EndWrites
    <3>2. PICK v \in Workers : job[v].namespace
      BY <3>1 DEF Inv, ObjectsKnown
    <3> QED
      BY <1>6, <3>1, <3>2
  <2>2. ASSUME NEW r \in Repositories, hosted'[r] # "absent", r \notin lost'
        PROVE  repo'[r].provider \/ \E v \in Workers : job'[v].repo = r /\ job'[v].provider
    <3>1. hosted[r] # "absent" /\ r \notin lost
      BY <2>2 DEF EndWrites
    <3>2. CASE repo[r].provider
      BY <1>8, <3>2 DEF EndWrites
    <3>3. CASE ~repo[r].provider
      <4>1. PICK v \in Workers : job[v].repo = r /\ job[v].provider
        BY <3>1, <3>3 DEF Inv, ObjectsKnown
      <4>2. CASE v = w
        BY <1>8, <4>1, <4>2 DEF EndWrites
      <4>3. CASE v # w
        BY <1>6, <4>1, <4>3
      <4> QED
        BY <4>2, <4>3
    <3> QED
      BY <3>2, <3>3
  <2> QED
    BY <2>1, <2>2 DEF ObjectsKnown
<1>12. OneProvisioner'
  BY <1>6 DEF EndWrites, Inv, OneProvisioner, Locking
<1> QED
  BY <1>5, <1>7, <1>9, <1>10, <1>11, <1>12 DEF Inv

LEMMA CompleteInv == ASSUME Inv, NEW w \in Workers, Complete(w) PROVE Inv'
<1>1. pc[w] = "complete" /\ job[w].namespace /\ job[w].provider /\ hosted[job[w].repo] = "seeded"
  BY DEF Complete, Inv, JobFits
<1>2. PICK p \in ProjectType : p = [state |-> "active", namespace |-> TRUE]
  BY DEF ProjectType, States
<1>3. PICK n \in RepoType : n = [state |-> "active", claimed |-> FALSE, provider |-> TRUE]
  BY DEF RepoType, States
<1>4. p.namespace /\ n.provider
  BY <1>2, <1>3
<1>5. project' = p /\ repo' = [repo EXCEPT ![job[w].repo] = n]
  BY <1>2, <1>3 DEF Complete
<1>6. /\ pc' = [pc EXCEPT ![w] = "idle"] /\ job' = [job EXCEPT ![w] = NoJob]
      /\ UNCHANGED <<context, call, group, hosted, secrets, lost, faults>>
  BY DEF Complete, Ended, GoTo, products
<1>7. EndWrites(w, p, n)
  BY <1>1, <1>4, <1>5, <1>6 DEF EndWrites
<1> QED
  BY <1>1, <1>7, EndInv

LEMMA FailInv == ASSUME Inv, NEW w \in Workers, Fail(w) PROVE Inv'
<1>1. pc[w] = "fail" /\ job[w].repo \in Repositories /\ job[w] \in JobType
  BY DEF Fail, Inv, JobFits, Working, TypeOK
<1>2. /\ project.namespace \in BOOLEAN /\ repo[job[w].repo].provider \in BOOLEAN
      /\ job[w].namespace \in BOOLEAN /\ job[w].provider \in BOOLEAN /\ project.state \in States
  BY <1>1 DEF Inv, TypeOK, ProjectType, RepoType, JobType
<1>3. PICK s \in States : s = (IF project.state = "provisioning" THEN "failed" ELSE project.state)
  BY <1>2 DEF States
<1>k. Kept(w).namespace = job[w].namespace /\ Kept(w).provider = job[w].provider
  BY DEF Kept
<1>4. PICK a \in BOOLEAN : a = (project.namespace \/ Kept(w).namespace)
  BY <1>2, <1>k
<1>5. PICK b \in BOOLEAN : b = (repo[job[w].repo].provider \/ Kept(w).provider)
  BY <1>2, <1>k
<1>6. PICK p \in ProjectType : p = [state |-> s, namespace |-> a]
  BY DEF ProjectType
<1>7. PICK n \in RepoType : n = [state |-> "failed", claimed |-> FALSE, provider |-> b]
  BY DEF RepoType, States
<1>8. project' = p
  BY <1>3, <1>4, <1>6, Zenon DEF Fail
<1>9. repo' = [repo EXCEPT ![job[w].repo] = n]
  BY <1>5, <1>7, Zenon DEF Fail
<1>10. /\ p.namespace <=> project.namespace \/ job[w].namespace
       /\ n.provider <=> repo[job[w].repo].provider \/ job[w].provider
       /\ n.state # "active"
  BY <1>4, <1>5, <1>6, <1>7, <1>k
<1>11. /\ pc' = [pc EXCEPT ![w] = "idle"] /\ job' = [job EXCEPT ![w] = NoJob]
       /\ UNCHANGED <<context, call, group, hosted, secrets, lost, faults>>
  BY DEF Fail, Ended, GoTo, products
<1>12. EndWrites(w, p, n)
  BY <1>8, <1>9, <1>10, <1>11 DEF EndWrites
<1> QED
  BY <1>1, <1>12, EndInv

-----------------------------------------------------------------------------
(* The Infisical project                                                   *)

\* The holder of the lock ends, with or without a project.
LEMMA ProvisionerInv ==
    ASSUME Inv, NEW w \in Workers, pc[w] \in Locking, NEW s \in {"idle", "insert"},
           pc' = [pc EXCEPT ![w] = s], context' \in BOOLEAN, faults' \in Nat,
           secrets' = secrets \/ (pc[w] = "register" /\ secrets' = secrets + 1),
           UNCHANGED <<project, repo, call, job, group, hosted, lost>>
    PROVE  Inv'
<1>1. \A v \in Workers : v # w => pc'[v] = pc[v] /\ pc[v] \notin Locking
  BY DEF Inv, TypeOK, OneProvisioner
<1>2. pc'[w] = s
  BY DEF Inv, TypeOK
<1>3. secrets' \in Nat /\ secrets' <= 1
  BY DEF Inv, TypeOK, OneProvisioner
<1>4. TypeOK' /\ CallFits'
  BY <1>3 DEF Inv, TypeOK, CallFits, Stages
<1>5. JobFits'
  BY <1>1, <1>2 DEF Inv, JobFits, Working, Locking
<1>6. KnownExists' /\ ObjectsKnown' /\ ActiveIsSeeded'
  BY DEF Inv, KnownExists, ObjectsKnown, ActiveIsSeeded
<1>7. OneProvisioner'
  BY <1>1, <1>2, <1>3 DEF OneProvisioner, Locking
<1> QED
  BY <1>4, <1>5, <1>6, <1>7 DEF Inv

LEMMA LookForProjectInv == ASSUME Inv, NEW w \in Workers, LookForProject(w) PROVE Inv'
<1>1. \A v \in Workers : pc[v] \notin Locking
  BY DEF LookForProject, Locked, Locking
<1>2. /\ pc[w] = "idle" /\ pc' = [pc EXCEPT ![w] = "find"] /\ faults' \in Nat
      /\ UNCHANGED <<project, repo, context, call, job, group, hosted, secrets, lost>>
  BY DEF LookForProject, GoTo, rows, products, Inv, TypeOK
<1> QED
  BY <1>1, <1>2, StageInv DEF Working, Locking, Stages

LEMMA FindInv == ASSUME Inv, NEW w \in Workers, Find(w) PROVE Inv'
<1>1. PICK s \in {"insert", "register"} : s = (IF secrets > 0 THEN "insert" ELSE "register")
  OBVIOUS
<1>2. /\ pc[w] = "find" /\ pc' = [pc EXCEPT ![w] = s] /\ faults' \in Nat
      /\ UNCHANGED <<project, repo, context, call, job, group, hosted, secrets, lost>>
  BY <1>1 DEF Find, GoTo, rows, products, Inv, TypeOK
<1>3. s = "register" => secrets = 0
  BY <1>1 DEF Inv, TypeOK
<1> QED
  BY <1>2, <1>3, StageInv DEF Working, Locking, Stages

LEMMA RegisterInv == ASSUME Inv, NEW w \in Workers, Register(w) PROVE Inv'
<1>1. /\ pc[w] = "register" /\ pc' = [pc EXCEPT ![w] = "insert"] /\ secrets' = secrets + 1
      /\ context' \in BOOLEAN /\ faults' \in Nat
      /\ UNCHANGED <<project, repo, call, job, group, hosted, lost>>
  BY DEF Register, GoTo, rows, Inv, TypeOK
<1> QED
  BY <1>1, ProvisionerInv DEF Locking

LEMMA InsertContextInv == ASSUME Inv, NEW w \in Workers, InsertContext(w) PROVE Inv'
<1>1. /\ pc[w] = "insert" /\ pc' = [pc EXCEPT ![w] = "idle"] /\ secrets' = secrets
      /\ context' \in BOOLEAN /\ faults' \in Nat
      /\ UNCHANGED <<project, repo, call, job, group, hosted, lost>>
  BY DEF InsertContext, GoTo, products, Inv, TypeOK
<1> QED
  BY <1>1, ProvisionerInv DEF Locking

LEMMA InfisicalFailsInv == ASSUME Inv, NEW w \in Workers, InfisicalFails(w) PROVE Inv'
<1>1. /\ pc[w] \in {"find", "register"} /\ pc' = [pc EXCEPT ![w] = "idle"]
      /\ secrets' = secrets \/ (pc[w] = "register" /\ secrets' = secrets + 1)
      /\ context' \in BOOLEAN /\ faults' \in Nat
      /\ UNCHANGED <<project, repo, call, job, group, hosted, lost>>
  BY DEF InfisicalFails, GoTo, rows, Inv, TypeOK
<1> QED
  BY <1>1, ProvisionerInv DEF Locking

\* A worker dies: what it alone knew counts as lost.
LEMMA CrashInv == ASSUME Inv, NEW w \in Workers, Crash(w) PROVE Inv'
<1>0. /\ pc' = [pc EXCEPT ![w] = "idle"]
      /\ UNCHANGED <<project, repo, context, call, group, hosted, secrets>>
  BY DEF Crash, rows
<1>1. PICK j \in JobType : j = NoJob /\ j.namespace = FALSE /\ j.provider = FALSE
  BY NoJobType
<1>2. job' = [job EXCEPT ![w] = j]
  BY <1>1 DEF Crash
<1>3. /\ \A v \in Workers : v # w => job'[v] = job[v] /\ pc'[v] = pc[v]
      /\ job'[w] = j /\ pc'[w] = "idle"
  BY <1>0, <1>2 DEF Inv, TypeOK
<1>4. job[w].provider => job[w].repo \in Repositories
  BY DEF Inv, JobFits, Working
<1>5. /\ lost \subseteq lost' /\ lost' \subseteq Repositories \cup {Group}
      /\ job[w].namespace /\ ~project.namespace => Group \in lost'
      /\ job[w].provider /\ ~repo[job[w].repo].provider => job[w].repo \in lost'
  BY <1>4 DEF Crash, Inv, TypeOK
<1>6. faults' \in Nat
  BY DEF Crash, Inv, TypeOK
<1>7. TypeOK' /\ CallFits'
  BY <1>0, <1>2, <1>5, <1>6 DEF Inv, TypeOK, CallFits, Stages
<1>8. JobFits'
  BY <1>0, <1>1, <1>3 DEF Inv, JobFits, Working
<1>9. KnownExists' /\ ActiveIsSeeded'
  BY <1>0, <1>1, <1>3 DEF Inv, KnownExists, ActiveIsSeeded
<1>10. ObjectsKnown'
  <2>1. group' /\ Group \notin lost' => project'.namespace \/ \E v \in Workers : job'[v].namespace
    BY <1>0, <1>3, <1>5 DEF Inv, ObjectsKnown
  <2>2. ASSUME NEW r \in Repositories, hosted'[r] # "absent", r \notin lost', ~repo'[r].provider
        PROVE  \E v \in Workers : job'[v].repo = r /\ job'[v].provider
    <3>1. PICK v \in Workers : job[v].repo = r /\ job[v].provider
      BY <1>0, <1>5, <2>2 DEF Inv, ObjectsKnown
    <3>2. v # w
      BY <1>0, <1>5, <2>2, <3>1
    <3> QED
      BY <1>3, <3>1, <3>2
  <2> QED
    BY <2>1, <2>2 DEF ObjectsKnown
<1>11. OneProvisioner'
  BY <1>0, <1>3 DEF Inv, OneProvisioner, Locking
<1> QED
  BY <1>7, <1>8, <1>9, <1>10, <1>11 DEF Inv

-----------------------------------------------------------------------------
(* The theorems                                                            *)

LEMMA NextInv == Inv /\ [Next]_vars => Inv'
<1>1. SUFFICES ASSUME Inv, [Next]_vars PROVE Inv'
  OBVIOUS
<1>2. CASE UNCHANGED vars
  BY <1>1, <1>2 DEF vars, Inv, TypeOK, CallFits, JobFits, KnownExists, ObjectsKnown,
     OneProvisioner, ActiveIsSeeded
<1>3. ASSUME NEW c \in Calls, Request(c) PROVE Inv'
  BY <1>1, <1>3, RequestInv
<1>4. ASSUME NEW w \in Workers, NEW r \in Repositories, Claim(w, r) PROVE Inv'
  BY <1>1, <1>4, ClaimInv
<1>5. ASSUME NEW w \in Workers, Proceed(w) PROVE Inv'
  BY <1>1, <1>5, LoadInv, MakeNamespaceInv, HostInv, SeedInv, CompleteInv, FailInv, FindInv,
     RegisterInv, InsertContextInv DEF Proceed
<1>6. ASSUME NEW w \in Workers,
             LookForProject(w) \/ StepFails(w) \/ InfisicalFails(w) \/ Crash(w)
      PROVE  Inv'
  BY <1>1, <1>6, LookForProjectInv, StepFailsInv, InfisicalFailsInv, CrashInv
<1> QED
  BY <1>1, <1>2, <1>3, <1>4, <1>5, <1>6 DEF Next, Work

LEMMA Invariance == Spec => []Inv
  BY InitInv, NextInv, PTL DEF Spec

\* Every variable keeps its type, for any number of repositories, requests and workers.
THEOREM TypeCorrect == Spec => []TypeOK
<1>1. Inv => TypeOK
  BY DEF Inv
<1> QED
  BY <1>1, Invariance, PTL

\* An active repository exists in GitLab with its template, and its coordinates are
\* known (Complete, which looks at no state), after any failures and retries.
THEOREM ActiveMeansSeeded == Spec => []ActiveIsSeeded
<1>1. Inv => ActiveIsSeeded
  BY DEF Inv
<1> QED
  BY <1>1, Invariance, PTL

\* What fail() keeps is enough: once all workers are idle the database knows every object
\* whose creation was answered; and Infisical never holds two projects.
THEOREM NothingGetsOrphaned == Spec => []NothingIsOrphaned
<1>1. Inv => NothingIsOrphaned
  <2>1. SUFFICES ASSUME Inv PROVE NothingIsOrphaned
    OBVIOUS
  <2>2. ASSUME \A w \in Workers : pc[w] = "idle"
        PROVE  \A w \in Workers : ~job[w].namespace /\ ~job[w].provider
    BY <2>1, <2>2 DEF Inv, JobFits, Working
  <2> QED
    BY <2>1, <2>2 DEF Inv, ObjectsKnown, OneProvisioner, NothingIsOrphaned
<1> QED
  BY <1>1, Invariance, PTL
=============================================================================
