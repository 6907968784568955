------------------------------- MODULE Archives ------------------------------
(***************************************************************************)
(* ZIP downloads of Artifact Versions.  A request reserves space in a      *)
(* shared cache and queues a job; the one archive worker builds the ZIP    *)
(* under a key that depends on the version only; a ready archive expires   *)
(* after a day, and the worker deletes its object.                         *)
(*                                                                         *)
(* A method of SqlAlchemyArtifactArchiveStore is one transaction and one   *)
(* action.  compose.yaml deploys one archive worker: when it dies, docker  *)
(* starts it again.                                                        *)
(***************************************************************************)
EXTENDS FiniteSets, Functions, Integers

CONSTANTS Versions,    \* Artifact Versions with readable bytes
          Calls,       \* calls of POST .../archive
          Size,        \* Size[v]: the reservation _estimate_size asks for
          Cache,       \* artifact_archive_cache_bytes
          StaleAfter,  \* silence after which a build is started over (15 minutes)
          Retention,   \* life of a ready archive (24 hours)
          MaxClock,    \* bound: horizon of the clock
          MaxCrashes,  \* bound: deaths of the worker
          NoVersion

ASSUME SizeType == IsFiniteSet(Versions) /\ Size \in [Versions -> Nat]
ASSUME BoundsType ==
    /\ Cache \in Nat /\ StaleAfter \in Nat /\ Retention \in Nat \ {0}
    /\ MaxClock \in Nat /\ MaxCrashes \in Nat
ASSUME Sentinel == NoVersion \notin Versions

VARIABLES row,      \* artifact_download_archives; updated_at is kept for a build and
                    \* expires_at for a ready archive: nothing else reads them
          objects,  \* versions whose ZIP is in the bucket
          call,     \* call[c]: what a request is about and how far it is
          pc,       \* the worker's next step in run_once
          job,      \* the version it expires or builds
          due,      \* what expired_ready returned, less what is dealt with
          now,      \* the instant run_once was given
          clock, crashes

vars == <<row, objects, call, pc, job, due, now, clock, crashes>>
workerVars == <<pc, job, due, now>>
envVars == <<clock, crashes>>

JobStates == {"none", "pending", "building", "ready", "failed", "expired"}
WorkerPCs == {"idle", "expire", "mark", "claim", "build", "complete", "fail"}
CallPCs == {"new", "queue", "answered", "full", "refused"}
RowType == [state : JobStates, created : Nat, updated : Nat, expires : Nat]
CallType == [pc : CallPCs, version : Versions \cup {NoVersion}, now : Nat]

NoCall == [pc |-> "new", version |-> NoVersion, now |-> 0]

\* run_once returned, or the worker died and was started again.
Leave == pc' = "idle" /\ job' = NoVersion /\ due' = {} /\ now' = 0

Init ==
    /\ row = [v \in Versions |-> [state |-> "none", created |-> 0, updated |-> 0, expires |-> 0]]
    /\ objects = {}
    /\ call = [c \in Calls |-> NoCall]
    /\ pc = "idle"
    /\ job = NoVersion
    /\ due = {}
    /\ now = 0
    /\ clock = 0
    /\ crashes = 0

-----------------------------------------------------------------------------
(* ArtifactArchiveService.request. X_Something is X with a plausible bug:  *)
(* no action uses it, it shows that the properties notice the bug.         *)

Waiting(v) == row[v].state \in {"pending", "building"}

\* Ready at instant t, as request, status and ready() see it.
Downloadable(v, t) == row[v].state = "ready" /\ row[v].expires > t

\* reserved_archive_bytes, excluding v.
Reserved(t) == {u \in Versions : Waiting(u) \/ Downloadable(u, t)}
ReservedBeside(v, t) == SumFunctionOnSet(Size, Reserved(t) \ {v})

Fits(v, t) == ReservedBeside(v, t) + Size[v] <= Cache

\* Too large, or its bytes are not accessible to the caller.
Refuse(c) ==
    /\ call[c].pc = "new"
    /\ call' = [call EXCEPT ![c].pc = "refused"]
    /\ UNCHANGED <<row, objects, workerVars, envVars>>

LookUp(c, v) ==
    /\ call[c].pc = "new"
    /\ LET answer == IF Waiting(v) \/ Downloadable(v, clock) THEN "answered"
                     ELSE IF Fits(v, clock) THEN "queue" ELSE "full"
       IN call' = [call EXCEPT ![c] = IF answer = "queue"
                                       THEN [pc |-> "queue", version |-> v, now |-> clock]
                                       ELSE [NoCall EXCEPT !.pc = answer]]
    /\ UNCHANGED <<row, objects, workerVars, envVars>>

\* queue_archive, under the advisory lock: capacity is counted again, the state
\* of the job is not looked at again. A row that exists keeps its created_at.
MayQueue_Unchecked(v, t) == t <= clock
MayQueue(v, t) == Fits(v, t)

QueuedRow(v, t) ==
    [state |-> "pending", created |-> IF row[v].state = "none" THEN t ELSE row[v].created,
     updated |-> 0, expires |-> 0]

\* The job of v in state s, the times of its former state forgotten.
Moved(v, s) == [row[v] EXCEPT !.state = s, !.updated = 0, !.expires = 0]

Queue(c) ==
    LET v == call[c].version IN
    /\ call[c].pc = "queue"
    /\ \/ /\ MayQueue(v, call[c].now)
          /\ row' = [row EXCEPT ![v] = QueuedRow(v, call[c].now)]
          /\ call' = [call EXCEPT ![c] = [NoCall EXCEPT !.pc = "answered"]]
       \/ /\ ~MayQueue(v, call[c].now)
          /\ call' = [call EXCEPT ![c] = [NoCall EXCEPT !.pc = "full"]]
          /\ UNCHANGED row
    /\ UNCHANGED <<objects, workerVars, envVars>>

-----------------------------------------------------------------------------
(* ArtifactArchiveCoordinator.run_once                                     *)

Expired_Early(v) == row[v].state = "ready"
Expired(v) == row[v].state = "ready" /\ row[v].expires <= clock

StartCycle ==
    /\ pc = "idle"
    /\ pc' = "expire"
    /\ now' = clock
    /\ due' = {v \in Versions : Expired(v)}
    /\ UNCHANGED <<row, objects, call, job, envVars>>

\* builder.delete: deleting an object that is not there succeeds as well.
DeleteObject(v) ==
    /\ pc = "expire"
    /\ v \in due
    /\ objects' = objects \ {v}
    /\ pc' = "mark"
    /\ job' = v
    /\ due' = due \ {v}
    /\ UNCHANGED <<row, call, now, envVars>>

\* The job is left as it is, for a later run.
DeleteFails_Marks(v) ==
    /\ pc = "expire"
    /\ v \in due
    /\ pc' = "mark"
    /\ job' = v
    /\ due' = due \ {v}
    /\ UNCHANGED <<row, objects, call, now, envVars>>
DeleteFails(v) ==
    /\ pc = "expire"
    /\ v \in due
    /\ due' = due \ {v}
    /\ UNCHANGED <<row, objects, call, pc, job, now, envVars>>

\* mark_expired does not look at the state: a request may have queued the job
\* again since expired_ready.
MarkExpired ==
    /\ pc = "mark"
    /\ row' = [row EXCEPT ![job] = Moved(job, "expired")]
    /\ pc' = "expire"
    /\ job' = NoVersion
    /\ UNCHANGED <<objects, call, due, now, envVars>>

Stale_Never(v) == row[v].state = "building" /\ row[v].updated > now
Stale(v) == row[v].state = "building" /\ row[v].updated < now - StaleAfter

RecoverStale ==
    /\ pc = "expire"
    /\ due = {}
    /\ row' = [v \in Versions |-> IF Stale(v) THEN Moved(v, "pending") ELSE row[v]]
    /\ pc' = "claim"
    /\ UNCHANGED <<objects, call, job, due, now, envVars>>

\* SKIP LOCKED: a job that a request is writing at this moment is passed over.
MayBeLocked(v) == \E c \in Calls : call[c].pc = "queue" /\ call[c].version = v

\* claim_next: the oldest pending job.
Claim(v) ==
    /\ pc = "claim"
    /\ row[v].state = "pending"
    /\ \A u \in Versions :
          row[u].state = "pending" /\ row[u].created < row[v].created => MayBeLocked(u)
    /\ row' = [row EXCEPT ![v].state = "building", ![v].updated = now]
    /\ pc' = "build"
    /\ job' = v
    /\ UNCHANGED <<objects, call, due, now, envVars>>

NothingToClaim ==
    /\ pc = "claim"
    /\ \A v \in Versions : row[v].state = "pending" => MayBeLocked(v)
    /\ Leave
    /\ UNCHANGED <<row, objects, call, envVars>>

\* update_progress, in the middle of a build.
Progress ==
    /\ pc = "build"
    /\ row[job].state = "building"
    /\ row[job].updated # clock
    /\ row' = [row EXCEPT ![job].updated = clock]
    /\ UNCHANGED <<objects, call, workerVars, envVars>>

\* The multipart upload is completed: the object appears, or is replaced.
FinishUpload ==
    /\ pc = "build"
    /\ objects' = objects \cup {job}
    /\ pc' = "complete"
    /\ UNCHANGED <<row, call, job, due, now, envVars>>

Expiry == clock + Retention

Complete ==
    /\ pc = "complete"
    /\ row' = [row EXCEPT ![job] = [Moved(job, "ready") EXCEPT !.expires = Expiry]]
    /\ Leave
    /\ UNCHANGED <<objects, call, envVars>>

\* A source that does not match its digest, or an error of S3 or the database.
BuildRaises ==
    /\ pc \in {"build", "complete"}
    /\ pc' = "fail"
    /\ UNCHANGED <<row, objects, call, job, due, now, envVars>>

Fail ==
    /\ pc = "fail"
    /\ row' = [row EXCEPT ![job] = Moved(job, "failed")]
    /\ Leave
    /\ UNCHANGED <<objects, call, envVars>>

-----------------------------------------------------------------------------
(* The environment                                                         *)

\* Considered only while the clock has room for the abandoned build to go stale.
Crash ==
    /\ pc # "idle"
    /\ crashes < MaxCrashes
    /\ clock + StaleAfter < MaxClock
    /\ Leave
    /\ crashes' = crashes + 1
    /\ UNCHANGED <<row, objects, call, clock>>

Tick ==
    /\ clock < MaxClock
    /\ clock' = clock + 1
    /\ UNCHANGED <<row, objects, call, workerVars, crashes>>

Request(c) == Refuse(c) \/ Queue(c) \/ \E v \in Versions : LookUp(c, v)

RunOnce ==
    \/ StartCycle \/ MarkExpired \/ RecoverStale \/ NothingToClaim
    \/ \E v \in Versions : DeleteObject(v) \/ DeleteFails(v) \/ Claim(v)
    \/ Progress \/ FinishUpload \/ Complete \/ BuildRaises \/ Fail

Next == (\E c \in Calls : Request(c)) \/ RunOnce \/ Crash \/ Tick

Spec == Init /\ [][Next]_vars

\* The worker loop runs for ever and every call of S3 has a timeout; a request
\* that has begun to queue a job ends.
Fairness == WF_vars(RunOnce) /\ WF_vars(Tick) /\ \A c \in Calls : WF_vars(Queue(c))

FairSpec == Spec /\ Fairness

-----------------------------------------------------------------------------
(* Properties                                                              *)

TypeOK ==
    /\ row \in [Versions -> RowType]
    /\ objects \subseteq Versions
    /\ call \in [Calls -> CallType]
    /\ pc \in WorkerPCs
    /\ job \in Versions \cup {NoVersion}
    /\ due \subseteq Versions
    /\ now \in Nat /\ clock \in Nat /\ crashes \in Nat

\* Concurrent requests, each of which reads before it queues, never reserve
\* more than the cache holds.
ReservationsFit == SumFunctionOnSet(Size, Reserved(clock)) <= Cache

\* What a client can be given a link to is in the bucket, although expiry works
\* from a list read earlier and a rebuilt archive has the key of its predecessor.
ReadyHasObject == \A v \in Versions : Downloadable(v, clock) => v \in objects

\* An archive that is marked as expired has left the bucket, also if a deletion
\* failed, the worker died in between, or a request revived the job meanwhile.
ExpiredIsClean == \A v \in Versions : row[v].state = "expired" => v \notin objects

\* A queued job is built or fails even if the worker dies on it. (One that was
\* queued while the expiry of its predecessor was under way is expired unbuilt.)
EveryJobEnds == \A v \in Versions : Waiting(v) ~> ~Waiting(v)
=============================================================================
