---------------------------- MODULE Publications ----------------------------
(***************************************************************************)
(* The durable publication queue.  API calls insert rows into              *)
(* publication_operations under an idempotency key; integration workers    *)
(* claim a row, resolve and validate the DVC output it names, and in one   *)
(* transaction create the Artifact Version and finish the row.  Every      *)
(* change of a row is told to clients by an entry of publication_events.   *)
(*                                                                         *)
(* A method of SqlAlchemyPublicationWorkStore is one database transaction  *)
(* and one action here, except that advance and fail read the row before   *)
(* they write it, without a lock: ReadRow.  What a worker remembers        *)
(* between two transactions is mem[w].  One unit of clock is any fixed     *)
(* slice of real time; ClaimTimeout is the 35 minutes of the store in it.  *)
(***************************************************************************)
EXTENDS Integers, Sequences, PublicationStates

CONSTANTS Ops,           \* identities of publication operations
          Workers,       \* publication worker processes
          Clients,       \* calls of POST .../publication-operations
          Keys,          \* idempotency keys of one project
          Requests,      \* normalised request bodies
          Artifacts,     \* artifact families of the project
          ArtifactOf,    \* the family a request names
          ClaimTimeout,  \* age after which a claim may be taken over
          Faults,        \* which faults of the environment occur
          MaxClock,      \* bound: horizon of the clock
          MaxCrashes,    \* bound: process deaths
          NoOp, NoWorker, NoKey, NoRequest

\* "crash": a worker dies and docker restarts it.  "overrun": a run outlasts
\* the claim timeout.  "lost_ack": COMMIT succeeds, its reply does not arrive.
FaultKinds == {"crash", "overrun", "lost_ack"}

ASSUME ArtifactOfType == ArtifactOf \in [Requests -> Artifacts]
ASSUME FaultsType == Faults \subseteq FaultKinds
ASSUME BoundsType == ClaimTimeout \in Nat /\ MaxClock \in Nat /\ MaxCrashes \in Nat
ASSUME Sentinels ==
    NoOp \notin Ops /\ NoWorker \notin Workers /\ NoKey \notin Keys /\ NoRequest \notin Requests

VARIABLES call,     \* call[c]: what API call c looked up, sent and was told
          row,      \* row[o]: the publication_operations row, with the
                    \* sequence number of its artifact_versions row
          log,      \* log[o]: its publication_events, entry n having sequence n
          pc,       \* pc[w]: the transaction worker w runs next
          mem,      \* mem[w]: the PublicationOperation object w holds
          seen,     \* seen[w]: the state the step under way read from the row
          now,      \* now[w]: the instant run_once was given
          clock, crashes

vars == <<call, row, log, pc, mem, seen, now, clock, crashes>>
workerVars == <<pc, mem, seen, now>>
envVars == <<clock, crashes>>

Acked == {"created", "replayed"}

CallPCs == {"new", "insert", "refused", "conflict", "error"} \cup Acked
WorkerPCs == {"idle", "load", "resolve", "validate", "verify", "commit", "publish", "fail"}
RowType == [state : States \cup {"none"}, key : Keys \cup {NoKey},
            request : Requests \cup {NoRequest}, createdAt : Nat,
            claimedBy : Workers \cup {NoWorker}, claimedAt : Nat,
            version : Nat]
CallType == [pc : CallPCs, key : Keys \cup {NoKey},
             request : Requests \cup {NoRequest}, op : Ops \cup {NoOp}]

NoRow == [state |-> "none", key |-> NoKey, request |-> NoRequest, createdAt |-> 0,
          claimedBy |-> NoWorker, claimedAt |-> 0, version |-> 0]

Nothing == [op |-> NoOp, state |-> "none"]

Exists(o) == row[o].state # "none"
Family(o) == ArtifactOf[row[o].request]
HasVersion(o) == row[o].version # 0
Busy(w) == pc[w] # "idle"

\* The transaction of a step ends, by COMMIT or by rollback.
Forget(w) == seen' = [seen EXCEPT ![w] = "none"]

\* run_once returned, or the process died and was started again.
Leave(w) ==
    /\ pc' = [pc EXCEPT ![w] = "idle"]
    /\ mem' = [mem EXCEPT ![w] = Nothing]
    /\ now' = [now EXCEPT ![w] = 0]
    /\ Forget(w)

Init ==
    /\ call = [c \in Clients |-> [pc |-> "new", key |-> NoKey, request |-> NoRequest, op |-> NoOp]]
    /\ row = [o \in Ops |-> NoRow]
    /\ log = [o \in Ops |-> <<>>]
    /\ pc = [w \in Workers |-> "idle"]
    /\ mem = [w \in Workers |-> Nothing]
    /\ seen = [w \in Workers |-> "none"]
    /\ now = [w \in Workers |-> 0]
    /\ clock = 0
    /\ crashes = 0

-----------------------------------------------------------------------------
(* A definition X_Something is X with a plausible bug: no action uses it, it *)
(* shows that the properties notice the bug.                               *)
(*                                                                         *)
(* PublicationService.create: a read by idempotency key, then an insert.   *)

\* Role, artifact kind or model signature is refused before anything is read.
Refuse(c) ==
    /\ call[c].pc = "new"
    /\ call' = [call EXCEPT ![c].pc = "refused"]
    /\ UNCHANGED <<row, log, workerVars, envVars>>

Holder(k) == {o \in Ops : Exists(o) /\ row[o].key = k}

LookUp(c, k, r) ==
    /\ call[c].pc = "new"
    /\ \/ /\ Holder(k) = {}
          /\ call' = [call EXCEPT ![c] = [pc |-> "insert", key |-> k, request |-> r, op |-> NoOp]]
       \/ \E o \in Holder(k) :
             /\ row[o].request = r
             /\ call' = [call EXCEPT ![c] = [pc |-> "replayed", key |-> k, request |-> r, op |-> o]]
       \/ \E o \in Holder(k) :
             /\ row[o].request # r
             /\ call' = [call EXCEPT ![c] = [pc |-> "conflict", key |-> k, request |-> r, op |-> NoOp]]
    /\ UNCHANGED <<row, log, workerVars, envVars>>

\* Row, first event and audit entry commit together; (project, key) is unique,
\* so a call that lost the race gets an IntegrityError.
KeyIsFree_NotUnique(k) == k \in Keys
KeyIsFree(k) == Holder(k) = {}

Insert(c) ==
    /\ call[c].pc = "insert"
    /\ \/ /\ KeyIsFree(call[c].key)
          /\ \E o \in Ops :
                /\ ~Exists(o)
                /\ row' = [row EXCEPT ![o] = [NoRow EXCEPT !.state = "queued", !.key = call[c].key,
                                                 !.request = call[c].request, !.createdAt = clock]]
                /\ log' = [log EXCEPT ![o] = <<"operation.queued">>]
                /\ call' = [call EXCEPT ![c].pc = "created", ![c].op = o]
       \/ /\ ~KeyIsFree(call[c].key)
          /\ call' = [call EXCEPT ![c].pc = "error"]
          /\ UNCHANGED <<row, log>>
    /\ UNCHANGED <<workerVars, envVars>>

-----------------------------------------------------------------------------
(* SqlAlchemyPublicationWorkStore.claim_next                               *)

Stale_AtTimeout(o) == row[o].claimedBy # NoWorker /\ row[o].claimedAt <= clock - ClaimTimeout
Stale(o) == row[o].claimedBy # NoWorker /\ row[o].claimedAt < clock - ClaimTimeout

Claimable_NoRecovery(o) == row[o].state = "queued" /\ row[o].claimedBy = NoWorker
Claimable(o) ==
    \/ row[o].state = "queued" /\ row[o].claimedBy = NoWorker
    \/ row[o].state \in InFlight /\ Stale(o)

ClaimedRow(w, o) ==
    [row[o] EXCEPT !.state = "queued", !.claimedBy = w, !.claimedAt = clock]

\* Taking over a stale claim starts the operation over, and says so.
ClaimedLog_Silent(o) == log[o]
ClaimedLog(o) ==
    IF row[o].state = "queued" THEN log[o] ELSE Append(log[o], "operation.queued")

\* SKIP LOCKED: a row another worker is writing to at this moment is passed over.
MayBeLocked(o, w) == \E v \in Workers \ {w} : Busy(v) /\ mem[v].op = o

ClaimNext(w, o) ==
    /\ pc[w] = "idle"
    /\ Claimable(o)
    /\ \A p \in Ops : Claimable(p) /\ row[p].createdAt < row[o].createdAt => MayBeLocked(p, w)
    /\ row' = [row EXCEPT ![o] = ClaimedRow(w, o)]
    /\ log' = [log EXCEPT ![o] = ClaimedLog(o)]
    /\ pc' = [pc EXCEPT ![w] = "load"]
    /\ mem' = [mem EXCEPT ![w] = [op |-> o, state |-> "none"]]
    /\ now' = [now EXCEPT ![w] = clock]
    /\ UNCHANGED <<call, seen, envVars>>

\* After the commit the expired row is read again: a second transaction.
LoadClaimed(w) ==
    /\ pc[w] = "load"
    /\ mem' = [mem EXCEPT ![w].state = row[mem[w].op].state]
    /\ pc' = [pc EXCEPT ![w] = "resolve"]
    /\ UNCHANGED <<call, row, log, seen, now, envVars>>

NothingToClaim(w) ==
    /\ pc[w] = "idle"
    /\ \A o \in Ops : ~Claimable(o)
    /\ UNCHANGED vars

-----------------------------------------------------------------------------
(* PublicationCoordinator.run_once                                         *)

\* The transition is checked on the object in memory, not on the row.
MayBecome(w, target) == target \in Successors(mem[w].state)

\* The three advance() steps: where the worker is, and what the step commits.
Advances == { [at |-> "resolve", target |-> "resolving",  event |-> "operation.resolving",  next |-> "validate"],
              [at |-> "verify",  target |-> "verifying",  event |-> "validation.progress",  next |-> "commit"],
              [at |-> "commit",  target |-> "committing", event |-> "operation.committing", next |-> "publish"] }

\* _required_row of advance and fail. (publish reads the row as well, but every
\* column it writes differs from what it read: a row that was published has a
\* version, and its second version is refused.)
ReadRow(w) ==
    /\ seen[w] = "none"
    /\ \/ \E step \in Advances : pc[w] = step.at /\ MayBecome(w, step.target)
       \/ pc[w] = "fail" /\ MayBecome(w, "failed")
    /\ seen' = [seen EXCEPT ![w] = row[mem[w].op].state]
    /\ UNCHANGED <<call, row, log, pc, mem, now, envVars>>

\* SQLAlchemy leaves a column out of its UPDATE that is set to the value it read:
\* the row keeps the state that another worker has committed since.
Written(w, target) == IF seen[w] = target THEN row[mem[w].op].state ELSE target

\* The UPDATE locks the row, so that number and event are the next of their log.
CommitAdvance(w, step) ==
    /\ pc[w] = step.at
    /\ seen[w] # "none"
    /\ MayBecome(w, step.target)
    /\ row' = [row EXCEPT ![mem[w].op].state = Written(w, step.target)]
    /\ log' = [log EXCEPT ![mem[w].op] = Append(@, step.event)]

Advance(w) ==
    \E step \in Advances :
        /\ CommitAdvance(w, step)
        /\ mem' = [mem EXCEPT ![w].state = step.target]
        /\ pc' = [pc EXCEPT ![w] = step.next]
        /\ Forget(w)
        /\ UNCHANGED <<call, now, envVars>>

\* The validator streams every object; its verdict is up to the environment.
Validate(w) ==
    /\ pc[w] = "validate"
    /\ pc' = [pc EXCEPT ![w] = "verify"]
    /\ UNCHANGED <<call, row, log, mem, seen, now, envVars>>

SequencesOf_AnyFamily(a) == {row[o].version : o \in {p \in Ops : HasVersion(p)}}
SequencesOf(a) == {row[o].version : o \in {p \in Ops : HasVersion(p) /\ Family(p) = a}}
LastSequence(a) == CHOOSE n \in SequencesOf(a) \cup {0} : \A m \in SequencesOf(a) : m <= n

\* A finished row: its claim is given back.
Released(o, s) == [row[o] EXCEPT !.state = s, !.claimedBy = NoWorker, !.claimedAt = 0]

PublishedRow_NoIncrement(o) ==
    [Released(o, "published") EXCEPT !.version = LastSequence(Family(o))]
PublishedRow(o) ==
    [Released(o, "published") EXCEPT !.version = LastSequence(Family(o)) + 1]

\* artifact_versions.publication_operation_id is unique.
MayInsertVersion(o) == ~HasVersion(o)

\* publish: the artifact row is locked, the version gets the next sequence of
\* its family, and row, version, terminal event and audit entry commit together.
CommitPublish(w) ==
    LET o == mem[w].op IN
    /\ pc[w] = "publish"
    /\ MayBecome(w, "published")
    /\ MayInsertVersion(o)
    /\ row' = [row EXCEPT ![o] = PublishedRow(o)]
    /\ log' = [log EXCEPT ![o] = Append(@, "operation.published")]

Publish(w) ==
    /\ CommitPublish(w)
    /\ Leave(w)
    /\ UNCHANGED <<call, envVars>>

\* Any step of the try block may raise before it commits: a rejected output, an
\* illegal transition of the object in memory, a second version for the same
\* operation, or an error of the database, GitLab or the object store.
StepRaises(w) ==
    /\ pc[w] \in {"resolve", "validate", "verify", "commit", "publish"}
    /\ pc' = [pc EXCEPT ![w] = "fail"]
    /\ Forget(w)
    /\ UNCHANGED <<call, row, log, mem, now, envVars>>

\* The transaction commits but the worker sees an exception.
LostAck(w) ==
    /\ "lost_ack" \in Faults
    /\ CommitPublish(w) \/ \E step \in Advances : CommitAdvance(w, step)
    /\ pc' = [pc EXCEPT ![w] = "fail"]
    /\ Forget(w)
    /\ UNCHANGED <<call, mem, now, envVars>>

Fail_NoEvent(w) ==
    /\ pc[w] = "fail"
    /\ seen[w] # "none"
    /\ MayBecome(w, "failed")
    /\ row' = [row EXCEPT ![mem[w].op] = Released(mem[w].op, Written(w, "failed"))]
    /\ Leave(w)
    /\ UNCHANGED <<call, log, envVars>>

Fail(w) ==
    LET o == mem[w].op IN
    /\ pc[w] = "fail"
    /\ seen[w] # "none"
    /\ MayBecome(w, "failed")
    /\ row' = [row EXCEPT ![o] = Released(o, Written(w, "failed"))]
    /\ log' = [log EXCEPT ![o] = Append(@, "operation.failed")]
    /\ Leave(w)
    /\ UNCHANGED <<call, envVars>>

\* fail() itself raises on a terminal object: the process ends, docker restarts it.
FailRaises(w) ==
    /\ pc[w] = "fail"
    /\ ~MayBecome(w, "failed")
    /\ Leave(w)
    /\ UNCHANGED <<call, row, log, envVars>>

-----------------------------------------------------------------------------
(* The environment                                                         *)

\* MaxCrashes and the horizon bound process deaths: one is considered only while
\* the clock has room left for the claim it abandons to grow stale.
Crash(w) ==
    /\ "crash" \in Faults
    /\ Busy(w)
    /\ crashes < MaxCrashes
    /\ clock + ClaimTimeout < MaxClock
    /\ Leave(w)
    /\ crashes' = crashes + 1
    /\ UNCHANGED <<call, row, log, clock>>

\* A worker is expected to be done, or dead, before its claim can be taken over.
Tick ==
    /\ clock < MaxClock
    /\ "overrun" \in Faults \/ \A w \in Workers : Busy(w) => clock < now[w] + ClaimTimeout
    /\ clock' = clock + 1
    /\ UNCHANGED <<call, row, log, workerVars, crashes>>

ClientNext(c) ==
    \/ Refuse(c)
    \/ \E k \in Keys, r \in Requests : LookUp(c, k, r)
    \/ Insert(c)

RunOnce(w) ==
    \/ \E o \in Ops : ClaimNext(w, o)
    \/ LoadClaimed(w)
    \/ ReadRow(w)
    \/ Advance(w)
    \/ Validate(w)
    \/ Publish(w)
    \/ StepRaises(w)
    \/ LostAck(w)
    \/ Fail(w)
    \/ FailRaises(w)

Next ==
    \/ \E c \in Clients : ClientNext(c)
    \/ \E w \in Workers : RunOnce(w) \/ NothingToClaim(w) \/ Crash(w)
    \/ Tick

Spec == Init /\ [][Next]_vars

\* The worker loop never stops asking for work, a run makes progress (every
\* external call has a timeout), and time passes.  Nobody has to call the API.
Fairness == WF_vars(Tick) /\ \A w \in Workers : WF_vars(RunOnce(w))

FairSpec == Spec /\ Fairness
-----------------------------------------------------------------------------
(* Properties                                                              *)

TypeOK ==
    /\ call \in [Clients -> CallType]
    /\ row \in [Ops -> RowType]
    /\ log \in [Ops -> Seq(EventNames)]
    /\ pc \in [Workers -> WorkerPCs]
    /\ mem \in [Workers -> [op : Ops \cup {NoOp}, state : States \cup {"none"}]]
    /\ seen \in [Workers -> States \cup {"none"}]
    /\ now \in [Workers -> Nat]
    /\ clock \in Nat
    /\ crashes \in Nat

\* Two workers never work on one operation, and the one that does is the one
\* the row names, in spite of steps that check neither claimed_by nor the
\* state of the row.  Holds when no run outlasts the claim timeout.
ClaimIsExclusive ==
    \A w \in Workers : Busy(w) =>
        /\ row[mem[w].op].claimedBy = w
        /\ \A v \in Workers \ {w} : Busy(v) => mem[v].op # mem[w].op

\* What the worker believes about its operation is what the row says, although
\* the belief was formed by a read after the claim was committed.
MemoryIsCurrent ==
    \A w \in Workers : pc[w] \notin {"idle", "load"} => mem[w].state = row[mem[w].op].state

\* Row and log never disagree, although a step writes the state or leaves it out
\* by what it read without a lock: the last event a reader can see announces the
\* state of the operation.  Holds when no run outlasts the claim timeout.
LogTellsState ==
    \A o \in Ops : Exists(o) =>
        Len(log[o]) > 0 /\ Announces(log[o][Len(log[o])]) = row[o].state

\* The events of an operation tell a legal life: each announces a transition of
\* the publication state machine, or the recovery of a stale claim; nothing
\* follows a terminal event.
LogIsLegal ==
    \A o \in Ops : \A n \in 1..(Len(log[o]) - 1) : MayFollow(log[o][n], log[o][n + 1])

\* Within a family the versions are numbered 1, 2, 3, ... without gap or repeat.
FamilyIsGapless ==
    \A o \in Ops : HasVersion(o) =>
        /\ \A p \in Ops \ {o} : HasVersion(p) /\ Family(p) = Family(o) => row[p].version # row[o].version
        /\ row[o].version > 1 =>
              \E p \in Ops : HasVersion(p) /\ Family(p) = Family(o) /\ row[p].version = row[o].version - 1

\* Concurrent calls with one idempotency key never get two operations, and a
\* call that is answered with an operation gets one of its own request.
IdempotentCreate ==
    \A c, d \in Clients : call[c].pc \in Acked /\ call[d].pc \in Acked =>
        /\ row[call[c].op].key = call[c].key /\ row[call[c].op].request = call[c].request
        /\ call[c].key = call[d].key => call[c].op = call[d].op

\* A published or failed operation never changes again (the empty successor
\* sets of the publication state machine), nor does what it recorded.
TerminalIsFinal ==
    [][\A o \in Ops : row[o].state \in Terminal => row'[o] = row[o] /\ log'[o] = log[o]]_vars

\* Every accepted operation is published or failed even if a worker dies on it:
\* its claim grows stale and another worker starts over. Only one abandoned
\* before it was begun stays as it is.
Abandoned(o) ==
    /\ row[o].state = "queued" /\ row[o].claimedBy # NoWorker
    /\ \A w \in Workers : mem[w].op # o

AbandonedOrFinished ==
    \A o \in Ops : Exists(o) ~> row[o].state \in Terminal \/ Abandoned(o)

-----------------------------------------------------------------------------
(* Implementation of the abstract promise                                  *)

Outcome(o) ==
    CASE row[o].state \in Terminal \cup {"none"} -> row[o].state
      [] OTHER -> "pending"

Promise == INSTANCE PublicationAbstract WITH
    NoFamily <- NoRequest,
    outcome <- [o \in Ops |-> Outcome(o)],
    family <- [o \in Ops |-> IF Exists(o) THEN Family(o) ELSE NoRequest],
    number <- [o \in Ops |-> row[o].version],
    latest <- [a \in Artifacts |-> LastSequence(a)]

\* When no run outlasts its claim and no acknowledgement is lost, claims,
\* retries, crashes and the event log are details of that promise.
KeepsPromise == Promise!Spec

=============================================================================
