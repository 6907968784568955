---------------------------- MODULE ArchiveProofs ----------------------------
(***************************************************************************)
(* Proofs about Archives, for any set of versions, any number of calls,    *)
(* and a worker that may die at every step.                                *)
(***************************************************************************)
EXTENDS Archives, FiniteSetTheorems, TLAPS

\* The worker has a job exactly where it needs one, and its list of expired
\* archives is used up before it looks for work.
WorkerInv ==
    /\ pc \in {"mark", "build", "complete", "fail"} => job \in Versions
    /\ pc \notin {"expire", "mark"} => due = {}

\* A job that is being built is queued or building, whatever requests do to it.
BuilderHolds == pc \in {"build", "complete", "fail"} => Waiting(job)

\* What the worker has set out to expire cannot be downloaded any more, although
\* expired_ready was read a while ago.
DueIsOver ==
    /\ \A v \in due : ~Downloadable(v, clock)
    /\ pc = "mark" => ~Downloadable(job, clock)

\* What the worker did to the bucket still holds when it tells the database.
BucketIsAsLeft ==
    /\ pc = "mark" => job \notin objects
    /\ pc = "complete" => job \in objects

Inv == TypeOK /\ WorkerInv /\ BuilderHolds /\ DueIsOver /\ BucketIsAsLeft
            /\ ReadyHasObject /\ ExpiredIsClean

LEMMA InitInv == Init => Inv
<1>1. SUFFICES ASSUME Init PROVE Inv
  OBVIOUS
<1>2. TypeOK
  BY <1>1 DEF Init, TypeOK, RowType, JobStates, CallType, CallPCs, NoCall, WorkerPCs
<1>3. QED
  BY <1>1, <1>2 DEF Init, Inv, WorkerInv, BuilderHolds, DueIsOver, BucketIsAsLeft,
                    ReadyHasObject, ExpiredIsClean, Downloadable, Waiting

\* What Moved makes of a job.
LEMMA MovedRow ==
    ASSUME TypeOK, NEW v \in Versions, NEW s \in JobStates
    PROVE  /\ Moved(v, s) \in RowType
           /\ Moved(v, s).state = s
  BY DEF TypeOK, RowType, Moved


\* A row that a step does not touch, or makes pending, disturbs nothing.
LEMMA PendingIsHarmless ==
    ASSUME Inv, UNCHANGED <<objects, workerVars, clock>>,
           \A v \in Versions : row'[v] = row[v] \/ row'[v].state = "pending"
    PROVE  /\ WorkerInv' /\ BuilderHolds' /\ DueIsOver' /\ BucketIsAsLeft'
           /\ ReadyHasObject' /\ ExpiredIsClean'
<1>1. \A v \in Versions : Waiting(v) => Waiting(v)'
  BY DEF Waiting
<1>2. \A v \in Versions : Downloadable(v, clock)' => Downloadable(v, clock)
  BY DEF Downloadable, workerVars
<1>3. WorkerInv' /\ BuilderHolds'
  BY <1>1 DEF Inv, WorkerInv, BuilderHolds, workerVars
<1>4. DueIsOver' /\ BucketIsAsLeft'
  BY <1>2 DEF Inv, TypeOK, WorkerInv, DueIsOver, BucketIsAsLeft, workerVars
<1>5. ReadyHasObject'
  BY <1>2 DEF Inv, ReadyHasObject
<1>6. ExpiredIsClean'
  BY DEF Inv, ExpiredIsClean
<1>7. QED
  BY <1>3, <1>4, <1>5, <1>6

\* A request reads, or queues a job that nobody can download.
LEMMA RequestInv == ASSUME Inv, NEW c \in Calls, Request(c) PROVE Inv'
<1>1. TypeOK
  BY DEF Inv
<1>2. CASE Refuse(c)
  <2>1. call' \in [Calls -> CallType]
    BY <1>1, <1>2 DEF Refuse, TypeOK, CallType, CallPCs
  <2>2. TypeOK'
    BY <1>1, <1>2, <2>1 DEF Refuse, TypeOK, workerVars, envVars
  <2>3. QED
    BY <1>2, <2>2, PendingIsHarmless DEF Refuse, Inv, envVars
<1>3. ASSUME NEW v \in Versions, LookUp(c, v) PROVE Inv'
  <2>1. call' \in [Calls -> CallType]
    BY <1>1, <1>3 DEF LookUp, TypeOK, CallType, CallPCs, NoCall
  <2>2. TypeOK'
    BY <1>1, <1>3, <2>1 DEF LookUp, TypeOK, workerVars, envVars
  <2>3. QED
    BY <1>3, <2>2, PendingIsHarmless DEF LookUp, Inv, envVars
<1>4. CASE Queue(c)
  <2>1. \A v \in Versions : row'[v] = row[v] \/ row'[v] = QueuedRow(v, call[c].now)
    BY <1>1, <1>4 DEF Queue, TypeOK
  <2>2. \A v \in Versions : /\ QueuedRow(v, call[c].now) \in RowType
                            /\ QueuedRow(v, call[c].now).state = "pending"
    BY <1>1 DEF TypeOK, QueuedRow, RowType, CallType, JobStates
  <2>3. row' \in [Versions -> RowType]
    BY <1>1, <1>4, <2>2 DEF Queue, TypeOK
  <2>4. call' \in [Calls -> CallType]
    BY <1>1, <1>4 DEF Queue, TypeOK, CallType, CallPCs, NoCall
  <2>5. TypeOK'
    BY <1>1, <1>4, <2>3, <2>4 DEF Queue, TypeOK, workerVars, envVars
  <2>6. QED
    BY <1>4, <2>1, <2>2, <2>5, PendingIsHarmless DEF Queue, Inv, envVars
<1>5. QED
  BY <1>2, <1>3, <1>4 DEF Request

\* The expiry loop: what it deletes and marks was not downloadable when it was
\* listed, and only the worker itself could have made it so again.
LEMMA ExpiryInv ==
    ASSUME Inv,
           StartCycle \/ MarkExpired \/ \E v \in Versions : DeleteObject(v) \/ DeleteFails(v)
    PROVE  Inv'
<1>1. TypeOK
  BY DEF Inv
<1>2. CASE StartCycle
  <2>1. TypeOK'
    BY <1>1, <1>2 DEF StartCycle, TypeOK, WorkerPCs, envVars
  <2>2. DueIsOver'
    BY <1>1, <1>2 DEF StartCycle, DueIsOver, Expired, Downloadable, TypeOK, RowType, envVars
  <2>3. QED
    BY <1>2, <2>1, <2>2 DEF StartCycle, Inv, WorkerInv, BuilderHolds, BucketIsAsLeft,
                            ReadyHasObject, ExpiredIsClean, Downloadable, envVars
<1>3. CASE MarkExpired
  <2>1. job \in Versions /\ job \notin objects
    BY <1>3 DEF MarkExpired, Inv, WorkerInv, BucketIsAsLeft
  <2>2. Moved(job, "expired") \in RowType /\ Moved(job, "expired").state = "expired"
    BY <1>1, <2>1, MovedRow DEF JobStates
  <2>3. \A v \in Versions : row'[v] = IF v = job THEN Moved(job, "expired") ELSE row[v]
    BY <1>1, <1>3 DEF MarkExpired, TypeOK
  <2>4. row' \in [Versions -> RowType]
    BY <1>1, <1>3, <2>2 DEF MarkExpired, TypeOK
  <2>5. TypeOK'
    BY <1>1, <1>3, <2>4 DEF MarkExpired, TypeOK, WorkerPCs, envVars
  <2>6. \A v \in Versions : Downloadable(v, clock)' => Downloadable(v, clock)
    BY <1>3, <2>2, <2>3 DEF MarkExpired, Downloadable, envVars
  <2>7. DueIsOver' /\ ReadyHasObject'
    BY <1>1, <1>3, <2>6 DEF MarkExpired, Inv, DueIsOver, ReadyHasObject, TypeOK
  <2>8. ExpiredIsClean'
    BY <1>3, <2>1, <2>3 DEF MarkExpired, Inv, ExpiredIsClean
  <2>9. QED
    BY <1>3, <2>5, <2>7, <2>8 DEF MarkExpired, Inv, WorkerInv, BuilderHolds, BucketIsAsLeft
<1>4. ASSUME NEW v \in Versions, DeleteObject(v) PROVE Inv'
  <2>1. TypeOK'
    BY <1>1, <1>4 DEF DeleteObject, TypeOK, WorkerPCs, envVars
  <2>2. \A u \in Versions : Downloadable(u, clock)' <=> Downloadable(u, clock)
    BY <1>4 DEF DeleteObject, Downloadable, envVars
  <2>3. DueIsOver' /\ ReadyHasObject'
    BY <1>1, <1>4, <2>2 DEF DeleteObject, Inv, DueIsOver, ReadyHasObject, TypeOK
  <2>4. QED
    BY <1>4, <2>1, <2>3 DEF DeleteObject, Inv, WorkerInv, BuilderHolds, BucketIsAsLeft, ExpiredIsClean
<1>5. ASSUME NEW v \in Versions, DeleteFails(v) PROVE Inv'
  <2>1. TypeOK'
    BY <1>1, <1>5 DEF DeleteFails, TypeOK, envVars
  <2>2. \A u \in Versions : Downloadable(u, clock)' <=> Downloadable(u, clock)
    BY <1>5 DEF DeleteFails, Downloadable, envVars
  <2>3. DueIsOver' /\ ReadyHasObject'
    BY <1>1, <1>5, <2>2 DEF DeleteFails, Inv, DueIsOver, ReadyHasObject, TypeOK
  <2>4. QED
    BY <1>5, <2>1, <2>3 DEF DeleteFails, Inv, WorkerInv, BuilderHolds, BucketIsAsLeft, ExpiredIsClean
<1>6. QED
  BY <1>2, <1>3, <1>4, <1>5

\* Building: the job in hand stays queued or building until the worker ends it,
\* and becomes downloadable only after its object is there.
LEMMA BuildInv ==
    ASSUME Inv,
           \/ RecoverStale \/ NothingToClaim \/ Progress \/ FinishUpload
           \/ Complete \/ BuildRaises \/ Fail
           \/ \E v \in Versions : Claim(v)
    PROVE  Inv'
<1>1. TypeOK
  BY DEF Inv
<1>2. CASE RecoverStale
  <2>1. \A v \in Versions : Moved(v, "pending") \in RowType /\ Moved(v, "pending").state = "pending"
    BY <1>1, MovedRow DEF JobStates
  <2>2. \A v \in Versions : row'[v] = row[v] \/ row'[v] = Moved(v, "pending")
    BY <1>2 DEF RecoverStale
  <2>3. row' \in [Versions -> RowType]
    BY <1>1, <1>2, <2>1 DEF RecoverStale, TypeOK
  <2>4. TypeOK'
    BY <1>1, <1>2, <2>3 DEF RecoverStale, TypeOK, WorkerPCs, envVars
  <2>5. ReadyHasObject' /\ ExpiredIsClean'
    BY <1>2, <2>1, <2>2 DEF RecoverStale, Inv, ReadyHasObject, ExpiredIsClean, Downloadable, envVars
  <2>6. QED
    BY <1>2, <2>4, <2>5 DEF RecoverStale, Inv, WorkerInv, BuilderHolds, DueIsOver, BucketIsAsLeft
<1>3. CASE NothingToClaim
  <2>1. TypeOK'
    BY <1>1, <1>3 DEF NothingToClaim, Leave, TypeOK, WorkerPCs, envVars
  <2>2. QED
    BY <1>3, <2>1 DEF NothingToClaim, Leave, Inv, WorkerInv, BuilderHolds, DueIsOver, BucketIsAsLeft,
                      ReadyHasObject, ExpiredIsClean, Downloadable, envVars
<1>4. CASE Progress
  <2>1. \A v \in Versions : /\ row'[v] \in RowType
                            /\ row'[v].state = row[v].state /\ row'[v].expires = row[v].expires
    BY <1>1, <1>4 DEF Progress, TypeOK, RowType
  <2>2. row' \in [Versions -> RowType]
    BY <1>1, <1>4, <2>1 DEF Progress, TypeOK
  <2>3. TypeOK'
    BY <1>1, <1>4, <2>2 DEF Progress, TypeOK, workerVars, envVars
  <2>4. \A v \in Versions : /\ Downloadable(v, clock)' <=> Downloadable(v, clock)
                            /\ Waiting(v)' <=> Waiting(v)
    BY <1>4, <2>1 DEF Progress, Downloadable, Waiting, envVars
  <2>5. DueIsOver' /\ ReadyHasObject' /\ ExpiredIsClean'
    BY <1>1, <1>4, <2>1, <2>4 DEF Progress, Inv, DueIsOver, ReadyHasObject, ExpiredIsClean, TypeOK, workerVars
  <2>6. QED
    BY <1>4, <2>3, <2>4, <2>5 DEF Progress, Inv, WorkerInv, BuilderHolds, BucketIsAsLeft, workerVars
<1>5. CASE FinishUpload
  <2>1. job \in Versions /\ Waiting(job)
    BY <1>5 DEF FinishUpload, Inv, WorkerInv, BuilderHolds
  <2>2. TypeOK'
    BY <1>1, <1>5, <2>1 DEF FinishUpload, TypeOK, WorkerPCs, envVars
  <2>3. ReadyHasObject' /\ ExpiredIsClean'
    BY <1>5, <2>1 DEF FinishUpload, Inv, ReadyHasObject, ExpiredIsClean, Downloadable, Waiting, envVars
  <2>4. QED
    BY <1>5, <2>1, <2>2, <2>3 DEF FinishUpload, Inv, WorkerInv, BuilderHolds, DueIsOver, BucketIsAsLeft, Waiting
<1>6. CASE Complete
  <2>1. job \in Versions /\ job \in objects
    BY <1>6 DEF Complete, Inv, WorkerInv, BucketIsAsLeft
  <2>2. PICK done \in RowType : done.state = "ready" /\ row' = [row EXCEPT ![job] = done]
    <3>1. Moved(job, "ready") \in RowType
      BY <1>1, <2>1, MovedRow DEF JobStates
    <3>2. Expiry \in Nat
      BY <1>1, BoundsType DEF TypeOK, Expiry
    <3>3. /\ [Moved(job, "ready") EXCEPT !.expires = Expiry] \in RowType
          /\ [Moved(job, "ready") EXCEPT !.expires = Expiry].state = "ready"
      BY <3>1, <3>2, <1>1, <2>1, MovedRow DEF RowType, JobStates
    <3>4. QED
      BY <1>6, <3>3 DEF Complete
  <2>3. \A v \in Versions : row'[v] = IF v = job THEN done ELSE row[v]
    BY <1>1, <2>2 DEF TypeOK
  <2>4. row' \in [Versions -> RowType]
    BY <1>1, <2>2 DEF TypeOK
  <2>5. TypeOK'
    BY <1>1, <1>6, <2>4 DEF Complete, Leave, TypeOK, WorkerPCs, envVars
  <2>6. ReadyHasObject' /\ ExpiredIsClean'
    BY <1>6, <2>1, <2>2, <2>3 DEF Complete, Inv, ReadyHasObject, ExpiredIsClean, Downloadable, envVars
  <2>7. QED
    BY <1>6, <2>5, <2>6 DEF Complete, Leave, Inv, WorkerInv, BuilderHolds, DueIsOver, BucketIsAsLeft
<1>7. CASE BuildRaises
  <2>1. TypeOK'
    BY <1>1, <1>7 DEF BuildRaises, TypeOK, WorkerPCs, envVars
  <2>2. QED
    BY <1>7, <2>1 DEF BuildRaises, Inv, WorkerInv, BuilderHolds, DueIsOver, BucketIsAsLeft,
                      ReadyHasObject, ExpiredIsClean, Downloadable, Waiting, envVars
<1>8. CASE Fail
  <2>1. job \in Versions
    BY <1>8 DEF Fail, Inv, WorkerInv
  <2>2. Moved(job, "failed") \in RowType /\ Moved(job, "failed").state = "failed"
    BY <1>1, <2>1, MovedRow DEF JobStates
  <2>3. \A v \in Versions : row'[v] = IF v = job THEN Moved(job, "failed") ELSE row[v]
    BY <1>1, <1>8 DEF Fail, TypeOK
  <2>4. row' \in [Versions -> RowType]
    BY <1>1, <1>8, <2>2 DEF Fail, TypeOK
  <2>5. TypeOK'
    BY <1>1, <1>8, <2>4 DEF Fail, Leave, TypeOK, WorkerPCs, envVars
  <2>6. ReadyHasObject' /\ ExpiredIsClean'
    BY <1>8, <2>2, <2>3 DEF Fail, Inv, ReadyHasObject, ExpiredIsClean, Downloadable, envVars
  <2>7. QED
    BY <1>8, <2>5, <2>6 DEF Fail, Leave, Inv, WorkerInv, BuilderHolds, DueIsOver, BucketIsAsLeft
<1>9. ASSUME NEW v \in Versions, Claim(v) PROVE Inv'
  <2>1. PICK begun \in RowType : begun.state = "building" /\ row' = [row EXCEPT ![v] = begun]
    <3>1. /\ [row[v] EXCEPT !.state = "building", !.updated = now] \in RowType
          /\ [row[v] EXCEPT !.state = "building", !.updated = now].state = "building"
      BY <1>1 DEF TypeOK, RowType, JobStates
    <3>2. row' = [row EXCEPT ![v] = [row[v] EXCEPT !.state = "building", !.updated = now]]
      BY <1>1, <1>9 DEF Claim, TypeOK
    <3>3. QED
      BY <3>1, <3>2
  <2>2. \A u \in Versions : row'[u] = IF u = v THEN begun ELSE row[u]
    BY <1>1, <2>1 DEF TypeOK
  <2>3. row' \in [Versions -> RowType]
    BY <1>1, <2>1 DEF TypeOK
  <2>4. TypeOK'
    BY <1>1, <1>9, <2>3 DEF Claim, TypeOK, WorkerPCs, envVars
  <2>5. ReadyHasObject' /\ ExpiredIsClean'
    BY <1>9, <2>1, <2>2 DEF Claim, Inv, ReadyHasObject, ExpiredIsClean, Downloadable, envVars
  <2>6. BuilderHolds'
    BY <1>9, <2>1, <2>2 DEF Claim, BuilderHolds, Waiting
  <2>7. QED
    BY <1>9, <2>4, <2>5, <2>6 DEF Claim, Inv, WorkerInv, DueIsOver, BucketIsAsLeft
<1>10. QED
  BY <1>2, <1>3, <1>4, <1>5, <1>6, <1>7, <1>8, <1>9

\* Time only takes downloads away; a death forgets what the worker was about.
LEMMA EnvironmentInv == ASSUME Inv, Crash \/ Tick PROVE Inv'
<1>1. TypeOK
  BY DEF Inv
<1>2. CASE Crash
  <2>1. TypeOK'
    BY <1>1, <1>2 DEF Crash, Leave, TypeOK, WorkerPCs
  <2>2. QED
    BY <1>2, <2>1 DEF Crash, Leave, Inv, WorkerInv, BuilderHolds, DueIsOver, BucketIsAsLeft,
                      ReadyHasObject, ExpiredIsClean, Downloadable
<1>3. CASE Tick
  <2>1. TypeOK'
    BY <1>1, <1>3 DEF Tick, TypeOK, workerVars
  <2>2. \A v \in Versions : Downloadable(v, clock)' => Downloadable(v, clock)
    BY <1>1, <1>3 DEF Tick, Downloadable, TypeOK, RowType
  <2>3. DueIsOver' /\ ReadyHasObject'
    BY <1>1, <1>3, <2>2 DEF Tick, Inv, WorkerInv, DueIsOver, ReadyHasObject, TypeOK, workerVars
  <2>4. QED
    BY <1>3, <2>1, <2>3 DEF Tick, Inv, WorkerInv, BuilderHolds, BucketIsAsLeft, ExpiredIsClean,
                            Waiting, workerVars
<1>4. QED
  BY <1>2, <1>3

LEMMA NextInv == Inv /\ [Next]_vars => Inv'
<1>1. SUFFICES ASSUME Inv, [Next]_vars PROVE Inv'
  OBVIOUS
<1>2. CASE UNCHANGED vars
  BY <1>1, <1>2 DEF vars, workerVars, envVars, Inv, TypeOK, WorkerInv, BuilderHolds, DueIsOver,
                    BucketIsAsLeft, ReadyHasObject, ExpiredIsClean, Downloadable, Waiting
<1>3. CASE Next
  BY <1>1, <1>3, RequestInv, ExpiryInv, BuildInv, EnvironmentInv DEF Next, RunOnce
<1>4. QED
  BY <1>1, <1>2, <1>3

\* Every variable keeps its type (the state run_once and the API share).
THEOREM TypeCorrect == Spec => []TypeOK
<1>1. Inv => TypeOK
  BY DEF Inv
<1>2. QED
  BY <1>1, InitInv, NextInv, PTL DEF Spec

\* A download link is only given for an archive that is in the bucket
\* (ArtifactArchiveService.ready against the expiry loop of run_once).
THEOREM DownloadsExist == Spec => []ReadyHasObject
<1>1. Inv => ReadyHasObject
  BY DEF Inv
<1>2. QED
  BY <1>1, InitInv, NextInv, PTL DEF Spec

\* An archive marked as expired leaves nothing behind in the bucket
\* (delete and mark_expired in run_once).
THEOREM ExpiryLeavesNothing == Spec => []ExpiredIsClean
<1>1. Inv => ExpiredIsClean
  BY DEF Inv
<1>2. QED
  BY <1>1, InitInv, NextInv, PTL DEF Spec

-----------------------------------------------------------------------------
(* Sums over finite sets                                                   *)
(*                                                                         *)
(* The library adds up by recursion on the set, taking a chosen element    *)
(* out of it at each step. That the recursion is defined, and what it      *)
(* computes, is shown by a minimal counterexample: a set of numbers, or a  *)
(* set of subsets of a finite set, has a least element, by the library's   *)
(* theorem on well-founded orderings.                                      *)

\* The element the sum takes out of a set, one step of the sum, and all its steps.
Pick(s) == CHOOSE x \in s : TRUE
Step(f, g, s) == IF s = {} THEN 0 ELSE f[Pick(s)] + g[s \ {Pick(s)}]
Iter(f, S) == CHOOSE g : g = [s \in SUBSET S |-> Step(f, g, s)]

\* The sum is the value of its recursion at the whole set.
LEMMA Unfold ==
    ASSUME NEW f, NEW S
    PROVE SumFunctionOnSet(f, S) = Iter(f, S)[S]
BY DEF SumFunctionOnSet, FoldFunctionOnSet, MapThenFoldSet, Iter, Step, Pick

\* A set of numbers has a least one.
LEMMA NatMin ==
    ASSUME NEW T \in SUBSET Nat, T # {}
    PROVE  \E n \in T : \A m \in T : n <= m
<1>1. PICK n \in T : \A m \in T : <<m, n>> \notin OpToRel(<, Nat)
  BY NatLessThanWellFounded, WFMin
<1>2. \A m \in T : ~(m < n)
  BY <1>1 DEF OpToRel
<1> QED
  BY <1>2

\* A set of subsets of a finite set has a minimal one.
LEMMA SetMin ==
    ASSUME NEW U, IsFiniteSet(U), NEW B \in SUBSET (SUBSET U), B # {}
    PROVE  \E S \in B : \A T \in B : T \subseteq S => T = S
<1>1. IsWellFoundedOn(StrictSubsetOrdering(U), SUBSET U)
  BY FS_StrictSubsetOrderingWellFounded, FS_FiniteSubsetsOfFinite
<1>2. PICK S \in B : \A T \in B : <<T, S>> \notin StrictSubsetOrdering(U)
  BY <1>1, WFMin
<1> QED
  BY <1>2 DEF StrictSubsetOrdering

\* A step of the sum leaves a set that is smaller by one element.
LEMMA Smaller ==
    ASSUME NEW s, IsFiniteSet(s), s # {}
    PROVE  /\ Pick(s) \in s /\ IsFiniteSet(s \ {Pick(s)})
           /\ Cardinality(s) \in Nat /\ Cardinality(s \ {Pick(s)}) = Cardinality(s) - 1
           /\ Cardinality(s) # 0
<1>1. Pick(s) \in s
  BY DEF Pick
<1> QED
  BY <1>1, FS_RemoveElement, FS_CardinalityType, FS_EmptySet

\* The recursion is defined: for the subsets of up to n elements, for any n.
LEMMA IterDefined ==
    ASSUME NEW U, IsFiniteSet(U), NEW f, \A x \in U : f[x] \in Nat
    PROVE  Iter(f, U) = [s \in SUBSET U |-> Step(f, Iter(f, U), s)]
<1> DEFINE Upto(g, n) == \A s \in SUBSET U : Cardinality(s) <= n => g[s] = Step(f, g, s)
           Bad == {n \in Nat : ~\E g \in [SUBSET U -> Nat] : Upto(g, n)}
<1>0. \A s \in SUBSET U : IsFiniteSet(s) /\ Cardinality(s) \in Nat /\ (Cardinality(s) = 0 => s = {})
  BY FS_Subset, FS_CardinalityType, FS_EmptySet
<1>1. Bad = {}
  <2> SUFFICES ASSUME Bad # {} PROVE FALSE
    OBVIOUS
  <2>1. PICK n \in Bad : \A m \in Bad : n <= m
    BY NatMin
  <2>2. n \in Nat /\ ~\E g \in [SUBSET U -> Nat] : Upto(g, n)
    OBVIOUS
  <2>3. n # 0
    <3> SUFFICES ASSUME n = 0 PROVE FALSE
      OBVIOUS
    <3> DEFINE g == [s \in SUBSET U |-> 0]
    <3>1. g \in [SUBSET U -> Nat]
      OBVIOUS
    <3>2. ASSUME NEW s \in SUBSET U, Cardinality(s) <= n
          PROVE  g[s] = Step(f, g, s)
      <4>1. s = {}
        BY <1>0, <3>2
      <4> QED
        BY <4>1 DEF Step
    <3> QED
      BY <2>2, <3>1, <3>2
  <2>4. n - 1 \in Nat /\ n - 1 \notin Bad
    <3>1. n - 1 \in Nat
      BY <2>2, <2>3
    <3> HIDE DEF Bad
    <3>2. ~(n <= n - 1)
      BY <2>2
    <3> QED
      BY <2>1, <3>1, <3>2
  <2>5. PICK g \in [SUBSET U -> Nat] : Upto(g, n - 1)
    BY <2>4
  <2> DEFINE h == [s \in SUBSET U |-> IF Cardinality(s) <= n - 1 THEN g[s] ELSE Step(f, g, s)]
  <2>6. \A s \in SUBSET U : Step(f, g, s) \in Nat
    <3>1. \A s \in SUBSET U : s # {} => Pick(s) \in s
      BY DEF Pick
    <3> QED
      BY <3>1 DEF Step
  <2>7. h \in [SUBSET U -> Nat]
    BY <2>6
  <2>8. ASSUME NEW s \in SUBSET U, Cardinality(s) <= n
        PROVE  h[s] = Step(f, h, s)
    <3>1. h[s] = Step(f, g, s)
      BY <2>5
    <3>2. CASE s = {}
      BY <3>1, <3>2 DEF Step
    <3>3. CASE s # {}
      <4>1. s \ {Pick(s)} \in SUBSET U /\ Cardinality(s \ {Pick(s)}) <= n - 1
        BY <1>0, <2>2, <2>8, <3>3, Smaller
      <4>2. h[s \ {Pick(s)}] = g[s \ {Pick(s)}]
        BY <4>1
      <4> QED
        BY <3>1, <3>3, <4>2 DEF Step
    <3> QED
      BY <3>2, <3>3
  <2> QED
    BY <2>2, <2>7, <2>8
<1>2. PICK g \in [SUBSET U -> Nat] : Upto(g, Cardinality(U))
  BY <1>0, <1>1
<1>3. \A s \in SUBSET U : Cardinality(s) <= Cardinality(U)
  BY FS_Subset
<1>4. g = [s \in SUBSET U |-> Step(f, g, s)]
  BY <1>2, <1>3
<1> QED
  BY <1>4 DEF Iter

\* A sum of numbers is a number.
LEMMA IterNat ==
    ASSUME NEW U, IsFiniteSet(U), NEW f, \A x \in U : f[x] \in Nat
    PROVE  \A s \in SUBSET U : Iter(f, U)[s] \in Nat
<1> DEFINE G == Iter(f, U)
           Bad == {s \in SUBSET U : G[s] \notin Nat}
<1>0. G = [s \in SUBSET U |-> Step(f, G, s)]
  BY IterDefined
<1>1. \A s \in SUBSET U : G[s] = Step(f, G, s)
  <2> HIDE DEF G
  <2> QED
    BY <1>0
<1> HIDE DEF G
<1> SUFFICES ASSUME Bad # {} PROVE FALSE
  BY DEF G
<1>2. PICK s \in Bad : \A t \in Bad : t \subseteq s => t = s
  <2>1. Bad \in SUBSET (SUBSET U) /\ Bad # {}
    OBVIOUS
  <2> HIDE DEF Bad
  <2> QED
    BY <2>1, SetMin
<1>3. s \in SUBSET U /\ G[s] \notin Nat /\ G[s] = Step(f, G, s)
  BY <1>1
<1>4. s # {}
  BY <1>3 DEF Step
<1>5. PICK p \in s : p = Pick(s)
  BY <1>4 DEF Pick
<1>6. s \ {p} \in SUBSET U /\ s \ {p} \notin Bad
  BY <1>2, <1>3
<1>7. G[s \ {p}] \in Nat /\ f[p] \in Nat
  BY <1>3, <1>6
<1>8. G[s] = f[p] + G[s \ {p}]
  BY <1>3, <1>4, <1>5 DEF Step
<1> QED
  BY <1>3, <1>7, <1>8

\* The sum over a subset may be read off the recursion over the whole set.
LEMMA SumIsIter ==
    ASSUME NEW U, IsFiniteSet(U), NEW f, \A x \in U : f[x] \in Nat, NEW S \in SUBSET U
    PROVE  SumFunctionOnSet(f, S) = Iter(f, U)[S]
<1> DEFINE G == Iter(f, U)
           H == Iter(f, S)
           Bad == {s \in SUBSET S : G[s] # H[s]}
<1>0. G = [s \in SUBSET U |-> Step(f, G, s)]
  BY IterDefined
<1>1. \A s \in SUBSET U : G[s] = Step(f, G, s)
  <2> HIDE DEF G
  <2> QED
    BY <1>0
<1>2. IsFiniteSet(S)
  BY FS_Subset
<1>3. H = [s \in SUBSET S |-> Step(f, H, s)]
  BY <1>2, IterDefined
<1>6. \A s \in SUBSET S : H[s] = Step(f, H, s)
  <2> HIDE DEF H
  <2> QED
    BY <1>3
<1> HIDE DEF G, H
<1>4. Bad = {}
  <2> SUFFICES ASSUME Bad # {} PROVE FALSE
    OBVIOUS
  <2>1. PICK s \in Bad : \A t \in Bad : t \subseteq s => t = s
    <3>1. Bad \in SUBSET (SUBSET S) /\ Bad # {}
      OBVIOUS
    <3> HIDE DEF Bad
    <3> QED
      BY <1>2, <3>1, SetMin
  <2>2. s # {}
    BY <1>1, <1>6 DEF Step
  <2>3. Pick(s) \in s /\ s \ {Pick(s)} \in SUBSET S /\ s \ {Pick(s)} \notin Bad
    BY <2>1, <2>2 DEF Pick
  <2> QED
    BY <1>1, <1>6, <2>2, <2>3 DEF Step
<1>5. G[S] = H[S]
  BY <1>4
<1> QED
  BY <1>5, Unfold DEF G, H

\* An element of the set, whichever it is, adds its number to the sum of the others.
LEMMA SumAdd ==
    ASSUME NEW U, IsFiniteSet(U), NEW f, \A x \in U : f[x] \in Nat
    PROVE  /\ SumFunctionOnSet(f, {}) = 0
           /\ \A S \in SUBSET U :
                 /\ SumFunctionOnSet(f, S) \in Nat
                 /\ \A x \in S : SumFunctionOnSet(f, S) = f[x] + SumFunctionOnSet(f, S \ {x})
<1> DEFINE G == Iter(f, U)
           Bad == {S \in SUBSET U : \E x \in S : G[S] # f[x] + G[S \ {x}]}
<1>0. G = [s \in SUBSET U |-> Step(f, G, s)]
  BY IterDefined
<1>1. \A s \in SUBSET U : G[s] = Step(f, G, s)
  <2> HIDE DEF G
  <2> QED
    BY <1>0
<1>2. \A s \in SUBSET U : G[s] \in Nat
  BY IterNat
<1>3. \A S \in SUBSET U : SumFunctionOnSet(f, S) = G[S]
  BY SumIsIter
<1> HIDE DEF G
<1>4. Bad = {}
  <2> SUFFICES ASSUME Bad # {} PROVE FALSE
    OBVIOUS
  <2>1. PICK S \in Bad : \A T \in Bad : T \subseteq S => T = S
    <3>1. Bad \in SUBSET (SUBSET U) /\ Bad # {}
      OBVIOUS
    <3> HIDE DEF Bad
    <3> QED
      BY <3>1, SetMin
  <2>2. PICK x \in S : G[S] # f[x] + G[S \ {x}]
    OBVIOUS
  <2>3. PICK p \in S : p = Pick(S) /\ G[S] = f[p] + G[S \ {p}]
    BY <1>1, <2>2 DEF Step, Pick
  <2>4. p # x
    BY <2>2, <2>3
  <2>5. S \ {p} \in SUBSET U /\ S \ {x} \in SUBSET U /\ S \ {p} \notin Bad /\ S \ {x} \notin Bad
    BY <2>1, <2>2, <2>3
  <2>6. G[S \ {p}] = f[x] + G[(S \ {p}) \ {x}]
    BY <2>2, <2>4, <2>5
  <2>7. G[S \ {x}] = f[p] + G[(S \ {x}) \ {p}]
    BY <2>3, <2>4, <2>5
  <2>8. (S \ {p}) \ {x} = (S \ {x}) \ {p} /\ (S \ {p}) \ {x} \in SUBSET U
    OBVIOUS
  <2>9. f[x] \in Nat /\ f[p] \in Nat /\ G[(S \ {p}) \ {x}] \in Nat
    BY <1>2, <2>8
  <2>10. \A a, b, c \in Nat : a + (b + c) = b + (a + c)
    OBVIOUS
  <2>11. G[S] = f[p] + (f[x] + G[(S \ {p}) \ {x}])
    BY <2>3, <2>6
  <2>12. G[S \ {x}] = f[p] + G[(S \ {p}) \ {x}]
    BY <2>7, <2>8
  <2>13. G[S] = f[x] + G[S \ {x}]
    BY <2>9, <2>10, <2>11, <2>12
  <2> QED
    BY <2>2, <2>13
<1>5. G[{}] = 0 /\ {} \in SUBSET U
  BY <1>1 DEF Step
<1> QED
  BY <1>2, <1>3, <1>4, <1>5

\* A larger set has no smaller sum.
LEMMA SumMono ==
    ASSUME NEW U, IsFiniteSet(U), NEW f, \A x \in U : f[x] \in Nat,
           NEW S \in SUBSET U, NEW T \in SUBSET S
    PROVE  SumFunctionOnSet(f, T) <= SumFunctionOnSet(f, S)
<1> DEFINE G == [s \in SUBSET U |-> SumFunctionOnSet(f, s)]
           Bad == {s \in SUBSET U : T \subseteq s /\ ~(G[T] <= G[s])}
<1>1. \A s \in SUBSET U : G[s] \in Nat /\ \A x \in s : G[s] = f[x] + G[s \ {x}]
  BY SumAdd
<1> HIDE DEF G
<1>2. Bad = {}
  <2> SUFFICES ASSUME Bad # {} PROVE FALSE
    OBVIOUS
  <2>1. PICK s \in Bad : \A t \in Bad : t \subseteq s => t = s
    <3>1. Bad \in SUBSET (SUBSET U) /\ Bad # {}
      OBVIOUS
    <3> HIDE DEF Bad
    <3> QED
      BY <3>1, SetMin
  <2>2. s # T
    BY <1>1
  <2>3. PICK x \in s : x \notin T
    BY <2>2
  <2>4. s \ {x} \in SUBSET U /\ s \ {x} \notin Bad /\ T \subseteq s \ {x}
    BY <2>1, <2>3
  <2>5. G[T] <= G[s \ {x}] /\ G[s] = f[x] + G[s \ {x}] /\ f[x] \in Nat /\ G[s \ {x}] \in Nat /\ G[T] \in Nat
    BY <1>1, <2>3, <2>4
  <2> QED
    BY <2>5
<1> QED
  BY <1>2 DEF G

-----------------------------------------------------------------------------
(* Reservations                                                            *)

\* A request that has found room is about a version, and asked no later than now.
CallsAreDated ==
    \A c \in Calls : call[c].pc = "queue" => call[c].version \in Versions /\ call[c].now <= clock

FitInv == Inv /\ CallsAreDated /\ ReservationsFit

\* The versions that hold a reservation at this moment.
Holders == {u \in Versions : Waiting(u) \/ Downloadable(u, clock)}

LEMMA HoldersFit ==
    /\ ReservationsFit <=> SumFunctionOnSet(Size, Holders) <= Cache
    /\ ReservationsFit' <=> SumFunctionOnSet(Size, Holders') <= Cache
BY DEF ReservationsFit, Reserved, Holders

\* What versions reserve together is a number, no more than what a larger set reserves.
LEMMA ReservationSum ==
    ASSUME NEW S \in SUBSET Versions
    PROVE  /\ SumFunctionOnSet(Size, S) \in Nat
           /\ \A T \in SUBSET S : SumFunctionOnSet(Size, T) <= SumFunctionOnSet(Size, S)
           /\ \A v \in S : SumFunctionOnSet(Size, S) = Size[v] + SumFunctionOnSet(Size, S \ {v})
<1>1. IsFiniteSet(Versions) /\ \A v \in Versions : Size[v] \in Nat
  BY SizeType
<1>2. SumFunctionOnSet(Size, S) \in Nat
      /\ \A v \in S : SumFunctionOnSet(Size, S) = Size[v] + SumFunctionOnSet(Size, S \ {v})
  BY <1>1, SumAdd
<1>3. \A T \in SUBSET S : SumFunctionOnSet(Size, T) <= SumFunctionOnSet(Size, S)
  BY <1>1, SumMono
<1> QED
  BY <1>2, <1>3

\* A step after which no other version holds a reservation takes no space.
LEMMA NothingReserved ==
    ASSUME ReservationsFit, Holders' \subseteq Holders
    PROVE  ReservationsFit'
<1>1. Holders \in SUBSET Versions /\ Holders' \in SUBSET Holders /\ Holders' \in SUBSET Versions
  BY DEF Holders
<1>2. /\ SumFunctionOnSet(Size, Holders') \in Nat /\ SumFunctionOnSet(Size, Holders) \in Nat
      /\ SumFunctionOnSet(Size, Holders') <= SumFunctionOnSet(Size, Holders)
  BY <1>1, ReservationSum
<1> QED
  BY <1>2, HoldersFit, BoundsType

\* queue_archive counts beside its version whatever holds a reservation then: a request
\* that counts with an older time counts rather more.
LEMMA QueueFits ==
    ASSUME FitInv, TypeOK', NEW c \in Calls, Queue(c)
    PROVE  ReservationsFit'
<1> DEFINE v == call[c].version
           t == call[c].now
<1>1. v \in Versions /\ t \in Nat /\ t <= clock /\ clock \in Nat
  BY DEF Queue, FitInv, CallsAreDated, Inv, TypeOK, CallType
<1>2. CASE ~MayQueue(v, t)
  <2>1. row' = row /\ clock' = clock
    BY <1>2 DEF Queue, envVars
  <2>2. Holders' \subseteq Holders
    BY <2>1 DEF Holders, Waiting, Downloadable
  <2> QED
    BY <2>2, NothingReserved DEF FitInv
<1>3. CASE MayQueue(v, t)
  <2>1. row' = [row EXCEPT ![v] = QueuedRow(v, t)] /\ clock' = clock
    BY <1>3 DEF Queue, envVars
  <2>2. \A u \in Versions \ {v} : row'[u] = row[u]
    BY <2>1 DEF FitInv, Inv, TypeOK
  <2>3. row'[v].state = "pending"
    BY <1>1, <2>1 DEF FitInv, Inv, TypeOK, QueuedRow
  <2>4. \A u \in Versions : row[u].expires \in Nat
    BY DEF FitInv, Inv, TypeOK, RowType
  <2>5. \A u \in Versions : row[u].expires > clock => row[u].expires > t
    BY <1>1, <2>4
  <2>6. PICK S \in SUBSET Versions : S = Reserved(t) \ {v}
    BY DEF Reserved
  <2> HIDE DEF v, t
  <2>7. Holders' \in SUBSET Versions /\ v \in Holders'
    BY <1>1, <2>3 DEF Holders, Waiting
  <2>8. Holders' \ {v} \in SUBSET S
    BY <2>1, <2>2, <2>5, <2>6 DEF Holders, Reserved, Waiting, Downloadable
  <2>9. SumFunctionOnSet(Size, S) + Size[v] <= Cache
    BY <1>3, <2>6 DEF MayQueue, Fits, ReservedBeside
  <2>10. SumFunctionOnSet(Size, Holders') = Size[v] + SumFunctionOnSet(Size, Holders' \ {v})
    BY <2>7, ReservationSum
  <2>11. /\ SumFunctionOnSet(Size, Holders' \ {v}) <= SumFunctionOnSet(Size, S)
         /\ SumFunctionOnSet(Size, S) \in Nat
    BY <2>8, ReservationSum
  <2>12. SumFunctionOnSet(Size, Holders' \ {v}) \in Nat /\ Size[v] \in Nat /\ Cache \in Nat
    BY <1>1, <2>7, ReservationSum, SizeType, BoundsType
  <2>13. SumFunctionOnSet(Size, Holders') <= Cache
    BY <2>9, <2>10, <2>11, <2>12
  <2> QED
    BY <2>13, HoldersFit
<1> QED
  BY <1>2, <1>3

\* A request keeps the time at which it asked.
LEMMA RequestFits == ASSUME FitInv, NEW c \in Calls, Request(c) PROVE FitInv'
<1>1. Inv'
  BY RequestInv DEF FitInv
<1>2. TypeOK /\ TypeOK'
  BY <1>1 DEF FitInv, Inv
<1>3. CallsAreDated'
  <2>1. CASE Refuse(c)
    BY <1>2, <2>1 DEF Refuse, FitInv, CallsAreDated, TypeOK, CallType, envVars
  <2>2. ASSUME NEW v \in Versions, LookUp(c, v)
        PROVE  CallsAreDated'
    BY <1>2, <2>2 DEF LookUp, NoCall, FitInv, CallsAreDated, TypeOK, CallType, envVars
  <2>3. CASE Queue(c)
    BY <1>2, <2>3 DEF Queue, NoCall, FitInv, CallsAreDated, TypeOK, CallType, envVars
  <2> QED
    BY <2>1, <2>2, <2>3 DEF Request
<1>4. CASE Refuse(c) \/ \E v \in Versions : LookUp(c, v)
  <2>1. row' = row /\ clock' = clock
    BY <1>4 DEF Refuse, LookUp, envVars
  <2>2. Holders' \subseteq Holders
    BY <2>1 DEF Holders, Waiting, Downloadable
  <2> QED
    BY <1>1, <1>3, <2>2, NothingReserved DEF FitInv
<1>5. CASE Queue(c)
  BY <1>1, <1>2, <1>3, <1>5, QueueFits DEF FitInv
<1> QED
  BY <1>4, <1>5 DEF Request

\* Only requests reserve: the worker ends reservations, or keeps them under another name.
LEMMA WorkerFits == ASSUME FitInv, RunOnce PROVE FitInv'
<1>1. Inv'
  BY ExpiryInv, BuildInv DEF FitInv, RunOnce
<1>2. TypeOK /\ Inv
  BY DEF FitInv, Inv
<1>3. call' = call /\ clock' = clock
  BY DEF RunOnce, StartCycle, DeleteObject, DeleteFails, MarkExpired, RecoverStale, Claim, NothingToClaim,
         Progress, FinishUpload, Complete, BuildRaises, Fail, envVars
<1>4. CallsAreDated'
  BY <1>3 DEF FitInv, CallsAreDated
<1>5. ASSUME \A v \in Versions :
                \/ row'[v].state = row[v].state /\ row'[v].expires = row[v].expires
                \/ row'[v].state \in {"expired", "failed"}
                \/ Waiting(v) /\ row'[v].state \in {"pending", "building", "ready"}
      PROVE  FitInv'
  <2>1. Holders' \subseteq Holders
    BY <1>3, <1>5 DEF Holders, Waiting, Downloadable
  <2> QED
    BY <1>1, <1>4, <2>1, NothingReserved DEF FitInv
<1>6. CASE \/ StartCycle \/ NothingToClaim \/ FinishUpload \/ BuildRaises
           \/ \E v \in Versions : DeleteObject(v) \/ DeleteFails(v)
  BY <1>5, <1>6 DEF StartCycle, NothingToClaim, FinishUpload, BuildRaises, DeleteObject, DeleteFails
<1>7. CASE MarkExpired
  <2>1. job \in Versions
    BY <1>2, <1>7 DEF MarkExpired, Inv, WorkerInv
  <2>2. \A v \in Versions : row'[v] = IF v = job THEN Moved(job, "expired") ELSE row[v]
    BY <1>2, <1>7 DEF MarkExpired, TypeOK
  <2> QED
    BY <1>2, <1>5, <2>1, <2>2, MovedRow DEF JobStates
<1>8. CASE RecoverStale
  <2>1. \A v \in Versions : row'[v] = row[v] \/ (row'[v] = Moved(v, "pending") /\ Waiting(v))
    BY <1>8 DEF RecoverStale, Stale, Waiting
  <2>2. \A v \in Versions : Moved(v, "pending").state = "pending"
    BY <1>2, MovedRow DEF JobStates
  <2> QED
    BY <1>5, <2>1, <2>2
<1>9. ASSUME NEW v \in Versions, Claim(v)
      PROVE  FitInv'
  <2>1. /\ row[v].state = "pending" /\ row'[v].state = "building"
        /\ \A u \in Versions \ {v} : row'[u] = row[u]
    BY <1>2, <1>9 DEF Claim, TypeOK, RowType
  <2> QED
    BY <1>5, <2>1 DEF Waiting
<1>10. CASE Progress
  <2>1. \A v \in Versions : row'[v].state = row[v].state /\ row'[v].expires = row[v].expires
    BY <1>2, <1>10 DEF Progress, TypeOK, RowType
  <2> QED
    BY <1>5, <2>1
<1>11. CASE Complete
  <2>1. job \in Versions /\ Waiting(job)
    BY <1>2, <1>11 DEF Complete, Inv, WorkerInv, BuilderHolds
  <2>2. Moved(job, "ready") \in RowType /\ Moved(job, "ready").state = "ready"
    BY <1>2, <2>1, MovedRow DEF JobStates
  <2>3. [Moved(job, "ready") EXCEPT !.expires = Expiry].state = "ready"
    BY <2>2 DEF RowType
  <2>4. row'[job].state = "ready" /\ \A u \in Versions \ {job} : row'[u] = row[u]
    BY <1>2, <1>11, <2>1, <2>3 DEF Complete, TypeOK
  <2> QED
    BY <1>5, <2>1, <2>4
<1>12. CASE Fail
  <2>1. job \in Versions
    BY <1>2, <1>12 DEF Fail, Inv, WorkerInv
  <2>2. \A v \in Versions : row'[v] = IF v = job THEN Moved(job, "failed") ELSE row[v]
    BY <1>2, <1>12 DEF Fail, TypeOK
  <2> QED
    BY <1>2, <1>5, <2>1, <2>2, MovedRow DEF JobStates
<1> QED
  BY <1>6, <1>7, <1>8, <1>9, <1>10, <1>11, <1>12 DEF RunOnce

\* Time only lets reservations run out.
LEMMA EnvironmentFits == ASSUME FitInv, Crash \/ Tick \/ UNCHANGED vars PROVE FitInv'
<1>1. Inv'
  BY EnvironmentInv, NextInv DEF FitInv
<1>2. TypeOK
  BY DEF FitInv, Inv
<1>3. row' = row /\ call' = call /\ (clock' = clock \/ clock' = clock + 1)
  BY DEF Crash, Tick, vars, envVars
<1>4. CallsAreDated'
  BY <1>2, <1>3 DEF FitInv, CallsAreDated, TypeOK, CallType
<1>5. Holders' \subseteq Holders
  BY <1>2, <1>3 DEF Holders, Waiting, Downloadable, TypeOK, RowType
<1> QED
  BY <1>1, <1>4, <1>5, NothingReserved DEF FitInv

LEMMA InitFits == Init => FitInv
<1> SUFFICES ASSUME Init PROVE FitInv
  OBVIOUS
<1>1. CallsAreDated
  BY DEF Init, NoCall, CallsAreDated
<1>2. Holders = {}
  BY DEF Init, Holders, Waiting, Downloadable
<1>3. SumFunctionOnSet(Size, {}) = 0
  <2>1. IsFiniteSet(Versions) /\ \A v \in Versions : Size[v] \in Nat
    BY SizeType
  <2> QED
    BY <2>1, SumAdd
<1>4. ReservationsFit
  BY <1>2, <1>3, HoldersFit, BoundsType
<1> QED
  BY <1>1, <1>4, InitInv DEF FitInv

LEMMA NextFits == FitInv /\ [Next]_vars => FitInv'
BY RequestFits, WorkerFits, EnvironmentFits DEF Next

\* The cache is never overbooked, for any sizes, any number of requests that have all found
\* room before one of them queues its job, and whatever the worker does meanwhile
\* (queue_archive counts again under the advisory lock).
THEOREM CacheIsNotOverbooked == Spec => []ReservationsFit
<1>1. FitInv => ReservationsFit
  BY DEF FitInv
<1> QED
  BY <1>1, InitFits, NextFits, PTL DEF Spec
=============================================================================
