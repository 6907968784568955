--------------------------- MODULE MembershipProofs -------------------------
(***************************************************************************)
(* Proofs about Memberships, for any number of people, requests and        *)
(* workers, any failures of the services and any calls they carry out late.*)
(***************************************************************************)
EXTENDS Memberships, TLAPS

\* What a reconciler has read is still what the database says: a request commits
\* only while neither of the rows that reconcilers lock is locked.
LockIsCurrent == \A w \in Workers : work[w].service # None => work[w].expected = role

\* SKIP LOCKED: two workers never reconcile one service at once.
OneReconciler ==
    \A v, w \in Workers :
        work[v].service # None /\ work[v].service = work[w].service => v = w

\* A request about the project carries a project role, one about the organization
\* an organization role.
RoleFitsKind ==
    \A c \in Calls : call[c].pc = "commit" =>
        /\ call[c].target \in Principals
        /\ call[c].kind \in {"set", "remove", "recover"} => call[c].role \in Roles \cup {None}
        /\ call[c].kind \in {"org_set", "org_remove"} => call[c].role \in OrgRoles \cup {None}

\* What a reconciler knows of a service is true of all but those whom a late call
\* has changed since it asked.
SnapshotIsTrue ==
    \A w \in Workers, s \in Services : work[w].service = s =>
        \A q \in Principals \ landed[s] : work[w].actual[q] = member[s][q]

Inv == TypeOK /\ LockIsCurrent /\ OneReconciler /\ RoleFitsKind /\ SnapshotIsTrue

LEMMA InitInv == Init => Inv
<1>1. SUFFICES ASSUME Init PROVE Inv
  OBVIOUS
<1>2. NoWork \in WorkType /\ NoCall \in CallType /\ NoWork.service = None
  BY DEF NoWork, WorkType, NoCall, CallType, Nothing, Expected, None, Services
<1>3. org \in [Principals -> OrgRoles \cup {None}] /\ bound \subseteq Principals
  BY <1>1, FounderType DEF Init, OrgRoles, None
<1>r. role \in Expected
  BY <1>1, FounderType DEF Init, Nothing, Expected, Roles, None
<1>4. mark \in [Services -> Marks] /\ recent \in [Services -> BOOLEAN]
  BY <1>1 DEF Init, Services, Marks
<1>5. member \in [Services -> Expected]
  BY <1>1 DEF Init, Expected, Roles, None
<1>6. TypeOK
  BY <1>1, <1>2, <1>3, <1>r, <1>4, <1>5 DEF Init, TypeOK
<1>7. RoleFitsKind
  BY <1>1 DEF Init, RoleFitsKind, NoCall
<1> QED
  BY <1>1, <1>2, <1>6, <1>7 DEF Init, Inv, LockIsCurrent, OneReconciler, SnapshotIsTrue, Services, None

\* A finished request fits whatever its kind was.
LEMMA FinishedFits ==
    ASSUME Inv, NEW c \in Calls, Finished(c)
    PROVE  call' \in [Calls -> CallType] /\ RoleFitsKind'
<1>1. PICK done \in CallType : done = [NoCall EXCEPT !.pc = "done"] /\ done.pc = "done"
  <2>1. [NoCall EXCEPT !.pc = "done"] =
            [pc |-> "done", kind |-> None, target |-> None, role |-> None, saw |-> None, pending |-> {}]
    BY DEF NoCall
  <2>2. PICK t \in CallType :
            t = [pc |-> "done", kind |-> None, target |-> None, role |-> None, saw |-> None, pending |-> {}]
    BY DEF CallType
  <2> QED
    BY <2>1, <2>2
<1>2. call' = [call EXCEPT ![c] = done]
  BY <1>1 DEF Finished
<1> QED
  BY <1>1, <1>2 DEF Inv, TypeOK, RoleFitsKind

\* Whatever a request writes it writes while no reconciler holds a lock.
LEMMA RequestInv == ASSUME Inv, NEW c \in Calls, Request(c) PROVE Inv'
<1>1. ASSUME NEW k \in Kinds, NEW q \in Principals,
             NEW r \in Roles \cup OrgRoles \cup {None}, Begin(c, k, q, r)
      PROVE  Inv'
  <2>1. role[q] \in Roles \cup {None}
    BY DEF Inv, TypeOK, Expected
  <2> DEFINE project == k \in {"set", "remove", "recover"}
             saw == IF project THEN role[q] ELSE None
             pending == {s \in Services : project /\ mark[s] = "pending"}
  <2>7. saw \in Roles \cup {None} /\ pending \subseteq Services
    BY <2>1
  <2>8. call' = [call EXCEPT ![c] = [pc |-> "commit", kind |-> k, target |-> q, role |-> r,
                                     saw |-> saw, pending |-> pending]]
    BY <1>1, Zenon DEF Begin
  <2> HIDE DEF saw, pending
  <2>2. PICK t \in CallType : t = [pc |-> "commit", kind |-> k, target |-> q, role |-> r,
                                   saw |-> saw, pending |-> pending]
    BY <2>7 DEF CallType
  <2>3. call' = [call EXCEPT ![c] = t]
    BY <2>2, <2>8
  <2>4. /\ k \in {"set", "remove", "recover"} => r \in Roles \cup {None}
        /\ k \in {"org_set", "org_remove"} => r \in OrgRoles \cup {None}
    BY <1>1 DEF Begin, Kinds, Roles
  <2>5. RoleFitsKind'
    BY <2>2, <2>3, <2>4 DEF Inv, TypeOK, RoleFitsKind
  <2>6. UNCHANGED <<org, role, bound, archived, mark, recent, member, work, failures, late, landed>>
    BY <1>1 DEF Begin, projectVars, syncVars
  <2> QED
    BY <2>3, <2>5, <2>6 DEF Inv, TypeOK, LockIsCurrent, OneReconciler, SnapshotIsTrue
<1>2. CASE CommitProject(c)
  <2>1. call' \in [Calls -> CallType] /\ RoleFitsKind'
    BY <1>2, FinishedFits DEF CommitProject
  <2>2. call[c].target \in Principals /\ call[c].role \in Roles \cup {None}
    BY <1>2 DEF CommitProject, Inv, RoleFitsKind
  <2>3. role' \in Expected
    BY <1>2, <2>2 DEF CommitProject, Inv, TypeOK, Expected
  <2>4. mark' \in [Services -> Marks]
    BY <1>2 DEF CommitProject, Marked, Marks, Inv, TypeOK
  <2>5. \A w \in Workers : work[w].service \notin Services
    BY <1>2 DEF CommitProject, Locked
  <2>6. \A w \in Workers : work[w].service = None
    BY <2>5 DEF Inv, TypeOK, WorkType
  <2>7. UNCHANGED <<org, bound, archived, recent, member, work, failures, late, landed>>
    BY <1>2 DEF CommitProject
  <2> QED
    BY <2>1, <2>3, <2>4, <2>6, <2>7 DEF Inv, TypeOK, LockIsCurrent, OneReconciler, SnapshotIsTrue
<1>3. CASE CommitOrganization(c)
  <2>1. call' \in [Calls -> CallType] /\ RoleFitsKind'
    BY <1>3, FinishedFits DEF CommitOrganization
  <2>2. call[c].target \in Principals /\ call[c].role \in OrgRoles \cup {None}
    BY <1>3 DEF CommitOrganization, Inv, RoleFitsKind
  <2>3. org' \in [Principals -> OrgRoles \cup {None}]
    BY <1>3, <2>2 DEF CommitOrganization, Inv, TypeOK
  <2>4. UNCHANGED <<role, bound, archived, mark, recent, member, work, failures, late, landed>>
    BY <1>3 DEF CommitOrganization, syncVars
  <2> QED
    BY <2>1, <2>3, <2>4 DEF Inv, TypeOK, LockIsCurrent, OneReconciler, SnapshotIsTrue
<1>4. CASE Break(c)
  <2>1. call' \in [Calls -> CallType] /\ RoleFitsKind'
    BY <1>4, FinishedFits DEF Break
  <2>2. UNCHANGED <<org, role, bound, archived, mark, recent, member, work, failures, late, landed>>
    BY <1>4 DEF Break, projectVars, syncVars
  <2> QED
    BY <2>1, <2>2 DEF Inv, TypeOK, LockIsCurrent, OneReconciler, SnapshotIsTrue
<1> QED
  BY <1>1, <1>2, <1>3, <1>4 DEF Request

\* One account of one service changes.
LEMMA MemberStep ==
    ASSUME Inv, NEW s \in Services, NEW q \in Principals, NEW x \in Roles \cup {None},
           member' = [member EXCEPT ![s][q] = x]
    PROVE  /\ member' \in [Services -> Expected]
           /\ member'[s][q] = x
           /\ \A u \in Services \ {s} : member'[u] = member[u]
           /\ \A p \in Principals \ {q} : member'[s][p] = member[s][p]
<1>1. PICK e \in Expected : e = [member[s] EXCEPT ![q] = x]
  BY DEF Inv, TypeOK, Expected
<1>2. member' = [member EXCEPT ![s] = e]
  BY <1>1
<1>3. e[q] = x /\ \A p \in Principals \ {q} : e[p] = member[s][p]
  BY <1>1 DEF Inv, TypeOK, Expected
<1> QED
  BY <1>2, <1>3 DEF Inv, TypeOK

\* A reconciler notes a call that has been answered.
LEMMA NotedStep ==
    ASSUME Inv, NEW w \in Workers, NEW q \in Principals, work[w].service \in Services, Noted(w, q)
    PROVE  /\ work' \in [Workers -> WorkType]
           /\ \A v \in Workers \ {w} : work'[v] = work[v]
           /\ work'[w].service = work[w].service /\ work'[w].expected = work[w].expected
           /\ work'[w].actual[q] = work[w].expected[q]
           /\ \A p \in Principals \ {q} : work'[w].actual[p] = work[w].actual[p]
<1>1. work[w] \in WorkType /\ work[w].expected[q] \in Roles \cup {None}
  BY DEF Inv, TypeOK, WorkType, Expected
<1>2. PICK e \in Expected : e = [work[w].actual EXCEPT ![q] = work[w].expected[q]]
  BY <1>1 DEF WorkType, Expected
<1>3. PICK t \in WorkType : t = [work[w] EXCEPT !.actual = e]
  BY <1>1 DEF WorkType
<1>4. work' = [work EXCEPT ![w] = t]
  BY <1>2, <1>3 DEF Noted
<1>5. /\ t.service = work[w].service /\ t.expected = work[w].expected /\ t.actual = e
      /\ e[q] = work[w].expected[q] /\ \A p \in Principals \ {q} : e[p] = work[w].actual[p]
  BY <1>1, <1>2, <1>3 DEF WorkType, Expected
<1> QED
  BY <1>4, <1>5 DEF Inv, TypeOK

\* A reconciler that ends its work changes nothing for the one at the other service.
LEMMA LeaveStep ==
    ASSUME Inv, NEW w \in Workers, work[w].service \in Services, Leave(w)
    PROVE  /\ work' \in [Workers -> WorkType] /\ work'[w].service = None
           /\ \A v \in Workers \ {w} : work'[v] = work[v]
           /\ landed' \in [Services -> SUBSET Principals]
           /\ \A s \in Services \ {work[w].service} : landed'[s] = landed[s]
<1>1. NoWork \in WorkType /\ NoWork.service = None
  BY DEF NoWork, WorkType, Nothing, Expected, None, Services
<1>2. /\ work' = [work EXCEPT ![w] = NoWork]
      /\ landed' = [landed EXCEPT ![work[w].service] = {}]
  BY DEF Leave
<1> QED
  BY <1>1, <1>2 DEF Inv, TypeOK

LEMMA LeaveInv ==
    ASSUME Inv, NEW w \in Workers, work[w].service \in Services, Leave(w), late' \subseteq LateType,
           failures' \in Nat, mark' \in [Services -> Marks], recent' \in [Services -> BOOLEAN],
           UNCHANGED <<org, role, bound, archived, member, call>>
    PROVE  Inv'
<1>1. TypeOK' /\ LockIsCurrent' /\ OneReconciler' /\ RoleFitsKind'
  BY LeaveStep DEF Inv, TypeOK, LockIsCurrent, OneReconciler, RoleFitsKind
<1>2. ASSUME NEW v \in Workers, NEW s \in Services, work'[v].service = s,
             NEW q \in Principals \ landed'[s]
      PROVE  work'[v].actual[q] = member'[s][q]
  <2>1. v # w /\ work'[v] = work[v]
    BY <1>2, LeaveStep DEF None, Services
  <2>2. s # work[w].service
    BY <1>2, <2>1 DEF Inv, OneReconciler, Services, None
  <2> QED
    BY <1>2, <2>1, <2>2, LeaveStep DEF Inv, SnapshotIsTrue
<1> QED
  BY <1>1, <1>2 DEF Inv, SnapshotIsTrue

\* What is given up asks for what the reconciler was about to change.
LEMMA GiveUpType ==
    ASSUME Inv, NEW w \in Workers, work[w].service \in Services, GiveUp(w)
    PROVE  failures' \in Nat /\ late' \subseteq LateType
<1>1. failures \in Nat /\ failures' \in Nat /\ late \subseteq LateType
  BY DEF GiveUp, Inv, TypeOK
<1>2. ASSUME NEW q \in Turn(w), NEW p \in Carried(w, q)
      PROVE  [service |-> work[w].service, who |-> p, change |-> Change(w, p),
              role |-> work[w].expected[p], failure |-> failures] \in LateType
  <2>1. p \in Principals /\ Change(w, p) # None
    BY <1>2 DEF Carried, Turn, Todo
  <2>2. Change(w, p) \in {"add", "update", "remove"}
    BY <2>1 DEF Change
  <2>3. work[w].expected[p] \in Roles \cup {None}
    BY <2>1 DEF Inv, TypeOK, WorkType, Expected
  <2> QED
    BY <1>1, <2>1, <2>2, <2>3 DEF LateType
<1>3. CASE UNCHANGED late
  BY <1>1, <1>3
<1>4. ASSUME NEW q \in Turn(w),
             late' = late \cup
                       {[service |-> work[w].service, who |-> p, change |-> Change(w, p),
                         role |-> work[w].expected[p], failure |-> failures] : p \in Carried(w, q)}
      PROVE  late' \subseteq LateType
  BY <1>1, <1>2, <1>4
<1> QED
  BY <1>1, <1>3, <1>4 DEF GiveUp

\* A reconciler reads under its lock and writes marks, never memberships.
LEMMA ReconcileInv == ASSUME Inv, NEW w \in Workers, Reconcile(w) PROVE Inv'
<1>1. work[w].service # None => work[w].service \in Services
  BY DEF Inv, TypeOK, WorkType
<1>2. ASSUME NEW s \in Services, Start(w, s) PROVE Inv'
  <2>1. PICK t \in WorkType : t = [service |-> s, expected |-> role, managed |-> bound,
                                   actual |-> member[s]]
    BY DEF WorkType, Inv, TypeOK
  <2>2. work' = [work EXCEPT ![w] = t] /\ t.expected = role /\ t.service = s /\ t.actual = member[s]
    BY <1>2, <2>1 DEF Start
  <2>3. UNCHANGED <<org, role, bound, archived, mark, recent, member, call, failures, late, landed>>
    BY <1>2 DEF Start, projectVars
  <2>4. TypeOK' /\ LockIsCurrent' /\ RoleFitsKind' /\ SnapshotIsTrue'
    BY <2>2, <2>3 DEF Inv, TypeOK, LockIsCurrent, RoleFitsKind, SnapshotIsTrue
  <2>5. \A v \in Workers : work[v].service # s
    BY <1>2 DEF Start, Locked
  <2>6. OneReconciler'
    BY <2>2, <2>5 DEF Inv, TypeOK, OneReconciler
  <2> QED
    BY <2>4, <2>6 DEF Inv
<1>3. ASSUME NEW q \in Principals, Apply(w, q) PROVE Inv'
  <2>1. work[w].expected[q] \in Roles \cup {None}
    BY DEF Inv, TypeOK, WorkType, Expected
  <2>2. PICK s \in Services, x \in Roles \cup {None} :
            s = work[w].service /\ x = work[w].expected[q]
    BY <1>1, <1>3, <2>1 DEF Apply
  <2>3. member' = [member EXCEPT ![s][q] = x] /\ Noted(w, q)
    BY <1>3, <2>2 DEF Apply
  <2>4. UNCHANGED <<org, role, bound, archived, mark, recent, call, failures, late, landed>>
    BY <1>3 DEF Apply, projectVars
  <2>5. TypeOK' /\ LockIsCurrent' /\ OneReconciler' /\ RoleFitsKind'
    <3>1. /\ work' \in [Workers -> WorkType]
          /\ \A z \in Workers \ {w} : work'[z] = work[z]
          /\ work'[w].service = work[w].service /\ work'[w].expected = work[w].expected
      BY <2>2, <2>3, NotedStep
    <3>2. member' \in [Services -> Expected]
      BY <2>3, MemberStep, ZenonT(30)
    <3> QED
      BY <2>4, <3>1, <3>2 DEF Inv, TypeOK, LockIsCurrent, OneReconciler, RoleFitsKind
  <2>6. ASSUME NEW v \in Workers, NEW u \in Services, work'[v].service = u,
               NEW p \in Principals \ landed[u]
        PROVE  work'[v].actual[p] = member'[u][p]
    <3>1. /\ \A z \in Workers \ {w} : work'[z] = work[z]
          /\ work'[w].service = s /\ work'[w].actual[q] = x
          /\ \A z \in Principals \ {q} : work'[w].actual[z] = work[w].actual[z]
      BY <2>2, <2>3, NotedStep
    <3>2. /\ member'[s][q] = x
          /\ \A y \in Services \ {s} : member'[y] = member[y]
          /\ \A z \in Principals \ {q} : member'[s][z] = member[s][z]
      BY <2>3, MemberStep, ZenonT(30)
    <3>3. \A y \in Services, z \in Workers :
              work[z].service = y => \A a \in Principals \ landed[y] : work[z].actual[a] = member[y][a]
      BY DEF Inv, SnapshotIsTrue
    <3>4. CASE v = w
      BY <2>2, <2>6, <3>1, <3>2, <3>3, <3>4
    <3>5. CASE v # w
      <4>1. work'[v] = work[v] /\ work[v].service = u
        BY <2>6, <3>1, <3>5
      <4>2. u # s
        BY <2>2, <3>5, <4>1 DEF Inv, OneReconciler, Services, None
      <4> QED
        BY <2>6, <3>2, <3>3, <4>1, <4>2
    <3> QED
      BY <3>4, <3>5
  <2> QED
    BY <2>4, <2>5, <2>6 DEF Inv, SnapshotIsTrue
<1>4. ASSUME NEW o \in Marks, work[w].service # None, Conclude(w, o), failures' \in Nat,
             late' \subseteq LateType
      PROVE  Inv'
  <2>1. PICK s \in Services : s = work[w].service
    BY <1>1, <1>4
  <2>2. mark' \in [Services -> Marks]
    BY <1>4, <2>1 DEF Conclude, Inv, TypeOK
  <2>3. recent' = [recent EXCEPT ![s] = TRUE]
    BY <1>4, <2>1 DEF Conclude
  <2>4. recent' \in [Services -> BOOLEAN]
    BY <2>3, Zenon DEF Inv, TypeOK
  <2>5. Leave(w) /\ UNCHANGED <<org, role, bound, archived, member, call>>
    BY <1>4 DEF Conclude, projectVars
  <2> QED
    BY <1>4, <2>1, <2>2, <2>4, <2>5, LeaveInv
<1>5. ASSUME NEW q \in Principals, Miss(w, q) PROVE Inv'
  <2>1. work[w].service \in Services /\ UNCHANGED <<failures, late>>
    BY <1>1, <1>5 DEF Miss
  <2>2. CASE Conclude(w, "failed")
    BY <1>4, <2>1, <2>2 DEF Inv, TypeOK, Marks, Services, None
  <2>3. CASE Noted(w, q) /\ UNCHANGED <<projectVars, mark, recent, member, call, landed>>
    <3>1. UNCHANGED <<org, role, bound, archived, mark, recent, member, call, landed>>
      BY <2>3 DEF projectVars
    <3>2. TypeOK' /\ LockIsCurrent' /\ OneReconciler' /\ RoleFitsKind'
      BY <2>1, <2>3, <3>1, NotedStep
         DEF Inv, TypeOK, LockIsCurrent, OneReconciler, RoleFitsKind
    <3>3. q \in landed[work[w].service]
      <4> SUFFICES ASSUME q \notin landed[work[w].service] PROVE FALSE
        OBVIOUS
      <4>1. work[w].actual[q] = member[work[w].service][q]
        BY <2>1 DEF Inv, SnapshotIsTrue
      <4>2. q \in Todo(w) /\ ~Applies(work[w].service, Change(w, q), q)
        BY <1>5 DEF Miss, Turn
      <4>3. Change(w, q) # None
        BY <4>2 DEF Todo
      <4>4. CASE work[w].actual[q] = None
        <5>1. Change(w, q) = "add"
          BY <4>3, <4>4 DEF Change
        <5> QED
          BY <4>1, <4>2, <4>4, <5>1 DEF Applies
      <4>5. CASE work[w].actual[q] # None
        <5>1. Change(w, q) # "add"
          BY <4>5 DEF Change, None
        <5> QED
          BY <4>1, <4>2, <4>5, <5>1 DEF Applies
      <4> QED
        BY <4>4, <4>5
    <3>4. ASSUME NEW v \in Workers, NEW u \in Services, work'[v].service = u,
                 NEW p \in Principals \ landed[u]
          PROVE  work'[v].actual[p] = member[u][p]
      BY <2>1, <2>3, <3>3, <3>4, NotedStep DEF Inv, SnapshotIsTrue
    <3> QED
      BY <3>1, <3>2, <3>4 DEF Inv, SnapshotIsTrue
  <2> QED
    BY <1>5, <2>2, <2>3 DEF Miss
<1>6. CASE Succeed(w)
  BY <1>4, <1>6 DEF Succeed, Marks, Inv, TypeOK
<1>7. CASE Fail(w)
  BY <1>1, <1>4, <1>7, GiveUpType DEF Fail, Marks
<1>8. CASE Crash(w)
  <2>1. work[w].service \in Services /\ GiveUp(w) /\ Leave(w)
    BY <1>1, <1>8 DEF Crash
  <2>2. UNCHANGED <<org, role, bound, archived, mark, recent, member, call>>
    BY <1>8 DEF Crash, projectVars
  <2>3. mark' \in [Services -> Marks] /\ recent' \in [Services -> BOOLEAN]
    BY <2>2 DEF Inv, TypeOK
  <2> QED
    BY <2>1, <2>2, <2>3, GiveUpType, LeaveInv
<1> QED
  BY <1>2, <1>3, <1>5, <1>6, <1>7, <1>8 DEF Reconcile

\* A late call makes the snapshot stale, and is recorded as the one that does.
LEMMA LandInv == ASSUME Inv, NEW l \in late, Land(l) PROVE Inv'
<1>1. l \in LateType
  BY DEF Inv, TypeOK
<1>2. PICK s \in Services, q \in Principals, x \in Roles \cup {None} :
          s = l.service /\ q = l.who /\ x = l.role
  BY <1>1 DEF LateType
<1>3. /\ member' = [member EXCEPT ![s][q] = x] /\ late' = late \ {l}
      /\ UNCHANGED <<org, role, bound, archived, mark, recent, call, work, failures>>
      /\ landed' = IF Locked(s) THEN [landed EXCEPT ![s] = @ \cup {q}] ELSE landed
  BY <1>2 DEF Land, projectVars
<1>4. /\ landed' \in [Services -> SUBSET Principals]
      /\ \A u \in Services : landed[u] \subseteq landed'[u]
      /\ Locked(s) => q \in landed'[s]
  BY <1>3 DEF Inv, TypeOK
<1>5. TypeOK' /\ LockIsCurrent' /\ OneReconciler' /\ RoleFitsKind'
  BY <1>3, <1>4, MemberStep DEF Inv, TypeOK, LockIsCurrent, OneReconciler, RoleFitsKind
<1>6. ASSUME NEW v \in Workers, NEW u \in Services, work[v].service = u,
             NEW p \in Principals \ landed'[u]
      PROVE  work[v].actual[p] = member'[u][p]
  <2>1. u # s \/ p # q
    BY <1>4, <1>6 DEF Locked
  <2> QED
    BY <1>3, <1>4, <1>6, <2>1, MemberStep DEF Inv, SnapshotIsTrue
<1> QED
  BY <1>3, <1>5, <1>6 DEF Inv, SnapshotIsTrue

\* Logins, archiving and time touch nothing that a reconciler or request relies on.
LEMMA EnvironmentInv ==
    ASSUME Inv,
           \/ \E q \in Principals : Login(q)
           \/ \E s \in Services : Age(s)
           \/ Archive \/ Restore \/ UNCHANGED vars
    PROVE  Inv'
<1>1. ASSUME NEW q \in Principals, Login(q) PROVE Inv'
  BY <1>1 DEF Login, syncVars, Inv, TypeOK, LockIsCurrent, OneReconciler, RoleFitsKind, SnapshotIsTrue
<1>2. ASSUME NEW s \in Services, Age(s) PROVE Inv'
  <2>1. recent' = [recent EXCEPT ![s] = FALSE]
    BY <1>2 DEF Age
  <2>2. recent' \in [Services -> BOOLEAN]
    BY <2>1, Zenon DEF Inv, TypeOK
  <2>3. UNCHANGED <<org, role, bound, archived, mark, member, call, work, failures, late, landed>>
    BY <1>2 DEF Age, projectVars
  <2> QED
    BY <2>2, <2>3 DEF Inv, TypeOK, LockIsCurrent, OneReconciler, RoleFitsKind, SnapshotIsTrue
<1>3. CASE Archive \/ Restore
  <2>1. UNCHANGED <<org, role, bound, call, mark, recent, member, work, failures, late, landed>>
    BY <1>3 DEF Archive, Restore, syncVars
  <2>2. archived' \in BOOLEAN
    BY <1>3, Zenon DEF Archive, Restore
  <2> QED
    BY <2>1, <2>2 DEF Inv, TypeOK, LockIsCurrent, OneReconciler, RoleFitsKind, SnapshotIsTrue
<1>4. CASE UNCHANGED vars
  BY <1>4 DEF vars, Inv, TypeOK, LockIsCurrent, OneReconciler, RoleFitsKind, SnapshotIsTrue
<1> QED
  BY <1>1, <1>2, <1>3, <1>4

LEMMA NextInv == Inv /\ [Next]_vars => Inv'
<1>1. SUFFICES ASSUME Inv, [Next]_vars PROVE Inv'
  OBVIOUS
<1> QED
  BY <1>1, RequestInv, ReconcileInv, EnvironmentInv, LandInv DEF Next

\* Every variable keeps its type (rows of Memberships and what a reconciler holds).
THEOREM TypeCorrect == Spec => []TypeOK
<1>1. Inv => TypeOK
  BY DEF Inv
<1> QED
  BY <1>1, InitInv, NextInv, PTL DEF Spec

\* What a reconciler changes is what the database says at that moment: the row locks
\* that GitLabMembershipReconciler and InfisicalMembershipReconciler hold during
\* their HTTP calls keep every membership request from committing.  A call that one of
\* them gave up, by its timeout or its death, is the only other thing that changes access.
THEOREM ReconcilersFollow == Spec => ChangesFollowDatabase
<1> DEFINE Follows ==
        \A s \in Services, q \in Principals :
            member'[s][q] # member[s][q] =>
               \/ member'[s][q] = role[q]
               \/ \E l \in late \ late' :
                     l.service = s /\ l.who = q /\ l.role = member'[s][q]
<1>1. ASSUME Inv, Next PROVE Follows
  <2>1. SUFFICES ASSUME \/ UNCHANGED member
                        \/ \E w \in Workers, p \in Principals : Apply(w, p)
                        \/ \E l \in late : Land(l)
                 PROVE  Follows
    <3>1. ASSUME NEW c \in Calls, Request(c) PROVE UNCHANGED member
      BY <3>1 DEF Request, Begin, CommitProject, CommitOrganization, Break, syncVars
    <3>2. ASSUME NEW w \in Workers, Reconcile(w)
          PROVE  UNCHANGED member \/ \E p \in Principals : Apply(w, p)
      BY <3>2 DEF Reconcile, Start, Miss, Succeed, Fail, Crash, Conclude
    <3>3. ASSUME \/ \E q \in Principals : Login(q)
                 \/ \E s \in Services : Age(s)
                 \/ Archive \/ Restore
          PROVE  UNCHANGED member
      BY <3>3 DEF Login, Age, Archive, Restore, syncVars
    <3> QED
      BY <1>1, <3>1, <3>2, <3>3 DEF Next
  <2>2. ASSUME NEW w \in Workers, NEW p \in Principals, Apply(w, p) PROVE Follows
    <3>1. work[w].expected = role /\ work[w].service \in Services
      BY <1>1, <2>2 DEF Apply, Inv, TypeOK, WorkType, LockIsCurrent
    <3>2. PICK t \in Services, x \in Roles \cup {None} : t = work[w].service /\ x = role[p]
      BY <1>1, <3>1 DEF Inv, TypeOK, Expected
    <3>3. member' = [member EXCEPT ![t][p] = x]
      BY <2>2, <3>1, <3>2 DEF Apply
    <3>4. /\ member'[t][p] = x
          /\ \A u \in Services \ {t} : member'[u] = member[u]
          /\ \A q \in Principals \ {p} : member'[t][q] = member[t][q]
      BY <1>1, <3>3, MemberStep, ZenonT(30)
    <3> QED
      BY <3>2, <3>4
  <2>3. ASSUME NEW l \in late, Land(l) PROVE Follows
    <3>1. PICK t \in Services, p \in Principals, x \in Roles \cup {None} :
              t = l.service /\ p = l.who /\ x = l.role
      BY <1>1 DEF Inv, TypeOK, LateType
    <3>2. member' = [member EXCEPT ![t][p] = x] /\ l \in late \ late'
      BY <2>3, <3>1 DEF Land
    <3>3. /\ member'[t][p] = x
          /\ \A u \in Services \ {t} : member'[u] = member[u]
          /\ \A q \in Principals \ {p} : member'[t][q] = member[t][q]
      BY <1>1, <3>2, MemberStep, ZenonT(30)
    <3> QED
      BY <3>1, <3>2, <3>3
  <2> QED
    BY <2>1, <2>2, <2>3
<1>2. Inv /\ [Next]_vars => [Follows]_vars
  BY <1>1
<1> QED
  BY <1>2, InitInv, NextInv, PTL DEF Spec, ChangesFollowDatabase

\* "in_sync" is only written over a service that agrees with the database on everybody
\* who had logged in and whom no late call changed meanwhile (the else branch of
\* run_once in both reconcilers).
THEOREM InSyncMeansAgreement == Spec => InSyncIsEarned
<1> DEFINE Earned ==
        \A s \in Services, w \in Workers :
            work[w].service = s /\ mark'[s] = "in_sync" /\ mark[s] # "in_sync" =>
               \A q \in work[w].managed \ landed[s] : member[s][q] = role[q]
<1>1. ASSUME Inv, Next PROVE Earned
  <2>1. SUFFICES ASSUME NEW s \in Services, NEW w \in Workers, NEW q \in work[w].managed \ landed[s],
                        work[w].service = s, mark'[s] = "in_sync", mark[s] # "in_sync"
                 PROVE  member[s][q] = role[q]
    OBVIOUS
  <2>2. Succeed(w)
    <3>1. ASSUME NEW c \in Calls PROVE ~Request(c)
      <4>1. Request(c) => mark' = mark \/ mark' = Marked(c)
        BY DEF Request, Begin, CommitProject, CommitOrganization, Break, syncVars
      <4> QED
        BY <2>1, <4>1 DEF Marked
    <3>2. ~Archive /\ ~Restore /\ (\A p \in Principals : ~Login(p)) /\ \A t \in Services : ~Age(t)
      BY <2>1 DEF Archive, Restore, Login, Age, syncVars
    <3>7. \A l \in late : ~Land(l)
      BY <2>1 DEF Land
    <3>3. PICK v \in Workers : Reconcile(v)
      BY <1>1, <3>1, <3>2, <3>7 DEF Next
    <3>4. Succeed(v) \/ Fail(v) \/ \E p \in Principals : Miss(v, p) /\ Conclude(v, "failed")
      BY <2>1, <3>3 DEF Reconcile, Start, Apply, Miss, Crash
    <3>5. PICK o \in Marks : /\ mark' = [mark EXCEPT ![work[v].service] = o]
                             /\ Succeed(v) \/ o = "failed"
      BY <3>4 DEF Succeed, Fail, Conclude, Marks
    <3>6. work[v].service = s /\ o = "in_sync"
      BY <1>1, <2>1, <3>5 DEF Inv, TypeOK
    <3> QED
      BY <1>1, <2>1, <3>4, <3>5, <3>6 DEF Inv, OneReconciler, Services, None
  <2>3. q \in Principals /\ work[w].expected = role
    BY <1>1, <2>1 DEF Inv, TypeOK, WorkType, LockIsCurrent, Services, None
  <2>4. Change(w, q) = None
    BY <2>2, <2>3 DEF Succeed, Todo
  <2>5. work[w].actual[q] = member[s][q]
    BY <1>1, <2>1, <2>3 DEF Inv, SnapshotIsTrue
  <2>6. work[w].actual[q] = work[w].expected[q]
    BY <2>1, <2>4 DEF Change, None
  <2> QED
    BY <2>3, <2>5, <2>6
<1>2. Inv /\ [Next]_vars => [Earned]_vars
  BY <1>1
<1> QED
  BY <1>2, InitInv, NextInv, PTL DEF Spec, InSyncIsEarned
=============================================================================
