----------------------------- MODULE Memberships ----------------------------
(***************************************************************************)
(* Who belongs to the organization and to one Research Project, and who    *)
(* has access to the project's GitLab group and Infisical project.  API    *)
(* requests change the memberships; each worker process runs two           *)
(* reconcilers that make the external members follow them.                 *)
(*                                                                         *)
(* A reconciler keeps the row it selected locked during all its HTTP       *)
(* calls: gitlab the project row, infisical the row of the secret context. *)
(* A request writes both rows, so it commits while neither is locked.  A   *)
(* call that times out, or whose caller dies, may be carried out later,    *)
(* when the row has long been free.                                        *)
(***************************************************************************)
EXTENDS Naturals, FiniteSets

CONSTANTS Principals,   \* people, each with one account per service
          Founder,      \* first Maintainer, first Admin
          Strangers,    \* have access to the services that no role explains
          Calls,        \* membership requests, numbered in the order of their reads
          Workers,      \* worker processes
          Granted,      \* roles that requests give
          MaxFailures   \* bound: failures of the services

ASSUME FounderType == Founder \in Principals \ Strangers
ASSUME StrangersType == Strangers \subseteq Principals
ASSUME CallsType == Calls \subseteq Nat
ASSUME BoundType == MaxFailures \in Nat

Services == {"gitlab", "infisical"}
Roles == {"viewer", "contributor", "maintainer"}
OrgRoles == {"member", "admin"}
Kinds == {"set", "remove", "recover", "org_set", "org_remove"}
Marks == {"queued", "pending", "in_sync", "failed"}

ASSUME GrantedType == Granted \subseteq Roles \cup OrgRoles

VARIABLES org,       \* organization_memberships: a role or "none"
          role,      \* project_memberships of the project
          bound,     \* principals with a gitlab_identity_bindings row
          archived,  \* the project is archived, else active
          mark,      \* gitlab_reconciliation_state, reconciliation_state
          recent,    \* reconciled within the target interval
          member,    \* member[s][q]: what q may do in service s
          call,      \* requests, between their reads and their commit
          work,      \* work[w]: the reconciliation under way
          failures,
          late,      \* HTTP calls given up that a service may still carry out
          landed     \* landed[s]: history, whose late calls s has carried out during
                     \* the reconciliation under way

vars == <<org, role, bound, archived, mark, recent, member, call, work, failures, late, landed>>
projectVars == <<org, role, bound, archived>>
syncVars == <<mark, recent, member, work, failures, late, landed>>

None == "none"
Expected == [Principals -> Roles \cup {None}]
CallType == [pc : {"new", "commit", "done"}, kind : Kinds \cup {None},
             target : Principals \cup {None}, role : Roles \cup OrgRoles \cup {None},
             saw : Roles \cup {None}, pending : SUBSET Services]
WorkType == [service : Services \cup {None}, expected : Expected, managed : SUBSET Principals,
             actual : Expected]
LateType == [service : Services, who : Principals, change : {"add", "update", "remove"},
             role : Roles \cup {None}, failure : Nat]

Nothing == [q \in Principals |-> None]
NoCall == [pc |-> "new", kind |-> None, target |-> None, role |-> None,
           saw |-> None, pending |-> {}]
NoWork == [service |-> None, expected |-> Nothing, managed |-> {}, actual |-> Nothing]

\* Those who have logged in may be members of the organization when the project begins.
Init ==
    /\ \E known \in SUBSET Principals :
          /\ bound = known \cup {Founder}
          /\ org = [q \in Principals |-> IF q = Founder THEN "admin"
                                        ELSE IF q \in known THEN "member" ELSE None]
    /\ role = [Nothing EXCEPT ![Founder] = "maintainer"]
    /\ archived = FALSE
    /\ mark = [gitlab |-> "pending", infisical |-> "queued"]
    /\ recent = [s \in Services |-> FALSE]
    /\ member = [s \in Services |->
                    [q \in Principals |-> IF q \in Strangers THEN "viewer" ELSE None]]
    /\ call = [c \in Calls |-> NoCall]
    /\ work = [w \in Workers |-> NoWork]
    /\ failures = 0
    /\ late = {}
    /\ landed = [s \in Services |-> {}]

-----------------------------------------------------------------------------
(* Requests. X_Something is X with a plausible bug: no action uses it, it  *)
(* shows that the properties notice the bug.                               *)

Maintainers == {q \in Principals : role[q] = "maintainer"}
Admins == {q \in Principals : org[q] = "admin"}

\* Rows locked by a reconciler.
Locked_Never(s) == s \notin Services
Locked(s) == \E w \in Workers : work[w].service = s

\* What ProjectMembershipService.set, remove and recover_maintainer check.
MaySet(q, r) ==
    /\ ~archived /\ Maintainers # {}
    /\ ~(q \in Maintainers /\ r # "maintainer" /\ Cardinality(Maintainers) = 1)
    /\ q \in bound /\ org[q] # None

MayRemove(q) ==
    /\ ~archived /\ Maintainers # {}
    /\ role[q] # None
    /\ ~(q \in Maintainers /\ Cardinality(Maintainers) = 1)

MayRecover(q) == Admins # {} /\ q \in bound /\ org[q] # None

\* What OrganizationMembershipService.set and remove check.
MayOrgSet(q, r) ==
    /\ Admins # {} /\ q \in bound
    /\ ~(q \in Admins /\ r # "admin" /\ Cardinality(Admins) = 1)

MayOrgRemove(q) ==
    /\ Admins # {} /\ org[q] # None
    /\ ~(q \in Admins /\ Cardinality(Admins) = 1)

\* The reads of a request that is not refused, up to those of the rows it writes.
Begin(c, k, q, r) ==
    /\ call[c].pc = "new"
    /\ \A d \in Calls : d < c => call[d].pc # "new"
    /\ CASE k = "set"        -> r \in Roles \cap Granted /\ MaySet(q, r)
         [] k = "remove"     -> r = None /\ MayRemove(q)
         [] k = "recover"    -> r = "maintainer" /\ MayRecover(q)
         [] k = "org_set"    -> r \in OrgRoles \cap Granted /\ MayOrgSet(q, r)
         [] k = "org_remove" -> r = None /\ MayOrgRemove(q)
    /\ LET project == k \in {"set", "remove", "recover"} IN
       call' = [call EXCEPT ![c] =
                   [pc |-> "commit", kind |-> k, target |-> q, role |-> r,
                    saw |-> IF project THEN role[q] ELSE None,
                    pending |-> {s \in Services : project /\ mark[s] = "pending"}]]
    /\ UNCHANGED <<projectVars, syncVars>>

Finished(c) == call' = [call EXCEPT ![c] = [NoCall EXCEPT !.pc = "done"]]

\* mark_reconciliation_pending. A column that held "pending" when it was read is
\* not written, although a reconciler may have changed it since.
Marked(c) == [s \in Services |-> IF s \in call[c].pending THEN mark[s] ELSE "pending"]

\* put_membership or remove_membership, with the mark and the COMMIT. A role that
\* was read as it should be is not written either.
CommitProject(c) ==
    LET t == call[c] IN
    /\ t.pc = "commit"
    /\ t.kind \in {"set", "remove", "recover"}
    /\ \A s \in Services : ~Locked(s)
    /\ role' = IF t.saw = t.role THEN role ELSE [role EXCEPT ![t.target] = t.role]
    /\ mark' = Marked(c)
    /\ Finished(c)
    /\ UNCHANGED <<org, bound, archived, recent, member, work, failures, late, landed>>

CommitOrganization(c) ==
    LET t == call[c] IN
    /\ t.pc = "commit"
    /\ t.kind \in {"org_set", "org_remove"}
    /\ org' = [org EXCEPT ![t.target] = t.role]
    /\ Finished(c)
    /\ UNCHANGED <<role, bound, archived, syncVars>>

\* The row to be updated was deleted, or inserted, by another request meanwhile.
Break(c) ==
    LET t == call[c] IN
    /\ t.pc = "commit"
    /\ t.kind \in {"set", "recover"}
    /\ (t.saw = None) # (role[t.target] = None)
    /\ Finished(c)
    /\ UNCHANGED <<projectVars, syncVars>>

\* GitLabIdentityStore.resolve_or_create, at a login.
Login(q) ==
    /\ q \notin bound
    /\ bound' = bound \cup {q}
    /\ UNCHANGED <<org, role, archived, call, syncVars>>

\* ProjectService.archive and restore: the project row has to be free.
Archive ==
    /\ ~archived /\ Maintainers # {}
    /\ ~Locked("gitlab")
    /\ archived' = TRUE
    /\ UNCHANGED <<org, role, bound, call, syncVars>>

Restore ==
    /\ archived /\ Admins # {}
    /\ ~Locked("gitlab")
    /\ archived' = FALSE
    /\ UNCHANGED <<org, role, bound, call, syncVars>>

-----------------------------------------------------------------------------
(* Reconcilers                                                             *)

\* The rows that run_once of each reconciler selects.
Due_OnlyMarked(s) == mark[s] \notin {"in_sync", "failed"}
Due(s) == \/ s = "gitlab" /\ ~archived /\ (mark[s] # "in_sync" \/ ~recent[s])
          \/ s = "infisical" /\ ~recent[s]

\* The row and the members in the database are read under its lock, then the
\* service is asked for those it has.
Start(w, s) ==
    /\ work[w].service = None
    /\ ~Locked(s)
    /\ Due(s)
    /\ work' = [work EXCEPT ![w] = [service |-> s, expected |-> role, managed |-> bound,
                                    actual |-> member[s]]]
    /\ UNCHANGED <<projectVars, mark, recent, member, call, failures, late, landed>>

\* What _reconcile has to do about q: nothing about accounts that nobody logged
\* in with.
Change(w, q) ==
    LET has == work[w].actual[q]
        wants == work[w].expected[q]
    IN IF has = wants \/ (wants = None /\ q \notin work[w].managed) THEN None
       ELSE CASE has = None -> "add"
              [] wants = None -> "remove"
              [] OTHER -> "update"

Todo_AddOnly(w) == {q \in Principals : Change(w, q) = "add"}
Todo(w) == {q \in Principals : Change(w, q) # None}

\* Additions come first; then gitlab updates and removes, infisical removes and updates.
Before(s, k) == CASE k = "add" -> {}
                  [] k = "update" -> IF s = "gitlab" THEN {"add"} ELSE {"add", "remove"}
                  [] k = "remove" -> IF s = "gitlab" THEN {"add", "update"} ELSE {"add"}

Turn(w) == {q \in Todo(w) :
               \A p \in Todo(w) : Change(w, p) \notin Before(work[w].service, Change(w, q))}

\* A service adds only those it does not have; it changes and removes only those it has.
Applies(s, k, q) == (k = "add") <=> (member[s][q] = None)

Noted(w, q) == work' = [work EXCEPT ![w].actual[q] = work[w].expected[q]]

\* One HTTP call (Infisical adds and removes several members with one call, and
\* may do so one by one).
Apply(w, q) ==
    /\ work[w].service # None
    /\ q \in Turn(w)
    /\ Applies(work[w].service, Change(w, q), q)
    /\ member' = [member EXCEPT ![work[w].service][q] = work[w].expected[q]]
    /\ Noted(w, q)
    /\ UNCHANGED <<projectVars, mark, recent, call, failures, late, landed>>

Leave(w) ==
    /\ work' = [work EXCEPT ![w] = NoWork]
    /\ landed' = [landed EXCEPT ![work[w].service] = {}]

\* The outcome of a reconciliation and the COMMIT that unlocks the row.
Conclude(w, outcome) ==
    /\ mark' = [mark EXCEPT ![work[w].service] = outcome]
    /\ recent' = [recent EXCEPT ![work[w].service] = TRUE]
    /\ Leave(w)
    /\ UNCHANGED <<projectVars, member, call>>

\* The list of members has become stale under a late call: GitLab refuses, Infisical
\* refuses or finds nothing to do.
Miss(w, q) ==
    /\ work[w].service # None
    /\ q \in Turn(w)
    /\ ~Applies(work[w].service, Change(w, q), q)
    /\ \/ Conclude(w, "failed")
       \/ /\ work[w].service = "infisical"
          /\ Noted(w, q)
          /\ UNCHANGED <<projectVars, mark, recent, member, call, landed>>
    /\ UNCHANGED <<failures, late>>

Succeed(w) ==
    /\ work[w].service # None
    /\ Todo(w) = {}
    /\ Conclude(w, "in_sync")
    /\ UNCHANGED <<failures, late>>

\* The accounts that the call about q names.
Carried(w, q) ==
    IF work[w].service = "gitlab" \/ Change(w, q) = "update" THEN {q}
    ELSE {p \in Todo(w) : /\ Change(w, p) = Change(w, q)
                          /\ work[w].expected[p] = work[w].expected[q]}

\* No answer within 20 seconds, or nobody left to take it: the service may still do
\* what the call asks.  A call that it refused or never got stays in late forever.
GiveUp(w) ==
    /\ failures < MaxFailures
    /\ failures' = failures + 1
    /\ IF Turn(w) = {} THEN UNCHANGED late
       ELSE \E q \in Turn(w) :
              late' = late \cup
                        {[service |-> work[w].service, who |-> p, change |-> Change(w, p),
                          role |-> work[w].expected[p], failure |-> failures] : p \in Carried(w, q)}

Fail(w) ==
    /\ work[w].service # None
    /\ GiveUp(w)
    /\ Conclude(w, "failed")

\* The process dies; the database drops its transaction.
Crash(w) ==
    /\ work[w].service # None
    /\ GiveUp(w)
    /\ Leave(w)
    /\ UNCHANGED <<projectVars, mark, recent, member, call>>

\* A service carries out a call that nobody waits for any more.
Land(l) ==
    /\ Applies(l.service, l.change, l.who)
    /\ member' = [member EXCEPT ![l.service][l.who] = l.role]
    /\ late' = late \ {l}
    /\ landed' = IF Locked(l.service) THEN [landed EXCEPT ![l.service] = @ \cup {l.who}]
                  ELSE landed
    /\ UNCHANGED <<projectVars, mark, recent, call, work, failures>>

\* The target interval of five minutes has passed.
Age(s) ==
    /\ recent[s]
    /\ recent' = [recent EXCEPT ![s] = FALSE]
    /\ UNCHANGED <<projectVars, mark, member, call, work, failures, late, landed>>

Request(c) ==
    \/ CommitProject(c) \/ CommitOrganization(c) \/ Break(c)
    \/ \E k \in Kinds, q \in Principals, r \in Roles \cup OrgRoles \cup {None} : Begin(c, k, q, r)

Reconcile(w) ==
    \/ \E s \in Services : Start(w, s)
    \/ \E q \in Principals : Apply(w, q) \/ Miss(w, q)
    \/ Succeed(w) \/ Fail(w) \/ Crash(w)

Next ==
    \/ \E c \in Calls : Request(c)
    \/ \E w \in Workers : Reconcile(w)
    \/ \E q \in Principals : Login(q)
    \/ \E s \in Services : Age(s)
    \/ \E l \in late : Land(l)
    \/ Archive \/ Restore

Spec == Init /\ [][Next]_vars

\* Each turn of the worker loop tries both reconcilers, and passes one over only
\* while the other worker is at it; HTTP calls have timeouts; time passes.
Fairness ==
    /\ \A s \in Services : SF_vars(\E w \in Workers : Start(w, s)) /\ WF_vars(Age(s))
    /\ \A w \in Workers : WF_vars(Succeed(w) \/ \E q \in Principals : Apply(w, q) \/ Miss(w, q))

FairSpec == Spec /\ Fairness

-----------------------------------------------------------------------------
(* Properties                                                              *)

TypeOK ==
    /\ org \in [Principals -> OrgRoles \cup {None}]
    /\ role \in Expected
    /\ bound \subseteq Principals
    /\ archived \in BOOLEAN
    /\ mark \in [Services -> Marks]
    /\ recent \in [Services -> BOOLEAN]
    /\ member \in [Services -> Expected]
    /\ call \in [Calls -> CallType]
    /\ work \in [Workers -> WorkType]
    /\ failures \in Nat
    /\ late \subseteq LateType
    /\ landed \in [Services -> SUBSET Principals]

\* Whatever changes in a service is what the database says at that moment, although
\* the reconciler works from what it read before its HTTP calls.  Only a call that was
\* given up can do what the database no longer says, and only what that call asked.
ChangesFollowDatabase ==
    [][\A s \in Services, q \in Principals :
          member'[s][q] # member[s][q] =>
             \/ member'[s][q] = role[q]
             \/ \E l \in late \ late' :
                   l.service = s /\ l.who = q /\ l.role = member'[s][q]]_vars

\* "in_sync" is written only when everybody who had logged in by the start of the
\* reconciliation has the access the database says, also after earlier partial
\* failures, but for those whom a late call changed during this very reconciliation.
InSyncIsEarned ==
    [][\A s \in Services, w \in Workers :
          work[w].service = s /\ mark'[s] = "in_sync" /\ mark[s] # "in_sync" =>
             \A q \in work[w].managed \ landed[s] : member[s][q] = role[q]]_vars

Agrees(s) == \A q \in bound : member[s][q] = role[q]

\* Access follows the memberships in the end: through lost marks, failing services,
\* late calls, dying workers and people who log in late; in GitLab while the project is active.
AccessConverges ==
    /\ <>[]Agrees("infisical")
    /\ <>[]~archived => <>[]Agrees("gitlab")

\* "the last project Maintainer cannot be removed" (memberships.py:125).
MaintainerRemains == Maintainers # {}
=============================================================================
