------------------------------ MODULE Sharing ------------------------------
(***************************************************************************)
(* An Artifact Version that its project shares with another one: the       *)
(* grants and their revocation, and what members of the other project do   *)
(* with the version: references to it, versions derived from it, a Run     *)
(* that used it, and S3 keys that read its bytes.                          *)
(*                                                                         *)
(* A request checks, with the time at which it began, and commits later    *)
(* without a lock in between.  It takes less than a tick of the clock, so  *)
(* it ends in the tick it began in or in the next one.                     *)
(***************************************************************************)
EXTENDS Naturals, Sequences, FiniteSets

CONSTANTS Requests,   \* as many as run at once
          MaxGrants,  \* bound: grants
          MaxUses,    \* bound: rows of references and derivations, and keys issued
          MaxClock    \* bound: the clock

None == "none"
Never == MaxClock + 1

VARIABLES grant,    \* artifact_sharing_grants of the version to the project
          use,      \* what the members got
          run,      \* a Run of the project
          request, clock

vars == <<grant, use, run, request, clock>>

Times == 0..Never
Grants == DOMAIN grant

GrantType == [effective : Times, revoked : Times]
UseType == [kind : {"reference", "derivation", "published", "keys"}, at : Times, late : BOOLEAN]
RunType == [state : {"running", "ended"}, ended : Times, input : BOOLEAN, late : BOOLEAN]
RequestType == [op : {None, "grant", "revoke", "reference", "derivation", "keys", "finalize"},
                at : Times, grant : 0..MaxGrants, input : BOOLEAN,
                late : BOOLEAN]  \* for the property: a revocation was under way meanwhile

Idle == [op |-> None, at |-> 0, grant |-> 0, input |-> FALSE, late |-> FALSE]

Init ==
    /\ grant = <<>>
    /\ use = {}
    /\ run = [state |-> "running", ended |-> Never, input |-> FALSE, late |-> FALSE]
    /\ request = [r \in Requests |-> Idle]
    /\ clock = 0

Pending(ops) == {r \in Requests : request[r].op \in ops}

\* What a request that passed its checks goes on with.
Admit(r, q) ==
    /\ request[r] = Idle
    /\ request' = [s \in Requests |->
           IF s = r THEN [q EXCEPT !.at = clock, !.late = Pending({"revoke"}) # {}]
           ELSE [request[s] EXCEPT !.late = @ \/ (q.op = "revoke" /\ request[s].op # None)]]
    /\ UNCHANGED <<grant, use, run, clock>>

Finished(r) == request' = [request EXCEPT ![r] = Idle]

-----------------------------------------------------------------------------
(* What the tables say of the version. X_Something is X with a plausible   *)
(* bug: no action uses it, it shows that the property notices the bug.     *)

Active(g) == grant[g].revoked = Never

\* Of several grants with the same time any may be the latest.
Newest == {g \in Grants : \A h \in Grants : grant[h].effective <= grant[g].effective}

Permits_Forever(g, at) == at >= grant[g].effective
Permits(g, at) == at >= grant[g].effective /\ at < grant[g].revoked

Accessible == \E g \in Grants : Active(g)

Available(at) == \E g \in Grants : Permits(g, at)

\* A Run that used the version and ended while it was shared reads it for ever.
Recoverable == run.input /\ Available(run.ended)

SharedKeys(recovery) == (\E g \in Grants : Active(g)) \/ (recovery /\ Recoverable)

-----------------------------------------------------------------------------
(* Grants                                                                  *)

Grant(r) ==
    /\ Newest = {} \/ \E g \in Newest : ~Active(g)
    /\ Len(grant) + Cardinality(Pending({"grant"})) < MaxGrants
    /\ Admit(r, [Idle EXCEPT !.op = "grant"])

\* Nothing keeps a second grant of the same version to the same project out.
AddGrant(r) ==
    /\ request[r].op = "grant"
    /\ grant' = Append(grant, [effective |-> request[r].at, revoked |-> Never])
    /\ Finished(r)
    /\ UNCHANGED <<use, run, clock>>

Revoke(r, g) ==
    /\ g \in Grants /\ Active(g)
    /\ Admit(r, [Idle EXCEPT !.op = "revoke", !.grant = g])

\* Of two revocations at once the one that commits last says when it was.
UpdateGrant(r) ==
    /\ request[r].op = "revoke"
    /\ grant' = [grant EXCEPT ![request[r].grant].revoked = request[r].at]
    /\ Finished(r)
    /\ UNCHANGED <<use, run, clock>>

-----------------------------------------------------------------------------
(* Uses                                                                    *)

Uses == {"reference", "derivation", "keys"}

StartUse(r, kind) ==
    /\ Cardinality(use) + Cardinality(Pending(Uses)) < MaxUses
    /\ Admit(r, [Idle EXCEPT !.op = kind])

Reference(r) ==
    /\ \E g \in Newest : Permits(g, clock)
    /\ StartUse(r, "reference")

\* The derived version is the project's own, and has one source.
Derived == \E u \in use : u.kind \in {"derivation", "published"}

Derive(r) ==
    /\ Accessible
    /\ ~Derived
    /\ StartUse(r, "derivation")

IssueKeys(r, recovery) ==
    /\ SharedKeys(recovery)
    /\ StartUse(r, "keys")

Used(r) == use \cup {[kind |-> request[r].op, at |-> request[r].at, late |-> request[r].late]}

AddReference(r) ==
    /\ request[r].op = "reference"
    /\ use' = Used(r)
    /\ Finished(r)
    /\ UNCHANGED <<grant, run, clock>>

\* A second source fails.
AddDerivation(r) ==
    /\ request[r].op = "derivation"
    /\ use' = IF Derived THEN use ELSE Used(r)
    /\ Finished(r)
    /\ UNCHANGED <<grant, run, clock>>

\* A version that the Run published is derived from the input without asking for a grant.
Publish ==
    /\ run.input
    /\ ~Derived
    /\ Cardinality(use) + Cardinality(Pending(Uses)) < MaxUses
    /\ use' = use \cup {[kind |-> "published", at |-> clock, late |-> run.late]}
    /\ UNCHANGED <<grant, run, request, clock>>

\* The object store makes keys for the objects it is given.
AssumeRole(r) ==
    /\ request[r].op = "keys"
    /\ use' = Used(r)
    /\ Finished(r)
    /\ UNCHANGED <<grant, run, clock>>

\* The request that ends the Run locks its row; it may name the version as an input.
Finalize(r, input) ==
    /\ run.state = "running" /\ Pending({"finalize"}) = {}
    /\ input => Available(clock)
    /\ Admit(r, [Idle EXCEPT !.op = "finalize", !.input = input])

AddRunInput(r) ==
    /\ request[r].op = "finalize"
    /\ run' = [state |-> "ended", ended |-> request[r].at, input |-> request[r].input,
               late |-> request[r].late]
    /\ Finished(r)
    /\ UNCHANGED <<grant, use, clock>>

Tick ==
    /\ clock < MaxClock
    /\ \A r \in Requests : request[r] = Idle \/ request[r].at = clock
    /\ clock' = clock + 1
    /\ UNCHANGED <<grant, use, run, request>>

-----------------------------------------------------------------------------
Begin(r) ==
    \/ Grant(r) \/ Reference(r) \/ Derive(r)
    \/ \E g \in 1..MaxGrants : Revoke(r, g)
    \/ \E b \in BOOLEAN : Finalize(r, b) \/ IssueKeys(r, b)

Commit(r) ==
    \/ AddGrant(r) \/ UpdateGrant(r)
    \/ AddReference(r) \/ AddDerivation(r) \/ AssumeRole(r) \/ AddRunInput(r)

Next == Tick \/ Publish \/ \E r \in Requests : Begin(r) \/ Commit(r)

Spec == Init /\ [][Next]_vars

-----------------------------------------------------------------------------
TypeOK ==
    /\ grant \in Seq(GrantType) /\ Len(grant) <= MaxGrants
    /\ use \subseteq UseType
    /\ run \in RunType
    /\ request \in [Requests -> RequestType]
    /\ clock \in Times

Covered(at) == \E g \in Grants : grant[g].effective <= at /\ at <= grant[g].revoked

\* Revocation is prospective: whatever the members got dates from a time at which the
\* version was shared, also when grants overlap or follow each other, except for keys to
\* the inputs of a Run that ended in such a time and versions made from them. Only a request that a revocation
\* overlapped may have been too late (reference, derive and finalize check a grant that
\* can be revoked before they commit).
UseIsCovered ==
    /\ TypeOK
    /\ run.input => run.late \/ Covered(run.ended)
    /\ \A u \in use : \/ u.late \/ Covered(u.at)
                      \/ u.kind \in {"keys", "published"} /\ run.input /\ run.ended <= u.at
=============================================================================
