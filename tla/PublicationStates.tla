-------------------------- MODULE PublicationStates -------------------------
(***************************************************************************)
(* The publication state machine and the events that announce it, shared   *)
(* by the queue that writes them and the streams that read them.           *)
(***************************************************************************)
InFlight == {"resolving", "verifying", "committing"}
Terminal == {"published", "failed"}
States == {"queued"} \cup InFlight \cup Terminal
EventNames == {"operation.queued", "operation.resolving", "validation.progress",
               "operation.committing", "operation.published", "operation.failed"}

Successors(s) ==
    CASE s = "queued"     -> {"resolving", "failed"}
      [] s = "resolving"  -> {"verifying", "failed"}
      [] s = "verifying"  -> {"committing", "failed"}
      [] s = "committing" -> {"published", "failed"}
      [] OTHER            -> {}

\* The state an event announces.
Announces(e) ==
    CASE e = "operation.queued"     -> "queued"
      [] e = "operation.resolving"  -> "resolving"
      [] e = "validation.progress"  -> "verifying"
      [] e = "operation.committing" -> "committing"
      [] e = "operation.published"  -> "published"
      [] e = "operation.failed"     -> "failed"

\* f may come directly after e: a transition, or the recovery of a stale claim.
MayFollow(e, f) ==
    \/ Announces(f) \in Successors(Announces(e))
    \/ f = "operation.queued" /\ Announces(e) \in InFlight
=============================================================================
