-------------------------- MODULE PublicationStream -------------------------
(***************************************************************************)
(* The event history of one publication operation and those who watch it:  *)
(* the queue appends events, the workers' retention task prunes old ones,  *)
(* the API streams them over SSE, and the web page and the command line    *)
(* client wait for the terminal one.                                       *)
(*                                                                         *)
(* PostgreSQL runs at READ COMMITTED, so a handler's statements see        *)
(* different moments: a step here is one statement, or one transaction     *)
(* whose statements cannot be told apart.                                  *)
(***************************************************************************)
EXTENDS Integers, FiniteSets, PublicationStates

CONSTANTS Watchers,    \* clients that follow the operation
          Pruners,     \* worker processes that prune event history
          Retention,   \* HOMEBREW_MLFLOW_SSE_RETENTION_DAYS, in clock units
          Idles,       \* TRUE: an unfinished operation may be left alone for longer
          MaxEvents,   \* bound: events of the operation
          MaxClock     \* bound: horizon of the clock

ASSUME BoundsType == Retention \in Nat \ {0} /\ MaxEvents \in Nat /\ MaxClock \in Nat /\ Idles \in BOOLEAN

VARIABLES events,     \* publication_events of the operation: sequence, name, age
          state,      \* publication_operations.state
          expired,    \* publication_operations.events_expired_through
          top,        \* the highest sequence ever used
          pruned,     \* history: the sequences that were pruned
          restarted,  \* history: an event was appended when none was left
          prune,      \* prune[p]: what a pruner has read
          client,     \* client[c]: what c runs
          conn,       \* conn[c]: where the generator serving c is
          cursor,     \* cursor[c]: id of the last event c got
          batch,      \* batch[c]: events read, not yet sent
          final,      \* final[c]: the state read said to stop
          seen,       \* seen[c]: the events c got
          told,       \* told[c]: how watching ended for c
          clock

tableVars == <<events, state, expired, top, pruned, restarted>>
watchVars == <<client, conn, cursor, batch, final, seen, told>>
vars == <<tableVars, prune, watchVars, clock>>

EventType == [seq : Nat, name : EventNames, at : Nat]
ConnPCs == {"closed", "check", "read", "state", "send", "ended", "broken"}
Outcomes == {"watching", "published", "failed", "exit0", "gone", "lost"}

ClientKinds == {"page",    \* watchPublication in the web page
                "submit"}  \* the publication submit command

SeqsOf(E) == {e.seq : e \in E}
Highest(N) == CHOOSE n \in N \cup {0} : \A m \in N : m <= n

Idle == [pc |-> "idle", before |-> 0, read |-> 0, to |-> 0]

Init ==
    /\ events = {[seq |-> 1, name |-> "operation.queued", at |-> 0]}
    /\ state = "queued"
    /\ expired = 0
    /\ top = 1
    /\ pruned = {}
    /\ restarted = FALSE
    /\ prune = [p \in Pruners |-> Idle]
    /\ client \in [Watchers -> ClientKinds]
    /\ conn = [c \in Watchers |-> "closed"]
    /\ cursor = [c \in Watchers |-> 0]
    /\ batch = [c \in Watchers |-> {}]
    /\ final = [c \in Watchers |-> FALSE]
    /\ seen = [c \in Watchers |-> {}]
    /\ told = [c \in Watchers |-> "watching"]
    /\ clock = 0

-----------------------------------------------------------------------------
(* A definition X_Something is X with a plausible bug: no action uses it,  *)
(* it shows that the properties notice the bug.                            *)
(*                                                                         *)
(* The queue and the retention task                                        *)

NextSequence_Count == Cardinality(events) + 1
NextSequence == Highest(SeqsOf(events)) + 1

\* _add_next_event, in the transaction that changes the state.
Append(name) ==
    /\ \/ Announces(name) \in Successors(state)
       \/ name = "operation.queued" /\ state \in InFlight
    /\ top < MaxEvents
    /\ state' = Announces(name)
    /\ events' = events \cup {[seq |-> NextSequence, name |-> name, at |-> clock]}
    /\ top' = Highest({top, NextSequence})
    /\ restarted' = (restarted \/ events = {})
    /\ UNCHANGED <<expired, pruned, prune, watchVars, clock>>

Old(before) == {e \in events : e.at < before}

\* prune_events: one transaction; its first statements only read.
PruneRead(p) ==
    /\ prune[p].pc = "idle"
    /\ Old(clock - Retention) # {}
    /\ prune' = [prune EXCEPT ![p] =
                    [pc |-> "write", before |-> clock - Retention, read |-> expired,
                     to |-> Highest({expired, Highest(SeqsOf(Old(clock - Retention)))})]]
    /\ UNCHANGED <<tableVars, watchVars, clock>>

\* A value that is what it was is not written.
ExpiredThrough(p) == IF prune[p].to = prune[p].read THEN expired ELSE prune[p].to

\* Its UPDATE and DELETE become visible together.  Another worker may have pruned
\* since the reads, but its value is written over.
PruneWrite(p) ==
    /\ prune[p].pc = "write"
    /\ expired' = ExpiredThrough(p)
    /\ events' = events \ Old(prune[p].before)
    /\ pruned' = pruned \cup SeqsOf(Old(prune[p].before))
    /\ prune' = [prune EXCEPT ![p] = Idle]
    /\ UNCHANGED <<state, top, restarted, watchVars, clock>>

-----------------------------------------------------------------------------
(* GET .../events: publication_events and its generator stream()           *)

\* PublicationService.events refuses a cursor below the expired history.
HistoryKept_Always(c) == conn[c] \in ConnPCs
HistoryKept(c) == cursor[c] >= expired

\* The request: history is checked before the response starts.
Connect(c) ==
    /\ conn[c] = "closed"
    /\ told[c] = "watching"
    /\ \/ /\ HistoryKept(c)
          /\ conn' = [conn EXCEPT ![c] = "check"]
          /\ UNCHANGED told
       \/ /\ ~HistoryKept(c)
          /\ told' = [told EXCEPT ![c] = "gone"]
          /\ UNCHANGED conn
    /\ UNCHANGED <<tableVars, prune, client, cursor, batch, final, seen, clock>>

\* The generator's turn: events() checks again, and may raise in mid-stream.
CheckHistory(c) ==
    /\ conn[c] = "check"
    /\ conn' = [conn EXCEPT ![c] = IF HistoryKept(c) THEN "read" ELSE "broken"]
    /\ UNCHANGED <<tableVars, prune, client, cursor, batch, final, seen, told, clock>>

After(n) == {e \in events : e.seq > n}

ReadEvents(c) ==
    /\ conn[c] = "read"
    /\ batch' = [batch EXCEPT ![c] = After(cursor[c])]
    /\ conn' = [conn EXCEPT ![c] = "state"]
    /\ UNCHANGED <<tableVars, prune, client, cursor, final, seen, told, clock>>

\* The state is read after the events, in a statement of its own.
ReadState(c) ==
    /\ conn[c] = "state"
    /\ final' = [final EXCEPT ![c] = state \in Terminal]
    /\ conn' = [conn EXCEPT ![c] = "send"]
    /\ UNCHANGED <<tableVars, prune, client, cursor, batch, seen, told, clock>>

Reaction_AnyEnd(c, name) ==
    IF Announces(name) \in Terminal THEN "published" ELSE "watching"

\* What the client does with an event: watchPublication returns at a terminal
\* one, publication submit exits with 1 at a failure and reads on otherwise.
Reaction(c, name) ==
    CASE client[c] = "page" /\ name = "operation.published" -> "published"
      [] name = "operation.failed" -> "failed"
      [] OTHER -> "watching"

First(E) == CHOOSE e \in E : \A f \in E : e.seq <= f.seq

Send(c) ==
    /\ conn[c] = "send"
    /\ batch[c] # {}
    /\ LET e == First(batch[c]) IN
          /\ cursor' = [cursor EXCEPT ![c] = e.seq]
          /\ seen' = [seen EXCEPT ![c] = @ \cup {e}]
          /\ told' = [told EXCEPT ![c] = Reaction(c, e.name)]
          /\ IF Reaction(c, e.name) = "watching"
             THEN batch' = [batch EXCEPT ![c] = @ \ {e}] /\ UNCHANGED conn
             ELSE batch' = [batch EXCEPT ![c] = {}] /\ conn' = [conn EXCEPT ![c] = "closed"]
    /\ UNCHANGED <<tableVars, prune, client, final, clock>>

\* Everything read is sent: stop after a terminal state, else sleep and go on.
Turn(c) == IF final[c] THEN "ended" ELSE "check"

EndOfBatch(c) ==
    /\ conn[c] = "send"
    /\ batch[c] = {}
    /\ conn' = [conn EXCEPT ![c] = Turn(c)]
    /\ UNCHANGED <<tableVars, prune, client, cursor, batch, final, seen, told, clock>>

-----------------------------------------------------------------------------
(* The watching clients                                                    *)

\* A response that ends without a terminal event: the web page asks again with
\* Last-Event-ID, publication submit has read all lines and exits with 0.
ResponseEnds(c) ==
    /\ conn[c] = "ended"
    /\ conn' = [conn EXCEPT ![c] = "closed"]
    /\ told' = [told EXCEPT ![c] = IF client[c] = "page" THEN "watching" ELSE "exit0"]
    /\ UNCHANGED <<tableVars, prune, client, cursor, batch, final, seen, clock>>

\* A response that breaks off is an error to both clients.
ResponseBreaks(c) ==
    /\ conn[c] \notin {"closed", "ended"}
    /\ conn' = [conn EXCEPT ![c] = "closed"]
    /\ batch' = [batch EXCEPT ![c] = {}]
    /\ told' = [told EXCEPT ![c] = "lost"]
    /\ UNCHANGED <<tableVars, prune, client, cursor, final, seen, clock>>

\* Unless Idles, an unfinished operation gets an event while its last is kept.
Tick ==
    /\ clock < MaxClock
    /\ Idles \/ state \in Terminal \/ \E e \in events : clock < e.at + Retention
    /\ clock' = clock + 1
    /\ UNCHANGED <<tableVars, prune, watchVars>>

Serve(c) == CheckHistory(c) \/ ReadEvents(c) \/ ReadState(c) \/ Send(c) \/ EndOfBatch(c)
Watch(c) == Connect(c) \/ ResponseEnds(c)

Next ==
    \/ \E name \in EventNames : Append(name)
    \/ \E p \in Pruners : PruneRead(p) \/ PruneWrite(p)
    \/ \E c \in Watchers : Serve(c) \/ Watch(c) \/ ResponseBreaks(c)
    \/ Tick

Spec == Init /\ [][Next]_vars

\* The generator and the client keep running; a broken response is noticed.
Fairness ==
    \A c \in Watchers : /\ WF_vars(Serve(c))
                        /\ WF_vars(Watch(c))
                        /\ WF_vars(conn[c] = "broken" /\ ResponseBreaks(c))

FairSpec == Spec /\ Fairness

-----------------------------------------------------------------------------
(* Properties                                                              *)

TypeOK ==
    /\ events \subseteq EventType
    /\ state \in States
    /\ expired \in Nat /\ top \in Nat /\ clock \in Nat
    /\ pruned \subseteq Nat /\ restarted \in BOOLEAN
    /\ prune \in [Pruners -> [pc : {"idle", "write"}, before : Int, read : Nat, to : Nat]]
    /\ client \in [Watchers -> ClientKinds]
    /\ conn \in [Watchers -> ConnPCs]
    /\ cursor \in [Watchers -> Nat]
    /\ batch \in [Watchers -> SUBSET EventType]
    /\ final \in [Watchers -> BOOLEAN]
    /\ seen \in [Watchers -> SUBSET EventType]
    /\ told \in [Watchers -> Outcomes]

\* A watcher gets the events in order, and none that is kept is passed over: it misses a
\* number only if its event was pruned, although numbers are taken from the events that
\* pruning has left.  Only when nothing was left of an unfinished operation, so that its
\* numbers began again, may events lie behind a watcher that it never got.
DeliveredInOrder ==
    /\ TypeOK
    /\ \A c \in Watchers :
           /\ \A e \in seen[c] : e.seq <= cursor[c]
           /\ \A e \in batch[c] : e.seq > cursor[c]
           /\ \A n \in 1..cursor[c] : n \in SeqsOf(seen[c]) \/ n \in pruned
           /\ ~restarted => \A e \in events : e.seq <= cursor[c] => e \in seen[c]

\* A watcher is told an outcome only if it is the outcome of the operation, and
\* publication submit exits with 0 only when the operation is over and no event of a
\* failure has reached it.
OutcomeIsTrue ==
    \A c \in Watchers :
        /\ told[c] \in {"published", "failed"} => state = told[c]
        /\ told[c] = "exit0" => /\ state \in Terminal
                                /\ \A e \in seen[c] : e.name # "operation.failed"

\* events_expired_through tells of all that was pruned.
ExpiryIsKnown == \A n \in pruned : n <= expired

\* Nobody is left waiting for an operation that has finished: a watcher sees the terminal
\* event, the end of the stream, or that history or connection is lost, unless two workers
\* have pruned at once and one wrote an older events_expired_through over the other's, or
\* the numbers began again.
WatchingEnds ==
    \A c \in Watchers :
        state \in Terminal ~> told[c] # "watching" \/ ~ExpiryIsKnown \/ restarted
=============================================================================
