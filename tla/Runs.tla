-------------------------------- MODULE Runs --------------------------------
(***************************************************************************)
(* The life of a Run: "homebrew-mlflow run" creates it, executes a child   *)
(* process under heartbeats, journals the result on disk and finalizes the *)
(* Run over an unreliable connection; "homebrew-mlflow run-recover" does   *)
(* the last part again from the journal; a maintainer may finalize any Run *)
(* through the API; a worker marks silent Runs as incomplete.              *)
(*                                                                         *)
(* The server locks the Run's row (SELECT ... FOR UPDATE) for a heartbeat  *)
(* and for a finalization, and marks silent Runs with one UPDATE, so each  *)
(* of them is one step.                                                    *)
(***************************************************************************)
EXTENDS Integers, FiniteSets

CONSTANTS Runs,              \* each with the "run" command that creates it
          Recoverers,        \* "run-recover" commands
          Maintainers,       \* finalize requests sent by others, once each
          Outcomes,          \* finalization documents, up to their digest
          NoOutcome, NoRun,
          HeartbeatInterval, \* _HEARTBEAT_INTERVAL_SECONDS, in clock units
          HeartbeatTimeout,  \* HOMEBREW_MLFLOW_RUN_HEARTBEAT_TIMEOUT_SECONDS
          MaxAttempts,       \* attempts of one _recover_finalization (7)
          Laggards,          \* Runs whose heartbeats may stay away for longer than the interval
          Faults             \* what may go wrong

FaultKinds == {"crash",    \* a client process dies
               "loss",     \* requests and replies are lost
               "archive",  \* a pipeline version or environment of the Run is archived
               "pipeline", \* the Run's pipeline version cannot be resolved
               "revoke"}   \* the grant of a shared input is revoked

Senders == Runs \cup Recoverers \cup Maintainers

ASSUME SendersAreDistinct ==
    /\ Runs \cap Recoverers = {} /\ Runs \cap Maintainers = {}
    /\ Recoverers \cap Maintainers = {}
ASSUME FaultsType == Faults \subseteq FaultKinds /\ Laggards \subseteq Runs
ASSUME Sentinels == NoOutcome \notin Outcomes /\ NoRun \notin Runs
ASSUME BoundsType ==
    HeartbeatInterval \in Nat /\ HeartbeatTimeout \in Nat /\ MaxAttempts \in Nat \ {0}

VARIABLES row,      \* runs: state and finalization_digest
          silence,  \* time since runs.heartbeat_at, capped above the timeout
          audits,   \* number of run.reconcile audit events
          context,  \* the Run's pipeline version and environment are not archived
          inputs,   \* the Run's input versions are available to the project
          phase,    \* phase[r]: how far the command that runs r is
          beat,     \* beat[r]: a heartbeat request is on its way
          beating,  \* beating[r]: the heartbeat thread is alive
          journal,  \* pending-runs/<server>/<run>.json
          result,   \* result[r]: what was journaled, for the properties
          pc,       \* pc[s]: where _recover_finalization is in process s
          task,     \* task[s]: the Run and the document s is to send
          attempt,  \* attempt[s]: the number of its current attempt
          wire,     \* finalize requests on their way
          reply     \* reply[s]: the answer to the current attempt of s

rowVars == <<row, silence, audits>>
envVars == <<context, inputs>>
cliVars == <<phase, beat, beating>>
procVars == <<pc, task, attempt>>
sendVars == <<procVars, wire, reply>>
vars == <<rowVars, envVars, cliVars, journal, result, sendVars>>

Terminal == {"terminal"}
States == {"none", "running", "incomplete"} \cup Terminal
Phases == {"start", "creating", "computing", "ended", "finalizing", "over"}
SenderPCs == {"idle", "resolve", "send", "wait", "done", "gaveup"}
Replies == {"none", "ok", "refused"}
Entry == [outcome : Outcomes \cup {NoOutcome}, resolved : BOOLEAN]
NoEntry == [outcome |-> NoOutcome, resolved |-> FALSE]
TaskType == [run : Runs \cup {NoRun}, entry : Entry]
Requests == [run : Runs, by : Senders, n : 1..MaxAttempts, outcome : Outcomes]

Final(r, o) == row[r].state \in Terminal /\ row[r].outcome = o

Init ==
    /\ row = [r \in Runs |-> [state |-> "none", outcome |-> NoOutcome]]
    /\ silence = [r \in Runs |-> 0]
    /\ audits = [r \in Runs |-> 0]
    /\ context = [r \in Runs |-> TRUE]
    /\ inputs = [r \in Runs |-> TRUE]
    /\ phase = [r \in Runs |-> "start"]
    /\ beat = [r \in Runs |-> FALSE]
    /\ beating = [r \in Runs |-> FALSE]
    /\ journal = [r \in Runs |-> NoEntry]
    /\ result = [r \in Runs |-> NoOutcome]
    /\ pc = [s \in Senders |-> "idle"]
    /\ task = [s \in Senders |-> [run |-> NoRun, entry |-> NoEntry]]
    /\ attempt = [s \in Senders |-> 0]
    /\ wire = {}
    /\ reply = [s \in Senders |-> "none"]

-----------------------------------------------------------------------------
(* The server. X_Something is X with a plausible bug: no action uses it,   *)
(* it shows that the properties notice the bug.                            *)

\* RunService.create: the Run is created and started in one transaction. The
\* command learns of it, or its reply is lost and the command ends.
HandleCreate(r) ==
    /\ phase[r] \in {"creating", "over"}
    /\ row[r].state = "none"
    /\ row' = [row EXCEPT ![r].state = "running"]
    /\ silence' = [silence EXCEPT ![r] = 0]
    /\ phase' = [phase EXCEPT ![r] = IF @ = "over" THEN "over" ELSE "computing"]
    /\ beating' = [beating EXCEPT ![r] = phase[r] = "creating"]
    /\ UNCHANGED <<audits, envVars, beat, journal, result, sendVars>>

\* RunService.heartbeat; a 4xx answer ends the heartbeat thread if it gets there.
HandleBeat(r) ==
    /\ beat[r]
    /\ beat' = [beat EXCEPT ![r] = FALSE]
    /\ \/ /\ row[r].state = "running"
          /\ silence' = [silence EXCEPT ![r] = 0]
          /\ UNCHANGED beating
       \/ /\ row[r].state # "running"
          /\ beating' \in {beating, [beating EXCEPT ![r] = FALSE]}
          /\ UNCHANGED silence
    /\ UNCHANGED <<row, audits, envVars, phase, journal, result, sendVars>>

\* The checks of RunService.finalize, in their order.
Verdict_NoDigest(q) ==
    IF ~context[q.run] THEN "refused"
    ELSE IF row[q.run].state \in Terminal THEN "ok"
    ELSE IF inputs[q.run] THEN "finish" ELSE "refused"
Verdict_OnlyRunning(q) ==
    IF context[q.run] /\ row[q.run].state = "running" /\ inputs[q.run] THEN "finish" ELSE "refused"
Verdict(q) ==
    IF ~context[q.run] THEN "refused"
    ELSE IF row[q.run].state \in Terminal
         THEN IF row[q.run].outcome = q.outcome THEN "ok" ELSE "refused"
    ELSE IF inputs[q.run] THEN "finish" ELSE "refused"

\* RunService.finalize. Its answer is of use only to the attempt that waits.
HandleFinalize(q) ==
    /\ q \in wire
    /\ wire' = wire \ {q}
    /\ row[q.run].state # "none"
    /\ IF Verdict(q) = "finish"
       THEN /\ row' = [row EXCEPT ![q.run] = [state |-> "terminal", outcome |-> q.outcome]]
            /\ audits' = [audits EXCEPT ![q.run] =
                              @ + (IF row[q.run].state = "running" THEN 0 ELSE 1)]
       ELSE UNCHANGED <<row, audits>>
    /\ LET answer == IF Verdict(q) = "refused" THEN "refused" ELSE "ok" IN
          reply' = IF pc[q.by] = "wait" /\ attempt[q.by] = q.n
                   THEN [reply EXCEPT ![q.by] = answer] ELSE reply
    /\ UNCHANGED <<silence, envVars, cliVars, journal, result, procVars>>

Silent_WrongState(r) == row[r].state = "incomplete" /\ silence[r] > HeartbeatTimeout
Silent_Early(r) == row[r].state = "running" /\ silence[r] >= HeartbeatInterval
Silent(r) == row[r].state = "running" /\ silence[r] > HeartbeatTimeout

\* The worker's recover_incomplete: one UPDATE of all silent Runs.
MarkStale ==
    /\ \E r \in Runs : Silent(r)
    /\ row' = [r \in Runs |-> IF Silent(r) THEN [row[r] EXCEPT !.state = "incomplete"] ELSE row[r]]
    /\ UNCHANGED <<silence, audits, envVars, cliVars, journal, result, sendVars>>

-----------------------------------------------------------------------------
(* The run command up to its journal                                       *)

StartRun(r) ==
    /\ phase[r] = "start"
    /\ phase' = [phase EXCEPT ![r] = "creating"]
    /\ UNCHANGED <<rowVars, envVars, beat, beating, journal, result, sendVars>>

\* The create request or its answer does not get through: the command fails.
CreateFails(r) ==
    /\ "loss" \in Faults
    /\ phase[r] = "creating"
    /\ phase' = [phase EXCEPT ![r] = "over"]
    /\ UNCHANGED <<rowVars, envVars, beat, beating, journal, result, sendVars>>

SendBeat(r) ==
    /\ phase[r] = "computing"
    /\ beating[r]
    /\ ~beat[r]
    /\ silence[r] > 0
    /\ beat' = [beat EXCEPT ![r] = TRUE]
    /\ UNCHANGED <<rowVars, envVars, phase, beating, journal, result, sendVars>>

\* The child process ends and with it the heartbeats.
ChildEnds(r) ==
    /\ phase[r] = "computing"
    /\ phase' = [phase EXCEPT ![r] = "ended"]
    /\ beating' = [beating EXCEPT ![r] = FALSE]
    /\ UNCHANGED <<rowVars, envVars, beat, journal, result, sendVars>>

\* s sets out to send document e for Run r.
Begin(s, r, e) ==
    /\ pc[s] = "idle"
    /\ pc' = [pc EXCEPT ![s] = IF e.resolved THEN "send" ELSE "resolve"]
    /\ task' = [task EXCEPT ![s] = [run |-> r, entry |-> e]]
    /\ attempt' = [attempt EXCEPT ![s] = 1]

\* The result goes to disk before the server hears of it.
WriteJournal(r) ==
    /\ phase[r] = "ended"
    /\ \E e \in Entry :
          /\ e.outcome # NoOutcome
          /\ journal' = [journal EXCEPT ![r] = e]
          /\ result' = [result EXCEPT ![r] = e.outcome]
          /\ Begin(r, r, e)
    /\ phase' = [phase EXCEPT ![r] = "finalizing"]
    /\ UNCHANGED <<rowVars, envVars, beat, beating, wire, reply>>

-----------------------------------------------------------------------------
(* _recover_finalization, in the run command or in run-recover             *)

StartRecovery(s, r) ==
    /\ s \in Recoverers
    /\ journal[r].outcome # NoOutcome
    /\ Begin(s, r, journal[r])
    /\ UNCHANGED <<rowVars, envVars, cliVars, journal, result, wire, reply>>

\* The pipeline version gets its id and the journal is written again, even if
\* another process has removed it meanwhile.
Resolve(s) ==
    /\ pc[s] = "resolve"
    /\ LET e == [outcome |-> task[s].entry.outcome, resolved |-> TRUE] IN
          /\ task' = [task EXCEPT ![s] = [run |-> task[s].run, entry |-> e]]
          /\ journal' = [journal EXCEPT ![task[s].run] = e]
    /\ pc' = [pc EXCEPT ![s] = "send"]
    /\ UNCHANGED <<rowVars, envVars, cliVars, result, attempt, wire, reply>>

Post(s) ==
    /\ pc[s] = "send"
    /\ pc' = [pc EXCEPT ![s] = "wait"]
    /\ reply' = [reply EXCEPT ![s] = "none"]
    /\ wire' = wire \cup {[run |-> task[s].run, by |-> s, n |-> attempt[s],
                           outcome |-> task[s].entry.outcome]}
    /\ UNCHANGED <<rowVars, envVars, cliVars, journal, result, task, attempt>>

Removed_OnAnyReply(s) == s \notin Maintainers
Removed(s) == s \notin Maintainers /\ reply[s] = "ok"

\* An answer: success removes the journal, a 4xx answer ends the attempts.
GetReply(s) ==
    /\ pc[s] = "wait"
    /\ reply[s] # "none"
    /\ pc' = [pc EXCEPT ![s] = IF reply[s] = "ok" THEN "done" ELSE "gaveup"]
    /\ journal' = IF Removed(s) THEN [journal EXCEPT ![task[s].run] = NoEntry] ELSE journal
    /\ UNCHANGED <<rowVars, envVars, cliVars, result, task, attempt, wire, reply>>

MayRetry(s) == attempt[s] < MaxAttempts /\ s \notin Maintainers

\* No answer in time, or a transient error: try again, up to MaxAttempts times.
\* A pipeline version that is refused ends the attempts at once.
TimeOut(s) ==
    /\ \/ pc[s] = "wait" /\ reply[s] = "none"
       \/ pc[s] = "resolve" /\ Faults \cap {"loss", "pipeline"} # {}
    /\ \/ /\ MayRetry(s)
          /\ attempt' = [attempt EXCEPT ![s] = @ + 1]
          /\ pc' = [pc EXCEPT ![s] = IF @ = "wait" THEN "send" ELSE "resolve"]
       \/ /\ ~MayRetry(s) \/ (pc[s] = "resolve" /\ "pipeline" \in Faults)
          /\ pc' = [pc EXCEPT ![s] = "gaveup"]
          /\ UNCHANGED attempt
    /\ UNCHANGED <<rowVars, envVars, cliVars, journal, result, task, wire, reply>>

\* Somebody else with the right to do so finalizes a Run directly.
MaintainerPosts(s, r, o) ==
    /\ s \in Maintainers
    /\ row[r].state # "none"
    /\ Begin(s, r, [outcome |-> o, resolved |-> TRUE])
    /\ UNCHANGED <<rowVars, envVars, cliVars, journal, result, wire, reply>>

-----------------------------------------------------------------------------
(* The environment                                                         *)

Crash(r) ==
    /\ "crash" \in Faults
    /\ phase[r] \in {"computing", "ended", "finalizing"}
    /\ phase' = [phase EXCEPT ![r] = "over"]
    /\ beating' = [beating EXCEPT ![r] = FALSE]
    /\ pc' = [pc EXCEPT ![r] = "gaveup"]
    /\ UNCHANGED <<rowVars, envVars, beat, journal, result, task, attempt, wire, reply>>

LoseBeat(r) ==
    /\ "loss" \in Faults
    /\ beat[r]
    /\ beat' = [beat EXCEPT ![r] = FALSE]
    /\ UNCHANGED <<rowVars, envVars, phase, beating, journal, result, sendVars>>

LoseRequest(q) ==
    /\ "loss" \in Faults
    /\ q \in wire
    /\ wire' = wire \ {q}
    /\ UNCHANGED <<rowVars, envVars, cliVars, journal, result, procVars, reply>>

LoseReply(s) ==
    /\ "loss" \in Faults
    /\ pc[s] = "wait"
    /\ reply[s] # "none"
    /\ reply' = [reply EXCEPT ![s] = "none"]
    /\ UNCHANGED <<rowVars, envVars, cliVars, journal, result, procVars, wire>>

ArchiveContext(r) ==
    /\ "archive" \in Faults
    /\ context[r]
    /\ context' = [context EXCEPT ![r] = FALSE]
    /\ UNCHANGED <<rowVars, inputs, cliVars, journal, result, sendVars>>

RevokeInputs(r) ==
    /\ "revoke" \in Faults
    /\ inputs[r]
    /\ inputs' = [inputs EXCEPT ![r] = FALSE]
    /\ UNCHANGED <<rowVars, context, cliVars, journal, result, sendVars>>

\* Unless the Run lags, a live thread gets a heartbeat through in every interval.
Tick ==
    /\ \A r \in Runs \ Laggards :
          beating[r] /\ row[r].state = "running" => silence[r] < HeartbeatInterval
    /\ silence' = [r \in Runs |-> IF row[r].state = "running" /\ silence[r] <= HeartbeatTimeout
                                  THEN silence[r] + 1 ELSE silence[r]]
    /\ silence' # silence
    /\ UNCHANGED <<row, audits, envVars, cliVars, journal, result, sendVars>>

-----------------------------------------------------------------------------

Server == MarkStale \/ \E q \in wire : HandleFinalize(q)
Command(r) == StartRun(r) \/ CreateFails(r) \/ SendBeat(r) \/ ChildEnds(r) \/ WriteJournal(r) \/ Crash(r)
Send(s) == Resolve(s) \/ Post(s) \/ GetReply(s) \/ TimeOut(s)

Next ==
    \/ Server \/ Tick
    \/ \E r \in Runs : \/ Command(r) \/ HandleCreate(r) \/ HandleBeat(r)
                       \/ LoseBeat(r) \/ ArchiveContext(r) \/ RevokeInputs(r)
    \/ \E s \in Senders : Send(s) \/ LoseReply(s)
    \/ \E s \in Senders, r \in Runs : \/ StartRecovery(s, r)
                                      \/ \E o \in Outcomes : MaintainerPosts(s, r, o)
    \/ \E q \in wire : LoseRequest(q)

Spec == Init /\ [][Next]_vars

\* The worker loop and the request handlers run, time passes, a started command
\* goes on. That a child process ends, or that anybody recovers, is not assumed.
Fairness ==
    /\ WF_vars(MarkStale) /\ WF_vars(Tick)
    /\ \A q \in Requests : WF_vars(HandleFinalize(q))
    /\ \A r \in Runs : /\ WF_vars(phase[r] = "creating" /\ HandleCreate(r))
                     /\ WF_vars(HandleBeat(r)) /\ WF_vars(WriteJournal(r))
    /\ \A r \in Runs \ Laggards : WF_vars(SendBeat(r))
    /\ \A s \in Senders : WF_vars(Resolve(s)) /\ WF_vars(Post(s)) /\ WF_vars(GetReply(s))

FairSpec == Spec /\ Fairness

-----------------------------------------------------------------------------
(* Properties                                                              *)

TypeOK ==
    /\ row \in [Runs -> [state : States, outcome : Outcomes \cup {NoOutcome}]]
    /\ silence \in [Runs -> Nat] /\ audits \in [Runs -> Nat]
    /\ context \in [Runs -> BOOLEAN] /\ inputs \in [Runs -> BOOLEAN]
    /\ phase \in [Runs -> Phases]
    /\ beat \in [Runs -> BOOLEAN] /\ beating \in [Runs -> BOOLEAN]
    /\ journal \in [Runs -> Entry]
    /\ result \in [Runs -> Outcomes \cup {NoOutcome}]
    /\ pc \in [Senders -> SenderPCs]
    /\ task \in [Senders -> TaskType]
    /\ attempt \in [Senders -> 0..MaxAttempts]
    /\ wire \subseteq Requests
    /\ reply \in [Senders -> Replies]

\* A finished Run never changes again, whatever late request, heartbeat or
\* worker reaches it.
TerminalIsImmutable ==
    [][\A r \in Runs : row[r].state \in Terminal => row'[r] = row[r]]_vars

\* A process is told of success only if the Run holds exactly its document.
AckMeansFinal ==
    \A s \in Senders :
        pc[s] = "done" => Final(task[s].run, task[s].entry.outcome)

\* A journaled result survives crashes and losses: it is on disk until the Run
\* holds it.
NoResultIsForgotten ==
    \A r \in Runs : result[r] # NoOutcome =>
        \/ journal[r].outcome = result[r]
        \/ Final(r, result[r])

\* While its heartbeats are on time a Run is not given up, whatever others do.
HealthyRunStaysRunning ==
    \A r \in Runs \ Laggards : beating[r] => row[r].state = "running" \/ row[r].state \in Terminal

\* Sending the document a Run was finalized with again is not an error.
ReplayIsAccepted ==
    \A s \in Senders :
        pc[s] = "gaveup" /\ reply[s] = "refused" => ~Final(task[s].run, task[s].entry.outcome)

\* A Run whose command does not compute any more stops being shown as running.
EveryRunEnds ==
    \A r \in Runs :
        row[r].state = "running" /\ phase[r] # "computing" ~> row[r].state # "running"

\* The result of the child process reaches its Run, also one given up meanwhile,
\* unless the command dies, gets no answer, or may no longer finalize the Run.
Excused(r) ==
    \/ phase[r] = "over" \/ ~context[r] \/ ~inputs[r]
    \/ pc[r] = "gaveup" /\ reply[r] = "none"

EveryResultIsRecorded ==
    \A r \in Runs : phase[r] = "ended" ~> Excused(r) \/ Final(r, result[r])
=============================================================================
