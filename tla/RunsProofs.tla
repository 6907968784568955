----------------------------- MODULE RunsProofs -----------------------------
(***************************************************************************)
(* What holds of Runs for every number of runs, processes and attempts,    *)
(* whatever faults occur.                                                  *)
(***************************************************************************)
EXTENDS Runs, TLAPS

\* A request on its way carries what its sender has to send.
WireIsHonest ==
    \A q \in wire : task[q.by].run = q.run /\ task[q.by].entry.outcome = q.outcome

\* A sender at work has a Run and a document; only the journal's owners resolve.
TaskIsSet ==
    \A s \in Senders :
        /\ pc[s] = "idle" => task[s].run = NoRun
        /\ pc[s] \in {"resolve", "send", "wait", "done"} => task[s].run # NoRun
        /\ task[s].run # NoRun => attempt[s] # 0 /\ task[s].entry.outcome # NoOutcome
        /\ pc[s] = "resolve" => s \notin Maintainers

\* The answer that waits for a sender is true, and stays true.
ReplyIsTrue ==
    \A s \in Senders :
        /\ reply[s] # "none" => task[s].run # NoRun
        /\ reply[s] = "ok" => Final(task[s].run, task[s].entry.outcome)
        /\ pc[s] = "done" => reply[s] = "ok"

\* Journals and the tasks made from them hold the result of their Run.
JournalIsTrue ==
    \A r \in Runs :
        /\ journal[r].outcome # NoOutcome => journal[r].outcome = result[r]
        /\ result[r] # NoOutcome => phase[r] \in {"finalizing", "over"}
TaskIsTrue ==
    \A s \in Senders \ Maintainers :
        task[s].run # NoRun => task[s].entry.outcome = result[task[s].run]

Honesty ==
    /\ WireIsHonest /\ TaskIsSet /\ ReplyIsTrue
    /\ JournalIsTrue /\ TaskIsTrue /\ NoResultIsForgotten
RunsInv == TypeOK /\ Honesty

\* What a process takes on is typed if its Run and document are.
LEMMA BeginType ==
    ASSUME TypeOK, NEW s \in Senders, NEW r \in Runs, NEW e \in Entry, Begin(s, r, e)
    PROVE  /\ pc' \in [Senders -> SenderPCs]
           /\ task' \in [Senders -> TaskType]
           /\ attempt' \in [Senders -> 0..MaxAttempts]
<1>1. [run |-> r, entry |-> e] \in TaskType
  BY DEF TaskType
<1> QED
  BY <1>1, BoundsType DEF TypeOK, Begin, SenderPCs

LEMMA TypeStep == TypeOK /\ TaskIsSet /\ Next => TypeOK'
<1> SUFFICES ASSUME TypeOK, TaskIsSet, Next PROVE TypeOK'
  OBVIOUS
<1> USE DEF rowVars, envVars, cliVars, procVars, sendVars
<1>1. ASSUME NEW r \in Runs, StartRun(r) \/ CreateFails(r) \/ SendBeat(r) \/ ChildEnds(r) PROVE TypeOK'
  BY <1>1 DEF TypeOK, StartRun, CreateFails, SendBeat, ChildEnds, Phases
<1>2. ASSUME NEW r \in Runs, WriteJournal(r) PROVE TypeOK'
  <2>1. PICK e \in Entry : /\ e.outcome # NoOutcome
                           /\ journal' = [journal EXCEPT ![r] = e]
                           /\ result' = [result EXCEPT ![r] = e.outcome]
                           /\ Begin(r, r, e)
    BY <1>2 DEF WriteJournal
  <2>2. r \in Senders /\ e.outcome \in Outcomes
    BY <2>1 DEF Senders, Entry
  <2>3. /\ pc' \in [Senders -> SenderPCs] /\ task' \in [Senders -> TaskType]
        /\ attempt' \in [Senders -> 0..MaxAttempts]
    BY <2>1, <2>2, BeginType
  <2>4. journal' \in [Runs -> Entry] /\ result' \in [Runs -> Outcomes \cup {NoOutcome}]
    BY <2>1, <2>2 DEF TypeOK
  <2>5. phase' \in [Runs -> Phases]
    BY <1>2 DEF TypeOK, WriteJournal, Phases
  <2> QED
    BY <1>2, <2>3, <2>4, <2>5 DEF TypeOK, WriteJournal
<1>3. ASSUME NEW r \in Runs, Crash(r) PROVE TypeOK'
  BY <1>3 DEF TypeOK, Crash, Phases, SenderPCs
<1>4. ASSUME NEW r \in Runs, HandleCreate(r) PROVE TypeOK'
  <2>1. beating' \in [Runs -> BOOLEAN]
    BY <1>4, Zenon DEF TypeOK, HandleCreate
  <2>2. phase' \in [Runs -> Phases]
    BY <1>4 DEF TypeOK, HandleCreate, Phases
  <2>3. row' \in [Runs -> [state : States, outcome : Outcomes \cup {NoOutcome}]]
    BY <1>4 DEF TypeOK, HandleCreate, States
  <2>4. silence' \in [Runs -> Nat]
    BY <1>4 DEF TypeOK, HandleCreate
  <2>5. UNCHANGED <<audits, envVars, beat, journal, result, sendVars>>
    BY <1>4, Zenon DEF HandleCreate
  <2> QED
    BY <2>1, <2>2, <2>3, <2>4, <2>5 DEF TypeOK
<1>5. ASSUME NEW r \in Runs, HandleBeat(r) PROVE TypeOK'
  <2>1. beating' \in [Runs -> BOOLEAN]
    <3>1. CASE beating' = beating
      BY <3>1 DEF TypeOK
    <3>2. CASE beating' = [beating EXCEPT ![r] = FALSE]
      BY <3>2 DEF TypeOK
    <3> QED
      BY <1>5, <3>1, <3>2, Zenon DEF HandleBeat
  <2>2. silence' \in [Runs -> Nat] /\ beat' \in [Runs -> BOOLEAN]
    BY <1>5 DEF TypeOK, HandleBeat
  <2>3. UNCHANGED <<row, audits, envVars, phase, journal, result, sendVars>>
    BY <1>5, Zenon DEF HandleBeat
  <2> QED
    BY <2>1, <2>2, <2>3 DEF TypeOK
<1>6. ASSUME NEW r \in Runs, LoseBeat(r) \/ ArchiveContext(r) \/ RevokeInputs(r) PROVE TypeOK'
  BY <1>6 DEF TypeOK, LoseBeat, ArchiveContext, RevokeInputs
<1>7. CASE MarkStale
  BY <1>7 DEF TypeOK, MarkStale, States
<1>8. CASE Tick
  <2>1. \A r \in Runs : silence[r] \in Nat /\ silence[r] + 1 \in Nat
    BY DEF TypeOK
  <2>2. silence' \in [Runs -> Nat]
    <3>1. silence' = [r \in Runs |-> IF row[r].state = "running" /\ silence[r] <= HeartbeatTimeout
                                     THEN silence[r] + 1 ELSE silence[r]]
      BY <1>8 DEF Tick
    <3>2. \A r \in Runs : (IF row[r].state = "running" /\ silence[r] <= HeartbeatTimeout
                           THEN silence[r] + 1 ELSE silence[r]) \in Nat
      BY <2>1
    <3> QED
      BY <3>1, <3>2, Zenon
  <2> QED
    BY <1>8, <2>2 DEF TypeOK, Tick
<1>9. ASSUME NEW q \in wire, HandleFinalize(q) PROVE TypeOK'
  <2>1. q \in Requests
    BY DEF TypeOK
  <2>2. row' \in [Runs -> [state : States, outcome : Outcomes \cup {NoOutcome}]]
    <3>1. [state |-> "terminal", outcome |-> q.outcome]
              \in [state : States, outcome : Outcomes \cup {NoOutcome}]
      BY <2>1 DEF Requests, States, Terminal
    <3>2. CASE row' = row
      BY <3>2 DEF TypeOK
    <3>3. CASE row' = [row EXCEPT ![q.run] = [state |-> "terminal", outcome |-> q.outcome]]
      BY <3>1, <3>3 DEF TypeOK
    <3> QED
      BY <1>9, <3>2, <3>3, Zenon DEF HandleFinalize
  <2>3. audits' \in [Runs -> Nat]
    BY <1>9, <2>1 DEF TypeOK, HandleFinalize, Requests
  <2>4. reply' \in [Senders -> Replies] /\ wire' \subseteq Requests
    BY <1>9, <2>1 DEF TypeOK, HandleFinalize, Requests, Replies
  <2> QED
    BY <1>9, <2>2, <2>3, <2>4 DEF TypeOK, HandleFinalize
<1>10. ASSUME NEW q \in wire, LoseRequest(q) PROVE TypeOK'
  BY <1>10 DEF TypeOK, LoseRequest
<1>11. ASSUME NEW s \in Senders, Resolve(s) PROVE TypeOK'
  <2> DEFINE e == [outcome |-> task[s].entry.outcome, resolved |-> TRUE]
  <2>1. e \in Entry /\ [run |-> task[s].run, entry |-> e] \in TaskType
    BY DEF TypeOK, TaskType, Entry
  <2>2. journal' \in [Runs -> Entry]
    BY <1>11, <2>1 DEF TypeOK, Resolve
  <2>3. task' \in [Senders -> TaskType] /\ pc' \in [Senders -> SenderPCs]
    BY <1>11, <2>1 DEF TypeOK, Resolve, SenderPCs
  <2> QED
    BY <1>11, <2>2, <2>3 DEF TypeOK, Resolve
<1>12. ASSUME NEW s \in Senders, Post(s) PROVE TypeOK'
  <2>1. /\ task[s].run \in Runs /\ attempt[s] \in 1..MaxAttempts
        /\ task[s].entry.outcome \in Outcomes
    BY <1>12, BoundsType DEF TypeOK, Post, TaskIsSet, TaskType, Entry
  <2>2. wire' \subseteq Requests
    BY <1>12, <2>1 DEF TypeOK, Post, Requests
  <2>3. pc' \in [Senders -> SenderPCs]
    BY <1>12 DEF TypeOK, Post, SenderPCs
  <2>4. reply' \in [Senders -> Replies]
    BY <1>12 DEF TypeOK, Post, Replies
  <2> QED
    BY <1>12, <2>2, <2>3, <2>4 DEF TypeOK, Post
<1>13. ASSUME NEW s \in Senders, GetReply(s) PROVE TypeOK'
  <2>1. journal' \in [Runs -> Entry]
    BY <1>13 DEF TypeOK, GetReply, NoEntry, Entry
  <2> QED
    BY <1>13, <2>1 DEF TypeOK, GetReply, SenderPCs
<1>14. ASSUME NEW s \in Senders, TimeOut(s) PROVE TypeOK'
  <2>1. attempt' \in [Senders -> 0..MaxAttempts]
    BY <1>14, BoundsType DEF TypeOK, TimeOut, MayRetry
  <2>2. pc' \in [Senders -> SenderPCs]
    BY <1>14 DEF TypeOK, TimeOut, SenderPCs
  <2> QED
    BY <1>14, <2>1, <2>2 DEF TypeOK, TimeOut
<1>15. ASSUME NEW s \in Senders, LoseReply(s) PROVE TypeOK'
  BY <1>15 DEF TypeOK, LoseReply, Replies
<1>16. ASSUME NEW s \in Senders, NEW r \in Runs, StartRecovery(s, r) PROVE TypeOK'
  <2>1. journal[r] \in Entry
    BY DEF TypeOK
  <2> QED
    BY <1>16, <2>1, BeginType DEF TypeOK, StartRecovery
<1>17. ASSUME NEW s \in Senders, NEW r \in Runs, NEW o \in Outcomes, MaintainerPosts(s, r, o)
       PROVE  TypeOK'
  <2>1. [outcome |-> o, resolved |-> TRUE] \in Entry
    BY DEF Entry
  <2> QED
    BY <1>17, <2>1, BeginType DEF TypeOK, MaintainerPosts
<1> QED
  BY <1>1, <1>2, <1>3, <1>4, <1>5, <1>6, <1>7, <1>8, <1>9, <1>10, <1>11, <1>12, <1>13,
     <1>14, <1>15, <1>16, <1>17 DEF Next, Server, Command, Send

\* A terminal Run keeps its state and its document in every step.
LEMMA TerminalStep ==
    ASSUME TypeOK, Next
    PROVE  \A r \in Runs : row[r].state \in Terminal => row'[r] = row[r]
<1> SUFFICES ASSUME NEW t \in Runs, row[t].state \in Terminal PROVE row'[t] = row[t]
  OBVIOUS
<1>1. row[t].state = "terminal"
  BY DEF Terminal
<1>2. ASSUME NEW r \in Runs, HandleCreate(r) PROVE row'[t] = row[t]
  <2>1. r # t
    BY <1>1, <1>2 DEF HandleCreate
  <2> QED
    BY <1>2, <2>1 DEF HandleCreate, TypeOK
<1>3. CASE MarkStale
  <2>1. ~Silent(t)
    BY <1>1 DEF Silent
  <2> QED
    BY <1>3, <2>1, Zenon DEF MarkStale
<1>4. ASSUME NEW q \in wire, HandleFinalize(q) PROVE row'[t] = row[t]
  <2>1. CASE Verdict(q) = "finish"
    <3>1. q.run # t
      BY <2>1, <1>1 DEF Verdict, Terminal
    <3>2. row' = [row EXCEPT ![q.run] = [state |-> "terminal", outcome |-> q.outcome]]
      BY <1>4, <2>1, Zenon DEF HandleFinalize
    <3> QED
      BY <3>1, <3>2 DEF TypeOK
  <2>2. CASE Verdict(q) # "finish"
    BY <1>4, <2>2 DEF HandleFinalize
  <2> QED
    BY <2>1, <2>2
<1> QED
  BY <1>2, <1>3, <1>4
     DEF Next, Server, Command, Send, StartRun, CreateFails, SendBeat, ChildEnds, WriteJournal,
         Crash, Resolve, Post, GetReply, TimeOut, HandleBeat, LoseBeat, ArchiveContext,
         RevokeInputs, LoseReply, StartRecovery, MaintainerPosts, LoseRequest, Tick, rowVars

\* What a step keeps that leaves journals and senders alone.
LEMMA QuietStep ==
    ASSUME TypeOK, Honesty,
           \A r \in Runs : row[r].state \in Terminal => row'[r] = row[r],
           \A r \in Runs : phase[r] \in {"finalizing", "over"} => phase'[r] \in {"finalizing", "over"},
           UNCHANGED <<journal, result, sendVars>>
    PROVE  Honesty'
<1> USE DEF sendVars, procVars
<1>1. WireIsHonest' /\ TaskIsSet' /\ TaskIsTrue'
  BY DEF Honesty, WireIsHonest, TaskIsSet, TaskIsTrue
<1>2. \A r \in Runs : \A o : Final(r, o) => row'[r].state \in Terminal /\ row'[r].outcome = o
  BY DEF Final
<1>3. ReplyIsTrue'
  <2> SUFFICES ASSUME NEW s \in Senders
               PROVE  /\ reply[s] # "none" => task[s].run # NoRun
                      /\ reply[s] = "ok" => /\ row'[task[s].run].state \in Terminal
                                            /\ row'[task[s].run].outcome = task[s].entry.outcome
                      /\ pc[s] = "done" => reply[s] = "ok"
    BY DEF ReplyIsTrue, Final
  <2>1. task[s].run \in Runs \cup {NoRun}
    BY DEF TypeOK, TaskType
  <2> QED
    BY <1>2, <2>1 DEF Honesty, ReplyIsTrue
<1>4. JournalIsTrue'
  BY DEF Honesty, JournalIsTrue
<1>5. NoResultIsForgotten'
  BY <1>2 DEF Honesty, NoResultIsForgotten, Final
<1> QED
  BY <1>1, <1>3, <1>4, <1>5 DEF Honesty

\* What s takes on from idle it had not sent or heard of before.
LEMMA BeginStep ==
    ASSUME RunsInv, NEW s \in Senders, NEW r \in Runs, NEW e \in Entry, Begin(s, r, e),
           e.outcome # NoOutcome, s \in Maintainers => e.resolved,
           UNCHANGED <<row, wire, reply>>
    PROVE  WireIsHonest' /\ TaskIsSet' /\ ReplyIsTrue'
<1>1. /\ task[s].run = NoRun /\ reply[s] = "none" /\ pc[s] = "idle"
      /\ \A q \in wire : q.by \in Senders /\ q.by # s
  BY Sentinels DEF RunsInv, Honesty, TypeOK, WireIsHonest, TaskIsSet, ReplyIsTrue, Begin, Requests
<1>2. /\ pc'[s] \in {"send", "resolve"} /\ (pc'[s] = "resolve" => ~e.resolved)
      /\ task'[s] = [run |-> r, entry |-> e] /\ attempt'[s] = 1
      /\ \A z \in Senders : z # s =>
            pc'[z] = pc[z] /\ task'[z] = task[z] /\ attempt'[z] = attempt[z]
  BY DEF Begin, RunsInv, TypeOK
<1>3. WireIsHonest'
  BY <1>1, <1>2 DEF RunsInv, Honesty, WireIsHonest
<1>4. TaskIsSet'
  BY <1>2, Sentinels DEF RunsInv, Honesty, TaskIsSet
<1>5. ReplyIsTrue'
  BY <1>1, <1>2 DEF RunsInv, Honesty, ReplyIsTrue, Final
<1> QED
  BY <1>3, <1>4, <1>5

LEMMA WriteJournalStep ==
    ASSUME RunsInv, NEW r \in Runs, WriteJournal(r)
    PROVE  Honesty'
<1>1. PICK e \in Entry : /\ e.outcome # NoOutcome
                         /\ journal' = [journal EXCEPT ![r] = e]
                         /\ result' = [result EXCEPT ![r] = e.outcome]
                         /\ Begin(r, r, e)
  BY DEF WriteJournal
<1>2. r \in Senders \ Maintainers /\ UNCHANGED <<row, wire, reply>> /\ phase[r] = "ended"
      /\ phase' = [phase EXCEPT ![r] = "finalizing"]
  BY SendersAreDistinct DEF Senders, WriteJournal, rowVars
<1>3. WireIsHonest' /\ TaskIsSet' /\ ReplyIsTrue'
  BY <1>1, <1>2, BeginStep
<1>4. /\ journal'[r] = e /\ result'[r] = e.outcome /\ phase'[r] = "finalizing"
      /\ task'[r] = [run |-> r, entry |-> e]
      /\ \A t \in Runs : t # r =>
            journal'[t] = journal[t] /\ result'[t] = result[t] /\ phase'[t] = phase[t]
      /\ \A z \in Senders : z # r => task'[z] = task[z]
  BY <1>1, <1>2 DEF Begin, RunsInv, TypeOK
<1>5. JournalIsTrue' /\ NoResultIsForgotten'
  BY <1>2, <1>4 DEF RunsInv, Honesty, JournalIsTrue, NoResultIsForgotten, Final
<1>6. \A z \in Senders \ Maintainers : task[z].run # r \/ r = NoRun
  BY <1>2 DEF RunsInv, Honesty, TaskIsTrue, TaskIsSet, JournalIsTrue
<1>7. TaskIsTrue'
  <2>1. \A z \in Senders : task[z].run \in Runs \cup {NoRun}
    BY DEF RunsInv, TypeOK, TaskType
  <2> QED
    BY <1>4, <1>6, <2>1, Sentinels DEF RunsInv, Honesty, TaskIsTrue
<1> QED
  BY <1>3, <1>5, <1>7 DEF Honesty

LEMMA StartRecoveryStep ==
    ASSUME RunsInv, NEW s \in Senders, NEW r \in Runs, StartRecovery(s, r)
    PROVE  Honesty'
<1>1. /\ journal[r] \in Entry /\ journal[r].outcome # NoOutcome /\ Begin(s, r, journal[r])
      /\ s \in Recoverers /\ UNCHANGED <<rowVars, envVars, cliVars, journal, result, wire, reply>>
  BY DEF StartRecovery, RunsInv, TypeOK
<1>2. UNCHANGED <<row, wire, reply, journal, result, phase>> /\ s \notin Maintainers
  BY <1>1, SendersAreDistinct DEF rowVars, cliVars
<1>3. WireIsHonest' /\ TaskIsSet' /\ ReplyIsTrue'
  BY <1>1, <1>2, BeginStep
<1>4. JournalIsTrue' /\ NoResultIsForgotten'
  BY <1>2 DEF RunsInv, Honesty, JournalIsTrue, NoResultIsForgotten, Final
<1>5. task' = [task EXCEPT ![s] = [run |-> r, entry |-> journal[r]]]
  BY <1>1 DEF Begin
<1>6. TaskIsTrue'
  BY <1>1, <1>2, <1>5 DEF RunsInv, Honesty, TaskIsTrue, JournalIsTrue, TypeOK
<1> QED
  BY <1>3, <1>4, <1>6 DEF Honesty

LEMMA MaintainerPostsStep ==
    ASSUME RunsInv, NEW s \in Senders, NEW r \in Runs, NEW o \in Outcomes, MaintainerPosts(s, r, o)
    PROVE  Honesty'
<1> DEFINE e == [outcome |-> o, resolved |-> TRUE]
<1>1. e \in Entry /\ e.outcome # NoOutcome /\ e.resolved
  BY Sentinels DEF Entry
<1>2. UNCHANGED <<row, wire, reply, journal, result, phase>> /\ s \in Maintainers /\ Begin(s, r, e)
  BY DEF MaintainerPosts, rowVars, cliVars
<1> HIDE DEF e
<1>3. WireIsHonest' /\ TaskIsSet' /\ ReplyIsTrue'
  BY <1>1, <1>2, BeginStep
<1>4. JournalIsTrue' /\ NoResultIsForgotten'
  BY <1>2 DEF RunsInv, Honesty, JournalIsTrue, NoResultIsForgotten, Final
<1>5. task' = [task EXCEPT ![s] = [run |-> r, entry |-> e]]
  BY <1>2 DEF Begin
<1>6. TaskIsTrue'
  BY <1>2, <1>5 DEF RunsInv, Honesty, TaskIsTrue, TypeOK
<1> QED
  BY <1>3, <1>4, <1>6 DEF Honesty

LEMMA ResolveStep ==
    ASSUME RunsInv, NEW s \in Senders, Resolve(s)
    PROVE  Honesty'
<1>1. PICK o, r : o = task[s].entry.outcome /\ r = task[s].run
  OBVIOUS
<1>2. /\ r \in Runs /\ o # NoOutcome /\ s \notin Maintainers /\ o = result[r]
  BY <1>1 DEF Resolve, RunsInv, Honesty, TypeOK, TaskType, TaskIsSet, TaskIsTrue
<1>3. PICK e : e = [outcome |-> o, resolved |-> TRUE]
  OBVIOUS
<1>4. /\ task' = [task EXCEPT ![s] = [run |-> r, entry |-> e]]
      /\ journal' = [journal EXCEPT ![r] = e]
      /\ pc' = [pc EXCEPT ![s] = "send"] /\ pc[s] = "resolve"
      /\ UNCHANGED <<row, wire, reply, result, phase, attempt>>
  BY <1>1, <1>3 DEF Resolve, rowVars, cliVars
<1>5. /\ task'[s].run = r /\ task'[s].entry.outcome = o
      /\ pc'[s] = "send" /\ journal'[r].outcome = o
      /\ \A z \in Senders : z # s => pc'[z] = pc[z] /\ task'[z] = task[z]
      /\ \A t \in Runs : t # r => journal'[t] = journal[t]
  BY <1>2, <1>3, <1>4 DEF RunsInv, TypeOK
<1>6. \A z \in Senders : task'[z].run = task[z].run /\ task'[z].entry.outcome = task[z].entry.outcome
  BY <1>1, <1>5
<1>7. WireIsHonest'
  BY <1>4, <1>6 DEF RunsInv, Honesty, WireIsHonest, TypeOK, Requests
<1>8. TaskIsSet'
  BY <1>4, <1>5, <1>6 DEF RunsInv, Honesty, TaskIsSet
<1>9. ReplyIsTrue'
  BY <1>4, <1>5, <1>6 DEF RunsInv, Honesty, ReplyIsTrue, Final
<1>10. JournalIsTrue' /\ NoResultIsForgotten'
  BY <1>2, <1>4, <1>5 DEF RunsInv, Honesty, JournalIsTrue, NoResultIsForgotten, Final
<1>11. TaskIsTrue'
  BY <1>4, <1>6 DEF RunsInv, Honesty, TaskIsTrue
<1> QED
  BY <1>7, <1>8, <1>9, <1>10, <1>11 DEF Honesty

LEMMA PostStep ==
    ASSUME RunsInv, NEW s \in Senders, Post(s)
    PROVE  Honesty'
<1>1. PICK q : q = [run |-> task[s].run, by |-> s, n |-> attempt[s], outcome |-> task[s].entry.outcome]
  OBVIOUS
<1>2. /\ wire' = wire \cup {q} /\ pc[s] = "send"
      /\ pc' = [pc EXCEPT ![s] = "wait"] /\ reply' = [reply EXCEPT ![s] = "none"]
      /\ UNCHANGED <<row, journal, result, phase, task, attempt>>
  BY <1>1 DEF Post, rowVars, cliVars
<1>3. /\ pc'[s] = "wait" /\ reply'[s] = "none"
      /\ \A z \in Senders : z # s => pc'[z] = pc[z] /\ reply'[z] = reply[z]
  BY <1>2 DEF RunsInv, TypeOK
<1>4. WireIsHonest'
  BY <1>1, <1>2 DEF RunsInv, Honesty, WireIsHonest
<1>5. TaskIsSet'
  BY <1>2, <1>3 DEF RunsInv, Honesty, TaskIsSet
<1>6. ReplyIsTrue'
  BY <1>2, <1>3 DEF RunsInv, Honesty, ReplyIsTrue, Final
<1>7. JournalIsTrue' /\ NoResultIsForgotten' /\ TaskIsTrue'
  BY <1>2 DEF RunsInv, Honesty, JournalIsTrue, NoResultIsForgotten, TaskIsTrue, Final
<1> QED
  BY <1>4, <1>5, <1>6, <1>7 DEF Honesty

LEMMA GetReplyStep ==
    ASSUME RunsInv, NEW s \in Senders, GetReply(s)
    PROVE  Honesty'
<1>1. /\ pc[s] = "wait" /\ reply[s] # "none"
      /\ pc' = [pc EXCEPT ![s] = IF reply[s] = "ok" THEN "done" ELSE "gaveup"]
      /\ journal' = IF Removed(s) THEN [journal EXCEPT ![task[s].run] = NoEntry] ELSE journal
      /\ UNCHANGED <<row, phase, result, task, attempt, wire, reply>>
  BY DEF GetReply, rowVars, cliVars
<1>2. task[s].run \in Runs
  BY <1>1 DEF RunsInv, Honesty, TypeOK, TaskType, TaskIsSet
<1>3. /\ pc'[s] \in {"done", "gaveup"} /\ (pc'[s] = "done" => reply[s] = "ok")
      /\ \A z \in Senders : z # s => pc'[z] = pc[z]
  BY <1>1 DEF RunsInv, TypeOK
<1>4. WireIsHonest' /\ TaskIsTrue'
  BY <1>1 DEF RunsInv, Honesty, WireIsHonest, TaskIsTrue
<1>5. TaskIsSet'
  BY <1>1, <1>2, <1>3, Sentinels DEF RunsInv, Honesty, TaskIsSet
<1>6. ReplyIsTrue'
  BY <1>1, <1>3 DEF RunsInv, Honesty, ReplyIsTrue, Final
<1>7. \A t \in Runs : \/ journal'[t] = journal[t]
                      \/ t = task[s].run /\ journal'[t] = NoEntry /\ Removed(s)
  BY <1>1, <1>2 DEF RunsInv, TypeOK
<1>8. Removed(s) => Final(task[s].run, result[task[s].run])
  BY <1>2, Sentinels DEF RunsInv, Honesty, Removed, ReplyIsTrue, TaskIsTrue
<1>9. JournalIsTrue'
  BY <1>1, <1>7 DEF RunsInv, Honesty, JournalIsTrue, NoEntry
<1>10. NoResultIsForgotten'
  <2> SUFFICES ASSUME NEW t \in Runs, result[t] # NoOutcome
               PROVE  journal'[t].outcome = result[t] \/ Final(t, result[t])
    BY <1>1 DEF NoResultIsForgotten, Final
  <2> QED
    BY <1>7, <1>8 DEF RunsInv, Honesty, NoResultIsForgotten
<1> QED
  BY <1>4, <1>5, <1>6, <1>9, <1>10 DEF Honesty

LEMMA TimeOutStep ==
    ASSUME RunsInv, NEW s \in Senders, TimeOut(s)
    PROVE  Honesty'
<1>1. /\ pc' = [pc EXCEPT ![s] = pc'[s]] /\ pc'[s] \in {"send", "resolve", "gaveup"}
      /\ pc[s] \in {"wait", "resolve"} /\ (pc'[s] = "resolve" => pc[s] = "resolve")
  BY DEF TimeOut, RunsInv, TypeOK
<1>2. /\ attempt' = [attempt EXCEPT ![s] = attempt'[s]] /\ (attempt[s] # 0 => attempt'[s] # 0)
  BY BoundsType DEF TimeOut, RunsInv, TypeOK
<1>3. UNCHANGED <<row, phase, journal, result, task, wire, reply>>
  BY DEF TimeOut, rowVars, cliVars
<1>4. /\ \A z \in Senders : z # s => pc'[z] = pc[z] /\ attempt'[z] = attempt[z]
  BY <1>1, <1>2 DEF RunsInv, TypeOK
<1>5. TaskIsSet'
  BY <1>1, <1>2, <1>3, <1>4 DEF RunsInv, Honesty, TaskIsSet
<1>6. ReplyIsTrue'
  BY <1>1, <1>3, <1>4 DEF RunsInv, Honesty, ReplyIsTrue, Final
<1>7. WireIsHonest' /\ JournalIsTrue' /\ NoResultIsForgotten' /\ TaskIsTrue'
  BY <1>3 DEF RunsInv, Honesty, WireIsHonest, JournalIsTrue, NoResultIsForgotten, TaskIsTrue, Final
<1> QED
  BY <1>5, <1>6, <1>7 DEF Honesty

LEMMA HandleFinalizeStep ==
    ASSUME RunsInv, NEW q \in wire, HandleFinalize(q),
           \A r \in Runs : row[r].state \in Terminal => row'[r] = row[r]
    PROVE  Honesty'
<1>1. q.run \in Runs /\ q.by \in Senders /\ q.outcome \in Outcomes
      /\ task[q.by].run = q.run /\ task[q.by].entry.outcome = q.outcome
  BY DEF RunsInv, Honesty, TypeOK, WireIsHonest, Requests
<1>2. UNCHANGED <<journal, result, phase, task, attempt, pc>> /\ wire' = wire \ {q}
  BY DEF HandleFinalize, procVars, cliVars
<1>3. Verdict(q) # "refused" => row'[q.run].state \in Terminal /\ row'[q.run].outcome = q.outcome
  <2>1. CASE Verdict(q) = "finish"
    <3>1. row' = [row EXCEPT ![q.run] = [state |-> "terminal", outcome |-> q.outcome]]
      BY <2>1, Zenon DEF HandleFinalize
    <3> QED
      BY <1>1, <3>1 DEF RunsInv, TypeOK, Terminal
  <2>2. CASE Verdict(q) = "ok"
    BY <1>1, <2>2 DEF Verdict
  <2>3. Verdict(q) \in {"ok", "finish", "refused"}
    BY DEF Verdict
  <2> QED
    BY <2>1, <2>2, <2>3
<1>4. PICK answer : answer = IF Verdict(q) = "refused" THEN "refused" ELSE "ok"
  OBVIOUS
<1>5. reply' = IF pc[q.by] = "wait" /\ attempt[q.by] = q.n
               THEN [reply EXCEPT ![q.by] = answer] ELSE reply
  BY <1>4, Zenon DEF HandleFinalize
<1>6. \A s \in Senders : \/ reply'[s] = reply[s]
                         \/ s = q.by /\ reply'[s] = answer /\ pc[s] = "wait"
  BY <1>5 DEF RunsInv, TypeOK
<1>7. ReplyIsTrue'
  <2> SUFFICES ASSUME NEW s \in Senders
               PROVE  /\ reply'[s] # "none" => task[s].run # NoRun
                      /\ reply'[s] = "ok" => /\ row'[task[s].run].state \in Terminal
                                             /\ row'[task[s].run].outcome = task[s].entry.outcome
                      /\ pc[s] = "done" => reply'[s] = "ok"
    BY <1>2 DEF ReplyIsTrue, Final
  <2>1. CASE reply'[s] = reply[s]
    <3>1. task[s].run \in Runs \cup {NoRun}
      BY DEF RunsInv, TypeOK, TaskType
    <3> QED
      BY <2>1, <3>1 DEF RunsInv, Honesty, ReplyIsTrue, Final
  <2>2. CASE s = q.by /\ reply'[s] = answer /\ pc[s] = "wait"
    BY <1>1, <1>3, <1>4, <2>2, Sentinels
  <2> QED
    BY <1>6, <2>1, <2>2
<1>8. WireIsHonest' /\ TaskIsSet' /\ TaskIsTrue' /\ JournalIsTrue'
  BY <1>2 DEF RunsInv, Honesty, WireIsHonest, TaskIsSet, TaskIsTrue, JournalIsTrue
<1>9. NoResultIsForgotten'
  BY <1>2 DEF RunsInv, Honesty, NoResultIsForgotten, Final
<1> QED
  BY <1>7, <1>8, <1>9 DEF Honesty

LEMMA FaultStep ==
    ASSUME RunsInv,
           \/ \E r \in Runs : Crash(r)
           \/ \E q \in wire : LoseRequest(q)
           \/ \E s \in Senders : LoseReply(s)
    PROVE  Honesty'
<1>1. UNCHANGED <<row, journal, result, task, attempt>>
  BY DEF Crash, LoseRequest, LoseReply, rowVars, procVars
<1> DEFINE Harmless ==
      /\ \A r \in Runs : phase[r] \in {"finalizing", "over"} => phase'[r] \in {"finalizing", "over"}
      /\ wire' \subseteq wire
      /\ \A s \in Senders : /\ pc'[s] \in {pc[s], "gaveup"}
                            /\ \/ reply'[s] = reply[s]
                               \/ reply'[s] = "none" /\ pc[s] = "wait"
<1>2. Harmless
  <2>1. ASSUME NEW r \in Runs, Crash(r) PROVE Harmless
    BY <2>1 DEF Crash, RunsInv, TypeOK
  <2>2. ASSUME NEW q \in wire, LoseRequest(q) PROVE Harmless
    BY <2>2 DEF LoseRequest, cliVars, procVars
  <2>3. ASSUME NEW s \in Senders, LoseReply(s) PROVE Harmless
    BY <2>3 DEF LoseReply, cliVars, procVars, RunsInv, TypeOK
  <2> QED
    BY <2>1, <2>2, <2>3
<1>3. WireIsHonest' /\ TaskIsTrue' /\ NoResultIsForgotten' /\ JournalIsTrue'
  BY <1>1, <1>2 DEF RunsInv, Honesty, WireIsHonest, TaskIsTrue, NoResultIsForgotten, JournalIsTrue, Final
<1>4. TaskIsSet'
  BY <1>1, <1>2 DEF RunsInv, Honesty, TaskIsSet
<1>5. ReplyIsTrue'
  BY <1>1, <1>2 DEF RunsInv, Honesty, ReplyIsTrue, Final
<1> QED
  BY <1>3, <1>4, <1>5 DEF Honesty

LEMMA InvInit == Init => RunsInv
<1> SUFFICES ASSUME Init PROVE RunsInv
  OBVIOUS
<1>1. NoEntry \in Entry /\ [run |-> NoRun, entry |-> NoEntry] \in TaskType
  BY DEF NoEntry, Entry, TaskType
<1>2. TypeOK
  BY <1>1, BoundsType DEF Init, TypeOK, States, Phases, SenderPCs, Replies
<1>3. WireIsHonest /\ TaskIsSet /\ ReplyIsTrue /\ TaskIsTrue
  BY DEF Init, WireIsHonest, TaskIsSet, ReplyIsTrue, TaskIsTrue
<1>4. JournalIsTrue /\ NoResultIsForgotten
  BY DEF Init, JournalIsTrue, NoResultIsForgotten, NoEntry
<1> QED
  BY <1>2, <1>3, <1>4 DEF RunsInv, Honesty

LEMMA InvStep == RunsInv /\ [Next]_vars => RunsInv'
<1> SUFFICES ASSUME RunsInv, [Next]_vars PROVE RunsInv'
  OBVIOUS
<1> USE DEF RunsInv
<1>1. CASE UNCHANGED vars
  <2>1. /\ UNCHANGED <<row, silence, audits, context, inputs, phase, beat, beating>>
        /\ UNCHANGED <<journal, result, pc, task, attempt, wire, reply>>
    BY <1>1 DEF vars, rowVars, envVars, cliVars, sendVars, procVars
  <2>2. TypeOK'
    BY <2>1 DEF TypeOK
  <2>3. WireIsHonest' /\ TaskIsSet' /\ TaskIsTrue' /\ JournalIsTrue'
    BY <2>1 DEF Honesty, WireIsHonest, TaskIsSet, TaskIsTrue, JournalIsTrue
  <2>4. ReplyIsTrue' /\ NoResultIsForgotten'
    BY <2>1 DEF Honesty, ReplyIsTrue, NoResultIsForgotten, Final
  <2> QED
    BY <2>2, <2>3, <2>4 DEF Honesty
<1>2. CASE Next
  <2>1. TypeOK'
    BY <1>2, TypeStep DEF Honesty
  <2>2. \A r \in Runs : row[r].state \in Terminal => row'[r] = row[r]
    BY <1>2, TerminalStep
  <2>3. ASSUME MarkStale \/ Tick \/ \E r \in Runs :
                   \/ StartRun(r) \/ CreateFails(r) \/ SendBeat(r) \/ ChildEnds(r)
                   \/ HandleCreate(r) \/ HandleBeat(r) \/ LoseBeat(r)
                   \/ ArchiveContext(r) \/ RevokeInputs(r)
        PROVE  Honesty'
    <3>1. UNCHANGED <<journal, result, sendVars>>
      BY <2>3 DEF MarkStale, Tick, StartRun, CreateFails, SendBeat, ChildEnds, HandleCreate,
                  HandleBeat, LoseBeat, ArchiveContext, RevokeInputs
    <3>2. \A r \in Runs : phase[r] \in {"finalizing", "over"} => phase'[r] \in {"finalizing", "over"}
      BY <2>3 DEF MarkStale, Tick, StartRun, CreateFails, SendBeat, ChildEnds, HandleCreate,
                  HandleBeat, LoseBeat, ArchiveContext, RevokeInputs, cliVars, TypeOK
    <3> QED
      BY <2>2, <3>1, <3>2, QuietStep
  <2>4. ASSUME \E q \in wire : HandleFinalize(q) PROVE Honesty'
    BY <2>2, <2>4, HandleFinalizeStep
  <2>5. ASSUME \/ \E r \in Runs : WriteJournal(r)
               \/ \E s \in Senders, r \in Runs :
                      StartRecovery(s, r) \/ \E o \in Outcomes : MaintainerPosts(s, r, o)
        PROVE  Honesty'
    BY <2>5, WriteJournalStep, StartRecoveryStep, MaintainerPostsStep
  <2>6. ASSUME \E s \in Senders : Send(s) PROVE Honesty'
    BY <2>6, ResolveStep, PostStep, GetReplyStep, TimeOutStep DEF Send
  <2> QED
    BY <1>2, <2>1, <2>3, <2>4, <2>5, <2>6, FaultStep DEF Next, Server, Command
<1> QED
  BY <1>1, <1>2

\* Every variable keeps its type, whatever faults occur.
THEOREM TypeCorrect == Spec => []TypeOK
<1>1. RunsInv => TypeOK
  BY DEF RunsInv
<1> QED
  BY InvInit, InvStep, <1>1, PTL DEF Spec

\* RunService.finalize, heartbeats and the worker's recover_incomplete leave a
\* terminal Run's state and document alone for ever.
THEOREM TerminalStaysImmutable == Spec => TerminalIsImmutable
<1>1. RunsInv /\ [Next]_vars => [\A r \in Runs : row[r].state \in Terminal => row'[r] = row[r]]_vars
  BY TerminalStep DEF RunsInv
<1> QED
  BY InvInit, InvStep, <1>1, PTL DEF Spec, TerminalIsImmutable

\* _recover_finalization returns success only for a Run that holds its document.
THEOREM AcksAreFinal == Spec => []AckMeansFinal
<1>1. RunsInv => AckMeansFinal
  BY DEF RunsInv, Honesty, ReplyIsTrue, AckMeansFinal
<1> QED
  BY InvInit, InvStep, <1>1, PTL DEF Spec

\* A journaled result is on disk until the Run holds it, for any number of
\* crashes, losses, retries and concurrent recoveries.
THEOREM ResultsAreKept == Spec => []NoResultIsForgotten
<1>1. RunsInv => NoResultIsForgotten
  BY DEF RunsInv, Honesty
<1> QED
  BY InvInit, InvStep, <1>1, PTL DEF Spec

-----------------------------------------------------------------------------
(* Refusals and heartbeats                                                 *)

\* Where nothing is archived, a refusal has one of two reasons, and both last: the Run
\* holds another document, or it has none and will get none.
RefusalIsRight ==
    /\ \A r \in Runs : context[r]
    /\ \A s \in Senders : reply[s] = "refused" =>
          \/ /\ row[task[s].run].state \in Terminal
             /\ row[task[s].run].outcome # task[s].entry.outcome
          \/ row[task[s].run].state \notin Terminal /\ ~inputs[task[s].run]

\* Which steps a Run's row can take.
LEMMA RowStep ==
    ASSUME RunsInv, Next, NEW t \in Runs, row[t].state \notin Terminal,
           row'[t].state \in Terminal
    PROVE  inputs[t] /\ UNCHANGED <<context, inputs>>
<1>1. ASSUME NEW r \in Runs, HandleCreate(r) PROVE row'[t].state \notin Terminal
  BY <1>1 DEF HandleCreate, RunsInv, TypeOK, Terminal
<1>2. CASE MarkStale
  BY <1>2 DEF MarkStale, RunsInv, TypeOK, Terminal
<1>3. ASSUME NEW q \in wire, HandleFinalize(q)
      PROVE  inputs[t] /\ UNCHANGED <<context, inputs>>
  <2>1. UNCHANGED <<context, inputs>>
    BY <1>3 DEF HandleFinalize, envVars
  <2>2. Verdict(q) = "finish"
    BY <1>3 DEF HandleFinalize
  <2>3. row' = [row EXCEPT ![q.run] = [state |-> "terminal", outcome |-> q.outcome]]
    BY <1>3, <2>2, Zenon DEF HandleFinalize
  <2>4. q.run = t
    BY <2>3 DEF RunsInv, TypeOK
  <2>5. inputs[q.run]
    BY <2>2 DEF Verdict
  <2> QED
    BY <2>1, <2>4, <2>5
<1> QED
  BY <1>1, <1>2, <1>3
     DEF Next, Server, Command, Send, StartRun, CreateFails, SendBeat, ChildEnds, WriteJournal,
         Crash, Resolve, Post, GetReply, TimeOut, HandleBeat, LoseBeat, ArchiveContext,
         RevokeInputs, LoseReply, StartRecovery, MaintainerPosts, LoseRequest, Tick, rowVars

\* A Run that is refused to a sender stays so.
LEMMA RefusedStays ==
    ASSUME RunsInv, Next, "archive" \notin Faults, NEW t \in Runs, NEW o
    PROVE  /\ context'[t] = context[t]
           /\ row[t].state \in Terminal /\ row[t].outcome # o
                 => row'[t].state \in Terminal /\ row'[t].outcome # o
           /\ row[t].state \notin Terminal /\ ~inputs[t]
                 => row'[t].state \notin Terminal /\ ~inputs'[t]
<1>1. row[t].state \in Terminal => row'[t] = row[t]
  BY TerminalStep DEF RunsInv
<1>2. context'[t] = context[t] /\ (~inputs[t] => ~inputs'[t])
  <2>1. ASSUME NEW r \in Runs, RevokeInputs(r)
        PROVE context'[t] = context[t] /\ (~inputs[t] => ~inputs'[t])
    BY <2>1, Zenon DEF RevokeInputs, RunsInv, TypeOK
  <2>2. ASSUME UNCHANGED envVars PROVE context'[t] = context[t] /\ (~inputs[t] => ~inputs'[t])
    BY <2>2, Zenon DEF envVars
  <2>3. UNCHANGED envVars \/ \E r \in Runs : RevokeInputs(r)
    BY DEF Next, Server, Command, Send, StartRun, CreateFails, SendBeat, ChildEnds, WriteJournal,
         Crash, Resolve, Post, GetReply, TimeOut, HandleBeat, LoseBeat, ArchiveContext,
         LoseReply, StartRecovery, MaintainerPosts, LoseRequest, Tick,
         HandleCreate, HandleFinalize, MarkStale
  <2> QED
    BY <2>1, <2>2, <2>3
<1>3. row[t].state \notin Terminal /\ ~inputs[t] => row'[t].state \notin Terminal
  BY RowStep
<1> QED
  BY <1>1, <1>2, <1>3

\* A sender is refused by the server's answer or not at all, and keeps what it asked for.
LEMMA RefusalHasASource ==
    ASSUME RunsInv, Next, NEW s \in Senders, reply'[s] = "refused"
    PROVE  \/ /\ reply[s] = "refused"
              /\ task'[s].run = task[s].run /\ task'[s].entry.outcome = task[s].entry.outcome
           \/ \E q \in wire : HandleFinalize(q) /\ q.by = s /\ Verdict(q) = "refused"
<1> DEFINE Kept == /\ reply[s] = "refused"
                   /\ task'[s].run = task[s].run /\ task'[s].entry.outcome = task[s].entry.outcome
<1> USE DEF RunsInv, TypeOK
<1>1. ASSUME NEW z \in Senders, NEW r \in Runs, NEW e, Begin(z, r, e), UNCHANGED reply PROVE Kept
  <2>1. pc[z] = "idle" /\ task' = [task EXCEPT ![z] = [run |-> r, entry |-> e]]
    BY <1>1 DEF Begin
  <2>2. s # z
    BY <1>1, <2>1, Sentinels DEF Honesty, TaskIsSet, ReplyIsTrue
  <2> QED
    BY <1>1, <2>1, <2>2
<1>2. ASSUME NEW r \in Runs, WriteJournal(r) PROVE Kept
  <2>1. r \in Senders /\ UNCHANGED reply /\ \E e \in Entry : Begin(r, r, e)
    BY <1>2 DEF WriteJournal, Senders
  <2> QED
    BY <1>1, <2>1
<1>3. ASSUME NEW z \in Senders, NEW r \in Runs,
             StartRecovery(z, r) \/ \E o \in Outcomes : MaintainerPosts(z, r, o)
      PROVE  Kept
  <2>1. UNCHANGED reply /\ \E e : Begin(z, r, e)
    BY <1>3 DEF StartRecovery, MaintainerPosts
  <2> QED
    BY <1>1, <2>1
<1>4. ASSUME NEW z \in Senders, Resolve(z) PROVE Kept
  <2>1. reply' = reply
    BY <1>4 DEF Resolve
  <2>2. PICK e : /\ e = [outcome |-> task[z].entry.outcome, resolved |-> TRUE]
                 /\ task' = [task EXCEPT ![z] = [run |-> task[z].run, entry |-> e]]
    BY <1>4 DEF Resolve
  <2>3. CASE z = s
    <3>1. task'[s] = [run |-> task[s].run, entry |-> e]
      BY <2>2, <2>3
    <3>2. task'[s].run = task[s].run /\ task'[s].entry = e
      BY <3>1
    <3> QED
      BY <2>1, <2>2, <2>3, <3>2
  <2>4. CASE z # s
    BY <2>1, <2>2, <2>4
  <2> QED
    BY <2>3, <2>4
<1>5. ASSUME NEW z \in Senders, Post(z) \/ LoseReply(z) PROVE Kept
  BY <1>5 DEF Post, LoseReply, procVars
<1>6. ASSUME NEW q \in wire, HandleFinalize(q), ~(q.by = s /\ Verdict(q) = "refused") PROVE Kept
  <2>1. UNCHANGED task
    BY <1>6 DEF HandleFinalize, procVars
  <2>2. PICK a : /\ a = IF Verdict(q) = "refused" THEN "refused" ELSE "ok"
                 /\ reply' = IF pc[q.by] = "wait" /\ attempt[q.by] = q.n
                             THEN [reply EXCEPT ![q.by] = a] ELSE reply
    BY <1>6, Zenon DEF HandleFinalize
  <2>3. q.by = s => a = "ok"
    BY <1>6, <2>2
  <2>4. reply[s] = "refused"
    BY <2>2, <2>3
  <2> QED
    BY <2>1, <2>4
<1>7. UNCHANGED <<task, reply>> => Kept
  OBVIOUS
<1> QED
  BY <1>2, <1>3, <1>4, <1>5, <1>6, <1>7
     DEF Next, Server, Command, Send, StartRun, CreateFails, SendBeat, ChildEnds,
         Crash, GetReply, TimeOut, HandleCreate, HandleBeat, MarkStale, LoseBeat,
         ArchiveContext, RevokeInputs, LoseRequest, Tick, sendVars, procVars

LEMMA RefusalKept ==
    ASSUME RunsInv, RefusalIsRight, [Next]_vars, "archive" \notin Faults
    PROVE  RefusalIsRight'
<1>1. CASE UNCHANGED vars
  BY <1>1 DEF vars, rowVars, envVars, sendVars, procVars, RefusalIsRight
<1>2. CASE Next
  <2>1. \A r \in Runs : context'[r]
    BY <1>2, RefusedStays DEF RefusalIsRight
  <2>2. ASSUME NEW s \in Senders, reply'[s] = "refused"
        PROVE  \/ /\ row'[task'[s].run].state \in Terminal
                  /\ row'[task'[s].run].outcome # task'[s].entry.outcome
               \/ row'[task'[s].run].state \notin Terminal /\ ~inputs'[task'[s].run]
    <3>1. CASE /\ reply[s] = "refused"
               /\ task'[s].run = task[s].run /\ task'[s].entry.outcome = task[s].entry.outcome
      <4>1. task[s].run \in Runs
        BY <3>1 DEF RunsInv, Honesty, ReplyIsTrue, TypeOK, TaskType
      <4>2. \/ /\ row[task[s].run].state \in Terminal
               /\ row[task[s].run].outcome # task[s].entry.outcome
            \/ row[task[s].run].state \notin Terminal /\ ~inputs[task[s].run]
        BY <3>1 DEF RefusalIsRight
      <4> QED
        BY <1>2, <3>1, <4>1, <4>2, RefusedStays
    <3>2. CASE \E q \in wire : HandleFinalize(q) /\ q.by = s /\ Verdict(q) = "refused"
      <4>1. PICK q \in wire : HandleFinalize(q) /\ q.by = s /\ Verdict(q) = "refused"
        BY <3>2
      <4>2. /\ q.run \in Runs /\ task[s].run = q.run /\ task[s].entry.outcome = q.outcome
            /\ UNCHANGED <<task, inputs, row>>
        BY <4>1 DEF HandleFinalize, RunsInv, Honesty, WireIsHonest, TypeOK, Requests,
                    procVars, envVars
      <4>3. context[q.run]
        BY <4>2 DEF RefusalIsRight
      <4>4. \/ row[q.run].state \in Terminal /\ row[q.run].outcome # q.outcome
            \/ row[q.run].state \notin Terminal /\ ~inputs[q.run]
        BY <4>1, <4>3 DEF Verdict
      <4> QED
        BY <4>2, <4>4
    <3> QED
      BY <1>2, <2>2, <3>1, <3>2, RefusalHasASource
  <2> QED
    BY <2>1, <2>2 DEF RefusalIsRight
<1> QED
  BY <1>1, <1>2

\* While no pipeline version or environment is archived, sending the document a Run was
\* finalized with again is never refused: RunService.finalize compares the digests, for
\* any number of senders, losses and retries and however the inputs' grants end.
THEOREM ReplaysAreAccepted ==
    ASSUME "archive" \notin Faults
    PROVE  Spec => []ReplayIsAccepted
<1>1. Init => RefusalIsRight
  BY DEF Init, RefusalIsRight
<1>2. RunsInv /\ RefusalIsRight /\ [Next]_vars => RefusalIsRight'
  BY RefusalKept
<1>3. RunsInv /\ RefusalIsRight => ReplayIsAccepted
  BY DEF RefusalIsRight, ReplayIsAccepted, Final
<1> QED
  BY InvInit, InvStep, <1>1, <1>2, <1>3, PTL DEF Spec

\* A Run under timely heartbeats is never silent for longer than the interval.
HeartIsHeard ==
    \A r \in Runs \ Laggards : beating[r] =>
        \/ row[r].state \in Terminal
        \/ row[r].state = "running" /\ silence[r] <= HeartbeatInterval

\* The worker gives no Run up whose heartbeats come in time.
LEMMA HeartKept ==
    ASSUME RunsInv, HeartIsHeard, [Next]_vars, HeartbeatInterval <= HeartbeatTimeout
    PROVE  HeartIsHeard'
<1> SUFFICES ASSUME NEW t \in Runs \ Laggards, beating'[t]
             PROVE  \/ row'[t].state \in Terminal
                    \/ row'[t].state = "running" /\ silence'[t] <= HeartbeatInterval
  BY DEF HeartIsHeard
<1> DEFINE Heard == \/ row'[t].state \in Terminal
                    \/ row'[t].state = "running" /\ silence'[t] <= HeartbeatInterval
<1>a. beating[t] => \/ row[t].state \in Terminal
                    \/ row[t].state = "running" /\ silence[t] <= HeartbeatInterval
  BY DEF HeartIsHeard
<1>b. row[t].state \in Terminal => row[t].state # "running"
  BY DEF Terminal
<1>1. ASSUME UNCHANGED <<row, silence>>, beating[t] PROVE Heard
  BY <1>1, <1>a
<1>2. ASSUME NEW r \in Runs, HandleCreate(r) PROVE Heard
  <2>1. CASE r = t
    <3>1. row'[t].state = "running" /\ silence'[t] = 0
      BY <1>2, <2>1 DEF HandleCreate, RunsInv, TypeOK
    <3> QED
      BY <3>1, BoundsType
  <2>2. CASE r # t
    <3>1. beating'[t] = beating[t]
      BY <1>2, <2>2, Zenon DEF HandleCreate, RunsInv, TypeOK
    <3>2. row'[t] = row[t] /\ silence'[t] = silence[t]
      BY <1>2, <2>2 DEF HandleCreate, RunsInv, TypeOK
    <3> QED
      BY <1>a, <3>1, <3>2
  <2> QED
    BY <2>1, <2>2
<1>3. ASSUME NEW r \in Runs, HandleBeat(r) PROVE Heard
  <2>1. beating[t]
    BY <1>3, Zenon DEF HandleBeat, RunsInv, TypeOK
  <2>2. row' = row /\ (silence'[t] = silence[t] \/ silence'[t] = 0)
    BY <1>3 DEF HandleBeat, RunsInv, TypeOK
  <2> QED
    BY <1>a, <2>1, <2>2, BoundsType
<1>4. ASSUME NEW r \in Runs, ChildEnds(r) \/ Crash(r) PROVE Heard
  <2>1. beating[t]
    BY <1>4, Zenon DEF ChildEnds, Crash, RunsInv, TypeOK
  <2>2. UNCHANGED <<row, silence>>
    BY <1>4 DEF ChildEnds, Crash, rowVars
  <2> QED
    BY <1>1, <2>1, <2>2
<1>5. CASE MarkStale
  <2>1. UNCHANGED <<silence, beating>>
    BY <1>5 DEF MarkStale, cliVars
  <2>2. beating[t]
    BY <2>1, Zenon
  <2>3. CASE row[t].state \in Terminal
    <3>1. ~Silent(t)
      BY <1>b, <2>3 DEF Silent
    <3>2. row'[t] = row[t]
      BY <1>5, <3>1, Zenon DEF MarkStale
    <3> QED
      BY <2>3, <3>2
  <2>4. CASE row[t].state = "running" /\ silence[t] <= HeartbeatInterval
    <3>1. ~Silent(t)
      BY <2>4, BoundsType DEF Silent, RunsInv, TypeOK
    <3>2. row'[t] = row[t]
      BY <1>5, <3>1, Zenon DEF MarkStale
    <3> QED
      BY <2>1, <2>4, <3>2
  <2> QED
    BY <1>a, <2>2, <2>3, <2>4
<1>6. CASE Tick
  <2>1. UNCHANGED <<row, beating>>
    BY <1>6 DEF Tick, cliVars
  <2>2. beating[t] /\ row[t].state = "running" => silence[t] < HeartbeatInterval
    BY <1>6, Zenon DEF Tick
  <2>3. silence'[t] \in {silence[t], silence[t] + 1}
    BY <1>6 DEF Tick, RunsInv, TypeOK
  <2> QED
    BY <1>a, <2>1, <2>2, <2>3, BoundsType DEF RunsInv, TypeOK
<1>7. ASSUME NEW q \in wire, HandleFinalize(q) PROVE Heard
  <2>1. UNCHANGED <<silence, beating>>
    BY <1>7 DEF HandleFinalize, cliVars
  <2>2. row'[t] = row[t] \/ row'[t] = [state |-> "terminal", outcome |-> q.outcome]
    BY <1>7 DEF HandleFinalize, RunsInv, TypeOK
  <2> QED
    BY <1>a, <2>1, <2>2 DEF Terminal
<1>8. UNCHANGED <<row, silence, beating>> => Heard
  BY <1>1
<1> QED
  BY <1>2, <1>3, <1>4, <1>5, <1>6, <1>7, <1>8
     DEF Next, Server, Command, Send, StartRun, CreateFails, SendBeat, WriteJournal,
         Resolve, Post, GetReply, TimeOut, LoseBeat, ArchiveContext, RevokeInputs,
         LoseReply, StartRecovery, MaintainerPosts, LoseRequest, rowVars, cliVars, vars

\* If the timeout is at least the interval of the heartbeats, the worker never gives up a
\* Run whose heartbeats arrive once per interval, for any number of Runs, whatever happens
\* to the others and to the finalization of this one.
THEOREM HealthyRunsStay ==
    ASSUME HeartbeatInterval <= HeartbeatTimeout
    PROVE  Spec => []HealthyRunStaysRunning
<1>1. Init => HeartIsHeard
  BY DEF Init, HeartIsHeard
<1>2. RunsInv /\ HeartIsHeard /\ [Next]_vars => HeartIsHeard'
  BY HeartKept
<1>3. HeartIsHeard => HealthyRunStaysRunning
  BY DEF HeartIsHeard, HealthyRunStaysRunning
<1> QED
  BY InvInit, InvStep, <1>1, <1>2, <1>3, PTL DEF Spec
=============================================================================
