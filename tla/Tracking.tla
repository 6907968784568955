------------------------------ MODULE Tracking ------------------------------
(***************************************************************************)
(* What a Run logs, and how it is read back.  The child process logs       *)
(* batches of parameters, metrics and tags through the MLflow plugin; the  *)
(* plugin and the web application read whole projects or single Runs; the  *)
(* progress view shows, for each Experiment, the metric of its latest Run. *)
(*                                                                         *)
(* Every request is a transaction at READ COMMITTED without locks: what it *)
(* checked may have changed when it commits, and each of the statements    *)
(* of a reader sees what is committed by then.  One Experiment with one    *)
(* metric, one parameter key and one tag key stand for all of them, and    *)
(* all requests are from Contributors of the project.                      *)
(***************************************************************************)
EXTENDS Naturals, Sequences, SequencesExt

CONSTANTS Runs,
          Early,    \* Runs that exist when the log begins
          Batches,  \* POST .../tracking/batch, each sent once
          Readers,  \* snapshots of the project or of one Run
          Viewers,  \* requests of the progress view
          Values,   \* of parameters
          Tags      \* values of tags

None == "none"

ASSUME RunsType == Early \subseteq Runs /\ None \notin Runs

VARIABLES run,       \* runs: state, and the moments of creation and end
          now,       \* number of moments so far
          param,     \* run_parameters: value, and the batch it is from
          metrics,   \* run_metrics in the order of their sequence
          tag,       \* run_tags
          archived,  \* the Experiment is archived
          default,   \* a default progress metric is set
          batch, reader, viewer

logVars == <<param, metrics, tag>>
runVars == <<run, now, archived>>
vars == <<runVars, logVars, default, batch, reader, viewer>>

RunType == [state : {"absent", "running", "ended"}, created : Nat, ended : Nat]
ParamType == [value : Values \cup {None}, by : Batches \cup {None}]
MetricType == [run : Runs, by : Batches]
BatchType == [pc : {"new", "commit", "acked", "refused", "broken"}, run : Runs \cup {None},
              value : Values \cup {None}, sawValue : Values \cup {None},
              tag : Tags \cup {None}, sawTag : Tags \cup {None}, at : Nat]
ReaderType == [pc : {"new", "runs", "tables", "answer", "done", "broken"},
               bound : Runs \cup {None}, first : SUBSET Runs, runs : SUBSET Runs,
               tables : 0..3, shown : [{"parameters", "metrics", "tags"} -> SUBSET Batches],
               acked : SUBSET Batches]  \* acked before it began, for the properties
ViewerType == [pc : {"new", "found", "done", "refused"},
               kind : {None, "points", "default"}, shown : Runs \cup {None}]

NoParam == [value |-> None, by |-> None]
NoBatch == [pc |-> "new", run |-> None, value |-> None, sawValue |-> None,
            tag |-> None, sawTag |-> None, at |-> 0]
NoReader == [pc |-> "new", bound |-> None, first |-> {}, runs |-> {}, tables |-> 0,
             shown |-> [t \in {"parameters", "metrics", "tags"} |-> {}], acked |-> {}]
NoViewer == [pc |-> "new", kind |-> None, shown |-> None]

Init ==
    /\ run = [r \in Runs |-> [state |-> IF r \in Early THEN "running" ELSE "absent",
                              created |-> 0, ended |-> 0]]
    /\ now = 0
    /\ param = [r \in Runs |-> NoParam]
    /\ metrics = <<>>
    /\ tag = [r \in Runs |-> None]
    /\ archived = FALSE
    /\ default = FALSE
    /\ batch = [b \in Batches |-> NoBatch]
    /\ reader = [q \in Readers |-> NoReader]
    /\ viewer = [v \in Viewers |-> NoViewer]

-----------------------------------------------------------------------------
(* Runs and batches. X_Something is X with a plausible bug: no action uses *)
(* it, it shows that the properties notice the bug.                        *)

Existing == {r \in Runs : run[r].state # "absent"}

Create(r) ==
    /\ run[r].state = "absent"
    /\ run' = [run EXCEPT ![r] = [state |-> "running", created |-> now + 1, ended |-> 0]]
    /\ now' = now + 1
    /\ UNCHANGED <<logVars, archived, default, batch, reader, viewer>>

\* A Run is finalized, with its ended_at.
End(r) ==
    /\ run[r].state = "running"
    /\ run' = [run EXCEPT ![r].state = "ended", ![r].ended = now + 1]
    /\ now' = now + 1
    /\ UNCHANGED <<logVars, archived, default, batch, reader, viewer>>

ArchiveExperiment ==
    /\ ~archived
    /\ archived' = TRUE
    /\ UNCHANGED <<run, now, logVars, default, batch, reader, viewer>>

\* TrackingService.log_batch up to its first write. A batch always has a metric.
Admits_Existing(r) == run[r].state # "absent"
Admits(r) == run[r].state = "running"

Begin(b, r, v, t) ==
    /\ batch[b].pc = "new"
    /\ r \in Existing
    /\ batch' = [batch EXCEPT ![b] =
          IF Admits(r) /\ (v = None \/ param[r].value \in {None, v})
          THEN [pc |-> "commit", run |-> r, value |-> v, sawValue |-> param[r].value,
                tag |-> t, sawTag |-> tag[r], at |-> now]
          ELSE [NoBatch EXCEPT !.pc = "refused"]]
    /\ UNCHANGED <<runVars, logVars, default, reader, viewer>>

\* Rows that another request inserted since the batch looked for them: the primary
\* keys of run_parameters and run_tags refuse the whole batch.
Conflicts_TagsOnly(t) == t.tag # None /\ t.sawTag = None /\ tag[t.run] # None
Conflicts(t) ==
    \/ t.value # None /\ t.sawValue = None /\ param[t.run].value # None
    \/ t.tag # None /\ t.sawTag = None /\ tag[t.run] # None

\* add_parameter, add_metric, upsert_tag and the COMMIT. A tag that already had the
\* value when it was read is not written.
Commit(b) ==
    LET t == batch[b] IN
    /\ t.pc = "commit" /\ ~Conflicts(t)
    /\ param' = IF t.value # None /\ t.sawValue = None
                THEN [param EXCEPT ![t.run] = [value |-> t.value, by |-> b]] ELSE param
    /\ metrics' = Append(metrics, [run |-> t.run, by |-> b])
    /\ tag' = IF t.tag # None /\ t.tag # t.sawTag THEN [tag EXCEPT ![t.run] = t.tag] ELSE tag
    /\ batch' = [batch EXCEPT ![b] = [NoBatch EXCEPT !.pc = "acked", !.run = t.run,
                                                      !.value = t.value, !.at = t.at]]
    /\ UNCHANGED <<runVars, default, reader, viewer>>

Break(b) ==
    /\ batch[b].pc = "commit" /\ Conflicts(batch[b])
    /\ batch' = [batch EXCEPT ![b] = [NoBatch EXCEPT !.pc = "broken"]]
    /\ UNCHANGED <<runVars, logVars, default, reader, viewer>>

Acked == {b \in Batches : batch[b].pc = "acked"}

-----------------------------------------------------------------------------
(* Readers: one statement after the other                                  *)

\* project_snapshot: the Runs and the Experiments of the project.
ReadProject(q) ==
    /\ reader[q].pc = "new"
    /\ reader' = [reader EXCEPT ![q] = [NoReader EXCEPT !.pc = "runs", !.first = Existing,
                                        !.acked = Acked]]
    /\ UNCHANGED <<runVars, logVars, default, batch, viewer>>

\* get_tracking_run: only the Run that the token is bound to.
ReadRun(q, r) ==
    /\ reader[q].pc = "new" /\ r \in Existing
    /\ reader' = [reader EXCEPT ![q] =
          [NoReader EXCEPT !.pc = "tables", !.bound = r, !.first = {r}, !.runs = {r},
                           !.acked = {b \in Acked : batch[b].run = r}]]
    /\ UNCHANGED <<runVars, logVars, default, batch, viewer>>

\* tracking_snapshots_for_project reads the Runs again.
RunsForProject == Existing

ReadRuns(q) ==
    /\ reader[q].pc = "runs"
    /\ reader' = [reader EXCEPT ![q].pc = "tables", ![q].runs = RunsForProject]
    /\ UNCHANGED <<runVars, logVars, default, batch, viewer>>

\* Then the tables one by one: the batches whose rows are there, and the Runs of all rows.
Tables_MetricsFirst == <<"metrics", "parameters", "tags">>
Tables == <<"parameters", "metrics", "tags">>

Rows(table) == CASE table = "parameters" -> {param[r].by : r \in Runs} \ {None}
                 [] table = "metrics"    -> {metrics[i].by : i \in DOMAIN metrics}
                 [] table = "tags"       -> {}
RunsOf(table) == {batch[b].run : b \in Rows(table)} \cup
                 (IF table = "tags" THEN {r \in Runs : tag[r] # None} ELSE {})

\* A row of a Run that is not among those read before is a KeyError.
ReadTable(q) ==
    LET t == reader[q]
        table == Tables[t.tables + 1]
        rows == {b \in Rows(table) : t.bound \in {None, batch[b].run}}
    IN /\ t.pc = "tables"
       /\ reader' = [reader EXCEPT ![q] =
             IF t.bound = None /\ ~ RunsOf(table) \subseteq t.runs THEN [NoReader EXCEPT !.pc = "broken", !.first = t.first]
             ELSE [t EXCEPT !.tables = @ + 1,
                            !.shown[table] = rows,
                            !.pc = IF t.tables + 1 = Len(Tables) THEN "answer" ELSE "tables"]]
       /\ UNCHANGED <<runVars, logVars, default, batch, viewer>>

\* The provenance was read for the Runs of the first statement.
Answer(q) ==
    /\ reader[q].pc = "answer"
    /\ reader' = [reader EXCEPT ![q].pc =
                     IF reader[q].runs \subseteq reader[q].first THEN "done" ELSE "broken"]
    /\ UNCHANGED <<runVars, logVars, default, batch, viewer>>

-----------------------------------------------------------------------------
(* Metric progress                                                         *)

\* _latest_progress_rows: the Run that ended last, or was created last.
RunAt(r) == IF run[r].state = "ended" THEN run[r].ended ELSE run[r].created

Logged == {metrics[i].run : i \in DOMAIN metrics}
Point == IF archived \/ Logged = {} THEN None
         ELSE CHOOSE r \in Logged : \A s \in Logged :
                 \/ RunAt(s) < RunAt(r)
                 \/ RunAt(s) = RunAt(r) /\ run[s].created <= run[r].created

\* The metrics that can be chosen: those with a point.
Available_Always == TRUE
Available == Point # None

\* MetricProgressService.points and set_default check that the metric is available.
Look(v, kind) ==
    /\ viewer[v].pc = "new"
    /\ viewer' = [viewer EXCEPT ![v] =
          [NoViewer EXCEPT !.pc = IF Available THEN "found" ELSE "refused", !.kind = kind]]
    /\ UNCHANGED <<runVars, logVars, default, batch, reader>>

ReadPoints(v) ==
    /\ viewer[v].pc = "found" /\ viewer[v].kind = "points"
    /\ viewer' = [viewer EXCEPT ![v].pc = "done", ![v].shown = Point]
    /\ UNCHANGED <<runVars, logVars, default, batch, reader>>

SetDefault(v) ==
    /\ viewer[v].pc = "found" /\ viewer[v].kind = "default"
    /\ viewer' = [viewer EXCEPT ![v].pc = "done"]
    /\ default' = TRUE
    /\ UNCHANGED <<runVars, logVars, batch, reader>>

ClearDefault(v) ==
    /\ viewer[v].pc = "new"
    /\ viewer' = [viewer EXCEPT ![v].pc = "done"]
    /\ default' = FALSE
    /\ UNCHANGED <<runVars, logVars, batch, reader>>

Log(b) ==
    \/ \E r \in Runs, v \in Values \cup {None}, t \in Tags \cup {None} : Begin(b, r, v, t)
    \/ Commit(b) \/ Break(b)

Read(q) ==
    \/ ReadProject(q) \/ \E r \in Runs : ReadRun(q, r)
    \/ ReadRuns(q) \/ ReadTable(q) \/ Answer(q)

View(v) ==
    \/ \E kind \in {"points", "default"} : Look(v, kind)
    \/ ReadPoints(v) \/ SetDefault(v) \/ ClearDefault(v)

Next ==
    \/ \E r \in Runs : Create(r) \/ End(r)
    \/ \E b \in Batches : Log(b)
    \/ \E q \in Readers : Read(q)
    \/ \E v \in Viewers : View(v)
    \/ ArchiveExperiment

Spec == Init /\ [][Next]_vars

-----------------------------------------------------------------------------
(* Properties                                                              *)

TypeOK ==
    /\ run \in [Runs -> RunType]
    /\ now \in Nat
    /\ param \in [Runs -> ParamType]
    /\ metrics \in Seq(MetricType)
    /\ tag \in [Runs -> Tags \cup {None}]
    /\ archived \in BOOLEAN /\ default \in BOOLEAN
    /\ batch \in [Batches -> BatchType]
    /\ reader \in [Readers -> ReaderType]
    /\ viewer \in [Viewers -> ViewerType]

\* A batch that was acknowledged is in its Run for good, with its metrics and its own
\* value of the parameter, whoever logs the same parameter meanwhile; one that was not
\* has left nothing behind.
AckedBatchStays ==
    TypeOK /\ \A b \in Batches :
        /\ batch[b].pc = "acked" =>
              /\ batch[b].value # None => param[batch[b].run].value = batch[b].value
              /\ [run |-> batch[b].run, by |-> b] \in ToSet(metrics)
        /\ batch[b].pc # "acked" => b \notin Rows("parameters") \cup Rows("metrics")

\* "Terminal Runs are immutable" (specification, line 303) as far as the code goes: what
\* an ended Run is given had been admitted before its end.
LateContentWasAdmitted ==
    \A b \in Rows("metrics") :
        run[batch[b].run].state = "ended" => batch[b].at < run[batch[b].run].ended

\* A snapshot has all that was acknowledged before it began, and with a batch's
\* parameter its metrics; it fails only when a Run was created meanwhile.
SnapshotIsSound ==
    \A q \in Readers :
        /\ reader[q].pc = "done" =>
              /\ reader[q].acked \subseteq reader[q].shown["metrics"]
              /\ reader[q].shown["parameters"] \subseteq reader[q].shown["metrics"]
        /\ reader[q].pc = "broken" => ~ Existing \subseteq reader[q].first

\* A metric that the progress view has found can be shown, unless its Experiment was
\* archived meanwhile; the default is one that some Run has logged.
ProgressIsBacked ==
    /\ \A v \in Viewers :
          viewer[v].pc = "done" /\ viewer[v].kind = "points" /\ viewer[v].shown = None => archived
    /\ default => Logged # {}
=============================================================================
