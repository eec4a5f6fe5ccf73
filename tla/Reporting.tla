------------------------------ MODULE Reporting ------------------------------
(***************************************************************************)
(* The Article 14 record of one product: vulnerabilities, incidents, the   *)
(* obligation rows whose clocks have started, and what the audit trail     *)
(* says about each incident (src/cra/server/reporting.py).                 *)
(*                                                                         *)
(* Every tool of that file runs in one session_scope transaction and the   *)
(* tools are plain functions called on the server's event loop, so a call  *)
(* is one atomic action and a refused call changes nothing.                *)
(*                                                                         *)
(* A vulnerability has at most one incident (unique index on               *)
(* incidents.vulnerability_id), so that incident carries the               *)
(* vulnerability's id; the others come from report_incident.               *)
(***************************************************************************)
EXTENDS Deadlines

CONSTANTS
    VulnIds,      \* vulnerabilities, and the incidents they open
    ReportedIds   \* incidents opened by report_incident

ASSUME IdsAssumption == VulnIds \cap ReportedIds = {}

IncidentIds == VulnIds \cup ReportedIds

VARIABLES
    now,          \* the clock every handler reads once
    vulns,        \* vulnerabilities rows
    incidents,    \* incidents rows
    obligations,  \* reporting_obligations rows; due = NoTime: no such row
    trail         \* the anchors the audit rows of an incident state

vars == <<now, vulns, incidents, obligations, trail>>

MaybeTime == Times \cup {NoTime}
Row == [due : Nat \cup {NoTime}, submitted : MaybeTime]
NoRow == [due |-> NoTime, submitted |-> NoTime]

TypeOK ==
    /\ now \in Times
    /\ vulns \in [VulnIds -> [recorded : BOOLEAN, exploited : BOOLEAN,
                              determined : MaybeTime]]
    /\ incidents \in [IncidentIds -> [open : BOOLEAN, kind : Kinds,
                                      aware : MaybeTime, measure : MaybeTime]]
    /\ obligations \in [IncidentIds -> [Stages -> Row]]
    /\ trail \in [IncidentIds -> [aware : MaybeTime, measure : MaybeTime]]

Init ==
    /\ now \in Times
    /\ vulns = [v \in VulnIds |-> [recorded |-> FALSE, exploited |-> FALSE,
                                   determined |-> NoTime]]
    /\ incidents = [i \in IncidentIds |->
                      [open |-> FALSE, kind |-> "actively_exploited_vuln",
                       aware |-> NoTime, measure |-> NoTime]]
    /\ obligations = [i \in IncidentIds |-> [s \in Stages |-> NoRow]]
    /\ trail = [i \in IncidentIds |-> [aware |-> NoTime, measure |-> NoTime]]

----------------------------------------------------------------------------
(* _anchor_ts: an anchor that has not happened yet is refused; an omitted  *)
(* one (NoTime) passes through.                                            *)
Unchecked(t) == t \in MaybeTime  \* mutant: the guard forgotten
Happened(t) == t <= now

OrNow(t) == IF t = NoTime THEN now ELSE t

Exists(row) == row.due # NoTime

(* Mutants of the two operators below: stages added on the first call      *)
(* only; rows already there recreated; deadlines moved only towards the    *)
(* present; filed rows moved too.                                          *)
MaterialiseOnce(rows, incident) ==
    IF \E s \in Stages : Exists(rows[s]) THEN rows
    ELSE LET schedule == ScheduleFor(incident.kind, incident.aware, incident.measure)
         IN  [s \in Stages |-> [rows[s] EXCEPT !.due = schedule[s]]]

MaterialiseAnew(rows, incident) ==
    LET schedule == ScheduleFor(incident.kind, incident.aware, incident.measure)
    IN  [s \in Stages |-> [rows[s] EXCEPT !.due = schedule[s]]]

RescheduleEarlierOnly(rows, incident) ==
    LET schedule == ScheduleFor(incident.kind, incident.aware, incident.measure)
    IN  [s \in Stages |->
            IF rows[s].submitted = NoTime /\ schedule[s] # NoTime /\ schedule[s] < rows[s].due
            THEN [rows[s] EXCEPT !.due = schedule[s]]
            ELSE rows[s]]

RescheduleFiledToo(rows, incident) ==
    LET schedule == ScheduleFor(incident.kind, incident.aware, incident.measure)
    IN  [s \in Stages |->
            IF Exists(rows[s]) /\ schedule[s] # NoTime
            THEN [rows[s] EXCEPT !.due = schedule[s]]
            ELSE rows[s]]

(* _materialise_obligations: add the stages whose clock has started, leave *)
(* the ones already present alone.                                         *)
Materialise(rows, incident) ==
    LET schedule == ScheduleFor(incident.kind, incident.aware, incident.measure)
    IN  [s \in Stages |-> IF Exists(rows[s]) THEN rows[s]
                          ELSE [rows[s] EXCEPT !.due = schedule[s]]]

(* _reanchor's loop: recompute every row that is not submitted; a stage    *)
(* without an anchor keeps what it has.                                    *)
Reschedule(rows, incident) ==
    LET schedule == ScheduleFor(incident.kind, incident.aware, incident.measure)
    IN  [s \in Stages |->
            IF /\ Exists(rows[s])
               /\ rows[s].submitted = NoTime
               /\ schedule[s] # NoTime
            THEN [rows[s] EXCEPT !.due = schedule[s]]
            ELSE rows[s]]

(* _cascade: an incident already there is returned as it is.               *)
Cascade(incident, aware) ==
    IF incident.open THEN incident
    ELSE [open |-> TRUE, kind |-> "actively_exploited_vuln",
          aware |-> aware, measure |-> NoTime]

----------------------------------------------------------------------------
(* record_vulnerability.  Its audit row states the awareness date.         *)
RecordVulnerability(v, exploited, aware) ==
    LET anchor == OrNow(aware)
        opened == Cascade(incidents[v], anchor)
    IN  /\ ~vulns[v].recorded
        /\ Happened(aware)
        /\ vulns' = [vulns EXCEPT ![v] =
              [recorded |-> TRUE, exploited |-> exploited,
               determined |-> IF exploited THEN anchor ELSE NoTime]]
        /\ IF exploited
           THEN /\ incidents' = [incidents EXCEPT ![v] = opened]
                /\ obligations' = [obligations EXCEPT
                                     ![v] = Materialise(@, opened)]
                /\ trail' = [trail EXCEPT ![v].aware = anchor]
           ELSE UNCHANGED <<incidents, obligations, trail>>
        /\ UNCHANGED now

(* update_vulnerability: mark is the actively_exploited argument (None,    *)
(* true or false).  The incident is first opened by _cascade or moved by   *)
(* _reanchor, then takes the corrective measure; the audit rows of the     *)
(* call state a moved anchor and a measure, and the row for the mark       *)
(* itself states no date.  Moving an anchor without awareness_rationale is *)
(* refused, as is every other call that raises: it changes nothing.        *)
(* status and remediation_ref are recorded and read by no clock.           *)
Marks == {"omitted", "yes", "no"}

NewlyExploited(v, mark) == mark = "yes" /\ ~vulns[v].exploited

Reanchors(v, mark, aware) ==
    /\ ~NewlyExploited(v, mark)
    /\ aware # NoTime
    /\ incidents[v].aware # aware

AfterAwareness(v, mark, aware) ==
    IF NewlyExploited(v, mark) THEN Cascade(incidents[v], OrNow(aware))
    ELSE IF Reanchors(v, mark, aware)
    THEN [incidents[v] EXCEPT !.aware = aware]
    ELSE incidents[v]

RowsAfterAwareness(v, mark, aware) ==
    LET incident == AfterAwareness(v, mark, aware)
    IN  IF NewlyExploited(v, mark) /\ ~incidents[v].open
        THEN Materialise(obligations[v], incident)
        ELSE IF Reanchors(v, mark, aware)
        THEN Reschedule(obligations[v], incident)
        ELSE obligations[v]

UpdateVulnerability(v, mark, aware, measure) ==
    LET anchored == AfterAwareness(v, mark, aware)
        rows     == RowsAfterAwareness(v, mark, aware)
        measured == [anchored EXCEPT !.measure = measure]
    IN  /\ vulns[v].recorded
        /\ Happened(aware)
        /\ Happened(measure)
        /\ aware # NoTime /\ ~NewlyExploited(v, mark) => incidents[v].open
        /\ measure # NoTime => anchored.open
        /\ vulns' = [vulns EXCEPT
              ![v].exploited = IF mark = "omitted" THEN @ ELSE mark = "yes",
              ![v].determined =
                  IF NewlyExploited(v, mark) THEN OrNow(aware)
                  ELSE IF Reanchors(v, mark, aware) THEN aware ELSE @]
        /\ IF measure = NoTime
           THEN /\ incidents' = [incidents EXCEPT ![v] = anchored]
                /\ obligations' = [obligations EXCEPT ![v] = rows]
           ELSE /\ incidents' = [incidents EXCEPT ![v] = measured]
                /\ obligations' = [obligations EXCEPT
                                     ![v] = Materialise(rows, measured)]
        /\ trail' = [trail EXCEPT
              ![v].aware = IF Reanchors(v, mark, aware) THEN aware ELSE @,
              ![v].measure = IF measure = NoTime THEN @ ELSE measure]
        /\ UNCHANGED now

(* report_incident: either kind, never linked to a vulnerability.          *)
ReportIncident(i, kind, aware) ==
    LET incident == [open |-> TRUE, kind |-> kind,
                     aware |-> OrNow(aware), measure |-> NoTime]
    IN  /\ ~incidents[i].open
        /\ Happened(aware)
        /\ incidents' = [incidents EXCEPT ![i] = incident]
        /\ obligations' = [obligations EXCEPT ![i] = Materialise(@, incident)]
        /\ trail' = [trail EXCEPT ![i].aware = incident.aware]
        /\ UNCHANGED <<now, vulns>>

(* record_report_submission: submitted_at is parsed, not compared with the *)
(* clock.                                                                  *)
RecordReportSubmission(i, s, submitted) ==
    /\ Exists(obligations[i][s])
    /\ obligations[i][s].submitted = NoTime
    /\ obligations' = [obligations EXCEPT ![i][s].submitted = OrNow(submitted)]
    /\ UNCHANGED <<now, vulns, incidents, trail>>

(* The passing of time; the last instant of Times bounds a behaviour.      *)
Tick ==
    /\ now + 1 \in Times
    /\ now' = now + 1
    /\ UNCHANGED <<vulns, incidents, obligations, trail>>

Next ==
    \/ \E v \in VulnIds, exploited \in BOOLEAN, aware \in MaybeTime :
          RecordVulnerability(v, exploited, aware)
    \/ \E v \in VulnIds, mark \in Marks, aware, measure \in MaybeTime :
          UpdateVulnerability(v, mark, aware, measure)
    \/ \E i \in ReportedIds, kind \in Kinds, aware \in MaybeTime :
          ReportIncident(i, kind, aware)
    \/ \E i \in IncidentIds, s \in Stages, submitted \in MaybeTime :
          RecordReportSubmission(i, s, submitted)
    \/ Tick

Spec == Init /\ [][Next]_vars

----------------------------------------------------------------------------
(* No clock that the law has started is missing, and none runs that has    *)
(* not started: an exploited vulnerability has its incident, and an open   *)
(* incident has exactly the rows whose anchor is known (_cascade,          *)
(* _materialise_obligations).                                              *)
ClocksRun ==
    /\ \A v \in VulnIds : vulns[v].exploited => incidents[v].open
    /\ \A i \in IncidentIds, s \in Stages :
          Exists(obligations[i][s]) <=>
            /\ incidents[i].open
            /\ DueAtFor(incidents[i].kind, s, incidents[i].aware,
                        incidents[i].measure) # NoTime

(* Whatever sequence of corrections was made, an unfiled report that       *)
(* counts from awareness is due exactly its window after the awareness     *)
(* recorded now (_reanchor recomputes every unsubmitted row).              *)
AwarenessClocksExact ==
    \A i \in IncidentIds, s \in Stages :
        LET incident == incidents[i]
            row == obligations[i][s]
        IN  /\ Exists(row)
            /\ row.submitted = NoTime
            /\ ~OnCorrectiveMeasure(incident.kind, s)
            => row.due = DueAtFor(incident.kind, s, incident.aware, incident.measure)

(* No clock counts from an event that has not taken place: both anchors    *)
(* of every incident are in the past (_anchor_ts on both fields).          *)
AnchorsHappened ==
    \A i \in IncidentIds : incidents[i].aware <= now /\ incidents[i].measure <= now

(* A report once filed keeps the due date and the filing time it was       *)
(* judged by: no later correction of an anchor changes whether it was late *)
(* (_reanchor leaves submitted rows alone, record_report_submission        *)
(* refuses a second filing).                                               *)
FiledReportsStand ==
    [][\A i \in IncidentIds, s \in Stages :
         obligations[i][s].submitted # NoTime =>
            /\ obligations'[i][s] = obligations[i][s]
            /\ ObligationState(s, obligations[i][s].due,
                               obligations[i][s].submitted, now)'
               = ObligationState(s, obligations[i][s].due,
                                 obligations[i][s].submitted, now)]_vars

(* An overdue report stops being overdue in two ways only: it is filed, or *)
(* its incident's awareness date is moved and the trail states the new     *)
(* date.  In particular nothing done to the vulnerability (unmarking it,   *)
(* marking it again, a corrective measure) clears it.                      *)
OverdueIsAnswered ==
    [][\A i \in IncidentIds, s \in Stages :
         LET row == obligations[i][s]
         IN  /\ Exists(row)
             /\ ObligationState(s, row.due, row.submitted, now) = "overdue"
             /\ ObligationState(s, row.due, row.submitted, now)' # "overdue"
             => \/ row'.submitted # NoTime
                \/ /\ incidents'[i].aware # incidents[i].aware
                   /\ trail'[i].aware = incidents'[i].aware]_vars

----------------------------------------------------------------------------
(* What the documentation says of this program and the code does not do.   *)

(* "The final report's fourteen days run from the corrective measure":     *)
(* _materialise_obligations leaves an existing final row alone, so a       *)
(* corrected measure date does not move it.                                *)
FinalFollowsMeasure ==
    \A i \in IncidentIds :
        LET row == obligations[i]["final"]
        IN  /\ incidents[i].kind = "actively_exploited_vuln"
            /\ Exists(row)
            /\ row.submitted = NoTime
            => row.due = incidents[i].measure + FinalWindow

(* update_vulnerability's description: on a vulnerability whose incident   *)
(* already exists, became_aware_at moves the anchor.  Marked exploited     *)
(* again after being unmarked, _cascade returns the old incident unmoved.  *)
AnchorFollowsReport ==
    \A v \in VulnIds : vulns[v].exploited => incidents[v].aware = vulns[v].determined

(* The trail evidences every change of state: the awareness date an open   *)
(* incident counts from is stated by an audit row about it.  An incident   *)
(* opened by update_vulnerability has none.                                *)
TrailStatesAwareness ==
    \A i \in IncidentIds : incidents[i].open => trail[i].aware = incidents[i].aware

(* What record_report_submission records is the proof that the submission  *)
(* happened; a filing date in the future is accepted.                      *)
SubmissionsHappened ==
    \A i \in IncidentIds, s \in Stages : obligations[i][s].submitted <= now
=============================================================================
