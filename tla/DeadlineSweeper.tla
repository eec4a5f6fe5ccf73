--------------------------- MODULE DeadlineSweeper ---------------------------
(***************************************************************************)
(* The alerting half of the reporting clocks, for one product:             *)
(* src/cra/server/deadline_sweeper.py.  A pass runs in a worker thread, in *)
(* one transaction from start to commit, while tools commit on the event   *)
(* loop: the obligations and their due dates are read once at its start,   *)
(* the support period and the recipients when the pass gets to them, and   *)
(* a failure of the pass rolls back every notification_log row it wrote,   *)
(* though the mails those rows recorded have left.                         *)
(*                                                                         *)
(* An obligation is chased along its stage's ladder, a support period      *)
(* along the end-of-support ladder.  Both are called subjects.  The        *)
(* product's plan covers both, and alerting is enabled.                    *)
(***************************************************************************)
EXTENDS Deadlines, FiniteSets

CONSTANTS
    Users,
    Obligations,      \* reporting_obligations rows of the product
    StageOf,          \* their stage
    SupportPeriods,   \* the product's support period, if it has one
    EosLadder,        \* _EOS_LADDER's rungs before the end date
    Lookahead,        \* sweep_lookahead()
    MaxDisturbances   \* bound: failed passes and commits of others beside the sweeper

Subjects == Obligations \cup SupportPeriods
LadderOf(s) == IF s \in Obligations THEN Ladder[StageOf[s]] ELSE EosLadder

ASSUME SubjectsAssumption ==
    /\ Obligations \cap SupportPeriods = {}
    /\ StageOf \in [Obligations -> Stages]
    /\ EosLadder \subseteq Nat
ASSUME LookaheadAssumption ==
    /\ Lookahead \in Nat
    /\ \A s \in Obligations : \A r \in LadderOf(s) : r <= Lookahead
ASSUME MaxDisturbancesAssumption == MaxDisturbances \in Nat

VARIABLES
    now,
    due,         \* obligations' due_at, products' support_period_end
    filed,       \* obligations submitted
    recipients,  \* members with notifications on and an address
    configured,  \* CRA_ALERTS_FROM is set
    log,         \* committed notification_log rows
    pass,        \* the running pass
    disturbances \* failed passes and commits of others so far

vars == <<now, due, filed, recipients, configured, log, pass, disturbances>>

Statuses == {"sent", "suppressed", "failed"}
AnyRung == UNION {Rungs(s) : s \in Stages} \cup EosLadder
\* `due` is the date the row was written about: history, not a column.
LogRow == [subject : Subjects, user : Users, rung : AnyRung, status : Statuses,
           due : Times]

None == "none"
Idle == [phase |-> "idle", at |-> NoTime, todo |-> {}, subject |-> None,
         due |-> NoTime, rung |-> NoRung, users |-> {}, rows |-> {}]

TypeOK ==
    /\ now \in Times
    /\ due \in [Subjects -> Times]
    /\ filed \subseteq Obligations
    /\ recipients \subseteq Users
    /\ configured \in BOOLEAN
    /\ log \subseteq LogRow
    /\ pass \in [phase : {"idle", "obligations", "support"}, at : Times \cup {NoTime},
                 todo : SUBSET [subject : Subjects, due : Times],
                 subject : Subjects \cup {None}, due : Times \cup {NoTime},
                 rung : AnyRung \cup {NoRung}, users : SUBSET Users,
                 rows : SUBSET LogRow]
    /\ disturbances \in 0..MaxDisturbances

Init ==
    /\ now \in Times
    /\ due \in [Subjects -> Times]
    /\ filed = {}
    /\ recipients \in SUBSET Users
    /\ configured \in BOOLEAN
    /\ log = {}
    /\ pass = Idle
    /\ disturbances = 0

----------------------------------------------------------------------------
(* _SETTLED: the statuses that end the attempts at a rung.                 *)
SettledSentOnly == {"sent"}  \* mutant: a suppressed alert retried
Settled == {"sent", "suppressed"}

(* _already_sent and _eos_already_sent, read inside the transaction.  They *)
(* ask about the subject, not about a recipient or a due date.             *)
AlreadySent(s) ==
    {row.rung : row \in {r \in log \cup pass.rows : r.subject = s /\ r.status \in Settled}}

(* due_rung and eos_rung on the subject's own ladder.                      *)
CrossedRungs(s, remaining) ==
    {r \in LadderOf(s) \cup {Overdue} : Crossed(r, remaining)}
MostUrgentCrossed(s, remaining) ==
    LET crossed == CrossedRungs(s, remaining)
    IN  IF crossed = {} THEN NoRung
        ELSE CHOOSE r \in crossed : \A other \in crossed : r <= other

RungOwedUnsent(s, date) ==  \* mutant: a sent rung skipped for a gentler one
    LET unsent == CrossedRungs(s, date - pass.at) \ AlreadySent(s)
    IN  IF unsent = {} THEN NoRung ELSE CHOOSE r \in unsent : \A other \in unsent : r <= other
RungOwed(s, date) ==
    LET rung == MostUrgentCrossed(s, date - pass.at)
    IN  IF rung \in AlreadySent(s) THEN NoRung ELSE rung

----------------------------------------------------------------------------
(* _open_obligations: unsubmitted, inside the lookahead or overdue.        *)
OpenUpcoming(s, at) == s \notin filed /\ at <= due[s] /\ due[s] <= at + Lookahead  \* mutant
Open(s, at) == s \notin filed /\ due[s] <= at + Lookahead

StartPass ==
    /\ pass.phase = "idle"
    /\ pass' = [Idle EXCEPT
          !.phase = "obligations",
          !.at = now,
          !.todo = {[subject |-> s, due |-> due[s]] : s \in {o \in Obligations : Open(o, now)}}]
    /\ UNCHANGED <<now, due, filed, recipients, configured, log, disturbances>>

Working == pass.subject # None

(* The loop body up to the fan-out: soonest first, a rung owed or the next *)
(* row.  _recipients is queried here.                                      *)
TakeUp(item) ==
    LET rung == RungOwed(item.subject, item.due)
    IN  /\ ~Working
        /\ item \in pass.todo
        /\ \A other \in pass.todo : item.due <= other.due
        /\ pass' = IF rung = NoRung \/ recipients = {}
                   THEN [pass EXCEPT !.todo = @ \ {item}]
                   ELSE [pass EXCEPT !.todo = @ \ {item}, !.subject = item.subject,
                                     !.due = item.due, !.rung = rung,
                                     !.users = recipients]
        /\ UNCHANGED <<now, due, filed, recipients, configured, log, disturbances>>

(* One recipient: the row is flushed as pending, the mail sent, the        *)
(* outcome written to the row.  A provider error is caught and the loop    *)
(* goes on; without a sender mailer.send raises NotConfigured.             *)
Send(u, status) ==
    /\ Working
    /\ u \in pass.users
    /\ status = "suppressed" <=> ~configured
    /\ pass' = [pass EXCEPT
          !.users = @ \ {u},
          !.subject = IF pass.users = {u} THEN None ELSE @,
          !.due = IF pass.users = {u} THEN NoTime ELSE @,
          !.rung = IF pass.users = {u} THEN NoRung ELSE @,
          !.rows = @ \cup {[subject |-> pass.subject, user |-> u, rung |-> pass.rung,
                            status |-> status, due |-> pass.due]}]
    /\ UNCHANGED <<now, due, filed, recipients, configured, log, disturbances>>

(* _sweep_support_periods: its query runs after the obligations are done.  *)
EosHorizon == CHOOSE r \in EosLadder \cup {1} : \A other \in EosLadder \cup {1} : other <= r

StartSupportPeriods ==
    /\ pass.phase = "obligations"
    /\ ~Working
    /\ pass.todo = {}
    /\ pass' = [pass EXCEPT
          !.phase = "support",
          !.todo = {[subject |-> s, due |-> due[s]] :
                      s \in {p \in SupportPeriods : due[p] <= pass.at + EosHorizon}}]
    /\ UNCHANGED <<now, due, filed, recipients, configured, log, disturbances>>

(* session_scope's commit: every row of the pass becomes visible at once.  *)
CommitPass ==
    /\ pass.phase = "support"
    /\ ~Working
    /\ pass.todo = {}
    /\ log' = log \cup pass.rows
    /\ pass' = Idle
    /\ UNCHANGED <<now, due, filed, recipients, configured, disturbances>>

Disturb ==
    /\ disturbances < MaxDisturbances
    /\ disturbances' = disturbances + 1

(* The pass fails: the process stops, the database refuses a statement     *)
(* (a lost connection, a deadlock, a user deleted before the row naming    *)
(* him) or the commit.  The loop starts another pass.                      *)
RollBackPass ==
    /\ pass.phase # "idle"
    /\ Disturb
    /\ pass' = Idle
    /\ UNCHANGED <<now, due, filed, recipients, configured, log>>

----------------------------------------------------------------------------
(* The tools and operators beside it.                                      *)

(* record_report_submission *)
File(s) ==
    /\ s \in Obligations \ filed
    /\ Disturb
    /\ filed' = filed \cup {s}
    /\ UNCHANGED <<now, due, recipients, configured, log, pass>>

(* _reanchor of an unsubmitted obligation, set_support_period *)
MoveDue(s, date) ==
    /\ s \notin filed
    /\ date # due[s]
    /\ Disturb
    /\ due' = [due EXCEPT ![s] = date]
    /\ UNCHANGED <<now, filed, recipients, configured, log, pass>>

(* members join, leave, opt in or out *)
ChangeRecipients(new) ==
    /\ new # recipients
    /\ Disturb
    /\ recipients' = new
    /\ UNCHANGED <<now, due, filed, configured, log, pass>>

(* the environment changes only with a restart *)
Reconfigure ==
    /\ pass.phase = "idle"
    /\ Disturb
    /\ configured' = ~configured
    /\ UNCHANGED <<now, due, filed, recipients, log, pass>>

Tick ==
    /\ now + 1 \in Times
    /\ now' = now + 1
    /\ UNCHANGED <<due, filed, recipients, configured, log, pass, disturbances>>

Sweep ==
    \/ StartPass
    \/ \E item \in pass.todo : TakeUp(item)
    \/ \E u \in pass.users, status \in Statuses : Send(u, status)
    \/ StartSupportPeriods
    \/ CommitPass

Next ==
    \/ Sweep
    \/ RollBackPass
    \/ \E s \in Obligations : File(s)
    \/ \E s \in Subjects, date \in Times : MoveDue(s, date)
    \/ \E new \in SUBSET Users : ChangeRecipients(new)
    \/ Reconfigure
    \/ Tick

Spec == Init /\ [][Next]_vars

(* _sweeper_loop outlives any one failure and starts the next pass after   *)
(* its interval.  No outcome of a send is promised, and nobody's action.   *)
FairSpec == Spec /\ WF_vars(Sweep)

----------------------------------------------------------------------------
(* A rung that a committed pass settled, for anyone, is not attempted      *)
(* again: no mail repeats and no suppression row is written every sweep.   *)
SettledRungsRest ==
    [][\A row \in pass'.rows \ pass.rows :
         ~\E old \in log : /\ old.subject = row.subject
                           /\ old.rung = row.rung
                           /\ old.status \in {"sent", "suppressed"}]_vars

(* While a due date stands, the alerts about it only become more urgent,   *)
(* whatever passes failed, were late or overlapped a tool's commit.        *)
AlertsEscalate ==
    [][\A row \in pass'.rows \ pass.rows :
         \A old \in log :
            /\ old.subject = row.subject
            /\ old.due = row.due
            /\ old.status \in {"sent", "suppressed"}
            => row.rung < old.rung]_vars

(* An overdue subject that stays open, on a product with someone to tell,  *)
(* comes to have an overdue row: sent, suppressed or failed, but in the    *)
(* database, also when passes were rolled back on the way.                 *)
OverdueLeavesARow ==
    \A s \in Subjects :
        (now > due[s] /\ s \notin filed) ~>
            \/ \E row \in log : row.subject = s /\ row.rung = Overdue
            \/ s \in filed
            \/ due[s] >= now
            \/ recipients = {}

----------------------------------------------------------------------------
(* What the documentation says of this program and the code does not do.   *)

(* "`pending` and `failed` are deliberately absent ... so both stay        *)
(* eligible": with two recipients, the one whose send succeeded settles    *)
(* the rung for the one whose send failed.                                 *)
FailedStaysEligible ==
    \A row \in log :
        row.status = "failed" =>
            \/ row.rung \notin AlreadySent(row.subject)
            \/ \E later \in log : /\ later.subject = row.subject
                                  /\ later.user = row.user
                                  /\ later.rung = row.rung
                                  /\ later.status \in Settled

(* "Sending a rung retires every gentler rung below it": once the due date *)
(* moves, a gentler rung not yet sent fires after the more urgent one.     *)
SendingRetiresGentlerRungs ==
    [][\A row \in pass'.rows \ pass.rows :
         \A old \in log :
            old.subject = row.subject /\ old.status = "sent" => row.rung <= old.rung]_vars

(* "A product out of support ... needs one unmistakable message": after an *)
(* extension the second end date passes without one, because the rung is   *)
(* remembered per product and not per date.                                *)
EndOfSupportIsTold ==
    \A s \in SupportPeriods :
        (now > due[s]) ~>
            \/ \E row \in log : row.subject = s /\ row.rung = Overdue /\ row.due = due[s]
            \/ due[s] >= now
            \/ recipients = {}
=============================================================================
