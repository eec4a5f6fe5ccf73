------------------------------ MODULE Deadlines ------------------------------
(***************************************************************************)
(* The statutory clocks of Article 14 as src/cra/deadlines.py computes     *)
(* them.  Instants are whole units of elapsed time in UTC; NoTime stands   *)
(* for an absent timestamp.  The windows are parameters: the code's table  *)
(* has 24 h, 72 h and 14 days, the model checker takes smaller numbers in  *)
(* the same order.  "One month" (add_months) is calendar arithmetic, here  *)
(* any function that lands later than its argument.                        *)
(***************************************************************************)
EXTENDS Integers

CONSTANTS
    Times,               \* the instants the system is observed at
    EarlyWarningWindow,  \* OBLIGATION_SCHEDULE: early warning, from awareness
    NotificationWindow,  \* OBLIGATION_SCHEDULE: notification, from awareness
    FinalWindow,         \* OBLIGATION_SCHEDULE: final, from corrective measure
    MonthAfter,          \* add_months(_, 1): final of a severe incident
    DueSoonWindow,       \* DUE_SOON_WINDOW, per stage
    Ladder               \* ESCALATION_LADDER's rungs that fire before the deadline

Kinds == {"actively_exploited_vuln", "severe_incident"}
Stages == {"early_warning", "notification", "final"}
NoTime == -1

ASSUME TimesAssumption == Times \subseteq Nat
ASSUME WindowAssumption ==
    /\ EarlyWarningWindow \in Nat \ {0}
    /\ NotificationWindow \in Nat \ {0}
    /\ FinalWindow \in Nat \ {0}
    /\ EarlyWarningWindow < NotificationWindow
ASSUME MonthAssumption == MonthAfter \in [Times -> Nat]
ASSUME DueSoonAssumption == DueSoonWindow \in [Stages -> Nat]
ASSUME LadderAssumption == DOMAIN Ladder = Stages /\ \A s \in Stages : Ladder[s] \subseteq Nat

(***************************************************************************)
(* schedule_for: the due date of a stage, NoTime while its anchor has not  *)
(* happened.  Only the final report of an exploited vulnerability counts   *)
(* from the corrective measure; everything else counts from awareness.     *)
(***************************************************************************)
OnCorrectiveMeasure(kind, stage) ==
    kind = "actively_exploited_vuln" /\ stage = "final"

DueBeforeAwareness(kind, stage, aware, measure) ==  \* mutant: the offset subtracted
    IF stage = "notification" THEN aware - NotificationWindow ELSE aware
DueAtFor(kind, stage, aware, measure) ==
    CASE stage = "early_warning" -> aware + EarlyWarningWindow
      [] stage = "notification"  -> aware + NotificationWindow
      [] stage = "final" ->
            IF ~OnCorrectiveMeasure(kind, stage) THEN MonthAfter[aware]
            ELSE IF measure = NoTime THEN NoTime
            ELSE measure + FinalWindow

ScheduleFor(kind, aware, measure) ==
    [stage \in Stages |-> DueAtFor(kind, stage, aware, measure)]

(***************************************************************************)
(* obligation_state: derived from the stored facts and the time of the     *)
(* read, never stored itself.  No code path sets waived_reason, so the     *)
(* waived verdict is left out.                                             *)
(***************************************************************************)
ObligationState(stage, due, submitted, now) ==
    IF submitted # NoTime
    THEN IF submitted > due THEN "submitted_late" ELSE "submitted"
    ELSE IF now > due THEN "overdue"
    ELSE IF due - now <= DueSoonWindow[stage] THEN "due_soon"
    ELSE "pending"

(***************************************************************************)
(* A rung is the remaining time it fires at; Overdue is the code's None,   *)
(* and NoRung the answer that nothing is owed.                             *)
(***************************************************************************)
Overdue == -1
NoRung == -2
Rungs(stage) == Ladder[stage] \cup {Overdue}

Crossed(rung, remaining) ==
    IF rung = Overdue THEN remaining < 0 ELSE 0 <= remaining /\ remaining <= rung
=============================================================================
