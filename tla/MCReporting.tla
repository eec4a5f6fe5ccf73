----------------------------- MODULE MCReporting -----------------------------
(* A small instance of Reporting: the windows keep the order of the code's *)
(* 24 h, 72 h, 14 days and one month.                                      *)
EXTENDS Reporting
CONSTANT LastInstant
MCTimes == 0..LastInstant
MCMonthAfter == [t \in MCTimes |-> t + 3]
MCDueSoon == [s \in Stages |-> IF s = "final" THEN 1 ELSE 0]
MCLadder == [s \in Stages |-> {0, 1}]
\* Two incidents share no row, so each behaviour is about one: a
\* vulnerability's, or one that report_incident opened.
OneSubject ==
    \A v \in VulnIds, i \in ReportedIds : ~(vulns[v].recorded /\ incidents[i].open)
=============================================================================
