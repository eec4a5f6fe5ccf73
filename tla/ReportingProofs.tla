--------------------------- MODULE ReportingProofs ---------------------------
(***************************************************************************)
(* What TLAPS proves of module Reporting, for every set of instants, every *)
(* choice of windows and any number of vulnerabilities and incidents.      *)
(*                                                                         *)
(* The properties speak of an incident together with its rows, and every   *)
(* action builds one such pair from another with Materialise, Reschedule   *)
(* or neither.  So the inductive invariant is a predicate of a pair, the   *)
(* lemmas say what the two operators do to a pair, and each action is one  *)
(* application of them.                                                    *)
(***************************************************************************)
EXTENDS Reporting, TLAPS

Incident == [open : BOOLEAN, kind : Kinds, aware : MaybeTime, measure : MaybeTime]
Rows == [Stages -> Row]

DueOf(incident, s) == DueAtFor(incident.kind, s, incident.aware, incident.measure)

(* An open incident has an awareness date, and no anchor lies ahead.       *)
Anchored(incident, t) ==
    /\ incident.open => incident.aware \in Times
    /\ incident.aware <= t
    /\ incident.measure <= t

(* The rows are those of the stages whose clock has started ...            *)
RowsMatch(incident, rows) ==
    \A s \in Stages :
        Exists(rows[s]) <=> incident.open /\ DueOf(incident, s) # NoTime

(* ... and the unfiled ones that count from awareness are due when the     *)
(* schedule says.                                                          *)
RowsExact(incident, rows) ==
    \A s \in Stages :
        /\ Exists(rows[s])
        /\ rows[s].submitted = NoTime
        /\ ~OnCorrectiveMeasure(incident.kind, s)
        => rows[s].due = DueOf(incident, s)

PairInv(incident, rows, t) ==
    Anchored(incident, t) /\ RowsMatch(incident, rows) /\ RowsExact(incident, rows)

(* The inductive invariant.  TypeOK alone is not inductive: that a due     *)
(* date is a number needs an open incident to have an awareness date.      *)
IInv ==
    /\ TypeOK
    /\ \A i \in IncidentIds : PairInv(incidents[i], obligations[i], now)
    /\ \A v \in VulnIds : vulns[v].exploited => incidents[v].open

----------------------------------------------------------------------------
(* schedule_for: a stage has no due date exactly when it waits for the     *)
(* corrective measure.                                                     *)
LEMMA DueDates ==
    ASSUME NEW incident \in Incident, incident.aware \in Times, NEW s \in Stages
    PROVE  /\ DueOf(incident, s) \in Nat \cup {NoTime}
           /\ DueOf(incident, s) = NoTime <=>
                 OnCorrectiveMeasure(incident.kind, s) /\ incident.measure = NoTime
  <1>1. CASE s = "early_warning"
    BY <1>1, TimesAssumption, WindowAssumption
    DEF DueOf, DueAtFor, OnCorrectiveMeasure, Incident, NoTime
  <1>2. CASE s = "notification"
    BY <1>2, TimesAssumption, WindowAssumption
    DEF DueOf, DueAtFor, OnCorrectiveMeasure, Incident, NoTime
  <1>3. CASE s = "final"
    <2>1. MonthAfter[incident.aware] \in Nat
      BY MonthAssumption
    <2>2. incident.measure \in Nat \cup {NoTime}
      BY TimesAssumption DEF Incident, MaybeTime
    <2>3. QED
      BY <1>3, <2>1, <2>2, WindowAssumption
      DEF DueOf, DueAtFor, OnCorrectiveMeasure, NoTime
  <1>4. QED
    BY <1>1, <1>2, <1>3 DEF Stages

(* Materialise completes a pair whose present rows are right.              *)
LEMMA MaterialiseCompletes ==
    ASSUME NEW incident \in Incident, incident.open, incident.aware \in Times,
           NEW rows \in Rows,
           \A s \in Stages : Exists(rows[s]) => DueOf(incident, s) # NoTime,
           RowsExact(incident, rows)
    PROVE  /\ Materialise(rows, incident) \in Rows
           /\ RowsMatch(incident, Materialise(rows, incident))
           /\ RowsExact(incident, Materialise(rows, incident))
  <1> DEFINE m == Materialise(rows, incident)
  <1>1. ASSUME NEW s \in Stages
        PROVE  /\ m[s] = IF Exists(rows[s]) THEN rows[s]
                         ELSE [rows[s] EXCEPT !.due = DueOf(incident, s)]
               /\ m[s] \in Row
    <2>1. m[s] = IF Exists(rows[s]) THEN rows[s]
                 ELSE [rows[s] EXCEPT !.due = DueOf(incident, s)]
      BY DEF Materialise, ScheduleFor, DueOf
    <2>2. rows[s] \in Row
      BY DEF Rows
    <2>3. DueOf(incident, s) \in Nat \cup {NoTime}
      BY DueDates
    <2>4. QED
      BY <2>1, <2>2, <2>3 DEF Row
  <1>2. m \in Rows
    BY <1>1 DEF Materialise, Rows
  <1>3. ASSUME NEW s \in Stages
        PROVE  /\ Exists(m[s]) <=> DueOf(incident, s) # NoTime
               /\ ~Exists(rows[s]) => m[s].due = DueOf(incident, s)
    <2>1. rows[s] \in Row
      BY DEF Rows
    <2>2. CASE Exists(rows[s])
      BY <1>1, <2>2
    <2>3. CASE ~Exists(rows[s])
      BY <1>1, <2>1, <2>3 DEF Exists, Row
    <2>4. QED
      BY <2>2, <2>3
  <1>4. RowsMatch(incident, m)
    BY <1>3 DEF RowsMatch
  <1>5. RowsExact(incident, m)
    BY <1>1, <1>3 DEF RowsExact
  <1>6. QED
    BY <1>2, <1>4, <1>5

(* Reschedule makes a pair right again after the awareness date moved.     *)
LEMMA RescheduleFollows ==
    ASSUME NEW incident \in Incident, incident.open, incident.aware \in Times,
           NEW aware \in Times, NEW rows \in Rows, RowsMatch(incident, rows)
    PROVE  LET moved == [incident EXCEPT !.aware = aware]
           IN  /\ Reschedule(rows, moved) \in Rows
               /\ RowsMatch(moved, Reschedule(rows, moved))
               /\ RowsExact(moved, Reschedule(rows, moved))
  <1> DEFINE moved == [incident EXCEPT !.aware = aware]
             r == Reschedule(rows, moved)
  <1>1. /\ moved \in Incident
        /\ moved.open
        /\ moved.aware = aware
        /\ moved.kind = incident.kind
        /\ moved.measure = incident.measure
    BY DEF Incident, MaybeTime
  <1>2. ASSUME NEW s \in Stages
        PROVE  /\ DueOf(moved, s) \in Nat \cup {NoTime}
               /\ DueOf(moved, s) = NoTime <=> DueOf(incident, s) = NoTime
               /\ ~OnCorrectiveMeasure(moved.kind, s) => DueOf(moved, s) # NoTime
    <2>1. /\ DueOf(moved, s) \in Nat \cup {NoTime}
          /\ DueOf(moved, s) = NoTime <=>
                OnCorrectiveMeasure(moved.kind, s) /\ moved.measure = NoTime
      BY <1>1, DueDates
    <2>2. DueOf(incident, s) = NoTime <=>
             OnCorrectiveMeasure(incident.kind, s) /\ incident.measure = NoTime
      BY DueDates
    <2>3. QED
      BY <1>1, <2>1, <2>2
  <1>3. ASSUME NEW s \in Stages
        PROVE  r[s] = IF /\ Exists(rows[s])
                         /\ rows[s].submitted = NoTime
                         /\ DueOf(moved, s) # NoTime
                      THEN [rows[s] EXCEPT !.due = DueOf(moved, s)]
                      ELSE rows[s]
    BY DEF Reschedule, ScheduleFor, DueOf
  <1>4. ASSUME NEW s \in Stages
        PROVE  /\ r[s] \in Row
               /\ Exists(r[s]) <=> Exists(rows[s])
               /\ r[s].submitted = rows[s].submitted
               /\ Exists(rows[s]) /\ rows[s].submitted = NoTime /\ DueOf(moved, s) # NoTime
                  => r[s].due = DueOf(moved, s)
    <2>1. rows[s] \in Row
      BY DEF Rows
    <2>2. QED
      BY <1>2, <1>3, <2>1 DEF Exists, Row
  <1>5. r \in Rows
    BY <1>4 DEF Reschedule, Rows
  <1>6. RowsMatch(moved, r)
    BY <1>1, <1>2, <1>4 DEF RowsMatch
  <1>7. RowsExact(moved, r)
    BY <1>2, <1>4 DEF RowsExact
  <1>8. QED
    BY <1>5, <1>6, <1>7

(* The two anchors an action may take from its caller.                     *)
LEMMA AnchorIsPast ==
    ASSUME now \in Times, NEW t \in MaybeTime, Happened(t)
    PROVE  /\ OrNow(t) \in Times
           /\ OrNow(t) <= now
    BY TimesAssumption DEF MaybeTime, NoTime, Happened, OrNow

(* An instant or its absence is a number, so that dates can be compared.   *)
LEMMA TimesAreNumbers ==
    ASSUME NEW t \in MaybeTime
    PROVE  t \in Int
  <1>1. CASE t \in Times
    BY <1>1, TimesAssumption
  <1>2. CASE t = NoTime
    BY <1>2 DEF NoTime
  <1>3. QED
    BY <1>1, <1>2 DEF MaybeTime

(* A pair that is right now stays right as the clock moves on.             *)
LEMMA PairLasts ==
    ASSUME now \in Times, NEW later \in Times, now <= later,
           NEW incident \in Incident, NEW rows \in Rows, PairInv(incident, rows, now)
    PROVE  PairInv(incident, rows, later)
  <1>1. incident.aware \in Int /\ incident.measure \in Int
    <2>1. incident.aware \in MaybeTime /\ incident.measure \in MaybeTime
      BY DEF Incident
    <2>2. QED
      BY <2>1, TimesAreNumbers
  <1>2. Anchored(incident, later)
    <2>1. now \in Int /\ later \in Int
      BY TimesAssumption
    <2>2. QED
      BY <1>1, <2>1 DEF PairInv, Anchored
  <1>3. QED
    BY <1>2 DEF PairInv

(* An incident just opened, by _cascade or report_incident.                *)
LEMMA OpenedPair ==
    ASSUME now \in Times, NEW kind \in Kinds, NEW aware \in Times, aware <= now,
           NEW old \in Incident, ~old.open, NEW rows \in Rows, RowsMatch(old, rows)
    PROVE  LET opened == [open |-> TRUE, kind |-> kind, aware |-> aware, measure |-> NoTime]
           IN  /\ opened \in Incident
               /\ Materialise(rows, opened) \in Rows
               /\ PairInv(opened, Materialise(rows, opened), now)
  <1> DEFINE opened == [open |-> TRUE, kind |-> kind, aware |-> aware, measure |-> NoTime]
  <1>1. /\ opened \in Incident
        /\ opened.open
        /\ opened.aware \in Times
    BY DEF Incident, MaybeTime
  <1>2. Anchored(opened, now)
    BY TimesAssumption DEF Anchored, NoTime
  <1>3. \A s \in Stages : ~Exists(rows[s])
    BY DEF RowsMatch
  <1>4. RowsExact(opened, rows)
    BY <1>3 DEF RowsExact
  <1>5. /\ Materialise(rows, opened) \in Rows
        /\ RowsMatch(opened, Materialise(rows, opened))
        /\ RowsExact(opened, Materialise(rows, opened))
    <2> HIDE DEF opened
    <2>1. QED
      BY <1>1, <1>3, <1>4, MaterialiseCompletes
  <1>6. QED
    BY <1>1, <1>2, <1>5 DEF PairInv

(* The corrective measure of an open incident, recorded or corrected.      *)
LEMMA MeasuredPair ==
    ASSUME now \in Times, NEW old \in Incident, old.open, NEW rows \in Rows,
           PairInv(old, rows, now), NEW measure \in Times, measure <= now
    PROVE  LET measured == [old EXCEPT !.measure = measure]
           IN  /\ measured \in Incident
               /\ Materialise(rows, measured) \in Rows
               /\ PairInv(measured, Materialise(rows, measured), now)
  <1> DEFINE measured == [old EXCEPT !.measure = measure]
  <1>1. /\ measured \in Incident
        /\ measured.open
        /\ measured.kind = old.kind
        /\ measured.aware = old.aware
        /\ measured.measure = measure
    BY DEF Incident, MaybeTime
  <1>2. old.aware \in Times
    BY DEF PairInv, Anchored
  <1>3. Anchored(measured, now)
    BY <1>1, <1>2 DEF PairInv, Anchored
  <1> HIDE DEF measured
  <1>4. ASSUME NEW s \in Stages
        PROVE  /\ DueOf(measured, s) # NoTime
               /\ ~OnCorrectiveMeasure(old.kind, s) => DueOf(measured, s) = DueOf(old, s)
    <2>1. measure # NoTime
      BY TimesAssumption DEF NoTime
    <2>2. DueOf(measured, s) # NoTime
      BY <1>1, <1>2, <2>1, DueDates
    <2>3. ~OnCorrectiveMeasure(old.kind, s) => DueOf(measured, s) = DueOf(old, s)
      BY <1>1 DEF DueOf, DueAtFor
    <2>4. QED
      BY <2>2, <2>3
  <1>5. RowsExact(measured, rows)
    BY <1>1, <1>4 DEF PairInv, RowsExact
  <1>6. /\ Materialise(rows, measured) \in Rows
        /\ RowsMatch(measured, Materialise(rows, measured))
        /\ RowsExact(measured, Materialise(rows, measured))
    BY <1>1, <1>2, <1>4, <1>5, MaterialiseCompletes
  <1>7. QED
    BY <1>1, <1>3, <1>6 DEF PairInv, measured

(* The awareness date of an open incident moved to another past date.      *)
LEMMA MovedPair ==
    ASSUME now \in Times, NEW old \in Incident, old.open, NEW rows \in Rows,
           PairInv(old, rows, now), NEW aware \in Times, aware <= now
    PROVE  LET moved == [old EXCEPT !.aware = aware]
           IN  /\ moved \in Incident
               /\ Reschedule(rows, moved) \in Rows
               /\ PairInv(moved, Reschedule(rows, moved), now)
  <1> DEFINE moved == [old EXCEPT !.aware = aware]
  <1>1. moved \in Incident
    BY DEF Incident, MaybeTime
  <1>2. Anchored(moved, now)
    BY DEF PairInv, Anchored, Incident
  <1>3. old.aware \in Times /\ RowsMatch(old, rows)
    BY DEF PairInv, Anchored
  <1>4. /\ Reschedule(rows, moved) \in Rows
        /\ RowsMatch(moved, Reschedule(rows, moved))
        /\ RowsExact(moved, Reschedule(rows, moved))
    BY <1>3, RescheduleFollows
  <1>5. QED
    BY <1>1, <1>2, <1>4 DEF PairInv

(* IInv' from what an action leaves of each pair: the new pair of the      *)
(* incident it writes, the rest as it was.                                 *)
LEMMA OnePairChanges ==
    ASSUME IInv, now' = now, NEW i \in IncidentIds,
           NEW incident \in Incident, NEW rows \in Rows, PairInv(incident, rows, now),
           incidents' = [incidents EXCEPT ![i] = incident],
           obligations' = [obligations EXCEPT ![i] = rows]
    PROVE  /\ incidents' \in [IncidentIds -> Incident]
           /\ obligations' \in [IncidentIds -> Rows]
           /\ \A j \in IncidentIds : PairInv(incidents'[j], obligations'[j], now')
  <1>1. incidents \in [IncidentIds -> Incident] /\ obligations \in [IncidentIds -> Rows]
    BY DEF IInv, TypeOK, Incident, Rows
  <1>2. \A j \in IncidentIds : PairInv(incidents[j], obligations[j], now)
    BY DEF IInv
  <1>3. QED
    BY <1>1, <1>2

----------------------------------------------------------------------------
(* One lemma for each action of Next.                                      *)

(* record_vulnerability opens at most one incident, whole, or none.        *)
LEMMA RecordKeeps ==
    ASSUME IInv, NEW v \in VulnIds, NEW exploited \in BOOLEAN, NEW aware \in MaybeTime,
           RecordVulnerability(v, exploited, aware)
    PROVE  IInv'
  <1> DEFINE anchor == OrNow(aware)
             opened == Cascade(incidents[v], anchor)
             rows == Materialise(obligations[v], opened)
  <1>1. /\ now \in Times
        /\ vulns \in [VulnIds -> [recorded : BOOLEAN, exploited : BOOLEAN,
                                  determined : MaybeTime]]
        /\ trail \in [IncidentIds -> [aware : MaybeTime, measure : MaybeTime]]
        /\ incidents[v] \in Incident
        /\ obligations[v] \in Rows
        /\ v \in IncidentIds
        /\ PairInv(incidents[v], obligations[v], now)
    BY DEF IInv, TypeOK, IncidentIds, Incident, Rows
  <1>2. anchor \in Times /\ anchor <= now /\ anchor \in MaybeTime
    BY <1>1, AnchorIsPast DEF RecordVulnerability, MaybeTime
  <1>3. now' = now
    BY DEF RecordVulnerability
  <1>4. vulns' \in [VulnIds -> [recorded : BOOLEAN, exploited : BOOLEAN,
                                determined : MaybeTime]]
    BY <1>1, <1>2 DEF RecordVulnerability, MaybeTime
  <1>5. \A w \in VulnIds : vulns'[w].exploited = IF w = v THEN exploited
                                                 ELSE vulns[w].exploited
    BY <1>1 DEF RecordVulnerability
  <1>6. CASE ~exploited
    <2>1. UNCHANGED <<incidents, obligations, trail>>
      BY <1>6 DEF RecordVulnerability
    <2>2. QED
      BY <1>3, <1>4, <1>5, <1>6, <2>1 DEF IInv, TypeOK
  <1>7. CASE exploited
    <2>1. opened \in Incident /\ rows \in Rows /\ PairInv(opened, rows, now) /\ opened.open
      <3>1. CASE incidents[v].open
        <4>1. opened = incidents[v]
          BY <3>1 DEF Cascade
        <4>2. /\ incidents[v].aware \in Times
              /\ \A s \in Stages : Exists(obligations[v][s]) => DueOf(incidents[v], s) # NoTime
              /\ RowsExact(incidents[v], obligations[v])
          BY <1>1, <3>1 DEF PairInv, Anchored, RowsMatch
        <4>3. /\ rows \in Rows
              /\ RowsMatch(incidents[v], rows)
              /\ RowsExact(incidents[v], rows)
          BY <1>1, <3>1, <4>1, <4>2, MaterialiseCompletes
        <4>4. QED
          BY <1>1, <3>1, <4>1, <4>3 DEF PairInv
      <3>2. CASE ~incidents[v].open
        <4>1. opened = [open |-> TRUE, kind |-> "actively_exploited_vuln",
                        aware |-> anchor, measure |-> NoTime]
          BY <3>2 DEF Cascade
        <4>2. "actively_exploited_vuln" \in Kinds
          BY DEF Kinds
        <4>3. opened \in Incident /\ rows \in Rows /\ PairInv(opened, rows, now)
          BY <1>1, <1>2, <3>2, <4>1, <4>2, OpenedPair DEF PairInv
        <4>4. QED
          BY <4>1, <4>3
      <3>3. QED
        BY <3>1, <3>2
    <2> HIDE DEF anchor, opened, rows
    <2>2. /\ incidents' = [incidents EXCEPT ![v] = opened]
          /\ obligations' = [obligations EXCEPT ![v] = rows]
          /\ trail' = [trail EXCEPT ![v].aware = anchor]
      BY <1>7 DEF RecordVulnerability, anchor, opened, rows
    <2>3. /\ incidents' \in [IncidentIds -> Incident]
          /\ obligations' \in [IncidentIds -> Rows]
          /\ \A j \in IncidentIds : PairInv(incidents'[j], obligations'[j], now')
      BY <1>1, <1>3, <2>1, <2>2, OnePairChanges
    <2>4. trail' \in [IncidentIds -> [aware : MaybeTime, measure : MaybeTime]]
      BY <1>1, <1>2, <2>2
    <2>5. TypeOK'
      BY <1>1, <1>3, <1>4, <2>3, <2>4 DEF TypeOK, Incident, Rows
    <2>6. \A w \in VulnIds : vulns'[w].exploited => incidents'[w].open
      BY <1>5, <2>1, <2>2 DEF IInv, TypeOK, IncidentIds
    <2>7. QED
      BY <2>3, <2>5, <2>6 DEF IInv
  <1>8. QED
    BY <1>6, <1>7

(* update_vulnerability up to the corrective measure.                      *)
LEMMA AwarenessKeepsPair ==
    ASSUME IInv, NEW v \in VulnIds, NEW mark \in Marks, NEW aware \in MaybeTime,
           Happened(aware),
           aware # NoTime /\ ~NewlyExploited(v, mark) => incidents[v].open
    PROVE  LET anchored == AfterAwareness(v, mark, aware)
               rows     == RowsAfterAwareness(v, mark, aware)
           IN  /\ anchored \in Incident
               /\ rows \in Rows
               /\ PairInv(anchored, rows, now)
               /\ NewlyExploited(v, mark) \/ incidents[v].open => anchored.open
  <1>1. /\ now \in Times
        /\ incidents[v] \in Incident
        /\ obligations[v] \in Rows
        /\ PairInv(incidents[v], obligations[v], now)
    BY DEF IInv, TypeOK, IncidentIds, Incident, Rows
  <1>2. OrNow(aware) \in Times /\ OrNow(aware) <= now
    BY <1>1, AnchorIsPast
  <1>3. CASE NewlyExploited(v, mark) /\ ~incidents[v].open
    <2> DEFINE opened == [open |-> TRUE, kind |-> "actively_exploited_vuln",
                          aware |-> OrNow(aware), measure |-> NoTime]
    <2>1. /\ AfterAwareness(v, mark, aware) = opened
          /\ RowsAfterAwareness(v, mark, aware) = Materialise(obligations[v], opened)
      BY <1>3 DEF AfterAwareness, RowsAfterAwareness, Cascade
    <2>2. "actively_exploited_vuln" \in Kinds
      BY DEF Kinds
    <2>3. /\ opened \in Incident
          /\ Materialise(obligations[v], opened) \in Rows
          /\ PairInv(opened, Materialise(obligations[v], opened), now)
      BY <1>1, <1>2, <1>3, <2>2, OpenedPair DEF PairInv
    <2>4. QED
      BY <2>1, <2>3
  <1>4. CASE NewlyExploited(v, mark) /\ incidents[v].open
    BY <1>1, <1>4 DEF AfterAwareness, RowsAfterAwareness, Cascade, Reanchors
  <1>5. CASE ~NewlyExploited(v, mark) /\ Reanchors(v, mark, aware)
    <2> DEFINE moved == [incidents[v] EXCEPT !.aware = aware]
    <2>1. /\ AfterAwareness(v, mark, aware) = moved
          /\ RowsAfterAwareness(v, mark, aware) = Reschedule(obligations[v], moved)
      BY <1>5 DEF AfterAwareness, RowsAfterAwareness
    <2>2. aware \in Times /\ aware <= now /\ incidents[v].open
      BY <1>5 DEF Reanchors, MaybeTime, Happened
    <2>3. /\ moved \in Incident
          /\ Reschedule(obligations[v], moved) \in Rows
          /\ PairInv(moved, Reschedule(obligations[v], moved), now)
      BY <1>1, <2>2, MovedPair
    <2>4. moved.open
      BY <1>1, <2>2 DEF Incident
    <2>5. QED
      BY <1>5, <2>1, <2>3, <2>4
  <1>6. CASE ~NewlyExploited(v, mark) /\ ~Reanchors(v, mark, aware)
    BY <1>1, <1>6 DEF AfterAwareness, RowsAfterAwareness
  <1>7. QED
    BY <1>3, <1>4, <1>5, <1>6

(* update_vulnerability: the awareness date moves first, the measure after. *)
LEMMA UpdateKeeps ==
    ASSUME IInv, NEW v \in VulnIds, NEW mark \in Marks,
           NEW aware \in MaybeTime, NEW measure \in MaybeTime,
           UpdateVulnerability(v, mark, aware, measure)
    PROVE  IInv'
  <1> DEFINE anchored == AfterAwareness(v, mark, aware)
             rows     == RowsAfterAwareness(v, mark, aware)
             measured == [anchored EXCEPT !.measure = measure]
             completed == Materialise(rows, measured)
  <1>1. /\ now \in Times
        /\ vulns \in [VulnIds -> [recorded : BOOLEAN, exploited : BOOLEAN,
                                  determined : MaybeTime]]
        /\ trail \in [IncidentIds -> [aware : MaybeTime, measure : MaybeTime]]
        /\ v \in IncidentIds
    BY DEF IInv, TypeOK, IncidentIds
  <1>2. /\ Happened(aware)
        /\ Happened(measure)
        /\ aware # NoTime /\ ~NewlyExploited(v, mark) => incidents[v].open
        /\ measure # NoTime => anchored.open
        /\ now' = now
    BY DEF UpdateVulnerability
  <1>3. /\ anchored \in Incident
        /\ rows \in Rows
        /\ PairInv(anchored, rows, now)
        /\ NewlyExploited(v, mark) \/ incidents[v].open => anchored.open
    BY <1>2, AwarenessKeepsPair
  <1>4. OrNow(aware) \in MaybeTime
    BY <1>1, <1>2, AnchorIsPast DEF MaybeTime
  <1>5. vulns' \in [VulnIds -> [recorded : BOOLEAN, exploited : BOOLEAN,
                                determined : MaybeTime]]
    <2> DEFINE marked == IF mark = "omitted" THEN vulns[v].exploited ELSE mark = "yes"
               dated == IF NewlyExploited(v, mark) THEN OrNow(aware)
                        ELSE IF Reanchors(v, mark, aware) THEN aware
                        ELSE vulns[v].determined
               Vuln == [recorded : BOOLEAN, exploited : BOOLEAN, determined : MaybeTime]
    <2>1. vulns' = [vulns EXCEPT ![v].exploited = marked, ![v].determined = dated]
      BY DEF UpdateVulnerability
    <2>2. marked \in BOOLEAN
      BY <1>1
    <2>3. dated \in MaybeTime
      BY <1>1, <1>4
    <2> HIDE DEF marked, dated
    <2>4. [vulns[v] EXCEPT !.exploited = marked, !.determined = dated] \in Vuln
      BY <1>1, <2>2, <2>3
    <2>5. QED
      BY <1>1, <2>1, <2>4
  <1>6. \A w \in VulnIds :
           vulns'[w].exploited => vulns[w].exploited \/ (w = v /\ NewlyExploited(v, mark))
    <2>1. ASSUME NEW w \in VulnIds, w # v PROVE vulns'[w] = vulns[w]
      BY <1>1, <2>1 DEF UpdateVulnerability
    <2>2. vulns'[v].exploited => vulns[v].exploited \/ mark = "yes"
      BY <1>1 DEF UpdateVulnerability
    <2>3. QED
      BY <2>1, <2>2 DEF NewlyExploited
  <1>7. trail' \in [IncidentIds -> [aware : MaybeTime, measure : MaybeTime]]
    <2> DEFINE told == IF Reanchors(v, mark, aware) THEN aware ELSE trail[v].aware
               measuredAt == IF measure = NoTime THEN trail[v].measure ELSE measure
               Stated == [aware : MaybeTime, measure : MaybeTime]
    <2>1. trail' = [trail EXCEPT ![v].aware = told, ![v].measure = measuredAt]
      BY DEF UpdateVulnerability
    <2>2. told \in MaybeTime /\ measuredAt \in MaybeTime
      BY <1>1
    <2> HIDE DEF told, measuredAt
    <2>3. [trail[v] EXCEPT !.aware = told, !.measure = measuredAt] \in Stated
      BY <1>1, <2>2
    <2>4. QED
      BY <1>1, <2>1, <2>3
  <1>8. PICK incident \in Incident, after \in Rows :
           /\ PairInv(incident, after, now)
           /\ incident.open = anchored.open
           /\ incidents' = [incidents EXCEPT ![v] = incident]
           /\ obligations' = [obligations EXCEPT ![v] = after]
    <2>1. CASE measure = NoTime
      <3>1. /\ incidents' = [incidents EXCEPT ![v] = anchored]
            /\ obligations' = [obligations EXCEPT ![v] = rows]
        BY <2>1 DEF UpdateVulnerability
      <3>2. QED
        BY <1>3, <3>1
    <2>2. CASE measure # NoTime
      <3>1. /\ incidents' = [incidents EXCEPT ![v] = measured]
            /\ obligations' = [obligations EXCEPT ![v] = completed]
        BY <2>2 DEF UpdateVulnerability
      <3>2. measure \in Times /\ measure <= now /\ anchored.open
        BY <1>2, <2>2 DEF MaybeTime, Happened
      <3> HIDE DEF anchored, rows
      <3>3. measured \in Incident /\ completed \in Rows /\ PairInv(measured, completed, now)
        BY <1>1, <1>3, <3>2, MeasuredPair
      <3>4. measured.open = anchored.open
        BY <1>3 DEF Incident
      <3>5. QED
        BY <3>1, <3>3, <3>4
    <2>3. QED
      BY <2>1, <2>2
  <1> HIDE DEF anchored, rows
  <1>9. /\ incidents' \in [IncidentIds -> Incident]
        /\ obligations' \in [IncidentIds -> Rows]
        /\ \A j \in IncidentIds : PairInv(incidents'[j], obligations'[j], now')
    BY <1>1, <1>2, <1>8, OnePairChanges
  <1>10. TypeOK'
    BY <1>1, <1>2, <1>5, <1>7, <1>9 DEF TypeOK, Incident, Rows
  <1>11. \A w \in VulnIds : vulns'[w].exploited => incidents'[w].open
    <2>1. incidents \in [IncidentIds -> Incident]
      BY DEF IInv, TypeOK, Incident
    <2>2. ASSUME NEW w \in VulnIds, incidents[w].open PROVE incidents'[w].open
      <3>1. CASE w = v
        BY <1>1, <1>3, <1>8, <2>1, <2>2, <3>1
      <3>2. CASE w # v
        BY <1>8, <2>1, <2>2, <3>2 DEF IncidentIds
      <3>3. QED
        BY <3>1, <3>2
    <2>3. incidents'[v].open = anchored.open
      BY <1>1, <1>8, <2>1
    <2>4. QED
      BY <1>3, <1>6, <2>2, <2>3 DEF IInv
  <1>12. QED
    BY <1>9, <1>10, <1>11 DEF IInv

(* report_incident opens an incident with its three pairs of rows.         *)
LEMMA ReportKeeps ==
    ASSUME IInv, NEW i \in ReportedIds, NEW kind \in Kinds, NEW aware \in MaybeTime,
           ReportIncident(i, kind, aware)
    PROVE  IInv'
  <1> DEFINE incident == [open |-> TRUE, kind |-> kind,
                          aware |-> OrNow(aware), measure |-> NoTime]
             rows == Materialise(obligations[i], incident)
  <1>1. /\ now \in Times
        /\ trail \in [IncidentIds -> [aware : MaybeTime, measure : MaybeTime]]
        /\ incidents[i] \in Incident
        /\ obligations[i] \in Rows
        /\ i \in IncidentIds
        /\ RowsMatch(incidents[i], obligations[i])
    BY DEF IInv, TypeOK, IncidentIds, Incident, Rows, PairInv
  <1>2. OrNow(aware) \in Times /\ OrNow(aware) <= now
    BY <1>1, AnchorIsPast DEF ReportIncident
  <1>3. /\ ~incidents[i].open
        /\ now' = now
        /\ vulns' = vulns
        /\ incidents' = [incidents EXCEPT ![i] = incident]
        /\ obligations' = [obligations EXCEPT ![i] = rows]
        /\ trail' = [trail EXCEPT ![i].aware = incident.aware]
    BY DEF ReportIncident
  <1>4. incident \in Incident /\ rows \in Rows /\ PairInv(incident, rows, now)
    BY <1>1, <1>2, <1>3, OpenedPair
  <1>5. trail' \in [IncidentIds -> [aware : MaybeTime, measure : MaybeTime]]
    BY <1>1, <1>2, <1>3 DEF MaybeTime
  <1>6. incident.open
    OBVIOUS
  <1> HIDE DEF incident, rows
  <1>7. /\ incidents' \in [IncidentIds -> Incident]
        /\ obligations' \in [IncidentIds -> Rows]
        /\ \A j \in IncidentIds : PairInv(incidents'[j], obligations'[j], now')
    BY <1>1, <1>3, <1>4, OnePairChanges
  <1>8. TypeOK'
    BY <1>3, <1>5, <1>7 DEF IInv, TypeOK, Incident, Rows
  <1>9. \A w \in VulnIds : vulns'[w].exploited => incidents'[w].open
    BY <1>3, <1>6 DEF IInv, TypeOK, IncidentIds
  <1>10. QED
    BY <1>7, <1>8, <1>9 DEF IInv

(* record_report_submission writes the filing of a row and nothing else.    *)
LEMMA SubmissionKeeps ==
    ASSUME IInv, NEW i \in IncidentIds, NEW s \in Stages, NEW submitted \in MaybeTime,
           RecordReportSubmission(i, s, submitted)
    PROVE  IInv'
  <1> DEFINE at == OrNow(submitted)
             filed == [obligations[i][s] EXCEPT !.submitted = at]
             rows == [obligations[i] EXCEPT ![s] = filed]
  <1>1. /\ now \in Times
        /\ incidents \in [IncidentIds -> Incident]
        /\ obligations \in [IncidentIds -> Rows]
        /\ obligations[i] \in Rows
        /\ PairInv(incidents[i], obligations[i], now)
    BY DEF IInv, TypeOK, Incident, Rows
  <1>2. at \in Times
    BY <1>1 DEF OrNow, MaybeTime
  <1>3. at # NoTime
    BY <1>2, TimesAssumption DEF NoTime
  <1>4. /\ Exists(obligations[i][s])
        /\ UNCHANGED <<now, vulns, incidents, trail>>
        /\ obligations' = [obligations EXCEPT ![i] = rows]
    BY <1>1 DEF RecordReportSubmission, Rows
  <1>5. obligations[i][s] \in Row
    BY <1>1 DEF Rows
  <1>6. /\ filed \in Row
        /\ filed.due = obligations[i][s].due
        /\ filed.submitted = at
    BY <1>2, <1>5 DEF Row, MaybeTime
  <1> HIDE DEF at, filed
  <1>7. /\ rows \in Rows
        /\ rows[s] = filed
        /\ \A other \in Stages \ {s} : rows[other] = obligations[i][other]
    BY <1>1, <1>6 DEF Rows
  <1> HIDE DEF rows
  <1>8. RowsMatch(incidents[i], rows)
    BY <1>1, <1>6, <1>7 DEF PairInv, RowsMatch, Exists
  <1>9. RowsExact(incidents[i], rows)
    BY <1>1, <1>3, <1>6, <1>7 DEF PairInv, RowsExact, Exists
  <1>10. PairInv(incidents[i], rows, now)
    BY <1>1, <1>8, <1>9 DEF PairInv
  <1>11. incidents' = [incidents EXCEPT ![i] = incidents[i]]
    BY <1>1, <1>4
  <1>12. /\ incidents' \in [IncidentIds -> Incident]
         /\ obligations' \in [IncidentIds -> Rows]
         /\ \A j \in IncidentIds : PairInv(incidents'[j], obligations'[j], now')
    BY <1>1, <1>4, <1>7, <1>10, <1>11, OnePairChanges
  <1>13. TypeOK'
    BY <1>4, <1>12 DEF IInv, TypeOK, Incident, Rows
  <1>14. QED
    BY <1>4, <1>12, <1>13 DEF IInv

(* The clock alone disturbs nothing.                                       *)
LEMMA TickKeeps ==
    ASSUME IInv, Tick
    PROVE  IInv'
  <1>1. /\ now \in Times /\ now' \in Times /\ now <= now'
        /\ UNCHANGED <<vulns, incidents, obligations, trail>>
    BY TimesAssumption DEF Tick, IInv, TypeOK
  <1>2. TypeOK'
    BY <1>1 DEF IInv, TypeOK
  <1>3. ASSUME NEW i \in IncidentIds
        PROVE  PairInv(incidents'[i], obligations'[i], now')
    <2>1. /\ incidents[i] \in Incident
          /\ obligations[i] \in Rows
          /\ PairInv(incidents[i], obligations[i], now)
      BY DEF IInv, TypeOK, Incident, Rows
    <2>2. PairInv(incidents[i], obligations[i], now')
      BY <1>1, <2>1, PairLasts
    <2>3. QED
      BY <1>1, <2>2
  <1>4. QED
    BY <1>1, <1>2, <1>3 DEF IInv

----------------------------------------------------------------------------
(* Before the first call there is nothing to be right about.               *)
LEMMA InitIInv == Init => IInv
  <1> SUFFICES ASSUME Init PROVE IInv
    OBVIOUS
  <1>1. "actively_exploited_vuln" \in Kinds /\ NoTime \in MaybeTime
    BY DEF Kinds, MaybeTime
  <1>2. TypeOK
    BY <1>1 DEF Init, TypeOK, NoRow, Row
  <1>3. ASSUME NEW i \in IncidentIds
        PROVE  PairInv(incidents[i], obligations[i], now)
    <2>1. Anchored(incidents[i], now)
      BY TimesAssumption DEF Init, Anchored, NoTime
    <2>2. \A s \in Stages : ~Exists(obligations[i][s])
      BY DEF Init, NoRow, Exists
    <2>3. ~incidents[i].open
      BY DEF Init
    <2>4. QED
      BY <2>1, <2>2, <2>3 DEF PairInv, RowsMatch, RowsExact
  <1>4. QED
    BY <1>2, <1>3 DEF IInv, Init

(* Every step keeps the strengthened invariant.                            *)
LEMMA NextIInv == IInv /\ [Next]_vars => IInv'
  <1> SUFFICES ASSUME IInv, [Next]_vars PROVE IInv'
    OBVIOUS
  <1>1. ASSUME NEW v \in VulnIds, NEW exploited \in BOOLEAN, NEW aware \in MaybeTime,
               RecordVulnerability(v, exploited, aware)
        PROVE  IInv'
    BY <1>1, RecordKeeps
  <1>2. ASSUME NEW v \in VulnIds, NEW mark \in Marks, NEW aware \in MaybeTime,
               NEW measure \in MaybeTime, UpdateVulnerability(v, mark, aware, measure)
        PROVE  IInv'
    BY <1>2, UpdateKeeps
  <1>3. ASSUME NEW i \in ReportedIds, NEW kind \in Kinds, NEW aware \in MaybeTime,
               ReportIncident(i, kind, aware)
        PROVE  IInv'
    BY <1>3, ReportKeeps
  <1>4. ASSUME NEW i \in IncidentIds, NEW s \in Stages, NEW submitted \in MaybeTime,
               RecordReportSubmission(i, s, submitted)
        PROVE  IInv'
    BY <1>4, SubmissionKeeps
  <1>5. CASE Tick
    BY <1>5, TickKeeps
  <1>6. CASE UNCHANGED vars
    BY <1>6 DEF vars, IInv, TypeOK
  <1>7. QED
    BY <1>1, <1>2, <1>3, <1>4, <1>5, <1>6 DEF Next

(* The strengthened invariant holds of every reachable state: every open   *)
(* incident has exactly the rows its dates call for, due when its dates    *)
(* say, and every exploited vulnerability has its incident.                *)
THEOREM Inductive == Spec => []IInv
  BY InitIInv, NextIInv, PTL DEF Spec

(* Every reachable state is well typed; in particular every due date that  *)
(* _materialise_obligations or _reanchor stores is a date.                 *)
THEOREM TypeCorrect == Spec => []TypeOK
  <1>1. IInv => TypeOK
    BY DEF IInv
  <1>2. QED
    BY <1>1, Inductive, PTL

(* No clock that the law has started is missing and none runs that has not *)
(* started, whatever sequence of the five tools was called.                *)
THEOREM ClocksAreRunning == Spec => []ClocksRun
  <1>1. IInv => ClocksRun
    BY DEF IInv, ClocksRun, PairInv, RowsMatch, DueOf
  <1>2. QED
    BY <1>1, Inductive, PTL

(* However often an awareness date is corrected, the unfiled reports that  *)
(* count from it are due exactly their windows after it.                   *)
THEOREM ClocksAreExact == Spec => []AwarenessClocksExact
  <1>1. IInv => AwarenessClocksExact
    BY DEF IInv, AwarenessClocksExact, PairInv, RowsExact, DueOf
  <1>2. QED
    BY <1>1, Inductive, PTL

(* No clock counts from an event that has not taken place.                 *)
THEOREM AnchorsArePast == Spec => []AnchorsHappened
  <1>1. IInv => AnchorsHappened
    BY DEF IInv, AnchorsHappened, PairInv, Anchored
  <1>2. QED
    BY <1>1, Inductive, PTL

----------------------------------------------------------------------------
(* What a step may do to the rows of one incident: a filed row stays as it *)
(* is, and only a row that exists is filed.                                *)
Kept(old, new) ==
    \A s \in Stages :
        /\ Exists(old[s]) /\ old[s].submitted # NoTime => new[s] = old[s]
        /\ Exists(old[s]) => Exists(new[s])
        /\ new[s].submitted # NoTime => old[s].submitted # NoTime \/ Exists(new[s])

(* _materialise_obligations adds rows and changes none.                    *)
LEMMA MaterialiseKeepsFiled ==
    ASSUME NEW incident, NEW rows \in Rows
    PROVE  Kept(rows, Materialise(rows, incident))
  <1> DEFINE m == Materialise(rows, incident)
             schedule == ScheduleFor(incident.kind, incident.aware, incident.measure)
  <1>1. ASSUME NEW s \in Stages
        PROVE  /\ Exists(rows[s]) => m[s] = rows[s]
               /\ m[s].submitted = rows[s].submitted
    <2>1. rows[s] \in Row
      BY DEF Rows
    <2>2. m[s] = IF Exists(rows[s]) THEN rows[s] ELSE [rows[s] EXCEPT !.due = schedule[s]]
      BY DEF Materialise
    <2> HIDE DEF schedule, m
    <2>3. QED
      BY <2>1, <2>2 DEF Row
  <1> HIDE DEF m
  <1>2. QED
    BY <1>1 DEF Kept, m

(* _reanchor moves unfiled rows only.                                      *)
LEMMA RescheduleKeepsFiled ==
    ASSUME NEW incident, NEW rows \in Rows
    PROVE  Kept(rows, Reschedule(rows, incident))
  <1> DEFINE r == Reschedule(rows, incident)
             schedule == ScheduleFor(incident.kind, incident.aware, incident.measure)
  <1>1. ASSUME NEW s \in Stages
        PROVE  /\ rows[s].submitted # NoTime => r[s] = rows[s]
               /\ r[s].submitted = rows[s].submitted
               /\ Exists(rows[s]) => Exists(r[s])
    <2>1. rows[s] \in Row
      BY DEF Rows
    <2>2. r[s] = IF /\ Exists(rows[s])
                    /\ rows[s].submitted = NoTime
                    /\ schedule[s] # NoTime
                 THEN [rows[s] EXCEPT !.due = schedule[s]]
                 ELSE rows[s]
      BY DEF Reschedule
    <2> HIDE DEF schedule, r
    <2>3. QED
      BY <2>1, <2>2 DEF Row, Exists
  <1> HIDE DEF r
  <1>2. QED
    BY <1>1 DEF Kept, r

(* What two passes keep each, they keep together.                          *)
LEMMA KeptTwice ==
    ASSUME NEW a, NEW b, NEW c, Kept(a, b), Kept(b, c)
    PROVE  Kept(a, c)
  BY DEF Kept

(* Rows left alone are kept.                                               *)
LEMMA KeptItself == ASSUME NEW rows PROVE Kept(rows, rows)
  BY DEF Kept

(* Every step keeps what was filed, whichever incident it is about.        *)
LEMMA StepsKeepFiled ==
    ASSUME IInv, [Next]_vars, NEW i \in IncidentIds
    PROVE  Kept(obligations[i], obligations'[i])
  <1>1. /\ obligations \in [IncidentIds -> Rows]
        /\ incidents \in [IncidentIds -> Incident]
        /\ obligations[i] \in Rows
    BY DEF IInv, TypeOK, Incident, Rows
  <1>2. ASSUME NEW v \in VulnIds, NEW exploited \in BOOLEAN, NEW aware \in MaybeTime,
               RecordVulnerability(v, exploited, aware)
        PROVE  Kept(obligations[i], obligations'[i])
    <2>1. \/ obligations' = obligations
          \/ obligations' = [obligations EXCEPT
                 ![v] = Materialise(@, Cascade(incidents[v], OrNow(aware)))]
      BY <1>2 DEF RecordVulnerability
    <2>2. CASE obligations' = obligations
      BY <2>2, KeptItself
    <2>3. CASE obligations' = [obligations EXCEPT
                 ![v] = Materialise(@, Cascade(incidents[v], OrNow(aware)))]
      <3>1. \/ obligations'[i] = obligations[i]
            \/ obligations'[i] =
                  Materialise(obligations[i], Cascade(incidents[v], OrNow(aware)))
        BY <1>1, <2>3
      <3>2. QED
        BY <1>1, <3>1, KeptItself, MaterialiseKeepsFiled
    <2>4. QED
      BY <2>1, <2>2, <2>3
  <1>3. ASSUME NEW v \in VulnIds, NEW mark \in Marks, NEW aware \in MaybeTime,
               NEW measure \in MaybeTime, UpdateVulnerability(v, mark, aware, measure)
        PROVE  Kept(obligations[i], obligations'[i])
    <2> DEFINE anchored == AfterAwareness(v, mark, aware)
               rows     == RowsAfterAwareness(v, mark, aware)
               measured == [anchored EXCEPT !.measure = measure]
    <2>1. v \in IncidentIds /\ obligations[v] \in Rows
      BY <1>1 DEF IncidentIds
    <2>2. \/ rows = Materialise(obligations[v], anchored)
          \/ rows = Reschedule(obligations[v], anchored)
          \/ rows = obligations[v]
      BY DEF RowsAfterAwareness
    <2>3. Kept(obligations[v], rows)
      BY <2>1, <2>2, MaterialiseKeepsFiled, RescheduleKeepsFiled, KeptItself
    <2>4. /\ Happened(aware)
          /\ aware # NoTime /\ ~NewlyExploited(v, mark) => incidents[v].open
      BY <1>3 DEF UpdateVulnerability
    <2>5. rows \in Rows
      BY <2>4, AwarenessKeepsPair
    <2>6. Kept(rows, Materialise(rows, measured))
      BY <2>5, MaterialiseKeepsFiled
    <2>7. \/ obligations' = [obligations EXCEPT ![v] = rows]
          \/ obligations' = [obligations EXCEPT ![v] = Materialise(rows, measured)]
      BY <1>3 DEF UpdateVulnerability
    <2> HIDE DEF anchored, rows, measured
    <2>8. Kept(obligations[v], Materialise(rows, measured))
      BY <2>3, <2>6, KeptTwice
    <2>9. \/ obligations'[i] = obligations[i]
          \/ i = v /\ obligations'[i] = rows
          \/ i = v /\ obligations'[i] = Materialise(rows, measured)
      BY <1>1, <2>1, <2>7
    <2>10. QED
      BY <2>3, <2>8, <2>9, KeptItself
  <1>4. ASSUME NEW j \in ReportedIds, NEW kind \in Kinds, NEW aware \in MaybeTime,
               ReportIncident(j, kind, aware)
        PROVE  Kept(obligations[i], obligations'[i])
    <2> DEFINE incident == [open |-> TRUE, kind |-> kind,
                            aware |-> OrNow(aware), measure |-> NoTime]
    <2>1. obligations' = [obligations EXCEPT ![j] = Materialise(@, incident)]
      BY <1>4 DEF ReportIncident
    <2>2. \/ obligations'[i] = obligations[i]
          \/ obligations'[i] = Materialise(obligations[i], incident)
      BY <1>1, <2>1
    <2>3. QED
      BY <1>1, <2>2, KeptItself, MaterialiseKeepsFiled
  <1>5. ASSUME NEW j \in IncidentIds, NEW s \in Stages, NEW submitted \in MaybeTime,
               RecordReportSubmission(j, s, submitted)
        PROVE  Kept(obligations[i], obligations'[i])
    <2>1. /\ Exists(obligations[j][s])
          /\ obligations[j][s].submitted = NoTime
          /\ obligations' = [obligations EXCEPT ![j][s].submitted = OrNow(submitted)]
      BY <1>5 DEF RecordReportSubmission
    <2>2. ASSUME NEW other \in Stages, i # j \/ other # s
          PROVE  obligations'[i][other] = obligations[i][other]
      BY <1>1, <2>1, <2>2 DEF Rows
    <2>3. CASE i = j
      <3>1. obligations[i][s] \in Row
        BY <1>1 DEF Rows
      <3>2. obligations'[i][s] = [obligations[i][s] EXCEPT !.submitted = OrNow(submitted)]
        BY <1>1, <2>1, <2>3 DEF Rows
      <3>3. Exists(obligations'[i][s])
        BY <2>1, <2>3, <3>1, <3>2 DEF Exists, Row
      <3>4. QED
        BY <2>1, <2>2, <2>3, <3>3 DEF Kept
    <2>4. CASE i # j
      BY <2>2, <2>4 DEF Kept
    <2>5. QED
      BY <2>3, <2>4
  <1>6. CASE Tick
    BY <1>6, KeptItself DEF Tick
  <1>7. CASE UNCHANGED vars
    BY <1>7, KeptItself DEF vars
  <1>8. QED
    BY <1>2, <1>3, <1>4, <1>5, <1>6, <1>7 DEF Next

(* Only rows that exist are filed: with it, Kept says that a filed row     *)
(* never changes.                                                          *)
FiledExist ==
    \A i \in IncidentIds, s \in Stages :
        obligations[i][s].submitted # NoTime => Exists(obligations[i][s])

(* A filing is recorded on a row that was materialised before it.          *)
THEOREM FiledRowsExist == Spec => []FiledExist
  <1>1. Init => FiledExist
    BY DEF Init, FiledExist, NoRow
  <1>2. IInv /\ FiledExist /\ [Next]_vars => FiledExist'
    <2> SUFFICES ASSUME IInv, FiledExist, [Next]_vars PROVE FiledExist'
      OBVIOUS
    <2>1. \A i \in IncidentIds : Kept(obligations[i], obligations'[i])
      BY StepsKeepFiled
    <2>2. QED
      BY <2>1 DEF Kept, FiledExist
  <1>3. QED
    BY <1>1, <1>2, Inductive, PTL DEF Spec

(* A filed report keeps the due date and the filing time it was judged by, *)
(* so whether it was late never changes: no correction of an anchor by     *)
(* update_vulnerability rewrites what has been reported.                   *)
THEOREM FiledStand == Spec => FiledReportsStand
  <1>1. IInv /\ FiledExist /\ [Next]_vars =>
          [\A i \in IncidentIds, s \in Stages :
             obligations[i][s].submitted # NoTime =>
                /\ obligations'[i][s] = obligations[i][s]
                /\ ObligationState(s, obligations[i][s].due,
                                   obligations[i][s].submitted, now)'
                   = ObligationState(s, obligations[i][s].due,
                                     obligations[i][s].submitted, now)]_vars
    <2> SUFFICES ASSUME IInv, FiledExist, [Next]_vars,
                        NEW i \in IncidentIds, NEW s \in Stages,
                        obligations[i][s].submitted # NoTime
                 PROVE  /\ obligations'[i][s] = obligations[i][s]
                        /\ ObligationState(s, obligations[i][s].due,
                                           obligations[i][s].submitted, now)'
                           = ObligationState(s, obligations[i][s].due,
                                             obligations[i][s].submitted, now)
      OBVIOUS
    <2>1. Kept(obligations[i], obligations'[i])
      BY StepsKeepFiled
    <2>2. obligations'[i][s] = obligations[i][s]
      BY <2>1 DEF Kept, FiledExist
    <2>3. QED
      BY <2>2 DEF ObligationState
  <1>2. QED
    BY <1>1, Inductive, FiledRowsExist, PTL DEF Spec, FiledReportsStand

(* The awareness date moves and the audit row of the call states it.       *)
MovedOnRecord(i) ==
    /\ incidents'[i].aware # incidents[i].aware
    /\ trail'[i].aware = incidents'[i].aware

(* No row that exists is changed.                                          *)
Untouched(old, new) == \A s \in Stages : Exists(old[s]) => new[s] = old[s]

LEMMA MaterialiseTouchesNone ==
    ASSUME NEW incident, NEW rows \in Rows
    PROVE  Untouched(rows, Materialise(rows, incident))
  BY DEF Untouched, Materialise

(* What can happen to a row that exists: nothing, its filing, or a new     *)
(* awareness date on record.                                               *)
LEMMA DueDatesMoveOnRecord ==
    ASSUME IInv, [Next]_vars, NEW i \in IncidentIds
    PROVE  \A s \in Stages :
              Exists(obligations[i][s]) =>
                 \/ obligations'[i][s] = obligations[i][s]
                 \/ obligations'[i][s].submitted # NoTime
                 \/ MovedOnRecord(i)
  <1> DEFINE Goal == \A s \in Stages :
                        Exists(obligations[i][s]) =>
                           \/ obligations'[i][s] = obligations[i][s]
                           \/ obligations'[i][s].submitted # NoTime
                           \/ MovedOnRecord(i)
  <1>1. /\ obligations \in [IncidentIds -> Rows]
        /\ incidents \in [IncidentIds -> Incident]
        /\ obligations[i] \in Rows
        /\ trail \in [IncidentIds -> [aware : MaybeTime, measure : MaybeTime]]
        /\ now # NoTime
    BY TimesAssumption DEF IInv, TypeOK, Incident, Rows, NoTime
  <1>2. Untouched(obligations[i], obligations'[i]) \/ MovedOnRecord(i) => Goal
    BY DEF Untouched
  <1>3. obligations'[i] = obligations[i] => Goal
    OBVIOUS
  <1>4. ASSUME NEW v \in VulnIds, NEW exploited \in BOOLEAN, NEW aware \in MaybeTime,
               RecordVulnerability(v, exploited, aware)
        PROVE  Goal
    <2>1. \/ obligations' = obligations
          \/ obligations' = [obligations EXCEPT
                 ![v] = Materialise(@, Cascade(incidents[v], OrNow(aware)))]
      BY <1>4 DEF RecordVulnerability
    <2>2. \/ obligations'[i] = obligations[i]
          \/ obligations'[i] = Materialise(obligations[i], Cascade(incidents[v], OrNow(aware)))
      BY <1>1, <2>1
    <2> HIDE DEF Goal
    <2>3. QED
      BY <1>1, <1>2, <1>3, <2>2, MaterialiseTouchesNone
  <1>5. ASSUME NEW v \in VulnIds, NEW mark \in Marks, NEW aware \in MaybeTime,
               NEW measure \in MaybeTime, UpdateVulnerability(v, mark, aware, measure)
        PROVE  Goal
    <2> DEFINE anchored == AfterAwareness(v, mark, aware)
               rows     == RowsAfterAwareness(v, mark, aware)
               measured == [anchored EXCEPT !.measure = measure]
    <2>1. v \in IncidentIds /\ obligations[v] \in Rows /\ incidents[v] \in Incident
      BY <1>1 DEF IncidentIds
    <2>2. CASE i # v
      <3>1. obligations'[i] = obligations[i]
        BY <1>1, <1>5, <2>1, <2>2 DEF UpdateVulnerability
      <3> HIDE DEF Goal
      <3>2. QED
        BY <1>3, <3>1
    <2>3. CASE i = v /\ Reanchors(v, mark, aware)
      <3>1. incidents'[v].aware = aware
        <4>1. anchored = [incidents[v] EXCEPT !.aware = aware]
          BY <2>3 DEF AfterAwareness, Reanchors
        <4>2. anchored.aware = aware /\ measured.aware = aware
          BY <2>1, <4>1 DEF Incident
        <4>3. incidents'[v] = anchored \/ incidents'[v] = measured
          BY <1>1, <1>5, <2>1 DEF UpdateVulnerability
        <4> HIDE DEF anchored, measured
        <4>4. QED
          BY <4>2, <4>3
      <3>2. trail'[v].aware = aware
        BY <1>1, <1>5, <2>1, <2>3 DEF UpdateVulnerability
      <3>3. MovedOnRecord(i)
        BY <2>3, <3>1, <3>2 DEF MovedOnRecord, Reanchors
      <3> HIDE DEF Goal
      <3>4. QED
        BY <1>2, <3>3
    <2>4. CASE i = v /\ ~Reanchors(v, mark, aware)
      <3>1. rows = obligations[v] \/ rows = Materialise(obligations[v], anchored)
        BY <2>4 DEF RowsAfterAwareness
      <3>2. Untouched(obligations[v], rows)
        BY <2>1, <3>1, MaterialiseTouchesNone DEF Untouched
      <3>3. rows \in Rows
        BY <1>5, AwarenessKeepsPair DEF UpdateVulnerability
      <3>4. Untouched(rows, Materialise(rows, measured))
        BY <3>3, MaterialiseTouchesNone
      <3>5. \/ obligations'[v] = rows
            \/ obligations'[v] = Materialise(rows, measured)
        BY <1>1, <1>5, <2>1 DEF UpdateVulnerability
      <3> HIDE DEF rows, measured, anchored
      <3>6. Untouched(obligations[v], obligations'[v])
        BY <3>2, <3>4, <3>5 DEF Untouched
      <3> HIDE DEF Goal
      <3>7. QED
        BY <1>2, <2>4, <3>6
    <2>5. QED
      BY <2>2, <2>3, <2>4
  <1>6. ASSUME NEW j \in ReportedIds, NEW kind \in Kinds, NEW aware \in MaybeTime,
               ReportIncident(j, kind, aware)
        PROVE  Goal
    <2> DEFINE incident == [open |-> TRUE, kind |-> kind,
                            aware |-> OrNow(aware), measure |-> NoTime]
    <2>1. obligations' = [obligations EXCEPT ![j] = Materialise(@, incident)]
      BY <1>6 DEF ReportIncident
    <2>2. \/ obligations'[i] = obligations[i]
          \/ obligations'[i] = Materialise(obligations[i], incident)
      BY <1>1, <2>1
    <2> HIDE DEF Goal
    <2>3. QED
      BY <1>1, <1>2, <1>3, <2>2, MaterialiseTouchesNone
  <1>7. ASSUME NEW j \in IncidentIds, NEW s \in Stages, NEW submitted \in MaybeTime,
               RecordReportSubmission(j, s, submitted)
        PROVE  Goal
    <2>1. obligations' = [obligations EXCEPT ![j][s].submitted = OrNow(submitted)]
      BY <1>7 DEF RecordReportSubmission
    <2>2. ASSUME NEW other \in Stages, i # j \/ other # s
          PROVE  obligations'[i][other] = obligations[i][other]
      BY <1>1, <2>1, <2>2 DEF Rows
    <2>3. CASE i = j
      <3>1. obligations[i][s] \in Row
        BY <1>1 DEF Rows
      <3>2. obligations'[i][s] = [obligations[i][s] EXCEPT !.submitted = OrNow(submitted)]
        BY <1>1, <2>1, <2>3 DEF Rows
      <3>3. obligations'[i][s].submitted # NoTime
        BY <1>1, <3>1, <3>2 DEF Row, OrNow
      <3>4. QED
        BY <2>2, <3>3
    <2>4. CASE i # j
      BY <2>2, <2>4
    <2>5. QED
      BY <2>3, <2>4
  <1>8. ASSUME Tick \/ UNCHANGED vars PROVE Goal
    <2>1. obligations'[i] = obligations[i]
      BY <1>8 DEF Tick, vars
    <2> HIDE DEF Goal
    <2>2. QED
      BY <2>1, <1>3
  <1> HIDE DEF Goal
  <1>9. Goal
    BY <1>4, <1>5, <1>6, <1>7, <1>8 DEF Next
  <1>10. QED
    BY <1>9 DEF Goal

(* An overdue report is answered by filing it, or by moving its incident's *)
(* awareness date in a call whose audit row states the new one; whatever   *)
(* else is done to the vulnerability, it stays overdue.                    *)
THEOREM OverdueAnswered == Spec => OverdueIsAnswered
  <1> DEFINE Answers ==
        \A i \in IncidentIds, s \in Stages :
           LET row == obligations[i][s]
           IN  /\ Exists(row)
               /\ ObligationState(s, row.due, row.submitted, now) = "overdue"
               /\ ObligationState(s, row.due, row.submitted, now)' # "overdue"
               => \/ row'.submitted # NoTime
                  \/ /\ incidents'[i].aware # incidents[i].aware
                     /\ trail'[i].aware = incidents'[i].aware
  <1>1. IInv /\ [Next]_vars => Answers
    <2> SUFFICES ASSUME IInv, [Next]_vars, NEW i \in IncidentIds, NEW s \in Stages,
                        Exists(obligations[i][s]),
                        ObligationState(s, obligations[i][s].due,
                                        obligations[i][s].submitted, now) = "overdue",
                        ObligationState(s, obligations[i][s].due,
                                        obligations[i][s].submitted, now)' # "overdue",
                        obligations'[i][s].submitted = NoTime
                 PROVE  MovedOnRecord(i)
      BY DEF MovedOnRecord
    <2>1. obligations[i][s] \in Row /\ now \in Int /\ now' \in Int /\ now <= now'
      <3>1. obligations[i][s] \in Row /\ now \in Int
        BY TimesAssumption DEF IInv, TypeOK
      <3>2. now' = now \/ now' = now + 1
        <4>1. ASSUME NEW v \in VulnIds, NEW exploited \in BOOLEAN, NEW aware \in MaybeTime,
                     RecordVulnerability(v, exploited, aware)
              PROVE  now' = now
          BY <4>1 DEF RecordVulnerability
        <4>2. ASSUME NEW v \in VulnIds, NEW mark \in Marks, NEW aware \in MaybeTime,
                     NEW measure \in MaybeTime, UpdateVulnerability(v, mark, aware, measure)
              PROVE  now' = now
          BY <4>2 DEF UpdateVulnerability
        <4>3. ASSUME NEW j \in ReportedIds, NEW kind \in Kinds, NEW aware \in MaybeTime,
                     ReportIncident(j, kind, aware)
              PROVE  now' = now
          BY <4>3 DEF ReportIncident
        <4>4. ASSUME NEW j \in IncidentIds, NEW t \in Stages, NEW submitted \in MaybeTime,
                     RecordReportSubmission(j, t, submitted)
              PROVE  now' = now
          BY <4>4 DEF RecordReportSubmission
        <4>5. QED
          BY <4>1, <4>2, <4>3, <4>4 DEF Next, Tick, vars
      <3>3. QED
        BY <3>1, <3>2
    <2>2. obligations[i][s].submitted = NoTime /\ now > obligations[i][s].due
      BY DEF ObligationState
    <2>3. ~(now' > obligations'[i][s].due)
      BY DEF ObligationState
    <2>4. obligations'[i][s] # obligations[i][s]
      <3>1. obligations[i][s].due \in Int
        BY <2>1 DEF Row, NoTime
      <3>2. QED
        BY <2>1, <2>2, <2>3, <3>1
    <2>5. QED
      BY <2>4, DueDatesMoveOnRecord
  <1> HIDE DEF Answers
  <1>2. IInv /\ [Next]_vars => [Answers]_vars
    BY <1>1
  <1>3. [][Answers]_vars => OverdueIsAnswered
    BY PTL DEF Answers, OverdueIsAnswered
  <1>4. QED
    BY <1>2, <1>3, Inductive, PTL DEF Spec

=============================================================================
