---------------------------- MODULE AdvisoryProofs ----------------------------
(***************************************************************************)
(* What AdvisoryPipeline keeps for every set of candidates and times,      *)
(* proved: with or without scan_advisories called beside the sweeper,      *)
(* except where a theorem assumes that the sweeper scans alone.            *)
(*                                                                         *)
(* The anchor of a record is a copy of what its row said when              *)
(* confirm_advisory looked, and the stamp the sweeper writes was decided   *)
(* before its mails went out; either may be stale by the time it is used.  *)
(* The invariant says why neither ends up after the other: a choice still  *)
(* to be stamped is of rows that bear no stamp, so whatever was copied     *)
(* from them is their first sight, which is no later than the choice.      *)
(***************************************************************************)
EXTENDS AdvisoryPipeline, SequenceTheorems, TLAPS

Phases == {"idle", "fetched", "read", "persisted", "recorded", "chosen", "mailed"}
Progress == [phase : Phases, sourcesOk : BOOLEAN, findings : [Candidates -> Finding],
             seen : [Candidates -> Candidate], chosen : SUBSET Candidates, at : MaybeTime]
Confirmation == [candidate : Candidates \cup {None}, exploited : BOOLEAN,
                 anchor : MaybeTime, stated : BOOLEAN, record : 0..MaxRecords]
Record == [candidate : Candidates, exploited : BOOLEAN, aware : Times, stated : BOOLEAN]

(* Every variable's range, the parts of scan and call included.            *)
Typed ==
    /\ now \in Times
    /\ listed \subseteq Candidates
    /\ kev \in [ok : BOOLEAN, entries : SUBSET Candidates]
    /\ rows \in [Candidates -> Candidate]
    /\ records \in Seq(Record) /\ Len(records) <= MaxRecords
    /\ scan \in [Scanners -> Progress]
    /\ call \in Confirmation

Present(c) == rows[c].status # "absent"

(* A row was first seen at some time, and only an exploited one is told of.*)
RowsAreDated ==
    \A c \in Candidates :
        /\ Present(c) => rows[c].firstSeen \in Times /\ rows[c].firstSeen <= now
        /\ rows[c].notified # NoTime =>
              Present(c) /\ rows[c].exploited /\ rows[c].notified <= now

(* What a scan read is of rows that are still there.                       *)
ReadsAreOfRows ==
    \A s \in Scanners, c \in Candidates :
        LET seen == scan[s].seen[c]
        IN  /\ seen.status # "absent" => Present(c)
            /\ seen.notified # NoTime => seen.exploited

(* No one stamps a row between the sweeper's choice and its stamp.         *)
ChosenAreUntold ==
    \A c \in Chosen :
        /\ Present(c) /\ rows[c].exploited /\ rows[c].notified = NoTime
        /\ scan["sweeper"].at \in Times /\ scan["sweeper"].at <= now
        /\ rows[c].firstSeen <= scan["sweeper"].at

(* A default anchor is no later than the stamp its row bears or will get.  *)
Fits(c, anchor) ==
    /\ Present(c)
    /\ anchor <= now
    /\ rows[c].notified # NoTime => anchor <= rows[c].notified
    /\ c \in Chosen => anchor <= scan["sweeper"].at

CallFits ==
    /\ call.record # 0 => call.candidate # None
    /\ call.candidate # None =>
          /\ call.anchor \in Times /\ Present(call.candidate)
          /\ ~call.stated => Fits(call.candidate, call.anchor)

RecordsFit ==
    \A n \in 1..Len(records) :
        ~records[n].stated => Fits(records[n].candidate, records[n].aware)

(* The sweeper alone scans: what it read of `exploited` is what is there.  *)
ReadIsCurrent ==
    ToolScans \/ \A c \in Candidates :
        scan["sweeper"].phase = "read" =>
            scan["sweeper"].seen[c].exploited = rows[c].exploited

IInv ==
    /\ Typed
    /\ RowsAreDated
    /\ ReadsAreOfRows
    /\ ChosenAreUntold
    /\ CallFits
    /\ RecordsFit
    /\ ReadIsCurrent

----------------------------------------------------------------------------
(* Ranges.                                                                 *)

LEMMA TimesAreNaturals == \A t \in Times : t \in Int /\ t # NoTime
BY AdvisoryAssumption DEF NoTime

LEMMA InitHolds == Init => IInv
<1> SUFFICES ASSUME Init PROVE IInv
  OBVIOUS
<1> USE AdvisoryAssumption
<1>1. Absent \in Candidate
  BY DEF Absent, Candidate, MaybeTime, Scores
<1>2. Resting \in Progress
  BY <1>1 DEF Resting, Progress, Phases, Finding, NoFinding, MaybeTime, Scores
<1>3. NoCall \in Confirmation
  BY DEF NoCall, Confirmation, MaybeTime
<1>4. Typed
  BY <1>1, <1>2, <1>3, EmptySeq DEF Init, Typed
<1>5. RowsAreDated
  BY DEF Init, RowsAreDated, Absent, Present
<1>6. "sweeper" \in Scanners
  BY DEF Scanners
<1>7. ReadsAreOfRows /\ ChosenAreUntold /\ ReadIsCurrent
  BY <1>6 DEF Init, ReadsAreOfRows, ChosenAreUntold, ReadIsCurrent, Chosen, Resting, Absent
<1>8. CallFits /\ RecordsFit
  BY DEF Init, CallFits, RecordsFit, NoCall
<1>. QED
  BY <1>4, <1>5, <1>7, <1>8 DEF IInv

(* The sweeper is a scanner; a scan's parts have their types.              *)
LEMMA ProgressParts ==
  ASSUME Typed
  PROVE  /\ "sweeper" \in Scanners
         /\ \A s \in Scanners :
               /\ scan[s].findings \in [Candidates -> Finding]
               /\ scan[s].seen \in [Candidates -> Candidate]
               /\ scan[s].chosen \subseteq Candidates
               /\ scan[s].at \in MaybeTime
BY DEF Typed, Progress, Scanners

(* A row keeps being there, first seen when it was, and its stamp is only  *)
(* cleared or set to the instant of the sweeper's choice.                  *)
RowKeeps(c) ==
    /\ Present(c) => /\ Present(c)'
                     /\ rows'[c].firstSeen = rows[c].firstSeen
                     /\ rows[c].exploited => rows'[c].exploited
    /\ \/ rows'[c].notified = rows[c].notified
       \/ rows'[c].notified = NoTime
       \/ c \in Chosen /\ rows'[c].notified = scan["sweeper"].at

(* What is chosen was chosen before, at the same instant, or is chosen now.*)
ChoiceKeeps(c) ==
    c \in Chosen' =>
        \/ c \in Chosen /\ scan'["sweeper"].at = scan["sweeper"].at
        \/ scan'["sweeper"].at = now

(* An anchor that fits its row fits it after any step that keeps the row.  *)
LEMMA AnchorsKeep ==
  ASSUME NEW c, NEW a \in Int, Fits(c, a), RowKeeps(c), ChoiceKeeps(c),
         now \in Int, now' \in Int, now <= now'
  PROVE  Fits(c, a)'
BY DEF Fits, RowKeeps, ChoiceKeeps

(* So the anchors of a call and of the records that a step leaves alone    *)
(* still fit.                                                              *)
LEMMA AnchorsStand ==
  ASSUME Typed, Typed', CallFits, RecordsFit, now <= now',
         \A c \in Candidates : RowKeeps(c) /\ ChoiceKeeps(c)
  PROVE  /\ UNCHANGED call \/ call' = NoCall => CallFits'
         /\ UNCHANGED records => RecordsFit'
<1> USE AdvisoryAssumption
<1>1. now \in Int /\ now' \in Int
  BY DEF Typed
<1>0. \A t \in Times : t \in Int
  BY TimesAreNaturals
<1>9. ASSUME NEW c \in Candidates, NEW a \in Int, Fits(c, a)
      PROVE  Fits(c, a)'
  BY <1>1, <1>9, AnchorsKeep
<1>2. ASSUME UNCHANGED call PROVE CallFits'
  <2>1. call' = call
    BY <1>2
  <2>2. CASE call.candidate = None
    BY <2>1, <2>2 DEF CallFits
  <2>3. CASE call.candidate # None
    <3>1. call.candidate \in Candidates /\ call.anchor \in Int /\ call.anchor \in Times
      BY <2>3, <1>0 DEF Typed, Confirmation, CallFits
    <3>2. PICK c \in Candidates, a \in Int : c = call.candidate /\ a = call.anchor
      BY <3>1
    <3>3. ~call.stated => Fits(c, a)'
      BY <3>2, <2>3, <1>9 DEF CallFits
    <3>4. call'.candidate = c /\ call'.anchor = a /\ call'.stated = call.stated
      BY <2>1, <3>2
    <3>5. ~call'.stated => Fits(call.candidate, call.anchor)'
      BY <3>3, <3>4 DEF Fits, Present, Chosen
    <3>6. call'.record # 0 => call'.candidate # None
      BY <2>1 DEF CallFits
    <3>7. call'.anchor \in Times
      BY <3>1, <2>1
    <3>8. Present(c)'
      BY <3>2, <2>3 DEF CallFits, RowKeeps
    <3>9. Present(call.candidate)'
      BY <3>4, <3>8 DEF Present
    <3>. QED
      BY <3>5, <3>6, <3>7, <3>9 DEF CallFits
  <2>. QED
    BY <2>2, <2>3
<1>3. ASSUME call' = NoCall PROVE CallFits'
  BY <1>3 DEF CallFits, NoCall
<1>4. ASSUME UNCHANGED records PROVE RecordsFit'
  <2>1. records' = records
    BY <1>4
  <2> SUFFICES ASSUME NEW n \in 1..Len(records), ~records[n].stated
               PROVE  Fits(records[n].candidate, records[n].aware)'
    BY <2>1 DEF RecordsFit, Fits, Present, Chosen
  <2>2. records[n] \in Record
    BY ElementOfSeq DEF Typed
  <2>3. records[n].candidate \in Candidates /\ records[n].aware \in Int
    BY <2>2, <1>0 DEF Record
  <2>4. Fits(records[n].candidate, records[n].aware)
    BY DEF RecordsFit
  <2> DEFINE c == records[n].candidate
             a == records[n].aware
  <2>5. RowKeeps(c) /\ ChoiceKeeps(c)
    BY <2>3
  <2>6. c \in Candidates /\ a \in Int /\ Fits(c, a)
    BY <2>3, <2>4
  <2>7. records'[n].candidate = c /\ records'[n].aware = a
    BY <2>1
  <2>8. Fits(c, a)'
    BY <1>1, <2>5, <2>6, <2>7, AnchorsKeep, <2>1
  <2>. QED
    BY <2>8
<1>. QED
  BY <1>2, <1>3, <1>4

----------------------------------------------------------------------------
(* The scanners.                                                           *)

(* What a scan that touches no row must keep: it read Absent, what is      *)
(* there, or what it had read before; it chose what is untold now or what  *)
(* it had chosen before.                                                   *)
LEMMA ScanKeeps ==
  ASSUME IInv, NEW s \in Scanners, NEW p \in Progress,
         scan' = [scan EXCEPT ![s] = p],
         kev' \in [ok : BOOLEAN, entries : SUBSET Candidates],
         UNCHANGED <<now, listed, rows, records, call>>,
         \A c \in Candidates :
            \/ p.seen[c] = Absent
            \/ p.seen[c] = rows[c]
            \/ p.seen[c] = scan[s].seen[c],
         p.phase = "read" => p.seen = rows,
         \A c \in p.chosen :
            \/ c \in scan[s].chosen /\ p.at = scan[s].at
            \/ Untold(c) /\ p.at = now
  PROVE  IInv'
<1>1. Typed'
  BY DEF IInv, Typed
<1>2. "sweeper" \in Scanners /\ Typed
  BY ProgressParts DEF IInv
<1>3. scan'[s] = p /\ \A r \in Scanners : r # s => scan'[r] = scan[r]
  BY <1>2 DEF Typed
<1>4. rows' = rows /\ now' = now
  OBVIOUS
<1>5. \A r \in Scanners : p.chosen \subseteq Candidates /\ scan[r].chosen \subseteq Candidates
  BY <1>2, ProgressParts DEF Progress
<1>6. now \in Times /\ now <= now
  BY <1>2, TimesAreNaturals DEF Typed
<1>7. RowsAreDated'
  BY <1>4 DEF IInv, RowsAreDated, Present
<1>8. ReadsAreOfRows'
  BY <1>3, <1>4 DEF IInv, ReadsAreOfRows, RowsAreDated, Present, Absent
<1>9. ChosenAreUntold'
  <2>1. CASE s # "sweeper"
    <3>1. scan'["sweeper"] = scan["sweeper"]
      BY <2>1, <1>2, <1>3
    <3>. QED
      BY <3>1, <1>4 DEF IInv, ChosenAreUntold, Chosen, Present
  <2>2. CASE s = "sweeper"
    <3> SUFFICES ASSUME NEW c \in p.chosen
                 PROVE  /\ Present(c) /\ rows[c].exploited /\ rows[c].notified = NoTime
                        /\ p.at \in Times /\ p.at <= now
                        /\ rows[c].firstSeen <= p.at
      BY <2>2, <1>3, <1>4 DEF ChosenAreUntold, Chosen, Present
    <3>1. CASE c \in scan[s].chosen /\ p.at = scan[s].at
      BY <2>2, <3>1 DEF IInv, ChosenAreUntold, Chosen
    <3>2. CASE Untold(c) /\ p.at = now
      <4>1. c \in Candidates
        BY <1>5
      <4>. QED
        BY <3>2, <4>1, <1>6 DEF IInv, RowsAreDated, Untold, Present
    <3>. QED
      BY <3>1, <3>2
  <2>. QED
    BY <2>1, <2>2
<1>10. \A c \in Candidates : RowKeeps(c) /\ ChoiceKeeps(c)
  <2>1. \A c \in Candidates : RowKeeps(c)
    BY <1>4 DEF RowKeeps, Present
  <2>2. CASE s # "sweeper"
    <3>1. scan'["sweeper"] = scan["sweeper"]
      BY <2>2, <1>2, <1>3
    <3>. QED
      BY <3>1, <2>1 DEF ChoiceKeeps, Chosen
  <2>3. CASE s = "sweeper"
    BY <2>1, <2>3, <1>3 DEF ChoiceKeeps, Chosen
  <2>. QED
    BY <2>2, <2>3
<1>11. CallFits' /\ RecordsFit'
  BY <1>1, <1>2, <1>6, <1>10, <1>4, AnchorsStand DEF IInv
<1>12. ReadIsCurrent'
  <2>1. CASE s # "sweeper"
    <3>1. scan'["sweeper"] = scan["sweeper"]
      BY <2>1, <1>2, <1>3
    <3>. QED
      BY <3>1, <1>4 DEF IInv, ReadIsCurrent
  <2>2. CASE s = "sweeper"
    BY <2>2, <1>3, <1>4 DEF ReadIsCurrent
  <2>. QED
    BY <2>1, <2>2
<1>. QED
  BY <1>1, <1>7, <1>8, <1>9, <1>11, <1>12 DEF IInv

LEMMA RestingIsProgress == Absent \in Candidate /\ Resting \in Progress
BY AdvisoryAssumption DEF Absent, Candidate, Scores, Resting, Progress, Phases, Finding,
                          NoFinding, MaybeTime

LEMMA FetchedKeeps ==
  ASSUME IInv, NEW s \in Scanners, NEW ok \in BOOLEAN, NEW findings \in [Candidates -> Finding],
         NEW r \in Progress, r = Resting,
         scan' = [scan EXCEPT ![s] = [r EXCEPT !.phase = "fetched", !.sourcesOk = ok,
                                                 !.findings = findings]],
         kev' \in [ok : BOOLEAN, entries : SUBSET Candidates],
         UNCHANGED <<now, listed, rows, records, call>>
  PROVE  IInv'
<1>0. [r EXCEPT !.phase = "fetched", !.sourcesOk = ok, !.findings = findings] \in Progress
  BY DEF Progress, Phases
<1>1. PICK p \in Progress :
         p = [r EXCEPT !.phase = "fetched", !.sourcesOk = ok, !.findings = findings]
  BY <1>0
<1>2. scan' = [scan EXCEPT ![s] = p]
  BY <1>1
<1>6. p.seen = r.seen /\ p.phase = "fetched" /\ p.chosen = r.chosen
  BY <1>1 DEF Progress
<1>3. \A c \in Candidates : p.seen[c] = Absent
  BY <1>6 DEF Resting
<1>4. \A c \in p.chosen : Untold(c) /\ p.at = now
  BY <1>6 DEF Resting
<1>5. p.phase # "read"
  BY <1>6
<1>7. UNCHANGED <<now, listed, rows, records, call>>
  OBVIOUS
<1>8. kev' \in [ok : BOOLEAN, entries : SUBSET Candidates]
  OBVIOUS
<1>. QED
  BY ONLY IInv, s \in Scanners, p \in Progress, <1>2, <1>3, <1>4, <1>5, <1>7, <1>8, ScanKeeps

LEMMA FeedsKeep ==
  ASSUME IInv, NEW s \in Scanners, NEW refreshed \in BOOLEAN, NEW osvOk \in BOOLEAN,
         NEW found \in SUBSET Candidates, NEW detailed \in SUBSET Candidates,
         NEW score \in [Candidates -> Scores],
         FeedsAnswer(s, refreshed, osvOk, found, detailed, score)
  PROVE  IInv'
<1> DEFINE catalogue == KevAfter(refreshed)
<1>1. catalogue \in [ok : BOOLEAN, entries : SUBSET Candidates]
  BY DEF IInv, Typed, KevAfter
<1>2. FindingsOf(found, detailed, catalogue.entries, score) \in [Candidates -> Finding]
  BY DEF FindingsOf, Finding, NoFinding, Scores
<1> HIDE DEF catalogue
<1>3. PICK ok \in BOOLEAN : ok = (catalogue.ok /\ osvOk)
  OBVIOUS
<1>4. PICK findings \in [Candidates -> Finding] :
         findings = FindingsOf(found, detailed, catalogue.entries, score)
  BY <1>2
<1>5. PICK r \in Progress : r = Resting
  BY RestingIsProgress
<1>6. /\ kev' = catalogue
      /\ UNCHANGED <<now, listed, rows, records, call>>
  BY DEF FeedsAnswer, catalogue
<1>7. scan' = [scan EXCEPT ![s] = [r EXCEPT !.phase = "fetched", !.sourcesOk = ok,
                                            !.findings = findings]]
  BY <1>3, <1>4, <1>5 DEF FeedsAnswer, catalogue
<1>. QED
  BY <1>1, <1>5, <1>6, <1>7, FetchedKeeps

LEMMA ReadKeeps ==
  ASSUME IInv, NEW s \in Scanners, ReadRows(s)
  PROVE  IInv'
<1> DEFINE p == [scan[s] EXCEPT !.phase = "read", !.seen = rows]
<1>1. scan[s] \in Progress /\ rows \in [Candidates -> Candidate]
  BY DEF IInv, Typed
<1>2. p \in Progress
  BY <1>1 DEF Progress, Phases
<1>3. p.seen = rows /\ p.chosen = scan[s].chosen /\ p.at = scan[s].at
  BY <1>1 DEF Progress
<1>4. scan' = [scan EXCEPT ![s] = p]
  BY DEF ReadRows
<1>5. kev' \in [ok : BOOLEAN, entries : SUBSET Candidates]
  BY DEF IInv, Typed, ReadRows
<1>6. UNCHANGED <<now, listed, rows, records, call>>
  BY DEF ReadRows
<1> HIDE DEF p
<1>. QED
  BY <1>2, <1>3, <1>4, <1>5, <1>6, ScanKeeps

LEMMA RestKeeps ==
  ASSUME IInv, NEW s \in Scanners, NEW p,
         p = Resting \/ p = [Resting EXCEPT !.phase = "recorded"],
         scan' = [scan EXCEPT ![s] = p],
         UNCHANGED <<now, listed, kev, rows, records, call>>
  PROVE  IInv'
<1>1. p \in Progress
  BY RestingIsProgress DEF Progress, Resting, Phases
<1>5. p.phase # "read"
  BY DEF Resting
<1>6. p.chosen = {}
  BY DEF Resting
<1>2. /\ \A c \in Candidates : p.seen[c] = Absent
      /\ p.phase # "read"
  BY DEF Resting
<1>3. kev' \in [ok : BOOLEAN, entries : SUBSET Candidates]
  BY DEF IInv, Typed
<1>4. UNCHANGED <<now, listed, rows, records, call>>
  OBVIOUS
<1>7. \A c \in Candidates : p.seen[c] = Absent
  BY <1>2
<1>8. \A c \in p.chosen : Untold(c) /\ p.at = now
  BY <1>6
<1>. QED
  BY <1>1, <1>5, <1>7, <1>8, <1>3, <1>4, ScanKeeps

LEMMA RecordScanKeeps ==
  ASSUME IInv, NEW s \in Scanners, RecordScan(s)
  PROVE  IInv'
<1>1. PICK p : /\ scan' = [scan EXCEPT ![s] = p]
               /\ p = Resting \/ p = [Resting EXCEPT !.phase = "recorded"]
  BY DEF RecordScan
<1>. QED
  BY <1>1, RestKeeps DEF RecordScan

LEMMA ChooseKeeps ==
  ASSUME IInv, ChooseUntold
  PROVE  IInv'
<1>1. "sweeper" \in Scanners /\ scan["sweeper"] \in Progress
  BY ProgressParts DEF IInv, Typed
<1>2. CASE ~\E c \in Candidates : Untold(c)
  <2>1. scan' = [scan EXCEPT !["sweeper"] = Resting]
    BY <1>2 DEF ChooseUntold
  <2>. QED
    BY <2>1, <1>1, RestKeeps DEF ChooseUntold
<1>3. CASE \E c \in Candidates : Untold(c)
  <2> DEFINE chosen == {c \in Candidates : Untold(c)}
             p == [scan["sweeper"] EXCEPT !.phase = "chosen", !.at = now, !.chosen = chosen]
  <2>1. scan' = [scan EXCEPT !["sweeper"] = p]
    BY <1>3 DEF ChooseUntold
  <2>2. p.seen = scan["sweeper"].seen /\ p.phase = "chosen" /\ p.at = now /\ p.chosen = chosen
    BY <1>1 DEF Progress
  <2>3. now \in Times /\ p \in Progress
    BY <1>1 DEF IInv, Typed, Progress, Phases, MaybeTime
  <2>4. \A c \in p.chosen : Untold(c) /\ p.at = now
    BY <2>2
  <2>5. kev' \in [ok : BOOLEAN, entries : SUBSET Candidates]
    BY DEF IInv, Typed, ChooseUntold
  <2>6. UNCHANGED <<now, listed, rows, records, call>>
    BY DEF ChooseUntold
  <2>7. p.phase # "read"
    BY <2>2
  <2> HIDE DEF p
  <2>. QED
    BY <2>1, <2>2, <2>3, <2>4, <2>5, <2>6, <2>7, <1>1, ScanKeeps
<1>. QED
  BY <1>2, <1>3

(* Mails leave the choice as it was; a rolled-back one is forgotten.       *)
LEMMA SendMailsKeeps ==
  ASSUME IInv, SendMails
  PROVE  IInv'
<1> DEFINE p == [scan["sweeper"] EXCEPT !.phase = "mailed"]
<1>1. "sweeper" \in Scanners /\ scan["sweeper"] \in Progress
  BY ProgressParts DEF IInv, Typed
<1>2. p \in Progress
  BY <1>1 DEF Progress, Phases
<1>3. /\ p.seen = scan["sweeper"].seen /\ p.phase = "mailed"
      /\ p.chosen = scan["sweeper"].chosen /\ p.at = scan["sweeper"].at
  BY <1>1 DEF Progress
<1>4. scan' = [scan EXCEPT !["sweeper"] = p]
  BY DEF SendMails
<1>5. kev' \in [ok : BOOLEAN, entries : SUBSET Candidates]
  BY DEF IInv, Typed, SendMails
<1>6. UNCHANGED <<now, listed, rows, records, call>>
  BY DEF SendMails
<1>7. p.phase # "read"
  BY <1>3
<1> HIDE DEF p
<1>. QED
  BY <1>1, <1>2, <1>3, <1>4, <1>5, <1>6, <1>7, ScanKeeps

LEMMA RollBackKeeps ==
  ASSUME IInv, RollBack
  PROVE  IInv'
BY ProgressParts, RestKeeps DEF RollBack, IInv

(* A transaction that commits: which row becomes what.                     *)
LEMMA RowsAfterCommit ==
  ASSUME IInv, NEW s \in Scanners, NEW row \in Candidate, NEW seen \in Candidate,
         NEW f \in Finding
  PROVE  Updated(row, seen, f) \in Candidate /\ Inserted(f) \in Candidate
<1>1. now \in MaybeTime /\ NoTime \in MaybeTime
  BY DEF IInv, Typed, MaybeTime
<1>2. f.exploited \in BOOLEAN /\ seen.exploited \in BOOLEAN /\ row.exploited \in BOOLEAN
  BY DEF Finding, Candidate
<1>3. Inserted(f) \in Candidate
  <2>1. Absent \in Candidate
    BY RestingIsProgress
  <2>. QED
    BY <1>1, <1>2, <2>1 DEF Inserted, Candidate, Finding
<1>4. Updated(row, seen, f) \in Candidate
  <2>1. PICK epss \in Scores : epss = IF f.epss = "none" THEN row.epss ELSE f.epss
    BY DEF Finding, Candidate
  <2>2. PICK exploited \in BOOLEAN : exploited = (row.exploited \/ BecameExploited(seen, f))
    BY <1>2 DEF BecameExploited
  <2>3. PICK status \in {"absent", "open", "dismissed", "confirmed"} :
           status = IF Reopens(seen, f) THEN "open" ELSE row.status
    BY DEF Candidate
  <2>4. PICK notified \in MaybeTime :
           notified = IF /\ BecameExploited(seen, f) \/ Reopens(seen, f)
                         /\ seen.notified # NoTime
                      THEN NoTime ELSE row.notified
    BY <1>1 DEF Candidate
  <2>5. [row EXCEPT !.epss = epss, !.exploited = exploited, !.status = status,
                    !.notified = notified] \in Candidate
    BY DEF Candidate
  <2>. QED
    BY <2>1, <2>2, <2>3, <2>4, <2>5 DEF Updated
<1>. QED
  BY <1>3, <1>4

(* The columns of an updated row.                                          *)
LEMMA UpdatedColumns ==
  ASSUME NEW row \in Candidate, NEW seen \in Candidate, NEW f \in Finding
  PROVE  LET u == Updated(row, seen, f)
         IN  /\ u.firstSeen = row.firstSeen /\ u.pinned = row.pinned
             /\ u.exploited <=> row.exploited \/ BecameExploited(seen, f)
             /\ u.status = IF Reopens(seen, f) THEN "open" ELSE row.status
             /\ u.epss = IF f.epss = "none" THEN row.epss ELSE f.epss
             /\ u.notified = IF /\ BecameExploited(seen, f) \/ Reopens(seen, f)
                                /\ seen.notified # NoTime
                             THEN NoTime ELSE row.notified
BY DEF Updated, Candidate

LEMMA InsertedColumns ==
  ASSUME NEW f \in Finding
  PROVE  LET i == Inserted(f)
         IN  /\ i.firstSeen = now /\ i.notified = NoTime /\ i.status = "open"
             /\ i.exploited = f.exploited
BY DEF Inserted, Absent

(* What one row may become when a scan commits.                            *)
CommittedRow(s, c) ==
    LET f == scan[s].findings[c]
        seen == scan[s].seen[c]
    IN  \/ rows'[c] = rows[c]
        \/ seen.status = "absent" /\ rows[c].status = "absent" /\ rows'[c] = Inserted(f)
        \/ seen.status # "absent" /\ rows'[c] = Updated(rows[c], seen, f)

LEMMA CommitCases ==
  ASSUME IInv, NEW s \in Scanners, CommitRows(s)
  PROVE  \/ scan' = [scan EXCEPT ![s] = Resting] /\ UNCHANGED rows
         \/ /\ scan' = [scan EXCEPT ![s].phase = "persisted",
                                    ![s].seen = [c \in Candidates |-> Absent]]
            /\ DOMAIN rows' = Candidates
            /\ \A c \in Candidates : CommittedRow(s, c)
            /\ rows' = [c \in Candidates |-> rows'[c]]
<1>1. CASE \E c \in New(s) : rows[c].status # "absent"
  BY <1>1 DEF CommitRows
<1>2. CASE ~\E c \in New(s) : rows[c].status # "absent"
  <2>1. rows' = [c \in Candidates |->
                  IF c \in New(s) THEN Inserted(scan[s].findings[c])
                  ELSE IF c \in Found(s)
                  THEN Updated(rows[c], scan[s].seen[c], scan[s].findings[c])
                  ELSE rows[c]]
    BY <1>2 DEF CommitRows
  <2>2. scan' = [scan EXCEPT ![s].phase = "persisted",
                             ![s].seen = [c \in Candidates |-> Absent]]
    BY <1>2 DEF CommitRows
  <2>3. ASSUME NEW c \in Candidates PROVE CommittedRow(s, c)
    <3>1. rows'[c] = IF c \in New(s) THEN Inserted(scan[s].findings[c])
                     ELSE IF c \in Found(s)
                     THEN Updated(rows[c], scan[s].seen[c], scan[s].findings[c])
                     ELSE rows[c]
      BY <2>1
    <3>2. c \in New(s) => rows[c].status = "absent" /\ scan[s].seen[c].status = "absent"
      BY <1>2 DEF New
    <3>3. c \in Found(s) /\ c \notin New(s) => scan[s].seen[c].status # "absent"
      BY DEF New
    <3>. QED
      BY <3>1, <3>2, <3>3 DEF CommittedRow
  <2>. QED
    BY <2>1, <2>2, <2>3
<1>. QED
  BY <1>1, <1>2

LEMMA CommitKeeps ==
  ASSUME IInv, NEW s \in Scanners, CommitRows(s)
  PROVE  IInv'
<1>0. UNCHANGED <<now, listed, kev, records, call>>
  BY DEF CommitRows
<1>1. CASE scan' = [scan EXCEPT ![s] = Resting] /\ UNCHANGED rows
  BY <1>0, <1>1, RestKeeps
<1>2. CASE /\ scan' = [scan EXCEPT ![s].phase = "persisted",
                                   ![s].seen = [c \in Candidates |-> Absent]]
           /\ DOMAIN rows' = Candidates
           /\ \A c \in Candidates : CommittedRow(s, c)
           /\ rows' = [c \in Candidates |-> rows'[c]]
  <2>1. Typed /\ "sweeper" \in Scanners
    BY ProgressParts DEF IInv
  <2>2. scan \in [Scanners -> Progress] /\ rows \in [Candidates -> Candidate]
    BY <2>1 DEF Typed
  <2>3. \A c \in Candidates : /\ rows[c] \in Candidate
                              /\ scan[s].findings[c] \in Finding
                              /\ scan[s].seen[c] \in Candidate
    BY <2>1, <2>2, ProgressParts
  <2>4. /\ scan' \in [Scanners -> Progress]
        /\ scan'[s].seen = [c \in Candidates |-> Absent]
        /\ scan'[s].phase = "persisted"
        /\ \A r \in Scanners : /\ r # s => scan'[r] = scan[r]
                               /\ scan'[r].chosen = scan[r].chosen
                               /\ scan'[r].at = scan[r].at
    <3>1. [c \in Candidates |-> Absent] \in [Candidates -> Candidate]
      BY RestingIsProgress
    <3>2. PICK read \in [Candidates -> Candidate] : read = [c \in Candidates |-> Absent]
      BY <3>1
    <3>3. PICK old \in Progress : old = scan[s]
      BY <2>2
    <3>4. [old EXCEPT !.phase = "persisted", !.seen = read] \in Progress
      BY DEF Progress, Phases
    <3>5. PICK p \in Progress : p = [old EXCEPT !.phase = "persisted", !.seen = read]
      BY <3>4
    <3>6. /\ p.seen = read /\ p.phase = "persisted"
          /\ p.chosen = old.chosen /\ p.at = old.at
      BY <3>5 DEF Progress
    <3>7. scan' = [scan EXCEPT ![s].phase = "persisted", ![s].seen = read]
      BY <1>2, <3>2
    <3>8. /\ DOMAIN scan' = Scanners /\ scan' = [r \in Scanners |-> scan'[r]]
          /\ \A r \in Scanners : scan'[r] = IF r = s THEN p ELSE scan[r]
      BY ONLY <2>2, <3>3, <3>5, <3>7, s \in Scanners
    <3>. QED
      BY ONLY <2>2, <3>2, <3>3, <3>6, <3>8, s \in Scanners, p \in Progress
  <2>5. now' = now /\ now \in Times /\ now \in Int /\ Chosen' = Chosen
    BY <1>0, <2>1, <2>4, TimesAreNaturals DEF Typed, Chosen
  <2>6. \A c \in Candidates : rows'[c] \in Candidate
    <3> SUFFICES ASSUME NEW c \in Candidates PROVE rows'[c] \in Candidate
      OBVIOUS
    <3>1. /\ Updated(rows[c], scan[s].seen[c], scan[s].findings[c]) \in Candidate
          /\ Inserted(scan[s].findings[c]) \in Candidate
      BY <2>3, RowsAfterCommit
    <3>. QED
      BY <1>2, <2>3, <3>1 DEF CommittedRow
  <2>7. rows' \in [Candidates -> Candidate]
    BY <1>2, <2>6
  <2>8. Typed'
    BY <1>0, <2>1, <2>4, <2>7 DEF Typed
  <2>9. ASSUME NEW c \in Candidates
        PROVE  /\ RowKeeps(c) /\ ChoiceKeeps(c)
               /\ rows'[c].notified = rows[c].notified \/ rows'[c].notified = NoTime
               /\ Present(c)' => \/ rows'[c].firstSeen = now
                                 \/ Present(c) /\ rows'[c].firstSeen = rows[c].firstSeen
    <3>1. ChoiceKeeps(c)
      BY <2>4, <2>5, <2>1 DEF ChoiceKeeps
    <3>2. CASE rows'[c] = rows[c]
      BY <3>1, <3>2 DEF RowKeeps, Present
    <3>3. CASE rows[c].status = "absent" /\ rows'[c] = Inserted(scan[s].findings[c])
      <4>1. rows'[c].firstSeen = now /\ rows'[c].notified = NoTime
        BY <3>3, <2>3, InsertedColumns
      <4>2. ~Present(c)
        BY <3>3 DEF Present
      <4>. QED
        BY <3>1, <4>1, <4>2 DEF RowKeeps
    <3>4. CASE /\ scan[s].seen[c].status # "absent"
               /\ rows'[c] = Updated(rows[c], scan[s].seen[c], scan[s].findings[c])
      <4>1. Present(c)
        BY <3>4 DEF IInv, ReadsAreOfRows
      <4>2. /\ rows'[c].firstSeen = rows[c].firstSeen
            /\ rows[c].exploited => rows'[c].exploited
            /\ rows'[c].status \in {"open", rows[c].status}
            /\ rows'[c].notified \in {NoTime, rows[c].notified}
        BY <3>4, <2>3, UpdatedColumns
      <4>. QED
        BY <3>1, <4>1, <4>2 DEF RowKeeps, Present
    <3>. QED
      BY <1>2, <3>2, <3>3, <3>4 DEF CommittedRow
  <2>10. RowsAreDated'
    <3> SUFFICES ASSUME NEW c \in Candidates
                 PROVE  /\ Present(c)' => rows'[c].firstSeen \in Times /\ rows'[c].firstSeen <= now
                        /\ rows'[c].notified # NoTime =>
                              Present(c)' /\ rows'[c].exploited /\ rows'[c].notified <= now
      BY <2>5 DEF RowsAreDated, Present
    <3>1. Present(c)' => rows'[c].firstSeen \in Times /\ rows'[c].firstSeen <= now
      BY <2>5, <2>9 DEF IInv, RowsAreDated
    <3>2. ASSUME rows'[c].notified # NoTime
          PROVE  Present(c)' /\ rows'[c].exploited /\ rows'[c].notified <= now
      <4>1. rows'[c].notified = rows[c].notified
        BY <2>9, <3>2
      <4>2. rows[c].exploited /\ rows[c].notified <= now
        BY <4>1, <3>2 DEF IInv, RowsAreDated
      <4>3. Present(c)
        BY <3>2, <4>1 DEF IInv, RowsAreDated
      <4>. QED
        BY <4>1, <4>2, <4>3, <2>9 DEF RowKeeps
    <3>. QED
      BY <3>1, <3>2
  <2>11. ReadsAreOfRows'
    <3> SUFFICES ASSUME NEW r \in Scanners, NEW c \in Candidates
                 PROVE  /\ scan'[r].seen[c].status # "absent" => Present(c)'
                        /\ scan'[r].seen[c].notified # NoTime => scan'[r].seen[c].exploited
      BY DEF ReadsAreOfRows, Present
    <3>1. CASE r = s
      BY <3>1, <2>4 DEF Absent
    <3>2. CASE r # s
      BY <3>2, <2>4, <2>9 DEF IInv, ReadsAreOfRows, RowKeeps
    <3>. QED
      BY <3>1, <3>2
  <2>12. ChosenAreUntold'
    <3> SUFFICES ASSUME NEW c \in Chosen
                 PROVE  /\ Present(c)' /\ rows'[c].exploited /\ rows'[c].notified = NoTime
                        /\ scan["sweeper"].at \in Times /\ scan["sweeper"].at <= now
                        /\ rows'[c].firstSeen <= scan["sweeper"].at
      BY <2>1, <2>4, <2>5 DEF ChosenAreUntold, Chosen, Present
    <3>1. c \in Candidates
      BY <2>1, ProgressParts DEF Chosen
    <3>2. /\ Present(c) /\ rows[c].exploited /\ rows[c].notified = NoTime
          /\ scan["sweeper"].at \in Times /\ scan["sweeper"].at <= now
          /\ rows[c].firstSeen <= scan["sweeper"].at
      BY DEF IInv, ChosenAreUntold
    <3>. QED
      BY <3>1, <3>2, <2>9 DEF RowKeeps
  <2>13. CallFits' /\ RecordsFit'
    <3>1. now <= now'
      BY <2>5
    <3>. QED
      BY <1>0, <2>1, <2>8, <2>9, <3>1, AnchorsStand DEF IInv
  <2>14. ReadIsCurrent'
    <3> SUFFICES ASSUME ~ToolScans PROVE scan'["sweeper"].phase # "read"
      BY DEF ReadIsCurrent
    <3>1. s = "sweeper"
      BY DEF Scanners
    <3>. QED
      BY <3>1, <2>4
  <2>. QED
    BY <2>8, <2>10, <2>11, <2>12, <2>13, <2>14 DEF IInv
<1>. QED
  BY <1>1, <1>2, CommitCases

(* The stamp is written on what is chosen, and nothing stays chosen.       *)
LEMMA StampKeeps ==
  ASSUME IInv, Stamp
  PROVE  IInv'
<1>0. UNCHANGED <<now, listed, kev, records, call>>
  BY DEF Stamp
<1>1. Typed /\ "sweeper" \in Scanners /\ Chosen \subseteq Candidates
  BY ProgressParts DEF IInv, Chosen
<1>2. scan \in [Scanners -> Progress] /\ rows \in [Candidates -> Candidate]
  BY <1>1 DEF Typed
<1>3. PICK at \in MaybeTime : at = scan["sweeper"].at
  BY <1>1, ProgressParts
<1>4. rows' = [c \in Candidates |->
                  IF c \in Chosen THEN [rows[c] EXCEPT !.notified = at] ELSE rows[c]]
  BY <1>3 DEF Stamp, Chosen
<1>5. scan' = [scan EXCEPT !["sweeper"] = Resting]
  BY DEF Stamp
<1>6. scan'["sweeper"] = Resting /\ \A r \in Scanners : r # "sweeper" => scan'[r] = scan[r]
  BY <1>1, <1>2, <1>5
<1>7. Chosen' = {}
  BY <1>6 DEF Chosen, Resting
<1>8. now' = now /\ now \in Times /\ now \in Int /\ now <= now
  BY <1>0, <1>1, TimesAreNaturals DEF Typed
<1>9. ASSUME NEW c \in Candidates
      PROVE  /\ rows'[c] \in Candidate
             /\ rows'[c].status = rows[c].status
             /\ rows'[c].firstSeen = rows[c].firstSeen
             /\ rows'[c].exploited = rows[c].exploited
             /\ rows'[c].notified = IF c \in Chosen THEN at ELSE rows[c].notified
  <2>1. rows[c] \in Candidate
    BY <1>2
  <2>2. rows'[c] = IF c \in Chosen THEN [rows[c] EXCEPT !.notified = at] ELSE rows[c]
    BY <1>4
  <2>. QED
    BY <2>1, <2>2 DEF Candidate
<1>10. Typed'
  <2>1. scan' \in [Scanners -> Progress]
    BY <1>2, <1>5, RestingIsProgress
  <2>2. rows' \in [Candidates -> Candidate]
    BY <1>4, <1>9
  <2>. QED
    BY <1>0, <1>1, <2>1, <2>2 DEF Typed
<1>11. \A c \in Chosen : /\ Present(c) /\ rows[c].exploited /\ rows[c].notified = NoTime
                         /\ at \in Times /\ at <= now /\ rows[c].firstSeen <= at
  BY <1>3 DEF IInv, ChosenAreUntold
<1>12. RowsAreDated'
  <2> SUFFICES ASSUME NEW c \in Candidates
               PROVE  /\ Present(c)' => rows'[c].firstSeen \in Times /\ rows'[c].firstSeen <= now
                      /\ rows'[c].notified # NoTime =>
                            Present(c)' /\ rows'[c].exploited /\ rows'[c].notified <= now
    BY <1>8 DEF RowsAreDated, Present
  <2>. QED
    BY <1>9, <1>11 DEF IInv, RowsAreDated, Present
<1>13. ReadsAreOfRows'
  <2> SUFFICES ASSUME NEW r \in Scanners, NEW c \in Candidates
               PROVE  /\ scan'[r].seen[c].status # "absent" => Present(c)'
                      /\ scan'[r].seen[c].notified # NoTime => scan'[r].seen[c].exploited
    BY DEF ReadsAreOfRows, Present
  <2>1. CASE r = "sweeper"
    BY <2>1, <1>6 DEF Resting, Absent
  <2>2. CASE r # "sweeper"
    BY <2>2, <1>6, <1>9 DEF IInv, ReadsAreOfRows, Present
  <2>. QED
    BY <2>1, <2>2
<1>14. ChosenAreUntold'
  BY <1>7 DEF ChosenAreUntold
<1>15. \A c \in Candidates : RowKeeps(c) /\ ChoiceKeeps(c)
  BY <1>3, <1>7, <1>9 DEF RowKeeps, ChoiceKeeps, Present
<1>16. CallFits' /\ RecordsFit'
  BY <1>0, <1>1, <1>8, <1>10, <1>15, AnchorsStand DEF IInv
<1>17. ReadIsCurrent'
  BY <1>6 DEF ReadIsCurrent, Resting
<1>. QED
  BY <1>10, <1>12, <1>13, <1>14, <1>16, <1>17 DEF IInv

----------------------------------------------------------------------------
(* The tools and the world.                                                *)

(* A step that leaves the scanners alone and of a row only changes the     *)
(* decision on it.                                                         *)
LEMMA QuietKeeps ==
  ASSUME IInv, Typed', now <= now', UNCHANGED scan,
         \A c \in Candidates : /\ rows'[c].notified = rows[c].notified
                               /\ rows'[c].firstSeen = rows[c].firstSeen
                               /\ rows'[c].exploited = rows[c].exploited
                               /\ Present(c)' <=> Present(c)
  PROVE  /\ (UNCHANGED call \/ call' = NoCall) /\ UNCHANGED records => IInv'
         /\ CallFits' /\ UNCHANGED records => IInv'
         /\ UNCHANGED call /\ RecordsFit' => IInv'
<1>1. Typed /\ "sweeper" \in Scanners /\ Chosen \subseteq Candidates
  BY ProgressParts DEF IInv, Chosen
<1>2. now \in Int /\ now' \in Int /\ now <= now'
  BY <1>1, TimesAreNaturals DEF Typed
<1>3. scan' = scan /\ Chosen' = Chosen
  BY DEF Chosen
<1>4. \A t \in MaybeTime : t \in Int
  BY TimesAreNaturals DEF MaybeTime, NoTime
<1>5. \A c \in Candidates : /\ rows[c].notified \in Int
                            /\ rows[c].firstSeen \in Int
  BY <1>1, <1>4 DEF Typed, Candidate
<1>6. RowsAreDated'
  <2> SUFFICES ASSUME NEW c \in Candidates
               PROVE  /\ Present(c)' => rows'[c].firstSeen \in Times /\ rows'[c].firstSeen <= now'
                      /\ rows'[c].notified # NoTime =>
                            Present(c)' /\ rows'[c].exploited /\ rows'[c].notified <= now'
    BY DEF RowsAreDated, Present
  <2>. QED
    BY <1>2, <1>5 DEF IInv, RowsAreDated
<1>7. ReadsAreOfRows'
  <2> SUFFICES ASSUME NEW r \in Scanners, NEW c \in Candidates
               PROVE  /\ scan[r].seen[c].status # "absent" => Present(c)'
                      /\ scan[r].seen[c].notified # NoTime => scan[r].seen[c].exploited
    BY <1>3 DEF ReadsAreOfRows, Present
  <2>. QED
    BY DEF IInv, ReadsAreOfRows
<1>8. ChosenAreUntold'
  <2> SUFFICES ASSUME NEW c \in Chosen
               PROVE  /\ Present(c)' /\ rows'[c].exploited /\ rows'[c].notified = NoTime
                      /\ scan["sweeper"].at \in Times /\ scan["sweeper"].at <= now'
                      /\ rows'[c].firstSeen <= scan["sweeper"].at
    BY <1>3 DEF ChosenAreUntold, Present
  <2>1. c \in Candidates
    BY <1>1
  <2>2. scan["sweeper"].at \in Int
    BY <1>1, <1>4, ProgressParts
  <2>. QED
    BY <1>2, <2>1, <2>2 DEF IInv, ChosenAreUntold
<1>9. \A c \in Candidates : RowKeeps(c) /\ ChoiceKeeps(c)
  BY <1>3 DEF RowKeeps, ChoiceKeeps
<1>10. ReadIsCurrent'
  BY <1>3 DEF IInv, ReadIsCurrent
<1>11. /\ UNCHANGED call \/ call' = NoCall => CallFits'
       /\ UNCHANGED records => RecordsFit'
  BY <1>1, <1>9, AnchorsStand DEF IInv
<1>. QED
  BY <1>6, <1>7, <1>8, <1>10, <1>11 DEF IInv

LEMMA CheckKeeps ==
  ASSUME IInv, NEW c \in Candidates, NEW aware \in {NoTime, now}, ConfirmCheck(c, aware)
  PROVE  IInv'
<1>0. UNCHANGED <<now, listed, kev, rows, records, scan>>
  BY DEF ConfirmCheck
<1>1. Typed /\ rows[c] \in Candidate /\ now \in Times /\ Present(c)
  BY DEF IInv, Typed, ConfirmCheck, Present
<1>2. PICK anchor : anchor = IF aware = NoTime THEN DefaultAnchor(rows[c]) ELSE aware
  OBVIOUS
<1>3. /\ now \in Int /\ now # NoTime /\ NoTime \in Int /\ now <= now
      /\ \A t \in Times : t \in Int /\ t # NoTime
  BY <1>1, TimesAreNaturals DEF NoTime
<1>4. PICK exploited \in BOOLEAN : exploited = rows[c].exploited
  BY <1>1 DEF Candidate
<1>5. PICK stated \in BOOLEAN : stated = (aware # NoTime)
  OBVIOUS
<1>6. call' = [candidate |-> c, exploited |-> exploited, anchor |-> anchor,
               stated |-> stated, record |-> 0]
  BY <1>2, <1>4, <1>5 DEF ConfirmCheck
<1>7. rows[c].firstSeen \in Times /\ rows[c].firstSeen <= now
  BY <1>1 DEF IInv, RowsAreDated
<1>8. rows[c].notified # NoTime => rows[c].notified \in Times /\ rows[c].notified <= now
  BY <1>1 DEF IInv, RowsAreDated, Candidate, MaybeTime
<1>9. anchor \in Times
  BY <1>1, <1>2, <1>7, <1>8 DEF DefaultAnchor
<1>10. ~stated => Fits(c, anchor)
  <2> SUFFICES ASSUME aware = NoTime PROVE Fits(c, anchor)
    BY <1>5
  <2>1. anchor = DefaultAnchor(rows[c])
    BY <1>2
  <2>2. c \in Chosen => /\ rows[c].notified = NoTime
                        /\ rows[c].firstSeen <= scan["sweeper"].at
    BY DEF IInv, ChosenAreUntold
  <2>3. CASE rows[c].notified = NoTime
    BY <1>1, <1>7, <2>1, <2>2, <2>3 DEF Fits, DefaultAnchor
  <2>4. CASE rows[c].notified # NoTime
    <3>1. anchor = rows[c].notified /\ anchor \in Int /\ anchor <= now /\ c \notin Chosen
      BY <1>3, <1>8, <2>1, <2>2, <2>4 DEF DefaultAnchor
    <3>2. anchor <= rows[c].notified
      BY <3>1
    <3>. QED
      BY <1>1, <3>1, <3>2 DEF Fits
  <2>. QED
    BY <2>3, <2>4
<1>11. call' \in Confirmation
  BY <1>6, <1>9, AdvisoryAssumption DEF Confirmation, MaybeTime
<1>12. Typed'
  BY <1>0, <1>1, <1>11 DEF Typed
<1>13. Fits(c, anchor)' <=> Fits(c, anchor)
  BY <1>0 DEF Fits, Present, Chosen
<1>14. CallFits'
  <2>1. /\ call'.record = 0 /\ call'.candidate = c /\ call'.anchor = anchor
        /\ call'.stated = stated
    BY <1>6
  <2>2. ~call'.stated => Fits(call.candidate, call.anchor)'
    BY <2>1, <1>10, <1>13 DEF Fits, Present, Chosen
  <2>3. Present(call.candidate)'
    BY <1>0, <1>1, <2>1 DEF Present
  <2>. QED
    BY <2>1, <2>2, <2>3, <1>9 DEF CallFits
<1>15. UNCHANGED scan /\ UNCHANGED records /\ now <= now'
  BY <1>0, <1>3
<1>16. \A d \in Candidates : /\ rows'[d].notified = rows[d].notified
                             /\ rows'[d].firstSeen = rows[d].firstSeen
                             /\ rows'[d].exploited = rows[d].exploited
                             /\ Present(d)' <=> Present(d)
  BY <1>0 DEF Present
<1>. QED
  BY <1>12, <1>14, <1>15, <1>16, QuietKeeps

LEMMA RecordKeeps ==
  ASSUME IInv, ConfirmRecord
  PROVE  IInv'
<1>0. UNCHANGED <<now, listed, kev, rows, scan>>
  BY DEF ConfirmRecord
<1>1. Typed /\ records \in Seq(Record) /\ call \in Confirmation /\ now \in Times
  BY DEF IInv, Typed
<1>2. PICK r : r = [candidate |-> call.candidate, aware |-> call.anchor,
                    exploited |-> call.exploited, stated |-> call.stated]
  OBVIOUS
<1>3. PICK n \in 1..MaxRecords : n = Len(records) + 1
  BY <1>1, LenProperties, AdvisoryAssumption DEF ConfirmRecord
<1>4. call.candidate \in Candidates /\ call.anchor \in Times
  BY <1>1 DEF ConfirmRecord, Confirmation, IInv, CallFits
<1>5. r \in Record
  BY <1>1, <1>2, <1>4 DEF Record, Confirmation
<1>6. records' = Append(records, r) /\ call' = [call EXCEPT !.record = n]
  BY <1>2, <1>3 DEF ConfirmRecord
<1>7. /\ records' \in Seq(Record) /\ Len(records') = n
      /\ \A m \in 1..Len(records) : records'[m] = records[m]
      /\ records'[n] = r
  BY <1>1, <1>3, <1>5, <1>6, AppendProperties
<1>8. /\ call' \in Confirmation
      /\ call'.candidate = call.candidate /\ call'.anchor = call.anchor
      /\ call'.stated = call.stated
  BY <1>1, <1>3, <1>6 DEF Confirmation
<1>9. Typed'
  BY <1>0, <1>1, <1>3, <1>7, <1>8 DEF Typed
<1>10. \A d, a : Fits(d, a)' <=> Fits(d, a)
  BY <1>0 DEF Fits, Present, Chosen
<1>11. CallFits'
  <2>1. ~call'.stated => Fits(call.candidate, call.anchor)'
    BY <1>0, <1>8 DEF IInv, CallFits, ConfirmRecord, Fits, Present, Chosen
  <2>2. Present(call.candidate)'
    BY <1>0, <1>8 DEF IInv, CallFits, ConfirmRecord, Present
  <2>. QED
    BY <2>1, <2>2, <1>4, <1>8 DEF CallFits, ConfirmRecord
<1>12. RecordsFit'
  <2> SUFFICES ASSUME NEW m \in 1..n, ~records'[m].stated
               PROVE  Fits(records[m].candidate, records[m].aware)'
    BY <1>7 DEF RecordsFit
  <2>1. CASE m = n
    <3>1. ~call.stated => Fits(call.candidate, call.anchor)
      BY DEF IInv, CallFits, ConfirmRecord
    <3>2. /\ records'[m].candidate = call.candidate /\ records'[m].aware = call.anchor
          /\ records'[m].stated = call.stated
      BY <1>2, <1>7, <2>1
    <3>. QED
      BY <3>1, <3>2, <1>0 DEF Fits, Present, Chosen
  <2>2. CASE m # n
    <3>1. m \in 1..Len(records) /\ records'[m] = records[m]
      BY <2>2, <1>1, <1>3, <1>7, LenProperties
    <3>2. Fits(records[m].candidate, records[m].aware)
      BY <3>1 DEF IInv, RecordsFit
    <3>. QED
      BY <3>1, <3>2, <1>0 DEF Fits, Present, Chosen
  <2>. QED
    BY <2>1, <2>2
<1>13. RowsAreDated' /\ ReadsAreOfRows' /\ ChosenAreUntold' /\ ReadIsCurrent'
  BY <1>0 DEF IInv, RowsAreDated, ReadsAreOfRows, ChosenAreUntold, ReadIsCurrent,
              Present, Chosen
<1>. QED
  BY <1>9, <1>11, <1>12, <1>13 DEF IInv

LEMMA CloseKeeps ==
  ASSUME IInv, ConfirmClose
  PROVE  IInv'
<1>0. UNCHANGED <<now, listed, kev, records, scan>> /\ call' = NoCall
  BY DEF ConfirmClose
<1>1. /\ Typed /\ rows \in [Candidates -> Candidate] /\ call \in Confirmation
      /\ now \in Int /\ NoCall \in Confirmation
  BY TimesAreNaturals, AdvisoryAssumption DEF IInv, Typed, NoCall, Confirmation, MaybeTime
<1>2. PICK d \in Candidates : d = call.candidate
  BY <1>1 DEF IInv, CallFits, ConfirmClose, Confirmation
<1>3. PICK n \in 0..MaxRecords : n = call.record
  BY <1>1 DEF Confirmation
<1>4. Present(d) /\ rows[d] \in Candidate
  BY <1>1, <1>2 DEF IInv, CallFits, ConfirmClose
<1>5. rows' = [rows EXCEPT ![d] = [rows[d] EXCEPT !.status = "confirmed", !.vulnerability = n]]
  <2>1. rows' = [rows EXCEPT ![d].status = "confirmed", ![d].vulnerability = n]
    BY <1>2, <1>3 DEF ConfirmClose
  <2>. QED
    BY ONLY <2>1, <1>1, d \in Candidates
<1>6. PICK row \in Candidate : row = [rows[d] EXCEPT !.status = "confirmed", !.vulnerability = n]
  BY <1>4 DEF Candidate
<1>7. /\ row.notified = rows[d].notified /\ row.firstSeen = rows[d].firstSeen
      /\ row.exploited = rows[d].exploited /\ row.status = "confirmed"
  BY <1>4, <1>6 DEF Candidate
<1>8. rows' = [rows EXCEPT ![d] = row]
  BY <1>5, <1>6
<1>9. Typed'
  BY <1>0, <1>1, <1>8 DEF Typed
<1>10. \A c \in Candidates : /\ rows'[c].notified = rows[c].notified
                             /\ rows'[c].firstSeen = rows[c].firstSeen
                             /\ rows'[c].exploited = rows[c].exploited
                             /\ Present(c)' <=> Present(c)
  BY <1>1, <1>4, <1>7, <1>8 DEF Present
<1>11. UNCHANGED scan /\ UNCHANGED records /\ now <= now'
  BY <1>0, <1>1
<1>. QED
  BY <1>0, <1>9, <1>10, <1>11, QuietKeeps

LEMMA DismissKeeps ==
  ASSUME IInv, NEW d \in Candidates, Dismiss(d)
  PROVE  IInv'
<1>0. UNCHANGED <<now, listed, kev, records, scan, call>>
  BY DEF Dismiss
<1>1. Typed /\ rows \in [Candidates -> Candidate] /\ now \in Int /\ rows[d] \in Candidate
  BY TimesAreNaturals DEF IInv, Typed
<1>2. PICK score \in Scores : score = rows[d].epss
  BY <1>1 DEF Candidate
<1>3. rows' = [rows EXCEPT ![d].status = "dismissed", ![d].pinned = score]
  BY <1>2 DEF Dismiss
<1>4. PICK row \in Candidate : row = [rows[d] EXCEPT !.status = "dismissed", !.pinned = score]
  BY <1>1 DEF Candidate
<1>5. /\ row.notified = rows[d].notified /\ row.firstSeen = rows[d].firstSeen
      /\ row.exploited = rows[d].exploited /\ row.status = "dismissed"
  BY <1>1, <1>4 DEF Candidate
<1>6. rows' = [rows EXCEPT ![d] = row]
  BY ONLY <1>1, <1>3, <1>4, d \in Candidates
<1>7. Typed'
  BY <1>0, <1>1, <1>6 DEF Typed
<1>8. \A c \in Candidates : /\ rows'[c].notified = rows[c].notified
                            /\ rows'[c].firstSeen = rows[c].firstSeen
                            /\ rows'[c].exploited = rows[c].exploited
                            /\ Present(c)' <=> Present(c)
  BY <1>1, <1>5, <1>6 DEF Present, Dismiss
<1>9. UNCHANGED scan /\ UNCHANGED records /\ now <= now' /\ UNCHANGED call
  BY <1>0, <1>1
<1>. QED
  BY <1>7, <1>8, <1>9, QuietKeeps

LEMMA WorldKeeps ==
  ASSUME IInv, (\E c \in Candidates : List(c)) \/ Tick
  PROVE  IInv'
<1>1. UNCHANGED <<kev, rows, records, scan, call>>
  BY DEF List, Tick
<1>2. now \in Int
  BY TimesAreNaturals DEF IInv, Typed
<1>3. Typed' /\ now <= now'
  BY <1>1, <1>2 DEF IInv, Typed, List, Tick
<1>4. \A c \in Candidates : /\ rows'[c].notified = rows[c].notified
                            /\ rows'[c].firstSeen = rows[c].firstSeen
                            /\ rows'[c].exploited = rows[c].exploited
                            /\ Present(c)' <=> Present(c)
  BY <1>1 DEF Present
<1>5. UNCHANGED scan /\ UNCHANGED records /\ UNCHANGED call
  BY <1>1
<1>. QED
  BY <1>3, <1>4, <1>5, QuietKeeps

(* A restart forgets what was in flight; the rows stay.                    *)
LEMMA CrashKeeps ==
  ASSUME IInv, Crash
  PROVE  IInv'
<1>0. /\ UNCHANGED <<now, listed, rows, records>> /\ call' = NoCall
      /\ scan' = [s \in Scanners |-> Resting]
  BY DEF Crash
<1>1. Typed /\ "sweeper" \in Scanners /\ now \in Int /\ now' \in Int /\ now <= now'
  BY <1>0, ProgressParts, TimesAreNaturals DEF IInv, Typed
<1>2. NoCall \in Confirmation
  BY AdvisoryAssumption DEF NoCall, Confirmation, MaybeTime
<1>3. Typed'
  BY <1>0, <1>1, <1>2, RestingIsProgress, AdvisoryAssumption DEF Typed, Crash
<1>4. Chosen' = {} /\ scan'["sweeper"].phase = "idle"
  BY <1>0, <1>1 DEF Chosen, Resting
<1>5. RowsAreDated' /\ ReadsAreOfRows'
  BY <1>0 DEF IInv, RowsAreDated, ReadsAreOfRows, Present, Resting, Absent
<1>6. ChosenAreUntold' /\ ReadIsCurrent'
  BY <1>4 DEF ChosenAreUntold, ReadIsCurrent
<1>7. \A c \in Candidates : RowKeeps(c) /\ ChoiceKeeps(c)
  BY <1>0, <1>4 DEF RowKeeps, ChoiceKeeps, Present
<1>8. CallFits' /\ RecordsFit'
  BY <1>0, <1>1, <1>3, <1>7, AnchorsStand DEF IInv
<1>. QED
  BY <1>3, <1>5, <1>6, <1>8 DEF IInv

LEMMA StepKeeps == IInv /\ [Next]_vars => IInv'
<1> SUFFICES ASSUME IInv, [Next]_vars PROVE IInv'
  OBVIOUS
<1>1. CASE UNCHANGED vars
  BY <1>1 DEF vars, IInv, Typed, RowsAreDated, ReadsAreOfRows, ChosenAreUntold, CallFits,
              RecordsFit, ReadIsCurrent, Fits, Present, Chosen
<1>2. ASSUME NEW s \in Scanners, ScanStep(s) PROVE IInv'
  <2>1. ASSUME NEW refreshed \in BOOLEAN, NEW osvOk \in BOOLEAN,
               ScanAnswered(s, refreshed, osvOk)
        PROVE  IInv'
    BY <2>1, FeedsKeep DEF ScanAnswered
  <2>. QED
    BY <1>2, <2>1, ReadKeeps, CommitKeeps, RecordScanKeeps DEF ScanStep
<1>3. CASE ChooseUntold
  BY <1>3, ChooseKeeps
<1>4. CASE SendMails \/ Stamp \/ RollBack
  BY <1>4, SendMailsKeeps, StampKeeps, RollBackKeeps
<1>5. CASE \E c \in Candidates, aware \in {NoTime, now} : ConfirmCheck(c, aware)
  BY <1>5, CheckKeeps
<1>6. CASE ConfirmStep
  BY <1>6, RecordKeeps, CloseKeeps DEF ConfirmStep
<1>7. CASE \E c \in Candidates : Dismiss(c)
  BY <1>7, DismissKeeps
<1>8. CASE (\E c \in Candidates : List(c)) \/ Tick
  BY <1>8, WorldKeeps
<1>9. CASE Crash
  BY <1>9, CrashKeeps
<1>. QED
  BY <1>1, <1>2, <1>3, <1>4, <1>5, <1>6, <1>7, <1>8, <1>9 DEF Next

----------------------------------------------------------------------------
(* The inductive invariant of the pipeline holds in every state.           *)
THEOREM Invariant == Spec => []IInv
BY InitHolds, StepKeeps, PTL DEF Spec

(* Mailings and crashes are counted apart from the rest: no other variable *)
(* depends on them.                                                        *)
Counted ==
    /\ crashes \in 0..MaxCrashes
    /\ mailings \in [Candidates -> Mailings]

LEMMA CountsHold == Spec => []Counted
<1>1. Init => Counted
  BY AdvisoryAssumption DEF Init, Counted, Mailings, Unmailed
<1>2. Counted /\ [Next]_vars => Counted'
  <2> SUFFICES ASSUME Counted, [Next]_vars PROVE Counted'
    OBVIOUS
  <2> USE AdvisoryAssumption DEF Counted
  <2>1. ASSUME UNCHANGED <<crashes, mailings>> PROVE Counted'
    BY <2>1
  <2>2. ASSUME NEW s \in Scanners, CommitRows(s) PROVE Counted'
    BY <2>2 DEF CommitRows, Mailings, Unmailed
  <2>3. CASE SendMails
    BY <2>3 DEF SendMails, Mailings
  <2>4. StampLost => mailings' \in [Candidates -> Mailings]
    BY DEF StampLost, Mailings
  <2>5. CASE RollBack \/ Crash
    BY <2>4, <2>5 DEF RollBack, Crash
  <2>6. ASSUME NEW s \in Scanners, ScanStep(s) PROVE Counted'
    BY <2>1, <2>2, <2>6 DEF ScanStep, ScanAnswered, FeedsAnswer, ReadRows, RecordScan
  <2>7. CASE ChooseUntold \/ Stamp \/ ConfirmStep \/ Tick \/ UNCHANGED vars
    BY <2>1, <2>7 DEF ChooseUntold, Stamp, ConfirmStep, ConfirmRecord, ConfirmClose, Tick, vars
  <2>8. ASSUME NEW c \in Candidates, NEW aware \in {NoTime, now},
               ConfirmCheck(c, aware) \/ Dismiss(c) \/ List(c)
        PROVE  Counted'
    BY <2>1, <2>8 DEF ConfirmCheck, Dismiss, List
  <2>. QED
    BY <2>3, <2>5, <2>6, <2>7, <2>8 DEF Next
<1>. QED
  BY <1>1, <1>2, PTL DEF Spec

(* Every variable stays in its range, crashes and failed scans included.   *)
THEOREM TypesHold == Spec => []TypeOK
<1>1. IInv /\ Counted => TypeOK
  <2> SUFFICES ASSUME IInv, Counted PROVE TypeOK
    OBVIOUS
  <2>1. Typed
    BY DEF IInv
  <2>2. \A n \in 1..Len(records) : records[n] \in Record
    BY <2>1, ElementOfSeq DEF Typed
  <2>. QED
    BY <2>1, <2>2 DEF Typed, Counted, TypeOK, Progress, Phases, Confirmation, Record
<1>. QED
  BY <1>1, Invariant, CountsHold, PTL

(* The clocks of a record whose awareness the caller did not state never   *)
(* count from later than the notification its row bears: confirm_advisory  *)
(* copies the anchor in one transaction and uses it in another, while the  *)
(* sweeper may be stamping the row (AnchoredWhenTold).                     *)
THEOREM AnchorsAreEarly == Spec => []AnchoredWhenTold
<1>1. IInv => AnchoredWhenTold
  BY DEF IInv, RecordsFit, Fits, AnchoredWhenTold
<1>. QED
  BY <1>1, Invariant, PTL

(* What of a mailing is still to be stamped, what the sweeper may still    *)
(* choose, and what a mailed question leaves on its row: an untold row has *)
(* had no mailing but the one just sent and those whose stamp was lost.    *)
Awaited(c) == scan["sweeper"].phase = "mailed" /\ c \in Chosen

ChosenInTurn == scan["sweeper"].phase \notin {"chosen", "mailed"} => Chosen = {}

DismissedAsRead ==
    scan["sweeper"].phase = "read" =>
        \A c \in Candidates :
            scan["sweeper"].seen[c].status = "dismissed" => rows[c].status # "open"

MailsAccounted ==
    \A c \in Candidates :
        /\ mailings[c].mails <= 1 + mailings[c].lost
        /\ rows[c].notified = NoTime /\ ~Awaited(c) => mailings[c].mails <= mailings[c].lost

MailInv == ChosenInTurn /\ DismissedAsRead /\ MailsAccounted

(* Steps that leave the mails alone: of a row only the decision changes,   *)
(* and never to open; nothing is chosen but from what the sweeper reads.   *)
LEMMA MailsStand ==
  ASSUME IInv, Counted, MailInv, UNCHANGED mailings,
         \A c \in Candidates : /\ rows'[c].notified = rows[c].notified
                               /\ rows[c].status # "open" => rows'[c].status # "open",
         \/ UNCHANGED scan
         \/ /\ scan["sweeper"].phase # "mailed" /\ scan'["sweeper"].phase # "mailed"
            /\ scan'["sweeper"].phase # "chosen" => Chosen' = {}
            /\ scan'["sweeper"].phase = "read" => scan'["sweeper"].seen = rows /\ UNCHANGED rows
  PROVE  MailInv'
<1>1. CASE UNCHANGED scan
  BY <1>1 DEF MailInv, ChosenInTurn, DismissedAsRead, MailsAccounted, Awaited, Chosen
<1>2. CASE /\ scan["sweeper"].phase # "mailed" /\ scan'["sweeper"].phase # "mailed"
           /\ scan'["sweeper"].phase # "chosen" => Chosen' = {}
           /\ scan'["sweeper"].phase = "read" => scan'["sweeper"].seen = rows /\ UNCHANGED rows
  BY <1>2 DEF MailInv, ChosenInTurn, DismissedAsRead, MailsAccounted, Awaited
<1>. QED
  BY <1>1, <1>2

(* A transaction lost after its mails leaves one lost mailing per row.     *)
LEMMA LostMailsKeep ==
  ASSUME IInv, Counted, MailInv, StampLost, UNCHANGED rows,
         scan'["sweeper"].phase = "idle", Chosen' = {}
  PROVE  MailInv'
<1>1. ASSUME NEW c \in Candidates
      PROVE  /\ mailings'[c].mails <= 1 + mailings'[c].lost
             /\ rows[c].notified = NoTime => mailings'[c].mails <= mailings'[c].lost
  <2>1. mailings[c] \in Mailings
    BY DEF Counted
  <2>2. /\ mailings[c].mails <= 1 + mailings[c].lost
        /\ rows[c].notified = NoTime /\ ~Awaited(c) => mailings[c].mails <= mailings[c].lost
    BY DEF MailInv, MailsAccounted
  <2>3. CASE Awaited(c)
    <3>1. mailings'[c] = [mailings[c] EXCEPT !.lost = @ + 1]
      BY <2>3 DEF StampLost, Awaited
    <3>2. mailings'[c].mails = mailings[c].mails /\ mailings'[c].lost = mailings[c].lost + 1
      BY <2>1, <3>1 DEF Mailings
    <3>. QED
      BY <2>1, <2>2, <3>2 DEF Mailings
  <2>4. CASE ~Awaited(c)
    <3>1. mailings'[c] = mailings[c]
      BY <2>4 DEF StampLost, Awaited
    <3>. QED
      BY <2>2, <2>4, <3>1
  <2>. QED
    BY <2>3, <2>4
<1>. QED
  BY <1>1 DEF MailInv, ChosenInTurn, DismissedAsRead, MailsAccounted, Awaited

(* A scan's commit clears a stamp only where it asks anew: it alone        *)
(* re-opens rows, and it read this one as it still is.                     *)
LEMMA CommitMailsKeep ==
  ASSUME ToolScans = FALSE, IInv, Counted, MailInv, CommitRows("sweeper")
  PROVE  MailInv'
<1>1. "sweeper" \in Scanners /\ Typed /\ Chosen = {} /\ scan["sweeper"].phase = "read"
  BY ProgressParts DEF IInv, MailInv, ChosenInTurn, CommitRows
<1>2. scan'["sweeper"].phase \in {"idle", "persisted"} /\ Chosen' = {}
  <2>1. scan["sweeper"] \in Progress /\ scan \in [Scanners -> Progress]
    BY <1>1 DEF Typed
  <2>2. CASE scan' = [scan EXCEPT !["sweeper"] = Resting]
    BY <1>1, <2>1, <2>2 DEF Chosen, Resting
  <2>3. CASE scan' = [scan EXCEPT !["sweeper"].phase = "persisted",
                                  !["sweeper"].seen = [c \in Candidates |-> Absent]]
    <3>1. PICK read : read = [c \in Candidates |-> Absent]
      OBVIOUS
    <3>2. scan' = [scan EXCEPT !["sweeper"].phase = "persisted", !["sweeper"].seen = read]
      BY <2>3, <3>1
    <3>3. scan'["sweeper"].phase = "persisted"
          /\ scan'["sweeper"].chosen = scan["sweeper"].chosen
      BY <1>1, <2>1, <3>2 DEF Progress
    <3>. QED
      BY <1>1, <3>3 DEF Chosen
  <2>. QED
    BY <1>1, <2>2, <2>3, CommitCases
<1>3. ASSUME NEW c \in Candidates
      PROVE  /\ mailings'[c].mails <= 1 + mailings'[c].lost
             /\ rows'[c].notified = NoTime => mailings'[c].mails <= mailings'[c].lost
  <2>1. mailings'[c] = IF AskedAnew(rows[c], rows'[c]) THEN Unmailed ELSE mailings[c]
    BY DEF CommitRows
  <2>2. /\ mailings[c].mails <= 1 + mailings[c].lost
        /\ rows[c].notified = NoTime => mailings[c].mails <= mailings[c].lost
    BY <1>1 DEF MailInv, MailsAccounted, Awaited
  <2>3. CASE AskedAnew(rows[c], rows'[c])
    BY <2>1, <2>3 DEF Unmailed
  <2>4. CASE ~AskedAnew(rows[c], rows'[c])
    <3>1. rows'[c].notified = NoTime => rows[c].notified = NoTime
      <4>1. rows'[c] = rows[c] \/ CommittedRow("sweeper", c)
        BY <1>1, CommitCases
      <4>2. /\ rows[c] \in Candidate /\ scan["sweeper"].findings[c] \in Finding
            /\ scan["sweeper"].seen[c] \in Candidate
        BY <1>1, ProgressParts DEF Typed
      <4>3. CASE rows[c].status = "absent"
                 /\ rows'[c] = Inserted(scan["sweeper"].findings[c])
        BY <2>4, <4>2, <4>3, InsertedColumns DEF AskedAnew
      <4>4. CASE rows'[c] = Updated(rows[c], scan["sweeper"].seen[c],
                                    scan["sweeper"].findings[c])
        <5> DEFINE seen == scan["sweeper"].seen[c]
                   f == scan["sweeper"].findings[c]
        <5> HIDE DEF seen, f
        <5>1. /\ rows[c] \in Candidate /\ seen \in Candidate /\ f \in Finding
              /\ rows'[c] = Updated(rows[c], seen, f)
          BY <4>2, <4>4 DEF seen, f
        <5>2. seen.exploited = rows[c].exploited
          BY <1>1 DEF IInv, ReadIsCurrent, seen
        <5>3. seen.notified # NoTime => seen.exploited
          BY <1>1 DEF IInv, ReadsAreOfRows, seen
        <5>4. seen.status = "dismissed" => rows[c].status # "open"
          BY <1>1 DEF MailInv, DismissedAsRead, seen
        <5>5. CASE Reopens(seen, f) /\ seen.notified # NoTime
          <6>1. seen.status = "dismissed"
            BY <5>5 DEF Reopens, ReopensOnRise
          <6>2. rows'[c].status = "open"
            BY <5>1, <5>5, UpdatedColumns
          <6>. QED
            BY <6>1, <6>2, <5>4, <2>4 DEF AskedAnew
        <5>6. CASE seen.notified = NoTime \/ ~Reopens(seen, f)
          <6>1. ~((BecameExploited(seen, f) \/ Reopens(seen, f)) /\ seen.notified # NoTime)
            BY <5>3, <5>6 DEF BecameExploited
          <6>. QED
            BY <5>1, <6>1, UpdatedColumns
        <5>. QED
          BY <5>5, <5>6
      <4>. QED
        BY <4>1, <4>3, <4>4 DEF CommittedRow
    <3>. QED
      BY <2>1, <2>2, <2>4, <3>1
  <2>. QED
    BY <2>3, <2>4
<1>. QED
  BY <1>2, <1>3 DEF MailInv, ChosenInTurn, DismissedAsRead, MailsAccounted, Awaited

LEMMA SentMailsKeep ==
  ASSUME IInv, Counted, MailInv, SendMails
  PROVE  MailInv'
<1>1. "sweeper" \in Scanners /\ scan["sweeper"] \in Progress /\ scan \in [Scanners -> Progress]
  BY ProgressParts DEF IInv, Typed
<1>2. /\ scan["sweeper"].phase = "chosen" /\ scan'["sweeper"].phase = "mailed"
      /\ Chosen' = Chosen /\ UNCHANGED rows
  BY <1>1 DEF SendMails, Progress, Chosen
<1>3. ASSUME NEW c \in Candidates
      PROVE  /\ mailings'[c].mails <= 1 + mailings'[c].lost
             /\ rows[c].notified = NoTime /\ c \notin Chosen =>
                   mailings'[c].mails <= mailings'[c].lost
  <2>1. mailings[c] \in Mailings
    BY DEF Counted
  <2>2. /\ mailings[c].mails <= 1 + mailings[c].lost
        /\ rows[c].notified = NoTime => mailings[c].mails <= mailings[c].lost
    BY <1>2 DEF MailInv, MailsAccounted, Awaited
  <2>3. CASE c \in Chosen
    <3>1. mailings'[c] = [mailings[c] EXCEPT !.mails = @ + 1]
      BY <2>3 DEF SendMails
    <3>2. mailings'[c].mails = mailings[c].mails + 1 /\ mailings'[c].lost = mailings[c].lost
      BY <2>1, <3>1 DEF Mailings
    <3>3. rows[c].notified = NoTime
      BY <2>3 DEF IInv, ChosenAreUntold
    <3>. QED
      BY <2>1, <2>2, <2>3, <3>2, <3>3 DEF Mailings
  <2>4. CASE c \notin Chosen
    <3>1. mailings'[c] = mailings[c]
      BY <2>4 DEF SendMails
    <3>. QED
      BY <2>2, <3>1
  <2>. QED
    BY <2>3, <2>4
<1>. QED
  BY <1>2, <1>3 DEF MailInv, ChosenInTurn, DismissedAsRead, MailsAccounted, Awaited

LEMMA StampedMailsKeep ==
  ASSUME IInv, Counted, MailInv, Stamp
  PROVE  MailInv'
<1>1. "sweeper" \in Scanners /\ scan \in [Scanners -> Progress]
      /\ rows \in [Candidates -> Candidate]
  BY ProgressParts DEF IInv, Typed
<1>2. scan'["sweeper"].phase = "idle" /\ Chosen' = {} /\ UNCHANGED mailings
  BY <1>1 DEF Stamp, Chosen, Resting
<1>3. ASSUME NEW c \in Candidates, rows'[c].notified = NoTime
      PROVE  rows[c].notified = NoTime /\ ~Awaited(c)
  <2>1. CASE c \in Chosen
    <3>1. rows'[c].notified = scan["sweeper"].at
      BY <1>1, <2>1 DEF Stamp, Chosen, Candidate
    <3>2. scan["sweeper"].at # NoTime
      BY <2>1, TimesAreNaturals DEF IInv, ChosenAreUntold
    <3>. QED
      BY <1>3, <3>1, <3>2
  <2>2. CASE c \notin Chosen
    BY <1>3, <2>2 DEF Stamp, Chosen, Awaited
  <2>. QED
    BY <2>1, <2>2
<1>. QED
  BY <1>2, <1>3 DEF MailInv, ChosenInTurn, DismissedAsRead, MailsAccounted, Awaited

LEMMA MailsStep ==
  ASSUME ToolScans = FALSE, IInv, Counted, MailInv, [Next]_vars
  PROVE  MailInv'
<1>1. /\ Scanners = {"sweeper"} /\ scan \in [Scanners -> Progress]
      /\ scan["sweeper"] \in Progress /\ rows \in [Candidates -> Candidate]
  BY ProgressParts DEF IInv, Typed, Scanners
<1>2. ASSUME UNCHANGED <<rows, scan, mailings>> PROVE MailInv'
  BY <1>2, MailsStand
<1>3. ASSUME NEW refreshed \in BOOLEAN, NEW osvOk \in BOOLEAN,
             ScanAnswered("sweeper", refreshed, osvOk)
      PROVE  MailInv'
  <2>1. /\ scan["sweeper"].phase = "idle" /\ scan'["sweeper"].phase = "fetched"
        /\ Chosen' = {} /\ UNCHANGED <<rows, mailings>>
    BY <1>1, <1>3 DEF ScanAnswered, FeedsAnswer, Chosen, Resting
  <2>. QED
    BY <2>1, MailsStand
<1>4. CASE ReadRows("sweeper")
  <2>1. /\ scan["sweeper"].phase = "fetched" /\ scan'["sweeper"].phase = "read"
        /\ scan'["sweeper"].seen = rows /\ Chosen' = Chosen /\ UNCHANGED <<rows, mailings>>
    BY <1>1, <1>4 DEF ReadRows, Chosen, Progress
  <2>2. Chosen = {}
    BY <2>1 DEF MailInv, ChosenInTurn
  <2>. QED
    BY <2>1, <2>2, MailsStand
<1>5. CASE RecordScan("sweeper")
  <2>1. /\ scan["sweeper"].phase = "persisted" /\ scan'["sweeper"].phase \in {"idle", "recorded"}
        /\ Chosen' = {} /\ UNCHANGED <<rows, mailings>>
    BY <1>1, <1>5 DEF RecordScan, Chosen, Resting
  <2>. QED
    BY <2>1, MailsStand
<1>6. CASE ChooseUntold
  <2>1. /\ scan["sweeper"].phase = "recorded" /\ UNCHANGED <<rows, mailings>>
        /\ \/ scan'["sweeper"].phase = "chosen"
           \/ scan'["sweeper"].phase = "idle" /\ Chosen' = {}
    BY <1>1, <1>6 DEF ChooseUntold, Chosen, Resting, Progress
  <2>. QED
    BY <2>1, MailsStand
<1>7. CASE RollBack \/ Crash
  BY <1>1, <1>7, LostMailsKeep DEF RollBack, Crash, Chosen, Resting
<1>8. CASE ConfirmClose
  <2>1. PICK d \in Candidates : d = call.candidate
    BY <1>8 DEF IInv, Typed, CallFits, ConfirmClose, Confirmation
  <2>2. \A c \in Candidates : /\ rows'[c].notified = rows[c].notified
                              /\ rows[c].status # "open" => rows'[c].status # "open"
    BY <1>1, <1>8, <2>1 DEF ConfirmClose, Candidate
  <2>. QED
    BY <1>8, <2>2, MailsStand DEF ConfirmClose
<1>9. ASSUME NEW d \in Candidates, Dismiss(d) PROVE MailInv'
  <2>1. \A c \in Candidates : /\ rows'[c].notified = rows[c].notified
                              /\ rows[c].status # "open" => rows'[c].status # "open"
    BY <1>1, <1>9 DEF Dismiss, Candidate
  <2>. QED
    BY <1>9, <2>1, MailsStand DEF Dismiss
<1>10. CASE ConfirmRecord \/ Tick \/ UNCHANGED vars
  BY <1>2, <1>10 DEF ConfirmRecord, Tick, vars
<1>11. ASSUME NEW c \in Candidates, NEW aware \in {NoTime, now},
              ConfirmCheck(c, aware) \/ List(c)
       PROVE  MailInv'
  BY <1>2, <1>11 DEF ConfirmCheck, List
<1>12. ASSUME ScanStep("sweeper") PROVE MailInv'
  BY <1>3, <1>4, <1>5, <1>12, CommitMailsKeep DEF ScanStep
<1>. QED
  BY <1>1, <1>6, <1>7, <1>8, <1>9, <1>10, <1>11, <1>12, SentMailsKeep, StampedMailsKeep
     DEF Next, ConfirmStep

(* A question is mailed once, but for the mailings whose stamp was lost,   *)
(* although choice, mails and stamp are apart and a scan commits on rows   *)
(* it read before somebody decided on them (ToldOncePerQuestion).  The     *)
(* sweeper must scan alone: beside it, scan_advisories clears the stamp of *)
(* a question it did not see asked.                                        *)
THEOREM ToldOnce ==
  ASSUME ToolScans = FALSE
  PROVE  Spec => []ToldOncePerQuestion
<1>1. Init => MailInv
  <2> SUFFICES ASSUME Init PROVE MailInv
    OBVIOUS
  <2>1. "sweeper" \in Scanners
    BY DEF Scanners
  <2>2. scan["sweeper"].phase = "idle" /\ Chosen = {}
    BY <2>1 DEF Init, Chosen, Resting
  <2>. QED
    BY <2>2 DEF Init, MailInv, ChosenInTurn, DismissedAsRead, MailsAccounted, Unmailed
<1>2. IInv /\ Counted /\ MailInv /\ [Next]_vars => MailInv'
  BY MailsStep
<1>3. MailInv => ToldOncePerQuestion
  BY DEF MailInv, MailsAccounted, ToldOncePerQuestion
<1>. QED
  BY <1>1, <1>2, <1>3, Invariant, CountsHold, PTL DEF Spec

(* While the sweeper alone scans, a dismissal survives a scan that has     *)
(* nothing new (DismissalsSurviveScans).  With scan_advisories beside it   *)
(* this fails: a scan that read the row before the other one re-opened it  *)
(* re-opens it a second time, whatever was decided in between.             *)
THEOREM DismissalsStand ==
  ASSUME ToolScans = FALSE
  PROVE  Spec => DismissalsSurviveScans
<1> DEFINE Survive ==
      \A c \in Candidates :
         rows[c].status = "dismissed" /\ rows'[c].status = "open" =>
            \/ rows'[c].exploited /\ ~rows[c].exploited
            \/ rows'[c].epss = "high"
<1>1. UNCHANGED rows => Survive
  OBVIOUS
<1>2. ASSUME IInv, NEW s \in Scanners, CommitRows(s) PROVE Survive
  <2>1. s = "sweeper" /\ scan[s].phase = "read"
    BY <1>2 DEF Scanners, CommitRows
  <2> SUFFICES ASSUME NEW c \in Candidates, CommittedRow(s, c),
                      rows[c].status = "dismissed", rows'[c].status = "open"
               PROVE  \/ rows'[c].exploited /\ ~rows[c].exploited
                      \/ rows'[c].epss = "high"
    BY <1>2, CommitCases
  <2>2. /\ rows[c] \in Candidate /\ scan[s].findings[c] \in Finding
        /\ scan[s].seen[c] \in Candidate
    BY <1>2, ProgressParts DEF IInv, Typed
  <2>3. rows'[c] = Updated(rows[c], scan[s].seen[c], scan[s].findings[c])
    BY <2>2 DEF CommittedRow
  <2>4. scan[s].seen[c].exploited = rows[c].exploited
    BY <1>2, <2>1 DEF IInv, ReadIsCurrent
  <2>5. Reopens(scan[s].seen[c], scan[s].findings[c])
    BY <2>2, <2>3, UpdatedColumns
  <2>6. CASE BecameExploited(scan[s].seen[c], scan[s].findings[c])
    BY <2>2, <2>3, <2>4, <2>6, UpdatedColumns DEF BecameExploited
  <2>7. CASE ~BecameExploited(scan[s].seen[c], scan[s].findings[c])
    <3>1. scan[s].findings[c].epss = "high"
      BY <2>5, <2>7 DEF Reopens, ReopensOnRise, MateriallyRiskier
    <3>. QED
      BY <2>2, <2>3, <3>1, UpdatedColumns
  <2>. QED
    BY <2>6, <2>7
<1>3. ASSUME IInv, Stamp PROVE Survive
  <2> SUFFICES ASSUME NEW c \in Candidates PROVE rows'[c].status = rows[c].status
    OBVIOUS
  <2>. QED
    BY <1>3 DEF Stamp, IInv, Typed, Candidate
<1>4. ASSUME IInv, ConfirmClose PROVE Survive
  <2>1. PICK d \in Candidates : d = call.candidate
    BY <1>4 DEF IInv, Typed, CallFits, ConfirmClose, Confirmation
  <2> SUFFICES ASSUME NEW c \in Candidates, rows'[c] # rows[c] PROVE rows'[c].status # "open"
    OBVIOUS
  <2>. QED
    BY <1>4, <2>1 DEF IInv, Typed, Candidate, ConfirmClose
<1>5. ASSUME IInv, NEW d \in Candidates, Dismiss(d) PROVE Survive
  BY <1>5 DEF IInv, Typed, Candidate, Dismiss
<1>6. ASSUME IInv, [Next]_vars PROVE Survive
  <2> HIDE DEF Survive
  <2>1. ASSUME NEW s \in Scanners, ScanStep(s) PROVE Survive
    BY <1>6, <2>1, <1>1, <1>2 DEF ScanStep, ScanAnswered, FeedsAnswer, ReadRows, RecordScan
  <2>2. ASSUME \/ ChooseUntold \/ SendMails \/ RollBack \/ Crash \/ Tick
               \/ UNCHANGED vars \/ ConfirmRecord
        PROVE  Survive
    BY <2>2, <1>1 DEF ChooseUntold, SendMails, RollBack, Crash, Tick, vars, ConfirmRecord
  <2>3. ASSUME NEW c \in Candidates, List(c) PROVE Survive
    BY <2>3, <1>1 DEF List
  <2>4. ASSUME NEW c \in Candidates, NEW aware \in {NoTime, now}, ConfirmCheck(c, aware)
        PROVE  Survive
    BY <2>4, <1>1 DEF ConfirmCheck
  <2>. QED
    BY <1>6, <2>1, <2>2, <2>3, <2>4, <1>3, <1>4, <1>5 DEF Next, ConfirmStep
<1> HIDE DEF Survive
<1>7. IInv /\ [Next]_vars => [Survive]_vars
  BY <1>6
<1>8. [][Survive]_vars => DismissalsSurviveScans
  BY PTL DEF Survive, DismissalsSurviveScans
<1>. QED
  BY <1>7, <1>8, Invariant, PTL DEF Spec

=============================================================================
