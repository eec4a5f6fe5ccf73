--------------------------- MODULE AdvisoryPipeline ---------------------------
(***************************************************************************)
(* From an advisory feed to a vulnerability record, for one product with   *)
(* an SBOM: src/cra/server/advisories.py and advisory_sweeper.py.          *)
(*                                                                         *)
(* The sweeper scans in a worker thread, the tool scan_advisories on the   *)
(* event loop; both run scan_product, which is several transactions with   *)
(* the feeds between them.  Tool calls exclude each other, not the         *)
(* sweeper.  A transaction that reads rows and later writes them is two    *)
(* steps: at READ COMMITTED it overwrites the columns it changed with      *)
(* values decided on the rows it had read, and leaves the other columns.   *)
(*                                                                         *)
(* A candidate is an advisory matched to a component of the SBOM.          *)
(***************************************************************************)
EXTENDS Integers, FiniteSets, Sequences

CONSTANTS
    Times,
    Candidates,
    NeedsDetails,   \* candidates whose CVE ids only the advisory record holds
    ToolScans,      \* whether scan_advisories is called beside the sweeper
    MaxRecords,     \* bound: vulnerability records made from candidates
    MaxCrashes      \* bound: process restarts and rolled-back mailings

ASSUME AdvisoryAssumption ==
    /\ Times \subseteq Nat
    /\ NeedsDetails \subseteq Candidates
    /\ ToolScans \in BOOLEAN
    /\ MaxRecords \in Nat
    /\ MaxCrashes \in Nat

Scanners == {"sweeper"} \cup (IF ToolScans THEN {"tool"} ELSE {})
NoTime == -1
MaybeTime == Times \cup {NoTime}

\* EPSS probabilities, as far as the re-open rule tells them apart.
Scores == {"none", "low", "high"}
MateriallyRiskier(pinned, score) == pinned = "low" /\ score = "high"

VARIABLES
    now,
    listed,     \* candidates CISA lists as exploited, in the world
    kev,        \* this process's _kev_cache
    rows,       \* advisory_candidates
    records,    \* vulnerabilities recorded by confirm_advisory
    scan,       \* the progress of each scanner
    call,       \* the confirm_advisory call in progress
    crashes,
    mailings    \* how often each candidate's question was mailed (history)

vars == <<now, listed, kev, rows, records, scan, call, crashes, mailings>>

Candidate == [status : {"absent", "open", "dismissed", "confirmed"},
              exploited : BOOLEAN, notified : MaybeTime, firstSeen : MaybeTime,
              epss : Scores, pinned : Scores, vulnerability : 0..MaxRecords]
Absent == [status |-> "absent", exploited |-> FALSE, notified |-> NoTime,
           firstSeen |-> NoTime, epss |-> "none", pinned |-> "none", vulnerability |-> 0]

Finding == [found : BOOLEAN, exploited : BOOLEAN, epss : Scores]
NoFinding == [found |-> FALSE, exploited |-> FALSE, epss |-> "none"]

\* Mailings that left about the question, and those whose stamp was lost.
Mailings == [mails : Nat, lost : Nat]
Unmailed == [mails |-> 0, lost |-> 0]

Resting == [phase |-> "idle", sourcesOk |-> FALSE,
            findings |-> [c \in Candidates |-> NoFinding],
            seen |-> [c \in Candidates |-> Absent], chosen |-> {}, at |-> NoTime]
None == "none"
NoCall == [candidate |-> None, exploited |-> FALSE, anchor |-> NoTime,
           stated |-> FALSE, record |-> 0]

TypeOK ==
    /\ now \in Times
    /\ listed \subseteq Candidates
    /\ kev \in [ok : BOOLEAN, entries : SUBSET Candidates]
    /\ rows \in [Candidates -> Candidate]
    /\ Len(records) <= MaxRecords
    /\ \A n \in 1..Len(records) :
          records[n] \in [candidate : Candidates, exploited : BOOLEAN,
                          aware : Times, stated : BOOLEAN]
    /\ \A s \in Scanners :
          /\ scan[s].phase \in {"idle", "fetched", "read", "persisted", "recorded", "chosen",
                            "mailed"}
          /\ scan[s].findings \in [Candidates -> Finding]
          /\ scan[s].seen \in [Candidates -> Candidate]
          /\ scan[s].chosen \subseteq Candidates
    /\ call.candidate \in Candidates \cup {None}
    /\ crashes \in 0..MaxCrashes
    /\ mailings \in [Candidates -> Mailings]

Init ==
    /\ now \in Times
    /\ listed \in SUBSET Candidates
    /\ kev = [ok |-> FALSE, entries |-> {}]
    /\ rows = [c \in Candidates |-> Absent]
    /\ records = <<>>
    /\ scan = [s \in Scanners |-> Resting]
    /\ call = NoCall
    /\ crashes = 0
    /\ mailings = [c \in Candidates |-> Unmailed]

----------------------------------------------------------------------------
(* The event loop runs one tool at a time.                                 *)
ToolsIdle == call = NoCall /\ \A s \in Scanners \ {"sweeper"} : scan[s].phase = "idle"

(* kev_catalogue: refreshed, or kept because it is fresh or the fetch      *)
(* failed; once loaded it stays ok.                                        *)
KevAfter(refreshed) == IF refreshed THEN [ok |-> TRUE, entries |-> listed] ELSE kev

(* build_findings: a finding is exploited when one of its CVE ids is in    *)
(* the catalogue.  Without the details record there may be no CVE id.      *)
FindingsOf(found, detailed, catalogue, score) ==
    [c \in Candidates |->
        IF c \notin found THEN NoFinding
        ELSE [found |-> TRUE,
              exploited |-> /\ c \in catalogue
                            /\ c \in detailed \/ c \notin NeedsDetails,
              epss |-> score[c]]]

(* scan_product up to the database: an incomplete OSV answer finds part of *)
(* the advisories, each details record arrives or not, EPSS scores some.   *)
FeedsAnswer(s, refreshed, osvOk, found, detailed, score) ==
    LET catalogue == KevAfter(refreshed)
    IN  /\ scan[s].phase = "idle"
        /\ s # "sweeper" => ToolsIdle
        /\ osvOk => found = Candidates
        /\ kev' = catalogue
        /\ scan' = [scan EXCEPT ![s] =
              [Resting EXCEPT
                 !.phase = "fetched",
                 !.sourcesOk = catalogue.ok /\ osvOk,
                 !.findings = FindingsOf(found, detailed, catalogue.entries, score)]]
        /\ UNCHANGED <<now, listed, rows, records, call, crashes, mailings>>

(* _persist's reads ...                                                    *)
ReadRows(s) ==
    /\ scan[s].phase = "fetched"
    /\ scan' = [scan EXCEPT ![s].phase = "read", ![s].seen = rows]
    /\ UNCHANGED <<now, listed, kev, rows, records, call, crashes, mailings>>

(* ... and what it does to one row: `seen` is the row it read, `row` the   *)
(* row it writes to.  A column is written when its value changes.          *)
BecameExploited(seen, f) == f.exploited /\ ~seen.exploited
ReopensOnRise(seen, f) ==
    seen.status = "dismissed" /\ MateriallyRiskier(seen.pinned, f.epss)
ReopensAlways(seen, f) ==  \* mutant: a dismissal does not survive the next scan
    seen.status = "dismissed" /\ f.found
Reopens(seen, f) ==
    IF BecameExploited(seen, f) THEN seen.status = "dismissed" ELSE ReopensOnRise(seen, f)

Inserted(f) == [Absent EXCEPT !.status = "open", !.exploited = f.exploited,
                              !.epss = f.epss, !.firstSeen = now]

Updated(row, seen, f) ==
    [row EXCEPT
        !.epss = IF f.epss = "none" THEN @ ELSE f.epss,
        !.exploited = @ \/ BecameExploited(seen, f),
        !.status = IF Reopens(seen, f) THEN "open" ELSE @,
        !.notified = IF /\ BecameExploited(seen, f) \/ Reopens(seen, f)
                        /\ seen.notified # NoTime
                     THEN NoTime ELSE @]

Found(s) == {c \in Candidates : scan[s].findings[c].found}
New(s) == {c \in Found(s) : scan[s].seen[c].status = "absent"}

(* A new question is put when a row becomes one to decide on.              *)
AskedAnew(row, new) == row.status # "open" /\ new.status = "open"

CommitRows(s) ==
    /\ scan[s].phase = "read"
    /\ IF \E c \in New(s) : rows[c].status # "absent"
       THEN \* the unique constraint refuses the insert: the scan fails
            /\ scan' = [scan EXCEPT ![s] = Resting]
            /\ UNCHANGED rows
       ELSE /\ scan' = [scan EXCEPT ![s].phase = "persisted",
                                       ![s].seen = [c \in Candidates |-> Absent]]
            /\ rows' = [c \in Candidates |->
                  IF c \in New(s) THEN Inserted(scan[s].findings[c])
                  ELSE IF c \in Found(s)
                  THEN Updated(rows[c], scan[s].seen[c], scan[s].findings[c])
                  ELSE rows[c]]
    /\ mailings' = [c \in Candidates |->
          IF AskedAnew(rows[c], rows'[c]) THEN Unmailed ELSE mailings[c]]
    /\ UNCHANGED <<now, listed, kev, records, call, crashes>>

(* _record_scan, its own transaction: the row placing on the market reads. *)
(* The sweeper goes on to notify only when the sources answered.           *)
RecordScan(s) ==
    /\ scan[s].phase = "persisted"
    /\ scan' = [scan EXCEPT ![s] =
          IF s = "sweeper" /\ @.sourcesOk THEN [Resting EXCEPT !.phase = "recorded"]
          ELSE Resting]
    /\ UNCHANGED <<now, listed, kev, rows, records, call, crashes, mailings>>

(* advisory_sweeper.sweep_once, one transaction: the candidates to tell    *)
(* about, then the mails, then the stamp, whatever became of the mails.    *)
(* One recipient stands for the fan-out.                                   *)
UntoldUndecided(c) ==  \* mutant: what was dismissed once is left out
    /\ rows[c].status = "open" /\ rows[c].exploited /\ rows[c].notified = NoTime
    /\ rows[c].pinned = "none"
ToldAgain(c) == rows[c].status = "open" /\ rows[c].exploited  \* mutant
Untold(c) == rows[c].status = "open" /\ rows[c].exploited /\ rows[c].notified = NoTime

ChooseUntold ==
    /\ scan["sweeper"].phase = "recorded"
    /\ scan' = [scan EXCEPT !["sweeper"] =
          IF \E c \in Candidates : Untold(c)
          THEN [@ EXCEPT !.phase = "chosen", !.at = now,
                         !.chosen = {c \in Candidates : Untold(c)}]
          ELSE Resting]
    /\ UNCHANGED <<now, listed, kev, rows, records, call, crashes, mailings>>

Chosen == scan["sweeper"].chosen

SendMails ==
    /\ scan["sweeper"].phase = "chosen"
    /\ mailings' = [c \in Candidates |->
          IF c \in Chosen THEN [mailings[c] EXCEPT !.mails = @ + 1] ELSE mailings[c]]
    /\ scan' = [scan EXCEPT !["sweeper"].phase = "mailed"]
    /\ UNCHANGED <<now, listed, kev, rows, records, call, crashes>>

Stamp ==
    LET sweeper == scan["sweeper"]
    IN  /\ sweeper.phase = "mailed"
        /\ rows' = [c \in Candidates |->
              IF c \in sweeper.chosen THEN [rows[c] EXCEPT !.notified = sweeper.at]
              ELSE rows[c]]
        /\ scan' = [scan EXCEPT !["sweeper"] = Resting]
        /\ UNCHANGED <<now, listed, kev, records, call, crashes, mailings>>

(* The transaction is lost with its stamp; the mails are not.              *)
StampLost ==
    IF scan["sweeper"].phase = "mailed"
    THEN mailings' = [c \in Candidates |->
            IF c \in Chosen THEN [mailings[c] EXCEPT !.lost = @ + 1] ELSE mailings[c]]
    ELSE UNCHANGED mailings

RollBack ==
    /\ scan["sweeper"].phase = "mailed"
    /\ crashes < MaxCrashes
    /\ crashes' = crashes + 1
    /\ scan' = [scan EXCEPT !["sweeper"] = Resting]
    /\ StampLost
    /\ UNCHANGED <<now, listed, kev, rows, records, call>>

----------------------------------------------------------------------------
(* confirm_advisory, first transaction: refuse, answer already_confirmed,  *)
(* or keep a copy of what the row says.  The caller may state when they    *)
(* became aware; the default is when they were told, else first seen.      *)
AnchorNow(row) == IF row.status = "open" THEN now ELSE row.firstSeen  \* mutant
DefaultAnchor(row) == IF row.notified # NoTime THEN row.notified ELSE row.firstSeen

ConfirmCheck(c, aware) ==
    /\ ToolsIdle
    /\ rows[c].status \in {"open", "dismissed"}
    /\ aware <= now
    /\ call' = [candidate |-> c, exploited |-> rows[c].exploited,
                anchor |-> IF aware = NoTime THEN DefaultAnchor(rows[c]) ELSE aware,
                stated |-> aware # NoTime, record |-> 0]
    /\ UNCHANGED <<now, listed, kev, rows, records, scan, crashes, mailings>>

(* second: reporting.record_vulnerability, which starts the clocks         *)
ConfirmRecord ==
    /\ call.candidate # None
    /\ call.record = 0
    /\ Len(records) < MaxRecords
    /\ records' = Append(records, [candidate |-> call.candidate, aware |-> call.anchor,
                                   exploited |-> call.exploited, stated |-> call.stated])
    /\ call' = [call EXCEPT !.record = Len(records) + 1]
    /\ UNCHANGED <<now, listed, kev, rows, scan, crashes, mailings>>

(* third: the row is read again and written without another look           *)
ConfirmClose ==
    /\ call.record # 0
    /\ rows' = [rows EXCEPT ![call.candidate].status = "confirmed",
                            ![call.candidate].vulnerability = call.record]
    /\ call' = NoCall
    /\ UNCHANGED <<now, listed, kev, records, scan, crashes, mailings>>

(* dismiss_advisory, one transaction; it pins the score it was made on.    *)
Dismiss(c) ==
    /\ ToolsIdle
    /\ rows[c].status \in {"open", "dismissed"}
    /\ rows' = [rows EXCEPT ![c].status = "dismissed", ![c].pinned = rows[c].epss]
    /\ UNCHANGED <<now, listed, kev, records, scan, call, crashes, mailings>>

----------------------------------------------------------------------------
(* CISA adds an advisory to its catalogue.                                 *)
List(c) ==
    /\ c \notin listed
    /\ listed' = listed \cup {c}
    /\ UNCHANGED <<now, kev, rows, records, scan, call, crashes, mailings>>

(* The process restarts: open transactions roll back, caches are empty.    *)
Crash ==
    /\ crashes < MaxCrashes
    /\ crashes' = crashes + 1
    /\ kev' = [ok |-> FALSE, entries |-> {}]
    /\ scan' = [s \in Scanners |-> Resting]
    /\ call' = NoCall
    /\ StampLost
    /\ UNCHANGED <<now, listed, rows, records>>

Tick ==
    /\ now + 1 \in Times
    /\ now' = now + 1
    /\ UNCHANGED <<listed, kev, rows, records, scan, call, crashes, mailings>>

ScanAnswered(s, refreshed, osvOk) ==
    \E found, detailed \in SUBSET Candidates, score \in [Candidates -> Scores] :
        FeedsAnswer(s, refreshed, osvOk, found, detailed, score)

ScanStep(s) ==
    \/ \E refreshed, osvOk \in BOOLEAN : ScanAnswered(s, refreshed, osvOk)
    \/ ReadRows(s)
    \/ CommitRows(s)
    \/ RecordScan(s)

SweeperStep == ScanStep("sweeper") \/ ChooseUntold \/ SendMails \/ Stamp
ConfirmStep == ConfirmRecord \/ ConfirmClose

Next ==
    \/ \E s \in Scanners : ScanStep(s)
    \/ ChooseUntold
    \/ SendMails
    \/ Stamp
    \/ RollBack
    \/ \E c \in Candidates, aware \in {NoTime, now} : ConfirmCheck(c, aware)
    \/ ConfirmStep
    \/ \E c \in Candidates : Dismiss(c) \/ List(c)
    \/ Crash
    \/ Tick

Spec == Init /\ [][Next]_vars

(* The sweeper's loop never stops.  That the feeds answer again and again  *)
(* is an assumption about CISA and OSV, without which no scan can notice   *)
(* anything.                                                               *)
FairSpec ==
    /\ Spec
    /\ WF_vars(SweeperStep)
    /\ SF_vars(\E found, detailed \in SUBSET Candidates, score \in [Candidates -> Scores] :
                  /\ detailed = Candidates
                  /\ FeedsAnswer("sweeper", TRUE, TRUE, found, detailed, score))

----------------------------------------------------------------------------
(* While the sweeper alone scans, a dismissal survives a scan that has     *)
(* nothing new: it is re-opened only when the row turns exploited or the   *)
(* scan brought a high score, however scans and decisions interleave.      *)
(* (With ToolScans, a scan that read the row before another one re-opened  *)
(* it re-opens it again, though it was dismissed once more in between.)    *)
DismissalsSurviveScans ==
    [][\A c \in Candidates :
         rows[c].status = "dismissed" /\ rows'[c].status = "open" =>
            \/ rows'[c].exploited /\ ~rows[c].exploited
            \/ rows'[c].epss = "high"]_vars

(* One mailing per question: while the sweeper alone scans, nobody is      *)
(* mailed again about a candidate until a scan has re-opened it, but for a *)
(* mailing whose stamp a restart or a failed commit lost, as at-least-once *)
(* has it.  (With ToolScans, a scan that read a dismissed row before       *)
(* another one re-opened it clears the stamp of the new question's mail,   *)
(* and that question is mailed again.)                                     *)
ToldOncePerQuestion == \A c \in Candidates : mailings[c].mails <= 1 + mailings[c].lost

(* Confirming late does not understate awareness: unless the caller stated *)
(* a date, the clocks of an exploited candidate never count from later     *)
(* than the notification its row bears.                                    *)
AnchoredWhenTold ==
    \A n \in 1..Len(records) :
        LET record == records[n]
            told   == rows[record.candidate].notified
        IN  record.exploited /\ ~record.stated /\ told # NoTime => record.aware <= told

(* An open candidate known to be exploited is told about, or decided, as   *)
(* long as the feeds keep answering; crashes and outages delay it only.    *)
ExploitedOpenIsTold ==
    \A c \in Candidates :
        (rows[c].status = "open" /\ rows[c].exploited) ~>
            (rows[c].notified # NoTime \/ rows[c].status # "open")

----------------------------------------------------------------------------
(* What the documentation says of this program and the code does not do.   *)

(* "Decisions already made are preserved": a scan that read a dismissed    *)
(* row re-opens it although it was confirmed before the scan committed.    *)
ConfirmationsStand ==
    [][\A c \in Candidates :
         rows[c].status = "confirmed" => rows'[c].status = "confirmed"]_vars

(* "If CISA starts listing something previously dismissed ... the          *)
(* candidate is flagged again": dismissed between the scan's read of the   *)
(* open row and its commit, the row turns exploited and stays dismissed.   *)
ListingReopensDismissals ==
    [][\A c \in Candidates :
         /\ rows[c].status = "dismissed"
         /\ rows'[c].exploited /\ ~rows[c].exploited
         => rows'[c].status = "open"]_vars

(* Confirming twice is idempotent: a restart between recording the         *)
(* vulnerability and closing the candidate makes the retry record it again.*)
OneRecordPerCandidate ==
    \A m, n \in 1..Len(records) :
        records[m].candidate = records[n].candidate => m = n

(* The sweeper "mails the exploited findings": one confirmed before CISA   *)
(* listed it is marked exploited and never told about, and no clock runs.  *)
ExploitedReachesSomeone ==
    \A c \in Candidates :
        rows[c].exploited ~>
            \/ rows[c].notified # NoTime
            \/ rows[c].status = "dismissed"
            \/ \E n \in 1..Len(records) : records[n].candidate = c /\ records[n].exploited
=============================================================================
