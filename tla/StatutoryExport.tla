---------------------------- MODULE StatutoryExport ----------------------------
(***************************************************************************)
(* The artefacts of one product that have to outlive the database, and     *)
(* getting them out: src/cra/server/statutory_export.py, its two kinds of  *)
(* caller, and conformity.retention_status.                                *)
(*                                                                         *)
(* A tool registers an artefact in its own transaction, on the event loop. *)
(* A flush runs in a worker thread, one at a time, in one transaction: it  *)
(* reads the oldest rows not exported, uploads each, and the outcomes      *)
(* become visible when it commits, so a crash forgets uploads that took    *)
(* place.  Instants are years.                                             *)
(***************************************************************************)
EXTENDS Integers, Sequences, FiniteSets

CONSTANTS
    Times,           \* instants of the calls
    Contents,        \* what a frozen document says, apart from the dates
    Versions,        \* builds that may be placed on the market
    SupportEnds,     \* end dates of a support period
    FloorYears,      \* _FLOOR_YEARS, also the rule's floor_years
    Limit,           \* flush_pending's limit
    Refused,         \* digests whose upload never succeeds
    MaxRows,         \* bound: registered artefacts
    MaxCrashes       \* bound: failed flushes and restarts

NoTime == -1
MaybeTime == Times \cup {NoTime}
MaybeEnd == SupportEnds \cup {NoTime}

\* A document's digest covers its content and the dates in it, a release's
\* the determination; a release never shares its digest with a document.
Digests == (Contents \X MaybeTime \X MaybeEnd) \cup Versions

ASSUME ExportAssumption ==
    /\ Times \subseteq Nat
    /\ SupportEnds \subseteq Nat
    /\ FloorYears \in Nat
    /\ Limit \in Nat \ {0}
    /\ MaxRows \in Nat
    /\ MaxCrashes \in Nat
\* "one bad row must not stop the rest": Limit of them would.
ASSUME RefusedAssumption == Refused \subseteq Digests /\ Cardinality(Refused) < Limit

VARIABLES
    now,
    placed,      \* released_at of each version
    support,     \* the end of the support period
    configured,  \* CRA_STATUTORY_BUCKET is set
    rows,        \* statutory_exports, in the order of created_at
    bucket,      \* the objects and the lock each bears
    flush,       \* the flush in progress
    crashes

vars == <<now, placed, support, configured, rows, bucket, flush, crashes>>

Statuses == {"pending", "failed", "exported"}
Idle == [phase |-> "idle", todo |-> {}, outcome |-> <<>>]
\* Beyond the calls' instants lie the dates computed from them.
Dates == Nat \cup {NoTime}

TypeOK ==
    /\ now \in Times
    /\ placed \in [Versions -> MaybeTime]
    /\ support \in MaybeEnd
    /\ configured \in BOOLEAN
    /\ Len(rows) <= MaxRows
    /\ \A n \in DOMAIN rows :
          rows[n] \in [digest : Digests, stated : Dates, retain : Nat, status : Statuses]
    /\ bucket \in [Digests -> Dates]
    /\ flush.phase \in {"idle", "uploading"}
    /\ flush.todo \subseteq DOMAIN rows
    /\ Cardinality(flush.todo) <= Limit
    /\ DOMAIN flush.outcome \subseteq DOMAIN rows
    /\ crashes \in 0..MaxCrashes

Init ==
    /\ now \in Times
    /\ placed = [v \in Versions |-> NoTime]
    /\ support = NoTime
    /\ configured \in BOOLEAN
    /\ rows = <<>>
    /\ bucket = [d \in Digests |-> NoTime]
    /\ flush = Idle
    /\ crashes = 0

----------------------------------------------------------------------------
(* conformity.retention_status: ten years from the latest placing or the   *)
(* support period, whichever is longer; no date before a placing.          *)
Later(a, b) == IF a >= b THEN a ELSE b

LatestPlacing(placings) ==
    LET instants == {placings[v] : v \in Versions}
    IN  IF instants \subseteq {NoTime} THEN NoTime
        ELSE CHOOSE t \in instants : \A other \in instants : other <= t

RetentionStatus(placings, end) ==
    IF LatestPlacing(placings) = NoTime THEN NoTime
    ELSE Later(LatestPlacing(placings) + FloorYears, end)

(* _retain_until: floored at ten years from the call.                      *)
RetainFloorOnly(stated) == now + FloorYears  \* mutant
RetainUntil(stated) == Later(now + FloorYears, stated)

(* record: an identical artefact is left as it is registered.              *)
RegisteredPending(digest) ==  \* mutant: only a row still pending counts
    \E n \in DOMAIN rows : rows[n].digest = digest /\ rows[n].status = "pending"
Registered(digest) == \E n \in DOMAIN rows : rows[n].digest = digest
Record(digest, stated) ==
    IF Registered(digest) THEN rows
    ELSE Append(rows, [digest |-> digest, stated |-> stated,
                       retain |-> RetainUntil(stated), status |-> "pending"])

(* assemble_technical_file(finalize=true), and likewise the declarations   *)
(* and sign_off: all pass the retention status they find.                  *)
Freeze(content) ==
    /\ Len(rows) < MaxRows
    /\ rows' = Record(<<content, LatestPlacing(placed), support>>,
                      RetentionStatus(placed, support))
    /\ UNCHANGED <<now, placed, support, configured, bucket, flush, crashes>>

(* place_on_market passes no retention.  released_at is the caller's.      *)
PlaceOnMarket(v, when) ==
    /\ Len(rows) < MaxRows
    /\ placed[v] = NoTime
    /\ placed' = [placed EXCEPT ![v] = when]
    /\ rows' = Record(v, NoTime)
    /\ UNCHANGED <<now, support, configured, bucket, flush, crashes>>

SetSupportPeriod(end) ==
    /\ support' = end
    /\ UNCHANGED <<now, placed, configured, rows, bucket, flush, crashes>>

----------------------------------------------------------------------------
(* flush_pending: rows pending or failed, oldest first, up to the limit.   *)
BacklogPendingOnly == {n \in DOMAIN rows : rows[n].status = "pending"}  \* mutant
Backlog == {n \in DOMAIN rows : rows[n].status \in {"pending", "failed"}}

Oldest(backlog) ==
    {n \in backlog : Cardinality({m \in backlog : m < n}) < Limit}

StartFlush ==
    /\ flush.phase = "idle"
    /\ configured
    /\ Backlog # {}
    /\ flush' = [Idle EXCEPT !.phase = "uploading", !.todo = Oldest(Backlog)]
    /\ UNCHANGED <<now, placed, support, configured, rows, bucket, crashes>>

(* What the row will say, and what the bucket then holds: put_object may   *)
(* store the object and its answer be lost.                                *)
ExportedAnyway(stored, answered) == "exported"  \* mutant: the error swallowed
Outcome(stored, answered) == IF stored /\ answered THEN "exported" ELSE "failed"

Upload(n, stored, answered) ==
    /\ n \in flush.todo
    /\ \A m \in flush.todo : n <= m
    /\ stored => rows[n].digest \notin Refused
    /\ flush' = [flush EXCEPT
          !.todo = @ \ {n},
          !.outcome = [m \in DOMAIN @ \cup {n} |->
                          IF m = n THEN Outcome(stored, answered) ELSE @[m]]]
    /\ bucket' = IF stored THEN [bucket EXCEPT ![rows[n].digest] = rows[n].retain]
                 ELSE bucket
    /\ UNCHANGED <<now, placed, support, configured, rows, crashes>>

CommitFlush ==
    /\ flush.phase = "uploading"
    /\ flush.todo = {}
    /\ rows' = [n \in DOMAIN rows |->
                   IF n \in DOMAIN flush.outcome
                   THEN [rows[n] EXCEPT !.status = flush.outcome[n]] ELSE rows[n]]
    /\ flush' = Idle
    /\ UNCHANGED <<now, placed, support, configured, bucket, crashes>>

(* The transaction fails, or the process restarts with another             *)
(* environment; what was uploaded stays uploaded.                          *)
Crash(setting) ==
    /\ crashes < MaxCrashes
    /\ crashes' = crashes + 1
    /\ configured' = setting
    /\ flush' = Idle
    /\ UNCHANGED <<now, placed, support, rows, bucket>>

Tick ==
    /\ now + 1 \in Times
    /\ now' = now + 1
    /\ UNCHANGED <<placed, support, configured, rows, bucket, flush, crashes>>

UploadSome == \E n \in flush.todo, stored, answered \in BOOLEAN : Upload(n, stored, answered)
Flush == StartFlush \/ UploadSome \/ CommitFlush

Next ==
    \/ \E content \in Contents : Freeze(content)
    \/ \E v \in Versions, when \in Times : PlaceOnMarket(v, when)
    \/ \E end \in SupportEnds : SetSupportPeriod(end)
    \/ Flush
    \/ \E setting \in BOOLEAN : Crash(setting)
    \/ Tick

Spec == Init /\ [][Next]_vars

(* The advisory sweeper's loop calls the flush for ever, and uploads every *)
(* row of it.  That S3 takes an acceptable object when it is offered again *)
(* and again is an assumption about S3.                                    *)
FairSpec ==
    /\ Spec
    /\ WF_vars(Flush)
    /\ \A n \in 1..MaxRows : SF_vars(Upload(n, TRUE, TRUE))

----------------------------------------------------------------------------
(* A row that says exported has its object in the bucket, locked at least  *)
(* as long as the row says: no crash, lost answer or refused upload leaves *)
(* a durability failure that looks like success.                           *)
ExportedIsInBucket ==
    \A n \in DOMAIN rows :
        rows[n].status = "exported" => bucket[rows[n].digest] >= rows[n].retain

(* "retention.until is the date this must remain available; retain_until   *)
(* on the object carries the same date": no object is released before the  *)
(* date stated inside it, also when the document was frozen again.         *)
LockCoversStatedDate ==
    \A n \in DOMAIN rows :
        bucket[rows[n].digest] # NoTime => bucket[rows[n].digest] >= rows[n].stated

(* An object once uploaded is never uploaded under a shorter lock, however *)
(* often a crash makes a flush upload it again.                            *)
LocksNeverShorten == [][\A d \in Digests : bucket'[d] >= bucket[d]]_vars

(* Every artefact that S3 would take gets out, as long as a bucket is      *)
(* configured in the end: failures and crashes delay it only, and rows     *)
(* that can never be uploaded do not hold back the ones behind them.       *)
EveryArtefactGetsOut ==
    <>[]configured =>
        \A n \in 1..MaxRows :
            (n \in DOMAIN rows /\ rows[n].digest \notin Refused) ~>
                (n \in DOMAIN rows /\ rows[n].status = "exported")

----------------------------------------------------------------------------
(* What the documentation says of this program and the code does not do.   *)

(* "retain_until comes from conformity.retention_status, floored at ten    *)
(* years from export": the release record, which anchors the clock, is     *)
(* registered without it.                                                  *)
ReleaseLockFollowsRetention ==
    [][\A v \in Versions :
         placed[v] = NoTime /\ placed'[v] # NoTime =>
            rows'[Len(rows')].retain >= RetentionStatus(placed', support')]_vars

(* The export outlives "ten years after the product is placed on the       *)
(* market, or the support period, whichever is longer": a document frozen  *)
(* and exported before the placing keeps the lock of its freezing.         *)
LockCoversDuty ==
    \A n \in DOMAIN rows :
        rows[n].digest \notin Versions /\ rows[n].status = "exported" =>
            bucket[rows[n].digest] >= RetentionStatus(placed, support)
=============================================================================
