------------------------- MODULE StatutoryExportProofs -------------------------
(***************************************************************************)
(* Theorems about StatutoryExport, for any documents, versions and dates,  *)
(* any limit on a flush, and any number of registered artefacts, crashes   *)
(* and failed uploads.                                                     *)
(***************************************************************************)
EXTENDS StatutoryExport, FiniteSetTheorems, SequenceTheorems, WellFoundedInduction, TLAPS

----------------------------------------------------------------------------
(* The inductive invariant *)

ExportRow == [digest : Digests, stated : Dates, retain : Nat, status : Statuses]

\* Rows are a sequence, and finitely many instants are placings: the latest
\* of them exists.
Typed ==
    /\ TypeOK
    /\ rows \in Seq(ExportRow)
    /\ IsFiniteSet({placed[v] : v \in Versions})
    /\ flush = [phase |-> flush.phase, todo |-> flush.todo, outcome |-> flush.outcome]

\* An artefact is registered once, so the object of a digest is one row's.
DigestsAreUnique ==
    \A m, n \in DOMAIN rows : rows[m].digest = rows[n].digest => m = n

\* The floor only ever raises the date the document states.
RetainCoversStated == \A n \in DOMAIN rows : rows[n].retain >= rows[n].stated

\* A lock in the bucket is the one some row asked for.
LocksComeFromRows ==
    \A d \in Digests : bucket[d] # NoTime =>
        \E n \in DOMAIN rows : rows[n].digest = d /\ bucket[d] = rows[n].retain

\* What a flush will report as exported has been stored already, although no
\* row says so before the flush commits.
ReportedIsStored ==
    \A n \in DOMAIN flush.outcome :
        /\ flush.outcome[n] \in {"exported", "failed"}
        /\ flush.outcome[n] = "exported" => bucket[rows[n].digest] = rows[n].retain

IInv ==
    /\ Typed
    /\ DigestsAreUnique
    /\ RetainCoversStated
    /\ LocksComeFromRows
    /\ ReportedIsStored
    /\ ExportedIsInBucket

----------------------------------------------------------------------------
(* Lemmas *)

\* A finite set of integers that is not empty has a greatest element.
LEMMA GreatestExists ==
    ASSUME NEW S \in SUBSET Int, IsFiniteSet(S), S # {}
    PROVE  \E x \in S : \A y \in S : y <= x
  <1> DEFINE Above(x) == {y \in S : y > x}
             Less == OpToRel(<, Nat)
             Sizes == {Cardinality(Above(x)) : x \in S}
  <1>1. \A x \in S : IsFiniteSet(Above(x)) /\ Cardinality(Above(x)) \in Nat
    <2> SUFFICES ASSUME NEW x \in S
                 PROVE  IsFiniteSet(Above(x)) /\ Cardinality(Above(x)) \in Nat
      OBVIOUS
    <2>1. Above(x) \in SUBSET S
      OBVIOUS
    <2>2. IsFiniteSet(Above(x))
      BY <2>1, FS_Subset
    <2> QED
      BY <2>2, FS_CardinalityType
  <1>2. Sizes \subseteq Nat /\ Sizes # {}
    BY <1>1
  <1>3. IsWellFoundedOn(Less, Nat)
    BY NatLessThanWellFounded
  <1>4. PICK size \in Sizes : \A other \in Sizes : <<other, size>> \notin Less
    <2> HIDE DEF Sizes, Less
    <2> QED
      BY <1>2, <1>3, WFMin
  <1>5. PICK x \in S : size = Cardinality(Above(x))
    OBVIOUS
  <1>6. ASSUME NEW y \in S, y > x PROVE FALSE
    <2>1. Above(y) \in SUBSET Above(x)
      <3>1. \A z \in S : z \in Int
        OBVIOUS
      <3>2. \A z \in S : z > y => z > x
        BY <1>6, <3>1
      <3> QED
        BY <3>2
    <2>2. y \in Above(x) /\ y \notin Above(y)
      BY <1>6
    <2>3. Cardinality(Above(y)) <= Cardinality(Above(x))
          /\ Cardinality(Above(x)) # Cardinality(Above(y))
      <3> HIDE DEF Above
      <3> QED
        BY <1>1, <2>1, <2>2, FS_Subset
    <2>4. Cardinality(Above(y)) < Cardinality(Above(x))
      <3> HIDE DEF Above
      <3> QED
        BY <1>1, <2>3
    <2>5. <<Cardinality(Above(y)), Cardinality(Above(x))>> \in Less
      <3> HIDE DEF Above
      <3> QED
        BY <1>1, <2>4 DEF OpToRel
    <2>6. Cardinality(Above(y)) \in Sizes
      OBVIOUS
    <2> QED
      BY <1>4, <1>5, <2>5, <2>6
  <1>7. \A y \in S : y <= x
    BY <1>6
  <1> QED
    BY <1>7

\* The latest placing is one of them, none when there is none.
LEMMA LatestPlacingIsOne ==
    ASSUME NEW placings \in [Versions -> MaybeTime],
           IsFiniteSet({placings[v] : v \in Versions})
    PROVE  /\ LatestPlacing(placings) \in MaybeTime
           /\ \A v \in Versions : placings[v] <= LatestPlacing(placings)
  <1> DEFINE instants == {placings[v] : v \in Versions}
  <1>1. MaybeTime \subseteq Int /\ NoTime \in MaybeTime
    BY ExportAssumption DEF MaybeTime, NoTime
  <1>2. instants \subseteq MaybeTime
    OBVIOUS
  <1>3. CASE instants \subseteq {NoTime}
    <2>1. LatestPlacing(placings) = NoTime
      BY <1>3 DEF LatestPlacing
    <2>2. \A v \in Versions : placings[v] = NoTime
      BY <1>3
    <2> QED
      BY <1>1, <2>1, <2>2 DEF NoTime
  <1>4. CASE ~ (instants \subseteq {NoTime})
    <2>1. \E t \in instants : \A other \in instants : other <= t
      <3>1. instants # {} /\ instants \in SUBSET Int
        BY <1>1, <1>2, <1>4
      <3> HIDE DEF instants
      <3> QED
        BY <3>1, GreatestExists DEF instants
    <2>2. LatestPlacing(placings)
            = CHOOSE t \in instants : \A other \in instants : other <= t
      BY <1>4 DEF LatestPlacing
    <2>3. LatestPlacing(placings) \in instants
          /\ \A other \in instants : other <= LatestPlacing(placings)
      <3> HIDE DEF instants
      <3> QED
        BY <2>1, <2>2
    <2> QED
      BY <1>2, <2>3
  <1> QED
    BY <1>3, <1>4

\* The retention status is a date, and no earlier than the floor after any
\* placing or than the end of the support period.
LEMMA RetentionCoversBoth ==
    ASSUME NEW placings \in [Versions -> MaybeTime], NEW end \in MaybeEnd,
           IsFiniteSet({placings[v] : v \in Versions})
    PROVE  /\ RetentionStatus(placings, end) \in Dates
           /\ \A v \in Versions : placings[v] # NoTime =>
                 /\ RetentionStatus(placings, end) >= placings[v] + FloorYears
                 /\ RetentionStatus(placings, end) >= end
  <1>1. /\ LatestPlacing(placings) \in MaybeTime
        /\ \A v \in Versions : placings[v] <= LatestPlacing(placings)
    BY LatestPlacingIsOne
  <1>2. MaybeTime \subseteq Dates /\ end \in Dates /\ FloorYears \in Nat
    BY ExportAssumption DEF MaybeTime, MaybeEnd, Dates
  <1>3. CASE LatestPlacing(placings) = NoTime
    <2>1. \A v \in Versions : placings[v] \in Dates /\ placings[v] <= NoTime
      BY <1>1, <1>2, <1>3
    <2>2. \A v \in Versions : placings[v] = NoTime
      BY <2>1 DEF NoTime, Dates
    <2> QED
      BY <1>3, <2>2 DEF RetentionStatus, Dates
  <1>4. CASE LatestPlacing(placings) # NoTime
    <2>1. LatestPlacing(placings) \in Nat
      BY <1>1, <1>2, <1>4 DEF Dates
    <2>2. RetentionStatus(placings, end)
            = IF LatestPlacing(placings) + FloorYears >= end
              THEN LatestPlacing(placings) + FloorYears ELSE end
      BY <1>4 DEF RetentionStatus, Later
    <2>3. \A v \in Versions : placings[v] \in Dates
      BY <1>2
    <2>4. RetentionStatus(placings, end) \in Nat
      BY <1>2, <2>1, <2>2 DEF Dates, NoTime
    <2> QED
      BY <1>1, <1>2, <2>1, <2>2, <2>3, <2>4 DEF Dates, NoTime
  <1> QED
    BY <1>3, <1>4

\* A flush takes at most its limit of rows: a row of it has fewer than Limit
\* rows of the backlog before it, and no two rows have as many.
LEMMA OldestAreFew ==
    ASSUME NEW len \in Nat, NEW backlog \in SUBSET (1..len)
    PROVE  /\ Oldest(backlog) \subseteq backlog
           /\ Cardinality(Oldest(backlog)) <= Limit
  <1> DEFINE Before(n) == {m \in backlog : m < n}
             Rank == [n \in Oldest(backlog) |-> Cardinality(Before(n))]
  <1>1. IsFiniteSet(backlog)
    <2>1. IsFiniteSet(1..len)
      BY FS_Interval
    <2> QED
      BY <2>1, FS_Subset
  <1>2. \A n \in backlog : IsFiniteSet(Before(n)) /\ Cardinality(Before(n)) \in Nat
    <2> SUFFICES ASSUME NEW n \in backlog
                 PROVE  IsFiniteSet(Before(n)) /\ Cardinality(Before(n)) \in Nat
      OBVIOUS
    <2>1. Before(n) \in SUBSET backlog
      OBVIOUS
    <2>2. IsFiniteSet(Before(n))
      BY <1>1, <2>1, FS_Subset
    <2> QED
      BY <2>2, FS_CardinalityType
  <1>3. Oldest(backlog) \subseteq backlog
    BY DEF Oldest
  <1>11. \A n \in backlog : n \in Nat
    OBVIOUS
  <1>4. ASSUME NEW m \in backlog, NEW n \in backlog, m < n
        PROVE  Cardinality(Before(m)) # Cardinality(Before(n))
    <2>1. Before(m) \in SUBSET Before(n)
      <3>1. \A k \in backlog : k < m => k < n
        BY <1>4, <1>11
      <3> QED
        BY <3>1
    <2>2. m \in Before(n) /\ m \notin Before(m)
      BY <1>4
    <2> HIDE DEF Before
    <2> QED
      BY <1>2, <2>1, <2>2, FS_Subset
  <1>5. Limit \in Nat \ {0}
    BY ExportAssumption
  <1>6. Rank \in [Oldest(backlog) -> 0..(Limit - 1)]
    <2>1. \A n \in Oldest(backlog) : Cardinality(Before(n)) < Limit
      BY DEF Oldest
    <2>2. \A n \in Oldest(backlog) : Cardinality(Before(n)) \in 0..(Limit - 1)
      <3> SUFFICES ASSUME NEW n \in Oldest(backlog)
                   PROVE  Cardinality(Before(n)) \in 0..(Limit - 1)
        OBVIOUS
      <3>1. Cardinality(Before(n)) \in Nat /\ Cardinality(Before(n)) < Limit
        BY <1>2, <1>3, <2>1
      <3> HIDE DEF Before
      <3> QED
        BY <1>5, <3>1
    <2> QED
      BY <2>2
  <1>7. \A m, n \in Oldest(backlog) : Rank[m] = Rank[n] => m = n
    <2> SUFFICES ASSUME NEW m \in Oldest(backlog), NEW n \in Oldest(backlog),
                        Rank[m] = Rank[n], m # n
                 PROVE  FALSE
      OBVIOUS
    <2>1. m \in backlog /\ n \in backlog
      BY <1>3
    <2>2. m < n \/ n < m
      BY <1>11, <2>1
    <2>3. Cardinality(Before(m)) = Cardinality(Before(n))
      OBVIOUS
    <2> HIDE DEF Before, Rank
    <2> QED
      BY <1>4, <2>1, <2>2, <2>3
  <1>8. Rank \in Injection(Oldest(backlog), 0..(Limit - 1))
    BY <1>6, <1>7 DEF Injection, IsInjective
  <1>9. IsFiniteSet(0..(Limit - 1)) /\ Cardinality(0..(Limit - 1)) = Limit
    BY <1>5, FS_Interval
  <1>10. Cardinality(Oldest(backlog)) <= Cardinality(0..(Limit - 1))
    <2> HIDE DEF Rank
    <2> QED
      BY <1>8, <1>9, FS_Injection
  <1> QED
    BY <1>3, <1>9, <1>10

\* A registration leaves the rows there are alone and adds at most one, which
\* is pending, new, and kept no shorter than the date it states.
LEMMA RecordKeepsIt ==
    ASSUME IInv, NEW digest \in Digests, NEW stated \in Dates,
           Len(rows) < MaxRows,
           rows' = Record(digest, stated),
           UNCHANGED <<bucket, flush>>
    PROVE  /\ rows' \in Seq(ExportRow) /\ Len(rows') <= MaxRows
           /\ DOMAIN rows \subseteq DOMAIN rows'
           /\ DigestsAreUnique' /\ RetainCoversStated' /\ LocksComeFromRows'
           /\ ReportedIsStored' /\ ExportedIsInBucket'
  <1>1. rows \in Seq(ExportRow) /\ Len(rows) \in Nat /\ DOMAIN rows = 1..Len(rows)
    BY LenProperties DEF IInv, Typed
  <1>2. MaxRows \in Nat /\ Times \subseteq Nat /\ FloorYears \in Nat
    BY ExportAssumption
  <1>3. CASE Registered(digest)
    <2>1. rows' = rows
      BY <1>3 DEF Record
    <2> QED
      BY <1>1, <1>2, <2>1 DEF IInv, Typed, DigestsAreUnique, RetainCoversStated,
         LocksComeFromRows, ReportedIsStored, ExportedIsInBucket
  <1>4. CASE ~Registered(digest)
    <2> DEFINE row == [digest |-> digest, stated |-> stated,
                       retain |-> RetainUntil(stated), status |-> "pending"]
    <2>1. rows' = Append(rows, row)
      BY <1>4 DEF Record
    <2>2. RetainUntil(stated) \in Nat /\ RetainUntil(stated) >= stated
      <3>1. now \in Nat
        BY <1>2 DEF IInv, Typed, TypeOK
      <3> QED
        BY <1>2, <3>1 DEF RetainUntil, Later, Dates, NoTime
    <2>3. row \in ExportRow
      BY <2>2 DEF ExportRow, Statuses
    <2>4. /\ rows' \in Seq(ExportRow) /\ Len(rows') = Len(rows) + 1
          /\ \A n \in 1..Len(rows) : rows'[n] = rows[n]
          /\ rows'[Len(rows) + 1] = row
      <3> HIDE DEF row
      <3> QED
        BY <1>1, <2>1, <2>3, AppendProperties
    <2>5. DOMAIN rows' = 1..(Len(rows) + 1)
      BY <2>4, LenProperties
    <2>6. DOMAIN rows' = DOMAIN rows \cup {Len(rows) + 1}
      BY <1>1, <2>5
    <2>7. \A n \in DOMAIN rows : rows[n].digest # digest /\ n # Len(rows) + 1
      BY <1>1, <1>4 DEF Registered
    <2>8. \A n \in DOMAIN rows : rows'[n] = rows[n]
      BY <1>1, <2>4
    <2>9. DigestsAreUnique'
      BY <2>4, <2>6, <2>7, <2>8 DEF IInv, DigestsAreUnique
    <2>10. RetainCoversStated'
      BY <2>2, <2>4, <2>6, <2>8 DEF IInv, RetainCoversStated
    <2>11. LocksComeFromRows'
      BY <2>6, <2>8 DEF IInv, LocksComeFromRows
    <2>12. ReportedIsStored'
      BY <2>8 DEF IInv, Typed, TypeOK, ReportedIsStored
    <2>13. ExportedIsInBucket'
      BY <2>4, <2>6, <2>8 DEF IInv, ExportedIsInBucket
    <2> QED
      BY <1>1, <1>2, <2>4, <2>6, <2>9, <2>10, <2>11, <2>12, <2>13
  <1> QED
    BY <1>3, <1>4

----------------------------------------------------------------------------
(* Initially *)

LEMMA InitIInv == Init => IInv
  <1> SUFFICES ASSUME Init PROVE IInv
    OBVIOUS
  <1>1. IsFiniteSet({placed[v] : v \in Versions})
    <2>1. {placed[v] : v \in Versions} \in SUBSET {NoTime}
      BY DEF Init
    <2> QED
      BY <2>1, FS_Singleton, FS_Subset
  <1>2. rows = <<>> /\ rows \in Seq(ExportRow) /\ Len(rows) = 0 /\ DOMAIN rows = {}
    BY DEF Init
  <1>3. flush.outcome = <<>> /\ DOMAIN flush.outcome = {} /\ flush.todo = {}
    BY DEF Init, Idle
  <1>4. Cardinality({}) <= Limit
    BY FS_EmptySet, ExportAssumption
  <1>5. TypeOK
    BY <1>2, <1>3, <1>4, ExportAssumption
       DEF Init, TypeOK, Idle, MaybeTime, MaybeEnd, Dates
  <1>6. Typed
    BY <1>1, <1>2, <1>5 DEF Typed, Init, Idle
  <1>7. DigestsAreUnique /\ RetainCoversStated /\ ReportedIsStored /\ ExportedIsInBucket
    BY <1>2, <1>3 DEF DigestsAreUnique, RetainCoversStated, ReportedIsStored,
       ExportedIsInBucket
  <1>8. LocksComeFromRows
    BY DEF Init, LocksComeFromRows
  <1> QED
    BY <1>6, <1>7, <1>8 DEF IInv

----------------------------------------------------------------------------
(* Every step *)

LEMMA FreezeStep ==
    ASSUME IInv, NEW content \in Contents, Freeze(content)
    PROVE  IInv'
  <1> DEFINE digest == <<content, LatestPlacing(placed), support>>
             stated == RetentionStatus(placed, support)
  <1>1. placed \in [Versions -> MaybeTime] /\ support \in MaybeEnd
        /\ IsFiniteSet({placed[v] : v \in Versions})
    BY DEF IInv, Typed, TypeOK
  <1>2. digest \in Digests
    BY <1>1, LatestPlacingIsOne DEF Digests
  <1>3. stated \in Dates
    BY <1>1, RetentionCoversBoth
  <1>4. Len(rows) < MaxRows /\ rows' = Record(digest, stated) /\ UNCHANGED <<bucket, flush>>
    BY DEF Freeze
  <1>5. /\ rows' \in Seq(ExportRow) /\ Len(rows') <= MaxRows
        /\ DOMAIN rows \subseteq DOMAIN rows'
        /\ DigestsAreUnique' /\ RetainCoversStated' /\ LocksComeFromRows'
        /\ ReportedIsStored' /\ ExportedIsInBucket'
    <2> HIDE DEF digest, stated
    <2> QED
      BY <1>2, <1>3, <1>4, RecordKeepsIt
  <1>6. \A n \in DOMAIN rows' : rows'[n] \in ExportRow
    BY <1>5, LenProperties
  <1>7. TypeOK'
    BY <1>5, <1>6 DEF Freeze, IInv, Typed, TypeOK, ExportRow
  <1> QED
    BY <1>5, <1>7 DEF Freeze, IInv, Typed

LEMMA PlaceOnMarketStep ==
    ASSUME IInv, NEW v \in Versions, NEW when \in Times, PlaceOnMarket(v, when)
    PROVE  IInv'
  <1>1. v \in Digests /\ NoTime \in Dates
    BY DEF Digests, Dates
  <1>2. Len(rows) < MaxRows /\ rows' = Record(v, NoTime) /\ UNCHANGED <<bucket, flush>>
    BY DEF PlaceOnMarket
  <1>3. /\ rows' \in Seq(ExportRow) /\ Len(rows') <= MaxRows
        /\ DOMAIN rows \subseteq DOMAIN rows'
        /\ DigestsAreUnique' /\ RetainCoversStated' /\ LocksComeFromRows'
        /\ ReportedIsStored' /\ ExportedIsInBucket'
    BY <1>1, <1>2, RecordKeepsIt
  <1>4. \A n \in DOMAIN rows' : rows'[n] \in ExportRow
    BY <1>3, LenProperties
  <1>5. placed' \in [Versions -> MaybeTime]
    BY DEF PlaceOnMarket, IInv, Typed, TypeOK, MaybeTime
  <1>6. IsFiniteSet({placed'[w] : w \in Versions})
    <2>1. placed \in [Versions -> MaybeTime] /\ IsFiniteSet({placed[w] : w \in Versions})
      BY DEF IInv, Typed, TypeOK
    <2>2. {placed'[w] : w \in Versions} \in SUBSET ({placed[w] : w \in Versions} \cup {when})
      BY <2>1 DEF PlaceOnMarket
    <2>3. IsFiniteSet({placed[w] : w \in Versions} \cup {when})
      BY <2>1, FS_AddElement
    <2> QED
      BY <2>2, <2>3, FS_Subset
  <1>7. TypeOK'
    BY <1>3, <1>4, <1>5 DEF PlaceOnMarket, IInv, Typed, TypeOK, ExportRow
  <1> QED
    BY <1>3, <1>6, <1>7 DEF PlaceOnMarket, IInv, Typed

LEMMA StartFlushStep ==
    ASSUME IInv, StartFlush
    PROVE  IInv'
  <1>1. rows \in Seq(ExportRow) /\ Len(rows) \in Nat /\ DOMAIN rows = 1..Len(rows)
    BY LenProperties DEF IInv, Typed
  <1>2. Backlog \in SUBSET (1..Len(rows))
    BY <1>1 DEF Backlog
  <1>3. Oldest(Backlog) \subseteq DOMAIN rows /\ Cardinality(Oldest(Backlog)) <= Limit
    BY <1>1, <1>2, OldestAreFew
  <1>4. flush' = [phase |-> "uploading", todo |-> Oldest(Backlog), outcome |-> <<>>]
    BY DEF StartFlush, Idle
  <1>5. DOMAIN flush'.outcome = {}
    BY <1>4
  <1>6. TypeOK'
    BY <1>3, <1>4, <1>5 DEF StartFlush, IInv, Typed, TypeOK
  <1>7. Typed'
    BY <1>4, <1>6 DEF StartFlush, IInv, Typed
  <1>8. ReportedIsStored'
    BY <1>5 DEF ReportedIsStored
  <1> QED
    BY <1>7, <1>8 DEF StartFlush, IInv, DigestsAreUnique, RetainCoversStated,
       LocksComeFromRows, ExportedIsInBucket

\* An upload gives the object the lock its row asks for: either there was
\* none, or it was this very one.
LEMMA UploadStep ==
    ASSUME IInv, NEW n \in flush.todo, NEW stored \in BOOLEAN, NEW answered \in BOOLEAN,
           Upload(n, stored, answered)
    PROVE  /\ IInv'
           /\ \A d \in Digests : bucket'[d] >= bucket[d]
  <1>1. rows \in Seq(ExportRow) /\ Len(rows) \in Nat /\ DOMAIN rows = 1..Len(rows)
        /\ n \in DOMAIN rows
    BY LenProperties DEF IInv, Typed, TypeOK
  <1>2. \A m \in DOMAIN rows : rows[m] \in ExportRow
    BY <1>1
  <1>3. bucket \in [Digests -> Dates]
    BY DEF IInv, Typed, TypeOK
  <1>4. flush' = [phase |-> flush.phase, todo |-> flush.todo \ {n},
                  outcome |-> [m \in DOMAIN flush.outcome \cup {n} |->
                                 IF m = n THEN Outcome(stored, answered)
                                 ELSE flush.outcome[m]]]
    BY DEF Upload, IInv, Typed
  <1>5. UNCHANGED <<now, placed, support, configured, rows, crashes>>
    BY DEF Upload
  <1>6. bucket' = IF stored THEN [bucket EXCEPT ![rows[n].digest] = rows[n].retain] ELSE bucket
    BY DEF Upload
  <1>7. bucket' \in [Digests -> Dates]
    BY <1>1, <1>2, <1>3, <1>6 DEF ExportRow, Dates
  <1>8. ASSUME NEW d \in Digests
        PROVE  \/ bucket'[d] = bucket[d]
               \/ stored /\ d = rows[n].digest /\ bucket'[d] = rows[n].retain
    BY <1>3, <1>6
  <1>9. stored => bucket'[rows[n].digest] = rows[n].retain
    BY <1>1, <1>2, <1>3, <1>6 DEF ExportRow
  <1>10. Typed'
    <2>1. IsFiniteSet(flush.todo) /\ Cardinality(flush.todo) \in Nat
      <3>1. IsFiniteSet(1..Len(rows))
        BY <1>1, FS_Interval
      <3>2. flush.todo \in SUBSET (1..Len(rows))
        BY <1>1 DEF IInv, Typed, TypeOK
      <3>3. IsFiniteSet(flush.todo)
        BY <3>1, <3>2, FS_Subset
      <3> QED
        BY <3>3, FS_CardinalityType
    <2>2. Cardinality(flush.todo \ {n}) <= Limit
      <3>1. Cardinality(flush.todo) <= Limit /\ Limit \in Nat
        BY ExportAssumption DEF IInv, Typed, TypeOK
      <3>2. Cardinality(flush.todo \ {n}) = Cardinality(flush.todo) - 1
        BY <2>1, FS_RemoveElement
      <3> QED
        BY <2>1, <3>1, <3>2
    <2>3. flush'.todo \subseteq DOMAIN rows' /\ Cardinality(flush'.todo) <= Limit
      BY <1>4, <1>5, <2>2 DEF IInv, Typed, TypeOK
    <2>4. DOMAIN flush'.outcome \subseteq DOMAIN rows'
      BY <1>1, <1>4, <1>5 DEF IInv, Typed, TypeOK
    <2>5. flush'.phase \in {"idle", "uploading"}
      BY <1>4 DEF IInv, Typed, TypeOK
    <2>6. TypeOK'
      BY <1>5, <1>7, <2>3, <2>4, <2>5 DEF IInv, Typed, TypeOK
    <2> QED
      BY <1>4, <1>5, <2>6 DEF IInv, Typed
  <1>11. DigestsAreUnique' /\ RetainCoversStated'
    BY <1>5 DEF IInv, DigestsAreUnique, RetainCoversStated
  <1>12. LocksComeFromRows'
    <2> SUFFICES ASSUME NEW d \in Digests, bucket'[d] # NoTime
                 PROVE  \E m \in DOMAIN rows : rows[m].digest = d /\ bucket'[d] = rows[m].retain
      BY <1>5 DEF LocksComeFromRows
    <2> QED
      BY <1>1, <1>8 DEF IInv, LocksComeFromRows
  <1>13. ASSUME NEW m \in DOMAIN rows, m # n
         PROVE  bucket'[rows[m].digest] = bucket[rows[m].digest]
    <2>1. rows[m].digest # rows[n].digest /\ rows[m].digest \in Digests
      BY <1>1, <1>2, <1>13 DEF IInv, DigestsAreUnique, ExportRow
    <2> QED
      BY <1>8, <2>1
  <1>14. ReportedIsStored'
    <2> SUFFICES ASSUME NEW m \in DOMAIN flush'.outcome
                 PROVE  /\ flush'.outcome[m] \in {"exported", "failed"}
                        /\ flush'.outcome[m] = "exported" =>
                              bucket'[rows[m].digest] = rows[m].retain
      BY <1>5 DEF ReportedIsStored
    <2>1. CASE m = n
      BY <1>4, <1>9, <2>1 DEF Outcome
    <2>2. CASE m # n
      <3>1. m \in DOMAIN flush.outcome /\ flush'.outcome[m] = flush.outcome[m]
        BY <1>4, <2>2
      <3>2. m \in DOMAIN rows
        BY <3>1 DEF IInv, Typed, TypeOK
      <3> QED
        BY <1>13, <2>2, <3>1, <3>2 DEF IInv, ReportedIsStored
    <2> QED
      BY <2>1, <2>2
  <1>15. ASSUME NEW d \in Digests
         PROVE  bucket'[d] >= bucket[d]
    <2>1. CASE bucket'[d] = bucket[d]
      BY <1>3, <2>1 DEF Dates, NoTime
    <2>2. CASE d = rows[n].digest /\ bucket'[d] = rows[n].retain
      <3>1. rows[n].retain \in Nat
        BY <1>1, <1>2 DEF ExportRow
      <3>2. bucket[d] = NoTime \/ bucket[d] = rows[n].retain
        BY <1>1, <2>2 DEF IInv, LocksComeFromRows, DigestsAreUnique
      <3> QED
        BY <2>2, <3>1, <3>2 DEF NoTime
    <2> QED
      BY <1>8, <2>1, <2>2
  <1>16. ExportedIsInBucket'
    <2> SUFFICES ASSUME NEW m \in DOMAIN rows, rows[m].status = "exported"
                 PROVE  bucket'[rows[m].digest] >= rows[m].retain
      BY <1>5 DEF ExportedIsInBucket
    <2>1. rows[m].digest \in Digests /\ rows[m].retain \in Nat
      BY <1>2 DEF ExportRow
    <2>2. bucket[rows[m].digest] >= rows[m].retain
      BY DEF IInv, ExportedIsInBucket
    <2>3. bucket[rows[m].digest] \in Int /\ bucket'[rows[m].digest] \in Int
      BY <1>3, <1>7, <2>1 DEF Dates, NoTime
    <2>4. bucket'[rows[m].digest] >= bucket[rows[m].digest]
      BY <1>15, <2>1
    <2> QED
      BY <2>1, <2>2, <2>3, <2>4
  <1> QED
    BY <1>10, <1>11, <1>12, <1>14, <1>15, <1>16 DEF IInv

LEMMA CommitFlushStep ==
    ASSUME IInv, CommitFlush
    PROVE  IInv'
  <1>1. rows \in Seq(ExportRow) /\ Len(rows) \in Nat /\ DOMAIN rows = 1..Len(rows)
    BY LenProperties DEF IInv, Typed
  <1>2. UNCHANGED <<now, placed, support, configured, bucket, crashes>>
    BY DEF CommitFlush
  <1>3. flush' = [phase |-> "idle", todo |-> {}, outcome |-> <<>>]
    BY DEF CommitFlush, Idle
  <1>4. DOMAIN rows' = DOMAIN rows
        /\ \A n \in DOMAIN rows :
              rows'[n] = IF n \in DOMAIN flush.outcome
                         THEN [rows[n] EXCEPT !.status = flush.outcome[n]] ELSE rows[n]
    BY DEF CommitFlush
  <1>5. ASSUME NEW n \in DOMAIN rows
        PROVE  /\ rows'[n] \in ExportRow
               /\ rows'[n].digest = rows[n].digest
               /\ rows'[n].stated = rows[n].stated
               /\ rows'[n].retain = rows[n].retain
               /\ rows'[n].status = "exported" =>
                     bucket[rows[n].digest] >= rows[n].retain
    <2>1. rows[n] \in ExportRow
      BY <1>1
    <2>2. CASE n \in DOMAIN flush.outcome
      <3>1. rows'[n] = [rows[n] EXCEPT !.status = flush.outcome[n]]
        BY <1>4, <2>2
      <3>2. flush.outcome[n] \in {"exported", "failed"}
            /\ (flush.outcome[n] = "exported" => bucket[rows[n].digest] = rows[n].retain)
        BY <2>2 DEF IInv, ReportedIsStored
      <3>3. rows[n].retain \in Nat
        BY <2>1 DEF ExportRow
      <3> QED
        BY <2>1, <3>1, <3>2, <3>3 DEF ExportRow, Statuses
    <2>3. CASE n \notin DOMAIN flush.outcome
      BY <1>4, <2>1, <2>3 DEF IInv, ExportedIsInBucket
    <2> QED
      BY <2>2, <2>3
  <1>6. rows' \in Seq(ExportRow) /\ Len(rows') = Len(rows)
    <2>1. rows' = [n \in 1..Len(rows) |-> rows'[n]]
      BY <1>1 DEF CommitFlush
    <2>2. rows' \in [1..Len(rows) -> ExportRow]
      BY <1>1, <1>5, <2>1
    <2>3. rows' \in Seq(ExportRow)
      BY <1>1, <2>2, SeqDef
    <2>4. Len(rows') \in Nat /\ DOMAIN rows' = 1..Len(rows')
      BY <2>3, LenProperties
    <2> QED
      BY <1>1, <1>4, <2>3, <2>4
  <1>7. Cardinality({}) <= Limit
    BY FS_EmptySet, ExportAssumption
  <1>8. DOMAIN flush'.outcome = {} /\ flush'.todo = {} /\ flush'.phase = "idle"
    BY <1>3
  <1>9. TypeOK'
    BY <1>2, <1>4, <1>5, <1>6, <1>7, <1>8 DEF IInv, Typed, TypeOK, ExportRow
  <1>10. Typed'
    BY <1>2, <1>3, <1>6, <1>9 DEF IInv, Typed
  <1>11. DigestsAreUnique' /\ RetainCoversStated'
    BY <1>4, <1>5 DEF IInv, DigestsAreUnique, RetainCoversStated
  <1>12. LocksComeFromRows'
    BY <1>2, <1>4, <1>5 DEF IInv, LocksComeFromRows
  <1>13. ReportedIsStored'
    BY <1>8 DEF ReportedIsStored
  <1>14. ExportedIsInBucket'
    BY <1>2, <1>4, <1>5 DEF ExportedIsInBucket
  <1> QED
    BY <1>10, <1>11, <1>12, <1>13, <1>14 DEF IInv

LEMMA CrashStep ==
    ASSUME IInv, NEW setting \in BOOLEAN, Crash(setting)
    PROVE  IInv'
  <1>1. UNCHANGED <<now, placed, support, rows, bucket>>
    BY DEF Crash
  <1>2. flush' = [phase |-> "idle", todo |-> {}, outcome |-> <<>>]
    BY DEF Crash, Idle
  <1>3. DOMAIN flush'.outcome = {} /\ flush'.todo = {} /\ flush'.phase = "idle"
    BY <1>2
  <1>4. Cardinality({}) <= Limit
    BY FS_EmptySet, ExportAssumption
  <1>5. crashes' \in 0..MaxCrashes /\ configured' \in BOOLEAN
    BY ExportAssumption DEF Crash, IInv, Typed, TypeOK
  <1>6. TypeOK'
    BY <1>1, <1>3, <1>4, <1>5 DEF IInv, Typed, TypeOK
  <1>7. Typed'
    BY <1>1, <1>2, <1>6 DEF IInv, Typed
  <1>8. ReportedIsStored'
    BY <1>3 DEF ReportedIsStored
  <1> QED
    BY <1>1, <1>7, <1>8 DEF IInv, DigestsAreUnique, RetainCoversStated, LocksComeFromRows,
       ExportedIsInBucket

\* A step keeps the invariant, and no object's lock gets shorter.
LEMMA NextStep ==
    ASSUME IInv, [Next]_vars
    PROVE  /\ IInv'
           /\ \A d \in Digests : bucket'[d] >= bucket[d]
  <1>1. UNCHANGED bucket => \A d \in Digests : bucket'[d] >= bucket[d]
    <2>1. \A d \in Digests : bucket[d] \in Int
      BY DEF IInv, Typed, TypeOK, Dates, NoTime
    <2> QED
      BY <2>1
  <1>2. ASSUME NEW content \in Contents, Freeze(content)
        PROVE  IInv' /\ UNCHANGED bucket
    BY <1>2, FreezeStep DEF Freeze
  <1>3. ASSUME NEW v \in Versions, NEW when \in Times, PlaceOnMarket(v, when)
        PROVE  IInv' /\ UNCHANGED bucket
    BY <1>3, PlaceOnMarketStep DEF PlaceOnMarket
  <1>4. ASSUME NEW end \in SupportEnds, SetSupportPeriod(end)
        PROVE  IInv' /\ UNCHANGED bucket
    BY <1>4 DEF SetSupportPeriod, IInv, Typed, TypeOK, MaybeEnd, DigestsAreUnique,
       RetainCoversStated, LocksComeFromRows, ReportedIsStored, ExportedIsInBucket
  <1>5. CASE StartFlush
    BY <1>1, <1>5, StartFlushStep DEF StartFlush
  <1>6. CASE UploadSome
    BY <1>6, UploadStep DEF UploadSome
  <1>7. CASE CommitFlush
    BY <1>1, <1>7, CommitFlushStep DEF CommitFlush
  <1>8. ASSUME NEW setting \in BOOLEAN, Crash(setting)
        PROVE  IInv' /\ UNCHANGED bucket
    BY <1>8, CrashStep DEF Crash
  <1>9. CASE Tick
    <2>1. IInv' /\ UNCHANGED bucket
      BY <1>9 DEF Tick, IInv, Typed, TypeOK, DigestsAreUnique, RetainCoversStated,
         LocksComeFromRows, ReportedIsStored, ExportedIsInBucket
    <2> QED
      BY <1>1, <2>1
  <1>10. CASE UNCHANGED vars
    <2>1. IInv' /\ UNCHANGED bucket
      BY <1>10 DEF vars, IInv, Typed, TypeOK, DigestsAreUnique, RetainCoversStated,
         LocksComeFromRows, ReportedIsStored, ExportedIsInBucket
    <2> QED
      BY <1>1, <2>1
  <1> QED
    BY <1>1, <1>2, <1>3, <1>4, <1>5, <1>6, <1>7, <1>8, <1>9, <1>10 DEF Next, Flush

----------------------------------------------------------------------------
(* Theorems *)

\* The inductive invariant holds of every reachable state.
THEOREM Invariant == Spec => []IInv
  <1>1. IInv /\ [Next]_vars => IInv'
    BY NextStep
  <1> QED
    BY InitIInv, <1>1, PTL DEF Spec

\* Every variable keeps its type, and no flush has more rows than its limit.
THEOREM TypesHold == Spec => []TypeOK
  <1>1. IInv => TypeOK
    BY DEF IInv, Typed
  <1> QED
    BY Invariant, <1>1, PTL

\* A row that says exported has its object in the bucket under a lock no
\* shorter than the row's, whatever crashed, was refused or went unanswered.
THEOREM ExportedIsThere == Spec => []ExportedIsInBucket
  <1>1. IInv => ExportedIsInBucket
    BY DEF IInv
  <1> QED
    BY Invariant, <1>1, PTL

\* No object is released before the date stated inside it: its lock is the
\* one of the only row with its digest, which covers that date.
THEOREM LockCovers == Spec => []LockCoversStatedDate
  <1>1. IInv => LockCoversStatedDate
    <2> SUFFICES ASSUME IInv, NEW n \in DOMAIN rows, bucket[rows[n].digest] # NoTime
                 PROVE  bucket[rows[n].digest] >= rows[n].stated
      BY DEF LockCoversStatedDate
    <2>1. rows[n].digest \in Digests
      BY DEF IInv, Typed, TypeOK
    <2>2. bucket[rows[n].digest] = rows[n].retain
      BY <2>1 DEF IInv, LocksComeFromRows, DigestsAreUnique
    <2> QED
      BY <2>2 DEF IInv, RetainCoversStated
  <1> QED
    BY Invariant, <1>1, PTL

\* An upload repeated after a crash, a refusal or a lost answer never
\* shortens the lock an object bears.
THEOREM NoLockShortens == Spec => LocksNeverShorten
  <1>1. IInv /\ [Next]_vars => [\A d \in Digests : bucket'[d] >= bucket[d]]_vars
    BY NextStep
  <1> QED
    BY Invariant, <1>1, PTL DEF Spec, LocksNeverShorten
=============================================================================
