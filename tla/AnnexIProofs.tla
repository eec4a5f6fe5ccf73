------------------------------ MODULE AnnexIProofs ------------------------------
(***************************************************************************)
(* Theorems about AnnexI, for any catalogue, any classes, roles and        *)
(* versions, any number of risks and of versions of the assessment.        *)
(***************************************************************************)
EXTENDS AnnexI, TLAPS, WellFoundedInduction

----------------------------------------------------------------------------
(* The inductive invariant *)

\* What is in scope has a class and a seeded checklist.
ScopedIsSeeded == scope = "in" => class \in Classes /\ checklist # <<>>

\* No confirmed assessment has a risk that nobody decided, and there is none
\* before the first version.
ConfirmedIsDecided ==
    assessment.status = "confirmed" =>
        /\ assessment.version > 0
        /\ \A i \in Ids : assessment.risks[i].status # "proposed"

IInv ==
    /\ TypeOK
    /\ ScopedIsSeeded
    /\ ConfirmedIsDecided
    /\ ConfirmedIsFrozen
    /\ NoContradiction
    /\ FrozenRisksBind

----------------------------------------------------------------------------
(* Lemmas *)

\* The checklist is a function on Requirements, or on nothing.
LEMMA ChecklistDomain ==
    ASSUME TypeOK
    PROVE  /\ DOMAIN checklist \subseteq Requirements
           /\ \A q \in DOMAIN checklist : checklist[q] \in Item
           /\ checklist # <<>> => checklist \in [Requirements -> Item]
  <1>1. CASE checklist = <<>>
    BY <1>1
  <1>2. CASE checklist \in [Requirements -> Item]
    BY <1>2
  <1> QED
    BY <1>1, <1>2 DEF TypeOK

\* Whatever is edited is a draft with the risks and the frozen body it had.
LEMMA DraftIsOpen ==
    ASSUME IInv, MayEdit
    PROVE  /\ EnsureDraft \in Assessment
           /\ EnsureDraft.status = "draft"
           /\ EnsureDraft.version > 0
           /\ EnsureDraft.risks = assessment.risks
           /\ EnsureDraft.frozen = assessment.frozen
  <1>1. assessment \in Assessment /\ assessment.version \in 0..MaxVersion
    BY DEF IInv, TypeOK, Assessment
  <1>2. MaxVersion \in Nat
    BY ValuesAssumption
  <1>3. CASE assessment.version = 0
    <2>1. EnsureDraft = [assessment EXCEPT !.version = 1]
      BY <1>3 DEF EnsureDraft
    <2>2. assessment.status = "draft"
      BY <1>1, <1>3 DEF IInv, ConfirmedIsDecided, Assessment
    <2>3. EnsureDraft.version <= MaxVersion
      BY DEF MayEdit
    <2> QED
      BY <1>1, <1>2, <2>1, <2>2, <2>3 DEF Assessment
  <1>4. CASE assessment.version # 0 /\ assessment.status = "confirmed"
    <2>1. EnsureDraft = [assessment EXCEPT !.version = @ + 1, !.status = "draft"]
      BY <1>4 DEF EnsureDraft
    <2>2. EnsureDraft.version = assessment.version + 1
      BY <1>1, <2>1 DEF Assessment
    <2>3. EnsureDraft.version \in 0..MaxVersion /\ EnsureDraft.version > 0
      BY <1>1, <1>2, <2>2 DEF MayEdit
    <2>4. EnsureDraft \in [version : {EnsureDraft.version}, status : {"draft"},
                           stated : BOOLEAN, risks : {assessment.risks},
                           frozen : {assessment.frozen}, basisLifecycle : Lifecycles]
      BY <1>1, <2>1 DEF Assessment
    <2> QED
      BY <1>1, <2>3, <2>4 DEF Assessment
  <1>5. CASE assessment.version # 0 /\ assessment.status # "confirmed"
    <2>1. EnsureDraft = assessment
      BY <1>5 DEF EnsureDraft
    <2> QED
      BY <1>1, <1>2, <1>5, <2>1 DEF Assessment
  <1> QED
    BY <1>3, <1>4, <1>5

\* An edit that leaves a draft over the same frozen body keeps the invariant:
\* the start, the proposals and the decisions are such.
LEMMA EditsKeepIt ==
    ASSUME IInv,
           assessment' \in Assessment,
           Len(assessment'.risks) <= MaxRisks,
           assessment'.status = "draft",
           assessment'.frozen = assessment.frozen,
           UNCHANGED <<class, scope, role, lifecycle, checklist, evidenced, releases>>
    PROVE  IInv'
  <1>1. TypeOK'
    BY DEF IInv, TypeOK
  <1>2. ScopedIsSeeded' /\ NoContradiction'
    BY DEF IInv, ScopedIsSeeded, NoContradiction
  <1>3. ConfirmedIsDecided' /\ ConfirmedIsFrozen'
    BY DEF ConfirmedIsDecided, ConfirmedIsFrozen
  <1>4. FrozenRisksBind'
    BY DEF IInv, FrozenRisksBind, Accepted
  <1> QED
    BY <1>1, <1>2, <1>3, <1>4 DEF IInv

\* What a confirmation makes of one requirement.
LEMMA AppliedItem ==
    ASSUME IInv, NEW q \in DOMAIN checklist
    PROVE  /\ Applied(q) \in Item
           /\ Naming(q) = {} => Applied(q) = checklist[q]
           /\ Naming(q) # {} => Applied(q).applicability = "applicable"
           /\ Naming(q) \subseteq Applied(q).basis
  <1>1. checklist[q] \in Item
    BY ChecklistDomain DEF IInv
  <1>2. Naming(q) \subseteq RiskIds
    <2>1. assessment.risks \in Seq(Risk) /\ Len(assessment.risks) <= MaxRisks
      BY DEF IInv, TypeOK, Assessment
    <2> QED
      BY <2>1, ValuesAssumption DEF Naming, Accepted, RiskIds
  <1> QED
    BY <1>1, <1>2 DEF Applied, Item, Applicabilities

\* A non-empty set of positions of a sequence has a last one.
LEMMA LastPosition ==
    ASSUME NEW len \in Nat, NEW N, N \subseteq 1..len, N # {}
    PROVE  \E n \in N : \A m \in N : m <= n
  <1> DEFINE Less == OpToRel(<, Nat)
             FromEnd == {len - n : n \in N}
  <1>1. FromEnd \subseteq Nat /\ FromEnd # {}
    <2>1. \A n \in N : len - n \in Nat
      OBVIOUS
    <2>2. PICK n \in N : TRUE
      OBVIOUS
    <2>3. len - n \in FromEnd
      OBVIOUS
    <2> QED
      BY <2>1, <2>3
  <1>2. IsWellFoundedOn(Less, Nat)
    BY NatLessThanWellFounded
  <1> HIDE DEF Less, FromEnd
  <1>3. PICK x \in FromEnd : \A y \in FromEnd : <<y, x>> \notin Less
    BY <1>1, <1>2, WFMin
  <1>4. \A y \in FromEnd : ~ (y < x)
    BY <1>1, <1>3 DEF Less, OpToRel
  <1>5. PICK n \in N : x = len - n
    BY DEF FromEnd
  <1>6. ASSUME NEW m \in N PROVE m <= n
    <2>1. len - m \in FromEnd
      BY DEF FromEnd
    <2> QED
      BY <1>4, <1>5, <2>1
  <1> QED
    BY <1>6

\* What evidence is said to apply to is a version or nothing.
LEMMA LatestIsAnApplication ==
    ASSUME TypeOK, NEW N, N \subseteq DOMAIN releases
    PROVE  LatestOf(N) \in Applications
  <1>1. CASE N = {}
    BY <1>1 DEF LatestOf, Applications
  <1>2. CASE N # {}
    <2>1. releases \in Seq(Release) /\ N \subseteq 1..Len(releases) /\ Len(releases) \in Nat
      BY DEF TypeOK
    <2>2. \E n \in N : \A m \in N : m <= n
      BY <1>2, <2>1, LastPosition
    <2>3. PICK n \in N : LatestOf(N) = releases[n].version
      BY <1>2, <2>2 DEF LatestOf
    <2>4. releases[n] \in Release
      BY <2>1
    <2> QED
      BY <2>3, <2>4 DEF Release, Applications
  <1> QED
    BY <1>1, <1>2

----------------------------------------------------------------------------
(* Initially *)

LEMMA InitIInv == Init => IInv
  <1> SUFFICES ASSUME Init PROVE IInv
    OBVIOUS
  <1>1. NoAssessment \in Assessment /\ NoAssessment.risks = <<>> /\ Len(<<>>) = 0
    BY ValuesAssumption DEF NoAssessment, Assessment, Lifecycles
  <1>2. TypeOK
    BY <1>1, ValuesAssumption DEF Init, TypeOK, Scopes, Lifecycles
  <1>3. ScopedIsSeeded /\ ConfirmedIsDecided /\ ConfirmedIsFrozen /\ NoContradiction
    BY DEF Init, NoAssessment, ScopedIsSeeded, ConfirmedIsDecided, ConfirmedIsFrozen,
           NoContradiction
  <1>4. FrozenRisksBind
    BY DEF Init, NoAssessment, NoBody, FrozenRisksBind, Accepted
  <1> QED
    BY <1>2, <1>3, <1>4 DEF IInv

----------------------------------------------------------------------------
(* Every step *)

LEMMA ClassifyStep ==
    ASSUME IInv, NEW c \in Classes, NEW s \in {scope, "in", "out"}, ClassifyProduct(c, s)
    PROVE  IInv'
  <1>1. /\ class' = c /\ scope' = s
        /\ checklist' = IF s = "in" THEN Seeded ELSE checklist
        /\ UNCHANGED <<role, lifecycle, assessment, evidenced, releases>>
    BY DEF ClassifyProduct
  <1>2. TypeOK /\ ScopedIsSeeded /\ NoContradiction /\ FrozenRisksBind
    BY DEF IInv
  <1>3. ConfirmedIsDecided' /\ ConfirmedIsFrozen'
    BY <1>1 DEF IInv, ConfirmedIsDecided, ConfirmedIsFrozen, Ids
  <1>4. CASE checklist' = checklist
    <2>1. s = "in" => checklist # <<>>
      <3>1. CASE s = "in" /\ checklist = <<>>
        <4>1. checklist' \in [Requirements -> Item] /\ SbomReq \in Requirements
          BY <1>1, <3>1, CatalogueAssumption DEF Seeded, Item, Applicabilities
        <4> QED
          BY <3>1, <4>1, <1>4
      <3> QED
        BY <3>1
    <2>2. TypeOK'
      BY <1>1, <1>2, <1>4 DEF TypeOK, Scopes
    <2>3. ScopedIsSeeded'
      BY <1>1, <1>4, <2>1 DEF ScopedIsSeeded
    <2>4. NoContradiction' /\ FrozenRisksBind'
      BY <1>1, <1>2, <1>4 DEF NoContradiction, FrozenRisksBind, Accepted
    <2> QED
      BY <1>3, <2>2, <2>3, <2>4 DEF IInv
  <1>5. CASE checklist' # checklist
    <2>1. /\ checklist = <<>>
          /\ checklist' = [q \in Requirements |->
               [applicability |-> IF q \in PartII THEN "applicable" ELSE "undetermined",
                justified |-> FALSE, done |-> FALSE, linked |-> FALSE, basis |-> {}]]
      BY <1>1, <1>5 DEF Seeded
    <2>2. checklist' \in [Requirements -> Item] /\ SbomReq \in Requirements
      BY <2>1, CatalogueAssumption DEF Item, Applicabilities
    <2>3. checklist' # <<>>
      BY <2>2
    <2>4. TypeOK'
      BY <1>1, <1>2, <2>2 DEF TypeOK, Scopes
    <2>5. NoContradiction'
      BY <2>1 DEF NoContradiction
    <2>6. FrozenRisksBind'
      <3>1. \A i \in Accepted(assessment.frozen.risks) :
               assessment.frozen.risks[i].affects = {}
        BY <1>2, <2>1 DEF FrozenRisksBind
      <3> QED
        BY <1>1, <3>1 DEF FrozenRisksBind, Accepted
    <2>7. ScopedIsSeeded'
      BY <1>1, <2>3 DEF ScopedIsSeeded
    <2> QED
      BY <1>3, <2>4, <2>5, <2>6, <2>7 DEF IInv
  <1> QED
    BY <1>4, <1>5

LEMMA StartStep ==
    ASSUME IInv, NEW stated \in BOOLEAN, StartRiskAssessment(stated)
    PROVE  IInv'
  <1>1. /\ MayEdit
        /\ assessment' = [EnsureDraft EXCEPT !.stated = stated]
        /\ UNCHANGED <<class, scope, role, lifecycle, checklist, evidenced, releases>>
    BY DEF StartRiskAssessment
  <1>2. EnsureDraft \in Assessment /\ assessment' \in Assessment
    BY <1>1, DraftIsOpen DEF Assessment
  <1>3. /\ assessment'.status = "draft"
        /\ assessment'.risks = assessment.risks
        /\ assessment'.frozen = assessment.frozen
    BY <1>1, <1>2, DraftIsOpen DEF Assessment
  <1>4. Len(assessment.risks) <= MaxRisks
    BY DEF IInv, TypeOK
  <1> QED
    BY <1>1, <1>2, <1>3, <1>4, EditsKeepIt

LEMMA ProposeStep ==
    ASSUME IInv, NEW affects \in SUBSET Requirements, ProposeRisk(affects)
    PROVE  IInv'
  <1> DEFINE r == [status |-> "proposed", affects |-> affects]
  <1>1. /\ MayEdit /\ Room
        /\ assessment' = [EnsureDraft EXCEPT !.risks = Append(@, r)]
        /\ UNCHANGED <<class, scope, role, lifecycle, checklist, evidenced, releases>>
    BY DEF ProposeRisk
  <1>2. r \in Risk
    BY DEF Risk, RiskStatuses
  <1>3. assessment.risks \in Seq(Risk) /\ Len(assessment.risks) < MaxRisks
    BY <1>1 DEF IInv, TypeOK, Assessment, Room
  <1> HIDE DEF r
  <1>4. /\ Append(assessment.risks, r) \in Seq(Risk)
        /\ Len(Append(assessment.risks, r)) <= MaxRisks
    BY <1>2, <1>3, ValuesAssumption
  <1>5. EnsureDraft \in Assessment /\ EnsureDraft.risks = assessment.risks
    BY <1>1, DraftIsOpen
  <1>6. /\ assessment' \in Assessment
        /\ assessment'.status = EnsureDraft.status
        /\ assessment'.risks = Append(assessment.risks, r)
        /\ assessment'.frozen = EnsureDraft.frozen
    BY <1>1, <1>4, <1>5 DEF Assessment
  <1> QED
    BY <1>1, <1>4, <1>6, DraftIsOpen, EditsKeepIt

LEMMA DecideStep ==
    ASSUME IInv, NEW i \in Ids, NEW decision \in {"accepted", "rejected"},
           NEW affects \in SUBSET Requirements, DecideRisk(i, decision, affects)
    PROVE  IInv'
  <1> DEFINE r == [status |-> decision, affects |-> affects]
  <1>1. /\ MayEdit
        /\ assessment' = [EnsureDraft EXCEPT !.risks[i] = r]
        /\ UNCHANGED <<class, scope, role, lifecycle, checklist, evidenced, releases>>
    BY DEF DecideRisk
  <1>2. r \in Risk
    BY DEF Risk, RiskStatuses
  <1>3. assessment.risks \in Seq(Risk) /\ Len(assessment.risks) <= MaxRisks
    BY DEF IInv, TypeOK, Assessment
  <1> HIDE DEF r
  <1>4. /\ [assessment.risks EXCEPT ![i] = r] \in Seq(Risk)
        /\ Len([assessment.risks EXCEPT ![i] = r]) = Len(assessment.risks)
    BY <1>2, <1>3 DEF Ids
  <1>5. EnsureDraft \in Assessment /\ EnsureDraft.risks = assessment.risks
    BY <1>1, DraftIsOpen
  <1>6. /\ assessment' \in Assessment
        /\ assessment'.status = EnsureDraft.status
        /\ assessment'.risks = [assessment.risks EXCEPT ![i] = r]
        /\ assessment'.frozen = EnsureDraft.frozen
    BY <1>1, <1>4, <1>5 DEF Assessment
  <1> QED
    BY <1>1, <1>3, <1>4, <1>6, DraftIsOpen, EditsKeepIt

LEMMA ConfirmStep ==
    ASSUME IInv, ConfirmRiskAssessment
    PROVE  IInv'
  <1>1. /\ scope = "in" /\ assessment.version > 0 /\ assessment.stated
        /\ \A i \in Ids : assessment.risks[i].status # "proposed"
        /\ checklist' = [q \in DOMAIN checklist |-> Applied(q)]
        /\ assessment' = [assessment EXCEPT !.status = "confirmed", !.frozen = CurrentBody,
                                            !.basisLifecycle = lifecycle]
        /\ UNCHANGED <<class, scope, role, lifecycle, evidenced, releases>>
    BY DEF ConfirmRiskAssessment
  <1>2. /\ class \in Classes
        /\ checklist \in [Requirements -> Item]
        /\ assessment \in Assessment
        /\ lifecycle \in Lifecycles
        /\ Len(assessment.risks) <= MaxRisks
    BY <1>1, ChecklistDomain DEF IInv, TypeOK, ScopedIsSeeded
  <1>3. CurrentBody \in Body
    BY <1>2 DEF CurrentBody, Body, Assessment
  <1>4. /\ assessment' \in Assessment
        /\ assessment'.version = assessment.version
        /\ assessment'.risks = assessment.risks
        /\ assessment'.stated = assessment.stated
        /\ assessment'.frozen = CurrentBody
    BY <1>1, <1>2, <1>3 DEF Assessment
  <1>5. checklist' \in [Requirements -> Item]
    BY <1>1, <1>2, AppliedItem
  <1>6. TypeOK'
    BY <1>1, <1>2, <1>4, <1>5 DEF IInv, TypeOK
  <1>7. ScopedIsSeeded'
    <2>1. SbomReq \in Requirements
      BY CatalogueAssumption
    <2> QED
      BY <1>1, <1>2, <1>5, <2>1 DEF ScopedIsSeeded
  <1>8. ConfirmedIsDecided' /\ ConfirmedIsFrozen'
    <2>1. ConfirmedIsDecided'
      BY <1>1, <1>4 DEF ConfirmedIsDecided, Ids
    <2>2. /\ CurrentBody.risks = assessment.risks
          /\ CurrentBody.stated = assessment.stated
      BY DEF CurrentBody
    <2>3. ConfirmedIsFrozen'
      BY <1>4, <2>2 DEF ConfirmedIsFrozen
    <2> QED
      BY <2>1, <2>3
  <1>9. NoContradiction'
    <2> SUFFICES ASSUME NEW q \in DOMAIN checklist',
                        checklist'[q].applicability = "not_applicable"
                 PROVE  checklist'[q].justified /\ checklist'[q].basis = {}
      BY DEF NoContradiction
    <2>1. q \in DOMAIN checklist /\ checklist'[q] = Applied(q)
      BY <1>1, <1>2
    <2>2. checklist'[q] = checklist[q]
      BY <2>1, AppliedItem
    <2> QED
      BY <2>1, <2>2 DEF IInv, NoContradiction
  <1>10. FrozenRisksBind'
    <2> SUFFICES ASSUME NEW i \in Accepted(assessment.risks),
                        NEW q \in assessment.risks[i].affects
                 PROVE  /\ q \in DOMAIN checklist'
                        /\ i \in checklist'[q].basis
                        /\ checklist'[q].applicability # "not_applicable"
      BY <1>4 DEF FrozenRisksBind, CurrentBody, Accepted
    <2>1. q \in Requirements
      <3>1. assessment.risks \in Seq(Risk) /\ i \in DOMAIN assessment.risks
        BY <1>2 DEF Accepted, Assessment
      <3>2. assessment.risks[i] \in Risk
        BY <3>1
      <3> QED
        BY <3>2 DEF Risk
    <2>2. checklist'[q] = Applied(q) /\ q \in DOMAIN checklist
      BY <1>1, <1>2, <2>1
    <2>3. i \in Naming(q)
      BY DEF Naming
    <2> QED
      BY <1>1, <2>2, <2>3, AppliedItem
  <1> QED
    BY <1>6, <1>7, <1>8, <1>9, <1>10 DEF IInv

LEMMA UpdateStep ==
    ASSUME IInv, NEW q \in Requirements, NEW a \in Applicabilities, NEW j \in BOOLEAN,
           NEW d \in BOOLEAN, UpdateRequirement(q, a, j, d)
    PROVE  IInv'
  <1>1. /\ q \in DOMAIN checklist
        /\ a = "not_applicable" => j /\ checklist[q].basis = {}
        /\ checklist' = [checklist EXCEPT ![q].applicability = a,
                                         ![q].justified = j /\ a # "applicable",
                                         ![q].done = d]
        /\ UNCHANGED <<class, scope, role, lifecycle, assessment, evidenced, releases>>
    BY DEF UpdateRequirement, MayRuleOut
  <1>2. checklist # <<>> /\ checklist \in [Requirements -> Item] /\ checklist[q] \in Item
    BY <1>1, ChecklistDomain DEF IInv
  <1>3. /\ checklist' \in [Requirements -> Item]
        /\ \A p \in Requirements : checklist'[p].basis = checklist[p].basis
        /\ \A p \in Requirements \ {q} : checklist'[p] = checklist[p]
        /\ checklist'[q].applicability = a
        /\ checklist'[q].justified = (j /\ a # "applicable")
    BY <1>1, <1>2 DEF Item
  <1>4. TypeOK'
    BY <1>1, <1>3 DEF IInv, TypeOK
  <1>5. ScopedIsSeeded' /\ ConfirmedIsDecided' /\ ConfirmedIsFrozen'
    BY <1>1, <1>2, <1>3
    DEF IInv, ScopedIsSeeded, ConfirmedIsDecided, ConfirmedIsFrozen, Ids
  <1>6. NoContradiction'
    BY <1>1, <1>2, <1>3 DEF IInv, NoContradiction
  <1>7. FrozenRisksBind'
    <2> SUFFICES ASSUME NEW i \in Accepted(assessment.frozen.risks),
                        NEW p \in assessment.frozen.risks[i].affects
                 PROVE  /\ p \in DOMAIN checklist'
                        /\ i \in checklist'[p].basis
                        /\ checklist'[p].applicability # "not_applicable"
      BY <1>1 DEF FrozenRisksBind, Accepted
    <2>1. /\ p \in DOMAIN checklist
          /\ i \in checklist[p].basis
          /\ checklist[p].applicability # "not_applicable"
      BY DEF IInv, FrozenRisksBind
    <2> QED
      BY <1>1, <1>2, <1>3, <2>1
  <1> QED
    BY <1>4, <1>5, <1>6, <1>7 DEF IInv

\* A linked item is an item.
LEMMA LinkedType ==
    ASSUME IInv, NEW q \in DOMAIN checklist
    PROVE  [checklist EXCEPT ![q].linked = TRUE] \in [Requirements -> Item]
  <1>1. checklist # <<>> /\ checklist \in [Requirements -> Item] /\ checklist[q] \in Item
    BY ChecklistDomain DEF IInv
  <1>2. [checklist[q] EXCEPT !.linked = TRUE] \in Item
    BY <1>1 DEF Item
  <1> QED
    BY <1>1, <1>2

\* Linking evidence to an item, or finding none to link it to, keeps it.
LEMMA LinksKeepIt ==
    ASSUME IInv, NEW q, TypeOK',
           \/ checklist' = checklist
           \/ q \in DOMAIN checklist /\ checklist' = [checklist EXCEPT ![q].linked = TRUE],
           UNCHANGED <<class, scope, assessment>>
    PROVE  IInv'
  <1>1. /\ DOMAIN checklist' = DOMAIN checklist
        /\ \A p \in DOMAIN checklist :
              /\ checklist'[p].basis = checklist[p].basis
              /\ checklist'[p].applicability = checklist[p].applicability
              /\ checklist'[p].justified = checklist[p].justified
    BY ChecklistDomain DEF IInv, Item
  <1>2. checklist # <<>> => checklist' # <<>>
    <2>1. checklist # <<>> => SbomReq \in DOMAIN checklist
      BY ChecklistDomain, CatalogueAssumption DEF IInv
    <2> QED
      BY <1>1, <2>1
  <1>3. ScopedIsSeeded' /\ ConfirmedIsDecided' /\ ConfirmedIsFrozen'
    BY <1>2 DEF IInv, ScopedIsSeeded, ConfirmedIsDecided, ConfirmedIsFrozen, Ids
  <1>4. NoContradiction' /\ FrozenRisksBind'
    BY <1>1 DEF IInv, NoContradiction, FrozenRisksBind, Accepted
  <1> QED
    BY <1>3, <1>4 DEF IInv

LEMMA AttachStep ==
    ASSUME IInv, NEW q \in Requirements, NEW v \in Applications, AttachEvidence(q, v)
    PROVE  IInv'
  <1> DEFINE version == IF v = Unversioned THEN LatestRelease ELSE v
  <1>1. /\ q \in DOMAIN checklist
        /\ evidenced' = [evidenced EXCEPT ![q] = @ \cup {version}]
        /\ checklist' = [checklist EXCEPT ![q].linked = TRUE]
        /\ UNCHANGED <<class, scope, role, lifecycle, assessment, releases>>
    BY DEF AttachEvidence
  <1>2. version \in Applications
    BY LatestIsAnApplication DEF IInv, LatestRelease, Placed
  <1> HIDE DEF version
  <1>3. checklist' \in [Requirements -> Item]
    BY <1>1, LinkedType
  <1>4. TypeOK'
    BY <1>1, <1>2, <1>3 DEF IInv, TypeOK
  <1> QED
    BY <1>1, <1>4, LinksKeepIt

LEMMA SbomStep ==
    ASSUME IInv, NEW v \in Applications, RecordSbom(v)
    PROVE  IInv'
  <1> DEFINE version == IF v = Unversioned THEN LatestBuild ELSE v
  <1>1. /\ evidenced' = [evidenced EXCEPT ![SbomReq] = @ \cup {version}]
        /\ checklist' = IF SbomReq \in DOMAIN checklist
                        THEN [checklist EXCEPT ![SbomReq].linked = TRUE]
                        ELSE checklist
        /\ UNCHANGED <<class, scope, role, lifecycle, assessment, releases>>
    BY DEF RecordSbom
  <1>2. version \in Applications /\ SbomReq \in Requirements
    BY LatestIsAnApplication, CatalogueAssumption DEF IInv, LatestBuild
  <1> HIDE DEF version
  <1>3. CASE SbomReq \in DOMAIN checklist
    <2>1. checklist' \in [Requirements -> Item]
      BY <1>1, <1>3, LinkedType
    <2>2. TypeOK'
      BY <1>1, <1>2, <2>1 DEF IInv, TypeOK
    <2> QED
      BY <1>1, <1>3, <2>2, LinksKeepIt
  <1>4. CASE SbomReq \notin DOMAIN checklist
    <2>1. TypeOK'
      BY <1>1, <1>2, <1>4 DEF IInv, TypeOK
    <2> QED
      BY <1>1, <1>4, <2>1, LinksKeepIt
  <1> QED
    BY <1>3, <1>4

LEMMA BuildStep ==
    ASSUME IInv, NEW v \in Versions, RecordBuild(v)
    PROVE  IInv'
  <1>1. /\ releases' = Append(releases, [version |-> v, placed |-> FALSE, waived |-> FALSE])
        /\ UNCHANGED <<class, scope, role, lifecycle, assessment, checklist, evidenced>>
    BY DEF RecordBuild
  <1>2. [version |-> v, placed |-> FALSE, waived |-> FALSE] \in Release
    BY DEF Release
  <1>3. TypeOK'
    BY <1>1, <1>2 DEF IInv, TypeOK
  <1> QED
    BY <1>1, <1>3, LinksKeepIt

LEMMA PlaceStep ==
    ASSUME IInv, NEW n \in DOMAIN releases, NEW clear \in BOOLEAN, NEW waived \in BOOLEAN,
           PlaceOnMarket(n, clear, waived)
    PROVE  IInv'
  <1>1. /\ releases' = [releases EXCEPT ![n].placed = TRUE, ![n].waived = waived]
        /\ lifecycle' = "placed_on_market"
        /\ evidenced' = [evidenced EXCEPT ![ExploitableReq] = @ \cup {releases[n].version}]
        /\ checklist' = IF ExploitableReq \in DOMAIN checklist
                        THEN [checklist EXCEPT ![ExploitableReq].linked = TRUE]
                        ELSE checklist
        /\ UNCHANGED <<class, scope, role, assessment>>
    BY DEF PlaceOnMarket
  <1>2. releases \in Seq(Release) /\ releases[n] \in Release
    BY DEF IInv, TypeOK
  <1>3. releases' \in Seq(Release) /\ releases[n].version \in Applications
    <2> DEFINE r == [releases[n] EXCEPT !.placed = TRUE, !.waived = waived]
    <2>1. r \in Release
      BY <1>2 DEF Release
    <2>2. releases' = [releases EXCEPT ![n] = r]
      BY <1>1
    <2> HIDE DEF r
    <2>3. releases' \in Seq(Release)
      BY <1>2, <2>1, <2>2
    <2>4. releases[n].version \in Applications
      BY <1>2 DEF Release, Applications
    <2> QED
      BY <2>3, <2>4
  <1>4. evidenced' \in [Requirements -> SUBSET Applications]
    BY <1>1, <1>3, CatalogueAssumption DEF IInv, TypeOK
  <1>5. CASE ExploitableReq \in DOMAIN checklist
    <2>1. checklist' \in [Requirements -> Item]
      BY <1>1, <1>5, LinkedType
    <2>2. TypeOK'
      BY <1>1, <1>3, <1>4, <2>1 DEF IInv, TypeOK, Lifecycles
    <2> QED
      BY <1>1, <1>5, <2>2, LinksKeepIt
  <1>6. CASE ExploitableReq \notin DOMAIN checklist
    <2>1. TypeOK'
      BY <1>1, <1>3, <1>4, <1>6 DEF IInv, TypeOK, Lifecycles
    <2> QED
      BY <1>1, <1>6, <2>1, LinksKeepIt
  <1> QED
    BY <1>5, <1>6

LEMMA NextIInv == IInv /\ [Next]_vars => IInv'
  <1> SUFFICES ASSUME IInv, [Next]_vars PROVE IInv'
    OBVIOUS
  <1>1. ASSUME NEW c \in Classes, NEW s \in {scope, "in", "out"}, ClassifyProduct(c, s)
        PROVE  IInv'
    BY <1>1, ClassifyStep
  <1>2. ASSUME NEW r \in Roles, SetEconomicOperatorRole(r)
        PROVE  IInv'
    <2>1. TypeOK'
      BY <1>2 DEF SetEconomicOperatorRole, IInv, TypeOK
    <2> QED
      BY <1>2, <2>1, LinksKeepIt DEF SetEconomicOperatorRole
  <1>3. ASSUME NEW stated \in BOOLEAN, StartRiskAssessment(stated)
        PROVE  IInv'
    BY <1>3, StartStep
  <1>4. ASSUME NEW affects \in SUBSET Requirements, ProposeRisk(affects)
        PROVE  IInv'
    BY <1>4, ProposeStep
  <1>5. ASSUME NEW i \in Ids, NEW decision \in {"accepted", "rejected"},
               NEW affects \in SUBSET Requirements, DecideRisk(i, decision, affects)
        PROVE  IInv'
    BY <1>5, DecideStep
  <1>6. ASSUME ConfirmRiskAssessment PROVE IInv'
    BY <1>6, ConfirmStep
  <1>7. ASSUME NEW q \in Requirements, NEW a \in Applicabilities, NEW j \in BOOLEAN,
               NEW d \in BOOLEAN, UpdateRequirement(q, a, j, d)
        PROVE  IInv'
    BY <1>7, UpdateStep
  <1>8. ASSUME NEW q \in Requirements, NEW v \in Applications, AttachEvidence(q, v)
        PROVE  IInv'
    BY <1>8, AttachStep
  <1>9. ASSUME NEW v \in Applications, RecordSbom(v) PROVE IInv'
    BY <1>9, SbomStep
  <1>10. ASSUME NEW v \in Versions, RecordBuild(v) PROVE IInv'
    BY <1>10, BuildStep
  <1>11. ASSUME NEW n \in DOMAIN releases, NEW clear \in BOOLEAN, NEW waived \in BOOLEAN,
                PlaceOnMarket(n, clear, waived)
         PROVE  IInv'
    BY <1>11, PlaceStep
  <1>12. CASE UNCHANGED vars
    <2>1. TypeOK'
      BY <1>12 DEF vars, IInv, TypeOK
    <2> QED
      BY <1>12, <2>1, LinksKeepIt DEF vars
  <1> QED
    BY <1>1, <1>2, <1>3, <1>4, <1>5, <1>6, <1>7, <1>8, <1>9, <1>10, <1>11, <1>12 DEF Next

\* What the record is in every state, however its tools are called: the
\* invariant that the theorems below rest on.
THEOREM Invariant == Spec => []IInv
  <1> QED
    BY InitIInv, NextIInv, PTL DEF Spec

----------------------------------------------------------------------------
(* What is claimed of the record *)

\* Each field keeps its range: no tool exceeds _MAX_TOTAL risks, leaves an item
\* half made or has evidence apply to what is no version.
THEOREM TypeCorrect == Spec => []TypeOK
  <1>1. IInv => TypeOK
    BY DEF IInv
  <1> QED
    BY <1>1, Invariant, PTL

\* While the assessment reads as confirmed its risks and statements are those
\* that confirm_risk_assessment froze: _ensure_draft is on every way to them.
THEOREM ConfirmedStaysFrozen == Spec => []ConfirmedIsFrozen
  <1>1. IInv => ConfirmedIsFrozen
    BY DEF IInv
  <1> QED
    BY <1>1, Invariant, PTL

\* A requirement that is ruled out is justified and has no risk behind it,
\* whichever of update_requirement and apply_to_requirements came last.
THEOREM NeverContradicts == Spec => []NoContradiction
  <1>1. IInv => NoContradiction
    BY DEF IInv
  <1> QED
    BY <1>1, Invariant, PTL

\* What an accepted risk of the frozen assessment names stays in force until
\* the next confirmation, whatever update_requirement is called with.
THEOREM FrozenBinds == Spec => []FrozenRisksBind
  <1>1. IInv => FrozenRisksBind
    BY DEF IInv
  <1> QED
    BY <1>1, Invariant, PTL

----------------------------------------------------------------------------
(* Placing a version without a rationale *)

\* Only place_on_market places, and what it places cleanly has no blocker.
LEMMA CleanIsUnblocked ==
    ASSUME IInv, [Next]_vars, NEW n \in DOMAIN releases, CleanPlacing(n)
    PROVE  \E clear \in BOOLEAN : Blockers(clear) = {} /\ scope = "in"
  <1>1. releases \in Seq(Release) /\ releases' # releases
    BY DEF CleanPlacing, IInv, TypeOK
  <1>2. ASSUME NEW v \in Versions, RecordBuild(v) PROVE FALSE
    <2>1. releases' = Append(releases, [version |-> v, placed |-> FALSE, waived |-> FALSE])
      BY <1>2 DEF RecordBuild
    <2>2. releases'[n] = releases[n]
      BY <1>1, <2>1
    <2> QED
      BY <2>2 DEF CleanPlacing
  <1>3. PICK m \in DOMAIN releases, clear \in BOOLEAN, waived \in BOOLEAN :
           PlaceOnMarket(m, clear, waived)
    BY <1>1, <1>2
    DEF Next, vars, ClassifyProduct, SetEconomicOperatorRole, StartRiskAssessment,
        ProposeRisk, DecideRisk, ConfirmRiskAssessment, UpdateRequirement,
        AttachEvidence, RecordSbom
  <1>4. /\ releases' = [releases EXCEPT ![m].placed = TRUE, ![m].waived = waived]
        /\ Blockers(clear) = {} \/ waived
        /\ scope = "in"
    BY <1>3 DEF PlaceOnMarket
  <1>5. m = n
    BY <1>1, <1>4 DEF CleanPlacing
  <1>6. releases[n] \in Release
    BY <1>1
  <1>7. releases'[n].waived = waived
    BY <1>1, <1>4, <1>5, <1>6 DEF Release
  <1> QED
    BY <1>4, <1>7 DEF CleanPlacing

\* Over a record with no blocker the draft is the frozen assessment, of the
\* class the product has, and no requirement is a gap.
LEMMA UnblockedIsFrozen ==
    ASSUME IInv, NEW clear \in BOOLEAN, Blockers(clear) = {}
    PROVE  /\ assessment.status = "confirmed"
           /\ assessment.frozen.class = class
           /\ assessment.frozen.risks = assessment.risks
           /\ \A q \in DOMAIN checklist : ~Gap(q)
  <1>1. Frozen /\ ~Stale /\ \A q \in DOMAIN checklist : ~Gap(q)
    BY DEF Blockers
  <1>2. assessment.frozen.class = class /\ assessment.status # "draft"
    BY <1>1 DEF Stale
  <1>3. assessment.status = "confirmed"
    BY <1>2 DEF IInv, TypeOK, Assessment
  <1> QED
    BY <1>1, <1>2, <1>3 DEF IInv, ConfirmedIsFrozen

\* Every risk of such a record is decided, and what an accepted one names is
\* applicable, implemented and evidenced.
LEMMA UnblockedAnswers ==
    ASSUME IInv, NEW clear \in BOOLEAN, Blockers(clear) = {}, NEW i \in Ids
    PROVE  Answered(i)
  <1>1. assessment.risks[i].status # "proposed"
    BY UnblockedIsFrozen DEF IInv, ConfirmedIsDecided
  <1>2. ASSUME i \in Accepted(assessment.risks), NEW q \in assessment.risks[i].affects
        PROVE  /\ checklist[q].applicability = "applicable"
               /\ checklist[q].done
               /\ checklist[q].linked
    <2>1. q \in DOMAIN checklist /\ checklist[q].applicability # "not_applicable"
      BY <1>2, UnblockedIsFrozen DEF IInv, FrozenRisksBind
    <2>2. ~Gap(q) /\ checklist[q] \in Item
      BY <2>1, UnblockedIsFrozen, ChecklistDomain DEF IInv
    <2>3. checklist[q].applicability = "applicable"
      BY <2>1, <2>2 DEF Gap, Item, Applicabilities
    <2>4. checklist[q].done /\ checklist[q].linked
      BY <2>2, <2>3 DEF Gap
    <2> QED
      BY <2>3, <2>4
  <1> QED
    BY <1>1, <1>2 DEF Answered

\* A version that place_on_market takes without a rationale is placed over an
\* assessment of its class, each risk decided and each accepted one answered.
THEOREM CleanReleases == Spec => CleanReleaseAnswersRisks
  <1>1. IInv /\ [Next]_vars =>
          [\A n \in DOMAIN releases :
              CleanPlacing(n) =>
                  /\ assessment.frozen.class = class
                  /\ \A i \in Ids : Answered(i)]_vars
    <2> SUFFICES ASSUME IInv, [Next]_vars, NEW n \in DOMAIN releases, CleanPlacing(n)
                 PROVE  /\ assessment.frozen.class = class
                        /\ \A i \in Ids : Answered(i)
      OBVIOUS
    <2>1. PICK clear \in BOOLEAN : Blockers(clear) = {}
      BY CleanIsUnblocked
    <2> QED
      BY <2>1, UnblockedIsFrozen, UnblockedAnswers
  <1> QED
    BY <1>1, Invariant, PTL DEF Spec, CleanReleaseAnswersRisks

----------------------------------------------------------------------------
(* The placings of the past *)

\* An identifier names one recorded version: record_build refuses a second one.
OneRowPerVersion ==
    \A m, n \in DOMAIN releases : releases[m].version = releases[n].version => m = n

\* Every step keeps the rows, their identifiers and what is placed of them.
LEMMA RowsStand ==
    ASSUME IInv, [Next]_vars, NEW n \in DOMAIN releases
    PROVE  /\ n \in DOMAIN releases'
           /\ releases'[n].version = releases[n].version
           /\ releases[n].placed => releases'[n] = releases[n]
  <1>1. releases \in Seq(Release) /\ releases[n] \in Release
    BY DEF IInv, TypeOK
  <1>2. CASE UNCHANGED releases
    BY <1>2
  <1>3. ASSUME NEW v \in Versions, RecordBuild(v)
        PROVE  n \in DOMAIN releases' /\ releases'[n] = releases[n]
    BY <1>1, <1>3 DEF RecordBuild
  <1>4. ASSUME NEW m \in DOMAIN releases, NEW clear \in BOOLEAN, NEW waived \in BOOLEAN,
               PlaceOnMarket(m, clear, waived)
        PROVE  /\ n \in DOMAIN releases'
               /\ releases'[n].version = releases[n].version
               /\ releases[n].placed => releases'[n] = releases[n]
    <2>1. /\ releases' = [releases EXCEPT ![m].placed = TRUE, ![m].waived = waived]
          /\ ~releases[m].placed
      BY <1>4 DEF PlaceOnMarket, Unplaced, Placed
    <2>2. CASE m = n
      BY <1>1, <2>1, <2>2 DEF Release
    <2>3. CASE m # n
      BY <1>1, <2>1, <2>3
    <2> QED
      BY <2>2, <2>3
  <1> QED
    BY <1>2, <1>3, <1>4
    DEF Next, vars, ClassifyProduct, SetEconomicOperatorRole, StartRiskAssessment,
        ProposeRisk, DecideRisk, ConfirmRiskAssessment, UpdateRequirement,
        AttachEvidence, RecordSbom

\* Only record_build adds a row, under an identifier that no row has.
LEMMA RowsAdded ==
    ASSUME IInv, [Next]_vars, OneRowPerVersion
    PROVE  OneRowPerVersion'
  <1>1. releases \in Seq(Release)
    BY DEF IInv, TypeOK
  <1>2. CASE DOMAIN releases' = DOMAIN releases
    BY <1>2, RowsStand DEF OneRowPerVersion
  <1>3. ASSUME NEW v \in Versions, RecordBuild(v)
        PROVE  OneRowPerVersion'
    <2>1. /\ releases' = Append(releases, [version |-> v, placed |-> FALSE, waived |-> FALSE])
          /\ \A n \in DOMAIN releases : releases[n].version # v
      BY <1>3 DEF RecordBuild, Recorded
    <2>2. /\ DOMAIN releases' = DOMAIN releases \cup {Len(releases) + 1}
          /\ Len(releases) + 1 \notin DOMAIN releases
          /\ releases'[Len(releases) + 1].version = v
          /\ \A n \in DOMAIN releases : releases'[n] = releases[n]
      BY <1>1, <2>1
    <2> QED
      BY <2>1, <2>2 DEF OneRowPerVersion
  <1>4. ASSUME NEW m \in DOMAIN releases, NEW clear \in BOOLEAN, NEW waived \in BOOLEAN,
               PlaceOnMarket(m, clear, waived)
        PROVE  DOMAIN releases' = DOMAIN releases
    BY <1>4 DEF PlaceOnMarket
  <1> QED
    BY <1>2, <1>3, <1>4
    DEF Next, vars, ClassifyProduct, SetEconomicOperatorRole, StartRiskAssessment,
        ProposeRisk, DecideRisk, ConfirmRiskAssessment, UpdateRequirement,
        AttachEvidence, RecordSbom

\* A placing stands: record_build and place_on_market never change, drop or
\* repeat a version that is recorded, nor what was placed.
THEOREM PlacedStand == Spec => PlacingsStand
  <1>1. Init => OneRowPerVersion
    BY DEF Init, OneRowPerVersion
  <1>2. IInv /\ [Next]_vars /\ OneRowPerVersion => OneRowPerVersion'
    BY RowsAdded
  <1>3. IInv /\ [Next]_vars /\ OneRowPerVersion =>
          [/\ \A n \in DOMAIN releases :
                 /\ n \in DOMAIN releases'
                 /\ releases'[n].version = releases[n].version
                 /\ releases[n].placed => releases'[n] = releases[n]
           /\ \A m, n \in DOMAIN releases' :
                 releases'[m].version = releases'[n].version => m = n]_vars
    BY RowsStand, RowsAdded DEF OneRowPerVersion
  <1> QED
    BY <1>1, <1>2, <1>3, Invariant, PTL DEF Spec, PlacingsStand
=============================================================================
