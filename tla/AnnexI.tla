--------------------------------- MODULE AnnexI ---------------------------------
(***************************************************************************)
(* What one product records under Annex I: its classification, the risk    *)
(* assessment, the checklist of requirements derived from it, the evidence *)
(* against them, and the versions placed on the market over that record:   *)
(* src/cra/server/risk.py, annex.py, releases.py and the parts of          *)
(* scoping.py that feed them.                                              *)
(*                                                                         *)
(* Every tool is one locked read-modify-write on the event loop, so it is  *)
(* one action, and a refused call changes nothing.  What makes this hard   *)
(* is the order of the calls: nothing forces it.                           *)
(***************************************************************************)
EXTENDS Integers, Sequences, FiniteSets

CONSTANTS
    Requirements,    \* the catalogue of Annex I
    Unconditional,   \* those the annex does not qualify: Part I(1), all of Part II
    PartII,          \* the vulnerability handling requirements
    ExploitableReq,  \* Part I(2)(a), "annex_i.i.2.a", what a placing determines
    SbomReq,         \* Part II(1), "annex_i.ii.1", what an SBOM evidences
    Classes,         \* product classes
    Roles, Manufacturer,
    Versions,        \* identifiers a manufacturer ships under
    Unversioned,     \* applies_to_version is None
    MaxRisks,        \* _MAX_TOTAL
    MaxVersion       \* bound: versions of the assessment

ASSUME CatalogueAssumption ==
    /\ PartII \subseteq Unconditional
    /\ Unconditional \subseteq Requirements
    /\ SbomReq \in PartII
    /\ ExploitableReq \in Requirements \ Unconditional
ASSUME ValuesAssumption ==
    /\ Manufacturer \in Roles
    /\ Unversioned \notin Versions
    /\ MaxRisks \in Nat
    /\ MaxVersion \in Nat

VARIABLES
    class,        \* classification.product_class
    scope,        \* classification.in_scope
    role,         \* economic_operator_role
    lifecycle,
    assessment,   \* risk_assessment
    checklist,    \* requirements: empty until seeded
    evidenced,    \* the versions the Evidence rows of a requirement apply to
    releases      \* in recording order

vars == <<class, scope, role, lifecycle, assessment, checklist, evidenced, releases>>

NoClass == "unclassified"
Scopes == {"undetermined", "in", "out"}
Lifecycles == {"in_development", "placed_on_market"}
Applicabilities == {"applicable", "not_applicable", "undetermined"}
RiskStatuses == {"proposed", "accepted", "rejected"}
RiskIds == 1..MaxRisks
Risk == [status : RiskStatuses, affects : SUBSET Requirements]
Applications == Versions \cup {Unversioned}

\* stated: the fields that say what was assessed and how Part I(1) and Part II
\* are applied are filled in.
Body == [risks : Seq(Risk), stated : BOOLEAN, class : Classes]
NoBody == [risks |-> <<>>, stated |-> FALSE, class |-> NoClass]

Assessment ==
    [version : 0..MaxVersion, status : {"draft", "confirmed"}, stated : BOOLEAN,
     risks : Seq(Risk), frozen : Body \cup {NoBody}, basisLifecycle : Lifecycles]
\* risk_assessment is None.
NoAssessment ==
    [version |-> 0, status |-> "draft", stated |-> FALSE, risks |-> <<>>,
     frozen |-> NoBody, basisLifecycle |-> "in_development"]

\* done: status is implemented or verified; linked: evidence_ids is not empty.
Item ==
    [applicability : Applicabilities, justified : BOOLEAN, done : BOOLEAN,
     linked : BOOLEAN, basis : SUBSET RiskIds]
Release == [version : Versions, placed : BOOLEAN, waived : BOOLEAN]

TypeOK ==
    /\ class \in Classes \cup {NoClass}
    /\ scope \in Scopes
    /\ role \in Roles
    /\ lifecycle \in Lifecycles
    /\ assessment \in Assessment
    /\ Len(assessment.risks) <= MaxRisks
    /\ checklist \in [Requirements -> Item] \/ checklist = <<>>
    /\ evidenced \in [Requirements -> SUBSET Applications]
    /\ releases \in Seq(Release)

Init ==
    /\ class = NoClass
    /\ scope = "undetermined"
    /\ role \in Roles
    /\ lifecycle = "in_development"
    /\ assessment = NoAssessment
    /\ checklist = <<>>
    /\ evidenced = [q \in Requirements |-> {}]
    /\ releases = <<>>

----------------------------------------------------------------------------
(* Scoping *)

\* The derived answers stay derived: an item exists once, and keeps what was
\* said about it when the product is classified again.
Seeded ==
    IF checklist = <<>>
    THEN [q \in Requirements |->
            [applicability |-> IF q \in PartII THEN "applicable" ELSE "undetermined",
             justified |-> FALSE, done |-> FALSE, linked |-> FALSE, basis |-> {}]]
    ELSE checklist

\* in_scope may be left out of the call: s is what was recorded then.
ClassifyProduct(c, s) ==
    /\ class' = c
    /\ scope' = s
    /\ checklist' = IF s = "in" THEN Seeded ELSE checklist
    /\ UNCHANGED <<role, lifecycle, assessment, evidenced, releases>>

SetEconomicOperatorRole(r) ==
    /\ role' = r
    /\ UNCHANGED <<class, scope, lifecycle, assessment, checklist, evidenced, releases>>

----------------------------------------------------------------------------
(* The Article 13(2) assessment *)

Ids == DOMAIN assessment.risks
Accepted(risks) == {i \in DOMAIN risks : risks[i].status = "accepted"}
Frozen == assessment.frozen # NoBody

EditedInPlace ==  \* mutant: no new version for an edit
    IF assessment.version = 0 THEN [assessment EXCEPT !.version = 1] ELSE assessment
\* _ensure_draft: editing a confirmed assessment opens the next version, and
\* the frozen copy goes on being cited.
EnsureDraft ==
    IF assessment.version = 0 THEN [assessment EXCEPT !.version = 1]
    ELSE IF assessment.status = "confirmed"
         THEN [assessment EXCEPT !.version = @ + 1, !.status = "draft"]
         ELSE assessment

MayEdit == scope = "in" /\ EnsureDraft.version <= MaxVersion

StartRiskAssessment(stated) ==
    /\ MayEdit
    /\ assessment' = [EnsureDraft EXCEPT !.stated = stated]
    /\ UNCHANGED <<class, scope, role, lifecycle, checklist, evidenced, releases>>

RoomForOneMore == Len(assessment.risks) <= MaxRisks  \* mutant: off by one
Room == Len(assessment.risks) < MaxRisks

ProposeRisk(affects) ==
    /\ MayEdit
    /\ Room
    /\ assessment' = [EnsureDraft EXCEPT
                        !.risks = Append(@, [status |-> "proposed", affects |-> affects])]
    /\ UNCHANGED <<class, scope, role, lifecycle, checklist, evidenced, releases>>

\* affects_requirements may be left out: the draft's list stands then.
DecideRisk(i, decision, affects) ==
    /\ MayEdit
    /\ i \in Ids
    /\ assessment' = [EnsureDraft EXCEPT
                        !.risks[i] = [status |-> decision, affects |-> affects]]
    /\ UNCHANGED <<class, scope, role, lifecycle, checklist, evidenced, releases>>

\* apply_to_requirements
Naming(q) == {i \in Accepted(assessment.risks) : q \in assessment.risks[i].affects}
AppliedToUndecided(q) ==  \* mutant: what was ruled out stays ruled out
    [checklist[q] EXCEPT
        !.basis = @ \cup Naming(q),
        !.applicability = IF Naming(q) # {} /\ @ = "undetermined" THEN "applicable" ELSE @]
Applied(q) ==
    [checklist[q] EXCEPT
        !.basis = @ \cup Naming(q),
        !.applicability = IF Naming(q) = {} THEN @ ELSE "applicable",
        !.justified = @ /\ ~(Naming(q) # {} /\ checklist[q].applicability = "not_applicable")]

\* What _frozen_body renders and content_hash is the digest of.
CurrentBody ==
    [risks |-> assessment.risks, stated |-> assessment.stated, class |-> class]

\* The status is not looked at: a confirmed assessment may be confirmed again.
ConfirmRiskAssessment ==
    /\ scope = "in"
    /\ assessment.version > 0
    /\ assessment.risks # <<>>
    /\ \A i \in Ids : assessment.risks[i].status # "proposed"
    /\ assessment.stated
    /\ checklist' = [q \in DOMAIN checklist |-> Applied(q)]
    /\ assessment' = [assessment EXCEPT
                        !.status = "confirmed",
                        !.frozen = CurrentBody,
                        !.basisLifecycle = lifecycle]
    /\ UNCHANGED <<class, scope, role, lifecycle, evidenced, releases>>

StaleOfAnother ==  \* mutant: a draft over the frozen version passes
    /\ Frozen
    /\ assessment.frozen.class # class
\* staleness.  frozen.class is basis_product_class: both are set by confirm.
Stale ==
    /\ Frozen
    /\ \/ assessment.frozen.class # class
       \/ /\ assessment.basisLifecycle # lifecycle
          /\ <<assessment.basisLifecycle, lifecycle>> # <<"in_development", "placed_on_market">>
       \/ assessment.status = "draft"
----------------------------------------------------------------------------
(* The checklist and its evidence *)

CannotBeRuledOut(q) ==
    /\ q \in Unconditional
    /\ scope = "in"
    /\ q \notin PartII \/ role = Manufacturer

MayRuleOutUnlessQualified(q, justified) ==  \* mutant: the risks not consulted
    ~CannotBeRuledOut(q) /\ justified
MayRuleOut(q, justified) ==
    ~CannotBeRuledOut(q) /\ justified /\ checklist[q].basis = {}

\* Each argument may be left out, which leaves the field as it is.
UpdateRequirement(q, applicability, justified, done) ==
    /\ q \in DOMAIN checklist
    /\ applicability = "not_applicable" => MayRuleOut(q, justified)
    /\ checklist' = [checklist EXCEPT
                       ![q].applicability = applicability,
                       ![q].justified = justified /\ applicability # "applicable",
                       ![q].done = done]
    /\ UNCHANGED <<class, scope, role, lifecycle, assessment, evidenced, releases>>

Recorded == {releases[n].version : n \in DOMAIN releases}
Placed == {n \in DOMAIN releases : releases[n].placed}
LatestOf(N) ==
    IF N = {} THEN Unversioned
    ELSE releases[CHOOSE n \in N : \A m \in N : m <= n].version
LatestRelease == LatestOf(Placed)
LatestBuild == LatestOf(DOMAIN releases)

\* Unversioned as argument: applies_to_version was left out.
AttachEvidence(q, v) ==
    LET version == IF v = Unversioned THEN LatestRelease ELSE v IN
    /\ q \in DOMAIN checklist
    /\ v # Unversioned /\ LatestRelease # Unversioned => v \in Recorded
    /\ evidenced' = [evidenced EXCEPT ![q] = @ \cup {version}]
    /\ checklist' = [checklist EXCEPT ![q].linked = TRUE]
    /\ UNCHANGED <<class, scope, role, lifecycle, assessment, releases>>

\* The row is written even when there is no item to link it to.
RecordSbom(v) ==
    LET version == IF v = Unversioned THEN LatestBuild ELSE v IN
    /\ evidenced' = [evidenced EXCEPT ![SbomReq] = @ \cup {version}]
    /\ checklist' = IF SbomReq \in DOMAIN checklist
                    THEN [checklist EXCEPT ![SbomReq].linked = TRUE]
                    ELSE checklist
    /\ UNCHANGED <<class, scope, role, lifecycle, assessment, releases>>

\* _is_gap without a currency: what the release gate and the tools' replies ask.
Gap(q) ==
    CASE checklist[q].applicability = "not_applicable" -> ~checklist[q].justified
      [] checklist[q].applicability = "undetermined" -> TRUE
      [] OTHER -> ~checklist[q].done \/ ~checklist[q].linked

\* evidence_currency: all of its evidence is about superseded versions.
StaleEvidence(q) ==
    /\ LatestRelease # Unversioned
    /\ evidenced[q] # {}
    /\ evidenced[q] \cap {LatestRelease, Unversioned} = {}

\* _is_gap with it: what the technical file and the status ask.
FileGap(q) ==
    \/ Gap(q)
    \/ checklist[q].applicability = "applicable" /\ StaleEvidence(q)
----------------------------------------------------------------------------
(* Releases *)

RecordBuild(v) ==
    /\ v \notin Recorded
    /\ releases' = Append(releases, [version |-> v, placed |-> FALSE, waived |-> FALSE])
    /\ UNCHANGED <<class, scope, role, lifecycle, assessment, checklist, evidenced>>

\* _blockers; those that come from the scans and from the vulnerabilities are
\* one, "advisories", and external to this record.
Blockers(advisoriesClear) ==
    (IF ~Frozen THEN {"no_confirmed_risk_assessment"}
     ELSE (IF Stale THEN {"risk_assessment_stale"} ELSE {})
          \cup (IF assessment.stated THEN {} ELSE {"missing_13_3_statements"}))
    \cup (IF \E q \in DOMAIN checklist : Gap(q) THEN {"requirements_unsettled"} ELSE {})
    \cup (IF advisoriesClear THEN {} ELSE {"advisories"})

EveryBuild == DOMAIN releases  \* mutant: a version placed a second time
Unplaced == DOMAIN releases \ Placed

\* waived: accepted_rationale is given.
PlaceOnMarket(n, advisoriesClear, waived) ==
    /\ n \in Unplaced
    /\ Blockers(advisoriesClear) = {} \/ waived
    /\ scope = "in"
    /\ releases' = [releases EXCEPT ![n].placed = TRUE, ![n].waived = waived]
    /\ lifecycle' = "placed_on_market"
    /\ evidenced' = [evidenced EXCEPT ![ExploitableReq] = @ \cup {releases[n].version}]
    /\ checklist' = IF ExploitableReq \in DOMAIN checklist
                    THEN [checklist EXCEPT ![ExploitableReq].linked = TRUE]
                    ELSE checklist
    /\ UNCHANGED <<class, scope, role, assessment>>
----------------------------------------------------------------------------
Next ==
    \/ \E c \in Classes, s \in {scope, "in", "out"} : ClassifyProduct(c, s)
    \/ \E r \in Roles : SetEconomicOperatorRole(r)
    \/ \E stated \in BOOLEAN : StartRiskAssessment(stated)
    \/ \E affects \in SUBSET Requirements : ProposeRisk(affects)
    \/ \E i \in Ids, decision \in {"accepted", "rejected"}, affects \in SUBSET Requirements :
          DecideRisk(i, decision, affects)
    \/ ConfirmRiskAssessment
    \/ \E q \in Requirements, a \in Applicabilities, j \in BOOLEAN, d \in BOOLEAN :
          UpdateRequirement(q, a, j, d)
    \/ \E q \in Requirements, v \in Applications : AttachEvidence(q, v)
    \/ \E v \in Applications : RecordSbom(v)
    \/ \E v \in Versions : RecordBuild(v)
    \/ \E n \in DOMAIN releases, clear \in BOOLEAN, waived \in BOOLEAN :
          PlaceOnMarket(n, clear, waived)

Spec == Init /\ [][Next]_vars
----------------------------------------------------------------------------
(* Properties *)

\* What the technical file cites is the assessment itself: while it reads as
\* confirmed, its risks and statements are those that were frozen, whatever
\* tools ran in between (_ensure_draft opens a version at each edit).
ConfirmedIsFrozen ==
    assessment.status = "confirmed" =>
        /\ assessment.frozen.risks = assessment.risks
        /\ assessment.frozen.stated = assessment.stated

\* Annex VII(3) never holds a contradiction: a requirement that is ruled out
\* has a justification and no risk behind it, in whatever order it was ruled
\* out (update_requirement) and named by a risk (apply_to_requirements).
NoContradiction ==
    \A q \in DOMAIN checklist :
        checklist[q].applicability = "not_applicable" =>
            checklist[q].justified /\ checklist[q].basis = {}

\* What was confirmed binds: each requirement that an accepted risk of the
\* frozen assessment names has that risk in its basis and is not ruled out,
\* until another version is confirmed.
FrozenRisksBind ==
    \A i \in Accepted(assessment.frozen.risks) :
        \A q \in assessment.frozen.risks[i].affects :
            /\ q \in DOMAIN checklist
            /\ i \in checklist[q].basis
            /\ checklist[q].applicability # "not_applicable"

\* A version placed without a rationale is placed over a finished record: the
\* assessment is of this class, each of its risks is decided, and what every
\* accepted one makes applicable is implemented and evidenced.
Answered(i) ==
    /\ assessment.risks[i].status # "proposed"
    /\ i \in Accepted(assessment.risks) =>
          \A q \in assessment.risks[i].affects :
              /\ checklist[q].applicability = "applicable"
              /\ checklist[q].done
              /\ checklist[q].linked
CleanPlacing(n) ==
    ~releases[n].placed /\ releases'[n].placed /\ ~releases'[n].waived
CleanReleaseAnswersRisks ==
    [][\A n \in DOMAIN releases :
          CleanPlacing(n) =>
              /\ assessment.frozen.class = class
              /\ \A i \in Ids : Answered(i)]_vars

\* A placing is a claim about its instant: neither it nor the version it is
\* about is ever changed, dropped or recorded again.
PlacingsStand ==
    [][/\ \A n \in DOMAIN releases :
              /\ n \in DOMAIN releases'
              /\ releases'[n].version = releases[n].version
              /\ releases[n].placed => releases'[n] = releases[n]
       /\ \A m, n \in DOMAIN releases' :
              releases'[m].version = releases'[n].version => m = n]_vars
----------------------------------------------------------------------------
(* What the documents say and the code does not do *)

\* update_requirement's refusal says that a risk behind a requirement is
\* withdrawn with decide_risk and a new version; apply_to_requirements only
\* ever adds to the basis.
BasisIsAccepted ==
    assessment.status = "confirmed" =>
        \A q \in DOMAIN checklist : checklist[q].basis \subseteq Accepted(assessment.risks)

\* releases.py: "settled" means in the gate what it means in the technical
\* file; the gate passes _is_gap no currency.
SettledMeansTheSame ==
    [][\A n \in DOMAIN releases :
          CleanPlacing(n) => ~\E q \in DOMAIN checklist : FileGap(q)']_vars

\* place_on_market's reply: evidence attached from now on ties to this version.
PlacingMovesTheProduct ==
    [][\A n \in DOMAIN releases :
          ~releases[n].placed /\ releases'[n].placed =>
              LatestRelease' = releases[n].version]_vars

\* _ensure_draft: the previous version stays frozen; a confirmed assessment
\* can be confirmed again, with another body, under the same version.
VersionNamesOneBody ==
    [][Frozen /\ assessment'.frozen # assessment.frozen =>
          assessment'.version > assessment.version]_vars

\* update_requirement: a manufacturer's in-scope product has no Part II
\* requirement ruled out; the role and the scope may be recorded afterwards.
UnconditionalStands ==
    \A q \in DOMAIN checklist :
        CannotBeRuledOut(q) => checklist[q].applicability # "not_applicable"

\* attach_evidence: evidence does not point at a version that does not exist;
\* it may, before the first placing.
EvidenceNamesRecorded ==
    \A q \in Requirements \ {SbomReq} : evidenced[q] \subseteq Recorded \cup {Unversioned}
=============================================================================
