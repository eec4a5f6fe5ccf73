# Verification of the CRA compliance server

The repository is a server (Python, FastMCP over Postgres) that keeps the
records a manufacturer needs under the Cyber Resilience Act: products, their
classification, vulnerabilities and incidents with the statutory clocks of
Article 14, technical files, releases, and the people who may act on them. This
directory holds TLA+ modules
translated from its source, TLC configurations that check them on small
instances, and theorems checked by TLAPS.

Paths below are relative to `src/cra/` unless they start elsewhere.

## 1. The system

One uvicorn process. Tools are synchronous functions that FastMCP calls on the
event loop, and the synchronous parts of web handlers run there too, so **tool
calls and web handlers do not interleave inside a synchronous stretch**. Three
things do run beside them, in worker threads (`asyncio.to_thread`): the deadline
sweeper (every 300 s), the advisory sweeper (daily) and, in the same daily loop,
`statutory_export.flush_pending`. They meet the tools in Postgres only (READ
COMMITTED), and so does an operator's script, `scripts/migrate_annex_i_ids.py`,
which is started in the running container as a process of its own. `session_scope` is a transaction that commits on normal exit and
rolls back on an exception; the process may stop between any two of them.

| Component | State | Operations | Talks to |
|---|---|---|---|
| Statutory clocks (`deadlines.py`) | none: a table and functions of it | `due_at_for`, `schedule_for`, `obligation_state`, `due_rung`, `add_months` | reporting, alerts |
| Article 14 reporting (`server/reporting.py`) | vulnerabilities, incidents, obligation rows | record / update a vulnerability, report an incident, record a submission | audit, advisory pipeline (confirm records a vulnerability) |
| Alerts (`server/deadline_sweeper.py`) | `notification_log` | one pass: obligations, then support periods | reads what reporting and scoping commit; SES |
| Advisory pipeline (`server/advisories.py`, `advisory_sweeper.py`, `advisories/`) | candidates, scans, the KEV cache | scan, notify, confirm, dismiss | OSV, CISA and EPSS feeds; reporting; SES |
| Statutory export (`server/statutory_export.py`) | rows of artefacts to keep, the bucket's locked objects | `record`, `flush_pending` | conformity and releases register; S3 |
| Billing (`server/billing.py`, `billing_web.py`, `entitlements.py`) | a user's tier, paid-through date, processed event ids | checkout, three webhook handlers, `plan_for` | Stripe; every cap check |
| Product store (`server/store_pg.py`, `store.py`, `store_backend.py`) | product documents with a version, the membership mirror, audit rows | load, locked read-modify-write, save | every product tool |
| Scoping and membership (`server/scoping.py`, `handlers.py`, `invitations.py`) | product state | create, classify, support period, add, invite and remove members, join at sign-in, delete | store, entitlements |
| Conformity (`server/conformity.py`) | technical files, declarations, signatures | assemble, freeze, declare, sign off | store, export |
| Releases (`server/releases.py`) | releases, placings | release gate, `place_on_market` | advisories' last scan, conformity, export |
| Annex I evidence, risk (`server/annex.py`, `risk.py`) | parts of product state | record evidence, assess | store |
| Sign-up, access, OAuth, sessions (`server/signup.py`, `access.py`, `oauth.py`, `sessions.py`, `connector_tokens.py`) | challenges, accounts, connector tokens, web sessions, clients; authorization codes in memory | ask, answer, register, approve, redeem, resolve, revoke | mail; every request |
| Limits (`server/session_limiter.py`, `rate_limit.py`, `artifact_limits.py`) | the process's table of MCP sessions, counters | check and track, sweep | every request |
| Drafting, export, console, mail, schemas, catalogues | none of their own | rendering and I/O | |

### What is hard in it, and what makes each part correct

* **Clocks.** The law starts four kinds of clock from two anchors. Each anchor
  can be corrected, each report filed, in any order, by four tools; rows are
  stored with their due dates. Correct: exactly the clocks that have started
  have a row; unfiled rows are due where the anchors now say; filed rows never
  change; an overdue report is not made to disappear.
* **Alerts.** A pass works from a time and a list read when it started, in one
  transaction with mails inside it. Correct: a settled rung rests, urgency only
  grows while a date stands, an overdue obligation is not passed over for ever.
* **Advisories.** A scan reads rows, fetches, decides and writes, while a user
  confirms or dismisses; confirmation is three transactions. Correct: a dismissal
  survives scans unless there is news; a question is mailed once, and again only
  if the stamp of its mailing was lost; the clock of a confirmed advisory counts
  from the notification; what is exploited is told.
* **Export.** Crash or lost answer between the upload and the row; locks cannot
  be shortened. Correct: exported implies stored, locked as long as the document
  says, nothing waits for ever behind what the bucket refuses.
* **Billing.** Redelivery, reordering, failures, two transactions per event.
  Correct: effects once, access ends with what was paid for and not earlier.
* **Annex I record.** Risks, checklist, evidence and placings depend on each
  other and are written by ten tools that may be called in any order; a confirmed
  assessment is frozen and then edited. Correct: what was confirmed binds the
  checklist, nothing contradicts it, and a version placed without a waiver is
  placed over a finished record.
* **Technical file.** Documents are frozen, declared and signed by digest while
  the record moves, is moved back, or leaves the scope. Correct: a signature that
  reads as covering covers what was signed, and what was signed was complete.
* **People on a product.** A tool's change and its audit row are one transaction
  under a row lock; an invited sign-in is three transactions without it, and the
  migration saves over what was written since it loaded. Correct: an owner
  remains, the mirror says what the blob says, every change of the members is an
  act the trail was told of, and an invitation lets a person in once.
* **Proven addresses.** A code or a link is a row that wrong answers, right
  answers, double clicks, stops and other doors meet in. Correct: one grant per
  challenge, at the door and for the address it was mailed for; the guesses at what
  is live are bounded; a token is shown once; a session's row ends by disuse, and
  not before the cookie; a full table forgets the oldest.

`PROJECT.json` lists every hazard with its line and the properties that cover it.

## 2. Modules

| Module | Models | Extends |
|---|---|---|
| `Deadlines` | `deadlines.py`: the schedule, the state of an obligation, the escalation ladder | |
| `Reporting` | `reporting.py`: the four writing tools | `Deadlines` |
| `ReportingProofs` | theorems about `Reporting` | `Reporting`, `TLAPS` |
| `DeadlineSweeper` | `deadline_sweeper.py` beside the tools' commits | `Deadlines` |
| `AdvisoryPipeline` | scans, notification and decisions | |
| `AdvisoryProofs` | theorems about `AdvisoryPipeline` | `AdvisoryPipeline`, `TLAPS` |
| `StatutoryExport` | registration, flushing, the bucket | |
| `StatutoryExportProofs` | theorems about `StatutoryExport` | `StatutoryExport`, `TLAPS` |
| `BillingWebhook` | Stripe's events, the handlers, the derived plan | |
| `BillingWebhookProofs` | theorems about `BillingWebhook` | `BillingWebhook`, `TLAPS` |
| `AnnexI` | `risk.py`, `annex.py`, `releases.py` and what feeds them in `scoping.py` | |
| `AnnexIProofs` | theorems about `AnnexI` | `AnnexI`, `TLAPS` |
| `TechnicalFile` | `conformity.py`: assembling, freezing, declaring, signing, the status of a signature | |
| `TechnicalFileProofs` | theorems about `TechnicalFile` | `TechnicalFile`, `TLAPS` |
| `SignUp` | `signup.py`: challenges from the mail to the answer | |
| `SessionLimiter` | `session_limiter.py` | |
| `Access` | what answers open: `oauth.py`, `sessions.py`, `connector_tokens.py`, the doors in `access.py`, `billing_web.py`, `console.py` and `auth.py` | `SignUp`, `SessionLimiter` |
| `AccessProofs` | theorems about `Access`, `SignUp` and `SessionLimiter` | `Access`, `TLAPS` |
| `Register` | what a product promises about its people | |
| `Membership` | the store and the members: `store_pg.py`, `store_backend.py`, `invitations.py`, `add_member`, `remove_member`, `create_product`, `delete_product`; implements `Register` | |
| `MembershipProofs` | theorems about `Membership` | `Membership`, `TLAPS` |
| `MC...` | a small instance of each for TLC | |

**State and code.** Each VARIABLE is a table or part of one (`vulns`, `incidents`,
`obligations`, `log`, `rows`, `processed`, `account`), a piece of the
environment (`now`, `listed`, `bucket`, `subscriptions`), or the local state of
a thread that is in the middle of something (`pass`, `scan`, `call`, the
flush). Variables marked *history* in their comments are read by properties
only. A tool is one action, because it is one transaction on the event loop; a
worker thread's function is one action per stretch between two reads or writes
of shared state. A refused call is an action whose guard is false: it changes
nothing. Instants are small numbers, windows are CONSTANTS, and an absent
timestamp is `NoTime` (-1).

Points where the translation is not word for word:

* *Reporting*: an incident opened for a vulnerability carries its id (there is a
  unique index on `incidents.vulnerability_id`). Status, remediation and the
  views are read by no clock and left out; no path of the code sets
  `waived_reason`, so waived is not a state. `MonthAfter` stands for
  `add_months`.
* *DeadlineSweeper*: `Send` is the flush of the row, the mail and its outcome;
  nothing of it is visible to others before `CommitPass`. `MoveDue` is a
  corrected anchor or a new support period.
* *AdvisoryPipeline*: one product with an SBOM. A feed answers or fails at each
  fetch; a score has two levels, apart enough to re-open a dismissal. The unique
  constraint that a concurrent first scan meets is in `CommitRows`. Choosing,
  mailing (`SendMails`, one recipient for the fan-out) and `Stamp` are one
  transaction: `RollBack` is its failed commit and `Crash` a restart, and either
  loses the stamp and not the mails. `mailings` is history: since the question
  was put, the mailings that left and those whose stamp was lost. `ToolScans`
  says whether `scan_advisories` is called beside the sweeper.
* *StatutoryExport*: years instead of days; equal content has equal digest. The
  bucket is external: it stores, extends a lock or refuses.
* *BillingWebhook*: a subscription's snapshot travels in each event, as in
  Stripe's. `Fail` is a handler that raises, before or after the event's id is
  stored; `Respond` may lose the answer.
* *AnnexI*: one product. A statement that is required is there or not (`stated`,
  `justified`, `linked`); a risk is its status and the requirements it names, a
  body is what `_frozen_body` renders of them. The gate's blockers from scans and
  advisories are one condition. A decision may carry another list of requirements.
  The plan limits of `entitlements` refuse calls, which a call not made models.
* *TechnicalFile*: what the record says is a text that `EditRecord` moves, to a
  text that may be an earlier one again: that is `AnnexI` and `scoping.py` seen
  from here. A digest is what it is taken over. A declaration's number stands for
  its `drafted_at`, so that a redraft is another document. `frozen`, `saw` and a
  signature's `class` are history.
* *SignUp*, *Access*: who read the mail knows the right code; every other
  presentation is `Guess`. A mail that fails leaves no row (`_discard`); a stop
  between the row and the mail leaves it unmailed. `Stop` empties the process's
  memory, at any point between two transactions or as `Restart`. A presented
  token is one whose plaintext somebody was shown. A session's cookie is set at
  login with a Max-Age of the idle period and never renewed: `Presented` says that
  a browser sends it until then, while a client that kept the value
  (`browser = FALSE`) may send it for longer. `mailed`, `wrong`, `tried`,
  `shown`, `touched`, `visits` and `served` are history. Nothing in `src/` mints a
  product-scoped token or one that expires, or calls `revoke_token` or
  `sessions.revoke_all`; the last two are actions of an operator.
* *Membership*: a tool is one action. `apply_pending` is `JoinLoad`, `JoinSave`,
  `JoinRecord`, `JoinAccept`, with `JoinFails` and `JoinEnds` between any two; the
  server runs nothing else meanwhile (`Serving`), the migration does
  (`MigrateLoad`, `MigrateSave`). No caller passes `expected_version`; nothing sets
  `revoked_at` of an invitation; `create_product` writes no audit row, and the owner
  column stands in for it. `lapsed` is history: the products on which a row was
  lost or a save went over somebody's change. So is `letIn`: who an invitation's
  save let in, until the product is deleted or the join ends before `accepted_at`
  is written. Such a join is applied again at the next sign-in, also when an owner
  removed the person in between; `InvitedOnce` does not count it.

**Refinement.** `Register` says what a product promises about its people: one step
changes who is on it and adds the act to its trail, an owner remains, and a
product on which that was broken is marked lapsed, after which only the owner is
promised. `Membership` implements it (`ImplementsRegister`) under this mapping:
`members` is what the `product_members` rows say (so that a row left stale breaks
it), `founder` is the owner column, `lapsed` is itself, and
`trail` is the trail, empty once lapsed, with the row of the invited join
appended between `JoinSave` and `JoinRecord`, so that the two transactions are one
step of the register and the loss of the second one is a lapse. Deleting closes;
a save over a deleted product is a lapse; invitations, versions and exports are
invisible to it.

## 3. Runs

Sizes are distinct states. All bounds are CONSTANTS or named operators.

| Run | Shows | Bounds, and why they are enough |
|---|---|---|
| `reporting` | `ClocksRun`, `AwarenessClocksExact`, `AnchorsHappened`, `FiledReportsStand`, `OverdueIsAnswered` | one subject (rows of two incidents are independent; `OneSubject` keeps a vulnerability's and a reported one apart), three instants: enough to anchor, correct and be late. 87 k |
| `sweeper` | `SettledRungsRest`, `AlertsEscalate`, `OverdueLeavesARow` | one obligation with one rung and a support period with two, two recipients, two instants, one disturbance: a pass fails, or a date moves under it. Rungs of different subjects do not meet, and one ladder of two is enough to skip, repeat and escalate. 1.55 M |
| `advisory` | `AnchoredWhenTold`, `DismissalsSurviveScans`, `ToldOncePerQuestion`, `ExploitedOpenIsTold` | one candidate, the sweeper and the tools, two instants, one restart or rolled-back mailing: enough to mail twice with the stamp lost in between, and to see that the next mailing ends it. `ToldOncePerQuestion` is stated for the sweeper alone; it and `DismissalsSurviveScans` fail with `ToolScans = TRUE`. 780 k |
| `statutory_export` | `ExportedIsInBucket`, `LockCoversStatedDate`, `LocksNeverShorten`, `EveryArtefactGetsOut` | two contents, three rows, a flush limit of two with one artefact the bucket never accepts, one restart. 137 k |
| `billing` | `EffectsOnce`, `AccessEndsWithThePeriods`, `AccountFollowsStripe`, `CancellationKeepsPaidTime` | two subscriptions, three events, one failure, one lost answer: every pair of events in both orders. 1.1 M |
| `annex_i` | `ConfirmedIsFrozen`, `NoContradiction`, `FrozenRisksBind`, `CleanReleaseAnswersRisks`, `PlacingsStand` | two requirements (one that can be ruled out, one that cannot), one risk, two versions of the assessment, one version placed, two classes; `OneQuestion` keeps the second assessment to what precedes a placing. 656 k |
| `technical_file` | `CurrentMeansUnchanged`, `SignedDocumentsStand`, `DeclarationIsLastDraft` | two texts under symmetry, the two classes that restrict the route, two filings, two frozen files, one signature: the properties are about a signature each, and the texts may go there and back around it. 915 k |
| `access` | `OneGrantPerChallenge`, `AnswersOpenTheirDoor`, `GuessesAreBounded`, `HandedOverOnce`, `RowsServeTheirCookies`, `ConnectedAreCapped`, `RegistrationsStand` | one address with three challenges, of which two may live; two wrong answers spend one; two tokens; three clients and three MCP sessions for two places; seven instants, the later ones for a session's slide up to its hard limit and for idle MCP sessions. `OneTopic` looks at long sessions, the registry and the limiter one at a time, because they share no state. 443 k under symmetry |
| `membership` | `OwnerRemains`, `InvitedOnce`, `ImplementsRegister` | two products, as one sign-in may join several; two users, owner and editor; three writes of state in all (`FewWrites`): add, change and overwrite, which is enough to let somebody in, remove him and have him sign in again. 450 k under symmetry |

`TypeOK` is checked in the runs `reporting` and `annex_i`, and proved in every module
but `DeadlineSweeper`. To check it elsewhere, give it as the INVARIANT
of the module's cfg in place of the properties there. Time and the bounds run out, so a
behaviour may stop: `CHECK_DEADLOCK FALSE` everywhere.

### Fairness

Only what the code's own loops do by themselves gets it: a sweeper loop catches
what a pass raises and starts the next one (`WF_vars(Sweep)`), the advisory
sweeper and the flush likewise, and Stripe redelivers until it is answered 2xx.
No user ever has to act, no mail has to succeed. `AdvisoryPipeline` and
`StatutoryExport` state with their `FairSpec` what the feeds and the bucket must
do; `EveryArtefactGetsOut` needs `RefusedAssumption`: fewer artefacts are refused
for ever than the limit of a flush, which the code does not ensure.

### Where the program and its documents differ

Three runs are expected to fail; the trace is the finding, quoted in
`PROJECT.json`.

| Run | Property | What happens |
|---|---|---|
| `annex_i_basis_is_accepted` | `BasisIsAccepted` | a risk rejected and confirmed as rejected still stands behind its requirement, which can never be ruled out again |
| `technical_file_independent_signer` | `IndependentSigner` | who drew the declaration up signs it as independent, once somebody else has filed anything |
| `billing_failed_purchase` | `PurchaseIsGranted` | an exception after the event's id is stored turns every retry into a duplicate |

Further statements of the documents that the models contradict stand at the end
of their modules, each with the statement it comes from. They are not runs of
their own. To see a trace, give the property in place of those of the cfg named:

| Property | cfg | Statement |
|---|---|---|
| `FinalFollowsMeasure` | `Reporting.cfg` | `server/reporting.py:68`, the final report's fourteen days run from the corrective measure: a corrected date leaves the report due from the old one |
| `FailedStaysEligible` | `Sweeper.cfg` | `server/deadline_sweeper.py:397`, a failed mail stays eligible: one recipient's success settles the rung for the other |
| `DismissalsSurviveScans` | `Advisory.cfg`, `ToolScans = TRUE` | `server/advisories.py:341`, a dismissal must survive the next scan: two scans that read the row before either committed re-open it twice, whatever was decided in between |
| `ListingReopensDismissals` | `Advisory.cfg` | `server/advisories.py:344`: dismissed between a scan's read and commit, a newly listed candidate stays dismissed |
| `LockCoversDuty` | `StatutoryExport.cfg` | `server/statutory_export.py:3`, ten years after the placing: a file exported before it is unlocked earlier |
| `SettledMeansTheSame` | `AnnexI.cfg`, no constraint, `TwoVersions`, `MaxVersion = 1` | `server/releases.py:37`, "settled" is the technical file's: the gate does not ask whether the evidence is current |
| `PlacingMovesTheProduct` | the same | `server/releases.py:712`: the latest release is the last recorded, not the last placed |
| `VersionNamesOneBody` | `AnnexI.cfg`, no constraint | `server/risk.py:260`: confirming a confirmed assessment freezes another body under its version |
| `UnconditionalStands` | the same, `AnyRole` | `server/annex.py:390`: ruled out as an importer, then recorded as the manufacturer |
| `EvidenceNamesRecorded` | the same | `server/annex.py:695`: before the first placing any version is taken |
| `SignedRouteWasOpen` | `TechnicalFile.cfg` | `server/conformity.py:862`: reclassified between the draft and the signature |
| `CurrentSignaturesAgree` | `TechnicalFile.cfg`, `MaxSignatures = 2` | `server/conformity.py:941`: the declaration was drafted against an earlier file |
| `CurrentMeansUnchangedAnyScope` | `TechnicalFile.cfg` | `server/conformity.py:188`: out of scope, the frozen file is compared with itself |
| `AnchorFollowsReport` | `Reporting.cfg` | `server/tools.py:296`, became_aware_at moves the anchor of an incident that exists |
| `TrailStatesAwareness` | `Reporting.cfg` | `server/audit.py:10`, the trail evidences every change |
| `SubmissionsHappened` | `Reporting.cfg` | `server/reporting.py:958`, what is recorded is the proof that it happened |
| `SendingRetiresGentlerRungs` | `Sweeper.cfg` | `deadlines.py:323` |
| `EndOfSupportIsTold` | `Sweeper.cfg`, no obligation, `LastInstant = 2` | `server/deadline_sweeper.py:187` |
| `ConfirmationsStand` | `Advisory.cfg` | `server/advisories.py:339`, decisions are preserved |
| `OneRecordPerCandidate` | `Advisory.cfg`, `MaxRecords = 2` | `tests/integration/test_advisory_flow.py:262` |
| `ExploitedReachesSomeone` | `Advisory.cfg` | `server/advisories.py:15` |
| `ReleaseLockFollowsRetention` | `StatutoryExport.cfg` | `server/statutory_export.py:46` |
| `AccountFollowsInAnyOrder` | `BillingWebhook.cfg` | `server/billing.py:32` |
| `ConfirmationIsTrue` | `BillingWebhook.cfg` | `server/billing.py:512` |
| `PayerIsAnOwner` | `Membership.cfg` | `server/entitlements.py:225`, "the owner is always the payer": who opened the product and was removed by another owner still pays |
| `EveryJoinIsRecorded` | `Membership.cfg` | `server/store_backend.py:79`, a change nobody can evidence is worse than none: an invited member's row that failed is never written |
| `DeletedIsGone` | `Membership.cfg` | `scripts/migrate_annex_i_ids.py:36`, run it in the container: a product deleted between its load and its save is there again |
| `UsedSessionLasts` | `Access.cfg` | `server/sessions.py:23`, the expiry "slides forward as the session is used": the row's does, but `cookie_kwargs` (line 170) gives the cookie the idle period and only the login sets it (`server/console.py:250`), so a browser in daily use is signed out 14 days after the login |
| `SpentMeansConnected` | `Access.cfg` | `server/signup.py:490`, "most likely connected already": also after the fifth wrong code |
| `NewLinkReplacesToken` | `Access.cfg` | `server/access.py:163`, "request a new link and this one stops working": the earlier token stays live |

Two more that the models do not state. A pass that fails after a mail left rolls
its row back (`server/deadline_sweeper.py:494` writes it before sending), so the
mail goes out again. `rate_limit.py` counts with INCR and sets the expiry with a
second call: a stop between the two leaves a counter that never expires.

## 4. Proofs

Eight modules hold theorems, one for each component but the alerts. All of them are
about `Spec`, without the constraints and symmetry of the runs and without
fairness, and for every value of the constants that the named assumptions allow:
what a run bounds (records, events, crashes, sizes), a theorem does not. In each, `Invariant` says
that `IInv` holds in every reachable state, and every other theorem follows from it. `IInv` is
the conjunction of the types, the properties that are inductive with help, and
the help; TLC checks it on the constants of the run before it is proved.

The recurring argument is about *copies*. A handler that is several transactions
carries what it read into a later one: a scan its rows, a confirmation its anchor,
a flush its outcomes, a join its product state, a code its token. None of the
properties mentions the copy, and none is inductive without a conjunct that says
what the copy still has to do with the table.

**`ReportingProofs`**: `TypeCorrect` (`TypeOK`), `ClocksAreRunning` (`ClocksRun`),
`ClocksAreExact` (`AwarenessClocksExact`), `AnchorsArePast` (`AnchorsHappened`),
`FiledRowsExist` (a filing is only ever on a row that exists), `FiledStand`
(`FiledReportsStand`) and `OverdueAnswered` (`OverdueIsAnswered`). The properties
speak of an incident together with its rows, so `IInv` is a predicate of such a
pair: that an open incident has an awareness date in the past, that exactly the rows
whose clock started exist, that the unfiled ones are due by the schedule. That a
closed incident has no rows is why `_cascade` cannot find stale ones. Lemmas say what
`Materialise` and `Reschedule` do to a pair, and each action is one application of
them. The two action properties read the same lemmas as what a row may become:
`Materialise` touches none that exists, `Reschedule` only unfiled ones, and only
in a call that moves the awareness date and states it in the trail. Assumptions:
`TimesAssumption`, `WindowAssumption`, `MonthAssumption`, `DueSoonAssumption`,
`LadderAssumption`, `IdsAssumption` (instants and windows are naturals; the two
sets of ids are disjoint).

**`AnnexIProofs`**, for any catalogue of requirements, classes, roles and versions:
`TypeCorrect` (`TypeOK`), `ConfirmedStaysFrozen` (`ConfirmedIsFrozen`),
`NeverContradicts` (`NoContradiction`), `FrozenBinds` (`FrozenRisksBind`), and the action
properties `CleanReleases` (`CleanReleaseAnswersRisks`) and `PlacedStand`
(`PlacingsStand`). Beside the types, `NoContradiction` is inductive by itself and
the rest is not. `FrozenRisksBind` is
established by a confirmation only if the checklist exists by then, hence
`ScopedIsSeeded`: what is in scope has a class and a checklist. That a clean
placing finds every risk decided needs `ConfirmedIsDecided`, and that the frozen
risks, which bind the checklist, are those of the record needs
`ConfirmedIsFrozen`. `CleanReleases` then reads the gate backwards: no blocker
means frozen, of this class and with no draft open; so the record's risks are
the frozen ones, what they name is not ruled out, and no gap leaves only
applicable, done and linked. Assumptions: `CatalogueAssumption` (Part II is
unconditional, the SBOM's requirement is one of Part II, the one on exploitable
vulnerabilities can be ruled out) and `ValuesAssumption`.

**`AdvisoryProofs`**, for any candidates and instants: `AnchorsAreEarly`
(`AnchoredWhenTold`), `ToldOnce` (`ToldOncePerQuestion`), the action property
`DismissalsStand` (`DismissalsSurviveScans`), and `TypesHold` (`TypeOK`). `confirm_advisory` copies
an anchor that its second transaction uses; the sweeper chooses, mails, and stamps
with the instant of the choice. `ChosenAreUntold` says that what is chosen bears no
stamp until it gets this one, and `Fits` that a default anchor, in the call or on
a record, is no later than the stamp the row bears and than the choice that is
about to stamp it. `ToldOnce` counts mails: `MailsAccounted` says that a row
without a stamp has had no mailing but those whose stamp was lost and the one
just sent, so that a stamp may be cleared only where a question is put anew. That
a scan clears none otherwise needs that only an exploited row is stamped, in the
table and in what a scan has read (`RowsAreDated`, `ReadsAreOfRows`), and that
nobody else re-opens a row the scan read as dismissed (`DismissedAsRead`).
`ToldOnce` and `DismissalsStand` assume `ToolScans = FALSE`, and need it:
`ReadIsCurrent` says that the only scanner's reading of `exploited` is still the
table's, which a second scanner breaks. Every other theorem holds with both.
Assumption: `AdvisoryAssumption`.

**`StatutoryExportProofs`**: `ExportedIsThere` (`ExportedIsInBucket`), `LockCovers`
(`LockCoversStatedDate`), the action property `NoLockShortens` (`LocksNeverShorten`),
`TypesHold`. A flush reports at its end what it uploaded on the way:
`ReportedIsStored` says that what it will report is in the bucket already, so a crash
loses the report and not the object. A lock never shortens because
one digest has one row (`DigestsAreUnique`) and a lock is some row's
(`LocksComeFromRows`). That the latest placing exists needs that the placings are
finitely many instants; the greatest of a finite set of integers is proved by
well-foundedness of its size. Assumptions: `ExportAssumption`, `RefusedAssumption`.

**`MembershipProofs`**: `OwnersRemain` (`OwnerRemains`), `LetInOnce`
(`InvitedOnce`), `TypesHold`, and `Refinement` (`ImplementsRegister`):
every behaviour of the store is one of `Register`, initial states to initial
states and each action to one step of the register or a stutter. Two processes
hold copies of a product's state and save them without looking again: the invited
join (`JoiningTracksRow`: its copy names an owner and not the new member, and is
the row's unless the version moved) and the migration (`ScriptTracksRow`). An owner
remains because every copy names one; the refinement needs in
addition that the mirror is the blob's (`MirrorFollows`), that a product not there
has no history (`DormantIsEmpty`), and that whoever is about to join is invited to something
live (`InvitedToLive`). An invitation lets in once because whoever it let in has
its acceptance written unless his join is still at it, and what a sign-in has left
to apply is not accepted (`AcceptanceTells`). Assumption: `MembershipAssumption`.

**`AccessProofs`**, with `SignUp` and `SessionLimiter`: `OneGrant`
(`OneGrantPerChallenge`), `OpensItsDoor` (`AnswersOpenTheirDoor`), `GuessesBounded`
(`GuessesAreBounded`), `HandsOverOnce` (`HandedOverOnce`), `SessionRowsLast`
(`RowsServeTheirCookies`), `CapHolds` (`ConnectedAreCapped`), the action property
`RegistrationsLast` (`RegistrationsStand`), `TypesHold`. One conjunct for each place where two
records of one thing could part: what was granted was answered, once
(`GrantsAreAnswers`); a code in memory is the only one of a token that nobody has seen
(`CodesWait`); the attempts column counts the wrong answers, and an address has few
live challenges (`ChallengesCount`), so the guesses are bounded by the product of
both limits; `last_seen_at` lags behind the use by less than the refresh
interval, and the cookie ends before the expiry and the hard limit
(`ExpiryFollowsUse`); the limiter's table has what it let through
(`TableFollowsUse`). Cardinalities are carried through by two lemmas, that a set
grows by one and that parts are no more than the whole. Assumptions:
`SignUpAssumption` (the clock starts at 0) and `AccessAssumption` (a session is
refreshed before it idles out, no idle period is longer than the hard limit, and
the table holds one client at least).

**`TechnicalFileProofs`**: `CurrentIsUnchanged` (`CurrentMeansUnchanged`), `SignedStand`
(`SignedDocumentsStand`), `LastDraftInForce` (`DeclarationIsLastDraft`), `TypesHold`.
The status compares digests with a file assembled anew, and "no file" is a value
like any other: `FrozenIsArchived` and `SignaturesRest` say that what was signed
was complete, so the comparison cannot succeed on an absence. Assumptions:
`ClassesAssumption`, `BoundsAssumption`.

**`BillingWebhookProofs`**: `HandlersRunOnce` (`EffectsOnce`), `AccessEnds`
(`AccessEndsWithThePeriods`), `Follows` (`AccountFollowsStripe`), the action property
`CancellingKeepsDays` (`CancellationKeepsPaidTime`), `TypesHold`. Events arrive in any order
and carry what the subscription was when they were sent, hence `EventsLagBehind`
and, for the account to follow, `LastEventIsNow`. Access ends by a date that nobody
sends: `DateIsPaidFor` and `EndedHasDate` say that the stored one is some
subscription's and that an end was never reported without one. Assumption:
`BillingAssumption` (`None` is no plan's name, the free plan is on the ladder and is
not sold).

Only model-checked, and why:

* `OverdueLeavesARow`, `ExploitedOpenIsTold`, `EveryArtefactGetsOut`: liveness under
  fairness, which needs `ENABLED` and is out of the prover's reach;
* the three properties that are expected to fail;
* `SettledRungsRest` and `AlertsEscalate` of `DeadlineSweeper`: within the prover's
  reach, not yet proved.

No theorem is about a recursive definition, and no module declares one: what a
recursion computes for every input needs induction over data, which the
installed provers cannot do.

## 5. Plan

In order, with what each is for:

1. Theorems about `DeadlineSweeper`: `TypeOK`, `SettledRungsRest` (a settled row of a
   committed pass is in `AlreadySent` of the next), `AlertsEscalate` (a pass never
   runs at an earlier time than the rows that are committed).
2. `Calendar`: `add_months` against a reference definition over bounded dates, in
   place of `MonthAfter`.
3. The advisories' half of the release gate, composed of `AdvisoryPipeline` and
   `AnnexI`; `update_user_information`.

## 6. Not modelled, and why

Rendering, mail texts, the console's pages, drafting, schemas, catalogues and the
MCP surface: they keep no state of their own or only route calls. The file
backend, which serves development only. The rate limiter's counters and the
artefact caps: each refuses a call by a number it has just read. The parties'
static bearers and `sso.py`'s cookie, which no deployment sets. `delete_session`,
which nothing calls. The cap on members, which no plan of today sets. Cryptography and parsing of
tokens. SBOM parsing and the EPSS arithmetic beyond its threshold. Row locks:
both sides lock one row at a time, so they delay and do not deadlock. Database
failures other than a rolled-back transaction.
