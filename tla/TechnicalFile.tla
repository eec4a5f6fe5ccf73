------------------------------ MODULE TechnicalFile ------------------------------
(***************************************************************************)
(* The technical file, the declaration of conformity and the signatures on *)
(* them: src/cra/server/conformity.py.  The record they are drawn from     *)
(* (requirements, evidence, assessment, Annex II, support period) is what  *)
(* AnnexI and scoping.py change; here it is a text that the tools move.    *)
(*                                                                         *)
(* A digest is modelled by what it is taken over, so two are equal exactly *)
(* when the documents are.  Each tool runs to its end on the event loop.   *)
(***************************************************************************)
EXTENDS Integers, Sequences, FiniteSets

CONSTANTS
    Users,
    Texts,           \* what the sections and the narrative say
    Classes,         \* product classes,
    NeedsBody,       \* those that require a notified body,
    NeedsStandards,  \* those whose self-assessment needs standards in full
    MaxFilings,      \* bound: documents filed in Annex VII(7)
    MaxSignatures    \* bound: signatures

ASSUME ClassesAssumption ==
    NeedsBody \subseteq Classes /\ NeedsStandards \subseteq Classes \ NeedsBody
ASSUME BoundsAssumption ==
    MaxFilings \in Nat /\ MaxSignatures \in Nat

VARIABLES
    record,       \* the product state that assembly and drafting read
    claim,        \* conformity_claim
    filings,      \* the Evidence rows of technical_file:tf.7, in order
    file,         \* technical_file_hash
    declaration,  \* conformity_declaration_hash and _missing
    archive,      \* technical files registered in statutory_exports
    signatures,   \* attestations
    lastFiler,    \* who added the latest row under technical_file:
    frozen        \* ghost: the text of the record when file was frozen

vars ==
    <<record, claim, filings, file, declaration, archive, signatures, lastFiler, frozen>>

Nobody == "nobody"
Routes == {"self_assessment", "notified_body"}
NoClaim == [route |-> "none", inFull |-> FALSE]
Claims == [route : Routes, inFull : BOOLEAN]

\* open: a mandatory section is incomplete; named: the submitter's name and
\* address are recorded.
Record ==
    [class : Classes, inScope : BOOLEAN, steward : BOOLEAN, text : Texts,
     open : BOOLEAN, named : BOOLEAN]

\* The payload of assemble_technical_file.
Digest ==
    [class : Classes, steward : BOOLEAN, text : Texts, open : BOOLEAN,
     claim : Claims \cup {NoClaim}, filed : 0..MaxFilings]
NoFile ==
    [class |-> "none", steward |-> FALSE, text |-> "none", open |-> TRUE,
     claim |-> NoClaim, filed |-> 0]

\* A filing is a declaration or a simplified one; its number stands for
\* drafted_at, so no two drafts are the same document.
Filing ==
    [kind : {"declaration", "simplified"}, file : Digest, claim : Claims,
     class : Classes, blank : BOOLEAN, by : Users, pointsAt : 0..MaxFilings]
NoDeclaration == [filing |-> 0, missing |-> FALSE]

Signature ==
    [subject : {"technical_file", "declaration"}, file : Digest \cup {NoFile},
     filing : 0..MaxFilings, by : Users, independent : BOOLEAN,
     saw : Texts \cup {"none"},   \* ghost: frozen, when it was signed
     class : Classes]             \* ghost: the class, when it was signed

TypeOK ==
    /\ record \in Record
    /\ claim \in Claims \cup {NoClaim}
    /\ Len(filings) <= MaxFilings
    /\ \A n \in DOMAIN filings : filings[n] \in Filing
    /\ file \in Digest \cup {NoFile}
    /\ declaration \in [filing : 0..MaxFilings, missing : BOOLEAN]
    /\ archive \subseteq Digest
    /\ signatures \subseteq Signature
    /\ lastFiler \in Users \cup {Nobody}
    /\ frozen \in Texts \cup {"none"}

\* A product in scope with a started record; what came before is AnnexI's.
Init ==
    /\ record \in [class : Classes, inScope : {TRUE}, steward : {FALSE}, text : Texts,
                   open : {TRUE}, named : BOOLEAN]
    /\ claim = NoClaim
    /\ filings = <<>>
    /\ file = NoFile
    /\ declaration = NoDeclaration
    /\ archive = {}
    /\ signatures = {}
    /\ lastFiler = Nobody
    /\ frozen = "none"

----------------------------------------------------------------------------
(* The record moves *)

Move(r, filer) ==
    /\ record' = r
    /\ lastFiler' = filer
    /\ UNCHANGED <<claim, filings, file, declaration, archive, signatures, frozen>>

\* update_requirement, confirm_risk_assessment, set_support_period,
\* place_on_market, ...: the text is another or a section opens or closes, and
\* no row is filed.
EditRecord(t, o) == Move([record EXCEPT !.text = t, !.open = o], lastFiler)

\* attach_evidence(subject_ref='technical_file:...'): the sections list it, so
\* what they say is another text.
AttachToSection(u, t, o) ==
    /\ t # record.text
    /\ Move([record EXCEPT !.text = t, !.open = o], u)

Reclassify(c, in) == Move([record EXCEPT !.class = c, !.inScope = in], lastFiler)
SetRole(s) == Move([record EXCEPT !.steward = s], lastFiler)
SetSubmitter(n) == Move([record EXCEPT !.named = n], lastFiler)

----------------------------------------------------------------------------
(* Assembling and freezing *)

DigestOfCounts ==  \* mutant: how many are settled, not what they say
    [NoFile EXCEPT !.class = record.class, !.steward = record.steward,
                   !.open = record.open, !.claim = claim, !.filed = Len(filings)]
Assembled ==
    [class |-> record.class, steward |-> record.steward, text |-> record.text,
     open |-> record.open, claim |-> claim, filed |-> Len(filings)]

Complete == ~record.open

FreezeTechnicalFile(u) ==
    /\ record.inScope
    /\ Complete
    /\ file' = Assembled
    /\ archive' = archive \cup {Assembled}
    /\ lastFiler' = u
    /\ frozen' = record.text
    /\ UNCHANGED <<record, claim, filings, declaration, signatures>>

----------------------------------------------------------------------------
(* Declaring *)

RouteAnyStandards(c, route, inFull) ==  \* mutant: standards in part will do
    c \in NeedsBody => route = "notified_body"
\* _check_route, for a class
RouteOpen(c, route, inFull) ==
    /\ c \in NeedsBody => route = "notified_body"
    /\ c \in NeedsStandards /\ route = "self_assessment" => inFull

Blank(standards) == ~standards \/ ~record.named

\* What sign_off looks at: the blanks of the draft it would bind to.
BlanksOfFirst(n, standards) ==  \* mutant: a redraft leaves the blanks recorded
    [filing |-> n, missing |-> IF declaration = NoDeclaration
                               THEN Blank(standards) ELSE declaration.missing]
Drafted(n, standards) == [filing |-> n, missing |-> Blank(standards)]

DocumentsFrom(kind, u, c, blank) ==
    [kind |-> kind, file |-> file, claim |-> c, class |-> record.class,
     blank |-> blank, by |-> u, pointsAt |-> declaration.filing]

DraftDeclaration(u, c, standards) ==
    /\ ~record.steward
    /\ record.inScope
    /\ file # NoFile
    /\ RouteOpen(record.class, c.route, c.inFull)
    /\ Len(filings) < MaxFilings
    /\ filings' = Append(filings, DocumentsFrom("declaration", u, c, Blank(standards)))
    /\ claim' = c
    /\ declaration' = Drafted(Len(filings) + 1, standards)
    /\ lastFiler' = u
    /\ UNCHANGED <<record, file, archive, signatures, frozen>>

\* generate_simplified_declaration looks neither at the scope nor at the file.
DraftSimplified(u) ==
    /\ ~record.steward
    /\ declaration # NoDeclaration
    /\ Len(filings) < MaxFilings
    /\ filings' = Append(filings, DocumentsFrom("simplified", u, claim, FALSE))
    /\ lastFiler' = u
    /\ UNCHANGED <<record, claim, file, declaration, archive, signatures, frozen>>

----------------------------------------------------------------------------
(* Signing *)

SameDocument(s, t) == s.subject = t.subject /\ s.file = t.file /\ s.filing = t.filing
AlreadySigned(s) == \E t \in signatures : SameDocument(s, t)

SignIncomplete(subject) ==  \* mutant: a declaration with a blank is signed
    IF subject = "technical_file" THEN file # NoFile ELSE declaration # NoDeclaration
MaySign(subject) ==
    IF subject = "technical_file"
    THEN file # NoFile
    ELSE declaration # NoDeclaration /\ ~declaration.missing

SignatureOf(subject, u, independent) ==
    LET tf == subject = "technical_file" IN
    [subject |-> subject,
     file |-> IF tf THEN file ELSE NoFile,
     filing |-> IF tf THEN 0 ELSE declaration.filing,
     by |-> u, independent |-> independent,
     saw |-> IF tf THEN frozen ELSE "none", class |-> record.class]

\* _last_editor looks at every row under technical_file:, whatever the subject.
SignOff(subject, u, independent) ==
    LET s == SignatureOf(subject, u, independent) IN
    /\ MaySign(subject)
    /\ Cardinality(signatures) < MaxSignatures
    /\ ~AlreadySigned(s)
    /\ independent => lastFiler # u
    /\ signatures' = signatures \cup {s}
    /\ UNCHANGED <<record, claim, filings, file, declaration, archive, lastFiler, frozen>>

Next ==
    \/ \E t \in Texts, o \in BOOLEAN : EditRecord(t, o)
    \/ \E u \in Users, t \in Texts, o \in BOOLEAN : AttachToSection(u, t, o)
    \/ \E c \in Classes, in \in BOOLEAN : Reclassify(c, in)
    \/ \E b \in BOOLEAN : SetRole(b)
    \/ \E b \in BOOLEAN : SetSubmitter(b)
    \/ \E u \in Users : FreezeTechnicalFile(u)
    \/ \E u \in Users, c \in Claims, standards \in BOOLEAN :
           DraftDeclaration(u, c, standards)
    \/ \E u \in Users : DraftSimplified(u)
    \/ \E subject \in {"technical_file", "declaration"}, u \in Users, i \in BOOLEAN :
           SignOff(subject, u, i)

Spec == Init /\ [][Next]_vars

----------------------------------------------------------------------------
(* What the status says of a signature *)

\* get_conformity_status measures a file signature against the file assembled
\* anew, and against the frozen one when assembly refuses.
CurrentFile == IF file # NoFile /\ record.inScope THEN Assembled ELSE file

ReadsCurrent(s) ==
    IF s.subject = "technical_file"
    THEN s.file = CurrentFile
    ELSE s.filing = declaration.filing

----------------------------------------------------------------------------
(* Properties *)

\* A signature on the technical file that the status reports as current, while
\* the product is in scope, covers what the record says now: the text is the
\* one that was frozen and no mandatory section has opened since.
CurrentMeansUnchanged ==
    \A s \in signatures :
        s.subject = "technical_file" /\ ReadsCurrent(s) /\ record.inScope =>
            record.text = s.saw /\ ~record.open

RoutePermitted(c, made) ==
    \/ made.route = "notified_body"
    \/ c \in NeedsStandards /\ made.inFull
    \/ c \notin NeedsStandards \cup NeedsBody

\* Whatever was edited, redrafted or re-frozen around it, a signed technical
\* file is archived and was complete; a signed declaration has no mandatory
\* field blank, asserts a route that was open to the class it was drafted for,
\* and rests on a complete, archived file.
SignedDocumentsStand ==
    \A s \in signatures :
        IF s.subject = "technical_file"
        THEN s.file \in archive /\ ~s.file.open
        ELSE LET d == filings[s.filing] IN
             /\ d.kind = "declaration" /\ ~d.blank
             /\ RoutePermitted(d.class, d.claim)
             /\ d.file \in archive /\ ~d.file.open

\* The declaration to be signed is the last one drafted, the blanks sign_off
\* looks at and the claim the technical file repeats are that draft's.
DeclarationIsLastDraft ==
    LET drafts == {n \in DOMAIN filings : filings[n].kind = "declaration"} IN
    IF drafts = {}
    THEN declaration = NoDeclaration /\ claim = NoClaim
    ELSE /\ declaration.filing \in drafts
         /\ \A n \in drafts : n <= declaration.filing
         /\ declaration.missing = filings[declaration.filing].blank
         /\ claim = filings[declaration.filing].claim

----------------------------------------------------------------------------
(* Statements of the code and its documentation that TLC refutes *)

\* A signature taken with require_independent is not that of whoever drew the
\* signed declaration up.
IndependentSigner ==
    \A s \in signatures :
        s.subject = "declaration" /\ s.independent => filings[s.filing].by # s.by

\* A declaration is signed only while its class opens the route it asserts.
SignedRouteWasOpen ==
    \A s \in signatures :
        s.subject = "declaration" => RoutePermitted(s.class, filings[s.filing].claim)

\* Signatures on the file and on the declaration that are both current speak of
\* one text.
CurrentSignaturesAgree ==
    \A s, t \in signatures :
        s.subject = "technical_file" /\ t.subject = "declaration"
        /\ ReadsCurrent(s) /\ ReadsCurrent(t)
            => s.file.text = filings[t.filing].file.text

\* CurrentMeansUnchanged whatever the scope.
CurrentMeansUnchangedAnyScope ==
    \A s \in signatures :
        s.subject = "technical_file" /\ ReadsCurrent(s) =>
            record.text = s.saw /\ ~record.open
=============================================================================
