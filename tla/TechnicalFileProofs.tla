-------------------------- MODULE TechnicalFileProofs --------------------------
(***************************************************************************)
(* Theorems about TechnicalFile, for any users, texts and classes, and any *)
(* number of filings and signatures.                                       *)
(***************************************************************************)
EXTENDS TechnicalFile, SequenceTheorems, TLAPS

----------------------------------------------------------------------------
(* The inductive invariant *)

Typed == TypeOK /\ filings \in Seq(Filing)

\* What was ever frozen was complete, and is in the archive; the file in force
\* is of the text that the record had then.
FrozenIsArchived ==
    /\ \A digest \in archive : ~digest.open
    /\ file # NoFile => file \in archive /\ file.text = frozen

\* A declaration was drafted over an archived file, on a route that was open.
DraftsRest ==
    \A n \in DOMAIN filings :
        filings[n].kind = "declaration" =>
            /\ filings[n].file \in archive
            /\ RoutePermitted(filings[n].class, filings[n].claim)

\* There is no draft without a file.
DraftsFollowFile == declaration # NoDeclaration => file # NoFile

\* A signature is on a file that was archived, with the text it had, or on a
\* draft that is still there and had no blank.
SignaturesRest ==
    \A s \in signatures :
        IF s.subject = "technical_file"
        THEN s.file \in archive /\ s.file.text = s.saw
        ELSE /\ s.filing \in DOMAIN filings
             /\ filings[s.filing].kind = "declaration"
             /\ ~filings[s.filing].blank

IInv ==
    /\ Typed
    /\ FrozenIsArchived
    /\ DraftsRest
    /\ DraftsFollowFile
    /\ SignaturesRest
    /\ DeclarationIsLastDraft

----------------------------------------------------------------------------
(* Lemmas *)

\* What the initial record and every edit of it are.
LEMMA EditsAreRecords ==
    ASSUME Typed
    PROVE  /\ \A t \in Texts, o \in BOOLEAN : [record EXCEPT !.text = t, !.open = o] \in Record
           /\ \A c \in Classes, in \in BOOLEAN :
                 [record EXCEPT !.class = c, !.inScope = in] \in Record
           /\ \A b \in BOOLEAN : [record EXCEPT !.steward = b] \in Record
           /\ \A b \in BOOLEAN : [record EXCEPT !.named = b] \in Record
  <1>1. record \in Record
    BY DEF Typed, TypeOK
  <1> QED
    BY <1>1 DEF Record

\* The route that the check lets through is the one the class permits.
LEMMA OpenIsPermitted ==
    ASSUME NEW c \in Classes, NEW made \in Claims, RouteOpen(c, made.route, made.inFull)
    PROVE  RoutePermitted(c, made)
  <1>1. made.route \in Routes
    BY DEF Claims
  <1> QED
    BY <1>1 DEF RouteOpen, RoutePermitted, Routes

\* The file as assembled now, when nothing is open, is not the absence of one.
LEMMA AssembledIsDigest ==
    ASSUME Typed
    PROVE  /\ Assembled \in Digest /\ NoFile.open
           /\ Assembled.text = record.text /\ Assembled.open = record.open
  <1>1. /\ record \in Record /\ claim \in Claims \cup {NoClaim}
        /\ Len(filings) \in Nat /\ Len(filings) <= MaxFilings /\ MaxFilings \in Nat
    BY BoundsAssumption DEF Typed, TypeOK
  <1>2. /\ record.class \in Classes /\ record.steward \in BOOLEAN /\ record.text \in Texts
        /\ record.open \in BOOLEAN
    BY <1>1 DEF Record
  <1>3. Len(filings) \in 0..MaxFilings
    BY <1>1
  <1> QED
    BY <1>1, <1>2, <1>3 DEF Assembled, Digest, NoFile

\* Filing a document leaves the others as they are.
LEMMA FilingStep ==
    ASSUME Typed, NEW filing \in Filing, Len(filings) < MaxFilings,
           filings' = Append(filings, filing)
    PROVE  /\ filings' \in Seq(Filing) /\ Len(filings') <= MaxFilings
           /\ Len(filings) + 1 \in 1..MaxFilings
           /\ \A n \in DOMAIN filings' : filings'[n] \in Filing
           /\ DOMAIN filings' = DOMAIN filings \cup {Len(filings) + 1}
           /\ \A n \in DOMAIN filings : /\ n \in Nat /\ n < Len(filings) + 1
                                        /\ filings'[n] = filings[n]
           /\ filings'[Len(filings) + 1] = filing
  <1>1. /\ filings \in Seq(Filing) /\ Len(filings) \in Nat /\ MaxFilings \in Nat
        /\ DOMAIN filings = 1..Len(filings)
    BY BoundsAssumption, LenProperties DEF Typed
  <1>2. /\ filings' \in Seq(Filing) /\ Len(filings') = Len(filings) + 1
        /\ DOMAIN filings' = 1..(Len(filings) + 1)
        /\ \A n \in DOMAIN filings : filings'[n] = filings[n]
        /\ filings'[Len(filings) + 1] = filing
    BY <1>1, AppendProperties
  <1>3. \A n \in DOMAIN filings' : filings'[n] \in Filing
    BY <1>2, ElementOfSeq, LenProperties
  <1>4. \A n \in DOMAIN filings : n \in Nat /\ n < Len(filings) + 1
    BY <1>1
  <1>5. DOMAIN filings' = DOMAIN filings \cup {Len(filings) + 1}
    BY <1>1, <1>2
  <1> QED
    BY <1>1, <1>2, <1>3, <1>4, <1>5

----------------------------------------------------------------------------
(* Each action keeps the invariant. *)

LEMMA InitIInv == Init => IInv
  <1> SUFFICES ASSUME Init PROVE IInv
    OBVIOUS
  <1>1. record \in Record
    BY DEF Init, Record
  <1>2. /\ filings \in Seq(Filing) /\ Len(filings) = 0 /\ DOMAIN filings = {}
    BY DEF Init
  <1>3. Typed
    BY <1>1, <1>2, BoundsAssumption DEF Init, Typed, TypeOK, NoDeclaration
  <1> QED
    BY <1>2, <1>3 DEF Init, IInv, FrozenIsArchived, DraftsRest, DraftsFollowFile,
       SignaturesRest, DeclarationIsLastDraft

\* The tools that only move the record touch nothing that was made of it.
LEMMA MoveStep ==
    ASSUME IInv, NEW r \in Record, NEW filer \in Users \cup {Nobody}, Move(r, filer)
    PROVE  IInv'
  <1>1. /\ record' = r /\ lastFiler' = filer
        /\ claim' = claim /\ filings' = filings /\ file' = file
        /\ declaration' = declaration /\ archive' = archive /\ signatures' = signatures
        /\ frozen' = frozen
    BY DEF Move
  <1>2. Typed'
    BY <1>1 DEF IInv, Typed, TypeOK
  <1> QED
    BY <1>1, <1>2 DEF IInv, FrozenIsArchived, DraftsRest, DraftsFollowFile,
       SignaturesRest, DeclarationIsLastDraft

LEMMA FreezeStep ==
    ASSUME IInv, NEW u \in Users, FreezeTechnicalFile(u)
    PROVE  IInv'
  <1>1. /\ file' = Assembled /\ archive' = archive \cup {Assembled}
        /\ lastFiler' = u /\ frozen' = record.text /\ ~record.open
        /\ record' = record /\ claim' = claim /\ filings' = filings
        /\ declaration' = declaration /\ signatures' = signatures
    BY DEF FreezeTechnicalFile, Complete
  <1>2. /\ Assembled \in Digest /\ NoFile.open
        /\ Assembled.text = record.text /\ Assembled.open = record.open
    BY AssembledIsDigest DEF IInv
  <1>3. Assembled # NoFile
    BY <1>1, <1>2
  <1>4. Typed'
    <2>1. record.text \in Texts
      BY DEF IInv, Typed, TypeOK, Record
    <2> QED
      BY <1>1, <1>2, <2>1 DEF IInv, Typed, TypeOK
  <1>5. FrozenIsArchived'
    BY <1>1, <1>2 DEF IInv, FrozenIsArchived
  <1>6. DraftsRest' /\ SignaturesRest'
    BY <1>1 DEF IInv, DraftsRest, SignaturesRest
  <1>7. DraftsFollowFile' /\ DeclarationIsLastDraft'
    BY <1>1, <1>3 DEF IInv, DraftsFollowFile, DeclarationIsLastDraft
  <1> QED
    BY <1>4, <1>5, <1>6, <1>7 DEF IInv

LEMMA DraftDeclarationStep ==
    ASSUME IInv, NEW u \in Users, NEW c \in Claims, NEW standards \in BOOLEAN,
           DraftDeclaration(u, c, standards)
    PROVE  IInv'
  <1> DEFINE draft == DocumentsFrom("declaration", u, c, Blank(standards))
             last == Len(filings) + 1
  <1>1. /\ filings' = Append(filings, draft) /\ Len(filings) < MaxFilings
        /\ claim' = c /\ declaration' = [filing |-> last, missing |-> Blank(standards)]
        /\ lastFiler' = u /\ file # NoFile /\ RouteOpen(record.class, c.route, c.inFull)
        /\ record' = record /\ file' = file /\ archive' = archive
        /\ signatures' = signatures /\ frozen' = frozen
    BY DEF DraftDeclaration, Drafted
  <1>2. Typed /\ TypeOK /\ record \in Record /\ file \in Digest
    BY <1>1 DEF IInv, Typed, TypeOK
  <1>3. Blank(standards) \in BOOLEAN /\ record.class \in Classes
    BY <1>2 DEF Blank, Record
  <1>4. /\ draft \in Filing /\ draft.kind = "declaration" /\ draft.file = file
        /\ draft.claim = c /\ draft.class = record.class /\ draft.blank = Blank(standards)
    <2>1. declaration.filing \in 0..MaxFilings
      BY <1>2 DEF TypeOK
    <2> QED
      BY <1>2, <1>3, <2>1 DEF DocumentsFrom, Filing
  <1> HIDE DEF draft
  <1>5. /\ filings' \in Seq(Filing) /\ Len(filings') <= MaxFilings
        /\ last \in 1..MaxFilings
        /\ \A n \in DOMAIN filings' : filings'[n] \in Filing
        /\ DOMAIN filings' = DOMAIN filings \cup {last}
        /\ \A n \in DOMAIN filings : n \in Nat /\ n < last /\ filings'[n] = filings[n]
        /\ filings'[last] = draft
    BY <1>1, <1>2, <1>4, FilingStep
  <1> HIDE DEF last
  <1>6. Typed'
    <2>1. declaration' \in [filing : 0..MaxFilings, missing : BOOLEAN]
      BY <1>1, <1>3, <1>5
    <2> QED
      BY <1>1, <1>2, <1>5, <2>1 DEF Typed, TypeOK
  <1>7. FrozenIsArchived' /\ DraftsFollowFile'
    BY <1>1 DEF IInv, FrozenIsArchived, DraftsFollowFile
  <1>8. DraftsRest'
    <2>1. file \in archive
      BY <1>1 DEF IInv, FrozenIsArchived
    <2>2. RoutePermitted(record.class, c)
      BY <1>1, <1>3, OpenIsPermitted
    <2> QED
      BY <1>1, <1>4, <1>5, <2>1, <2>2 DEF IInv, DraftsRest, RoutePermitted
  <1>9. SignaturesRest'
    BY <1>1, <1>5 DEF IInv, SignaturesRest
  <1>10. DeclarationIsLastDraft'
    <2> DEFINE drafts == {n \in DOMAIN filings' : filings'[n].kind = "declaration"}
    <2>1. last \in drafts /\ \A n \in drafts : n <= last
      BY <1>4, <1>5
    <2>2. /\ declaration'.filing = last /\ declaration'.missing = filings'[last].blank
          /\ claim' = filings'[last].claim
      BY <1>1, <1>4, <1>5
    <2> QED
      BY <2>1, <2>2 DEF DeclarationIsLastDraft
  <1> QED
    BY <1>6, <1>7, <1>8, <1>9, <1>10 DEF IInv

LEMMA DraftSimplifiedStep ==
    ASSUME IInv, NEW u \in Users, DraftSimplified(u)
    PROVE  IInv'
  <1> DEFINE draft == DocumentsFrom("simplified", u, claim, FALSE)
             last == Len(filings) + 1
  <1>1. /\ filings' = Append(filings, draft) /\ Len(filings) < MaxFilings
        /\ declaration # NoDeclaration /\ lastFiler' = u
        /\ claim' = claim /\ declaration' = declaration
        /\ record' = record /\ file' = file /\ archive' = archive
        /\ signatures' = signatures /\ frozen' = frozen
    BY DEF DraftSimplified
  <1>2. Typed /\ TypeOK /\ record \in Record /\ file \in Digest
    BY <1>1 DEF IInv, Typed, TypeOK, DraftsFollowFile
  <1>3. {n \in DOMAIN filings : filings[n].kind = "declaration"} # {}
    BY <1>1 DEF IInv, DeclarationIsLastDraft
  <1>4. /\ declaration.filing \in DOMAIN filings
        /\ claim = filings[declaration.filing].claim
    BY <1>3 DEF IInv, DeclarationIsLastDraft
  <1>5. claim \in Claims
    <2>1. filings[declaration.filing] \in Filing
      BY <1>2, <1>4 DEF TypeOK
    <2> QED
      BY <1>4, <2>1 DEF Filing
  <1>6. draft \in Filing /\ draft.kind = "simplified"
    <2>1. declaration.filing \in 0..MaxFilings /\ record.class \in Classes
      BY <1>2 DEF TypeOK, Record
    <2> QED
      BY <1>2, <1>5, <2>1 DEF DocumentsFrom, Filing
  <1> HIDE DEF draft
  <1>7. /\ filings' \in Seq(Filing) /\ Len(filings') <= MaxFilings
        /\ \A n \in DOMAIN filings' : filings'[n] \in Filing
        /\ DOMAIN filings' = DOMAIN filings \cup {last}
        /\ \A n \in DOMAIN filings : n \in Nat /\ n < last /\ filings'[n] = filings[n]
        /\ filings'[last] = draft
    BY <1>1, <1>2, <1>6, FilingStep
  <1> HIDE DEF last
  <1>8. Typed'
    BY <1>1, <1>2, <1>7 DEF Typed, TypeOK
  <1>9. FrozenIsArchived' /\ DraftsFollowFile'
    BY <1>1 DEF IInv, FrozenIsArchived, DraftsFollowFile
  <1>10. DraftsRest'
    BY <1>1, <1>6, <1>7 DEF IInv, DraftsRest, RoutePermitted
  <1>11. SignaturesRest'
    BY <1>1, <1>7 DEF IInv, SignaturesRest
  <1>12. DeclarationIsLastDraft'
    <2>1. {n \in DOMAIN filings' : filings'[n].kind = "declaration"}
            = {n \in DOMAIN filings : filings[n].kind = "declaration"}
      BY <1>6, <1>7
    <2> QED
      BY <1>1, <1>3, <1>7, <2>1 DEF IInv, DeclarationIsLastDraft
  <1> QED
    BY <1>8, <1>9, <1>10, <1>11, <1>12 DEF IInv

LEMMA SignOffStep ==
    ASSUME IInv, NEW subject \in {"technical_file", "declaration"}, NEW u \in Users,
           NEW independent \in BOOLEAN, SignOff(subject, u, independent)
    PROVE  IInv'
  <1> DEFINE s == SignatureOf(subject, u, independent)
  <1>1. /\ MaySign(subject) /\ signatures' = signatures \cup {s}
        /\ record' = record /\ claim' = claim /\ filings' = filings /\ file' = file
        /\ declaration' = declaration /\ archive' = archive /\ lastFiler' = lastFiler
        /\ frozen' = frozen
    BY DEF SignOff
  <1>2. TypeOK
    BY DEF IInv, Typed
  <1>3. s \in Signature
    <2>1. /\ record.class \in Classes /\ frozen \in Texts \cup {"none"}
          /\ file \in Digest \cup {NoFile} /\ declaration.filing \in 0..MaxFilings
          /\ 0 \in 0..MaxFilings
      BY <1>2, BoundsAssumption DEF TypeOK, Record
    <2> QED
      BY <2>1 DEF SignatureOf, Signature
  <1>4. CASE subject = "technical_file"
    <2>1. /\ s.subject = "technical_file" /\ s.file = file /\ s.saw = frozen
          /\ file # NoFile
      BY <1>1, <1>4 DEF SignatureOf, MaySign
    <2>2. s.file \in archive /\ s.file.text = s.saw
      BY <2>1 DEF IInv, FrozenIsArchived
    <2> HIDE DEF s
    <2> QED
      BY <1>1, <1>2, <1>3, <2>1, <2>2 DEF IInv, Typed, TypeOK, FrozenIsArchived, DraftsRest,
         DraftsFollowFile, SignaturesRest, DeclarationIsLastDraft
  <1>5. CASE subject = "declaration"
    <2>1. /\ s.subject = "declaration" /\ s.filing = declaration.filing
          /\ declaration # NoDeclaration /\ ~declaration.missing
      BY <1>1, <1>5 DEF SignatureOf, MaySign
    <2>2. /\ s.filing \in DOMAIN filings /\ filings[s.filing].kind = "declaration"
          /\ ~filings[s.filing].blank
      BY <2>1 DEF IInv, DeclarationIsLastDraft
    <2> HIDE DEF s
    <2> QED
      BY <1>1, <1>2, <1>3, <2>1, <2>2 DEF IInv, Typed, TypeOK, FrozenIsArchived, DraftsRest,
         DraftsFollowFile, SignaturesRest, DeclarationIsLastDraft
  <1> QED
    BY <1>4, <1>5

LEMMA NextStep == IInv /\ [Next]_vars => IInv'
  <1> SUFFICES ASSUME IInv, [Next]_vars PROVE IInv'
    OBVIOUS
  <1>1. Typed /\ lastFiler \in Users \cup {Nobody}
    BY DEF IInv, Typed, TypeOK
  <1>2. CASE \/ \E t \in Texts, o \in BOOLEAN : EditRecord(t, o)
             \/ \E u \in Users, t \in Texts, o \in BOOLEAN : AttachToSection(u, t, o)
             \/ \E c \in Classes, in \in BOOLEAN : Reclassify(c, in)
             \/ \E b \in BOOLEAN : SetRole(b)
             \/ \E b \in BOOLEAN : SetSubmitter(b)
    BY <1>1, <1>2, EditsAreRecords, MoveStep
       DEF EditRecord, AttachToSection, Reclassify, SetRole, SetSubmitter
  <1>3. CASE \E u \in Users : FreezeTechnicalFile(u)
    BY <1>3, FreezeStep
  <1>4. CASE \E u \in Users, c \in Claims, standards \in BOOLEAN :
                DraftDeclaration(u, c, standards)
    BY <1>4, DraftDeclarationStep
  <1>5. CASE \E u \in Users : DraftSimplified(u)
    BY <1>5, DraftSimplifiedStep
  <1>6. CASE \E subject \in {"technical_file", "declaration"}, u \in Users, i \in BOOLEAN :
                SignOff(subject, u, i)
    BY <1>6, SignOffStep
  <1>7. CASE UNCHANGED vars
    <2>1. Move(record, lastFiler) /\ record \in Record
      BY <1>1, <1>7 DEF vars, Move, Typed, TypeOK
    <2> QED
      BY <1>1, <2>1, MoveStep
  <1> QED
    BY <1>2, <1>3, <1>4, <1>5, <1>6, <1>7 DEF Next

----------------------------------------------------------------------------
(* What follows *)

\* The inductive invariant holds of every behaviour.
THEOREM Invariant == Spec => []IInv
  <1> QED
    BY InitIInv, NextStep, PTL DEF Spec

\* Every variable keeps its type.
THEOREM TypesHold == Spec => []TypeOK
  <1>1. IInv => TypeOK
    BY DEF IInv, Typed
  <1> QED
    BY <1>1, Invariant, PTL

\* The status calls a signature current only when the record reads as what was
\* signed: assembly repeats the text and what is open, and what is signed had
\* nothing open, so the absence of a file is never mistaken for one.
THEOREM CurrentIsUnchanged == Spec => []CurrentMeansUnchanged
  <1>1. ASSUME IInv, NEW s \in signatures,
               s.subject = "technical_file", ReadsCurrent(s), record.inScope
        PROVE  record.text = s.saw /\ ~record.open
    <2>1. s.file = CurrentFile
      BY <1>1 DEF ReadsCurrent
    <2>2. s.file.text = s.saw /\ ~s.file.open
      BY <1>1 DEF IInv, SignaturesRest, FrozenIsArchived
    <2>3. /\ NoFile.open /\ Assembled.text = record.text /\ Assembled.open = record.open
      BY <1>1, AssembledIsDigest DEF IInv
    <2> QED
      BY <1>1, <2>1, <2>2, <2>3 DEF CurrentFile
  <1>2. IInv => CurrentMeansUnchanged
    BY <1>1 DEF CurrentMeansUnchanged
  <1> QED
    BY <1>2, Invariant, PTL

\* What was signed stands whatever is edited, redrafted or frozen around it:
\* filings and the archive only grow.
THEOREM SignedStand == Spec => []SignedDocumentsStand
  <1>1. IInv => SignedDocumentsStand
    BY DEF IInv, SignaturesRest, DraftsRest, FrozenIsArchived, SignedDocumentsStand
  <1> QED
    BY <1>1, Invariant, PTL

\* The declaration in force is the last one drafted, with its blanks and claim.
THEOREM LastDraftInForce == Spec => []DeclarationIsLastDraft
  <1>1. IInv => DeclarationIsLastDraft
    BY DEF IInv
  <1> QED
    BY <1>1, Invariant, PTL

==============================================================================
