---------------------------- MODULE MCTechnicalFile ----------------------------
(***************************************************************************)
(* Two texts, and the two classes that restrict the route.                 *)
(***************************************************************************)
EXTENDS TechnicalFile, TLC

CONSTANTS applied, partly

OneUser == {"ada"}
TwoUsers == {"ada", "ben"}
TwoTexts == {applied, partly}
RestrictedClasses == {"important_class_i", "important_class_ii"}
BodyClasses == {"important_class_ii"}
StandardsClasses == {"important_class_i"}

TextsAlike == Permutations(TwoTexts)

\* Two different frozen files; of the class, the scope, the role and the
\* submitter at most one is not as it is in the plain case.
TwoFreezes ==
    LET moved == <<record.class # "important_class_i", ~record.inScope,
                   record.steward, ~record.named>>
    IN  /\ Cardinality(archive) <= 2
        /\ Cardinality({k \in DOMAIN moved : moved[k]}) <= 1
=============================================================================
