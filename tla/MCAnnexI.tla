-------------------------------- MODULE MCAnnexI --------------------------------
(***************************************************************************)
(* A small instance of AnnexI: one requirement the annex qualifies, one    *)
(* it does not.                                                            *)
(***************************************************************************)
EXTENDS AnnexI

Catalogue == {"annex_i.i.2.a", "annex_i.ii.1"}
Unqualified == {"annex_i.ii.1"}
TwoClasses == {"default", "important_class_ii"}
OnlyManufacturer == {"manufacturer"}
AnyRole == {"manufacturer", "importer"}
OneVersion == {"1.0"}
TwoVersions == {"1.0", "2.0"}

\* One application of evidence to a requirement; the second version of the
\* assessment is explored in scope, before a placing and in one class, over the
\* evidence of before the first build.
OneQuestion ==
    /\ \A q \in Requirements : Cardinality(evidenced[q]) <= 1
    /\ assessment.version > 1 =>
          /\ scope = "in"
          /\ class = "default"
          /\ lifecycle = "in_development"
          /\ \A q \in Requirements : evidenced[q] \subseteq {Unversioned}
=============================================================================
