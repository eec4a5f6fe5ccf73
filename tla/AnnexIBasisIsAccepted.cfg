SPECIFICATION Spec
CONSTANTS
    Requirements <- Catalogue
    Unconditional <- Unqualified
    PartII <- Unqualified
    ExploitableReq = "annex_i.i.2.a"
    SbomReq = "annex_i.ii.1"
    Classes <- TwoClasses
    Roles <- OnlyManufacturer
    Manufacturer = "manufacturer"
    Versions <- OneVersion
    Unversioned = "unversioned"
    MaxRisks = 1
    MaxVersion = 2
CHECK_DEADLOCK FALSE
INVARIANT BasisIsAccepted
