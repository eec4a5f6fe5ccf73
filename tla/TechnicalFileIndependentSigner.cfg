SPECIFICATION Spec
CONSTANTS
    applied = applied
    partly = partly
    Users <- TwoUsers
    Texts <- TwoTexts
    Classes <- RestrictedClasses
    NeedsBody <- BodyClasses
    NeedsStandards <- StandardsClasses
    MaxFilings = 2
    MaxSignatures = 1
SYMMETRY TextsAlike
CONSTRAINT TwoFreezes
CHECK_DEADLOCK FALSE
INVARIANT IndependentSigner
