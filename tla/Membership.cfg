SPECIFICATION Spec
CONSTANTS
    Products = {p1, p2}
    Users = {u1, u2}
    Roles = {"owner", "editor"}
    MaxVersion = 3
    MaxWrites = 3
CONSTRAINT FewWrites
SYMMETRY Alike
INVARIANTS OwnerRemains InvitedOnce
PROPERTIES ImplementsRegister
CHECK_DEADLOCK FALSE
