SPECIFICATION Spec
CONSTANTS
    Users = {alice, bob}
    Organizations = {acme}
    Handlers = {h1, h2}
SYMMETRY HandlerSymmetry
INVARIANTS
    TypeOK
    NoMembersOfSelfOrganizations
PROPERTIES
    StuckForGood
    OnlyInvitationsAdd
    HalfDeletedForGood
CHECK_DEADLOCK FALSE
