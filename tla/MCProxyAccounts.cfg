SPECIFICATION Spec
CONSTANTS
    Settings <- MCSettings
    Required <- MCRequired
    Values <- MCValues
    Default <- MCDefault
    Regions <- MCRegions
    Uris <- MCUris
    None = None
    Unreadable = Unreadable
    Users = {alice, bob}
    Usernames = {"x", "ann"}
    ValidUsernames = {"ann"}
    Passwords = {"short", "password", "drowssap"}
    ValidPasswords = {"password", "drowssap"}
    Emails = {"x", "a@b", "b@b"}
    ValidEmails = {"a@b", "b@b"}
    Keys <- MCKeys
    Launches <- MCLaunches
    Handlers = {h1, h2}
SYMMETRY HandlerSymmetry
INVARIANTS
    TypeOK
    OwnersCanLogIn
    OkIsDoneOrGone
PROPERTIES
    OnlyHeldPasswordsCount
    DeletedIsFinal
    ServesStrongest
CHECK_DEADLOCK FALSE
