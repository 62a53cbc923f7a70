SPECIFICATION Spec
CONSTANTS
    CRs <- AllCRs
    UserSecrets = {"gkey", "gh", "gl", "mail"}
    AppKeys = {"gh"}
    Missing = {"gl"}
    Editable = {"gh", "zuul-keystore-password"}
    MaxRuns = 3
    MaxFaults = 1
INVARIANT TypeOK
PROPERTIES SuccessIsServed FilesMounted SectionsKept OnlyForItsOwn RemoteAgrees CommandEnds
CHECK_DEADLOCK FALSE
