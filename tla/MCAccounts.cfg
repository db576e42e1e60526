CONSTANTS
    Ids = {i1, i2, i3, i4}
    NoId = NoId
    Emails = {e1, e2, e3}
    NoEmail = NoEmail
    Founders = {i1, i2}
    Requests = {r1, r2, r3}
    DirectoryRoles = {"admin", "viewer"}

SPECIFICATION Spec

SYMMETRY Symmetry

INVARIANTS
    CredentialsStayApart
    SessionsProveCurrentPassword
    SetupOnce

PROPERTIES
    AdminsVanishOnlyByDirectory
