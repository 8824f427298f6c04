SPECIFICATION Spec
CONSTANTS
    p1 = p1
    p2 = p2
    p3 = p3
    adm = adm
    new = new
    o0 = o0
    o1 = o1
    o2 = o2
    s1 = s1
    s2 = s2
    k1 = k1
    Users = {p1, p2, p3, adm, new}
    Orgs = {o0, o1, o2}
    Sessions = {s1, s2, s3}
    Keys = {k1, k2}
    Tokens = {t1}
    Invitations = {i1}
    MfaEnforced = FALSE
    Holders <- MCHolders
    MaxRequests = 3
SYMMETRY Either
CHECK_DEADLOCK FALSE
INVARIANTS
    SessionsAreCurrent
    AdministratorsRemain
    PendingInvitationsHold
