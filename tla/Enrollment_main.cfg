\* One trust anchor and two root keys; one issuing CA, two orgs, one member; an
\* enrollment for the peer or for another; clock 0 to 2, expiries 0 and 1.
CONSTANTS
    NONE = NONE
    RootIds = {i1}
    RootKeys = {r1, r2}
    IssuingKeys = {k1}
    OrgKeys = {o1, o2}
    MemberKeys = {m1}
    Self = p1
    PeerKeys = {p1, p2}
    Namespaces <- MCNamespaces
    Projects <- MCProjects
    Exps = {0, 1}
    Start = 0
    Horizon = 2
    Leaves = {l1, l2}
    Pinned = l1

SPECIFICATION Spec

INVARIANTS TypeOK OpenIsAdmitted ProjectInNamespace
PROPERTIES AdmittedForCause RefusedForCause ExpiredStaysOut
