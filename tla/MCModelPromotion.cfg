SPECIFICATION Spec
CONSTANTS
    n1 = n1
    n2 = n2
    q1 = q1
    q2 = q2
    g1 = g1
    g2 = g2
    Vendor = Vendor
    None = None
    NotReady = NotReady
    Run <- MCRun
    Request <- MCRequest
    Digest <- MCDigest
    MaxCrashes = 1
    MaxFaults = 1
    MaxRebuilds = 2
SYMMETRY Symmetry
CHECK_DEADLOCK FALSE
INVARIANTS OneActiveRow CandidatePure PublishedIsWhole
PROPERTIES PromotionIsCurrent
