SPECIFICATION FairGateSpec
CONSTANTS
    NoTicket = NoTicket
    Requests = {a, b, c, s, t}
    Savers = {s, t}
INVARIANTS Exclusion
PROPERTIES Fence SaveServed
