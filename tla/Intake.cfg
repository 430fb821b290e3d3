SPECIFICATION Spec
CONSTANTS
    c1 = c1
    c2 = c2
    c3 = c3
    c4 = c4
    m1 = m1
    k1 = k1
    p1 = p1
    p2 = p2
    Calls <- ThreeCalls
    Messages <- OneMessage
    Keys <- OneKey
    Payloads <- TwoPayloads
    NoPayload = NoPayload
    NoKey = NoKey
    MaxVersion = 3
SYMMETRY Symmetry3
CHECK_DEADLOCK FALSE
INVARIANT TypeOK
INVARIANT OnePayloadPerMessage
INVARIANT OneTicketPerVersion
INVARIANT KeyedOnce
INVARIANT InFlightIsOwned
PROPERTY NamedRequestStays
