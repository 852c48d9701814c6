SPECIFICATION Spec
CONSTANTS
    Services <- MCServices
    ScalarValues = {0, 1}
INVARIANTS
    DeliveredIntact
    StreamInSync
    ForeignReplyHarmless
