SPECIFICATION Spec
CHECK_DEADLOCK FALSE
CONSTANTS
    Attachments = {a1}
    Workers = {w1, w2}
    Rows = {r1, r2, r3}
    Nobody = Nobody
    NoAttachment = NoAttachment
    NoRow = NoRow
    MaxRetries = 1
    MaxFaults = 2
INVARIANT OneFilePerAttachment
INVARIANT UnsettledHasJob
PROPERTY AttentionHasCause
PROPERTY ImplementsArchivedMedia
PROPERTY RecoverableCompletes
