SPECIFICATION FairSpec
CONSTANTS
    NoVerdict = NoVerdict
    Verdicts <- RuleVerdicts
    Statuses = {103, 201, 404}
    AccessChoices = {TRUE, FALSE}
    MimeChoices = {TRUE, FALSE}
    Writers = {{}, {"Flusher", "ReaderFrom", "Hijacker"}}
    MaxWrites = 3
CHECK_DEADLOCK FALSE
INVARIANTS
    RefusedRequestUnserved
    InspectedBeforeSent
    FaithfulResponse
PROPERTY TransactionClosed
