CONSTANTS
    Headers <- MCHeaders
    ResponseHeaders <- MCResponseHeaders
    Connections <- MCConnections
    MimeTypes = {"html"}
    Arguments <- MCArguments
    Queries <- MCQueries
    Bodies <- MCBodies
    Processors = {"MULTIPART", "JSON", "XML", "UNKNOWN"}
    MaxCalls = 3
    MaxTransactions = 2
SPECIFICATION Spec
INVARIANTS  UploadsListed
CHECK_DEADLOCK FALSE
