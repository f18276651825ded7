SPECIFICATION Spec
CONSTANTS
    a = a
    b = b
    k1 = k1
    k2 = k2
    Client = {a}
    Other = {b}
    OtherInfo <- MCOtherInfo
    Named = {a}
    MaxNonces <- MCMaxNonces
    MaxResolves <- MCMaxResolves
    MaxCalls <- MCMaxCalls
    Schemes <- MCSchemes
    Unset = {a}
    Requests <- MCRequests
    Texts <- MCTexts
    Keyword = {k1, k2}
    Info <- MCInfo
    Tries = 2
    MaxResults = 1
    MaxNet = 2
    MaxFaults = 1
    NoRec = NoRec
INVARIANTS
    TablesAgree
    EndpointProved
    SearchExact
PROPERTIES
    RequestsEnd
CHECK_DEADLOCK FALSE
