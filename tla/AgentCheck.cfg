SPECIFICATION CheckSpec
CONSTANTS
    Gateways = 2
    MaxRedirects = 3
    Codes = {200, 301, 402, 404, 429}
    Documents <- MCDocuments
    Actual <- MCActual
CHECK_DEADLOCK FALSE
INVARIANTS  JudgedOnTheDocument SpotAgreesWithCensus
 
