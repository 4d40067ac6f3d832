CONSTANTS
    Calls = {call1, call2}
    IDENTITY_LABELS <- MCLabels
    Series <- MCSeries
    Requests <- MCRequests
    NoLabel = NoLabel
SPECIFICATION Spec
PROPERTY SubstringFinds
