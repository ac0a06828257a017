SPECIFICATION RtcSpec
CONSTANTS
    LastYear = 2069
    ReadOn <- MCReadOn
INVARIANTS UnixDaysExact SmallFieldsExact
