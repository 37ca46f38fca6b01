CONSTANTS
    Schema <- MCSchema
    MessageTypes <- MCMessageTypes
    Values <- MCValues
    UuidText <- MCUuidText
    Junk = {0, 1}
    MaxItems = 1
    None = None
    NaN = 99
SPECIFICATION Spec
CHECK_DEADLOCK FALSE
INVARIANT TypeOK
INVARIANT CdrFaithful
INVARIANT CdrKeepsOnlyTheAbsent
INVARIANT CutRefused
INVARIANT JsonReplaces
INVARIANT AcceptedAsWritten
INVARIANT CopyShowsTheSame
