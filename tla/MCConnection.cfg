SPECIFICATION Spec
CONSTANTS
    Forms <- MCForms
    MaxHeaders = 4
    MaxBody = 2
    MaxMessages = 3
    MaxAhead = 2
    MaxConnections = 2
    Base = 16
    PT_AUDIO = 6
    PT_RESEND = 5
    PT_SYNC = 4
    PT_REPLY = 3
    PT_REQUEST = 2
    None = None
INVARIANTS
    WholeMessages
    AnswersMatch
    DeniedUntilProven
PROPERTIES
    Answered
CHECK_DEADLOCK FALSE
