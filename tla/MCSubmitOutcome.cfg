SPECIFICATION SubmitSpec
CONSTANTS
    Outcomes <- MCOutcomes
    Members <- MCMembers
    Handshakes <- MCHandshakes
    Submissions <- MCSubmissions
    MaxAttempts = 4
    StraySubmits = FALSE
INVARIANTS
    SubmitTypeOK
    RecordedFitsStep
    KindExplainsRefusal
    StepCanBeFinalized
PROPERTIES
    FirstFinalizeStands
\* A handler that dies holding s.mu stops the session: see AlwaysAnswers.
CHECK_DEADLOCK FALSE
