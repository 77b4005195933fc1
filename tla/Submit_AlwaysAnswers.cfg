SPECIFICATION SubmitSpec
CONSTANTS
    Outcomes <- MCOutcomes
    Members <- MCMembers
    Handshakes <- MCHandshakes
    Submissions <- MCSubmissions
    MaxAttempts = 4
    StraySubmits = FALSE
INVARIANT
    AlwaysAnswers
