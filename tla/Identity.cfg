CONSTANTS
    UserIds = {1, 2, 3}
    Emails = {"a", "b"}
    Phones = {1, 2}
    Passwords = {"old", "new"}
    Pins = {"1", "2"}
    Workers = {1, 2}
    Workloads <- EveryWorkload
    MaxFaults = 1
    TokenIds = {1, 2, 3}
    MaxSecrets = 2
    MaxCodes = 2
    SubmissionIds = {1, 2}
SPECIFICATION Spec
INVARIANTS
    UsersAreSound
    AnswersJustified
    SessionsRotate
    EnabledIsConfirmed
    CodesAreGoodOnce
    ReviewsAgree
CHECK_DEADLOCK FALSE
