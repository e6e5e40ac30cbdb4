SPECIFICATION Spec
CONSTANTS
    r1 = r1
    r2 = r2
    Requests = {r1, r2}
    MaxRequests = 6
    MaxCodes = 2
    MAX_FAILED_LOGIN_ATTEMPTS = 2
    MAX_OTP_ATTEMPTS = 2
    MAX_RESET_OTP_ATTEMPTS = 2
SYMMETRY MCSymmetry
INVARIANTS
    AccountOfTheVerifiedSubmission
    LockedOnlyAfterFailures
    TemporaryPasswordIsGated
CHECK_DEADLOCK FALSE
