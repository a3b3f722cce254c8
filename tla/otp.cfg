SPECIFICATION Spec
CONSTANTS
    NULL = NULL
    Requests = {r1, r2, r3}
    Codes = {a, b}
    OtpRateLimit = 2
    OtpTtl = 1
    RateWindow = 2
INVARIANTS RateBounded RedeemedByOverlapOnly
PROPERTY RateLimitLifts
