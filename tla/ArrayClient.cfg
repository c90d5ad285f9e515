SPECIFICATION FairSpec
CONSTANTS
    get = get
    post = post
    Calls = {get, post}
    Posts = {post}
    MaxAttempts = 2
    MaxLogins = 3
CHECK_DEADLOCK FALSE
INVARIANTS
    TypeOK
    RequestsBounded
    UnauthorizedHasCause
PROPERTIES
    KeepsContract
    CallsEnd
