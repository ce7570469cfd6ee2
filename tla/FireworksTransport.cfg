\* The default client has 5 retries and a base delay of 1; three attempts are
\* enough for a first, a middle and a last one, and the deadline can fall
\* into a post, into a sleep or after the last attempt.
CONSTANTS
    MaxRetries = 3
    Timeout = 6
    BaseDelay = 1
    MaxDelay = 3
    MaxPost = 3
SPECIFICATION Spec
INVARIANTS TypeOK RetriesOnlyTransient BoundedPosts ReportsLastReply GivesUpOnlyWhenExhausted
PROPERTIES CallReturns ImplementsModelCall
\* infer returns: a finished call has no further step.
CHECK_DEADLOCK FALSE
