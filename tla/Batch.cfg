\* Two threads, two models: every route, one escalation, one verifier call.
CONSTANTS
    NumTasks = 2
    Workers = 2
    m1 = m1
    m2 = m2
    unlisted = unlisted
    NoModel = NoModel
    ModelOrder <- TwoModels
    SolverEnvs = {NoModel, unlisted}
    VerifierEnv = NoModel
    Prompts <- SomePrompts
    Categories = {"code", "facts"}
    HighRisk = {"code"}
    Timeout = 2
    CallLimit = 2
    MaxPost = 1
SPECIFICATION Spec
INVARIANTS
    TypeOK
    AllOrNothing
    AnswersAreAccepted
    RetryEscalates
    VerifierOnceAndLast
    AttemptsAccounted
    RegistryMatchesReplies
    OverrunBounded
PROPERTY RunEnds
\* A finished run has no further step.
CHECK_DEADLOCK FALSE
