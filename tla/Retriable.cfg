\* A request, with or without a payload, to two hosts.
CONSTANTS
    Hosts = 2
    Answers <- AllAnswers
    Retries <- ScaledPolicy
    TotalRetryLimit = 2
SPECIFICATION Spec
INVARIANTS FullPayloadSent OutcomeOfAllHosts RetriesEnd
CHECK_DEADLOCK FALSE
