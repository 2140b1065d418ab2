CONSTANTS
    Threads <- MCThreads
    Inputs <- MCInputs
    Keys <- MCKeys
    cache_key <- MCcache_key
    Rejected = {"bad"}
    Endless = {"slow"}
    MAX_CACHE_SIZE = 2
    Requests = 3
SPECIFICATION CacheSpec
INVARIANTS AnswerIsOwn Bounded
PROPERTY Answered
