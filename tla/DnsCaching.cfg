SPECIFICATION Spec
CONSTANTS
    MaxSize = 3
    MinCacheTtl = 0
    MaxCacheTtl = 2
    Queries <- MCQueries
    Replies <- MCAllReplies
    Zone = "z"
    Arpa <- MCArpa
    Cnames <- MCCnames
    Private = {"private"}
    Bogus = {"bogus"}
    ReplyMaxTtl = 0
    NegTtl = 0
    NegCache = TRUE
    LocalTtl = 1
    CNAME_CHAIN_LIMIT = 10
    MaxHops = 16
    Files <- MCFiles
    Texts <- MCTexts
    MaxReloads = 1
INVARIANTS AnswersBacked ChainsBottomOut
PROPERTIES CommitsClean
