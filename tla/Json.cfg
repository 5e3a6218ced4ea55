SPECIFICATION SpecAll
CONSTANTS
    Strings = {"x", "y"}
    Naturals_ = {"1"}
    OtherNumbers = {"-1"}
    Walks <- MCWalks
    TypeEnds <- MCTypeEnds
    MaxTokens = 9
    Chars <- MCChars
    Words <- MCWords
    Alphabets <- MCAlphabets
    Names = {"nul"}
    Directives = {"str", "own", "opt", "json"}
    CharsOf <- MCCharsOf
    ArgsOf <- MCArgsOf
    MaxItems = 8
    MemberNames <- MCNames
    Values <- MCValues
    Null <- MCNull
    Missing <- MCMissing
    MaxWritten = 10
INVARIANTS
    ValidIsGrammar
    FollowsStructure
    TokensAgree
    BuildsWhatItShows
PROPERTIES
    WritesAsPromised
CHECK_DEADLOCK FALSE
