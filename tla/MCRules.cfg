SPECIFICATION Spec
CONSTANTS
    MAX_STRUCT_TREE_DEPTH = 3
    SCORE_DEPTH = 2
    HEADING_PAGES = 1
    BOOKMARK_PAGES = 0
    MIN_USED_CODES = 2
    MaxCharacter = 100
    PHRASE_LENGTH = 2
    None = None
    EMPTY_PAGE_WORDS = 1
    MaxRounds = 2
    MaxStepFailures = 1
    NumberWords = {"1", "1."}
    Stripped <- MCStripped
    Documents <- MCDocuments
    Words <- MCWords
    MaxWords = 3
    Reports <- MCReports
    StagePdfs <- MCStagePdfs
    Baselines <- MCBaselines
    Extractions <- MCExtractions
    FailedRules <- MCFailedRules
    KeyOf <- MCKeyOf
    CloudflareAddresses = {"edge"}
    Origins = {"caller4", "mapped4", "caller6", "other6"}
    Forged <- MCForged
    ForgedCf = {"victim", "junk", ""}
    Edge = "edge"
    FrontEnd = "front"
INVARIANTS
    TreeStaysSound
    DescribedFromOwnImage
    WalksAgree
    FontsAreRepaired
    TextMeasuresAgree
    CompareMirrors
    MissedStepNeverPasses
    NoSilentChange
    OnlyReviewedRulesClassified
    CallerCannotChooseKey
PROPERTIES
    NoStepMakesItWorse
CHECK_DEADLOCK FALSE
