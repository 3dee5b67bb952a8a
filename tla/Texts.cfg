SPECIFICATION Spec
CONSTANTS
    Rules <- MCRules
    Paths <- MCPaths
    Agents <- MCAgents
    Names <- MCNames
    RuleTexts <- MCRuleTexts
    MaxLines = 5
    MaxNodes = 5
    Links <- MCLinks
    Seeds <- MCSeeds
    Listed <- MCListed
    BadHosts <- MCBadHosts
    BadEnds <- MCBadEnds
    Junk <- MCJunk
    MaxLinks = 2
    Words <- MCWords
    MaxWords = 4
    Pages <- MCGraph
    MaxEdges = 5
INVARIANTS
    TypeOK
    RulesStayInside
    FastCasesAgree
    ParseIsExact
    GemsubIsExact
    TextIsExact
    RespellingSettles
    LinksKeepTheirAddress
    VerdictKnowsSpellings
    PathsAreBounded
    QuestionIsExact
    SidesAreApart
CHECK_DEADLOCK FALSE
