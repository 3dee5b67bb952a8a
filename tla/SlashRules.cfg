SPECIFICATION Spec
CONSTANTS
    Rules <- MCRules
    Paths <- MCPaths
    Agents <- MCAgents
    Names <- MCNames
    RuleTexts <- MCRuleTexts
    MaxLines = 5
    MaxNodes = 5
    Links <- MCLinks
    Seeds <- MCSeeds
    Listed <- MCListed
    BadHosts <- MCBadHosts
    BadEnds <- MCBadEnds
    Junk <- MCJunk
    MaxLinks = 2
    Words <- MCWords
    MaxWords = 4
    Pages <- MCGraph
    MaxEdges = 5
INVARIANT SubtreeIsBlocked
CHECK_DEADLOCK FALSE
