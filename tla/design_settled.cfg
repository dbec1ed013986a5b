SPECIFICATION Spec
CONSTANTS
    Lead = s1
    Sessions = {s1, s2}
    Drivers = {s1, s2}
    Opus = opus
    Sonnet = sonnet
    Glm = glm
    Callers = {opus, sonnet, glm}
    FamilyOf <- Family
    Preference <- Order
    PromptsOf <- PromptsOfSession
    KindsOf <- KindsOfSession
    Surfaces <- NoneOrTwo
    Sites = {x, y}
    Asks = {a, b}
    Rules = {r, q}
    User = cli
    Titles = {t}
    Topics = {u, v}
    TitleLimit = 1
    CacheMax = 1
    MaxGoals = 1
    MaxAudits = 2
    MaxLessons = 2
    MinSites = 2
    MinQuorum = 1
    MaxRounds = 3
    StallRepeat = 2
    TurnRetries = 1
    MaxJobs = 2
    MaxSpoils = 2
INVARIANTS
  SettledAuditedClean
