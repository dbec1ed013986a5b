SPECIFICATION WorkSpec
CONSTANTS
    Sessions = {s1, s2}
    Ambient = saddle
    Siblings = {game}
    Fix = fix
    Rule = rule
    Remark = remark
    Asks = {fix, rule, remark}
    KindOf <- KindOfAsk
    Dispositions = {"done", "reopen"}
    MaxPrompts = 3
    MaxIntakes = 2
    MaxReply = 1
    MaxAudits = 1
    Limit = 3
    CandidateCap = 2
    MaxSpoils = 1
    Root = root
    Clone = clone
    Nested = nested
    Tmp = tmp
    Scratch = tmp
    Dirs = {root, clone, nested, tmp}
    Below <- Nesting
    Clones = {clone, nested}
    SlugOf <- SlugOfDir
    Offers <- SomeOffers
    Clerks = {c1, c2}
    MaxParts = 2
INVARIANT WorkspaceInOrder
PROPERTY UserMovesTodos
SYMMETRY WorkSymmetry
