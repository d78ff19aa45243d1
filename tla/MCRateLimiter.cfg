CONSTANTS
    Handlers = {h1, h2}
    Tiers <- BothTiers
    MaxReqs <- MCMaxReqs
    Window <- MCWindow
    MaxFails <- MCMaxFails
    BanDur <- MCBanDur
SPECIFICATION Spec
INVARIANTS
    AtMostTwiceTheLimit
PROPERTIES
    AlwaysServedAgain
