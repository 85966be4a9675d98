CONSTANTS
    ipA = ipA
    ipB = ipB
    macA = macA
    macB = macB
    macAUpper = macAUpper
    link = link
    linkUpper = linkUpper
    macR = macR
    Texts <- MCTexts
    Lower <- MCLower
    Sources <- MCSources
    Typed <- MCTyped
    MaxTyped = 2
SPECIFICATION Spec
INVARIANTS TypeOK WhitelistedStaysSilent MarkedMeansSilent
PROPERTY RemovalConcernsItsSource
