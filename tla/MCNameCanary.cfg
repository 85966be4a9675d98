CONSTANTS
    service = service
    console = console
    s1 = s1
    s2 = s2
    s3 = s3
    NoSeed = NoSeed
    NoName = NoName
    NoProbe = NoProbe
    Processes <- MCProcesses
    Seeds <- MCSeeds
    Prefixes <- MCPrefixes
    CutPrefixes <- MCCutPrefixes
    Digits <- MCDigits
    FirstDigits <- MCFirstDigits
    DottedPrefixes <- MCDottedPrefixes
    Count = 1
SPECIFICATION Spec
SYMMETRY Interchangeable
INVARIANTS TypeOK NamesAreStable EveryAnswerIsRecognised OnlyOwnNamesAreRecognised
