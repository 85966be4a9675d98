CONSTANTS
    a1 = a1
    a2 = a2
    m1 = m1
    m2 = m2
    Unset = Unset
    NoneText = NoneText
    NoPacket = NoPacket
    Addresses <- MCAddresses
    Macs <- MCMacs
    RouteTables <- MCRouteTables
    MCRoutes = 3
    MaxClaims = 2
SPECIFICATION Spec
SYMMETRY Interchangeable
INVARIANTS TypeOK EveryContradictionIsAlarmed SuspectsSpokeForThemselves AlertsNameTheirGateway
PROPERTY StartsOnTheDefaultGateway
