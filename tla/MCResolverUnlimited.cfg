CONSTANTS
    CidParts <- MCCidParts
    RawParts <- MCRawParts
    CidIn <- MCCidIn
    DomainParts <- MCDomainParts
    Values <- MCValues
    Inputs <- MCInputs
    Depths <- MCDepths
    MaxHops = 3
SPECIFICATION Spec
INVARIANTS
    UnlimitedIsNoLimit
CHECK_DEADLOCK FALSE
