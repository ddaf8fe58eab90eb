CONSTANTS
    owner = owner
    other = other
    Nil = Nil
    Junk = Junk
    CidParts <- MCCidParts
    RawParts <- MCRawParts
    CidIn <- MCCidIn
    DomainParts <- MCDomainParts
    Domains <- MCDomainParts
    TxtLists <- MCTxtLists
    LinkIn <- MCLinkIn
    IpnsNames <- MCIpnsNames
    PubKey <- MCPubKey
    IpnsPuts <- MCIpnsPuts
    Signed <- MCSigned
    IprsValues <- MCIprsValues
    Inputs <- MCInputs
    Depths = {2}
    MaxHops = 2
    MaxChanges = 1
SPECIFICATION Spec
INVARIANTS
    DnsTypeOK
    IpnsTypeOK
    OneChangeIsAtomic
    AnswersDenoteLinks
    BothAreSet
    IpnsAuthentic
PROPERTIES
    ImplementsResolver
    LookupsEnd
CHECK_DEADLOCK FALSE
