CONSTANTS
    alice = alice
    aliceCA = aliceCA
    bob = bob
    ca = ca
    child = child
    stranger = stranger
    v1 = v1
    v2 = v2
    bad = bad
    id = id
    u1 = u1
    u2 = u2
    Nil = Nil
    Malformed = Malformed
    None = None
    Junk = Junk
    PrivKeys <- MCPrivKeys
    Certs <- MCCerts
    CertKey <- MCCertKey
    CertSigner <- MCCertSigner
    IsCA <- MCIsCA
    Targets <- MCTargets
    Getters = {g1}
    Publishers = {u1, u2}
    Paths <- OwnedPaths
    Recs <- CoreRecs
    ForeignBlocks <- NoForeign
    ForeignPuts <- NoForeign
SPECIFICATION Spec
INVARIANTS
    SysTypeOK
    OnlyIssuerIsMissing
    PubTypeOK
    NoDanglingRef
    AckedStaysBound
    PubInv
PROPERTIES
    PublishedIsFound
    ImplementsNameMap
SYMMETRY Symmetry
