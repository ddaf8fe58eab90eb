CONSTANTS
    alice = alice
    aliceCA = aliceCA
    bob = bob
    ca = ca
    child = child
    stranger = stranger
    v1 = v1
    v2 = v2
    bad = bad
    id = id
    Nil = Nil
    Malformed = Malformed
    None = None
    Junk = Junk
    PrivKeys <- MCPrivKeys
    Certs <- MCCerts
    CertKey <- MCCertKey
    CertSigner <- MCCertSigner
    IsCA <- MCIsCA
    Targets <- MCTargets
    Getters = {g1}
    Publishers = {u1}
    Paths <- RelPaths
    Recs <- KeyRecs
    ForeignBlocks <- NoForeign
    ForeignPuts <- NoForeign
SPECIFICATION Spec
PROPERTIES
    PublishedIsFound
