------------------------------- MODULE Records -------------------------------
(***************************************************************************)
(* Records: how they are built and signed (record/record.go, key.go,       *)
(* cert.go, sigprep.go), the block they are stored in (ipld/iprs.go), and  *)
(* the checks a resolver makes on what it decodes.                         *)
(* Cryptography is symbolic: a CID is its content, a signature is the key  *)
(* and the data it signs.                                                  *)
(***************************************************************************)
EXTENDS Validity

CONSTANTS
    PrivKeys,    \* private keys; a public key is named by its private key
    Certs,       \* X509 certificates
    CertKey,     \* the key a certificate certifies
    CertSigner,  \* the key that signed a certificate
    IsCA,        \* whether a certificate may sign others
    Targets,     \* the values that Resolver.IsResolvable accepts
    Malformed    \* a block's field that is absent or of the wrong CBOR type

ASSUME CertAssumption ==
    /\ CertKey \in [Certs -> PrivKeys]
    /\ CertSigner \in [Certs -> PrivKeys]
    /\ IsCA \in [Certs -> BOOLEAN]

-----------------------------------------------------------------------------
(***************************************************************************)
(* CIDs carry a codec, and name their block by its content.                *)
(***************************************************************************)
PubKeyCid(k) == [codec |-> "pubk", of |-> k]
CertCid(c) == [codec |-> "cert", of |-> c]
IprsCid(b) == [codec |-> "iprs", of |-> b]

(***************************************************************************)
(* Paths.  /iprs/<cid>/<id>/<rel>...; BasePath drops the relative part.    *)
(***************************************************************************)
Path(cid, id, rel) == [cid |-> cid, id |-> id, rel |-> rel]
BasePath(p) == [p EXCEPT !.rel = <<>>]

-----------------------------------------------------------------------------
(***************************************************************************)
(* Signers.  NewCertRecordSigner takes any certificate and any key.        *)
(***************************************************************************)
VerificationType_Key == 0
VerificationType_Cert == 1

KeySigner(k) == [kind |-> "key", pk |-> k]
CertSignerOf(c, k) == [kind |-> "cert", pk |-> k, cert |-> c]

VerificationType(s) ==
    IF s.kind = "key" THEN VerificationType_Key ELSE VerificationType_Cert

SignerCid(s) == IF s.kind = "key" THEN PubKeyCid(s.pk) ELSE CertCid(s.cert)

SignerNodes(s) == {SignerCid(s)}

SignerBasePath(s, id) == Path(SignerCid(s), id, <<>>)

Verification(s) == IF s.kind = "key" THEN GoNil ELSE GoCid(CertCid(s.cert))

-----------------------------------------------------------------------------
(***************************************************************************)
(* The data a signature covers (dataForSig): the bytes of the value, of    *)
(* the two types and of what their registered preparers return, joined     *)
(* without a separator, so that they do not tell where the value ends.     *)
(* HasSigData is false where dataForSig returns an error.                  *)
(***************************************************************************)
toCid(o) == o.cid

HasSigDataCidOnly(v) ==  \* mutant: a link is not taken for a CID
    /\ \/ v.vfnType = VerificationType_Key
       \/ v.vfnType = VerificationType_Cert /\ v.vfn.type = "cid"
    /\ \/ v.vdnType = ValidationType_EOL /\ v.vdn.type = "string"
       \/ v.vdnType = ValidationType_TimeRange /\ IsStringTuple(v.vdn)

HasSigData(v) ==
    /\ \/ v.vfnType = VerificationType_Key
       \/ v.vfnType = VerificationType_Cert /\ v.vfn.type \in {"cid", "link"}
    /\ \/ v.vdnType = ValidationType_EOL /\ v.vdn.type = "string"
       \/ v.vdnType = ValidationType_TimeRange /\ IsStringTuple(v.vdn)

VerificationSig(v) ==
    IF v.vfnType = VerificationType_Key THEN <<>> ELSE <<Cid(toCid(v.vfn))>>

ValidationSig(v) ==
    IF v.vdnType = ValidationType_EOL
    THEN v.vdn.str
    ELSE StringTuple(v.vdn)[1] \o StringTuple(v.vdn)[2]

dataForSig(val, v) ==
    val \o <<Digit(v.vfnType)>> \o VerificationSig(v) \o <<Digit(v.vdnType)>>
        \o ValidationSig(v)

Sign(k, data) == [by |-> k, data |-> data]
SignatureOf(k, data, sig) == sig = Sign(k, data)

-----------------------------------------------------------------------------
(***************************************************************************)
(* NewRecord signs the validity as the signer and the validation give it;  *)
(* NewIprsNode stores it through the CBOR codec.  A block's fields are the *)
(* ones DecodeIprsBlock looks for.                                         *)
(***************************************************************************)
Version == 1

Block(val, v, sig) ==
    [version |-> Version, value |-> val, vfnType |-> v.vfnType, vfn |-> Cbor(v.vfn),
     vdnType |-> v.vdnType, vdn |-> Cbor(v.vdn), sig |-> sig]

NewRecord(vl, s, val) ==
    LET v == [vfnType |-> VerificationType(s), vfn |-> Verification(s),
              vdnType |-> ValidationType(vl), vdn |-> Validation(vl)]
    IN  [block |-> Block(val, v, Sign(s.pk, dataForSig(val, v))),
         nodes |-> SignerNodes(s),
         validation |-> vl, signer |-> s]  \* history: who made it, and with what

RecordCid(r) == IprsCid(r.block)

(***************************************************************************)
(* DecodeIprsBlock insists on all seven fields; it takes verification and  *)
(* validation whatever their type, and compares neither the version nor    *)
(* the CID's codec.  Keys and certificates are not CBOR.                   *)
(***************************************************************************)
Decodes(cid) ==
    /\ cid.codec \notin {"pubk", "cert"}
    /\ \A f \in DOMAIN cid.of : cid.of[f] # Malformed

-----------------------------------------------------------------------------
(***************************************************************************)
(* Checks on a fetched certificate: x509's CheckSignatureFrom wants the    *)
(* parent to be a CA and its key to have signed the child.                 *)
(***************************************************************************)
CheckSignatureFrom(c, issuer) == IsCA[issuer] /\ CertSigner[c] = CertKey[issuer]

KeySignatureOk(k, b) ==
    HasSigData(b) /\ SignatureOf(k, dataForSig(b.value, b), b.sig)

CertSignatureAnyIssuer(c, issuer, b) ==  \* mutant: the issuer is not checked
    /\ HasSigData(b)
    /\ SignatureOf(CertKey[c], dataForSig(b.value, b), b.sig)

CertSignatureOk(c, issuer, b) ==
    /\ CheckSignatureFrom(c, issuer)
    /\ HasSigData(b)
    /\ SignatureOf(CertKey[c], dataForSig(b.value, b), b.sig)

(***************************************************************************)
(* Who may publish at a path: the owner of the key it names; or the holder *)
(* of a certificate that the certificate it names, a CA, has issued.  For  *)
(* MaySign a key is enough, for Authorised the signer must be made of it.  *)
(***************************************************************************)
MaySign(k, p) ==
    \/ p.cid = PubKeyCid(k)
    \/ \E c, ca \in Certs :
           p.cid = CertCid(ca) /\ CheckSignatureFrom(c, ca) /\ k = CertKey[c]

Authorised(s, p) ==
    \/ s.kind = "key" /\ p.cid = PubKeyCid(s.pk)
    \/ /\ s.kind = "cert" /\ s.pk = CertKey[s.cert]
       /\ \E ca \in Certs : p.cid = CertCid(ca) /\ CheckSignatureFrom(s.cert, ca)
=============================================================================
