---------------------------- MODULE MCRecordSystem ----------------------------
(***************************************************************************)
(* Instances of RecordSystem for TLC.  Alice has a key and a self-signed   *)
(* CA certificate, with which she issued a certificate to Bob, who has a   *)
(* self-signed one too.                                                    *)
(***************************************************************************)
EXTENDS RecordSystem, TLC

CONSTANTS alice, aliceCA, bob, ca, child, stranger, v1, v2, bad, id

MCPrivKeys == {alice, aliceCA, bob}
MCCerts == {ca, child, stranger}
MCCertKey == ca :> aliceCA @@ child :> bob @@ stranger :> bob
MCCertSigner == ca :> aliceCA @@ child :> aliceCA @@ stranger :> bob
MCIsCA == ca :> TRUE @@ child :> FALSE @@ stranger :> TRUE
V1 == <<Text(v1)>>
V2 == <<Text(v2)>>
V1Zeros == V1 \o <<Digit(0), Digit(0)>>
V1Cert == V1 \o <<Digit(1), Cid(CertCid(child))>>

MCTargets == {V1, V2, V1Zeros, V1Cert}

-----------------------------------------------------------------------------
KeyRec == NewRecord(EolValidation(3), KeySigner(alice), V1)
CaRec == NewRecord(RangeValidation(Nil, 5), CertSignerOf(ca, aliceCA), V1)
ChildRec == NewRecord(RangeValidation(2, 4), CertSignerOf(child, bob), V2)

\* Bob's certificate with a key that is not its own.
MismatchedRec == NewRecord(EolValidation(3), CertSignerOf(child, alice), V1)

\* Bob's other certificate, which Alice has not issued.
StrangerRec == NewRecord(EolValidation(3), CertSignerOf(stranger, bob), V1)

\* A value that no resolver accepts.
BadRec == NewRecord(EolValidation(3), KeySigner(alice), <<Text(bad)>>)

KeyPath == SignerBasePath(KeySigner(alice), id)
CaPath == SignerBasePath(CertSignerOf(ca, aliceCA), id)

KeyPathRel == [KeyPath EXCEPT !.rel = <<"some", "path">>]

-----------------------------------------------------------------------------
\* Blocks other peers made: a record's with its value or its validity replaced,
\* types nobody registered, fields missing or of the wrong type, another codec.
Edited(r, field, x) == IprsCid([r.block EXCEPT ![field] = x])

TamperedValue == Edited(KeyRec, "value", V2)
TamperedRange == Edited(ChildRec, "vdn", Cbor(Validation(RangeValidation(2, 9))))
UnknownVerification == Edited(KeyRec, "vfnType", 7)
NoCid == Edited(CaRec, "vfn", GoNil)
NotACert == Edited(CaRec, "vfn", GoLink(PubKeyCid(alice)))
NoSignature == Edited(KeyRec, "sig", Malformed)
OtherVersion == Edited(CaRec, "version", 2)
OtherCodec == [codec |-> "cbor", of |-> KeyRec.block]

\* The bytes of a record, cut into other fields: the value takes the types and
\* the types are taken from the time; the end of a range is cut; and a
\* certificate's record is taken for one signed with a key.
LongerValue ==
    IprsCid([KeyRec.block EXCEPT !.value = V1Zeros,
                                 !.vdn = GoString(<<FormatRFC3339(3)[3]>>)])
LongerStart ==
    Edited(CaRec, "vdn", GoArray(<<GoString(MinusInf \o <<Digit(0)>>),
                                   GoString(Tail(FormatRFC3339(5)))>>))
CertAsKey ==
    IprsCid([MismatchedRec.block EXCEPT
                 !.value = V1Cert, !.vfnType = VerificationType_Key,
                 !.vdn = GoString(Tail(FormatRFC3339(3)))])

BlocksOf(rs) == UNION {Closure(r) : r \in rs}

AllRecs == {KeyRec, CaRec, ChildRec, MismatchedRec, StrangerRec, BadRec}

MCForeignBlocks ==
    {TamperedValue, TamperedRange, UnknownVerification, NoCid, NotACert, NoSignature,
     OtherCodec, LongerValue, LongerStart, CertAsKey} \cup BlocksOf(AllRecs)

\* At each path: what belongs there, what does not, bytes that are no CID, the
\* CID of a block that is no record, and the CID of a block that nobody stores.
MCForeignPuts ==
    {[path |-> KeyPath, ref |-> c] : c \in
        {RecordCid(r) : r \in {KeyRec, BadRec}}
        \cup {TamperedValue, OtherCodec, LongerValue, CertAsKey}}
    \cup
    {[path |-> CaPath, ref |-> c] : c \in
        {RecordCid(r) : r \in {CaRec, ChildRec, StrangerRec}}
        \cup {TamperedRange, UnknownVerification, NoCid, NotACert, NoSignature, CertCid(ca),
              OtherVersion, LongerStart, Junk}}

-----------------------------------------------------------------------------
OwnedPaths == {KeyPath, CaPath}
RelPaths == {KeyPath, KeyPathRel}
NoForeign == {}

CoreRecs == {KeyRec, ChildRec}
KeyRecs == {KeyRec}

Symmetry == Permutations(Publishers)
=============================================================================
