-------------------------- MODULE RecordSystemProofs --------------------------
(***************************************************************************)
(* Theorems about RecordSystem, for any keys, certificates, records,       *)
(* paths, publishers, resolvers and whatever other peers put: what Resolve *)
(* returns was signed, rightful records are not turned down, what they     *)
(* need is there and what is published is found; and a name service, in    *)
(* which a path's reference alone decides, is implemented.                 *)
(***************************************************************************)
EXTENDS RecordSystem, SequenceTheorems, FiniteSetTheorems, TLAPS

-----------------------------------------------------------------------------
(***************************************************************************)
(* The data that is signed.                                                *)
(***************************************************************************)

LEMMA BytesIn ==
    ASSUME NEW s, IsBytes(s), NEW S, \A i \in 1..Len(s) : s[i] \in S
    PROVE  s \in Seq(S) /\ Len(s) \in Nat
<1> DEFINE T == {s[i] : i \in DOMAIN s}
<1>1. s \in Seq(T)
  BY DEF IsBytes
<1>2. Len(s) \in Nat /\ DOMAIN s = 1..Len(s)
  <2> HIDE DEF T
  <2> QED
    BY <1>1, LenProperties
<1>3. T \subseteq S
  BY <1>2
<1> HIDE DEF T
<1> QED
  BY <1>1, <1>2, <1>3, SeqMonotonic

LEMMA SequencesAreBytes ==
    ASSUME NEW S, NEW s \in Seq(S) PROVE IsBytes(s)
<1>1. Len(s) \in Nat /\ DOMAIN s = 1..Len(s) /\ s \in [1..Len(s) -> S]
  BY LenProperties
<1> DEFINE T == {s[i] : i \in DOMAIN s}
<1>2. s \in [1..Len(s) -> T]
  BY <1>1
<1>3. s \in Seq(T)
  <2> HIDE DEF T
  <2> QED
    BY <1>1, <1>2, IsASeq
<1> QED
  BY <1>3 DEF IsBytes

LEMMA OneIsBytes ==
    ASSUME NEW x PROVE IsBytes(<<x>>) /\ Len(<<x>>) = 1
<1>1. <<x>> \in Seq({x}) /\ Len(<<x>>) = 1
  OBVIOUS
<1> QED
  BY <1>1, SequencesAreBytes

Joined(d, s, t) == d = s \o t

LEMMA JoinedBytes ==
    ASSUME NEW d, NEW s, NEW t, IsBytes(s), IsBytes(t), Joined(d, s, t)
    PROVE  /\ IsBytes(d)
           /\ Len(s) \in Nat /\ Len(t) \in Nat
           /\ Len(d) = Len(s) + Len(t)
           /\ \A i \in 1..Len(s) : d[i] = s[i]
           /\ \A i \in 1..Len(t) : d[Len(s) + i] = t[i]
<1> DEFINE S == {s[i] : i \in 1..Len(s)} \cup {t[i] : i \in 1..Len(t)}
<1>1. (\A i \in 1..Len(s) : s[i] \in S) /\ (\A i \in 1..Len(t) : t[i] \in S)
  OBVIOUS
<1> HIDE DEF S
<1>2. s \in Seq(S) /\ t \in Seq(S) /\ Len(s) \in Nat /\ Len(t) \in Nat
  BY <1>1, BytesIn
<1>3. /\ d \in Seq(S) /\ Len(d) = Len(s) + Len(t)
      /\ \A i \in 1..Len(s) + Len(t) : d[i] = IF i <= Len(s) THEN s[i] ELSE t[i - Len(s)]
  BY <1>2, ConcatProperties DEF Joined
<1>4. \A i \in 1..Len(s) : d[i] = s[i]
  BY <1>2, <1>3
<1>5. ASSUME NEW i \in 1..Len(t) PROVE d[Len(s) + i] = t[i]
  <2>1. Len(s) + i \in 1..Len(s) + Len(t) /\ ~(Len(s) + i <= Len(s))
        /\ Len(s) + i - Len(s) = i
    BY <1>2
  <2> QED
    BY <1>3, <2>1
<1> QED
  BY <1>2, <1>3, <1>4, <1>5, SequencesAreBytes

LEMMA BytesAssociate ==
    ASSUME NEW d, NEW s, NEW t, NEW u, IsBytes(s), IsBytes(t), IsBytes(u),
           Joined(d, s, t \o u)
    PROVE  IsBytes(s \o t) /\ Joined(d, s \o t, u)
<1> DEFINE S == {s[i] : i \in 1..Len(s)} \cup {t[i] : i \in 1..Len(t)}
                  \cup {u[i] : i \in 1..Len(u)}
<1>1. /\ \A i \in 1..Len(s) : s[i] \in S
      /\ \A i \in 1..Len(t) : t[i] \in S
      /\ \A i \in 1..Len(u) : u[i] \in S
  OBVIOUS
<1> HIDE DEF S
<1>2. s \in Seq(S) /\ t \in Seq(S) /\ u \in Seq(S)
  BY <1>1, BytesIn
<1>3. s \o t \in Seq(S)
  BY <1>2, ConcatProperties
<1>4. (s \o t) \o u = s \o (t \o u)
  BY <1>2, ConcatAssociative
<1> QED
  BY <1>3, <1>4, SequencesAreBytes, Zenon DEF Joined

\* A string in two ways the join of others has the same parts in both, if the
\* last ones are equally long.
LEMMA TailsAgree ==
    ASSUME NEW d, NEW s1, NEW t1, NEW s2, NEW t2,
           IsBytes(s1), IsBytes(t1), IsBytes(s2), IsBytes(t2),
           Joined(d, s1, t1), Joined(d, s2, t2), Len(t1) = Len(t2)
    PROVE  s1 = s2 /\ t1 = t2
<1> DEFINE S == {s1[i] : i \in 1..Len(s1)} \cup {t1[i] : i \in 1..Len(t1)}
                  \cup {s2[i] : i \in 1..Len(s2)} \cup {t2[i] : i \in 1..Len(t2)}
<1>1. /\ \A i \in 1..Len(s1) : s1[i] \in S
      /\ \A i \in 1..Len(t1) : t1[i] \in S
      /\ \A i \in 1..Len(s2) : s2[i] \in S
      /\ \A i \in 1..Len(t2) : t2[i] \in S
  OBVIOUS
<1> HIDE DEF S
<1>2. s1 \in Seq(S) /\ t1 \in Seq(S) /\ s2 \in Seq(S) /\ t2 \in Seq(S)
  BY <1>1, BytesIn
<1>3. /\ Len(s1) \in Nat /\ Len(t1) \in Nat
      /\ Len(d) = Len(s1) + Len(t1)
      /\ \A i \in 1..Len(s1) : d[i] = s1[i]
      /\ \A i \in 1..Len(t1) : d[Len(s1) + i] = t1[i]
  BY JoinedBytes
<1>4. /\ Len(s2) \in Nat /\ Len(t2) \in Nat
      /\ Len(d) = Len(s2) + Len(t2)
      /\ \A i \in 1..Len(s2) : d[i] = s2[i]
      /\ \A i \in 1..Len(t2) : d[Len(s2) + i] = t2[i]
  BY JoinedBytes
<1>5. Len(s1) = Len(s2)
  BY <1>3, <1>4
<1>6. \A i \in 1..Len(s1) : s1[i] = s2[i]
  BY <1>3, <1>4, <1>5
<1>7. \A i \in 1..Len(t1) : t1[i] = t2[i]
  BY <1>3, <1>4, <1>5
<1> QED
  BY <1>2, <1>5, <1>6, <1>7, SeqEqual

(***************************************************************************)
(* A time or an infinity at the end of a string can be told from its last  *)
(* chunk.                                                                  *)
(***************************************************************************)
Known(s) == s = MinusInf \/ s = PlusInf \/ ParsesAsTime(s)

LEMMA KnownStrings ==
    ASSUME NEW s, Known(s)
    PROVE  /\ IsBytes(s) /\ Len(s) \in 1..3
           /\ s = MinusInf => s[Len(s)] = <<"text", "-inf">>
           /\ s = PlusInf => s[Len(s)] = <<"text", "inf">>
           /\ ParsesAsTime(s) => s[Len(s)] = <<"time", Instant(s)>>
<1>1. CASE s = MinusInf \/ s = PlusInf
  <2>1. PICK x : s = <<x>> /\ x = s[1]
    BY <1>1 DEF MinusInf, PlusInf
  <2>2. IsBytes(s) /\ Len(s) = 1
    BY <2>1, OneIsBytes
  <2> QED
    BY <1>1, <2>2 DEF MinusInf, PlusInf, ParsesAsTime, Text
<1>2. CASE ParsesAsTime(s)
  <2> DEFINE x == Digit(0)
             y == <<"time", Instant(s)>>
  <2>1. Len(s) = 3 /\ s = <<x, x, y>>
    BY <1>2 DEF ParsesAsTime, FormatRFC3339
  <2> HIDE DEF x, y
  <2>2. <<x, x, y>> \in Seq({x, y}) /\ <<x, x, y>>[3] = y
    OBVIOUS
  <2>3. IsBytes(s) /\ s[3] = y
    BY <2>1, <2>2, SequencesAreBytes
  <2>4. s # MinusInf /\ s # PlusInf
    BY <2>1 DEF MinusInf, PlusInf
  <2> QED
    BY <2>1, <2>3, <2>4 DEF y
<1> QED
  BY <1>1, <1>2 DEF Known

LEMMA KnownTails ==
    ASSUME NEW d, NEW s1, NEW t1, NEW s2, NEW t2,
           IsBytes(s1), IsBytes(s2), Known(t1), Known(t2),
           Joined(d, s1, t1), Joined(d, s2, t2)
    PROVE  s1 = s2 /\ t1 = t2
<1>1. /\ IsBytes(t1) /\ IsBytes(t2)
      /\ Len(t1) \in 1..3 /\ Len(t2) \in 1..3
  BY KnownStrings
<1>2. Len(t1) \in 1..Len(t1) /\ Len(t2) \in 1..Len(t2)
  BY <1>1
<1>3. Len(d) = Len(s1) + Len(t1) /\ d[Len(s1) + Len(t1)] = t1[Len(t1)]
  BY <1>1, <1>2, JoinedBytes
<1>7. Len(d) = Len(s2) + Len(t2) /\ d[Len(s2) + Len(t2)] = t2[Len(t2)]
  BY <1>1, <1>2, JoinedBytes
<1>4. t1[Len(t1)] = t2[Len(t2)]
  BY <1>3, <1>7
<1>5. \A x : /\ <<"text", "-inf">> # <<"text", "inf">>
             /\ <<"text", "-inf">> # <<"time", x>>
             /\ <<"text", "inf">> # <<"time", x>>
  OBVIOUS
<1>6. t1 = t2
  <2>1. CASE t1 = MinusInf
    BY <1>4, <1>5, <2>1, KnownStrings DEF Known
  <2>2. CASE t1 = PlusInf
    BY <1>4, <1>5, <2>2, KnownStrings DEF Known
  <2>3. CASE ParsesAsTime(t1)
    <3>1. ParsesAsTime(t2) /\ <<"time", Instant(t1)>> = <<"time", Instant(t2)>>
      BY <1>4, <1>5, <2>3, KnownStrings DEF Known
    <3>2. Instant(t1) = Instant(t2)
      BY <3>1
    <3> QED
      BY <2>3, <3>1, <3>2 DEF ParsesAsTime
  <2> QED
    BY <2>1, <2>2, <2>3 DEF Known
<1> QED
  BY <1>1, <1>6, TailsAgree

-----------------------------------------------------------------------------
(***************************************************************************)
(* What is in a record.                                                    *)
(***************************************************************************)
Verifiable(r) ==
    [vfnType |-> VerificationType(r.signer), vfn |-> Verification(r.signer),
     vdnType |-> ValidationType(r.validation), vdn |-> Validation(r.validation)]

LEMMA RecordFields ==
    ASSUME NEW r \in Recs
    PROVE  LET v == Verifiable(r) IN
           /\ r.block = Block(r.block.value, v,
                              Sign(r.signer.pk, dataForSig(r.block.value, v)))
           /\ r.nodes = {SignerCid(r.signer)}
           /\ RecordCid(r) = IprsCid(r.block)
<1> DEFINE v == Verifiable(r)
           b == Block(r.block.value, v, Sign(r.signer.pk, dataForSig(r.block.value, v)))
           n == SignerNodes(r.signer)
           made == NewRecord(r.validation, r.signer, r.block.value)
<1>1. r = made
  BY RecsAssumption
<1>2. made = [block |-> b, nodes |-> n, validation |-> r.validation, signer |-> r.signer]
  BY DEF NewRecord, Verifiable
<1> HIDE DEF made, b, n
<1>3. made.block = b /\ made.nodes = n
  BY <1>2
<1>4. r.block = b /\ r.nodes = n
  BY <1>1, <1>3, Zenon
<1> QED
  BY <1>4 DEF b, n, SignerNodes, RecordCid

LEMMA BlockFields ==
    ASSUME NEW r \in Recs
    PROVE  LET b == r.block
               v == Verifiable(r)
           IN  /\ b.vfnType = v.vfnType /\ b.vfn = Cbor(v.vfn)
               /\ b.vdnType = v.vdnType /\ b.vdn = Cbor(v.vdn)
               /\ b.sig = Sign(r.signer.pk, dataForSig(b.value, v))
<1> DEFINE v == Verifiable(r)
           s == Sign(r.signer.pk, dataForSig(r.block.value, v))
<1>1. r.block = Block(r.block.value, v, s)
  BY RecordFields
<1> HIDE DEF v, s
<1>2. LET b == Block(r.block.value, v, s)
      IN  /\ b.vfnType = v.vfnType /\ b.vfn = Cbor(v.vfn)
          /\ b.vdnType = v.vdnType /\ b.vdn = Cbor(v.vdn) /\ b.sig = s
  BY DEF Block
<1> QED
  BY <1>1, <1>2, Zenon DEF v, s

(***************************************************************************)
(* The CBOR codec changes the types of what a record holds, and not what   *)
(* the signature is about.                                                 *)
(***************************************************************************)
StartString(vl) == IF vl.start = Nil THEN MinusInf ELSE FormatRFC3339(vl.start)
EndString(vl) == IF vl.end = Nil THEN PlusInf ELSE FormatRFC3339(vl.end)

SignerPart(s) == IF s.kind = "key" THEN <<>> ELSE <<Cid(CertCid(s.cert))>>

ValidityPart(vl) ==
    IF vl.kind = "eol" THEN FormatRFC3339(vl.eol) ELSE StartString(vl) \o EndString(vl)

LEMMA SignedParts ==
    ASSUME NEW r \in Recs
    PROVE  /\ VerificationSig(Verifiable(r)) = SignerPart(r.signer)
           /\ ValidationSig(Verifiable(r)) = ValidityPart(r.validation)
<1> DEFINE v == Verifiable(r)
<1>1. /\ v.vfnType = VerificationType(r.signer) /\ v.vfn = Verification(r.signer)
      /\ v.vdnType = ValidationType(r.validation) /\ v.vdn = Validation(r.validation)
  BY DEF Verifiable
<1> HIDE DEF v
<1>2. VerificationSig(v) = SignerPart(r.signer)
  <2>1. CASE r.signer.kind = "key"
    BY <1>1, <2>1 DEF VerificationSig, SignerPart, VerificationType
  <2>2. CASE r.signer.kind # "key"
    <3>1. toCid(v.vfn) = CertCid(r.signer.cert)
      BY <1>1, <2>2 DEF Verification, GoCid, toCid
    <3> QED
      BY <1>1, <2>2, <3>1 DEF VerificationSig, SignerPart, VerificationType,
                              VerificationType_Cert, VerificationType_Key
  <2> QED
    BY <2>1, <2>2
<1>3. ValidationSig(v) = ValidityPart(r.validation)
  <2>1. CASE r.validation.kind = "eol"
    <3>1. v.vdn.str = FormatRFC3339(r.validation.eol)
      BY <1>1, <2>1 DEF Validation, GoString
    <3> QED
      BY <1>1, <2>1, <3>1 DEF ValidationSig, ValidityPart, ValidationType
  <2>2. CASE r.validation.kind # "eol"
    <3>1. v.vdn = GoStrings(<<StartString(r.validation), EndString(r.validation)>>)
      BY <1>1, <2>2 DEF Validation, StartString, EndString
    <3>2. /\ StringTuple(v.vdn)[1] = StartString(r.validation)
          /\ StringTuple(v.vdn)[2] = EndString(r.validation)
      BY <3>1 DEF GoStrings, StringTuple
    <3> QED
      BY <1>1, <2>2, <3>2 DEF ValidationSig, ValidityPart, ValidationType,
                              ValidationType_EOL, ValidationType_TimeRange
  <2> QED
    BY <2>1, <2>2
<1> QED
  BY <1>2, <1>3 DEF v

LEMMA StoredParts ==
    ASSUME NEW r \in Recs
    PROVE  /\ VerificationSig(r.block) = SignerPart(r.signer)
           /\ ValidationSig(r.block) = ValidityPart(r.validation)
           /\ HasSigData(r.block)
           /\ r.block.vdn.type # "[]string"
           /\ r.signer.kind = "cert" => /\ r.block.vfn.type = "link"
                                        /\ toCid(r.block.vfn) = CertCid(r.signer.cert)
<1> DEFINE b == r.block
<1>1. /\ b.vfnType = VerificationType(r.signer) /\ b.vfn = Cbor(Verification(r.signer))
      /\ b.vdnType = ValidationType(r.validation) /\ b.vdn = Cbor(Validation(r.validation))
  <2>1. /\ Verifiable(r).vfnType = VerificationType(r.signer)
        /\ Verifiable(r).vfn = Verification(r.signer)
        /\ Verifiable(r).vdnType = ValidationType(r.validation)
        /\ Verifiable(r).vdn = Validation(r.validation)
    BY DEF Verifiable
  <2> QED
    BY <2>1, BlockFields
<1>2. r.signer.kind \in {"key", "cert"} /\ r.validation.kind \in {"eol", "range"}
  BY RecsAssumption
<1> HIDE DEF b
<1>3. r.signer.kind = "cert" => b.vfn = GoLink(CertCid(r.signer.cert))
  BY <1>1 DEF Verification, GoCid, GoLink, Cbor
<1>4. r.signer.kind = "cert" =>
        b.vfn.type = "link" /\ toCid(b.vfn) = CertCid(r.signer.cert)
  BY <1>3 DEF GoLink, toCid
<1>5. VerificationSig(b) = SignerPart(r.signer)
  BY <1>1, <1>2, <1>4 DEF VerificationSig, SignerPart, VerificationType,
                          VerificationType_Cert, VerificationType_Key
<1>6. CASE r.validation.kind = "eol"
  <2>1. b.vdn.type = "string" /\ b.vdn.str = FormatRFC3339(r.validation.eol)
    BY <1>1, <1>6 DEF Validation, GoString, Cbor
  <2>2. ValidationSig(b) = ValidityPart(r.validation)
    BY <1>1, <1>6, <2>1 DEF ValidationSig, ValidityPart, ValidationType
  <2>3. HasSigData(b)
    BY <1>1, <1>2, <1>4, <1>6, <2>1 DEF HasSigData, VerificationType, ValidationType
  <2> QED
    BY <1>4, <1>5, <2>1, <2>2, <2>3 DEF b
<1>7. CASE r.validation.kind = "range"
  <2> DEFINE s == StartString(r.validation)
             e == EndString(r.validation)
  <2>1. Validation(r.validation) = GoStrings(<<s, e>>)
    BY <1>7 DEF Validation, StartString, EndString
  <2> HIDE DEF s, e
  <2>2. b.vdn = GoArray([i \in DOMAIN <<s, e>> |-> GoString(<<s, e>>[i])])
    BY <1>1, <2>1 DEF GoStrings, Cbor
  <2>3. /\ b.vdn.type = "[]interface"
        /\ b.vdn.elems = <<GoString(s), GoString(e)>>
    BY <2>2 DEF GoArray
  <2>4. /\ Len(b.vdn.elems) = 2
        /\ b.vdn.elems[1].type = "string" /\ b.vdn.elems[1].str = s
        /\ b.vdn.elems[2].type = "string" /\ b.vdn.elems[2].str = e
    BY <2>3 DEF GoString
  <2>5. IsStringTuple(b.vdn) /\ StringTuple(b.vdn) = <<s, e>>
    <3>1. \A i \in 1..2 : i = 1 \/ i = 2
      OBVIOUS
    <3>2. IsStringTuple(b.vdn)
      BY <2>3, <2>4, <3>1 DEF IsStringTuple
    <3>3. StringTuple(b.vdn) = [i \in 1..2 |-> b.vdn.elems[i].str]
      BY <2>3 DEF StringTuple
    <3>4. [i \in 1..2 |-> b.vdn.elems[i].str] = <<s, e>>
      BY <2>4
    <3> QED
      BY <3>2, <3>3, <3>4
  <2>8. StringTuple(b.vdn)[1] = s /\ StringTuple(b.vdn)[2] = e
    BY <2>5
  <2>6. ValidationSig(b) = ValidityPart(r.validation)
    BY <1>1, <1>7, <2>8 DEF ValidationSig, ValidityPart, ValidationType, ValidationType_EOL,
                            ValidationType_TimeRange, s, e
  <2>7. HasSigData(b)
    BY <1>1, <1>2, <1>4, <1>7, <2>5 DEF HasSigData, VerificationType, ValidationType
  <2> QED
    BY <1>4, <1>5, <2>3, <2>6, <2>7 DEF b
<1> QED
  BY <1>2, <1>6, <1>7

LEMMA RecordVerifies ==
    ASSUME NEW r \in Recs
    PROVE  /\ r.block.sig = Sign(r.signer.pk, dataForSig(r.block.value, r.block))
           /\ KeySignatureOk(r.signer.pk, r.block)
<1> DEFINE b == r.block
           v == Verifiable(r)
<1>1. b.vfnType = v.vfnType /\ b.vdnType = v.vdnType
      /\ b.sig = Sign(r.signer.pk, dataForSig(b.value, v))
  BY BlockFields
<1>2. VerificationSig(b) = VerificationSig(v) /\ ValidationSig(b) = ValidationSig(v)
  BY SignedParts, StoredParts
<1>3. dataForSig(b.value, b) = dataForSig(b.value, v)
  BY <1>1, <1>2, Zenon DEF dataForSig
<1> QED
  BY <1>1, <1>3, StoredParts DEF KeySignatureOk, SignatureOf

-----------------------------------------------------------------------------
(***************************************************************************)
(* What a signature that verifies says: the block agrees with a record     *)
(* that the key's owner made, in everything that a resolver reads.         *)
(***************************************************************************)
Nodes == ForeignBlocks \cup Cids

LEMMA NodeShapes ==
    ASSUME NEW c \in Nodes
    PROVE  /\ c.codec = "pubk" => c.of \in PrivKeys /\ c = PubKeyCid(c.of)
           /\ c.codec = "cert" => c.of \in Certs /\ c = CertCid(c.of)
<1>1. CASE c \in ForeignBlocks
  BY <1>1, BlocksAssumption DEF PubKeyCid, CertCid
<1>2. CASE c \in Cids
  <2>1. PICK r \in Recs : c = RecordCid(r) \/ c = SignerCid(r.signer)
    BY <1>2, RecordFields DEF Cids, Closure, DependencyNodes
  <2>2. c = IprsCid(r.block)
        \/ (r.signer.pk \in PrivKeys /\ c = PubKeyCid(r.signer.pk))
        \/ (r.signer.cert \in Certs /\ c = CertCid(r.signer.cert))
    BY <2>1, RecsAssumption DEF RecordCid, SignerCid
  <2> QED
    BY <2>2 DEF IprsCid, PubKeyCid, CertCid
<1> QED
  BY <1>1, <1>2 DEF Nodes

LEMMA BlocksOfRecs ==
    ASSUME NEW c \in Cids, Decodes(c) PROVE \E r \in Recs : c.of = r.block
<1>1. PICK r \in Recs : c = RecordCid(r) \/ c = SignerCid(r.signer)
  BY RecordFields DEF Cids, Closure, DependencyNodes
<1>2. c = IprsCid(r.block) \/ c = PubKeyCid(r.signer.pk) \/ c = CertCid(r.signer.cert)
  BY <1>1 DEF RecordCid, SignerCid
<1>3. PubKeyCid(r.signer.pk).codec = "pubk" /\ CertCid(r.signer.cert).codec = "cert"
      /\ IprsCid(r.block).of = r.block
  BY DEF IprsCid, PubKeyCid, CertCid
<1> QED
  BY <1>2, <1>3 DEF Decodes

LEMMA SignedByOwner ==
    ASSUME NEW c \in Nodes, Decodes(c), NEW k \in PrivKeys, KeySignatureOk(k, c.of)
    PROVE  /\ c.of.vdn.type # "[]string"
           /\ IsBytes(c.of.value)
           /\ \E r \in Recs : /\ r.signer.pk = k
                              /\ dataForSig(r.block.value, r.block)
                                   = dataForSig(c.of.value, c.of)
<1> DEFINE b == c.of
<1>1. /\ b.vdn.type # "[]string" /\ IsBytes(b.value)
      /\ \E r \in Recs : r.block.sig = b.sig
  <2>1. CASE c \in ForeignBlocks
    BY <2>1, BlocksAssumption
  <2>2. CASE c \in Cids
    BY <2>2, BlocksOfRecs, StoredParts, RecsAssumption
  <2> QED
    BY <2>1, <2>2 DEF Nodes
<1>2. PICK r \in Recs : r.block.sig = b.sig
  BY <1>1
<1>3. Sign(r.signer.pk, dataForSig(r.block.value, r.block)) = Sign(k, dataForSig(b.value, b))
  BY <1>2, RecordVerifies DEF KeySignatureOk, SignatureOf
<1>4. ASSUME NEW k1, NEW k2, NEW d1, NEW d2, Sign(k1, d1) = Sign(k2, d2)
      PROVE  k1 = k2 /\ d1 = d2
  BY <1>4 DEF Sign
<1>5. r.signer.pk = k /\ dataForSig(r.block.value, r.block) = dataForSig(b.value, b)
  BY <1>3, <1>4
<1> QED
  BY <1>1, <1>5

(***************************************************************************)
(* A block that is signed as a record is, has its types and a validity     *)
(* that parses, says the same: the parts are told apart from the right.    *)
(***************************************************************************)
Front(v, t, f, u) == v \o <<t>> \o f \o <<u>>

LEMMA FrontIsJoined ==
    ASSUME NEW v, NEW t, NEW f, NEW u, IsBytes(v), IsBytes(f)
    PROVE  /\ IsBytes(Front(v, t, f, u))
           /\ \E w, x : /\ IsBytes(w) /\ IsBytes(x)
                        /\ Joined(w, v, <<t>>) /\ Joined(x, w, f)
                        /\ Joined(Front(v, t, f, u), x, <<u>>)
<1> DEFINE a == <<t>>
           c == <<u>>
           w == v \o a
           x == w \o f
           y == x \o c
<1>1. Front(v, t, f, u) = y
  BY DEF Front
<1>2. IsBytes(a) /\ IsBytes(c)
  BY OneIsBytes
<1>3. Joined(w, v, a) /\ Joined(x, w, f) /\ Joined(y, x, c)
  BY Zenon DEF Joined
<1> HIDE DEF a, c, w, x, y
<1>4. IsBytes(w)
  BY <1>2, <1>3, JoinedBytes
<1>5. IsBytes(x)
  BY <1>3, <1>4, JoinedBytes
<1>6. IsBytes(y)
  BY <1>2, <1>3, <1>5, JoinedBytes
<1> QED
  BY <1>1, <1>3, <1>4, <1>5, <1>6, Zenon DEF a, c

LEMMA FrontsAgree ==
    ASSUME NEW v1, NEW t1, NEW f1, NEW u1, NEW v2, NEW t2, NEW f2, NEW u2,
           IsBytes(v1), IsBytes(f1), IsBytes(v2), IsBytes(f2), Len(f1) = Len(f2),
           Front(v1, t1, f1, u1) = Front(v2, t2, f2, u2)
    PROVE  v1 = v2 /\ f1 = f2
<1> DEFINE d == Front(v1, t1, f1, u1)
           a1 == <<t1>>
           a2 == <<t2>>
           c1 == <<u1>>
           c2 == <<u2>>
<1>1. /\ IsBytes(a1) /\ IsBytes(a2) /\ IsBytes(c1) /\ IsBytes(c2)
      /\ Len(a1) = Len(a2) /\ Len(c1) = Len(c2)
  BY OneIsBytes
<1>2. PICK w1, x1 : /\ IsBytes(w1) /\ IsBytes(x1)
                    /\ Joined(w1, v1, a1) /\ Joined(x1, w1, f1) /\ Joined(d, x1, c1)
  BY FrontIsJoined
<1>3. PICK w2, x2 : /\ IsBytes(w2) /\ IsBytes(x2)
                    /\ Joined(w2, v2, a2) /\ Joined(x2, w2, f2) /\ Joined(d, x2, c2)
  BY FrontIsJoined
<1> HIDE DEF d, a1, a2, c1, c2
<1>4. x1 = x2
  BY <1>1, <1>2, <1>3, TailsAgree
<1>5. w1 = w2 /\ f1 = f2
  BY <1>2, <1>3, <1>4, TailsAgree
<1> QED
  BY <1>1, <1>2, <1>3, <1>5, TailsAgree

\* The strings of a validity that parses, and of the one a record is made with.
LEMMA ReadStrings ==
    ASSUME NEW b, ValidityParses(b), b.vdn.type # "[]string"
    PROVE  IF b.vdnType = ValidationType_EOL
           THEN Known(ValidationSig(b)) /\ getEol(b) = Instant(ValidationSig(b))
           ELSE LET x == StringTuple(b.vdn)[1]
                    y == StringTuple(b.vdn)[2]
                IN  /\ ValidationSig(b) = x \o y
                    /\ Known(x) /\ Known(y)
                    /\ getEol(b) = IF y = PlusInf THEN Nil ELSE Instant(y)
<1>0. ValidationType_EOL # ValidationType_TimeRange
  BY DEF ValidationType_EOL, ValidationType_TimeRange
<1>1. CASE b.vdnType = ValidationType_EOL
  <2>1. EolParses(b)
    BY <1>0, <1>1 DEF ValidityParses
  <2>2. getEol(b) = EolOf(b)
    BY <1>0, <1>1, <2>1 DEF getEol
  <2> QED
    BY <1>1, <2>1, <2>2 DEF EolParses, EolOf, Known, ValidationSig
<1>2. CASE b.vdnType # ValidationType_EOL
  <2>1. b.vdnType = ValidationType_TimeRange /\ RangeParses(b)
    BY <1>2 DEF ValidityParses
  <2>2. getEol(b) = EndOf(b)
    BY <1>2, <2>1 DEF getEol
  <2> QED
    BY <1>2, <2>1, <2>2 DEF RangeParses, EndOf, Known, ValidationSig
<1> QED
  BY <1>1, <1>2

LEMMA MadeStrings ==
    ASSUME NEW vl, vl.kind \in {"eol", "range"}
    PROVE  IF vl.kind = "eol"
           THEN Known(ValidityPart(vl)) /\ EndOfLife(vl) = Instant(ValidityPart(vl))
           ELSE LET x == StartString(vl)
                    y == EndString(vl)
                IN  /\ ValidityPart(vl) = x \o y
                    /\ Known(x) /\ Known(y)
                    /\ EndOfLife(vl) = IF y = PlusInf THEN Nil ELSE Instant(y)
<1>1. ASSUME NEW t
      PROVE  LET f == FormatRFC3339(t)
             IN  ParsesAsTime(f) /\ Instant(f) = t /\ f # PlusInf
  <2> DEFINE x == Digit(0)
             y == <<"time", t>>
             f == <<x, x, y>>
  <2>1. FormatRFC3339(t) = f
    BY DEF FormatRFC3339
  <2>2. f[3] = y /\ y[2] = t /\ Len(f) = 3
    OBVIOUS
  <2>3. Len(PlusInf) = 1
    BY DEF PlusInf
  <2> HIDE DEF x, y, f
  <2>4. Instant(f) = t
    BY <2>2 DEF Instant
  <2> QED
    BY <2>1, <2>2, <2>3, <2>4 DEF ParsesAsTime
<1>2. CASE vl.kind = "eol"
  BY <1>1, <1>2 DEF ValidityPart, EndOfLife, Known
<1>3. CASE vl.kind = "range"
  BY <1>1, <1>3 DEF ValidityPart, EndOfLife, Known, StartString, EndString
<1> QED
  BY <1>2, <1>3

LEMMA SameReading ==
    ASSUME NEW r \in Recs, NEW b, HasSigData(b), b.vdn.type # "[]string", IsBytes(b.value),
           dataForSig(b.value, b) = dataForSig(r.block.value, r.block), ReadAsMade(r, b)
    PROVE  /\ b.value = r.block.value
           /\ VerificationType(r.signer) = b.vfnType
           /\ r.signer.kind = "cert" => CertCid(r.signer.cert) = toCid(b.vfn)
           /\ getEol(b) = EndOfLife(r.validation)
<1> DEFINE rb == r.block
           vl == r.validation
           f1 == SignerPart(r.signer)
           g1 == ValidityPart(vl)
           f2 == VerificationSig(b)
           g2 == ValidationSig(b)
           h1 == Front(rb.value, Digit(rb.vfnType), f1, Digit(rb.vdnType))
           h2 == Front(b.value, Digit(b.vfnType), f2, Digit(b.vdnType))
           d == dataForSig(b.value, b)
<1>1. /\ rb.vfnType = VerificationType(r.signer) /\ rb.vfnType = b.vfnType
      /\ rb.vdnType = ValidationType(vl) /\ rb.vdnType = b.vdnType
  BY BlockFields DEF Verifiable, ReadAsMade
<1>2. /\ r.signer.kind \in {"key", "cert"} /\ vl.kind \in {"eol", "range"}
      /\ IsBytes(rb.value)
  BY RecsAssumption
<1>3. VerificationSig(rb) = f1 /\ ValidationSig(rb) = g1
  BY StoredParts
<1>4. Joined(d, h1, g1) /\ Joined(d, h2, g2)
  <2>1. dataForSig(rb.value, rb) = h1 \o g1
    BY <1>3, Zenon DEF dataForSig, Front
  <2>2. dataForSig(b.value, b) = h2 \o g2
    BY Zenon DEF dataForSig, Front
  <2> QED
    BY <2>1, <2>2, Zenon DEF Joined
<1>5. /\ IsBytes(f1) /\ IsBytes(f2) /\ Len(f1) = Len(f2)
      /\ r.signer.kind = "cert" => f1 = <<Cid(CertCid(r.signer.cert))>>
                                   /\ f2 = <<Cid(toCid(b.vfn))>>
  <2>1. IsBytes(<<>>)
    <3>1. <<>> \in Seq({})
      OBVIOUS
    <3> QED
      BY <3>1, SequencesAreBytes
  <2>2. CASE r.signer.kind = "key"
    BY <1>1, <2>1, <2>2 DEF SignerPart, VerificationSig, VerificationType
  <2>3. CASE r.signer.kind = "cert"
    <3>1. f1 = <<Cid(CertCid(r.signer.cert))>>
      BY <2>3 DEF SignerPart
    <3>2. f2 = <<Cid(toCid(b.vfn))>>
      BY <1>1, <2>3 DEF VerificationSig, VerificationType, VerificationType_Key,
                        VerificationType_Cert
    <3> QED
      BY <3>1, <3>2, OneIsBytes
  <2> QED
    BY <1>2, <2>2, <2>3
<1>6. IsBytes(h1) /\ IsBytes(h2)
  <2> HIDE DEF f1, f2, rb
  <2> QED
    BY <1>2, <1>5, FrontIsJoined
<1>7. h1 = h2 /\ getEol(b) = EndOfLife(vl)
  <2>0. ValidityParses(b)
    BY DEF ReadAsMade
  <2> HIDE DEF h1, h2, d
  <2>1. CASE vl.kind = "eol"
    <3>1. b.vdnType = ValidationType_EOL
      BY <1>1, <2>1 DEF ValidationType
    <3>2. Known(g2) /\ getEol(b) = Instant(g2)
      BY <2>0, <3>1, ReadStrings
    <3>3. Known(g1) /\ EndOfLife(vl) = Instant(g1)
      BY <1>2, <2>1, MadeStrings
    <3> HIDE DEF g1, g2
    <3> QED
      BY <1>4, <1>6, <3>2, <3>3, KnownTails
  <2>2. CASE vl.kind = "range"
    <3> DEFINE x1 == StartString(vl)
               y1 == EndString(vl)
               x2 == StringTuple(b.vdn)[1]
               y2 == StringTuple(b.vdn)[2]
    <3>1. b.vdnType # ValidationType_EOL
      BY <1>1, <2>2 DEF ValidationType, ValidationType_EOL, ValidationType_TimeRange
    <3>2. /\ g2 = x2 \o y2 /\ Known(x2) /\ Known(y2)
          /\ getEol(b) = IF y2 = PlusInf THEN Nil ELSE Instant(y2)
      BY <2>0, <3>1, ReadStrings
    <3>3. /\ g1 = x1 \o y1 /\ Known(x1) /\ Known(y1)
          /\ EndOfLife(vl) = IF y1 = PlusInf THEN Nil ELSE Instant(y1)
      BY <1>2, <2>2, MadeStrings
    <3> HIDE DEF g1, g2, x1, y1, x2, y2
    <3>4. IsBytes(x1) /\ IsBytes(y1) /\ IsBytes(x2) /\ IsBytes(y2)
      BY <3>2, <3>3, KnownStrings
    <3>5. /\ IsBytes(h1 \o x1) /\ Joined(d, h1 \o x1, y1)
          /\ IsBytes(h2 \o x2) /\ Joined(d, h2 \o x2, y2)
      <4>1. Joined(d, h1, x1 \o y1) /\ Joined(d, h2, x2 \o y2)
        BY <1>4, <3>2, <3>3
      <4> QED
        BY <1>6, <3>4, <4>1, BytesAssociate
    <3>6. h1 \o x1 = h2 \o x2 /\ y1 = y2
      BY <3>2, <3>3, <3>5, KnownTails
    <3>7. h1 = h2
      <4>1. Joined(h1 \o x1, h1, x1) /\ Joined(h1 \o x1, h2, x2)
        BY <3>6, Zenon DEF Joined
      <4> QED
        BY <1>6, <3>2, <3>3, <4>1, KnownTails
    <3> QED
      BY <3>2, <3>3, <3>6, <3>7
  <2> QED
    BY <1>2, <2>1, <2>2
<1>8. rb.value = b.value /\ f1 = f2
  <2>1. IsBytes(rb.value) /\ IsBytes(b.value) /\ IsBytes(f1) /\ IsBytes(f2) /\ Len(f1) = Len(f2)
    BY <1>2, <1>5
  <2>2. h1 = h2
    BY <1>7
  <2> HIDE DEF f1, f2, rb
  <2> QED
    BY <2>1, <2>2, FrontsAgree
<1>9. r.signer.kind = "cert" => CertCid(r.signer.cert) = toCid(b.vfn)
  <2>1. ASSUME NEW c, NEW e, <<Cid(c)>> = <<Cid(e)>> PROVE c = e
    <3>1. Cid(c) = Cid(e)
      BY <2>1
    <3> QED
      BY <3>1 DEF Cid
  <2> QED
    BY <1>5, <1>8, <2>1
<1> QED
  BY <1>1, <1>7, <1>8, <1>9

\* What a record of the path's owner, or of whom the owner certifies, says of
\* a block.
IsAuthentic(p, b, val, eol) ==
    \E r \in Recs :
        /\ MaySign(r.signer.pk, p)
        /\ dataForSig(val, b) = dataForSig(r.block.value, r.block)
        /\ ReadAsMade(r, b) =>
             r \in RightfulRecs(p) /\ val = r.block.value /\ eol = EndOfLife(r.validation)

LEMMA KeyVerified ==
    ASSUME NEW c \in Nodes, Decodes(c), c.of.vfnType = VerificationType_Key,
           NEW k \in PrivKeys, KeySignatureOk(k, c.of), NEW p, p.cid = PubKeyCid(k)
    PROVE  IsAuthentic(p, c.of, c.of.value, getEol(c.of))
<1> DEFINE b == c.of
<1>1. HasSigData(b)
  BY DEF KeySignatureOk
<1>2. PICK r \in Recs : r.signer.pk = k
                        /\ dataForSig(r.block.value, r.block) = dataForSig(b.value, b)
  BY SignedByOwner
<1>3. b.vdn.type # "[]string" /\ IsBytes(b.value)
  BY SignedByOwner
<1>4. MaySign(r.signer.pk, p)
  BY <1>2 DEF MaySign
<1>5. ASSUME ReadAsMade(r, b)
      PROVE  r \in RightfulRecs(p) /\ b.value = r.block.value
             /\ getEol(b) = EndOfLife(r.validation)
  <2>1. /\ b.value = r.block.value /\ getEol(b) = EndOfLife(r.validation)
        /\ VerificationType(r.signer) = b.vfnType
    BY <1>1, <1>2, <1>3, <1>5, SameReading
  <2>2. r.signer.kind = "key"
    BY <2>1 DEF VerificationType, VerificationType_Key, VerificationType_Cert
  <2> QED
    BY <1>2, <2>1, <2>2 DEF RightfulRecs, Authorised
<1> QED
  BY <1>2, <1>4, <1>5 DEF IsAuthentic

LEMMA CertVerified ==
    ASSUME NEW c \in Nodes, Decodes(c), c.of.vfnType = VerificationType_Cert,
           NEW cert \in Certs, toCid(c.of.vfn) = CertCid(cert),
           NEW ca \in Certs, CertSignatureOk(cert, ca, c.of), NEW p, p.cid = CertCid(ca)
    PROVE  IsAuthentic(p, c.of, c.of.value, getEol(c.of))
<1> DEFINE b == c.of
<1>1. /\ CheckSignatureFrom(cert, ca) /\ HasSigData(b)
      /\ KeySignatureOk(CertKey[cert], b) /\ CertKey[cert] \in PrivKeys
  BY CertAssumption DEF CertSignatureOk, KeySignatureOk
<1>2. PICK r \in Recs : r.signer.pk = CertKey[cert]
                        /\ dataForSig(r.block.value, r.block) = dataForSig(b.value, b)
  BY <1>1, SignedByOwner
<1>3. b.vdn.type # "[]string" /\ IsBytes(b.value)
  BY <1>1, SignedByOwner
<1>4. MaySign(r.signer.pk, p)
  BY <1>1, <1>2 DEF MaySign
<1>5. ASSUME ReadAsMade(r, b)
      PROVE  r \in RightfulRecs(p) /\ b.value = r.block.value
             /\ getEol(b) = EndOfLife(r.validation)
  <2>1. /\ b.value = r.block.value /\ getEol(b) = EndOfLife(r.validation)
        /\ VerificationType(r.signer) = b.vfnType
        /\ r.signer.kind = "cert" => CertCid(r.signer.cert) = toCid(b.vfn)
    BY <1>1, <1>2, <1>3, <1>5, SameReading
  <2>2. r.signer.kind = "cert"
    BY <2>1, RecsAssumption DEF VerificationType, VerificationType_Key, VerificationType_Cert
  <2>3. r.signer.cert = cert
    BY <2>1, <2>2 DEF CertCid
  <2> QED
    BY <1>1, <1>2, <2>1, <2>2, <2>3 DEF RightfulRecs, Authorised
<1> QED
  BY <1>2, <1>4, <1>5 DEF IsAuthentic

-----------------------------------------------------------------------------
(***************************************************************************)
(* The invariant of one call c, its two goroutines wk, their channel rs    *)
(* and the DAG d.  A goroutine is awaited until its answer is received;    *)
(* one that is no longer awaited by a waiting call has found its           *)
(* certificate, because any other answer ends the wait.                    *)
(***************************************************************************)
Results == {"ok", "codec", "missing", "unavailable"}
Early == {"ref", "block", "verify", "pubk", "cert"}
Fetched == {"verify", "pubk", "cert", "wait", "check"}
Waiting == {"wait", "check"}

FetchOf(c, w) == IF w = "cert" THEN toCid(c.cid.of.vfn) ELSE c.path.cid

Found(c, w, d) == FetchOf(c, w).codec = "cert" /\ FetchOf(c, w) \in d

IsTrue(c, w, res, d) ==
    /\ res = "ok" => Found(c, w, d)
    /\ res = "codec" => FetchOf(c, w).codec # "cert"

Awaited(wk, rs, w) == wk[w] # "off" \/ \E i \in 1..Len(rs) : rs[i].from = w

OneAnswerEach(wk, rs) ==
    /\ wk \in [Fetches -> Results \cup {"off", "fetch"}]
    /\ rs \in Seq([from : Fetches, res : Results])
    /\ \A i \in 1..Len(rs) : wk[rs[i].from] = "off"
    /\ \A i, j \in 1..Len(rs) : rs[i].from = rs[j].from => i = j

Answered(wk, rs) ==
    (IF Awaited(wk, rs, "cert") THEN 0 ELSE 1) + (IF Awaited(wk, rs, "issuer") THEN 0 ELSE 1)

Waits(c, wk, rs, d) ==
    /\ \A w \in Fetches : IsTrue(c, w, wk[w], d)
    /\ \A i \in 1..Len(rs) : IsTrue(c, rs[i].from, rs[i].res, d)
    /\ \A w \in Fetches : Awaited(wk, rs, w) \/ Found(c, w, d)
    /\ c.got = Answered(wk, rs)
    /\ c.pc = "check" <=> c.got = 2

Judged == {"decode", "type", "codec", "signature"}

EndsRight(c) ==
    /\ c.pc = "ok" => IsAuthentic(c.path, c.cid.of, c.val, c.eol)
    /\ c.pc = "failed" /\ c.why \in Judged =>
           \A r \in RightfulRecs(c.path) : c.cid # RecordCid(r)

Stage(c, d) ==
    /\ c.pc \in {"idle", "ok", "failed"} \cup Early \cup Waiting
    /\ c.pc \in Early => c = [pc |-> c.pc, path |-> c.path, cid |-> c.cid]
    /\ c.pc \in Waiting => c = [pc |-> c.pc, path |-> c.path, cid |-> c.cid, got |-> c.got]
    /\ c.pc \in Fetched => c.cid \in Nodes /\ Decodes(c.cid)
    /\ c.pc = "pubk" => c.cid.of.vfnType = VerificationType_Key
    /\ c.pc \in {"cert"} \cup Waiting =>
           c.cid.of.vfnType = VerificationType_Cert /\ c.cid.of.vfn.type \in {"cid", "link"}
    /\ c.pc = "cert" => toCid(c.cid.of.vfn) = c.path.cid

CallInv(c, wk, rs, d) ==
    /\ Stage(c, d)
    /\ OneAnswerEach(wk, rs)
    /\ c.pc \in Early => rs = <<>> /\ \A w \in Fetches : wk[w] = "off"
    /\ c.pc \in Waiting => Waits(c, wk, rs, d)
    /\ EndsRight(c)

\* The DAG only grows, which a call does not mind.
LEMMA MoreNodes ==
    ASSUME NEW c, NEW wk, NEW rs, NEW d, NEW e, d \subseteq e, CallInv(c, wk, rs, d)
    PROVE  CallInv(c, wk, rs, e)
<1>1. ASSUME NEW w, Found(c, w, d) PROVE Found(c, w, e)
  BY <1>1 DEF Found
<1>2. Waits(c, wk, rs, d) => Waits(c, wk, rs, e)
  BY <1>1 DEF Waits, IsTrue
<1> QED
  BY <1>2 DEF CallInv, Stage

\* A call that fails, whatever its goroutines do, has not turned down a
\* rightful record.
LEMMA FailedInv ==
    ASSUME NEW c, NEW wk, NEW rs, NEW d, OneAnswerEach(wk, rs), NEW why, NEW m,
           why \in Judged => \A r \in RightfulRecs(c.path) : c.cid # RecordCid(r)
    PROVE  CallInv([pc |-> "failed", path |-> c.path, cid |-> c.cid, why |-> why,
                    missing |-> m], wk, rs, d)
<1> DEFINE f == [pc |-> "failed", path |-> c.path, cid |-> c.cid, why |-> why, missing |-> m]
<1>1. f.pc = "failed" /\ f.path = c.path /\ f.cid = c.cid /\ f.why = why
  OBVIOUS
<1> HIDE DEF f
<1>2. Stage(f, d) /\ f.pc \notin Early /\ f.pc \notin Waiting
  BY <1>1 DEF Stage, Early, Waiting, Fetched
<1>3. EndsRight(f)
  BY <1>1 DEF EndsRight
<1> QED
  BY <1>2, <1>3 DEF CallInv, f

\* A call that returns what an authentic block says ends right.
LEMMA ReturnedInv ==
    ASSUME NEW c, NEW wk, NEW rs, NEW d, OneAnswerEach(wk, rs),
           IsAuthentic(c.path, c.cid.of, c.cid.of.value, getEol(c.cid.of))
    PROVE  CallInv([pc |-> "ok", path |-> c.path, cid |-> c.cid,
                    val |-> c.cid.of.value, eol |-> getEol(c.cid.of)], wk, rs, d)
<1> DEFINE f == [pc |-> "ok", path |-> c.path, cid |-> c.cid,
                 val |-> c.cid.of.value, eol |-> getEol(c.cid.of)]
<1>1. /\ f.pc = "ok" /\ f.path = c.path /\ f.cid = c.cid
      /\ f.val = c.cid.of.value /\ f.eol = getEol(c.cid.of)
  OBVIOUS
<1> HIDE DEF f
<1>2. Stage(f, d) /\ f.pc \notin Early /\ f.pc \notin Waiting
  BY <1>1 DEF Stage, Early, Waiting, Fetched
<1>3. IsAuthentic(f.path, f.cid.of, f.val, f.eol)
  BY <1>1, Zenon
<1>4. EndsRight(f)
  BY <1>1, <1>3 DEF EndsRight
<1> QED
  BY <1>2, <1>4 DEF CallInv, f

-----------------------------------------------------------------------------
(***************************************************************************)
(* The channel.                                                            *)
(***************************************************************************)
LEMMA Received ==
    ASSUME NEW wk, NEW rs, OneAnswerEach(wk, rs), rs # <<>>
    PROVE  /\ Head(rs) = rs[1] /\ 1 \in 1..Len(rs) /\ Head(rs).from \in Fetches
           /\ OneAnswerEach(wk, Tail(rs))
           /\ ~Awaited(wk, Tail(rs), Head(rs).from)
           /\ \A w \in Fetches : w # Head(rs).from =>
                  (Awaited(wk, Tail(rs), w) <=> Awaited(wk, rs, w))
           /\ \A i \in 1..Len(Tail(rs)) : i + 1 \in 1..Len(rs) /\ Tail(rs)[i] = rs[i + 1]
<1> USE DEF OneAnswerEach
<1>1. /\ Len(rs) \in Nat \ {0} /\ Len(Tail(rs)) = Len(rs) - 1
      /\ Tail(rs) \in Seq([from : Fetches, res : Results])
      /\ Head(rs) = rs[1]
      /\ \A i \in 1..Len(Tail(rs)) : Tail(rs)[i] = rs[i + 1]
  BY HeadTailProperties
<1> DEFINE t == Tail(rs)
<1> HIDE DEF t
<1>2. /\ Len(rs) \in Nat \ {0} /\ Len(t) = Len(rs) - 1
      /\ t \in Seq([from : Fetches, res : Results])
      /\ \A i \in 1..Len(t) : t[i] = rs[i + 1]
  BY <1>1 DEF t
<1>3. 1 \in 1..Len(rs) /\ \A i \in 1..Len(t) : i + 1 \in 1..Len(rs)
  BY <1>2
<1>4. rs[1] \in [from : Fetches, res : Results]
  <2> DEFINE A == [from : Fetches, res : Results]
  <2>1. rs \in Seq(A)
    OBVIOUS
  <2> HIDE DEF A
  <2> QED
    BY <1>3, <2>1, ElementOfSeq
<1>5. \A i \in 1..Len(t) : t[i].from # rs[1].from
  <2> SUFFICES ASSUME NEW i \in 1..Len(t), t[i].from = rs[1].from PROVE FALSE
    OBVIOUS
  <2>1. rs[i + 1].from = rs[1].from
    BY <1>2
  <2>2. i + 1 = 1
    BY <1>3, <2>1
  <2> QED
    BY <2>2
<1>6. wk[rs[1].from] = "off"
  BY <1>3
<1>7. ~Awaited(wk, t, rs[1].from)
  BY <1>5, <1>6 DEF Awaited
<1>8. ASSUME NEW w \in Fetches, w # rs[1].from
      PROVE  Awaited(wk, t, w) <=> Awaited(wk, rs, w)
  <2>1. ASSUME NEW i \in 1..Len(t), t[i].from = w
        PROVE  \E j \in 1..Len(rs) : rs[j].from = w
    BY <1>2, <1>3, <2>1
  <2>2. ASSUME NEW j \in 1..Len(rs), rs[j].from = w
        PROVE  \E i \in 1..Len(t) : t[i].from = w
    <3>1. j # 1
      BY <1>8, <2>2
    <3>2. j - 1 \in 1..Len(t) /\ (j - 1) + 1 = j
      BY <1>2, <3>1
    <3>3. t[j - 1] = rs[j]
      BY <1>2, <3>2
    <3> QED
      BY <2>2, <3>2, <3>3
  <2> QED
    BY <2>1, <2>2 DEF Awaited
<1>9. OneAnswerEach(wk, t)
  <2>1. \A i \in 1..Len(t) : wk[t[i].from] = "off"
    BY <1>2, <1>3
  <2>2. ASSUME NEW i \in 1..Len(t), NEW j \in 1..Len(t), t[i].from = t[j].from PROVE i = j
    <3>1. rs[i + 1].from = rs[j + 1].from
      BY <1>2, <2>2
    <3>2. i + 1 = j + 1
      BY <1>3, <3>1
    <3> QED
      BY <3>2
  <2> QED
    BY <1>2, <2>1, <2>2
<1> QED
  BY <1>1, <1>3, <1>4, <1>7, <1>8, <1>9 DEF t

Sends(wk, rs, w, wk2, rs2) ==
    /\ wk[w] \in Results
    /\ wk2 = [wk EXCEPT ![w] = "off"]
    /\ rs2 = Append(rs, [from |-> w, res |-> wk[w]])

LEMMA Sent ==
    ASSUME NEW wk, NEW rs, OneAnswerEach(wk, rs), NEW w \in Fetches,
           NEW wk2, NEW rs2, Sends(wk, rs, w, wk2, rs2)
    PROVE  /\ OneAnswerEach(wk2, rs2)
           /\ \A x \in Fetches : Awaited(wk2, rs2, x) <=> Awaited(wk, rs, x)
           /\ \A i \in 1..Len(rs2) : \/ i \in 1..Len(rs) /\ rs2[i] = rs[i]
                                     \/ rs2[i].from = w /\ rs2[i].res = wk[w]
<1> USE DEF Sends
<1> DEFINE a == [from |-> w, res |-> wk[w]]
<1>0. a \in [from : Fetches, res : Results] /\ a.from = w /\ a.res = wk[w]
  OBVIOUS
<1> HIDE DEF a
<1>1. /\ rs \in Seq([from : Fetches, res : Results])
      /\ wk \in [Fetches -> Results \cup {"off", "fetch"}]
  BY DEF OneAnswerEach
<1>2. /\ rs2 \in Seq([from : Fetches, res : Results]) /\ Len(rs2) = Len(rs) + 1
      /\ \A i \in 1..Len(rs) : rs2[i] = rs[i]
      /\ rs2[Len(rs) + 1] = a
  BY <1>0, <1>1, AppendProperties DEF a
<1>3. Len(rs) \in Nat
  BY <1>1
<1>4. \A i \in 1..Len(rs2) : i \in 1..Len(rs) \/ i = Len(rs) + 1
  BY <1>2, <1>3
<1>5. /\ wk2 \in [Fetches -> Results \cup {"off", "fetch"}] /\ wk2[w] = "off"
      /\ \A x \in Fetches : x # w => wk2[x] = wk[x]
  BY <1>1
<1>6. wk[w] # "off"
  BY DEF Results
<1>7. ASSUME NEW i \in 1..Len(rs)
      PROVE  rs[i].from \in Fetches /\ rs[i].from # w /\ wk[rs[i].from] = "off"
  <2> DEFINE A == [from : Fetches, res : Results]
  <2>1. rs \in Seq(A)
    BY <1>1
  <2> HIDE DEF A
  <2>2. rs[i] \in A
    BY <2>1, ElementOfSeq
  <2>3. rs[i].from \in Fetches
    BY <2>2 DEF A
  <2> QED
    BY <1>6, <2>3 DEF OneAnswerEach
<1>8. OneAnswerEach(wk2, rs2)
  <2>1. \A i \in 1..Len(rs2) : wk2[rs2[i].from] = "off"
    BY <1>0, <1>2, <1>4, <1>5, <1>7
  <2>2. ASSUME NEW i \in 1..Len(rs2), NEW j \in 1..Len(rs2), rs2[i].from = rs2[j].from
        PROVE  i = j
    <3>1. CASE i \in 1..Len(rs) /\ j \in 1..Len(rs)
      BY <1>2, <2>2, <3>1 DEF OneAnswerEach
    <3>2. CASE i \in 1..Len(rs) /\ j = Len(rs) + 1
      BY <1>0, <1>2, <1>7, <2>2, <3>2
    <3>3. CASE i = Len(rs) + 1 /\ j \in 1..Len(rs)
      BY <1>0, <1>2, <1>7, <2>2, <3>3
    <3> QED
      BY <1>4, <3>1, <3>2, <3>3
  <2> QED
    BY <1>2, <1>5, <2>1, <2>2 DEF OneAnswerEach
<1>9. ASSUME NEW x \in Fetches PROVE Awaited(wk2, rs2, x) <=> Awaited(wk, rs, x)
  <2>1. CASE x = w
    <3>1. Len(rs) + 1 \in 1..Len(rs2)
      BY <1>2, <1>3
    <3> QED
      BY <1>0, <1>2, <1>6, <2>1, <3>1 DEF Awaited
  <2>2. CASE x # w
    <3>1. \A i \in 1..Len(rs) : i \in 1..Len(rs2)
      BY <1>2, <1>3
    <3>2. (\E i \in 1..Len(rs2) : rs2[i].from = x) <=> (\E i \in 1..Len(rs) : rs[i].from = x)
      BY <1>0, <1>2, <1>4, <2>2, <3>1
    <3> QED
      BY <1>5, <2>2, <3>2 DEF Awaited
  <2> QED
    BY <2>1, <2>2
<1> QED
  BY <1>0, <1>2, <1>4, <1>8, <1>9

-----------------------------------------------------------------------------
(***************************************************************************)
(* What a verifier finds in the record of an authorised signer.            *)
(***************************************************************************)
LEMMA RightfulBlock ==
    ASSUME NEW p, NEW r \in RightfulRecs(p), NEW c, c = RecordCid(r)
    PROVE  /\ Decodes(c)
           /\ c.of.vfnType \in {VerificationType_Key, VerificationType_Cert}
           /\ c.of.vfnType = VerificationType_Key =>
                p.cid = PubKeyCid(r.signer.pk) /\ KeySignatureOk(r.signer.pk, c.of)
           /\ c.of.vfnType = VerificationType_Cert =>
                /\ c.of.vfn.type \in {"cid", "link"}
                /\ toCid(c.of.vfn) = CertCid(r.signer.cert)
                /\ \E ca \in Certs :
                     p.cid = CertCid(ca) /\ CertSignatureOk(r.signer.cert, ca, c.of)
<1>1. r \in Recs /\ Authorised(r.signer, p)
  BY DEF RightfulRecs
<1>2. Decodes(c) /\ r.signer.kind \in {"key", "cert"}
  BY <1>1, RecsAssumption
<1>3. c.of = r.block
  BY DEF RecordCid, IprsCid
<1>4. c.of.vfnType = VerificationType(r.signer)
  <2>1. Verifiable(r).vfnType = VerificationType(r.signer)
    BY DEF Verifiable
  <2> QED
    BY <1>1, <1>3, <2>1, BlockFields
<1>5. KeySignatureOk(r.signer.pk, c.of)
  BY <1>1, <1>3, RecordVerifies
<1>6. CASE r.signer.kind = "key"
  <2>1. c.of.vfnType = VerificationType_Key /\ c.of.vfnType # VerificationType_Cert
    BY <1>4, <1>6 DEF VerificationType, VerificationType_Key, VerificationType_Cert
  <2> QED
    BY <1>1, <1>2, <1>5, <1>6, <2>1 DEF Authorised
<1>7. CASE r.signer.kind = "cert"
  <2>1. c.of.vfnType = VerificationType_Cert /\ c.of.vfnType # VerificationType_Key
    BY <1>4, <1>7 DEF VerificationType, VerificationType_Key, VerificationType_Cert
  <2>2. c.of.vfn.type = "link" /\ toCid(c.of.vfn) = CertCid(r.signer.cert)
    BY <1>1, <1>3, <1>7, StoredParts
  <2>3. PICK ca \in Certs : p.cid = CertCid(ca) /\ CheckSignatureFrom(r.signer.cert, ca)
    BY <1>1, <1>7 DEF Authorised
  <2>4. r.signer.pk = CertKey[r.signer.cert]
    BY <1>1, <1>7 DEF Authorised
  <2>5. CertSignatureOk(r.signer.cert, ca, c.of)
    BY <1>5, <2>3, <2>4 DEF CertSignatureOk, KeySignatureOk
  <2> QED
    BY <1>2, <2>1, <2>2, <2>3, <2>5
<1> QED
  BY <1>2, <1>6, <1>7

-----------------------------------------------------------------------------
(***************************************************************************)
(* Every step of a call keeps its invariant.                               *)
(***************************************************************************)
Called(g) ==
    /\ DOMAIN get = Getters /\ DOMAIN work = Getters /\ DOMAIN resp = Getters
    /\ dag \subseteq Nodes
    /\ CallInv(get[g], work[g], resp[g], dag)

LEMMA FailStep ==
    ASSUME NEW g \in Getters, DOMAIN get = Getters, NEW why, NEW m,
           Fail(g, why) \/ (FailMissing(g, m) /\ why = "missing"),
           OneAnswerEach(work'[g], resp'[g]),
           why \in Judged => \A r \in RightfulRecs(get[g].path) : get[g].cid # RecordCid(r)
    PROVE  CallInv(get'[g], work'[g], resp'[g], dag)
<1>1. CASE Fail(g, why)
  <2>1. get'[g] = [pc |-> "failed", path |-> get[g].path, cid |-> get[g].cid,
                   why |-> why, missing |-> None]
    BY <1>1 DEF Fail
  <2> QED
    BY <2>1, FailedInv
<1>2. CASE FailMissing(g, m) /\ why = "missing"
  <2>1. get'[g] = [pc |-> "failed", path |-> get[g].path, cid |-> get[g].cid,
                   why |-> why, missing |-> m]
    BY <1>2 DEF FailMissing
  <2> QED
    BY <2>1, FailedInv
<1> QED
  BY <1>1, <1>2

LEMMA FinishStep ==
    ASSUME NEW g \in Getters, Called(g), Finish(g), UNCHANGED <<work, resp>>,
           IsAuthentic(get[g].path, get[g].cid.of, get[g].cid.of.value,
                       getEol(get[g].cid.of))
    PROVE  CallInv(get'[g], work'[g], resp'[g], dag)
<1>1. OneAnswerEach(work'[g], resp'[g]) /\ DOMAIN get = Getters
  BY DEF Called, CallInv
<1>2. CASE get[g].cid.of.value \in Targets
  <2>1. get'[g] = [pc |-> "ok", path |-> get[g].path, cid |-> get[g].cid,
                   val |-> get[g].cid.of.value, eol |-> getEol(get[g].cid.of)]
    BY <1>1, <1>2 DEF Finish
  <2> QED
    BY <1>1, <2>1, ReturnedInv
<1>3. CASE get[g].cid.of.value \notin Targets
  <2>1. Fail(g, "target") /\ "target" \notin Judged
    BY <1>3 DEF Finish, Judged
  <2> QED
    BY <1>1, <2>1, FailStep
<1> QED
  BY <1>2, <1>3

LEMMA ResolveStep ==
    ASSUME NEW g \in Getters, Called(g), NEW p \in Paths, Resolve(g, p)
    PROVE  CallInv(get'[g], work'[g], resp'[g], dag)
<1> DEFINE c == [pc |-> "ref", path |-> p, cid |-> None]
<1>1. /\ get'[g] = c /\ resp'[g] = <<>> /\ work'[g] = work[g]
      /\ \A w \in Fetches : work[g][w] = "off"
  BY DEF Resolve, Called
<1>2. OneAnswerEach(work[g], <<>>)
  <2>1. <<>> \in Seq([from : Fetches, res : Results]) /\ Len(<<>>) = 0
    OBVIOUS
  <2>2. work[g] \in [Fetches -> Results \cup {"off", "fetch"}]
    BY DEF Called, CallInv, OneAnswerEach
  <2> QED
    BY <2>1, <2>2 DEF OneAnswerEach
<1>3. /\ c.pc = "ref" /\ c = [pc |-> c.pc, path |-> c.path, cid |-> c.cid]
  OBVIOUS
<1> HIDE DEF c
<1>4. Stage(c, dag) /\ c.pc \notin Waiting
  BY <1>3 DEF Stage, Early, Waiting, Fetched
<1>5. EndsRight(c)
  BY <1>3 DEF EndsRight
<1> QED
  BY <1>1, <1>2, <1>4, <1>5 DEF CallInv

\* An assignment to a call's pc, and to its cid, leaves a call.
LEMMA Reshaped ==
    ASSUME NEW x, x = [pc |-> x.pc, path |-> x.path, cid |-> x.cid], NEW o, NEW i
    PROVE  /\ [x EXCEPT !.pc = o] = [pc |-> o, path |-> x.path, cid |-> x.cid]
           /\ [x EXCEPT !.pc = o, !.cid = i] = [pc |-> o, path |-> x.path, cid |-> i]
<1> DEFINE p == x.pc
           q == x.path
           c == x.cid
<1>1. x = [pc |-> p, path |-> q, cid |-> c]
  OBVIOUS
<1> HIDE DEF p, q, c
<1>2. [x EXCEPT !.pc = o] = [pc |-> o, path |-> q, cid |-> c]
  BY <1>1
<1>3. [x EXCEPT !.pc = o, !.cid = i] = [pc |-> o, path |-> q, cid |-> i]
  <2> DEFINE z == [x EXCEPT !.pc = o, !.cid = i]
  <2>1. z = [[pc |-> p, path |-> q, cid |-> c] EXCEPT !.pc = o, !.cid = i]
    BY <1>1
  <2> HIDE DEF z
  <2>2. z = [pc |-> o, path |-> q, cid |-> i]
    BY <2>1
  <2> QED
    BY <2>2 DEF z
<1> QED
  BY <1>2, <1>3 DEF q, c

LEMMA GetRefStep ==
    ASSUME NEW g \in Getters, Called(g), GetRef(g)
    PROVE  CallInv(get'[g], work'[g], resp'[g], dag)
<1> DEFINE b == vstore[BasePath(get[g].path)]
<1>1. /\ DOMAIN get = Getters /\ work'[g] = work[g] /\ resp'[g] = resp[g]
      /\ OneAnswerEach(work'[g], resp'[g]) /\ get[g].pc \in Early
      /\ get[g] = [pc |-> get[g].pc, path |-> get[g].path, cid |-> get[g].cid]
      /\ resp[g] = <<>> /\ \A w \in Fetches : work[g][w] = "off"
  <2>1. get[g].pc \in Early
    BY DEF GetRef, Early
  <2> QED
    BY <2>1 DEF GetRef, Called, CallInv, Stage
<1>2. \/ Fail(g, "notfound") \/ Fail(g, "cast")
      \/ get' = [get EXCEPT ![g].pc = "block", ![g].cid = b]
  BY DEF GetRef
<1>3. CASE Fail(g, "notfound")
  <2>1. "notfound" \notin Judged
    BY DEF Judged
  <2> QED
    BY <1>1, <1>3, <2>1, FailStep
<1>4. CASE Fail(g, "cast")
  <2>1. "cast" \notin Judged
    BY DEF Judged
  <2> QED
    BY <1>1, <1>4, <2>1, FailStep
<1>5. CASE get' = [get EXCEPT ![g].pc = "block", ![g].cid = b]
  <2> DEFINE c == [pc |-> "block", path |-> get[g].path, cid |-> b]
  <2>1. get'[g] = c
    <3> HIDE DEF b
    <3>1. get'[g] = [get[g] EXCEPT !.pc = "block", !.cid = b]
      BY <1>1, <1>5
    <3> QED
      BY <1>1, <3>1, Reshaped
  <2>2. c.pc = "block" /\ c = [pc |-> c.pc, path |-> c.path, cid |-> c.cid]
    OBVIOUS
  <2> HIDE DEF c
  <2>3. Stage(c, dag) /\ c.pc \notin Waiting
    BY <2>2 DEF Stage, Early, Waiting, Fetched
  <2>4. EndsRight(c)
    BY <2>2 DEF EndsRight
  <2> QED
    BY <1>1, <2>1, <2>3, <2>4 DEF CallInv
<1> QED
  BY <1>2, <1>3, <1>4, <1>5

\* A step that only moves an early call to another early pc.
LEMMA GotoStep ==
    ASSUME NEW g \in Getters, Called(g), get[g].pc \in Early, NEW pc, Goto(g, pc),
           pc \in Early, UNCHANGED <<work, resp>>,
           pc \in Fetched => get[g].cid \in Nodes /\ Decodes(get[g].cid),
           pc = "pubk" => get[g].cid.of.vfnType = VerificationType_Key,
           pc = "cert" => /\ get[g].cid.of.vfnType = VerificationType_Cert
                          /\ get[g].cid.of.vfn.type \in {"cid", "link"}
                          /\ toCid(get[g].cid.of.vfn) = get[g].path.cid
    PROVE  CallInv(get'[g], work'[g], resp'[g], dag)
<1> DEFINE c == [pc |-> pc, path |-> get[g].path, cid |-> get[g].cid]
<1>1. /\ DOMAIN get = Getters /\ OneAnswerEach(work[g], resp[g])
      /\ get[g] = [pc |-> get[g].pc, path |-> get[g].path, cid |-> get[g].cid]
      /\ resp[g] = <<>> /\ \A w \in Fetches : work[g][w] = "off"
  BY DEF Called, CallInv, Stage
<1>2. get'[g] = c
  <2>1. get'[g] = [get[g] EXCEPT !.pc = pc]
    BY <1>1 DEF Goto
  <2> QED
    BY <1>1, <2>1, Reshaped
<1>3. /\ c.pc = pc /\ c.path = get[g].path /\ c.cid = get[g].cid
      /\ c = [pc |-> c.pc, path |-> c.path, cid |-> c.cid]
  OBVIOUS
<1> HIDE DEF c
<1>4. Stage(c, dag) /\ c.pc \notin Waiting
  BY <1>3 DEF Stage, Early, Waiting, Fetched
<1>5. EndsRight(c)
  BY <1>3 DEF EndsRight, Early
<1> QED
  BY <1>1, <1>2, <1>3, <1>4, <1>5 DEF CallInv

LEMMA GetBlockStep ==
    ASSUME NEW g \in Getters, Called(g), GetBlock(g)
    PROVE  CallInv(get'[g], work'[g], resp'[g], dag)
<1>1. /\ DOMAIN get = Getters /\ UNCHANGED <<work, resp>> /\ get[g].pc \in Early
      /\ OneAnswerEach(work'[g], resp'[g]) /\ dag \subseteq Nodes
  BY DEF GetBlock, Called, CallInv, Early
<1>2. \/ FailMissing(g, get[g].cid)
      \/ ~Decodes(get[g].cid) /\ Fail(g, "decode")
      \/ get[g].cid \in dag /\ Decodes(get[g].cid) /\ Goto(g, "verify")
  BY DEF GetBlock
<1>3. CASE FailMissing(g, get[g].cid)
  <2>1. "missing" \notin Judged
    BY DEF Judged
  <2> QED
    BY <1>1, <1>3, <2>1, FailStep
<1>4. CASE ~Decodes(get[g].cid) /\ Fail(g, "decode")
  <2>1. \A r \in RightfulRecs(get[g].path) : get[g].cid # RecordCid(r)
    BY <1>4, RightfulBlock
  <2> QED
    BY <1>1, <1>4, <2>1, FailStep
<1>5. CASE get[g].cid \in dag /\ Decodes(get[g].cid) /\ Goto(g, "verify")
  <2>1. "verify" \in Early /\ "verify" # "pubk" /\ "verify" # "cert"
    BY DEF Early
  <2> QED
    BY <1>1, <1>5, <2>1, GotoStep
<1> QED
  BY <1>2, <1>3, <1>4, <1>5

LEMMA UnavailableStep ==
    ASSUME NEW g \in Getters, Called(g), Unavailable(g)
    PROVE  CallInv(get'[g], work'[g], resp'[g], dag)
<1>1. /\ DOMAIN get = Getters /\ Fail(g, "unavailable")
      /\ OneAnswerEach(work'[g], resp'[g])
  BY DEF Unavailable, Called, CallInv
<1>2. "unavailable" \notin Judged
  BY DEF Judged
<1> QED
  BY <1>1, <1>2, FailStep

\* The two goroutines start: both are awaited.
LEMMA StartFetches ==
    ASSUME NEW g \in Getters, Called(g), get[g].pc = "verify",
           get[g].cid.of.vfnType = VerificationType_Cert,
           get[g].cid.of.vfn.type \in {"cid", "link"},
           get' = [get EXCEPT ![g] = [pc |-> "wait", path |-> get[g].path,
                                      cid |-> get[g].cid, got |-> 0]],
           work' = [work EXCEPT ![g] = [w \in Fetches |-> "fetch"]],
           resp' = resp
    PROVE  CallInv(get'[g], work'[g], resp'[g], dag)
<1> DEFINE c == [pc |-> "wait", path |-> get[g].path, cid |-> get[g].cid, got |-> 0]
           wk == [w \in Fetches |-> "fetch"]
<1>1. /\ get'[g] = c /\ work'[g] = wk /\ resp'[g] = <<>>
      /\ get[g].cid \in Nodes /\ Decodes(get[g].cid)
  BY DEF Called, CallInv, Stage, Early, Fetched
<1>2. /\ c.pc = "wait" /\ c.path = get[g].path /\ c.cid = get[g].cid /\ c.got = 0
      /\ c = [pc |-> c.pc, path |-> c.path, cid |-> c.cid, got |-> c.got]
  OBVIOUS
<1>3. wk \in [Fetches -> {"fetch"}]
  OBVIOUS
<1> HIDE DEF c, wk
<1>4. OneAnswerEach(wk, <<>>)
  <2>1. <<>> \in Seq([from : Fetches, res : Results]) /\ Len(<<>>) = 0
    OBVIOUS
  <2> QED
    BY <1>3, <2>1 DEF OneAnswerEach
<1>5. Stage(c, dag) /\ c.pc \notin Early
  BY <1>1, <1>2 DEF Stage, Early, Waiting, Fetched
<1>6. EndsRight(c)
  BY <1>2 DEF EndsRight
<1>7. Waits(c, wk, <<>>, dag)
  <2>1. \A w \in Fetches : Awaited(wk, <<>>, w) /\ wk[w] = "fetch"
    BY <1>3 DEF Awaited
  <2>2. Answered(wk, <<>>) = 0
    BY <2>1 DEF Answered, Fetches
  <2>3. \A w \in Fetches : IsTrue(c, w, wk[w], dag)
    BY <2>1 DEF IsTrue
  <2>4. Len(<<>>) = 0
    OBVIOUS
  <2> QED
    BY <1>2, <2>1, <2>2, <2>3, <2>4 DEF Waits
<1> QED
  BY <1>1, <1>4, <1>5, <1>6, <1>7 DEF CallInv

LEMMA VerifyStep ==
    ASSUME NEW g \in Getters, Called(g), Verify(g)
    PROVE  CallInv(get'[g], work'[g], resp'[g], dag)
<1> DEFINE b == get[g].cid.of
<1>1. /\ DOMAIN get = Getters /\ resp' = resp
      /\ get[g].pc = "verify" /\ get[g].pc \in Early
      /\ OneAnswerEach(work[g], resp[g])
      /\ get[g].cid \in Nodes /\ Decodes(get[g].cid)
  BY DEF Verify, Called, CallInv, Stage, Early, Fetched
<1>2. ASSUME Fail(g, "type"), UNCHANGED work,
             \/ b.vfnType \notin {VerificationType_Key, VerificationType_Cert}
             \/ b.vfnType = VerificationType_Cert /\ b.vfn.type \notin {"cid", "link"}
      PROVE  CallInv(get'[g], work'[g], resp'[g], dag)
  <2>1. \A r \in RightfulRecs(get[g].path) : get[g].cid # RecordCid(r)
    BY <1>2, RightfulBlock
  <2>2. OneAnswerEach(work'[g], resp'[g])
    BY <1>1, <1>2
  <2> QED
    BY <1>1, <1>2, <2>1, <2>2, FailStep
<1>3. ASSUME Goto(g, "pubk"), UNCHANGED work, b.vfnType = VerificationType_Key
      PROVE  CallInv(get'[g], work'[g], resp'[g], dag)
  <2>1. "pubk" \in Early /\ "pubk" # "cert"
    BY DEF Early
  <2> QED
    BY <1>1, <1>3, <2>1, GotoStep
<1>4. ASSUME Goto(g, "cert"), UNCHANGED work, b.vfnType = VerificationType_Cert,
             b.vfn.type \in {"cid", "link"}, toCid(b.vfn) = get[g].path.cid
      PROVE  CallInv(get'[g], work'[g], resp'[g], dag)
  <2>1. "cert" \in Early /\ "pubk" # "cert"
    BY DEF Early
  <2> QED
    BY <1>1, <1>4, <2>1, GotoStep
<1> QED
  BY <1>1, <1>2, <1>3, <1>4, StartFetches DEF Verify

LEMMA VerifyKeyStep ==
    ASSUME NEW g \in Getters, Called(g), VerifyKey(g)
    PROVE  CallInv(get'[g], work'[g], resp'[g], dag)
<1> DEFINE k == get[g].path.cid
           c == get[g].cid
<1>1. /\ DOMAIN get = Getters /\ UNCHANGED <<work, resp>>
      /\ OneAnswerEach(work'[g], resp'[g]) /\ dag \subseteq Nodes
      /\ c \in Nodes /\ Decodes(c) /\ c.of.vfnType = VerificationType_Key
  BY DEF VerifyKey, Called, CallInv, Stage, Fetched
<1>2. \/ k.codec # "pubk" /\ Fail(g, "codec")
      \/ FailMissing(g, k)
      \/ ~KeySignatureOk(k.of, c.of) /\ Fail(g, "signature")
      \/ k.codec = "pubk" /\ k \in dag /\ KeySignatureOk(k.of, c.of) /\ Finish(g)
  BY DEF VerifyKey
<1>3. CASE FailMissing(g, k)
  <2>1. "missing" \notin Judged
    BY DEF Judged
  <2> QED
    BY <1>1, <1>3, <2>1, FailStep
<1>4. CASE \/ k.codec # "pubk" /\ Fail(g, "codec")
           \/ ~KeySignatureOk(k.of, c.of) /\ Fail(g, "signature")
  <2>1. ASSUME NEW r \in RightfulRecs(get[g].path), c = RecordCid(r)
        PROVE  k.codec = "pubk" /\ KeySignatureOk(k.of, c.of)
    <3>1. k = PubKeyCid(r.signer.pk) /\ KeySignatureOk(r.signer.pk, c.of)
      BY <1>1, <2>1, RightfulBlock
    <3>2. k.codec = "pubk" /\ k.of = r.signer.pk
      BY <3>1 DEF PubKeyCid
    <3> QED
      BY <3>1, <3>2
  <2> QED
    BY <1>1, <1>4, <2>1, FailStep
<1>5. CASE k.codec = "pubk" /\ k \in dag /\ KeySignatureOk(k.of, c.of) /\ Finish(g)
  <2>1. k = PubKeyCid(k.of) /\ k.of \in PrivKeys
    BY <1>1, <1>5, NodeShapes
  <2>2. IsAuthentic(get[g].path, c.of, c.of.value, getEol(c.of))
    BY <1>1, <1>5, <2>1, KeyVerified
  <2> QED
    BY <1>1, <1>5, <2>2, FinishStep
<1> QED
  BY <1>2, <1>3, <1>4, <1>5

LEMMA VerifyIssuerStep ==
    ASSUME NEW g \in Getters, Called(g), VerifyIssuer(g)
    PROVE  CallInv(get'[g], work'[g], resp'[g], dag)
<1> DEFINE i == get[g].path.cid
           c == get[g].cid
<1>1. /\ DOMAIN get = Getters /\ UNCHANGED <<work, resp>>
      /\ OneAnswerEach(work'[g], resp'[g]) /\ dag \subseteq Nodes
      /\ c \in Nodes /\ Decodes(c) /\ c.of.vfnType = VerificationType_Cert
      /\ toCid(c.of.vfn) = i
  BY DEF VerifyIssuer, Called, CallInv, Stage, Fetched
<1>2. \/ i.codec # "cert" /\ Fail(g, "codec")
      \/ FailMissing(g, i)
      \/ ~CertSignatureOk(i.of, i.of, c.of) /\ Fail(g, "signature")
      \/ i.codec = "cert" /\ i \in dag /\ CertSignatureOk(i.of, i.of, c.of) /\ Finish(g)
  BY DEF VerifyIssuer
<1>3. CASE FailMissing(g, i)
  <2>1. "missing" \notin Judged
    BY DEF Judged
  <2> QED
    BY <1>1, <1>3, <2>1, FailStep
<1>4. CASE \/ i.codec # "cert" /\ Fail(g, "codec")
           \/ ~CertSignatureOk(i.of, i.of, c.of) /\ Fail(g, "signature")
  <2>1. ASSUME NEW r \in RightfulRecs(get[g].path), c = RecordCid(r)
        PROVE  i.codec = "cert" /\ CertSignatureOk(i.of, i.of, c.of)
    <3>1. PICK ca \in Certs : i = CertCid(ca) /\ CertSignatureOk(r.signer.cert, ca, c.of)
      BY <1>1, <2>1, RightfulBlock
    <3>2. i = CertCid(r.signer.cert)
      BY <1>1, <2>1, RightfulBlock
    <3>3. i.codec = "cert" /\ i.of = ca /\ i.of = r.signer.cert
      BY <3>1, <3>2 DEF CertCid
    <3> QED
      BY <3>1, <3>3
  <2> QED
    BY <1>1, <1>4, <2>1, FailStep
<1>5. CASE i.codec = "cert" /\ i \in dag /\ CertSignatureOk(i.of, i.of, c.of) /\ Finish(g)
  <2>1. i = CertCid(i.of) /\ i.of \in Certs
    BY <1>1, <1>5, NodeShapes
  <2>2. IsAuthentic(get[g].path, c.of, c.of.value, getEol(c.of))
    BY <1>1, <1>5, <2>1, CertVerified
  <2> QED
    BY <1>1, <1>5, <2>2, FinishStep
<1> QED
  BY <1>2, <1>3, <1>4, <1>5

\* A goroutine's fetch tells the truth about its certificate.
LEMMA FetchStep ==
    ASSUME NEW g \in Getters, Called(g), NEW w \in Fetches, FetchCert(g, w)
    PROVE  CallInv(get'[g], work'[g], resp'[g], dag)
<1> DEFINE c == get[g]
           wk == work[g]
           rs == resp[g]
           i == FetchCid(g, w)
<1>1. /\ DOMAIN work = Getters /\ get' = get /\ resp' = resp
      /\ CallInv(c, wk, rs, dag) /\ OneAnswerEach(wk, rs)
      /\ wk \in [Fetches -> Results \cup {"off", "fetch"}]
      /\ wk[w] = "fetch"
  BY DEF FetchCert, Called, CallInv, OneAnswerEach
<1>2. PICK res \in Results : /\ work' = [work EXCEPT ![g][w] = res]
                             /\ res = "ok" => i.codec = "cert" /\ i \in dag
                             /\ res = "codec" => i.codec # "cert"
  BY DEF FetchCert, Results
<1>3. i = FetchOf(c, w)
  BY DEF FetchCid, FetchOf
<1> DEFINE wk2 == work'[g]
<1>4. wk2 = [wk EXCEPT ![w] = res]
  BY <1>1, <1>2
<1> HIDE DEF wk, wk2, rs, c, i
<1>5. /\ wk2 \in [Fetches -> Results \cup {"off", "fetch"}] /\ wk2[w] = res
      /\ \A x \in Fetches : x # w => wk2[x] = wk[x]
  BY <1>1, <1>4
<1>6. res # "off" /\ wk[w] # "off"
  BY <1>1 DEF Results
<1>7. OneAnswerEach(wk2, rs)
  <2>1. ASSUME NEW j \in 1..Len(rs) PROVE wk2[rs[j].from] = "off"
    <3>1. rs[j].from \in Fetches
      <4> DEFINE A == [from : Fetches, res : Results]
      <4>1. rs \in Seq(A)
        BY <1>1 DEF OneAnswerEach
      <4> HIDE DEF A
      <4>2. rs[j] \in A
        BY <4>1, ElementOfSeq
      <4> QED
        BY <4>2 DEF A
    <3> QED
      BY <1>1, <1>5, <1>6, <3>1 DEF OneAnswerEach
  <2> QED
    BY <1>1, <1>5, <2>1 DEF OneAnswerEach
<1>8. c.pc \notin Early
  BY <1>1, <1>6 DEF CallInv
<1>9. Waits(c, wk, rs, dag) => Waits(c, wk2, rs, dag)
  <2> SUFFICES ASSUME Waits(c, wk, rs, dag) PROVE Waits(c, wk2, rs, dag)
    OBVIOUS
  <2>1. \A x \in Fetches : Awaited(wk2, rs, x) <=> Awaited(wk, rs, x)
    BY <1>5, <1>6 DEF Awaited
  <2>2. Answered(wk2, rs) = Answered(wk, rs)
    BY <2>1 DEF Answered, Fetches
  <2>3. IsTrue(c, w, res, dag)
    BY <1>2, <1>3 DEF IsTrue, Found
  <2>4. \A x \in Fetches : IsTrue(c, x, wk2[x], dag)
    BY <1>5, <2>3 DEF Waits
  <2> QED
    BY <2>1, <2>2, <2>4 DEF Waits
<1>10. CallInv(c, wk2, rs, dag)
  BY <1>1, <1>7, <1>8, <1>9 DEF CallInv
<1> QED
  BY <1>1, <1>10 DEF c, wk2, rs

\* An answer is as true in the channel as in its sender.
LEMMA AnswerStep ==
    ASSUME NEW g \in Getters, Called(g), NEW w \in Fetches, Answer(g, w)
    PROVE  CallInv(get'[g], work'[g], resp'[g], dag)
<1> DEFINE c == get[g]
           wk == work[g]
           rs == resp[g]
           wk2 == work'[g]
           rs2 == resp'[g]
<1>1. /\ get' = get /\ CallInv(c, wk, rs, dag) /\ OneAnswerEach(wk, rs)
      /\ Sends(wk, rs, w, wk2, rs2)
  <2>1. wk[w] \in Results \cup {"off", "fetch"}
    BY DEF Called, CallInv, OneAnswerEach
  <2> QED
    BY <2>1 DEF Answer, Called, CallInv, Sends
<1> HIDE DEF c, wk, rs, wk2, rs2
<1>2. /\ OneAnswerEach(wk2, rs2)
      /\ \A x \in Fetches : Awaited(wk2, rs2, x) <=> Awaited(wk, rs, x)
      /\ \A i \in 1..Len(rs2) : \/ i \in 1..Len(rs) /\ rs2[i] = rs[i]
                                \/ rs2[i].from = w /\ rs2[i].res = wk[w]
  BY <1>1, Sent
<1>3. c.pc \notin Early
  BY <1>1 DEF CallInv, Results, Sends
<1>4. Waits(c, wk, rs, dag) => Waits(c, wk2, rs2, dag)
  <2> SUFFICES ASSUME Waits(c, wk, rs, dag) PROVE Waits(c, wk2, rs2, dag)
    OBVIOUS
  <2>1. Answered(wk2, rs2) = Answered(wk, rs)
    BY <1>2 DEF Answered, Fetches
  <2>2. wk \in [Fetches -> Results \cup {"off", "fetch"}]
    BY <1>1 DEF OneAnswerEach
  <2>3. \A x \in Fetches : IsTrue(c, x, wk2[x], dag)
    <3>1. IsTrue(c, w, "off", dag)
      BY DEF IsTrue
    <3> QED
      BY <1>1, <2>2, <3>1 DEF Waits, Sends
  <2>4. \A i \in 1..Len(rs2) : IsTrue(c, rs2[i].from, rs2[i].res, dag)
    BY <1>2 DEF Waits
  <2> QED
    BY <1>2, <2>1, <2>3, <2>4 DEF Waits
<1>5. CallInv(c, wk2, rs2, dag)
  BY <1>1, <1>2, <1>3, <1>4 DEF CallInv
<1> QED
  BY <1>1, <1>5 DEF c, wk2, rs2

\* The call stops waiting for a goroutine when it has its certificate.
LEMMA AwaitStep ==
    ASSUME NEW g \in Getters, Called(g), Await(g)
    PROVE  CallInv(get'[g], work'[g], resp'[g], dag)
<1> DEFINE c == get[g]
           wk == work[g]
           rs == resp[g]
           w == Head(rs).from
           res == Head(rs).res
           rs2 == Tail(rs)
<1>1. /\ DOMAIN get = Getters /\ CallInv(c, wk, rs, dag) /\ OneAnswerEach(wk, rs)
      /\ c.pc = "wait" /\ rs # <<>>
      /\ work'[g] = wk /\ resp'[g] = rs2
      /\ dag \subseteq Nodes
  BY DEF Await, Called, CallInv
<1>2. Waits(c, wk, rs, dag) /\ c.pc \in Waiting /\ c.pc \in Fetched
      /\ c = [pc |-> "wait", path |-> c.path, cid |-> c.cid, got |-> c.got]
  <2>1. c.pc \in Waiting /\ c.pc \in Fetched
    BY <1>1 DEF Waiting, Fetched
  <2> QED
    BY <1>1, <2>1 DEF CallInv, Stage
<1>3. \/ /\ res = "ok"
         /\ get' = [get EXCEPT ![g].got = @ + 1,
                               ![g].pc = IF get[g].got = 1 THEN "check" ELSE "wait"]
      \/ FailMissing(g, FetchCid(g, w))
      \/ Fail(g, res)
  BY DEF Await
<1>4. /\ Head(rs) = rs[1] /\ 1 \in 1..Len(rs) /\ w \in Fetches
      /\ OneAnswerEach(wk, rs2)
      /\ ~Awaited(wk, rs2, w)
      /\ \A x \in Fetches : x # w => (Awaited(wk, rs2, x) <=> Awaited(wk, rs, x))
      /\ \A i \in 1..Len(rs2) : i + 1 \in 1..Len(rs) /\ rs2[i] = rs[i + 1]
  <2>1. OneAnswerEach(wk, rs) /\ rs # <<>>
    BY <1>1
  <2> HIDE DEF wk, rs
  <2> QED
    BY <2>1, Received
<1>5. IsTrue(c, w, res, dag)
  BY <1>2, <1>4 DEF Waits
<1>6. OneAnswerEach(work'[g], resp'[g])
  BY <1>1, <1>4
<1>7. CASE FailMissing(g, FetchCid(g, w))
  <2>1. "missing" \notin Judged
    BY DEF Judged
  <2> QED
    BY <1>1, <1>6, <1>7, <2>1, FailStep
<1>8. CASE Fail(g, res)
  <2>1. res \in Judged => res = "codec"
    <3>1. res \in Results
      <4> DEFINE A == [from : Fetches, res : Results]
      <4>1. rs \in Seq(A)
        BY <1>1 DEF OneAnswerEach
      <4> HIDE DEF A
      <4>2. rs[1] \in A
        BY <1>4, <4>1, ElementOfSeq
      <4> QED
        BY <1>4, <4>2 DEF A
    <3> QED
      BY <3>1 DEF Results, Judged
  <2>2. ASSUME res = "codec", NEW r \in RightfulRecs(c.path), c.cid = RecordCid(r) PROVE FALSE
    <3>1. FetchOf(c, w).codec # "cert"
      BY <1>5, <2>2 DEF IsTrue
    <3>2. c.cid.of.vfnType = VerificationType_Cert
      BY <1>1, <1>2 DEF CallInv, Stage
    <3>3. /\ toCid(c.cid.of.vfn) = CertCid(r.signer.cert)
          /\ \E ca \in Certs : c.path.cid = CertCid(ca)
      BY <2>2, <3>2, RightfulBlock
    <3> QED
      BY <3>1, <3>3 DEF FetchOf, CertCid
  <2> QED
    BY <1>1, <1>6, <1>8, <2>1, <2>2, FailStep
<1>9. CASE /\ res = "ok"
           /\ get' = [get EXCEPT ![g].got = @ + 1,
                                 ![g].pc = IF get[g].got = 1 THEN "check" ELSE "wait"]
  <2> DEFINE pc == IF c.got = 1 THEN "check" ELSE "wait"
             c2 == [pc |-> pc, path |-> c.path, cid |-> c.cid, got |-> c.got + 1]
  <2>1. get'[g] = c2
    <3> HIDE DEF pc, res
    <3>1. get'[g] = [c EXCEPT !.got = c.got + 1, !.pc = pc]
      BY <1>1, <1>9 DEF pc
    <3> DEFINE p == c.path
               i == c.cid
               n == c.got
               m == n + 1
    <3>2. c = [pc |-> "wait", path |-> p, cid |-> i, got |-> n]
      BY <1>2
    <3> HIDE DEF c, p, i, n, m
    <3>3. get'[g] = [[pc |-> "wait", path |-> p, cid |-> i, got |-> n]
                        EXCEPT !.got = m, !.pc = pc]
      BY <3>1, <3>2 DEF m, n
    <3> DEFINE z == get'[g]
    <3>4. z = [[pc |-> "wait", path |-> p, cid |-> i, got |-> n] EXCEPT !.got = m, !.pc = pc]
      BY <3>3
    <3> HIDE DEF z
    <3>5. z = [pc |-> pc, path |-> p, cid |-> i, got |-> m]
      BY <3>4
    <3> QED
      BY <3>5 DEF z, p, i, m, n
  <2>2. /\ c2.pc = pc /\ c2.path = c.path /\ c2.cid = c.cid /\ c2.got = c.got + 1
        /\ c2 = [pc |-> c2.pc, path |-> c2.path, cid |-> c2.cid, got |-> c2.got]
    OBVIOUS
  <2> HIDE DEF c2
  <2>3. c2.pc \in Waiting /\ c2.pc \notin Early /\ c2.pc \in Fetched
        /\ c2.pc # "ok" /\ c2.pc # "failed"
    BY <2>2 DEF Waiting, Early, Fetched
  <2>4. Stage(c2, dag)
    <3>1. c.cid \in Nodes /\ Decodes(c.cid) /\ c.cid.of.vfnType = VerificationType_Cert
          /\ c.cid.of.vfn.type \in {"cid", "link"}
      BY <1>1, <1>2 DEF CallInv, Stage
    <3> QED
      BY <2>2, <2>3, <3>1 DEF Stage, Waiting
  <2>5. \A x, q : (IsTrue(c2, x, q, dag) <=> IsTrue(c, x, q, dag))
                  /\ (Found(c2, x, dag) <=> Found(c, x, dag))
    BY <2>2 DEF IsTrue, Found, FetchOf
  <2>6. Found(c, w, dag)
    BY <1>5, <1>9 DEF IsTrue
  <2>7. Awaited(wk, rs, w)
    BY <1>4 DEF Awaited
  <2>8. c.got \in {0, 1} /\ Answered(wk, rs2) = c.got + 1
    <3>1. c.got = Answered(wk, rs)
      BY <1>2 DEF Waits
    <3>2. w = "cert" \/ w = "issuer"
      BY <1>4 DEF Fetches
    <3>3. CASE w = "cert"
      BY <1>4, <2>7, <3>1, <3>3 DEF Answered, Fetches
    <3>4. CASE w = "issuer"
      BY <1>4, <2>7, <3>1, <3>4 DEF Answered, Fetches
    <3> QED
      BY <3>2, <3>3, <3>4
  <2>9. c2.pc = "check" <=> c2.got = 2
    BY <2>2, <2>8
  <2>10. Waits(c2, wk, rs2, dag)
    <3>1. \A x \in Fetches : IsTrue(c2, x, wk[x], dag)
      BY <1>2, <2>5 DEF Waits
    <3>2. \A i \in 1..Len(rs2) : IsTrue(c2, rs2[i].from, rs2[i].res, dag)
      BY <1>2, <1>4, <2>5 DEF Waits
    <3>3. \A x \in Fetches : Awaited(wk, rs2, x) \/ Found(c2, x, dag)
      BY <1>2, <1>4, <2>5, <2>6 DEF Waits
    <3> QED
      BY <2>2, <2>8, <2>9, <3>1, <3>2, <3>3 DEF Waits
  <2>11. EndsRight(c2)
    BY <2>3 DEF EndsRight
  <2> QED
    BY <1>1, <1>6, <2>1, <2>3, <2>4, <2>10, <2>11 DEF CallInv
<1> QED
  BY <1>3, <1>7, <1>8, <1>9

LEMMA CheckStep ==
    ASSUME NEW g \in Getters, Called(g), CheckCerts(g)
    PROVE  CallInv(get'[g], work'[g], resp'[g], dag)
<1> DEFINE c == get[g]
           x == toCid(c.cid.of.vfn)
           i == c.path.cid
<1>1. /\ DOMAIN get = Getters /\ UNCHANGED <<work, resp>>
      /\ OneAnswerEach(work'[g], resp'[g]) /\ dag \subseteq Nodes
      /\ c.cid \in Nodes /\ Decodes(c.cid) /\ c.cid.of.vfnType = VerificationType_Cert
      /\ c.pc = "check" /\ Waits(c, work[g], resp[g], dag)
  BY DEF CheckCerts, Called, CallInv, Stage, Fetched, Waiting
<1>2. FetchCid(g, "cert") = x /\ FetchCid(g, "issuer") = i
  BY DEF FetchCid
<1>3. Found(c, "cert", dag) /\ Found(c, "issuer", dag)
  <2>1. Answered(work[g], resp[g]) = 2
    BY <1>1 DEF Waits
  <2>2. ~Awaited(work[g], resp[g], "cert") /\ ~Awaited(work[g], resp[g], "issuer")
    BY <2>1 DEF Answered
  <2> QED
    BY <1>1, <2>2 DEF Waits, Fetches
<1>4. x \in dag /\ x.codec = "cert" /\ i \in dag /\ i.codec = "cert"
  BY <1>3 DEF Found, FetchOf
<1>5. x = CertCid(x.of) /\ x.of \in Certs /\ i = CertCid(i.of) /\ i.of \in Certs
  BY <1>1, <1>4, NodeShapes
<1>6. CASE CertSignatureOk(x.of, i.of, c.cid.of)
  <2>1. Finish(g)
    BY <1>2, <1>6 DEF CheckCerts
  <2>2. IsAuthentic(c.path, c.cid.of, c.cid.of.value, getEol(c.cid.of))
    BY <1>1, <1>5, <1>6, CertVerified
  <2> QED
    BY <1>1, <2>1, <2>2, FinishStep
<1>7. CASE ~CertSignatureOk(x.of, i.of, c.cid.of)
  <2>1. Fail(g, "signature")
    BY <1>2, <1>7 DEF CheckCerts
  <2>2. ASSUME NEW r \in RightfulRecs(c.path), c.cid = RecordCid(r) PROVE FALSE
    <3>1. PICK ca \in Certs : i = CertCid(ca) /\ CertSignatureOk(r.signer.cert, ca, c.cid.of)
      BY <1>1, <2>2, RightfulBlock
    <3>2. x = CertCid(r.signer.cert)
      BY <1>1, <2>2, RightfulBlock
    <3>3. i.of = ca /\ x.of = r.signer.cert
      BY <3>1, <3>2 DEF CertCid
    <3> QED
      BY <1>7, <3>1, <3>3
  <2> QED
    BY <1>1, <2>1, <2>2, FailStep
<1> QED
  BY <1>6, <1>7

-----------------------------------------------------------------------------
(***************************************************************************)
(* The invariant of the system.                                            *)
(***************************************************************************)
Refs == {RecordCid(r) : r \in Recs} \cup {None} \cup {f.ref : f \in ForeignPuts}

SysInv ==
    /\ DOMAIN get = Getters /\ DOMAIN work = Getters /\ DOMAIN resp = Getters
    /\ DOMAIN pub = Publishers
    /\ dag \subseteq Nodes
    /\ vstore \in [Paths -> Refs]
    /\ \A u \in Publishers : pub[u] = Idle \/ pub[u] \in Jobs
    /\ \A g \in Getters : CallInv(get[g], work[g], resp[g], dag)

GetterStep(g) ==
    \/ \E p \in Paths : Resolve(g, p)
    \/ CallStep(g)
    \/ \E w \in Fetches : WorkStep(g, w)

\* A step of one getter leaves the others and the two services alone.
LEMMA GetterFrame ==
    ASSUME SysInv, NEW g \in Getters, GetterStep(g)
    PROVE  /\ DOMAIN get' = Getters /\ DOMAIN work' = Getters /\ DOMAIN resp' = Getters
           /\ UNCHANGED <<dag, vstore>>
           /\ \A h \in Getters \ {g} :
                get'[h] = get[h] /\ work'[h] = work[h] /\ resp'[h] = resp[h]
<1> DEFINE Only(f, f2) == DOMAIN f2 = Getters /\ \A h \in Getters \ {g} : f2[h] = f[h]
<1>1. DOMAIN get = Getters /\ DOMAIN work = Getters /\ DOMAIN resp = Getters
  BY DEF SysInv
<1>2. ASSUME NEW f, DOMAIN f = Getters, NEW x PROVE Only(f, [f EXCEPT ![g] = x])
  BY <1>2
<1>3. ASSUME NEW f, DOMAIN f = Getters PROVE Only(f, f)
  BY <1>3
<1>4. ASSUME NEW pc, Goto(g, pc) PROVE Only(get, get')
  BY <1>1, <1>4 DEF Goto
<1>5. ASSUME NEW why, Fail(g, why) PROVE Only(get, get')
  BY <1>1, <1>5 DEF Fail
<1>6. ASSUME NEW c, FailMissing(g, c) PROVE Only(get, get')
  BY <1>1, <1>6 DEF FailMissing
<1>7. ASSUME Finish(g) PROVE Only(get, get')
  <2>1. CASE get[g].cid.of.value \in Targets
    BY <1>1, <1>7, <2>1 DEF Finish
  <2>2. CASE get[g].cid.of.value \notin Targets
    BY <1>5, <1>7, <2>2 DEF Finish
  <2> QED
    BY <2>1, <2>2
<1>8. UNCHANGED <<dag, vstore>>
  BY DEF GetterStep, CallStep, WorkStep, Resolve, GetRef, GetBlock, Unavailable, Verify,
         VerifyKey, VerifyIssuer, Await, CheckCerts, FetchCert, Answer
<1>9. Only(get, get')
  <2>1. ASSUME NEW p \in Paths, Resolve(g, p) PROVE Only(get, get')
    BY <1>1, <2>1 DEF Resolve
  <2>2. CASE GetRef(g)
    <3>1. \/ Fail(g, "notfound") \/ Fail(g, "cast")
          \/ get' = [get EXCEPT ![g].pc = "block", ![g].cid = vstore[BasePath(get[g].path)]]
      BY <2>2 DEF GetRef
    <3> QED
      BY <1>1, <1>5, <3>1
  <2>3. CASE GetBlock(g)
    <3>1. FailMissing(g, get[g].cid) \/ Fail(g, "decode") \/ Goto(g, "verify")
      BY <2>3 DEF GetBlock
    <3> QED
      BY <1>4, <1>5, <1>6, <3>1
  <2>4. CASE Unavailable(g)
    BY <1>5, <2>4 DEF Unavailable
  <2>5. CASE Verify(g)
    <3>1. \/ Fail(g, "type") \/ Goto(g, "pubk") \/ Goto(g, "cert")
          \/ get' = [get EXCEPT ![g] = [pc |-> "wait", path |-> get[g].path,
                                        cid |-> get[g].cid, got |-> 0]]
      BY <2>5 DEF Verify
    <3> QED
      BY <1>1, <1>4, <1>5, <3>1
  <2>6. CASE VerifyKey(g)
    <3>1. \/ Fail(g, "codec") \/ FailMissing(g, get[g].path.cid)
          \/ Fail(g, "signature") \/ Finish(g)
      BY <2>6 DEF VerifyKey
    <3> QED
      BY <1>5, <1>6, <1>7, <3>1
  <2>7. CASE VerifyIssuer(g)
    <3>1. \/ Fail(g, "codec") \/ FailMissing(g, get[g].path.cid)
          \/ Fail(g, "signature") \/ Finish(g)
      BY <2>7 DEF VerifyIssuer
    <3> QED
      BY <1>5, <1>6, <1>7, <3>1
  <2>8. CASE Await(g)
    <3>1. \/ get' = [get EXCEPT ![g].got = @ + 1,
                                ![g].pc = IF get[g].got = 1 THEN "check" ELSE "wait"]
          \/ FailMissing(g, FetchCid(g, Head(resp[g]).from))
          \/ Fail(g, Head(resp[g]).res)
      BY <2>8 DEF Await
    <3> QED
      BY <1>1, <1>5, <1>6, <3>1
  <2>9. CASE CheckCerts(g)
    <3>1. Finish(g) \/ Fail(g, "signature")
      BY <2>9 DEF CheckCerts
    <3> QED
      BY <1>5, <1>7, <3>1
  <2>10. ASSUME NEW w \in Fetches, WorkStep(g, w) PROVE Only(get, get')
    BY <1>1, <2>10 DEF WorkStep, FetchCert, Answer
  <2> QED
    BY <2>1, <2>2, <2>3, <2>4, <2>5, <2>6, <2>7, <2>8, <2>9, <2>10 DEF GetterStep, CallStep
<1>10. Only(work, work') /\ Only(resp, resp')
  <2>1. ASSUME NEW p \in Paths, Resolve(g, p) PROVE Only(work, work') /\ Only(resp, resp')
    BY <1>1, <2>1 DEF Resolve
  <2>2. CASE Verify(g)
    <3>1. resp' = resp /\ (work' = work
                           \/ work' = [work EXCEPT ![g] = [w \in Fetches |-> "fetch"]])
      BY <2>2 DEF Verify
    <3> QED
      BY <1>1, <3>1
  <2>3. CASE Await(g)
    BY <1>1, <2>3 DEF Await
  <2>4. CASE \/ GetRef(g) \/ GetBlock(g) \/ Unavailable(g) \/ VerifyKey(g)
             \/ VerifyIssuer(g) \/ CheckCerts(g)
    <3>1. work' = work /\ resp' = resp
      BY <2>4 DEF GetRef, GetBlock, Unavailable, VerifyKey, VerifyIssuer, CheckCerts
    <3> QED
      BY <1>1, <3>1
  <2>5. ASSUME NEW w \in Fetches, FetchCert(g, w) PROVE Only(work, work') /\ Only(resp, resp')
    BY <1>1, <2>5 DEF FetchCert
  <2>6. ASSUME NEW w \in Fetches, Answer(g, w) PROVE Only(work, work') /\ Only(resp, resp')
    BY <1>1, <2>6 DEF Answer
  <2> QED
    BY <2>1, <2>2, <2>3, <2>4, <2>5, <2>6 DEF GetterStep, CallStep, WorkStep
<1> QED
  BY <1>8, <1>9, <1>10

LEMMA GetterInvStep ==
    ASSUME SysInv, NEW g \in Getters, GetterStep(g), UNCHANGED <<pub, acked>>
    PROVE  SysInv'
<1>1. Called(g)
  BY DEF SysInv, Called
<1>2. CallInv(get'[g], work'[g], resp'[g], dag)
  BY <1>1, ResolveStep, GetRefStep, GetBlockStep, UnavailableStep, VerifyStep,
     VerifyKeyStep, VerifyIssuerStep, AwaitStep, CheckStep, FetchStep, AnswerStep
     DEF GetterStep, CallStep, WorkStep
<1>3. \A h \in Getters : CallInv(get'[h], work'[h], resp'[h], dag')
  <2> SUFFICES ASSUME NEW h \in Getters PROVE CallInv(get'[h], work'[h], resp'[h], dag)
    BY GetterFrame
  <2>1. CASE h = g
    BY <1>2, <2>1
  <2>2. CASE h # g
    <3>1. get'[h] = get[h] /\ work'[h] = work[h] /\ resp'[h] = resp[h]
      BY <2>2, GetterFrame
    <3> QED
      BY <3>1 DEF SysInv
  <2> QED
    BY <2>1, <2>2
<1> QED
  BY <1>3, GetterFrame DEF SysInv

\* The DAG grows by a record's nodes, and the value store refers to records.
LEMMA PublisherInvStep ==
    ASSUME SysInv, PubNext, UNCHANGED getVars
    PROVE  SysInv'
<1>1. PICK u \in Publishers : PublishStep(u)
  BY DEF PubNext
<1>2. /\ DOMAIN pub = Publishers /\ dag \subseteq Nodes /\ vstore \in [Paths -> Refs]
      /\ \A v \in Publishers : pub[v] = Idle \/ pub[v] \in Jobs
  BY DEF SysInv
<1>3. pub[u].pc \in {"nodes", "ref"} => pub[u].rec \in Recs
  BY <1>2 DEF Idle, Jobs
<1>4. \A r \in Recs : Closure(r) \subseteq Nodes /\ RecordCid(r) \in Refs
  BY DEF Nodes, Cids, Refs
<1>5. dag \subseteq dag' /\ dag' \subseteq Nodes
  BY <1>1, <1>2, <1>3, <1>4 DEF PublishStep, Publish, publishRecord, publishRecordFails,
                                publishRecordRef, publishRecordRefFails, Crash
<1>6. vstore' \in [Paths -> Refs]
  BY <1>1, <1>2, <1>3, <1>4 DEF PublishStep, Publish, publishRecord, publishRecordFails,
                                publishRecordRef, publishRecordRefFails, Crash
<1>7. DOMAIN pub' = Publishers /\ \A v \in Publishers : pub'[v] = Idle \/ pub'[v] \in Jobs
  <2>1. CASE \E p \in Paths, r \in Recs : Publish(u, p, r)
    BY <1>2, <2>1 DEF Publish, Jobs
  <2>2. CASE publishRecord(u)
    <3>1. pub[u] \in Jobs
      BY <1>2, <2>2 DEF publishRecord, Idle
    <3>2. [pub[u] EXCEPT !.pc = "ref"] \in Jobs
      BY <3>1 DEF Jobs
    <3> QED
      BY <1>2, <2>2, <3>2 DEF publishRecord
  <2>3. CASE publishRecordFails(u) \/ publishRecordRef(u) \/ publishRecordRefFails(u)
             \/ Crash(u)
    <3>1. pub' = [pub EXCEPT ![u] = Idle]
      BY <2>3 DEF publishRecordFails, publishRecordRef, publishRecordRefFails, Crash
    <3> QED
      BY <1>2, <3>1
  <2> QED
    BY <1>1, <2>1, <2>2, <2>3 DEF PublishStep
<1>8. \A g \in Getters : CallInv(get'[g], work'[g], resp'[g], dag')
  BY <1>5, MoreNodes DEF SysInv, getVars
<1> QED
  BY <1>5, <1>6, <1>7, <1>8 DEF SysInv, getVars

LEMMA ForeignInvStep ==
    ASSUME SysInv, NEW f \in ForeignPuts, ForeignPut(f), UNCHANGED getVars
    PROVE  SysInv'
<1>1. f.ref \in Refs /\ vstore \in [Paths -> Refs]
  BY DEF Refs, SysInv
<1>2. vstore' \in [Paths -> Refs]
  BY <1>1 DEF ForeignPut
<1> QED
  BY <1>2 DEF SysInv, ForeignPut, getVars

LEMMA InitInv == Init => SysInv
<1> SUFFICES ASSUME Init PROVE SysInv
  OBVIOUS
<1>1. /\ get = [g \in Getters |-> NoCall] /\ resp = [g \in Getters |-> <<>>]
      /\ work = [g \in Getters |-> [w \in Fetches |-> "off"]]
      /\ dag = ForeignBlocks /\ vstore = [p \in Paths |-> None]
      /\ pub = [u \in Publishers |-> Idle]
  BY DEF Init, GetInit
<1>2. CallInv(NoCall, [w \in Fetches |-> "off"], <<>>, dag)
  <2> DEFINE wk == [w \in Fetches |-> "off"]
  <2>1. wk \in [Fetches -> {"off"}] /\ NoCall.pc = "idle"
    BY DEF NoCall
  <2>2. <<>> \in Seq([from : Fetches, res : Results]) /\ Len(<<>>) = 0
    OBVIOUS
  <2> HIDE DEF wk
  <2>3. OneAnswerEach(wk, <<>>)
    BY <2>1, <2>2 DEF OneAnswerEach
  <2>4. Stage(NoCall, dag) /\ EndsRight(NoCall)
    BY <2>1 DEF Stage, EndsRight, Early, Waiting, Fetched
  <2> QED
    BY <2>1, <2>3, <2>4 DEF CallInv, Early, Waiting, wk
<1>3. None \in Refs /\ ForeignBlocks \subseteq Nodes
  BY DEF Refs, Nodes
<1> QED
  BY <1>1, <1>2, <1>3 DEF SysInv

\* The invariant of every call and of the two services holds in every state,
\* whatever publishers and other peers do between a resolver's reads.
THEOREM RecordSystemInvariant == Spec => []SysInv
<1>1. SysInv /\ [Next]_vars => SysInv'
  <2> SUFFICES ASSUME SysInv, [Next]_vars PROVE SysInv'
    OBVIOUS
  <2>1. CASE PubNext /\ UNCHANGED getVars
    BY <2>1, PublisherInvStep
  <2>2. CASE GetNext /\ UNCHANGED <<pub, acked>>
    <3>1. PICK g \in Getters : GetterStep(g)
      BY <2>2 DEF GetNext, GetterStep
    <3> QED
      BY <2>2, <3>1, GetterInvStep
  <2>3. CASE \E f \in ForeignPuts : ForeignPut(f) /\ UNCHANGED getVars
    BY <2>3, ForeignInvStep
  <2>4. CASE UNCHANGED vars
    BY <2>4 DEF SysInv, vars
  <2> QED
    BY <2>1, <2>2, <2>3, <2>4 DEF Next
<1> QED
  BY <1>1, InitInv, PTL DEF Spec

-----------------------------------------------------------------------------
(***************************************************************************)
(* Types: the DAG holds records, their signers' nodes and what others put, *)
(* and the channel of getCerts never holds more answers than there are     *)
(* goroutines (cert.go:153-188).                                           *)
(***************************************************************************)
THEOREM SystemTypeCorrect == Spec => []SysTypeOK
<1>1. SysInv => SysTypeOK
  <2> SUFFICES ASSUME SysInv PROVE SysTypeOK
    OBVIOUS
  <2>1. /\ dag \subseteq ForeignBlocks \cup Cids
        /\ vstore \in [Paths -> {RecordCid(r) : r \in Recs} \cup {None}
                                \cup {f.ref : f \in ForeignPuts}]
        /\ \A u \in Publishers : pub[u] = Idle \/ pub[u] \in Jobs
    BY DEF SysInv, Nodes, Refs
  <2>2. Cardinality(Fetches) = 2
    <3>1. Fetches = {"issuer"} \cup {"cert"} /\ "cert" \notin {"issuer"}
      BY DEF Fetches
    <3>2. IsFiniteSet({"issuer"}) /\ Cardinality({"issuer"}) = 1
      BY FS_Singleton
    <3> QED
      BY <3>1, <3>2, FS_AddElement
  <2>3. ASSUME NEW g \in Getters
        PROVE  /\ get[g].pc \in {"idle", "ref", "block", "verify", "pubk", "cert", "wait",
                                 "check", "ok", "failed"}
               /\ \A w \in Fetches :
                    work[g][w] \in {"off", "fetch", "ok", "codec", "missing", "unavailable"}
               /\ Len(resp[g]) <= 2
    <3> DEFINE rs == resp[g]
    <3>1. Stage(get[g], dag) /\ OneAnswerEach(work[g], rs)
      BY DEF SysInv, CallInv
    <3>2. get[g].pc \in {"idle", "ref", "block", "verify", "pubk", "cert", "wait",
                         "check", "ok", "failed"}
      BY <3>1 DEF Stage, Early, Waiting
    <3>3. \A w \in Fetches :
            work[g][w] \in {"off", "fetch", "ok", "codec", "missing", "unavailable"}
      BY <3>1 DEF OneAnswerEach, Results
    <3> HIDE DEF rs
    <3>4. Len(rs) \in Nat
      BY <3>1 DEF OneAnswerEach
    <3>5. \A i \in 1..Len(rs) : rs[i].from \in Fetches
      <4> DEFINE A == [from : Fetches, res : Results]
      <4>1. rs \in Seq(A)
        BY <3>1 DEF OneAnswerEach
      <4> HIDE DEF A
      <4>2. \A i \in 1..Len(rs) : rs[i] \in A
        BY <4>1, ElementOfSeq
      <4> QED
        BY <4>2 DEF A
    <3>6. ASSUME Len(rs) > 2 PROVE FALSE
      <4>1. 1 \in 1..Len(rs) /\ 2 \in 1..Len(rs) /\ 3 \in 1..Len(rs)
        BY <3>4, <3>6
      <4>2. /\ rs[1].from # rs[2].from /\ rs[1].from # rs[3].from
            /\ rs[2].from # rs[3].from
        BY <3>1, <4>1 DEF OneAnswerEach
      <4>3. \A i \in {1, 2, 3} : rs[i].from = "cert" \/ rs[i].from = "issuer"
        BY <3>5, <4>1 DEF Fetches
      <4> QED
        BY <4>2, <4>3
    <3>7. Len(rs) <= 2
      BY <3>4, <3>6
    <3> QED
      BY <3>2, <3>3, <3>7 DEF rs
  <2> QED
    BY <2>1, <2>2, <2>3 DEF SysTypeOK
<1> QED
  BY <1>1, RecordSystemInvariant, PTL

(***************************************************************************)
(* The value Resolve returns is part of bytes that a key with a right to   *)
(* the path signed for a record; and where the block has that record's     *)
(* types and a validity that parses, value and end of life are those the   *)
(* record was made with, through CBOR and whichever verifier is used       *)
(* (iprs.go:83-112, sigprep.go:45-51, key.go, cert.go).                    *)
(***************************************************************************)
THEOREM ResolvedIsAuthentic == Spec => []Authentic
<1>1. SysInv => Authentic
  <2> SUFFICES ASSUME SysInv, NEW g \in Getters, get[g].pc = "ok"
               PROVE  IsAuthentic(get[g].path, get[g].cid.of, get[g].val, get[g].eol)
    BY DEF Authentic, IsAuthentic
  <2> QED
    BY DEF SysInv, CallInv, EndsRight
<1> QED
  BY <1>1, RecordSystemInvariant, PTL

(***************************************************************************)
(* A rightful record is never turned down for what it is: it decodes, its  *)
(* types are known, and its signature is found good, although the CBOR     *)
(* codec has changed the Go types of what was signed (cert.go:88-135).     *)
(***************************************************************************)
THEOREM RightfulAccepted == Spec => []RightfulIsAccepted
<1>1. SysInv => RightfulIsAccepted
  BY DEF SysInv, CallInv, EndsRight, RightfulIsAccepted, Judged
<1> QED
  BY <1>1, RecordSystemInvariant, PTL
-----------------------------------------------------------------------------
(***************************************************************************)
(* What is published is found.                                             *)
(***************************************************************************)
Bindings ==
    /\ \A u \in Publishers : pub[u] = Idle \/ pub[u] \in Jobs
    /\ DOMAIN vstore = Paths /\ acked \subseteq Paths
    /\ \A p \in acked : vstore[p] # None

\* Nothing takes the value of an acknowledged path away.
LEMMA BindingsStay == Spec => []Bindings
<1>1. Init => Bindings
  BY DEF Init, Bindings
<1>2. SysInv /\ SysInv' /\ Bindings /\ [Next]_vars => Bindings'
  <2> SUFFICES ASSUME SysInv, SysInv', Bindings, [Next]_vars PROVE Bindings'
    OBVIOUS
  <2>1. DOMAIN vstore' = Paths /\ \A u \in Publishers : pub'[u] = Idle \/ pub'[u] \in Jobs
    BY DEF SysInv
  <2>2. CASE PubNext
    <3>1. PICK u \in Publishers : PublishStep(u)
      BY <2>2 DEF PubNext
    <3>2. pub[u].pc = "ref" => pub[u].rec \in Recs /\ pub[u].key \in Paths
      BY DEF Bindings, Idle, Jobs
    <3>3. pub[u].pc = "ref" => RecordCid(pub[u].rec) # None
      BY <3>2, ValueAssumption
    <3>4. \A p \in acked' : vstore'[p] # None
      BY <3>1, <3>2, <3>3 DEF Bindings, PublishStep, Publish, publishRecord,
         publishRecordFails, publishRecordRef, publishRecordRefFails, Crash
    <3>5. acked' \subseteq Paths
      BY <3>1, <3>2 DEF Bindings, PublishStep, Publish, publishRecord,
         publishRecordFails, publishRecordRef, publishRecordRefFails, Crash
    <3> QED
      BY <2>1, <3>4, <3>5 DEF Bindings
  <2>3. CASE GetNext /\ UNCHANGED <<pub, acked>>
    <3>1. PICK g \in Getters : GetterStep(g)
      BY <2>3 DEF GetNext, GetterStep
    <3>2. UNCHANGED vstore
      BY <3>1, GetterFrame
    <3> QED
      BY <2>1, <2>3, <3>2 DEF Bindings
  <2>4. CASE \E f \in ForeignPuts : ForeignPut(f)
    <3>1. PICK f \in ForeignPuts : ForeignPut(f)
      BY <2>4
    <3>2. \A p \in acked' : vstore'[p] # None
      BY <3>1, ValueAssumption DEF Bindings, ForeignPut
    <3>3. acked' \subseteq Paths
      BY <3>1 DEF Bindings, ForeignPut
    <3> QED
      BY <2>1, <3>2, <3>3 DEF Bindings
  <2>5. CASE UNCHANGED vars
    BY <2>5 DEF Bindings, vars
  <2> QED
    BY <2>2, <2>3, <2>4, <2>5 DEF Next
<1> QED
  BY <1>1, <1>2, RecordSystemInvariant, PTL DEF Spec

\* A call that ends with "notfound" has just found nothing at the base path.
LEMMA NothingThere ==
    ASSUME SysInv, [Next]_vars, NEW g \in Getters,
           get[g].pc = "ref", get'[g].pc = "failed", get'[g].why = "notfound"
    PROVE  vstore[BasePath(get[g].path)] = None
<1>1. get'[g] # get[g]
  OBVIOUS
<1>2. PICK h \in Getters : GetterStep(h)
  BY <1>1 DEF Next, GetNext, GetterStep, getVars, vars
<1>3. h = g
  BY <1>1, <1>2, GetterFrame
<1>4. DOMAIN get = Getters
  BY DEF SysInv
<1>5. ASSUME NEW why, Fail(g, why) PROVE why = "notfound"
  BY <1>4, <1>5 DEF Fail
<1>6. GetRef(g) \/ Unavailable(g)
  <2>1. ASSUME NEW p \in Paths, Resolve(g, p) PROVE FALSE
    BY <2>1 DEF Resolve
  <2>2. ASSUME NEW w \in Fetches, WorkStep(g, w) PROVE FALSE
    BY <1>1, <2>2 DEF WorkStep, FetchCert, Answer
  <2> QED
    BY <1>2, <1>3, <2>1, <2>2 DEF GetterStep, CallStep, GetBlock, Verify, VerifyKey,
       VerifyIssuer, Await, CheckCerts
<1>7. CASE Unavailable(g)
  BY <1>5, <1>7 DEF Unavailable
<1>8. CASE GetRef(g)
  <2> DEFINE b == vstore[BasePath(get[g].path)]
  <2>1. CASE b = None
    BY <2>1
  <2>2. CASE b # None /\ b = Junk
    <3>1. Fail(g, "cast")
      BY <1>8, <2>2 DEF GetRef
    <3> QED
      BY <1>5, <3>1
  <2>3. CASE b # None /\ b # Junk
    <3> HIDE DEF b
    <3>1. get' = [get EXCEPT ![g].pc = "block", ![g].cid = b]
      BY <1>8, <2>3 DEF GetRef, b
    <3>2. get'[g] = [get[g] EXCEPT !.pc = "block", !.cid = b]
      BY <1>4, <3>1
    <3>3. get[g] = [pc |-> get[g].pc, path |-> get[g].path, cid |-> get[g].cid]
      BY DEF SysInv, CallInv, Stage, Early
    <3>4. get'[g].pc = "block"
      BY <3>2, <3>3, Reshaped
    <3> QED
      BY <3>4
  <2> QED
    BY <2>1, <2>2, <2>3
<1> QED
  BY <1>6, <1>7, <1>8

\* Resolve reads the base path, and Publish writes the path it is given: what
\* holds of all paths is that one acknowledged at the base path is found.
THEOREM AckedBaseIsFound ==
    Spec => [][\A g \in Getters :
                   get[g].pc = "ref" /\ get'[g].pc = "failed" /\ get'[g].why = "notfound" =>
                       BasePath(get[g].path) \notin acked]_vars
<1>1. SysInv /\ Bindings /\ [Next]_vars =>
        [\A g \in Getters :
             get[g].pc = "ref" /\ get'[g].pc = "failed" /\ get'[g].why = "notfound" =>
                 BasePath(get[g].path) \notin acked]_vars
  BY NothingThere DEF Bindings
<1> QED
  BY <1>1, RecordSystemInvariant, BindingsStay, PTL DEF Spec

(***************************************************************************)
(* "Publish establishes a name-value mapping" (interface.go:28): if nobody *)
(* resolves a path that goes on below its base, no Resolve of a path whose *)
(* Publish has returned nil finds nothing there (iprs.go:95-105).          *)
(***************************************************************************)
OnlyBasePaths == \A p \in Paths : BasePath(p) = p

THEOREM PublishedFound == OnlyBasePaths => (Spec => PublishedIsFound)
<1> SUFFICES ASSUME OnlyBasePaths PROVE Spec => PublishedIsFound
  OBVIOUS
<1>1. SysInv /\ Bindings /\ [Next]_vars =>
        [\A g \in Getters :
             get[g].pc = "ref" /\ get'[g].pc = "failed" /\ get'[g].why = "notfound" =>
                 get[g].path \notin acked]_vars
  BY NothingThere DEF Bindings, OnlyBasePaths
<1> QED
  BY <1>1, RecordSystemInvariant, BindingsStay, PTL DEF Spec, PublishedIsFound
-----------------------------------------------------------------------------
(***************************************************************************)
(* What a reference needs is there.  A reference is supplied when, if it   *)
(* is a record's, the record and its signer's node are in the DAG.  The    *)
(* publishers' nodes come before their references; of other peers it is    *)
(* assumed that theirs do too.                                             *)
(***************************************************************************)
NodesComeFirst ==
    \A f \in ForeignPuts, r \in Recs : f.ref = RecordCid(r) => Closure(r) \subseteq ForeignBlocks

Supplied(c, d) == \A r \in Recs : c = RecordCid(r) => Closure(r) \subseteq d

\* The node m that call c misses is not one that a rightful record's publisher
\* stores.
MayMiss(c, m) ==
    \A r \in RightfulRecs(c.path) :
        c.cid = RecordCid(r) =>
            r.signer.kind = "cert" /\ m = c.path.cid /\ m # SignerCid(r.signer)

Referred == {"block", "verify", "pubk", "cert", "wait", "check"}

CallSupplied(c, wk, rs, d) ==
    /\ c.pc = "ref" => c.path \in Paths
    /\ c.pc \in Referred => Supplied(c.cid, d)
    /\ c.pc \in Waiting =>
         /\ \A w \in Fetches : wk[w] = "missing" => MayMiss(c, FetchOf(c, w))
         /\ \A i \in 1..Len(rs) :
              rs[i].res = "missing" => MayMiss(c, FetchOf(c, rs[i].from))
    /\ c.pc = "failed" /\ c.why = "missing" => MayMiss(c, c.missing)

SupplyInv ==
    /\ ForeignBlocks \subseteq dag
    /\ \A p \in Paths : Supplied(vstore[p], dag)
    /\ \A u \in Publishers : pub[u].pc = "ref" => Closure(pub[u].rec) \subseteq dag
    /\ \A g \in Getters : CallSupplied(get[g], work[g], resp[g], dag)

\* A node that is not there when it is fetched is none of the publisher's.
LEMMA NotThere ==
    ASSUME NEW c, NEW d, Supplied(c.cid, d), NEW m, m \notin d,
           \/ m = c.cid
           \/ m = c.path.cid
           \/ c.cid.of.vfnType = VerificationType_Cert /\ m = toCid(c.cid.of.vfn)
    PROVE  MayMiss(c, m)
<1> SUFFICES ASSUME NEW r \in RightfulRecs(c.path), c.cid = RecordCid(r)
             PROVE  r.signer.kind = "cert" /\ m = c.path.cid /\ m # SignerCid(r.signer)
  BY DEF MayMiss
<1>1. r \in Recs /\ Authorised(r.signer, c.path) /\ r.signer.kind \in {"key", "cert"}
  BY RecsAssumption DEF RightfulRecs
<1>2. RecordCid(r) \in d /\ SignerCid(r.signer) \in d
  BY <1>1, RecordFields DEF Supplied, Closure, DependencyNodes
<1>3. m # c.cid /\ m # SignerCid(r.signer)
  BY <1>2
<1>4. CASE r.signer.kind = "key"
  <2>1. c.path.cid = SignerCid(r.signer)
    BY <1>1, <1>4 DEF Authorised, SignerCid
  <2>2. c.cid.of.vfnType # VerificationType_Cert
    <3>1. c.cid.of = r.block
      BY DEF RecordCid, IprsCid
    <3>2. Verifiable(r).vfnType = VerificationType(r.signer)
      BY DEF Verifiable
    <3>3. r.block.vfnType = VerificationType(r.signer)
      BY <1>1, <3>2, BlockFields
    <3> QED
      BY <1>4, <3>1, <3>3 DEF VerificationType, VerificationType_Key, VerificationType_Cert
  <2> QED
    BY <1>3, <2>1, <2>2
<1>5. CASE r.signer.kind = "cert"
  <2>1. c.cid.of.vfnType = VerificationType_Cert => toCid(c.cid.of.vfn) = SignerCid(r.signer)
    BY <1>5, RightfulBlock DEF SignerCid
  <2> QED
    BY <1>3, <1>5, <2>1
<1> QED
  BY <1>1, <1>4, <1>5

LEMMA MoreSupplied ==
    ASSUME NEW c, NEW wk, NEW rs, NEW d, NEW e, d \subseteq e, CallSupplied(c, wk, rs, d)
    PROVE  CallSupplied(c, wk, rs, e)
<1>1. \A x : Supplied(x, d) => Supplied(x, e)
  BY DEF Supplied
<1> QED
  BY <1>1 DEF CallSupplied

Ready(g) == Called(g) /\ CallSupplied(get[g], work[g], resp[g], dag)

LEMMA FailSupplied ==
    ASSUME NEW g \in Getters, Called(g), NEW why, NEW m,
           \/ Fail(g, why) /\ why # "missing"
           \/ FailMissing(g, m) /\ MayMiss(get[g], m)
    PROVE  CallSupplied(get'[g], work'[g], resp'[g], dag)
<1>1. CASE Fail(g, why) /\ why # "missing"
  <2>1. get'[g].pc = "failed" /\ get'[g].why # "missing"
    BY <1>1 DEF Fail, Called
  <2> QED
    BY <2>1 DEF CallSupplied, Referred, Waiting
<1>2. CASE FailMissing(g, m) /\ MayMiss(get[g], m)
  <2>1. /\ get'[g].pc = "failed" /\ get'[g].missing = m
        /\ get'[g].path = get[g].path /\ get'[g].cid = get[g].cid
    BY <1>2 DEF FailMissing, Called
  <2>2. MayMiss(get'[g], get'[g].missing)
    BY <1>2, <2>1 DEF MayMiss
  <2> QED
    BY <2>1, <2>2 DEF CallSupplied, Referred, Waiting
<1> QED
  BY <1>1, <1>2

LEMMA FinishSupplied ==
    ASSUME NEW g \in Getters, Called(g), Finish(g)
    PROVE  CallSupplied(get'[g], work'[g], resp'[g], dag)
<1>1. CASE get[g].cid.of.value \in Targets
  <2>1. get'[g].pc = "ok"
    BY <1>1 DEF Finish, Called
  <2> QED
    BY <2>1 DEF CallSupplied, Referred, Waiting
<1>2. CASE get[g].cid.of.value \notin Targets
  <2>1. Fail(g, "target") /\ "target" # "missing"
    BY <1>2 DEF Finish
  <2> QED
    BY <2>1, FailSupplied
<1> QED
  BY <1>1, <1>2

LEMMA GotoSupplied ==
    ASSUME NEW g \in Getters, Ready(g), get[g].pc \in Early \ {"ref"},
           NEW pc \in Early \ {"ref"}, Goto(g, pc)
    PROVE  CallSupplied(get'[g], work'[g], resp'[g], dag)
<1>1. get[g] = [pc |-> get[g].pc, path |-> get[g].path, cid |-> get[g].cid]
  BY DEF Ready, Called, CallInv, Stage
<1>2. get'[g] = [pc |-> pc, path |-> get[g].path, cid |-> get[g].cid]
  <2>1. get'[g] = [get[g] EXCEPT !.pc = pc]
    BY DEF Ready, Called, Goto
  <2> QED
    BY <1>1, <2>1, Reshaped
<1>3. get'[g].pc = pc /\ get'[g].cid = get[g].cid
  BY <1>2
<1>4. Supplied(get[g].cid, dag)
  BY DEF Ready, CallSupplied, Early, Referred
<1> QED
  BY <1>3, <1>4 DEF CallSupplied, Early, Referred, Waiting

LEMMA GetRefSupplied ==
    ASSUME NEW g \in Getters, Ready(g), GetRef(g), \A p \in Paths : Supplied(vstore[p], dag)
    PROVE  CallSupplied(get'[g], work'[g], resp'[g], dag)
<1> DEFINE b == vstore[BasePath(get[g].path)]
<1>1. \/ Fail(g, "notfound") \/ Fail(g, "cast")
      \/ get' = [get EXCEPT ![g].pc = "block", ![g].cid = b]
  BY DEF GetRef
<1>2. CASE Fail(g, "notfound") \/ Fail(g, "cast")
  BY <1>2, FailSupplied DEF Ready
<1>3. CASE get' = [get EXCEPT ![g].pc = "block", ![g].cid = b]
  <2>1. get[g].path \in Paths
    BY DEF GetRef, Ready, CallSupplied
  <2>2. Supplied(b, dag)
    BY <2>1, PathsAssumption
  <2>3. get[g] = [pc |-> get[g].pc, path |-> get[g].path, cid |-> get[g].cid]
    BY DEF GetRef, Ready, Called, CallInv, Stage, Early
  <2> HIDE DEF b
  <2>4. get'[g] = [get[g] EXCEPT !.pc = "block", !.cid = b]
    BY <1>3 DEF Ready, Called
  <2>5. get'[g] = [pc |-> "block", path |-> get[g].path, cid |-> b]
    BY <2>3, <2>4, Reshaped
  <2>6. get'[g].pc = "block" /\ get'[g].cid = b
    BY <2>5
  <2> QED
    BY <2>2, <2>6 DEF CallSupplied, Waiting
<1> QED
  BY <1>1, <1>2, <1>3

LEMMA VerifySupplied ==
    ASSUME NEW g \in Getters, Ready(g), Verify(g)
    PROVE  CallSupplied(get'[g], work'[g], resp'[g], dag)
<1>1. get[g].pc \in Early \ {"ref"} /\ Called(g) /\ Supplied(get[g].cid, dag)
      /\ resp[g] = <<>>
  BY DEF Verify, Ready, Called, CallInv, CallSupplied, Early, Referred
<1>2. \/ Fail(g, "type") \/ Goto(g, "pubk") \/ Goto(g, "cert")
      \/ /\ get' = [get EXCEPT ![g] = [pc |-> "wait", path |-> get[g].path,
                                       cid |-> get[g].cid, got |-> 0]]
         /\ work' = [work EXCEPT ![g] = [w \in Fetches |-> "fetch"]]
         /\ resp' = resp
  BY DEF Verify
<1>3. CASE Fail(g, "type")
  BY <1>1, <1>3, FailSupplied
<1>4. CASE Goto(g, "pubk") \/ Goto(g, "cert")
  <2>1. "pubk" \in Early \ {"ref"} /\ "cert" \in Early \ {"ref"}
    BY DEF Early
  <2> QED
    BY <1>1, <1>4, <2>1, GotoSupplied
<1>5. CASE /\ get' = [get EXCEPT ![g] = [pc |-> "wait", path |-> get[g].path,
                                         cid |-> get[g].cid, got |-> 0]]
           /\ work' = [work EXCEPT ![g] = [w \in Fetches |-> "fetch"]]
           /\ resp' = resp
  <2>1. get'[g].pc = "wait" /\ get'[g].cid = get[g].cid
    BY <1>1, <1>5 DEF Called
  <2>2. \A w \in Fetches : work'[g][w] # "missing"
    BY <1>1, <1>5 DEF Called
  <2>3. Len(resp'[g]) = 0
    BY <1>1, <1>5
  <2> QED
    BY <1>1, <2>1, <2>2, <2>3 DEF CallSupplied
<1> QED
  BY <1>2, <1>3, <1>4, <1>5

\* Of the two goroutines' certificates only the issuer's can be missing.
LEMMA FetchSupplied ==
    ASSUME NEW g \in Getters, Ready(g), NEW w \in Fetches, FetchCert(g, w)
    PROVE  CallSupplied(get'[g], work'[g], resp'[g], dag)
<1> DEFINE c == get[g]
           wk == work[g]
           wk2 == work'[g]
           i == FetchCid(g, w)
<1>1. /\ get' = get /\ resp' = resp /\ CallSupplied(c, wk, resp[g], dag)
      /\ CallInv(c, wk, resp[g], dag)
  BY DEF FetchCert, Ready, Called
<1>2. PICK res : work' = [work EXCEPT ![g][w] = res] /\ (res = "missing" => i \notin dag)
  BY DEF FetchCert
<1>3. \A x \in Fetches : wk2[x] = wk[x] \/ (x = w /\ wk2[x] = res)
  BY <1>2 DEF Ready, Called, CallInv, OneAnswerEach
<1>4. c.pc \in Waiting /\ res = "missing" => MayMiss(c, FetchOf(c, w))
  <2> SUFFICES ASSUME c.pc \in Waiting, res = "missing" PROVE MayMiss(c, FetchOf(c, w))
    OBVIOUS
  <2>1. Supplied(c.cid, dag) /\ c.cid.of.vfnType = VerificationType_Cert
    BY <1>1 DEF CallSupplied, CallInv, Stage, Waiting, Referred
  <2>2. FetchOf(c, w) \notin dag
    BY <1>2 DEF FetchOf, FetchCid
  <2>3. FetchOf(c, w) = toCid(c.cid.of.vfn) \/ FetchOf(c, w) = c.path.cid
    BY DEF FetchOf
  <2> QED
    BY <2>1, <2>2, <2>3, NotThere
<1> QED
  BY <1>1, <1>3, <1>4 DEF CallSupplied

LEMMA AnswerSupplied ==
    ASSUME NEW g \in Getters, Ready(g), NEW w \in Fetches, Answer(g, w)
    PROVE  CallSupplied(get'[g], work'[g], resp'[g], dag)
<1> DEFINE c == get[g]
           wk == work[g]
           rs == resp[g]
           wk2 == work'[g]
           rs2 == resp'[g]
<1>1. /\ get' = get /\ CallSupplied(c, wk, rs, dag) /\ OneAnswerEach(wk, rs)
      /\ Sends(wk, rs, w, wk2, rs2)
  <2>1. wk[w] \in Results \cup {"off", "fetch"}
    BY DEF Ready, Called, CallInv, OneAnswerEach
  <2> QED
    BY <2>1 DEF Answer, Ready, Called, CallInv, Sends
<1> HIDE DEF c, wk, rs, wk2, rs2
<1>2. \A i \in 1..Len(rs2) : \/ i \in 1..Len(rs) /\ rs2[i] = rs[i]
                             \/ rs2[i].from = w /\ rs2[i].res = wk[w]
  BY <1>1, Sent
<1>3. \A x \in Fetches : wk2[x] = wk[x] \/ wk2[x] = "off"
  BY <1>1 DEF Sends, OneAnswerEach
<1>4. CallSupplied(c, wk2, rs2, dag)
  BY <1>1, <1>2, <1>3 DEF CallSupplied
<1> QED
  BY <1>1, <1>4 DEF c, wk2, rs2

LEMMA AwaitSupplied ==
    ASSUME NEW g \in Getters, Ready(g), Await(g)
    PROVE  CallSupplied(get'[g], work'[g], resp'[g], dag)
<1> DEFINE c == get[g]
           wk == work[g]
           rs == resp[g]
           w == Head(rs).from
           res == Head(rs).res
           rs2 == Tail(rs)
<1>1. /\ Called(g) /\ CallSupplied(c, wk, rs, dag) /\ OneAnswerEach(wk, rs)
      /\ rs # <<>> /\ work'[g] = wk /\ resp'[g] = rs2 /\ c.pc = "wait"
  BY DEF Await, Ready, Called, CallInv
<1>2. /\ Head(rs) = rs[1] /\ 1 \in 1..Len(rs)
      /\ \A i \in 1..Len(rs2) : i + 1 \in 1..Len(rs) /\ rs2[i] = rs[i + 1]
  <2> HIDE DEF wk, rs
  <2> QED
    BY <1>1, Received
<1>3. \/ res = "ok" /\ get' = [get EXCEPT ![g].got = @ + 1,
                                 ![g].pc = IF get[g].got = 1 THEN "check" ELSE "wait"]
      \/ res = "missing" /\ FailMissing(g, FetchCid(g, w))
      \/ res # "missing" /\ Fail(g, res)
  BY DEF Await
<1>4. CASE res = "missing" /\ FailMissing(g, FetchCid(g, w))
  <2>1. MayMiss(c, FetchOf(c, w))
    BY <1>1, <1>2, <1>4 DEF CallSupplied, Waiting
  <2>2. FetchCid(g, w) = FetchOf(c, w)
    BY DEF FetchCid, FetchOf
  <2> QED
    BY <1>1, <1>4, <2>1, <2>2, FailSupplied
<1>5. CASE res # "missing" /\ Fail(g, res)
  BY <1>1, <1>5, FailSupplied
<1>6. CASE res = "ok" /\ get' = [get EXCEPT ![g].got = @ + 1,
                                   ![g].pc = IF get[g].got = 1 THEN "check" ELSE "wait"]
  <2> DEFINE c2 == get'[g]
  <2>1. /\ c2.path = c.path /\ c2.cid = c.cid /\ c2.pc \in {"check", "wait"}
    <3>1. c = [pc |-> "wait", path |-> c.path, cid |-> c.cid, got |-> c.got]
      BY <1>1 DEF Called, CallInv, Stage, Waiting
    <3> QED
      BY <1>1, <1>6, <3>1 DEF Called
  <2>2. \A m : MayMiss(c, m) => MayMiss(c2, m)
    BY <2>1 DEF MayMiss
  <2>3. \A x : FetchOf(c2, x) = FetchOf(c, x)
    BY <2>1 DEF FetchOf
  <2> HIDE DEF c2, wk, rs, c, rs2
  <2>4. CallSupplied(c2, wk, rs2, dag)
    BY <1>1, <1>2, <2>1, <2>2, <2>3 DEF CallSupplied, Waiting, Referred
  <2> QED
    BY <1>1, <2>4 DEF c2, wk, rs2
<1> QED
  BY <1>3, <1>4, <1>5, <1>6

LEMMA CallStepSupplied ==
    ASSUME NEW g \in Getters, Ready(g), GetterStep(g),
           \A p \in Paths : Supplied(vstore[p], dag)
    PROVE  CallSupplied(get'[g], work'[g], resp'[g], dag)
<1>1. Called(g)
  BY DEF Ready
<1>2. get[g].pc \in Referred => Supplied(get[g].cid, dag)
  BY DEF Ready, CallSupplied
<1>3. ASSUME NEW p \in Paths, Resolve(g, p)
      PROVE  CallSupplied(get'[g], work'[g], resp'[g], dag)
  <2>1. get'[g].pc = "ref" /\ get'[g].path = p
    BY <1>1, <1>3 DEF Resolve, Called
  <2> QED
    BY <2>1 DEF CallSupplied, Referred, Waiting
<1>4. CASE GetBlock(g)
  <2>1. get[g].pc \in Early \ {"ref"} /\ "verify" \in Early \ {"ref"}
    BY <1>4 DEF GetBlock, Early
  <2>2. \/ get[g].cid \notin dag /\ FailMissing(g, get[g].cid)
        \/ Fail(g, "decode")
        \/ Goto(g, "verify")
    BY <1>4 DEF GetBlock
  <2>3. Supplied(get[g].cid, dag)
    BY <1>2, <1>4 DEF GetBlock, Referred
  <2>4. get[g].cid \notin dag => MayMiss(get[g], get[g].cid)
    BY <2>3, NotThere
  <2> QED
    BY <1>1, <2>1, <2>2, <2>4, FailSupplied, GotoSupplied
<1>5. CASE Unavailable(g)
  BY <1>1, <1>5, FailSupplied DEF Unavailable
<1>6. CASE VerifyKey(g) \/ VerifyIssuer(g)
  <2>1. \/ Fail(g, "codec") \/ Fail(g, "signature") \/ Finish(g)
        \/ get[g].path.cid \notin dag /\ FailMissing(g, get[g].path.cid)
    BY <1>6 DEF VerifyKey, VerifyIssuer
  <2>2. Supplied(get[g].cid, dag)
    BY <1>2, <1>6 DEF VerifyKey, VerifyIssuer, Referred
  <2>3. get[g].path.cid \notin dag => MayMiss(get[g], get[g].path.cid)
    BY <2>2, NotThere
  <2> QED
    BY <1>1, <2>1, <2>3, FailSupplied, FinishSupplied
<1>7. CASE CheckCerts(g)
  <2>1. Finish(g) \/ Fail(g, "signature")
    BY <1>7 DEF CheckCerts
  <2> QED
    BY <1>1, <2>1, FailSupplied, FinishSupplied
<1> QED
  BY <1>3, <1>4, <1>5, <1>6, <1>7, GetRefSupplied, VerifySupplied, AwaitSupplied,
     FetchSupplied, AnswerSupplied DEF GetterStep, CallStep, WorkStep

\* A block tells who signed it, and so which nodes go with it.
LEMMA SameClosure ==
    ASSUME NEW r \in Recs, NEW s \in Recs, RecordCid(r) = RecordCid(s)
    PROVE  Closure(r) = Closure(s)
<1>1. r.block = s.block
  BY DEF RecordCid, IprsCid
<1>2. \A x \in {r, s} : /\ x.block.vfnType = VerificationType(x.signer)
                         /\ x.block.sig.by = x.signer.pk
  <2>1. ASSUME NEW x \in Recs
        PROVE  /\ x.block.vfnType = VerificationType(x.signer)
               /\ x.block.sig.by = x.signer.pk
    <3>1. Verifiable(x).vfnType = VerificationType(x.signer)
      BY DEF Verifiable
    <3>2. \A k, d : Sign(k, d).by = k
      BY DEF Sign
    <3> QED
      BY <3>1, <3>2, BlockFields
  <2> QED
    BY <2>1
<1>3. \A x \in {r, s} : x.signer.kind = "key" \/ x.signer.kind = "cert"
  BY RecsAssumption
<1>4. \A x \in {r, s} : x.signer.kind = "key" <=> x.block.vfnType = VerificationType_Key
  BY <1>2, <1>3 DEF VerificationType, VerificationType_Key, VerificationType_Cert
<1>5. \A x \in {r, s} : x.signer.kind = "cert" => toCid(x.block.vfn) = CertCid(x.signer.cert)
  BY StoredParts
<1>6. SignerCid(r.signer) = SignerCid(s.signer)
  BY <1>1, <1>2, <1>3, <1>4, <1>5 DEF SignerCid
<1> QED
  BY <1>6, RecordFields DEF Closure, DependencyNodes

\* A publisher's nodes are in the DAG before its reference is put.
LEMMA PublisherSupply ==
    ASSUME SysInv, SupplyInv, PubNext, UNCHANGED getVars
    PROVE  SupplyInv'
<1>1. PICK u \in Publishers : PublishStep(u)
  BY DEF PubNext
<1>2. /\ DOMAIN pub = Publishers /\ DOMAIN vstore = Paths
      /\ pub[u] = Idle \/ pub[u] \in Jobs
  BY DEF SysInv
<1>3. dag \subseteq dag'
  BY <1>1 DEF PublishStep, Publish, publishRecord, publishRecordFails,
              publishRecordRef, publishRecordRefFails, Crash
<1>4. \A x : Supplied(x, dag) => Supplied(x, dag')
  BY <1>3 DEF Supplied
<1>5. \A p \in Paths : Supplied(vstore'[p], dag')
  <2>1. CASE \/ publishRecordRef(u) \/ publishRecordRefFails(u)
    <3>1. pub[u].pc = "ref" /\ pub[u].rec \in Recs
      BY <1>2, <2>1 DEF publishRecordRef, publishRecordRefFails, Idle, Jobs
    <3>2. Closure(pub[u].rec) \subseteq dag
      BY <3>1 DEF SupplyInv
    <3>3. Supplied(RecordCid(pub[u].rec), dag)
      BY <3>1, <3>2, SameClosure DEF Supplied
    <3>4. \A p \in Paths : vstore'[p] = vstore[p] \/ vstore'[p] = RecordCid(pub[u].rec)
      BY <1>2, <2>1 DEF publishRecordRef, publishRecordRefFails
    <3> QED
      BY <1>4, <3>3, <3>4 DEF SupplyInv
  <2>2. CASE UNCHANGED vstore
    BY <1>4, <2>2 DEF SupplyInv
  <2> QED
    BY <1>1, <2>1, <2>2 DEF PublishStep, Publish, publishRecord, publishRecordFails, Crash
<1>6. \A v \in Publishers : pub'[v].pc = "ref" => Closure(pub'[v].rec) \subseteq dag'
  <2> SUFFICES ASSUME NEW v \in Publishers, pub'[v].pc = "ref"
               PROVE  Closure(pub'[v].rec) \subseteq dag'
    OBVIOUS
  <2>1. CASE pub'[v] = pub[v]
    BY <1>3, <2>1 DEF SupplyInv
  <2>2. CASE pub'[v] # pub[v]
    <3>1. u = v
      <4>1. PICK x : pub' = pub \/ pub' = [pub EXCEPT ![u] = x]
        BY <1>1 DEF PublishStep, Publish, publishRecord, publishRecordFails,
           publishRecordRef, publishRecordRefFails, Crash
      <4> QED
        BY <1>2, <2>2, <4>1
    <3>2. publishRecord(u)
      <4>1. pub'[u].pc = "ref"
        BY <2>2, <3>1
      <4>2. Idle.pc # "ref"
        BY DEF Idle
      <4>3. ASSUME pub' = [pub EXCEPT ![u] = Idle] PROVE FALSE
        BY <1>2, <4>1, <4>2, <4>3
      <4>4. ASSUME NEW p \in Paths, NEW r \in Recs, Publish(u, p, r) PROVE FALSE
        BY <1>2, <4>1, <4>4 DEF Publish
      <4> QED
        BY <1>1, <4>3, <4>4 DEF PublishStep, publishRecordFails, publishRecordRef,
           publishRecordRefFails, Crash
    <3>3. pub'[u].rec = pub[u].rec
      BY <1>2, <3>2 DEF publishRecord, Jobs, Idle
    <3> QED
      BY <3>1, <3>2, <3>3 DEF publishRecord
  <2> QED
    BY <2>1, <2>2
<1>7. \A g \in Getters : CallSupplied(get'[g], work'[g], resp'[g], dag')
  BY <1>3, MoreSupplied DEF SupplyInv, getVars
<1> QED
  BY <1>3, <1>5, <1>6, <1>7 DEF SupplyInv

\* No reference to a record is seen before the nodes that go with it.
LEMMA SupplyHolds == NodesComeFirst => (Spec => []SupplyInv)
<1> SUFFICES ASSUME NodesComeFirst PROVE Spec => []SupplyInv
  OBVIOUS
<1>1. Init => SupplyInv
  <2> SUFFICES ASSUME Init PROVE SupplyInv
    OBVIOUS
  <2>1. \A p \in Paths : Supplied(vstore[p], dag)
    BY ValueAssumption DEF Init, Supplied
  <2>2. \A u \in Publishers : pub[u].pc # "ref"
    BY DEF Init, Idle
  <2>3. \A g \in Getters : get[g].pc = "idle"
    BY DEF Init, GetInit, NoCall
  <2>4. \A g \in Getters : CallSupplied(get[g], work[g], resp[g], dag)
    BY <2>3 DEF CallSupplied, Referred, Waiting
  <2> QED
    BY <2>1, <2>2, <2>4 DEF SupplyInv, Init
<1>2. SysInv /\ SupplyInv /\ [Next]_vars => SupplyInv'
  <2> SUFFICES ASSUME SysInv, SupplyInv, [Next]_vars PROVE SupplyInv'
    OBVIOUS
  <2>1. CASE PubNext /\ UNCHANGED getVars
    BY <2>1, PublisherSupply
  <2>2. CASE GetNext /\ UNCHANGED <<pub, acked>>
    <3>1. PICK g \in Getters : GetterStep(g)
      BY <2>2 DEF GetNext, GetterStep
    <3>2. Ready(g)
      BY DEF SysInv, SupplyInv, Ready, Called
    <3>3. CallSupplied(get'[g], work'[g], resp'[g], dag)
      BY <3>1, <3>2, CallStepSupplied DEF SupplyInv
    <3>4. \A h \in Getters : CallSupplied(get'[h], work'[h], resp'[h], dag')
      BY <3>1, <3>3, GetterFrame DEF SupplyInv
    <3> QED
      BY <2>2, <3>1, <3>4, GetterFrame DEF SupplyInv
  <2>3. CASE \E f \in ForeignPuts : ForeignPut(f) /\ UNCHANGED getVars
    <3>1. PICK f \in ForeignPuts : ForeignPut(f) /\ UNCHANGED getVars
      BY <2>3
    <3>2. Supplied(f.ref, dag)
      BY DEF NodesComeFirst, Supplied, SupplyInv
    <3>3. \A p \in Paths : vstore'[p] = vstore[p] \/ vstore'[p] = f.ref
      BY <3>1 DEF ForeignPut, SysInv
    <3> QED
      BY <3>1, <3>2, <3>3 DEF SupplyInv, ForeignPut, getVars
  <2>4. CASE UNCHANGED vars
    BY <2>4 DEF SupplyInv, vars
  <2> QED
    BY <2>1, <2>2, <2>3, <2>4 DEF Next
<1> QED
  BY <1>1, <1>2, RecordSystemInvariant, PTL DEF Spec

(***************************************************************************)
(* A resolver that sees a rightful reference finds what it needs: the one  *)
(* node that can be missing is the issuer's certificate, which Publish     *)
(* leaves to others when the signer's is another (publisher.go:44-62,      *)
(* cert.go:137-188).                                                       *)
(***************************************************************************)
THEOREM OnlyIssuerMissing == NodesComeFirst => (Spec => []OnlyIssuerIsMissing)
<1>1. SupplyInv => OnlyIssuerIsMissing
  BY DEF SupplyInv, CallSupplied, MayMiss, OnlyIssuerIsMissing
<1> QED
  BY <1>1, SupplyHolds, PTL

-----------------------------------------------------------------------------
(***************************************************************************)
(* Resolving implements the name service.                                  *)
(***************************************************************************)
SeenRef(c) == [pc |-> "read", path |-> c.path, ref |-> c.cid]

SeenEnd(why) == IF why = "notfound" THEN "empty"
                ELSE IF why \in Refusals THEN "refused" ELSE "gaveUp"

LEMMA SeenCases ==
    ASSUME NEW c
    PROVE  /\ c.pc = "idle" => Seen(c) = [pc |-> "idle"]
           /\ c.pc = "ref" => Seen(c) = [pc |-> "called", path |-> c.path]
           /\ c.pc \in Referred => Seen(c) = SeenRef(c)
           /\ c.pc = "ok" => Seen(c) = [pc |-> "accepted", path |-> c.path,
                                        ans |-> [val |-> c.val, eol |-> c.eol]]
           /\ c.pc = "failed" => Seen(c) = [pc |-> SeenEnd(c.why), path |-> c.path]
BY DEF Seen, SeenRef, SeenEnd, Referred

\* A call that another can start after is seen to have ended.
LEMMA SeenEnded ==
    ASSUME NEW c, c.pc \in {"idle", "ok", "failed"}
    PROVE  Seen(c).pc \notin {"called", "read"}
<1>1. \A why : SeenEnd(why) \notin {"called", "read"}
  BY DEF SeenEnd
<1> QED
  BY <1>1, SeenCases

\* A getter's step changes what is seen of its own call.
LEMMA SeenStep ==
    ASSUME SysInv, NEW g \in Getters, GetterStep(g)
    PROVE  /\ seen' = [seen EXCEPT ![g] = Seen(get'[g])]
           /\ seen[g] = Seen(get[g])
           /\ vstore' = vstore
           /\ Seen(get'[g]) = Seen(get[g]) => seen' = seen
<1>1. \A h \in Getters : h # g => get'[h] = get[h]
  BY GetterFrame
<1>2. seen' = [h \in Getters |-> Seen(get'[h])]
  BY DEF seen
<1>3. seen = [h \in Getters |-> Seen(get[h])]
  BY DEF seen
<1>4. \A h \in Getters : h # g => Seen(get'[h]) = Seen(get[h])
  BY <1>1
<1> QED
  BY <1>2, <1>3, <1>4, GetterFrame

Serves == Service!ServiceNext \/ UNCHANGED Service!serviceVars

LEMMA SameSeen ==
    ASSUME SysInv, NEW g \in Getters, GetterStep(g), Seen(get'[g]) = Seen(get[g])
    PROVE  Serves
BY SeenStep DEF Serves, Service!serviceVars

\* How a call may fail: for a reason it has, or for none of those.
MayFail(g, why) ==
    LET c == get[g]
        b == vstore[BasePath(c.path)]
    IN  /\ c.pc = "ref" \/ c.pc \in Referred
        /\ why = "notfound" => c.pc = "ref" /\ b = None
        /\ why \in Refusals =>
             \/ c.pc = "ref" /\ b # None /\ ~Accepts(c.path, b)
             \/ c.pc \in Referred /\ ~Accepts(c.path, c.cid)

LEMMA FailServes ==
    ASSUME SysInv, NEW g \in Getters, GetterStep(g), NEW why, NEW m, MayFail(g, why),
           Fail(g, why) \/ (FailMissing(g, m) /\ why = "missing")
    PROVE  Serves
<1> DEFINE c == get[g]
<1>1. get'[g].pc = "failed" /\ get'[g].why = why /\ get'[g].path = c.path
  <2>1. DOMAIN get = Getters
    BY DEF SysInv
  <2> QED
    BY <2>1 DEF Fail, FailMissing
<1>2. Seen(get'[g]) = [pc |-> SeenEnd(why), path |-> c.path]
  BY <1>1, SeenCases
<1>3. /\ seen' = [seen EXCEPT ![g] = [pc |-> SeenEnd(why), path |-> c.path]]
      /\ seen[g] = Seen(c) /\ vstore' = vstore
  BY <1>2, SeenStep
<1>4. c.pc = "ref" => seen[g].pc = "called" /\ seen[g].path = c.path
  BY <1>3, SeenCases
<1>5. c.pc \in Referred => /\ seen[g].pc = "read" /\ seen[g].path = c.path
                           /\ seen[g].ref = c.cid
  BY <1>3, SeenCases DEF SeenRef
<1>6. seen[g].path = c.path /\ seen[g].pc \in {"called", "read"}
  BY <1>4, <1>5 DEF MayFail
<1>7. CASE why = "notfound"
  <2>1. Service!Held(g) = None /\ seen[g].pc = "called"
    BY <1>4, <1>7 DEF MayFail, Service!Held
  <2>2. SeenEnd(why) = "empty"
    BY <1>7 DEF SeenEnd
  <2>3. Service!FindNothing(g)
    BY <1>3, <1>6, <2>1, <2>2 DEF Service!FindNothing, Service!End
  <2> QED
    BY <2>3 DEF Serves, Service!ServiceNext
<1>8. CASE why \in Refusals
  <2>1. SeenEnd(why) = "refused"
    BY <1>8 DEF SeenEnd, Refusals
  <2>2. \/ seen[g].pc = "called" /\ Service!Held(g) # None
           /\ ~Accepts(seen[g].path, Service!Held(g))
        \/ seen[g].pc = "read" /\ ~Accepts(seen[g].path, seen[g].ref)
    BY <1>4, <1>5, <1>8 DEF MayFail, Service!Held
  <2>3. Service!Refuse(g)
    BY <1>3, <1>6, <2>1, <2>2 DEF Service!Refuse, Service!End
  <2> QED
    BY <2>3 DEF Serves, Service!ServiceNext
<1>9. CASE why # "notfound" /\ why \notin Refusals
  <2>1. SeenEnd(why) = "gaveUp"
    BY <1>9 DEF SeenEnd
  <2>2. Service!GiveUp(g)
    BY <1>3, <1>6, <2>1 DEF Service!GiveUp, Service!End
  <2> QED
    BY <2>2 DEF Serves, Service!ServiceNext
<1> QED
  BY <1>7, <1>8, <1>9

\* A call whose record is verified answers, or refuses a value it cannot use.
LEMMA FinishServes ==
    ASSUME SysInv, NEW g \in Getters, GetterStep(g), Finish(g), get[g].pc \in Referred,
           Accepts(get[g].path, get[g].cid) <=> get[g].cid.of.value \in Targets
    PROVE  Serves
<1> DEFINE c == get[g]
<1>1. CASE c.cid.of.value \in Targets
  <2>1. DOMAIN get = Getters
    BY DEF SysInv
  <2>2. get'[g] = [pc |-> "ok", path |-> c.path, cid |-> c.cid,
                   val |-> c.cid.of.value, eol |-> getEol(c.cid.of)]
    BY <1>1, <2>1 DEF Finish
  <2>3. /\ get'[g].pc = "ok" /\ get'[g].path = c.path
        /\ get'[g].val = c.cid.of.value /\ get'[g].eol = getEol(c.cid.of)
    BY <2>2
  <2>4. Seen(get'[g]) = [pc |-> "accepted", path |-> c.path, ans |-> AnswerOf(c.cid)]
    BY <2>3, SeenCases DEF AnswerOf
  <2>5. /\ seen' = [seen EXCEPT ![g] = [pc |-> "accepted", path |-> c.path,
                                        ans |-> AnswerOf(c.cid)]]
        /\ seen[g] = SeenRef(c) /\ vstore' = vstore
    BY <2>4, SeenStep, SeenCases
  <2>6. seen[g].pc = "read" /\ seen[g].path = c.path /\ seen[g].ref = c.cid
    BY <2>5 DEF SeenRef
  <2>7. Service!Accept(g)
    BY <1>1, <2>5, <2>6 DEF Service!Accept
  <2> QED
    BY <2>7 DEF Serves, Service!ServiceNext
<1>2. CASE c.cid.of.value \notin Targets
  <2>1. Fail(g, "target")
    BY <1>2 DEF Finish
  <2>2. MayFail(g, "target")
    BY <1>2 DEF MayFail, Refusals
  <2> QED
    BY <2>1, <2>2, FailServes
<1> QED
  BY <1>1, <1>2

LEMMA GotoServes ==
    ASSUME SysInv, NEW g \in Getters, GetterStep(g), NEW pc \in Referred, Goto(g, pc),
           get[g].pc \in Referred \cap Early
    PROVE  Serves
<1>1. get[g] = [pc |-> get[g].pc, path |-> get[g].path, cid |-> get[g].cid]
      /\ DOMAIN get = Getters
  BY DEF SysInv, CallInv, Stage
<1>2. get'[g] = [pc |-> pc, path |-> get[g].path, cid |-> get[g].cid]
  BY <1>1, Reshaped DEF Goto
<1>3. get'[g].pc = pc /\ get'[g].path = get[g].path /\ get'[g].cid = get[g].cid
  BY <1>2
<1>4. Seen(get'[g]) = Seen(get[g])
  BY <1>3, SeenCases DEF SeenRef
<1> QED
  BY <1>4, SameSeen

LEMMA CallServes ==
    ASSUME SysInv, NEW g \in Getters, NEW p \in Paths, Resolve(g, p)
    PROVE  Serves
<1>1. GetterStep(g) /\ DOMAIN get = Getters
  BY DEF GetterStep, SysInv
<1>2. get'[g].pc = "ref" /\ get'[g].path = p /\ get[g].pc \in {"idle", "ok", "failed"}
  BY <1>1 DEF Resolve
<1>3. Seen(get'[g]) = [pc |-> "called", path |-> p]
  BY <1>2, SeenCases
<1>4. Service!Call(g, p)
  BY <1>1, <1>2, <1>3, SeenStep, SeenEnded DEF Service!Call
<1> QED
  BY <1>4 DEF Serves, Service!ServiceNext

LEMMA GetRefServes ==
    ASSUME SysInv, NEW g \in Getters, GetRef(g)
    PROVE  Serves
<1> DEFINE b == vstore[BasePath(get[g].path)]
<1>1. GetterStep(g) /\ DOMAIN get = Getters /\ get[g].pc = "ref"
  BY DEF GetterStep, CallStep, GetRef, SysInv
<1>2. CASE b = None
  <2>1. Fail(g, "notfound")
    BY <1>2, ValueAssumption DEF GetRef
  <2>2. MayFail(g, "notfound")
    BY <1>1, <1>2 DEF MayFail, Refusals
  <2> QED
    BY <1>1, <2>1, <2>2, FailServes
<1>3. CASE b # None /\ b = Junk
  <2>1. Fail(g, "cast")
    BY <1>3 DEF GetRef
  <2>2. ~Accepts(get[g].path, b)
    BY <1>3 DEF Accepts
  <2>3. MayFail(g, "cast")
    BY <1>1, <1>3, <2>2 DEF MayFail
  <2> QED
    BY <1>1, <2>1, <2>3, FailServes
<1>4. CASE b # None /\ b # Junk
  <2>1. get' = [get EXCEPT ![g].pc = "block", ![g].cid = b]
    BY <1>4 DEF GetRef
  <2>2. get[g] = [pc |-> get[g].pc, path |-> get[g].path, cid |-> get[g].cid]
    BY <1>1 DEF SysInv, CallInv, Stage, Early
  <2> HIDE DEF b
  <2>3. get'[g] = [get[g] EXCEPT !.pc = "block", !.cid = b]
    BY <1>1, <2>1
  <2>4. get'[g] = [pc |-> "block", path |-> get[g].path, cid |-> b]
    BY <2>2, <2>3, Reshaped
  <2>5. get'[g].pc \in Referred /\ get'[g].path = get[g].path /\ get'[g].cid = b
    BY <2>4 DEF Referred
  <2>6. Seen(get'[g]) = [pc |-> "read", path |-> get[g].path, ref |-> b]
    BY <2>5, SeenCases DEF SeenRef
  <2>7. seen[g].pc = "called" /\ seen[g].path = get[g].path
    BY <1>1, SeenStep, SeenCases
  <2>8. Service!Held(g) = b
    BY <2>7 DEF Service!Held, b
  <2>9. Service!Read(g)
    BY <1>1, <1>4, <2>6, <2>7, <2>8, SeenStep DEF Service!Read
  <2> QED
    BY <2>9 DEF Serves, Service!ServiceNext
<1> QED
  BY <1>2, <1>3, <1>4

LEMMA VerifyServes ==
    ASSUME SysInv, NEW g \in Getters, Verify(g)
    PROVE  Serves
<1> DEFINE c == get[g]
           b == c.cid.of
<1>1. /\ GetterStep(g) /\ DOMAIN get = Getters
      /\ c.pc \in Referred /\ c.pc \in Referred \cap Early
  BY DEF GetterStep, CallStep, Verify, SysInv, Referred, Early
<1>2. CASE /\ Fail(g, "type")
           /\ \/ b.vfnType \notin {VerificationType_Key, VerificationType_Cert}
              \/ b.vfnType = VerificationType_Cert /\ b.vfn.type \notin {"cid", "link"}
  <2>1. VerificationType_Key # VerificationType_Cert
    BY DEF VerificationType_Key, VerificationType_Cert
  <2>2. ~Accepts(c.path, c.cid)
    BY <1>2, <2>1 DEF Accepts
  <2>3. MayFail(g, "type")
    BY <1>1, <2>2 DEF MayFail
  <2> QED
    BY <1>1, <1>2, <2>3, FailServes
<1>3. CASE Goto(g, "pubk") \/ Goto(g, "cert")
  <2>1. "pubk" \in Referred /\ "cert" \in Referred
    BY DEF Referred
  <2> QED
    BY <1>1, <1>3, <2>1, GotoServes
<1>4. CASE get' = [get EXCEPT ![g] = [pc |-> "wait", path |-> c.path,
                                      cid |-> c.cid, got |-> 0]]
  <2>1. get'[g].pc \in Referred /\ get'[g].path = c.path /\ get'[g].cid = c.cid
    BY <1>1, <1>4 DEF Referred
  <2>2. Seen(get'[g]) = Seen(c)
    BY <1>1, <2>1, SeenCases DEF SeenRef
  <2> QED
    BY <1>1, <2>2, SameSeen
<1> QED
  BY <1>2, <1>3, <1>4 DEF Verify

LEMMA VerifyKeyServes ==
    ASSUME SysInv, NEW g \in Getters, VerifyKey(g)
    PROVE  Serves
<1> DEFINE c == get[g]
           k == c.path.cid
<1>1. /\ GetterStep(g) /\ c.pc \in Referred
      /\ Decodes(c.cid) /\ c.cid # Junk /\ c.cid.of.vfnType = VerificationType_Key
  <2>1. c.cid \in Nodes
    BY DEF VerifyKey, SysInv, CallInv, Stage, Fetched
  <2>2. c.cid # Junk
    BY <2>1, ValueAssumption DEF Nodes
  <2> QED
    BY <2>2 DEF GetterStep, CallStep, VerifyKey, SysInv, CallInv, Stage, Fetched, Referred
<1>2. VerificationType_Key # VerificationType_Cert
  BY DEF VerificationType_Key, VerificationType_Cert
<1>3. Accepts(c.path, c.cid) <=>
        k.codec = "pubk" /\ KeySignatureOk(k.of, c.cid.of) /\ c.cid.of.value \in Targets
  BY <1>1, <1>2 DEF Accepts
<1>4. CASE Fail(g, "codec") /\ k.codec # "pubk"
  <2>1. MayFail(g, "codec")
    BY <1>1, <1>3, <1>4 DEF MayFail
  <2> QED
    BY <1>1, <1>4, <2>1, FailServes
<1>5. CASE FailMissing(g, k)
  <2>1. MayFail(g, "missing")
    BY <1>1 DEF MayFail, Refusals
  <2> QED
    BY <1>1, <1>5, <2>1, FailServes
<1>6. CASE Fail(g, "signature") /\ ~KeySignatureOk(k.of, c.cid.of)
  <2>1. MayFail(g, "signature")
    BY <1>1, <1>3, <1>6 DEF MayFail
  <2> QED
    BY <1>1, <1>6, <2>1, FailServes
<1>7. CASE Finish(g) /\ k.codec = "pubk" /\ KeySignatureOk(k.of, c.cid.of)
  BY <1>1, <1>3, <1>7, FinishServes
<1> QED
  BY <1>4, <1>5, <1>6, <1>7 DEF VerifyKey

\* What is asked of a record that a certificate signed.
LEMMA CertAccepts ==
    ASSUME NEW p, NEW c \in Nodes, Decodes(c), c.of.vfnType = VerificationType_Cert,
           c.of.vfn.type \in {"cid", "link"}
    PROVE  Accepts(p, c) <=>
             /\ toCid(c.of.vfn).codec = "cert" /\ p.cid.codec = "cert"
             /\ CertSignatureOk(toCid(c.of.vfn).of, p.cid.of, c.of)
             /\ c.of.value \in Targets
<1>1. VerificationType_Key # VerificationType_Cert
  BY DEF VerificationType_Key, VerificationType_Cert
<1>2. c # Junk
  BY ValueAssumption DEF Nodes
<1> QED
  BY <1>1, <1>2 DEF Accepts

LEMMA VerifyIssuerServes ==
    ASSUME SysInv, NEW g \in Getters, VerifyIssuer(g)
    PROVE  Serves
<1> DEFINE c == get[g]
           i == c.path.cid
           b == c.cid.of
<1>1. /\ GetterStep(g) /\ c.pc \in Referred
      /\ c.cid \in Nodes /\ Decodes(c.cid) /\ b.vfnType = VerificationType_Cert
      /\ b.vfn.type \in {"cid", "link"} /\ toCid(b.vfn) = i
  BY DEF GetterStep, CallStep, VerifyIssuer, SysInv, CallInv, Stage, Fetched, Referred
<1>2. Accepts(c.path, c.cid) <=>
        i.codec = "cert" /\ CertSignatureOk(i.of, i.of, b) /\ b.value \in Targets
  BY <1>1, CertAccepts
<1>3. CASE Fail(g, "codec") /\ i.codec # "cert"
  <2>1. MayFail(g, "codec")
    BY <1>1, <1>2, <1>3 DEF MayFail
  <2> QED
    BY <1>1, <1>3, <2>1, FailServes
<1>4. CASE FailMissing(g, i)
  <2>1. MayFail(g, "missing")
    BY <1>1 DEF MayFail, Refusals
  <2> QED
    BY <1>1, <1>4, <2>1, FailServes
<1>5. CASE Fail(g, "signature") /\ ~CertSignatureOk(i.of, i.of, b)
  <2>1. MayFail(g, "signature")
    BY <1>1, <1>2, <1>5 DEF MayFail
  <2> QED
    BY <1>1, <1>5, <2>1, FailServes
<1>6. CASE Finish(g) /\ i.codec = "cert" /\ CertSignatureOk(i.of, i.of, b)
  BY <1>1, <1>2, <1>6, FinishServes
<1> QED
  BY <1>3, <1>4, <1>5, <1>6 DEF VerifyIssuer

LEMMA AwaitServes ==
    ASSUME SysInv, NEW g \in Getters, Await(g)
    PROVE  Serves
<1> DEFINE c == get[g]
           rs == resp[g]
           w == Head(rs).from
           res == Head(rs).res
<1>1. /\ GetterStep(g) /\ c.pc \in Referred /\ DOMAIN get = Getters
      /\ OneAnswerEach(work[g], rs) /\ rs # <<>> /\ c.pc = "wait"
      /\ c.cid \in Nodes /\ Decodes(c.cid) /\ c.cid.of.vfnType = VerificationType_Cert
      /\ c.cid.of.vfn.type \in {"cid", "link"}
      /\ Waits(c, work[g], rs, dag)
      /\ c = [pc |-> "wait", path |-> c.path, cid |-> c.cid, got |-> c.got]
  BY DEF GetterStep, CallStep, Await, SysInv, CallInv, Stage, Fetched, Waiting, Referred
<1>2. IsTrue(c, w, res, dag) /\ res \in Results
  <2>1. Head(rs) = rs[1] /\ 1 \in 1..Len(rs)
    <3> HIDE DEF rs
    <3> QED
      BY <1>1, Received
  <2>2. res \in Results
    <3> DEFINE A == [from : Fetches, res : Results]
    <3>1. rs \in Seq(A)
      BY <1>1 DEF OneAnswerEach
    <3> HIDE DEF A, rs
    <3>2. rs[1] \in A
      BY <2>1, <3>1, ElementOfSeq
    <3> QED
      BY <2>1, <3>2 DEF A, rs
  <2> QED
    BY <1>1, <2>1, <2>2 DEF Waits
<1>3. \/ res = "ok" /\ get' = [get EXCEPT ![g].got = @ + 1,
                                 ![g].pc = IF get[g].got = 1 THEN "check" ELSE "wait"]
      \/ FailMissing(g, FetchCid(g, w))
      \/ Fail(g, res)
  BY DEF Await
<1>4. CASE FailMissing(g, FetchCid(g, w))
  <2>1. MayFail(g, "missing")
    BY <1>1 DEF MayFail, Refusals
  <2> QED
    BY <1>1, <1>4, <2>1, FailServes
<1>5. CASE Fail(g, res)
  <2>1. res = "codec" => ~Accepts(c.path, c.cid)
    <3>1. res = "codec" => FetchOf(c, w).codec # "cert"
      BY <1>2 DEF IsTrue
    <3>2. FetchOf(c, w) = toCid(c.cid.of.vfn) \/ FetchOf(c, w) = c.path.cid
      BY DEF FetchOf
    <3> QED
      BY <1>1, <3>1, <3>2, CertAccepts
  <2>2. MayFail(g, res)
    <3>1. res # "notfound" /\ (res \in Refusals => res = "codec")
      BY <1>2 DEF Results, Refusals
    <3> QED
      BY <1>1, <2>1, <3>1 DEF MayFail
  <2> QED
    BY <1>1, <1>5, <2>2, FailServes
<1>6. CASE res = "ok" /\ get' = [get EXCEPT ![g].got = @ + 1,
                                   ![g].pc = IF get[g].got = 1 THEN "check" ELSE "wait"]
  <2>1. get'[g].path = c.path /\ get'[g].cid = c.cid /\ get'[g].pc \in {"check", "wait"}
    BY <1>1, <1>6
  <2>2. Seen(get'[g]) = Seen(c)
    BY <1>1, <2>1, SeenCases DEF SeenRef, Referred
  <2> QED
    BY <1>1, <2>2, SameSeen
<1> QED
  BY <1>3, <1>4, <1>5, <1>6

LEMMA CheckServes ==
    ASSUME SysInv, NEW g \in Getters, CheckCerts(g)
    PROVE  Serves
<1> DEFINE c == get[g]
           b == c.cid.of
           x == toCid(b.vfn)
           i == c.path.cid
<1>1. /\ GetterStep(g) /\ c.pc \in Referred
      /\ c.cid \in Nodes /\ Decodes(c.cid) /\ b.vfnType = VerificationType_Cert
      /\ b.vfn.type \in {"cid", "link"}
      /\ c.pc = "check" /\ Waits(c, work[g], resp[g], dag)
  BY DEF GetterStep, CallStep, CheckCerts, SysInv, CallInv, Stage, Fetched, Waiting, Referred
<1>2. x.codec = "cert" /\ i.codec = "cert"
  <2>1. Answered(work[g], resp[g]) = 2
    BY <1>1 DEF Waits
  <2>2. ~Awaited(work[g], resp[g], "cert") /\ ~Awaited(work[g], resp[g], "issuer")
    BY <2>1 DEF Answered
  <2>3. Found(c, "cert", dag) /\ Found(c, "issuer", dag)
    BY <1>1, <2>2 DEF Waits, Fetches
  <2> QED
    BY <2>3 DEF Found, FetchOf
<1>3. Accepts(c.path, c.cid) <=> CertSignatureOk(x.of, i.of, b) /\ b.value \in Targets
  BY <1>1, <1>2, CertAccepts
<1>4. \/ CertSignatureOk(x.of, i.of, b) /\ Finish(g)
      \/ ~CertSignatureOk(x.of, i.of, b) /\ Fail(g, "signature")
  BY DEF CheckCerts, FetchCid
<1>5. ~CertSignatureOk(x.of, i.of, b) => MayFail(g, "signature")
  BY <1>1, <1>3 DEF MayFail
<1> QED
  BY <1>1, <1>3, <1>4, <1>5, FailServes, FinishServes

LEMMA GetterServes ==
    ASSUME SysInv, NEW g \in Getters, GetterStep(g)
    PROVE  Serves
<1> DEFINE c == get[g]
<1>1. CASE GetBlock(g)
  <2>1. c.pc \in Referred /\ c.pc \in Referred \cap Early /\ "verify" \in Referred
    BY <1>1 DEF GetBlock, Referred, Early
  <2>2. CASE FailMissing(g, c.cid)
    <3>1. MayFail(g, "missing")
      BY <2>1 DEF MayFail, Refusals
    <3> QED
      BY <2>2, <3>1, FailServes
  <2>3. CASE Fail(g, "decode") /\ ~Decodes(c.cid)
    <3>1. MayFail(g, "decode")
      BY <2>1, <2>3 DEF MayFail, Accepts
    <3> QED
      BY <2>3, <3>1, FailServes
  <2>4. CASE Goto(g, "verify")
    BY <2>1, <2>4, GotoServes
  <2> QED
    BY <1>1, <2>2, <2>3, <2>4 DEF GetBlock
<1>2. CASE Unavailable(g)
  <2>1. MayFail(g, "unavailable")
    BY <1>2 DEF Unavailable, MayFail, Refusals, Referred
  <2> QED
    BY <1>2, <2>1, FailServes DEF Unavailable
<1>3. ASSUME NEW w \in Fetches, WorkStep(g, w) PROVE Serves
  <2>1. get' = get
    BY <1>3 DEF WorkStep, FetchCert, Answer
  <2> QED
    BY <2>1, SameSeen
<1> QED
  BY <1>1, <1>2, <1>3, CallServes, GetRefServes, VerifyServes, VerifyKeyServes,
     VerifyIssuerServes, AwaitServes, CheckServes DEF GetterStep, CallStep

\* What publishers and others put at a path.
LEMMA PutServes ==
    ASSUME SysInv, get' = get,
           \/ vstore' = vstore
           \/ \E p \in Paths, x \in References : vstore' = [vstore EXCEPT ![p] = x]
    PROVE  Serves
<1>1. seen' = seen
  BY DEF seen
<1> QED
  BY <1>1 DEF Serves, Service!serviceVars, Service!ServiceNext, Service!Put

LEMMA StepServes == SysInv /\ [Next]_vars => Serves
<1> SUFFICES ASSUME SysInv, [Next]_vars PROVE Serves
  OBVIOUS
<1>1. CASE PubNext /\ UNCHANGED getVars
  <2>1. PICK u \in Publishers : PublishStep(u)
    BY <1>1 DEF PubNext
  <2>2. pub[u].pc = "ref" => RecordCid(pub[u].rec) \in References /\ pub[u].key \in Paths
    BY DEF SysInv, Idle, Jobs, References
  <2>3. \/ vstore' = vstore
        \/ \E p \in Paths, x \in References : vstore' = [vstore EXCEPT ![p] = x]
    BY <2>1, <2>2 DEF PublishStep, Publish, publishRecord, publishRecordFails,
       publishRecordRef, publishRecordRefFails, Crash
  <2> QED
    BY <1>1, <2>3, PutServes DEF getVars
<1>2. CASE GetNext /\ UNCHANGED <<pub, acked>>
  <2>1. PICK g \in Getters : GetterStep(g)
    BY <1>2 DEF GetNext, GetterStep
  <2> QED
    BY <2>1, GetterServes
<1>3. CASE \E f \in ForeignPuts : ForeignPut(f) /\ UNCHANGED getVars
  <2>1. PICK f \in ForeignPuts : ForeignPut(f) /\ UNCHANGED getVars
    BY <1>3
  <2>2. f.path \in Paths /\ f.ref \in References
    BY ValueAssumption DEF References
  <2> QED
    BY <2>1, <2>2, PutServes DEF ForeignPut, getVars
<1>4. CASE UNCHANGED vars
  BY <1>4, PutServes DEF vars
<1> QED
  BY <1>1, <1>2, <1>3, <1>4 DEF Next

(***************************************************************************)
(* The record system implements the name service: what Resolve makes of a  *)
(* path is decided by the one reference it reads there; a refusal and      *)
(* "not found" mean what they say, and only errors of the services stand   *)
(* between a rightful reference and its value (iprs.go:83-131, cert.go).   *)
(***************************************************************************)
THEOREM RecordSystemServes == Spec => ImplementsNameService
<1>1. Init => Service!ServiceInit
  <2> SUFFICES ASSUME Init PROVE Service!ServiceInit
    OBVIOUS
  <2>1. \A g \in Getters : get[g].pc = "idle"
    BY DEF Init, GetInit, NoCall
  <2>2. seen = [g \in Getters |-> [pc |-> "idle"]]
    BY <2>1, SeenCases DEF seen
  <2> QED
    BY <2>2 DEF Init, Service!ServiceInit
<1>2. SysInv /\ [Next]_vars => [Service!ServiceNext]_(Service!serviceVars)
  BY StepServes DEF Serves
<1> QED
  BY <1>1, <1>2, RecordSystemInvariant, PTL DEF Spec, ImplementsNameService,
     Service!ServiceSpec

(***************************************************************************)
(* A path accepts every rightful record whose value resolvers can take     *)
(* further, so that the service refuses none of them (key.go:40-57,        *)
(* cert.go:88-135).                                                        *)
(***************************************************************************)
THEOREM RightfulAreAcceptable ==
    ASSUME NEW p, NEW r \in RightfulRecs(p), r.block.value \in Targets
    PROVE  Accepts(p, RecordCid(r))
<1> DEFINE c == RecordCid(r)
<1>1. c \in Nodes /\ c # Junk /\ c.of = r.block
  <2>1. r \in Recs
    BY DEF RightfulRecs
  <2>2. c \in Cids
    BY <2>1 DEF Cids, Closure
  <2> QED
    BY <2>2, ValueAssumption DEF Nodes, RecordCid, IprsCid
<1>2. Decodes(c) /\ c.of.vfnType \in {VerificationType_Key, VerificationType_Cert}
  BY RightfulBlock
<1>3. CASE c.of.vfnType = VerificationType_Key
  <2>1. p.cid = PubKeyCid(r.signer.pk) /\ KeySignatureOk(r.signer.pk, c.of)
    BY <1>3, RightfulBlock
  <2>2. p.cid.codec = "pubk" /\ p.cid.of = r.signer.pk
    BY <2>1 DEF PubKeyCid
  <2> QED
    BY <1>1, <1>2, <1>3, <2>1, <2>2 DEF Accepts
<1>4. CASE c.of.vfnType = VerificationType_Cert
  <2>1. /\ c.of.vfn.type \in {"cid", "link"}
        /\ toCid(c.of.vfn) = CertCid(r.signer.cert)
    BY <1>4, RightfulBlock
  <2>2. PICK ca \in Certs : p.cid = CertCid(ca) /\ CertSignatureOk(r.signer.cert, ca, c.of)
    BY <1>4, RightfulBlock
  <2>3. /\ toCid(c.of.vfn).codec = "cert" /\ toCid(c.of.vfn).of = r.signer.cert
        /\ p.cid.codec = "cert" /\ p.cid.of = ca
    BY <2>1, <2>2 DEF CertCid
  <2> QED
    BY <1>1, <1>2, <1>4, <2>1, <2>2, <2>3, CertAccepts
<1> QED
  BY <1>2, <1>3, <1>4
=============================================================================
