----------------------------- MODULE RecordSystem -----------------------------
(***************************************************************************)
(* The record system (iprs.go): publishers and resolvers that share a DAG  *)
(* service and a value store.  Other peers use the same two services: they *)
(* may put what they like at a path (ForeignPuts), and have put            *)
(* ForeignBlocks in the DAG.                                               *)
(***************************************************************************)
EXTENDS IprsResolver, FiniteSets

CONSTANTS
    Publishers,     \* goroutines calling Publish
    Recs,           \* the records that signers have made with NewRecord
    ForeignBlocks,  \* CIDs of other nodes in the DAG
    ForeignPuts     \* the paths and values that other peers may put in the
                    \* value store

\* Records are made with NewRecord; NewRangeRecordValidation checks a range.
ASSUME RecsAssumption ==
    \A r \in Recs :
        /\ r = NewRecord(r.validation, r.signer, r.block.value)
        /\ Decodes(RecordCid(r))
        /\ IsBytes(r.block.value)
        /\ r.validation.kind \in {"eol", "range"}
        /\ r.validation.kind = "range" => RangeAllowed(r.validation.start, r.validation.end)
        /\ r.signer.kind \in {"key", "cert"}
        /\ r.signer.pk \in PrivKeys
        /\ r.signer.kind = "cert" => r.signer.cert \in Certs

(***************************************************************************)
(* Other peers' nodes: keys and certificates under their codecs, and       *)
(* blocks as the CBOR codec decodes them, which has no []string.  Nobody   *)
(* signs with a key that is not theirs: a signature that verifies is that  *)
(* of a record, which may have been cut into other fields.                 *)
(***************************************************************************)
ASSUME BlocksAssumption ==
    \A c \in ForeignBlocks :
        /\ c = [codec |-> c.codec, of |-> c.of]
        /\ c.codec = "pubk" => c.of \in PrivKeys
        /\ c.codec = "cert" => c.of \in Certs
        /\ Decodes(c) =>
             /\ IsBytes(c.of.value)
             /\ c.of.vdn.type # "[]string"
             /\ \A k \in PrivKeys :
                  KeySignatureOk(k, c.of) => \E r \in Recs : r.block.sig = c.of.sig

VARIABLES pub, acked

\* Record.DependencyNodes: the nodes NewRecord got from the signer.
DependencyNodes(r) == r.nodes

INSTANCE Publisher WITH CidOf <- RecordCid, NodesOf <- DependencyNodes

ASSUME PublisherAssumption == CidsNameRecords /\ NoneIsNothing

\* None is not a value, so that nobody takes away what is at a path; and Junk
\* is not a CID.
ASSUME ValueAssumption ==
    /\ \A r \in Recs : RecordCid(r) # None
    /\ \A f \in ForeignPuts : f.path \in Paths /\ f.ref # None
    /\ Junk \notin {None} \cup ForeignBlocks \cup Cids

vars == <<dag, vstore, get, work, resp, pub, acked>>

Init ==
    /\ GetInit
    /\ dag = ForeignBlocks
    /\ vstore = [p \in Paths |-> None]
    /\ pub = [u \in Publishers |-> Idle]
    /\ acked = {}

ForeignPut(f) ==
    /\ vstore' = [vstore EXCEPT ![f.path] = f.ref]
    /\ UNCHANGED <<dag, pub, acked>>

Next ==
    \/ PubNext /\ UNCHANGED getVars
    \/ GetNext /\ UNCHANGED <<pub, acked>>
    \/ \E f \in ForeignPuts : ForeignPut(f) /\ UNCHANGED getVars

Spec == Init /\ [][Next]_vars

(***************************************************************************)
(* Every fetch answers: the DAG fetches run under a timeout, and the value *)
(* store and the remaining fetches under the caller's context.  So a call  *)
(* that can move does, and so does a goroutine.  Nothing is assumed of     *)
(* publishers or of other peers.                                           *)
(***************************************************************************)
Fairness ==
    \A g \in Getters :
        /\ WF_vars(CallStep(g) /\ UNCHANGED <<pub, acked>>)
        /\ \A w \in Fetches : WF_vars(WorkStep(g, w) /\ UNCHANGED <<pub, acked>>)

FairSpec == Spec /\ Fairness

-----------------------------------------------------------------------------
EndOfLife(vl) == IF vl.kind = "eol" THEN vl.eol ELSE vl.end

\* The records that whoever holds the path's key has a right to publish there.
RightfulRecs(p) == {r \in Recs : Authorised(r.signer, p)}

\* The types are those the record was made with, and the validity can be read.
ReadAsMade(r, b) ==
    /\ b.vfnType = r.block.vfnType
    /\ b.vdnType = r.block.vdnType
    /\ ValidityParses(b)

(***************************************************************************)
(* The value that Resolve returns is part of what the holder of the path's *)
(* key, or of a certificate issued with it, signed for one of its records. *)
(* The signed bytes do not say where the value ends: a block can verify    *)
(* that cuts them elsewhere.  But one that has the record's types and a    *)
(* validity that parses says what the record does: the value and the end   *)
(* of life are those given to NewRecord, before signing, CBOR and the DAG, *)
(* and the signer had a right to the path.                                 *)
(***************************************************************************)
Authentic ==
    \A g \in Getters :
        get[g].pc = "ok" =>
            LET b == get[g].cid.of IN
            \E r \in Recs :
                /\ MaySign(r.signer.pk, get[g].path)
                /\ dataForSig(get[g].val, b) = dataForSig(r.block.value, r.block)
                /\ ReadAsMade(r, b) =>
                     /\ r \in RightfulRecs(get[g].path)
                     /\ get[g].val = r.block.value
                     /\ get[g].eol = EndOfLife(r.validation)

(***************************************************************************)
(* A rightful record is never turned down: once Resolve has its reference, *)
(* neither the decoding nor any of the verifier's checks fails on it.      *)
(***************************************************************************)
RightfulIsAccepted ==
    \A g \in Getters :
        get[g].pc = "failed" /\ get[g].why \in {"decode", "type", "codec", "signature"} =>
            \A r \in RightfulRecs(get[g].path) : get[g].cid # RecordCid(r)

(***************************************************************************)
(* Publish puts the nodes before the reference, so that a resolver that    *)
(* sees a rightful reference finds what it needs in the DAG.  The one node *)
(* Publish leaves to others is the issuer's certificate, when the signer's *)
(* is another.                                                             *)
(***************************************************************************)
OnlyIssuerIsMissing ==
    \A g \in Getters :
        get[g].pc = "failed" /\ get[g].why = "missing" =>
            \A r \in RightfulRecs(get[g].path) :
                get[g].cid = RecordCid(r) =>
                    /\ r.signer.kind = "cert"
                    /\ get[g].missing = get[g].path.cid
                    /\ get[g].missing # SignerCid(r.signer)

(***************************************************************************)
(* "Publish establishes a name-value mapping" (interface.go): after a      *)
(* Publish for a path has returned without error, no Resolve of that path  *)
(* finds the value store empty.                                            *)
(***************************************************************************)
PublishedIsFound ==
    [][\A g \in Getters :
           get[g].pc = "ref" /\ get'[g].pc = "failed" /\ get'[g].why = "notfound" =>
               get[g].path \notin acked]_vars

(***************************************************************************)
(* Resolve as a function of the path and the reference at its base: CIDs   *)
(* name content, so that neither the order of the fetches nor what else is *)
(* in the DAG has a say in what is accepted.                               *)
(***************************************************************************)
Accepts(p, c) ==
    /\ c # Junk
    /\ Decodes(c)
    /\ \/ /\ c.of.vfnType = VerificationType_Key
          /\ p.cid.codec = "pubk"
          /\ KeySignatureOk(p.cid.of, c.of)
       \/ /\ c.of.vfnType = VerificationType_Cert
          /\ c.of.vfn.type \in {"cid", "link"}
          /\ toCid(c.of.vfn).codec = "cert" /\ p.cid.codec = "cert"
          /\ CertSignatureOk(toCid(c.of.vfn).of, p.cid.of, c.of)
    /\ c.of.value \in Targets

AnswerOf(c) == [val |-> c.of.value, eol |-> getEol(c.of)]

References == {RecordCid(r) : r \in Recs} \cup {f.ref : f \in ForeignPuts}

Refusals == {"cast", "decode", "type", "codec", "signature", "target"}

\* What a caller may know of a call.
Seen(c) ==
    CASE c.pc = "idle" -> [pc |-> "idle"]
      [] c.pc = "ref" -> [pc |-> "called", path |-> c.path]
      [] c.pc = "ok" -> [pc |-> "accepted", path |-> c.path,
                         ans |-> [val |-> c.val, eol |-> c.eol]]
      [] c.pc = "failed" ->
           [pc |-> IF c.why = "notfound" THEN "empty"
                   ELSE IF c.why \in Refusals THEN "refused" ELSE "gaveUp",
            path |-> c.path]
      [] OTHER -> [pc |-> "read", path |-> c.path, ref |-> c.cid]

seen == [g \in Getters |-> Seen(get[g])]

Service == INSTANCE NameService WITH
               Refs <- References, BaseOf <- BasePath, holds <- vstore, calls <- seen

(***************************************************************************)
(* Resolving with fetches and goroutines implements the name service: one  *)
(* reading of the value store decides, whatever is stored or published     *)
(* between it and the fetches, and each error says what it means.          *)
(***************************************************************************)
ImplementsNameService == Service!ServiceSpec

(***************************************************************************)
(* Every Resolve returns, and the goroutines it leaves behind on an early  *)
(* error end too: the channel has room for both answers.                   *)
(***************************************************************************)
ResolveReturns ==
    \A g \in Getters : get[g].pc = "ref" ~> get[g].pc \in {"ok", "failed"}

GoroutinesEnd ==
    \A g \in Getters, w \in Fetches : work[g][w] # "off" ~> work[g][w] = "off"

(***************************************************************************)
(* Types.                                                                  *)
(***************************************************************************)
SysTypeOK ==
    /\ dag \subseteq ForeignBlocks \cup Cids
    /\ vstore \in [Paths -> {RecordCid(r) : r \in Recs} \cup {None}
                            \cup {f.ref : f \in ForeignPuts}]
    /\ \A u \in Publishers : pub[u] = Idle \/ pub[u] \in Jobs
    /\ \A g \in Getters :
         /\ get[g].pc \in {"idle", "ref", "block", "verify", "pubk", "cert", "wait",
                           "check", "ok", "failed"}
         /\ \A w \in Fetches :
              work[g][w] \in {"off", "fetch", "ok", "codec", "missing", "unavailable"}
         /\ Len(resp[g]) <= Cardinality(Fetches)
=============================================================================
