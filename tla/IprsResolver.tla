----------------------------- MODULE IprsResolver -----------------------------
(***************************************************************************)
(* Resolving a path to a verified value (resolver/iprs.go, with the        *)
(* verifiers of record/verification.go, key.go, cert.go and the fetches of *)
(* record/pubk.go and certificate/manager.go), without the cache in front  *)
(* of it, which ResolverCache models.                                      *)
(*                                                                         *)
(* A call reads the value store once and the DAG up to three times, and    *)
(* anything may be stored between the reads.  When the certificate and its *)
(* issuer differ, two goroutines fetch them and answer on a channel; the   *)
(* call returns on the first error and leaves the other goroutine behind.  *)
(***************************************************************************)
EXTENDS Records

CONSTANTS
    Getters,  \* goroutines calling Resolve
    Paths,    \* paths that are resolved
    None,     \* the value store holds nothing
    Junk      \* bytes that cid.Cast refuses

ASSUME PathsAssumption == \A p \in Paths : BasePath(p) \in Paths

VARIABLES
    dag,     \* CIDs of the nodes the DAG service holds
    vstore,  \* the bytes at each path of the value store, or None
    get,     \* the Resolve call of each getter
    work,    \* the goroutines getCerts started for the call
    resp     \* the channel they answer on

getVars == <<get, work, resp>>

Fetches == {"cert", "issuer"}

RespUnbuffered == 0  \* mutant: make(chan error)

RespCap == 2

NoCall == [pc |-> "idle"]

GetInit ==
    /\ get = [g \in Getters |-> NoCall]
    /\ work = [g \in Getters |-> [w \in Fetches |-> "off"]]
    /\ resp = [g \in Getters |-> <<>>]

-----------------------------------------------------------------------------
(***************************************************************************)
(* How a call ends.  missing is history: the node a fetch did not find.    *)
(***************************************************************************)
Fail(g, why) ==
    get' = [get EXCEPT ![g] = [pc |-> "failed", path |-> get[g].path, cid |-> get[g].cid,
                               why |-> why, missing |-> None]]

FailMissing(g, c) ==
    get' = [get EXCEPT ![g] = [pc |-> "failed", path |-> get[g].path, cid |-> get[g].cid,
                               why |-> "missing", missing |-> c]]

\* A verified record: its value is returned if the resolver can take it further.
Finish(g) ==
    LET b == get[g].cid.of
    IN  IF b.value \in Targets
        THEN get' = [get EXCEPT ![g] = [pc |-> "ok", path |-> get[g].path, cid |-> get[g].cid,
                                        val |-> b.value, eol |-> getEol(b)]]
        ELSE Fail(g, "target")

Goto(g, pc) == get' = [get EXCEPT ![g].pc = pc]

-----------------------------------------------------------------------------
\* Resolve is called.  (A call of the model starts when the goroutines of the
\* getter's last call have ended; in the code they do not share anything.)
Resolve(g, p) ==
    /\ get[g].pc \in {"idle", "ok", "failed"}
    /\ \A w \in Fetches : work[g][w] = "off"
    /\ get' = [get EXCEPT ![g] = [pc |-> "ref", path |-> p, cid |-> None]]
    /\ resp' = [resp EXCEPT ![g] = <<>>]
    /\ UNCHANGED <<dag, vstore, work>>

\* vstore.GetValue at the base path, and cid.Cast on the bytes.
GetRef(g) ==
    /\ get[g].pc = "ref"
    /\ LET b == vstore[BasePath(get[g].path)]
       IN  CASE b = None -> Fail(g, "notfound")
             [] b = Junk -> Fail(g, "cast")
             [] OTHER -> get' = [get EXCEPT ![g].pc = "block", ![g].cid = b]
    /\ UNCHANGED <<dag, vstore, work, resp>>

\* dag.Get and DecodeIprsBlock.
GetBlock(g) ==
    /\ get[g].pc = "block"
    /\ CASE get[g].cid \notin dag -> FailMissing(g, get[g].cid)
         [] get[g].cid \in dag /\ ~Decodes(get[g].cid) -> Fail(g, "decode")
         [] OTHER -> Goto(g, "verify")
    /\ UNCHANGED <<dag, vstore, work, resp>>

\* The value store or the DAG fails to answer, the context ends, or what the
\* DAG holds does not unmarshal to a key or a certificate.
Unavailable(g) ==
    /\ get[g].pc \in {"ref", "block", "pubk", "cert"}
    /\ Fail(g, "unavailable")
    /\ UNCHANGED <<dag, vstore, work, resp>>

-----------------------------------------------------------------------------
(***************************************************************************)
(* Verify dispatches on the verification type.  VerifyRecord for           *)
(* certificates converts the verification data to a CID; getCerts fetches  *)
(* once if it is the issuer's, and otherwise starts two goroutines.        *)
(***************************************************************************)
Verify(g) ==
    LET b == get[g].cid.of
        issuer == get[g].path.cid
    IN
    /\ get[g].pc = "verify"
    /\ \/ /\ b.vfnType \notin {VerificationType_Key, VerificationType_Cert}
          /\ Fail(g, "type")
          /\ UNCHANGED work
       \/ /\ b.vfnType = VerificationType_Key
          /\ Goto(g, "pubk")
          /\ UNCHANGED work
       \/ /\ b.vfnType = VerificationType_Cert
          /\ b.vfn.type \notin {"cid", "link"}
          /\ Fail(g, "type")
          /\ UNCHANGED work
       \/ /\ b.vfnType = VerificationType_Cert
          /\ b.vfn.type \in {"cid", "link"}
          /\ toCid(b.vfn) = issuer
          /\ Goto(g, "cert")
          /\ UNCHANGED work
       \/ /\ b.vfnType = VerificationType_Cert
          /\ b.vfn.type \in {"cid", "link"}
          /\ toCid(b.vfn) # issuer
          /\ get' = [get EXCEPT ![g] = [pc |-> "wait", path |-> get[g].path,
                                        cid |-> get[g].cid, got |-> 0]]
          /\ work' = [work EXCEPT ![g] = [w \in Fetches |-> "fetch"]]
    /\ UNCHANGED <<dag, vstore, resp>>

\* KeyRecordVerifier.VerifyRecord: GetPublicKey and the signature.
VerifyKey(g) ==
    LET c == get[g].path.cid
        b == get[g].cid.of
    IN
    /\ get[g].pc = "pubk"
    /\ CASE c.codec # "pubk" -> Fail(g, "codec")
         [] c.codec = "pubk" /\ c \notin dag -> FailMissing(g, c)
         [] c.codec = "pubk" /\ c \in dag /\ ~KeySignatureOk(c.of, b) -> Fail(g, "signature")
         [] OTHER -> Finish(g)
    /\ UNCHANGED <<dag, vstore, work, resp>>

\* CertRecordVerifier.VerifyRecord with the issuer's own certificate.
VerifyIssuer(g) ==
    LET c == get[g].path.cid
        b == get[g].cid.of
    IN
    /\ get[g].pc = "cert"
    /\ CASE c.codec # "cert" -> Fail(g, "codec")
         [] c.codec = "cert" /\ c \notin dag -> FailMissing(g, c)
         [] c.codec = "cert" /\ c \in dag /\ ~CertSignatureOk(c.of, c.of, b) ->
                Fail(g, "signature")
         [] OTHER -> Finish(g)
    /\ UNCHANGED <<dag, vstore, work, resp>>

-----------------------------------------------------------------------------
(***************************************************************************)
(* The goroutines of getCerts.                                             *)
(***************************************************************************)

FetchCidSwapped(g, w) ==  \* mutant: the results are assigned the wrong way round
    IF w = "issuer" THEN toCid(get[g].cid.of.vfn) ELSE get[g].path.cid

FetchCid(g, w) == IF w = "cert" THEN toCid(get[g].cid.of.vfn) ELSE get[g].path.cid

FetchCertSilent(g, w) ==  \* mutant: a goroutine whose fetch fails sends nothing
    LET c == FetchCid(g, w) IN
    /\ work[g][w] = "fetch"
    /\ \E r \in (IF c.codec = "cert" /\ c \in dag THEN {"ok", "off"} ELSE {"off"}) :
           work' = [work EXCEPT ![g][w] = r]
    /\ UNCHANGED <<dag, vstore, get, resp>>

\* GetCertificate: the codec, then the DAG.
FetchCert(g, w) ==
    LET c == FetchCid(g, w) IN
    /\ work[g][w] = "fetch"
    /\ \E r \in (IF c.codec # "cert" THEN {"codec"}
                 ELSE IF c \notin dag THEN {"missing", "unavailable"}
                 ELSE {"ok", "unavailable"}) :
           work' = [work EXCEPT ![g][w] = r]
    /\ UNCHANGED <<dag, vstore, get, resp>>

\* resp <- err: waits for room in the channel, or for the receiver.
Answer(g, w) ==
    /\ work[g][w] \notin {"off", "fetch"}
    /\ Len(resp[g]) < RespCap \/ (resp[g] = <<>> /\ get[g].pc = "wait")
    /\ resp' = [resp EXCEPT ![g] = Append(@, [from |-> w, res |-> work[g][w]])]
    /\ work' = [work EXCEPT ![g][w] = "off"]
    /\ UNCHANGED <<dag, vstore, get>>

\* err = <-resp: the first error ends the call, the second nil the wait.
Await(g) ==
    /\ get[g].pc = "wait"
    /\ resp[g] # <<>>
    /\ LET r == Head(resp[g])
       IN  CASE r.res = "ok" ->
                  get' = [get EXCEPT ![g].got = @ + 1,
                                     ![g].pc = IF get[g].got = 1 THEN "check" ELSE "wait"]
             [] r.res = "missing" -> FailMissing(g, FetchCid(g, r.from))
             [] OTHER -> Fail(g, r.res)
    /\ resp' = [resp EXCEPT ![g] = Tail(@)]
    /\ UNCHANGED <<dag, vstore, work>>

\* VerifyRecord after getCerts: the issuer's signature on the certificate, then
\* the certificate's on the record.
CheckCerts(g) ==
    /\ get[g].pc = "check"
    /\ IF CertSignatureOk(FetchCid(g, "cert").of, FetchCid(g, "issuer").of, get[g].cid.of)
       THEN Finish(g)
       ELSE Fail(g, "signature")
    /\ UNCHANGED <<dag, vstore, work, resp>>

-----------------------------------------------------------------------------
CallStep(g) ==
    \/ GetRef(g)
    \/ GetBlock(g)
    \/ Unavailable(g)
    \/ Verify(g)
    \/ VerifyKey(g)
    \/ VerifyIssuer(g)
    \/ Await(g)
    \/ CheckCerts(g)

WorkStep(g, w) == FetchCert(g, w) \/ Answer(g, w)

GetNext ==
    \E g \in Getters :
        \/ \E p \in Paths : Resolve(g, p)
        \/ CallStep(g)
        \/ \E w \in Fetches : WorkStep(g, w)
=============================================================================
