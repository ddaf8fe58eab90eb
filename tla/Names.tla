-------------------------------- MODULE Names --------------------------------
(***************************************************************************)
(* Names and what they denote: the paths of path/path.go and               *)
(* path/target.go, and the Accept and Resolve of the three resolvers up to *)
(* and after their lookup.                                                 *)
(*                                                                         *)
(* A path or record value is the sequence of its parts between slashes, so *)
(* that /a/b is <<"", "a", "b">>.  A part is a CID in string form, a       *)
(* domain, the bytes of a CID or of a multihash, "." or "..", or some      *)
(* other word.                                                             *)
(***************************************************************************)
EXTENDS Integers, Sequences

CONSTANTS
    CidParts,     \* parts that cid.Decode takes: CIDs in string form
    RawParts,     \* values that cid.Cast or multihash.Cast take: raw bytes
    CidIn,        \* the CID that a member of CidParts or RawParts denotes
    DomainParts   \* parts that IsDomain takes

ASSUME PartsAssumption ==
    /\ (CidParts \cup RawParts) \cap DomainParts = {}
    /\ DOMAIN CidIn = CidParts \cup RawParts

None == <<"none">>

IsPath(t) == t \in Seq({t[i] : i \in DOMAIN t})

\* The items of s at the places in keep, in their order: up to each place, and all.
KeptUpTo(s, keep) ==
    LET upTo[i \in 0..Len(s)] ==
            IF i = 0 THEN <<>>
            ELSE IF i \in keep THEN Append(upTo[i - 1], s[i])
            ELSE upTo[i - 1]
    IN  upTo

Kept(s, keep) == KeptUpTo(s, keep)[Len(s)]

NonEmpty(s) == Kept(s, {i \in DOMAIN s : s[i] # ""})
From(s, n) == SubSeq(s, n, Len(s))

AppendSwapped(a1, a2) == NonEmpty(a2 \o a1)  \* mutant: the outer parts first

appendParts(a1, a2) == NonEmpty(a1 \o a2)

-----------------------------------------------------------------------------
(***************************************************************************)
(* What the three resolvers accept.  getResolver asks DNS, IPRS and IPNS   *)
(* in this order.                                                          *)
(***************************************************************************)
AcceptsDns(t) == Len(t) > 2 /\ t[3] \in DomainParts

\* IsValid: FromString returns no error.
AcceptsIprs(t) ==
    /\ Len(t) >= 4
    /\ t[1] = "" /\ t[2] = "iprs"
    /\ \A i \in 2..Len(t) : t[i] # ""
    /\ t[3] \in CidParts

AcceptsIpns(t) == Len(t) >= 3 /\ t[2] = "ipns" /\ t[3] \in CidParts

Accepted(t) == AcceptsDns(t) \/ AcceptsIprs(t) \/ AcceptsIpns(t)

ByDns(t) == AcceptsDns(t)
ByIprs(t) == ~AcceptsDns(t) /\ AcceptsIprs(t)
ByIpns(t) == ~AcceptsDns(t) /\ ~AcceptsIprs(t) /\ AcceptsIpns(t)

-----------------------------------------------------------------------------
(***************************************************************************)
(* Parts of an IPRS path.  path.Clean drops "." and lets ".." take the     *)
(* part before it away, though not the root.                               *)
(***************************************************************************)
Clean(segs, p) ==
    CASE p \in {"", "."} -> segs
      [] p = ".." -> IF segs = <<>> THEN segs ELSE SubSeq(segs, 1, Len(segs) - 1)
      [] OTHER -> Append(segs, p)

CleanedUpTo(t) ==
    LET upTo[i \in 0..Len(t)] == IF i = 0 THEN <<>> ELSE Clean(upTo[i - 1], t[i])
    IN  upTo

Segments(t) ==
    LET segs == CleanedUpTo(t)[Len(t)]
    IN  IF segs = <<>> THEN <<"">> ELSE segs

\* BasePath and RelativePath index the segments, and panic if there are fewer.
HasBasePath(t) == Len(Segments(t)) >= 3

BasePath(t) == <<"", "iprs">> \o SubSeq(Segments(t), 2, 3)

RelativePath(t) == From(Segments(t), 4)

-----------------------------------------------------------------------------
(***************************************************************************)
(* The key that a resolver looks up for a path, and the parts it leaves.   *)
(***************************************************************************)
KeyOf(t) ==
    CASE ByDns(t) -> <<t[3]>>
      [] ByIprs(t) -> BasePath(t)
      [] OTHER -> <<"", "ipns", t[3]>>

RestOf(t) == IF ByIprs(t) THEN RelativePath(t) ELSE From(t, 4)

\* IprsResolver.GetValue parses the key again, and a cleaned one may be no path.
Refused(t) == ByIprs(t) /\ ~AcceptsIprs(BasePath(t))

-----------------------------------------------------------------------------
\* ParseTargetToCid: raw bytes, /ipfs/<cid>/..., <cid>/...; else an error.
ParsesRaw(t) == Len(t) = 1 /\ t[1] \in RawParts
ParsesIpfs(t) == Len(t) > 2 /\ t[1] = "" /\ t[2] = "ipfs" /\ t[3] \in CidParts
ParsesCid(t) == t[1] \in CidParts

Parses(t) == ParsesRaw(t) \/ ParsesIpfs(t) \/ ParsesCid(t)

TargetCid(t) ==
    CASE ParsesRaw(t) -> CidIn[t[1]]
      [] ParsesIpfs(t) -> CidIn[t[3]]
      [] OTHER -> CidIn[t[1]]

TargetRest(t) ==
    CASE ParsesRaw(t) -> <<>>
      [] ParsesIpfs(t) -> From(t, 4)
      [] OTHER -> From(t, 2)

AlwaysResolvable(t) == TRUE  \* mutant: values are not looked at

IsResolvable(t) == Parses(t) \/ Accepted(t)
=============================================================================
