-------------------------------- MODULE Bytes --------------------------------
(***************************************************************************)
(* Strings of bytes, as far as it matters where one ends and the next      *)
(* begins: what a signature covers is several of them, joined without a    *)
(* separator (record/sigprep.go, resolver/ipns.go).  A string is a         *)
(* sequence of chunks, and a chunk is a pair.                              *)
(***************************************************************************)
EXTENDS Integers, Sequences

Text(x) == <<"text", x>>      \* some bytes
Digit(n) == <<"digit", n>>    \* a number as fmt.Sprint writes it
Cid(c) == <<"cid", c>>        \* the bytes of a CID

IsBytes(s) == s \in Seq({s[i] : i \in DOMAIN s})

(***************************************************************************)
(* FormatRFC3339 and ParseRFC3339 (go-ipfs-util).  A formatted time has    *)
(* zeros in it, which can be taken for the types of a record, with what    *)
(* precedes them for a part of its value; what is left of it then is no    *)
(* time.  (An instant has one spelling here; ParseRFC3339 also takes those *)
(* with a zone.)                                                           *)
(***************************************************************************)
FormatRFC3339(t) == <<Digit(0), Digit(0), <<"time", t>>>>

Instant(s) == s[3][2]
ParsesAsTime(s) == Len(s) = 3 /\ s = FormatRFC3339(Instant(s))
=============================================================================
