------------------------------- MODULE Validity -------------------------------
(***************************************************************************)
(* How long a record is good for (record/eol.go, range.go): what a record  *)
(* says of it, what the CBOR codec makes of that (ipld/iprs.go), and what  *)
(* is read back from it (ParseValidation, getEol, ValidateRecord).         *)
(***************************************************************************)
EXTENDS Bytes

CONSTANT Nil  \* a nil *time.Time

-----------------------------------------------------------------------------
(***************************************************************************)
(* The interface{} values that Verification and Validation pass around,    *)
(* tagged with their Go type, and what the CBOR codec makes of them: "The  *)
(* CBOR encoder encodes CIDs as links", and a []string comes back as a     *)
(* []interface{}.                                                          *)
(***************************************************************************)
GoNil == [type |-> "nil"]
GoCid(c) == [type |-> "cid", cid |-> c]
GoLink(c) == [type |-> "link", cid |-> c]
GoString(s) == [type |-> "string", str |-> s]
GoStrings(s) == [type |-> "[]string", strs |-> s]
GoArray(a) == [type |-> "[]interface", elems |-> a]

Cbor(o) ==
    CASE o.type = "cid" -> GoLink(o.cid)
      [] o.type = "[]string" -> GoArray([i \in DOMAIN o.strs |-> GoString(o.strs[i])])
      [] OTHER -> o

-----------------------------------------------------------------------------
(***************************************************************************)
(* Validation: how long a record is good for.                              *)
(***************************************************************************)
ValidationType_EOL == 0
ValidationType_TimeRange == 1

EolValidation(t) == [kind |-> "eol", eol |-> t]
RangeValidation(start, end) == [kind |-> "range", start |-> start, end |-> end]

\* NewRangeRecordValidation refuses a range that ends before it starts.
RangeAllowed(start, end) == ~(start # Nil /\ end # Nil /\ start > end)

ValidationType(vl) ==
    IF vl.kind = "eol" THEN ValidationType_EOL ELSE ValidationType_TimeRange

MinusInf == <<Text("-inf")>>
PlusInf == <<Text("inf")>>

Validation(vl) ==
    IF vl.kind = "eol"
    THEN GoString(FormatRFC3339(vl.eol))
    ELSE GoStrings(<<IF vl.start = Nil THEN MinusInf ELSE FormatRFC3339(vl.start),
                     IF vl.end = Nil THEN PlusInf ELSE FormatRFC3339(vl.end)>>)

\* interfaceToStringTuple: what it accepts, and the strings it returns.
IsStringTuple(o) ==
    \/ o.type = "[]string" /\ Len(o.strs) = 2
    \/ /\ o.type = "[]interface" /\ Len(o.elems) = 2
       /\ \A i \in 1..2 : o.elems[i].type = "string"

StringTuple(o) ==
    IF o.type = "[]string" THEN o.strs ELSE [i \in 1..2 |-> o.elems[i].str]

-----------------------------------------------------------------------------
(***************************************************************************)
(* What a decoded record says, if it can be parsed.  RangeParseValidation  *)
(* refuses a range that ends before it starts.                             *)
(***************************************************************************)
EolParses(b) == b.vdn.type = "string" /\ ParsesAsTime(b.vdn.str)

EolOf(b) == Instant(b.vdn.str)

StartOf(b) ==
    LET s == StringTuple(b.vdn)[1] IN IF s = MinusInf THEN Nil ELSE Instant(s)

EndOf(b) ==
    LET s == StringTuple(b.vdn)[2] IN IF s = PlusInf THEN Nil ELSE Instant(s)

RangeParses(b) ==
    /\ IsStringTuple(b.vdn)
    /\ StringTuple(b.vdn)[1] = MinusInf \/ ParsesAsTime(StringTuple(b.vdn)[1])
    /\ StringTuple(b.vdn)[2] = PlusInf \/ ParsesAsTime(StringTuple(b.vdn)[2])
    /\ RangeAllowed(StartOf(b), EndOf(b))

ValidityParses(b) ==
    \/ b.vdnType = ValidationType_EOL /\ EolParses(b)
    \/ b.vdnType = ValidationType_TimeRange /\ RangeParses(b)

\* The end of life a resolver gives the cache: Nil if there is none.
getEol(b) ==
    CASE b.vdnType = ValidationType_EOL /\ EolParses(b) -> EolOf(b)
      [] b.vdnType = ValidationType_TimeRange /\ RangeParses(b) -> EndOf(b)
      [] OTHER -> Nil

(***************************************************************************)
(* ValidateRecord of the two checkers: "ok" for a nil error.               *)
(***************************************************************************)
EolValidate(b, now) ==
    CASE ~EolParses(b) -> "unparsable"
      [] EolParses(b) /\ now > EolOf(b) -> "expired"
      [] OTHER -> "ok"

RangeValidate(b, now) ==
    CASE ~RangeParses(b) -> "unparsable"
      [] RangeParses(b) /\ StartOf(b) # Nil /\ now < StartOf(b) -> "pending"
      [] RangeParses(b) /\ ~(StartOf(b) # Nil /\ now < StartOf(b))
            /\ EndOf(b) # Nil /\ now > EndOf(b) -> "expired"
      [] OTHER -> "ok"
=============================================================================
