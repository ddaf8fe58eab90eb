-------------------------- MODULE MCRecordSelection --------------------------
(***************************************************************************)
(* Instances of RecordSelection for TLC: all sequences of up to three      *)
(* records, with equal and different ends, starts and CIDs, with a nil     *)
(* start or end, a validity that does not parse and a type nobody knows.   *)
(***************************************************************************)
EXTENDS RecordSelection, SequencesExt

Rec(vl, cid) == [vdnType |-> ValidationType(vl), vdn |-> Cbor(Validation(vl)), cid |-> cid]

EolRecs == {Rec(EolValidation(1), 3), Rec(EolValidation(2), 1), Rec(EolValidation(2), 2)}

RangeRecs ==
    {Rec(RangeValidation(0, 2), 1), Rec(RangeValidation(1, 2), 2),
     Rec(RangeValidation(Nil, 1), 3), Rec(RangeValidation(1, Nil), 1),
     Rec(RangeValidation(Nil, Nil), 1), Rec(RangeValidation(Nil, Nil), 2)}

Unparsable == [vdnType |-> ValidationType_EOL, vdn |-> GoNil, cid |-> 4]
UnknownType == [Rec(EolValidation(2), 5) EXCEPT !.vdnType = 7]

MCRecs == EolRecs \cup RangeRecs \cup {Unparsable, UnknownType}

MCBatches == SeqOf(MCRecs \cup {NoRec}, 3)
=============================================================================
