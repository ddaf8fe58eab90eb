--------------------------- MODULE RecordSelection ---------------------------
(***************************************************************************)
(* Choosing among the records that were found for one path (SelectRecord   *)
(* of record/validation.go, eol.go and range.go).  A value store calls it  *)
(* with the records in the order in which peers sent them.                 *)
(*                                                                         *)
(* A record is reduced to its validity and its CID; the number in place of *)
(* the CID stands for the order of the CIDs' bytes.                        *)
(***************************************************************************)
EXTENDS Validity

CONSTANTS
    Recs,     \* the records there are
    Batches,  \* the arguments of SelectRecord: sequences of records
    NoRec,    \* a nil *Record
    Times     \* instants at which the chosen record may be asked for

Known == {ValidationType_EOL, ValidationType_TimeRange}

Parses(type, b) == IF type = ValidationType_EOL THEN EolParses(b) ELSE RangeParses(b)

ASSUME NilAssumption == Nil \notin Int
ASSUME TimesAssumption == Times \subseteq Int
ASSUME RecsAssumption ==
    /\ NoRec \notin Recs
    /\ Batches \subseteq Seq(Recs \cup {NoRec})
    /\ \A b \in Recs :
         /\ b.cid \in Int
         /\ EolParses(b) => EolOf(b) \in Int
         /\ RangeParses(b) => StartOf(b) \in Int \cup {Nil} /\ EndOf(b) \in Int \cup {Nil}

VARIABLES
    recs,    \* the argument
    master,  \* whether the master checker is called, or one for a type
    type,    \* the type of the checker whose loop runs
    usable,  \* the records this loop is given
    i,       \* the index of the next record, from 1
    best,    \* best_i, from 1; 0 in place of -1
    pc

vars == <<recs, master, type, usable, i, best, pc>>

\* The master checker takes no nil record: it would dereference it.
Init ==
    /\ recs \in Batches
    /\ i = 1
    /\ best = 0
    /\ \/ /\ master = TRUE
          /\ \A j \in DOMAIN recs : recs[j] # NoRec
          /\ type = ValidationType_EOL
          /\ usable = <<>>
          /\ pc = "filter"
       \/ /\ master = FALSE
          /\ type \in Known
          /\ usable = recs
          /\ pc = "select"

-----------------------------------------------------------------------------
(***************************************************************************)
(* The master checker keeps the records of a known type that is the type   *)
(* of the first one kept, and leaves the choice to the checker for the     *)
(* type of the first record of all.                                        *)
(***************************************************************************)
CheckRecord ==
    /\ pc = "filter"
    /\ i <= Len(recs)
    /\ usable' = IF /\ recs[i].vdnType \in Known
                    /\ usable = <<>> \/ recs[i].vdnType = usable[1].vdnType
                 THEN Append(usable, recs[i])
                 ELSE usable
    /\ i' = i + 1
    /\ UNCHANGED <<recs, master, type, best, pc>>

DispatchUnchecked ==  \* mutant: the checker of the first record's type, known or not
    /\ pc = "filter"
    /\ i > Len(recs)
    /\ IF recs = <<>>
       THEN pc' = "error" /\ UNCHANGED <<type, i>>
       ELSE pc' = "select" /\ type' = recs[1].vdnType /\ i' = 1
    /\ UNCHANGED <<recs, master, usable, best>>

Dispatch ==
    /\ pc = "filter"
    /\ i > Len(recs)
    /\ IF recs = <<>> \/ recs[1].vdnType \notin Known
       THEN pc' = "error" /\ UNCHANGED <<type, i>>
       ELSE pc' = "select" /\ type' = recs[1].vdnType /\ i' = 1
    /\ UNCHANGED <<recs, master, usable, best>>

-----------------------------------------------------------------------------
EolBeatsNoTie(r, b) == EolOf(r) > EolOf(b)  \* mutant: a tie keeps the earlier record

EolBeatsEarliest(r, b) ==  \* mutant: Before in place of After
    \/ EolOf(r) < EolOf(b)
    \/ EolOf(r) = EolOf(b) /\ r.cid > b.cid

(***************************************************************************)
(* The loops of the two checkers: when the record at hand replaces the     *)
(* best one so far.  Times are compared as instants, but t[0] == bestt[0]  *)
(* and t[1] == bestt[1] compare pointers, which only two nils pass.        *)
(***************************************************************************)
EolBeats(r, b) ==
    \/ EolOf(r) > EolOf(b)
    \/ EolOf(r) = EolOf(b) /\ r.cid > b.cid

Later(s, t) == t # Nil /\ (s = Nil \/ s > t)
Earlier(s, t) == t # Nil /\ (s = Nil \/ s < t)
SamePointer(s, t) == s = Nil /\ t = Nil

RangeBeatsNilLast(r, b) ==  \* mutant: a nil end is not the latest
    EndOf(r) # Nil /\ EndOf(b) # Nil /\ EndOf(r) > EndOf(b)

RangeBeats(r, b) ==
    \/ Later(EndOf(r), EndOf(b))
    \/ /\ SamePointer(EndOf(r), EndOf(b))
       /\ \/ Earlier(StartOf(r), StartOf(b))
          \/ SamePointer(StartOf(r), StartOf(b)) /\ r.cid > b.cid

Beats(r, b) == IF type = ValidationType_EOL THEN EolBeats(r, b) ELSE RangeBeats(r, b)

Compare ==
    /\ pc = "select"
    /\ i <= Len(usable)
    /\ best' =
         LET r == usable[i]
             replaces == \/ best = 0
                         \/ /\ Parses(type, r) /\ Parses(type, usable[best])
                            /\ Beats(r, usable[best])
         IN  IF r # NoRec /\ replaces THEN i ELSE best
    /\ i' = i + 1
    /\ UNCHANGED <<recs, master, type, usable, pc>>

Return ==
    /\ pc = "select"
    /\ i > Len(usable)
    /\ pc' = IF best = 0 THEN "error" ELSE "done"
    /\ UNCHANGED <<recs, master, type, usable, i, best>>

Next == CheckRecord \/ Dispatch \/ Compare \/ Return

Spec == Init /\ [][Next]_vars

-----------------------------------------------------------------------------
TypeOK ==
    /\ recs \in Batches
    /\ master \in BOOLEAN
    /\ type \in Known
    /\ usable \in Seq(Recs \cup {NoRec})
    /\ i \in Nat \ {0}
    /\ best \in Nat
    /\ best <= Len(usable)
    /\ pc \in {"filter", "select", "error", "done"}

AllParse == \A j \in DOMAIN usable : usable[j] # NoRec => Parses(type, usable[j])

EolBestSoFar(n) ==
    \A j \in 1..n : j \in DOMAIN usable /\ usable[j] # NoRec =>
        usable[j] = usable[best] \/ ~EolBeats(usable[j], usable[best])

RangeBestSoFar(n) ==
    \A j \in 1..n : j \in DOMAIN usable /\ usable[j] # NoRec =>
        ~Later(EndOf(usable[j]), EndOf(usable[best]))

(***************************************************************************)
(* The loop invariant of the checkers: the best record is one of those     *)
(* seen, there is one as soon as a record was seen, and if all records     *)
(* parse none of those seen is better.                                     *)
(***************************************************************************)
SelectInv ==
    /\ pc = "filter" => best = 0
    /\ pc \in {"select", "done"} =>
         /\ best < i
         /\ best = 0 => \A j \in 1..(i - 1) : j \in DOMAIN usable => usable[j] = NoRec
         /\ best # 0 /\ AllParse =>
              /\ usable[best] # NoRec
              /\ IF type = ValidationType_EOL
                 THEN EolBestSoFar(i - 1)
                 ELSE RangeBestSoFar(i - 1)
    /\ pc = "done" => best # 0 /\ i > Len(usable)

(***************************************************************************)
(* Of records that parse, the chosen one lasts longest: at no time is it   *)
(* expired while another one would still be accepted by ValidateRecord.    *)
(***************************************************************************)
Validate(b, now) ==
    IF type = ValidationType_EOL THEN EolValidate(b, now) ELSE RangeValidate(b, now)

ChosenLastsLongest ==
    pc = "done" /\ AllParse =>
        \A j \in DOMAIN usable, now \in Times :
            usable[j] # NoRec /\ Validate(usable[j], now) = "ok" =>
                Validate(usable[best], now) # "expired"

(***************************************************************************)
(* "just compare bytes to make sure its deterministic" (record/eol.go:99): *)
(* of EOL records that parse, the chosen one does not depend on their      *)
(* order, as it beats every other.                                         *)
(***************************************************************************)
EolChoiceIsDeterministic ==
    pc = "done" /\ AllParse /\ type = ValidationType_EOL =>
        \A j \in DOMAIN usable :
            usable[j] # NoRec /\ usable[j] # usable[best] =>
                \/ EolOf(usable[j]) < EolOf(usable[best])
                \/ /\ EolOf(usable[j]) = EolOf(usable[best])
                   /\ usable[j].cid <= usable[best].cid

(***************************************************************************)
(* "If records are valid until an equal time, best record is the one       *)
(* that's valid since the longest time in the past" (record/range.go:121). *)
(***************************************************************************)
EqualEndsPreferEarlierStart ==
    pc = "done" /\ AllParse /\ type = ValidationType_TimeRange =>
        \A j \in DOMAIN usable :
            usable[j] # NoRec /\ EndOf(usable[j]) = EndOf(usable[best]) =>
                ~Earlier(StartOf(usable[j]), StartOf(usable[best]))

(***************************************************************************)
(* "Selects the best (most valid) record" (record/record.go:28): what the  *)
(* master checker returns is an index into its own argument, at the record *)
(* that the checker of its type chose.                                     *)
(***************************************************************************)
MasterReturnsChosen ==
    pc = "done" /\ master => best \in DOMAIN recs /\ recs[best] = usable[best]
=============================================================================
