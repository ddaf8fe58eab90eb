------------------------ MODULE RecordSelectionProofs ------------------------
(***************************************************************************)
(* Theorems about RecordSelection, for batches of any length.  The loops   *)
(* of the code are steps of the specification, so that what they compute   *)
(* is the invariant SelectInv: no record seen so far beats the best one.   *)
(***************************************************************************)
EXTENDS RecordSelection, TLAPS

SelState == TypeOK /\ SelectInv

(***************************************************************************)
(* What the comparisons need of the records that parse.                    *)
(***************************************************************************)
LEMMA EolIsInt == ASSUME NEW b \in Recs, EolParses(b) PROVE EolOf(b) \in Int
BY RecsAssumption

LEMMA EndIsTime == ASSUME NEW b \in Recs, RangeParses(b) PROVE EndOf(b) \in Int \cup {Nil}
BY RecsAssumption

(***************************************************************************)
(* Once a record beats the best one, it beats or equals what that one      *)
(* beat or equalled: the orders are transitive.                            *)
(***************************************************************************)
LEMMA EolTransitive ==
    ASSUME NEW a \in Recs, NEW b \in Recs, NEW c \in Recs,
           EolParses(a), EolParses(b), EolParses(c),
           EolBeats(c, b), ~EolBeats(a, b)
    PROVE  ~EolBeats(a, c)
<1>1. /\ EolOf(a) \in Int /\ EolOf(b) \in Int /\ EolOf(c) \in Int
      /\ a.cid \in Int /\ b.cid \in Int /\ c.cid \in Int
  BY RecsAssumption
<1> QED
  BY <1>1 DEF EolBeats

LEMMA EolAsymmetric ==
    ASSUME NEW b \in Recs, NEW c \in Recs, EolParses(b), EolParses(c), EolBeats(c, b)
    PROVE  ~EolBeats(b, c)
<1>1. /\ EolOf(b) \in Int /\ EolOf(c) \in Int /\ b.cid \in Int /\ c.cid \in Int
  BY RecsAssumption
<1> QED
  BY <1>1 DEF EolBeats

LEMMA LaterTransitive ==
    ASSUME NEW s \in Int \cup {Nil}, NEW t \in Int \cup {Nil}, NEW u \in Int \cup {Nil},
           ~Later(s, t), ~Later(t, u)
    PROVE  ~Later(s, u)
BY NilAssumption DEF Later

LEMMA LaterAsymmetric ==
    ASSUME NEW s \in Int \cup {Nil}, NEW t \in Int \cup {Nil}, Later(s, t)
    PROVE  ~Later(t, s)
BY NilAssumption DEF Later

LEMMA RangeBeatsLasts ==
    ASSUME NEW b \in Recs, NEW c \in Recs, RangeParses(b), RangeParses(c),
           RangeBeats(c, b)
    PROVE  ~Later(EndOf(b), EndOf(c))
<1>1. EndOf(b) \in Int \cup {Nil} /\ EndOf(c) \in Int \cup {Nil}
  BY EndIsTime
<1>2. CASE Later(EndOf(c), EndOf(b))
  BY <1>1, <1>2, LaterAsymmetric
<1>3. CASE SamePointer(EndOf(c), EndOf(b))
  BY <1>3 DEF SamePointer, Later
<1> QED
  BY <1>2, <1>3 DEF RangeBeats

-----------------------------------------------------------------------------
LEMMA InitHolds == Init => SelState
<1> SUFFICES ASSUME Init PROVE SelState
  OBVIOUS
<1>1. recs \in Seq(Recs \cup {NoRec}) /\ i = 1 /\ best = 0
  BY RecsAssumption DEF Init
<1>2. master \in BOOLEAN /\ type \in Known /\ usable \in Seq(Recs \cup {NoRec})
      /\ pc \in {"filter", "select"}
  <2>1. master \in BOOLEAN
    BY Zenon DEF Init
  <2>2. <<>> \in Seq(Recs \cup {NoRec})
    OBVIOUS
  <2>3. type \in Known /\ usable \in Seq(Recs \cup {NoRec}) /\ pc \in {"filter", "select"}
    BY <1>1, <2>2 DEF Init, Known
  <2> QED
    BY <2>1, <2>3
<1>3. TypeOK
  BY <1>1, <1>2 DEF TypeOK, Init
<1>4. SelectInv
  BY <1>1, <1>2 DEF SelectInv
<1> QED
  BY <1>3, <1>4 DEF SelState

LEMMA CheckRecordKeeps == SelState /\ CheckRecord => SelState'
<1> SUFFICES ASSUME SelState, CheckRecord PROVE SelState'
  OBVIOUS
<1>1. recs \in Seq(Recs \cup {NoRec}) /\ i \in 1..Len(recs) /\ best = 0
  BY RecsAssumption DEF SelState, TypeOK, SelectInv, CheckRecord
<1>2. recs[i] \in Recs \cup {NoRec}
  BY <1>1
<1>3. usable' \in Seq(Recs \cup {NoRec}) /\ Len(usable') \in Nat
  BY <1>2 DEF SelState, TypeOK, CheckRecord
<1>4. TypeOK'
  BY <1>1, <1>3 DEF SelState, TypeOK, CheckRecord
<1>5. SelectInv'
  BY <1>1 DEF SelectInv, CheckRecord
<1> QED
  BY <1>4, <1>5 DEF SelState

LEMMA DispatchKeeps == SelState /\ Dispatch => SelState'
<1> SUFFICES ASSUME SelState, Dispatch PROVE SelState'
  OBVIOUS
<1>1. TypeOK'
  BY DEF SelState, TypeOK, Dispatch
<1>2. best' = 0
  BY DEF SelState, SelectInv, Dispatch
<1>3. SelectInv'
  BY <1>2 DEF Dispatch, SelectInv
<1> QED
  BY <1>1, <1>3 DEF SelState

-----------------------------------------------------------------------------
(***************************************************************************)
(* A step of a checker's loop.                                             *)
(***************************************************************************)
LEMMA CompareKeepsType == SelState /\ Compare => TypeOK'
<1> SUFFICES ASSUME SelState, Compare PROVE TypeOK'
  OBVIOUS
<1>1. best' = best \/ best' = i
  BY DEF Compare
<1>2. i \in Nat /\ best \in Nat /\ Len(usable) \in Nat /\ i <= Len(usable)
  BY DEF SelState, TypeOK, Compare
<1> QED
  BY <1>1, <1>2 DEF SelState, TypeOK, Compare

LEMMA CompareKeepsBest == SelState /\ Compare => SelectInv'
<1> SUFFICES ASSUME SelState, Compare PROVE SelectInv'
  OBVIOUS
<1>1. /\ usable \in Seq(Recs \cup {NoRec}) /\ i \in 1..Len(usable)
      /\ best \in Nat /\ best < i /\ type \in Known
  BY DEF SelState, TypeOK, SelectInv, Compare
<1>2. usable' = usable /\ type' = type /\ pc' = "select" /\ pc = "select" /\ i' = i + 1
  BY DEF Compare
<1>3. best' = best \/ best' = i
  BY DEF Compare
<1>4. best' \in Nat /\ best' < i'
  BY <1>1, <1>2, <1>3
<1>5. ASSUME best' = 0 PROVE \A j \in 1..(i' - 1) : j \in DOMAIN usable => usable[j] = NoRec
  <2>1. best = 0 /\ usable[i] = NoRec
    BY <1>1, <1>3, <1>5 DEF Compare
  <2>2. \A j \in 1..(i - 1) : j \in DOMAIN usable => usable[j] = NoRec
    BY <1>2, <2>1 DEF SelState, SelectInv
  <2> QED
    BY <1>1, <1>2, <2>1, <2>2
<1>6. ASSUME best' # 0, AllParse PROVE
        /\ usable[best'] # NoRec
        /\ type = ValidationType_EOL =>
             \A j \in 1..i : j \in DOMAIN usable /\ usable[j] # NoRec =>
                 usable[j] = usable[best'] \/ ~EolBeats(usable[j], usable[best'])
        /\ type # ValidationType_EOL =>
             \A j \in 1..i : j \in DOMAIN usable /\ usable[j] # NoRec =>
                 ~Later(EndOf(usable[j]), EndOf(usable[best']))
  <2>1. CASE best = 0
    <3>1. best' = i /\ usable[i] # NoRec
      BY <1>3, <1>6, <2>1 DEF Compare
    <3>2. \A j \in 1..i : j \in DOMAIN usable /\ usable[j] # NoRec => j = i
      BY <1>1, <1>2, <2>1 DEF SelState, SelectInv
    <3>3. type # ValidationType_EOL => ~Later(EndOf(usable[i]), EndOf(usable[i]))
      <4> SUFFICES ASSUME type # ValidationType_EOL
                   PROVE  ~Later(EndOf(usable[i]), EndOf(usable[i]))
        OBVIOUS
      <4>1. usable[i] \in Recs /\ RangeParses(usable[i])
        BY <1>1, <1>6, <3>1 DEF AllParse, Parses
      <4> QED
        BY <4>1, EndIsTime, LaterAsymmetric
    <3> QED
      BY <3>1, <3>2, <3>3
  <2>2. CASE best # 0
    <3>1. /\ usable[best] # NoRec
          /\ type = ValidationType_EOL => EolBestSoFar(i - 1)
          /\ type # ValidationType_EOL => RangeBestSoFar(i - 1)
      BY <1>2, <1>6, <2>2 DEF SelState, SelectInv
    <3>2. best \in DOMAIN usable /\ usable[best] \in Recs /\ Parses(type, usable[best])
      BY <1>1, <1>6, <2>2, <3>1 DEF AllParse
    <3>3. \A j \in DOMAIN usable : usable[j] # NoRec =>
             usable[j] \in Recs /\ Parses(type, usable[j])
      BY <1>1, <1>6 DEF AllParse
    <3>4. best' = IF usable[i] # NoRec /\ Beats(usable[i], usable[best]) THEN i ELSE best
      BY <1>1, <2>2, <3>2, <3>3 DEF Compare
    <3>5. CASE usable[i] = NoRec
      <4>1. best' = best
        BY <3>4, <3>5
      <4>2. \A j \in 1..i : usable[j] # NoRec => j \in 1..(i - 1)
        BY <1>1, <3>5
      <4> QED
        BY <3>1, <4>1, <4>2 DEF EolBestSoFar, RangeBestSoFar
    <3>6. CASE usable[i] # NoRec /\ type = ValidationType_EOL
      <4>1. usable[i] \in Recs /\ EolParses(usable[i]) /\ EolParses(usable[best])
        BY <1>1, <3>2, <3>3, <3>6 DEF Parses
      <4>2. CASE EolBeats(usable[i], usable[best])
        <5>1. best' = i
          BY <3>4, <3>6, <4>2 DEF Beats
        <5>2. ASSUME NEW j \in 1..i, j \in DOMAIN usable, usable[j] # NoRec
              PROVE  usable[j] = usable[i] \/ ~EolBeats(usable[j], usable[i])
          <6>1. usable[j] \in Recs /\ EolParses(usable[j])
            BY <3>3, <3>6, <5>2 DEF Parses
          <6>2. CASE j = i
            BY <6>2
          <6>3. CASE j # i /\ usable[j] = usable[best]
            BY <3>2, <4>1, <4>2, <6>1, <6>3, EolAsymmetric
          <6>4. CASE j # i /\ usable[j] # usable[best]
            <7>1. j \in 1..(i - 1)
              BY <1>1, <6>4
            <7>2. ~EolBeats(usable[j], usable[best])
              BY <3>1, <3>6, <5>2, <6>4, <7>1 DEF EolBestSoFar
            <7> QED
              BY <3>2, <4>1, <4>2, <6>1, <7>2, EolTransitive
          <6> QED
            BY <6>2, <6>3, <6>4
        <5> QED
          BY <3>6, <5>1, <5>2
      <4>3. CASE ~EolBeats(usable[i], usable[best])
        <5>1. best' = best
          BY <3>4, <3>6, <4>3 DEF Beats
        <5>2. \A j \in 1..i : j = i \/ j \in 1..(i - 1)
          BY <1>1
        <5> QED
          BY <3>1, <3>6, <4>3, <5>1, <5>2 DEF EolBestSoFar
      <4> QED
        BY <4>2, <4>3
    <3>7. CASE usable[i] # NoRec /\ type # ValidationType_EOL
      <4>1. /\ usable[i] \in Recs /\ RangeParses(usable[i]) /\ RangeParses(usable[best])
            /\ EndOf(usable[i]) \in Int \cup {Nil} /\ EndOf(usable[best]) \in Int \cup {Nil}
        <5>1. usable[i] \in Recs /\ RangeParses(usable[i]) /\ RangeParses(usable[best])
          BY <1>1, <3>2, <3>3, <3>7 DEF Parses
        <5> QED
          BY <3>2, <5>1, EndIsTime
      <4>2. CASE RangeBeats(usable[i], usable[best])
        <5>1. best' = i
          BY <3>4, <3>7, <4>2 DEF Beats
        <5>2. ~Later(EndOf(usable[best]), EndOf(usable[i]))
          BY <3>2, <4>1, <4>2, RangeBeatsLasts
        <5>3. ASSUME NEW j \in 1..i, j \in DOMAIN usable, usable[j] # NoRec
              PROVE  ~Later(EndOf(usable[j]), EndOf(usable[i]))
          <6>1. EndOf(usable[j]) \in Int \cup {Nil}
            BY <3>3, <3>7, <5>3, EndIsTime DEF Parses
          <6>2. CASE j = i
            BY <4>1, <6>2, LaterAsymmetric
          <6>3. CASE j # i
            <7>1. j \in 1..(i - 1)
              BY <1>1, <6>3
            <7>2. ~Later(EndOf(usable[j]), EndOf(usable[best]))
              BY <3>1, <3>7, <5>3, <7>1 DEF RangeBestSoFar
            <7> QED
              BY <4>1, <5>2, <6>1, <7>2, LaterTransitive
          <6> QED
            BY <6>2, <6>3
        <5> QED
          BY <3>7, <5>1, <5>3
      <4>3. CASE ~RangeBeats(usable[i], usable[best])
        <5>1. best' = best /\ ~Later(EndOf(usable[i]), EndOf(usable[best]))
          BY <3>4, <3>7, <4>3 DEF Beats, RangeBeats
        <5>2. \A j \in 1..i : j = i \/ j \in 1..(i - 1)
          BY <1>1
        <5> QED
          BY <3>1, <3>7, <5>1, <5>2 DEF RangeBestSoFar
      <4> QED
        BY <4>2, <4>3
    <3> QED
      BY <3>5, <3>6, <3>7
  <2> QED
    BY <2>1, <2>2
<1>7. AllParse' = AllParse
  BY <1>2 DEF AllParse
<1>8. i' - 1 = i
  BY <1>1, <1>2
<1>9. best' # 0 /\ AllParse' =>
        /\ usable'[best'] # NoRec
        /\ IF type' = ValidationType_EOL
           THEN EolBestSoFar(i - 1)'
           ELSE RangeBestSoFar(i - 1)'
  BY <1>2, <1>6, <1>7, <1>8 DEF EolBestSoFar, RangeBestSoFar
<1> QED
  BY <1>2, <1>4, <1>5, <1>9 DEF SelectInv

LEMMA ReturnKeeps == SelState /\ Return => SelState'
<1> SUFFICES ASSUME SelState, Return PROVE SelState'
  OBVIOUS
<1>1. TypeOK'
  BY DEF SelState, TypeOK, Return
<1>2. UNCHANGED <<recs, master, type, usable, i, best>> /\ pc = "select"
      /\ pc' \in {"error", "done"} /\ (pc' = "done" => best # 0 /\ i > Len(usable))
  BY DEF Return
<1>3. SelectInv'
  BY <1>2 DEF SelState, SelectInv, AllParse, Parses, EolBestSoFar, RangeBestSoFar
<1> QED
  BY <1>1, <1>3 DEF SelState

(***************************************************************************)
(* The loop invariant holds for every batch, and with it the types.        *)
(***************************************************************************)
THEOREM SelectInvariant == Spec => [](TypeOK /\ SelectInv)
<1>1. Init => SelState
  BY InitHolds
<1>2. SelState /\ [Next]_vars => SelState'
  <2> SUFFICES ASSUME SelState, [Next]_vars PROVE SelState'
    OBVIOUS
  <2>1. CASE CheckRecord
    BY <2>1, CheckRecordKeeps
  <2>2. CASE Dispatch
    BY <2>2, DispatchKeeps
  <2>3. CASE Compare
    BY <2>3, CompareKeepsType, CompareKeepsBest DEF SelState
  <2>4. CASE Return
    BY <2>4, ReturnKeeps
  <2>5. CASE UNCHANGED vars
    BY <2>5 DEF SelState, TypeOK, SelectInv, AllParse, Parses, EolBestSoFar,
                RangeBestSoFar, vars
  <2> QED
    BY <2>1, <2>2, <2>3, <2>4, <2>5 DEF Next
<1>3. SelState => TypeOK /\ SelectInv
  BY DEF SelState
<1> QED
  BY <1>1, <1>2, <1>3, PTL DEF Spec

(***************************************************************************)
(* Types of the selection's state: in particular the index of the best     *)
(* record never runs past the records that the loop is given.              *)
(***************************************************************************)
THEOREM SelectTypeCorrect == Spec => []TypeOK
<1>1. TypeOK /\ SelectInv => TypeOK
  OBVIOUS
<1> QED
  BY <1>1, SelectInvariant, PTL

(***************************************************************************)
(* Of EOL records that parse, the chosen one ends last, and of those that  *)
(* end with it has the largest CID: the choice depends on the set of the   *)
(* records alone.                                                          *)
(***************************************************************************)
THEOREM EolChoice == Spec => []EolChoiceIsDeterministic
<1>1. TypeOK /\ SelectInv => EolChoiceIsDeterministic
  <2> SUFFICES ASSUME TypeOK, SelectInv, pc = "done", AllParse,
                      type = ValidationType_EOL,
                      NEW j \in DOMAIN usable,
                      usable[j] # NoRec, usable[j] # usable[best]
               PROVE  \/ EolOf(usable[j]) < EolOf(usable[best])
                      \/ /\ EolOf(usable[j]) = EolOf(usable[best])
                         /\ usable[j].cid <= usable[best].cid
    BY DEF EolChoiceIsDeterministic
  <2>1. usable \in Seq(Recs \cup {NoRec}) /\ best \in DOMAIN usable /\ j \in 1..(i - 1)
        /\ usable[best] # NoRec
    BY DEF TypeOK, SelectInv
  <2>2. ~EolBeats(usable[j], usable[best])
    BY <2>1 DEF SelectInv, EolBestSoFar
  <2>3. usable[j] \in Recs /\ usable[best] \in Recs
        /\ EolParses(usable[j]) /\ EolParses(usable[best])
    BY <2>1 DEF AllParse, Parses
  <2>4. EolOf(usable[j]) \in Int /\ EolOf(usable[best]) \in Int
        /\ usable[j].cid \in Int /\ usable[best].cid \in Int
    BY <2>3, RecsAssumption
  <2> QED
    BY <2>2, <2>4 DEF EolBeats
<1> QED
  BY <1>1, SelectInvariant, PTL

(***************************************************************************)
(* Of records that parse, whatever their checker, the chosen one is never  *)
(* expired while another one is valid.                                     *)
(***************************************************************************)
THEOREM ChoiceLasts == Spec => []ChosenLastsLongest
<1>1. TypeOK /\ SelectInv => ChosenLastsLongest
  <2> SUFFICES ASSUME TypeOK, SelectInv, pc = "done", AllParse,
                      NEW j \in DOMAIN usable, NEW now \in Times,
                      usable[j] # NoRec, Validate(usable[j], now) = "ok"
               PROVE  Validate(usable[best], now) # "expired"
    BY DEF ChosenLastsLongest
  <2>1. usable \in Seq(Recs \cup {NoRec}) /\ best \in DOMAIN usable /\ j \in 1..(i - 1)
        /\ usable[best] # NoRec /\ now \in Int
    BY TimesAssumption DEF TypeOK, SelectInv
  <2>2. usable[j] \in Recs /\ usable[best] \in Recs
        /\ Parses(type, usable[j]) /\ Parses(type, usable[best])
    BY <2>1 DEF AllParse
  <2>3. CASE type = ValidationType_EOL
    <3>1. usable[j] = usable[best] \/ ~EolBeats(usable[j], usable[best])
      BY <2>1, <2>3 DEF SelectInv, EolBestSoFar
    <3>2. EolParses(usable[j]) /\ EolParses(usable[best])
      BY <2>2, <2>3 DEF Parses
    <3>3. EolOf(usable[j]) \in Int /\ EolOf(usable[best]) \in Int
      BY <2>2, <3>2, EolIsInt
    <3>4. EolOf(usable[j]) <= EolOf(usable[best])
      BY <3>1, <3>3 DEF EolBeats
    <3>5. ~(now > EolOf(usable[j]))
      BY <2>3, <3>2 DEF Validate, EolValidate
    <3> QED
      BY <2>1, <2>3, <3>2, <3>3, <3>4, <3>5 DEF Validate, EolValidate
  <2>4. CASE type # ValidationType_EOL
    <3>1. ~Later(EndOf(usable[j]), EndOf(usable[best]))
      BY <2>1, <2>4 DEF SelectInv, RangeBestSoFar
    <3>2. RangeParses(usable[j]) /\ RangeParses(usable[best])
      BY <2>2, <2>4 DEF Parses
    <3>3. EndOf(usable[j]) \in Int \cup {Nil} /\ EndOf(usable[best]) \in Int \cup {Nil}
      BY <2>2, <3>2, EndIsTime
    <3>4. EndOf(usable[j]) = Nil \/ ~(now > EndOf(usable[j]))
      BY <2>4, <3>2 DEF Validate, RangeValidate
    <3>5. EndOf(usable[best]) = Nil \/ ~(now > EndOf(usable[best]))
      BY <2>1, <3>1, <3>3, <3>4, NilAssumption DEF Later
    <3> QED
      BY <2>4, <3>2, <3>5 DEF Validate, RangeValidate
  <2> QED
    BY <2>3, <2>4
<1> QED
  BY <1>1, SelectInvariant, PTL
=============================================================================
