--------------------------- MODULE ResolverProofs ---------------------------
(***************************************************************************)
(* Theorems about Resolver, for any names, values, inputs and depths.      *)
(***************************************************************************)
EXTENDS Resolver, SequenceTheorems, FiniteSetTheorems, WellFoundedInduction, TLAPS

(***************************************************************************)
(* The inductive invariant: besides the types and the count of lookups, a  *)
(* target that a lookup returned has passed IsResolvable, and the errors   *)
(* come in the states they are meant for.                                  *)
(***************************************************************************)
CallIsRecord ==
    DOMAIN call = {"pc", "target", "depth", "apnd", "asked", "hops"}

TargetIsResolvable == call.pc = "resolve" /\ call.hops # 0 => IsResolvable(call.target)

(***************************************************************************)
(* The depth is counted for any depth asked for, UnlimitedDepth and those  *)
(* below it included.                                                      *)
(***************************************************************************)
DepthInv ==
    /\ call.asked = call.depth + call.hops
    /\ call.pc = "recursion" => call.hops = call.asked /\ Accepted(call.target)
    /\ call.asked >= 0 => call.depth >= 0

ResolverInv ==
    /\ CallIsRecord
    /\ TypeOK
    /\ DepthInv
    /\ TargetIsResolvable
    /\ OnlyInputIsUnrecognized

LEMMA KeyIsKnown ==
    ASSUME NEW t \in Values \cup Inputs, HasKey(t) PROVE KeyOf(t) \in Keys
BY DEF Keys

LEMMA InitHolds == Init => ResolverInv
<1> SUFFICES ASSUME Init PROVE ResolverInv
  OBVIOUS
<1>1. PICK t \in Inputs, d \in Depths :
         call = [pc |-> "resolve", target |-> t, depth |-> d, apnd |-> <<>>,
                 asked |-> d, hops |-> 0]
  BY DEF Init
<1>2. d \in Int /\ 0 \in 0..MaxHops
  BY DepthsAssumption
<1>3. /\ CallIsRecord
      /\ call.pc = "resolve" /\ call.target = t /\ call.depth = d
      /\ call.asked = d /\ call.hops = 0
  BY <1>1 DEF CallIsRecord
<1>4. names \in [Keys -> Values \cup {None}]
  BY DEF Init
<1> QED
  BY <1>2, <1>3, <1>4 DEF ResolverInv, TypeOK, DepthInv, TargetIsResolvable,
                          OnlyInputIsUnrecognized

LEMMA BottomOutKeeps == ResolverInv /\ BottomOut => ResolverInv'
<1> SUFFICES ASSUME ResolverInv, BottomOut PROVE ResolverInv'
  OBVIOUS
<1>1. CASE Parses(call.target)
  <2>1. /\ call'.pc = "link" /\ CallIsRecord' /\ names' = names
        /\ call'.depth = call.depth /\ call'.asked = call.asked /\ call'.hops = call.hops
    BY <1>1 DEF ResolverInv, CallIsRecord, BottomOut
  <2> QED
    BY <2>1 DEF ResolverInv, TypeOK, Ended, DepthInv, TargetIsResolvable,
                OnlyInputIsUnrecognized
<1>2. CASE ~Parses(call.target)
  <2>1. /\ call'.pc = "format" /\ CallIsRecord' /\ names' = names
        /\ call'.target = call.target /\ call'.depth = call.depth
        /\ call'.asked = call.asked /\ call'.hops = call.hops
    BY <1>2 DEF ResolverInv, CallIsRecord, BottomOut, End
  <2>2. call.pc = "resolve" /\ ~Accepted(call.target)
    BY DEF BottomOut
  <2>3. call.hops = 0
    BY <1>2, <2>2 DEF ResolverInv, TargetIsResolvable, IsResolvable
  <2> QED
    BY <2>1, <2>2, <2>3 DEF ResolverInv, TypeOK, Ended, DepthInv, TargetIsResolvable,
                            OnlyInputIsUnrecognized
<1> QED
  BY <1>1, <1>2

LEMMA RecursionLimitKeeps == ResolverInv /\ RecursionLimit => ResolverInv'
<1> SUFFICES ASSUME ResolverInv, RecursionLimit PROVE ResolverInv'
  OBVIOUS
<1>1. /\ call'.pc = "recursion" /\ CallIsRecord' /\ names' = names
      /\ call'.target = call.target /\ call'.depth = call.depth
      /\ call'.asked = call.asked /\ call'.hops = call.hops
  BY DEF ResolverInv, CallIsRecord, RecursionLimit, End
<1>2. call.pc = "resolve" /\ call.depth = 0 /\ Accepted(call'.target)
  BY <1>1 DEF RecursionLimit
<1> QED
  BY <1>1, <1>2 DEF ResolverInv, TypeOK, Ended, DepthInv, TargetIsResolvable,
                    OnlyInputIsUnrecognized

LEMMA IndexPanicsKeeps == ResolverInv /\ IndexPanics => ResolverInv'
<1> SUFFICES ASSUME ResolverInv, IndexPanics PROVE ResolverInv'
  OBVIOUS
<1>1. /\ call'.pc = "panic" /\ CallIsRecord' /\ names' = names
      /\ call'.target = call.target /\ call'.depth = call.depth
      /\ call'.asked = call.asked /\ call'.hops = call.hops
  BY DEF ResolverInv, CallIsRecord, IndexPanics, End
<1>2. call.pc = "resolve"
  BY DEF IndexPanics
<1> QED
  BY <1>1, <1>2 DEF ResolverInv, TypeOK, Ended, DepthInv, TargetIsResolvable,
                    OnlyInputIsUnrecognized

LEMMA LookupFailsKeeps == ResolverInv /\ LookupFails => ResolverInv'
<1> SUFFICES ASSUME ResolverInv, LookupFails PROVE ResolverInv'
  OBVIOUS
<1>1. /\ call'.pc = "lookup" /\ CallIsRecord' /\ names' = names
      /\ call'.target = call.target /\ call'.depth = call.depth
      /\ call'.asked = call.asked /\ call'.hops = call.hops
  BY DEF ResolverInv, CallIsRecord, LookupFails, End
<1>2. call.pc = "resolve"
  BY DEF LookupFails
<1> QED
  BY <1>1, <1>2 DEF ResolverInv, TypeOK, Ended, DepthInv, TargetIsResolvable,
                    OnlyInputIsUnrecognized

LEMMA RecurseKeeps == ResolverInv /\ Recurse => ResolverInv'
<1> SUFFICES ASSUME ResolverInv, Recurse PROVE ResolverInv'
  OBVIOUS
<1> DEFINE v == names[KeyOf(call.target)]
<1>1. /\ call.pc = "resolve" /\ HasKey(call.target) /\ call.depth # 0
      /\ call.hops < MaxHops
      /\ v # None /\ IsResolvable(v) /\ names' = names
  BY DEF Recurse, Bound, HasKey
<1>2. /\ CallIsRecord'
      /\ call'.pc = call.pc /\ call'.target = v
      /\ call'.depth = call.depth - 1 /\ call'.hops = call.hops + 1
      /\ call'.asked = call.asked
  BY DEF ResolverInv, CallIsRecord, Recurse
<1>3. call.target \in Values \cup Inputs
  BY <1>1 DEF ResolverInv, TypeOK
<1>4. v \in Values
  BY <1>1, <1>3, KeyIsKnown DEF ResolverInv, TypeOK
<1>5. /\ call'.depth \in Int /\ call'.hops \in 0..MaxHops
      /\ call'.asked = call'.depth + call'.hops
      /\ call'.asked >= 0 => call'.depth >= 0
  <2>1. /\ call.depth \in Int /\ call.hops \in 0..MaxHops /\ MaxHops \in Nat
        /\ call.asked = call.depth + call.hops
        /\ call.asked >= 0 => call.depth >= 0
    BY DepthsAssumption DEF ResolverInv, TypeOK, DepthInv
  <2> QED
    BY <1>1, <1>2, <2>1
<1>6. TypeOK'
  BY <1>1, <1>2, <1>4, <1>5 DEF ResolverInv, TypeOK
<1> QED
  BY <1>1, <1>2, <1>5, <1>6 DEF ResolverInv, DepthInv, TargetIsResolvable,
                                OnlyInputIsUnrecognized

LEMMA RebindKeeps ==
    ASSUME ResolverInv, NEW k \in DOMAIN names, NEW v \in Values \cup {None}, Rebind(k, v)
    PROVE  ResolverInv'
<1>1. call' = call /\ names' = [names EXCEPT ![k] = v]
  BY DEF Rebind
<1>2. names' \in [Keys -> Values \cup {None}]
  BY <1>1 DEF ResolverInv, TypeOK
<1> QED
  BY <1>1, <1>2 DEF ResolverInv, CallIsRecord, TypeOK, DepthInv, TargetIsResolvable,
                    OnlyInputIsUnrecognized

THEOREM ResolverInvariant == Spec => []ResolverInv
<1>1. ResolverInv /\ [Next]_vars => ResolverInv'
  <2> SUFFICES ASSUME ResolverInv, [Next]_vars PROVE ResolverInv'
    OBVIOUS
  <2>1. CASE BottomOut
    BY <2>1, BottomOutKeeps
  <2>2. CASE RecursionLimit
    BY <2>2, RecursionLimitKeeps
  <2>3. CASE LookupFails
    BY <2>3, LookupFailsKeeps
  <2>4. CASE Recurse
    BY <2>4, RecurseKeeps
  <2>5. ASSUME NEW k \in DOMAIN names, NEW v \in Values \cup {None}, Rebind(k, v)
        PROVE  ResolverInv'
    BY <2>5, RebindKeeps
  <2>6. CASE IndexPanics
    BY <2>6, IndexPanicsKeeps
  <2>7. CASE UNCHANGED vars
    BY <2>7 DEF ResolverInv, CallIsRecord, TypeOK, DepthInv, TargetIsResolvable,
                OnlyInputIsUnrecognized, vars
  <2> QED
    BY <2>1, <2>2, <2>3, <2>4, <2>5, <2>6, <2>7 DEF Next, Step
<1> QED
  BY InitHolds, <1>1, PTL DEF Spec

(***************************************************************************)
(* With a depth limit the recursion error comes exactly when as many       *)
(* lookups as asked for were made and a name is left, whatever the limit   *)
(* and however names are rebound during the call.                          *)
(***************************************************************************)
THEOREM DepthExact == Spec => []DepthIsExact
<1>1. ResolverInv => DepthIsExact
  BY DEF ResolverInv, DepthInv, DepthIsExact, TypeOK, UnlimitedDepth
<1> QED
  BY <1>1, ResolverInvariant, PTL

(***************************************************************************)
(* A value that a lookup returned is never of an unrecognized format.      *)
(***************************************************************************)
THEOREM ValuesAreRecognized == Spec => []OnlyInputIsUnrecognized
<1>1. ResolverInv => OnlyInputIsUnrecognized
  BY DEF ResolverInv
<1> QED
  BY <1>1, ResolverInvariant, PTL

(***************************************************************************)
(* Types; in particular every target is the input or a published value.    *)
(***************************************************************************)
THEOREM ResolverTypeCorrect == Spec => []TypeOK
<1>1. ResolverInv => TypeOK
  BY DEF ResolverInv
<1> QED
  BY <1>1, ResolverInvariant, PTL

-----------------------------------------------------------------------------
(***************************************************************************)
(* Induction.  A set of naturals has a least member, so a set that has 0   *)
(* and the successors of its members has them all; and so n steps from a   *)
(* first value can be taken one after another.                             *)
(***************************************************************************)
LEMMA LeastNatural ==
    ASSUME NEW T, T \subseteq Nat, T # {}
    PROVE  \E m \in T : \A k \in T : m <= k
<1> DEFINE less == {ss \in Nat \X Nat : ss[1] < ss[2]}
<1>1. IsWellFoundedOn(less, Nat)
  BY NatLessThanWellFounded DEF OpToRel
<1> HIDE DEF less
<1>2. PICK m \in T : \A k \in T : ~(<<k, m>> \in less)
  BY <1>1, WFMin
<1>3. \A k \in T : m \in Nat /\ k \in Nat /\ ~(k < m)
  BY <1>2 DEF less
<1> QED
  BY <1>3

LEMMA InductiveSet ==
    ASSUME NEW T \in SUBSET Nat, 0 \in T, \A n \in T : n + 1 \in T
    PROVE  T = Nat
<1> SUFFICES ASSUME T # Nat PROVE FALSE
  OBVIOUS
<1>1. PICK m \in Nat \ T : \A k \in Nat \ T : m <= k
  BY LeastNatural
<1>2. m # 0 /\ m - 1 \in Nat
  BY <1>1
<1>3. m - 1 \in T
  BY <1>1, <1>2
<1>4. (m - 1) + 1 \in T
  BY <1>3
<1>5. (m - 1) + 1 = m
  BY <1>1
<1> QED
  BY <1>1, <1>4, <1>5

LEMMA StepsStay ==
    ASSUME NEW n \in Nat, NEW V, NEW f, f[0] \in V,
           \A i \in 1..n : f[i - 1] \in V => f[i] \in V
    PROVE  \A i \in 0..n : f[i] \in V
<1> DEFINE T == {k \in Nat : k <= n => f[k] \in V}
<1>1. 0 \in T
  OBVIOUS
<1>2. ASSUME NEW k \in T PROVE k + 1 \in T
  <2> SUFFICES ASSUME k + 1 <= n PROVE f[k + 1] \in V
    OBVIOUS
  <2>1. k + 1 \in 1..n /\ (k + 1) - 1 = k /\ f[k] \in V
    OBVIOUS
  <2> QED
    BY <2>1
<1>3. T \in SUBSET Nat
  OBVIOUS
<1> HIDE DEF T
<1>4. T = Nat
  BY <1>1, <1>2, <1>3, InductiveSet
<1> QED
  BY <1>4 DEF T

AreSteps(step, n, V) == step \in [1..n -> [V -> V]]

Takes(f, step, n, b, V) ==
    /\ f \in [0..n -> V]
    /\ f[0] = b
    /\ \A i \in 1..n : f[i] = step[i][f[i - 1]]

LEMMA StepsExist ==
    ASSUME NEW n \in Nat, NEW V, NEW b \in V, NEW step, AreSteps(step, n, V)
    PROVE  \E f : Takes(f, step, n, b, V)
<1> DEFINE Steps(k, f) == f[0] = b /\ \A i \in 1..k : f[i] = step[i][f[i - 1]]
           Possible(k) == \E f \in [0..k -> V] : Steps(k, f)
           T == {k \in Nat : k <= n => Possible(k)}
<1> USE DEF AreSteps
<1>1. Possible(0)
  <2>1. Steps(0, [i \in 0..0 |-> b]) /\ [i \in 0..0 |-> b] \in [0..0 -> V]
    OBVIOUS
  <2> HIDE DEF Steps
  <2> QED
    BY <2>1
<1>2. ASSUME NEW k \in Nat, k + 1 <= n, Possible(k) PROVE Possible(k + 1)
  <2>1. k + 1 \in 1..n
    BY <1>2
  <2>2. PICK f \in [0..k -> V] : Steps(k, f)
    BY <1>2
  <2> DEFINE g == [i \in 0 .. k + 1 |-> IF i = k + 1 THEN step[k + 1][f[k]] ELSE f[i]]
  <2>3. g \in [0 .. k + 1 -> V]
    BY <2>1
  <2>4. g[0] = b /\ g[k + 1] = step[k + 1][g[k]]
    BY <2>1, <2>2
  <2>5. ASSUME NEW i \in 1..k PROVE g[i] = step[i][g[i - 1]]
    <3>1. g[i] = f[i] /\ g[i - 1] = f[i - 1]
      OBVIOUS
    <3> QED
      BY <2>2, <3>1
  <2> HIDE DEF g
  <2>6. Steps(k + 1, g)
    <3>1. \A i \in 1 .. k + 1 : i = k + 1 \/ i \in 1..k
      OBVIOUS
    <3>2. (k + 1) - 1 = k
      OBVIOUS
    <3> QED
      BY <2>4, <2>5, <3>1, <3>2
  <2> HIDE DEF Steps
  <2> QED
    BY <2>3, <2>6
<1> HIDE DEF Possible
<1>3. 0 \in T /\ T \in SUBSET Nat
  BY <1>1
<1>4. ASSUME NEW k \in T PROVE k + 1 \in T
  BY <1>2
<1> HIDE DEF T
<1>5. T = Nat
  BY <1>3, <1>4, InductiveSet
<1>6. Possible(n)
  BY <1>5 DEF T
<1> QED
  BY <1>6 DEF Possible, Takes

(***************************************************************************)
(* The two recursive functions of Names take the steps they are defined    *)
(* with.                                                                   *)
(***************************************************************************)
LEMMA KeptSteps ==
    ASSUME NEW S, NEW s, Len(s) \in Nat, NEW keep,
           \A i \in 1..Len(s) : i \in keep => s[i] \in S
    PROVE  /\ KeptUpTo(s, keep) \in [0..Len(s) -> Seq(S)]
           /\ KeptUpTo(s, keep)[0] = <<>>
           /\ \A i \in 1..Len(s) :
                KeptUpTo(s, keep)[i] =
                    IF i \in keep THEN Append(KeptUpTo(s, keep)[i - 1], s[i])
                    ELSE KeptUpTo(s, keep)[i - 1]
<1> DEFINE n == Len(s)
           After(v, i) == IF i \in keep THEN Append(v, s[i]) ELSE v
           E(g) == [i \in 0..n |-> IF i = 0 THEN <<>> ELSE After(g[i - 1], i)]
           step == [i \in 1..n |-> [v \in Seq(S) |-> After(v, i)]]
<1>1. n \in Nat /\ <<>> \in Seq(S)
  BY EmptySeq
<1>2. \A i \in 1..n, v \in Seq(S) : After(v, i) \in Seq(S)
  OBVIOUS
<1> HIDE DEF n, After
<1>3. step \in [1..n -> [Seq(S) -> Seq(S)]]
  BY <1>2
<1>4. PICK f \in [0..n -> Seq(S)] : f[0] = <<>> /\ \A i \in 1..n : f[i] = step[i][f[i - 1]]
  <2> HIDE DEF step
  <2>1. AreSteps(step, n, Seq(S))
    BY <1>3 DEF AreSteps
  <2>2. \E f : Takes(f, step, n, <<>>, Seq(S))
    BY <1>1, <2>1, StepsExist
  <2> QED
    BY <2>2 DEF Takes
<1>5. ASSUME NEW i \in 1..n PROVE f[i] = After(f[i - 1], i)
  <2>1. i - 1 \in 0..n
    BY <1>1
  <2> QED
    BY <1>4, <2>1
<1>6. f = E(f)
  <2>1. \A i \in 0..n : i # 0 => i \in 1..n
    BY <1>1
  <2> QED
    BY <1>4, <1>5, <2>1
<1>7. KeptUpTo(s, keep) = CHOOSE g : g = E(g)
  BY Zenon DEF KeptUpTo, n, After
<1>8. KeptUpTo(s, keep) = E(KeptUpTo(s, keep))
  <2> HIDE DEF E
  <2> QED
    BY <1>6, <1>7, Zenon
<1> DEFINE h == KeptUpTo(s, keep)
<1> HIDE DEF h
<1>9. h = E(h)
  BY <1>8 DEF h
<1>10. h[0] = <<>> /\ \A i \in 1..n : h[i] = After(h[i - 1], i)
  BY <1>1, <1>9
<1>11. \A i \in 0..n : h[i] \in Seq(S)
  <2>1. h[0] \in Seq(S) /\ \A i \in 1..n : h[i - 1] \in Seq(S) => h[i] \in Seq(S)
    BY <1>1, <1>2, <1>10
  <2> QED
    BY <1>1, <2>1, StepsStay
<1>12. h \in [0..n -> Seq(S)]
  BY <1>9, <1>11
<1> QED
  BY <1>10, <1>12 DEF h, n, After

LEMMA CleanSteps ==
    ASSUME NEW S, NEW t \in Seq(S)
    PROVE  /\ CleanedUpTo(t) \in [0..Len(t) -> Seq(S \ {"", ".", ".."})]
           /\ CleanedUpTo(t)[0] = <<>>
           /\ \A i \in 1..Len(t) : CleanedUpTo(t)[i] = Clean(CleanedUpTo(t)[i - 1], t[i])
<1> DEFINE n == Len(t)
           V == S \ {"", ".", ".."}
           After(v, i) == Clean(v, t[i])
           E(g) == [i \in 0..n |-> IF i = 0 THEN <<>> ELSE After(g[i - 1], i)]
           step == [i \in 1..n |-> [v \in Seq(V) |-> After(v, i)]]
<1>1. n \in Nat /\ <<>> \in Seq(V)
  BY LenProperties, EmptySeq
<1>2. ASSUME NEW i \in 1..n, NEW v \in Seq(V) PROVE After(v, i) \in Seq(V)
  <2>1. t[i] \in S
    BY ElementOfSeq
  <2>2. CASE t[i] = ".." /\ v # <<>>
    <3> HIDE DEF V
    <3>1. Len(v) \in Nat /\ \A j \in 1..Len(v) : v[j] \in V
      BY LenProperties, ElementOfSeq
    <3>2. Len(v) - 1 \in Int /\ \A j \in 1 .. Len(v) - 1 : v[j] \in V
      BY <3>1
    <3>3. SubSeq(v, 1, Len(v) - 1) \in Seq(V)
      BY <3>2, SubSeqProperties
    <3> QED
      BY <2>2, <3>3 DEF Clean
  <2>3. CASE t[i] \notin {"", ".", ".."}
    <3>1. t[i] \in V
      BY <2>1, <2>3
    <3>2. Append(v, t[i]) \in Seq(V)
      BY <3>1, AppendProperties
    <3> QED
      BY <2>3, <3>2 DEF Clean
  <2> QED
    BY <2>2, <2>3 DEF Clean
<1> HIDE DEF n, V, After
<1>3. step \in [1..n -> [Seq(V) -> Seq(V)]]
  BY <1>2
<1>4. PICK f \in [0..n -> Seq(V)] : f[0] = <<>> /\ \A i \in 1..n : f[i] = step[i][f[i - 1]]
  <2> HIDE DEF step
  <2>1. AreSteps(step, n, Seq(V))
    BY <1>3 DEF AreSteps
  <2>2. \E f : Takes(f, step, n, <<>>, Seq(V))
    BY <1>1, <2>1, StepsExist
  <2> QED
    BY <2>2 DEF Takes
<1>5. ASSUME NEW i \in 1..n PROVE f[i] = After(f[i - 1], i)
  <2>1. i - 1 \in 0..n
    BY <1>1
  <2> QED
    BY <1>4, <2>1
<1>6. f = E(f)
  <2>1. \A i \in 0..n : i # 0 => i \in 1..n
    BY <1>1
  <2> QED
    BY <1>4, <1>5, <2>1
<1>7. CleanedUpTo(t) = CHOOSE g : g = E(g)
  BY Zenon DEF CleanedUpTo, n, After
<1>8. CleanedUpTo(t) = E(CleanedUpTo(t))
  <2> HIDE DEF E
  <2> QED
    BY <1>6, <1>7, Zenon
<1> DEFINE h == CleanedUpTo(t)
<1> HIDE DEF h
<1>9. h = E(h)
  BY <1>8 DEF h
<1>10. h[0] = <<>> /\ \A i \in 1..n : h[i] = After(h[i - 1], i)
  BY <1>1, <1>9
<1>11. \A i \in 0..n : h[i] \in Seq(V)
  <2>1. h[0] \in Seq(V) /\ \A i \in 1..n : h[i - 1] \in Seq(V) => h[i] \in Seq(V)
    BY <1>1, <1>2, <1>10
  <2> QED
    BY <1>1, <2>1, StepsStay
<1>12. h \in [0..n -> Seq(V)]
  BY <1>9, <1>11
<1> QED
  BY <1>10, <1>12 DEF h, n, V, After

LEMMA UpToInduction ==
    ASSUME NEW n \in Nat, NEW T, 0 \in T, \A i \in 1..n : i - 1 \in T => i \in T
    PROVE  \A i \in 0..n : i \in T
<1> DEFINE f == [i \in 0..n |-> i]
<1>1. f[0] \in T /\ \A i \in 1..n : f[i - 1] \in T => f[i] \in T
  OBVIOUS
<1> HIDE DEF f
<1>2. \A i \in 0..n : f[i] \in T
  BY <1>1, StepsStay
<1> QED
  BY <1>2 DEF f

(***************************************************************************)
(* What is kept up to a place depends on what comes before it only; where  *)
(* nothing is to be kept it stays the same, and where all is, it is the    *)
(* beginning of the sequence.                                              *)
(***************************************************************************)
LEMMA KeptSame ==
    ASSUME NEW S, NEW s \in Seq(S), NEW u \in Seq(S), NEW n \in Nat,
           n <= Len(s), n <= Len(u), NEW keep, NEW keep2,
           \A i \in 1..n : s[i] = u[i] /\ (i \in keep <=> i \in keep2)
    PROVE  KeptUpTo(s, keep)[n] = KeptUpTo(u, keep2)[n]
<1> DEFINE T == {i \in 0..n : KeptUpTo(s, keep)[i] = KeptUpTo(u, keep2)[i]}
<1>1. Len(s) \in Nat /\ Len(u) \in Nat
  BY LenProperties
<1>2. /\ \A i \in 1..Len(s) : s[i] \in S
      /\ \A i \in 1..Len(u) : u[i] \in S
  BY ElementOfSeq
<1>3. /\ KeptUpTo(s, keep)[0] = <<>>
      /\ \A i \in 1..Len(s) :
           KeptUpTo(s, keep)[i] =
               IF i \in keep THEN Append(KeptUpTo(s, keep)[i - 1], s[i])
               ELSE KeptUpTo(s, keep)[i - 1]
  BY <1>1, <1>2, KeptSteps
<1>4. /\ KeptUpTo(u, keep2)[0] = <<>>
      /\ \A i \in 1..Len(u) :
           KeptUpTo(u, keep2)[i] =
               IF i \in keep2 THEN Append(KeptUpTo(u, keep2)[i - 1], u[i])
               ELSE KeptUpTo(u, keep2)[i - 1]
  BY <1>1, <1>2, KeptSteps
<1>5. 0 \in T
  BY <1>3, <1>4
<1>6. ASSUME NEW i \in 1..n, i - 1 \in T PROVE i \in T
  <2>1. i \in 1..Len(s) /\ i \in 1..Len(u) /\ i \in 0..n
    BY <1>1
  <2>2. KeptUpTo(s, keep)[i - 1] = KeptUpTo(u, keep2)[i - 1]
    BY <1>6
  <2> QED
    BY <1>3, <1>4, <2>1, <2>2
<1> HIDE DEF T
<1>7. \A i \in 0..n : i \in T
  BY <1>5, <1>6, UpToInduction
<1> QED
  BY <1>7 DEF T

LEMMA KeptNone ==
    ASSUME NEW S, NEW s \in Seq(S), NEW m \in Nat, NEW n \in Nat, m <= n, n <= Len(s),
           NEW keep, \A i \in m + 1 .. n : i \notin keep
    PROVE  KeptUpTo(s, keep)[n] = KeptUpTo(s, keep)[m]
<1> DEFINE T == {i \in 0..n : i >= m => KeptUpTo(s, keep)[i] = KeptUpTo(s, keep)[m]}
<1>1. Len(s) \in Nat
  BY LenProperties
<1>2. \A i \in 1..Len(s) : s[i] \in S
  BY ElementOfSeq
<1>3. \A i \in 1..Len(s) :
         KeptUpTo(s, keep)[i] =
             IF i \in keep THEN Append(KeptUpTo(s, keep)[i - 1], s[i])
             ELSE KeptUpTo(s, keep)[i - 1]
  BY <1>1, <1>2, KeptSteps
<1>4. 0 \in T
  OBVIOUS
<1>5. ASSUME NEW i \in 1..n, i - 1 \in T PROVE i \in T
  <2>1. CASE i > m
    <3>1. i \in 1..Len(s) /\ i \in m + 1 .. n /\ i - 1 >= m /\ i \in 0..n
      BY <1>1, <2>1
    <3>2. KeptUpTo(s, keep)[i] = KeptUpTo(s, keep)[i - 1]
      BY <1>3, <3>1
    <3> QED
      BY <1>5, <3>1, <3>2
  <2>2. CASE i <= m
    BY <2>2
  <2> QED
    BY <2>1, <2>2
<1> HIDE DEF T
<1>6. \A i \in 0..n : i \in T
  BY <1>4, <1>5, UpToInduction
<1> QED
  BY <1>6 DEF T

LEMMA KeptAll ==
    ASSUME NEW S, NEW s \in Seq(S), NEW keep, \A i \in 1..Len(s) : i \in keep
    PROVE  Kept(s, keep) = s
<1> DEFINE T == {i \in 0..Len(s) : KeptUpTo(s, keep)[i] = SubSeq(s, 1, i)}
<1>1. Len(s) \in Nat
  BY LenProperties
<1>2. \A i \in 1..Len(s) : s[i] \in S
  BY ElementOfSeq
<1>3. /\ KeptUpTo(s, keep)[0] = <<>>
      /\ \A i \in 1..Len(s) :
           KeptUpTo(s, keep)[i] = Append(KeptUpTo(s, keep)[i - 1], s[i])
  BY <1>1, <1>2, KeptSteps
<1>4. 0 \in T
  <2>1. SubSeq(s, 1, 0) = <<>> /\ 0 \in 0..Len(s)
    BY <1>1, SubSeqEmpty
  <2> QED
    BY <1>3, <2>1
<1>5. ASSUME NEW i \in 1..Len(s), i - 1 \in T PROVE i \in T
  <2>1. 1 \in 1..Len(s) /\ i \in 1..Len(s) /\ i \in 0..Len(s)
    BY <1>1
  <2>2. SubSeq(s, 1, i) = SubSeq(s, 1, i - 1) \o <<s[i]>>
    BY <1>1, <2>1, SubSeqRecursiveSecond
  <2>3. SubSeq(s, 1, i - 1) \in Seq(S)
    <3>1. \A j \in 1 .. i - 1 : s[j] \in S
      BY <1>1, <1>2
    <3> QED
      BY <3>1, SubSeqProperties
  <2>4. Append(SubSeq(s, 1, i - 1), s[i]) = SubSeq(s, 1, i)
    BY <1>2, <2>2, <2>3, AppendIsConcat
  <2>5. KeptUpTo(s, keep)[i - 1] = SubSeq(s, 1, i - 1)
    BY <1>5
  <2> QED
    BY <1>3, <2>1, <2>4, <2>5
<1> HIDE DEF T
<1>6. \A i \in 0..Len(s) : i \in T
  BY <1>1, <1>4, <1>5, UpToInduction
<1>7. KeptUpTo(s, keep)[Len(s)] = SubSeq(s, 1, Len(s))
  BY <1>1, <1>6 DEF T
<1> QED
  BY <1>7, SubSeqFull DEF Kept

AppendsLast(a, b, e) == Append(a \o b, e) = a \o Append(b, e)

LEMMA AppendToConcat ==
    ASSUME NEW S, NEW a \in Seq(S), NEW b \in Seq(S), NEW e \in S
    PROVE  AppendsLast(a, b, e)
<1>1. <<e>> \in Seq(S) /\ a \o b \in Seq(S)
  BY ConcatProperties
<1>2. Append(a \o b, e) = (a \o b) \o <<e>> /\ Append(b, e) = b \o <<e>>
  BY <1>1, AppendIsConcat
<1>3. (a \o b) \o <<e>> = a \o (b \o <<e>>)
  BY <1>1, ConcatAssociative
<1> QED
  BY <1>2, <1>3 DEF AppendsLast

Collects(f, n, p, b, keep) ==
    /\ f[0] = p
    /\ \A i \in 1..n : f[i] = IF i \in keep THEN Append(f[i - 1], b[i]) ELSE f[i - 1]

AreMembers(f, m, n, S) == \A i \in m..n : f[i] \in S

AreJoined(f, n, p, g) == \A i \in 0..n : f[i] = p \o g[i]

LEMMA JoinedSteps ==
    ASSUME NEW S, NEW n \in Nat, NEW p \in Seq(S), NEW b, NEW keep, NEW f, NEW g,
           AreMembers(b, 1, n, S), AreMembers(g, 0, n, Seq(S)),
           Collects(g, n, <<>>, b, keep), Collects(f, n, p, b, keep)
    PROVE  AreJoined(f, n, p, g)
<1> USE DEF Collects, AreMembers
<1> DEFINE T == {i \in 0..n : f[i] = p \o g[i]}
<1>1. 0 \in T
  BY ConcatEmptySeq
<1>2. ASSUME NEW i \in 1..n, i - 1 \in T PROVE i \in T
  <2>1. i - 1 \in 0..n /\ i \in 0..n /\ f[i - 1] = p \o g[i - 1]
    BY <1>2
  <2>2. p \in Seq(S) /\ g[i - 1] \in Seq(S) /\ b[i] \in S
    BY <2>1
  <2> HIDE DEF T
  <2>3. AppendsLast(p, g[i - 1], b[i])
    BY <2>2, AppendToConcat, Zenon
  <2> QED
    BY <2>1, <2>3 DEF T, AppendsLast
<1> HIDE DEF T
<1>3. \A i \in 0..n : i \in T
  BY <1>1, <1>2, UpToInduction
<1> QED
  BY <1>3 DEF T, AreJoined

(***************************************************************************)
(* NonEmpty of a sequence has no empty part, is the sequence itself if it  *)
(* has none, and goes through a concatenation.                             *)
(***************************************************************************)
LEMMA NonEmptyType ==
    ASSUME NEW S, NEW s \in Seq(S)
    PROVE  NonEmpty(s) \in Seq(S \ {""})
<1> DEFINE keep == {i \in DOMAIN s : s[i] # ""}
<1>1. Len(s) \in Nat /\ DOMAIN s = 1..Len(s)
  BY LenProperties
<1>2. \A i \in 1..Len(s) : i \in keep => s[i] \in S \ {""}
  BY ElementOfSeq
<1>3. KeptUpTo(s, keep) \in [0..Len(s) -> Seq(S \ {""})]
  <2> HIDE DEF keep
  <2> QED
    BY <1>1, <1>2, KeptSteps
<1> HIDE DEF keep
<1>4. KeptUpTo(s, keep)[Len(s)] \in Seq(S \ {""})
  <2>1. Len(s) \in 0..Len(s)
    BY <1>1
  <2> QED
    BY <1>3, <2>1
<1> QED
  BY <1>4 DEF NonEmpty, Kept, keep

LEMMA NonEmptySame ==
    ASSUME NEW S, NEW s \in Seq(S \ {""})
    PROVE  NonEmpty(s) = s
<1> DEFINE keep == {i \in DOMAIN s : s[i] # ""}
<1>1. \A i \in 1..Len(s) : i \in keep
  <2>1. DOMAIN s = 1..Len(s)
    BY LenProperties
  <2>2. \A i \in 1..Len(s) : s[i] \in S \ {""}
    BY ElementOfSeq
  <2> QED
    BY <2>1, <2>2
<1> HIDE DEF keep
<1>2. Kept(s, keep) = s
  BY <1>1, KeptAll
<1> QED
  BY <1>2 DEF NonEmpty, keep

LEMMA NonEmptyConcat ==
    ASSUME NEW S, NEW a \in Seq(S), NEW b \in Seq(S)
    PROVE  NonEmpty(a \o b) = NonEmpty(a) \o NonEmpty(b)
<1> DEFINE s == a \o b
           m == Len(a)
           ks == {i \in DOMAIN s : s[i] # ""}
           ka == {i \in DOMAIN a : a[i] # ""}
           kb == {i \in DOMAIN b : b[i] # ""}
           fs == KeptUpTo(s, ks)
           fb == KeptUpTo(b, kb)
           f == [i \in 0..Len(b) |-> fs[m + i]]
<1>1. /\ m \in Nat /\ Len(b) \in Nat /\ Len(s) = m + Len(b) /\ Len(s) \in Nat
      /\ DOMAIN a = 1..m /\ DOMAIN b = 1..Len(b) /\ DOMAIN s = 1..Len(s) /\ s \in Seq(S)
  BY LenProperties, ConcatProperties
<1>2. /\ \A i \in 1..m : s[i] = a[i]
      /\ \A i \in 1..Len(b) : s[m + i] = b[i]
  <2>1. \A i \in 1 .. m + Len(b) : s[i] = IF i <= m THEN a[i] ELSE b[i - m]
    BY ConcatProperties
  <2> HIDE DEF s, m
  <2>2. \A i \in 1..m : s[i] = a[i]
    BY <1>1, <2>1
  <2>3. ASSUME NEW i \in 1..Len(b) PROVE s[m + i] = b[i]
    <3>1. m + i \in 1 .. m + Len(b) /\ ~(m + i <= m) /\ (m + i) - m = i
      BY <1>1
    <3>2. s[m + i] = b[(m + i) - m]
      BY <2>1, <3>1
    <3> QED
      BY <3>1, <3>2
  <2> QED
    BY <2>2, <2>3
<1>3. /\ \A i \in 1..Len(s) : s[i] \in S
      /\ \A i \in 1..Len(b) : b[i] \in S
  <2> HIDE DEF s
  <2> QED
    BY <1>1, ElementOfSeq
<1>4. /\ \A i \in 1..m : i \in ks <=> i \in ka
      /\ \A i \in 1..Len(b) : m + i \in ks <=> i \in kb
  <2> HIDE DEF s, m
  <2>1. \A i \in 1..m : i \in DOMAIN s
    BY <1>1
  <2>2. \A i \in 1..Len(b) : m + i \in DOMAIN s
    BY <1>1
  <2> QED
    BY <1>1, <1>2, <2>1, <2>2
<1> HIDE DEF s, m, ks, ka, kb
<1>5. \A i \in 1..Len(s) :
         fs[i] = IF i \in ks THEN Append(fs[i - 1], s[i]) ELSE fs[i - 1]
  <2>1. Len(s) \in Nat /\ \A i \in 1..Len(s) : i \in ks => s[i] \in S
    BY <1>1, <1>3
  <2> QED
    BY <2>1, KeptSteps
<1>6. /\ fb \in [0..Len(b) -> Seq(S)] /\ fb[0] = <<>>
      /\ \A i \in 1..Len(b) :
           fb[i] = IF i \in kb THEN Append(fb[i - 1], b[i]) ELSE fb[i - 1]
  BY <1>1, <1>3, KeptSteps
<1>7. fs[m] = NonEmpty(a)
  <2>1. m <= Len(s) /\ m <= Len(a)
    BY <1>1 DEF m
  <2>2. KeptUpTo(s, ks)[m] = KeptUpTo(a, ka)[m]
    <3>1. /\ m \in Nat /\ s \in Seq(S)
          /\ \A i \in 1..m : s[i] = a[i] /\ (i \in ks <=> i \in ka)
      BY <1>1, <1>2, <1>4
    <3> QED
      BY <2>1, <3>1, KeptSame
  <2> QED
    BY <2>2 DEF NonEmpty, Kept, ka, m
<1>8. NonEmpty(a) \in Seq(S)
  <2>1. NonEmpty(a) \in Seq(S \ {""}) /\ S \ {""} \subseteq S
    BY NonEmptyType
  <2> QED
    BY <2>1, SeqMonotonic
<1> HIDE DEF fs, fb
<1>9. f[0] = NonEmpty(a)
  <2>1. m + 0 = m /\ 0 \in 0..Len(b)
    BY <1>1
  <2> QED
    BY <1>7, <2>1
<1>10. ASSUME NEW i \in 1..Len(b)
       PROVE  f[i] = IF i \in kb THEN Append(f[i - 1], b[i]) ELSE f[i - 1]
  <2>1. /\ m + i \in 1..Len(s) /\ (m + i) - 1 = m + (i - 1)
        /\ i - 1 \in 0..Len(b) /\ i \in 0..Len(b)
    BY <1>1
  <2> QED
    BY <1>2, <1>4, <1>5, <2>1
<1> HIDE DEF f
<1>11. \A i \in 0..Len(b) : f[i] = NonEmpty(a) \o fb[i]
  <2>1. AreMembers(fb, 0, Len(b), Seq(S))
    BY <1>6 DEF AreMembers
  <2>2. AreMembers(b, 1, Len(b), S)
    BY <1>3 DEF AreMembers
  <2>3. Collects(fb, Len(b), <<>>, b, kb)
    BY <1>6 DEF Collects
  <2>4. Collects(f, Len(b), NonEmpty(a), b, kb)
    BY <1>9, <1>10 DEF Collects
  <2>5. AreJoined(f, Len(b), NonEmpty(a), fb)
    BY <1>1, <1>8, <2>1, <2>2, <2>3, <2>4, JoinedSteps
  <2> QED
    BY <2>5 DEF AreJoined
<1>12. fs[m + Len(b)] = NonEmpty(a) \o fb[Len(b)]
  BY <1>1, <1>11 DEF f
<1>13. NonEmpty(s) = fs[Len(s)] /\ NonEmpty(b) = fb[Len(b)]
  BY DEF NonEmpty, Kept, fs, fb, ks, kb
<1> QED
  BY <1>1, <1>12, <1>13 DEF s

(***************************************************************************)
(* Cleaning and meaning.  Up to place m of a path those parts stand that   *)
(* no later climb has taken away.  A part stands as long as the descents   *)
(* after it make up for the climbs, and then they are more by exactly the  *)
(* standing parts ahead of it.                                             *)
(***************************************************************************)
Standing(t, m) ==
    {i \in Descends(t, 1, m) :
        \A j \in i + 1 .. m :
            Cardinality(Climbs(t, i + 1, j)) <= Cardinality(Descends(t, i + 1, j))}

Ahead(t, m, i) == {k \in Standing(t, m) : k > i}

Counted(t, m) ==
    \A i \in Standing(t, m) :
        Cardinality(Descends(t, i + 1, m)) =
            Cardinality(Climbs(t, i + 1, m)) + Cardinality(Ahead(t, m, i))

IsClimb(t, m) == t[m] = ".."
IsDescent(t, m) == t[m] \notin {"", ".", ".."}

LEMMA GreatestUpTo ==
    ASSUME NEW n \in Nat, NEW T, T \subseteq 0..n, T # {}
    PROVE  \E g \in T : \A k \in T : k <= g
<1> DEFINE U == {n - k : k \in T}
<1>1. U \subseteq Nat /\ U # {}
  <2>1. \A k \in T : n - k \in Nat
    OBVIOUS
  <2>2. PICK k \in T : TRUE
    OBVIOUS
  <2>3. n - k \in U
    OBVIOUS
  <2> QED
    BY <2>1, <2>3
<1>2. PICK u \in U : \A v \in U : u <= v
  <2> HIDE DEF U
  <2> QED
    BY <1>1, LeastNatural
<1>3. PICK g \in T : u = n - g
  BY <1>2
<1>4. \A k \in T : n - k \in U
  OBVIOUS
<1>5. \A k \in T : n - g <= n - k /\ k \in 0..n /\ g \in 0..n
  BY <1>2, <1>3, <1>4
<1> QED
  BY <1>5

LEMMA CountsAreNaturals ==
    ASSUME NEW t, NEW i \in Int, NEW j \in Int
    PROVE  /\ IsFiniteSet(Climbs(t, i, j)) /\ Cardinality(Climbs(t, i, j)) \in Nat
           /\ IsFiniteSet(Descends(t, i, j)) /\ Cardinality(Descends(t, i, j)) \in Nat
<1>1. IsFiniteSet(i..j)
  BY FS_Interval
<1>2. Climbs(t, i, j) \in SUBSET (i..j) /\ Descends(t, i, j) \in SUBSET (i..j)
  BY DEF Climbs, Descends
<1>3. IsFiniteSet(Climbs(t, i, j)) /\ IsFiniteSet(Descends(t, i, j))
  BY <1>1, <1>2, FS_Subset
<1> QED
  BY <1>3, FS_CardinalityType

LEMMA CountsStep ==
    ASSUME NEW t, NEW i \in Nat, NEW p \in Nat, NEW m \in Nat, m = p + 1, i <= m
    PROVE  /\ Cardinality(Climbs(t, i, m)) =
                  IF IsClimb(t, m) THEN Cardinality(Climbs(t, i, p)) + 1
                  ELSE Cardinality(Climbs(t, i, p))
           /\ Cardinality(Descends(t, i, m)) =
                  IF IsDescent(t, m) THEN Cardinality(Descends(t, i, p)) + 1
                  ELSE Cardinality(Descends(t, i, p))
<1> DEFINE C == Climbs(t, i, p)
           D == Descends(t, i, p)
<1>1. i..m = (i..p) \cup {m} /\ m \notin i..p
  OBVIOUS
<1>2. /\ Climbs(t, i, m) = IF IsClimb(t, m) THEN C \cup {m} ELSE C
      /\ Descends(t, i, m) = IF IsDescent(t, m) THEN D \cup {m} ELSE D
      /\ m \notin C /\ m \notin D
  BY <1>1 DEF Climbs, Descends, IsClimb, IsDescent
<1>3. IsFiniteSet(C) /\ IsFiniteSet(D)
  BY CountsAreNaturals
<1> HIDE DEF C, D
<1>4. Cardinality(C \cup {m}) = Cardinality(C) + 1
  BY <1>2, <1>3, FS_AddElement
<1>5. Cardinality(D \cup {m}) = Cardinality(D) + 1
  BY <1>2, <1>3, FS_AddElement
<1>6. Cardinality(Climbs(t, i, m)) = IF IsClimb(t, m) THEN Cardinality(C) + 1 ELSE Cardinality(C)
  BY <1>2, <1>4
<1>7. Cardinality(Descends(t, i, m)) =
         IF IsDescent(t, m) THEN Cardinality(D) + 1 ELSE Cardinality(D)
  BY <1>2, <1>5
<1> QED
  BY <1>6, <1>7 DEF C, D

LEMMA StandingType ==
    ASSUME NEW t, NEW m \in Nat
    PROVE  /\ Standing(t, m) \subseteq 1..m /\ IsFiniteSet(Standing(t, m))
           /\ \A i : IsFiniteSet(Ahead(t, m, i)) /\ Cardinality(Ahead(t, m, i)) \in Nat
<1>1. Standing(t, m) \in SUBSET (1..m)
  BY DEF Standing, Descends
<1>2. IsFiniteSet(1..m)
  BY FS_Interval
<1>3. IsFiniteSet(Standing(t, m))
  BY <1>1, <1>2, FS_Subset
<1>4. ASSUME NEW i
      PROVE  IsFiniteSet(Ahead(t, m, i)) /\ Cardinality(Ahead(t, m, i)) \in Nat
  <2>1. Ahead(t, m, i) \in SUBSET Standing(t, m)
    BY DEF Ahead
  <2>2. IsFiniteSet(Ahead(t, m, i))
    BY <1>3, <2>1, FS_Subset
  <2> QED
    BY <2>2, FS_CardinalityType
<1> QED
  BY <1>1, <1>3, <1>4

LEMMA StandingStep ==
    ASSUME NEW t, NEW p \in Nat, NEW m \in Nat, m = p + 1
    PROVE  /\ m \in Standing(t, m) <=> IsDescent(t, m)
           /\ \A i \in 1..p :
                i \in Standing(t, m) <=>
                    /\ i \in Standing(t, p)
                    /\ Cardinality(Climbs(t, i + 1, m)) <= Cardinality(Descends(t, i + 1, m))
<1>1. m \in Standing(t, m) <=> IsDescent(t, m)
  <2>1. m \in 1..m /\ \A j \in m + 1 .. m : FALSE
    OBVIOUS
  <2> QED
    BY <2>1 DEF Standing, Descends, IsDescent
<1>2. ASSUME NEW i \in 1..p
      PROVE  i \in Standing(t, m) <=>
                 /\ i \in Standing(t, p)
                 /\ Cardinality(Climbs(t, i + 1, m)) <= Cardinality(Descends(t, i + 1, m))
  <2>1. i + 1 .. m = (i + 1 .. p) \cup {m} /\ i \in 1..m
    OBVIOUS
  <2>2. i \in Descends(t, 1, m) <=> i \in Descends(t, 1, p)
    BY <2>1 DEF Descends
  <2> QED
    BY <2>1, <2>2 DEF Standing
<1> QED
  BY <1>1, <1>2

\* The counts on both sides of one more part, for a part that stands.
LEMMA CountedStep ==
    ASSUME NEW t, NEW p \in Nat, NEW m \in Nat, m = p + 1, Counted(t, p),
           NEW i \in Standing(t, p)
    PROVE  /\ i \in 1..p /\ i \in 1..m
           /\ Cardinality(Climbs(t, i + 1, p)) \in Nat
           /\ Cardinality(Ahead(t, p, i)) \in Nat
           /\ Cardinality(Climbs(t, i + 1, m)) =
                  IF IsClimb(t, m) THEN Cardinality(Climbs(t, i + 1, p)) + 1
                  ELSE Cardinality(Climbs(t, i + 1, p))
           /\ Cardinality(Descends(t, i + 1, m)) =
                  Cardinality(Climbs(t, i + 1, p)) + Cardinality(Ahead(t, p, i))
                      + (IF IsDescent(t, m) THEN 1 ELSE 0)
<1>1. i \in 1..p /\ Cardinality(Ahead(t, p, i)) \in Nat
  BY StandingType
<1>2. i \in 1..m /\ i + 1 \in Nat /\ i + 1 \in Int /\ i + 1 <= m /\ p \in Int
  BY <1>1
<1>3. /\ Cardinality(Climbs(t, i + 1, p)) \in Nat
      /\ Cardinality(Descends(t, i + 1, p)) \in Nat
  BY <1>2, CountsAreNaturals
<1>4. /\ Cardinality(Climbs(t, i + 1, m)) =
                  IF IsClimb(t, m) THEN Cardinality(Climbs(t, i + 1, p)) + 1
                  ELSE Cardinality(Climbs(t, i + 1, p))
      /\ Cardinality(Descends(t, i + 1, m)) =
                  IF IsDescent(t, m) THEN Cardinality(Descends(t, i + 1, p)) + 1
                  ELSE Cardinality(Descends(t, i + 1, p))
  BY <1>2, CountsStep
<1>5. Cardinality(Descends(t, i + 1, p)) =
          Cardinality(Climbs(t, i + 1, p)) + Cardinality(Ahead(t, p, i))
  BY DEF Counted
<1> QED
  BY <1>1, <1>2, <1>3, <1>4, <1>5

LEMMA LevelStep ==
    ASSUME NEW t, NEW p \in Nat, NEW m \in Nat, m = p + 1, Counted(t, p),
           ~IsClimb(t, m), ~IsDescent(t, m)
    PROVE  Standing(t, m) = Standing(t, p) /\ Counted(t, m)
<1>1. Standing(t, m) \subseteq 1..m /\ Standing(t, p) \subseteq 1..p
  BY StandingType
<1>2. ASSUME NEW i \in Standing(t, p)
      PROVE  /\ Cardinality(Climbs(t, i + 1, p)) \in Nat
             /\ Cardinality(Ahead(t, p, i)) \in Nat
             /\ Cardinality(Climbs(t, i + 1, m)) = Cardinality(Climbs(t, i + 1, p))
             /\ Cardinality(Descends(t, i + 1, m)) =
                    Cardinality(Climbs(t, i + 1, p)) + Cardinality(Ahead(t, p, i))
  BY CountedStep
<1>3. Standing(t, m) = Standing(t, p)
  <2>1. m \notin Standing(t, m)
    BY StandingStep
  <2>2. ASSUME NEW i \in 1..p
        PROVE  i \in Standing(t, m) <=> i \in Standing(t, p)
    <3>1. i \in Standing(t, p) =>
            Cardinality(Climbs(t, i + 1, m)) <= Cardinality(Descends(t, i + 1, m))
      BY <1>2
    <3> QED
      BY <3>1, StandingStep
  <2>3. \A i \in 1..m : i = m \/ i \in 1..p
    OBVIOUS
  <2> QED
    BY <1>1, <2>1, <2>2, <2>3
<1>4. Counted(t, m)
  <2>1. \A i : Ahead(t, m, i) = Ahead(t, p, i)
    BY <1>3 DEF Ahead
  <2> QED
    BY <1>2, <1>3, <2>1 DEF Counted
<1> QED
  BY <1>3, <1>4

LEMMA DescentStep ==
    ASSUME NEW t, NEW p \in Nat, NEW m \in Nat, m = p + 1, Counted(t, p),
           ~IsClimb(t, m), IsDescent(t, m)
    PROVE  Standing(t, m) = Standing(t, p) \cup {m} /\ Counted(t, m)
<1>1. Standing(t, m) \subseteq 1..m /\ Standing(t, p) \subseteq 1..p /\ m \notin 1..p
  BY StandingType
<1>2. ASSUME NEW i \in Standing(t, p)
      PROVE  /\ i \in 1..p
             /\ Cardinality(Climbs(t, i + 1, p)) \in Nat
             /\ Cardinality(Ahead(t, p, i)) \in Nat
             /\ Cardinality(Climbs(t, i + 1, m)) = Cardinality(Climbs(t, i + 1, p))
             /\ Cardinality(Descends(t, i + 1, m)) =
                    Cardinality(Climbs(t, i + 1, p)) + Cardinality(Ahead(t, p, i)) + 1
  BY CountedStep
<1>3. Standing(t, m) = Standing(t, p) \cup {m}
  <2>1. m \in Standing(t, m)
    BY StandingStep
  <2>2. ASSUME NEW i \in 1..p
        PROVE  i \in Standing(t, m) <=> i \in Standing(t, p)
    <3>1. i \in Standing(t, p) =>
            Cardinality(Climbs(t, i + 1, m)) <= Cardinality(Descends(t, i + 1, m))
      BY <1>2
    <3> QED
      BY <3>1, StandingStep
  <2>3. \A i \in 1..m : i = m \/ i \in 1..p
    OBVIOUS
  <2> QED
    BY <1>1, <2>1, <2>2, <2>3
<1>4. ASSUME NEW i \in Standing(t, p)
      PROVE  Cardinality(Ahead(t, m, i)) = Cardinality(Ahead(t, p, i)) + 1
  <2>1. Ahead(t, m, i) = Ahead(t, p, i) \cup {m} /\ m \notin Ahead(t, p, i)
    BY <1>1, <1>2, <1>3 DEF Ahead
  <2>2. IsFiniteSet(Ahead(t, p, i))
    BY StandingType
  <2> QED
    BY <2>1, <2>2, FS_AddElement
<1>5. /\ Cardinality(Descends(t, m + 1, m)) = 0 /\ Cardinality(Climbs(t, m + 1, m)) = 0
      /\ Cardinality(Ahead(t, m, m)) = 0
  <2>1. \A k \in m + 1 .. m : FALSE
    OBVIOUS
  <2>2. Descends(t, m + 1, m) = {} /\ Climbs(t, m + 1, m) = {}
    BY <2>1 DEF Descends, Climbs
  <2>3. Ahead(t, m, m) = {}
    BY <1>1 DEF Ahead
  <2> QED
    BY <2>2, <2>3, FS_EmptySet
<1>6. ASSUME NEW i \in Standing(t, m)
      PROVE  Cardinality(Descends(t, i + 1, m)) =
                 Cardinality(Climbs(t, i + 1, m)) + Cardinality(Ahead(t, m, i))
  <2>1. CASE i = m
    BY <1>5, <2>1
  <2>2. CASE i \in Standing(t, p)
    BY <1>2, <1>4, <2>2
  <2> QED
    BY <1>3, <2>1, <2>2
<1> QED
  BY <1>3, <1>6 DEF Counted

LEMMA ClimbStep ==
    ASSUME NEW t, NEW p \in Nat, NEW m \in Nat, m = p + 1, Counted(t, p),
           IsClimb(t, m), ~IsDescent(t, m),
           NEW g \in Standing(t, p), \A k \in Standing(t, p) : k <= g
    PROVE  Standing(t, m) = Standing(t, p) \ {g} /\ Counted(t, m)
<1>1. Standing(t, m) \subseteq 1..m /\ Standing(t, p) \subseteq 1..p /\ m \notin 1..p
  BY StandingType
<1>2. ASSUME NEW i \in Standing(t, p)
      PROVE  /\ i \in 1..p
             /\ Cardinality(Climbs(t, i + 1, p)) \in Nat
             /\ Cardinality(Ahead(t, p, i)) \in Nat
             /\ Cardinality(Climbs(t, i + 1, m)) = Cardinality(Climbs(t, i + 1, p)) + 1
             /\ Cardinality(Descends(t, i + 1, m)) =
                    Cardinality(Climbs(t, i + 1, p)) + Cardinality(Ahead(t, p, i))
  BY CountedStep
<1>3. ASSUME NEW i \in Standing(t, p), i # g
      PROVE  g \in Ahead(t, p, i) /\ Cardinality(Ahead(t, p, i)) >= 1
  <2>1. g \in Ahead(t, p, i)
    <3>1. i <= g /\ i \in 1..p /\ g \in 1..p
      BY <1>1
    <3>2. g > i
      BY <1>3, <3>1
    <3> QED
      BY <3>2 DEF Ahead
  <2>2. IsFiniteSet(Ahead(t, p, i))
    BY StandingType
  <2>3. Cardinality(Ahead(t, p, i)) # 0
    BY <2>1, <2>2, FS_EmptySet
  <2> QED
    BY <1>2, <2>1, <2>3
<1>4. Cardinality(Ahead(t, p, g)) = 0
  <2>1. Ahead(t, p, g) = {}
    BY <1>1 DEF Ahead
  <2> QED
    BY <2>1, FS_EmptySet
<1>5. Standing(t, m) = Standing(t, p) \ {g}
  <2>1. m \notin Standing(t, m)
    BY StandingStep
  <2>2. ASSUME NEW i \in 1..p
        PROVE  i \in Standing(t, m) <=> i \in Standing(t, p) /\ i # g
    <3>1. ASSUME i \in Standing(t, p), i # g
          PROVE  Cardinality(Climbs(t, i + 1, m)) <= Cardinality(Descends(t, i + 1, m))
      BY <1>2, <1>3, <3>1
    <3>2. ~(Cardinality(Climbs(t, g + 1, m)) <= Cardinality(Descends(t, g + 1, m)))
      BY <1>2, <1>4
    <3> QED
      BY <3>1, <3>2, StandingStep
  <2>3. \A i \in 1..m : i = m \/ i \in 1..p
    OBVIOUS
  <2> QED
    BY <1>1, <2>1, <2>2, <2>3
<1>6. ASSUME NEW i \in Standing(t, p), i # g
      PROVE  Cardinality(Ahead(t, m, i)) = Cardinality(Ahead(t, p, i)) - 1
  <2>1. Ahead(t, m, i) = Ahead(t, p, i) \ {g}
    BY <1>5 DEF Ahead
  <2>2. IsFiniteSet(Ahead(t, p, i)) /\ g \in Ahead(t, p, i)
    BY <1>3, <1>6, StandingType
  <2> QED
    BY <2>1, <2>2, FS_RemoveElement
<1>7. ASSUME NEW i \in Standing(t, m)
      PROVE  Cardinality(Descends(t, i + 1, m)) =
                 Cardinality(Climbs(t, i + 1, m)) + Cardinality(Ahead(t, m, i))
  <2>1. i \in Standing(t, p) /\ i # g
    BY <1>5
  <2> QED
    BY <1>2, <1>6, <2>1
<1> QED
  BY <1>5, <1>7 DEF Counted

LEMMA NoneToClimb ==
    ASSUME NEW t, NEW p \in Nat, NEW m \in Nat, m = p + 1, ~IsDescent(t, m),
           Standing(t, p) = {}
    PROVE  Standing(t, m) = {} /\ Counted(t, m)
<1>1. Standing(t, m) \subseteq 1..m /\ m \notin Standing(t, m)
  BY StandingType, StandingStep
<1>2. \A i \in 1..p : i \notin Standing(t, m)
  BY StandingStep
<1>3. \A i \in 1..m : i = m \/ i \in 1..p
  OBVIOUS
<1>4. Standing(t, m) = {}
  BY <1>1, <1>2, <1>3
<1> QED
  BY <1>4 DEF Counted

LEMMA CleanCases ==
    ASSUME NEW t, NEW m, NEW v
    PROVE  /\ IsClimb(t, m) => ~IsDescent(t, m)
           /\ IsDescent(t, m) => Clean(v, t[m]) = Append(v, t[m])
           /\ ~IsClimb(t, m) /\ ~IsDescent(t, m) => Clean(v, t[m]) = v
           /\ IsClimb(t, m) /\ v = <<>> => Clean(v, t[m]) = v
           /\ IsClimb(t, m) /\ v # <<>> => Clean(v, t[m]) = SubSeq(v, 1, Len(v) - 1)
BY DEF IsClimb, IsDescent, Clean

LEMMA FrontOfAppend ==
    ASSUME NEW S, NEW v \in Seq(S), NEW e \in S
    PROVE  /\ Append(v, e) # <<>>
           /\ SubSeq(Append(v, e), 1, Len(Append(v, e)) - 1) = v
<1> DEFINE w == Append(v, e)
           f == SubSeq(w, 1, Len(v))
<1>1. /\ w \in Seq(S) /\ w # <<>> /\ Len(w) = Len(v) + 1 /\ Len(v) \in Nat
      /\ \A i \in 1..Len(v) : w[i] = v[i] /\ v[i] \in S
  BY AppendProperties, LenProperties, ElementOfSeq
<1> HIDE DEF w
<1>2. \A i \in 1..Len(v) : w[i] \in S
  BY <1>1
<1>3. /\ f \in Seq(S)
      /\ Len(f) = (IF 1 <= Len(v) THEN (Len(v) - 1) + 1 ELSE 0)
      /\ \A i \in 1 .. (Len(v) - 1) + 1 : f[i] = w[(1 + i) - 1]
  BY <1>1, <1>2, SubSeqProperties
<1> HIDE DEF f
<1>4. Len(f) = Len(v) /\ \A i \in 1..Len(v) : f[i] = v[i]
  <2>1. Len(f) = Len(v)
    BY <1>1, <1>3
  <2>2. ASSUME NEW i \in 1..Len(v) PROVE f[i] = v[i]
    <3>1. i \in 1 .. (Len(v) - 1) + 1 /\ (1 + i) - 1 = i
      BY <1>1
    <3> QED
      BY <1>1, <1>3, <3>1
  <2> QED
    BY <2>1, <2>2
<1>5. f = v
  BY <1>3, <1>4, SeqEqual
<1>6. Len(w) - 1 = Len(v)
  BY <1>1
<1> QED
  BY <1>1, <1>5, <1>6 DEF f, w

(***************************************************************************)
(* path.Clean, part by part, leaves the parts that stand.                  *)
(***************************************************************************)
LEMMA CleanIsKept ==
    ASSUME NEW S, NEW t \in Seq(S), NEW p \in Nat, NEW m \in Nat, m = p + 1, m <= Len(t),
           Counted(t, p), CleanedUpTo(t)[p] = KeptUpTo(t, Standing(t, p))[p]
    PROVE  Counted(t, m) /\ CleanedUpTo(t)[m] = KeptUpTo(t, Standing(t, m))[m]
<1> DEFINE a == KeptUpTo(t, Standing(t, p))
           b == KeptUpTo(t, Standing(t, m))
           c == CleanedUpTo(t)
<1>1. /\ Len(t) \in Nat /\ m \in 1..Len(t) /\ m - 1 = p /\ p \in 0..Len(t)
      /\ p <= Len(t)
  BY LenProperties
<1>2. \A i \in 1..Len(t) : t[i] \in S
  BY ElementOfSeq
<1>3. c[m] = Clean(a[p], t[m])
  BY <1>1, CleanSteps
<1>4. /\ a \in [0..Len(t) -> Seq(S)] /\ a[0] = <<>>
      /\ \A i \in 1..Len(t) :
           a[i] = IF i \in Standing(t, p) THEN Append(a[i - 1], t[i]) ELSE a[i - 1]
  <2> DEFINE keep == Standing(t, p)
  <2> HIDE DEF keep
  <2>1. Len(t) \in Nat /\ \A i \in 1..Len(t) : i \in keep => t[i] \in S
    BY <1>1, <1>2
  <2>2. /\ KeptUpTo(t, keep) \in [0..Len(t) -> Seq(S)] /\ KeptUpTo(t, keep)[0] = <<>>
        /\ \A i \in 1..Len(t) :
             KeptUpTo(t, keep)[i] =
                 IF i \in keep THEN Append(KeptUpTo(t, keep)[i - 1], t[i])
                 ELSE KeptUpTo(t, keep)[i - 1]
    BY <2>1, KeptSteps
  <2> QED
    BY <2>2 DEF keep
<1>5. /\ b \in [0..Len(t) -> Seq(S)] /\ b[0] = <<>>
      /\ \A i \in 1..Len(t) :
           b[i] = IF i \in Standing(t, m) THEN Append(b[i - 1], t[i]) ELSE b[i - 1]
  <2> DEFINE keep == Standing(t, m)
  <2> HIDE DEF keep
  <2>1. Len(t) \in Nat /\ \A i \in 1..Len(t) : i \in keep => t[i] \in S
    BY <1>1, <1>2
  <2>2. /\ KeptUpTo(t, keep) \in [0..Len(t) -> Seq(S)] /\ KeptUpTo(t, keep)[0] = <<>>
        /\ \A i \in 1..Len(t) :
             KeptUpTo(t, keep)[i] =
                 IF i \in keep THEN Append(KeptUpTo(t, keep)[i - 1], t[i])
                 ELSE KeptUpTo(t, keep)[i - 1]
    BY <2>1, KeptSteps
  <2> QED
    BY <2>2 DEF keep
<1>6. Standing(t, m) \subseteq 1..m /\ Standing(t, p) \subseteq 1..p
  BY StandingType
<1>7. \A q \in Nat : q <= p /\ Standing(t, p) \cap 1..q = Standing(t, m) \cap 1..q
          => a[q] = b[q]
  <2> SUFFICES ASSUME NEW q \in Nat, q <= p,
                      Standing(t, p) \cap 1..q = Standing(t, m) \cap 1..q
               PROVE  a[q] = b[q]
    OBVIOUS
  <2>1. q <= Len(t)
    BY <1>1
  <2>2. \A i \in 1..q : i \in Standing(t, p) <=> i \in Standing(t, m)
    OBVIOUS
  <2> QED
    BY <2>1, <2>2, KeptSame
<1>8. \A q, r \in Nat : q <= r /\ r <= Len(t) /\ (\A i \in q + 1 .. r : i \notin Standing(t, p))
          => a[r] = a[q]
  BY KeptNone
<1>9. \A q, r \in Nat : q <= r /\ r <= Len(t) /\ (\A i \in q + 1 .. r : i \notin Standing(t, m))
          => b[r] = b[q]
  BY KeptNone
<1> HIDE DEF a, b, c
<1>10. CASE ~IsClimb(t, m) /\ ~IsDescent(t, m)
  <2>1. Standing(t, m) = Standing(t, p) /\ Counted(t, m)
    BY <1>10, LevelStep
  <2>2. m \notin Standing(t, m)
    BY <1>6, <2>1
  <2>3. b[m] = b[p] /\ a[p] = b[p]
    BY <1>1, <1>5, <1>7, <2>1, <2>2
  <2>4. Clean(a[p], t[m]) = a[p]
    BY <1>10, CleanCases
  <2> QED
    BY <1>3, <2>1, <2>3, <2>4 DEF b, c
<1>11. CASE IsDescent(t, m)
  <2>1. ~IsClimb(t, m)
    BY <1>11, CleanCases
  <2>2. Standing(t, m) = Standing(t, p) \cup {m} /\ Counted(t, m)
    BY <1>11, <2>1, DescentStep
  <2>3. Standing(t, p) \cap 1..p = Standing(t, m) \cap 1..p
    BY <2>2
  <2>4. b[m] = Append(b[p], t[m]) /\ a[p] = b[p]
    <3>1. m \in Standing(t, m)
      BY <2>2
    <3>2. b[m] = Append(b[p], t[m])
      BY <1>1, <1>5, <3>1
    <3>3. a[p] = b[p]
      BY <1>7, <2>3
    <3> QED
      BY <3>2, <3>3
  <2>5. Clean(a[p], t[m]) = Append(a[p], t[m])
    BY <1>11, CleanCases
  <2> QED
    BY <1>3, <2>2, <2>4, <2>5 DEF b, c
<1>12. CASE IsClimb(t, m) /\ Standing(t, p) = {}
  <2>1. Standing(t, m) = {} /\ Counted(t, m)
    BY <1>12, NoneToClimb, CleanCases
  <2>2. b[m] = <<>> /\ a[p] = <<>>
    BY <1>1, <1>4, <1>5, <1>8, <1>9, <1>12, <2>1
  <2>3. Clean(a[p], t[m]) = a[p]
    BY <1>12, <2>2, CleanCases
  <2> QED
    BY <1>3, <2>1, <2>2, <2>3 DEF b, c
<1>13. CASE IsClimb(t, m) /\ Standing(t, p) # {}
  <2>1. PICK g \in Standing(t, p) : \A k \in Standing(t, p) : k <= g
    <3>1. Standing(t, p) \subseteq 0..p
      BY <1>6
    <3> QED
      BY <1>13, <3>1, GreatestUpTo
  <2>2. ~IsDescent(t, m)
    BY <1>13, CleanCases
  <2>3. Standing(t, m) = Standing(t, p) \ {g} /\ Counted(t, m)
    BY <1>13, <2>1, <2>2, ClimbStep
  <2>4. /\ g \in 1..p /\ g - 1 \in Nat /\ g - 1 <= p /\ g <= p /\ g - 1 <= m
        /\ g \in 1..Len(t) /\ g - 1 \in 0..Len(t) /\ (g - 1) + 1 = g
    BY <1>1, <1>6
  <2>5. \A i \in g + 1 .. p : i \notin Standing(t, p)
    BY <1>6, <2>1, <2>4
  <2>6. \A i \in (g - 1) + 1 .. m : i \notin Standing(t, m)
    BY <1>6, <2>1, <2>3, <2>4
  <2>7. a[p] = Append(a[g - 1], t[g])
    <3>1. a[p] = a[g]
      BY <1>1, <1>8, <2>4, <2>5
    <3>2. a[g] = Append(a[g - 1], t[g])
      BY <1>4, <2>4
    <3> QED
      BY <3>1, <3>2
  <2>8. b[m] = b[g - 1]
    BY <1>1, <1>9, <2>4, <2>6
  <2>9. a[g - 1] = b[g - 1]
    <3>1. g \notin 1 .. g - 1
      BY <2>4
    <3>2. Standing(t, p) \cap (1 .. g - 1) = Standing(t, m) \cap (1 .. g - 1)
      BY <2>3, <3>1
    <3> QED
      BY <1>7, <2>4, <3>2
  <2>10. a[g - 1] \in Seq(S) /\ t[g] \in S
    BY <1>2, <1>4, <2>4
  <2>11. a[p] # <<>> /\ SubSeq(a[p], 1, Len(a[p]) - 1) = a[g - 1]
    BY <2>7, <2>10, FrontOfAppend
  <2>12. Clean(a[p], t[m]) = a[g - 1]
    <3>1. Clean(a[p], t[m]) = SubSeq(a[p], 1, Len(a[p]) - 1)
      <4> DEFINE v == a[p]
      <4>1. v # <<>> /\ t[m] = ".."
        BY <1>13, <2>11 DEF IsClimb
      <4> HIDE DEF v
      <4>2. Clean(v, t[m]) = SubSeq(v, 1, Len(v) - 1)
        BY <4>1 DEF Clean
      <4> QED
        BY <4>2 DEF v
    <3> QED
      BY <2>11, <3>1, Zenon
  <2> QED
    BY <1>3, <2>3, <2>8, <2>9, <2>12 DEF b, c
<1> QED
  BY <1>10, <1>11, <1>12, <1>13

LEMMA CleanIsMeaning ==
    ASSUME NEW S, NEW t \in Seq(S)
    PROVE  CleanedUpTo(t)[Len(t)] = Kept(t, {i \in DOMAIN t : Stands(t, i)})
<1> DEFINE T == {m \in 0..Len(t) : /\ Counted(t, m)
                                   /\ CleanedUpTo(t)[m] = KeptUpTo(t, Standing(t, m))[m]}
<1>1. Len(t) \in Nat /\ DOMAIN t = 1..Len(t)
  BY LenProperties
<1>2. 0 \in T
  <2>1. Standing(t, 0) = {}
    <3>1. Standing(t, 0) \subseteq 1..0
      BY StandingType
    <3> QED
      BY <3>1
  <2>2. CleanedUpTo(t)[0] = <<>>
    BY CleanSteps
  <2>3. KeptUpTo(t, Standing(t, 0))[0] = <<>>
    <3>1. \A i \in 1..Len(t) : t[i] \in S
      BY ElementOfSeq
    <3> QED
      BY <1>1, <3>1, KeptSteps
  <2> QED
    BY <1>1, <2>1, <2>2, <2>3 DEF Counted
<1>3. ASSUME NEW m \in 1..Len(t), m - 1 \in T PROVE m \in T
  <2>1. /\ m - 1 \in Nat /\ m \in Nat /\ m = (m - 1) + 1 /\ m <= Len(t) /\ m \in 0..Len(t)
    BY <1>1
  <2>2. Counted(t, m) /\ CleanedUpTo(t)[m] = KeptUpTo(t, Standing(t, m))[m]
    BY <1>3, <2>1, CleanIsKept
  <2> QED
    BY <2>1, <2>2
<1> HIDE DEF T
<1>4. \A m \in 0..Len(t) : m \in T
  BY <1>1, <1>2, <1>3, UpToInduction
<1>5. CleanedUpTo(t)[Len(t)] = KeptUpTo(t, Standing(t, Len(t)))[Len(t)]
  BY <1>1, <1>4 DEF T
<1>6. {i \in DOMAIN t : Stands(t, i)} = Standing(t, Len(t))
  BY <1>1 DEF Stands, Standing, Descends
<1> QED
  BY <1>5, <1>6 DEF Kept

(***************************************************************************)
(* The two halves of a concatenation.                                      *)
(***************************************************************************)
LEMMA Halves ==
    ASSUME NEW S, NEW x \in Seq(S), NEW y \in Seq(S)
    PROVE  SubSeq(x \o y, 1, Len(x)) = x /\ From(x \o y, Len(x) + 1) = y
<1> DEFINE w == x \o y
           n == Len(x)
           k == Len(w)
           f == SubSeq(w, 1, n)
           g == SubSeq(w, n + 1, k)
<1>1. /\ n \in Nat /\ Len(y) \in Nat /\ k = n + Len(y) /\ w \in Seq(S)
      /\ \A i \in 1 .. n + Len(y) : w[i] = IF i <= n THEN x[i] ELSE y[i - n]
  BY LenProperties, ConcatProperties
<1> HIDE DEF w, n
<1>2. \A i \in 1..k : w[i] \in S
  BY <1>1, ElementOfSeq
<1> HIDE DEF k
<1>3. f = x
  <2>1. \A i \in 1..n : w[i] \in S /\ w[i] = x[i]
    BY <1>1, <1>2
  <2>2. /\ f \in Seq(S)
        /\ Len(f) = (IF 1 <= n THEN (n - 1) + 1 ELSE 0)
        /\ \A i \in 1 .. (n - 1) + 1 : f[i] = w[(1 + i) - 1]
    BY <1>1, <2>1, SubSeqProperties
  <2> HIDE DEF f
  <2>3. Len(f) = n
    BY <1>1, <2>2
  <2>4. ASSUME NEW i \in 1..n PROVE f[i] = x[i]
    <3>1. i \in 1 .. (n - 1) + 1 /\ (1 + i) - 1 = i
      BY <1>1
    <3> QED
      BY <2>1, <2>2, <3>1
  <2> QED
    BY <2>2, <2>3, <2>4, SeqEqual DEF n
<1>4. g = y
  <2>1. \A i \in n + 1 .. k : w[i] \in S
    BY <1>1, <1>2
  <2>2. n + 1 \in Int /\ k \in Int
    BY <1>1
  <2>3. /\ g \in Seq(S)
        /\ Len(g) = (IF n + 1 <= k THEN (k - (n + 1)) + 1 ELSE 0)
        /\ \A i \in 1 .. (k - (n + 1)) + 1 : g[i] = w[((n + 1) + i) - 1]
    BY <2>1, <2>2, SubSeqProperties
  <2> HIDE DEF g
  <2>4. Len(g) = Len(y)
    BY <1>1, <2>3
  <2>5. ASSUME NEW i \in 1..Len(y) PROVE g[i] = y[i]
    <3>1. /\ i \in 1 .. (k - (n + 1)) + 1 /\ ((n + 1) + i) - 1 = n + i
          /\ n + i \in 1 .. n + Len(y) /\ ~(n + i <= n) /\ (n + i) - n = i
      <4> DEFINE q == Len(y)
      <4>1. n \in Nat /\ q \in Nat /\ k = n + q /\ i \in 1..q
        BY <1>1
      <4> HIDE DEF q
      <4>2. (k - (n + 1)) + 1 = q
        BY <4>1
      <4>3. i \in 1 .. (k - (n + 1)) + 1 /\ ((n + 1) + i) - 1 = n + i
        BY <4>1, <4>2
      <4>4. n + i \in 1 .. n + q /\ ~(n + i <= n) /\ (n + i) - n = i
        BY <4>1
      <4> QED
        BY <4>3, <4>4 DEF q
    <3>2. g[i] = w[((n + 1) + i) - 1]
      BY <2>3, <3>1
    <3>3. w[n + i] = y[(n + i) - n]
      BY <1>1, <3>1
    <3> QED
      BY <3>1, <3>2, <3>3
  <2> QED
    BY <2>3, <2>4, <2>5, SeqEqual
<1> QED
  BY <1>3, <1>4 DEF From, f, g, w, n, k

Splits(h, r, e) ==
    /\ SubSeq((h \o r) \o e, 1, Len(h)) = h
    /\ From((h \o r) \o e, Len(h) + 1) = r \o e

LEMMA SplitWhole ==
    ASSUME NEW S, NEW h \in Seq(S), NEW r \in Seq(S), NEW e \in Seq(S)
    PROVE  Splits(h, r, e)
<1>1. (h \o r) \o e = h \o (r \o e)
  BY ConcatAssociative
<1>2. r \o e \in Seq(S)
  BY ConcatProperties
<1> DEFINE re == r \o e
<1> HIDE DEF re
<1>3. SubSeq(h \o re, 1, Len(h)) = h /\ From(h \o re, Len(h) + 1) = re
  <2>1. re \in Seq(S)
    BY <1>2 DEF re
  <2> QED
    BY <2>1, Halves
<1> QED
  BY <1>1, <1>3 DEF Splits, re

(***************************************************************************)
(* Paths: what is cut from one, or put together of two, is one.            *)
(***************************************************************************)
PartsOf(t) == {t[i] : i \in DOMAIN t}

HasNoGap(t) == t \in Seq(PartsOf(t) \ {""})

LEMMA PathOfSeq ==
    ASSUME NEW S, NEW t \in Seq(S)
    PROVE  /\ t \in Seq(PartsOf(t))
           /\ "" \notin S => HasNoGap(t)
<1>1. Len(t) \in Nat /\ t \in [1..Len(t) -> S] /\ DOMAIN t = 1..Len(t)
  BY LenProperties
<1>2. \A i \in 1..Len(t) : t[i] \in PartsOf(t) /\ t[i] \in S
  BY <1>1 DEF PartsOf
<1>3. ASSUME NEW V, \A i \in 1..Len(t) : t[i] \in V PROVE t \in Seq(V)
  <2>1. t \in [1..Len(t) -> V]
    BY <1>1, <1>3
  <2> QED
    BY <1>1, <2>1, SeqDef
<1>4. t \in Seq(PartsOf(t))
  BY <1>2, <1>3
<1>5. ASSUME "" \notin S PROVE t \in Seq(PartsOf(t) \ {""})
  <2>1. \A i \in 1..Len(t) : t[i] \in PartsOf(t) \ {""}
    BY <1>2, <1>5
  <2> QED
    BY <1>3, <2>1
<1> QED
  BY <1>4, <1>5 DEF HasNoGap

LEMMA FromType ==
    ASSUME NEW S, NEW t \in Seq(S), NEW k \in Nat \ {0}
    PROVE  From(t, k) \in Seq(S)
<1>1. Len(t) \in Nat /\ \A i \in 1..Len(t) : t[i] \in S
  BY LenProperties, ElementOfSeq
<1>2. \A i \in k..Len(t) : t[i] \in S
  BY <1>1
<1> QED
  BY <1>1, <1>2, SubSeqProperties DEF From

LEMMA AppendedHasNoGap ==
    ASSUME NEW S, NEW a \in Seq(S), NEW b, HasNoGap(b)
    PROVE  HasNoGap(appendParts(a, b))
<1> DEFINE V == S \cup (PartsOf(b) \ {""})
<1>1. a \in Seq(V) /\ b \in Seq(V)
  <2>1. S \subseteq V /\ PartsOf(b) \ {""} \subseteq V
    OBVIOUS
  <2> HIDE DEF V
  <2> QED
    BY <2>1, SeqMonotonic DEF HasNoGap
<1> HIDE DEF V
<1>2. a \o b \in Seq(V)
  BY <1>1, ConcatProperties
<1>3. NonEmpty(a \o b) \in Seq(V \ {""})
  BY <1>2, NonEmptyType
<1> DEFINE r == NonEmpty(a \o b)
           W == V \ {""}
<1>4. r \in Seq(W) /\ "" \notin W
  BY <1>3
<1> HIDE DEF r, W
<1>5. HasNoGap(r)
  BY <1>4, PathOfSeq
<1> QED
  BY <1>5 DEF appendParts, r

LEMMA CutAtThree ==
    ASSUME NEW S, NEW t \in Seq(S), Len(t) >= 3
    PROVE  /\ SubSeq(t, 1, 3) \in Seq(S) /\ From(t, 4) \in Seq(S)
           /\ SubSeq(t, 2, 3) \in Seq(S)
           /\ t = SubSeq(t, 1, 3) \o From(t, 4)
           /\ SubSeq(t, 1, 3) = <<t[1]>> \o SubSeq(t, 2, 3)
<1>1. Len(t) \in Nat /\ \A i \in 1..Len(t) : t[i] \in S
  BY LenProperties, ElementOfSeq
<1>2. SubSeq(t, 1, 3) \in Seq(S) /\ SubSeq(t, 2, 3) \in Seq(S)
  <2>1. /\ \A i \in 1..3 : t[i] \in S
        /\ \A i \in 2..3 : t[i] \in S
    BY <1>1
  <2> QED
    BY <2>1, SubSeqProperties
<1>3. From(t, 4) \in Seq(S)
  BY FromType
<1>4. t = SubSeq(t, 1, 3) \o From(t, 4)
  <2>1. /\ 1 \in 1 .. Len(t) + 1 /\ 3 \in 1 - 1 .. Len(t) /\ Len(t) \in 3..Len(t)
    BY <1>1
  <2>2. SubSeq(t, 1, 3) \o SubSeq(t, 3 + 1, Len(t)) = SubSeq(t, 1, Len(t))
    BY <2>1, ConcatAdjacentSubSeq
  <2>3. SubSeq(t, 1, Len(t)) = t
    BY SubSeqFull
  <2> QED
    BY <2>2, <2>3 DEF From
<1>5. SubSeq(t, 1, 3) = <<t[1]>> \o SubSeq(t, 2, 3)
  <2>1. 1 \in 1..Len(t) /\ 3 \in 1..Len(t)
    BY <1>1
  <2>2. SubSeq(t, 1, 3) = <<t[1]>> \o SubSeq(t, 1 + 1, 3)
    BY <2>1, SubSeqRecursiveFirst
  <2> QED
    BY <2>2
<1> QED
  BY <1>2, <1>3, <1>4, <1>5

LEMMA ShortSeqs ==
    ASSUME NEW S, NEW x \in S, NEW y \in S
    PROVE  <<x>> \in Seq(S) /\ <<x, y>> \in Seq(S) /\ Len(<<x>>) = 1
OBVIOUS

LEMMA KeptCollects ==
    ASSUME NEW S, NEW s \in Seq(S), NEW keep
    PROVE  Collects(KeptUpTo(s, keep), Len(s), <<>>, s, keep)
<1>1. Len(s) \in Nat /\ \A i \in 1..Len(s) : s[i] \in S
  BY LenProperties, ElementOfSeq
<1>2. /\ KeptUpTo(s, keep)[0] = <<>>
      /\ \A i \in 1..Len(s) :
           KeptUpTo(s, keep)[i] =
               IF i \in keep THEN Append(KeptUpTo(s, keep)[i - 1], s[i])
               ELSE KeptUpTo(s, keep)[i - 1]
  BY <1>1, KeptSteps
<1> QED
  BY <1>2 DEF Collects

LEMMA KeptSecond ==
    ASSUME NEW S, NEW s \in Seq(S), Len(s) = 2, NEW keep, 1 \notin keep, 2 \in keep
    PROVE  Kept(s, keep) = <<s[2]>>
<1> DEFINE f == KeptUpTo(s, keep)
<1>1. Collects(f, Len(s), <<>>, s, keep)
  BY KeptCollects, Zenon
<1>2. /\ f[0] = <<>>
      /\ \A i \in 1..Len(s) : f[i] = IF i \in keep THEN Append(f[i - 1], s[i]) ELSE f[i - 1]
  BY <1>1, Zenon DEF Collects
<1> HIDE DEF f
<1>3. f[1] = f[0]
  <2>1. 1 \in 1..Len(s) /\ 1 - 1 = 0
    OBVIOUS
  <2> QED
    BY <1>2, <2>1
<1>4. f[2] = Append(f[1], s[2])
  <2>1. 2 \in 1..Len(s) /\ 2 - 1 = 1
    OBVIOUS
  <2> QED
    BY <1>2, <2>1
<1>5. f[2] = Append(<<>>, s[2])
  BY <1>2, <1>3, <1>4
<1> QED
  BY <1>5 DEF Kept, f

IsEmptyPart(p) == p = ""

LEMMA NonEmptyRoot ==
    ASSUME NEW x, NEW w, IsEmptyPart(x), ~IsEmptyPart(w)
    PROVE  NonEmpty(<<x, w>>) = <<w>>
<1> DEFINE s == <<x, w>>
           keep == {i \in DOMAIN s : ~IsEmptyPart(s[i])}
           S == {x, w}
<1>1. Len(s) = 2 /\ DOMAIN s = 1..2 /\ s[1] = x /\ s[2] = w
  OBVIOUS
<1>2. s \in Seq(S)
  <2>1. x \in S /\ w \in S
    OBVIOUS
  <2> HIDE DEF S
  <2> QED
    BY <2>1, ShortSeqs
<1>3. 1 \notin keep /\ 2 \in keep
  BY <1>1
<1>4. {i \in DOMAIN s : s[i] # ""} = keep
  BY DEF IsEmptyPart
<1> HIDE DEF s, keep, S
<1>5. Kept(s, keep) = <<s[2]>>
  BY <1>1, <1>2, <1>3, KeptSecond
<1> QED
  BY <1>1, <1>4, <1>5 DEF NonEmpty, s

LEMMA CleanedIsSegments ==
    ASSUME NEW t, HasBasePath(t)
    PROVE  /\ Segments(t) = CleanedUpTo(t)[Len(t)]
           /\ Len(CleanedUpTo(t)[Len(t)]) >= 3
<1> DEFINE c == CleanedUpTo(t)[Len(t)]
           one == <<"">>
<1>0. \A n : n = 1 => ~(n >= 3)
  OBVIOUS
<1>1. Len(Segments(t)) >= 3
  BY DEF HasBasePath
<1>2. Segments(t) = IF c = <<>> THEN one ELSE c
  BY DEF Segments
<1>3. Len(one) = 1
  BY ShortSeqs
<1> HIDE DEF c, one
<1>4. Segments(t) # one
  BY <1>0, <1>1, <1>3, Zenon
<1>5. Segments(t) = c
  BY <1>2, <1>4
<1> QED
  BY <1>1, <1>5 DEF c

LEMMA CleanedType ==
    ASSUME NEW S, NEW t \in Seq(S)
    PROVE  /\ CleanedUpTo(t)[Len(t)] \in Seq(S \ {"", ".", ".."})
           /\ Segments(t) \in Seq(S \cup {""})
<1>1. CleanedUpTo(t)[Len(t)] \in Seq(S \ {"", ".", ".."})
  <2>1. Len(t) \in 0..Len(t)
    BY LenProperties
  <2>2. CleanedUpTo(t) \in [0..Len(t) -> Seq(S \ {"", ".", ".."})]
    BY CleanSteps
  <2> QED
    BY <2>1, <2>2
<1> DEFINE c == CleanedUpTo(t)[Len(t)]
           W == S \ {"", ".", ".."}
           V == S \cup {""}
<1>2. c \in Seq(V) /\ <<"">> \in Seq(V)
  <2>1. W \subseteq V /\ c \in Seq(W) /\ "" \in V
    BY <1>1
  <2> HIDE DEF W, V, c
  <2>2. c \in Seq(V)
    BY <2>1, SeqMonotonic
  <2>3. <<"">> \in Seq(V)
    BY <2>1, ShortSeqs
  <2> QED
    BY <2>2, <2>3
<1> QED
  BY <1>1, <1>2 DEF Segments

LEMMA RestType ==
    ASSUME NEW S, NEW t \in Seq(S)
    PROVE  RestOf(t) \in Seq(S \cup {""}) /\ TargetRest(t) \in Seq(S)
<1> DEFINE V == S \cup {""}
           segs == Segments(t)
<1>1. From(t, 2) \in Seq(S) /\ From(t, 4) \in Seq(S)
  <2>1. 2 \in Nat \ {0} /\ 4 \in Nat \ {0}
    OBVIOUS
  <2> QED
    BY <2>1, FromType
<1>2. RelativePath(t) \in Seq(V)
  <2>1. segs \in Seq(V)
    BY CleanedType
  <2> HIDE DEF segs, V
  <2>2. From(segs, 4) \in Seq(V)
    BY <2>1, FromType
  <2> QED
    BY <2>2 DEF RelativePath, segs
<1>3. From(t, 4) \in Seq(V)
  <2>1. S \subseteq V
    OBVIOUS
  <2> HIDE DEF V
  <2> QED
    BY <1>1, <2>1, SeqMonotonic
<1>4. TargetRest(t) \in Seq(S)
  <2>1. <<>> \in Seq(S)
    BY EmptySeq
  <2> QED
    BY <1>1, <2>1 DEF TargetRest
<1> QED
  BY <1>2, <1>3, <1>4 DEF RestOf

(***************************************************************************)
(* What a lookup substitutes, for the two kinds of paths.                  *)
(***************************************************************************)
Substitutes(t, e) ==
    LET whole == Meaning(t) \o e
        n == Len(HeadOf(t))
    IN  /\ SubSeq(whole, 1, n) = HeadOf(t)
        /\ appendParts(RestOf(t), e) = From(whole, n + 1)

LEMMA OtherPathsSubstitute ==
    ASSUME NEW S, NEW t \in Seq(S), NEW e \in Seq(S \ {""}), Len(t) >= 3, ~ByIprs(t)
    PROVE  Substitutes(t, e)
<1> DEFINE h == SubSeq(t, 1, 3)
           r == From(t, 4)
           V == S \ {""}
           nh == NonEmpty(h)
           nr == NonEmpty(r)
<1>1. h \in Seq(S) /\ r \in Seq(S) /\ t = h \o r
  BY CutAtThree
<1> HIDE DEF h, r
<1>2. e \in Seq(S)
  <2>1. V \subseteq S /\ e \in Seq(V)
    OBVIOUS
  <2> HIDE DEF V
  <2> QED
    BY <2>1, SeqMonotonic
<1>3. nh \in Seq(V) /\ nr \in Seq(V)
  BY <1>1, NonEmptyType
<1>4. NonEmpty(t) = nh \o nr
  BY <1>1, NonEmptyConcat
<1>5. NonEmpty(r \o e) = nr \o e
  <2>1. NonEmpty(r \o e) = NonEmpty(r) \o NonEmpty(e)
    BY <1>1, <1>2, NonEmptyConcat
  <2>2. NonEmpty(e) = e
    BY NonEmptySame
  <2> QED
    BY <2>1, <2>2
<1> HIDE DEF nh, nr
<1>6. Splits(nh, nr, e)
  BY <1>3, SplitWhole
<1>7. HeadOf(t) = nh /\ Meaning(t) = nh \o nr /\ RestOf(t) = r
  BY <1>4 DEF HeadOf, Meaning, RestOf, h, r, nh
<1> QED
  BY <1>5, <1>6, <1>7, Zenon DEF Substitutes, Splits, appendParts

ComesFromIprs(t) == Meaning(t)[1] = "iprs"

LEMMA IprsPathsSubstitute ==
    ASSUME NEW S, NEW t \in Seq(S), NEW e \in Seq(S \ {""}),
           ByIprs(t), HasBasePath(t), ComesFromIprs(t)
    PROVE  Substitutes(t, e)
<1> DEFINE V == S \ {""}
           c == CleanedUpTo(t)[Len(t)]
           h == SubSeq(c, 1, 3)
           r == From(c, 4)
           k == SubSeq(c, 2, 3)
<1>1. c \in Seq(V)
  <2>1. S \ {"", ".", ".."} \subseteq V /\ c \in Seq(S \ {"", ".", ".."})
    BY CleanedType
  <2> HIDE DEF V, c
  <2> QED
    BY <2>1, SeqMonotonic
<1>2. c = Meaning(t)
  BY CleanIsMeaning DEF Meaning
<1>3. Segments(t) = c /\ Len(c) >= 3
  BY CleanedIsSegments
<1> HIDE DEF c, V
<1>4. /\ h \in Seq(V) /\ r \in Seq(V) /\ k \in Seq(V)
      /\ c = h \o r /\ h = <<c[1]>> \o k
  BY <1>1, <1>3, CutAtThree
<1> HIDE DEF h, r, k
<1>5. HeadOf(t) = h
  <2> DEFINE a == <<"", "iprs">>
             z == <<"iprs">>
  <2>1. KeyOf(t) = a \o k
    BY <1>3 DEF KeyOf, BasePath, ByDns, ByIprs, k
  <2>2. NonEmpty(a) = z
    <3>1. IsEmptyPart("") /\ ~IsEmptyPart("iprs")
      BY DEF IsEmptyPart
    <3> QED
      BY <3>1, NonEmptyRoot
  <2>3. NonEmpty(k) = k
    BY <1>4, NonEmptySame DEF V
  <2>4. z \o k = h
    BY <1>2, <1>4 DEF ComesFromIprs
  <2>5. NonEmpty(a \o k) = NonEmpty(a) \o NonEmpty(k)
    <3> DEFINE W == V \cup {"", "iprs"}
    <3>1. V \subseteq W /\ "" \in W /\ "iprs" \in W
      OBVIOUS
    <3> HIDE DEF W
    <3>2. a \in Seq(W)
      BY <3>1, ShortSeqs
    <3> HIDE DEF a
    <3>3. k \in Seq(W)
      BY <1>4, <3>1, SeqMonotonic
    <3> QED
      BY <3>2, <3>3, NonEmptyConcat
  <2> HIDE DEF a, z
  <2> QED
    BY <2>1, <2>2, <2>3, <2>4, <2>5 DEF HeadOf
<1>6. RestOf(t) = r
  BY <1>3 DEF RestOf, RelativePath, r
<1>7. NonEmpty(r \o e) = r \o e
  <2> DEFINE re == r \o e
  <2>1. re \in Seq(V)
    BY <1>4, ConcatProperties DEF V
  <2> HIDE DEF re
  <2>2. re \in Seq(S \ {""})
    BY <2>1 DEF V
  <2>3. NonEmpty(re) = re
    BY <2>2, NonEmptySame
  <2> QED
    BY <2>3 DEF re
<1>8. Splits(h, r, e)
  <2>1. e \in Seq(V)
    BY DEF V
  <2> QED
    BY <1>4, <2>1, SplitWhole
<1> QED
  BY <1>2, <1>4, <1>5, <1>6, <1>7, <1>8, Zenon DEF Substitutes, Splits, appendParts

(***************************************************************************)
(* The parts carried along never have an empty one, since every name and   *)
(* value is a path, whose parts appendParts filters.                       *)
(***************************************************************************)
AppendedInv == HasNoGap(call.apnd)

LEMMA TargetIsPath ==
    ASSUME ResolverInv, call.pc = "resolve"
    PROVE  call.target \in Seq(PartsOf(call.target))
BY PathsAssumption DEF ResolverInv, TypeOK, Ended, IsPath, PartsOf

LEMMA AppendedStep == ResolverInv /\ AppendedInv /\ [Next]_vars => AppendedInv'
<1> SUFFICES ASSUME ResolverInv, AppendedInv, [Next]_vars PROVE HasNoGap(call'.apnd)
  BY DEF AppendedInv
<1> DEFINE t == call.target
           S == PartsOf(t)
<1>1. call.pc = "resolve" =>
        /\ HasNoGap(appendParts(TargetRest(t), call.apnd))
        /\ HasNoGap(appendParts(RestOf(t), call.apnd))
  <2> SUFFICES ASSUME call.pc = "resolve"
               PROVE  /\ HasNoGap(appendParts(TargetRest(t), call.apnd))
                      /\ HasNoGap(appendParts(RestOf(t), call.apnd))
    OBVIOUS
  <2>1. t \in Seq(S)
    BY TargetIsPath
  <2> DEFINE V == S \cup {""}
  <2>2. TargetRest(t) \in Seq(S) /\ RestOf(t) \in Seq(V)
    <3> HIDE DEF t, S
    <3> QED
      BY <2>1, RestType
  <2> HIDE DEF t, S, V
  <2> QED
    BY <2>2, AppendedHasNoGap, Zenon DEF AppendedInv
<1>2. CASE BottomOut
  <2>1. call'.apnd = appendParts(TargetRest(t), call.apnd) \/ call'.apnd = call.apnd
    BY <1>2 DEF ResolverInv, CallIsRecord, BottomOut, End
  <2>2. call.pc = "resolve"
    BY <1>2 DEF BottomOut
  <2> QED
    BY <1>1, <2>1, <2>2 DEF AppendedInv
<1>3. CASE Recurse
  <2>1. call'.apnd = appendParts(RestOf(t), call.apnd) /\ call.pc = "resolve"
    BY <1>3 DEF ResolverInv, CallIsRecord, Recurse
  <2> QED
    BY <1>1, <2>1
<1>4. CASE RecursionLimit \/ LookupFails \/ IndexPanics
  <2>1. call'.apnd = call.apnd
    BY <1>4 DEF ResolverInv, CallIsRecord, RecursionLimit, LookupFails, IndexPanics, End
  <2> QED
    BY <2>1 DEF AppendedInv
<1>5. CASE UNCHANGED call
  BY <1>5 DEF AppendedInv
<1> QED
  BY <1>2, <1>3, <1>4, <1>5 DEF Next, Step, Rebind, vars

LEMMA AppendedInvariant == Spec => []AppendedInv
<1>1. Init => AppendedInv
  <2> SUFFICES ASSUME Init PROVE HasNoGap(call.apnd)
    BY DEF AppendedInv
  <2>1. call.apnd = <<>>
    BY DEF Init
  <2>2. HasNoGap(<<>>)
    BY EmptySeq DEF HasNoGap
  <2> QED
    BY <2>1, <2>2
<1> QED
  BY <1>1, ResolverInvariant, AppendedStep, PTL DEF Spec

LEMMA AcceptedIsLong ==
    ASSUME NEW S, NEW t \in Seq(S), Accepted(t)
    PROVE  Len(t) >= 3
<1>1. Len(t) \in Nat
  BY LenProperties
<1>2. AcceptsDns(t) => Len(t) > 2
  BY DEF AcceptsDns
<1>3. AcceptsIprs(t) => Len(t) >= 4
  BY DEF AcceptsIprs
<1>4. AcceptsIpns(t) => Len(t) >= 3
  BY DEF AcceptsIpns
<1>5. Len(t) > 2 \/ Len(t) >= 4 \/ Len(t) >= 3
  BY <1>2, <1>3, <1>4 DEF Accepted
<1> QED
  BY <1>1, <1>5

LEMMA RecurseSubstitutes ==
    ASSUME ResolverInv, AppendedInv, Recurse,
           ByIprs(call.target) => ComesFromIprs(call.target)
    PROVE  Substitutes(call.target, call.apnd)
<1> DEFINE t == call.target
           e == call.apnd
           S == PartsOf(t) \cup (PartsOf(e) \ {""})
           V == S \ {""}
<1>1. t \in Seq(S)
  <2>1. t \in Seq(PartsOf(t)) /\ PartsOf(t) \subseteq S
    BY TargetIsPath DEF Recurse
  <2> HIDE DEF S, t
  <2> QED
    BY <2>1, SeqMonotonic
<1>2. e \in Seq(V)
  <2>1. e \in Seq(PartsOf(e) \ {""}) /\ PartsOf(e) \ {""} \subseteq V
    BY DEF AppendedInv, HasNoGap
  <2> DEFINE W == PartsOf(e) \ {""}
  <2> HIDE DEF V, W
  <2>2. e \in Seq(W) /\ W \subseteq V
    BY <2>1 DEF W
  <2> HIDE DEF e
  <2> QED
    BY <2>2, SeqMonotonic
<1>3. Accepted(t) /\ (ByIprs(t) => HasBasePath(t)) /\ (ByIprs(t) => ComesFromIprs(t))
  BY DEF Recurse
<1> HIDE DEF t, e, S
<1>4. e \in Seq(S \ {""})
  BY <1>2
<1>5. ASSUME ByIprs(t) PROVE Substitutes(t, e)
  BY <1>1, <1>3, <1>4, <1>5, IprsPathsSubstitute
<1>6. ASSUME ~ByIprs(t) PROVE Substitutes(t, e)
  <2>1. Len(t) >= 3
    BY <1>1, <1>3, AcceptedIsLong
  <2> QED
    BY <1>1, <1>4, <1>6, <2>1, OtherPathsSubstitute
<1> QED
  BY <1>5, <1>6 DEF t, e

(***************************************************************************)
(* Resolution is substitution: every lookup replaces the name at the head  *)
(* of what the whole path says by the name's value, whatever the paths and *)
(* values are, "." and ".." included; but for a path that climbs out of    *)
(* /iprs/.                                                                 *)
(***************************************************************************)
THEOREM LookupsSubstitute == Spec => StepsSubstitute
<1> DEFINE t == call.target
           whole == Meaning(t) \o call.apnd
           n == Len(HeadOf(t))
           A == call'.hops # call.hops =>
                  \/ ByIprs(t) /\ Meaning(t)[1] # "iprs"
                  \/ /\ SubSeq(whole, 1, n) = HeadOf(t)
                     /\ NonEmpty(call'.target) \o call'.apnd =
                            NonEmpty(names[KeyOf(t)]) \o From(whole, n + 1)
<1>1. ResolverInv /\ AppendedInv /\ [Next]_vars => [A]_vars
  <2> SUFFICES ASSUME ResolverInv, AppendedInv, [Next]_vars, call'.hops # call.hops,
                      ~(ByIprs(t) /\ Meaning(t)[1] # "iprs")
               PROVE  /\ SubSeq(whole, 1, n) = HeadOf(t)
                      /\ NonEmpty(call'.target) \o call'.apnd =
                             NonEmpty(names[KeyOf(t)]) \o From(whole, n + 1)
    OBVIOUS
  <2>1. Recurse
    <3>1. BottomOut \/ RecursionLimit \/ IndexPanics \/ LookupFails => call'.hops = call.hops
      BY DEF ResolverInv, CallIsRecord, BottomOut, RecursionLimit, IndexPanics, LookupFails, End
    <3> QED
      BY <3>1 DEF Next, Step, Rebind, vars
  <2>2. Substitutes(t, call.apnd)
    BY <2>1, RecurseSubstitutes DEF ComesFromIprs
  <2>3. /\ call'.target = names[KeyOf(t)]
        /\ call'.apnd = appendParts(RestOf(t), call.apnd)
    BY <2>1 DEF ResolverInv, CallIsRecord, Recurse
  <2>4. /\ SubSeq(whole, 1, n) = HeadOf(t)
        /\ appendParts(RestOf(t), call.apnd) = From(whole, n + 1)
    BY <2>2 DEF Substitutes
  <2> HIDE DEF whole, n, t
  <2> QED
    BY <2>3, <2>4
<1>2. Spec => [][A]_vars
  BY <1>1, ResolverInvariant, AppendedInvariant, PTL DEF Spec
<1> QED
  BY <1>2 DEF StepsSubstitute
=============================================================================
