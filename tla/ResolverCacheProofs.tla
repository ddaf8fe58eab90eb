------------------------- MODULE ResolverCacheProofs -------------------------
(***************************************************************************)
(* Proofs about ResolverCache for any number of callers and keys, any      *)
(* size, TTL and end-of-life times.                                        *)
(***************************************************************************)
EXTENDS ResolverCache, TLAPS

-----------------------------------------------------------------------------
(***************************************************************************)
(* Type correctness.                                                       *)
(***************************************************************************)

\* cacheTill is a time.
LEMMA CacheTillType ==
    ASSUME now \in Nat, NEW eol \in Nat \cup {Nil}
    PROVE  /\ CacheTill(eol) \in Nat
           /\ CacheTill(eol) <= now + TTL
           /\ eol # Nil => CacheTill(eol) <= eol
  BY TTLAssumption, NilAssumption DEF CacheTill

\* The LRU operations keep ranks natural numbers and entries well formed.
LEMMA LruType ==
    ASSUME TypeOK, NEW k \in Keys, NEW e \in Entries,
           LruAdd(k, e) \/ LruGet(k) \/ LruRemove(k)
    PROVE  /\ rank' \in [Keys -> Nat]
           /\ entry' \in [Keys -> Entries]
<1>1. Blank \in Entries
  BY DEF Blank, Entries
<1>2. CASE LruAdd(k, e)
  BY <1>1, <1>2 DEF TypeOK, LruAdd, ToFront, PushFront
<1>3. CASE LruGet(k)
  BY <1>3 DEF TypeOK, LruGet, ToFront
<1>4. CASE LruRemove(k)
  BY <1>1, <1>4 DEF TypeOK, LruRemove
<1> QED
  BY <1>2, <1>3, <1>4

\* A caller, a publisher or the clock keeps the state well typed.  CacheInv is
\* needed because cacheSet indexes the history with the version it holds.
LEMMA TypeStep == TypeOK /\ CacheInv /\ [Next]_vars => TypeOK'
<1> SUFFICES ASSUME TypeOK, CacheInv, [Next]_vars PROVE TypeOK'
  OBVIOUS
<1>0. size' = size
  BY DEF Next, vars
<1> USE <1>0 DEF TypeOK
<1>1. ASSUME NEW c \in Callers, GetValue(c) PROVE TypeOK'
  <2>0. /\ call[c] \in Calls
        /\ call[c].key \in Keys
        /\ call[c].held \in Entries
        /\ Blank \in Entries
    BY DEF Calls, Blank, Entries
  <2>a. \A k \in Keys : Current(k) \in Nat
    BY DEF Current
  <2>1. ASSUME NEW k \in Keys, Begin(c, k) PROVE TypeOK'
    BY <2>0, <2>a, <2>1 DEF Begin, Calls, Pcs
  <2>2. CASE CacheMiss(c)
    BY <2>0, <2>2 DEF CacheMiss, Calls, Pcs
  <2>3. CASE CacheFind(c)
    <3>1. rank' \in [Keys -> Nat] /\ entry' \in [Keys -> Entries]
      BY <2>0, <2>3, LruType DEF CacheFind
    <3> QED
      BY <2>0, <2>3, <3>1 DEF CacheFind, Calls, Pcs
  <2>4. CASE CacheCheck(c)
    BY <2>0, <2>4 DEF CacheCheck, Calls, Pcs
  <2>5. CASE CacheRemove(c)
    <3>1. rank' \in [Keys -> Nat] /\ entry' \in [Keys -> Entries]
      BY <2>0, <2>5, LruType DEF CacheRemove
    <3> QED
      BY <2>0, <2>5, <3>1 DEF CacheRemove, Calls, Pcs
  <2>6. CASE Fetch(c)
    <3>1. [Blank EXCEPT !.ver = Current(call[c].key), !.fetched = now] \in Entries
      BY <2>0, <2>a DEF Blank, Entries
    <3> QED
      BY <2>0, <2>6, <3>1 DEF Fetch, Calls, Pcs
  <2>7. CASE FetchFails(c)
    BY <2>0, <2>7 DEF FetchFails, Calls, Pcs
  <2>8. CASE SkipSet(c)
    BY <2>0, <2>8 DEF SkipSet, Calls, Pcs
  <2>9. CASE Stamp(c)
    <3>1. FetchedInv(call[c].key, call[c].held)
      BY <2>9 DEF Stamp, CacheInv, CallInv
    <3>2. published[call[c].key][call[c].held.ver].eol \in Nat \cup {Nil}
      <4>1. published[call[c].key][call[c].held.ver] \in Publications
        BY <2>0, <3>1 DEF FetchedInv, Current
      <4> QED
        BY <4>1 DEF Publications
    <3>3. CacheTill(published[call[c].key][call[c].held.ver].eol) \in Nat
      BY <3>2, CacheTillType
    <3> QED
      BY <2>0, <2>9, <3>3 DEF Stamp, Calls, Pcs, Entries
  <2>10. CASE CacheAdd(c)
    <3>1. rank' \in [Keys -> Nat] /\ entry' \in [Keys -> Entries]
      BY <2>0, <2>10, LruType DEF CacheAdd
    <3> QED
      BY <2>0, <2>10, <3>1 DEF CacheAdd, Calls, Pcs
  <2> QED
    BY <1>1, <2>1, <2>2, <2>3, <2>4, <2>5, <2>6, <2>7, <2>8, <2>9, <2>10 DEF GetValue
<1>2. ASSUME NEW k \in Keys, NEW e \in Eols, Republish(k, e) PROVE TypeOK'
  <2>1. [eol |-> e, at |-> now] \in Publications
    BY EolsAssumption DEF Publications
  <2>2. Append(published[k], [eol |-> e, at |-> now]) \in Seq(Publications)
    BY <2>1
  <2> QED
    BY <1>2, <2>2 DEF Republish
<1>3. CASE Tick
  BY <1>3 DEF Tick
<1>4. CASE UNCHANGED vars
  BY <1>4 DEF vars
<1> QED
  BY <1>1, <1>2, <1>3, <1>4 DEF Next

-----------------------------------------------------------------------------
(***************************************************************************)
(* The inductive invariant.                                                *)
(***************************************************************************)

\* Publishing appends to a key's history and leaves the rest as it was.
LEMMA HistoryGrows ==
    ASSUME TypeOK, NEW j \in Keys, NEW x \in Eols, Republish(j, x),
           NEW k \in Keys
    PROVE  /\ Current(k) \in Nat
           /\ Current(k)' = Current(k) \/ Current(k)' = Current(k) + 1
           /\ \A v \in 1..Current(k) : published'[k][v] = published[k][v]
           /\ Current(k)' = Current(k) + 1 => published'[k][Current(k) + 1].at = now
  BY EolsAssumption DEF TypeOK, Republish, Current

\* What is known of a fetched or stamped value survives time and publishing.
LEMMA EntryStable ==
    ASSUME TypeOK, NEW k \in Keys, NEW e \in Entries,
           \/ Tick
           \/ \E j \in Keys, x \in Eols : Republish(j, x)
           \/ UNCHANGED <<now, published>>
    PROVE  /\ FetchedInv(k, e) => FetchedInv(k, e)'
           /\ StampedInv(k, e) => StampedInv(k, e)'
<1> USE DEF FetchedInv, StampedInv
<1>1. CASE Tick
  BY <1>1 DEF Tick, TypeOK, Entries, Current
<1>2. ASSUME NEW j \in Keys, NEW x \in Eols, Republish(j, x)
      PROVE  /\ FetchedInv(k, e) => FetchedInv(k, e)'
             /\ StampedInv(k, e) => StampedInv(k, e)'
  <2>1. now' = now
    BY <1>2 DEF Republish
  <2>2. e.ver \in Nat /\ e.fetched \in Nat /\ now \in Nat
    BY DEF TypeOK, Entries
  <2>3. FetchedInv(k, e) => FetchedInv(k, e)'
    BY <1>2, <2>1, <2>2, HistoryGrows
  <2>4. e.ver \in 1..Current(k) => published'[k][e.ver] = published[k][e.ver]
    BY <1>2, HistoryGrows
  <2> QED
    BY <2>1, <2>3, <2>4
<1>3. CASE UNCHANGED <<now, published>>
  BY <1>3 DEF Current
<1> QED
  BY <1>1, <1>2, <1>3

\* A history of one record.
LEMMA OneRecord ==
    ASSUME NEW S, NEW x \in S
    PROVE  <<x>> \in Seq(S) /\ Len(<<x>>) = 1 /\ <<x>>[1] = x
  OBVIOUS

\* The invariant holds initially.
LEMMA InvInit == Init => TypeOK /\ CacheInv
<1> SUFFICES ASSUME Init PROVE TypeOK /\ CacheInv
  OBVIOUS
<1>1. \A k \in Keys : \E e \in Eols : published[k] = <<[eol |-> e, at |-> 0]>>
  BY DEF Init
<1>2. published \in [Keys -> Seq(Publications)]
  <2>1. \A e \in Eols : [eol |-> e, at |-> 0] \in Publications
    BY EolsAssumption DEF Publications
  <2>2. \A k \in Keys : published[k] \in Seq(Publications)
    BY <1>1, <2>1, OneRecord
  <2>3. published = [k \in Keys |-> published[k]]
    BY DEF Init
  <2> QED
    BY <2>2, <2>3
<1>3. PICK k \in Keys :
        call = [c \in Callers |->
                  [pc |-> "idle", key |-> k, held |-> Blank, since |-> 0, at |-> 0]]
  BY DEF Init
<1>4. TypeOK
  <2>1. Blank \in Entries
    BY DEF Blank, Entries
  <2>2. call \in [Callers -> Calls]
    BY <1>3, <2>1 DEF Calls, Pcs
  <2> QED
    BY <1>2, <2>1, <2>2, SizesAssumption DEF Init, TypeOK
<1>5. HistoryInv
  <2>1. ASSUME NEW j \in Keys
        PROVE  Len(published[j]) = 1 /\ published[j][1].at = 0
    <3>1. PICK e \in Eols : published[j] = <<[eol |-> e, at |-> 0]>>
      BY <1>1
    <3>2. [eol |-> e, at |-> 0] \in Publications
      BY EolsAssumption DEF Publications
    <3> QED
      BY <3>1, <3>2, OneRecord
  <2> QED
    BY <2>1 DEF Init, HistoryInv, Current
<1>6. \A c \in Callers : call[c].pc = "idle"
  BY <1>3
<1> QED
  BY <1>4, <1>5, <1>6 DEF Init, CacheInv, CallInv

\* Looking up, adding and removing entries keeps every cached entry one that
\* some call stamped.
LEMMA CachedStable ==
    ASSUME TypeOK, NEW k \in Keys, NEW e \in Entries,
           UNCHANGED <<now, published>>,
           \A j \in Keys : rank[j] > 0 => StampedInv(j, entry[j]),
           \/ LruAdd(k, e) /\ StampedInv(k, e)
           \/ LruGet(k)
           \/ LruRemove(k)
    PROVE  \A j \in Keys : rank'[j] > 0 => StampedInv(j, entry'[j])
<1> SUFFICES ASSUME NEW j \in Keys, rank'[j] > 0
             PROVE  StampedInv(j, entry'[j])
  OBVIOUS
<1>1. CASE LruAdd(k, e) /\ StampedInv(k, e)
  BY <1>1 DEF LruAdd, ToFront, PushFront, TypeOK
<1>2. CASE LruGet(k)
  BY <1>2 DEF LruGet, ToFront, TypeOK
<1>3. CASE LruRemove(k)
  BY <1>3 DEF LruRemove, TypeOK
<1> QED
  BY <1>1, <1>2, <1>3

\* Every step preserves the invariant.
LEMMA InvStep == TypeOK /\ CacheInv /\ [Next]_vars => CacheInv'
<1> SUFFICES ASSUME TypeOK, CacheInv, [Next]_vars PROVE CacheInv'
  OBVIOUS
<1>a. TypeOK'
  BY TypeStep
<1>1. ASSUME NEW c \in Callers, GetValue(c) PROVE CacheInv'
  <2> DEFINE k == call[c].key
             e == call[c].held
  <2>0. k \in Keys /\ e \in Entries /\ CallInv(c)
    BY DEF TypeOK, Calls, CacheInv
  <2>1. UNCHANGED <<now, published>>
    BY <1>1 DEF GetValue, Begin, CacheMiss, CacheFind, CacheCheck, CacheRemove,
                Fetch, FetchFails, SkipSet, Stamp, CacheAdd
  <2>2. HistoryInv'
    BY <2>1 DEF CacheInv, HistoryInv, Current
  <2>3. \A j \in Keys, x \in Entries :
          /\ FetchedInv(j, x) => FetchedInv(j, x)'
          /\ StampedInv(j, x) => StampedInv(j, x)'
    BY <2>1, EntryStable
  <2>4. (\A j \in Keys : rank[j] > 0 => StampedInv(j, entry[j]))'
    <3>1. \A j \in Keys : rank'[j] > 0 => StampedInv(j, entry'[j])
      <4>1. CASE UNCHANGED <<rank, entry>>
        BY <4>1 DEF CacheInv
      <4>2. CASE CacheAdd(c)
        BY <2>0, <2>1, <4>2, CachedStable DEF CacheAdd, CacheInv, CallInv
      <4>3. CASE CacheFind(c)
        BY <2>0, <2>1, <4>3, CachedStable DEF CacheFind, CacheInv
      <4>4. CASE CacheRemove(c)
        BY <2>0, <2>1, <4>4, CachedStable DEF CacheRemove, CacheInv
      <4> QED
        BY <1>1, <4>1, <4>2, <4>3, <4>4
           DEF GetValue, Begin, CacheMiss, CacheCheck, Fetch, FetchFails, SkipSet, Stamp
    <3> QED
      BY <2>1, <3>1 DEF StampedInv, FetchedInv, Current
  <2>5. ASSUME NEW d \in Callers, d # c PROVE CallInv(d)'
    <3>1. call'[d] = call[d]
      BY <1>1, <2>5 DEF TypeOK, GetValue, Begin, CacheMiss, CacheFind, CacheCheck,
            CacheRemove, Fetch, FetchFails, SkipSet, Stamp, CacheAdd
    <3> QED
      BY <2>1, <3>1 DEF CacheInv, CallInv, StampedInv, FetchedInv, Current
  <2>6. CallInv(c)'
    <3> USE DEF TypeOK, CallInv, Calls
    <3>1. ASSUME NEW j \in Keys, Begin(c, j) PROVE CallInv(c)'
      BY <3>1 DEF Begin
    <3>2. CASE CacheMiss(c)
      BY <3>2 DEF CacheMiss
    <3>3. CASE CacheFind(c)
      <4>1. StampedInv(k, entry[k])
        BY <2>0, <3>3 DEF CacheFind, CacheInv
      <4> QED
        BY <2>1, <3>3, <4>1 DEF CacheFind, StampedInv, FetchedInv, Current
    <3>4. CASE CacheCheck(c)
      BY <2>0, <2>1, <3>4 DEF CacheCheck, StampedInv, FetchedInv, Current
    <3>5. CASE CacheRemove(c)
      BY <3>5 DEF CacheRemove
    <3>6. CASE Fetch(c)
      <4>1. call'[c].pc = "stamp" /\ call'[c].key = k
        BY <3>6 DEF Fetch
      <4>2. call'[c].held.ver = Current(k) /\ call'[c].held.fetched = now
        BY <3>6 DEF Fetch, Blank
      <4>3. Current(k) \in Nat /\ Current(k) > 0
        BY <2>0 DEF CacheInv, HistoryInv, Current
      <4> QED
        BY <2>1, <4>1, <4>2, <4>3 DEF FetchedInv, Current
    <3>7. CASE FetchFails(c)
      BY <3>7 DEF FetchFails
    <3>8. CASE SkipSet(c)
      BY <3>8 DEF SkipSet
    <3>9. CASE Stamp(c)
      <4>1. FetchedInv(k, e)
        BY <2>0, <3>9 DEF Stamp
      <4>2. published[k][e.ver].eol \in Nat \cup {Nil}
        <5>1. published[k][e.ver] \in Publications
          BY <2>0, <4>1 DEF FetchedInv, Current
        <5> QED
          BY <5>1 DEF Publications
      <4>3. /\ call'[c].pc = "add"
            /\ call'[c].key = k
            /\ call'[c].held.ver = e.ver
            /\ call'[c].held.fetched = e.fetched
            /\ call'[c].held.stamped = now
            /\ call'[c].held.till = CacheTill(published[k][e.ver].eol)
        BY <2>0, <3>9 DEF Stamp, Entries
      <4>4. /\ CacheTill(published[k][e.ver].eol) <= now + TTL
            /\ published[k][e.ver].eol # Nil =>
                 CacheTill(published[k][e.ver].eol) <= published[k][e.ver].eol
        BY <4>2, CacheTillType
      <4>5. StampedInv(k, call'[c].held)
        <5> HIDE DEF k, e
        <5> QED
          BY <4>1, <4>3, <4>4 DEF StampedInv, FetchedInv
      <4> QED
        BY <2>1, <4>3, <4>5 DEF StampedInv, FetchedInv, Current
    <3>10. CASE CacheAdd(c)
      BY <3>10 DEF CacheAdd
    <3> QED
      BY <1>1, <3>1, <3>2, <3>3, <3>4, <3>5, <3>6, <3>7, <3>8, <3>9, <3>10 DEF GetValue
  <2> QED
    BY <2>2, <2>4, <2>5, <2>6 DEF CacheInv
<1>2. ASSUME Tick \/ (\E j \in Keys, x \in Eols : Republish(j, x)) PROVE CacheInv'
  <2>1. UNCHANGED <<rank, entry, call>>
    BY <1>2 DEF Tick, Republish
  <2>2. \A j \in Keys, x \in Entries :
          /\ FetchedInv(j, x) => FetchedInv(j, x)'
          /\ StampedInv(j, x) => StampedInv(j, x)'
    BY <1>2, EntryStable
  <2>3. HistoryInv'
    <3>1. CASE Tick
      <4>1. \A j \in Keys : \A v \in 1..Current(j) : published[j][v] \in Publications
        BY DEF TypeOK, Current
      <4>2. \A j \in Keys : \A v \in 1..Current(j) : published[j][v].at \in Nat
        BY <4>1 DEF Publications
      <4>3. now \in Nat /\ now' = now + 1 /\ published' = published
        BY <3>1 DEF Tick, TypeOK
      <4>4. HistoryInv
        BY DEF CacheInv
      <4> QED
        BY <4>2, <4>3, <4>4 DEF HistoryInv, Current
    <3>2. ASSUME NEW j \in Keys, NEW x \in Eols, Republish(j, x) PROVE HistoryInv'
      <4>1. now' = now /\ now \in Nat
        BY <3>2 DEF Republish, TypeOK
      <4>2. ASSUME NEW k \in Keys
            PROVE  /\ Current(k)' > 0
                   /\ \A v \in 1..Current(k)' : published'[k][v].at <= now
        <5>1. Current(k) > 0 /\ \A v \in 1..Current(k) : published[k][v].at <= now
          BY DEF CacheInv, HistoryInv
        <5> QED
          BY <3>2, <4>1, <5>1, HistoryGrows
      <4> QED
        BY <4>1, <4>2 DEF HistoryInv
    <3> QED
      BY <1>2, <3>1, <3>2
  <2>4. (\A j \in Keys : rank[j] > 0 => StampedInv(j, entry[j]))'
    BY <2>1, <2>2 DEF TypeOK, CacheInv
  <2>5. ASSUME NEW d \in Callers PROVE CallInv(d)'
    <3>1. call[d].key \in Keys /\ call[d].held \in Entries /\ CallInv(d)
      BY DEF TypeOK, Calls, CacheInv
    <3> QED
      BY <2>1, <2>2, <3>1 DEF CallInv
  <2> QED
    BY <2>3, <2>4, <2>5 DEF CacheInv
<1>3. CASE UNCHANGED vars
  BY <1>3 DEF vars, CacheInv, HistoryInv, CallInv, StampedInv, FetchedInv, Current
<1> QED
  BY <1>1, <1>2, <1>3 DEF Next

-----------------------------------------------------------------------------
(***************************************************************************)
(* The theorems.                                                           *)
(***************************************************************************)

\* The invariant holds throughout: every entry in the cache, or on its way
\* into or out of it, was current when fetched and carries a till bounded by
\* the TTL and by its record's end of life.
THEOREM CacheInvariant == Spec => [](TypeOK /\ CacheInv)
<1>1. TypeOK /\ CacheInv /\ [Next]_vars => (TypeOK /\ CacheInv)'
  BY TypeStep, InvStep
<1> QED
  BY <1>1, InvInit, PTL DEF Spec

\* No step of GetValue, of a publisher or of the clock leaves the state space.
THEOREM TypeCorrect == Spec => []TypeOK
  BY CacheInvariant, PTL

\* cacheGet never returns a value whose record's end of life has come.
THEOREM HitsAreUnexpired == Spec => []HitBeforeEol
<1>1. TypeOK /\ CacheInv => HitBeforeEol
  <2> SUFFICES ASSUME TypeOK, CacheInv, NEW c \in Callers, call[c].pc = "hit"
               PROVE  ~Expired(call[c].key, call[c].held.ver, call[c].at)
    BY DEF HitBeforeEol
  <2>1. /\ StampedInv(call[c].key, call[c].held)
        /\ call[c].at < call[c].held.till
        /\ call[c].held.till \in Nat /\ call[c].at \in Nat
        /\ call[c].key \in Keys
    BY DEF TypeOK, Calls, Entries, CacheInv, CallInv
  <2>2. published[call[c].key][call[c].held.ver].eol \in Nat \cup {Nil}
    <3>1. published[call[c].key][call[c].held.ver] \in Publications
      BY <2>1 DEF TypeOK, StampedInv, FetchedInv, Current
    <3> QED
      BY <3>1 DEF Publications
  <2> QED
    BY <2>1, <2>2, NilAssumption DEF StampedInv, Expired
<1> QED
  BY <1>1, CacheInvariant, PTL

\* A superseded value leaves the cache's answers within the TTL plus the
\* latency of the fetch that cached it.
THEOREM HitsAreRecent == Spec => []StalenessBound
<1>1. TypeOK /\ CacheInv => StalenessBound
  <2> SUFFICES ASSUME TypeOK, CacheInv, NEW c \in Callers, call[c].pc = "hit",
                      call[c].held.ver < Current(call[c].key)
               PROVE  call[c].at < published[call[c].key][call[c].held.ver + 1].at + TTL
                                    + (call[c].held.stamped - call[c].held.fetched)
    BY DEF StalenessBound
  <2>1. /\ StampedInv(call[c].key, call[c].held)
        /\ call[c].at < call[c].held.till
        /\ call[c].held \in Entries /\ call[c].at \in Nat
        /\ call[c].key \in Keys
    BY DEF TypeOK, Calls, CacheInv, CallInv
  <2>2. published[call[c].key][call[c].held.ver + 1].at \in Nat
    <3>1. published[call[c].key][call[c].held.ver + 1] \in Publications
      BY <2>1 DEF TypeOK, StampedInv, FetchedInv, Current
    <3> QED
      BY <3>1 DEF Publications
  <2> QED
    BY <2>1, <2>2, TTLAssumption DEF StampedInv, FetchedInv, Entries
<1> QED
  BY <1>1, CacheInvariant, PTL

(***************************************************************************)
(* The size limit.  A call reaches "check" or "add" only with a cache.     *)
(***************************************************************************)
SizeInv ==
    /\ WithinSize
    /\ \A c \in Callers : call[c].pc \in {"check", "remove", "add"} => CacheEnabled

\* What WithinSize says of the ranks, apart: they are distinct, and every rank
\* but the first has the one before it.
Distinct == \A j, k \in Keys : j # k /\ rank[j] > 0 => rank[j] # rank[k]

NoGap == \A k \in Keys : rank[k] > 1 => \E j \in Keys : rank[j] = rank[k] - 1

\* A new key goes first and the others, each one place further, keep their order;
\* the last one leaves when the cache was full.
LEMMA PushFrontRanks ==
    ASSUME rank \in [Keys -> Nat], size \in Nat, size > 0, WithinSize,
           NEW k \in Keys, rank[k] = 0, rank' = PushFront(k)
    PROVE  Distinct' /\ NoGap' /\ \A j \in Keys : rank'[j] <= size
<1>1. \A j \in Keys : rank'[j] = IF j = k THEN 1
                                 ELSE IF rank[j] = 0 \/ rank[j] >= size THEN 0
                                 ELSE rank[j] + 1
  BY DEF PushFront
<1>2. Distinct' /\ \A j \in Keys : rank'[j] <= size
  BY <1>1 DEF WithinSize, Distinct
<1>3. NoGap'
  <2> SUFFICES ASSUME NEW j \in Keys, rank'[j] > 1
               PROVE  \E i \in Keys : rank'[i] = rank'[j] - 1
    BY DEF NoGap
  <2>1. j # k /\ rank[j] > 0 /\ rank[j] < size /\ rank'[j] = rank[j] + 1
    BY <1>1
  <2>2. CASE rank[j] = 1
    BY <1>1, <2>1, <2>2
  <2>3. CASE rank[j] # 1
    <3>1. PICK i \in Keys : rank[i] = rank[j] - 1
      BY <2>1, <2>3 DEF WithinSize
    <3>2. i # k /\ rank[i] > 0 /\ rank[i] < size
      BY <2>1, <2>3, <3>1
    <3>3. rank'[i] = rank[i] + 1
      BY <1>1, <3>2
    <3> QED
      BY <2>1, <3>1, <3>3
  <2> QED
    BY <2>2, <2>3
<1> QED
  BY <1>2, <1>3

\* A key that is present goes first, and the ones before it each one place on.
LEMMA ToFrontRanks ==
    ASSUME rank \in [Keys -> Nat], size \in Nat, size > 0, WithinSize,
           NEW k \in Keys, rank[k] > 0, rank' = ToFront(k)
    PROVE  Distinct' /\ NoGap' /\ \A j \in Keys : rank'[j] <= size
<1>1. \A j \in Keys : rank'[j] = IF j = k THEN 1
                                 ELSE IF 0 < rank[j] /\ rank[j] < rank[k] THEN rank[j] + 1
                                 ELSE rank[j]
  BY DEF ToFront
<1>2. Distinct' /\ \A j \in Keys : rank'[j] <= size
  BY <1>1 DEF WithinSize, Distinct
<1>3. NoGap'
  <2> SUFFICES ASSUME NEW j \in Keys, rank'[j] > 1
               PROVE  \E i \in Keys : rank'[i] = rank'[j] - 1
    BY DEF NoGap
  <2>0. j # k /\ rank[j] > 0 /\ rank[j] # rank[k]
    BY <1>1 DEF WithinSize
  <2>1. CASE rank[j] < rank[k]
    <3>1. rank'[j] = rank[j] + 1
      BY <1>1, <2>0, <2>1
    <3>2. CASE rank[j] = 1
      BY <1>1, <3>1, <3>2
    <3>3. CASE rank[j] # 1
      <4>1. PICK i \in Keys : rank[i] = rank[j] - 1
        BY <2>0, <3>3 DEF WithinSize
      <4>2. i # k /\ rank[i] > 0 /\ rank[i] < rank[k]
        BY <2>0, <2>1, <3>3, <4>1
      <4>3. rank'[i] = rank[i] + 1
        BY <1>1, <4>2
      <4> QED
        BY <3>1, <4>1, <4>3
    <3> QED
      BY <3>2, <3>3
  <2>2. CASE rank[j] > rank[k]
    <3>1. rank'[j] = rank[j]
      BY <1>1, <2>0, <2>2
    <3>2. PICK i \in Keys : rank[i] = rank[j] - 1
      BY <2>0, <2>2 DEF WithinSize
    <3>3. CASE i # k
      <4>1. rank[i] # rank[k]
        BY <2>0, <2>2, <3>2, <3>3 DEF WithinSize
      <4>2. rank'[i] = rank[i]
        BY <1>1, <2>2, <3>2, <3>3, <4>1
      <4> QED
        BY <3>1, <3>2, <4>2
    <3>4. CASE i = k
      <4>1. CASE rank[k] = 1
        BY <1>1, <3>1, <3>2, <3>4, <4>1
      <4>2. CASE rank[k] # 1
        \* The key that was just before k takes k's place.
        <5>1. PICK h \in Keys : rank[h] = rank[k] - 1
          BY <4>2 DEF WithinSize
        <5>2. h # k /\ rank'[h] = rank[h] + 1
          BY <1>1, <4>2, <5>1
        <5> QED
          BY <3>1, <3>2, <3>4, <5>1, <5>2
      <4> QED
        BY <4>1, <4>2
    <3> QED
      BY <3>3, <3>4
  <2> QED
    BY <2>0, <2>1, <2>2
<1> QED
  BY <1>2, <1>3

\* The keys behind a removed one each move one place up.
LEMMA RemoveRanks ==
    ASSUME rank \in [Keys -> Nat], size \in Nat, WithinSize,
           NEW k \in Keys, LruRemove(k)
    PROVE  Distinct' /\ NoGap' /\ \A j \in Keys : rank'[j] <= size
<1>1. \A j \in Keys : rank'[j] = IF j = k THEN 0
                                 ELSE IF rank[k] > 0 /\ rank[j] > rank[k] THEN rank[j] - 1
                                 ELSE rank[j]
  BY DEF LruRemove
<1>2. Distinct' /\ \A j \in Keys : rank'[j] <= size
  BY <1>1 DEF WithinSize, Distinct
<1>3. NoGap'
  <2> SUFFICES ASSUME NEW j \in Keys, rank'[j] > 1
               PROVE  \E i \in Keys : rank'[i] = rank'[j] - 1
    BY DEF NoGap
  <2>0. j # k /\ rank[j] > 1 /\ rank[j] # rank[k]
    BY <1>1 DEF WithinSize
  <2>1. PICK i \in Keys : rank[i] = rank[j] - 1
    BY <2>0 DEF WithinSize
  <2>2. CASE rank[k] = 0 \/ rank[j] < rank[k]
    <3>1. rank'[j] = rank[j] /\ i # k /\ rank'[i] = rank[i]
      BY <1>1, <2>0, <2>1, <2>2
    <3> QED
      BY <2>1, <3>1
  <2>3. CASE rank[k] > 0 /\ rank[j] > rank[k]
    <3>1. rank'[j] = rank[j] - 1
      BY <1>1, <2>0, <2>3
    <3>2. CASE i # k
      <4>1. rank[i] > rank[k]
        BY <2>1, <2>3, <3>2 DEF WithinSize
      <4>2. rank'[i] = rank[i] - 1
        BY <1>1, <2>3, <3>2, <4>1
      <4> QED
        BY <2>1, <3>1, <4>2
    <3>3. CASE i = k
      <4>1. rank[k] > 1
        BY <1>1, <2>1, <3>1, <3>3
      <4>2. PICK h \in Keys : rank[h] = rank[k] - 1
        BY <4>1 DEF WithinSize
      <4>3. rank'[h] = rank[h]
        BY <1>1, <4>1, <4>2
      <4> QED
        BY <2>1, <3>1, <3>3, <4>2, <4>3
    <3> QED
      BY <3>2, <3>3
  <2> QED
    BY <2>0, <2>2, <2>3
<1> QED
  BY <1>2, <1>3

\* The LRU operations keep ranks distinct, without gaps and at most size.
LEMMA RanksStable ==
    ASSUME TypeOK, WithinSize, CacheEnabled, UNCHANGED size,
           NEW k \in Keys, NEW e \in Entries,
           LruAdd(k, e) \/ LruGet(k) \/ LruRemove(k)
    PROVE  WithinSize'
<1>0. rank \in [Keys -> Nat] /\ size \in Nat /\ size > 0 /\ size' = size
  BY DEF TypeOK, CacheEnabled
<1>1. CASE LruAdd(k, e) /\ rank[k] = 0
  BY <1>0, <1>1, PushFrontRanks DEF LruAdd, WithinSize, Distinct, NoGap
<1>2. CASE (LruAdd(k, e) \/ LruGet(k)) /\ rank[k] > 0
  BY <1>0, <1>2, ToFrontRanks DEF LruAdd, LruGet, WithinSize, Distinct, NoGap
<1>3. CASE LruGet(k) /\ rank[k] = 0
  BY <1>0, <1>3 DEF LruGet, WithinSize
<1>4. CASE LruRemove(k)
  BY <1>0, <1>4, RemoveRanks DEF WithinSize, Distinct, NoGap
<1> QED
  BY <1>0, <1>1, <1>2, <1>3, <1>4

\* The cache never holds more than size entries, in an order without gaps or ties.
THEOREM SizeIsALimit == Spec => []WithinSize
<1>1. Init => SizeInv
  <2> SUFFICES ASSUME Init PROVE SizeInv
    OBVIOUS
  <2>1. PICK k \in Keys :
          call = [c \in Callers |->
                    [pc |-> "idle", key |-> k, held |-> Blank, since |-> 0, at |-> 0]]
    BY DEF Init
  <2>2. \A c \in Callers : call[c].pc = "idle"
    BY <2>1
  <2> QED
    BY <2>2, SizesAssumption DEF Init, SizeInv, WithinSize
<1>2. TypeOK /\ SizeInv /\ [Next]_vars => SizeInv'
  <2> SUFFICES ASSUME TypeOK, SizeInv, [Next]_vars PROVE SizeInv'
    OBVIOUS
  <2>0. size' = size
    BY DEF Next, vars
  <2> USE <2>0 DEF SizeInv
  <2>1. ASSUME NEW c \in Callers, GetValue(c) PROVE SizeInv'
    <3>1. call[c].key \in Keys /\ call[c].held \in Entries
      BY DEF TypeOK, Calls
    <3>2. WithinSize'
      <4>1. CASE UNCHANGED rank
        BY <4>1 DEF WithinSize
      <4>2. CASE CacheFind(c) \/ CacheRemove(c) \/ CacheAdd(c)
        BY <3>1, <4>2, RanksStable DEF CacheFind, CacheRemove, CacheAdd
      <4> QED
        BY <2>1, <4>1, <4>2 DEF GetValue, Begin, CacheMiss, CacheCheck, Fetch,
                                FetchFails, SkipSet, Stamp
    <3>3. \A d \in Callers : call'[d].pc \in {"check", "remove", "add"} => CacheEnabled
      <4> USE DEF TypeOK
      <4>1. ASSUME NEW k \in Keys, Begin(c, k)
            PROVE  \A d \in Callers :
                       call'[d].pc \in {"check", "remove", "add"} => CacheEnabled
        BY <4>1 DEF Begin
      <4>2. CASE CacheMiss(c)
        BY <4>2 DEF CacheMiss
      <4>3. CASE CacheRemove(c)
        BY <4>3 DEF CacheRemove
      <4>4. CASE Fetch(c)
        BY <4>4 DEF Fetch
      <4>5. CASE FetchFails(c)
        BY <4>5 DEF FetchFails
      <4>6. CASE CacheFind(c)
        BY <4>6 DEF CacheFind
      <4>7. CASE CacheCheck(c)
        BY <4>7 DEF CacheCheck
      <4>8. CASE SkipSet(c)
        BY <4>8 DEF SkipSet
      <4>9. CASE CacheAdd(c)
        BY <4>9 DEF CacheAdd
      <4>10. CASE Stamp(c)
        BY <4>10 DEF Stamp
      <4> QED
        BY <2>1, <4>1, <4>2, <4>3, <4>4, <4>5, <4>6, <4>7, <4>8, <4>9, <4>10 DEF GetValue
    <3> QED
      BY <3>2, <3>3 DEF CacheEnabled
  <2>2. CASE UNCHANGED <<rank, call>>
    BY <2>2 DEF WithinSize, CacheEnabled
  <2> QED
    BY <2>1, <2>2 DEF Next, Republish, Tick, vars
<1>3. SizeInv => WithinSize
  BY DEF SizeInv
<1> QED
  BY <1>1, <1>2, <1>3, TypeCorrect, PTL DEF Spec
-----------------------------------------------------------------------------
(***************************************************************************)
(* No cache.  A call then only looks the key up, fetches and returns: what *)
(* it holds was current at its beginning or became so later.               *)
(***************************************************************************)
UncachedCall(c) ==
    /\ call[c].pc \notin {"check", "remove", "add", "hit"}
    /\ call[c].pc \in {"lookup", "fetch"} => call[c].since <= Current(call[c].key)
    /\ call[c].pc \in {"stamp", "fetched"} => call[c].since <= call[c].held.ver

UncachedInv == size = 0 => \A c \in Callers : UncachedCall(c)

LEMMA OthersStayUncached ==
    ASSUME TypeOK, UncachedInv, size = 0, UNCHANGED <<size, published>>,
           NEW c \in Callers, \A d \in Callers : d # c => call'[d] = call[d],
           UncachedCall(c)'
    PROVE  UncachedInv'
BY DEF UncachedInv, UncachedCall, Current

LEMMA UncachedCallStep ==
    ASSUME TypeOK, UncachedInv, size = 0, size' = size, NEW c \in Callers, GetValue(c)
    PROVE  UncachedInv'
<1>1. UncachedCall(c) /\ ~CacheEnabled /\ call[c] \in Calls /\ call \in [Callers -> Calls]
  BY DEF UncachedInv, CacheEnabled, TypeOK
<1>2. \A k \in Keys : Current(k) \in Nat
  BY DEF TypeOK, Current
<1>3. UNCHANGED published /\ \A d \in Callers : d # c => call'[d] = call[d]
  BY <1>1 DEF GetValue, Begin, CacheMiss, CacheFind, CacheCheck, CacheRemove, Fetch,
              FetchFails, SkipSet, Stamp, CacheAdd
<1>4. UncachedCall(c)'
  <2>1. ASSUME NEW k \in Keys, Begin(c, k) PROVE UncachedCall(c)'
    BY <1>1, <1>2, <2>1 DEF Begin, UncachedCall, Current
  <2>2. CASE CacheMiss(c)
    BY <1>1, <2>2 DEF CacheMiss, UncachedCall, Current, Calls
  <2>3. CASE Fetch(c)
    BY <1>1, <2>3 DEF Fetch, UncachedCall, Current, Blank, Calls
  <2>4. CASE FetchFails(c)
    BY <1>1, <2>4 DEF FetchFails, UncachedCall, Calls
  <2>5. CASE SkipSet(c)
    BY <1>1, <2>5 DEF SkipSet, UncachedCall, Calls
  <2>6. CASE CacheFind(c) \/ CacheCheck(c) \/ CacheRemove(c) \/ Stamp(c) \/ CacheAdd(c)
    BY <1>1, <2>6 DEF CacheFind, CacheCheck, CacheRemove, Stamp, CacheAdd, UncachedCall
  <2> QED
    BY <2>1, <2>2, <2>3, <2>4, <2>5, <2>6 DEF GetValue
<1> QED
  BY <1>3, <1>4, OthersStayUncached

LEMMA UncachedStep == TypeOK /\ UncachedInv /\ [Next]_vars => UncachedInv'
<1> SUFFICES ASSUME TypeOK, UncachedInv, size = 0, [Next]_vars PROVE UncachedInv'
  BY DEF UncachedInv, Next, vars
<1>1. size' = size
  BY DEF Next, vars
<1>2. ASSUME NEW c \in Callers, GetValue(c) PROVE UncachedInv'
  BY <1>1, <1>2, UncachedCallStep
<1>3. ASSUME NEW k \in Keys, NEW e \in Eols, Republish(k, e) PROVE UncachedInv'
  <2>1. call' = call /\ \A j \in Keys : Current(j) \in Nat /\ Current(j) <= Current(j)'
    BY <1>3 DEF Republish, TypeOK, Current
  <2>2. \A c \in Callers : call[c].key \in Keys /\ call[c].since \in Nat
    BY DEF TypeOK, Calls
  <2>3. \A j \in Keys : Current(j)' \in Nat
    BY <1>3 DEF Republish, TypeOK, Current
  <2>4. \A c \in Callers : UncachedCall(c)'
    <3> SUFFICES ASSUME NEW c \in Callers PROVE UncachedCall(c)'
      OBVIOUS
    <3>1. UncachedCall(c)
      BY DEF UncachedInv
    <3> QED
      BY <2>1, <2>2, <2>3, <3>1 DEF UncachedCall
  <2> QED
    BY <2>4 DEF UncachedInv
<1>4. CASE UNCHANGED <<call, published>>
  BY <1>1, <1>4 DEF UncachedInv, UncachedCall, Current
<1> QED
  BY <1>2, <1>3, <1>4 DEF Next, Tick, vars

(***************************************************************************)
(* Without a cache every value returned was current during the call        *)
(* (cache.go:34, "Setting it to '0' will disable caching").                *)
(***************************************************************************)
THEOREM UncachedReturnsCurrent == Spec => []UncachedIsCurrent
<1>1. Init => UncachedInv
  <2> SUFFICES ASSUME Init PROVE UncachedInv
    OBVIOUS
  <2>1. PICK k \in Keys :
          call = [c \in Callers |->
                    [pc |-> "idle", key |-> k, held |-> Blank, since |-> 0, at |-> 0]]
    BY DEF Init
  <2>2. \A c \in Callers : call[c].pc = "idle"
    BY <2>1
  <2> QED
    BY <2>2 DEF UncachedInv, UncachedCall
<1>2. UncachedInv /\ TypeOK => UncachedIsCurrent
  BY DEF UncachedInv, UncachedCall, UncachedIsCurrent, TypeOK, Calls, Entries
<1> QED
  BY <1>1, <1>2, UncachedStep, TypeCorrect, PTL DEF Spec
=============================================================================
