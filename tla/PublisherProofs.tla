--------------------------- MODULE PublisherProofs ---------------------------
(***************************************************************************)
(* Proofs about Publisher for any publishers, paths and records, and any   *)
(* dependency nodes, of parameters for which a CID names one record and    *)
(* None is none of them.                                                   *)
(***************************************************************************)
EXTENDS Publisher, TLAPS

\* The record a publisher works on is one of the records, at one of the paths.
LEMMA JobType ==
    ASSUME PubTypeOK, NEW u \in Publishers, pub[u] # Idle
    PROVE  pub[u] \in Jobs /\ pub[u].key \in Paths /\ pub[u].rec \in Recs
  BY DEF PubTypeOK, Jobs

\* One put changes one path.
LEMMA PutChangesOne ==
    ASSUME PubTypeOK, NEW u \in Publishers, pub[u] # Idle,
           vstore' = [vstore EXCEPT ![pub[u].key] = CidOf(pub[u].rec)],
           NEW p \in Paths
    PROVE  vstore'[p] = IF p = pub[u].key THEN CidOf(pub[u].rec) ELSE vstore[p]
  BY DEF PubTypeOK

-----------------------------------------------------------------------------
(***************************************************************************)
(* The inductive invariant, in two parts.                                  *)
(***************************************************************************)

\* Every step keeps the state well typed.
LEMMA PubTypeStep == PubTypeOK /\ [PubNext]_pubVars => PubTypeOK'
<1> SUFFICES ASSUME PubTypeOK, [PubNext]_pubVars PROVE PubTypeOK'
  OBVIOUS
<1> USE DEF PubTypeOK
<1>1. ASSUME NEW u \in Publishers, PublishStep(u) PROVE PubTypeOK'
  <2>0. pub[u] # Idle =>
           /\ pub[u] \in Jobs /\ pub[u].key \in Paths /\ pub[u].rec \in Recs
           /\ Closure(pub[u].rec) \subseteq Cids
    BY JobType DEF Cids
  <2>1. ASSUME NEW p \in Paths, NEW r \in Recs, Publish(u, p, r) PROVE PubTypeOK'
    BY <2>1 DEF Publish, Jobs
  <2>2. CASE publishRecord(u)
    BY <2>0, <2>2 DEF publishRecord, Jobs, Idle
  <2>3. CASE publishRecordFails(u)
    BY <2>0, <2>3 DEF publishRecordFails, Idle
  <2>4. CASE publishRecordRef(u)
    BY <2>0, <2>4 DEF publishRecordRef, Idle
  <2>5. CASE publishRecordRefFails(u)
    BY <2>0, <2>5 DEF publishRecordRefFails, Idle
  <2>6. CASE Crash(u)
    BY <2>6 DEF Crash
  <2> QED
    BY <1>1, <2>1, <2>2, <2>3, <2>4, <2>5, <2>6 DEF PublishStep
<1>2. CASE UNCHANGED pubVars
  BY <1>2 DEF pubVars
<1> QED
  BY <1>1, <1>2 DEF PubNext

\* Every step keeps references whole: the DAG only grows, and a reference is
\* put only by a publisher that has stored what it needs.
LEMMA PubInvStep ==
    ASSUME CidsNameRecords, NoneIsNothing
    PROVE  PubInv /\ [PubNext]_pubVars => PubInv'
<1> SUFFICES ASSUME PubInv, [PubNext]_pubVars PROVE PubInv'
  OBVIOUS
<1>0. PubTypeOK /\ PubTypeOK'
  BY PubTypeStep DEF PubInv
<1>1. ASSUME NEW u \in Publishers, PublishStep(u) PROVE PubInv'
  <2>1. dag \subseteq dag'
    BY <1>1 DEF PublishStep, Publish, publishRecord, publishRecordFails,
                publishRecordRef, publishRecordRefFails, Crash
  <2>2. \/ UNCHANGED vstore
        \/ /\ pub[u].pc = "ref"
           /\ vstore' = [vstore EXCEPT ![pub[u].key] = CidOf(pub[u].rec)]
    BY <1>1 DEF PublishStep, Publish, publishRecord, publishRecordFails,
                publishRecordRef, publishRecordRefFails, Crash
  <2>3. ASSUME pub[u].pc = "ref"
        PROVE  /\ pub[u] # Idle
               /\ pub[u].key \in Paths /\ pub[u].rec \in Recs
               /\ Closure(pub[u].rec) \subseteq dag
    BY <1>0, <2>3, JobType DEF PubInv, Idle
  <2>4. NoDanglingRef'
    <3> SUFFICES ASSUME NEW p \in Paths, NEW r \in Recs, vstore'[p] = CidOf(r)
                 PROVE  Closure(r) \subseteq dag'
      BY DEF NoDanglingRef
    <3>1. CASE vstore'[p] = vstore[p]
      BY <2>1, <3>1 DEF PubInv, NoDanglingRef
    <3>2. CASE vstore'[p] # vstore[p]
      <4>1. pub[u].pc = "ref" /\ vstore'[p] = CidOf(pub[u].rec)
        BY <1>0, <2>2, <2>3, <3>2, PutChangesOne
      <4>2. r = pub[u].rec
        BY <2>3, <4>1 DEF CidsNameRecords
      <4> QED
        BY <2>1, <2>3, <4>1, <4>2
    <3> QED
      BY <3>1, <3>2
  <2>5. \A w \in Publishers : pub'[w].pc = "ref" => Closure(pub'[w].rec) \subseteq dag'
    <3> SUFFICES ASSUME NEW w \in Publishers, pub'[w].pc = "ref"
                 PROVE  Closure(pub'[w].rec) \subseteq dag'
      OBVIOUS
    <3>1. CASE pub'[w] = pub[w]
      BY <2>1, <3>1 DEF PubInv
    <3>2. CASE pub'[w] # pub[w]
      <4>1. publishRecord(u) /\ w = u
        BY <1>0, <1>1, <3>2 DEF PubTypeOK, PublishStep, Publish, publishRecordFails,
              publishRecordRef, publishRecordRefFails, Crash, Idle, publishRecord
      <4>2. pub[u] \in Jobs
        BY <1>0, <4>1, JobType DEF publishRecord, Idle
      <4>3. pub'[u].rec = pub[u].rec
        BY <1>0, <4>1, <4>2 DEF publishRecord, PubTypeOK, Jobs
      <4> QED
        BY <4>1, <4>3 DEF publishRecord
    <3> QED
      BY <3>1, <3>2
  <2>6. \A p \in acked' : vstore'[p] # None
    <3> SUFFICES ASSUME NEW p \in acked' PROVE vstore'[p] # None
      OBVIOUS
    <3>1. p \in Paths
      BY <1>0 DEF PubTypeOK
    <3>2. p \in acked \/ (pub[u].pc = "ref" /\ publishRecordRef(u) /\ p = pub[u].key)
      BY <1>1 DEF PublishStep, Publish, publishRecord, publishRecordFails,
                  publishRecordRef, publishRecordRefFails, Crash
    <3>3. pub[u].pc = "ref" => CidOf(pub[u].rec) # None
      BY <2>3 DEF NoneIsNothing
    <3>4. p \in acked => vstore[p] # None
      BY DEF PubInv
    <3>5. CASE UNCHANGED vstore /\ p \in acked
      BY <3>4, <3>5
    <3>6. CASE pub[u].pc = "ref"
               /\ vstore' = [vstore EXCEPT ![pub[u].key] = CidOf(pub[u].rec)]
      BY <1>0, <2>3, <3>1, <3>2, <3>3, <3>4, <3>6, PutChangesOne
    <3> QED
      BY <2>2, <3>2, <3>5, <3>6 DEF publishRecordRef
  <2> QED
    BY <1>0, <2>4, <2>5, <2>6 DEF PubInv
<1>2. CASE UNCHANGED pubVars
  BY <1>2 DEF pubVars, PubInv, PubTypeOK, NoDanglingRef
<1> QED
  BY <1>1, <1>2 DEF PubNext

\* The inductive invariant holds of every behaviour.
THEOREM PubInvariant ==
    CidsNameRecords /\ NoneIsNothing => (PubSpec => []PubInv)
<1> SUFFICES ASSUME CidsNameRecords, NoneIsNothing PROVE PubSpec => []PubInv
  OBVIOUS
<1>1. PubInit => PubInv
  <2> SUFFICES ASSUME PubInit PROVE PubInv
    OBVIOUS
  <2>1. PubTypeOK
    BY DEF PubInit, PubTypeOK
  <2>2. NoDanglingRef
    BY DEF NoneIsNothing, PubInit, NoDanglingRef
  <2> QED
    BY <2>1, <2>2 DEF PubInit, PubInv, Idle
<1> QED
  BY <1>1, PubInvStep, PTL DEF PubSpec

\* The state keeps its shape.
THEOREM PubTypeCorrect ==
    CidsNameRecords /\ NoneIsNothing => (PubSpec => []PubTypeOK)
<1> SUFFICES ASSUME CidsNameRecords, NoneIsNothing PROVE PubSpec => []PubTypeOK
  OBVIOUS
<1>1. PubInv => PubTypeOK
  BY DEF PubInv
<1> QED
  BY <1>1, PubInvariant, PTL

\* No failure, stop or interleaving of Publish calls leaves a reference whose
\* record or dependency nodes are not in the DAG.
THEOREM RefsNeverDangle ==
    CidsNameRecords /\ NoneIsNothing => (PubSpec => []NoDanglingRef)
<1> SUFFICES ASSUME CidsNameRecords, NoneIsNothing PROVE PubSpec => []NoDanglingRef
  OBVIOUS
<1>1. PubInv => NoDanglingRef
  BY DEF PubInv
<1> QED
  BY <1>1, PubInvariant, PTL

\* A path whose Publish returned without error resolves to some whole record
\* from then on.
THEOREM AckedPathsStayBound ==
    CidsNameRecords /\ NoneIsNothing => (PubSpec => []AckedStaysBound)
<1> SUFFICES ASSUME CidsNameRecords, NoneIsNothing PROVE PubSpec => []AckedStaysBound
  OBVIOUS
<1>1. PubInv => AckedStaysBound
  <2> SUFFICES ASSUME PubInv, NEW p \in acked
               PROVE  \E r \in Recs : vstore[p] = CidOf(r) /\ Closure(r) \subseteq dag
    BY DEF AckedStaysBound
  <2>1. p \in Paths /\ vstore[p] # None
    BY DEF PubInv, PubTypeOK
  <2>2. PICK r \in Recs : vstore[p] = CidOf(r)
    BY <2>1 DEF PubInv, PubTypeOK
  <2> QED
    BY <2>1, <2>2 DEF PubInv, NoDanglingRef
<1> QED
  BY <1>1, PubInvariant, PTL

-----------------------------------------------------------------------------
(***************************************************************************)
(* Refinement of NameMap.                                                  *)
(***************************************************************************)

\* What boundTo is under the invariant: a path is bound to the record whose
\* reference it holds, and to nothing when it holds none.
BoundSpec ==
    /\ boundTo = [p \in Paths |-> boundTo[p]]
    /\ \A p \in Paths :
         /\ \A r \in Recs : vstore[p] = CidOf(r) => boundTo[p] = r
         /\ vstore[p] = None => boundTo[p] = None

LEMMA BoundValue ==
    ASSUME CidsNameRecords, NoneIsNothing
    PROVE  PubInv => BoundSpec
<1> SUFFICES ASSUME PubInv PROVE BoundSpec
  OBVIOUS
<1>1. boundTo = [p \in Paths |-> boundTo[p]]
  BY DEF boundTo
<1>2. ASSUME NEW p \in Paths, NEW r \in Recs, vstore[p] = CidOf(r)
      PROVE  boundTo[p] = r
  <2>1. Bound(p) = {r}
    BY <1>2 DEF CidsNameRecords, Bound, PubInv, NoDanglingRef
  <2> QED
    BY <2>1 DEF boundTo
<1>3. ASSUME NEW p \in Paths, vstore[p] = None
      PROVE  boundTo[p] = None
  <2>1. Bound(p) = {}
    BY <1>3 DEF NoneIsNothing, Bound
  <2> QED
    BY <2>1 DEF boundTo
<1> QED
  BY <1>1, <1>2, <1>3 DEF BoundSpec

\* The binding of a path depends on nothing but the path's reference.
LEMMA BoundStable ==
    ASSUME CidsNameRecords, NoneIsNothing
    PROVE  PubInv /\ PubInv' /\ UNCHANGED vstore => boundTo' = boundTo
<1>0. /\ PubInv => BoundSpec
      /\ PubInv' => BoundSpec'
  <2>1. PubInv => BoundSpec
    BY BoundValue
  <2> QED
    BY <2>1, PTL
<1> SUFFICES ASSUME PubInv, PubInv', UNCHANGED vstore PROVE boundTo' = boundTo
  OBVIOUS
<1>1. BoundSpec /\ BoundSpec'
  BY <1>0
<1>2. ASSUME NEW p \in Paths PROVE boundTo'[p] = boundTo[p]
  <2>1. vstore[p] = None \/ \E r \in Recs : vstore[p] = CidOf(r)
    BY DEF PubInv, PubTypeOK
  <2> QED
    BY <1>1, <2>1 DEF BoundSpec
<1> QED
  BY <1>1, <1>2 DEF BoundSpec

\* Putting a reference binds the one path it is put at.
LEMMA PutBinds ==
    ASSUME CidsNameRecords, NoneIsNothing, NEW u \in Publishers
    PROVE  PubInv /\ PubInv' /\ pub[u].pc = "ref"
             /\ vstore' = [vstore EXCEPT ![pub[u].key] = CidOf(pub[u].rec)]
           => boundTo' = [boundTo EXCEPT ![pub[u].key] = pub[u].rec]
<1>5. /\ PubInv => BoundSpec
      /\ PubInv' => BoundSpec'
  <2>1. PubInv => BoundSpec
    BY BoundValue
  <2> QED
    BY <2>1, PTL
<1> SUFFICES ASSUME PubInv, PubInv', pub[u].pc = "ref",
                    vstore' = [vstore EXCEPT ![pub[u].key] = CidOf(pub[u].rec)]
             PROVE  boundTo' = [boundTo EXCEPT ![pub[u].key] = pub[u].rec]
  OBVIOUS
<1>0. PubTypeOK /\ pub[u] # Idle /\ pub[u].key \in Paths /\ pub[u].rec \in Recs
  BY JobType DEF PubInv, Idle
<1>1. BoundSpec /\ BoundSpec'
  BY <1>5
<1>2. ASSUME NEW p \in Paths, p # pub[u].key PROVE boundTo'[p] = boundTo[p]
  <2>1. vstore'[p] = vstore[p]
    BY <1>0, <1>2, PutChangesOne
  <2>2. vstore[p] = None \/ \E r \in Recs : vstore[p] = CidOf(r)
    BY <1>0 DEF PubTypeOK
  <2> QED
    BY <1>1, <2>1, <2>2 DEF BoundSpec
<1>3. boundTo'[pub[u].key] = pub[u].rec
  <2>1. vstore'[pub[u].key] = CidOf(pub[u].rec)
    BY <1>0, PutChangesOne
  <2> QED
    BY <1>0, <1>1, <2>1 DEF BoundSpec
<1>4. /\ boundTo' = [p \in Paths |-> boundTo'[p]]
      /\ boundTo = [p \in Paths |-> boundTo[p]]
  BY <1>1 DEF BoundSpec
<1> QED
  BY <1>0, <1>2, <1>3, <1>4

\* asked follows pub: it changes only for the publisher that moves, and only
\* when that publisher's call begins or ends.
LEMMA AskedStep ==
    ASSUME PubTypeOK, NEW u \in Publishers, NEW j, pub' = [pub EXCEPT ![u] = j]
    PROVE  asked' = [asked EXCEPT ![u] = IF j = Idle THEN None
                                          ELSE [name |-> j.key, rec |-> j.rec]]
  BY DEF asked, PubTypeOK

\* The initial states map to the initial state of the map.
LEMMA MapInitially ==
    ASSUME CidsNameRecords, NoneIsNothing
    PROVE  PubInit => Map!MapInit
<1> SUFFICES ASSUME PubInit PROVE Map!MapInit
  OBVIOUS
<1>1. \A p \in Paths : Bound(p) = {}
  BY DEF NoneIsNothing, PubInit, Bound
<1>2. boundTo = [p \in Paths |-> None]
  BY <1>1 DEF boundTo
<1>3. asked = [u \in Publishers |-> None]
  BY DEF PubInit, asked
<1> QED
  BY <1>2, <1>3 DEF Map!MapInit

\* Every step maps to a step of the map or to a stutter: the binding appears
\* at PutValue, a failed or abandoned Publish drops its request.
LEMMA MapStep ==
    ASSUME CidsNameRecords, NoneIsNothing
    PROVE  PubInv /\ PubInv' /\ [PubNext]_pubVars => [Map!MapNext]_Map!mapVars
<1> SUFFICES ASSUME PubInv, PubInv', [PubNext]_pubVars PROVE [Map!MapNext]_Map!mapVars
  OBVIOUS
<1>0. PubTypeOK
  BY DEF PubInv
<1>1. ASSUME NEW u \in Publishers, PublishStep(u) PROVE [Map!MapNext]_Map!mapVars
  <2>0. pub[u] # Idle =>
           /\ pub[u] \in Jobs /\ pub[u].key \in Paths /\ pub[u].rec \in Recs
           /\ asked[u] = [name |-> pub[u].key, rec |-> pub[u].rec]
    BY <1>0, JobType DEF asked
  <2>a. /\ pub[u] # Idle => asked[u] # None
        /\ pub[u] = Idle => asked[u] = None
    BY <2>0 DEF NoneIsNothing, asked
  <2>b. Idle.pc = "idle"
    BY DEF Idle
  <2>1. ASSUME NEW p \in Paths, NEW r \in Recs, Publish(u, p, r)
        PROVE  Map!Ask(u, p, r)
    <3> DEFINE j == [pc |-> "nodes", key |-> p, rec |-> r]
    <3>1. pub[u] = Idle /\ pub' = [pub EXCEPT ![u] = j] /\ UNCHANGED vstore
      BY <2>1 DEF Publish
    <3>2. j # Idle /\ j.key = p /\ j.rec = r
      BY DEF Idle
    <3>3. asked' = [asked EXCEPT ![u] = IF j = Idle THEN None
                                         ELSE [name |-> j.key, rec |-> j.rec]]
      <4> HIDE DEF j
      <4> QED
        BY <1>0, <3>1, AskedStep
    <3>4. asked' = [asked EXCEPT ![u] = [name |-> p, rec |-> r]]
      <4> HIDE DEF j
      <4> QED
        BY <3>2, <3>3
    <3> QED
      BY <2>a, <3>1, <3>4, BoundStable DEF Map!Ask
  <2>2. CASE publishRecord(u)
    <3> DEFINE j == [pub[u] EXCEPT !.pc = "ref"]
    <3>1. pub' = [pub EXCEPT ![u] = j] /\ pub[u].pc = "nodes" /\ UNCHANGED vstore
      BY <2>2 DEF publishRecord
    <3>2. pub[u] # Idle
      BY <2>b, <3>1
    <3>3. j # Idle /\ j.key = pub[u].key /\ j.rec = pub[u].rec
      BY <2>0, <3>2 DEF Jobs, Idle
    <3>4. asked' = [asked EXCEPT ![u] = IF j = Idle THEN None
                                         ELSE [name |-> j.key, rec |-> j.rec]]
      <4> HIDE DEF j
      <4> QED
        BY <1>0, <3>1, AskedStep
    <3>5. asked' = [asked EXCEPT ![u] = asked[u]]
      <4> HIDE DEF j
      <4> QED
        BY <2>0, <3>2, <3>3, <3>4
    <3>6. asked' = asked
      BY <3>5 DEF asked
    <3> QED
      BY <3>1, <3>6, BoundStable DEF Map!mapVars
  <2>3. ASSUME pub[u] # Idle, UNCHANGED vstore, pub' = [pub EXCEPT ![u] = Idle]
        PROVE  Map!Drop(u)
    <3>1. asked' = [asked EXCEPT ![u] = None]
      BY <1>0, <2>3, AskedStep
    <3> QED
      BY <2>a, <2>3, <3>1, BoundStable DEF Map!Drop
  <2>4. ASSUME pub[u].pc = "ref", pub' = [pub EXCEPT ![u] = Idle],
               vstore' = [vstore EXCEPT ![pub[u].key] = CidOf(pub[u].rec)]
        PROVE  Map!Bind(u)
    <3>1. pub[u] # Idle
      BY <2>b, <2>4
    <3>2. asked' = [asked EXCEPT ![u] = None]
      BY <1>0, <2>4, AskedStep
    <3>3. boundTo' = [boundTo EXCEPT ![pub[u].key] = pub[u].rec]
      BY <2>4, PutBinds
    <3>4. asked[u].name = pub[u].key /\ asked[u].rec = pub[u].rec
      BY <2>0, <3>1
    <3>5. boundTo' = [boundTo EXCEPT ![asked[u].name] = asked[u].rec]
      BY <3>3, <3>4
    <3> QED
      BY <2>a, <3>1, <3>2, <3>5 DEF Map!Bind
  <2>5. CASE publishRecordFails(u) \/ Crash(u)
    <3>1. pub[u] # Idle
      BY <2>b, <2>5 DEF publishRecordFails, Crash
    <3> QED
      BY <2>3, <2>5, <3>1 DEF publishRecordFails, Crash, Map!MapNext
  <2>6. CASE publishRecordRef(u)
    BY <2>4, <2>6 DEF publishRecordRef, Map!MapNext
  <2>7. CASE publishRecordRefFails(u)
    <3>1. pub[u] # Idle
      BY <2>b, <2>7 DEF publishRecordRefFails
    <3> QED
      BY <2>3, <2>4, <2>7, <3>1 DEF publishRecordRefFails, Map!MapNext
  <2> QED
    BY <1>1, <2>1, <2>2, <2>5, <2>6, <2>7 DEF PublishStep, Map!MapNext
<1>2. CASE UNCHANGED pubVars
  <2>1. boundTo' = boundTo
    BY <1>2, BoundStable DEF pubVars
  <2>2. asked' = asked
    BY <1>2 DEF pubVars, asked
  <2> QED
    BY <2>1, <2>2 DEF Map!mapVars
<1> QED
  BY <1>1, <1>2 DEF PubNext

\* Publishing implements the abstract name map.
THEOREM PublisherImplementsNameMap ==
    CidsNameRecords /\ NoneIsNothing => (PubSpec => ImplementsNameMap)
<1> SUFFICES ASSUME CidsNameRecords, NoneIsNothing PROVE PubSpec => ImplementsNameMap
  OBVIOUS
<1> QED
  BY PubInvariant, MapInitially, MapStep, PTL DEF PubSpec, ImplementsNameMap, Map!MapSpec
=============================================================================
