------------------------------ MODULE Publisher ------------------------------
(***************************************************************************)
(* Publishing a record (publisher/publisher.go).  Publish stores the       *)
(* record and the nodes it depends on in the DAG service, then puts a      *)
(* reference to the record in the value store.  Each of the two services   *)
(* may fail, having done part of its work or all of it, and the publishing *)
(* process may stop at any point.                                          *)
(*                                                                         *)
(* The module needs of a record only its CID and the CIDs of its           *)
(* DependencyNodes, so it takes them as parameters.                        *)
(***************************************************************************)
EXTENDS FiniteSets

CONSTANTS
    Publishers,  \* goroutines calling Publish
    Paths,       \* IprsPaths that records are published at
    Recs,        \* records
    CidOf(_),    \* record.Cid()
    NodesOf(_),  \* the CIDs of record.DependencyNodes()
    None

\* What the theorems ask of the parameters.
CidsNameRecords == \A r, s \in Recs : CidOf(r) = CidOf(s) => r = s

NoneIsNothing ==
    /\ None \notin Recs
    /\ \A r \in Recs : CidOf(r) # None
    /\ \A p \in Paths, r \in Recs : None # [name |-> p, rec |-> r]

VARIABLES
    dag,     \* CIDs of the nodes the DAG service holds
    vstore,  \* the bytes at each path of the value store, or None
    pub,     \* the Publish call of each publisher
    acked    \* history: the paths for which a Publish returned no error

pubVars == <<dag, vstore, pub, acked>>

Idle == [pc |-> "idle"]
Jobs == [pc : {"nodes", "ref"}, key : Paths, rec : Recs]

\* publishRecord: nodes := append(record.DependencyNodes(), record)
Closure(r) == NodesOf(r) \cup {CidOf(r)}

PubInit ==
    /\ dag = {}
    /\ vstore = [p \in Paths |-> None]
    /\ pub = [u \in Publishers |-> Idle]
    /\ acked = {}

\* Publish is called with any path and any record.
Publish(u, p, r) ==
    /\ pub[u] = Idle
    /\ pub' = [pub EXCEPT ![u] = [pc |-> "nodes", key |-> p, rec |-> r]]
    /\ UNCHANGED <<dag, vstore, acked>>

StoreRecordOnly(u) ==  \* mutant: the dependency nodes are left out
    /\ pub[u].pc = "nodes"
    /\ dag' = dag \cup {CidOf(pub[u].rec)}
    /\ pub' = [pub EXCEPT ![u].pc = "ref"]
    /\ UNCHANGED <<vstore, acked>>

\* publishRecord: the batch takes every node and Commit succeeds.
publishRecord(u) ==
    /\ pub[u].pc = "nodes"
    /\ dag' = dag \cup Closure(pub[u].rec)
    /\ pub' = [pub EXCEPT ![u].pc = "ref"]
    /\ UNCHANGED <<vstore, acked>>

RefAfterFailedCommit(u) ==  \* mutant: Commit's error is ignored
    /\ pub[u].pc = "nodes"
    /\ \E stored \in SUBSET Closure(pub[u].rec) : dag' = dag \cup stored
    /\ pub' = [pub EXCEPT ![u].pc = "ref"]
    /\ UNCHANGED <<vstore, acked>>

\* publishRecord: Add or Commit fails, with some of the nodes stored.
publishRecordFails(u) ==
    /\ pub[u].pc = "nodes"
    /\ \E stored \in SUBSET Closure(pub[u].rec) : dag' = dag \cup stored
    /\ pub' = [pub EXCEPT ![u] = Idle]
    /\ UNCHANGED <<vstore, acked>>

PutBeforeNodes(u) ==  \* mutant: the reference does not wait for the nodes
    /\ pub[u] # Idle
    /\ vstore' = [vstore EXCEPT ![pub[u].key] = CidOf(pub[u].rec)]
    /\ acked' = acked \cup {pub[u].key}
    /\ pub' = [pub EXCEPT ![u] = Idle]
    /\ UNCHANGED dag

PutRecordBytes(u) ==  \* mutant: the record is put, not its CID
    /\ pub[u].pc = "ref"
    /\ vstore' = [vstore EXCEPT ![pub[u].key] = pub[u].rec]
    /\ acked' = acked \cup {pub[u].key}
    /\ pub' = [pub EXCEPT ![u] = Idle]
    /\ UNCHANGED dag

\* publishRecordRef: PutValue succeeds, and Publish returns nil.
publishRecordRef(u) ==
    /\ pub[u].pc = "ref"
    /\ vstore' = [vstore EXCEPT ![pub[u].key] = CidOf(pub[u].rec)]
    /\ acked' = acked \cup {pub[u].key}
    /\ pub' = [pub EXCEPT ![u] = Idle]
    /\ UNCHANGED dag

PutErrorIgnored(u) ==  \* mutant: Publish returns nil when PutValue fails
    /\ pub[u].pc = "ref"
    /\ \/ vstore' = [vstore EXCEPT ![pub[u].key] = CidOf(pub[u].rec)]
       \/ UNCHANGED vstore
    /\ acked' = acked \cup {pub[u].key}
    /\ pub' = [pub EXCEPT ![u] = Idle]
    /\ UNCHANGED dag

\* publishRecordRef: PutValue fails or times out; the value may be there or not.
publishRecordRefFails(u) ==
    /\ pub[u].pc = "ref"
    /\ \/ vstore' = [vstore EXCEPT ![pub[u].key] = CidOf(pub[u].rec)]
       \/ UNCHANGED vstore
    /\ pub' = [pub EXCEPT ![u] = Idle]
    /\ UNCHANGED <<dag, acked>>

\* The process stops in the middle of Publish.
Crash(u) ==
    /\ pub[u] # Idle
    /\ pub' = [pub EXCEPT ![u] = Idle]
    /\ UNCHANGED <<dag, vstore, acked>>

PublishStep(u) ==
    \/ \E p \in Paths, r \in Recs : Publish(u, p, r)
    \/ publishRecord(u)
    \/ publishRecordFails(u)
    \/ publishRecordRef(u)
    \/ publishRecordRefFails(u)
    \/ Crash(u)

PubNext == \E u \in Publishers : PublishStep(u)

PubSpec == PubInit /\ [][PubNext]_pubVars

-----------------------------------------------------------------------------
Cids == UNION {Closure(r) : r \in Recs}

PubTypeOK ==
    /\ dag \subseteq Cids
    /\ vstore \in [Paths -> {CidOf(r) : r \in Recs} \cup {None}]
    /\ pub \in [Publishers -> {Idle} \cup Jobs]
    /\ acked \subseteq Paths

(***************************************************************************)
(* A reference in the value store never dangles: whatever fails or stops,  *)
(* and whoever else publishes there, the record it names and every node    *)
(* that verifying it needs from its publisher are in the DAG.              *)
(***************************************************************************)
NoDanglingRef ==
    \A p \in Paths, r \in Recs : vstore[p] = CidOf(r) => Closure(r) \subseteq dag

(***************************************************************************)
(* Once a Publish for a path has returned without error the path stays     *)
(* bound, to some record, whatever later Publishes for it do or fail to do.*)
(***************************************************************************)
AckedStaysBound ==
    \A p \in acked : \E r \in Recs : vstore[p] = CidOf(r) /\ Closure(r) \subseteq dag

\* NoDanglingRef made inductive: who is about to put a reference has stored
\* the record's nodes.
PubInv ==
    /\ PubTypeOK
    /\ NoDanglingRef
    /\ \A u \in Publishers : pub[u].pc = "ref" => Closure(pub[u].rec) \subseteq dag
    /\ \A p \in acked : vstore[p] # None

(***************************************************************************)
(* A path is bound to a record when its reference is there with all of the *)
(* record's nodes.  In this view Publish is atomic.                        *)
(***************************************************************************)
Bound(p) == {r \in Recs : vstore[p] = CidOf(r) /\ Closure(r) \subseteq dag}

boundTo == [p \in Paths |-> IF Bound(p) = {} THEN None ELSE CHOOSE r \in Bound(p) : TRUE]

asked == [u \in Publishers |-> IF pub[u] = Idle THEN None
                               ELSE [name |-> pub[u].key, rec |-> pub[u].rec]]

Map == INSTANCE NameMap WITH
           Clients <- Publishers, Names <- Paths, names <- boundTo, request <- asked

\* Publishing implements the name map: a binding appears whole, in one step,
\* and only as asked for.
ImplementsNameMap == Map!MapSpec
=============================================================================
