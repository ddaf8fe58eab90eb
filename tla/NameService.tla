----------------------------- MODULE NameService -----------------------------
(***************************************************************************)
(* What Resolve promises (interface.go).  A path holds a reference, or     *)
(* nothing.  A call reads it once, and what the call makes of a reference  *)
(* depends on the path and the reference alone, whatever else is stored    *)
(* and whoever else calls: it refuses only what is not acceptable, and     *)
(* answers with what an acceptable reference stands for.  A call may give  *)
(* up before.                                                              *)
(***************************************************************************)
CONSTANTS
    Getters,        \* who resolves
    Paths, Refs,    \* paths, and the references they may hold
    None,           \* a path holds nothing
    BaseOf(_),      \* where a path's reference is
    Accepts(_, _),  \* whether a path accepts a reference
    AnswerOf(_)     \* what a reference stands for

VARIABLES
    holds,  \* the reference at each path, or None
    calls   \* the call of each getter

serviceVars == <<holds, calls>>

ServiceInit ==
    /\ holds = [p \in Paths |-> None]
    /\ calls = [g \in Getters |-> [pc |-> "idle"]]

Put(p, x) ==
    /\ UNCHANGED calls
    /\ holds' = [holds EXCEPT ![p] = x]

Call(g, p) ==
    /\ calls[g].pc \notin {"called", "read"}
    /\ calls' = [calls EXCEPT ![g] = [pc |-> "called", path |-> p]]
    /\ UNCHANGED holds

Held(g) == holds[BaseOf(calls[g].path)]

End(g, pc) ==
    /\ calls' = [calls EXCEPT ![g] = [pc |-> pc, path |-> calls[g].path]]
    /\ UNCHANGED holds

Read(g) ==
    /\ calls[g].pc = "called"
    /\ Held(g) # None
    /\ calls' = [calls EXCEPT ![g] = [pc |-> "read", path |-> calls[g].path, ref |-> Held(g)]]
    /\ UNCHANGED holds

FindNothing(g) ==
    /\ calls[g].pc = "called"
    /\ Held(g) = None
    /\ End(g, "empty")

\* What is refused may be refused as soon as it is read.
Refuse(g) ==
    /\ \/ /\ calls[g].pc = "called"
          /\ Held(g) # None /\ ~Accepts(calls[g].path, Held(g))
       \/ /\ calls[g].pc = "read"
          /\ ~Accepts(calls[g].path, calls[g].ref)
    /\ End(g, "refused")

Accept(g) ==
    /\ calls[g].pc = "read"
    /\ Accepts(calls[g].path, calls[g].ref)
    /\ calls' = [calls EXCEPT ![g] = [pc |-> "accepted", path |-> calls[g].path,
                                      ans |-> AnswerOf(calls[g].ref)]]
    /\ UNCHANGED holds

GiveUp(g) ==
    /\ calls[g].pc \in {"called", "read"}
    /\ End(g, "gaveUp")

ServiceNext ==
    \/ \E p \in Paths, x \in Refs : Put(p, x)
    \/ \E g \in Getters :
         \/ \E p \in Paths : Call(g, p)
         \/ Read(g)
         \/ FindNothing(g)
         \/ Refuse(g)
         \/ Accept(g)
         \/ GiveUp(g)

ServiceSpec == ServiceInit /\ [][ServiceNext]_serviceVars
=============================================================================
