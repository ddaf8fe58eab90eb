------------------------------- MODULE Resolver -------------------------------
(***************************************************************************)
(* Recursive resolution (resolver/resolver.go): a name is looked up by the *)
(* resolver that accepts it, the value is resolved in turn, and the parts  *)
(* of the path after each name are carried along, until a CID is reached   *)
(* or the depth runs out.  Names may be rebound between two lookups.       *)
(***************************************************************************)
EXTENDS Names, FiniteSets

CONSTANTS
    Values,       \* the values that names may have
    Inputs,       \* the paths that are resolved
    Depths,       \* the depth limits asked for
    MaxHops       \* bound on the lookups of one call, for limits below zero

ASSUME DepthsAssumption ==
    /\ Depths \subseteq Int
    /\ MaxHops \in Nat
    /\ \A d \in Depths : d <= MaxHops

ASSUME PathsAssumption == \A t \in Values \cup Inputs : IsPath(t)

VARIABLES
    names,  \* the value at each name, or none
    call    \* the call of Resolve

vars == <<names, call>>

-----------------------------------------------------------------------------
\* The constant of resolver.go for a call without a limit.
UnlimitedDepth == 0

HasKey(t) == Accepted(t) /\ (ByIprs(t) => HasBasePath(t)) /\ ~Refused(t)

Keys == {KeyOf(t) : t \in {u \in Values \cup Inputs : HasKey(u)}}

BoundOrNot(t) == ~Refused(t)  \* mutant: the error of the lookup is ignored

\* A resolver finds a value that is resolvable for the path.
Bound(t) == ~Refused(t) /\ names[KeyOf(t)] # None /\ IsResolvable(names[KeyOf(t)])

\* asked and hops are history: the depth the call began with, and the lookups it
\* made.
Init ==
    /\ names \in [Keys -> Values \cup {None}]
    /\ \E t \in Inputs, d \in Depths :
         call = [pc |-> "resolve", target |-> t, depth |-> d, apnd |-> <<>>,
                 asked |-> d, hops |-> 0]

End(pc) == call' = [call EXCEPT !.pc = pc]

\* No resolver takes the path: it denotes a CID, or nothing.
BottomOut ==
    LET t == call.target IN
    /\ call.pc = "resolve"
    /\ ~Accepted(t)
    /\ IF Parses(t)
       THEN call' = [call EXCEPT !.pc = "link", !.target = <<TargetCid(t)>>,
                                 !.apnd = appendParts(TargetRest(t), @)]
       ELSE End("format")
    /\ UNCHANGED names

RecursionLimitEarly ==  \* mutant: off by one
    /\ call.pc = "resolve"
    /\ Accepted(call.target)
    /\ call.depth <= 1
    /\ End("recursion")
    /\ UNCHANGED names

RecursionLimit ==
    /\ call.pc = "resolve"
    /\ Accepted(call.target)
    /\ call.depth = 0
    /\ End("recursion")
    /\ UNCHANGED names

\* rsv.Resolve indexes the segments of a path that cleaning left too short.
IndexPanics ==
    LET t == call.target IN
    /\ call.pc = "resolve"
    /\ call.depth # 0
    /\ ByIprs(t) /\ ~HasBasePath(t)
    /\ End("panic")
    /\ UNCHANGED names

\* rsv.Resolve fails: no such name, or its value is not resolvable.
LookupFails ==
    LET t == call.target IN
    /\ call.pc = "resolve"
    /\ call.depth # 0
    /\ Accepted(t) /\ (ByIprs(t) => HasBasePath(t))
    /\ ~Bound(t)
    /\ End("lookup")
    /\ UNCHANGED names

RecurseUncounted ==  \* mutant: the depth is passed on as it is
    LET t == call.target IN
    /\ call.pc = "resolve"
    /\ call.depth # 0
    /\ Accepted(t) /\ (ByIprs(t) => HasBasePath(t))
    /\ Bound(t)
    /\ call.hops < MaxHops
    /\ call' = [call EXCEPT !.target = names[KeyOf(t)],
                            !.apnd = appendParts(RestOf(t), @),
                            !.hops = @ + 1]
    /\ UNCHANGED names

\* rsv.Resolve, and the recursive call.
Recurse ==
    LET t == call.target IN
    /\ call.pc = "resolve"
    /\ call.depth # 0
    /\ Accepted(t) /\ (ByIprs(t) => HasBasePath(t))
    /\ Bound(t)
    /\ call.hops < MaxHops
    /\ call' = [call EXCEPT !.target = names[KeyOf(t)],
                            !.depth = @ - 1,
                            !.apnd = appendParts(RestOf(t), @),
                            !.hops = @ + 1]
    /\ UNCHANGED names

Step == BottomOut \/ RecursionLimit \/ IndexPanics \/ LookupFails \/ Recurse

\* Somebody publishes at a name, or its record is dropped, during the call.
Rebind(k, v) ==
    /\ call.pc = "resolve"
    /\ names' = [names EXCEPT ![k] = v]
    /\ UNCHANGED call

Next == Step \/ \E k \in DOMAIN names, v \in Values \cup {None} : Rebind(k, v)

\* The lookups answer, so the call goes on.
Spec == Init /\ [][Next]_vars /\ WF_vars(Step)

-----------------------------------------------------------------------------
Ended == {"link", "format", "recursion", "lookup", "panic"}

(***************************************************************************)
(* Types.                                                                  *)
(***************************************************************************)
TypeOK ==
    /\ names \in [Keys -> Values \cup {None}]
    /\ call.pc \in {"resolve"} \cup Ended
    /\ call.target \in Values \cup Inputs \/ call.pc = "link"
    /\ call.asked \in Depths
    /\ call.depth \in Int
    /\ call.hops \in 0..MaxHops

(***************************************************************************)
(* What a path says, apart from path.Clean: a part stands unless, up to    *)
(* some later one, more parts climb than descend.  Only the IPRS resolver  *)
(* reads ".." in that way; for the others it is a part like any.           *)
(***************************************************************************)
Climbs(t, i, j) == {k \in i..j : t[k] = ".."}
Descends(t, i, j) == {k \in i..j : t[k] \notin {"", ".", ".."}}

Stands(t, i) ==
    /\ i \in Descends(t, 1, Len(t))
    /\ \A j \in i + 1 .. Len(t) :
           Cardinality(Climbs(t, i + 1, j)) <= Cardinality(Descends(t, i + 1, j))

Meaning(t) ==
    IF ByIprs(t)
    THEN Kept(t, {i \in DOMAIN t : Stands(t, i)})
    ELSE NonEmpty(t)

(***************************************************************************)
(* Resolution is substitution: every lookup replaces the name at the head  *)
(* of the whole path (what the target says, with the parts carried along)  *)
(* by the name's value.  A path that climbs out of /iprs/ is the exception *)
(* the code makes: its first part is taken for "iprs".                     *)
(***************************************************************************)
HeadOf(t) == IF ByIprs(t) THEN NonEmpty(KeyOf(t)) ELSE NonEmpty(SubSeq(t, 1, 3))

StepsSubstitute ==
    [][LET t == call.target
           whole == Meaning(t) \o call.apnd
           n == Len(HeadOf(t))
       IN  call'.hops # call.hops =>
             \/ ByIprs(t) /\ Meaning(t)[1] # "iprs"
             \/ /\ SubSeq(whole, 1, n) = HeadOf(t)
                /\ NonEmpty(call'.target) \o call'.apnd =
                       NonEmpty(names[KeyOf(t)]) \o From(whole, n + 1)]_vars

(***************************************************************************)
(* A value that passed IsResolvable never turns out to be of an            *)
(* unrecognized format at the next level: only the caller's own input can. *)
(***************************************************************************)
OnlyInputIsUnrecognized == call.pc = "format" => call.hops = 0

(***************************************************************************)
(* With a limit (ResolveN of interface.go: "or a depth limit of your own   *)
(* choosing") the recursion error comes exactly when as many lookups as    *)
(* asked for were made and a name is still left, however names change      *)
(* meanwhile; at any time the depth left is what the lookups made have not *)
(* used up, and a limit never turns into a number below zero, which limits *)
(* nothing.  The depth that the source calls UnlimitedDepth is not a limit *)
(* and is left to UnlimitedIsNoLimit.                                      *)
(***************************************************************************)
DepthIsExact ==
    call.asked # UnlimitedDepth =>
        /\ call.asked = call.depth + call.hops
        /\ call.pc = "recursion" => call.hops = call.asked /\ Accepted(call.target)
        /\ call.asked > 0 => call.depth >= 0

(***************************************************************************)
(* "UnlimitedDepth allows infinite recursion in ResolveN" (resolver.go:20, *)
(* and interface.go:71): a call with that depth does not end for having    *)
(* reached a recursion limit.                                              *)
(***************************************************************************)
UnlimitedIsNoLimit == call.asked = UnlimitedDepth => call.pc # "recursion"

(***************************************************************************)
(* A call with a depth limit ends, even around a cycle of names and even   *)
(* if names keep being rebound.  A depth below zero is no limit; with      *)
(* UnlimitedDepth the code ends a call at its first name.                  *)
(***************************************************************************)
ResolutionEnds == <>(call.pc \in Ended \/ call.asked < 0)

(***************************************************************************)
(* A path without an id is no IPRS path (path_test.go:18): resolving one   *)
(* that FromString accepted never runs past the end of its segments.       *)
(***************************************************************************)
AcceptedPathHasAnId == call.pc # "panic"
=============================================================================
