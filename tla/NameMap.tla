------------------------------- MODULE NameMap -------------------------------
(***************************************************************************)
(* What Publish promises: "Publish establishes a name-value mapping"       *)
(* (interface.go).  A client asks for a name to be bound to a record; the  *)
(* binding appears at once and whole, or the request is dropped and        *)
(* nothing changes.  A name is never bound to something nobody asked for.  *)
(***************************************************************************)
CONSTANTS Clients, Names, Recs, None

VARIABLES
    names,    \* the record each name is bound to, or None
    request   \* the binding each client has asked for, or None

mapVars == <<names, request>>

MapInit ==
    /\ names = [n \in Names |-> None]
    /\ request = [c \in Clients |-> None]

Ask(c, n, r) ==
    /\ request[c] = None
    /\ request' = [request EXCEPT ![c] = [name |-> n, rec |-> r]]
    /\ UNCHANGED names

Bind(c) ==
    /\ request[c] # None
    /\ names' = [names EXCEPT ![request[c].name] = request[c].rec]
    /\ request' = [request EXCEPT ![c] = None]

Drop(c) ==
    /\ request[c] # None
    /\ request' = [request EXCEPT ![c] = None]
    /\ UNCHANGED names

MapNext ==
    \E c \in Clients :
        \/ \E n \in Names, r \in Recs : Ask(c, n, r)
        \/ Bind(c)
        \/ Drop(c)

MapSpec == MapInit /\ [][MapNext]_mapVars
=============================================================================
