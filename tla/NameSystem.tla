------------------------------ MODULE NameSystem ------------------------------
(***************************************************************************)
(* One Resolve through the DNS and IPNS resolvers (resolver/resolver.go    *)
(* with resolver/dns.go and resolver/ipns.go): each lookup of a domain or  *)
(* an IPNS name is a call of GetValue with its goroutines, while TXT       *)
(* records, entries and IPRS records change.  The IPRS resolver's lookup,  *)
(* which RecordSystem takes apart, is one step here.                       *)
(*                                                                         *)
(* Resolver says what this promises, with lookups that are one step each.  *)
(***************************************************************************)
EXTENDS DnsResolver, IpnsResolver, FiniteSets

CONSTANTS
    IprsValues,  \* what may be published at IPRS names
    Inputs,      \* the paths that are resolved
    Depths,      \* the depth limits asked for
    MaxHops,     \* bound on the lookups of one call, as in Resolver
    MaxChanges   \* bound on the changes of published records during the call

VARIABLES
    changes,    \* how often published records changed
    iprsStore,  \* the value at each IPRS name, or none
    call,       \* the call of Resolve, as in Resolver
    lookup,     \* rsv.Resolve: "ask", "wait" or "answered", and what it returned
    answer      \* what each name was last found to be, or none; the history
                \* that stands for Resolver's names, and the caches

callVars == <<changes, iprsStore, call, lookup, answer>>

vars == <<dnsVars, ipnsVars, callVars>>

-----------------------------------------------------------------------------
Values == DnsValues \cup {p.entry.value : p \in {q \in IpnsPuts : q.entry # Junk}}
              \cup IprsValues

R == INSTANCE Resolver WITH names <- answer

\* What is looked up in the DNS and the routing system can be published there.
ASSUME LookupsAssumption ==
    \A t \in Values \cup Inputs :
        /\ ByDns(t) => t[3] \in Domains
        /\ ByIpns(t) => t[3] \in IpnsNames

IprsKeys == {KeyOf(t) : t \in {u \in Values \cup Inputs : R!HasKey(u) /\ ByIprs(u)}}

NotAsked == [pc |-> "ask", res |-> None]
Waiting == [pc |-> "wait", res |-> None]
Answered(v) == [pc |-> "answered", res |-> v]

Init ==
    /\ DnsInit
    /\ IpnsInit
    /\ changes = 0
    /\ iprsStore \in [IprsKeys -> IprsValues \cup {None}]
    /\ \E t \in Inputs, d \in Depths :
         call = [pc |-> "resolve", target |-> t, depth |-> d, apnd |-> <<>>,
                 asked |-> d, hops |-> 0]
    /\ lookup = NotAsked
    /\ answer = [k \in R!Keys |-> None]

\* Up to rsv.Resolve: the call is at a name, and may look it up.
AtName ==
    /\ call.pc = "resolve"
    /\ lookup.pc = "ask"
    /\ call.depth # 0

\* DNSResolver.Resolve: the cache misses.
AskDns ==
    /\ AtName
    /\ ByDns(call.target)
    /\ DnsGetValue(call.target[3])
    /\ lookup' = Waiting
    /\ UNCHANGED <<ipnsVars, changes, iprsStore, call, answer>>

\* IpnsResolver.Resolve: the cache misses.
AskIpns ==
    /\ AtName
    /\ ByIpns(call.target)
    /\ IpnsGetValue(call.target[3])
    /\ lookup' = Waiting
    /\ UNCHANGED <<dnsVars, changes, iprsStore, call, answer>>

\* IprsResolver.Resolve, all of it: it may fail for reasons of its own.
AskIprs ==
    LET k == KeyOf(call.target)
        bound == ~Refused(call.target) /\ iprsStore[k] # None /\ IsResolvable(iprsStore[k])
    IN
    /\ AtName
    /\ ByIprs(call.target) /\ HasBasePath(call.target)
    /\ \E v \in {None} \cup {x \in IprsValues : bound /\ x = iprsStore[k]} :
         /\ lookup' = Answered(v)
         /\ answer' = IF Refused(call.target) THEN answer ELSE [answer EXCEPT ![k] = v]
    /\ UNCHANGED <<dnsVars, ipnsVars, changes, iprsStore, call>>

\* A cache holds what a lookup of the same name has found before.
CacheHit ==
    /\ AtName
    /\ R!HasKey(call.target)
    /\ answer[KeyOf(call.target)] # None
    /\ lookup' = Answered(answer[KeyOf(call.target)])
    /\ UNCHANGED <<dnsVars, ipnsVars, changes, iprsStore, call, answer>>

GetterReturned(v) ==
    /\ lookup.pc = "wait"
    /\ lookup' = Answered(v)
    /\ answer' = [answer EXCEPT ![KeyOf(call.target)] = v]
    /\ UNCHANGED <<changes, iprsStore, call>>

\* GetValue returned: the call is over, though goroutines of it may be left.
DnsReturns ==
    /\ dns.pc \in {"ok", "failed", "cancelled"}
    /\ GetterReturned(dns.val)
    /\ dns' = [NoDnsCall EXCEPT !.domain = dns.domain]
    /\ UNCHANGED <<txt, txtWork, txtChan, ipnsVars>>

IpnsReturns ==
    /\ ipns.pc \in {"ok", "failed"}
    /\ GetterReturned(ipns.val)
    /\ ipns' = [NoIpnsCall EXCEPT !.name = ipns.name]
    /\ UNCHANGED <<dnsVars, ipnsStore, entry, pubkey, ipnsWork, ipnsResp>>

\* resolveWithAppendage up to rsv.Resolve.
Before ==
    /\ lookup.pc = "ask"
    /\ R!BottomOut \/ R!RecursionLimit \/ R!IndexPanics
    /\ UNCHANGED <<dnsVars, ipnsVars, changes, iprsStore, lookup>>

\* And from there on: whatever rsv.Resolve returned is resolved in turn.
After ==
    /\ lookup.pc = "answered"
    /\ lookup' = NotAsked
    /\ IF lookup.res = None
       THEN R!End("lookup")
       ELSE /\ call.hops < MaxHops
            /\ call' = [call EXCEPT !.target = lookup.res,
                                    !.depth = @ - 1,
                                    !.apnd = appendParts(RestOf(call.target), @),
                                    !.hops = @ + 1]
    /\ UNCHANGED <<dnsVars, ipnsVars, changes, iprsStore, answer>>

\* The goroutines, and the call that waits for them.
GetterStep ==
    \/ DnsCallStep /\ UNCHANGED <<ipnsVars, callVars>>
    \/ IpnsCallStep /\ UNCHANGED <<dnsVars, callVars>>

TxtStep(h) == TxtWorkStep(h) /\ UNCHANGED <<ipnsVars, callVars>>
IpnsStep(w) == IpnsWorkStep(w) /\ UNCHANGED <<dnsVars, callVars>>

CallStep ==
    \/ Before
    \/ AskDns
    \/ AskIpns
    \/ AskIprs
    \/ CacheHit
    \/ GetterStep
    \/ DnsReturns
    \/ IpnsReturns
    \/ After

\* Owners of names, and others, publish.
SetIprs(k, v) ==
    /\ iprsStore[k] # v
    /\ iprsStore' = [iprsStore EXCEPT ![k] = v]
    /\ UNCHANGED <<dnsVars, ipnsVars>>

Change ==
    /\ call.pc = "resolve"
    /\ changes < MaxChanges
    /\ changes' = changes + 1
    /\ \/ /\ \E d \in Domains, h \in Hosts : \E list \in TxtLists[h] : SetTxt(d, h, list)
          /\ UNCHANGED <<ipnsVars, iprsStore>>
       \/ /\ \E n \in IpnsNames : \E e \in EntriesAt(n) \cup {Nil} : PutEntry(n, e)
          /\ UNCHANGED <<dnsVars, iprsStore>>
       \/ \E k \in IprsKeys, v \in IprsValues \cup {None} : SetIprs(k, v)
    /\ UNCHANGED <<call, lookup, answer>>

Running ==
    \/ CallStep
    \/ \E h \in Hosts : TxtStep(h)
    \/ \E w \in IpnsFetches : IpnsStep(w)

Next == Running \/ Change

(***************************************************************************)
(* lookupTXT returns, if only because it times out, and the value store's  *)
(* fetches end with the caller's context; so while any of the goroutines   *)
(* can run, Go runs some.  Nothing is assumed of those who publish.        *)
(***************************************************************************)
Spec == Init /\ [][Next]_vars /\ WF_vars(Running)

-----------------------------------------------------------------------------
(***************************************************************************)
(* Resolving with goroutines, channels and shared variables implements     *)
(* Resolver, in which a lookup is one step that finds the name bound to a  *)
(* resolvable value or fails, and which ends when the depth is used up.    *)
(***************************************************************************)
ImplementsResolver == R!Spec

(***************************************************************************)
(* Goroutines end, also those that an answer from the other one, an error  *)
(* or the end of the context left behind: there is room for every answer.  *)
(***************************************************************************)
GoroutinesOff ==
    /\ \A h \in Hosts : txtWork[h].pc = "off"
    /\ \A w \in IpnsFetches : ipnsWork[w] = "off"

LookupsEnd == []<>GoroutinesOff
=============================================================================
