--------------------------- MODULE NameSystemProofs ---------------------------
(***************************************************************************)
(* Theorems about NameSystem: what DnsResolver and IpnsResolver promise    *)
(* holds for the lookups of a recursive resolution as well, and every step *)
(* of it is one of Resolver or leaves Resolver's state as it is.           *)
(***************************************************************************)
EXTENDS NameSystem, DnsResolverProofs, IpnsResolverProofs, TLAPS

(***************************************************************************)
(* The inductive invariant: those of the two resolvers and, of the call,   *)
(* what the refinement needs: a lookup is under way only for a target that *)
(* Resolver would look up, and when it has answered, answer holds what it  *)
(* found, which is resolvable.                                             *)
(***************************************************************************)
CallShape == DOMAIN call = {"pc", "target", "depth", "apnd", "asked", "hops"}

TargetIsKnown == call.pc = "resolve" => call.target \in Values \cup Inputs

IsAnswer(v) == v \in Values \cup {None} /\ (v # None => IsResolvable(v))

AnswersAreResolvable ==
    /\ DOMAIN answer = R!Keys
    /\ \A k \in R!Keys : IsAnswer(answer[k])

LookupIsOfTarget ==
    LET t == call.target IN
    /\ lookup.pc \in {"wait", "answered"} =>
         /\ call.pc = "resolve"
         /\ call.depth # 0
         /\ Accepted(t) /\ (ByIprs(t) => HasBasePath(t))
    /\ lookup.pc = "wait" => ~Refused(t)
    /\ lookup.pc = "answered" =>
         IF Refused(t) THEN lookup.res = None ELSE lookup.res = answer[KeyOf(t)]

SysInv ==
    /\ DnsInv
    /\ IpnsInv
    /\ CallShape
    /\ TargetIsKnown
    /\ AnswersAreResolvable
    /\ LookupIsOfTarget

-----------------------------------------------------------------------------
(***************************************************************************)
(* Resolver's names and this module's are the same operators.              *)
(***************************************************************************)
LEMMA SameSegments == ASSUME NEW t PROVE R!Segments(t) = Segments(t)
BY DEF R!Segments, Segments, R!CleanedUpTo, CleanedUpTo, R!Clean, Clean

LEMMA SameAccept ==
    ASSUME NEW t
    PROVE  /\ R!Accepted(t) = Accepted(t)
           /\ R!ByDns(t) = ByDns(t) /\ R!ByIprs(t) = ByIprs(t) /\ R!ByIpns(t) = ByIpns(t)
           /\ R!AcceptsIprs(t) = AcceptsIprs(t)
           /\ R!Parses(t) = Parses(t)
           /\ R!IsResolvable(t) = IsResolvable(t)
BY DEF R!Accepted, Accepted, R!ByDns, ByDns, R!ByIprs, ByIprs, R!ByIpns, ByIpns,
  R!AcceptsDns, AcceptsDns, R!AcceptsIprs, AcceptsIprs, R!AcceptsIpns, AcceptsIpns,
  R!Parses, Parses, R!ParsesRaw, ParsesRaw, R!ParsesIpfs, ParsesIpfs, R!ParsesCid, ParsesCid,
  R!IsResolvable, IsResolvable

LEMMA SameParts ==
    ASSUME NEW t
    PROVE  /\ R!HasBasePath(t) = HasBasePath(t)
           /\ R!Refused(t) = Refused(t)
           /\ R!KeyOf(t) = KeyOf(t)
           /\ R!RestOf(t) = RestOf(t)
<1>1. R!BasePath(t) = BasePath(t) /\ R!RelativePath(t) = RelativePath(t)
  BY SameSegments DEF R!BasePath, BasePath, R!RelativePath, RelativePath, R!From, From
<1>2. R!HasBasePath(t) = HasBasePath(t)
  BY SameSegments DEF R!HasBasePath, HasBasePath
<1>3. R!Refused(t) = Refused(t)
  BY <1>1, SameAccept DEF R!Refused, Refused
<1>4. R!KeyOf(t) = KeyOf(t)
  BY <1>1, SameAccept, Zenon DEF R!KeyOf, KeyOf
<1>5. R!RestOf(t) = RestOf(t)
  BY <1>1, SameAccept, Zenon DEF R!RestOf, RestOf, R!From, From
<1> QED
  BY <1>2, <1>3, <1>4, <1>5

LEMMA SameAppend == ASSUME NEW a, NEW b PROVE R!appendParts(a, b) = appendParts(a, b)
BY DEF R!appendParts, appendParts, R!NonEmpty, NonEmpty, R!Kept, Kept, R!KeptUpTo, KeptUpTo

LEMMA SameNone == R!None = None
BY DEF R!None, None

LEMMA KeyOfTarget ==
    ASSUME NEW t \in Values \cup Inputs, Accepted(t), ByIprs(t) => HasBasePath(t), ~Refused(t)
    PROVE  KeyOf(t) \in R!Keys
<1>1. R!HasKey(t) /\ R!KeyOf(t) = KeyOf(t)
  BY SameAccept, SameParts DEF R!HasKey
<1> QED
  BY <1>1 DEF R!Keys
-----------------------------------------------------------------------------
(***************************************************************************)
(* The invariant is inductive.                                             *)
(***************************************************************************)
LEMMA SysInitHolds == Init => SysInv
<1> SUFFICES ASSUME Init PROVE SysInv
  OBVIOUS
<1>1. DnsInv /\ IpnsInv
  BY DnsInitHolds, IpnsInitHolds DEF Init
<1>2. PICK t \in Inputs, d \in Depths :
         call = [pc |-> "resolve", target |-> t, depth |-> d, apnd |-> <<>>,
                 asked |-> d, hops |-> 0]
  BY DEF Init
<1>3. CallShape /\ TargetIsKnown
  BY <1>2 DEF CallShape, TargetIsKnown
<1>4. AnswersAreResolvable
  BY DEF Init, AnswersAreResolvable, IsAnswer
<1>5. LookupIsOfTarget
  BY DEF Init, NotAsked, LookupIsOfTarget
<1> QED
  BY <1>1, <1>3, <1>4, <1>5 DEF SysInv

LEMMA GettersKeep ==
    ASSUME SysInv, DnsInv', IpnsInv', UNCHANGED <<call, lookup, answer>> PROVE SysInv'
BY DEF SysInv, CallShape, TargetIsKnown, AnswersAreResolvable, IsAnswer, LookupIsOfTarget

LEMMA BeforeKeeps == SysInv /\ Before => SysInv'
<1> SUFFICES ASSUME SysInv, Before PROVE SysInv'
  OBVIOUS
<1>1. DnsInv' /\ IpnsInv'
  BY DnsStutterKeeps, IpnsStutterKeeps DEF SysInv, Before
<1>2. UNCHANGED <<lookup, answer>> /\ lookup.pc = "ask"
  BY DEF Before, R!BottomOut, R!RecursionLimit, R!IndexPanics
<1>3. call'.pc # "resolve" /\ DOMAIN call' = DOMAIN call
  BY DEF Before, R!BottomOut, R!RecursionLimit, R!IndexPanics, R!End, SysInv, CallShape
<1> QED
  BY <1>1, <1>2, <1>3 DEF SysInv, CallShape, TargetIsKnown, AnswersAreResolvable, IsAnswer,
                          LookupIsOfTarget

LEMMA AskDnsKeeps == SysInv /\ AskDns => SysInv'
<1> SUFFICES ASSUME SysInv, AskDns PROVE SysInv'
  OBVIOUS
<1> DEFINE t == call.target
<1>1. call.pc = "resolve" /\ call.depth # 0 /\ ByDns(t) /\ t \in Values \cup Inputs
  BY DEF AskDns, AtName, SysInv, TargetIsKnown
<1>2. DnsInv'
  BY <1>1, LookupsAssumption, DnsGetValueKeeps DEF AskDns, SysInv
<1>3. IpnsInv'
  BY IpnsStutterKeeps DEF AskDns, SysInv
<1>4. Accepted(t) /\ ~ByIprs(t) /\ ~Refused(t)
  BY <1>1 DEF Accepted, ByDns, ByIprs, Refused
<1>5. UNCHANGED <<call, answer>> /\ lookup'.pc = "wait"
  BY DEF AskDns, Waiting
<1>6. LookupIsOfTarget'
  BY <1>1, <1>4, <1>5 DEF LookupIsOfTarget
<1> QED
  BY <1>2, <1>3, <1>5, <1>6 DEF SysInv, CallShape, TargetIsKnown, AnswersAreResolvable,
                                IsAnswer

LEMMA AskIpnsKeeps == SysInv /\ AskIpns => SysInv'
<1> SUFFICES ASSUME SysInv, AskIpns PROVE SysInv'
  OBVIOUS
<1> DEFINE t == call.target
<1>1. call.pc = "resolve" /\ call.depth # 0 /\ ByIpns(t) /\ t \in Values \cup Inputs
  BY DEF AskIpns, AtName, SysInv, TargetIsKnown
<1>2. IpnsInv'
  BY <1>1, LookupsAssumption, IpnsGetValueKeeps DEF AskIpns, SysInv
<1>3. DnsInv'
  BY DnsStutterKeeps DEF AskIpns, SysInv
<1>4. Accepted(t) /\ ~ByIprs(t) /\ ~Refused(t)
  BY <1>1 DEF Accepted, ByIpns, ByIprs, Refused
<1>5. UNCHANGED <<call, answer>> /\ lookup'.pc = "wait"
  BY DEF AskIpns, Waiting
<1>6. LookupIsOfTarget'
  BY <1>1, <1>4, <1>5 DEF LookupIsOfTarget
<1> QED
  BY <1>2, <1>3, <1>5, <1>6 DEF SysInv, CallShape, TargetIsKnown, AnswersAreResolvable,
                                IsAnswer

(***************************************************************************)
(* What was found for the target's name becomes the answer for it.         *)
(***************************************************************************)
LEMMA AnswerKeeps ==
    ASSUME SysInv, DnsInv', IpnsInv', call' = call,
           call.pc = "resolve", call.depth # 0,
           Accepted(call.target), ByIprs(call.target) => HasBasePath(call.target),
           ~Refused(call.target),
           NEW v, IsAnswer(v),
           lookup' = Answered(v),
           answer' = [answer EXCEPT ![KeyOf(call.target)] = v]
    PROVE  SysInv'
<1> DEFINE k == KeyOf(call.target)
<1>1. k \in R!Keys
  BY KeyOfTarget DEF SysInv, TargetIsKnown
<1>2. DOMAIN answer = R!Keys /\ \A x \in R!Keys : IsAnswer(answer[x])
  BY DEF SysInv, AnswersAreResolvable
<1>3. DOMAIN answer' = R!Keys /\ answer'[k] = v
      /\ \A x \in R!Keys : answer'[x] = IF x = k THEN v ELSE answer[x]
  BY <1>1, <1>2
<1>4. AnswersAreResolvable'
  BY <1>2, <1>3 DEF AnswersAreResolvable, IsAnswer
<1>5. lookup'.pc = "answered" /\ lookup'.res = v
  BY DEF Answered
<1>6. LookupIsOfTarget'
  BY <1>3, <1>5 DEF LookupIsOfTarget
<1> QED
  BY <1>4, <1>6 DEF SysInv, CallShape, TargetIsKnown

LEMMA AskIprsKeeps == SysInv /\ AskIprs => SysInv'
<1> SUFFICES ASSUME SysInv, AskIprs PROVE SysInv'
  OBVIOUS
<1> DEFINE t == call.target
<1>1. /\ call.pc = "resolve" /\ call.depth # 0 /\ ByIprs(t) /\ HasBasePath(t)
      /\ Accepted(t) /\ call' = call
  BY DEF AskIprs, AtName, ByIprs, Accepted
<1>2. DnsInv' /\ IpnsInv'
  BY DnsStutterKeeps, IpnsStutterKeeps DEF AskIprs, SysInv
<1>3. PICK v : /\ v = None \/ /\ ~Refused(t) /\ v \in IprsValues /\ IsResolvable(v)
               /\ lookup' = Answered(v)
               /\ answer' = IF Refused(t) THEN answer ELSE [answer EXCEPT ![KeyOf(t)] = v]
  BY DEF AskIprs
<1>4. IsAnswer(v)
  BY <1>3 DEF IsAnswer, Values
<1>5. CASE Refused(t)
  <2>1. lookup'.pc = "answered" /\ lookup'.res = None /\ answer' = answer
    BY <1>3, <1>5 DEF Answered
  <2>2. LookupIsOfTarget'
    BY <1>1, <1>5, <2>1 DEF LookupIsOfTarget
  <2> QED
    BY <1>1, <1>2, <2>1, <2>2 DEF SysInv, CallShape, TargetIsKnown, AnswersAreResolvable,
                                  IsAnswer
<1>6. CASE ~Refused(t)
  BY <1>1, <1>2, <1>3, <1>4, <1>6, AnswerKeeps
<1> QED
  BY <1>5, <1>6

LEMMA CacheHitKeeps == SysInv /\ CacheHit => SysInv'
<1> SUFFICES ASSUME SysInv, CacheHit PROVE SysInv'
  OBVIOUS
<1> DEFINE t == call.target
<1>1. DnsInv' /\ IpnsInv'
  BY DnsStutterKeeps, IpnsStutterKeeps DEF CacheHit, SysInv
<1>2. Accepted(t) /\ (ByIprs(t) => HasBasePath(t)) /\ ~Refused(t)
  BY SameAccept, SameParts DEF CacheHit, R!HasKey
<1>3. /\ lookup'.pc = "answered" /\ lookup'.res = answer[KeyOf(t)]
      /\ UNCHANGED <<call, answer>> /\ call.pc = "resolve" /\ call.depth # 0
  BY DEF CacheHit, AtName, Answered
<1>4. LookupIsOfTarget'
  BY <1>2, <1>3 DEF LookupIsOfTarget
<1> QED
  BY <1>1, <1>3, <1>4 DEF SysInv, CallShape, TargetIsKnown, AnswersAreResolvable, IsAnswer

LEMMA GetterReturnedKeeps ==
    ASSUME SysInv, DnsInv', IpnsInv', NEW v, IsAnswer(v), GetterReturned(v) PROVE SysInv'
BY AnswerKeeps DEF GetterReturned, SysInv, LookupIsOfTarget

LEMMA DnsReturnsKeeps == SysInv /\ DnsReturns => SysInv'
<1> SUFFICES ASSUME SysInv, DnsReturns PROVE SysInv'
  OBVIOUS
<1>1. /\ DOMAIN dns' = {"pc", "domain", "val", "seen", "held", "changed", "missed"}
      /\ dns'.pc = "idle" /\ dns'.domain = dns.domain /\ dns'.val = None
      /\ dns'.changed = 0 /\ dns'.missed = {} /\ dns'.held \in [Hosts -> SUBSET AllLists]
      /\ txt' = txt /\ txtWork' = txtWork /\ txtChan' = txtChan
  BY DEF DnsReturns, NoDnsCall
<1>2. DnsShape' /\ DnsTypeOK'
  BY <1>1 DEF SysInv, DnsInv, DnsShape, DnsTypeOK, DnsReturned
<1>2a. AnswersAreHeld'
  BY <1>1 DEF AnswersAreHeld, InDnsCall, FromHeld, Hosts
<1>3. DnsInv'
  BY <1>1, <1>2, <1>2a
     DEF DnsInv, OnlyOkHasValue, AnswersAreOfOneChange, InDnsCall, OneChangeIsAtomic
<1>4. IpnsInv'
  BY IpnsStutterKeeps DEF DnsReturns, SysInv
<1>5. IsAnswer(dns.val)
  BY ReturnedIsResolvable DEF SysInv, DnsInv, DnsTypeOK, IsAnswer, Values
<1> QED
  BY <1>3, <1>4, <1>5, GetterReturnedKeeps DEF DnsReturns

LEMMA IpnsReturnsKeeps == SysInv /\ IpnsReturns => SysInv'
<1> SUFFICES ASSUME SysInv, IpnsReturns PROVE SysInv'
  OBVIOUS
<1>1. /\ DOMAIN ipns' = {"pc", "name", "val", "eol", "got"}
      /\ ipns'.pc = "idle" /\ ipns'.name = ipns.name /\ ipns'.val = None /\ ipns'.got = 0
      /\ ipnsStore' = ipnsStore /\ entry' = entry /\ pubkey' = pubkey
      /\ ipnsWork' = ipnsWork /\ ipnsResp' = ipnsResp
  BY DEF IpnsReturns, NoIpnsCall
<1>2. IpnsShape' /\ IpnsTypeOK'
  BY <1>1 DEF SysInv, IpnsInv, IpnsShape, IpnsTypeOK, IpnsReturned
<1>3. IpnsInv'
  BY <1>1, <1>2 DEF IpnsInv, Counted, SetOrError, OkIsResolvable, IpnsAuthentic, InIpnsCall
<1>4. DnsInv'
  BY DnsStutterKeeps DEF IpnsReturns, SysInv
<1>5. IsAnswer(ipns.val)
  BY DEF SysInv, IpnsInv, OkIsResolvable, EntriesAt, IsAnswer, Values
<1> QED
  BY <1>3, <1>4, <1>5, GetterReturnedKeeps DEF IpnsReturns

LEMMA AfterKeeps == SysInv /\ After => SysInv'
<1> SUFFICES ASSUME SysInv, After PROVE SysInv'
  OBVIOUS
<1>1. DnsInv' /\ IpnsInv'
  BY DnsStutterKeeps, IpnsStutterKeeps DEF After, SysInv
<1>2. answer' = answer /\ lookup'.pc = "ask"
  BY DEF After, NotAsked
<1>3. CallShape' /\ (call'.pc = "resolve" => call'.target = lookup.res /\ lookup.res # None)
  BY DEF After, R!End, SysInv, CallShape
<1>4. lookup.res # None => lookup.res \in Values
  <2> SUFFICES ASSUME lookup.res # None PROVE lookup.res \in Values
    OBVIOUS
  <2>1. ~Refused(call.target) /\ lookup.res = answer[KeyOf(call.target)]
    BY DEF After, SysInv, LookupIsOfTarget
  <2>2. KeyOf(call.target) \in R!Keys
    BY <2>1, KeyOfTarget DEF After, SysInv, LookupIsOfTarget, TargetIsKnown
  <2> QED
    BY <2>1, <2>2 DEF SysInv, AnswersAreResolvable, IsAnswer
<1> QED
  BY <1>1, <1>2, <1>3, <1>4 DEF SysInv, TargetIsKnown, AnswersAreResolvable, IsAnswer,
                                LookupIsOfTarget
LEMMA GetterStepKeeps == SysInv /\ GetterStep => SysInv'
<1> SUFFICES ASSUME SysInv, GetterStep PROVE SysInv'
  OBVIOUS
<1>1. UNCHANGED <<call, lookup, answer>>
  BY DEF GetterStep, callVars
<1>2. CASE DnsCallStep /\ UNCHANGED ipnsVars
  <2>1. DnsNext
    BY <1>2 DEF DnsNext
  <2> QED
    BY <1>1, <1>2, <2>1, DnsNextKeeps, IpnsStutterKeeps, GettersKeep DEF SysInv
<1>3. CASE IpnsCallStep /\ UNCHANGED dnsVars
  <2>1. IpnsNext
    BY <1>3 DEF IpnsNext
  <2> QED
    BY <1>1, <1>3, <2>1, IpnsNextKeeps, DnsStutterKeeps, GettersKeep DEF SysInv
<1> QED
  BY <1>2, <1>3 DEF GetterStep

LEMMA WorkStepKeeps ==
    ASSUME SysInv, (\E h \in Hosts : TxtStep(h)) \/ (\E w \in IpnsFetches : IpnsStep(w))
    PROVE  SysInv'
<1>1. CASE \E h \in Hosts : TxtStep(h)
  <2>1. DnsNext /\ UNCHANGED ipnsVars /\ UNCHANGED <<call, lookup, answer>>
    BY <1>1 DEF TxtStep, DnsNext, callVars
  <2> QED
    BY <2>1, DnsNextKeeps, IpnsStutterKeeps, GettersKeep DEF SysInv
<1>2. CASE \E w \in IpnsFetches : IpnsStep(w)
  <2>1. IpnsNext /\ UNCHANGED dnsVars /\ UNCHANGED <<call, lookup, answer>>
    BY <1>2 DEF IpnsStep, IpnsNext, callVars
  <2> QED
    BY <2>1, IpnsNextKeeps, DnsStutterKeeps, GettersKeep DEF SysInv
<1> QED
  BY <1>1, <1>2

LEMMA ChangeKeeps == SysInv /\ Change => SysInv'
<1> SUFFICES ASSUME SysInv, Change PROVE SysInv'
  OBVIOUS
<1>1. UNCHANGED <<call, lookup, answer>>
  BY DEF Change
<1>2. DnsInv' /\ IpnsInv'
  <2>1. CASE \E d \in Domains, h \in Hosts : \E list \in TxtLists[h] : SetTxt(d, h, list)
             /\ UNCHANGED ipnsVars
    BY <2>1, SetTxtKeeps, IpnsStutterKeeps DEF SysInv
  <2>2. CASE \E n \in IpnsNames : \E e \in EntriesAt(n) \cup {Nil} : PutEntry(n, e)
             /\ UNCHANGED dnsVars
    BY <2>2, PutEntryKeeps, DnsStutterKeeps DEF SysInv
  <2>3. CASE \E k \in IprsKeys, v \in IprsValues \cup {None} : SetIprs(k, v)
    BY <2>3, DnsStutterKeeps, IpnsStutterKeeps DEF SysInv, SetIprs
  <2> QED
    BY <2>1, <2>2, <2>3 DEF Change
<1> QED
  BY <1>1, <1>2, GettersKeep

LEMMA SysNextKeeps == SysInv /\ [Next]_vars => SysInv'
<1> SUFFICES ASSUME SysInv, [Next]_vars PROVE SysInv'
  OBVIOUS
<1>1. CASE CallStep
  BY <1>1, BeforeKeeps, AskDnsKeeps, AskIpnsKeeps, AskIprsKeeps, CacheHitKeeps,
     GetterStepKeeps, DnsReturnsKeeps, IpnsReturnsKeeps, AfterKeeps DEF CallStep
<1>2. CASE (\E h \in Hosts : TxtStep(h)) \/ (\E w \in IpnsFetches : IpnsStep(w))
  BY <1>2, WorkStepKeeps
<1>3. CASE Change
  BY <1>3, ChangeKeeps
<1>4. CASE UNCHANGED vars
  <2>1. UNCHANGED dnsVars /\ UNCHANGED ipnsVars /\ UNCHANGED <<call, lookup, answer>>
    BY <1>4 DEF vars, callVars
  <2> QED
    BY <2>1, DnsStutterKeeps, IpnsStutterKeeps, GettersKeep DEF SysInv
<1> QED
  BY <1>1, <1>2, <1>3, <1>4 DEF Next, Running

(***************************************************************************)
(* The invariant, for any number of lookups and changes.                   *)
(***************************************************************************)
THEOREM SysInvariant == Spec => []SysInv
BY SysInitHolds, SysNextKeeps, PTL DEF Spec

-----------------------------------------------------------------------------
(***************************************************************************)
(* What the resolvers promise holds in the composition.                    *)
(***************************************************************************)

(***************************************************************************)
(* Types of the resolvers' state during a recursive resolution.            *)
(***************************************************************************)
THEOREM SystemTypes == Spec => [](DnsTypeOK /\ IpnsTypeOK)
<1>1. SysInv => DnsTypeOK /\ IpnsTypeOK
  BY DEF SysInv, DnsInv, IpnsInv
<1> QED
  BY <1>1, SysInvariant, PTL

(***************************************************************************)
(* During a recursive resolution as well, what DNS returns is what the     *)
(* domain stood for at one time, if no lookup failed and its records       *)
(* changed once at most (dns.go:68-95).                                    *)
(***************************************************************************)
THEOREM SystemAnswersOfOneTime == Spec => []OneChangeIsAtomic
<1>1. SysInv => OneChangeIsAtomic
  BY DEF SysInv, DnsInv
<1> QED
  BY <1>1, SysInvariant, PTL

(***************************************************************************)
(* During a recursive resolution as well, what DNS returns denotes what a  *)
(* TXT string that one of the domain's hosts held during the lookup says   *)
(* after its "dnslink=" (dns.go:116-145).                                  *)
(***************************************************************************)
THEOREM SystemAnswersAreLinks == Spec => []AnswersDenoteLinks
<1>1. SysInv => AnswersDenoteLinks
  BY ReturnedDenotesLink DEF SysInv
<1> QED
  BY <1>1, SysInvariant, PTL

(***************************************************************************)
(* During a recursive resolution as well, what IPNS returns is read from   *)
(* one entry, whose bytes the holder of the name's key signed, whatever    *)
(* was put there meanwhile; the value and the end of life are the signed   *)
(* ones when the validity is a time in both (ipns.go:111-141).             *)
(***************************************************************************)
THEOREM SystemReturnsSigned == Spec => [](BothAreSet /\ IpnsAuthentic)
<1>1. SysInv => BothAreSet /\ IpnsAuthentic
  BY BothAreSetHolds DEF SysInv, IpnsInv
<1> QED
  BY <1>1, SysInvariant, PTL

-----------------------------------------------------------------------------
(***************************************************************************)
(* The refinement of Resolver.                                             *)
(***************************************************************************)
LEMMA InitRefines == Init => R!Init
<1> SUFFICES ASSUME Init PROVE R!Init
  OBVIOUS
<1>1. answer \in [R!Keys -> Values \cup {R!None}]
  BY SameNone DEF Init
<1> QED
  BY <1>1 DEF Init, R!Init

LEMMA RebindRefines ==
    ASSUME SysInv, NEW v \in Values \cup {None}, UNCHANGED call, call.pc = "resolve",
           Accepted(call.target), ByIprs(call.target) => HasBasePath(call.target),
           ~Refused(call.target),
           answer' = [answer EXCEPT ![KeyOf(call.target)] = v]
    PROVE  R!Next
<1>1. KeyOf(call.target) \in DOMAIN answer
  BY KeyOfTarget DEF SysInv, TargetIsKnown, AnswersAreResolvable
<1>2. R!Rebind(KeyOf(call.target), v)
  BY DEF R!Rebind
<1> QED
  BY <1>1, <1>2, SameNone DEF R!Next

LEMMA AskIprsRefines == SysInv /\ AskIprs => [R!Next]_(R!vars)
<1> SUFFICES ASSUME SysInv, AskIprs PROVE R!Next \/ UNCHANGED <<answer, call>>
  BY DEF R!vars
<1> DEFINE t == call.target
<1>1. /\ call.pc = "resolve" /\ ByIprs(t) /\ HasBasePath(t) /\ Accepted(t) /\ UNCHANGED call
  BY DEF AskIprs, AtName, ByIprs, Accepted
<1>2. PICK v \in IprsValues \cup {None} :
         answer' = IF Refused(t) THEN answer ELSE [answer EXCEPT ![KeyOf(t)] = v]
  BY DEF AskIprs
<1>3. v \in Values \cup {None}
  BY <1>2 DEF Values
<1>4. CASE ~Refused(t)
  BY <1>1, <1>2, <1>3, <1>4, RebindRefines
<1> QED
  BY <1>1, <1>2, <1>4

LEMMA ReturnRefines ==
    ASSUME SysInv, NEW v \in Values \cup {None}, GetterReturned(v) PROVE R!Next
BY RebindRefines DEF GetterReturned, SysInv, LookupIsOfTarget

LEMMA AfterRefines == SysInv /\ After => R!Next
<1> SUFFICES ASSUME SysInv, After PROVE R!Next
  OBVIOUS
<1> DEFINE t == call.target
           found == answer[KeyOf(t)]
<1>1. /\ call.pc = "resolve" /\ call.depth # 0 /\ UNCHANGED answer
      /\ R!Accepted(t) /\ (R!ByIprs(t) => R!HasBasePath(t))
      /\ Refused(t) => lookup.res = None
      /\ ~Refused(t) => lookup.res = found
  BY SameAccept, SameParts DEF After, SysInv, LookupIsOfTarget
<1>2. CASE lookup.res = None
  <2>1. ~R!Bound(t)
    BY <1>1, <1>2, SameParts, SameNone DEF R!Bound
  <2>2. R!End("lookup")
    BY <1>2 DEF After
  <2>3. R!LookupFails
    BY <1>1, <2>1, <2>2 DEF R!LookupFails
  <2> QED
    BY <2>3 DEF R!Next, R!Step
<1>3. CASE lookup.res # None
  <2>1. ~Refused(t) /\ lookup.res = found
    BY <1>1, <1>3
  <2>2. KeyOf(t) \in R!Keys
    BY <2>1, KeyOfTarget DEF After, SysInv, LookupIsOfTarget, TargetIsKnown
  <2>3. IsResolvable(found)
    BY <1>3, <2>1, <2>2 DEF SysInv, AnswersAreResolvable, IsAnswer
  <2>4. R!Bound(t)
    BY <1>3, <2>1, <2>3, SameParts, SameNone, SameAccept DEF R!Bound
  <2>5. /\ call.hops < MaxHops
        /\ call' = [call EXCEPT !.target = answer[R!KeyOf(t)],
                                !.depth = @ - 1,
                                !.apnd = R!appendParts(R!RestOf(t), @),
                                !.hops = @ + 1]
    BY <1>3, <2>1, SameParts, SameAppend DEF After
  <2>6. R!Recurse
    BY <1>1, <2>4, <2>5 DEF R!Recurse
  <2> QED
    BY <2>6 DEF R!Next, R!Step
<1> QED
  BY <1>2, <1>3

LEMMA StepRefines == SysInv /\ [Next]_vars => [R!Next]_(R!vars)
<1> SUFFICES ASSUME SysInv, [Next]_vars PROVE R!Next \/ UNCHANGED <<answer, call>>
  BY DEF R!vars
<1>1. CASE Before
  BY <1>1 DEF Before, R!Next, R!Step
<1>2. CASE AskDns \/ AskIpns \/ CacheHit
  BY <1>2 DEF AskDns, AskIpns, CacheHit
<1>3. CASE AskIprs
  BY <1>3, AskIprsRefines DEF R!vars
<1>4. CASE GetterStep
  BY <1>4 DEF GetterStep, callVars
<1>5. CASE DnsReturns
  <2>1. dns.val \in Values \cup {None}
    BY DEF SysInv, DnsInv, DnsTypeOK, Values
  <2> QED
    BY <1>5, <2>1, ReturnRefines DEF DnsReturns
<1>6. CASE IpnsReturns
  <2>1. ipns.val \in Values \cup {None}
    BY DEF SysInv, IpnsInv, OkIsResolvable, EntriesAt, Values
  <2> QED
    BY <1>6, <2>1, ReturnRefines DEF IpnsReturns
<1>7. CASE After
  BY <1>7, AfterRefines
<1>8. CASE (\E h \in Hosts : TxtStep(h)) \/ (\E w \in IpnsFetches : IpnsStep(w))
  BY <1>8 DEF TxtStep, IpnsStep, callVars
<1>9. CASE Change \/ UNCHANGED vars
  BY <1>9 DEF Change, vars, callVars
<1> QED
  BY <1>1, <1>2, <1>3, <1>4, <1>5, <1>6, <1>7, <1>8, <1>9 DEF Next, Running, CallStep

(***************************************************************************)
(* Resolving with goroutines, channels and shared variables takes only     *)
(* steps that Resolver takes, whose lookups are one step each: the safety  *)
(* part of ImplementsResolver (resolver.go:87-122, dns.go, ipns.go).       *)
(***************************************************************************)
THEOREM StepsAreResolvers == Spec => R!Init /\ [][R!Next]_(R!vars)
BY InitRefines, StepRefines, SysInvariant, PTL DEF Spec
=============================================================================
