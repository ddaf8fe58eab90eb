-------------------------- MODULE DnsResolverProofs --------------------------
(***************************************************************************)
(* Theorems about DnsResolver, for any domains, TXT records and links.     *)
(***************************************************************************)
EXTENDS DnsResolver, SequenceTheorems, WellFoundedInduction, TLAPS

(***************************************************************************)
(* Where the answer of a host's goroutine is: not sent yet, in the channel *)
(* or, of _dnslink only, received and found to be an error.                *)
(***************************************************************************)
Obtained(h, v) ==
    \/ txtWork[h].pc = "answer" /\ txtWork[h].res = v
    \/ txtChan[h] # <<>> /\ Head(txtChan[h]) = v
    \/ h = "sub" /\ dns.pc = "root" /\ v = None

InDnsCall == dns.pc \in {"sub", "root"}

(***************************************************************************)
(* The inductive invariant of OneChangeIsAtomic.  Up to the first change,  *)
(* every answer is what the domain's records say; after it, what they say  *)
(* or what the records before the change said, which differ at one host    *)
(* only.  The domain has stood for what either of the two says.            *)
(***************************************************************************)
AnswersComeFrom(old, new) ==
    \A h \in Hosts \ dns.missed : \A v \in DnsValues \cup {None} :
        Obtained(h, v) => v \in {FirstLink(old[h]), FirstLink(new[h])}

OneChange(old, new) ==
    /\ Effective(old) \in dns.seen /\ Effective(new) \in dns.seen
    /\ dns.changed = 0 => old = new
    /\ \E changed \in Hosts : \A h \in Hosts : h # changed => old[h] = new[h]

AnswersAreOfOneChange ==
    InDnsCall /\ dns.changed <= 1 =>
        \E old \in [Hosts -> AllLists] :
            OneChange(old, txt[dns.domain]) /\ AnswersComeFrom(old, txt[dns.domain])

DnsShape ==
    /\ DOMAIN dns = {"pc", "domain", "val", "seen", "held", "changed", "missed"}
    /\ dns.changed \in Nat
    /\ dns.missed \subseteq Hosts
    /\ dns.held \in [Hosts -> SUBSET AllLists]
    /\ txt \in [Domains -> [Hosts -> AllLists]]
    /\ DOMAIN txtWork = Hosts
    /\ \A h \in Hosts : DOMAIN txtWork[h] = {"pc", "res"}
    /\ DOMAIN txtChan = Hosts
    /\ \A h \in Hosts : txtWork[h].pc = "lookup" => txtWork[h].res = None
    /\ \A h \in Hosts : txtWork[h].pc # "off" => dns.domain \in Domains

(***************************************************************************)
(* The inductive invariant of AnswersDenoteLinks: every answer comes from  *)
(* a list that its host held during the call, whatever changes.            *)
(***************************************************************************)
FromHeld(h, v) == v = None \/ \E list \in dns.held[h] : v = FirstLink(list)

AnswersAreHeld ==
    /\ InDnsCall => \A h \in Hosts : txt[dns.domain][h] \in dns.held[h]
    /\ InDnsCall => \A h \in Hosts : \A v \in DnsValues \cup {None} :
                        Obtained(h, v) => FromHeld(h, v)
    /\ \E h \in Hosts : FromHeld(h, dns.val)

OnlyOkHasValue == dns.pc = "ok" <=> dns.val # None

DnsInv ==
    /\ DnsShape
    /\ DnsTypeOK
    /\ OnlyOkHasValue
    /\ AnswersAreHeld
    /\ AnswersAreOfOneChange
    /\ OneChangeIsAtomic

(***************************************************************************)
(* What workDomain answers with is one of the strings, parsed, and passes  *)
(* IsResolvable.                                                           *)
(***************************************************************************)
LEMMA ParsedIsResolvable ==
    ASSUME NEW t, parseEntry(t) # None PROVE IsResolvable(parseEntry(t))
<1>1. CASE ParsesCidToPath(t)
  <2> DEFINE p == <<"", "ipfs", t[1]>>
  <2>1. parseEntry(t) = p /\ t[1] \in CidParts
    BY <1>1 DEF parseEntry, ParsesCidToPath
  <2>2. Len(p) = 3 /\ p[1] = "" /\ p[2] = "ipfs" /\ p[3] = t[1]
    OBVIOUS
  <2>3. Len(p) > 2
    BY <2>2
  <2>4. ParsesIpfs(p)
    BY <2>1, <2>2, <2>3, Zenon DEF ParsesIpfs
  <2> QED
    BY <2>1, <2>4 DEF IsResolvable, Parses
<1>2. CASE ~ParsesCidToPath(t) /\ IsResolvable(t)
  BY <1>2 DEF parseEntry
<1>3. CASE ~ParsesCidToPath(t) /\ ~IsResolvable(t)
  BY <1>3 DEF parseEntry, tryParseDnsLink
<1> QED
  BY <1>1, <1>2, <1>3

LEMMA FirstLinkIsOfAString ==
    ASSUME NEW list \in AllLists, FirstLink(list) # None
    PROVE  \E i \in DOMAIN list :
             parseEntry(list[i]) # None /\ FirstLink(list) = parseEntry(list[i])
<1> DEFINE parsed == {i \in DOMAIN list : parseEntry(list[i]) # None}
           less == {ss \in Nat \X Nat : ss[1] < ss[2]}
           first == CHOOSE i \in parsed : \A j \in parsed : i <= j
<1>1. parsed # {} /\ FirstLink(list) = parseEntry(list[first])
  BY DEF FirstLink
<1>2. parsed \subseteq Nat
  BY TxtAssumption
<1>3. \E i \in parsed : \A j \in parsed : ~(<<j, i>> \in less)
  <2>1. IsWellFoundedOn(less, Nat)
    BY NatLessThanWellFounded DEF OpToRel
  <2> HIDE DEF parsed, less
  <2> QED
    BY <1>1, <1>2, <2>1, WFMin
<1>4. \E i \in parsed : \A j \in parsed : i <= j
  <2> HIDE DEF parsed
  <2>1. PICK i \in parsed : \A j \in parsed : ~(<<j, i>> \in less)
    BY <1>3
  <2>2. \A j \in parsed : i \in Nat /\ j \in Nat /\ ~(j < i)
    BY <1>2, <2>1
  <2> QED
    BY <2>2
<1>5. first \in parsed
  <2> HIDE DEF parsed
  <2> QED
    BY <1>4
<1> QED
  BY <1>1, <1>5

LEMMA FirstLinkIsResolvable ==
    ASSUME NEW list \in AllLists, FirstLink(list) # None
    PROVE  IsResolvable(FirstLink(list))
BY FirstLinkIsOfAString, ParsedIsResolvable

(***************************************************************************)
(* What a string says after its "dnslink=", or all of it, is resolvable    *)
(* and denotes the same as what it was parsed to.                          *)
(***************************************************************************)
Link(t) == IF t \in DOMAIN LinkIn THEN LinkIn[t] ELSE t

SameLink(t, u) == IsResolvable(t) /\ Denotes(t) = Denotes(u)

LEMMA CidLink ==
    ASSUME NEW t, ParsesCidToPath(t)
    PROVE  Link(t) = t /\ SameLink(t, <<"", "ipfs", t[1]>>)
<1> DEFINE p == <<"", "ipfs", t[1]>>
<1>1. /\ Len(t) = 1 /\ t[1] \in CidParts /\ t[1] \notin DomainParts
      /\ Len(p) = 3 /\ p[1] = "" /\ p[2] = "ipfs" /\ p[3] = t[1]
  BY PartsAssumption DEF ParsesCidToPath
<1> HIDE DEF p
<1>2. t \notin DOMAIN LinkIn
  BY <1>1, LinkAssumption
<1>3. /\ ~(Len(t) > 2) /\ ~(Len(t) >= 3) /\ ~(Len(t) >= 4)
      /\ Len(p) > 2 /\ Len(p) # 1 /\ ~(Len(p) >= 4)
  <2>1. Len(t) = 1 /\ Len(p) = 3
    BY <1>1
  <2> QED
    BY <2>1
<1>4. ~Accepted(t) /\ ~Accepted(p)
  <2>1. ~AcceptsDns(t) /\ ~AcceptsIprs(t) /\ ~AcceptsIpns(t)
    BY <1>3, Zenon DEF AcceptsDns, AcceptsIprs, AcceptsIpns
  <2>2. ~AcceptsDns(p) /\ ~AcceptsIprs(p) /\ ~AcceptsIpns(p)
    BY <1>1, <1>3 DEF AcceptsDns, AcceptsIprs, AcceptsIpns
  <2> QED
    BY <2>1, <2>2 DEF Accepted
<1>5. IsResolvable(t)
  BY <1>1 DEF IsResolvable, Parses, ParsesCid
<1>6. ParsesIpfs(p) /\ ~ParsesRaw(p) /\ ~ParsesIpfs(t)
  BY <1>1, <1>3, Zenon DEF ParsesIpfs, ParsesRaw
<1>7. TargetCid(t) = CidIn[t[1]] /\ TargetCid(p) = CidIn[t[1]]
  BY <1>1, <1>6, Zenon DEF TargetCid
<1>8. TargetRest(t) = <<>> /\ TargetRest(p) = <<>>
  <2>1. SubSeq(t, 2, 1) = <<>> /\ SubSeq(p, 4, 3) = <<>>
    BY SubSeqEmpty
  <2> QED
    BY <1>1, <1>6, <2>1, Zenon DEF TargetRest, From
<1>9. Denotes(t) = Denotes(p)
  BY <1>4, <1>7, <1>8 DEF Denotes
<1> QED
  BY <1>2, <1>5, <1>9 DEF Link, SameLink, p

\* A string that is accepted with its "dnslink=" is by a part after it.
LEMMA LinkAcceptedWhole ==
    ASSUME NEW t \in DOMAIN LinkIn, IsPath(t), IsResolvable(t)
    PROVE  SameLink(LinkIn[t], t)
<1> DEFINE u == LinkIn[t]
<1>1. /\ t # <<>> /\ IsPath(u) /\ Len(u) = Len(t) /\ \A i \in 2..Len(t) : u[i] = t[i]
      /\ t[1] \notin {""} \cup CidParts \cup RawParts
  BY LinkAssumption
<1> HIDE DEF u
<1>2. AcceptsDns(t) \/ AcceptsIpns(t)
  BY <1>1 DEF IsResolvable, Parses, ParsesRaw, ParsesIpfs, ParsesCid, Accepted, AcceptsIprs
<1>3. Len(t) \in Nat /\ Len(t) >= 3 /\ u[2] = t[2] /\ u[3] = t[3]
  <2>1. Len(t) \in Nat
    BY LenProperties DEF IsPath
  <2>2. Len(t) >= 3
    BY <1>2, <2>1 DEF AcceptsDns, AcceptsIpns
  <2>3. 2 \in 2..Len(t) /\ 3 \in 2..Len(t)
    BY <2>1, <2>2
  <2> QED
    BY <1>1, <2>1, <2>2, <2>3
<1>4. ~ByIprs(t) /\ ~ByIprs(u)
  BY <1>1, <1>2, <1>3 DEF ByIprs, AcceptsIprs, AcceptsDns, AcceptsIpns
<1>5. Accepted(t) /\ Accepted(u) /\ (ByDns(t) <=> ByDns(u))
  BY <1>1, <1>2, <1>3 DEF Accepted, ByDns, AcceptsDns, AcceptsIpns
<1>6. KeyOf(t) = KeyOf(u)
  BY <1>3, <1>4, <1>5, Zenon DEF KeyOf
<1>7. From(t, 4) = From(u, 4)
  <2> DEFINE n == Len(t)
             S == {t[i] : i \in DOMAIN t} \cup {u[i] : i \in DOMAIN u}
  <2>1. t \in Seq(S) /\ u \in Seq(S)
    BY <1>1, SeqMonotonic DEF IsPath
  <2>2. \A i \in 4..n : t[i] \in S /\ u[i] \in S
    <3> SUFFICES ASSUME NEW i \in 4..n PROVE t[i] \in S /\ u[i] \in S
      OBVIOUS
    <3>1. i \in 1..Len(t)
      BY <1>3
    <3>2. i \in 1..Len(u)
      BY <1>1, <3>1, Zenon
    <3> QED
      BY <2>1, <3>1, <3>2, ElementOfSeq
  <2> HIDE DEF S
  <2>3. /\ SubSeq(t, 4, n) \in Seq(S)
        /\ Len(SubSeq(t, 4, n)) = IF 4 <= n THEN n - 3 ELSE 0
        /\ \A i \in 1 .. n - 3 : SubSeq(t, 4, n)[i] = t[i + 3]
    BY <1>3, <2>2, SubSeqProperties
  <2>4. /\ SubSeq(u, 4, n) \in Seq(S)
        /\ Len(SubSeq(u, 4, n)) = IF 4 <= n THEN n - 3 ELSE 0
        /\ \A i \in 1 .. n - 3 : SubSeq(u, 4, n)[i] = u[i + 3]
    BY <1>3, <2>2, SubSeqProperties
  <2>5. \A i \in 1 .. n - 3 : u[i + 3] = t[i + 3]
    <3> SUFFICES ASSUME NEW i \in 1 .. n - 3 PROVE u[i + 3] = t[i + 3]
      OBVIOUS
    <3>1. i + 3 \in 2..Len(t)
      BY <1>3
    <3> QED
      BY <1>1, <3>1
  <2>6. SubSeq(t, 4, n) = SubSeq(u, 4, n)
    BY <1>3, <2>3, <2>4, <2>5, SeqEqual
  <2> QED
    BY <1>1, <2>6 DEF From
<1>8. Denotes(u) = Denotes(t)
  BY <1>4, <1>5, <1>6, <1>7 DEF Denotes, RestOf
<1> QED
  BY <1>5, <1>8 DEF SameLink, IsResolvable, u

LEMMA ParsedDenotesLink ==
    ASSUME NEW t, IsPath(t), parseEntry(t) # None
    PROVE  SameLink(Link(t), parseEntry(t))
<1>1. CASE ParsesCidToPath(t)
  BY <1>1, CidLink DEF parseEntry
<1>2. CASE ~ParsesCidToPath(t) /\ IsResolvable(t)
  <2>1. CASE t \in DOMAIN LinkIn
    BY <1>2, <2>1, LinkAcceptedWhole DEF parseEntry, Link
  <2>2. CASE t \notin DOMAIN LinkIn
    BY <1>2, <2>2 DEF parseEntry, Link, SameLink
  <2> QED
    BY <2>1, <2>2
<1>3. CASE ~ParsesCidToPath(t) /\ ~IsResolvable(t)
  BY <1>3 DEF parseEntry, tryParseDnsLink, Link, SameLink
<1> QED
  BY <1>1, <1>2, <1>3

LEMMA ListsOfHost ==
    ASSUME NEW h \in Hosts, NEW list \in TxtLists[h]
    PROVE  list \in AllLists /\ FirstLink(list) \in DnsValues
BY DEF AllLists, DnsValues

LEMMA DnsInitHolds == DnsInit => DnsInv
<1> SUFFICES ASSUME DnsInit PROVE DnsInv
  OBVIOUS
<1>1. /\ DOMAIN dns = {"pc", "domain", "val", "seen", "held", "changed", "missed"}
      /\ dns.pc = "idle" /\ dns.val = None /\ dns.changed = 0 /\ dns.missed = {}
      /\ dns.held \in [Hosts -> SUBSET AllLists]
  BY DEF DnsInit, NoDnsCall
<1>2. /\ txt \in [Domains -> [Hosts -> AllLists]]
      /\ \A d \in Domains : \A h \in Hosts : txt[d][h] \in TxtLists[h]
  BY DEF DnsInit
<1>3. /\ DOMAIN txtWork = Hosts /\ DOMAIN txtChan = Hosts
      /\ \A h \in Hosts : /\ DOMAIN txtWork[h] = {"pc", "res"} /\ txtWork[h].pc = "off"
                          /\ txtWork[h].res = None /\ txtChan[h] = <<>>
  BY DEF DnsInit, Silent
<1>4. DnsShape
  BY <1>1, <1>2, <1>3 DEF DnsShape
<1>5. DnsTypeOK
  BY <1>1, <1>2, <1>3 DEF DnsTypeOK, DnsReturned
<1>6. AnswersAreHeld
  BY <1>1 DEF AnswersAreHeld, InDnsCall, FromHeld, Hosts
<1> QED
  BY <1>1, <1>4, <1>5, <1>6 DEF DnsInv, OnlyOkHasValue, AnswersAreOfOneChange, InDnsCall,
                                OneChangeIsAtomic

LEMMA DnsGetValueKeeps ==
    ASSUME DnsInv, NEW d \in Domains, DnsGetValue(d) PROVE DnsInv'
<1>1. /\ DOMAIN dns' = {"pc", "domain", "val", "seen", "held", "changed", "missed"}
      /\ dns'.pc = "sub" /\ dns'.domain = d /\ dns'.val = None
      /\ dns'.seen = {Effective(txt[d])} /\ dns'.changed = 0 /\ dns'.missed = {}
      /\ dns'.held = [h \in Hosts |-> {txt[d][h]}]
  BY DEF DnsGetValue, NoDnsCall
<1>2. txt' = txt /\ txt[d] \in [Hosts -> AllLists]
  BY DEF DnsGetValue, DnsInv, DnsShape
<1>3. /\ DOMAIN txtWork' = Hosts /\ DOMAIN txtChan' = Hosts
      /\ \A h \in Hosts : /\ DOMAIN txtWork'[h] = {"pc", "res"} /\ txtWork'[h].pc = "lookup"
                          /\ txtWork'[h].res = None /\ txtChan'[h] = <<>>
  BY DEF DnsGetValue
<1>4. DnsShape'
  BY <1>1, <1>2, <1>3 DEF DnsInv, DnsShape
<1>5. DnsTypeOK'
  BY <1>1, <1>2, <1>3 DEF DnsInv, DnsTypeOK
<1>6. AnswersAreOfOneChange'
  <2>1. OneChange(txt[d], txt[d])'
    BY <1>1, <1>2 DEF OneChange, Effective, Hosts
  <2>2. AnswersComeFrom(txt[d], txt[d])'
    BY <1>1, <1>3 DEF AnswersComeFrom, Obtained
  <2> QED
    BY <1>1, <1>2, <2>1, <2>2 DEF AnswersAreOfOneChange
<1>7. AnswersAreHeld'
  BY <1>1, <1>2, <1>3 DEF AnswersAreHeld, FromHeld, Obtained, Hosts
<1> QED
  BY <1>1, <1>4, <1>5, <1>6, <1>7 DEF DnsInv, OnlyOkHasValue, OneChangeIsAtomic

(***************************************************************************)
(* A step of a goroutine leaves the records and what the call knows of     *)
(* them alone, and if every answer it adds is what the records say, the    *)
(* answers are still of one change.                                        *)
(***************************************************************************)
LEMMA GoroutineKeeps ==
    ASSUME DnsInv, txt' = txt,
           dns'.pc = dns.pc, dns'.domain = dns.domain, dns'.seen = dns.seen,
           dns'.changed = dns.changed, dns.missed \subseteq dns'.missed,
           InDnsCall =>
             \A h \in Hosts \ dns'.missed : \A v \in DnsValues \cup {None} :
               Obtained(h, v)' => Obtained(h, v) \/ v = FirstLink(txt[dns.domain][h])
    PROVE  AnswersAreOfOneChange'
<1> SUFFICES ASSUME InDnsCall, dns.changed <= 1
             PROVE  \E old \in [Hosts -> AllLists] :
                      /\ OneChange(old, txt[dns.domain])'
                      /\ AnswersComeFrom(old, txt[dns.domain])'
  BY DEF AnswersAreOfOneChange, InDnsCall
<1>1. PICK old \in [Hosts -> AllLists] :
        OneChange(old, txt[dns.domain]) /\ AnswersComeFrom(old, txt[dns.domain])
  BY DEF DnsInv, AnswersAreOfOneChange
<1>2. OneChange(old, txt[dns.domain])'
  BY <1>1 DEF OneChange, Effective
<1>3. AnswersComeFrom(old, txt[dns.domain])'
  <2> SUFFICES ASSUME NEW h \in Hosts \ dns'.missed, NEW v \in DnsValues \cup {None},
                      Obtained(h, v)'
               PROVE  v \in {FirstLink(old[h]), FirstLink(txt[dns.domain][h])}
    BY DEF AnswersComeFrom
  <2>1. Obtained(h, v) \/ v = FirstLink(txt[dns.domain][h])
    OBVIOUS
  <2> QED
    BY <1>1, <2>1 DEF AnswersComeFrom
<1> QED
  BY <1>2, <1>3

(***************************************************************************)
(* So are the answers of lists that the hosts held, if every answer a step *)
(* adds is an error or what the records say, and what it returns is held.  *)
(***************************************************************************)
LEMMA HeldKeeps ==
    ASSUME DnsInv, txt' = txt, dns'.held = dns.held, dns'.domain = dns.domain,
           InDnsCall' => InDnsCall,
           \E h \in Hosts : FromHeld(h, dns'.val),
           InDnsCall =>
             \A h \in Hosts : \A v \in DnsValues \cup {None} :
               Obtained(h, v)' =>
                 Obtained(h, v) \/ v = None \/ v = FirstLink(txt[dns.domain][h])
    PROVE  AnswersAreHeld'
<1>1. AnswersAreHeld
  BY DEF DnsInv
<1>2. (\E h \in Hosts : FromHeld(h, dns.val))'
  BY DEF FromHeld
<1>3. (InDnsCall => \A h \in Hosts : txt[dns.domain][h] \in dns.held[h])'
  BY <1>1 DEF AnswersAreHeld
<1>4. ASSUME InDnsCall', NEW h \in Hosts, NEW v \in DnsValues \cup {None}, Obtained(h, v)'
      PROVE  FromHeld(h, v)'
  <2>1. Obtained(h, v) \/ v = None \/ v = FirstLink(txt[dns.domain][h])
    BY <1>4
  <2> QED
    BY <1>1, <1>4, <2>1 DEF AnswersAreHeld, FromHeld
<1> QED
  BY <1>2, <1>3, <1>4 DEF AnswersAreHeld

LEMMA LookupTxtKeeps ==
    ASSUME DnsInv, NEW h \in Hosts, LookupTxt(h) PROVE DnsInv'
<1> DEFINE v == FirstLink(txt[dns.domain][h])
<1>1. dns.domain \in Domains /\ txt[dns.domain][h] \in TxtLists[h]
  BY DEF LookupTxt, DnsInv, DnsShape, DnsTypeOK
<1>2. v \in DnsValues
  BY <1>1, ListsOfHost
<1>3. /\ txt' = txt /\ dns' = dns /\ txtChan' = txtChan
      /\ DOMAIN txtWork' = Hosts /\ txtWork'[h] = [pc |-> "answer", res |-> v]
      /\ \A g \in Hosts \ {h} : txtWork'[g] = txtWork[g]
  BY DEF LookupTxt, DnsInv, DnsShape
<1> HIDE DEF v
<1>4. DnsShape' /\ DnsTypeOK'
  BY <1>1, <1>2, <1>3 DEF DnsInv, DnsShape, DnsTypeOK
<1>5. \A g \in Hosts : \A u \in DnsValues \cup {None} :
         Obtained(g, u)' => Obtained(g, u) \/ (g = h /\ u = v)
  BY <1>3 DEF Obtained
<1>6. AnswersAreOfOneChange'
  BY <1>3, <1>5, GoroutineKeeps DEF v
<1>7. AnswersAreHeld'
  <2>1. \E g \in Hosts : FromHeld(g, dns'.val)
    BY <1>3 DEF DnsInv, AnswersAreHeld
  <2> QED
    BY <1>3, <1>5, <2>1, HeldKeeps DEF v, InDnsCall
<1> QED
  BY <1>3, <1>4, <1>6, <1>7 DEF DnsInv, OnlyOkHasValue, OneChangeIsAtomic

LEMMA LookupTxtFailsKeeps ==
    ASSUME DnsInv, NEW h \in Hosts, LookupTxtFails(h) PROVE DnsInv'
<1>1. /\ txt' = txt /\ txtChan' = txtChan
      /\ DOMAIN txtWork' = Hosts /\ txtWork'[h] = [pc |-> "answer", res |-> None]
      /\ \A g \in Hosts \ {h} : txtWork'[g] = txtWork[g]
  BY DEF LookupTxtFails, DnsInv, DnsShape
<1>2. /\ DOMAIN dns' = DOMAIN dns /\ dns'.pc = dns.pc /\ dns'.domain = dns.domain
      /\ dns'.val = dns.val /\ dns'.seen = dns.seen /\ dns'.changed = dns.changed
      /\ dns'.held = dns.held
      /\ dns'.missed = IF dns.pc \in DnsReturned THEN dns.missed ELSE dns.missed \cup {h}
  BY DEF LookupTxtFails, DnsInv, DnsShape
<1>3. DnsShape' /\ DnsTypeOK'
  BY <1>1, <1>2 DEF DnsInv, DnsShape, DnsTypeOK, LookupTxtFails
<1>4. \A g \in Hosts \ {h} : \A u \in DnsValues \cup {None} : Obtained(g, u)' => Obtained(g, u)
  BY <1>1, <1>2 DEF Obtained
<1>5. AnswersAreOfOneChange'
  BY <1>1, <1>2, <1>4, GoroutineKeeps DEF InDnsCall, DnsReturned
<1>6. AnswersAreHeld'
  <2>1. \A u \in DnsValues \cup {None} : Obtained(h, u)' => Obtained(h, u) \/ u = None
    BY <1>1, <1>2 DEF Obtained
  <2>2. \E g \in Hosts : FromHeld(g, dns'.val)
    BY <1>2 DEF DnsInv, AnswersAreHeld
  <2> QED
    BY <1>1, <1>2, <1>4, <2>1, <2>2, HeldKeeps DEF InDnsCall
<1> QED
  BY <1>2, <1>3, <1>5, <1>6 DEF DnsInv, OnlyOkHasValue, OneChangeIsAtomic, DnsReturned

LEMMA AnswerTxtKeeps ==
    ASSUME DnsInv, NEW h \in Hosts, AnswerTxt(h) PROVE DnsInv'
<1>1. /\ txt' = txt /\ dns' = dns
      /\ txtWork[h].pc = "answer" /\ txtChan[h] = <<>>
      /\ DOMAIN txtWork' = Hosts /\ txtWork'[h] = Silent
      /\ DOMAIN txtChan' = Hosts /\ txtChan'[h] = <<txtWork[h].res>>
      /\ \A g \in Hosts \ {h} : txtWork'[g] = txtWork[g] /\ txtChan'[g] = txtChan[g]
  BY DEF AnswerTxt, HasRoom, DnsInv, DnsShape
<1>2. DnsShape' /\ DnsTypeOK'
  BY <1>1 DEF DnsInv, DnsShape, DnsTypeOK, Silent
<1>3. \A g \in Hosts : \A u \in DnsValues \cup {None} : Obtained(g, u)' => Obtained(g, u)
  BY <1>1 DEF Obtained, Silent
<1>4. AnswersAreOfOneChange'
  BY <1>1, <1>3, GoroutineKeeps
<1>5. AnswersAreHeld'
  <2>1. \E g \in Hosts : FromHeld(g, dns'.val)
    BY <1>1 DEF DnsInv, AnswersAreHeld
  <2> QED
    BY <1>1, <1>3, <2>1, HeldKeeps DEF InDnsCall
<1> QED
  BY <1>1, <1>2, <1>4, <1>5 DEF DnsInv, OnlyOkHasValue, OneChangeIsAtomic

(***************************************************************************)
(* Records that differ at one host only, and an answer of each host from   *)
(* either of them: what the call makes of the answers is what one of the   *)
(* records stands for.                                                     *)
(***************************************************************************)
LEMMA SubAnswerIsEffective ==
    ASSUME NEW old, NEW new, NEW v,
           v # None, v \in {FirstLink(old["sub"]), FirstLink(new["sub"])}
    PROVE  v \in {Effective(old), Effective(new)}
BY DEF Effective

LEMMA RootAnswerIsEffective ==
    ASSUME NEW old, NEW new, NEW v,
           None \in {FirstLink(old["sub"]), FirstLink(new["sub"])},
           v \in {FirstLink(old["root"]), FirstLink(new["root"])},
           \E changed \in Hosts : \A h \in Hosts : h # changed => old[h] = new[h]
    PROVE  v \in {Effective(old), Effective(new)}
<1>1. CASE old["sub"] = new["sub"]
  BY <1>1 DEF Effective
<1>2. CASE old["root"] = new["root"]
  BY <1>2 DEF Effective
<1> QED
  BY <1>1, <1>2 DEF Hosts

LEMMA ReceiveSubKeeps == DnsInv /\ ReceiveSub => DnsInv'
<1> SUFFICES ASSUME DnsInv, ReceiveSub PROVE DnsInv'
  OBVIOUS
<1> DEFINE v == Head(txtChan["sub"])
<1>1. /\ txt' = txt /\ txtWork' = txtWork /\ dns.pc = "sub" /\ "sub" \in Hosts
      /\ txtChan["sub"] # <<>> /\ v \in DnsValues \cup {None}
      /\ DOMAIN txtChan' = Hosts /\ txtChan'["sub"] = <<>>
      /\ \A g \in Hosts \ {"sub"} : txtChan'[g] = txtChan[g]
  <2>1. txt' = txt /\ txtWork' = txtWork /\ dns.pc = "sub" /\ txtChan["sub"] # <<>>
    BY DEF ReceiveSub
  <2>2. "sub" \in Hosts
    BY DEF Hosts
  <2>3. PICK u \in DnsValues \cup {None} : txtChan["sub"] = <<u>>
    BY <2>1, <2>2 DEF DnsInv, DnsTypeOK
  <2>4. v = u
    BY <2>3
  <2>5. txtChan' = [txtChan EXCEPT !["sub"] = <<>>]
    BY <2>3 DEF ReceiveSub
  <2> QED
    BY <2>1, <2>2, <2>4, <2>5 DEF DnsInv, DnsShape
<1>2. Obtained("sub", v)
  BY <1>1 DEF Obtained
<1>3. /\ DOMAIN dns' = DOMAIN dns /\ dns'.domain = dns.domain /\ dns'.seen = dns.seen
      /\ dns'.changed = dns.changed /\ dns'.missed = dns.missed /\ dns'.held = dns.held
      /\ dns'.pc = IF v # None THEN "ok" ELSE "root"
      /\ dns'.val = IF v # None THEN v ELSE dns.val
  BY DEF ReceiveSub, DnsReturn, DnsInv, DnsShape
<1> HIDE DEF v
<1>4. DnsShape' /\ DnsTypeOK'
  BY <1>1, <1>3 DEF DnsInv, DnsShape, DnsTypeOK, DnsReturned
<1>5. OnlyOkHasValue'
  BY <1>1, <1>3 DEF DnsInv, OnlyOkHasValue
<1>6. AnswersAreOfOneChange'
  <2> SUFFICES ASSUME v = None, dns.changed <= 1
               PROVE  \E old \in [Hosts -> AllLists] :
                        /\ OneChange(old, txt[dns.domain])'
                        /\ AnswersComeFrom(old, txt[dns.domain])'
    BY <1>3 DEF AnswersAreOfOneChange, InDnsCall
  <2>1. PICK old \in [Hosts -> AllLists] :
          OneChange(old, txt[dns.domain]) /\ AnswersComeFrom(old, txt[dns.domain])
    BY <1>1 DEF DnsInv, AnswersAreOfOneChange, InDnsCall
  <2>2. OneChange(old, txt[dns.domain])'
    BY <1>1, <1>3, <2>1 DEF OneChange, Effective
  <2>3. \A g \in Hosts : \A u \in DnsValues \cup {None} : Obtained(g, u)' => Obtained(g, u)
    BY <1>1, <1>2, <1>3 DEF Obtained
  <2>4. AnswersComeFrom(old, txt[dns.domain])'
    BY <1>1, <1>3, <2>1, <2>3 DEF AnswersComeFrom
  <2> QED
    BY <2>2, <2>4
<1>7. OneChangeIsAtomic'
  <2> SUFFICES ASSUME v # None, dns.changed <= 1, dns.missed = {} PROVE v \in dns.seen
    BY <1>3 DEF OneChangeIsAtomic
  <2>1. PICK old \in [Hosts -> AllLists] :
          OneChange(old, txt[dns.domain]) /\ AnswersComeFrom(old, txt[dns.domain])
    BY <1>1 DEF DnsInv, AnswersAreOfOneChange, InDnsCall
  <2>2. v \in {FirstLink(old["sub"]), FirstLink(txt[dns.domain]["sub"])}
    BY <1>1, <1>2, <2>1 DEF AnswersComeFrom
  <2> QED
    BY <2>1, <2>2, SubAnswerIsEffective DEF OneChange
<1>8. AnswersAreHeld'
  <2>1. \E g \in Hosts : FromHeld(g, dns'.val)
    BY <1>1, <1>2, <1>3 DEF DnsInv, AnswersAreHeld, InDnsCall
  <2>2. \A g \in Hosts : \A u \in DnsValues \cup {None} :
          Obtained(g, u)' => Obtained(g, u) \/ u = None
    BY <1>1, <1>3 DEF Obtained
  <2> QED
    BY <1>1, <1>3, <2>1, <2>2, HeldKeeps DEF InDnsCall
<1> QED
  BY <1>4, <1>5, <1>6, <1>7, <1>8 DEF DnsInv

LEMMA ReceiveRootKeeps == DnsInv /\ ReceiveRoot => DnsInv'
<1> SUFFICES ASSUME DnsInv, ReceiveRoot PROVE DnsInv'
  OBVIOUS
<1> DEFINE v == Head(txtChan["root"])
<1>1. /\ txt' = txt /\ txtWork' = txtWork /\ dns.pc = "root" /\ "root" \in Hosts
      /\ txtChan["root"] # <<>> /\ v \in DnsValues \cup {None}
      /\ DOMAIN txtChan' = Hosts /\ txtChan'["root"] = <<>>
      /\ \A g \in Hosts \ {"root"} : txtChan'[g] = txtChan[g]
  <2>1. txt' = txt /\ txtWork' = txtWork /\ dns.pc = "root" /\ txtChan["root"] # <<>>
    BY DEF ReceiveRoot
  <2>2. "root" \in Hosts
    BY DEF Hosts
  <2>3. PICK u \in DnsValues \cup {None} : txtChan["root"] = <<u>>
    BY <2>1, <2>2 DEF DnsInv, DnsTypeOK
  <2>4. v = u
    BY <2>3
  <2>5. txtChan' = [txtChan EXCEPT !["root"] = <<>>]
    BY <2>3 DEF ReceiveRoot
  <2> QED
    BY <2>1, <2>2, <2>4, <2>5 DEF DnsInv, DnsShape
<1>2. Obtained("root", v) /\ Obtained("sub", None)
  BY <1>1 DEF Obtained
<1>3. /\ DOMAIN dns' = DOMAIN dns /\ dns'.domain = dns.domain /\ dns'.seen = dns.seen
      /\ dns'.changed = dns.changed /\ dns'.missed = dns.missed /\ dns'.held = dns.held
      /\ dns'.pc = IF v # None THEN "ok" ELSE "failed"
      /\ dns'.val = v
  BY DEF ReceiveRoot, DnsReturn, DnsInv, DnsShape
<1> HIDE DEF v
<1>4. DnsShape' /\ DnsTypeOK'
  BY <1>1, <1>3 DEF DnsInv, DnsShape, DnsTypeOK, DnsReturned
<1>5. OnlyOkHasValue' /\ AnswersAreOfOneChange'
  BY <1>3 DEF OnlyOkHasValue, AnswersAreOfOneChange, InDnsCall
<1>6. OneChangeIsAtomic'
  <2> SUFFICES ASSUME dns.changed <= 1, dns.missed = {} PROVE v \in dns.seen
    BY <1>3 DEF OneChangeIsAtomic
  <2>1. PICK old \in [Hosts -> AllLists] :
          OneChange(old, txt[dns.domain]) /\ AnswersComeFrom(old, txt[dns.domain])
    BY <1>1 DEF DnsInv, AnswersAreOfOneChange, InDnsCall
  <2>2. /\ None \in {FirstLink(old["sub"]), FirstLink(txt[dns.domain]["sub"])}
        /\ v \in {FirstLink(old["root"]), FirstLink(txt[dns.domain]["root"])}
    <3>1. "sub" \in Hosts \ dns.missed /\ "root" \in Hosts \ dns.missed
      BY DEF Hosts
    <3> QED
      BY <1>1, <1>2, <2>1, <3>1 DEF AnswersComeFrom
  <2> QED
    <3>1. \E changed \in Hosts : \A h \in Hosts : h # changed => old[h] = txt[dns.domain][h]
      BY <2>1 DEF OneChange
    <3>2. v \in {Effective(old), Effective(txt[dns.domain])}
      <4> DEFINE new == txt[dns.domain]
      <4>1. /\ None \in {FirstLink(old["sub"]), FirstLink(new["sub"])}
            /\ v \in {FirstLink(old["root"]), FirstLink(new["root"])}
            /\ \E changed \in Hosts : \A h \in Hosts : h # changed => old[h] = new[h]
        BY <2>2, <3>1
      <4> HIDE DEF new
      <4>2. v \in {Effective(old), Effective(new)}
        BY <4>1, RootAnswerIsEffective
      <4> QED
        BY <4>2 DEF new
    <3> QED
      BY <2>1, <3>2 DEF OneChange
<1>7. AnswersAreHeld'
  <2>1. \E g \in Hosts : FromHeld(g, dns'.val)
    BY <1>1, <1>2, <1>3 DEF DnsInv, AnswersAreHeld, InDnsCall
  <2>2. ~InDnsCall'
    BY <1>3 DEF InDnsCall
  <2> QED
    BY <1>3, <2>1, <2>2 DEF AnswersAreHeld, FromHeld
<1> QED
  BY <1>4, <1>5, <1>6, <1>7 DEF DnsInv

LEMMA DnsCancelKeeps == DnsInv /\ DnsCancel => DnsInv'
<1> SUFFICES ASSUME DnsInv, DnsCancel PROVE DnsInv'
  OBVIOUS
<1>1. /\ txt' = txt /\ txtWork' = txtWork /\ txtChan' = txtChan
      /\ DOMAIN dns' = DOMAIN dns /\ dns'.domain = dns.domain
      /\ dns'.changed = dns.changed /\ dns'.missed = dns.missed /\ dns'.held = dns.held
      /\ dns'.pc = "cancelled" /\ dns'.val = None
      /\ dns.pc \in {"sub", "root"}
  BY DEF DnsCancel, DnsReturn, DnsInv, DnsShape
<1>2. DnsShape' /\ DnsTypeOK'
  BY <1>1 DEF DnsInv, DnsShape, DnsTypeOK, DnsReturned
<1>3. AnswersAreHeld'
  BY <1>1 DEF AnswersAreHeld, InDnsCall, FromHeld, Hosts
<1> QED
  BY <1>1, <1>2, <1>3
     DEF DnsInv, OnlyOkHasValue, AnswersAreOfOneChange, InDnsCall, OneChangeIsAtomic

LEMMA SetTxtKeeps ==
    ASSUME DnsInv, NEW d \in Domains, NEW h \in Hosts, NEW list \in TxtLists[h],
           SetTxt(d, h, list)
    PROVE  DnsInv'
<1>1. /\ txtWork' = txtWork /\ txtChan' = txtChan
      /\ txt' \in [Domains -> [Hosts -> AllLists]] /\ txt'[d][h] = list
      /\ \A g \in Hosts \ {h} : txt'[d][g] = txt[d][g]
      /\ \A c \in Domains \ {d} : txt'[c] = txt[c]
  BY ListsOfHost DEF SetTxt, DnsInv, DnsShape
<1>2. \A c \in Domains : \A g \in Hosts : txt'[c][g] \in TxtLists[g]
  BY <1>1 DEF DnsInv, DnsTypeOK
<1>3. /\ DOMAIN dns' = DOMAIN dns /\ dns'.domain = dns.domain /\ dns'.pc = dns.pc
      /\ dns'.val = dns.val /\ dns'.missed = dns.missed
  BY DEF SetTxt, DnsInv, DnsShape
<1>4. IF dns.pc \notin DnsReturned /\ dns.domain = d
      THEN /\ dns'.changed = dns.changed + 1
           /\ dns'.seen = dns.seen \cup {Effective(txt'[d])}
           /\ dns'.held = [dns.held EXCEPT ![h] = @ \cup {list}]
      ELSE dns' = dns
  BY DEF SetTxt, DnsInv, DnsShape
<1>5. DnsShape' /\ DnsTypeOK'
  <2>1. dns'.held \in [Hosts -> SUBSET AllLists]
    BY <1>4, ListsOfHost DEF DnsInv, DnsShape
  <2> QED
    BY <1>1, <1>2, <1>3, <1>4, <2>1 DEF DnsInv, DnsShape, DnsTypeOK
<1>6. OnlyOkHasValue' /\ OneChangeIsAtomic'
  BY <1>3, <1>4 DEF DnsInv, OnlyOkHasValue, OneChangeIsAtomic, DnsReturned
<1>7. AnswersAreOfOneChange'
  <2> SUFFICES ASSUME InDnsCall, dns'.changed <= 1
               PROVE  \E old \in [Hosts -> AllLists] :
                        /\ OneChange(old, txt[dns.domain])'
                        /\ AnswersComeFrom(old, txt[dns.domain])'
    BY <1>3 DEF AnswersAreOfOneChange, InDnsCall
  <2>1. dns.domain \in Domains /\ dns.pc \notin DnsReturned /\ dns.changed \in Nat
    BY DEF DnsInv, DnsShape, DnsTypeOK, InDnsCall, DnsReturned
  <2>2. PICK old \in [Hosts -> AllLists] :
          OneChange(old, txt[dns.domain]) /\ AnswersComeFrom(old, txt[dns.domain])
    BY <1>4, <2>1 DEF DnsInv, AnswersAreOfOneChange
  <2>3. \A g \in Hosts : \A u \in DnsValues \cup {None} : Obtained(g, u)' => Obtained(g, u)
    BY <1>1, <1>3 DEF Obtained
  <2>4. CASE dns.domain # d
    <3>1. txt'[dns.domain] = txt[dns.domain] /\ dns' = dns
      BY <1>1, <1>4, <2>1, <2>4
    <3>2. OneChange(old, txt[dns.domain])'
      BY <2>2, <3>1 DEF OneChange, Effective
    <3>3. AnswersComeFrom(old, txt[dns.domain])'
      BY <2>2, <2>3, <3>1 DEF AnswersComeFrom
    <3> QED
      BY <3>2, <3>3
  <2>5. CASE dns.domain = d
    <3>1. dns.changed = 0 /\ old = txt[d]
      BY <1>4, <2>1, <2>2, <2>5 DEF OneChange
    <3>2. OneChange(old, txt[dns.domain])'
      <4>1. Effective(old)' \in dns'.seen /\ Effective(txt[dns.domain])' \in dns'.seen
        BY <1>3, <1>4, <2>1, <2>2, <2>5 DEF OneChange, Effective
      <4>2. dns'.changed # 0
        BY <1>4, <2>1, <2>5, <3>1
      <4>3. \A g \in Hosts : g # h => old[g] = txt'[d][g]
        BY <1>1, <3>1
      <4> QED
        BY <1>3, <2>5, <4>1, <4>2, <4>3 DEF OneChange
    <3>3. AnswersComeFrom(old, txt[dns.domain])'
      <4> SUFFICES ASSUME NEW g \in Hosts \ dns.missed, NEW u \in DnsValues \cup {None},
                          Obtained(g, u)
                   PROVE  u = FirstLink(old[g])
        BY <1>3, <2>3 DEF AnswersComeFrom
      <4> QED
        BY <2>2, <2>5, <3>1 DEF AnswersComeFrom
    <3> QED
      BY <3>2, <3>3
  <2> QED
    BY <2>4, <2>5
<1>8. AnswersAreHeld'
  <2>1. AnswersAreHeld /\ dns.held \in [Hosts -> SUBSET AllLists]
    BY DEF DnsInv, DnsShape
  <2>2. \A g \in Hosts : dns.held[g] \subseteq dns'.held[g]
    BY <1>4, <2>1
  <2>3. \A g \in Hosts : \A u : FromHeld(g, u) => FromHeld(g, u)'
    BY <2>2 DEF FromHeld
  <2>4. (\E g \in Hosts : FromHeld(g, dns.val))'
    BY <1>3, <2>1, <2>3 DEF AnswersAreHeld, FromHeld
  <2>5. ASSUME InDnsCall', NEW g \in Hosts PROVE (txt[dns.domain][g] \in dns.held[g])'
    <3>1. InDnsCall /\ txt[dns.domain][g] \in dns.held[g] /\ dns.domain \in Domains
      BY <1>3, <2>1, <2>5 DEF InDnsCall, AnswersAreHeld, DnsInv, DnsTypeOK
    <3>2. CASE dns.domain = d /\ g = h
      BY <1>1, <1>3, <1>4, <2>1, <3>1, <3>2 DEF InDnsCall, DnsReturned
    <3>3. CASE ~(dns.domain = d /\ g = h)
      BY <1>1, <1>3, <2>2, <3>1, <3>3
    <3> QED
      BY <3>2, <3>3
  <2>6. ASSUME InDnsCall', NEW g \in Hosts, NEW u \in DnsValues \cup {None}, Obtained(g, u)'
        PROVE  FromHeld(g, u)'
    <3>1. InDnsCall /\ Obtained(g, u)
      BY <1>1, <1>3, <2>6 DEF InDnsCall, Obtained
    <3> QED
      BY <2>1, <2>3, <3>1 DEF AnswersAreHeld
  <2> QED
    BY <2>4, <2>5, <2>6 DEF AnswersAreHeld
<1> QED
  BY <1>5, <1>6, <1>7, <1>8 DEF DnsInv

LEMMA DnsStutterKeeps == DnsInv /\ UNCHANGED dnsVars => DnsInv'
<1> SUFFICES ASSUME DnsInv, UNCHANGED dnsVars PROVE DnsInv'
  OBVIOUS
<1>1. txt' = txt /\ dns' = dns /\ txtWork' = txtWork /\ txtChan' = txtChan
  BY DEF dnsVars
<1>2. DnsShape' /\ DnsTypeOK' /\ OnlyOkHasValue' /\ OneChangeIsAtomic'
  BY <1>1 DEF DnsInv, DnsShape, DnsTypeOK, OnlyOkHasValue, OneChangeIsAtomic
<1>3. AnswersAreOfOneChange'
  BY <1>1, GoroutineKeeps DEF Obtained
<1>4. AnswersAreHeld'
  <2>1. \E g \in Hosts : FromHeld(g, dns'.val)
    BY <1>1 DEF DnsInv, AnswersAreHeld
  <2> QED
    BY <1>1, <2>1, HeldKeeps DEF InDnsCall, Obtained
<1> QED
  BY <1>2, <1>3, <1>4 DEF DnsInv

LEMMA DnsNextKeeps == DnsInv /\ [DnsNext]_dnsVars => DnsInv'
<1> SUFFICES ASSUME DnsInv, [DnsNext]_dnsVars PROVE DnsInv'
  OBVIOUS
<1>1. ASSUME NEW d \in Domains, DnsGetValue(d) PROVE DnsInv'
  BY <1>1, DnsGetValueKeeps
<1>2. CASE DnsCallStep
  BY <1>2, ReceiveSubKeeps, ReceiveRootKeeps, DnsCancelKeeps DEF DnsCallStep
<1>3. ASSUME NEW h \in Hosts, TxtWorkStep(h) PROVE DnsInv'
  BY <1>3, LookupTxtKeeps, LookupTxtFailsKeeps, AnswerTxtKeeps DEF TxtWorkStep
<1>4. ASSUME NEW d \in Domains, NEW h \in Hosts, NEW list \in TxtLists[h], SetTxt(d, h, list)
      PROVE DnsInv'
  BY <1>4, SetTxtKeeps
<1>5. CASE UNCHANGED dnsVars
  BY <1>5, DnsStutterKeeps
<1> QED
  BY <1>1, <1>2, <1>3, <1>4, <1>5 DEF DnsNext

LEMMA ReturnedIsResolvable == DnsInv /\ dns.val # None => IsResolvable(dns.val)
<1> SUFFICES ASSUME DnsInv, dns.val # None PROVE IsResolvable(dns.val)
  OBVIOUS
<1>1. dns.val \in DnsValues
  BY DEF DnsInv, DnsTypeOK
<1> QED
  BY <1>1, FirstLinkIsResolvable DEF DnsValues

LEMMA ReturnedDenotesLink == DnsInv => AnswersDenoteLinks
<1> SUFFICES ASSUME DnsInv, dns.pc = "ok"
             PROVE  /\ IsResolvable(dns.val)
                    /\ \E h \in Hosts : \E list \in dns.held[h] : \E i \in DOMAIN list :
                         SameLink(Link(list[i]), dns.val)
  BY DEF AnswersDenoteLinks, SameLink, Link
<1>1. dns.val # None /\ dns.val \in DnsValues
  BY DEF DnsInv, OnlyOkHasValue, DnsTypeOK
<1>2. PICK h \in Hosts : \E list \in dns.held[h] : dns.val = FirstLink(list)
  BY <1>1 DEF DnsInv, AnswersAreHeld, FromHeld
<1>2a. PICK list \in dns.held[h] : dns.val = FirstLink(list)
  BY <1>2
<1>2b. list \in AllLists
  BY DEF DnsInv, DnsShape
<1>3. PICK i \in DOMAIN list : parseEntry(list[i]) # None /\ dns.val = parseEntry(list[i])
  BY <1>1, <1>2a, <1>2b, FirstLinkIsOfAString
<1>4. SameLink(Link(list[i]), dns.val)
  BY <1>2b, <1>3, ParsedDenotesLink, TxtAssumption
<1> QED
  BY <1>1, <1>4, ReturnedIsResolvable

(***************************************************************************)
(* The invariant, for any number of calls one after another.               *)
(***************************************************************************)
THEOREM DnsInvariant == DnsSpec => []DnsInv
BY DnsInitHolds, DnsNextKeeps, PTL DEF DnsSpec

(***************************************************************************)
(* Types of the DNS resolver.                                              *)
(***************************************************************************)
THEOREM DnsTypeCorrect == DnsSpec => []DnsTypeOK
<1>1. DnsInv => DnsTypeOK
  BY DEF DnsInv
<1> QED
  BY <1>1, DnsInvariant, PTL

(***************************************************************************)
(* What is returned for a domain denotes what a TXT string that one of its *)
(* two hosts held during the call says after its "dnslink=", also when the *)
(* string is accepted as it is (dns.go:116-145).                           *)
(***************************************************************************)
THEOREM AnswersAreLinks == DnsSpec => []AnswersDenoteLinks
BY ReturnedDenotesLink, DnsInvariant, PTL

(***************************************************************************)
(* The answer put together from two lookups at two times is what the       *)
(* domain stood for at one time, if no lookup failed and its records       *)
(* changed once at most (dns.go:68-95).                                    *)
(***************************************************************************)
THEOREM AnswerIsOfOneTime == DnsSpec => []OneChangeIsAtomic
<1>1. DnsInv => OneChangeIsAtomic
  BY DEF DnsInv
<1> QED
  BY <1>1, DnsInvariant, PTL
=============================================================================
