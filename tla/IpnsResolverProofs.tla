-------------------------- MODULE IpnsResolverProofs --------------------------
(***************************************************************************)
(* Theorems about IpnsResolver, for any names, keys and entries.           *)
(***************************************************************************)
EXTENDS IpnsResolver, SequenceTheorems, TLAPS

(***************************************************************************)
(* The inductive invariant.  BothAreSet needs the channel's history: an    *)
(* answer does not say whose it is, so the invariant counts.  Each of the  *)
(* two goroutines is running, or its answer is in the channel, or it was   *)
(* received; and one that ended without setting its variable has left an   *)
(* error that is still in the channel.                                     *)
(***************************************************************************)
ErrorWaits == \E i \in DOMAIN ipnsResp : ipnsResp[i] = "error"

EntrySet == entry \in EntriesAt(ipns.name) \ {Junk}
KeySet == pubkey = PubKey[ipns.name]

InIpnsCall == ipns.pc \in {"wait", "verify"}

IpnsShape ==
    /\ DOMAIN ipns = {"pc", "name", "val", "eol", "got"}
    /\ DOMAIN ipnsStore = IpnsNames
    /\ ipnsWork \in [IpnsFetches -> {"off", "fetch", "ok", "error"}]
    /\ ipnsResp \in Seq({"ok", "error"})
    /\ \A w \in IpnsFetches : ipnsWork[w] # "off" => ipns.name \in IpnsNames

Off(w) == IF ipnsWork[w] = "off" THEN 1 ELSE 0

Counted ==
    /\ InIpnsCall => Len(ipnsResp) + ipns.got = Off("entry") + Off("pubkey")
    /\ ipns.pc = "verify" <=> ipns.got = 2 /\ InIpnsCall

SetOrError ==
    InIpnsCall =>
        /\ ipnsWork["entry"] = "ok" => EntrySet
        /\ ipnsWork["entry"] = "off" => EntrySet \/ ErrorWaits
        /\ ipnsWork["pubkey"] = "ok" => KeySet
        /\ ipnsWork["pubkey"] = "off" => KeySet \/ ErrorWaits

OkIsResolvable ==
    IF ipns.pc = "ok"
    THEN IsResolvable(ipns.val) /\ \E e \in EntriesAt(ipns.name) \ {Junk} : ipns.val = e.value
    ELSE ipns.val = None

IpnsInv ==
    /\ IpnsShape
    /\ IpnsTypeOK
    /\ Counted
    /\ SetOrError
    /\ OkIsResolvable
    /\ IpnsAuthentic

LEMMA IpnsInitHolds == IpnsInit => IpnsInv
<1> SUFFICES ASSUME IpnsInit PROVE IpnsInv
  OBVIOUS
<1>1. /\ DOMAIN ipns = {"pc", "name", "val", "eol", "got"} /\ ipns.pc = "idle"
      /\ ipns.got = 0 /\ ipns.val = None
  BY DEF IpnsInit, NoIpnsCall
<1>2. \A w \in IpnsFetches : ipnsWork[w] = "off"
  BY DEF IpnsInit
<1>3. IpnsShape /\ IpnsTypeOK
  BY <1>1, <1>2 DEF IpnsInit, IpnsShape, IpnsTypeOK, IpnsReturned
<1> QED
  BY <1>1, <1>3 DEF IpnsInv, Counted, SetOrError, OkIsResolvable, IpnsAuthentic, InIpnsCall

LEMMA BothAreSetHolds == IpnsInv => BothAreSet
<1> SUFFICES ASSUME IpnsInv, ipns.pc = "verify" PROVE EntrySet /\ KeySet
  BY DEF BothAreSet, EntrySet, KeySet
<1>1. InIpnsCall /\ ipns.got = 2
  BY DEF IpnsInv, Counted, InIpnsCall
<1>2. Len(ipnsResp) \in Nat /\ ipnsResp \in Seq({"ok", "error"})
  BY DEF IpnsInv, IpnsShape
<1>3. Len(ipnsResp) = 0 /\ ipnsWork["entry"] = "off" /\ ipnsWork["pubkey"] = "off"
  BY <1>1, <1>2 DEF IpnsInv, Counted, Off
<1>4. ~ErrorWaits
  BY <1>2, <1>3 DEF ErrorWaits
<1> QED
  BY <1>1, <1>3, <1>4 DEF IpnsInv, SetOrError

LEMMA IpnsGetValueKeeps ==
    ASSUME IpnsInv, NEW n \in IpnsNames, IpnsGetValue(n) PROVE IpnsInv'
<1>1. /\ DOMAIN ipns' = {"pc", "name", "val", "eol", "got"}
      /\ ipns'.pc = "wait" /\ ipns'.got = 0 /\ ipns'.name = n /\ ipns'.val = None
  BY DEF IpnsGetValue, NoIpnsCall
<1>2. /\ ipnsWork' \in [IpnsFetches -> {"off", "fetch", "ok", "error"}]
      /\ ipnsWork'["entry"] = "fetch" /\ ipnsWork'["pubkey"] = "fetch"
  BY DEF IpnsGetValue, IpnsFetches
<1>3. ipnsResp' = <<>> /\ entry' = Nil /\ pubkey' = Nil /\ ipnsStore' = ipnsStore
  BY DEF IpnsGetValue
<1>4. IpnsShape' /\ IpnsTypeOK'
  BY <1>1, <1>2, <1>3 DEF IpnsInv, IpnsShape, IpnsTypeOK
<1>5. Counted' /\ SetOrError' /\ OkIsResolvable' /\ IpnsAuthentic'
  BY <1>1, <1>2, <1>3 DEF Counted, SetOrError, OkIsResolvable, IpnsAuthentic, InIpnsCall, Off
<1> QED
  BY <1>4, <1>5 DEF IpnsInv

LEMMA FetchEntryKeeps == IpnsInv /\ FetchEntry => IpnsInv'
<1> SUFFICES ASSUME IpnsInv, FetchEntry PROVE IpnsInv'
  OBVIOUS
<1>1. /\ ipns' = ipns /\ ipnsStore' = ipnsStore /\ pubkey' = pubkey /\ ipnsResp' = ipnsResp
      /\ ipnsWork["entry"] = "fetch" /\ "entry" \in IpnsFetches
  BY DEF FetchEntry, IpnsFetches
<1>2. ipns.name \in IpnsNames
  BY <1>1 DEF IpnsInv, IpnsShape
<1>3. PICK a \in {"ok", "error"} :
        /\ ipnsWork' = [ipnsWork EXCEPT !["entry"] = a]
        /\ a = "ok" => entry' = ipnsStore[ipns.name] /\ entry' \notin {Nil, Junk}
        /\ a = "error" => entry' \in {entry, NewEntry}
  BY DEF FetchEntry
<1>4. /\ ipnsWork' \in [IpnsFetches -> {"off", "fetch", "ok", "error"}]
      /\ ipnsWork'["entry"] = a /\ ipnsWork'["pubkey"] = ipnsWork["pubkey"]
  BY <1>1, <1>3 DEF IpnsInv, IpnsShape, IpnsFetches
<1>5. a = "ok" => entry' \in EntriesAt(ipns.name) \ {Junk}
  BY <1>2, <1>3 DEF IpnsInv, IpnsTypeOK
<1>6. entry' \in ({p.entry : p \in IpnsPuts} \ {Junk}) \cup {Nil, NewEntry}
  BY <1>3, <1>5 DEF IpnsInv, IpnsTypeOK, EntriesAt
<1>7. IpnsShape' /\ IpnsTypeOK'
  BY <1>1, <1>2, <1>4, <1>6 DEF IpnsInv, IpnsShape, IpnsTypeOK, IpnsFetches
<1>8. Counted'
  BY <1>1, <1>4 DEF IpnsInv, Counted, InIpnsCall, Off
<1>9. SetOrError'
  BY <1>1, <1>4, <1>5 DEF IpnsInv, SetOrError, InIpnsCall, EntrySet, KeySet, ErrorWaits
<1>10. OkIsResolvable' /\ IpnsAuthentic'
  BY <1>1 DEF IpnsInv, OkIsResolvable, IpnsAuthentic
<1> QED
  BY <1>7, <1>8, <1>9, <1>10 DEF IpnsInv

LEMMA FetchPubKeyKeeps == IpnsInv /\ FetchPubKey => IpnsInv'
<1> SUFFICES ASSUME IpnsInv, FetchPubKey PROVE IpnsInv'
  OBVIOUS
<1>1. /\ ipns' = ipns /\ ipnsStore' = ipnsStore /\ entry' = entry /\ ipnsResp' = ipnsResp
      /\ ipnsWork["pubkey"] = "fetch" /\ "pubkey" \in IpnsFetches
  BY DEF FetchPubKey, IpnsFetches
<1>2. ipns.name \in IpnsNames
  BY <1>1 DEF IpnsInv, IpnsShape
<1>3. PICK a \in {"ok", "error"} :
        /\ ipnsWork' = [ipnsWork EXCEPT !["pubkey"] = a]
        /\ a = "ok" => pubkey' = PubKey[ipns.name]
        /\ a = "error" => pubkey' = pubkey
  BY DEF FetchPubKey
<1>4. /\ ipnsWork' \in [IpnsFetches -> {"off", "fetch", "ok", "error"}]
      /\ ipnsWork'["pubkey"] = a /\ ipnsWork'["entry"] = ipnsWork["entry"]
  BY <1>1, <1>3 DEF IpnsInv, IpnsShape, IpnsFetches
<1>5. pubkey' \in {PubKey[n] : n \in IpnsNames} \cup {Nil}
  BY <1>2, <1>3 DEF IpnsInv, IpnsTypeOK
<1>6. IpnsShape' /\ IpnsTypeOK'
  BY <1>1, <1>2, <1>4, <1>5 DEF IpnsInv, IpnsShape, IpnsTypeOK, IpnsFetches
<1>7. Counted'
  BY <1>1, <1>4 DEF IpnsInv, Counted, InIpnsCall, Off
<1>8. SetOrError'
  BY <1>1, <1>3, <1>4 DEF IpnsInv, SetOrError, InIpnsCall, EntrySet, KeySet, ErrorWaits
<1>9. OkIsResolvable' /\ IpnsAuthentic'
  BY <1>1 DEF IpnsInv, OkIsResolvable, IpnsAuthentic
<1> QED
  BY <1>6, <1>7, <1>8, <1>9 DEF IpnsInv

LEMMA AnswerIpnsKeeps ==
    ASSUME IpnsInv, NEW w \in IpnsFetches, AnswerIpns(w) PROVE IpnsInv'
<1>1. /\ ipns' = ipns /\ ipnsStore' = ipnsStore /\ entry' = entry /\ pubkey' = pubkey
      /\ ipnsWork[w] \in {"ok", "error"} /\ Len(ipnsResp) < 2
  BY DEF AnswerIpns
<1>2. /\ ipnsWork' \in [IpnsFetches -> {"off", "fetch", "ok", "error"}]
      /\ ipnsWork'[w] = "off" /\ \A v \in IpnsFetches \ {w} : ipnsWork'[v] = ipnsWork[v]
  BY DEF AnswerIpns, IpnsInv, IpnsShape
<1>3. /\ ipnsResp' \in Seq({"ok", "error"})
      /\ Len(ipnsResp') = Len(ipnsResp) + 1
      /\ Len(ipnsResp) \in Nat
      /\ \A i \in 1..Len(ipnsResp) : ipnsResp'[i] = ipnsResp[i]
      /\ ipnsResp'[Len(ipnsResp) + 1] = ipnsWork[w]
  BY <1>1, AppendProperties DEF AnswerIpns, IpnsInv, IpnsShape
<1>4. ErrorWaits => ErrorWaits'
  BY <1>3 DEF ErrorWaits, IpnsInv, IpnsShape
<1>5. ipnsWork[w] = "error" => ErrorWaits'
  BY <1>3 DEF ErrorWaits
<1>6. IpnsShape' /\ IpnsTypeOK'
  BY <1>1, <1>2, <1>3 DEF IpnsInv, IpnsShape, IpnsTypeOK
<1>7. Counted'
  <2>1. Off("entry")' + Off("pubkey")' = Off("entry") + Off("pubkey") + 1
    BY <1>1, <1>2 DEF Off, IpnsFetches
  <2> QED
    BY <1>1, <1>3, <2>1 DEF IpnsInv, IpnsTypeOK, Counted, InIpnsCall
<1>8. SetOrError'
  BY <1>1, <1>2, <1>4, <1>5 DEF IpnsInv, SetOrError, InIpnsCall, EntrySet, KeySet, IpnsFetches
<1>9. OkIsResolvable' /\ IpnsAuthentic'
  BY <1>1 DEF IpnsInv, OkIsResolvable, IpnsAuthentic
<1> QED
  BY <1>6, <1>7, <1>8, <1>9 DEF IpnsInv

LEMMA AwaitTwoKeeps == IpnsInv /\ AwaitTwo => IpnsInv'
<1> SUFFICES ASSUME IpnsInv, AwaitTwo PROVE IpnsInv'
  OBVIOUS
<1>1. /\ ipnsStore' = ipnsStore /\ entry' = entry /\ pubkey' = pubkey /\ ipnsWork' = ipnsWork
      /\ ipns.pc = "wait" /\ ipnsResp # <<>> /\ ipnsResp' = Tail(ipnsResp)
  BY DEF AwaitTwo
<1>2. /\ ipnsResp' \in Seq({"ok", "error"})
      /\ Len(ipnsResp) \in Nat \ {0} /\ Len(ipnsResp') = Len(ipnsResp) - 1
      /\ \A i \in 1..Len(ipnsResp') : ipnsResp'[i] = ipnsResp[i + 1]
      /\ Head(ipnsResp) = ipnsResp[1]
  BY <1>1 DEF IpnsInv, IpnsShape
<1>3. Head(ipnsResp) = "ok" /\ ErrorWaits => ErrorWaits'
  <2> SUFFICES ASSUME Head(ipnsResp) = "ok", NEW i \in 1..Len(ipnsResp), ipnsResp[i] = "error"
               PROVE ErrorWaits'
    BY DEF ErrorWaits, IpnsInv, IpnsShape
  <2>1. i # 1
    BY <1>2
  <2>2. i - 1 \in 1..Len(ipnsResp') /\ ipnsResp'[i - 1] = ipnsResp[i]
    BY <1>2, <2>1
  <2> QED
    BY <1>2, <2>2 DEF ErrorWaits
<1>4. CASE Head(ipnsResp) = "ok"
  <2>1. /\ DOMAIN ipns' = DOMAIN ipns /\ ipns'.name = ipns.name /\ ipns'.val = ipns.val
        /\ ipns'.got = ipns.got + 1
        /\ ipns'.pc = IF ipns.got = 1 THEN "verify" ELSE "wait"
    BY <1>4 DEF AwaitTwo, IpnsInv, IpnsShape
  <2>2. ipns.got \in 0..1 /\ Counted'
    BY <1>1, <1>2, <2>1 DEF IpnsInv, IpnsTypeOK, Counted, InIpnsCall, Off
  <2>3. IpnsShape' /\ IpnsTypeOK'
    BY <1>1, <1>2, <2>1, <2>2 DEF IpnsInv, IpnsShape, IpnsTypeOK, IpnsReturned
  <2>4. SetOrError'
    BY <1>1, <1>3, <1>4, <2>1 DEF IpnsInv, SetOrError, InIpnsCall, EntrySet, KeySet
  <2> QED
    BY <1>1, <2>1, <2>2, <2>3, <2>4 DEF IpnsInv, OkIsResolvable, IpnsAuthentic
<1>5. CASE Head(ipnsResp) # "ok"
  <2>1. /\ DOMAIN ipns' = DOMAIN ipns /\ ipns'.name = ipns.name /\ ipns'.val = ipns.val
        /\ ipns'.got = ipns.got
        /\ ipns'.pc = "failed"
    BY <1>5 DEF AwaitTwo, IpnsFail, IpnsInv, IpnsShape
  <2>2. IpnsShape' /\ IpnsTypeOK'
    BY <1>1, <1>2, <2>1 DEF IpnsInv, IpnsShape, IpnsTypeOK, IpnsReturned
  <2> QED
    BY <1>1, <2>1, <2>2 DEF IpnsInv, Counted, SetOrError, OkIsResolvable, InIpnsCall,
                            IpnsAuthentic
<1> QED
  BY <1>4, <1>5

(***************************************************************************)
(* What is verified with the name's key was signed by its holder.  A time  *)
(* has a known length, so that joined fields that end in one have the same *)
(* parts if they are equal.                                                *)
(***************************************************************************)
Joined(d, s, t) == d = s \o t

LEMMA JoinedParts ==
    ASSUME NEW S, NEW d, NEW s \in Seq(S), NEW t \in Seq(S), Joined(d, s, t)
    PROVE  /\ Len(s) \in Nat /\ Len(t) \in Nat
           /\ Len(d) = Len(s) + Len(t)
           /\ \A i \in 1..Len(s) : d[i] = s[i]
           /\ \A i \in 1..Len(t) : d[Len(s) + i] = t[i]
<1>1. /\ Len(s) \in Nat /\ Len(t) \in Nat
      /\ Len(d) = Len(s) + Len(t)
      /\ \A i \in 1..Len(s) + Len(t) : d[i] = IF i <= Len(s) THEN s[i] ELSE t[i - Len(s)]
  BY ConcatProperties, LenProperties DEF Joined
<1>2. ASSUME NEW i \in 1..Len(t) PROVE d[Len(s) + i] = t[i]
  <2>1. /\ Len(s) + i \in 1..Len(s) + Len(t) /\ ~(Len(s) + i <= Len(s))
        /\ Len(s) + i - Len(s) = i
    BY <1>1
  <2> QED
    BY <1>1, <2>1
<1> QED
  BY <1>1, <1>2

LEMMA TailsAgree ==
    ASSUME NEW S, NEW d, NEW s1 \in Seq(S), NEW t1 \in Seq(S), NEW s2 \in Seq(S),
           NEW t2 \in Seq(S), Joined(d, s1, t1), Joined(d, s2, t2), Len(t1) = Len(t2)
    PROVE  s1 = s2 /\ t1 = t2
<1>1. /\ Len(s1) \in Nat /\ Len(t1) \in Nat
      /\ Len(d) = Len(s1) + Len(t1)
      /\ \A i \in 1..Len(s1) : d[i] = s1[i]
      /\ \A i \in 1..Len(t1) : d[Len(s1) + i] = t1[i]
  BY JoinedParts
<1>2. /\ Len(s2) \in Nat /\ Len(t2) \in Nat
      /\ Len(d) = Len(s2) + Len(t2)
      /\ \A i \in 1..Len(s2) : d[i] = s2[i]
      /\ \A i \in 1..Len(t2) : d[Len(s2) + i] = t2[i]
  BY JoinedParts
<1>3. Len(s1) = Len(s2)
  BY <1>1, <1>2
<1>4. \A i \in 1..Len(s1) : s1[i] = s2[i]
  BY <1>1, <1>2, <1>3
<1>5. \A i \in 1..Len(t1) : t1[i] = t2[i]
  BY <1>1, <1>2, <1>3
<1> QED
  BY <1>3, <1>4, <1>5, SeqEqual

LEMMA SameFields ==
    ASSUME NEW e, NEW f, IsPath(e.value), IsPath(f.value),
           ParsesAsTime(e.validity), ParsesAsTime(f.validity),
           entryDataForSig(e) = entryDataForSig(f)
    PROVE  e.value = f.value /\ IpnsEol(e) = IpnsEol(f)
<1> DEFINE R(x) == {Text(x.value[i]) : i \in 1..Len(x.value)}
                     \cup {Digit(0), <<"time", Instant(x.validity)>>, Text(x.vtype)}
           S == R(e) \cup R(f)
           d == entryDataForSig(e)
           w(x) == BytesOf(x.value) \o x.validity
           t(x) == <<Text(x.vtype)>>
<1>1. ASSUME NEW x \in {e, f}
      PROVE  /\ BytesOf(x.value) \in Seq(S) /\ x.validity \in Seq(S) /\ t(x) \in Seq(S)
             /\ Len(x.validity) = 3 /\ Len(t(x)) = 1
             /\ w(x) \in Seq(S)
             /\ Joined(w(x), BytesOf(x.value), x.validity)
             /\ Joined(entryDataForSig(x), w(x), t(x))
  <2>1. IsPath(x.value) /\ ParsesAsTime(x.validity)
    BY <1>1
  <2>2. R(x) \subseteq S
    BY <1>1
  <2> DEFINE z == Digit(0)
             y == <<"time", Instant(x.validity)>>
             v == Text(x.vtype)
  <2>3. z \in S /\ y \in S /\ v \in S /\ \A i \in 1..Len(x.value) : Text(x.value[i]) \in S
    BY <2>2
  <2>4. Len(x.value) \in Nat
    BY <2>1, LenProperties DEF IsPath
  <2>5. Len(x.validity) = 3 /\ x.validity = <<z, z, y>>
    BY <2>1 DEF ParsesAsTime, FormatRFC3339
  <2> HIDE DEF S, R, z, y, v
  <2>6. BytesOf(x.value) \in Seq(S)
    BY <2>3, <2>4, IsASeq DEF BytesOf
  <2>7. x.validity \in Seq(S)
    BY <2>3, <2>5
  <2>8. <<v>> \in Seq(S) /\ Len(<<v>>) = 1
    BY <2>3
  <2>9. w(x) \in Seq(S)
    BY <2>6, <2>7, ConcatProperties
  <2> QED
    BY <2>5, <2>6, <2>7, <2>8, <2>9 DEF Joined, entryDataForSig, v
<1>2. Joined(d, w(e), t(e)) /\ Joined(d, w(f), t(f))
  BY <1>1, Zenon
<1> HIDE DEF S, d, w, t
<1>3. w(e) = w(f) /\ t(e) = t(f)
  BY <1>1, <1>2, TailsAgree
<1>4. BytesOf(e.value) = BytesOf(f.value) /\ e.validity = f.validity
  <2>1. Joined(w(e), BytesOf(f.value), f.validity)
    BY <1>1, <1>3, Zenon
  <2> QED
    BY <1>1, <2>1, TailsAgree
<1>5. e.vtype = f.vtype
  <2>1. <<Text(e.vtype)>> = <<Text(f.vtype)>>
    BY <1>3 DEF t
  <2>2. Text(e.vtype) = Text(f.vtype)
    BY <2>1
  <2> QED
    BY <2>2 DEF Text
<1>6. e.value = f.value
  <2> DEFINE p == e.value
             q == f.value
             V == {p[i] : i \in DOMAIN p} \cup {q[i] : i \in DOMAIN q}
  <2>1. p \in Seq(V) /\ q \in Seq(V)
    <3>1. p \in Seq({p[i] : i \in DOMAIN p}) /\ q \in Seq({q[i] : i \in DOMAIN q})
      BY DEF IsPath
    <3> QED
      BY <3>1, SeqMonotonic
  <2> HIDE DEF p, q, V
  <2>2. Len(p) \in Nat /\ Len(q) \in Nat
    BY <2>1, LenProperties
  <2>3. BytesOf(p) = BytesOf(q)
    BY <1>4 DEF p, q
  <2>4. Len(p) = Len(q)
    <3>1. DOMAIN BytesOf(p) = 1..Len(p) /\ DOMAIN BytesOf(q) = 1..Len(q)
      BY DEF BytesOf
    <3>2. 1..Len(p) = 1..Len(q)
      BY <2>3, <3>1
    <3> QED
      BY <2>2, <3>2
  <2>5. ASSUME NEW i \in 1..Len(p) PROVE p[i] = q[i]
    <3>1. BytesOf(p)[i] = Text(p[i]) /\ BytesOf(q)[i] = Text(q[i])
      BY <2>4 DEF BytesOf
    <3>2. Text(p[i]) = Text(q[i])
      BY <2>3, <3>1
    <3> QED
      BY <3>2 DEF Text
  <2>6. p = q
    BY <2>1, <2>4, <2>5, SeqEqual
  <2> QED
    BY <2>6 DEF p, q
<1> QED
  BY <1>4, <1>5, <1>6 DEF IpnsEol

IsAuthentic(n, val, eol) ==
    \E f \in EntriesAt(n) \ {Junk}, e \in Signed[n] :
        /\ val = f.value /\ eol = IpnsEol(f)
        /\ entryDataForSig(f) = entryDataForSig(e)
        /\ ParsesAsTime(f.validity) /\ ParsesAsTime(e.validity) =>
               val = e.value /\ eol = IpnsEol(e)

LEMMA VerifiedIsSigned ==
    ASSUME NEW n \in IpnsNames, NEW f \in EntriesAt(n) \ {Junk},
           f.sig = [by |-> PubKey[n], data |-> entryDataForSig(f)]
    PROVE  IsAuthentic(n, f.value, IpnsEol(f))
<1>1. PICK p \in IpnsPuts : p.name = n /\ p.entry = f
  BY DEF EntriesAt
<1>2. PICK e \in Signed[n] : entryDataForSig(e) = entryDataForSig(f)
  BY <1>1, SignaturesAssumption
<1>3. IsPath(f.value) /\ IsPath(e.value)
  BY <1>1, EntriesAssumption
<1>4. ParsesAsTime(f.validity) /\ ParsesAsTime(e.validity) =>
          f.value = e.value /\ IpnsEol(f) = IpnsEol(e)
  BY <1>2, <1>3, SameFields
<1> QED
  BY <1>2, <1>4 DEF IsAuthentic

LEMMA VerifyEntryKeeps == IpnsInv /\ VerifyEntry => IpnsInv'
<1> SUFFICES ASSUME IpnsInv, VerifyEntry PROVE IpnsInv'
  OBVIOUS
<1>1. /\ ipnsStore' = ipnsStore /\ entry' = entry /\ pubkey' = pubkey /\ ipnsWork' = ipnsWork
      /\ ipns.pc = "verify" /\ ipnsResp' = ipnsResp
  BY DEF VerifyEntry
<1>2. ipns.name \in IpnsNames
  BY <1>1 DEF IpnsInv, IpnsTypeOK
<1>3. /\ DOMAIN ipns' = DOMAIN ipns /\ ipns'.name = ipns.name /\ ipns'.got = ipns.got
      /\ ipns'.pc \in {"ok", "failed"}
  BY DEF VerifyEntry, IpnsFail, IpnsInv, IpnsShape
<1>4. IpnsShape' /\ IpnsTypeOK'
  BY <1>1, <1>2, <1>3 DEF IpnsInv, IpnsShape, IpnsTypeOK, IpnsReturned
<1>5. Counted' /\ SetOrError'
  BY <1>3 DEF Counted, SetOrError, InIpnsCall
<1>6. CASE ipns'.pc = "ok"
  <2>1. /\ entry.sig = [by |-> pubkey, data |-> entryDataForSig(entry)]
        /\ IsResolvable(entry.value)
    BY <1>6 DEF VerifyEntry, IpnsFail, IpnsInv, IpnsShape
  <2>2. ipns'.val = entry.value /\ ipns'.eol = IpnsEol(entry)
    BY <1>6 DEF VerifyEntry, IpnsFail, IpnsInv, IpnsShape
  <2>3. entry \in EntriesAt(ipns.name) \ {Junk} /\ pubkey = PubKey[ipns.name]
    BY <1>1, BothAreSetHolds DEF BothAreSet
  <2>4. IsAuthentic(ipns'.name, ipns'.val, ipns'.eol)
    <3>1. IsAuthentic(ipns.name, entry.value, IpnsEol(entry))
      BY <1>2, <2>1, <2>3, VerifiedIsSigned
    <3> QED
      BY <1>3, <2>2, <3>1, Zenon
  <2>5. OkIsResolvable'
    BY <1>3, <1>6, <2>1, <2>2, <2>3 DEF OkIsResolvable, EntriesAt
  <2>6. IpnsAuthentic'
    BY <2>4 DEF IpnsAuthentic, IsAuthentic, EntriesAt
  <2> QED
    BY <1>4, <1>5, <2>5, <2>6 DEF IpnsInv
<1>7. CASE ipns'.pc = "failed"
  <2>1. ipns'.val = ipns.val
    BY <1>7 DEF VerifyEntry, IpnsFail, IpnsInv, IpnsShape
  <2> QED
    BY <1>1, <1>4, <1>5, <1>7, <2>1 DEF IpnsInv, OkIsResolvable, IpnsAuthentic
<1> QED
  BY <1>3, <1>6, <1>7

LEMMA PutEntryKeeps ==
    ASSUME IpnsInv, NEW n \in IpnsNames, NEW e \in EntriesAt(n) \cup {Nil}, PutEntry(n, e)
    PROVE  IpnsInv'
<1>1. /\ ipns' = ipns /\ entry' = entry /\ pubkey' = pubkey
      /\ ipnsWork' = ipnsWork /\ ipnsResp' = ipnsResp
  BY DEF PutEntry
<1>2. /\ DOMAIN ipnsStore' = IpnsNames
      /\ \A m \in IpnsNames : ipnsStore'[m] \in EntriesAt(m) \cup {Nil}
  BY DEF PutEntry, IpnsInv, IpnsShape, IpnsTypeOK
<1>3. IpnsShape' /\ IpnsTypeOK'
  BY <1>1, <1>2 DEF IpnsInv, IpnsShape, IpnsTypeOK
<1> QED
  BY <1>1, <1>3 DEF IpnsInv, Counted, Off, SetOrError, InIpnsCall, EntrySet, KeySet,
                    ErrorWaits, OkIsResolvable, IpnsAuthentic

LEMMA IpnsStutterKeeps == IpnsInv /\ UNCHANGED ipnsVars => IpnsInv'
<1> SUFFICES ASSUME IpnsInv, UNCHANGED ipnsVars PROVE IpnsInv'
  OBVIOUS
<1>1. /\ ipns' = ipns /\ ipnsStore' = ipnsStore /\ entry' = entry /\ pubkey' = pubkey
      /\ ipnsWork' = ipnsWork /\ ipnsResp' = ipnsResp
  BY DEF ipnsVars
<1> QED
  BY <1>1 DEF IpnsInv, IpnsShape, IpnsTypeOK, Counted, Off, SetOrError, InIpnsCall, EntrySet,
              KeySet, ErrorWaits, OkIsResolvable, IpnsAuthentic

LEMMA IpnsNextKeeps == IpnsInv /\ [IpnsNext]_ipnsVars => IpnsInv'
<1> SUFFICES ASSUME IpnsInv, [IpnsNext]_ipnsVars PROVE IpnsInv'
  OBVIOUS
<1>1. ASSUME NEW n \in IpnsNames, IpnsGetValue(n) PROVE IpnsInv'
  BY <1>1, IpnsGetValueKeeps
<1>2. CASE IpnsCallStep
  BY <1>2, AwaitTwoKeeps, VerifyEntryKeeps DEF IpnsCallStep
<1>3. ASSUME NEW w \in IpnsFetches, IpnsWorkStep(w) PROVE IpnsInv'
  BY <1>3, FetchEntryKeeps, FetchPubKeyKeeps, AnswerIpnsKeeps DEF IpnsWorkStep
<1>4. ASSUME NEW n \in IpnsNames, NEW e \in EntriesAt(n) \cup {Nil}, PutEntry(n, e)
      PROVE IpnsInv'
  BY <1>4, PutEntryKeeps
<1>5. CASE UNCHANGED ipnsVars
  BY <1>5, IpnsStutterKeeps
<1> QED
  BY <1>1, <1>2, <1>3, <1>4, <1>5 DEF IpnsNext

(***************************************************************************)
(* The invariant, for any number of calls one after another.               *)
(***************************************************************************)
THEOREM IpnsInvariant == IpnsSpec => []IpnsInv
BY IpnsInitHolds, IpnsNextKeeps, PTL DEF IpnsSpec

(***************************************************************************)
(* Types of the IPNS resolver.                                             *)
(***************************************************************************)
THEOREM IpnsTypeCorrect == IpnsSpec => []IpnsTypeOK
<1>1. IpnsInv => IpnsTypeOK
  BY DEF IpnsInv
<1> QED
  BY <1>1, IpnsInvariant, PTL

(***************************************************************************)
(* When the signature is checked, both goroutines have set their variable, *)
(* whichever answered first and however late (ipns.go:111-120).            *)
(***************************************************************************)
THEOREM BothSet == IpnsSpec => []BothAreSet
BY BothAreSetHolds, IpnsInvariant, PTL

(***************************************************************************)
(* What GetValue returns is read from an entry whose bytes the holder of   *)
(* the name's key signed, if signatures are not forged; and it is the      *)
(* value and the end of life that were signed when the validity is a time  *)
(* in the entry and in what was signed (ipns.go:119-140).                  *)
(***************************************************************************)
THEOREM ReturnedIsSigned == IpnsSpec => []IpnsAuthentic
<1>1. IpnsInv => IpnsAuthentic
  BY DEF IpnsInv
<1> QED
  BY <1>1, IpnsInvariant, PTL
=============================================================================
