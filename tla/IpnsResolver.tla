----------------------------- MODULE IpnsResolver -----------------------------
(***************************************************************************)
(* IPNS names (resolver/ipns.go): GetValue fetches the entry and the       *)
(* public key of a name in two goroutines, which set a variable each and   *)
(* answer on one channel; after two answers without an error it verifies   *)
(* the entry.  Anybody may put anything at a name meanwhile.               *)
(*                                                                         *)
(* Cryptography is symbolic: a signature is the key and the data signed.   *)
(* The public key at a hash is the one that hashes to it, which the        *)
(* routing system sees to.                                                 *)
(***************************************************************************)
EXTENDS Names, Bytes

CONSTANTS
    IpnsNames,   \* CID parts that are names
    PubKey,      \* the public key that each of them is the hash of
    IpnsPuts,    \* [name, entry]: what may be put at the names
    Signed,      \* per name, the entries that the holder of its key made
    Junk,        \* bytes that are no protocol buffer
    Nil          \* the nil *time.Time, and no entry or key

VARIABLES
    ipnsStore,   \* the entry at each name, or nil
    ipns,        \* the call of GetValue
    entry,       \* the variables that its goroutines set
    pubkey,
    ipnsWork,    \* the goroutines
    ipnsResp     \* their channel

ipnsVars == <<ipnsStore, ipns, entry, pubkey, ipnsWork, ipnsResp>>

IpnsFetches == {"entry", "pubkey"}

EntriesAt(n) == {p.entry : p \in {q \in IpnsPuts : q.name = n}}

-----------------------------------------------------------------------------
\* The bytes of a path, part by part.
BytesOf(path) == [i \in 1..Len(path) |-> Text(path[i])]

ValueOnly(e) == BytesOf(e.value)  \* mutant: the validity is not signed

\* The bytes of the three fields, joined without a separator: they do not tell
\* where the value ends and the validity begins.
entryDataForSig(e) == BytesOf(e.value) \o e.validity \o <<Text(e.vtype)>>

ASSUME EntriesAssumption ==
    /\ \A p \in IpnsPuts : p.entry # Junk => IsPath(p.entry.value)
    /\ \A n \in IpnsNames : \A e \in Signed[n] : IsPath(e.value)

\* Only the holder of a key signs with it; others can but change what it signed,
\* or where its fields begin and end.
ASSUME SignaturesAssumption ==
    \A p \in IpnsPuts :
        /\ p.entry # Junk
        /\ p.entry.sig = [by |-> PubKey[p.name], data |-> entryDataForSig(p.entry)]
        =>  \E e \in Signed[p.name] : entryDataForSig(e) = entryDataForSig(p.entry)

\* getEol
IpnsEol(e) ==
    IF e.vtype = "EOL" /\ ParsesAsTime(e.validity) THEN Instant(e.validity) ELSE Nil

\* What proto.Unmarshal was given to fill in before it failed.
NewEntry == [value |-> <<"">>, validity |-> <<>>, vtype |-> "EOL", sig |-> Nil]

-----------------------------------------------------------------------------
IpnsReturned == {"idle", "ok", "failed"}

NoIpnsCall == [pc |-> "idle", name |-> None, val |-> None, eol |-> Nil, got |-> 0]

IpnsInit ==
    /\ ipnsStore \in [IpnsNames -> {p.entry : p \in IpnsPuts} \cup {Nil}]
    /\ \A n \in IpnsNames : ipnsStore[n] \in EntriesAt(n) \cup {Nil}
    /\ ipns = NoIpnsCall
    /\ entry = Nil
    /\ pubkey = Nil
    /\ ipnsWork = [w \in IpnsFetches |-> "off"]
    /\ ipnsResp = <<>>

\* GetValue is called.  (A call of the model starts when the goroutines of the
\* last one have ended; in the code they share nothing with it.)
IpnsGetValue(n) ==
    /\ ipns.pc \in IpnsReturned
    /\ \A w \in IpnsFetches : ipnsWork[w] = "off"
    /\ ipns' = [NoIpnsCall EXCEPT !.pc = "wait", !.name = n]
    /\ entry' = Nil
    /\ pubkey' = Nil
    /\ ipnsWork' = [w \in IpnsFetches |-> "fetch"]
    /\ ipnsResp' = <<>>
    /\ UNCHANGED ipnsStore

FetchEntryUnchecked ==  \* mutant: the error of proto.Unmarshal is not looked at
    /\ ipnsWork["entry"] = "fetch"
    /\ \/ /\ ipnsStore[ipns.name] # Nil
          /\ entry' = ipnsStore[ipns.name]
          /\ ipnsWork' = [ipnsWork EXCEPT !["entry"] = "ok"]
       \/ /\ entry' = entry
          /\ ipnsWork' = [ipnsWork EXCEPT !["entry"] = "error"]
    /\ UNCHANGED <<ipnsStore, ipns, pubkey, ipnsResp>>

\* The first goroutine: vstore.GetValue and proto.Unmarshal.
FetchEntry ==
    /\ ipnsWork["entry"] = "fetch"
    /\ \/ /\ ipnsStore[ipns.name] \notin {Nil, Junk}
          /\ entry' = ipnsStore[ipns.name]
          /\ ipnsWork' = [ipnsWork EXCEPT !["entry"] = "ok"]
       \/ /\ ipnsStore[ipns.name] = Junk
          /\ entry' = NewEntry
          /\ ipnsWork' = [ipnsWork EXCEPT !["entry"] = "error"]
       \/ /\ entry' = entry   \* nothing there, or the value store fails
          /\ ipnsWork' = [ipnsWork EXCEPT !["entry"] = "error"]
    /\ UNCHANGED <<ipnsStore, ipns, pubkey, ipnsResp>>

\* The second goroutine: routing.GetPublicKey, which may fail.
FetchPubKey ==
    /\ ipnsWork["pubkey"] = "fetch"
    /\ \/ /\ pubkey' = PubKey[ipns.name]
          /\ ipnsWork' = [ipnsWork EXCEPT !["pubkey"] = "ok"]
       \/ /\ pubkey' = pubkey
          /\ ipnsWork' = [ipnsWork EXCEPT !["pubkey"] = "error"]
    /\ UNCHANGED <<ipnsStore, ipns, entry, ipnsResp>>

\* resp <- err: waits for room in the channel.
AnswerIpns(w) ==
    /\ ipnsWork[w] \in {"ok", "error"}
    /\ Len(ipnsResp) < 2
    /\ ipnsResp' = Append(ipnsResp, ipnsWork[w])
    /\ ipnsWork' = [ipnsWork EXCEPT ![w] = "off"]
    /\ UNCHANGED <<ipnsStore, ipns, entry, pubkey>>

IpnsFail == ipns' = [ipns EXCEPT !.pc = "failed"]

AwaitOne ==  \* mutant: the loop ends after the first answer
    /\ ipns.pc = "wait"
    /\ ipnsResp # <<>>
    /\ IF Head(ipnsResp) = "ok"
       THEN ipns' = [ipns EXCEPT !.got = @ + 1, !.pc = "verify"]
       ELSE IpnsFail
    /\ ipnsResp' = Tail(ipnsResp)
    /\ UNCHANGED <<ipnsStore, entry, pubkey, ipnsWork>>

\* err = <-resp, twice; the first error ends the call.
AwaitTwo ==
    /\ ipns.pc = "wait"
    /\ ipnsResp # <<>>
    /\ IF Head(ipnsResp) = "ok"
       THEN ipns' = [ipns EXCEPT !.got = @ + 1,
                                 !.pc = IF ipns.got = 1 THEN "verify" ELSE "wait"]
       ELSE IpnsFail
    /\ ipnsResp' = Tail(ipnsResp)
    /\ UNCHANGED <<ipnsStore, entry, pubkey, ipnsWork>>

VerifyOnly ==  \* mutant: the value may not be resolvable
    /\ ipns.pc = "verify"
    /\ IF entry.sig = [by |-> pubkey, data |-> entryDataForSig(entry)]
       THEN ipns' = [ipns EXCEPT !.pc = "ok", !.val = entry.value, !.eol = IpnsEol(entry)]
       ELSE IpnsFail
    /\ UNCHANGED <<ipnsStore, entry, pubkey, ipnsWork, ipnsResp>>

\* pubkey.Verify, getEol and IsResolvable.
VerifyEntry ==
    /\ ipns.pc = "verify"
    /\ IF /\ entry.sig = [by |-> pubkey, data |-> entryDataForSig(entry)]
          /\ IsResolvable(entry.value)
       THEN ipns' = [ipns EXCEPT !.pc = "ok", !.val = entry.value, !.eol = IpnsEol(entry)]
       ELSE IpnsFail
    /\ UNCHANGED <<ipnsStore, entry, pubkey, ipnsWork, ipnsResp>>

\* Somebody puts an entry at a name, or it is dropped.
PutEntry(n, e) ==
    /\ ipnsStore[n] # e
    /\ ipnsStore' = [ipnsStore EXCEPT ![n] = e]
    /\ UNCHANGED <<ipns, entry, pubkey, ipnsWork, ipnsResp>>

IpnsCallStep == AwaitTwo \/ VerifyEntry

IpnsWorkStep(w) ==
    \/ w = "entry" /\ FetchEntry
    \/ w = "pubkey" /\ FetchPubKey
    \/ AnswerIpns(w)

IpnsNext ==
    \/ \E n \in IpnsNames : IpnsGetValue(n)
    \/ IpnsCallStep
    \/ \E w \in IpnsFetches : IpnsWorkStep(w)
    \/ \E n \in IpnsNames : \E e \in EntriesAt(n) \cup {Nil} : PutEntry(n, e)

IpnsSpec == IpnsInit /\ [][IpnsNext]_ipnsVars

-----------------------------------------------------------------------------
(***************************************************************************)
(* Types.                                                                  *)
(***************************************************************************)
IpnsTypeOK ==
    /\ \A n \in IpnsNames : ipnsStore[n] \in EntriesAt(n) \cup {Nil}
    /\ ipns.pc \in {"wait", "verify"} \cup IpnsReturned
    /\ ipns.pc # "idle" => ipns.name \in IpnsNames
    /\ ipns.got \in 0..2
    /\ entry \in ({p.entry : p \in IpnsPuts} \ {Junk}) \cup {Nil, NewEntry}
    /\ pubkey \in {PubKey[n] : n \in IpnsNames} \cup {Nil}
    /\ \A w \in IpnsFetches : ipnsWork[w] \in {"off", "fetch", "ok", "error"}
    /\ Len(ipnsResp) <= 2

(***************************************************************************)
(* The goroutines answer in any order and only say that there was no       *)
(* error, not which of them it is: after two such answers both variables   *)
(* are set, to the name's key and to an entry that unmarshalled.           *)
(***************************************************************************)
BothAreSet ==
    ipns.pc = "verify" =>
        /\ entry \in EntriesAt(ipns.name) \ {Junk}
        /\ pubkey = PubKey[ipns.name]

(***************************************************************************)
(* What GetValue returns, value and end of life, is read from one entry,   *)
(* whose bytes the holder of the name's key signed, whatever else has been *)
(* put at the name.  The bytes do not tell where the value ends: an entry  *)
(* can verify that cuts them elsewhere.  But if the validity is a time in  *)
(* both, the value and the end of life are the ones that were signed.      *)
(***************************************************************************)
IpnsAuthentic ==
    ipns.pc = "ok" =>
        \E f \in EntriesAt(ipns.name) \ {Junk}, e \in Signed[ipns.name] :
            /\ ipns.val = f.value /\ ipns.eol = IpnsEol(f)
            /\ entryDataForSig(f) = entryDataForSig(e)
            /\ ParsesAsTime(f.validity) /\ ParsesAsTime(e.validity) =>
                   ipns.val = e.value /\ ipns.eol = IpnsEol(e)
=============================================================================
