----------------------------- MODULE DnsResolver -----------------------------
(***************************************************************************)
(* DNS links (resolver/dns.go): GetValue starts a goroutine for the TXT    *)
(* records of the domain and one for those of _dnslink.<domain>, waits for *)
(* the latter's answer, and only if it is an error for the former's.  TXT  *)
(* records may change meanwhile, lookups may fail, and the caller's        *)
(* context may end.                                                        *)
(***************************************************************************)
EXTENDS Names

CONSTANTS
    Domains,    \* domains with TXT records
    TxtLists,   \* per host, the lists of TXT strings that lookupTXT may return
    LinkIn      \* what follows "dnslink=", for the TXT strings that begin so

Hosts == {"root", "sub"}  \* the domain itself, and _dnslink.<domain>

AllLists == UNION {TxtLists[h] : h \in Hosts}

ASSUME TxtAssumption ==
    \A list \in AllLists :
        /\ DOMAIN list \subseteq Nat
        /\ \A i \in DOMAIN list : IsPath(list[i])

\* Taking "dnslink=" away changes the part before the first slash, which was
\* neither empty nor a CID ("=" is no digit of one), and nothing after it.
ASSUME LinkAssumption ==
    \A t \in DOMAIN LinkIn :
        /\ t # <<>> /\ IsPath(LinkIn[t])
        /\ t[1] \notin {""} \cup CidParts \cup RawParts
        /\ Len(LinkIn[t]) = Len(t)
        /\ \A i \in 2..Len(t) : LinkIn[t][i] = t[i]

VARIABLES
    txt,      \* the TXT records of each domain and host; <<>> if there are none
    dns,      \* the call of GetValue
    txtWork,  \* its goroutines, by host
    txtChan   \* their channels

dnsVars == <<txt, dns, txtWork, txtChan>>

-----------------------------------------------------------------------------
\* path.ParseCidToPath: a bare CID.
ParsesCidToPath(t) == Len(t) = 1 /\ t[1] \in CidParts

tryParseWhole(t) ==  \* mutant: the link keeps its "dnslink="
    IF t \in DOMAIN LinkIn /\ IsResolvable(LinkIn[t]) THEN t ELSE None

tryParseDnsLink(t) ==
    IF t \in DOMAIN LinkIn /\ IsResolvable(LinkIn[t]) THEN LinkIn[t] ELSE None

parseEntry(t) ==
    IF ParsesCidToPath(t) THEN <<"", "ipfs", t[1]>>
    ELSE IF IsResolvable(t) THEN t
    ELSE tryParseDnsLink(t)

\* workDomain answers with the first string that parses.
FirstLink(list) ==
    LET parsed == {i \in DOMAIN list : parseEntry(list[i]) # None}
    IN  IF parsed = {} THEN None
        ELSE parseEntry(list[CHOOSE i \in parsed : \A j \in parsed : i <= j])

\* What a domain stands for at an instant.
Effective(records) ==
    IF FirstLink(records["sub"]) # None THEN FirstLink(records["sub"])
    ELSE FirstLink(records["root"])

-----------------------------------------------------------------------------
DnsReturned == {"idle", "ok", "failed", "cancelled"}

Silent == [pc |-> "off", res |-> None]

NoDnsCall == [pc |-> "idle", domain |-> None, val |-> None, seen |-> {},
              held |-> [h \in Hosts |-> {}], changed |-> 0, missed |-> {}]

DnsInit ==
    /\ txt \in [Domains -> {r \in [Hosts -> AllLists] : \A h \in Hosts : r[h] \in TxtLists[h]}]
    /\ dns = NoDnsCall
    /\ txtWork = [h \in Hosts |-> Silent]
    /\ txtChan = [h \in Hosts |-> <<>>]

\* GetValue is called.  (A call of the model starts when the goroutines of the
\* last one have ended; in the code they have channels of their own.)  seen,
\* held, changed and missed are history: what the domain stood for since the
\* call began, the lists its hosts held, how often its records changed, and the
\* hosts whose lookup failed.
DnsGetValue(d) ==
    /\ dns.pc \in DnsReturned
    /\ \A h \in Hosts : txtWork[h].pc = "off"
    /\ dns' = [NoDnsCall EXCEPT !.pc = "sub", !.domain = d, !.seen = {Effective(txt[d])},
                                !.held = [h \in Hosts |-> {txt[d][h]}]]
    /\ txtWork' = [h \in Hosts |-> [pc |-> "lookup", res |-> None]]
    /\ txtChan' = [h \in Hosts |-> <<>>]
    /\ UNCHANGED txt

LookupTxtRaw(h) ==  \* mutant: the string is sent instead of its path
    /\ txtWork[h].pc = "lookup"
    /\ txtWork' = [txtWork EXCEPT ![h] = [pc |-> "answer",
                                          res |-> IF FirstLink(txt[dns.domain][h]) = None
                                                  THEN None
                                                  ELSE txt[dns.domain][h][1]]]
    /\ UNCHANGED <<txt, dns, txtChan>>

\* workDomain: lookupTXT and the entries.
LookupTxt(h) ==
    /\ txtWork[h].pc = "lookup"
    /\ txtWork' = [txtWork EXCEPT ![h] = [pc |-> "answer",
                                          res |-> FirstLink(txt[dns.domain][h])]]
    /\ UNCHANGED <<txt, dns, txtChan>>

\* lookupTXT returns an error.
LookupTxtFails(h) ==
    /\ txtWork[h].pc = "lookup"
    /\ txtWork' = [txtWork EXCEPT ![h].pc = "answer"]
    /\ dns' = IF dns.pc \in DnsReturned THEN dns ELSE [dns EXCEPT !.missed = @ \cup {h}]
    /\ UNCHANGED <<txt, txtChan>>

HasReceiver(h) == dns.pc = h  \* mutant: a channel without a buffer

\* The channel has room for one answer.
HasRoom(h) == txtChan[h] = <<>>

\* res <- lookupRes{...}
AnswerTxt(h) ==
    /\ txtWork[h].pc = "answer"
    /\ HasRoom(h)
    /\ txtChan' = [txtChan EXCEPT ![h] = Append(@, txtWork[h].res)]
    /\ txtWork' = [txtWork EXCEPT ![h] = Silent]
    /\ UNCHANGED <<txt, dns>>

DnsReturn(pc, v) == dns' = [dns EXCEPT !.pc = pc, !.val = v]

ReceiveFirst ==  \* mutant: whichever answer comes first
    /\ dns.pc = "sub"
    /\ \E h \in Hosts :
         /\ txtChan[h] # <<>>
         /\ IF Head(txtChan[h]) # None
            THEN DnsReturn("ok", Head(txtChan[h]))
            ELSE dns' = [dns EXCEPT !.pc = "root"]
         /\ txtChan' = [txtChan EXCEPT ![h] = Tail(@)]
    /\ UNCHANGED <<txt, txtWork>>

\* subRes = <-subChan
ReceiveSub ==
    /\ dns.pc = "sub"
    /\ txtChan["sub"] # <<>>
    /\ IF Head(txtChan["sub"]) # None
       THEN DnsReturn("ok", Head(txtChan["sub"]))
       ELSE dns' = [dns EXCEPT !.pc = "root"]
    /\ txtChan' = [txtChan EXCEPT !["sub"] = Tail(@)]
    /\ UNCHANGED <<txt, txtWork>>

\* rootRes = <-rootChan
ReceiveRoot ==
    /\ dns.pc = "root"
    /\ txtChan["root"] # <<>>
    /\ IF Head(txtChan["root"]) # None
       THEN DnsReturn("ok", Head(txtChan["root"]))
       ELSE DnsReturn("failed", None)
    /\ txtChan' = [txtChan EXCEPT !["root"] = Tail(@)]
    /\ UNCHANGED <<txt, txtWork>>

\* <-ctx.Done() in either select, even if an answer is there as well.
DnsCancel ==
    /\ dns.pc \in {"sub", "root"}
    /\ DnsReturn("cancelled", None)
    /\ UNCHANGED <<txt, txtWork, txtChan>>

\* The owner of a domain changes the TXT records of one host.
SetTxt(d, h, list) ==
    /\ list # txt[d][h]
    /\ txt' = [txt EXCEPT ![d][h] = list]
    /\ dns' = IF dns.pc \notin DnsReturned /\ dns.domain = d
              THEN [dns EXCEPT !.seen = @ \cup {Effective(txt'[d])},
                              !.held[h] = @ \cup {list}, !.changed = @ + 1]
              ELSE dns
    /\ UNCHANGED <<txtWork, txtChan>>

DnsCallStep == ReceiveSub \/ ReceiveRoot \/ DnsCancel

TxtWorkStep(h) == LookupTxt(h) \/ LookupTxtFails(h) \/ AnswerTxt(h)

DnsNext ==
    \/ \E d \in Domains : DnsGetValue(d)
    \/ DnsCallStep
    \/ \E h \in Hosts : TxtWorkStep(h)
    \/ \E d \in Domains, h \in Hosts : \E list \in TxtLists[h] : SetTxt(d, h, list)

DnsSpec == DnsInit /\ [][DnsNext]_dnsVars

-----------------------------------------------------------------------------
DnsValues == {FirstLink(list) : list \in AllLists}

(***************************************************************************)
(* Types.                                                                  *)
(***************************************************************************)
DnsTypeOK ==
    /\ \A d \in Domains : \A h \in Hosts : txt[d][h] \in TxtLists[h]
    /\ dns.pc \in {"sub", "root"} \cup DnsReturned
    /\ dns.pc # "idle" => dns.domain \in Domains
    /\ dns.val \in DnsValues \cup {None}
    /\ \A h \in Hosts :
         /\ txtWork[h].pc \in {"off", "lookup", "answer"}
         /\ txtWork[h].res \in DnsValues \cup {None}
         /\ txtChan[h] = <<>> \/ \E v \in DnsValues \cup {None} : txtChan[h] = <<v>>

(***************************************************************************)
(* The two lookups are made at different times, so that the answer is put  *)
(* together from two states of the DNS.  Unless a lookup fails, it is all  *)
(* the same what the domain stood for at some time during the call, if its *)
(* records changed once at most: a domain that had a link all along is     *)
(* found, and the link of _dnslink.<domain> has precedence, whichever      *)
(* goroutine answers first.                                                *)
(***************************************************************************)
OneChangeIsAtomic ==
    dns.pc \in {"ok", "failed"} /\ dns.changed <= 1 /\ dns.missed = {} =>
        dns.val \in dns.seen

(***************************************************************************)
(* A path denotes a name or a CID, and the parts that are left.  What is   *)
(* returned for a domain is resolvable, and denotes what a TXT string that *)
(* the domain or its _dnslink host held during the call says after its     *)
(* "dnslink=", although strings that happen to be accepted as they are     *)
(* keep it.                                                                *)
(***************************************************************************)
Denotes(t) ==
    IF Accepted(t)
    THEN [name |-> KeyOf(t), rest |-> NonEmpty(RestOf(t))]
    ELSE [cid |-> TargetCid(t), rest |-> NonEmpty(TargetRest(t))]

AnswersDenoteLinks ==
    dns.pc = "ok" =>
        /\ IsResolvable(dns.val)
        /\ \E h \in Hosts : \E list \in dns.held[h] : \E i \in DOMAIN list :
             LET link == IF list[i] \in DOMAIN LinkIn THEN LinkIn[list[i]] ELSE list[i]
             IN  IsResolvable(link) /\ Denotes(link) = Denotes(dns.val)
=============================================================================
