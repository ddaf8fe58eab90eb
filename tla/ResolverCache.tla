---------------------------- MODULE ResolverCache ----------------------------
(***************************************************************************)
(* The cache in front of a ValueGetter (resolver/cache.go), shared by all  *)
(* the goroutines that call GetValue.  A call reads the clock twice and    *)
(* touches the LRU cache up to three times, and nothing keeps other calls, *)
(* the clock or a publisher from moving in between, so each of these       *)
(* accesses is a step of its own.                                          *)
(*                                                                         *)
(* The ValueGetter is abstracted to the list of records published for each *)
(* key: version v of key k is published[k][v] and the last one is current. *)
(* A cached value is represented by its version.                           *)
(***************************************************************************)
EXTENDS Integers, Sequences, FiniteSets

CONSTANTS
    Callers,    \* goroutines calling GetValue
    Keys,       \* cache keys (base paths, domain names)
    Sizes,      \* values of CacheOpts.size
    TTL,        \* CacheOpts.ttl
    Nil,        \* the nil *time.Time: a record that never expires
    Eols,       \* end-of-life times a record may carry
    MaxTime,    \* bound on the clock
    MaxUpdates  \* bound on the records published after each key's first

ASSUME SizesAssumption == Sizes \subseteq Nat
ASSUME TTLAssumption == TTL \in Nat
ASSUME NilAssumption == Nil \notin Nat
ASSUME EolsAssumption == Eols \subseteq Nat \cup {Nil}

VARIABLES
    size,       \* CacheOpts.size of this resolver; it never changes
    now,        \* the wall clock
    published,  \* per key, the records published so far: their eol and when
    rank,       \* LRU rank per key: 1 is the most recent, 0 is not cached
    entry,      \* the cacheEntry held for a key (Blank when rank is 0)
    call        \* the GetValue call of each caller

vars == <<size, now, published, rank, entry, call>>

(***************************************************************************)
(* A cacheEntry is a version and the time until which it may be served.    *)
(* fetched and stamped are history: when the ValueGetter read the value,   *)
(* and when cacheSet read the clock.                                       *)
(***************************************************************************)
Entries == [ver : Nat, till : Nat, fetched : Nat, stamped : Nat]

Blank == [ver |-> 0, till |-> 0, fetched |-> 0, stamped |-> 0]

\* A record as the ValueGetter sees it, with the time it was published.
Publications == [eol : Nat \cup {Nil}, at : Nat]

Pcs == {"idle", "lookup", "check", "remove", "fetch", "stamp", "add",
        "hit", "fetched", "failed"}

\* A call returned a value in "hit" and "fetched", an error in "failed".
Returned == {"idle", "hit", "fetched", "failed"}

(***************************************************************************)
(* since is history: the version that was current when the call began.     *)
(* at is the clock reading on which a hit was decided.                     *)
(***************************************************************************)
Calls == [pc : Pcs, key : Keys, held : Entries, since : Nat, at : Nat]

TypeOK ==
    /\ size \in Nat
    /\ now \in Nat
    /\ published \in [Keys -> Seq(Publications)]
    /\ rank \in [Keys -> Nat]
    /\ entry \in [Keys -> Entries]
    /\ call \in [Callers -> Calls]

Current(k) == Len(published[k])

-----------------------------------------------------------------------------
(***************************************************************************)
(* The golang-lru cache: every operation holds the cache's lock.           *)
(***************************************************************************)

\* Both Get and Add move an entry that is present to the front.
ToFront(k) ==
    [j \in Keys |-> IF j = k THEN 1
                    ELSE IF 0 < rank[j] /\ rank[j] < rank[k] THEN rank[j] + 1
                    ELSE rank[j]]

PushFrontKeepsLast(k) ==  \* mutant: nothing is evicted
    [j \in Keys |-> IF j = k THEN 1
                    ELSE IF rank[j] = 0 THEN 0
                    ELSE rank[j] + 1]

\* Adding a new key pushes the others back, and the last one out when full.
PushFront(k) ==
    [j \in Keys |-> IF j = k THEN 1
                    ELSE IF rank[j] = 0 \/ rank[j] >= size THEN 0
                    ELSE rank[j] + 1]

LruAdd(k, e) ==
    /\ rank' = IF rank[k] > 0 THEN ToFront(k) ELSE PushFront(k)
    /\ entry' = [j \in Keys |-> IF j = k THEN e
                                ELSE IF rank'[j] = 0 THEN Blank ELSE entry[j]]

LruGet(k) ==
    /\ rank' = IF rank[k] > 0 THEN ToFront(k) ELSE rank
    /\ UNCHANGED entry

LruRemoveAbsent(k) ==  \* mutant: an absent key still shifts the others
    /\ rank' = [j \in Keys |-> IF j = k THEN 0
                               ELSE IF rank[j] >= rank[k] THEN rank[j] - 1
                               ELSE rank[j]]
    /\ entry' = [entry EXCEPT ![k] = Blank]

LruRemove(k) ==
    /\ rank' = [j \in Keys |-> IF j = k THEN 0
                               ELSE IF rank[k] > 0 /\ rank[j] > rank[k]
                                    THEN rank[j] - 1
                               ELSE rank[j]]
    /\ entry' = [entry EXCEPT ![k] = Blank]

-----------------------------------------------------------------------------
CacheAlwaysEnabled == size >= 0  \* mutant: a nil check that never fires

\* A size that is not positive leaves the cache nil.
CacheEnabled == size > 0

CacheTillLater(eol) ==  \* mutant: the later of the two
    IF eol # Nil /\ now + TTL < eol THEN eol ELSE now + TTL

CacheTillEol(eol) ==  \* mutant: the TTL only when there is no eol
    IF eol # Nil THEN eol ELSE now + TTL

\* The entry's end of life: the TTL from now, or the record's if that is sooner.
CacheTill(eol) ==
    IF eol # Nil /\ eol < now + TTL THEN eol ELSE now + TTL

Init ==
    /\ size \in Sizes
    /\ now = 0
    /\ published \in [Keys -> {<<[eol |-> e, at |-> 0]>> : e \in Eols}]
    /\ rank = [k \in Keys |-> 0]
    /\ entry = [k \in Keys |-> Blank]
    /\ \E k \in Keys :
         call = [c \in Callers |->
                   [pc |-> "idle", key |-> k, held |-> Blank, since |-> 0, at |-> 0]]

\* GetValue is called.
Begin(c, k) ==
    /\ call[c].pc \in Returned
    /\ call' = [call EXCEPT ![c] = [pc |-> "lookup", key |-> k, held |-> Blank,
                                    since |-> Current(k), at |-> 0]]
    /\ UNCHANGED <<now, published, rank, entry>>

\* cacheGet: no cache, or the key is not in it.
CacheMiss(c) ==
    /\ call[c].pc = "lookup"
    /\ ~CacheEnabled \/ rank[call[c].key] = 0
    /\ call' = [call EXCEPT ![c].pc = "fetch"]
    /\ UNCHANGED <<now, published, rank, entry>>

\* cacheGet: r.cache.Get returns a copy of the entry.
CacheFind(c) ==
    /\ call[c].pc = "lookup"
    /\ CacheEnabled /\ rank[call[c].key] > 0
    /\ LruGet(call[c].key)
    /\ call' = [call EXCEPT ![c].pc = "check", ![c].held = entry[call[c].key]]
    /\ UNCHANGED <<now, published>>

CacheCheckInclusive(c) ==  \* mutant: !time.Now().After(centry.eol)
    /\ call[c].pc = "check"
    /\ call' = [call EXCEPT ![c].pc = IF now <= call[c].held.till THEN "hit" ELSE "remove",
                            ![c].at = now]
    /\ UNCHANGED <<now, published, rank, entry>>

\* cacheGet: time.Now().Before(centry.eol), on the copy.
CacheCheck(c) ==
    /\ call[c].pc = "check"
    /\ call' = [call EXCEPT ![c].pc = IF now < call[c].held.till THEN "hit" ELSE "remove",
                            ![c].at = now]
    /\ UNCHANGED <<now, published, rank, entry>>

\* cacheGet: r.cache.Remove(k), whatever the cache holds for k by now.
CacheRemove(c) ==
    /\ call[c].pc = "remove"
    /\ LruRemove(call[c].key)
    /\ call' = [call EXCEPT ![c].pc = "fetch", ![c].held = Blank]
    /\ UNCHANGED <<now, published>>

(***************************************************************************)
(* r.vg.GetValue returns the current record.  The getters look at the      *)
(* record's eol only to return it: they do not compare it with the clock.  *)
(***************************************************************************)
Fetch(c) ==
    /\ call[c].pc = "fetch"
    /\ call' = [call EXCEPT ![c].pc = "stamp",
                            ![c].held = [Blank EXCEPT !.ver = Current(call[c].key),
                                                      !.fetched = now]]
    /\ UNCHANGED <<now, published, rank, entry>>

FetchFails(c) ==
    /\ call[c].pc = "fetch"
    /\ call' = [call EXCEPT ![c].pc = "failed"]
    /\ UNCHANGED <<now, published, rank, entry>>

\* cacheSet without a cache: GetValue returns the value it fetched.
SkipSet(c) ==
    /\ call[c].pc = "stamp"
    /\ ~CacheEnabled
    /\ call' = [call EXCEPT ![c].pc = "fetched", ![c].at = now]
    /\ UNCHANGED <<now, published, rank, entry>>

\* cacheSet reads the clock and computes cacheTill.
Stamp(c) ==
    /\ call[c].pc = "stamp"
    /\ CacheEnabled
    /\ LET k == call[c].key
           v == call[c].held.ver
       IN  call' = [call EXCEPT ![c].pc = "add",
                                ![c].held.till = CacheTill(published[k][v].eol),
                                ![c].held.stamped = now]
    /\ UNCHANGED <<now, published, rank, entry>>

\* cacheSet: r.cache.Add, over whatever the cache holds for k by now.
CacheAdd(c) ==
    /\ call[c].pc = "add"
    /\ LruAdd(call[c].key, call[c].held)
    /\ call' = [call EXCEPT ![c].pc = "fetched", ![c].at = now]
    /\ UNCHANGED <<now, published>>

\* Somebody publishes a new record for k.
Republish(k, e) ==
    /\ Cardinality(UNION {{j} \X (2..Current(j)) : j \in Keys}) < MaxUpdates
    /\ published' = [published EXCEPT ![k] = Append(@, [eol |-> e, at |-> now])]
    /\ UNCHANGED <<now, rank, entry, call>>

Tick ==
    /\ now < MaxTime
    /\ now' = now + 1
    /\ UNCHANGED <<published, rank, entry, call>>

GetValue(c) ==
    \/ \E k \in Keys : Begin(c, k)
    \/ CacheMiss(c)
    \/ CacheFind(c)
    \/ CacheCheck(c)
    \/ CacheRemove(c)
    \/ Fetch(c)
    \/ FetchFails(c)
    \/ SkipSet(c)
    \/ Stamp(c)
    \/ CacheAdd(c)

Next ==
    /\ \/ \E c \in Callers : GetValue(c)
       \/ \E k \in Keys, e \in Eols : Republish(k, e)
       \/ Tick
    /\ UNCHANGED size

Spec == Init /\ [][Next]_vars

-----------------------------------------------------------------------------
(***************************************************************************)
(* Properties.                                                             *)
(***************************************************************************)

Expired(k, v, t) == published[k][v].eol # Nil /\ published[k][v].eol <= t

(***************************************************************************)
(* A value served from the cache belongs to a record whose end of life had *)
(* not come when the hit was decided, however the lookup, the clock and    *)
(* the entry's replacement by other callers interleave (cacheSet's min,    *)
(* cacheGet's strict Before).                                              *)
(***************************************************************************)
HitBeforeEol ==
    \A c \in Callers :
        call[c].pc = "hit" => ~Expired(call[c].key, call[c].held.ver, call[c].at)

(***************************************************************************)
(* How stale a hit can be: once a newer record was published, the old one  *)
(* is served from the cache for less than the TTL plus the time its fetch  *)
(* spent between reading the value and cacheSet's reading of the clock.    *)
(***************************************************************************)
StalenessBound ==
    \A c \in Callers :
        LET k == call[c].key
            e == call[c].held
        IN  call[c].pc = "hit" /\ e.ver < Current(k) =>
                call[c].at < published[k][e.ver + 1].at + TTL + (e.stamped - e.fetched)

(***************************************************************************)
(* "cachesize is the limit of the number of entries in the lru cache":     *)
(* ranks are distinct, without gaps, and at most size, under any           *)
(* interleaving of Get, Add and Remove by the callers.                     *)
(***************************************************************************)
WithinSize ==
    /\ \A k \in Keys : rank[k] <= size
    /\ \A j, k \in Keys : j # k /\ rank[j] > 0 => rank[j] # rank[k]
    /\ \A k \in Keys : rank[k] > 1 => \E j \in Keys : rank[j] = rank[k] - 1

(***************************************************************************)
(* "Setting it to '0' will disable caching": every value returned was the  *)
(* current one at the call's beginning or became so during the call.       *)
(***************************************************************************)
UncachedIsCurrent ==
    size = 0 => \A c \in Callers :
                    call[c].pc \in {"hit", "fetched"} => call[c].held.ver >= call[c].since

(***************************************************************************)
(* "ErrExpiredRecord should be returned when an Iprs record is invalid due *)
(* to being too old" (record/eol.go): no call returns a value whose        *)
(* record's end of life had come when the call fetched it.                 *)
(***************************************************************************)
ExpiredIsRefused ==
    \A c \in Callers :
        call[c].pc = "fetched" =>
            ~Expired(call[c].key, call[c].held.ver, call[c].held.fetched)

-----------------------------------------------------------------------------
(***************************************************************************)
(* The inductive invariant behind HitBeforeEol and StalenessBound.         *)
(***************************************************************************)

\* A key always has a record, and no record was published in the future.
HistoryInv ==
    \A k \in Keys :
        /\ Current(k) > 0
        /\ \A v \in 1..Current(k) : published[k][v].at <= now

\* What holds of a value from the moment it is fetched: it was then current.
FetchedInv(k, e) ==
    /\ e.ver \in 1..Current(k)
    /\ e.fetched <= now
    /\ e.ver < Current(k) => e.fetched <= published[k][e.ver + 1].at

\* What cacheSet adds: till respects the TTL and the record's end of life.
StampedInv(k, e) ==
    /\ FetchedInv(k, e)
    /\ e.stamped <= now
    /\ e.till <= e.stamped + TTL
    /\ published[k][e.ver].eol # Nil => e.till <= published[k][e.ver].eol

CallInv(c) ==
    LET cl == call[c] IN
    /\ cl.pc = "stamp" => FetchedInv(cl.key, cl.held)
    /\ cl.pc \in {"check", "add", "hit"} => StampedInv(cl.key, cl.held)
    /\ cl.pc = "hit" => cl.at < cl.held.till

CacheInv ==
    /\ HistoryInv
    /\ \A k \in Keys : rank[k] > 0 => StampedInv(k, entry[k])
    /\ \A c \in Callers : CallInv(c)
=============================================================================
