# go-iprs in TLA+

A verification project for [go-iprs](../src/README.md), the record system that gives
mutable names to immutable IPLD nodes. It holds TLA+ modules translated from the Go
source, TLC configurations that check them on small instances, and TLAPS proofs that
hold for every instance. `PROJECT.json` maps each definition to the lines it models.

## 1. The system

A *record* is a signed value with a period of validity. It is stored as a CBOR node in
the DAG service, and the value store (a DHT) keeps a reference to it at its path
`/iprs/<cid>/<id>`, where `<cid>` names the public key or certificate that may sign for
the path. Resolving a path reads the reference, the record, the keys, checks the
signatures and resolves the value in turn, until a CID is reached.

| Component | Source | State it keeps | Operations | What makes it correct |
|---|---|---|---|---|
| Resolver cache | `resolver/cache.go` | LRU cache of values with an end of life | `GetValue` (`cacheGet`, fetch, `cacheSet`) | no hit past the end of life, bounded staleness, size limit, size 0 disables |
| Publisher | `publisher/publisher.go` | none; writes DAG and value store | `Publish` in two phases | references never dangle; a binding is atomic |
| Records and signers | `record/{record,key,cert,sigprep}.go`, `ipld/*.go`, `certificate/crypto.go` | node caches of the signers | `NewRecord`, `BasePath`, `DecodeIprsBlock`, signing | what was signed is what is verified after CBOR |
| Validity | `record/{eol,range}.go` | none | `Validation`, `…ParseValidation`, `ValidateRecord` | formatting and parsing agree |
| Record selection | `record/{validation,eol,range}.go` | loop variables | three `SelectRecord` | the best record, whatever the order |
| IPRS resolver | `resolver/iprs.go`, `record/{verification,pubk}.go`, `certificate/manager.go` | the call; two goroutines and a channel | `Resolve`, `GetValue`, `Verify`, `getCerts` | returns only authentic values, all of them; ends; leaks nothing |
| Recursive resolver | `resolver/resolver.go`, `path/target.go` | the recursion | `Resolve`, `IsResolvable` | depth limit exact, path substitution, termination |
| DNS resolver | `resolver/dns.go` | the call; two goroutines, a channel each | `Accept`, `Resolve`, `GetValue`, `workDomain`, `parseEntry` | the answer is the domain's at some time; `_dnslink` first; goroutines end |
| IPNS resolver | `resolver/ipns.go` | the call; two goroutines, a variable each, one channel | `Accept`, `Resolve`, `GetValue`, `getEol` | both variables set when used; only signed entries; goroutines end |
| Paths | `path/path.go` | none | `FromString`, `Segments`, `BasePath`, `RelativePath` | base and relative part make up the path, `..` included |
| Record system | `iprs.go`, `interface.go` | resolver and publisher | `Resolve`, `ResolveN`, `Publish` | a published record is found; resolution through all resolvers keeps its promises |

Interactions: `Publish` and the resolvers meet only in the two external stores; each of
the three resolvers is a `ValueGetter` behind a `ResolverCache` of its own; the IPRS
resolver calls back the recursive resolver's `IsResolvable`; `getCerts` and the DNS and
IPNS resolvers start goroutines that answer on a buffered channel.

What is hard: calls that share a cache entry while the clock moves; reads of two stores
between which others write; failures half-way through a publish; early returns that leave
goroutines behind; data that changes its Go type between signing and verification;
recursion through names that change. The list, line by line, is `hazards` in
`PROJECT.json`.

## 2. Modules

| Module | Models | Kind |
|---|---|---|
| `ResolverCache` | `resolver/cache.go` and the LRU cache as it is used | state machine |
| `NameMap` | what `Publish` promises: names bound atomically | abstract specification |
| `Publisher` | `publisher/publisher.go`; implements `NameMap` | state machine |
| `Bytes` | byte strings as sequences of chunks, which can be joined and cut; times as strings | operators |
| `Validity` | `record/eol.go`, `record/range.go` except selection; extends `Bytes` | operators |
| `Records` | records, signers, blocks, signature checks; extends `Validity` | operators |
| `IprsResolver` | `resolver/iprs.go`, the verifiers, `getCerts`; extends `Records` | state machine |
| `NameService` | what `Resolve` promises: one reading of a reference, on which alone the outcome depends | abstract specification |
| `RecordSystem` | `iprs.go`: `Publisher` + `IprsResolver` + other peers on shared stores; implements `NameService` | composition |
| `RecordSelection` | the three `SelectRecord`; extends `Validity` | state machine |
| `Names` | `path/path.go`, `path/target.go`, `Accept` and the keys of the three resolvers | operators |
| `Resolver` | `resolver/resolver.go` with lookups of one step; extends `Names` | state machine, and abstract specification of `NameSystem` |
| `DnsResolver` | `resolver/dns.go`; extends `Names` | state machine |
| `IpnsResolver` | `resolver/ipns.go`; extends `Names`, `Bytes` | state machine |
| `NameSystem` | `ResolveN`: the recursion over `DnsResolver`, `IpnsResolver` and IPRS lookups; implements `Resolver` | composition |
| `MC…` | instances for TLC | |
| `…Proofs` | theorems, in a module beside each state machine (none for `IprsResolver`, which `RecordSystemProofs` covers) | |

### How state and actions correspond to the code

*ResolverCache.* `rank` and `entry` are the `lru.Cache` (every operation of it holds its
lock, so each is one step); `call[c]` is a goroutine in `GetValue`, its `pc` the point
reached. Each access to the clock or the LRU cache is an action: `CacheMiss`/`CacheFind`
(`r.cache.Get`), `CacheCheck` (`time.Now().Before`), `CacheRemove`, `Fetch`, `Stamp`
(`time.Now().Add(ttl)`), `CacheAdd`. `size` is the option the resolver was made with and
never changes. The getter behind the cache is reduced to
`published[k]`, the records published so far for a key; `Republish` and `Tick` are the
environment.

*Publisher.* `publishRecord` commits the record with its dependency nodes, or fails with
any subset stored; `publishRecordRef` puts the reference, or fails with or without
effect; `Crash` ends the call anywhere. `Publish` takes any path with any record, as the
code does.

*Records.* CIDs are symbolic, `[codec, of]` with the content they hash, so a block cannot
be altered under its CID. A signature is the pair of key and data, so it verifies exactly
for the bytes that were signed. `dataForSig` joins the value, the two types and the prepared
verification and validation without a separator, and so does the model: a byte string
(`Bytes`) is a sequence of chunks, the numbers of the types are chunks like those a value or
a time is made of, and one string can be cut into fields in several ways. A block whose
fields are a record's bytes cut elsewhere has that record's signature, and it verifies, as
in the code. Values of type `interface{}` carry their Go type as a tag, because what matters is
that CBOR turns a CID into a link and a `[]string` into a `[]interface{}` (`Cbor`).

*IprsResolver.* `get[g]` is a call of `Resolve`; `GetRef`, `GetBlock`, `VerifyKey`,
`VerifyIssuer` are its reads; with two different certificates, `work[g]` are the two
goroutines of `getCerts` and `resp[g]` their channel. `Unavailable` stands for a service
that fails, a context that ends, and content that does not unmarshal. The cache in front
of `GetValue` is `ResolverCache`.

*RecordSystem.* Extends `IprsResolver`, instantiates `Publisher` on the same `dag` and
`vstore`, and adds `ForeignPut`: other peers may put references, to records, to blocks they
altered and to blocks with a record's bytes in other fields. Resolving goroutines
share only the stores, which they only read, so one suffices.

*NameService.* `holds` is the value store; `calls` is `seen`, what a caller may know of a
call. Between the reading of the reference and the end a call has `read`, whatever it or its
goroutines fetch meanwhile. It ends as `accepted` with a value and its end of life, `empty`
(nothing is at the path), `refused` (an error that says that the reference is no good at this
path: what does not decode, a type nobody registered, a path or an issuer of the wrong kind, a
signature, a target) or `gaveUp` (something could not be fetched). `Accepts` and `AnswerOf`
look at the path and the reference only, so the refinement says that no error blames a
reference for what was merely missing, and that nothing stored in between changes the answer.

*RecordSelection.* One record per step of the loops. `best` is `best_i + 1`.
`RangeBeats` compares times as instants but ties as the code does, by pointer
(`SamePointer`). A record's CID is a number in the order of the CIDs' bytes. Nil records
are given to the two checkers only: the master checker dereferences every record.

*Names.* A path is the sequence of its parts between slashes; a part is a CID, a domain,
raw bytes, `.`, `..` or another word. `Clean` is what `path.Clean` does with one part,
`Segments`, `BasePath` and `RelativePath` are path.go's. `ByDns`, `ByIprs`, `ByIpns` say
which resolver takes a path, in the order `getResolver` asks them; `KeyOf` is what it
looks up and `RestOf` what it leaves.

*Resolver.* `Recurse` is one lookup and one recursive call; `BottomOut`,
`RecursionLimit`, `LookupFails` and `IndexPanics` (`BasePath` past the end of the
segments) are the ways to end. `Rebind` changes any name between two lookups. Every value
a resolver returns has passed `IsResolvable` (iprs.go:105, ipns.go:126, dns.go:90-106),
so `LookupFails` covers the values that do not.

*DnsResolver.* `txt` holds the TXT records of each domain and of its `_dnslink` host.
`dns` is the call of `GetValue`, `txtWork[h]` the goroutine of a host (`LookupTxt`,
`LookupTxtFails`, then `AnswerTxt`), `txtChan[h]` its channel. `ReceiveSub` and
`ReceiveRoot` are the two selects, `DnsCancel` their `ctx.Done()`. `SetTxt` is the owner of
a domain. `seen`, `held`, `changed` and `missed` are history: what the domain stood for
during the call, the lists its hosts held, the number of changes, and the lookups that failed.

*IpnsResolver.* `ipns` is the call; `FetchEntry` and `FetchPubKey` are the goroutines,
which set `entry` and `pubkey` and answer on `ipnsResp` (`AnswerIpns`); `AwaitTwo` is the
loop that receives two answers or an error, `VerifyEntry` the rest of `GetValue`. Fields of
an entry that did not unmarshal are those of a new protocol buffer (`NewEntry`).
`entryDataForSig` joins the bytes of value, validity and type without a separator, as the
code does (`BytesOf` gives a path's bytes part by part). `PutEntry` is anybody.

*NameSystem.* `call` is `Resolver`'s. `AskDns` and `AskIpns` call the getters, whose
goroutines then run (`GetterStep`, `TxtStep`, `IpnsStep`) until `DnsReturns` or
`IpnsReturns`; `AskIprs` is the whole IPRS lookup; `CacheHit` returns what the call has
found before, as the cache of the resolver may. `After` is the recursive call. `answer`,
what each name was last found to be, is the refinement mapping: it stands for `Resolver`'s
`names`, and a lookup that returns is a `Rebind` of it.

## 3. Runs

Passing runs check deadlock except where a single call comes to its end (`resolver`,
`selection`, `name_system`).

| Run | Instance and bounds | Shows | States |
|---|---|---|---|
| `cache` | 2 callers, 3 keys, sizes 0 and 2, TTL 1, eol 2, clock ≤ 2, one republication (`MaxUpdates`) | `HitBeforeEol`, `StalenessBound` and the invariant `CacheInv` that is proved: a hit is never decided at or past the record's eol; a superseded value is served for less than the TTL plus the duration of its fetch. `WithinSize`: two entries and their order, moves to the front, and a third key that evicts the oldest. `UncachedIsCurrent`: with size 0 every value returned is at least as new as the call | 899 k |
| `record_system` | 2 publishers, 1 resolver, paths of a key and of a CA, records by a key and by an issued certificate; failing commits and puts, crashes | `NoDanglingRef`, `AckedStaysBound`, `PubInv` and the refinement `ImplementsNameMap` for the publishers; `OnlyIssuerIsMissing`: the only node a resolver may miss of a rightful record is the issuer's certificate; `PublishedIsFound` | 153 k |
| `foreign` | everything stored, 6 records, 8 altered blocks (one that nobody stores), 3 whose fields are a record's bytes cut elsewhere, a certificate and `Junk`, any of them put at any time; fair | `Authentic`, `RightfulIsAccepted`, the refinement `ImplementsNameService`, `ResolveReturns`, `GoroutinesEnd` | 22 k |
| `selection` | all sequences of ≤ 3 of 12 records, three checkers | `SelectInv`, `ChosenLastsLongest`, `EolChoiceIsDeterministic` | 29 k |
| `resolver` | 4 names and CIDs, every binding, depths −1, 0, 2, 3, paths that climb with `..` | `DepthIsExact`, `OnlyInputIsUnrecognized`, `StepsSubstitute`, `ResolutionEnds` | 117 k |
| `name_system` | a domain, an IPNS name and an IPRS name that lead to each other; 3 lists of TXT strings per host, 7 entries, one of them with another's bytes cut elsewhere; depth 2; one change of what is published during the call | `OneChangeIsAtomic`, `AnswersDenoteLinks`, `BothAreSet`, `IpnsAuthentic`, the refinement `ImplementsResolver` and `LookupsEnd` | 289 k |

Why the bounds are enough: in the cache, a value's fate depends on one key and on the order of
its eol, the end of its TTL and the next version's time, all orders of which occur with a
clock of 3 instants, a TTL of one and one republication of one of the keys (records without an
eol, and more republications, are left to the proofs); two callers are enough for one to
replace what the other holds; two places are the least in which entries have an order, and
eviction needs one key more than there are places. Publishing at a path concerns the path's
last put and at most one other publisher of a shared node. A resolver meets the records one at
a time, and what a publisher may do to one of them is to put a node or a reference, so its
liveness is checked in `foreign`, where any reference may be put at any time. Selection
compares pairs, and three records give each a predecessor and a successor. Depths 0 to 3 stop
before, at and after the chains of names in the instance, which include cycles; −1 has no
limit and is cut off at `MaxHops`; 0 is `UnlimitedDepth` in the source, and `DepthIsExact`
speaks of the other depths only (see `unlimited_depth` below). In `name_system` a call makes
two lookups, by different resolvers or from the cache, and the goroutines of the first may
outlive it; one change is what `OneChangeIsAtomic` speaks of, and it may come between the two
fetches of a lookup. The proofs of section 5 remove the bounds for the properties they cover.

### Fairness

`RecordSystem!Fairness` is weak fairness of a call's next step and of each goroutine's:
fetches of keys and certificates run under a ten-second timeout, the others under the caller's
context, so each of them answers, and Go schedules runnable goroutines. `Resolver!Spec`
assumes that lookups answer, for the same reason. `NameSystem!Spec` has weak fairness of
`Running` only, some step of the call or of a goroutine: `lookupTXT` times out, the IPNS
fetches end with the caller's context, and the Go scheduler lets something that can run do so.
That is enough for `LookupsEnd` since a call and its goroutines take finitely many steps.
Nothing is assumed of publishers, other peers or the clock.

## 4. Findings

Six runs check what a doc, comment or test says and find the code to do otherwise.

* `cache_expired`: nothing calls `ValidateRecord` on resolution, so expired records are
  returned (and cached until a time already past); `ErrExpiredRecord` never comes.
* `relative_path`: `Publish` at `/iprs/<cid>/<id>/<rel>` stores the reference under that
  path, `Resolve` looks under `/iprs/<cid>/<id>`.
* `range_tie`: `t[1] == bestt[1]` in `range.go` compares pointers; ties are broken by the
  order of the records.
* `master_index`: the master checker returns an index into the records it kept.
* `dotdot`: `FromString` counts the parts before `Segments` cleans them, accepts
  `/iprs/<cid>/id/..`, and `BasePath` indexes a segment that is not there.
* `unlimited_depth`: `UnlimitedDepth` is 0 and "allows infinite recursion" (`resolver.go:20`,
  `interface.go:72`), but a depth of 0 stops at the first name with the recursion error
  (`resolver.go:93`); it is a negative depth that has no limit.

Seen while modelling, without a run of their own:

* `CertRecordSigner.BasePath` (`record/cert.go:63`) is at the signer's own certificate,
  where README.md:95 says "ca cert key hash"; what an issued certificate publishes there
  does not verify, because that certificate is not its own issuer.
* The loops of `SelectRecord` take the first record without parsing it; when its validity
  does not parse, every later record is skipped (`eol.go:88-91`, `range.go:109-112`).
* The DNS resolver is asked first and accepts any path whose third part is a domain, so
  `<cid>/<part>/<domain>` is looked up in DNS, although `target.go:14` allows a CID with
  a subpath.
* What is signed are joined bytes, of records (`sigprep.go:45`) and of IPNS entries
  (`ipns.go:133`), and neither resolver insists on a validity that parses: a resolved value
  is known to be the signed one, and not a part of it or more than it, only if the types are
  the signed ones and the validity parses. `Authentic` and `IpnsAuthentic` say exactly this,
  and both instances contain what they do not rule out.
* A path that climbs out of `/iprs/`, such as `/iprs/<cid>/../x/id`, is still looked up
  under `/iprs/`, with the parts that are left; `GetValue` then refuses it if they do
  not begin with a CID.
* "not actually possible" (`validation.go:73`) is: the first record may be of a type that
  nobody registered.
* `quux=/ipns/<cid>` as a TXT string is accepted as it is, because `IsResolvable` does not
  look at what comes before the first slash; `dnslink=/ipns/<cid>` is accepted in that way
  too, and denotes the same name (`AnswersDenoteLinks`).
* When the TXT records change twice during a call, the DNS resolver may return a link that
  the domain never stood for: the lookups are made at two times.
* The IPNS resolver looks for the entry of a CIDv1 under its multihash (`c.Hash()`), for
  its key under the whole CID (`c.Bytes()`).
* Expired IPNS entries are verified and returned like expired records.

## 5. Proofs

| Module | Theorems |
|---|---|
| `ResolverCacheProofs` | `CacheInvariant`, `TypeCorrect`, `HitsAreUnexpired`, `HitsAreRecent`, `SizeIsALimit`, `UncachedReturnsCurrent` |
| `PublisherProofs` | `PubInvariant`, `PubTypeCorrect`, `RefsNeverDangle`, `AckedPathsStayBound`, `PublisherImplementsNameMap` |
| `RecordSystemProofs` | `RecordSystemInvariant`, `SystemTypeCorrect`, `ResolvedIsAuthentic`, `RightfulAccepted`, `OnlyIssuerMissing`, `AckedBaseIsFound`, `PublishedFound`, `RecordSystemServes`, `RightfulAreAcceptable` |
| `RecordSelectionProofs` | `SelectInvariant`, `SelectTypeCorrect`, `EolChoice`, `ChoiceLasts` |
| `ResolverProofs` | `ResolverInvariant`, `ResolverTypeCorrect`, `DepthExact`, `ValuesAreRecognized`, `LookupsSubstitute` |
| `DnsResolverProofs` | `DnsInvariant`, `DnsTypeCorrect`, `AnswerIsOfOneTime`, `AnswersAreLinks` |
| `IpnsResolverProofs` | `IpnsInvariant`, `IpnsTypeCorrect`, `BothSet`, `ReturnedIsSigned` |
| `NameSystemProofs` | `SysInvariant`, `SystemTypes`, `SystemAnswersOfOneTime`, `SystemReturnsSigned`, `SystemAnswersAreLinks`, `StepsAreResolvers` |

They hold for any number of callers, keys, publishers, paths, records, domains and names, any
size, TTL and depth, from the assumptions named in the modules: times and sizes are naturals
and `Nil` is not one; depths are integers and `MaxHops` is a bound for those that are limits
(`DepthsAssumption`); the records of a batch have comparable times and CIDs
(`RecordSelection`'s `RecsAssumption`); CIDs are not domains (`PartsAssumption`); values,
inputs and TXT strings are what `strings.Split` makes of a string (`PathsAssumption`,
`TxtAssumption`); taking `dnslink=` away changes a TXT string before its first slash only,
where there was neither a CID nor nothing (`LinkAssumption`); what the recursion may ask for
is among the domains and names (`LookupsAssumption`). About signatures, two assumptions say
that nobody signs with another's key: `SignaturesAssumption` for IPNS entries, and
`RecordSystem`'s `BlocksAssumption` for nodes in the DAG. Both speak of the joined bytes: a
signature that verifies was made over the bytes of something the key's holder signed, whatever
fields these bytes are found in. `BlocksAssumption` also says that decoded blocks have the Go
types the CBOR codec produces; `EntriesAssumption` that the values of entries are paths.
`RecordSystem`'s `RecsAssumption` says that records are made with `NewRecord`, from ranges
that `NewRangeRecordValidation` takes; its `ValueAssumption` that no reference is the absence
of one and that the node `Junk` is stored by nobody. TLC evaluates all of them on the
instances above.

Some theorems have a hypothesis instead. Those of `PublisherProofs` say `CidsNameRecords`, a
CID names one record, and `NoneIsNothing`, the absence of a reference is none, which
`RecordSystem` assumes of its instance of `Publisher` (`PublisherAssumption`); the run
`record_system` checks the properties there. Two more need what the code alone does not give.
`OnlyIssuerMissing` needs `NodesComeFirst`: other peers too put a record's nodes before a
reference to it (true of both instances of `RecordSystem` that pass). `PublishedFound` needs
`OnlyBasePaths`: nobody resolves a path that goes on below its base; the run `relative_path`
is what happens otherwise. `AckedBaseIsFound` is what remains without it: a call that finds
nothing at a path has not had a publish acknowledged at the *base* of that path.

* *Cache.* What a hit returns was put together over several steps, so the invariant
  follows the value: `FetchedInv` says that it was current when it was read,
  `StampedInv` that `till` respects the TTL and the eol, in the cache and in every call
  that holds a copy (`CallInv`). `HitBeforeEol` and `StalenessBound` are consequences.
  Without a cache no call ever gets to a hit, and `UncachedInv` says that what a call
  holds was current at its beginning or later.
* *Publisher.* `NoDanglingRef` is not inductive: a put is safe because its publisher has
  stored the nodes before (`pc = "ref" => Closure ⊆ dag`), and because the DAG loses
  nothing, which is assumed. The refinement maps the two stores to `boundTo`: a
  path is bound when its reference and its record's nodes are there. Storing nodes is a stutter
  since no reference waits for them; the put is `Bind`; failures are `Bind` or `Drop`.
* *Record system, the data.* The signed bytes are joined, and joining is not injective: what
  can be shown is that a block which gives the same bytes as a record, has its types and a
  validity that parses has the same fields (`SameReading`). The parts are peeled off from the
  right: a time or an infinity at the end of a string is told from what is before it by its
  last chunk (`KnownStrings`, `KnownTails`), a type is one chunk and the signer's part is as
  long in both, since the types agree (`TailsAgree`, `FrontsAgree`), and what is left is the
  value. Without these hypotheses the bytes are the same and no more is said. A block that
  went through CBOR gives the same data as what was signed (`SignedParts`, `StoredParts`,
  `RecordVerifies`), and the same end of life is read from it (`ReadStrings`, `MadeStrings`).
  So a signature that verifies leads back to the bytes of a record of the key's owner
  (`SignedByOwner`), whose key has a right to the path by either verifier (`KeyVerified`,
  `CertVerified`), and the checks find nothing wrong with a rightful record (`RightfulBlock`).
* *Record system, the steps.* `CallInv` is the invariant of one call with its goroutines
  and channel, as an operator of their values and of the DAG: it is kept when the DAG grows
  (`MoreNodes`), which is all that others can do to a call. While a call waits for
  `getCerts`, each goroutine is *awaited* (it runs, or its answer is in the channel) or has
  found its certificate; the number received is the number no longer awaited (`Waits`). So
  when two answers were received both certificates are there, whichever came first, and
  since each goroutine answers once (`OneAnswerEach`) the channel never holds more than two.
* *Record system, what is there.* `SupplyInv`: a path's reference, and the reference that a
  call has read, is *supplied*, its record's nodes being in the DAG. It is kept because a
  publisher at `"ref"` has stored them, and because two records with the same block have
  signers with the same node (`SameClosure`), so that it does not matter who stored them. It
  is a fact of the moment the reference is read and stays true since the DAG loses nothing.
  So a node that is not there when it is fetched is none of the publisher's (`NotThere`),
  and for a rightful record that leaves the issuer's certificate. The goroutines' answers
  keep what they met in the channel, so the invariant speaks of those as well.
  `PublishedIsFound` rests on `Bindings`, that an acknowledged path holds a reference for ever.
* *Record system, the service.* Each fetch and each goroutine's step is a stutter of
  `NameService`; the steps that end a call are `Accept`, `Refuse` or `GiveUp`. Which one
  follows from `CallInv`: what a call holds when it ends was decoded from the CID it has
  read, and a certificate that was fetched is the one its CID names, so the checks the code
  makes along the way add up to `Accepts` (`CertAccepts`, `CheckServes`) and each error the
  code gives in `Refusals` means that one conjunct of it is false. `RightfulAreAcceptable`
  ties the two levels together: every rightful record is acceptable at its path.
* *Selection.* The loops are steps, so what they compute is their loop invariant
  `SelectInv`; it is preserved because each order is transitive and asymmetric
  (`EolTransitive`, `LaterTransitive`, `RangeBeatsLasts`).
* *Resolver.* For a limit, depth and lookups add up to the depth asked for; a target after the
  first has passed `IsResolvable`. That a lookup substitutes (`StepsSubstitute`) is about
  `path.Clean` and the splitting of a path. What is left of a path is written as functions on
  naturals (`KeptUpTo`, `CleanedUpTo`, the parts kept of the first `n`), so what they compute
  is shown by the least `n` at which it fails (`LeastNatural`, `InductiveSet`), an induction
  that needs no operator parameter. The loop of `Clean` takes parts away one at a time, the
  reference meaning (`Meaning`) keeps at once those that no later `..` takes away;
  `CleanIsKept` shows that they agree. The non-empty parts of two halves are those of the
  whole (`NonEmptyConcat`), and an appended path has no gap (`AppendedHasNoGap`), which is the
  invariant `AppendedInv`.
* *DNS.* While at most one change was made, there is an old state of the domain's records that
  differs from the present one at one host only, the domain stood for what either says, and
  every answer that is still to be received is what its host says in one of the two
  (`AnswersAreOfOneChange`), unless that host's lookup failed. So whichever answers are
  combined, the outcome is what one of the two states says. Whatever changes and fails, an
  answer is the first link of a list that its host has held since the call began
  (`AnswersAreHeld`), and it denotes the link that a TXT string of the list spells
  (`AnswersDenoteLinks`) since what `IsResolvable` and `Clean` look at comes after the first
  slash (`ParsedDenotesLink`).
* *IPNS.* The answers do not say whose they are, so the invariant counts (`Counted`): answers
  received and in the channel are as many as the goroutines that have ended; and a goroutine
  that has ended without setting its variable has left an error in the channel (`SetOrError`).
  `BothAreSet` is the case where two answers without an error were received. What is returned
  is then read from one entry, and the signature leads back to signed bytes; a time is the
  last three chunks before the type, so that entries of the same bytes whose validities are
  times have the same value and end of life (`IpnsAuthentic`).
* *NameSystem.* The invariants of the two getters carry over, since the composition calls
  them only when their goroutines are off; in addition a lookup in progress is of the
  target's own key, and an answered one returned what `answer` holds. From that each step
  is one of `Resolver`'s: `After` is `Recurse` or `LookupFails`, a return is `Rebind`, all
  that goroutines do in between is nothing.

Checked by TLC only: liveness (`ResolveReturns`, `GoroutinesEnd`, `ResolutionEnds`,
`LookupsEnd`, and the liveness half of `ImplementsResolver`), which is beyond the prover.
Every invariant and every action property of the passing runs is a theorem.

## 6. Not modelled

* `certificate/validator.go` (nothing calls it) and `pb/` (generated, unused).
* Test helpers, logging, `Pretty`, `Loggable`, the `node.Node` methods of keys and
  certificates that return constants.
* The bytes of CBOR, PEM, CIDs and times: a byte string is a sequence of chunks, cut between
  chunks only; of a formatted time, its last chunk and two zeros before it. A time has one
  spelling, although `ParseRFC3339` takes others of the same instant.
* The pruning of DAG nodes, and a value store that returns an older reference than it
  held; a value store that drops one is `Rebind` in `Resolver` and `SetIprs` in
  `NameSystem`.
* In `NameSystem`, values that the caches hold from before the call; `ResolverCache` says
  how old they may be.
* Nil records given to the master checker, which dereferences every one.

## 7. Plan

1. *Done*: the cache; the publisher and its refinement of the name map; records, IPRS
   resolver and their composition; selection; paths; recursion; the DNS and IPNS resolvers
   and their composition, which refines the recursion; the proofs of section 5.
2. *Left*: `ResolverCache` under `NameSystem`, for staleness over several hops and calls
   (the state space of the two together is out of TLC's reach with today's instances);
   `Resolver`'s theorems carried over to `NameSystem` along `StepsAreResolvers`.
