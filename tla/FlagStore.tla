----------------------------- MODULE FlagStore ------------------------------
(***************************************************************************)
(* The feature flags server: flags and supplier configurations are         *)
(* documents in one Cosmos container, and every process that uses the      *)
(* server's functions keeps a cache of its own with a time to live.  The   *)
(* tools are synchronous, so a process has one call under way; processes   *)
(* interleave at each call to Cosmos.                                      *)
(***************************************************************************)
EXTENDS Naturals

CONSTANTS
  None,
  Proc,      \* processes that use the server's functions
  Flag,      \* names of feature flags
  Config,    \* suppliers with a configuration document
  ValueOf,   \* what the document under each key may hold
  TTL,       \* CACHE_TTL_SECONDS
  MaxDelay,  \* bound on the time Cosmos takes to answer
  MaxTime,   \* bound on the clock
  MaxWrites, \* bound on the writes of one document
  MaxFaults  \* bound on failing calls, lost answers and restarts

Key == Flag \cup Config

ASSUME FlagStoreAssumption ==
  /\ Flag \cap Config = {}
  /\ None \notin Key
  /\ DOMAIN ValueOf = Key
  /\ TTL \in Nat \ {0} /\ MaxDelay \in Nat
  /\ MaxTime \in Nat /\ MaxWrites \in Nat /\ MaxFaults \in Nat

VARIABLES
  document,  \* what Cosmos holds under each key
  cache,     \* _cache of each process
  process,   \* the call each process is in
  clock,
  faults,    \* faults so far
  answer,    \* the stamp of the last document each process answered with
  listed,    \* the stamp of each flag in the last list the process gave
  writers    \* the processes that wrote each document

history == <<answer, listed, writers>>
storeVars == <<document, cache, process, clock, faults, answer, listed, writers>>

\* stamp counts the writes of a document and read is the time when it was in
\* Cosmos; the code has neither.
NoDocument == [version |-> 0, value |-> None, stamp |-> 0]
NoEntry == [expires |-> 0, document |-> NoDocument, read |-> 0]

\* seen: the document the call has in its hands.  asked: when Cosmos had it.
Idle == [pc |-> "idle", op |-> "get", key |-> None, value |-> None,
         seen |-> NoDocument, asked |-> 0]

StoreInit ==
  /\ document = [k \in Key |-> NoDocument]
  /\ cache = [p \in Proc |-> [k \in Key |-> NoEntry]]
  /\ process = [p \in Proc |-> Idle]
  /\ clock = 0
  /\ faults = 0
  /\ answer = [p \in Proc |-> [k \in Key |-> 0]]
  /\ listed = [p \in Proc |-> [k \in Key |-> 0]]
  /\ writers = [k \in Key |-> {}]

Fault == faults < MaxFaults /\ faults' = faults + 1
KeyAt(p) == process[p].key
Goto(p, pc, d, time) ==
  process' = [process EXCEPT ![p] = [@ EXCEPT !.pc = pc, !.seen = d, !.asked = time]]

Entry(p) == cache[p][KeyAt(p)]

-----------------------------------------------------------------------------
(* The beginning of a call: get_flag and get_supplier_config read, set_flag *)
(* reads through get_flag, set_supplier_config writes at once.             *)

Begin(p, op, key, value) ==
  /\ process[p].pc = "idle"
  /\ process' = [process EXCEPT ![p] =
       [pc |-> IF op = "set" /\ key \in Config THEN "write" ELSE "look",
        op |-> op, key |-> key, value |-> value, seen |-> NoDocument, asked |-> 0]]
  /\ UNCHANGED <<document, cache, clock, faults, history>>

\* Mutant of IsFresh: an entry of the cache never ages.
NeverAges(entry) == entry.document.stamp > 0

IsFresh(entry) == entry.document.stamp > 0 /\ clock < entry.expires

\* The call ends and d is returned.
Answer(p, d) ==
  /\ process' = [process EXCEPT ![p] = Idle]
  /\ answer' = [answer EXCEPT ![p][KeyAt(p)] = d.stamp]

\* The call ends with an exception.
Raise(p) == process' = [process EXCEPT ![p] = Idle] /\ UNCHANGED answer

\* The document is found: a read returns it, set_flag takes its version.
Found(p, d) ==
  IF process[p].op = "get"
  THEN Answer(p, d)
  ELSE Goto(p, "write", d, 0) /\ UNCHANGED answer

ServeCached(p) ==
  /\ process[p].pc = "look"
  /\ IsFresh(Entry(p))
  /\ Found(p, Entry(p).document)
  /\ UNCHANGED <<document, cache, clock, faults, listed, writers>>

\* An entry that is out of date leaves the cache and Cosmos is asked.
Evict(p) == cache' = [cache EXCEPT ![p][KeyAt(p)] = NoEntry]

Query(p) ==
  /\ process[p].pc = "look"
  /\ ~IsFresh(Entry(p))
  /\ Evict(p)
  /\ Goto(p, "reply", document[KeyAt(p)], clock)
  /\ UNCHANGED <<document, clock, faults, history>>

QueryFails(p) ==
  /\ process[p].pc = "look"
  /\ ~IsFresh(Entry(p))
  /\ Fault
  /\ Evict(p)
  /\ Raise(p)
  /\ UNCHANGED <<document, clock, listed, writers>>

\* write_cached takes the time when the answer is there.
FillCache(p) ==
  /\ process[p].pc = "reply"
  /\ process[p].seen # NoDocument
  /\ cache' = [cache EXCEPT ![p][KeyAt(p)] =
                 [expires |-> clock + TTL, document |-> process[p].seen,
                  read |-> process[p].asked]]
  /\ Found(p, process[p].seen)
  /\ UNCHANGED <<document, clock, faults, listed, writers>>

\* Mutant of FindNothing: the version is not set when there is no flag.
FindNothingUnset(p) ==
  /\ process[p].pc = "reply"
  /\ process[p].seen = NoDocument
  /\ IF process[p].op = "get"
     THEN Raise(p)
     ELSE Goto(p, "write", [NoDocument EXCEPT !.version = None], 0) /\ UNCHANGED answer
  /\ UNCHANGED <<document, cache, clock, faults, listed, writers>>

\* FeatureFlagNotFoundError, which set_flag catches and counts as version 0.
FindNothing(p) ==
  /\ process[p].pc = "reply"
  /\ process[p].seen = NoDocument
  /\ IF process[p].op = "get"
     THEN Raise(p)
     ELSE Goto(p, "write", NoDocument, 0) /\ UNCHANGED answer
  /\ UNCHANGED <<document, cache, clock, faults, listed, writers>>

-----------------------------------------------------------------------------
(* The write.  A supplier configuration has no version.                    *)

Written(p) ==
  [version |-> IF KeyAt(p) \in Flag THEN process[p].seen.version + 1 ELSE 0,
   value |-> process[p].value,
   stamp |-> document[KeyAt(p)].stamp + 1]

Upsert(p) ==
  /\ process[p].pc = "write"
  /\ document[KeyAt(p)].stamp < MaxWrites
  /\ document' = [document EXCEPT ![KeyAt(p)] = Written(p)]
  /\ Goto(p, "written", Written(p), 0)
  /\ writers' = [writers EXCEPT ![KeyAt(p)] = @ \cup {p}]
  /\ UNCHANGED <<cache, clock, faults, answer, listed>>

UpsertFails(p) ==
  /\ process[p].pc = "write"
  /\ Fault
  /\ Raise(p)
  /\ UNCHANGED <<document, cache, clock, listed, writers>>

\* The document is written and the call fails all the same: the exception
\* goes past the invalidation of the cache.
LoseReply(p) ==
  /\ process[p].pc = "written"
  /\ Fault
  /\ Raise(p)
  /\ UNCHANGED <<document, cache, clock, listed, writers>>

\* Mutant of EndSet: the cache keeps what set_flag read before it wrote.
EndSetKeepingCache(p) ==
  /\ process[p].pc = "written"
  /\ Answer(p, process[p].seen)
  /\ UNCHANGED <<document, cache, clock, faults, listed, writers>>

EndSet(p) ==
  /\ process[p].pc = "written"
  /\ Evict(p)
  /\ Answer(p, process[p].seen)
  /\ UNCHANGED <<document, clock, faults, listed, writers>>

-----------------------------------------------------------------------------
\* list_flags asks Cosmos for the flags S of a prefix.  It neither looks into
\* the cache nor brings it up to date, and fails without a trace.
ListFlags(p, S) ==
  /\ process[p].pc = "idle"
  /\ listed' = [listed EXCEPT ![p] =
       [k \in Key |-> IF k \in S THEN document[k].stamp ELSE listed[p][k]]]
  /\ UNCHANGED <<document, cache, process, clock, faults, answer, writers>>

-----------------------------------------------------------------------------
Restart(p) ==
  /\ Fault
  /\ cache' = [cache EXCEPT ![p] = [k \in Key |-> NoEntry]]
  /\ Raise(p)
  /\ UNCHANGED <<document, clock, listed, writers>>

Tick ==
  /\ clock < MaxTime
  /\ \A p \in Proc : process[p].pc = "reply" => clock < process[p].asked + MaxDelay
  /\ clock' = clock + 1
  /\ UNCHANGED <<document, cache, process, faults, history>>

Call(p) == ServeCached(p) \/ Query(p) \/ FillCache(p) \/ FindNothing(p) \/ Upsert(p)
CallFails(p) == QueryFails(p) \/ UpsertFails(p) \/ LoseReply(p)

-----------------------------------------------------------------------------
(* Properties.                                                             *)

DocumentOf(k) == [version : Nat, value : ValueOf[k] \cup {None}, stamp : Nat]

EntryOf(k) == [expires : Nat, document : DocumentOf(k), read : Nat]

CallOf(k) ==
  [pc : {"idle", "look", "reply", "write", "written"}, op : {"get", "set"}, key : {k},
   value : ValueOf[k] \cup {None}, seen : DocumentOf(k), asked : Nat]

StoreTypeOK ==
  /\ \A k \in Key : document[k] \in DocumentOf(k)
  /\ \A p \in Proc, k \in Key : cache[p][k] \in EntryOf(k)
  /\ \A p \in Proc : process[p] = Idle \/ \E k \in Key : process[p] \in CallOf(k)
  /\ clock \in Nat /\ faults \in Nat
  /\ answer \in [Proc -> [Key -> Nat]]
  /\ listed \in [Proc -> [Key -> Nat]]
  /\ writers \in [Key -> SUBSET Proc]

\* What get and set answer with never goes back, a process's own writes included,
\* whatever its cache holds and whichever calls of it failed: what set_flag
\* returned is what the next get_flag finds, or something newer.  Nor does
\* list_flags go back, behind an earlier list or behind an answer.  The one way
\* back is from a list to a get: list_flags leaves the cache as it is, and a
\* get_flag after it may still answer with an older document, as long as that
\* is fresh in the cache.
AnswersNeverGoBack ==
  [][\A p \in Proc, k \in Key :
       /\ answer[p][k] <= answer'[p][k] /\ listed[p][k] <= listed'[p][k]
       /\ listed'[p][k] # listed[p][k] => answer[p][k] <= listed'[p][k]
       /\ answer'[p][k] # answer[p][k] /\ answer'[p][k] < listed[p][k] =>
            IsFresh(cache[p][k])]_storeVars

\* What a process may answer without asking was in Cosmos within the time to
\* live and the time Cosmos took to answer, although the time to live is
\* counted from the end of the read.
StaleAtMostTTL ==
  \A p \in Proc, k \in Key :
    IsFresh(cache[p][k]) => clock < cache[p][k].read + TTL + MaxDelay

\* The version of a flag counts its writes as long as one process writes it
\* and no call fails, although set_flag takes the version from the cache.
VersionCountsWrites ==
  \A k \in Flag, p \in Proc :
    writers[k] \subseteq {p} /\ faults = 0 => document[k].version = document[k].stamp
=============================================================================
