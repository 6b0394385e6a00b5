--------------------------- MODULE LearningProofs ---------------------------
(***************************************************************************)
(* Proofs about the feature flags server and the learning job over it, for *)
(* any processes, documents, histories and bounds.                         *)
(*                                                                         *)
(* The facts about the store come first.  What a cycle sets out to write   *)
(* is a matter of data: each write is known to the store, a profile goes   *)
(* before the flags (CycleEarns), and all writes about a supplier with one *)
(* name follow from one profile (CycleFits).  JobInv then carries both     *)
(* along the writes of a cycle, and across cycles that fail.               *)
(***************************************************************************)
EXTENDS Learning, DataTheorems, SequenceTheorems, TLAPS

\* Supersets that do not depend on the key: they make the variables functions.
Values == {None} \cup UNION {ValueOf[k] : k \in Key}
Doc == [version : Nat, value : Values, stamp : Nat]
Ent == [expires : Nat, document : Doc, read : Nat]
Rec == [pc : {"idle", "look", "reply", "write", "written"}, op : {"get", "set"},
        key : Key \cup {None}, value : Values, seen : Doc, asked : Nat]

StoreShape ==
  /\ document \in [Key -> Doc]
  /\ cache \in [Proc -> [Key -> Ent]]
  /\ process \in [Proc -> Rec]
  /\ StoreTypeOK

-----------------------------------------------------------------------------
(* Members of the record sets.                                             *)

LEMMA ValuesOfKey ==
  ASSUME NEW k \in Key
  PROVE  ValueOf[k] \cup {None} \subseteq Values
  BY Zenon DEF Values

LEMMA Subtypes ==
  ASSUME NEW k \in Key
  PROVE  /\ DocumentOf(k) \subseteq Doc
         /\ EntryOf(k) \subseteq Ent
         /\ CallOf(k) \subseteq Rec
<1>1. DocumentOf(k) \subseteq Doc
  BY ValuesOfKey DEF DocumentOf, Doc
<1>2. EntryOf(k) \subseteq Ent
  BY <1>1 DEF EntryOf, Ent
<1>3. CallOf(k) \subseteq Rec
  BY <1>1, ValuesOfKey DEF CallOf, Rec
<1> QED BY <1>1, <1>2, <1>3

LEMMA Constants ==
  /\ NoDocument \in Doc /\ \A k \in Key : NoDocument \in DocumentOf(k)
  /\ NoEntry \in Ent /\ \A k \in Key : NoEntry \in EntryOf(k)
  /\ Idle \in Rec /\ Idle.pc = "idle"
<1>1. None \in Values
  BY Zenon DEF Values
<1>2. NoDocument \in Doc /\ \A k \in Key : NoDocument \in DocumentOf(k)
  BY <1>1 DEF NoDocument, Doc, DocumentOf
<1>3. NoEntry \in Ent /\ \A k \in Key : NoEntry \in EntryOf(k)
  BY <1>2 DEF NoEntry, Ent, EntryOf
<1>4. Idle \in Rec /\ Idle.pc = "idle"
  BY <1>1, <1>2 DEF Idle, Rec
<1> QED BY <1>2, <1>3, <1>4

\* A process that is in a call is in a call about a document.
LEMMA InCall ==
  ASSUME StoreShape, NEW p \in Proc, process[p].pc # "idle"
  PROVE  KeyAt(p) \in Key /\ process[p] \in CallOf(KeyAt(p))
<1>1. process[p] # Idle
  BY Constants
<1>2. PICK k \in Key : process[p] \in CallOf(k)
  BY <1>1 DEF StoreShape, StoreTypeOK
<1>3. process[p].key = k
  BY <1>2 DEF CallOf
<1> QED BY <1>2, <1>3 DEF KeyAt

-----------------------------------------------------------------------------
(* Updates of the variables.                                               *)

LEMMA GotoShape ==
  ASSUME StoreShape, NEW p \in Proc, process[p].pc # "idle",
         NEW d \in DocumentOf(KeyAt(p)), NEW n \in Nat,
         NEW c \in {"look", "reply", "write", "written"}, Goto(p, c, d, n)
  PROVE  /\ process' \in [Proc -> Rec]
         /\ \A q \in Proc : process'[q] = Idle \/ \E k \in Key : process'[q] \in CallOf(k)
         /\ process'[p] = [process[p] EXCEPT !.pc = c, !.seen = d, !.asked = n]
         /\ process'[p].pc = c /\ process'[p].seen = d /\ process'[p].asked = n
         /\ process'[p].key = KeyAt(p) /\ process'[p].op = process[p].op
         /\ \A q \in Proc \ {p} : process'[q] = process[q]
<1> DEFINE new == [process[p] EXCEPT !.pc = c, !.seen = d, !.asked = n]
<1>1. KeyAt(p) \in Key /\ process[p] \in CallOf(KeyAt(p))
  BY InCall
<1>2. /\ new \in CallOf(KeyAt(p))
      /\ new.key = KeyAt(p) /\ new.pc = c /\ new.seen = d /\ new.asked = n
      /\ new.op = process[p].op
  BY <1>1 DEF CallOf
<1>3. process' = [process EXCEPT ![p] = new]
  BY DEF Goto
<1>4. new \in Rec
  BY <1>1, <1>2, Subtypes
<1> HIDE DEF new
<1> QED BY <1>1, <1>2, <1>3, <1>4 DEF StoreShape, StoreTypeOK, new

LEMMA EndShape ==
  ASSUME StoreShape, NEW p \in Proc, process' = [process EXCEPT ![p] = Idle]
  PROVE  /\ process' \in [Proc -> Rec]
         /\ \A q \in Proc : process'[q] = Idle \/ \E k \in Key : process'[q] \in CallOf(k)
  BY Constants DEF StoreShape, StoreTypeOK

LEMMA AnswerShape ==
  ASSUME StoreShape, NEW p \in Proc, process[p].pc # "idle",
         NEW d \in DocumentOf(KeyAt(p)), Answer(p, d)
  PROVE  /\ process' \in [Proc -> Rec]
         /\ \A q \in Proc : process'[q] = Idle \/ \E k \in Key : process'[q] \in CallOf(k)
         /\ answer' \in [Proc -> [Key -> Nat]]
<1>1. d.stamp \in Nat /\ KeyAt(p) \in Key
  BY InCall DEF DocumentOf
<1> QED BY <1>1, EndShape DEF Answer, StoreShape, StoreTypeOK

LEMMA FoundShape ==
  ASSUME StoreShape, NEW p \in Proc, process[p].pc # "idle",
         NEW d \in DocumentOf(KeyAt(p)), Found(p, d)
  PROVE  /\ process' \in [Proc -> Rec]
         /\ \A q \in Proc : process'[q] = Idle \/ \E k \in Key : process'[q] \in CallOf(k)
         /\ answer' \in [Proc -> [Key -> Nat]]
<1>1. CASE process[p].op = "get"
  BY <1>1, AnswerShape DEF Found
<1>2. CASE process[p].op # "get"
  <2>1. Goto(p, "write", d, 0) /\ UNCHANGED answer
    BY <1>2 DEF Found
  <2> QED BY <2>1, GotoShape DEF StoreShape, StoreTypeOK
<1> QED BY <1>1, <1>2

LEMMA StoringShape ==
  ASSUME StoreShape, NEW p \in Proc, NEW k \in Key, NEW e \in EntryOf(k),
         cache' = [cache EXCEPT ![p][k] = e]
  PROVE  /\ cache' \in [Proc -> [Key -> Ent]]
         /\ \A q \in Proc, l \in Key : cache'[q][l] \in EntryOf(l)
         /\ cache'[p][k] = e
         /\ \A q \in Proc, l \in Key : q # p \/ l # k => cache'[q][l] = cache[q][l]
<1>1. e \in Ent
  BY Subtypes
<1> QED BY <1>1 DEF StoreShape, StoreTypeOK

LEMMA ResetShape ==
  ASSUME StoreShape, NEW p \in Proc,
         cache' = [cache EXCEPT ![p] = [k \in Key |-> NoEntry]]
  PROVE  /\ cache' \in [Proc -> [Key -> Ent]]
         /\ \A q \in Proc, l \in Key : cache'[q][l] \in EntryOf(l)
  BY Constants DEF StoreShape, StoreTypeOK

-----------------------------------------------------------------------------
(* Each step of the store keeps the shape.                                 *)

LEMMA BeginShape ==
  ASSUME StoreShape, NEW p \in Proc, NEW op \in {"get", "set"}, NEW key \in Key,
         NEW value \in ValueOf[key] \cup {None}, Begin(p, op, key, value)
  PROVE  StoreShape'
<1> DEFINE new == [pc |-> IF op = "set" /\ key \in Config THEN "write" ELSE "look",
                   op |-> op, key |-> key, value |-> value, seen |-> NoDocument,
                   asked |-> 0]
<1>1. new \in CallOf(key)
  BY Constants DEF CallOf
<1>2. new \in Rec
  BY <1>1, Subtypes
<1>3. process' = [process EXCEPT ![p] = new]
  BY DEF Begin
<1> HIDE DEF new
<1> QED BY <1>1, <1>2, <1>3 DEF Begin, StoreShape, StoreTypeOK, history

LEMMA WrittenType ==
  ASSUME StoreShape, NEW p \in Proc, process[p].pc # "idle"
  PROVE  Written(p) \in DocumentOf(KeyAt(p))
<1>1. KeyAt(p) \in Key /\ process[p] \in CallOf(KeyAt(p))
  BY InCall
<1>2. document[KeyAt(p)].stamp \in Nat /\ process[p].seen.version \in Nat
      /\ process[p].value \in ValueOf[KeyAt(p)] \cup {None}
  BY <1>1 DEF StoreShape, StoreTypeOK, CallOf, DocumentOf
<1> QED BY <1>2 DEF Written, DocumentOf

LEMMA CallShape ==
  ASSUME StoreShape, NEW p \in Proc, Call(p)
  PROVE  StoreShape'
<1>1. process[p].pc # "idle"
  BY DEF Call, ServeCached, Query, FillCache, FindNothing, Upsert
<1>2. /\ KeyAt(p) \in Key
      /\ process[p].seen \in DocumentOf(KeyAt(p)) /\ process[p].asked \in Nat
      /\ document[KeyAt(p)] \in DocumentOf(KeyAt(p))
      /\ Entry(p) \in EntryOf(KeyAt(p))
  BY <1>1, InCall DEF CallOf, Entry, StoreShape, StoreTypeOK
<1>3. CASE ServeCached(p)
  <2>1. Entry(p).document \in DocumentOf(KeyAt(p)) /\ Found(p, Entry(p).document)
    BY <1>2, <1>3 DEF ServeCached, EntryOf
  <2> QED BY <1>1, <1>3, <2>1, FoundShape DEF ServeCached, StoreShape, StoreTypeOK
<1>4. CASE Query(p)
  <2>1. cache' = [cache EXCEPT ![p][KeyAt(p)] = NoEntry] /\ NoEntry \in EntryOf(KeyAt(p))
    BY <1>2, <1>4, Constants DEF Query, Evict
  <2>2. Goto(p, "reply", document[KeyAt(p)], clock) /\ clock \in Nat
    BY <1>4 DEF Query, StoreShape, StoreTypeOK
  <2> QED BY <1>1, <1>2, <1>4, <2>1, <2>2, GotoShape, StoringShape
             DEF Query, StoreShape, StoreTypeOK, history
<1>5. CASE FillCache(p)
  <2> DEFINE e == [expires |-> clock + TTL, document |-> process[p].seen,
                   read |-> process[p].asked]
  <2>1. e \in EntryOf(KeyAt(p))
    BY <1>2, FlagStoreAssumption DEF StoreShape, StoreTypeOK, EntryOf
  <2>2. cache' = [cache EXCEPT ![p][KeyAt(p)] = e] /\ Found(p, process[p].seen)
    BY <1>5 DEF FillCache
  <2> HIDE DEF e
  <2> QED BY <1>1, <1>2, <1>5, <2>1, <2>2, FoundShape, StoringShape
             DEF FillCache, StoreShape, StoreTypeOK
<1>6. CASE FindNothing(p)
  <2>1. CASE process[p].op = "get"
    <3>1. process' = [process EXCEPT ![p] = Idle] /\ UNCHANGED answer
      BY <1>6, <2>1 DEF FindNothing, Raise
    <3> QED BY <1>6, <3>1, EndShape DEF FindNothing, StoreShape, StoreTypeOK
  <2>2. CASE process[p].op # "get"
    <3>1. Goto(p, "write", NoDocument, 0) /\ UNCHANGED answer
      BY <1>6, <2>2 DEF FindNothing
    <3>2. NoDocument \in DocumentOf(KeyAt(p))
      BY <1>2, Constants
    <3> QED BY <1>1, <1>6, <3>1, <3>2, GotoShape DEF FindNothing, StoreShape, StoreTypeOK
  <2> QED BY <2>1, <2>2
<1>7. CASE Upsert(p)
  <2>1. Goto(p, "written", Written(p), 0) /\ Written(p) \in DocumentOf(KeyAt(p))
    BY <1>1, <1>7, WrittenType DEF Upsert
  <2>2. Written(p) \in Doc
    BY <1>2, <2>1, Subtypes
  <2>3. /\ document' = [document EXCEPT ![KeyAt(p)] = Written(p)]
        /\ writers' = [writers EXCEPT ![KeyAt(p)] = @ \cup {p}]
        /\ UNCHANGED <<cache, clock, faults, answer, listed>>
    BY <1>7 DEF Upsert
  <2>4. document' \in [Key -> Doc] /\ \A k \in Key : document'[k] \in DocumentOf(k)
    BY <2>1, <2>2, <2>3 DEF StoreShape, StoreTypeOK
  <2>5. writers' \in [Key -> SUBSET Proc]
    BY <2>3 DEF StoreShape, StoreTypeOK
  <2> QED BY <1>1, <2>1, <2>3, <2>4, <2>5, GotoShape DEF StoreShape, StoreTypeOK
<1> QED BY <1>3, <1>4, <1>5, <1>6, <1>7 DEF Call

LEMMA EndSetShape ==
  ASSUME StoreShape, NEW p \in Proc, EndSet(p)
  PROVE  StoreShape'
<1>1. process[p].pc # "idle"
  BY DEF EndSet
<1>2. KeyAt(p) \in Key /\ process[p].seen \in DocumentOf(KeyAt(p))
  BY <1>1, InCall DEF CallOf
<1>3. cache' = [cache EXCEPT ![p][KeyAt(p)] = NoEntry] /\ NoEntry \in EntryOf(KeyAt(p))
  BY <1>2, Constants DEF EndSet, Evict
<1>4. Answer(p, process[p].seen)
  BY DEF EndSet
<1> QED BY <1>1, <1>2, <1>3, <1>4, AnswerShape, StoringShape
           DEF EndSet, StoreShape, StoreTypeOK

LEMMA FailsShape ==
  ASSUME StoreShape, NEW p \in Proc, CallFails(p) \/ Restart(p)
  PROVE  StoreShape'
<1>1. process' = [process EXCEPT ![p] = Idle] /\ UNCHANGED <<answer, listed, document, clock, writers>>
      /\ faults' \in Nat
  <2>1. faults \in Nat
    BY DEF StoreShape, StoreTypeOK
  <2> QED BY <2>1 DEF CallFails, QueryFails, UpsertFails, LoseReply, Restart, Raise, Fault
<1>2. CASE QueryFails(p)
  <2>1. KeyAt(p) \in Key /\ NoEntry \in EntryOf(KeyAt(p))
    BY <1>2, InCall, Constants DEF QueryFails
  <2>2. cache' = [cache EXCEPT ![p][KeyAt(p)] = NoEntry]
    BY <1>2 DEF QueryFails, Evict
  <2> QED BY <1>1, <2>1, <2>2, EndShape, StoringShape DEF StoreShape, StoreTypeOK
<1>3. CASE UpsertFails(p) \/ LoseReply(p)
  <2>1. UNCHANGED cache
    BY <1>3 DEF UpsertFails, LoseReply
  <2> QED BY <1>1, <2>1, EndShape DEF StoreShape, StoreTypeOK
<1>4. CASE Restart(p)
  <2>1. cache' = [cache EXCEPT ![p] = [k \in Key |-> NoEntry]]
    BY <1>4 DEF Restart
  <2> QED BY <1>1, <2>1, EndShape, ResetShape DEF StoreShape, StoreTypeOK
<1> QED BY <1>2, <1>3, <1>4 DEF CallFails

LEMMA ListShape ==
  ASSUME StoreShape, NEW p \in Proc, NEW S, ListFlags(p, S)
  PROVE  StoreShape'
<1> DEFINE new == [k \in Key |-> IF k \in S THEN document[k].stamp ELSE listed[p][k]]
<1>1. \A k \in Key : document[k].stamp \in Nat /\ listed[p][k] \in Nat
  BY DEF StoreShape, StoreTypeOK, DocumentOf
<1>2. new \in [Key -> Nat]
  BY <1>1
<1>3. listed' = [listed EXCEPT ![p] = new]
  BY DEF ListFlags
<1> HIDE DEF new
<1>4. listed' \in [Proc -> [Key -> Nat]]
  BY <1>2, <1>3 DEF StoreShape, StoreTypeOK
<1> QED BY <1>4 DEF ListFlags, StoreShape, StoreTypeOK

LEMMA TickShape ==
  ASSUME StoreShape, Tick
  PROVE  StoreShape'
  BY DEF Tick, StoreShape, StoreTypeOK, history

-----------------------------------------------------------------------------
(* What a cycle writes.                                                    *)

\* The elements of a sequence at given positions.
LEMMA AtElements ==
  ASSUME NEW S, NEW s \in Seq(S), NEW I
  PROVE  /\ At(s, I) \in Seq(S)
         /\ Range(At(s, I)) = {s[i] : i \in I \cap DOMAIN s}
<1> DEFINE q == [i \in DOMAIN s |-> IF i \in I THEN <<s[i]>> ELSE <<>>]
<1>1. Len(s) \in Nat /\ DOMAIN s = 1..Len(s) /\ \A i \in DOMAIN s : s[i] \in S
  BY ElementOfSeq, LenProperties
<1>2. q \in [1..Len(s) -> Seq(S)]
  BY <1>1, EmptySeq
<1>3. q \in Seq(Seq(S)) /\ DOMAIN q = DOMAIN s
  BY <1>1, <1>2, SeqDef
<1>4. \A i \in DOMAIN s : Range(q[i]) = IF i \in I THEN {s[i]} ELSE {}
  <2> TAKE i \in DOMAIN s
  <2>1. CASE i \in I
    <3>1. q[i] = <<s[i]>>
      BY <2>1
    <3>2. DOMAIN <<s[i]>> = {1} /\ <<s[i]>>[1] = s[i]
      OBVIOUS
    <3> QED BY <2>1, <3>1, <3>2 DEF Range
  <2>2. CASE i \notin I
    <3>1. q[i] = <<>>
      BY <2>2
    <3>2. DOMAIN <<>> = {}
      OBVIOUS
    <3> QED BY <2>2, <3>1, <3>2 DEF Range
  <2> QED BY <2>1, <2>2
<1>5. At(s, I) = FlattenSeq(q)
  BY DEF At
<1>6. FlattenSeq(q) \in Seq(S) /\ Range(FlattenSeq(q)) = UNION {Range(q[i]) : i \in DOMAIN q}
  BY <1>3, FlattenElements
<1> HIDE DEF q
<1>7. UNION {Range(q[i]) : i \in DOMAIN q} = {s[i] : i \in I \cap DOMAIN s}
  BY <1>3, <1>4
<1> QED BY <1>5, <1>6, <1>7

LEMMA LeastOf ==
  ASSUME NEW I, I \subseteq Nat, I # {}
  PROVE  Min(I) \in I /\ \A i \in I : Min(I) <= i
<1>1. \E m \in I : \A i \in I : m =< i
  BY LeastNatural
<1> QED BY <1>1 DEF Min

LEMMA ProcessedRecords ==
  ASSUME NEW store \in History
  PROVE  ListProcessedRecords(store) \in Seq(Range(store))
<1>1. PICK recent :
        /\ recent \in Seq(Range(store))
        /\ ListProcessedRecords(store) = SubSeq(recent, 1, Min({QueryBatchSize, Len(recent)}))
  BY AtElements, LearningAssumption DEF ListProcessedRecords, IsHistory
<1>2. PICK n : n = Min({QueryBatchSize, Len(recent)})
  OBVIOUS
<1>3. Len(recent) \in Nat /\ DOMAIN recent = 1..Len(recent)
      /\ \A i \in 1..Len(recent) : recent[i] \in Range(store)
  BY <1>1, ElementOfSeq, LenProperties
<1>4. n \in Nat /\ n <= Len(recent)
  <2>1. {QueryBatchSize, Len(recent)} \subseteq Nat
    BY <1>3, LearningAssumption
  <2> QED BY <1>2, <2>1, LeastOf
<1>5. \A i \in 1..n : recent[i] \in Range(store)
  BY <1>3, <1>4
<1>6. SubSeq(recent, 1, n) \in Seq(Range(store))
  <2>1. 1 \in Int /\ n \in Int
    BY <1>4
  <2> QED BY ONLY <1>5, <2>1, SubSeqProperties
<1> QED BY <1>1, <1>2, <1>6

LEMMA OneSupplier ==
  ASSUME NEW r
  PROVE  SupplierId(r) = {} \/ \E x : SupplierId(r) = {x} /\ OneOf(SupplierId(r)) = x
<1>1. SupplierId(r) = {} \/ \E x : SupplierId(r) = {x}
  <2> DEFINE given == SelectSeq(<<"supplier_id", "vendor_number", "vendorNumber",
                 "extraction.supplier_tax_id", "triage.supplier_id">>, LAMBDA f : f \in DOMAIN r)
  <2>1. SupplierId(r) = {r[f] : f \in IF given = <<>> THEN {} ELSE {Head(given)}}
    BY DEF SupplierId, FirstOf
  <2> HIDE DEF given
  <2>2. CASE given = <<>>
    BY <2>1, <2>2
  <2>3. CASE given # <<>>
    <3>1. SupplierId(r) = {r[Head(given)]}
      BY <2>1, <2>3
    <3> QED BY <3>1
  <2> QED BY <2>2, <2>3
<1>2. \A x : OneOf({x}) = x
  BY DEF OneOf
<1> QED BY <1>1, <1>2

\* The reputation of the group of the record at i.
ReputationAt(g, i) == BuildReputation(g, {j \in DOMAIN g : SameGroup(g, i, j)})

LEMMA GroupedRecords ==
  ASSUME NEW S, NEW records \in Seq(S), NEW g, g = Grouped(records)
  PROVE  /\ g \in Seq(S)
         /\ \A i \in DOMAIN g : g[i] \in Range(records) /\ SupplierId(g[i]) # {}
<1> DEFINE I == {i \in DOMAIN records : SupplierId(records[i]) # {} /\ SupplierName(records[i]) # {}}
<1>1. g = At(records, I)
  BY DEF Grouped
<1>2. \A i \in I : SupplierId(records[i]) # {} /\ i \in DOMAIN records
  OBVIOUS
<1> HIDE DEF I
<1>3. g \in Seq(S) /\ Range(g) = {records[i] : i \in I \cap DOMAIN records}
  BY <1>1, AtElements
<1>4. \A i \in DOMAIN g : g[i] \in {records[j] : j \in I \cap DOMAIN records}
  BY <1>3 DEF Range
<1> QED BY <1>2, <1>3, <1>4 DEF Range

\* There is a reputation for each group, at its first record.
LEMMA ReputationsOf ==
  ASSUME NEW S, NEW records \in Seq(S), NEW g, g = Grouped(records)
  PROVE  /\ Reputations(records) \in Seq({ReputationAt(g, i) : i \in DOMAIN g})
         /\ Range(Reputations(records)) = {ReputationAt(g, i) : i \in FirstRecords(g)}
<1> DEFINE all == [i \in DOMAIN g |-> ReputationAt(g, i)]
           T == {ReputationAt(g, i) : i \in DOMAIN g}
<1>1. g \in Seq(S)
  BY GroupedRecords
<1>2. Len(g) \in Nat /\ DOMAIN g = 1..Len(g)
  BY <1>1, LenProperties
<1>3. all \in [1..Len(g) -> T]
  BY <1>2
<1>4. all \in Seq(T)
  BY <1>2, <1>3, SeqDef
<1>5. Reputations(records) = At(all, FirstRecords(g))
  BY DEF Reputations, ReputationAt
<1>6. DOMAIN all = DOMAIN g /\ \A i \in DOMAIN g : all[i] = ReputationAt(g, i)
  OBVIOUS
<1>7. FirstRecords(g) \cap DOMAIN g = FirstRecords(g)
  BY DEF FirstRecords
<1> HIDE DEF all, T
<1>8. /\ Reputations(records) \in Seq(T)
      /\ Range(Reputations(records)) = {all[i] : i \in FirstRecords(g) \cap DOMAIN all}
  BY <1>4, <1>5, AtElements
<1>9. {all[i] : i \in FirstRecords(g) \cap DOMAIN all} = {ReputationAt(g, i) : i \in FirstRecords(g)}
  BY <1>6, <1>7
<1> QED BY <1>8, <1>9 DEF T

\* The group of a record starts with a first record, and the two share their
\* supplier.
LEMMA GroupStarts ==
  ASSUME NEW S, NEW g \in Seq(S), NEW i \in DOMAIN g
  PROVE  /\ \E m \in FirstRecords(g) : SameGroup(g, i, m)
         /\ Min({j \in DOMAIN g : SameGroup(g, i, j)}) \in DOMAIN g
         /\ SupplierId(g[Min({j \in DOMAIN g : SameGroup(g, i, j)})]) = SupplierId(g[i])
<1>1. PICK I : I = {j \in DOMAIN g : SameGroup(g, i, j)}
  OBVIOUS
<1>2. Len(g) \in Nat /\ DOMAIN g = 1..Len(g)
  BY LenProperties
<1>3. I \subseteq Nat /\ i \in I
  BY <1>1, <1>2 DEF SameGroup
<1>4. PICK m : m = Min(I)
  OBVIOUS
<1>5. m \in I /\ \A j \in I : m <= j
  BY <1>3, <1>4, LeastOf
<1>6. m \in DOMAIN g /\ SameGroup(g, i, m)
  BY <1>1, <1>5
<1>7. ASSUME NEW j \in 1..(m - 1) PROVE ~SameGroup(g, m, j)
  <2>1. j \in DOMAIN g /\ ~ (m <= j)
    BY <1>2, <1>6
  <2>2. j \notin I
    BY <1>5, <2>1
  <2> QED BY <1>1, <1>6, <2>1, <2>2 DEF SameGroup
<1>8. m \in FirstRecords(g)
  BY <1>6, <1>7 DEF FirstRecords
<1> QED BY <1>1, <1>4, <1>6, <1>8 DEF SameGroup

LEMMA ReputationAbout ==
  ASSUME NEW S, NEW g \in Seq(S), NEW i \in DOMAIN g, SupplierId(g[i]) # {}
  PROVE  /\ SupplierId(g[i]) = {ReputationAt(g, i).supplier}
         /\ ReputationAt(g, i).profile \in Profile
<1>1. PICK I : I = {j \in DOMAIN g : SameGroup(g, i, j)}
  OBVIOUS
<1>2. SupplierId(g[Min(I)]) = SupplierId(g[i])
  BY <1>1, GroupStarts
<1>3. ReputationAt(g, i) = BuildReputation(g, I)
  BY <1>1 DEF ReputationAt
<1>4. ReputationAt(g, i).supplier = OneOf(SupplierId(g[Min(I)]))
  BY <1>3 DEF BuildReputation
<1>5. PICK t, a, b :
        ReputationAt(g, i).profile =
          [eligible |-> Eligible(t, a, b), tolerance |-> RecommendedTolerance(a, b)]
  BY <1>3 DEF BuildReputation
<1>6. ReputationAt(g, i).profile \in Profile
  <2>1. Eligible(t, a, b) \in BOOLEAN
    BY DEF Eligible
  <2>2. RecommendedTolerance(a, b) \in Tolerance
    BY DEF RecommendedTolerance, Tolerance
  <2> QED BY <1>5, <2>1, <2>2 DEF Profile
<1> QED BY <1>2, <1>4, <1>6, OneSupplier

\* Deduplication leaves each proposal once.
LEMMA DeduplicatedElements ==
  ASSUME NEW S, NEW p \in Seq(S)
  PROVE  /\ Deduplicated(p) \in Seq(S)
         /\ Range(Deduplicated(p)) = Range(p)
<1> DEFINE I == {i \in DOMAIN p : \A j \in 1..(i - 1) : p[j] # p[i]}
<1>1. Len(p) \in Nat /\ DOMAIN p = 1..Len(p)
  BY LenProperties
<1>2. ASSUME NEW x \in Range(p) PROVE \E i \in I : p[i] = x
  <2>1. PICK K : K = {j \in DOMAIN p : p[j] = x}
    OBVIOUS
  <2>2. K \subseteq Nat /\ K # {}
    BY <1>1, <2>1 DEF Range
  <2>3. PICK m \in K : \A j \in K : m <= j
    BY <2>2, LeastNatural
  <2>4. m \in DOMAIN p /\ p[m] = x
    BY <2>1
  <2>5. ASSUME NEW j \in 1..(m - 1) PROVE p[j] # p[m]
    <3>1. j \in DOMAIN p /\ ~ (m <= j)
      BY <1>1, <2>4
    <3> QED BY <2>1, <2>3, <2>4, <3>1
  <2> QED BY <2>4, <2>5
<1>3. Deduplicated(p) = At(p, I) /\ I \cap DOMAIN p = I
  BY DEF Deduplicated
<1>4. I \subseteq DOMAIN p
  OBVIOUS
<1> HIDE DEF I
<1>5. /\ Deduplicated(p) \in Seq(S)
      /\ Range(Deduplicated(p)) = {p[i] : i \in I \cap DOMAIN p}
  BY <1>3, AtElements
<1>6. {p[i] : i \in I} = Range(p)
  BY <1>2, <1>4 DEF Range
<1> QED BY <1>3, <1>5, <1>6

\* What a reputation proposes by itself and through the insight about it.
Proposed(r) == Range(FromReputation(r)) \cup Range(FromInsight(r))

LEMMA ProposedBy ==
  ASSUME NEW r
  PROVE  /\ FromReputation(r) \in Seq(Proposed(r)) /\ FromInsight(r) \in Seq(Proposed(r))
         /\ Update(r.supplier, "tolerance_pct", r.profile.tolerance) \in Proposed(r)
         /\ Update(r.supplier, "auto_approve", Text(r.profile.eligible)) \in Proposed(r)
         /\ \A w \in Proposed(r) :
              \/ w = Update(r.supplier, "tolerance_pct", r.profile.tolerance)
              \/ w = Update(r.supplier, "auto_approve", Text(r.profile.eligible))
              \/ w = Update(r.supplier, "force_hitl", "true")
<1>1. PICK a, b, c : /\ a = Update(r.supplier, "tolerance_pct", r.profile.tolerance)
                     /\ b = Update(r.supplier, "auto_approve", Text(r.profile.eligible))
                     /\ c = Update(r.supplier, "force_hitl", "true")
  OBVIOUS
<1>2. FromReputation(r) \in {<<a, b>> \o <<c>>, <<a, b>> \o <<>>}
  BY <1>1 DEF FromReputation
<1>3. /\ <<a, b>> \in Seq({a, b, c}) /\ <<c>> \in Seq({a, b, c}) /\ <<>> \in Seq({a, b, c})
      /\ Range(<<a, b>>) = {a, b} /\ Range(<<c>>) = {c} /\ Range(<<>>) = {}
      /\ Range(<<b>>) = {b} /\ <<b>> \in Seq({a, b, c})
  BY DEF Range
<1>4. FromReputation(r) \in Seq({a, b, c}) /\ Range(FromReputation(r)) \in {{a, b, c}, {a, b}}
  <2>1. CASE FromReputation(r) = <<a, b>> \o <<c>>
    <3>1. <<a, b>> \o <<c>> \in Seq({a, b, c})
      BY <1>3, ConcatProperties
    <3>2. Range(<<a, b>> \o <<c>>) = {a, b} \cup {c}
      <4>1. PICK T, u, v : T = {a, b, c} /\ u = <<a, b>> /\ v = <<c>>
        OBVIOUS
      <4>2. u \in Seq(T) /\ v \in Seq(T)
        BY <1>3, <4>1
      <4>3. Range(u \o v) = Range(u) \cup Range(v)
        BY ONLY <4>2, RangeConcatenation
      <4> QED BY <1>3, <4>1, <4>3
    <3>3. {a, b} \cup {c} = {a, b, c}
      OBVIOUS
    <3> QED BY <2>1, <3>1, <3>2, <3>3
  <2>2. CASE FromReputation(r) = <<a, b>> \o <<>>
    <3>1. <<a, b>> \o <<>> = <<a, b>>
      BY <1>3, ConcatEmptySeq
    <3> QED BY <1>3, <2>2, <3>1
  <2> QED BY <1>2, <2>1, <2>2
<1>5. FromInsight(r) \in {<<b>>, <<c>>, <<>>}
  <2>1. CASE r.profile.eligible
    <3>1. Text(r.profile.eligible) = "true"
      BY <2>1 DEF Text
    <3> QED BY <1>1, <2>1, <3>1 DEF FromInsight
  <2>2. CASE ~r.profile.eligible
    BY <1>1, <2>2 DEF FromInsight
  <2> QED BY <2>1, <2>2
<1>6. FromInsight(r) \in Seq({a, b, c}) /\ Range(FromInsight(r)) \subseteq {b, c}
  BY <1>3, <1>5
<1>7. /\ FromReputation(r) \in Seq(Range(FromReputation(r)))
      /\ FromInsight(r) \in Seq(Range(FromInsight(r)))
  BY <1>4, <1>6, SeqOfRange
<1>8. FromReputation(r) \in Seq(Proposed(r)) /\ FromInsight(r) \in Seq(Proposed(r))
  BY <1>7, SeqMonotonic DEF Proposed
<1> QED BY <1>1, <1>4, <1>6, <1>8 DEF Proposed

LEMMA ProposalElements ==
  ASSUME NEW S, NEW rs \in Seq(S)
  PROVE  /\ Proposals(rs) \in Seq(UNION {Proposed(r) : r \in S})
         /\ Range(Proposals(rs)) = UNION {Proposed(r) : r \in Range(rs)}
<1>1. PICK T : T = UNION {Proposed(r) : r \in S}
  OBVIOUS
<1> DEFINE a == [m \in DOMAIN rs |-> FromReputation(rs[m])]
           b == [m \in DOMAIN rs |-> FromInsight(rs[m])]
<1>2. Len(rs) \in Nat /\ DOMAIN rs = 1..Len(rs) /\ \A m \in DOMAIN rs : rs[m] \in S
  BY ElementOfSeq, LenProperties
<1>3. ASSUME NEW r \in S PROVE FromReputation(r) \in Seq(T) /\ FromInsight(r) \in Seq(T)
  <2>1. Proposed(r) \subseteq T
    BY <1>1
  <2> QED BY <2>1, ProposedBy, SeqMonotonic
<1>4. a \in [1..Len(rs) -> Seq(T)] /\ b \in [1..Len(rs) -> Seq(T)]
  BY <1>2, <1>3
<1>5. a \in Seq(Seq(T)) /\ b \in Seq(Seq(T))
  BY <1>2, <1>4, SeqDef
<1>6. /\ DOMAIN a = DOMAIN rs /\ DOMAIN b = DOMAIN rs
      /\ \A m \in DOMAIN rs : a[m] = FromReputation(rs[m]) /\ b[m] = FromInsight(rs[m])
  OBVIOUS
<1>7. Proposals(rs) = Deduplicated(FlattenSeq(a) \o FlattenSeq(b))
  BY DEF Proposals, ForEach
<1> HIDE DEF a, b
<1>8. /\ FlattenSeq(a) \in Seq(T) /\ FlattenSeq(b) \in Seq(T)
      /\ Range(FlattenSeq(a)) = UNION {Range(a[m]) : m \in DOMAIN a}
      /\ Range(FlattenSeq(b)) = UNION {Range(b[m]) : m \in DOMAIN b}
  BY <1>5, FlattenElements
<1>9. PICK p : p = FlattenSeq(a) \o FlattenSeq(b)
  OBVIOUS
<1>10. p \in Seq(T) /\ Range(p) = Range(FlattenSeq(a)) \cup Range(FlattenSeq(b))
  BY <1>8, <1>9, ConcatProperties, RangeConcatenation
<1>11. Proposals(rs) \in Seq(T) /\ Range(Proposals(rs)) = Range(p)
  BY <1>7, <1>9, <1>10, DeduplicatedElements
<1>12. Range(p) = UNION {Proposed(rs[m]) : m \in DOMAIN rs}
  BY <1>6, <1>8, <1>10 DEF Proposed
<1>13. UNION {Proposed(rs[m]) : m \in DOMAIN rs} = UNION {Proposed(r) : r \in Range(rs)}
  BY DEF Range
<1> QED BY <1>1, <1>11, <1>12, <1>13

\* The write of a profile.
ProfileOf(r) == [key |-> r.supplier, value |-> r.profile]

\* The suppliers of the reputations have configuration documents.
LEMMA SuppliersOf ==
  ASSUME NEW R, NEW h \in Seq(R), \A r \in R : SupplierId(r) \subseteq Config,
         NEW g, g = Grouped(h)
  PROVE  /\ g \in Seq(R) /\ FirstRecords(g) \subseteq DOMAIN g
         /\ \A i \in DOMAIN g : /\ SupplierId(g[i]) = {ReputationAt(g, i).supplier}
                                /\ ReputationAt(g, i).supplier \in Config
                                /\ ReputationAt(g, i).profile \in Profile
<1>1. g \in Seq(R) /\ \A i \in DOMAIN g : SupplierId(g[i]) # {}
  BY GroupedRecords
<1>2. \A i \in DOMAIN g : g[i] \in R
  BY <1>1, ElementOfSeq, LenProperties
<1>3. \A i \in DOMAIN g : SupplierId(g[i]) \subseteq Config
  BY <1>2
<1>4. \A i \in DOMAIN g : /\ SupplierId(g[i]) = {ReputationAt(g, i).supplier}
                          /\ ReputationAt(g, i).profile \in Profile
  BY <1>1, ReputationAbout
<1>5. FirstRecords(g) \subseteq DOMAIN g
  BY DEF FirstRecords
<1> QED BY <1>1, <1>3, <1>4, <1>5

\* What the job lists of a history is about suppliers that have documents.
LEMMA ProcessedSuppliers ==
  ASSUME NEW store \in History
  PROVE  \A r \in Range(store) : SupplierId(r) \subseteq Config
  BY LearningAssumption DEF IsHistory

\* The profiles of the reputations come first, and what they propose follows.
LEMMA WritesInOrder ==
  ASSUME NEW S, NEW rs \in Seq(S), NEW W, W = Writes(Profiles(rs), Proposals(rs))
  PROVE  /\ Len(rs) \in Nat /\ DOMAIN rs = 1..Len(rs)
         /\ Len(W) \in Nat /\ DOMAIN W = 1..Len(W) /\ Len(rs) <= Len(W)
         /\ \A i \in 1..Len(rs) : W[i] = ProfileOf(rs[i])
         /\ \A i \in (DOMAIN W) \ (1..Len(rs)) : \E r \in Range(rs) : W[i] \in Proposed(r)
         /\ ApplyFeatureFlagProposals =>
              \A r \in Range(rs) : \A w \in Proposed(r) : \E i \in DOMAIN W : W[i] = w
<1>1. PICK A, C : /\ A = {ProfileOf(r) : r \in S}
                  /\ C = UNION {Proposed(r) : r \in S}
  OBVIOUS
<1>2. Len(rs) \in Nat /\ DOMAIN rs = 1..Len(rs) /\ \A m \in DOMAIN rs : rs[m] \in S
  BY ElementOfSeq, LenProperties
<1>3. PICK a : a = Profiles(rs)
  OBVIOUS
<1>4. PICK b : b = IF ApplyFeatureFlagProposals THEN Proposals(rs) ELSE <<>>
  OBVIOUS
<1>5. a \in Seq(A) /\ Len(a) = Len(rs) /\ \A i \in 1..Len(rs) : a[i] = ProfileOf(rs[i])
  <2>1. a = [m \in 1..Len(rs) |-> ProfileOf(rs[m])]
    BY <1>2, <1>3 DEF Profiles, ProfileOf
  <2>2. \A m \in 1..Len(rs) : ProfileOf(rs[m]) \in A
    BY <1>1, <1>2
  <2>3. a \in [1..Len(rs) -> A]
    BY <2>1, <2>2
  <2>4. a \in Seq(A)
    BY <1>2, <2>3, SeqDef
  <2>5. DOMAIN a = 1..Len(rs) /\ \A i \in 1..Len(rs) : a[i] = ProfileOf(rs[i])
    BY <2>1
  <2>6. Len(a) = Len(rs)
    BY <1>2, <2>4, <2>5, LenProperties
  <2> QED BY <2>4, <2>5, <2>6
<1>6. /\ b \in Seq(C)
      /\ Range(b) \subseteq UNION {Proposed(r) : r \in Range(rs)}
      /\ ApplyFeatureFlagProposals => Range(b) = UNION {Proposed(r) : r \in Range(rs)}
  <2>1. CASE ApplyFeatureFlagProposals
    BY <1>1, <1>4, <2>1, ProposalElements
  <2>2. CASE ~ApplyFeatureFlagProposals
    <3>1. b = <<>> /\ Range(<<>>) = {} /\ <<>> \in Seq(C)
      BY <1>4, <2>2, EmptySeq DEF Range
    <3> QED BY <2>2, <3>1
  <2> QED BY <2>1, <2>2
<1>7. W = a \o b
  BY <1>3, <1>4 DEF Writes
<1>8. a \in Seq(A \cup C) /\ b \in Seq(A \cup C)
  BY <1>5, <1>6, SeqMonotonic
<1>9. /\ W \in Seq(A \cup C) /\ Len(W) = Len(a) + Len(b)
      /\ \A i \in 1..(Len(a) + Len(b)) : W[i] = IF i <= Len(a) THEN a[i] ELSE b[i - Len(a)]
      /\ Range(W) = Range(a) \cup Range(b)
  BY <1>7, <1>8, ConcatProperties, RangeConcatenation
<1>10. /\ Len(b) \in Nat /\ DOMAIN b = 1..Len(b)
       /\ Len(W) \in Nat /\ DOMAIN W = 1..Len(W)
  BY <1>6, <1>9, LenProperties
<1>11. \A i \in 1..Len(rs) : W[i] = ProfileOf(rs[i])
  BY <1>2, <1>5, <1>9, <1>10
<1>12. ASSUME NEW i \in (DOMAIN W) \ (1..Len(rs))
       PROVE  \E r \in Range(rs) : W[i] \in Proposed(r)
  <2>1. i - Len(rs) \in DOMAIN b /\ W[i] = b[i - Len(rs)]
    BY <1>2, <1>5, <1>9, <1>10
  <2>2. W[i] \in Range(b)
    BY <2>1 DEF Range
  <2> QED BY <1>6, <2>2
<1>13. ASSUME ApplyFeatureFlagProposals, NEW r \in Range(rs), NEW w \in Proposed(r)
       PROVE  \E i \in DOMAIN W : W[i] = w
  <2>1. w \in Range(b)
    BY <1>6, <1>13
  <2>2. w \in Range(W)
    BY <1>9, <2>1
  <2> QED BY <2>2 DEF Range
<1>14. Len(rs) <= Len(W)
  BY <1>2, <1>5, <1>9, <1>10
<1> QED BY <1>2, <1>10, <1>11, <1>12, <1>13, <1>14

\* Each write that switches a supplier to auto approval comes after one of an
\* eligible profile of the supplier, or the supplier is in E.
Switches(w, s) == w.key = <<s, "auto_approve">> /\ w.value = "true"
Earns(w, s) == w.key = s /\ w.value.eligible

EarnedIn(W, E) ==
  \A i \in DOMAIN W, s \in Config :
    Switches(W[i], s) => s \in E \/ \E j \in 1..(i - 1) : Earns(W[j], s)

\* What the documents about a supplier hold under a profile P.
Fits(P, s, key, value) ==
  /\ key = s => value = P
  /\ key = <<s, "auto_approve">> => value = Text(P.eligible)
  /\ key = <<s, "tolerance_pct">> => value = P.tolerance

LEMMA FlagKeys ==
  ASSUME NEW s \in Config, NEW r, NEW x \in {"tolerance_pct", "auto_approve", "force_hitl"}
  PROVE  /\ <<s, x>> \in Flag /\ <<s, x>> \notin Config /\ About(s) \subseteq Key
         /\ r \in Config => <<s, x>> # r
BY FlagStoreAssumption, LearningAssumption DEF Key, About

LEMMA UpdateKeys ==
  ASSUME NEW s, NEW r, NEW w \in Proposed(r)
  PROVE  /\ w.key = <<s, "auto_approve">> =>
              r.supplier = s /\ w.value = Text(r.profile.eligible)
         /\ w.key = <<s, "tolerance_pct">> =>
              r.supplier = s /\ w.value = r.profile.tolerance
         /\ \E x \in {"tolerance_pct", "auto_approve", "force_hitl"} : w.key = <<r.supplier, x>>
<1>1. CASE w = Update(r.supplier, "tolerance_pct", r.profile.tolerance)
  <2>1. w.key = <<r.supplier, "tolerance_pct">> /\ w.value = r.profile.tolerance
    BY <1>1 DEF Update
  <2> QED BY <2>1
<1>2. CASE w = Update(r.supplier, "auto_approve", Text(r.profile.eligible))
  <2>1. w.key = <<r.supplier, "auto_approve">> /\ w.value = Text(r.profile.eligible)
    BY <1>2 DEF Update
  <2> QED BY <2>1
<1>3. CASE w = Update(r.supplier, "force_hitl", "true")
  <2>1. w.key = <<r.supplier, "force_hitl">>
    BY <1>3 DEF Update
  <2> QED BY <2>1
<1> QED BY <1>1, <1>2, <1>3, ProposedBy

LEMMA CycleEarns ==
  ASSUME NEW store \in History, NEW h, h = ListProcessedRecords(store),
         NEW rs, rs = Reputations(h), NEW W, W = Writes(Profiles(rs), Proposals(rs))
  PROVE  EarnedIn(W, {})
<1>1. PICK g : g = Grouped(h)
  OBVIOUS
<1>2. h \in Seq(Range(store))
  BY ProcessedRecords
<1>3. PICK B : B = {ReputationAt(g, i) : i \in DOMAIN g}
  OBVIOUS
<1>4. rs \in Seq(B)
  BY <1>1, <1>2, <1>3, ReputationsOf
<1>5. \A r \in B : r.supplier \in Config /\ r.profile.eligible \in BOOLEAN
  <2>1. \A r \in B : r.supplier \in Config /\ r.profile \in Profile
    BY <1>1, <1>2, <1>3, ProcessedSuppliers, SuppliersOf
  <2> QED BY <2>1 DEF Profile
<1>6. /\ Len(rs) \in Nat /\ DOMAIN rs = 1..Len(rs)
      /\ Len(W) \in Nat /\ DOMAIN W = 1..Len(W) /\ Len(rs) <= Len(W)
      /\ \A i \in 1..Len(rs) : W[i] = ProfileOf(rs[i])
      /\ \A i \in (DOMAIN W) \ (1..Len(rs)) : \E r \in Range(rs) : W[i] \in Proposed(r)
  BY <1>4, WritesInOrder
<1>7. \A m \in DOMAIN rs : rs[m] \in B
  BY <1>4, <1>6, ElementOfSeq
<1> SUFFICES ASSUME NEW i \in DOMAIN W, NEW s \in Config, Switches(W[i], s)
             PROVE  \E j \in 1..(i - 1) : Earns(W[j], s)
  BY DEF EarnedIn
<1>8. i \notin 1..Len(rs)
  <2> SUFFICES ASSUME i \in 1..Len(rs) PROVE FALSE
    OBVIOUS
  <2>1. PICK r : r = rs[i]
    OBVIOUS
  <2>2. W[i] = ProfileOf(r) /\ r.supplier \in Config
    BY <1>5, <1>6, <1>7, <2>1
  <2>3. W[i].key = r.supplier
    BY <2>2 DEF ProfileOf
  <2> QED BY <2>2, <2>3, FlagKeys DEF Switches
<1>9. PICK m \in DOMAIN rs : W[i] \in Proposed(rs[m])
  BY <1>6, <1>8 DEF Range
<1>10. rs[m].supplier = s /\ Text(rs[m].profile.eligible) = "true"
  <2>1. PICK w, r : w = W[i] /\ r = rs[m]
    OBVIOUS
  <2>2. w \in Proposed(r) /\ w.key = <<s, "auto_approve">> /\ w.value = "true"
    BY <1>9, <2>1 DEF Switches
  <2>3. w.key = <<s, "auto_approve">> =>
          r.supplier = s /\ w.value = Text(r.profile.eligible)
    BY <2>2, UpdateKeys
  <2> QED BY <2>1, <2>2, <2>3
<1>11. rs[m].profile.eligible
  BY <1>5, <1>7, <1>10 DEF Text
<1>12. m \in 1..(i - 1) /\ W[m] = ProfileOf(rs[m])
  BY <1>6, <1>8, <1>9
<1>13. Earns(W[m], s)
  BY <1>10, <1>11, <1>12 DEF Earns, ProfileOf
<1> QED BY <1>12, <1>13

\* What a reputation proposes fits the profile of the supplier's only one.
LEMMA ProposalFits ==
  ASSUME NEW s \in Config, NEW r, NEW r0, r.supplier \in Config, r.supplier = s => r = r0,
         NEW w \in Proposed(r)
  PROVE  Fits(r0.profile, s, w.key, w.value)
<1>1. /\ w.key = <<s, "auto_approve">> =>
           r.supplier = s /\ w.value = Text(r.profile.eligible)
      /\ w.key = <<s, "tolerance_pct">> =>
           r.supplier = s /\ w.value = r.profile.tolerance
  BY UpdateKeys
<1>2. PICK x \in {"tolerance_pct", "auto_approve", "force_hitl"} : w.key = <<r.supplier, x>>
  BY UpdateKeys
<1>3. w.key # s
  BY <1>2, FlagKeys
<1> QED BY <1>1, <1>3 DEF Fits

\* All that a cycle writes about a supplier it knows under one name follows
\* from one profile, and it writes each of the documents.
LEMMA CycleFits ==
  ASSUME NEW store \in History, NEW h, h = ListProcessedRecords(store),
         NEW rs, rs = Reputations(h), NEW W, W = Writes(Profiles(rs), Proposals(rs)),
         ApplyFeatureFlagProposals, NEW s \in UnderOneName(h)
  PROVE  \E P : /\ \A i \in DOMAIN W : Fits(P, s, W[i].key, W[i].value)
                /\ \A k \in About(s) : \E i \in DOMAIN W : W[i].key = k
<1>1. PICK g : g = Grouped(h)
  OBVIOUS
<1>2. h \in Seq(Range(store))
  BY ProcessedRecords
<1>3. PICK B : B = {ReputationAt(g, i) : i \in DOMAIN g}
  OBVIOUS
<1>4. /\ rs \in Seq(B)
      /\ Range(rs) = {ReputationAt(g, i) : i \in FirstRecords(g)}
  BY <1>1, <1>2, <1>3, ReputationsOf
<1>5. /\ g \in Seq(Range(store)) /\ FirstRecords(g) \subseteq DOMAIN g
      /\ \A i \in DOMAIN g : /\ SupplierId(g[i]) = {ReputationAt(g, i).supplier}
                             /\ ReputationAt(g, i).supplier \in Config
  BY <1>1, <1>2, ProcessedSuppliers, SuppliersOf
<1>6. /\ Len(rs) \in Nat /\ DOMAIN rs = 1..Len(rs)
      /\ Len(W) \in Nat /\ DOMAIN W = 1..Len(W) /\ Len(rs) <= Len(W)
      /\ \A i \in 1..Len(rs) : W[i] = ProfileOf(rs[i])
      /\ \A i \in (DOMAIN W) \ (1..Len(rs)) : \E r \in Range(rs) : W[i] \in Proposed(r)
      /\ \A r \in Range(rs) : \A w \in Proposed(r) : \E i \in DOMAIN W : W[i] = w
  BY <1>4, WritesInOrder
<1>7. PICK i0 \in DOMAIN g :
        /\ SupplierId(g[i0]) = {s} /\ s \in Config
        /\ \A j \in DOMAIN g : SupplierId(g[j]) = {s} => SameGroup(g, i0, j)
  BY <1>1 DEF UnderOneName
<1>8. PICK m \in FirstRecords(g) : SameGroup(g, i0, m)
  BY <1>5, <1>7, GroupStarts
<1>9. PICK r0 : r0 = ReputationAt(g, m)
  OBVIOUS
<1>10. r0 \in Range(rs) /\ r0.supplier = s
  <2>1. SupplierId(g[m]) = {s}
    BY <1>7, <1>8 DEF SameGroup
  <2>2. SupplierId(g[m]) = {r0.supplier}
    BY <1>5, <1>9
  <2>3. r0.supplier = s
    BY <2>1, <2>2
  <2> QED BY <1>4, <1>9, <2>3
<1>11. ASSUME NEW r \in Range(rs) PROVE r.supplier \in Config /\ (r.supplier = s => r = r0)
  <2>1. PICK i \in FirstRecords(g) : r = ReputationAt(g, i)
    BY <1>4
  <2>2. r.supplier \in Config /\ SupplierId(g[i]) = {r.supplier} /\ i \in DOMAIN g /\ m \in DOMAIN g
    BY <1>5, <2>1
  <2>3. ASSUME r.supplier = s PROVE r = r0
    <3>1. SameGroup(g, i0, i)
      BY <1>7, <2>2, <2>3
    <3>2. SameGroup(g, i, m) /\ SameGroup(g, m, i)
      BY <1>8, <3>1 DEF SameGroup
    <3>3. Len(g) \in Nat /\ DOMAIN g = 1..Len(g)
      BY <1>5, LenProperties
    <3>4. i \notin 1..(m - 1) /\ m \notin 1..(i - 1)
      BY <2>1, <3>2 DEF FirstRecords
    <3>5. i = m
      BY <2>2, <3>3, <3>4
    <3> QED BY <1>9, <2>1, <3>5
  <2> QED BY <2>2, <2>3
<1>12. PICK P : P = r0.profile
  OBVIOUS
<1>13. ASSUME NEW i \in DOMAIN W PROVE Fits(P, s, W[i].key, W[i].value)
  <2>1. CASE i \in 1..Len(rs)
    <3>1. PICK r \in Range(rs) : W[i] = ProfileOf(r)
      BY <1>6, <2>1 DEF Range
    <3>2. W[i].key = r.supplier /\ W[i].value = r.profile
      BY <3>1 DEF ProfileOf
    <3>3. r.supplier \in Config /\ (r.supplier = s => r = r0)
      BY <1>11
    <3>4. W[i].key # <<s, "auto_approve">> /\ W[i].key # <<s, "tolerance_pct">>
      BY <1>7, <3>2, <3>3, FlagKeys
    <3> QED BY <1>12, <3>2, <3>3, <3>4 DEF Fits
  <2>2. CASE i \notin 1..Len(rs)
    <3>1. PICK r \in Range(rs) : W[i] \in Proposed(r)
      BY <1>6, <2>2
    <3>2. r.supplier \in Config /\ (r.supplier = s => r = r0)
      BY <1>11
    <3> QED BY <1>7, <1>12, <3>1, <3>2, ProposalFits
  <2> QED BY <2>1, <2>2
<1>14. ASSUME NEW k \in About(s) PROVE \E i \in DOMAIN W : W[i].key = k
  <2>1. \E i \in DOMAIN W : W[i].key = s
    <3>1. PICK i \in 1..Len(rs) : rs[i] = r0
      BY <1>6, <1>10 DEF Range
    <3>2. i \in DOMAIN W /\ W[i] = ProfileOf(r0)
      BY <1>6, <3>1
    <3>3. W[i].key = s
      BY <1>10, <3>2 DEF ProfileOf
    <3> QED BY <3>2, <3>3
  <2>2. \E i \in DOMAIN W : W[i].key = <<s, "auto_approve">>
    <3>1. PICK w \in Proposed(r0) : w = Update(s, "auto_approve", Text(r0.profile.eligible))
      BY <1>10, ProposedBy
    <3>2. w.key = <<s, "auto_approve">>
      BY <3>1 DEF Update
    <3> QED BY <1>6, <1>10, <3>2
  <2>3. \E i \in DOMAIN W : W[i].key = <<s, "tolerance_pct">>
    <3>1. PICK w \in Proposed(r0) : w = Update(s, "tolerance_pct", r0.profile.tolerance)
      BY <1>10, ProposedBy
    <3>2. w.key = <<s, "tolerance_pct">>
      BY <3>1 DEF Update
    <3> QED BY <1>6, <1>10, <3>2
  <2> QED BY <2>1, <2>2, <2>3 DEF About
<1> QED BY <1>13, <1>14

\* The job only writes documents that the store knows.
LEMMA KnownReputations ==
  ASSUME NEW R, NEW h \in Seq(R), \A r \in R : SupplierId(r) \subseteq Config
  PROVE  /\ Profiles(Reputations(h)) \in Seq(KnownWrite)
         /\ Proposals(Reputations(h)) \in Seq(KnownWrite)
<1>1. PICK g, B, rs : /\ g = Grouped(h) /\ rs = Reputations(h)
                      /\ B = {ReputationAt(g, i) : i \in DOMAIN g}
  OBVIOUS
<1>2. rs \in Seq(B)
  BY <1>1, ReputationsOf
<1>3. \A r \in B : r.supplier \in Config /\ r.profile \in Profile
  BY <1>1, SuppliersOf
<1>4. Len(rs) \in Nat /\ DOMAIN rs = 1..Len(rs) /\ \A m \in DOMAIN rs : rs[m] \in B
  BY <1>2, ElementOfSeq, LenProperties
<1>5. ASSUME NEW k \in Key, NEW v \in ValueOf[k], NEW w, w = [key |-> k, value |-> v]
      PROVE  w \in KnownWrite
  <2>1. w \in [key : {k}, value : ValueOf[k]]
    BY <1>5
  <2> QED BY <2>1, Zenon DEF KnownWrite, WriteOf
<1>6. ASSUME NEW r \in B PROVE ProfileOf(r) \in KnownWrite
  <2>1. r.supplier \in Key /\ r.profile \in ValueOf[r.supplier]
    BY <1>3, LearningAssumption DEF Key
  <2> QED BY <1>5, <2>1 DEF ProfileOf
<1>7. ASSUME NEW r \in B, NEW w \in Proposed(r) PROVE w \in KnownWrite
  <2>1. r.supplier \in Config /\ r.profile.tolerance \in Tolerance
    BY <1>3 DEF Profile
  <2>2. PICK s \in Config : s = r.supplier
    BY <2>1
  <2>3. CASE w = Update(r.supplier, "tolerance_pct", r.profile.tolerance)
    <3>1. /\ <<s, "tolerance_pct">> \in Key
          /\ r.profile.tolerance \in ValueOf[<<s, "tolerance_pct">>]
      BY <2>1, FlagKeys, LearningAssumption DEF Key
    <3> QED BY <1>5, <2>2, <2>3, <3>1 DEF Update
  <2>4. CASE w = Update(r.supplier, "auto_approve", Text(r.profile.eligible))
    <3>1. /\ <<s, "auto_approve">> \in Key
          /\ Text(r.profile.eligible) \in ValueOf[<<s, "auto_approve">>]
      BY FlagKeys, LearningAssumption DEF Key, Text
    <3> QED BY <1>5, <2>2, <2>4, <3>1 DEF Update
  <2>5. CASE w = Update(r.supplier, "force_hitl", "true")
    <3>1. <<s, "force_hitl">> \in Key /\ "true" \in ValueOf[<<s, "force_hitl">>]
      BY FlagKeys, LearningAssumption DEF Key
    <3> QED BY <1>5, <2>2, <2>5, <3>1 DEF Update
  <2> QED BY <2>3, <2>4, <2>5, ProposedBy
<1>8. Profiles(rs) \in Seq(KnownWrite)
  <2>1. Profiles(rs) = [m \in 1..Len(rs) |-> ProfileOf(rs[m])]
    BY <1>4 DEF Profiles, ProfileOf
  <2>2. \A m \in 1..Len(rs) : ProfileOf(rs[m]) \in KnownWrite
    BY <1>4, <1>6
  <2>3. Profiles(rs) \in [1..Len(rs) -> KnownWrite]
    BY <2>1, <2>2
  <2> QED BY <1>4, <2>3, SeqDef
<1>9. Proposals(rs) \in Seq(KnownWrite)
  <2>1. PICK C : C = UNION {Proposed(r) : r \in B}
    OBVIOUS
  <2>2. Proposals(rs) \in Seq(C)
    BY <1>2, <2>1, ProposalElements
  <2>3. C \subseteq KnownWrite
    BY <1>7, <2>1
  <2> QED BY <2>2, <2>3, SeqMonotonic
<1> QED BY <1>1, <1>8, <1>9

LEMMA WritesAreKnown ==
  ASSUME NEW store \in History, NEW events \in Reply
  PROVE  WritesOf(ListProcessedRecords(store), GenerateReport(events)) \in Seq(KnownWrite)
<1>1. PICK h, report : h = ListProcessedRecords(store) /\ report = GenerateReport(events)
  OBVIOUS
<1>2. /\ Profiles(Reputations(h)) \in Seq(KnownWrite)
      /\ Proposals(Reputations(h)) \in Seq(KnownWrite)
  BY <1>1, ProcessedRecords, ProcessedSuppliers, KnownReputations
<1>3. WriteOf(Config) \subseteq KnownWrite /\ WriteOf(Flag) \subseteq KnownWrite
  BY Zenon DEF KnownWrite, WriteOf, Key
<1>4. report.updates \in Seq(KnownWrite) /\ report.proposals \in Seq(KnownWrite)
  BY <1>1, <1>3, RepliesAreKnown, SeqMonotonic
<1>5. /\ Chosen(Profiles(Reputations(h)), report.updates) \in Seq(KnownWrite)
      /\ Chosen(Proposals(Reputations(h)), report.proposals) \in Seq(KnownWrite)
      /\ <<>> \in Seq(KnownWrite)
  BY <1>2, <1>4, EmptySeq DEF Chosen
<1>6. WritesOf(h, report) \in Seq(KnownWrite)
  BY <1>5, ConcatProperties DEF WritesOf, Writes
<1> QED BY <1>1, <1>6

-----------------------------------------------------------------------------
(* The job.                                                                *)

JobTypes ==
  /\ cycle \in {"idle", "write", "done", "failed"}
  /\ cycles \in Nat
  /\ plan \in [writes : Seq(KnownWrite), plain : SUBSET Config, silent : BOOLEAN]
  /\ todo \in Seq(KnownWrite)
  /\ earned \subseteq Config /\ advised \subseteq Config

\* A cycle that writes has something left to write, and only such a cycle has
\* the job's process in a call.
JobWrites ==
  /\ cycle = "write" => todo # <<>>
  /\ cycle # "write" => process[Job].pc = "idle"

Shape == StoreShape /\ JobTypes /\ JobWrites

LEMMA NoPlanType ==
  NoPlan \in [writes : Seq(KnownWrite), plain : SUBSET Config, silent : BOOLEAN]
<1>1. <<>> \in Seq(KnownWrite)
  BY EmptySeq
<1> QED BY <1>1 DEF NoPlan

LEMMA ShapeInit == Init => Shape
<1> SUFFICES ASSUME Init PROVE Shape
  OBVIOUS
<1>1. StoreShape
  BY Constants DEF Init, StoreInit, StoreShape, StoreTypeOK
<1>2. JobTypes /\ JobWrites
  BY Constants, LearningAssumption, NoPlanType, EmptySeq DEF Init, StoreInit, JobTypes, JobWrites
<1> QED BY <1>1, <1>2 DEF Shape

\* A write the store knows is one that Begin may be called for.
LEMMA KnownWrites ==
  ASSUME NEW w \in KnownWrite
  PROVE  w.key \in Key /\ w.value \in ValueOf[w.key]
<1>1. PICK k \in Key : w \in [key : {k}, value : ValueOf[k]]
  BY Zenon DEF KnownWrite, WriteOf
<1> QED BY <1>1

LEMMA FirstWrite ==
  ASSUME Shape, cycle = "write"
  PROVE  /\ Head(todo) \in KnownWrite
         /\ Tail(todo) \in Seq(KnownWrite)
         /\ Len(todo) # 1 => Tail(todo) # <<>>
<1>1. todo \in Seq(KnownWrite) /\ todo # <<>>
  BY DEF Shape, JobTypes, JobWrites
<1>2. /\ Head(todo) \in KnownWrite
      /\ Tail(todo) \in Seq(KnownWrite) /\ Len(Tail(todo)) = Len(todo) - 1
  BY <1>1, HeadTailProperties
<1>3. ASSUME Len(todo) # 1 PROVE Tail(todo) # <<>>
  <2>1. Len(todo) \in Nat
    BY <1>1, LenProperties
  <2>2. Len(Tail(todo)) # 0
    BY <1>2, <1>3, <2>1
  <2> QED BY <2>2, EmptySeq
<1> QED BY <1>2, <1>3

\* What a cycle starts with is the plan of some records and of some answer.
LEMMA PlanOfCycle ==
  ASSUME StartCycle
  PROVE  \E store \in History, events \in Reply :
           /\ plan'.writes = WritesOf(ListProcessedRecords(store), GenerateReport(events))
           /\ plan'.plain = UnderOneName(ListProcessedRecords(store))
           /\ plan'.silent = (/\ GenerateReport(events).updates = <<>>
                              /\ GenerateReport(events).proposals = <<>>)
           /\ plan' \in [writes : Seq(KnownWrite), plain : SUBSET Config, silent : BOOLEAN]
<1>1. PICK new : new = plan' /\ new \in Plans
  BY Zenon DEF StartCycle
<1>2. PICK store \in History, events \in Reply : new = Plan(store, events)
  BY ONLY <1>1 DEF Plans
<1>3. PICK h, report : h = ListProcessedRecords(store) /\ report = GenerateReport(events)
  OBVIOUS
<1>4. PICK quiet : quiet = (report.updates = <<>> /\ report.proposals = <<>>)
  OBVIOUS
<1>5. new = [writes |-> WritesOf(h, report), plain |-> UnderOneName(h), silent |-> quiet]
  BY <1>2, <1>3, <1>4, Zenon DEF Plan
<1>6. quiet \in BOOLEAN
  BY ONLY <1>4
<1>7. WritesOf(h, report) \in Seq(KnownWrite) /\ UnderOneName(h) \in SUBSET Config
  BY <1>3, WritesAreKnown DEF UnderOneName
<1>8. new \in [writes : Seq(KnownWrite), plain : SUBSET Config, silent : BOOLEAN]
  BY ONLY <1>5, <1>6, <1>7
<1>9. new.writes = WritesOf(h, report) /\ new.plain = UnderOneName(h) /\ new.silent = quiet
  BY ONLY <1>5, Zenon
<1> QED BY ONLY <1>1, <1>3, <1>4, <1>8, <1>9, Zenon

LEMMA StartCycleShape == Shape /\ StartCycle => Shape'
<1> SUFFICES ASSUME Shape, StartCycle PROVE Shape'
  OBVIOUS
<1>1. Job \in Proc
  BY LearningAssumption
<1>2. StoreShape'
  <2>1. cache' = [cache EXCEPT ![Job] = [k \in Key |-> NoEntry]]
        /\ UNCHANGED <<document, process, clock, faults, history>>
    BY DEF StartCycle
  <2> QED BY <1>1, <2>1, ResetShape DEF Shape, StoreShape, StoreTypeOK, history
<1>3. plan' \in [writes : Seq(KnownWrite), plain : SUBSET Config, silent : BOOLEAN]
  BY PlanOfCycle
<1>4. todo' \in Seq(KnownWrite)
  BY <1>3 DEF StartCycle
<1>5. advised' \subseteq Config
  BY DEF StartCycle, Approved, Shape, JobTypes
<1>6. JobTypes'
  BY <1>3, <1>4, <1>5 DEF StartCycle, Shape, JobTypes
<1>7. JobWrites'
  BY DEF StartCycle, Shape, JobWrites
<1> QED BY <1>2, <1>6, <1>7 DEF Shape

LEMMA AnalysisFailsShape == Shape /\ AnalysisFails => Shape'
<1> SUFFICES ASSUME Shape, AnalysisFails PROVE Shape'
  OBVIOUS
<1>1. Job \in Proc
  BY LearningAssumption
<1>2. StoreShape'
  BY <1>1, FailsShape DEF AnalysisFails, Shape
<1>3. process' = [process EXCEPT ![Job] = Idle]
  BY DEF AnalysisFails, Restart, Raise
<1>4. process'[Job].pc = "idle"
  BY <1>1, <1>3, Constants DEF Shape, StoreShape
<1>5. JobTypes' /\ JobWrites'
  BY <1>4, NoPlanType DEF AnalysisFails, Shape, JobTypes, JobWrites
<1> QED BY <1>2, <1>5 DEF Shape

LEMMA StartWriteShape == Shape /\ StartWrite => Shape'
<1> SUFFICES ASSUME Shape, StartWrite PROVE Shape'
  OBVIOUS
<1>1. Head(todo).key \in Key /\ Head(todo).value \in ValueOf[Head(todo).key]
  BY FirstWrite, KnownWrites DEF StartWrite
<1>2. Begin(Job, "set", Head(todo).key, Head(todo).value) /\ UNCHANGED jobVars
  BY DEF StartWrite
<1>3. StoreShape'
  BY <1>1, <1>2, BeginShape, LearningAssumption DEF Shape
<1>4. JobTypes' /\ JobWrites'
  BY <1>2 DEF StartWrite, jobVars, Shape, JobTypes, JobWrites
<1> QED BY <1>3, <1>4 DEF Shape

LEMMA JobCallShape == Shape /\ JobCall => Shape'
<1> SUFFICES ASSUME Shape, JobCall PROVE Shape'
  OBVIOUS
<1>1. Call(Job) /\ UNCHANGED jobVars
  BY DEF JobCall
<1>2. StoreShape'
  BY <1>1, CallShape, LearningAssumption DEF Shape
<1>3. process[Job].pc # "idle"
  BY <1>1 DEF Call, ServeCached, Query, FillCache, FindNothing, Upsert
<1>4. JobTypes' /\ JobWrites'
  BY <1>1, <1>3 DEF jobVars, Shape, JobTypes, JobWrites
<1> QED BY <1>2, <1>4 DEF Shape

LEMMA EndWriteShape == Shape /\ EndWrite => Shape'
<1> SUFFICES ASSUME Shape, EndWrite PROVE Shape'
  OBVIOUS
<1>1. Job \in Proc /\ process[Job].pc # "idle" /\ cycle = "write"
  BY LearningAssumption DEF EndWrite, EndSet, Shape, JobWrites
<1>2. StoreShape'
  BY <1>1, EndSetShape DEF EndWrite, Shape
<1>3. process' = [process EXCEPT ![Job] = Idle]
  BY DEF EndWrite, EndSet, Answer
<1>4. process'[Job].pc = "idle"
  BY <1>1, <1>3, Constants DEF Shape, StoreShape
<1>5. JobTypes'
  BY <1>1, FirstWrite DEF EndWrite, Shape, JobTypes
<1>6. JobWrites'
  BY <1>1, <1>4, FirstWrite DEF EndWrite, JobWrites
<1> QED BY <1>2, <1>5, <1>6 DEF Shape

LEMMA JobFailsShape == Shape /\ JobFails => Shape'
<1> SUFFICES ASSUME Shape, JobFails PROVE Shape'
  OBVIOUS
<1>1. Job \in Proc
  BY LearningAssumption
<1>2. StoreShape'
  BY <1>1, FailsShape DEF JobFails, Shape
<1>3. process' = [process EXCEPT ![Job] = Idle]
  BY DEF JobFails, CallFails, QueryFails, UpsertFails, LoseReply, Restart, Raise
<1>4. process'[Job].pc = "idle"
  BY <1>1, <1>3, Constants DEF Shape, StoreShape
<1>5. JobTypes' /\ JobWrites'
  BY <1>4, NoPlanType, EmptySeq DEF JobFails, Shape, JobTypes, JobWrites
<1> QED BY <1>2, <1>5 DEF Shape

\* What another process does leaves the job's process alone.
LEMMA OthersElsewhere ==
  ASSUME StoreShape, NEW p \in Proc \ {Job}, NEW op, NEW key, NEW value, NEW S,
         \/ Begin(p, op, key, value) \/ ListFlags(p, S)
         \/ Call(p) \/ EndSet(p) \/ CallFails(p) \/ Restart(p)
  PROVE  process'[Job] = process[Job]
<1>1. (\E r : process' = [process EXCEPT ![p] = r]) \/ process' = process
  BY DEF ListFlags, Begin, Call, ServeCached, Query, FillCache, FindNothing, Upsert, Found, Goto,
         Answer, Raise, EndSet, CallFails, QueryFails, UpsertFails, LoseReply, Restart
<1> QED BY <1>1, LearningAssumption DEF StoreShape

LEMMA OthersShape == Shape /\ Others => Shape'
<1> SUFFICES ASSUME Shape, Others PROVE Shape'
  OBVIOUS
<1>1. PICK p \in Proc \ {Job} :
        \/ \E update \in Operable : Begin(p, "get", update[1], None)
        \/ \E update \in Operable : Begin(p, "set", update[1], update[2])
        \/ \E S \in Listable : ListFlags(p, S)
        \/ Call(p) \/ EndSet(p) \/ CallFails(p) \/ Restart(p)
  BY DEF Others
<1>2. StoreShape' /\ process'[Job] = process[Job]
  <2>1. CASE \E update \in Operable :
               Begin(p, "get", update[1], None) \/ Begin(p, "set", update[1], update[2])
    BY <2>1, BeginShape, OthersElsewhere, LearningAssumption DEF Shape
  <2>2. CASE Call(p) \/ EndSet(p) \/ CallFails(p) \/ Restart(p)
    BY <2>2, CallShape, EndSetShape, FailsShape, OthersElsewhere DEF Shape
  <2>3. CASE \E S \in Listable : ListFlags(p, S)
    BY <2>3, ListShape, OthersElsewhere DEF Shape
  <2> QED BY <1>1, <2>1, <2>2, <2>3
<1>3. JobTypes' /\ JobWrites'
  BY <1>2 DEF Others, jobVars, Shape, JobTypes, JobWrites
<1> QED BY <1>2, <1>3 DEF Shape

LEMMA ShapeStep == Shape /\ [Next]_vars => Shape'
<1> SUFFICES ASSUME Shape, [Next]_vars PROVE Shape'
  OBVIOUS
<1>1. CASE Tick /\ UNCHANGED jobVars
  BY <1>1, TickShape DEF Tick, jobVars, Shape, JobTypes, JobWrites
<1>2. CASE UNCHANGED vars
  BY <1>2 DEF vars, storeVars, jobVars, history, Shape, StoreShape, StoreTypeOK,
              JobTypes, JobWrites
<1> QED BY <1>1, <1>2, StartCycleShape, AnalysisFailsShape, StartWriteShape,
           JobCallShape, EndWriteShape, JobFailsShape, OthersShape DEF Next

\* Every document, cache entry and call of the server has the types of its
\* key, and the job only writes documents the store knows.
THEOREM LearningTypes == Spec => []TypeOK
<1>1. Shape => TypeOK
  BY DEF Shape, StoreShape, JobTypes, TypeOK
<1> QED BY <1>1, ShapeInit, ShapeStep, PTL DEF Spec

-----------------------------------------------------------------------------
(* The steps of the whole system as steps of the store.                    *)

\* A new process for the job starts without a cache.
Renew(p) ==
  /\ process[p].pc = "idle"
  /\ cache' = [cache EXCEPT ![p] = [k \in Key |-> NoEntry]]
  /\ UNCHANGED <<document, process, clock, faults, history>>

Starts(p) ==
  \E op \in {"get", "set"}, key \in Key : \E value \in ValueOf[key] \cup {None} :
    Begin(p, op, key, value)

StoreStep(p) ==
  \/ Starts(p) \/ Call(p) \/ EndSet(p) \/ CallFails(p) \/ Restart(p) \/ Renew(p)
  \/ \E S : ListFlags(p, S)

LEMMA StepsOfStore ==
  ASSUME Shape, [Next]_vars
  PROVE  (\E p \in Proc : StoreStep(p)) \/ Tick \/ UNCHANGED storeVars
<1>1. Job \in Proc
  BY LearningAssumption
<1>2. CASE StartCycle
  <2>1. Renew(Job)
    BY <1>2 DEF StartCycle, Renew, Shape, JobWrites
  <2> QED BY <1>1, <2>1 DEF StoreStep
<1>3. CASE StartWrite
  <2>1. Head(todo).key \in Key /\ Head(todo).value \in ValueOf[Head(todo).key]
    BY <1>3, FirstWrite, KnownWrites DEF StartWrite
  <2>2. Begin(Job, "set", Head(todo).key, Head(todo).value)
    BY <1>3 DEF StartWrite
  <2>3. Starts(Job)
    BY <2>1, <2>2 DEF Starts
  <2> QED BY <1>1, <2>3 DEF StoreStep
<1>4. CASE JobCall \/ EndWrite \/ JobFails \/ AnalysisFails
  BY <1>1, <1>4 DEF JobCall, EndWrite, JobFails, AnalysisFails, StoreStep
<1>5. CASE Others
  <2>1. PICK p \in Proc \ {Job} :
        \/ \E update \in Operable : Begin(p, "get", update[1], None)
        \/ \E update \in Operable : Begin(p, "set", update[1], update[2])
        \/ \E S \in Listable : ListFlags(p, S)
        \/ Call(p) \/ EndSet(p) \/ CallFails(p) \/ Restart(p)
    BY <1>5 DEF Others
  <2>2. CASE \E update \in Operable :
               Begin(p, "get", update[1], None) \/ Begin(p, "set", update[1], update[2])
    <3>1. Starts(p)
      BY <2>2, LearningAssumption DEF Starts
    <3> QED BY <3>1 DEF StoreStep
  <2> QED BY <2>1, <2>2 DEF StoreStep
<1>6. CASE UNCHANGED vars
  BY <1>6 DEF vars
<1> QED BY <1>2, <1>3, <1>4, <1>5, <1>6 DEF Next

\* Point by point, what the beginning of a call changes.
LEMMA StartEffects ==
  ASSUME StoreShape, NEW p \in Proc, Starts(p)
  PROVE  /\ \A q \in Proc \ {p} : process'[q] = process[q]
         /\ process'[p].pc \in {"look", "write"} /\ process'[p].key \in Key
         /\ process'[p].key \in Flag => process'[p].pc = "look"
         /\ process[p].pc = "idle"
         /\ UNCHANGED <<document, cache, clock, faults, answer, writers>>
<1>1. PICK op \in {"get", "set"}, key \in Key, value \in Values : Begin(p, op, key, value)
  BY ValuesOfKey DEF Starts
<1> DEFINE new == [pc |-> IF op = "set" /\ key \in Config THEN "write" ELSE "look",
                   op |-> op, key |-> key, value |-> value, seen |-> NoDocument,
                   asked |-> 0]
<1>2. new.pc \in {"look", "write"} /\ new.key = key
      /\ (key \in Flag => new.pc = "look")
  BY FlagStoreAssumption
<1>3. process' = [process EXCEPT ![p] = new] /\ process[p].pc = "idle"
      /\ UNCHANGED <<document, cache, clock, faults, answer, writers>>
  BY <1>1 DEF Begin, history
<1> HIDE DEF new
<1> QED BY <1>2, <1>3 DEF StoreShape

\* Point by point, what the end of a look-up changes.
LEMMA FoundEffects ==
  ASSUME StoreShape, NEW p \in Proc, process[p].pc # "idle",
         NEW d \in DocumentOf(KeyAt(p)), Found(p, d)
  PROVE  /\ \A q \in Proc \ {p} : process'[q] = process[q]
         /\ \A q \in Proc, k \in Key : q # p \/ k # KeyAt(p) => answer'[q][k] = answer[q][k]
         /\ \/ process'[p] = Idle /\ answer'[p][KeyAt(p)] = d.stamp
            \/ /\ answer' = answer
               /\ process'[p].pc = "write" /\ process'[p].seen = d
               /\ process'[p].key = KeyAt(p)
<1>1. CASE process[p].op = "get"
  <2>1. process' = [process EXCEPT ![p] = Idle]
        /\ answer' = [answer EXCEPT ![p][KeyAt(p)] = d.stamp]
    BY <1>1 DEF Found, Answer
  <2> QED BY <2>1, InCall DEF StoreShape, StoreTypeOK
<1>2. CASE process[p].op # "get"
  <2>1. Goto(p, "write", d, 0) /\ UNCHANGED answer
    BY <1>2 DEF Found
  <2> QED BY <2>1, GotoShape
<1> QED BY <1>1, <1>2

LEMMA QueryEffects ==
  ASSUME StoreShape, NEW p \in Proc, Query(p)
  PROVE  /\ KeyAt(p) \in Key
         /\ \A q \in Proc \ {p} : process'[q] = process[q]
         /\ process'[p].pc = "reply" /\ process'[p].key = KeyAt(p)
         /\ process'[p].seen = document[KeyAt(p)] /\ process'[p].asked = clock
         /\ cache'[p][KeyAt(p)] = NoEntry
         /\ \A q \in Proc, k \in Key : q # p \/ k # KeyAt(p) => cache'[q][k] = cache[q][k]
         /\ UNCHANGED <<document, clock, faults, answer, writers>>
<1>1. /\ process[p].pc # "idle" /\ KeyAt(p) \in Key
      /\ document[KeyAt(p)] \in DocumentOf(KeyAt(p)) /\ clock \in Nat
      /\ NoEntry \in EntryOf(KeyAt(p))
  BY InCall, Constants DEF Query, StoreShape, StoreTypeOK
<1>2. /\ Goto(p, "reply", document[KeyAt(p)], clock)
      /\ cache' = [cache EXCEPT ![p][KeyAt(p)] = NoEntry]
      /\ UNCHANGED <<document, clock, faults, answer, writers>>
  BY DEF Query, Evict, history
<1>3. cache'[p][KeyAt(p)] = NoEntry
      /\ \A q \in Proc, k \in Key : q # p \/ k # KeyAt(p) => cache'[q][k] = cache[q][k]
  BY <1>1, <1>2 DEF StoreShape
<1> QED BY <1>1, <1>2, <1>3, GotoShape

LEMMA FillEffects ==
  ASSUME StoreShape, NEW p \in Proc, FillCache(p)
  PROVE  /\ KeyAt(p) \in Key /\ process[p].pc = "reply"
         /\ Found(p, process[p].seen) /\ process[p].seen \in DocumentOf(KeyAt(p))
         /\ cache'[p][KeyAt(p)].expires = clock + TTL
         /\ cache'[p][KeyAt(p)].document = process[p].seen
         /\ cache'[p][KeyAt(p)].read = process[p].asked
         /\ \A q \in Proc, k \in Key : q # p \/ k # KeyAt(p) => cache'[q][k] = cache[q][k]
         /\ UNCHANGED <<document, clock, faults, writers>>
<1> DEFINE e == [expires |-> clock + TTL, document |-> process[p].seen,
                 read |-> process[p].asked]
<1>1. /\ process[p].pc = "reply" /\ KeyAt(p) \in Key /\ process[p].asked \in Nat
      /\ process[p].seen \in DocumentOf(KeyAt(p)) /\ clock \in Nat
  BY InCall DEF FillCache, CallOf, StoreShape, StoreTypeOK
<1>2. e \in EntryOf(KeyAt(p))
  BY <1>1, FlagStoreAssumption DEF EntryOf
<1>3. /\ cache' = [cache EXCEPT ![p][KeyAt(p)] = e] /\ Found(p, process[p].seen)
      /\ UNCHANGED <<document, clock, faults, writers>>
  BY DEF FillCache
<1> HIDE DEF e
<1>4. cache'[p][KeyAt(p)] = e
      /\ \A q \in Proc, k \in Key : q # p \/ k # KeyAt(p) => cache'[q][k] = cache[q][k]
  BY <1>1, <1>3 DEF StoreShape
<1>5. e.expires = clock + TTL /\ e.document = process[p].seen /\ e.read = process[p].asked
  BY DEF e
<1> QED BY <1>1, <1>3, <1>4, <1>5

LEMMA NothingEffects ==
  ASSUME StoreShape, NEW p \in Proc, FindNothing(p)
  PROVE  /\ \A q \in Proc \ {p} : process'[q] = process[q]
         /\ process[p].pc = "reply" /\ process[p].seen = NoDocument
         /\ \/ process'[p] = Idle
            \/ /\ process'[p].pc = "write" /\ process'[p].key = KeyAt(p)
               /\ process'[p].seen = NoDocument
         /\ UNCHANGED <<document, cache, clock, faults, answer, writers>>
<1>1. process[p].pc # "idle" /\ NoDocument \in DocumentOf(KeyAt(p))
  BY InCall, Constants DEF FindNothing
<1>2. CASE process[p].op = "get"
  BY <1>2 DEF FindNothing, Raise, StoreShape
<1>3. CASE process[p].op # "get"
  <2>1. Goto(p, "write", NoDocument, 0) /\ UNCHANGED answer
    BY <1>3 DEF FindNothing
  <2>2. /\ \A q \in Proc \ {p} : process'[q] = process[q]
        /\ process'[p].pc = "write" /\ process'[p].key = KeyAt(p)
        /\ process'[p].seen = NoDocument
    BY <1>1, <2>1, GotoShape
  <2> QED BY <2>1, <2>2 DEF FindNothing
<1> QED BY <1>2, <1>3

LEMMA UpsertEffects ==
  ASSUME StoreShape, NEW p \in Proc, Upsert(p)
  PROVE  /\ KeyAt(p) \in Key /\ process[p].pc = "write"
         /\ \A q \in Proc \ {p} : process'[q] = process[q]
         /\ process'[p].pc = "written" /\ process'[p].key = KeyAt(p)
         /\ process'[p].seen = Written(p)
         /\ document'[KeyAt(p)] = Written(p)
         /\ writers'[KeyAt(p)] = writers[KeyAt(p)] \cup {p}
         /\ \A k \in Key \ {KeyAt(p)} :
              document'[k] = document[k] /\ writers'[k] = writers[k]
         /\ UNCHANGED <<cache, clock, faults, answer>>
<1>1. process[p].pc = "write" /\ KeyAt(p) \in Key
  BY InCall DEF Upsert
<1>2. Goto(p, "written", Written(p), 0) /\ Written(p) \in DocumentOf(KeyAt(p))
  BY <1>1, WrittenType DEF Upsert
<1>3. /\ \A q \in Proc \ {p} : process'[q] = process[q]
      /\ process'[p].pc = "written" /\ process'[p].key = KeyAt(p)
      /\ process'[p].seen = Written(p)
  BY <1>1, <1>2, GotoShape
<1>4. /\ document' = [document EXCEPT ![KeyAt(p)] = Written(p)]
      /\ writers' = [writers EXCEPT ![KeyAt(p)] = @ \cup {p}]
      /\ UNCHANGED <<cache, clock, faults, answer>>
  BY DEF Upsert
<1>5. /\ document'[KeyAt(p)] = Written(p)
      /\ writers'[KeyAt(p)] = writers[KeyAt(p)] \cup {p}
      /\ \A k \in Key \ {KeyAt(p)} :
           document'[k] = document[k] /\ writers'[k] = writers[k]
  BY <1>1, <1>4 DEF StoreShape, StoreTypeOK
<1> QED BY <1>1, <1>3, <1>4, <1>5

\* The end of a write, a failing call, a restart and a new process.
LEMMA EndEffects ==
  ASSUME StoreShape, NEW p \in Proc,
         EndSet(p) \/ CallFails(p) \/ Restart(p) \/ Renew(p)
  PROVE  /\ \A q \in Proc \ {p} : process'[q] = process[q]
         /\ process'[p] = Idle \/ (Renew(p) /\ process'[p] = process[p])
         /\ \A q \in Proc, k \in Key : cache'[q][k] \in {cache[q][k], NoEntry}
         /\ UNCHANGED <<document, clock, writers>>
<1>1. /\ process' = [process EXCEPT ![p] = Idle] \/ (Renew(p) /\ process' = process)
      /\ UNCHANGED <<document, clock, writers>>
  BY DEF EndSet, Answer, CallFails, QueryFails, UpsertFails, LoseReply, Raise, Restart,
         Renew, history
<1>2. cache' = cache \/ cache' = [cache EXCEPT ![p][KeyAt(p)] = NoEntry]
      \/ cache' = [cache EXCEPT ![p] = [k \in Key |-> NoEntry]]
  BY DEF EndSet, CallFails, QueryFails, UpsertFails, LoseReply, Evict, Restart, Renew
<1> QED BY <1>1, <1>2 DEF StoreShape

LEMMA ListEffects ==
  ASSUME StoreShape, NEW p \in Proc, NEW S, ListFlags(p, S)
  PROVE  /\ \A q \in Proc, k \in Key : listed'[q][k] \in {listed[q][k], document[k].stamp}
         /\ process[p].pc = "idle"
         /\ UNCHANGED <<document, cache, process, clock, faults, answer, writers>>
  BY DEF ListFlags, StoreShape, StoreTypeOK

LEMMA CachedType ==
  ASSUME StoreShape, NEW p \in Proc, ServeCached(p)
  PROVE  /\ KeyAt(p) \in Key /\ process[p].pc = "look"
         /\ Entry(p).document \in DocumentOf(KeyAt(p)) /\ Entry(p).document.stamp > 0
         /\ Found(p, Entry(p).document)
         /\ UNCHANGED <<document, cache, clock, faults, writers>>
  BY InCall DEF ServeCached, IsFresh, Entry, EntryOf, StoreShape, StoreTypeOK

-----------------------------------------------------------------------------
(* How old an answer may be.                                               *)

\* An entry expires in time, and a read under way has not taken too long.
Aged ==
  /\ \A p \in Proc, k \in Key :
       cache[p][k].expires <= cache[p][k].read + TTL + MaxDelay
  /\ \A p \in Proc :
       process[p].pc = "reply" => clock <= process[p].asked + MaxDelay

LEMMA AgedStep ==
  ASSUME StoreShape, Aged, NEW p \in Proc, StoreStep(p)
  PROVE  Aged'
<1> USE FlagStoreAssumption
<1>0. NoEntry.expires <= NoEntry.read + TTL + MaxDelay /\ Idle.pc # "reply"
  BY DEF NoEntry, Idle
<1>1. CASE Starts(p)
  BY <1>1, StartEffects DEF Aged
<1>2. CASE ServeCached(p)
  BY <1>0, <1>2, CachedType, FoundEffects DEF Aged
<1>3. CASE Query(p)
  <2>1. clock <= clock + MaxDelay
    BY DEF StoreShape, StoreTypeOK
  <2> QED BY <1>0, <1>3, <2>1, QueryEffects DEF Aged
<1>4. CASE FillCache(p)
  <2>1. process[p].pc = "reply" /\ process[p].asked \in Nat /\ clock \in Nat
    BY <1>4, FillEffects DEF StoreShape, StoreTypeOK, Rec
  <2>2. clock + TTL <= process[p].asked + TTL + MaxDelay
    BY <2>1 DEF Aged
  <2>3. \A q \in Proc, k \in Key :
          cache'[q][k].expires <= cache'[q][k].read + TTL + MaxDelay
    BY <1>4, <2>2, FillEffects DEF Aged
  <2>4. \A q \in Proc : process'[q].pc = "reply" => process'[q] = process[q]
    <3>1. Found(p, process[p].seen) /\ process[p].seen \in DocumentOf(KeyAt(p))
      BY <1>4, FillEffects
    <3> QED BY <1>0, <2>1, <3>1, FoundEffects
  <2>5. clock' = clock
    BY <1>4, FillEffects
  <2> QED BY <2>3, <2>4, <2>5 DEF Aged
<1>5. CASE FindNothing(p)
  BY <1>0, <1>5, NothingEffects DEF Aged
<1>6. CASE Upsert(p)
  BY <1>6, UpsertEffects DEF Aged
<1>7. CASE EndSet(p) \/ CallFails(p) \/ Restart(p) \/ Renew(p)
  BY <1>0, <1>7, EndEffects DEF Aged
<1>8. CASE \E S : ListFlags(p, S)
  BY <1>8, ListEffects DEF Aged
<1> QED BY <1>1, <1>2, <1>3, <1>4, <1>5, <1>6, <1>7, <1>8 DEF StoreStep, Call

LEMMA AgedTick ==
  ASSUME StoreShape, Aged, Tick
  PROVE  Aged'
<1>1. ASSUME NEW p \in Proc, process[p].pc = "reply"
      PROVE  clock + 1 <= process[p].asked + MaxDelay
  <2>1. process[p].asked \in Nat /\ clock \in Nat /\ MaxDelay \in Nat
    BY FlagStoreAssumption DEF StoreShape, StoreTypeOK, Rec
  <2> QED BY <1>1, <2>1 DEF Tick
<1> QED BY <1>1 DEF Tick, Aged

\* StaleAtMostTTL: what a process may answer from its cache was in Cosmos within
\* the time to live and the longest answer of Cosmos.
THEOREM LearningStaleAtMostTTL == Spec => []StaleAtMostTTL
<1>1. Init => Aged
  BY Constants, FlagStoreAssumption DEF Init, StoreInit, Aged, NoEntry
<1>2. Shape /\ Aged /\ [Next]_vars => Aged'
  <2> SUFFICES ASSUME Shape, Aged, [Next]_vars PROVE Aged'
    OBVIOUS
  <2>1. CASE UNCHANGED storeVars
    BY <2>1 DEF storeVars, Aged
  <2> QED BY <2>1, StepsOfStore, AgedStep, AgedTick DEF Shape
<1>3. Shape /\ Aged => StaleAtMostTTL
  <2> SUFFICES ASSUME Shape, Aged, NEW p \in Proc, NEW k \in Key, IsFresh(cache[p][k])
               PROVE  clock < cache[p][k].read + TTL + MaxDelay
    BY DEF StaleAtMostTTL
  <2>1. cache[p][k].expires \in Nat /\ cache[p][k].read \in Nat /\ clock \in Nat
    BY DEF Shape, StoreShape, StoreTypeOK, Ent
  <2> QED BY <2>1, FlagStoreAssumption DEF Aged, IsFresh
<1> QED BY <1>1, <1>2, <1>3, ShapeInit, ShapeStep, PTL DEF Spec

-----------------------------------------------------------------------------
(* The order of answers.                                                   *)

\* What a process was answered with is in Cosmos or was replaced there, and
\* nothing it may still answer with is older.
Ordered ==
  /\ \A p \in Proc, k \in Key :
       /\ answer[p][k] <= document[k].stamp
       /\ cache[p][k].document.stamp > 0 =>
            /\ answer[p][k] <= cache[p][k].document.stamp
            /\ cache[p][k].document.stamp <= document[k].stamp
  /\ \A p \in Proc : process[p].pc \in {"reply", "written"} =>
       /\ answer[p][KeyAt(p)] <= process[p].seen.stamp
       /\ process[p].seen.stamp <= document[KeyAt(p)].stamp

LEMMA Stamps ==
  ASSUME StoreShape, NEW p \in Proc, NEW k \in Key
  PROVE  /\ answer[p][k] \in Nat /\ listed[p][k] \in Nat /\ document[k].stamp \in Nat
         /\ cache[p][k].document.stamp \in Nat /\ process[p].seen.stamp \in Nat
  BY DEF StoreShape, StoreTypeOK, Doc, Ent, Rec

\* A look-up ends with an answer, or a version to write, that is not older than
\* the last answer.
LEMMA FoundOrdered ==
  ASSUME StoreShape, Ordered, NEW p \in Proc, KeyAt(p) \in Key, NEW n \in Nat,
         answer[p][KeyAt(p)] <= n, n <= document[KeyAt(p)].stamp, UNCHANGED document,
         process'[p].pc \notin {"reply", "written"},
         \A q \in Proc \ {p} : process'[q] = process[q],
         \A q \in Proc, k \in Key : q # p \/ k # KeyAt(p) =>
           answer'[q][k] = answer[q][k] /\ cache'[q][k] = cache[q][k],
         answer'[p][KeyAt(p)] \in {answer[p][KeyAt(p)], n},
         cache'[p][KeyAt(p)].document.stamp = n
  PROVE  /\ Ordered'
         /\ \A q \in Proc, k \in Key : answer[q][k] <= answer'[q][k]
<1>1. \A q \in Proc, k \in Key :
        /\ answer[q][k] <= answer'[q][k]
        /\ answer'[q][k] <= document'[k].stamp
        /\ cache'[q][k].document.stamp > 0 =>
             /\ answer'[q][k] <= cache'[q][k].document.stamp
             /\ cache'[q][k].document.stamp <= document'[k].stamp
  <2> SUFFICES ASSUME NEW q \in Proc, NEW k \in Key
               PROVE  /\ answer[q][k] <= answer'[q][k]
                      /\ answer'[q][k] <= document'[k].stamp
                      /\ cache'[q][k].document.stamp > 0 =>
                           /\ answer'[q][k] <= cache'[q][k].document.stamp
                           /\ cache'[q][k].document.stamp <= document'[k].stamp
    OBVIOUS
  <2>1. CASE q = p /\ k = KeyAt(p)
    BY <2>1, Stamps
  <2>2. CASE ~(q = p /\ k = KeyAt(p))
    BY <2>2, Stamps DEF Ordered
  <2> QED BY <2>1, <2>2
<1>2. ASSUME NEW q \in Proc, process'[q].pc \in {"reply", "written"}
      PROVE  /\ answer'[q][KeyAt(q)'] <= process'[q].seen.stamp
             /\ process'[q].seen.stamp <= document'[KeyAt(q)'].stamp
  <2>1. q # p /\ process'[q] = process[q] /\ process[q].pc # "idle"
    BY <1>2
  <2>2. KeyAt(q) \in Key
    BY <2>1, InCall
  <2> QED BY <1>2, <2>1, <2>2 DEF Ordered, KeyAt
<1> QED BY <1>1, <1>2 DEF Ordered

LEMMA OrderedStep ==
  ASSUME StoreShape, Ordered, NEW p \in Proc, StoreStep(p)
  PROVE  /\ Ordered'
         /\ \A q \in Proc, k \in Key : answer[q][k] <= answer'[q][k]
<1>0. NoEntry.document.stamp = 0 /\ Idle.pc = "idle"
  BY DEF NoEntry, NoDocument, Idle
<1>1. CASE Starts(p)
  BY <1>1, StartEffects, Stamps DEF Ordered, KeyAt
<1>2. CASE ServeCached(p)
  <2>1. /\ KeyAt(p) \in Key /\ Entry(p) = cache[p][KeyAt(p)]
        /\ answer[p][KeyAt(p)] <= Entry(p).document.stamp
        /\ Entry(p).document.stamp <= document[KeyAt(p)].stamp
        /\ UNCHANGED <<document, cache>>
    BY <1>2, CachedType DEF Ordered, Entry
  <2>2. /\ process'[p].pc \notin {"reply", "written"}
        /\ \A q \in Proc \ {p} : process'[q] = process[q]
        /\ \A q \in Proc, k \in Key : q # p \/ k # KeyAt(p) => answer'[q][k] = answer[q][k]
        /\ answer'[p][KeyAt(p)] \in {answer[p][KeyAt(p)], Entry(p).document.stamp}
    <3>1. /\ Found(p, Entry(p).document) /\ Entry(p).document \in DocumentOf(KeyAt(p))
          /\ process[p].pc = "look"
      BY <1>2, CachedType
    <3> QED BY <1>0, <3>1, FoundEffects
  <2>3. Entry(p).document.stamp \in Nat
    BY <2>1, Stamps
  <2> QED BY <2>1, <2>2, <2>3, FoundOrdered
<1>3. CASE Query(p)
  BY <1>0, <1>3, QueryEffects, Stamps DEF Ordered, KeyAt
<1>4. CASE FillCache(p)
  <2>1. /\ KeyAt(p) \in Key /\ cache'[p][KeyAt(p)].document = process[p].seen
        /\ answer[p][KeyAt(p)] <= process[p].seen.stamp
        /\ process[p].seen.stamp <= document[KeyAt(p)].stamp
        /\ UNCHANGED document
    BY <1>4, FillEffects DEF Ordered
  <2>2. /\ process'[p].pc \notin {"reply", "written"}
        /\ \A q \in Proc \ {p} : process'[q] = process[q]
        /\ \A q \in Proc, k \in Key : q # p \/ k # KeyAt(p) =>
             answer'[q][k] = answer[q][k] /\ cache'[q][k] = cache[q][k]
        /\ answer'[p][KeyAt(p)] \in {answer[p][KeyAt(p)], process[p].seen.stamp}
    <3>1. /\ Found(p, process[p].seen) /\ process[p].seen \in DocumentOf(KeyAt(p))
          /\ process[p].pc = "reply"
          /\ \A q \in Proc, k \in Key : q # p \/ k # KeyAt(p) => cache'[q][k] = cache[q][k]
      BY <1>4, FillEffects
    <3> QED BY <1>0, <2>1, <3>1, FoundEffects
  <2>3. process[p].seen.stamp \in Nat
    BY <2>1, Stamps
  <2>4. cache'[p][KeyAt(p)].document.stamp = process[p].seen.stamp
    BY <2>1
  <2> QED BY <2>1, <2>2, <2>3, <2>4, FoundOrdered
<1>5. CASE FindNothing(p)
  BY <1>0, <1>5, NothingEffects, Stamps DEF Ordered, KeyAt
<1>6. CASE Upsert(p)
  <2>1. Written(p).stamp = document[KeyAt(p)].stamp + 1
    BY DEF Written
  <2>2. \A k \in Key : document[k].stamp \in Nat /\ document'[k].stamp \in Nat
                        /\ document[k].stamp <= document'[k].stamp
    BY <1>6, <2>1, UpsertEffects, Stamps
  <2>3. \A q \in Proc, k \in Key :
          /\ answer'[q][k] <= document'[k].stamp
          /\ cache'[q][k].document.stamp > 0 =>
               /\ answer'[q][k] <= cache'[q][k].document.stamp
               /\ cache'[q][k].document.stamp <= document'[k].stamp
    BY <1>6, <2>2, UpsertEffects, Stamps DEF Ordered
  <2>4. /\ answer'[p][KeyAt(p)'] <= process'[p].seen.stamp
        /\ process'[p].seen.stamp <= document'[KeyAt(p)'].stamp
    BY <1>6, <2>1, <2>2, UpsertEffects, Stamps DEF Ordered, KeyAt
  <2>5. ASSUME NEW q \in Proc \ {p}, process'[q].pc \in {"reply", "written"}
        PROVE  /\ answer'[q][KeyAt(q)'] <= process'[q].seen.stamp
               /\ process'[q].seen.stamp <= document'[KeyAt(q)'].stamp
    <3>1. process'[q] = process[q] /\ answer' = answer /\ KeyAt(q) \in Key
      BY <1>6, <2>5, UpsertEffects, InCall
    <3> QED BY <2>2, <2>5, <3>1, Stamps DEF Ordered, KeyAt
  <2>6. answer' = answer
    BY <1>6, UpsertEffects
  <2> QED BY <2>3, <2>4, <2>5, <2>6, Stamps DEF Ordered
<1>7. CASE EndSet(p)
  <2>1. process[p].pc = "written" /\ KeyAt(p) \in Key
        /\ answer' = [answer EXCEPT ![p][KeyAt(p)] = process[p].seen.stamp]
        /\ cache' = [cache EXCEPT ![p][KeyAt(p)] = NoEntry]
    BY <1>7, InCall DEF EndSet, Answer, Evict
  <2>2. /\ answer'[p][KeyAt(p)] = process[p].seen.stamp
        /\ \A q \in Proc, k \in Key : q # p \/ k # KeyAt(p) => answer'[q][k] = answer[q][k]
    BY <2>1 DEF StoreShape, StoreTypeOK
  <2>3. /\ process'[p].pc = "idle"
        /\ \A q \in Proc \ {p} : process'[q] = process[q]
        /\ \A q \in Proc, k \in Key : cache'[q][k] \in {cache[q][k], NoEntry}
        /\ document' = document
    BY <1>7, <2>1, EndEffects, Constants DEF Renew
  <2>4. ASSUME NEW q \in Proc, NEW k \in Key
        PROVE  answer[q][k] <= answer'[q][k] /\ answer'[q][k] <= document'[k].stamp
    <3>1. CASE q = p /\ k = KeyAt(p)
      BY <2>1, <2>2, <2>3, <3>1, Stamps DEF Ordered
    <3>2. CASE q # p \/ k # KeyAt(p)
      BY <2>2, <2>3, <3>2, Stamps DEF Ordered
    <3> QED BY <3>1, <3>2
  <2>5. ASSUME NEW q \in Proc, NEW k \in Key, cache'[q][k].document.stamp > 0
        PROVE  /\ answer'[q][k] <= cache'[q][k].document.stamp
               /\ cache'[q][k].document.stamp <= document'[k].stamp
    <3>1. cache'[q][k] = cache[q][k]
      BY <2>3, <2>5 DEF NoEntry, NoDocument
    <3>2. cache'[p][KeyAt(p)] = NoEntry
      BY <2>1 DEF StoreShape
    <3>3. q # p \/ k # KeyAt(p)
      BY <2>5, <3>2 DEF NoEntry, NoDocument
    <3> QED BY <2>2, <2>3, <2>5, <3>1, <3>3 DEF Ordered
  <2>6. ASSUME NEW q \in Proc, process'[q].pc \in {"reply", "written"}
        PROVE  /\ answer'[q][KeyAt(q)'] <= process'[q].seen.stamp
               /\ process'[q].seen.stamp <= document'[KeyAt(q)'].stamp
    <3>1. q # p /\ process'[q] = process[q] /\ KeyAt(q) \in Key
      BY <2>3, <2>6, InCall
    <3> QED BY <2>2, <2>3, <2>6, <3>1 DEF Ordered, KeyAt
  <2> QED BY <2>4, <2>5, <2>6 DEF Ordered
<1>8. CASE CallFails(p) \/ Restart(p) \/ Renew(p)
  <2>1. answer' = answer
    BY <1>8 DEF CallFails, QueryFails, UpsertFails, LoseReply, Raise, Restart, Renew, history
  <2> QED BY <1>0, <1>8, <2>1, EndEffects, Stamps DEF Ordered, KeyAt
<1>9. CASE \E S : ListFlags(p, S)
  BY <1>9, ListEffects, Stamps DEF Ordered, KeyAt
<1> QED BY <1>1, <1>2, <1>3, <1>4, <1>5, <1>6, <1>7, <1>8, <1>9 DEF StoreStep, Call

\* A list is not ahead of Cosmos, nor of a document that was read after it.
Listing ==
  /\ \A p \in Proc, k \in Key : listed[p][k] <= document[k].stamp
  /\ \A p \in Proc : process[p].pc \in {"reply", "written"} =>
       listed[p][KeyAt(p)] <= process[p].seen.stamp

LEMMA DocumentsGrow ==
  ASSUME StoreShape, NEW p \in Proc, StoreStep(p), NEW k \in Key
  PROVE  document[k].stamp <= document'[k].stamp /\ document'[k].stamp \in Nat
<1>1. CASE Upsert(p)
  <2>1. Written(p).stamp = document[KeyAt(p)].stamp + 1
    BY DEF Written
  <2> QED BY <1>1, <2>1, UpsertEffects, Stamps
<1>2. CASE ~Upsert(p)
  <2>1. document' = document
    BY <1>2 DEF StoreStep, Starts, Begin, Call, ServeCached, Query, FillCache, FindNothing,
       EndSet, CallFails, QueryFails, UpsertFails, LoseReply, Restart, Renew, ListFlags, history
  <2> QED BY <2>1, Stamps
<1> QED BY <1>1, <1>2

\* A process has a document in its hands after it asked for it or wrote it.
LEMMA InHands ==
  ASSUME StoreShape, NEW p \in Proc, StoreStep(p),
         process'[p].pc \in {"reply", "written"}
  PROVE  Query(p) \/ Upsert(p)
<1>0. Idle.pc = "idle"
  BY DEF Idle
<1>1. ~Starts(p)
  BY StartEffects
<1>2. ~ServeCached(p)
  BY <1>0, CachedType, FoundEffects
<1>3. ~FillCache(p)
  <2> SUFFICES ASSUME FillCache(p) PROVE FALSE
    OBVIOUS
  <2>1. /\ Found(p, process[p].seen) /\ process[p].seen \in DocumentOf(KeyAt(p))
        /\ process[p].pc = "reply"
    BY FillEffects
  <2> QED BY <1>0, <2>1, FoundEffects
<1>4. ~FindNothing(p)
  BY <1>0, NothingEffects
<1>5. ~(EndSet(p) \/ CallFails(p) \/ Restart(p) \/ Renew(p))
  BY <1>0, EndEffects DEF Renew
<1>6. ASSUME NEW S, ListFlags(p, S) PROVE FALSE
  BY <1>6, ListEffects
<1> QED BY <1>1, <1>2, <1>3, <1>4, <1>5, <1>6 DEF StoreStep, Call

\* An answer is what is fresh in the cache, or what was read or written now.
LEMMA AnswersGiven ==
  ASSUME StoreShape, NEW p \in Proc, StoreStep(p), NEW q \in Proc, NEW k \in Key,
         answer'[q][k] # answer[q][k]
  PROVE  /\ q = p /\ k = KeyAt(p) /\ listed' = listed
         /\ \/ IsFresh(cache[p][k])
            \/ process[p].pc \in {"reply", "written"} /\ answer'[p][k] = process[p].seen.stamp
<1>1. CASE ServeCached(p)
  <2>1. /\ Found(p, Entry(p).document) /\ Entry(p).document \in DocumentOf(KeyAt(p))
        /\ process[p].pc = "look"
    BY <1>1, CachedType
  <2>2. q = p /\ k = KeyAt(p)
    BY <2>1, FoundEffects
  <2> QED BY <1>1, <2>2 DEF ServeCached, Entry
<1>2. CASE FillCache(p)
  <2>1. /\ Found(p, process[p].seen) /\ process[p].seen \in DocumentOf(KeyAt(p))
        /\ process[p].pc = "reply" /\ listed' = listed
    BY <1>2, FillEffects DEF FillCache
  <2> QED BY <2>1, FoundEffects
<1>3. CASE EndSet(p)
  <2>1. /\ process[p].pc = "written" /\ KeyAt(p) \in Key /\ listed' = listed
        /\ answer' = [answer EXCEPT ![p][KeyAt(p)] = process[p].seen.stamp]
    BY <1>3, InCall DEF EndSet, Answer
  <2>2. /\ answer'[p][KeyAt(p)] = process[p].seen.stamp
        /\ \A r \in Proc, l \in Key : r # p \/ l # KeyAt(p) => answer'[r][l] = answer[r][l]
    BY <2>1 DEF StoreShape, StoreTypeOK
  <2> QED BY <2>1, <2>2
<1>4. ~Starts(p)
  BY StartEffects
<1>5. ~Query(p) /\ ~Upsert(p) /\ ~FindNothing(p)
  BY QueryEffects, UpsertEffects, NothingEffects
<1>6. ~(CallFails(p) \/ Restart(p) \/ Renew(p))
  BY DEF CallFails, QueryFails, UpsertFails, LoseReply, Raise, Restart, Renew, history
<1>7. ASSUME NEW S, ListFlags(p, S) PROVE FALSE
  BY <1>7, ListEffects
<1> QED BY <1>1, <1>2, <1>3, <1>4, <1>5, <1>6, <1>7 DEF StoreStep, Call

\* The lists move forward too, and an answer is behind one only if it was fresh
\* in the cache.
InOrder(p, k) ==
  /\ answer[p][k] <= answer'[p][k] /\ listed[p][k] <= listed'[p][k]
  /\ listed'[p][k] # listed[p][k] => answer[p][k] <= listed'[p][k]
  /\ answer'[p][k] # answer[p][k] /\ answer'[p][k] < listed[p][k] => IsFresh(cache[p][k])

LEMMA ListingStep ==
  ASSUME StoreShape, Ordered, Listing, NEW p \in Proc, StoreStep(p)
  PROVE  Listing' /\ \A q \in Proc, k \in Key : InOrder(q, k)
<1>1. \A q \in Proc, k \in Key : listed'[q][k] \in {listed[q][k], document[k].stamp}
  <2>1. CASE \E S : ListFlags(p, S)
    BY <2>1, ListEffects
  <2>2. CASE ~ \E S : ListFlags(p, S)
    <3>1. listed' = listed
      BY <2>2 DEF StoreStep, Starts, Begin, Call, ServeCached, Query, FillCache, FindNothing,
         Upsert, EndSet, CallFails, QueryFails, UpsertFails, LoseReply, Restart, Renew, history
    <3> QED BY <3>1
  <2> QED BY <2>1, <2>2
<1>2. \A q \in Proc \ {p} : process'[q] = process[q]
  <2>1. \A S : ListFlags(p, S) => process' = process
    BY ListEffects
  <2>2. ServeCached(p) \/ FillCache(p) => \A q \in Proc \ {p} : process'[q] = process[q]
    <3>1. ASSUME NEW d \in DocumentOf(KeyAt(p)), Found(p, d), process[p].pc # "idle"
          PROVE  \A q \in Proc \ {p} : process'[q] = process[q]
      BY <3>1, FoundEffects
    <3>2. ServeCached(p) => Found(p, Entry(p).document) /\ process[p].pc = "look"
                            /\ Entry(p).document \in DocumentOf(KeyAt(p))
      BY CachedType
    <3>3. FillCache(p) => Found(p, process[p].seen) /\ process[p].pc = "reply"
                          /\ process[p].seen \in DocumentOf(KeyAt(p))
      BY FillEffects
    <3> QED BY <3>1, <3>2, <3>3
  <2> QED BY <2>1, <2>2, StartEffects, QueryEffects, NothingEffects, UpsertEffects, EndEffects
          DEF StoreStep, Call
<1>3. ASSUME NEW q \in Proc, NEW k \in Key
      PROVE  listed[q][k] <= listed'[q][k] /\ listed'[q][k] <= document[k].stamp
             /\ listed'[q][k] <= document'[k].stamp
  <2>1. /\ listed[q][k] <= document[k].stamp /\ document[k].stamp <= document'[k].stamp
        /\ document'[k].stamp \in Nat
    BY DocumentsGrow DEF Listing
  <2>2. listed[q][k] \in Nat /\ document[k].stamp \in Nat
    BY Stamps
  <2>3. listed[q][k] <= listed'[q][k] /\ listed'[q][k] <= document[k].stamp
        /\ listed'[q][k] \in Nat
    BY <1>1, <2>1, <2>2
  <2> QED BY <2>1, <2>2, <2>3
<1>4. ASSUME NEW q \in Proc, process'[q].pc \in {"reply", "written"}
      PROVE  listed'[q][KeyAt(q)'] <= process'[q].seen.stamp
  <2>1. CASE q = p
    <3>1. CASE Query(p)
      BY <1>3, <2>1, <3>1, QueryEffects DEF KeyAt
    <3>2. CASE Upsert(p)
      <4>1. document'[KeyAt(p)] = Written(p) /\ process'[p].seen = Written(p)
            /\ process'[p].key = KeyAt(p) /\ KeyAt(p) \in Key
        BY <3>2, UpsertEffects
      <4> QED BY <1>3, <2>1, <4>1 DEF KeyAt
    <3> QED BY <1>4, <2>1, <3>1, <3>2, InHands
  <2>2. CASE q # p
    <3>1. process'[q] = process[q] /\ process[q].pc # "idle"
      BY <1>2, <1>4, <2>2
    <3>2. KeyAt(q) \in Key
      BY <3>1, InCall
    <3>3. listed'[q] = listed[q]
      <4>1. CASE \E S : ListFlags(p, S)
        BY <2>2, <4>1 DEF ListFlags, StoreShape, StoreTypeOK
      <4>2. CASE ~ \E S : ListFlags(p, S)
        BY <4>2 DEF StoreStep, Starts, Begin, Call, ServeCached, Query, FillCache, FindNothing,
           Upsert, EndSet, CallFails, QueryFails, UpsertFails, LoseReply, Restart, Renew, history
      <4> QED BY <4>1, <4>2
    <3> QED BY <1>4, <3>1, <3>2, <3>3 DEF Listing, KeyAt
  <2> QED BY <2>1, <2>2
<1>5. Listing'
  BY <1>3, <1>4 DEF Listing
<1>6. ASSUME NEW q \in Proc, NEW k \in Key PROVE InOrder(q, k)
  <2>1. answer[q][k] <= answer'[q][k]
    BY OrderedStep
  <2>2. listed'[q][k] # listed[q][k] => answer[q][k] <= listed'[q][k]
    BY <1>1 DEF Ordered
  <2>3. ASSUME answer'[q][k] # answer[q][k], answer'[q][k] < listed[q][k]
        PROVE  IsFresh(cache[q][k])
    <3>1. /\ q = p /\ k = KeyAt(p)
          /\ \/ IsFresh(cache[p][k])
             \/ process[p].pc \in {"reply", "written"} /\ answer'[p][k] = process[p].seen.stamp
      BY <2>3, AnswersGiven
    <3>2. listed[q][k] \in Nat /\ process[p].seen.stamp \in Nat
      BY Stamps
    <3> QED BY <2>3, <3>1, <3>2 DEF Listing
  <2> QED BY <1>3, <2>1, <2>2, <2>3 DEF InOrder
<1> QED BY <1>5, <1>6

LEMMA OrderedInit == Init => Ordered /\ Listing
  BY DEF Init, StoreInit, Ordered, Listing, NoEntry, NoDocument, Idle

LEMMA OrderedNext ==
  Shape /\ Ordered /\ Listing /\ [Next]_vars =>
    Ordered' /\ Listing' /\ \A p \in Proc, k \in Key : InOrder(p, k)
<1> SUFFICES ASSUME Shape, Ordered, Listing, [Next]_vars
             PROVE  Ordered' /\ Listing' /\ \A p \in Proc, k \in Key : InOrder(p, k)
  OBVIOUS
<1>1. CASE UNCHANGED storeVars \/ Tick
  <2>1. UNCHANGED <<document, cache, process, answer, listed>>
    BY <1>1 DEF Tick, storeVars, history
  <2>2. Ordered' /\ Listing'
    BY <2>1 DEF Ordered, Listing, KeyAt
  <2> QED BY <2>1, <2>2, Stamps DEF InOrder, Shape
<1> QED BY <1>1, StepsOfStore, OrderedStep, ListingStep DEF Shape

\* AnswersNeverGoBack: what get and set answer a process with is never older than
\* before, its own writes included, a list is never older than an earlier list
\* or answer, and a get is behind a list only by an entry that is fresh in the
\* cache, for any number of processes, lists and faults.
THEOREM LearningAnswersNeverGoBack == Spec => AnswersNeverGoBack
<1>1. Shape /\ Ordered /\ Listing /\ [Next]_vars =>
        [\A p \in Proc, k \in Key :
           /\ answer[p][k] <= answer'[p][k] /\ listed[p][k] <= listed'[p][k]
           /\ listed'[p][k] # listed[p][k] => answer[p][k] <= listed'[p][k]
           /\ answer'[p][k] # answer[p][k] /\ answer'[p][k] < listed[p][k] =>
                IsFresh(cache[p][k])]_storeVars
  BY OrderedNext DEF InOrder
<1> QED BY <1>1, OrderedInit, OrderedNext, ShapeInit, ShapeStep, PTL
        DEF Spec, AnswersNeverGoBack

-----------------------------------------------------------------------------
(* The version of a flag.                                                  *)

\* Nobody but p wrote k, and no call failed.
Sole(p, k) == faults = 0 /\ writers[k] \subseteq {p}

\* Then all that p has of k is what Cosmos has, but for its own cache between
\* a write and the end of the call.
Coherent(p, k) ==
  /\ document[k].version = document[k].stamp
  /\ cache[p][k].document.stamp > 0 /\ ~(process[p].pc = "written" /\ KeyAt(p) = k) =>
       cache[p][k].document = document[k]
  /\ process[p].pc \in {"reply", "write"} /\ KeyAt(p) = k => process[p].seen = document[k]

Counted == \A p \in Proc, k \in Flag : Sole(p, k) => Coherent(p, k)

LEMMA CountedStep ==
  ASSUME StoreShape, Counted, NEW p \in Proc, StoreStep(p)
  PROVE  Counted'
<1>0. NoEntry.document.stamp = 0 /\ Idle.pc = "idle" /\ Flag \subseteq Key
  BY DEF NoEntry, NoDocument, Idle, Key
<1>1. CASE Starts(p)
  BY <1>0, <1>1, StartEffects DEF Counted, Sole, Coherent, KeyAt
<1>2. CASE ServeCached(p)
  BY <1>0, <1>2, CachedType, FoundEffects DEF Counted, Sole, Coherent, KeyAt, Entry
<1>3. CASE Query(p)
  BY <1>0, <1>3, QueryEffects DEF Counted, Sole, Coherent, KeyAt
<1>4. CASE FillCache(p)
  <2>1. /\ Found(p, process[p].seen) /\ process[p].seen \in DocumentOf(KeyAt(p))
        /\ process[p].pc = "reply" /\ KeyAt(p) \in Key
        /\ cache'[p][KeyAt(p)].document = process[p].seen
        /\ \A q \in Proc, k \in Key : q # p \/ k # KeyAt(p) => cache'[q][k] = cache[q][k]
        /\ UNCHANGED <<document, faults, writers>>
    BY <1>4, FillEffects
  <2>2. /\ \A q \in Proc \ {p} : process'[q] = process[q]
        /\ \/ process'[p] = Idle
           \/ /\ process'[p].pc = "write" /\ process'[p].seen = process[p].seen
              /\ process'[p].key = KeyAt(p)
    BY <2>1, FoundEffects
  <2> QED BY <1>0, <2>1, <2>2 DEF Counted, Sole, Coherent, KeyAt
<1>5. CASE FindNothing(p)
  BY <1>0, <1>5, NothingEffects DEF Counted, Sole, Coherent, KeyAt
<1>6. CASE Upsert(p)
  <2>1. KeyAt(p) \in Flag => Written(p).version = process[p].seen.version + 1
    BY DEF Written
  <2>2. Written(p).stamp = document[KeyAt(p)].stamp + 1
    BY DEF Written
  <2> SUFFICES ASSUME NEW q \in Proc, NEW k \in Flag, Sole(q, k)'
               PROVE  Coherent(q, k)'
    BY DEF Counted
  <2>3. CASE k # KeyAt(p)
    <3>1. Coherent(q, k)
      BY <1>0, <1>6, <2>3, UpsertEffects DEF Counted, Sole
    <3> QED BY <1>0, <1>6, <2>3, <3>1, UpsertEffects DEF Coherent, KeyAt
  <2>4. CASE k = KeyAt(p)
    <3>1. q = p /\ Sole(p, k)
      BY <1>6, <2>4, UpsertEffects DEF Sole
    <3>2. process[p].seen = document[k] /\ document[k].version = document[k].stamp
      BY <1>6, <2>4, <3>1, UpsertEffects DEF Counted, Coherent
    <3>3. document'[k].version = document'[k].stamp
      BY <1>6, <2>1, <2>2, <2>4, <3>2, UpsertEffects
    <3> QED BY <1>6, <2>4, <3>1, <3>3, UpsertEffects DEF Coherent, KeyAt
  <2> QED BY <2>3, <2>4
<1>7. CASE EndSet(p)
  <2>1. process[p].pc = "written" /\ KeyAt(p) \in Key /\ faults' = faults
        /\ cache' = [cache EXCEPT ![p][KeyAt(p)] = NoEntry]
    BY <1>7, InCall DEF EndSet, Evict
  <2>2. cache'[p][KeyAt(p)] = NoEntry
    BY <2>1 DEF StoreShape
  <2>3. process'[p] = Idle
    BY <1>7 DEF EndSet, Answer, StoreShape
  <2> QED BY <1>0, <1>7, <2>1, <2>2, <2>3, EndEffects DEF Counted, Sole, Coherent, KeyAt
<1>8. CASE CallFails(p) \/ Restart(p)
  <2>1. faults' = faults + 1 /\ faults \in Nat
    BY <1>8 DEF CallFails, QueryFails, UpsertFails, LoseReply, Restart, Fault, StoreShape,
                StoreTypeOK
  <2> QED BY <2>1 DEF Counted, Sole
<1>9. CASE Renew(p)
  <2>1. process' = process /\ faults' = faults
    BY <1>9 DEF Renew
  <2> QED BY <1>0, <1>9, <2>1, EndEffects DEF Counted, Sole, Coherent, KeyAt
<1>10. CASE \E S : ListFlags(p, S)
  <2>1. UNCHANGED <<document, cache, process, faults, writers>>
    BY <1>10, ListEffects
  <2> QED BY <2>1 DEF Counted, Sole, Coherent, KeyAt
<1> QED BY <1>1, <1>2, <1>3, <1>4, <1>5, <1>6, <1>7, <1>8, <1>9, <1>10 DEF StoreStep, Call

\* VersionCountsWrites: while one process writes a flag and no call fails, the
\* flag's version counts its writes, for any number of readers.
THEOREM LearningVersionCountsWrites == Spec => []VersionCountsWrites
<1>1. Init => Counted
  BY DEF Init, StoreInit, Counted, Coherent, NoEntry, NoDocument, Idle, Key
<1>2. Shape /\ Counted /\ [Next]_vars => Counted'
  <2> SUFFICES ASSUME Shape, Counted, [Next]_vars PROVE Counted'
    OBVIOUS
  <2>1. CASE UNCHANGED storeVars \/ Tick
    <3>1. UNCHANGED <<document, cache, process, faults, writers>>
      BY <2>1 DEF Tick, storeVars, history
    <3> QED BY <3>1 DEF Counted, Sole, Coherent, KeyAt
  <2> QED BY <2>1, StepsOfStore, CountedStep DEF Shape
<1>3. Counted => VersionCountsWrites
  BY DEF Counted, Sole, Coherent, VersionCountsWrites
<1> QED BY <1>1, <1>2, <1>3, ShapeInit, ShapeStep, PTL DEF Spec
-----------------------------------------------------------------------------
(* The job's writes as they go.                                            *)

\* The call of the job's process is the first of the writes that are left.
FirstCall ==
  process[Job].pc # "idle" =>
    process[Job].key = todo[1].key /\ process[Job].value = todo[1].value

\* A call that has written left its value, unless another process wrote after.
Landed ==
  process[Job].pc = "written" /\ writers[KeyAt(Job)] \subseteq {Job} =>
    document[KeyAt(Job)].value = process[Job].value

\* Each auto approval that is left to write, and each that is written, was
\* earned or advised.
FlagsEarned ==
  /\ EarnedIn(todo, earned \cup advised)
  /\ \A s \in Config :
       writers[<<s, "auto_approve">>] \subseteq {Job}
         /\ document[<<s, "auto_approve">>].value = "true" => s \in earned \cup advised

\* All that a cycle has left to write about a supplier follows from one
\* profile, and so does what the documents hold that it does not write again.
FollowedBy(P, s) ==
  /\ \A i \in DOMAIN todo : Fits(P, s, todo[i].key, todo[i].value)
  /\ \A k \in About(s) :
       (\E i \in DOMAIN todo : todo[i].key = k) \/ Fits(P, s, k, document[k].value)

Following ==
  plan.silent /\ ApplyFeatureFlagProposals /\ cycle \in {"write", "done"} =>
    \A s \in plan.plain : OnlyTheJobWrites(s) => \E P : FollowedBy(P, s)

\* The first n of the writes of the plan are behind the cycle, and what it wrote
\* is still there unless it was written over.
Behind(n) ==
  /\ Len(plan.writes) = n + Len(todo)
  /\ \A i \in DOMAIN todo : todo[i] = plan.writes[n + i]
  /\ \A i \in 1..n :
       IsLastWord(plan.writes, i) /\ writers[plan.writes[i].key] \subseteq {Job} =>
         document[plan.writes[i].key].value = plan.writes[i].value

Progress == cycle \in {"write", "done"} => \E n \in Nat : Behind(n)

\* Every step leaves a document alone that no other process writes, but for
\* the job's own write.
Kept ==
  \A k \in Key : writers'[k] \subseteq {Job} =>
    writers[k] \subseteq {Job} /\ document'[k] = document[k]

LEMMA KeepsOrWrites ==
  ASSUME Shape, [Next]_vars
  PROVE  Kept \/ (JobCall /\ Upsert(Job))
<1>1. ASSUME UNCHANGED <<document, writers>> PROVE Kept
  BY <1>1 DEF Kept
<1>2. ASSUME NEW p \in Proc \ {Job}, Upsert(p) PROVE Kept
  <2>1. /\ p \in writers'[KeyAt(p)] /\ p # Job
        /\ \A k \in Key \ {KeyAt(p)} :
             document'[k] = document[k] /\ writers'[k] = writers[k]
    BY <1>2, UpsertEffects DEF Shape
  <2> QED BY <2>1 DEF Kept
<1>3. ASSUME NEW p \in Proc, NEW op, NEW key, NEW value,
             \/ Begin(p, op, key, value)
             \/ Call(p) /\ ~Upsert(p)
             \/ EndSet(p) \/ CallFails(p) \/ Restart(p) \/ ListFlags(p, key)
      PROVE  Kept
  <2>1. CASE Begin(p, op, key, value)
    BY <1>1, <2>1 DEF Begin, history
  <2>2. CASE Call(p) /\ ~Upsert(p)
    BY <1>1, <2>2 DEF Call, ServeCached, Query, FillCache, FindNothing, history
  <2>3. CASE EndSet(p) \/ CallFails(p) \/ Restart(p) \/ ListFlags(p, key)
    BY <1>1, <2>3 DEF ListFlags, EndSet, CallFails, QueryFails, UpsertFails, LoseReply, Restart
  <2> QED BY <1>3, <2>1, <2>2, <2>3
<1>4. CASE Tick \/ UNCHANGED storeVars
  BY <1>1, <1>4 DEF Tick, storeVars, history
<1>5. CASE StartCycle
  BY <1>1, <1>5 DEF StartCycle, history
<1>6. CASE Others
  <2>1. PICK p \in Proc \ {Job} :
        \/ \E update \in Operable : Begin(p, "get", update[1], None)
        \/ \E update \in Operable : Begin(p, "set", update[1], update[2])
        \/ \E S \in Listable : ListFlags(p, S)
        \/ Call(p) \/ EndSet(p) \/ CallFails(p) \/ Restart(p)
    BY <1>6 DEF Others
  <2>2. CASE Upsert(p)
    BY <1>2, <2>2
  <2>3. CASE ~Upsert(p)
    BY <1>3, <2>1, <2>3
  <2> QED BY <2>2, <2>3
<1>7. Job \in Proc
  BY LearningAssumption
<1>8. CASE \/ AnalysisFails \/ StartWrite \/ EndWrite \/ JobFails
           \/ JobCall /\ ~Upsert(Job)
  BY <1>3, <1>7, <1>8 DEF AnalysisFails, StartWrite, EndWrite, JobFails, JobCall
<1>9. CASE UNCHANGED vars
  BY <1>4, <1>9 DEF vars
<1>10. CASE JobCall /\ Upsert(Job)
  BY <1>10
<1> QED BY <1>4, <1>5, <1>6, <1>8, <1>9, <1>10 DEF Next

LEMMA GotoKeeps ==
  ASSUME StoreShape, NEW p \in Proc, process[p].pc # "idle",
         NEW d \in DocumentOf(KeyAt(p)), NEW n \in Nat,
         NEW c \in {"look", "reply", "write", "written"}, Goto(p, c, d, n)
  PROVE  /\ process'[p].pc = c /\ process'[p].key = process[p].key
         /\ process'[p].value = process[p].value
<1>1. process' = [process EXCEPT ![p] = [process[p] EXCEPT !.pc = c, !.seen = d, !.asked = n]]
  BY DEF Goto
<1>2. process[p] \in Rec /\ process \in [Proc -> Rec]
  BY DEF StoreShape
<1> QED BY <1>1, <1>2 DEF Rec

\* The job's process goes on with its call or ends it.
LEMMA FoundKeeps ==
  ASSUME StoreShape, NEW p \in Proc, process[p].pc # "idle",
         NEW d \in DocumentOf(KeyAt(p)), Found(p, d)
  PROVE  \/ process'[p].pc = "idle"
         \/ /\ process'[p].pc = "write" /\ process'[p].key = process[p].key
            /\ process'[p].value = process[p].value
<1>1. CASE process[p].op = "get"
  <2>1. process' = [process EXCEPT ![p] = Idle]
    BY <1>1 DEF Found, Answer
  <2> QED BY <2>1, Constants DEF StoreShape
<1>2. CASE process[p].op # "get"
  <2>1. Goto(p, "write", d, 0)
    BY <1>2 DEF Found
  <2> QED BY <2>1, GotoKeeps
<1> QED BY <1>1, <1>2

LEMMA CallKeeps ==
  ASSUME StoreShape, NEW p \in Proc, Call(p)
  PROVE  \/ process'[p].pc = "idle"
         \/ /\ process'[p].key = process[p].key /\ process'[p].value = process[p].value
            /\ process[p].pc # "idle"
            /\ process'[p].pc = "written" => Upsert(p)
<1>1. CASE ServeCached(p)
  <2>1. /\ process[p].pc = "look" /\ Found(p, Entry(p).document)
        /\ Entry(p).document \in DocumentOf(KeyAt(p))
    BY <1>1, CachedType
  <2> QED BY <2>1, FoundKeeps
<1>2. CASE Query(p)
  <2>1. process[p].pc = "look" /\ Goto(p, "reply", document[KeyAt(p)], clock)
    BY <1>2 DEF Query
  <2>2. document[KeyAt(p)] \in DocumentOf(KeyAt(p)) /\ clock \in Nat
    BY <2>1, InCall DEF StoreShape, StoreTypeOK
  <2> QED BY <2>1, <2>2, GotoKeeps
<1>3. CASE FillCache(p)
  <2>1. process[p].pc = "reply" /\ Found(p, process[p].seen)
    BY <1>3 DEF FillCache
  <2>2. process[p].seen \in DocumentOf(KeyAt(p))
    BY <2>1, InCall DEF CallOf
  <2> QED BY <2>1, <2>2, FoundKeeps
<1>4. CASE FindNothing(p)
  <2>1. process[p].pc = "reply" /\ NoDocument \in DocumentOf(KeyAt(p))
    BY <1>4, InCall, Constants DEF FindNothing
  <2>2. CASE process[p].op = "get"
    <3>1. process' = [process EXCEPT ![p] = Idle]
      BY <1>4, <2>2 DEF FindNothing, Raise
    <3> QED BY <3>1, Constants DEF StoreShape
  <2>3. CASE process[p].op # "get"
    <3>1. Goto(p, "write", NoDocument, 0)
      BY <1>4, <2>3 DEF FindNothing
    <3>2. process'[p].pc = "write" /\ process'[p].key = process[p].key
          /\ process'[p].value = process[p].value
      BY <2>1, <3>1, GotoKeeps
    <3> QED BY <2>1, <3>2
  <2> QED BY <2>2, <2>3
<1>5. CASE Upsert(p)
  <2>1. process[p].pc = "write" /\ Goto(p, "written", Written(p), 0)
    BY <1>5 DEF Upsert
  <2>2. Written(p) \in DocumentOf(KeyAt(p))
    BY <2>1, WrittenType
  <2>3. process'[p].key = process[p].key /\ process'[p].value = process[p].value
    BY <2>1, <2>2, GotoKeeps
  <2> QED BY <1>5, <2>1, <2>3
<1> QED BY <1>1, <1>2, <1>3, <1>4, <1>5 DEF Call

LEMMA AboutKeys ==
  ASSUME NEW s \in Config
  PROVE  /\ About(s) \subseteq Key /\ <<s, "auto_approve">> \in Key
         /\ OnlyTheJobWrites(s) <=> \A k \in About(s) : writers[k] \subseteq {Job}
         /\ OnlyTheJobWrites(s)' <=> \A k \in About(s) : writers'[k] \subseteq {Job}
BY FlagKeys DEF Key, OnlyTheJobWrites

\* The steps in which the job takes no part.
Aside == UNCHANGED jobVars /\ process'[Job] = process[Job] /\ Kept

LEMMA StepsAside ==
  ASSUME Shape, Others \/ (Tick /\ UNCHANGED jobVars) \/ UNCHANGED vars
  PROVE  Aside
<1>1. UNCHANGED jobVars
  BY DEF Others, vars
<1>2. process'[Job] = process[Job]
  <2>1. CASE Others
    <3>1. PICK p \in Proc \ {Job} :
        \/ \E update \in Operable : Begin(p, "get", update[1], None)
        \/ \E update \in Operable : Begin(p, "set", update[1], update[2])
        \/ \E S \in Listable : ListFlags(p, S)
        \/ Call(p) \/ EndSet(p) \/ CallFails(p) \/ Restart(p)
      BY <2>1 DEF Others
    <3> QED BY <3>1, OthersElsewhere DEF Shape
  <2>2. CASE ~Others
    BY <2>2 DEF Tick, vars, storeVars
  <2> QED BY <2>1, <2>2
<1>3. ~Upsert(Job)
  BY <1>2, UpsertEffects, LearningAssumption DEF Shape
<1>4. [Next]_vars
  BY DEF Next
<1> QED BY <1>1, <1>2, <1>3, <1>4, KeepsOrWrites DEF Aside

LEMMA FirstOfTodo ==
  ASSUME Shape, cycle = "write"
  PROVE  /\ Len(todo) \in Nat \ {0} /\ DOMAIN todo = 1..Len(todo)
         /\ Head(todo) = todo[1]
         /\ Len(Tail(todo)) = Len(todo) - 1 /\ DOMAIN Tail(todo) = 1..(Len(todo) - 1)
         /\ \A i \in DOMAIN Tail(todo) : Tail(todo)[i] = todo[i + 1]
<1>1. todo \in Seq(KnownWrite) /\ todo # <<>>
  BY DEF Shape, JobTypes, JobWrites
<1>2. Len(todo) \in Nat \ {0} /\ DOMAIN todo = 1..Len(todo)
  BY <1>1, LenProperties, EmptySeq
<1>3. /\ Tail(todo) \in Seq(KnownWrite) /\ Len(Tail(todo)) = Len(todo) - 1
      /\ \A i \in 1..Len(Tail(todo)) : Tail(todo)[i] = todo[i + 1]
  BY <1>1, HeadTailProperties
<1>4. DOMAIN Tail(todo) = 1..(Len(todo) - 1)
  BY <1>3, LenProperties
<1>5. Head(todo) = todo[1]
  BY <1>1, HeadTailProperties
<1> QED BY <1>2, <1>3, <1>4, <1>5

\* A cycle is done when nothing is left to write.
Finished == cycle = "done" => todo = <<>>

JobInv == FirstCall /\ Landed /\ FlagsEarned /\ Following /\ Progress /\ Finished

LEMMA FirstCallStep ==
  ASSUME Shape, FirstCall, Landed, [Next]_vars
  PROVE  FirstCall' /\ Landed'
<1> USE LearningAssumption
<1>1. CASE Aside
  <2>1. process'[Job] = process[Job] /\ todo' = todo /\ Kept
    BY <1>1 DEF Aside, jobVars
  <2>2. FirstCall'
    BY <2>1 DEF FirstCall
  <2>3. process[Job].pc # "idle" => process[Job].key \in Key
    BY InCall DEF Shape, KeyAt
  <2>4. Landed'
    BY <2>1, <2>3 DEF Landed, Kept, KeyAt
  <2> QED BY <2>2, <2>4
<1>2. ASSUME process'[Job].pc = "idle" PROVE FirstCall' /\ Landed'
  BY <1>2 DEF FirstCall, Landed
<1>3. CASE StartCycle
  <2>1. process[Job].pc = "idle" /\ process' = process
    BY <1>3 DEF StartCycle, Shape, JobWrites
  <2> QED BY <1>2, <2>1
<1>4. CASE AnalysisFails \/ EndWrite \/ JobFails
  <2>1. process' = [process EXCEPT ![Job] = Idle]
    BY <1>4 DEF AnalysisFails, EndWrite, JobFails, EndSet, Answer, CallFails, QueryFails,
       UpsertFails, LoseReply, Restart, Raise
  <2>2. process'[Job].pc = "idle"
    BY <2>1, Constants DEF Shape, StoreShape
  <2> QED BY <1>2, <2>2
<1>5. CASE StartWrite
  <2>1. /\ Begin(Job, "set", Head(todo).key, Head(todo).value)
        /\ cycle = "write" /\ todo' = todo
    BY <1>5 DEF StartWrite, jobVars
  <2>2. PICK c \in {"look", "write"} :
          process' = [process EXCEPT ![Job] =
            [pc |-> c, op |-> "set", key |-> Head(todo).key, value |-> Head(todo).value,
             seen |-> NoDocument, asked |-> 0]]
    BY <2>1 DEF Begin
  <2>3. /\ process'[Job].pc = c /\ process'[Job].key = Head(todo).key
        /\ process'[Job].value = Head(todo).value
    BY <2>2 DEF Shape, StoreShape
  <2> QED BY <2>1, <2>3, FirstOfTodo DEF FirstCall, Landed
<1>6. CASE JobCall
  <2>1. Call(Job) /\ todo' = todo
    BY <1>6 DEF JobCall, jobVars
  <2>2. CASE process'[Job].pc # "idle"
    <3>1. /\ process'[Job].key = process[Job].key /\ process'[Job].value = process[Job].value
          /\ process[Job].pc # "idle"
          /\ process'[Job].pc = "written" => Upsert(Job)
      BY <2>1, <2>2, CallKeeps DEF Shape
    <3>2. FirstCall'
      BY <2>1, <3>1 DEF FirstCall
    <3>3. ASSUME Upsert(Job) PROVE document'[KeyAt(Job)].value = process[Job].value
      <4>1. document'[KeyAt(Job)] = Written(Job)
        BY <3>3, UpsertEffects DEF Shape
      <4>2. Written(Job).value = process[Job].value
        BY DEF Written
      <4> QED BY <4>1, <4>2
    <3>4. Landed'
      BY <3>1, <3>3 DEF Landed, KeyAt
    <3> QED BY <3>2, <3>4
  <2> QED BY <1>2, <2>2
<1> QED BY <1>1, <1>3, <1>4, <1>5, <1>6, StepsAside DEF Next

LEMMA FinishedStep ==
  ASSUME Shape, Finished, [Next]_vars
  PROVE  Finished'
<1>1. CASE UNCHANGED jobVars
  BY <1>1 DEF Finished, jobVars
<1>2. CASE StartCycle \/ AnalysisFails \/ JobFails
  BY <1>2 DEF StartCycle, AnalysisFails, JobFails, Finished
<1>3. CASE EndWrite
  <2>1. process[Job].pc = "written"
    BY <1>3 DEF EndWrite, EndSet
  <2>2. cycle = "write"
    BY <2>1 DEF Shape, JobWrites
  <2>3. cycle' = "done" => Len(todo) = 1
    BY <1>3 DEF EndWrite
  <2>4. Len(todo) = 1 => Tail(todo) = <<>>
    <3>1. Len(Tail(todo)) = Len(todo) - 1 /\ Tail(todo) \in Seq(KnownWrite)
      BY <2>2, FirstOfTodo, FirstWrite
    <3>2. Len(todo) = 1 => Len(Tail(todo)) = 0
      BY <3>1
    <3>3. PICK t : t = Tail(todo)
      OBVIOUS
    <3>4. t \in Seq(KnownWrite) /\ (Len(t) = 0 => t = <<>>)
      BY <3>1, <3>3, EmptySeq
    <3> QED BY <3>2, <3>3, <3>4
  <2> QED BY <1>3, <2>3, <2>4 DEF EndWrite, Finished
<1> QED BY <1>1, <1>2, <1>3 DEF Next, StartWrite, JobCall, Others, vars

\* The writes of a cycle to whose report the agent contributes no list.
LEMMA CycleWrites ==
  ASSUME StartCycle, plan'.silent
  PROVE  \E store \in History :
           LET h == ListProcessedRecords(store)
               rs == Reputations(h)
           IN todo' = Writes(Profiles(rs), Proposals(rs)) /\ plan'.plain = UnderOneName(h)
<1>1. PICK store \in History, events \in Reply :
        /\ plan'.writes = WritesOf(ListProcessedRecords(store), GenerateReport(events))
        /\ plan'.plain = UnderOneName(ListProcessedRecords(store))
        /\ plan'.silent = (/\ GenerateReport(events).updates = <<>>
                           /\ GenerateReport(events).proposals = <<>>)
  BY PlanOfCycle
<1>2. PICK h, report : h = ListProcessedRecords(store) /\ report = GenerateReport(events)
  OBVIOUS
<1>3. report.updates = <<>> /\ report.proposals = <<>>
  BY <1>1, <1>2
<1>4. WritesOf(h, report) = Writes(Profiles(Reputations(h)), Proposals(Reputations(h)))
  BY <1>3 DEF WritesOf, Chosen
<1>5. todo' = plan'.writes
  BY DEF StartCycle
<1> QED BY <1>1, <1>2, <1>4, <1>5

LEMMA FlagsEarnedStep ==
  ASSUME Shape, FirstCall, FlagsEarned, [Next]_vars
  PROVE  FlagsEarned'
<1> USE LearningAssumption
<1>1. earned \subseteq earned' /\ advised \subseteq advised'
  BY DEF Next, StartCycle, AnalysisFails, StartWrite, JobCall, EndWrite, JobFails, Others,
     jobVars, vars
<1>2. EarnedIn(todo', earned' \cup advised')
  <2>1. CASE UNCHANGED jobVars
    BY <2>1 DEF FlagsEarned, jobVars
  <2>2. CASE StartCycle
    <3>1. CASE plan'.silent
      <4>1. PICK store, h, rs :
              /\ store \in History
              /\ h = ListProcessedRecords(store) /\ rs = Reputations(h)
              /\ todo' = Writes(Profiles(rs), Proposals(rs))
        BY <2>2, <3>1, CycleWrites
      <4>2. EarnedIn(todo', {})
        BY <4>1, CycleEarns
      <4> QED BY <4>2 DEF EarnedIn
    <3>2. CASE ~plan'.silent
      <4>1. Approved(todo') \subseteq advised'
        BY <2>2, <3>2 DEF StartCycle
      <4>2. \A i \in DOMAIN todo', s \in Config :
              Switches(todo'[i], s) => s \in Approved(todo')
        BY DEF Switches, Approved
      <4> QED BY <4>1, <4>2 DEF EarnedIn
    <3> QED BY <3>1, <3>2
  <2>3. CASE AnalysisFails
    BY <2>3 DEF FlagsEarned, AnalysisFails
  <2>4. CASE JobFails
    <3>1. todo' = <<>> /\ DOMAIN <<>> = {}
      BY <2>4 DEF JobFails
    <3> QED BY <3>1 DEF EarnedIn
  <2>5. CASE EndWrite
    <3>1. /\ process[Job].pc = "written" /\ todo' = Tail(todo)
          /\ advised' = advised
          /\ earned' = earned \cup {s \in Config : process[Job].key = s /\ process[Job].value.eligible}
      BY <2>5 DEF EndWrite, EndSet, KeyAt
    <3>2. cycle = "write"
      BY <3>1 DEF Shape, JobWrites
    <3>3. /\ Len(todo) \in Nat \ {0} /\ DOMAIN todo = 1..Len(todo)
          /\ DOMAIN todo' = 1..(Len(todo) - 1)
          /\ \A i \in DOMAIN todo' : todo'[i] = todo[i + 1]
      BY <3>1, <3>2, FirstOfTodo
    <3>4. process[Job].key = todo[1].key /\ process[Job].value = todo[1].value
      BY <3>1 DEF FirstCall
    <3>5. ASSUME NEW i \in DOMAIN todo', NEW s \in Config, Switches(todo'[i], s),
                 s \notin earned' \cup advised'
          PROVE  \E j \in 1..(i - 1) : Earns(todo'[j], s)
      <4>1. i + 1 \in DOMAIN todo /\ Switches(todo[i + 1], s) /\ s \notin earned \cup advised
        BY <1>1, <3>3, <3>5
      <4>2. PICK j \in 1..i : Earns(todo[j], s)
        <5>1. \E j \in 1..((i + 1) - 1) : Earns(todo[j], s)
          BY <4>1 DEF FlagsEarned, EarnedIn
        <5>2. (i + 1) - 1 = i
          BY <3>3
        <5> QED BY <5>1, <5>2
      <4>3. j # 1
        BY <3>1, <3>4, <3>5, <4>2 DEF Earns
      <4>4. j - 1 \in 1..(i - 1) /\ j - 1 \in DOMAIN todo' /\ (j - 1) + 1 = j
        BY <3>3, <4>2, <4>3
      <4>5. Earns(todo'[j - 1], s)
        BY <3>3, <4>2, <4>4
      <4> QED BY <4>4, <4>5
    <3> QED BY <3>5 DEF EarnedIn
  <2> QED BY <2>1, <2>2, <2>3, <2>4, <2>5 DEF Next, StartWrite, JobCall, Others, vars
<1>3. ASSUME NEW s \in Config,
             writers'[<<s, "auto_approve">>] \subseteq {Job},
             document'[<<s, "auto_approve">>].value = "true"
      PROVE  s \in earned' \cup advised'
  <2>1. PICK k \in Key : k = <<s, "auto_approve">>
    BY AboutKeys
  <2>2. CASE Kept
    <3>1. writers[k] \subseteq {Job} /\ document[k].value = "true"
      BY <1>3, <2>1, <2>2 DEF Kept
    <3> QED BY <1>1, <2>1, <3>1 DEF FlagsEarned
  <2>3. CASE Upsert(Job) /\ JobCall
    <3>1. /\ \A l \in Key \ {KeyAt(Job)} : document'[l] = document[l] /\ writers'[l] = writers[l]
          /\ document'[KeyAt(Job)] = Written(Job) /\ process[Job].pc = "write"
      BY <2>3, UpsertEffects DEF Shape
    <3>2. CASE k # KeyAt(Job)
      <4>1. document'[k] = document[k] /\ writers'[k] = writers[k]
        BY <3>1, <3>2
      <4> QED BY <1>1, <1>3, <2>1, <4>1 DEF FlagsEarned
    <3>3. CASE k = KeyAt(Job)
      <4>1. process[Job].value = "true"
        BY <1>3, <2>1, <3>1, <3>3 DEF Written
      <4>2. todo[1].key = k /\ todo[1].value = "true"
        BY <3>1, <3>3, <4>1 DEF FirstCall, KeyAt
      <4>3. cycle = "write"
        BY <3>1 DEF Shape, JobWrites
      <4>4. 1 \in DOMAIN todo
        BY <4>3, FirstOfTodo
      <4>5. s \in earned \cup advised \/ \E j \in 1..(1 - 1) : Earns(todo[j], s)
        BY <2>1, <4>2, <4>4 DEF FlagsEarned, EarnedIn, Switches
      <4> QED BY <1>1, <4>5
    <3> QED BY <3>2, <3>3
  <2> QED BY <2>2, <2>3, KeepsOrWrites
<1> QED BY <1>2, <1>3 DEF FlagsEarned

LEMMA FollowingStep ==
  ASSUME Shape, FirstCall, Landed, Following, [Next]_vars
  PROVE  Following'
<1> USE LearningAssumption
<1> SUFFICES ASSUME plan'.silent, ApplyFeatureFlagProposals, cycle' \in {"write", "done"},
                    NEW s \in plan'.plain, OnlyTheJobWrites(s)'
             PROVE  \E P : FollowedBy(P, s)'
  BY DEF Following
<1>1. s \in Config
  BY ShapeStep DEF Shape, JobTypes
<1>2. About(s) \subseteq Key /\ \A k \in About(s) : writers'[k] \subseteq {Job}
  BY <1>1, AboutKeys
<1>3. CASE StartCycle
  <2>1. PICK store, h, rs :
          /\ store \in History
          /\ h = ListProcessedRecords(store) /\ rs = Reputations(h)
          /\ todo' = Writes(Profiles(rs), Proposals(rs)) /\ plan'.plain = UnderOneName(h)
    BY <1>3, CycleWrites
  <2>2. PICK P : /\ \A i \in DOMAIN todo' : Fits(P, s, todo'[i].key, todo'[i].value)
                 /\ \A k \in About(s) : \E i \in DOMAIN todo' : todo'[i].key = k
    BY <2>1, CycleFits
  <2>3. FollowedBy(P, s)'
    BY <2>2 DEF FollowedBy
  <2> QED BY <2>3
<1>4. CASE UNCHANGED jobVars /\ (Kept \/ Upsert(Job))
  <2>1. /\ todo' = todo /\ plan.silent /\ cycle \in {"write", "done"} /\ s \in plan.plain
    BY <1>4 DEF jobVars
  <2>2. ASSUME NEW k \in About(s)
        PROVE  /\ writers[k] \subseteq {Job}
               /\ document'[k] = document[k] \/ \E i \in DOMAIN todo : todo[i].key = k
    <3>1. k \in Key /\ writers'[k] \subseteq {Job}
      BY <1>2
    <3>2. CASE Kept
      BY <3>1, <3>2 DEF Kept
    <3>3. CASE Upsert(Job)
      <4>1. /\ \A l \in Key \ {KeyAt(Job)} : document'[l] = document[l] /\ writers'[l] = writers[l]
            /\ writers'[KeyAt(Job)] = writers[KeyAt(Job)] \cup {Job}
            /\ process[Job].pc = "write"
        BY <3>3, UpsertEffects DEF Shape
      <4>2. writers[k] \subseteq {Job}
        BY <3>1, <4>1
      <4>3. CASE k # KeyAt(Job)
        BY <3>1, <4>1, <4>2, <4>3
      <4>4. CASE k = KeyAt(Job)
        <5>1. todo[1].key = k /\ cycle = "write"
          BY <4>1, <4>4 DEF FirstCall, KeyAt, Shape, JobWrites
        <5>2. 1 \in DOMAIN todo
          BY <5>1, FirstOfTodo
        <5> QED BY <4>2, <5>1, <5>2
      <4> QED BY <4>3, <4>4
    <3> QED BY <1>4, <3>2, <3>3
  <2>3. OnlyTheJobWrites(s)
    BY <1>1, <2>2, AboutKeys
  <2>4. PICK P : FollowedBy(P, s)
    BY <2>1, <2>3 DEF Following
  <2>5. FollowedBy(P, s)'
    BY <2>1, <2>2, <2>4 DEF FollowedBy
  <2> QED BY <2>5
<1>5. CASE EndWrite
  <2>1. /\ process[Job].pc = "written" /\ todo' = Tail(todo)
        /\ UNCHANGED <<document, writers, plan>>
    BY <1>5 DEF EndWrite, EndSet
  <2>2. cycle = "write"
    BY <2>1 DEF Shape, JobWrites
  <2>3. /\ Len(todo) \in Nat \ {0} /\ DOMAIN todo = 1..Len(todo)
        /\ DOMAIN todo' = 1..(Len(todo) - 1)
        /\ \A i \in DOMAIN todo' : todo'[i] = todo[i + 1]
    BY <2>1, <2>2, FirstOfTodo
  <2>4. OnlyTheJobWrites(s)
    BY <1>1, <1>2, <2>1, AboutKeys
  <2>5. PICK P : FollowedBy(P, s)
    BY <2>1, <2>2, <2>4 DEF Following
  <2>6. ASSUME NEW i \in DOMAIN todo' PROVE Fits(P, s, todo'[i].key, todo'[i].value)
    <3>1. i + 1 \in DOMAIN todo /\ todo'[i] = todo[i + 1]
      BY <2>3
    <3> QED BY <2>5, <3>1 DEF FollowedBy
  <2>7. ASSUME NEW k \in About(s)
        PROVE  (\E i \in DOMAIN todo' : todo'[i].key = k) \/ Fits(P, s, k, document'[k].value)
    <3>1. CASE \E i \in DOMAIN todo : i # 1 /\ todo[i].key = k
      <4>1. PICK i \in DOMAIN todo : i # 1 /\ todo[i].key = k
        BY <3>1
      <4>2. i - 1 \in DOMAIN todo' /\ (i - 1) + 1 = i
        BY <2>3, <4>1
      <4>3. todo'[i - 1].key = k
        BY <2>3, <4>1, <4>2
      <4> QED BY <4>2, <4>3
    <3>2. CASE todo[1].key = k
      <4>1. process[Job].key = k /\ process[Job].value = todo[1].value
        BY <2>1, <3>2 DEF FirstCall
      <4>2. document[k].value = todo[1].value
        BY <1>2, <2>1, <4>1 DEF Landed, KeyAt
      <4>3. Fits(P, s, todo[1].key, todo[1].value)
        BY <2>3, <2>5 DEF FollowedBy
      <4> QED BY <2>1, <3>2, <4>2, <4>3
    <3>3. CASE ~ \E i \in DOMAIN todo : todo[i].key = k
      BY <2>1, <2>5, <3>3 DEF FollowedBy
    <3> QED BY <3>1, <3>2, <3>3
  <2>8. FollowedBy(P, s)'
    BY <2>6, <2>7 DEF FollowedBy
  <2> QED BY <2>8
<1>6. ~AnalysisFails /\ ~JobFails
  BY DEF AnalysisFails, JobFails
<1>7. CASE StartWrite \/ JobCall \/ Others \/ (Tick /\ UNCHANGED jobVars) \/ UNCHANGED vars
  <2>1. UNCHANGED jobVars
    BY <1>7 DEF StartWrite, JobCall, Others, vars
  <2> QED BY <1>4, <2>1, KeepsOrWrites
<1> QED BY <1>3, <1>5, <1>6, <1>7 DEF Next

LEMMA ProgressStep ==
  ASSUME Shape, FirstCall, Landed, Progress, [Next]_vars
  PROVE  Progress'
<1> USE LearningAssumption
<1> SUFFICES ASSUME cycle' \in {"write", "done"} PROVE \E n \in Nat : Behind(n)'
  BY DEF Progress
<1>1. CASE StartCycle
  <2>1. plan'.writes = todo'
    BY <1>1 DEF StartCycle
  <2>2. todo' \in Seq(KnownWrite)
    BY ShapeStep DEF Shape, JobTypes
  <2>3. PICK t : t = todo' /\ t \in Seq(KnownWrite)
    BY <2>2
  <2>4. Len(t) \in Nat /\ DOMAIN t = 1..Len(t)
    BY <2>3, LenProperties
  <2>5. Len(t) = 0 + Len(t) /\ \A i \in DOMAIN t : t[i] = t[0 + i]
    BY <2>4
  <2>6. Behind(0)'
    BY <2>1, <2>3, <2>5 DEF Behind
  <2> QED BY <2>6
<1>2. ASSUME NEW n \in Nat, Behind(n), cycle = "write"
      PROVE  /\ Len(todo) \in Nat \ {0} /\ DOMAIN todo = 1..Len(todo)
             /\ Len(plan.writes) \in Nat /\ DOMAIN plan.writes = 1..Len(plan.writes)
             /\ n + 1 \in DOMAIN plan.writes /\ plan.writes[n + 1] = todo[1]
  <2>1. plan.writes \in Seq(KnownWrite)
    BY DEF Shape, JobTypes
  <2>2. Len(plan.writes) \in Nat /\ DOMAIN plan.writes = 1..Len(plan.writes)
    BY <2>1, LenProperties
  <2> QED BY <1>2, <2>2, FirstOfTodo DEF Behind
<1>3. ASSUME NEW n \in Nat, Behind(n), NEW i \in 1..n
      PROVE  plan.writes[i].key \in Key
  <2>1. plan.writes \in Seq(KnownWrite) /\ todo \in Seq(KnownWrite)
    BY DEF Shape, JobTypes
  <2>2. /\ Len(plan.writes) \in Nat /\ DOMAIN plan.writes = 1..Len(plan.writes)
        /\ \A j \in 1..Len(plan.writes) : plan.writes[j] \in KnownWrite
        /\ Len(todo) \in Nat
    BY <2>1, LenProperties, ElementOfSeq
  <2>3. i \in 1..Len(plan.writes)
    BY <1>3, <2>2 DEF Behind
  <2> QED BY <2>2, <2>3, KnownWrites
<1>4. CASE UNCHANGED jobVars /\ (Kept \/ Upsert(Job))
  <2>1. plan' = plan /\ todo' = todo /\ cycle' = cycle
    BY <1>4 DEF jobVars
  <2>2. PICK n \in Nat : Behind(n)
    BY <2>1 DEF Progress
  <2>3. ASSUME NEW i \in 1..n, IsLastWord(plan.writes, i),
               writers'[plan.writes[i].key] \subseteq {Job}
        PROVE  document'[plan.writes[i].key].value = plan.writes[i].value
    <3>1. PICK k \in Key : k = plan.writes[i].key
      BY <1>3, <2>2
    <3>2. writers[k] \subseteq {Job} /\ document'[k] = document[k]
      <4>1. CASE Kept
        BY <2>3, <3>1, <4>1 DEF Kept
      <4>2. CASE Upsert(Job)
        <5>1. /\ \A l \in Key \ {KeyAt(Job)} :
                   document'[l] = document[l] /\ writers'[l] = writers[l]
              /\ process[Job].pc = "write"
          BY <4>2, UpsertEffects DEF Shape
        <5>2. cycle = "write" /\ KeyAt(Job) = todo[1].key
          BY <5>1 DEF FirstCall, KeyAt, Shape, JobWrites
        <5>3. n + 1 \in DOMAIN plan.writes /\ plan.writes[n + 1] = todo[1] /\ n + 1 > i
          BY <1>2, <2>2, <5>2
        <5>4. KeyAt(Job) # k
          BY <2>3, <3>1, <5>2, <5>3 DEF IsLastWord
        <5> QED BY <2>3, <3>1, <5>1, <5>4
      <4> QED BY <1>4, <4>1, <4>2
    <3> QED BY <2>2, <2>3, <3>1, <3>2 DEF Behind
  <2>4. Behind(n)'
    BY <2>1, <2>2, <2>3 DEF Behind
  <2> QED BY <2>4
<1>5. CASE EndWrite
  <2>1. /\ process[Job].pc = "written" /\ todo' = Tail(todo)
        /\ UNCHANGED <<document, writers, plan>>
    BY <1>5 DEF EndWrite, EndSet
  <2>2. cycle = "write"
    BY <2>1 DEF Shape, JobWrites
  <2>3. PICK n \in Nat : Behind(n)
    BY <2>2 DEF Progress
  <2>4. /\ Len(todo) \in Nat \ {0} /\ DOMAIN todo = 1..Len(todo)
        /\ Len(Tail(todo)) = Len(todo) - 1 /\ DOMAIN Tail(todo) = 1..(Len(todo) - 1)
        /\ \A i \in DOMAIN Tail(todo) : Tail(todo)[i] = todo[i + 1]
    BY <2>2, FirstOfTodo
  <2>5. plan.writes[n + 1] = todo[1] /\ Len(plan.writes) = n + Len(todo)
    BY <1>2, <2>2, <2>3 DEF Behind
  <2>6. ASSUME NEW i \in 1..(n + 1), IsLastWord(plan.writes, i),
               writers[plan.writes[i].key] \subseteq {Job}
        PROVE  document[plan.writes[i].key].value = plan.writes[i].value
    <3>1. CASE i = n + 1
      BY <2>1, <2>5, <2>6, <3>1 DEF FirstCall, Landed, KeyAt
    <3>2. CASE i # n + 1
      <4>1. i \in 1..n
        BY <3>2
      <4> QED BY <2>3, <2>6, <4>1 DEF Behind
    <3> QED BY <3>1, <3>2
  <2>7. Len(plan.writes) = (n + 1) + Len(Tail(todo))
    BY <2>4, <2>5
  <2>8. \A i \in DOMAIN Tail(todo) : Tail(todo)[i] = plan.writes[(n + 1) + i]
    <3> TAKE i \in DOMAIN Tail(todo)
    <3>1. i + 1 \in DOMAIN todo /\ n + (i + 1) = (n + 1) + i
      BY <2>4
    <3> QED BY <2>3, <2>4, <3>1 DEF Behind
  <2>9. Behind(n + 1)'
    BY <2>1, <2>6, <2>7, <2>8 DEF Behind
  <2> QED BY <2>9
<1>6. ~AnalysisFails /\ ~JobFails
  BY DEF AnalysisFails, JobFails
<1>7. CASE StartWrite \/ JobCall \/ Others \/ (Tick /\ UNCHANGED jobVars) \/ UNCHANGED vars
  <2>1. UNCHANGED jobVars
    BY <1>7 DEF StartWrite, JobCall, Others, vars
  <2> QED BY <1>4, <2>1, KeepsOrWrites
<1> QED BY <1>1, <1>5, <1>6, <1>7 DEF Next

LEMMA JobInvInit == Init => JobInv
<1> SUFFICES ASSUME Init PROVE JobInv
  OBVIOUS
<1>1. /\ \A p \in Proc : process[p] = Idle
      /\ \A k \in Key : document[k] = NoDocument
      /\ cycle = "idle" /\ todo = <<>>
  BY DEF Init, StoreInit
<1>2. Job \in Proc /\ None # "true"
  BY LearningAssumption
<1>3. process[Job].pc = "idle"
  BY <1>1, <1>2, Constants
<1>4. FirstCall /\ Landed /\ Following /\ Progress /\ Finished
  BY <1>1, <1>3 DEF FirstCall, Landed, Following, Progress, Finished
<1>5. EarnedIn(todo, earned \cup advised)
  <2>1. DOMAIN todo = {}
    BY <1>1
  <2> QED BY <2>1 DEF EarnedIn
<1>6. \A s \in Config : document[<<s, "auto_approve">>].value # "true"
  <2> TAKE s \in Config
  <2>1. PICK k \in Key : k = <<s, "auto_approve">>
    BY AboutKeys
  <2>2. NoDocument.value = None
    BY DEF NoDocument
  <2>3. document[k].value = None
    BY <1>1, <2>2
  <2> QED BY <1>2, <2>1, <2>3
<1> QED BY <1>4, <1>5, <1>6 DEF JobInv, FlagsEarned

LEMMA JobInvStep == Shape /\ JobInv /\ [Next]_vars => JobInv'
  BY FirstCallStep, FlagsEarnedStep, FollowingStep, ProgressStep, FinishedStep DEF JobInv

\* AutoApproveIsEarned: a supplier that only the job writes about is switched
\* to auto approval after a profile that earns it was written, or after the
\* agent contributed to a report that approves it, in whichever cycle and
\* whatever fails between.
THEOREM LearningAutoApproveIsEarned == Spec => []AutoApproveIsEarned
<1>1. JobInv => AutoApproveIsEarned
  <2> SUFFICES ASSUME FlagsEarned, NEW s \in Config, OnlyTheJobWrites(s),
                      document[<<s, "auto_approve">>].value = "true"
               PROVE  s \in earned \cup advised
    BY DEF JobInv, AutoApproveIsEarned
  <2>1. writers[<<s, "auto_approve">>] \subseteq {Job}
    BY AboutKeys DEF About
  <2> QED BY <2>1 DEF FlagsEarned
<1> QED BY <1>1, ShapeInit, ShapeStep, JobInvInit, JobInvStep, PTL DEF Spec

\* FlagsFollowProfile: after a cycle that came to its end every document that
\* only the job writes holds what the cycle's report says of it last, the
\* agent's lists included; and if the report is the job's own, the flags of a
\* supplier it knows under one name say what the profile says.  What an earlier
\* cycle left half way makes no difference.
THEOREM LearningFlagsFollowProfile == Spec => []FlagsFollowProfile
<1>1. ASSUME Shape, JobInv, cycle = "done", NEW i \in DOMAIN plan.writes,
             IsLastWord(plan.writes, i), writers[plan.writes[i].key] \subseteq {Job}
      PROVE  document[plan.writes[i].key].value = plan.writes[i].value
  <2>1. plan.writes \in Seq(KnownWrite) /\ todo = <<>>
    BY <1>1 DEF Shape, JobTypes, JobInv, Finished
  <2>2. Len(plan.writes) \in Nat /\ DOMAIN plan.writes = 1..Len(plan.writes) /\ Len(todo) = 0
    BY <2>1, LenProperties
  <2>3. PICK n \in Nat : Behind(n)
    BY <1>1 DEF JobInv, Progress
  <2>4. i \in 1..n
    BY <2>2, <2>3 DEF Behind
  <2> QED BY <1>1, <2>3, <2>4 DEF Behind
<1>2. ASSUME Shape, JobInv, cycle = "done", plan.silent, ApplyFeatureFlagProposals,
             NEW s \in plan.plain, OnlyTheJobWrites(s)
      PROVE  /\ document[<<s, "auto_approve">>].value = Text(document[s].value.eligible)
             /\ document[<<s, "tolerance_pct">>].value = document[s].value.tolerance
  <2>1. PICK P : FollowedBy(P, s)
    BY <1>2 DEF JobInv, Following
  <2>2. DOMAIN todo = {}
    BY <1>2 DEF JobInv, Finished
  <2>3. \A k \in About(s) : Fits(P, s, k, document[k].value)
    BY <2>1, <2>2 DEF FollowedBy
  <2>4. document[s].value = P
    BY <2>3 DEF About, Fits
  <2>5. document[<<s, "auto_approve">>].value = Text(P.eligible)
    BY <2>3 DEF About, Fits
  <2>6. document[<<s, "tolerance_pct">>].value = P.tolerance
    BY <2>3 DEF About, Fits
  <2> QED BY <2>4, <2>5, <2>6
<1>3. Shape /\ JobInv => FlagsFollowProfile
  BY <1>1, <1>2 DEF FlagsFollowProfile
<1> QED BY <1>3, ShapeInit, ShapeStep, JobInvInit, JobInvStep, PTL DEF Spec
=============================================================================
