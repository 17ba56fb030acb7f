--------------------------- MODULE EventFeedProofs ---------------------------
(***************************************************************************)
(* Proofs about the event feed of the page, for any sizes of responses and *)
(* of the feed, and any number of polls that overlap: an event has one row *)
(* at most, and once its row is gone it does not come back.  The sequence  *)
(* of rows is defined by the rank of the ids, so that its properties are   *)
(* those of a bijection between ids and ranks.                             *)
(***************************************************************************)
EXTENDS EventFeed, FiniteSetTheorems, SequenceTheorems, TLAPS

-----------------------------------------------------------------------------
(* Rows                                                                    *)

\* The number of ids up to e.
Rank(es, e) == Cardinality({d \in es : d <= e})

\* Every rank is taken by an id.
LEMMA RanksTaken ==
    ASSUME NEW es \in SUBSET Nat, IsFiniteSet(es), NEW k \in 1 .. Cardinality(es)
    PROVE  \E e \in es : Rank(es, e) = k
<1> DEFINE n == Cardinality(es)
           rank == [e \in es |-> Rank(es, e)]
<1>1. n \in Nat
  BY FS_CardinalityType
<1>2. ASSUME NEW e \in es
      PROVE  /\ IsFiniteSet({d \in es : d <= e})
             /\ Rank(es, e) \in 1 .. n
  <2>1. /\ IsFiniteSet({d \in es : d <= e})
        /\ Cardinality({d \in es : d <= e}) <= n
    BY FS_Subset
  <2>2. Cardinality({d \in es : d <= e}) \in Nat
    BY <2>1, FS_CardinalityType
  <2>3. e \in {d \in es : d <= e}
    OBVIOUS
  <2>4. Cardinality({d \in es : d <= e}) # 0
    BY <2>1, <2>3, FS_EmptySet
  <2> QED
    BY <1>1, <2>1, <2>2, <2>4 DEF Rank
<1>3. ASSUME NEW d \in es, NEW e \in es, d < e
      PROVE  Rank(es, d) # Rank(es, e)
  <2> DEFINE D == {c \in es : c <= d}
             E == {c \in es : c <= e}
  <2>1. D \subseteq E /\ e \in E /\ e \notin D
    <3>1. d \in Nat /\ e \in Nat /\ \A c \in es : c \in Nat
      OBVIOUS
    <3>2. ~(e <= d) /\ e <= e
      BY <1>3, <3>1
    <3>3. \A c \in es : c <= d => c <= e
      BY <1>3, <3>1
    <3> QED
      BY <3>2, <3>3
  <2>2. IsFiniteSet(E)
    BY <1>2
  <2>3. D # E
    BY <2>1
  <2>4. Cardinality(D) # Cardinality(E)
    <3> HIDE DEF D, E
    <3> QED
      BY <2>1, <2>2, <2>3, FS_Subset
  <2> QED
    BY <2>4 DEF Rank
<1>4. rank \in Injection(es, 1 .. n)
  <2>1. rank \in [es -> 1 .. n]
    BY <1>2
  <2>2. ASSUME NEW d \in es, NEW e \in es, rank[d] = rank[e] PROVE d = e
    <3>1. Rank(es, d) = Rank(es, e)
      BY <2>2
    <3>2. d < e \/ e < d \/ d = e
      OBVIOUS
    <3> QED
      BY <1>3, <3>1, <3>2
  <2> HIDE DEF rank
  <2> QED
    BY <2>1, <2>2 DEF Injection, IsInjective
<1>5. IsFiniteSet(1 .. n) /\ Cardinality(1 .. n) = n
  BY <1>1, FS_Interval
<1>6. rank \in Surjection(es, 1 .. n)
  BY <1>4, <1>5, FS_Injection
<1>7. PICK e \in es : rank[e] = k
  <2> HIDE DEF rank
  <2> QED
    BY <1>6 DEF Surjection
<1> QED
  BY <1>7

\* The rows of a set of ids show each of them once, and nothing else.
LEMMA RowsShowEach ==
    ASSUME NEW es \in SUBSET Nat, IsFiniteSet(es)
    PROVE  /\ Rows(es) \in Seq(es)
           /\ IsInjective(Rows(es))
<1>1. Cardinality(es) \in Nat
  BY FS_CardinalityType
<1>2. ASSUME NEW k \in 1 .. Cardinality(es)
      PROVE  Rows(es)[k] \in es /\ Rank(es, Rows(es)[k]) = k
  <2>1. \E e \in es : Rank(es, e) = k
    BY RanksTaken
  <2>2. Rows(es)[k] = CHOOSE e \in es : Rank(es, e) = k
    BY DEF Rows, Rank
  <2>3. /\ (CHOOSE e \in es : Rank(es, e) = k) \in es
        /\ Rank(es, CHOOSE e \in es : Rank(es, e) = k) = k
    BY <2>1, Zenon
  <2> QED
    BY <2>2, <2>3
<1>3. DOMAIN Rows(es) = 1 .. Cardinality(es)
  BY DEF Rows
<1>4. Rows(es) \in [1 .. Cardinality(es) -> es]
  <2>1. Rows(es) = [k \in 1 .. Cardinality(es) |-> Rows(es)[k]]
    BY DEF Rows
  <2> QED
    BY <1>2, <2>1
<1>5. Rows(es) \in Seq(es)
  BY <1>1, <1>4
<1>6. ASSUME NEW j \in DOMAIN Rows(es), NEW k \in DOMAIN Rows(es), Rows(es)[j] = Rows(es)[k]
      PROVE  j = k
  BY <1>2, <1>3, <1>6
<1> QED
  BY <1>5, <1>6 DEF IsInjective

-----------------------------------------------------------------------------
(* The feed                                                                *)

\* A sequence over a set is a sequence over every larger one.
LEMMA SeqMonotone ==
    ASSUME NEW S, NEW T, S \subseteq T, NEW s \in Seq(S)
    PROVE  s \in Seq(T)
  OBVIOUS

\* New rows on top of rows with other ids, cut to the size of the feed.
LEMMA PutOnTop ==
    ASSUME NEW S \in SUBSET Nat, NEW es \in SUBSET S, IsFiniteSet(es),
           NEW rows \in Seq(S), IsInjective(rows), ToSet(rows) \cap es = {}
    PROVE  LET after == FirstRows(Rows(es) \o rows, MAX_STREAM_ROWS)
           IN  /\ after \in Seq(S)
               /\ IsInjective(after)
               /\ Len(after) <= MAX_STREAM_ROWS
               /\ ToSet(after) \subseteq es \cup ToSet(rows)
<1> DEFINE top   == Rows(es)
           all   == top \o rows
           n     == IF Len(all) < MAX_STREAM_ROWS THEN Len(all) ELSE MAX_STREAM_ROWS
           after == SubSeq(all, 1, n)
<1>1. top \in Seq(es) /\ IsInjective(top)
  BY RowsShowEach
<1>2. top \in Seq(S)
  BY <1>1, SeqMonotone
<1> HIDE DEF top
<1>3. /\ all \in Seq(S) /\ Len(all) = Len(top) + Len(rows)
      /\ \A i \in 1 .. Len(top) + Len(rows) :
            all[i] = IF i <= Len(top) THEN top[i] ELSE rows[i - Len(top)]
  BY <1>2, ConcatProperties
<1>4. Len(top) \in Nat /\ Len(rows) \in Nat /\ DOMAIN top = 1 .. Len(top)
      /\ DOMAIN rows = 1 .. Len(rows)
  BY <1>1
<1>5. ASSUME NEW i \in 1 .. Len(all)
      PROVE  \/ i \in 1 .. Len(top) /\ all[i] = top[i] /\ all[i] \in es
             \/ i - Len(top) \in 1 .. Len(rows) /\ all[i] = rows[i - Len(top)] /\ all[i] \in ToSet(rows)
  <2>1. CASE i <= Len(top)
    BY <1>1, <1>3, <1>4, <2>1
  <2>2. CASE ~(i <= Len(top))
    <3>1. i - Len(top) \in 1 .. Len(rows)
      BY <1>3, <1>4, <2>2
    <3>2. all[i] = rows[i - Len(top)]
      BY <1>3, <2>2
    <3> QED
      BY <1>4, <3>1, <3>2 DEF ToSet
  <2> QED
    BY <2>1, <2>2
<1>6. ASSUME NEW i \in 1 .. Len(all), NEW j \in 1 .. Len(all), all[i] = all[j]
      PROVE  i = j
  <2>1. CASE all[i] \in es
    <3>1. /\ i \in 1 .. Len(top) /\ all[i] = top[i]
          /\ j \in 1 .. Len(top) /\ all[j] = top[j]
      BY <1>5, <1>6, <2>1
    <3> QED
      BY <1>1, <1>4, <1>6, <3>1 DEF IsInjective
  <2>2. CASE all[i] \notin es
    <3>1. /\ i - Len(top) \in 1 .. Len(rows) /\ all[i] = rows[i - Len(top)]
          /\ j - Len(top) \in 1 .. Len(rows) /\ all[j] = rows[j - Len(top)]
      BY <1>5, <1>6, <2>2
    <3>2. i - Len(top) = j - Len(top)
      BY <1>4, <1>6, <3>1 DEF IsInjective
    <3> QED
      BY <1>4, <3>2
  <2> QED
    BY <2>1, <2>2
<1>7. Len(all) \in Nat
  BY <1>3
<1> HIDE DEF all
<1>8. n \in Nat /\ n <= Len(all) /\ n <= MAX_STREAM_ROWS
  BY <1>7, FeedAssumption
<1> HIDE DEF n
<1>9. /\ after \in Seq(S) /\ Len(after) = n
      /\ \A i \in 1 .. n : after[i] = all[i]
  <2>1. \A i \in 1 .. n : all[i] \in S
    BY <1>3, <1>7, <1>8
  <2>2. /\ after \in Seq(S)
        /\ Len(after) = IF 1 <= n THEN n - 1 + 1 ELSE 0
        /\ \A i \in 1 .. n - 1 + 1 : after[i] = all[1 + i - 1]
    BY <1>8, <2>1, SubSeqProperties
  <2> HIDE DEF after
  <2> QED
    BY <1>8, <2>2
<1>10. FirstRows(Rows(es) \o rows, MAX_STREAM_ROWS) = after
  BY DEF FirstRows, all, n, top
<1> HIDE DEF after
<1>11. DOMAIN after = 1 .. n
  BY <1>9
<1>12. IsInjective(after)
  BY <1>6, <1>7, <1>8, <1>9, <1>11 DEF IsInjective
<1>13. ToSet(after) \subseteq es \cup ToSet(rows)
  BY <1>5, <1>7, <1>8, <1>9, <1>11 DEF ToSet
<1> QED
  BY <1>8, <1>9, <1>10, <1>12, <1>13

Ids == 1 .. Len(stored)

\* What a step other than UpdateEventsStream leaves alone.
FeedKept == UNCHANGED <<seenEventIds, streamLogs>>

\* The feed after a response: its new events only, on top of what there was.
LEMMA StreamUpdated ==
    ASSUME TypeOK, NEW f \in Fetches, UpdateEventsStream(f)
    PROVE  LET new == NewEvents(Response(newest[f]))
           IN  /\ new \subseteq Ids /\ new \cap seenEventIds = {}
               /\ seenEventIds' = seenEventIds \cup new
               /\ streamLogs' \in Seq(Ids)
               /\ IsInjective(streamLogs')
               /\ Len(streamLogs') <= MAX_STREAM_ROWS
               /\ ToSet(streamLogs') \subseteq new \cup ToSet(streamLogs)
<1> DEFINE new == NewEvents(Response(newest[f]))
<1>1. Len(stored) \in Nat /\ newest[f] \in 0 .. Len(stored)
  BY DEF TypeOK
<1>2. new \subseteq Ids /\ new \cap seenEventIds = {}
  BY <1>1 DEF NewEvents, Response, Ids
<1>3. IsFiniteSet(Ids) /\ Ids \subseteq Nat
  BY <1>1, FS_Interval DEF Ids
<1>4. IsFiniteSet(new)
  BY <1>2, <1>3, FS_Subset
<1>5. /\ seenEventIds' = seenEventIds \cup new
      /\ streamLogs' = FirstRows(Rows(new) \o streamLogs, MAX_STREAM_ROWS)
  BY DEF UpdateEventsStream
<1>6. streamLogs \in Seq(Ids) /\ IsInjective(streamLogs) /\ ToSet(streamLogs) \cap new = {}
  <2>1. streamLogs \in Seq(seenEventIds) /\ seenEventIds \subseteq Ids
    BY DEF TypeOK, Ids
  <2>2. ToSet(streamLogs) \subseteq seenEventIds
    BY <2>1 DEF ToSet
  <2> QED
    BY <1>2, <2>1, <2>2, SeqMonotone DEF TypeOK
<1> HIDE DEF new
<1>7. LET after == FirstRows(Rows(new) \o streamLogs, MAX_STREAM_ROWS)
      IN  /\ after \in Seq(Ids)
          /\ IsInjective(after)
          /\ Len(after) <= MAX_STREAM_ROWS
          /\ ToSet(after) \subseteq new \cup ToSet(streamLogs)
  BY <1>2, <1>3, <1>4, <1>6, PutOnTop
<1> QED
  BY <1>2, <1>5, <1>7 DEF new

-----------------------------------------------------------------------------
(* The invariant                                                           *)

\* The database only grows.
LEMMA LogTypes ==
    ASSUME pending \in Seq({"event"}), stored \in Seq({"event"}), LogEvent \/ Store \/ LoseEvent
    PROVE  /\ pending' \in Seq({"event"})
           /\ stored' \in Seq({"event"})
           /\ Len(stored) <= Len(stored')
<1>1. ASSUME NEW m \in Nat, NEW n \in Nat, 1 <= m, n <= Len(pending)
      PROVE  SubSeq(pending, m, n) \in Seq({"event"})
  BY <1>1, SubSeqProperties
<1>2. CASE LogEvent
  BY <1>2 DEF LogEvent, Log!Log
<1>3. CASE Store
  <2>1. PICK n \in 1 .. Len(pending) : Log!Persist(n)
    BY <1>3 DEF Store
  <2>2. SubSeq(pending, 1, n) \in Seq({"event"}) /\ pending' \in Seq({"event"})
    BY <1>1, <2>1 DEF Log!Persist
  <2>3. stored' = stored \o SubSeq(pending, 1, n)
    BY <2>1 DEF Log!Persist
  <2>4. /\ stored' \in Seq({"event"})
        /\ Len(stored') = Len(stored) + Len(SubSeq(pending, 1, n))
    BY <2>2, <2>3, ConcatProperties
  <2>5. Len(stored) \in Nat /\ Len(SubSeq(pending, 1, n)) \in Nat
    BY <2>2
  <2> QED
    BY <2>2, <2>4, <2>5
<1>4. CASE LoseEvent
  <2>1. PICK i, j \in 1 .. Len(pending) : i <= j /\ Log!Lose(i, j)
    BY <1>4 DEF LoseEvent
  <2>2. /\ SubSeq(pending, 1, i - 1) \in Seq({"event"})
        /\ SubSeq(pending, j + 1, Len(pending)) \in Seq({"event"})
    BY <1>1
  <2>3. stored' = stored /\ pending' \in Seq({"event"})
    BY <2>1, <2>2, ConcatProperties DEF Log!Lose
  <2> QED
    BY <2>3
<1> QED
  BY <1>2, <1>3, <1>4

LEMMA LogKeepsTypes ==
    ASSUME TypeOK, LogEvent \/ Store \/ LoseEvent
    PROVE  TypeOK'
<1>1. /\ pending' \in Seq({"event"})
      /\ stored' \in Seq({"event"})
      /\ Len(stored) <= Len(stored')
  BY LogTypes DEF TypeOK
<1>2. UNCHANGED <<rules, feed, grid, unblock, lost>>
  BY DEF LogEvent, Store, LoseEvent
<1>3. changes' \in 0 .. MaxChanges
  BY FeedAssumption DEF LogEvent, Store, LoseEvent, TypeOK
<1>4. Len(stored) \in Nat /\ Len(stored') \in Nat
  BY <1>1 DEF TypeOK
<1>5. 0 .. Len(stored) \subseteq 0 .. Len(stored') /\ 1 .. Len(stored) \subseteq 1 .. Len(stored')
  BY <1>1, <1>4
<1> QED
  BY <1>1, <1>2, <1>3, <1>5 DEF TypeOK, feed, grid

LEMMA UpdateKeepsTypes ==
    ASSUME TypeOK, NEW f \in Fetches, UpdateEventsStream(f)
    PROVE  TypeOK'
<1> DEFINE new == NewEvents(Response(newest[f]))
<1>1. /\ new \subseteq Ids
      /\ seenEventIds' = seenEventIds \cup new
      /\ streamLogs' \in Seq(Ids)
      /\ IsInjective(streamLogs')
      /\ Len(streamLogs') <= MAX_STREAM_ROWS
      /\ ToSet(streamLogs') \subseteq new \cup ToSet(streamLogs)
  BY StreamUpdated
<1> HIDE DEF new
<1>2. ToSet(streamLogs) \subseteq seenEventIds
  BY DEF TypeOK, ToSet
<1>3. streamLogs' \in Seq(seenEventIds')
  BY <1>1, <1>2 DEF ToSet
<1>4. /\ events' \in [Fetches -> {"idle", "asked", "answered"}]
      /\ newest' \in [Fetches -> 0 .. Len(stored)]
      /\ UNCHANGED <<database, rules, grid, unblock, lost, changes>>
  BY DEF UpdateEventsStream, TypeOK
<1> QED
  BY <1>1, <1>3, <1>4 DEF TypeOK, Ids, database, grid

\* The first rows of a sequence.
LEMMA FirstRowsTypes ==
    ASSUME NEW S, NEW s \in Seq(S), NEW n \in Nat
    PROVE  FirstRows(s, n) \in Seq(S) /\ Len(FirstRows(s, n)) <= n
<1> DEFINE m == IF Len(s) < n THEN Len(s) ELSE n
           t == SubSeq(s, 1, m)
<1>1. m \in Nat /\ m <= Len(s) /\ m <= n
  BY LenProperties
<1>2. \A i \in 1 .. m : s[i] \in S
  BY <1>1
<1> HIDE DEF m
<1>3. t \in Seq(S) /\ Len(t) = IF 1 <= m THEN m - 1 + 1 ELSE 0
  BY <1>1, <1>2, SubSeqProperties
<1>4. FirstRows(s, n) = t
  BY DEF FirstRows, m
<1> HIDE DEF t
<1> QED
  BY <1>1, <1>3, <1>4

\* A rule is gone from the registry, the order of the others is kept.
LEMMA RemoveTypes ==
    ASSUME rules \in Seq(Rules), NEW ip, RemoveRule(ip)
    PROVE  rules' \in Seq(Rules)
<1>1. CASE UNCHANGED rules
  BY <1>1
<1>2. ASSUME NEW i \in DOMAIN rules, rules' = RemoveAt(rules, i)
      PROVE  rules' \in Seq(Rules)
  <2>1. Len(rules) \in Nat /\ i \in 1 .. Len(rules)
    BY LenProperties
  <2>2. \A k \in 1 .. Len(rules) : rules[k] \in Rules
    OBVIOUS
  <2>3. SubSeq(rules, 1, i - 1) \in Seq(Rules)
    BY <2>1, <2>2, SubSeqProperties
  <2>4. SubSeq(rules, i + 1, Len(rules)) \in Seq(Rules)
    BY <2>1, <2>2, SubSeqProperties
  <2> QED
    BY <1>2, <2>3, <2>4, ConcatProperties DEF RemoveAt
<1> QED
  BY <1>1, <1>2 DEF RemoveRule

LEMMA PollKeepsTypes ==
    ASSUME TypeOK, NEW f \in Fetches,
           \/ PollEvents(f) \/ EventsServed(f) \/ EventsLost(f)
           \/ PollRules(f) \/ RulesServed(f) \/ RulesLost(f) \/ UpdateRulesTable(f)
    PROVE  TypeOK'
<1> USE FeedAssumption DEF TypeOK, database, feed, grid
<1>1. CASE PollEvents(f)
  BY <1>1 DEF PollEvents
<1>2. CASE EventsServed(f)
  BY <1>2 DEF EventsServed
<1>3. CASE EventsLost(f)
  BY <1>3 DEF EventsLost
<1>4. CASE PollRules(f)
  BY <1>4 DEF PollRules
<1>5. CASE RulesServed(f)
  BY <1>5 DEF RulesServed
<1>6. CASE RulesLost(f)
  BY <1>6 DEF RulesLost
<1>7. CASE UpdateRulesTable(f)
  <2>1. shownRules' = FirstRows(listed[f], MAX_TABLE_ROWS) /\ listed[f] \in Seq(Rules)
    BY <1>7 DEF UpdateRulesTable
  <2>2. shownRules' \in Seq(Rules) /\ Len(shownRules') <= MAX_TABLE_ROWS
    BY <2>1, FirstRowsTypes
  <2> QED
    BY <1>7, <2>2 DEF UpdateRulesTable
<1> QED
  BY <1>1, <1>2, <1>3, <1>4, <1>5, <1>6, <1>7

LEMMA OperatorKeepsTypes ==
    ASSUME TypeOK,
           \/ \E ip \in Rules : RuleChanges(ip) \/ UnblockTargetIP(ip)
           \/ UnblockServed \/ UnblockLost \/ ClearStreamLog \/ UNCHANGED vars
    PROVE  TypeOK'
<1> USE FeedAssumption DEF TypeOK, database, feed, grid
<1>1. ASSUME NEW ip \in Rules, RuleChanges(ip) \/ UnblockTargetIP(ip) PROVE TypeOK'
  <2>1. CASE RuleChanges(ip)
    <3>1. rules' \in Seq(Rules)
      <4>1. CASE RemoveRule(ip)
        BY <4>1, RemoveTypes
      <4>2. CASE rules' = Append(rules, ip)
        BY <4>2
      <4> QED
        BY <2>1, <4>1, <4>2 DEF RuleChanges
    <3> QED
      BY <2>1, <3>1 DEF RuleChanges
  <2>2. CASE UnblockTargetIP(ip)
    BY <2>2 DEF UnblockTargetIP
  <2> QED
    BY <1>1, <2>1, <2>2
<1>2. CASE UnblockServed
  <2>1. rules' \in Seq(Rules)
    BY <1>2, RemoveTypes DEF UnblockServed
  <2> QED
    BY <1>2, <2>1 DEF UnblockServed
<1>3. CASE UnblockLost
  BY <1>3 DEF UnblockLost
<1>4. CASE ClearStreamLog
  <2>1. /\ streamLogs' \in Seq(seenEventIds) /\ Len(streamLogs') <= MAX_STREAM_ROWS
        /\ DOMAIN streamLogs' = {}
    BY <1>4 DEF ClearStreamLog
  <2>2. IsInjective(streamLogs')
    BY <2>1 DEF IsInjective
  <2> QED
    BY <1>4, <2>1, <2>2 DEF ClearStreamLog
<1>5. CASE UNCHANGED vars
  BY <1>5 DEF vars
<1> QED
  BY <1>1, <1>2, <1>3, <1>4, <1>5

LEMMA StepKeepsTypes == TypeOK /\ [Next]_vars => TypeOK'
<1> SUFFICES ASSUME TypeOK, [Next]_vars PROVE TypeOK'
  OBVIOUS
<1> QED
  BY LogKeepsTypes, UpdateKeepsTypes, PollKeepsTypes, OperatorKeepsTypes DEF Next

\* The feed never shows an event that is not stored, none of them twice, and
\* has MAX_STREAM_ROWS rows at most, for any number of polls whose responses
\* repeat each other's events and arrive in any order or not at all.
THEOREM TypeSound == Spec => []TypeOK
<1>1. Init => TypeOK
  BY FeedAssumption DEF Init, Log!Init, TypeOK, IsInjective, NoClick
<1> QED
  BY <1>1, StepKeepsTypes, PTL DEF Spec

\* An event whose row was cleared or pushed out of the feed has no row again,
\* whatever belated responses still name it.
THEOREM GoneSound == Spec => GoneForGood
<1>1. TypeOK /\ [Next]_vars => [\A e \in seenEventIds : Gone(e) => Gone(e)']_vars
  <2> SUFFICES ASSUME TypeOK, Next, NEW e \in seenEventIds, Gone(e) PROVE Gone(e)'
    OBVIOUS
  <2>1. ASSUME NEW f \in Fetches, UpdateEventsStream(f) PROVE Gone(e)'
    <3> DEFINE new == NewEvents(Response(newest[f]))
    <3>1. /\ new \cap seenEventIds = {} /\ seenEventIds' = seenEventIds \cup new
          /\ ToSet(streamLogs') \subseteq new \cup ToSet(streamLogs)
          /\ streamLogs' \in Seq(Ids)
      BY <2>1, StreamUpdated
    <3> HIDE DEF new
    <3>2. e \notin ToSet(streamLogs)
      BY DEF Gone, Contains, ToSet, TypeOK
    <3>3. e \notin ToSet(streamLogs')
      BY <3>1, <3>2
    <3> QED
      BY <3>1, <3>3 DEF Gone, Contains, ToSet
  <2>2. CASE ClearStreamLog
    BY <2>2 DEF ClearStreamLog, Gone, Contains
  <2>3. CASE FeedKept
    BY <2>3 DEF FeedKept, Gone, Contains
  <2>4. ASSUME ~FeedKept, \A f \in Fetches : ~UpdateEventsStream(f) PROVE ClearStreamLog
    BY <2>4
    DEF Next, FeedKept, feed, LogEvent, Store, LoseEvent, RuleChanges, UnblockTargetIP, UnblockServed,
        UnblockLost, PollEvents, EventsServed, EventsLost, PollRules, RulesServed, RulesLost,
        UpdateRulesTable
  <2> QED
    BY <2>1, <2>2, <2>3, <2>4
<1> QED
  BY <1>1, TypeSound, PTL DEF Spec, GoneForGood
=============================================================================
