--------------------------- MODULE AttackSimProofs --------------------------
(***************************************************************************)
(* Theorems about AttackSim for every number of threads, vectors and       *)
(* durations.                                                              *)
(***************************************************************************)
EXTENDS AttackSim, TLAPS

CampaignRecord == [at : Places, vector : Vectors \cup {NoVector}, left : Nat]

\* An aborted campaign finds the flag clear: it puts nothing after the flow
\* it was working on.
AbortSeen ==
    \A t \in Threads :
        abort[t] = "aborted" =>
            /\ t \in Alive => ~active
            /\ late[t] <= 1
            /\ late[t] = 1 => ~At(t, "put")

Inv == TypeOK /\ LatestRuns /\ AbortSeen
-----------------------------------------------------------------------------

\* The two changes of a campaign.
LEMMA MovedRecord ==
    ASSUME NEW c \in CampaignRecord, NEW where \in Places
    PROVE  /\ Moved(c, where) \in CampaignRecord
           /\ Moved(c, where).at = where
           /\ Moved(c, where).vector = c.vector
  BY DEF Moved, CampaignRecord

LEMMA AgedRecord ==
    ASSUME NEW c \in CampaignRecord, c.left > 0
    PROVE  /\ Aged(c) \in CampaignRecord
           /\ Aged(c).at = c.at
           /\ Aged(c).vector = c.vector
  BY DEF Aged, CampaignRecord

\* One thread moves on.
LEMMA GoToMoves ==
    ASSUME campaign \in [Threads -> CampaignRecord], NEW t \in Threads, NEW where \in Places,
           GoTo(t, where)
    PROVE  /\ campaign' \in [Threads -> CampaignRecord]
           /\ campaign'[t].at = where
           /\ campaign'[t].vector = campaign[t].vector
           /\ \A u \in Threads \ {t} : campaign'[u] = campaign[u]
<1>1. campaign[t] \in CampaignRecord
  OBVIOUS
<1>2. campaign' = [campaign EXCEPT ![t] = Moved(campaign[t], where)]
  BY DEF GoTo
<1>3. QED
  BY <1>1, <1>2, MovedRecord

LEMMA InitInv == Init => Inv
<1> SUFFICES ASSUME Init PROVE Inv
  OBVIOUS
<1> USE DEF Init
<1>1. Idle \in [at : Places, vector : Vectors \cup {NoVector}, left : Nat]
  BY DEF Idle, Places
<1>2. TypeOK
  <2>1. campaign \in [Threads -> [at : Places, vector : Vectors \cup {NoVector}, left : Nat]]
    BY <1>1
  <2>2. active \in BOOLEAN /\ (active <=> vector # NoVector)
    BY Zenon
  <2>3. /\ vector \in Vectors \cup {NoVector} /\ sent \in Nat /\ latest \in Threads
        /\ abort \in [Threads -> {"no", "aborted", "revived"}]
        /\ late \in [Threads -> 0 .. 2]
    OBVIOUS
  <2> HIDE DEF Init
  <2>4. QED
    BY <2>1, <2>2, <2>3 DEF TypeOK
<1>3. LatestRuns /\ AbortSeen
  BY DEF LatestRuns, AbortSeen
<1>4. QED
  BY <1>2, <1>3 DEF Inv

LEMMA InvStart ==
    ASSUME Inv, NEW t \in Threads, NEW v \in Vectors, NEW duration \in Durations,
           StartAttack(t, v, duration)
    PROVE  Inv'
<1> DEFINE new == [at |-> "begin", vector |-> v, left |-> duration]
<1>1. new \in CampaignRecord /\ new.at = "begin" /\ new.vector = v
  BY DurationsAssumption DEF CampaignRecord, Places
<1>2. campaign' = [campaign EXCEPT ![t] = new]
  BY DEF StartAttack
<1> HIDE DEF new
<1>3. /\ campaign' \in [Threads -> CampaignRecord]
      /\ campaign'[t].at = "begin" /\ campaign'[t].vector = v
  BY <1>1, <1>2 DEF Inv, TypeOK, CampaignRecord
<1>4. /\ active' = TRUE /\ vector' = v /\ sent' = 0 /\ latest' = t
      /\ abort' = [u \in Threads |-> IF u = t THEN "no"
                                     ELSE IF abort[u] = "aborted" THEN "revived" ELSE abort[u]]
      /\ late' = [late EXCEPT ![t] = 0]
  BY DEF StartAttack
<1>5. TypeOK'
  BY <1>3, <1>4, VectorsAssumption DEF Inv, TypeOK, CampaignRecord
<1>6. LatestRuns'
  BY <1>3, <1>4 DEF LatestRuns, Alive
<1>7. AbortSeen'
  BY <1>4 DEF AbortSeen
<1>8. QED
  BY <1>5, <1>6, <1>7 DEF Inv

LEMMA InvStop ==
    ASSUME Inv, StopAttack
    PROVE  Inv'
<1> USE DEF StopAttack
<1>1. TypeOK'
  <2>1. active' \in BOOLEAN /\ (active' <=> vector' # NoVector)
    BY Zenon
  <2>2. abort' \in [Threads -> {"no", "aborted", "revived"}] /\ late' \in [Threads -> 0 .. 2]
    BY DEF Inv, TypeOK
  <2>3. vector' \in Vectors \cup {NoVector} /\ UNCHANGED <<sent, latest, campaign>>
    OBVIOUS
  <2> HIDE DEF StopAttack
  <2>4. QED
    BY <2>1, <2>2, <2>3 DEF Inv, TypeOK
<1>2. LatestRuns'
  BY DEF LatestRuns
<1>3. AbortSeen'
  <2> SUFFICES ASSUME NEW t \in Threads, abort'[t] = "aborted"
               PROVE  late'[t] <= 1 /\ (late'[t] = 1 => campaign[t].at # "put")
    BY Zenon DEF AbortSeen, At, StopAttack
  <2>1. CASE t \in Alive
    BY <2>1 DEF Inv, TypeOK
  <2>2. CASE t \notin Alive
    BY <2>2 DEF Inv, TypeOK, AbortSeen, At
  <2>3. QED
    BY <2>1, <2>2
<1>4. QED
  BY <1>1, <1>2, <1>3 DEF Inv

\* The steps of a campaign that leave the flag alone.
LEMMA InvMove ==
    ASSUME Inv, NEW t \in Threads, Begin(t) \/ Check(t) \/ Put(t) \/ Count(t)
    PROVE  Inv'
<1>1. PICK where \in Places \ {"done"} :
        /\ GoTo(t, where)
        /\ where = "put" => active
        /\ ~At(t, "done")
  BY DEF Begin, Check, Put, Count, Places, At
<1>2. campaign \in [Threads -> CampaignRecord]
  BY DEF Inv, TypeOK, CampaignRecord
<1>3. /\ campaign' \in [Threads -> CampaignRecord]
      /\ campaign'[t].at = where
      /\ campaign'[t].vector = campaign[t].vector
      /\ \A u \in Threads \ {t} : campaign'[u] = campaign[u]
  BY <1>1, <1>2, GoToMoves
<1>4. UNCHANGED <<active, vector, latest, abort>> /\ sent' \in Nat
  BY DEF Inv, TypeOK, Begin, Check, Put, Count
<1>5. /\ late' \in [Threads -> 0 .. 2]
      /\ late' # late => At(t, "put") /\ where # "put" /\ late' = [late EXCEPT ![t] = late[t] + 1]
  <2>1. CASE late' = late
    BY <2>1 DEF Inv, TypeOK
  <2>2. CASE /\ At(t, "put") /\ GoTo(t, "count") /\ late[t] # 2
             /\ late' = [late EXCEPT ![t] = late[t] + 1]
    <3>1. where = "count"
      BY <1>2, <1>3, <2>2, GoToMoves DEF Places
    <3>2. late[t] + 1 \in 0 .. 2
      BY <2>2 DEF Inv, TypeOK
    <3>3. QED
      BY <2>2, <3>1, <3>2 DEF Inv, TypeOK
  <2>3. QED
    BY <2>1, <2>2 DEF Begin, Check, Put, Count
<1>6. TypeOK'
  BY <1>3, <1>4, <1>5 DEF Inv, TypeOK, CampaignRecord
<1>7. LatestRuns'
  BY <1>1, <1>3, <1>4 DEF Inv, TypeOK, LatestRuns, Alive
<1>8. AbortSeen'
  <2> SUFFICES ASSUME NEW u \in Threads, abort[u] = "aborted"
               PROVE  /\ u \in Alive' => ~active
                      /\ late'[u] <= 1
                      /\ late'[u] = 1 => campaign'[u].at # "put"
    BY <1>4 DEF AbortSeen, At
  <2>1. /\ u \in Alive => ~active
        /\ late[u] <= 1 /\ (late[u] = 1 => campaign[u].at # "put") /\ late[u] \in 0 .. 2
    BY DEF Inv, TypeOK, AbortSeen, At
  <2>2. CASE u # t
    BY <1>3, <1>5, <2>1, <2>2 DEF Inv, TypeOK, Alive
  <2>3. CASE u = t
    <3>1. t \in Alive /\ ~active /\ where # "put"
      BY <1>1, <2>1, <2>3 DEF Alive, At
    <3>2. late'[t] <= 1
      BY <1>5, <2>1, <2>3 DEF Inv, TypeOK, At
    <3>3. QED
      BY <1>3, <2>3, <3>1, <3>2
  <2>4. QED
    BY <2>2, <2>3
<1>9. QED
  BY <1>6, <1>7, <1>8 DEF Inv

LEMMA InvEnd ==
    ASSUME Inv, NEW t \in Threads, End(t)
    PROVE  Inv'
<1>1. /\ active' = FALSE /\ vector' = NoVector /\ UNCHANGED <<sent, latest, abort, late>>
      /\ GoTo(t, "done")
  BY DEF End
<1>2. /\ campaign' \in [Threads -> CampaignRecord]
      /\ campaign'[t].at = "done"
      /\ \A u \in Threads \ {t} : campaign'[u] = campaign[u]
  BY <1>1, GoToMoves DEF Inv, TypeOK, CampaignRecord, Places
<1>3. TypeOK'
  BY <1>1, <1>2 DEF Inv, TypeOK, CampaignRecord
<1>4. LatestRuns'
  BY <1>1 DEF LatestRuns
<1>5. AbortSeen'
  BY <1>1, <1>2 DEF Inv, AbortSeen, At
<1>6. QED
  BY <1>3, <1>4, <1>5 DEF Inv

LEMMA InvTick ==
    ASSUME Inv, Tick
    PROVE  Inv'
<1>1. UNCHANGED <<active, vector, sent, latest, abort, late>>
  BY DEF Tick
<1>2. campaign \in [Threads -> CampaignRecord]
  BY DEF Inv, TypeOK, CampaignRecord
<1>3. ASSUME NEW t \in Threads
      PROVE  /\ campaign'[t] \in CampaignRecord
             /\ campaign'[t].at = campaign[t].at
             /\ campaign'[t].vector = campaign[t].vector
  <2>1. campaign'[t] = IF Running(t) THEN Aged(campaign[t]) ELSE campaign[t]
    BY DEF Tick
  <2>2. CASE Running(t)
    BY <1>2, <2>1, <2>2, AgedRecord DEF Running
  <2>3. CASE ~Running(t)
    BY <1>2, <2>1, <2>3
  <2>4. QED
    BY <2>2, <2>3
<1>4. campaign' \in [Threads -> CampaignRecord]
  BY <1>3 DEF Tick
<1>5. Alive' = Alive
  BY <1>3 DEF Alive
<1>6. TypeOK'
  BY <1>1, <1>4 DEF Inv, TypeOK, CampaignRecord
<1>7. LatestRuns'
  BY <1>1, <1>3, <1>5 DEF Inv, TypeOK, LatestRuns
<1>8. AbortSeen'
  BY <1>1, <1>3, <1>5 DEF Inv, AbortSeen, At
<1>9. QED
  BY <1>6, <1>7, <1>8 DEF Inv
-----------------------------------------------------------------------------

LEMMA InvAlways == Spec => []Inv
<1>1. Inv /\ [Next]_vars => Inv'
  <2> SUFFICES ASSUME Inv, [Next]_vars PROVE Inv'
    OBVIOUS
  <2>1. CASE UNCHANGED vars
    BY <2>1 DEF vars, Inv, TypeOK, LatestRuns, AbortSeen, Alive, At
  <2>2. QED
    BY <2>1, InvStart, InvStop, InvMove, InvEnd, InvTick DEF Next, Campaign
<1>2. QED
  BY <1>1, InitInv, PTL DEF Spec

\* The type invariant: whatever campaigns overlap, the flag and the vector
\* shown are set and cleared together.
THEOREM SimTypeSound == Spec => []TypeOK
<1>1. Inv => TypeOK
  BY DEF Inv
<1>2. QED
  BY <1>1, InvAlways, PTL

\* While the status is active the last campaign runs and is the one shown,
\* for any number of campaigns that clear the flag for one another.
THEOREM LatestSound == Spec => []LatestRuns
<1>1. Inv => LatestRuns
  BY DEF Inv
<1>2. QED
  BY <1>1, InvAlways, PTL

\* An aborted campaign puts at most one more flow until the next start_attack.
THEOREM AbortSound == Spec => []AbortedStops
<1>1. Inv => AbortedStops
  BY DEF Inv, AbortSeen, AbortedStops
<1>2. QED
  BY <1>1, InvAlways, PTL
=============================================================================
