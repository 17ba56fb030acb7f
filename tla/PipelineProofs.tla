--------------------------- MODULE PipelineProofs ---------------------------
(***************************************************************************)
(* Proofs about the two stages of main.py, for any number of addresses and *)
(* flows, any policy, and any size of the queues, the registry and the     *)
(* agent's memory.                                                         *)
(***************************************************************************)
EXTENDS Pipeline, SequenceTheorems, FiniteSetTheorems, TLAPS

-----------------------------------------------------------------------------
(* The registry.                                                           *)

Tables == [IPs -> Block \cup {Vacant}]

Bounded(t) == t \in Tables /\ Cardinality(Entries(t)) <= MAX_KERNEL_RULES

LEMMA EntriesFinite ==
    ASSUME NEW t
    PROVE  IsFiniteSet(Entries(t)) /\ Cardinality(Entries(t)) \in Nat
BY PolicyAssumption, FS_Subset, FS_CardinalityType DEF Entries

\* Withdrawing rules leaves the others, and there are fewer of them.
LEMMA WithdrawnEntries ==
    ASSUME NEW t \in Tables, NEW ips
    PROVE  /\ Withdrawn(t, ips) \in Tables
           /\ Entries(Withdrawn(t, ips)) = Entries(t) \ ips
           /\ Cardinality(Entries(Withdrawn(t, ips))) <= Cardinality(Entries(t))
<1>1. Withdrawn(t, ips) \in Tables
  BY DEF Withdrawn, Tables
<1>2. Entries(Withdrawn(t, ips)) = Entries(t) \ ips
  BY DEF Withdrawn, Entries
<1>3. Cardinality(Entries(Withdrawn(t, ips))) <= Cardinality(Entries(t))
  <2>1. Entries(t) \ ips \subseteq Entries(t)
    OBVIOUS
  <2> QED
    BY <1>2, <2>1, EntriesFinite, FS_Subset
<1> QED
  BY <1>1, <1>2, <1>3

\* The capacity check leaves room for one more rule, and adds none.
LEMMA RoomMade ==
    ASSUME NEW t \in Tables, Cardinality(Entries(t)) <= MAX_KERNEL_RULES, NEW u \in Room(t)
    PROVE  /\ u \in Tables
           /\ Cardinality(Entries(u)) < MAX_KERNEL_RULES
           /\ \A ip \in IPs : u[ip] \in {t[ip], Vacant}
<1>1. CASE Cardinality(Entries(t)) >= MAX_KERNEL_RULES
  <2>1. PICK ips \in (SUBSET Entries(t)) \ {{}} : u = Withdrawn(t, ips)
    BY <1>1 DEF Room
  <2>2. u \in Tables /\ Entries(u) = Entries(t) \ ips
    BY <2>1, WithdrawnEntries
  <2>3. Cardinality(Entries(t) \ ips) < Cardinality(Entries(t))
    <3> DEFINE E == Entries(t)
    <3>1. E \ ips \in SUBSET E /\ E \ ips # E
      BY <2>1
    <3>2. IsFiniteSet(E) /\ Cardinality(E) \in Nat
      BY EntriesFinite
    <3> HIDE DEF E
    <3>3. /\ Cardinality(E \ ips) <= Cardinality(E)
          /\ Cardinality(E) # Cardinality(E \ ips)
          /\ Cardinality(E \ ips) \in Nat
      BY <3>1, <3>2, FS_Subset, FS_CardinalityType
    <3>4. Cardinality(E \ ips) < Cardinality(E)
      BY <3>2, <3>3
    <3> QED
      BY <3>4 DEF E
  <2>4. \A ip \in IPs : u[ip] \in {t[ip], Vacant}
    BY <2>1 DEF Withdrawn
  <2>5. Cardinality(Entries(u)) \in Nat /\ Cardinality(Entries(t)) \in Nat
    BY EntriesFinite
  <2> QED
    BY <2>2, <2>3, <2>4, <2>5, SizesAssumption
<1>2. CASE ~(Cardinality(Entries(t)) >= MAX_KERNEL_RULES)
  <2>1. u = t
    BY <1>2 DEF Room
  <2>2. Cardinality(Entries(t)) \in Nat
    BY EntriesFinite
  <2> QED
    BY <1>2, <2>1, <2>2, SizesAssumption
<1> QED
  BY <1>1, <1>2

LEMMA InstalledEntries ==
    ASSUME NEW t \in Tables, Cardinality(Entries(t)) < MAX_KERNEL_RULES,
           NEW ip \in IPs, NEW action \in Block
    PROVE  Bounded([t EXCEPT ![ip] = action])
<1> DEFINE u == [t EXCEPT ![ip] = action]
<1>1. u \in Tables
  BY DEF Tables
<1>2. Entries(u) \subseteq Entries(t) \cup {ip}
  BY DEF Entries, Tables
<1>3. IsFiniteSet(Entries(t) \cup {ip}) /\ Cardinality(Entries(t) \cup {ip}) <= Cardinality(Entries(t)) + 1
  <2> DEFINE E == Entries(t)
  <2>1. IsFiniteSet(E) /\ Cardinality(E) \in Nat
    BY EntriesFinite
  <2> HIDE DEF E
  <2>2. /\ IsFiniteSet(E \cup {ip})
        /\ Cardinality(E \cup {ip}) = IF ip \in E THEN Cardinality(E) ELSE Cardinality(E) + 1
    BY <2>1, FS_AddElement
  <2>3. Cardinality(E \cup {ip}) <= Cardinality(E) + 1
    BY <2>1, <2>2
  <2> QED
    BY <2>2, <2>3 DEF E
<1>4. Cardinality(Entries(u)) <= Cardinality(Entries(t) \cup {ip})
  BY <1>2, <1>3, FS_Subset
<1>5. /\ Cardinality(Entries(u)) \in Nat /\ Cardinality(Entries(t)) \in Nat
      /\ Cardinality(Entries(t) \cup {ip}) \in Nat
  BY <1>3, EntriesFinite, FS_CardinalityType
<1> HIDE DEF u
<1>6. Cardinality(Entries(u)) <= MAX_KERNEL_RULES
  BY <1>3, <1>4, <1>5, SizesAssumption
<1> QED
  BY <1>1, <1>6 DEF Bounded, u

\* What apply_action may do to the registry: it touches no rule but to
\* withdraw it, except that of the address, which it may set or leave.
LEMMA AppliedEffect ==
    ASSUME Bounded(table), NEW d \in Decision, NEW t \in Applied(d)
    PROVE  /\ Bounded(t)
           /\ \A ip \in IPs \ {d.ip} : t[ip] \in {table[ip], Vacant}
           /\ \/ t[d.ip] = Vacant
              \/ t[d.ip] = d.action /\ d.ip \notin Exempt
              \/ t[d.ip] = table[d.ip] /\ (d.ip \in Exempt \/ d.action \in {"ALLOW", table[d.ip]})
<1> DEFINE w == Withdrawn(table, {d.ip})
<1>1. d.ip \in IPs /\ d.action \in Actions /\ table \in Tables
  BY DEF Decision, Bounded
<1>2. CASE d.ip \in Exempt \/ d.action \in {"ALLOW", table[d.ip]}
  BY <1>2 DEF Applied
<1>3. Bounded(w) /\ w[d.ip] = Vacant /\ \A ip \in IPs \ {d.ip} : w[ip] = table[ip]
  <2>1. w \in Tables /\ Cardinality(Entries(w)) <= Cardinality(Entries(table))
    BY <1>1, WithdrawnEntries
  <2>2. Cardinality(Entries(w)) <= MAX_KERNEL_RULES
    BY <2>1, EntriesFinite, SizesAssumption DEF Bounded
  <2> QED
    BY <1>1, <2>1, <2>2 DEF Bounded, Withdrawn
<1>4. CASE /\ ~(d.ip \in Exempt \/ d.action \in {"ALLOW", table[d.ip]})
           /\ d.action = "REMOVE_RULE"
  BY <1>3, <1>4 DEF Applied
<1>5. CASE /\ ~(d.ip \in Exempt \/ d.action \in {"ALLOW", table[d.ip]})
           /\ d.action # "REMOVE_RULE"
  <2> HIDE DEF w
  <2>1. PICK u \in Room(w) : t \in {u, [u EXCEPT ![d.ip] = d.action]}
    BY <1>5 DEF Applied, w
  <2>2. /\ u \in Tables /\ Cardinality(Entries(u)) < MAX_KERNEL_RULES
        /\ \A ip \in IPs : u[ip] \in {w[ip], Vacant}
    BY <1>3, RoomMade DEF Bounded
  <2>3. d.action \in Block
    BY <1>1, <1>5 DEF Actions
  <2>4. Bounded(u)
    BY <2>2, EntriesFinite, SizesAssumption DEF Bounded
  <2>5. Bounded([u EXCEPT ![d.ip] = d.action])
    BY <1>1, <2>2, <2>3, InstalledEntries
  <2>6. \A ip \in IPs \ {d.ip} : t[ip] \in {table[ip], Vacant}
    BY <1>1, <1>3, <2>1, <2>2 DEF Tables
  <2>7. t[d.ip] = Vacant \/ t[d.ip] = d.action
    BY <1>1, <1>3, <2>1, <2>2 DEF Tables
  <2> QED
    BY <1>5, <2>1, <2>4, <2>5, <2>6, <2>7
<1> QED
  BY <1>2, <1>4, <1>5
-----------------------------------------------------------------------------
(* Types.                                                                  *)

QueueTypes ==
    /\ running \in BOOLEAN
    /\ arrived \in 0 .. MaxFlows
    /\ feature_queue \in Seq(Flow)
    /\ classifier \in {"get", "register", "wait", "wake", "classify", "stopped"}
    /\ action_queue \in Seq(Decision) /\ Len(action_queue) <= ACTION_QUEUE_MAXSIZE
    /\ log \in Seq(Decision)

\* Each thread that is about to append has room for its flow: the flows that
\* passed put_nowait's check together exceed the queue's size by no more than
\* one for each campaign.
PutTypes ==
    /\ put \in [Putters -> {"idle", "append", "wake"}]
    /\ arrived + Cardinality(Appending) <= MaxFlows
    /\ Len(feature_queue) + Cardinality(Appending)
           <= FEATURE_QUEUE_MAXSIZE + Cardinality(Campaigns)

\* What the stages have taken: a flow while it is classified, one decision.
Taken ==
    /\ IF classifier = "classify" THEN \E f \in Flow : flow = <<f>> ELSE flow = <<>>
    /\ decision = <<>> \/ \E d \in Decision : decision = <<d>>

Memory == recent \in Seq(Decision) /\ Len(recent) <= History

TypeInv == QueueTypes /\ PutTypes /\ Taken /\ Memory /\ Bounded(table)

\* The threads that put.
PutSteps == \E p \in Putters : PutCheck(p) \/ PutProgress(p)

Appenders(places) == {p \in Putters : places[p] = "append"}

LEMMA AppendersFinite ==
    ASSUME NEW places
    PROVE  /\ IsFiniteSet(Appenders(places)) /\ Cardinality(Appenders(places)) \in Nat
           /\ Cardinality(Appenders(places)) <= Cardinality(Campaigns) + 1
           /\ Cardinality(Campaigns) \in Nat
<1>1. IsFiniteSet(Campaigns \cup {Loop})
      /\ Cardinality(Campaigns \cup {Loop}) = Cardinality(Campaigns) + 1
  BY PuttersAssumption, FS_AddElement
<1>2. Appenders(places) \subseteq Campaigns \cup {Loop}
  BY DEF Appenders, Putters
<1> QED
  BY <1>1, <1>2, PuttersAssumption, FS_Subset, FS_CardinalityType

LEMMA AppendersChange ==
    ASSUME NEW places \in [Putters -> {"idle", "append", "wake"}], NEW p \in Putters
    PROVE  /\ places[p] = "idle" =>
                  Cardinality(Appenders([places EXCEPT ![p] = "append"]))
                      = Cardinality(Appenders(places)) + 1
           /\ places[p] = "append" =>
                  Cardinality(Appenders([places EXCEPT ![p] = "wake"]))
                      = Cardinality(Appenders(places)) - 1
           /\ places[p] = "wake" =>
                  Appenders([places EXCEPT ![p] = "idle"]) = Appenders(places)
<1>1. ASSUME places[p] = "idle"
      PROVE  Cardinality(Appenders([places EXCEPT ![p] = "append"]))
                 = Cardinality(Appenders(places)) + 1
  <2>1. /\ Appenders([places EXCEPT ![p] = "append"]) = Appenders(places) \cup {p}
        /\ p \notin Appenders(places)
    BY <1>1 DEF Appenders
  <2> QED
    BY <2>1, AppendersFinite, FS_AddElement
<1>2. ASSUME places[p] = "append"
      PROVE  Cardinality(Appenders([places EXCEPT ![p] = "wake"]))
                 = Cardinality(Appenders(places)) - 1
  <2>1. /\ Appenders([places EXCEPT ![p] = "wake"]) = Appenders(places) \ {p}
        /\ p \in Appenders(places)
    BY <1>2 DEF Appenders
  <2> QED
    BY <2>1, AppendersFinite, FS_RemoveElement
<1>3. places[p] = "wake" => Appenders([places EXCEPT ![p] = "idle"]) = Appenders(places)
  BY DEF Appenders
<1> QED
  BY <1>1, <1>2, <1>3

\* A step of the loop's tasks puts nothing.
LEMMA PutsUntouched ==
    ASSUME TypeInv, put' = put, arrived' = arrived, QueueTypes',
           Len(feature_queue') <= Len(feature_queue)
    PROVE  PutTypes'
<1>1. Appending' = Appending /\ Cardinality(Appending) \in Nat /\ Cardinality(Campaigns) \in Nat
  BY AppendersFinite DEF Appending, Appenders
<1>2. Len(feature_queue) \in Nat /\ Len(feature_queue') \in Nat
  BY LenProperties DEF TypeInv, QueueTypes
<1> QED
  BY <1>1, <1>2, SizesAssumption DEF TypeInv, PutTypes

\* The decision on a flow.
Verdict(f, action) == [id |-> f.id, ip |-> f.ip, low |-> f.low, action |-> Heal(f, action)]

LEMMA VerdictType ==
    ASSUME NEW f \in Flow, NEW action \in Policy
    PROVE  Verdict(f, action) \in Decision
BY PolicyAssumption DEF Verdict, Heal, Flow, Decision, Actions, Block

LEMMA Remembered ==
    ASSUME Memory, NEW d \in Decision
    PROVE  /\ Remember(d) \in Seq(Decision) /\ Len(Remember(d)) <= History
           /\ \/ /\ Len(recent) < History /\ Remember(d) = Append(recent, d)
              \/ /\ Len(recent) = History /\ Remember(d) = Tail(Append(recent, d))
<1> DEFINE all == Append(recent, d)
<1>1. /\ all \in Seq(Decision) /\ all # <<>> /\ Len(all) = Len(recent) + 1
      /\ Len(recent) \in Nat
  BY AppendProperties, LenProperties DEF Memory
<1> HIDE DEF all
<1>2. Tail(all) \in Seq(Decision) /\ Len(Tail(all)) = Len(all) - 1
  BY <1>1, HeadTailProperties
<1>3. Remember(d) = IF Len(all) > History THEN Tail(all) ELSE all
  BY DEF Remember, all
<1>4. CASE Len(recent) < History
  <2>1. Remember(d) = all
    BY <1>1, <1>3, <1>4, SizesAssumption
  <2> QED
    BY <1>1, <1>4, <2>1, SizesAssumption DEF all
<1>5. CASE Len(recent) = History
  <2>1. Remember(d) = Tail(all)
    BY <1>1, <1>3, <1>5, SizesAssumption
  <2> QED
    BY <1>1, <1>2, <1>5, <2>1, SizesAssumption DEF all
<1> QED
  BY <1>1, <1>4, <1>5, SizesAssumption DEF Memory

\* What one iteration of the classifier's loop does.
LEMMA ClassifyEffect ==
    ASSUME TypeInv, Classify
    PROVE  \E f \in Flow, action \in Policy :
              /\ flow = <<f>> /\ flow' = <<>>
              /\ recent' = Remember(Verdict(f, action))
              /\ action_queue' = IF Len(action_queue) < ACTION_QUEUE_MAXSIZE
                                 THEN Append(action_queue, Verdict(f, action))
                                 ELSE action_queue
<1>1. PICK f \in Flow : flow = <<f>>
  BY DEF TypeInv, Taken, Classify
<1>2. flow[1] = f /\ flow' = <<>>
  BY <1>1 DEF Classify
<1> QED
  BY <1>1, <1>2, Zenon DEF Classify, Verdict

LEMMA EmptyQueues ==
    /\ <<>> \in Seq(Flow) /\ <<>> \in Seq(Decision)
    /\ Len(<<>>) = 0
BY EmptySeq

LEMMA InitTypes == Init => TypeInv
<1> SUFFICES ASSUME Init
             PROVE  TypeInv
  OBVIOUS
<1>1. QueueTypes
  <2>1. feature_queue \in Seq(Flow)
    BY EmptyQueues DEF Init
  <2>2. /\ action_queue \in Seq(Decision) /\ Len(action_queue) <= ACTION_QUEUE_MAXSIZE
        /\ log \in Seq(Decision)
    BY EmptyQueues, SizesAssumption DEF Init
  <2>3. arrived \in 0 .. MaxFlows
    BY SizesAssumption DEF Init
  <2>4. running \in BOOLEAN /\ classifier = "get"
    BY DEF Init
  <2> QED
    BY <2>1, <2>2, <2>3, <2>4 DEF QueueTypes
<1>2. Taken
  BY DEF Init, Taken
<1>3. Memory
  BY EmptyQueues, SizesAssumption DEF Init, Memory
<1>4. Bounded(table)
  <2>1. table \in Tables /\ Entries(table) = {}
    BY DEF Init, Tables, Entries
  <2>2. Cardinality(Entries(table)) = 0
    BY <2>1, FS_EmptySet
  <2> QED
    BY <2>1, <2>2, SizesAssumption DEF Bounded
<1>5. PutTypes
  <2>1. Appending = {} /\ put \in [Putters -> {"idle", "append", "wake"}]
    BY DEF Init, Appending
  <2>2. Cardinality(Appending) = 0 /\ Cardinality(Campaigns) \in Nat
    BY <2>1, FS_EmptySet, FS_CardinalityType, PuttersAssumption
  <2>3. arrived = 0 /\ Len(feature_queue) = 0
    BY EmptyQueues DEF Init
  <2> QED
    BY <2>1, <2>2, <2>3, SizesAssumption DEF PutTypes
<1> QED
  BY <1>1, <1>2, <1>3, <1>4, <1>5 DEF TypeInv

LEMMA PutKeepsTypes ==
    ASSUME TypeInv, NEW p \in Putters, PutCheck(p) \/ PutProgress(p)
    PROVE  TypeInv'
<1> DEFINE here == Cardinality(Appending)
<1>1. /\ Appending = Appenders(put) /\ Appending' = Appenders(put')
      /\ here \in Nat /\ Cardinality(Campaigns) \in Nat
      /\ Cardinality(Appending') <= Cardinality(Campaigns) + 1
      /\ Cardinality(Appending') \in Nat
      /\ Len(feature_queue) \in Nat /\ arrived \in Nat
  <2>1. Appending = Appenders(put) /\ Appending' = Appenders(put')
    BY DEF Appending, Appenders
  <2>2. Len(feature_queue) \in Nat /\ arrived \in Nat
    BY LenProperties DEF TypeInv, QueueTypes
  <2> QED
    BY <2>1, <2>2, AppendersFinite
<1>2. /\ put \in [Putters -> {"idle", "append", "wake"}]
      /\ arrived + here <= MaxFlows
      /\ Len(feature_queue) + here <= FEATURE_QUEUE_MAXSIZE + Cardinality(Campaigns)
  BY DEF TypeInv, PutTypes
<1> HIDE DEF here
<1>3. CASE PutCheck(p)
  <2>1. UNCHANGED <<running, feature_queue, classifier, flow, recent, action_queue, decision,
                    table, log>>
    BY <1>3 DEF PutCheck
  <2>2. arrived + here < MaxFlows
    BY <1>3 DEF PutCheck, here
  <2>3. CASE /\ Len(feature_queue) < FEATURE_QUEUE_MAXSIZE
             /\ put' = [put EXCEPT ![p] = "append"] /\ arrived' = arrived
    <3>1. Cardinality(Appending') = here + 1
      BY <1>1, <1>2, <1>3, <2>3, AppendersChange DEF PutCheck, here
    <3>2. PutTypes'
      BY <1>1, <1>2, <2>1, <2>2, <2>3, <3>1, SizesAssumption DEF PutTypes
    <3> QED
      BY <2>1, <2>3, <3>2 DEF TypeInv, QueueTypes, Taken, Memory, Bounded
  <2>4. CASE arrived' = arrived + 1 /\ put' = put
    <3>1. Cardinality(Appending') = here
      BY <1>1, <2>4 DEF here
    <3>2. PutTypes' /\ arrived' \in 0 .. MaxFlows
      BY <1>1, <1>2, <2>1, <2>2, <2>4, <3>1, SizesAssumption DEF PutTypes
    <3> QED
      BY <2>1, <3>2 DEF TypeInv, QueueTypes, Taken, Memory, Bounded
  <2> QED
    BY <1>3, <2>3, <2>4 DEF PutCheck
<1>4. ASSUME NEW ip \in IPs, NEW low \in BOOLEAN, PutAppend(p, ip, low)
      PROVE  TypeInv'
  <2> DEFINE new == [id |-> arrived + 1, ip |-> ip, low |-> low]
  <2>1. /\ UNCHANGED <<running, classifier, flow, recent, action_queue, decision, table, log>>
        /\ put[p] = "append" /\ put' = [put EXCEPT ![p] = "wake"]
        /\ arrived' = arrived + 1 /\ feature_queue' = Append(feature_queue, new)
    BY <1>4 DEF PutAppend
  <2>2. Cardinality(Appending') = here - 1
    BY <1>1, <1>2, <2>1, AppendersChange DEF here
  <2>3. arrived' \in 1 .. MaxFlows
    BY <1>1, <1>2, <2>1, <2>2, SizesAssumption
  <2>4. new \in Flow
    BY <2>1, <2>3 DEF Flow
  <2> HIDE DEF new
  <2>5. feature_queue' \in Seq(Flow) /\ Len(feature_queue') = Len(feature_queue) + 1
    BY <2>1, <2>4, AppendProperties DEF TypeInv, QueueTypes
  <2>6. PutTypes'
    BY <1>1, <1>2, <2>1, <2>2, <2>5, SizesAssumption DEF PutTypes
  <2>7. QueueTypes'
    BY <2>1, <2>3, <2>5 DEF TypeInv, QueueTypes
  <2> QED
    BY <2>1, <2>6, <2>7 DEF TypeInv, Taken, Memory, Bounded
<1>5. CASE PutWake(p)
  <2>1. /\ UNCHANGED <<running, arrived, feature_queue, flow, recent, action_queue, decision,
                       table, log>>
        /\ put[p] = "wake" /\ put' = [put EXCEPT ![p] = "idle"]
        /\ classifier' = IF classifier = "wait" THEN "wake" ELSE classifier
    BY <1>5 DEF PutWake
  <2>2. Appending' = Appending
    BY <1>1, <1>2, <2>1, AppendersChange
  <2>3. PutTypes'
    BY <1>2, <2>1, <2>2 DEF PutTypes, here
  <2>4. QueueTypes' /\ Taken'
    BY <2>1 DEF TypeInv, QueueTypes, Taken
  <2> QED
    BY <2>1, <2>3, <2>4 DEF TypeInv, Memory, Bounded
<1> QED
  BY <1>3, <1>4, <1>5 DEF PutProgress

LEMMA ClassifierKeepsTypes ==
    ASSUME TypeInv, ClassifierProgress \/ Timeout
    PROVE  TypeInv'
<1>1. CASE Register \/ Wake \/ Timeout
  BY <1>1 DEF Register, Wake, Timeout, TypeInv, QueueTypes, PutTypes, Appending, Taken, Memory,
     Bounded
<1>2. CASE Get
  <2>1. CASE feature_queue = <<>> /\ classifier' = "register" /\ UNCHANGED <<feature_queue, flow>>
    BY <1>2, <2>1 DEF Get, TypeInv, QueueTypes, PutTypes, Appending, Taken, Memory, Bounded
  <2>2. CASE /\ feature_queue # <<>> /\ flow' = <<Head(feature_queue)>>
             /\ feature_queue' = Tail(feature_queue) /\ classifier' = "classify"
    <3>1. /\ Head(feature_queue) \in Flow /\ Tail(feature_queue) \in Seq(Flow)
          /\ Len(Tail(feature_queue)) = Len(feature_queue) - 1
          /\ Len(feature_queue) \in Nat
      BY <2>2, HeadTailProperties, LenProperties DEF TypeInv, QueueTypes
    <3>2. UNCHANGED <<running, arrived, put, recent, action_queue, decision, table, log>>
      BY <1>2 DEF Get
    <3>3. QueueTypes'
      BY <2>2, <3>1, <3>2, SizesAssumption DEF TypeInv, QueueTypes
    <3>4. Taken'
      BY <2>2, <3>1, <3>2 DEF TypeInv, Taken
    <3>5. Len(feature_queue') <= Len(feature_queue)
      BY <2>2, <3>1
    <3>6. PutTypes'
      BY <3>2, <3>3, <3>5, PutsUntouched
    <3> QED
      BY <3>2, <3>3, <3>4, <3>6 DEF TypeInv, Memory, Bounded
  <2> QED
    BY <1>2, <2>1, <2>2 DEF Get
<1>3. CASE Classify
  <2>1. PICK f \in Flow, action \in Policy :
            /\ flow = <<f>> /\ flow' = <<>>
            /\ recent' = Remember(Verdict(f, action))
            /\ action_queue' = IF Len(action_queue) < ACTION_QUEUE_MAXSIZE
                               THEN Append(action_queue, Verdict(f, action))
                               ELSE action_queue
    BY <1>3, ClassifyEffect
  <2>2. Verdict(f, action) \in Decision
    BY VerdictType
  <2>3. action_queue' \in Seq(Decision) /\ Len(action_queue') <= ACTION_QUEUE_MAXSIZE
    BY <2>1, <2>2, AppendProperties, LenProperties, SizesAssumption DEF TypeInv, QueueTypes
  <2>4. Memory'
    BY <2>1, <2>2, Remembered DEF TypeInv, Memory
  <2>5. /\ classifier' = "get"
        /\ UNCHANGED <<running, arrived, put, feature_queue, decision, table, log>>
    BY <1>3 DEF Classify
  <2>6. QueueTypes' /\ PutTypes'
    BY <2>3, <2>5 DEF TypeInv, QueueTypes, PutTypes, Appending
  <2>7. Taken'
    BY <2>1, <2>5 DEF TypeInv, Taken
  <2> QED
    BY <2>4, <2>5, <2>6, <2>7 DEF TypeInv, Bounded
<1>4. CASE ClassifyFails
  BY <1>4 DEF ClassifyFails, TypeInv, QueueTypes, PutTypes, Appending, Taken, Memory, Bounded
<1> QED
  BY <1>1, <1>2, <1>3, <1>4 DEF ClassifierProgress

\* What one iteration of the enforcer's loop does.
LEMMA EnforceEffect ==
    ASSUME TypeInv, Enforce
    PROVE  \E d \in Decision :
              /\ decision = <<d>> /\ decision' = <<>>
              /\ table' \in Applied(d)
              /\ log' = Append(log, d)
              /\ log \in Seq(Decision)
<1>1. PICK d \in Decision : decision = <<d>>
  BY DEF TypeInv, Taken, Enforce
<1>2. decision[1] = d
  BY <1>1
<1>3. table' \in Applied(d) /\ log' = log \o <<d>> /\ decision' = <<>>
  BY <1>1, <1>2 DEF Enforce
<1>4. log' = Append(log, d) /\ log \in Seq(Decision)
  BY <1>3, AppendIsConcat DEF TypeInv, QueueTypes
<1> QED
  BY <1>1, <1>3, <1>4

LEMMA EnforcerKeepsTypes ==
    ASSUME TypeInv, EnforcerProgress
    PROVE  TypeInv'
<1>1. CASE TakeDecision
  <2>1. /\ Head(action_queue) \in Decision /\ Tail(action_queue) \in Seq(Decision)
        /\ Len(Tail(action_queue)) = Len(action_queue) - 1
        /\ Len(action_queue) \in Nat
    BY <1>1, HeadTailProperties, LenProperties DEF TakeDecision, TypeInv, QueueTypes
  <2>2. /\ decision' = <<Head(action_queue)>> /\ action_queue' = Tail(action_queue)
        /\ UNCHANGED <<running, arrived, put, feature_queue, classifier, flow, recent, table, log>>
    BY <1>1 DEF TakeDecision
  <2>3. QueueTypes' /\ PutTypes'
    BY <2>1, <2>2, SizesAssumption DEF TypeInv, QueueTypes, PutTypes, Appending
  <2>4. Taken'
    BY <2>1, <2>2 DEF TypeInv, Taken
  <2> QED
    BY <2>2, <2>3, <2>4 DEF TypeInv, Memory, Bounded
<1>2. CASE Enforce
  <2>1. PICK d \in Decision :
            /\ decision = <<d>> /\ decision' = <<>>
            /\ table' \in Applied(d)
            /\ log' = Append(log, d)
            /\ log \in Seq(Decision)
    BY <1>2, EnforceEffect
  <2>2. Bounded(table')
    BY <2>1, AppliedEffect DEF TypeInv
  <2>3. UNCHANGED <<running, arrived, put, feature_queue, classifier, flow, recent, action_queue>>
    BY <1>2 DEF Enforce
  <2>4. log' \in Seq(Decision)
    BY <2>1, AppendProperties
  <2>5. QueueTypes' /\ PutTypes'
    BY <2>3, <2>4 DEF TypeInv, QueueTypes, PutTypes, Appending
  <2>6. Taken'
    BY <2>1, <2>3 DEF TypeInv, Taken
  <2> QED
    BY <2>2, <2>3, <2>5, <2>6 DEF TypeInv, Memory
<1> QED
  BY <1>1, <1>2 DEF EnforcerProgress

LEMMA OthersKeepTypes ==
    ASSUME TypeInv, Stop \/ \E ip \in IPs : Withdraw(ip)
    PROVE  TypeInv'
<1>1. CASE Stop
  BY <1>1 DEF Stop, TypeInv, QueueTypes, PutTypes, Appending, Taken, Memory, Bounded
<1>2. ASSUME NEW ip \in IPs, Withdraw(ip)
      PROVE  TypeInv'
  <2>1. /\ table' = Withdrawn(table, {ip})
        /\ UNCHANGED <<running, arrived, put, feature_queue, classifier, flow, recent, action_queue,
                       decision, log>>
    BY <1>2 DEF Withdraw
  <2>2. /\ table' \in Tables
        /\ Cardinality(Entries(table')) <= Cardinality(Entries(table))
    BY <2>1, WithdrawnEntries DEF TypeInv, Bounded
  <2>3. Bounded(table')
    BY <2>2, EntriesFinite, SizesAssumption DEF TypeInv, Bounded
  <2> QED
    BY <2>1, <2>3 DEF TypeInv, QueueTypes, PutTypes, Appending, Taken, Memory
<1> QED
  BY <1>1, <1>2

LEMMA Steps ==
    Next => \/ PutSteps \/ ClassifierProgress \/ Timeout \/ EnforcerProgress
            \/ Stop \/ \E ip \in IPs : Withdraw(ip)
BY DEF Next, PutSteps, Putters, SnifferPut, SimulationPut, CampaignPut

LEMMA TypeInvHolds == Spec => []TypeInv
<1>1. TypeInv /\ [Next]_vars => TypeInv'
  <2> SUFFICES ASSUME TypeInv, [Next]_vars
               PROVE  TypeInv'
    OBVIOUS
  <2>1. CASE UNCHANGED vars
    BY <2>1 DEF vars, TypeInv, QueueTypes, PutTypes, Appending, Taken, Memory, Bounded
  <2>2. CASE PutSteps
    BY <2>2, PutKeepsTypes DEF PutSteps
  <2> QED
    BY <2>1, <2>2, Steps, ClassifierKeepsTypes, EnforcerKeepsTypes, OthersKeepTypes
<1> QED
  BY <1>1, InitTypes, PTL DEF Spec

\* The action queue and the agent's memory keep to their sizes, and the
\* registry to its capacity: the capacity check of apply_action runs before
\* every rule it adds.  The feature queue exceeds its size by no more than one
\* flow for each overlapping campaign, whatever steps of other threads fall
\* between put_nowait's check and its append.
THEOREM TypeSound == Spec => []TypeOK
<1>1. TypeInv => TypeOK
  <2> SUFFICES ASSUME TypeInv
               PROVE  TypeOK
    OBVIOUS
  <2>1. flow \in Seq(Flow) /\ Len(flow) = IF classifier = "classify" THEN 1 ELSE 0
    <3>1. CASE classifier = "classify"
      <4>1. PICK f \in Flow : flow = <<f>>
        BY <3>1 DEF TypeInv, Taken
      <4> QED
        BY <3>1, <4>1
    <3>2. CASE classifier # "classify"
      <4>1. flow = <<>>
        BY <3>2 DEF TypeInv, Taken
      <4> QED
        BY <3>2, <4>1, EmptyQueues
    <3> QED
      BY <3>1, <3>2
  <2>2. decision \in Seq(Decision) /\ Len(decision) <= 1
    <3>1. CASE decision = <<>>
      BY <3>1, EmptyQueues
    <3>2. ASSUME NEW d \in Decision, decision = <<d>>
          PROVE  decision \in Seq(Decision) /\ Len(decision) <= 1
      BY <3>2
    <3> QED
      BY <3>1, <3>2 DEF TypeInv, Taken
  <2>3. Len(feature_queue) <= FEATURE_QUEUE_MAXSIZE + Cardinality(Campaigns)
    <3>1. Cardinality(Appending) \in Nat /\ Cardinality(Campaigns) \in Nat /\ Len(feature_queue) \in Nat
      BY AppendersFinite, LenProperties DEF Appending, Appenders, TypeInv, QueueTypes
    <3> QED
      BY <3>1, SizesAssumption DEF TypeInv, PutTypes
  <2> QED
    BY <2>1, <2>2, <2>3 DEF TypeInv, QueueTypes, PutTypes, Memory, Bounded, Tables, TypeOK
<1> QED
  BY <1>1, TypeInvHolds, PTL
-----------------------------------------------------------------------------
(* The log explains the rules.                                             *)

\* An exempt address has no rule: without this a logged block of such an
\* address would have to explain one.
ExplainInv ==
    /\ RuleExplained
    /\ \A ip \in Exempt : table[ip] = Vacant

LEMMA EnforceExplains ==
    ASSUME TypeInv, ExplainInv, Enforce
    PROVE  ExplainInv'
<1>1. PICK d \in Decision :
          /\ decision = <<d>> /\ decision' = <<>>
          /\ table' \in Applied(d)
          /\ log' = Append(log, d)
          /\ log \in Seq(Decision)
  BY EnforceEffect
<1> DEFINE n == Len(log)
<1>2. /\ n \in Nat /\ DOMAIN log = 1 .. n /\ DOMAIN log' = 1 .. n + 1 /\ Len(log') = n + 1
      /\ \A i \in 1 .. n : log'[i] = log[i]
      /\ log'[n + 1] = d
  BY <1>1, AppendProperties, LenProperties
<1>3. d.ip \in IPs
  BY DEF Decision
<1>4. /\ \A ip \in IPs \ {d.ip} : table'[ip] \in {table[ip], Vacant}
      /\ \/ table'[d.ip] = Vacant
         \/ table'[d.ip] = d.action /\ d.ip \notin Exempt
         \/ table'[d.ip] = table[d.ip] /\ (d.ip \in Exempt \/ d.action \in {"ALLOW", table[d.ip]})
  BY <1>1, AppliedEffect DEF TypeInv
<1> HIDE DEF n
<1>5. \A ip \in Exempt : table'[ip] = Vacant
  BY <1>4, PolicyAssumption DEF ExplainInv
<1>6. ASSUME NEW ip \in IPs, table'[ip] # Vacant
      PROVE  \E i \in DOMAIN log' :
                /\ log'[i].ip = ip /\ log'[i].action = table'[ip]
                /\ \A j \in i + 1 .. Len(log') :
                      log'[j].ip = ip => log'[j].action \in {"ALLOW", table'[ip]}
  <2>1. CASE ip = d.ip /\ table'[ip] = d.action
    <3>1. /\ n + 1 \in DOMAIN log'
          /\ log'[n + 1].ip = ip /\ log'[n + 1].action = table'[ip]
          /\ \A j \in n + 1 + 1 .. Len(log') :
                log'[j].ip = ip => log'[j].action \in {"ALLOW", table'[ip]}
      BY <1>2, <2>1
    <3> QED
      BY <3>1
  <2>2. CASE /\ table'[ip] = table[ip]
             /\ ip = d.ip => d.action \in {"ALLOW", table[ip]}
    <3>1. PICK i \in DOMAIN log :
              /\ log[i].ip = ip /\ log[i].action = table[ip]
              /\ \A j \in i + 1 .. Len(log) : log[j].ip = ip => log[j].action \in {"ALLOW", table[ip]}
      BY <1>6, <2>2 DEF ExplainInv, RuleExplained
    <3>2. /\ i \in DOMAIN log'
          /\ log'[i].ip = ip /\ log'[i].action = table'[ip]
      BY <1>2, <2>2, <3>1
    <3>3. ASSUME NEW j \in i + 1 .. Len(log'), log'[j].ip = ip
          PROVE  log'[j].action \in {"ALLOW", table'[ip]}
      <4>1. CASE j = n + 1
        BY <1>2, <2>2, <3>3, <4>1
      <4>2. CASE j \in i + 1 .. n
        BY <1>2, <2>2, <3>1, <3>3, <4>2 DEF n
      <4> QED
        BY <1>2, <3>1, <4>1, <4>2
    <3> QED
      BY <3>2, <3>3
  <2>3. CASE ip = d.ip /\ ip \in Exempt
    BY <1>5, <1>6, <2>3
  <2> QED
    BY <1>4, <1>6, <2>1, <2>2, <2>3
<1> QED
  BY <1>5, <1>6 DEF ExplainInv, RuleExplained

LEMMA OthersExplain ==
    ASSUME TypeInv, ExplainInv, [Next]_vars, ~Enforce
    PROVE  ExplainInv'
<1>1. CASE UNCHANGED <<table, log>>
  BY <1>1 DEF ExplainInv, RuleExplained
<1>2. ASSUME NEW ip \in IPs, Withdraw(ip)
      PROVE  ExplainInv'
  <2>1. /\ \A a \in IPs : table'[a] \in {table[a], Vacant}
        /\ log' = log
    BY <1>2 DEF Withdraw, Withdrawn
  <2> QED
    BY <2>1, PolicyAssumption DEF ExplainInv, RuleExplained
<1> QED
  BY <1>1, <1>2, Steps DEF vars, PutSteps, PutCheck, PutProgress, PutAppend, PutWake,
     ClassifierProgress, Get, Register, Wake, Timeout, Classify, ClassifyFails, EnforcerProgress,
     TakeDecision, Stop

\* The last logged event of an address that could change its rule is the one
\* that set it (_enforcer_loop, apply_action): the registry and the history
\* in the database never tell different stories, whatever rules are refused,
\* evicted, replaced, expired or removed in between.
THEOREM ExplainedSound == Spec => []RuleExplained
<1>1. Init => ExplainInv
  BY PolicyAssumption DEF Init, ExplainInv, RuleExplained
<1>2. TypeInv /\ ExplainInv /\ [Next]_vars => ExplainInv'
  BY EnforceExplains, OthersExplain
<1>3. ExplainInv => RuleExplained
  BY DEF ExplainInv
<1> QED
  BY <1>1, <1>2, <1>3, TypeInvHolds, PTL DEF Spec
-----------------------------------------------------------------------------
(* The order of the flows.                                                 *)

IdsOf(s)    == {s[i].id : i \in DOMAIN s}
Ordered(s)  == \A i, j \in DOMAIN s : i < j => s[i].id < s[j].id
Below(A, B) == \A a \in A, b \in B : a < b

\* Every place of the pipeline is in order, and so are the places.
OrderInv ==
    /\ Ordered(log) /\ Ordered(action_queue) /\ Ordered(feature_queue)
    /\ Below(IdsOf(log), IdsOf(decision))
    /\ Below(IdsOf(log) \cup IdsOf(decision), IdsOf(action_queue))
    /\ Below(IdsOf(log) \cup IdsOf(decision) \cup IdsOf(action_queue), IdsOf(flow))
    /\ Below(IdsOf(log) \cup IdsOf(decision) \cup IdsOf(action_queue) \cup IdsOf(flow),
             IdsOf(feature_queue))
    /\ IdsOf(log) \cup IdsOf(decision) \cup IdsOf(action_queue) \cup IdsOf(flow)
          \cup IdsOf(feature_queue) \subseteq 1 .. arrived

Decided == ToSet(log) \cup ToSet(decision) \cup ToSet(action_queue)

\* What the agent remembers: flows further apart in memory are further apart in
\* their order of arrival, all before those that still wait; and every decision
\* that was not dropped is remembered until History newer ones are.
MemoryInv ==
    /\ \A i, j \in DOMAIN recent : i <= j => j - i <= recent[j].id - recent[i].id
    /\ Below(IdsOf(recent), IdsOf(flow) \cup IdsOf(feature_queue))
    /\ IdsOf(recent) \subseteq 1 .. arrived
    /\ \A d \in Decided :
          d \in ToSet(recent) \/ (Len(recent) = History /\ d.id < recent[1].id)

\* Self-healing, for decisions wherever they are on their way to the log.
Healed ==
    \A d, e, g \in Decided :
        ~ /\ d.id < e.id /\ e.id < g.id /\ g.id - d.id <= History
          /\ d.ip = g.ip /\ e.ip = g.ip
          /\ {d.action, e.action, g.action} \subseteq Block
          /\ g.low
-----------------------------------------------------------------------------
(* Sequences of flows or decisions that grow at one end and shrink at the  *)
(* other.                                                                  *)

LEMMA ShortIds ==
    /\ IdsOf(<<>>) = {} /\ Ordered(<<>>) /\ ToSet(<<>>) = {}
    /\ \A e : IdsOf(<<e>>) = {e.id} /\ ToSet(<<e>>) = {e}
BY DEF IdsOf, Ordered, ToSet

LEMMA AppendIndex ==
    ASSUME NEW S, NEW s \in Seq(S), NEW e \in S, NEW t, t = Append(s, e)
    PROVE  /\ Len(s) + 1 \in DOMAIN t /\ t[Len(s) + 1] = e
           /\ \A i \in DOMAIN s : i \in DOMAIN t /\ t[i] = s[i] /\ i < Len(s) + 1
           /\ \A i \in DOMAIN t : i = Len(s) + 1 \/ i \in DOMAIN s
           /\ DOMAIN t \subseteq Int
<1>1. /\ Len(s) \in Nat /\ DOMAIN s = 1 .. Len(s) /\ DOMAIN t = 1 .. Len(s) + 1
      /\ \A i \in 1 .. Len(s) : t[i] = s[i]
      /\ t[Len(s) + 1] = e
  BY AppendProperties, LenProperties
<1> QED
  BY <1>1

LEMMA AppendIds ==
    ASSUME NEW S, NEW s \in Seq(S), NEW e \in S
    PROVE  IdsOf(Append(s, e)) = IdsOf(s) \cup {e.id}
<1> DEFINE t == Append(s, e)
<1>1. /\ Len(s) + 1 \in DOMAIN t /\ t[Len(s) + 1] = e
      /\ \A i \in DOMAIN s : i \in DOMAIN t /\ t[i] = s[i]
      /\ \A i \in DOMAIN t : i = Len(s) + 1 \/ i \in DOMAIN s
  BY AppendIndex
<1> HIDE DEF t
<1>2. IdsOf(t) = IdsOf(s) \cup {e.id}
  BY <1>1 DEF IdsOf
<1> QED
  BY <1>2 DEF t

LEMMA AppendElements ==
    ASSUME NEW S, NEW s \in Seq(S), NEW e \in S
    PROVE  ToSet(Append(s, e)) = ToSet(s) \cup {e}
<1> DEFINE t == Append(s, e)
<1>1. /\ Len(s) + 1 \in DOMAIN t /\ t[Len(s) + 1] = e
      /\ \A i \in DOMAIN s : i \in DOMAIN t /\ t[i] = s[i]
      /\ \A i \in DOMAIN t : i = Len(s) + 1 \/ i \in DOMAIN s
  BY AppendIndex
<1> HIDE DEF t
<1>2. ToSet(t) = ToSet(s) \cup {e}
  BY <1>1 DEF ToSet
<1> QED
  BY <1>2 DEF t

LEMMA AppendOrdered ==
    ASSUME NEW S, NEW s \in Seq(S), NEW e \in S, Ordered(s), Below(IdsOf(s), {e.id})
    PROVE  Ordered(Append(s, e))
<1> DEFINE t == Append(s, e)
           n == Len(s) + 1
<1>1. /\ t[n] = e /\ DOMAIN t \subseteq Int
      /\ \A i \in DOMAIN s : t[i] = s[i] /\ i < n
      /\ \A i \in DOMAIN t : i = n \/ i \in DOMAIN s
      /\ n \in Int
  BY AppendIndex, LenProperties
<1> HIDE DEF t, n
<1>2. ASSUME NEW i \in DOMAIN t, NEW j \in DOMAIN t, i < j
      PROVE  t[i].id < t[j].id
  <2>1. i \in DOMAIN s /\ t[i] = s[i] /\ s[i].id \in IdsOf(s)
    BY <1>1, <1>2 DEF IdsOf
  <2>2. CASE j = n
    BY <1>1, <2>1, <2>2 DEF Below
  <2>3. CASE j \in DOMAIN s
    BY <1>1, <1>2, <2>1, <2>3 DEF Ordered
  <2> QED
    BY <1>1, <2>2, <2>3
<1> QED
  BY <1>2 DEF Ordered, t

LEMMA TailIds ==
    ASSUME NEW S, NEW s \in Seq(S), s # <<>>
    PROVE  /\ IdsOf(s) = {Head(s).id} \cup IdsOf(Tail(s))
           /\ ToSet(s) = {Head(s)} \cup ToSet(Tail(s))
           /\ Ordered(s) => Ordered(Tail(s)) /\ Below({Head(s).id}, IdsOf(Tail(s)))
<1> DEFINE n == Len(s)
           t == Tail(s)
<1>1. /\ n \in Nat \ {0} /\ DOMAIN s = 1 .. n /\ DOMAIN t = 1 .. n - 1
      /\ \A i \in 1 .. n - 1 : t[i] = s[i + 1]
      /\ s[1] = Head(s)
  BY EmptySeq, HeadTailProperties, LenProperties
<1> HIDE DEF n, t
<1>2. \A i \in DOMAIN s : i = 1 \/ (i - 1 \in DOMAIN t /\ t[i - 1] = s[i])
  BY <1>1
<1>3. \A i \in DOMAIN t : i + 1 \in DOMAIN s /\ 1 < i + 1 /\ t[i] = s[i + 1]
  BY <1>1
<1>4. 1 \in DOMAIN s
  BY <1>1
<1>5. IdsOf(s) = {Head(s).id} \cup IdsOf(t)
  BY <1>1, <1>2, <1>3, <1>4 DEF IdsOf
<1>6. ToSet(s) = {Head(s)} \cup ToSet(t)
  <2>1. \A i \in DOMAIN s : s[i] \in {s[1]} \cup ToSet(t)
    BY <1>2 DEF ToSet
  <2>2. s[1] \in ToSet(s) /\ \A i \in DOMAIN t : t[i] \in ToSet(s)
    BY <1>3, <1>4 DEF ToSet
  <2> QED
    BY <1>1, <2>1, <2>2 DEF ToSet
<1>7. ASSUME Ordered(s)
      PROVE  Ordered(t) /\ Below({Head(s).id}, IdsOf(t))
  <2>1. ASSUME NEW i \in DOMAIN t, NEW j \in DOMAIN t, i < j
        PROVE  t[i].id < t[j].id
    <3>1. i + 1 < j + 1
      BY <1>1, <2>1
    <3> QED
      BY <1>3, <1>7, <3>1 DEF Ordered
  <2>2. \A i \in DOMAIN t : s[1].id < t[i].id
    BY <1>3, <1>4, <1>7 DEF Ordered
  <2> QED
    BY <1>1, <2>1, <2>2 DEF Ordered, Below, IdsOf
<1> QED
  BY <1>5, <1>6, <1>7 DEF t
-----------------------------------------------------------------------------
(* The steps keep the order.                                               *)

\* All the numbers are numbers.
LEMMA IdTypes ==
    ASSUME NEW S \in {Flow, Decision}, NEW s \in Seq(S)
    PROVE  IdsOf(s) \subseteq 1 .. MaxFlows
<1>1. \A i \in DOMAIN s : s[i] \in S
  BY LenProperties, ElementOfSeq
<1>2. (\A x \in Flow : x.id \in 1 .. MaxFlows) /\ \A x \in Decision : x.id \in 1 .. MaxFlows
  BY DEF Flow, Decision
<1>3. \A x \in S : x.id \in 1 .. MaxFlows
  BY <1>2
<1> QED
  BY <1>1, <1>3 DEF IdsOf

LEMMA PipelineIds ==
    ASSUME TypeInv
    PROVE  /\ IdsOf(log) \subseteq Int /\ IdsOf(decision) \subseteq Int
           /\ IdsOf(action_queue) \subseteq Int /\ IdsOf(flow) \subseteq Int
           /\ IdsOf(feature_queue) \subseteq Int /\ arrived \in Nat
<1>1. /\ IdsOf(log) \subseteq Int /\ IdsOf(action_queue) \subseteq Int
      /\ IdsOf(feature_queue) \subseteq Int
  BY IdTypes DEF TypeInv, QueueTypes
<1>2. IdsOf(decision) \subseteq Int
  <2>1. CASE decision = <<>>
    BY <2>1, ShortIds
  <2>2. ASSUME NEW d \in Decision, decision = <<d>>
        PROVE  IdsOf(decision) \subseteq Int
    BY <2>2, ShortIds DEF Decision
  <2> QED
    BY <2>1, <2>2 DEF TypeInv, Taken
<1>3. IdsOf(flow) \subseteq Int
  <2>1. CASE flow = <<>>
    BY <2>1, ShortIds
  <2>2. ASSUME NEW f \in Flow, flow = <<f>>
        PROVE  IdsOf(flow) \subseteq Int
    BY <2>2, ShortIds DEF Flow
  <2> QED
    BY <2>1, <2>2 DEF TypeInv, Taken
<1> QED
  BY <1>1, <1>2, <1>3 DEF TypeInv, QueueTypes

\* put_nowait gives the flow it appends the next number.
LEMMA AppendedFlow ==
    ASSUME TypeInv, NEW p \in Putters, NEW ip \in IPs, NEW low \in BOOLEAN, PutAppend(p, ip, low)
    PROVE  \E new \in Flow : /\ new.id = arrived + 1 /\ arrived' = arrived + 1
                             /\ feature_queue' = Append(feature_queue, new)
<1> DEFINE new == [id |-> arrived + 1, ip |-> ip, low |-> low]
<1>1. TypeInv'
  BY PutKeepsTypes DEF PutProgress
<1>2. arrived' = arrived + 1 /\ feature_queue' = Append(feature_queue, new)
  BY DEF PutAppend
<1>3. new \in Flow
  BY <1>1, <1>2, SizesAssumption DEF TypeInv, QueueTypes, Flow
<1> QED
  BY <1>2, <1>3

LEMMA PutKeepsOrder ==
    ASSUME TypeInv, OrderInv, PutSteps
    PROVE  OrderInv'
<1>1. UNCHANGED <<log, decision, action_queue, flow>>
  BY DEF PutSteps, PutCheck, PutProgress, PutAppend, PutWake
<1>2. CASE feature_queue' = feature_queue /\ arrived' \in {arrived, arrived + 1}
  BY <1>1, <1>2, PipelineIds DEF OrderInv
<1>3. ASSUME NEW new \in Flow, new.id = arrived + 1, arrived' = arrived + 1,
             feature_queue' = Append(feature_queue, new)
      PROVE  OrderInv'
  <2>1. Below(IdsOf(feature_queue), {new.id})
    BY <1>3, PipelineIds DEF OrderInv, Below
  <2>2. /\ IdsOf(feature_queue') = IdsOf(feature_queue) \cup {new.id}
        /\ Ordered(feature_queue')
    BY <1>3, <2>1, AppendIds, AppendOrdered DEF OrderInv, TypeInv, QueueTypes
  <2>3. Below(IdsOf(log) \cup IdsOf(decision) \cup IdsOf(action_queue) \cup IdsOf(flow),
              IdsOf(feature_queue'))
    BY <1>3, <2>2, PipelineIds DEF OrderInv, Below
  <2> QED
    BY <1>1, <1>3, <2>2, <2>3, PipelineIds DEF OrderInv
<1>4. ASSUME NEW p \in Putters, PutCheck(p) \/ PutWake(p)
      PROVE  feature_queue' = feature_queue /\ arrived' \in {arrived, arrived + 1}
  BY <1>4 DEF PutCheck, PutWake
<1> QED
  BY <1>2, <1>3, <1>4, AppendedFlow DEF PutSteps, PutProgress

LEMMA ClassifierKeepsOrder ==
    ASSUME TypeInv, OrderInv, ClassifierProgress \/ Timeout
    PROVE  OrderInv'
<1>1. CASE Register \/ Wake \/ Timeout
  BY <1>1 DEF Register, Wake, Timeout, OrderInv
<1>2. CASE Get
  <2>1. CASE UNCHANGED <<feature_queue, flow>>
    BY <1>2, <2>1 DEF Get, OrderInv
  <2>2. CASE /\ feature_queue # <<>> /\ flow' = <<Head(feature_queue)>>
             /\ feature_queue' = Tail(feature_queue)
    <3>1. flow = <<>> /\ IdsOf(flow) = {}
      BY <1>2, ShortIds DEF Get, TypeInv, Taken
    <3>2. /\ IdsOf(flow') = {Head(feature_queue).id}
          /\ IdsOf(feature_queue) = IdsOf(flow') \cup IdsOf(feature_queue')
          /\ Ordered(feature_queue') /\ Below(IdsOf(flow'), IdsOf(feature_queue'))
      <4> DEFINE h == Head(feature_queue)
      <4>1. feature_queue \in Seq(Flow) /\ Ordered(feature_queue)
        BY DEF OrderInv, TypeInv, QueueTypes
      <4>2. /\ IdsOf(feature_queue) = {h.id} \cup IdsOf(feature_queue')
            /\ Ordered(feature_queue') /\ Below({h.id}, IdsOf(feature_queue'))
        BY <2>2, <4>1, TailIds
      <4>3. flow' = <<h>>
        BY <2>2
      <4> HIDE DEF h
      <4>4. IdsOf(flow') = {h.id}
        BY <4>3, ShortIds
      <4> QED
        BY <4>2, <4>4 DEF h
    <3>3. UNCHANGED <<arrived, action_queue, decision, log>>
      BY <1>2 DEF Get
    <3> QED
      BY <3>1, <3>2, <3>3 DEF OrderInv, Below
  <2> QED
    BY <1>2, <2>1, <2>2 DEF Get
<1>3. CASE Classify
  <2>1. PICK f \in Flow, action \in Policy :
            /\ flow = <<f>> /\ flow' = <<>>
            /\ recent' = Remember(Verdict(f, action))
            /\ action_queue' = IF Len(action_queue) < ACTION_QUEUE_MAXSIZE
                               THEN Append(action_queue, Verdict(f, action))
                               ELSE action_queue
    BY <1>3, ClassifyEffect
  <2> DEFINE d == Verdict(f, action)
  <2>2. d \in Decision /\ d.id = f.id
    BY VerdictType DEF Verdict
  <2>3. IdsOf(flow) = {f.id} /\ IdsOf(flow') = {}
    BY <2>1, ShortIds
  <2>4. UNCHANGED <<arrived, feature_queue, decision, log>>
    BY <1>3 DEF Classify
  <2> HIDE DEF d
  <2>5. CASE action_queue' = Append(action_queue, d)
    <3>1. Below(IdsOf(action_queue), {d.id})
      BY <2>2, <2>3 DEF OrderInv, Below
    <3>2. /\ IdsOf(action_queue') = IdsOf(action_queue) \cup {f.id}
          /\ Ordered(action_queue')
      BY <2>2, <2>5, <3>1, AppendIds, AppendOrdered DEF OrderInv, TypeInv, QueueTypes
    <3> QED
      BY <2>3, <2>4, <3>2 DEF OrderInv, Below
  <2>6. CASE action_queue' = action_queue
    BY <2>3, <2>4, <2>6 DEF OrderInv, Below
  <2> QED
    BY <2>1, <2>5, <2>6 DEF d
<1>4. CASE ClassifyFails
  <2>1. /\ flow' = <<>> /\ IdsOf(flow') = {}
        /\ UNCHANGED <<arrived, feature_queue, action_queue, decision, log>>
    BY <1>4, ShortIds DEF ClassifyFails
  <2> QED
    BY <2>1 DEF OrderInv, Below
<1> QED
  BY <1>1, <1>2, <1>3, <1>4 DEF ClassifierProgress

LEMMA EnforcerKeepsOrder ==
    ASSUME TypeInv, OrderInv, EnforcerProgress
    PROVE  OrderInv'
<1>1. CASE TakeDecision
  <2>1. /\ decision = <<>> /\ action_queue # <<>>
        /\ decision' = <<Head(action_queue)>> /\ action_queue' = Tail(action_queue)
        /\ UNCHANGED <<arrived, feature_queue, flow, log>>
    BY <1>1 DEF TakeDecision
  <2>2. /\ IdsOf(decision) = {} /\ IdsOf(decision') = {Head(action_queue).id}
        /\ IdsOf(action_queue) = IdsOf(decision') \cup IdsOf(action_queue')
        /\ Ordered(action_queue') /\ Below(IdsOf(decision'), IdsOf(action_queue'))
    <3> DEFINE h == Head(action_queue)
    <3>1. action_queue \in Seq(Decision) /\ Ordered(action_queue)
      BY DEF OrderInv, TypeInv, QueueTypes
    <3>2. /\ IdsOf(action_queue) = {h.id} \cup IdsOf(action_queue')
          /\ Ordered(action_queue') /\ Below({h.id}, IdsOf(action_queue'))
      BY <2>1, <3>1, TailIds
    <3>3. decision' = <<h>>
      BY <2>1
    <3> HIDE DEF h
    <3>4. IdsOf(decision') = {h.id} /\ IdsOf(decision) = {}
      BY <2>1, <3>3, ShortIds
    <3> QED
      BY <3>2, <3>4 DEF h
  <2> QED
    BY <2>1, <2>2 DEF OrderInv, Below
<1>2. CASE Enforce
  <2>1. PICK d \in Decision :
            /\ decision = <<d>> /\ decision' = <<>>
            /\ table' \in Applied(d)
            /\ log' = Append(log, d)
            /\ log \in Seq(Decision)
    BY <1>2, EnforceEffect
  <2>2. IdsOf(decision) = {d.id} /\ IdsOf(decision') = {}
    BY <2>1, ShortIds
  <2>3. /\ IdsOf(log') = IdsOf(log) \cup {d.id}
        /\ Ordered(log')
    BY <2>1, <2>2, AppendIds, AppendOrdered DEF OrderInv
  <2>4. UNCHANGED <<arrived, feature_queue, flow, action_queue>>
    BY <1>2 DEF Enforce
  <2> QED
    BY <2>2, <2>3, <2>4 DEF OrderInv, Below
<1> QED
  BY <1>1, <1>2 DEF EnforcerProgress

LEMMA OthersKeepOrder ==
    ASSUME TypeInv, OrderInv, Stop \/ \E ip \in IPs : Withdraw(ip)
    PROVE  OrderInv'
<1>1. CASE Stop
  <2>1. /\ IdsOf(flow') = {} /\ IdsOf(decision') = {}
        /\ UNCHANGED <<arrived, feature_queue, action_queue, log>>
    BY <1>1, ShortIds DEF Stop
  <2> QED
    BY <2>1 DEF OrderInv, Below
<1>2. CASE \E ip \in IPs : Withdraw(ip)
  BY <1>2 DEF Withdraw, OrderInv
<1> QED
  BY <1>1, <1>2

LEMMA OrderInvHolds == Spec => []OrderInv
<1>1. Init => OrderInv
  BY ShortIds DEF Init, OrderInv, Below
<1>2. TypeInv /\ OrderInv /\ [Next]_vars => OrderInv'
  <2> SUFFICES ASSUME TypeInv, OrderInv, [Next]_vars
               PROVE  OrderInv'
    OBVIOUS
  <2>1. CASE UNCHANGED vars
    BY <2>1 DEF vars, OrderInv
  <2> QED
    BY <2>1, Steps, PutKeepsOrder, ClassifierKeepsOrder, EnforcerKeepsOrder, OthersKeepOrder
<1> QED
  BY <1>1, <1>2, TypeInvHolds, PTL DEF Spec
-----------------------------------------------------------------------------
(* In order.                                                               *)

Increasing(s) == \A i, j \in DOMAIN s : i < j => s[i] < s[j]

LEMMA ConcatIncreasing ==
    ASSUME NEW s \in Seq(Int), NEW t \in Seq(Int),
           Increasing(s), Increasing(t), Below(ToSet(s), ToSet(t))
    PROVE  /\ s \o t \in Seq(Int) /\ Increasing(s \o t)
           /\ ToSet(s \o t) = ToSet(s) \cup ToSet(t)
<1> DEFINE m == Len(s)
           n == Len(t)
           st == s \o t
<1>1. /\ m \in Nat /\ n \in Nat /\ DOMAIN s = 1 .. m /\ DOMAIN t = 1 .. n
      /\ st \in Seq(Int) /\ DOMAIN st = 1 .. m + n
      /\ \A i \in 1 .. m + n : st[i] = IF i <= m THEN s[i] ELSE t[i - m]
  BY LenProperties, ConcatProperties
<1> HIDE DEF m, n, st
<1>2. \A i \in DOMAIN st : \/ i \in DOMAIN s /\ st[i] = s[i] /\ i <= m
                           \/ i - m \in DOMAIN t /\ st[i] = t[i - m] /\ i > m
  BY <1>1
<1>3. /\ \A i \in DOMAIN s : i \in DOMAIN st /\ st[i] = s[i]
      /\ \A i \in DOMAIN t : i + m \in DOMAIN st /\ st[i + m] = t[i]
  <2>1. \A i \in DOMAIN s : i \in DOMAIN st /\ st[i] = s[i]
    BY <1>1
  <2>2. ASSUME NEW i \in DOMAIN t
        PROVE  i + m \in DOMAIN st /\ st[i + m] = t[i]
    <3>1. i + m \in 1 .. m + n /\ ~(i + m <= m) /\ (i + m) - m = i
      BY <1>1
    <3> QED
      BY <1>1, <3>1
  <2> QED
    BY <2>1, <2>2
<1>4. ToSet(st) = ToSet(s) \cup ToSet(t)
  BY <1>2, <1>3 DEF ToSet
<1>5. Increasing(st)
  <2> SUFFICES ASSUME NEW i \in DOMAIN st, NEW j \in DOMAIN st, i < j
               PROVE  st[i] < st[j]
    BY DEF Increasing
  <2>1. i \in Int /\ j \in Int
    BY <1>1
  <2>2. CASE j <= m
    <3>1. i \in DOMAIN s /\ j \in DOMAIN s /\ st[i] = s[i] /\ st[j] = s[j]
      BY <1>1, <1>2, <2>1, <2>2
    <3> QED
      BY <3>1 DEF Increasing
  <2>3. CASE i <= m /\ j > m
    <3>1. i \in DOMAIN s /\ st[i] = s[i]
      BY <1>1, <1>2, <2>1, <2>3
    <3>2. j - m \in DOMAIN t /\ st[j] = t[j - m]
      BY <1>1, <1>2, <2>1, <2>3
    <3>3. st[i] \in ToSet(s) /\ st[j] \in ToSet(t)
      BY <3>1, <3>2 DEF ToSet
    <3> QED
      BY <3>3 DEF Below
  <2>4. CASE i > m
    <3>1. /\ i - m \in DOMAIN t /\ j - m \in DOMAIN t /\ i - m < j - m
          /\ st[i] = t[i - m] /\ st[j] = t[j - m]
      BY <1>1, <1>2, <2>1, <2>4
    <3> QED
      BY <3>1 DEF Increasing
  <2> QED
    BY <1>1, <2>1, <2>2, <2>3, <2>4
<1> QED
  BY <1>1, <1>4, <1>5 DEF st

LEMMA IdsIncreasing ==
    ASSUME NEW S \in {Flow, Decision}, NEW s \in Seq(S)
    PROVE  /\ Ids(s) \in Seq(Int) /\ ToSet(Ids(s)) = IdsOf(s)
           /\ Ordered(s) => Increasing(Ids(s))
<1>1. DOMAIN Ids(s) = DOMAIN s /\ \A i \in DOMAIN s : Ids(s)[i] = s[i].id
  BY DEF Ids
<1>2. \A i \in DOMAIN s : s[i].id \in Int
  BY IdTypes DEF IdsOf
<1>3. Len(s) \in Nat /\ DOMAIN s = 1 .. Len(s)
  BY LenProperties
<1>4. Ids(s) \in [1 .. Len(s) -> Int]
  BY <1>2, <1>3 DEF Ids
<1>5. Ids(s) \in Seq(Int)
  BY <1>3, <1>4, SeqDef
<1> QED
  BY <1>1, <1>5 DEF ToSet, IdsOf, Ordered, Increasing

\* Decisions are applied and logged in the order in which the queue took the flows,
\* each flow at most once (main.py's two loops), although put_nowait drops
\* flows and decisions, iterations fail, and campaigns put from other threads.
THEOREM OrderSound == Spec => []InOrder
<1>1. TypeInv /\ OrderInv => InOrder
  <2> SUFFICES ASSUME TypeInv, OrderInv
               PROVE  InOrder
    OBVIOUS
  <2> DEFINE a == Ids(log)
             b == Ids(decision)
             c == Ids(action_queue)
             d == Ids(flow)
             e == Ids(feature_queue)
  <2>1. /\ a \in Seq(Int) /\ ToSet(a) = IdsOf(log) /\ Increasing(a)
        /\ c \in Seq(Int) /\ ToSet(c) = IdsOf(action_queue) /\ Increasing(c)
        /\ e \in Seq(Int) /\ ToSet(e) = IdsOf(feature_queue) /\ Increasing(e)
    BY IdsIncreasing DEF TypeInv, QueueTypes, OrderInv
  <2>2. b \in Seq(Int) /\ ToSet(b) = IdsOf(decision) /\ Increasing(b)
    <3>1. decision \in Seq(Decision) /\ Ordered(decision)
      <4>1. CASE decision = <<>>
        BY <4>1, EmptyQueues DEF Ordered
      <4>2. ASSUME NEW x \in Decision, decision = <<x>>
            PROVE  decision \in Seq(Decision) /\ Ordered(decision)
        BY <4>2 DEF Ordered
      <4> QED
        BY <4>1, <4>2 DEF TypeInv, Taken
    <3> QED
      BY <3>1, IdsIncreasing
  <2>3. d \in Seq(Int) /\ ToSet(d) = IdsOf(flow) /\ Increasing(d)
    <3>1. flow \in Seq(Flow) /\ Ordered(flow)
      <4>1. CASE flow = <<>>
        BY <4>1, EmptyQueues DEF Ordered
      <4>2. ASSUME NEW x \in Flow, flow = <<x>>
            PROVE  flow \in Seq(Flow) /\ Ordered(flow)
        BY <4>2 DEF Ordered
      <4> QED
        BY <4>1, <4>2 DEF TypeInv, Taken
    <3> QED
      BY <3>1, IdsIncreasing
  <2> DEFINE ab   == a \o b
             abc  == ab \o c
             abcd == abc \o d
  <2>4. InFlight = abcd \o e
    BY DEF InFlight
  <2> HIDE DEF a, b, c, d, e
  <2>5. ab \in Seq(Int) /\ Increasing(ab) /\ ToSet(ab) = IdsOf(log) \cup IdsOf(decision)
    BY <2>1, <2>2, ConcatIncreasing DEF OrderInv
  <2> HIDE DEF ab
  <2>6. /\ abc \in Seq(Int) /\ Increasing(abc)
        /\ ToSet(abc) = IdsOf(log) \cup IdsOf(decision) \cup IdsOf(action_queue)
    <3>1. Below(ToSet(ab), ToSet(c))
      BY <2>1, <2>5 DEF OrderInv
    <3> QED
      BY <2>1, <2>5, <3>1, ConcatIncreasing
  <2> HIDE DEF abc
  <2>7. /\ abcd \in Seq(Int) /\ Increasing(abcd)
        /\ ToSet(abcd) = IdsOf(log) \cup IdsOf(decision) \cup IdsOf(action_queue) \cup IdsOf(flow)
    <3>1. Below(ToSet(abc), ToSet(d))
      BY <2>3, <2>6 DEF OrderInv
    <3> QED
      BY <2>3, <2>6, <3>1, ConcatIncreasing
  <2> HIDE DEF abcd
  <2>8. Increasing(abcd \o e)
    <3>1. Below(ToSet(abcd), ToSet(e))
      BY <2>1, <2>7 DEF OrderInv
    <3> QED
      BY <2>1, <2>7, <3>1, ConcatIncreasing
  <2> QED
    BY <2>4, <2>8 DEF InOrder, Increasing
<1> QED
  BY <1>1, TypeInvHolds, OrderInvHolds, PTL
-----------------------------------------------------------------------------
(* Self-healing.                                                           *)

HealInv == MemoryInv /\ Healed

LEMMA DecidedTypes ==
    ASSUME TypeInv
    PROVE  /\ Decided \subseteq Decision
           /\ \A d \in Decision : d.id \in Int
           /\ \A d \in Decided : d.id \in IdsOf(log) \cup IdsOf(decision) \cup IdsOf(action_queue)
<1>1. \A d \in Decision : d.id \in Int
  BY DEF Decision
<1>2. ToSet(log) \subseteq Decision /\ ToSet(action_queue) \subseteq Decision
  BY LenProperties, ElementOfSeq DEF TypeInv, QueueTypes, ToSet
<1>3. ToSet(decision) \subseteq Decision
  BY ShortIds DEF TypeInv, Taken
<1>4. \A d \in Decided : d.id \in IdsOf(log) \cup IdsOf(decision) \cup IdsOf(action_queue)
  BY DEF Decided, ToSet, IdsOf
<1> QED
  BY <1>1, <1>2, <1>3, <1>4 DEF Decided

LEMMA RecentTypes ==
    ASSUME TypeInv
    PROVE  /\ Len(recent) \in Nat /\ DOMAIN recent = 1 .. Len(recent)
           /\ \A i \in 1 .. Len(recent) : recent[i] \in Decision /\ recent[i].id \in Int
BY LenProperties, ElementOfSeq, DecidedTypes DEF TypeInv, Memory

\* Only the classifier's loop decides and remembers.
LEMMA UndecidedKeepsHeal ==
    ASSUME TypeInv, HealInv, recent' = recent, Decided' \subseteq Decided,
           arrived' \in {arrived, arrived + 1},
           IdsOf(flow') \cup IdsOf(feature_queue')
               \subseteq IdsOf(flow) \cup IdsOf(feature_queue) \cup {arrived + 1}
    PROVE  HealInv'
<1>1. Below(IdsOf(recent), IdsOf(flow') \cup IdsOf(feature_queue'))
  BY PipelineIds DEF HealInv, MemoryInv, Below
<1>2. IdsOf(recent) \subseteq 1 .. arrived'
  BY PipelineIds DEF HealInv, MemoryInv
<1>3. MemoryInv'
  BY <1>1, <1>2 DEF HealInv, MemoryInv
<1>4. Healed'
  BY DEF HealInv, Healed
<1> QED
  BY <1>3, <1>4 DEF HealInv

LEMMA UndecidedSteps ==
    ASSUME TypeInv, [Next]_vars, ~Classify
    PROVE  /\ recent' = recent /\ Decided' \subseteq Decided
           /\ arrived' \in {arrived, arrived + 1}
           /\ IdsOf(flow') \cup IdsOf(feature_queue')
                 \subseteq IdsOf(flow) \cup IdsOf(feature_queue) \cup {arrived + 1}
<1> DEFINE Goal == /\ recent' = recent /\ Decided' \subseteq Decided
                   /\ arrived' \in {arrived, arrived + 1}
                   /\ IdsOf(flow') \cup IdsOf(feature_queue')
                         \subseteq IdsOf(flow) \cup IdsOf(feature_queue) \cup {arrived + 1}
<1>1. CASE PutSteps
  <2>1. UNCHANGED <<flow, recent, action_queue, decision, log>>
    BY <1>1 DEF PutSteps, PutCheck, PutProgress, PutAppend, PutWake
  <2>2. CASE feature_queue' = feature_queue /\ arrived' \in {arrived, arrived + 1}
    BY <2>1, <2>2 DEF Decided
  <2>3. ASSUME NEW new \in Flow, new.id = arrived + 1, arrived' = arrived + 1,
               feature_queue' = Append(feature_queue, new)
        PROVE  Goal
    <3>1. IdsOf(feature_queue') = IdsOf(feature_queue) \cup {new.id}
      BY <2>3, AppendIds DEF TypeInv, QueueTypes
    <3> QED
      BY <2>1, <2>3, <3>1 DEF Decided
  <2>4. ASSUME NEW p \in Putters, PutCheck(p) \/ PutWake(p)
        PROVE  feature_queue' = feature_queue /\ arrived' \in {arrived, arrived + 1}
    BY <2>4 DEF PutCheck, PutWake
  <2>5. ASSUME NEW p \in Putters, NEW ip \in IPs, NEW low \in BOOLEAN, PutAppend(p, ip, low)
        PROVE  Goal
    <3>1. PICK new \in Flow : /\ new.id = arrived + 1 /\ arrived' = arrived + 1
                              /\ feature_queue' = Append(feature_queue, new)
      BY <2>5, AppendedFlow
    <3> HIDE DEF Goal
    <3> QED
      BY <3>1, <2>3
  <2>6. PICK p \in Putters : PutCheck(p) \/ PutProgress(p)
    BY <1>1 DEF PutSteps
  <2>7. CASE PutCheck(p) \/ PutWake(p)
    <3>1. feature_queue' = feature_queue /\ arrived' \in {arrived, arrived + 1}
      BY <2>7, <2>4
    <3> QED
      BY <3>1, <2>2
  <2>8. CASE \E ip \in IPs, low \in BOOLEAN : PutAppend(p, ip, low)
    <3>1. PICK ip \in IPs, low \in BOOLEAN : PutAppend(p, ip, low)
      BY <2>8
    <3> HIDE DEF Goal
    <3>2. Goal
      BY <3>1, <2>5
    <3> QED
      BY <3>2 DEF Goal
  <2> QED
    BY <2>6, <2>7, <2>8 DEF PutProgress
<1>2. CASE Register \/ Wake \/ Timeout \/ (\E ip \in IPs : Withdraw(ip)) \/ UNCHANGED vars
  BY <1>2 DEF Register, Wake, Timeout, Withdraw, vars, Decided
<1>3. CASE Get
  <2>1. UNCHANGED <<arrived, recent, action_queue, decision, log>>
    BY <1>3 DEF Get
  <2>2. CASE UNCHANGED <<feature_queue, flow>>
    BY <2>1, <2>2 DEF Decided
  <2>3. CASE /\ feature_queue # <<>> /\ flow' = <<Head(feature_queue)>>
             /\ feature_queue' = Tail(feature_queue)
    <3> DEFINE h == Head(feature_queue)
    <3>1. IdsOf(feature_queue) = {h.id} \cup IdsOf(feature_queue')
      BY <2>3, TailIds DEF TypeInv, QueueTypes
    <3>2. flow' = <<h>>
      BY <2>3
    <3> HIDE DEF h
    <3>3. IdsOf(flow') = {h.id}
      BY <3>2, ShortIds
    <3> QED
      BY <2>1, <3>1, <3>3 DEF Decided
  <2> QED
    BY <1>3, <2>2, <2>3 DEF Get
<1>4. CASE ClassifyFails \/ Stop
  <2>1. /\ flow' = <<>> /\ decision' \in {decision, <<>>}
        /\ UNCHANGED <<arrived, feature_queue, recent, action_queue, log>>
    BY <1>4 DEF ClassifyFails, Stop
  <2>2. IdsOf(flow') = {} /\ ToSet(decision') \subseteq ToSet(decision)
    BY <2>1, ShortIds
  <2> QED
    BY <2>1, <2>2 DEF Decided
<1>5. CASE TakeDecision
  <2> DEFINE h == Head(action_queue)
  <2>1. /\ action_queue # <<>>
        /\ decision' = <<h>> /\ action_queue' = Tail(action_queue)
        /\ UNCHANGED <<arrived, feature_queue, flow, recent, log>>
    BY <1>5 DEF TakeDecision
  <2>2. ToSet(action_queue) = {h} \cup ToSet(action_queue')
    BY <2>1, TailIds DEF TypeInv, QueueTypes
  <2> HIDE DEF h
  <2>3. ToSet(decision') = {h}
    BY <2>1, ShortIds
  <2> QED
    BY <2>1, <2>2, <2>3 DEF Decided
<1>6. CASE Enforce
  <2>1. PICK d \in Decision :
            /\ decision = <<d>> /\ decision' = <<>>
            /\ table' \in Applied(d)
            /\ log' = Append(log, d)
            /\ log \in Seq(Decision)
    BY <1>6, EnforceEffect
  <2>2. ToSet(decision) = {d} /\ ToSet(decision') = {}
    BY <2>1, ShortIds
  <2>3. ToSet(log') = ToSet(log) \cup {d}
    BY <2>1, AppendElements
  <2>4. UNCHANGED <<arrived, feature_queue, flow, recent, action_queue>>
    BY <1>6 DEF Enforce
  <2> QED
    BY <2>2, <2>3, <2>4 DEF Decided
<1> QED
  BY <1>1, <1>2, <1>3, <1>4, <1>5, <1>6, Steps
  DEF ClassifierProgress, EnforcerProgress

\* Remembering moves what is remembered by one place if the memory is full.
LEMMA RememberIndex ==
    ASSUME TypeInv, NEW d \in Decision
    PROVE  \E k \in {0, 1} :
              /\ k = 1 => Len(recent) = History
              /\ k = 0 => Len(recent) < History
              /\ DOMAIN Remember(d) = 1 .. Len(recent) + 1 - k
              /\ Len(Remember(d)) = Len(recent) + 1 - k
              /\ \A i \in 1 .. Len(recent) - k : Remember(d)[i] = recent[i + k]
              /\ Remember(d)[Len(recent) + 1 - k] = d
<1> DEFINE n   == Len(recent)
           all == Append(recent, d)
<1>1. /\ n \in Nat /\ all \in Seq(Decision) /\ all # <<>> /\ Len(all) = n + 1
      /\ \A i \in 1 .. n : all[i] = recent[i]
      /\ all[n + 1] = d
  BY AppendProperties, LenProperties DEF TypeInv, Memory
<1>2. \/ n < History /\ Remember(d) = all
      \/ n = History /\ Remember(d) = Tail(all)
  BY Remembered DEF TypeInv
<1> HIDE DEF n, all
<1>3. CASE n < History /\ Remember(d) = all
  <2>1. DOMAIN all = 1 .. n + 1
    BY <1>1, LenProperties
  <2>2. /\ 0 = 1 => n = History
        /\ 0 = 0 => n < History
        /\ DOMAIN Remember(d) = 1 .. n + 1 - 0
        /\ Len(Remember(d)) = n + 1 - 0
        /\ \A i \in 1 .. n - 0 : Remember(d)[i] = recent[i + 0]
        /\ Remember(d)[n + 1 - 0] = d
    BY <1>1, <1>3, <2>1, SizesAssumption
  <2> QED
    BY <2>2, Zenon DEF n
<1>4. CASE n = History /\ Remember(d) = Tail(all)
  <2>1. /\ Tail(all) \in Seq(Decision) /\ Len(Tail(all)) = n
        /\ \A i \in 1 .. n : Tail(all)[i] = all[i + 1]
    BY <1>1, HeadTailProperties
  <2>2. DOMAIN Tail(all) = 1 .. n
    BY <2>1, LenProperties
  <2>3. n \in 1 .. n /\ n + 1 - 1 = n /\ 1 .. n + 1 - 1 = 1 .. n
    BY <1>1, <1>4, SizesAssumption
  <2>4. \A i \in 1 .. n - 1 : Tail(all)[i] = recent[i + 1]
    BY <1>1, <2>1
  <2>5. Tail(all)[n + 1 - 1] = d
    BY <1>1, <2>1, <2>3
  <2>6. 1 = 0 => n < History
    OBVIOUS
  <2> QED
    BY <1>4, <2>1, <2>2, <2>3, <2>4, <2>5, <2>6, Zenon DEF n
<1> QED
  BY <1>2, <1>3, <1>4

LEMMA ClassifyKeepsMemory ==
    ASSUME TypeInv, OrderInv, HealInv, NEW d \in Decision,
           IdsOf(flow) = {d.id}, IdsOf(flow') = {}, recent' = Remember(d),
           UNCHANGED <<arrived, feature_queue>>,
           Decided' \subseteq Decided \cup {d}
    PROVE  MemoryInv'
<1> DEFINE n == Len(recent)
           r == recent'
<1>1. PICK k \in {0, 1} :
          /\ k = 1 => n = History
          /\ k = 0 => n < History
          /\ DOMAIN r = 1 .. n + 1 - k
          /\ Len(r) = n + 1 - k
          /\ \A i \in 1 .. n - k : r[i] = recent[i + k]
          /\ r[n + 1 - k] = d
  BY RememberIndex
<1>2. /\ n \in Nat /\ DOMAIN recent = 1 .. n /\ d.id \in Int
      /\ \A i \in 1 .. n : recent[i] \in Decision /\ recent[i].id \in Int
  BY RecentTypes, DecidedTypes
<1>3. /\ \A i, j \in 1 .. n : i <= j => j - i <= recent[j].id - recent[i].id
      /\ \A i \in 1 .. n : recent[i].id < d.id
  BY <1>2 DEF HealInv, MemoryInv, Below, IdsOf
<1> HIDE DEF n, r
<1>4. \A i \in DOMAIN r : \/ i \in 1 .. n - k /\ r[i] = recent[i + k] /\ i + k \in 1 .. n
                          \/ i = n + 1 - k /\ r[i] = d
  BY <1>1, <1>2
<1>5. ASSUME NEW i \in DOMAIN r, NEW j \in DOMAIN r, i <= j
      PROVE  j - i <= r[j].id - r[i].id
  <2>1. CASE i \in 1 .. n - k /\ j \in 1 .. n - k
    <3>0. i + k \in 1 .. n /\ j + k \in 1 .. n /\ i + k <= j + k
      BY <1>2, <1>5, <2>1
    <3>1. /\ i + k \in 1 .. n /\ j + k \in 1 .. n /\ i + k <= j + k
          /\ r[i] = recent[i + k] /\ r[j] = recent[j + k]
      BY <1>1, <2>1, <3>0
    <3>2. (j + k) - (i + k) <= recent[j + k].id - recent[i + k].id
      BY <1>3, <3>1
    <3>3. (j + k) - (i + k) = j - i
      BY <1>1, <2>1
    <3> QED
      BY <3>1, <3>2, <3>3
  <2>2. CASE i \in 1 .. n - k /\ j = n + 1 - k
    <3>1. /\ i + k \in 1 .. n /\ n \in 1 .. n /\ i + k <= n
          /\ r[i] = recent[i + k] /\ r[j] = d
      BY <1>1, <1>2, <2>2
    <3>2. n - (i + k) <= recent[n].id - recent[i + k].id /\ recent[n].id < d.id
      BY <1>3, <3>1
    <3>3. recent[n].id \in Int /\ recent[i + k].id \in Int
      BY <1>2, <3>1
    <3>4. n + 1 - (i + k) <= d.id - recent[i + k].id
      <4> DEFINE p == i + k
                 a == recent[i + k].id
                 b == recent[n].id
                 c == d.id
      <4>1. p \in Int /\ a \in Int /\ b \in Int /\ c \in Int /\ n \in Int
        BY <1>2, <3>1, <3>3
      <4>2. n - p <= b - a /\ b < c
        BY <3>2
      <4> HIDE DEF p, a, b, c
      <4>3. n + 1 - p <= c - a
        BY <4>1, <4>2
      <4> QED
        BY <4>3 DEF p, a, c
    <3>5. j - i = n + 1 - (i + k)
      BY <1>1, <1>2, <2>2
    <3> QED
      BY <3>1, <3>4, <3>5
  <2>3. CASE i = n + 1 - k /\ j = n + 1 - k
    BY <1>1, <1>2, <2>3
  <2> QED
    BY <1>1, <1>2, <1>5, <2>1, <2>2, <2>3
<1>6. IdsOf(r) \subseteq IdsOf(recent) \cup IdsOf(flow)
  BY <1>2, <1>4 DEF IdsOf
<1>7. Below(IdsOf(r), IdsOf(flow') \cup IdsOf(feature_queue')) /\ IdsOf(r) \subseteq 1 .. arrived'
  BY <1>6 DEF OrderInv, HealInv, MemoryInv, Below
<1>8. ASSUME NEW x \in Decided'
      PROVE  x \in ToSet(r) \/ (Len(r) = History /\ x.id < r[1].id)
  <2>1. CASE x = d
    <3>1. n + 1 - k \in DOMAIN r
      BY <1>1, <1>2, SizesAssumption
    <3> QED
      BY <1>1, <2>1, <3>1 DEF ToSet
  <2>2. CASE k = 0 /\ x \in Decided
    <3>0. Len(recent) # History
      <4>1. n < History
        BY <1>1, <2>2
      <4>2. n # History
        BY <1>2, <4>1, SizesAssumption
      <4> QED
        BY <4>2 DEF n
    <3>1. x \in ToSet(recent)
      BY <2>2, <3>0 DEF HealInv, MemoryInv
    <3>2. PICK i \in 1 .. n : x = recent[i]
      BY <1>2, <3>1 DEF ToSet
    <3>3. i \in DOMAIN r /\ r[i] = recent[i]
      BY <1>1, <1>2, <2>2
    <3> QED
      BY <3>2, <3>3 DEF ToSet
  <2>3. CASE k = 1 /\ x \in Decided
    <3>1. /\ n = History /\ Len(r) = History /\ 1 \in 1 .. n /\ 1 \in DOMAIN r
          /\ x.id \in Int
      BY <1>1, <1>2, <2>3, SizesAssumption, DecidedTypes
    <3>2. recent[1].id < r[1].id
      <4>1. CASE n = 1
        BY <1>1, <1>3, <2>3, <3>1, <4>1
      <4>2. CASE n > 1
        <5>1. r[1] = recent[2] /\ 2 \in 1 .. n
          BY <1>1, <1>2, <2>3, <4>2
        <5>2. 2 - 1 <= recent[2].id - recent[1].id
          BY <1>3, <3>1, <5>1
        <5> QED
          BY <1>2, <3>1, <5>1, <5>2
      <4> QED
        BY <1>2, <3>1, <4>1, <4>2
    <3>3. CASE x \in ToSet(recent)
      <4>1. PICK i \in 1 .. n : x = recent[i]
        BY <1>2, <3>3 DEF ToSet
      <4>2. CASE i = 1
        BY <3>1, <3>2, <4>1, <4>2
      <4>3. CASE i > 1
        <5>1. i - 1 \in 1 .. n - 1 /\ i - 1 \in DOMAIN r /\ (i - 1) + 1 = i
          BY <1>1, <1>2, <2>3, <4>3
        <5>2. r[i - 1] = x
          BY <1>1, <2>3, <4>1, <5>1
        <5> QED
          BY <5>1, <5>2 DEF ToSet
      <4> QED
        BY <1>2, <4>2, <4>3
    <3>4. CASE x.id < recent[1].id
      <4>1. recent[1].id \in Int /\ r[1].id \in Int
        BY <1>2, <1>4, <3>1
      <4> QED
        BY <3>1, <3>2, <3>4, <4>1
    <3> QED
      BY <2>3, <3>3, <3>4 DEF HealInv, MemoryInv
  <2> QED
    BY <1>1, <1>8, <2>1, <2>2, <2>3
<1> QED
  BY <1>5, <1>7, <1>8 DEF MemoryInv, r

\* Two blocks in memory are enough for the agent to see that the address was
\* blocked twice.
LEMMA TwoBlocks ==
    ASSUME TypeInv, NEW ip, NEW i \in Blocked(ip), NEW j \in Blocked(ip), i # j
    PROVE  Cardinality(Blocked(ip)) >= 2
<1>1. /\ IsFiniteSet(Blocked(ip)) /\ Cardinality(Blocked(ip)) \in Nat
  <2>1. Blocked(ip) \subseteq 1 .. Len(recent) /\ Len(recent) \in Nat
    BY RecentTypes DEF Blocked
  <2>2. IsFiniteSet(1 .. Len(recent))
    BY <2>1, FS_Interval
  <2> QED
    BY <2>1, <2>2, FS_Subset, FS_CardinalityType
<1>2. IsFiniteSet({i}) /\ Cardinality({i}) = 1
  BY FS_Singleton
<1>3. IsFiniteSet({i} \cup {j}) /\ Cardinality({i} \cup {j}) = 2
  BY <1>2, FS_AddElement
<1>4. Cardinality({i} \cup {j}) <= Cardinality(Blocked(ip))
  BY <1>1, FS_Subset
<1> QED
  BY <1>1, <1>3, <1>4

\* The third block within reach of the memory is not decided.
LEMMA ClassifyKeepsHealed ==
    ASSUME TypeInv, OrderInv, HealInv, NEW f \in Flow, NEW action \in Actions,
           flow = <<f>>,
           Decided' \subseteq Decided \cup {Verdict(f, action)}
    PROVE  Healed'
<1> DEFINE v == Verdict(f, action)
<1>1. /\ v.id = f.id /\ v.ip = f.ip /\ v.low = f.low /\ v.action = Heal(f, action)
      /\ f.id \in Int
  BY DEF Verdict, Flow
<1> HIDE DEF v
<1>2. \A x \in Decided : x.id \in Int /\ x.id < f.id
  <2>1. IdsOf(flow) = {f.id}
    BY ShortIds
  <2> QED
    BY <2>1, DecidedTypes DEF OrderInv, Below
<1>3. ASSUME NEW x \in Decided, f.id - x.id <= History
      PROVE  x \in ToSet(recent)
  <2> SUFFICES ASSUME Len(recent) = History, x.id < recent[1].id
               PROVE  FALSE
    BY <1>3 DEF HealInv, MemoryInv
  <2> DEFINE n == Len(recent)
             a == recent[1].id
             b == recent[n].id
             c == x.id
             g == f.id
  <2>1. n \in Nat \ {0} /\ n = History /\ 1 \in 1 .. n /\ n \in 1 .. n
    BY SizesAssumption
  <2>2. n - 1 <= b - a
    BY <2>1, RecentTypes DEF HealInv, MemoryInv
  <2>3. b < g
    <3>1. b \in IdsOf(recent) /\ g \in IdsOf(flow)
      BY <2>1, RecentTypes, ShortIds DEF IdsOf
    <3> QED
      BY <3>1 DEF HealInv, MemoryInv, Below
  <2>4. a \in Int /\ b \in Int /\ c \in Int /\ g \in Int
    BY <1>1, <1>2, <2>1, RecentTypes
  <2>5. c < a /\ g - c <= n
    BY <1>3, <2>1
  <2> HIDE DEF n, a, b, c, g
  <2> QED
    BY <2>1, <2>2, <2>3, <2>4, <2>5
<1>4. ASSUME NEW x \in Decided, NEW y \in Decided, x.id < y.id, f.id - x.id <= History,
             x.ip = f.ip, y.ip = f.ip, x.action \in Block, y.action \in Block, f.low
      PROVE  v.action \notin Block
  <2>1. f.id - y.id <= History
    BY <1>1, <1>2, <1>4, SizesAssumption
  <2>2. PICK i \in DOMAIN recent : recent[i] = x
    BY <1>3, <1>4 DEF ToSet
  <2>3. PICK j \in DOMAIN recent : recent[j] = y
    BY <1>3, <2>1 DEF ToSet
  <2>4. i \in Blocked(f.ip) /\ j \in Blocked(f.ip)
    BY <1>4, <2>2, <2>3 DEF Blocked
  <2>5. i # j
    BY <1>2, <1>4, <2>2, <2>3
  <2>6. Cardinality(Blocked(f.ip)) >= 2
    BY <2>4, <2>5, TwoBlocks
  <2>7. action \notin Block => Heal(f, action) = action
    BY DEF Heal
  <2>8. action \in Block => Heal(f, action) = "REMOVE_RULE"
    BY <1>4, <2>6 DEF Heal
  <2> QED
    BY <1>1, <2>7, <2>8 DEF Block
<1>5. SUFFICES ASSUME NEW x \in Decided', NEW y \in Decided', NEW z \in Decided',
                      x.id < y.id, y.id < z.id, z.id - x.id <= History,
                      x.ip = z.ip, y.ip = z.ip,
                      {x.action, y.action, z.action} \subseteq Block,
                      z.low
               PROVE  FALSE
  BY DEF Healed
<1>6. \A w \in Decided' : w \in Decided \/ w = v
  BY DEF v
<1>7. CASE z \in Decided
  <2>1. x \in Decided /\ y \in Decided
    BY <1>1, <1>2, <1>5, <1>6, <1>7
  <2> QED
    BY <1>5, <1>7, <2>1 DEF HealInv, Healed
<1>8. CASE z = v
  <2>1. x \in Decided /\ y \in Decided
    BY <1>1, <1>2, <1>5, <1>6, <1>8
  <2> QED
    BY <1>1, <1>4, <1>5, <1>8, <2>1
<1> QED
  BY <1>6, <1>7, <1>8

LEMMA ClassifyKeepsHeal ==
    ASSUME TypeInv, OrderInv, HealInv, Classify
    PROVE  HealInv'
<1>1. PICK f \in Flow, action \in Policy :
          /\ flow = <<f>> /\ flow' = <<>>
          /\ recent' = Remember(Verdict(f, action))
          /\ action_queue' = IF Len(action_queue) < ACTION_QUEUE_MAXSIZE
                             THEN Append(action_queue, Verdict(f, action))
                             ELSE action_queue
  BY ClassifyEffect
<1> DEFINE d == Verdict(f, action)
<1>2. d \in Decision /\ d.id = f.id
  BY VerdictType DEF Verdict
<1>3. IdsOf(flow) = {f.id} /\ IdsOf(flow') = {}
  BY <1>1, ShortIds
<1>4. UNCHANGED <<arrived, feature_queue, decision, log>>
  BY DEF Classify
<1>5. recent' = Remember(d)
  BY <1>1
<1>6. ToSet(action_queue') \subseteq ToSet(action_queue) \cup {d}
  <2>1. CASE action_queue' = Append(action_queue, d)
    <3>1. action_queue \in Seq(Decision)
      BY DEF TypeInv, QueueTypes
    <3> HIDE DEF d
    <3> QED
      BY <1>2, <2>1, <3>1, AppendElements
  <2> QED
    BY <1>1, <2>1
<1> HIDE DEF d
<1>7. Decided' \subseteq Decided \cup {d}
  BY <1>4, <1>6 DEF Decided
<1>8. MemoryInv'
  BY <1>2, <1>3, <1>4, <1>5, <1>7, ClassifyKeepsMemory
<1>9. Healed'
  BY <1>1, <1>7, PolicyAssumption, ClassifyKeepsHealed DEF d
<1> QED
  BY <1>8, <1>9 DEF HealInv

LEMMA HealInvHolds == Spec => []HealInv
<1>1. Init => HealInv
  <2> SUFFICES ASSUME Init
               PROVE  HealInv
    OBVIOUS
  <2>1. /\ IdsOf(recent) = {} /\ ToSet(log) = {} /\ ToSet(decision) = {}
        /\ ToSet(action_queue) = {} /\ DOMAIN recent = {}
    BY ShortIds DEF Init, IdsOf
  <2> QED
    BY <2>1 DEF HealInv, MemoryInv, Healed, Decided, Below
<1>2. TypeInv /\ OrderInv /\ HealInv /\ [Next]_vars => HealInv'
  BY ClassifyKeepsHeal, UndecidedSteps, UndecidedKeepsHeal
<1> QED
  BY <1>1, <1>2, TypeInvHolds, OrderInvHolds, PTL DEF Spec

\* Among flows that lie at most History apart no address is blocked a third
\* time for a flow with a low score (_self_healing_check), although decisions
\* are remembered that a full action queue then drops, and are logged later
\* than they are taken: the memory loses nothing that is still within reach.
THEOREM HealedSound == Spec => []ThirdBlockHealed
<1>1. TypeInv /\ OrderInv /\ HealInv => ThirdBlockHealed
  <2> SUFFICES ASSUME TypeInv, OrderInv, HealInv,
                      NEW i \in DOMAIN log, NEW j \in DOMAIN log, NEW k \in DOMAIN log,
                      i < j, j < k,
                      log[k].id - log[i].id <= History,
                      log[i].ip = log[k].ip, log[j].ip = log[k].ip,
                      {log[i].action, log[j].action, log[k].action} \subseteq Block,
                      log[k].low
               PROVE  FALSE
    BY DEF ThirdBlockHealed
  <2>1. log[i] \in Decided /\ log[j] \in Decided /\ log[k] \in Decided
    BY DEF Decided, ToSet
  <2>2. log[i].id < log[j].id /\ log[j].id < log[k].id
    BY DEF OrderInv, Ordered
  <2> QED
    BY <2>1, <2>2 DEF HealInv, Healed
<1> QED
  BY <1>1, TypeInvHolds, OrderInvHolds, HealInvHolds, PTL
=============================================================================
