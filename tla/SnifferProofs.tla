--------------------------- MODULE SnifferProofs ----------------------------
(***************************************************************************)
(* Theorems about Sniffer for every number of keys, flows and packets.     *)
(* First the types and what relates the counters to the packets captured   *)
(* (Typed), then the vectors: that a ratio stays below 1 although records  *)
(* are read while they are written (Sound).                                *)
(***************************************************************************)
EXTENDS Sniffer, FiniteSetTheorems, TLAPS

Dividers == {"expiry_divide", "window_divide"}

\* TypeOK without the bound on the table.
Shape ==
    /\ clock \in 0 .. MaxTime
    /\ packets \in 0 .. MaxPackets
    /\ records \in Seq(Record)
    /\ table \in [Keys -> 0 .. Len(records)]
    /\ capturing \in BOOLEAN
    /\ writer \in [at : {"count", "flags"}, record : DOMAIN records, syn : BOOLEAN]
                   \cup {Unlocked}
    /\ running \in BOOLEAN
    /\ tasks \subseteq Tasks
    /\ loop \in Labels
    /\ now \in 0 .. MaxTime
    /\ batch \in Seq(DOMAIN records)
    /\ read \in 0 .. MaxPackets
    /\ queue \in Seq(Vector) /\ Len(queue) <= QueueSize

\* Every record and every count in it goes back to packets captured; a packet
\* whose update is under way is not yet in the counts it has still to reach.
Counted ==
    /\ Len(records) <= packets
    /\ \A r \in DOMAIN records :
          /\ records[r].syn_count <= records[r].pkt_count
          /\ records[r].pkt_count <= packets
    /\ writer.at = "count" => records[writer.record].pkt_count < packets
    /\ writer.at = "flags" =>
          records[writer.record].syn_count < records[writer.record].pkt_count

\* What to_feature_vector has read belongs to the first record of the batch.
Reading ==
    loop \in Dividers => batch # <<>> /\ read <= records[Head(batch)].pkt_count

Typed == Shape /\ Counted /\ Reading
Sound == Typed /\ RatiosAtMostOne

\* The records the table refers to: the only ones that packets still change.
Held == {table[k] : k \in Keys}

\* A record that no packet will change any more, of an idle flow.
Finished(r) ==
    /\ r \in DOMAIN records \ Held
    /\ clock - records[r].last_seen >= idle_timeout

Expiring == {"expiry_convert", "expiry_divide"}

\* No record has two keys.
TableOnce == \A j, k \in Keys : table[j] = table[k] /\ table[j] # 0 => j = k

\* The record that is written is in the table, whose lock the writer holds.
WriterHolds == writer # Unlocked => writer.record \in Held

\* The clock that collect_expired has read can only be behind.
ClockRead == loop = "expiry" => now <= clock

\* collect_expired returns records that are finished, each once.
BatchFinal ==
    loop \in Expiring =>
        /\ \A i \in DOMAIN batch : Finished(batch[i])
        /\ \A i, j \in DOMAIN batch : batch[i] = batch[j] => i = j

\* What has been read of a finished record is still what it says.
ReadFinal == loop = "expiry_divide" => read = records[Head(batch)].syn_count

\* The vectors of finalized flows: complete, each record once, and not in the
\* rest of the batch.
QueueFinal ==
    \A i \in DOMAIN queue :
        queue[i].task = "expiry" =>
            /\ Finished(queue[i].record)
            /\ queue[i].pkts = records[queue[i].record].pkt_count
            /\ queue[i].syns = records[queue[i].record].syn_count
            /\ \A j \in DOMAIN queue :
                  queue[j].task = "expiry" /\ queue[j].record = queue[i].record => i = j
            /\ loop \in Expiring => \A m \in DOMAIN batch : batch[m] # queue[i].record

Final == TableOnce /\ WriterHolds /\ ClockRead /\ BatchFinal /\ ReadFinal /\ QueueFinal
-----------------------------------------------------------------------------

\* A sequence over a set is a sequence over every larger one.
LEMMA SeqMonotone ==
    ASSUME NEW S, NEW T, S \subseteq T, NEW s \in Seq(S)
    PROVE  s \in Seq(T)
  OBVIOUS

\* What the three writes to a record change and leave alone.
LEMMA SeenRecord ==
    ASSUME NEW r \in Record, clock \in 0 .. MaxTime
    PROVE  /\ Seen(r) \in Record
           /\ Seen(r).pkt_count = r.pkt_count
           /\ Seen(r).syn_count = r.syn_count
  BY DEF Seen, Record

LEMMA PacketCountedRecord ==
    ASSUME NEW r \in Record, r.pkt_count + 1 \in 0 .. MaxPackets
    PROVE  /\ PacketCounted(r) \in Record
           /\ PacketCounted(r).pkt_count = r.pkt_count + 1
           /\ PacketCounted(r).syn_count = r.syn_count
  BY DEF PacketCounted, Record

LEMMA SynCountedRecord ==
    ASSUME NEW r \in Record, r.syn_count + 1 \in 0 .. MaxPackets
    PROVE  /\ SynCounted(r) \in Record
           /\ SynCounted(r).pkt_count = r.pkt_count
           /\ SynCounted(r).syn_count = r.syn_count + 1
  BY DEF SynCounted, Record

\* One record of a sequence is replaced.
LEMMA Replaced ==
    ASSUME NEW rs \in Seq(Record), NEW n \in DOMAIN rs, NEW new \in Record, NEW after,
           after = [rs EXCEPT ![n] = new]
    PROVE  /\ after \in Seq(Record)
           /\ Len(after) = Len(rs)
           /\ DOMAIN after = DOMAIN rs
           /\ after[n] = new
           /\ \A i \in DOMAIN rs : i # n => after[i] = rs[i]
  OBVIOUS

\* What is left of a sequence without its head.
LEMMA TailShifts ==
    ASSUME NEW S, NEW s \in Seq(S), s # <<>>
    PROVE  /\ Head(s) = s[1] /\ 1 \in DOMAIN s
           /\ \A i \in DOMAIN Tail(s) : /\ Tail(s)[i] = s[i + 1] /\ i + 1 \in DOMAIN s
                                        /\ i \in Nat \ {0}
  OBVIOUS

\* The batch of a collect_... call consists of records.
LEMMA OrdersTyped ==
    ASSUME Shape, NEW K \in SUBSET Active, NEW b \in Orders(K)
    PROVE  b \in Seq(DOMAIN records)
<1> DEFINE R == {table[k] : k \in K}
<1>1. R \subseteq DOMAIN records
  BY DEF Shape, Active
<1>2. IsFiniteSet(DOMAIN records)
  BY FS_Interval DEF Shape
<1>3. IsFiniteSet(R)
  BY <1>1, <1>2, FS_Subset
<1>4. Cardinality(R) \in Nat
  BY <1>3, FS_CardinalityType
<1>5. b \in [1 .. Cardinality(R) -> R]
  BY DEF Orders, SetToSeqs
<1>6. QED
  <2> HIDE DEF R
  <2>1. b \in [1 .. Cardinality(R) -> DOMAIN records]
    BY <1>1, <1>5
  <2>2. QED
    BY <1>4, <2>1
-----------------------------------------------------------------------------

LEMMA TypedInit == Init => Typed
<1> SUFFICES ASSUME Init PROVE Typed
  OBVIOUS
<1> USE SizesAssumption, BoundAssumption DEF Init
<1>1. Shape
  BY DEF Shape, Unlocked, Tasks, Labels, Record, Vector
<1>2. Counted
  BY DEF Counted, Unlocked
<1>3. Reading
  BY DEF Reading, Dividers
<1>4. QED
  BY <1>1, <1>2, <1>3 DEF Typed

\* A packet of an unknown flow.
LEMMA TypedNewFlow ==
    ASSUME Typed, NEW k \in Keys, NEW syn \in BOOLEAN, NewFlow(k, syn)
    PROVE  Typed'
<1> DEFINE new == [key |-> k, last_seen |-> clock, pkt_count |-> 1,
                   syn_count |-> IF syn THEN 1 ELSE 0]
<1> USE SizesAssumption, BoundAssumption
<1>1. new \in Record /\ new.syn_count <= new.pkt_count
  BY DEF Typed, Shape, NewFlow, Record
<1>2. records' = Append(records, new)
  BY DEF NewFlow
<1>3. /\ records' \in Seq(Record)
      /\ Len(records') = Len(records) + 1
      /\ \A r \in DOMAIN records : r \in DOMAIN records' /\ records'[r] = records[r]
      /\ records'[Len(records) + 1] = new
      /\ DOMAIN records' = 1 .. Len(records) + 1
  BY <1>1, <1>2 DEF Typed, Shape
<1> HIDE DEF new
<1>4. table' \in [Keys -> 0 .. Len(records')]
  BY <1>3 DEF Typed, Shape, NewFlow
<1>5. batch' \in Seq(DOMAIN records')
  <2>1. DOMAIN records \subseteq DOMAIN records'
    BY <1>3
  <2>2. QED
    BY <2>1, SeqMonotone DEF Typed, Shape, NewFlow
<1>6. Shape'
  BY <1>3, <1>4, <1>5 DEF Typed, Shape, NewFlow
<1>7. Counted'
  <2>1. writer' = Unlocked /\ packets' = packets + 1 /\ packets \in Nat
    BY DEF NewFlow, Typed, Shape
  <2>2. Len(records') <= packets'
    BY <1>3, <2>1 DEF Typed, Shape, Counted
  <2>3. new.pkt_count = 1
    BY DEF new
  <2>4. ASSUME NEW r \in DOMAIN records'
        PROVE  /\ records'[r].syn_count <= records'[r].pkt_count
               /\ records'[r].pkt_count <= packets'
    <3>1. CASE r = Len(records) + 1
      BY <1>1, <1>3, <2>1, <2>3, <3>1
    <3>2. CASE r \in DOMAIN records
      <4>1. records[r] \in Record
        BY <3>2 DEF Typed, Shape
      <4>2. records[r].pkt_count \in Nat
        BY <4>1 DEF Record
      <4>3. QED
        BY <1>3, <2>1, <3>2, <4>2 DEF Typed, Counted
    <3>3. QED
      BY <1>3, <3>1, <3>2 DEF Typed, Shape
  <2>5. QED
    BY <2>1, <2>2, <2>4 DEF Counted, Unlocked
<1>8. Reading'
  <2>1. ASSUME loop \in Dividers PROVE Head(batch) \in DOMAIN records
    BY <2>1 DEF Typed, Shape, Reading
  <2>2. QED
    BY <2>1, <1>3 DEF Typed, Reading, NewFlow
<1>9. QED
  BY <1>6, <1>7, <1>8 DEF Typed

\* A packet of a known flow: its three steps.
LEMMA TypedUpdateSeen ==
    ASSUME Typed, NEW k \in Keys, NEW syn \in BOOLEAN, UpdateSeen(k, syn)
    PROVE  Typed'
<1> DEFINE n == table[k]
<1> USE SizesAssumption, BoundAssumption
<1>1. n \in DOMAIN records /\ records[n] \in Record /\ records \in Seq(Record)
  BY DEF Typed, Shape, UpdateSeen
<1>2. Seen(records[n]) \in Record
  BY <1>1, SeenRecord DEF Typed, Shape
<1>3. /\ records' \in Seq(Record) /\ Len(records') = Len(records)
      /\ DOMAIN records' = DOMAIN records
      /\ \A r \in DOMAIN records : /\ records'[r].pkt_count = records[r].pkt_count
                                   /\ records'[r].syn_count = records[r].syn_count
  <2>1. records' = [records EXCEPT ![n] = Seen(records[n])]
    BY DEF UpdateSeen
  <2>2. QED
    BY <1>1, <1>2, <2>1, Replaced, SeenRecord DEF Typed, Shape
<1>4. Shape'
  BY <1>1, <1>3 DEF Typed, Shape, UpdateSeen
<1>5. Counted'
  <2>1. /\ writer' = [at |-> "count", record |-> n, syn |-> syn]
        /\ packets' = packets + 1 /\ packets \in Nat
    BY DEF UpdateSeen, Typed, Shape
  <2>2. ASSUME NEW r \in DOMAIN records'
        PROVE  /\ records'[r].syn_count <= records'[r].pkt_count
               /\ records'[r].pkt_count < packets'
    <3>1. records[r] \in Record
      BY <1>3 DEF Typed, Shape
    <3>2. records[r].pkt_count \in Nat
      BY <3>1 DEF Record
    <3>3. QED
      BY <1>3, <2>1, <3>2 DEF Typed, Counted
  <2>3. Len(records') <= packets'
    BY <1>3, <2>1 DEF Typed, Shape, Counted
  <2>4. \A r \in DOMAIN records' : records'[r].pkt_count <= packets'
    <3>1. ASSUME NEW r \in DOMAIN records' PROVE records'[r].pkt_count <= packets'
      <4>1. records'[r] \in Record
        BY <1>3
      <4>2. QED
        BY <2>1, <2>2, <4>1 DEF Record
    <3>2. QED
      BY <3>1
  <2>5. QED
    BY <1>1, <1>3, <2>1, <2>2, <2>3, <2>4 DEF Counted
<1>6. Reading'
  <2>1. ASSUME loop \in Dividers PROVE Head(batch) \in DOMAIN records
    BY <2>1 DEF Typed, Shape, Reading
  <2>2. QED
    BY <2>1, <1>3 DEF Typed, Reading, UpdateSeen
<1>7. QED
  BY <1>4, <1>5, <1>6 DEF Typed

LEMMA TypedUpdateCount ==
    ASSUME Typed, UpdateCount
    PROVE  Typed'
<1> DEFINE n == writer.record
<1> USE SizesAssumption, BoundAssumption
<1>1. /\ writer \in [at : {"count", "flags"}, record : DOMAIN records, syn : BOOLEAN]
      /\ writer.at = "count"
  BY DEF Typed, Shape, Unlocked, UpdateCount
<1>2. n \in DOMAIN records /\ records[n] \in Record /\ records \in Seq(Record)
  BY <1>1 DEF Typed, Shape
<1>3. records[n].pkt_count + 1 \in 0 .. MaxPackets
  <2>1. records[n].pkt_count \in Nat /\ packets \in 0 .. MaxPackets
    BY <1>2 DEF Typed, Shape, Record
  <2>2. records[n].pkt_count < packets
    BY <1>1 DEF Typed, Counted
  <2>3. QED
    BY <2>1, <2>2
<1>4. /\ PacketCounted(records[n]) \in Record
      /\ PacketCounted(records[n]).pkt_count = records[n].pkt_count + 1
      /\ PacketCounted(records[n]).syn_count = records[n].syn_count
  BY <1>2, <1>3, PacketCountedRecord
<1>5. records' = [records EXCEPT ![n] = PacketCounted(records[n])]
  BY DEF UpdateCount
<1>6. /\ records' \in Seq(Record) /\ Len(records') = Len(records)
      /\ DOMAIN records' = DOMAIN records
      /\ records'[n].pkt_count = records[n].pkt_count + 1
      /\ records'[n].syn_count = records[n].syn_count
      /\ \A r \in DOMAIN records : r # n => records'[r] = records[r]
  BY <1>2, <1>4, <1>5, Replaced
<1>7. writer' = [writer EXCEPT !.at = "flags"] /\ packets' = packets
  BY DEF UpdateCount
<1>8. Shape'
  BY <1>1, <1>6, <1>7 DEF Typed, Shape, UpdateCount
<1>9. ASSUME NEW r \in DOMAIN records
      PROVE  /\ records[r].pkt_count \in Nat /\ records[r].syn_count \in Nat
             /\ records[r].pkt_count <= records'[r].pkt_count
             /\ records'[r].syn_count = records[r].syn_count
             /\ records'[r].pkt_count \in Nat
  <2>1. records[r] \in Record
    BY DEF Typed, Shape
  <2>2. records[r].pkt_count \in Nat /\ records[r].syn_count \in Nat
    BY <2>1 DEF Record
  <2>3. CASE r = n
    <3>1. /\ records'[r].pkt_count = records[r].pkt_count + 1
          /\ records'[r].syn_count = records[r].syn_count
      BY <1>6, <2>3
    <3>2. QED
      BY <2>2, <3>1
  <2>4. CASE r # n
    BY <1>6, <2>2, <2>4
  <2>5. QED
    BY <2>3, <2>4
<1>10. Counted'
  <2>1. Len(records') <= packets'
    BY <1>6, <1>7 DEF Typed, Counted
  <2>2. ASSUME NEW r \in DOMAIN records'
        PROVE  /\ records'[r].syn_count <= records'[r].pkt_count
               /\ records'[r].pkt_count <= packets'
    <3>1. r \in DOMAIN records /\ packets \in Nat
      BY <1>6 DEF Typed, Shape
    <3>2. CASE r = n
      <4>1. records[n].pkt_count < packets /\ records[n].syn_count <= records[n].pkt_count
        BY <1>1, <1>2 DEF Typed, Counted
      <4>2. QED
        BY <1>2, <1>6, <1>7, <1>9, <3>1, <3>2, <4>1
    <3>3. CASE r # n
      BY <1>6, <1>7, <3>1, <3>3 DEF Typed, Counted
    <3>4. QED
      BY <3>2, <3>3
  <2>3. writer'.at = "flags" /\ writer'.record = n
    BY <1>1, <1>7
  <2>4. records'[n].syn_count < records'[n].pkt_count
    BY <1>2, <1>6, <1>9 DEF Typed, Counted
  <2>5. QED
    BY <2>1, <2>2, <2>3, <2>4 DEF Counted
<1>11. Reading'
  <2>1. loop' = loop /\ batch' = batch /\ read' = read
    BY DEF UpdateCount
  <2>2. ASSUME loop \in Dividers PROVE read <= records'[Head(batch)].pkt_count
    <3>1. Head(batch) \in DOMAIN records /\ read \in Nat
      BY <2>2 DEF Typed, Shape, Reading
    <3>2. QED
      BY <1>9, <2>2, <3>1 DEF Typed, Reading
  <2>3. QED
    BY <2>1, <2>2 DEF Typed, Reading
<1>12. QED
  BY <1>8, <1>10, <1>11 DEF Typed

LEMMA TypedUpdateFlags ==
    ASSUME Typed, UpdateFlags
    PROVE  Typed'
<1> DEFINE n == writer.record
<1> USE SizesAssumption, BoundAssumption
<1>1. n \in DOMAIN records /\ writer.at = "flags" /\ records \in Seq(Record)
  BY DEF Typed, Shape, Unlocked, UpdateFlags
<1>2. /\ writer' = Unlocked /\ packets' = packets /\ loop' = loop /\ batch' = batch
      /\ read' = read
  BY DEF UpdateFlags
<1>3. ASSUME NEW r \in DOMAIN records
      PROVE  records[r] \in Record
  BY DEF Typed, Shape
<1>4. /\ records' \in Seq(Record) /\ Len(records') = Len(records)
      /\ DOMAIN records' = DOMAIN records
      /\ \A r \in DOMAIN records : /\ records'[r].pkt_count = records[r].pkt_count
                                   /\ records'[r].syn_count <= records[r].pkt_count
  <2>1. CASE writer.syn
    <3>1. records' = [records EXCEPT ![n] = SynCounted(records[n])]
      BY <2>1 DEF UpdateFlags
    <3>2. records[n].syn_count + 1 \in 0 .. MaxPackets
      BY <1>1, <1>3, SMTT(30) DEF Typed, Shape, Counted, Record
    <3>3. /\ SynCounted(records[n]) \in Record
          /\ SynCounted(records[n]).pkt_count = records[n].pkt_count
          /\ SynCounted(records[n]).syn_count = records[n].syn_count + 1
      BY <1>1, <1>3, <3>2, SynCountedRecord
    <3>4. SynCounted(records[n]).syn_count <= records[n].pkt_count
      BY <1>1, <1>3, <3>3 DEF Typed, Counted, Record
    <3>5. QED
      BY <1>1, <3>1, <3>3, <3>4, Replaced DEF Typed, Counted
  <2>2. CASE ~writer.syn
    BY <1>1, <2>2 DEF UpdateFlags, Typed, Counted
  <2>3. QED
    BY <2>1, <2>2
<1>5. Shape'
  BY <1>2, <1>4 DEF Typed, Shape, UpdateFlags
<1>6. Counted'
  BY <1>2, <1>4 DEF Typed, Counted, Unlocked
<1>7. Reading'
  <2>1. ASSUME loop \in Dividers PROVE Head(batch) \in DOMAIN records
    BY <2>1 DEF Typed, Shape, Reading
  <2>2. QED
    BY <1>2, <1>4, <2>1 DEF Typed, Reading
<1>8. QED
  BY <1>5, <1>6, <1>7 DEF Typed
-----------------------------------------------------------------------------

\* The steps that touch neither the records nor the reading of one.
LEMMA TypedQuiet ==
    ASSUME Typed, \/ Tick \/ Get \/ Stop \/ UNCHANGED vars
                  \/ \E task \in Tasks : Wake(task) \/ Sleep(task)
    PROVE  Typed'
<1> USE SizesAssumption, BoundAssumption
<1>1. /\ records' = records /\ packets' = packets /\ writer' = writer
      /\ table' = table /\ batch' = batch /\ read' = read
  BY DEF Tick, Get, Stop, Wake, Sleep, vars
<1>2. Shape'
  <2>1. CASE Tick
    BY <2>1 DEF Typed, Shape, Tick
  <2>2. CASE Get
    BY <2>2 DEF Typed, Shape, Get
  <2>3. CASE Stop
    BY <2>3 DEF Typed, Shape, Stop
  <2>4. ASSUME NEW task \in Tasks, Wake(task) PROVE Shape'
    BY <2>4 DEF Typed, Shape, Wake, Tasks, Labels
  <2>5. ASSUME NEW task \in Tasks, Sleep(task) PROVE Shape'
    BY <2>5 DEF Typed, Shape, Sleep, Labels
  <2>6. CASE UNCHANGED vars
    BY <2>6 DEF Typed, Shape, vars
  <2>7. QED
    BY <2>1, <2>2, <2>3, <2>4, <2>5, <2>6
<1>3. Counted'
  BY <1>1 DEF Typed, Counted
<1>4. Reading'
  <2>1. loop' \in Dividers => loop \in Dividers
    BY DEF Tick, Get, Stop, Wake, Sleep, vars, Dividers, Tasks
  <2>2. QED
    BY <1>1, <2>1 DEF Typed, Reading
<1>5. QED
  BY <1>2, <1>3, <1>4 DEF Typed

\* A collect_... call.
LEMMA TypedCollect ==
    ASSUME Typed, CollectExpired \/ CollectWindowed
    PROVE  Typed'
<1> USE SizesAssumption, BoundAssumption
<1>1. /\ UNCHANGED <<clock, packets, records, capturing, writer, running, tasks, read, queue>>
      /\ loop' \in {"expiry_convert", "window_convert"} /\ now' = 0
  BY DEF CollectExpired, CollectWindowed
<1>2. table' \in [Keys -> 0 .. Len(records)]
  <2>1. table \in [Keys -> 0 .. Len(records)] /\ 0 \in 0 .. Len(records)
    BY DEF Typed, Shape
  <2>2. table' = table \/ table' = [k \in Keys |-> IF k \in Expired THEN 0 ELSE table[k]]
    BY DEF CollectExpired, CollectWindowed
  <2>3. QED
    BY <2>1, <2>2
<1>3. \E K \in SUBSET Active : batch' \in Orders(K)
  BY DEF CollectExpired, CollectWindowed, Expired
<1>4. batch' \in Seq(DOMAIN records)
  BY <1>3, OrdersTyped DEF Typed
<1>5. Shape'
  BY <1>1, <1>2, <1>4 DEF Typed, Shape, Labels
<1>6. Counted'
  BY <1>1 DEF Typed, Counted
<1>7. Reading'
  BY <1>1 DEF Reading, Dividers
<1>8. QED
  BY <1>5, <1>6, <1>7 DEF Typed

\* to_feature_vector: what it reads first can only be overtaken by the rest.
LEMMA TypedReadSyns ==
    ASSUME Typed, NEW task \in Tasks, ReadSyns(task)
    PROVE  Typed'
<1> USE SizesAssumption, BoundAssumption
<1>1. /\ UNCHANGED <<clock, packets, records, table, capturing, writer, running, tasks, now,
                     batch, queue>>
      /\ batch # <<>> /\ read' = records[Head(batch)].syn_count
      /\ loop' \in Dividers
  BY DEF ReadSyns, Dividers
<1>2. Head(batch) \in DOMAIN records /\ records \in Seq(Record)
  BY <1>1 DEF Typed, Shape
<1>3. records[Head(batch)].syn_count \in 0 .. MaxPackets
  <2>1. records[Head(batch)] \in Record
    BY <1>2
  <2>2. QED
    BY <2>1 DEF Record
<1>4. Shape'
  BY <1>1, <1>3 DEF Typed, Shape, Dividers, Labels
<1>5. Counted'
  BY <1>1 DEF Typed, Counted
<1>6. Reading'
  BY <1>1, <1>2 DEF Typed, Counted, Reading
<1>7. QED
  BY <1>4, <1>5, <1>6 DEF Typed

\* The vector that is put into the queue.
LEMMA TypedReadCount ==
    ASSUME Typed, NEW task \in Tasks, ReadCount(task)
    PROVE  Typed' /\ (RatiosAtMostOne => RatiosAtMostOne')
<1> DEFINE vector == [task |-> task, record |-> Head(batch),
                      pkts |-> records[Head(batch)].pkt_count, syns |-> read]
<1> USE SizesAssumption, BoundAssumption
<1>1. /\ UNCHANGED <<clock, packets, records, table, capturing, writer, running, tasks, now>>
      /\ batch' = Tail(batch) /\ read' = 0
      /\ loop' \in {"expiry_convert", "window_convert"}
      /\ loop \in Dividers
      /\ queue' = IF Len(queue) < QueueSize THEN Append(queue, vector) ELSE queue
  BY DEF ReadCount, Dividing, Dividers
<1>2. /\ batch # <<>> /\ Head(batch) \in DOMAIN records /\ records \in Seq(Record)
      /\ read <= records[Head(batch)].pkt_count
  BY <1>1 DEF Typed, Shape, Reading
<1>3. vector \in Vector /\ vector.syns <= vector.pkts
  <2>1. records[Head(batch)].pkt_count \in Nat
    <3>1. records[Head(batch)] \in Record
      BY <1>2
    <3>2. QED
      BY <3>1 DEF Record
  <2>2. Head(batch) \in 1 .. MaxPackets
    BY <1>2 DEF Typed, Shape, Counted
  <2>3. QED
    BY <1>2, <2>1, <2>2 DEF Typed, Shape, Vector
<1> HIDE DEF vector
<1>4. queue' \in Seq(Vector) /\ Len(queue') <= QueueSize
  BY <1>1, <1>3 DEF Typed, Shape
<1>5. Shape'
  BY <1>1, <1>2, <1>4 DEF Typed, Shape, Labels
<1>6. Counted'
  BY <1>1 DEF Typed, Counted
<1>7. Reading'
  BY <1>1 DEF Reading, Dividers
<1>8. RatiosAtMostOne => RatiosAtMostOne'
  BY <1>1, <1>3 DEF Typed, Shape, RatiosAtMostOne
<1>9. QED
  BY <1>5, <1>6, <1>7, <1>8 DEF Typed
-----------------------------------------------------------------------------

LEMMA SoundStep == Sound /\ [Next]_vars => Sound'
<1> SUFFICES ASSUME Sound, [Next]_vars PROVE Sound'
  OBVIOUS
<1> USE DEF Sound
<1>1. ASSUME NEW k \in Keys, NEW syn \in BOOLEAN, NewFlow(k, syn) PROVE Sound'
  BY <1>1, TypedNewFlow DEF NewFlow, RatiosAtMostOne
<1>2. ASSUME NEW k \in Keys, NEW syn \in BOOLEAN, UpdateSeen(k, syn) PROVE Sound'
  BY <1>2, TypedUpdateSeen DEF UpdateSeen, RatiosAtMostOne
<1>3. CASE UpdateCount
  BY <1>3, TypedUpdateCount DEF UpdateCount, RatiosAtMostOne
<1>4. CASE UpdateFlags
  BY <1>4, TypedUpdateFlags DEF UpdateFlags, RatiosAtMostOne
<1>5. CASE CollectExpired \/ CollectWindowed
  BY <1>5, TypedCollect DEF CollectExpired, CollectWindowed, RatiosAtMostOne
<1>6. ASSUME NEW task \in Tasks, ReadSyns(task) PROVE Sound'
  BY <1>6, TypedReadSyns DEF ReadSyns, RatiosAtMostOne
<1>7. ASSUME NEW task \in Tasks, ReadCount(task) PROVE Sound'
  BY <1>7, TypedReadCount
<1>8. CASE \/ Tick \/ Stop \/ UNCHANGED vars
           \/ \E task \in Tasks : Wake(task) \/ Sleep(task)
  BY <1>8, TypedQuiet DEF Tick, Stop, Wake, Sleep, vars, RatiosAtMostOne
<1>9. CASE Get
  BY <1>9, TypedQuiet DEF Get, RatiosAtMostOne, Typed, Shape
<1>10. QED
  BY <1>1, <1>2, <1>3, <1>4, <1>5, <1>6, <1>7, <1>8, <1>9 DEF Next, LoopProgress

LEMMA SoundAlways == Spec => []Sound
<1>1. Init => Sound
  BY TypedInit DEF Sound, Init, RatiosAtMostOne
<1>2. QED
  BY <1>1, SoundStep, PTL DEF Spec

\* The SYN ratio of every vector in the queue is at most 1, for every table,
\* every queue and every number of packets: to_feature_vector reads the flag
\* count of a record before its packet count, update writes them the other
\* way round, and both only grow.
THEOREM RatiosSound == Spec => []RatiosAtMostOne
<1>1. Sound => RatiosAtMostOne
  BY DEF Sound
<1>2. QED
  BY <1>1, SoundAlways, PTL
-----------------------------------------------------------------------------

\* A finished record stays as it is in every step that keeps it out of the
\* table.
LEMMA FinishedStays ==
    ASSUME Typed, Typed', NEW r, Finished(r),
           clock' >= clock, r \in DOMAIN records', r \notin Held', records'[r] = records[r]
    PROVE  Finished(r)'
<1>1. records[r] \in Record /\ clock \in Int /\ clock' \in Int
  BY BoundAssumption DEF Typed, Shape, Finished
<1>2. records[r].last_seen \in Int
  BY <1>1, BoundAssumption DEF Record
<1>3. QED
  BY <1>1, <1>2, TimesAssumption DEF Finished

\* So the batch and the queue of a step that changes neither, nor what the
\* loop does, stay final.
LEMMA FinalKept ==
    ASSUME Typed, Typed', Final, UNCHANGED <<loop, batch, read, queue>>,
           \A r : Finished(r) => Finished(r)' /\ records'[r] = records[r]
    PROVE  BatchFinal' /\ ReadFinal' /\ QueueFinal'
<1>1. BatchFinal'
  BY DEF Final, BatchFinal
<1>2. ReadFinal'
  <2>1. ASSUME loop = "expiry_divide" PROVE Finished(Head(batch))
    <3>1. batch # <<>> /\ 1 \in DOMAIN batch /\ Head(batch) = batch[1]
      BY <2>1 DEF Typed, Shape, Reading, Dividers
    <3>2. QED
      BY <2>1, <3>1 DEF Final, BatchFinal, Expiring
  <2>2. QED
    BY <2>1 DEF Final, ReadFinal
<1>3. QueueFinal'
  BY DEF Final, QueueFinal
<1>4. QED
  BY <1>1, <1>2, <1>3

\* A new record gets a number of its own; eviction takes one away.
LEMMA FinalNewFlow ==
    ASSUME Typed, Typed', Final, NEW k \in Keys, NEW syn \in BOOLEAN, NewFlow(k, syn)
    PROVE  Final'
<1> DEFINE fresh == Len(records) + 1
<1>1. /\ UNCHANGED <<clock, writer, loop, now, batch, read, queue>>
      /\ writer = Unlocked
  BY DEF NewFlow
<1>2. PICK new : records' = Append(records, new)
  BY DEF NewFlow
<1>3. /\ Len(records) \in Nat /\ DOMAIN records = 1 .. Len(records)
      /\ \A r \in DOMAIN records : r \in DOMAIN records' /\ records'[r] = records[r]
  BY <1>2 DEF Typed, Shape
<1>4. table \in [Keys -> 0 .. Len(records)] /\ DOMAIN table' = Keys
  BY DEF Typed, Shape
<1>5. \A j \in Keys : table'[j] \in {0, table[j], fresh} /\ (table'[j] = fresh => j = k)
  <2>1. CASE table' = [table EXCEPT ![k] = fresh]
    BY <1>3, <1>4, <2>1
  <2>2. ASSUME NEW evicted \in Oldest, table' = [table EXCEPT ![evicted] = 0, ![k] = fresh]
        PROVE  \A j \in Keys : table'[j] \in {0, table[j], fresh} /\ (table'[j] = fresh => j = k)
    BY <1>3, <1>4, <2>2 DEF Oldest, Active
  <2>3. QED
    BY <2>1, <2>2 DEF NewFlow
<1> HIDE DEF fresh
<1>6. \A r \in DOMAIN records : r \notin Held => r \notin Held'
  BY <1>3, <1>4, <1>5 DEF Held, fresh
<1>7. \A r : Finished(r) => Finished(r)' /\ records'[r] = records[r]
  <2>1. ASSUME NEW r, Finished(r) PROVE Finished(r)'
    <3>1. r \in DOMAIN records /\ r \notin Held
      BY <2>1 DEF Finished
    <3>2. clock' >= clock
      BY <1>1, BoundAssumption DEF Typed, Shape
    <3>3. QED
      BY <1>3, <1>6, <2>1, <3>1, <3>2, FinishedStays
  <2>2. QED
    BY <1>3, <2>1 DEF Finished
<1>8. BatchFinal' /\ ReadFinal' /\ QueueFinal'
  BY <1>1, <1>7, FinalKept
<1>9. TableOnce'
  BY <1>3, <1>4, <1>5 DEF Final, TableOnce, fresh
<1>10. WriterHolds' /\ ClockRead'
  BY <1>1 DEF Final, WriterHolds, ClockRead, Unlocked
<1>11. QED
  BY <1>8, <1>9, <1>10 DEF Final

\* The three steps of an update write a record that the table refers to.
LEMMA FinalUpdate ==
    ASSUME Typed, Typed', Final,
           \/ \E k \in Keys, syn \in BOOLEAN : UpdateSeen(k, syn)
           \/ UpdateCount \/ UpdateFlags
    PROVE  Final'
<1>1. UNCHANGED <<clock, table, loop, now, batch, read, queue>>
  BY DEF UpdateSeen, UpdateCount, UpdateFlags
<1>2. PICK n \in Held : /\ \E new : records' = [records EXCEPT ![n] = new]
                        /\ writer' = Unlocked \/ writer'.record = n
  <2>1. ASSUME NEW k \in Keys, NEW syn \in BOOLEAN, UpdateSeen(k, syn)
        PROVE  /\ table[k] \in Held
               /\ records' = [records EXCEPT ![table[k]] = Seen(records[table[k]])]
               /\ writer'.record = table[k]
    BY <2>1 DEF UpdateSeen, Held
  <2>2. CASE UpdateCount
    <3>1. /\ writer \in [at : {"count", "flags"}, record : DOMAIN records, syn : BOOLEAN]
          /\ writer # Unlocked
      BY <2>2 DEF Typed, Shape, UpdateCount, Unlocked
    <3>2. writer.record \in Held
      BY <3>1 DEF Final, WriterHolds
    <3>3. writer' = [writer EXCEPT !.at = "flags"]
      BY <2>2 DEF UpdateCount
    <3>4. writer'.record = writer.record
      BY <3>1, <3>3
    <3>5. records' = [records EXCEPT ![writer.record] = PacketCounted(records[writer.record])]
      BY <2>2 DEF UpdateCount
    <3>6. QED
      BY <3>2, <3>4, <3>5
  <2>3. CASE UpdateFlags
    <3>1. writer.record \in Held
      BY <2>3 DEF Final, WriterHolds, UpdateFlags, Unlocked
    <3>2. CASE writer.syn
      <4>1. records' = [records EXCEPT ![writer.record] = SynCounted(records[writer.record])]
        BY <2>3, <3>2 DEF UpdateFlags
      <4>2. QED
        BY <2>3, <3>1, <4>1 DEF UpdateFlags
    <3>3. CASE ~writer.syn
      <4>1. records' = [records EXCEPT ![writer.record] = records[writer.record]]
        BY <2>3, <3>3 DEF UpdateFlags, Typed, Shape
      <4>2. QED
        BY <2>3, <3>1, <4>1 DEF UpdateFlags
    <3>4. QED
      BY <3>2, <3>3
  <2>4. QED
    BY <2>1, <2>2, <2>3
<1>3. PICK new : records' = [records EXCEPT ![n] = new]
  BY <1>2
<1>4. Held' = Held
  BY <1>1 DEF Held
<1>5. ASSUME NEW r, Finished(r) PROVE Finished(r)' /\ records'[r] = records[r]
  <2>1. r \in DOMAIN records /\ r \notin Held /\ r # n
    BY <1>2, <1>5 DEF Finished
  <2>2. r \in DOMAIN records' /\ records'[r] = records[r]
    BY <1>3, <2>1 DEF Typed, Shape
  <2>3. clock' >= clock
    BY <1>1, BoundAssumption DEF Typed, Shape
  <2>4. QED
    BY <1>4, <1>5, <2>1, <2>2, <2>3, FinishedStays
<1>6. BatchFinal' /\ ReadFinal' /\ QueueFinal'
  BY <1>1, <1>5, FinalKept
<1>7. TableOnce' /\ ClockRead'
  BY <1>1 DEF Final, TableOnce, ClockRead
<1>8. WriterHolds'
  BY <1>2, <1>4 DEF WriterHolds
<1>9. QED
  BY <1>6, <1>7, <1>8 DEF Final

\* The steps that leave the table and its records alone keep what is finished.
LEMMA FinishedKept ==
    ASSUME Typed, Typed', UNCHANGED <<records, table>>, clock' >= clock
    PROVE  \A r : Finished(r) => Finished(r)' /\ records'[r] = records[r]
<1>1. Held' = Held
  BY DEF Held
<1>2. QED
  BY <1>1, FinishedStays DEF Finished

\* Steps that leave the loop's state and the queue alone.
LEMMA FinalQuiet ==
    ASSUME Typed, Typed', Final, Tick \/ Stop \/ UNCHANGED vars
    PROVE  Final'
<1>1. /\ UNCHANGED <<records, table, writer, loop, now, batch, read, queue>>
      /\ clock' >= clock
  BY BoundAssumption DEF Tick, Stop, vars, Typed, Shape
<1>2. BatchFinal' /\ ReadFinal' /\ QueueFinal'
  BY <1>1, FinishedKept, FinalKept
<1>3. TableOnce' /\ WriterHolds'
  BY <1>1 DEF Final, TableOnce, WriterHolds, Held
<1>4. ClockRead'
  BY <1>1, BoundAssumption DEF Final, ClockRead, Typed, Shape
<1>5. QED
  BY <1>2, <1>3, <1>4 DEF Final

\* A task wakes or goes to sleep, the classifier takes a vector, or
\* collect_windowed runs: nothing is being finalized afterwards.
LEMMA FinalElsewhere ==
    ASSUME Typed, Typed', Final,
           \/ Get \/ CollectWindowed
           \/ \E task \in Tasks : Wake(task) \/ Sleep(task)
    PROVE  Final'
<1>1. /\ UNCHANGED <<clock, records, table, writer>>
      /\ loop' \notin Expiring
      /\ loop' = "expiry" => now' = clock
  BY DEF Get, CollectWindowed, Wake, Sleep, Tasks, Expiring
<1>2. clock' >= clock
  BY <1>1, BoundAssumption DEF Typed, Shape
<1>3. \A r : Finished(r) => Finished(r)' /\ records'[r] = records[r]
  BY <1>1, <1>2, FinishedKept
<1>4. QueueFinal'
  <2>1. CASE queue' = queue
    BY <1>1, <1>3, <2>1 DEF Final, QueueFinal
  <2>2. CASE Get
    <3>1. /\ Len(queue') = Len(queue) - 1 /\ Len(queue) \in Nat
          /\ DOMAIN queue' = 1 .. Len(queue) - 1 /\ DOMAIN queue = 1 .. Len(queue)
          /\ \A i \in DOMAIN queue' : queue'[i] = queue[i + 1] /\ i + 1 \in DOMAIN queue
      BY <2>2 DEF Get, Typed, Shape
    <3>2. QED
      BY <1>1, <1>3, <3>1 DEF Final, QueueFinal
  <2>3. QED
    BY <2>1, <2>2 DEF CollectWindowed, Wake, Sleep
<1>5. BatchFinal' /\ ReadFinal'
  BY <1>1 DEF BatchFinal, ReadFinal, Expiring
<1>6. TableOnce' /\ WriterHolds'
  BY <1>1 DEF Final, TableOnce, WriterHolds, Held
<1>7. ClockRead'
  BY <1>1, BoundAssumption DEF ClockRead, Typed, Shape
<1>8. QED
  BY <1>4, <1>5, <1>6, <1>7 DEF Final

\* collect_expired: what it takes out of the table is finished, and was not
\* finished before.
LEMMA FinalCollectExpired ==
    ASSUME Typed, Typed', Final, CollectExpired
    PROVE  Final'
<1> DEFINE R == {table[k] : k \in Expired}
<1>1. /\ UNCHANGED <<clock, records, writer, queue>>
      /\ writer = Unlocked /\ loop = "expiry" /\ loop' = "expiry_convert"
      /\ batch' \in Orders(Expired)
      /\ table' = [k \in Keys |-> IF k \in Expired THEN 0 ELSE table[k]]
  BY DEF CollectExpired
<1>2. table \in [Keys -> 0 .. Len(records)] /\ DOMAIN records = 1 .. Len(records)
  BY DEF Typed, Shape
<1>3. R \subseteq DOMAIN records
  BY <1>2 DEF Expired, Active
<1>4. \A j \in Keys : table'[j] \in {0, table[j]}
  BY <1>1
<1>5. \A r \in R : r \in Held /\ r \notin Held'
  <2>1. ASSUME NEW k \in Expired, NEW j \in Keys, table'[j] = table[k] PROVE FALSE
    <3>1. table[k] # 0 /\ k \in Keys
      BY DEF Expired, Active
    <3>2. table'[j] = IF j \in Expired THEN 0 ELSE table[j]
      BY <1>1
    <3>3. table'[j] = table[j] /\ j \notin Expired
      BY <2>1, <3>1, <3>2
    <3>4. j = k
      BY <2>1, <3>1, <3>3 DEF Final, TableOnce
    <3>5. QED
      BY <3>3, <3>4
  <2>2. QED
    BY <2>1 DEF Held, Expired, Active
<1>6. \A r \in R : Finished(r)'
  <2>1. ASSUME NEW k \in Expired PROVE clock - records[table[k]].last_seen >= idle_timeout
    <3>1. /\ table[k] \in DOMAIN records /\ records \in Seq(Record)
          /\ now - records[table[k]].last_seen >= idle_timeout
      <4>1. now - Flow(k).last_seen >= idle_timeout
        BY DEF Expired
      <4>2. table[k] \in R /\ records \in Seq(Record)
        BY DEF Typed, Shape
      <4>3. table[k] \in DOMAIN records
        BY <1>3, <4>2
      <4>4. QED
        BY <4>1, <4>2, <4>3 DEF Flow
    <3>2. records[table[k]] \in Record
      BY <3>1
    <3>3. records[table[k]].last_seen \in Int /\ clock \in Int /\ now \in Int
      <4>1. records[table[k]].last_seen \in Int
        BY <3>2, BoundAssumption DEF Record
      <4>2. clock \in Int /\ now \in Int
        BY BoundAssumption DEF Typed, Shape
      <4>3. QED
        BY <4>1, <4>2
    <3>4. now <= clock
      BY <1>1 DEF Final, ClockRead
    <3>5. QED
      BY <3>1, <3>3, <3>4, TimesAssumption
  <2>2. \A r \in R : clock - records[r].last_seen >= idle_timeout
    BY <2>1
  <2> HIDE DEF R
  <2>3. QED
    BY <1>1, <1>3, <1>5, <2>2 DEF Finished
<1>7. /\ \A i \in DOMAIN batch' : batch'[i] \in R
      /\ \A i, j \in DOMAIN batch' : batch'[i] = batch'[j] => i = j
  BY <1>1 DEF Orders, SetToSeqs
<1> HIDE DEF R
<1>8. BatchFinal'
  BY <1>6, <1>7 DEF BatchFinal
<1>9. ReadFinal' /\ ClockRead'
  BY <1>1 DEF ReadFinal, ClockRead
<1>10. \A r : Finished(r) => Finished(r)' /\ r \notin R
  <2>1. ASSUME NEW r, Finished(r) PROVE r \in DOMAIN records /\ r \notin Held /\ r \notin R
    BY <1>5, <2>1 DEF Finished
  <2>2. ASSUME NEW r \in DOMAIN records, r \notin Held PROVE r \notin Held'
    BY <1>2, <1>4, <2>2 DEF Held
  <2>3. clock' >= clock
    BY <1>1, BoundAssumption DEF Typed, Shape
  <2>4. QED
    BY <1>1, <2>1, <2>2, <2>3, FinishedStays
<1>11. QueueFinal'
  <2>1. ASSUME NEW i \in DOMAIN queue, queue[i].task = "expiry"
        PROVE  \A m \in DOMAIN batch' : batch'[m] # queue[i].record
    BY <1>7, <1>10, <2>1 DEF Final, QueueFinal
  <2>2. QED
    BY <1>1, <1>10, <2>1 DEF Final, QueueFinal
<1>12. TableOnce'
  BY <1>4 DEF Final, TableOnce
<1>13. WriterHolds'
  BY <1>1 DEF WriterHolds
<1>14. QED
  BY <1>8, <1>9, <1>11, <1>12, <1>13 DEF Final

\* to_feature_vector.
LEMMA FinalReadSyns ==
    ASSUME Typed, Typed', Final, NEW task \in Tasks, ReadSyns(task)
    PROVE  Final'
<1>1. /\ UNCHANGED <<clock, records, table, writer, batch, queue>>
      /\ read' = records[Head(batch)].syn_count
      /\ loop' # "expiry" /\ (loop' \in Expiring => loop \in Expiring)
  BY DEF ReadSyns, Converting, Expiring, Tasks
<1>2. \A r : Finished(r) => Finished(r)' /\ records'[r] = records[r]
  <2>1. clock' >= clock
    BY <1>1, BoundAssumption DEF Typed, Shape
  <2>2. QED
    BY <1>1, <2>1, FinishedKept
<1>3. BatchFinal' /\ QueueFinal'
  BY <1>1, <1>2 DEF Final, BatchFinal, QueueFinal
<1>4. ReadFinal' /\ ClockRead' /\ TableOnce' /\ WriterHolds'
  BY <1>1 DEF Final, ReadFinal, ClockRead, TableOnce, WriterHolds, Held
<1>5. QED
  BY <1>3, <1>4 DEF Final

LEMMA FinalReadCount ==
    ASSUME Typed, Typed', Final, NEW task \in Tasks, ReadCount(task)
    PROVE  Final'
<1> DEFINE vector == [task |-> task, record |-> Head(batch),
                      pkts |-> records[Head(batch)].pkt_count, syns |-> read]
<1>1. /\ UNCHANGED <<clock, records, table, writer>>
      /\ batch' = Tail(batch) /\ loop \in Dividers
      /\ loop' = IF task = "expiry" THEN "expiry_convert" ELSE "window_convert"
      /\ loop  = IF task = "expiry" THEN "expiry_divide" ELSE "window_divide"
      /\ queue' = IF Len(queue) < QueueSize THEN Append(queue, vector) ELSE queue
  BY DEF ReadCount, Dividing, Dividers
<1>2. \A r : Finished(r) => Finished(r)' /\ records'[r] = records[r]
  <2>1. clock' >= clock
    BY <1>1, BoundAssumption DEF Typed, Shape
  <2>2. QED
    BY <1>1, <2>1, FinishedKept
<1>3. /\ batch # <<>> /\ Head(batch) = batch[1] /\ 1 \in DOMAIN batch
      /\ \A i \in DOMAIN batch' : /\ batch'[i] = batch[i + 1] /\ i + 1 \in DOMAIN batch
                                 /\ i \in Nat \ {0}
  <2>1. batch \in Seq(DOMAIN records) /\ batch # <<>> /\ batch' = Tail(batch)
    BY <1>1 DEF Typed, Shape, Reading
  <2>2. QED
    BY <2>1, TailShifts
<1>4. BatchFinal'
  <2>1. SUFFICES ASSUME loop' \in Expiring
                 PROVE  /\ \A i \in DOMAIN batch' : Finished(batch[i])'
                        /\ \A i, j \in DOMAIN batch' : batch'[i] = batch'[j] => i = j
    BY DEF BatchFinal
  <2>2. /\ \A i \in DOMAIN batch : Finished(batch[i])
        /\ \A i, j \in DOMAIN batch : batch[i] = batch[j] => i = j
    BY <1>1, <2>1 DEF Final, BatchFinal, Expiring
  <2>3. \A i \in DOMAIN batch' : Finished(batch[i])'
    BY <1>2, <1>3, <2>2
  <2>4. ASSUME NEW i \in DOMAIN batch', NEW j \in DOMAIN batch', batch'[i] = batch'[j]
        PROVE  i = j
    <3>1. i + 1 = j + 1
      BY <1>3, <2>2, <2>4
    <3> QED
      BY <1>3, <3>1
  <2> QED
    BY <2>3, <2>4
<1>5. ReadFinal' /\ ClockRead' /\ TableOnce' /\ WriterHolds'
  BY <1>1 DEF Final, ReadFinal, ClockRead, TableOnce, WriterHolds, Held
<1>6. ASSUME NEW i \in DOMAIN queue, queue[i].task = "expiry", NEW r, r = queue[i].record
      PROVE  /\ Finished(r)'
             /\ queue[i].pkts = records'[r].pkt_count /\ queue[i].syns = records'[r].syn_count
             /\ loop' \in Expiring => \A m \in DOMAIN batch' : batch'[m] # r
  <2>1. /\ Finished(r)
        /\ queue[i].pkts = records[r].pkt_count /\ queue[i].syns = records[r].syn_count
        /\ loop \in Expiring => \A m \in DOMAIN batch : batch[m] # r
    BY <1>6 DEF Final, QueueFinal
  <2>2. QED
    BY <1>1, <1>2, <1>3, <2>1 DEF Expiring
<1>7. PICK head : head = Head(batch)
  OBVIOUS
<1>8. ASSUME task = "expiry"
      PROVE  /\ Finished(head)'
             /\ read = records'[head].syn_count
             /\ \A m \in DOMAIN batch' : batch'[m] # head
             /\ \A i \in DOMAIN queue : queue[i].task = "expiry" => queue[i].record # head
  <2>1. loop = "expiry_divide"
    BY <1>1, <1>8
  <2>2. Finished(head) /\ read = records[head].syn_count
    BY <1>3, <1>7, <2>1 DEF Final, BatchFinal, ReadFinal, Expiring
  <2>3. \A m \in DOMAIN batch' : batch'[m] # head
    BY <1>3, <1>7, <2>1 DEF Final, BatchFinal, Expiring
  <2>4. \A i \in DOMAIN queue : queue[i].task = "expiry" => queue[i].record # head
    BY <1>3, <1>7, <2>1 DEF Final, QueueFinal, Expiring
  <2>5. QED
    BY <1>2, <2>2, <2>3, <2>4
<1>9. QueueFinal'
  <2>1. CASE queue' = queue
    <3>1. ASSUME NEW i \in DOMAIN queue, queue[i].task = "expiry", NEW r, r = queue[i].record
          PROVE  \A j \in DOMAIN queue :
                    queue[j].task = "expiry" /\ queue[j].record = r => i = j
      BY <3>1 DEF Final, QueueFinal
    <3>2. QED
      BY <1>6, <2>1, <3>1 DEF QueueFinal, Finished
  <2>2. CASE queue' = Append(queue, vector)
    <3>1. /\ vector.task = task /\ vector.record = head /\ vector.syns = read
          /\ vector.pkts = records'[head].pkt_count
      BY <1>1, <1>7
    <3>2. /\ Len(queue) \in Nat /\ DOMAIN queue = 1 .. Len(queue)
          /\ DOMAIN queue' = 1 .. Len(queue) + 1
          /\ \A i \in DOMAIN queue : queue'[i] = queue[i]
          /\ queue'[Len(queue) + 1] = vector
      BY <2>2 DEF Typed, Shape
    <3> HIDE DEF vector
    <3>3. ASSUME NEW i \in DOMAIN queue', queue'[i].task = "expiry",
                 NEW r, r = queue'[i].record
          PROVE  /\ Finished(r)'
                 /\ queue'[i].pkts = records'[r].pkt_count
                 /\ queue'[i].syns = records'[r].syn_count
                 /\ loop' \in Expiring => \A m \in DOMAIN batch' : batch'[m] # r
      <4>1. CASE i \in DOMAIN queue
        BY <1>6, <3>2, <3>3, <4>1
      <4>2. CASE i = Len(queue) + 1
        <5>1. r = head /\ task = "expiry"
          BY <3>1, <3>2, <3>3, <4>2
        <5>2. QED
          BY <1>8, <3>1, <3>2, <4>2, <5>1
      <4>3. QED
        BY <3>2, <4>1, <4>2
    <3>4. ASSUME NEW i \in DOMAIN queue', queue'[i].task = "expiry",
                 NEW j \in DOMAIN queue', queue'[j].task = "expiry",
                 queue'[j].record = queue'[i].record
          PROVE  i = j
      <4>1. CASE i \in DOMAIN queue /\ j \in DOMAIN queue
        BY <3>2, <3>4, <4>1 DEF Final, QueueFinal
      <4>2. CASE i \in DOMAIN queue /\ j = Len(queue) + 1
        BY <1>8, <3>1, <3>2, <3>4, <4>2
      <4>3. CASE i = Len(queue) + 1 /\ j \in DOMAIN queue
        BY <1>8, <3>1, <3>2, <3>4, <4>3
      <4>4. QED
        BY <3>2, <4>1, <4>2, <4>3
    <3>5. QED
      BY <3>3, <3>4 DEF QueueFinal, Finished
  <2>3. QED
    BY <1>1, <2>1, <2>2
<1>10. QED
  BY <1>4, <1>5, <1>9 DEF Final
-----------------------------------------------------------------------------

LEMMA FinalStep == Typed /\ Typed' /\ Final /\ [Next]_vars => Final'
<1> SUFFICES ASSUME Typed, Typed', Final, [Next]_vars PROVE Final'
  OBVIOUS
<1>1. ASSUME NEW k \in Keys, NEW syn \in BOOLEAN, NewFlow(k, syn) PROVE Final'
  BY <1>1, FinalNewFlow
<1>2. CASE \/ \E k \in Keys, syn \in BOOLEAN : UpdateSeen(k, syn)
           \/ UpdateCount \/ UpdateFlags
  BY <1>2, FinalUpdate
<1>3. CASE CollectExpired
  BY <1>3, FinalCollectExpired
<1>4. ASSUME NEW task \in Tasks, ReadSyns(task) PROVE Final'
  BY <1>4, FinalReadSyns
<1>5. ASSUME NEW task \in Tasks, ReadCount(task) PROVE Final'
  BY <1>5, FinalReadCount
<1>6. CASE Tick \/ Stop \/ UNCHANGED vars
  BY <1>6, FinalQuiet
<1>7. CASE \/ Get \/ CollectWindowed
           \/ \E task \in Tasks : Wake(task) \/ Sleep(task)
  BY <1>7, FinalElsewhere
<1>8. QED
  BY <1>1, <1>2, <1>3, <1>4, <1>5, <1>6, <1>7 DEF Next, LoopProgress

LEMMA FinalAlways == Spec => [](Typed /\ Final)
<1>1. Init => Typed /\ Final
  <2>1. Init => Final
    BY DEF Init, Final, TableOnce, WriterHolds, ClockRead, BatchFinal, ReadFinal, QueueFinal,
           Expiring, Unlocked
  <2>2. QED
    BY <2>1, TypedInit
<1>2. Spec => []Typed
  BY SoundAlways, PTL DEF Sound
<1>3. QED
  BY <1>1, <1>2, FinalStep, PTL DEF Spec

\* The vector of a finalized flow counts every packet the flow will ever have,
\* for every number of flows and packets.
THEOREM CompleteSound == Spec => []FinalizedComplete
<1>1. Typed /\ Final => FinalizedComplete
  BY DEF Final, QueueFinal, FinalizedComplete
<1>2. QED
  BY <1>1, FinalAlways, PTL

\* A flow is finalized only after it has been idle for idle_timeout, however
\* late the lock is taken after the clock was read.
THEOREM IdleSound == Spec => []FinalizedIdle
<1>1. Typed /\ Final => FinalizedIdle
  BY DEF Final, QueueFinal, Finished, FinalizedIdle
<1>2. QED
  BY <1>1, FinalAlways, PTL

\* No flow is finalized twice, however the queue is filled and emptied.
THEOREM OnceSound == Spec => []FinalizedOnce
<1>1. Typed /\ Final => FinalizedOnce
  BY DEF Final, QueueFinal, Finished, FinalizedOnce, Held, Expiring, ToSet
<1>2. QED
  BY <1>1, FinalAlways, PTL
-----------------------------------------------------------------------------

\* The table never holds more than max_flows flows.
Room == Cardinality(Active) <= max_flows

LEMMA RoomNewFlow ==
    ASSUME Typed, Room, NEW k \in Keys, NEW syn \in BOOLEAN, NewFlow(k, syn)
    PROVE  Room'
<1> DEFINE fresh == Len(records) + 1
<1> USE SizesAssumption
<1>1. IsFiniteSet(Active) /\ Cardinality(Active) \in Nat
  BY KeysAssumption, FS_Subset, FS_CardinalityType DEF Active
<1>2. /\ table \in [Keys -> 0 .. Len(records)] /\ fresh # 0 /\ k \notin Active
      /\ Active \subseteq Keys
  BY DEF Typed, Shape, NewFlow, Active
<1> HIDE DEF fresh
<1>3. CASE ~NoRoom /\ table' = [table EXCEPT ![k] = fresh]
  <2>1. Active' = Active \cup {k}
    BY <1>2, <1>3 DEF Active
  <2>2. Cardinality(Active') = Cardinality(Active) + 1
    BY <1>1, <1>2, <2>1, FS_AddElement
  <2>3. QED
    BY <1>1, <1>3, <2>2 DEF NoRoom, Room
<1>4. ASSUME NEW evicted \in Oldest, table' = [table EXCEPT ![evicted] = 0, ![k] = fresh]
      PROVE  Room'
  <2>1. evicted \in Active
    BY DEF Oldest
  <2>2. Active' = (Active \ {evicted}) \cup {k}
    BY <1>2, <1>4, <2>1 DEF Active
  <2>3. /\ IsFiniteSet(Active \ {evicted})
        /\ Cardinality(Active \ {evicted}) = Cardinality(Active) - 1
    BY <1>1, <2>1, FS_RemoveElement
  <2>4. k \notin Active \ {evicted}
    BY <1>2
  <2>5. Cardinality((Active \ {evicted}) \cup {k}) = Cardinality(Active \ {evicted}) + 1
    BY <2>3, <2>4, FS_AddElement
  <2>6. Cardinality(Active') = Cardinality(Active)
    BY <1>1, <2>2, <2>3, <2>5
  <2>7. QED
    BY <2>6 DEF Room
<1>5. QED
  BY <1>3, <1>4 DEF NewFlow, fresh

LEMMA RoomStep == Typed /\ Room /\ [Next]_vars => Room'
<1> SUFFICES ASSUME Typed, Room, [Next]_vars PROVE Room'
  OBVIOUS
<1>1. ASSUME NEW k \in Keys, NEW syn \in BOOLEAN, NewFlow(k, syn) PROVE Room'
  BY <1>1, RoomNewFlow
<1>2. CASE table' = table
  BY <1>2 DEF Room, Active
<1>3. CASE CollectExpired
  <2>1. Active' \subseteq Active
    BY <1>3 DEF CollectExpired, Active
  <2>2. IsFiniteSet(Active)
    BY KeysAssumption, FS_Subset DEF Active
  <2>3. /\ Cardinality(Active') \in Nat /\ Cardinality(Active) \in Nat
        /\ Cardinality(Active') <= Cardinality(Active)
    BY <2>1, <2>2, FS_Subset, FS_CardinalityType
  <2>4. QED
    BY <2>3, SizesAssumption DEF Room
<1>4. QED
  BY <1>1, <1>2, <1>3
  DEF Next, LoopProgress, Tick, UpdateSeen, UpdateCount, UpdateFlags, Wake, CollectWindowed,
      ReadSyns, ReadCount, Sleep, Get, Stop, vars

\* The type invariant, with the bounds of the flow table and of the queue.
THEOREM TypeSound == Spec => []TypeOK
<1>1. Init => Room
  <2>1. ASSUME Init PROVE Active = {}
    BY <2>1 DEF Init, Active
  <2>2. QED
    BY <2>1, FS_EmptySet, SizesAssumption DEF Room
<1>2. Spec => []Typed
  BY SoundAlways, PTL DEF Sound
<1>3. Typed /\ Room => TypeOK
  BY DEF Typed, Shape, Room, TypeOK
<1>4. QED
  BY <1>1, <1>2, <1>3, RoomStep, PTL DEF Spec
=============================================================================
