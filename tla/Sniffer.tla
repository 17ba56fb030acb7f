------------------------------ MODULE Sniffer -------------------------------
(***************************************************************************)
(* sniffer.py: FlowTable and PacketSniffer.  Scapy's thread counts packets *)
(* into the records of the flow table (_on_packet, update_or_create); on   *)
(* the event loop one task finalizes idle flows (_flow_expiry_loop) and    *)
(* another takes snapshots of active ones (_window_extraction_loop); both  *)
(* put feature vectors into the bounded queue of the classifier.           *)
(*                                                                         *)
(* The table's lock guards the table, not the records in it: a record that *)
(* a collect_... call has returned is read without it.  So an update of a  *)
(* record, and its conversion into a vector, are one step per access.      *)
(*                                                                         *)
(* Of a record's fields the model keeps the time of the last packet, the   *)
(* packet count and the SYN count; byte_count and the two lists are        *)
(* written next to the packet count, rst_count next to the SYN count.      *)
(***************************************************************************)
EXTENDS Integers, SequencesExt

CONSTANTS Keys,           \* flow keys
          max_flows,
          idle_timeout,
          window_sec,     \* FLOW_WINDOW_LONG
          QueueSize,      \* FEATURE_QUEUE_MAXSIZE
          MaxPackets,     \* bound: packets
          MaxTime         \* bound: ticks of the monotonic clock

ASSUME KeysAssumption  == IsFiniteSet(Keys)
ASSUME SizesAssumption == max_flows \in Nat \ {0} /\ QueueSize \in Nat \ {0}
ASSUME TimesAssumption == idle_timeout \in Nat \ {0} /\ window_sec \in Nat
ASSUME BoundAssumption == MaxPackets \in Nat /\ MaxTime \in Nat

VARIABLES clock,
          packets,     \* packets captured
          records,     \* every FlowRecord created, in order
          table,       \* the flow table: the number of the record of each key, 0 if none
          capturing,   \* Scapy's thread is running
          writer,      \* what it does: update of a record under the table's lock
          running,     \* _running
          tasks,       \* the loop's tasks that have not ended
          loop,        \* what the event loop does
          now,         \* the time the task has read
          batch,       \* records it still has to convert
          read,        \* SYN count it has read of the first of them
          queue        \* feature_queue

vars == <<clock, packets, records, table, capturing, writer, running, tasks, loop, now, batch,
          read, queue>>

Tasks  == {"expiry", "window"}
Record == [key : Keys, last_seen : 0 .. MaxTime, pkt_count : 0 .. MaxPackets,
           syn_count : 0 .. MaxPackets]
Vector == [task : Tasks, record : 1 .. MaxPackets, pkts : Nat, syns : Nat]

\* Scapy's thread outside the table's lock.
Unlocked == [at |-> "unlocked", record |-> 0, syn |-> FALSE]

Active == {k \in Keys : table[k] # 0}
Flow(k) == records[table[k]]

Init ==
    /\ clock = 0
    /\ packets = 0
    /\ records = <<>>
    /\ table = [k \in Keys |-> 0]
    /\ capturing = TRUE
    /\ writer = Unlocked
    /\ running = TRUE
    /\ tasks = Tasks
    /\ loop = "idle"
    /\ now = 0
    /\ batch = <<>>
    /\ read = 0
    /\ queue = <<>>

Tick ==
    /\ clock < MaxTime
    /\ clock' = clock + 1
    /\ UNCHANGED <<packets, records, table, capturing, writer, running, tasks, loop, now, batch,
                   read, queue>>

-----------------------------------------------------------------------------
(* Scapy's thread: _on_packet, update_or_create, FlowRecord.update         *)

\* A new record is filled before the table refers to it.  A full table first
\* gives up the flow that was seen least recently.
Oldest == {k \in Active : \A other \in Active : Flow(k).last_seen <= Flow(other).last_seen}

\* Mutation: one flow too many.
NoRoomLate == Cardinality(Active) > max_flows
NoRoom == Cardinality(Active) >= max_flows

NewFlow(k, syn) ==
    /\ capturing /\ writer = Unlocked
    /\ packets < MaxPackets
    /\ table[k] = 0
    /\ packets' = packets + 1
    /\ records' = Append(records, [key |-> k, last_seen |-> clock, pkt_count |-> 1,
                                   syn_count |-> IF syn THEN 1 ELSE 0])
    /\ \/ /\ ~NoRoom
          /\ table' = [table EXCEPT ![k] = Len(records) + 1]
       \/ /\ NoRoom
          /\ \E evicted \in Oldest :
                table' = [table EXCEPT ![evicted] = 0, ![k] = Len(records) + 1]
    /\ UNCHANGED <<clock, capturing, writer, running, tasks, loop, now, batch, read, queue>>

\* The writes of an update to a record, in their order.
Seen(r)          == [r EXCEPT !.last_seen = clock]
PacketCounted(r) == [r EXCEPT !.pkt_count = @ + 1]
SynCounted(r)    == [r EXCEPT !.syn_count = @ + 1]

\* Mutation: packets of a known flow are not counted.
UpdateSeenUncounted(k, syn) ==
    /\ capturing /\ writer = Unlocked
    /\ packets < MaxPackets
    /\ table[k] # 0
    /\ packets' = packets + 1
    /\ records' = [records EXCEPT ![table[k]] = Seen(@)]
    /\ writer' = [at |-> "flags", record |-> table[k], syn |-> syn]
    /\ UNCHANGED <<clock, table, capturing, running, tasks, loop, now, batch, read, queue>>

UpdateSeen(k, syn) ==
    /\ capturing /\ writer = Unlocked
    /\ packets < MaxPackets
    /\ table[k] # 0
    /\ packets' = packets + 1
    /\ records' = [records EXCEPT ![table[k]] = Seen(@)]
    /\ writer' = [at |-> "count", record |-> table[k], syn |-> syn]
    /\ UNCHANGED <<clock, table, capturing, running, tasks, loop, now, batch, read, queue>>

UpdateCount ==
    /\ writer.at = "count"
    /\ records' = [records EXCEPT ![writer.record] = PacketCounted(@)]
    /\ writer' = [writer EXCEPT !.at = "flags"]
    /\ UNCHANGED <<clock, packets, table, capturing, running, tasks, loop, now, batch, read,
                   queue>>

\* The flags, then the lock is released.
UpdateFlags ==
    /\ writer.at = "flags"
    /\ records' = IF writer.syn
                  THEN [records EXCEPT ![writer.record] = SynCounted(@)]
                  ELSE records
    /\ writer' = Unlocked
    /\ UNCHANGED <<clock, packets, table, capturing, running, tasks, loop, now, batch, read,
                   queue>>

-----------------------------------------------------------------------------
(* The event loop                                                          *)

\* A task's sleep is over, and its collect_... call has read the clock.
Wake(task) ==
    /\ loop = "idle"
    /\ task \in tasks
    /\ loop' = task
    /\ now' = clock
    /\ UNCHANGED <<clock, packets, records, table, capturing, writer, running, tasks, batch,
                   read, queue>>

\* Some order of the records of a set of keys (the order of the dictionary).
Orders(K) == SetToSeqs({table[k] : k \in K})

\* Mutations: the timeout is a tick short; the records stay in the table.
ExpiredEarly == {k \in Active : now - Flow(k).last_seen >= idle_timeout - 1}
Expired == {k \in Active : now - Flow(k).last_seen >= idle_timeout}

CollectExpiredInPlace ==
    /\ loop = "expiry"
    /\ writer = Unlocked
    /\ batch' \in Orders(Expired)
    /\ loop' = "expiry_convert"
    /\ now' = 0
    /\ UNCHANGED <<clock, packets, records, table, capturing, writer, running, tasks, read, queue>>

\* Mutation: without the table's lock.
CollectExpiredUnlocked ==
    /\ loop = "expiry"
    /\ batch' \in Orders(Expired)
    /\ table' = [k \in Keys |-> IF k \in Expired THEN 0 ELSE table[k]]
    /\ loop' = "expiry_convert"
    /\ now' = 0
    /\ UNCHANGED <<clock, packets, records, capturing, writer, running, tasks, read, queue>>

\* collect_expired, once it has the lock.
CollectExpired ==
    /\ loop = "expiry"
    /\ writer = Unlocked
    /\ batch' \in Orders(Expired)
    /\ table' = [k \in Keys |-> IF k \in Expired THEN 0 ELSE table[k]]
    /\ loop' = "expiry_convert"
    /\ now' = 0
    /\ UNCHANGED <<clock, packets, records, capturing, writer, running, tasks, read, queue>>

\* collect_windowed, once it has the lock.
CollectWindowed ==
    /\ loop = "window"
    /\ writer = Unlocked
    /\ batch' \in Orders({k \in Active : /\ now - Flow(k).last_seen < window_sec
                                          /\ Flow(k).pkt_count >= 2})
    /\ loop' = "window_convert"
    /\ now' = 0
    /\ UNCHANGED <<clock, packets, records, table, capturing, writer, running, tasks, read, queue>>

Converting(task) == loop = IF task = "expiry" THEN "expiry_convert" ELSE "window_convert"
Dividing(task)   == loop = IF task = "expiry" THEN "expiry_divide" ELSE "window_divide"

\* to_feature_vector reads the numerator of the ratio.
ReadSyns(task) ==
    /\ Converting(task)
    /\ batch # <<>>
    /\ read' = records[Head(batch)].syn_count
    /\ loop' = IF task = "expiry" THEN "expiry_divide" ELSE "window_divide"
    /\ UNCHANGED <<clock, packets, records, table, capturing, writer, running, tasks, now, batch,
                   queue>>

\* It reads the denominator and makes the vector; a full queue drops it.
ReadCount(task) ==
    /\ Dividing(task)
    /\ LET vector == [task |-> task, record |-> Head(batch),
                      pkts |-> records[Head(batch)].pkt_count, syns |-> read]
       IN  queue' = IF Len(queue) < QueueSize THEN Append(queue, vector) ELSE queue
    /\ batch' = Tail(batch)
    /\ read' = 0
    /\ loop' = IF task = "expiry" THEN "expiry_convert" ELSE "window_convert"
    /\ UNCHANGED <<clock, packets, records, table, capturing, writer, running, tasks, now>>

\* Mutation: the task ends after one round.
SleepOnce(task) ==
    /\ Converting(task)
    /\ batch = <<>>
    /\ loop' = "idle"
    /\ tasks' = tasks \ {task}
    /\ UNCHANGED <<clock, packets, records, table, capturing, writer, running, now, batch, read,
                   queue>>

\* The batch is done: the task sleeps again, or ends when stop was called.
Sleep(task) ==
    /\ Converting(task)
    /\ batch = <<>>
    /\ loop' = "idle"
    /\ tasks' = IF running THEN tasks ELSE tasks \ {task}
    /\ UNCHANGED <<clock, packets, records, table, capturing, writer, running, now, batch, read,
                   queue>>

\* The classifier takes a vector.
Get ==
    /\ loop = "idle"
    /\ queue # <<>>
    /\ queue' = Tail(queue)
    /\ UNCHANGED <<clock, packets, records, table, capturing, writer, running, tasks, loop, now,
                   batch, read>>

\* stop waits for Scapy's thread to end, unless Scapy raises an error; then
\* the thread goes on.
Stop ==
    /\ running /\ loop = "idle"
    /\ running' = FALSE
    /\ \/ writer = Unlocked /\ capturing' = FALSE
       \/ UNCHANGED capturing
    /\ UNCHANGED <<clock, packets, records, table, writer, tasks, loop, now, batch, read, queue>>

-----------------------------------------------------------------------------

LoopProgress ==
    \/ CollectExpired \/ CollectWindowed
    \/ \E task \in Tasks : ReadSyns(task) \/ ReadCount(task) \/ Sleep(task)

Next ==
    \/ Tick
    \/ \E k \in Keys, syn \in BOOLEAN : NewFlow(k, syn) \/ UpdateSeen(k, syn)
    \/ UpdateCount \/ UpdateFlags
    \/ \E task \in Tasks : Wake(task)
    \/ LoopProgress
    \/ Get \/ Stop

Spec == Init /\ [][Next]_vars

(***************************************************************************)
(* Scapy's thread ends an update it has begun, the event loop runs (and    *)
(* gets the table's lock in the end, however many packets come), and a     *)
(* task whose sleep is over gets its turn: asyncio runs ready tasks first  *)
(* in, first out.  Packets need not come, and nobody need call stop.       *)
(***************************************************************************)
FairSpec ==
    /\ Spec
    /\ WF_vars(UpdateCount \/ UpdateFlags)
    /\ SF_vars(LoopProgress)
    /\ \A task \in Tasks : SF_vars(Wake(task))

-----------------------------------------------------------------------------
(* Properties                                                              *)

Labels == {"idle", "expiry", "expiry_convert", "expiry_divide", "window", "window_convert",
           "window_divide"}

\* Every variable keeps its type; the table never holds more than max_flows
\* flows, nor the queue more than its size.
TypeOK ==
    /\ clock \in 0 .. MaxTime
    /\ packets \in 0 .. MaxPackets
    /\ records \in Seq(Record)
    /\ table \in [Keys -> 0 .. Len(records)]
    /\ Cardinality(Active) <= max_flows
    /\ capturing \in BOOLEAN
    /\ writer \in [at : {"count", "flags"}, record : DOMAIN records, syn : BOOLEAN]
                   \cup {Unlocked}
    /\ running \in BOOLEAN
    /\ tasks \subseteq Tasks
    /\ loop \in Labels
    /\ now \in 0 .. MaxTime
    /\ batch \in Seq(DOMAIN records)
    /\ read \in 0 .. MaxPackets
    /\ queue \in Seq(Vector) /\ Len(queue) <= QueueSize

\* The SYN ratio of a vector is at most 1, although snapshots read the two
\* counts of a record while Scapy's thread writes them: it counts the packet
\* before the flag, and to_feature_vector reads the flag count first.
RatiosAtMostOne == \A i \in DOMAIN queue : queue[i].syns <= queue[i].pkts

\* The vector of a finalized flow is complete: it counts every packet its
\* record will ever count.  Snapshots give no such promise.
FinalizedComplete ==
    \A i \in DOMAIN queue :
        queue[i].task = "expiry" =>
            /\ queue[i].pkts = records[queue[i].record].pkt_count
            /\ queue[i].syns = records[queue[i].record].syn_count

\* Only a flow that had been idle for idle_timeout is finalized, although the
\* clock is read before the lock is taken and packets come in between.
FinalizedIdle ==
    \A i \in DOMAIN queue :
        queue[i].task = "expiry" =>
            clock - records[queue[i].record].last_seen >= idle_timeout

\* A flow is finalized at most once: its vector is in the queue once, and the
\* table and the rest of the batch are done with it.
FinalizedOnce ==
    \A i \in DOMAIN queue :
        queue[i].task = "expiry" =>
            /\ \A j \in DOMAIN queue \ {i} :
                  queue[j].task = "expiry" => queue[j].record # queue[i].record
            /\ queue[i].record \notin {table[k] : k \in Keys}
            /\ loop \in {"expiry_convert", "expiry_divide"} =>
                  queue[i].record \notin ToSet(batch)

\* While the sniffer runs, a flow that has been idle for idle_timeout leaves
\* the table or gets another packet.
IdleFlowsLeave ==
    \A k \in Keys, r \in 1 .. MaxPackets :
        (table[k] = r /\ clock - records[r].last_seen >= idle_timeout)
        ~> (table[k] # r \/ clock - records[r].last_seen < idle_timeout \/ ~running)
=============================================================================
