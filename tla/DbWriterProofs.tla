--------------------------- MODULE DbWriterProofs ---------------------------
(***************************************************************************)
(* Proofs about the database writer for any number of addresses, events,   *)
(* errors and crashes, and any size of the queue and of a batch.           *)
(***************************************************************************)
EXTENDS DbWriter, SequenceTheorems, TLAPS

-----------------------------------------------------------------------------
(* Sequences and the sets of their elements.                               *)

LEMMA ToSetConcat ==
    ASSUME NEW S, NEW s \in Seq(S), NEW t \in Seq(S)
    PROVE  ToSet(s \o t) = ToSet(s) \cup ToSet(t)
<1>1. Range(s \o t) = Range(s) \cup Range(t)
  BY RangeConcatenation
<1> QED
  BY <1>1 DEF ToSet, Range

LEMMA ToSetAppend ==
    ASSUME NEW S, NEW s \in Seq(S), NEW e \in S
    PROVE  ToSet(Append(s, e)) = ToSet(s) \cup {e}
<1>1. <<e>> \in Seq(S) /\ ToSet(<<e>>) = {e}
  BY DEF ToSet
<1>2. Append(s, e) = s \o <<e>>
  BY AppendIsConcat
<1>3. ToSet(s \o <<e>>) = ToSet(s) \cup ToSet(<<e>>)
  BY <1>1, ToSetConcat
<1> QED
  BY <1>1, <1>2, <1>3

LEMMA ToSetHeadTail ==
    ASSUME NEW S, NEW s \in Seq(S), s # <<>>
    PROVE  ToSet(s) = {Head(s)} \cup ToSet(Tail(s))
<1> DEFINE h == <<Head(s)>>
<1>1. h \in Seq(S) /\ ToSet(h) = {Head(s)}
  BY HeadTailProperties DEF ToSet
<1>2. Tail(s) \in Seq(S) /\ s = h \o Tail(s)
  BY HeadTailProperties
<1> HIDE DEF h
<1>3. ToSet(h \o Tail(s)) = ToSet(h) \cup ToSet(Tail(s))
  BY <1>1, <1>2, ToSetConcat
<1> QED
  BY <1>1, <1>2, <1>3

\* The two parts of a concatenation.
LEMMA ConcatParts ==
    ASSUME NEW S, NEW s \in Seq(S), NEW t \in Seq(S), NEW p, p = s \o t
    PROVE  /\ SubSeq(p, 1, Len(s)) = s
           /\ SubSeq(p, Len(s) + 1, Len(p)) = t
<1>1. /\ Len(s) \in Nat /\ Len(t) \in Nat
      /\ p \in Seq(S) /\ Len(p) = Len(s) + Len(t)
      /\ \A i \in 1 .. Len(s) : p[i] = s[i]
      /\ \A i \in 1 .. Len(t) : p[Len(s) + i] = t[i]
  BY LenProperties, ConcatProperties
<1>2. SubSeq(p, 1, Len(s)) = s
  <2>1. /\ SubSeq(p, 1, Len(s)) \in Seq(S) /\ Len(SubSeq(p, 1, Len(s))) = Len(s)
        /\ \A i \in 1 .. Len(s) : SubSeq(p, 1, Len(s))[i] = p[i]
    BY <1>1
  <2> QED
    BY <1>1, <2>1, SeqEqual
<1>3. SubSeq(p, Len(s) + 1, Len(p)) = t
  <2> DEFINE m == Len(s) + 1
  <2>1. /\ m \in Int /\ Len(p) \in Int /\ Len(p) - m + 1 = Len(t)
        /\ \A i \in m .. Len(p) : p[i] \in S
    BY <1>1
  <2> HIDE DEF m
  <2>2. /\ SubSeq(p, m, Len(p)) \in Seq(S)
        /\ Len(SubSeq(p, m, Len(p))) = IF m <= Len(p) THEN Len(p) - m + 1 ELSE 0
        /\ \A i \in 1 .. Len(p) - m + 1 : SubSeq(p, m, Len(p))[i] = p[m + i - 1]
    BY <2>1, SubSeqProperties
  <2>3. Len(SubSeq(p, m, Len(p))) = Len(t)
    BY <1>1, <2>1, <2>2
  <2>4. \A i \in 1 .. Len(t) : SubSeq(p, m, Len(p))[i] = t[i]
    BY <1>1, <2>1, <2>2 DEF m
  <2> QED
    BY <2>2, <2>3, <2>4, SeqEqual DEF m
<1> QED
  BY <1>2, <1>3

\* t is s without a run of its elements.
IsCut(s, t) ==
    \E first, last \in 1 .. Len(s) :
        first <= last /\ t = SubSeq(s, 1, first - 1) \o SubSeq(s, last + 1, Len(s))

LEMMA CutMiddle ==
    ASSUME NEW S, NEW a \in Seq(S), NEW b \in Seq(S), NEW c \in Seq(S), b # <<>>
    PROVE  IsCut(a \o b \o c, a \o c)
<1> DEFINE p == a \o b \o c
<1>1. Len(a) \in Nat /\ Len(b) \in Nat \ {0} /\ Len(c) \in Nat
  BY EmptySeq, LenProperties
<1>2. /\ a \o b \in Seq(S) /\ Len(a \o b) = Len(a) + Len(b)
      /\ b \o c \in Seq(S) /\ p = a \o (b \o c)
      /\ Len(p) = Len(a) + Len(b) + Len(c)
  BY <1>1, ConcatProperties, ConcatAssociative
<1>3. SubSeq(p, 1, Len(a)) = a
  BY <1>2, ConcatParts
<1>4. SubSeq(p, Len(a) + Len(b) + 1, Len(p)) = c
  BY <1>2, ConcatParts
<1> DEFINE first == Len(a) + 1
           last  == Len(a) + Len(b)
<1>5. first \in 1 .. Len(p) /\ last \in 1 .. Len(p) /\ first <= last
  BY <1>1, <1>2
<1>6. first - 1 = Len(a)
  BY <1>1
<1>7. a \o c = SubSeq(p, 1, first - 1) \o SubSeq(p, last + 1, Len(p))
  BY <1>3, <1>4, <1>6
<1> HIDE DEF first, last
<1> QED
  BY <1>5, <1>7 DEF IsCut

-----------------------------------------------------------------------------
(* The invariant.                                                          *)

\* The batch has room whenever the writer is about to take an event, and is
\* empty whenever its rows were handed to SQLite.
BatchRoom ==
    /\ writer = "loop" => Len(batch) < BATCH_SIZE
    /\ writer \in {"down", "commit", "final_commit", "done"} => batch = <<>>

TypeInv == TypeOK /\ BatchRoom

\* Nothing is lost while SQLite does not fail: an accepted event is in the
\* table or on its way, and only on its way through SQLite once the writer has
\* left its loop, which it does after stop and with an empty queue.
OwedKept ==
    errors = 0 =>
        /\ owed \subseteq ToSet(rows) \cup ToSet(tx) \cup ToSet(batch) \cup ToSet(queue)
        /\ writer \notin {"commit", "final_commit"} => tx = <<>>
        /\ writer \in {"final_insert", "final_commit", "done"} =>
              ~running /\ owed \subseteq ToSet(rows) \cup ToSet(tx) \cup ToSet(batch)

StopInv == TypeInv /\ OwedKept

-----------------------------------------------------------------------------
(* Types.                                                                  *)

LEMMA EmptyEvents == <<>> \in Seq(Events) /\ Len(<<>>) = 0
BY EmptySeq

LEMMA InitTypes == Init => TypeInv
<1> SUFFICES ASSUME Init PROVE TypeInv
  OBVIOUS
<1> USE SizesAssumption, BoundsAssumption, EmptyEvents DEF Init
<1>1. queue \in Seq(Events) /\ Len(queue) <= QueueSize
  OBVIOUS
<1>2. batch \in Seq(Events) /\ Len(batch) < BATCH_SIZE
  OBVIOUS
<1>3. tx \in Seq(Events) /\ rows \in Seq(Events)
  OBVIOUS
<1>4. writer = "down" /\ batch = <<>>
  OBVIOUS
<1>5. BatchRoom
  BY <1>4 DEF BatchRoom
<1>6. running \in BOOLEAN /\ due \in BOOLEAN
  OBVIOUS
<1>7. /\ overridden \subseteq Events /\ owed \subseteq Events
  OBVIOUS
<1>8. /\ calls \in 0 .. MaxEvents /\ errors \in 0 .. MaxErrors /\ crashes \in 0 .. MaxCrashes
  OBVIOUS
<1>9. TypeOK
  BY <1>1, <1>2, <1>3, <1>4, <1>6, <1>7, <1>8 DEF TypeOK
<1> QED
  BY <1>5, <1>9 DEF TypeInv

LEMMA ProcessKeepsTypes ==
    ASSUME TypeInv, Start \/ Stop \/ End
    PROVE  TypeInv'
<1> USE SizesAssumption, BoundsAssumption, EmptyEvents DEF TypeInv, TypeOK, BatchRoom
<1>1. CASE Start  BY <1>1 DEF Start
<1>2. CASE Stop   BY <1>2 DEF Stop
<1>3. CASE End
  <2>1. /\ queue' \in Seq(Events) /\ batch' \in Seq(Events) /\ tx' \in Seq(Events)
        /\ Len(queue') <= QueueSize /\ Len(batch') < BATCH_SIZE
    BY <1>3 DEF End
  <2>2. batch' = <<>>
    BY <1>3 DEF End
  <2>3. BatchRoom'
    BY <2>1, <2>2
  <2>4. crashes' \in 0 .. MaxCrashes
    BY <1>3 DEF End
  <2>5. running' \in BOOLEAN /\ due' \in BOOLEAN /\ owed' \subseteq Events
    BY <1>3 DEF End
  <2>6. /\ writer' = "down"
        /\ UNCHANGED <<rows, overridden, calls, errors>>
    BY <1>3 DEF End
  <2>7. Len(batch') <= BATCH_SIZE
    BY <2>1, LenProperties
  <2>8. TypeOK'
    BY <2>1, <2>4, <2>5, <2>6, <2>7
  <2> QED
    BY <2>3, <2>8
<1> QED  BY <1>1, <1>2, <1>3

LEMMA CallersKeepTypes ==
    ASSUME TypeInv, NEW ip \in IPs, LogEvent(ip) \/ UpdateRuleStatus(ip)
    PROVE  TypeInv'
<1> USE SizesAssumption, BoundsAssumption, EmptyEvents DEF TypeInv, TypeOK, BatchRoom
<1>1. CASE LogEvent(ip)
  <2> DEFINE event == [id |-> calls + 1, ip |-> ip]
  <2>1. event \in Events /\ calls' \in 0 .. MaxEvents
    BY <1>1 DEF LogEvent, Events
  <2>2. queue' \in Seq(Events) /\ Len(queue') <= QueueSize
    <3>1. CASE Len(queue) < QueueSize
      <4>1. queue' = Append(queue, event)
        BY <1>1, <3>1 DEF LogEvent
      <4> QED
        BY <2>1, <3>1, <4>1, AppendProperties, LenProperties
    <3>2. CASE Len(queue) >= QueueSize
      BY <1>1, <3>2 DEF LogEvent
    <3> QED
      BY <3>1, <3>2, LenProperties
  <2>3. owed' \subseteq Events
    BY <1>1, <2>1 DEF LogEvent
  <2> QED
    BY <1>1, <2>1, <2>2, <2>3 DEF LogEvent
<1>2. CASE UpdateRuleStatus(ip)
  <2>1. Matching(ip) \subseteq Events
    BY DEF Matching, ToSet
  <2> QED
    BY <1>2, <2>1 DEF UpdateRuleStatus
<1> QED  BY <1>1, <1>2

LEMMA WriterKeepsTypes ==
    ASSUME TypeInv, WriterStep \/ FlushIntervalPasses
    PROVE  TypeInv'
<1> USE SizesAssumption, BoundsAssumption, EmptyEvents DEF TypeInv, TypeOK, BatchRoom
<1>1. CASE WriterGet
  <2>1. /\ Head(queue) \in Events /\ Tail(queue) \in Seq(Events)
        /\ Len(Tail(queue)) = Len(queue) - 1
    BY <1>1, HeadTailProperties DEF WriterGet
  <2>2. /\ Append(batch, Head(queue)) \in Seq(Events)
        /\ Len(Append(batch, Head(queue))) = Len(batch) + 1
    BY <2>1, AppendProperties
  <2>3. Len(batch) \in Nat /\ Len(queue) \in Nat
    BY LenProperties
  <2> QED
    BY <1>1, <2>1, <2>2, <2>3 DEF WriterGet
<1>2. CASE WriterIdle
  BY <1>2, LenProperties DEF WriterIdle
<1>3. CASE WriterExit
  BY <1>3 DEF WriterExit
<1>4. CASE WriterCheck
  BY <1>4, LenProperties DEF WriterCheck, FlushDue
<1>5. CASE Insert
  <2>1. tx \o batch \in Seq(Events)
    BY ConcatProperties
  <2>2. ASSUME NEW inserted \in Prefixes(batch)
        PROVE  tx \o inserted \in Seq(Events)
    <3>1. inserted \in Seq(Events)
      BY SubSeqProperties, LenProperties DEF Prefixes
    <3> QED
      BY <3>1, ConcatProperties
  <2>3. \/ tx' = tx \o batch
        \/ \E inserted \in Prefixes(batch) : tx' = tx \o inserted
        \/ tx' = <<>>
    BY <1>5 DEF Insert
  <2>4. tx' \in Seq(Events)
    BY <2>1, <2>2, <2>3
  <2>5. errors' \in 0 .. MaxErrors /\ due' = FALSE
    BY <1>5 DEF Insert
  <2>6. /\ batch' = <<>>
        /\ writer' \in {"loop", "commit", "final_commit", "done"}
        /\ UNCHANGED <<queue, running, rows, overridden, calls, owed, crashes>>
    BY <1>5 DEF Insert
  <2>7. batch' \in Seq(Events) /\ Len(batch') < BATCH_SIZE /\ Len(batch') <= BATCH_SIZE
    BY <2>6
  <2>8. BatchRoom'
    BY <2>6, <2>7
  <2>9. due' \in BOOLEAN
    BY <2>5
  <2>10. TypeOK'
    BY <2>4, <2>5, <2>6, <2>7, <2>9
  <2> QED
    BY <2>8, <2>10
<1>6. CASE Commit
  <2>1. rows \o tx \in Seq(Events)
    BY ConcatProperties
  <2>2. /\ tx' \in {tx, <<>>} /\ rows' \in {rows, rows \o tx}
        /\ errors' \in 0 .. MaxErrors
    BY <1>6 DEF Commit
  <2>3. /\ batch' = <<>>
        /\ writer' \in {"loop", "done"}
        /\ UNCHANGED <<queue, running, batch, due, overridden, calls, owed, crashes>>
    BY <1>6 DEF Commit
  <2>4. Len(batch') = 0
    BY <2>3
  <2>5. BatchRoom'
    BY <2>3, <2>4
  <2>6. tx' \in Seq(Events) /\ rows' \in Seq(Events)
    BY <2>1, <2>2
  <2>7. TypeOK'
    BY <2>2, <2>3, <2>6
  <2> QED
    BY <2>5, <2>7
<1>7. CASE FlushIntervalPasses
  BY <1>7 DEF FlushIntervalPasses
<1> QED
  BY <1>1, <1>2, <1>3, <1>4, <1>5, <1>6, <1>7 DEF WriterStep

LEMMA TypeInvHolds == Spec => []TypeInv
<1>1. TypeInv /\ [Next]_vars => TypeInv'
  <2> SUFFICES ASSUME TypeInv, [Next]_vars
               PROVE  TypeInv'
    OBVIOUS
  <2>1. CASE UNCHANGED vars
    BY <2>1 DEF vars, TypeInv, TypeOK, BatchRoom
  <2> QED
    BY <2>1, ProcessKeepsTypes, CallersKeepTypes, WriterKeepsTypes DEF Next
<1> QED
  BY <1>1, InitTypes, PTL DEF Spec

\* Every variable keeps its type: the queue never exceeds its size, and a batch
\* that is flushed never BATCH_SIZE events, whatever fails (_writer_loop).
THEOREM TypeSound == Spec => []TypeOK
<1>1. TypeInv => TypeOK
  BY DEF TypeInv
<1> QED
  BY <1>1, TypeInvHolds, PTL
-----------------------------------------------------------------------------
(* stop flushes.                                                           *)

LEMMA ProcessKeepsOwed ==
    ASSUME StopInv, Start \/ Stop \/ End
    PROVE  OwedKept'
<1> USE DEF StopInv, OwedKept
<1>1. CASE Start  BY <1>1 DEF Start
<1>2. CASE Stop   BY <1>2 DEF Stop
<1>3. CASE End    BY <1>3 DEF End
<1> QED  BY <1>1, <1>2, <1>3

LEMMA CallersKeepOwed ==
    ASSUME StopInv, NEW ip \in IPs, LogEvent(ip) \/ UpdateRuleStatus(ip)
    PROVE  OwedKept'
<1> USE DEF StopInv, OwedKept
<1>1. CASE LogEvent(ip)
  <2> DEFINE event == [id |-> calls + 1, ip |-> ip]
  <2>1. CASE Len(queue) < QueueSize
    <3> ~(Len(queue) >= QueueSize)
      BY <2>1, LenProperties, SizesAssumption DEF TypeInv, TypeOK
    <3>1. /\ queue' = Append(queue, event)
          /\ owed' = IF running THEN owed \cup {event} ELSE owed
          /\ UNCHANGED <<running, writer, batch, tx, rows, errors>>
      BY <1>1, <2>1, Zenon DEF LogEvent
    <3>2. event \in Events /\ queue \in Seq(Events)
      BY <1>1, BoundsAssumption DEF LogEvent, Events, TypeInv, TypeOK
    <3> HIDE DEF event
    <3>3. ToSet(queue') = ToSet(queue) \cup {event}
      BY <3>1, <3>2, ToSetAppend
    <3> QED
      BY <3>1, <3>3
  <2>2. CASE Len(queue) >= QueueSize
    BY <1>1, <2>2, LenProperties, SizesAssumption DEF LogEvent, TypeInv, TypeOK
  <2> QED
    BY <2>1, <2>2, LenProperties, SizesAssumption DEF TypeInv, TypeOK
<1>2. CASE UpdateRuleStatus(ip)
  BY <1>2 DEF UpdateRuleStatus
<1> QED  BY <1>1, <1>2

LEMMA WriterKeepsOwed ==
    ASSUME StopInv, WriterStep \/ FlushIntervalPasses
    PROVE  OwedKept'
<1> USE DEF StopInv, OwedKept
<1>1. /\ queue \in Seq(Events) /\ batch \in Seq(Events)
      /\ tx \in Seq(Events) /\ rows \in Seq(Events)
  BY DEF TypeInv, TypeOK
<1>2. ToSet(<<>>) = {}
  BY DEF ToSet
<1>3. CASE WriterGet
  <2>1. ToSet(queue) = {Head(queue)} \cup ToSet(Tail(queue))
    BY <1>1, <1>3, ToSetHeadTail DEF WriterGet
  <2>2. ToSet(batch') = ToSet(batch) \cup {Head(queue)}
    BY <1>1, <1>3, HeadTailProperties, ToSetAppend DEF WriterGet
  <2> QED
    BY <1>3, <2>1, <2>2 DEF WriterGet
<1>4. CASE WriterIdle
  BY <1>4 DEF WriterIdle
<1>5. CASE WriterExit
  BY <1>2, <1>5 DEF WriterExit
<1>6. CASE WriterCheck
  BY <1>6 DEF WriterCheck
<1>7. CASE Insert
  <2>1. CASE errors' = errors /\ tx' = tx \o batch
    <3>1. ToSet(tx') = ToSet(tx) \cup ToSet(batch)
      BY <1>1, <2>1, ToSetConcat
    <3> QED
      BY <1>2, <1>7, <2>1, <3>1 DEF Insert
  <2>2. CASE errors' = errors + 1
    BY <2>2 DEF TypeInv, TypeOK
  <2> QED
    BY <1>7, <2>1, <2>2 DEF Insert
<1>8. CASE Commit
  <2>1. CASE errors' = errors /\ rows' = rows \o tx /\ tx' = <<>>
    <3>1. ToSet(rows') = ToSet(rows) \cup ToSet(tx)
      BY <1>1, <2>1, ToSetConcat
    <3> QED
      BY <1>2, <1>8, <2>1, <3>1 DEF Commit
  <2>2. CASE errors' = errors + 1
    BY <2>2 DEF TypeInv, TypeOK
  <2> QED
    BY <1>8, <2>1, <2>2 DEF Commit
<1>9. CASE FlushIntervalPasses
  BY <1>9 DEF FlushIntervalPasses
<1> QED
  BY <1>3, <1>4, <1>5, <1>6, <1>7, <1>8, <1>9 DEF WriterStep

LEMMA StopInvHolds == Spec => []StopInv
<1>1. Init => OwedKept
  BY DEF Init, OwedKept
<1>2. StopInv /\ [Next]_vars => OwedKept'
  <2> SUFFICES ASSUME StopInv, [Next]_vars
               PROVE  OwedKept'
    OBVIOUS
  <2>1. CASE UNCHANGED vars
    BY <2>1 DEF vars, StopInv, OwedKept
  <2> QED
    BY <2>1, ProcessKeepsOwed, CallersKeepOwed, WriterKeepsOwed DEF Next
<1>3. TypeInv /\ OwedKept <=> StopInv
  BY DEF StopInv
<1> QED
  BY <1>1, <1>2, <1>3, TypeInvHolds, PTL DEF Spec

\* When the writer has ended and SQLite has not failed, every event accepted
\* before stop was called is committed, however calls of log_event and stop
\* interleave with the writer's steps and however many lives the process has.
THEOREM StopSound == Spec => []StopFlushes
<1>1. StopInv => StopFlushes
  <2> SUFFICES ASSUME StopInv, writer = "done", errors = 0
               PROVE  owed \subseteq ToSet(rows)
    BY DEF StopFlushes
  <2>1. tx = <<>> /\ batch = <<>>
    BY DEF StopInv, OwedKept, TypeInv, BatchRoom
  <2>2. ToSet(<<>>) = {}
    BY DEF ToSet
  <2> QED
    BY <2>1, <2>2 DEF StopInv, OwedKept
<1> QED
  BY <1>1, StopInvHolds, PTL
-----------------------------------------------------------------------------
(* The writer implements the lossy log.                                    *)

pending == tx \o batch \o queue

LogStep == [Log!Next]_<<pending, rows>>

\* A step that removes the middle part of what is pending, also an empty one.
LEMMA LoseStep ==
    ASSUME NEW a \in Seq(Events), NEW b \in Seq(Events), NEW c \in Seq(Events),
           pending = a \o b \o c, pending' = a \o c, rows' = rows
    PROVE  LogStep
<1>1. CASE b = <<>>
  <2>1. pending' = pending
    BY <1>1, ConcatEmptySeq
  <2> QED
    BY <2>1 DEF LogStep
<1>2. CASE b # <<>>
  <2>1. IsCut(pending, pending')
    BY <1>2, CutMiddle
  <2>2. PICK first \in 1 .. Len(pending), last \in 1 .. Len(pending) :
            first <= last /\ Log!Lose(first, last)
    BY <2>1 DEF IsCut, Log!Lose, pending
  <2> QED
    BY <2>2 DEF LogStep, Log!Next, pending
<1> QED
  BY <1>1, <1>2

LEMMA ProcessImplements ==
    ASSUME TypeInv, Start \/ Stop \/ End
    PROVE  LogStep
<1>1. tx \in Seq(Events) /\ batch \in Seq(Events) /\ queue \in Seq(Events)
  BY DEF TypeInv, TypeOK
<1>2. CASE Start \/ Stop
  BY <1>2 DEF Start, Stop, LogStep, pending
<1>3. CASE End
  <2>1. pending \in Seq(Events)
    BY <1>1, ConcatProperties DEF pending
  <2>2. pending' = <<>> \o <<>> /\ rows' = rows
    BY <1>3, EmptyEvents, ConcatEmptySeq DEF End, pending
  <2>3. pending = <<>> \o pending \o <<>>
    BY <2>1, EmptyEvents, ConcatEmptySeq
  <2> QED
    BY <2>1, <2>2, <2>3, EmptyEvents, LoseStep
<1> QED  BY <1>2, <1>3

LEMMA CallersImplement ==
    ASSUME TypeInv, NEW ip \in IPs, LogEvent(ip) \/ UpdateRuleStatus(ip)
    PROVE  LogStep
<1>1. tx \in Seq(Events) /\ batch \in Seq(Events) /\ queue \in Seq(Events)
  BY DEF TypeInv, TypeOK
<1>2. CASE LogEvent(ip)
  <2> DEFINE event == [id |-> calls + 1, ip |-> ip]
  <2>1. CASE queue' = Append(queue, event)
    <3>1. event \in Events
      BY <1>2, BoundsAssumption DEF LogEvent, Events, TypeInv, TypeOK
    <3>2. rows' = rows /\ tx' = tx /\ batch' = batch
      BY <1>2 DEF LogEvent
    <3> HIDE DEF event
    <3>3. tx \o batch \in Seq(Events) /\ <<event>> \in Seq(Events)
      BY <1>1, <3>1, ConcatProperties
    <3>4. /\ queue' = queue \o <<event>>
          /\ Append(pending, event) = pending \o <<event>>
      BY <1>1, <2>1, <3>1, <3>3, AppendIsConcat, ConcatProperties DEF pending
    <3>5. pending' = Append(pending, event)
      BY <1>1, <3>2, <3>3, <3>4, ConcatAssociative DEF pending
    <3>6. Log!Log(event)
      BY <3>2, <3>5 DEF Log!Log, pending
    <3> QED
      BY <3>1, <3>6 DEF LogStep, Log!Next
  <2>2. CASE queue' = queue
    BY <1>2, <2>2 DEF LogEvent, LogStep, pending
  <2> QED
    BY <1>2, <2>1, <2>2 DEF LogEvent
<1>3. CASE UpdateRuleStatus(ip)
  BY <1>3 DEF UpdateRuleStatus, LogStep, pending
<1> QED  BY <1>2, <1>3

LEMMA InsertImplements ==
    ASSUME TypeInv, Insert
    PROVE  LogStep
<1>1. tx \in Seq(Events) /\ batch \in Seq(Events) /\ queue \in Seq(Events)
  BY DEF TypeInv, TypeOK
<1>2. batch' = <<>> /\ queue' = queue /\ rows' = rows
  BY DEF Insert
<1>3. ASSUME NEW t \in Seq(Events), tx' = t
      PROVE  pending' = t \o queue
  BY <1>2, <1>3, ConcatEmptySeq DEF pending
<1>4. CASE tx' = tx \o batch
  <2>1. pending' = pending
    BY <1>1, <1>3, <1>4, ConcatProperties DEF pending
  <2> QED
    BY <1>2, <2>1 DEF LogStep
<1>5. ASSUME NEW inserted \in Prefixes(batch), tx' = tx \o inserted
      PROVE  LogStep
  <2>1. PICK n \in 0 .. Len(batch) : inserted = SubSeq(batch, 1, n)
    BY DEF Prefixes
  <2> DEFINE failed == SubSeq(batch, n + 1, Len(batch))
  <2>2. inserted \in Seq(Events) /\ failed \in Seq(Events)
    BY <1>1, <2>1, SubSeqProperties, LenProperties
  <2>3. batch = inserted \o failed
    <3>1. /\ 1 \in 1 .. Len(batch) + 1 /\ n \in 1 - 1 .. Len(batch)
          /\ Len(batch) \in n .. Len(batch)
      BY <1>1, LenProperties
    <3>2. SubSeq(batch, 1, n) \o SubSeq(batch, n + 1, Len(batch)) = SubSeq(batch, 1, Len(batch))
      BY <1>1, <3>1, ConcatAdjacentSubSeq
    <3> QED
      BY <1>1, <2>1, <3>2, SubSeqFull
  <2> HIDE DEF failed
  <2>4. pending = (tx \o inserted) \o failed \o queue
    BY <1>1, <2>2, <2>3, ConcatAssociative DEF pending
  <2>5. tx \o inserted \in Seq(Events)
    BY <1>1, <2>2, ConcatProperties
  <2>6. pending' = (tx \o inserted) \o queue
    BY <1>3, <1>5, <2>5
  <2> QED
    BY <1>1, <1>2, <2>2, <2>4, <2>5, <2>6, LoseStep
<1>6. CASE tx' = <<>>
  <2>1. tx \o batch \in Seq(Events)
    BY <1>1, ConcatProperties
  <2>2. pending = <<>> \o (tx \o batch) \o queue
    BY <2>1, ConcatEmptySeq DEF pending
  <2>3. pending' = <<>> \o queue
    BY <1>3, <1>6, EmptyEvents
  <2> QED
    BY <1>1, <1>2, <2>1, <2>2, <2>3, EmptyEvents, LoseStep
<1> QED
  BY <1>4, <1>5, <1>6 DEF Insert

LEMMA CommitImplements ==
    ASSUME TypeInv, Commit
    PROVE  LogStep
<1>1. /\ tx \in Seq(Events) /\ queue \in Seq(Events) /\ rows \in Seq(Events)
      /\ batch = <<>> /\ batch' = <<>> /\ queue' = queue
  BY DEF TypeInv, TypeOK, BatchRoom, Commit
<1>2. pending = tx \o queue /\ pending' = tx' \o queue
  <2>1. \/ tx' = tx
        \/ tx' = <<>>
    BY DEF Commit
  <2>2. tx' \in Seq(Events)
    BY <1>1, <2>1, EmptyEvents
  <2> QED
    BY <1>1, <2>2, ConcatEmptySeq DEF pending
<1>3. CASE rows' = rows \o tx /\ tx' = <<>>
  <2>1. pending' = queue
    BY <1>1, <1>2, <1>3, ConcatEmptySeq
  <2>2. CASE tx = <<>>
    <3>1. pending' = pending /\ rows' = rows
      BY <1>1, <1>2, <1>3, <2>2, ConcatEmptySeq
    <3> QED
      BY <3>1 DEF LogStep
  <2>3. CASE tx # <<>>
    <3>1. Len(tx) \in Nat \ {0} /\ Len(queue) \in Nat /\ Len(pending) = Len(tx) + Len(queue)
      BY <1>1, <1>2, <2>3, EmptySeq, LenProperties, ConcatProperties
    <3>2. /\ SubSeq(pending, 1, Len(tx)) = tx
          /\ SubSeq(pending, Len(tx) + 1, Len(pending)) = queue
      BY <1>1, <1>2, ConcatParts
    <3>3. Log!Persist(Len(tx))
      BY <1>3, <2>1, <3>2 DEF Log!Persist, pending
    <3>4. Len(tx) \in 1 .. Len(pending)
      BY <3>1
    <3> QED
      BY <3>3, <3>4 DEF LogStep, Log!Next, pending
  <2> QED  BY <2>2, <2>3
<1>4. CASE tx' = tx /\ rows' = rows
  <2>1. pending' = pending
    BY <1>2, <1>4
  <2> QED
    BY <1>4, <2>1 DEF LogStep
<1>5. CASE tx' = <<>> /\ rows' = rows
  <2>1. pending = <<>> \o tx \o queue
    BY <1>1, <1>2, ConcatEmptySeq
  <2>2. pending' = <<>> \o queue
    BY <1>2, <1>5
  <2> QED
    BY <1>1, <1>5, <2>1, <2>2, EmptyEvents, LoseStep
<1> QED
  BY <1>3, <1>4, <1>5 DEF Commit

LEMMA WriterImplements ==
    ASSUME TypeInv, WriterStep \/ FlushIntervalPasses
    PROVE  LogStep
<1>1. tx \in Seq(Events) /\ batch \in Seq(Events) /\ queue \in Seq(Events)
  BY DEF TypeInv, TypeOK
<1>2. CASE WriterGet
  <2> DEFINE h == <<Head(queue)>>
             t == Tail(queue)
  <2>1. h \in Seq(Events) /\ t \in Seq(Events) /\ queue = h \o t
    BY <1>1, <1>2, HeadTailProperties DEF WriterGet
  <2>2. /\ batch' = batch \o h /\ queue' = t
        /\ tx' = tx /\ rows' = rows
    BY <1>1, <1>2, HeadTailProperties, AppendIsConcat DEF WriterGet
  <2> HIDE DEF h, t
  <2>3. tx \o batch \in Seq(Events)
    BY <1>1, ConcatProperties
  <2>4. tx \o (batch \o h) = (tx \o batch) \o h
    BY <1>1, <2>1, ConcatAssociative
  <2>5. ((tx \o batch) \o h) \o t = (tx \o batch) \o (h \o t)
    BY <2>1, <2>3, ConcatAssociative
  <2>6. pending' = pending
    BY <2>1, <2>2, <2>4, <2>5 DEF pending
  <2> QED
    BY <2>2, <2>6 DEF LogStep
<1>3. CASE WriterExit
  <2>1. CASE tx' = <<>> /\ batch = <<>>
    <3>1. pending = <<>> \o tx \o queue /\ pending' = <<>> \o queue
      BY <1>1, <1>3, <2>1, ConcatEmptySeq, EmptyEvents DEF WriterExit, pending
    <3>2. rows' = rows
      BY <1>3 DEF WriterExit
    <3> QED
      BY <1>1, <3>1, <3>2, EmptyEvents, LoseStep
  <2>2. CASE tx' = tx
    BY <1>3, <2>2 DEF WriterExit, LogStep, pending
  <2> QED
    BY <1>3, <2>1, <2>2 DEF WriterExit
<1>4. CASE WriterIdle \/ WriterCheck \/ FlushIntervalPasses
  BY <1>4 DEF WriterIdle, WriterCheck, FlushIntervalPasses, LogStep, pending
<1> QED
  BY <1>2, <1>3, <1>4, InsertImplements, CommitImplements DEF WriterStep

\* Rows are committed in the order of their log_event calls, each at most once,
\* also when a batch fails halfway, a commit fails, its rows are carried into
\* the next one, or the process dies (_writer_loop, log_event).
THEOREM RefinesEventLog == Spec => ImplementsEventLog
<1>1. Init => Log!Init
  BY EmptyEvents, ConcatEmptySeq DEF Init, Log!Init
<1>2. TypeInv /\ [Next]_vars => LogStep
  <2> SUFFICES ASSUME TypeInv, [Next]_vars
               PROVE  LogStep
    OBVIOUS
  <2>1. CASE UNCHANGED vars
    BY <2>1 DEF vars, LogStep, pending
  <2> QED
    BY <2>1, ProcessImplements, CallersImplement, WriterImplements DEF Next
<1>3. LogStep <=> [Log!Next]_<<tx \o batch \o queue, rows>>
  BY DEF LogStep, pending
<1> QED
  BY <1>1, <1>2, <1>3, TypeInvHolds, PTL DEF Spec, ImplementsEventLog, Log!Spec
=============================================================================
