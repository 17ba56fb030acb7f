------------------------------ MODULE DbWriter ------------------------------
(***************************************************************************)
(* logger_db.py: DatabaseManager.  Threads log events into a bounded queue *)
(* (log_event); the writer thread moves them in batches into SQLite        *)
(* (_writer_loop); Flask threads overwrite the status of rows              *)
(* (update_rule_status); the event loop stops the writer at shutdown       *)
(* (stop).  SQLite is modelled from its use: one connection at a time may  *)
(* hold an open write transaction, and only committed rows are seen by     *)
(* others and survive the process.                                         *)
(*                                                                         *)
(* An event is the number of its log_event call and its source address;    *)
(* every event is of a block, whose row is written with status ACTIVE.     *)
(***************************************************************************)
EXTENDS Naturals, Sequences, SequencesExt

CONSTANTS IPs,            \* source addresses
          QueueSize,      \* maxsize of the write queue
          BATCH_SIZE,
          MaxEvents,      \* bound: log_event calls
          MaxErrors,      \* bound: sqlite3 errors
          MaxCrashes      \* bound: crashes of the process

ASSUME SizesAssumption  == QueueSize \in Nat \ {0} /\ BATCH_SIZE \in Nat \ {0}
ASSUME BoundsAssumption == MaxEvents \in Nat /\ MaxErrors \in Nat /\ MaxCrashes \in Nat

VARIABLES queue,       \* _write_queue
          running,     \* _running
          writer,      \* what the writer thread does next
          batch,       \* events taken from the queue
          due,         \* FLUSH_INTERVAL has passed since the last flush
          tx,          \* rows of the writer's open transaction
          rows,        \* committed rows, oldest first
          overridden,  \* committed rows whose status was changed
          calls,       \* log_event calls so far
          owed,        \* events accepted by this process before stop was called
          errors,
          crashes

vars == <<queue, running, writer, batch, due, tx, rows, overridden, calls, owed,
          errors, crashes>>

Events  == [id : 1 .. MaxEvents, ip : IPs]

Init ==
    /\ queue = <<>> /\ batch = <<>> /\ tx = <<>> /\ rows = <<>>
    /\ running = FALSE
    /\ writer = "down"
    /\ due = FALSE
    /\ overridden = {}
    /\ calls = 0
    /\ owed = {}
    /\ errors = 0
    /\ crashes = 0

-----------------------------------------------------------------------------
(* The process                                                             *)

\* start, before any thread that logs.
Start ==
    /\ writer = "down"
    /\ running' = TRUE
    /\ writer' = "loop"
    /\ UNCHANGED <<queue, batch, due, tx, rows, overridden, calls, owed, errors, crashes>>

\* stop: clears the flag; the join that follows keeps the caller, not the others.
Stop ==
    /\ running
    /\ running' = FALSE
    /\ UNCHANGED <<queue, writer, batch, due, tx, rows, overridden, calls, owed,
                   errors, crashes>>

\* The process ends: by a crash, or after stop when the join timed out or the
\* writer was done.  The daemon threads die with it, SQLite rolls an open
\* transaction back, and the process is started again.
End ==
    /\ writer # "down"
    /\ crashes < MaxCrashes
    /\ crashes' = crashes + 1
    /\ queue' = <<>> /\ batch' = <<>> /\ tx' = <<>>
    /\ running' = FALSE
    /\ writer' = "down"
    /\ due' = FALSE
    /\ owed' = {}
    /\ UNCHANGED <<rows, overridden, calls, errors>>

-----------------------------------------------------------------------------
(* log_event and update_rule_status, by any thread                         *)

\* put_nowait; a full queue drops the event.
LogEvent(ip) ==
    /\ writer # "down"
    /\ calls < MaxEvents
    /\ calls' = calls + 1
    /\ LET event == [id |-> calls + 1, ip |-> ip]
       IN  \/ /\ Len(queue) < QueueSize
              /\ queue' = Append(queue, event)
              /\ owed' = IF running THEN owed \cup {event} ELSE owed
           \/ /\ Len(queue) >= QueueSize
              /\ UNCHANGED <<queue, owed>>
    /\ UNCHANGED <<running, writer, batch, due, tx, rows, overridden, errors, crashes>>

\* Its connection waits until the writer holds no transaction (and gives up
\* after 10 s).  Every committed ACTIVE row of the address changes.
Matching(ip) == {event \in ToSet(rows) : event.ip = ip}

UpdateRuleStatus(ip) ==
    /\ writer # "down"
    /\ tx = <<>>
    /\ overridden' = overridden \cup Matching(ip)
    /\ UNCHANGED <<queue, running, writer, batch, due, tx, rows, calls, owed, errors,
                   crashes>>

-----------------------------------------------------------------------------
(* _writer_loop                                                            *)

WriterGet ==
    /\ writer = "loop"
    /\ queue # <<>>
    /\ batch' = Append(batch, Head(queue))
    /\ queue' = Tail(queue)
    /\ writer' = "check"
    /\ UNCHANGED <<running, due, tx, rows, overridden, calls, owed, errors, crashes>>

\* get timed out.
WriterIdle ==
    /\ writer = "loop"
    /\ running
    /\ queue = <<>>
    /\ writer' = "check"
    /\ UNCHANGED <<queue, running, batch, due, tx, rows, overridden, calls, owed, errors,
                   crashes>>

\* Mutation: the loop ends as soon as the flag is cleared.
WriterExitAtOnce ==
    /\ writer = "loop"
    /\ ~running
    /\ IF batch # <<>>
       THEN writer' = "final_insert" /\ UNCHANGED tx
       ELSE writer' = "done" /\ tx' = <<>>
    /\ UNCHANGED <<queue, running, batch, due, rows, overridden, calls, owed, errors,
                   crashes>>

\* The loop ends: what is left of the batch is flushed, then the connection is
\* closed, which rolls back what was not committed.
WriterExit ==
    /\ writer = "loop"
    /\ ~running
    /\ queue = <<>>
    /\ IF batch # <<>>
       THEN writer' = "final_insert" /\ UNCHANGED tx
       ELSE writer' = "done" /\ tx' = <<>>
    /\ UNCHANGED <<queue, running, batch, due, rows, overridden, calls, owed, errors,
                   crashes>>

\* Mutations: one event too many; a batch that is not full is never flushed.
FlushDueLate == Len(batch) > BATCH_SIZE \/ (batch # <<>> /\ due)
FlushDueFull == Len(batch) >= BATCH_SIZE
FlushDue == Len(batch) >= BATCH_SIZE \/ (batch # <<>> /\ due)

WriterCheck ==
    /\ writer = "check"
    /\ writer' = IF FlushDue THEN "insert" ELSE "loop"
    /\ UNCHANGED <<queue, running, batch, due, tx, rows, overridden, calls, owed, errors,
                   crashes>>

FlushIntervalPasses ==
    /\ writer \notin {"down", "done"}
    /\ ~due
    /\ due' = TRUE
    /\ UNCHANGED <<queue, running, writer, batch, tx, rows, overridden, calls, owed,
                   errors, crashes>>

\* Mutation: a failed batch is kept and tried again.
InsertRetried ==
    /\ writer \in {"insert", "final_insert"}
    /\ due' = FALSE
    /\ \/ /\ tx' = tx \o batch
          /\ batch' = <<>>
          /\ writer' = IF writer = "insert" THEN "commit" ELSE "final_commit"
          /\ UNCHANGED errors
       \/ /\ errors < MaxErrors
          /\ errors' = errors + 1
          /\ \E inserted \in Prefixes(batch) :
                tx' = IF writer = "insert" THEN tx \o inserted ELSE <<>>
          /\ writer' = IF writer = "insert" THEN "loop" ELSE "done"
          /\ UNCHANGED batch
    /\ UNCHANGED <<queue, running, rows, overridden, calls, owed, crashes>>

\* executemany, into the open transaction (opening it if there is none).  An
\* error leaves the rows before the offending one in it and the batch is
\* cleared; nobody rolls back.
Insert ==
    /\ writer \in {"insert", "final_insert"}
    /\ batch' = <<>>
    /\ due' = FALSE
    /\ \/ /\ tx' = tx \o batch
          /\ writer' = IF writer = "insert" THEN "commit" ELSE "final_commit"
          /\ UNCHANGED errors
       \/ /\ errors < MaxErrors
          /\ errors' = errors + 1
          /\ \E inserted \in Prefixes(batch) :
                tx' = IF writer = "insert" THEN tx \o inserted ELSE <<>>
          /\ writer' = IF writer = "insert" THEN "loop" ELSE "done"
    /\ UNCHANGED <<queue, running, rows, overridden, calls, owed, crashes>>

\* A commit that fails keeps the transaction or has rolled it back, as SQLite
\* decides; the next successful commit takes along what was kept.
Commit ==
    /\ writer \in {"commit", "final_commit"}
    /\ writer' = IF writer = "commit" THEN "loop" ELSE "done"
    /\ \/ /\ rows' = rows \o tx
          /\ tx' = <<>>
          /\ UNCHANGED errors
       \/ /\ errors < MaxErrors
          /\ errors' = errors + 1
          /\ tx' \in IF writer = "commit" THEN {tx, <<>>} ELSE {<<>>}
          /\ UNCHANGED rows
    /\ UNCHANGED <<queue, running, batch, due, overridden, calls, owed, crashes>>

-----------------------------------------------------------------------------

WriterStep == WriterGet \/ WriterIdle \/ WriterExit \/ WriterCheck \/ Insert \/ Commit

Next ==
    \/ Start \/ Stop \/ End
    \/ \E ip \in IPs : LogEvent(ip) \/ UpdateRuleStatus(ip)
    \/ WriterStep
    \/ FlushIntervalPasses

Spec == Init /\ [][Next]_vars

\* The writer thread runs and the clock advances.
FairSpec == Spec /\ WF_vars(WriterStep) /\ WF_vars(FlushIntervalPasses)

-----------------------------------------------------------------------------
(* Properties                                                              *)

\* Every variable keeps its type: the queue and the batch keep their bounds.
TypeOK ==
    /\ queue \in Seq(Events) /\ Len(queue) <= QueueSize
    /\ running \in BOOLEAN
    /\ writer \in {"down", "loop", "check", "insert", "commit", "final_insert",
                   "final_commit", "done"}
    /\ batch \in Seq(Events) /\ Len(batch) <= BATCH_SIZE
    /\ due \in BOOLEAN
    /\ tx \in Seq(Events)
    /\ rows \in Seq(Events)
    /\ overridden \subseteq Events
    /\ calls \in 0 .. MaxEvents
    /\ owed \subseteq Events
    /\ errors \in 0 .. MaxErrors
    /\ crashes \in 0 .. MaxCrashes

\* stop "flush[es] remaining events" (line 174): when the writer has ended and
\* SQLite has not failed, every event accepted before stop was called is
\* committed, wherever stop found it: in the queue, in the batch, in between.
StopFlushes == writer = "done" /\ errors = 0 => owed \subseteq ToSet(rows)

\* The table, and what is on its way to it, implement EventLog.
Log == INSTANCE EventLog WITH pending <- tx \o batch \o queue, stored <- rows

\* Rows are committed in the order of their log_event calls, each at most once,
\* also when a batch fails halfway, a commit fails, its rows are carried into
\* the next one, or the process dies.
ImplementsEventLog == Log!Spec

\* An accepted event is committed in the end, however few follow it, unless
\* SQLite fails or the writer stops.
EventuallyStored ==
    \A id \in 1 .. MaxEvents, ip \in IPs :
        LET event == [id |-> id, ip |-> ip]
        IN  event \in ToSet(queue)
            ~> event \in ToSet(rows) \/ errors > 0 \/ writer \in {"done", "down"}
=============================================================================
