# A formal model of the adaptive firewall

TLA+ modules, TLC runs and TLAPS proofs about the AI-driven firewall of this repository: a
Python process that sniffs packets, scores flows, lets a reinforcement-learning agent choose an
action, applies it through nftables and records it in SQLite, with a Flask dashboard on top.
What is modelled is the concurrency, the timing and the failure handling of that process and of
the dashboard's page in the browser; what the neural networks compute is not.

## 1. The system

### Threads

| thread | runs |
|---|---|
| event loop (`main.py: run`) | `_classifier_loop`, `_enforcer_loop`, `start_cleanup_loop`, the sniffer's two extraction tasks (or the traffic simulator), the threat-feed sync |
| Scapy's sniffer thread | `_on_packet`, hence `FlowTable.update_or_create` |
| `db-writer` | `DatabaseManager._writer_loop` |
| Flask (one thread per request) | the dashboard's routes: unblock, flush, retrain, attack, ports, statistics |
| attack campaigns, retraining | `_run_campaign`, `_retrain` (any number at a time) |
| the browser | the page's JavaScript: one handler at a time, requests to the routes in any number and answers in any order |

### Components

| component | state | operations | what makes it correct |
|---|---|---|---|
| `kernel_enforcer.py` | rule registry (`RuleRegistry`), `dry_run`; in the kernel: table, blackhole set with timeouts, rate chain | `setup_tables`, `apply_action`, `remove_rule`, `_run_cleanup`, `_emergency_cleanup`, `flush_all`, port drops | registry bounded; registry and kernel agree on who is blocked, and for how long; every rule ends; eviction takes the least dangerous |
| `logger_db.py` | write queue, batch, open transaction, rows | `start`, `stop`, `log_event`, `_writer_loop`, `update_rule_status`, reads | rows in logging order, none twice; shutdown flushes; a status change reaches the event it is meant for |
| `sniffer.py` | flow table, flow records, `feature_queue` | `_on_packet`, `update_or_create`, `collect_expired`, `collect_windowed`, `to_feature_vector`, `start`, `stop` | vectors consistent although records are shared with Scapy's thread; a flow is finalized once, complete and idle; idle flows leave |
| `main.py` | `feature_queue`, `action_queue`, `_running` | `_classifier_loop`, `_enforcer_loop`, `run`, `_shutdown` | decisions applied in order; what is logged is what was done |
| `drl_agent.py` | last 200 decisions, false-positive counts, PPO model | `decide`, `_self_healing_check`, `train`, `save`, `load` | an address blocked by mistake is released; other addresses are not |
| `classifier.py` | network, scaler, threshold | `train_autoencoder`, `fine_tune_classifier`, `predict`, `save`, `load` | inference sees one consistent model; what is loaded is what was saved |
| `attack_generator.py` | active flag, vector, attacker, counter, campaign threads | `start_attack`, `stop_attack`, `get_status`, `_run_campaign` | at most one campaign; stop aborts it |
| `port_sentinel.py` | blocked ports; in the kernel: port rules | `close_port`, `open_port`, `scan_ports`, `search` | the list of blocked ports is what the kernel blocks |
| `app_dashboard.py`, routes | none of its own | routes that call the above | an operator's request has its effect |
| `app_dashboard.py`, the page | event feed, ids seen, table of rules, list of ports | `pollDashboardData`, `updateEventsStream`, `updateRulesTable`, `unblockTargetIP`, `fetchPortData`, `triggerClosePort`, `triggerOpenPort` | what is shown is, in the end, what the server has; nothing is shown twice |
| `threat_intel.py`, `xai_explainer.py`, `geo_intel.py`, `mitre_mapper.py` | lookup tables | pure lookups | – |
| `ebpf_core.py`, `models/behavior_classifier.py` | – | not reached from `main.py` | – |

### How they interact

    Scapy -> FlowTable -> feature_queue -> classifier loop -> action_queue -> enforcer loop
                               ^                                                |        |
                     attack campaigns                                     KernelEnforcer log_event
                                                                           |    ^        |
                                                                       nftables Flask   db-writer -> SQLite
                                                                                  \--------------------^
                                                                                   update_rule_status

    page --polls--> api_events, api_rules              page --clicks--> api_unblock, api_ports_close/open, api_retrain
                      (db rows)  (registry)                              (registry)  (PortSentinel)     (classifier)

Every queue is bounded and drops on overflow. Coroutines on the event loop interleave only at an
`await` that suspends; `apply_action` and `_run_cleanup` contain none, but Flask threads run
`remove_rule` and `flush_all` at any moment, and the registry's lock covers single accesses.

### What is hard

Interleavings of loop and Flask threads between a registry access and an nft command; commands that
fail, time out after taking effect, or half of which succeed; kernel state that outlives the
process; two clocks per rule (registry TTL, kernel timeout); records read while another thread
writes them; events in flight when a status changes or the process stops; bounded queues; a network,
a scaler and a threshold that one thread uses while others train them, and two files that a crash
can catch half written; answers that overtake each other on the way to the page. The complete list,
with source lines and the properties that cover each, is `hazards` in `PROJECT.json`.

## 2. The modules

### KernelEnforcer (with Nftables, RuleTable)

`Nftables` is the environment: a state of the packet filter and, for each `nft` command the firewall
uses, the set of states it can leave (none if nft refuses it). It is modelled from its use. Two things
in it matter: adding an element that is present succeeds and, depending on the kernel, restarts its
timeout or does not; and `flush table` deletes rules, not elements. The set drops nothing by itself:
what is `Dropped` are its elements while the input chain has the rule that `SetupHook` adds and
`FlushTable` deletes (`hook`); `DropEnforced` and `BlockedForTtl` speak of that. The four commands
that create the table, its set and its chains are one step there (`AddTables`).

`KernelEnforcer` has one action per registry access or nft command:

| code | actions |
|---|---|
| `setup_tables` | `SetupTables`, `SetupHook` |
| `apply_action` up to the first step that changes state | `Apply` |
| `KernelRule.refresh` | `Refresh` (`Refreshed`, `ExtendedTtl`) |
| capacity check, `_emergency_cleanup` | `CapacityCheck`, `EmergencyCleanup` (`EmergencyVictims`) |
| `_inject_drop`, `_inject_rate_limit`, `registry.add` | `InjectDrop`, `InjectAccept`, `InjectExcess`, `Register` |
| `remove_rule`, by any thread | `RemoveLookup`, `RemoveDelete`, `RemoveDeregister`, `RemoveReturn` |
| `start_cleanup_loop`, `_run_cleanup` | `RunCleanup`, `CleanupSleep` |
| `api_unblock`, `api_flush` | `Unblock`, `FlushTable`, `FlushClear` |
| `_run_nft` | `RunNft`: success, refusal, failure before or after the effect, loss of the binary (`dry_run`) |
| time, process | `Tick`, `Crash` |

State: `rules` is the registry, `nft` the filter, `pc`, `call`, `resume`, `todo`, `held` are the
program counters and locals of the loop and of the Flask threads. Scores are small numbers, IP
addresses model values; malformed and whitelisted addresses are `Exempt`. The metrics counters,
explanations and log lines are left out.

`RuleTable` is the abstract specification: a table with at most `MAX_KERNEL_RULES` entries, an
entry only installed where there is none, never changed in place, and eventually withdrawn.
`KernelEnforcer` implements it with `table <- InForce`.

### DbWriter (with EventLog)

`DbWriter` has the queue, the writer's batch, the rows of the open transaction and the committed
rows, and one action per step of `_writer_loop`: take (`WriterGet`, `WriterIdle`), decide
(`WriterCheck`), `executemany` (`Insert`), `commit` (`Commit`), leave (`WriterExit`). `LogEvent`,
`UpdateRuleStatus`, `Start`, `Stop` are the callers; `End` is the end of the process. An insert
that fails leaves a prefix of the batch in the transaction, as `executemany` does. `owed` is a
history variable: the events accepted before `stop`.

`EventLog` is the abstract specification: a FIFO from `log_event` to the table that may lose a
contiguous run of pending events, never a stored one, and never reorders or repeats. The mapping
is `pending <- tx \o batch \o queue, stored <- rows`.

### Sniffer

`Sniffer` has the flow table as a map from keys to the records ever created, so a record that was
evicted or expired can still be referred to by a batch under conversion, as in Python. An update
of an existing record is three steps under the table's lock (`UpdateSeen`, `UpdateCount`,
`UpdateFlags`); a `collect_...` call needs the lock; `to_feature_vector` reads the numerator and
the denominator of a ratio in two steps without it (`ReadSyns`, `ReadCount`). Tasks of the event
loop do not interleave with each other, nor with the classifier's `Get`.

### AttackSim

Campaign threads share one flag, `_is_attacking`, and the status fields that go with it.
`StartAttack` and `StopAttack` are the routes' calls, each one step because it holds the lock;
a campaign is `Begin` (it computes its `end_time`), then rounds of `Check`, `Put` and `Count` with
a sleep after each, then `End`. A thread can be used for another attack once its campaign is done,
so `Threads` bounds the campaigns that overlap, not their number. `MaxSent` bounds the flows: a
campaign that reaches it waits for its time or an abort. `abort` and `late` are history variables:
whether a campaign was aborted and an attack started since, and the flows it put after that.

### Pipeline

The two stages of `main.py` as tasks of one event loop, with `decide` in the first and the registry in
the second. `PutCheck`, `PutAppend` and `PutWake` are the steps of asyncio's `put_nowait`: the look at
the queue's size, the append, and the waking of a getter. The tasks of the loop take them without
another task in between, the threads of campaigns take them at any moment, so several puts can use the
same last place and the queue can exceed its size by one flow for each campaign whose thread overlaps
(`Campaigns`). `Get`, `Register` and `Wake` are the steps of `Queue.get`: tasks of the loop cannot run
between `Get` and `Register` (`LoopFree`), a campaign's thread can, and then its put wakes nobody
until `wait_for` gives up (`Timeout`). `Classify` is one iteration from the scores to `put_nowait`,
`Heal` and `Remember` are `_self_healing_check` and the bounded deque; the PPO model is any choice
from `Policy`. `Enforce` is `apply_action` as one step (`Applied`, the steps that `KernelEnforcer`
takes one by one and shows to implement `RuleTable`), then `log_event`; `SimulationPut`, `SnifferPut`
and `CampaignPut` are the producers, which begin a put (the first two on the loop, one or the other of
them); `Withdraw` is every removal by others; `Stop` is `_shutdown`, which cancels the tasks with what
they had taken. A flow's score is abstracted to whether it is below `RATE_LIMIT_THRESHOLD`.

### PortSentinel and PortPanel

`PortSentinel` has `blocked_ports`, the port rules in the kernel, the audit trail and one program
counter per request. Nothing takes a lock, so each access is a step: `close_port` is
`CloseRegister`, `CloseInject` (`inject_port_drop`, which may be refused or fail), `CloseAudit`;
`open_port` is `OpenCheck`, `OpenForget` (or a KeyError), `OpenRevoke` (`remove_port_drop`, which
changes nothing), `OpenAudit`; `scan_ports` reads the listeners at once and then looks up each row
(`ScanListeners`, `ScanRow`, `ScanReply`). Listeners come and go, `Flush` is what `flush_all` does to
port rules. `SentinelSpec` allows any clients. `unenforced` is a history variable: the ports whose
rule was refused or flushed.

`PortPanel` is the page's port panel as the client, shown to be one that `SentinelSpec` allows
(`PanelIsAClient`). A click sends what the row's button says (`Button`, `Click`), its answer makes the
page ask for a listing (`ChangeAnswered`), opening the modal does too (`FetchPortData`), and answers
arrive in any order (`ListingArrives`) or not at all (`Lose`). `before`, `overtaken` and `inOrder` are
history variables: the order in which the listings under way were sent, and whether the one shown
last had been overtaken.

### EventFeed

The polling half of the page. `PollEvents` and `PollRules` are the fetches of the timer, whatever
became of earlier ones; `EventsServed` and `RulesServed` the routes; `UpdateEventsStream` and
`UpdateRulesTable` the handlers. The registry and the responses to `/api/rules` are sequences, because
the table shows the first `MAX_TABLE_ROWS` (50) rules of a response only (`slice`, app_dashboard.py:1769):
of a longer registry the latest rules cannot be seen nor unblocked from the page. The badge with the
number of rules is not modelled. An event is its id; the `Response` to a fetch is the set of the
latest ids, `NewEvents` what `seenEventIds` leaves of it, `Rows` the order in which the page puts
those on top of the feed (the oldest first), and `FirstRows` the cut at `MAX_STREAM_ROWS`;
`UnblockTargetIP` and `ClearStreamLog` the operator. The database is `EventLog`
(INSTANCE), which `DbWriter` implements; the registry changes as others like (`RuleChanges`).

### Models (with Classifier, FirewallEnv)

`Classifier` has the network, scaler and threshold that all threads share, and both files. The
network is abstracted to two version numbers, `weights` and `stats` (BatchNorm's running statistics),
which say whether two networks are the same; `threshold` is the network it was measured on. A
training is one action per step that another thread can see (`FitScaler`, ..., `CalibrateThreshold`),
`save` is four (each file is incomplete for a while), `predict` is `PredictTransform`, `PredictEval`,
`PredictForward`, `PredictReturns`. Retrainings overlap with each other and with `predict`, raise
(`RetrainingFails`) or meet a scaler that is being fitted (`Transform`). sklearn resets and refits a
scaler attribute by attribute; here that is one phase, between `FitScaler` and `FitScalerEnds`, in
which others find the scaler unfitted.

`FirewallEnv` is the environment the PPO agent is trained in: `Step` with the rule counter
(`RulesAfter`) and the window of judged decisions, `Reset` between episodes. The agent may choose any
action in any state, and nothing but the choice depends on the rewards, so they are left out. Scores are
in twentieths.

`Models` composes them as `_initialize_models` does: classifier first, then the agent (`LoadAgent`,
`TrainAgent`, `SaveAgent`), then the pipeline (`StartPipeline`) and with it the route to retrain;
`Crash` at any moment, also in the middle of either save.

### Modules that only serve the above

`MCKernelEnforcer` and `MCPortPanel` define the symmetry and the data of their instances. Operators
marked "Mutation" are variants of the definition that follows them, with a plausible mistake;
`PROJECT.json` says which property each of them breaks. They are not part of the specifications.

## 3. The runs

| run | instance | shows |
|---|---|---|
| `enforcer_races` | 1 address, loop and 2 unblocking operators, 1 failing command, 1 restart, TTL 2 to 3 ticks | whatever interleaves and fails: types (the TTL's cap), an element never outlives its rule's TTL, a registered rate limit is whole |
| `enforcer_capacity` | 3 addresses for 2 places, 2 scores, an operator who unblocks and flushes, 1 restart, dry run | capacity, eviction order, refinement of `RuleTable` |
| `enforcer_loop` | 2 addresses for 1 place and a whitelisted one, the loop alone, no failure, TTL 3 to 4 ticks, fairness | every element is known to the registry, every drop enforced by its element and by the rule in the input chain, and (liveness) every rule withdrawn |
| `db_writer` | queue 2, batch 2, 4 events, 1 SQLite error, 1 restart, fairness | refinement of `EventLog`; `stop` flushes; a lone event is stored |
| `sniffer` | 2 keys, 1 flow, 3 packets, 3 points in time, queue 2, fairness | ratios at most 1 in spite of torn reads; finalized vectors complete, idle, unique; idle flows leave |
| `attack_sim` | 2 overlapping campaigns, 2 vectors, durations 0 to 2, 3 flows, fairness | an active status belongs to the campaign started last; an aborted campaign puts at most one more flow before the next start; (liveness) every attack ends |
| `port_panel` | 2 ports (DNS, and one that is listed only while it listens), 2 overlapping requests, 3 clicks, 1 failing command, 1 flush, 1 lost answer | a blocked port is dropped unless nft refused or a flush removed the rule; once all is answered the panel shows `blocked_ports` |
| `event_feed` | 3 changes (events logged, rules set or withdrawn), responses of 2 events, 2 rows of events and 1 of rules, 2 rules, 2 overlapping polls of each kind, 1 lost, fairness | only stored events in the feed and none twice; what left it stays away; (liveness) every event is shown unless newer ones push it out of the responses, and once the registry stays as it is the table of rules shows its first rows for good |
| `models` | 1 epoch, 2 retraining threads, 3 retrainings, 1 that raises, 1 crash, episodes of 3 steps, fairness | when no training is under way the classifier is ready and consistent in memory and on disk; (liveness) start-up gets through whatever is on disk |
| `pipeline` | 3 addresses (1 whitelisted), 3 flows, the loop and 1 campaign as producers, queues of 2 and 1, 1 rule, history of 2, fairness | the feature queue exceeds its size by at most one flow per campaign; decisions in the order the queue took the flows, none twice; the log explains every rule; self-healing within its reach; (liveness) no flow is stuck |

The bounds are the smallest with which the interesting cases occur: two operators so that removals
race each other as well as the loop; three addresses for two places so that eviction has a choice;
TTL values such that a refresh changes them and reaches the cap; four events for a batch of two so
that a failed batch is followed by a successful one; three packets so that a snapshot (two or more
packets) is read during the third; three flows for a history of two, so that the third block of an
address is at the edge of what self-healing remembers; queues that three flows overflow; a campaign
beside the loop, so that two puts pass the check with one place left; more rules than rows; two
overlapping requests and three clicks so that a listing falls between a change and its answer, and a
port is closed, opened and closed again; one response smaller than the log, so that an event can be
missed, and three changes in all, events or rules, so that a rule beyond the table's only row comes into
view when the one before it goes; two retrainings so that they overlap, a third so that one comes after a failure; a crash, so
that each file is loaded in each state a save can leave it in. A dry run suffices for the capacity
properties because they speak of the registry only, and `RunNft` then always succeeds, which lets
more rules in. `enforcer_races` leaves flushes to `enforcer_capacity`, because after a flush its
claim about rate limits is false (section 4). Deadlock is checked in every run but `sniffer` and
`pipeline`, whose tasks really end after `stop`.

Fairness. `enforcer_loop`: time passes, the loop ends what it begins (commands have a 5 s timeout),
and the cleanup task gets its turn, strongly fair, because asyncio runs ready tasks in the order in
which they became ready. `db_writer`: the writer thread is scheduled and the clock advances.
`sniffer`: Scapy's thread ends an update it has begun, the loop runs and in the end obtains the lock,
and both tasks get their turn for the same reason as above. `attack_sim`: the campaigns' threads are
scheduled and time passes. `pipeline`: the loop ends a put it has begun (nobody need begin one, and a
campaign's thread may stop in the middle of its own), the classifier's task goes on, its two-second
timer fires, and the enforcer's task gets its turn (strongly fair, as above); a put that woke the
classifier from another thread is noticed at the latest when the loop's next timer fires.
`event_feed`: `setInterval` fires again and again, Flask's threads run, and what is not
lost arrives; that is required of each place for a fetch, and losses are finite. `models`: the main
thread, alone until the pipeline starts, goes on; its training loops are bounded. No request, packet,
failure, crash or stop is ever assumed to happen.

Divergences from what the repository says, each a run that TLC must find violated:

| run | the text | what happens |
|---|---|---|
| `finding_ttl` | "Extend TTL when the same IP attacks again" (kernel_enforcer.py:70) | only the registry's TTL is extended; the kernel stops dropping after the first |
| `finding_reopen` | "Remove a kernel port drop rule." (kernel_enforcer.py:341) | nothing is removed: a port that was closed and opened again stays dropped |

What else the models show, without a run of its own:

- `flush_all` deletes the rule that makes the blackhole set effective, so drops injected later have no
  effect until the next set-up; the run that checks `DropEnforced` has no flush for that reason.
- With one unblocking operator (`Operators = {op1}`, `Endpoints = {"unblock"}` in
  `Enforcer_loop.cfg`) `DropEnforced` is violated: an unblock between injection and registration
  deletes the element of the rule that is registered next, although the registry is "Thread-safe"
  (kernel_enforcer.py:89).
- asyncio's queues are not thread-safe, and a campaign's thread puts into one: in `pipeline` the feature
  queue reaches a length of 3, with a size of 2, and no smaller bound than `TypeOK`'s holds.
- The table of rules shows the 50 rules that have been in the registry longest. With more than that, the
  rule just set is the one that is not shown.
- `Removal` leaves the kernel rules of a rate limit alone: they are never removed.
- `UpdateRuleStatus` changes committed rows; "the most recent event" of an address
  (logger_db.py:260) may still be on its way to the table, and is stored as ACTIVE later.
- `AbortedStops` needs its "before the next start": an aborted campaign that sleeps over it goes on
  with its own attack.
- With DNS among its ports `finding_reopen`'s property fails in the other direction as well: the
  catalog's protocol "UDP/TCP" is refused by nft and the port is listed as quarantined.
- A listing that was overtaken by a later one leaves the panel wrong until its modal is opened
  again; `PanelCurrent` excludes that case, and lost answers.
- After a first start `stats` differs from the statistics the threshold was measured on, because
  `fine_tune_classifier` runs the frozen encoder in training mode; `ModelSettled` therefore speaks of
  the weights.
- Overlapping retrainings can save one's scaler while the other is fitting it, and a retraining that
  raises can leave the scaler unfitted, after which every `predict` raises: `ReadyWhenQuiet` names
  both exceptions.

## 4. The proofs

`KernelEnforcerProofs` proves for every number of addresses, operators, scores, failures and
restarts, and all time constants that satisfy the assumptions stated in the modules:

| theorem | property | inductive invariant |
|---|---|---|
| `TypeCorrect` | `TypeOK` | `Typed`: types, and the call record matches the program counter |
| `CapacityHolds` | `CapacityRespected` | `Bounded`: between check and registration there is room (`Room`), and the address is vacant (`Vacated`) |
| `ElementsExpireFirst` | `ElementExpiresFirst` | itself, on top of `Typed`: an element starts with at most the TTL of the rule and both count down together |
| `RateLimitsHold` | `RateLimitEnforced` | `Limited`: what `_inject_rate_limit` has added is there when the rule is registered; assumes that no operator flushes |
| `RefinesRuleTable` | `ImplementsRuleTable` | `Bounded`: `Register` installs on a vacant address while there is room |
| `EvictionFair` | `EvictionSparesHigher` | `LeastFirst`: while the loop evicts, what it is bound to remove scores no higher than what it is to leave |
| `ElementsTracked` | `BlackholeTracked` | `Agreed`; assumes the loop alone, no fault, no restart |
| `DropsEnforced` | `DropEnforced` | `Agreed` and `HookSet` (`HookAlways`): once set-up is through, the input chain has its rule, which only a flush deletes; under the same assumptions |

`CapacityRespected` is not inductive: at `register` one must know that a place is free. `Room` says
so, and it survives the interleavings because other threads only remove rules; `EmergencyCleanup`
establishes it because it withdraws at least one rule of a full table. `Vacated` is needed for
the refinement (no replacement in place) and for `Room` (registration adds exactly one entry).

`EvictionFair` is about every instance, operators and restarts included: between choice and
withdrawal an operator can only remove rules, and a removal makes neither side of the comparison
larger. `Agreed` ties the elements in the kernel to the rules of the registry: an element was put there by a
command that took effect (`ElementsReal`), `remove_rule` deletes it before it drops the entry
(`LookedUp`), an element is at most a tick old when its rule is registered (`JustInjected`), and an
element's remaining time and its rule's age add up to at least the TTL less a tick (`DropTimed`). The
assumptions of the last two theorems, `Operators = {}`, `MaxFaults = 0`, `MaxCrashes = 0`, are those of
`enforcer_loop`, and none of the three can be dropped: with `MaxFaults = 1`, with `MaxCrashes = 1` or
with one unblocking operator TLC finds `BlackholeTracked` and `DropEnforced` violated. Addresses,
capacity, scores and TTLs are arbitrary.

`SnifferProofs` proves for every number of keys, flows, packets and queue places, and all timeouts:

| theorem | property | inductive invariant |
|---|---|---|
| `TypeSound` | `TypeOK` | `Typed` and `Room`: a full table gives up one flow for each that it takes |
| `RatiosSound` | `RatiosAtMostOne` | `Sound`: the counts go up in the order packet, flag (`Counted`), and what has been read of a record is at most its packet count (`Reading`) |
| `CompleteSound`, `IdleSound`, `OnceSound` | `FinalizedComplete`, `FinalizedIdle`, `FinalizedOnce` | `Final`: the writer's record is in the table, so a record that left the table is `Finished`, stays as it is, and is in one place only: the batch or, once, the queue |

The three properties of finalized vectors speak of the queue only and are not inductive: a vector
is complete because its record had left the table before it was read (`BatchFinal`, `ReadFinal`),
which is so because `collect_expired` and the update exclude each other by the table's lock
(`WriterHolds`), and its flow is idle because the clock was read before the lock was taken
(`ClockRead`), never after. The bound on packets and time enters only as the range of the counters.

`AttackSimProofs` proves for every number of campaigns, vectors and durations:

| theorem | property | inductive invariant |
|---|---|---|
| `SimTypeSound` | `TypeOK` | itself: flag and vector are set and cleared together |
| `LatestSound` | `LatestRuns` | itself, with `TypeOK`: `End` clears the flag whichever campaign ends, so an active flag was set by the last start, and only the end of that campaign could make it stale |
| `AbortSound` | `AbortedStops` | `AbortSeen`: while an abort is in force the flag is clear, so an aborted campaign passes `Check` towards its end; one that already passed it has at most one put left |

`DbWriterProofs` proves for every number of events, addresses, SQLite errors and restarts, and every
size of queue and batch:

| theorem | property | inductive invariant |
|---|---|---|
| `TypeSound` | `TypeOK` | with `BatchRoom`: the batch has room whenever the writer takes an event |
| `StopSound` | `StopFlushes` | `OwedKept`: while SQLite has not failed, an accepted event is in the table, the transaction, the batch or the queue; and the writer leaves its loop only after `stop` with an empty queue |
| `RefinesEventLog` | `ImplementsEventLog` | `TypeInv`: each step moves a prefix of what is pending to the table, loses a contiguous run of it, or leaves both alone |

For the refinement every way in which the writer or the end of the process loses events is shown
to cut one contiguous run out of `tx \o batch \o queue` (`CutMiddle`, `LoseStep`): a batch that fails
halfway loses its rest, which lies between the transaction and the queue.

`PipelineProofs` proves for every number of addresses, flows and campaigns, every size of the queues, of the
registry and of the history, and any policy:

| theorem | property | inductive invariant |
|---|---|---|
| `TypeSound` | `TypeOK` | `TypeInv`: a stage holds a flow exactly while it works on it (`Taken`); a thread that is about to append has found a place, so queue and appends under way together exceed the size by at most one per campaign (`PutTypes`) |
| `ExplainedSound` | `RuleExplained` | `ExplainInv`: also, an exempt address has no rule |
| `OrderSound` | `InOrder` | `OrderInv`: every place of the pipeline is in order, and all of one place is before all of the next |
| `HealedSound` | `ThirdBlockHealed` | `HealInv`: `Healed` for decisions wherever they are, and what the agent remembers of them (`MemoryInv`) |

`ThirdBlockHealed` speaks of the log, which lags behind the agent. `Healed` says the same of all
decisions not dropped, in the queue, taken or logged; it is kept because each of them is among the
last `History` decisions or older than all of these (`MemoryInv`), so that two blocks within reach are
in memory when the third is decided, whether or not decisions in between have been dropped.

`ModelsProofs` proves for every number of retraining threads, epochs, failures and crashes, and every
size of episode:

| theorem | property | inductive invariant |
|---|---|---|
| `TypeSound` | `TypeOK` | `EnvTyped`: the false positives counted in an episode are those of the window at its start and at most one per step since, and the rules are fewer than `INITIAL_RULES` plus one per step (`EnvInv`); the versions of network and files are among those given |
| `ReadySound` | `ReadyWhenQuiet` | `ReadyInv`: a scaler that is not fitted has a thread about to fit it, a network in training mode one about to leave it (`ScalerComes`, `EvalComes`); while retrainings do not overlap a file is only saved from a fitted scaler (`FileSound`) |
| `SettledSound` | `ModelSettled` | `SettledInv`: what has been reached at each step of a training that is alone (`Reached`), what a loadable file contains (`WholeModel`), and what a start or a training leaves (`Kept`) |

`ReadyWhenQuiet` is not inductive, since it says nothing while a training is under way: the
invariant names, for each way in which the model is not ready, the thread that will make it so. A
crash is harmless for `SettledInv` because a file that is not whole makes the next start train anew,
and because every fitted scaler is the same (retraining uses the same generated data).

`PortPanelProofs` proves for every number of ports, requests, clicks, failures and flushes:

| theorem | property | inductive invariant |
|---|---|---|
| `TypeSound` | `TypeOK` | with `HasPort`: a request that changes `blocked_ports` has a port until it is answered |
| `SentinelSound`, `QuarantineSound` | `QuarantineEnforced` | itself, with the types of `pc` and `port` (`SentinelInv`) |
| `PanelIsAClient` | `Spec => SentinelSpec` | none needed: each step of the page is one that a client may take |
| `PanelSound` | `PanelCurrent` | `PanelInv`: the listings under way are ordered (`Ordered`), and while no change is under way each that was not overtaken is fresh or followed by another (`WillAgree`), and the panel agrees or a listing is to come (`ShownOrComing`) |

`PanelCurrent` speaks only of moments without requests. `WillAgree` carries it there: a change makes
every listing stale, but its own answer sends one more, which comes after all others in `before`; a
stale listing that arrives is followed by a later one, unless it was overtaken.

`EventFeedProofs` proves for every number of overlapping polls and events, and all sizes of responses
and of the feed:

| theorem | property | inductive invariant |
|---|---|---|
| `TypeSound` | `TypeOK` (which has that no event has two rows) | itself |
| `GoneSound` | `GoneForGood` | `TypeOK` |

What the page puts on top is defined by rank: row k of `Rows(es)` is the id with k ids up to it. A
finite set of numbers has an id of every rank (`RanksTaken`: ranks are a one-to-one map into
`1 .. Cardinality(es)`, hence onto), so the rows show each id of the set once (`RowsShowEach`); they are
new, so nothing in the feed is repeated (`PutOnTop`), and every row was seen, so nothing that has
left the feed passes `NewEvents` again.

Every safety property that a run checks is thus proved: all invariants and action properties of
the passing runs, and both refinements. What a theorem assumes besides the `ASSUME`s of its modules
is in its statement: `RateLimitsHold` that no operator flushes, `ElementsTracked` and `DropsEnforced`
that the loop is alone and nothing fails. Only model-checked: liveness (`ImplementsFairRuleTable`,
`EventuallyStored`, `IdleFlowsLeave`, `AttackEnds`, `FlowsSettled`, `EventsSeen`, `RulesShown`,
`StartsUp`), whose proofs need ENABLED, which is out of the prover's reach, and the two divergences
of section 3, which are counterexamples.

## 5. Not modelled

The networks' and PPO's arithmetic; explanations, geo-IP and ATT&CK lookups; the page's rendering,
charts, filters and toasts; statistics and other routes that only read and format; the threat feed,
whose one set is replaced as a whole and tested for membership; schema creation and log files; the
second classifier and the eBPF stub, which `main.py` does not reach. nftables, SQLite, asyncio, the
browser and the operating system's listeners appear only as far as the code uses them.

## 6. Plan

In this order:

1. Proofs: what `DropEnforced` leaves of its claim when operators unblock and commands fail; the
   dashboard's routes as clients of the enforcer.
2. `DbWriter`: `update_rule_status` with its timeout as a failing step.
3. The threads of `AttackSim` that cannot be started; the threat feed as an input of `Pipeline`.
