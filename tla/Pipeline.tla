------------------------------ MODULE Pipeline ------------------------------
(***************************************************************************)
(* main.py: the two stages between the feature queue and the database,     *)
(* with drl_agent.py's decide in the first and the registry of the kernel  *)
(* enforcer in the second.                                                 *)
(*                                                                         *)
(* The stages are tasks of one event loop: a stage gives it up only while  *)
(* it waits for its queue.  The sniffer's tasks put flows into the feature *)
(* queue from the loop, attack campaigns from threads of their own,        *)
(* although asyncio's queues are not made for that.  put_nowait looks at   *)
(* the size of the queue, appends, and wakes a getter, and steps of other  *)
(* threads fall between: several puts may use the same last place, and a   *)
(* put between the getter's look at the queue and its wait wakes nobody.   *)
(*                                                                         *)
(* The registry is the table of RuleTable, which KernelEnforcer implements *)
(* step by step; here apply_action is one step, as it is on the loop, and  *)
(* any rule may be withdrawn at any time.                                  *)
(***************************************************************************)
EXTENDS Integers, SequencesExt

CONSTANTS Loop,           \* the event loop, whose tasks put flows one at a time
          Campaigns,      \* the campaigns whose threads may overlap
          IPs,
          Exempt,         \* whitelisted or malformed addresses
          Policy,         \* the actions that the PPO model may choose
          FEATURE_QUEUE_MAXSIZE,
          ACTION_QUEUE_MAXSIZE,   \* 5000 in the code
          MAX_KERNEL_RULES,
          History,        \* length of _recent_decisions, 200 in the code
          MaxFlows        \* bound: flows put into the feature queue

Vacant  == "NONE"
Block   == {"DROP_IP", "RATE_LIMIT_IP"}
Actions == Block \cup {"ALLOW", "REMOVE_RULE"}

ASSUME PuttersAssumption == IsFiniteSet(Campaigns) /\ Loop \notin Campaigns
ASSUME PolicyAssumption == Policy \subseteq Actions /\ Exempt \subseteq IPs /\ IsFiniteSet(IPs)
ASSUME SizesAssumption  ==
    /\ FEATURE_QUEUE_MAXSIZE \in Nat \ {0}
    /\ ACTION_QUEUE_MAXSIZE \in Nat \ {0}
    /\ MAX_KERNEL_RULES \in Nat \ {0}
    /\ History \in Nat \ {0}
    /\ MaxFlows \in Nat

VARIABLES running,
          arrived,         \* flows that were put, accepted or not; each gets the next number
          put,             \* where each thread is in put_nowait
          feature_queue,
          classifier,      \* where the classifier's loop is
          flow,            \* the flows it has taken, at most one
          recent,          \* _recent_decisions
          action_queue,
          decision,        \* the decisions the enforcer's loop has taken, at most one
          table,           \* the registry: the action in force for each address
          log              \* the calls of log_event

vars == <<running, arrived, put, feature_queue, classifier, flow, recent, action_queue, decision,
          table, log>>

Putters   == {Loop} \cup Campaigns
Appending == {p \in Putters : put[p] = "append"}

\* A flow; low says that its score is below RATE_LIMIT_THRESHOLD.
Flow     == [id : 1 .. MaxFlows, ip : IPs, low : BOOLEAN]
Decision == [id : 1 .. MaxFlows, ip : IPs, low : BOOLEAN, action : Actions]

Init ==
    /\ running = TRUE
    /\ arrived = 0
    /\ put = [p \in Putters |-> "idle"]
    /\ feature_queue = <<>>
    /\ classifier = "get"
    /\ flow = <<>>
    /\ recent = <<>>
    /\ action_queue = <<>>
    /\ decision = <<>>
    /\ table = [ip \in IPs |-> Vacant]
    /\ log = <<>>

\* No task of the loop is between two awaits.
LoopFree == classifier # "register" /\ put[Loop] = "idle"

-----------------------------------------------------------------------------
(* Flows arrive: asyncio's put_nowait.                                     *)

\* A full queue drops the flow; ...
PutCheck(p) ==
    /\ put[p] = "idle"
    /\ arrived + Cardinality(Appending) < MaxFlows
    /\ \/ /\ Len(feature_queue) < FEATURE_QUEUE_MAXSIZE
          /\ put' = [put EXCEPT ![p] = "append"]
          /\ UNCHANGED arrived
       \/ /\ Len(feature_queue) >= FEATURE_QUEUE_MAXSIZE
          /\ arrived' = arrived + 1
          /\ UNCHANGED put
    /\ UNCHANGED <<running, feature_queue, classifier, flow, recent, action_queue, decision, table,
                   log>>

\* ... otherwise it is appended, however full the queue is by now, ...
PutAppend(p, ip, low) ==
    /\ put[p] = "append"
    /\ put' = [put EXCEPT ![p] = "wake"]
    /\ arrived' = arrived + 1
    /\ feature_queue' = Append(feature_queue, [id |-> arrived + 1, ip |-> ip, low |-> low])
    /\ UNCHANGED <<running, classifier, flow, recent, action_queue, decision, table, log>>

\* ... and a waiting getter is woken.
PutWake(p) ==
    /\ put[p] = "wake"
    /\ put' = [put EXCEPT ![p] = "idle"]
    /\ classifier' = IF classifier = "wait" THEN "wake" ELSE classifier
    /\ UNCHANGED <<running, arrived, feature_queue, flow, recent, action_queue, decision, table,
                   log>>

\* The tasks of the sniffer, ...
SnifferPut == running /\ LoopFree /\ PutCheck(Loop)

\* ... or _simulation_producer, which takes the sniffer's place in simulation mode.
SimulationPut == running /\ LoopFree /\ PutCheck(Loop)

\* The threads of _run_campaign, which nothing keeps from overlapping.
CampaignPut(c) == PutCheck(c)

-----------------------------------------------------------------------------
(* _classifier_loop                                                        *)

\* asyncio's Queue.get: a look at the queue, ...
Get ==
    /\ LoopFree
    /\ classifier = "get"
    /\ \/ /\ feature_queue = <<>>
          /\ classifier' = "register"
          /\ UNCHANGED <<feature_queue, flow>>
       \/ /\ feature_queue # <<>>
          /\ flow' = <<Head(feature_queue)>>
          /\ feature_queue' = Tail(feature_queue)
          /\ classifier' = "classify"
    /\ UNCHANGED <<running, arrived, put, recent, action_queue, decision, table, log>>

\* ... then the getter waits ...
Register ==
    /\ put[Loop] = "idle"
    /\ classifier = "register"
    /\ classifier' = "wait"
    /\ UNCHANGED <<running, arrived, put, feature_queue, flow, recent, action_queue, decision,
                   table, log>>

\* ... until a put wakes it, and looks again.
Wake ==
    /\ LoopFree
    /\ classifier = "wake"
    /\ classifier' = "get"
    /\ UNCHANGED <<running, arrived, put, feature_queue, flow, recent, action_queue, decision,
                   table, log>>

\* Mutation: the loop ends when nothing came for two seconds.
TimeoutEnds ==
    /\ LoopFree
    /\ classifier = "wait"
    /\ classifier' = "stopped"
    /\ UNCHANGED <<running, arrived, put, feature_queue, flow, recent, action_queue, decision,
                   table, log>>

\* wait_for gives up after two seconds; the loop calls get again.
Timeout ==
    /\ LoopFree
    /\ classifier = "wait"
    /\ classifier' = "get"
    /\ UNCHANGED <<running, arrived, put, feature_queue, flow, recent, action_queue, decision,
                   table, log>>

\* The blocks of an address that the agent remembers.
Blocked(ip) == {i \in DOMAIN recent : recent[i].ip = ip /\ recent[i].action \in Block}

\* Mutation: one block too many before it heals.
HealThird(f, action) ==
    IF action \in Block /\ Cardinality(Blocked(f.ip)) >= 3 /\ f.low THEN "REMOVE_RULE" ELSE action

\* _self_healing_check
Heal(f, action) ==
    IF action \in Block /\ Cardinality(Blocked(f.ip)) >= 2 /\ f.low THEN "REMOVE_RULE" ELSE action

\* deque(maxlen=...).append
Remember(d) ==
    LET all == Append(recent, d)
    IN  IF Len(all) > History THEN Tail(all) ELSE all

\* Mutation: a decision that finds the action queue full is taken again later.
ClassifyAgain ==
    /\ LoopFree
    /\ classifier = "classify"
    /\ \E action \in Policy :
          LET f == flow[1]
              d == [id |-> f.id, ip |-> f.ip, low |-> f.low, action |-> Heal(f, action)]
          IN  /\ recent' = Remember(d)
              /\ \/ /\ Len(action_queue) < ACTION_QUEUE_MAXSIZE
                    /\ action_queue' = Append(action_queue, d)
                    /\ UNCHANGED feature_queue
                 \/ /\ Len(action_queue) >= ACTION_QUEUE_MAXSIZE
                    /\ Len(feature_queue) < FEATURE_QUEUE_MAXSIZE
                    /\ feature_queue' = Append(feature_queue, f)
                    /\ UNCHANGED action_queue
    /\ flow' = <<>>
    /\ classifier' = "get"
    /\ UNCHANGED <<running, arrived, put, decision, table, log>>

\* One iteration: score, decide, put_nowait; a full action queue drops the
\* decision, which the agent has remembered.
Classify ==
    /\ LoopFree
    /\ classifier = "classify"
    /\ \E action \in Policy :
          LET f == flow[1]
              d == [id |-> f.id, ip |-> f.ip, low |-> f.low, action |-> Heal(f, action)]
          IN  /\ recent' = Remember(d)
              /\ action_queue' = IF Len(action_queue) < ACTION_QUEUE_MAXSIZE
                                 THEN Append(action_queue, d) ELSE action_queue
    /\ flow' = <<>>
    /\ classifier' = "get"
    /\ UNCHANGED <<running, arrived, put, feature_queue, decision, table, log>>

\* An error in the iteration (a model that is being retrained): the flow is
\* lost, the loop goes on.
ClassifyFails ==
    /\ LoopFree
    /\ classifier = "classify"
    /\ flow' = <<>>
    /\ classifier' = "get"
    /\ UNCHANGED <<running, arrived, put, feature_queue, recent, action_queue, decision, table,
                   log>>

-----------------------------------------------------------------------------
(* _enforcer_loop                                                          *)

Entries(t)       == {ip \in IPs : t[ip] # Vacant}
Withdrawn(t, ips) == [ip \in IPs |-> IF ip \in ips THEN Vacant ELSE t[ip]]

\* Mutation: room is made when the table overflows.
RoomLate(t) ==
    IF Cardinality(Entries(t)) > MAX_KERNEL_RULES
    THEN {Withdrawn(t, ips) : ips \in (SUBSET Entries(t)) \ {{}}}
    ELSE {t}

\* The capacity check: a full table gives up some rules.
Room(t) ==
    IF Cardinality(Entries(t)) >= MAX_KERNEL_RULES
    THEN {Withdrawn(t, ips) : ips \in (SUBSET Entries(t)) \ {{}}}
    ELSE {t}

\* Mutation: a rule that exists is refreshed whatever its action.
AppliedOnce(d) ==
    IF d.ip \in Exempt \/ d.action = "ALLOW" THEN {table}
    ELSE IF d.action = "REMOVE_RULE" THEN {Withdrawn(table, {d.ip})}
    ELSE IF table[d.ip] # Vacant THEN {table}
    ELSE UNION {{t, [t EXCEPT ![d.ip] = d.action]} : t \in Room(table)}

\* What apply_action leaves in the registry; nft may refuse the rule.
Applied(d) ==
    IF d.ip \in Exempt \/ d.action \in {"ALLOW", table[d.ip]} THEN {table}
    ELSE IF d.action = "REMOVE_RULE" THEN {Withdrawn(table, {d.ip})}
    ELSE UNION {{t, [t EXCEPT ![d.ip] = d.action]} : t \in Room(Withdrawn(table, {d.ip}))}

TakeDecision ==
    /\ running /\ LoopFree
    /\ decision = <<>>
    /\ action_queue # <<>>
    /\ decision' = <<Head(action_queue)>>
    /\ action_queue' = Tail(action_queue)
    /\ UNCHANGED <<running, arrived, put, feature_queue, classifier, flow, recent, table, log>>

\* One iteration: apply_action, then log_event, with no await that suspends.
Enforce ==
    /\ running /\ LoopFree
    /\ decision # <<>>
    /\ table' \in Applied(decision[1])
    /\ log' = log \o decision
    /\ decision' = <<>>
    /\ UNCHANGED <<running, arrived, put, feature_queue, classifier, flow, recent, action_queue>>

\* A rule expires, or an operator removes it.
Withdraw(ip) ==
    /\ table[ip] # Vacant
    /\ table' = Withdrawn(table, {ip})
    /\ UNCHANGED <<running, arrived, put, feature_queue, classifier, flow, recent, action_queue,
                   decision, log>>

\* _shutdown: the tasks are cancelled where they wait; what they had taken
\* and what is in the queues is gone.
Stop ==
    /\ running /\ LoopFree
    /\ running' = FALSE
    /\ classifier' = "stopped"
    /\ flow' = <<>>
    /\ decision' = <<>>
    /\ UNCHANGED <<arrived, put, feature_queue, recent, action_queue, table, log>>

-----------------------------------------------------------------------------

ClassifierProgress == Get \/ Register \/ Wake \/ Classify \/ ClassifyFails
EnforcerProgress   == TakeDecision \/ Enforce

PutProgress(p) == (\E ip \in IPs, low \in BOOLEAN : PutAppend(p, ip, low)) \/ PutWake(p)

Next ==
    \/ SnifferPut \/ SimulationPut
    \/ \E c \in Campaigns : CampaignPut(c)
    \/ \E p \in Putters : PutProgress(p)
    \/ ClassifierProgress \/ Timeout
    \/ EnforcerProgress
    \/ \E ip \in IPs : Withdraw(ip)
    \/ Stop

Spec == Init /\ [][Next]_vars

(***************************************************************************)
(* Ready tasks of the loop run first in, first out, so that the enforcer   *)
(* gets its turn however often the classifier looks for flows; a put that  *)
(* woke the classifier from another thread is noticed when the loop's next *)
(* timer fires, at most two seconds later.  The loop gets through a put it *)
(* has begun; nobody need begin one, and a campaign's thread may stop in   *)
(* the middle of its own.                                                  *)
(***************************************************************************)
FairSpec ==
    /\ Spec
    /\ WF_vars(PutProgress(Loop)) /\ WF_vars(ClassifierProgress)
    /\ WF_vars(Timeout) /\ SF_vars(EnforcerProgress)

-----------------------------------------------------------------------------
(* Properties                                                              *)

\* Every variable keeps its type; the action queue and the history keep to
\* their sizes and the registry to its capacity.  The feature queue exceeds
\* its size by no more than one flow for each campaign that overlaps, since
\* put_nowait's check and its append are two steps (attack_generator.py:140).
TypeOK ==
    /\ running \in BOOLEAN
    /\ arrived \in 0 .. MaxFlows
    /\ put \in [Putters -> {"idle", "append", "wake"}]
    /\ feature_queue \in Seq(Flow)
    /\ Len(feature_queue) <= FEATURE_QUEUE_MAXSIZE + Cardinality(Campaigns)
    /\ classifier \in {"get", "register", "wait", "wake", "classify", "stopped"}
    /\ flow \in Seq(Flow) /\ Len(flow) = IF classifier = "classify" THEN 1 ELSE 0
    /\ recent \in Seq(Decision) /\ Len(recent) <= History
    /\ action_queue \in Seq(Decision) /\ Len(action_queue) <= ACTION_QUEUE_MAXSIZE
    /\ decision \in Seq(Decision) /\ Len(decision) <= 1
    /\ table \in [IPs -> Block \cup {Vacant}] /\ Cardinality(Entries(table)) <= MAX_KERNEL_RULES
    /\ log \in Seq(Decision)

\* The numbers of the flows in the pipeline, the one that came first first.
Ids(s) == [i \in DOMAIN s |-> s[i].id]
InFlight == Ids(log) \o Ids(decision) \o Ids(action_queue) \o Ids(flow) \o Ids(feature_queue)

\* Decisions are applied and logged in the order in which the queue took the flows,
\* each flow at most once, whatever is dropped on the way.
InOrder ==
    \A i, j \in DOMAIN InFlight : i < j => InFlight[i] < InFlight[j]

\* The log explains every rule in force: the last logged event of its address
\* that could change a rule is the one that set it.  In particular an address
\* that self-healing released is free until a later event blocks it.
RuleExplained ==
    \A ip \in IPs :
        table[ip] # Vacant =>
            \E i \in DOMAIN log :
                /\ log[i].ip = ip /\ log[i].action = table[ip]
                /\ \A j \in i + 1 .. Len(log) : log[j].ip = ip => log[j].action \in {"ALLOW", table[ip]}

\* Self-healing works although decisions are dropped and applied later: among
\* flows that lie at most History apart, no address is blocked a third time
\* for a flow with a low score.
ThirdBlockHealed ==
    \A i, j, k \in DOMAIN log :
        ~ /\ i < j /\ j < k
          /\ log[k].id - log[i].id <= History
          /\ log[i].ip = log[k].ip /\ log[j].ip = log[k].ip
          /\ {log[i].action, log[j].action, log[k].action} \subseteq Block
          /\ log[k].low

\* While the firewall runs, every accepted flow is settled: its decision is
\* logged, or dropped on the way; no flow waits for ever, although a put by
\* another thread may wake nobody.
Awaited == ToSet(Ids(feature_queue \o flow) \o Ids(action_queue \o decision))
FlowsSettled ==
    \A id \in 1 .. MaxFlows : id \in Awaited ~> id \notin Awaited \/ ~running
=============================================================================
