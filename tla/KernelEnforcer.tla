--------------------------- MODULE KernelEnforcer ---------------------------
(***************************************************************************)
(* kernel_enforcer.py: the registry of active rules, the nftables state    *)
(* the enforcer drives through `nft`, and the threads that change both.    *)
(*                                                                         *)
(* The event loop runs apply_action (called by the enforcer loop) and      *)
(* _run_cleanup.  None of them suspends, so on the loop they are atomic    *)
(* with respect to each other; but every registry access and every nft     *)
(* command is a step of its own, because the Flask threads of the          *)
(* dashboard run remove_rule (api_unblock) and flush_all (api_flush) at    *)
(* the same time and the registry's lock covers single accesses only.      *)
(*                                                                         *)
(* Time is a tick; RULE_TTL_DEFAULT, RULE_TTL_MAX and                      *)
(* RULE_CLEANUP_INTERVAL are numbers of ticks.                             *)
(***************************************************************************)
EXTENDS Integers, FiniteSets, Nftables

CONSTANTS Loop,                   \* the event loop's thread
          Operators,              \* Flask threads serving operators
          Endpoints,              \* endpoints they use: "unblock", "flush"
          Exempt,                 \* malformed or whitelisted addresses
          Scores,                 \* anomaly scores
          MAX_KERNEL_RULES,
          RULE_TTL_MAX,
          RULE_CLEANUP_INTERVAL,
          SIMULATION_MODE,
          MaxFaults,              \* bound: failing nft invocations
          MaxCrashes              \* bound: crashes of the process

ASSUME ThreadsAssumption  == Loop \notin Operators
ASSUME EndpointAssumption == Endpoints \subseteq {"unblock", "flush"}
ASSUME IPsAssumption      == IsFiniteSet(IPs)
ASSUME ScoresAssumption   == Scores \subseteq Nat
ASSUME LimitsAssumption   == /\ MAX_KERNEL_RULES \in Nat \ {0}
                             /\ RULE_TTL_MAX \in Nat
                             /\ RULE_TTL_DEFAULT <= RULE_TTL_MAX
                             /\ RULE_CLEANUP_INTERVAL \in Nat
                             /\ MaxFaults \in Nat
                             /\ MaxCrashes \in Nat
ASSUME ModeAssumption     == SIMULATION_MODE \in BOOLEAN

VARIABLES rules,     \* registry: the rule of each address
          nft,       \* the packet filter
          dry_run,   \* nft commands are only logged
          sleep,     \* ticks until the cleanup task wakes
          pc,        \* what each thread does next
          call,      \* the loop's apply_action: address, action, score
          resume,    \* where the loop goes on once the removals are done
          todo,      \* addresses a thread still has to pass to remove_rule
          held,      \* the rule remove_rule looked up: its address and action
          faults,    \* nft invocations that have failed so far
          crashes    \* crashes so far

vars == <<rules, nft, dry_run, sleep, pc, call, resume, todo, held, faults, crashes>>

Threads == {Loop} \cup Operators
Blocks  == {"DROP_IP", "RATE_LIMIT_IP"}
Actions == Blocks \cup {"REMOVE_RULE"}

NoRule == [action |-> "NONE", score |-> 0, age |-> 0, ttl |-> 0]
Rule   == [action : Blocks, score : Scores, age : 0 .. RULE_TTL_MAX + 1,
           ttl : RULE_TTL_DEFAULT .. RULE_TTL_MAX]

\* The call record of an idle loop, and a removal's lookup that holds no rule.
NoCall    == [ip |-> "none", action |-> "NONE", score |-> 0, late |-> FALSE]
NoLookup  == [ip |-> "none", action |-> "NONE"]

Registered     == {ip \in IPs : rules[ip] # NoRule}
RegisteredAs(a) == {ip \in IPs : rules[ip].action = a}

\* KernelRule.is_expired, and the lower of the extended TTL and its cap.
IsExpired(rule) == rule.age > rule.ttl
Uncapped(t)     == (3 * t) \div 2      \* mutation: the cap is forgotten
ExtendedTtl(t)  == IF (3 * t) \div 2 < RULE_TTL_MAX THEN (3 * t) \div 2 ELSE RULE_TTL_MAX
MaxScore(a, b)  == IF a > b THEN a ELSE b

\* Mutation: refresh restarts the rule's age.
RefreshedFromZero(rule, score) ==
    [rule EXCEPT !.ttl = ExtendedTtl(@), !.score = MaxScore(@, score), !.age = 0]

\* KernelRule.refresh
Refreshed(rule, score) ==
    [rule EXCEPT !.ttl = ExtendedTtl(@), !.score = MaxScore(@, score)]

(***************************************************************************)
(* _run_nft with the states the command can leave behind.  In dry-run mode *)
(* it reports success and does nothing.  A fault is a refusal, a timeout   *)
(* (which may strike before or after the command took effect) or a missing *)
(* nft binary, which switches to dry-run; all report failure.              *)
(***************************************************************************)
RunNft(outcomes, ok) ==
    \/ /\ dry_run /\ ok
       /\ UNCHANGED <<nft, dry_run, faults>>
    \/ /\ ~dry_run /\ ok
       /\ nft' \in outcomes
       /\ UNCHANGED <<dry_run, faults>>
    \/ /\ ~dry_run /\ ~ok /\ outcomes = {}
       /\ UNCHANGED <<nft, dry_run, faults>>
    \/ /\ ~dry_run /\ ~ok /\ faults < MaxFaults
       /\ nft' \in outcomes \cup {nft}
       /\ faults' = faults + 1
       /\ UNCHANGED dry_run
    \/ /\ ~dry_run /\ ~ok /\ faults < MaxFaults
       /\ dry_run' = TRUE
       /\ faults' = faults + 1
       /\ UNCHANGED nft

Goto(t, label) == pc' = [pc EXCEPT ![t] = label]

Init ==
    /\ rules = [ip \in IPs |-> NoRule]
    /\ nft = PristineNft
    /\ dry_run \in {SIMULATION_MODE, TRUE}
    /\ sleep = RULE_CLEANUP_INTERVAL
    /\ pc = [t \in Threads |-> IF t = Loop THEN "setup_tables" ELSE "idle"]
    /\ call = NoCall
    /\ resume = "idle"
    /\ todo = [t \in Threads |-> {}]
    /\ held = [t \in Threads |-> NoLookup]
    /\ faults = 0
    /\ crashes = 0

-----------------------------------------------------------------------------
(* setup_tables, before any other task or thread is started.  Its result   *)
(* is ignored by _initialize_kernel.                                       *)

SetupTables ==
    /\ pc[Loop] = "setup_tables"
    /\ \E ok \in BOOLEAN : RunNft(AddTables(nft), ok)
    /\ Goto(Loop, "setup_hook")
    /\ UNCHANGED <<rules, sleep, call, resume, todo, held, crashes>>

\* Mutation: the set is made, the rule that drops its members is not.
SetupNoHook ==
    /\ pc[Loop] = "setup_hook"
    /\ Goto(Loop, "idle")
    /\ UNCHANGED <<rules, nft, dry_run, sleep, call, resume, todo, held, faults, crashes>>

SetupHook ==
    /\ pc[Loop] = "setup_hook"
    /\ \E ok \in BOOLEAN : RunNft(AddHook(nft), ok)
    /\ Goto(Loop, "idle")
    /\ UNCHANGED <<rules, sleep, call, resume, todo, held, crashes>>

SettingUp == pc[Loop] \in {"setup_tables", "setup_hook"}

-----------------------------------------------------------------------------
(* apply_action.  Exempt addresses and ALLOW return at once.               *)

Apply(ip, action, score) ==
    /\ pc[Loop] = "idle"
    /\ ip \notin Exempt
    /\ call' = [ip |-> ip, action |-> action, score |-> score, late |-> FALSE]
    /\ \/ /\ action = "REMOVE_RULE"
          /\ todo' = [todo EXCEPT ![Loop] = {ip}]
          /\ resume' = "idle"
          /\ Goto(Loop, "remove")
       \/ /\ action \in Blocks
          /\ rules[ip] = NoRule
          /\ Goto(Loop, "capacity")
          /\ UNCHANGED <<todo, resume>>
       \/ /\ action = rules[ip].action
          /\ Goto(Loop, "refresh")
          /\ UNCHANGED <<todo, resume>>
       \/ /\ action \in Blocks
          /\ rules[ip] # NoRule
          /\ action # rules[ip].action
          /\ todo' = [todo EXCEPT ![Loop] = {ip}]
          /\ resume' = "capacity"
          /\ Goto(Loop, "remove")
    /\ UNCHANGED <<rules, nft, dry_run, sleep, held, faults, crashes>>

\* existing.refresh: without effect on the registry when the rule has been
\* popped since the lookup.
Refresh ==
    /\ pc[Loop] = "refresh"
    /\ rules' = IF rules[call.ip] = NoRule THEN rules
                ELSE [rules EXCEPT ![call.ip] = Refreshed(@, call.score)]
    /\ call' = NoCall
    /\ Goto(Loop, "idle")
    /\ UNCHANGED <<nft, dry_run, sleep, resume, todo, held, faults, crashes>>

\* Where an action is injected.
InjectLabel(action) == IF action = "DROP_IP" THEN "inject_drop" ELSE "inject_accept"

\* Mutation: one rule too many.
CapacityCheckTooLate ==
    /\ pc[Loop] = "capacity"
    /\ Goto(Loop, IF Cardinality(Registered) > MAX_KERNEL_RULES
                  THEN "emergency" ELSE InjectLabel(call.action))
    /\ UNCHANGED <<rules, nft, dry_run, sleep, call, resume, todo, held, faults, crashes>>

CapacityCheck ==
    /\ pc[Loop] = "capacity"
    /\ Goto(Loop, IF Cardinality(Registered) >= MAX_KERNEL_RULES
                  THEN "emergency" ELSE InjectLabel(call.action))
    /\ UNCHANGED <<rules, nft, dry_run, sleep, call, resume, todo, held, faults, crashes>>

\* _emergency_cleanup picks a fifth of the rules, at least one (none when the
\* registry was emptied meanwhile), lowest scores first.
EmergencyFifth(n) == n \div 5          \* mutation: max(1, ...) is dropped
EmergencySize(n) == IF n = 0 THEN 0 ELSE IF n \div 5 > 1 THEN n \div 5 ELSE 1
HighestVictims ==                     \* mutation: sorted the other way
    {V \in SUBSET Registered :
        /\ Cardinality(V) = EmergencySize(Cardinality(Registered))
        /\ \A v \in V, w \in Registered \ V : rules[v].score >= rules[w].score}
EmergencyVictims ==
    {V \in SUBSET Registered :
        /\ Cardinality(V) = EmergencySize(Cardinality(Registered))
        /\ \A v \in V, w \in Registered \ V : rules[v].score <= rules[w].score}

EmergencyCleanup ==
    /\ pc[Loop] = "emergency"
    /\ \E V \in EmergencyVictims : todo' = [todo EXCEPT ![Loop] = V]
    /\ resume' = InjectLabel(call.action)
    /\ Goto(Loop, "remove")
    /\ UNCHANGED <<rules, nft, dry_run, sleep, call, held, faults, crashes>>

InjectDrop ==
    /\ pc[Loop] = "inject_drop"
    /\ \/ /\ RunNft(AddElement(nft, call.ip), TRUE)
          /\ Goto(Loop, "register")
          /\ UNCHANGED call
       \/ /\ RunNft(AddElement(nft, call.ip), FALSE)
          /\ Goto(Loop, "idle")
          /\ call' = NoCall
    /\ UNCHANGED <<rules, sleep, resume, todo, held, crashes>>

\* _inject_rate_limit: accept rule `and` drop rule.
InjectAccept ==
    /\ pc[Loop] = "inject_accept"
    /\ \/ /\ RunNft(AddAccept(nft, call.ip), TRUE)
          /\ Goto(Loop, "inject_excess")
          /\ UNCHANGED call
       \/ /\ RunNft(AddAccept(nft, call.ip), FALSE)
          /\ Goto(Loop, "idle")
          /\ call' = NoCall
    /\ UNCHANGED <<rules, sleep, resume, todo, held, crashes>>

\* Mutation: the result of the drop rule is ignored.
InjectExcessUnchecked ==
    /\ pc[Loop] = "inject_excess"
    /\ \E ok \in BOOLEAN : RunNft(AddDrop(nft, call.ip), ok)
    /\ Goto(Loop, "register")
    /\ UNCHANGED <<rules, sleep, call, resume, todo, held, crashes>>

InjectExcess ==
    /\ pc[Loop] = "inject_excess"
    /\ \/ /\ RunNft(AddDrop(nft, call.ip), TRUE)
          /\ Goto(Loop, "register")
          /\ UNCHANGED call
       \/ /\ RunNft(AddDrop(nft, call.ip), FALSE)
          /\ Goto(Loop, "idle")
          /\ call' = NoCall
    /\ UNCHANGED <<rules, sleep, resume, todo, held, crashes>>

\* Mutation: the rule gets another constant as its TTL.
RegisterShort ==
    /\ pc[Loop] = "register"
    /\ rules' = [rules EXCEPT ![call.ip] =
                   [action |-> call.action, score |-> call.score,
                    age |-> 0, ttl |-> RULE_CLEANUP_INTERVAL]]
    /\ call' = NoCall
    /\ Goto(Loop, "idle")
    /\ UNCHANGED <<nft, dry_run, sleep, resume, todo, held, faults, crashes>>

Register ==
    /\ pc[Loop] = "register"
    /\ rules' = [rules EXCEPT ![call.ip] =
                   [action |-> call.action, score |-> call.score,
                    age |-> 0, ttl |-> RULE_TTL_DEFAULT]]
    /\ call' = NoCall
    /\ Goto(Loop, "idle")
    /\ UNCHANGED <<nft, dry_run, sleep, resume, todo, held, faults, crashes>>

-----------------------------------------------------------------------------
(* remove_rule, by the loop (for each address in todo) or by an operator.  *)

\* Only a DROP rule has something to delete in the kernel.
LimitRemoval(action) ==               \* mutation: the wrong kind of rule
    IF action = "RATE_LIMIT_IP" THEN "delete" ELSE "deregister"
Removal(action) == IF action = "DROP_IP" THEN "delete" ELSE "deregister"

RemoveLookup(t) ==
    /\ pc[t] = "remove"
    /\ \E ip \in todo[t] :
          /\ todo' = [todo EXCEPT ![t] = @ \ {ip}]
          /\ IF rules[ip] = NoRule
             THEN UNCHANGED <<pc, held>>
             ELSE /\ held' = [held EXCEPT ![t] = [ip |-> ip, action |-> rules[ip].action]]
                  /\ Goto(t, Removal(rules[ip].action))
    /\ UNCHANGED <<rules, nft, dry_run, sleep, call, resume, faults, crashes>>

\* Mutation: the rule stays in the registry.
RemoveDeleteOnly(t) ==
    /\ pc[t] = "delete"
    /\ \E ok \in BOOLEAN : RunNft(DeleteElement(nft, held[t].ip), ok)
    /\ held' = [held EXCEPT ![t] = NoLookup]
    /\ Goto(t, "remove")
    /\ UNCHANGED <<rules, sleep, call, resume, todo, crashes>>

\* The result of the command is ignored.
RemoveDelete(t) ==
    /\ pc[t] = "delete"
    /\ \E ok \in BOOLEAN : RunNft(DeleteElement(nft, held[t].ip), ok)
    /\ Goto(t, "deregister")
    /\ UNCHANGED <<rules, sleep, call, resume, todo, held, crashes>>

\* registry.remove pops whatever rule the address has by now.
RemoveDeregister(t) ==
    /\ pc[t] = "deregister"
    /\ rules' = [rules EXCEPT ![held[t].ip] = NoRule]
    /\ held' = [held EXCEPT ![t] = NoLookup]
    /\ Goto(t, "remove")
    /\ UNCHANGED <<nft, dry_run, sleep, call, resume, todo, faults, crashes>>

RemoveReturn(t) ==
    /\ pc[t] = "remove"
    /\ todo[t] = {}
    /\ Goto(t, IF t = Loop THEN resume ELSE "idle")
    /\ IF t = Loop
       THEN /\ resume' = "idle"
            /\ call' = IF resume = "idle" THEN NoCall ELSE call
       ELSE UNCHANGED <<resume, call>>
    /\ UNCHANGED <<rules, nft, dry_run, sleep, todo, held, faults, crashes>>

-----------------------------------------------------------------------------
(* start_cleanup_loop and _run_cleanup                                     *)

RunCleanup ==
    /\ pc[Loop] = "idle"
    /\ sleep = 0
    /\ todo' = [todo EXCEPT ![Loop] = {ip \in Registered : IsExpired(rules[ip])}]
    /\ resume' = "cleanup_sleep"
    /\ Goto(Loop, "remove")
    /\ UNCHANGED <<rules, nft, dry_run, sleep, call, held, faults, crashes>>

CleanupSleep ==
    /\ pc[Loop] = "cleanup_sleep"
    /\ sleep' = RULE_CLEANUP_INTERVAL
    /\ Goto(Loop, "idle")
    /\ UNCHANGED <<rules, nft, dry_run, call, resume, todo, held, faults, crashes>>

-----------------------------------------------------------------------------
(* The dashboard's threads: api_unblock and api_flush                      *)

Unblock(o, ip) ==
    /\ "unblock" \in Endpoints
    /\ ~SettingUp
    /\ pc[o] = "idle"
    /\ todo' = [todo EXCEPT ![o] = {ip}]
    /\ Goto(o, "remove")
    /\ UNCHANGED <<rules, nft, dry_run, sleep, call, resume, held, faults, crashes>>

FlushTable(o) ==
    /\ "flush" \in Endpoints
    /\ ~SettingUp
    /\ pc[o] = "idle"
    /\ \/ RunNft(FlushRules(nft), TRUE)  /\ Goto(o, "clear")
       \/ RunNft(FlushRules(nft), FALSE) /\ UNCHANGED pc
    /\ UNCHANGED <<rules, sleep, call, resume, todo, held, crashes>>

FlushClear(o) ==
    /\ pc[o] = "clear"
    /\ rules' = [ip \in IPs |-> NoRule]
    /\ Goto(o, "idle")
    /\ UNCHANGED <<nft, dry_run, sleep, call, resume, todo, held, faults, crashes>>

-----------------------------------------------------------------------------
(* Time and the process                                                    *)

\* A tick is longer than the 5 s an nft command may take (the timeout of
\* _run_nft), so at most one falls between a command and the creation of its
\* KernelRule.  Ages are counted up to one more than the largest TTL.
Aged(rule) == IF rule = NoRule \/ rule.age > RULE_TTL_MAX
              THEN rule ELSE [rule EXCEPT !.age = @ + 1]

Tick ==
    /\ ~SettingUp
    /\ ~call.late
    /\ nft' = Elapse(nft)
    /\ rules' = [ip \in IPs |-> Aged(rules[ip])]
    /\ sleep' = IF sleep > 0 THEN sleep - 1 ELSE 0
    /\ call' = [call EXCEPT !.late = (pc[Loop] = "register")]
    /\ UNCHANGED <<dry_run, pc, resume, todo, held, faults, crashes>>

\* The process dies (or shuts down: stop() leaves the kernel as it is) and is
\* started again.  Its memory is lost, the packet filter is not, and an nft
\* command still running has taken effect or not.
Crash ==
    /\ crashes < MaxCrashes
    /\ crashes' = crashes + 1
    /\ rules' = [ip \in IPs |-> NoRule]
    /\ dry_run' \in {SIMULATION_MODE, TRUE}
    /\ sleep' = RULE_CLEANUP_INTERVAL
    /\ pc' = [t \in Threads |-> IF t = Loop THEN "setup_tables" ELSE "idle"]
    /\ call' = NoCall
    /\ resume' = "idle"
    /\ todo' = [t \in Threads |-> {}]
    /\ held' = [t \in Threads |-> NoLookup]
    /\ UNCHANGED <<nft, faults>>

-----------------------------------------------------------------------------

Remove(t) == RemoveLookup(t) \/ RemoveDelete(t) \/ RemoveDeregister(t) \/ RemoveReturn(t)

\* The steps by which the loop ends what it has begun.
LoopProgress ==
    \/ SetupTables \/ SetupHook
    \/ Refresh \/ CapacityCheck \/ EmergencyCleanup
    \/ InjectDrop \/ InjectAccept \/ InjectExcess \/ Register
    \/ Remove(Loop) \/ CleanupSleep

Next ==
    \/ LoopProgress
    \/ \E ip \in IPs, action \in Actions, score \in Scores : Apply(ip, action, score)
    \/ RunCleanup
    \/ \E o \in Operators : \/ \E ip \in IPs : Unblock(o, ip)
                            \/ FlushTable(o) \/ FlushClear(o)
                            \/ Remove(o)
    \/ Tick
    \/ Crash

Spec == Init /\ [][Next]_vars

(***************************************************************************)
(* Time passes, the loop ends what it begins, and the cleanup task, once   *)
(* its timer has fired, gets its turn however busy the enforcer loop is:   *)
(* asyncio runs ready tasks first in, first out, and apply_action ends.    *)
(***************************************************************************)
FairSpec == Spec /\ WF_vars(Tick) /\ WF_vars(LoopProgress) /\ SF_vars(RunCleanup)
-----------------------------------------------------------------------------
(* Properties                                                              *)

Labels == {"setup_tables", "setup_hook", "idle", "refresh", "capacity", "emergency",
           "inject_drop", "inject_accept", "inject_excess", "register",
           "remove", "delete", "deregister", "cleanup_sleep", "clear"}

\* Every variable keeps its type: in particular no rule's TTL leaves the range
\* from RULE_TTL_DEFAULT to RULE_TTL_MAX, however often it is refreshed.
TypeOK ==
    /\ rules \in [IPs -> Rule \cup {NoRule}]
    /\ nft \in NftState
    /\ dry_run \in BOOLEAN
    /\ sleep \in 0 .. RULE_CLEANUP_INTERVAL
    /\ pc \in [Threads -> Labels]
    /\ call \in [ip : IPs, action : Actions, score : Scores, late : BOOLEAN] \cup {NoCall}
    /\ resume \in {"idle", "capacity", "inject_drop", "inject_accept", "cleanup_sleep"}
    /\ todo \in [Threads -> SUBSET IPs]
    /\ held \in [Threads -> [ip : IPs, action : Blocks] \cup {NoLookup}]
    /\ faults \in 0 .. MaxFaults
    /\ crashes \in 0 .. MaxCrashes

\* The registry never holds more than MAX_KERNEL_RULES rules, although the
\* capacity check, the eviction and the registration are separate steps and
\* operators remove rules between them.
CapacityRespected == Cardinality(Registered) <= MAX_KERNEL_RULES

\* The kernel never goes on blocking an address beyond the TTL of its DROP
\* rule: the element's remaining time is at most the rule's, whatever threads
\* interleave, commands fail or elements are left over from a crash.
ElementExpiresFirst ==
    \A ip \in RegisteredAs("DROP_IP") :
        \/ nft.blackhole[ip] = 0
        \/ nft.blackhole[ip] + rules[ip].age <= rules[ip].ttl

\* A registered RATE_LIMIT rule is in force in the kernel, both halves of it,
\* also when commands fail, operators unblock and the process restarts (as
\* long as nobody flushes the table).
RateLimitEnforced ==
    dry_run \/ \A ip \in RegisteredAs("RATE_LIMIT_IP") :
                   ip \in nft.accepts \cap nft.drops

\* When the loop is the only thread and no command fails, every element of the
\* blackhole set is known: its address has a DROP rule in the registry, or
\* apply_action is about to register one.
BlackholeTracked ==
    \A ip \in Blackholed(nft) :
        \/ rules[ip].action = "DROP_IP"
        \/ pc[Loop] = "register" /\ call.ip = ip /\ call.action = "DROP_IP"

\* The kernel drops the packets of an address with a DROP rule in the registry
\* that nobody is removing, for RULE_TTL_DEFAULT (less the tick an nft command
\* may last): its element is in the set, and the set's rule (line 177) in the
\* input chain.  Holds for the loop alone while no command fails and nothing
\* restarts; the registry's "thread-safe" claim (line 89) does not extend to
\* the enforcer: with an operator it fails.
DropEnforced ==
    dry_run \/ \A ip \in RegisteredAs("DROP_IP") :
                   \/ ip \in Dropped(nft)
                   \/ rules[ip].age + 1 >= RULE_TTL_DEFAULT
                   \/ \E t \in Threads : held[t].ip = ip

\* "Extend TTL when the same IP attacks again" (line 70): a DROP rule whose TTL
\* was extended goes on being enforced until that TTL.
BlockedForTtl ==
    dry_run \/ \A ip \in RegisteredAs("DROP_IP") :
                   \/ ip \in Dropped(nft)
                   \/ rules[ip].age + 1 >= rules[ip].ttl
                   \/ \E t \in Threads : held[t].ip = ip

\* Emergency cleanup sacrifices the least dangerous rule: a rule it withdraws
\* scores no higher than any rule that stays, even when operators remove rules
\* between its choice and the withdrawal.
EvictionSparesHigher ==
    [][\A ip \in IPs :
          /\ pc[Loop] = "deregister"
          /\ resume \in {"inject_drop", "inject_accept"}
          /\ held[Loop].ip = ip /\ rules[ip] # NoRule /\ rules'[ip] = NoRule
          => \A other \in Registered' :
                other \in todo[Loop] \/ rules[ip].score <= rules[other].score]_vars

\* The registry implements RuleTable.
InForce == [ip \in IPs |-> rules[ip].action]
Table == INSTANCE RuleTable WITH table <- InForce

\* Every step of the enforcer is one step of the table or none: rules are
\* installed only on vacant addresses and within the capacity, and replaced
\* only by way of a removal.
ImplementsRuleTable == Table!Spec

\* In addition every rule is withdrawn in the end, although each new detection
\* of its address extends its TTL.
ImplementsFairRuleTable == Table!FairSpec

=============================================================================
