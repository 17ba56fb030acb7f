------------------------ MODULE KernelEnforcerProofs ------------------------
(***************************************************************************)
(* Theorems about KernelEnforcer for every number of addresses, threads,   *)
(* rules and ticks.  The argument goes by layers: the types together with  *)
(* what the loop's call holds at each label (Typed), the capacity          *)
(* (Bounded), the kernel's side of DROP rules and of RATE_LIMIT rules, and *)
(* finally the refinement of RuleTable.                                    *)
(***************************************************************************)
EXTENDS KernelEnforcer, FiniteSetTheorems, TLAPS

Calls == [ip : IPs, action : Actions, score : Scores, late : BOOLEAN]

\* The labels at which apply_action works on a block it has been asked for, and
\* those of remove_rule.
Applying == {"refresh", "capacity", "emergency", "inject_drop", "inject_accept",
             "inject_excess", "register"}
Removing == {"remove", "delete", "deregister"}

\* Where the loop works for apply_action, call is the block it was called with.
CallKept ==
    (\/ pc[Loop] \in Applying
     \/ pc[Loop] \in Removing /\ resume \in {"capacity", "inject_drop", "inject_accept"})
    => call \in Calls /\ call.action \in Blocks

Typed == TypeOK /\ CallKept

\* What each nft command leaves behind is a state of the filter.
LEMMA NftTypes ==
    ASSUME NEW n \in NftState, NEW ip
    PROVE  /\ AddTables(n) \subseteq NftState
           /\ AddHook(n) \subseteq NftState
           /\ AddElement(n, ip) \subseteq NftState
           /\ DeleteElement(n, ip) \subseteq NftState
           /\ AddAccept(n, ip) \subseteq NftState \/ ip \notin IPs
           /\ AddDrop(n, ip) \subseteq NftState \/ ip \notin IPs
           /\ FlushRules(n) \subseteq NftState
           /\ Elapse(n) \in NftState
<1> USE TtlAssumption DEF NftState
<1>1. AddTables(n) \subseteq NftState
  BY DEF AddTables
<1>2. AddHook(n) \subseteq NftState
  BY DEF AddHook
<1>3. AddElement(n, ip) \subseteq NftState
  BY DEF AddElement
<1>4. DeleteElement(n, ip) \subseteq NftState
  BY DEF DeleteElement
<1>5. AddAccept(n, ip) \subseteq NftState \/ ip \notin IPs
  BY DEF AddAccept
<1>6. AddDrop(n, ip) \subseteq NftState \/ ip \notin IPs
  BY DEF AddDrop
<1>7. FlushRules(n) \subseteq NftState
  BY DEF FlushRules
<1>8. Elapse(n) \in NftState
  BY DEF Elapse
<1>9. QED
  BY <1>1, <1>2, <1>3, <1>4, <1>5, <1>6, <1>7, <1>8

\* The pragmatic content of a run of nft: the filter reaches one of the
\* command's outcomes or stays, dry-run mode is only ever entered, and the
\* number of faults stays bounded.
LEMMA RunNftTypes ==
    ASSUME TypeOK, NEW STATE outcomes, outcomes \subseteq NftState,
           NEW ok \in BOOLEAN, RunNft(outcomes, ok)
    PROVE  /\ nft' \in NftState
           /\ dry_run' \in BOOLEAN
           /\ faults' \in 0 .. MaxFaults
<1> USE LimitsAssumption DEF TypeOK
<1>1. nft' \in NftState
  BY DEF RunNft
<1>2. dry_run' \in BOOLEAN
  BY DEF RunNft
<1>3. faults' \in 0 .. MaxFaults
  BY DEF RunNft
<1>4. QED
  BY <1>1, <1>2, <1>3
-----------------------------------------------------------------------------
(* Types                                                                   *)

\* A refreshed rule is a rule: its TTL does not shrink and stays below the cap.
LEMMA RefreshedTypes ==
    ASSUME NEW rule \in Rule, NEW score \in Scores
    PROVE  /\ Refreshed(rule, score) \in Rule
           /\ Refreshed(rule, score).ttl >= rule.ttl
           /\ Refreshed(rule, score).action = rule.action
           /\ Refreshed(rule, score).age = rule.age
<1> USE LimitsAssumption, TtlAssumption, ScoresAssumption DEF Rule
<1>1. /\ ExtendedTtl(rule.ttl) \in RULE_TTL_DEFAULT .. RULE_TTL_MAX
      /\ ExtendedTtl(rule.ttl) >= rule.ttl
  BY DEF ExtendedTtl
<1>2. MaxScore(rule.score, score) \in Scores
  BY DEF MaxScore
<1>3. QED
  BY <1>1, <1>2 DEF Refreshed

\* A rule that has aged by a tick is a rule.
LEMMA AgedTypes ==
    ASSUME NEW rule \in Rule \cup {NoRule}
    PROVE  Aged(rule) \in Rule \cup {NoRule} /\ Aged(rule).action = rule.action
<1>1. CASE rule = NoRule \/ rule.age > RULE_TTL_MAX
  BY <1>1 DEF Aged
<1>2. CASE rule \in Rule /\ ~(rule = NoRule \/ rule.age > RULE_TTL_MAX)
  <2>1. rule.age + 1 \in 0 .. RULE_TTL_MAX + 1
    BY <1>2, LimitsAssumption DEF Rule
  <2>2. QED
    BY <1>2, <2>1 DEF Aged, Rule
<1>3. QED
  BY <1>1, <1>2

\* A tick does not touch the call of a loop that is not registering.
LEMMA IdleCallStays == [NoCall EXCEPT !.late = FALSE] = NoCall
<1>1. NoCall \in [ip : {"none"}, action : {"NONE"}, score : {0}, late : BOOLEAN]
  BY DEF NoCall
<1>2. NoCall.late = FALSE
  BY DEF NoCall
<1>3. QED
  BY <1>1, <1>2

LEMMA InitTyped == Init => Typed
<1> SUFFICES ASSUME Init PROVE Typed
  OBVIOUS
<1> USE DEF Init
<1>1. nft \in NftState
  BY TtlAssumption DEF PristineNft, NftState
<1>2. TypeOK
  <2>1. pc \in [Threads -> Labels]
    BY DEF Labels
  <2>2. dry_run \in BOOLEAN
    BY ModeAssumption, Zenon
  <2>6. sleep \in 0 .. RULE_CLEANUP_INTERVAL
    BY LimitsAssumption
  <2>3. /\ rules \in [IPs -> Rule \cup {NoRule}]
        /\ todo \in [Threads -> SUBSET IPs]
        /\ held \in [Threads -> [ip : IPs, action : Blocks] \cup {NoLookup}]
    OBVIOUS
  <2>4. faults \in 0 .. MaxFaults /\ crashes \in 0 .. MaxCrashes
    BY LimitsAssumption
  <2>5. QED
    BY <1>1, <2>1, <2>2, <2>3, <2>4, <2>6 DEF TypeOK
<1>3. CallKept
  BY DEF CallKept, Applying, Removing, Threads
<1>4. QED
  BY <1>2, <1>3 DEF Typed

\* Every step keeps the types, and the loop's call as long as it is used.
LEMMA StepTyped == Typed /\ [Next]_vars => Typed'
<1> SUFFICES ASSUME Typed, [Next]_vars PROVE Typed'
  OBVIOUS
<1> USE LimitsAssumption, ModeAssumption, ThreadsAssumption
<1> USE DEF Typed, TypeOK, Labels, Threads, CallKept, Applying, Removing, Goto
<1>1. CASE SetupTables
  <2>1. AddTables(nft) \subseteq NftState
    BY NftTypes
  <2>2. nft' \in NftState /\ dry_run' \in BOOLEAN /\ faults' \in 0 .. MaxFaults
    BY <1>1, <2>1, RunNftTypes DEF SetupTables
  <2>3. QED
    BY <1>1, <2>2 DEF SetupTables
<1>2. CASE SetupHook
  <2>1. AddHook(nft) \subseteq NftState
    BY NftTypes
  <2>2. nft' \in NftState /\ dry_run' \in BOOLEAN /\ faults' \in 0 .. MaxFaults
    BY <1>2, <2>1, RunNftTypes DEF SetupHook
  <2>3. QED
    BY <1>2, <2>2 DEF SetupHook
<1>3. CASE Refresh
  <2>1. rules' \in [IPs -> Rule \cup {NoRule}]
    BY <1>3, RefreshedTypes DEF Refresh, Calls
  <2>2. QED
    BY <1>3, <2>1 DEF Refresh
<1>4. CASE CapacityCheck
  <2>0. InjectLabel(call.action) \in {"inject_drop", "inject_accept"}
    BY DEF InjectLabel
  <2>1. PICK label \in {"emergency", "inject_drop", "inject_accept"} :
          pc' = [pc EXCEPT ![Loop] = label]
    <3>1. CASE Cardinality(Registered) >= MAX_KERNEL_RULES
      BY <1>4, <3>1 DEF CapacityCheck
    <3>2. CASE ~(Cardinality(Registered) >= MAX_KERNEL_RULES)
      BY <1>4, <2>0, <3>2 DEF CapacityCheck
    <3>3. QED
      BY <3>1, <3>2
  <2>2. pc' \in [Threads -> Labels]
    BY <2>1
  <2>3. CallKept'
    BY <1>4, <2>1 DEF CapacityCheck
  <2>4. QED
    BY <1>4, <2>2, <2>3 DEF CapacityCheck
<1>5. CASE EmergencyCleanup
  <2>1. todo' \in [Threads -> SUBSET IPs]
    BY <1>5 DEF EmergencyCleanup, EmergencyVictims, Registered
  <2>2. resume' \in {"inject_drop", "inject_accept"}
    BY <1>5 DEF EmergencyCleanup, InjectLabel
  <2>3. QED
    BY <1>5, <2>1, <2>2 DEF EmergencyCleanup
<1>6. CASE InjectDrop
  <2>1. AddElement(nft, call.ip) \subseteq NftState
    BY NftTypes
  <2>2. nft' \in NftState /\ dry_run' \in BOOLEAN /\ faults' \in 0 .. MaxFaults
    BY <1>6, <2>1, RunNftTypes DEF InjectDrop
  <2>3. QED
    BY <1>6, <2>2 DEF InjectDrop
<1>7. CASE InjectAccept
  <2>1. AddAccept(nft, call.ip) \subseteq NftState
    BY <1>7, NftTypes DEF InjectAccept, Calls
  <2>2. nft' \in NftState /\ dry_run' \in BOOLEAN /\ faults' \in 0 .. MaxFaults
    BY <1>7, <2>1, RunNftTypes DEF InjectAccept
  <2>3. QED
    BY <1>7, <2>2 DEF InjectAccept
<1>8. CASE InjectExcess
  <2>1. AddDrop(nft, call.ip) \subseteq NftState
    BY <1>8, NftTypes DEF InjectExcess, Calls
  <2>2. nft' \in NftState /\ dry_run' \in BOOLEAN /\ faults' \in 0 .. MaxFaults
    BY <1>8, <2>1, RunNftTypes DEF InjectExcess
  <2>3. QED
    BY <1>8, <2>2 DEF InjectExcess
<1>9. CASE Register
  <2>1. rules' \in [IPs -> Rule \cup {NoRule}]
    BY <1>9, TtlAssumption DEF Register, Calls, Rule
  <2>2. QED
    BY <1>9, <2>1 DEF Register
<1>10. CASE CleanupSleep
  BY <1>10 DEF CleanupSleep
<1>11. ASSUME NEW t \in Threads, RemoveLookup(t) PROVE Typed'
  <2>1. todo' \in [Threads -> SUBSET IPs]
    BY <1>11 DEF RemoveLookup
  <2>2. held' \in [Threads -> [ip : IPs, action : Blocks] \cup {NoLookup}]
    BY <1>11 DEF RemoveLookup, Rule
  <2>3. QED
    BY <1>11, <2>1, <2>2 DEF RemoveLookup, Removal
<1>12. ASSUME NEW t \in Threads, RemoveDelete(t) PROVE Typed'
  <2>1. DeleteElement(nft, held[t].ip) \subseteq NftState
    BY NftTypes
  <2>2. nft' \in NftState /\ dry_run' \in BOOLEAN /\ faults' \in 0 .. MaxFaults
    BY <1>12, <2>1, RunNftTypes DEF RemoveDelete
  <2>3. QED
    BY <1>12, <2>2 DEF RemoveDelete
<1>13. ASSUME NEW t \in Threads, RemoveDeregister(t) PROVE Typed'
  BY <1>13 DEF RemoveDeregister
<1>14. ASSUME NEW t \in Threads, RemoveReturn(t) PROVE Typed'
  BY <1>14 DEF RemoveReturn
<1>15. ASSUME NEW ip \in IPs, NEW action \in Actions, NEW score \in Scores,
              Apply(ip, action, score)
       PROVE  Typed'
  <2>1. call' \in Calls
    BY <1>15 DEF Apply, Calls
  <2>2. todo' \in [Threads -> SUBSET IPs]
    BY <1>15 DEF Apply
  <2>3. QED
    BY <1>15, <2>1, <2>2 DEF Apply, Calls, Rule, NoRule, Actions, Blocks
<1>16. CASE RunCleanup
  BY <1>16 DEF RunCleanup, Registered
<1>17. ASSUME NEW o \in Operators, NEW ip \in IPs, Unblock(o, ip) PROVE Typed'
  BY <1>17 DEF Unblock
<1>18. ASSUME NEW o \in Operators, FlushTable(o) PROVE Typed'
  <2>1. FlushRules(nft) \subseteq NftState
    BY NftTypes
  <2>2. nft' \in NftState /\ dry_run' \in BOOLEAN /\ faults' \in 0 .. MaxFaults
    BY <1>18, <2>1, RunNftTypes DEF FlushTable
  <2>3. QED
    BY <1>18, <2>2 DEF FlushTable
<1>19. ASSUME NEW o \in Operators, FlushClear(o) PROVE Typed'
  BY <1>19 DEF FlushClear
<1>20. CASE Tick
  <2>1. nft' \in NftState
    BY <1>20, NftTypes DEF Tick
  <2>2. rules' \in [IPs -> Rule \cup {NoRule}]
    BY <1>20, AgedTypes DEF Tick
  <2>3. sleep' \in 0 .. RULE_CLEANUP_INTERVAL
    BY <1>20 DEF Tick
  <2>4. /\ call \in Calls => call' \in Calls /\ call'.action = call.action
        /\ call = NoCall => call' = NoCall \/ pc[Loop] = "register"
    <3>1. CASE pc[Loop] = "register"
      <4>1. call \in Calls
        BY <3>1
      <4>2. call # NoCall
        BY <4>1 DEF Calls, NoCall, Actions, Blocks
      <4>3. (pc[Loop] = "register") \in BOOLEAN
        OBVIOUS
      <4>4. [call EXCEPT !.late = (pc[Loop] = "register")] \in Calls
        BY <4>1, <4>3 DEF Calls
      <4>5. call'.action = call.action
        BY <1>20, <4>1 DEF Tick, Calls
      <4>6. QED
        BY <1>20, <4>2, <4>4, <4>5 DEF Tick
    <3>2. CASE pc[Loop] # "register"
      <4>1. (pc[Loop] = "register") = FALSE
        BY <3>2
      <4>2. call' = [call EXCEPT !.late = FALSE]
        BY <1>20, <4>1 DEF Tick
      <4>3. call \in Calls => call' \in Calls /\ call'.action = call.action
        BY <4>2 DEF Calls
      <4>4. call = NoCall => call' = NoCall
        BY <4>2, IdleCallStays
      <4>5. QED
        BY <4>3, <4>4
    <3>3. QED
      BY <3>1, <3>2
  <2>5. call' \in Calls \cup {NoCall}
    BY <2>4 DEF Calls, NoCall, Blocks
  <2>6. QED
    BY <1>20, <2>1, <2>2, <2>3, <2>4, <2>5 DEF Tick, Calls
<1>21. CASE Crash
  <2>1. pc' \in [Threads -> Labels] /\ pc'[Loop] = "setup_tables"
    BY <1>21 DEF Crash
  <2>2. /\ rules' \in [IPs -> Rule \cup {NoRule}]
        /\ todo' \in [Threads -> SUBSET IPs]
        /\ held' \in [Threads -> [ip : IPs, action : Blocks] \cup {NoLookup}]
        /\ dry_run' \in BOOLEAN
    BY <1>21 DEF Crash
  <2>3. TypeOK'
    BY <1>21, <2>1, <2>2 DEF Crash
  <2>4. CallKept'
    BY <2>1
  <2>5. QED
    BY <2>3, <2>4
<1>22. CASE UNCHANGED vars
  BY <1>22 DEF vars
<1>23. QED
  BY <1>1, <1>2, <1>3, <1>4, <1>5, <1>6, <1>7, <1>8, <1>9, <1>10, <1>11, <1>12, <1>13,
     <1>14, <1>15, <1>16, <1>17, <1>18, <1>19, <1>20, <1>21, <1>22
     DEF Next, LoopProgress, Remove

\* Type correctness.
THEOREM TypeCorrect == Spec => []TypeOK
<1>1. Init => Typed
  BY InitTyped
<1>2. Typed /\ [Next]_vars => Typed'
  BY StepTyped
<1>3. Typed => TypeOK
  BY DEF Typed
<1>4. QED
  BY <1>1, <1>2, <1>3, PTL DEF Spec
-----------------------------------------------------------------------------
(* The capacity                                                            *)

Injecting == {"inject_drop", "inject_accept", "inject_excess", "register"}

\* Addresses whose rules a thread is bound to remove.
Pending(t) == todo[t] \cup (IF pc[t] \in {"delete", "deregister"} THEN {held[t].ip} ELSE {})

\* The registry has room at every label from which a rule can still be
\* registered, counting as gone the rules the emergency cleanup has picked;
\* and the address about to be blocked has no rule.
Room ==
    /\ pc[Loop] \in Injecting => Cardinality(Registered) < MAX_KERNEL_RULES
    /\ pc[Loop] \in Removing /\ resume \in {"inject_drop", "inject_accept"}
          => Cardinality(Registered \ Pending(Loop)) < MAX_KERNEL_RULES
Vacated ==
    /\ pc[Loop] \in Injecting \cup {"capacity", "emergency"} => rules[call.ip] = NoRule
    /\ pc[Loop] \in Removing /\ resume = "capacity"
          => rules[call.ip] = NoRule \/ call.ip \in Pending(Loop)
    /\ pc[Loop] \in Removing /\ resume \in {"inject_drop", "inject_accept"}
          => rules[call.ip] = NoRule

Bounded == CapacityRespected /\ Room /\ Vacated

\* Sets of addresses are finite, and a smaller set has no more elements.
LEMMA Sizes ==
    ASSUME NEW T \in SUBSET IPs, NEW S \in SUBSET T
    PROVE  /\ Cardinality(S) \in Nat /\ Cardinality(T) \in Nat
           /\ Cardinality(S) <= Cardinality(T)
           /\ S # T => Cardinality(S) < Cardinality(T)
<1>1. IsFiniteSet(T)
  BY IPsAssumption, FS_Subset
<1>2. QED
  BY <1>1, FS_Subset, FS_CardinalityType

\* The size of the registry after one more rule.
LEMMA OneMore ==
    ASSUME NEW S \in SUBSET IPs, NEW ip \in IPs
    PROVE  Cardinality(S \cup {ip}) <= Cardinality(S) + 1
<1>1. IsFiniteSet(S)
  BY IPsAssumption, FS_Subset
<1>2. QED
  <2>1. Cardinality(S) \in Nat
    BY <1>1, FS_CardinalityType
  <2>2. Cardinality(S \cup {ip}) = IF ip \in S THEN Cardinality(S) ELSE Cardinality(S) + 1
    BY <1>1, FS_AddElement
  <2>3. QED
    BY <2>1, <2>2

\* A rule and its absence differ in the action.
LEMMA RuleOrNone ==
    ASSUME NEW rule \in Rule \cup {NoRule}
    PROVE  rule = NoRule <=> rule.action = "NONE"
BY DEF Rule, NoRule, Blocks

LEMMA InitBounded == Init => Bounded
<1> SUFFICES ASSUME Init PROVE Bounded
  OBVIOUS
<1>1. Registered = {}
  BY DEF Init, Registered
<1>2. Cardinality(Registered) = 0
  BY <1>1, FS_EmptySet
<1>3. pc[Loop] = "setup_tables"
  BY DEF Init, Threads
<1>4. QED
  BY <1>2, <1>3, LimitsAssumption
     DEF Bounded, CapacityRespected, Room, Vacated, Injecting, Removing

\* A step that registers nothing, keeps the loop where it is and keeps what it
\* has pending, as every step of an operator does, keeps Bounded.
LEMMA ElsewhereBounded ==
    ASSUME Typed, Bounded, TypeOK',
           \A ip \in IPs : rules[ip] = NoRule => rules'[ip] = NoRule,
           pc'[Loop] = pc[Loop], resume' = resume, call'.ip = call.ip,
           todo'[Loop] = todo[Loop], held'[Loop] = held[Loop]
    PROVE  Bounded'
<1>1. Pending(Loop)' = Pending(Loop)
  BY DEF Pending
<1>2. Registered' \subseteq Registered /\ Registered \subseteq IPs
  BY DEF Registered
<1>3. /\ Cardinality(Registered') \in Nat /\ Cardinality(Registered) \in Nat
      /\ Cardinality(Registered') <= Cardinality(Registered)
  BY <1>2, Sizes
<1>4. /\ Cardinality(Registered' \ Pending(Loop)) \in Nat
      /\ Cardinality(Registered \ Pending(Loop)) \in Nat
      /\ Cardinality(Registered' \ Pending(Loop)) <= Cardinality(Registered \ Pending(Loop))
  BY <1>2, Sizes
<1>5. CapacityRespected'
  BY <1>3, LimitsAssumption DEF Bounded, CapacityRespected
<1>6. Room'
  BY <1>1, <1>3, <1>4, LimitsAssumption DEF Bounded, Room
<1>7. /\ pc[Loop] \in Injecting \cup {"capacity", "emergency"} => call.ip \in IPs
      /\ pc[Loop] \in Removing /\ resume \in {"capacity", "inject_drop", "inject_accept"}
            => call.ip \in IPs
  BY DEF Typed, CallKept, Applying, Injecting, Calls
<1>8. Vacated'
  BY <1>1, <1>7 DEF Bounded, Vacated
<1>9. QED
  BY <1>5, <1>6, <1>8 DEF Bounded
\* Every step keeps Bounded.
LEMMA StepBounded == Typed /\ Typed' /\ Bounded /\ [Next]_vars => Bounded'
<1> SUFFICES ASSUME Typed, Typed', Bounded, [Next]_vars PROVE Bounded'
  OBVIOUS
<1>a. TypeOK /\ TypeOK'
  BY DEF Typed
<1>b. Registered \in SUBSET IPs /\ Registered' \in SUBSET IPs
  BY DEF Registered
<1>c. Loop \in Threads /\ pc \in [Threads -> Labels] /\ todo \in [Threads -> SUBSET IPs]
      /\ held \in [Threads -> [ip : IPs, action : Blocks] \cup {NoLookup}]
  BY <1>a DEF TypeOK, Threads
<1> USE <1>c, LimitsAssumption
<1> USE DEF Bounded, CapacityRespected, Room, Vacated, Injecting, Removing, Goto
<1>1. CASE SetupTables
  BY <1>1 DEF SetupTables, Registered
<1>2. CASE SetupHook
  BY <1>2 DEF SetupHook, Registered
<1>3. CASE Refresh
  <2>1. pc[Loop] = "refresh" /\ pc'[Loop] = "idle"
    BY <1>3 DEF Refresh
  <2>2. Registered' \subseteq Registered
    BY <1>3 DEF Refresh, Registered
  <2>3. Cardinality(Registered') <= MAX_KERNEL_RULES
    BY <1>b, <2>2, Sizes
  <2>4. QED
    BY <2>1, <2>3
<1>4. CASE CapacityCheck
  <2>1. Registered' = Registered /\ Cardinality(Registered) \in Nat
    BY <1>4, <1>b, Sizes DEF CapacityCheck, Registered
  <2>2. InjectLabel(call.action) \in {"inject_drop", "inject_accept"}
    BY DEF InjectLabel
  <2>3. CASE Cardinality(Registered) >= MAX_KERNEL_RULES
    <3>1. pc'[Loop] = "emergency"
      BY <1>4, <2>3 DEF CapacityCheck
    <3>2. QED
      BY <1>4, <2>1, <3>1 DEF CapacityCheck
  <2>4. CASE ~(Cardinality(Registered) >= MAX_KERNEL_RULES)
    <3>1. pc'[Loop] \in {"inject_drop", "inject_accept"}
      BY <1>4, <2>2, <2>4 DEF CapacityCheck
    <3>2. QED
      BY <1>4, <2>1, <2>4, <3>1 DEF CapacityCheck
  <2>5. QED
    BY <2>3, <2>4
<1>5. CASE EmergencyCleanup
  <2>1. PICK V \in EmergencyVictims : todo' = [todo EXCEPT ![Loop] = V]
    BY <1>5 DEF EmergencyCleanup
  <2>2. V \in SUBSET Registered
        /\ Cardinality(V) = EmergencySize(Cardinality(Registered))
    BY <2>1 DEF EmergencyVictims
  <2>3. Registered' = Registered /\ pc'[Loop] = "remove" /\ todo'[Loop] = V
        /\ resume' \in {"inject_drop", "inject_accept"}
    BY <1>5, <2>1 DEF EmergencyCleanup, Registered, InjectLabel
  <2>4. Pending(Loop)' = V
    BY <2>3 DEF Pending
  <2>5. Cardinality(Registered) \in Nat /\ Cardinality(Registered \ V) \in Nat
    BY <1>b, Sizes
  <2>6. Cardinality(Registered \ V) < MAX_KERNEL_RULES
    <3>1. CASE Cardinality(Registered) = 0
      BY <1>b, <2>5, <3>1, Sizes
    <3>2. CASE Cardinality(Registered) # 0
      <4>1. Cardinality(V) # 0
        BY <2>2, <2>5, <3>2 DEF EmergencySize
      <4>2. Registered \ V # Registered
        BY <2>2, <4>1, FS_EmptySet
      <4>3. QED
        BY <1>b, <2>5, <4>2, Sizes
    <3>3. QED
      BY <3>1, <3>2
  <2>7. QED
    BY <1>5, <2>3, <2>4, <2>6 DEF EmergencyCleanup
<1>6. CASE InjectDrop
  <2>1. Registered' = Registered /\ rules' = rules
        /\ \/ pc'[Loop] = "register" /\ call' = call
           \/ pc'[Loop] = "idle"
    BY <1>6 DEF InjectDrop, Registered
  <2>2. QED
    BY <1>6, <2>1 DEF InjectDrop
<1>7. CASE InjectAccept
  <2>1. Registered' = Registered /\ rules' = rules
        /\ \/ pc'[Loop] = "inject_excess" /\ call' = call
           \/ pc'[Loop] = "idle"
    BY <1>7 DEF InjectAccept, Registered
  <2>2. QED
    BY <1>7, <2>1 DEF InjectAccept
<1>8. CASE InjectExcess
  <2>1. Registered' = Registered /\ rules' = rules
        /\ \/ pc'[Loop] = "register" /\ call' = call
           \/ pc'[Loop] = "idle"
    BY <1>8 DEF InjectExcess, Registered
  <2>2. QED
    BY <1>8, <2>1 DEF InjectExcess
<1>9. CASE Register
  <2>1. call.ip \in IPs
    BY <1>9 DEF Register, Typed, CallKept, Applying, Calls
  <2>2. Registered' \subseteq Registered \cup {call.ip} /\ pc'[Loop] = "idle"
    BY <1>9 DEF Register, Registered
  <2>3. Registered \cup {call.ip} \in SUBSET IPs /\ Cardinality(Registered) \in Nat
        /\ Cardinality(Registered \cup {call.ip}) \in Nat /\ Cardinality(Registered') \in Nat
    BY <1>b, <2>1, Sizes
  <2>4. Cardinality(Registered') <= Cardinality(Registered \cup {call.ip})
    BY <2>2, <2>3, Sizes
  <2>5. Cardinality(Registered \cup {call.ip}) <= Cardinality(Registered) + 1
    BY <1>b, <2>1, OneMore
  <2>6. Cardinality(Registered) < MAX_KERNEL_RULES
    BY <1>9 DEF Register
  <2>7. Cardinality(Registered') <= MAX_KERNEL_RULES
    BY <2>3, <2>4, <2>5, <2>6
  <2>8. QED
    BY <2>2, <2>7
<1>10. CASE CleanupSleep
  BY <1>10 DEF CleanupSleep, Registered<1>11. ASSUME NEW t \in Threads, RemoveLookup(t) PROVE Bounded'
  <2>1. CASE t # Loop
    BY <1>11, <2>1, <1>a, ElsewhereBounded DEF RemoveLookup
  <2>2. CASE t = Loop
    <3>1. PICK ip \in todo[Loop] :
            /\ todo' = [todo EXCEPT ![Loop] = @ \ {ip}]
            /\ IF rules[ip] = NoRule
               THEN UNCHANGED <<pc, held>>
               ELSE /\ held' = [held EXCEPT ![Loop] = [ip |-> ip, action |-> rules[ip].action]]
                    /\ Goto(Loop, Removal(rules[ip].action))
      BY <1>11, <2>2 DEF RemoveLookup
    <3>2. /\ pc[Loop] = "remove" /\ rules' = rules /\ call' = call /\ resume' = resume
          /\ Registered' = Registered /\ ip \in IPs
      BY <1>11, <2>2, <3>1 DEF RemoveLookup, Registered
    <3>3. Pending(Loop) = todo[Loop]
      BY <3>2 DEF Pending
    <3>4. CASE rules[ip] = NoRule
      <4>1. Pending(Loop)' = todo[Loop] \ {ip} /\ pc' = pc
        BY <3>1, <3>2, <3>4 DEF Pending
      <4>2. Registered \ Pending(Loop)' = Registered \ Pending(Loop)
        BY <3>3, <3>4, <4>1 DEF Registered
      <4>3. QED
        BY <3>2, <3>3, <3>4, <4>1, <4>2
    <3>5. CASE rules[ip] # NoRule
      <4>1. pc'[Loop] \in {"delete", "deregister"} /\ held'[Loop].ip = ip
        BY <3>1, <3>5 DEF Removal
      <4>2. Pending(Loop)' = Pending(Loop)
        BY <3>1, <3>3, <4>1 DEF Pending
      <4>3. QED
        BY <3>2, <4>1, <4>2
    <3>6. QED
      BY <3>4, <3>5
  <2>3. QED
    BY <2>1, <2>2
<1>12. ASSUME NEW t \in Threads, RemoveDelete(t) PROVE Bounded'
  <2>1. CASE t # Loop
    BY <1>12, <2>1, <1>a, ElsewhereBounded DEF RemoveDelete
  <2>2. CASE t = Loop
    <3>1. /\ pc[Loop] = "delete" /\ pc'[Loop] = "deregister" /\ rules' = rules
          /\ Registered' = Registered
      BY <1>12, <2>2 DEF RemoveDelete, Registered
    <3>2. Pending(Loop)' = Pending(Loop)
      BY <1>12, <2>2, <3>1 DEF RemoveDelete, Pending
    <3>3. QED
      BY <1>12, <3>1, <3>2 DEF RemoveDelete
  <2>3. QED
    BY <2>1, <2>2
<1>13. ASSUME NEW t \in Threads, RemoveDeregister(t) PROVE Bounded'
  <2>1. CASE t # Loop
    BY <1>13, <2>1, <1>a, ElsewhereBounded DEF RemoveDeregister, TypeOK
  <2>2. CASE t = Loop
    <3>1. /\ pc[Loop] = "deregister" /\ pc'[Loop] = "remove"
          /\ rules' = [rules EXCEPT ![held[Loop].ip] = NoRule]
          /\ UNCHANGED <<call, resume, todo>>
      BY <1>13, <2>2 DEF RemoveDeregister
    <3>2. /\ Pending(Loop) = todo[Loop] \cup {held[Loop].ip}
          /\ Pending(Loop)' = todo[Loop]
      BY <3>1 DEF Pending
    <3>3. \A ip \in IPs : rules[ip] = NoRule \/ ip = held[Loop].ip => rules'[ip] = NoRule
      BY <3>1, <1>a DEF TypeOK
    <3>4. /\ Registered' \subseteq Registered
          /\ Registered' \ Pending(Loop)' \subseteq Registered \ Pending(Loop)
      BY <3>2, <3>3 DEF Registered
    <3>5. /\ Cardinality(Registered') <= MAX_KERNEL_RULES
          /\ Cardinality(Registered' \ Pending(Loop)') <= Cardinality(Registered \ Pending(Loop))
          /\ Cardinality(Registered' \ Pending(Loop)') \in Nat
          /\ Cardinality(Registered \ Pending(Loop)) \in Nat
      <4>1. Registered \ Pending(Loop) \in SUBSET IPs
        BY <1>b
      <4>2. Cardinality(Registered') <= Cardinality(Registered)
            /\ Cardinality(Registered') \in Nat /\ Cardinality(Registered) \in Nat
        BY <1>b, <3>4, Sizes
      <4>3. QED
        BY <3>4, <4>1, <4>2, Sizes
    <3>6. resume \in {"capacity", "inject_drop", "inject_accept"} => call.ip \in IPs
      BY <3>1 DEF Typed, CallKept, Calls
    <3>7. QED
      BY <3>1, <3>2, <3>3, <3>5, <3>6
  <2>3. QED
    BY <2>1, <2>2
<1>14. ASSUME NEW t \in Threads, RemoveReturn(t) PROVE Bounded'
  <2>1. CASE t # Loop
    BY <1>14, <2>1, <1>a, ElsewhereBounded DEF RemoveReturn
  <2>2. CASE t = Loop
    <3>1. /\ pc[Loop] = "remove" /\ todo[Loop] = {} /\ pc'[Loop] = resume
          /\ rules' = rules /\ Registered' = Registered
      BY <1>14, <2>2 DEF RemoveReturn, Registered
    <3>2. Pending(Loop) = {}
      BY <3>1 DEF Pending
    <3>3. Registered \ Pending(Loop) = Registered
      BY <3>2
    <3>4. resume # "idle" => call' = call
      BY <1>14, <2>2 DEF RemoveReturn
    <3>5. resume \in {"idle", "capacity", "inject_drop", "inject_accept", "cleanup_sleep"}
      BY <1>a DEF TypeOK
    <3>6. QED
      BY <3>1, <3>2, <3>3, <3>4, <3>5
  <2>3. QED
    BY <2>1, <2>2
<1>15. ASSUME NEW ip \in IPs, NEW action \in Actions, NEW score \in Scores,
              Apply(ip, action, score)
       PROVE  Bounded'
  <2>1. rules' = rules /\ Registered' = Registered /\ call'.ip = ip
    BY <1>15 DEF Apply, Registered
  <2>2. CASE pc'[Loop] = "capacity" /\ rules[ip] = NoRule
    BY <2>1, <2>2
  <2>3. CASE pc'[Loop] = "refresh"
    BY <2>1, <2>3
  <2>4. CASE pc'[Loop] = "remove" /\ todo'[Loop] = {ip} /\ resume' \in {"idle", "capacity"}
    <3>1. Pending(Loop)' = {ip}
      BY <2>4 DEF Pending
    <3>2. QED
      BY <2>1, <2>4, <3>1
  <2>5. QED
    BY <1>15, <2>2, <2>3, <2>4 DEF Apply
<1>16. CASE RunCleanup
  BY <1>16 DEF RunCleanup, Registered
<1>17. ASSUME NEW o \in Operators, NEW ip \in IPs, Unblock(o, ip) PROVE Bounded'
  BY <1>17, <1>a, ThreadsAssumption, ElsewhereBounded DEF Unblock
<1>18. ASSUME NEW o \in Operators, FlushTable(o) PROVE Bounded'
  BY <1>18, <1>a, ThreadsAssumption, ElsewhereBounded DEF FlushTable
<1>19. ASSUME NEW o \in Operators, FlushClear(o) PROVE Bounded'
  BY <1>19, <1>a, ThreadsAssumption, ElsewhereBounded DEF FlushClear
<1>20. CASE Tick
  <2>1. \A ip \in IPs : rules[ip] = NoRule => rules'[ip] = NoRule
    BY <1>20 DEF Tick, Aged
  <2>2. call'.ip = call.ip
    BY <1>20, <1>a DEF Tick, TypeOK, NoCall
  <2>3. QED
    BY <1>20, <1>a, <2>1, <2>2, ElsewhereBounded DEF Tick
<1>21. CASE Crash
  <2>1. pc'[Loop] = "setup_tables" /\ Registered' = {}
    BY <1>21 DEF Crash, Registered
  <2>2. QED
    BY <2>1, FS_EmptySet
<1>22. CASE UNCHANGED vars
  <2>1. UNCHANGED <<rules, pc, resume, call, todo, held>>
    BY <1>22 DEF vars
  <2>2. QED
    BY <2>1, <1>a, ElsewhereBounded
<1> HIDE DEF Bounded, CapacityRespected, Room, Vacated, Injecting, Removing, Goto
<1>23. QED
  BY <1>1, <1>2, <1>3, <1>4, <1>5, <1>6, <1>7, <1>8, <1>9, <1>10, <1>11, <1>12, <1>13,
     <1>14, <1>15, <1>16, <1>17, <1>18, <1>19, <1>20, <1>21, <1>22
     DEF Next, LoopProgress, Remove, Threads

\* The registry never holds more than MAX_KERNEL_RULES rules.
THEOREM CapacityHolds == Spec => []CapacityRespected
<1>1. Init => Typed /\ Bounded
  BY InitTyped, InitBounded
<1>2. Typed /\ Bounded /\ [Next]_vars => Typed' /\ Bounded'
  BY StepTyped, StepBounded
<1>3. Bounded => CapacityRespected
  BY DEF Bounded
<1>4. QED
  BY <1>1, <1>2, <1>3, PTL DEF Spec
-----------------------------------------------------------------------------
(* The kernel's element does not outlive its rule                          *)

\* A run of nft leaves the filter as it was or in one of the outcomes.
LEMMA RunNftEffect ==
    ASSUME NEW STATE outcomes, NEW ok \in BOOLEAN, RunNft(outcomes, ok)
    PROVE  nft' \in outcomes \cup {nft}
BY DEF RunNft

\* Commands other than add element start no element timer.
LEMMA OnlyAddElementBlocks ==
    ASSUME NEW n \in NftState, NEW ip, NEW a \in IPs,
           NEW m \in AddTables(n) \cup AddHook(n) \cup DeleteElement(n, ip)
                     \cup AddAccept(n, ip) \cup AddDrop(n, ip) \cup FlushRules(n)
                     \cup {Elapse(n), n}
    PROVE  m.blackhole[a] <= n.blackhole[a]
<1>1. n.blackhole[a] \in Nat
  BY TtlAssumption DEF NftState
<1>2. CASE m.blackhole = n.blackhole
  BY <1>1, <1>2
<1>3. CASE m \in AddTables(n) \cup AddHook(n) \cup AddAccept(n, ip) \cup AddDrop(n, ip)
                \cup FlushRules(n) \cup {n}
  BY <1>2, <1>3 DEF AddTables, AddHook, AddAccept, AddDrop, FlushRules, NftState
<1>4. CASE m \in DeleteElement(n, ip)
  BY <1>1, <1>4 DEF DeleteElement, NftState
<1>5. CASE m = Elapse(n)
  <2>1. m.blackhole[a] = IF n.blackhole[a] > 0 THEN n.blackhole[a] - 1 ELSE 0
    BY <1>5 DEF Elapse, NftState
  <2>2. QED
    BY <1>1, <2>1
<1>6. QED
  BY <1>3, <1>4, <1>5

\* add element touches the timer of its address only.
LEMMA AddElementIsLocal ==
    ASSUME NEW n \in NftState, NEW ip, NEW m \in AddElement(n, ip), NEW a \in IPs, a # ip
    PROVE  m.blackhole[a] = n.blackhole[a]
BY DEF AddElement, NftState

\* ElementExpiresFirst is kept by a step that starts no timer and, for every
\* DROP rule it leaves, keeps the age and does not shrink the TTL of that rule.
LEMMA TimersKept ==
    ASSUME TypeOK, TypeOK', ElementExpiresFirst,
           \A ip \in IPs : rules'[ip].action = "DROP_IP" =>
              /\ nft'.blackhole[ip] <= nft.blackhole[ip]
              /\ rules[ip].action = "DROP_IP"
              /\ rules'[ip].age = rules[ip].age
              /\ rules'[ip].ttl >= rules[ip].ttl
    PROVE  ElementExpiresFirst'
<1> SUFFICES ASSUME NEW ip \in IPs, rules'[ip].action = "DROP_IP"
             PROVE  \/ nft'.blackhole[ip] = 0
                    \/ nft'.blackhole[ip] + rules'[ip].age <= rules'[ip].ttl
  BY DEF ElementExpiresFirst, RegisteredAs
<1>1. /\ nft.blackhole[ip] \in Nat /\ nft'.blackhole[ip] \in Nat
      /\ rules[ip] \in Rule /\ rules'[ip] \in Rule
  BY TtlAssumption DEF TypeOK, NftState, NoRule
<1>2. /\ rules[ip].age \in Nat /\ rules'[ip].age \in Nat
      /\ rules[ip].ttl \in Nat /\ rules'[ip].ttl \in Nat
  BY <1>1, LimitsAssumption, TtlAssumption DEF Rule
<1>3. \/ nft.blackhole[ip] = 0
      \/ nft.blackhole[ip] + rules[ip].age <= rules[ip].ttl
  BY DEF ElementExpiresFirst, RegisteredAs
<1>4. QED
  BY <1>1, <1>2, <1>3

LEMMA StepExpires ==
    Typed /\ Typed' /\ Bounded /\ ElementExpiresFirst /\ [Next]_vars => ElementExpiresFirst'
<1> SUFFICES ASSUME Typed, Typed', Bounded, ElementExpiresFirst, [Next]_vars
             PROVE  ElementExpiresFirst'
  OBVIOUS
<1>a. TypeOK /\ TypeOK' /\ nft \in NftState /\ nft' \in NftState
      /\ rules \in [IPs -> Rule \cup {NoRule}]
  BY DEF Typed, TypeOK
<1>b. \A ip \in IPs : /\ nft.blackhole[ip] \in Nat /\ nft.blackhole[ip] <= RULE_TTL_DEFAULT
                       /\ nft'.blackhole[ip] \in Nat /\ nft'.blackhole[ip] <= RULE_TTL_DEFAULT
  BY <1>a, TtlAssumption DEF NftState
<1>e. \A rule \in Rule : rule.age \in Nat /\ rule.ttl \in Nat
  BY TtlAssumption, LimitsAssumption DEF Rule
<1>f. \A ip \in IPs : rules[ip].action = "DROP_IP" =>
        rules[ip] \in Rule /\ rules[ip].age \in Nat /\ rules[ip].ttl \in Nat
  BY <1>a, <1>e DEF NoRule
\* Steps that leave the rules alone and start no timer.
<1>c. ASSUME rules' = rules, \A ip \in IPs : nft'.blackhole[ip] <= nft.blackhole[ip]
      PROVE  ElementExpiresFirst'
  <2>1. \A ip \in IPs : rules[ip].action = "DROP_IP" => rules[ip].ttl >= rules[ip].ttl
    BY <1>f
  <2>2. QED
    BY <1>a, <1>c, <2>1, TimersKept
<1>d. ASSUME rules' = rules, nft' = nft PROVE ElementExpiresFirst'
  <2>1. \A ip \in IPs : nft'.blackhole[ip] <= nft.blackhole[ip]
    BY <1>b, <1>d
  <2>2. QED
    BY <1>c, <1>d, <2>1
<1>1. CASE SetupTables
  <2>1. nft' \in AddTables(nft) \cup {nft}
    BY <1>1, RunNftEffect DEF SetupTables
  <2>2. QED
    BY <1>1, <1>a, <1>c, <2>1, OnlyAddElementBlocks DEF SetupTables
<1>2. CASE SetupHook
  <2>1. nft' \in AddHook(nft) \cup {nft}
    BY <1>2, RunNftEffect DEF SetupHook
  <2>2. QED
    BY <1>2, <1>a, <1>c, <2>1, OnlyAddElementBlocks DEF SetupHook
<1>3. CASE Refresh
  <2>1. call \in Calls
    BY <1>3 DEF Refresh, Typed, CallKept, Applying
  <2>2. ASSUME NEW ip \in IPs, rules'[ip].action = "DROP_IP"
        PROVE  /\ rules[ip].action = "DROP_IP"
               /\ rules'[ip].age = rules[ip].age
               /\ rules'[ip].ttl >= rules[ip].ttl
    <3>1. CASE rules'[ip] = rules[ip]
      BY <1>f, <2>2, <3>1
    <3>2. CASE rules'[ip] # rules[ip]
      <4>1. rules'[ip] = Refreshed(rules[ip], call.score) /\ rules[ip] \in Rule
        BY <1>3, <1>a, <3>2 DEF Refresh
      <4>2. QED
        BY <2>1, <2>2, <4>1, RefreshedTypes DEF Calls
    <3>3. QED
      BY <3>1, <3>2
  <2>3. nft' = nft
    BY <1>3 DEF Refresh
  <2>4. \A ip \in IPs : nft'.blackhole[ip] <= nft.blackhole[ip]
    BY <1>b, <2>3
  <2>5. QED
    BY <1>a, <2>2, <2>4, TimersKept
<1>4. CASE CapacityCheck
  BY <1>4, <1>d DEF CapacityCheck
<1>5. CASE EmergencyCleanup
  BY <1>5, <1>d DEF EmergencyCleanup
<1>6. CASE InjectDrop
  <2>1. nft' \in AddElement(nft, call.ip) \cup {nft} /\ rules' = rules
    BY <1>6, RunNftEffect DEF InjectDrop
  <2>2. rules[call.ip] = NoRule
    BY <1>6 DEF InjectDrop, Bounded, Vacated, Injecting
  <2>3. \A ip \in IPs : rules[ip].action = "DROP_IP" => nft'.blackhole[ip] = nft.blackhole[ip]
    BY <1>a, <2>1, <2>2, AddElementIsLocal DEF NoRule
  <2>4. QED
    BY <2>1, <2>3 DEF ElementExpiresFirst, RegisteredAs
<1>7. CASE InjectAccept
  <2>1. nft' \in AddAccept(nft, call.ip) \cup {nft}
    BY <1>7, RunNftEffect DEF InjectAccept
  <2>2. QED
    BY <1>7, <1>a, <1>c, <2>1, OnlyAddElementBlocks DEF InjectAccept
<1>8. CASE InjectExcess
  <2>1. nft' \in AddDrop(nft, call.ip) \cup {nft}
    BY <1>8, RunNftEffect DEF InjectExcess
  <2>2. QED
    BY <1>8, <1>a, <1>c, <2>1, OnlyAddElementBlocks DEF InjectExcess
<1>9. CASE Register
  <2>1. nft' = nft
    BY <1>9 DEF Register
  <2>2. ASSUME NEW ip \in IPs, rules'[ip].action = "DROP_IP"
        PROVE  \/ nft'.blackhole[ip] = 0
               \/ nft'.blackhole[ip] + rules'[ip].age <= rules'[ip].ttl
    <3>1. CASE ip = call.ip
      <4>1. rules'[ip].age = 0 /\ rules'[ip].ttl = RULE_TTL_DEFAULT
        BY <1>9, <1>a, <3>1 DEF Register
      <4>2. nft'.blackhole[ip] \in Nat /\ nft'.blackhole[ip] <= RULE_TTL_DEFAULT
        BY <1>b
      <4>3. QED
        BY <4>1, <4>2, TtlAssumption
    <3>2. CASE ip # call.ip
      BY <1>9, <1>a, <2>1, <2>2, <3>2 DEF Register, ElementExpiresFirst, RegisteredAs
    <3>3. QED
      BY <3>1, <3>2
  <2>3. QED
    BY <2>2 DEF ElementExpiresFirst, RegisteredAs
<1>10. CASE CleanupSleep
  BY <1>10, <1>d DEF CleanupSleep
<1>11. ASSUME NEW t \in Threads, RemoveLookup(t) PROVE ElementExpiresFirst'
  BY <1>11, <1>d DEF RemoveLookup
<1>12. ASSUME NEW t \in Threads, RemoveDelete(t) PROVE ElementExpiresFirst'
  <2>1. nft' \in DeleteElement(nft, held[t].ip) \cup {nft}
    BY <1>12, RunNftEffect DEF RemoveDelete
  <2>2. QED
    BY <1>12, <1>a, <1>c, <2>1, OnlyAddElementBlocks DEF RemoveDelete
<1>13. ASSUME NEW t \in Threads, RemoveDeregister(t) PROVE ElementExpiresFirst'
  BY <1>13, <1>a DEF RemoveDeregister, ElementExpiresFirst, RegisteredAs, NoRule
<1>14. ASSUME NEW t \in Threads, RemoveReturn(t) PROVE ElementExpiresFirst'
  BY <1>14, <1>d DEF RemoveReturn
<1>15. ASSUME NEW ip \in IPs, NEW action \in Actions, NEW score \in Scores,
              Apply(ip, action, score)
       PROVE  ElementExpiresFirst'
  BY <1>15, <1>d DEF Apply
<1>16. CASE RunCleanup
  BY <1>16, <1>d DEF RunCleanup
<1>17. ASSUME NEW o \in Operators, NEW ip \in IPs, Unblock(o, ip) PROVE ElementExpiresFirst'
  BY <1>17, <1>d DEF Unblock
<1>18. ASSUME NEW o \in Operators, FlushTable(o) PROVE ElementExpiresFirst'
  <2>1. nft' \in FlushRules(nft) \cup {nft}
    BY <1>18, RunNftEffect DEF FlushTable
  <2>2. QED
    BY <1>18, <1>a, <1>c, <2>1, OnlyAddElementBlocks DEF FlushTable
<1>19. ASSUME NEW o \in Operators, FlushClear(o) PROVE ElementExpiresFirst'
  BY <1>19 DEF FlushClear, ElementExpiresFirst, RegisteredAs, NoRule
<1>20. CASE Tick
  <2>1. ASSUME NEW ip \in IPs, rules'[ip].action = "DROP_IP"
        PROVE  \/ nft'.blackhole[ip] = 0
               \/ nft'.blackhole[ip] + rules'[ip].age <= rules'[ip].ttl
    <3>1. rules'[ip] = Aged(rules[ip])
      BY <1>20 DEF Tick
    <3>2. rules[ip] \in Rule /\ rules[ip].action = "DROP_IP"
      BY <1>a, <2>1, <3>1, AgedTypes DEF NoRule
    <3>3. \/ nft.blackhole[ip] = 0
          \/ nft.blackhole[ip] + rules[ip].age <= rules[ip].ttl
      BY <3>2 DEF ElementExpiresFirst, RegisteredAs
    <3>4. nft'.blackhole[ip] = IF nft.blackhole[ip] > 0 THEN nft.blackhole[ip] - 1 ELSE 0
      BY <1>20, <1>a DEF Tick, Elapse, NftState
    <3>5. /\ rules'[ip].ttl = rules[ip].ttl
          /\ rules'[ip].age = rules[ip].age \/ rules'[ip].age = rules[ip].age + 1
      BY <3>1, <3>2 DEF Aged, Rule
    <3>6. /\ nft.blackhole[ip] \in Nat
          /\ rules[ip].age \in Nat /\ rules[ip].ttl \in Nat
      BY <1>b, <1>e, <3>2
    <3>7. QED
      BY <3>3, <3>4, <3>5, <3>6
  <2>2. QED
    BY <2>1 DEF ElementExpiresFirst, RegisteredAs
<1>21. CASE Crash
  BY <1>21 DEF Crash, ElementExpiresFirst, RegisteredAs, NoRule
<1>22. CASE UNCHANGED vars
  BY <1>22, <1>d DEF vars
<1>23. QED
  BY <1>1, <1>2, <1>3, <1>4, <1>5, <1>6, <1>7, <1>8, <1>9, <1>10, <1>11, <1>12, <1>13,
     <1>14, <1>15, <1>16, <1>17, <1>18, <1>19, <1>20, <1>21, <1>22
     DEF Next, LoopProgress, Remove, Threads

\* The kernel never blocks an address beyond the TTL of its DROP rule, for any
\* interleaving, any failing command and any elements left over from a crash.
THEOREM ElementsExpireFirst == Spec => []ElementExpiresFirst
<1>1. Init => Typed /\ Bounded /\ ElementExpiresFirst
  <2>1. Init => ElementExpiresFirst
    BY DEF Init, ElementExpiresFirst, RegisteredAs, NoRule
  <2>2. QED
    BY <2>1, InitTyped, InitBounded
<1>2. Typed /\ Bounded /\ ElementExpiresFirst /\ [Next]_vars
        => Typed' /\ Bounded' /\ ElementExpiresFirst'
  BY StepTyped, StepBounded, StepExpires
<1>3. QED
  BY <1>1, <1>2, PTL DEF Spec
-----------------------------------------------------------------------------
(* Rate limits are in force                                                *)

\* The kernel's side of a limit at each point of its injection, when nobody can
\* flush the table: an excess rule never stands without an allowance before it.
LimitInjected ==
    dry_run \/ /\ pc[Loop] = "inject_excess" => call.ip \in nft.accepts
               /\ pc[Loop] = "register" /\ call.action = "RATE_LIMIT_IP"
                     => call.ip \in nft.accepts \cap nft.drops
InjectedAs ==
    /\ pc[Loop] = "inject_drop" => call.action = "DROP_IP"
    /\ pc[Loop] \in {"inject_accept", "inject_excess"} => call.action = "RATE_LIMIT_IP"
    /\ pc[Loop] \in Removing /\ resume = "inject_drop" => call.action = "DROP_IP"
    /\ pc[Loop] \in Removing /\ resume = "inject_accept" => call.action = "RATE_LIMIT_IP"
AllowanceFirst == nft.drops \subseteq nft.accepts

Limited == RateLimitEnforced /\ LimitInjected /\ InjectedAs /\ AllowanceFirst

\* No command but a flush takes a limit away, and only a drop rule adds one.
LEMMA LimitsStand ==
    ASSUME NEW n \in NftState, NEW ip,
           NEW m \in AddTables(n) \cup AddHook(n) \cup AddElement(n, ip)
                     \cup DeleteElement(n, ip) \cup AddAccept(n, ip) \cup {Elapse(n), n}
    PROVE  /\ m.drops = n.drops
           /\ n.accepts \subseteq m.accepts
BY DEF AddTables, AddHook, AddElement, DeleteElement, AddAccept, Elapse, NftState

\* An accept rule that was added and a drop rule that was added are there.
LEMMA AcceptStands ==
    ASSUME NEW n \in NftState, NEW ip, NEW m \in AddAccept(n, ip)
    PROVE  ip \in m.accepts
BY DEF AddAccept, NftState

LEMMA DropStands ==
    ASSUME NEW n \in NftState, NEW ip, NEW m \in AddDrop(n, ip)
    PROVE  m.accepts = n.accepts /\ m.drops = n.drops \cup {ip}
BY DEF AddDrop, NftState

\* Dry-run mode is only ever entered, and an effect is only had outside it.
LEMMA RunNftDry ==
    ASSUME NEW STATE outcomes, NEW ok \in BOOLEAN, RunNft(outcomes, ok), dry_run' = FALSE,
           dry_run \in BOOLEAN
    PROVE  dry_run = FALSE /\ (ok => nft' \in outcomes)
BY DEF RunNft
\* A step that keeps the rules, the loop and its call, and takes no limit away,
\* keeps Limited.
LEMMA LimitedKept ==
    ASSUME TypeOK, Limited, dry_run' = FALSE => dry_run = FALSE, dry_run' \in BOOLEAN,
           \A ip \in IPs : rules'[ip].action = "RATE_LIMIT_IP" => rules[ip].action = "RATE_LIMIT_IP",
           nft'.drops = nft.drops,
           nft.accepts \subseteq nft'.accepts
    PROVE  /\ RateLimitEnforced' /\ AllowanceFirst'
           /\ pc'[Loop] = pc[Loop] /\ call'.ip = call.ip /\ call'.action = call.action
              /\ (pc[Loop] \in {"inject_excess", "register"} => call.ip \in IPs)
                => LimitInjected'
<1>1. dry_run \in BOOLEAN
  BY DEF TypeOK
<1>2. AllowanceFirst'
  BY DEF Limited, AllowanceFirst
<1>3. CASE dry_run' = TRUE
  BY <1>2, <1>3 DEF RateLimitEnforced, LimitInjected
<1>4. CASE dry_run' = FALSE
  <2>1. dry_run = FALSE
    BY <1>4
  <2>2. RateLimitEnforced'
    BY <2>1 DEF Limited, RateLimitEnforced, RegisteredAs
  <2>3. QED
    BY <1>2, <2>1, <2>2 DEF Limited, LimitInjected
<1>5. QED
  BY <1>3, <1>4

LEMMA StepLimited ==
    ASSUME "flush" \notin Endpoints, Typed, Typed', Limited, [Next]_vars
    PROVE  Limited'
<1>a. /\ TypeOK /\ TypeOK' /\ nft \in NftState /\ nft' \in NftState
      /\ rules \in [IPs -> Rule \cup {NoRule}]
      /\ dry_run \in BOOLEAN /\ dry_run' \in BOOLEAN
      /\ Loop \in Threads /\ pc \in [Threads -> Labels]
  BY DEF Typed, TypeOK, Threads
<1>b. pc[Loop] \in {"inject_accept", "inject_excess", "register"} => call.ip \in IPs
  BY DEF Typed, CallKept, Applying, Calls
<1>c. pc[Loop] \in Applying => call.action \in Blocks
  BY DEF Typed, CallKept
\* Steps in which rules, limits and mode stay, and which leave the loop away
\* from the injection of a limit or exactly where it was.
<1>d. ASSUME rules' = rules, dry_run' = dry_run, nft' = nft,
             \/ pc'[Loop] \notin {"inject_excess", "register"}
             \/ pc'[Loop] = pc[Loop] /\ call' = call
      PROVE  RateLimitEnforced' /\ LimitInjected' /\ AllowanceFirst'
  <2>1. RateLimitEnforced' /\ AllowanceFirst'
    BY <1>d DEF Limited, RateLimitEnforced, AllowanceFirst, RegisteredAs
  <2>2. LimitInjected'
    BY <1>d DEF Limited, LimitInjected
  <2>3. QED
    BY <2>1, <2>2
\* Runs of nft other than the two of a limit.
<1>e. ASSUME NEW STATE outcomes, NEW ok \in BOOLEAN, RunNft(outcomes, ok), rules' = rules,
             \A m \in outcomes : /\ m.drops = nft.drops
                                /\ nft.accepts \subseteq m.accepts
      PROVE  /\ RateLimitEnforced' /\ AllowanceFirst'
             /\ pc'[Loop] = pc[Loop] /\ call' = call => LimitInjected'
  <2>1. nft' \in outcomes \cup {nft}
    BY <1>e, RunNftEffect
  <2>2. dry_run' = FALSE => dry_run = FALSE
    BY <1>a, <1>e, RunNftDry
  <2>3. QED
    BY <1>a, <1>b, <1>e, <2>1, <2>2, LimitedKept
<1>1. CASE SetupTables
  <2>1. PICK ok \in BOOLEAN : RunNft(AddTables(nft), ok)
    BY <1>1 DEF SetupTables
  <2>2. RateLimitEnforced' /\ AllowanceFirst'
    BY <1>1, <1>a, <1>e, <2>1, LimitsStand DEF SetupTables
  <2>3. pc'[Loop] = "setup_hook"
    BY <1>1, <1>a DEF SetupTables, Goto
  <2>4. QED
    BY <2>2, <2>3 DEF Limited, LimitInjected, InjectedAs, Removing
<1>2. CASE SetupHook
  <2>1. PICK ok \in BOOLEAN : RunNft(AddHook(nft), ok)
    BY <1>2 DEF SetupHook
  <2>2. RateLimitEnforced' /\ AllowanceFirst'
    BY <1>2, <1>a, <1>e, <2>1, LimitsStand DEF SetupHook
  <2>3. pc'[Loop] = "idle"
    BY <1>2, <1>a DEF SetupHook, Goto
  <2>4. QED
    BY <2>2, <2>3 DEF Limited, LimitInjected, InjectedAs, Removing
<1>3. CASE Refresh
  <2>1. pc'[Loop] = "idle" /\ nft' = nft /\ dry_run' = dry_run
    BY <1>3, <1>a DEF Refresh, Goto
  <2>2. \A ip \in IPs : rules'[ip].action = "RATE_LIMIT_IP" => rules[ip].action = "RATE_LIMIT_IP"
    BY <1>3, <1>a, RefreshedTypes DEF Refresh, Typed, CallKept, Applying, Calls
  <2>3. RateLimitEnforced' /\ AllowanceFirst'
    BY <1>a, <2>1, <2>2, LimitedKept
  <2>4. QED
    BY <2>1, <2>3 DEF Limited, LimitInjected, InjectedAs, Removing
<1>4. CASE CapacityCheck
  <2>1. \/ pc'[Loop] = "emergency"
        \/ pc'[Loop] = "inject_drop" /\ call.action = "DROP_IP"
        \/ pc'[Loop] = "inject_accept" /\ call.action = "RATE_LIMIT_IP"
    BY <1>4, <1>a, <1>c DEF CapacityCheck, Goto, InjectLabel, Applying, Blocks
  <2>2. QED
    BY <1>4, <1>d, <2>1 DEF CapacityCheck, Limited, InjectedAs, Removing
<1>5. CASE EmergencyCleanup
  <2>1. /\ pc'[Loop] = "remove"
        /\ \/ resume' = "inject_drop" /\ call.action = "DROP_IP"
           \/ resume' = "inject_accept" /\ call.action = "RATE_LIMIT_IP"
    BY <1>5, <1>a, <1>c DEF EmergencyCleanup, Goto, InjectLabel, Applying, Blocks
  <2>2. QED
    BY <1>5, <1>d, <2>1 DEF EmergencyCleanup, Limited, InjectedAs, Removing
<1>6. CASE InjectDrop
  <2>1. PICK ok \in BOOLEAN : RunNft(AddElement(nft, call.ip), ok)
    BY <1>6 DEF InjectDrop
  <2>2. RateLimitEnforced' /\ AllowanceFirst'
    BY <1>6, <1>a, <1>e, <2>1, LimitsStand DEF InjectDrop
  <2>3. /\ pc[Loop] = "inject_drop" /\ call.action = "DROP_IP"
        /\ \/ pc'[Loop] = "register" /\ call' = call
           \/ pc'[Loop] = "idle"
    BY <1>6, <1>a DEF InjectDrop, Goto, Limited, InjectedAs
  <2>4. QED
    BY <2>2, <2>3 DEF Limited, LimitInjected, InjectedAs, Removing
<1>7. CASE InjectAccept
  <2>1. PICK ok \in BOOLEAN :
          /\ RunNft(AddAccept(nft, call.ip), ok)
          /\ \/ ok /\ pc'[Loop] = "inject_excess" /\ call' = call
             \/ pc'[Loop] = "idle"
    BY <1>7, <1>a DEF InjectAccept, Goto
  <2>2. RateLimitEnforced' /\ AllowanceFirst'
    BY <1>7, <1>a, <1>e, <2>1, LimitsStand DEF InjectAccept
  <2>3. call.action = "RATE_LIMIT_IP" /\ call.ip \in IPs
    BY <1>7, <1>b DEF InjectAccept, Limited, InjectedAs
  <2>4. LimitInjected'
    <3>1. CASE pc'[Loop] = "idle" \/ dry_run' = TRUE
      BY <3>1 DEF LimitInjected
    <3>2. CASE dry_run' = FALSE /\ ok /\ pc'[Loop] = "inject_excess" /\ call' = call
      <4>1. nft' \in AddAccept(nft, call.ip)
        BY <1>a, <2>1, <3>2, RunNftDry
      <4>2. call.ip \in nft'.accepts
        BY <1>a, <4>1, AcceptStands
      <4>3. QED
        BY <3>2, <4>2 DEF LimitInjected
    <3>3. QED
      BY <1>a, <2>1, <3>1, <3>2
  <2>5. InjectedAs'
    BY <2>1, <2>3 DEF InjectedAs, Removing
  <2>6. QED
    BY <2>2, <2>4, <2>5 DEF Limited
<1>8. CASE InjectExcess
  <2>1. PICK ok \in BOOLEAN :
          /\ RunNft(AddDrop(nft, call.ip), ok)
          /\ \/ ok /\ pc'[Loop] = "register" /\ call' = call
             \/ pc'[Loop] = "idle"
    BY <1>8, <1>a DEF InjectExcess, Goto
  <2>2. call.action = "RATE_LIMIT_IP" /\ call.ip \in IPs /\ rules' = rules
        /\ pc[Loop] = "inject_excess"
    BY <1>8, <1>b DEF InjectExcess, Limited, InjectedAs
  <2>3. nft' \in AddDrop(nft, call.ip) \cup {nft}
    BY <2>1, RunNftEffect
  <2>4. nft'.accepts = nft.accepts /\ nft'.drops \in {nft.drops, nft.drops \cup {call.ip}}
    BY <1>a, <2>3, DropStands
  <2>5. dry_run = FALSE => call.ip \in nft.accepts
    BY <2>2 DEF Limited, LimitInjected
  <2>6. CASE dry_run = TRUE
    <3>1. dry_run' = TRUE /\ nft' = nft
      BY <2>1, <2>6 DEF RunNft
    <3>2. QED
      BY <2>1, <2>2, <3>1
         DEF Limited, RateLimitEnforced, LimitInjected, InjectedAs, AllowanceFirst, Removing
  <2>7. CASE dry_run = FALSE
    <3>1. AllowanceFirst'
      BY <2>4, <2>5, <2>7 DEF Limited, AllowanceFirst
    <3>2. RateLimitEnforced'
      BY <2>2, <2>4, <2>7 DEF Limited, RateLimitEnforced, RegisteredAs
    <3>3. LimitInjected'
      <4>1. CASE pc'[Loop] = "idle" \/ dry_run' = TRUE
        BY <4>1 DEF LimitInjected
      <4>2. CASE dry_run' = FALSE /\ ok /\ pc'[Loop] = "register" /\ call' = call
        <5>1. nft' \in AddDrop(nft, call.ip)
          BY <1>a, <2>1, <4>2, RunNftDry
        <5>2. call.ip \in nft'.drops /\ call.ip \in nft'.accepts
          BY <1>a, <2>4, <2>5, <2>7, <5>1, DropStands
        <5>3. QED
          BY <4>2, <5>2 DEF LimitInjected
      <4>3. QED
        BY <1>a, <2>1, <4>1, <4>2
    <3>4. InjectedAs'
      BY <2>1, <2>2 DEF InjectedAs, Removing
    <3>5. QED
      BY <3>1, <3>2, <3>3, <3>4 DEF Limited
  <2>8. QED
    BY <1>a, <2>6, <2>7
<1>9. CASE Register
  <2>1. pc[Loop] = "register" /\ pc'[Loop] = "idle" /\ nft' = nft /\ dry_run' = dry_run
        /\ call.ip \in IPs /\ rules'[call.ip].action = call.action
        /\ \A ip \in IPs \ {call.ip} : rules'[ip] = rules[ip]
    BY <1>9, <1>a, <1>b DEF Register, Goto
  <2>2. RateLimitEnforced'
    BY <2>1 DEF Limited, RateLimitEnforced, LimitInjected, RegisteredAs
  <2>3. QED
    BY <2>1, <2>2 DEF Limited, LimitInjected, InjectedAs, AllowanceFirst, Removing
<1>10. CASE CleanupSleep
  <2>1. pc'[Loop] = "idle"
    BY <1>10, <1>a DEF CleanupSleep, Goto
  <2>2. QED
    BY <1>10, <1>d, <2>1 DEF CleanupSleep, Limited, InjectedAs, Removing
<1>11. ASSUME NEW t \in Threads, RemoveLookup(t) PROVE Limited'
  <2>1. \/ t = Loop /\ pc[Loop] = "remove" /\ pc'[Loop] \in Removing
        \/ pc'[Loop] = pc[Loop]
    BY <1>11, <1>a DEF RemoveLookup, Goto, Removal, Removing
  <2>2. QED
    BY <1>11, <1>d, <2>1 DEF RemoveLookup, Limited, InjectedAs, Removing
<1>12. ASSUME NEW t \in Threads, RemoveDelete(t) PROVE Limited'
  <2>1. \/ t = Loop /\ pc[Loop] = "delete" /\ pc'[Loop] = "deregister"
        \/ pc'[Loop] = pc[Loop]
    BY <1>12, <1>a DEF RemoveDelete, Goto
  <2>2. PICK ok \in BOOLEAN : RunNft(DeleteElement(nft, held[t].ip), ok)
    BY <1>12 DEF RemoveDelete
  <2>3. RateLimitEnforced' /\ AllowanceFirst' /\ (pc'[Loop] = pc[Loop] => LimitInjected')
    BY <1>12, <1>a, <1>e, <2>2, LimitsStand DEF RemoveDelete
  <2>4. LimitInjected'
    BY <2>1, <2>3 DEF LimitInjected
  <2>5. QED
    BY <1>12, <2>1, <2>3, <2>4 DEF RemoveDelete, Limited, InjectedAs, Removing
<1>13. ASSUME NEW t \in Threads, RemoveDeregister(t) PROVE Limited'
  <2>1. \/ t = Loop /\ pc[Loop] = "deregister" /\ pc'[Loop] = "remove"
        \/ pc'[Loop] = pc[Loop]
    BY <1>13, <1>a DEF RemoveDeregister, Goto
  <2>2. /\ \A ip \in IPs : rules'[ip].action = "RATE_LIMIT_IP" => rules[ip].action = "RATE_LIMIT_IP"
        /\ UNCHANGED <<nft, dry_run, call, resume>>
    BY <1>13, <1>a DEF RemoveDeregister, NoRule
  <2>3. RateLimitEnforced' /\ AllowanceFirst' /\ (pc'[Loop] = pc[Loop] => LimitInjected')
    BY <1>a, <1>b, <2>2, LimitedKept
  <2>4. LimitInjected'
    BY <2>1, <2>3 DEF LimitInjected
  <2>5. QED
    BY <2>1, <2>2, <2>3, <2>4 DEF Limited, InjectedAs, Removing
<1>14. ASSUME NEW t \in Threads, RemoveReturn(t) PROVE Limited'
  <2>1. CASE t # Loop
    <3>1. pc'[Loop] = pc[Loop]
      BY <1>14, <1>a, <2>1 DEF RemoveReturn, Goto
    <3>2. QED
      BY <1>14, <1>d, <2>1, <3>1 DEF RemoveReturn, Limited, InjectedAs
  <2>2. CASE t = Loop
    <3>1. /\ pc[Loop] = "remove" /\ pc'[Loop] = resume /\ resume' = "idle"
          /\ resume # "idle" => call' = call
      BY <1>14, <1>a, <2>2 DEF RemoveReturn, Goto
    <3>2. resume \in {"idle", "capacity", "inject_drop", "inject_accept", "cleanup_sleep"}
      BY <1>a DEF TypeOK
    <3>3. QED
      BY <1>14, <1>d, <3>1, <3>2 DEF RemoveReturn, Limited, InjectedAs, Removing
  <2>3. QED
    BY <2>1, <2>2
<1>15. ASSUME NEW ip \in IPs, NEW action \in Actions, NEW score \in Scores,
              Apply(ip, action, score)
       PROVE  Limited'
  <2>1. \/ pc'[Loop] \in {"capacity", "refresh"}
        \/ pc'[Loop] = "remove" /\ resume' \in {"idle", "capacity"}
    BY <1>15, <1>a DEF Apply, Goto
  <2>2. QED
    BY <1>15, <1>d, <2>1 DEF Apply, Limited, InjectedAs, Removing
<1>16. CASE RunCleanup
  <2>1. pc'[Loop] = "remove" /\ resume' = "cleanup_sleep"
    BY <1>16, <1>a DEF RunCleanup, Goto
  <2>2. QED
    BY <1>16, <1>d, <2>1 DEF RunCleanup, Limited, InjectedAs, Removing
<1>17. ASSUME NEW o \in Operators, NEW ip \in IPs, Unblock(o, ip) PROVE Limited'
  <2>1. pc'[Loop] = pc[Loop]
    BY <1>17, <1>a, ThreadsAssumption DEF Unblock, Goto
  <2>2. QED
    BY <1>17, <1>d, <2>1 DEF Unblock, Limited, InjectedAs
<1>18. ASSUME NEW o \in Operators, FlushTable(o) PROVE Limited'
  BY <1>18 DEF FlushTable
<1>19. ASSUME NEW o \in Operators, FlushClear(o) PROVE Limited'
  <2>1. pc'[Loop] = pc[Loop]
    BY <1>19, <1>a, ThreadsAssumption DEF FlushClear, Goto
  <2>2. RateLimitEnforced'
    BY <1>19 DEF FlushClear, RateLimitEnforced, RegisteredAs, NoRule
  <2>3. QED
    BY <1>19, <2>1, <2>2 DEF FlushClear, Limited, LimitInjected, InjectedAs, AllowanceFirst
<1>20. CASE Tick
  <2>1. /\ pc' = pc /\ dry_run' = dry_run /\ resume' = resume
        /\ call'.ip = call.ip /\ call'.action = call.action
    BY <1>20, <1>a DEF Tick, TypeOK, NoCall
  <2>2. \A ip \in IPs : rules'[ip].action = "RATE_LIMIT_IP" => rules[ip].action = "RATE_LIMIT_IP"
    BY <1>20, <1>a, AgedTypes DEF Tick
  <2>3. /\ nft'.drops = nft.drops
        /\ nft.accepts \subseteq nft'.accepts
    BY <1>20, <1>a, LimitsStand DEF Tick
  <2>4. RateLimitEnforced' /\ AllowanceFirst' /\ LimitInjected'
    BY <1>a, <1>b, <2>1, <2>2, <2>3, LimitedKept
  <2>5. QED
    BY <2>1, <2>4 DEF Limited, InjectedAs
<1>21. CASE Crash
  <2>1. pc'[Loop] = "setup_tables" /\ nft' = nft
    BY <1>21, <1>a DEF Crash
  <2>2. RateLimitEnforced'
    BY <1>21 DEF Crash, RateLimitEnforced, RegisteredAs, NoRule
  <2>3. QED
    BY <2>1, <2>2 DEF Limited, LimitInjected, InjectedAs, AllowanceFirst, Removing
<1>22. CASE UNCHANGED vars
  BY <1>22, <1>d DEF vars, Limited, InjectedAs
<1>23. QED
  BY <1>1, <1>2, <1>3, <1>4, <1>5, <1>6, <1>7, <1>8, <1>9, <1>10, <1>11, <1>12, <1>13,
     <1>14, <1>15, <1>16, <1>17, <1>18, <1>19, <1>20, <1>21, <1>22
     DEF Next, LoopProgress, Remove, Threads

\* Unless somebody flushes the table, a registered rate limit is in force in the
\* kernel, whatever commands fail, whatever operators unblock, across restarts.
THEOREM RateLimitsHold ==
    ASSUME "flush" \notin Endpoints
    PROVE  Spec => []RateLimitEnforced
<1>1. Init => Typed /\ Limited
  <2>1. Init => Limited
    BY DEF Init, Limited, RateLimitEnforced, LimitInjected, InjectedAs, AllowanceFirst,
           RegisteredAs, NoRule, PristineNft, Threads, Removing
  <2>2. QED
    BY <2>1, InitTyped
<1>2. Typed /\ Limited /\ [Next]_vars => Typed' /\ Limited'
  BY StepTyped, StepLimited
<1>3. Limited => RateLimitEnforced
  BY DEF Limited
<1>4. QED
  BY <1>1, <1>2, <1>3, PTL DEF Spec
-----------------------------------------------------------------------------
(* The registry implements RuleTable                                       *)

\* The entries of the abstract table are the registered addresses.
LEMMA EntriesRegistered == ASSUME TypeOK PROVE Table!Entries = Registered
<1>1. \A ip \in IPs : InForce[ip] = "NONE" <=> rules[ip] = NoRule
  BY RuleOrNone DEF TypeOK, InForce
<1>2. QED
  BY <1>1 DEF Table!Entries, Table!Vacant, Registered

\* Every step of the enforcer is a step of the table or leaves it as it is.
LEMMA StepTable ==
    Typed /\ Typed' /\ Bounded /\ [Next]_vars => [Table!Next]_InForce
<1> SUFFICES ASSUME Typed, Typed', Bounded, [Next]_vars PROVE [Table!Next]_InForce
  OBVIOUS
<1>a. TypeOK /\ rules \in [IPs -> Rule \cup {NoRule}]
      /\ rules' \in [IPs -> Rule \cup {NoRule}]
  BY DEF Typed, TypeOK
<1>b. ASSUME \A ip \in IPs : rules'[ip].action = rules[ip].action PROVE [Table!Next]_InForce
  BY <1>b DEF InForce
<1>c. ASSUME rules' = rules PROVE [Table!Next]_InForce
  BY <1>b, <1>c
<1>d. ASSUME rules' = [ip \in IPs |-> NoRule] PROVE [Table!Next]_InForce
  <2>1. Table!Clear
    BY <1>d DEF Table!Clear, Table!Vacant, InForce, NoRule
  <2>2. QED
    BY <2>1 DEF Table!Next
<1>1. CASE Refresh
  <2>1. \A ip \in IPs : rules'[ip].action = rules[ip].action
    BY <1>1, <1>a, RefreshedTypes DEF Refresh, Typed, CallKept, Applying, Calls
  <2>2. QED
    BY <1>b, <2>1
<1>2. CASE Register
  <2>1. /\ rules[call.ip] = NoRule /\ call.ip \in IPs /\ call.action \in Blocks
        /\ Cardinality(Registered) < MAX_KERNEL_RULES
    BY <1>2 DEF Register, Bounded, Room, Vacated, Injecting, Typed, CallKept, Applying, Calls
  <2>2. InForce' = [InForce EXCEPT ![call.ip] = call.action]
    BY <1>2, <1>a, <2>1 DEF Register, InForce
  <2>3. Table!Install(call.ip)
    <3>1. InForce[call.ip] = Table!Vacant
      BY <2>1 DEF InForce, NoRule, Table!Vacant
    <3>2. Table!Cardinality(Table!Entries) < MAX_KERNEL_RULES
      <4>1. Table!Cardinality(Registered) = Cardinality(Registered)
        BY DEF Table!Cardinality, Cardinality
      <4>2. QED
        BY <1>a, <2>1, <4>1, EntriesRegistered
    <3>3. call.action \in {"DROP_IP", "RATE_LIMIT_IP"}
      BY <2>1 DEF Blocks
    <3>4. \E action \in {"DROP_IP", "RATE_LIMIT_IP"} :
             InForce' = [InForce EXCEPT ![call.ip] = action]
      BY <2>2, <3>3, Zenon
    <3>5. QED
      BY <3>1, <3>2, <3>4, Zenon DEF Table!Install
  <2>4. QED
    BY <2>1, <2>3 DEF Table!Next
<1>3. ASSUME NEW t \in Threads, RemoveDeregister(t) PROVE [Table!Next]_InForce
  <2> DEFINE ip == held[t].ip
  <2>1. rules' = [rules EXCEPT ![ip] = NoRule]
    BY <1>3 DEF RemoveDeregister
  <2>2. CASE ip \in IPs /\ rules[ip] # NoRule
    <3>1. InForce' = [InForce EXCEPT ![ip] = "NONE"] /\ InForce[ip] # "NONE"
      BY <1>a, <2>1, <2>2, RuleOrNone DEF InForce, NoRule
    <3>2. Table!Withdraw(ip)
      BY <3>1 DEF Table!Withdraw, Table!Vacant
    <3>3. QED
      BY <2>2, <3>2 DEF Table!Next
  <2>3. CASE ~(ip \in IPs /\ rules[ip] # NoRule)
    <3>1. rules' = rules
      BY <1>a, <2>1, <2>3
    <3>2. QED
      BY <1>c, <3>1
  <2>4. QED
    BY <2>2, <2>3
<1>4. ASSUME NEW o \in Operators, FlushClear(o) PROVE [Table!Next]_InForce
  BY <1>4, <1>d DEF FlushClear
<1>5. CASE Tick
  <2>1. \A ip \in IPs : rules'[ip].action = rules[ip].action
    BY <1>5, <1>a, AgedTypes DEF Tick
  <2>2. QED
    BY <1>b, <2>1
<1>6. CASE Crash
  BY <1>6, <1>d DEF Crash
<1>7. CASE SetupTables \/ SetupHook \/ CapacityCheck \/ EmergencyCleanup \/ InjectDrop
           \/ InjectAccept \/ InjectExcess \/ CleanupSleep \/ RunCleanup
  BY <1>7, <1>c DEF SetupTables, SetupHook, CapacityCheck, EmergencyCleanup, InjectDrop,
                    InjectAccept, InjectExcess, CleanupSleep, RunCleanup
<1>8. ASSUME NEW t \in Threads, RemoveLookup(t) \/ RemoveDelete(t) \/ RemoveReturn(t)
      PROVE  [Table!Next]_InForce
  BY <1>8, <1>c DEF RemoveLookup, RemoveDelete, RemoveReturn
<1>9. ASSUME NEW ip \in IPs, NEW action \in Actions, NEW score \in Scores,
             Apply(ip, action, score)
      PROVE  [Table!Next]_InForce
  BY <1>9, <1>c DEF Apply
<1>10. ASSUME NEW o \in Operators, NEW ip \in IPs, Unblock(o, ip) \/ FlushTable(o)
       PROVE  [Table!Next]_InForce
  BY <1>10, <1>c DEF Unblock, FlushTable
<1>11. ASSUME NEW o \in Operators, FlushTable(o) PROVE [Table!Next]_InForce
  BY <1>11, <1>c DEF FlushTable
<1>12. CASE UNCHANGED vars
  BY <1>12, <1>c DEF vars
<1>13. QED
  BY <1>1, <1>2, <1>3, <1>4, <1>5, <1>6, <1>7, <1>8, <1>9, <1>10, <1>11, <1>12
     DEF Next, LoopProgress, Remove, Threads

\* Every behaviour of the enforcer is one of RuleTable: rules are installed on
\* vacant addresses within the capacity, never change their action in place,
\* and leave by withdrawal, flush or restart only.
THEOREM RefinesRuleTable == Spec => ImplementsRuleTable
<1>1. Init => Typed /\ Bounded
  BY InitTyped, InitBounded
<1>2. Typed /\ Bounded /\ [Next]_vars => Typed' /\ Bounded'
  BY StepTyped, StepBounded
<1>3. Init => Table!Init
  BY DEF Init, Table!Init, Table!Vacant, InForce, NoRule
<1>4. Typed /\ Typed' /\ Bounded /\ [Next]_vars => [Table!Next]_InForce
  BY StepTable
<1>5. QED
  BY <1>1, <1>2, <1>3, <1>4, PTL DEF Spec, ImplementsRuleTable, Table!Spec
-----------------------------------------------------------------------------
(* The loop alone: the registry and the blackhole set agree                *)

\* An element was put there by a command that took effect.
ElementsReal == \A ip \in Blackholed(nft) : nft.tables /\ dry_run = FALSE

\* remove_rule deletes the element of a DROP rule before it drops the rule.
LookedUp ==
    /\ pc[Loop] = "delete" => held[Loop].ip \in RegisteredAs("DROP_IP")
    /\ pc[Loop] = "deregister" => held[Loop].ip \in IPs /\ nft.blackhole[held[Loop].ip] = 0

\* An element is new when its rule is registered, a tick old at most.
JustInjected ==
    /\ pc[Loop] # "register" => call.late = FALSE
    /\ pc[Loop] = "register" /\ call.action = "DROP_IP" /\ dry_run = FALSE
          => /\ nft.blackhole[call.ip] >= RULE_TTL_DEFAULT - 1
             /\ call.late = FALSE => nft.blackhole[call.ip] = RULE_TTL_DEFAULT

\* An element and its rule were made within a tick of each other.
DropTimed ==
    dry_run \/ \A ip \in RegisteredAs("DROP_IP") :
                   \/ nft.blackhole[ip] + rules[ip].age + 1 >= RULE_TTL_DEFAULT
                   \/ pc[Loop] \in {"delete", "deregister"} /\ held[Loop].ip = ip

Agreed == BlackholeTracked /\ ElementsReal /\ LookedUp /\ JustInjected /\ DropTimed

\* Without faults a command does what it reports.
LEMMA RunNftSure ==
    ASSUME MaxFaults = 0, TypeOK, NEW STATE outcomes, NEW ok \in BOOLEAN, RunNft(outcomes, ok)
    PROVE  /\ dry_run' = dry_run
           /\ dry_run = TRUE => nft' = nft
           /\ dry_run = FALSE /\ ok = TRUE => nft' \in outcomes
           /\ dry_run = FALSE /\ ok = FALSE => nft' = nft /\ outcomes = {}
<1>1. ~(faults < MaxFaults) /\ dry_run \in BOOLEAN
  BY DEF TypeOK
<1>2. QED
  BY <1>1 DEF RunNft

\* Each injection is of the action that was asked for, whatever else happens.
LEMMA StepInjected ==
    ASSUME Typed, Typed', InjectedAs, [Next]_vars
    PROVE  InjectedAs'
<1>a. /\ Loop \in Threads /\ pc \in [Threads -> Labels] /\ Loop \notin Operators
      /\ resume \in {"idle", "capacity", "inject_drop", "inject_accept", "cleanup_sleep"}
      /\ pc[Loop] \in Applying => call.action \in Blocks
  BY ThreadsAssumption DEF Typed, TypeOK, CallKept, Threads
<1> USE DEF InjectedAs, Removing, Goto
<1>1. CASE SetupTables \/ SetupHook \/ Refresh \/ Register \/ CleanupSleep \/ Crash
  <2>1. pc'[Loop] \in {"setup_hook", "setup_tables", "idle"}
    BY <1>1, <1>a DEF SetupTables, SetupHook, Refresh, Register, CleanupSleep, Crash
  <2> QED
    BY <2>1
<1>2. CASE CapacityCheck
  BY <1>2, <1>a DEF CapacityCheck, InjectLabel, Applying, Blocks
<1>3. CASE EmergencyCleanup
  BY <1>3, <1>a DEF EmergencyCleanup, InjectLabel, Applying, Blocks
<1>4. CASE InjectDrop
  BY <1>4, <1>a DEF InjectDrop
<1>5. CASE InjectAccept
  BY <1>5, <1>a DEF InjectAccept
<1>6. CASE InjectExcess
  BY <1>6, <1>a DEF InjectExcess
<1>7. ASSUME NEW t \in Threads, RemoveLookup(t) PROVE InjectedAs'
  BY <1>7, <1>a DEF RemoveLookup, Removal
<1>8. ASSUME NEW t \in Threads, RemoveDelete(t) \/ RemoveDeregister(t) PROVE InjectedAs'
  BY <1>8, <1>a DEF RemoveDelete, RemoveDeregister
<1>9. ASSUME NEW t \in Threads, RemoveReturn(t) PROVE InjectedAs'
  <2>1. CASE t = Loop
    <3>1. /\ pc[Loop] = "remove" /\ pc'[Loop] = resume
          /\ resume # "idle" => call' = call
      BY <1>9, <1>a, <2>1 DEF RemoveReturn
    <3> QED
      BY <1>a, <3>1
  <2>2. CASE t # Loop
    BY <1>9, <1>a, <2>2 DEF RemoveReturn
  <2> QED
    BY <2>1, <2>2
<1>10. ASSUME NEW ip \in IPs, NEW action \in Actions, NEW score \in Scores,
              Apply(ip, action, score)
       PROVE  InjectedAs'
  BY <1>10, <1>a DEF Apply
<1>11. CASE RunCleanup
  BY <1>11, <1>a DEF RunCleanup
<1>12. ASSUME NEW o \in Operators,
              FlushTable(o) \/ FlushClear(o) \/ \E ip \in IPs : Unblock(o, ip)
       PROVE  InjectedAs'
  <2>1. pc'[Loop] = pc[Loop] /\ call' = call /\ resume' = resume
    BY <1>12, <1>a DEF FlushTable, FlushClear, Unblock
  <2> QED
    BY <2>1
<1>13. CASE Tick
  <2>1. pc' = pc /\ resume' = resume /\ call'.action = call.action
    BY <1>13 DEF Tick, Typed, TypeOK, NoCall
  <2> QED
    BY <2>1
<1>14. CASE UNCHANGED vars
  BY <1>14 DEF vars
<1> QED
  BY <1>1, <1>2, <1>3, <1>4, <1>5, <1>6, <1>7, <1>8, <1>9, <1>10, <1>11, <1>12, <1>13,
     <1>14 DEF Next, LoopProgress, Remove, Threads

\* Steps that leave the blackhole set, the rules and the mode alone, and that
\* neither follow nor prepare a registration of a DROP rule or a removal.
LEMMA AgreedKept ==
    ASSUME Agreed, rules' = rules, dry_run' = dry_run,
           nft'.blackhole = nft.blackhole, nft.tables => nft'.tables,
           pc[Loop] \notin {"register", "delete", "deregister"},
           pc'[Loop] \notin {"delete", "deregister"},
           call'.late = FALSE, pc'[Loop] = "register" => call'.action # "DROP_IP"
    PROVE  Agreed'
<1>1. BlackholeTracked'
  BY DEF Agreed, BlackholeTracked, Blackholed
<1>2. ElementsReal'
  BY DEF Agreed, ElementsReal, Blackholed
<1>3. LookedUp'
  BY DEF LookedUp
<1>4. JustInjected'
  BY DEF JustInjected
<1>5. DropTimed'
  BY DEF Agreed, DropTimed, RegisteredAs
<1>6. QED
  BY <1>1, <1>2, <1>3, <1>4, <1>5 DEF Agreed

\* A thread injects the element of an address that has none.
LEMMA InjectAgrees ==
    ASSUME MaxFaults = 0, Typed, Typed', Bounded, InjectedAs, Agreed, InjectDrop
    PROVE  Agreed'
<1>a. /\ Loop \in Threads /\ pc \in [Threads -> Labels] /\ nft \in NftState
      /\ rules \in [IPs -> Rule \cup {NoRule}] /\ TypeOK /\ dry_run \in BOOLEAN
      /\ call \in Calls
  BY DEF Typed, TypeOK, Threads, CallKept, Applying, InjectDrop
<1>b. /\ pc[Loop] = "inject_drop" /\ call.action = "DROP_IP" /\ call.late = FALSE
      /\ call.ip \in IPs /\ rules[call.ip] = NoRule /\ rules' = rules
  BY <1>a DEF InjectDrop, InjectedAs, Agreed, JustInjected, Bounded, Vacated, Injecting, Calls
<1>1. nft.blackhole[call.ip] = 0
  <2>1. ~(nft.blackhole[call.ip] > 0)
    BY <1>b DEF Agreed, BlackholeTracked, Blackholed, NoRule
  <2>2. nft.blackhole[call.ip] \in Nat
    BY <1>a, <1>b, TtlAssumption DEF NftState
  <2>3. QED
    BY <2>1, <2>2
<1>2. PICK ok \in BOOLEAN :
          /\ RunNft(AddElement(nft, call.ip), ok)
          /\ \/ ok = TRUE /\ pc'[Loop] = "register" /\ call' = call
             \/ ok = FALSE /\ pc'[Loop] = "idle" /\ call' = NoCall
  BY <1>a DEF InjectDrop, Goto
<1>3. /\ dry_run' = dry_run
      /\ dry_run = TRUE \/ ok = FALSE => nft' = nft
      /\ dry_run = FALSE /\ ok = TRUE => nft' \in AddElement(nft, call.ip)
  BY <1>a, <1>2, RunNftSure
<1>4. CASE nft' = nft /\ (dry_run = TRUE \/ ok = FALSE)
  <2>1. BlackholeTracked' /\ ElementsReal'
    BY <1>b, <1>3, <1>4 DEF Agreed, BlackholeTracked, ElementsReal, Blackholed
  <2>2. LookedUp' /\ DropTimed'
    BY <1>2, <1>b, <1>3, <1>4 DEF Agreed, LookedUp, DropTimed, RegisteredAs
  <2>3. JustInjected'
    BY <1>2, <1>3, <1>4 DEF JustInjected, NoCall
  <2>4. QED
    BY <2>1, <2>2, <2>3 DEF Agreed
<1>5. CASE dry_run = FALSE /\ ok = TRUE
  <2>1. /\ nft.tables
        /\ nft' = [nft EXCEPT !.blackhole[call.ip] = RULE_TTL_DEFAULT]
    BY <1>1, <1>3, <1>5 DEF AddElement
  <2>2. /\ nft'.tables = nft.tables /\ nft'.blackhole[call.ip] = RULE_TTL_DEFAULT
        /\ \A ip \in IPs : ip # call.ip => nft'.blackhole[ip] = nft.blackhole[ip]
    BY <1>a, <1>b, <2>1 DEF NftState
  <2>3. pc'[Loop] = "register" /\ call' = call
    BY <1>2, <1>5
  <2>4. BlackholeTracked'
    BY <1>b, <2>2, <2>3 DEF Agreed, BlackholeTracked, Blackholed
  <2>5. ElementsReal'
    BY <1>3, <1>5, <2>1, <2>2 DEF ElementsReal
  <2>6. LookedUp'
    BY <2>3 DEF LookedUp
  <2>7. JustInjected'
    BY <1>b, <2>2, <2>3, TtlAssumption DEF JustInjected
  <2>8. DropTimed'
    <3>1. \A ip \in IPs : rules[ip].action = "DROP_IP" => ip # call.ip
      BY <1>b DEF NoRule
    <3>2. QED
      BY <1>3, <1>b, <2>2, <3>1 DEF Agreed, DropTimed, RegisteredAs
  <2>9. QED
    BY <2>4, <2>5, <2>6, <2>7, <2>8 DEF Agreed
<1>6. QED
  BY <1>a, <1>3, <1>4, <1>5

\* remove_rule, step by step.
LEMMA RemoveAgrees ==
    ASSUME MaxFaults = 0, Typed, Typed', InjectedAs, Agreed, Remove(Loop)
    PROVE  Agreed'
<1>a. /\ Loop \in Threads /\ pc \in [Threads -> Labels] /\ nft \in NftState
      /\ rules \in [IPs -> Rule \cup {NoRule}] /\ TypeOK /\ dry_run \in BOOLEAN
      /\ todo \in [Threads -> SUBSET IPs]
      /\ held \in [Threads -> [ip : IPs, action : Blocks] \cup {NoLookup}]
      /\ resume \in {"idle", "capacity", "inject_drop", "inject_accept", "cleanup_sleep"}
  BY DEF Typed, TypeOK, Threads
<1>b. \A ip \in IPs : nft.blackhole[ip] \in Nat
  BY <1>a, TtlAssumption DEF NftState
<1>1. CASE RemoveLookup(Loop)
  <2>1. PICK ip \in todo[Loop] :
            IF rules[ip] = NoRule
            THEN UNCHANGED <<pc, held>>
            ELSE /\ held' = [held EXCEPT ![Loop] = [ip |-> ip, action |-> rules[ip].action]]
                 /\ Goto(Loop, Removal(rules[ip].action))
    BY <1>1 DEF RemoveLookup
  <2>2. /\ pc[Loop] = "remove" /\ UNCHANGED <<rules, nft, dry_run, call>> /\ call.late = FALSE
    BY <1>1 DEF RemoveLookup, Agreed, JustInjected
  <2>3. CASE rules[ip] = NoRule
    BY <2>1, <2>2, <2>3, AgreedKept
  <2>4. CASE rules[ip] # NoRule
    <3>1. held'[Loop].ip = ip /\ ip \in IPs
      BY <1>a, <2>1, <2>4
    <3>2. pc'[Loop] = Removal(rules[ip].action)
      BY <1>a, <2>1, <2>4 DEF Goto
    <3>3. BlackholeTracked' /\ ElementsReal'
      BY <2>2 DEF Agreed, BlackholeTracked, ElementsReal, Blackholed
    <3>4. LookedUp'
      <4>1. CASE rules[ip].action = "DROP_IP"
        BY <2>2, <3>1, <3>2, <4>1 DEF LookedUp, Removal, RegisteredAs
      <4>2. CASE rules[ip].action # "DROP_IP"
        <5>1. ~(nft.blackhole[ip] > 0)
          BY <2>2, <3>1, <4>2 DEF Agreed, BlackholeTracked, Blackholed
        <5>2. nft.blackhole[ip] = 0
          BY <1>b, <3>1, <5>1
        <5>3. QED
          BY <2>2, <3>1, <3>2, <4>2, <5>2 DEF LookedUp, Removal
      <4>3. QED
        BY <4>1, <4>2
    <3>5. JustInjected' /\ DropTimed'
      <4>1. pc'[Loop] # "register"
        BY <3>2 DEF Removal
      <4>2. QED
        BY <2>2, <4>1 DEF Agreed, JustInjected, DropTimed, RegisteredAs
    <3>6. QED
      BY <3>3, <3>4, <3>5 DEF Agreed
  <2>5. QED
    BY <2>3, <2>4
<1>2. CASE RemoveDelete(Loop)
  <2> DEFINE h == held[Loop].ip
  <2>1. /\ pc[Loop] = "delete" /\ pc'[Loop] = "deregister"
        /\ UNCHANGED <<rules, call, held>> /\ call.late = FALSE
        /\ h \in IPs /\ rules[h].action = "DROP_IP"
    BY <1>2, <1>a DEF RemoveDelete, Goto, Agreed, LookedUp, RegisteredAs, JustInjected
  <2>2. PICK ok \in BOOLEAN : RunNft(DeleteElement(nft, h), ok)
    BY <1>2 DEF RemoveDelete
  <2>3. /\ dry_run' = dry_run
        /\ dry_run = TRUE => nft' = nft
        /\ dry_run = FALSE /\ ok = TRUE => nft' \in DeleteElement(nft, h)
        /\ dry_run = FALSE /\ ok = FALSE => nft' = nft /\ DeleteElement(nft, h) = {}
    BY <1>a, <2>2, RunNftSure
  <2>4. /\ nft'.tables = nft.tables /\ nft'.blackhole[h] = 0
        /\ \A ip \in IPs : ip # h => nft'.blackhole[ip] = nft.blackhole[ip]
    <3>1. CASE dry_run = FALSE /\ ok = TRUE
      BY <1>a, <2>1, <2>3, <3>1 DEF DeleteElement, NftState
    <3>2. CASE nft' = nft /\ (dry_run = TRUE \/ DeleteElement(nft, h) = {})
      <4>1. ~(nft.blackhole[h] > 0)
        BY <1>a, <2>1, <3>2 DEF Agreed, ElementsReal, Blackholed, DeleteElement
      <4>2. QED
        BY <1>b, <2>1, <3>2, <4>1
    <3>3. QED
      BY <1>a, <2>3, <3>1, <3>2
  <2> HIDE DEF h
  <2>5. BlackholeTracked' /\ ElementsReal'
    BY <2>1, <2>3, <2>4 DEF Agreed, BlackholeTracked, ElementsReal, Blackholed
  <2>6. LookedUp' /\ JustInjected'
    BY <2>1, <2>4 DEF LookedUp, JustInjected, h
  <2>7. DropTimed'
    BY <2>1, <2>3, <2>4 DEF Agreed, DropTimed, RegisteredAs, h
  <2>8. QED
    BY <2>5, <2>6, <2>7 DEF Agreed
<1>3. CASE RemoveDeregister(Loop)
  <2> DEFINE h == held[Loop].ip
  <2>1. /\ pc[Loop] = "deregister" /\ pc'[Loop] = "remove"
        /\ UNCHANGED <<nft, dry_run, call>> /\ call.late = FALSE
        /\ h \in IPs /\ nft.blackhole[h] = 0
        /\ rules' = [rules EXCEPT ![h] = NoRule]
    BY <1>3, <1>a DEF RemoveDeregister, Goto, Agreed, LookedUp, JustInjected
  <2>2. \A ip \in IPs : rules'[ip] = IF ip = h THEN NoRule ELSE rules[ip]
    BY <1>a, <2>1
  <2>3. DropTimed'
    BY <2>1, <2>2 DEF Agreed, DropTimed, RegisteredAs, NoRule
  <2> HIDE DEF h
  <2>4. BlackholeTracked' /\ ElementsReal'
    BY <2>1, <2>2 DEF Agreed, BlackholeTracked, ElementsReal, Blackholed
  <2>5. LookedUp' /\ JustInjected'
    BY <2>1 DEF LookedUp, JustInjected
  <2>6. QED
    BY <2>3, <2>4, <2>5 DEF Agreed
<1>4. CASE RemoveReturn(Loop)
  <2>1. /\ pc[Loop] = "remove" /\ pc'[Loop] = resume /\ UNCHANGED <<rules, nft, dry_run>>
        /\ call' \in {NoCall, call}
    BY <1>4, <1>a DEF RemoveReturn, Goto
  <2>2. call'.late = FALSE
    BY <2>1 DEF NoCall, Agreed, JustInjected
  <2>3. QED
    BY <1>a, <2>1, <2>2, AgreedKept
<1>5. QED
  BY <1>1, <1>2, <1>3, <1>4 DEF Remove

\* A tick ages the element and its rule alike.
LEMMA TickAgrees ==
    ASSUME Typed, Typed', Agreed, Tick
    PROVE  Agreed'
<1>a. /\ nft \in NftState /\ rules \in [IPs -> Rule \cup {NoRule}] /\ dry_run \in BOOLEAN
      /\ pc' = pc /\ held' = held /\ dry_run' = dry_run
  BY DEF Typed, TypeOK, Tick
<1>b. /\ nft'.tables = nft.tables
      /\ \A ip \in IPs :
            /\ nft.blackhole[ip] \in Nat
            /\ nft'.blackhole[ip] = IF nft.blackhole[ip] > 0 THEN nft.blackhole[ip] - 1 ELSE 0
            /\ rules'[ip] = Aged(rules[ip])
            /\ rules'[ip].action = rules[ip].action
  BY <1>a, TtlAssumption, AgedTypes DEF Tick, Elapse, NftState
<1>c. /\ call'.ip = call.ip /\ call'.action = call.action
      /\ call.late = FALSE /\ (pc[Loop] # "register" => call'.late = FALSE)
      /\ (pc[Loop] = "register" => call'.late = TRUE)
  <2>1. call' = [call EXCEPT !.late = (pc[Loop] = "register")] /\ ~call.late
    BY Zenon DEF Tick
  <2>2. call \in [ip : IPs, action : Actions, score : Scores, late : BOOLEAN] \cup {NoCall}
    BY Zenon DEF Typed, TypeOK
  <2>3. CASE call \in [ip : IPs, action : Actions, score : Scores, late : BOOLEAN]
    BY <2>1, <2>3
  <2>4. CASE call = NoCall
    BY <2>1, <2>4 DEF NoCall
  <2>5. QED
    BY <2>2, <2>3, <2>4
<1>1. BlackholeTracked'
  <2>1. \A ip \in IPs : nft'.blackhole[ip] > 0 => nft.blackhole[ip] > 0
    BY <1>b
  <2>2. QED
    BY <1>a, <1>b, <1>c, <2>1 DEF Agreed, BlackholeTracked, Blackholed
<1>2. ElementsReal'
  BY <1>a, <1>b DEF Agreed, ElementsReal, Blackholed
<1>3. LookedUp'
  BY <1>a, <1>b DEF Agreed, LookedUp, RegisteredAs
<1>4. JustInjected'
  <2>1. CASE pc[Loop] = "register" /\ call.action = "DROP_IP" /\ dry_run = FALSE
    <3>1. nft.blackhole[call.ip] = RULE_TTL_DEFAULT /\ call.ip \in IPs
      BY <1>c, <2>1 DEF Agreed, JustInjected, Typed, CallKept, Applying, Calls
    <3>2. nft'.blackhole[call.ip] = RULE_TTL_DEFAULT - 1
      BY <1>b, <3>1, TtlAssumption
    <3>3. QED
      BY <1>a, <1>c, <2>1, <3>2, TtlAssumption DEF JustInjected
  <2>2. CASE ~(pc[Loop] = "register" /\ call.action = "DROP_IP" /\ dry_run = FALSE)
    BY <1>a, <1>c, <2>2 DEF JustInjected
  <2>3. QED
    BY <2>1, <2>2
<1>5. DropTimed'
  <2> SUFFICES ASSUME dry_run = FALSE, NEW ip \in IPs, rules[ip].action = "DROP_IP",
                      ~(pc[Loop] \in {"delete", "deregister"} /\ held[Loop].ip = ip)
               PROVE  nft'.blackhole[ip] + rules'[ip].age + 1 >= RULE_TTL_DEFAULT
    BY <1>a, <1>b DEF DropTimed, RegisteredAs
  <2>1. nft.blackhole[ip] + rules[ip].age + 1 >= RULE_TTL_DEFAULT
    BY DEF Agreed, DropTimed, RegisteredAs
  <2>2. rules[ip] \in Rule /\ rules[ip].age \in Nat /\ rules[ip] # NoRule
    BY <1>a, LimitsAssumption DEF NoRule, Rule
  <2>3. \/ rules[ip].age > RULE_TTL_MAX /\ rules'[ip].age = rules[ip].age
        \/ rules'[ip].age = rules[ip].age + 1
    BY <1>b, <2>2 DEF Aged, Rule
  <2>4. nft.blackhole[ip] \in Nat /\ nft'.blackhole[ip] \in Nat
        /\ nft'.blackhole[ip] + 1 >= nft.blackhole[ip]
    BY <1>b
  <2> DEFINE b == nft.blackhole[ip]
             c == nft'.blackhole[ip]
             m == rules[ip].age
             n == rules'[ip].age
  <2>5. /\ b \in Nat /\ c \in Nat /\ m \in Nat /\ c + 1 >= b /\ b + m + 1 >= RULE_TTL_DEFAULT
        /\ (m > RULE_TTL_MAX /\ n = m) \/ n = m + 1
    BY <2>1, <2>2, <2>3, <2>4
  <2> HIDE DEF b, c, m, n
  <2>6. c + n + 1 >= RULE_TTL_DEFAULT
    BY <2>5, TtlAssumption, LimitsAssumption
  <2>7. QED
    BY <2>6 DEF c, n
<1>6. QED
  BY <1>1, <1>2, <1>3, <1>4, <1>5 DEF Agreed

\* The steps that touch the registry only.
LEMMA RegistryAgrees ==
    ASSUME Typed, Typed', Bounded, Agreed, Refresh \/ Register
    PROVE  Agreed'
<1>a. /\ Loop \in Threads /\ pc \in [Threads -> Labels] /\ nft \in NftState
      /\ rules \in [IPs -> Rule \cup {NoRule}] /\ TypeOK
      /\ nft' = nft /\ dry_run' = dry_run /\ pc'[Loop] = "idle" /\ call' = NoCall
      /\ call \in Calls
  BY DEF Typed, TypeOK, Threads, Refresh, Register, Goto, CallKept, Applying
<1>1. LookedUp' /\ JustInjected' /\ ElementsReal'
  BY <1>a DEF LookedUp, JustInjected, Agreed, ElementsReal, Blackholed, NoCall
<1>2. CASE Refresh
  <2>1. \A ip \in IPs : /\ rules'[ip].action = rules[ip].action
                        /\ rules'[ip].age = rules[ip].age
    <3>1. \A ip \in IPs : \/ rules'[ip] = rules[ip]
                          \/ rules[ip] \in Rule /\ rules'[ip] = Refreshed(rules[ip], call.score)
      BY <1>2, <1>a DEF Refresh
    <3>2. QED
      BY <1>a, <3>1, RefreshedTypes DEF Calls
  <2>2. pc[Loop] = "refresh"
    BY <1>2 DEF Refresh
  <2>3. QED
    BY <1>1, <1>a, <2>1, <2>2 DEF Agreed, BlackholeTracked, DropTimed, RegisteredAs, Blackholed
<1>3. CASE Register
  <2>1. /\ pc[Loop] = "register" /\ call.ip \in IPs /\ rules[call.ip].action # "DROP_IP"
        /\ rules'[call.ip].action = call.action /\ rules'[call.ip].age = 0
        /\ \A ip \in IPs : ip # call.ip => rules'[ip] = rules[ip]
    BY <1>3, <1>a DEF Register, Calls, Bounded, Vacated, Injecting, NoRule
  <2>2. BlackholeTracked'
    BY <1>a, <2>1 DEF Agreed, BlackholeTracked, Blackholed
  <2>3. ASSUME dry_run = FALSE, call.action = "DROP_IP"
        PROVE  nft.blackhole[call.ip] + 0 + 1 >= RULE_TTL_DEFAULT
    <3>1. nft.blackhole[call.ip] \in Nat /\ nft.blackhole[call.ip] >= RULE_TTL_DEFAULT - 1
      BY <1>a, <2>1, <2>3, TtlAssumption DEF Agreed, JustInjected, NftState
    <3>2. QED
      BY <3>1, TtlAssumption
  <2>4. DropTimed'
    <3>1. CASE dry_run
      BY <1>a, <3>1 DEF DropTimed
    <3>2. CASE dry_run = FALSE
      BY <1>a, <2>1, <2>3, <3>2 DEF Agreed, DropTimed, RegisteredAs
    <3>3. QED
      BY <3>1, <3>2 DEF Typed, TypeOK
  <2>5. QED
    BY <1>1, <2>2, <2>4 DEF Agreed
<1>4. QED
  BY <1>2, <1>3

LEMMA StepAgreed ==
    ASSUME Operators = {}, MaxFaults = 0, MaxCrashes = 0,
           Typed, Typed', Bounded, InjectedAs, Agreed, [Next]_vars
    PROVE  Agreed'
<1>a. /\ Loop \in Threads /\ pc \in [Threads -> Labels] /\ nft \in NftState /\ TypeOK
      /\ Threads = {Loop}
  BY DEF Typed, TypeOK, Threads
<1>b. pc[Loop] # "register" => call.late = FALSE
  BY DEF Agreed, JustInjected
<1>1. CASE SetupTables
  <2>1. PICK ok \in BOOLEAN : RunNft(AddTables(nft), ok)
    BY <1>1 DEF SetupTables
  <2>2. dry_run' = dry_run /\ nft' \in AddTables(nft) \cup {nft}
    BY <1>a, <2>1, RunNftSure, RunNftEffect
  <2>3. nft'.blackhole = nft.blackhole /\ (nft.tables => nft'.tables)
    BY <1>a, <2>2 DEF AddTables, NftState
  <2>4. QED
    BY <1>1, <1>a, <1>b, <2>2, <2>3, AgreedKept DEF SetupTables, Goto
<1>2. CASE SetupHook
  <2>1. PICK ok \in BOOLEAN : RunNft(AddHook(nft), ok)
    BY <1>2 DEF SetupHook
  <2>2. dry_run' = dry_run /\ nft' \in AddHook(nft) \cup {nft}
    BY <1>a, <2>1, RunNftSure, RunNftEffect
  <2>3. nft'.blackhole = nft.blackhole /\ (nft.tables => nft'.tables)
    BY <1>a, <2>2 DEF AddHook, NftState
  <2>4. QED
    BY <1>2, <1>a, <1>b, <2>2, <2>3, AgreedKept DEF SetupHook, Goto
<1>3. CASE InjectAccept
  <2>1. PICK ok \in BOOLEAN : RunNft(AddAccept(nft, call.ip), ok)
    BY <1>3 DEF InjectAccept
  <2>2. dry_run' = dry_run /\ nft' \in AddAccept(nft, call.ip) \cup {nft}
    BY <1>a, <2>1, RunNftSure, RunNftEffect
  <2>3. nft'.blackhole = nft.blackhole /\ (nft.tables => nft'.tables)
    BY <1>a, <2>2 DEF AddAccept, NftState
  <2>4. /\ pc[Loop] = "inject_accept" /\ pc'[Loop] \in {"inject_excess", "idle"}
        /\ call' \in {call, NoCall} /\ rules' = rules
    BY <1>3, <1>a DEF InjectAccept, Goto
  <2>5. call'.late = FALSE /\ (pc'[Loop] = "register" => call'.action # "DROP_IP")
    BY <1>b, <2>4 DEF NoCall
  <2>6. QED
    BY <2>2, <2>3, <2>4, <2>5, AgreedKept
<1>4. CASE InjectExcess
  <2>1. PICK ok \in BOOLEAN : RunNft(AddDrop(nft, call.ip), ok)
    BY <1>4 DEF InjectExcess
  <2>2. dry_run' = dry_run /\ nft' \in AddDrop(nft, call.ip) \cup {nft}
    BY <1>a, <2>1, RunNftSure, RunNftEffect
  <2>3. nft'.blackhole = nft.blackhole /\ (nft.tables => nft'.tables)
    BY <1>a, <2>2 DEF AddDrop, NftState
  <2>4. /\ pc[Loop] = "inject_excess" /\ pc'[Loop] \in {"register", "idle"}
        /\ call' \in {call, NoCall} /\ rules' = rules /\ call.action = "RATE_LIMIT_IP"
    BY <1>4, <1>a DEF InjectExcess, Goto, InjectedAs
  <2>5. call'.late = FALSE /\ (pc'[Loop] = "register" => call'.action # "DROP_IP")
    BY <1>b, <2>4 DEF NoCall
  <2>6. QED
    BY <2>2, <2>3, <2>4, <2>5, AgreedKept
<1>5. CASE CapacityCheck \/ EmergencyCleanup \/ CleanupSleep \/ RunCleanup
  <2>1. /\ pc[Loop] \in {"capacity", "emergency", "cleanup_sleep", "idle"}
        /\ pc'[Loop] \in {"emergency", "inject_drop", "inject_accept", "remove", "idle"}
        /\ UNCHANGED <<rules, nft, dry_run, call>>
    BY <1>5, <1>a DEF CapacityCheck, EmergencyCleanup, CleanupSleep, RunCleanup, Goto, InjectLabel
  <2>2. QED
    BY <1>b, <2>1, AgreedKept
<1>6. ASSUME NEW ip \in IPs, NEW action \in Actions, NEW score \in Scores,
             Apply(ip, action, score)
      PROVE  Agreed'
  <2>1. /\ pc[Loop] = "idle" /\ pc'[Loop] \in {"remove", "capacity", "refresh"}
        /\ UNCHANGED <<rules, nft, dry_run>> /\ call'.late = FALSE
    BY <1>6, <1>a DEF Apply, Goto
  <2>2. QED
    BY <2>1, AgreedKept
<1>7. CASE UNCHANGED vars
  BY <1>7 DEF vars, Agreed, BlackholeTracked, ElementsReal, LookedUp, JustInjected, DropTimed,
              RegisteredAs, Blackholed
<1>8. ~Crash
  BY DEF Crash, TypeOK, Typed
<1>9. QED
  BY <1>a, <1>1, <1>2, <1>3, <1>4, <1>5, <1>6, <1>7, <1>8, InjectAgrees, RemoveAgrees, TickAgrees,
     RegistryAgrees DEF Next, LoopProgress

LEMMA AgreedAlways ==
    ASSUME Operators = {}, MaxFaults = 0, MaxCrashes = 0
    PROVE  Spec => []Agreed
<1>1. Init => Typed /\ Bounded /\ InjectedAs /\ Agreed
  <2>1. Init => InjectedAs
    BY DEF Init, InjectedAs, Threads, Removing
  <2>2. Init => Agreed
    BY DEF Init, Agreed, BlackholeTracked, ElementsReal, LookedUp, JustInjected, DropTimed,
           RegisteredAs, Blackholed, PristineNft, NoRule, NoCall, Threads
  <2>3. QED
    BY <2>1, <2>2, InitTyped, InitBounded
<1>2. Typed /\ Bounded /\ InjectedAs /\ Agreed /\ [Next]_vars
        => Typed' /\ Bounded' /\ InjectedAs' /\ Agreed'
  BY StepTyped, StepBounded, StepInjected, StepAgreed
<1>3. QED
  BY <1>1, <1>2, PTL DEF Spec

\* Where the loop is the only thread, no command fails for another reason than
\* nft's own and nothing restarts, an address is in the kernel's blackhole set
\* only if the registry knows it, for any number of addresses and any capacity
\* and TTLs: no removal, eviction or expiry leaves an element behind.
THEOREM ElementsTracked ==
    ASSUME Operators = {}, MaxFaults = 0, MaxCrashes = 0
    PROVE  Spec => []BlackholeTracked
<1>1. Agreed => BlackholeTracked
  BY DEF Agreed
<1>2. QED
  BY <1>1, AgreedAlways, PTL

-----------------------------------------------------------------------------
(* The rule that makes the set effective                                   *)

\* Once the set-up is over, which nothing precedes, the rule that drops the
\* members of the set is in the input chain: setup_tables has made the chain
\* and the set by the time it adds the rule.
HookSet ==
    /\ pc[Loop] = "setup_hook" => dry_run \/ nft.tables
    /\ dry_run \/ SettingUp \/ nft.hook
    /\ SettingUp => \A ip \in IPs : rules[ip] = NoRule

\* Only the set-up touches that rule where nobody flushes the table.
LEMMA HookUntouched ==
    ASSUME NEW n \in NftState, NEW ip \in IPs,
           NEW m \in AddElement(n, ip) \cup DeleteElement(n, ip) \cup AddAccept(n, ip)
                     \cup AddDrop(n, ip) \cup {Elapse(n), n}
    PROVE  m.hook = n.hook
BY DEF AddElement, DeleteElement, AddAccept, AddDrop, Elapse, NftState

LEMMA StepHooked ==
    ASSUME Operators = {}, MaxFaults = 0, MaxCrashes = 0, Typed, InjectedAs, LookedUp, HookSet,
           [Next]_vars
    PROVE  HookSet'
<1>a. /\ Loop \in Threads /\ pc \in [Threads -> Labels] /\ nft \in NftState /\ TypeOK
      /\ dry_run \in BOOLEAN /\ ~Crash
      /\ held \in [Threads -> [ip : IPs, action : Blocks] \cup {NoLookup}]
      /\ resume \in {"idle", "capacity", "inject_drop", "inject_accept", "cleanup_sleep"}
  BY DEF Typed, TypeOK, Threads, Crash
<1>1. CASE SetupTables
  <2>1. PICK ok \in BOOLEAN : RunNft(AddTables(nft), ok)
    BY <1>1 DEF SetupTables
  <2>2. dry_run' = dry_run /\ (dry_run = FALSE => nft'.tables)
    <3>1. /\ dry_run' = dry_run
          /\ dry_run = FALSE /\ ok = TRUE => nft' \in AddTables(nft)
          /\ dry_run = FALSE /\ ok = FALSE => AddTables(nft) = {}
      BY <1>a, <2>1, RunNftSure
    <3>2. AddTables(nft) # {} /\ \A m \in AddTables(nft) : m.tables
      BY <1>a DEF AddTables, NftState
    <3>3. QED
      BY <3>1, <3>2
  <2>3. pc[Loop] = "setup_tables" /\ pc'[Loop] = "setup_hook" /\ rules' = rules
    BY <1>1, <1>a DEF SetupTables, Goto
  <2>4. QED
    BY <1>a, <2>2, <2>3 DEF HookSet, SettingUp
<1>2. CASE SetupHook
  <2>1. PICK ok \in BOOLEAN : RunNft(AddHook(nft), ok)
    BY <1>2 DEF SetupHook
  <2>2. pc[Loop] = "setup_hook" /\ pc'[Loop] = "idle"
    BY <1>2, <1>a DEF SetupHook, Goto
  <2>3. dry_run' = dry_run /\ (dry_run = FALSE => nft'.hook)
    <3>1. /\ dry_run' = dry_run
          /\ dry_run = FALSE /\ ok = TRUE => nft' \in AddHook(nft)
          /\ dry_run = FALSE /\ ok = FALSE => AddHook(nft) = {}
      BY <1>a, <2>1, RunNftSure
    <3>2. \A m \in AddHook(nft) : m.hook
      BY <1>a DEF AddHook, NftState
    <3>3. dry_run = FALSE => AddHook(nft) # {}
      BY <2>2 DEF HookSet, AddHook
    <3>4. QED
      BY <3>1, <3>2, <3>3
  <2>4. QED
    BY <1>a, <2>2, <2>3 DEF HookSet, SettingUp
<1>3. ASSUME ~SettingUp, ~SettingUp', dry_run' = dry_run, nft'.hook = nft.hook
      PROVE  HookSet'
  BY <1>3 DEF HookSet, SettingUp
<1>4. CASE InjectDrop \/ InjectAccept \/ InjectExcess
  <2>1. /\ pc[Loop] \in {"inject_drop", "inject_accept", "inject_excess"}
        /\ pc'[Loop] \in {"register", "inject_excess", "idle"}
        /\ call.ip \in IPs
    BY <1>4, <1>a DEF InjectDrop, InjectAccept, InjectExcess, Goto, Typed, CallKept, Applying, Calls
  <2>2. \E ok \in BOOLEAN : \/ RunNft(AddElement(nft, call.ip), ok)
                           \/ RunNft(AddAccept(nft, call.ip), ok)
                           \/ RunNft(AddDrop(nft, call.ip), ok)
    BY <1>4 DEF InjectDrop, InjectAccept, InjectExcess
  <2>3. /\ dry_run' = dry_run
        /\ nft' \in AddElement(nft, call.ip) \cup AddAccept(nft, call.ip)
                       \cup AddDrop(nft, call.ip) \cup {nft}
    BY <1>a, <2>2, RunNftSure, RunNftEffect
  <2>4. nft'.hook = nft.hook
    BY <1>a, <2>1, <2>3, HookUntouched
  <2>5. QED
    BY <1>3, <2>1, <2>3, <2>4 DEF SettingUp
<1>5. CASE RemoveDelete(Loop)
  <2>1. PICK ok \in BOOLEAN : RunNft(DeleteElement(nft, held[Loop].ip), ok)
    BY <1>5 DEF RemoveDelete
  <2>2. pc[Loop] = "delete" /\ pc'[Loop] = "deregister" /\ held[Loop].ip \in IPs
    BY <1>5, <1>a DEF RemoveDelete, Goto, LookedUp, RegisteredAs
  <2>3. dry_run' = dry_run /\ nft' \in DeleteElement(nft, held[Loop].ip) \cup {nft}
    BY <1>a, <2>1, RunNftSure, RunNftEffect
  <2>4. nft'.hook = nft.hook
    BY <1>a, <2>2, <2>3, HookUntouched
  <2>5. QED
    BY <1>3, <2>2, <2>3, <2>4 DEF SettingUp
<1>6. CASE RemoveLookup(Loop) \/ RemoveDeregister(Loop) \/ RemoveReturn(Loop)
  <2>1. /\ pc[Loop] \in Removing /\ UNCHANGED <<nft, dry_run>>
        /\ pc'[Loop] \in Removing \cup {resume}
    BY <1>6, <1>a DEF RemoveLookup, RemoveDeregister, RemoveReturn, Goto, Removal, Removing
  <2>2. QED
    BY <1>3, <1>a, <2>1 DEF SettingUp, Removing
<1>7. CASE Refresh \/ Register \/ CapacityCheck \/ EmergencyCleanup \/ CleanupSleep \/ RunCleanup
  <2>1. /\ pc[Loop] \in {"refresh", "register", "capacity", "emergency", "cleanup_sleep", "idle"}
        /\ pc'[Loop] \in {"idle", "emergency", "inject_drop", "inject_accept", "remove"}
        /\ UNCHANGED <<nft, dry_run>>
    BY <1>7, <1>a DEF Refresh, Register, CapacityCheck, EmergencyCleanup, CleanupSleep, RunCleanup,
       Goto, InjectLabel
  <2>2. QED
    BY <1>3, <2>1 DEF SettingUp
<1>8. ASSUME NEW ip \in IPs, NEW action \in Actions, NEW score \in Scores,
             Apply(ip, action, score)
      PROVE  HookSet'
  <2>1. /\ pc[Loop] = "idle" /\ pc'[Loop] \in {"remove", "capacity", "refresh"}
        /\ UNCHANGED <<nft, dry_run>>
    BY <1>8, <1>a DEF Apply, Goto
  <2>2. QED
    BY <1>3, <2>1 DEF SettingUp
<1>9. CASE Tick
  <2>1. ~SettingUp /\ pc' = pc /\ dry_run' = dry_run /\ nft' = Elapse(nft)
    BY <1>9 DEF Tick
  <2>2. nft'.hook = nft.hook
    BY <1>a, <2>1 DEF Elapse, NftState
  <2>3. QED
    BY <1>3, <2>1, <2>2 DEF SettingUp
<1>10. CASE UNCHANGED vars
  BY <1>10 DEF vars, HookSet, SettingUp
<1>11. QED
  BY <1>a, <1>1, <1>2, <1>4, <1>5, <1>6, <1>7, <1>8, <1>9, <1>10 DEF Next, LoopProgress, Remove

LEMMA HookAlways ==
    ASSUME Operators = {}, MaxFaults = 0, MaxCrashes = 0
    PROVE  Spec => []HookSet
<1>1. Init => Typed /\ Bounded /\ InjectedAs /\ HookSet
  <2>1. Init => InjectedAs /\ HookSet
    BY DEF Init, InjectedAs, Threads, Removing, HookSet, SettingUp
  <2>2. QED
    BY <2>1, InitTyped, InitBounded
<1>2. Typed /\ Bounded /\ InjectedAs /\ Agreed /\ HookSet /\ [Next]_vars
        => Typed' /\ Bounded' /\ InjectedAs' /\ HookSet'
  BY StepTyped, StepBounded, StepInjected, StepHooked DEF Agreed
<1>3. QED
  BY <1>1, <1>2, AgreedAlways, PTL DEF Spec

\* Under the same conditions the kernel drops the packets of an address with a
\* DROP rule that is not being removed, for the rule's first TTL less the tick
\* a command may last: its element is in the set and the set's rule is in the
\* input chain (setup_tables, _inject_drop).
THEOREM DropsEnforced ==
    ASSUME Operators = {}, MaxFaults = 0, MaxCrashes = 0
    PROVE  Spec => []DropEnforced
<1>1. Typed /\ Agreed /\ HookSet => DropEnforced
  <2> SUFFICES ASSUME Typed, Agreed, HookSet, dry_run = FALSE, NEW ip \in IPs,
                      rules[ip].action = "DROP_IP", held[Loop].ip # ip,
                      ip \notin Dropped(nft)
               PROVE  rules[ip].age + 1 >= RULE_TTL_DEFAULT
    BY DEF DropEnforced, RegisteredAs, Threads, Typed, TypeOK
  <2>0. nft.hook /\ ~(nft.blackhole[ip] > 0)
    BY DEF HookSet, NoRule, Dropped, Blackholed
  <2>1. nft.blackhole[ip] + rules[ip].age + 1 >= RULE_TTL_DEFAULT
    BY DEF Agreed, DropTimed, RegisteredAs
  <2>2. nft.blackhole[ip] = 0
    BY <2>0, TtlAssumption DEF Typed, TypeOK, NftState
  <2>3. rules[ip].age \in Nat
    BY LimitsAssumption DEF Typed, TypeOK, Rule, NoRule
  <2>4. QED
    BY <2>1, <2>2, <2>3, TtlAssumption
<1>2. Spec => []Typed
  BY InitTyped, StepTyped, PTL DEF Spec
<1>3. QED
  BY <1>1, <1>2, AgreedAlways, HookAlways, PTL
-----------------------------------------------------------------------------
(* The emergency cleanup                                                   *)

Evicting == pc[Loop] \in Removing /\ resume \in {"inject_drop", "inject_accept"}

\* While it evicts, the loop is bound to remove no rule that scores higher than
\* one it is to leave: operators can make the choice stale only by removing.
LeastFirst ==
    Evicting => \A v \in Registered \cap Pending(Loop), w \in Registered \ Pending(Loop) :
                   rules[v].score <= rules[w].score

\* A step that adds no rule, changes no score and leaves what is pending of the
\* rules that remain.
LEMMA LeastFirstKept ==
    ASSUME LeastFirst,
           Evicting' => /\ Evicting
                        /\ Registered' \subseteq Registered
                        /\ \A ip \in Registered' : rules'[ip].score = rules[ip].score
                        /\ \A ip \in Registered' : ip \in Pending(Loop)' <=> ip \in Pending(Loop)
    PROVE  LeastFirst'
BY DEF LeastFirst

LEMMA AgedScore ==
    ASSUME NEW rule \in Rule \cup {NoRule}
    PROVE  Aged(rule).score = rule.score /\ (Aged(rule) = NoRule <=> rule = NoRule)
<1>1. CASE rule = NoRule \/ rule.age > RULE_TTL_MAX
  BY <1>1 DEF Aged
<1>2. CASE rule \in Rule /\ ~(rule = NoRule \/ rule.age > RULE_TTL_MAX)
  <2>1. Aged(rule) \in Rule \cup {NoRule} /\ Aged(rule).action = rule.action
    BY AgedTypes
  <2>2. Aged(rule) = NoRule <=> rule = NoRule
    BY <2>1, RuleOrNone
  <2>3. Aged(rule) = [rule EXCEPT !.age = rule.age + 1]
    BY <1>2 DEF Aged
  <2>4. QED
    BY <1>2, <2>2, <2>3 DEF Rule
<1>3. QED
  BY <1>1, <1>2

LEMMA StepLeastFirst == Typed /\ Typed' /\ LeastFirst /\ [Next]_vars => LeastFirst'
<1> SUFFICES ASSUME Typed, Typed', LeastFirst, [Next]_vars PROVE LeastFirst'
  OBVIOUS
<1>a. /\ Loop \in Threads /\ pc \in [Threads -> Labels] /\ todo \in [Threads -> SUBSET IPs]
      /\ held \in [Threads -> [ip : IPs, action : Blocks] \cup {NoLookup}]
      /\ rules \in [IPs -> Rule \cup {NoRule}]
      /\ resume \in {"idle", "capacity", "inject_drop", "inject_accept", "cleanup_sleep"}
  BY DEF Typed, TypeOK, Threads
<1>b. ASSUME UNCHANGED <<rules, resume, todo, held>>, pc'[Loop] = pc[Loop]
      PROVE  LeastFirst'
  BY <1>b DEF LeastFirst, Evicting, Registered, Pending
<1>c. ASSUME ~Evicting' PROVE LeastFirst'
  BY <1>c DEF LeastFirst
<1>d. ASSUME Registered' = {} PROVE LeastFirst'
  BY <1>d DEF LeastFirst
<1>1. CASE EmergencyCleanup
  <2>1. PICK V \in EmergencyVictims : todo' = [todo EXCEPT ![Loop] = V]
    BY <1>1 DEF EmergencyCleanup
  <2>2. rules' = rules /\ pc'[Loop] = "remove" /\ todo'[Loop] = V
    BY <1>1, <1>a, <2>1 DEF EmergencyCleanup, Goto
  <2>3. Pending(Loop)' = V /\ Registered' = Registered
    BY <2>2 DEF Pending, Registered
  <2>4. QED
    BY <2>1, <2>2, <2>3 DEF LeastFirst, EmergencyVictims
<1>2. CASE SetupTables \/ SetupHook \/ Refresh \/ CapacityCheck \/ InjectDrop \/ InjectAccept
           \/ InjectExcess \/ Register \/ CleanupSleep \/ RunCleanup
  <2>1. pc'[Loop] \notin Removing \/ resume' = "cleanup_sleep"
    BY <1>2, <1>a
    DEF SetupTables, SetupHook, Refresh, CapacityCheck, InjectDrop, InjectAccept, InjectExcess,
        Register, CleanupSleep, RunCleanup, Goto, Removing, InjectLabel
  <2>2. QED
    BY <1>c, <2>1 DEF Evicting
<1>3. ASSUME NEW ip \in IPs, NEW action \in Actions, NEW score \in Scores,
             Apply(ip, action, score)
      PROVE  LeastFirst'
  <2>1. pc'[Loop] \notin Removing \/ resume' \in {"idle", "capacity"}
    BY <1>3, <1>a DEF Apply, Goto, Removing
  <2>2. QED
    BY <1>c, <2>1 DEF Evicting
<1>4. CASE RemoveLookup(Loop)
  <2>1. PICK ip \in todo[Loop] :
           /\ todo' = [todo EXCEPT ![Loop] = @ \ {ip}]
           /\ IF rules[ip] = NoRule
              THEN UNCHANGED <<pc, held>>
              ELSE /\ held' = [held EXCEPT ![Loop] = [ip |-> ip, action |-> rules[ip].action]]
                   /\ Goto(Loop, Removal(rules[ip].action))
    BY <1>4 DEF RemoveLookup
  <2>2. /\ pc[Loop] = "remove" /\ rules' = rules /\ resume' = resume
        /\ todo'[Loop] = todo[Loop] \ {ip}
    BY <1>4, <1>a, <2>1 DEF RemoveLookup
  <2>3. Registered' = Registered /\ Evicting' => Evicting
    BY <2>2 DEF Registered, Evicting, Removing
  <2>4. CASE rules[ip] = NoRule
    <3>1. pc'[Loop] = "remove"
      BY <2>1, <2>2, <2>4
    <3>2. ip \notin Registered
      BY <2>4 DEF Registered
    <3>3. QED
      BY <2>2, <2>3, <3>1, <3>2, LeastFirstKept DEF Pending, Evicting, Removing, Registered
  <2>5. CASE rules[ip] # NoRule
    <3>1. held'[Loop].ip = ip /\ pc'[Loop] \in {"delete", "deregister"}
      BY <1>a, <2>1, <2>5 DEF Goto, Removal
    <3>2. Pending(Loop)' = Pending(Loop)
      BY <2>1, <2>2, <3>1 DEF Pending
    <3>3. QED
      BY <2>2, <3>2, LeastFirstKept DEF Evicting, Removing, Registered
  <2>6. QED
    BY <2>4, <2>5
<1>5. CASE RemoveDelete(Loop)
  <2>1. /\ pc[Loop] = "delete" /\ pc'[Loop] = "deregister"
        /\ UNCHANGED <<rules, resume, todo, held>>
    BY <1>5, <1>a DEF RemoveDelete, Goto
  <2>2. QED
    BY <2>1, LeastFirstKept DEF Pending, Evicting, Removing, Registered
<1>6. CASE RemoveDeregister(Loop)
  <2>1. /\ pc[Loop] = "deregister" /\ pc'[Loop] = "remove"
        /\ rules' = [rules EXCEPT ![held[Loop].ip] = NoRule]
        /\ UNCHANGED <<resume, todo>>
    BY <1>6, <1>a DEF RemoveDeregister, Goto
  <2>2. Registered' = Registered \ {held[Loop].ip}
    BY <1>a, <2>1 DEF Registered
  <2>3. \A ip \in Registered' : rules'[ip].score = rules[ip].score
    BY <1>a, <2>1, <2>2 DEF Registered
  <2>4. QED
    BY <2>1, <2>2, <2>3, LeastFirstKept DEF Pending, Evicting, Removing
<1>7. CASE RemoveReturn(Loop)
  <2>1. pc'[Loop] = resume
    BY <1>7, <1>a DEF RemoveReturn, Goto
  <2>2. QED
    BY <1>a, <1>c, <2>1 DEF Evicting, Removing
<1>8. ASSUME NEW o \in Operators, RemoveDeregister(o) PROVE LeastFirst'
  <2>1. /\ o # Loop /\ pc'[Loop] = pc[Loop] /\ held'[Loop] = held[Loop]
        /\ rules' = [rules EXCEPT ![held[o].ip] = NoRule]
        /\ UNCHANGED <<resume, todo>>
    BY <1>8, <1>a, ThreadsAssumption DEF RemoveDeregister, Goto
  <2>2. Registered' = Registered \ {held[o].ip}
    BY <1>a, <2>1 DEF Registered
  <2>3. \A ip \in Registered' : rules'[ip].score = rules[ip].score
    BY <1>a, <2>1, <2>2 DEF Registered
  <2>4. QED
    BY <2>1, <2>2, <2>3, LeastFirstKept DEF Pending, Evicting
<1>9. ASSUME NEW o \in Operators,
             \/ RemoveLookup(o) \/ RemoveDelete(o) \/ RemoveReturn(o)
             \/ FlushTable(o) \/ \E ip \in IPs : Unblock(o, ip)
      PROVE  LeastFirst'
  <2>1. o # Loop /\ o \in Threads
    BY ThreadsAssumption DEF Threads
  <2>2. /\ pc'[Loop] = pc[Loop] /\ held'[Loop] = held[Loop] /\ todo'[Loop] = todo[Loop]
        /\ UNCHANGED <<rules, resume>>
    BY <1>9, <1>a, <2>1 DEF RemoveLookup, RemoveDelete, RemoveReturn, Unblock, FlushTable, Goto
  <2>3. QED
    BY <2>2, LeastFirstKept DEF Pending, Evicting, Registered
<1>10. ASSUME NEW o \in Operators, FlushClear(o) PROVE LeastFirst'
  BY <1>10, <1>d DEF FlushClear, Registered
<1>11. CASE Tick
  <2>1. \A ip \in IPs : rules'[ip].score = rules[ip].score /\ (rules'[ip] = NoRule <=> rules[ip] = NoRule)
    BY <1>11, <1>a, AgedScore DEF Tick
  <2>2. UNCHANGED <<pc, resume, todo, held>>
    BY <1>11 DEF Tick
  <2>3. QED
    BY <2>1, <2>2, LeastFirstKept DEF Pending, Evicting, Registered
<1>12. CASE Crash
  BY <1>12, <1>d DEF Crash, Registered
<1>13. CASE UNCHANGED vars
  BY <1>13, <1>b DEF vars
<1>14. QED
  BY <1>1, <1>2, <1>3, <1>4, <1>5, <1>6, <1>7, <1>8, <1>9, <1>10, <1>11, <1>12, <1>13
  DEF Next, LoopProgress, Remove

\* Only Register adds a rule.
LEMMA RulesAdded ==
    ASSUME Typed, Next, pc[Loop] # "register", NEW ip \in IPs, rules[ip] = NoRule
    PROVE  rules'[ip] = NoRule
<1>a. rules \in [IPs -> Rule \cup {NoRule}]
  BY DEF Typed, TypeOK
<1>1. CASE rules' = rules
  BY <1>1
<1>2. CASE Refresh
  BY <1>2, <1>a DEF Refresh
<1>3. ASSUME NEW t \in Threads, RemoveDeregister(t) PROVE rules'[ip] = NoRule
  BY <1>3, <1>a DEF RemoveDeregister
<1>4. CASE Tick
  BY <1>4, <1>a, AgedScore DEF Tick
<1>5. CASE Crash \/ \E o \in Operators : FlushClear(o)
  BY <1>5 DEF Crash, FlushClear
<1>6. ASSUME NEW t \in Threads, RemoveLookup(t) \/ RemoveDelete(t) \/ RemoveReturn(t)
      PROVE  rules' = rules
  BY <1>6 DEF RemoveLookup, RemoveDelete, RemoveReturn
<1>7. ASSUME NEW o \in Operators, FlushTable(o) \/ \E jp \in IPs : Unblock(o, jp)
      PROVE  rules' = rules
  BY <1>7 DEF FlushTable, Unblock
<1>8. CASE SetupTables \/ SetupHook \/ CapacityCheck \/ EmergencyCleanup \/ InjectDrop
           \/ InjectAccept \/ InjectExcess \/ CleanupSleep \/ RunCleanup
  BY <1>1, <1>8
  DEF SetupTables, SetupHook, CapacityCheck, EmergencyCleanup, InjectDrop, InjectAccept,
      InjectExcess, CleanupSleep, RunCleanup
<1>9. ASSUME NEW jp \in IPs, NEW action \in Actions, NEW score \in Scores,
             Apply(jp, action, score)
      PROVE  rules' = rules
  BY <1>9 DEF Apply
<1>10. ~Register
  BY DEF Register
<1>11. QED
  BY <1>1, <1>2, <1>3, <1>4, <1>5, <1>6, <1>7, <1>8, <1>9, <1>10
  DEF Next, LoopProgress, Remove, Threads

\* The emergency cleanup never withdraws a rule that scores higher than one it
\* leaves, for any number of addresses, any capacity and any scores, although
\* operators remove rules, and the table is flushed, in the middle of it.
THEOREM EvictionFair == Spec => EvictionSparesHigher
<1>1. Init => Typed /\ LeastFirst
  <2>1. Init => LeastFirst
    BY DEF Init, LeastFirst, Registered
  <2>2. QED
    BY <2>1, InitTyped
<1>2. Typed /\ LeastFirst /\ [Next]_vars => Typed' /\ LeastFirst'
  BY StepTyped, StepLeastFirst
<1>3. Typed /\ LeastFirst /\ [Next]_vars => [\A ip \in IPs :
          /\ pc[Loop] = "deregister"
          /\ resume \in {"inject_drop", "inject_accept"}
          /\ held[Loop].ip = ip /\ rules[ip] # NoRule /\ rules'[ip] = NoRule
          => \A other \in Registered' :
                other \in todo[Loop] \/ rules[ip].score <= rules[other].score]_vars
  <2> SUFFICES ASSUME Typed, LeastFirst, Next, NEW ip \in IPs, pc[Loop] = "deregister",
                      resume \in {"inject_drop", "inject_accept"}, held[Loop].ip = ip,
                      rules[ip] # NoRule, rules'[ip] = NoRule,
                      NEW other \in Registered', other \notin todo[Loop]
               PROVE  rules[ip].score <= rules[other].score
    OBVIOUS
  <2>1. Evicting /\ Pending(Loop) = todo[Loop] \cup {ip} /\ ip \in Registered
    BY DEF Evicting, Removing, Pending, Registered
  <2>2. other \in IPs /\ other # ip /\ rules'[other] # NoRule
    BY DEF Registered
  <2>3. rules[other] # NoRule
    BY <2>2, RulesAdded
  <2>4. other \in Registered \ Pending(Loop)
    BY <2>1, <2>2, <2>3 DEF Registered
  <2>5. QED
    BY <2>1, <2>4 DEF LeastFirst
<1>4. QED
  BY <1>1, <1>2, <1>3, PTL DEF Spec, EvictionSparesHigher
=============================================================================
