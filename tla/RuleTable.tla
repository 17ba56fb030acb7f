----------------------------- MODULE RuleTable ------------------------------
(***************************************************************************)
(* What the enforcer promises of the set of active rules, without threads, *)
(* steps or a kernel: a bounded table with at most one rule per address.   *)
(* A rule is installed only where there is none and only while there is    *)
(* room, its action never changes in place, and every rule is withdrawn in *)
(* the end, however often its address is detected again.                   *)
(***************************************************************************)
EXTENDS Naturals, FiniteSets

CONSTANTS IPs, MAX_KERNEL_RULES

VARIABLE table    \* the action in force for each address

Vacant == "NONE"
Entries == {ip \in IPs : table[ip] # Vacant}

Init == table = [ip \in IPs |-> Vacant]

Install(ip) ==
    /\ table[ip] = Vacant
    /\ Cardinality(Entries) < MAX_KERNEL_RULES
    /\ \E action \in {"DROP_IP", "RATE_LIMIT_IP"} : table' = [table EXCEPT ![ip] = action]

Withdraw(ip) ==
    /\ table[ip] # Vacant
    /\ table' = [table EXCEPT ![ip] = Vacant]

\* An operator's flush, or the death of the process.
Clear == table' = [ip \in IPs |-> Vacant]

Next == (\E ip \in IPs : Install(ip) \/ Withdraw(ip)) \/ Clear

Spec == Init /\ [][Next]_table

FairSpec == Spec /\ \A ip \in IPs : WF_table(Withdraw(ip))
=============================================================================
