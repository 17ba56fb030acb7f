------------------------------ MODULE Nftables ------------------------------
(***************************************************************************)
(* The part of the Linux packet filter that the firewall drives through    *)
(* the `nft` command: table `firewall_ai` with its `blackhole` set, the    *)
(* input chain whose first rule drops the members of that set, and the     *)
(* rate chain with one `limit ... accept` and one `drop` rule per limited  *)
(* address.  This is not code of the repository: it is the behaviour       *)
(* kernel_enforcer.py relies on.                                           *)
(*                                                                         *)
(* A command is an operator from a state of the filter to the set of the   *)
(* states it can leave behind; the empty set means nft refuses it (exit    *)
(* status other than zero, nothing changed).                               *)
(***************************************************************************)
EXTENDS Naturals

CONSTANTS IPs,               \* source addresses
          RULE_TTL_DEFAULT   \* timeout given to a blackhole element, in ticks

ASSUME TtlAssumption == RULE_TTL_DEFAULT \in Nat \ {0}

(***************************************************************************)
(* tables     the table, its set and its chains exist                      *)
(* hook       the input chain holds `ip saddr @blackhole drop`             *)
(* blackhole  ticks until the element of an address times out, 0 if absent *)
(* accepts    addresses with a `limit ... accept` rule in the rate chain   *)
(* drops      addresses with a drop rule in the rate chain                 *)
(***************************************************************************)
NftState == [tables    : BOOLEAN,
             hook      : BOOLEAN,
             blackhole : [IPs -> 0 .. RULE_TTL_DEFAULT],
             accepts   : SUBSET IPs,
             drops     : SUBSET IPs]

PristineNft == [tables    |-> FALSE,
                hook      |-> FALSE,
                blackhole |-> [ip \in IPs |-> 0],
                accepts   |-> {},
                drops     |-> {}]

\* The members of the set, and the addresses whose packets the kernel drops:
\* without its rule in the input chain the set has no effect.
Blackholed(n) == {ip \in IPs : n.blackhole[ip] > 0}
Dropped(n)    == IF n.hook THEN Blackholed(n) ELSE {}

\* add table / add set / add chain: idempotent.
AddTables(n) == {[n EXCEPT !.tables = TRUE]}

\* add rule ... ip saddr @blackhole drop: needs the chain and the set.
AddHook(n) == IF n.tables THEN {[n EXCEPT !.hook = TRUE]} ELSE {}

(***************************************************************************)
(* add element: succeeds on an element that is present.  Older kernels     *)
(* then keep its remaining time, newer ones restart it.                    *)
(***************************************************************************)
AddElement(n, ip) ==
    IF ~n.tables THEN {}
    ELSE {[n EXCEPT !.blackhole[ip] = RULE_TTL_DEFAULT]}
         \cup (IF n.blackhole[ip] > 0 THEN {n} ELSE {})

\* delete element: refused when the element is absent.
DeleteElement(n, ip) ==
    IF n.tables /\ n.blackhole[ip] > 0
    THEN {[n EXCEPT !.blackhole[ip] = 0]}
    ELSE {}

\* add rule ... limit rate accept, and add rule ... drop, in the rate chain.
AddAccept(n, ip) == IF n.tables THEN {[n EXCEPT !.accepts = @ \cup {ip}]} ELSE {}
AddDrop(n, ip)   == IF n.tables THEN {[n EXCEPT !.drops = @ \cup {ip}]} ELSE {}

\* flush table: every rule of every chain goes, the set keeps its elements.
FlushRules(n) ==
    IF n.tables
    THEN {[n EXCEPT !.hook = FALSE, !.drops = {}, !.accepts = {}]}
    ELSE {}

\* One tick of the element timers.
Elapse(n) == [n EXCEPT !.blackhole =
                [ip \in IPs |-> IF n.blackhole[ip] > 0 THEN n.blackhole[ip] - 1 ELSE 0]]
=============================================================================
