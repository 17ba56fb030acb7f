---------------------------- MODULE PortSentinel ----------------------------
(***************************************************************************)
(* port_sentinel.py behind its routes in app_dashboard.py: the registry of *)
(* quarantined ports, the drop rules it has put into the kernel's input    *)
(* chain, the audit trail, and the Flask threads that serve the requests.  *)
(*                                                                         *)
(* Every request has a thread of its own and nothing takes a lock: each    *)
(* access to blocked_ports, each nft command and each log_event is a step  *)
(* of its own.                                                             *)
(*                                                                         *)
(* A request carries the protocol the listing shows for its port: the one  *)
(* of the catalog, which is "UDP/TCP" for DNS, or else the listener's.     *)
(***************************************************************************)
EXTENDS Naturals, FiniteSets

CONSTANTS Ports,
          Catalog,       \* the ports of WELL_KNOWN_PORTS
          Protocol,      \* the protocol of each port's row
          Requests,      \* requests that can be under way at a time
          MaxFaults,     \* bound: nft commands that fail for another reason
          MaxFlushes     \* bound: calls of flush_all that succeed

ASSUME CatalogAssumption  == Catalog \subseteq Ports
ASSUME ProtocolAssumption == Protocol \in [Ports -> {"TCP", "UDP", "UDP/TCP"}]
ASSUME BoundsAssumption   == MaxFaults \in Nat /\ MaxFlushes \in Nat

VARIABLES listening,   \* ports with a listening socket (the operating system)
          blocked,     \* blocked_ports
          dropped,     \* ports with a drop rule in the kernel's input chain
          audit,       \* the entries passed to log_event so far
          pc,          \* where each request is
          port,        \* the port it closes or opens
          left,        \* ports a scan has yet to look up
          rows,        \* the listing a scan has put together
          faults, flushes,
          unenforced   \* history: ports whose rule was refused or flushed

sentinel == <<listening, blocked, dropped, audit, pc, port, left, rows,
              faults, flushes, unenforced>>

NoPort   == "none"
Unlisted == [p \in Ports |-> "unlisted"]
Entry    == [type : {"PORT_QUARANTINE", "PORT_UNBLOCK"}, port : Ports]

Goto(r, label) == pc' = [pc EXCEPT ![r] = label]

SentinelInit ==
    /\ listening \in SUBSET Ports
    /\ blocked = {}
    /\ dropped = {}
    /\ audit = {}
    /\ pc = [r \in Requests |-> "idle"]
    /\ port = [r \in Requests |-> NoPort]
    /\ left = [r \in Requests |-> {}]
    /\ rows = [r \in Requests |-> Unlisted]
    /\ faults = 0
    /\ flushes = 0
    /\ unenforced = {}

\* A client sends a request to close, to open or to list.
Send(r, label, p) ==
    /\ pc' = [pc EXCEPT ![r] = label]
    /\ port' = [port EXCEPT ![r] = p]
    /\ UNCHANGED <<listening, blocked, dropped, audit, left, rows, faults, flushes, unenforced>>

\* A process starts or stops listening.
ListenerChanges(p) ==
    /\ listening' = IF p \in listening THEN listening \ {p} ELSE listening \cup {p}
    /\ UNCHANGED <<blocked, dropped, audit, pc, port, left, rows, faults, flushes, unenforced>>

-----------------------------------------------------------------------------
(* close_port: the port is registered first, then comes the kernel rule,   *)
(* whose result nobody looks at, then the audit entry.                     *)

CloseRegister(r) ==
    /\ pc[r] = "close"
    /\ blocked' = blocked \cup {port[r]}
    /\ Goto(r, "inject")
    /\ UNCHANGED <<listening, dropped, audit, port, left, rows, faults, flushes, unenforced>>

\* `nft add rule ... <protocol> dport <port> drop`: "udp/tcp" is no protocol.
Accepted(p) == Protocol[p] # "UDP/TCP"

CloseInject(r) ==
    /\ pc[r] = "inject"
    /\ \/ /\ Accepted(port[r])
          /\ dropped' = dropped \cup {port[r]}
          /\ unenforced' = unenforced \ {port[r]}
          /\ UNCHANGED faults
       \/ /\ ~Accepted(port[r])
          /\ unenforced' = unenforced \cup {port[r]}
          /\ UNCHANGED <<dropped, faults>>
       \/ /\ Accepted(port[r])
          /\ faults < MaxFaults
          /\ faults' = faults + 1
          /\ unenforced' = IF port[r] \in dropped THEN unenforced
                           ELSE unenforced \cup {port[r]}
          /\ UNCHANGED dropped
    /\ Goto(r, "close_audit")
    /\ UNCHANGED <<listening, blocked, audit, port, left, rows, flushes>>

CloseAudit(r) ==
    /\ pc[r] = "close_audit"
    /\ audit' = audit \cup {[type |-> "PORT_QUARANTINE", port |-> port[r]]}
    /\ Goto(r, "ok")
    /\ UNCHANGED <<listening, blocked, dropped, port, left, rows, faults, flushes, unenforced>>

-----------------------------------------------------------------------------
(* open_port: the test and the deletion are two steps, and the deletion    *)
(* raises KeyError when another request was faster; Flask answers 500.     *)

OpenCheck(r) ==
    /\ pc[r] = "open"
    /\ Goto(r, IF port[r] \in blocked THEN "forget" ELSE "revoke")
    /\ UNCHANGED <<listening, blocked, dropped, audit, port, left, rows, faults, flushes, unenforced>>

OpenForget(r) ==
    /\ pc[r] = "forget"
    /\ blocked' = blocked \ {port[r]}
    /\ Goto(r, IF port[r] \in blocked THEN "revoke" ELSE "error")
    /\ UNCHANGED <<listening, dropped, audit, port, left, rows, faults, flushes, unenforced>>

\* Mutation: the rule is deleted, without regard to requests under way.
OpenRevokeRule(r) ==
    /\ pc[r] = "revoke"
    /\ dropped' = dropped \ {port[r]}
    /\ Goto(r, "open_audit")
    /\ UNCHANGED <<listening, blocked, audit, port, left, rows, faults, flushes, unenforced>>

\* remove_port_drop writes a line to the log file and reports success.
OpenRevoke(r) ==
    /\ pc[r] = "revoke"
    /\ Goto(r, "open_audit")
    /\ UNCHANGED <<listening, blocked, dropped, audit, port, left, rows, faults, flushes, unenforced>>

OpenAudit(r) ==
    /\ pc[r] = "open_audit"
    /\ audit' = audit \cup {[type |-> "PORT_UNBLOCK", port |-> port[r]]}
    /\ Goto(r, "ok")
    /\ UNCHANGED <<listening, blocked, dropped, port, left, rows, faults, flushes, unenforced>>

-----------------------------------------------------------------------------
(* scan_ports: the listeners are read at once; whether a port is blocked   *)
(* is looked up row by row.  A port that neither listens nor stands in the *)
(* catalog has no row, blocked or not.                                     *)

ScanListeners(r) ==
    /\ pc[r] = "list"
    /\ left' = [left EXCEPT ![r] = listening \cup Catalog]
    /\ rows' = [rows EXCEPT ![r] = [p \in Ports |-> IF p \in listening THEN "open"
                                                    ELSE IF p \in Catalog THEN "inactive"
                                                    ELSE "unlisted"]]
    /\ Goto(r, "scan")
    /\ UNCHANGED <<listening, blocked, dropped, audit, port, faults, flushes, unenforced>>

ScanRow(r) ==
    /\ pc[r] = "scan"
    /\ \E p \in left[r] :
          /\ left' = [left EXCEPT ![r] = @ \ {p}]
          /\ rows' = IF p \in blocked
                     THEN [rows EXCEPT ![r] = [@ EXCEPT ![p] = "quarantined"]]
                     ELSE rows
    /\ UNCHANGED <<listening, blocked, dropped, audit, pc, port, faults, flushes, unenforced>>

\* Mutation: the listing is returned after any number of rows.
ScanReplyEarly(r) ==
    /\ pc[r] = "scan"
    /\ Goto(r, "listed")
    /\ UNCHANGED <<listening, blocked, dropped, audit, port, left, rows, faults, flushes, unenforced>>

ScanReply(r) ==
    /\ pc[r] = "scan"
    /\ left[r] = {}
    /\ Goto(r, "listed")
    /\ UNCHANGED <<listening, blocked, dropped, audit, port, left, rows, faults, flushes, unenforced>>

-----------------------------------------------------------------------------

\* flush_all (api_flush, whose effect on the address rules is part of
\* KernelEnforcer): the port rules go as well, blocked_ports is not told.
Flush ==
    /\ flushes < MaxFlushes
    /\ flushes' = flushes + 1
    /\ unenforced' = unenforced \cup dropped
    /\ dropped' = {}
    /\ UNCHANGED <<listening, blocked, audit, pc, port, left, rows, faults>>

\* The response has reached the client, or the connection broke before the
\* request or after the response.
Done(r) ==
    /\ pc' = [pc EXCEPT ![r] = "idle"]
    /\ port' = [port EXCEPT ![r] = NoPort]
    /\ rows' = [rows EXCEPT ![r] = Unlisted]
    /\ UNCHANGED <<listening, blocked, dropped, audit, left, faults, flushes, unenforced>>

Serve(r) ==
    \/ CloseRegister(r) \/ CloseInject(r) \/ CloseAudit(r)
    \/ OpenCheck(r) \/ OpenForget(r) \/ OpenRevoke(r) \/ OpenAudit(r)
    \/ ScanListeners(r) \/ ScanRow(r) \/ ScanReply(r)

SentinelNext ==
    \/ \E r \in Requests :
          \/ Serve(r)
          \/ /\ pc[r] = "idle"
             /\ \/ \E p \in Ports : Send(r, "close", p) \/ Send(r, "open", p)
                \/ Send(r, "list", NoPort)
          \/ /\ pc[r] = "ok"
             /\ Send(r, "list", NoPort)
          \/ /\ pc[r] \in {"close", "open", "list", "ok", "error", "listed"}
             /\ Done(r)
    \/ \E p \in Ports : ListenerChanges(p)
    \/ Flush

\* Any clients at all; the dashboard's page is one of them.
SentinelSpec == SentinelInit /\ [][SentinelNext]_sentinel
-----------------------------------------------------------------------------
(* Properties                                                              *)

SentinelLabels == {"idle", "close", "inject", "close_audit", "open", "forget", "revoke",
                   "open_audit", "list", "scan", "ok", "error", "listed"}

\* Every variable keeps its type; a listing is complete when it is returned.
SentinelTypeOK ==
    /\ listening \subseteq Ports
    /\ blocked \subseteq Ports
    /\ dropped \subseteq Ports
    /\ audit \subseteq Entry
    /\ pc \in [Requests -> SentinelLabels]
    /\ port \in [Requests -> Ports \cup {NoPort}]
    /\ left \in [Requests -> SUBSET Ports]
    /\ \A r \in Requests : pc[r] # "scan" => left[r] = {}
    /\ rows \in [Requests -> [Ports -> {"unlisted", "open", "inactive", "quarantined"}]]
    /\ faults \in 0 .. MaxFaults
    /\ flushes \in 0 .. MaxFlushes
    /\ unenforced \subseteq Ports

\* A request to close p is about to inject the rule.
Injecting(p) == \E r \in Requests : pc[r] = "inject" /\ port[r] = p

\* However requests to close and to open a port interleave, a port that stands
\* in blocked_ports is dropped by the kernel, or the rule is on its way, or
\* nft refused it or a flush removed it.
QuarantineEnforced ==
    \A p \in blocked : p \in dropped \/ Injecting(p) \/ p \in unenforced

\* "Remove a kernel port drop rule." (remove_port_drop, kernel_enforcer.py:341)
\* and "successfully closed and dropped at kernel level" (close_port's message,
\* port_sentinel.py:373): when no request for a port is under way, the kernel
\* drops it if and only if it stands in blocked_ports.
KernelAgrees ==
    \A p \in Ports : (\A r \in Requests : port[r] # p) => (p \in blocked <=> p \in dropped)
=============================================================================
