--------------------------- MODULE PortPanelProofs ---------------------------
(***************************************************************************)
(* Proofs about PortSentinel with any clients, and about the page's panel  *)
(* as one of them, for any number of ports and of overlapping requests.    *)
(***************************************************************************)
EXTENDS PortPanel, TLAPS

-----------------------------------------------------------------------------
(* PortSentinel: blocked_ports and the kernel.                             *)

SentinelTypes ==
    /\ pc \in [Requests -> SentinelLabels]
    /\ port \in [Requests -> Ports \cup {NoPort}]

SentinelInv == SentinelTypes /\ QuarantineEnforced

\* One step of a thread of Flask's.
LEMMA ServeKeepsSentinel ==
    ASSUME SentinelInv, NEW r \in Requests, Serve(r)
    PROVE  SentinelInv'
<1> USE DEF SentinelInv, SentinelTypes, SentinelLabels, QuarantineEnforced, Injecting, Goto
<1>1. CASE CloseRegister(r)
  BY <1>1 DEF CloseRegister
<1>2. CASE CloseInject(r)
  BY <1>2 DEF CloseInject
<1>3. CASE CloseAudit(r)
  BY <1>3 DEF CloseAudit
<1>4. CASE OpenCheck(r)
  BY <1>4 DEF OpenCheck
<1>5. CASE OpenForget(r)
  BY <1>5 DEF OpenForget
<1>6. CASE OpenRevoke(r)
  BY <1>6 DEF OpenRevoke
<1>7. CASE OpenAudit(r)
  BY <1>7 DEF OpenAudit
<1>8. CASE ScanListeners(r)
  BY <1>8 DEF ScanListeners
<1>9. CASE ScanRow(r)
  BY <1>9 DEF ScanRow
<1>10. CASE ScanReply(r)
  BY <1>10 DEF ScanReply
<1> QED
  BY <1>1, <1>2, <1>3, <1>4, <1>5, <1>6, <1>7, <1>8, <1>9, <1>10 DEF Serve

LEMMA SendKeepsSentinel ==
    ASSUME SentinelInv, NEW r \in Requests, pc[r] \in {"idle", "ok"},
           NEW label \in {"close", "open", "list"}, NEW p \in Ports \cup {NoPort},
           Send(r, label, p)
    PROVE  SentinelInv'
BY DEF SentinelInv, SentinelTypes, SentinelLabels, QuarantineEnforced, Injecting, Send

LEMMA DoneKeepsSentinel ==
    ASSUME SentinelInv, NEW r \in Requests, pc[r] # "inject", Done(r)
    PROVE  SentinelInv'
BY DEF SentinelInv, SentinelTypes, SentinelLabels, QuarantineEnforced, Injecting, Done

LEMMA OthersKeepSentinel ==
    ASSUME SentinelInv, Flush \/ (\E p \in Ports : ListenerChanges(p)) \/ UNCHANGED sentinel
    PROVE  SentinelInv'
BY DEF SentinelInv, SentinelTypes, QuarantineEnforced, Injecting, Flush, ListenerChanges, sentinel

\* Whatever clients close, open and list ports at a time, a port in
\* blocked_ports is dropped, or about to be, or nft refused or a flush removed
\* its rule.
THEOREM SentinelSound == SentinelSpec => []QuarantineEnforced
<1>1. SentinelInit => SentinelInv
  BY DEF SentinelInit, SentinelInv, SentinelTypes, SentinelLabels, QuarantineEnforced
<1>2. SentinelInv /\ [SentinelNext]_sentinel => SentinelInv'
  <2> SUFFICES ASSUME SentinelInv, [SentinelNext]_sentinel PROVE SentinelInv'
    OBVIOUS
  <2>1. ASSUME NEW r \in Requests, Serve(r) PROVE SentinelInv'
    BY <2>1, ServeKeepsSentinel
  <2>2. ASSUME NEW r \in Requests, pc[r] = "idle",
               \/ \E p \in Ports : Send(r, "close", p) \/ Send(r, "open", p)
               \/ Send(r, "list", NoPort)
        PROVE  SentinelInv'
    BY <2>2, SendKeepsSentinel
  <2>3. ASSUME NEW r \in Requests, pc[r] = "ok", Send(r, "list", NoPort) PROVE SentinelInv'
    BY <2>3, SendKeepsSentinel
  <2>4. ASSUME NEW r \in Requests, Done(r),
               pc[r] \in {"close", "open", "list", "ok", "error", "listed"}
        PROVE  SentinelInv'
    BY <2>4, DoneKeepsSentinel
  <2>5. CASE Flush \/ (\E p \in Ports : ListenerChanges(p)) \/ UNCHANGED sentinel
    BY <2>5, OthersKeepSentinel
  <2> QED
    BY <2>1, <2>2, <2>3, <2>4, <2>5 DEF SentinelNext
<1>3. SentinelInv => QuarantineEnforced
  BY DEF SentinelInv
<1> QED
  BY <1>1, <1>2, <1>3, PTL DEF SentinelSpec

-----------------------------------------------------------------------------
(* PortPanel implements PortSentinel: the page is one of the clients.      *)

LEMMA NextIsSentinelNext == [Next]_vars => [SentinelNext]_sentinel
<1> SUFFICES ASSUME [Next]_vars PROVE [SentinelNext]_sentinel
  OBVIOUS
<1>1. ASSUME NEW r \in Requests, Serve(r) PROVE SentinelNext
  BY <1>1 DEF SentinelNext
<1>2. ASSUME NEW r \in Requests, ChangeAnswered(r) PROVE SentinelNext
  BY <1>2 DEF SentinelNext, ChangeAnswered, Fetch
<1>3. ASSUME NEW r \in Requests, FetchPortData(r) PROVE SentinelNext
  BY <1>3 DEF SentinelNext, FetchPortData, Fetch
<1>4. ASSUME NEW r \in Requests, ChangeFailed(r) \/ ListingArrives(r) \/ Lose(r)
      PROVE  SentinelNext
  BY <1>4 DEF SentinelNext, ChangeFailed, ListingArrives, Lose
<1>5. ASSUME NEW r \in Requests, NEW p \in Ports, Click(r, p) PROVE SentinelNext
  <2>1. pc[r] = "idle" /\ (Send(r, "close", p) \/ Send(r, "open", p))
    BY <1>5 DEF Click, Button
  <2> QED
    BY <2>1 DEF SentinelNext
<1>6. ASSUME NEW p \in Ports, ListenerChanges(p) PROVE SentinelNext
  BY <1>6 DEF SentinelNext
<1>7. CASE Flush
  BY <1>7 DEF SentinelNext
<1>8. CASE UNCHANGED vars
  BY <1>8 DEF vars
<1> QED
  BY <1>1, <1>2, <1>3, <1>4, <1>5, <1>6, <1>7, <1>8 DEF Next

\* The port panel is a client as SentinelSpec allows it.
THEOREM PanelIsAClient == Spec => SentinelSpec
<1>1. Init => SentinelInit
  BY DEF Init
<1> QED
  BY <1>1, NextIsSentinelNext, PTL DEF Spec, SentinelSpec

\* With the page as the client, a port in blocked_ports is enforced in the
\* sense of QuarantineEnforced.
THEOREM QuarantineSound == Spec => []QuarantineEnforced
BY PanelIsAClient, SentinelSound, PTL

-----------------------------------------------------------------------------
(* PortPanel: what the panel shows.  While no change is under way, each     *)
(* listing that was not overtaken will show blocked_ports as they are, or   *)
(* a later one is still to come.                                            *)

PanelTypes ==
    /\ SentinelTypes
    /\ listening \subseteq Ports
    /\ left \in [Requests -> SUBSET Ports]
    /\ \A r \in Requests : pc[r] # "scan" => left[r] = {}
    /\ rows \in [Requests -> [Ports -> {"unlisted", "open", "inactive", "quarantined"}]]
    /\ before \in [Requests -> SUBSET Requests]
    /\ lost \in Nat

\* `before` is a strict order of the listings under way, and what was sent
\* before an overtaken listing is overtaken.
Ordered ==
    /\ overtaken \subseteq Listing
    /\ \A r \in Requests : before[r] \subseteq Listing \ {r}
    /\ \A r \in Requests : r \notin Listing => before[r] = {}
    /\ \A q, r \in Requests : q \in before[r] => before[q] \subseteq before[r]
    /\ \A r \in overtaken : before[r] \subseteq overtaken

\* A request that has changed blocked_ports, or may have, has yet to be
\* answered; its answer makes the page ask for a listing.
Changing == \E r \in Requests : pc[r] \in {"inject", "close_audit", "revoke", "open_audit", "ok"}

Agrees(table, p) == table[p] = "unlisted" \/ (table[p] = "quarantined" <=> p \in blocked)

Fresh(r, p) ==
    \/ pc[r] = "list"
    \/ pc[r] = "scan" /\ p \in left[r] /\ rows[r][p] # "quarantined"
    \/ pc[r] \in {"scan", "listed"} /\ Agrees(rows[r], p)

WillAgree(p) ==
    \A r \in Listing \ overtaken : Fresh(r, p) \/ \E q \in Listing : r \in before[q]

ShownOrComing(p) ==
    Agrees(currentPortsList, p) \/ ~inOrder \/ \E r \in Listing : r \notin overtaken

Current(p) == Changing \/ (WillAgree(p) /\ ShownOrComing(p))

PanelInv == PanelTypes /\ Ordered /\ (lost = 0 => \A p \in Ports : Current(p))

LEMMA PanelInvCurrent == PanelInv => PanelCurrent
BY DEF PanelInv, PanelTypes, SentinelTypes, Current, Changing, WillAgree, ShownOrComing, Agrees,
       PanelCurrent, Listing

LEMMA InitPanel == Init => PanelInv
BY DEF Init, SentinelInit, PanelInv, PanelTypes, SentinelTypes, SentinelLabels, Ordered, Listing,
       Unlisted, Current, WillAgree, ShownOrComing, Agrees

\* A step of the server changes neither what is under way nor its order, and
\* leaves Fresh what is, unless it changes blocked_ports.
LEMMA ServeKeepsPanel ==
    ASSUME PanelInv, NEW r \in Requests, Serve(r), UNCHANGED page
    PROVE  PanelInv'
<1> USE DEF PanelInv, PanelTypes, SentinelTypes, SentinelLabels, Ordered, Listing, Current,
            Changing, WillAgree, ShownOrComing, Fresh, Agrees, Goto, page, history
<1>1. CASE CloseRegister(r)
  BY <1>1 DEF CloseRegister
<1>2. CASE CloseInject(r)
  BY <1>2 DEF CloseInject
<1>3. CASE CloseAudit(r)
  BY <1>3 DEF CloseAudit
<1>4. CASE OpenCheck(r)
  BY <1>4 DEF OpenCheck
<1>5. CASE OpenForget(r)
  BY <1>5 DEF OpenForget
<1>6. CASE OpenRevoke(r)
  BY <1>6 DEF OpenRevoke
<1>7. CASE OpenAudit(r)
  BY <1>7 DEF OpenAudit
<1>8. CASE ScanListeners(r)
  <2>1. /\ rows' \in [Requests -> [Ports -> {"unlisted", "open", "inactive", "quarantined"}]]
        /\ \A q \in Requests : q # r => rows'[q] = rows[q]
        /\ left' \in [Requests -> SUBSET Ports]
        /\ \A q \in Requests : q # r => left'[q] = left[q]
        /\ pc[r] = "list" /\ pc' = [pc EXCEPT ![r] = "scan"]
        /\ UNCHANGED <<listening, blocked, port, currentPortsList, before, overtaken, inOrder, lost>>
    BY <1>8, CatalogAssumption DEF ScanListeners
  <2>2. \A p \in Ports :
           \/ rows'[r][p] = "unlisted"
           \/ p \in left'[r] /\ rows'[r][p] # "quarantined"
    BY <1>8 DEF ScanListeners
  <2>3. PanelTypes' /\ Ordered'
    BY <2>1
  <2>4. ASSUME NEW p \in Ports, Current(p) PROVE Current(p)'
    BY <2>1, <2>2, <2>4
  <2> QED
    BY <2>1, <2>3, <2>4
<1>9. CASE ScanRow(r)
  BY <1>9 DEF ScanRow
<1>10. CASE ScanReply(r)
  BY <1>10 DEF ScanReply
<1> QED
  BY <1>1, <1>2, <1>3, <1>4, <1>5, <1>6, <1>7, <1>8, <1>9, <1>10 DEF Serve

\* A listing that is sent now is fresh, and comes after all the others.
LEMMA FetchKeepsPanel ==
    ASSUME PanelInv, NEW r \in Requests, pc[r] \in {"idle", "ok"}, Fetch(r)
    PROVE  PanelInv'
<1>1. pc' = [pc EXCEPT ![r] = "list"] /\ before' = [before EXCEPT ![r] = Listing]
  BY DEF Fetch, Send
<1>2. Listing' = Listing \cup {r} /\ r \notin Listing
  BY <1>1 DEF PanelInv, PanelTypes, SentinelTypes, Listing
<1>3. PanelTypes'
  BY <1>1 DEF Fetch, Send, PanelInv, PanelTypes, SentinelTypes, SentinelLabels, Listing, NoPort
<1>4. Ordered'
  BY <1>1, <1>2 DEF Fetch, PanelInv, PanelTypes, Ordered
<1>5. ASSUME NEW p \in Ports PROVE WillAgree(p)'
  <2>1. Fresh(r, p)'
    BY <1>1 DEF PanelInv, PanelTypes, SentinelTypes, Fresh
  <2>2. \A q \in Listing : q \in before'[r]
    BY <1>1 DEF PanelInv, PanelTypes
  <2> QED
    BY <1>2, <2>1, <2>2 DEF WillAgree
<1>6. ASSUME NEW p \in Ports PROVE ShownOrComing(p)'
  BY <1>2 DEF Fetch, PanelInv, Ordered, ShownOrComing
<1> QED
  BY <1>3, <1>4, <1>5, <1>6 DEF PanelInv, Current

\* A request leaves the order when it ends; what preceded it may be overtaken.
LEMMA EndingKeepsOrder ==
    ASSUME PanelTypes, Ordered, NEW r \in Requests,
           Listing' = Listing \ {r},
           before' = [q \in Requests |-> IF q = r THEN {} ELSE before[q] \ {r}],
           NEW more \in {{}, before[r]},
           overtaken' = (overtaken \cup more) \ {r}
    PROVE  Ordered'
<1>1. \A q \in Requests : before'[q] = IF q = r THEN {} ELSE before[q] \ {r}
  OBVIOUS
<1>2. Listing \subseteq Requests
  BY DEF Listing
<1>3. overtaken' \subseteq Listing'
  BY <1>2 DEF Ordered
<1>4. \A q \in Requests : before'[q] \subseteq Listing' \ {q}
  BY <1>1 DEF Ordered
<1>5. \A q \in Requests : q \notin Listing' => before'[q] = {}
  BY <1>1 DEF Ordered
<1>6. \A q, s \in Requests : q \in before'[s] => before'[q] \subseteq before'[s]
  BY <1>1 DEF Ordered
<1>7. \A q \in overtaken' : before'[q] \subseteq overtaken'
  BY <1>1, <1>2, <1>3 DEF Ordered
<1> QED
  BY <1>3, <1>4, <1>5, <1>6, <1>7 DEF Ordered

LEMMA ArrivalKeepsPanel ==
    ASSUME PanelInv, NEW r \in Requests, ListingArrives(r)
    PROVE  PanelInv'
<1>1. /\ pc[r] = "listed"
      /\ pc' = [pc EXCEPT ![r] = "idle"]
      /\ before' = [q \in Requests |-> IF q = r THEN {} ELSE before[q] \ {r}]
      /\ overtaken' = (overtaken \cup before[r]) \ {r}
      /\ inOrder' = (r \notin overtaken)
      /\ currentPortsList' = rows[r]
      /\ rows' = [rows EXCEPT ![r] = Unlisted]
      /\ UNCHANGED <<listening, left, blocked, lost>>
  BY DEF ListingArrives, Done, Ended
<1>2. Listing' = Listing \ {r} /\ r \in Listing
  BY <1>1 DEF PanelInv, PanelTypes, SentinelTypes, Listing
<1>3. PanelTypes'
  <2>1. SentinelTypes'
    BY DEF ListingArrives, Done, PanelInv, PanelTypes, SentinelTypes, SentinelLabels, NoPort
  <2> QED
    BY <1>1, <2>1 DEF PanelInv, PanelTypes, SentinelTypes, Unlisted
<1>4. Ordered'
  BY <1>1, <1>2, EndingKeepsOrder DEF PanelInv
<1>5. ASSUME NEW p \in Ports, lost = 0, ~Changing
      PROVE  WillAgree(p)' /\ ShownOrComing(p)'
  <2>1. WillAgree(p)
    BY <1>5 DEF PanelInv, Current
  <2>2. WillAgree(p)'
    <3> SUFFICES ASSUME NEW q \in Listing', q \notin overtaken'
                 PROVE  Fresh(q, p)' \/ \E s \in Listing' : q \in before'[s]
      BY DEF WillAgree
    <3>1. q \in Listing /\ q # r /\ q \notin overtaken /\ q \notin before[r] /\ q \in Requests
      BY <1>1, <1>2 DEF Listing
    <3>2. CASE Fresh(q, p)
      BY <1>1, <3>1, <3>2 DEF Fresh, Agrees, PanelInv, PanelTypes, SentinelTypes
    <3>3. CASE \E s \in Listing : q \in before[s]
      BY <1>1, <1>2, <3>1, <3>3 DEF Listing
    <3> QED
      BY <2>1, <3>1, <3>2, <3>3 DEF WillAgree
  <2>3. CASE r \in overtaken
    BY <1>1, <2>2, <2>3 DEF ShownOrComing
  <2>4. CASE r \notin overtaken /\ Fresh(r, p)
    BY <1>1, <2>2, <2>4 DEF ShownOrComing, Fresh, Agrees
  <2>5. CASE r \notin overtaken /\ \E q \in Listing : r \in before[q]
    <3>1. PICK q \in Listing : r \in before[q]
      BY <2>5
    <3>2. q \in Requests
      BY DEF Listing
    <3>3. q # r /\ q \notin overtaken /\ q \notin before[r]
      BY <2>5, <3>1, <3>2 DEF PanelInv, Ordered
    <3> QED
      BY <1>1, <1>2, <2>2, <3>1, <3>3 DEF ShownOrComing
  <2> QED
    BY <1>2, <2>1, <2>2, <2>3, <2>4, <2>5 DEF WillAgree
<1>6. Changing => Changing'
  BY <1>1 DEF Changing, PanelInv, PanelTypes, SentinelTypes
<1> QED
  BY <1>1, <1>3, <1>4, <1>5, <1>6 DEF PanelInv, Current

LEMMA LossKeepsPanel ==
    ASSUME PanelInv, NEW r \in Requests, Lose(r)
    PROVE  PanelInv'
<1>1. /\ pc' = [pc EXCEPT ![r] = "idle"]
      /\ before' = [q \in Requests |-> IF q = r THEN {} ELSE before[q] \ {r}]
      /\ overtaken' = (overtaken \cup {}) \ {r}
      /\ pc[r] # "scan" /\ UNCHANGED <<listening, left>>
      /\ lost' = lost + 1
  BY DEF Lose, Done, Ended
<1>2. Listing' = Listing \ {r}
  BY <1>1 DEF PanelInv, PanelTypes, SentinelTypes, Listing
<1>3. PanelTypes' /\ lost' # 0
  <2>1. SentinelTypes'
    BY DEF Lose, Done, PanelInv, PanelTypes, SentinelTypes, SentinelLabels, NoPort
  <2> QED
    BY <1>1, <2>1 DEF Lose, Done, Unlisted, PanelInv, PanelTypes, SentinelTypes
<1>4. Ordered'
  BY <1>1, <1>2, EndingKeepsOrder DEF PanelInv
<1> QED
  BY <1>3, <1>4 DEF PanelInv

LEMMA FailureKeepsPanel ==
    ASSUME PanelInv, NEW r \in Requests, ChangeFailed(r)
    PROVE  PanelInv'
BY DEF ChangeFailed, Done, page, history, Unlisted, NoPort, PanelInv, PanelTypes, SentinelTypes,
       SentinelLabels, Ordered, Listing, Current, Changing, WillAgree, ShownOrComing, Fresh, Agrees

LEMMA ClickKeepsPanel ==
    ASSUME PanelInv, NEW r \in Requests, NEW p \in Ports, Click(r, p)
    PROVE  PanelInv'
<1>1. PICK label \in {"close", "open"} : Send(r, label, p)
  <2>1. Button(p) \in {"close", "open"}
    BY Zenon DEF Click, Button
  <2> QED
    BY <2>1 DEF Click
<1>2. pc[r] = "idle" /\ UNCHANGED <<currentPortsList, history, lost>>
  BY DEF Click
<1> QED
  BY <1>1, <1>2 DEF Send, history, PanelInv, PanelTypes, SentinelTypes, SentinelLabels, Ordered,
     Listing, Current, Changing, WillAgree, ShownOrComing, Fresh, Agrees

LEMMA OthersKeepPanel ==
    ASSUME PanelInv,
           \/ Flush /\ UNCHANGED page
           \/ \E p \in Ports : ListenerChanges(p) /\ UNCHANGED page
           \/ UNCHANGED vars
    PROVE  PanelInv'
BY DEF Flush, ListenerChanges, vars, sentinel, page, history, PanelInv, PanelTypes, SentinelTypes,
       Ordered, Listing, Current, Changing, WillAgree, ShownOrComing, Fresh, Agrees

\* When all requests have been answered, the panel agrees with blocked_ports,
\* for any number of clicks, changes and listings that overlap in any order,
\* unless an answer was lost or the listing shown last had been overtaken.
THEOREM PanelSound == Spec => []PanelCurrent
<1>1. PanelInv /\ [Next]_vars => PanelInv'
  <2> SUFFICES ASSUME PanelInv, [Next]_vars PROVE PanelInv'
    OBVIOUS
  <2>1. ASSUME NEW r \in Requests, Serve(r), UNCHANGED page PROVE PanelInv'
    BY <2>1, ServeKeepsPanel
  <2>2. ASSUME NEW r \in Requests, ChangeAnswered(r) \/ FetchPortData(r) PROVE PanelInv'
    BY <2>2, FetchKeepsPanel DEF ChangeAnswered, FetchPortData
  <2>3. ASSUME NEW r \in Requests, ChangeFailed(r) \/ ListingArrives(r) \/ Lose(r)
        PROVE  PanelInv'
    BY <2>3, FailureKeepsPanel, ArrivalKeepsPanel, LossKeepsPanel
  <2>4. ASSUME NEW r \in Requests, NEW p \in Ports, Click(r, p) PROVE PanelInv'
    BY <2>4, ClickKeepsPanel
  <2> QED
    BY <2>1, <2>2, <2>3, <2>4, OthersKeepPanel DEF Next
<1> QED
  BY <1>1, InitPanel, PanelInvCurrent, PTL DEF Spec
-----------------------------------------------------------------------------
(* PortPanel: types.  A thread that serves a request to close or to open   *)
(* has a port to do it with.                                               *)

\* Where a request that changes blocked_ports can be before it is answered.
ChangeLabels == {"close", "inject", "close_audit", "open", "forget", "revoke", "open_audit"}

HasPort == \A r \in Requests : pc[r] \in ChangeLabels => port[r] \in Ports

Typed == TypeOK /\ HasPort

LEMMA ServeKeepsTypes ==
    ASSUME Typed, NEW r \in Requests, Serve(r), UNCHANGED page
    PROVE  Typed'
<1> USE DEF Typed, TypeOK, HasPort, ChangeLabels, SentinelTypeOK, SentinelLabels, Goto, page, history
<1>1. CASE CloseRegister(r)
  BY <1>1 DEF CloseRegister
<1>2. CASE CloseInject(r)
  BY <1>2, BoundsAssumption DEF CloseInject
<1>3. CASE CloseAudit(r)
  BY <1>3 DEF CloseAudit, Entry
<1>4. CASE OpenCheck(r)
  BY <1>4 DEF OpenCheck
<1>5. CASE OpenForget(r)
  BY <1>5 DEF OpenForget
<1>6. CASE OpenRevoke(r)
  BY <1>6 DEF OpenRevoke
<1>7. CASE OpenAudit(r)
  BY <1>7 DEF OpenAudit, Entry
<1>8. CASE ScanListeners(r)
  BY <1>8, CatalogAssumption DEF ScanListeners
<1>9. CASE ScanRow(r)
  BY <1>9 DEF ScanRow
<1>10. CASE ScanReply(r)
  BY <1>10 DEF ScanReply
<1> QED
  BY <1>1, <1>2, <1>3, <1>4, <1>5, <1>6, <1>7, <1>8, <1>9, <1>10 DEF Serve

LEMMA FetchKeepsTypes ==
    ASSUME Typed, NEW r \in Requests, pc[r] \in {"idle", "ok"}, Fetch(r)
    PROVE  Typed'
BY DEF Fetch, Send, Listing, NoPort, Typed, TypeOK, HasPort, ChangeLabels, SentinelTypeOK,
       SentinelLabels

LEMMA ClickKeepsTypes ==
    ASSUME Typed, NEW r \in Requests, NEW p \in Ports, Click(r, p)
    PROVE  Typed'
<1>1. PICK label \in {"close", "open"} : Send(r, label, p)
  <2>1. Button(p) \in {"close", "open"}
    BY Zenon DEF Click, Button
  <2> QED
    BY <2>1 DEF Click
<1>2. /\ pc[r] = "idle" /\ clicks < MaxClicks /\ clicks' = clicks + 1
      /\ UNCHANGED <<currentPortsList, history, lost>>
  BY DEF Click
<1> QED
  BY <1>1, <1>2, PanelAssumption
  DEF Send, history, Typed, TypeOK, HasPort, ChangeLabels, SentinelTypeOK, SentinelLabels

LEMMA EndKeepsTypes ==
    ASSUME Typed, NEW r \in Requests, ChangeFailed(r) \/ ListingArrives(r) \/ Lose(r)
    PROVE  Typed'
<1> USE DEF Typed, TypeOK, HasPort, ChangeLabels, SentinelTypeOK, SentinelLabels, Done, Ended, NoPort,
            Unlisted
<1>1. CASE ChangeFailed(r)
  BY <1>1 DEF ChangeFailed, page, history
<1>2. CASE ListingArrives(r)
  BY <1>2 DEF ListingArrives
<1>3. CASE Lose(r)
  BY <1>3, PanelAssumption DEF Lose
<1> QED
  BY <1>1, <1>2, <1>3

LEMMA OthersKeepTypes ==
    ASSUME Typed,
           \/ Flush /\ UNCHANGED page
           \/ \E p \in Ports : ListenerChanges(p) /\ UNCHANGED page
           \/ UNCHANGED vars
    PROVE  Typed'
BY BoundsAssumption
DEF Flush, ListenerChanges, vars, sentinel, page, history, Typed, TypeOK, HasPort, ChangeLabels,
    SentinelTypeOK

\* The type invariant, for any number of ports and requests: blocked_ports, the
\* kernel's chain and the audit trail only ever name ports, and a listing is
\* complete when it is returned.
THEOREM TypeSound == Spec => []TypeOK
<1>1. Init => Typed
  BY BoundsAssumption, PanelAssumption
  DEF Init, SentinelInit, Typed, TypeOK, HasPort, ChangeLabels, SentinelTypeOK, SentinelLabels,
      Unlisted, NoPort
<1>2. Typed /\ [Next]_vars => Typed'
  <2> SUFFICES ASSUME Typed, [Next]_vars PROVE Typed'
    OBVIOUS
  <2>1. ASSUME NEW r \in Requests, Serve(r), UNCHANGED page PROVE Typed'
    BY <2>1, ServeKeepsTypes
  <2>2. ASSUME NEW r \in Requests, ChangeAnswered(r) \/ FetchPortData(r) PROVE Typed'
    BY <2>2, FetchKeepsTypes DEF ChangeAnswered, FetchPortData
  <2>3. ASSUME NEW r \in Requests, ChangeFailed(r) \/ ListingArrives(r) \/ Lose(r)
        PROVE  Typed'
    BY <2>3, EndKeepsTypes
  <2>4. ASSUME NEW r \in Requests, NEW p \in Ports, Click(r, p) PROVE Typed'
    BY <2>4, ClickKeepsTypes
  <2> QED
    BY <2>1, <2>2, <2>3, <2>4, OthersKeepTypes DEF Next
<1>3. Typed => TypeOK
  BY DEF Typed
<1> QED
  BY <1>1, <1>2, <1>3, PTL DEF Spec
=============================================================================
