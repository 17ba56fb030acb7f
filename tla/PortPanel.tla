------------------------------ MODULE PortPanel ------------------------------
(***************************************************************************)
(* The port panel of the dashboard's page (the JavaScript in               *)
(* app_dashboard.py) as the client of PortSentinel.  It asks for a listing *)
(* when its modal is opened and after every change, and never otherwise.   *)
(* JavaScript runs one handler at a time, but nothing orders the           *)
(* responses: requests overlap, and a response may arrive after those of   *)
(* later requests, or never.                                               *)
(***************************************************************************)
EXTENDS PortSentinel

CONSTANTS MaxClicks,         \* bound: clicks on close or re-open
          MaxLost            \* bound: requests or responses that are lost

ASSUME PanelAssumption == MaxClicks \in Nat /\ MaxLost \in Nat

VARIABLES currentPortsList,  \* the rows the panel shows
          before,            \* history: the listings under way when one was sent
          overtaken,         \* history: those sent before one that was shown
          inOrder,           \* history: the one shown was not overtaken
          clicks, lost

history == <<before, overtaken, inOrder>>
page    == <<currentPortsList, history, clicks, lost>>
vars    == <<sentinel, page>>

\* The page comes with the listing of the moment.
Init ==
    /\ SentinelInit
    /\ currentPortsList = [p \in Ports |-> IF p \in listening THEN "open"
                                           ELSE IF p \in Catalog THEN "inactive"
                                           ELSE "unlisted"]
    /\ before = [r \in Requests |-> {}]
    /\ overtaken = {}
    /\ inOrder = TRUE
    /\ clicks = 0
    /\ lost = 0

Listing == {r \in Requests : pc[r] \in {"list", "scan", "listed"}}

\* fetchPortData up to its await, which leaves the request r with the server.
Fetch(r) ==
    /\ Send(r, "list", NoPort)
    /\ before' = [before EXCEPT ![r] = Listing]
    /\ UNCHANGED <<currentPortsList, overtaken, inOrder, clicks, lost>>

\* History of a request that has ended.
Ended(r) == before' = [q \in Requests |-> IF q = r THEN {} ELSE before[q] \ {r}]

-----------------------------------------------------------------------------

\* The button of a row depends on what the panel shows, not on the server.
Button(p) == CASE currentPortsList[p] = "quarantined"          -> "open"
               [] currentPortsList[p] \in {"open", "inactive"} -> "close"
               [] OTHER                                        -> "none"

\* triggerClosePort and triggerOpenPort; a second click is not prevented.
Click(r, p) ==
    /\ pc[r] = "idle"
    /\ clicks < MaxClicks
    /\ Button(p) # "none"
    /\ Send(r, Button(p), p)
    /\ clicks' = clicks + 1
    /\ UNCHANGED <<currentPortsList, history, lost>>

\* Mutation: the handler leaves it to the next opening of the modal.
ChangeAnsweredOnly(r) ==
    /\ pc[r] = "ok"
    /\ Done(r)
    /\ UNCHANGED page

\* The change succeeded: the handler fetches the listing.
ChangeAnswered(r) ==
    /\ pc[r] = "ok"
    /\ Fetch(r)

\* The body of a 500 is not JSON: the handler shows a toast, no more.
ChangeFailed(r) ==
    /\ pc[r] = "error"
    /\ Done(r)
    /\ UNCHANGED page

\* openPortSentinelModal; also the last line of the page's script.
FetchPortData(r) ==
    /\ pc[r] = "idle"
    /\ Fetch(r)

\* The rest of fetchPortData.
ListingArrives(r) ==
    /\ pc[r] = "listed"
    /\ currentPortsList' = rows[r]
    /\ inOrder' = (r \notin overtaken)
    /\ overtaken' = (overtaken \cup before[r]) \ {r}
    /\ Ended(r)
    /\ Done(r)
    /\ UNCHANGED <<clicks, lost>>

\* fetch rejects: the request never reached the server, or its response is lost.
Lose(r) ==
    /\ pc[r] \in {"close", "open", "list", "ok", "error", "listed"}
    /\ lost < MaxLost
    /\ lost' = lost + 1
    /\ Done(r)
    /\ overtaken' = overtaken \ {r}
    /\ Ended(r)
    /\ UNCHANGED <<currentPortsList, inOrder, clicks>>

Next ==
    \/ \E r \in Requests :
          \/ Serve(r) /\ UNCHANGED page
          \/ ChangeAnswered(r) \/ ChangeFailed(r)
          \/ FetchPortData(r) \/ ListingArrives(r)
          \/ Lose(r)
          \/ \E p \in Ports : Click(r, p)
    \/ \E p \in Ports : ListenerChanges(p) /\ UNCHANGED page
    \/ Flush /\ UNCHANGED page

Spec == Init /\ [][Next]_vars
-----------------------------------------------------------------------------
(* Properties                                                              *)

TypeOK ==
    /\ SentinelTypeOK
    /\ currentPortsList \in [Ports -> {"unlisted", "open", "inactive", "quarantined"}]
    /\ before \in [Requests -> SUBSET Requests]
    /\ overtaken \subseteq Requests
    /\ inOrder \in BOOLEAN
    /\ clicks \in 0 .. MaxClicks
    /\ lost \in 0 .. MaxLost

\* Once all requests have ended, the rows of the panel agree with
\* blocked_ports, whichever way changes and listings interleaved, provided no
\* response was lost and the listing shown last was not overtaken by a later
\* one (if it was, the panel stays wrong until the modal is opened again).
PanelCurrent ==
    (\A r \in Requests : pc[r] = "idle") /\ inOrder /\ lost = 0 =>
        \A p \in Ports : \/ currentPortsList[p] = "unlisted"
                         \/ currentPortsList[p] = "quarantined" <=> p \in blocked
=============================================================================
