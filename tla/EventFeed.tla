------------------------------ MODULE EventFeed ------------------------------
(***************************************************************************)
(* The polling half of the dashboard's page (the JavaScript in             *)
(* app_dashboard.py): the event feed and the table of rules.  A timer      *)
(* sends the fetches whatever became of the earlier ones, so that several  *)
(* are under way at a time; their responses may arrive in any order, or    *)
(* never.  What an operator does from the page is a request of the same    *)
(* kind followed by a poll.                                                *)
(*                                                                         *)
(* The database is EventLog, which the writer (DbWriter) is shown to       *)
(* implement: an event's place in `stored` is its id.                      *)
(***************************************************************************)
EXTENDS Naturals, Sequences, SequencesExt

CONSTANTS Rules,             \* addresses that can have a rule
          Fetches,           \* fetches of one kind that can be under way
          EVENTS_LIMIT,      \* the page asks for this many events (40)
          MAX_STREAM_ROWS,   \* rows the feed keeps (60)
          MAX_TABLE_ROWS,    \* rows the table of rules shows (50)
          MaxChanges,        \* bound: events logged, and rules set or withdrawn by others
          MaxLost            \* bound: requests or responses that are lost

ASSUME FeedAssumption == /\ EVENTS_LIMIT \in Nat \ {0}
                         /\ MAX_STREAM_ROWS \in Nat \ {0}
                         /\ MAX_TABLE_ROWS \in Nat \ {0}
                         /\ MaxChanges \in Nat
                         /\ MaxLost \in Nat

VARIABLES pending, stored,   \* the database (EventLog)
          rules,             \* addresses with a rule, in the registry's order: oldest first
          events,            \* where each fetch of events is
          newest,            \* the newest event of its response
          table,             \* where each fetch of rules is
          listed,            \* the rules in its response
          unblock,           \* the address of a click on Unblock under way
          seenEventIds,      \* events the page has shown
          streamLogs,        \* the feed, top row first
          shownRules,        \* the table of rules, top row first
          lost,              \* requests and responses lost so far
          changes            \* events logged and rules changed so far

database == <<pending, stored>>
feed     == <<events, newest, seenEventIds, streamLogs>>
grid     == <<table, listed, shownRules>>
vars     == <<database, rules, feed, grid, unblock, lost, changes>>

Log == INSTANCE EventLog WITH Events <- {"event"}

NoClick == "none"

Init ==
    /\ Log!Init
    /\ rules = <<>>
    /\ events = [f \in Fetches |-> "idle"]
    /\ newest = [f \in Fetches |-> 0]
    /\ table = [f \in Fetches |-> "idle"]
    /\ listed = [f \in Fetches |-> <<>>]
    /\ unblock = NoClick
    /\ seenEventIds = {}
    /\ streamLogs = <<>>
    /\ shownRules = <<>>
    /\ lost = 0
    /\ changes = 0

-----------------------------------------------------------------------------
(* The server: events are logged and stored, rules come and go.            *)

LogEvent ==
    /\ changes < MaxChanges
    /\ changes' = changes + 1
    /\ Log!Log("event")
    /\ UNCHANGED <<rules, feed, grid, unblock, lost>>

Store ==
    /\ \E n \in 1 .. Len(pending) : Log!Persist(n)
    /\ UNCHANGED <<rules, feed, grid, unblock, lost, changes>>

LoseEvent ==
    /\ \E i, j \in 1 .. Len(pending) : i <= j /\ Log!Lose(i, j)
    /\ UNCHANGED <<rules, feed, grid, unblock, lost, changes>>

\* The registry is a dictionary: it lists its rules in the order they came.
RemoveRule(ip) ==
    \/ \E i \in DOMAIN rules : rules[i] = ip /\ rules' = RemoveAt(rules, i)
    \/ ~Contains(rules, ip) /\ UNCHANGED rules

RuleChanges(ip) ==
    /\ changes < MaxChanges
    /\ changes' = changes + 1
    /\ IF Contains(rules, ip) THEN RemoveRule(ip) ELSE rules' = Append(rules, ip)
    /\ UNCHANGED <<database, feed, grid, unblock, lost>>

\* api_events: get_recent_events(limit)
EventsServed(f) ==
    /\ events[f] = "asked"
    /\ events' = [events EXCEPT ![f] = "answered"]
    /\ newest' = [newest EXCEPT ![f] = Len(stored)]
    /\ UNCHANGED <<database, rules, seenEventIds, streamLogs, grid, unblock, lost, changes>>

\* api_rules: list_rules()
RulesServed(f) ==
    /\ table[f] = "asked"
    /\ table' = [table EXCEPT ![f] = "answered"]
    /\ listed' = [listed EXCEPT ![f] = rules]
    /\ UNCHANGED <<database, rules, feed, shownRules, unblock, lost, changes>>

-----------------------------------------------------------------------------
(* pollDashboardData: each of its fetches goes its own way.                *)

\* Mutation: the next poll is scheduled when a response has been handled.
PollEventsAfterResponse(f) ==
    /\ events[f] = "idle"
    /\ lost = 0
    /\ events' = [events EXCEPT ![f] = "asked"]
    /\ UNCHANGED <<database, rules, newest, seenEventIds, streamLogs, grid, unblock, lost, changes>>

PollEvents(f) ==
    /\ events[f] = "idle"
    /\ events' = [events EXCEPT ![f] = "asked"]
    /\ UNCHANGED <<database, rules, newest, seenEventIds, streamLogs, grid, unblock, lost, changes>>

\* Mutation: the table is fetched after the operator's own changes only.
PollRulesOnce(f) ==
    /\ table[f] = "idle"
    /\ shownRules = <<>>
    /\ table' = [table EXCEPT ![f] = "asked"]
    /\ UNCHANGED <<database, rules, feed, listed, shownRules, unblock, lost, changes>>

PollRules(f) ==
    /\ table[f] = "idle"
    /\ table' = [table EXCEPT ![f] = "asked"]
    /\ UNCHANGED <<database, rules, feed, listed, shownRules, unblock, lost, changes>>

EventsLost(f) ==
    /\ events[f] # "idle"
    /\ lost < MaxLost
    /\ lost' = lost + 1
    /\ events' = [events EXCEPT ![f] = "idle"]
    /\ newest' = [newest EXCEPT ![f] = 0]
    /\ UNCHANGED <<database, rules, seenEventIds, streamLogs, grid, unblock, changes>>

RulesLost(f) ==
    /\ table[f] # "idle"
    /\ lost < MaxLost
    /\ lost' = lost + 1
    /\ table' = [table EXCEPT ![f] = "idle"]
    /\ listed' = [listed EXCEPT ![f] = <<>>]
    /\ UNCHANGED <<database, rules, feed, shownRules, unblock, changes>>

\* A response with newest event n has the EVENTS_LIMIT latest ids.
Response(n) == {e \in 1 .. n : e + EVENTS_LIMIT > n}

\* slice(0, n)
FirstRows(s, n) == SubSeq(s, 1, IF Len(s) < n THEN Len(s) ELSE n)

\* Mutation: the rows of the feed are what counts as seen.
NewEventsByRow(response)   == {e \in response : ~Contains(streamLogs, e)}
\* Mutation: the server is trusted to send each event once.
NewEventsAll(response)     == response
NewEvents(response)        == {e \in response : e \notin seenEventIds}

\* A response begins with the newest event, and each is put on top of the one
\* before: their rows begin with the oldest.
Rows(es) == [k \in 1 .. Cardinality(es) |-> CHOOSE e \in es : Cardinality({d \in es : d <= e}) = k]

\* updateEventsStream
UpdateEventsStream(f) ==
    /\ events[f] = "answered"
    /\ events' = [events EXCEPT ![f] = "idle"]
    /\ newest' = [newest EXCEPT ![f] = 0]
    /\ LET new == NewEvents(Response(newest[f]))
       IN  /\ seenEventIds' = seenEventIds \cup new
           /\ streamLogs' = FirstRows(Rows(new) \o streamLogs, MAX_STREAM_ROWS)
    /\ UNCHANGED <<database, rules, grid, unblock, lost, changes>>

\* updateRulesTable: the whole table is replaced by the first rows of the response.
UpdateRulesTable(f) ==
    /\ table[f] = "answered"
    /\ table' = [table EXCEPT ![f] = "idle"]
    /\ listed' = [listed EXCEPT ![f] = <<>>]
    /\ shownRules' = FirstRows(listed[f], MAX_TABLE_ROWS)
    /\ UNCHANGED <<database, rules, feed, unblock, lost, changes>>

-----------------------------------------------------------------------------
(* The operator                                                            *)

ClearStreamLog ==
    /\ streamLogs' = <<>>
    /\ UNCHANGED <<database, rules, events, newest, seenEventIds, grid, unblock, lost, changes>>

\* unblockTargetIP, on a row of the table, which may be gone by now; the row
\* stays until a poll brings a table without it.
UnblockTargetIP(ip) ==
    /\ unblock = NoClick
    /\ Contains(shownRules, ip)
    /\ unblock' = ip
    /\ UNCHANGED <<database, rules, feed, grid, lost, changes>>

\* api_unblock: remove_rule (KernelEnforcer has its steps)
UnblockServed ==
    /\ unblock # NoClick
    /\ RemoveRule(unblock)
    /\ unblock' = NoClick
    /\ UNCHANGED <<database, feed, grid, lost, changes>>

UnblockLost ==
    /\ unblock # NoClick
    /\ lost < MaxLost
    /\ lost' = lost + 1
    /\ unblock' = NoClick
    /\ UNCHANGED <<database, rules, feed, grid, changes>>

Next ==
    \/ LogEvent \/ Store \/ LoseEvent
    \/ \E ip \in Rules : RuleChanges(ip) \/ UnblockTargetIP(ip)
    \/ UnblockServed \/ UnblockLost
    \/ \E f \in Fetches :
          \/ PollEvents(f) \/ EventsServed(f) \/ EventsLost(f) \/ UpdateEventsStream(f)
          \/ PollRules(f) \/ RulesServed(f) \/ RulesLost(f) \/ UpdateRulesTable(f)
    \/ ClearStreamLog

Spec == Init /\ [][Next]_vars

(***************************************************************************)
(* The timer of setInterval fires again and again, Flask's threads run,    *)
(* and what is not lost arrives.                                           *)
(***************************************************************************)
FairSpec ==
    /\ Spec
    /\ WF_vars(UnblockServed)
    /\ \A f \in Fetches :
          /\ WF_vars(PollEvents(f)) /\ WF_vars(EventsServed(f)) /\ WF_vars(UpdateEventsStream(f))
          /\ WF_vars(PollRules(f))  /\ WF_vars(RulesServed(f))  /\ WF_vars(UpdateRulesTable(f))
-----------------------------------------------------------------------------
(* Properties                                                              *)

\* Every variable keeps its type.  The feed shows stored events only, and none
\* of them twice, although polls overlap and their responses repeat most of
\* their events and arrive in any order.
TypeOK ==
    /\ pending \in Seq({"event"})
    /\ stored \in Seq({"event"})
    /\ rules \in Seq(Rules)
    /\ events \in [Fetches -> {"idle", "asked", "answered"}]
    /\ newest \in [Fetches -> 0 .. Len(stored)]
    /\ table \in [Fetches -> {"idle", "asked", "answered"}]
    /\ listed \in [Fetches -> Seq(Rules)]
    /\ unblock \in Rules \cup {NoClick}
    /\ seenEventIds \subseteq 1 .. Len(stored)
    /\ streamLogs \in Seq(seenEventIds)
    /\ IsInjective(streamLogs)
    /\ Len(streamLogs) <= MAX_STREAM_ROWS
    /\ shownRules \in Seq(Rules) /\ Len(shownRules) <= MAX_TABLE_ROWS
    /\ lost \in 0 .. MaxLost
    /\ changes \in 0 .. MaxChanges

\* An event that has left the feed, because the operator cleared it or others
\* pushed it out, does not come back with a later or belated response.
Gone(e)     == e \in seenEventIds /\ ~Contains(streamLogs, e)
GoneForGood == [][\A e \in seenEventIds : Gone(e) => Gone(e)']_vars

\* Every stored event is shown, unless EVENTS_LIMIT newer ones push it out of
\* the responses first: lost and overtaken responses only delay it.
EventsSeen ==
    \A e \in 1 .. MaxChanges :
        Len(stored) >= e ~> (e \in seenEventIds \/ Len(stored) >= e + EVENTS_LIMIT)

\* When the registry no longer changes, the table shows its first
\* MAX_TABLE_ROWS rules for good, in the registry's order, although belated
\* responses still bring older tables for a while; a rule beyond those rows
\* comes into view only when earlier ones go (app_dashboard.py:1769).
Registries == {s \in SeqOf(Rules, Cardinality(Rules)) : IsInjective(s)}
RulesShown ==
    \A R \in Registries :
        <>[](rules = R) => <>[](shownRules = FirstRows(R, MAX_TABLE_ROWS))
=============================================================================
