------------------------------ MODULE EventLog ------------------------------
(***************************************************************************)
(* What the event database promises to those who log: events are stored in *)
(* the order in which they were logged, each at most once, and nothing     *)
(* else is stored.  It is lossy: a contiguous run of events that are not   *)
(* stored yet may disappear (a failed batch, an open transaction, a        *)
(* crash), a stored one never does.                                        *)
(***************************************************************************)
EXTENDS Naturals, Sequences

CONSTANT Events

VARIABLES pending,   \* logged, neither stored nor lost, oldest first
          stored     \* stored for good

Init == pending = <<>> /\ stored = <<>>

Log(event) ==
    /\ pending' = Append(pending, event)
    /\ UNCHANGED stored

Persist(n) ==
    /\ stored' = stored \o SubSeq(pending, 1, n)
    /\ pending' = SubSeq(pending, n + 1, Len(pending))

Lose(first, last) ==
    /\ pending' = SubSeq(pending, 1, first - 1) \o SubSeq(pending, last + 1, Len(pending))
    /\ UNCHANGED stored

Next ==
    \/ \E event \in Events : Log(event)
    \/ \E n \in 1 .. Len(pending) : Persist(n)
    \/ \E first, last \in 1 .. Len(pending) : first <= last /\ Lose(first, last)

Spec == Init /\ [][Next]_<<pending, stored>>
=============================================================================
