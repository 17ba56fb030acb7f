------------------------------ MODULE AttackSim -----------------------------
(***************************************************************************)
(* attack_generator.py: CyberAttackSimulator.  start_attack and            *)
(* stop_attack are called by the dashboard's threads; every attack runs in *)
(* a thread of its own (_run_campaign), which ends when its time is over   *)
(* or when it finds the simulator's flag cleared.  The simulator has one   *)
(* flag for all campaigns, and a campaign looks at it between two sleeps.  *)
(*                                                                         *)
(* Every section under the simulator's lock is one step.  The addresses    *)
(* and features of the flows are left out; a sleep takes any time.         *)
(***************************************************************************)
EXTENDS Integers, FiniteSets

CONSTANTS Threads,      \* bound: campaign threads that live at the same time
          Vectors,
          NoVector,
          Durations,    \* duration_sec, as ticks
          MaxSent       \* bound: flows counted before a campaign waits for its end

ASSUME VectorsAssumption   == NoVector \notin Vectors
ASSUME DurationsAssumption == Durations \subseteq Nat /\ MaxSent \in Nat

VARIABLES active,       \* _is_attacking
          vector,       \* _current_vector
          sent,         \* _packets_sent
          latest,       \* _thread (before the first attack, any)
          campaign,     \* for each thread: where it is, its vector, the ticks until its end_time
          abort,        \* history: was it aborted, and was an attack started since?
          late          \* history: flows it put since it was aborted

vars == <<active, vector, sent, latest, campaign, abort, late>>

Idle  == [at |-> "done", vector |-> NoVector, left |-> 0]
Alive == {t \in Threads : campaign[t].at # "done"}

Init ==
    /\ active = FALSE
    /\ vector = NoVector
    /\ sent = 0
    /\ latest \in Threads
    /\ campaign = [t \in Threads |-> Idle]
    /\ abort = [t \in Threads |-> "no"]
    /\ late = [t \in Threads |-> 0]

At(t, where) == campaign[t].at = where

Moved(c, where) == [c EXCEPT !.at = where]
Aged(c)         == [c EXCEPT !.left = @ - 1]

GoTo(t, where) == campaign' = [campaign EXCEPT ![t] = Moved(@, where)]

-----------------------------------------------------------------------------
(* The dashboard                                                           *)

\* start_attack; it refuses while the flag is set, or for another vector.
StartAttack(t, v, duration) ==
    /\ ~active
    /\ At(t, "done")
    /\ active' = TRUE
    /\ vector' = v
    /\ sent' = 0
    /\ latest' = t
    /\ campaign' = [campaign EXCEPT ![t] = [at |-> "begin", vector |-> v, left |-> duration]]
    /\ abort' = [u \in Threads |-> IF u = t THEN "no"
                                   ELSE IF abort[u] = "aborted" THEN "revived" ELSE abort[u]]
    /\ late' = [late EXCEPT ![t] = 0]

\* stop_attack; it does nothing while the flag is clear.
StopAttack ==
    /\ active
    /\ active' = FALSE
    /\ vector' = NoVector
    /\ abort' = [t \in Threads |-> IF t \in Alive THEN "aborted" ELSE abort[t]]
    /\ late' = [t \in Threads |-> IF t \in Alive THEN 0 ELSE late[t]]
    /\ UNCHANGED <<sent, latest, campaign>>

-----------------------------------------------------------------------------
(* _run_campaign                                                           *)

\* The thread computes its end_time.
Begin(t) ==
    /\ At(t, "begin")
    /\ GoTo(t, "check")
    /\ UNCHANGED <<active, vector, sent, latest, abort, late>>

\* Mutations: the loop ignores the flag; the loop ignores the time.
CheckTimeOnly(t) ==
    /\ At(t, "check")
    /\ \/ campaign[t].left > 0 /\ sent < MaxSent /\ GoTo(t, "put")
       \/ campaign[t].left = 0 /\ GoTo(t, "end")
    /\ UNCHANGED <<active, vector, sent, latest, abort, late>>

CheckFlagOnly(t) ==
    /\ At(t, "check")
    /\ \/ active /\ sent < MaxSent /\ GoTo(t, "put")
       \/ ~active /\ GoTo(t, "end")
    /\ UNCHANGED <<active, vector, sent, latest, abort, late>>

\* The condition of the loop.
Check(t) ==
    /\ At(t, "check")
    /\ \/ campaign[t].left > 0 /\ active /\ sent < MaxSent /\ GoTo(t, "put")
       \/ (campaign[t].left = 0 \/ ~active) /\ GoTo(t, "end")
    /\ UNCHANGED <<active, vector, sent, latest, abort, late>>

\* A flow is synthesized and put into the queue, which drops it when it is
\* full; an error ends the loop.
Put(t) ==
    /\ At(t, "put")
    /\ \/ /\ GoTo(t, "count")
          /\ late' = IF abort[t] = "no" \/ late[t] = 2 THEN late
                     ELSE [late EXCEPT ![t] = @ + 1]
       \/ /\ GoTo(t, "end")
          /\ UNCHANGED late
    /\ UNCHANGED <<active, vector, sent, latest, abort>>

\* The flow is counted; the thread sleeps.
Count(t) ==
    /\ At(t, "count")
    /\ sent' = sent + 1
    /\ GoTo(t, "check")
    /\ UNCHANGED <<active, vector, latest, abort, late>>

\* Mutations: one of the two fields is not reset.
EndKeepsVector(t) ==
    /\ At(t, "end")
    /\ active' = FALSE
    /\ GoTo(t, "done")
    /\ UNCHANGED <<vector, sent, latest, abort, late>>

EndKeepsFlag(t) ==
    /\ At(t, "end")
    /\ GoTo(t, "done")
    /\ UNCHANGED <<active, vector, sent, latest, abort, late>>

\* The end of a campaign, whichever campaign the flag is set for.
End(t) ==
    /\ At(t, "end")
    /\ active' = FALSE
    /\ vector' = NoVector
    /\ GoTo(t, "done")
    /\ UNCHANGED <<sent, latest, abort, late>>

\* Time passes for the campaigns that know their end.
Running(t) == campaign[t].at \notin {"begin", "done"} /\ campaign[t].left > 0

Tick ==
    /\ \E t \in Threads : Running(t)
    /\ campaign' = [t \in Threads |-> IF Running(t) THEN Aged(campaign[t]) ELSE campaign[t]]
    /\ UNCHANGED <<active, vector, sent, latest, abort, late>>

-----------------------------------------------------------------------------

Campaign(t) == Begin(t) \/ Check(t) \/ Put(t) \/ Count(t) \/ End(t)

Next ==
    \/ \E t \in Threads :
          \/ \E v \in Vectors, duration \in Durations : StartAttack(t, v, duration)
          \/ Campaign(t)
    \/ StopAttack
    \/ Tick

Spec == Init /\ [][Next]_vars

\* Threads are scheduled and time passes; nobody need start or stop anything.
FairSpec == Spec /\ WF_vars(Tick) /\ \A t \in Threads : WF_vars(Campaign(t))

-----------------------------------------------------------------------------
(* Properties                                                              *)

Places == {"begin", "check", "put", "count", "end", "done"}

\* Every variable keeps its type, and the dashboard's banner shows a vector
\* exactly while an attack is active, although any campaign may clear both.
TypeOK ==
    /\ active \in BOOLEAN
    /\ vector \in Vectors \cup {NoVector}
    /\ active <=> vector # NoVector
    /\ sent \in Nat
    /\ latest \in Threads
    /\ campaign \in [Threads -> [at : Places, vector : Vectors \cup {NoVector}, left : Nat]]
    /\ abort \in [Threads -> {"no", "aborted", "revived"}]
    /\ late \in [Threads -> 0 .. 2]

\* While the status says that an attack is active, the campaign of the last
\* start_attack is, and the status names its vector: an attack that ended,
\* or was cut short by the end of an older one, never blocks the next one.
LatestRuns == active => latest \in Alive /\ campaign[latest].vector = vector

\* After stop_attack a campaign puts at most the flow it was working on, as
\* long as no attack is started before it looks at the flag.
AbortedStops == \A t \in Threads : abort[t] = "aborted" => late[t] <= 1

\* Every attack ends.
AttackEnds == active ~> ~active
=============================================================================
