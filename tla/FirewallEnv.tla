----------------------------- MODULE FirewallEnv -----------------------------
(***************************************************************************)
(* The environment the PPO agent is trained in (class FirewallEnv of       *)
(* drl_agent.py).  The agent may take any action in any state, so the      *)
(* rewards, which only say what it prefers, are left out, as are the       *)
(* features that the rules do not depend on.  Scores are in twentieths.    *)
(***************************************************************************)
EXTENDS Integers, Sequences, FiniteSets

CONSTANTS EPISODE_STEPS,      \* an episode ends after this many steps (200)
          INITIAL_RULES,      \* a new episode has fewer rules than this (100)
          FP_WINDOW           \* what _fp_history holds (100)

ASSUME EnvAssumption ==
    /\ EPISODE_STEPS \in Nat \ {0}
    /\ INITIAL_RULES \in Nat \ {0}
    /\ FP_WINDOW \in Nat

VARIABLES is_attack,
          anomaly_score,
          fp_count,
          active_rules,
          fp_history,        \* the last decisions that were judged
          step_count

env == <<is_attack, anomaly_score, fp_count, active_rules, fp_history, step_count>>

Scores == 0 .. 20
ANOMALY_SCORE_THRESHOLD == 17          \* 0.85

AgentActions == {"ALLOW", "DROP_IP", "RATE_LIMIT_IP", "REMOVE_RULE"}

Confirmed == is_attack /\ anomaly_score > ANOMALY_SCORE_THRESHOLD

\* Mutation: a rule is not removed while none is active.
RulesAfterUnchecked(action) ==
    CASE action = "DROP_IP"       -> active_rules + 1
      [] action = "RATE_LIMIT_IP" -> IF is_attack THEN active_rules + 1 ELSE active_rules
      [] action = "REMOVE_RULE"   -> active_rules - 1
      [] action = "ALLOW"         -> active_rules

\* A limited safe flow counts as a false positive but adds no rule.
RulesAfter(action) ==
    CASE action = "DROP_IP"       -> active_rules + 1
      [] action = "RATE_LIMIT_IP" -> IF is_attack THEN active_rules + 1 ELSE active_rules
      [] action = "REMOVE_RULE"   -> IF active_rules > 0 THEN active_rules - 1 ELSE 0
      [] action = "ALLOW"         -> active_rules

\* deque(maxlen): the oldest entry makes room.
Remember(judged) ==
    LET all == Append(fp_history, judged)
    IN  IF Len(all) > FP_WINDOW THEN Tail(all) ELSE all

FalsePositives == {i \in DOMAIN fp_history : fp_history[i]}

\* _evolve_state: the score follows the traffic, which may change its nature.
Drift  == IF is_attack' THEN -2 .. 4 ELSE -4 .. 1
Clip(s) == IF s < 0 THEN 0 ELSE IF s > 20 THEN 20 ELSE s

EvolveState ==
    /\ is_attack' \in BOOLEAN
    /\ \E d \in Drift : anomaly_score' = Clip(anomaly_score + d)

Step(action) ==
    /\ step_count < EPISODE_STEPS
    /\ step_count' = step_count + 1
    /\ active_rules' = RulesAfter(action)
    /\ fp_count' = IF action = "DROP_IP" /\ ~is_attack THEN fp_count + 1 ELSE fp_count
    /\ fp_history' = IF action \in {"DROP_IP", "RATE_LIMIT_IP"} /\ ~is_attack THEN Remember(TRUE)
                     ELSE IF action = "ALLOW" /\ ~Confirmed THEN Remember(FALSE)
                     ELSE fp_history
    /\ EvolveState

\* The constructor: nothing has been reset yet.
EnvInit ==
    /\ is_attack = FALSE
    /\ anomaly_score = 0
    /\ fp_count = 0
    /\ active_rules = 0
    /\ fp_history = <<>>
    /\ step_count = 0

\* reset: the judged decisions survive it, and fp_count starts from them.
Reset ==
    /\ is_attack' \in BOOLEAN
    /\ anomaly_score' \in IF is_attack' THEN 14 .. 20 ELSE 0 .. 10
    /\ fp_count' = Cardinality(FalsePositives)
    /\ active_rules' \in 0 .. INITIAL_RULES - 1
    /\ step_count' = 0
    /\ UNCHANGED fp_history
-----------------------------------------------------------------------------
(* Properties                                                              *)

EnvTypeOK ==
    /\ is_attack \in BOOLEAN
    /\ anomaly_score \in Scores
    /\ fp_count \in 0 .. FP_WINDOW + EPISODE_STEPS
    /\ active_rules \in 0 .. INITIAL_RULES + EPISODE_STEPS
    /\ fp_history \in Seq(BOOLEAN) /\ Len(fp_history) <= FP_WINDOW
    /\ step_count \in 0 .. EPISODE_STEPS
=============================================================================
