------------------------------- MODULE Models -------------------------------
(***************************************************************************)
(* The life of the models in main.py: _initialize_models loads or trains   *)
(* the classifier and then the PPO agent, which is trained in FirewallEnv; *)
(* only then do the dashboard's thread and the classifier loop start.      *)
(***************************************************************************)
EXTENDS Classifier, FirewallEnv

CONSTANT TIMESTEPS     \* of the agent's training (50 000)

ASSUME TimestepsAssumption == TIMESTEPS \in Nat \ {0}

VARIABLES agent,       \* where _initialize_models is with the agent
          timesteps,   \* steps of its training so far
          agentFile    \* RL_MODEL_PATH: "none", "partial" or "model"

rl   == <<agent, timesteps, agentFile>>
vars == <<clf, env, rl>>

Init ==
    /\ ClassifierInit
    /\ EnvInit
    /\ agent = "waiting"
    /\ timesteps = 0
    /\ agentFile = "none"

\* The environment of a trained agent is not used again.
Retire ==
    /\ is_attack' = FALSE
    /\ anomaly_score' = 0
    /\ fp_count' = 0
    /\ active_rules' = 0
    /\ fp_history' = <<>>
    /\ step_count' = 0

\* rl_agent.load, once the classifier is ready and the explainer was fitted
\* (which, whatever shap raises, changes nothing else).
LoadAgent ==
    /\ pc[Loop] = "loaded"
    /\ agent = "waiting"
    /\ IF agentFile = "model"
       THEN agent' = "ready" /\ UNCHANGED env
       ELSE agent' = "training" /\ Reset
    /\ timesteps' = 0
    /\ UNCHANGED <<clf, agentFile>>

\* rl_agent.train
TrainAgent ==
    /\ agent = "training"
    /\ timesteps < TIMESTEPS
    /\ \/ /\ \E action \in AgentActions : Step(action)
          /\ timesteps' = timesteps + 1
       \/ /\ step_count = EPISODE_STEPS
          /\ Reset
          /\ UNCHANGED timesteps
    /\ UNCHANGED <<clf, agent, agentFile>>

\* rl_agent.save
SaveAgent ==
    /\ agent = "training"
    /\ timesteps = TIMESTEPS
    /\ agent' = "saving"
    /\ agentFile' = "partial"
    /\ timesteps' = 0
    /\ Retire
    /\ UNCHANGED clf

SaveAgentEnds ==
    /\ agent = "saving"
    /\ agent' = "ready"
    /\ agentFile' = "model"
    /\ UNCHANGED <<clf, env, timesteps>>

\* run goes on: _start_dashboard and the tasks.
StartPipeline ==
    /\ pc[Loop] = "loaded"
    /\ agent = "ready"
    /\ Goto(Loop, "running")
    /\ UNCHANGED <<learned, env, rl>>

Crash ==
    /\ CrashClassifier
    /\ agent' = "waiting"
    /\ timesteps' = 0
    /\ Retire
    /\ UNCHANGED agentFile

\* The loop's part of the start-up.
StartUp ==
    \/ /\ LoadModel \/ LoadScaler \/ Train(Loop) \/ TuneMode \/ TuneEpoch \/ TuneEnds
       /\ UNCHANGED <<env, rl>>
    \/ LoadAgent \/ TrainAgent \/ SaveAgent \/ SaveAgentEnds
    \/ StartPipeline

Next ==
    \/ StartUp
    \/ Predict /\ UNCHANGED <<env, rl>>
    \/ \E t \in Retrainers :
          /\ \/ ~StartingUp /\ StartRetraining(t)
             \/ Train(t)
             \/ RetrainingFails(t)
          /\ UNCHANGED <<env, rl>>
    \/ Crash

Spec == Init /\ [][Next]_vars

\* Training ends: the loops over epochs and time steps are bounded, and the
\* main thread is alone until the pipeline starts.
FairSpec == Spec /\ WF_vars(StartUp)
-----------------------------------------------------------------------------
(* Properties                                                              *)

TypeOK ==
    /\ ClassifierTypeOK
    /\ EnvTypeOK
    /\ agent \in {"waiting", "training", "saving", "ready"}
    /\ timesteps \in 0 .. TIMESTEPS
    /\ agentFile \in {"none", "partial", "model"}

\* Whatever a crash has left on disk, also half a file of either kind, the next
\* start brings the pipeline up: a file that cannot be read means training anew.
StartsUp == StartingUp ~> ~StartingUp
=============================================================================
