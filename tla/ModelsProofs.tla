---------------------------- MODULE ModelsProofs ----------------------------
(***************************************************************************)
(* Proofs about Models: its types, FirewallEnv's rule counter among them,  *)
(* and the classifier that is ready whenever no training is under way.     *)
(***************************************************************************)
EXTENDS Models, FiniteSetTheorems, TLAPS

-----------------------------------------------------------------------------
(* FirewallEnv: an episode adds at most one rule per step.                 *)

EnvInv ==
    /\ is_attack \in BOOLEAN
    /\ active_rules \in Nat
    /\ step_count \in 0 .. EPISODE_STEPS
    /\ active_rules < INITIAL_RULES + step_count \/ active_rules = 0

\* A step adds one rule at most.
LEMMA RulesAfterBound ==
    ASSUME active_rules \in Nat, is_attack \in BOOLEAN, NEW a \in AgentActions
    PROVE  RulesAfter(a) \in Nat /\ RulesAfter(a) <= active_rules + 1
BY DEF RulesAfter, AgentActions

LEMMA StepKeepsEnv ==
    ASSUME EnvInv, NEW a \in AgentActions, Step(a)
    PROVE  EnvInv'
<1>1. RulesAfter(a) \in Nat /\ RulesAfter(a) <= active_rules + 1
  BY RulesAfterBound DEF EnvInv
<1>2. is_attack' \in BOOLEAN /\ active_rules' = RulesAfter(a) /\ step_count' = step_count + 1
  BY DEF Step, EvolveState
<1>3. step_count' \in 0 .. EPISODE_STEPS
  BY <1>2, EnvAssumption DEF Step, EnvInv
<1> QED
  BY <1>1, <1>2, <1>3, EnvAssumption DEF EnvInv

LEMMA ResetKeepsEnv == Reset => EnvInv'
BY EnvAssumption DEF Reset, EnvInv

LEMMA ZeroSteps == 0 \in 0 .. EPISODE_STEPS
BY EnvAssumption

LEMMA ZeroRules == 0 \in Nat
OBVIOUS

LEMMA RetireKeepsEnv == Retire => EnvInv'
BY ZeroSteps, ZeroRules, Zenon DEF Retire, EnvInv

-----------------------------------------------------------------------------
(* Classifier: who is to blame when the scaler is not fitted or the network *)
(* not in evaluation mode.                                                  *)

RetrainLabels == {"idle", "fit", "fitted", "transform", "train", "epoch", "measure",
                  "calibrate", "save", "save_model", "save_scaler", "saving_scaler"}

Places ==
    /\ pc \in [Threads -> Labels]
    /\ \A t \in Retrainers : pc[t] \in RetrainLabels
    /\ crashes \in Nat
    /\ failures \in Nat
    /\ overlapped \in BOOLEAN

\* The dashboard, which starts retrainings, is there when the loop runs.
Alone == StartingUp => \A t \in Retrainers : pc[t] = "idle"

OneAtATime ==
    ~overlapped =>
        \A t, u \in Retrainers : pc[t] # "idle" /\ pc[u] # "idle" => t = u

\* The exceptions of ReadyWhenQuiet.
Spared == failures = 0 /\ (crashes = 0 \/ ~overlapped)

\* A scaler that is not fitted is about to be.
ScalerComes ==
    Spared => \/ scaler = "fitted"
              \/ \E t \in Threads : pc[t] = "fitted"
              \/ pc[Loop] \in {"load_model", "load_scaler", "fit"}

\* A network in training mode is in training, or will be, or will be loaded.
EvalComes ==
    Spared => \/ mode = "eval"
              \/ \E t \in Threads : pc[t] = "epoch"
              \/ pc[Loop] \in {"load_model", "fit", "fitted", "transform", "train", "tune_epoch"}

\* What is loaded was fitted.
FileSound ==
    /\ ~overlapped /\ failures = 0 => scalerFile \in {"none", "partial", "fitted"}
    /\ crashes = 0 /\ pc[Loop] = "load_model" => modelFile = NoFile
    /\ pc[Loop] = "load_scaler" => crashes > 0

ReadyInv == Places /\ Alone /\ OneAtATime /\ ScalerComes /\ EvalComes /\ FileSound

LEMMA ReadyInvReady == ReadyInv => ReadyWhenQuiet
BY DEF ReadyInv, Places, Alone, ScalerComes, EvalComes, Spared, ReadyWhenQuiet, Quiet,
       StartingUp, Threads

\* What ClassifierInit and CrashClassifier make of the program counters.
AllStart == [t \in Threads |-> IF t = Loop THEN "load_model" ELSE "idle"]

LEMMA StartPlaces ==
    /\ AllStart \in [Threads -> Labels]
    /\ AllStart[Loop] = "load_model"
    /\ \A t \in Retrainers : AllStart[t] = "idle"
BY LoopAssumption DEF AllStart, Threads, Labels

LEMMA InitReady == ClassifierInit => ReadyInv
<1> SUFFICES ASSUME ClassifierInit PROVE ReadyInv
  OBVIOUS
<1>1. pc = AllStart /\ crashes = 0 /\ failures = 0 /\ modelFile = NoFile /\ scalerFile = "none"
  BY DEF ClassifierInit, AllStart
<1>2. overlapped \in BOOLEAN
  BY Zenon DEF ClassifierInit
<1>3. Places
  BY <1>1, <1>2, StartPlaces DEF Places, RetrainLabels
<1>4. Alone /\ OneAtATime
  BY <1>1, StartPlaces DEF Alone, OneAtATime
<1>5. ScalerComes /\ EvalComes /\ FileSound
  BY <1>1, StartPlaces DEF ScalerComes, EvalComes, FileSound
<1> QED
  BY <1>3, <1>4, <1>5 DEF ReadyInv

LEMMA TrainKeepsReady ==
    ASSUME ReadyInv, NEW t \in Threads, Train(t)
    PROVE  ReadyInv'
<1> USE LoopAssumption DEF ReadyInv, Places, Alone, OneAtATime, ScalerComes, EvalComes, FileSound,
        Spared, StartingUp, Threads, Labels, RetrainLabels, Goto, network, files, bounds
<1>1. CASE FitScaler(t)
  BY <1>1 DEF FitScaler
<1>2. CASE FitScalerEnds(t)
  BY <1>2 DEF FitScalerEnds
<1>3. CASE Transform(t)
  BY <1>3 DEF Transform, learned
<1>4. CASE TrainMode(t)
  BY <1>4 DEF TrainMode
<1>5. CASE Epoch(t)
  BY <1>5 DEF Epoch
<1>6. CASE EvalMode(t)
  BY <1>6 DEF EvalMode
<1>7. CASE MeasureErrors(t)
  BY <1>7 DEF MeasureErrors
<1>8. CASE CalibrateThreshold(t)
  BY <1>8 DEF CalibrateThreshold
<1>9. CASE SaveModel(t)
  BY <1>9 DEF SaveModel
<1>10. CASE SaveModelEnds(t)
  BY <1>10 DEF SaveModelEnds
<1>11. CASE SaveScaler(t)
  BY <1>11 DEF SaveScaler
<1>12. CASE SaveScalerEnds(t)
  BY <1>12 DEF SaveScalerEnds
<1> QED
  BY <1>1, <1>2, <1>3, <1>4, <1>5, <1>6, <1>7, <1>8, <1>9, <1>10, <1>11, <1>12 DEF Train

LEMMA LoopKeepsReady ==
    ASSUME ReadyInv, LoadModel \/ LoadScaler \/ TuneMode \/ TuneEpoch \/ TuneEnds \/ Predict
    PROVE  ReadyInv'
<1> USE LoopAssumption DEF ReadyInv, Places, Alone, OneAtATime, ScalerComes, EvalComes, FileSound,
        Spared, StartingUp, Threads, Labels, RetrainLabels, Goto, network, files, bounds, learned
<1>1. CASE LoadModel
  BY <1>1 DEF LoadModel, AfterLoad, NoFile
<1>2. CASE LoadScaler
  BY <1>2 DEF LoadScaler
<1>3. CASE TuneMode
  BY <1>3 DEF TuneMode
<1>4. CASE TuneEpoch
  BY <1>4 DEF TuneEpoch
<1>5. CASE TuneEnds
  BY <1>5 DEF TuneEnds
<1>6. CASE Predict
  <2>1. CASE PredictTransform
    BY <2>1 DEF PredictTransform
  <2>2. CASE PredictEval
    BY <2>2 DEF PredictEval
  <2>3. CASE PredictForward
    BY <2>3 DEF PredictForward
  <2>4. CASE PredictReturns
    BY <2>4 DEF PredictReturns
  <2> QED
    BY <1>6, <2>1, <2>2, <2>3, <2>4 DEF Predict
<1> QED
  BY <1>1, <1>2, <1>3, <1>4, <1>5, <1>6

LEMMA RetrainersKeepReady ==
    ASSUME ReadyInv, NEW t \in Retrainers, (~StartingUp /\ StartRetraining(t)) \/ RetrainingFails(t)
    PROVE  ReadyInv'
<1> USE LoopAssumption DEF ReadyInv, Places, Alone, OneAtATime, ScalerComes, EvalComes, FileSound,
        Spared, StartingUp, Threads, Labels, RetrainLabels, Goto, network, files
<1>1. CASE ~StartingUp /\ StartRetraining(t)
  BY <1>1 DEF StartRetraining, Training
<1>2. CASE RetrainingFails(t)
  BY <1>2 DEF RetrainingFails
<1> QED
  BY <1>1, <1>2

LEMMA CrashKeepsReady == ReadyInv /\ CrashClassifier => ReadyInv'
<1> SUFFICES ASSUME ReadyInv, CrashClassifier PROVE ReadyInv'
  OBVIOUS
<1>1. /\ pc' = AllStart /\ crashes' = crashes + 1
      /\ UNCHANGED <<files, failures, overlapped>>
  BY DEF CrashClassifier, AllStart
<1>2. Places'
  BY <1>1, StartPlaces DEF ReadyInv, Places, RetrainLabels
<1>3. Alone' /\ OneAtATime'
  BY <1>1, StartPlaces DEF Alone, OneAtATime
<1>4. ScalerComes' /\ EvalComes'
  BY <1>1, StartPlaces DEF ScalerComes, EvalComes
<1>5. FileSound'
  BY <1>1, StartPlaces DEF ReadyInv, Places, FileSound, files
<1> QED
  BY <1>2, <1>3, <1>4, <1>5 DEF ReadyInv

LEMMA StartKeepsReady == ReadyInv /\ StartPipeline => ReadyInv'
BY LoopAssumption DEF StartPipeline, Goto, learned, network, files, bounds, ReadyInv,
   Places, Alone, OneAtATime, ScalerComes, EvalComes, FileSound, Spared, StartingUp,
   Threads, Labels

\* Whenever no training is under way, the scaler is fitted and the network in
\* evaluation mode, for any number of retraining threads that overlap with each
\* other and with predict, and for any number of restarts.
THEOREM ReadySound == Spec => []ReadyWhenQuiet
<1>1. Init => ReadyInv
  BY InitReady DEF Init
<1>2. ReadyInv /\ [Next]_vars => ReadyInv'
  <2> SUFFICES ASSUME ReadyInv, [Next]_vars PROVE ReadyInv'
    OBVIOUS
  <2>1. CASE UNCHANGED clf
    BY <2>1 DEF clf, learned, network, files, bounds, ReadyInv, Places, Alone, OneAtATime,
                ScalerComes, EvalComes, FileSound, Spared, StartingUp
  <2>2. CASE LoadModel \/ LoadScaler \/ Train(Loop) \/ TuneMode \/ TuneEpoch \/ TuneEnds
    BY <2>2, LoopKeepsReady, TrainKeepsReady DEF Threads
  <2>3. CASE LoadAgent \/ TrainAgent \/ SaveAgent \/ SaveAgentEnds
    BY <2>1, <2>3 DEF LoadAgent, TrainAgent, SaveAgent, SaveAgentEnds
  <2>4. CASE StartPipeline
    BY <2>4, StartKeepsReady
  <2>5. CASE Predict
    BY <2>5, LoopKeepsReady
  <2>6. ASSUME NEW t \in Retrainers,
               \/ ~StartingUp /\ StartRetraining(t)
               \/ Train(t)
               \/ RetrainingFails(t)
        PROVE  ReadyInv'
    BY <2>6, RetrainersKeepReady, TrainKeepsReady DEF Threads
  <2>7. CASE Crash
    BY <2>7, CrashKeepsReady DEF Crash
  <2>8. CASE UNCHANGED vars
    BY <2>1, <2>8 DEF vars
  <2> QED
    BY <2>2, <2>3, <2>4, <2>5, <2>6, <2>7, <2>8 DEF Next, StartUp
<1> QED
  BY <1>1, <1>2, ReadyInvReady, PTL DEF Spec

-----------------------------------------------------------------------------
(* Classifier: what a training that is alone has reached so far.            *)

Sole == failures = 0 /\ ~overlapped

Network == [weights : Nat, stats : Nat]

Measures ==
    /\ weights \in Nat
    /\ stats \in Nat
    /\ version \in Nat
    /\ errors \in [Threads -> Network]
    /\ modelFile.kind = "model" => modelFile.weights \in Nat /\ modelFile.stats \in Nat

\* A model that can be loaded has the threshold that was measured on it.
WholeModel ==
    modelFile.kind = "model" =>
        /\ modelFile = [kind |-> "model", weights |-> modelFile.weights,
                        stats |-> modelFile.stats, threshold |-> modelFile.threshold]
        /\ modelFile.threshold.weights = modelFile.weights

Calibrated == threshold.weights = weights

Reached ==
    /\ \A t \in Threads : pc[t] = "calibrate" => errors[t].weights = weights
    /\ \A t \in Threads :
          pc[t] \in {"tune", "tune_epoch", "save", "save_model", "save_scaler", "saving_scaler"}
              => Calibrated
    /\ \A t \in Threads : pc[t] \in {"save_scaler", "saving_scaler"} => modelFile = SavedModel

Settled == Calibrated /\ modelFile = SavedModel /\ scalerFile = "fitted"

Kept ==
    /\ pc[Loop] = "load_scaler" => Calibrated /\ modelFile = SavedModel
    /\ pc[Loop] = "loaded" \/ Quiet => Settled

SettledInv == ReadyInv /\ Measures /\ (Sole => WholeModel /\ Reached /\ Kept)

LEMMA TrainKeepsSettled ==
    ASSUME SettledInv, NEW t \in Threads, Train(t)
    PROVE  SettledInv'
<1>0. ReadyInv'
  BY TrainKeepsReady DEF SettledInv
<1> USE LoopAssumption, <1>0
    DEF SettledInv, ReadyInv, Places, Alone, OneAtATime, ScalerComes, FileSound, Spared,
        StartingUp, Quiet, Threads, Labels, RetrainLabels, Sole, Network, Measures, Calibrated,
        Reached, Settled, Kept, Goto, network, files, bounds
<1>1. CASE FitScaler(t)
  BY <1>1 DEF FitScaler, WholeModel, SavedModel
<1>2. CASE FitScalerEnds(t)
  BY <1>2 DEF FitScalerEnds, WholeModel, SavedModel
<1>3. CASE Transform(t)
  BY <1>3 DEF Transform, learned, WholeModel, SavedModel
<1>4. CASE TrainMode(t)
  BY <1>4 DEF TrainMode, WholeModel, SavedModel
<1>5. CASE Epoch(t)
  BY <1>5 DEF Epoch, WholeModel, SavedModel
<1>6. CASE EvalMode(t)
  BY <1>6 DEF EvalMode, WholeModel, SavedModel
<1>7. CASE MeasureErrors(t)
  BY <1>7 DEF MeasureErrors, Measured, WholeModel, SavedModel
<1>8. CASE CalibrateThreshold(t)
  BY <1>8 DEF CalibrateThreshold, WholeModel, SavedModel
<1>9. CASE SaveModel(t)
  BY <1>9 DEF SaveModel, Partial, WholeModel, SavedModel
<1>10. CASE SaveModelEnds(t)
  <2>1. CASE modelFile' = SavedModel
    BY <1>10, <2>1 DEF SaveModelEnds, WholeModel, SavedModel
  <2>2. CASE modelFile' = Partial /\ \E u \in Threads \ {t} : pc[u] = "save_model"
    <3>1. ~Sole' /\ Measures'
      BY <1>10, <2>2 DEF SaveModelEnds, Partial
    <3> QED
      BY <3>1
  <2> QED
    BY <1>10, <2>1, <2>2 DEF SaveModelEnds
<1>11. CASE SaveScaler(t)
  BY <1>11 DEF SaveScaler, WholeModel, SavedModel
<1>12. CASE SaveScalerEnds(t)
  BY <1>12 DEF SaveScalerEnds, WholeModel, SavedModel
<1> QED
  BY <1>1, <1>2, <1>3, <1>4, <1>5, <1>6, <1>7, <1>8, <1>9, <1>10, <1>11, <1>12 DEF Train

LEMMA SettledInvSettled == SettledInv => ModelSettled
BY DEF SettledInv, Kept, Settled, Calibrated, Sole, ModelSettled

LEMMA NothingMeasured == Untuned \in Network /\ [t \in Threads |-> Untuned] \in [Threads -> Network]
BY DEF Untuned, Network

LEMMA InitSettled == ClassifierInit => SettledInv
<1> SUFFICES ASSUME ClassifierInit PROVE SettledInv
  OBVIOUS
<1>1. /\ pc = AllStart /\ modelFile = NoFile /\ weights = 0 /\ stats = 0 /\ version = 0
      /\ errors = [t \in Threads |-> Untuned]
  BY DEF ClassifierInit, AllStart
<1>2. ReadyInv
  BY InitReady
<1>3. Measures
  BY <1>1, NothingMeasured DEF Measures, NoFile
<1>4. WholeModel
  BY <1>1 DEF WholeModel, NoFile
<1>5. Reached /\ Kept
  BY <1>1, StartPlaces DEF Reached, Kept, Quiet, StartingUp, Threads
<1> QED
  BY <1>2, <1>3, <1>4, <1>5 DEF SettledInv

LEMMA LoopKeepsSettled ==
    ASSUME SettledInv, LoadModel \/ LoadScaler \/ TuneMode \/ TuneEpoch \/ TuneEnds \/ Predict
    PROVE  SettledInv'
<1>0. ReadyInv'
  BY LoopKeepsReady DEF SettledInv
<1> USE LoopAssumption, <1>0
    DEF SettledInv, ReadyInv, Places, Alone, FileSound, StartingUp, Quiet, Threads, Labels,
        RetrainLabels, Sole, Network, Measures, Calibrated, Reached, Settled, Kept, Goto, network,
        files, bounds, learned, WholeModel, SavedModel
<1>1. CASE LoadModel
  BY <1>1 DEF LoadModel, AfterLoad
<1>2. CASE LoadScaler
  BY <1>2 DEF LoadScaler
<1>3. CASE TuneMode
  BY <1>3 DEF TuneMode
<1>4. CASE TuneEpoch
  BY <1>4 DEF TuneEpoch
<1>5. CASE TuneEnds
  BY <1>5 DEF TuneEnds
<1>6. CASE Predict
  <2>1. CASE PredictTransform
    BY <2>1 DEF PredictTransform
  <2>2. CASE PredictEval
    BY <2>2 DEF PredictEval
  <2>3. CASE PredictForward
    BY <2>3 DEF PredictForward
  <2>4. CASE PredictReturns
    BY <2>4 DEF PredictReturns
  <2> QED
    BY <1>6, <2>1, <2>2, <2>3, <2>4 DEF Predict
<1> QED
  BY <1>1, <1>2, <1>3, <1>4, <1>5, <1>6

LEMMA RetrainersKeepSettled ==
    ASSUME SettledInv, NEW t \in Retrainers, (~StartingUp /\ StartRetraining(t)) \/ RetrainingFails(t)
    PROVE  SettledInv'
<1>0. ReadyInv'
  BY RetrainersKeepReady DEF SettledInv
<1> USE LoopAssumption, <1>0
    DEF SettledInv, ReadyInv, Places, Alone, StartingUp, Quiet, Threads, Labels, RetrainLabels,
        Sole, Network, Measures, Calibrated, Reached, Settled, Kept, Goto, network, files,
        WholeModel, SavedModel
<1>1. CASE ~StartingUp /\ StartRetraining(t)
  BY <1>1 DEF StartRetraining, Training
<1>2. CASE RetrainingFails(t)
  BY <1>2, BoundsAssumption DEF RetrainingFails
<1> QED
  BY <1>1, <1>2

LEMMA CrashKeepsSettled == SettledInv /\ CrashClassifier => SettledInv'
<1> SUFFICES ASSUME SettledInv, CrashClassifier PROVE SettledInv'
  OBVIOUS
<1>1. /\ pc' = AllStart /\ weights' = 0 /\ stats' = 0
      /\ errors' = [t \in Threads |-> Untuned]
      /\ UNCHANGED <<files, version, failures, overlapped>>
  BY DEF CrashClassifier, AllStart
<1>2. ReadyInv'
  BY CrashKeepsReady DEF SettledInv
<1>3. Measures'
  BY <1>1, NothingMeasured DEF SettledInv, Measures, files
<1>4. Sole' => WholeModel'
  BY <1>1 DEF SettledInv, Sole, WholeModel, files
<1>5. Reached' /\ Kept'
  BY <1>1, StartPlaces DEF Reached, Kept, Quiet, StartingUp, Threads
<1> QED
  BY <1>2, <1>3, <1>4, <1>5 DEF SettledInv

LEMMA StartKeepsSettled == SettledInv /\ StartPipeline => SettledInv'
BY StartKeepsReady, LoopAssumption DEF StartPipeline, Goto, learned, network, files, bounds,
   SettledInv, ReadyInv, Places, Alone, Quiet, StartingUp, Threads, Labels, Sole, Network,
   Measures, Calibrated, Reached, Settled, Kept, WholeModel, SavedModel

LEMMA ElsewhereKeepsSettled == SettledInv /\ UNCHANGED clf => SettledInv'
BY DEF clf, learned, network, files, bounds, SettledInv, ReadyInv, Places, Alone, OneAtATime,
       ScalerComes, EvalComes, FileSound, Spared, StartingUp, Quiet, Sole, Measures, Calibrated,
       Reached, Settled, Kept, WholeModel, SavedModel

\* As long as retrainings neither overlap nor fail: whenever none is under way,
\* the threshold belongs to the weights in use and the files hold this model,
\* for any number of epochs and of crashes, also in the middle of a save.
THEOREM SettledSound == Spec => []ModelSettled
<1>1. Init => SettledInv
  BY InitSettled DEF Init
<1>2. SettledInv /\ [Next]_vars => SettledInv'
  <2> SUFFICES ASSUME SettledInv, [Next]_vars PROVE SettledInv'
    OBVIOUS
  <2>1. CASE LoadModel \/ LoadScaler \/ Train(Loop) \/ TuneMode \/ TuneEpoch \/ TuneEnds
    BY <2>1, LoopKeepsSettled, TrainKeepsSettled DEF Threads
  <2>2. CASE LoadAgent \/ TrainAgent \/ SaveAgent \/ SaveAgentEnds
    BY <2>2, ElsewhereKeepsSettled DEF LoadAgent, TrainAgent, SaveAgent, SaveAgentEnds
  <2>3. CASE StartPipeline
    BY <2>3, StartKeepsSettled
  <2>4. CASE Predict
    BY <2>4, LoopKeepsSettled
  <2>5. ASSUME NEW t \in Retrainers,
               \/ ~StartingUp /\ StartRetraining(t)
               \/ Train(t)
               \/ RetrainingFails(t)
        PROVE  SettledInv'
    BY <2>5, RetrainersKeepSettled, TrainKeepsSettled DEF Threads
  <2>6. CASE Crash
    BY <2>6, CrashKeepsSettled DEF Crash
  <2>7. CASE UNCHANGED vars
    BY <2>7, ElsewhereKeepsSettled DEF vars
  <2> QED
    BY <2>1, <2>2, <2>3, <2>4, <2>5, <2>6, <2>7 DEF Next, StartUp
<1> QED
  BY <1>1, <1>2, SettledInvSettled, PTL DEF Spec


-----------------------------------------------------------------------------
(* Types.  The bounds of the environment's counters need what an episode   *)
(* starts from; the versions of the network on disk survive a crash, as    *)
(* does the last version given.                                            *)

EnvTyped ==
    /\ EnvInv
    /\ anomaly_score \in Scores
    /\ fp_count \in Nat /\ fp_count <= FP_WINDOW + step_count
    /\ fp_history \in Seq(BOOLEAN) /\ Len(fp_history) <= FP_WINDOW

LEMMA EnvTypedTypes == EnvTyped => EnvTypeOK
BY EnvAssumption DEF EnvTyped, EnvInv, EnvTypeOK

\* The window never grows beyond its size, not even when that is 0.
LEMMA RememberTypes ==
    ASSUME fp_history \in Seq(BOOLEAN), Len(fp_history) <= FP_WINDOW, NEW judged \in BOOLEAN
    PROVE  Remember(judged) \in Seq(BOOLEAN) /\ Len(Remember(judged)) <= FP_WINDOW
<1> DEFINE all == Append(fp_history, judged)
<1>1. all \in Seq(BOOLEAN) /\ Len(all) = Len(fp_history) + 1 /\ all # <<>>
  OBVIOUS
<1>2. Tail(all) \in Seq(BOOLEAN) /\ Len(Tail(all)) = Len(fp_history)
  BY <1>1
<1>3. Remember(judged) = IF Len(all) > FP_WINDOW THEN Tail(all) ELSE all
  BY DEF Remember
<1> HIDE DEF all
<1>4. CASE Len(all) > FP_WINDOW
  BY <1>2, <1>3, <1>4
<1>5. CASE ~(Len(all) > FP_WINDOW)
  <2>1. Len(all) \in Nat
    BY <1>1
  <2> QED
    BY <1>1, <1>3, <1>5, <2>1, EnvAssumption
<1> QED
  BY <1>4, <1>5

\* A new episode counts no more false positives than the window holds.
LEMMA WindowCount ==
    ASSUME fp_history \in Seq(BOOLEAN), Len(fp_history) <= FP_WINDOW
    PROVE  Cardinality(FalsePositives) \in Nat /\ Cardinality(FalsePositives) <= FP_WINDOW
<1>1. /\ IsFiniteSet(1 .. Len(fp_history))
      /\ Cardinality(1 .. Len(fp_history)) = Len(fp_history)
  BY FS_Interval
<1>2. FalsePositives \subseteq 1 .. Len(fp_history)
  BY DEF FalsePositives
<1>3. /\ IsFiniteSet(FalsePositives)
      /\ Cardinality(FalsePositives) <= Cardinality(1 .. Len(fp_history))
  BY <1>1, <1>2, FS_Subset
<1>4. Cardinality(FalsePositives) \in Nat
  BY <1>3, FS_CardinalityType
<1> QED
  BY <1>1, <1>3, <1>4, EnvAssumption

LEMMA StepKeepsEnvTypes ==
    ASSUME EnvTyped, NEW a \in AgentActions, Step(a)
    PROVE  EnvTyped'
<1>1. EnvInv'
  BY StepKeepsEnv DEF EnvTyped
<1>2. anomaly_score' \in Scores
  <2>1. PICK d \in Int : anomaly_score' = Clip(anomaly_score + d)
    BY DEF Step, EvolveState, Drift
  <2> QED
    BY <2>1 DEF EnvTyped, Clip, Scores
<1>3. fp_count' \in Nat /\ fp_count' <= FP_WINDOW + step_count'
  BY EnvAssumption DEF Step, EnvTyped, EnvInv
<1>4. fp_history' \in Seq(BOOLEAN) /\ Len(fp_history') <= FP_WINDOW
  <2>1. fp_history' \in {fp_history, Remember(TRUE), Remember(FALSE)}
    BY DEF Step
  <2> QED
    BY <2>1, RememberTypes DEF EnvTyped
<1> QED
  BY <1>1, <1>2, <1>3, <1>4 DEF EnvTyped

LEMMA ResetKeepsEnvTypes == EnvTyped /\ Reset => EnvTyped'
<1> SUFFICES ASSUME EnvTyped, Reset PROVE EnvTyped'
  OBVIOUS
<1>1. EnvInv'
  BY ResetKeepsEnv
<1>2. anomaly_score' \in Scores /\ fp_history' = fp_history /\ step_count' = 0
  BY DEF Reset, Scores
<1>3. fp_count' \in Nat /\ fp_count' <= FP_WINDOW
  BY WindowCount DEF Reset, EnvTyped
<1> QED
  BY <1>1, <1>2, <1>3, EnvAssumption DEF EnvTyped

LEMMA RetireKeepsEnvTypes == Retire => EnvTyped'
<1> SUFFICES ASSUME Retire PROVE EnvTyped'
  OBVIOUS
<1>1. EnvInv'
  BY RetireKeepsEnv
<1>2. anomaly_score' = 0 /\ fp_count' = 0 /\ step_count' = 0 /\ fp_history' = <<>>
  BY Zenon DEF Retire
<1> QED
  BY <1>1, <1>2, EnvAssumption DEF EnvTyped, Scores

LEMMA AgentKeepsEnvTypes ==
    ASSUME EnvTyped, LoadAgent \/ TrainAgent \/ SaveAgent \/ SaveAgentEnds \/ Crash \/ UNCHANGED env
    PROVE  EnvTyped'
<1>1. CASE UNCHANGED env
  BY <1>1 DEF env, EnvTyped, EnvInv
<1>2. CASE LoadAgent
  BY <1>1, <1>2, ResetKeepsEnvTypes DEF LoadAgent
<1>3. CASE TrainAgent
  BY <1>3, StepKeepsEnvTypes, ResetKeepsEnvTypes DEF TrainAgent
<1>4. CASE SaveAgent \/ Crash
  BY <1>4, RetireKeepsEnvTypes DEF SaveAgent, Crash
<1>5. CASE SaveAgentEnds
  BY <1>1, <1>5 DEF SaveAgentEnds
<1> QED
  BY <1>1, <1>2, <1>3, <1>4, <1>5

AgentTyped ==
    /\ agent \in {"waiting", "training", "saving", "ready"}
    /\ timesteps \in 0 .. TIMESTEPS
    /\ agentFile \in {"none", "partial", "model"}

LEMMA NextKeepsAgent == AgentTyped /\ [Next]_vars => AgentTyped'
BY TimestepsAssumption
DEF AgentTyped, Next, StartUp, LoadAgent, TrainAgent, SaveAgent, SaveAgentEnds, StartPipeline,
    Crash, rl, vars

-----------------------------------------------------------------------------

\* What was a version of the network, or a file that holds one, still is after
\* a step of an optimizer.
LEMMA NewVersionTypes ==
    ASSUME ClassifierTypeOK, version' = version + 1
    PROVE  /\ version' \in Nat
           /\ Versions \subseteq Versions' /\ version + 1 \in Versions'
           /\ Networks \subseteq Networks'
           /\ ModelFile \subseteq ModelFile'
BY DEF ClassifierTypeOK, Versions, Networks, ModelFile

\* Threads only ever measure the network as it is, and a new version is the
\* latest: a thread's step keeps whatever was saved or measured before.
LEMMA TrainKeepsTypes ==
    ASSUME ClassifierTypeOK, NEW t \in Threads, Train(t)
    PROVE  ClassifierTypeOK'
<1> USE EpochsAssumption, BoundsAssumption
    DEF ClassifierTypeOK, Versions, Networks, ModelFile, Labels, Goto, network, files, bounds,
        learned
<1>1. CASE FitScaler(t)
  BY <1>1 DEF FitScaler
<1>2. CASE FitScalerEnds(t)
  BY <1>2 DEF FitScalerEnds
<1>3. CASE Transform(t)
  BY <1>3 DEF Transform
<1>4. CASE TrainMode(t)
  BY <1>4 DEF TrainMode
<1>5. CASE Epoch(t)
  BY <1>5, NewVersionTypes DEF Epoch
<1>6. CASE EvalMode(t)
  BY <1>6 DEF EvalMode
<1>7. CASE MeasureErrors(t)
  BY <1>7 DEF MeasureErrors, Measured
<1>8. CASE CalibrateThreshold(t)
  BY <1>8 DEF CalibrateThreshold
<1>9. CASE SaveModel(t)
  BY <1>9 DEF SaveModel
<1>10. CASE SaveModelEnds(t)
  BY <1>10 DEF SaveModelEnds, SavedModel
<1>11. CASE SaveScaler(t)
  BY <1>11 DEF SaveScaler
<1>12. CASE SaveScalerEnds(t)
  BY <1>12 DEF SaveScalerEnds
<1> QED
  BY <1>1, <1>2, <1>3, <1>4, <1>5, <1>6, <1>7, <1>8, <1>9, <1>10, <1>11, <1>12 DEF Train

LEMMA LoopKeepsTypes ==
    ASSUME ClassifierTypeOK, LoadModel \/ LoadScaler \/ TuneMode \/ TuneEpoch \/ TuneEnds \/ Predict
    PROVE  ClassifierTypeOK'
<1> USE EpochsAssumption, BoundsAssumption
    DEF ClassifierTypeOK, Versions, Networks, ModelFile, Labels, Threads, Goto, network, files,
        bounds, learned
<1>1. CASE LoadModel
  BY <1>1 DEF LoadModel, AfterLoad, NoFile, Partial
<1>2. CASE LoadScaler
  BY <1>2 DEF LoadScaler
<1>3. CASE TuneMode
  BY <1>3 DEF TuneMode
<1>4. CASE TuneEpoch
  BY <1>4, NewVersionTypes DEF TuneEpoch
<1>5. CASE TuneEnds
  BY <1>5 DEF TuneEnds
<1>6. CASE Predict
  BY <1>6 DEF Predict, PredictTransform, PredictEval, PredictForward, PredictReturns
<1> QED
  BY <1>1, <1>2, <1>3, <1>4, <1>5, <1>6

LEMMA OthersKeepTypes ==
    ASSUME ClassifierTypeOK,
           \/ \E t \in Retrainers : StartRetraining(t) \/ RetrainingFails(t)
           \/ CrashClassifier \/ StartPipeline \/ UNCHANGED clf
    PROVE  ClassifierTypeOK'
<1> USE BoundsAssumption
    DEF ClassifierTypeOK, Versions, Networks, ModelFile, Labels, Threads, Goto, network, files,
        bounds, learned
<1>1. ASSUME NEW t \in Retrainers, StartRetraining(t) PROVE ClassifierTypeOK'
  BY <1>1 DEF StartRetraining
<1>2. ASSUME NEW t \in Retrainers, RetrainingFails(t) PROVE ClassifierTypeOK'
  BY <1>2 DEF RetrainingFails
<1>3. CASE CrashClassifier
  <2>1. pc' = AllStart /\ UNCHANGED <<files, version, retrains, failures, overlapped>>
    BY <1>3 DEF CrashClassifier, AllStart
  <2>2. /\ weights' = 0 /\ stats' = 0 /\ mode' = "train" /\ threshold' = Untuned
        /\ scaler' = "none" /\ crashes' = crashes + 1 /\ crashes < MaxCrashes
    BY <1>3, Zenon DEF CrashClassifier
  <2>3. left' = [t \in Threads |-> 0] /\ errors' = [t \in Threads |-> Untuned]
    BY <1>3, Zenon DEF CrashClassifier
  <2>4. pc' \in [Threads -> Labels]
    BY <2>1, StartPlaces
  <2>5. Untuned \in Networks'
    BY <2>1 DEF Untuned
  <2> QED
    BY <2>1, <2>2, <2>3, <2>4, <2>5, EpochsAssumption
<1>4. CASE StartPipeline
  BY <1>4 DEF StartPipeline
<1>5. CASE UNCHANGED clf
  BY <1>5 DEF clf
<1> QED
  BY <1>1, <1>2, <1>3, <1>4, <1>5

\* The type invariant of the models: no version is newer than the last one
\* given, the epochs left and the window of judged decisions keep their bounds,
\* and an episode's count of false positives, which starts from the window,
\* exceeds it by the steps of the episode at most.
THEOREM TypeSound == Spec => []TypeOK
<1> DEFINE Typed == ClassifierTypeOK /\ EnvTyped /\ AgentTyped
<1>1. Init => Typed
  <2>1. Init => ClassifierTypeOK
    <3> SUFFICES ASSUME Init PROVE ClassifierTypeOK
      OBVIOUS
    <3>1. /\ weights = 0 /\ stats = 0 /\ version = 0 /\ threshold = Untuned /\ mode = "train"
          /\ scaler = "none" /\ modelFile = NoFile /\ scalerFile = "none"
          /\ left = [t \in Threads |-> 0] /\ errors = [t \in Threads |-> Untuned]
          /\ retrains = 0 /\ failures = 0 /\ crashes = 0 /\ overlapped = FALSE
      BY Zenon DEF Init, ClassifierInit
    <3>2. pc \in [Threads -> Labels]
      BY StartPlaces DEF Init, ClassifierInit, AllStart
    <3>3. Untuned \in Networks
      BY <3>1 DEF Untuned, Networks, Versions
    <3>4. left \in [Threads -> 0 .. EPOCHS + TUNE_EPOCHS] /\ errors \in [Threads -> Networks]
      BY <3>1, <3>3, EpochsAssumption
    <3>5. modelFile \in ModelFile /\ threshold \in Networks
      BY <3>1, <3>3 DEF ModelFile
    <3>6. /\ version \in Nat /\ weights \in Versions /\ stats \in Versions
          /\ retrains \in 0 .. MaxRetrains /\ failures \in 0 .. MaxFailures
          /\ crashes \in 0 .. MaxCrashes
      BY <3>1, BoundsAssumption DEF Versions
    <3>7. /\ mode \in {"train", "eval"} /\ scaler \in {"none", "fitting", "fitted"}
          /\ scalerFile \in {"none", "partial", "fitting", "fitted"} /\ overlapped \in BOOLEAN
      BY <3>1, Zenon
    <3> QED
      BY <3>2, <3>4, <3>5, <3>6, <3>7, Zenon DEF ClassifierTypeOK
  <2>2. Init => EnvTyped
    <3> SUFFICES ASSUME Init PROVE EnvTyped
      OBVIOUS
    <3>1. EnvInv
      BY ZeroSteps, ZeroRules, Zenon DEF Init, EnvInit, EnvInv
    <3>2. anomaly_score = 0 /\ fp_count = 0 /\ step_count = 0 /\ fp_history = <<>>
      BY Zenon DEF Init, EnvInit
    <3> QED
      BY <3>1, <3>2, EnvAssumption DEF EnvTyped, Scores
  <2>3. Init => AgentTyped
    BY TimestepsAssumption DEF Init, AgentTyped
  <2> QED
    BY <2>1, <2>2, <2>3
<1>2. Typed /\ [Next]_vars => Typed'
  <2> SUFFICES ASSUME Typed, [Next]_vars PROVE Typed'
    OBVIOUS
  <2>1. AgentTyped'
    BY NextKeepsAgent
  <2>2. EnvTyped'
    BY AgentKeepsEnvTypes DEF Next, StartUp, StartPipeline, vars
  <2>3. ClassifierTypeOK'
    BY TrainKeepsTypes, LoopKeepsTypes, OthersKeepTypes
    DEF Next, StartUp, LoadAgent, TrainAgent, SaveAgent, SaveAgentEnds, Crash, Threads, vars
  <2> QED
    BY <2>1, <2>2, <2>3
<1>3. Typed => TypeOK
  BY EnvTypedTypes DEF AgentTyped, TypeOK
<1> QED
  BY <1>1, <1>2, <1>3, PTL DEF Spec

=============================================================================
