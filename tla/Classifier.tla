----------------------------- MODULE Classifier -----------------------------
(***************************************************************************)
(* classifier.py: the LSTM autoencoder with its scaler and its threshold,  *)
(* in memory and on disk, and the threads that use them without a lock.    *)
(* The event loop loads or trains the model before anything else starts    *)
(* and then scores one flow at a time; each POST to api_retrain starts a   *)
(* thread that trains and saves the very objects the loop is using.        *)
(*                                                                         *)
(* The network is abstracted to versions: `weights` changes with each step *)
(* of the optimizer, `stats`, the running statistics of encoder_fc's       *)
(* BatchNorm1d, with each forward pass in training mode.  Every training   *)
(* fits the scaler to the same data (generate_mock_data's seed), so that a *)
(* fitted scaler is always the same.                                       *)
(***************************************************************************)
EXTENDS Naturals, FiniteSets

CONSTANTS Loop,            \* the event loop's thread
          Retrainers,      \* threads of api_retrain
          EPOCHS,          \* optimizer steps of a training
          TUNE_EPOCHS,     \* epochs of fine_tune_classifier
          MaxRetrains,     \* bound: requests to retrain
          MaxFailures,     \* bound: retrainings that raise an exception
          MaxCrashes       \* bound: crashes of the process

ASSUME LoopAssumption   == Loop \notin Retrainers
ASSUME EpochsAssumption == EPOCHS \in Nat \ {0} /\ TUNE_EPOCHS \in Nat \ {0}
ASSUME BoundsAssumption == /\ MaxRetrains \in Nat
                           /\ MaxFailures \in Nat
                           /\ MaxCrashes \in Nat

VARIABLES weights, stats,   \* the network: 0 as constructed
          mode,             \* train() or eval()
          threshold,        \* _threshold_error: the network it was measured on
          scaler,           \* "none", "fitting" or "fitted"
          modelFile,        \* MODEL_PATH: nothing, a partial file or a model
          scalerFile,       \* SCALER_PATH: nothing, a partial file or a scaler
          pc,               \* where each thread is
          left,             \* epochs it still has to do
          errors,           \* the network it has measured the errors of
          version,          \* the last version given to weights or stats
          retrains, failures, crashes,
          overlapped        \* history: two trainings were under way at a time

network   == <<weights, stats, mode>>
files     == <<modelFile, scalerFile>>
bounds    == <<retrains, failures, crashes, overlapped>>
learned   == <<network, threshold, scaler, files, left, errors, version, bounds>>
clf       == <<learned, pc>>

Threads  == {Loop} \cup Retrainers
Measured == [weights |-> weights, stats |-> stats]
Untuned  == [weights |-> 0, stats |-> 0]          \* the threshold of 1.0
NoFile   == [kind |-> "none"]
Partial  == [kind |-> "partial"]

\* Mutation: the checkpoint leaves out what was calibrated.
SavedModelUncalibrated ==
    [kind |-> "model", weights |-> weights, stats |-> stats, threshold |-> Untuned]
SavedModel == [kind |-> "model", weights |-> weights, stats |-> stats, threshold |-> threshold]

Goto(t, label) == pc' = [pc EXCEPT ![t] = label]

ClassifierInit ==
    /\ weights = 0
    /\ stats = 0
    /\ mode = "train"
    /\ threshold = Untuned
    /\ scaler = "none"
    /\ modelFile = NoFile
    /\ scalerFile = "none"
    /\ pc = [t \in Threads |-> IF t = Loop THEN "load_model" ELSE "idle"]
    /\ left = [t \in Threads |-> 0]
    /\ errors = [t \in Threads |-> Untuned]
    /\ version = 0
    /\ retrains = 0
    /\ failures = 0
    /\ crashes = 0
    /\ overlapped = FALSE

-----------------------------------------------------------------------------
(* load: the model's file, then the scaler's.  A file that is missing or   *)
(* cannot be read makes the loop train; what was loaded before stays.      *)

\* Mutation: a file that is there must be loadable, so the loop tries again.
AfterLoadRetried == CASE modelFile.kind = "model" -> "load_scaler"
                      [] modelFile = Partial      -> "load_model"
                      [] OTHER                    -> "fit"
AfterLoad == IF modelFile.kind = "model" THEN "load_scaler" ELSE "fit"

LoadModel ==
    /\ pc[Loop] = "load_model"
    /\ IF modelFile.kind = "model"
       THEN /\ weights' = modelFile.weights
            /\ stats' = modelFile.stats
            /\ threshold' = modelFile.threshold
            /\ mode' = "eval"
       ELSE UNCHANGED <<network, threshold>>
    /\ Goto(Loop, AfterLoad)
    /\ UNCHANGED <<scaler, files, left, errors, version, bounds>>

LoadScaler ==
    /\ pc[Loop] = "load_scaler"
    /\ IF scalerFile \in {"none", "partial"}
       THEN Goto(Loop, "fit") /\ UNCHANGED scaler
       ELSE Goto(Loop, "loaded") /\ scaler' = scalerFile
    /\ UNCHANGED <<network, threshold, files, left, errors, version, bounds>>

-----------------------------------------------------------------------------
(* train_autoencoder, by the loop at start-up or by a retraining thread    *)

Training(t) == pc[t] \notin {"idle", "load_model", "load_scaler", "loaded", "running",
                             "eval", "forward", "score", "raised"}

\* api_retrain starts another thread, whatever the others are doing.
StartRetraining(t) ==
    /\ pc[t] = "idle"
    /\ retrains < MaxRetrains
    /\ retrains' = retrains + 1
    /\ overlapped' = (overlapped \/ \E u \in Retrainers : Training(u))
    /\ Goto(t, "fit")
    /\ UNCHANGED <<network, threshold, scaler, files, left, errors, version, failures, crashes>>

\* scaler.fit forgets what it knew before it computes it anew.  sklearn does
\* so attribute by attribute; all of it is one phase here, "fitting", in which
\* others find the scaler unfitted.
FitScaler(t) ==
    /\ pc[t] = "fit"
    /\ scaler' = "fitting"
    /\ Goto(t, "fitted")
    /\ UNCHANGED <<network, threshold, files, left, errors, version, bounds>>

FitScalerEnds(t) ==
    /\ pc[t] = "fitted"
    /\ scaler' = "fitted"
    /\ Goto(t, "transform")
    /\ UNCHANGED <<network, threshold, files, left, errors, version, bounds>>

\* scaler.transform raises while another thread fits; api_retrain's thread
\* writes a line to the log and ends.
Transform(t) ==
    /\ pc[t] = "transform"
    /\ Goto(t, IF scaler = "fitted" THEN "train" ELSE "idle")
    /\ UNCHANGED learned

TrainMode(t) ==
    /\ pc[t] = "train"
    /\ mode' = "train"
    /\ left' = [left EXCEPT ![t] = EPOCHS]
    /\ Goto(t, "epoch")
    /\ UNCHANGED <<weights, stats, threshold, scaler, files, errors, version, bounds>>

\* One step of the optimizer.  The loop's predict may have switched the model
\* to evaluation mode; then the statistics stay.
Epoch(t) ==
    /\ pc[t] = "epoch"
    /\ left[t] > 0
    /\ left' = [left EXCEPT ![t] = @ - 1]
    /\ version' = version + 1
    /\ weights' = version + 1
    /\ stats' = IF mode = "train" THEN version + 1 ELSE stats
    /\ UNCHANGED <<pc, mode, threshold, scaler, files, errors, bounds>>

\* Mutation: the model is left in the mode it was trained in.
EvalModeForgotten(t) ==
    /\ pc[t] = "epoch"
    /\ left[t] = 0
    /\ Goto(t, "measure")
    /\ UNCHANGED learned

EvalMode(t) ==
    /\ pc[t] = "epoch"
    /\ left[t] = 0
    /\ mode' = "eval"
    /\ Goto(t, "measure")
    /\ UNCHANGED <<weights, stats, threshold, scaler, files, left, errors, version, bounds>>

\* "Calibrate threshold": the errors of the network as it is now.
MeasureErrors(t) ==
    /\ pc[t] = "measure"
    /\ errors' = [errors EXCEPT ![t] = Measured]
    /\ Goto(t, "calibrate")
    /\ UNCHANGED <<network, threshold, scaler, files, left, version, bounds>>

CalibrateThreshold(t) ==
    /\ pc[t] = "calibrate"
    /\ threshold' = errors[t]
    /\ Goto(t, IF t = Loop THEN "tune" ELSE "save")
    /\ UNCHANGED <<network, scaler, files, left, errors, version, bounds>>

-----------------------------------------------------------------------------
(* fine_tune_classifier, at start-up only.  It trains the classification   *)
(* head, which nothing here depends on; but each forward pass in training  *)
(* mode moves the statistics of the encoder it has frozen.                 *)

TuneMode ==
    /\ pc[Loop] = "tune"
    /\ mode' = "train"
    /\ left' = [left EXCEPT ![Loop] = TUNE_EPOCHS]
    /\ Goto(Loop, "tune_epoch")
    /\ UNCHANGED <<weights, stats, threshold, scaler, files, errors, version, bounds>>

TuneEpoch ==
    /\ pc[Loop] = "tune_epoch"
    /\ left[Loop] > 0
    /\ left' = [left EXCEPT ![Loop] = @ - 1]
    /\ version' = version + 1
    /\ stats' = version + 1
    /\ UNCHANGED <<pc, weights, mode, threshold, scaler, files, errors, bounds>>

TuneEnds ==
    /\ pc[Loop] = "tune_epoch"
    /\ left[Loop] = 0
    /\ mode' = "eval"
    /\ Goto(Loop, "save")
    /\ UNCHANGED <<weights, stats, threshold, scaler, files, left, errors, version, bounds>>

-----------------------------------------------------------------------------
(* save: both files are written in place, one after the other.  Two        *)
(* threads that write the same file leave either's content or a mixture.   *)

SaveModel(t) ==
    /\ pc[t] = "save"
    /\ modelFile' = Partial
    /\ Goto(t, "save_model")
    /\ UNCHANGED <<network, threshold, scaler, scalerFile, left, errors, version, bounds>>

SaveModelEnds(t) ==
    /\ pc[t] = "save_model"
    /\ modelFile' \in {SavedModel} \cup
                      (IF \E u \in Threads \ {t} : pc[u] = "save_model" THEN {Partial} ELSE {})
    /\ Goto(t, "save_scaler")
    /\ UNCHANGED <<network, threshold, scaler, scalerFile, left, errors, version, bounds>>

SaveScaler(t) ==
    /\ pc[t] = "save_scaler"
    /\ scalerFile' = "partial"
    /\ Goto(t, "saving_scaler")
    /\ UNCHANGED <<network, threshold, scaler, modelFile, left, errors, version, bounds>>

SaveScalerEnds(t) ==
    /\ pc[t] = "saving_scaler"
    /\ scalerFile' = scaler
    /\ Goto(t, IF t = Loop THEN "loaded" ELSE "idle")
    /\ UNCHANGED <<network, threshold, scaler, modelFile, left, errors, version, bounds>>

\* A retraining raises: api_retrain's thread catches it and ends.
RetrainingFails(t) ==
    /\ t \in Retrainers
    /\ Training(t)
    /\ failures < MaxFailures
    /\ failures' = failures + 1
    /\ Goto(t, "idle")
    /\ UNCHANGED <<network, threshold, scaler, files, left, errors, version,
                   retrains, crashes, overlapped>>

Train(t) ==
    \/ FitScaler(t) \/ FitScalerEnds(t) \/ Transform(t) \/ TrainMode(t) \/ Epoch(t)
    \/ EvalMode(t) \/ MeasureErrors(t) \/ CalibrateThreshold(t)
    \/ SaveModel(t) \/ SaveModelEnds(t) \/ SaveScaler(t) \/ SaveScalerEnds(t)

-----------------------------------------------------------------------------
(* predict, by the loop for one flow at a time.  What it raises is caught  *)
(* by the classifier loop: the flow is lost, and the loop sleeps.          *)

PredictTransform ==
    /\ pc[Loop] = "running"
    /\ Goto(Loop, IF scaler = "fitted" THEN "eval" ELSE "raised")
    /\ UNCHANGED learned

PredictEval ==
    /\ pc[Loop] = "eval"
    /\ mode' = "eval"
    /\ Goto(Loop, "forward")
    /\ UNCHANGED <<weights, stats, threshold, scaler, files, left, errors, version, bounds>>

\* BatchNorm1d refuses a batch of one in training mode.
PredictForward ==
    /\ pc[Loop] = "forward"
    /\ Goto(Loop, IF mode = "eval" THEN "score" ELSE "raised")
    /\ UNCHANGED learned

PredictReturns ==
    /\ pc[Loop] \in {"score", "raised"}
    /\ Goto(Loop, "running")
    /\ UNCHANGED learned

Predict == PredictTransform \/ PredictEval \/ PredictForward \/ PredictReturns

\* The process dies and is started again: memory is lost, the files stay.
CrashClassifier ==
    /\ crashes < MaxCrashes
    /\ crashes' = crashes + 1
    /\ weights' = 0
    /\ stats' = 0
    /\ mode' = "train"
    /\ threshold' = Untuned
    /\ scaler' = "none"
    /\ pc' = [t \in Threads |-> IF t = Loop THEN "load_model" ELSE "idle"]
    /\ left' = [t \in Threads |-> 0]
    /\ errors' = [t \in Threads |-> Untuned]
    /\ UNCHANGED <<files, version, retrains, failures, overlapped>>
-----------------------------------------------------------------------------
(* Properties                                                              *)

StartingUp == pc[Loop] \notin {"running", "eval", "forward", "score", "raised"}
Quiet      == ~StartingUp /\ \A t \in Retrainers : pc[t] = "idle"

Labels == {"load_model", "load_scaler", "loaded", "fit", "fitted", "transform", "train",
           "epoch", "measure", "calibrate", "tune", "tune_epoch", "save", "save_model",
           "save_scaler", "saving_scaler", "idle", "running", "eval", "forward",
           "score", "raised"}

Versions  == 0 .. version
Networks  == [weights : Versions, stats : Versions]
ModelFile == {NoFile, Partial} \cup
             [kind : {"model"}, weights : Versions, stats : Versions, threshold : Networks]

ClassifierTypeOK ==
    /\ version \in Nat
    /\ weights \in Versions
    /\ stats \in Versions
    /\ mode \in {"train", "eval"}
    /\ threshold \in Networks
    /\ scaler \in {"none", "fitting", "fitted"}
    /\ modelFile \in ModelFile
    /\ scalerFile \in {"none", "partial", "fitting", "fitted"}
    /\ pc \in [Threads -> Labels]
    /\ left \in [Threads -> 0 .. EPOCHS + TUNE_EPOCHS]
    /\ errors \in [Threads -> Networks]
    /\ retrains \in 0 .. MaxRetrains
    /\ failures \in 0 .. MaxFailures
    /\ crashes \in 0 .. MaxCrashes
    /\ overlapped \in BOOLEAN

\* When no training is under way the model is ready for inference: scaler
\* fitted and network in evaluation mode, however many retrainings ran at a
\* time and whatever predict did to the mode meanwhile.  Excluded are a
\* retraining that raised (it may leave the scaler unfitted for good) and a
\* restart after overlapping ones (one may have saved the other's scaler while
\* it was being fitted).
ReadyWhenQuiet ==
    Quiet /\ failures = 0 /\ (crashes = 0 \/ ~overlapped) =>
        scaler = "fitted" /\ mode = "eval"

\* When no training is under way the threshold was measured on the weights in
\* use, and the files hold this very model, so that a restart brings it back;
\* also when the process died in the middle of a save.  Needs retrainings that
\* neither overlap nor fail.  (It says nothing of the statistics: at start-up
\* fine_tune_classifier moves them after the threshold has been measured.)
ModelSettled ==
    Quiet /\ failures = 0 /\ ~overlapped =>
        /\ threshold.weights = weights
        /\ modelFile = SavedModel
        /\ scalerFile = "fitted"
=============================================================================
