--------------------------- MODULE CalibratedReward ---------------------------
(***************************************************************************)
(* The score of a response (utils/reward_score/calibrated_rs.py, called by *)
(* BatchRewardManager): how similar it is to the ground truth, corrected   *)
(* by how similar texts of that pair of languages are on the average, and  *)
(* 0 if it is not in the language the router asked for.  A similarity of 1 *)
(* is SimUnit; the two neural models are external and given as constants.  *)
(***************************************************************************)
EXTENDS Integers, Sequences, FiniteSets, SequencesExt, FiniteSetsExt

CONSTANTS
  SimUnit,     \* similarities are integers from -SimUnit to SimUnit
  PairStats,   \* pairs of languages, as sets, with [count, mean] of their texts
  ScoreChunk   \* MMBERT_BATCH_SIZE

KShrink == 0
NoLanguage == "None"  \* the language could not be predicted

ASSUME StatsAssumption ==
  /\ SimUnit \in Nat \ {0} /\ ScoreChunk \in Nat \ {0}
  /\ DOMAIN PairStats # {} /\ IsFiniteSet(DOMAIN PairStats)
  /\ \A pair \in DOMAIN PairStats :
       PairStats[pair].count \in Nat \ {0} /\ PairStats[pair].mean \in Int

(* The mean over all pairs, weighted by their counts.                      *)
MuRef ==
  MapThenSumSet(LAMBDA p : PairStats[p].count * PairStats[p].mean, DOMAIN PairStats)
    \div MapThenSumSet(LAMBDA p : PairStats[p].count, DOMAIN PairStats)

Clamp(x, low, high) == Max({low, Min({x, high})})

(* The correction is shrunk for pairs that were seldom seen, by a constant *)
(* that is 0.  A pair without statistics is not corrected, nor clamped.    *)
Calibrated(raw, gt, resp) ==
  IF {gt, resp} \notin DOMAIN PairStats
    THEN raw
    ELSE LET row == PairStats[{gt, resp}]
         IN  Clamp(raw - (row.count * (row.mean - MuRef)) \div (row.count + KShrink),
                   -SimUnit, SimUnit)

(* In units of 1 / (2 * SimUnit).                                          *)
SimToReward(sim) == Clamp(sim + SimUnit, 0, 2 * SimUnit)

(* With soft = FALSE the confidence of the prediction does not count.      *)
LanguageMatches(predicted, target) == predicted # NoLanguage /\ predicted = target

(* compute_score_batch: the embeddings are computed chunk by chunk, and    *)
(* the languages are looked up under the index in the whole batch.         *)
\* Mutation: the index in the chunk is taken for the index in the batch
EmbedRewardsPerChunk(sims, gts, predicted) ==
  FlattenSeq([c \in 1 .. (Len(sims) + ScoreChunk - 1) \div ScoreChunk |->
    LET i == (c - 1) * ScoreChunk
    IN  [k \in 1 .. Min({ScoreChunk, Len(sims) - i}) |->
          SimToReward(Calibrated(sims[i + k], gts[k], predicted[i + k]))]])

EmbedRewards(sims, gts, predicted) ==
  FlattenSeq([c \in 1 .. (Len(sims) + ScoreChunk - 1) \div ScoreChunk |->
    LET i == (c - 1) * ScoreChunk
    IN  [k \in 1 .. Min({ScoreChunk, Len(sims) - i}) |->
          SimToReward(Calibrated(sims[i + k], gts[i + k], predicted[i + k]))]])

ScoreBatch(sims, gts, predicted, targets) ==
  LET embed == EmbedRewards(sims, gts, predicted)
  IN  [i \in 1 .. Len(sims) |->
        IF LanguageMatches(predicted[i], targets[i]) THEN embed[i] ELSE 0]
=============================================================================
