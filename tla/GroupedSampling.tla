-------------------------- MODULE GroupedSampling --------------------------
(***************************************************************************)
(* Which rows of the dataset the training steps of CheckpointedTraining    *)
(* are made of: MultilangRepeatDataset repeats every prompt, main_ppo      *)
(* draws whole groups of rollouts with a GroupedBatchSampler, fit sets the *)
(* epoch of the sampler, and the data loader goes on at the position it    *)
(* finds in data.pt.                                                       *)
(***************************************************************************)
EXTENDS CheckpointedTraining

CONSTANTS
    NumPrompts,      \* len(dataframe)
    Repeats,         \* n of the dataset, 8 in the code
    RolloutN,        \* actor_rollout_ref.rollout.n
    TrainBatchSize,  \* data.train_batch_size, in rollouts
    Permutation      \* epoch -> the order the seeded generator of that epoch gives

BaseLen == (NumPrompts * Repeats) \div RolloutN
GroupsPerBatch == TrainBatchSize \div RolloutN

ASSUME SamplerAssumption ==
    /\ {NumPrompts, Repeats, RolloutN, TrainBatchSize} \subseteq Nat \ {0}
    /\ TrainBatchSize % RolloutN = 0
    /\ BatchesPerEpoch = BaseLen \div GroupsPerBatch
    /\ \A e \in 0 .. (Epochs - 1) :
         /\ Permutation[e] \in [1 .. BaseLen -> 0 .. (BaseLen - 1)]
         /\ \A i, j \in 1 .. BaseLen : Permutation[e][i] = Permutation[e][j] => i = j

VARIABLE served  \* step -> the start that trained it and its rows (history of the weights)

sampledVars == <<vars, served>>

NotServed == [by |-> 0, rows |-> <<>>]

\* Mutation: the rollouts of a group are taken from different groups.
BatchInterleaved(e, b) ==
    [k \in 1 .. TrainBatchSize |->
        LET r == (k - 1) \div GroupsPerBatch
            base == Permutation[e][(b - 1) * GroupsPerBatch + ((k - 1) % GroupsPerBatch) + 1]
        IN  r * BaseLen + base]

\* The b-th batch of GroupedBatchSampler in epoch e: RolloutN neighbouring rows of the
\* dataset for each base index. What does not fill a batch is dropped.
Batch(e, b) ==
    [k \in 1 .. TrainBatchSize |->
        LET base == Permutation[e][(b - 1) * GroupsPerBatch + ((k - 1) \div RolloutN) + 1]
        IN  base * RolloutN + ((k - 1) % RolloutN)]

\* MultilangRepeatDataset.__getitem__: the prompt of a row, which also is its uid.
PromptOf(row) == row \div Repeats

\* The loader yields the next batch in the order of the epoch the sampler was set to.
ServeBatch ==
    /\ TrainStep
    /\ served' = [served EXCEPT ![global_steps] =
                    [by |-> run, rows |-> Batch(epoch, pos + 1)]]

\* What was trained after the loaded step is not in the weights.
StartSampling ==
    /\ StartFromScratch \/ \E n \in Steps : Resume(n)
    /\ served' = [n \in Steps |-> IF n < global_steps' THEN served[n] ELSE NotServed]

SampledLoop == ServeBatch \/ ((NextEpoch \/ DataExhausted \/ EndStep \/ Saving) /\ served' = served)

SampledInit == Init /\ served = [n \in Steps |-> NotServed]
SampledNext == StartSampling \/ SampledLoop \/ ((ResumeRaises \/ Crash) /\ served' = served)

\* The fairness of FairSpec: the driver takes its next step.
SampledFairSpec ==
    SampledInit /\ [][SampledNext]_sampledVars /\ WF_sampledVars(SampledLoop)

-----------------------------------------------------------------------------
(* Properties. *)

DataEpoch(n) == (n - 1) \div BatchesPerEpoch
PromptsOf(n) == {PromptOf(served[n].rows[k]) : k \in 1 .. TrainBatchSize}

\* Every prompt of a batch comes with all its rollouts (group statistics and the quota
\* of the language router are taken over them).
GroupsWhole(n) ==
    \A p \in PromptsOf(n) :
        Cardinality({served[n].rows[k] : k \in {k \in 1 .. TrainBatchSize :
                                                 PromptOf(served[n].rows[k]) = p}}) = RolloutN

\* Along the steps that made the weights, a pass over the data trains no prompt twice:
\* the first one across any number of deaths and resumes, the later ones as far as one
\* process made them. (A resume in a later pass sets the sampler to epoch 0 again, so
\* what it serves overlaps with what was served before it.) None is passed over, since
\* the position moves with the step counter.
EpochServesEachPrompt ==
    /\ DataFollowsSteps
    /\ pc = "loop" =>
         \A n \in 1 .. (global_steps - 1) :
            /\ served[n] # NotServed /\ GroupsWhole(n)
            /\ \A m \in 1 .. (n - 1) :
                  /\ DataEpoch(m) = DataEpoch(n)
                  /\ DataEpoch(n) = 0 \/ served[m].by = served[n].by
                  => PromptsOf(m) \cap PromptsOf(n) = {}
=============================================================================
