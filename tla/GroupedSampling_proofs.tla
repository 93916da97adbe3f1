------------------------ MODULE GroupedSampling_proofs ------------------------
(***************************************************************************)
(* That the sampler, the data loader and the checkpoints together give     *)
(* every pass over the data each prompt once: proofs for any number of     *)
(* prompts, any group and batch size and any orders of the epochs.         *)
(***************************************************************************)
EXTENDS GroupedSampling, CheckpointedTraining_proofs

-----------------------------------------------------------------------------
(* The position in the data and the step counter. *)

\* s steps are k passes over the data and p batches.
Passes(s, p, k) == s = BatchesPerEpoch * k + p

FollowInv ==
    /\ Running => \E k \in Nat : Passes(StepsApplied, pos, k) /\ epoch <= k
    /\ \A n \in Steps : disk["data"][n].st = "whole" =>
          \E k \in Nat : Passes(n, disk["data"][n].val, k)

LEMMA NextPass ==
  ASSUME NEW s, NEW k \in Nat, Passes(s, BatchesPerEpoch, k)
  PROVE  Passes(s, 0, k + 1)
BY ConstantsAssumption DEF Passes

LEMMA StepFollow ==
  ASSUME TypeInv, TrackedIsWhole, FollowInv, SafeRetention, [Next]_vars
  PROVE  FollowInv'
<1> USE GlobalStepsType
<1>0. /\ BatchesPerEpoch \in Nat \ {0} /\ epoch \in Nat /\ pos \in Nat
      /\ Running => global_steps \in Nat \ {0}
  OBVIOUS
<1>1. CASE StartFromScratch
  <2>1. StepsApplied' = 0 /\ pos' = 0 /\ epoch' = 0 /\ UNCHANGED disk
    BY <1>1 DEF StartFromScratch, FreshMemory, FirstStep, StepsApplied
  <2>2. Passes(0, 0, 0)
    BY <1>0 DEF Passes
  <2> QED
    BY <2>1, <2>2 DEF FollowInv
<1>2. ASSUME NEW n \in Steps, Resume(n) PROVE FollowInv'
  <2>1. n = tracker /\ disk["data"][n].st = "whole"
    BY <1>2, StartsFromTracked, PiecesFacts DEF TrackedIsWhole, Whole
  <2>2. PICK k \in Nat : Passes(n, disk["data"][n].val, k)
    BY <2>1 DEF FollowInv
  <2>3. StepsApplied' = n /\ pos' = disk["data"][n].val /\ epoch' = 0 /\ UNCHANGED disk
    BY <1>2 DEF Resume, FirstStep, StepsApplied
  <2> QED
    BY <2>2, <2>3 DEF FollowInv
<1>3. CASE TrainStep
  <2>1. /\ pc = "loop" /\ pc' = "check" /\ pos' = pos + 1 /\ UNCHANGED <<epoch, global_steps, disk>>
        /\ Running
    BY <1>3 DEF TrainStep, Running
  <2>2. StepsApplied = global_steps - 1 /\ StepsApplied' = global_steps
    BY <2>1 DEF StepsApplied
  <2>3. PICK k \in Nat : Passes(StepsApplied, pos, k) /\ epoch <= k
    BY <2>1 DEF FollowInv
  <2>4. Passes(StepsApplied', pos', k)
    BY <1>0, <2>1, <2>2, <2>3 DEF Passes
  <2> QED
    BY <2>1, <2>3, <2>4 DEF FollowInv
<1>4. CASE NextEpoch
  <2>1. /\ pos = BatchesPerEpoch /\ pos' = 0 /\ epoch' = epoch + 1
        /\ UNCHANGED <<pc, global_steps, disk>> /\ Running
    BY <1>4 DEF NextEpoch, Running
  <2>2. PICK k \in Nat : Passes(StepsApplied, pos, k) /\ epoch <= k
    BY <2>1 DEF FollowInv
  <2>3. Passes(StepsApplied, 0, k + 1) /\ epoch + 1 <= k + 1 /\ k + 1 \in Nat
    BY <1>0, <2>1, <2>2, NextPass
  <2> QED
    BY <2>1, <2>3 DEF FollowInv, StepsApplied
<1>5. CASE EndStep
  <2>1. /\ pc = "end" /\ UNCHANGED <<epoch, pos, disk>> /\ global_steps' = global_steps + 1
        /\ Running /\ pc' \in {"loop", "done"}
    BY <1>5 DEF EndStep, Running
  <2>2. pc' = "loop" => StepsApplied' = StepsApplied
    BY <1>0, <2>1 DEF StepsApplied
  <2> QED
    BY <2>1, <2>2 DEF FollowInv, Running
<1>6. CASE BeginSave \/ SkipSave \/ OpenTracker \/ WriteTracker \/ UNCHANGED vars
  BY <1>6 DEF BeginSave, SkipSave, OpenTracker, WriteTracker, vars, memory, FollowInv,
              StepsApplied, Running
<1>7. CASE ResumeRaises \/ Crash \/ DataExhausted
  BY <1>7 DEF ResumeRaises, Crash, DataExhausted, memory, FollowInv, Running
<1>8. CASE Rotate \/ WriteShards \/ CommitShards \/ WriteData \/ CommitData
  <2>1. /\ UNCHANGED <<epoch, pos, global_steps>> /\ Running
        /\ StepsApplied = global_steps /\ StepsApplied' = StepsApplied
    BY <1>8 DEF Rotate, WriteShards, CommitShards, WriteData, CommitData, memory, Running,
                StepsApplied
  <2>2. PICK k \in Nat : Passes(StepsApplied, pos, k) /\ epoch <= k
    BY <2>1 DEF FollowInv
  <2>3. \A n \in Steps : disk'["data"][n].st = "whole" =>
           \E j \in Nat : Passes(n, disk'["data"][n].val, j)
    <3> SUFFICES ASSUME NEW n \in Steps, disk'["data"][n].st = "whole"
                 PROVE  \E j \in Nat : Passes(n, disk'["data"][n].val, j)
      OBVIOUS
    <3>1. CASE disk'["data"][n] = disk["data"][n]
      BY <3>1 DEF FollowInv
    <3>2. CASE Rotate \/ WriteShards
      <4>1. saving # "data"
        BY <3>2, PiecesFacts DEF Rotate, WriteShards, TypeInv, ControlType
      <4>2. disk'["data"][n] = disk["data"][n]
        BY <3>2, <4>1, RotateDisk, WriteShardsDisk, PiecesFacts
      <4> QED
        BY <3>1, <4>2
    <3>3. CASE CommitShards \/ CommitData
      <4>1. disk'["data"][n] = IF "data" = saving /\ n = global_steps
                               THEN [st |-> "whole", by |-> run,
                                     val |-> IF saving \in Roles THEN updates[saving] ELSE pos]
                               ELSE disk["data"][n]
        BY <3>3, CommitDisk, PiecesFacts
      <4>2. CASE "data" = saving /\ n = global_steps
        <5>1. disk'["data"][n].val = pos
          BY <4>1, <4>2, PiecesFacts
        <5> QED
          BY <2>1, <2>2, <4>2, <5>1
      <4> QED
        BY <3>1, <4>1, <4>2
    <3>4. CASE WriteData
      <4>1. disk'["data"][n] = IF n = global_steps THEN Torn ELSE disk["data"][n]
        BY <3>4, WriteDataDisk, PiecesFacts
      <4>2. Torn.st # "whole"
        BY DEF Torn
      <4> QED
        BY <3>1, <4>1, <4>2
    <3> QED
      BY <1>8, <3>2, <3>3, <3>4
  <2> QED
    BY <2>1, <2>2, <2>3 DEF FollowInv
<1> QED
  BY <1>1, <1>2, <1>3, <1>4, <1>5, <1>6, <1>7, <1>8 DEF Next, Start, Loop, Saving

LEMMA InitFollow == Init => FollowInv
BY PiecesFacts DEF Init, FollowInv, Running, Absent

LEMMA FollowInvAlways ==
  ASSUME SafeRetention
  PROVE  Spec => []FollowInv
<1>1. TypeInv /\ TrackInv /\ FollowInv /\ [Next]_vars => FollowInv'
  BY StepFollow DEF TrackInv
<1> QED
  BY <1>1, InitFollow, TypeInvAlways, TrackInvAlways, PTL DEF Spec

\* At the head of every step the loader stands where the steps before it left it: as many
\* batches past the start of a pass as steps, in every process that resumed anything
\* (data.pt is saved and loaded with the weights).
THEOREM PositionFollows ==
  ASSUME SafeRetention
  PROVE  Spec => []DataFollowsSteps
<1>1. TypeInv /\ FollowInv => DataFollowsSteps
  <2> SUFFICES ASSUME TypeInv, FollowInv, pc = "loop"
               PROVE  (global_steps - 1 - pos) % BatchesPerEpoch = 0
    BY DEF DataFollowsSteps
  <2>1. PICK k \in Nat : global_steps - 1 = BatchesPerEpoch * k + pos
    BY DEF FollowInv, Running, StepsApplied, Passes
  <2>2. pos \in Nat /\ BatchesPerEpoch \in Nat \ {0} /\ 0 \in 0 .. BatchesPerEpoch - 1
    BY GlobalStepsType
  <2> DEFINE x == BatchesPerEpoch * k
  <2>3. x \in Nat /\ x + 0 = x /\ (x + 0) % BatchesPerEpoch = 0
    BY <2>2, Quotient
  <2>4. global_steps - 1 = x + pos
    BY <2>1
  <2> HIDE DEF x
  <2>5. global_steps - 1 - pos = x
    BY <2>2, <2>3, <2>4
  <2> QED
    BY <2>3, <2>5
<1> QED
  BY <1>1, TypeInvAlways, FollowInvAlways, PTL

-----------------------------------------------------------------------------
(* The batches of an epoch. *)

\* The prompts are repeated as often as they are rolled out.
OwnGroups == Repeats = RolloutN

\* Where in the order of its epoch the group of the k-th row of batch b lies.
Slot(b, k) == (b - 1) * GroupsPerBatch + ((k - 1) \div RolloutN) + 1

LEMMA Multiples ==
  ASSUME NEW d \in Nat, NEW a \in Nat, NEW b \in Nat, a <= b
  PROVE  a * d \in Nat /\ b * d \in Nat /\ a * d <= b * d
<1>1. b - a \in Nat /\ b = a + (b - a)
  OBVIOUS
<1>2. b * d = a * d + (b - a) * d /\ (b - a) * d \in Nat /\ a * d \in Nat
  BY <1>1
<1> QED
  BY <1>2

LEMMA QuotientOf ==
  ASSUME NEW d \in Nat \ {0}, NEW q \in Nat, NEW r \in 0 .. (d - 1)
  PROVE  (q * d + r) \div d = q /\ (q * d + r) % d = r
OBVIOUS

LEMMA SamplerTypes ==
  /\ RolloutN \in Nat \ {0} /\ Repeats \in Nat \ {0} /\ TrainBatchSize \in Nat \ {0}
  /\ GroupsPerBatch \in Nat \ {0} /\ TrainBatchSize = GroupsPerBatch * RolloutN
  /\ BaseLen \in Nat /\ BatchesPerEpoch \in Nat \ {0} /\ BatchesPerEpoch * GroupsPerBatch <= BaseLen
<1>1. {NumPrompts, Repeats, RolloutN, TrainBatchSize} \subseteq Nat \ {0}
      /\ TrainBatchSize % RolloutN = 0 /\ BatchesPerEpoch = BaseLen \div GroupsPerBatch
  BY SamplerAssumption
<1> DEFINE g == TrainBatchSize \div RolloutN
           rows == NumPrompts * Repeats
<1>2. TrainBatchSize = RolloutN * g + (TrainBatchSize % RolloutN) /\ g \in Nat
  BY <1>1, ModFacts
<1>3. TrainBatchSize = g * RolloutN
  <2> HIDE DEF g
  <2>1. RolloutN * g = g * RolloutN /\ g * RolloutN \in Nat
    BY <1>1, <1>2
  <2> DEFINE x == g * RolloutN
  <2> HIDE DEF x
  <2> QED
    BY <1>1, <1>2, <2>1 DEF x
<1>4. g # 0
  <2> HIDE DEF g
  <2> QED
    BY <1>1, <1>3
<1>5. rows \in Nat /\ rows \div RolloutN \in Nat
  <2>1. rows \in Nat
    BY <1>1
  <2> HIDE DEF rows
  <2> QED
    BY <1>1, <2>1, ModFacts
<1>6. GroupsPerBatch = g /\ BaseLen = rows \div RolloutN
  BY DEF GroupsPerBatch, BaseLen
<1> HIDE DEF g, rows
<1>7. BaseLen \in Nat /\ GroupsPerBatch \in Nat \ {0}
  BY <1>2, <1>4, <1>5, <1>6
<1>8. /\ BaseLen = GroupsPerBatch * (BaseLen \div GroupsPerBatch) + (BaseLen % GroupsPerBatch)
      /\ BaseLen % GroupsPerBatch \in 0 .. (GroupsPerBatch - 1)
  BY <1>7, ModFacts
<1>9. BatchesPerEpoch \in Nat \ {0}
  BY ConstantsAssumption
<1>10. BatchesPerEpoch * GroupsPerBatch <= BaseLen
  <2> DEFINE x == GroupsPerBatch * BatchesPerEpoch
             r == BaseLen % GroupsPerBatch
  <2>1. BaseLen = x + r /\ x \in Nat /\ r \in Nat /\ BatchesPerEpoch * GroupsPerBatch = x
    BY <1>1, <1>7, <1>8, <1>9
  <2> HIDE DEF x, r
  <2> QED
    BY <1>7, <2>1
<1> QED
  BY <1>1, <1>3, <1>6, <1>7, <1>9, <1>10

\* The row at a place of a batch belongs to one of the batch's groups.
LEMMA PlaceRange ==
  ASSUME NEW k \in 1 .. TrainBatchSize
  PROVE  (k - 1) \div RolloutN \in Nat /\ (k - 1) \div RolloutN < GroupsPerBatch
<1> DEFINE q == (k - 1) \div RolloutN
           r == (k - 1) % RolloutN
           g == GroupsPerBatch
<1> USE SamplerTypes
<1>1. k - 1 \in Nat /\ k - 1 < TrainBatchSize
  OBVIOUS
<1>2. k - 1 = RolloutN * q + r /\ q \in Nat /\ r \in Nat
  <2> DEFINE j == k - 1
  <2>1. j \in Nat
    BY <1>1
  <2> HIDE DEF j
  <2>2. /\ j = RolloutN * (j \div RolloutN) + (j % RolloutN)
        /\ j \div RolloutN \in Nat /\ j % RolloutN \in 0 .. (RolloutN - 1)
    BY <2>1, ModFacts
  <2> QED
    BY <2>2 DEF j
<1> HIDE DEF q, r
<1>3. q < g
  <2> SUFFICES ASSUME g <= q PROVE FALSE
    BY <1>2
  <2>1. g * RolloutN <= q * RolloutN /\ q * RolloutN \in Nat
    BY <1>2, Multiples
  <2>2. q * RolloutN = RolloutN * q
    BY <1>2
  <2> DEFINE x == q * RolloutN
  <2>3. TrainBatchSize <= x /\ x \in Nat /\ k - 1 = x + r
    BY <1>2, <2>1, <2>2
  <2> HIDE DEF x
  <2> QED
    BY <1>1, <1>2, <2>3
<1> QED
  BY <1>2, <1>3 DEF q

\* The groups of batch b lie in its part of the order, and in no other's.
LEMMA SlotRange ==
  ASSUME NEW b \in 1 .. BatchesPerEpoch, NEW k \in 1 .. TrainBatchSize
  PROVE  /\ Slot(b, k) \in 1 .. BaseLen
         /\ (b - 1) * GroupsPerBatch < Slot(b, k) /\ Slot(b, k) <= b * GroupsPerBatch
         /\ b * GroupsPerBatch \in Nat /\ (b - 1) * GroupsPerBatch \in Nat
<1> DEFINE q == (k - 1) \div RolloutN
           g == GroupsPerBatch
<1> USE SamplerTypes
<1>1. q \in Nat /\ q < g
  BY PlaceRange
<1> HIDE DEF q
<1>2. /\ (b - 1) * g \in Nat /\ b * g \in Nat /\ b * g <= BatchesPerEpoch * g
      /\ b * g = (b - 1) * g + g
  <2>1. b - 1 \in Nat /\ b \in Nat /\ b <= BatchesPerEpoch
    OBVIOUS
  <2>2. b * g <= BatchesPerEpoch * g
    BY <2>1, Multiples
  <2> QED
    BY <2>1, <2>2
<1> DEFINE x == (b - 1) * g
           y == b * g
           z == BatchesPerEpoch * g
<1>3. x \in Nat /\ y \in Nat /\ y <= z /\ y = x + g /\ z <= BaseLen /\ Slot(b, k) = x + q + 1 /\ z \in Nat
  BY <1>2 DEF Slot, q
<1> HIDE DEF x, y, z
<1>4. Slot(b, k) \in 1 .. BaseLen /\ x < Slot(b, k) /\ Slot(b, k) <= y
  BY <1>1, <1>3
<1> QED
  BY <1>3, <1>4 DEF x, y

\* The row at a place of a batch is a rollout of the prompt the order has there.
Base(e, b, k) == Permutation[e][Slot(b, k)]

LEMMA BatchRow ==
  ASSUME OwnGroups, NEW e \in 0 .. (Epochs - 1), NEW b \in 1 .. BatchesPerEpoch,
         NEW k \in 1 .. TrainBatchSize
  PROVE  /\ Base(e, b, k) \in 0 .. (BaseLen - 1)
         /\ Batch(e, b)[k] = Base(e, b, k) * RolloutN + ((k - 1) % RolloutN)
         /\ (k - 1) % RolloutN \in 0 .. (RolloutN - 1)
         /\ PromptOf(Batch(e, b)[k]) = Base(e, b, k)
<1> USE SamplerTypes
<1>1. Base(e, b, k) \in 0 .. (BaseLen - 1)
  <2>1. Slot(b, k) \in 1 .. BaseLen
    BY SlotRange
  <2>2. Permutation[e] \in [1 .. BaseLen -> 0 .. (BaseLen - 1)]
    BY SamplerAssumption
  <2> QED
    BY <2>1, <2>2 DEF Base
<1>2. Batch(e, b)[k] = Base(e, b, k) * RolloutN + ((k - 1) % RolloutN)
  BY DEF Batch, Base, Slot
<1> DEFINE base == Base(e, b, k)
           r == (k - 1) % RolloutN
<1>3. r \in 0 .. (RolloutN - 1)
  <2>1. k - 1 \in Nat
    OBVIOUS
  <2> QED
    BY <2>1, ModFacts
<1> HIDE DEF base, r
<1>4. base \in Nat
  BY <1>1 DEF base
<1>5. (base * RolloutN + r) \div RolloutN = base
  BY <1>3, <1>4, QuotientOf
<1>6. PromptOf(Batch(e, b)[k]) = base
  BY <1>2, <1>5 DEF PromptOf, OwnGroups, base, r
<1> QED
  BY <1>1, <1>2, <1>3, <1>6 DEF base, r

-----------------------------------------------------------------------------
(* Which epoch's order the steps that made the weights were sampled in. *)

BatchOf(n) == ((n - 1) % BatchesPerEpoch) + 1

\* Step n was trained on its batch of the order of epoch e.
Sampled(n, e) == e \in 0 .. (Epochs - 1) /\ served[n].rows = Batch(e, BatchOf(n))

ServedFun == served = [n \in Steps |-> served[n]]

\* The steps in the tracked checkpoint and those in the memory are known.
KnownInv == \A n \in Steps :
    n <= TrackedStep \/ (Running /\ n <= StepsApplied) => served[n] # NotServed

\* Steps of the first pass were sampled in the first order, whoever trained them.
OrderInv == \A n \in Steps : served[n] # NotServed =>
    /\ served[n].by \in 1 .. run
    /\ \E e \in Int : Sampled(n, e) /\ (DataEpoch(n) = 0 => e = 0)

SameOrder(m, n) ==
    (/\ served[m] # NotServed /\ served[n] # NotServed
     /\ served[m].by = served[n].by /\ DataEpoch(m) = DataEpoch(n))
    => \E e \in Int : Sampled(m, e) /\ Sampled(n, e)

\* The steps that one process trained in one pass were sampled in one order.
SameOrderInv == \A m, n \in Steps : SameOrder(m, n)

\* The process is k passes over the data behind the start, and its sampler is as many
\* epochs behind in every pass it trained.
OwnOrder(n, k) ==
    served[n] # NotServed /\ served[n].by = run
        => n <= StepsApplied /\ Sampled(n, (DataEpoch(n) + epoch) - k)

RunPasses(k) ==
    /\ Passes(StepsApplied, pos, k) /\ epoch <= k
    /\ \A n \in Steps : OwnOrder(n, k)

RunInv == Running => \E k \in Nat : RunPasses(k)

ServedInv == ServedFun /\ KnownInv /\ OrderInv /\ SameOrderInv /\ RunInv

LEMMA PlaceOf ==
  ASSUME NEW s \in Nat, NEW k \in Nat, NEW p \in 0 .. (BatchesPerEpoch - 1), Passes(s, p, k)
  PROVE  DataEpoch(s + 1) = k /\ BatchOf(s + 1) = p + 1
<1>1. BatchesPerEpoch \in Nat \ {0}
  BY ConstantsAssumption
<1>2. (k * BatchesPerEpoch + p) \div BatchesPerEpoch = k /\ (k * BatchesPerEpoch + p) % BatchesPerEpoch = p
  BY <1>1, QuotientOf
<1>3. s = k * BatchesPerEpoch + p
  BY <1>1 DEF Passes
<1>4. s + 1 - 1 = s
  OBVIOUS
<1> QED
  BY <1>2, <1>3, <1>4 DEF DataEpoch, BatchOf

LEMMA SampledStep == [SampledNext]_sampledVars => [Next]_vars
BY DEF SampledNext, sampledVars, StartSampling, SampledLoop, ServeBatch, Next, Start, Loop

LEMMA SameServed ==
  ASSUME NEW n \in Steps, served'[n] = served[n]
  PROVE  \A e \in Int : Sampled(n, e)' <=> Sampled(n, e)
BY DEF Sampled, BatchOf, Batch

\* A step that neither trains nor starts a process only has to keep the counters.
LEMMA ServedFrame ==
  ASSUME ServedInv, served' = served, TrackedStep \in Nat, TrackedStep' \in Nat,
         Steps \subseteq Nat, run \in Nat, run' \in Nat, run <= run',
         \A n \in Steps : n <= TrackedStep' => n <= TrackedStep \/ (Running /\ n <= StepsApplied),
         Running' => \/ Running /\ UNCHANGED <<run, StepsApplied, pos, epoch>>
                     \/ (\E k \in Nat : RunPasses(k))' /\ Running /\ StepsApplied' = StepsApplied
  PROVE  ServedInv'
<1> USE DEF ServedInv
<1>1. ServedFun'
  BY DEF ServedFun
<1>2. KnownInv'
  BY DEF KnownInv
<1>3. \A n \in Steps, e \in Int : Sampled(n, e)' <=> Sampled(n, e)
  BY SameServed
<1>4. OrderInv'
  <2> SUFFICES ASSUME NEW n \in Steps, served[n] # NotServed
               PROVE  /\ served[n].by \in 1 .. run'
                      /\ \E e \in Int : Sampled(n, e)' /\ (DataEpoch(n) = 0 => e = 0)
    BY DEF OrderInv, DataEpoch, NotServed
  <2>1. served[n].by \in 1 .. run /\ \E e \in Int : Sampled(n, e) /\ (DataEpoch(n) = 0 => e = 0)
    BY DEF OrderInv
  <2> QED
    BY <1>3, <2>1
<1>5. SameOrderInv'
  BY <1>3 DEF SameOrderInv, SameOrder, DataEpoch, NotServed
<1>6. RunInv'
  <2> SUFFICES ASSUME Running', Running, UNCHANGED <<run, StepsApplied, pos, epoch>>
               PROVE  (\E k \in Nat : RunPasses(k))'
    BY DEF RunInv
  <2>1. PICK k \in Nat : RunPasses(k)
    BY DEF RunInv
  <2>2. \A n \in Steps : OwnOrder(n, k)'
    BY <2>1 DEF RunPasses, OwnOrder, DataEpoch, NotServed, Sampled, BatchOf, Batch
  <2>3. RunPasses(k)'
    BY <2>1, <2>2 DEF RunPasses, Passes
  <2> QED
    BY <2>3
<1> QED
  BY <1>1, <1>2, <1>4, <1>5, <1>6

LEMMA ServeKeeps ==
  ASSUME TypeInv, ServedInv, ServeBatch
  PROVE  ServedInv'
<1> USE GlobalStepsType
<1> DEFINE s == global_steps - 1
<1>1. /\ pc = "loop" /\ pos < BatchesPerEpoch /\ pc' = "check" /\ pos' = pos + 1
      /\ UNCHANGED <<run, global_steps, epoch, tracker>> /\ Running /\ Running'
      /\ served' = [served EXCEPT ![global_steps] =
                      [by |-> run, rows |-> Batch(epoch, pos + 1)]]
  BY DEF ServeBatch, TrainStep, Running
<1>2. /\ global_steps \in Steps /\ s \in Nat /\ StepsApplied = s /\ global_steps = s + 1
      /\ StepsApplied' = s + 1 /\ pos \in 0 .. (BatchesPerEpoch - 1)
      /\ run \in Nat \ {0} /\ epoch \in 0 .. (Epochs - 1)
      /\ TrackedStep \in Nat /\ TrackedStep' = TrackedStep
  <2>1. run \in Nat \ {0} /\ epoch \in 0 .. (Epochs - 1)
    BY <1>1 DEF TypeInv, RunBound, ControlType, MemoryType
  <2>2. global_steps \in Nat \ {0} /\ StepsApplied = s /\ StepsApplied' = global_steps
    BY <1>1 DEF StepsApplied
  <2>3. TrackedStep' = TrackedStep
    BY <1>1 DEF TrackedStep
  <2> QED
    BY <1>1, <2>1, <2>2, <2>3
<1>3. PICK k \in Nat : RunPasses(k)
  BY <1>1 DEF ServedInv, RunInv
<1>4. DataEpoch(global_steps) = k /\ BatchOf(global_steps) = pos + 1 /\ epoch <= k
  <2>1. Passes(s, pos, k) /\ epoch <= k
    BY <1>2, <1>3 DEF RunPasses
  <2> QED
    BY <1>2, <2>1, PlaceOf
<1> HIDE DEF s
<1>5. /\ ServedFun'
      /\ served'[global_steps] = [by |-> run, rows |-> Batch(epoch, pos + 1)]
      /\ \A n \in Steps : n # global_steps => served'[n] = served[n]
  BY <1>1, <1>2 DEF ServedInv, ServedFun
<1>6. /\ served'[global_steps] # NotServed /\ served'[global_steps].by = run
      /\ Sampled(global_steps, epoch)'
  <2>1. served'[global_steps].by = run /\ served'[global_steps].rows = Batch(epoch, pos + 1)
    BY <1>5
  <2>2. NotServed.by = 0
    BY DEF NotServed
  <2>3. served'[global_steps].rows = Batch(epoch, BatchOf(global_steps))
    BY <1>4, <2>1
  <2> QED
    BY <1>1, <1>2, <2>1, <2>2, <2>3 DEF Sampled, Batch, BatchOf
<1>7. \A n \in Steps, e \in Int : n # global_steps => (Sampled(n, e)' <=> Sampled(n, e))
  BY <1>5, SameServed
<1>8. KnownInv'
  <2> SUFFICES ASSUME NEW n \in Steps, n # global_steps, n <= TrackedStep \/ n <= s + 1
               PROVE  served[n] # NotServed
    BY <1>1, <1>2, <1>5, <1>6 DEF KnownInv, NotServed
  <2>1. n <= TrackedStep \/ n <= s
    BY <1>2
  <2> QED
    BY <1>1, <1>2, <2>1 DEF ServedInv, KnownInv
<1>9. OrderInv'
  <2> SUFFICES ASSUME NEW n \in Steps, served'[n] # NotServed
               PROVE  /\ served'[n].by \in 1 .. run
                      /\ \E e \in Int : Sampled(n, e)' /\ (DataEpoch(n) = 0 => e = 0)
    BY <1>1 DEF OrderInv, DataEpoch, NotServed
  <2>1. CASE n = global_steps
    <3>1. run \in 1 .. run /\ epoch \in Int /\ (DataEpoch(n) = 0 => epoch = 0)
      BY <1>2, <1>4, <2>1
    <3> QED
      BY <1>1, <1>6, <2>1, <3>1
  <2>2. CASE n # global_steps
    <3>1. served[n] # NotServed
      BY <1>5, <2>2
    <3>2. served[n].by \in 1 .. run /\ \E e \in Int : Sampled(n, e) /\ (DataEpoch(n) = 0 => e = 0)
      BY <3>1 DEF ServedInv, OrderInv
    <3>3. PICK e \in Int : Sampled(n, e) /\ (DataEpoch(n) = 0 => e = 0)
      BY <3>2
    <3>4. Sampled(n, e)'
      BY <1>7, <2>2, <3>3
    <3>5. served'[n].by \in 1 .. run
      BY <1>5, <2>2, <3>2
    <3> QED
      BY <3>3, <3>4, <3>5
  <2> QED
    BY <2>1, <2>2
<1>10. \A n \in Steps : OwnOrder(n, k)'
  <2> SUFFICES ASSUME NEW n \in Steps, served'[n] # NotServed, served'[n].by = run
               PROVE  n <= s + 1 /\ Sampled(n, (DataEpoch(n) + epoch) - k)'
    BY <1>1, <1>2 DEF OwnOrder, DataEpoch, NotServed
  <2>1. CASE n = global_steps
    <3>1. (DataEpoch(n) + epoch) - k = epoch
      BY <1>2, <1>4, <2>1
    <3> QED
      BY <1>1, <1>2, <1>6, <2>1, <3>1 DEF Sampled, DataEpoch
  <2>2. CASE n # global_steps
    <3>1. n <= s /\ Sampled(n, (DataEpoch(n) + epoch) - k)
      BY <1>2, <1>3, <1>5, <2>2 DEF RunPasses, OwnOrder
    <3>2. served'[n] = served[n] /\ n \in Nat
      BY <1>5, <2>2
    <3>3. n <= s + 1
      BY <1>2, <3>1, <3>2
    <3>4. ((DataEpoch(n) + epoch) - k)' = (DataEpoch(n) + epoch) - k
      BY <1>1 DEF DataEpoch
    <3> DEFINE e == (DataEpoch(n) + epoch) - k
    <3>5. e' = e /\ Sampled(n, e)
      BY <3>1, <3>4
    <3> HIDE DEF e
    <3>6. Sampled(n, e)'
      BY <3>2, <3>5 DEF Sampled
    <3> QED
      BY <3>3, <3>6 DEF e
  <2> QED
    BY <2>1, <2>2
<1>11. RunPasses(k)'
  <2>1. Passes(StepsApplied, pos, k)' /\ epoch' <= k
    BY <1>1, <1>2, <1>3 DEF RunPasses, Passes
  <2> QED
    BY <1>10, <2>1 DEF RunPasses
<1>12. SameOrderInv'
  <2> SUFFICES ASSUME NEW m \in Steps, NEW n \in Steps,
                      served'[m] # NotServed, served'[n] # NotServed,
                      served'[m].by = served'[n].by, DataEpoch(m) = DataEpoch(n)
               PROVE  \E e \in Int : Sampled(m, e)' /\ Sampled(n, e)'
    BY DEF SameOrderInv, SameOrder, DataEpoch, NotServed
  <2>1. CASE served'[n].by = run
    <3> DEFINE e == (DataEpoch(n) + epoch) - k
    <3>1. Sampled(m, e)' /\ Sampled(n, e)'
      BY <1>1, <1>10, <2>1 DEF OwnOrder, NotServed, DataEpoch
    <3>2. e' \in 0 .. (Epochs - 1)
      BY <3>1 DEF Sampled
    <3> QED
      BY <3>1, <3>2
  <2>2. CASE served'[n].by # run
    <3>1. m # global_steps /\ n # global_steps
      BY <1>6, <2>2
    <3>2. served'[m] = served[m] /\ served'[n] = served[n]
      BY <1>5, <3>1
    <3>3. SameOrder(m, n)
      BY DEF ServedInv, SameOrderInv
    <3> QED
      BY <1>7, <3>1, <3>2, <3>3 DEF SameOrder
  <2> QED
    BY <2>1, <2>2
<1> QED
  BY <1>5, <1>8, <1>9, <1>11, <1>12 DEF ServedInv, RunInv

\* What was trained after the loaded step is forgotten, and the new process has trained
\* nothing yet.
LEMMA ResetKeeps ==
  ASSUME ServedInv, NEW s \in Nat, run \in Nat, run' = run + 1,
         served' = [n \in Steps |-> IF n < s + 1 THEN served[n] ELSE NotServed],
         StepsApplied' = s, TrackedStep' <= s, Steps \subseteq Nat, TrackedStep' \in Nat,
         \A n \in Steps : n <= s => served[n] # NotServed,
         NEW k \in Nat, Passes(s, pos, k)', epoch' = 0
  PROVE  ServedInv'
<1>1. \A n \in Steps : /\ n <= s => served'[n] = served[n]
                       /\ ~(n <= s) => served'[n] = NotServed
  OBVIOUS
<1>2. ServedFun'
  BY DEF ServedFun
<1>3. KnownInv'
  <2> SUFFICES ASSUME NEW n \in Steps, n <= TrackedStep' \/ n <= s
               PROVE  served'[n] # NotServed
    BY DEF KnownInv, NotServed
  <2>1. n \in Nat /\ n <= s
    OBVIOUS
  <2> QED
    BY <1>1, <2>1
<1>4. \A n \in Steps : served'[n] # NotServed =>
         /\ served'[n] = served[n] /\ served[n] # NotServed
         /\ \A e \in Int : Sampled(n, e)' <=> Sampled(n, e)
  BY <1>1, SameServed
<1>5. \A n \in Steps : served'[n] # NotServed => served'[n].by \in 1 .. run
  BY <1>4 DEF ServedInv, OrderInv
<1>6. OrderInv'
  <2> SUFFICES ASSUME NEW n \in Steps, served'[n] # NotServed
               PROVE  /\ served'[n].by \in 1 .. run'
                      /\ \E e \in Int : Sampled(n, e)' /\ (DataEpoch(n) = 0 => e = 0)
    BY DEF OrderInv, DataEpoch, NotServed
  <2>1. PICK e \in Int : Sampled(n, e) /\ (DataEpoch(n) = 0 => e = 0)
    BY <1>4 DEF ServedInv, OrderInv
  <2>2. Sampled(n, e)'
    BY <1>4, <2>1
  <2>3. served'[n].by \in 1 .. run'
    BY <1>5
  <2> QED
    BY <2>1, <2>2, <2>3
<1>7. SameOrderInv'
  BY <1>4 DEF ServedInv, SameOrderInv, SameOrder, DataEpoch, NotServed
<1>8. RunPasses(k)'
  <2>1. \A n \in Steps : OwnOrder(n, k)'
    <3>1. \A n \in Steps : served'[n] # NotServed => served'[n].by # run'
      <4>1. run' \notin 1 .. run
        OBVIOUS
      <4> QED
        BY <1>5, <4>1
    <3> QED
      BY <3>1 DEF OwnOrder, NotServed
  <2> QED
    BY <2>1 DEF RunPasses, Passes
<1> QED
  BY <1>2, <1>3, <1>6, <1>7, <1>8 DEF ServedInv, RunInv

LEMMA StepServed ==
  ASSUME TypeInv, TrackedIsWhole, FollowInv, ServedInv, SafeRetention, [SampledNext]_sampledVars
  PROVE  ServedInv'
<1> USE GlobalStepsType
<1>1. run \in Nat /\ TypeInv' /\ Steps \subseteq Nat /\ TrackedStep \in Nat /\ TrackedStep' \in Nat
  <2>1. TypeInv'
    BY SampledStep, StepTypeInv
  <2>2. TrackedStep' \in Nat
    BY <2>1 DEF TrackedStep, Steps
  <2> QED
    BY <2>1, <2>2 DEF TypeInv, ControlType
<1>2. CASE StartFromScratch /\ StartSampling
  <2>1. /\ StepsApplied' = 0 /\ run' = run + 1 /\ epoch' = 0 /\ pos' = 0
        /\ tracker' = tracker /\ global_steps' = 0 + 1
    BY <1>2 DEF StartFromScratch, FreshMemory, FirstStep, StepsApplied
  <2>2. TrackedStep' = 0
    BY <1>2, <2>1, StartsFromTracked DEF TrackedStep
  <2>3. Passes(0, pos, 0)' /\ 0 \in Nat
    BY <2>1 DEF Passes
  <2>4. served' = [n \in Steps |-> IF n < 0 + 1 THEN served[n] ELSE NotServed]
    BY <1>2, <2>1 DEF StartSampling
  <2>5. \A n \in Steps : n <= 0 => served[n] # NotServed
    BY <1>1
  <2> QED
    BY <1>1, <2>1, <2>2, <2>3, <2>4, <2>5, ResetKeeps
<1>3. ASSUME NEW n \in Steps, Resume(n), StartSampling PROVE ServedInv'
  <2>1. n = tracker /\ disk["data"][n].st = "whole" /\ TrackedStep = n
    BY <1>3, StartsFromTracked, PiecesFacts DEF TrackedIsWhole, Whole, TrackedStep
  <2>2. PICK k \in Nat : Passes(n, disk["data"][n].val, k)
    BY <2>1 DEF FollowInv
  <2>3. /\ StepsApplied' = n /\ run' = run + 1 /\ epoch' = 0 /\ pos' = disk["data"][n].val
        /\ tracker' = tracker /\ global_steps' = n + 1 /\ TrackedStep' = n
    BY <1>1, <1>3, <2>1 DEF Resume, FirstStep, StepsApplied, TrackedStep
  <2>4. served' = [m \in Steps |-> IF m < n + 1 THEN served[m] ELSE NotServed]
    BY <1>3, <2>3 DEF StartSampling
  <2>5. \A m \in Steps : m <= n => served[m] # NotServed
    BY <2>1 DEF ServedInv, KnownInv
  <2>6. Passes(n, pos, k)'
    BY <2>2, <2>3 DEF Passes
  <2> QED
    BY <1>1, <2>3, <2>4, <2>5, <2>6, ResetKeeps
<1>4. CASE ServeBatch
  BY <1>4, ServeKeeps
<1>5. CASE NextEpoch /\ served' = served
  <2>1. /\ pos = BatchesPerEpoch /\ pos' = 0 /\ epoch' = epoch + 1 /\ Running
        /\ UNCHANGED <<pc, run, global_steps, tracker>>
        /\ UNCHANGED <<StepsApplied, TrackedStep>>
    BY <1>5 DEF NextEpoch, Running, StepsApplied, TrackedStep
  <2>2. PICK k \in Nat : RunPasses(k)
    BY <2>1 DEF ServedInv, RunInv
  <2>3. Passes(StepsApplied, 0, k + 1) /\ epoch + 1 <= k + 1 /\ k + 1 \in Nat
    BY <1>1, <2>1, <2>2, NextPass DEF RunPasses
  <2>4. \A n \in Steps : OwnOrder(n, k + 1)'
    <3> SUFFICES ASSUME NEW n \in Steps, served[n] # NotServed, served[n].by = run
                 PROVE  n <= StepsApplied /\ Sampled(n, (DataEpoch(n) + (epoch + 1)) - (k + 1))
      BY <1>5, <2>1 DEF OwnOrder, Sampled, DataEpoch, NotServed, Batch, BatchOf
    <3>1. n <= StepsApplied /\ Sampled(n, (DataEpoch(n) + epoch) - k)
      BY <2>2 DEF RunPasses, OwnOrder
    <3>2. DataEpoch(n) \in Int
      <4>1. n - 1 \in Nat
        BY <1>1
      <4>2. (n - 1) \div BatchesPerEpoch \in Nat
        BY <4>1, ModFacts
      <4> QED
        BY <4>2 DEF DataEpoch
    <3>3. (DataEpoch(n) + (epoch + 1)) - (k + 1) = (DataEpoch(n) + epoch) - k
      BY <3>2
    <3> QED
      BY <3>1, <3>3
  <2>5. RunPasses(k + 1)'
    BY <2>1, <2>3, <2>4 DEF RunPasses, Passes
  <2>6. (\E j \in Nat : RunPasses(j))'
    BY <2>3, <2>5
  <2>7. \A n \in Steps : n <= TrackedStep' => n <= TrackedStep
    BY <2>1
  <2> QED
    BY <1>1, <1>5, <2>1, <2>6, <2>7, ServedFrame
<1>6. CASE WriteTracker /\ served' = served
  <2>1. /\ pc = "tracker" /\ pc' = "end" /\ Running /\ TrackedStep' = StepsApplied
        /\ UNCHANGED <<run, StepsApplied, pos, epoch>>
    BY <1>6 DEF WriteTracker, memory, Running, StepsApplied, TrackedStep
  <2>2. \A n \in Steps : n <= TrackedStep' => n <= StepsApplied
    BY <2>1
  <2> QED
    BY <1>1, <1>6, <2>1, <2>2, ServedFrame
<1>7. CASE OpenTracker /\ served' = served
  <2>1. /\ pc = "open" /\ pc' = "tracker" /\ Running /\ TrackedStep' = 0
        /\ UNCHANGED <<run, StepsApplied, pos, epoch>>
    BY <1>7 DEF OpenTracker, memory, Running, StepsApplied, TrackedStep
  <2>2. \A n \in Steps : n <= TrackedStep' => n <= TrackedStep
    BY <1>1, <2>1
  <2> QED
    BY <1>1, <1>7, <2>1, <2>2, ServedFrame
<1>8. CASE (ResumeRaises \/ Crash \/ DataExhausted \/ EndStep) /\ served' = served
  <2>1. /\ UNCHANGED tracker /\ UNCHANGED TrackedStep /\ run <= run' /\ run' \in Nat
        /\ Running' => Running /\ UNCHANGED <<run, pos, epoch>>
    BY <1>1, <1>8 DEF ResumeRaises, Crash, DataExhausted, EndStep, memory, Running, TrackedStep
  <2>2. Running' => UNCHANGED StepsApplied
    BY <1>8 DEF ResumeRaises, Crash, DataExhausted, EndStep, memory, Running, StepsApplied
  <2>3. \A n \in Steps : n <= TrackedStep' => n <= TrackedStep
    BY <2>1
  <2> QED
    BY <1>1, <1>8, <2>1, <2>2, <2>3, ServedFrame
<1>9. CASE /\ \/ BeginSave \/ SkipSave \/ Rotate \/ WriteShards \/ CommitShards
              \/ WriteData \/ CommitData \/ UNCHANGED vars
           /\ served' = served
  <2>1. /\ UNCHANGED <<run, pos, epoch, global_steps, tracker>> /\ UNCHANGED TrackedStep
        /\ Running' => Running
    BY <1>9 DEF BeginSave, SkipSave, Rotate, WriteShards, CommitShards, WriteData, CommitData,
                vars, memory, TrackedStep, Running
  <2>2. UNCHANGED StepsApplied
    BY <1>9 DEF BeginSave, SkipSave, Rotate, WriteShards, CommitShards, WriteData, CommitData,
                vars, memory, StepsApplied
  <2>3. run <= run' /\ run' \in Nat
    BY <1>1, <2>1
  <2>4. \A n \in Steps : n <= TrackedStep' => n <= TrackedStep
    BY <2>1
  <2> QED
    BY <1>1, <1>9, <2>1, <2>2, <2>3, <2>4, ServedFrame
<1> QED
  BY <1>2, <1>3, <1>4, <1>5, <1>6, <1>7, <1>8, <1>9
     DEF SampledNext, SampledLoop, StartSampling, Saving, sampledVars

LEMMA InitServed == SampledInit => ServedInv
<1> SUFFICES ASSUME SampledInit PROVE ServedInv
  OBVIOUS
<1>1. /\ ~Running /\ TrackedStep = 0 /\ \A n \in Steps : ~(n <= TrackedStep)
      /\ \A n \in Steps : served[n] = NotServed
  <2>1. ~Running /\ tracker = 0 /\ served = [n \in Steps |-> NotServed]
    BY DEF SampledInit, Init, Running, NoTracker
  <2>2. \A n \in Steps : n \in Nat \ {0}
    BY ConstantsAssumption DEF Steps
  <2> QED
    BY <2>1, <2>2 DEF TrackedStep
<1>2. ServedFun
  BY DEF SampledInit, ServedFun
<1> QED
  BY <1>1, <1>2 DEF ServedInv, KnownInv, OrderInv, SameOrderInv, SameOrder, RunInv

\* The sampler only watches the loop and its checkpoints.
LEMMA SamplingIsTraining == SampledFairSpec => Spec
<1>1. SampledFairSpec => SampledInit /\ [][SampledNext]_sampledVars
  BY PTL DEF SampledFairSpec
<1>2. SampledInit => Init
  BY DEF SampledInit
<1> QED
  BY <1>1, <1>2, SampledStep, PTL DEF Spec

LEMMA ServedInvAlways ==
  ASSUME SafeRetention
  PROVE  SampledFairSpec => []ServedInv
<1>1. SampledFairSpec => SampledInit /\ [][SampledNext]_sampledVars
  BY PTL DEF SampledFairSpec
<1>2. TypeInv /\ TrackInv /\ FollowInv /\ ServedInv /\ [SampledNext]_sampledVars => ServedInv'
  BY StepServed DEF TrackInv
<1> QED
  BY <1>1, <1>2, InitServed, SamplingIsTraining, TypeInvAlways, TrackInvAlways,
     FollowInvAlways, PTL

-----------------------------------------------------------------------------
(* What a batch is made of. *)

\* The rows of a prompt in a batch are all its rollouts.
LEMMA GroupRows ==
  ASSUME OwnGroups, NEW e \in 0 .. (Epochs - 1), NEW b \in 1 .. BatchesPerEpoch,
         NEW k0 \in 1 .. TrainBatchSize, NEW p, p = Base(e, b, k0)
  PROVE  {Batch(e, b)[k] : k \in {k \in 1 .. TrainBatchSize : PromptOf(Batch(e, b)[k]) = p}}
           = (p * RolloutN) .. (p * RolloutN + RolloutN - 1)
<1> USE SamplerTypes
<1> DEFINE q == (k0 - 1) \div RolloutN
           first == p * RolloutN
           last == p * RolloutN + RolloutN - 1
           rows == {Batch(e, b)[k] : k \in {k \in 1 .. TrainBatchSize :
                                              PromptOf(Batch(e, b)[k]) = p}}
<1>1. p \in Nat /\ p * RolloutN \in Nat
  BY BatchRow
<1>2. q \in Nat /\ q < GroupsPerBatch
  BY PlaceRange
<1>3. ASSUME NEW k \in 1 .. TrainBatchSize, PromptOf(Batch(e, b)[k]) = p
      PROVE  Batch(e, b)[k] \in first .. last
  <2> DEFINE r == (k - 1) % RolloutN
  <2>1. Batch(e, b)[k] = p * RolloutN + r /\ r \in 0 .. (RolloutN - 1)
    BY <1>3, BatchRow
  <2> HIDE DEF r
  <2> QED
    BY <1>1, <2>1
<1>4. ASSUME NEW x \in first .. last
      PROVE  \E k \in 1 .. TrainBatchSize : PromptOf(Batch(e, b)[k]) = p /\ Batch(e, b)[k] = x
  <2> DEFINE j == x - first
             k == q * RolloutN + j + 1
  <2>1. j \in 0 .. (RolloutN - 1) /\ x = p * RolloutN + j
    BY <1>1
  <2> HIDE DEF j
  <2>2. k \in 1 .. TrainBatchSize /\ k - 1 = q * RolloutN + j
    <3> HIDE DEF q
    <3>1. (q + 1) * RolloutN <= GroupsPerBatch * RolloutN
      BY <1>2, Multiples
    <3>2. (q + 1) * RolloutN = q * RolloutN + RolloutN /\ q * RolloutN \in Nat
      BY <1>2
    <3> DEFINE y == q * RolloutN
               z == GroupsPerBatch * RolloutN
    <3>3. y \in Nat /\ y + RolloutN <= z /\ z = TrainBatchSize
      BY <3>1, <3>2
    <3> HIDE DEF y, z
    <3>4. y + j + 1 \in 1 .. TrainBatchSize /\ (y + j + 1) - 1 = y + j
      BY <2>1, <3>3
    <3> QED
      BY <3>4 DEF y
  <2> HIDE DEF k
  <2>3. (k - 1) \div RolloutN = q /\ (k - 1) % RolloutN = j
    <3> HIDE DEF q
    <3>1. (q * RolloutN + j) \div RolloutN = q /\ (q * RolloutN + j) % RolloutN = j
      BY <1>2, <2>1, QuotientOf
    <3> QED
      BY <2>2, <3>1
  <2>4. Base(e, b, k) = p
    BY <2>3 DEF Base, Slot
  <2>5. PromptOf(Batch(e, b)[k]) = p /\ Batch(e, b)[k] = p * RolloutN + j
    BY <2>2, <2>3, <2>4, BatchRow
  <2> QED
    BY <2>1, <2>2, <2>5
<1> HIDE DEF first, last
<1>5. rows = first .. last
  <2>1. rows \subseteq first .. last
    BY <1>3
  <2>2. first .. last \subseteq rows
    BY <1>4
  <2> QED
    BY <2>1, <2>2
<1> QED
  BY <1>5 DEF first, last

\* Two batches of one order share no prompt.
LEMMA BatchesApart ==
  ASSUME OwnGroups, NEW e \in 0 .. (Epochs - 1),
         NEW a \in 1 .. BatchesPerEpoch, NEW b \in 1 .. BatchesPerEpoch, a < b,
         NEW j \in 1 .. TrainBatchSize, NEW k \in 1 .. TrainBatchSize
  PROVE  PromptOf(Batch(e, a)[j]) # PromptOf(Batch(e, b)[k])
<1> USE SamplerTypes
<1>1. Slot(a, j) <= a * GroupsPerBatch /\ Slot(a, j) \in 1 .. BaseLen /\ a * GroupsPerBatch \in Nat
  BY SlotRange
<1>2. /\ (b - 1) * GroupsPerBatch < Slot(b, k) /\ Slot(b, k) \in 1 .. BaseLen
      /\ (b - 1) * GroupsPerBatch \in Nat
  BY SlotRange
<1>3. a * GroupsPerBatch <= (b - 1) * GroupsPerBatch
  <2>1. a \in Nat /\ b - 1 \in Nat /\ a <= b - 1
    OBVIOUS
  <2> QED
    BY <2>1, Multiples
<1> DEFINE x == a * GroupsPerBatch
           y == (b - 1) * GroupsPerBatch
<1>4. Slot(a, j) # Slot(b, k)
  <2>1. Slot(a, j) <= x /\ x <= y /\ y < Slot(b, k) /\ x \in Nat /\ y \in Nat
    BY <1>1, <1>2, <1>3
  <2> HIDE DEF x, y
  <2> QED
    BY <1>1, <1>2, <2>1
<1>5. Permutation[e][Slot(a, j)] # Permutation[e][Slot(b, k)]
  BY <1>1, <1>2, <1>4, SamplerAssumption
<1> QED
  BY <1>5, BatchRow DEF Base

LEMMA StepBatch ==
  ASSUME NEW m \in Nat \ {0}, NEW n \in Nat \ {0}
  PROVE  /\ BatchOf(m) \in 1 .. BatchesPerEpoch
         /\ m # n /\ DataEpoch(m) = DataEpoch(n) => BatchOf(m) # BatchOf(n)
<1> DEFINE x == m - 1
           y == n - 1
           d == BatchesPerEpoch
<1>1. d \in Nat \ {0}
  BY ConstantsAssumption
<1>2. x \in Nat /\ y \in Nat /\ m = x + 1 /\ n = y + 1
  OBVIOUS
<1> HIDE DEF x, y, d
<1>3. /\ x % d \in 0 .. (d - 1) /\ y % d \in 0 .. (d - 1)
      /\ x = d * (x \div d) + (x % d) /\ y = d * (y \div d) + (y % d)
  BY <1>1, <1>2, ModFacts
<1>4. /\ BatchOf(m) = (x % d) + 1 /\ BatchOf(n) = (y % d) + 1
      /\ DataEpoch(m) = x \div d /\ DataEpoch(n) = y \div d
  BY DEF BatchOf, DataEpoch, x, y, d
<1>5. BatchOf(m) \in 1 .. d
  BY <1>1, <1>3, <1>4
<1>6. ASSUME x \div d = y \div d, x % d = y % d PROVE m = n
  BY <1>2, <1>3, <1>6
<1>7. BatchOf(m) = BatchOf(n) => x % d = y % d
  BY <1>1, <1>3, <1>4
<1> QED
  BY <1>4, <1>5, <1>6, <1>7 DEF d

LEMMA ServedGroups ==
  ASSUME OwnGroups, NEW n \in Nat \ {0}, NEW e, Sampled(n, e)
  PROVE  GroupsWhole(n)
<1> SUFFICES ASSUME NEW p \in PromptsOf(n)
             PROVE  Cardinality({served[n].rows[k] : k \in
                       {k \in 1 .. TrainBatchSize : PromptOf(served[n].rows[k]) = p}}) = RolloutN
  BY DEF GroupsWhole
<1> DEFINE b == BatchOf(n)
<1>1. b \in 1 .. BatchesPerEpoch /\ served[n].rows = Batch(e, b) /\ e \in 0 .. (Epochs - 1)
  BY StepBatch DEF Sampled
<1>2. PICK k0 \in 1 .. TrainBatchSize : p = PromptOf(Batch(e, b)[k0])
  BY <1>1 DEF PromptsOf
<1> HIDE DEF b
<1>3. p = Base(e, b, k0) /\ p \in Nat
  BY <1>1, <1>2, BatchRow
<1>4. {served[n].rows[k] : k \in {k \in 1 .. TrainBatchSize : PromptOf(served[n].rows[k]) = p}}
        = (p * RolloutN) .. (p * RolloutN + RolloutN - 1)
  BY <1>1, <1>3, GroupRows
<1> DEFINE x == p * RolloutN
<1>5. x \in Int /\ x + RolloutN - 1 \in Int /\ (x + RolloutN - 1) - x + 1 = RolloutN /\ x <= x + RolloutN - 1
  <2>1. x \in Nat /\ RolloutN \in Nat \ {0}
    BY <1>3, SamplerTypes
  <2> HIDE DEF x
  <2> QED
    BY <2>1
<1> HIDE DEF x
<1>6. Cardinality(x .. (x + RolloutN - 1)) = RolloutN
  BY <1>5, FS_Interval
<1> QED
  BY <1>4, <1>6 DEF x

LEMMA ServedApart ==
  ASSUME OwnGroups, NEW m \in Nat \ {0}, NEW n \in Nat \ {0}, NEW e,
         Sampled(m, e), Sampled(n, e), m # n, DataEpoch(m) = DataEpoch(n)
  PROVE  PromptsOf(m) \cap PromptsOf(n) = {}
<1>1. /\ BatchOf(m) \in 1 .. BatchesPerEpoch /\ BatchOf(n) \in 1 .. BatchesPerEpoch
      /\ BatchOf(m) # BatchOf(n)
  BY StepBatch
<1>2. /\ e \in 0 .. (Epochs - 1)
      /\ served[m].rows = Batch(e, BatchOf(m)) /\ served[n].rows = Batch(e, BatchOf(n))
  BY DEF Sampled
<1>3. BatchOf(m) < BatchOf(n) \/ BatchOf(n) < BatchOf(m)
  BY <1>1, ConstantsAssumption
<1>4. \A j, k \in 1 .. TrainBatchSize : PromptOf(served[m].rows[j]) # PromptOf(served[n].rows[k])
  BY <1>1, <1>2, <1>3, BatchesApart
<1> QED
  BY <1>4 DEF PromptsOf

\* Whatever died and resumed, the steps that made the weights were trained on whole groups,
\* and no two of one pass on the same prompt (the position in data.pt and the order of the
\* sampler's epoch belong together as long as nobody leaves the pass).
THEOREM PassesServeOnce ==
  ASSUME SafeRetention, OwnGroups
  PROVE  SampledFairSpec => []EpochServesEachPrompt
<1>1. TypeInv /\ ServedInv /\ DataFollowsSteps => EpochServesEachPrompt
  <2> SUFFICES ASSUME TypeInv, ServedInv, pc = "loop", NEW n \in 1 .. (global_steps - 1)
               PROVE  /\ served[n] # NotServed /\ GroupsWhole(n)
                      /\ \A m \in 1 .. (n - 1) :
                            /\ DataEpoch(m) = DataEpoch(n)
                            /\ DataEpoch(n) = 0 \/ served[m].by = served[n].by
                            => PromptsOf(m) \cap PromptsOf(n) = {}
    BY DEF EpochServesEachPrompt
  <2>1. ASSUME NEW i \in 1 .. n
        PROVE  i \in Steps /\ i \in Nat \ {0} /\ served[i] # NotServed
    <3>1. Running /\ global_steps \in Steps /\ StepsApplied = global_steps - 1
      BY GlobalStepsType DEF Running, StepsApplied
    <3>2. i \in Steps /\ i <= StepsApplied
      <4>1. i \in Nat /\ 1 <= i /\ i <= global_steps - 1 /\ global_steps \in Nat
        BY <3>1, GlobalStepsType
      <4>2. TotalSteps + MaxRuns \in Nat /\ global_steps <= TotalSteps + MaxRuns
        BY <3>1, ConstantsAssumption DEF Steps
      <4> QED
        BY <3>1, <4>1, <4>2 DEF Steps
    <3> QED
      BY <3>1, <3>2 DEF ServedInv, KnownInv
  <2>2. n \in 1 .. n /\ n \in Nat
    OBVIOUS
  <2>3. PICK e \in Int : Sampled(n, e) /\ (DataEpoch(n) = 0 => e = 0)
    BY <2>1, <2>2 DEF ServedInv, OrderInv
  <2>4. GroupsWhole(n)
    BY <2>1, <2>2, <2>3, ServedGroups
  <2>5. ASSUME NEW m \in 1 .. (n - 1), DataEpoch(m) = DataEpoch(n),
               DataEpoch(n) = 0 \/ served[m].by = served[n].by
        PROVE  PromptsOf(m) \cap PromptsOf(n) = {}
    <3>1. m \in Steps /\ n \in Steps /\ m # n
          /\ m \in Nat \ {0} /\ n \in Nat \ {0}
          /\ served[m] # NotServed /\ served[n] # NotServed
      <4>1. m \in 1 .. n /\ m # n
        BY <2>2
      <4> QED
        BY <2>1, <2>2, <4>1
    <3>2. \E d \in Int : Sampled(m, d) /\ Sampled(n, d)
      <4>1. CASE DataEpoch(n) = 0
        <5>1. Sampled(m, 0)
          BY <2>5, <3>1, <4>1 DEF ServedInv, OrderInv
        <5> QED
          BY <2>3, <4>1, <5>1
      <4>2. CASE served[m].by = served[n].by
        BY <2>5, <3>1, <4>2 DEF ServedInv, SameOrderInv, SameOrder
      <4> QED
        BY <2>5, <4>1, <4>2
    <3> QED
      BY <2>5, <3>1, <3>2, ServedApart
  <2> QED
    BY <2>1, <2>2, <2>4, <2>5
<1> QED
  BY <1>1, TypeInvAlways, ServedInvAlways, PositionFollows, SamplingIsTraining, PTL
=============================================================================
