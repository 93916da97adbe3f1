--------------------- MODULE CheckpointedTraining_proofs ---------------------
(***************************************************************************)
(* Proofs about CheckpointedTraining for every value of its constants:     *)
(* type correctness, what a resumed process can rely on (the updates in    *)
(* the weights, the completeness and the origin of what it loads), and how *)
(* many checkpoints a process keeps; then, for automatic resume and room   *)
(* for more than one checkpoint, what a process that dies loses, what a    *)
(* finished job leaves behind, and that the training loop with its files   *)
(* implements ResumableTraining.                                           *)
(***************************************************************************)
EXTENDS CheckpointedTraining, FiniteSetTheorems, SequenceTheorems, TLAPS

\* The step numbers k starts of the program can reach: each passes TotalSteps by
\* at most one step.
Reached(k) == 1 .. (TotalSteps + k - 1)

RunBound == Running => run >= 1 /\ global_steps \in Reached(run)
DiskBound == \A p \in Pieces, n \in Steps : disk[p][n].st # "absent" => n \in Reached(run)

\* A running process has saved no step beyond the one it is in.
PathsBound == Running =>
    \A r \in Roles : \A i \in 1 .. Len(previous_saved_paths[r]) :
        previous_saved_paths[r][i] \in 1 .. global_steps

TypeInv == ControlType /\ MemoryType /\ DiskType /\ RunBound /\ DiskBound /\ PathsBound

LEMMA PiecesFacts ==
    /\ Roles \subseteq {"actor", "critic"}
    /\ "actor" \in Roles
    /\ "data" \in Pieces /\ "data" \notin Roles
    /\ Roles \subseteq Pieces /\ Pieces = Roles \cup {"data"}
    /\ UseCritic => "critic" \in Roles
BY ConstantsAssumption DEF Roles, Pieces

LEMMA ReachedFacts ==
  ASSUME NEW k \in Nat
  PROVE  /\ k <= MaxRuns => Reached(k) \subseteq Steps
         /\ \A j \in Nat : k <= j => Reached(k) \subseteq Reached(j)
         /\ \A n \in Reached(k) : n + 1 \in Reached(k + 1)
         /\ 1 \in Reached(k + 1)
         /\ \A n \in Reached(k) : n < TotalSteps /\ k >= 1 => n + 1 \in Reached(k)
BY ConstantsAssumption DEF Reached, Steps

LEMMA UpTo ==
  ASSUME NEW s \in Nat, NEW n \in 1 .. s
  PROVE  n \in 1 .. (s + 1)
OBVIOUS

LEMMA InitTypeInv == Init => TypeInv
<1> USE ConstantsAssumption, PiecesFacts DEF Init
<1>1. Init => ControlType /\ RunBound /\ PathsBound
  BY DEF ControlType, RunBound, PathsBound, Running, NoTracker, EmptyTracker
<1>2. Init => MemoryType
  BY DEF MemoryType
<1>3. Init => DiskType /\ DiskBound
  BY DEF DiskType, DiskBound, PieceType, Absent
<1> QED
  BY <1>1, <1>2, <1>3 DEF TypeInv

\* What an action leaves of the directory tree is still a directory tree.
LEMMA DiskFrame ==
  ASSUME DiskType, DiskBound, UNCHANGED disk, Reached(run) \subseteq Reached(run')
  PROVE  DiskType' /\ DiskBound'
BY DEF DiskType, DiskBound

LEMMA DiskUpdate ==
  ASSUME DiskType, DiskBound, UNCHANGED run, run \in Nat,
         NEW p \in Pieces, NEW f \in [Steps -> PieceType],
         p = "data" => \A n \in Steps : f[n].val <= BatchesPerEpoch,
         \A n \in Steps : f[n].st # "absent" => n \in Reached(run),
         disk' = [disk EXCEPT ![p] = f]
  PROVE  DiskType' /\ DiskBound'
<1>1. \A q \in Pieces : disk'[q] = IF q = p THEN f ELSE disk[q]
  BY DEF DiskType
<1>2. DiskType'
  BY <1>1, PiecesFacts DEF DiskType
<1>3. DiskBound'
  BY <1>1 DEF DiskBound, DiskType
<1> QED
  BY <1>2, <1>3

-----------------------------------------------------------------------------
(* The rotation of the checkpoint manager. *)

\* What remains of a list of paths after its first k entries are dropped.
LEMMA DropFirst ==
  ASSUME NEW S, NEW s \in Seq(S), NEW k \in 0 .. Len(s), NEW t, t = SubSeq(s, k + 1, Len(s))
  PROVE  /\ t \in Seq(S) /\ Len(t) \in Nat /\ Len(t) = Len(s) - k
         /\ \A i \in 1 .. Len(t) : i + k \in 1 .. Len(s) /\ t[i] = s[i + k]
<1>1. Len(s) \in Nat
  BY LenProperties
<1>2. t \in Seq(S) /\ Len(t) = Len(s) - k /\ Len(t) \in Nat
  BY <1>1, SubSeqProperties
<1>3. \A i \in 1 .. Len(t) : t[i] = s[i + k]
  BY <1>1, <1>2, SubSeqProperties
<1> QED
  BY <1>1, <1>2, <1>3

\* An appended path is the last entry, the others stay where they are.
LEMMA AppendLast ==
  ASSUME NEW S, NEW s \in Seq(S), NEW x \in S, NEW t, t = Append(s, x)
  PROVE  /\ t \in Seq(S) /\ Len(s) \in Nat /\ Len(t) = Len(s) + 1
         /\ t[Len(t)] = x
         /\ \A i \in 1 .. Len(s) : t[i] = s[i]
         /\ \A i \in 1 .. Len(t) : i # Len(t) => i \in 1 .. Len(s)
<1>1. Len(s) \in Nat
  BY LenProperties
<1> QED
  BY <1>1, AppendProperties

\* The manager never drops more than it has, and with a limit other than one it
\* never drops the newest path.
LEMMA KeepStartRange ==
  ASSUME MemoryType, NEW r \in Roles
  PROVE  /\ KeepStart(r) \in 0 .. Len(previous_saved_paths[r])
         /\ MaxKeep[r] # 1 /\ KeepStart(r) > 0 => KeepStart(r) < Len(previous_saved_paths[r])
<1>1. previous_saved_paths[r] \in Seq(Steps)
  BY DEF MemoryType
<1>2. Len(previous_saved_paths[r]) \in Nat
  BY <1>1, LenProperties
<1>3. MaxKeep[r] \in Nat
  BY ConstantsAssumption, PiecesFacts
<1> QED
  BY <1>2, <1>3 DEF KeepStart

LEMMA VictimsBound ==
  ASSUME TypeInv, Running, NEW r \in Roles, NEW n \in Victims(r)
  PROVE  n \in Steps /\ n \in Reached(run)
<1>1. PICK i \in 1 .. KeepStart(r) : n = previous_saved_paths[r][i]
  BY DEF Victims
<1>2. previous_saved_paths[r] \in Seq(Steps) /\ Len(previous_saved_paths[r]) \in Nat
  BY LenProperties DEF TypeInv, MemoryType
<1>3. i \in 1 .. Len(previous_saved_paths[r])
  BY <1>1, <1>2, KeepStartRange DEF TypeInv
<1>4. n \in Steps /\ n \in 1 .. global_steps
  BY <1>1, <1>2, <1>3, ElementOfSeq DEF TypeInv, PathsBound
<1>5. global_steps \in Reached(run) /\ run \in Nat
  BY DEF TypeInv, RunBound, ControlType
<1> QED
  BY <1>4, <1>5, ConstantsAssumption DEF Reached

-----------------------------------------------------------------------------
(* Type correctness. *)

\* What lies in a directory that is being written.
LEMMA WrittenFacts ==
  ASSUME NEW old \in PieceType, NEW count \in Nat, NEW d \in BeingWritten(old, count)
  PROVE  /\ d \in PieceType /\ d.st # "whole" /\ d.by = old.by
         /\ d.by # 0 => d.val \in {old.val, count}
         /\ d.st = "mixed" => d.by # 0
<1>1. CASE d = [old EXCEPT !.st = "torn"]
  BY <1>1 DEF PieceType
<1>2. CASE old.by # 0 /\ \E val \in {old.val, count} : d = [st |-> "mixed", by |-> old.by, val |-> val]
  BY <1>2 DEF PieceType
<1> QED
  BY <1>1, <1>2 DEF BeingWritten

LEMMA StepTypeInv == TypeInv /\ [Next]_vars => TypeInv'
<1> SUFFICES ASSUME TypeInv, [Next]_vars PROVE TypeInv'
  OBVIOUS
<1> USE ConstantsAssumption, PiecesFacts DEF TypeInv
<1>0. run \in Nat /\ Reached(run) \subseteq Reached(run) /\ Reached(run) \subseteq Reached(run + 1)
  BY ReachedFacts DEF ControlType
<1>1. CASE StartFromScratch
  <2> USE <1>1 DEF StartFromScratch, FreshMemory, FirstStep
  <2>1. ControlType' /\ RunBound' /\ PathsBound'
    BY <1>0, ReachedFacts DEF ControlType, CanStart, Running, RunBound, PathsBound, Steps
  <2>2. MemoryType'
    BY DEF MemoryType
  <2>3. DiskType' /\ DiskBound'
    BY <1>0, DiskFrame
  <2> QED
    BY <2>1, <2>2, <2>3
<1>2. ASSUME NEW n \in Steps, Resume(n) PROVE TypeInv'
  <2> USE <1>2 DEF Resume, FirstStep
  <2>1. FolderExists(n)
    BY DEF ResumePoints, LatestCkpt, Steps
  <2>2. n \in Reached(run)
    BY <2>1 DEF FolderExists, DiskBound
  <2>3. n + 1 \in Reached(run + 1) /\ run + 1 \in Nat /\ run + 1 <= MaxRuns
    BY <1>0, <2>2, ReachedFacts DEF CanStart, ControlType
  <2>8. n + 1 \in Steps
    BY <2>3, ReachedFacts
  <2>9. ControlType' /\ RunBound' /\ PathsBound'
    BY <1>0, <2>3, <2>8 DEF ControlType, CanStart, Running, RunBound, PathsBound, Steps
  <2>4. \A p \in Pieces : disk[p][n] \in PieceType
    BY DEF DiskType
  <2>5. disk["data"][n].val \in 0 .. BatchesPerEpoch
    BY <2>4 DEF DiskType, PieceType
  <2>6. MemoryType'
    <3>1. updates' \in [Roles -> Nat] /\ origin' \in [Pieces -> Nat]
      BY <2>4 DEF PieceType
    <3>2. epoch' \in 0 .. (Epochs - 1) /\ pos' \in 0 .. BatchesPerEpoch
      BY <2>5
    <3>3. previous_saved_paths' \in [Roles -> Seq(Steps)]
      OBVIOUS
    <3> QED
      BY <3>1, <3>2, <3>3 DEF MemoryType
  <2>7. DiskType' /\ DiskBound'
    BY <1>0, DiskFrame
  <2> QED
    BY <2>9, <2>6, <2>7
<1>3. CASE ResumeRaises
  <2> USE <1>3 DEF ResumeRaises, memory
  <2>1. ControlType' /\ RunBound' /\ PathsBound'
    BY DEF ControlType, CanStart, Running, RunBound, PathsBound
  <2>2. MemoryType'
    BY DEF MemoryType
  <2>3. DiskType' /\ DiskBound'
    BY <1>0, DiskFrame
  <2> QED
    BY <2>1, <2>2, <2>3
<1>4. CASE TrainStep
  <2> USE <1>4 DEF TrainStep
  <2>1. ControlType' /\ RunBound' /\ PathsBound'
    BY DEF ControlType, Running, RunBound, PathsBound
  <2>2. MemoryType'
    BY DEF MemoryType
  <2>3. DiskType' /\ DiskBound'
    BY <1>0, DiskFrame
  <2> QED
    BY <2>1, <2>2, <2>3
<1>13. CASE NextEpoch
  <2> USE <1>13 DEF NextEpoch
  <2>1. ControlType' /\ RunBound' /\ PathsBound'
    BY DEF ControlType, Running, RunBound, PathsBound
  <2>2. MemoryType'
    BY DEF MemoryType
  <2>3. DiskType' /\ DiskBound'
    BY <1>0, DiskFrame
  <2> QED
    BY <2>1, <2>2, <2>3
<1>5. CASE DataExhausted \/ BeginSave \/ SkipSave \/ OpenTracker \/ WriteTracker
  <2> USE <1>5 DEF DataExhausted, BeginSave, SkipSave, OpenTracker, WriteTracker, memory
  <2>1. ControlType' /\ RunBound' /\ PathsBound'
    BY DEF ControlType, Running, RunBound, PathsBound
  <2>2. MemoryType'
    <3>1. UNCHANGED memory
      OBVIOUS
    <3> QED
      BY <3>1 DEF MemoryType
  <2>3. DiskType' /\ DiskBound'
    BY <1>0, DiskFrame
  <2> QED
    BY <2>1, <2>2, <2>3
<1>6. CASE EndStep
  <2> USE <1>6 DEF EndStep
  <2>1. global_steps \in Reached(run) /\ run >= 1 /\ run <= MaxRuns
    BY DEF RunBound, Running, ControlType
  <2>5. ~IsLastStep => global_steps + 1 \in Reached(run) /\ global_steps + 1 \in Steps
    BY <1>0, <2>1, ReachedFacts DEF IsLastStep, ControlType
  <2>6. ControlType' /\ RunBound'
    BY <2>1, <2>5 DEF ControlType, Running, RunBound, Steps
  <2>2. MemoryType'
    BY DEF MemoryType
  <2>3. PathsBound'
    BY UpTo DEF PathsBound, Running, ControlType
  <2>4. DiskType' /\ DiskBound'
    BY <1>0, DiskFrame
  <2> QED
    BY <2>6, <2>2, <2>3, <2>4
<1>7. CASE Rotate
  <2> USE <1>7 DEF Rotate, memory
  <2> DEFINE f == [n \in Steps |-> IF n \in Victims(saving) THEN Torn ELSE disk[saving][n]]
  <2>1. ControlType' /\ RunBound' /\ PathsBound' /\ MemoryType'
    BY DEF ControlType, MemoryType, Running, RunBound, PathsBound
  <2>2. saving \in Roles /\ disk[saving] \in [Steps -> PieceType]
    BY DEF DiskType
  <2>3. \A n \in Victims(saving) : n \in Reached(run)
    BY VictimsBound, <2>2 DEF Running
  <2>4. f \in [Steps -> PieceType]
    BY <2>2 DEF PieceType, Torn
  <2>5. \A n \in Steps : f[n].st # "absent" => n \in Reached(run)
    BY <2>2, <2>3 DEF DiskBound
  <2>6. disk' = [disk EXCEPT ![saving] = f]
    BY DEF DiskType
  <2>7. DiskType' /\ DiskBound'
    BY <1>0, <2>2, <2>4, <2>5, <2>6, DiskUpdate
  <2> QED
    BY <2>1, <2>7
<1>8. CASE WriteShards
  <2> USE <1>8 DEF WriteShards
  <2> DEFINE being == BeingWritten(disk[saving][global_steps], updates[saving])
  <2>0. PICK d \in being :
          disk' = [disk EXCEPT ![saving] =
                     [n \in Steps |-> IF n = global_steps THEN d
                                      ELSE IF n \in Victims(saving) THEN Absent ELSE @[n]]]
    OBVIOUS
  <2> DEFINE f == [n \in Steps |-> IF n = global_steps THEN d
                     ELSE IF n \in Victims(saving) THEN Absent ELSE disk[saving][n]]
             old == previous_saved_paths[saving]
             new == SubSeq(old, KeepStart(saving) + 1, Len(old))
             paths == previous_saved_paths
  <2>1. saving \in Roles /\ Running /\ global_steps \in Steps
    BY DEF ControlType, Running
  <2>2. /\ new \in Seq(Steps)
        /\ \A i \in 1 .. Len(new) : \E j \in 1 .. Len(old) : new[i] = old[j]
    <3>1. old \in Seq(Steps) /\ KeepStart(saving) \in 0 .. Len(old)
      BY <2>1, KeepStartRange DEF MemoryType
    <3> DEFINE k == KeepStart(saving)
    <3>2. old \in Seq(Steps) /\ k \in 0 .. Len(old) /\ new = SubSeq(old, k + 1, Len(old))
      BY <3>1
    <3> HIDE DEF being, f, TypeInv, WriteShards, k, new, old
    <3>3. /\ new \in Seq(Steps)
          /\ \A i \in 1 .. Len(new) : i + k \in 1 .. Len(old) /\ new[i] = old[i + k]
      BY <3>2, DropFirst
    <3> QED
      BY <3>3
  <2>3. previous_saved_paths' = [previous_saved_paths EXCEPT ![saving] = new]
    OBVIOUS
  <2>4. ControlType' /\ RunBound'
    BY DEF ControlType, Running, RunBound
  <2>5. MemoryType'
    <3>1. previous_saved_paths' \in [Roles -> Seq(Steps)]
      <4>1. previous_saved_paths \in [Roles -> Seq(Steps)] /\ new \in Seq(Steps)
        BY <2>2 DEF MemoryType
      <4> HIDE DEF new
      <4> QED
        BY <2>3, <4>1
    <3>2. UNCHANGED <<updates, epoch, pos, origin>>
      OBVIOUS
    <3> QED
      BY <3>1, <3>2 DEF MemoryType
  <2>6. PathsBound'
    <3>1. \A r \in Roles : paths'[r] = IF r = saving THEN new ELSE paths[r]
      BY <2>1, <2>3 DEF MemoryType
    <3>2. \A r \in Roles : \A i \in 1 .. Len(paths[r]) : paths[r][i] \in 1 .. global_steps
      BY <2>1 DEF PathsBound
    <3>3. \A i \in 1 .. Len(new) : new[i] \in 1 .. global_steps
      BY <2>1, <2>2, <3>2
    <3> HIDE DEF new
    <3> QED
      BY <3>1, <3>2, <3>3 DEF PathsBound
  <2>7. disk[saving] \in [Steps -> PieceType]
    BY <2>1 DEF DiskType
  <2>8. f \in [Steps -> PieceType]
    <3>1. d \in PieceType
      <4>1. disk[saving][global_steps] \in PieceType /\ updates[saving] \in Nat
        BY <2>1, <2>7 DEF MemoryType
      <4> QED
        BY <2>0, <4>1, WrittenFacts
    <3>2. Absent \in PieceType
      BY DEF PieceType, Absent
    <3> HIDE DEF being
    <3> QED
      BY <2>7, <3>1, <3>2
  <2>9. \A n \in Steps : f[n].st # "absent" => n \in Reached(run)
    BY <2>1, <2>7 DEF DiskBound, Absent, RunBound
  <2>10. disk' = [disk EXCEPT ![saving] = f]
    BY <2>0, <2>1 DEF DiskType
  <2>11. DiskType' /\ DiskBound'
    BY <1>0, <2>1, <2>8, <2>9, <2>10, DiskUpdate
  <2> QED
    BY <2>4, <2>5, <2>6, <2>11
<1>9. CASE CommitShards
  <2> USE <1>9 DEF CommitShards
  <2> DEFINE c == [st |-> "whole", by |-> run, val |-> updates[saving]]
             f == [disk[saving] EXCEPT ![global_steps] = c]
             paths == previous_saved_paths
             new == Append(paths[saving], global_steps)
  <2>1. saving \in Roles /\ Running /\ global_steps \in Steps
    BY DEF ControlType, Running
  <2>2. ControlType' /\ RunBound'
    BY <2>1 DEF ControlType, Running, RunBound, NextPiece
  <2>3. new \in Seq(Steps) /\ paths[saving] \in Seq(Steps)
    BY <2>1, AppendLast DEF MemoryType
  <2>4. MemoryType'
    BY <2>1, <2>3 DEF MemoryType
  <2>5. \A r \in Roles : \A i \in 1 .. Len(paths[r]) : paths[r][i] \in 1 .. global_steps
    BY <2>1 DEF PathsBound
  <2>6. PathsBound'
    <3>1. \A r \in Roles : paths'[r] = IF r = saving THEN new ELSE paths[r]
      BY <2>1 DEF MemoryType
    <3>2. global_steps \in 1 .. global_steps
      BY <2>1 DEF Steps
    <3>3. \A i \in 1 .. Len(new) : new[i] \in 1 .. global_steps
      BY <2>1, <2>3, <2>5, <3>2, AppendLast
    <3> HIDE DEF new
    <3> QED
      BY <2>5, <3>1, <3>3 DEF PathsBound
  <2>7. c \in PieceType /\ disk[saving] \in [Steps -> PieceType]
    BY <1>0, <2>1 DEF DiskType, MemoryType, PieceType
  <2>8. f \in [Steps -> PieceType]
    BY <2>7
  <2>9. \A n \in Steps : f[n].st # "absent" => n \in Reached(run)
    BY <2>1, <2>7 DEF DiskBound, RunBound
  <2>10. disk' = [disk EXCEPT ![saving] = f]
    BY <2>1 DEF DiskType
  <2>11. DiskType' /\ DiskBound'
    BY <1>0, <2>1, <2>8, <2>9, <2>10, DiskUpdate
  <2> QED
    BY <2>2, <2>4, <2>6, <2>11
<1>10. CASE WriteData \/ CommitData
  <2> USE <1>10 DEF WriteData, CommitData, memory
  <2> DEFINE c == IF pc = "data" THEN Torn ELSE [st |-> "whole", by |-> run, val |-> pos]
             f == [disk["data"] EXCEPT ![global_steps] = c]
  <2>1. Running /\ global_steps \in Steps
    BY DEF ControlType, Running
  <2>2. ControlType' /\ RunBound' /\ PathsBound'
    BY <2>1 DEF ControlType, Running, RunBound, PathsBound
  <2>3. MemoryType'
    BY DEF MemoryType
  <2>4. /\ c \in PieceType /\ c.val <= BatchesPerEpoch
        /\ disk["data"] \in [Steps -> PieceType]
    BY <1>0 DEF DiskType, MemoryType, PieceType, Torn
  <2>5. f \in [Steps -> PieceType] /\ \A n \in Steps : f[n].val <= BatchesPerEpoch
    BY <2>1, <2>4 DEF DiskType
  <2>6. \A n \in Steps : f[n].st # "absent" => n \in Reached(run)
    BY <2>1, <2>4 DEF DiskBound, RunBound
  <2>7. disk' = [disk EXCEPT !["data"] = f]
    BY <2>1 DEF DiskType
  <2>8. DiskType' /\ DiskBound'
    BY <1>0, <2>5, <2>6, <2>7, DiskUpdate
  <2> QED
    BY <2>2, <2>3, <2>8
<1>11. CASE Crash
  <2> USE <1>11 DEF Crash, FreshMemory
  <2>1. ControlType' /\ RunBound' /\ PathsBound'
    BY DEF ControlType, Running, RunBound, PathsBound
  <2>2. MemoryType'
    BY DEF MemoryType
  <2>3. DiskType' /\ DiskBound'
    BY <1>0, DiskFrame
  <2> QED
    BY <2>1, <2>2, <2>3
<1>12. CASE UNCHANGED vars
  <2> USE <1>12 DEF vars, memory
  <2>1. ControlType' /\ RunBound' /\ PathsBound'
    BY DEF ControlType, Running, RunBound, PathsBound
  <2>2. MemoryType'
    BY DEF MemoryType
  <2>3. DiskType' /\ DiskBound'
    BY <1>0, DiskFrame
  <2> QED
    BY <2>1, <2>2, <2>3
<1> QED
  BY <1>1, <1>2, <1>3, <1>4, <1>5, <1>6, <1>7, <1>8, <1>9, <1>10, <1>11, <1>12, <1>13
     DEF Next, Start, Loop, Saving

\* Every variable keeps its type, and a process that is up works on a step that
\* exists: the actions of fit, of the save and of the restart agree on their state.
THEOREM TypeCorrect == Spec => []TypeOK
<1>1. Init => TypeInv
  BY InitTypeInv
<1>2. TypeInv /\ [Next]_vars => TypeInv'
  BY StepTypeInv
<1>3. TypeInv => TypeOK
  BY DEF TypeInv, TypeOK
<1> QED
  BY <1>1, <1>2, <1>3, PTL DEF Spec

LEMMA TypeInvAlways == Spec => []TypeInv
BY InitTypeInv, StepTypeInv, PTL DEF Spec

\* However often a finished job is started again, a start adds at most one step
\* past total_training_steps.
THEOREM OvershootBounded == Spec => []OvershootBound
<1>1. TypeInv => OvershootBound
  <2> SUFFICES ASSUME TypeInv, pc = "check" PROVE global_steps <= TotalSteps + run - 1
    BY DEF OvershootBound
  <2>1. global_steps \in Reached(run) /\ run \in Nat
    BY DEF TypeInv, RunBound, Running, ControlType
  <2> QED
    BY <2>1, ConstantsAssumption DEF Reached
<1> QED
  BY <1>1, TypeInvAlways, PTL

-----------------------------------------------------------------------------
(* What each action of the save sequence does to one directory. *)

LEMMA RotateDisk ==
  ASSUME TypeInv, Rotate
  PROVE  /\ saving \in Roles /\ saving \in Pieces
         /\ \A p \in Pieces, n \in Steps :
              disk'[p][n] = IF p = saving /\ n \in Victims(saving) THEN Torn ELSE disk[p][n]
<1>1. saving \in Roles /\ saving \in Pieces
  BY PiecesFacts DEF Rotate
<1> QED
  BY <1>1 DEF Rotate, TypeInv, DiskType

LEMMA WriteShardsDisk ==
  ASSUME TypeInv, WriteShards
  PROVE  /\ saving \in Roles /\ saving \in Pieces
         /\ \A p \in Pieces, n \in Steps :
              p # saving \/ n # global_steps =>
                disk'[p][n] = IF p = saving /\ n \in Victims(saving) THEN Absent ELSE disk[p][n]
         /\ global_steps \in Steps
         /\ LET old == disk[saving][global_steps]
                written == disk'[saving][global_steps]
            IN  /\ written.st # "whole" /\ written.by = old.by
                /\ written.by # 0 => written.val \in {old.val, updates[saving]}
                /\ written.st = "mixed" => written.by # 0
<1>1. saving \in Roles /\ saving \in Pieces /\ global_steps \in Steps
  BY PiecesFacts DEF WriteShards, TypeInv, ControlType, Running
<1>2. PICK d \in BeingWritten(disk[saving][global_steps], updates[saving]) :
        disk' = [disk EXCEPT ![saving] =
                   [n \in Steps |-> IF n = global_steps THEN d
                                    ELSE IF n \in Victims(saving) THEN Absent ELSE @[n]]]
  BY DEF WriteShards
<1>3. disk[saving][global_steps] \in PieceType /\ updates[saving] \in Nat
  BY <1>1 DEF TypeInv, DiskType, MemoryType
<1>4. disk'[saving][global_steps] = d
  BY <1>1, <1>2 DEF TypeInv, DiskType
<1>5. /\ d.st # "whole" /\ d.by = disk[saving][global_steps].by
      /\ d.by # 0 => d.val \in {disk[saving][global_steps].val, updates[saving]}
      /\ d.st = "mixed" => d.by # 0
  BY <1>2, <1>3, WrittenFacts
<1>6. \A p \in Pieces, n \in Steps :
        p # saving \/ n # global_steps =>
          disk'[p][n] = IF p = saving /\ n \in Victims(saving) THEN Absent ELSE disk[p][n]
  BY <1>1, <1>2 DEF TypeInv, DiskType
<1> QED
  BY <1>1, <1>4, <1>5, <1>6

LEMMA CommitDisk ==
  ASSUME TypeInv, CommitShards \/ CommitData
  PROVE  /\ saving \in Pieces /\ global_steps \in Steps
         /\ \A p \in Pieces, n \in Steps :
              disk'[p][n] = IF p = saving /\ n = global_steps
                            THEN [st |-> "whole", by |-> run,
                                  val |-> IF saving \in Roles THEN updates[saving] ELSE pos]
                            ELSE disk[p][n]
<1>1. saving \in Pieces /\ global_steps \in Steps
  BY DEF TypeInv, ControlType, Running, CommitShards, CommitData
<1>2. CASE CommitShards
  BY <1>1, <1>2 DEF CommitShards, TypeInv, DiskType
<1>3. CASE CommitData
  BY <1>1, <1>3, PiecesFacts DEF CommitData, TypeInv, DiskType
<1> QED
  BY <1>1, <1>2, <1>3

LEMMA WriteDataDisk ==
  ASSUME TypeInv, WriteData
  PROVE  /\ global_steps \in Steps
         /\ \A p \in Pieces, n \in Steps :
              disk'[p][n] = IF p = "data" /\ n = global_steps THEN Torn ELSE disk[p][n]
<1>1. global_steps \in Steps
  BY DEF TypeInv, ControlType, Running, WriteData
<1> QED
  BY <1>1, PiecesFacts DEF WriteData, TypeInv, DiskType

-----------------------------------------------------------------------------
(* The number of updates in the weights, in memory and on disk. *)

\* The last step whose update the weights in memory have received.
StepsApplied == IF pc = "loop" THEN global_steps - 1 ELSE global_steps

CountInv ==
    /\ Running => \A r \in Roles : updates[r] = Updates(r, StepsApplied)
    /\ \A r \in Roles, n \in Steps :
          /\ disk[r][n].st \in {"whole", "mixed"} => disk[r][n].by # 0
          /\ disk[r][n].by # 0 => disk[r][n].val = Updates(r, n)

LEMMA UpdatesNext ==
  ASSUME NEW r \in Roles, NEW s \in Nat
  PROVE  /\ Updates(r, 0) = 0
         /\ Updates(r, s + 1) = IF r = "critic" \/ CriticWarmup <= s + 1
                                THEN Updates(r, s) + 1 ELSE Updates(r, s)
BY ConstantsAssumption DEF Updates

\* What a directory that a process wrote holds.
Counted(p, n, d) ==
    /\ d.st \in {"whole", "mixed"} => d.by # 0
    /\ d.by # 0 => d.val = Updates(p, n)

\* A directory that is removed holds nothing.
LEMMA DiskCounts ==
  ASSUME TypeInv, CountInv, NEW q \in Roles, NEW n \in Steps,
         disk'[q][n] \in {disk[q][n], Torn, Absent}
  PROVE  Counted(q, n, disk'[q][n])
BY DEF CountInv, Counted, Torn, Absent

\* A directory that is being written holds the updates of its step, of either save.
LEMMA WriteCounts ==
  ASSUME TypeInv, CountInv, WriteShards, NEW q \in Roles, NEW n \in Steps
  PROVE  Counted(q, n, disk'[q][n])
<1>1. q \in Pieces
  BY PiecesFacts
<1>2. CASE q = saving /\ n = global_steps
  <2>1. updates[q] = Updates(q, n)
    BY <1>2 DEF WriteShards, CountInv, StepsApplied, Running
  <2>2. /\ disk'[q][n].st # "whole" /\ disk'[q][n].by = disk[q][n].by
        /\ disk'[q][n].by # 0 => disk'[q][n].val \in {disk[q][n].val, updates[q]}
        /\ disk'[q][n].st = "mixed" => disk'[q][n].by # 0
    BY <1>2, WriteShardsDisk
  <2> QED
    BY <2>1, <2>2 DEF CountInv, Counted
<1>3. CASE ~(q = saving /\ n = global_steps)
  <2>1. disk'[q][n] \in {disk[q][n], Absent}
    BY <1>1, <1>3, WriteShardsDisk
  <2> QED
    BY <2>1, DiskCounts
<1> QED
  BY <1>2, <1>3

\* A directory that is completed holds the updates of its step, the others what they held.
LEMMA CommitCounts ==
  ASSUME TypeInv, CountInv, CommitShards \/ CommitData, NEW q \in Roles, NEW n \in Steps
  PROVE  Counted(q, n, disk'[q][n])
<1>1. q \in Pieces
  BY PiecesFacts
<1>2. CASE q = saving /\ n = global_steps
  <2>1. disk'[q][n] = [st |-> "whole", by |-> run,
                       val |-> IF saving \in Roles THEN updates[saving] ELSE pos]
    BY <1>1, <1>2, CommitDisk
  <2>2. updates[q] = Updates(q, global_steps)
    BY DEF CommitShards, CommitData, CountInv, StepsApplied, Running
  <2>3. run # 0
    BY DEF TypeInv, RunBound, Running, CommitShards, CommitData
  <2> QED
    BY <1>2, <2>1, <2>2, <2>3 DEF Counted
<1>3. CASE ~(q = saving /\ n = global_steps)
  <2>1. disk'[q][n] = disk[q][n]
    BY <1>1, <1>3, CommitDisk
  <2> QED
    BY <2>1 DEF CountInv, Counted
<1> QED
  BY <1>2, <1>3

LEMMA StepCountInv == TypeInv /\ CountInv /\ [Next]_vars => CountInv'
<1> SUFFICES ASSUME TypeInv, CountInv, [Next]_vars PROVE CountInv'
  OBVIOUS
<1> USE ConstantsAssumption, PiecesFacts
<1>1. CASE StartFromScratch
  BY <1>1, UpdatesNext DEF StartFromScratch, FreshMemory, FirstStep, CountInv, StepsApplied
<1>2. ASSUME NEW n \in Steps, Resume(n) PROVE CountInv'
  <2>1. n \in Int /\ (n + 1) - 1 = n
    BY DEF Steps
  <2> QED
    BY <1>2, <2>1 DEF Resume, FirstStep, CountInv, StepsApplied, Loadable
<1>3. CASE ResumeRaises
  BY <1>3 DEF ResumeRaises, memory, CountInv, StepsApplied, Running
<1>4. CASE TrainStep
  <2>1. global_steps - 1 \in Nat /\ (global_steps - 1) + 1 = global_steps
    BY <1>4 DEF TrainStep, TypeInv, ControlType, Running, Steps
  <2>2. \A r \in Roles : updates[r] = Updates(r, global_steps - 1)
    BY <1>4 DEF TrainStep, CountInv, StepsApplied, Running
  <2>3. \A r \in Roles : updates'[r] = Updates(r, global_steps)
    BY <1>4, <2>1, <2>2, UpdatesNext DEF TrainStep
  <2> QED
    BY <1>4, <2>3 DEF TrainStep, CountInv, StepsApplied
<1>5. CASE NextEpoch
  BY <1>5 DEF NextEpoch, CountInv, StepsApplied, Running
<1>6. CASE DataExhausted \/ BeginSave \/ SkipSave \/ OpenTracker \/ WriteTracker
  <2>1. UNCHANGED <<updates, disk, global_steps>>
    BY <1>6 DEF DataExhausted, BeginSave, SkipSave, OpenTracker, WriteTracker, memory
  <2>2. Running' => Running /\ StepsApplied' = StepsApplied
    <3>1. Running' => pc \notin {"loop", "down", "done", "failed"} /\ pc' # "loop"
      BY <1>6 DEF DataExhausted, BeginSave, SkipSave, OpenTracker, WriteTracker, Running
    <3> QED
      BY <2>1, <3>1 DEF StepsApplied, Running
  <2> QED
    BY <2>1, <2>2 DEF CountInv
<1>7. CASE EndStep
  <2>1. (global_steps + 1) - 1 = global_steps
    BY DEF TypeInv, ControlType
  <2> QED
    BY <1>7, <2>1 DEF EndStep, CountInv, StepsApplied, Running
<1>8. CASE Rotate
  <2>1. \A r \in Roles : Running' => updates'[r] = Updates(r, StepsApplied')
    BY <1>8 DEF Rotate, memory, CountInv, StepsApplied, Running
  <2>2. \A r \in Roles, n \in Steps : disk'[r][n] \in {disk[r][n], Torn, Absent}
    BY <1>8, RotateDisk
  <2> QED
    BY <2>1, <2>2, DiskCounts DEF CountInv, Counted
<1>9. CASE WriteShards
  <2>1. \A r \in Roles : Running' => updates'[r] = Updates(r, StepsApplied')
    BY <1>9 DEF WriteShards, CountInv, StepsApplied, Running
  <2> QED
    BY <1>9, <2>1, WriteCounts DEF CountInv, Counted
<1>10. CASE CommitShards \/ CommitData
  <2>1. \A r \in Roles : Running' => updates'[r] = Updates(r, StepsApplied')
    BY <1>10 DEF CommitShards, CommitData, memory, CountInv, StepsApplied, Running
  <2> QED
    BY <1>10, <2>1, CommitCounts DEF CountInv, Counted
<1>11. CASE WriteData
  <2>1. \A r \in Roles : Running' => updates'[r] = Updates(r, StepsApplied')
    BY <1>11 DEF WriteData, memory, CountInv, StepsApplied, Running
  <2>2. \A r \in Roles, n \in Steps : disk'[r][n] \in {disk[r][n], Torn, Absent}
    BY <1>11, WriteDataDisk
  <2> QED
    BY <2>1, <2>2, DiskCounts DEF CountInv, Counted
<1>12. CASE Crash
  BY <1>12 DEF Crash, FreshMemory, CountInv, Running
<1>13. CASE UNCHANGED vars
  BY <1>13 DEF vars, memory, CountInv, StepsApplied, Running
<1> QED
  BY <1>1, <1>2, <1>3, <1>4, <1>5, <1>6, <1>7, <1>8, <1>9, <1>10, <1>11, <1>12, <1>13
     DEF Next, Start, Loop, Saving

LEMMA CountInvAlways == Spec => []CountInv
<1>1. Init => CountInv
  BY PiecesFacts DEF Init, CountInv, Running, Absent
<1> QED
  BY <1>1, StepCountInv, TypeInvAlways, PTL DEF Spec

\* In every resume mode and whatever dies when: at the head of step s the weights
\* have received exactly the updates of the steps before it.
THEOREM NoStepLost == Spec => []NoStepLostOrRepeated
<1>1. CountInv => NoStepLostOrRepeated
  BY DEF CountInv, NoStepLostOrRepeated, StepsApplied, Running
<1> QED
  BY <1>1, CountInvAlways, PTL

-----------------------------------------------------------------------------
(* The pieces of the checkpoint being written. *)

\* The pieces the save sequence has completed for the current step.
Done ==
    IF pc \in {"open", "tracker"} THEN Pieces
    ELSE IF pc \in {"rotate", "write", "commit", "data"} /\ saving = "data" THEN Roles
    ELSE IF pc \in {"rotate", "write", "commit"} /\ saving = "critic" THEN {"actor"}
    ELSE {}

DoneInv == \A p \in Done :
    disk[p][global_steps].st = "whole" /\ disk[p][global_steps].by = run

LEMMA DoneFacts ==
  ASSUME TypeInv
  PROVE  /\ Done \subseteq Pieces
         /\ pc \in {"rotate", "write", "commit", "data"} => saving \notin Done
         /\ Rotate \/ WriteShards \/ WriteData => Done' = Done
         /\ CommitShards \/ CommitData => Done' = Done \cup {saving}
         /\ OpenTracker => Done' = Done
         /\ ~(Rotate \/ WriteShards \/ WriteData \/ CommitShards \/ CommitData \/ OpenTracker)
              /\ Next => Done' = {}
<1> USE PiecesFacts
<1>1. Done \subseteq Pieces
  BY DEF Done
<1>2. pc \in {"rotate", "write", "commit", "data"} => saving \notin Done
  BY DEF Done, TypeInv, ControlType, Roles, Pieces
<1>3. Rotate \/ WriteShards \/ WriteData => Done' = Done
  BY DEF Done, Rotate, WriteShards, WriteData, TypeInv, ControlType
<1>4. CommitShards \/ CommitData => Done' = Done \cup {saving}
  BY DEF Done, CommitShards, CommitData, NextPiece, Roles, Pieces
<1>5. OpenTracker => Done' = Done
  BY DEF Done, OpenTracker
<1>6. Start \/ Loop \/ BeginSave \/ SkipSave \/ WriteTracker \/ Crash => Done' = {}
  BY DEF Done, Start, StartFromScratch, Resume, ResumeRaises, Loop, TrainStep, NextEpoch,
         DataExhausted, EndStep, BeginSave, SkipSave, WriteTracker, Crash
<1> QED
  BY <1>1, <1>2, <1>3, <1>4, <1>5, <1>6 DEF Next, Saving

LEMMA StepDoneInv == TypeInv /\ DoneInv /\ [Next]_vars => DoneInv'
<1> SUFFICES ASSUME TypeInv, DoneInv, [Next]_vars PROVE DoneInv'
  OBVIOUS
<1>1. CASE Rotate \/ WriteShards \/ WriteData
  <2>1. saving \notin Done /\ Done' = Done /\ Done \subseteq Pieces
    BY <1>1, DoneFacts DEF Rotate, WriteShards, WriteData
  <2>2. global_steps \in Steps /\ UNCHANGED <<run, global_steps>>
    BY <1>1 DEF TypeInv, ControlType, Running, Rotate, WriteShards, WriteData, memory
  <2>3. \A p \in Done : disk'[p][global_steps] = disk[p][global_steps]
    <3>1. CASE Rotate
      BY <3>1, <2>1, <2>2, RotateDisk
    <3>2. CASE WriteShards
      BY <3>2, <2>1, <2>2, WriteShardsDisk
    <3>3. CASE WriteData
      <4>1. saving = "data"
        BY <3>3 DEF WriteData, TypeInv, ControlType
      <4> QED
        BY <3>3, <4>1, <2>1, <2>2, WriteDataDisk
    <3> QED
      BY <1>1, <3>1, <3>2, <3>3
  <2> QED
    BY <2>1, <2>2, <2>3 DEF DoneInv
<1>2. CASE CommitShards \/ CommitData
  <2>1. Done' = Done \cup {saving} /\ Done \subseteq Pieces
    BY <1>2, DoneFacts
  <2>2. UNCHANGED <<run, global_steps>>
    BY <1>2 DEF CommitShards, CommitData, memory
  <2>3. disk'[saving][global_steps].st = "whole" /\ disk'[saving][global_steps].by = run
    BY <1>2, CommitDisk
  <2>4. \A p \in Done : p # saving => disk'[p][global_steps] = disk[p][global_steps]
    BY <1>2, <2>1, CommitDisk
  <2> QED
    BY <2>1, <2>2, <2>3, <2>4 DEF DoneInv
<1>3. CASE OpenTracker
  BY <1>3, DoneFacts DEF OpenTracker, memory, DoneInv
<1>4. CASE UNCHANGED vars
  BY <1>4 DEF vars, memory, DoneInv, Done
<1> QED
  BY <1>1, <1>2, <1>3, <1>4, DoneFacts DEF DoneInv

LEMMA DoneInvAlways == Spec => []DoneInv
<1>1. Init => DoneInv
  BY DEF Init, DoneInv, Done
<1> QED
  BY <1>1, StepDoneInv, TypeInvAlways, PTL DEF Spec

\* The tracker file is only moved to a step of which this process has completed
\* every piece, in every resume mode.
THEOREM PublishesOnlyWhole == Spec => PublishOnlyWhole
<1> DEFINE Published == tracker' \in Steps /\ tracker' # tracker
             => \A p \in Pieces : disk'[p][tracker'].st = "whole" /\ disk'[p][tracker'].by = run'
<1>1. TypeInv /\ DoneInv /\ [Next]_vars => [Published]_vars
  <2> SUFFICES ASSUME TypeInv, DoneInv, Next, tracker' \in Steps, tracker' # tracker
               PROVE  \A p \in Pieces : disk'[p][tracker'].st = "whole" /\ disk'[p][tracker'].by = run'
    OBVIOUS
  <2>1. ~OpenTracker
    BY ConstantsAssumption DEF OpenTracker, EmptyTracker, Steps
  <2>2. WriteTracker
    BY <2>1 DEF Next, Start, StartFromScratch, Resume, ResumeRaises, Loop, TrainStep, NextEpoch,
         DataExhausted, EndStep, Saving, BeginSave, SkipSave, Rotate, WriteShards, CommitShards,
         WriteData, CommitData, Crash
  <2>3. Done = Pieces
    BY <2>2 DEF WriteTracker, Done
  <2> QED
    BY <2>2, <2>3 DEF WriteTracker, memory, DoneInv
<1> QED
  BY <1>1, TypeInvAlways, DoneInvAlways, PTL DEF Spec, PublishOnlyWhole

-----------------------------------------------------------------------------
(* The tracked checkpoint. *)

\* Automatic resume only, and no manager limited to a single checkpoint.
SafeRetention == ResumeModes = {"auto"} /\ \A r \in Roles : MaxKeep[r] # 1

\* The tracked step lies behind the process; at the end of a step it may be that step.
TrackerBehind == Running /\ tracker \in Steps =>
    /\ tracker <= global_steps
    /\ pc # "end" => tracker < global_steps

\* Why rotation spares the tracked checkpoint: among the paths a manager remembers
\* only the newest can be the tracked one, and only until the role is saved again.
PathsInv == Running => \A r \in Roles : \A i \in 1 .. Len(previous_saved_paths[r]) :
    /\ i # Len(previous_saved_paths[r]) => previous_saved_paths[r][i] < global_steps
    /\ r \notin Done /\ pc # "end" => previous_saved_paths[r][i] < global_steps
    /\ r \notin Done /\ i # Len(previous_saved_paths[r]) => previous_saved_paths[r][i] # tracker

OneOrigin == \A p, q \in Pieces : origin[p] = origin[q]

TrackInv == TrackedIsWhole /\ TrackerBehind /\ PathsInv /\ OneOrigin

LEMMA StartsFromTracked ==
  ASSUME TypeInv, TrackedIsWhole, SafeRetention
  PROVE  /\ StartFromScratch => tracker \notin Steps
         /\ \A n \in Steps : Resume(n) => n = tracker
<1>1. tracker \in Steps => FolderExists(tracker)
  BY PiecesFacts DEF TrackedIsWhole, Whole, FolderExists
<1>2. 0 \notin Steps
  BY DEF Steps
<1>3. StartFromScratch => tracker \notin Steps
  BY <1>1, <1>2 DEF StartFromScratch, SafeRetention, LatestCkpt
<1>4. \A n \in Steps : Resume(n) => n = tracker
  BY <1>2 DEF Resume, ResumePoints, SafeRetention, LatestCkpt
<1> QED
  BY <1>3, <1>4

\* The rotation before a save leaves the tracked checkpoint alone.
LEMMA TrackedNotVictim ==
  ASSUME TypeInv, PathsInv, SafeRetention, Rotate \/ WriteShards
  PROVE  tracker \notin Victims(saving)
<1>1. saving \in Roles /\ saving \notin Done /\ Running
  BY DoneFacts DEF Rotate, WriteShards, TypeInv, ControlType, Running
<1> SUFFICES ASSUME NEW i \in 1 .. KeepStart(saving), tracker = previous_saved_paths[saving][i]
             PROVE  FALSE
  BY DEF Victims
<1> DEFINE len == Len(previous_saved_paths[saving])
           k   == KeepStart(saving)
<1>2. k \in 0 .. len /\ (k > 0 => k < len)
  BY <1>1, KeepStartRange DEF TypeInv, SafeRetention
<1>3. len \in Nat
  BY <1>1, LenProperties DEF TypeInv, MemoryType
<1>4. i \in 1 .. k
  OBVIOUS
<1> HIDE DEF k, len
<1>5. i \in 1 .. len /\ i # len
  BY <1>2, <1>3, <1>4
<1> QED
  BY <1>1, <1>5 DEF PathsInv, len

\* As long as its files and the tracker are left alone, the tracked step stays whole.
LEMMA TrackedFrame ==
  ASSUME TrackedIsWhole, UNCHANGED tracker,
         tracker \in Steps => \A p \in Pieces : disk'[p][tracker] = disk[p][tracker]
  PROVE  TrackedIsWhole'
BY PiecesFacts DEF TrackedIsWhole, Whole

LEMMA StepTracked ==
  ASSUME TypeInv, DoneInv, TrackInv, SafeRetention, [Next]_vars
  PROVE  TrackedIsWhole'
<1> USE DEF TrackInv
<1>1. CASE Rotate
  <2>1. UNCHANGED tracker
    BY <1>1 DEF Rotate
  <2> QED
    BY <1>1, <2>1, TrackedFrame, TrackedNotVictim, RotateDisk
<1>2. CASE WriteShards
  <2>1. UNCHANGED tracker /\ (tracker \in Steps => tracker # global_steps)
    BY <1>2 DEF WriteShards, TrackerBehind, Running, TypeInv, ControlType, Steps
  <2> QED
    BY <1>2, <2>1, TrackedFrame, TrackedNotVictim, WriteShardsDisk
<1>3. CASE CommitShards \/ CommitData
  <2>1. UNCHANGED tracker /\ (tracker \in Steps => tracker # global_steps)
    BY <1>3 DEF CommitShards, CommitData, TrackerBehind, Running, TypeInv, ControlType, Steps
  <2> QED
    BY <1>3, <2>1, TrackedFrame, CommitDisk
<1>4. CASE WriteData
  <2>1. UNCHANGED tracker /\ (tracker \in Steps => tracker # global_steps)
    BY <1>4 DEF WriteData, TrackerBehind, Running, TypeInv, ControlType, Steps
  <2> QED
    BY <1>4, <2>1, TrackedFrame, WriteDataDisk
<1>5. CASE OpenTracker
  BY <1>5, ConstantsAssumption DEF OpenTracker, EmptyTracker, TrackedIsWhole, Steps
<1>6. CASE WriteTracker
  <2>1. Done = Pieces
    BY <1>6 DEF WriteTracker, Done
  <2> QED
    BY <1>6, <2>1, PiecesFacts DEF WriteTracker, memory, DoneInv, TrackedIsWhole, Whole
<1>7. CASE Start \/ Loop \/ BeginSave \/ SkipSave \/ Crash \/ UNCHANGED vars
  <2>1. UNCHANGED <<disk, tracker>>
    BY <1>7 DEF Start, StartFromScratch, Resume, ResumeRaises, Loop, TrainStep, NextEpoch,
                DataExhausted, EndStep, BeginSave, SkipSave, Crash, vars
  <2> QED
    BY <2>1 DEF TrackedIsWhole, Whole
<1> QED
  BY <1>1, <1>2, <1>3, <1>4, <1>5, <1>6, <1>7 DEF Next, Saving

LEMMA StepBehind ==
  ASSUME TypeInv, TrackInv, SafeRetention, [Next]_vars
  PROVE  TrackerBehind'
<1> USE ConstantsAssumption DEF TrackInv, TrackerBehind, Running
<1>1. tracker \in Int /\ global_steps \in Int /\ Steps \subseteq Int
  BY DEF TypeInv, ControlType, NoTracker, EmptyTracker, Steps
<1>2. CASE StartFromScratch
  BY <1>2, StartsFromTracked DEF StartFromScratch
<1>3. ASSUME NEW n \in Steps, Resume(n) PROVE TrackerBehind'
  <2>1. tracker = n /\ tracker' = n /\ global_steps' = n + 1 /\ n \in Int
    BY <1>1, <1>3, StartsFromTracked DEF Resume, FirstStep
  <2>2. n <= n + 1 /\ n < n + 1
    BY <2>1
  <2> QED
    BY <2>1, <2>2
<1>4. CASE EndStep
  <2>1. tracker \in Steps => tracker <= global_steps + 1 /\ tracker < global_steps + 1
    BY <1>1, <1>4 DEF EndStep
  <2> QED
    BY <1>4, <2>1 DEF EndStep
<1>5. CASE WriteTracker
  <2>1. global_steps <= global_steps
    BY <1>1
  <2> QED
    BY <1>5, <2>1 DEF WriteTracker, memory
<1>6. CASE OpenTracker
  BY <1>6 DEF OpenTracker, EmptyTracker, Steps
<1>7. CASE ResumeRaises \/ Crash \/ DataExhausted
  BY <1>7 DEF ResumeRaises, Crash, DataExhausted
<1>8. CASE TrainStep \/ NextEpoch \/ BeginSave \/ SkipSave \/ Rotate \/ WriteShards
           \/ CommitShards \/ WriteData \/ CommitData \/ UNCHANGED vars
  <2>1. UNCHANGED <<global_steps, tracker>> /\ (Running' => Running) /\ (pc = "end" => pc' = "end")
    BY <1>8 DEF TrainStep, NextEpoch, BeginSave, SkipSave, Rotate, WriteShards, CommitShards,
                WriteData, CommitData, vars, memory
  <2> QED
    BY <2>1
<1> QED
  BY <1>2, <1>3, <1>4, <1>5, <1>6, <1>7, <1>8 DEF Next, Start, Loop, Saving

LEMMA StepPaths ==
  ASSUME TypeInv, TrackInv, SafeRetention, [Next]_vars
  PROVE  PathsInv'
<1> USE ConstantsAssumption DEF TrackInv
<1> DEFINE paths == previous_saved_paths
<1>0. Running => global_steps \in Steps /\ Steps \subseteq Nat
  BY DEF TypeInv, ControlType, Steps
<1>1. CASE Start \/ Crash
  <2>1. Running' => \A r \in Roles : paths'[r] = <<>>
    BY <1>1 DEF Start, StartFromScratch, Resume, ResumeRaises, Crash, FreshMemory, Running
  <2>2. Len(<<>>) = 0 /\ 1 .. 0 = {}
    OBVIOUS
  <2> QED
    BY <2>1, <2>2 DEF PathsInv
<1>2. CASE EndStep
  <2>1. \A r \in Roles : \A i \in 1 .. Len(paths[r]) : paths[r][i] < global_steps + 1
    BY <1>2, <1>0 DEF EndStep, TypeInv, PathsBound, Running
  <2>2. Done = {}
    BY <1>2 DEF EndStep, Done
  <2> QED
    BY <1>2, <2>1, <2>2 DEF EndStep, PathsInv, Running
<1>3. CASE WriteShards
  <2> DEFINE old == paths[saving]
             k   == KeepStart(saving)
             new == SubSeq(old, k + 1, Len(old))
  <2>1. /\ saving \in Roles /\ saving \notin Done /\ Done' = Done /\ Running /\ pc # "end"
        /\ UNCHANGED <<global_steps, tracker>>
    BY <1>3, DoneFacts DEF WriteShards, TypeInv, ControlType, Running
  <2>2. old \in Seq(Steps) /\ k \in 0 .. Len(old) /\ new = SubSeq(old, k + 1, Len(old))
    BY <2>1, KeepStartRange DEF TypeInv, MemoryType
  <2>3. \A r \in Roles : paths'[r] = IF r = saving THEN new ELSE paths[r]
    BY <1>3, <2>1 DEF WriteShards, TypeInv, MemoryType
  <2>4. \A i \in 1 .. Len(new) : \E j \in 1 .. Len(old) :
          new[i] = old[j] /\ (i # Len(new) => j # Len(old))
    <3> HIDE DEF new, old, k
    <3>1. /\ Len(new) = Len(old) - k
          /\ \A i \in 1 .. Len(new) : i + k \in 1 .. Len(old) /\ new[i] = old[i + k]
      BY <2>2, DropFirst
    <3>2. \A i \in 1 .. Len(new) : i # Len(new) => i + k # Len(old)
      BY <2>2, <3>1, LenProperties
    <3> QED
      BY <3>1, <3>2
  <2>5. \A j \in 1 .. Len(old) :
          old[j] < global_steps /\ (j # Len(old) => old[j] # tracker)
    BY <2>1 DEF PathsInv
  <2>6. \A i \in 1 .. Len(new) :
          new[i] < global_steps /\ (i # Len(new) => new[i] # tracker)
    <3> HIDE DEF new, old
    <3> QED
      BY <2>4, <2>5
  <2>7. Running' /\ pc' # "end"
    BY <1>3 DEF WriteShards, Running
  <2> HIDE DEF new, old
  <2> QED
    BY <2>1, <2>3, <2>6, <2>7 DEF PathsInv
<1>4. CASE CommitShards
  <2> DEFINE old == paths[saving]
             new == Append(old, global_steps)
  <2>1. /\ saving \in Roles /\ saving \notin Done /\ Done' = Done \cup {saving}
        /\ Running /\ pc # "end" /\ UNCHANGED <<global_steps, tracker>>
    BY <1>4, DoneFacts DEF CommitShards, Running
  <2>2. old \in Seq(Steps) /\ global_steps \in Steps
    BY <2>1, <1>0 DEF TypeInv, MemoryType
  <2>3. \A r \in Roles : paths'[r] = IF r = saving THEN new ELSE paths[r]
    BY <1>4, <2>1 DEF CommitShards, TypeInv, MemoryType
  <2>4. \A j \in 1 .. Len(old) : old[j] < global_steps
    BY <2>1 DEF PathsInv
  <2>5. \A i \in 1 .. Len(new) : i # Len(new) => new[i] < global_steps
    <3>1. \A i \in 1 .. Len(new) : i # Len(new) => i \in 1 .. Len(old)
      BY <2>2, AppendLast
    <3>2. \A i \in 1 .. Len(old) : new[i] = old[i]
      BY <2>2, AppendLast
    <3> HIDE DEF new, old
    <3> QED
      BY <2>4, <3>1, <3>2
  <2>6. Running'
    BY <1>4, PiecesFacts DEF CommitShards, Running
  <2> HIDE DEF new, old
  <2> QED
    BY <2>1, <2>3, <2>5, <2>6 DEF PathsInv
<1>5. CASE CommitData \/ OpenTracker
  <2>1. UNCHANGED <<paths, global_steps>> /\ Running /\ Roles \subseteq Done'
    BY <1>5, PiecesFacts DEF CommitData, OpenTracker, memory, Running, Done
  <2> QED
    BY <2>1 DEF PathsInv
<1>6. CASE WriteTracker
  <2>1. UNCHANGED <<paths, global_steps>> /\ Running /\ pc' = "end" /\ tracker' = global_steps
    BY <1>6 DEF WriteTracker, memory, Running
  <2>2. \A r \in Roles : \A i \in 1 .. Len(paths[r]) :
          i # Len(paths[r]) => paths[r][i] < global_steps /\ paths[r][i] # global_steps
    BY <1>0, <2>1 DEF PathsInv, TypeInv, PathsBound
  <2> QED
    BY <2>1, <2>2 DEF PathsInv
<1>7. CASE TrainStep \/ NextEpoch \/ BeginSave \/ SkipSave \/ Rotate \/ WriteData
           \/ DataExhausted \/ UNCHANGED vars
  <2>1. UNCHANGED <<paths, global_steps, tracker>> /\ (Running' => Running)
    BY <1>7 DEF TrainStep, NextEpoch, BeginSave, SkipSave, Rotate, WriteData, DataExhausted,
                vars, memory, Running
  <2>2. Done' = Done \/ (Done = {} /\ pc # "end") \/ ~Running'
    BY <1>7, DoneFacts DEF TrainStep, NextEpoch, BeginSave, SkipSave, DataExhausted, Done, vars,
                           Running
  <2>3. pc = "end" => pc' = "end"
    BY <1>7 DEF TrainStep, NextEpoch, BeginSave, SkipSave, Rotate, WriteData, DataExhausted, vars
  <2> QED
    BY <2>1, <2>2, <2>3 DEF PathsInv
<1> QED
  BY <1>1, <1>2, <1>3, <1>4, <1>5, <1>6, <1>7 DEF Next, Loop, Saving

LEMMA StepOrigin ==
  ASSUME TypeInv, TrackInv, SafeRetention, [Next]_vars
  PROVE  OneOrigin'
<1> USE DEF TrackInv, OneOrigin
<1>1. CASE StartFromScratch \/ Crash
  BY <1>1 DEF StartFromScratch, Crash, FreshMemory
<1>2. ASSUME NEW n \in Steps, Resume(n) PROVE OneOrigin'
  <2>1. \A p \in Pieces : disk[p][n].by = disk["actor"][n].by
    BY <1>2, StartsFromTracked DEF TrackedIsWhole, Whole
  <2> QED
    BY <1>2, <2>1 DEF Resume
<1>3. CASE ResumeRaises \/ Loop \/ Saving \/ UNCHANGED vars
  <2>1. UNCHANGED origin
    BY <1>3 DEF ResumeRaises, Loop, TrainStep, NextEpoch, DataExhausted, EndStep, Saving,
         BeginSave, SkipSave, Rotate, WriteShards, CommitShards, WriteData, CommitData,
         OpenTracker, WriteTracker, memory, vars
  <2> QED
    BY <2>1
<1> QED
  BY <1>1, <1>2, <1>3 DEF Next, Start

LEMMA TrackInvAlways ==
  ASSUME SafeRetention
  PROVE  Spec => []TrackInv
<1>1. Init => TrackInv
  BY DEF Init, TrackInv, TrackedIsWhole, TrackerBehind, PathsInv, OneOrigin, Running,
         NoTracker, Steps
<1>2. TypeInv /\ DoneInv /\ TrackInv /\ [Next]_vars => TrackInv'
  BY StepTracked, StepBehind, StepPaths, StepOrigin DEF TrackInv
<1> QED
  BY <1>1, <1>2, TypeInvAlways, DoneInvAlways, PTL DEF Spec

\* With automatic resume and room for at least two checkpoints of each role, the step
\* the tracker names is complete at every moment: rotation, a save in progress and a
\* death at any point of it leave it alone.
THEOREM TrackedAlwaysWhole ==
  ASSUME SafeRetention
  PROVE  Spec => []TrackedIsWhole
<1>1. TrackInv => TrackedIsWhole
  BY DEF TrackInv
<1> QED
  BY <1>1, TrackInvAlways, PTL

\* Under the same conditions a resume takes actor, critic and data position from the
\* save of one process.
THEOREM OneLineageAlways ==
  ASSUME SafeRetention
  PROVE  Spec => []OneLineage
<1>1. TrackInv => OneLineage
  BY DEF TrackInv, OneOrigin, OneLineage
<1> QED
  BY <1>1, TrackInvAlways, PTL

-----------------------------------------------------------------------------
(* Rotation: how many checkpoints of a role one process keeps. *)

Saved(r)  == {previous_saved_paths[r][i] : i \in 1 .. Len(previous_saved_paths[r])}
OwnSaves(r) == {n \in Steps : disk[r][n].st = "whole" /\ disk[r][n].by = run}

\* What a process completed and has not begun to remove is in its list of paths, and the
\* list has room for the checkpoint that is being written.
ListInv == Running => \A r \in Roles :
    /\ OwnSaves(r) \subseteq Saved(r)
    /\ MaxKeep[r] > 0 => /\ Len(previous_saved_paths[r]) <= MaxKeep[r]
                         /\ pc = "commit" /\ saving = r => Len(previous_saved_paths[r]) < MaxKeep[r]

ByInv == \A p \in Pieces, n \in Steps : disk[p][n].by <= run

RetentionInv == ListInv /\ ByInv /\ RetentionPerRun

LEMMA SeqImage ==
  ASSUME NEW S, NEW s \in Seq(S)
  PROVE  LET image == {s[i] : i \in 1 .. Len(s)}
         IN  IsFiniteSet(image) /\ Cardinality(image) <= Len(s)
<1> DEFINE image == {s[i] : i \in 1 .. Len(s)}
           f == [i \in 1 .. Len(s) |-> s[i]]
<1>1. Len(s) \in Nat
  BY LenProperties
<1>2. IsFiniteSet(1 .. Len(s)) /\ Cardinality(1 .. Len(s)) = Len(s)
  <2> DEFINE n == Len(s)
  <2>1. n \in Nat /\ n \in Int /\ 1 \in Int
    BY <1>1
  <2> HIDE DEF n
  <2>2. IsFiniteSet(1 .. n) /\ Cardinality(1 .. n) = IF 1 > n THEN 0 ELSE n - 1 + 1
    BY <2>1, FS_Interval
  <2>3. Cardinality(1 .. n) = n
    BY <2>1, <2>2
  <2> QED
    BY <2>2, <2>3 DEF n
<1>3. f \in Surjection(1 .. Len(s), image)
  BY DEF Surjection
<1> QED
  BY <1>1, <1>2, <1>3, FS_Surjection

LEMMA RoleSaves ==
  ASSUME TypeInv, ListInv, Running, NEW r \in Roles, MaxKeep[r] > 0
  PROVE  Cardinality(OwnSaves(r)) <= MaxKeep[r]
<1>1. previous_saved_paths[r] \in Seq(Steps) /\ Len(previous_saved_paths[r]) \in Nat
  BY LenProperties DEF TypeInv, MemoryType
<1>2. IsFiniteSet(Saved(r)) /\ Cardinality(Saved(r)) <= Len(previous_saved_paths[r])
  BY <1>1, SeqImage DEF Saved
<1>3. OwnSaves(r) \in SUBSET Saved(r) /\ Len(previous_saved_paths[r]) <= MaxKeep[r]
  BY DEF ListInv
<1>4. Cardinality(OwnSaves(r)) <= Cardinality(Saved(r)) /\ IsFiniteSet(OwnSaves(r))
  BY <1>2, <1>3, FS_Subset
<1>5. /\ Cardinality(OwnSaves(r)) \in Nat /\ Cardinality(Saved(r)) \in Nat
      /\ MaxKeep[r] \in Nat
  BY <1>2, <1>4, FS_CardinalityType, ConstantsAssumption, PiecesFacts
<1> QED
  BY <1>1, <1>2, <1>3, <1>4, <1>5

LEMMA ListKeepsCount ==
  ASSUME TypeInv, ListInv, Running
  PROVE  RetentionPerRun
BY RoleSaves DEF RetentionPerRun, OwnSaves

LEMMA StepBy ==
  ASSUME TypeInv, ByInv, [Next]_vars
  PROVE  ByInv'
<1> USE PiecesFacts
<1>1. \A p \in Pieces, n \in Steps : disk[p][n] \in PieceType /\ disk[p][n].by <= run
  BY DEF ByInv, TypeInv, DiskType
<1>2. run \in Nat /\ 0 <= run /\ run <= run /\ run <= run + 1
      /\ \A b \in Nat : b <= run => b <= run + 1
  BY DEF TypeInv, ControlType
<1>3. CASE Start
  BY <1>1, <1>2, <1>3 DEF Start, StartFromScratch, Resume, ResumeRaises, ByInv, PieceType
<1>4. CASE Rotate \/ WriteShards \/ WriteData
  <2>1. UNCHANGED run
    BY <1>4 DEF Rotate, WriteShards, WriteData
  <2>2. \A p \in Pieces, n \in Steps : disk'[p][n].by \in {disk[p][n].by, 0}
    <3>1. Torn.by = 0 /\ Absent.by = 0
      BY DEF Torn, Absent
    <3> QED
      BY <1>4, <3>1, RotateDisk, WriteShardsDisk, WriteDataDisk
  <2> QED
    BY <1>1, <1>2, <2>1, <2>2 DEF ByInv
<1>5. CASE CommitShards \/ CommitData
  <2>1. UNCHANGED run
    BY <1>5 DEF CommitShards, CommitData
  <2>2. \A p \in Pieces, n \in Steps : disk'[p][n].by \in {disk[p][n].by, run}
    BY <1>5, CommitDisk
  <2> QED
    BY <1>1, <1>2, <2>1, <2>2 DEF ByInv
<1>6. CASE Loop \/ BeginSave \/ SkipSave \/ OpenTracker \/ WriteTracker \/ Crash \/ UNCHANGED vars
  <2>1. UNCHANGED <<run, disk>>
    BY <1>6 DEF Loop, TrainStep, NextEpoch, DataExhausted, EndStep, BeginSave, SkipSave,
                OpenTracker, WriteTracker, Crash, vars
  <2> QED
    BY <2>1 DEF ByInv
<1> QED
  BY <1>3, <1>4, <1>5, <1>6 DEF Next, Saving

\* A start owns nothing on the disk yet.
LEMMA StartOwnsNothing ==
  ASSUME TypeInv, ByInv, Start
  PROVE  \A r \in Roles : OwnSaves(r)' = {}
<1>1. UNCHANGED disk /\ run' = run + 1
  BY DEF Start, StartFromScratch, Resume, ResumeRaises
<1>2. \A r \in Roles, n \in Steps : disk[r][n].by # run + 1
  <2>1. \A r \in Roles, n \in Steps : disk[r][n].by \in Nat /\ disk[r][n].by <= run
    BY PiecesFacts DEF ByInv, TypeInv, DiskType, PieceType
  <2> QED
    BY <2>1 DEF TypeInv, ControlType
<1> QED
  BY <1>1, <1>2 DEF OwnSaves

LEMMA StepList ==
  ASSUME TypeInv, ListInv, ByInv, [Next]_vars
  PROVE  ListInv'
<1> DEFINE paths == previous_saved_paths
<1> SUFFICES ASSUME Running', NEW r \in Roles
             PROVE  /\ OwnSaves(r)' \subseteq Saved(r)'
                    /\ MaxKeep[r] > 0 =>
                         /\ Len(paths'[r]) <= MaxKeep[r]
                         /\ pc' = "commit" /\ saving' = r => Len(paths'[r]) < MaxKeep[r]
  BY DEF ListInv
<1> USE PiecesFacts, ConstantsAssumption
<1>0. /\ paths[r] \in Seq(Steps) /\ Len(paths[r]) \in Nat /\ MaxKeep[r] \in Nat
      /\ r \in Pieces
  BY LenProperties DEF TypeInv, MemoryType
<1>00. Running => /\ OwnSaves(r) \subseteq Saved(r)
                  /\ MaxKeep[r] > 0 =>
                       /\ Len(paths[r]) <= MaxKeep[r]
                       /\ pc = "commit" /\ saving = r => Len(paths[r]) < MaxKeep[r]
  BY DEF ListInv
<1>1. CASE Start \/ Crash
  <2>1. Start /\ paths'[r] = << >> /\ pc' = "loop"
    BY <1>1 DEF Start, StartFromScratch, Resume, ResumeRaises, Crash, FreshMemory, Running
  <2>2. Len(<< >>) = 0
    OBVIOUS
  <2>3. OwnSaves(r)' = {}
    BY <2>1, StartOwnsNothing
  <2> QED
    BY <1>0, <2>1, <2>2, <2>3
<1>2. CASE Rotate
  <2>1. UNCHANGED <<run, paths>> /\ Running /\ pc' # "commit"
    BY <1>2 DEF Rotate, memory, Running
  <2>2. OwnSaves(r)' \subseteq OwnSaves(r)
    BY <1>0, <1>2, <2>1, RotateDisk DEF OwnSaves, Torn
  <2> QED
    BY <1>00, <2>1, <2>2 DEF Saved
<1>3. CASE WriteShards /\ r = saving
  <2> DEFINE old == paths[r]
             k   == KeepStart(r)
             new == SubSeq(old, k + 1, Len(old))
  <2>1. Running /\ UNCHANGED <<run, saving>>
    BY <1>3 DEF WriteShards, Running
  <2>2. old \in Seq(Steps) /\ k \in 0 .. Len(old) /\ new = SubSeq(old, k + 1, Len(old))
    BY <1>0, KeepStartRange DEF TypeInv
  <2>3. paths'[r] = new
    BY <1>3 DEF WriteShards, TypeInv, MemoryType
  <2>4. \A n \in OwnSaves(r)' : n \in OwnSaves(r) /\ n \notin Victims(r)
    BY <1>0, <1>3, <2>1, WriteShardsDisk DEF OwnSaves, Torn, Absent
  <2>5. OwnSaves(r) \subseteq {old[i] : i \in 1 .. Len(old)}
    BY <1>00, <2>1 DEF Saved
  <2>6. Victims(r) = {old[i] : i \in 1 .. k}
    BY DEF Victims
  <2>7. MaxKeep[r] > 0 => /\ Len(old) <= MaxKeep[r]
                          /\ k = IF Len(old) >= MaxKeep[r] THEN Len(old) - MaxKeep[r] + 1 ELSE 0
    BY <1>00, <2>1 DEF KeepStart
  <2>8. Len(old) \in Nat /\ new = SubSeq(old, k + 1, Len(old))
    BY <1>0
  <2> HIDE DEF new, k, old
  <2>9. /\ Len(new) = Len(old) - k
        /\ \A i \in 1 .. Len(new) : i + k \in 1 .. Len(old) /\ new[i] = old[i + k]
    BY <2>2, <2>8, DropFirst, SMTT(30)
  <2>10. \A n \in OwnSaves(r)' : \E i \in 1 .. Len(new) : n = new[i]
    <3> SUFFICES ASSUME NEW n \in OwnSaves(r)' PROVE \E i \in 1 .. Len(new) : n = new[i]
      OBVIOUS
    <3>1. PICK j \in 1 .. Len(old) : n = old[j]
      BY <2>4, <2>5
    <3>2. j \notin 1 .. k
      BY <2>4, <2>6, <3>1
    <3>3. j - k \in 1 .. Len(new) /\ (j - k) + k = j
      BY <2>2, <2>8, <2>9, <3>1, <3>2
    <3> QED
      BY <2>9, <3>1, <3>3
  <2>11. MaxKeep[r] > 0 => Len(new) < MaxKeep[r] /\ Len(new) <= MaxKeep[r]
    BY <1>0, <2>7, <2>8, <2>9
  <2>12. Saved(r)' = {new[i] : i \in 1 .. Len(new)}
    BY <2>3 DEF Saved
  <2> QED
    BY <2>3, <2>10, <2>11, <2>12
<1>4. CASE CommitShards /\ r = saving
  <2> DEFINE old == paths[r]
             new == Append(old, global_steps)
  <2>1. Running /\ UNCHANGED run /\ pc = "commit" /\ pc' # "commit" /\ global_steps \in Steps
    BY <1>4 DEF CommitShards, TypeInv, ControlType, Running
  <2>2. paths'[r] = new
    BY <1>4 DEF CommitShards, TypeInv, MemoryType
  <2>3. OwnSaves(r)' \subseteq OwnSaves(r) \cup {global_steps}
    BY <1>0, <1>4, <2>1, CommitDisk DEF OwnSaves
  <2>4. OwnSaves(r) \subseteq {old[i] : i \in 1 .. Len(old)}
        /\ (MaxKeep[r] > 0 => Len(old) < MaxKeep[r])
    BY <1>00, <1>4, <2>1 DEF Saved
  <2>5. old \in Seq(Steps)
    BY <1>0
  <2> HIDE DEF old
  <2>6. /\ Len(old) \in Nat /\ Len(new) = Len(old) + 1 /\ new[Len(new)] = global_steps
        /\ \A i \in 1 .. Len(old) : new[i] = old[i]
    BY <2>1, <2>5, AppendLast
  <2> HIDE DEF new
  <2>7. Len(new) \in 1 .. Len(new) /\ 1 .. Len(old) \subseteq 1 .. Len(new)
    BY <2>6
  <2>8. OwnSaves(r)' \subseteq {new[i] : i \in 1 .. Len(new)}
    BY <2>3, <2>4, <2>6, <2>7
  <2>9. MaxKeep[r] > 0 => Len(new) <= MaxKeep[r]
    BY <1>0, <2>4, <2>6
  <2>10. Saved(r)' = {new[i] : i \in 1 .. Len(new)}
    BY <2>2 DEF Saved
  <2> QED
    BY <2>1, <2>2, <2>8, <2>9, <2>10
<1>5. CASE WriteData \/ CommitData \/ ((WriteShards \/ CommitShards) /\ r # saving)
  <2>1. /\ UNCHANGED run /\ Running /\ paths'[r] = paths[r]
        /\ ~(pc' = "commit" /\ saving' = r)
    BY <1>5 DEF WriteData, CommitData, WriteShards, CommitShards, memory, Running, TypeInv,
                ControlType, MemoryType
  <2>2. \A n \in Steps : disk'[r][n] = disk[r][n]
    <3>1. CASE WriteData
      BY <1>0, <3>1, WriteDataDisk
    <3>2. CASE CommitData
      BY <1>0, <3>2, CommitDisk DEF CommitData
    <3>3. CASE (WriteShards \/ CommitShards) /\ r # saving
      BY <1>0, <3>3, WriteShardsDisk, CommitDisk
    <3> QED
      BY <1>5, <3>1, <3>2, <3>3
  <2>3. OwnSaves(r)' = OwnSaves(r) /\ Saved(r)' = Saved(r)
    BY <2>1, <2>2 DEF OwnSaves, Saved
  <2> QED
    BY <1>00, <2>1, <2>3
<1>6. CASE Loop \/ BeginSave \/ SkipSave \/ OpenTracker \/ WriteTracker \/ UNCHANGED vars
  <2>1. UNCHANGED <<run, paths, disk>> /\ Running
        /\ (pc' = "commit" => UNCHANGED <<pc, saving>>)
    BY <1>6 DEF Loop, TrainStep, NextEpoch, DataExhausted, EndStep, BeginSave, SkipSave,
                OpenTracker, WriteTracker, vars, memory, Running
  <2>2. OwnSaves(r)' = OwnSaves(r) /\ Saved(r)' = Saved(r)
    BY <2>1 DEF OwnSaves, Saved
  <2> QED
    BY <1>00, <2>1, <2>2
<1> QED
  BY <1>1, <1>2, <1>3, <1>4, <1>5, <1>6 DEF Next, Saving

LEMMA StepRetention ==
  ASSUME TypeInv, RetentionInv, [Next]_vars
  PROVE  RetentionPerRun'
<1> USE DEF RetentionInv
<1>1. TypeInv' /\ ListInv'
  BY StepTypeInv, StepList
<1>2. CASE Running'
  <2>1. (TypeInv /\ ListInv /\ Running => RetentionPerRun)'
    BY ListKeepsCount, PTL
  <2> QED
    BY <1>1, <1>2, <2>1
<1>3. CASE Start
  <2>1. \A r \in Roles : Cardinality(OwnSaves(r)') = 0 /\ MaxKeep[r] \in Nat
    BY <1>3, StartOwnsNothing, FS_EmptySet, ConstantsAssumption, PiecesFacts
  <2> QED
    BY <2>1 DEF RetentionPerRun, OwnSaves
<1>4. CASE ~Running' /\ ~Start
  <2>1. UNCHANGED <<run, disk>>
    BY <1>4 DEF Next, Running, Loop, TrainStep, NextEpoch, DataExhausted, EndStep, Saving,
         BeginSave, SkipSave, Rotate, WriteShards, CommitShards, WriteData, CommitData,
         OpenTracker, WriteTracker, Crash, vars
  <2> QED
    BY <2>1 DEF RetentionPerRun
<1> QED
  BY <1>2, <1>3, <1>4

\* A process never has more complete checkpoints of a role on disk than the limit for that
\* role, in the middle of a save too: it removes before it completes.
THEOREM RetentionHolds == Spec => []RetentionPerRun
<1>1. Init => RetentionInv
  <2> SUFFICES ASSUME Init PROVE RetentionInv
    OBVIOUS
  <2>1. ~Running /\ \A p \in Pieces, n \in Steps : disk[p][n].st = "absent" /\ disk[p][n].by <= run
    BY DEF Init, Running, Absent
  <2>2. \A r \in Roles : {n \in Steps : disk[r][n].st = "whole" /\ disk[r][n].by = run} = {}
    BY <2>1, PiecesFacts
  <2>3. \A r \in Roles : MaxKeep[r] \in Nat
    BY ConstantsAssumption, PiecesFacts
  <2>4. RetentionPerRun
    BY <2>2, <2>3, FS_EmptySet DEF RetentionPerRun
  <2> QED
    BY <2>1, <2>4 DEF RetentionInv, ListInv, ByInv
<1>2. TypeInv /\ RetentionInv /\ [Next]_vars => RetentionInv'
  BY StepList, StepBy, StepRetention DEF RetentionInv
<1>3. RetentionInv => RetentionPerRun
  BY DEF RetentionInv
<1> QED
  BY <1>1, <1>2, <1>3, TypeInvAlways, PTL DEF Spec

-----------------------------------------------------------------------------
(* Arithmetic of positions and save frequencies. *)

LEMMA Quotient ==
  ASSUME NEW d \in Nat \ {0}, NEW q \in Nat, NEW r \in 0 .. (d - 1)
  PROVE  (d * q + r) % d = r
OBVIOUS

LEMMA ModFacts ==
  ASSUME NEW d \in Nat \ {0}, NEW x \in Nat
  PROVE  /\ x % d \in 0 .. (d - 1)
         /\ x < d => x % d = x
         /\ d % d = 0 /\ 0 % d = 0
         /\ x = d * (x \div d) + (x % d) /\ x \div d \in Nat
OBVIOUS

LEMMA ModNext ==
  ASSUME NEW d \in Nat \ {0}, NEW x \in Nat
  PROVE  (x + 1) % d = IF (x % d) + 1 = d THEN 0 ELSE (x % d) + 1
<1> DEFINE q == x \div d
           r == x % d
<1>1. x = d * q + r /\ q \in Nat /\ r \in 0 .. (d - 1)
  BY ModFacts
<1>2. CASE r + 1 = d
  <2>1. x + 1 = d * (q + 1) + 0 /\ q + 1 \in Nat /\ 0 \in 0 .. (d - 1)
    BY <1>1, <1>2
  <2>2. (d * (q + 1) + 0) % d = 0
    BY <2>1, Quotient
  <2> QED
    BY <1>2, <2>1, <2>2
<1>3. CASE r + 1 # d
  <2>1. x + 1 = d * q + (r + 1) /\ r + 1 \in 0 .. (d - 1)
    BY <1>1, <1>3
  <2>2. (d * q + (r + 1)) % d = r + 1
    BY <1>1, <2>1, Quotient
  <2> QED
    BY <1>3, <2>1, <2>2
<1> QED
  BY <1>2, <1>3

-----------------------------------------------------------------------------
(* The tracked step and the step the process is in. *)

\* The step a process that starts now goes on from.
TrackedStep == IF tracker \in Steps THEN tracker ELSE 0

\* The tracker is only empty between its truncation and its rewrite, or after a
\* process died there; no process starts on an empty tracker.
ReadableInv == Running => (pc = "tracker" <=> tracker = EmptyTracker)

\* Every multiple of the save frequency is saved, so the steps since the tracked one
\* are at most those since the last multiple.
LossInv == SaveFreq > 0 /\ Running =>
    /\ pc = "end" => global_steps - TrackedStep <= global_steps % SaveFreq
    /\ pc \notin {"end", "tracker"} =>
          (global_steps - 1) - TrackedStep <= (global_steps - 1) % SaveFreq

\* The loop never has more batches of data behind it than steps.
PositionInv ==
    /\ Running => epoch * BatchesPerEpoch + pos <= StepsApplied
    /\ \A n \in Steps : disk["data"][n].val <= n

\* Past the last step there is nothing that is not in the tracked checkpoint.
LastSavedInv == SaveFreq > 0 =>
    /\ pc = "end" /\ IsLastStep => tracker = global_steps
    /\ pc = "loop" /\ global_steps - 1 >= TotalSteps => tracker = global_steps - 1

\* data.pt of the step being published holds the position in memory.
DataInv == pc \in {"open", "tracker"} => disk["data"][global_steps].val = pos

LEMMA GlobalStepsType ==
  ASSUME TypeInv
  PROVE  /\ Steps \subseteq Nat \ {0} /\ 0 \notin Steps /\ EmptyTracker \notin Steps
         /\ Running => /\ global_steps \in Steps /\ global_steps \in Nat \ {0}
                       /\ global_steps - 1 \in Nat
         /\ TrackedStep \in Nat /\ tracker \in Int
         /\ TotalSteps \in Nat /\ SaveFreq \in Nat /\ BatchesPerEpoch \in Nat \ {0}
         /\ epoch \in Nat /\ pos \in Nat /\ pos <= BatchesPerEpoch
BY ConstantsAssumption DEF TypeInv, ControlType, MemoryType, Steps, Running, TrackedStep,
                           NoTracker, EmptyTracker

LEMMA StepReadable ==
  ASSUME TypeInv, ReadableInv, SafeRetention, [Next]_vars
  PROVE  ReadableInv'
<1> USE GlobalStepsType DEF ReadableInv, Running
<1>1. CASE StartFromScratch
  BY <1>1 DEF StartFromScratch, SafeRetention
<1>2. CASE \E n \in Steps : Resume(n)
  BY <1>2 DEF Resume
<1>3. CASE ResumeRaises \/ Crash \/ OpenTracker
  BY <1>3 DEF ResumeRaises, Crash, OpenTracker
<1>4. CASE WriteTracker
  BY <1>4 DEF WriteTracker, memory
<1>5. CASE Loop \/ BeginSave \/ SkipSave \/ Rotate \/ WriteShards \/ CommitShards
           \/ WriteData \/ CommitData \/ UNCHANGED vars
  BY <1>5 DEF Loop, TrainStep, NextEpoch, DataExhausted, EndStep, BeginSave, SkipSave, Rotate,
              WriteShards, CommitShards, WriteData, CommitData, vars
<1> QED
  BY <1>1, <1>2, <1>3, <1>4, <1>5 DEF Next, Start, Saving

LEMMA StepLoss ==
  ASSUME TypeInv, TrackInv, LossInv, SafeRetention, [Next]_vars
  PROVE  LossInv'
<1> SUFFICES ASSUME SaveFreq > 0, Running'
             PROVE  /\ pc' = "end" => global_steps' - TrackedStep' <= global_steps' % SaveFreq
                    /\ pc' \notin {"end", "tracker"} =>
                         (global_steps' - 1) - TrackedStep' <= (global_steps' - 1) % SaveFreq
  BY DEF LossInv
<1>0. SaveFreq \in Nat \ {0}
  BY GlobalStepsType
<1>1. CASE StartFromScratch
  <2>1. global_steps' = 1 /\ TrackedStep' = 0 /\ pc' = "loop"
    BY <1>1, StartsFromTracked DEF StartFromScratch, FirstStep, TrackedStep, TrackInv
  <2>2. 0 % SaveFreq = 0
    BY <1>0, ModFacts
  <2> QED
    BY <2>1, <2>2
<1>2. ASSUME NEW n \in Steps, Resume(n) PROVE LossInv'
  <2>1. tracker = n /\ TrackedStep' = n /\ global_steps' = n + 1 /\ pc' = "loop"
    BY <1>2, StartsFromTracked DEF Resume, FirstStep, TrackedStep, TrackInv
  <2>2. n \in Nat /\ (n + 1) - 1 = n /\ n - n = 0
    BY GlobalStepsType
  <2>3. n % SaveFreq >= 0
    BY <1>0, <2>2, ModFacts
  <2> QED
    BY <2>1, <2>2, <2>3 DEF LossInv
<1>3. CASE SkipSave
  <2> DEFINE s == global_steps - 1
  <2>1. s \in Nat /\ s + 1 = global_steps /\ TrackedStep \in Nat
    BY <1>3, GlobalStepsType DEF SkipSave, Running
  <2>2. s - TrackedStep <= s % SaveFreq
    BY <1>3 DEF SkipSave, LossInv, Running
  <2>3. global_steps % SaveFreq # 0
    BY <1>3 DEF SkipSave, SaveDue
  <2>4. global_steps % SaveFreq = (s % SaveFreq) + 1
    BY <1>0, <2>1, <2>3, ModNext
  <2>5. s % SaveFreq \in Int
    BY <1>0, <2>1, ModFacts
  <2>6. global_steps - TrackedStep <= global_steps % SaveFreq
    BY <2>1, <2>2, <2>4, <2>5
  <2> QED
    BY <1>3, <2>6 DEF SkipSave, memory, TrackedStep
<1>4. CASE WriteTracker
  <2>1. TrackedStep' = global_steps /\ global_steps' = global_steps /\ pc' = "end"
    BY <1>4, GlobalStepsType DEF WriteTracker, memory, TrackedStep, Running
  <2>2. global_steps \in Nat /\ global_steps - global_steps = 0
    BY <1>4, GlobalStepsType DEF WriteTracker, Running
  <2>3. global_steps % SaveFreq >= 0
    BY <1>0, <2>2, ModFacts
  <2> QED
    BY <2>1, <2>2, <2>3
<1>5. CASE EndStep
  <2>1. global_steps' - 1 = global_steps /\ TrackedStep' = TrackedStep /\ pc' # "end" /\ pc = "end"
    BY <1>5, GlobalStepsType DEF EndStep, TrackedStep, Running
  <2> QED
    BY <2>1 DEF LossInv, Running
<1>6. CASE OpenTracker
  BY <1>6 DEF OpenTracker
<1>7. CASE TrainStep \/ NextEpoch \/ BeginSave \/ Rotate \/ WriteShards \/ CommitShards
           \/ WriteData \/ CommitData \/ UNCHANGED vars
  <2>1. /\ UNCHANGED <<global_steps, tracker>> /\ Running
        /\ (pc' = "end" => pc = "end")
        /\ (pc' \notin {"end", "tracker"} => pc \notin {"end", "tracker"})
    BY <1>7 DEF TrainStep, NextEpoch, BeginSave, Rotate, WriteShards, CommitShards,
                WriteData, CommitData, vars, memory, Running
  <2> QED
    BY <2>1 DEF LossInv, TrackedStep
<1>8. CASE ResumeRaises \/ Crash \/ DataExhausted
  BY <1>8 DEF ResumeRaises, Crash, DataExhausted, Running
<1> QED
  BY <1>1, <1>2, <1>3, <1>4, <1>5, <1>6, <1>7, <1>8 DEF Next, Start, Loop, Saving, LossInv

LEMMA StepPosition ==
  ASSUME TypeInv, PositionInv, [Next]_vars
  PROVE  PositionInv'
<1> DEFINE place == epoch * BatchesPerEpoch + pos
<1> USE GlobalStepsType
<1>0. /\ epoch * BatchesPerEpoch \in Nat /\ place \in Nat
      /\ (epoch + 1) * BatchesPerEpoch = epoch * BatchesPerEpoch + BatchesPerEpoch
      /\ 0 * BatchesPerEpoch = 0
  OBVIOUS
<1>1. CASE StartFromScratch
  BY <1>0, <1>1 DEF StartFromScratch, FreshMemory, FirstStep, PositionInv, StepsApplied
<1>2. ASSUME NEW n \in Steps, Resume(n) PROVE PositionInv'
  <2>1. disk["data"][n].val <= n /\ UNCHANGED disk
    BY <1>2 DEF PositionInv, Resume
  <2>2. disk["data"][n].val \in Nat
    BY PiecesFacts DEF TypeInv, DiskType, PieceType
  <2>3. epoch' = 0 /\ pos' = disk["data"][n].val /\ pc' = "loop" /\ global_steps' - 1 = n
    BY <1>2 DEF Resume, FirstStep
  <2>4. epoch' * BatchesPerEpoch + pos' <= StepsApplied'
    BY <2>1, <2>2, <2>3 DEF StepsApplied
  <2> QED
    BY <2>1, <2>4 DEF PositionInv
<1>3. CASE TrainStep
  <2>1. place <= global_steps - 1 /\ pos' = pos + 1 /\ UNCHANGED <<epoch, global_steps, disk>>
        /\ pc' = "check" /\ global_steps \in Nat
    BY <1>3 DEF TrainStep, PositionInv, StepsApplied, Running
  <2> QED
    BY <1>0, <2>1 DEF PositionInv, StepsApplied
<1>4. CASE NextEpoch
  <2>1. place <= global_steps - 1 /\ pos = BatchesPerEpoch /\ pos' = 0 /\ epoch' = epoch + 1
        /\ UNCHANGED <<pc, global_steps, disk>> /\ pc = "loop"
    BY <1>4 DEF NextEpoch, PositionInv, StepsApplied, Running
  <2> QED
    BY <1>0, <2>1 DEF PositionInv, StepsApplied
<1>5. CASE EndStep
  <2>1. place <= global_steps /\ (global_steps + 1) - 1 = global_steps /\ global_steps \in Nat
    BY <1>5 DEF EndStep, PositionInv, StepsApplied, Running
  <2> QED
    BY <1>5, <2>1 DEF EndStep, PositionInv, StepsApplied, Running
<1>6. CASE BeginSave \/ SkipSave \/ OpenTracker \/ WriteTracker \/ UNCHANGED vars
  BY <1>6 DEF BeginSave, SkipSave, OpenTracker, WriteTracker, vars, memory, PositionInv,
              StepsApplied, Running
<1>7. CASE ResumeRaises \/ Crash \/ DataExhausted
  BY <1>7 DEF ResumeRaises, Crash, DataExhausted, PositionInv, Running
<1>8. CASE Rotate \/ WriteShards \/ CommitShards \/ WriteData \/ CommitData
  <2>1. /\ UNCHANGED <<epoch, pos, global_steps>> /\ Running
        /\ pc # "loop" /\ pc' # "loop" /\ global_steps \in Nat
    BY <1>8 DEF Rotate, WriteShards, CommitShards, WriteData, CommitData, memory, Running
  <2>2. place <= global_steps
    BY <2>1 DEF PositionInv, StepsApplied
  <2>3. pos <= global_steps
    BY <1>0, <2>1, <2>2
  <2>4. \A n \in Steps : disk'["data"][n].val <= n
    <3> SUFFICES ASSUME NEW n \in Steps PROVE disk'["data"][n].val <= n
      OBVIOUS
    <3>1. disk["data"][n].val <= n /\ 0 <= n
      BY DEF PositionInv
    <3>2. CASE Rotate \/ WriteShards
      <4>1. saving # "data"
        BY <3>2, PiecesFacts DEF Rotate, WriteShards, TypeInv, ControlType
      <4> QED
        BY <3>1, <3>2, <4>1, RotateDisk, WriteShardsDisk, PiecesFacts
    <3>3. CASE CommitShards \/ CommitData
      <4>1. disk'["data"][n] = IF "data" = saving /\ n = global_steps
                               THEN [st |-> "whole", by |-> run,
                                     val |-> IF saving \in Roles THEN updates[saving] ELSE pos]
                               ELSE disk["data"][n]
        BY <3>3, CommitDisk, PiecesFacts
      <4> QED
        BY <2>3, <3>1, <4>1, PiecesFacts
    <3>4. CASE WriteData
      BY <3>1, <3>4, WriteDataDisk, PiecesFacts DEF Torn
    <3> QED
      BY <1>8, <3>2, <3>3, <3>4
  <2> QED
    BY <2>1, <2>2, <2>4 DEF PositionInv, StepsApplied
<1> QED
  BY <1>1, <1>2, <1>3, <1>4, <1>5, <1>6, <1>7, <1>8 DEF Next, Start, Loop, Saving

LEMMA StepLastSaved ==
  ASSUME TypeInv, TrackInv, LastSavedInv, SafeRetention, [Next]_vars
  PROVE  LastSavedInv'
<1> SUFFICES ASSUME SaveFreq > 0
             PROVE  /\ pc' = "end" /\ IsLastStep' => tracker' = global_steps'
                    /\ pc' = "loop" /\ global_steps' - 1 >= TotalSteps
                         => tracker' = global_steps' - 1
  BY DEF LastSavedInv
<1> USE GlobalStepsType
<1>1. CASE StartFromScratch
  <2>1. TotalSteps >= 1
    BY ConstantsAssumption
  <2> QED
    BY <1>1, <2>1 DEF StartFromScratch, FirstStep
<1>2. ASSUME NEW n \in Steps, Resume(n) PROVE LastSavedInv'
  <2>1. tracker = n /\ tracker' = n /\ global_steps' = n + 1 /\ pc' = "loop"
    BY <1>2, StartsFromTracked DEF Resume, FirstStep, TrackInv
  <2>2. n \in Nat /\ (n + 1) - 1 = n
    OBVIOUS
  <2> QED
    BY <2>1, <2>2 DEF LastSavedInv
<1>3. CASE SkipSave
  BY <1>3 DEF SkipSave, SaveDue, IsLastStep, memory
<1>4. CASE WriteTracker
  BY <1>4 DEF WriteTracker, memory
<1>5. CASE EndStep
  <2>1. (global_steps + 1) - 1 = global_steps /\ pc = "end"
    BY <1>5 DEF EndStep, Running
  <2> QED
    BY <1>5, <2>1 DEF EndStep, IsLastStep
<1>6. CASE TrainStep \/ NextEpoch \/ BeginSave \/ Rotate \/ WriteShards \/ CommitShards
           \/ WriteData \/ CommitData \/ OpenTracker \/ UNCHANGED vars
  <2>1. /\ (pc' = "end" \/ pc' = "loop" => pc = pc' /\ UNCHANGED <<global_steps, tracker>>)
    BY <1>6 DEF TrainStep, NextEpoch, BeginSave, Rotate, WriteShards, CommitShards,
                WriteData, CommitData, OpenTracker, vars, memory
  <2> QED
    BY <2>1 DEF LastSavedInv, IsLastStep
<1>7. CASE ResumeRaises \/ Crash \/ DataExhausted
  BY <1>7 DEF ResumeRaises, Crash, DataExhausted
<1> QED
  BY <1>1, <1>2, <1>3, <1>4, <1>5, <1>6, <1>7 DEF Next, Start, Loop, Saving, LastSavedInv

LEMMA StepData ==
  ASSUME TypeInv, DataInv, [Next]_vars
  PROVE  DataInv'
<1>1. CASE CommitData
  <2>1. global_steps' = global_steps /\ pos' = pos /\ saving = "data"
    BY <1>1 DEF CommitData, memory
  <2> QED
    BY <1>1, <2>1, CommitDisk, PiecesFacts DEF DataInv
<1>2. CASE OpenTracker
  BY <1>2 DEF OpenTracker, memory, DataInv
<1>3. CASE UNCHANGED vars
  BY <1>3 DEF vars, memory, DataInv
<1>4. CASE Start \/ Loop \/ BeginSave \/ SkipSave \/ Rotate \/ WriteShards \/ CommitShards
           \/ WriteData \/ WriteTracker \/ Crash
  <2>1. pc' \notin {"open", "tracker"}
    BY <1>4 DEF Start, StartFromScratch, Resume, ResumeRaises, Loop, TrainStep, NextEpoch,
         DataExhausted, EndStep, BeginSave, SkipSave, Rotate, WriteShards, CommitShards,
         WriteData, WriteTracker, Crash
  <2> QED
    BY <2>1 DEF DataInv
<1> QED
  BY <1>1, <1>2, <1>3, <1>4 DEF Next, Saving

\* The steps of a job that ended are all saved; data ran out before its last step only
\* if there was less of it than total_training_steps.
LEMMA StepFinished ==
  ASSUME TypeInv, LastSavedInv, PositionInv, FinishedIsSaved, [Next]_vars
  PROVE  FinishedIsSaved'
<1> SUFFICES ASSUME pc' = "done", SaveFreq > 0, TotalSteps <= Epochs * BatchesPerEpoch
             PROVE  tracker' = global_steps' - 1
  BY DEF FinishedIsSaved
<1> USE GlobalStepsType, ConstantsAssumption
<1>1. CASE EndStep
  <2>1. IsLastStep /\ pc = "end" /\ (global_steps + 1) - 1 = global_steps
    BY <1>1 DEF EndStep, Running
  <2> QED
    BY <1>1, <2>1 DEF EndStep, LastSavedInv
<1>2. CASE DataExhausted
  <2>1. epoch = Epochs - 1 /\ pos = BatchesPerEpoch
    BY <1>2 DEF DataExhausted, TypeInv, MemoryType
  <2>2. epoch * BatchesPerEpoch + pos = Epochs * BatchesPerEpoch
    BY <2>1
  <2>3. epoch * BatchesPerEpoch + pos <= global_steps - 1 /\ global_steps \in Nat
    BY <1>2 DEF DataExhausted, PositionInv, StepsApplied, Running
  <2>4. global_steps - 1 >= TotalSteps
    BY <2>2, <2>3
  <2> QED
    BY <1>2, <2>4 DEF DataExhausted, memory, LastSavedInv
<1>3. CASE UNCHANGED vars
  BY <1>3 DEF vars, memory, FinishedIsSaved
<1> QED
  BY <1>1, <1>2, <1>3 DEF Next, Start, StartFromScratch, Resume, ResumeRaises, Loop, TrainStep,
     NextEpoch, Saving, BeginSave, SkipSave, Rotate, WriteShards, CommitShards, WriteData,
     CommitData, OpenTracker, WriteTracker, Crash

RecoveryInv == ReadableInv /\ LossInv /\ PositionInv /\ LastSavedInv /\ DataInv /\ FinishedIsSaved

LEMMA RecoveryInvAlways ==
  ASSUME SafeRetention
  PROVE  Spec => []RecoveryInv
<1>1. Init => RecoveryInv
  <2> SUFFICES ASSUME Init PROVE RecoveryInv
    OBVIOUS
  <2>1. ~Running /\ pc = "down"
    BY DEF Init, Running
  <2>2. \A n \in Steps : disk["data"][n].val <= n
    BY PiecesFacts DEF Init, Absent, Steps
  <2> QED
    BY <2>1, <2>2 DEF RecoveryInv, ReadableInv, LossInv, PositionInv, LastSavedInv, DataInv,
                      FinishedIsSaved
<1>2. TypeInv /\ TrackInv /\ RecoveryInv /\ [Next]_vars => RecoveryInv'
  BY StepReadable, StepLoss, StepPosition, StepLastSaved, StepData, StepFinished DEF RecoveryInv
<1> QED
  BY <1>1, <1>2, TypeInvAlways, TrackInvAlways, PTL DEF Spec

\* A process that dies in step s, whatever it was doing, costs fewer than save_freq
\* finished steps: the tracked checkpoint is no further behind.
THEOREM LossBounded ==
  ASSUME SafeRetention
  PROVE  Spec => []BoundedLoss
<1>1. TypeInv /\ RecoveryInv => BoundedLoss
  <2> SUFFICES ASSUME TypeInv, LossInv, SaveFreq > 0, pc = "loop"
               PROVE  global_steps - 1 - TrackedStep < SaveFreq
    BY DEF BoundedLoss, RecoveryInv, TrackedStep
  <2>1. (global_steps - 1) - TrackedStep <= (global_steps - 1) % SaveFreq
    BY DEF LossInv, Running
  <2>2. global_steps - 1 \in Nat /\ TrackedStep \in Nat /\ SaveFreq \in Nat \ {0}
    BY GlobalStepsType DEF Running
  <2>3. (global_steps - 1) % SaveFreq \in 0 .. (SaveFreq - 1)
    BY <2>2, ModFacts
  <2> QED
    BY <2>1, <2>2, <2>3
<1> QED
  BY <1>1, TypeInvAlways, RecoveryInvAlways, PTL

\* A job that finished has its last step in the tracked checkpoint, across any number of
\* deaths and restarts before, unless there was too little data for total_training_steps.
THEOREM FinishedAlwaysSaved ==
  ASSUME SafeRetention
  PROVE  Spec => []FinishedIsSaved
<1>1. RecoveryInv => FinishedIsSaved
  BY DEF RecoveryInv
<1> QED
  BY <1>1, RecoveryInvAlways, PTL

-----------------------------------------------------------------------------
(* The loop with its files implements ResumableTraining. *)

\* What the files of the tracked step hold does not change while the tracker stays.
LEMMA PublishedFrame ==
  ASSUME UNCHANGED tracker,
         tracker \in Steps => \A p \in Pieces : disk'[p][tracker] = disk[p][tracker]
  PROVE  UNCHANGED PublishedState
BY PiecesFacts DEF PublishedState, InitialState

LEMMA PublishedStays ==
  ASSUME TypeInv, TrackInv, SafeRetention,
         Rotate \/ WriteShards \/ CommitShards \/ WriteData \/ CommitData
  PROVE  UNCHANGED PublishedState
<1>1. UNCHANGED tracker /\ Running /\ pc # "end"
  BY DEF Rotate, WriteShards, CommitShards, WriteData, CommitData, Running
<1>2. tracker \in Steps => tracker # global_steps
  BY <1>1, GlobalStepsType DEF TrackInv, TrackerBehind
<1>3. ASSUME tracker \in Steps, NEW p \in Pieces
      PROVE  disk'[p][tracker] = disk[p][tracker]
  <2>1. CASE Rotate
    BY <1>3, <2>1, RotateDisk, TrackedNotVictim DEF TrackInv
  <2>2. CASE WriteShards
    BY <1>2, <1>3, <2>2, WriteShardsDisk, TrackedNotVictim DEF TrackInv
  <2>3. CASE CommitShards \/ CommitData
    BY <1>2, <1>3, <2>3, CommitDisk
  <2>4. CASE WriteData
    BY <1>2, <1>3, <2>4, WriteDataDisk
  <2> QED
    BY <2>1, <2>2, <2>3, <2>4
<1> QED
  BY <1>1, <1>3, PublishedFrame

\* A step of the save sequence leaves the training state in memory as it is.
LEMMA MemoryStays ==
  ASSUME Running, Running', pc # "loop", pc' # "loop", UNCHANGED <<global_steps, updates, pos>>
  PROVE  UNCHANGED MemoryState
BY DEF MemoryState

\* A new process holds exactly what is published.
LEMMA StartContinues ==
  ASSUME TypeInv, TrackInv, SafeRetention, StartFromScratch \/ \E n \in Steps : Resume(n)
  PROVE  /\ ~Running /\ Running' /\ tracker # EmptyTracker
         /\ UNCHANGED <<disk, tracker>> /\ MemoryState' = PublishedState
<1> USE DEF Running
<1>1. CASE StartFromScratch
  <2>1. tracker \notin Steps /\ tracker # EmptyTracker
    BY <1>1, StartsFromTracked DEF StartFromScratch, SafeRetention, TrackInv
  <2>2. /\ pc' = "loop" /\ global_steps' - 1 = 0
        /\ updates' = [r \in Roles |-> 0] /\ pos' = 0
    BY <1>1 DEF StartFromScratch, FreshMemory, FirstStep
  <2>3. 0 % BatchesPerEpoch = 0
    BY ConstantsAssumption, ModFacts
  <2> QED
    BY <1>1, <2>1, <2>2, <2>3 DEF MemoryState, PublishedState, InitialState,
                                  StartFromScratch, CanStart
<1>2. ASSUME NEW n \in Steps, Resume(n)
      PROVE  /\ ~Running /\ Running' /\ tracker # EmptyTracker
             /\ UNCHANGED <<disk, tracker>> /\ MemoryState' = PublishedState
  <2>1. n = tracker /\ (n + 1) - 1 = n
    BY <1>2, StartsFromTracked DEF TrackInv, Steps
  <2>2. /\ pc' = "loop" /\ global_steps' = n + 1
        /\ updates' = [r \in Roles |-> disk[r][n].val] /\ pos' = disk["data"][n].val
        /\ pc \in {"down", "done", "failed"} /\ tracker # EmptyTracker /\ UNCHANGED <<disk, tracker>>
    BY <1>2 DEF Resume, FirstStep, CanStart
  <2>3. PublishedState = [step |-> n, upd |-> [r \in Roles |-> disk[r][n].val],
                          pos |-> disk["data"][n].val % BatchesPerEpoch]
    BY <2>1 DEF PublishedState
  <2>4. MemoryState' = [step |-> (n + 1) - 1, upd |-> [r \in Roles |-> disk[r][n].val],
                        pos |-> disk["data"][n].val % BatchesPerEpoch]
    BY <2>2 DEF MemoryState
  <2> QED
    BY <2>1, <2>2, <2>3, <2>4
<1> QED
  BY <1>1, <1>2

\* A training step advances the state by OneStep, at the end of an epoch too.
LEMMA TrainAdvances ==
  ASSUME TypeInv, TrainStep
  PROVE  Running /\ Running' /\ MemoryState' = OneStep(MemoryState)
<1> USE DEF Running
<1>1. /\ pc = "loop" /\ pc' = "check" /\ UNCHANGED global_steps
      /\ pos < BatchesPerEpoch /\ pos' = pos + 1
      /\ updates' = [r \in Roles |-> IF r = "critic" \/ CriticWarmup <= global_steps
                                     THEN updates[r] + 1 ELSE updates[r]]
  BY DEF TrainStep
<1>2. (global_steps - 1) + 1 = global_steps
  BY <1>1, GlobalStepsType
<1>3. pos % BatchesPerEpoch = pos
  BY <1>1, GlobalStepsType, ModFacts
<1> DEFINE m == [step |-> global_steps - 1, upd |-> updates, pos |-> pos % BatchesPerEpoch]
<1>4. MemoryState = m
  BY <1>1 DEF MemoryState
<1>5. OneStep(m) = [step |-> global_steps, upd |-> updates', pos |-> pos' % BatchesPerEpoch]
  <2>1. OneStep(m) = [step |-> m.step + 1,
                      upd  |-> [r \in Roles |-> IF r = "critic" \/ CriticWarmup <= m.step + 1
                                                THEN m.upd[r] + 1 ELSE m.upd[r]],
                      pos  |-> (m.pos + 1) % BatchesPerEpoch]
    BY DEF OneStep
  <2>2. m.step = global_steps - 1 /\ m.upd = updates /\ m.pos = pos
    BY <1>3
  <2> HIDE DEF m
  <2> QED
    BY <1>1, <1>2, <2>1, <2>2
<1>6. MemoryState' = [step |-> global_steps, upd |-> updates', pos |-> pos' % BatchesPerEpoch]
  BY <1>1 DEF MemoryState
<1> QED
  BY <1>1, <1>4, <1>5, <1>6

\* Writing the tracker publishes the state in memory, every piece of it.
LEMMA TrackerPublishes ==
  ASSUME TypeInv, CountInv, DoneInv, DataInv, WriteTracker
  PROVE  PublishedState' = MemoryState /\ UNCHANGED MemoryState
<1>1. /\ pc = "tracker" /\ pc' = "end" /\ tracker' = global_steps
      /\ UNCHANGED <<global_steps, updates, pos, disk>>
  BY DEF WriteTracker, memory
<1>2. global_steps \in Steps
  BY <1>1, GlobalStepsType DEF Running
<1>3. \A r \in Roles : disk[r][global_steps].val = updates[r]
  <2>1. \A r \in Roles : disk[r][global_steps].st = "whole"
    BY <1>1, PiecesFacts DEF DoneInv, Done
  <2>2. \A r \in Roles : disk[r][global_steps].val = Updates(r, global_steps)
    BY <1>2, <2>1 DEF CountInv
  <2>3. \A r \in Roles : updates[r] = Updates(r, global_steps)
    BY <1>1 DEF CountInv, StepsApplied, Running
  <2> QED
    BY <2>2, <2>3
<1>4. disk["data"][global_steps].val = pos
  BY <1>1 DEF DataInv
<1>5. updates = [r \in Roles |-> updates[r]]
  BY DEF TypeInv, MemoryType
<1>6. PublishedState' = [step |-> global_steps, upd |-> updates, pos |-> pos % BatchesPerEpoch]
  BY <1>1, <1>2, <1>3, <1>4, <1>5 DEF PublishedState
<1>7. MemoryState = [step |-> global_steps, upd |-> updates, pos |-> pos % BatchesPerEpoch]
  BY <1>1 DEF MemoryState, Running
<1>8. MemoryState' = MemoryState
  BY <1>1, MemoryStays DEF Running
<1> QED
  BY <1>6, <1>7, <1>8

\* Every step of the loop is a step of ResumableTraining or leaves its state alone.
LEMMA StepRefines ==
  ASSUME TypeInv, CountInv, DoneInv, TrackInv, RecoveryInv, SafeRetention, [Next]_vars
  PROVE  [Abstract!Next]_(Abstract!vars)
<1> USE DEF Running, RecoveryInv
<1>1. CASE StartFromScratch \/ \E n \in Steps : Resume(n)
  <2>1. ~Running /\ Running' /\ tracker # EmptyTracker /\ UNCHANGED <<disk, tracker>>
        /\ MemoryState' = PublishedState
    BY <1>1, StartContinues
  <2>2. UNCHANGED PublishedState
    BY <2>1, PublishedFrame
  <2>3. Abstract!Start
    BY <2>1, <2>2 DEF Abstract!Start
  <2> QED
    BY <2>3 DEF Abstract!Next
<1>2. CASE ResumeRaises \/ UNCHANGED vars
  <2>1. UNCHANGED <<Running, disk, tracker, MemoryState>>
    BY <1>2 DEF ResumeRaises, CanStart, vars, memory, MemoryState
  <2>2. UNCHANGED PublishedState
    BY <2>1, PublishedFrame
  <2> QED
    BY <2>1, <2>2 DEF Abstract!vars
<1>3. CASE TrainStep
  <2>1. Running /\ Running' /\ MemoryState' = OneStep(MemoryState)
    BY <1>3, TrainAdvances
  <2>2. UNCHANGED <<disk, tracker>>
    BY <1>3 DEF TrainStep
  <2>3. UNCHANGED PublishedState
    BY <2>2, PublishedFrame
  <2>4. Abstract!Train
    BY <2>1, <2>2, <2>3 DEF Abstract!Train
  <2> QED
    BY <2>4 DEF Abstract!Next
<1>4. CASE NextEpoch \/ (EndStep /\ Running')
  <2>1. UNCHANGED <<disk, tracker>> /\ Running /\ Running'
    BY <1>4 DEF NextEpoch, EndStep
  <2>2. UNCHANGED MemoryState
    <3>1. CASE NextEpoch
      <4>1. pos % BatchesPerEpoch = 0 /\ pos' % BatchesPerEpoch = 0
        BY <3>1, ConstantsAssumption, ModFacts DEF NextEpoch
      <4> QED
        BY <3>1, <4>1 DEF NextEpoch, MemoryState
    <3>2. CASE EndStep /\ Running'
      <4>1. (global_steps + 1) - 1 = global_steps
        BY <3>2, GlobalStepsType DEF EndStep
      <4> QED
        BY <3>2, <4>1 DEF EndStep, MemoryState
    <3> QED
      BY <1>4, <3>1, <3>2
  <2>3. UNCHANGED PublishedState
    BY <2>1, PublishedFrame
  <2> QED
    BY <2>1, <2>2, <2>3 DEF Abstract!vars
<1>5. CASE DataExhausted \/ Crash \/ (EndStep /\ ~Running')
  <2>1. UNCHANGED <<disk, tracker>> /\ Running /\ ~Running'
    BY <1>5 DEF DataExhausted, Crash, EndStep
  <2>2. MemoryState' = InitialState
    BY <2>1 DEF MemoryState
  <2>3. UNCHANGED PublishedState
    BY <2>1, PublishedFrame
  <2>4. Abstract!Stop
    BY <2>1, <2>2, <2>3 DEF Abstract!Stop
  <2> QED
    BY <2>4 DEF Abstract!Next
<1>6. CASE BeginSave \/ SkipSave
  <2>1. UNCHANGED <<disk, tracker>> /\ Running /\ Running'
        /\ pc # "loop" /\ pc' # "loop" /\ UNCHANGED <<global_steps, updates, pos>>
    BY <1>6 DEF BeginSave, SkipSave, memory
  <2>2. UNCHANGED MemoryState
    BY <2>1, MemoryStays
  <2>3. UNCHANGED PublishedState
    BY <2>1, PublishedFrame
  <2> QED
    BY <2>1, <2>2, <2>3 DEF Abstract!vars
<1>7. CASE Rotate \/ WriteShards \/ CommitShards \/ WriteData \/ CommitData
  <2>1. UNCHANGED tracker /\ Running /\ Running'
        /\ pc # "loop" /\ pc' # "loop" /\ UNCHANGED <<global_steps, updates, pos>>
    BY <1>7 DEF Rotate, WriteShards, CommitShards, WriteData, CommitData, memory
  <2>2. UNCHANGED MemoryState
    BY <2>1, MemoryStays
  <2>3. UNCHANGED PublishedState
    BY <1>7, PublishedStays
  <2> QED
    BY <2>1, <2>2, <2>3 DEF Abstract!vars
<1>8. CASE OpenTracker
  <2>1. tracker # EmptyTracker /\ tracker' = EmptyTracker /\ Running /\ Running'
        /\ pc # "loop" /\ pc' # "loop" /\ UNCHANGED <<global_steps, updates, pos>>
    BY <1>8 DEF OpenTracker, ReadableInv, memory
  <2>2. UNCHANGED MemoryState
    BY <2>1, MemoryStays
  <2>3. PublishedState' = InitialState
    BY <2>1, GlobalStepsType DEF PublishedState, InitialState
  <2>4. Abstract!Withdraw
    BY <2>1, <2>2, <2>3 DEF Abstract!Withdraw
  <2> QED
    BY <2>4 DEF Abstract!Next
<1>9. CASE WriteTracker
  <2>1. tracker = EmptyTracker /\ tracker' # EmptyTracker /\ Running /\ Running'
    BY <1>9, GlobalStepsType DEF WriteTracker, ReadableInv
  <2>2. PublishedState' = MemoryState /\ UNCHANGED MemoryState
    BY <1>9, TrackerPublishes
  <2>3. Abstract!Publish
    BY <2>1, <2>2 DEF Abstract!Publish
  <2> QED
    BY <2>3 DEF Abstract!Next
<1> QED
  BY <1>1, <1>2, <1>3, <1>4, <1>5, <1>6, <1>7, <1>8, <1>9 DEF Next, Start, Loop, Saving

\* Rotation, partial saves, deaths and restarts never show through: every process goes on
\* from exactly the state last published, weights, counter and data position together.
THEOREM FilesImplementResumable ==
  ASSUME SafeRetention
  PROVE  Spec => ImplementsResumableTraining
<1>1. Init => Abstract!Init
  BY GlobalStepsType DEF Init, Abstract!Init, Running, MemoryState, PublishedState,
                         NoTracker, EmptyTracker, Steps
<1> QED
  BY <1>1, StepRefines, TypeInvAlways, CountInvAlways, DoneInvAlways, TrackInvAlways,
     RecoveryInvAlways, PTL DEF Spec, ImplementsResumableTraining, Abstract!Spec
=============================================================================
