------------------------ MODULE CheckpointedTraining ------------------------
(***************************************************************************)
(* The training loop RayPPOTrainer.fit and the checkpoints it writes and   *)
(* resumes from: the step counter, the weights of each role, the position  *)
(* in the training data, the save sequence (actor, critic, data.pt,        *)
(* tracker file), the rotation FSDPCheckpointManager does before it        *)
(* writes, and the process dying at any point of it.                       *)
(*                                                                         *)
(* Everything held by the process is lost when it dies; disk and tracker   *)
(* are what a later process finds.                                         *)
(***************************************************************************)
EXTENDS Integers, Sequences, FiniteSets

CONSTANTS
    UseCritic,        \* BOOLEAN: is there a critic worker group
    TotalSteps,       \* total_training_steps
    Epochs,           \* trainer.total_epochs
    BatchesPerEpoch,  \* len(train_dataloader)
    SaveFreq,         \* trainer.save_freq, 0 when saving is off
    CriticWarmup,     \* trainer.critic_warmup
    MaxKeep,          \* max_actor_ckpt_to_keep, max_critic_ckpt_to_keep; 0 is null
    ResumeModes,      \* the values of trainer.resume_mode a start may use
    MaxRuns           \* bound: how many times the program is started

Roles  == IF UseCritic THEN {"actor", "critic"} ELSE {"actor"}
Pieces == Roles \cup {"data"}
Steps  == 1 .. (TotalSteps + MaxRuns)   \* each start passes TotalSteps at most once

ASSUME ConstantsAssumption ==
    /\ UseCritic \in BOOLEAN
    /\ TotalSteps \in Nat \ {0} /\ Epochs \in Nat \ {0}
    /\ BatchesPerEpoch \in Nat \ {0} /\ SaveFreq \in Nat
    /\ CriticWarmup \in Nat /\ MaxRuns \in Nat
    /\ MaxKeep \in [{"actor", "critic"} -> Nat]
    /\ ResumeModes \subseteq {"auto", "disable", "resume_path"}

NoTracker    == 0    \* latest_checkpointed_iteration.txt does not exist
EmptyTracker == -1   \* it was truncated by open(..., "w") and not written yet

VARIABLES
    pc,            \* where the driver process is
    run,           \* which start of the program this is
    saving,        \* the piece _save_checkpoint is working on
    global_steps,
    updates,       \* role -> how many updates its weights have received
    epoch,         \* the for loop over epochs ...
    pos,           \* ... and how many batches of this epoch the loader has yielded
    origin,        \* piece -> the start whose save was loaded, 0 when fresh (history)
    previous_saved_paths, \* role -> the steps this process saved and has not rotated out
    disk,          \* piece -> step -> what lies in global_step_<step>/<piece>
    tracker

memory == <<global_steps, updates, epoch, pos, origin, previous_saved_paths>>
vars   == <<pc, run, saving, memory, disk, tracker>>

\* by: the start that wrote it; val: the updates in the weights, or the loader's position.
\* A directory that is overwritten has those of the save below, and is "mixed" while
\* each of its files is one of the old save or one of the new.
Absent == [st |-> "absent", by |-> 0, val |-> 0]
Torn   == [st |-> "torn",   by |-> 0, val |-> 0]

-----------------------------------------------------------------------------
(* Starting: fit calls _load_checkpoint before anything else. *)

\* A folder is never removed, only the actor and critic directories in it.
FolderExists(n) == \E p \in Pieces : disk[p][n].st # "absent"

\* find_latest_ckpt_path; 0 stands for None.
LatestCkpt ==
    IF tracker \in Steps /\ FolderExists(tracker) THEN tracker ELSE 0

\* The tracker is read in mode "resume_path" too, before its value is put aside.
TrackerRaises == tracker = EmptyTracker /\ ResumeModes \cap {"auto", "resume_path"} # {}

ResumePoints ==
    {n \in Steps : \/ "auto" \in ResumeModes /\ n = LatestCkpt
                   \/ "resume_path" \in ResumeModes /\ FolderExists(n)}

\* Mutation: a directory that is being written counts as a checkpoint.
LoadableTorn(n) == \A r \in Roles : disk[r][n].st # "absent"

\* Both roles must load; a missing data.pt is only a warning.
Loadable(n) ==
    /\ \A r \in Roles : disk[r][n].st \in {"whole", "mixed"}
    /\ disk["data"][n].st # "torn"

\* What a new process holds when it loads nothing.
FreshMemory ==
    /\ updates' = [r \in Roles |-> 0]
    /\ epoch' = 0 /\ pos' = 0
    /\ origin' = [p \in Pieces |-> 0]
    /\ previous_saved_paths' = [r \in Roles |-> <<>>]

\* Mutation: the loaded step is trained again.
FirstStepRepeated(n) == IF n = 0 THEN 1 ELSE n

\* fit adds one to the step it loaded, or to 0.
FirstStep(n) == n + 1

CanStart == pc \in {"down", "done", "failed"} /\ run < MaxRuns

StartFromScratch ==
    /\ CanStart
    /\ \/ "disable" \in ResumeModes
       \/ "auto" \in ResumeModes /\ tracker # EmptyTracker /\ LatestCkpt = 0
    /\ pc' = "loop" /\ run' = run + 1
    /\ global_steps' = FirstStep(0)
    /\ FreshMemory
    /\ UNCHANGED <<saving, disk, tracker>>

\* The sampler epoch is not part of data.pt: the epoch loop starts at 0 again.
Resume(n) ==
    /\ CanStart
    /\ tracker # EmptyTracker
    /\ n \in ResumePoints
    /\ Loadable(n)
    /\ pc' = "loop" /\ run' = run + 1
    /\ global_steps' = FirstStep(n)
    /\ updates' = [r \in Roles |-> disk[r][n].val]
    /\ epoch' = 0 /\ pos' = disk["data"][n].val
    /\ origin' = [p \in Pieces |-> disk[p][n].by]
    /\ previous_saved_paths' = [r \in Roles |-> <<>>]
    /\ UNCHANGED <<saving, disk, tracker>>

\* int("") on an empty tracker, or torch.load on a missing or torn file, raises.
ResumeRaises ==
    /\ CanStart
    /\ \/ TrackerRaises
       \/ \E n \in ResumePoints : ~Loadable(n)
    /\ pc' = "failed" /\ run' = run + 1
    /\ UNCHANGED <<saving, memory, disk, tracker>>

-----------------------------------------------------------------------------
(* One training step. *)

\* The rollout, the reward, the critic and the actor update change only the
\* process's memory, so nothing is seen between them. The actor waits for the warmup.
TrainStep ==
    /\ pc = "loop"
    /\ pos < BatchesPerEpoch
    /\ pos' = pos + 1
    /\ updates' = [r \in Roles |-> IF r = "critic" \/ CriticWarmup <= global_steps
                                   THEN updates[r] + 1 ELSE updates[r]]
    /\ pc' = "check"
    /\ UNCHANGED <<run, saving, global_steps, epoch, origin, previous_saved_paths, disk, tracker>>

NextEpoch ==
    /\ pc = "loop"
    /\ pos = BatchesPerEpoch
    /\ epoch + 1 < Epochs
    /\ epoch' = epoch + 1 /\ pos' = 0
    /\ UNCHANGED <<pc, run, saving, global_steps, updates, origin, previous_saved_paths, disk, tracker>>

\* The epoch loop ends without a step that was the last one: fit just returns.
DataExhausted ==
    /\ pc = "loop"
    /\ pos = BatchesPerEpoch
    /\ epoch + 1 >= Epochs
    /\ pc' = "done"
    /\ UNCHANGED <<run, saving, memory, disk, tracker>>

\* Mutation: only the step that equals the total is the last one.
IsLastStepExact == global_steps = TotalSteps

IsLastStep == global_steps >= TotalSteps

\* Mutation: the conditions of a save are joined in the wrong way.
SaveDueOnExpiry(esi) ==
    /\ SaveFreq > 0
    /\ IsLastStep \/ (global_steps % SaveFreq = 0 /\ esi)

\* Mutation: the last step is not saved for being the last.
SaveDueByFrequency(esi) ==
    /\ SaveFreq > 0
    /\ global_steps % SaveFreq = 0 \/ esi

SaveDue(esi) ==
    /\ SaveFreq > 0
    /\ IsLastStep \/ global_steps % SaveFreq = 0 \/ esi

\* esi: should_save_ckpt_esi sees the capacity block about to expire.
BeginSave ==
    /\ pc = "check"
    /\ \E esi \in BOOLEAN : SaveDue(esi)
    /\ pc' = "rotate" /\ saving' = "actor"
    /\ UNCHANGED <<run, memory, disk, tracker>>

SkipSave ==
    /\ pc = "check"
    /\ \E esi \in BOOLEAN : ~SaveDue(esi)
    /\ pc' = "end"
    /\ UNCHANGED <<run, saving, memory, disk, tracker>>

EndStep ==
    /\ pc = "end"
    /\ global_steps' = global_steps + 1
    /\ pc' = IF IsLastStep THEN "done" ELSE "loop"
    /\ UNCHANGED <<run, saving, updates, epoch, pos, origin, previous_saved_paths, disk, tracker>>

-----------------------------------------------------------------------------
(* _save_checkpoint: the pieces in order, then the tracker. *)

\* Mutation: the critic is forgotten.
NextPieceSkipsCritic(p) == "data"

NextPiece(p) == IF p = "actor" /\ UseCritic THEN "critic" ELSE "data"

\* Mutation: one more of the old checkpoints goes.
KeepStartOneMore(r) ==
    LET paths == previous_saved_paths[r]
    IN  IF MaxKeep[r] > 0 /\ Len(paths) >= MaxKeep[r] THEN Len(paths) - MaxKeep[r] + 2 ELSE 0

\* Mutation: rotation starts one checkpoint too late.
KeepStartLate(r) ==
    LET paths == previous_saved_paths[r]
    IN  IF MaxKeep[r] > 0 /\ Len(paths) > MaxKeep[r] THEN Len(paths) - MaxKeep[r] + 1 ELSE 0

\* How many of the oldest paths the manager drops before it writes a new one.
KeepStart(r) ==
    LET paths == previous_saved_paths[r]
    IN  IF MaxKeep[r] > 0 /\ Len(paths) >= MaxKeep[r] THEN Len(paths) - MaxKeep[r] + 1 ELSE 0

Victims(r) == {previous_saved_paths[r][i] : i \in 1 .. KeepStart(r)}

\* Mutation: a rank with nothing to remove never joins the others.
RotateWaitsForVictims ==
    /\ pc = "rotate" /\ Victims(saving) # {}
    /\ pc' = "write"
    /\ UNCHANGED <<run, saving, memory, disk, tracker>>

\* shutil.rmtree of the oldest directories begins ...
Rotate ==
    /\ pc = "rotate" /\ saving \in Roles
    /\ disk' = [disk EXCEPT ![saving] =
                  [n \in Steps |-> IF n \in Victims(saving) THEN Torn ELSE @[n]]]
    /\ pc' = "write"
    /\ UNCHANGED <<run, saving, memory, tracker>>

\* What a death may leave of a directory that is being written over old: a file that
\* is missing or cut short, or whole files of both saves. The ranks load what is
\* there: the weights may be of either save.
BeingWritten(old, count) ==
    {[old EXCEPT !.st = "torn"]}
      \cup (IF old.by = 0 THEN {}
            ELSE {[st |-> "mixed", by |-> old.by, val |-> val] : val \in {old.val, count}})

\* ... ends, and the ranks begin to write their shards of the new one.
WriteShards ==
    /\ pc = "write"
    /\ \E written \in BeingWritten(disk[saving][global_steps], updates[saving]) :
         disk' = [disk EXCEPT ![saving] =
                    [n \in Steps |-> IF n = global_steps THEN written
                                     ELSE IF n \in Victims(saving) THEN Absent ELSE @[n]]]
    /\ previous_saved_paths' = [previous_saved_paths EXCEPT ![saving] =
                                  SubSeq(@, KeepStart(saving) + 1, Len(@))]
    /\ pc' = "commit"
    /\ UNCHANGED <<run, saving, global_steps, updates, epoch, pos, origin, tracker>>

\* All ranks are past the last barrier.
CommitShards ==
    /\ pc = "commit" /\ saving \in Roles
    /\ disk' = [disk EXCEPT ![saving][global_steps] =
                  [st |-> "whole", by |-> run, val |-> updates[saving]]]
    /\ previous_saved_paths' = [previous_saved_paths EXCEPT ![saving] = Append(@, global_steps)]
    /\ saving' = NextPiece(saving)
    /\ pc' = IF saving' \in Roles THEN "rotate" ELSE "data"
    /\ UNCHANGED <<run, global_steps, updates, epoch, pos, origin, tracker>>

\* Mutation: data.pt is not saved.
WriteDataSkipped ==
    /\ pc = "data"
    /\ pc' = "open"
    /\ UNCHANGED <<run, saving, memory, disk, tracker>>

\* torch.save of the dataloader state truncates data.pt ...
WriteData ==
    /\ pc = "data"
    /\ disk' = [disk EXCEPT !["data"][global_steps] = Torn]
    /\ pc' = "commit"
    /\ UNCHANGED <<run, saving, memory, tracker>>

\* Mutation: the loader has fetched the next batch when its state is saved.
CommitDataPrefetched ==
    /\ pc = "commit" /\ saving = "data"
    /\ disk' = [disk EXCEPT !["data"][global_steps] =
                  [st |-> "whole", by |-> run, val |-> pos + 1]]
    /\ pc' = "open"
    /\ UNCHANGED <<run, saving, memory, tracker>>

\* Mutation: the step is saved in place of the position in the epoch.
CommitDataStep ==
    /\ pc = "commit" /\ saving = "data"
    /\ disk' = [disk EXCEPT !["data"][global_steps] =
                  [st |-> "whole", by |-> run, val |-> global_steps]]
    /\ pc' = "open"
    /\ UNCHANGED <<run, saving, memory, tracker>>

\* ... and completes it.
CommitData ==
    /\ pc = "commit" /\ saving = "data"
    /\ disk' = [disk EXCEPT !["data"][global_steps] =
                  [st |-> "whole", by |-> run, val |-> pos]]
    /\ pc' = "open"
    /\ UNCHANGED <<run, saving, memory, tracker>>

OpenTracker ==
    /\ pc = "open"
    /\ tracker' = EmptyTracker
    /\ pc' = "tracker"
    /\ UNCHANGED <<run, saving, memory, disk>>

WriteTracker ==
    /\ pc = "tracker"
    /\ tracker' = global_steps
    /\ pc' = "end"
    /\ UNCHANGED <<run, saving, memory, disk>>

-----------------------------------------------------------------------------

\* The process dies (or any call raises): memory is gone, the disk stays as it is.
Crash ==
    /\ pc \notin {"down", "done", "failed"}
    /\ pc' = "down"
    /\ global_steps' = 0
    /\ FreshMemory
    /\ saving' = "actor"
    /\ UNCHANGED <<run, disk, tracker>>

Init ==
    /\ pc = "down" /\ run = 0 /\ saving = "actor"
    /\ global_steps = 0
    /\ updates = [r \in Roles |-> 0]
    /\ epoch = 0 /\ pos = 0
    /\ origin = [p \in Pieces |-> 0]
    /\ previous_saved_paths = [r \in Roles |-> <<>>]
    /\ disk = [p \in Pieces |-> [n \in Steps |-> Absent]]
    /\ tracker = NoTracker

Start  == StartFromScratch \/ ResumeRaises \/ \E n \in Steps : Resume(n)
Loop   == TrainStep \/ NextEpoch \/ DataExhausted \/ EndStep
Saving == \/ BeginSave \/ SkipSave \/ Rotate \/ WriteShards \/ CommitShards
          \/ WriteData \/ CommitData \/ OpenTracker \/ WriteTracker

Next == Start \/ Loop \/ Saving \/ Crash

Spec == Init /\ [][Next]_vars

\* The driver is one sequential thread: a process that is up takes its next step.
FairSpec == Spec /\ WF_vars(Loop \/ Saving)

-----------------------------------------------------------------------------

Running == pc \notin {"down", "done", "failed"}

ControlType ==
    /\ pc \in {"down", "loop", "check", "rotate", "write", "commit", "data",
               "open", "tracker", "end", "done", "failed"}
    /\ run \in 0 .. MaxRuns
    /\ saving \in Pieces
    /\ pc \in {"rotate", "write"} => saving \in Roles
    /\ pc \in {"data", "open", "tracker"} => saving = "data"
    /\ global_steps \in 0 .. (TotalSteps + MaxRuns + 1)
    /\ Running => global_steps \in Steps
    /\ tracker \in Steps \cup {NoTracker, EmptyTracker}

MemoryType ==
    /\ updates \in [Roles -> Nat]
    /\ epoch \in 0 .. (Epochs - 1) /\ pos \in 0 .. BatchesPerEpoch
    /\ origin \in [Pieces -> Nat]
    /\ previous_saved_paths \in [Roles -> Seq(Steps)]

PieceType == [st : {"absent", "torn", "mixed", "whole"}, by : Nat, val : Nat]
DiskType  ==
    /\ disk \in [Pieces -> [Steps -> PieceType]]
    /\ \A n \in Steps : disk["data"][n].val <= BatchesPerEpoch

TypeOK == ControlType /\ MemoryType /\ DiskType

-----------------------------------------------------------------------------
(* Properties. *)

\* Every piece of global_step_<n> is complete, and one process wrote them all.
Whole(n) == \A p \in Pieces : disk[p][n].st = "whole" /\ disk[p][n].by = disk["actor"][n].by

\* How many updates a role has received when steps 1..s have each run once.
Updates(r, s) ==
    IF r = "critic" \/ CriticWarmup <= 1 THEN s
    ELSE IF s < CriticWarmup THEN 0 ELSE s - CriticWarmup + 1

\* Whatever died and whatever was loaded, at the head of step s the weights hold
\* the updates of steps 1..s-1: no step of the lineage is lost or applied twice.
NoStepLostOrRepeated ==
    pc = "loop" => \A r \in Roles : updates[r] = Updates(r, global_steps - 1)

\* Actor, critic and data position always come from the same saving process:
\* a resume never mixes what two processes wrote for the same step number.
OneLineage ==
    pc = "loop" => \A p, q \in Pieces : origin[p] = origin[q]

\* The data position moves with the step counter, across resumes too.
DataFollowsSteps ==
    pc = "loop" => (global_steps - 1 - pos) % BatchesPerEpoch = 0

\* The step the tracker file names can be resumed from: every piece is there, complete,
\* and from one process. The tracker is written last "for atomic usage".
TrackedIsWhole == tracker \in Steps => Whole(tracker)

\* The tracker file is only ever moved to a checkpoint this process completed.
PublishOnlyWhole ==
    [][tracker' \in Steps /\ tracker' # tracker
         => \A p \in Pieces : disk'[p][tracker'].st = "whole" /\ disk'[p][tracker'].by = run']_vars

\* A process that dies loses fewer than save_freq steps besides the one it is in.
BoundedLoss ==
    SaveFreq > 0 /\ pc = "loop"
        => global_steps - 1 - (IF tracker \in Steps THEN tracker ELSE 0) < SaveFreq

\* A finished job left its last step in the tracked checkpoint, unless the data
\* ran out before total_training_steps.
FinishedIsSaved ==
    pc = "done" /\ SaveFreq > 0 /\ TotalSteps <= Epochs * BatchesPerEpoch
        => tracker = global_steps - 1

\* One process never has more than max_*_ckpt_to_keep complete checkpoints of a role.
RetentionPerRun ==
    \A r \in Roles : MaxKeep[r] > 0 =>
        Cardinality({n \in Steps : disk[r][n].st = "whole" /\ disk[r][n].by = run}) <= MaxKeep[r]

\* "Rotates old checkpoints, keeping at most max_ckpt_to_keep": on the whole disk.
RetentionOnDisk ==
    \A r \in Roles : MaxKeep[r] > 0 =>
        Cardinality({n \in Steps : disk[r][n].st = "whole"}) <= MaxKeep[r]

\* Starting the program again after it finished runs a step past total_training_steps,
\* but never more than one for each start.
OvershootBound == pc = "check" => global_steps <= TotalSteps + run - 1

\* Resuming in mode "auto" always works: the tracker is there "for atomic usage", and
\* find_latest_ckpt_path returns a path or None.
AutoResumeNeverRaises == pc # "failed"

\* A process that is up finishes or dies: no epoch boundary or resumed
\* mid-epoch position leaves the loop without a next step.
RunEnds == Running ~> ~Running

-----------------------------------------------------------------------------
(* The loop with its files implements ResumableTraining. *)

\* A training state: the steps done, the updates in each role, the place in the epoch.
InitialState == [step |-> 0, upd |-> [r \in Roles |-> 0], pos |-> 0]

OneStep(s) ==
    [step |-> s.step + 1,
     upd  |-> [r \in Roles |-> IF r = "critic" \/ CriticWarmup <= s.step + 1
                               THEN s.upd[r] + 1 ELSE s.upd[r]],
     pos  |-> (s.pos + 1) % BatchesPerEpoch]

MemoryState ==
    IF ~Running THEN InitialState
    ELSE [step |-> IF pc = "loop" THEN global_steps - 1 ELSE global_steps,
          upd  |-> updates,
          pos  |-> pos % BatchesPerEpoch]

\* What the files of the step named by the tracker hold, read piece by piece.
PublishedState ==
    IF tracker \notin Steps THEN InitialState
    ELSE [step |-> tracker,
          upd  |-> [r \in Roles |-> disk[r][tracker].val],
          pos  |-> disk["data"][tracker].val % BatchesPerEpoch]

Abstract == INSTANCE ResumableTraining WITH
    Initial <- InitialState, Advance <- OneStep,
    up <- Running, at <- MemoryState,
    published <- PublishedState, readable <- tracker # EmptyTracker

\* Rotation, partial saves and crashes never show through: every process continues
\* from exactly the state that was last published, all pieces of it together.
ImplementsResumableTraining == Abstract!Spec

=============================================================================
