--------------------------- MODULE DispatchCollect ---------------------------
(***************************************************************************)
(* How a batch is split over the ranks of a worker group and put together  *)
(* again: DataProto in protocol.py, the dispatch and collect functions of  *)
(* single_controller/base/decorator.py.  A batch is a sequence of rows; a  *)
(* worker group is a function from ranks 0 .. world-1.                     *)
(***************************************************************************)
EXTENDS Integers, Sequences, FiniteSets, SequencesExt, FiniteSetsExt, Functions

(* DataProto.chunk into equal parts; the code asserts that they are equal. *)
Chunk(batch, chunks) ==
  LET size == Len(batch) \div chunks
  IN  [c \in 0 .. chunks - 1 |-> SubSeq(batch, c * size + 1, (c + 1) * size)]

(* DataProto.split: parts of `size` rows, the last one may be shorter.     *)
Split(batch, size) ==
  [p \in 1 .. (Len(batch) + size - 1) \div size |->
     SubSeq(batch, (p - 1) * size + 1, Min({p * size, Len(batch)}))]

Reorder(batch, indices) == [i \in 1 .. Len(indices) |-> batch[indices[i]]]

(* pad_dataproto_to_divisor: leading rows are appended, again and again if *)
(* there are fewer rows than the padding needs.                            *)
PadSize(batch, divisor) ==
  IF Len(batch) % divisor = 0 THEN 0 ELSE divisor - (Len(batch) % divisor)

PadToDivisor(batch, divisor) ==
  batch \o [i \in 1 .. PadSize(batch, divisor) |-> batch[((i - 1) % Len(batch)) + 1]]

(* unpad_dataproto: data[:-pad_size].                                      *)
Unpad(batch, padSize) == SubSeq(batch, 1, Len(batch) - padSize)

-----------------------------------------------------------------------------
(* What the ranks register: the data parallel rank of each, and the ones   *)
(* whose output is collected.  A device mesh of `world` ranks has as its   *)
(* innermost dimension the ranks that share their data (tensor or sequence *)
(* parallel), the first of which collects.                                 *)
DeviceMesh(world, inner) ==
  [dpRank |-> [r \in 0 .. world - 1 |-> r \div inner],
   collect |-> {r \in 0 .. world - 1 : r % inner = 0}]

(* Megatron counts tensor parallel ranks first, pipeline stages last; the  *)
(* first tensor parallel rank of the last stage collects.                  *)
MegatronMesh(world, inner, stages) ==
  LET dpSize == world \div (inner * stages)
  IN  [dpRank |-> [r \in 0 .. world - 1 |-> (r \div inner) % dpSize],
       collect |-> {r \in 0 .. world - 1 :
                      r % inner = 0 /\ r \div (inner * dpSize) = stages - 1}]

(* dispatch_lazy_compute_data_proto: one chunk for each data parallel      *)
(* rank, and to each rank the chunk of its data parallel rank.             *)
DispatchNd(batch, mesh) ==
  LET dpSize == Max(Range(mesh.dpRank)) + 1
      chunks == Chunk(batch, dpSize)
  IN  [r \in DOMAIN mesh.dpRank |-> chunks[mesh.dpRank[r]]]

(* Some ranks in their order: the i-th has i - 1 of them before it.        *)
InOrder(ranks) ==
  [i \in 1 .. Cardinality(ranks) |->
     CHOOSE r \in ranks : Cardinality({q \in ranks : q < r}) = i - 1]

(* collect_lazy_compute_data_proto: the outputs of the collecting ranks,   *)
(* concatenated in the order of the ranks.                                 *)
CollectNd(outputs, mesh) ==
  LET ranks == InOrder(mesh.collect)
  IN  FlattenSeq([i \in 1 .. Len(ranks) |-> outputs[ranks[i]]])
=============================================================================
