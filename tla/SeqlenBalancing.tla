--------------------------- MODULE SeqlenBalancing ---------------------------
(***************************************************************************)
(* The balancing of sequence lengths in utils/seqlen_balancing.py: the     *)
(* largest differencing method of Karmarkar and Karp, the choice of        *)
(* micro-batches under a token limit, and the restoring of the original    *)
(* order.  Everything here is a pure function of a sequence `lens` of      *)
(* positive lengths; positions count from 1 where the code counts from 0.  *)
(***************************************************************************)
EXTENDS DispatchCollect

Positions(n) == [i \in 1 .. n |-> i]

CeilDiv(a, b) == (a + b - 1) \div b

(* The sum of the lengths of the items of one set of a partition.          *)
Total(lens, items) ==
  LET sum[m \in 0 .. Len(items)] == IF m = 0 THEN 0 ELSE sum[m - 1] + lens[items[m]]
  IN  sum[Len(items)]

-----------------------------------------------------------------------------
(* Sorting.  Python compares tuples from left to right, and sorted keeps   *)
(* equal elements in their order.                                          *)

Above(a, b) ==
  \/ a[1] > b[1]
  \/ a[1] = b[1] /\ a[2] > b[2]
  \/ a[1] = b[1] /\ a[2] = b[2] /\ a[3] > b[3]

(* The places of a sequence of keys, that of the greatest key first.       *)
Descending(keys) ==
  LET places == 1 .. Len(keys)
      before(p) == {q \in places : Above(keys[q], keys[p]) \/ (keys[q] = keys[p] /\ q < p)}
  IN  [i \in places |-> CHOOSE p \in places : Cardinality(before(p)) = i - 1]

-----------------------------------------------------------------------------
(* Karmarkar-Karp *)

(* What Set.__lt__ compares: the sum, the size, the items; two sets have   *)
(* no item in common, so their first items decide.                         *)
SetKey(lens, a) == << Total(lens, a), Len(a), IF a = <<>> THEN 0 ELSE a[1] >>

Decreasing(lens, sets) ==
  Reorder(sets, Descending([j \in 1 .. Len(sets) |-> SetKey(lens, sets[j])]))

(* The sorted list of (seqlen, index) pairs, as indices.                   *)
ByLength(lens) == Descending([i \in 1 .. Len(lens) |-> << - lens[i], - i, 0 >>])

(* The states on the heap before the first merge: one for each k items in  *)
(* the order of their lengths, or one for each item.                       *)
StartStates(lens, k, equalSize) ==
  LET order == ByLength(lens)
  IN  IF equalSize
        THEN { Decreasing(lens, [j \in 1 .. k |-> << order[offset * k + j] >>]) :
                 offset \in 0 .. (Len(order) \div k) - 1 }
        ELSE { Decreasing(lens, [j \in 1 .. k |-> IF j = 1 THEN << i >> ELSE <<>>]) :
                 i \in 1 .. Len(lens) }

Spread(lens, sets) == Total(lens, sets[1]) - Total(lens, sets[Len(sets)])

(* State.__lt__: which state is popped before another.                     *)
PoppedBefore(lens, s, t) ==
  \/ Spread(lens, s) > Spread(lens, t)
  \/ Spread(lens, s) = Spread(lens, t) /\ Above(SetKey(lens, s[1]), SetKey(lens, t[1]))

FirstPopped(lens, states) ==
  CHOOSE s \in states : \A t \in states : ~ PoppedBefore(lens, t, s)

(* State.merge: the largest set of one state joins the smallest of the     *)
(* other.                                                                  *)
MergedStates(lens, s, t) ==
  Decreasing(lens, [i \in 1 .. Len(t) |-> s[i] \o t[Len(t) + 1 - i]])

MergeFirstTwo(lens, states) ==
  LET s == FirstPopped(lens, states)
      t == FirstPopped(lens, states \ {s})
  IN  (states \ {s, t}) \cup {MergedStates(lens, s, t)}

KarmarkarKarp(lens, k, equalSize) ==
  LET states == StartStates(lens, k, equalSize)
      merges == Cardinality(states) - 1
      heap[m \in 0 .. merges] == IF m = 0 THEN states ELSE MergeFirstTwo(lens, heap[m - 1])
  IN  CHOOSE s \in heap[merges] : TRUE

(* get_seqlen_balanced_partitions: the items of each set in increasing     *)
(* order.                                                                  *)
BalancedPartitions(lens, k, equalSize) ==
  LET sets == KarmarkarKarp(lens, k, equalSize)
  IN  [j \in 1 .. Len(sets) |-> InOrder(ToSet(sets[j]))]

-----------------------------------------------------------------------------
(* Micro-batches *)

(* The number of micro-batches one rank asks for.                          *)
MicroBatchCount(lens, maxTokenLen) ==
  Min({Len(lens), CeilDiv(Total(lens, Positions(Len(lens))), maxTokenLen)})

(* dist.all_reduce(num_micro_batches, MAX) over the ranks of `rankLens`.   *)
AgreedCount(rankLens, maxTokenLen) ==
  Max({MicroBatchCount(rankLens[r], maxTokenLen) : r \in DOMAIN rankLens})

(* rearrange_micro_batches: balanced partitions, the one with the largest  *)
(* sum of squared lengths first.                                           *)
RearrangeMicroBatches(lens, count) ==
  LET parts == BalancedPartitions(lens, count, FALSE)
      squares == [i \in 1 .. Len(lens) |-> lens[i] * lens[i]]
      key(p) == << Total(squares, p), IF p = <<>> THEN 0 ELSE p[1], 0 >>
  IN  Reorder(parts, Descending([j \in 1 .. Len(parts) |-> key(parts[j])]))

(* get_reverse_idx: output[j] = i where idxMap[i] = j.                     *)
ReverseIdx(idxMap) ==
  [j \in 1 .. Len(idxMap) |-> CHOOSE i \in 1 .. Len(idxMap) : idxMap[i] = j]

(* restore_dynamic_batch: results in the order of the micro-batches are    *)
(* put back into the order of the rows.                                    *)
RestoreDynamicBatch(data, batchIdxList) ==
  LET revert == ReverseIdx(FlattenSeq(batchIdxList))
  IN  [i \in 1 .. Len(data) |-> data[revert[i]]]
=============================================================================
