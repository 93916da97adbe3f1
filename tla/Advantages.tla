------------------------------ MODULE Advantages ------------------------------
(***************************************************************************)
(* The advantage estimators of trainer/ppo/core_algos.py, in exact         *)
(* arithmetic.  An outcome estimator compares the score of a response with *)
(* the scores of the other rollouts of its prompt, found by uid; GAE works *)
(* on the tokens of one response.  The scalings by a standard deviation are*)
(* left out: they keep order and zero sums of what they scale.  So is the  *)
(* whitening of the whole batch, which keeps the order but not the sums.   *)
(***************************************************************************)
EXTENDS Integers, Sequences, FiniteSets, SequencesExt, FiniteSetsExt

(* A quotient, with a positive denominator.                                *)
Quotient(num, den) == [num |-> num, den |-> den]

SumOf(f, S) == MapThenSumSet(LAMBDA j : f[j], S)

-----------------------------------------------------------------------------
(* Outcome estimators: scores, uids (and lens) are sequences, one entry    *)
(* for each row of the batch, and i is the row.                            *)

(* id2score: the rows with the same uid.                                   *)
\* Mutation: neighbours in the batch are taken for a prompt's rollouts
GroupByPosition(uids, i) == {j \in DOMAIN uids : (j - 1) \div 2 = (i - 1) \div 2}

Group(uids, i) == {j \in DOMAIN uids : uids[j] = uids[i]}

(* A row alone in its group is compared with 0.                            *)
MinusMean(scores, uids, i) ==
  LET k == Cardinality(Group(uids, i))
  IN  IF k = 1 THEN Quotient(scores[i], 1)
               ELSE Quotient(k * scores[i] - SumOf(scores, Group(uids, i)), k)

Grpo(scores, uids, lens, i) == MinusMean(scores, uids, i)

(* Before masked_whiten takes the mean over the batch from each of them.   *)
ReinforcePlusPlusBaseline(scores, uids, lens, i) == MinusMean(scores, uids, i)

Rloo(scores, uids, lens, i) ==
  LET k == Cardinality(Group(uids, i))
  IN  IF k = 1 THEN Quotient(scores[i], 1)
               ELSE Quotient(k * scores[i] - SumOf(scores, Group(uids, i)), k - 1)

(* The mean is weighted by the lengths of the responses.                   *)
Opo(scores, uids, lens, i) ==
  LET group == Group(uids, i)
      weight == SumOf(lens, group)
      weighted == SumOf([j \in DOMAIN scores |-> lens[j] * scores[j]], group)
  IN  IF Cardinality(group) = 1 THEN Quotient(scores[i], 1)
                                ELSE Quotient(weight * scores[i] - weighted, weight)

(* All rows are scaled by the share of scores that are not 0.              *)
Gpg(scores, uids, lens, i) ==
  LET nonzero == Cardinality({j \in DOMAIN scores : scores[j] # 0})
      centred == MinusMean(scores, uids, i)
  IN  Quotient(Len(scores) * centred.num, Max({nonzero, 1}) * centred.den)

(* Only the first of the best rows gets anything: its lead.                *)
GrpoPassk(scores, uids, lens, i) ==
  LET group == Group(uids, i)
      best == Max({scores[j] : j \in group})
      first == Min({j \in group : scores[j] = best})
      second == Max({scores[j] : j \in group \ {first}})
  IN  Quotient(IF i = first THEN best - second ELSE 0, 1)

-----------------------------------------------------------------------------
(* compute_gae_advantage_return: from the last token back; a token that    *)
(* was not generated neither contributes nor changes what is carried.      *)
Gae(rewards, values, mask, gamma, lam) ==
  FoldRight(LAMBDA t, later :
      LET delta == rewards[t] + gamma * later.nextvalue - values[t]
          carried == IF mask[t] = 1 THEN delta + gamma * lam * later.carried ELSE later.carried
          nextvalue == IF mask[t] = 1 THEN values[t] ELSE later.nextvalue
      IN  [nextvalue |-> nextvalue, carried |-> carried,
           advantages |-> <<carried>> \o later.advantages],
    [t \in 1 .. Len(mask) |-> t],
    [nextvalue |-> 0, carried |-> 0, advantages |-> <<>>]).advantages
=============================================================================
