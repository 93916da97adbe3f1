----------------------------- MODULE LangRouter -----------------------------
(***************************************************************************)
(* The language router of RayPPOTrainer: the language each rollout of a    *)
(* training batch is asked for, the buffer of rewarded rollouts, the arms  *)
(* of LangBanditPolicy that a full buffer moves, and the schedules of      *)
(* temperature and epsilon.                                                *)
(*                                                                         *)
(* Which language a sample returns is a choice: the softmax gives every    *)
(* language a positive probability, so the values of the arms decide how   *)
(* often, never whether. Values are integers in a unit small enough for    *)
(* the means and the centered averages of an instance to be exact; z-scores*)
(* are rounded towards zero.                                               *)
(***************************************************************************)
EXTENDS Integers, Sequences, FiniteSets, SequencesExt, FiniteSetsExt

CONSTANTS
    Langs,         \* the languages of the policy: every language of the data is one
    Topics,
    Regional,      \* the topic "Regional Knowledge"
    Regions,
    None,          \* the key under which a row without topic or region is credited
    Batches,       \* the batches of training data: sequences of rows
    Rewards,
    Prior,         \* key -> language -> initial value of the arm (the mix strings)
    AlphaInverse,  \* 1 / lang_policy_alpha
    UpdateEvery,   \* lang_policy_update_every
    OrigLangMin,   \* lang_policy_orig_lang_min
    GroupNorms,    \* the values of lang_policy_group_norm an instance starts with
    One,           \* the value a normalised reward of 1 has in the unit of Rewards
    Temperature, TemperatureInit, TemperatureMin, TemperatureDivisor,
    Epsilon, EpsilonInit, EpsilonMin, EpsilonDivisor, \* decay is 1 / divisor
    MaxSteps       \* bound: reward steps of one process

NoArm   == "no arm"   \* lang_policy_idx -1
NoLang  == "no lang"  \* fixed_lang None
Keys    == Topics \cup Regions \cup {None}

\* A row of the data, in the order of the batch; topics and regions are lists.
Rows == UNION {{b[i] : i \in 1 .. Len(b)} : b \in Batches}

ASSUME RouterAssumption ==
    /\ NoLang \notin Langs /\ NoArm \notin Langs /\ IsFiniteSet(Langs)
    /\ Regional \in Topics /\ None \notin Topics \cup Regions
    /\ Batches \subseteq Seq(Rows)
    /\ \A b \in Batches, c \in Batches : Len(b) = Len(c)   \* drop_last: one batch size
    /\ \A w \in Rows : /\ w.orig \in Langs /\ w.fixed \in {NoLang, w.orig}
                       /\ w.topics \in Seq(Topics) /\ w.regions \in Seq(Regions)
    /\ Rewards \subseteq Int /\ IsFiniteSet(Rewards) /\ Rewards # {}   \* floats
    /\ Prior \in [Keys -> [Langs -> Int]]
    /\ \A l \in Langs : Prior[None][l] = 0       \* a key no mix names starts at zero
    /\ AlphaInverse \in Nat \ {0} /\ UpdateEvery \in Nat /\ OrigLangMin \in Nat
    /\ GroupNorms \subseteq {"none", "center", "zscore"} /\ One \in Nat
    /\ {Temperature, TemperatureInit, TemperatureMin} \subseteq Nat
    /\ {Epsilon, EpsilonInit, EpsilonMin} \subseteq Nat
    /\ {TemperatureDivisor, EpsilonDivisor} \subseteq Nat \ {0}
    /\ MaxSteps \in Nat

\* Powers as the proofs need them: arithmetic that holds of any divisor.
ASSUME PowersAssumption ==
    \A d \in {TemperatureDivisor, EpsilonDivisor} :
        d ^ 0 = 1 /\ \A k \in 0 .. MaxSteps : d ^ (k + 1) = d * (d ^ k)

VARIABLES
    phase,             \* what fit has done with the batch
    lang_policy,       \* whether there is a policy (dynamic_lang_policy)
    group_norm,        \* lang_policy_group_norm
    batch,
    lang_policy_step,
    buffer,            \* _lang_policy_buffer
    topic_q, region_q,
    temperature, epsilon

router == <<lang_policy_step, buffer, topic_q, region_q, temperature, epsilon>>
vars   == <<phase, lang_policy, group_norm, batch, router>>

-----------------------------------------------------------------------------
(* _maybe_update_lang_policy_temperature *)

\* Mutation: the schedule starts again with every update of the router.
AnnealedFromUpdate(init, min, divisor, k) ==
    LET value == init \div (divisor ^ (IF UpdateEvery > 1 THEN k % UpdateEvery ELSE 0))
    IN  IF value < min THEN min ELSE value

Annealed(init, min, divisor, k) ==
    LET value == init \div (divisor ^ k) IN IF value < min THEN min ELSE value

ConstantTemperature == TemperatureDivisor = 1 /\ TemperatureMin = TemperatureInit
ConstantEpsilon     == EpsilonDivisor = 1 /\ EpsilonMin = EpsilonInit

\* With a constant temperature the method returns before it comes to epsilon.
Anneal ==
    IF ~lang_policy \/ ConstantTemperature
    THEN UNCHANGED <<temperature, epsilon>>
    ELSE /\ temperature' = Annealed(TemperatureInit, TemperatureMin, TemperatureDivisor, lang_policy_step)
         /\ epsilon' = IF ConstantEpsilon THEN epsilon
                       ELSE Annealed(EpsilonInit, EpsilonMin, EpsilonDivisor, lang_policy_step)

-----------------------------------------------------------------------------
(* _maybe_apply_lang_policy *)

\* Mutation: the originals are counted for the batch, not for each prompt.
KeptOriginalPerBatch(b, i) ==
    Cardinality({j \in 1 .. (i - 1) : b[j].fixed = NoLang}) < OrigLangMin

\* Row i is one of the first OrigLangMin rows of its prompt that are free to route.
KeptOriginal(b, i) ==
    Cardinality({j \in 1 .. (i - 1) : b[j].uid = b[i].uid /\ b[j].fixed = NoLang}) < OrigLangMin

\* The languages row i can be given in training; sampling needs a policy.
LanguagesFor(b, i) ==
    IF b[i].fixed # NoLang THEN {b[i].fixed}
    ELSE IF KeptOriginal(b, i) THEN {b[i].orig}
    ELSE IF lang_policy THEN Langs
    ELSE IF OrigLangMin > 0 THEN {} ELSE {b[i].orig}

ArmOf(lang) == IF lang_policy /\ lang \in Langs THEN lang ELSE NoArm

Routed(b, lang) ==
    [i \in 1 .. Len(b) |->
        [uid |-> b[i].uid, topics |-> b[i].topics, regions |-> b[i].regions,
         orig |-> b[i].orig, lang |-> lang[i], arm |-> ArmOf(lang[i])]]

Ready == phase \in {"idle", "validated"}

RouteBatch(b) ==
    /\ Ready /\ lang_policy_step < MaxSteps
    /\ Anneal
    /\ \E lang \in [1 .. Len(b) -> Langs] :
          /\ \A i \in 1 .. Len(b) : lang[i] \in LanguagesFor(b, i)
          /\ batch' = Routed(b, lang)
    /\ phase' = "rollout"
    /\ UNCHANGED <<lang_policy, group_norm, lang_policy_step, buffer, topic_q, region_q>>

\* self.lang_policy.sample on None raises AttributeError.
RouteRaises(b) ==
    /\ Ready /\ lang_policy_step < MaxSteps
    /\ \E i \in 1 .. Len(b) : LanguagesFor(b, i) = {}
    /\ batch' = <<>>
    /\ phase' = "failed"
    /\ UNCHANGED <<lang_policy, group_norm, router>>

\* Validation (is_train=False) never samples; without a policy it returns at once.
Validate(b) ==
    /\ Ready
    /\ batch' = IF lang_policy
                THEN Routed(b, [i \in 1 .. Len(b) |->
                                   IF b[i].fixed # NoLang THEN b[i].fixed ELSE b[i].orig])
                ELSE <<>>
    /\ phase' = "validated"
    /\ UNCHANGED <<lang_policy, group_norm, router>>

-----------------------------------------------------------------------------
(* _update_lang_policy *)

\* _normalize_key: "None" for no topic or region at all, "[]" for an empty list; the
\* empty sequence stands for the one of the two that the data has.
NormalizeKey(list) == IF list = <<>> THEN <<None>> ELSE list

\* One credit for each topic and region a buffered rollout has.
CreditsOf(entry) ==
    LET tps == NormalizeKey(entry.topics)
        rgs == NormalizeKey(entry.regions)
        OfTopic(tp) == [j \in 1 .. Len(rgs) |->
                          [topic |-> tp, region |-> rgs[j], arm |-> entry.arm, reward |-> entry.reward]]
    IN  FlattenSeq([i \in 1 .. Len(tps) |-> OfTopic(tps[i])])

KeyOf(c) == [topic |-> c.topic, region |-> c.region, arm |-> c.arm]

\* The keys of agg, in the order a dict has them.
AggKeys(credits) ==
    FoldLeft(LAMBDA ks, c : IF KeyOf(c) \in ToSet(ks) THEN ks ELSE Append(ks, KeyOf(c)), <<>>, credits)

MeanReward(credits, key) ==
    LET mine == {i \in 1 .. Len(credits) : KeyOf(credits[i]) = key}
    IN  MapThenSumSet(LAMBDA i : credits[i].reward, mine) \div Cardinality(mine)

GroupKeys(credits, key) ==
    {k \in {KeyOf(credits[i]) : i \in 1 .. Len(credits)} : k.topic = key.topic /\ k.region = key.region}

\* Mutation: the mean is taken over the rollouts, not over the languages.
GroupMeanOfRollouts(credits, key) ==
    LET group == {i \in 1 .. Len(credits) :
                    credits[i].topic = key.topic /\ credits[i].region = key.region}
    IN  MapThenSumSet(LAMBDA i : credits[i].reward, group) \div Cardinality(group)

GroupMean(credits, key) ==
    LET group == GroupKeys(credits, key)
    IN  MapThenSumSet(LAMBDA k : MeanReward(credits, k), group) \div Cardinality(group)

\* How far the mean rewards of a group are from their mean, times their number.
Deviations(credits, key) ==
    LET group == GroupKeys(credits, key)
        value == [k \in group |-> MeanReward(credits, k)]
        total == MapThenSumSet(LAMBDA k : value[k], group)
    IN  [k \in group |-> Cardinality(group) * value[k] - total]

\* The integer part of the square root.
Root(x) == CHOOSE r \in 0 .. x : r * r <= x /\ x < (r + 1) * (r + 1)

\* The deviation over the standard deviation of the group (np.std, over all n values),
\* rounded towards zero; group_norm_eps is taken as infinitely small.
ZScore(credits, key) ==
    LET group == GroupKeys(credits, key)
        d     == Deviations(credits, key)
        sq    == [k \in group |-> d[k] * d[k]]
        z     == Root((One * One * Cardinality(group) * sq[key])
                          \div MapThenSumSet(LAMBDA k : sq[k], group))
    IN  IF d[key] = 0 THEN 0 ELSE IF d[key] > 0 THEN z ELSE -z

Normalised(credits, key) ==
    CASE group_norm = "none"   -> MeanReward(credits, key)
      [] group_norm = "center" -> MeanReward(credits, key) - GroupMean(credits, key)
      [] group_norm = "zscore" -> ZScore(credits, key)

\* Mutation: the old value does not decay.
MovedAdditive(current, reward) == current + reward \div AlphaInverse

Moved(current, reward) == ((AlphaInverse - 1) * current + reward) \div AlphaInverse

\* Mutation: every topic moves the arms of its region.
UpdateArmsAnyTopic(q, key, reward) ==
    [topic  |-> [q.topic EXCEPT ![key.topic][key.arm] = Moved(@, reward)],
     region |-> [q.region EXCEPT ![key.region][key.arm] = Moved(@, reward)]]

\* LangBanditPolicy.update: the topic's arm, and the region's for regional knowledge.
UpdateArms(q, key, reward) ==
    [topic  |-> [q.topic EXCEPT ![key.topic][key.arm] = Moved(@, reward)],
     region |-> IF key.topic = Regional
                THEN [q.region EXCEPT ![key.region][key.arm] = Moved(@, reward)] ELSE q.region]

Flushed(entries) ==
    LET credits == FlattenSeq([i \in 1 .. Len(entries) |-> CreditsOf(entries[i])])
    IN  FoldLeft(LAMBDA q, key : UpdateArms(q, key, Normalised(credits, key)),
                 [topic |-> topic_q, region |-> region_q], AggKeys(credits))

Entry(row, reward) ==
    [topics |-> row.topics, regions |-> row.regions, arm |-> row.arm, reward |-> reward]

\* Mutation: the update comes one step early.
FlushDueEarly(step) == (step + 1) % (IF UpdateEvery > 1 THEN UpdateEvery ELSE 1) = 0

FlushDue(step) == step % (IF UpdateEvery > 1 THEN UpdateEvery ELSE 1) = 0

\* _balance_batch has put the rows in another order before the rewards come.
RewardBatch ==
    /\ phase = "rollout"
    /\ phase' = "idle"
    /\ batch' = <<>>
    /\ IF ~lang_policy THEN UNCHANGED router
       ELSE LET routed == {i \in 1 .. Len(batch) : batch[i].arm # NoArm}
                n      == Cardinality(routed)
            IN  \E order \in Bijection(1 .. n, routed), reward \in [1 .. n -> Rewards] :
                  LET entries == buffer \o [i \in 1 .. n |-> Entry(batch[order[i]], reward[i])]
                      flushed == Flushed(entries)
                  IN  /\ lang_policy_step' = lang_policy_step + 1
                      /\ buffer' = IF FlushDue(lang_policy_step') THEN <<>> ELSE entries
                      /\ topic_q' = IF FlushDue(lang_policy_step') THEN flushed.topic ELSE topic_q
                      /\ region_q' = IF FlushDue(lang_policy_step') THEN flushed.region ELSE region_q
    /\ UNCHANGED <<lang_policy, group_norm, temperature, epsilon>>

-----------------------------------------------------------------------------

\* _init_lang_policy: a new process builds the router from the configuration.
Init ==
    /\ phase = "idle" /\ batch = <<>>
    /\ lang_policy \in BOOLEAN /\ group_norm \in GroupNorms
    /\ lang_policy_step = 0 /\ buffer = <<>>
    /\ topic_q = [k \in Topics \cup {None} |-> Prior[k]]
    /\ region_q = [k \in Regions \cup {None} |-> Prior[k]]
    /\ temperature = Temperature /\ epsilon = Epsilon

\* The process dies or ends and the job is started again. Nothing of the router is
\* in a checkpoint.
Restart ==
    /\ phase' = "idle" /\ batch' = <<>>
    /\ lang_policy_step' = 0 /\ buffer' = <<>>
    /\ topic_q' = [k \in Topics \cup {None} |-> Prior[k]]
    /\ region_q' = [k \in Regions \cup {None} |-> Prior[k]]
    /\ temperature' = Temperature /\ epsilon' = Epsilon
    /\ UNCHANGED <<lang_policy, group_norm>>

Next ==
    \/ \E b \in Batches : RouteBatch(b) \/ RouteRaises(b) \/ Validate(b)
    \/ RewardBatch
    \/ Restart

Spec == Init /\ [][Next]_vars

-----------------------------------------------------------------------------

TypeOK ==
    /\ phase \in {"idle", "rollout", "validated", "failed"}
    /\ lang_policy \in BOOLEAN /\ group_norm \in GroupNorms
    /\ \A i \in 1 .. Len(batch) : batch[i].lang \in Langs /\ batch[i].arm \in Langs \cup {NoArm}
    /\ lang_policy_step \in 0 .. MaxSteps
    /\ \A i \in 1 .. Len(buffer) : buffer[i].arm \in Langs /\ buffer[i].reward \in Rewards
    /\ topic_q \in [Topics \cup {None} -> [Langs -> Int]]
    /\ region_q \in [Regions \cup {None} -> [Langs -> Int]]
    /\ temperature \in Nat /\ epsilon \in Nat

-----------------------------------------------------------------------------
(* Properties. *)

\* Every prompt of a training batch keeps at least OrigLangMin rollouts in its original
\* language, or all of them if it has fewer, whatever is sampled for the others and
\* however the prompts are mixed in the batch.
OrigLangKept ==
    phase = "rollout" =>
        \A i \in 1 .. Len(batch) :
            LET group == {j \in 1 .. Len(batch) : batch[j].uid = batch[i].uid}
                kept  == {j \in group : batch[j].lang = batch[j].orig}
            IN  Cardinality(kept) >= OrigLangMin \/ kept = group

\* Every rollout is credited exactly once: what waits in the buffer is the batches
\* since the last update, none twice and none missing, across restarts too.
BufferMatchesSteps ==
    lang_policy =>
        \A b \in Batches :
            Len(buffer) = (lang_policy_step % (IF UpdateEvery > 1 THEN UpdateEvery ELSE 1)) * Len(b)

\* In one process temperature and epsilon only fall once training has begun.
AnnealOnlyCools ==
    [][lang_policy_step > 0 /\ lang_policy_step' >= lang_policy_step
         => temperature' <= temperature /\ epsilon' <= epsilon]_vars

\* "Initial epsilon-greedy exploration rate", "Exploration decay rate": a training batch is
\* sampled with the epsilon its schedule has at this step.
EpsilonOnSchedule ==
    phase = "rollout" /\ lang_policy =>
        epsilon = Annealed(EpsilonInit, EpsilonMin, EpsilonDivisor, lang_policy_step)

\* The largest value a reward can have once normalised. No z-score of n values is
\* larger than the root of n - 1, which one value off the others has.
CreditBound ==
    CASE group_norm = "none"   -> Max({IF r < 0 THEN -r ELSE r : r \in Rewards})
      [] group_norm = "center" -> Max(Rewards) - Min(Rewards)
      [] group_norm = "zscore" -> Root(One * One * (Cardinality(Langs) - 1))

\* No sequence of updates drives an arm beyond the largest credit or its prior, however
\* many regions credit the same topic in one update.
ArmsBounded ==
    LET bound == CreditBound
        Within(v, p) == LET m == Max({bound, p, -p}) IN v \in (-m) .. m
    IN  \A l \in Langs :
           /\ \A k \in Topics \cup {None} : Within(topic_q[k][l], Prior[k][l])
           /\ \A k \in Regions \cup {None} : Within(region_q[k][l], Prior[k][l])

\* The rows an update that happens now is computed from.
Waiting == ToSet(buffer) \cup ToSet(batch)
Updating == lang_policy_step' = lang_policy_step + 1

\* An arm moves only for rollouts in that language about that topic, a region's arm only
\* for regional knowledge about that region: credit never leaks to another arm.
CreditWhereDue ==
    [][Updating =>
        /\ \A k \in Topics \cup {None}, l \in Langs : topic_q'[k][l] # topic_q[k][l] =>
              \E w \in Waiting : w.arm = l /\ k \in ToSet(NormalizeKey(w.topics))
        /\ \A k \in Regions \cup {None}, l \in Langs : region_q'[k][l] # region_q[k][l] =>
              \E w \in Waiting : /\ w.arm = l /\ Regional \in ToSet(w.topics)
                                 /\ k \in ToSet(NormalizeKey(w.regions))]_vars

\* With rewards centered in their group an update only moves languages against each other:
\* over the languages tried for a topic (seen with one region) the credits sum to zero.
\* (Z-scores do so too, up to their rounding.)
NeutralUpdate ==
    [][Updating /\ FlushDue(lang_policy_step') /\ group_norm = "center" =>
        \A k \in Topics \cup {None} :
            LET rows == {w \in Waiting : k \in ToSet(NormalizeKey(w.topics))}
                arms == {w.arm : w \in rows}
                Credit(l) == AlphaInverse * topic_q'[k][l] - (AlphaInverse - 1) * topic_q[k][l]
            IN  Cardinality(UNION {ToSet(NormalizeKey(w.regions)) : w \in rows}) = 1
                    => MapThenSumSet(Credit, arms) = 0]_vars
=============================================================================
