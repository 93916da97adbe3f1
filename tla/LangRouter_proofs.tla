-------------------------- MODULE LangRouter_proofs --------------------------
(***************************************************************************)
(* Proofs about LangRouter for every batch, group size, number of originals*)
(* to keep, update interval, learning rate and prior: which languages a    *)
(* batch is asked for, what waits in the buffer of rewards, which arms an  *)
(* update moves and how far, and how temperature and epsilon fall.         *)
(***************************************************************************)
EXTENDS LangRouter, DispatchCollect_proofs, FiniteSetTheorems, SequenceTheorems, TLAPS

-----------------------------------------------------------------------------
(* Arithmetic and order. *)

\* The least member of a set, found as the one with the fewest members below it.
LEMMA LeastOf ==
    ASSUME NEW n \in Nat, NEW S \in SUBSET (1 .. n), S # {}
    PROVE  \E x \in S : \A y \in S : x <= y
<1> DEFINE Below(x) == {y \in S : y < x}
           T == {Below(x) : x \in S}
<1>1. IsFiniteSet(S)
  <2>1. 1 \in Int /\ n \in Int
    OBVIOUS
  <2>2. IsFiniteSet(1 .. n)
    BY <2>1, FS_Interval
  <2> QED
    BY <2>2, FS_Subset
<1>2. T \subseteq FiniteSubsetsOf(S) /\ T # {}
  <2>1. T \subseteq SUBSET S /\ T # {}
    OBVIOUS
  <2> QED
    BY <1>1, <2>1, FS_FiniteSubsetsOfFinite
<1>3. PICK t \in T : \A u \in T : ~ (<<u, t>> \in StrictSubsetOrdering(S))
  BY <1>1, <1>2, FS_StrictSubsetOrderingWellFounded, WFMin
<1>4. PICK x \in S : t = Below(x)
  BY <1>3
<1>5. ASSUME NEW y \in S, y < x PROVE FALSE
  <2>1. x \in Int /\ y \in Int /\ \A z \in S : z \in Int
    OBVIOUS
  <2>2. Below(y) \subseteq Below(x) /\ y \in Below(x) /\ y \notin Below(y)
    <3>1. y \in Below(x) /\ y \notin Below(y)
      BY <1>5, <2>1
    <3>2. ASSUME NEW z \in Below(y) PROVE z \in S /\ z < x
      <4>1. z \in S /\ z < y
        OBVIOUS
      <4> QED
        BY <1>5, <2>1, <4>1
    <3>3. Below(y) \subseteq Below(x)
      BY <3>2
    <3> QED
      BY <3>1, <3>3
  <2>3. <<Below(y), Below(x)>> \in StrictSubsetOrdering(S)
    BY <2>2 DEF StrictSubsetOrdering
  <2> QED
    BY <1>3, <1>4, <2>3
<1>6. \A y \in S : x \in Int /\ y \in Int /\ ~ (y < x)
  BY <1>5
<1> QED
  BY <1>6

LEMMA ModFacts ==
    ASSUME NEW d \in Nat \ {0}, NEW x \in Nat
    PROVE  x % d \in 0 .. (d - 1) /\ 0 % d = 0
           /\ x = d * (x \div d) + (x % d) /\ x \div d \in Nat
OBVIOUS

LEMMA Quotient ==
    ASSUME NEW d \in Nat \ {0}, NEW q \in Nat, NEW r \in 0 .. (d - 1)
    PROVE  (d * q + r) % d = r
OBVIOUS

LEMMA ModNext ==
    ASSUME NEW d \in Nat \ {0}, NEW x \in Nat, (x + 1) % d # 0
    PROVE  (x + 1) % d = (x % d) + 1
<1> DEFINE q == x \div d
           r == x % d
<1>1. x = d * q + r /\ q \in Nat /\ r \in 0 .. (d - 1)
  BY ModFacts
<1>2. r + 1 # d
  <2>1. SUFFICES ASSUME r + 1 = d PROVE FALSE
    OBVIOUS
  <2>2. x + 1 = d * (q + 1) + 0 /\ q + 1 \in Nat /\ 0 \in 0 .. (d - 1)
    BY <1>1, <2>1
  <2>3. (d * (q + 1) + 0) % d = 0
    BY <2>2, Quotient
  <2> QED
    BY <2>2, <2>3
<1>3. x + 1 = d * q + (r + 1) /\ r + 1 \in 0 .. (d - 1)
  BY <1>1, <1>2
<1>4. (d * q + (r + 1)) % d = r + 1
  BY <1>1, <1>3, Quotient
<1> QED
  BY <1>3, <1>4

-----------------------------------------------------------------------------
(* Which languages a batch is asked for. *)

Languages(b) ==
    {lang \in [1 .. Len(b) -> Langs] : \A i \in 1 .. Len(b) : lang[i] \in LanguagesFor(b, i)}

LEMMA BatchFacts ==
    ASSUME NEW b \in Batches
    PROVE  /\ b \in Seq(Rows) /\ Len(b) \in Nat /\ \A i \in 1 .. Len(b) : b[i] \in Rows
           /\ \A i \in 1 .. Len(b) : b[i].orig \in Langs /\ b[i].fixed \in {NoLang, b[i].orig}
BY RouterAssumption, LenProperties

LEMMA PoolSize ==
    UpdateEvery \in Nat /\ OrigLangMin \in Nat /\ NoArm \notin Langs /\ NoLang \notin Langs
BY RouterAssumption

\* The rows of a prompt in its original language: either all of them, or at least those
\* before the first one that is not, which is free and so comes after OrigLangMin others.
LEMMA GroupKeepsOriginals ==
    ASSUME NEW b \in Batches, NEW lang \in Languages(b), NEW i \in 1 .. Len(b)
    PROVE  LET group == {j \in 1 .. Len(b) : b[j].uid = b[i].uid}
               kept  == {j \in group : lang[j] = b[j].orig}
           IN  Cardinality(kept) >= OrigLangMin \/ kept = group
<1> DEFINE n == Len(b)
           group == {j \in 1 .. n : b[j].uid = b[i].uid}
           kept  == {j \in group : lang[j] = b[j].orig}
<1>1. n \in Nat /\ \A j \in 1 .. n : b[j].fixed \in {NoLang, b[j].orig}
  BY BatchFacts
<1>2. SUFFICES ASSUME group \ kept # {} PROVE Cardinality(kept) >= OrigLangMin
  OBVIOUS
<1>3. group \ kept \in SUBSET (1 .. n)
  OBVIOUS
<1>4. PICK x \in group \ kept : \A y \in group \ kept : x <= y
  BY <1>1, <1>2, <1>3, LeastOf
<1> DEFINE before == {j \in 1 .. (x - 1) : b[j].uid = b[x].uid /\ b[j].fixed = NoLang}
<1>5. x \in 1 .. n /\ b[x].uid = b[i].uid /\ lang[x] # b[x].orig
  OBVIOUS
<1>6. before \subseteq kept
  <2>1. ASSUME NEW j \in before PROVE j \in kept
    <3>1. j \in 1 .. n /\ j < x /\ b[j].uid = b[i].uid
      BY <1>1, <1>5
    <3>2. j \in group /\ ~ (x <= j)
      BY <1>1, <1>5, <3>1
    <3> QED
      BY <1>4, <3>2
  <2> QED
    BY <2>1
<1>7. lang[x] \in LanguagesFor(b, x)
  BY <1>5 DEF Languages
<1>8. ~ KeptOriginal(b, x)
  BY <1>1, <1>5, <1>7 DEF LanguagesFor
<1>9. IsFiniteSet(kept)
  <2>1. 1 \in Int /\ n \in Int
    BY <1>1
  <2>2. IsFiniteSet(1 .. n)
    BY <2>1, FS_Interval
  <2> QED
    BY <2>2, FS_Subset
<1>10. IsFiniteSet(before) /\ Cardinality(before) <= Cardinality(kept)
  BY <1>6, <1>9, FS_Subset
<1>11. ~ (Cardinality(before) < OrigLangMin)
  BY <1>8 DEF KeptOriginal
<1>12. Cardinality(before) \in Nat /\ Cardinality(kept) \in Nat /\ OrigLangMin \in Nat
  BY <1>9, <1>10, FS_CardinalityType, PoolSize
<1> HIDE DEF before, kept
<1> QED
  BY <1>10, <1>11, <1>12

-----------------------------------------------------------------------------
(* The invariant: a batch in its rollout was routed, and the buffer holds   *)
(* the rewards of every row since the last update.                          *)

RowInLang(w, l, a) ==
    [uid |-> w.uid, topics |-> w.topics, regions |-> w.regions, orig |-> w.orig, lang |-> l, arm |-> a]
RoutedRows == {RowInLang(w, l, a) : w \in Rows, l \in Langs, a \in Langs \cup {NoArm}}
Entries == {Entry(w, r) : w \in RoutedRows, r \in Rewards}

RouterInv ==
    /\ lang_policy \in BOOLEAN /\ lang_policy_step \in Nat /\ buffer \in Seq(Entries)
    /\ phase = "rollout" => \E b \in Batches : \E lang \in Languages(b) : batch = Routed(b, lang)
    /\ BufferMatchesSteps

Interval == IF UpdateEvery > 1 THEN UpdateEvery ELSE 1

LEMMA IntervalType == Interval \in Nat \ {0}
BY PoolSize DEF Interval

LEMMA EmptyBuffer ==
    ASSUME NEW step \in Nat, step % Interval = 0
    PROVE  \A b \in Batches : Len(<<>>) = (step % Interval) * Len(b)
BY BatchFacts

LEMMA RoutedFacts ==
    ASSUME NEW b \in Batches, NEW lang \in Languages(b)
    PROVE  /\ Len(Routed(b, lang)) = Len(b)
           /\ \A i \in 1 .. Len(b) :
                /\ Routed(b, lang)[i] \in RoutedRows
                /\ Routed(b, lang)[i].lang = lang[i] /\ Routed(b, lang)[i].uid = b[i].uid
                /\ Routed(b, lang)[i].orig = b[i].orig
                /\ lang_policy => Routed(b, lang)[i].arm # NoArm
<1> DEFINE row(i) == [uid |-> b[i].uid, topics |-> b[i].topics, regions |-> b[i].regions,
                      orig |-> b[i].orig, lang |-> lang[i], arm |-> ArmOf(lang[i])]
<1>1. Routed(b, lang) = [i \in 1 .. Len(b) |-> row(i)] /\ Len(b) \in Nat
  BY BatchFacts DEF Routed
<1>2. ASSUME NEW i \in 1 .. Len(b)
      PROVE  /\ row(i) \in RoutedRows
             /\ row(i).lang = lang[i] /\ row(i).uid = b[i].uid /\ row(i).orig = b[i].orig
             /\ lang_policy => row(i).arm # NoArm
  <2>1. b[i] \in Rows /\ lang[i] \in Langs
    BY BatchFacts DEF Languages
  <2>2. ArmOf(lang[i]) \in Langs \cup {NoArm} /\ (lang_policy => ArmOf(lang[i]) # NoArm)
    BY <2>1, PoolSize DEF ArmOf
  <2>3. row(i).lang = lang[i] /\ row(i).uid = b[i].uid /\ row(i).orig = b[i].orig
        /\ row(i).arm = ArmOf(lang[i])
    OBVIOUS
  <2>4. row(i) \in RoutedRows
    <3>1. RowInLang(b[i], lang[i], ArmOf(lang[i])) \in RoutedRows
      BY <2>1, <2>2 DEF RoutedRows
    <3> QED
      BY <3>1 DEF RowInLang
  <2> HIDE DEF row
  <2> QED
    BY <2>2, <2>3, <2>4
<1> HIDE DEF row
<1> QED
  BY <1>1, <1>2

LEMMA InitRouter == Init => RouterInv
<1> SUFFICES ASSUME Init PROVE RouterInv
  OBVIOUS
<1>1. 0 % Interval = 0
  BY IntervalType, ModFacts
<1>2. BufferMatchesSteps
  BY <1>1, EmptyBuffer DEF Init, BufferMatchesSteps, Interval
<1> QED
  BY <1>2, EmptySeq DEF Init, RouterInv

LEMMA RouteKeeps ==
    ASSUME RouterInv, NEW b \in Batches, RouteBatch(b)
    PROVE  RouterInv'
<1>1. PICK lang \in [1 .. Len(b) -> Langs] :
        (\A i \in 1 .. Len(b) : lang[i] \in LanguagesFor(b, i)) /\ batch' = Routed(b, lang)
  BY DEF RouteBatch
<1>2. UNCHANGED <<lang_policy, lang_policy_step, buffer>>
  BY DEF RouteBatch
<1>3. lang \in Languages(b)' /\ batch' = Routed(b, lang)'
  BY <1>1, <1>2 DEF Languages, LanguagesFor, Routed, ArmOf
<1> QED
  BY <1>2, <1>3 DEF RouterInv, BufferMatchesSteps

\* What a rewarded batch adds to the buffer: an entry for each of its rows.
LEMMA RewardKeeps ==
    ASSUME RouterInv, RewardBatch
    PROVE  RouterInv'
<1>1. phase' = "idle" /\ lang_policy' = lang_policy
  BY DEF RewardBatch
<1>2. CASE ~ lang_policy
  BY <1>1, <1>2 DEF RewardBatch, router, RouterInv, BufferMatchesSteps
<1>3. CASE lang_policy
  <2> DEFINE routed == {i \in 1 .. Len(batch) : batch[i].arm # NoArm}
             n      == Cardinality(routed)
  <2>1. PICK order \in Bijection(1 .. n, routed), reward \in [1 .. n -> Rewards] :
          LET entries == buffer \o [i \in 1 .. n |-> Entry(batch[order[i]], reward[i])]
          IN  /\ lang_policy_step' = lang_policy_step + 1
              /\ buffer' = IF FlushDue(lang_policy_step') THEN <<>> ELSE entries
    BY <1>3 DEF RewardBatch
  <2> DEFINE added == [i \in 1 .. n |-> Entry(batch[order[i]], reward[i])]
  <2>2. PICK b \in Batches : \E lang \in Languages(b) : batch = Routed(b, lang)
    BY DEF RewardBatch, RouterInv
  <2>3. Len(batch) = Len(b) /\ \A i \in 1 .. Len(b) : batch[i] \in RoutedRows /\ batch[i].arm # NoArm
    BY <1>3, <2>2, RoutedFacts
  <2>4. Len(b) \in Nat /\ 1 \in Int /\ Len(b) \in Int
    BY BatchFacts
  <2>5. n = Len(b)
    <3>1. routed = 1 .. Len(b)
      BY <2>3
    <3>2. Cardinality(1 .. Len(b)) = Len(b)
      <4>1. Cardinality(1 .. Len(b)) = IF 1 > Len(b) THEN 0 ELSE Len(b) - 1 + 1
        BY <2>4, FS_Interval
      <4> QED
        BY <2>4, <4>1
    <3> QED
      BY <3>1, <3>2
  <2>6. \A i \in 1 .. n : order[i] \in routed
    BY DEF Bijection, Surjection
  <2>7. routed \subseteq 1 .. Len(b)
    BY <2>3
  <2> HIDE DEF n, routed
  <2>8. \A i \in 1 .. n : Entry(batch[order[i]], reward[i]) \in Entries
    BY <2>3, <2>6, <2>7 DEF Entries
  <2>9. added \in Seq(Entries) /\ Len(added) = Len(b)
    BY <2>4, <2>5, <2>8
  <2> HIDE DEF added
  <2>10. buffer \o added \in Seq(Entries) /\ Len(buffer \o added) = Len(buffer) + Len(b)
    <3>1. buffer \in Seq(Entries)
      BY DEF RouterInv
    <3>2. Len(buffer \o added) = Len(buffer) + Len(added) /\ buffer \o added \in Seq(Entries)
      BY <2>9, <3>1, ConcatProperties
    <3> QED
      BY <2>9, <3>2
  <2>11. lang_policy_step' = lang_policy_step + 1 /\ lang_policy_step' \in Nat /\ lang_policy_step \in Nat
    BY <2>1 DEF RouterInv
  <2>12. CASE FlushDue(lang_policy_step')
    <3>1. buffer' = <<>> /\ lang_policy_step' % Interval = 0
      BY <2>1, <2>12 DEF FlushDue, Interval
    <3>2. BufferMatchesSteps'
      BY <2>11, <3>1, EmptyBuffer DEF BufferMatchesSteps, Interval
    <3> QED
      BY <1>1, <2>11, <3>1, <3>2, EmptySeq DEF RouterInv
  <2>13. CASE ~ FlushDue(lang_policy_step')
    <3>1. buffer' = buffer \o added
      BY <2>1, <2>13 DEF added
    <3>2. lang_policy_step' % Interval = (lang_policy_step % Interval) + 1
      BY <2>11, <2>13, IntervalType, ModNext DEF FlushDue, Interval
    <3>3. lang_policy_step % Interval \in Nat
      BY <2>11, IntervalType, ModFacts
    <3> DEFINE k == lang_policy_step % Interval
    <3>4. ASSUME NEW c \in Batches PROVE Len(buffer') = (k + 1) * Len(c)
      <4>1. Len(c) = Len(b) /\ Len(c) \in Nat
        BY BatchFacts, RouterAssumption
      <4>2. Len(buffer) = k * Len(c)
        BY <1>3 DEF RouterInv, BufferMatchesSteps, Interval
      <4>3. k \in Nat
        BY <3>3
      <4> HIDE DEF k
      <4>4. (k + 1) * Len(c) = k * Len(c) + Len(c)
        BY <4>1, <4>3
      <4> QED
        BY <2>10, <3>1, <4>1, <4>2, <4>4
    <3>5. BufferMatchesSteps'
      BY <3>2, <3>4 DEF BufferMatchesSteps, Interval
    <3> QED
      BY <1>1, <2>10, <2>11, <3>1, <3>5 DEF RouterInv
  <2> QED
    BY <2>12, <2>13
<1> QED
  BY <1>2, <1>3

LEMMA NextRouter == RouterInv /\ [Next]_vars => RouterInv'
<1> SUFFICES ASSUME RouterInv, [Next]_vars PROVE RouterInv'
  OBVIOUS
<1>1. CASE \E b \in Batches : RouteBatch(b)
  BY <1>1, RouteKeeps
<1>2. CASE \E b \in Batches : RouteRaises(b) \/ Validate(b)
  <2>1. phase' # "rollout" /\ UNCHANGED <<lang_policy, lang_policy_step, buffer>>
    BY <1>2 DEF RouteRaises, Validate, router
  <2> QED
    BY <2>1 DEF RouterInv, BufferMatchesSteps
<1>3. CASE RewardBatch
  BY <1>3, RewardKeeps
<1>4. CASE Restart
  <2>1. phase' = "idle" /\ lang_policy' = lang_policy /\ lang_policy_step' = 0 /\ buffer' = <<>>
    BY <1>4 DEF Restart
  <2>2. 0 % Interval = 0
    BY IntervalType, ModFacts
  <2>3. BufferMatchesSteps'
    BY <2>1, <2>2, EmptyBuffer DEF BufferMatchesSteps, Interval
  <2> QED
    BY <2>1, <2>3, EmptySeq DEF RouterInv
<1>5. CASE UNCHANGED vars
  <2>1. UNCHANGED <<phase, lang_policy, batch, lang_policy_step, buffer>>
    BY <1>5 DEF vars, router
  <2>2. \A b, lang : Routed(b, lang)' = Routed(b, lang) /\ Languages(b)' = Languages(b)
    BY <2>1 DEF Routed, ArmOf, Languages, LanguagesFor
  <2> QED
    BY <2>1, <2>2 DEF RouterInv, BufferMatchesSteps
<1> QED
  BY <1>1, <1>2, <1>3, <1>4, <1>5 DEF Next

\* However the prompts of a batch are mixed and whatever is sampled, every prompt keeps
\* its first OrigLangMin free rollouts in the original language, for every batch, group
\* size and OrigLangMin (_maybe_apply_lang_policy, ray_trainer.py:597).
THEOREM OriginalsKept == Spec => []OrigLangKept
<1>1. RouterInv => OrigLangKept
  <2> SUFFICES ASSUME RouterInv, phase = "rollout", NEW i \in 1 .. Len(batch)
               PROVE  LET group == {j \in 1 .. Len(batch) : batch[j].uid = batch[i].uid}
                          kept  == {j \in group : batch[j].lang = batch[j].orig}
                      IN  Cardinality(kept) >= OrigLangMin \/ kept = group
    BY DEF OrigLangKept
  <2>0. PICK b \in Batches : \E lang \in Languages(b) : batch = Routed(b, lang)
    BY DEF RouterInv
  <2>1. PICK lang \in Languages(b) : batch = Routed(b, lang)
    BY <2>0
  <2>2. /\ Len(batch) = Len(b)
        /\ \A j \in 1 .. Len(b) : batch[j].lang = lang[j] /\ batch[j].uid = b[j].uid
                                  /\ batch[j].orig = b[j].orig
    BY <2>1, RoutedFacts
  <2> DEFINE group == {j \in 1 .. Len(b) : b[j].uid = b[i].uid}
             kept  == {j \in group : lang[j] = b[j].orig}
  <2>3. Cardinality(kept) >= OrigLangMin \/ kept = group
    BY <2>2, GroupKeepsOriginals
  <2>4. group = {j \in 1 .. Len(batch) : batch[j].uid = batch[i].uid}
    BY <2>2
  <2>5. kept = {j \in group : batch[j].lang = batch[j].orig}
    BY <2>2
  <2> QED
    BY <2>3, <2>4, <2>5
<1> QED
  BY <1>1, InitRouter, NextRouter, PTL DEF Spec

\* No rollout is credited twice and none is lost: between two updates, and after a
\* restart, the buffer has the entries of exactly the batches since the last update, for
\* every batch size and update interval (_update_lang_policy, ray_trainer.py:658).
THEOREM BufferComplete == Spec => []BufferMatchesSteps
<1>1. RouterInv => BufferMatchesSteps
  BY DEF RouterInv
<1> QED
  BY <1>1, InitRouter, NextRouter, PTL DEF Spec

-----------------------------------------------------------------------------
(* What an update credits. *)

TopicKeySet == Topics \cup {None}
RegionKeySet == Regions \cup {None}
CreditSet == [topic : TopicKeySet, region : RegionKeySet, arm : Langs, reward : Rewards]

\* An entry of a rollout that was sampled or kept in a language of the policy.
IsCredited(e) ==
    e.topics \in Seq(Topics) /\ e.regions \in Seq(Regions) /\ e.arm \in Langs /\ e.reward \in Rewards

\* c credits entry e, for one topic and one region of it.
IsCreditOf(c, e) ==
    /\ c \in CreditSet /\ c.arm = e.arm
    /\ c.topic \in ToSet(NormalizeKey(e.topics)) /\ c.region \in ToSet(NormalizeKey(e.regions))

LEMMA NormalizedType ==
    ASSUME NEW K, NEW list \in Seq(K)
    PROVE  NormalizeKey(list) \in Seq(K \cup {None})
<1>1. CASE list = <<>>
  <2>1. <<None>> \in Seq(K \cup {None})
    OBVIOUS
  <2> QED
    BY <1>1, <2>1 DEF NormalizeKey
<1>2. CASE list # <<>>
  <2>1. list \in Seq(K \cup {None})
    OBVIOUS
  <2> QED
    BY <1>2, <2>1 DEF NormalizeKey
<1> QED
  BY <1>1, <1>2

LEMMA CreditsOfType ==
    ASSUME NEW e, IsCredited(e)
    PROVE  CreditsOf(e) \in Seq({c \in CreditSet : IsCreditOf(c, e)})
<1> DEFINE C == {c \in CreditSet : IsCreditOf(c, e)}
           tps == NormalizeKey(e.topics)
           rgs == NormalizeKey(e.regions)
           one(i, j) == [topic |-> tps[i], region |-> rgs[j], arm |-> e.arm, reward |-> e.reward]
           part(i) == [j \in 1 .. Len(rgs) |-> one(i, j)]
           parts == [i \in 1 .. Len(tps) |-> part(i)]
<1>1. /\ Len(rgs) \in Nat
      /\ \A j \in 1 .. Len(rgs) : rgs[j] \in RegionKeySet /\ rgs[j] \in ToSet(rgs)
  <2>1. rgs \in Seq(RegionKeySet)
    BY NormalizedType DEF IsCredited, RegionKeySet
  <2> HIDE DEF rgs
  <2> QED
    BY <2>1 DEF ToSet
<1>2. /\ Len(tps) \in Nat
      /\ \A i \in 1 .. Len(tps) : tps[i] \in TopicKeySet /\ tps[i] \in ToSet(tps)
  <2>1. tps \in Seq(TopicKeySet)
    BY NormalizedType DEF IsCredited, TopicKeySet
  <2> HIDE DEF tps
  <2> QED
    BY <2>1 DEF ToSet
<1>3. CreditsOf(e) = FlattenSeq(parts)
  BY DEF CreditsOf
<1>4. ASSUME NEW i \in 1 .. Len(tps), NEW j \in 1 .. Len(rgs) PROVE one(i, j) \in C
  <2>1. tps[i] \in TopicKeySet /\ tps[i] \in ToSet(tps) /\ rgs[j] \in RegionKeySet /\ rgs[j] \in ToSet(rgs)
    BY <1>1, <1>2
  <2>2. e.arm \in Langs /\ e.reward \in Rewards
    BY DEF IsCredited
  <2> DEFINE c == one(i, j)
  <2>3. c \in CreditSet /\ c.arm = e.arm /\ c.topic = tps[i] /\ c.region = rgs[j]
    BY <2>1, <2>2 DEF CreditSet
  <2> HIDE DEF c
  <2>4. IsCreditOf(c, e)
    BY <2>1, <2>3 DEF IsCreditOf
  <2> QED
    BY <2>3, <2>4 DEF c
<1> HIDE DEF C, one, rgs, tps
<1>5. ASSUME NEW i \in 1 .. Len(tps) PROVE part(i) \in Seq(C)
  BY <1>1, <1>4
<1> HIDE DEF part
<1>6. parts \in Seq(Seq(C))
  BY <1>2, <1>5
<1>7. FlattenSeq(parts) \in Seq(C)
  BY <1>6, FlattenType
<1> QED
  BY <1>3, <1>7 DEF C

Credits(entries) == FlattenSeq([i \in 1 .. Len(entries) |-> CreditsOf(entries[i])])

\* The credits of some entries: each is of one of them.
CreditsWithin(entries) ==
    {c \in CreditSet : \E i \in 1 .. Len(entries) : IsCreditOf(c, entries[i])}

LEMMA CreditsType ==
    ASSUME NEW entries, Len(entries) \in Nat, \A i \in 1 .. Len(entries) : IsCredited(entries[i])
    PROVE  Credits(entries) \in Seq(CreditsWithin(entries))
<1> DEFINE C == CreditsWithin(entries)
           parts == [i \in 1 .. Len(entries) |-> CreditsOf(entries[i])]
<1>1. ASSUME NEW i \in 1 .. Len(entries) PROVE CreditsOf(entries[i]) \in Seq(C)
  <2> DEFINE D == {c \in CreditSet : IsCreditOf(c, entries[i])}
  <2>1. CreditsOf(entries[i]) \in Seq(D)
    BY CreditsOfType
  <2>2. D \subseteq C
    BY DEF CreditsWithin
  <2> HIDE DEF D, C
  <2> QED
    BY <2>1, <2>2
<1> HIDE DEF C
<1>2. parts \in Seq(Seq(C))
  BY <1>1
<1>3. FlattenSeq(parts) \in Seq(C)
  BY <1>2, FlattenType
<1> QED
  BY <1>3 DEF C, Credits
-----------------------------------------------------------------------------
(* The keys an update goes through, in the order of a dict. *)

KeysOf(credits) == {KeyOf(credits[i]) : i \in 1 .. Len(credits)}

WithKey(ks, key) == IF key \in ToSet(ks) THEN ks ELSE Append(ks, key)

\* g holds the keys of the credits at the places in a set, the last place done last.
Aggregates(g, credits) ==
    g = [s \in SUBSET (1 .. Len(credits)) |->
           IF s = {} THEN <<>> ELSE WithKey(g[s \ {Max(s)}], KeyOf(credits[Max(s)]))]

LEMMA LastPlaces ==
    ASSUME NEW n \in Nat, NEW next, next = [s \in SUBSET (1 .. n) |-> Max(s)]
    PROVE  Chooses(next, 1 .. n) /\ IsFiniteSet(1 .. n)
<1>1. IsFiniteSet(1 .. n)
  <2>1. 1 \in Int /\ n \in Int
    OBVIOUS
  <2> QED
    BY <2>1, FS_Interval
<1>2. ASSUME NEW s \in SUBSET (1 .. n), s # {} PROVE next[s] \in s
  <2>1. s \in SUBSET Int /\ IsFiniteSet(s)
    <3>1. \A x \in 1 .. n : x \in Int
      OBVIOUS
    <3>2. IsFiniteSet(s)
      BY <1>1, FS_Subset
    <3> QED
      BY <3>1, <3>2
  <2> QED
    BY <1>2, <2>1, GreatestOf
<1> QED
  BY <1>1, <1>2 DEF Chooses

LEMMA WithKeyType ==
    ASSUME NEW K, NEW ks \in Seq(K), NEW key \in K
    PROVE  WithKey(ks, key) \in Seq(K) /\ ToSet(ks) \cup {key} \subseteq ToSet(WithKey(ks, key))
<1>1. CASE key \in ToSet(ks)
  BY <1>1 DEF WithKey
<1>2. CASE key \notin ToSet(ks)
  <2> DEFINE w == Append(ks, key)
  <2>1. w \in Seq(K) /\ Len(w) = Len(ks) + 1 /\ w[Len(w)] = key
        /\ \A i \in 1 .. Len(ks) : w[i] = ks[i]
    OBVIOUS
  <2>2. Len(ks) \in Nat /\ DOMAIN ks = 1 .. Len(ks) /\ DOMAIN w = 1 .. Len(w)
    BY <2>1
  <2> HIDE DEF w
  <2>3. key \in ToSet(w)
    BY <2>1, <2>2 DEF ToSet
  <2>4. ASSUME NEW x \in ToSet(ks) PROVE x \in ToSet(w)
    <3>1. PICK i \in 1 .. Len(ks) : ks[i] = x
      BY <2>2 DEF ToSet
    <3>2. i \in 1 .. Len(w) /\ w[i] = x
      BY <2>1, <2>2, <3>1
    <3> QED
      BY <2>2, <3>2 DEF ToSet
  <2> QED
    BY <1>2, <2>1, <2>3, <2>4 DEF WithKey, w
<1> QED
  BY <1>1, <1>2

LEMMA AggregatesExist ==
    ASSUME NEW C, NEW credits \in Seq(C)
    PROVE  \E g : Aggregates(g, credits)
<1> DEFINE n == Len(credits)
           S == 1 .. n
           K == KeysOf(credits)
           next == [s \in SUBSET S |-> Max(s)]
           op == [p \in S \X Seq(K) |-> WithKey(p[2], KeyOf(credits[p[1]]))]
<1>1. n \in Nat
  OBVIOUS
<1>2. Chooses(next, S) /\ IsFiniteSet(S)
  BY <1>1, LastPlaces
<1>3. \A x \in S : KeyOf(credits[x]) \in K
  BY DEF KeysOf
<1> HIDE DEF K, n
<1> DEFINE W == Seq(K)
<1>12. ASSUME NEW x \in S, NEW v \in W PROVE WithKey(v, KeyOf(credits[x])) \in W
  BY <1>3, WithKeyType
<1>13. <<>> \in W
  OBVIOUS
<1> HIDE DEF W
<1>4. \A x \in S : \A v \in W : op[<<x, v>>] = WithKey(v, KeyOf(credits[x]))
  BY DEF W
<1>14. \A x \in S : \A v \in W : op[<<x, v>>] \in W
  BY <1>4, <1>12, ZenonT(40)
<1>5. \A s \in SUBSET S : next[s] = Max(s)
  OBVIOUS
<1>11. S = 1 .. n
  OBVIOUS
<1> HIDE DEF op, next, S
<1>6. PICK g : FoldsSubsets(g, S, next, <<>>, op)
  BY <1>2, FoldExists
<1>7. \A s \in SUBSET S : g[s] \in W
  BY <1>2, <1>6, <1>13, <1>14, FoldType
<1>8. ASSUME NEW s \in SUBSET S
      PROVE  g[s] = IF s = {} THEN <<>> ELSE WithKey(g[s \ {Max(s)}], KeyOf(credits[Max(s)]))
  <2>1. g[s] = IF s = {} THEN <<>> ELSE op[<<next[s], g[s \ {next[s]}]>>]
    BY <1>6 DEF FoldsSubsets
  <2>2. ASSUME s # {}
        PROVE  op[<<next[s], g[s \ {next[s]}]>>] = WithKey(g[s \ {Max(s)}], KeyOf(credits[Max(s)]))
    <3>1. next[s] \in S /\ next[s] = Max(s) /\ g[s \ {next[s]}] \in W
      BY <1>2, <1>5, <1>7, <2>2 DEF Chooses
    <3> QED
      BY <1>4, <3>1
  <2> QED
    BY <2>1, <2>2
<1>9. g = [s \in SUBSET S |-> g[s]]
  BY <1>6 DEF FoldsSubsets
<1>10. Aggregates(g, credits)
  BY <1>8, <1>9, <1>11 DEF Aggregates, n
<1> QED
  BY <1>10

LEMMA AggKeysAggregated ==
    ASSUME NEW C, NEW credits \in Seq(C)
    PROVE  \E g : Aggregates(g, credits) /\ AggKeys(credits) = g[1 .. Len(credits)]
<1> DEFINE chosen == CHOOSE g : Aggregates(g, credits)
<1>1. Aggregates(chosen, credits)
  BY AggregatesExist
<1>2. DOMAIN credits = 1 .. Len(credits)
  OBVIOUS
<1>3. AggKeys(credits) = chosen[DOMAIN credits]
  BY <1>2 DEF AggKeys, FoldLeft, MapThenFoldSet, Aggregates, WithKey
<1> QED
  BY <1>1, <1>2, <1>3

\* An update goes through the keys of its credits and no others.
LEMMA AggKeysComplete ==
    ASSUME NEW C, NEW credits \in Seq(C)
    PROVE  AggKeys(credits) \in Seq(KeysOf(credits)) /\ ToSet(AggKeys(credits)) = KeysOf(credits)
<1> DEFINE S == 1 .. Len(credits)
           K == KeysOf(credits)
           next == [s \in SUBSET S |-> Max(s)]
           key(i) == KeyOf(credits[i])
<1>1. PICK g : Aggregates(g, credits) /\ AggKeys(credits) = g[S]
  BY AggKeysAggregated
<1>2. Chooses(next, S) /\ IsFiniteSet(S)
  <2>1. Len(credits) \in Nat
    OBVIOUS
  <2> QED
    BY <2>1, LastPlaces
<1>3. \A s \in SUBSET S : next[s] = Max(s)
  OBVIOUS
<1>4. \A s \in SUBSET S : g[s] = IF s = {} THEN <<>> ELSE WithKey(g[s \ {next[s]}], key(next[s]))
  BY <1>1, <1>3 DEF Aggregates
<1>5. K = {key(i) : i \in S}
  BY DEF KeysOf
<1> HIDE DEF S, K, next, key
<1> DEFINE G == {s \in SUBSET S : g[s] \in Seq(K) /\ \A i \in s : key(i) \in ToSet(g[s])}
<1>6. {} \in G
  <2>1. g[{}] = <<>>
    BY <1>4
  <2>2. g[{}] \in Seq(K)
    BY <2>1, EmptySeq
  <2> QED
    BY <2>2
<1>7. ASSUME NEW s \in SUBSET S, s # {}, s \ {next[s]} \in G PROVE s \in G
  <2> DEFINE before == g[s \ {next[s]}]
  <2>1. before \in Seq(K) /\ \A i \in s \ {next[s]} : key(i) \in ToSet(before)
    BY <1>7
  <2>2. next[s] \in s /\ key(next[s]) \in K
    BY <1>2, <1>5, <1>7 DEF Chooses
  <2>3. g[s] = WithKey(before, key(next[s]))
    BY <1>4, <1>7
  <2> HIDE DEF before
  <2>4. g[s] \in Seq(K) /\ ToSet(before) \cup {key(next[s])} \subseteq ToSet(g[s])
    BY <2>1, <2>2, <2>3, WithKeyType
  <2>5. \A i \in s : key(i) \in ToSet(g[s])
    BY <2>1, <2>4
  <2> QED
    BY <2>4, <2>5
<1>8. Shrinks(G, next, S)
  BY <1>6, <1>7 DEF Shrinks
<1> HIDE DEF G
<1>9. S \in G
  BY <1>2, <1>8, SubsetInduction
<1>10. g[S] \in Seq(K) /\ \A i \in S : key(i) \in ToSet(g[S])
  BY <1>9 DEF G
<1>11. ToSet(g[S]) \subseteq K
  BY <1>10 DEF ToSet
<1>12. K \subseteq ToSet(g[S])
  BY <1>5, <1>10
<1> QED
  BY <1>1, <1>10, <1>11, <1>12 DEF K
-----------------------------------------------------------------------------
(* The folding of an update into the arms. *)

Arms == [topic : [TopicKeySet -> [Langs -> Int]], region : [RegionKeySet -> [Langs -> Int]]]

\* What the arms are moved by one key after the other.
Moves(g, keys, credits, q) ==
    g = [s \in SUBSET (1 .. Len(keys)) |->
           IF s = {} THEN q
           ELSE UpdateArms(g[s \ {Max(s)}], keys[Max(s)], Normalised(credits, keys[Max(s)]))]

FlushedFrom(keys, credits, q) ==
    FoldLeft(LAMBDA arms, key : UpdateArms(arms, key, Normalised(credits, key)), q, keys)

\* Moved by every key of `keys`, the arms stay in V.
StaysIn(V, keys, credits) ==
    \A i \in 1 .. Len(keys) : \A q \in V : UpdateArms(q, keys[i], Normalised(credits, keys[i])) \in V

LEMMA FlushedStays ==
    ASSUME NEW K, NEW keys \in Seq(K), NEW credits, NEW V, NEW q \in V, StaysIn(V, keys, credits)
    PROVE  FlushedFrom(keys, credits, q) \in V
<1> DEFINE n == Len(keys)
           S == 1 .. n
           step(arms, i) == UpdateArms(arms, keys[i], Normalised(credits, keys[i]))
           next == [s \in SUBSET S |-> Max(s)]
           op == [p \in S \X V |-> step(p[2], p[1])]
           chosen == CHOOSE g : Moves(g, keys, credits, q)
<1>1. n \in Nat /\ DOMAIN keys = S
  OBVIOUS
<1>2. Chooses(next, S) /\ IsFiniteSet(S)
  BY <1>1, LastPlaces
<1>3. \A x \in S : \A v \in V : step(v, x) \in V
  BY DEF StaysIn
<1>4. \A x \in S : \A v \in V : op[<<x, v>>] = step(v, x)
  OBVIOUS
<1>5. \A s \in SUBSET S : next[s] = Max(s)
  OBVIOUS
<1>6. \A g : Moves(g, keys, credits, q) <=>
               g = [s \in SUBSET S |-> IF s = {} THEN q ELSE step(g[s \ {Max(s)}], Max(s))]
  BY DEF Moves
<1>7. FlushedFrom(keys, credits, q) = chosen[DOMAIN keys]
  BY <1>1 DEF FlushedFrom, FoldLeft, MapThenFoldSet, Moves
<1> HIDE DEF op, next, S, step
<1>8. \A x \in S : \A v \in V : op[<<x, v>>] \in V
  BY <1>3, <1>4, ZenonT(40)
<1>9. PICK g : FoldsSubsets(g, S, next, q, op)
  BY <1>2, FoldExists
<1>10. \A s \in SUBSET S : g[s] \in V
  BY <1>2, <1>8, <1>9, FoldType
<1>11. ASSUME NEW s \in SUBSET S
       PROVE  g[s] = IF s = {} THEN q ELSE step(g[s \ {Max(s)}], Max(s))
  <2>1. g[s] = IF s = {} THEN q ELSE op[<<next[s], g[s \ {next[s]}]>>]
    BY <1>9 DEF FoldsSubsets
  <2>2. ASSUME s # {} PROVE op[<<next[s], g[s \ {next[s]}]>>] = step(g[s \ {Max(s)}], Max(s))
    <3>1. next[s] \in S /\ next[s] = Max(s) /\ g[s \ {next[s]}] \in V
      BY <1>2, <1>5, <1>10, <2>2 DEF Chooses
    <3> QED
      BY <1>4, <3>1
  <2> QED
    BY <2>1, <2>2
<1>12. g = [s \in SUBSET S |-> g[s]]
  BY <1>9 DEF FoldsSubsets
<1>13. Moves(g, keys, credits, q)
  BY <1>6, <1>11, <1>12
<1>14. Moves(chosen, keys, credits, q)
  BY <1>13
<1> HIDE DEF chosen
<1>15. \A s \in SUBSET S : chosen[s] = IF s = {} THEN q ELSE step(chosen[s \ {Max(s)}], Max(s))
  BY <1>6, <1>14
<1> DEFINE G == {s \in SUBSET S : chosen[s] \in V}
<1>16. Shrinks(G, next, S)
  <2>1. {} \in G
    BY <1>15
  <2>2. ASSUME NEW s \in SUBSET S, s # {}, s \ {next[s]} \in G PROVE s \in G
    <3>1. next[s] \in S /\ chosen[s \ {next[s]}] \in V /\ next[s] = Max(s)
      BY <1>2, <1>5, <2>2 DEF Chooses
    <3>2. chosen[s] = step(chosen[s \ {next[s]}], next[s])
      BY <1>15, <2>2, <3>1
    <3> QED
      BY <1>3, <3>1, <3>2
  <2> HIDE DEF G
  <2> QED
    BY <2>1, <2>2 DEF Shrinks
<1> HIDE DEF G
<1>17. S \in G
  BY <1>2, <1>16, SubsetInduction
<1> QED
  BY <1>1, <1>7, <1>17 DEF G

-----------------------------------------------------------------------------
(* Means of rewards. *)

Mine(credits, key) == {i \in 1 .. Len(credits) : KeyOf(credits[i]) = key}

\* Every reward is in this range.
RewardsWithin(lo, hi) ==
    lo \in Int /\ hi \in Int /\ \A r \in Rewards : lo <= r /\ r <= hi

LEMMA MeanRewardWithin ==
    ASSUME NEW C \in SUBSET CreditSet, NEW credits \in Seq(C), NEW key \in KeysOf(credits),
           NEW lo, NEW hi, RewardsWithin(lo, hi)
    PROVE  MeanReward(credits, key) \in lo .. hi
<1> DEFINE S == Mine(credits, key)
           f == [i \in S |-> credits[i].reward]
           Rewarding(g) ==
             g = [s \in SUBSET S |-> IF s = {} THEN 0
                                     ELSE credits[CHOOSE x \in s : TRUE].reward
                                            + g[s \ {CHOOSE x \in s : TRUE}]]
           chosen == CHOOSE g : Rewarding(g)
<1>1. IsFiniteSet(S) /\ S # {} /\ S \subseteq 1 .. Len(credits)
  <2>1. Len(credits) \in Nat
    OBVIOUS
  <2>2. IsFiniteSet(1 .. Len(credits))
    BY <2>1, LastPlaces
  <2>3. S \subseteq 1 .. Len(credits)
    BY DEF Mine
  <2>4. S # {}
    BY DEF Mine, KeysOf
  <2> QED
    BY <2>2, <2>3, <2>4, FS_Subset
<1>2. \A i \in S : f[i] = credits[i].reward /\ f[i] \in Rewards
  <2>1. \A i \in 1 .. Len(credits) : credits[i] \in CreditSet
    OBVIOUS
  <2> QED
    BY <1>1, <2>1 DEF CreditSet
<1>3. MeanReward(credits, key) = chosen[S] \div Cardinality(S)
  BY DEF MeanReward, MapThenSumSet, MapThenFoldSet, Mine
<1>4. lo \in Int /\ hi \in Int /\ \A i \in S : f[i] \in Int /\ lo <= f[i] /\ f[i] <= hi
  BY <1>2, RouterAssumption DEF RewardsWithin
<1> HIDE DEF S, f
<1>5. Integral(f, S)
  BY <1>1, <1>4 DEF Integral
<1>6. ASSUME NEW g PROVE Rewarding(g) <=> Adding(f, S, g)
  BY <1>2 DEF Adding
<1>7. Adding(f, S, chosen)
  <2>1. \E g : Adding(f, S, g)
    BY <1>5, AddingExists
  <2>2. \E g : Rewarding(g)
    <3>1. PICK g : Adding(f, S, g)
      BY <2>1
    <3> HIDE DEF Rewarding
    <3>2. Rewarding(g)
      BY <1>6, <3>1
    <3> QED
      BY <3>2
  <2>3. Rewarding(chosen)
    BY <2>2
  <2> HIDE DEF Rewarding, chosen
  <2> QED
    BY <1>6, <2>3
<1> HIDE DEF chosen
<1>8. SumOver(f, S) = chosen[S]
  BY <1>5, <1>7, AddingWithin
<1>9. SumOver(f, S) \div Cardinality(S) \in lo .. hi
  BY <1>1, <1>4, <1>5, MeanWithin
<1> QED
  BY <1>3, <1>8, <1>9

\* The keys of one group: those with the topic and the region of a key, at most one for
\* each language.
LEMMA GroupIsFinite ==
    ASSUME NEW C \in SUBSET CreditSet, NEW credits \in Seq(C), NEW key \in KeysOf(credits)
    PROVE  LET S == GroupKeys(credits, key)
           IN  /\ IsFiniteSet(S) /\ key \in S /\ S \subseteq KeysOf(credits)
               /\ Cardinality(S) <= Cardinality(Langs)
<1> DEFINE S == GroupKeys(credits, key)
           K == KeysOf(credits)
           arm == [k \in S |-> k.arm]
<1>1. S = {k \in K : k.topic = key.topic /\ k.region = key.region}
  BY DEF GroupKeys, KeysOf
<1>2. ASSUME NEW k \in K
      PROVE  k.arm \in Langs /\ k = [topic |-> k.topic, region |-> k.region, arm |-> k.arm]
  <2>1. PICK i \in 1 .. Len(credits) : k = KeyOf(credits[i])
    BY DEF KeysOf
  <2>2. credits[i] \in CreditSet
    BY <2>1
  <2> QED
    BY <2>1, <2>2 DEF KeyOf, CreditSet
<1> HIDE DEF S, K
<1>3. key \in S /\ S \subseteq K
  BY <1>1 DEF K
<1>4. arm \in Injection(S, Langs)
  <2>1. arm \in [S -> Langs]
    BY <1>2, <1>3
  <2>2. ASSUME NEW a \in S, NEW b \in S, arm[a] = arm[b] PROVE a = b
    <3>1. a.topic = b.topic /\ a.region = b.region /\ a.arm = b.arm
      BY <1>1, <2>2
    <3>2. /\ a = [topic |-> a.topic, region |-> a.region, arm |-> a.arm]
          /\ b = [topic |-> b.topic, region |-> b.region, arm |-> b.arm]
      BY <1>2, <1>3
    <3> QED
      BY <3>1, <3>2, Zenon
  <2> QED
    BY <2>1, <2>2 DEF Injection, IsInjective
<1>5. IsFiniteSet(Langs)
  BY RouterAssumption
<1>6. IsFiniteSet(S) /\ Cardinality(S) <= Cardinality(Langs)
  BY <1>4, <1>5, FS_Injection
<1> QED
  BY <1>3, <1>6 DEF S, K

LEMMA GroupMeanWithin ==
    ASSUME NEW C \in SUBSET CreditSet, NEW credits \in Seq(C), NEW key \in KeysOf(credits),
           NEW lo, NEW hi, RewardsWithin(lo, hi)
    PROVE  GroupMean(credits, key) \in lo .. hi
<1> DEFINE S == GroupKeys(credits, key)
           f == [k \in S |-> MeanReward(credits, k)]
           Averaging(g) ==
             g = [s \in SUBSET S |-> IF s = {} THEN 0
                                     ELSE MeanReward(credits, CHOOSE x \in s : TRUE)
                                            + g[s \ {CHOOSE x \in s : TRUE}]]
           chosen == CHOOSE g : Averaging(g)
<1>1. IsFiniteSet(S) /\ S # {} /\ S \subseteq KeysOf(credits)
  BY GroupIsFinite
<1>2. \A k \in S : f[k] = MeanReward(credits, k) /\ MeanReward(credits, k) \in lo .. hi
  BY <1>1, MeanRewardWithin
<1>3. GroupMean(credits, key) = chosen[S] \div Cardinality(S)
  BY DEF GroupMean, MapThenSumSet, MapThenFoldSet
<1>4. lo \in Int /\ hi \in Int /\ \A k \in S : f[k] \in Int /\ lo <= f[k] /\ f[k] <= hi
  <2>1. lo \in Int /\ hi \in Int
    BY DEF RewardsWithin
  <2> HIDE DEF S, f
  <2> QED
    BY <1>2, <2>1
<1> HIDE DEF S, f
<1>5. Integral(f, S)
  BY <1>1, <1>4 DEF Integral
<1>6. ASSUME NEW g PROVE Averaging(g) <=> Adding(f, S, g)
  BY <1>2 DEF Adding
<1>7. Adding(f, S, chosen)
  <2>1. PICK g : Adding(f, S, g)
    BY <1>5, AddingExists
  <2> HIDE DEF Averaging
  <2>2. Averaging(g)
    BY <1>6, <2>1
  <2>3. Averaging(chosen)
    BY <2>2
  <2> HIDE DEF chosen
  <2> QED
    BY <1>6, <2>3
<1> HIDE DEF chosen
<1>8. SumOver(f, S) = chosen[S]
  BY <1>5, <1>7, AddingWithin
<1>9. SumOver(f, S) \div Cardinality(S) \in lo .. hi
  BY <1>1, <1>4, <1>5, MeanWithin
<1> QED
  BY <1>3, <1>8, <1>9

-----------------------------------------------------------------------------
(* Z-scores. *)

LEMMA RootIs ==
    ASSUME NEW x \in Nat
    PROVE  LET r == Root(x) IN r \in Nat /\ r * r <= x /\ x < (r + 1) * (r + 1)
<1> DEFINE IsRoot(r, y) == r * r <= y /\ y < (r + 1) * (r + 1)
           G == {y \in Nat : \E r \in 0 .. y : IsRoot(r, y)}
<1>1. 0 \in G
  <2>1. 0 \in 0 .. 0 /\ IsRoot(0, 0)
    OBVIOUS
  <2> QED
    BY <2>1
<1>2. ASSUME NEW y \in Nat, y \in G PROVE y + 1 \in G
  <2>1. PICK r \in 0 .. y : IsRoot(r, y)
    BY <1>2
  <2> DEFINE q == r * r
  <2>2. q \in Nat /\ q <= y /\ y < q + 2 * r + 1 /\ r \in Nat /\ r <= y
    BY <2>1
  <2>3. (r + 1) * (r + 1) = q + 2 * r + 1 /\ (r + 2) * (r + 2) = q + 4 * r + 4
    BY <2>2
  <2> HIDE DEF q
  <2>4. ASSUME y + 1 < q + 2 * r + 1 PROVE \E s \in 0 .. (y + 1) : IsRoot(s, y + 1)
    <3>1. r \in 0 .. (y + 1) /\ IsRoot(r, y + 1)
      BY <2>2, <2>3, <2>4 DEF q
    <3> HIDE DEF IsRoot
    <3> QED
      BY <3>1
  <2>5. ASSUME ~ (y + 1 < q + 2 * r + 1) PROVE \E s \in 0 .. (y + 1) : IsRoot(s, y + 1)
    <3>1. y + 1 = q + 2 * r + 1
      BY <2>2, <2>5
    <3>2. r + 1 \in 0 .. (y + 1)
      BY <2>2
    <3>3. (r + 1) * (r + 1) <= y + 1 /\ y + 1 < (r + 2) * (r + 2) /\ (r + 1) + 1 = r + 2
      BY <2>2, <2>3, <3>1
    <3>4. IsRoot(r + 1, y + 1)
      BY <3>3
    <3> HIDE DEF IsRoot
    <3> QED
      BY <3>2, <3>4
  <2>6. \E s \in 0 .. (y + 1) : IsRoot(s, y + 1)
    BY <2>4, <2>5
  <2> HIDE DEF IsRoot
  <2> QED
    BY <2>6 DEF G
<1> HIDE DEF G
<1>3. x \in G
  BY <1>1, <1>2, SetInduction
<1>4. \E r \in 0 .. x : IsRoot(r, x)
  BY <1>3 DEF G
<1>5. Root(x) \in 0 .. x /\ IsRoot(Root(x), x)
  BY <1>4 DEF Root
<1> QED
  BY <1>5

LEMMA RootGrows ==
    ASSUME NEW x \in Nat, NEW y \in Nat, x <= y
    PROVE  Root(x) \in Nat /\ Root(y) \in Nat /\ Root(x) <= Root(y)
<1> DEFINE r == Root(x)
           t == Root(y)
<1>1. r \in Nat /\ r * r <= x
  BY RootIs
<1>2. t \in Nat /\ y < (t + 1) * (t + 1)
  BY RootIs
<1> HIDE DEF r, t
<1>3. SUFFICES ASSUME t + 1 <= r PROVE FALSE
  BY <1>1, <1>2 DEF r, t
<1>4. (t + 1) * (t + 1) <= r * (t + 1) /\ r * (t + 1) \in Int /\ (t + 1) * (t + 1) \in Int
  BY <1>1, <1>2, <1>3, TimesMonotone
<1>5. (t + 1) * r <= r * r /\ r * r \in Int
  BY <1>1, <1>2, <1>3, TimesMonotone
<1>6. (t + 1) * r = r * (t + 1)
  BY <1>1, <1>2
<1> QED
  BY <1>1, <1>2, <1>4, <1>5, <1>6

\* One more value on the left of the inequality of Cauchy and Schwarz.
LEMMA OneMoreSquare ==
    ASSUME NEW s \in Int, NEW a \in Int, NEW q \in Nat, NEW k \in Nat,
           s * s <= k * q, k = 0 => s = 0
    PROVE  (s + a) * (s + a) <= (k + 1) * (q + a * a)
<1> DEFINE ss == s * s
           aa == a * a
           sa == s * a
           kq == k * q
           kaa == k * aa
<1>1. ss \in Nat /\ aa \in Nat /\ sa \in Int /\ kq \in Nat
  OBVIOUS
<1>2. kaa \in Nat
  BY <1>1
<1>3. (s + a) * (s + a) = ss + 2 * sa + aa
  OBVIOUS
<1>4. (k + 1) * (q + aa) = kq + kaa + q + aa
  BY <1>1
<1>5. 2 * sa <= q + kaa
  <2>1. CASE k = 0
    BY <2>1, <1>1, <1>2
  <2>2. CASE k # 0
    <3> DEFINE d == s - k * a
               b == q + kaa - 2 * sa
    <3>1. d * d >= 0 /\ d * d = ss - 2 * (k * sa) + k * kaa
      <4>1. k * a \in Int
        OBVIOUS
      <4>2. d \in Int
        BY <4>1
      <4>3. d * d = s * s - 2 * (s * (k * a)) + (k * a) * (k * a)
        BY <4>1
      <4>4. s * (k * a) = k * sa /\ (k * a) * (k * a) = k * kaa
        OBVIOUS
      <4>5. \A e \in Int : e * e >= 0
        OBVIOUS
      <4> HIDE DEF d
      <4> QED
        BY <4>2, <4>3, <4>4, <4>5
    <3>2. k * b = kq + k * kaa - 2 * (k * sa)
      BY <1>1, <1>2
    <3>3. k * b >= 0
      <4>1. k * sa \in Int /\ k * kaa \in Int /\ d * d \in Int
        BY <1>1, <1>2
      <4> HIDE DEF d, b, ss, kq, sa, kaa
      <4> QED
        BY <1>1, <3>1, <3>2, <4>1 DEF ss, kq
    <3>4. b \in Int /\ k \in Nat \ {0}
      BY <1>1, <1>2, <2>2
    <3> HIDE DEF b
    <3>5. b >= 0
      <4> SUFFICES ASSUME b <= -1 PROVE FALSE
        BY <3>4
      <4>1. b * k <= (-1) * k
        BY <3>4, TimesMonotone
      <4> QED
        BY <3>3, <3>4, <4>1
    <3> HIDE DEF sa, kaa
    <3> QED
      BY <1>1, <1>2, <3>5 DEF b
  <2> QED
    BY <2>1, <2>2
<1>6. ss <= kq
  OBVIOUS
<1> HIDE DEF ss, aa, sa, kq, kaa
<1>7. ss + 2 * sa + aa <= kq + kaa + q + aa
  BY <1>1, <1>2, <1>5, <1>6
<1> QED
  BY <1>3, <1>4, <1>7 DEF aa

\* The square of a sum is at most the number of its values times the sum of their squares.
LEMMA SquareOfSum ==
    ASSUME NEW S, NEW f, Integral(f, S), NEW sq, \A x \in S : sq[x] = f[x] * f[x]
    PROVE  /\ Integral(sq, S) /\ SumOver(sq, S) \in Nat
           /\ SumOver(f, S) * SumOver(f, S) <= Cardinality(S) * SumOver(sq, S)
<1>1. IsFiniteSet(S) /\ \A x \in S : f[x] \in Int /\ sq[x] \in Nat
  <2>1. \A a \in Int : a * a \in Nat
    OBVIOUS
  <2> QED
    BY <2>1 DEF Integral
<1>2. Integral(sq, S)
  BY <1>1 DEF Integral
<1> DEFINE Fits(T) == /\ SumOver(sq, T) \in Nat /\ SumOver(f, T) \in Int
                      /\ Cardinality(T) = 0 => SumOver(f, T) = 0
                      /\ SumOver(f, T) * SumOver(f, T) <= Cardinality(T) * SumOver(sq, T)
           G == {T \in SUBSET S : Fits(T)}
<1>3. {} \in G
  <2>1. Integral(f, {}) /\ Integral(sq, {}) /\ Cardinality({}) = 0
    BY FS_EmptySet DEF Integral
  <2>2. SumOver(f, {}) = 0 /\ SumOver(sq, {}) = 0
    BY <2>1, SumType
  <2>3. Fits({})
    BY <2>1, <2>2
  <2> QED
    BY <2>3
<1>4. ASSUME NEW T \in SUBSET S, NEW x \in S \ T, T \in G PROVE T \cup {x} \in G
  <2>1. SumOver(f, T \cup {x}) = f[x] + SumOver(f, T) /\ SumOver(f, T) \in Int /\ f[x] \in Int
    BY SumAddIn
  <2>2. SumOver(sq, T \cup {x}) = sq[x] + SumOver(sq, T)
    BY <1>2, SumAddIn
  <2>3. Cardinality(T \cup {x}) = Cardinality(T) + 1 /\ Cardinality(T) \in Nat
    BY <1>1, FS_Subset, FS_AddElement, FS_CardinalityType
  <2> DEFINE s == SumOver(f, T)
             q == SumOver(sq, T)
             k == Cardinality(T)
             a == f[x]
  <2>4. s \in Int /\ q \in Nat /\ k \in Nat /\ a \in Int /\ sq[x] = a * a
    BY <1>4, <2>1, <2>3
  <2>5. s * s <= k * q /\ (k = 0 => s = 0)
    BY <1>4
  <2>6. SumOver(f, T \cup {x}) = s + a
    BY <2>1
  <2>7. SumOver(sq, T \cup {x}) = q + a * a
    <3>1. sq[x] \in Nat
      BY <1>1
    <3> HIDE DEF q, a
    <3> QED
      BY <2>2, <2>4, <3>1 DEF q
  <2>8. Cardinality(T \cup {x}) = k + 1
    BY <2>3
  <2> HIDE DEF s, q, k, a
  <2>9. (s + a) * (s + a) <= (k + 1) * (q + a * a)
    BY <2>4, <2>5, OneMoreSquare
  <2>10. q + a * a \in Nat /\ s + a \in Int /\ k + 1 # 0
    <3>1. a * a \in Nat
      BY <2>4
    <3> QED
      BY <2>4, <3>1
  <2>11. Fits(T \cup {x})
    BY <2>6, <2>7, <2>8, <2>9, <2>10
  <2> QED
    BY <2>11
<1> HIDE DEF G
<1>5. S \in G
  <2>1. Grows(G, S)
    BY <1>3, <1>4 DEF Grows
  <2> QED
    BY <1>1, <2>1, GrowingInduction
<1> QED
  BY <1>2, <1>5 DEF G

\* Of n values with sum 0 the square of one, n times, is at most n - 1 times the sum of
\* all squares.
LEMMA LargestSquare ==
    ASSUME NEW S, NEW f, Integral(f, S), SumOver(f, S) = 0, NEW x \in S,
           NEW sq, \A y \in S : sq[y] = f[y] * f[y]
    PROVE  /\ SumOver(sq, S) \in Nat /\ sq[x] \in Nat /\ sq[x] <= SumOver(sq, S)
           /\ Cardinality(S) \in Nat \ {0}
           /\ Cardinality(S) * sq[x] <= (Cardinality(S) - 1) * SumOver(sq, S)
<1> DEFINE T == S \ {x}
           a == f[x]
           n == Cardinality(S)
           q == SumOver(sq, T)
           v == SumOver(sq, S)
<1>1. IsFiniteSet(S) /\ Integral(sq, S) /\ v \in Nat
  BY SquareOfSum DEF Integral
<1>2. Integral(f, T) /\ SumOver(f, S) = a + SumOver(f, T)
  BY SumTakeOut
<1>3. v = sq[x] + q
  BY <1>1, SumTakeOut
<1>4. q \in Nat /\ SumOver(f, T) * SumOver(f, T) <= Cardinality(T) * q
  BY <1>2, SquareOfSum
<1>5. n \in Nat \ {0} /\ Cardinality(T) = n - 1
  BY <1>1, FS_RemoveElement, FS_CardinalityType, FS_EmptySet
<1>6. a \in Int /\ sq[x] = a * a /\ SumOver(f, T) \in Int
  BY <1>2, SumType DEF Integral
<1> HIDE DEF T, a, n, q, v
<1> DEFINE b == SumOver(f, T)
           aa == a * a
<1>7. b * b = aa
  <2>1. b = -a
    BY <1>2, <1>6
  <2> QED
    BY <1>6, <2>1
<1>8. aa \in Nat
  BY <1>6
<1> HIDE DEF b, aa
<1>9. aa <= (n - 1) * q
  BY <1>4, <1>5, <1>7 DEF b
<1>10. n * aa = (n - 1) * aa + aa /\ (n - 1) * (aa + q) = (n - 1) * aa + (n - 1) * q
       /\ (n - 1) * aa \in Int /\ (n - 1) * q \in Int
  BY <1>4, <1>5, <1>8
<1>11. n * aa <= (n - 1) * (aa + q)
  BY <1>8, <1>9, <1>10
<1>12. sq[x] = aa
  BY <1>6 DEF aa
<1>13. aa <= v /\ v \in Nat /\ v = aa + q
  BY <1>1, <1>3, <1>4, <1>8, <1>12
<1> QED
  BY <1>5, <1>8, <1>11, <1>12, <1>13 DEF n, v

LEMMA BoundsOfRewards ==
    /\ RewardsWithin(Min(Rewards), Max(Rewards))
    /\ group_norm = "none" => CreditBound \in Nat /\ RewardsWithin(-CreditBound, CreditBound)
<1>1. Rewards \in SUBSET Int /\ IsFiniteSet(Rewards) /\ Rewards # {}
  BY RouterAssumption
<1>2. RewardsWithin(Min(Rewards), Max(Rewards))
  BY <1>1, GreatestOf, SmallestOf DEF RewardsWithin
<1>3. ASSUME group_norm = "none"
      PROVE  CreditBound \in Nat /\ RewardsWithin(-CreditBound, CreditBound)
  <2> DEFINE abs == [r \in Int |-> IF r < 0 THEN -r ELSE r]
             B == {abs[r] : r \in Rewards}
  <2>1. \A r \in Rewards : abs[r] \in Nat /\ -abs[r] <= r /\ r <= abs[r] /\ r \in Int
    BY <1>1
  <2>2. B = {IF r < 0 THEN -r ELSE r : r \in Rewards}
    BY <1>1
  <2>3. CreditBound = Max(B)
    BY <1>3, <2>2 DEF CreditBound
  <2> HIDE DEF abs
  <2>4. IsFiniteSet(B)
    BY <1>1, FiniteImage
  <2>5. B \in SUBSET Nat /\ B # {} /\ \A r \in Rewards : abs[r] \in B
    BY <1>1, <2>1
  <2> HIDE DEF B
  <2>6. Max(B) \in B /\ \A y \in B : y <= Max(B)
    <3>1. B \in SUBSET Int
      BY <2>5
    <3> QED
      BY <2>4, <2>5, <3>1, GreatestOf
  <2> DEFINE m == Max(B)
  <2>7. m \in Nat
    BY <2>5, <2>6
  <2>8. ASSUME NEW r \in Rewards PROVE -m <= r /\ r <= m
    <3>1. abs[r] <= m /\ abs[r] \in Nat /\ -abs[r] <= r /\ r <= abs[r] /\ r \in Int
      BY <2>1, <2>5, <2>6
    <3> HIDE DEF m
    <3> QED
      BY <2>7, <3>1
  <2> HIDE DEF m
  <2>9. RewardsWithin(-m, m)
    BY <2>7, <2>8 DEF RewardsWithin
  <2> QED
    BY <2>3, <2>7, <2>9 DEF m
<1> QED
  BY <1>2, <1>3

\* The normalisation of an instance is one of the three.
NormKnown == group_norm \in {"none", "center", "zscore"}

LEMMA SpreadBound ==
    LET m == Cardinality(Langs) - 1
    IN  Langs # {} => /\ One \in Nat /\ m \in Nat /\ One * One * m \in Nat
                      /\ Root(One * One * m) \in Nat
<1> SUFFICES ASSUME Langs # {}
             PROVE  LET m == Cardinality(Langs) - 1
                    IN  One \in Nat /\ m \in Nat /\ One * One * m \in Nat /\ Root(One * One * m) \in Nat
  OBVIOUS
<1> DEFINE m == Cardinality(Langs) - 1
           x == One * One * m
<1>1. One \in Nat /\ IsFiniteSet(Langs)
  BY RouterAssumption
<1>2. m \in Nat
  BY <1>1, FS_CardinalityType, FS_EmptySet
<1> HIDE DEF m
<1>3. x \in Nat
  BY <1>1, <1>2
<1> HIDE DEF x
<1>4. Root(x) \in Nat
  BY <1>3, RootIs
<1> QED
  BY <1>1, <1>2, <1>3, <1>4 DEF x, m

LEMMA ZScoreWithin ==
    ASSUME NEW C \in SUBSET CreditSet, NEW credits \in Seq(C), NEW key \in KeysOf(credits)
    PROVE  LET m == Root(One * One * (Cardinality(Langs) - 1))
           IN  m \in Nat /\ ZScore(credits, key) \in (-m) .. m
<1> DEFINE S == GroupKeys(credits, key)
           value == [k \in S |-> MeanReward(credits, k)]
           ones == [k \in S |-> 1]
           n == Cardinality(S)
           total == SumOver(value, S)
           d == Deviations(credits, key)
           sq == [k \in S |-> d[k] * d[k]]
           v == SumOver(sq, S)
           x == (One * One * n * sq[key]) \div v
           most == One * One * (Cardinality(Langs) - 1)
<1>1. IsFiniteSet(S) /\ key \in S /\ S \subseteq KeysOf(credits) /\ n <= Cardinality(Langs)
  BY GroupIsFinite
<1>2. Integral(value, S)
  <2>1. RewardsWithin(Min(Rewards), Max(Rewards))
    BY BoundsOfRewards
  <2> DEFINE lo == Min(Rewards)
             hi == Max(Rewards)
  <2>2. RewardsWithin(lo, hi)
    BY <2>1
  <2> HIDE DEF lo, hi
  <2>3. lo \in Int /\ hi \in Int
    BY <2>2 DEF RewardsWithin
  <2>4. ASSUME NEW k \in S PROVE value[k] \in Int
    <3>1. k \in KeysOf(credits)
      BY <1>1
    <3>2. MeanReward(credits, k) \in lo .. hi
      BY <2>2, <3>1, MeanRewardWithin
    <3> QED
      BY <2>3, <3>2
  <2> QED
    BY <1>1, <2>4 DEF Integral
<1>3. d = [k \in S |-> n * value[k] - total]
  BY DEF Deviations, SumOver
<1>4. ZScore(credits, key) = IF d[key] = 0 THEN 0 ELSE IF d[key] > 0 THEN Root(x) ELSE -Root(x)
  BY DEF ZScore, SumOver
<1>5. n \in Nat /\ total \in Int
  BY <1>1, <1>2, FS_CardinalityType, SumType
<1>6. Integral(ones, S) /\ SumOver(ones, S) = n
  BY <1>1, SumOfOnes
<1>7. \A k \in S : sq[k] = d[k] * d[k]
  OBVIOUS
<1>8. Integral(d, S) /\ SumOver(d, S) = 0
  <2>1. \A k \in S : d[k] = n * value[k] - total * ones[k]
    BY <1>2, <1>3, <1>5 DEF Integral
  <2> HIDE DEF d, value, ones, total, n, S
  <2>2. Combines(d, value, ones, n, total, S)
    BY <2>1 DEF Combines
  <2>3. n \in Int /\ total \in Int
    BY <1>5
  <2>4. Integral(d, S) /\ SumOver(d, S) = n * SumOver(value, S) - total * SumOver(ones, S)
    BY <1>2, <1>6, <2>2, <2>3, SumCombine
  <2>5. n * SumOver(value, S) - total * SumOver(ones, S) = n * total - total * n
    BY <1>6 DEF total
  <2>6. n * total - total * n = 0
    BY <2>3
  <2> QED
    BY <2>4, <2>5, <2>6
<1> HIDE DEF S, value, ones, n, total, d, sq, v
<1>9. v \in Nat /\ sq[key] \in Nat /\ sq[key] <= v /\ n \in Nat \ {0} /\ n * sq[key] <= (n - 1) * v
  BY <1>1, <1>7, <1>8, LargestSquare DEF n, v
<1>10. most \in Nat /\ Root(most) \in Nat /\ One \in Nat /\ Cardinality(Langs) - 1 \in Nat
  <2>1. Langs # {}
    <3>1. PICK i \in 1 .. Len(credits) : key = KeyOf(credits[i])
      BY DEF KeysOf
    <3>2. credits[i] \in CreditSet
      BY <3>1
    <3> QED
      BY <3>2 DEF CreditSet
  <2> QED
    BY <2>1, SpreadBound
<1>11. d[key] \in Int
  BY <1>1, <1>8 DEF Integral
<1>12. CASE d[key] = 0
  BY <1>4, <1>10, <1>12
<1>13. CASE d[key] # 0
  <2>1. v \in Nat \ {0}
    <3>1. sq[key] = d[key] * d[key]
      BY <1>1, <1>7
    <3>2. \A e \in Int : e # 0 => e * e # 0
      OBVIOUS
    <3> QED
      BY <1>9, <1>11, <1>13, <3>1, <3>2
  <2> DEFINE w == sq[key]
             oo == One * One
             m == Cardinality(Langs) - 1
  <2>2. oo \in Nat /\ w \in Nat /\ m \in Nat /\ n \in Nat \ {0} /\ n - 1 <= m
    <3>1. Cardinality(Langs) \in Nat
      BY RouterAssumption, FS_CardinalityType
    <3> QED
      BY <1>1, <1>9, <1>10, <3>1, SMTT(40)
  <2>3. n * w <= (n - 1) * v
    BY <1>9
  <2> HIDE DEF w, oo, m
  <2> DEFINE num == oo * n * w
  <2>4. num \in Nat /\ 0 * v <= num /\ num <= (oo * m) * v
    <3> DEFINE nw == n * w
               nv == (n - 1) * v
               mv == m * v
    <3>1. nw \in Nat /\ nv \in Nat /\ mv \in Nat
      BY <2>1, <2>2
    <3>2. nv <= mv
      <4>1. n - 1 \in Int /\ m \in Int /\ v \in Nat
        BY <2>1, <2>2
      <4> QED
        BY <2>2, <4>1, TimesMonotone
    <3>3. num = nw * oo /\ (oo * m) * v = mv * oo
      BY <2>1, <2>2
    <3>4. nw <= mv
      BY <2>3, <3>1, <3>2
    <3> HIDE DEF nw, nv, mv, num
    <3>5. nw * oo <= mv * oo /\ nw * oo \in Nat
      BY <2>2, <3>1, <3>4, TimesMonotone
    <3> QED
      BY <2>1, <3>3, <3>5
  <2>5. num \div v \in 0 .. (oo * m)
    <3>1. oo * m \in Int /\ num \in Int /\ 0 \in Int
      BY <2>2, <2>4
    <3> HIDE DEF num
    <3> QED
      BY <2>1, <2>4, <3>1, QuotientWithin
  <2>6. x = num \div v /\ most = oo * m
    BY DEF oo, w, m
  <2>7. x \in Nat /\ x <= most
    BY <2>2, <2>5, <2>6
  <2> HIDE DEF x, most
  <2>8. Root(x) \in Nat /\ Root(x) <= Root(most)
    BY <1>10, <2>7, RootGrows
  <2> DEFINE r == Root(x)
             t == Root(most)
  <2>9. r \in Nat /\ t \in Nat /\ r <= t
    BY <1>10, <2>8
  <2>10. ZScore(credits, key) \in {r, -r}
    BY <1>4, <1>13
  <2> HIDE DEF r, t
  <2>11. r \in (-t) .. t /\ -r \in (-t) .. t
    BY <2>9
  <2>12. t \in Nat /\ ZScore(credits, key) \in (-t) .. t
    BY <2>9, <2>10, <2>11
  <2> QED
    BY <2>12 DEF t, most
<1> QED
  BY <1>12, <1>13 DEF most

LEMMA CreditWithin ==
    ASSUME NormKnown, NEW C \in SUBSET CreditSet, NEW credits \in Seq(C),
           NEW key \in KeysOf(credits)
    PROVE  CreditBound \in Nat /\ Normalised(credits, key) \in (-CreditBound) .. CreditBound
<1> DEFINE lo == Min(Rewards)
           hi == Max(Rewards)
           mean == MeanReward(credits, key)
           group == GroupMean(credits, key)
<1>1. RewardsWithin(lo, hi)
  BY BoundsOfRewards
<1>2. mean \in lo .. hi /\ group \in lo .. hi
  BY <1>1, MeanRewardWithin, GroupMeanWithin
<1>3. lo \in Int /\ hi \in Int
  BY <1>1 DEF RewardsWithin
<1>4. CASE group_norm = "none"
  <2>1. CreditBound \in Nat /\ RewardsWithin(-CreditBound, CreditBound)
    BY <1>4, BoundsOfRewards
  <2>2. mean \in (-CreditBound) .. CreditBound
    BY <2>1, MeanRewardWithin
  <2> QED
    BY <1>4, <2>1, <2>2 DEF Normalised
<1>5. CASE group_norm = "center"
  <2>1. CreditBound = hi - lo /\ Normalised(credits, key) = mean - group
    BY <1>5 DEF CreditBound, Normalised
  <2> HIDE DEF lo, hi, mean, group
  <2>2. hi - lo \in Nat /\ mean - group \in (-(hi - lo)) .. (hi - lo)
    BY <1>2, <1>3
  <2> QED
    BY <2>1, <2>2
<1>6. CASE group_norm = "zscore"
  <2>1. CreditBound = Root(One * One * (Cardinality(Langs) - 1))
        /\ Normalised(credits, key) = ZScore(credits, key)
    BY <1>6 DEF CreditBound, Normalised
  <2> QED
    BY <2>1, ZScoreWithin
<1> QED
  BY <1>4, <1>5, <1>6 DEF NormKnown
-----------------------------------------------------------------------------
(* The arms stay within the largest credit or their prior. *)

LEMMA CreditBoundType ==
    ASSUME NormKnown, Langs # {}
    PROVE  CreditBound \in Nat
<1>1. RewardsWithin(Min(Rewards), Max(Rewards)) /\ (group_norm = "none" => CreditBound \in Nat)
  BY BoundsOfRewards
<1>2. ASSUME group_norm = "center" PROVE CreditBound \in Nat
  <2> DEFINE lo == Min(Rewards)
             hi == Max(Rewards)
  <2>1. CreditBound = hi - lo
    BY <1>2 DEF CreditBound
  <2>2. PICK r \in Rewards : TRUE
    BY RouterAssumption
  <2>3. lo \in Int /\ hi \in Int /\ r \in Int /\ lo <= r /\ r <= hi
    BY <1>1, RouterAssumption DEF RewardsWithin
  <2> HIDE DEF lo, hi
  <2>4. hi - lo \in Nat
    BY <2>3
  <2> QED
    BY <2>1, <2>4
<1>3. ASSUME group_norm = "zscore" PROVE CreditBound \in Nat
  <2>1. CreditBound = Root(One * One * (Cardinality(Langs) - 1))
    BY <1>3 DEF CreditBound
  <2> QED
    BY <2>1, SpreadBound
<1> QED
  BY <1>1, <1>2, <1>3 DEF NormKnown

ArmBound(k, l) == Max({CreditBound, Prior[k][l], -Prior[k][l]})

LEMMA ArmBoundType ==
    ASSUME NormKnown, NEW k \in Keys, NEW l \in Langs
    PROVE  /\ ArmBound(k, l) \in Nat /\ CreditBound \in 0 .. ArmBound(k, l)
           /\ Prior[k][l] \in Int /\ Prior[k][l] \in (-ArmBound(k, l)) .. ArmBound(k, l)
<1> DEFINE p == Prior[k][l]
           S == {CreditBound, p, -p}
<1>1. p \in Int /\ CreditBound \in Nat
  BY CreditBoundType, RouterAssumption
<1> HIDE DEF p
<1>2. S \in SUBSET Int /\ S # {}
  BY <1>1
<1>3. IsFiniteSet(S)
  <2>1. IsFiniteSet({}) /\ S = (({} \cup {CreditBound}) \cup {p}) \cup {-p}
    BY FS_EmptySet
  <2> HIDE DEF S
  <2>2. IsFiniteSet({} \cup {CreditBound})
    BY <2>1, FS_AddElement
  <2>3. IsFiniteSet(({} \cup {CreditBound}) \cup {p})
    BY <2>2, FS_AddElement
  <2>4. IsFiniteSet((({} \cup {CreditBound}) \cup {p}) \cup {-p})
    BY <2>3, FS_AddElement
  <2> QED
    BY <2>1, <2>4
<1> DEFINE m == Max(S)
<1>4. m \in S /\ \A y \in S : y <= m
  BY <1>2, <1>3, GreatestOf
<1>5. CreditBound <= m /\ p <= m /\ -p <= m /\ m \in Int
  BY <1>2, <1>4
<1> HIDE DEF m
<1>6. m \in Nat /\ CreditBound \in 0 .. m /\ p \in (-m) .. m
  BY <1>1, <1>5
<1> QED
  BY <1>1, <1>6 DEF ArmBound, m, S, p

LEMMA MovedWithin ==
    ASSUME NEW m \in Nat, NEW current \in (-m) .. m, NEW reward \in (-m) .. m
    PROVE  Moved(current, reward) \in (-m) .. m
<1> DEFINE A == AlphaInverse
           x == (A - 1) * current
<1>1. A \in Nat \ {0}
  BY RouterAssumption
<1> HIDE DEF A
<1>2. A - 1 \in Nat /\ current \in Int /\ -m <= current /\ current <= m /\ -m \in Int
  BY <1>1
<1>3. current * (A - 1) <= m * (A - 1) /\ current * (A - 1) \in Int /\ m * (A - 1) \in Int
  BY <1>2, TimesMonotone
<1>4. (-m) * (A - 1) <= current * (A - 1) /\ (-m) * (A - 1) \in Int
  BY <1>2, TimesMonotone
<1>5. x = current * (A - 1) /\ m * A = m * (A - 1) + m /\ (-m) * A = (-m) * (A - 1) - m
  <2>1. A = (A - 1) + 1
    BY <1>1
  <2>2. m * ((A - 1) + 1) = m * (A - 1) + m
    BY <1>2, OneMoreTimes
  <2>3. (-m) * ((A - 1) + 1) = (-m) * (A - 1) + (-m)
    BY <1>2, OneMoreTimes
  <2>4. x = current * (A - 1)
    BY <1>2
  <2> QED
    BY <2>1, <2>2, <2>3, <2>4, <1>4
<1>6. (-m) * A <= x + reward /\ x + reward <= m * A /\ x + reward \in Int
  BY <1>3, <1>4, <1>5
<1> HIDE DEF x
<1>7. (x + reward) \div A \in (-m) .. m
  BY <1>1, <1>2, <1>6, QuotientWithin
<1> QED
  BY <1>7 DEF Moved, x, A

\* An arm that stays within its bound.
WithinBound(v, k, l) == v \in (-ArmBound(k, l)) .. ArmBound(k, l)

BoundedArms ==
    {q \in Arms : /\ \A k \in TopicKeySet : \A l \in Langs : WithinBound(q.topic[k][l], k, l)
                  /\ \A k \in RegionKeySet : \A l \in Langs : WithinBound(q.region[k][l], k, l)}

\* A table of arms with one of them moved.
MovedTable(table, k, l, v) == [table EXCEPT ![k][l] = v]

IsMoved(new, K, table, k, l, v) ==
    /\ new \in [K -> [Langs -> Int]]
    /\ \A j \in K : \A i \in Langs : new[j][i] = IF j = k /\ i = l THEN v ELSE table[j][i]

LEMMA TableMoved ==
    ASSUME NEW K, NEW table \in [K -> [Langs -> Int]], NEW k \in K, NEW l \in Langs, NEW v \in Int
    PROVE  IsMoved(MovedTable(table, k, l, v), K, table, k, l, v)
BY DEF MovedTable, IsMoved

LEMMA UpdateStaysBounded ==
    ASSUME NormKnown, NEW C \in SUBSET CreditSet, NEW credits \in Seq(C),
           NEW key \in KeysOf(credits), NEW q \in BoundedArms
    PROVE  UpdateArms(q, key, Normalised(credits, key)) \in BoundedArms
<1> DEFINE r == Normalised(credits, key)
           t == key.topic
           g == key.region
           a == key.arm
           vt == Moved(q.topic[t][a], r)
           vg == Moved(q.region[g][a], r)
           topic == MovedTable(q.topic, t, a, vt)
           region == MovedTable(q.region, g, a, vg)
<1>1. t \in TopicKeySet /\ g \in RegionKeySet /\ a \in Langs
  <2>1. PICK i \in 1 .. Len(credits) : key = KeyOf(credits[i])
    BY DEF KeysOf
  <2>2. credits[i] \in CreditSet
    BY <2>1
  <2> QED
    BY <2>1, <2>2 DEF KeyOf, CreditSet
<1>2. q \in Arms /\ q.topic \in [TopicKeySet -> [Langs -> Int]] /\ q.region \in [RegionKeySet -> [Langs -> Int]]
  BY DEF BoundedArms, Arms
<1>3. CreditBound \in Nat /\ r \in (-CreditBound) .. CreditBound
  BY CreditWithin
<1>4. ASSUME NEW k \in Keys, NEW l \in Langs, NEW v, WithinBound(v, k, l)
      PROVE  WithinBound(Moved(v, r), k, l) /\ Moved(v, r) \in Int
  <2> DEFINE m == ArmBound(k, l)
  <2>1. m \in Nat /\ CreditBound \in 0 .. m
    BY ArmBoundType
  <2>2. v \in (-m) .. m
    BY <1>4 DEF WithinBound
  <2> HIDE DEF m, r
  <2>3. r \in (-m) .. m
    BY <1>3, <2>1
  <2>4. Moved(v, r) \in (-m) .. m
    BY <2>1, <2>2, <2>3, MovedWithin
  <2> QED
    BY <2>1, <2>4 DEF WithinBound, m
<1>5. t \in Keys /\ g \in Keys
  BY <1>1 DEF Keys, TopicKeySet, RegionKeySet
<1>6. /\ \A k \in TopicKeySet : \A l \in Langs : WithinBound(q.topic[k][l], k, l)
      /\ \A k \in RegionKeySet : \A l \in Langs : WithinBound(q.region[k][l], k, l)
  BY DEF BoundedArms
<1>7. WithinBound(vt, t, a) /\ vt \in Int /\ WithinBound(vg, g, a) /\ vg \in Int
  BY <1>1, <1>4, <1>5, <1>6
<1>8. UpdateArms(q, key, r) = [topic |-> topic, region |-> IF t = Regional THEN region ELSE q.region]
  BY <1>2 DEF UpdateArms, MovedTable
<1> HIDE DEF vt, vg, r, t, g, a
<1>9. /\ topic \in [TopicKeySet -> [Langs -> Int]]
      /\ \A k \in TopicKeySet : \A l \in Langs : topic[k][l] = IF k = t /\ l = a THEN vt ELSE q.topic[k][l]
  <2>1. IsMoved(topic, TopicKeySet, q.topic, t, a, vt)
    BY <1>1, <1>2, <1>7, TableMoved
  <2> HIDE DEF topic
  <2> QED
    BY <2>1 DEF IsMoved
<1>10. /\ region \in [RegionKeySet -> [Langs -> Int]]
       /\ \A k \in RegionKeySet : \A l \in Langs :
            region[k][l] = IF k = g /\ l = a THEN vg ELSE q.region[k][l]
  <2>1. IsMoved(region, RegionKeySet, q.region, g, a, vg)
    BY <1>1, <1>2, <1>7, TableMoved
  <2> HIDE DEF region
  <2> QED
    BY <2>1 DEF IsMoved
<1> HIDE DEF topic, region
<1>11. \A k \in TopicKeySet : \A l \in Langs : WithinBound(topic[k][l], k, l)
  BY <1>6, <1>7, <1>9
<1>12. \A k \in RegionKeySet : \A l \in Langs : WithinBound(region[k][l], k, l)
  BY <1>6, <1>7, <1>10
<1> DEFINE other == IF t = Regional THEN region ELSE q.region
           u == [topic |-> topic, region |-> other]
<1>13. other \in [RegionKeySet -> [Langs -> Int]]
       /\ \A k \in RegionKeySet : \A l \in Langs : WithinBound(other[k][l], k, l)
  BY <1>2, <1>6, <1>10, <1>12
<1> HIDE DEF other
<1>14. u \in Arms /\ u.topic = topic /\ u.region = other
  BY <1>9, <1>13 DEF Arms
<1> HIDE DEF u
<1>15. u \in BoundedArms
  BY <1>11, <1>13, <1>14 DEF BoundedArms
<1> QED
  BY <1>8, <1>15 DEF u, r, other
-----------------------------------------------------------------------------
(* The reward step. *)

CreditedBuffer == lang_policy => \A i \in 1 .. Len(buffer) : IsCredited(buffer[i])

\* An entry is of a row that waits: in the buffer already or in the batch.
IsOf(e, w) == w.arm = e.arm /\ w.topics = e.topics /\ w.regions = e.regions

\* The entries a reward step has when its batch is added to the buffer.
StepEntries(entries) ==
    /\ Len(entries) \in Nat
    /\ \A i \in 1 .. Len(entries) : IsCredited(entries[i]) /\ \E w \in Waiting : IsOf(entries[i], w)

\* What the step makes of them.
StepMoves(entries) ==
    /\ buffer' = IF FlushDue(lang_policy_step') THEN <<>> ELSE entries
    /\ topic_q' = IF FlushDue(lang_policy_step') THEN Flushed(entries).topic ELSE topic_q
    /\ region_q' = IF FlushDue(lang_policy_step') THEN Flushed(entries).region ELSE region_q

LEMMA RowsAreLists ==
    ASSUME NEW w \in RoutedRows
    PROVE  w.topics \in Seq(Topics) /\ w.regions \in Seq(Regions)
<1>1. PICK r \in Rows : w.topics = r.topics /\ w.regions = r.regions
  BY DEF RoutedRows, RowInLang
<1> QED
  BY <1>1, RouterAssumption

LEMMA RewardEntries ==
    ASSUME RouterInv, CreditedBuffer, RewardBatch, lang_policy
    PROVE  \E entries : StepEntries(entries) /\ StepMoves(entries)
<1> DEFINE routed == {i \in 1 .. Len(batch) : batch[i].arm # NoArm}
           n      == Cardinality(routed)
           Whole(order, reward) == buffer \o [i \in 1 .. n |-> Entry(batch[order[i]], reward[i])]
<1>1. PICK order \in Bijection(1 .. n, routed), reward \in [1 .. n -> Rewards] :
        StepMoves(Whole(order, reward))
  BY DEF RewardBatch, StepMoves
<1> DEFINE added == [i \in 1 .. n |-> Entry(batch[order[i]], reward[i])]
<1>2. PICK b \in Batches : \E lang \in Languages(b) : batch = Routed(b, lang)
  BY DEF RewardBatch, RouterInv
<1>3. Len(batch) = Len(b) /\ \A i \in 1 .. Len(b) : batch[i] \in RoutedRows
  BY <1>2, RoutedFacts
<1>4. DOMAIN batch = 1 .. Len(batch) /\ Len(b) \in Nat
  BY <1>2, <1>3, BatchFacts DEF Routed
<1>5. n \in Nat
  <2>1. IsFiniteSet(1 .. Len(b))
    BY <1>4, LastPlaces
  <2> QED
    BY <1>3, <2>1, FS_Subset, FS_CardinalityType
<1>6. \A i \in 1 .. n : order[i] \in routed
  BY DEF Bijection, Surjection
<1>7. ASSUME NEW i \in 1 .. n
      PROVE  IsCredited(added[i]) /\ \E w \in Waiting : IsOf(added[i], w)
  <2> DEFINE w == batch[order[i]]
  <2>1. order[i] \in 1 .. Len(batch) /\ w.arm # NoArm /\ w \in RoutedRows
    BY <1>3, <1>6
  <2>2. w \in Waiting
    BY <1>4, <2>1 DEF Waiting, ToSet
  <2>3. w.arm \in Langs /\ w.topics \in Seq(Topics) /\ w.regions \in Seq(Regions)
    BY <2>1, RowsAreLists DEF RoutedRows, RowInLang
  <2>4. added[i] = Entry(w, reward[i]) /\ reward[i] \in Rewards
    OBVIOUS
  <2> HIDE DEF w, added
  <2> DEFINE e == added[i]
  <2>5. /\ e.arm = w.arm /\ e.topics = w.topics /\ e.regions = w.regions /\ e.reward \in Rewards
    BY <2>4 DEF Entry
  <2> HIDE DEF e
  <2>6. IsCredited(e) /\ IsOf(e, w)
    BY <2>3, <2>5 DEF IsCredited, IsOf
  <2> QED
    BY <2>2, <2>6 DEF e
<1>8. buffer \in Seq(Entries) /\ Len(buffer) \in Nat
  BY DEF RouterInv
<1>9. ASSUME NEW i \in 1 .. Len(buffer)
      PROVE  IsCredited(buffer[i]) /\ \E w \in Waiting : IsOf(buffer[i], w)
  <2>1. IsCredited(buffer[i])
    BY DEF CreditedBuffer
  <2>2. buffer[i] \in Waiting
    BY <1>8 DEF Waiting, ToSet
  <2>3. IsOf(buffer[i], buffer[i])
    BY DEF IsOf
  <2> QED
    BY <2>1, <2>2, <2>3
<1> HIDE DEF n, routed
<1>10. added \in Seq(Entries) /\ Len(added) = n
  <2>1. ASSUME NEW i \in 1 .. n PROVE Entry(batch[order[i]], reward[i]) \in Entries
    <3>1. order[i] \in 1 .. Len(batch)
      BY <1>6 DEF routed
    <3>2. batch[order[i]] \in RoutedRows /\ reward[i] \in Rewards
      BY <1>3, <3>1
    <3> QED
      BY <3>2 DEF Entries
  <2> QED
    BY <1>5, <2>1
<1> DEFINE entries == buffer \o added
<1>11. /\ Len(entries) = Len(buffer) + n
       /\ \A i \in 1 .. Len(buffer) + n :
            entries[i] = IF i <= Len(buffer) THEN buffer[i] ELSE added[i - Len(buffer)]
  BY <1>8, <1>10, ConcatProperties, ZenonT(30)
<1>12. entries = Whole(order, reward)
  OBVIOUS
<1> HIDE DEF entries, added, Whole
<1>13. ASSUME NEW i \in 1 .. Len(entries)
       PROVE  IsCredited(entries[i]) /\ \E w \in Waiting : IsOf(entries[i], w)
  <2>1. CASE i <= Len(buffer)
    <3>1. i \in 1 .. Len(buffer) /\ entries[i] = buffer[i]
      BY <1>5, <1>8, <1>11, <2>1
    <3> QED
      BY <1>9, <3>1
  <2>2. CASE ~ (i <= Len(buffer))
    <3>1. i - Len(buffer) \in 1 .. n /\ entries[i] = added[i - Len(buffer)]
      BY <1>5, <1>8, <1>11, <2>2
    <3> QED
      BY <1>7, <3>1
  <2> QED
    BY <2>1, <2>2
<1>14. Len(entries) \in Nat
  BY <1>5, <1>8, <1>11
<1>15. StepEntries(entries)
  BY <1>13, <1>14 DEF StepEntries
<1> QED
  BY <1>1, <1>12, <1>15

ArmsNow == [topic |-> topic_q, region |-> region_q]

LEMMA FlushedIs ==
    ASSUME NEW entries
    PROVE  Flushed(entries) = FlushedFrom(AggKeys(Credits(entries)), Credits(entries), ArmsNow)
BY DEF Flushed, FlushedFrom, Credits, ArmsNow

\* Whatever every key of the entries keeps, an update keeps.
LEMMA UpdateStays ==
    ASSUME NEW entries, StepEntries(entries), NEW V, ArmsNow \in V,
           \A key \in KeysOf(Credits(entries)) : \A q \in V :
             UpdateArms(q, key, Normalised(Credits(entries), key)) \in V
    PROVE  Flushed(entries) \in V
<1> DEFINE credits == Credits(entries)
           keys == AggKeys(credits)
           C == CreditsWithin(entries)
<1>1. credits \in Seq(C)
  BY CreditsType DEF StepEntries
<1>4. \A key \in KeysOf(credits) : \A q \in V : UpdateArms(q, key, Normalised(credits, key)) \in V
  OBVIOUS
<1>5. Flushed(entries) = FlushedFrom(keys, credits, ArmsNow)
  BY FlushedIs
<1> HIDE DEF credits, C
<1>2. keys \in Seq(KeysOf(credits))
  BY <1>1, AggKeysComplete
<1> HIDE DEF keys
<1>3. StaysIn(V, keys, credits)
  <2>1. \A i \in 1 .. Len(keys) : keys[i] \in KeysOf(credits)
    BY <1>2
  <2> QED
    BY <1>4, <2>1 DEF StaysIn
<1> QED
  BY <1>2, <1>3, <1>5, FlushedStays
-----------------------------------------------------------------------------
(* The arms over a run. *)

\* The arms stay within their bounds, and what is added to them waits.
ArmsInv == NormKnown /\ ArmsNow \in BoundedArms /\ CreditedBuffer

PriorArms == [topic |-> [k \in TopicKeySet |-> Prior[k]], region |-> [k \in RegionKeySet |-> Prior[k]]]

LEMMA PriorBounded ==
    ASSUME NormKnown
    PROVE  PriorArms \in BoundedArms
<1>1. \A k \in Keys : \A l \in Langs : WithinBound(Prior[k][l], k, l)
  BY ArmBoundType DEF WithinBound
<1>2. TopicKeySet \subseteq Keys /\ RegionKeySet \subseteq Keys
  BY DEF Keys, TopicKeySet, RegionKeySet
<1>3. Prior \in [Keys -> [Langs -> Int]]
  BY RouterAssumption
<1>4. PriorArms \in Arms
  BY <1>2, <1>3 DEF PriorArms, Arms
<1> QED
  BY <1>1, <1>2, <1>4 DEF PriorArms, BoundedArms

LEMMA InitArms ==
    ASSUME Init
    PROVE  ArmsInv
<1>1. ArmsNow = PriorArms
  BY DEF Init, ArmsNow, PriorArms, TopicKeySet, RegionKeySet
<1>2. CreditedBuffer
  BY DEF Init, CreditedBuffer
<1>3. NormKnown
  BY RouterAssumption DEF Init, NormKnown
<1> QED
  BY <1>1, <1>2, <1>3, PriorBounded DEF ArmsInv

LEMMA RewardArms ==
    ASSUME RouterInv, ArmsInv, RewardBatch
    PROVE  ArmsInv'
<1>0. group_norm' = group_norm /\ NormKnown /\ NormKnown' /\ BoundedArms' = BoundedArms
  <2>1. group_norm' = group_norm /\ NormKnown
    BY DEF RewardBatch, ArmsInv
  <2>2. BoundedArms' = BoundedArms
    BY <2>1 DEF BoundedArms, Arms, WithinBound, ArmBound, CreditBound
  <2> QED
    BY <2>1, <2>2 DEF NormKnown
<1>1. CASE ~ lang_policy
  BY <1>0, <1>1 DEF RewardBatch, router, ArmsInv, ArmsNow, CreditedBuffer
<1>2. CASE lang_policy
  <2>1. PICK entries : StepEntries(entries) /\ StepMoves(entries)
    BY <1>2, RewardEntries DEF ArmsInv
  <2> DEFINE C == CreditsWithin(entries)
             credits == Credits(entries)
  <2>2. C \in SUBSET CreditSet /\ credits \in Seq(C)
    <3>1. credits \in Seq(C)
      BY <2>1, CreditsType DEF StepEntries
    <3> QED
      BY <3>1 DEF CreditsWithin
  <2> HIDE DEF C, credits
  <2>3. \A key \in KeysOf(credits) : \A q \in BoundedArms :
          UpdateArms(q, key, Normalised(credits, key)) \in BoundedArms
    BY <1>0, <2>2, UpdateStaysBounded
  <2>4. Flushed(entries) \in BoundedArms
    BY <2>1, <2>3, UpdateStays DEF ArmsInv, credits
  <2>5. ArmsNow' = IF FlushDue(lang_policy_step')
                   THEN [topic |-> Flushed(entries).topic, region |-> Flushed(entries).region] ELSE ArmsNow
    BY <2>1 DEF StepMoves, ArmsNow
  <2> DEFINE f == Flushed(entries)
  <2>6. f = [topic |-> f.topic, region |-> f.region]
    <3> HIDE DEF f
    <3>1. f \in BoundedArms => f \in Arms
      BY DEF BoundedArms
    <3>2. f \in Arms
      BY <2>4, <3>1 DEF f
    <3> QED
      BY <3>2 DEF Arms
  <2>7. ArmsNow' \in BoundedArms
    BY <2>4, <2>5, <2>6 DEF ArmsInv
  <2>8. BoundedArms' = BoundedArms /\ NormKnown'
    BY <1>0
  <2>9. CreditedBuffer'
    <3>1. buffer' = IF FlushDue(lang_policy_step') THEN <<>> ELSE entries
      BY <2>1 DEF StepMoves
    <3> QED
      BY <2>1, <3>1 DEF StepEntries, CreditedBuffer
  <2> QED
    BY <2>7, <2>8, <2>9 DEF ArmsInv
<1> QED
  BY <1>1, <1>2 DEF RouterInv

LEMMA NextArms ==
    ASSUME RouterInv, ArmsInv, [Next]_vars
    PROVE  ArmsInv'
<1>1. CASE RewardBatch
  BY <1>1, RewardArms
<1>2. CASE Restart
  <2>1. ArmsNow' = PriorArms /\ CreditedBuffer'
    BY <1>2 DEF Restart, ArmsNow, PriorArms, CreditedBuffer, TopicKeySet, RegionKeySet
  <2>2. group_norm' = group_norm /\ NormKnown
    BY <1>2 DEF Restart, ArmsInv
  <2>3. BoundedArms' = BoundedArms /\ NormKnown'
    BY <2>2 DEF BoundedArms, Arms, WithinBound, ArmBound, CreditBound, NormKnown
  <2> QED
    BY <2>1, <2>2, <2>3, PriorBounded DEF ArmsInv
<1>3. CASE ~ RewardBatch /\ ~ Restart
  <2>1. UNCHANGED <<lang_policy, group_norm, buffer, topic_q, region_q>>
    BY <1>3 DEF Next, RouteBatch, RouteRaises, Validate, vars, router
  <2>2. BoundedArms' = BoundedArms /\ (NormKnown' <=> NormKnown)
    BY <2>1 DEF BoundedArms, Arms, WithinBound, ArmBound, CreditBound, NormKnown
  <2> QED
    BY <2>1, <2>2 DEF ArmsInv, ArmsNow, CreditedBuffer
<1> QED
  BY <1>1, <1>2, <1>3

\* However often the router is updated and however many regions credit one topic, no arm
\* leaves the range of its prior and of the largest credit, for every prior, learning
\* rate, normalisation and set of languages (LangBanditPolicy.update, lang_policy.py:147;
\* _update_lang_policy, ray_trainer.py:658).
THEOREM ArmsStayBounded == Spec => []ArmsBounded
<1>1. Init => RouterInv /\ ArmsInv
  BY InitRouter, InitArms
<1>2. RouterInv /\ ArmsInv /\ [Next]_vars => (RouterInv /\ ArmsInv)'
  BY NextRouter, NextArms
<1>3. ArmsInv => ArmsBounded
  <2> SUFFICES ASSUME ArmsInv PROVE ArmsBounded
    OBVIOUS
  <2>1. /\ \A k \in TopicKeySet : \A l \in Langs : WithinBound(topic_q[k][l], k, l)
        /\ \A k \in RegionKeySet : \A l \in Langs : WithinBound(region_q[k][l], k, l)
    BY DEF ArmsInv, ArmsNow, BoundedArms
  <2> QED
    BY <2>1 DEF ArmsBounded, WithinBound, ArmBound, TopicKeySet, RegionKeySet
<1> QED
  BY <1>1, <1>2, <1>3, PTL DEF Spec
-----------------------------------------------------------------------------
(* Which arms an update moves. *)

TopicDue(k, l) == \E w \in Waiting : w.arm = l /\ k \in ToSet(NormalizeKey(w.topics))
RegionDue(k, l) ==
    \E w \in Waiting : w.arm = l /\ Regional \in ToSet(w.topics) /\ k \in ToSet(NormalizeKey(w.regions))

\* Arms that differ from those before the update only where a waiting row is credited.
DueArms ==
    {q \in Arms : /\ \A k \in TopicKeySet : \A l \in Langs : q.topic[k][l] # topic_q[k][l] => TopicDue(k, l)
                  /\ \A k \in RegionKeySet : \A l \in Langs :
                       q.region[k][l] # region_q[k][l] => RegionDue(k, l)}

LEMMA KeyIsDue ==
    ASSUME NEW entries, StepEntries(entries), NEW key \in KeysOf(Credits(entries))
    PROVE  /\ key.topic \in TopicKeySet /\ key.region \in RegionKeySet /\ key.arm \in Langs
           /\ TopicDue(key.topic, key.arm)
           /\ key.topic = Regional => RegionDue(key.region, key.arm)
<1> DEFINE credits == Credits(entries)
           C == CreditsWithin(entries)
<1>1. credits \in Seq(C)
  BY CreditsType DEF StepEntries
<1>2. PICK j \in 1 .. Len(credits) : key = KeyOf(credits[j])
  BY DEF KeysOf
<1> DEFINE c == credits[j]
<1>3. c \in C /\ key = KeyOf(c)
  <2> HIDE DEF C, credits
  <2> QED
    BY <1>1, <1>2
<1> HIDE DEF c
<1>4. PICK i \in 1 .. Len(entries) : IsCreditOf(c, entries[i])
  BY <1>3 DEF CreditsWithin
<1>5. PICK w \in Waiting : IsOf(entries[i], w)
  BY DEF StepEntries
<1>6. /\ c \in CreditSet /\ c.arm = w.arm /\ c.topic \in ToSet(NormalizeKey(w.topics))
      /\ c.region \in ToSet(NormalizeKey(w.regions))
  BY <1>4, <1>5 DEF IsCreditOf, IsOf
<1>7. key.topic = c.topic /\ key.region = c.region /\ key.arm = c.arm
  BY <1>3 DEF KeyOf
<1>8. c.topic \in TopicKeySet /\ c.region \in RegionKeySet /\ c.arm \in Langs
  BY <1>6 DEF CreditSet
<1>9. ASSUME c.topic = Regional PROVE Regional \in ToSet(w.topics)
  <2>1. Regional # None
    BY RouterAssumption
  <2>2. NormalizeKey(w.topics) = <<None>> \/ NormalizeKey(w.topics) = w.topics
    BY DEF NormalizeKey
  <2>3. ~ (Regional \in ToSet(<<None>>))
    BY <2>1 DEF ToSet
  <2> QED
    BY <1>6, <1>9, <2>2, <2>3
<1> QED
  BY <1>5, <1>6, <1>7, <1>8, <1>9 DEF TopicDue, RegionDue

LEMMA UpdateStaysDue ==
    ASSUME NormKnown, NEW entries, StepEntries(entries),
           NEW key \in KeysOf(Credits(entries)), NEW q \in DueArms
    PROVE  UpdateArms(q, key, Normalised(Credits(entries), key)) \in DueArms
<1> DEFINE r == Normalised(Credits(entries), key)
           t == key.topic
           g == key.region
           a == key.arm
           vt == Moved(q.topic[t][a], r)
           vg == Moved(q.region[g][a], r)
           topic == MovedTable(q.topic, t, a, vt)
           region == MovedTable(q.region, g, a, vg)
<1>1. t \in TopicKeySet /\ g \in RegionKeySet /\ a \in Langs /\ TopicDue(t, a)
      /\ (t = Regional => RegionDue(g, a))
  BY KeyIsDue
<1>2. q \in Arms /\ q.topic \in [TopicKeySet -> [Langs -> Int]] /\ q.region \in [RegionKeySet -> [Langs -> Int]]
  BY DEF DueArms, Arms
<1>3. r \in Int
  <2> DEFINE C == CreditsWithin(entries)
             credits == Credits(entries)
  <2>1. C \in SUBSET CreditSet /\ credits \in Seq(C)
    <3>1. credits \in Seq(C)
      BY CreditsType DEF StepEntries
    <3> QED
      BY <3>1 DEF CreditsWithin
  <2>2. key \in KeysOf(credits)
    OBVIOUS
  <2>3. CreditBound \in Nat /\ Normalised(credits, key) \in (-CreditBound) .. CreditBound
    <3> HIDE DEF C, credits
    <3> QED
      BY <2>1, <2>2, CreditWithin
  <2> QED
    BY <2>3
<1>4. ASSUME NEW v \in Int PROVE Moved(v, r) \in Int
  <2> DEFINE A == AlphaInverse
             x == (A - 1) * v
  <2>1. A \in Nat \ {0}
    BY RouterAssumption
  <2> HIDE DEF A, r
  <2>2. A - 1 \in Int
    BY <2>1
  <2>3. x \in Int
    BY <2>2
  <2> HIDE DEF x
  <2>4. (x + r) \div A \in Int
    BY <1>3, <2>1, <2>3
  <2> QED
    BY <2>4 DEF Moved, x, A
<1>5. vt \in Int /\ vg \in Int
  BY <1>1, <1>2, <1>4
<1>6. UpdateArms(q, key, r) = [topic |-> topic, region |-> IF t = Regional THEN region ELSE q.region]
  BY <1>2 DEF UpdateArms, MovedTable
<1> HIDE DEF vt, vg, r, t, g, a
<1>7. /\ topic \in [TopicKeySet -> [Langs -> Int]]
      /\ \A k \in TopicKeySet : \A l \in Langs : topic[k][l] = IF k = t /\ l = a THEN vt ELSE q.topic[k][l]
  <2>1. IsMoved(topic, TopicKeySet, q.topic, t, a, vt)
    BY <1>1, <1>2, <1>5, TableMoved
  <2> HIDE DEF topic
  <2> QED
    BY <2>1 DEF IsMoved
<1>8. /\ region \in [RegionKeySet -> [Langs -> Int]]
      /\ \A k \in RegionKeySet : \A l \in Langs :
           region[k][l] = IF k = g /\ l = a THEN vg ELSE q.region[k][l]
  <2>1. IsMoved(region, RegionKeySet, q.region, g, a, vg)
    BY <1>1, <1>2, <1>5, TableMoved
  <2> HIDE DEF region
  <2> QED
    BY <2>1 DEF IsMoved
<1> DEFINE other == IF t = Regional THEN region ELSE q.region
           u == [topic |-> topic, region |-> other]
<1> HIDE DEF topic, region
<1>9. /\ \A k \in TopicKeySet : \A l \in Langs : q.topic[k][l] # topic_q[k][l] => TopicDue(k, l)
      /\ \A k \in RegionKeySet : \A l \in Langs : q.region[k][l] # region_q[k][l] => RegionDue(k, l)
  BY DEF DueArms
<1>10. \A k \in TopicKeySet : \A l \in Langs : topic[k][l] # topic_q[k][l] => TopicDue(k, l)
  BY <1>1, <1>7, <1>9
<1>11. /\ other \in [RegionKeySet -> [Langs -> Int]]
       /\ \A k \in RegionKeySet : \A l \in Langs : other[k][l] # region_q[k][l] => RegionDue(k, l)
  <2>1. CASE t = Regional
    BY <1>1, <1>8, <1>9, <2>1
  <2>2. CASE t # Regional
    BY <1>2, <1>9, <2>2
  <2> QED
    BY <2>1, <2>2
<1> HIDE DEF other
<1>12. u \in Arms /\ u.topic = topic /\ u.region = other
  BY <1>7, <1>11 DEF Arms
<1> HIDE DEF u
<1>13. u \in DueArms
  BY <1>10, <1>11, <1>12 DEF DueArms
<1> QED
  BY <1>6, <1>13 DEF u, r, other

\* An update moves an arm only for rollouts in its language about its topic, and a
\* region's arm only for regional knowledge about that region, whatever else is in the
\* buffer with them (_update_lang_policy, ray_trainer.py:658;
\* LangBanditPolicy.update, lang_policy.py:147).
THEOREM CreditIsDue == Spec => CreditWhereDue
<1> DEFINE Due ==
             Updating =>
               /\ \A k \in Topics \cup {None}, l \in Langs : topic_q'[k][l] # topic_q[k][l] =>
                     \E w \in Waiting : w.arm = l /\ k \in ToSet(NormalizeKey(w.topics))
               /\ \A k \in Regions \cup {None}, l \in Langs : region_q'[k][l] # region_q[k][l] =>
                     \E w \in Waiting : /\ w.arm = l /\ Regional \in ToSet(w.topics)
                                        /\ k \in ToSet(NormalizeKey(w.regions))
<1>1. Init => RouterInv /\ ArmsInv
  BY InitRouter, InitArms
<1>2. RouterInv /\ ArmsInv /\ [Next]_vars => (RouterInv /\ ArmsInv)'
  BY NextRouter, NextArms
<1>3. ASSUME RouterInv, ArmsInv, [Next]_vars PROVE Due
  <2> SUFFICES ASSUME Updating PROVE Due
    OBVIOUS
  <2>1. CASE RewardBatch /\ lang_policy
    <3>1. PICK entries : StepEntries(entries) /\ StepMoves(entries)
      BY <1>3, <2>1, RewardEntries DEF ArmsInv
    <3>2. ArmsNow \in DueArms
      <4>1. ArmsNow \in Arms
        BY <1>3 DEF ArmsInv, BoundedArms
      <4> QED
        BY <4>1 DEF DueArms, ArmsNow
    <3>3. \A key \in KeysOf(Credits(entries)) : \A q \in DueArms :
            UpdateArms(q, key, Normalised(Credits(entries), key)) \in DueArms
      BY <1>3, <3>1, UpdateStaysDue DEF ArmsInv
    <3>4. Flushed(entries) \in DueArms
      BY <3>1, <3>2, <3>3, UpdateStays
    <3>5. PICK q \in DueArms : topic_q' = q.topic /\ region_q' = q.region
      <4>1. CASE FlushDue(lang_policy_step')
        BY <3>1, <3>4, <4>1 DEF StepMoves
      <4>2. CASE ~ FlushDue(lang_policy_step')
        <5>1. topic_q' = ArmsNow.topic /\ region_q' = ArmsNow.region
          BY <3>1, <4>2 DEF StepMoves, ArmsNow
        <5> QED
          BY <3>2, <5>1
      <4> QED
        BY <4>1, <4>2
    <3> QED
      BY <3>5 DEF DueArms, TopicDue, RegionDue, TopicKeySet, RegionKeySet
  <2>2. CASE ~ (RewardBatch /\ lang_policy)
    <3>1. lang_policy_step' = lang_policy_step \/ lang_policy_step' = 0
      BY <1>3, <2>2 DEF Next, RouteBatch, RouteRaises, Validate, RewardBatch, Restart, vars, router
    <3>2. lang_policy_step \in Nat
      BY <1>3 DEF RouterInv
    <3> QED
      BY <3>1, <3>2 DEF Updating
  <2> QED
    BY <2>1, <2>2
<1>4. RouterInv /\ ArmsInv /\ [Next]_vars => [Due]_vars
  BY <1>3
<1> QED
  BY <1>1, <1>2, <1>4, PTL DEF Spec, CreditWhereDue

-----------------------------------------------------------------------------
(* The schedules of temperature and epsilon. *)

LEMMA PowerType ==
    ASSUME NEW d \in {TemperatureDivisor, EpsilonDivisor}, NEW k \in 0 .. MaxSteps
    PROVE  d ^ k \in Nat \ {0}
<1> DEFINE G == {n \in Nat : n <= MaxSteps => d ^ n \in Nat \ {0}}
<1>1. d \in Nat \ {0} /\ MaxSteps \in Nat
  BY RouterAssumption
<1>2. 0 \in G
  BY <1>1, PowersAssumption
<1>3. ASSUME NEW n \in Nat, n \in G PROVE n + 1 \in G
  <2> SUFFICES ASSUME n + 1 <= MaxSteps PROVE d ^ (n + 1) \in Nat \ {0}
    OBVIOUS
  <2>1. n \in 0 .. MaxSteps
    BY <1>1
  <2>2. d ^ n \in Nat \ {0} /\ d ^ (n + 1) = d * (d ^ n)
    <3>1. d ^ n \in Nat \ {0}
      BY <1>1, <1>3, <2>1
    <3>2. d ^ (n + 1) = d * (d ^ n)
      BY <2>1, PowersAssumption
    <3> QED
      BY <3>1, <3>2
  <2> DEFINE p == d ^ n
  <2>3. p \in Nat \ {0} /\ d ^ (n + 1) = d * p
    BY <2>2
  <2> HIDE DEF p
  <2>4. d * p \in Nat \ {0}
    BY <1>1, <2>3
  <2> QED
    BY <2>3, <2>4
<1> HIDE DEF G
<1>4. \A n \in Nat : n \in G
  BY <1>2, <1>3, SetInduction
<1> QED
  BY <1>1, <1>4 DEF G

LEMMA LargerDivisor ==
    ASSUME NEW v \in Nat, NEW p \in Nat \ {0}, NEW d \in Nat \ {0}
    PROVE  /\ v \div p \in Nat /\ v \div (d * p) \in Nat
           /\ v \div (d * p) <= v \div p
<1> DEFINE m == d * p
           q == v \div m
           r == v \div p
<1>1. m \in Nat \ {0}
  OBVIOUS
<1> HIDE DEF m
<1>2. q \in Nat /\ m * q <= v
  BY <1>1
<1>3. r \in Nat /\ v < p * r + p
  OBVIOUS
<1> HIDE DEF q, r
<1>4. p * q <= m * q
  <2>1. p * q \in Nat /\ d - 1 \in Nat
    BY <1>2
  <2>2. m * q = d * (p * q)
    BY <1>2 DEF m
  <2> DEFINE x == p * q
             e == d - 1
  <2>3. x \in Nat /\ e \in Nat /\ d = e + 1
    BY <2>1
  <2> HIDE DEF x, e
  <2>4. e * x \in Nat /\ (e + 1) * x = e * x + x
    BY <2>3
  <2>5. x <= d * x
    BY <2>3, <2>4
  <2> QED
    BY <2>2, <2>5 DEF x
<1>5. p * q < p * r + p
  <2>1. p * q \in Nat /\ m * q \in Nat /\ p * r \in Nat
    BY <1>1, <1>2, <1>3
  <2> QED
    BY <1>2, <1>3, <1>4, <2>1
<1>6. q <= r
  <2> SUFFICES ASSUME r + 1 <= q PROVE FALSE
    BY <1>2, <1>3
  <2>1. (r + 1) * p <= q * p
    BY <1>2, <1>3, TimesMonotone
  <2>2. (r + 1) * p = p * r + p /\ q * p = p * q
    BY <1>2, <1>3
  <2>3. p * q \in Nat /\ p * r \in Nat
    BY <1>2, <1>3
  <2> QED
    BY <1>5, <2>1, <2>2, <2>3
<1>7. r \in Nat /\ q \in Nat
  BY <1>2, <1>3
<1> QED
  BY <1>6, <1>7 DEF q, r, m

LEMMA AnnealedFalls ==
    ASSUME NEW d \in {TemperatureDivisor, EpsilonDivisor}, NEW init \in Nat, NEW min \in Nat,
           NEW k \in 0 .. MaxSteps, k > 0
    PROVE  Annealed(init, min, d, k) <= Annealed(init, min, d, k - 1)
<1> DEFINE p == d ^ (k - 1)
<1>1. k - 1 \in 0 .. MaxSteps /\ MaxSteps \in Nat /\ d \in Nat \ {0}
  BY RouterAssumption
<1>2. p \in Nat \ {0}
  BY <1>1, PowerType
<1>3. d ^ k = d * p
  <2>1. k = (k - 1) + 1
    BY <1>1
  <2>2. d ^ ((k - 1) + 1) = d * (d ^ (k - 1))
    BY <1>1, PowersAssumption
  <2> QED
    BY <2>1, <2>2
<1>4. Annealed(init, min, d, k) = (IF init \div (d * p) < min THEN min ELSE init \div (d * p))
  BY <1>3 DEF Annealed
<1>5. Annealed(init, min, d, k - 1) = (IF init \div p < min THEN min ELSE init \div p)
  BY DEF Annealed
<1> HIDE DEF p
<1> DEFINE u == init \div (d * p)
           v == init \div p
<1>6. u \in Nat /\ v \in Nat /\ u <= v
  BY <1>1, <1>2, LargerDivisor
<1> HIDE DEF u, v
<1> QED
  BY <1>4, <1>5, <1>6 DEF u, v

\* Temperature and epsilon are those of the step that is run or was run last.
OnSchedule(k) ==
    /\ temperature = Annealed(TemperatureInit, TemperatureMin, TemperatureDivisor, k)
    /\ ~ ConstantEpsilon => epsilon = Annealed(EpsilonInit, EpsilonMin, EpsilonDivisor, k)

ScheduleInv ==
    /\ temperature \in Int /\ epsilon \in Int
    /\ lang_policy_step \in 0 .. MaxSteps
    /\ phase = "rollout" => lang_policy_step < MaxSteps
    /\ lang_policy /\ ~ ConstantTemperature =>
          /\ phase = "rollout" => OnSchedule(lang_policy_step)
          /\ phase # "rollout" /\ lang_policy_step > 0 => OnSchedule(lang_policy_step - 1)

LEMMA AnnealedType ==
    ASSUME NEW d \in {TemperatureDivisor, EpsilonDivisor}, NEW init \in Nat, NEW min \in Nat,
           NEW k \in 0 .. MaxSteps
    PROVE  Annealed(init, min, d, k) \in Nat
<1> DEFINE p == d ^ k
<1>1. p \in Nat \ {0}
  BY PowerType
<1> HIDE DEF p
<1>2. init \div p \in Nat
  BY <1>1
<1> QED
  BY <1>2 DEF Annealed, p

LEMMA ScheduleConstants ==
    /\ TemperatureInit \in Nat /\ TemperatureMin \in Nat /\ Temperature \in Nat
    /\ EpsilonInit \in Nat /\ EpsilonMin \in Nat /\ Epsilon \in Nat /\ MaxSteps \in Nat
BY RouterAssumption

LEMMA RouteOnSchedule ==
    ASSUME ScheduleInv, NEW b \in Batches, RouteBatch(b)
    PROVE  ScheduleInv' /\ (lang_policy_step > 0 => temperature' <= temperature /\ epsilon' <= epsilon)
<1> DEFINE T(k) == Annealed(TemperatureInit, TemperatureMin, TemperatureDivisor, k)
           E(k) == Annealed(EpsilonInit, EpsilonMin, EpsilonDivisor, k)
           k == lang_policy_step
<1>1. /\ phase # "rollout" /\ phase' = "rollout" /\ k < MaxSteps /\ Anneal
      /\ lang_policy' = lang_policy /\ lang_policy_step' = k
  BY DEF RouteBatch, Ready
<1>2. k \in 0 .. MaxSteps /\ temperature \in Int /\ epsilon \in Int
  BY DEF ScheduleInv
<1>3. T(k) \in Nat /\ E(k) \in Nat
  BY <1>2, AnnealedType, ScheduleConstants
<1>4. k > 0 => T(k) <= T(k - 1) /\ E(k) <= E(k - 1)
  BY <1>2, AnnealedFalls, ScheduleConstants
<1>5. CASE ~ lang_policy \/ ConstantTemperature
  <2>1. temperature' = temperature /\ epsilon' = epsilon
    BY <1>1, <1>5 DEF Anneal
  <2> QED
    BY <1>1, <1>2, <1>5, <2>1 DEF ScheduleInv, ConstantTemperature
<1>6. CASE lang_policy /\ ~ ConstantTemperature
  <2>1. temperature' = T(k) /\ epsilon' = IF ConstantEpsilon THEN epsilon ELSE E(k)
    BY <1>1, <1>6 DEF Anneal
  <2>2. k > 0 => temperature = T(k - 1) /\ (~ ConstantEpsilon => epsilon = E(k - 1))
    BY <1>1, <1>6 DEF ScheduleInv, OnSchedule
  <2> HIDE DEF T, E
  <2>3. k > 0 => temperature' <= temperature /\ epsilon' <= epsilon
    BY <1>2, <1>3, <1>4, <2>1, <2>2
  <2>4. OnSchedule(k)'
    BY <1>1, <2>1 DEF OnSchedule, T, E, ConstantEpsilon
  <2>5. temperature' \in Int /\ epsilon' \in Int
    BY <1>2, <1>3, <2>1
  <2> QED
    BY <1>1, <1>2, <2>3, <2>4, <2>5 DEF ScheduleInv
<1> QED
  BY <1>5, <1>6

\* In one process temperature and epsilon fall from step to step and never rise again,
\* for every start, floor and decay (_maybe_update_lang_policy_temperature,
\* ray_trainer.py:502).
THEOREM SchedulesOnlyCool == Spec => AnnealOnlyCools
<1> DEFINE Cools == lang_policy_step > 0 /\ lang_policy_step' >= lang_policy_step
                      => temperature' <= temperature /\ epsilon' <= epsilon
<1>1. Init => ScheduleInv
  BY ScheduleConstants DEF Init, ScheduleInv
<1>2. ASSUME ScheduleInv, [Next]_vars PROVE ScheduleInv' /\ Cools
  <2>0. /\ temperature \in Int /\ epsilon \in Int /\ lang_policy_step \in 0 .. MaxSteps
        /\ MaxSteps \in Nat
    BY <1>2, ScheduleConstants DEF ScheduleInv
  <2>1. CASE \E b \in Batches : RouteBatch(b)
    BY <1>2, <2>1, RouteOnSchedule
  <2>2. CASE \E b \in Batches : RouteRaises(b) \/ Validate(b)
    <3>1. /\ phase # "rollout" /\ phase' # "rollout"
          /\ UNCHANGED <<lang_policy, lang_policy_step, temperature, epsilon>>
      BY <2>2 DEF RouteRaises, Validate, Ready, router
    <3> QED
      BY <1>2, <2>0, <3>1 DEF ScheduleInv, OnSchedule
  <2>3. CASE RewardBatch
    <3>1. phase = "rollout" /\ phase' = "idle" /\ UNCHANGED <<lang_policy, temperature, epsilon>>
      BY <2>3 DEF RewardBatch
    <3>2. lang_policy_step' = IF lang_policy THEN lang_policy_step + 1 ELSE lang_policy_step
      BY <2>3 DEF RewardBatch, router
    <3> QED
      BY <1>2, <2>0, <3>1, <3>2 DEF ScheduleInv, OnSchedule
  <2>4. CASE Restart
    <3>1. phase' = "idle" /\ lang_policy_step' = 0 /\ temperature' = Temperature /\ epsilon' = Epsilon
      BY <2>4 DEF Restart
    <3> QED
      BY <2>0, <3>1, ScheduleConstants DEF ScheduleInv
  <2>5. CASE UNCHANGED vars
    <3>1. UNCHANGED <<phase, lang_policy, lang_policy_step, temperature, epsilon>>
      BY <2>5 DEF vars, router
    <3> QED
      BY <1>2, <2>0, <3>1 DEF ScheduleInv, OnSchedule
  <2> QED
    BY <1>2, <2>1, <2>2, <2>3, <2>4, <2>5 DEF Next
<1>3. ScheduleInv /\ [Next]_vars => ScheduleInv' /\ [Cools]_vars
  BY <1>2
<1> QED
  BY <1>1, <1>3, PTL DEF Spec, AnnealOnlyCools
=============================================================================
