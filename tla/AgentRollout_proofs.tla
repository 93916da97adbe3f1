------------------------- MODULE AgentRollout_proofs ------------------------
(***************************************************************************)
(* What AgentRollout and its parts satisfy for every number of rows,       *)
(* workers and servers, every limit and every cache size.                  *)
(***************************************************************************)
EXTENDS AgentRollout, DispatchCollect_proofs

-----------------------------------------------------------------------------
(* Load balancing: the balance of a manager is an invariant by itself; one *)
(* more request on a server with the fewest keeps it.                      *)

LoadOK == load \in [Managers -> [Servers -> Nat]] /\ ServersBalanced

LEMMA BalanceKept ==
  ASSUME NEW f \in [Servers -> Nat], Balanced(f),
         NEW s \in Servers, \A t \in Servers : f[s] <= f[t]
  PROVE  /\ [f EXCEPT ![s] = @ + 1] \in [Servers -> Nat]
         /\ Balanced([f EXCEPT ![s] = @ + 1])
<1> DEFINE g == [f EXCEPT ![s] = @ + 1]
<1>1. g \in [Servers -> Nat]
  OBVIOUS
<1>2. ASSUME NEW t \in Servers, NEW u \in Servers PROVE g[t] <= g[u] + 1
  <2>1. f[t] \in Nat /\ f[u] \in Nat /\ f[s] \in Nat
    OBVIOUS
  <2>2. f[t] <= f[u] + 1 /\ f[s] <= f[u]
    BY DEF Balanced
  <2>3. g[t] = IF t = s THEN f[t] + 1 ELSE f[t]
    OBVIOUS
  <2>4. g[u] = IF u = s THEN f[u] + 1 ELSE f[u]
    OBVIOUS
  <2> QED
    BY <2>1, <2>2, <2>3, <2>4
<1> QED
  BY <1>1, <1>2 DEF Balanced

LEMMA ChoiceKeepsLoad ==
  ASSUME LoadOK, NEW m, NEW request, NEW s, ChooseServer(m, request, s)
  PROVE  LoadOK'
<1>1. CASE load' = load
  BY <1>1 DEF LoadOK, ServersBalanced, Balanced
<1>2. CASE s \in LeastLoaded(m) /\ load' = [load EXCEPT ![m][s] = @ + 1]
  <2>1. CASE m \notin Managers
    <3>1. load' = load
      BY <1>2, <2>1 DEF LoadOK
    <3> QED
      BY <3>1 DEF LoadOK, ServersBalanced, Balanced
  <2>2. CASE m \in Managers
    <3> DEFINE g == [load[m] EXCEPT ![s] = @ + 1]
    <3>1. load[m] \in [Servers -> Nat] /\ Balanced(load[m])
      BY <2>2 DEF LoadOK, ServersBalanced
    <3>2. s \in Servers /\ \A t \in Servers : load[m][s] <= load[m][t]
      BY <1>2 DEF LeastLoaded
    <3>3. g \in [Servers -> Nat] /\ Balanced(g)
      BY <3>1, <3>2, BalanceKept
    <3>4. load' = [load EXCEPT ![m] = g]
      BY <1>2, <2>2 DEF LoadOK
    <3>5. load' \in [Managers -> [Servers -> Nat]]
      BY <3>3, <3>4 DEF LoadOK
    <3>6. ASSUME NEW n \in Managers PROVE Balanced(load'[n])
      <4>1. load'[n] = IF n = m THEN g ELSE load[n]
        BY <3>4 DEF LoadOK
      <4> QED
        BY <3>3, <4>1 DEF LoadOK, ServersBalanced
    <3> QED
      BY <3>5, <3>6 DEF LoadOK, ServersBalanced
  <2> QED
    BY <2>1, <2>2
<1> QED
  BY <1>1, <1>2 DEF ChooseServer

LEMMA LoadInit == Init => LoadOK
<1> SUFFICES ASSUME Init PROVE LoadOK
  OBVIOUS
<1>1. load = [m \in Managers |-> [s \in Servers |-> 0]]
  BY DEF Init, ChooseInit, NewLoad
<1> QED
  BY <1>1 DEF LoadOK, ServersBalanced, Balanced

LEMMA LoadStep == LoadOK /\ [Next]_vars => LoadOK'
<1> SUFFICES ASSUME LoadOK, [Next]_vars PROVE LoadOK'
  OBVIOUS
<1>1. CASE \E r \in Rows : AskEngine(r)
  BY <1>1, ChoiceKeepsLoad DEF AskEngine
<1>2. CASE load' = load
  BY <1>2 DEF LoadOK, ServersBalanced, Balanced
<1>3. load' = load \/ \E r \in Rows : AskEngine(r)
  BY DEF Next, StartStep, vars, AgentStep, RewardStep, ToolStep, RejectBatch, StartRound, EndRound,
         RaiseRound, Prepare, EngineAnswers, CallTools, ToolsAnswer, InteractionAnswers,
         AskReward, chooseVars
<1> QED
  BY <1>1, <1>2, <1>3

(* In every rollout no server of an agent loop worker is ever more than one*)
(* request ahead of another (_choose_server, agent_loop.py:76).            *)
THEOREM RolloutBalances == Spec => []ServersBalanced
<1>1. LoadOK => ServersBalanced
  BY DEF LoadOK
<1> QED
  BY LoadInit, LoadStep, <1>1, PTL DEF Spec

-----------------------------------------------------------------------------
(* Conversations.  The invariant says, for each state of the machine, how  *)
(* far the turns may be from their limits, and that the mask covers the    *)
(* tokens after the prompt one by one.                                     *)

States == {"none", "pending", "generating", "processing_tools", "interacting", "terminated"}
Marks == {0, 1}
Limits == [response_length : Nat, assistant : Nat, user : Nat, interaction : BOOLEAN, model : Nat]
Conversation ==
  [kind : {"single", "tool"}, state : States, prompt_ids : Seq(Tokens), response_mask : Seq(Marks),
   logprobs : Nat, user_turns : Nat, assistant_turns : Nat]

Answering(c) == c.state \in {"processing_tools", "interacting"}

TurnsOK(c, l) ==
  /\ l.assistant > 0 => c.assistant_turns <= l.assistant + 1
  /\ l.assistant > 0 /\ c.state # "terminated" => c.assistant_turns <= l.assistant
  /\ l.user > 0 => c.user_turns <= l.user
  /\ l.user > 0 /\ Answering(c) => c.user_turns < l.user
  /\ c.state \in {"none", "pending"} => c.assistant_turns = 0 /\ c.user_turns = 0

Marked(token, mark) == mark = IF token = "generated" THEN 1 ELSE 0

PromptOf(c) == Len(c.prompt_ids) - Len(c.response_mask)

MaskOK(c, logprobs) ==
  /\ PromptOf(c) \in Nat
  /\ \A i \in 1 .. PromptOf(c) : c.prompt_ids[i] = "prompt"
  /\ \A i \in 1 .. Len(c.response_mask) :
       Marked(c.prompt_ids[PromptOf(c) + i], c.response_mask[i])
  /\ c.logprobs = IF logprobs THEN Len(c.response_mask) ELSE 0
  /\ Answering(c) => Len(c.response_mask) > 0
  /\ c.state \in {"none", "pending"} => c.prompt_ids = << >> /\ c.response_mask = << >>

(* n equal tokens and their n equal marks, appended.                       *)
LEMMA RepeatType ==
  ASSUME NEW S, NEW x \in S, NEW n \in Nat
  PROVE  /\ Repeat(x, n) \in Seq(S) /\ Len(Repeat(x, n)) = n
         /\ \A i \in 1 .. n : Repeat(x, n)[i] = x
BY DEF Repeat

Grown(s, x, n) == s \o Repeat(x, n)

IsGrown(S, p, x, n, q) ==
  /\ q \in Seq(S) /\ Len(q) = Len(p) + n
  /\ \A i \in 1 .. Len(p) : q[i] = p[i]
  /\ \A i \in Len(p) + 1 .. Len(p) + n : q[i] = x

LEMMA Appended ==
  ASSUME NEW S, NEW p \in Seq(S), NEW x \in S, NEW n \in Nat
  PROVE  IsGrown(S, p, x, n, Grown(p, x, n))
<1> DEFINE q == p \o Repeat(x, n)
<1>1. Repeat(x, n) \in Seq(S) /\ Len(Repeat(x, n)) = n /\ \A i \in 1 .. n : Repeat(x, n)[i] = x
  BY RepeatType
<1>2. q \in Seq(S) /\ Len(q) = Len(p) + n
  BY <1>1
<1>3. ASSUME NEW i \in 1 .. Len(p) PROVE q[i] = p[i]
  BY <1>1
<1>4. ASSUME NEW i \in Len(p) + 1 .. Len(p) + n PROVE q[i] = x
  <2>1. q[i] = Repeat(x, n)[i - Len(p)]
    BY <1>1
  <2>2. i - Len(p) \in 1 .. n
    OBVIOUS
  <2> QED
    BY <1>1, <2>1, <2>2
<1> QED
  BY <1>2, <1>3, <1>4 DEF Grown, IsGrown

(* A mask that covers what follows the prompt still does after both have   *)
(* grown by n.                                                             *)
LEMMA MaskGrows ==
  ASSUME NEW p \in Seq(Tokens), NEW m \in Seq(Marks), NEW n \in Nat,
         NEW x \in Tokens, NEW b \in Marks, Marked(x, b),
         NEW k \in Nat, Len(p) = k + Len(m),
         \A i \in 1 .. k : p[i] = "prompt",
         \A i \in 1 .. Len(m) : Marked(p[k + i], m[i])
  PROVE  LET q == Grown(p, x, n)
             w == Grown(m, b, n)
         IN  /\ q \in Seq(Tokens) /\ w \in Seq(Marks)
             /\ Len(w) = Len(m) + n /\ Len(q) = k + Len(w)
             /\ \A i \in 1 .. k : q[i] = "prompt"
             /\ \A i \in 1 .. Len(w) : Marked(q[k + i], w[i])
<1> DEFINE q == Grown(p, x, n)
           w == Grown(m, b, n)
<1>1. IsGrown(Tokens, p, x, n, q) /\ IsGrown(Marks, m, b, n, w)
  BY Appended
<1> HIDE DEF q, w
<1>2. /\ q \in Seq(Tokens) /\ Len(q) = Len(p) + n
      /\ \A i \in 1 .. Len(p) : q[i] = p[i]
      /\ \A i \in Len(p) + 1 .. Len(p) + n : q[i] = x
  BY <1>1 DEF IsGrown
<1>7. /\ w \in Seq(Marks) /\ Len(w) = Len(m) + n
       /\ \A i \in 1 .. Len(m) : w[i] = m[i]
  BY <1>1 DEF IsGrown
<1>8. \A i \in Len(m) + 1 .. Len(m) + n : w[i] = b
  BY <1>1 DEF IsGrown
<1>3. Len(p) \in Nat /\ Len(m) \in Nat
  OBVIOUS
<1>4. Len(q) = k + Len(w)
  BY <1>2, <1>7, <1>3
<1>5. ASSUME NEW i \in 1 .. k PROVE q[i] = "prompt"
  <2>1. i \in 1 .. Len(p)
    BY <1>3
  <2> QED
    BY <1>2, <2>1
<1>6. ASSUME NEW i \in 1 .. Len(w) PROVE Marked(q[k + i], w[i])
  <2>1. CASE i <= Len(m)
    <3>1. i \in 1 .. Len(m) /\ k + i \in 1 .. Len(p)
      BY <1>2, <1>7, <1>3, <2>1
    <3>2. w[i] = m[i] /\ q[k + i] = p[k + i]
      BY <1>2, <1>7, <3>1
    <3> QED
      BY <3>1, <3>2
  <2>2. CASE i > Len(m)
    <3>1. i \in Len(m) + 1 .. Len(m) + n /\ k + i \in Len(p) + 1 .. Len(p) + n
      BY <1>2, <1>7, <1>3, <2>2
    <3>2. w[i] = b
      BY <1>8, <3>1
    <3>3. q[k + i] = x
      BY <1>2, <3>1
    <3> QED
      BY <3>2, <3>3
  <2> QED
    BY <1>2, <1>7, <1>3, <2>1, <2>2
<1> QED
  BY <1>2, <1>7, <1>4, <1>5, <1>6 DEF q, w

(* The invariant of a conversation, and what each handler makes of it.     *)
ConversationOK(c, l, logprobs) == c \in Conversation /\ TurnsOK(c, l) /\ MaskOK(c, logprobs)

LEMMA NewOK ==
  ASSUME NEW l \in Limits, NEW logprobs \in BOOLEAN, NEW kind \in {"single", "tool"},
         NEW c, c = NewConversation(kind) \/ c = [NewConversation(kind) EXCEPT !.state = "none"]
  PROVE  ConversationOK(c, l, logprobs)
<1>1. c \in Conversation /\ c.prompt_ids = << >> /\ c.response_mask = << >> /\ c.logprobs = 0
      /\ c.assistant_turns = 0 /\ c.user_turns = 0 /\ c.state \in {"none", "pending"}
  <2> DEFINE e == NewConversation(kind)
  <2>1. << >> \in Seq(Tokens) /\ << >> \in Seq(Marks)
    OBVIOUS
  <2>2. e = [kind |-> kind, state |-> "pending", prompt_ids |-> << >>, response_mask |-> << >>,
             logprobs |-> 0, user_turns |-> 0, assistant_turns |-> 0]
    BY DEF NewConversation
  <2>3. PICK st \in {"none", "pending"} :
          c = [kind |-> kind, state |-> st, prompt_ids |-> << >>, response_mask |-> << >>,
               logprobs |-> 0, user_turns |-> 0, assistant_turns |-> 0]
    BY <2>2
  <2> HIDE DEF e
  <2>4. c \in Conversation
    BY <2>1, <2>3 DEF Conversation, States
  <2> QED
    BY <2>3, <2>4
<1>2. TurnsOK(c, l)
  BY <1>1 DEF TurnsOK, Limits, Answering
<1>3. MaskOK(c, logprobs)
  BY <1>1 DEF MaskOK, PromptOf, Answering
<1> QED
  BY <1>1, <1>2, <1>3 DEF ConversationOK

LEMMA PendingOK ==
  ASSUME NEW l \in Limits, NEW logprobs \in BOOLEAN,
         NEW c, ConversationOK(c, l, logprobs), c.state = "pending"
  PROVE  ConversationOK(Pending(c, 1), l, logprobs)
<1> DEFINE d == Pending(c, 1)
           p == Repeat("prompt", 1)
<1>1. p \in Seq(Tokens) /\ Len(p) = 1 /\ \A i \in 1 .. 1 : p[i] = "prompt"
  BY DEF Repeat, Tokens
<1> HIDE DEF p
<1>2. c \in Conversation /\ c.response_mask = << >> /\ c.logprobs = 0
      /\ c.assistant_turns = 0 /\ c.user_turns = 0
  BY DEF ConversationOK, MaskOK, TurnsOK
<1>3. d = [c EXCEPT !.prompt_ids = p, !.state = "generating"]
  BY DEF Pending, p
<1> HIDE DEF d
<1>4. d \in Conversation
  BY <1>1, <1>2, <1>3 DEF Conversation, States
<1>5. d.prompt_ids = p /\ d.response_mask = << >> /\ d.logprobs = 0 /\ d.state = "generating"
      /\ d.assistant_turns = 0 /\ d.user_turns = 0
  BY <1>2, <1>3 DEF Conversation
<1>6. TurnsOK(d, l)
  BY <1>5 DEF TurnsOK, Limits, Answering
<1>7. MaskOK(d, logprobs)
  <2>1. PromptOf(d) = 1 /\ Len(d.response_mask) = 0
    BY <1>1, <1>5 DEF PromptOf
  <2>2. \A i \in 1 .. PromptOf(d) : d.prompt_ids[i] = "prompt"
    BY <1>1, <1>5, <2>1
  <2>3. \A i \in 1 .. Len(d.response_mask) : Marked(d.prompt_ids[PromptOf(d) + i], d.response_mask[i])
    BY <2>1
  <2> QED
    BY <1>5, <2>1, <2>2, <2>3 DEF MaskOK, Answering
<1> QED
  BY <1>4, <1>6, <1>7 DEF ConversationOK, d

(* n tokens of one origin, appended to tokens and mask alike.              *)
LEMMA MaskKept ==
  ASSUME NEW logprobs \in BOOLEAN, NEW c \in Conversation, MaskOK(c, logprobs),
         NEW n \in Nat, NEW x \in Tokens, NEW b \in Marks, Marked(x, b),
         NEW d \in Conversation, d.prompt_ids = Grown(c.prompt_ids, x, n),
         d.response_mask = Grown(c.response_mask, b, n),
         d.logprobs = IF logprobs THEN c.logprobs + n ELSE 0,
         Len(c.response_mask) > 0 \/ n > 0,
         d.state \notin {"none", "pending"}
  PROVE  MaskOK(d, logprobs) /\ Len(d.response_mask) = Len(c.response_mask) + n
<1> DEFINE k == PromptOf(c)
           p == c.prompt_ids
           m == c.response_mask
           q == Grown(p, x, n)
           w == Grown(m, b, n)
<1>1. /\ p \in Seq(Tokens) /\ m \in Seq(Marks) /\ k \in Nat /\ Len(p) = k + Len(m)
      /\ \A i \in 1 .. k : p[i] = "prompt"
      /\ \A i \in 1 .. Len(m) : Marked(p[k + i], m[i])
  BY DEF Conversation, MaskOK, PromptOf
<1> HIDE DEF k, p, m
<1>2. /\ q \in Seq(Tokens) /\ w \in Seq(Marks)
      /\ Len(w) = Len(m) + n /\ Len(q) = k + Len(w)
      /\ \A i \in 1 .. k : q[i] = "prompt"
      /\ \A i \in 1 .. Len(w) : Marked(q[k + i], w[i])
  BY <1>1, MaskGrows
<1> HIDE DEF q, w
<1>3. d.prompt_ids = q /\ d.response_mask = w
  BY DEF p, m, q, w
<1>4. PromptOf(d) = k
  <2>1. PromptOf(d) = Len(q) - Len(w)
    BY <1>3 DEF PromptOf
  <2>2. Len(w) \in Nat
    BY <1>2
  <2> QED
    BY <1>1, <1>2, <2>1, <2>2
<1>5. Len(w) > 0
  <2>1. Len(m) \in Nat
    BY <1>1
  <2>2. Len(m) > 0 \/ n > 0
    BY DEF m
  <2> QED
    BY <1>2, <2>1, <2>2
<1>6. d.logprobs = IF logprobs THEN Len(w) ELSE 0
  BY <1>2 DEF MaskOK, m
<1> QED
  BY <1>1, <1>2, <1>3, <1>4, <1>5, <1>6 DEF MaskOK, m

LEMMA GeneratedOK ==
  ASSUME NEW l \in Limits, NEW logprobs \in BOOLEAN, NEW n \in Nat \ {0}, NEW calls \in BOOLEAN,
         NEW c, ConversationOK(c, l, logprobs), c.state = "generating"
  PROVE  ConversationOK(Generated(c, l, n, calls, logprobs), l, logprobs)
<1> DEFINE d == Generated(c, l, n, calls, logprobs)
           q == Grown(c.prompt_ids, "generated", n)
           w == Grown(c.response_mask, 1, n)
           lp == IF logprobs THEN c.logprobs + n ELSE c.logprobs
           stop == Stops(c, l, w)
           next == IF stop \/ c.kind = "single" THEN "terminated"
                   ELSE IF calls THEN "processing_tools"
                   ELSE IF l.interaction THEN "interacting" ELSE "terminated"
<1>1. c \in Conversation /\ TurnsOK(c, l) /\ MaskOK(c, logprobs)
  BY DEF ConversationOK
<1>2. d = [c EXCEPT !.prompt_ids = q, !.response_mask = w, !.logprobs = lp,
                    !.assistant_turns = @ + 1, !.state = next]
  BY DEF Generated, Grown
<1>3. q \in Seq(Tokens) /\ w \in Seq(Marks)
  <2>1. c.prompt_ids \in Seq(Tokens) /\ c.response_mask \in Seq(Marks)
    BY <1>1 DEF Conversation
  <2>2. "generated" \in Tokens /\ 1 \in Marks
    BY DEF Tokens, Marks
  <2>3. IsGrown(Tokens, c.prompt_ids, "generated", n, q) /\ IsGrown(Marks, c.response_mask, 1, n, w)
    BY <2>1, <2>2, Appended
  <2> QED
    BY <2>3 DEF IsGrown
<1>4. ~ stop => /\ l.assistant > 0 => c.assistant_turns < l.assistant
                /\ l.user > 0 => c.user_turns < l.user
  BY <1>1 DEF Stops, Conversation, Limits
<1>5. next \in States \ {"none", "pending", "generating"} /\ (stop => next = "terminated")
  BY DEF States
<1> HIDE DEF d, q, w, stop, next
<1>6. lp \in Nat
  BY <1>1 DEF Conversation
<1>7. d \in Conversation
  <2>1. c.assistant_turns + 1 \in Nat /\ next \in States
    BY <1>1, <1>5 DEF Conversation
  <2> HIDE DEF lp
  <2> QED
    BY <1>1, <1>2, <1>3, <1>6, <2>1 DEF Conversation
<1>8. /\ d.prompt_ids = q /\ d.response_mask = w /\ d.logprobs = lp /\ d.state = next
      /\ d.assistant_turns = c.assistant_turns + 1 /\ d.user_turns = c.user_turns
  BY <1>1, <1>2 DEF Conversation
<1>9. TurnsOK(d, l)
  <2>1. c.assistant_turns \in Nat /\ c.user_turns \in Nat /\ l.assistant \in Nat /\ l.user \in Nat
    BY <1>1 DEF Conversation, Limits
  <2>2. /\ l.assistant > 0 => c.assistant_turns <= l.assistant
        /\ l.user > 0 => c.user_turns <= l.user
    BY <1>1 DEF TurnsOK
  <2>3. stop => d.state = "terminated"
    BY <1>5, <1>8
  <2> QED
    BY <1>4, <1>5, <1>8, <2>1, <2>2, <2>3 DEF TurnsOK, Answering
<1>10. MaskOK(d, logprobs)
  <2>1. "generated" \in Tokens /\ 1 \in Marks /\ Marked("generated", 1)
    BY DEF Tokens, Marks, Marked
  <2>2. d.logprobs = IF logprobs THEN c.logprobs + n ELSE 0
    BY <1>1, <1>8 DEF MaskOK
  <2>3. d.state \notin {"none", "pending"}
    BY <1>5, <1>8
  <2>4. d.prompt_ids = Grown(c.prompt_ids, "generated", n) /\ d.response_mask = Grown(c.response_mask, 1, n)
    BY <1>8 DEF q, w
  <2> QED
    BY <1>1, <1>7, <2>1, <2>2, <2>3, <2>4, MaskKept
<1> QED
  BY <1>7, <1>9, <1>10 DEF ConversationOK, d

(* Tools and interactions append observed tokens and count a user turn.    *)
LEMMA ObservedMask ==
  ASSUME NEW logprobs \in BOOLEAN, NEW n \in Nat,
         NEW c \in Conversation, MaskOK(c, logprobs), Len(c.response_mask) > 0,
         NEW d \in Conversation, d.prompt_ids = Grown(c.prompt_ids, "observed", n),
         d.response_mask = Grown(c.response_mask, 0, n),
         d.logprobs = IF logprobs THEN c.logprobs + n ELSE 0,
         d.state \notin {"none", "pending"}
  PROVE  MaskOK(d, logprobs)
<1>1. "observed" \in Tokens /\ 0 \in Marks /\ Marked("observed", 0)
  BY DEF Tokens, Marks, Marked
<1> QED
  BY <1>1, MaskKept

LEMMA ObservedOK ==
  ASSUME NEW l \in Limits, NEW logprobs \in BOOLEAN, NEW n \in Nat,
         NEW c, ConversationOK(c, l, logprobs), Answering(c),
         NEW state \in {"generating", "terminated"},
         NEW d, d = [Observed(c, n) EXCEPT !.user_turns = @ + 1, !.state = state]
  PROVE  ConversationOK(d, l, logprobs)
<1> DEFINE q == Grown(c.prompt_ids, "observed", n)
           w == Grown(c.response_mask, 0, n)
           lp == IF c.logprobs > 0 THEN c.logprobs + n ELSE c.logprobs
<1>1. c \in Conversation /\ TurnsOK(c, l) /\ MaskOK(c, logprobs)
  BY DEF ConversationOK
<1>2. d = [[c EXCEPT !.prompt_ids = q, !.response_mask = w, !.logprobs = lp]
             EXCEPT !.user_turns = @ + 1, !.state = state]
  BY DEF Observed, Grown
<1>3. q \in Seq(Tokens) /\ w \in Seq(Marks)
  <2>1. c.prompt_ids \in Seq(Tokens) /\ c.response_mask \in Seq(Marks)
    BY <1>1 DEF Conversation
  <2>2. "observed" \in Tokens /\ 0 \in Marks
    BY DEF Tokens, Marks
  <2>3. IsGrown(Tokens, c.prompt_ids, "observed", n, q) /\ IsGrown(Marks, c.response_mask, 0, n, w)
    BY <2>1, <2>2, Appended
  <2> QED
    BY <2>3 DEF IsGrown
<1>4. c.user_turns \in Nat /\ c.assistant_turns \in Nat /\ lp \in Nat /\ state \in States
  BY <1>1 DEF Conversation, States
<1>5. lp = IF logprobs THEN c.logprobs + n ELSE 0
  <2>1. Len(c.response_mask) \in Nat
    BY <1>1 DEF Conversation
  <2> QED
    BY <1>1, <2>1 DEF MaskOK
<1> HIDE DEF q, w, lp
<1>6. d \in Conversation
  <2>1. c.user_turns + 1 \in Nat
    BY <1>4
  <2> QED
    BY <1>1, <1>2, <1>3, <1>4, <2>1 DEF Conversation
<1>7. /\ d.prompt_ids = q /\ d.response_mask = w /\ d.logprobs = lp /\ d.state = state
      /\ d.user_turns = c.user_turns + 1 /\ d.assistant_turns = c.assistant_turns
  BY <1>1, <1>2 DEF Conversation
<1>8. TurnsOK(d, l)
  <2>1. l.assistant \in Nat /\ l.user \in Nat
    BY DEF Limits
  <2>2. /\ l.assistant > 0 => c.assistant_turns <= l.assistant
        /\ l.user > 0 => c.user_turns < l.user
    BY <1>1 DEF TurnsOK, Answering
  <2>3. d.state \in {"generating", "terminated"}
    BY <1>7
  <2> QED
    BY <1>4, <1>7, <2>1, <2>2, <2>3 DEF TurnsOK, Answering
<1>9. MaskOK(d, logprobs)
  <2>2. Len(c.response_mask) > 0
    BY <1>1 DEF MaskOK
  <2>3. d.prompt_ids = Grown(c.prompt_ids, "observed", n) /\ d.response_mask = Grown(c.response_mask, 0, n)
    BY <1>7 DEF q, w
  <2>4. d.state \notin {"none", "pending"}
    BY <1>7
  <2>5. d.logprobs = IF logprobs THEN c.logprobs + n ELSE 0
    BY <1>5, <1>7
  <2>6. MaskOK(c, logprobs)
    BY <1>1
  <2> QED
    BY <1>1, <1>6, <2>2, <2>3, <2>4, <2>5, <2>6, ObservedMask
<1> QED
  BY <1>6, <1>8, <1>9 DEF ConversationOK

LEMMA EndedOK ==
  ASSUME NEW l \in Limits, NEW logprobs \in BOOLEAN,
         NEW c, ConversationOK(c, l, logprobs), Answering(c)
  PROVE  ConversationOK([c EXCEPT !.state = "terminated"], l, logprobs)
<1> DEFINE d == [c EXCEPT !.state = "terminated"]
<1>1. c \in Conversation /\ TurnsOK(c, l) /\ MaskOK(c, logprobs)
  BY DEF ConversationOK
<1>2. /\ d.prompt_ids = c.prompt_ids /\ d.response_mask = c.response_mask
      /\ d.logprobs = c.logprobs /\ d.state = "terminated"
      /\ d.user_turns = c.user_turns /\ d.assistant_turns = c.assistant_turns
      /\ d \in Conversation
  BY <1>1 DEF Conversation, States
<1> HIDE DEF d
<1>3. TurnsOK(d, l)
  BY <1>1, <1>2 DEF TurnsOK, Answering
<1>4. MaskOK(d, logprobs)
  <2>1. PromptOf(d) = PromptOf(c)
    BY <1>2 DEF PromptOf
  <2>2. ~ Answering(d) /\ d.state \notin {"none", "pending"}
    BY <1>2 DEF Answering
  <2> QED
    BY <1>1, <1>2, <2>1, <2>2 DEF MaskOK
<1> QED
  BY <1>2, <1>3, <1>4 DEF ConversationOK, d

LEMMA ToolsOK ==
  ASSUME NEW l \in Limits, NEW logprobs \in BOOLEAN, NEW n \in Nat,
         NEW c, ConversationOK(c, l, logprobs), c.state = "processing_tools"
  PROVE  ConversationOK(ToolsAnswered(c, l, n), l, logprobs)
<1>1. Answering(c)
  BY DEF Answering
<1>2. CASE Len(c.response_mask) + n >= l.response_length
  BY <1>1, <1>2, EndedOK DEF ToolsAnswered
<1>3. CASE ~ (Len(c.response_mask) + n >= l.response_length)
  <2> DEFINE d == ToolsAnswered(c, l, n)
  <2>1. d = [Observed(c, n) EXCEPT !.user_turns = @ + 1, !.state = "generating"]
    BY <1>3 DEF ToolsAnswered
  <2>2. "generating" \in {"generating", "terminated"}
    OBVIOUS
  <2> HIDE DEF d
  <2>3. ConversationOK(d, l, logprobs)
    BY <1>1, <2>1, <2>2, ObservedOK, Zenon
  <2> QED
    BY <2>3 DEF d
<1> QED
  BY <1>2, <1>3

LEMMA UserOK ==
  ASSUME NEW l \in Limits, NEW logprobs \in BOOLEAN, NEW n \in Nat, NEW terminate \in BOOLEAN,
         NEW c, ConversationOK(c, l, logprobs), c.state = "interacting"
  PROVE  ConversationOK(UserAnswered(c, n, terminate), l, logprobs)
<1> DEFINE state == IF terminate THEN "terminated" ELSE "generating"
<1>1. Answering(c) /\ state \in {"generating", "terminated"}
  BY DEF Answering
<1>2. UserAnswered(c, n, terminate) = [Observed(c, n) EXCEPT !.user_turns = @ + 1, !.state = state]
  BY DEF UserAnswered
<1> HIDE DEF state
<1>3. PICK d : d = [Observed(c, n) EXCEPT !.user_turns = @ + 1, !.state = state]
  OBVIOUS
<1>4. ConversationOK(d, l, logprobs)
  BY <1>1, <1>3, ObservedOK, Zenon
<1> QED
  BY <1>2, <1>3, <1>4

-----------------------------------------------------------------------------
(* All conversations of a rollout, and the rows that wait for the engine:  *)
(* an answer of the engine meets a conversation that is generating.        *)

RolloutOK ==
  /\ cfg \in Configs
  /\ conv = [r \in Rows |-> conv[r]]
  /\ \A r \in Rows : ConversationOK(conv[r], cfg.limits, cfg.logprobs)
  /\ inflight \subseteq RowsWithState("generating")
  /\ manager \in {"starting", "idle"} => inflight = {}

LEMMA ConfigType ==
  ASSUME cfg \in Configs
  PROVE  /\ cfg.limits \in Limits /\ cfg.logprobs \in BOOLEAN
         /\ cfg.genLens \subseteq Nat \ {0} /\ cfg.obsLens \subseteq Nat
         /\ \A r \in Rows : cfg.kinds[r] \in {"single", "tool"}
BY RolloutConfigsAssumption DEF Limits, Rows

LEMMA RolloutInit == Init => RolloutOK
<1> SUFFICES ASSUME Init PROVE RolloutOK
  OBVIOUS
<1>1. cfg \in Configs /\ conv = [r \in Rows |-> [NewConversation(cfg.kinds[r]) EXCEPT !.state = "none"]]
  BY DEF Init
<1>2. ASSUME NEW r \in Rows PROVE ConversationOK(conv[r], cfg.limits, cfg.logprobs)
  <2>1. conv[r] = [NewConversation(cfg.kinds[r]) EXCEPT !.state = "none"]
    BY <1>1
  <2> QED
    BY <1>1, <2>1, ConfigType, NewOK
<1>3. inflight = {}
  BY DEF Init
<1> QED
  BY <1>1, <1>2, <1>3 DEF RolloutOK

(* A step that changes one conversation into one that is all right, and    *)
(* takes its row off the engine if it was there.                           *)
LEMMA OneConversation ==
  ASSUME RolloutOK, NEW r \in Rows, NEW d, conv' = [conv EXCEPT ![r] = d], cfg' = cfg,
         ConversationOK(d, cfg.limits, cfg.logprobs),
         manager' = manager, inflight' \subseteq inflight, r \notin inflight'
  PROVE  RolloutOK'
<1>1. Rows' = Rows
  BY DEF Rows
<1>2. conv' = [t \in Rows |-> conv'[t]]
  BY DEF RolloutOK
<1>3. ASSUME NEW t \in Rows PROVE ConversationOK(conv'[t], cfg.limits, cfg.logprobs)
  <2>1. conv'[t] = IF t = r THEN d ELSE conv[t]
    BY DEF RolloutOK
  <2> QED
    BY <2>1 DEF RolloutOK
<1>4. ASSUME NEW t \in inflight' PROVE t \in Rows /\ conv'[t].state = "generating"
  <2>1. t \in Rows /\ t # r /\ conv[t].state = "generating"
    BY DEF RolloutOK, RowsWithState
  <2>2. conv'[t] = conv[t]
    BY <2>1 DEF RolloutOK
  <2> QED
    BY <2>1, <2>2
<1>5. manager' \in {"starting", "idle"} => inflight' = {}
  BY DEF RolloutOK
<1> QED
  BY <1>1, <1>2, <1>3, <1>4, <1>5 DEF RolloutOK, RowsWithState

LEMMA NotWaiting ==
  ASSUME RolloutOK, NEW r, conv[r].state # "generating"
  PROVE  r \notin inflight
BY DEF RolloutOK, RowsWithState

LEMMA RolloutStep == RolloutOK /\ [Next]_vars => RolloutOK'
<1> SUFFICES ASSUME RolloutOK, [Next]_vars PROVE RolloutOK'
  OBVIOUS
<1>1. /\ cfg.limits \in Limits /\ cfg.logprobs \in BOOLEAN
      /\ cfg.genLens \subseteq Nat \ {0} /\ cfg.obsLens \subseteq Nat
      /\ \A r \in Rows : cfg.kinds[r] \in {"single", "tool"}
  BY ConfigType DEF RolloutOK
<1>2. /\ \A r \in Rows : ConversationOK(conv[r], cfg.limits, cfg.logprobs)
      /\ inflight \subseteq RowsWithState("generating")
      /\ manager \in {"starting", "idle"} => inflight = {}
  BY DEF RolloutOK
<1>3. ASSUME cfg' = cfg, conv' = conv, inflight' \subseteq RowsWithState("generating"),
             manager' \in {"starting", "idle"} => inflight' = {}
      PROVE  RolloutOK'
  BY <1>3 DEF RolloutOK, Rows, RowsWithState
<1>4. CASE StartRound
  <2>1. cfg' = cfg /\ Rows' = Rows /\ conv' = [r \in Rows |-> NewConversation(cfg.kinds[r])]
        /\ inflight' = {}
    BY <1>2, <1>4 DEF StartRound, Rows
  <2>2. ASSUME NEW r \in Rows PROVE ConversationOK(conv'[r], cfg.limits, cfg.logprobs)
    <3>1. conv'[r] = NewConversation(cfg.kinds[r])
      BY <2>1
    <3> QED
      BY <1>1, <3>1, NewOK
  <2> QED
    BY <2>1, <2>2 DEF RolloutOK
<1>5. ASSUME NEW r \in Rows, Prepare(r) PROVE RolloutOK'
  <2>1. /\ conv' = [conv EXCEPT ![r] = Pending(conv[r], 1)] /\ cfg' = cfg /\ conv[r].state = "pending"
        /\ manager' = manager /\ inflight' = inflight
    BY <1>5 DEF Prepare, batchVars
  <2>2. ConversationOK(Pending(conv[r], 1), cfg.limits, cfg.logprobs)
    BY <1>1, <1>2, <2>1, PendingOK
  <2>3. r \notin inflight'
    BY <2>1, NotWaiting
  <2> QED
    BY <2>1, <2>2, <2>3, OneConversation
<1>6. ASSUME NEW r \in Rows, EngineAnswers(r) PROVE RolloutOK'
  <2>1. PICK n \in Nat \ {0}, calls \in BOOLEAN :
          conv' = [conv EXCEPT ![r] = Generated(conv[r], cfg.limits, n, calls, cfg.logprobs)]
    <3>1. PICK len \in cfg.genLens, calls \in BOOLEAN :
            LET n == IF len < Room(r) THEN len ELSE Room(r)
            IN  conv' = [conv EXCEPT ![r] = Generated(conv[r], cfg.limits, n, calls, cfg.logprobs)]
      BY <1>6 DEF EngineAnswers
    <3>2. Room(r) \in Nat \ {0}
      <4>1. cfg.limits.model \in Nat
        BY <1>1 DEF Limits
      <4>2. conv[r] \in Conversation
        BY <1>2 DEF ConversationOK
      <4>3. Len(conv[r].prompt_ids) \in Nat
        BY <4>2 DEF Conversation
      <4>4. Room(r) > 0
        BY <1>6 DEF EngineAnswers
      <4> QED
        BY <4>1, <4>3, <4>4 DEF Room
    <3>3. (IF len < Room(r) THEN len ELSE Room(r)) \in Nat \ {0}
      BY <1>1, <3>2
    <3> QED
      BY <3>1, <3>3
  <2>2. cfg' = cfg /\ manager' = manager /\ inflight' = inflight \ {r} /\ r \in inflight
    BY <1>6 DEF EngineAnswers, batchVars
  <2>3. conv[r].state = "generating"
    BY <1>2, <2>2 DEF RowsWithState
  <2>4. ConversationOK(Generated(conv[r], cfg.limits, n, calls, cfg.logprobs), cfg.limits, cfg.logprobs)
    BY <1>1, <1>2, <2>3, GeneratedOK
  <2> QED
    BY <2>1, <2>2, <2>4, OneConversation
<1>7. ASSUME NEW r \in Rows, ToolsAnswer(r) PROVE RolloutOK'
  <2>1. PICK n \in cfg.obsLens : conv' = [conv EXCEPT ![r] = ToolsAnswered(conv[r], cfg.limits, n)]
    BY <1>7 DEF ToolsAnswer
  <2>2. /\ cfg' = cfg /\ conv[r].state = "processing_tools"
        /\ manager' = manager /\ inflight' = inflight
    BY <1>7 DEF ToolsAnswer, batchVars
  <2>3. ConversationOK(ToolsAnswered(conv[r], cfg.limits, n), cfg.limits, cfg.logprobs)
    BY <1>1, <1>2, <2>2, ToolsOK
  <2>4. r \notin inflight'
    BY <2>2, NotWaiting
  <2> QED
    BY <2>1, <2>2, <2>3, <2>4, OneConversation
<1>8. ASSUME NEW r \in Rows, InteractionAnswers(r) PROVE RolloutOK'
  <2>1. PICK n \in cfg.obsLens, terminate \in BOOLEAN :
          conv' = [conv EXCEPT ![r] = UserAnswered(conv[r], n, terminate)]
    BY <1>8 DEF InteractionAnswers
  <2>2. /\ cfg' = cfg /\ conv[r].state = "interacting"
        /\ manager' = manager /\ inflight' = inflight
    BY <1>8 DEF InteractionAnswers, batchVars
  <2>3. ConversationOK(UserAnswered(conv[r], n, terminate), cfg.limits, cfg.logprobs)
    BY <1>1, <1>2, <2>2, UserOK
  <2>4. r \notin inflight'
    BY <2>2, NotWaiting
  <2> QED
    BY <2>1, <2>2, <2>3, <2>4, OneConversation
<1>9. ASSUME NEW r \in Rows, AskEngine(r), manager = "running" PROVE RolloutOK'
  <2>1. /\ cfg' = cfg /\ conv' = conv /\ manager' = "running"
        /\ inflight' = inflight \cup {r} /\ conv[r].state = "generating"
    BY <1>9 DEF AskEngine, batchVars
  <2>2. inflight' \subseteq RowsWithState("generating")
    BY <1>2, <2>1 DEF RowsWithState
  <2> QED
    BY <1>3, <2>1, <2>2
<1>10. ASSUME NEW r \in Rows, AskReward(r) PROVE RolloutOK'
  <2>1. cfg' = cfg /\ conv' = conv /\ manager' = manager /\ inflight' = inflight
    BY <1>10 DEF AskReward, batchVars
  <2> QED
    BY <1>2, <1>3, <2>1
<1>13. ASSUME NEW r \in Rows, CallTools(r) PROVE RolloutOK'
  <2>1. cfg' = cfg /\ conv' = conv /\ manager' = manager /\ inflight' = inflight
    BY <1>13 DEF CallTools, batchVars
  <2> QED
    BY <1>2, <1>3, <2>1
<1>11. CASE RewardStep \/ ToolStep \/ RejectBatch \/ RaiseRound \/ UNCHANGED vars
  <2>1. /\ cfg' = cfg /\ conv' = conv /\ inflight' = inflight
        /\ manager' = manager \/ manager' = "raised"
    BY <1>11 DEF RewardStep, ToolStep, RejectBatch, RaiseRound, vars, batchVars
  <2> QED
    BY <1>2, <1>3, <2>1
<1>14. CASE StartStep
  <2>1. /\ cfg' = cfg /\ conv' = conv /\ inflight' = inflight
        /\ manager' = manager \/ manager' = "raised" \/ manager = "starting"
    BY <1>14 DEF StartStep, RejectPools, StartWorkers, StartServers, EndStart, LoseServer
  <2>2. manager' \in {"starting", "idle"} => inflight' = {}
    BY <1>2, <2>1
  <2> QED
    BY <1>2, <1>3, <2>1, <2>2
<1>12. CASE EndRound
  <2>1. cfg' = cfg /\ conv' = conv /\ inflight' = inflight /\ \A r \in Rows : conv[r].state = "terminated"
    BY <1>12 DEF EndRound, RowDone
  <2>2. inflight = {}
    BY <1>2, <2>1 DEF RowsWithState
  <2> QED
    BY <1>3, <2>1, <2>2
<1> QED
  BY <1>4, <1>5, <1>6, <1>7, <1>8, <1>9, <1>10, <1>11, <1>12, <1>13, <1>14 DEF Next, AgentStep

(* No conversation with tools passes its turn limits by more than the one  *)
(* generation of assistant turns, for any limits, any lengths of answers   *)
(* and any number of rows, workers and servers.                            *)
THEOREM ConversationsEnd == Spec => []TurnsBounded
<1>1. RolloutOK => TurnsBounded
  BY DEF RolloutOK, ConversationOK, TurnsOK, TurnsBounded
<1> QED
  BY <1>1, RolloutInit, RolloutStep, PTL DEF Spec

-----------------------------------------------------------------------------
(* The output of a finished conversation *)

LEMMA CutTo ==
  ASSUME NEW S, NEW s \in Seq(S), NEW n \in Nat
  PROVE  LET k == IF Len(s) < n THEN Len(s) ELSE n
         IN  /\ k \in Nat /\ k <= Len(s) /\ Len(Cut(s, n)) = k /\ DOMAIN Cut(s, n) = 1 .. k
             /\ \A i \in 1 .. k : Cut(s, n)[i] = s[i]
BY DEF Cut

LEMMA OutputMatches ==
  ASSUME NEW l \in Limits, NEW logprobs \in BOOLEAN, NEW c, ConversationOK(c, l, logprobs)
  PROVE  LET out == Output(c, l)
         IN  /\ \A i \in DOMAIN out.prompt : out.prompt[i] = "prompt"
             /\ DOMAIN out.mask = DOMAIN out.response
             /\ \A i \in DOMAIN out.mask :
                  out.mask[i] = IF out.response[i] = "generated" THEN 1 ELSE 0
             /\ out.logprobs = IF logprobs THEN Len(out.mask) ELSE 0
<1> DEFINE p == c.prompt_ids
           m == c.response_mask
           k == PromptOf(c)
           n == l.response_length
           tail == SubSeq(p, k + 1, Len(p))
           out == Output(c, l)
<1>1. /\ p \in Seq(Tokens) /\ m \in Seq(Marks) /\ k \in Nat /\ Len(p) = k + Len(m)
      /\ \A i \in 1 .. k : p[i] = "prompt"
      /\ \A i \in 1 .. Len(m) : Marked(p[k + i], m[i])
      /\ n \in Nat
  BY DEF ConversationOK, Conversation, MaskOK, PromptOf, Limits
<1>2. c.logprobs = IF logprobs THEN Len(m) ELSE 0
  BY DEF ConversationOK, MaskOK
<1>3. /\ out.prompt = SubSeq(p, 1, k) /\ out.response = Cut(tail, n) /\ out.mask = Cut(m, n)
      /\ out.logprobs = IF c.logprobs < n THEN c.logprobs ELSE n
  BY DEF Output, PromptOf
<1> HIDE DEF p, m, k, n, out
<1>4. DOMAIN SubSeq(p, 1, k) = 1 .. k /\ \A i \in 1 .. k : SubSeq(p, 1, k)[i] = p[i]
  BY <1>1
<1>5. tail \in Seq(Tokens) /\ Len(tail) = Len(m) /\ \A i \in 1 .. Len(m) : tail[i] = p[k + i]
  BY <1>1
<1> HIDE DEF tail
<1> DEFINE j == IF Len(m) < n THEN Len(m) ELSE n
<1>6. /\ j \in Nat /\ j <= Len(m) /\ Len(Cut(m, n)) = j /\ DOMAIN Cut(m, n) = 1 .. j
      /\ \A i \in 1 .. j : Cut(m, n)[i] = m[i]
  BY <1>1, CutTo
<1>7. DOMAIN Cut(tail, n) = 1 .. j /\ \A i \in 1 .. j : Cut(tail, n)[i] = tail[i]
  BY <1>1, <1>5, CutTo
<1>8. out.logprobs = IF logprobs THEN j ELSE 0
  BY <1>1, <1>2, <1>3
<1> HIDE DEF j
<1>9. ASSUME NEW i \in 1 .. j
      PROVE  Cut(m, n)[i] = IF Cut(tail, n)[i] = "generated" THEN 1 ELSE 0
  <2>1. i \in 1 .. Len(m)
    BY <1>1, <1>6
  <2>2. Marked(p[k + i], m[i]) /\ tail[i] = p[k + i]
    BY <1>1, <1>5, <2>1
  <2> QED
    BY <1>6, <1>7, <2>2 DEF Marked
<1>10. \A i \in DOMAIN out.prompt : out.prompt[i] = "prompt"
  BY <1>1, <1>3, <1>4
<1> QED
  BY <1>3, <1>6, <1>7, <1>8, <1>9, <1>10, ZenonT(30) DEF out

(* The response mask marks exactly the generated tokens of every finished  *)
(* row and the log probabilities line up with it, whatever the engine, the *)
(* tools and the interaction answered.                                     *)
THEOREM MasksMatch == Spec => []MaskMatchesTokens
<1>1. RolloutOK => MaskMatchesTokens
  <2> SUFFICES ASSUME RolloutOK, NEW r \in RowsWithState("terminated")
               PROVE  LET out == Output(conv[r], cfg.limits)
                      IN  /\ \A i \in DOMAIN out.prompt : out.prompt[i] = "prompt"
                          /\ DOMAIN out.mask = DOMAIN out.response
                          /\ \A i \in DOMAIN out.mask :
                               out.mask[i] = IF out.response[i] = "generated" THEN 1 ELSE 0
                          /\ out.logprobs = IF cfg.logprobs THEN Len(out.mask) ELSE 0
    BY DEF MaskMatchesTokens
  <2>1. r \in Rows /\ ConversationOK(conv[r], cfg.limits, cfg.logprobs)
    BY DEF RolloutOK, RowsWithState
  <2>2. cfg.limits \in Limits /\ cfg.logprobs \in BOOLEAN
    BY ConfigType DEF RolloutOK
  <2> QED
    BY <2>1, <2>2, OutputMatches
<1> QED
  BY <1>1, RolloutInit, RolloutStep, PTL DEF Spec
-----------------------------------------------------------------------------
(* The limit on tool calls.  The semaphore, the calls that run and the     *)
(* releases under way always add up; what it takes is that calls are       *)
(* finitely many and that a turn's calls start from nowhere.               *)

Limited == cfg.tools.kind = "search" /\ cfg.tools.limit > 0
Running == InStage(CallsOf(Rows), "running")

PermitsOK ==
  /\ cfg \in Configs
  /\ call = [c \in CallsOf(Rows) |-> call[c]] /\ IsFiniteSet(CallsOf(Rows))
  /\ permits \in Nat /\ returning \in Nat
  /\ Limited => permits + Cardinality(Running) + returning = cfg.tools.limit

LEMMA ToolsType ==
  ASSUME cfg \in Configs
  PROVE  /\ cfg.tools \in [kind : {"plain", "search", "mcp"}, calls : Nat, threads : Nat, limit : Nat]
         /\ cfg.kinds \in Seq({"single", "tool"})
BY RolloutConfigsAssumption

LEMMA RunningFinite ==
  ASSUME PermitsOK
  PROVE  IsFiniteSet(Running) /\ Cardinality(Running) \in Nat
<1>1. Running \in SUBSET CallsOf(Rows)
  BY DEF Running, InStage
<1> QED
  BY <1>1, FS_Subset, FS_CardinalityType DEF PermitsOK

LEMMA PermitsInit == Init => PermitsOK
<1> SUFFICES ASSUME Init PROVE PermitsOK
  OBVIOUS
<1>1. /\ cfg \in Configs /\ call = [c \in CallsOf(Rows) |-> "none"]
      /\ permits = cfg.tools.limit /\ returning = 0
  BY DEF Init, ToolsInit
<1>2. IsFiniteSet(CallsOf(Rows))
  <2>1. Len(cfg.kinds) \in Nat /\ Rows = 1 .. Len(cfg.kinds) /\ cfg.tools.calls \in Nat
    BY <1>1, ToolsType DEF Rows
  <2>2. ASSUME NEW n \in Nat PROVE IsFiniteSet(1 .. n)
    <3>1. 1 \in Int /\ n \in Int
      OBVIOUS
    <3> QED
      BY <3>1, FS_Interval
  <2>3. IsFiniteSet(Rows) /\ IsFiniteSet(1 .. cfg.tools.calls)
    BY <2>1, <2>2
  <2> QED
    BY <2>3, FS_Product DEF CallsOf
<1>3. Running = {}
  BY <1>1 DEF Running, InStage
<1>4. Cardinality(Running) = 0
  BY <1>3, FS_EmptySet
<1>5. cfg.tools.limit \in Nat
  BY <1>1, ToolsType
<1> QED
  BY <1>1, <1>2, <1>4, <1>5 DEF PermitsOK

(* A step that leaves the set of running calls alone.                      *)
LEMMA SameRunning ==
  ASSUME PermitsOK, cfg' = cfg, call' = [c \in CallsOf(Rows) |-> call'[c]],
         \A c \in CallsOf(Rows) : call'[c] = "running" <=> call[c] = "running",
         permits' \in Nat, returning' \in Nat, permits' + returning' = permits + returning
  PROVE  PermitsOK'
<1>1. CallsOf(Rows)' = CallsOf(Rows)
  BY DEF CallsOf, Rows
<1>2. Running' = Running
  BY <1>1 DEF Running, InStage
<1>3. Limited => permits' + Cardinality(Running) + returning' = cfg.tools.limit
  BY RunningFinite DEF PermitsOK
<1> QED
  BY <1>1, <1>2, <1>3 DEF PermitsOK, Limited

LEMMA CallStepKeepsPermits ==
  ASSUME PermitsOK, cfg' = cfg, NEW c \in CallsOf(Rows), CallStep(c)
  PROVE  PermitsOK'
<1> DEFINE own == CallsOf(OwnRows(WorkerOf(c[1])))
           w == WorkerOf(c[1])
<1>1. /\ call = [d \in CallsOf(Rows) |-> call[d]] /\ permits \in Nat /\ returning \in Nat
      /\ IsFiniteSet(Running) /\ Cardinality(Running) \in Nat
      /\ Limited => permits + Cardinality(Running) + returning = cfg.tools.limit
  BY RunningFinite DEF PermitsOK
<1>2. CallsOf(Rows)' = CallsOf(Rows)
  BY DEF CallsOf, Rows
<1>3. cfg.tools.limit \in Nat
  BY ToolsType DEF PermitsOK
<1>4. ASSUME NEW stage, call' = [call EXCEPT ![c] = stage]
      PROVE  /\ call' = [d \in CallsOf(Rows) |-> call'[d]]
             /\ \A d \in CallsOf(Rows) : call'[d] = IF d = c THEN stage ELSE call[d]
  BY <1>1, <1>4
<1>5. ASSUME ~Limited, call' = [d \in CallsOf(Rows) |-> call'[d]], permits' \in Nat, returning' \in Nat
      PROVE  PermitsOK'
  BY <1>2, <1>5 DEF PermitsOK, Limited
<1>6. CASE StartOnThread(c, own, cfg.tools)
  <2>1. PICK stage \in {"acquiring", "running"} :
          call' = [call EXCEPT ![c] = stage] /\ (cfg.tools.limit > 0 => stage = "acquiring")
    BY <1>6 DEF StartOnThread
  <2>2. call[c] = "queued" /\ permits' = permits /\ returning' = returning
    BY <1>6 DEF StartOnThread
  <2>3. CASE Limited
    <3>1. stage = "acquiring"
      BY <2>1, <2>3 DEF Limited
    <3>2. \A d \in CallsOf(Rows) : call'[d] = "running" <=> call[d] = "running"
      BY <1>4, <2>1, <2>2, <3>1
    <3> QED
      BY <1>1, <1>4, <2>1, <2>2, <3>2, SameRunning
  <2> QED
    BY <1>1, <1>4, <1>5, <2>1, <2>2, <2>3
<1>7. CASE AcquirePermit(c)
  <2>1. /\ call[c] = "acquiring" /\ call' = [call EXCEPT ![c] = "running"]
        /\ permits > 0 /\ permits' = permits - 1 /\ returning' = returning
    BY <1>7 DEF AcquirePermit
  <2>2. /\ call' = [d \in CallsOf(Rows) |-> call'[d]]
        /\ \A d \in CallsOf(Rows) : call'[d] = IF d = c THEN "running" ELSE call[d]
    BY <1>4, <2>1
  <2>3. Running' = Running \cup {c} /\ c \notin Running
    BY <1>2, <2>1, <2>2 DEF Running, InStage
  <2>4. Cardinality(Running') = Cardinality(Running) + 1
    BY <1>1, <2>3, FS_AddElement
  <2>5. permits' \in Nat /\ permits' + 1 = permits
    BY <1>1, <2>1
  <2>6. Limited => permits' + Cardinality(Running') + returning' = cfg.tools.limit
    BY <1>1, <2>1, <2>4, <2>5
  <2> QED
    BY <1>1, <1>2, <2>1, <2>2, <2>5, <2>6 DEF PermitsOK, Limited
<1>8. CASE cfg.tools.kind = "mcp" /\ AcquireToken(c, w, cfg.tools)
  <2>1. call' = [call EXCEPT ![c] = "running"] /\ permits' = permits /\ returning' = returning
    BY <1>8 DEF AcquireToken
  <2>2. ~Limited
    BY <1>8 DEF Limited
  <2> QED
    BY <1>1, <1>4, <1>5, <2>1, <2>2
<1>9. CASE Answer(c, cfg.tools)
  <2>1. /\ call[c] = "running" /\ call' = [call EXCEPT ![c] = "done"] /\ permits' = permits
        /\ returning' = returning + (IF cfg.tools.kind = "search" /\ cfg.tools.limit > 0 THEN 1 ELSE 0)
    BY <1>9 DEF Answer
  <2>2. /\ call' = [d \in CallsOf(Rows) |-> call'[d]]
        /\ \A d \in CallsOf(Rows) : call'[d] = IF d = c THEN "done" ELSE call[d]
    BY <1>4, <2>1
  <2>3. Running' = Running \ {c} /\ c \in Running
    BY <1>2, <2>1, <2>2 DEF Running, InStage
  <2>4. Cardinality(Running') = Cardinality(Running) - 1
    BY <1>1, <2>3, FS_RemoveElement
  <2>5. CASE Limited
    <3>1. returning' = returning + 1
      BY <2>1, <2>5 DEF Limited
    <3>2. permits' + Cardinality(Running') + returning' = cfg.tools.limit
      BY <1>1, <2>1, <2>4, <2>5, <3>1
    <3> QED
      BY <1>1, <1>2, <2>1, <2>2, <3>1, <3>2 DEF PermitsOK, Limited
  <2>6. CASE ~Limited
    <3>1. returning' = returning
      BY <1>1, <2>1, <2>6 DEF Limited
    <3> QED
      BY <1>1, <1>5, <2>1, <2>2, <2>6, <3>1
  <2> QED
    BY <2>5, <2>6
<1> QED
  BY <1>6, <1>7, <1>8, <1>9 DEF CallStep

LEMMA PermitsStep == PermitsOK /\ [Next]_vars => PermitsOK'
<1> SUFFICES ASSUME PermitsOK, [Next]_vars PROVE PermitsOK'
  OBVIOUS
<1>1. /\ call = [d \in CallsOf(Rows) |-> call[d]] /\ permits \in Nat /\ returning \in Nat
  BY DEF PermitsOK
<1>2. ASSUME cfg' = cfg, UNCHANGED toolVars PROVE PermitsOK'
  BY <1>1, <1>2, SameRunning DEF toolVars
<1>3. ASSUME NEW r \in Rows, CallTools(r) PROVE PermitsOK'
  <2>1. cfg' = cfg /\ Started(r) = {}
    BY <1>3 DEF CallTools, batchVars
  <2>2. PICK n \in 1 .. cfg.tools.calls, malformed \in SUBSET (1 .. cfg.tools.calls) :
          StartCalls({r} \X (1 .. n), {r} \X malformed, cfg.tools)
    BY <1>3 DEF CallTools
  <2>3. /\ permits' = permits /\ returning' = returning
        /\ call' = [c \in CallsOf(Rows) |->
                      IF c \in ({r} \X (1 .. n)) \cap ({r} \X malformed) THEN "done"
                      ELSE IF c \in {r} \X (1 .. n) THEN FirstStage(cfg.tools) ELSE call[c]]
    BY <1>1, <2>2 DEF StartCalls
  <2>4. CASE Limited
    <3>1. FirstStage(cfg.tools) = "queued"
      BY <2>4 DEF Limited, FirstStage
    <3>2. ASSUME NEW c \in {r} \X (1 .. n) PROVE call[c] = "none"
      <4>1. cfg.tools.calls \in Nat
        BY ToolsType DEF PermitsOK
      <4>2. c \in CallsOf({r})
        BY <4>1 DEF CallsOf
      <4> QED
        BY <2>1, <4>2 DEF Started
    <3>3. \A c \in CallsOf(Rows) : call'[c] = "running" <=> call[c] = "running"
      BY <2>3, <3>1, <3>2
    <3>4. call' = [c \in CallsOf(Rows) |-> call'[c]]
      BY <2>3
    <3> QED
      BY <1>1, <2>1, <2>3, <3>3, <3>4, SameRunning
  <2>5. CASE ~Limited
    <3>1. CallsOf(Rows)' = CallsOf(Rows)
      BY <2>1 DEF CallsOf, Rows
    <3>2. call' = [c \in CallsOf(Rows) |-> call'[c]]
      BY <2>3
    <3> QED
      BY <1>1, <2>1, <2>3, <2>5, <3>1, <3>2 DEF PermitsOK, Limited
  <2> QED
    BY <2>4, <2>5
<1>4. ASSUME NEW r \in Rows, ToolsAnswer(r) PROVE PermitsOK'
  <2>1. cfg' = cfg /\ CollectAnswers(Started(r))
    BY <1>4 DEF ToolsAnswer, batchVars
  <2>2. /\ permits' = permits /\ returning' = returning
        /\ call' = [c \in CallsOf(Rows) |-> IF c \in Started(r) THEN "none" ELSE call[c]]
        /\ \A c \in Started(r) : call[c] = "done"
    BY <1>1, <2>1 DEF CollectAnswers
  <2>3. \A c \in CallsOf(Rows) : call'[c] = "running" <=> call[c] = "running"
    BY <2>2
  <2>4. call' = [c \in CallsOf(Rows) |-> call'[c]]
    BY <2>2
  <2> QED
    BY <1>1, <2>1, <2>2, <2>3, <2>4, SameRunning
<1>5. CASE ToolStep
  <2>1. cfg' = cfg
    BY <1>5 DEF ToolStep, batchVars
  <2>2. CASE ExecuteRelease
    <3>1. call' = call /\ permits' = permits + 1 /\ returning > 0 /\ returning' = returning - 1
      BY <2>2 DEF ExecuteRelease
    <3>2. permits' \in Nat /\ returning' \in Nat /\ permits' + returning' = permits + returning
      BY <1>1, <3>1
    <3> QED
      BY <1>1, <2>1, <3>1, <3>2, SameRunning
  <2> QED
    BY <1>5, <2>1, <2>2, CallStepKeepsPermits DEF ToolStep
<1>6. \/ cfg' = cfg /\ UNCHANGED toolVars
      \/ ToolStep
      \/ \E r \in Rows : CallTools(r) \/ ToolsAnswer(r)
  BY DEF Next, StartStep, vars, AgentStep, RewardStep, RejectBatch, StartRound, EndRound, RaiseRound, Prepare,
         AskEngine, EngineAnswers, InteractionAnswers, AskReward, batchVars
<1> QED
  BY <1>2, <1>3, <1>4, <1>5, <1>6

(* For any number of rows, workers, threads and parallel calls no permit   *)
(* is lost or given twice, so that never more tool calls run than the      *)
(* limit (SearchExecutionWorker.execute, search_tool.py:89).               *)
THEOREM LimitKept == Spec => []ToolsWithinLimit
<1>1. PermitsOK => ToolsWithinLimit
  BY DEF PermitsOK, ToolsWithinLimit, Limited, Running
<1> QED
  BY <1>1, PermitsInit, PermitsStep, PTL DEF Spec

-----------------------------------------------------------------------------
(* Sticky sessions.  The entries of the rows of this round are the last of *)
(* the cache, each with the one server the row was sent to, so that what   *)
(* gives way to a new row is an entry of an earlier round.                 *)

Sessions == [request : Nat \X Nat, server : Servers]
Current(entry, now) == entry.request[1] = now

CacheOK(e, own, now, sv) ==
  /\ \A i, j \in 1 .. Len(e) : e[i].request = e[j].request => i = j
  /\ \A i \in 1 .. Len(e) : e[i].request[1] <= now
  /\ \A i, j \in 1 .. Len(e) : i < j /\ Current(e[i], now) => Current(e[j], now)
  /\ \A i \in 1 .. Len(e) : Current(e[i], now) =>
       e[i].request[2] \in own /\ sv[e[i].request[2]] = {e[i].server}
  /\ \A r \in own : sv[r] # {} => \E i \in 1 .. Len(e) : e[i].request = <<now, r>>

(* Reading an entry moves it to the end and the others up.                 *)
LEMMA TouchedEntries ==
  ASSUME NEW S, NEW e \in Seq(S), NEW i \in 1 .. Len(e)
  PROVE  LET t == SubSeq(e, 1, i - 1) \o SubSeq(e, i + 1, Len(e)) \o <<e[i]>>
         IN  /\ t \in Seq(S) /\ Len(t) = Len(e)
             /\ \A j \in 1 .. Len(e) :
                  t[j] = e[IF j < i THEN j ELSE IF j < Len(e) THEN j + 1 ELSE i]
<1> DEFINE n == Len(e)
           front == SubSeq(e, 1, i - 1)
           back == SubSeq(e, i + 1, Len(e))
           both == front \o back
           t == both \o <<e[i]>>
<1>1. n \in Nat /\ i \in Nat /\ 1 <= i /\ i <= n /\ e[i] \in S
  OBVIOUS
<1>2. front \in Seq(S) /\ Len(front) = i - 1 /\ \A j \in 1 .. i - 1 : front[j] = e[j]
  BY <1>1
<1>3. back \in Seq(S) /\ Len(back) = n - i /\ \A j \in 1 .. n - i : back[j] = e[j + i]
  BY <1>1
<1> HIDE DEF n, front, back
<1>4. /\ both \in Seq(S) /\ Len(both) = n - 1
      /\ \A j \in 1 .. n - 1 : both[j] = IF j < i THEN e[j] ELSE e[j + 1]
  <2>1. both \in Seq(S) /\ Len(both) = n - 1
    BY <1>1, <1>2, <1>3
  <2>2. ASSUME NEW j \in 1 .. n - 1, j < i PROVE both[j] = e[j]
    BY <1>1, <1>2, <1>3, <2>2
  <2>3. ASSUME NEW j \in 1 .. n - 1, ~ (j < i) PROVE both[j] = e[j + 1]
    <3>1. j - (i - 1) \in 1 .. n - i /\ j - (i - 1) + i = j + 1
      BY <1>1, <2>3
    <3>2. both[j] = back[j - (i - 1)]
      BY <1>1, <1>2, <1>3, <2>3
    <3> QED
      BY <1>3, <3>1, <3>2
  <2> QED
    BY <2>1, <2>2, <2>3
<1> HIDE DEF both
<1>5. t \in Seq(S) /\ Len(t) = n /\ t[n] = e[i] /\ \A j \in 1 .. n - 1 : t[j] = both[j]
  BY <1>1, <1>4, SMTT(40)
<1>6. ASSUME NEW j \in 1 .. n PROVE t[j] = e[IF j < i THEN j ELSE IF j < n THEN j + 1 ELSE i]
  <2>1. CASE j < n
    <3>1. j \in 1 .. n - 1
      BY <1>1, <2>1
    <3> QED
      BY <1>1, <1>4, <1>5, <2>1, <3>1
  <2>2. CASE j = n
    BY <1>1, <1>5, <2>2
  <2>3. j < n \/ j = n
    BY <1>1
  <2> QED
    BY <2>1, <2>2, <2>3
<1> QED
  BY <1>5, <1>6 DEF n, front, back, both

LEMMA TouchedOK ==
  ASSUME NEW own, NEW now \in Nat, NEW sv, NEW e \in Seq(Sessions), CacheOK(e, own, now, sv),
         NEW request, Current([request |-> request], now), NEW i \in 1 .. Len(e), e[i].request = request
  PROVE  Touched(e, request) \in Seq(Sessions) /\ CacheOK(Touched(e, request), own, now, sv)
<1> DEFINE n == Len(e)
           p(j) == IF j < i THEN j ELSE IF j < n THEN j + 1 ELSE i
           t == Touched(e, request)
<1>1. i = CHOOSE k \in 1 .. Len(e) : e[k].request = request
  BY DEF CacheOK
<1>2. t = SubSeq(e, 1, i - 1) \o SubSeq(e, i + 1, Len(e)) \o <<e[i]>>
  BY <1>1 DEF Touched
<1>3. t \in Seq(Sessions) /\ Len(t) = n /\ \A j \in 1 .. n : t[j] = e[p(j)]
  <2> DEFINE u == SubSeq(e, 1, i - 1) \o SubSeq(e, i + 1, Len(e)) \o <<e[i]>>
  <2>1. /\ u \in Seq(Sessions) /\ Len(u) = Len(e)
        /\ \A j \in 1 .. Len(e) : u[j] = e[IF j < i THEN j ELSE IF j < Len(e) THEN j + 1 ELSE i]
    BY TouchedEntries
  <2>2. t = u
    BY <1>2
  <2> HIDE DEF t, u
  <2> QED
    BY <2>1, <2>2
<1>4. n \in Nat /\ i \in 1 .. n
  OBVIOUS
<1> HIDE DEF t, n
<1>5. /\ \A j \in 1 .. n : p(j) \in 1 .. n
      /\ \A j, k \in 1 .. n : p(j) = p(k) => j = k
      /\ \A j, k \in 1 .. n : j < k /\ k < n => p(j) < p(k)
      /\ p(n) = i
      /\ \A k \in 1 .. n : \E j \in 1 .. n : p(j) = k
  <2>1. \A k \in 1 .. n : \E j \in 1 .. n : p(j) = k
    <3> SUFFICES ASSUME NEW k \in 1 .. n PROVE \E j \in 1 .. n : p(j) = k
      OBVIOUS
    <3>1. CASE k < i
      BY <1>4, <3>1
    <3>2. CASE k = i
      <4>1. n \in 1 .. n /\ p(n) = i
        BY <1>4
      <4> QED
        BY <3>2, <4>1
    <3>3. CASE k > i
      <4>1. k - 1 \in 1 .. n /\ p(k - 1) = k
        BY <1>4, <3>3
      <4> QED
        BY <4>1
    <3> QED
      BY <1>4, <3>1, <3>2, <3>3
  <2> QED
    BY <1>4, <2>1
<1> HIDE DEF p
<1>6. Current(e[i], now)
  BY DEF Current
<1>7. /\ \A j, k \in 1 .. n : e[j].request = e[k].request => j = k
      /\ \A j \in 1 .. n : e[j].request[1] <= now
      /\ \A j, k \in 1 .. n : j < k /\ Current(e[j], now) => Current(e[k], now)
      /\ \A j \in 1 .. n : Current(e[j], now) =>
           e[j].request[2] \in own /\ sv[e[j].request[2]] = {e[j].server}
      /\ \A r \in own : sv[r] # {} => \E j \in 1 .. n : e[j].request = <<now, r>>
  BY DEF CacheOK, n
<1>8. \A j, k \in 1 .. n : t[j].request = t[k].request => j = k
  <2> SUFFICES ASSUME NEW j \in 1 .. n, NEW k \in 1 .. n, t[j].request = t[k].request
               PROVE  j = k
    OBVIOUS
  <2>1. p(j) \in 1 .. n /\ p(k) \in 1 .. n /\ e[p(j)].request = e[p(k)].request
    BY <1>3, <1>5
  <2>2. p(j) = p(k)
    BY <1>7, <2>1
  <2> QED
    BY <1>5, <2>2
<1>9. \A j, k \in 1 .. n : j < k /\ Current(t[j], now) => Current(t[k], now)
  <2> SUFFICES ASSUME NEW j \in 1 .. n, NEW k \in 1 .. n, j < k, Current(t[j], now)
               PROVE  Current(t[k], now)
    OBVIOUS
  <2>1. CASE k < n
    <3>1. p(j) \in 1 .. n /\ p(k) \in 1 .. n /\ p(j) < p(k)
      BY <1>5, <2>1
    <3>2. t[j] = e[p(j)] /\ t[k] = e[p(k)]
      BY <1>3
    <3> QED
      BY <1>7, <3>1, <3>2
  <2>2. CASE k = n
    BY <1>3, <1>5, <1>6, <2>2
  <2> QED
    BY <1>4, <2>1, <2>2
<1>10. \A r \in own : sv[r] # {} => \E j \in 1 .. n : t[j].request = <<now, r>>
  <2> SUFFICES ASSUME NEW r \in own, sv[r] # {} PROVE \E j \in 1 .. n : t[j].request = <<now, r>>
    OBVIOUS
  <2>1. PICK k \in 1 .. n : e[k].request = <<now, r>>
    BY <1>7
  <2>2. PICK j \in 1 .. n : p(j) = k
    BY <1>5
  <2> QED
    BY <1>3, <2>1, <2>2
<1>11. \A j \in 1 .. n : /\ t[j].request[1] <= now
                         /\ Current(t[j], now) =>
                              t[j].request[2] \in own /\ sv[t[j].request[2]] = {t[j].server}
  <2> SUFFICES ASSUME NEW j \in 1 .. n
               PROVE  /\ t[j].request[1] <= now
                      /\ Current(t[j], now) =>
                           t[j].request[2] \in own /\ sv[t[j].request[2]] = {t[j].server}
    OBVIOUS
  <2>1. p(j) \in 1 .. n /\ t[j] = e[p(j)]
    BY <1>3, <1>5
  <2> QED
    BY <1>7, <2>1
<1>12. CacheOK(t, own, now, sv)
  BY <1>3, <1>8, <1>9, <1>10, <1>11 DEF CacheOK
<1> QED
  BY <1>3, <1>12 DEF t

(* A full cache begins with an entry of an earlier round when a row of this *)
(* round has no entry yet: the others are fewer than the rows of a worker. *)
LEMMA OldestIsOld ==
  ASSUME NEW own, IsFiniteSet(own), Cardinality(own) <= CacheSize,
         NEW now \in Nat, NEW sv, NEW e \in Seq(Sessions), CacheOK(e, own, now, sv),
         NEW r \in own, ~ \E i \in 1 .. Len(e) : e[i].request = <<now, r>>, Len(e) >= CacheSize
  PROVE  Len(e) >= 1 /\ ~ Current(e[1], now)
<1> DEFINE n == Len(e)
           rest == own \ {r}
           row == [i \in 1 .. n |-> e[i].request[2]]
<1>1. n \in Nat /\ CacheSize \in Nat \ {0} /\ \A i \in 1 .. n : e[i] \in Sessions
  BY ServersAssumption
<1>2. n >= 1
  BY <1>1
<1>3. IsFiniteSet(rest) /\ Cardinality(rest) = Cardinality(own) - 1 /\ Cardinality(own) \in Nat
  BY FS_RemoveElement, FS_CardinalityType
<1>4. SUFFICES ASSUME Current(e[1], now) PROVE FALSE
  BY <1>2
<1>5. \A i \in 1 .. n : Current(e[i], now)
  BY <1>1, <1>2, <1>4 DEF CacheOK
<1>6. \A i \in 1 .. n : e[i].request = <<now, e[i].request[2]>>
  BY <1>1, <1>5, SMTT(40) DEF Current, Sessions
<1>7. \A i \in 1 .. n : row[i] \in rest
  BY <1>5, <1>6 DEF CacheOK
<1>8. \A i, j \in 1 .. n : row[i] = row[j] => i = j
  <2> SUFFICES ASSUME NEW i \in 1 .. n, NEW j \in 1 .. n, row[i] = row[j] PROVE i = j
    OBVIOUS
  <2>1. e[i].request = e[j].request
    BY <1>6
  <2> QED
    BY <2>1 DEF CacheOK
<1> HIDE DEF n, rest, row
<1>9. row \in [1 .. n -> rest]
  BY <1>7 DEF row
<1>10. IsFiniteSet(1 .. n) /\ Cardinality(1 .. n) = n
  <2>1. 1 \in Int /\ n \in Int
    BY <1>1
  <2>2. IsFiniteSet(1 .. n) /\ Cardinality(1 .. n) = IF 1 > n THEN 0 ELSE n - 1 + 1
    BY <2>1, FS_Interval
  <2> QED
    BY <1>1, <1>2, <2>2
<1>11. ~ (Cardinality(rest) < n)
  <2> SUFFICES ASSUME Cardinality(rest) < n PROVE FALSE
    OBVIOUS
  <2>1. \E i, j \in 1 .. n : i # j /\ row[i] = row[j]
    BY <1>3, <1>9, <1>10, FS_PigeonHole
  <2> QED
    BY <1>8, <2>1
<1>12. n >= CacheSize
  BY DEF n
<1> QED
  BY <1>1, <1>3, <1>11, <1>12

LEMMA StoredOK ==
  ASSUME NEW own, IsFiniteSet(own), Cardinality(own) <= CacheSize,
         NEW now \in Nat, NEW sv, NEW e \in Seq(Sessions), CacheOK(e, own, now, sv),
         NEW r \in own, r \in Nat, ~ \E i \in 1 .. Len(e) : e[i].request = <<now, r>>,
         NEW s \in Servers, NEW sw, sw[r] = {s}, \A q \in own \ {r} : sw[q] = sv[q]
  PROVE  LET t == Stored(e, [request |-> <<now, r>>, server |-> s])
         IN  t \in Seq(Sessions) /\ CacheOK(t, own, now, sw)
<1> DEFINE new == [request |-> <<now, r>>, server |-> s]
           t == Stored(e, new)
           d == IF Len(e) >= CacheSize THEN 1 ELSE 0
           n == Len(e) - d
<1>1. Len(e) \in Nat /\ CacheSize \in Nat \ {0} /\ new \in Sessions
  BY ServersAssumption DEF Sessions
<1>2. d = 1 => Len(e) >= 1 /\ ~ Current(e[1], now)
  <2>1. CASE Len(e) >= CacheSize
    <3>1. Len(e) >= 1 /\ ~ Current(e[1], now)
      BY <2>1, OldestIsOld
    <3> QED
      BY <3>1
  <2>2. CASE ~ (Len(e) >= CacheSize)
    BY <2>2
  <2> QED
    BY <2>1, <2>2
<1>3. n \in Nat /\ d \in {0, 1} /\ Len(e) = n + d
  BY <1>1, <1>2
<1>4. /\ t \in Seq(Sessions) /\ Len(t) = n + 1 /\ t[n + 1] = new
      /\ \A j \in 1 .. n : t[j] = e[j + d]
  <2>1. CASE Len(e) >= CacheSize
    <3>1. t = Append(Tail(e), new) /\ d = 1 /\ n = Len(e) - 1 /\ Len(e) >= 1
      BY <1>2, <2>1 DEF Stored
    <3> HIDE DEF t, new, n, d
    <3>2. Tail(e) \in Seq(Sessions) /\ Len(Tail(e)) = n /\ \A j \in 1 .. n : Tail(e)[j] = e[j + 1]
      BY <1>1, <1>3, <3>1
    <3> QED
      BY <1>1, <1>3, <3>1, <3>2
  <2>2. CASE ~ (Len(e) >= CacheSize)
    <3>1. t = Append(e, new) /\ d = 0 /\ n = Len(e)
      BY <1>1, <2>2 DEF Stored
    <3> HIDE DEF t, new, n, d
    <3> QED
      BY <1>1, <1>3, <3>1
  <2> QED
    BY <2>1, <2>2
<1>5. new.request = <<now, r>> /\ new.server = s /\ Current(new, now)
  BY DEF Current
<1> HIDE DEF t, new, n, d
<1>6. \A j \in 1 .. n + 1 : j \in 1 .. n \/ j = n + 1
  BY <1>3
<1>7. \A j \in 1 .. n : j + d \in 1 .. Len(e)
  BY <1>3
<1>8. /\ \A j, k \in 1 .. Len(e) : e[j].request = e[k].request => j = k
      /\ \A j \in 1 .. Len(e) : e[j].request[1] <= now
      /\ \A j, k \in 1 .. Len(e) : j < k /\ Current(e[j], now) => Current(e[k], now)
      /\ \A j \in 1 .. Len(e) : Current(e[j], now) =>
           e[j].request[2] \in own /\ sv[e[j].request[2]] = {e[j].server}
      /\ \A q \in own : sv[q] # {} => \E j \in 1 .. Len(e) : e[j].request = <<now, q>>
  BY DEF CacheOK
<1>9. \A j \in 1 .. n : t[j].request # <<now, r>>
  BY <1>4, <1>7
<1>10. \A j, k \in 1 .. n + 1 : t[j].request = t[k].request => j = k
  <2> SUFFICES ASSUME NEW j \in 1 .. n + 1, NEW k \in 1 .. n + 1, t[j].request = t[k].request
               PROVE  j = k
    OBVIOUS
  <2>1. CASE j \in 1 .. n /\ k \in 1 .. n
    <3>1. j + d = k + d
      BY <1>4, <1>7, <1>8, <2>1
    <3> QED
      BY <1>3, <3>1
  <2>2. CASE j = n + 1 \/ k = n + 1
    BY <1>4, <1>5, <1>6, <1>9, <2>2
  <2> QED
    BY <1>6, <2>1, <2>2
<1>11. \A j, k \in 1 .. n + 1 : j < k /\ Current(t[j], now) => Current(t[k], now)
  <2> SUFFICES ASSUME NEW j \in 1 .. n + 1, NEW k \in 1 .. n + 1, j < k, Current(t[j], now)
               PROVE  Current(t[k], now)
    OBVIOUS
  <2>1. CASE k \in 1 .. n
    <3>1. j \in 1 .. n /\ j + d < k + d
      BY <1>3, <2>1
    <3> QED
      BY <1>4, <1>7, <1>8, <2>1, <3>1
  <2>2. CASE k = n + 1
    BY <1>4, <1>5, <2>2
  <2> QED
    BY <1>6, <2>1, <2>2
<1>12. \A j \in 1 .. n + 1 : t[j].request[1] <= now
  BY <1>4, <1>5, <1>6, <1>7, <1>8, SMTT(30)
<1>13. ASSUME NEW j \in 1 .. n + 1, Current(t[j], now)
       PROVE  t[j].request[2] \in own /\ sw[t[j].request[2]] = {t[j].server}
  <2>1. CASE j \in 1 .. n
    <3>1. j + d \in 1 .. Len(e) /\ t[j] = e[j + d] /\ t[j] \in Sessions
      BY <1>4, <1>7, <2>1
    <3>2. t[j].request[2] \in own /\ sv[t[j].request[2]] = {t[j].server}
      BY <1>8, <1>13, <3>1
    <3>3. t[j].request = <<now, t[j].request[2]>>
      BY <1>13, <3>1 DEF Current, Sessions
    <3> QED
      BY <1>9, <2>1, <3>2, <3>3
  <2>2. CASE j = n + 1
    BY <1>4, <1>5, <2>2
  <2> QED
    BY <1>6, <2>1, <2>2
<1>14. ASSUME NEW q \in own, sw[q] # {} PROVE \E j \in 1 .. n + 1 : t[j].request = <<now, q>>
  <2>1. CASE q = r
    <3>1. n + 1 \in 1 .. n + 1
      BY <1>3
    <3> QED
      BY <1>4, <1>5, <2>1, <3>1
  <2>2. CASE q # r
    <3>1. PICK k \in 1 .. Len(e) : e[k].request = <<now, q>>
      BY <1>8, <1>14, <2>2
    <3>2. Current(e[k], now)
      BY <3>1 DEF Current
    <3>3. d = 1 => k # 1
      BY <1>2, <3>2
    <3>4. k - d \in 1 .. n /\ (k - d) + d = k
      BY <1>3, <3>3
    <3>5. k - d \in 1 .. n + 1
      BY <1>3, <3>4
    <3> QED
      BY <1>4, <3>1, <3>4, <3>5
  <2> QED
    BY <2>1, <2>2
<1>15. CacheOK(t, own, now, sw)
  BY <1>4, <1>10, <1>11, <1>12, <1>13, <1>14 DEF CacheOK
<1> QED
  BY <1>4, <1>15 DEF t, new

(* The rows of a worker: as many as every other worker has.                *)
LEMMA Division ==
  ASSUME NEW d \in Nat \ {0}, NEW x \in Nat
  PROVE  /\ x = d * (x \div d) + (x % d) /\ x \div d \in Nat /\ x % d \in 0 .. d - 1
OBVIOUS

LEMMA SmallerProduct ==
  ASSUME NEW d \in Nat, NEW a \in Nat, NEW b \in Nat, d * a < d * b
  PROVE  a < b
<1>1. SUFFICES ASSUME b <= a PROVE FALSE
  OBVIOUS
<1>2. a - b \in Nat /\ a = b + (a - b)
  BY <1>1
<1>3. d * a = d * b + d * (a - b) /\ d * (a - b) >= 0
  BY <1>2
<1> QED
  BY <1>3

LEMMA Slices ==
  ASSUME NEW n \in Nat, NEW w \in Nat \ {0}, n % w = 0, NEW r \in 1 .. n
  PROVE  LET size == n \div w
             m == (r - 1) \div size
         IN  /\ size \in Nat \ {0} /\ m \in 0 .. w - 1
             /\ r \in size * m + 1 .. size * m + size
<1> DEFINE size == n \div w
           m == (r - 1) \div size
<1>1. n = w * size /\ size \in Nat
  BY Division
<1> HIDE DEF size
<1>2. size # 0
  BY <1>1
<1>3. r - 1 \in Nat
  OBVIOUS
<1>4. r - 1 = size * m + ((r - 1) % size) /\ m \in Nat /\ (r - 1) % size \in 0 .. size - 1
  BY <1>1, <1>2, <1>3, Division
<1> HIDE DEF m
<1> DEFINE rest == (r - 1) % size
<1>5. rest \in 0 .. size - 1 /\ r - 1 = size * m + rest
  BY <1>4
<1> HIDE DEF rest
<1>6. size * m \in Nat /\ size * w = n
  BY <1>1, <1>4
<1>7. size * m < size * w
  <2> DEFINE p == size * m
             q == size * w
  <2>1. p \in Nat /\ q = n /\ r - 1 = p + rest /\ rest \in Nat
    BY <1>1, <1>5, <1>6
  <2> HIDE DEF p, q
  <2>2. p < q
    BY <2>1
  <2> QED
    BY <2>2 DEF p, q
<1>8. m < w
  BY <1>1, <1>4, <1>7, SmallerProduct
<1>9. r \in size * m + 1 .. size * m + size
  BY <1>1, <1>5, <1>6
<1> QED
  BY <1>1, <1>2, <1>4, <1>8, <1>9 DEF size, m

RowsAt(m) == {r \in Rows : WorkerOf(r) = m}

LEMMA WorkersOfRows ==
  ASSUME cfg \in Configs
  PROVE  /\ Rows \subseteq Nat
         /\ \A r \in Rows : WorkerOf(r) \in Managers
         /\ \A r \in Rows : /\ IsFiniteSet(RowsAt(WorkerOf(r)))
                            /\ Cardinality(RowsAt(WorkerOf(r))) <= CacheSize
<1> DEFINE n == Len(cfg.kinds)
           w == cfg.workers
           size == n \div w
<1>1. /\ n \in Nat /\ Rows = 1 .. n /\ w \in Nat \ {0} /\ n % w = 0
      /\ 0 .. w - 1 \subseteq Managers /\ size <= CacheSize
  BY RolloutConfigsAssumption DEF Rows
<1>2. \A r \in Rows : WorkerOf(r) = (r - 1) \div size
  BY DEF WorkerOf
<1> HIDE DEF n, w
<1>3. ASSUME NEW r \in Rows
      PROVE  /\ size \in Nat \ {0} /\ WorkerOf(r) \in 0 .. w - 1
             /\ r \in size * WorkerOf(r) + 1 .. size * WorkerOf(r) + size
  <2> DEFINE m == (r - 1) \div size
  <2>1. r \in 1 .. n
    BY <1>1
  <2>2. size \in Nat \ {0} /\ m \in 0 .. w - 1 /\ r \in size * m + 1 .. size * m + size
    BY <1>1, <2>1, Slices
  <2>3. WorkerOf(r) = m
    BY <1>2
  <2> HIDE DEF m, size
  <2> QED
    BY <2>2, <2>3
<1> HIDE DEF size
<1>4. ASSUME NEW r \in Rows
      PROVE  /\ IsFiniteSet(RowsAt(WorkerOf(r)))
             /\ Cardinality(RowsAt(WorkerOf(r))) <= CacheSize
  <2> DEFINE a == size * WorkerOf(r)
             all == a + 1 .. a + size
  <2>1. size \in Nat \ {0} /\ a \in Nat
    <3>1. WorkerOf(r) \in Nat /\ size \in Nat \ {0}
      BY <1>1, <1>3
    <3> QED
      BY <3>1
  <2>2. RowsAt(WorkerOf(r)) \subseteq all
    <3>1. ASSUME NEW q \in RowsAt(WorkerOf(r)) PROVE q \in all
      <4>1. q \in Rows /\ WorkerOf(q) = WorkerOf(r)
        BY DEF RowsAt
      <4>2. q \in size * WorkerOf(q) + 1 .. size * WorkerOf(q) + size
        BY <1>3, <4>1
      <4> QED
        BY <4>1, <4>2
    <3> QED
      BY <3>1
  <2> HIDE DEF a
  <2>3. IsFiniteSet(all) /\ Cardinality(all) = size
    <3>1. a + 1 \in Int /\ a + size \in Int
      BY <2>1
    <3>2. IsFiniteSet(all) /\ Cardinality(all) = IF a + 1 > a + size THEN 0 ELSE (a + size) - (a + 1) + 1
      BY <3>1, FS_Interval
    <3> QED
      BY <2>1, <3>2
  <2> HIDE DEF all
  <2>4. /\ IsFiniteSet(RowsAt(WorkerOf(r)))
        /\ Cardinality(RowsAt(WorkerOf(r))) <= Cardinality(all)
    BY <2>2, <2>3, FS_Subset
  <2>5. Cardinality(RowsAt(WorkerOf(r))) \in Nat /\ CacheSize \in Nat
    BY <2>4, FS_CardinalityType, ServersAssumption
  <2> QED
    BY <1>1, <2>1, <2>3, <2>4, <2>5
<1> QED
  BY <1>1, <1>3, <1>4

SessionsInv ==
  /\ cfg \in Configs /\ round \in Nat
  /\ served \in [Rows -> SUBSET Servers]
  /\ sessions \in [Managers -> Seq(Sessions)]
  /\ \A m \in Managers : CacheOK(sessions[m], RowsAt(m), round, served)

LEMMA SessionsInit == Init => SessionsInv
<1> SUFFICES ASSUME Init PROVE SessionsInv
  OBVIOUS
<1>1. /\ cfg \in Configs /\ round = 0 /\ served = [r \in Rows |-> {}]
      /\ sessions = [m \in Managers |-> << >>]
  BY DEF Init, ChooseInit
<1>2. << >> \in Seq(Sessions) /\ Len(<< >>) = 0
  OBVIOUS
<1>3. \A m \in Managers : CacheOK(sessions[m], RowsAt(m), round, served)
  BY <1>1, <1>2 DEF CacheOK, RowsAt
<1> QED
  BY <1>1, <1>2, <1>3 DEF SessionsInv

(* A row that has been served finds the entry of its server, one that has  *)
(* not goes to any server and leaves an entry.                             *)
LEMMA AskKeepsSessions ==
  ASSUME SessionsInv, NEW r \in Rows, AskEngine(r)
  PROVE  SessionsInv'
<1> DEFINE m == WorkerOf(r)
           own == RowsAt(m)
           e == sessions[m]
           request == <<round, r>>
<1>1. PICK s \in Servers :
        ChooseServer(m, request, s) /\ served' = [served EXCEPT ![r] = @ \cup {s}]
  BY DEF AskEngine
<1>2. UNCHANGED <<cfg, round>>
  BY DEF AskEngine, batchVars
<1>3. /\ m \in Managers /\ r \in Nat /\ IsFiniteSet(own) /\ Cardinality(own) <= CacheSize /\ r \in own
      /\ e \in Seq(Sessions) /\ CacheOK(e, own, round, served) /\ round \in Nat
  BY WorkersOfRows DEF SessionsInv, RowsAt
<1>4. Rows' = Rows /\ \A k : RowsAt(k)' = RowsAt(k)
  BY <1>2 DEF Rows, RowsAt, WorkerOf
<1>5. served' \in [Rows -> SUBSET Servers]
  BY <1>1 DEF SessionsInv
<1>6. \A k \in Managers : k # m => r \notin RowsAt(k)
  BY DEF RowsAt
<1>7. \A q \in Rows : q # r => served'[q] = served[q]
  BY <1>1 DEF SessionsInv
<1> HIDE DEF m, own, e
<1>8. ASSUME NEW t, sessions' = [sessions EXCEPT ![m] = t],
             t \in Seq(Sessions), CacheOK(t, own, round, served')
      PROVE  SessionsInv'
  <2>1. sessions' \in [Managers -> Seq(Sessions)]
    BY <1>8 DEF SessionsInv
  <2>2. ASSUME NEW k \in Managers PROVE CacheOK(sessions'[k], RowsAt(k), round, served')
    <3>1. CASE k = m
      BY <1>3, <1>8, <3>1 DEF SessionsInv, own
    <3>2. CASE k # m
      <4>1. sessions'[k] = sessions[k] /\ CacheOK(sessions[k], RowsAt(k), round, served)
        BY <1>8, <3>2 DEF SessionsInv
      <4>2. \A q \in RowsAt(k) : served'[q] = served[q]
        BY <1>6, <1>7, <3>2 DEF RowsAt
      <4> QED
        BY <4>1, <4>2, ZenonT(30) DEF CacheOK
    <3> QED
      BY <3>1, <3>2
  <2> QED
    BY <1>2, <1>4, <1>5, <2>1, <2>2 DEF SessionsInv
<1>9. CASE Known(m, request)
  <2>1. PICK i \in 1 .. Len(e) : e[i].request = request
    BY <1>9 DEF Known, e
  <2>2. Current([request |-> request], round) /\ Current(e[i], round)
    BY <2>1 DEF Current
  <2>3. SessionOf(m, request) = e[i]
    <3>1. \A x \in {e[j] : j \in 1 .. Len(e)} : x.request = request => x = e[i]
      BY <1>3, <2>1 DEF CacheOK
    <3>2. e[i] \in {e[j] : j \in 1 .. Len(e)}
      OBVIOUS
    <3>3. SessionOf(m, request) = CHOOSE x \in {e[j] : j \in 1 .. Len(e)} : x.request = request
      BY DEF SessionOf, e
    <3> QED
      BY <2>1, <3>1, <3>2, <3>3
  <2>4. s = e[i].server /\ sessions' = [sessions EXCEPT ![m] = Touched(sessions[m], request)]
    BY <1>1, <1>9, <2>3 DEF ChooseServer
  <2>5. served[r] = {s}
    <3>1. e[i].request[2] = r
      BY <2>1
    <3>2. served[e[i].request[2]] = {e[i].server}
      BY <1>3, <2>1, <2>2 DEF CacheOK
    <3> QED
      BY <2>4, <3>1, <3>2
  <2>6. served' = served
    BY <1>1, <2>5 DEF SessionsInv
  <2>7. Touched(e, request) \in Seq(Sessions) /\ CacheOK(Touched(e, request), own, round, served)
    BY <1>3, <2>1, <2>2, TouchedOK
  <2> QED
    BY <1>8, <2>4, <2>6, <2>7 DEF e
<1>10. CASE ~ Known(m, request)
  <2>1. ~ \E i \in 1 .. Len(e) : e[i].request = request
    BY <1>10 DEF Known, e
  <2>2. served[r] = {}
    BY <1>3, <2>1 DEF CacheOK
  <2>3. served'[r] = {s} /\ \A q \in own \ {r} : served'[q] = served[q]
    BY <1>1, <1>7, <2>2 DEF SessionsInv, own, RowsAt
  <2>4. sessions' = [sessions EXCEPT ![m] = Stored(sessions[m], [request |-> request, server |-> s])]
    BY <1>1, <1>10 DEF ChooseServer
  <2> DEFINE t == Stored(e, [request |-> request, server |-> s])
  <2>5. t \in Seq(Sessions) /\ CacheOK(t, own, round, served')
    BY <1>3, <2>1, <2>3, StoredOK
  <2> QED
    BY <1>8, <2>4, <2>5 DEF e
<1> QED
  BY <1>9, <1>10

LEMMA SessionsStep == SessionsInv /\ [Next]_vars => SessionsInv'
<1> SUFFICES ASSUME SessionsInv, [Next]_vars PROVE SessionsInv'
  OBVIOUS
<1>1. ASSUME UNCHANGED <<cfg, round, served, sessions>> PROVE SessionsInv'
  <2>1. Rows' = Rows /\ \A m : RowsAt(m)' = RowsAt(m)
    BY <1>1 DEF Rows, RowsAt, WorkerOf
  <2> QED
    BY <1>1, <2>1 DEF SessionsInv
<1>2. CASE \E r \in Rows : AskEngine(r)
  BY <1>2, AskKeepsSessions
<1>3. CASE StartRound
  <2>1. /\ UNCHANGED <<cfg, sessions>> /\ round' = round + 1 /\ served' = [r \in Rows |-> {}]
    BY <1>3 DEF StartRound, chooseVars
  <2>2. Rows' = Rows /\ \A m : RowsAt(m)' = RowsAt(m)
    BY <2>1 DEF Rows, RowsAt, WorkerOf
  <2>3. ASSUME NEW m \in Managers PROVE CacheOK(sessions[m], RowsAt(m), round + 1, served')
    <3> DEFINE e == sessions[m]
    <3>1. \A i \in 1 .. Len(e) : e[i].request[1] \in Nat /\ e[i].request[1] <= round
      <4>1. \A i \in 1 .. Len(e) : e[i] \in Sessions /\ e[i].request[1] <= round
        BY DEF SessionsInv, CacheOK
      <4> QED
        BY <4>1 DEF Sessions
    <3>2. \A i, j \in 1 .. Len(e) : e[i].request = e[j].request => i = j
      BY DEF SessionsInv, CacheOK
    <3> HIDE DEF e
    <3>3. \A i \in 1 .. Len(e) : e[i].request[1] <= round + 1 /\ ~ Current(e[i], round + 1)
      BY <3>1 DEF SessionsInv, Current
    <3>4. \A r \in RowsAt(m) : served'[r] = {}
      BY <2>1 DEF RowsAt
    <3> QED
      BY <3>2, <3>3, <3>4 DEF CacheOK, e
  <2>4. served' \in [Rows' -> SUBSET Servers]
    BY <2>1, <2>2
  <2>5. \A m \in Managers : CacheOK(sessions'[m], RowsAt(m)', round', served')
    BY <2>1, <2>2, <2>3
  <2>6. cfg' \in Configs /\ round' \in Nat /\ sessions' \in [Managers -> Seq(Sessions)]
    BY <2>1 DEF SessionsInv
  <2> QED
    BY <2>4, <2>5, <2>6 DEF SessionsInv
<1>4. \/ UNCHANGED <<cfg, round, served, sessions>> \/ StartRound \/ \E r \in Rows : AskEngine(r)
  BY DEF Next, StartStep, vars, AgentStep, RewardStep, ToolStep, RejectBatch, EndRound,
         RaiseRound, Prepare, EngineAnswers, CallTools, ToolsAnswer, InteractionAnswers,
         AskReward, chooseVars, batchVars
<1> QED
  BY <1>1, <1>2, <1>3, <1>4

(* Every turn of a row goes to the server of its first turn, whatever other *)
(* rows and earlier batches the cache of the worker has seen, as long as    *)
(* the rows of a worker fit into it (_choose_server, agent_loop.py:76), for *)
(* every number of rows, workers and servers and every cache size.          *)
THEOREM SessionsStick == Spec => []OneServerPerRequest
<1>1. SessionsInv => OneServerPerRequest
  <2> SUFFICES ASSUME SessionsInv, NEW r \in Rows PROVE Cardinality(served[r]) <= 1
    BY DEF OneServerPerRequest
  <2> DEFINE m == WorkerOf(r)
  <2>1. m \in Managers /\ r \in RowsAt(m) /\ CacheOK(sessions[m], RowsAt(m), round, served)
    BY WorkersOfRows DEF SessionsInv, RowsAt
  <2>2. CASE served[r] = {}
    <3>1. Cardinality({}) = 0
      BY FS_EmptySet
    <3> QED
      BY <2>2, <3>1
  <2>3. CASE served[r] # {}
    <3>1. PICK i \in 1 .. Len(sessions[m]) : sessions[m][i].request = <<round, r>>
      BY <2>1, <2>3 DEF CacheOK
    <3>2. Current(sessions[m][i], round) /\ sessions[m][i].request[2] = r
      BY <3>1 DEF Current
    <3>3. served[r] = {sessions[m][i].server}
      BY <2>1, <3>1, <3>2 DEF CacheOK
    <3>4. Cardinality({sessions[m][i].server}) = 1
      BY FS_Singleton
    <3> QED
      BY <3>3, <3>4
  <2> QED
    BY <2>2, <2>3
<1> QED
  BY <1>1, SessionsInit, SessionsStep, PTL DEF Spec

-----------------------------------------------------------------------------
(* Rewards.  A row is in one place on its way: in the pool of its worker,   *)
(* in the queue of the executor, among the rows the executor holds, or in   *)
(* none of them; what it has been given is its own.                         *)

Distinct(s) == \A i, j \in 1 .. Len(s) : s[i] = s[j] => i = j

Queued(s, state, rows, rw) ==
  s \in Seq(rows) /\ Distinct(s) /\ \A i \in 1 .. Len(s) : rw[s[i]] = state

Apart(s, t) == \A i \in 1 .. Len(s), j \in 1 .. Len(t) : s[i] # t[j]

RewardStates == {"none", "pooled", "started", "waiting", "answered", "scored", "failing", "failed"}

PoolInv ==
  /\ DOMAIN pool = Workers
  /\ \A w \in Workers : Queued(pool[w], "pooled", RowsAt(w), reward)

ExecutorInv ==
  /\ Queued(queue, "waiting", Rows, reward) /\ Queued(taken, "waiting", Rows, reward)
  /\ Apart(queue, taken)
  /\ executor = "running" => Full(taken, cfg.ranks)
  /\ ~ Model => executor = "idle" /\ queue = << >> /\ taken = << >>

AnswerInv ==
  /\ reward \in [Rows -> RewardStates] /\ answer \in [Rows -> Nat]
  /\ \A r \in Rows : reward[r] = "answered" => Model
  /\ \A r \in Rows : reward[r] \in {"answered", "scored"} => answer[r] = r
  /\ cfg.reward = "later" => \A r \in Rows : reward[r] = "none" /\ answer[r] = 0
  /\ manager \in {"starting", "idle"} => \A r \in Rows : reward[r] \in {"none", "scored"}

ScoreInv == cfg \in Configs /\ PoolInv /\ ExecutorInv /\ AnswerInv

(* A queue in which every row is in one state: longer by a row that comes   *)
(* to the state, the same when its rows keep the state, shorter by its head.*)
LEMMA QueueGrows ==
  ASSUME NEW s, NEW state, NEW rows, NEW rw, NEW rx, Queued(s, state, rows, rw),
         NEW r \in rows, rw[r] # state, rx[r] = state,
         \A q \in rows : rw[q] = state => rx[q] = state
  PROVE  Queued(Append(s, r), state, rows, rx)
<1> DEFINE t == Append(s, r)
<1>1. /\ t \in Seq(rows) /\ Len(t) = Len(s) + 1 /\ t[Len(s) + 1] = r
      /\ \A i \in 1 .. Len(s) : t[i] = s[i]
  BY DEF Queued
<1>2. \A i \in 1 .. Len(s) : s[i] \in rows /\ rw[s[i]] = state /\ s[i] # r
  BY DEF Queued
<1>3. Len(s) \in Nat /\ \A i, j \in 1 .. Len(s) : s[i] = s[j] => i = j
  BY DEF Queued, Distinct
<1> HIDE DEF t
<1>4. \A i \in 1 .. Len(t) : i \in 1 .. Len(s) \/ i = Len(s) + 1
  BY <1>1, <1>3
<1>5. Distinct(t)
  BY <1>1, <1>2, <1>3, <1>4 DEF Distinct
<1>6. \A i \in 1 .. Len(t) : rx[t[i]] = state
  BY <1>1, <1>2, <1>4
<1> QED
  BY <1>1, <1>5, <1>6 DEF Queued, t

LEMMA QueueKept ==
  ASSUME NEW s, NEW state, NEW rows, NEW rw, NEW rx, Queued(s, state, rows, rw),
         \A i \in 1 .. Len(s) : s[i] \in rows /\ rw[s[i]] = state => rx[s[i]] = state
  PROVE  Queued(s, state, rows, rx)
<1>1. s \in Seq(rows) /\ Distinct(s) /\ \A i \in 1 .. Len(s) : s[i] \in rows /\ rw[s[i]] = state
  BY DEF Queued
<1> QED
  BY <1>1 DEF Queued

Served(s, h, t, state, rows, rw) ==
  /\ Queued(t, state, rows, rw) /\ h \in rows /\ rw[h] = state
  /\ \E i \in 1 .. Len(s) : s[i] = h
  /\ \A i \in 1 .. Len(t) : t[i] # h /\ \E j \in 1 .. Len(s) : t[i] = s[j]

LEMMA QueueShrinks ==
  ASSUME NEW s, NEW state, NEW rows, NEW rw, Queued(s, state, rows, rw), s # << >>
  PROVE  Served(s, Head(s), Tail(s), state, rows, rw)
<1> DEFINE t == Tail(s)
<1>1. /\ s \in Seq(rows) /\ Len(s) \in Nat /\ Len(s) > 0 /\ Head(s) = s[1]
      /\ t \in Seq(rows) /\ Len(t) = Len(s) - 1 /\ \A i \in 1 .. Len(t) : t[i] = s[i + 1]
  BY DEF Queued
<1>2. \A i \in 1 .. Len(s) : s[i] \in rows /\ rw[s[i]] = state
  BY DEF Queued
<1>3. \A i, j \in 1 .. Len(s) : s[i] = s[j] => i = j
  BY DEF Queued, Distinct
<1> HIDE DEF t
<1>4. \A i \in 1 .. Len(t) : i + 1 \in 1 .. Len(s) /\ i + 1 # 1
  BY <1>1
<1>5. 1 \in 1 .. Len(s)
  BY <1>1
<1>6. Distinct(t)
  <2> SUFFICES ASSUME NEW i \in 1 .. Len(t), NEW j \in 1 .. Len(t), t[i] = t[j] PROVE i = j
    BY DEF Distinct
  <2>1. i + 1 = j + 1
    BY <1>1, <1>3, <1>4
  <2> QED
    BY <2>1
<1>7. \A i \in 1 .. Len(t) : t[i] # Head(s)
  BY <1>1, <1>3, <1>4, <1>5
<1>8. Queued(t, state, rows, rw)
  BY <1>1, <1>2, <1>4, <1>6 DEF Queued
<1>9. Head(s) \in rows /\ rw[Head(s)] = state /\ \E i \in 1 .. Len(s) : s[i] = Head(s)
  BY <1>1, <1>2, <1>5
<1>10. \A i \in 1 .. Len(t) : \E j \in 1 .. Len(s) : t[i] = s[j]
  BY <1>1, <1>4
<1>11. Served(s, Head(s), t, state, rows, rw)
  BY <1>7, <1>8, <1>9, <1>10 DEF Served
<1> QED
  BY <1>11 DEF t

(* The outputs of the reward model come back in the order in which the      *)
(* executor took the rows, whatever it was.                                 *)
LEMMA ResultsInOrder ==
  ASSUME NEW rows, NEW items \in Seq(rows), NEW ranks \in Nat \ {0}, Full(items, ranks)
  PROVE  Results(items, ranks) = items
<1> DEFINE mesh == DeviceMesh(ranks, 1)
<1>1. WellMeshed(mesh, ranks)
  <2>1. ranks % 1 = 0 /\ ranks \div 1 = ranks /\ 1 \in Nat \ {0}
    OBVIOUS
  <2> QED
    BY <2>1, DeviceMeshed
<1> HIDE DEF mesh
<1>2. CollectNd(DispatchNd(items, mesh), mesh) = items
  BY <1>1, CollectedAsSent DEF Full
<1> QED
  BY <1>2 DEF Results, mesh

LEMMA ScoreInit == Init => ScoreInv
<1> SUFFICES ASSUME Init PROVE ScoreInv
  OBVIOUS
<1>1. /\ cfg \in Configs /\ manager = "starting" /\ reward = [r \in Rows |-> "none"]
      /\ answer = [r \in Rows |-> 0] /\ pool = [w \in Workers |-> << >>]
      /\ queue = << >> /\ taken = << >> /\ executor = "idle"
  BY DEF Init, RewardInit
<1>2. << >> \in Seq(Rows) /\ Len(<< >>) = 0
  OBVIOUS
<1>3. \A state, rows : Queued(<< >>, state, rows, reward)
  BY DEF Queued, Distinct
<1>4. PoolInv
  BY <1>1, <1>3 DEF PoolInv
<1>5. ExecutorInv
  BY <1>1, <1>2, <1>3 DEF ExecutorInv, Apart
<1>6. AnswerInv
  BY <1>1 DEF AnswerInv, RewardStates
<1> QED
  BY <1>1, <1>4, <1>5, <1>6 DEF ScoreInv

(* Steps of the rewards, with what else may change fixed.                   *)
Fixed == UNCHANGED <<cfg, manager>> /\ cfg.reward # "later" /\ manager = "running"

LEMMA SameRows ==
  ASSUME UNCHANGED cfg
  PROVE  Rows' = Rows /\ Workers' = Workers /\ Model' = Model /\ \A m : RowsAt(m)' = RowsAt(m)
BY DEF Rows, Workers, Model, RowsAt, WorkerOf

LEMMA RanksType == ASSUME ScoreInv PROVE cfg.ranks \in Nat \ {0}
BY RolloutConfigsAssumption DEF ScoreInv

(* A row that is in no queue changes its state.                             *)
LEMMA QueuesKept ==
  ASSUME ScoreInv, UNCHANGED <<cfg, queue, taken, executor>>, NEW r \in Rows, NEW state,
         reward[r] # "waiting", reward' = [reward EXCEPT ![r] = state]
  PROVE  ExecutorInv'
<1>1. \A q \in Rows : reward[q] = "waiting" => reward'[q] = "waiting"
  BY DEF ScoreInv, AnswerInv
<1>2. Queued(queue, "waiting", Rows, reward') /\ Queued(taken, "waiting", Rows, reward')
  BY <1>1, QueueKept DEF ScoreInv, ExecutorInv
<1> QED
  BY <1>2, SameRows DEF ScoreInv, ExecutorInv

LEMMA PoolsKept ==
  ASSUME ScoreInv, UNCHANGED <<cfg, pool>>,
         \A q \in Rows : reward[q] = "pooled" => reward'[q] = "pooled"
  PROVE  PoolInv'
<1>1. ASSUME NEW w \in Workers PROVE Queued(pool[w], "pooled", RowsAt(w), reward')
  <2>1. Queued(pool[w], "pooled", RowsAt(w), reward)
    BY DEF ScoreInv, PoolInv
  <2>2. \A i \in 1 .. Len(pool[w]) : pool[w][i] \in RowsAt(w) /\ reward[pool[w][i]] = "pooled"
                                      => reward'[pool[w][i]] = "pooled"
    BY DEF RowsAt
  <2> QED
    BY <2>1, <2>2, QueueKept
<1> QED
  BY <1>1, SameRows DEF ScoreInv, PoolInv

LEMMA AnswersKept ==
  ASSUME ScoreInv, Fixed, UNCHANGED answer, NEW r \in Rows,
         NEW state \in RewardStates \ {"answered", "scored"},
         reward' = [reward EXCEPT ![r] = state]
  PROVE  AnswerInv'
<1>1. /\ Rows' = Rows /\ Model' = Model /\ UNCHANGED <<cfg, manager, answer>>
      /\ cfg.reward # "later" /\ manager = "running"
  BY SameRows DEF Fixed
<1>2. /\ reward \in [Rows -> RewardStates] /\ answer \in [Rows -> Nat]
      /\ \A q \in Rows : reward[q] = "answered" => Model
      /\ \A q \in Rows : reward[q] \in {"answered", "scored"} => answer[q] = q
  BY DEF ScoreInv, AnswerInv
<1>3. reward' \in [Rows -> RewardStates] /\ \A q \in Rows : reward'[q] = IF q = r THEN state ELSE reward[q]
  BY <1>2
<1>4. /\ \A q \in Rows : reward'[q] = "answered" => Model
      /\ \A q \in Rows : reward'[q] \in {"answered", "scored"} => answer[q] = q
  BY <1>2, <1>3
<1> QED
  BY <1>1, <1>2, <1>3, <1>4 DEF AnswerInv

LEMMA AskKeepsScores ==
  ASSUME ScoreInv, Fixed, NEW r \in Rows, ComputeScore(WorkerOf(r), r)
  PROVE  ScoreInv'
<1>1. /\ reward[r] = "none" /\ reward' = [reward EXCEPT ![r] = "pooled"]
      /\ pool' = [pool EXCEPT ![WorkerOf(r)] = Append(@, r)]
      /\ UNCHANGED <<answer, queue, taken, executor, cfg, manager>>
  BY DEF ComputeScore, executorVars, Fixed
<1>2. ExecutorInv'
  BY <1>1, QueuesKept
<1>3. AnswerInv'
  BY <1>1, AnswersKept DEF RewardStates
<1>4. ASSUME NEW w \in Workers PROVE Queued(pool'[w], "pooled", RowsAt(w), reward')
  <2>1. Queued(pool[w], "pooled", RowsAt(w), reward)
    BY DEF ScoreInv, PoolInv
  <2>2. \A q \in RowsAt(w) : reward[q] = "pooled" => reward'[q] = "pooled"
    BY <1>1 DEF ScoreInv, AnswerInv, RowsAt
  <2>3. CASE w = WorkerOf(r)
    <3>1. r \in RowsAt(w) /\ reward'[r] = "pooled" /\ reward[r] # "pooled"
      BY <1>1, <2>3 DEF RowsAt, ScoreInv, AnswerInv
    <3>2. pool'[w] = Append(pool[w], r)
      BY <1>1, <2>3 DEF ScoreInv, PoolInv
    <3> QED
      BY <2>1, <2>2, <3>1, <3>2, QueueGrows
  <2>4. CASE w # WorkerOf(r)
    <3>1. pool'[w] = pool[w]
      BY <1>1, <2>4 DEF ScoreInv, PoolInv
    <3>2. \A i \in 1 .. Len(pool[w]) : pool[w][i] \in RowsAt(w) /\ reward[pool[w][i]] = "pooled"
                                        => reward'[pool[w][i]] = "pooled"
      BY <2>2
    <3> QED
      BY <2>1, <3>1, <3>2, QueueKept
  <2> QED
    BY <2>3, <2>4
<1>5. PoolInv'
  BY <1>1, <1>4, SameRows DEF ScoreInv, PoolInv
<1> QED
  BY <1>1, <1>2, <1>3, <1>5 DEF ScoreInv

LEMMA ThreadKeepsScores ==
  ASSUME ScoreInv, Fixed, NEW w \in Workers, NEW rows, NEW threads, StartThread(w, rows, threads)
  PROVE  ScoreInv'
<1> DEFINE r == Head(pool[w])
<1>1. /\ pool[w] # << >> /\ reward' = [reward EXCEPT ![r] = "started"]
      /\ pool' = [pool EXCEPT ![w] = Tail(@)]
      /\ UNCHANGED <<answer, queue, taken, executor, cfg, manager>>
  BY DEF StartThread, executorVars, Fixed
<1>2. Queued(pool[w], "pooled", RowsAt(w), reward)
  BY DEF ScoreInv, PoolInv
<1>9. Served(pool[w], r, Tail(pool[w]), "pooled", RowsAt(w), reward)
  BY <1>1, <1>2, QueueShrinks
<1> HIDE DEF r
<1>3. /\ Queued(Tail(pool[w]), "pooled", RowsAt(w), reward)
      /\ r \in RowsAt(w) /\ reward[r] = "pooled"
      /\ \A i \in 1 .. Len(Tail(pool[w])) : Tail(pool[w])[i] # r
  BY <1>9 DEF Served
<1>4. r \in Rows /\ WorkerOf(r) = w
  BY <1>3 DEF RowsAt
<1>5. ExecutorInv'
  BY <1>1, <1>3, <1>4, QueuesKept
<1>6. AnswerInv'
  BY <1>1, <1>4, AnswersKept DEF RewardStates
<1>7. ASSUME NEW v \in Workers PROVE Queued(pool'[v], "pooled", RowsAt(v), reward')
  <2>1. \A q \in Rows : q # r => reward'[q] = reward[q]
    BY <1>1 DEF ScoreInv, AnswerInv
  <2>2. CASE v = w
    <3> DEFINE t == Tail(pool[w])
    <3>1. pool'[v] = t
      BY <1>1, <2>2 DEF ScoreInv, PoolInv
    <3>2. Queued(t, "pooled", RowsAt(w), reward) /\ \A i \in 1 .. Len(t) : t[i] # r
      BY <1>3
    <3> HIDE DEF t
    <3>3. \A i \in 1 .. Len(t) : t[i] \in RowsAt(w) /\ reward[t[i]] = "pooled"
                                   => reward'[t[i]] = "pooled"
      BY <2>1, <3>2 DEF RowsAt
    <3> QED
      BY <2>2, <3>1, <3>2, <3>3, QueueKept
  <2>3. CASE v # w
    <3>1. pool'[v] = pool[v] /\ Queued(pool[v], "pooled", RowsAt(v), reward)
      BY <1>1, <2>3 DEF ScoreInv, PoolInv
    <3>2. \A q \in RowsAt(v) : reward'[q] = reward[q]
      BY <1>4, <2>1, <2>3 DEF RowsAt
    <3>3. \A i \in 1 .. Len(pool[v]) : pool[v][i] \in RowsAt(v) /\ reward[pool[v][i]] = "pooled"
                                        => reward'[pool[v][i]] = "pooled"
      BY <3>2
    <3> QED
      BY <3>1, <3>3, QueueKept
  <2> QED
    BY <2>2, <2>3
<1>8. PoolInv'
  BY <1>1, <1>7, SameRows DEF ScoreInv, PoolInv
<1> QED
  BY <1>1, <1>5, <1>6, <1>8 DEF ScoreInv

LEMMA SubmitKeepsScores ==
  ASSUME ScoreInv, Fixed, Model, NEW r \in Rows, SubmitTask(r)
  PROVE  ScoreInv'
<1>1. /\ reward[r] = "started" /\ reward' = [reward EXCEPT ![r] = "waiting"]
      /\ queue' = Append(queue, r) /\ UNCHANGED <<answer, pool, taken, executor, cfg, manager>>
  BY DEF SubmitTask, Fixed
<1>2. \A q \in Rows : reward'[q] = IF q = r THEN "waiting" ELSE reward[q]
  BY <1>1 DEF ScoreInv, AnswerInv
<1>3. AnswerInv'
  BY <1>1, AnswersKept DEF RewardStates
<1>4. PoolInv'
  BY <1>1, <1>2, PoolsKept
<1>5. Queued(queue, "waiting", Rows, reward) /\ Queued(taken, "waiting", Rows, reward)
      /\ Apart(queue, taken)
  BY DEF ScoreInv, ExecutorInv
<1>6. Queued(queue', "waiting", Rows, reward')
  BY <1>1, <1>2, <1>5, QueueGrows
<1>7. Queued(taken, "waiting", Rows, reward')
  BY <1>2, <1>5, QueueKept
<1>8. Apart(queue', taken)
  <2>1. queue \in Seq(Rows) /\ taken \in Seq(Rows) /\ \A j \in 1 .. Len(taken) : reward[taken[j]] = "waiting"
    BY <1>5 DEF Queued
  <2>2. \A i \in 1 .. Len(queue') : queue'[i] = r \/ (i \in 1 .. Len(queue) /\ queue'[i] = queue[i])
    BY <1>1, <2>1
  <2> QED
    BY <1>1, <1>5, <2>1, <2>2 DEF Apart
<1>9. ExecutorInv'
  BY <1>1, <1>6, <1>7, <1>8, SameRows DEF ScoreInv, ExecutorInv
<1> QED
  BY <1>1, <1>3, <1>4, <1>9 DEF ScoreInv

LEMMA CallKeepsScores ==
  ASSUME ScoreInv, Fixed, NEW r \in Rows, CallRewardManager(r, Model)
  PROVE  ScoreInv'
<1>1. /\ reward[r] = IF Model THEN "answered" ELSE "started"
      /\ reward' = [reward EXCEPT ![r] = "scored"]
      /\ answer' = [answer EXCEPT ![r] = IF Model THEN @ ELSE r]
      /\ UNCHANGED <<pool, queue, taken, executor, cfg, manager>>
  BY DEF CallRewardManager, executorVars, Fixed
<1>2. reward[r] \notin {"pooled", "waiting"}
  BY <1>1
<1>3. ExecutorInv'
  BY <1>1, <1>2, QueuesKept
<1>4. PoolInv'
  <2>1. \A q \in Rows : reward[q] = "pooled" => reward'[q] = "pooled"
    BY <1>1, <1>2 DEF ScoreInv, AnswerInv
  <2> QED
    BY <1>1, <2>1, PoolsKept
<1>5. AnswerInv'
  <2>1. /\ Rows' = Rows /\ Model' = Model /\ UNCHANGED <<cfg, manager>>
        /\ cfg.reward # "later" /\ manager = "running" /\ Rows \subseteq Nat
    BY SameRows, WorkersOfRows DEF Fixed, ScoreInv
  <2>2. /\ reward \in [Rows -> RewardStates] /\ answer \in [Rows -> Nat]
        /\ \A q \in Rows : reward[q] = "answered" => Model
        /\ \A q \in Rows : reward[q] \in {"answered", "scored"} => answer[q] = q
    BY DEF ScoreInv, AnswerInv
  <2>3. answer'[r] = r
    <3>1. CASE Model
      BY <1>1, <2>2, <3>1
    <3>2. CASE ~ Model
      BY <1>1, <2>2, <3>2
    <3> QED
      BY <3>1, <3>2
  <2>4. /\ \A q \in Rows : q # r => answer'[q] = answer[q] /\ reward'[q] = reward[q]
        /\ DOMAIN answer' = Rows /\ reward'[r] = "scored"
    BY <1>1, <2>2
  <2>5. answer' \in [Rows -> Nat]
    <3>1. \A q \in Rows : answer'[q] \in Nat
      BY <2>1, <2>2, <2>3, <2>4
    <3>2. answer' = [q \in Rows |-> answer'[q]]
      BY <1>1, <2>2
    <3> QED
      BY <3>1, <3>2
  <2>6. reward' \in [Rows -> RewardStates]
    BY <1>1, <2>2 DEF RewardStates
  <2>7. /\ \A q \in Rows : reward'[q] = "answered" => Model
        /\ \A q \in Rows : reward'[q] \in {"answered", "scored"} => answer'[q] = q
    BY <2>2, <2>3, <2>4
  <2> QED
    BY <2>1, <2>5, <2>6, <2>7 DEF AnswerInv
<1> QED
  BY <1>1, <1>3, <1>4, <1>5 DEF ScoreInv

LEMMA RaiseKeepsScores ==
  ASSUME ScoreInv, Fixed, NEW r \in Rows, RaiseInThread(r) \/ RewardManagerRaises(r, Model)
  PROVE  ScoreInv'
<1>1. /\ reward[r] \in {"failing", "answered", "started"} /\ reward' = [reward EXCEPT ![r] = "failed"]
      /\ UNCHANGED <<answer, pool, queue, taken, executor, cfg, manager>>
  BY DEF RaiseInThread, RewardManagerRaises, executorVars, Fixed
<1>2. ExecutorInv'
  BY <1>1, QueuesKept
<1>3. PoolInv'
  <2>1. \A q \in Rows : reward[q] = "pooled" => reward'[q] = "pooled"
    BY <1>1 DEF ScoreInv, AnswerInv
  <2> QED
    BY <1>1, <2>1, PoolsKept
<1>4. AnswerInv'
  BY <1>1, AnswersKept DEF RewardStates
<1> QED
  BY <1>1, <1>2, <1>3, <1>4 DEF ScoreInv

(* A row of the queue comes to the rows the executor holds.                 *)
LEMMA TakeKeepsScores ==
  ASSUME ScoreInv, Fixed, queue # << >>, taken' = Append(taken, Head(queue)),
         queue' = Tail(queue), executor' = "running" => Full(taken', cfg.ranks),
         UNCHANGED <<reward, answer, pool>>
  PROVE  ScoreInv'
<1> DEFINE h == Head(queue)
           t == Tail(queue)
<1>1. Queued(queue, "waiting", Rows, reward) /\ Queued(taken, "waiting", Rows, reward)
      /\ Apart(queue, taken)
  BY DEF ScoreInv, ExecutorInv
<1>2. Served(queue, h, t, "waiting", Rows, reward)
  BY <1>1, QueueShrinks
<1>3. UNCHANGED <<cfg, manager>>
  BY DEF Fixed
<1>4. queue' = t /\ taken' = Append(taken, h)
  OBVIOUS
<1> HIDE DEF h, t
<1>5. \A j \in 1 .. Len(taken) : taken[j] # h
  BY <1>1, <1>2 DEF Served, Apart
<1>6. taken \in Seq(Rows) /\ Distinct(taken) /\ (\A i \in 1 .. Len(taken) : reward[taken[i]] = "waiting")
      /\ h \in Rows /\ reward[h] = "waiting"
  BY <1>1, <1>2 DEF Served, Queued
<1> DEFINE u == Append(taken, h)
<1>7. /\ u \in Seq(Rows) /\ Len(u) = Len(taken) + 1 /\ Len(taken) \in Nat /\ u[Len(taken) + 1] = h
      /\ \A i \in 1 .. Len(taken) : u[i] = taken[i]
  BY <1>6
<1> HIDE DEF u
<1>8. \A i \in 1 .. Len(u) : i \in 1 .. Len(taken) \/ i = Len(taken) + 1
  BY <1>7
<1>9. Queued(u, "waiting", Rows, reward)
  <2>1. Distinct(u)
    <3> SUFFICES ASSUME NEW i \in 1 .. Len(u), NEW j \in 1 .. Len(u), u[i] = u[j] PROVE i = j
      BY DEF Distinct
    <3>1. CASE i \in 1 .. Len(taken) /\ j \in 1 .. Len(taken)
      BY <1>6, <1>7, <3>1 DEF Distinct
    <3>2. CASE i = Len(taken) + 1 \/ j = Len(taken) + 1
      BY <1>5, <1>7, <1>8, <3>2
    <3> QED
      BY <1>8, <3>1, <3>2
  <2>2. \A i \in 1 .. Len(u) : reward[u[i]] = "waiting"
    BY <1>6, <1>7, <1>8
  <2> QED
    BY <1>7, <2>1, <2>2 DEF Queued
<1>10. Apart(t, u)
  BY <1>1, <1>2, <1>7, <1>8 DEF Served, Apart
<1>11. Model
  BY DEF ScoreInv, ExecutorInv
<1>12. ExecutorInv'
  BY <1>2, <1>3, <1>4, <1>9, <1>10, <1>11, SameRows DEF ExecutorInv, Served, u
<1>13. PoolInv'
  BY <1>3, PoolsKept
<1>14. AnswerInv'
  BY <1>3, SameRows DEF ScoreInv, AnswerInv
<1> QED
  BY <1>3, <1>12, <1>13, <1>14 DEF ScoreInv

(* The executor gives its rows their outputs, or all of them the exception. *)
LEMMA BatchKeepsScores ==
  ASSUME ScoreInv, Fixed, RunBatch(cfg.ranks) \/ BatchFails
  PROVE  ScoreInv'
<1> DEFINE held == {taken[i] : i \in DOMAIN taken}
<1>1. /\ executor = "running" /\ executor' = "idle" /\ taken' = << >>
      /\ UNCHANGED <<pool, queue, cfg, manager>>
  BY DEF RunBatch, BatchFails, Fixed
<1>2. Model /\ Full(taken, cfg.ranks) /\ cfg.ranks \in Nat \ {0}
  BY <1>1, RanksType DEF ScoreInv, ExecutorInv
<1>3. /\ Queued(queue, "waiting", Rows, reward) /\ Apart(queue, taken)
      /\ taken \in Seq(Rows) /\ \A i \in 1 .. Len(taken) : reward[taken[i]] = "waiting"
  BY DEF ScoreInv, ExecutorInv, Queued
<1>4. DOMAIN taken = 1 .. Len(taken) /\ held \subseteq Rows /\ \A r \in held : reward[r] = "waiting"
  BY <1>3
<1>5. /\ reward \in [Rows -> RewardStates] /\ answer \in [Rows -> Nat]
      /\ \A q \in Rows : reward[q] = "answered" => Model
      /\ \A q \in Rows : reward[q] \in {"answered", "scored"} => answer[q] = q
  BY DEF ScoreInv, AnswerInv
<1>6. \A i \in 1 .. Len(queue) : queue[i] \notin held
  BY <1>3, <1>4 DEF Apart
<1>7. ASSUME reward' \in [Rows -> RewardStates], \A q \in Rows : q \notin held => reward'[q] = reward[q]
      PROVE  PoolInv' /\ ExecutorInv'
  <2>1. PoolInv'
    <3>1. \A q \in Rows : reward[q] = "pooled" => reward'[q] = "pooled"
      BY <1>4, <1>7
    <3> QED
      BY <1>1, <3>1, PoolsKept
  <2>2. Queued(queue, "waiting", Rows, reward')
    <3>1. \A i \in 1 .. Len(queue) : queue[i] \in Rows /\ reward[queue[i]] = "waiting"
                                       => reward'[queue[i]] = "waiting"
      BY <1>6, <1>7
    <3> QED
      BY <1>3, <3>1, QueueKept
  <2>3. << >> \in Seq(Rows) /\ Len(<< >>) = 0
    OBVIOUS
  <2>4. Queued(<< >>, "waiting", Rows, reward') /\ Apart(queue, << >>)
    BY <2>3 DEF Queued, Distinct, Apart
  <2>5. ExecutorInv'
    BY <1>1, <1>2, <2>2, <2>4, SameRows DEF ExecutorInv
  <2> QED
    BY <2>1, <2>5
<1>8. Rows' = Rows /\ Model' = Model /\ cfg.reward # "later" /\ manager = "running"
  BY <1>1, SameRows DEF Fixed
<1>9. CASE RunBatch(cfg.ranks)
  <2> DEFINE futs == [r \in held |-> CHOOSE i \in DOMAIN taken : taken[i] = r]
  <2>1. /\ answer' = [r \in DOMAIN answer |-> IF r \in DOMAIN futs THEN Results(taken, cfg.ranks)[futs[r]]
                                              ELSE answer[r]]
        /\ reward' = [r \in DOMAIN reward |-> IF r \in DOMAIN futs THEN "answered" ELSE reward[r]]
    BY <1>9 DEF RunBatch
  <2>2. Results(taken, cfg.ranks) = taken
    BY <1>2, <1>3, ResultsInOrder
  <2>3. DOMAIN futs = held
    OBVIOUS
  <2>4. ASSUME NEW r \in held PROVE taken[futs[r]] = r
    <3>1. \E i \in DOMAIN taken : taken[i] = r
      BY <2>4
    <3>2. futs[r] = CHOOSE i \in DOMAIN taken : taken[i] = r
      BY <2>4
    <3> HIDE DEF futs
    <3> QED
      BY <3>1, <3>2
  <2> HIDE DEF futs, held
  <2>5. \A q \in Rows : reward'[q] = IF q \in held THEN "answered" ELSE reward[q]
    BY <1>5, <2>1, <2>3
  <2>6. \A q \in Rows : answer'[q] = IF q \in held THEN q ELSE answer[q]
    BY <1>5, <2>1, <2>2, <2>3, <2>4
  <2>7. reward' \in [Rows -> RewardStates]
    <3>1. \A q \in Rows : reward'[q] \in RewardStates
      BY <1>5, <2>5 DEF RewardStates
    <3>2. reward' = [q \in Rows |-> reward'[q]]
      BY <1>5, <2>1
    <3> QED
      BY <3>1, <3>2
  <2>8. answer' \in [Rows -> Nat]
    <3>1. \A q \in Rows : answer'[q] \in Nat
      BY <1>5, <2>6, WorkersOfRows DEF ScoreInv
    <3>2. answer' = [q \in Rows |-> answer'[q]]
      BY <1>5, <2>1
    <3> QED
      BY <3>1, <3>2
  <2>9. /\ \A q \in Rows : reward'[q] = "answered" => Model
        /\ \A q \in Rows : reward'[q] \in {"answered", "scored"} => answer'[q] = q
    BY <1>2, <1>5, <2>5, <2>6
  <2>10. AnswerInv'
    BY <1>1, <1>8, <2>7, <2>8, <2>9 DEF AnswerInv
  <2> QED
    BY <1>1, <1>7, <2>5, <2>7, <2>10 DEF ScoreInv
<1>10. CASE BatchFails
  <2>1. /\ reward' = [r \in DOMAIN reward |-> IF r \in held THEN "failing" ELSE reward[r]]
        /\ answer' = answer
    BY <1>10 DEF BatchFails
  <2> HIDE DEF held
  <2>2. \A q \in Rows : reward'[q] = IF q \in held THEN "failing" ELSE reward[q]
    BY <1>5, <2>1
  <2>3. reward' \in [Rows -> RewardStates]
    <3>1. \A q \in Rows : reward'[q] \in RewardStates
      BY <1>5, <2>2 DEF RewardStates
    <3>2. reward' = [q \in Rows |-> reward'[q]]
      BY <1>5, <2>1
    <3> QED
      BY <3>1, <3>2
  <2>4. /\ \A q \in Rows : reward'[q] = "answered" => Model
        /\ \A q \in Rows : reward'[q] \in {"answered", "scored"} => answer[q] = q
    BY <1>5, <2>2
  <2>5. AnswerInv'
    BY <1>1, <1>5, <1>8, <2>1, <2>3, <2>4 DEF AnswerInv
  <2> QED
    BY <1>1, <1>7, <2>2, <2>3, <2>5 DEF ScoreInv
<1> QED
  BY <1>9, <1>10

(* Between rollouts no row is on its way, so that the rewards can start     *)
(* anew.                                                                    *)
LEMMA RoundKeepsScores ==
  ASSUME ScoreInv, StartRound
  PROVE  ScoreInv'
<1>1. /\ manager = "idle" /\ manager' = "running" /\ reward' = [r \in Rows |-> "none"]
      /\ answer' = [r \in Rows |-> 0] /\ UNCHANGED <<cfg, pool, queue, taken, executor>>
  BY DEF StartRound, executorVars
<1>2. \A r \in Rows : reward[r] \in {"none", "scored"}
  BY <1>1 DEF ScoreInv, AnswerInv
<1>3. ASSUME NEW s, NEW rows, rows \subseteq Rows, NEW state \in {"pooled", "waiting"},
             Queued(s, state, rows, reward)
      PROVE  Queued(s, state, rows, reward')
  <2>1. s \in Seq(rows) /\ \A i \in 1 .. Len(s) : reward[s[i]] = state
    BY <1>3 DEF Queued
  <2>2. \A i \in 1 .. Len(s) : s[i] \in Rows
    BY <1>3, <2>1
  <2>3. \A i \in 1 .. Len(s) : FALSE
    BY <1>2, <2>1, <2>2
  <2> QED
    BY <1>3, <2>3 DEF Queued
<1>4. PoolInv'
  <2>1. \A w \in Workers : Queued(pool[w], "pooled", RowsAt(w), reward')
    <3> TAKE w \in Workers
    <3>1. RowsAt(w) \subseteq Rows /\ Queued(pool[w], "pooled", RowsAt(w), reward)
      BY DEF RowsAt, ScoreInv, PoolInv
    <3> QED
      BY <1>3, <3>1
  <2> QED
    BY <1>1, <2>1, SameRows DEF ScoreInv, PoolInv
<1>5. ExecutorInv'
  <2>1. Queued(queue, "waiting", Rows, reward') /\ Queued(taken, "waiting", Rows, reward')
    BY <1>3 DEF ScoreInv, ExecutorInv
  <2> QED
    BY <1>1, <2>1, SameRows DEF ScoreInv, ExecutorInv
<1>6. AnswerInv'
  BY <1>1, SameRows DEF AnswerInv, RewardStates
<1> QED
  BY <1>1, <1>4, <1>5, <1>6 DEF ScoreInv

LEMMA ScoreStep == ScoreInv /\ [Next]_vars => ScoreInv'
<1> SUFFICES ASSUME ScoreInv, [Next]_vars PROVE ScoreInv'
  OBVIOUS
<1>1. ASSUME UNCHANGED <<cfg, rewardVars>>,
             manager' \in {"starting", "idle"} =>
               manager \in {"starting", "idle"} \/ \A r \in Rows : reward[r] \in {"none", "scored"}
      PROVE  ScoreInv'
  <2>1. UNCHANGED <<cfg, reward, answer, pool, queue, taken, executor>>
    BY <1>1 DEF rewardVars
  <2>2. PoolInv' /\ ExecutorInv'
    BY <2>1, SameRows DEF ScoreInv, PoolInv, ExecutorInv
  <2>3. AnswerInv'
    BY <1>1, <2>1, SameRows DEF ScoreInv, AnswerInv
  <2> QED
    BY <2>1, <2>2, <2>3 DEF ScoreInv
<1>2. CASE UNCHANGED vars
  BY <1>1, <1>2 DEF vars
<1>3. CASE StartRound
  BY <1>3, RoundKeepsScores
<1>4. CASE EndRound
  <2>1. UNCHANGED <<cfg, rewardVars>> /\ \A r \in Rows : reward[r] \in {"none", "scored"}
    BY <1>4 DEF EndRound, RowDone
  <2> QED
    BY <1>1, <2>1
<1>5. CASE StartStep
  <2>1. UNCHANGED <<cfg, rewardVars>> /\ (manager' # manager => manager = "starting")
    BY <1>5 DEF StartStep, RejectPools, StartWorkers, StartServers, EndStart, LoseServer
  <2> QED
    BY <1>1, <2>1
<1>6. CASE RejectBatch \/ RaiseRound
  <2>1. UNCHANGED <<cfg, rewardVars>> /\ manager' = "raised"
    BY <1>6 DEF RejectBatch, RaiseRound
  <2> QED
    BY <1>1, <2>1
<1>7. CASE ToolStep
  <2>1. UNCHANGED <<cfg, manager, rewardVars>>
    BY <1>7 DEF ToolStep, batchVars
  <2> QED
    BY <1>1, <2>1
<1>8. ASSUME manager = "running", NEW r \in Rows, AgentStep(r) PROVE ScoreInv'
  <2>1. CASE AskReward(r)
    <3>1. Fixed /\ ComputeScore(WorkerOf(r), r)
      BY <1>8, <2>1 DEF AskReward, Fixed, batchVars
    <3> QED
      BY <3>1, AskKeepsScores
  <2>2. CASE ~ AskReward(r)
    <3>1. UNCHANGED <<cfg, manager, rewardVars>>
      BY <1>8, <2>2 DEF AgentStep, Prepare, AskEngine, EngineAnswers, CallTools, ToolsAnswer,
                        InteractionAnswers, batchVars
    <3> QED
      BY <1>1, <3>1
  <2> QED
    BY <2>1, <2>2
<1>9. CASE manager = "running" /\ RewardStep
  <2>1. UNCHANGED <<cfg, manager>> /\ manager = "running"
    BY <1>9 DEF RewardStep, batchVars
  <2>2. CASE cfg.reward = "later"
    <3>1. \A r \in Rows : reward[r] = "none"
      BY <2>2 DEF ScoreInv, AnswerInv
    <3>2. \A w \in Workers : pool[w] = << >>
      <4> TAKE w \in Workers
      <4>1. Queued(pool[w], "pooled", RowsAt(w), reward)
        BY DEF ScoreInv, PoolInv
      <4>2. \A i \in 1 .. Len(pool[w]) : FALSE
        BY <3>1, <4>1 DEF Queued, RowsAt
      <4>3. pool[w] \in Seq(RowsAt(w)) /\ Len(pool[w]) = 0
        BY <4>1, <4>2 DEF Queued
      <4> QED
        BY <4>3
    <3>3. ~ Model /\ executor = "idle" /\ queue = << >>
      BY <2>2 DEF Model, ScoreInv, ExecutorInv
    <3>4. FALSE
      BY <1>9, <3>1, <3>2, <3>3 DEF RewardStep, StartThread, SubmitTask, CallRewardManager, RaiseInThread,
                                    RewardManagerRaises, TakeTask, QueueEmpty, FillBatch, RunBatch, BatchFails
    <3> QED
      BY <3>4
  <2>3. CASE cfg.reward # "later"
    <3>1. Fixed
      BY <2>1, <2>3 DEF Fixed
    <3>2. CASE \E w \in Workers : StartThread(w, OwnRows(w), cfg.threads)
      BY <3>1, <3>2, ThreadKeepsScores
    <3>3. CASE \E r \in Rows : Model /\ SubmitTask(r)
      BY <3>1, <3>3, SubmitKeepsScores
    <3>4. CASE \E r \in Rows : CallRewardManager(r, Model)
      BY <3>1, <3>4, CallKeepsScores
    <3>5. CASE \E r \in Rows : RaiseInThread(r) \/ RewardManagerRaises(r, Model)
      BY <3>1, <3>5, RaiseKeepsScores
    <3>6. CASE TakeTask \/ FillBatch(cfg.ranks)
      <4>1. /\ queue # << >> /\ taken' = Append(taken, Head(queue)) /\ queue' = Tail(queue)
            /\ executor' = "running" => Full(taken', cfg.ranks)
            /\ UNCHANGED <<reward, answer, pool>>
        BY <3>6 DEF TakeTask, FillBatch
      <4> QED
        BY <3>1, <4>1, TakeKeepsScores
    <3>7. CASE QueueEmpty(cfg.ranks)
      <4>1. /\ UNCHANGED <<reward, answer, pool, queue, taken, cfg, manager>>
            /\ executor = "draining" /\ (executor' = "running" => Full(taken, cfg.ranks))
        BY <2>1, <3>7 DEF QueueEmpty
      <4>2. ExecutorInv'
        BY <4>1, SameRows DEF ScoreInv, ExecutorInv
      <4>3. PoolInv' /\ AnswerInv'
        BY <4>1, SameRows DEF ScoreInv, PoolInv, AnswerInv
      <4> QED
        BY <4>1, <4>2, <4>3 DEF ScoreInv
    <3>8. CASE RunBatch(cfg.ranks) \/ BatchFails
      BY <3>1, <3>8, BatchKeepsScores
    <3> QED
      BY <1>9, <3>2, <3>3, <3>4, <3>5, <3>6, <3>7, <3>8 DEF RewardStep
  <2> QED
    BY <2>2, <2>3
<1> QED
  BY <1>2, <1>3, <1>4, <1>5, <1>6, <1>7, <1>8, <1>9 DEF Next

-----------------------------------------------------------------------------
(* The batch that comes back: the parts of the workers, one after the other,*)
(* are the rows in their order.                                             *)
OutputOK(out, later) ==
  \A p \in DOMAIN out : out[p].row = p /\ out[p].score = IF later THEN 0 ELSE p

OutputInv == OutputOK(output, cfg.reward = "later")

LEMMA OutputEnds ==
  ASSUME ScoreInv, EndRound
  PROVE  OutputInv'
<1> DEFINE n == cfg.workers
           len == Len(cfg.kinds)
           k == Len(RowSeq) \div n
           S == {OutputRow(r) : r \in Rows}
           parts == [w \in 1 .. cfg.workers |->
                       [i \in DOMAIN RowsOf(w - 1) |-> OutputRow(RowsOf(w - 1)[i])]]
<1>1. /\ n \in Nat \ {0} /\ len \in Nat /\ Rows = 1 .. len /\ len % n = 0
      /\ UNCHANGED cfg /\ output' = FlattenSeq(parts) /\ \A r \in Rows : RowDone(r)
  BY RolloutConfigsAssumption DEF Rows, EndRound, ScoreInv
<1>2. RowSeq \in Seq(Rows) /\ Len(RowSeq) = len /\ \A i \in 1 .. len : RowSeq[i] = i
  BY <1>1 DEF RowSeq
<1>3. ASSUME NEW r \in Rows
      PROVE  OutputRow(r).row = r /\ OutputRow(r).score = IF cfg.reward = "later" THEN 0 ELSE r
  <2>1. OutputRow(r).row = r /\ OutputRow(r).score = answer[r]
    BY DEF OutputRow
  <2>2. CASE cfg.reward = "later"
    BY <2>1, <2>2 DEF ScoreInv, AnswerInv
  <2>3. CASE cfg.reward # "later"
    BY <1>1, <2>1, <2>3 DEF RowDone, ScoreInv, AnswerInv
  <2> QED
    BY <2>2, <2>3
<1> HIDE DEF n, len, S
<1>4. k \in Nat
  BY <1>1, <1>2, DivMod
<1>5. ASSUME NEW w \in 1 .. n
      PROVE  /\ parts[w] \in Seq(S) /\ Len(parts[w]) = k
             /\ \A j \in 1 .. k : /\ (w - 1) * k + j \in 1 .. len
                                  /\ parts[w][j] = OutputRow((w - 1) * k + j)
  <2> DEFINE c == w - 1
             part == Chunk(RowSeq, n)[c]
  <2>1. c \in 0 .. n - 1
    BY <1>1
  <2> HIDE DEF c
  <2>2. PartOf(part, RowSeq, c, k, Rows)
    BY <1>1, <1>2, <2>1, ChunkType
  <2>3. RowsOf(w - 1) = part
    BY DEF RowsOf, n, c
  <2> HIDE DEF part, k
  <2>4. /\ part \in Seq(Rows) /\ Len(part) = k
        /\ \A j \in 1 .. k : c * k + j \in 1 .. Len(RowSeq) /\ part[j] = RowSeq[c * k + j]
    BY <2>2 DEF PartOf
  <2>5. \A j \in 1 .. k : c * k + j \in 1 .. len /\ part[j] = c * k + j
    BY <1>2, <2>4
  <2>6. parts[w] = [i \in DOMAIN part |-> OutputRow(part[i])]
    BY <2>3 DEF n
  <2>7. DOMAIN part = 1 .. k /\ \A i \in 1 .. k : part[i] \in Rows
    BY <1>4, <2>4
  <2> HIDE DEF parts
  <2>8. parts[w] = [i \in 1 .. k |-> OutputRow(part[i])] /\ \A i \in 1 .. k : OutputRow(part[i]) \in S
    BY <2>6, <2>7 DEF S
  <2>9. parts[w] \in Seq(S) /\ Len(parts[w]) = k
    BY <1>4, <2>8
  <2>10. \A j \in 1 .. k : parts[w][j] = OutputRow(c * k + j)
    BY <2>5, <2>8
  <2> QED
    BY <2>5, <2>9, <2>10 DEF c
<1>6. parts \in Seq(Seq(S)) /\ Len(parts) = n
  <2>1. parts \in [1 .. n -> Seq(S)]
    BY <1>5 DEF n
  <2> HIDE DEF parts
  <2> QED
    BY <1>1, <2>1
<1> DEFINE whole == FlattenSeq(parts)
<1>7. Joined(parts, n, k, S, whole)
  <2>1. EqualParts(parts, n, k, S)
    BY <1>4, <1>5, <1>6 DEF EqualParts
  <2> QED
    BY <2>1, FlattenParts
<1> HIDE DEF whole, parts
<1>8. /\ whole \in Seq(S) /\ Len(whole) = n * k
      /\ \A i \in 1 .. n, j \in 1 .. k : whole[(i - 1) * k + j] = parts[i][j]
  BY <1>7 DEF Joined
<1>9. DOMAIN whole = 1 .. Len(whole) /\ Len(whole) \in Nat
  BY <1>8
<1> HIDE DEF k
<1>10. ASSUME NEW p \in DOMAIN whole
       PROVE  whole[p].row = p /\ whole[p].score = IF cfg.reward = "later" THEN 0 ELSE p
  <2>1. PICK i \in 1 .. n, j \in 1 .. k : (i - 1) * k + j = p
    <3>1. p \in 1 .. n * k /\ n \in Nat
      BY <1>1, <1>8, <1>9
    <3>2. HasPlace(p, n, k)
      BY <1>4, <3>1, Places
    <3> QED
      BY <3>2 DEF HasPlace
  <2>2. whole[p] = parts[i][j]
    BY <1>8, <2>1
  <2>3. whole[p] = OutputRow(p) /\ p \in Rows
    BY <1>1, <1>5, <2>1, <2>2
  <2> QED
    BY <1>3, <2>3
<1> QED
  BY <1>1, <1>10 DEF OutputInv, OutputOK, whole

LEMMA OutputInit == Init => OutputInv
<1> SUFFICES ASSUME Init PROVE OutputInv
  OBVIOUS
<1>1. output = << >> /\ DOMAIN << >> = {}
  BY DEF Init
<1> QED
  BY <1>1 DEF OutputInv, OutputOK

LEMMA OutputStep == ScoreInv /\ OutputInv /\ [Next]_vars => OutputInv'
<1> SUFFICES ASSUME ScoreInv, OutputInv, [Next]_vars PROVE OutputInv'
  OBVIOUS
<1>1. CASE EndRound
  BY <1>1, OutputEnds
<1>2. CASE ~ EndRound
  <2>1. UNCHANGED <<cfg, output>>
    BY <1>2 DEF Next, StartStep, vars, AgentStep, RewardStep, ToolStep, RejectBatch, StartRound,
                RaiseRound, Prepare, AskEngine, EngineAnswers, CallTools, ToolsAnswer,
                InteractionAnswers, AskReward, batchVars
  <2> QED
    BY <2>1 DEF OutputInv
<1> QED
  BY <1>1, <1>2

(* However the agent loops, the threads of the workers and the executor of  *)
(* the reward model interleave, and in whatever batches the executor takes  *)
(* the rows, a row is given the output for itself and the batch comes back  *)
(* in the order of its rows (agent_loop.py), for every number of rows,      *)
(* workers, threads and ranks.                                              *)
THEOREM RewardsAreOwn == Spec => []OwnScores
<1>1. ScoreInv /\ OutputInv => OwnScores
  BY DEF ScoreInv, AnswerInv, OutputInv, OutputOK, OwnScores
<1> QED
  BY ScoreInit, ScoreStep, OutputInit, OutputStep, <1>1, PTL DEF Spec
-----------------------------------------------------------------------------
(* Which workers an engine finds.  In the order of their groups and local  *)
(* ranks the workers are in the order of their ranks.                      *)

LEMMA RankOrder ==
  ASSUME NEW n \in Nat \ {0}, NEW j \in Nat, NEW k \in Nat
  PROVE  j < k <=> j \div n < k \div n \/ (j \div n = k \div n /\ j % n < k % n)
<1> DEFINE a == j \div n
           b == k \div n
           c == j % n
           d == k % n
<1>1. /\ j = a * n + c /\ a \in Nat /\ c \in 0 .. n - 1
      /\ k = b * n + d /\ b \in Nat /\ d \in 0 .. n - 1
  BY DivMod
<1> SUFFICES j < k <=> a < b \/ (a = b /\ c < d)
  OBVIOUS
<1> HIDE DEF a, b, c, d
<1> DEFINE p == a * n
           q == b * n
<1>2. p \in Nat /\ q \in Nat
  BY <1>1, Product
<1>3. ASSUME a < b PROVE p + n <= q
  <2>1. b - a - 1 \in Nat
    BY <1>1, <1>3
  <2>2. (b - a - 1) * n \in Nat
    BY <2>1, Product
  <2>3. q = p + n + (b - a - 1) * n
    BY <1>1
  <2> QED
    BY <1>2, <2>2, <2>3
<1>4. ASSUME b < a PROVE q + n <= p
  <2>1. a - b - 1 \in Nat
    BY <1>1, <1>4
  <2>2. (a - b - 1) * n \in Nat
    BY <2>1, Product
  <2>3. p = q + n + (a - b - 1) * n
    BY <1>1
  <2> QED
    BY <1>2, <2>2, <2>3
<1>5. a = b => p = q
  OBVIOUS
<1>6. j = p + c /\ k = q + d
  BY <1>1
<1> HIDE DEF p, q
<1> QED
  BY <1>1, <1>2, <1>3, <1>4, <1>5, <1>6

Own == cfg.start.pools[1]
OwnRanks == 0 .. World(Own) - 1
Named == NamedActors(cfg.start.pools)

LEMMA OwnType ==
  ASSUME cfg \in Configs
  PROVE  /\ 1 \in DOMAIN cfg.start.pools /\ Own.size \in Nat \ {0} /\ Own.groups \in Nat \ {0}
         /\ cfg.start.tp \in Nat \ {0} /\ World(Own) \in Nat
         /\ Servers = 0 .. World(Own) \div cfg.start.tp - 1
<1>1. /\ 1 \in DOMAIN cfg.start.pools /\ Own.size \in Nat \ {0} /\ Own.groups \in Nat \ {0}
      /\ cfg.start.tp \in Nat \ {0}
      /\ Servers = 0 .. World(Own) \div cfg.start.tp - 1
  BY RolloutConfigsAssumption DEF Own
<1>2. World(Own) \in Nat
  BY <1>1, Product DEF World
<1> QED
  BY <1>1, <1>2

LEMMA NamedAre ==
  ASSUME cfg \in Configs
  PROVE  Named = {WorkerOfRank(1, Own, k) : k \in OwnRanks}
<1>1. 1 \in DOMAIN cfg.start.pools
  BY OwnType
<1>2. ASSUME NEW p, NEW a \in WorkersOf(p, cfg.start.pools[p]) PROVE a.name.prefix = p
  BY <1>2 DEF WorkersOf, WorkerOfRank
<1>3. ASSUME NEW a PROVE a \in Named <=> a \in WorkersOf(1, Own)
  <2>1. ASSUME a \in Named PROVE a \in WorkersOf(1, Own)
    <3>1. a.name.prefix = 1 /\ \E p \in DOMAIN cfg.start.pools : a \in WorkersOf(p, cfg.start.pools[p])
      BY <2>1 DEF Named, NamedActors, AllWorkers
    <3> QED
      BY <1>2, <3>1 DEF Own
  <2>2. ASSUME a \in WorkersOf(1, Own) PROVE a \in Named
    BY <1>1, <1>2, <2>2 DEF Named, NamedActors, AllWorkers, Own
  <2> QED
    BY <2>1, <2>2
<1> QED
  BY <1>3 DEF WorkersOf, OwnRanks

LEMMA RankIs ==
  ASSUME NEW k
  PROVE  /\ WorkerOfRank(1, Own, k).rank = k
         /\ WorkerOfRank(1, Own, k).name.pg = k \div Own.size
         /\ WorkerOfRank(1, Own, k).name.local = k % Own.size
         /\ WorkerOfRank(1, Own, k).node = NodeOfGroup(1, k \div Own.size)
BY DEF WorkerOfRank

LEMMA BeforeIsLess ==
  ASSUME cfg \in Configs, NEW j \in OwnRanks, NEW k \in OwnRanks
  PROVE  Before(WorkerOfRank(1, Own, j), WorkerOfRank(1, Own, k)) <=> j < k
<1>1. Own.size \in Nat \ {0} /\ j \in Nat /\ k \in Nat
  BY OwnType DEF OwnRanks
<1> DEFINE a == WorkerOfRank(1, Own, j)
           b == WorkerOfRank(1, Own, k)
<1>2. /\ a.name.pg = j \div Own.size /\ a.name.local = j % Own.size
      /\ b.name.pg = k \div Own.size /\ b.name.local = k % Own.size
  BY RankIs
<1>3. j < k <=> j \div Own.size < k \div Own.size
                \/ (j \div Own.size = k \div Own.size /\ j % Own.size < k % Own.size)
  BY <1>1, RankOrder
<1> HIDE DEF a, b
<1>4. j < k <=> a.name.pg < b.name.pg \/ (a.name.pg = b.name.pg /\ a.name.local < b.name.local)
  BY <1>2, <1>3, Zenon
<1> QED
  BY <1>4, Zenon DEF Before, a, b

(* A worker's index is its rank.                                           *)
LEMMA IndexIsRank ==
  ASSUME cfg \in Configs, NEW k \in OwnRanks
  PROVE  IndexOf(WorkerOfRank(1, Own, k), Named) = k
<1> DEFINE earlier == {b \in Named : Before(b, WorkerOfRank(1, Own, k))}
           f == [i \in 1 .. k |-> WorkerOfRank(1, Own, i - 1)]
<1>1. k \in Nat /\ \A i \in 1 .. k : i - 1 \in OwnRanks /\ i - 1 < k
  BY OwnType DEF OwnRanks
<1>2. ASSUME NEW i \in 1 .. k PROVE f[i] \in earlier
  BY <1>1, NamedAre, BeforeIsLess
<1>3. ASSUME NEW i \in 1 .. k, NEW j \in 1 .. k, f[i] = f[j] PROVE i = j
  <2>1. f[i].rank = i - 1 /\ f[j].rank = j - 1
    BY RankIs
  <2> QED
    BY <1>3, <2>1
<1>4. ASSUME NEW b \in earlier PROVE \E i \in 1 .. k : f[i] = b
  <2>1. PICK j \in OwnRanks : b = WorkerOfRank(1, Own, j)
    BY NamedAre
  <2>2. j < k
    BY <2>1, BeforeIsLess
  <2>3. j + 1 \in 1 .. k /\ (j + 1) - 1 = j
    BY <1>1, <2>2 DEF OwnRanks
  <2> QED
    BY <2>1, <2>3
<1> HIDE DEF earlier
<1>5. f \in Bijection(1 .. k, earlier)
  <2>1. f \in [1 .. k -> earlier]
    BY <1>2
  <2> HIDE DEF f
  <2>2. f \in Injection(1 .. k, earlier)
    BY <1>3, <2>1, Zenon DEF Injection, IsInjective
  <2>3. f \in Surjection(1 .. k, earlier)
    BY <1>4, <2>1, Zenon DEF Surjection
  <2> QED
    BY <2>2, <2>3, Zenon DEF Bijection
<1> HIDE DEF f
<1>6. IsFiniteSet(1 .. k) /\ Cardinality(1 .. k) = k
  BY <1>1, FS_Interval
<1>7. Cardinality(earlier) = k
  BY <1>5, <1>6, FS_Bijection DEF ExistsBijection
<1> QED
  BY <1>7 DEF earlier, IndexOf

LEMMA RanksOfServer ==
  ASSUME cfg \in Configs, NEW s \in Servers
  PROVE  /\ s \in Nat /\ s * cfg.start.tp \in Nat
         /\ (s + 1) * cfg.start.tp = s * cfg.start.tp + cfg.start.tp
         /\ s * cfg.start.tp .. (s + 1) * cfg.start.tp - 1 \subseteq OwnRanks
<1> DEFINE n == World(Own)
           tp == cfg.start.tp
           m == n \div tp
           first == s * tp
<1>1. n \in Nat /\ tp \in Nat \ {0} /\ s \in 0 .. m - 1
  BY OwnType
<1> HIDE DEF n, tp
<1>2. n = m * tp + (n % tp) /\ m \in Nat /\ n % tp \in 0 .. tp - 1
  BY <1>1, DivMod
<1> HIDE DEF m
<1>3. s \in Nat /\ first \in Nat /\ (s + 1) * tp = first + tp
  <2>1. s \in Nat
    BY <1>1, <1>2
  <2> QED
    BY <1>1, <2>1, Product
<1>4. first + tp <= n
  <2>1. m - s - 1 \in Nat
    BY <1>1, <1>2
  <2>2. (m - s - 1) * tp \in Nat
    BY <1>1, <2>1, Product
  <2>3. m * tp = first + tp + (m - s - 1) * tp
    BY <1>1, <1>2, <1>3
  <2>4. m * tp \in Nat /\ m * tp <= n
    BY <1>1, <1>2, Product
  <2> HIDE DEF first
  <2> QED
    BY <1>1, <1>3, <2>2, <2>3, <2>4
<1>5. first .. (s + 1) * tp - 1 \subseteq 0 .. n - 1
  <2> HIDE DEF first
  <2> QED
    BY <1>1, <1>3, <1>4
<1> QED
  BY <1>3, <1>5 DEF first, tp, n, OwnRanks

(* Tensor parallel ranks of a group that fits into a node share it.        *)
LEMMA SameGroup ==
  ASSUME NEW n \in Nat \ {0}, NEW tp \in Nat \ {0}, n % tp = 0, NEW s \in Nat, NEW i \in 0 .. tp - 1
  PROVE  (s * tp + i) \div n = (s * tp) \div n
<1> DEFINE m == n \div tp
           q == s \div m
           r == s % m
<1>1. n = m * tp /\ m \in Nat
  BY DivMod
<1> HIDE DEF m
<1>2. m # 0
  BY <1>1
<1>3. s = q * m + r /\ q \in Nat /\ r \in 0 .. m - 1
  BY <1>1, <1>2, DivMod
<1> HIDE DEF q, r
<1> DEFINE rest == r * tp
<1>4. rest \in Nat /\ rest + tp <= n
  <2>1. r \in Nat /\ m - r - 1 \in Nat
    BY <1>1, <1>3
  <2>2. rest \in Nat /\ (m - r - 1) * tp \in Nat
    BY <2>1, Product
  <2>3. n = rest + tp + (m - r - 1) * tp
    BY <1>1, <2>1
  <2> HIDE DEF rest
  <2> QED
    BY <2>2, <2>3
<1>5. s * tp = q * n + rest
  <2>1. s * tp = (q * m) * tp + rest
    BY <1>1, <1>3
  <2>2. (q * m) * tp = q * (m * tp)
    BY <1>1, <1>3
  <2> QED
    BY <1>1, <2>1, <2>2
<1> HIDE DEF rest
<1>6. rest + i \in 0 .. n - 1 /\ rest \in 0 .. n - 1
  BY <1>4
<1>7. q * n \in Nat
  BY <1>3, Product
<1>8. (q * n + (rest + i)) \div n = q /\ (q * n + rest) \div n = q
  <2> DEFINE j == rest + i
  <2>1. q \in Nat /\ j \in 0 .. n - 1 /\ rest \in 0 .. n - 1
    BY <1>3, <1>6
  <2> HIDE DEF j
  <2>2. (q * n + j) \div n = q
    BY <2>1, PlaceOf
  <2>3. (q * n + rest) \div n = q
    BY <2>1, PlaceOf
  <2> QED
    BY <2>2, <2>3 DEF j
<1>9. s * tp + i = q * n + (rest + i)
  <2> DEFINE u == s * tp
             v == q * n
  <2>1. u = v + rest /\ v \in Nat
    BY <1>5, <1>7
  <2> HIDE DEF u, v
  <2>2. u + i = v + (rest + i)
    BY <1>4, <2>1
  <2> QED
    BY <2>2 DEF u, v
<1> QED
  BY <1>5, <1>8, <1>9, Zenon

LEMMA EngineDrives ==
  ASSUME cfg \in Configs, NEW s \in Servers
  PROVE  LET own == ModelRunnerWorkers(s, cfg.start.pools, cfg.start.tp)
         IN  /\ {a.rank : a \in own} = s * cfg.start.tp .. (s + 1) * cfg.start.tp - 1
             /\ Own.size % cfg.start.tp = 0 /\ SocketType(cfg.start.pools, cfg.start.tp) = "ipc" =>
                  \A a \in own : a.node = NodeOfServer(s, cfg.start.pools, cfg.start.tp)
<1> DEFINE own == ModelRunnerWorkers(s, cfg.start.pools, cfg.start.tp)
           ranks == s * cfg.start.tp .. (s + 1) * cfg.start.tp - 1
<1>1. ranks \subseteq OwnRanks
  BY RanksOfServer
<1>2. ASSUME NEW a \in own PROVE \E k \in ranks : a = WorkerOfRank(1, Own, k)
  <2>1. a \in Named /\ IndexOf(a, Named) \in ranks
    BY <1>2 DEF ModelRunnerWorkers, Named
  <2>2. PICK k \in OwnRanks : a = WorkerOfRank(1, Own, k)
    BY <2>1, NamedAre
  <2>3. k \in ranks
    BY <2>1, <2>2, IndexIsRank
  <2> QED
    BY <2>2, <2>3
<1>3. ASSUME NEW k \in ranks PROVE WorkerOfRank(1, Own, k) \in own
  <2>1. k \in OwnRanks
    BY <1>1
  <2>2. WorkerOfRank(1, Own, k) \in Named /\ IndexOf(WorkerOfRank(1, Own, k), Named) \in ranks
    BY <2>1, NamedAre, IndexIsRank
  <2> QED
    BY <2>2 DEF ModelRunnerWorkers, Named
<1> HIDE DEF own
<1>4. {a.rank : a \in own} = ranks
  <2> HIDE DEF ranks
  <2>1. ASSUME NEW a \in own PROVE a.rank \in ranks
    BY <1>2, RankIs
  <2>2. ASSUME NEW k \in ranks PROVE \E a \in own : a.rank = k
    BY <1>3, RankIs
  <2> QED
    BY <2>1, <2>2
<1>5. ASSUME Own.size % cfg.start.tp = 0, SocketType(cfg.start.pools, cfg.start.tp) = "ipc", NEW a \in own
      PROVE  a.node = NodeOfServer(s, cfg.start.pools, cfg.start.tp)
  <2> DEFINE n == Own.size
             tp == cfg.start.tp
             first == s * tp
  <2>1. n \in Nat \ {0} /\ tp \in Nat \ {0} /\ n % tp = 0
    BY <1>5, OwnType
  <2>2. PICK k \in ranks : a = WorkerOfRank(1, Own, k)
    BY <1>2
  <2>3. s \in Nat /\ first \in Nat /\ k \in first .. first + tp - 1
    <3>1. s \in Nat /\ first \in Nat /\ (s + 1) * tp = first + tp
      BY RanksOfServer
    <3> DEFINE end == (s + 1) * tp
    <3>2. k \in first .. end - 1
      BY <2>2
    <3>3. end = first + tp
      BY <3>1
    <3> HIDE DEF first, end
    <3> QED
      BY <2>1, <3>1, <3>2, <3>3
  <2>4. k - first \in 0 .. tp - 1 /\ k = first + (k - first)
    <3> HIDE DEF first, ranks
    <3> QED
      BY <2>1, <2>3
  <2>5. (first + (k - first)) \div n = first \div n
    <3> DEFINE i == k - first
    <3>1. i \in 0 .. tp - 1
      BY <2>4
    <3> HIDE DEF i, n, tp
    <3>2. s \in Nat
      BY <2>3
    <3>3. (s * tp + i) \div n = (s * tp) \div n
      BY <2>1, <3>1, <3>2, SameGroup, ZenonT(60)
    <3> QED
      BY <3>3, Zenon DEF i
  <2>6. k \div n = first \div n
    BY <2>4, <2>5
  <2>7. NodeOfServer(s, cfg.start.pools, cfg.start.tp) = NodeOfGroup(1, first \div n)
    BY RankIs DEF NodeOfServer, Own
  <2> QED
    BY <2>2, <2>6, <2>7, RankIs
<1> QED
  BY <1>4, <1>5, Zenon DEF own, ranks

(* Engines are only made when every worker is placed, and nothing is       *)
(* placed after the start.                                                 *)
PlacesInv ==
  /\ cfg \in Configs /\ DOMAIN server = Servers /\ DOMAIN engine = Servers
  /\ manager = "starting" => \A s \in Servers : engine[s] = {}
  /\ EnginesReachWorkers

LEMMA PlacesInit == Init => PlacesInv
<1> SUFFICES ASSUME Init PROVE PlacesInv
  OBVIOUS
<1>1. cfg \in Configs /\ server = [s \in Servers |-> "none"] /\ engine = [s \in Servers |-> {}]
  BY DEF Init, ServersInit
<1> QED
  BY <1>1 DEF PlacesInv, EnginesReachWorkers

LEMMA PlacesQuiet ==
  ASSUME PlacesInv, UNCHANGED <<cfg, placed, engine>>, DOMAIN server' = DOMAIN server,
         manager' = "starting" => manager = "starting"
  PROVE  PlacesInv'
<1>1. ASSUME NEW s PROVE /\ NodeOfServer(s, cfg.start.pools, cfg.start.tp)'
                            = NodeOfServer(s, cfg.start.pools, cfg.start.tp)
                         /\ SocketType(cfg.start.pools, cfg.start.tp)'
                            = SocketType(cfg.start.pools, cfg.start.tp)
  BY DEF NodeOfServer, WorkerOfRank, NodeOfGroup, SocketType
<1> QED
  BY <1>1 DEF PlacesInv, EnginesReachWorkers

LEMMA EnginesMade ==
  ASSUME PlacesInv, InitEngines(cfg.start.pools, cfg.start.tp), UNCHANGED <<cfg, placed>>,
         manager' = "idle"
  PROVE  PlacesInv'
<1>1. /\ engine' = [s \in Servers |-> ModelRunnerWorkers(s, cfg.start.pools, cfg.start.tp)]
      /\ server' = server
  BY DEF InitEngines, PlacesInv
<1>2. ASSUME NEW s \in Servers
      PROVE  /\ {a.rank : a \in engine'[s]} = s * cfg.start.tp .. (s + 1) * cfg.start.tp - 1
             /\ Own.size % cfg.start.tp = 0 /\ SocketType(cfg.start.pools, cfg.start.tp) = "ipc" =>
                  \A a \in engine'[s] : a.node = NodeOfServer(s, cfg.start.pools, cfg.start.tp)
  BY <1>1, EngineDrives DEF PlacesInv
<1>3. ASSUME NEW s PROVE /\ NodeOfServer(s, cfg.start.pools, cfg.start.tp)'
                            = NodeOfServer(s, cfg.start.pools, cfg.start.tp)
                         /\ SocketType(cfg.start.pools, cfg.start.tp)'
                            = SocketType(cfg.start.pools, cfg.start.tp)
  BY DEF NodeOfServer, WorkerOfRank, NodeOfGroup, SocketType
<1>4. EnginesReachWorkers'
  BY <1>2, <1>3 DEF EnginesReachWorkers, Own
<1> QED
  BY <1>1, <1>4 DEF PlacesInv

LEMMA WorkersStarted ==
  ASSUME PlacesInv, StartWorkers, UNCHANGED cfg
  PROVE  PlacesInv'
<1>1. manager = "starting" /\ UNCHANGED <<manager, server, engine>>
  BY DEF StartWorkers, serverVars
<1>2. \A s \in Servers : engine'[s] = {}
  BY <1>1 DEF PlacesInv
<1> QED
  BY <1>1, <1>2 DEF PlacesInv, EnginesReachWorkers

LEMMA PlacesStep == PlacesInv /\ [Next]_vars => PlacesInv'
<1> SUFFICES ASSUME PlacesInv, [Next]_vars PROVE PlacesInv'
  OBVIOUS
<1>1. CASE StartStep
  <2>1. UNCHANGED cfg
    BY <1>1 DEF StartStep
  <2>2. CASE RejectPools
    BY <2>1, <2>2, PlacesQuiet DEF RejectPools, startVars, serverVars
  <2>3. CASE StartWorkers
    BY <2>1, <2>3, WorkersStarted
  <2>4. CASE StartServers
    <3>1. UNCHANGED <<manager, placed, engine>> /\ DOMAIN server' = DOMAIN server
      BY <2>4 DEF StartServers, LaunchServers, ServerReady, AddressKnown, KillServer
    <3> QED
      BY <2>1, <3>1, PlacesQuiet
  <2>5. CASE EndStart
    <3>1. CASE InitEngines(cfg.start.pools, cfg.start.tp) /\ manager' = "idle"
      BY <2>1, <2>5, <3>1, EnginesMade DEF EndStart
    <3>2. CASE InitRaises(cfg.start.pools, cfg.start.tp) /\ manager' = "raised"
      BY <2>1, <2>5, <3>2, PlacesQuiet DEF EndStart, InitRaises, serverVars
    <3> QED
      BY <2>5, <3>1, <3>2 DEF EndStart
  <2>6. CASE LoseServer
    <3>1. UNCHANGED <<manager, placed, engine>> /\ DOMAIN server' = DOMAIN server
      BY <2>6 DEF LoseServer, ServerExits
    <3> QED
      BY <2>1, <3>1, PlacesQuiet
  <2> QED
    BY <1>1, <2>2, <2>3, <2>4, <2>5, <2>6 DEF StartStep
<1>2. CASE ~ StartStep
  <2>1. /\ UNCHANGED <<cfg, placed, engine, server>>
        /\ manager' = "starting" => manager = "starting"
    BY <1>2 DEF Next, vars, AgentStep, RewardStep, ToolStep, RejectBatch, StartRound, EndRound,
                RaiseRound, Prepare, AskEngine, EngineAnswers, CallTools, ToolsAnswer,
                InteractionAnswers, AskReward, batchVars, startVars, serverVars
  <2> QED
    BY <2>1, PlacesQuiet
<1> QED
  BY <1>1, <1>2

(* Wherever Ray has placed the workers, and however servers were started   *)
(* again, the engine of a server finds by their names the workers whose    *)
(* ranks are its tensor parallel group (_get_model_runner_workers), for any*)
(* pools, tensor parallel sizes and numbers of servers; and if the size    *)
(* divides the processes of a node, workers that listen on a file run on   *)
(* the node of their server (_init_zeromq).                                *)
THEOREM EnginesFindWorkers == Spec => []EnginesReachWorkers
<1>1. PlacesInv => EnginesReachWorkers
  BY DEF PlacesInv
<1> QED
  BY PlacesInit, PlacesStep, <1>1, PTL DEF Spec
=============================================================================
