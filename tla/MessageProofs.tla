--------------------------- MODULE MessageProofs ----------------------------
(***************************************************************************)
(* What becomes of a setup message at its two ends: how the wrapper puts   *)
(* the keys of two lists into messages, for all lists and every number of  *)
(* slots, and what the handlers of leap.c do to the RAM of a node.         *)
(***************************************************************************)
EXTENDS LeapReceiver, MessageWrapper, FiniteSetTheorems, FunctionTheorems,
        SequenceTheorems, WellFoundedInduction, TLAPS

-----------------------------------------------------------------------------
(* The handlers of a node *)

\* A node starts from a state of its type (the initialisers of leap.c).
LEMMA BootedType == Booted \in NodeState
  BY DEF Booted, NodeState, NoAddr, Bits, NoKey

\* Storing keys keeps a key list a key list, loses no key that is there, and
\* leaves a key for every address named (insert_into_list).
LEMMA InsertFacts ==
  ASSUME NEW keys \in [Nodes -> Nat], NEW addrs \in SUBSET Nodes, NEW gen \in Nat \ {0}
  PROVE  /\ Insert(keys, addrs, gen) \in [Nodes -> Nat]
         /\ \A a \in Nodes : keys[a] # NoKey => Insert(keys, addrs, gen)[a] = keys[a]
         /\ \A a \in addrs : Insert(keys, addrs, gen)[a] # NoKey
  BY DEF Insert, NoKey

\* recv_uc keeps the type and changes nothing but key_sender.
LEMMA KnowSenderFacts ==
  ASSUME NEW n \in NodeState, NEW from \in Nodes
  PROVE  /\ KnowSender(n, from) \in NodeState
         /\ KnowSender(n, from).key_sender \in Nodes
         /\ KnowSender(n, from).nack_running = n.nack_running
         /\ KnowSender(n, from).nack_process = n.nack_process
         /\ KnowSender(n, from).sequence_mask = n.sequence_mask
         /\ KnowSender(n, from).basic = n.basic
         /\ KnowSender(n, from).pairwise = n.pairwise
         /\ KnowSender(n, from).cluster = n.cluster
  BY DEF KnowSender, NodeState

\* The part of multiplex_message that comes before process_header.
ParsedMessage(n, f) == IF f.msg.type = "basic" THEN ParseBasic(n, f) ELSE ParseExtended(n, f)

\* The two parsers store keys and touch none of the bookkeeping.
LEMMA ParsedFacts ==
  ASSUME NEW n \in NodeState, NEW f \in DataFrame
  PROVE  LET p == ParsedMessage(n, f)
         IN  /\ p \in NodeState
             /\ p.key_sender = n.key_sender
             /\ p.nack_running = n.nack_running
             /\ p.nack_process = n.nack_process
             /\ p.sequence_mask = n.sequence_mask
             /\ p.total_expected = n.total_expected
             /\ p.start_nack_proc = n.start_nack_proc
             /\ f.msg.type = "basic" => /\ p.basic = f.gen
                                        /\ p.pairwise = n.pairwise
                                        /\ p.cluster = n.cluster
             /\ f.msg.type = "extended" =>
                  /\ p.basic = n.basic
                  /\ p.pairwise = Insert(n.pairwise, f.msg.pairwise, f.gen)
                  /\ p.cluster = Insert(n.cluster, f.msg.cluster, f.gen)
<1> DEFINE p == ParsedMessage(n, f)
<1>1. /\ f.msg \in Message /\ f.gen \in Nat \ {0}
      /\ f.msg.type \in {"basic", "extended"}
      /\ f.msg.pairwise \in SUBSET Nodes /\ f.msg.cluster \in SUBSET Nodes
  BY DEF DataFrame, Message
<1>2. CASE f.msg.type = "basic"
  BY <1>1, <1>2 DEF ParsedMessage, ParseBasic, NodeState
<1>3. CASE f.msg.type = "extended"
  <2>1. /\ Insert(n.pairwise, f.msg.pairwise, f.gen) \in [Nodes -> Nat]
        /\ Insert(n.cluster, f.msg.cluster, f.gen) \in [Nodes -> Nat]
    BY <1>1, InsertFacts DEF NodeState
  <2> QED BY <1>1, <1>3, <2>1 DEF ParsedMessage, ParseExtended, NodeState
<1> QED BY <1>1, <1>2, <1>3

\* Sending an answer resets the bookkeeping and keeps the keys.
LEMMA AnsweredFacts ==
  ASSUME NEW n \in NodeState
  PROVE  /\ Answered(n) \in NodeState
         /\ Answered(n).nack_running = 0
         /\ Answered(n).nack_process = n.nack_process
         /\ Answered(n).key_sender = n.key_sender
         /\ Answered(n).sequence_mask = {}
         /\ Answered(n).basic = n.basic
         /\ Answered(n).pairwise = n.pairwise
         /\ Answered(n).cluster = n.cluster
<1>1. 0 \in Bits /\ 0 \in 0 .. 14 /\ {} \in SUBSET Bits
  BY DEF Bits
<1>2. Answered(n) \in NodeState
  BY <1>1 DEF Answered, NodeState
<1>3. /\ Answered(n).nack_running = 0
      /\ Answered(n).nack_process = n.nack_process
      /\ Answered(n).key_sender = n.key_sender
      /\ Answered(n).sequence_mask = {}
  BY DEF Answered, NodeState
<1>4. /\ Answered(n).basic = n.basic
      /\ Answered(n).pairwise = n.pairwise
      /\ Answered(n).cluster = n.cluster
  BY DEF Answered, NodeState
<1> QED BY <1>2, <1>3, <1>4

\* process_header, on a node whose nack_process never ran: it never starts
\* it, an answer empties the mask, any other message adds its bit.
LEMMA HeaderFacts ==
  ASSUME NEW n \in NodeState, NEW f \in DataFrame,
         n.nack_running = 0, n.nack_process = "idle"
  PROVE  LET h == ProcessHeader(n, f)
         IN  /\ h \in NodeState
             /\ h.nack_running = 0 /\ h.nack_process = "idle"
             /\ h.key_sender = n.key_sender
             /\ h.sequence_mask = IF AnswerDue(f) THEN {} ELSE AnswerMask(n, f)
             /\ h.basic = n.basic /\ h.pairwise = n.pairwise /\ h.cluster = n.cluster
<1>1. f.seq \in Bits /\ f.rem \in Bits /\ f.seq + f.rem \in 0 .. 14
  BY DEF DataFrame, Bits
<1>2. ~ ArmsNackProcess(n, f)
  BY DEF ArmsNackProcess
<1>3. HeaderSeen(n, f) \in NodeState
  BY <1>1 DEF HeaderSeen, AnswerMask, NodeState
<1>4. CASE AnswerDue(f)
  <2>1. ProcessHeader(n, f) = Answered(HeaderSeen(n, f))
    BY <1>2, <1>4 DEF ProcessHeader
  <2>2. /\ HeaderSeen(n, f).key_sender = n.key_sender
        /\ HeaderSeen(n, f).nack_process = "idle"
        /\ HeaderSeen(n, f).basic = n.basic
        /\ HeaderSeen(n, f).pairwise = n.pairwise
        /\ HeaderSeen(n, f).cluster = n.cluster
    BY DEF HeaderSeen, NodeState
  <2> QED BY <1>3, <1>4, <2>1, <2>2, AnsweredFacts
<1>5. CASE ~ AnswerDue(f)
  BY <1>2, <1>3, <1>5 DEF ProcessHeader, HeaderSeen, NodeState
<1> QED BY <1>4, <1>5

\* multiplex_message as a whole.
LEMMA MultiplexFacts ==
  ASSUME NEW n \in NodeState, NEW f \in DataFrame,
         n.nack_running = 0, n.nack_process = "idle"
  PROVE  LET h == Multiplex(n, f)
         IN  /\ h \in NodeState
             /\ h.nack_running = 0 /\ h.nack_process = "idle"
             /\ h.key_sender = n.key_sender
             /\ h.sequence_mask = IF AnswerDue(f) THEN {} ELSE AnswerMask(n, f)
             /\ f.msg.type = "basic" => /\ h.basic = f.gen
                                        /\ h.pairwise = n.pairwise
                                        /\ h.cluster = n.cluster
             /\ f.msg.type = "extended" =>
                  /\ h.basic = n.basic
                  /\ h.pairwise = Insert(n.pairwise, f.msg.pairwise, f.gen)
                  /\ h.cluster = Insert(n.cluster, f.msg.cluster, f.gen)
<1>1. Multiplex(n, f) = ProcessHeader(ParsedMessage(n, f), f)
  BY DEF Multiplex, ParsedMessage
<1>2. AnswerMask(ParsedMessage(n, f), f) = AnswerMask(n, f)
  BY ParsedFacts DEF AnswerMask
<1> QED BY <1>1, <1>2, ParsedFacts, HeaderFacts

\* What a message leaves in the node: all keys the node had, and its own.
LEMMA MultiplexStores ==
  ASSUME NEW n \in NodeState, NEW f \in DataFrame,
         n.nack_running = 0, n.nack_process = "idle"
  PROVE  LET h == Multiplex(n, f)
         IN  /\ \A a \in Nodes :
                  /\ n.pairwise[a] # NoKey => h.pairwise[a] = n.pairwise[a]
                  /\ n.cluster[a] # NoKey => h.cluster[a] = n.cluster[a]
             /\ h.basic \in {n.basic, f.gen}
             /\ IF f.msg.type = "basic" THEN h.basic = f.gen
                ELSE /\ \A a \in f.msg.pairwise : h.pairwise[a] # NoKey
                     /\ \A a \in f.msg.cluster : h.cluster[a] # NoKey
<1> DEFINE h == Multiplex(n, f)
<1>1. /\ f.gen \in Nat \ {0} /\ f.msg.type \in {"basic", "extended"}
      /\ f.msg.pairwise \in SUBSET Nodes /\ f.msg.cluster \in SUBSET Nodes
      /\ n.pairwise \in [Nodes -> Nat] /\ n.cluster \in [Nodes -> Nat]
  BY DEF DataFrame, Message, NodeState
<1>2. CASE f.msg.type = "basic"
  BY <1>2, MultiplexFacts
<1>3. CASE f.msg.type = "extended"
  <2>1. /\ h.basic = n.basic
        /\ h.pairwise = Insert(n.pairwise, f.msg.pairwise, f.gen)
        /\ h.cluster = Insert(n.cluster, f.msg.cluster, f.gen)
    BY <1>3, MultiplexFacts
  <2> QED BY <1>1, <1>3, <2>1, InsertFacts
<1> QED BY <1>1, <1>2, <1>3

-----------------------------------------------------------------------------
(* The messages of a wrapper *)

\* A list without repetitions.
Distinct(list) == \A x, y \in 1 .. Len(list) : list[x] = list[y] => x = y

\* A finite set as a list.
LEMMA SetToList ==
  ASSUME NEW S, IsFiniteSet(S)
  PROVE  LET s == Seqs!SetToSeq(S)
         IN  /\ s \in Seq(S) /\ Len(s) = Cardinality(S)
             /\ Distinct(s) /\ Elements(s) = S
<1> DEFINE n == Cardinality(S)
<1>1. n \in Nat /\ ExistsBijection(1 .. n, S)
  BY FS_CardinalityType
<1>2. PICK f : f \in Bijection(1 .. n, S)
  BY <1>1 DEF ExistsBijection
<1>3. f \in [1 .. n -> S] /\ \A x, y \in 1 .. n : f[x] = f[y] => x = y
  BY <1>2 DEF Bijection, Injection, IsInjective
<1> DEFINE s == Seqs!SetToSeq(S)
<1>4. s \in [1 .. n -> S] /\ \A x, y \in 1 .. n : s[x] = s[y] => x = y
  <2>1. Seqs!Cardinality(S) = n
    BY DEF Seqs!Cardinality, Cardinality
  <2>2. Seqs!IsInjective(f)
    BY <1>3 DEF Seqs!IsInjective
  <2>3. s \in [1 .. n -> S] /\ Seqs!IsInjective(s)
    BY <1>3, <2>1, <2>2 DEF Seqs!SetToSeq
  <2> QED BY <2>3 DEF Seqs!IsInjective
<1> HIDE DEF s
<1>5. s \in Seq(S) /\ Len(s) = n
  BY <1>1, <1>4
<1>6. s \in Surjection(1 .. n, S)
  <2>1. s \in Injection(1 .. n, S)
    BY <1>4 DEF Injection, IsInjective
  <2>2. Cardinality(1 .. n) = n
    BY <1>1, FS_Interval
  <2> QED BY <2>1, <2>2, FS_Injection
<1>7. Elements(s) = S
  BY <1>4, <1>5, <1>6 DEF Surjection, Elements
<1> QED BY <1>4, <1>5, <1>7 DEF s, Distinct

\* Induction over a set of numbers.
LEMMA SetInduction ==
  ASSUME NEW S \in SUBSET Nat, 0 \in S, \A k \in S : k + 1 \in S
  PROVE  S = Nat
<1>1. SUFFICES ASSUME Nat \ S # {} PROVE FALSE
  OBVIOUS
<1>2. PICK x \in Nat \ S : \A y \in Nat \ S : ~ (<<y, x>> \in OpToRel(<, Nat))
  BY <1>1, WFMin, NatLessThanWellFounded
<1>3. x # 0 /\ x - 1 \in Nat /\ x - 1 < x
  OBVIOUS
<1>4. <<x - 1, x>> \in OpToRel(<, Nat)
  BY <1>3 DEF OpToRel
<1>5. x - 1 \in S
  BY <1>2, <1>3, <1>4
<1> QED BY <1>5

-----------------------------------------------------------------------------
(* The loop of MessageWrapper's constructor *)

\* What the counters can be, and how many keys they have not counted.
Counters(pairwise, cluster) == (0 .. Len(pairwise)) \X (0 .. Len(cluster))
Left(pairwise, cluster, at) == (Len(pairwise) - at[1]) + (Len(cluster) - at[2])

\* A message takes keys from both lists in order, at least one and at most
\* Slots of them, and Slots of them as long as there are more.
LEMMA NextFacts ==
  ASSUME NEW P, NEW C, Len(P) \in Nat, Len(C) \in Nat,
         NEW at \in Counters(P, C), at # <<Len(P), Len(C)>>
  PROVE  LET next == NextKeys(P, C, at)
         IN  /\ next \in Counters(P, C)
             /\ at[1] <= next[1] /\ at[2] <= next[2]
             /\ (next[1] - at[1]) + (next[2] - at[2]) <= Slots
             /\ Left(P, C, next) < Left(P, C, at)
             /\ Left(P, C, at) - Left(P, C, next) <= Slots
             /\ \/ next = <<Len(P), Len(C)>>
                \/ Left(P, C, at) - Left(P, C, next) = Slots
<1>1. PICK lp \in Nat, lc \in Nat, k \in Nat \ {0} :
        lp = Len(P) /\ lc = Len(C) /\ k = Slots
  BY SlotsAssumption
<1>2. lp \in Nat /\ lc \in Nat /\ k \in Nat /\ k > 0
  BY <1>1
<1>3. PICK p \in Nat, c \in Nat : at = <<p, c>> /\ p <= lp /\ c <= lc
  BY <1>1 DEF Counters
<1>4. p # lp \/ c # lc
  BY <1>1, <1>3
<1>5. PICK q \in Nat : q = Smaller(p + k, lp)
  BY <1>2, <1>3 DEF Smaller
<1>6. PICK r : r = Smaller(c + (k - (q - p)), lc)
  OBVIOUS
<1>7. NextKeys(P, C, at) = <<q, r>>
  BY <1>1, <1>3, <1>5, <1>6 DEF NextKeys
<1>8. /\ q \in 0 .. lp /\ r \in 0 .. lc /\ p <= q /\ c <= r
      /\ (q - p) + (r - c) <= k
      /\ (lp - q) + (lc - r) < (lp - p) + (lc - c)
      /\ \/ q = lp /\ r = lc
         \/ ((lp - p) + (lc - c)) - ((lp - q) + (lc - r)) = k
  <2>1. CASE p + k < lp
    <3>1. q = p + k /\ r = c
      BY <1>2, <1>3, <1>5, <1>6, <2>1 DEF Smaller
    <3> QED BY <1>2, <1>3, <2>1, <3>1
  <2>2. CASE ~ (p + k < lp)
    <3>1. q = lp
      BY <1>2, <1>3, <1>5, <2>2 DEF Smaller
    <3>2. \/ r = c + (k - (lp - p)) /\ r < lc
          \/ r = lc /\ lc <= c + (k - (lp - p))
      BY <1>2, <1>3, <1>6, <3>1 DEF Smaller
    <3>3. CASE r = lc
      BY <1>2, <1>3, <1>4, <2>2, <3>1, <3>2, <3>3
    <3>4. CASE r = c + (k - (lp - p)) /\ r < lc
      BY <1>2, <1>3, <1>4, <2>2, <3>1, <3>4
    <3> QED BY <3>2, <3>3, <3>4
  <2> QED BY <2>1, <2>2
<1>9. PICK next : next = NextKeys(P, C, at)
  OBVIOUS
<1>10. next[1] = q /\ next[2] = r /\ at[1] = p /\ at[2] = c /\ next = <<q, r>>
  BY <1>3, <1>7, <1>9
<1>11. next \in Counters(P, C) /\ (q = lp /\ r = lc => next = <<Len(P), Len(C)>>)
  BY <1>1, <1>5, <1>8, <1>10 DEF Counters
<1>12. /\ Left(P, C, next) = (lp - q) + (lc - r)
       /\ Left(P, C, at) = (lp - p) + (lc - c)
  BY <1>1, <1>10 DEF Left
<1> QED BY <1>1, <1>5, <1>8, <1>9, <1>10, <1>11, <1>12

\* rest is the loop as a function of the counters.
IsLoop(rest, pairwise, cluster, D) ==
  rest = [at \in D |->
            LET next == NextKeys(pairwise, cluster, at)
            IN  IF at = <<Len(pairwise), Len(cluster)>> THEN <<>>
                ELSE <<KeysBetween(pairwise, cluster, at, next)>> \o rest[next]]

\* The loop ends: there is such a function, and it is the code's.
LEMMA LoopEnds ==
  ASSUME NEW P, NEW C, Len(P) \in Nat, Len(C) \in Nat
  PROVE  \E rest : /\ IsLoop(rest, P, C, Counters(P, C))
                   /\ ExtendedMessages(P, C) = rest[<<0, 0>>]
<1> DEFINE D(k) == {at \in Counters(P, C) : Left(P, C, at) <= k}
           Runs == {k \in Nat : \E rest : IsLoop(rest, P, C, D(k))}
           step(rest, at) ==
             LET next == NextKeys(P, C, at)
             IN  IF at = <<Len(P), Len(C)>> THEN <<>>
                 ELSE <<KeysBetween(P, C, at, next)>> \o rest[next]
<1>1. \A at \in Counters(P, C) : Left(P, C, at) \in Nat
  BY DEF Counters, Left
<1>2. ASSUME NEW k \in Nat, NEW at \in D(k + 1), at # <<Len(P), Len(C)>>
      PROVE  NextKeys(P, C, at) \in D(k)
  <2>1. /\ NextKeys(P, C, at) \in Counters(P, C)
        /\ Left(P, C, NextKeys(P, C, at)) < Left(P, C, at)
    BY <1>2, NextFacts
  <2> QED BY <1>1, <2>1
<1>3. 0 \in Runs
  <2>1. \A at \in D(0) : at = <<Len(P), Len(C)>>
    BY NextFacts, <1>1
  <2>2. IsLoop([at \in D(0) |-> <<>>], P, C, D(0))
    BY <2>1 DEF IsLoop
  <2> QED BY <2>2
<1>4. ASSUME NEW k \in Runs PROVE k + 1 \in Runs
  <2>1. PICK f : IsLoop(f, P, C, D(k))
    OBVIOUS
  <2> DEFINE g == [at \in D(k + 1) |-> step(f, at)]
  <2>2. ASSUME NEW at \in D(k) PROVE g[at] = f[at]
    <3>1. at \in D(k + 1)
      BY <1>1
    <3>2. f[at] = step(f, at)
      BY <2>1 DEF IsLoop
    <3> QED BY <3>1, <3>2
  <2>3. ASSUME NEW at \in D(k + 1) PROVE step(f, at) = step(g, at)
    BY <1>2, <2>2
  <2>4. g = [at \in D(k + 1) |-> step(g, at)]
    BY <2>3
  <2>5. IsLoop(g, P, C, D(k + 1))
    BY <2>4 DEF IsLoop
  <2>6. k \in Nat /\ k + 1 \in Nat
    OBVIOUS
  <2>7. \E rest : IsLoop(rest, P, C, D(k + 1))
    BY <2>5
  <2> QED BY <2>6, <2>7
<1>5. Runs = Nat
  <2> HIDE DEF Runs
  <2>1. Runs \in SUBSET Nat
    BY DEF Runs
  <2> QED BY <1>3, <1>4, <2>1, SetInduction
<1>6. \E rest : IsLoop(rest, P, C, D(Len(P) + Len(C)))
  <2>1. PICK k \in Nat : k = Len(P) + Len(C)
    OBVIOUS
  <2>2. k \in Runs
    BY <1>5
  <2> QED BY <2>1, <2>2
<1>7. D(Len(P) + Len(C)) = Counters(P, C)
  BY DEF Counters, Left
<1>8. \E rest : IsLoop(rest, P, C, Counters(P, C))
  BY <1>6, <1>7
<1> DEFINE loop == CHOOSE rest : IsLoop(rest, P, C, Counters(P, C))
<1>9. IsLoop(loop, P, C, Counters(P, C))
  BY <1>8
<1>10. ExtendedMessages(P, C) = loop[<<0, 0>>]
  BY DEF ExtendedMessages, IsLoop, Counters
<1> QED BY <1>9, <1>10

-----------------------------------------------------------------------------
(* What the loop makes *)

\* The keys of a list from the (a+1)-th to the b-th.
KeysFrom(list, a, b) == {list[x] : x \in a + 1 .. b}

\* So many keys are in one message.
Load(m) == Cardinality(m.pairwise) + Cardinality(m.cluster)

\* A sequence with one more element in front.
LEMMA ConsFacts ==
  ASSUME NEW S, NEW t \in Seq(S), NEW e \in S
  PROVE  LET s == <<e>> \o t
         IN  /\ s \in Seq(S) /\ Len(t) \in Nat /\ Len(s) = Len(t) + 1 /\ s[1] = e
             /\ \A k \in 1 .. Len(t) : k + 1 \in 1 .. Len(s) /\ s[k + 1] = t[k]
             /\ \A k \in 1 .. Len(s) :
                  k = 1 \/ (k - 1 \in 1 .. Len(t) /\ s[k] = t[k - 1])
<1>1. PICK h : h = <<e>>
  OBVIOUS
<1>2. h \in Seq(S) /\ Len(h) = 1 /\ h[1] = e
  BY <1>1
<1>3. PICK n \in Nat : n = Len(t)
  OBVIOUS
<1>4. PICK s : s = h \o t
  OBVIOUS
<1>5. /\ s \in Seq(S) /\ Len(s) = 1 + n
      /\ \A k \in 1 .. 1 + n : s[k] = IF k <= 1 THEN h[k] ELSE t[k - 1]
  <2>1. /\ s \in Seq(S) /\ Len(s) = Len(h) + Len(t)
        /\ \A k \in 1 .. Len(h) + Len(t) :
             s[k] = IF k <= Len(h) THEN h[k] ELSE t[k - Len(h)]
    BY <1>2, <1>4, ConcatProperties
  <2> QED BY <1>2, <1>3, <2>1
<1>6. s[1] = e
  BY <1>2, <1>3, <1>5
<1>7. ASSUME NEW k \in 1 .. n PROVE k + 1 \in 1 .. 1 + n /\ s[k + 1] = t[k]
  <2>1. /\ k + 1 \in 1 .. 1 + n /\ ~ (k + 1 <= 1) /\ (k + 1) - 1 = k
    BY <1>3
  <2> QED BY <1>5, <2>1
<1>8. ASSUME NEW k \in 1 .. 1 + n PROVE k = 1 \/ (k - 1 \in 1 .. n /\ s[k] = t[k - 1])
  BY <1>3, <1>5
<1> QED BY <1>1, <1>3, <1>4, <1>5, <1>6, <1>7, <1>8

\* A part of a list has the keys in it, no more of them than places.
LEMMA PartOfList ==
  ASSUME NEW A, NEW list \in Seq(A), NEW a \in 0 .. Len(list), NEW b \in a .. Len(list)
  PROVE  /\ Elements(SubSeq(list, a + 1, b)) = KeysFrom(list, a, b)
         /\ Cardinality(KeysFrom(list, a, b)) <= b - a
         /\ Cardinality(KeysFrom(list, a, b)) \in Nat
         /\ KeysFrom(list, a, Len(list))
              = KeysFrom(list, a, b) \cup KeysFrom(list, b, Len(list))
<1>1. a \in Nat /\ b \in Nat /\ Len(list) \in Nat /\ a <= b /\ b <= Len(list)
  OBVIOUS
<1>2. KeysFrom(list, a, Len(list))
        = KeysFrom(list, a, b) \cup KeysFrom(list, b, Len(list))
  BY <1>1 DEF KeysFrom
<1> DEFINE part == SubSeq(list, a + 1, b)
<1>3. /\ Len(part) = b - a
      /\ \A k \in 1 .. b - a : part[k] = list[a + k]
  BY <1>1, SubSeqProperties
<1>4. Elements(part) = KeysFrom(list, a, b)
  <2>1. Elements(part) = {part[k] : k \in 1 .. b - a}
    BY <1>3 DEF Elements
  <2>2. \A k \in 1 .. b - a : a + k \in a + 1 .. b
    BY <1>1
  <2>3. \A x \in a + 1 .. b : x - a \in 1 .. b - a /\ a + (x - a) = x
    BY <1>1
  <2>4. \A k \in 1 .. b - a : part[k] \in KeysFrom(list, a, b)
    BY <1>3, <2>2 DEF KeysFrom
  <2>5. \A x \in a + 1 .. b : list[x] \in {part[k] : k \in 1 .. b - a}
    BY <1>3, <2>3
  <2> QED BY <2>1, <2>4, <2>5 DEF KeysFrom
<1>5. Cardinality(KeysFrom(list, a, b)) <= b - a /\ IsFiniteSet(KeysFrom(list, a, b))
  <2>1. PICK f : f = [k \in 1 .. b - a |-> part[k]]
    OBVIOUS
  <2>2. KeysFrom(list, a, b) = {part[k] : k \in 1 .. b - a}
    BY <1>3, <1>4 DEF Elements
  <2>4. f \in Surjection(1 .. b - a, KeysFrom(list, a, b))
    BY <2>1, <2>2 DEF Surjection
  <2>3. IsFiniteSet(1 .. b - a) /\ Cardinality(1 .. b - a) = b - a
    <3>1. PICK n \in Nat : n = b - a
      BY <1>1
    <3>2. IsFiniteSet(1 .. n) /\ Cardinality(1 .. n) = n
      BY FS_Interval
    <3> QED BY <3>1, <3>2
  <2> QED BY <2>4, <2>3, FS_Surjection
<1> QED BY <1>2, <1>4, <1>5, FS_CardinalityType

\* The sets sets[1], ..., sets[n] hold these keys, each in one of them.
Spread(sets, n, keys) ==
  /\ keys = UNION {sets[k] : k \in 1 .. n}
  /\ \A j, k \in 1 .. n : j # k => sets[j] \cap sets[k] = {}

\* One more set in front, of other keys.
LEMMA SpreadMore ==
  ASSUME NEW n \in Nat, NEW keys, NEW t, Spread(t, n, keys),
         NEW first, first \cap keys = {},
         NEW s, s[1] = first, \A k \in 1 .. n : s[k + 1] = t[k]
  PROVE  Spread(s, n + 1, first \cup keys)
<1>1. ASSUME NEW k \in 1 .. n + 1, k # 1
      PROVE  k - 1 \in 1 .. n /\ s[k] = t[k - 1] /\ s[k] \subseteq keys
  <2>1. k - 1 \in 1 .. n /\ (k - 1) + 1 = k
    BY <1>1
  <2> QED BY <2>1 DEF Spread
<1>2. \A k \in 1 .. n : k + 1 \in 1 .. n + 1
  OBVIOUS
<1>3. first \cup keys = UNION {s[k] : k \in 1 .. n + 1}
  <2>1. \A x \in first \cup keys : \E k \in 1 .. n + 1 : x \in s[k]
    BY <1>2 DEF Spread
  <2>2. \A k \in 1 .. n + 1 : s[k] \subseteq first \cup keys
    BY <1>1
  <2> QED BY <2>1, <2>2
<1>4. ASSUME NEW j \in 1 .. n + 1, NEW k \in 1 .. n + 1, j # k
      PROVE  s[j] \cap s[k] = {}
  <2>1. CASE j = 1
    BY <1>1, <1>4, <2>1
  <2>2. CASE k = 1
    BY <1>1, <1>4, <2>2
  <2>3. CASE j # 1 /\ k # 1
    <3>1. j - 1 # k - 1
      BY <1>4
    <3> QED BY <1>1, <2>3, <3>1 DEF Spread
  <2> QED BY <2>1, <2>2, <2>3
<1> QED BY <1>3, <1>4 DEF Spread

ListOf(pairwise, cluster) ==
  [type : {"extended"}, pairwise : SUBSET Elements(pairwise), cluster : SUBSET Elements(cluster)]

\* The messages s carry the keys that the counters have not counted, each in
\* one of them, none more than Slots, and they are no more than that takes.
Carries(s, pairwise, cluster, at) ==
  /\ s \in Seq(ListOf(pairwise, cluster))
  /\ \A k \in 1 .. Len(s) : Load(s[k]) <= Slots
  /\ Spread([k \in 1 .. Len(s) |-> s[k].pairwise], Len(s),
            KeysFrom(pairwise, at[1], Len(pairwise)))
  /\ Spread([k \in 1 .. Len(s) |-> s[k].cluster], Len(s),
            KeysFrom(cluster, at[2], Len(cluster)))
  /\ Left(pairwise, cluster, at) <= Slots * Len(s)
  /\ s = <<>> \/ Slots * (Len(s) - 1) < Left(pairwise, cluster, at)

\* At the end nothing is left to carry.
LEMMA CarriesNothing ==
  ASSUME NEW A, NEW P \in Seq(A), NEW C \in Seq(A)
  PROVE  Carries(<<>>, P, C, <<Len(P), Len(C)>>)
<1> DEFINE s == <<>>
<1>1. s \in Seq(ListOf(P, C)) /\ Len(s) = 0 /\ Len(P) \in Nat /\ Len(C) \in Nat
  OBVIOUS
<1>2. ASSUME NEW n \in Nat, NEW list PROVE KeysFrom(list, n, n) = {}
  BY DEF KeysFrom
<1>3. ASSUME NEW sets PROVE Spread(sets, 0, {})
  BY DEF Spread
<1>4. Left(P, C, <<Len(P), Len(C)>>) = 0
  BY <1>1 DEF Left
<1>5. Slots * 0 = 0
  BY SlotsAssumption
<1>6. KeysFrom(P, Len(P), Len(P)) = {} /\ KeysFrom(C, Len(C), Len(C)) = {}
  BY <1>1, <1>2
<1>7. \A k \in 1 .. Len(s) : FALSE
  BY <1>1
<1> HIDE DEF s
<1>8. <<Len(P), Len(C)>>[1] = Len(P) /\ <<Len(P), Len(C)>>[2] = Len(C)
  OBVIOUS
<1>9. Carries(s, P, C, <<Len(P), Len(C)>>)
  <2>1. /\ Spread([k \in 1 .. Len(s) |-> s[k].pairwise], Len(s), {})
        /\ Spread([k \in 1 .. Len(s) |-> s[k].cluster], Len(s), {})
    BY <1>1, <1>3
  <2>2. Left(P, C, <<Len(P), Len(C)>>) <= Slots * Len(s)
    BY <1>1, <1>4, <1>5
  <2> QED BY <1>1, <1>6, <1>7, <1>8, <2>1, <2>2 DEF Carries, s
<1> QED BY <1>9 DEF s

\* What comes later in a list without repetitions is other.
LEMMA OtherPart ==
  ASSUME NEW A, NEW list \in Seq(A), Distinct(list),
         NEW a \in 0 .. Len(list), NEW b \in a .. Len(list)
  PROVE  KeysFrom(list, a, b) \cap KeysFrom(list, b, Len(list)) = {}
<1>1. PICK n \in Nat : n = Len(list)
  OBVIOUS
<1>2. ASSUME NEW x \in a + 1 .. b, NEW y \in b + 1 .. n PROVE list[x] # list[y]
  <2>1. x \in 1 .. n /\ y \in 1 .. n /\ x # y
    BY <1>1
  <2> QED BY <1>1, <2>1 DEF Distinct
<1> QED BY <1>1, <1>2 DEF KeysFrom

\* A message more carries what the counters count with it.
LEMMA CarriesMore ==
  ASSUME NEW A, NEW P \in Seq(A), NEW C \in Seq(A), Distinct(P), Distinct(C),
         NEW at \in Counters(P, C), at # <<Len(P), Len(C)>>,
         NEW next, next = NextKeys(P, C, at), NEW t, Carries(t, P, C, next)
  PROVE  Carries(<<KeysBetween(P, C, at, next)>> \o t, P, C, at)
<1> DEFINE e == KeysBetween(P, C, at, next)
           s == <<e>> \o t
<1>1. Len(P) \in Nat /\ Len(C) \in Nat
  OBVIOUS
<1>2. /\ next \in Counters(P, C)
      /\ at[1] <= next[1] /\ at[2] <= next[2]
      /\ (next[1] - at[1]) + (next[2] - at[2]) <= Slots
      /\ Left(P, C, next) < Left(P, C, at)
      /\ Left(P, C, at) - Left(P, C, next) <= Slots
      /\ \/ next = <<Len(P), Len(C)>>
         \/ Left(P, C, at) - Left(P, C, next) = Slots
  BY <1>1, NextFacts
<1>3. /\ at[1] \in 0 .. Len(P) /\ next[1] \in at[1] .. Len(P)
      /\ at[2] \in 0 .. Len(C) /\ next[2] \in at[2] .. Len(C)
  BY <1>1, <1>2 DEF Counters
<1>4. /\ e.type = "extended"
      /\ e.pairwise = KeysFrom(P, at[1], next[1])
      /\ e.cluster = KeysFrom(C, at[2], next[2])
      /\ e = [type |-> "extended", pairwise |-> e.pairwise, cluster |-> e.cluster]
  BY <1>3, PartOfList DEF KeysBetween, ExtendedMessage
<1>5. e \in ListOf(P, C)
  <2>1. e.pairwise \subseteq Elements(P) /\ e.cluster \subseteq Elements(C)
    BY <1>1, <1>3, <1>4 DEF KeysFrom, Elements
  <2> QED BY <1>4, <2>1 DEF ListOf
<1>6. Load(e) <= Slots
  <2>1. /\ Cardinality(e.pairwise) \in Nat /\ Cardinality(e.cluster) \in Nat
        /\ Cardinality(e.pairwise) <= next[1] - at[1]
        /\ Cardinality(e.cluster) <= next[2] - at[2]
    BY <1>3, <1>4, PartOfList
  <2> QED BY <1>1, <1>2, <1>3, <2>1, SlotsAssumption DEF Load
<1>7. t \in Seq(ListOf(P, C))
  BY DEF Carries
<1>8. /\ s \in Seq(ListOf(P, C)) /\ Len(t) \in Nat /\ Len(s) = Len(t) + 1 /\ s[1] = e
      /\ \A k \in 1 .. Len(t) : k + 1 \in 1 .. Len(s) /\ s[k + 1] = t[k]
      /\ \A k \in 1 .. Len(s) :
           k = 1 \/ (k - 1 \in 1 .. Len(t) /\ s[k] = t[k - 1])
  BY <1>5, <1>7, ConsFacts
<1> HIDE DEF e, s
<1>9. \A k \in 1 .. Len(s) : Load(s[k]) <= Slots
  BY <1>6, <1>8 DEF Carries
<1>10. Spread([k \in 1 .. Len(s) |-> s[k].pairwise], Len(s), KeysFrom(P, at[1], Len(P)))
  <2> DEFINE sets == [k \in 1 .. Len(s) |-> s[k].pairwise]
             rest == [k \in 1 .. Len(t) |-> t[k].pairwise]
  <2>1. Spread(rest, Len(t), KeysFrom(P, next[1], Len(P)))
    BY DEF Carries
  <2>2. e.pairwise \cap KeysFrom(P, next[1], Len(P)) = {}
    BY <1>3, <1>4, OtherPart
  <2>3. sets[1] = e.pairwise /\ \A k \in 1 .. Len(t) : sets[k + 1] = rest[k]
    BY <1>8
  <2>4. Spread(sets, Len(t) + 1, e.pairwise \cup KeysFrom(P, next[1], Len(P)))
    <3> HIDE DEF sets, rest
    <3>1. Len(t) \in Nat
      BY <1>8
    <3> QED BY <2>1, <2>2, <2>3, <3>1, SpreadMore
  <2>5. KeysFrom(P, at[1], Len(P)) = e.pairwise \cup KeysFrom(P, next[1], Len(P))
    BY <1>3, <1>4, PartOfList
  <2> QED BY <1>8, <2>4, <2>5
<1>11. Spread([k \in 1 .. Len(s) |-> s[k].cluster], Len(s), KeysFrom(C, at[2], Len(C)))
  <2> DEFINE sets == [k \in 1 .. Len(s) |-> s[k].cluster]
             rest == [k \in 1 .. Len(t) |-> t[k].cluster]
  <2>1. Spread(rest, Len(t), KeysFrom(C, next[2], Len(C)))
    BY DEF Carries
  <2>2. e.cluster \cap KeysFrom(C, next[2], Len(C)) = {}
    BY <1>3, <1>4, OtherPart
  <2>3. sets[1] = e.cluster /\ \A k \in 1 .. Len(t) : sets[k + 1] = rest[k]
    BY <1>8
  <2>4. Spread(sets, Len(t) + 1, e.cluster \cup KeysFrom(C, next[2], Len(C)))
    <3> HIDE DEF sets, rest
    <3>1. Len(t) \in Nat
      BY <1>8
    <3> QED BY <2>1, <2>2, <2>3, <3>1, SpreadMore
  <2>5. KeysFrom(C, at[2], Len(C)) = e.cluster \cup KeysFrom(C, next[2], Len(C))
    BY <1>3, <1>4, PartOfList
  <2> QED BY <1>8, <2>4, <2>5
<1>12. /\ Left(P, C, at) <= Slots * Len(s)
       /\ Slots * (Len(s) - 1) < Left(P, C, at)
  <2>4. Left(P, C, at) \in Nat /\ Left(P, C, next) \in Nat
    BY <1>1, <1>2 DEF Left, Counters
  <2>1. PICK n \in Nat, l \in Nat, r \in Nat, z \in Nat :
          n = Len(t) /\ l = Left(P, C, at) /\ r = Left(P, C, next) /\ z = Slots
    BY <1>8, <2>4, SlotsAssumption
  <2>2. /\ r <= z * n /\ (n = 0 \/ z * (n - 1) < r) /\ r < l /\ l - r <= z
        /\ r = 0 \/ l - r = z
    <3>1. next = <<Len(P), Len(C)>> => r = 0
      BY <1>1, <2>1 DEF Left
    <3>2. t = <<>> => n = 0
      BY <2>1
    <3> QED BY <1>2, <2>1, <3>1, <3>2 DEF Carries
  <2>3. l <= z * (n + 1) /\ z * n < l
    BY <2>1, <2>2
  <2> QED BY <1>8, <2>1, <2>3
<1>13. Carries(s, P, C, at)
  BY <1>8, <1>9, <1>10, <1>11, <1>12 DEF Carries
<1> QED BY <1>13 DEF s, e

\* From any state of the counters on, the loop carries what is left.
LEMMA LoopCarries ==
  ASSUME NEW A, NEW P \in Seq(A), NEW C \in Seq(A), Distinct(P), Distinct(C),
         NEW rest, IsLoop(rest, P, C, Counters(P, C))
  PROVE  \A at \in Counters(P, C) : Carries(rest[at], P, C, at)
<1> DEFINE Done == {k \in Nat : \A at \in Counters(P, C) :
                                  Left(P, C, at) <= k => Carries(rest[at], P, C, at)}
           end == <<Len(P), Len(C)>>
<1>1. /\ Len(P) \in Nat /\ Len(C) \in Nat /\ end \in Counters(P, C)
      /\ \A at \in Counters(P, C) : Left(P, C, at) \in Nat
  BY DEF Counters, Left
<1>2. rest[end] = <<>> /\ Carries(rest[end], P, C, end)
  BY <1>1, CarriesNothing DEF IsLoop
<1>3. ASSUME NEW at \in Counters(P, C), at # end
      PROVE  LET next == NextKeys(P, C, at)
             IN  /\ rest[at] = <<KeysBetween(P, C, at, next)>> \o rest[next]
                 /\ next \in Counters(P, C)
                 /\ Left(P, C, next) < Left(P, C, at)
  BY <1>1, <1>3, NextFacts DEF IsLoop
<1>4. 0 \in Done
  <2>1. ASSUME NEW at \in Counters(P, C), Left(P, C, at) <= 0
        PROVE  at = end
    <3>1. SUFFICES ASSUME at # end PROVE FALSE
      OBVIOUS
    <3>2. PICK next \in Counters(P, C) : Left(P, C, next) < Left(P, C, at)
      BY <1>3, <3>1
    <3>3. Left(P, C, next) \in Nat /\ Left(P, C, at) \in Nat
      BY <1>1
    <3> HIDE DEF end
    <3> QED BY <2>1, <3>2, <3>3
  <2> QED BY <1>2, <2>1
<1>5. ASSUME NEW k \in Done PROVE k + 1 \in Done
  <2>1. k \in Nat /\ k + 1 \in Nat
    OBVIOUS
  <2>2. ASSUME NEW at \in Counters(P, C), Left(P, C, at) <= k + 1, at # end
        PROVE  Carries(rest[at], P, C, at)
    <3>1. PICK next : next = NextKeys(P, C, at)
      OBVIOUS
    <3>2. /\ rest[at] = <<KeysBetween(P, C, at, next)>> \o rest[next]
          /\ next \in Counters(P, C) /\ Left(P, C, next) < Left(P, C, at)
      BY <1>3, <2>2, <3>1
    <3>3. Left(P, C, next) <= k
      BY <1>1, <2>1, <2>2, <3>2
    <3>4. Carries(rest[next], P, C, next)
      BY <3>2, <3>3
    <3> HIDE DEF Done
    <3> QED BY <2>2, <3>1, <3>2, <3>4, CarriesMore
  <2>3. \A at \in Counters(P, C) :
          Left(P, C, at) <= k + 1 => Carries(rest[at], P, C, at)
    BY <1>2, <2>2
  <2> QED BY <2>1, <2>3
<1>6. Done = Nat
  <2>1. Done \in SUBSET Nat
    OBVIOUS
  <2> HIDE DEF Done
  <2> QED BY <1>4, <1>5, <2>1, SetInduction
<1>7. ASSUME NEW at \in Counters(P, C) PROVE Carries(rest[at], P, C, at)
  <2>1. PICK k \in Nat : k = Left(P, C, at)
    BY <1>1
  <2>2. k \in Done
    BY <1>6
  <2> QED BY <2>1, <2>2
<1> QED BY <1>7

\* What the constructor promises of a list of messages: the basic message
\* first, each key in exactly one message, no message with more than Slots keys, and no
\* more messages than that takes.
Exact(list, pairwise, cluster) ==
  /\ list \in Seq({BasicMessage} \cup ListOf(pairwise, cluster))
  /\ Len(list) \in Nat \ {0} /\ list[1] = BasicMessage
  /\ \A k \in 2 .. Len(list) : list[k].type = "extended"
  /\ Spread([k \in 1 .. Len(list) |-> list[k].pairwise], Len(list), Elements(pairwise))
  /\ Spread([k \in 1 .. Len(list) |-> list[k].cluster], Len(list), Elements(cluster))
  /\ \A k \in 1 .. Len(list) : Load(list[k]) <= Slots
  /\ Len(pairwise) + Len(cluster) <= Slots * (Len(list) - 1)
  /\ Len(list) = 1 \/ Slots * (Len(list) - 2) < Len(pairwise) + Len(cluster)

\* The constructor keeps the promise for all lists of keys without repetitions
\* and every number of slots (MessageWrapper.java:27-56).
THEOREM KeysAreSplitExactly ==
  ASSUME NEW A, NEW P \in Seq(A), NEW C \in Seq(A), Distinct(P), Distinct(C)
  PROVE  Exact(Wrap(P, C), P, C)
<1>1. PICK rest : /\ IsLoop(rest, P, C, Counters(P, C))
                  /\ ExtendedMessages(P, C) = rest[<<0, 0>>]
  <2>1. Len(P) \in Nat /\ Len(C) \in Nat
    OBVIOUS
  <2> QED BY <2>1, LoopEnds
<1>2. PICK t : t = ExtendedMessages(P, C)
  OBVIOUS
<1>3. Carries(t, P, C, <<0, 0>>)
  <2>1. <<0, 0>> \in Counters(P, C)
    BY DEF Counters
  <2> QED BY <1>1, <1>2, <2>1, LoopCarries
<1> DEFINE S == {BasicMessage} \cup ListOf(P, C)
           s == <<BasicMessage>> \o t
<1>4. t \in Seq(ListOf(P, C)) /\ Len(t) \in Nat /\ \A k \in 1 .. Len(t) : t[k] \in ListOf(P, C)
  BY <1>3 DEF Carries
<1>5. t \in Seq(S) /\ BasicMessage \in S
  <2>1. \A k \in 1 .. Len(t) : t[k] \in S
    BY <1>4
  <2>2. t = [k \in 1 .. Len(t) |-> t[k]]
    BY <1>4
  <2> QED BY <1>4, <2>1, <2>2
<1>6. /\ Len(s) = Len(t) + 1 /\ s[1] = BasicMessage
      /\ \A k \in 1 .. Len(t) : k + 1 \in 1 .. Len(s) /\ s[k + 1] = t[k]
      /\ \A k \in 1 .. Len(s) :
           k = 1 \/ (k - 1 \in 1 .. Len(t) /\ s[k] = t[k - 1])
  BY <1>5, ConsFacts
<1>7. Wrap(P, C) = s
  BY <1>2 DEF Wrap
<1>15. s \in Seq({BasicMessage} \cup ListOf(P, C))
  BY <1>5, ConsFacts
<1> HIDE DEF s, S
<1>8. \A k \in 2 .. Len(s) : s[k].type = "extended"
  BY <1>4, <1>6 DEF ListOf
<1>9. /\ KeysFrom(P, 0, Len(P)) = Elements(P)
      /\ KeysFrom(C, 0, Len(C)) = Elements(C)
  BY DEF KeysFrom, Elements
<1>10. Spread([k \in 1 .. Len(s) |-> s[k].pairwise], Len(s), Elements(P))
  <2> DEFINE sets == [k \in 1 .. Len(s) |-> s[k].pairwise]
             more == [k \in 1 .. Len(t) |-> t[k].pairwise]
  <2>1. Spread(more, Len(t), Elements(P))
    BY <1>3, <1>9 DEF Carries
  <2>2. sets[1] = {} /\ \A k \in 1 .. Len(t) : sets[k + 1] = more[k]
    BY <1>4, <1>6 DEF BasicMessage
  <2> HIDE DEF sets, more
  <2>3. Spread(sets, Len(t) + 1, {} \cup Elements(P))
    BY <1>4, <2>1, <2>2, SpreadMore
  <2>4. {} \cup Elements(P) = Elements(P)
    OBVIOUS
  <2> QED BY <1>6, <2>3, <2>4 DEF sets
<1>11. Spread([k \in 1 .. Len(s) |-> s[k].cluster], Len(s), Elements(C))
  <2> DEFINE sets == [k \in 1 .. Len(s) |-> s[k].cluster]
             more == [k \in 1 .. Len(t) |-> t[k].cluster]
  <2>1. Spread(more, Len(t), Elements(C))
    BY <1>3, <1>9 DEF Carries
  <2>2. sets[1] = {} /\ \A k \in 1 .. Len(t) : sets[k + 1] = more[k]
    BY <1>4, <1>6 DEF BasicMessage
  <2> HIDE DEF sets, more
  <2>3. Spread(sets, Len(t) + 1, {} \cup Elements(C))
    BY <1>4, <2>1, <2>2, SpreadMore
  <2>4. {} \cup Elements(C) = Elements(C)
    OBVIOUS
  <2> QED BY <1>6, <2>3, <2>4 DEF sets
<1>12. \A k \in 1 .. Len(s) : Load(s[k]) <= Slots
  <2>1. Load(BasicMessage) = 0
    BY FS_EmptySet DEF Load, BasicMessage
  <2>2. \A k \in 1 .. Len(t) : Load(t[k]) <= Slots
    BY <1>3 DEF Carries
  <2>3. 0 <= Slots
    BY SlotsAssumption
  <2> QED BY <1>6, <2>1, <2>2, <2>3
<1>13. /\ Len(P) + Len(C) <= Slots * (Len(s) - 1)
       /\ Len(s) = 1 \/ Slots * (Len(s) - 2) < Len(P) + Len(C)
  <2>1. Left(P, C, <<0, 0>>) = Len(P) + Len(C)
    <3>1. Len(P) \in Nat /\ Len(C) \in Nat /\ <<0, 0>>[1] = 0 /\ <<0, 0>>[2] = 0
      OBVIOUS
    <3> QED BY <3>1 DEF Left
  <2>2. Len(s) - 1 = Len(t) /\ Len(s) - 2 = Len(t) - 1
    BY <1>4, <1>6
  <2>3. t = <<>> => Len(s) = 1
    BY <1>6
  <2> QED BY <1>3, <2>1, <2>2, <2>3 DEF Carries
<1>14. Len(s) \in Nat \ {0}
  BY <1>4, <1>6
<1> QED BY <1>6, <1>7, <1>8, <1>10, <1>11, <1>12, <1>13, <1>14, <1>15 DEF Exact

\* With the code's five slots and as many cluster as pairwise keys, headers
\* tell the messages of a list apart and mark the last one exactly as long as
\* there are no more than 17 neighbours (Bitter.java:23-34).
THEOREM HeadersTellListsApart ==
  ASSUME Slots = 5, NEW A, NEW P \in Seq(A), NEW C \in Seq(A),
         Distinct(P), Distinct(C), Len(P) = Len(C)
  PROVE  LET size == Len(Wrap(P, C))
             Header(k) == GenerateHeader(k, size)
         IN  Len(P) <= 17 <=>
               \A j, k \in 1 .. size :
                 /\ Header(j).seq = Header(k).seq => j = k
                 /\ Header(k).rem = 0 <=> k = size
<1>1. PICK size \in Nat \ {0} : size = Len(Wrap(P, C))
  BY KeysAreSplitExactly DEF Exact
<1>2. PICK n \in Nat : n = Len(P) /\ n = Len(C)
  OBVIOUS
<1>3. n + n <= 5 * (size - 1) /\ (size = 1 \/ 5 * (size - 2) < n + n)
  BY <1>1, <1>2, KeysAreSplitExactly DEF Exact
<1>4. size \in Nat /\ size >= 1 /\ (n <= 17 <=> size <= 8)
  BY <1>3
<1> DEFINE Header(k) == GenerateHeader(k, size)
<1>5. ASSUME NEW k \in 1 .. size
      PROVE  /\ Header(k).seq = IF k > 8 THEN 0 ELSE k - 1
             /\ Header(k).rem = IF size - k > 7 THEN 0 ELSE size - k
  BY <1>4 DEF GenerateHeader, Field
<1> HIDE DEF Header
<1>6. CASE size <= 8
  <2>1. \A j, k \in 1 .. size : /\ Header(j).seq = Header(k).seq => j = k
                                /\ Header(k).rem = 0 <=> k = size
    BY <1>4, <1>5, <1>6
  <2> QED BY <1>1, <1>2, <1>4, <1>6, <2>1 DEF Header
<1>7. CASE size > 8
  <2>1. 1 \in 1 .. size /\ 9 \in 1 .. size
    BY <1>4, <1>7
  <2>2. Header(1).seq = 0 /\ Header(9).seq = 0
    BY <1>5, <2>1
  <2> QED BY <1>1, <1>2, <1>4, <1>7, <2>1, <2>2 DEF Header
<1> QED BY <1>4, <1>6, <1>7
=============================================================================
