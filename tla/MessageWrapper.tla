--------------------------- MODULE MessageWrapper ---------------------------
(***************************************************************************)
(* The coordinator's MessageWrapper: how a node's keys are split into      *)
(* messages, what header each message gets, and how the list shrinks to    *)
(* the messages a node did not acknowledge.  Bitter and the mask           *)
(* arithmetic of SerialWorker.analyseNACK belong to the same algorithm.    *)
(*                                                                         *)
(* A list of keys is the sequence of the neighbours' addresses.            *)
(***************************************************************************)
EXTENDS Integers, Sequences, FiniteSets
Seqs == INSTANCE SequencesExt

CONSTANT Slots    \* keys in an extended message; the code's freeSlots is 5
ASSUME SlotsAssumption == Slots \in Nat \ {0}

Smaller(x, y) == IF x < y THEN x ELSE y
Elements(s) == {s[x] : x \in 1 .. Len(s)}

-----------------------------------------------------------------------------
(* Construction *)

BasicMessage == [type |-> "basic", pairwise |-> {}, cluster |-> {}]
ExtendedMessage(pairwise, cluster) ==
  [type |-> "extended", pairwise |-> Elements(pairwise), cluster |-> Elements(cluster)]

\* The counters pair and clus after one more message: pairwise keys fill the
\* slots first, cluster keys take what is left.
NextKeys(pairwise, cluster, at) ==
  LET pair == Smaller(at[1] + Slots, Len(pairwise))
      freeSlots == Slots - (pair - at[1])
  IN  <<pair, Smaller(at[2] + freeSlots, Len(cluster))>>

\* The message with the keys from one state of the counters to the next.
KeysBetween(pairwise, cluster, at, next) ==
  ExtendedMessage(SubSeq(pairwise, at[1] + 1, next[1]), SubSeq(cluster, at[2] + 1, next[2]))

\* A slip: no message is made for the cluster keys that are left over when
\* some of them went out with the last pairwise keys.
ExtendedMessagesShort(pairwise, cluster) ==
  LET rest[at \in (0 .. Len(pairwise)) \X (0 .. Len(cluster))] ==
        LET next == NextKeys(pairwise, cluster, at)
        IN  IF at[1] = Len(pairwise) /\ (at[2] > 0 \/ cluster = <<>>) THEN <<>>
            ELSE <<KeysBetween(pairwise, cluster, at, next)>> \o rest[next]
  IN  rest[<<0, 0>>]

\* Extended messages for what the counters have not counted yet.
ExtendedMessages(pairwise, cluster) ==
  LET rest[at \in (0 .. Len(pairwise)) \X (0 .. Len(cluster))] ==
        LET next == NextKeys(pairwise, cluster, at)
        IN  IF at = <<Len(pairwise), Len(cluster)>> THEN <<>>
            ELSE <<KeysBetween(pairwise, cluster, at, next)>> \o rest[next]
  IN  rest[<<0, 0>>]

\* The constructor throws when the two key lists have different lengths.
Balanced(pairwise, cluster) == Len(pairwise) = Len(cluster)

Wrap(pairwise, cluster) == <<BasicMessage>> \o ExtendedMessages(pairwise, cluster)

-----------------------------------------------------------------------------
(* Headers *)

\* A slip: seven is taken for too large.
FieldBelowSeven(value) == IF value >= 7 THEN 0 ELSE value

\* Bitter.setSeq and Bitter.setRem: a value above 7 leaves the field at 0.
Field(value) == IF value > 7 THEN 0 ELSE value

\* A slip: the message itself is not counted as sent.
GenerateHeaderShort(k, size) == [seq |-> Field(k - 1), rem |-> Field(size - k - 1)]

\* The header of the k-th message (from 1) of a list of the given size.
GenerateHeader(k, size) == [seq |-> Field(k - 1), rem |-> Field(size - k)]

-----------------------------------------------------------------------------
(* Answers *)

\* A slip: the loop stops before bit 0.
MissesAboveZero(mask, size) == {b \in 1 .. size - 1 : b \notin mask}

\* The indices, from 0, of the messages an answer does not cover.
Misses(mask, size) == {b \in 0 .. size - 1 : b \notin mask}

\* analyseNACK collects them from the highest bit down: the p-th miss has
\* p - 1 greater ones.
Descending(S) ==
  [p \in 1 .. Cardinality(S) |->
     CHOOSE b \in S : Cardinality({c \in S : c > b}) = p - 1]

\* A slip: the bits are counted from the other end of the list.
AdjustFromEnd(list, misses) ==
  [p \in 1 .. Len(misses) |-> list[Len(list) - misses[p]]]

\* The new list keeps the missing messages in the order of misses.
AdjustMisses(list, misses) ==
  [p \in 1 .. Len(misses) |-> list[misses[p] + 1]]
=============================================================================
