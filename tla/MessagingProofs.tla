--------------------------- MODULE MessagingProofs ---------------------------
(***************************************************************************)
(* The message bus and the recipe behind it, for every set of topics and   *)
(* subscriptions, every retention policy and every handler: what a         *)
(* subscriber was shown is what the bus keeps, nothing is taken from under *)
(* a reader in silence, nothing is published twice, and acks follow        *)
(* outcomes.                                                               *)
(***************************************************************************)
EXTENDS Delivery, FiniteSetTheorems, WellFoundedInduction, TLAPS

-----------------------------------------------------------------------------
(* Sequences                                                               *)

IsSeq(s) == s \in Seq(Range(s))

(* A sequence over any set is one over its own members.                    *)
LEMMA SeqIsSeq ==
    ASSUME NEW S, NEW s \in Seq(S)
    PROVE  IsSeq(s) /\ Len(s) \in Nat /\ DOMAIN s = 1..Len(s)
<1>1. Len(s) \in Nat /\ DOMAIN s = 1..Len(s)
  OBVIOUS
<1>2. s = [i \in 1..Len(s) |-> s[i]]
  OBVIOUS
<1>3. \A i \in 1..Len(s) : s[i] \in Range(s)
  BY <1>1 DEF Range
<1>4. QED
  BY <1>1, <1>2, <1>3 DEF IsSeq

(* So is every function on an initial segment of the numbers.              *)
LEMMA FunIsSeq ==
    ASSUME NEW s, NEW n \in Nat, s = [i \in 1..n |-> s[i]]
    PROVE  IsSeq(s) /\ Len(s) = n /\ DOMAIN s = 1..n
<1> DEFINE S == {s[i] : i \in 1..n}
<1>1. \A i \in 1..n : s[i] \in S
  OBVIOUS
<1> HIDE DEF S
<1>2. s \in Seq(S) /\ Len(s) = n
  BY <1>1
<1>3. QED
  BY <1>2, SeqIsSeq

(* The length of a sequence and its members.                               *)
LEMMA SeqFacts ==
    ASSUME NEW s, IsSeq(s)
    PROVE  Len(s) \in Nat /\ DOMAIN s = 1..Len(s) /\ s = [i \in 1..Len(s) |-> s[i]]
BY DEF IsSeq

\* The empty sequence is one.
LEMMA EmptyIsSeq == IsSeq(<<>>) /\ Len(<<>>) = 0
BY DEF IsSeq

\* A sequence with one more element.
LEMMA AppendFacts ==
    ASSUME NEW s, IsSeq(s), NEW x
    PROVE  /\ IsSeq(Append(s, x)) /\ Len(Append(s, x)) = Len(s) + 1 /\ Append(s, x)[Len(s) + 1] = x
           /\ \A i \in 1..Len(s) : Append(s, x)[i] = s[i]
<1> DEFINE S == Range(s) \cup {x}
<1>1. s \in Seq(S) /\ x \in S
  <2>1. s \in Seq(Range(s))
    BY DEF IsSeq
  <2>2. QED
    BY <2>1
<1> HIDE DEF S
<1>2. /\ Append(s, x) \in Seq(S) /\ Len(Append(s, x)) = Len(s) + 1 /\ Append(s, x)[Len(s) + 1] = x
      /\ \A i \in 1..Len(s) : Append(s, x)[i] = s[i]
  BY <1>1
<1>3. QED
  BY <1>2, SeqIsSeq

\* Two sequences, one after the other.
LEMMA ConcatFacts ==
    ASSUME NEW s, IsSeq(s), NEW r, IsSeq(r)
    PROVE  /\ IsSeq(s \o r) /\ Len(s \o r) = Len(s) + Len(r)
           /\ \A i \in 1..Len(s) : (s \o r)[i] = s[i]
           /\ \A i \in 1..Len(r) : (s \o r)[Len(s) + i] = r[i]
<1> DEFINE S == Range(s) \cup Range(r)
<1>1. s \in Seq(S) /\ r \in Seq(S)
  <2>1. s \in Seq(Range(s)) /\ r \in Seq(Range(r))
    BY DEF IsSeq
  <2>2. QED
    BY <2>1
<1> HIDE DEF S
<1>2. s \o r \in Seq(S) /\ Len(s \o r) = Len(s) + Len(r) /\ Len(s) \in Nat /\ Len(r) \in Nat
  BY <1>1
<1>3. \A i \in 1..Len(s) + Len(r) : (s \o r)[i] = IF i <= Len(s) THEN s[i] ELSE r[i - Len(s)]
  BY <1>1
<1>4. \A i \in 1..Len(s) : (s \o r)[i] = s[i]
  BY <1>2, <1>3
<1>5. \A i \in 1..Len(r) : (s \o r)[Len(s) + i] = r[i]
  <2> TAKE i \in 1..Len(r)
  <2>1. Len(s) + i \in 1..Len(s) + Len(r) /\ ~(Len(s) + i <= Len(s)) /\ (Len(s) + i) - Len(s) = i
    BY <1>2
  <2>2. QED
    BY <2>1, <1>3
<1>6. QED
  BY <1>2, <1>4, <1>5, SeqIsSeq

\* A sequence without its first element.
LEMMA TailFacts ==
    ASSUME NEW s, IsSeq(s), s # <<>>
    PROVE  /\ IsSeq(Tail(s)) /\ Len(s) \in Nat /\ Len(s) > 0 /\ Len(Tail(s)) = Len(s) - 1 /\ Head(s) = s[1]
           /\ \A i \in 1..Len(s) - 1 : Tail(s)[i] = s[i + 1]
<1> DEFINE S == Range(s)
<1>1. s \in Seq(S)
  BY DEF IsSeq
<1> HIDE DEF S
<1>2. /\ Tail(s) \in Seq(S) /\ Len(s) \in Nat /\ Len(s) > 0 /\ Len(Tail(s)) = Len(s) - 1 /\ Head(s) = s[1]
      /\ \A i \in 1..Len(s) - 1 : Tail(s)[i] = s[i + 1]
  BY <1>1
<1>3. QED
  BY <1>2, SeqIsSeq

\* A stretch of a sequence.
LEMMA SubSeqFacts ==
    ASSUME NEW s, IsSeq(s), NEW m \in Nat \ {0}, NEW n \in Nat, m <= n + 1, n <= Len(s)
    PROVE  /\ IsSeq(SubSeq(s, m, n)) /\ Len(SubSeq(s, m, n)) = n - m + 1
           /\ \A i \in 1..(n - m + 1) : SubSeq(s, m, n)[i] = s[m + i - 1]
<1> DEFINE S == Range(s)
<1>1. s \in Seq(S)
  BY DEF IsSeq
<1> HIDE DEF S
<1>2. SubSeq(s, m, n) = [i \in 1..(n - m + 1) |-> s[m + i - 1]]
  BY <1>1
<1>3. n - m + 1 \in Nat
  OBVIOUS
<1>4. QED
  BY <1>2, <1>3, FunIsSeq

(* Two sequences with the same members in the same places are equal.       *)
LEMMA SameMembers ==
    ASSUME NEW S, NEW s \in Seq(S), NEW r \in Seq(S), Len(s) = Len(r), \A i \in 1..Len(s) : s[i] = r[i]
    PROVE  s = r
OBVIOUS

\* Sequences with the same elements are the same.
LEMMA SameSeq ==
    ASSUME NEW s, IsSeq(s), NEW r, IsSeq(r), Len(s) = Len(r), \A i \in 1..Len(s) : s[i] = r[i]
    PROVE  s = r
<1>1. s \in Seq(Range(s)) /\ r \in Seq(Range(r))
  BY DEF IsSeq
<1>2. s \in Seq(Range(s) \cup Range(r)) /\ r \in Seq(Range(s) \cup Range(r))
  BY <1>1
<1>3. QED
  BY <1>2, SameMembers

-----------------------------------------------------------------------------
(* What is left of a sequence at some places                               *)

Rank(places, i) == Cardinality({j \in places : j <= i})

(* The places up to a number, and how many they are.                       *)
LEMMA RankFacts ==
    ASSUME NEW n \in Nat, NEW places \in SUBSET (1..n)
    PROVE  /\ IsFiniteSet(places) /\ Cardinality(places) \in Nat /\ Cardinality(places) <= n
           /\ \A i \in Nat : Rank(places, i) \in Nat /\ Rank(places, i) <= Cardinality(places)
           /\ Rank(places, 0) = 0 /\ Rank(places, n) = Cardinality(places)
           /\ \A i \in Nat : Rank(places, i + 1) = Rank(places, i) + IF i + 1 \in places THEN 1 ELSE 0
<1>0. \A j \in places : j \in Int /\ 1 <= j /\ j <= n
  OBVIOUS
<1>1. IsFiniteSet(1..n) /\ Cardinality(1..n) = n
  BY FS_Interval
<1>2. IsFiniteSet(places) /\ Cardinality(places) \in Nat /\ Cardinality(places) <= n
  BY <1>1, FS_Subset, FS_CardinalityType
<1>3. ASSUME NEW i \in Nat
      PROVE  /\ IsFiniteSet({j \in places : j <= i})
             /\ Rank(places, i) \in Nat /\ Rank(places, i) <= Cardinality(places)
  <2>1. {j \in places : j <= i} \subseteq places
    OBVIOUS
  <2>2. QED
    BY <2>1, <1>2, FS_Subset, FS_CardinalityType DEF Rank
<1>4. Rank(places, 0) = 0
  <2>1. \A j \in places : ~(j <= 0)
    BY <1>0
  <2>2. {j \in places : j <= 0} = {}
    BY <2>1
  <2>3. QED
    BY <2>2, FS_EmptySet DEF Rank
<1>5. Rank(places, n) = Cardinality(places)
  <2>1. \A j \in places : j <= n
    BY <1>0
  <2>2. {j \in places : j <= n} = places
    BY <2>1
  <2>3. QED
    BY <2>2 DEF Rank
<1>6. ASSUME NEW i \in Nat
      PROVE  Rank(places, i + 1) = Rank(places, i) + IF i + 1 \in places THEN 1 ELSE 0
  <2>1. CASE i + 1 \in places
    <3> DEFINE A == {j \in places : j <= i + 1}
               B == {j \in places : j <= i}
    <3>1. \A j \in places : (j <= i + 1 <=> (j <= i \/ j = i + 1)) /\ ~(i + 1 <= i)
      BY <1>0
    <3>2. A = B \cup {i + 1} /\ i + 1 \notin B
      BY <3>1, <2>1
    <3>3. IsFiniteSet(B) /\ Rank(places, i) = Cardinality(B) /\ Rank(places, i + 1) = Cardinality(A)
      BY <1>3 DEF Rank
    <3> HIDE DEF A, B
    <3>4. QED
      BY <3>2, <3>3, <2>1, FS_AddElement
  <2>2. CASE i + 1 \notin places
    <3> DEFINE A == {j \in places : j <= i + 1}
               B == {j \in places : j <= i}
    <3>1. \A j \in places : j <= i + 1 <=> j <= i
      BY <2>2, <1>0
    <3>2. A = B
      BY <3>1
    <3>3. Rank(places, i) \in Nat /\ Rank(places, i) = Cardinality(B) /\ Rank(places, i + 1) = Cardinality(A)
      BY <1>3 DEF Rank
    <3> HIDE DEF A, B
    <3>4. QED
      BY <3>2, <3>3, <2>2
  <2>3. QED
    BY <2>1, <2>2
<1>7. QED
  BY <1>2, <1>3, <1>4, <1>5, <1>6

(* A set of numbers has a least one.                                       *)
LEMMA LeastNat == ASSUME NEW T, T \subseteq Nat, T # {} PROVE \E m \in T : \A y \in T : m <= y
<1>1. \E m \in T : \A y \in T : ~(<<y, m>> \in OpToRel(<, Nat))
  BY NatLessThanWellFounded, WFMin
<1>2. \A m, y \in Nat : <<y, m>> \in OpToRel(<, Nat) <=> y < m
  BY DEF OpToRel
<1>3. \A m, y \in T : ~(<<y, m>> \in OpToRel(<, Nat)) <=> ~(y < m)
  BY <1>2
<1>4. \E m \in T : \A y \in T : ~(y < m)
  BY <1>1, <1>3
<1>5. \A m, y \in Nat : ~(y < m) => m <= y
  OBVIOUS
<1>6. QED
  BY <1>4, <1>5

(* Every number up to how many there are is the rank of exactly one place. *)
LEMMA RankOnto ==
    ASSUME NEW n \in Nat, NEW places \in SUBSET (1..n), NEW k \in 1..Cardinality(places)
    PROVE  \E i \in places : Rank(places, i) = k
<1> DEFINE T == {m \in Nat : Rank(places, m) >= k}
<1>r. /\ Cardinality(places) \in Nat /\ Rank(places, 0) = 0 /\ Rank(places, n) = Cardinality(places)
      /\ \A i \in Nat : Rank(places, i) \in Nat /\ Rank(places, i) <= Cardinality(places)
      /\ \A i \in Nat : Rank(places, i + 1) = Rank(places, i) + IF i + 1 \in places THEN 1 ELSE 0
  BY SMTT(30), RankFacts
<1>k. k \in Nat /\ k >= 1 /\ k <= Cardinality(places)
  BY <1>r
<1>1. n \in T
  BY <1>r, <1>k
<1>2. PICK m \in T : \A y \in T : m <= y
  <2>1. T # {} /\ T \subseteq Nat
    BY <1>1
  <2> HIDE DEF T
  <2>2. QED
    BY <2>1, LeastNat
<1>3. m \in Nat /\ m # 0
  BY <1>r, <1>k
<1>4. m - 1 \in Nat /\ m - 1 + 1 = m
  BY <1>3
<1>5. m - 1 \notin T
  BY <1>2, <1>3, <1>4
<1>6. Rank(places, m - 1) < k /\ Rank(places, m) >= k
  BY <1>4, <1>5, <1>3, <1>k, <1>r
<1>7. Rank(places, m) = Rank(places, m - 1) + IF m \in places THEN 1 ELSE 0
  BY <1>4, <1>r
<1>8. Rank(places, m - 1) \in Nat
  BY <1>4, <1>r
<1>9. m \in places /\ Rank(places, m) = k
  BY <1>6, <1>7, <1>8, <1>k
<1>10. QED
  BY <1>9

(* A later place has a higher rank.                                        *)
LEMMA RankGrows ==
    ASSUME NEW n \in Nat, NEW places \in SUBSET (1..n), NEW i \in places, NEW j \in places, i < j
    PROVE  Rank(places, i) < Rank(places, j)
<1> DEFINE A == {m \in places : m <= i}
           B == {m \in places : m <= j}
<1>0. i \in Int /\ j \in Int /\ \A m \in places : m \in Int
  OBVIOUS
<1>9. \A m \in places : m <= i => m <= j
  BY <1>0
<1>1. A \subseteq B /\ j \in B /\ j \notin A
  <2>1. j <= j /\ ~(j <= i)
    BY <1>0
  <2>2. QED
    BY <2>1, <1>9
<1>2. B \subseteq places
  OBVIOUS
<1>3. IsFiniteSet(B)
  BY <1>2, RankFacts, FS_Subset
<1>4. Rank(places, i) = Cardinality(A) /\ Rank(places, j) = Cardinality(B)
  BY DEF Rank
<1> HIDE DEF A, B
<1>5. Cardinality(A) \in Nat /\ Cardinality(B) \in Nat /\ Cardinality(A) <= Cardinality(B)
      /\ (Cardinality(A) = Cardinality(B) => A = B)
  BY <1>1, <1>3, FS_Subset, FS_CardinalityType
<1>6. QED
  BY <1>1, <1>4, <1>5

(* What is left is a sequence of the members at the places.                *)
LEMMA OnlyIsSeq ==
    ASSUME NEW s, NEW n \in Nat, NEW places \in SUBSET (1..n)
    PROVE  IsSeq(Only(s, places)) /\ Len(Only(s, places)) = Cardinality(places) /\ Cardinality(places) \in Nat
<1>1. Only(s, places) = [k \in 1..Cardinality(places) |-> s[CHOOSE i \in places : Rank(places, i) = k]]
  BY DEF Only, Rank
<1>2. Cardinality(places) \in Nat
  BY RankFacts
<1>3. QED
  BY <1>1, <1>2, FunIsSeq

\* Every element of Only comes from a place, the one with its rank.
LEMMA OnlyFrom ==
    ASSUME NEW s, NEW n \in Nat, NEW places \in SUBSET (1..n), NEW k \in 1..Cardinality(places)
    PROVE  \E i \in places : Rank(places, i) = k /\ Only(s, places)[k] = s[i]
<1>1. Only(s, places) = [h \in 1..Cardinality(places) |-> s[CHOOSE i \in places : Rank(places, i) = h]]
  BY DEF Only, Rank
<1>2. \E i \in places : Rank(places, i) = k
  BY RankOnto
<1>3. QED
  BY <1>1, <1>2

(* The member at a place is where the rank of the place says.              *)
LEMMA OnlyAt ==
    ASSUME NEW s, NEW n \in Nat, NEW places \in SUBSET (1..n), NEW i \in places, NEW k, Rank(places, i) = k
    PROVE  k \in 1..Cardinality(places) /\ Only(s, places)[k] = s[i]
<1>0. i \in Nat /\ i > 0 /\ \A j \in places : j \in Int
  OBVIOUS
<1>r. /\ Cardinality(places) \in Nat
      /\ \A x \in Nat : Rank(places, x) \in Nat /\ Rank(places, x) <= Cardinality(places)
      /\ \A x \in Nat : Rank(places, x + 1) = Rank(places, x) + IF x + 1 \in places THEN 1 ELSE 0
  BY RankFacts
<1>1. k \in Nat /\ k <= Cardinality(places)
  BY <1>0, <1>r
<1>2. k # 0
  <2>1. i - 1 \in Nat /\ i - 1 + 1 = i
    BY <1>0
  <2>2. Rank(places, i) = Rank(places, i - 1) + 1 /\ Rank(places, i - 1) \in Nat
    BY <2>1, <1>r
  <2>3. QED
    BY <2>2
<1>3. k \in 1..Cardinality(places)
  BY <1>1, <1>2, <1>r
<1>4. PICK j \in places : Rank(places, j) = k /\ Only(s, places)[k] = s[j]
  BY <1>3, OnlyFrom
<1>5. i < j => Rank(places, i) < Rank(places, j)
  BY RankGrows
<1>6. j < i => Rank(places, j) < Rank(places, i)
  BY RankGrows
<1>7. j = i
  BY <1>0, <1>1, <1>4, <1>5, <1>6
<1>8. QED
  BY <1>3, <1>4, <1>7

(* At a last stretch of places a sequence keeps its tail.                  *)
LEMMA OnlySuffix ==
    ASSUME NEW s, NEW n \in Nat, NEW m \in 1..(n + 1), NEW places \in SUBSET (1..n), places = m..n
    PROVE  /\ IsSeq(Only(s, places)) /\ Len(Only(s, places)) = n - m + 1
           /\ \A k \in 1..(n - m + 1) : Only(s, places)[k] = s[m + k - 1]
<1>1. Cardinality(places) = n - m + 1
  <2>1. m \in Int /\ n \in Int
    OBVIOUS
  <2>2. Cardinality(m..n) = IF m > n THEN 0 ELSE n - m + 1
    BY <2>1, FS_Interval
  <2>3. QED
    BY <2>2
<1>2. ASSUME NEW k \in 1..(n - m + 1), NEW i \in places, i = m + k - 1 PROVE Only(s, places)[k] = s[i]
  <2>1. {j \in m..n : j <= m + k - 1} = m..(m + k - 1)
    BY <1>2
  <2>2. Cardinality(m..(m + k - 1)) = k
    BY FS_Interval
  <2>3. Rank(places, i) = k
    BY <1>2, <2>1, <2>2 DEF Rank
  <2>4. QED
    BY <2>3, OnlyAt
<1>3. \A k \in 1..(n - m + 1) : m + k - 1 \in places
  OBVIOUS
<1>4. \A k \in 1..(n - m + 1) : Only(s, places)[k] = s[m + k - 1]
  BY <1>2, <1>3
<1>5. QED
  BY <1>1, <1>4, OnlyIsSeq

-----------------------------------------------------------------------------
(* The bus                                                                 *)

\* A retention of no messages is refused by trim_retention after it has dropped what is too old.
RetentionLegal == MaxRetained # 0 \/ MaxAge = Nil

BusRec(topics, subs, ids, keys, dead, strict, now, events, cursor, log) ==
    [topics |-> topics, subs |-> subs, ids |-> ids, keys |-> keys, dead |-> dead, strict |-> strict,
     now |-> now, events |-> events, cursor |-> cursor, log |-> log]
TopicRec(exists, closed, head, next, messages) ==
    [exists |-> exists, closed |-> closed, head |-> head, next |-> next, messages |-> messages]
SubRec == [exists : BOOLEAN, next : Nat, closed : BOOLEAN, gap : BOOLEAN]
Pairs == Topics \X Subs

TopicOK(topic) ==
    /\ topic = TopicRec(topic.exists, topic.closed, topic.head, topic.next, topic.messages)
    /\ topic.exists \in BOOLEAN /\ topic.closed \in BOOLEAN /\ topic.head \in Nat /\ topic.next \in Nat

Shape(b) ==
    /\ b = BusRec(b.topics, b.subs, b.ids, b.keys, b.dead, b.strict, b.now, b.events, b.cursor, b.log)
    /\ b.topics = [t \in Topics |-> b.topics[t]] /\ \A t \in Topics : TopicOK(b.topics[t])
    /\ b.subs \in [Pairs -> SubRec]
    /\ b.cursor = [x \in Pairs |-> b.cursor[x]]
    /\ b.log = [t \in Topics |-> b.log[t]]
    /\ IsSeq(b.events) /\ IsSeq(b.dead) /\ b.now \in Nat

\* A cursor is as it was shown, or a status of the command at hand will have it shown again.
ToldOf(b, x) ==
    b.subs[x].exists =>
        b.cursor[x] = CursorSnapshot(b, x) \/ \E i \in 1..Len(b.events) : Moves(b.events[i], x)

\* What a topic ever published: numbered without a hole, in the order of time, each key once.
LogOf(t, log, keys, now) ==
    /\ IsSeq(log)
    /\ \A i \in 1..Len(log) : log[i].seq = i /\ log[i].at \in Nat /\ log[i].at <= now
    /\ \A i, j \in 1..Len(log) : i <= j => log[i].at <= log[j].at
    /\ \A i \in 1..Len(log) : log[i].key # Nil => <<t, log[i].key>> \in keys
    /\ \A i, j \in 1..Len(log) : i # j /\ log[i].key # Nil => log[i].key # log[j].key

\* What it retains was published, and numbers go on after it.
TopicOf(topic, log) ==
    /\ topic.next = Len(log) + 1
    /\ ~topic.exists => topic = NoTopic
    /\ IsSeq(topic.messages)
    /\ \A i \in 1..Len(topic.messages) : \E j \in 1..Len(log) : topic.messages[i] = log[j]

\* It retains exactly the last of it, from the head on.
RetainedOf(topic, log) ==
    /\ topic.head \in 1..topic.next
    /\ Len(topic.messages) = topic.next - topic.head
    /\ \A i \in 1..Len(topic.messages) : topic.messages[i] = log[topic.head + i - 1]

\* A reader that is behind the head knows of it, unless nothing was ever trimmed.
GapOf(sub, head) ==
    sub.exists /\ ~sub.closed => IF sub.gap THEN sub.next < head ELSE sub.next >= head \/ head = 1

Sound(b) ==
    /\ Shape(b)
    /\ \A x \in Pairs : ToldOf(b, x)
    /\ \A t \in Topics : LogOf(t, b.log[t], b.keys, b.now) /\ TopicOf(b.topics[t], b.log[t])
    /\ RetentionLegal =>
           /\ \A t \in Topics : RetainedOf(b.topics[t], b.log[t])
           /\ \A x \in Pairs : GapOf(b.subs[x], b.topics[x[1]].head)

\* r differs from b in what is emitted and recorded, and in no cursor and no message.
Like(b, r) ==
    /\ Shape(r)
    /\ r.subs = b.subs /\ r.keys = b.keys /\ r.now = b.now /\ r.cursor = b.cursor /\ r.log = b.log
    /\ \A t \in Topics :
           /\ r.topics[t].head = b.topics[t].head /\ r.topics[t].next = b.topics[t].next
           /\ r.topics[t].messages = b.topics[t].messages
           /\ ~r.topics[t].exists => r.topics[t] = b.topics[t]
    /\ Len(r.events) >= Len(b.events) /\ \A i \in 1..Len(b.events) : r.events[i] = b.events[i]

(* Pairs of a topic and a subscription.                                    *)
LEMMA PairFacts ==
    /\ \A x \in Pairs : x[1] \in Topics /\ x[2] \in Subs /\ x = <<x[1], x[2]>>
    /\ \A t \in Topics, s \in Subs : <<t, s>> \in Pairs
BY DEF Pairs

(* The parts of a bus record after one field, or two, were set.            *)
LEMMA SetEvents ==
    ASSUME NEW b, Shape(b), NEW e
    PROVE  [b EXCEPT !.events = e]
             = BusRec(b.topics, b.subs, b.ids, b.keys, b.dead, b.strict, b.now, e, b.cursor, b.log)
BY DEF Shape, BusRec

\* The record with other dead letters.
LEMMA SetDead ==
    ASSUME NEW b, Shape(b), NEW d
    PROVE  [b EXCEPT !.dead = d]
             = BusRec(b.topics, b.subs, b.ids, b.keys, d, b.strict, b.now, b.events, b.cursor, b.log)
BY DEF Shape, BusRec

(* What a record says of each of its fields.                               *)
LEMMA RecFields ==
    ASSUME NEW b, NEW topics, NEW subs, NEW ids, NEW keys, NEW dead, NEW strict, NEW now, NEW events, NEW cursor, NEW log,
           b = BusRec(topics, subs, ids, keys, dead, strict, now, events, cursor, log)
    PROVE  /\ b.topics = topics /\ b.subs = subs /\ b.ids = ids /\ b.keys = keys /\ b.dead = dead
           /\ b.strict = strict /\ b.now = now /\ b.events = events /\ b.cursor = cursor /\ b.log = log
           /\ b = BusRec(b.topics, b.subs, b.ids, b.keys, b.dead, b.strict, b.now, b.events, b.cursor, b.log)
BY DEF BusRec

(* The bus with other topics, or other subscriptions.                      *)
LEMMA SetTopics ==
    ASSUME NEW b, Shape(b), NEW new, NEW r, r = [b EXCEPT !.topics = new]
    PROVE  /\ r.topics = new /\ r.subs = b.subs /\ r.ids = b.ids /\ r.keys = b.keys /\ r.dead = b.dead
           /\ r.strict = b.strict /\ r.now = b.now /\ r.events = b.events /\ r.cursor = b.cursor /\ r.log = b.log
           /\ r = BusRec(r.topics, r.subs, r.ids, r.keys, r.dead, r.strict, r.now, r.events, r.cursor, r.log)
<1>1. r = BusRec(new, b.subs, b.ids, b.keys, b.dead, b.strict, b.now, b.events, b.cursor, b.log)
  BY DEF Shape, BusRec
<1>2. QED
  BY <1>1, RecFields

\* The record with other subscriptions.
LEMMA SetSubs ==
    ASSUME NEW b, Shape(b), NEW new, NEW r, r = [b EXCEPT !.subs = new]
    PROVE  /\ r.topics = b.topics /\ r.subs = new /\ r.ids = b.ids /\ r.keys = b.keys /\ r.dead = b.dead
           /\ r.strict = b.strict /\ r.now = b.now /\ r.events = b.events /\ r.cursor = b.cursor /\ r.log = b.log
           /\ r = BusRec(r.topics, r.subs, r.ids, r.keys, r.dead, r.strict, r.now, r.events, r.cursor, r.log)
<1>1. r = BusRec(b.topics, new, b.ids, b.keys, b.dead, b.strict, b.now, b.events, b.cursor, b.log)
  BY DEF Shape, BusRec
<1>2. QED
  BY <1>1, RecFields

(* A status is one more event.                                             *)
Emitting(b, event) == [b EXCEPT !.events = Append(b.events, event)]

\* An event is added, and nothing else changes.
LEMMA StatusSays ==
    ASSUME NEW b, Shape(b), NEW event, NEW r, r = Emitting(b, event)
    PROVE  /\ Like(b, r) /\ r.topics = b.topics /\ r.strict = b.strict
           /\ Len(r.events) = Len(b.events) + 1 /\ Len(r.events) \in Nat /\ r.events[Len(r.events)] = event
<1> DEFINE events == Append(b.events, event)
<1>0. IsSeq(b.events) /\ Len(b.events) \in Nat
  BY SeqFacts DEF Shape
<1>1. /\ IsSeq(events) /\ Len(events) = Len(b.events) + 1 /\ events[Len(b.events) + 1] = event
      /\ \A i \in 1..Len(b.events) : events[i] = b.events[i]
  BY <1>0, AppendFacts
<1>2. r = [b EXCEPT !.events = events]
  BY DEF Emitting
<1> HIDE DEF events
<1>3. r = BusRec(b.topics, b.subs, b.ids, b.keys, b.dead, b.strict, b.now, events, b.cursor, b.log)
  BY <1>2, SetEvents
<1>4. /\ r.topics = b.topics /\ r.subs = b.subs /\ r.keys = b.keys /\ r.dead = b.dead /\ r.strict = b.strict
      /\ r.now = b.now /\ r.events = events /\ r.cursor = b.cursor /\ r.log = b.log
      /\ r = BusRec(r.topics, r.subs, r.ids, r.keys, r.dead, r.strict, r.now, r.events, r.cursor, r.log)
  BY <1>3, RecFields
<1>5. Shape(r)
  BY <1>1, <1>4 DEF Shape
<1>6. QED
  BY <1>0, <1>1, <1>4, <1>5 DEF Like

\* A status is such an event.
LEMMA StatusIs ==
    ASSUME NEW b, Shape(b), NEW kind, NEW t, NEW s
    PROVE  Status(b, kind, t, s) = Emitting(b, [kind |-> kind, topic |-> t, sub |-> s])
BY DEF Status, Shape, BusRec, Emitting

\* So a status changes no cursor and no message.
LEMMA StatusLike ==
    ASSUME NEW b, Shape(b), NEW kind, NEW t, NEW s
    PROVE  /\ Like(b, Status(b, kind, t, s)) /\ Status(b, kind, t, s).topics = b.topics
           /\ Status(b, kind, t, s).strict = b.strict
<1> DEFINE event == [kind |-> kind, topic |-> t, sub |-> s]
           r == Status(b, kind, t, s)
<1>1. r = Emitting(b, event)
  BY StatusIs
<1> HIDE DEF event, r
<1>2. Like(b, r) /\ r.topics = b.topics /\ r.strict = b.strict
  BY <1>1, StatusSays
<1>3. QED
  BY <1>2 DEF r

(* A dead letter leaves no other trace.                                    *)
LEMMA DeadLike ==
    ASSUME NEW b, Shape(b), NEW d, IsSeq(d), NEW r, r = [b EXCEPT !.dead = d]
    PROVE  Like(b, r) /\ r.topics = b.topics /\ r.strict = b.strict
<1>1. r = BusRec(b.topics, b.subs, b.ids, b.keys, d, b.strict, b.now, b.events, b.cursor, b.log)
  BY SetDead
<1>2. /\ r.topics = b.topics /\ r.subs = b.subs /\ r.keys = b.keys /\ r.dead = d /\ r.strict = b.strict
      /\ r.now = b.now /\ r.events = b.events /\ r.cursor = b.cursor /\ r.log = b.log
      /\ r = BusRec(r.topics, r.subs, r.ids, r.keys, r.dead, r.strict, r.now, r.events, r.cursor, r.log)
  BY <1>1, RecFields
<1>3. Shape(r)
  BY <1>2 DEF Shape
<1>4. Len(b.events) \in Nat
  BY SeqFacts DEF Shape
<1>5. QED
  BY <1>2, <1>3, <1>4 DEF Like

(* One likeness after another is one.                                      *)
LEMMA LikeTwice ==
    ASSUME NEW b, Shape(b), NEW q, Like(b, q), NEW r, Like(q, r)
    PROVE  Like(b, r)
<1>1. Len(b.events) \in Nat /\ Len(q.events) \in Nat /\ Len(r.events) \in Nat
  BY SeqFacts DEF Shape, Like
<1>2. Len(r.events) >= Len(b.events) /\ \A i \in 1..Len(b.events) : r.events[i] = b.events[i]
  BY <1>1 DEF Like
<1>3. \A t \in Topics :
         /\ r.topics[t].head = b.topics[t].head /\ r.topics[t].next = b.topics[t].next
         /\ r.topics[t].messages = b.topics[t].messages
         /\ ~r.topics[t].exists => r.topics[t] = b.topics[t]
  BY DEF Like
<1>4. QED
  BY <1>2, <1>3 DEF Like

\* An issue is an event and a dead letter.
LEMMA IssueLike ==
    ASSUME NEW b, Shape(b), NEW code, NEW t, NEW r, r = Issue(b, code, t)
    PROVE  Like(b, r) /\ r.topics = b.topics
<1> DEFINE q == Status(b, "Issue", t, Nil)
           d == Append(q.dead, [seq |-> Len(q.dead) + 1, code |-> code, topic |-> t])
<1>0. q = Status(b, "Issue", t, Nil)
  OBVIOUS
<1> HIDE DEF q
<1>1. Like(b, q) /\ q.topics = b.topics
  BY <1>0, StatusLike
<1>1a. Shape(q)
  BY <1>1 DEF Like
<1>2. IsSeq(d)
  BY <1>1a, AppendFacts DEF Shape
<1>3. r = [q EXCEPT !.dead = d]
  BY <1>1a DEF Issue, Shape, BusRec, q
<1> HIDE DEF d
<1>4. Like(q, r) /\ r.topics = q.topics
  BY <1>1a, <1>2, <1>3, DeadLike
<1>5. QED
  BY <1>1, <1>4, LikeTwice

(* Many issues are many events and dead letters.                           *)
LEMMA IssuesLike ==
    ASSUME NEW b, Shape(b), NEW code, NEW n \in Nat, NEW r, r = Issues(b, code, n)
    PROVE  Like(b, r)
<1> DEFINE more == [i \in 1..n |-> [kind |-> "Issue", topic |-> Nil, sub |-> Nil]]
           letters == [i \in 1..n |-> [seq |-> Len(b.dead) + i, code |-> code, topic |-> Nil]]
<1>1. IsSeq(more) /\ IsSeq(letters)
  <2>1. more = [i \in 1..n |-> more[i]] /\ letters = [i \in 1..n |-> letters[i]]
    OBVIOUS
  <2> HIDE DEF more, letters
  <2>2. QED
    BY <2>1, FunIsSeq
<1>2. r = [b EXCEPT !.events = b.events \o more, !.dead = b.dead \o letters]
  BY DEF Issues, Shape, BusRec
<1> HIDE DEF more, letters
<1>3. /\ IsSeq(b.events \o more) /\ Len(b.events \o more) = Len(b.events) + Len(more)
      /\ Len(b.events) \in Nat /\ Len(more) \in Nat
      /\ \A i \in 1..Len(b.events) : (b.events \o more)[i] = b.events[i]
  <2>1. IsSeq(b.events)
    BY DEF Shape
  <2>2. QED
    BY <2>1, <1>1, ConcatFacts, SeqFacts
<1>4. IsSeq(b.dead \o letters)
  BY <1>1, ConcatFacts DEF Shape
<1> DEFINE e == b.events \o more
           d == b.dead \o letters
<1>5. /\ IsSeq(e) /\ IsSeq(d) /\ Len(e) >= Len(b.events) /\ \A i \in 1..Len(b.events) : e[i] = b.events[i]
      /\ r = [b EXCEPT !.events = e, !.dead = d]
  BY <1>2, <1>3, <1>4
<1> HIDE DEF e, d
<1>6. r = BusRec(b.topics, b.subs, b.ids, b.keys, d, b.strict, b.now, e, b.cursor, b.log)
  BY <1>5 DEF Shape, BusRec
<1>7. /\ r.topics = b.topics /\ r.subs = b.subs /\ r.keys = b.keys /\ r.dead = d /\ r.strict = b.strict
      /\ r.now = b.now /\ r.events = e /\ r.cursor = b.cursor /\ r.log = b.log
      /\ r = BusRec(r.topics, r.subs, r.ids, r.keys, r.dead, r.strict, r.now, r.events, r.cursor, r.log)
  BY <1>6, RecFields
<1>8. Shape(r)
  BY <1>5, <1>7 DEF Shape
<1>9. QED
  BY <1>5, <1>7, <1>8 DEF Like

(* The command's id is remembered, and the policy set.                     *)
LEMMA MarkedLike ==
    ASSUME NEW b, Shape(b), NEW ids, NEW r, r = [b EXCEPT !.ids = ids] \/ r = [b EXCEPT !.strict = ids]
    PROVE  Like(b, r)
<1>1. \/ r = BusRec(b.topics, b.subs, ids, b.keys, b.dead, b.strict, b.now, b.events, b.cursor, b.log)
      \/ r = BusRec(b.topics, b.subs, b.ids, b.keys, b.dead, ids, b.now, b.events, b.cursor, b.log)
  BY DEF Shape, BusRec
<1>2. /\ r.topics = b.topics /\ r.subs = b.subs /\ r.keys = b.keys /\ r.dead = b.dead
      /\ r.now = b.now /\ r.events = b.events /\ r.cursor = b.cursor /\ r.log = b.log
      /\ r = BusRec(r.topics, r.subs, r.ids, r.keys, r.dead, r.strict, r.now, r.events, r.cursor, r.log)
  BY <1>1, RecFields
<1>3. Shape(r)
  BY <1>2 DEF Shape
<1>4. Len(b.events) \in Nat
  BY SeqFacts DEF Shape
<1>5. QED
  BY <1>2, <1>3, <1>4 DEF Like

WithTopic(b, t, v) == [b EXCEPT !.topics = [b.topics EXCEPT ![t] = v]]
WithSub(b, x, v) == [b EXCEPT !.subs = [b.subs EXCEPT ![x] = v]]

(* A topic is created, or closed.                                          *)
LEMMA TopicLike ==
    ASSUME NEW b, Shape(b), NEW t \in Topics, NEW v, TopicOK(v), v.exists,
           v.head = b.topics[t].head, v.next = b.topics[t].next, v.messages = b.topics[t].messages,
           NEW r, r = WithTopic(b, t, v)
    PROVE  Like(b, r) /\ r.topics[t] = v
<1> DEFINE topics == [b.topics EXCEPT ![t] = v]
<1>1. topics = [u \in Topics |-> IF u = t THEN v ELSE b.topics[u]]
  BY DEF Shape
<1>2. topics[t] = v /\ \A u \in Topics : u # t => topics[u] = b.topics[u]
  BY <1>1
<1>2a. topics = [u \in Topics |-> topics[u]]
  BY <1>1
<1> HIDE DEF topics
<1>3. r = [b EXCEPT !.topics = topics]
  BY DEF topics, WithTopic
<1>4. /\ r.topics = topics /\ r.subs = b.subs /\ r.keys = b.keys /\ r.dead = b.dead
      /\ r.now = b.now /\ r.events = b.events /\ r.cursor = b.cursor /\ r.log = b.log
      /\ r = BusRec(r.topics, r.subs, r.ids, r.keys, r.dead, r.strict, r.now, r.events, r.cursor, r.log)
  BY <1>3, SetTopics
<1>5. \A u \in Topics : TopicOK(topics[u])
  BY <1>2 DEF Shape
<1>6. Shape(r)
  BY <1>2a, <1>4, <1>5 DEF Shape
<1>7. \A u \in Topics :
         /\ topics[u].head = b.topics[u].head /\ topics[u].next = b.topics[u].next
         /\ topics[u].messages = b.topics[u].messages
         /\ ~topics[u].exists => topics[u] = b.topics[u]
  BY <1>2
<1>8. Len(b.events) \in Nat
  BY SeqFacts DEF Shape
<1>9. Len(r.events) >= Len(b.events) /\ \A i \in 1..Len(b.events) : r.events[i] = b.events[i]
  BY <1>4, <1>8
<1>10. Like(b, r)
  BY <1>4, <1>6, <1>7, <1>9 DEF Like
<1>11. QED
  BY <1>2, <1>4, <1>10

(* Nothing a likeness changes is a cursor, a message or a gap.             *)
LEMMA LikeSound ==
    ASSUME NEW b, Sound(b), NEW r, Like(b, r)
    PROVE  Sound(r)
<1>0. Shape(b) /\ Shape(r)
  BY DEF Sound, Like
<1>1. ASSUME NEW x \in Pairs PROVE ToldOf(r, x)
  <2>1. ToldOf(b, x) /\ x[1] \in Topics
    BY PairFacts DEF Sound
  <2>2. CursorSnapshot(r, x) = CursorSnapshot(b, x)
    BY <2>1 DEF CursorSnapshot, Like
  <2>3. Len(b.events) \in Nat /\ Len(r.events) \in Nat
    BY <1>0, SeqFacts DEF Shape
  <2>4. ASSUME NEW i \in 1..Len(b.events), Moves(b.events[i], x)
        PROVE  i \in 1..Len(r.events) /\ Moves(r.events[i], x)
    BY <2>3, <2>4 DEF Like
  <2>5. QED
    BY <2>1, <2>2, <2>4 DEF ToldOf, Like
<1>2. \A t \in Topics : LogOf(t, r.log[t], r.keys, r.now)
  BY DEF Sound, Like
<1>3. ASSUME NEW t \in Topics PROVE TopicOf(r.topics[t], r.log[t])
  <2>1. TopicOf(b.topics[t], b.log[t])
    BY DEF Sound
  <2>2. r.log[t] = b.log[t] /\ r.topics[t].next = b.topics[t].next /\ r.topics[t].messages = b.topics[t].messages
        /\ (~r.topics[t].exists => r.topics[t] = b.topics[t])
    BY DEF Like
  <2>3. QED
    BY <2>1, <2>2 DEF TopicOf
<1>4. ASSUME RetentionLegal, NEW t \in Topics PROVE RetainedOf(r.topics[t], r.log[t])
  <2>1. RetainedOf(b.topics[t], b.log[t])
    BY <1>4 DEF Sound
  <2>2. r.log[t] = b.log[t] /\ r.topics[t].next = b.topics[t].next /\ r.topics[t].messages = b.topics[t].messages
        /\ r.topics[t].head = b.topics[t].head
    BY DEF Like
  <2>3. QED
    BY <2>1, <2>2 DEF RetainedOf
<1>5. ASSUME RetentionLegal, NEW x \in Pairs PROVE GapOf(r.subs[x], r.topics[x[1]].head)
  BY <1>5, PairFacts DEF Sound, Like
<1>6. QED
  BY <1>0, <1>1, <1>2, <1>3, <1>4, <1>5 DEF Sound

(* ensure_topic and close_topic keep every message and every cursor.       *)
LEMMA EnsureTopicLike ==
    ASSUME NEW b, Sound(b), NEW t \in Topics, NEW r, r = EnsureTopic(b, t)
    PROVE  Like(b, r) /\ r.topics[t].exists
<1> DEFINE old == b.topics[t]
           v == IF old.exists THEN old ELSE MakeTopicState
           q == WithTopic(b, t, v)
<1>0. Shape(b) /\ TopicOK(old) /\ TopicOf(old, b.log[t])
  BY DEF Sound, Shape
<1>1. TopicOK(v) /\ v.exists /\ v.head = old.head /\ v.next = old.next /\ v.messages = old.messages
  <2>1. CASE old.exists
    BY <2>1, <1>0
  <2>2. CASE ~old.exists
    <3>1. v = TopicRec(TRUE, FALSE, 1, 1, <<>>)
      BY <2>2 DEF MakeTopicState, NoTopic, TopicRec
    <3>2. old = NoTopic
      BY <2>2, <1>0 DEF TopicOf
    <3>3. old.head = 1 /\ old.next = 1 /\ old.messages = <<>>
      BY <3>2 DEF NoTopic
    <3> HIDE DEF old, v
    <3>4. v.exists = TRUE /\ v.closed = FALSE /\ v.head = 1 /\ v.next = 1 /\ v.messages = <<>>
      BY <3>1 DEF TopicRec
    <3>5. v = TopicRec(v.exists, v.closed, v.head, v.next, v.messages)
      BY <3>1, <3>4, Zenon
    <3>6. v.exists \in BOOLEAN /\ v.closed \in BOOLEAN /\ v.exists
      BY <3>4
    <3>7. v.head \in Nat /\ v.next \in Nat
      BY <3>4
    <3>8. TopicOK(v)
      BY <3>5, <3>6, <3>7, Zenon DEF TopicOK
    <3>9. v.head = old.head /\ v.next = old.next /\ v.messages = old.messages
      BY <3>3, <3>4
    <3>10. QED
      BY <3>6, <3>8, <3>9
  <2>3. QED
    BY <2>1, <2>2
<1>2. r = Status(q, "TopicCreated", t, Nil)
  <2>1. [b EXCEPT !.topics[t] = IF @.exists THEN @ ELSE MakeTopicState] = q
    BY <1>0 DEF WithTopic, Shape, BusRec
  <2>2. QED
    BY <2>1 DEF EnsureTopic
<1>3. q = WithTopic(b, t, v)
  OBVIOUS
<1> HIDE DEF old, v, q
<1>4. Like(b, q) /\ q.topics[t] = v
  BY <1>0, <1>1, <1>3, TopicLike DEF old
<1>5. Shape(q)
  BY <1>4 DEF Like
<1>6. Like(q, r) /\ r.topics = q.topics
  BY <1>2, <1>5, StatusLike
<1>7. Like(b, r)
  BY <1>0, <1>4, <1>6, LikeTwice
<1>8. QED
  BY <1>1, <1>4, <1>6, <1>7

\* A topic after it was closed.
LEMMA ClosedRec ==
    ASSUME NEW o, TopicOK(o)
    PROVE  [o EXCEPT !.closed = TRUE] = TopicRec(o.exists, TRUE, o.head, o.next, o.messages)
<1> DEFINE yes == TRUE
<1> HIDE DEF yes
<1>1. [o EXCEPT !.closed = yes] = TopicRec(o.exists, yes, o.head, o.next, o.messages)
  BY DEF TopicOK, TopicRec
<1>2. QED
  BY <1>1, Zenon DEF yes

\* Closing a topic changes no cursor and no message.
LEMMA CloseTopicLike ==
    ASSUME NEW b, Sound(b), NEW t \in Topics, NEW r, r = CloseTopic(b, t)
    PROVE  Like(b, r)
<1> DEFINE old == b.topics[t]
           v == [old EXCEPT !.closed = TRUE]
           q == WithTopic(b, t, v)
<1>0. Shape(b) /\ TopicOK(old)
  BY DEF Sound, Shape
<1>a. CASE old.exists
  <2>1. v = TopicRec(old.exists, TRUE, old.head, old.next, old.messages)
    BY <1>0, ClosedRec
  <2>2. TopicOK(v) /\ v.exists /\ v.head = old.head /\ v.next = old.next /\ v.messages = old.messages
    <3>1. /\ v.exists = old.exists /\ v.closed = TRUE /\ v.head = old.head /\ v.next = old.next
          /\ v.messages = old.messages
      BY <2>1 DEF TopicRec
    <3>2. QED
      BY <3>1, <2>1, <1>0, <1>a DEF TopicOK
  <2>3. r = Status(q, "TopicClosed", t, Nil)
    <3>1. [b EXCEPT !.topics[t].closed = TRUE] = q
      BY <1>0 DEF WithTopic, Shape, BusRec
    <3>2. QED
      BY <3>1, <1>a DEF CloseTopic
  <2>4. q = WithTopic(b, t, v)
    OBVIOUS
  <2> HIDE DEF old, v, q
  <2>5. Like(b, q)
    BY <1>0, <2>2, <2>4, TopicLike DEF old
  <2>6. Shape(q)
    BY <2>5 DEF Like
  <2>7. Like(q, r)
    BY <2>3, <2>6, StatusLike
  <2>8. QED
    BY <1>0, <2>5, <2>7, LikeTwice
<1>b. CASE ~old.exists
  <2>1. r = Issue(b, "unknown-topic", t)
    BY <1>b DEF CloseTopic
  <2>2. QED
    BY <2>1, <1>0, IssueLike
<1>c. QED
  BY <1>a, <1>b

(* A subscription is opened, moved or closed, and the status says so.      *)
LEMMA SubSound ==
    ASSUME NEW b, Sound(b), NEW t \in Topics, NEW s \in Subs, NEW v \in SubRec,
           RetentionLegal => GapOf(v, b.topics[t].head),
           NEW kind \in {"SubscriptionOpened", "SubscriptionAcked", "SubscriptionSought", "SubscriptionClosed"},
           NEW r, r = Status(WithSub(b, <<t, s>>, v), kind, t, s)
    PROVE  Sound(r) /\ r.log = b.log
<1> DEFINE x == <<t, s>>
           subs == [b.subs EXCEPT ![x] = v]
           q == WithSub(b, x, v)
           event == [kind |-> kind, topic |-> t, sub |-> s]
<1>0. Shape(b) /\ x \in Pairs
  BY PairFacts DEF Sound
<1>1. subs \in [Pairs -> SubRec] /\ subs[x] = v /\ \A y \in Pairs : y # x => subs[y] = b.subs[y]
  BY <1>0 DEF Shape
<1>2. q = [b EXCEPT !.subs = subs]
  BY DEF WithSub
<1>m. Moves(event, x)
  BY DEF Moves
<1>e. r = Status(q, kind, t, s) /\ Status(q, kind, t, s) = [q EXCEPT !.events = Append(@, event)]
  BY DEF Status
<1> HIDE DEF subs, q, event, x
<1>3. /\ q.topics = b.topics /\ q.subs = subs /\ q.ids = b.ids /\ q.keys = b.keys /\ q.dead = b.dead
      /\ q.strict = b.strict /\ q.now = b.now /\ q.events = b.events /\ q.cursor = b.cursor /\ q.log = b.log
      /\ q = BusRec(q.topics, q.subs, q.ids, q.keys, q.dead, q.strict, q.now, q.events, q.cursor, q.log)
  BY <1>0, <1>2, SetSubs
<1>4. Shape(q)
  BY <1>0, <1>1, <1>3 DEF Shape
<1>5. r = Emitting(q, event)
  BY <1>4, <1>e, StatusIs DEF event
<1>6. /\ Like(q, r) /\ r.topics = q.topics
      /\ Len(r.events) = Len(q.events) + 1 /\ Len(r.events) \in Nat /\ r.events[Len(r.events)] = event
  BY <1>4, <1>5, StatusSays
<1>7. Shape(r) /\ Len(b.events) \in Nat
  BY <1>0, <1>6, SeqFacts DEF Like, Shape
<1>8. /\ r.topics = b.topics /\ r.subs = subs /\ r.keys = b.keys /\ r.now = b.now /\ r.cursor = b.cursor
      /\ r.log = b.log /\ \A i \in 1..Len(b.events) : r.events[i] = b.events[i]
  BY <1>3, <1>6 DEF Like
<1>9. ASSUME NEW y \in Pairs PROVE ToldOf(r, y)
  <2>1. CASE y = x
    <3>1. Len(r.events) \in 1..Len(r.events) /\ Moves(r.events[Len(r.events)], y)
      BY <2>1, <1>3, <1>6, <1>7, <1>m
    <3>2. QED
      BY <3>1 DEF ToldOf
  <2>2. CASE y # x
    <3>1. ToldOf(b, y)
      BY DEF Sound
    <3>2. CursorSnapshot(r, y) = CursorSnapshot(b, y) /\ r.subs[y] = b.subs[y] /\ r.cursor[y] = b.cursor[y]
      BY <2>2, <1>1, <1>8 DEF CursorSnapshot
    <3>3. \A i \in 1..Len(b.events) : i \in 1..Len(r.events) /\ r.events[i] = b.events[i]
      BY <1>3, <1>6, <1>7, <1>8
    <3>4. QED
      BY <3>1, <3>2, <3>3 DEF ToldOf
  <2>3. QED
    BY <2>1, <2>2
<1>10. ASSUME RetentionLegal, NEW y \in Pairs PROVE GapOf(r.subs[y], r.topics[y[1]].head)
  <2>1. CASE y = x
    <3>1. y[1] = t
      BY <2>1 DEF x
    <3>2. QED
      BY <2>1, <3>1, <1>1, <1>8, <1>10
  <2>2. CASE y # x
    BY <2>2, <1>1, <1>8, <1>10 DEF Sound
  <2>3. QED
    BY <2>1, <2>2
<1>11. QED
  BY <1>7, <1>8, <1>9, <1>10 DEF Sound

(* ack_subscription, seek_subscription and close_subscription.             *)
LEMMA SubFacts ==
    ASSUME NEW b, Sound(b), NEW t \in Topics, NEW s \in Subs
    PROVE  /\ Shape(b) /\ <<t, s>> \in Pairs /\ b.subs[<<t, s>>] \in SubRec
           /\ b.topics[t].head \in Nat /\ b.topics[t].next \in Nat
           /\ RetentionLegal => GapOf(b.subs[<<t, s>>], b.topics[t].head)
<1>1. Shape(b) /\ <<t, s>> \in Pairs
  BY PairFacts DEF Sound
<1>2. b.subs[<<t, s>>] \in SubRec
  BY <1>1 DEF Shape
<1>3. RetentionLegal => GapOf(b.subs[<<t, s>>], b.topics[t].head)
  <2>1. RetentionLegal => \A x \in Pairs : GapOf(b.subs[x], b.topics[x[1]].head)
    BY DEF Sound
  <2>2. <<t, s>>[1] = t
    OBVIOUS
  <2>3. QED
    BY <1>1, <2>1, <2>2
<1>4. QED
  BY <1>1, <1>2, <1>3 DEF Shape, TopicOK

\* ack_subscription moves a cursor within the topic, and tells of it.
LEMMA AckSound ==
    ASSUME NEW b, Sound(b), NEW c, c.topic \in Topics, c.sub \in Subs, c.seq \in Nat, NEW r, r = AckSubscription(b, c)
    PROVE  Sound(r) /\ r.log = b.log
<1> DEFINE t == c.topic
           s == c.sub
           sub == b.subs[<<t, s>>]
           seq == c.seq
           v == [sub EXCEPT !.next = seq + 1]
<1>0. /\ Shape(b) /\ <<t, s>> \in Pairs /\ sub \in SubRec
      /\ b.topics[t].head \in Nat /\ b.topics[t].next \in Nat
      /\ RetentionLegal => GapOf(sub, b.topics[t].head)
  BY SubFacts
<1>1. \/ \E code : r = Issue(b, code, Nil)
      \/ /\ sub.exists /\ ~sub.closed /\ ~sub.gap /\ seq >= sub.next
         /\ r = Status([b EXCEPT !.subs[<<t, s>>].next = seq + 1], "SubscriptionAcked", t, s)
  <2>1. CASE ~b.topics[t].exists
    BY <2>1 DEF AckSubscription
  <2>2. CASE b.topics[t].exists /\ ~sub.exists
    BY <2>2 DEF AckSubscription
  <2>3. CASE b.topics[t].exists /\ sub.exists /\ sub.closed
    BY <2>3 DEF AckSubscription
  <2>4. CASE b.topics[t].exists /\ sub.exists /\ ~sub.closed /\ sub.gap
    BY <2>4 DEF AckSubscription
  <2>5. CASE b.topics[t].exists /\ sub.exists /\ ~sub.closed /\ ~sub.gap /\ seq < sub.next
    BY <2>5 DEF AckSubscription
  <2>6. CASE b.topics[t].exists /\ sub.exists /\ ~sub.closed /\ ~sub.gap /\ seq >= sub.next /\ seq >= b.topics[t].next
    BY <2>6 DEF AckSubscription
  <2>7. CASE b.topics[t].exists /\ sub.exists /\ ~sub.closed /\ ~sub.gap /\ ~(seq < sub.next)
             /\ ~(seq >= sub.next /\ seq >= b.topics[t].next)
    BY <2>7, <1>0 DEF AckSubscription, SubRec
  <2>8. QED
    BY <2>1, <2>2, <2>3, <2>4, <2>5, <2>6, <2>7
<1>2. CASE \E code : r = Issue(b, code, Nil)
  BY <1>2, <1>0, IssueLike, LikeSound DEF Like
<1>3. CASE /\ sub.exists /\ ~sub.closed /\ ~sub.gap /\ seq >= sub.next
           /\ r = Status([b EXCEPT !.subs[<<t, s>>].next = seq + 1], "SubscriptionAcked", t, s)
  <2>1. [b EXCEPT !.subs[<<t, s>>].next = seq + 1] = WithSub(b, <<t, s>>, v)
    BY <1>0 DEF WithSub, Shape, BusRec
  <2>2. /\ v \in SubRec /\ v.exists = sub.exists /\ v.closed = sub.closed /\ v.gap = sub.gap /\ v.next = seq + 1
        /\ sub.next \in Nat
    <3> HIDE DEF sub, seq
    <3>1. seq + 1 \in Nat
      BY DEF seq
    <3>2. QED
      BY <1>0, <3>1 DEF SubRec
  <2>3. RetentionLegal => GapOf(v, b.topics[t].head)
    <3>1. GapOf(sub, b.topics[t].head) => GapOf(v, b.topics[t].head)
      <4> HIDE DEF v, sub, seq
      <4>1. seq \in Nat
        BY DEF seq
      <4>2. QED
        BY <4>1, <2>2, <1>0, <1>3 DEF GapOf
    <3>2. QED
      BY <3>1, <1>0
  <2> HIDE DEF v
  <2>4. QED
    BY SMTT(30), <1>3, <2>1, <2>2, <2>3, SubSound
<1>4. QED
  BY <1>1, <1>2, <1>3

\* seek_subscription moves a cursor to a place that is still retained, or refuses.
LEMMA SeekSound ==
    ASSUME NEW b, Sound(b), NEW c, c.topic \in Topics, c.sub \in Subs, c.seq \in Nat, NEW r, r = SeekSubscription(b, c)
    PROVE  Sound(r) /\ r.log = b.log
<1> DEFINE t == c.topic
           s == c.sub
           sub == b.subs[<<t, s>>]
           seq == c.seq
           v == [sub EXCEPT !.next = seq, !.gap = FALSE]
           q == [b EXCEPT !.subs[<<t, s>>].next = seq, !.subs[<<t, s>>].gap = FALSE]
<1>0. /\ Shape(b) /\ <<t, s>> \in Pairs /\ sub \in SubRec
      /\ b.topics[t].head \in Nat /\ b.topics[t].next \in Nat
  BY SubFacts
<1>1. \/ \E code : r = Issue(b, code, Nil)
      \/ seq >= b.topics[t].head /\ r = Status(q, "SubscriptionSought", t, s)
  <2>1. CASE ~b.topics[t].exists
    BY <2>1 DEF SeekSubscription
  <2>2. CASE b.topics[t].exists /\ ~sub.exists
    BY <2>2 DEF SeekSubscription
  <2>3. CASE b.topics[t].exists /\ sub.exists /\ sub.closed
    BY <2>3 DEF SeekSubscription
  <2>4. CASE b.topics[t].exists /\ sub.exists /\ ~sub.closed /\ seq < b.topics[t].head
    BY <2>4 DEF SeekSubscription
  <2>5. CASE b.topics[t].exists /\ sub.exists /\ ~sub.closed /\ seq > b.topics[t].next
    <3>1. CASE seq < b.topics[t].head
      BY <2>4, <2>5, <3>1
    <3>2. CASE ~(seq < b.topics[t].head)
      BY <2>5, <3>2 DEF SeekSubscription
    <3>3. QED
      BY <3>1, <3>2
  <2>6. CASE b.topics[t].exists /\ sub.exists /\ ~sub.closed /\ ~(seq < b.topics[t].head) /\ ~(seq > b.topics[t].next)
    BY <2>6, <1>0 DEF SeekSubscription
  <2>7. QED
    BY <2>1, <2>2, <2>3, <2>4, <2>5, <2>6
<1>2. CASE \E code : r = Issue(b, code, Nil)
  BY <1>2, <1>0, IssueLike, LikeSound DEF Like
<1>3. CASE seq >= b.topics[t].head /\ r = Status(q, "SubscriptionSought", t, s)
  <2>1. q = WithSub(b, <<t, s>>, v)
    <3>1. /\ b = BusRec(b.topics, b.subs, b.ids, b.keys, b.dead, b.strict, b.now, b.events, b.cursor, b.log)
          /\ b.subs \in [Pairs -> SubRec]
      BY <1>0 DEF Shape
    <3> DEFINE x == <<t, s>>
    <3>2. x \in Pairs
      BY <1>0
    <3> HIDE DEF x, seq
    <3>3. q = [b EXCEPT !.subs[x].next = seq, !.subs[x].gap = FALSE]
      BY DEF x
    <3>4. [b EXCEPT !.subs[x].next = seq, !.subs[x].gap = FALSE]
            = [b EXCEPT !.subs = [b.subs EXCEPT ![x] = [b.subs[x] EXCEPT !.next = seq, !.gap = FALSE]]]
      BY <3>1, <3>2 DEF BusRec, SubRec
    <3>5. QED
      BY <3>3, <3>4 DEF WithSub, x
  <2>2. v \in SubRec /\ v.gap = FALSE /\ v.next = seq
    <3> HIDE DEF sub, seq
    <3>1. seq \in Nat
      BY DEF seq
    <3>2. QED
      BY <1>0, <3>1 DEF SubRec
  <2>3. GapOf(v, b.topics[t].head)
    <3> HIDE DEF v, sub, seq
    <3>1. seq \in Nat
      BY DEF seq
    <3>2. QED
      BY <3>1, <2>2, <1>0, <1>3 DEF GapOf
  <2> HIDE DEF v, q
  <2>4. QED
    BY <1>3, <2>1, <2>2, <2>3, SubSound
<1>4. QED
  BY <1>1, <1>2, <1>3

\* close_subscription tells of the closure.
LEMMA CloseSound ==
    ASSUME NEW b, Sound(b), NEW c, c.topic \in Topics, c.sub \in Subs, NEW r, r = CloseSubscription(b, c)
    PROVE  Sound(r) /\ r.log = b.log
<1> DEFINE t == c.topic
           s == c.sub
           sub == b.subs[<<t, s>>]
           v == [sub EXCEPT !.closed = TRUE]
           q == [b EXCEPT !.subs[<<t, s>>].closed = TRUE]
<1>0. Shape(b) /\ <<t, s>> \in Pairs /\ sub \in SubRec
  BY SubFacts
<1>1. \/ \E code : r = Issue(b, code, Nil)
      \/ r = Status(q, "SubscriptionClosed", t, s)
  <2>1. CASE ~b.topics[t].exists
    BY <2>1 DEF CloseSubscription
  <2>2. CASE b.topics[t].exists /\ ~sub.exists
    BY <2>2 DEF CloseSubscription
  <2>3. CASE b.topics[t].exists /\ sub.exists
    BY <2>3 DEF CloseSubscription
  <2>4. QED
    BY <2>1, <2>2, <2>3
<1>2. CASE \E code : r = Issue(b, code, Nil)
  BY <1>2, <1>0, IssueLike, LikeSound DEF Like
<1>3. CASE r = Status(q, "SubscriptionClosed", t, s)
  <2>1. q = WithSub(b, <<t, s>>, v)
    BY <1>0 DEF WithSub, Shape, BusRec
  <2>2. v \in SubRec /\ v.closed = TRUE
    <3> HIDE DEF sub
    <3>1. QED
      BY <1>0 DEF SubRec
  <2>3. GapOf(v, b.topics[t].head)
    <3> HIDE DEF v
    <3>1. QED
      BY <2>2 DEF GapOf
  <2> HIDE DEF v, q
  <2>4. QED
    BY <1>3, <2>1, <2>2, <2>3, SubSound
<1>4. QED
  BY <1>1, <1>2, <1>3

(* A duplicate is an issue or a status.                                    *)
LEMMA DuplicateLike ==
    ASSUME NEW b, Shape(b), NEW c, NEW r, r = DuplicateCommand(b, c)
    PROVE  Like(b, r)
<1>1. r = Issue(b, "duplicate-command", c.topic) \/ r = Status(b, "DuplicateCommand", c.topic, Nil)
  BY DEF DuplicateCommand
<1>2. QED
  BY <1>1, IssueLike, StatusLike

(* Once the cursors are shown, every one of them is fresh.                 *)
LEMMA ShownSound ==
    ASSUME NEW b, Sound(b), NEW r, r = Shown(b)
    PROVE  /\ Sound(r) /\ r.events = <<>>
           /\ r.topics = b.topics /\ r.subs = b.subs /\ r.keys = b.keys /\ r.now = b.now /\ r.log = b.log
<1> DEFINE cursor == [x \in Pairs |->
              IF b.subs[x].exists /\ \E i \in DOMAIN b.events : Moves(b.events[i], x) THEN CursorSnapshot(b, x)
              ELSE b.cursor[x]]
           none == <<>>
<1>0. Shape(b) /\ DOMAIN b.events = 1..Len(b.events)
  BY SeqFacts DEF Sound, Shape
<1>1. r = [b EXCEPT !.events = none, !.cursor = cursor]
  BY DEF Shown, Pairs
<1>2. cursor = [x \in Pairs |-> cursor[x]]
  OBVIOUS
<1>3. ASSUME NEW x \in Pairs, b.subs[x].exists PROVE cursor[x] = CursorSnapshot(b, x)
  <2>1. ToldOf(b, x)
    BY DEF Sound
  <2>2. QED
    BY <1>0, <1>3, <2>1 DEF ToldOf
<1>n. IsSeq(none) /\ Len(none) = 0
  BY EmptyIsSeq
<1> HIDE DEF cursor, none
<1>4. r = BusRec(b.topics, b.subs, b.ids, b.keys, b.dead, b.strict, b.now, none, cursor, b.log)
  BY <1>0, <1>1 DEF Shape, BusRec
<1>5. /\ r.topics = b.topics /\ r.subs = b.subs /\ r.keys = b.keys /\ r.dead = b.dead
      /\ r.now = b.now /\ r.events = none /\ r.cursor = cursor /\ r.log = b.log
      /\ r = BusRec(r.topics, r.subs, r.ids, r.keys, r.dead, r.strict, r.now, r.events, r.cursor, r.log)
  BY <1>4, RecFields
<1>6. Shape(r)
  BY <1>0, <1>2, <1>5, <1>n DEF Shape
<1>7. ASSUME NEW x \in Pairs PROVE ToldOf(r, x)
  <2>1. CursorSnapshot(r, x) = CursorSnapshot(b, x)
    BY <1>5 DEF CursorSnapshot
  <2>2. QED
    BY <2>1, <1>3, <1>5 DEF ToldOf
<1>8. Sound(r)
  BY <1>5, <1>6, <1>7 DEF Sound
<1>9. QED
  BY <1>5, <1>8 DEF none

(* ensure_subscription starts a reader where it can read on.               *)
LEMMA SubscribeSound ==
    ASSUME NEW b, Sound(b), NEW t \in Topics, NEW s \in Subs, NEW from,
           from = <<"Earliest">> \/ from = <<"Latest">> \/ from[2] \in Nat, NEW r, r = EnsureSubscription(b, t, s, from)
    PROVE  /\ r = b \/ (Sound(r) /\ r.events = <<>>)
           /\ r.now = b.now /\ r.log = b.log
<1> DEFINE topic == b.topics[t]
           asked == CASE from = <<"Earliest">> -> topic.head [] from = <<"Latest">> -> topic.next [] OTHER -> from[2]
           outside == topic.exists /\ (asked < topic.head \/ asked > topic.next)
           letter == [seq |-> Len(b.dead) + 1, code |-> "cursor-out-of-range", topic |-> t]
           dead == Append(b.dead, letter)
           noted == IF outside THEN [b EXCEPT !.dead = dead] ELSE b
           next == IF outside THEN topic.head ELSE asked
           v == [exists |-> TRUE, closed |-> FALSE, gap |-> FALSE, next |-> next]
           q == Status(WithSub(noted, <<t, s>>, v), "SubscriptionOpened", t, s)
<1>0. Shape(b) /\ topic.head \in Nat /\ topic.next \in Nat /\ TopicOf(topic, b.log[t]) /\ <<t, s>> \in Pairs
  BY PairFacts DEF Sound, Shape, TopicOK
<1>1. asked \in Nat
  BY <1>0
<1>2. IsSeq(dead)
  BY <1>0, AppendFacts DEF Shape
<1>4. next \in Nat /\ (next >= topic.head \/ topic.head = 1)
  <2>1. ~topic.exists => topic.head = 1
    BY <1>0 DEF TopicOf, NoTopic
  <2> HIDE DEF asked, topic
  <2>2. QED
    BY <2>1, <1>0, <1>1
<1>5. v \in SubRec /\ v.gap = FALSE /\ v.next = next
  <2> HIDE DEF next
  <2>1. QED
    BY <1>4 DEF SubRec
<1>6. GapOf(v, topic.head)
  <2> HIDE DEF v, next, topic
  <2>1. QED
    BY <1>0, <1>4, <1>5 DEF GapOf
<1>7. Like(b, noted) /\ noted.topics = b.topics
  <2>1. CASE outside
    <3>1. noted = [b EXCEPT !.dead = dead]
      BY <2>1
    <3> HIDE DEF noted, dead
    <3>2. QED
      BY <3>1, <1>0, <1>2, DeadLike
  <2>2. CASE ~outside
    <3>1. noted = b
      BY <2>2
    <3> HIDE DEF noted
    <3>2. Len(b.events) \in Nat
      BY <1>0, SeqFacts DEF Shape
    <3>3. QED
      BY <3>1, <3>2, <1>0 DEF Like
  <2>3. QED
    BY <2>1, <2>2
<1>8. r = b \/ r = Shown(q)
  <2>1. CASE b.subs[<<t, s>>].exists
    BY <2>1 DEF EnsureSubscription
  <2>2. CASE ~b.subs[<<t, s>>].exists
    <3>1. r = Shown(Status([noted EXCEPT !.subs[<<t, s>>] = v], "SubscriptionOpened", t, s))
      BY <2>2 DEF EnsureSubscription
    <3>2. Shape(noted)
      BY <1>7 DEF Like
    <3> HIDE DEF noted, v
    <3>3. [noted EXCEPT !.subs[<<t, s>>] = v] = WithSub(noted, <<t, s>>, v)
      BY <3>2 DEF WithSub, Shape, BusRec
    <3>4. QED
      BY <3>1, <3>3
  <2>3. QED
    BY <2>1, <2>2
<1>9. Sound(noted)
  BY <1>7, LikeSound
<1>10. Sound(q)
  <2> HIDE DEF v, noted
  <2>1. QED
    BY <1>5, <1>6, <1>7, <1>9, SubSound
<1>11. q.now = b.now /\ q.log = b.log
  <2> DEFINE p == WithSub(noted, <<t, s>>, v)
             subs == [noted.subs EXCEPT ![<<t, s>>] = v]
  <2>1. Shape(noted) /\ noted.now = b.now /\ noted.log = b.log
    BY <1>7 DEF Like
  <2>2. p = [noted EXCEPT !.subs = subs]
    BY DEF WithSub
  <2>3. subs \in [Pairs -> SubRec]
    BY <2>1, <1>5, <1>0 DEF Shape
  <2> HIDE DEF noted, v, subs, p
  <2>4. /\ p.topics = noted.topics /\ p.subs = subs /\ p.now = noted.now /\ p.events = noted.events
        /\ p.cursor = noted.cursor /\ p.log = noted.log /\ p.dead = noted.dead
        /\ p = BusRec(p.topics, p.subs, p.ids, p.keys, p.dead, p.strict, p.now, p.events, p.cursor, p.log)
    BY <2>1, <2>2, SetSubs
  <2>5. Shape(p)
    BY <2>1, <2>3, <2>4 DEF Shape
  <2>6. q = Status(p, "SubscriptionOpened", t, s)
    BY DEF p
  <2> HIDE DEF q
  <2>7. Like(p, q)
    BY <2>5, <2>6, StatusLike
  <2>8. QED
    BY <2>1, <2>4, <2>7 DEF Like
<1> HIDE DEF q
<1>12. QED
  BY <1>8, <1>10, <1>11, ShownSound

-----------------------------------------------------------------------------
(* Retention                                                               *)

YoungPlaces(b, t) == {i \in DOMAIN b.topics[t].messages : b.now - b.topics[t].messages[i].at <= MaxAge}
Young(b, t) == IF MaxAge = Nil THEN b.topics[t].messages ELSE Only(b.topics[t].messages, YoungPlaces(b, t))
Excess(b, t) == IF MaxRetained = Nil \/ Len(Young(b, t)) <= MaxRetained THEN 0 ELSE Len(Young(b, t)) - MaxRetained
KeptBy(b, t) == SubSeq(Young(b, t), Excess(b, t) + 1, Len(Young(b, t)))
HeadBy(b, t) == IF KeptBy(b, t) = <<>> THEN b.topics[t].next ELSE KeptBy(b, t)[1].seq

(* r is the last of s, from the member at k on.                            *)
LastFrom(r, s, k) ==
    /\ IsSeq(r) /\ k \in 1..(Len(s) + 1) /\ Len(r) = Len(s) - k + 1
    /\ \A i \in 1..Len(r) : r[i] = s[k + i - 1]

(* What is young enough was retained before.                               *)
LEMMA YoungFrom ==
    ASSUME NEW s, IsSeq(s), NEW places \in SUBSET (1..Len(s))
    PROVE  /\ IsSeq(Only(s, places))
           /\ \A i \in 1..Len(Only(s, places)) : \E j \in 1..Len(s) : Only(s, places)[i] = s[j]
<1>0. Len(s) \in Nat
  BY SeqFacts
<1>1. IsSeq(Only(s, places)) /\ Len(Only(s, places)) = Cardinality(places)
  BY <1>0, OnlyIsSeq
<1>2. ASSUME NEW i \in 1..Cardinality(places) PROVE \E j \in 1..Len(s) : Only(s, places)[i] = s[j]
  <2>1. PICK j \in places : Rank(places, j) = i /\ Only(s, places)[i] = s[j]
    BY <1>0, OnlyFrom
  <2>2. QED
    BY <2>1
<1>3. QED
  BY <1>1, <1>2

(* Places that are followed by all the later ones are a last stretch.      *)
LEMMA UpwardPlaces ==
    ASSUME NEW n \in Nat, NEW places \in SUBSET (1..n), \A i \in places, j \in 1..n : i <= j => j \in places
    PROVE  \E k \in 1..(n + 1) : places = k..n
<1> DEFINE T == places \cup {n + 1}
<1>1. T \subseteq Nat /\ T # {}
  OBVIOUS
<1> HIDE DEF T
<1>2. PICK k \in T : \A y \in T : k <= y
  BY <1>1, LeastNat
<1>3. k \in 1..(n + 1)
  BY <1>2 DEF T
<1>4. ASSUME NEW i \in places PROVE i \in k..n
  BY <1>2, <1>3 DEF T
<1>5. ASSUME NEW i \in k..n PROVE i \in places
  <2>1. k # n + 1 /\ i \in 1..n /\ k <= i
    BY <1>3
  <2>2. k \in places
    BY <1>2, <2>1 DEF T
  <2>3. QED
    BY <2>1, <2>2
<1>6. places = k..n
  BY <1>4, <1>5
<1>7. QED
  BY <1>3, <1>6

(* Old messages are a first stretch of what is retained: time does not go  *)
(* back, so what is young enough is the last of it.                        *)
LEMMA YoungIsLast ==
    ASSUME NEW b, Sound(b), NEW t \in Topics, RetentionLegal
    PROVE  \E k : LastFrom(Young(b, t), b.topics[t].messages, k)
<1> DEFINE messages == b.topics[t].messages
           log == b.log[t]
           head == b.topics[t].head
           n == Len(messages)
           places == YoungPlaces(b, t)
<1>0. IsSeq(messages) /\ n \in Nat /\ DOMAIN messages = 1..n
  <2>1. IsSeq(messages)
    BY DEF Sound, TopicOf
  <2>2. QED
    BY <2>1, SeqFacts
<1>1. CASE MaxAge = Nil
  <2>1. Young(b, t) = messages
    BY <1>1 DEF Young
  <2> HIDE DEF messages
  <2>2. LastFrom(messages, messages, 1)
    BY <1>0 DEF LastFrom
  <2>3. QED
    BY <2>1, <2>2 DEF messages
<1>2. CASE MaxAge # Nil
  <2>1. /\ head \in Nat /\ b.topics[t].next = Len(log) + 1 /\ head \in 1..b.topics[t].next
        /\ n = b.topics[t].next - head /\ \A i \in 1..n : messages[i] = log[head + i - 1]
    BY DEF Sound, RetainedOf, TopicOf, Shape, TopicOK
  <2>2. /\ Len(log) \in Nat /\ \A i \in 1..Len(log) : log[i].at \in Nat
        /\ \A i, j \in 1..Len(log) : i <= j => log[i].at <= log[j].at
    <3>1. LogOf(t, log, b.keys, b.now)
      BY DEF Sound
    <3> HIDE DEF log
    <3>2. QED
      BY <3>1, SeqFacts DEF LogOf
  <2>3. b.now \in Nat /\ MaxAge \in Nat
    BY <1>2, MessageBusAssumption DEF Sound, Shape
  <2>4. \A i \in 1..n : i \in places <=> b.now - messages[i].at <= MaxAge
    BY <1>0 DEF YoungPlaces
  <2>5. places \in SUBSET (1..n)
    BY <1>0 DEF YoungPlaces
  <2> HIDE DEF messages, log, head, places, n
  <2>6. \A i, j \in 1..n : i <= j => messages[i].at \in Nat /\ messages[j].at \in Nat /\ messages[i].at <= messages[j].at
    <3>1. \A i \in 1..n : head + i - 1 \in 1..Len(log)
      BY <1>0, <2>1, <2>2
    <3> TAKE i, j \in 1..n
    <3>2. i <= j => head + i - 1 <= head + j - 1
      BY <1>0, <2>1
    <3>3. QED
      BY <2>1, <2>2, <3>1, <3>2
  <2>7. \A i \in places, j \in 1..n : i <= j => j \in places
    <3> TAKE i \in places, j \in 1..n
    <3>1. i \in 1..n /\ b.now - messages[i].at <= MaxAge
      BY <2>4, <2>5
    <3>2. i <= j => b.now - messages[j].at <= MaxAge
      BY <2>3, <2>6, <3>1
    <3>3. QED
      BY <2>4, <3>2
  <2>8. PICK k \in 1..(n + 1) : places = k..n
    BY <1>0, <2>5, <2>7, UpwardPlaces
  <2>9. /\ IsSeq(Only(messages, places)) /\ Len(Only(messages, places)) = n - k + 1
        /\ \A i \in 1..(n - k + 1) : Only(messages, places)[i] = messages[k + i - 1]
    BY <1>0, <2>5, <2>8, OnlySuffix
  <2>10. LastFrom(Only(messages, places), messages, k)
    BY <2>8, <2>9 DEF LastFrom, n
  <2>11. Young(b, t) = Only(messages, places)
    BY <1>2 DEF Young, messages, places
  <2>12. QED
    BY <2>10, <2>11 DEF messages
<1>3. QED
  BY <1>1, <1>2

(* What is kept is the last of what was retained.                          *)
LEMMA KeptIsLast ==
    ASSUME NEW b, Sound(b), NEW t \in Topics, RetentionLegal
    PROVE  \E k : LastFrom(KeptBy(b, t), b.topics[t].messages, k)
<1> DEFINE messages == b.topics[t].messages
           young == Young(b, t)
           excess == Excess(b, t)
<1>0. Len(messages) \in Nat
  <2>1. IsSeq(messages)
    BY DEF Sound, TopicOf
  <2>2. QED
    BY <2>1, SeqFacts
<1>1. PICK k : LastFrom(young, messages, k)
  BY YoungIsLast
<1>2. IsSeq(young) /\ Len(young) \in Nat
  BY <1>1, SeqFacts DEF LastFrom
<1>3. excess \in Nat /\ excess <= Len(young)
  <2>1. MaxRetained = Nil \/ MaxRetained \in Nat
    BY MessageBusAssumption
  <2> HIDE DEF young
  <2>2. excess = IF MaxRetained = Nil \/ Len(young) <= MaxRetained THEN 0 ELSE Len(young) - MaxRetained
    BY DEF Excess, young
  <2> HIDE DEF excess
  <2>3. QED
    BY <2>1, <2>2, <1>2
<1>4. KeptBy(b, t) = SubSeq(young, excess + 1, Len(young))
  BY DEF KeptBy
<1> HIDE DEF messages, young, excess
<1> DEFINE kept == SubSeq(young, excess + 1, Len(young))
           m == excess + 1
           n == Len(young)
<1>5. IsSeq(kept) /\ Len(kept) = Len(young) - excess /\ \A i \in 1..Len(kept) : kept[i] = young[excess + i]
  <2>1. m \in Nat \ {0} /\ n \in Nat /\ m <= n + 1 /\ n <= Len(young)
    BY <1>2, <1>3
  <2>0. kept = SubSeq(young, m, n)
    OBVIOUS
  <2> HIDE DEF m, n, kept
  <2>2. /\ IsSeq(SubSeq(young, m, n)) /\ Len(SubSeq(young, m, n)) = n - m + 1
        /\ \A i \in 1..(n - m + 1) : SubSeq(young, m, n)[i] = young[m + i - 1]
    BY <2>1, <1>2, SubSeqFacts
  <2>3. n - m + 1 = Len(young) - excess /\ n - m + 1 \in Nat /\ \A i \in Int : m + i - 1 = excess + i
    BY <1>2, <1>3 DEF m, n
  <2>4. IsSeq(kept) /\ Len(kept) = n - m + 1 /\ \A i \in 1..(n - m + 1) : kept[i] = young[m + i - 1]
    BY <2>0, <2>2
  <2>5. ASSUME NEW i \in 1..Len(kept) PROVE kept[i] = young[excess + i]
    <3>1. i \in Int /\ i \in 1..(n - m + 1)
      BY <2>3, <2>4
    <3>2. m + i - 1 = excess + i
      BY <3>1, <2>3
    <3>3. QED
      BY <3>1, <3>2, <2>4
  <2>6. QED
    BY <2>3, <2>4, <2>5
<1> HIDE DEF kept
<1>6. LastFrom(kept, messages, k + excess)
  <2>1. /\ k \in 1..(Len(messages) + 1) /\ Len(young) = Len(messages) - k + 1
        /\ \A i \in 1..Len(young) : young[i] = messages[k + i - 1]
    BY <1>1 DEF LastFrom
  <2>2. k + excess \in 1..(Len(messages) + 1) /\ Len(kept) = Len(messages) - (k + excess) + 1
    BY <2>1, <1>0, <1>3, <1>5
  <2>3. ASSUME NEW i \in 1..Len(kept) PROVE kept[i] = messages[(k + excess) + i - 1]
    <3>1. excess + i \in 1..Len(young) /\ k + (excess + i) - 1 = (k + excess) + i - 1
      BY <1>2, <1>3, <1>5, <2>1
    <3>2. QED
      BY <3>1, <2>1, <1>5
  <2>4. QED
    BY <1>5, <2>2, <2>3 DEF LastFrom
<1>7. QED
  BY <1>4, <1>6 DEF kept, messages

(* The new head, and what is retained from it on.                          *)
LEMMA HeadFacts ==
    ASSUME NEW b, Sound(b), NEW t \in Topics, RetentionLegal,
           NEW kept, kept = KeptBy(b, t), NEW head, head = HeadBy(b, t)
    PROVE  /\ IsSeq(kept) /\ head \in 1..b.topics[t].next /\ head >= b.topics[t].head
           /\ Len(kept) = b.topics[t].next - head
           /\ \A i \in 1..Len(kept) : kept[i] = b.log[t][head + i - 1]
           /\ \A i \in 1..Len(kept) : \E j \in 1..Len(b.log[t]) : kept[i] = b.log[t][j]
<1> DEFINE messages == b.topics[t].messages
           log == b.log[t]
           old == b.topics[t].head
           next == b.topics[t].next
<1>1. PICK k : LastFrom(kept, messages, k)
  BY KeptIsLast
<1>2. /\ old \in Nat /\ next \in Nat /\ next = Len(log) + 1 /\ old \in 1..next
      /\ Len(messages) = next - old /\ \A i \in 1..Len(messages) : messages[i] = log[old + i - 1]
  BY DEF Sound, RetainedOf, TopicOf, Shape, TopicOK
<1>3. Len(log) \in Nat /\ \A i \in 1..Len(log) : log[i].seq = i
  <2>1. LogOf(t, log, b.keys, b.now)
    BY DEF Sound
  <2> HIDE DEF log
  <2>2. QED
    BY <2>1, SeqFacts DEF LogOf
<1>4. head = IF kept = <<>> THEN next ELSE kept[1].seq
  BY DEF HeadBy
<1> HIDE DEF messages, log, old, next
<1>5. /\ IsSeq(kept) /\ k \in 1..(Len(messages) + 1) /\ Len(kept) = Len(messages) - k + 1
      /\ \A i \in 1..Len(kept) : kept[i] = messages[k + i - 1]
  BY <1>1 DEF LastFrom
<1>6. Len(kept) \in Nat /\ k \in Nat /\ (kept = <<>> <=> Len(kept) = 0)
  <2>1. Len(kept) \in Nat /\ (kept = <<>> <=> Len(kept) = 0)
    BY <1>5 DEF IsSeq
  <2>2. QED
    BY <2>1, <1>2, <1>5
<1>7. \A i \in 1..Len(kept) : old + k - 1 + i - 1 \in 1..Len(log) /\ kept[i] = log[old + k - 1 + i - 1]
  <2> TAKE i \in 1..Len(kept)
  <2>0. i \in Nat /\ i >= 1 /\ i <= Len(kept) /\ Len(messages) \in Int /\ k >= 1
    BY <1>2, <1>5, <1>6
  <2>a. k + i - 1 \in Nat /\ k + i - 1 >= 1 /\ k + i - 1 <= Len(messages)
    BY <2>0, <1>5, <1>6
  <2>1. k + i - 1 \in 1..Len(messages) /\ old + (k + i - 1) - 1 = old + k - 1 + i - 1
    BY <2>0, <2>a, <1>2, <1>6
  <2>2. old + k - 1 + i - 1 \in 1..Len(log)
    BY SMTT(30), <1>2, <1>3, <1>5, <1>6
  <2>3. QED
    BY <2>1, <2>2, <1>2, <1>5
<1>8. head = old + k - 1
  <2>1. CASE Len(kept) = 0
    BY <2>1, <1>2, <1>4, <1>5, <1>6
  <2>2. CASE Len(kept) # 0
    <3>1. 1 \in 1..Len(kept) /\ old + k - 1 + 1 - 1 = old + k - 1
      BY <2>2, <1>2, <1>6
    <3>2. kept[1] = log[old + k - 1] /\ old + k - 1 \in 1..Len(log)
      BY <3>1, <1>7
    <3>3. QED
      BY <3>2, <2>2, <1>3, <1>4, <1>6
  <2>3. QED
    BY <2>1, <2>2
<1>9. head \in 1..next /\ head >= old /\ Len(kept) = next - head
  BY <1>2, <1>5, <1>6, <1>8
<1>10. QED
  BY <1>5, <1>7, <1>8, <1>9 DEF log, old, next

(* A change of one topic that leaves its head alone.                       *)
LEMMA TopicChanged ==
    ASSUME NEW b, Sound(b), NEW t \in Topics, NEW r, Shape(r),
           r.subs = b.subs, r.cursor = b.cursor, r.events = b.events, r.now = b.now, b.keys \subseteq r.keys,
           r.topics[t].head = b.topics[t].head,
           \A u \in Topics : u # t => r.topics[u] = b.topics[u] /\ r.log[u] = b.log[u],
           LogOf(t, r.log[t], r.keys, r.now), TopicOf(r.topics[t], r.log[t]),
           RetentionLegal => RetainedOf(r.topics[t], r.log[t])
    PROVE  Sound(r)
<1>1. \A u \in Topics : r.topics[u].head = b.topics[u].head
  OBVIOUS
<1>2. ASSUME NEW x \in Pairs PROVE ToldOf(r, x)
  <2>1. ToldOf(b, x) /\ x[1] \in Topics
    BY PairFacts DEF Sound
  <2>2. CursorSnapshot(r, x) = CursorSnapshot(b, x)
    BY <2>1, <1>1 DEF CursorSnapshot
  <2>3. QED
    BY <2>1, <2>2 DEF ToldOf
<1>3. ASSUME NEW u \in Topics PROVE LogOf(u, r.log[u], r.keys, r.now) /\ TopicOf(r.topics[u], r.log[u])
  <2>1. CASE u = t
    BY <2>1
  <2>2. CASE u # t
    <3>1. LogOf(u, b.log[u], b.keys, b.now) /\ TopicOf(b.topics[u], b.log[u])
      BY DEF Sound
    <3>2. LogOf(u, b.log[u], r.keys, b.now)
      BY <3>1 DEF LogOf
    <3>3. QED
      BY <2>2, <3>1, <3>2
  <2>3. QED
    BY <2>1, <2>2
<1>4. ASSUME RetentionLegal, NEW u \in Topics PROVE RetainedOf(r.topics[u], r.log[u])
  BY <1>4 DEF Sound
<1>5. ASSUME RetentionLegal, NEW x \in Pairs PROVE GapOf(r.subs[x], r.topics[x[1]].head)
  BY <1>1, <1>5, PairFacts DEF Sound
<1>6. QED
  BY <1>2, <1>3, <1>4, <1>5 DEF Sound

(* The parts of a bus with another topic.                                  *)
LEMMA WithTopicShape ==
    ASSUME NEW b, Shape(b), NEW t \in Topics, NEW v, TopicOK(v), NEW r, r = WithTopic(b, t, v)
    PROVE  /\ Shape(r) /\ r.topics[t] = v /\ \A u \in Topics : u # t => r.topics[u] = b.topics[u]
           /\ r.subs = b.subs /\ r.ids = b.ids /\ r.keys = b.keys /\ r.dead = b.dead /\ r.strict = b.strict
           /\ r.now = b.now /\ r.events = b.events /\ r.cursor = b.cursor /\ r.log = b.log
<1> DEFINE topics == [b.topics EXCEPT ![t] = v]
<1>1. topics = [u \in Topics |-> IF u = t THEN v ELSE b.topics[u]]
  BY DEF Shape
<1>2. topics[t] = v /\ (\A u \in Topics : u # t => topics[u] = b.topics[u]) /\ topics = [u \in Topics |-> topics[u]]
  BY <1>1
<1>3. r = [b EXCEPT !.topics = topics]
  BY DEF WithTopic
<1> HIDE DEF topics
<1>4. /\ r.topics = topics /\ r.subs = b.subs /\ r.ids = b.ids /\ r.keys = b.keys /\ r.dead = b.dead
      /\ r.strict = b.strict /\ r.now = b.now /\ r.events = b.events /\ r.cursor = b.cursor /\ r.log = b.log
      /\ r = BusRec(r.topics, r.subs, r.ids, r.keys, r.dead, r.strict, r.now, r.events, r.cursor, r.log)
  BY SMTT(30), <1>3, SetTopics
<1>5. \A u \in Topics : TopicOK(topics[u])
  BY <1>2 DEF Shape
<1>6. Shape(r)
  BY <1>2, <1>4, <1>5 DEF Shape
<1>7. QED
  BY <1>2, <1>4, <1>6

(* What trim_retention writes into the topic.                              *)
Trimmed(topic, head, messages) == TopicRec(topic.exists, topic.closed, head, topic.next, messages)

\* The topic after retention, field by field.
LEMMA TrimmedOK ==
    ASSUME NEW topic, TopicOK(topic), NEW head \in Nat, NEW messages, NEW v, v = Trimmed(topic, head, messages)
    PROVE  /\ TopicOK(v) /\ v.exists = topic.exists /\ v.closed = topic.closed /\ v.head = head
           /\ v.next = topic.next /\ v.messages = messages
<1>1. /\ v.exists = topic.exists /\ v.closed = topic.closed /\ v.head = head
      /\ v.next = topic.next /\ v.messages = messages
  BY DEF Trimmed, TopicRec
<1>2. v = TopicRec(v.exists, v.closed, v.head, v.next, v.messages)
  BY <1>1 DEF Trimmed
<1>3. QED
  BY <1>1, <1>2 DEF TopicOK

SetMessages(b, t, messages) == [b EXCEPT !.topics[t].messages = messages]
SetTrimmed(b, t, head, messages) == [b EXCEPT !.topics[t].messages = messages, !.topics[t].head = head]

\* How trim_retention writes the topic back.
LEMMA TrimWrites ==
    ASSUME NEW b, Shape(b), NEW t \in Topics, NEW head, NEW messages
    PROVE  /\ SetMessages(b, t, messages) = WithTopic(b, t, Trimmed(b.topics[t], b.topics[t].head, messages))
           /\ SetTrimmed(b, t, head, messages) = WithTopic(b, t, Trimmed(b.topics[t], head, messages))
<1> DEFINE o == b.topics[t]
<1>0. TopicOK(o)
  BY DEF Shape
<1>1. [o EXCEPT !.messages = messages] = Trimmed(o, o.head, messages)
  <2> HIDE DEF o
  <2>1. QED
    BY <1>0 DEF Trimmed, TopicOK, TopicRec
<1>2. [[o EXCEPT !.messages = messages] EXCEPT !.head = head] = Trimmed(o, head, messages)
  <2> DEFINE w == [o EXCEPT !.messages = messages]
  <2>1. w = TopicRec(o.exists, o.closed, o.head, o.next, messages)
    BY <1>1 DEF Trimmed
  <2> HIDE DEF o, w
  <2>2. [w EXCEPT !.head = head] = TopicRec(o.exists, o.closed, head, o.next, messages)
    BY <2>1 DEF TopicRec
  <2>3. QED
    BY <2>2 DEF w, Trimmed
<1>3. [b EXCEPT !.topics[t].messages = messages] = WithTopic(b, t, [o EXCEPT !.messages = messages])
  BY DEF WithTopic, Shape, BusRec
<1>4. [b EXCEPT !.topics[t].messages = messages, !.topics[t].head = head]
        = WithTopic(b, t, [[o EXCEPT !.messages = messages] EXCEPT !.head = head])
  BY DEF WithTopic, Shape, BusRec
<1>5. QED
  BY <1>1, <1>2, <1>3, <1>4 DEF SetMessages, SetTrimmed

(* Retention without a limit above zero only lets old messages go.         *)
LEMMA TrimToNothing ==
    ASSUME NEW b, Sound(b), NEW t \in Topics, b.topics[t].exists, MaxRetained = 0,
           NEW r, r = WithTopic(b, t, Trimmed(b.topics[t], b.topics[t].head, Young(b, t)))
    PROVE  Sound(r) /\ r.log = b.log
<1> DEFINE old == b.topics[t]
           young == Young(b, t)
           v == Trimmed(old, old.head, young)
<1>0. /\ Shape(b) /\ TopicOK(old) /\ old.head \in Nat /\ TopicOf(old, b.log[t]) /\ LogOf(t, b.log[t], b.keys, b.now)
      /\ RetentionLegal => RetainedOf(old, b.log[t])
  BY DEF Sound, Shape, TopicOK
<1>1. IsSeq(young) /\ \A i \in 1..Len(young) : \E j \in 1..Len(b.log[t]) : young[i] = b.log[t][j]
  <2>1. CASE MaxAge = Nil
    BY <2>1, <1>0 DEF Young, TopicOf
  <2>2. CASE MaxAge # Nil
    <3>1. IsSeq(old.messages) /\ \A i \in 1..Len(old.messages) : \E j \in 1..Len(b.log[t]) : old.messages[i] = b.log[t][j]
      BY <1>0 DEF TopicOf
    <3> DEFINE places == YoungPlaces(b, t)
               messages == old.messages
    <3>2. places \in SUBSET (1..Len(messages))
      BY <3>1, SeqFacts DEF YoungPlaces
    <3>3. young = Only(messages, places) /\ IsSeq(messages)
      BY <2>2, <3>1 DEF Young
    <3> HIDE DEF young, messages, places
    <3>4. IsSeq(young) /\ \A i \in 1..Len(young) : \E j \in 1..Len(messages) : young[i] = messages[j]
      BY <3>2, <3>3, YoungFrom
    <3>6. \A i \in 1..Len(messages) : \E j \in 1..Len(b.log[t]) : messages[i] = b.log[t][j]
      BY <3>1 DEF messages
    <3>5. QED
      BY <3>4, <3>6
  <2>3. QED
    BY <2>1, <2>2
<1>2. RetentionLegal => young = old.messages
  BY DEF RetentionLegal, Young
<1>3. v = Trimmed(old, old.head, young) /\ r = WithTopic(b, t, v)
  OBVIOUS
<1>o. old = b.topics[t] /\ old.exists
  OBVIOUS
<1> HIDE DEF v, young, old
<1>4. TopicOK(v) /\ v.exists = old.exists /\ v.head = old.head /\ v.next = old.next /\ v.messages = young
  BY <1>0, <1>3, TrimmedOK
<1>5. /\ Shape(r) /\ r.topics[t] = v /\ \A u \in Topics : u # t => r.topics[u] = b.topics[u]
      /\ r.subs = b.subs /\ r.keys = b.keys /\ r.now = b.now /\ r.events = b.events /\ r.cursor = b.cursor /\ r.log = b.log
  BY <1>0, <1>3, <1>4, WithTopicShape
<1>6. TopicOf(v, b.log[t])
  BY <1>0, <1>1, <1>4, <1>o DEF TopicOf
<1>7. RetentionLegal => RetainedOf(v, b.log[t])
  BY <1>0, <1>2, <1>4 DEF RetainedOf
<1>8. Sound(r)
  BY <1>0, <1>4, <1>5, <1>6, <1>7, <1>o, TopicChanged
<1>9. QED
  BY <1>5, <1>8

(* A new head: the subscriptions it leaves behind get a gap, and the status shows every cursor of the topic.  *)
Behind(b, t, left) ==
    [x \in Pairs |-> IF x[1] = t /\ x[2] \in left THEN [b.subs[x] EXCEPT !.gap = TRUE] ELSE b.subs[x]]

WithSubs(b, subs) == [b EXCEPT !.subs = subs]

\* Only the subscriptions left behind are marked, with a gap.
LEMMA BehindFacts ==
    ASSUME NEW b, Shape(b), NEW t, NEW left, NEW x \in Pairs
    PROVE  /\ Behind(b, t, left) \in [Pairs -> SubRec]
           /\ Behind(b, t, left)[x].exists = b.subs[x].exists /\ Behind(b, t, left)[x].closed = b.subs[x].closed
           /\ Behind(b, t, left)[x].next = b.subs[x].next
           /\ x[1] = t /\ x[2] \in left => Behind(b, t, left)[x].gap
           /\ ~(x[1] = t /\ x[2] \in left) => Behind(b, t, left)[x] = b.subs[x]
<1>1. ASSUME NEW s \in SubRec
      PROVE  /\ [s EXCEPT !.gap = TRUE] \in SubRec /\ [s EXCEPT !.gap = TRUE].gap = TRUE
             /\ [s EXCEPT !.gap = TRUE].exists = s.exists
             /\ [s EXCEPT !.gap = TRUE].closed = s.closed /\ [s EXCEPT !.gap = TRUE].next = s.next
  <2> DEFINE yes == TRUE
  <2>0. yes \in BOOLEAN
    OBVIOUS
  <2> HIDE DEF yes
  <2>1. /\ [s EXCEPT !.gap = yes] \in SubRec /\ [s EXCEPT !.gap = yes].gap = yes
        /\ [s EXCEPT !.gap = yes].exists = s.exists
        /\ [s EXCEPT !.gap = yes].closed = s.closed /\ [s EXCEPT !.gap = yes].next = s.next
    BY <2>0 DEF SubRec
  <2>2. QED
    BY <2>1, Zenon DEF yes
<1>2. \A y \in Pairs : b.subs[y] \in SubRec
  BY DEF Shape
<1>3. \A y \in Pairs : (IF y[1] = t /\ y[2] \in left THEN [b.subs[y] EXCEPT !.gap = TRUE] ELSE b.subs[y]) \in SubRec
  BY <1>1, <1>2
<1>4. Behind(b, t, left) \in [Pairs -> SubRec]
  BY <1>3 DEF Behind
<1>5. Behind(b, t, left)[x] = IF x[1] = t /\ x[2] \in left THEN [b.subs[x] EXCEPT !.gap = TRUE] ELSE b.subs[x]
  BY DEF Behind
<1>6. CASE x[1] = t /\ x[2] \in left
  <2>1. Behind(b, t, left)[x] = [b.subs[x] EXCEPT !.gap = TRUE]
    BY <1>5, <1>6
  <2>2. QED
    BY <2>1, <1>1, <1>2, <1>4, <1>6
<1>7. CASE ~(x[1] = t /\ x[2] \in left)
  BY <1>5, <1>7, <1>4
<1>8. QED
  BY <1>6, <1>7

\* A new head with those behind it marked keeps the bus sound, and every cursor is told of.
LEMMA NewHeadSound ==
    ASSUME NEW b, Sound(b), NEW t \in Topics, NEW v, TopicOK(v), v.exists, v.head >= b.topics[t].head, v.next = b.topics[t].next,
           TopicOf(v, b.log[t]), RetentionLegal => RetainedOf(v, b.log[t]),
           NEW left, left = LeftBehind(b, t, v.head),
           NEW q, q = WithSubs(WithTopic(b, t, v), Behind(b, t, left)),
           NEW r, r = Status(q, "RetentionTrimmed", t, Nil)
    PROVE  Sound(r) /\ r.log = b.log
<1> DEFINE p == WithTopic(b, t, v)
           subs == Behind(b, t, left)
           event == [kind |-> "RetentionTrimmed", topic |-> t, sub |-> Nil]
<1>0. Shape(b)
  BY DEF Sound
<1>1. subs \in [Pairs -> SubRec]
  <2>1. CASE Pairs = {}
    BY <2>1 DEF Behind
  <2>2. CASE Pairs # {}
    BY <2>2, <1>0, BehindFacts
  <2>3. QED
    BY <2>1, <2>2
<1>2. \A x \in Pairs : /\ subs[x].exists = b.subs[x].exists /\ subs[x].closed = b.subs[x].closed
                       /\ subs[x].next = b.subs[x].next
                       /\ (x[1] = t /\ x[2] \in left => subs[x].gap)
                       /\ (~(x[1] = t /\ x[2] \in left) => subs[x] = b.subs[x])
  BY <1>0, BehindFacts
<1>3. p = WithTopic(b, t, v) /\ q = WithSubs(p, subs)
  OBVIOUS
<1>m. \A x \in Pairs : x[1] = t => Moves(event, x)
  BY DEF Moves
<1> HIDE DEF p, subs, event
<1>4. /\ Shape(p) /\ p.topics[t] = v /\ \A u \in Topics : u # t => p.topics[u] = b.topics[u]
      /\ p.subs = b.subs /\ p.keys = b.keys /\ p.now = b.now /\ p.events = b.events /\ p.cursor = b.cursor /\ p.log = b.log
  BY <1>0, <1>3, WithTopicShape
<1>5. /\ q.topics = p.topics /\ q.subs = subs /\ q.ids = p.ids /\ q.keys = p.keys /\ q.dead = p.dead
      /\ q.strict = p.strict /\ q.now = p.now /\ q.events = p.events /\ q.cursor = p.cursor /\ q.log = p.log
      /\ q = BusRec(q.topics, q.subs, q.ids, q.keys, q.dead, q.strict, q.now, q.events, q.cursor, q.log)
  BY <1>3, <1>4, SetSubs DEF WithSubs
<1>6. Shape(q)
  BY <1>1, <1>4, <1>5 DEF Shape
<1>7. r = Emitting(q, event)
  BY <1>6, StatusIs DEF event
<1>8. /\ Like(q, r) /\ r.topics = q.topics
      /\ Len(r.events) = Len(q.events) + 1 /\ Len(r.events) \in Nat /\ r.events[Len(r.events)] = event
  BY <1>6, <1>7, StatusSays
<1>9. Shape(r) /\ Len(b.events) \in Nat
  BY <1>0, <1>8, SeqFacts DEF Like, Shape
<1>10. /\ r.topics = p.topics /\ r.subs = subs /\ r.keys = b.keys /\ r.now = b.now /\ r.cursor = b.cursor
       /\ r.log = b.log /\ \A i \in 1..Len(b.events) : r.events[i] = b.events[i]
  BY <1>4, <1>5, <1>8 DEF Like
<1>11. ASSUME NEW y \in Pairs PROVE ToldOf(r, y)
  <2>1. CASE y[1] = t
    <3>1. Len(r.events) \in 1..Len(r.events) /\ Moves(r.events[Len(r.events)], y)
      BY <2>1, <1>4, <1>5, <1>8, <1>9, <1>m
    <3>2. QED
      BY <3>1 DEF ToldOf
  <2>2. CASE y[1] # t
    <3>0. y[1] \in Topics
      BY PairFacts
    <3>1. ToldOf(b, y)
      BY DEF Sound
    <3>2. CursorSnapshot(r, y) = CursorSnapshot(b, y) /\ r.subs[y] = b.subs[y] /\ r.cursor[y] = b.cursor[y]
      BY <2>2, <3>0, <1>2, <1>4, <1>10 DEF CursorSnapshot
    <3>3. \A i \in 1..Len(b.events) : i \in 1..Len(r.events) /\ r.events[i] = b.events[i]
      BY <1>4, <1>5, <1>8, <1>9, <1>10
    <3>4. QED
      BY <3>1, <3>2, <3>3 DEF ToldOf
  <2>3. QED
    BY <2>1, <2>2
<1>12. ASSUME NEW u \in Topics
       PROVE  /\ LogOf(u, r.log[u], r.keys, r.now) /\ TopicOf(r.topics[u], r.log[u])
              /\ RetentionLegal => RetainedOf(r.topics[u], r.log[u])
  <2>1. LogOf(u, r.log[u], r.keys, r.now)
    BY <1>10 DEF Sound
  <2>2. CASE u = t
    BY <2>1, <2>2, <1>4, <1>10
  <2>3. CASE u # t
    BY <2>1, <2>3, <1>4, <1>10 DEF Sound
  <2>4. QED
    BY <2>2, <2>3
<1>13. ASSUME RetentionLegal, NEW y \in Pairs PROVE GapOf(r.subs[y], r.topics[y[1]].head)
  <2>0. /\ y[1] \in Topics /\ y[2] \in Subs /\ y = <<y[1], y[2]>> /\ b.subs[y] \in SubRec
        /\ GapOf(b.subs[y], b.topics[y[1]].head)
    BY <1>0, <1>13, PairFacts DEF Sound, Shape
  <2>1. CASE y[1] # t
    BY <2>0, <2>1, <1>2, <1>4, <1>10
  <2>2. CASE y[1] = t
    <3>1. r.topics[y[1]].head = v.head /\ v.head \in Nat /\ b.topics[t].head \in Nat /\ b.subs[y].next \in Nat
      BY <2>0, <2>2, <1>0, <1>4, <1>10 DEF TopicOK, SubRec, Shape
    <3>2. y[2] \in left <=> b.subs[y].exists /\ ~b.subs[y].closed /\ ~b.subs[y].gap /\ b.subs[y].next < v.head
      BY <2>0, <2>2 DEF LeftBehind
    <3>3. CASE y[2] \in left
      <4>1. subs[y].gap /\ subs[y].next < v.head
        BY <2>2, <3>2, <3>3, <1>2
      <4>2. QED
        BY <4>1, <3>1, <1>10 DEF GapOf
    <3>4. CASE y[2] \notin left
      <4>1. subs[y] = b.subs[y]
        BY <3>4, <1>2
      <4>2. GapOf(b.subs[y], v.head)
        <5>1. CASE b.subs[y].gap
          BY <5>1, <3>1, <2>0, <2>2 DEF GapOf
        <5>2. CASE ~b.subs[y].gap
          BY <5>2, <3>1, <3>2, <3>4 DEF GapOf
        <5>3. QED
          BY <5>1, <5>2
      <4>3. QED
        BY <4>1, <4>2, <3>1, <1>10
    <3>5. QED
      BY <3>3, <3>4
  <2>3. QED
    BY <2>1, <2>2
<1>14. QED
  BY <1>9, <1>10, <1>11, <1>12, <1>13 DEF Sound

(* trim_retention, in its three ways out.                                  *)
LEMMA TrimIs ==
    ASSUME NEW b, Shape(b), NEW t \in Topics, NEW kept, kept = KeptBy(b, t), NEW head, head = HeadBy(b, t),
           NEW left, left = LeftBehind(b, t, head),
           NEW trimmed, trimmed = WithTopic(b, t, Trimmed(b.topics[t], head, kept))
    PROVE  TrimRetention(b, t) =
             IF MaxRetained = 0
             THEN Issue(WithTopic(b, t, Trimmed(b.topics[t], b.topics[t].head, Young(b, t))), "policy-rejected", Nil)
             ELSE IF head = b.topics[t].head THEN trimmed
             ELSE Issues(Status(WithSubs(trimmed, Behind(b, t, left)), "RetentionTrimmed", t, Nil), "retention-gap", Cardinality(left))
<1> DEFINE young == Young(b, t)
<1>1. /\ [b EXCEPT !.topics[t].messages = young] = WithTopic(b, t, Trimmed(b.topics[t], b.topics[t].head, young))
      /\ [b EXCEPT !.topics[t].messages = kept, !.topics[t].head = head] = trimmed
  <2> HIDE DEF young
  <2>1. [b EXCEPT !.topics[t].messages = young] = WithTopic(b, t, Trimmed(b.topics[t], b.topics[t].head, young))
    <3>1. SetMessages(b, t, young) = WithTopic(b, t, Trimmed(b.topics[t], b.topics[t].head, young))
      BY TrimWrites
    <3>2. QED
      BY <3>1, Zenon DEF SetMessages
  <2>2. [b EXCEPT !.topics[t].messages = kept, !.topics[t].head = head] = WithTopic(b, t, Trimmed(b.topics[t], head, kept))
    <3>1. SetTrimmed(b, t, head, kept) = WithTopic(b, t, Trimmed(b.topics[t], head, kept))
      BY TrimWrites
    <3>2. QED
      BY <3>1, Zenon DEF SetTrimmed
  <2>3. QED
    BY <2>1, <2>2, Zenon
<1>2. young = IF MaxAge = Nil THEN b.topics[t].messages
              ELSE Only(b.topics[t].messages, {i \in DOMAIN b.topics[t].messages : b.now - b.topics[t].messages[i].at <= MaxAge})
  BY DEF Young, YoungPlaces
<1>3. kept = SubSeq(young, (IF MaxRetained = Nil \/ Len(young) <= MaxRetained THEN 0 ELSE Len(young) - MaxRetained) + 1, Len(young))
  BY DEF KeptBy, Excess
<1>4. head = IF kept = <<>> THEN b.topics[t].next ELSE kept[1].seq
  BY DEF HeadBy
<1> HIDE DEF young
<1>5. TrimRetention(b, t) =
        IF MaxRetained = 0 THEN Issue([b EXCEPT !.topics[t].messages = young], "policy-rejected", Nil)
        ELSE IF head = b.topics[t].head THEN [b EXCEPT !.topics[t].messages = kept, !.topics[t].head = head]
        ELSE Issues(Status(WithSubs([b EXCEPT !.topics[t].messages = kept, !.topics[t].head = head], Behind(b, t, left)),
                           "RetentionTrimmed", t, Nil), "retention-gap", Cardinality(left))
  <2> DEFINE yy == IF MaxAge = Nil THEN b.topics[t].messages
              ELSE Only(b.topics[t].messages, {i \in DOMAIN b.topics[t].messages : b.now - b.topics[t].messages[i].at <= MaxAge})
             ee == IF MaxRetained = Nil \/ Len(yy) <= MaxRetained THEN 0 ELSE Len(yy) - MaxRetained
             kk == SubSeq(yy, ee + 1, Len(yy))
             hh == IF kk = <<>> THEN b.topics[t].next ELSE kk[1].seq
             ll == LeftBehind(b, t, hh)
             tt == [b EXCEPT !.topics[t].messages = kk, !.topics[t].head = hh]
             gg == [tt EXCEPT !.subs = [x \in Topics \X Subs |->
                      IF x[1] = t /\ x[2] \in ll THEN [b.subs[x] EXCEPT !.gap = TRUE] ELSE b.subs[x]]]
  <2>1. TrimRetention(b, t) =
          IF MaxRetained = 0 THEN Issue([b EXCEPT !.topics[t].messages = yy], "policy-rejected", Nil)
          ELSE IF hh = b.topics[t].head THEN tt
          ELSE Issues(Status(gg, "RetentionTrimmed", t, Nil), "retention-gap", Cardinality(ll))
    BY Zenon DEF TrimRetention
  <2>2. young = yy
    BY <1>2
  <2>3. kept = kk
    <3> HIDE DEF yy
    <3>1. QED
      BY <1>3, <2>2
  <2>4. head = hh
    <3> HIDE DEF kk
    <3>1. QED
      BY <1>4, <2>3
  <2>5. left = ll
    <3> HIDE DEF hh
    <3>1. QED
      BY <2>4
  <2>6. tt = [b EXCEPT !.topics[t].messages = kept, !.topics[t].head = head]
    <3> HIDE DEF hh, kk
    <3>1. QED
      BY <2>3, <2>4, Zenon
  <2>7. gg = WithSubs(tt, Behind(b, t, left))
    <3> HIDE DEF tt, ll
    <3>1. QED
      BY <2>5, Zenon DEF WithSubs, Behind, Pairs
  <2> HIDE DEF yy, ee, kk, hh, ll, tt, gg
  <2>8. QED
    BY <2>1, <2>2, <2>4, <2>5, <2>6, <2>7, Zenon
<1>6. QED
  BY <1>1, <1>5 DEF young

\* trim_retention keeps the bus sound in each of its branches.
LEMMA TrimSound ==
    ASSUME NEW b, Sound(b), NEW t \in Topics, b.topics[t].exists, NEW r, r = TrimRetention(b, t)
    PROVE  Sound(r) /\ r.log = b.log
<1> DEFINE old == b.topics[t]
           kept == KeptBy(b, t)
           head == HeadBy(b, t)
           left == LeftBehind(b, t, head)
           v == Trimmed(old, head, kept)
           trimmed == WithTopic(b, t, v)
           q == WithSubs(trimmed, Behind(b, t, left))
           said == Status(q, "RetentionTrimmed", t, Nil)
<1>0. /\ Shape(b) /\ TopicOK(old) /\ old.next \in Nat /\ old.next = Len(b.log[t]) + 1
      /\ LogOf(t, b.log[t], b.keys, b.now) /\ old.exists
  BY DEF Sound, Shape, TopicOK, TopicOf
<1>1. r = IF MaxRetained = 0
          THEN Issue(WithTopic(b, t, Trimmed(b.topics[t], b.topics[t].head, Young(b, t))), "policy-rejected", Nil)
          ELSE IF head = b.topics[t].head THEN trimmed ELSE Issues(said, "retention-gap", Cardinality(left))
  BY <1>0, TrimIs
<1>2. CASE MaxRetained = 0
  <2> DEFINE p == WithTopic(b, t, Trimmed(b.topics[t], b.topics[t].head, Young(b, t)))
  <2>1. Sound(p) /\ p.log = b.log
    BY <1>2, TrimToNothing
  <2>2. r = Issue(p, "policy-rejected", Nil)
    BY <1>1, <1>2
  <2> HIDE DEF p
  <2>3. Shape(p)
    BY <2>1 DEF Sound
  <2>4. Like(p, r)
    BY <2>2, <2>3, IssueLike
  <2>5. QED
    BY <2>1, <2>4, LikeSound DEF Like
<1>3. CASE MaxRetained # 0
  <2>1. RetentionLegal
    BY <1>3 DEF RetentionLegal
  <2>2. /\ IsSeq(kept) /\ head \in 1..old.next /\ head >= old.head /\ Len(kept) = old.next - head
        /\ \A i \in 1..Len(kept) : kept[i] = b.log[t][head + i - 1]
        /\ \A i \in 1..Len(kept) : \E j \in 1..Len(b.log[t]) : kept[i] = b.log[t][j]
    BY <2>1, HeadFacts
  <2>3. left = LeftBehind(b, t, head) /\ v = Trimmed(old, head, kept) /\ trimmed = WithTopic(b, t, v) /\ old = b.topics[t]
        /\ q = WithSubs(trimmed, Behind(b, t, left)) /\ said = Status(q, "RetentionTrimmed", t, Nil)
    OBVIOUS
  <2>n. Cardinality(left) \in Nat
    <3>1. IsFiniteSet(left)
      BY MessageBusAssumption, FS_Subset DEF LeftBehind
    <3>2. QED
      BY <3>1, FS_CardinalityType
  <2> HIDE DEF old, kept, head, left, v, trimmed, q, said
  <2>4. head \in Nat
    BY <2>2, <1>0
  <2>v. v = Trimmed(old, head, kept) /\ TopicOK(old)
    BY <2>3, <1>0
  <2>5. TopicOK(v) /\ v.exists = old.exists /\ v.head = head /\ v.next = old.next /\ v.messages = kept
    BY <2>v, <2>4, TrimmedOK
  <2>6. TopicOf(v, b.log[t])
    BY <1>0, <2>2, <2>5 DEF TopicOf
  <2>7. RetainedOf(v, b.log[t])
    BY <2>2, <2>5 DEF RetainedOf
  <2>8. CASE head = old.head
    <3>1. r = trimmed
      BY <1>1, <1>3, <2>3, <2>8
    <3>2. /\ Shape(r) /\ r.topics[t] = v /\ \A u \in Topics : u # t => r.topics[u] = b.topics[u]
          /\ r.subs = b.subs /\ r.keys = b.keys /\ r.now = b.now /\ r.events = b.events /\ r.cursor = b.cursor
          /\ r.log = b.log
      BY <1>0, <2>3, <2>5, <3>1, WithTopicShape
    <3>3. QED
      BY <1>0, <2>3, <2>5, <2>6, <2>7, <2>8, <3>2, TopicChanged
  <2>9. CASE head # old.head
    <3>1. r = Issues(said, "retention-gap", Cardinality(left))
      BY <1>1, <1>3, <2>3, <2>9
    <3>2. Sound(said) /\ said.log = b.log
      <4>1. v.exists /\ v.head >= b.topics[t].head /\ v.next = b.topics[t].next /\ left = LeftBehind(b, t, v.head)
        BY <1>0, <2>2, <2>3, <2>5
      <4>2. q = WithSubs(WithTopic(b, t, v), Behind(b, t, left))
        BY <2>3
      <4>3. QED
        BY <4>1, <4>2, <2>3, <2>5, <2>6, <2>7, NewHeadSound
    <3>3. Shape(said)
      BY <3>2 DEF Sound
    <3>4. Like(said, r)
      BY <2>n, <3>1, <3>3, IssuesLike
    <3>5. QED
      BY <3>2, <3>4, LikeSound DEF Like
  <2>10. QED
    BY <2>8, <2>9
<1>4. QED
  BY <1>2, <1>3

-----------------------------------------------------------------------------
(* Publishing                                                              *)

\* One more message, with the next number, the time of now and a new key.
LEMMA LogGrows ==
    ASSUME NEW t, NEW log, NEW keys, NEW now \in Nat, LogOf(t, log, keys, now),
           NEW m, m.seq = Len(log) + 1, m.at = now, NEW new, keys \subseteq new,
           m.key # Nil => <<t, m.key>> \notin keys /\ <<t, m.key>> \in new
    PROVE  LogOf(t, Append(log, m), new, now)
<1> DEFINE more == Append(log, m)
           n == Len(log)
<1>0. IsSeq(log)
  BY DEF LogOf
<1>1. IsSeq(more) /\ Len(more) = n + 1 /\ n \in Nat /\ more[n + 1] = m /\ \A i \in 1..n : more[i] = log[i]
  BY <1>0, AppendFacts, SeqFacts
<1>2. /\ \A i \in 1..n : log[i].seq = i /\ log[i].at \in Nat /\ log[i].at <= now
      /\ \A i, j \in 1..n : i <= j => log[i].at <= log[j].at
      /\ \A i \in 1..n : log[i].key # Nil => <<t, log[i].key>> \in keys
      /\ \A i, j \in 1..n : i # j /\ log[i].key # Nil => log[i].key # log[j].key
  BY DEF LogOf
<1>m. m.seq = n + 1
  OBVIOUS
<1> HIDE DEF more, n
<1>3. \A i \in 1..(n + 1) : i \in 1..n \/ i = n + 1
  BY <1>1
<1>4. ASSUME NEW i \in 1..(n + 1) PROVE more[i].seq = i /\ more[i].at \in Nat /\ more[i].at <= now
  <2>1. CASE i \in 1..n
    BY <2>1, <1>1, <1>2
  <2>2. CASE i = n + 1
    BY <2>2, <1>1, <1>m
  <2>3. QED
    BY <2>1, <2>2, <1>3
<1>5. ASSUME NEW i \in 1..(n + 1), NEW j \in 1..(n + 1), i <= j PROVE more[i].at <= more[j].at
  <2>1. CASE j \in 1..n
    <3>1. i \in 1..n
      BY <2>1, <1>1, <1>5
    <3>2. QED
      BY <3>1, <2>1, <1>1, <1>2, <1>5
  <2>2. CASE j = n + 1
    BY <2>2, <1>1, <1>4
  <2>3. QED
    BY <2>1, <2>2, <1>3
<1>6. ASSUME NEW i \in 1..(n + 1), more[i].key # Nil PROVE <<t, more[i].key>> \in new
  <2>1. CASE i \in 1..n
    BY <2>1, <1>1, <1>2, <1>6
  <2>2. CASE i = n + 1
    BY <2>2, <1>1, <1>6
  <2>3. QED
    BY <2>1, <2>2, <1>3
<1>7. ASSUME NEW i \in 1..(n + 1), NEW j \in 1..(n + 1), i # j, more[i].key # Nil PROVE more[i].key # more[j].key
  <2>1. CASE i \in 1..n /\ j \in 1..n
    BY <2>1, <1>1, <1>2, <1>7
  <2>2. CASE i \in 1..n /\ j = n + 1
    <3>1. <<t, more[i].key>> \in keys
      BY <2>2, <1>1, <1>2, <1>7
    <3>2. QED
      BY <3>1, <2>2, <1>1, <1>7
  <2>3. CASE i = n + 1 /\ j \in 1..n
    <3>1. <<t, more[i].key>> \notin keys
      BY <2>3, <1>1, <1>7
    <3>2. more[j].key # Nil => <<t, more[j].key>> \in keys
      BY <2>3, <1>1, <1>2
    <3>3. QED
      BY <3>1, <3>2, <1>7
  <2>4. QED
    BY <2>1, <2>2, <2>3, <1>3, <1>7
<1>8. LogOf(t, more, new, now)
  BY <1>1, <1>4, <1>5, <1>6, <1>7 DEF LogOf
<1>9. QED
  BY <1>8 DEF more

(* A message at the end of a topic and of its log.                         *)
Longer(topic, m) == TopicRec(topic.exists, topic.closed, topic.head, topic.next + 1, Append(topic.messages, m))
Added(b, t, m, keys) ==
    BusRec([b.topics EXCEPT ![t] = Longer(b.topics[t], m)], b.subs, b.ids, keys, b.dead, b.strict, b.now, b.events,
           b.cursor, [b.log EXCEPT ![t] = Append(b.log[t], m)])

\* An idempotency key is taken that was free.
KeyTaken(t, key, old, new) == old \subseteq new /\ (key # Nil => <<t, key>> \notin old /\ <<t, key>> \in new)

\* Putting the message into the topic keeps the bus sound.
LEMMA AddedSound ==
    ASSUME NEW b, Sound(b), NEW t \in Topics, b.topics[t].exists, NEW m, m.seq = b.topics[t].next, m.at = b.now,
           NEW keys, KeyTaken(t, m.key, b.keys, keys), NEW r, r = Added(b, t, m, keys)
    PROVE  /\ Sound(r) /\ r.topics[t].exists /\ r.log[t] = Append(b.log[t], m)
           /\ \A u \in Topics : u # t => r.log[u] = b.log[u]
<1> DEFINE old == b.topics[t]
           v == Longer(old, m)
           topics == [b.topics EXCEPT ![t] = v]
           log == [b.log EXCEPT ![t] = Append(b.log[t], m)]
           messages == Append(old.messages, m)
           more == Append(b.log[t], m)
<1>0. /\ Shape(b) /\ TopicOK(old) /\ old.next \in Nat /\ old.head \in Nat /\ TopicOf(old, b.log[t])
      /\ LogOf(t, b.log[t], b.keys, b.now) /\ (RetentionLegal => RetainedOf(old, b.log[t])) /\ old.exists /\ b.now \in Nat
  BY DEF Sound, Shape, TopicOK
<1>1. topics[t] = v /\ (\A u \in Topics : u # t => topics[u] = b.topics[u]) /\ topics = [u \in Topics |-> topics[u]]
  BY <1>0 DEF Shape
<1>2. log[t] = more /\ (\A u \in Topics : u # t => log[u] = b.log[u]) /\ log = [u \in Topics |-> log[u]]
  BY <1>0 DEF Shape
<1>3. /\ v = TopicRec(old.exists, old.closed, old.head, old.next + 1, messages)
      /\ r = BusRec(topics, b.subs, b.ids, keys, b.dead, b.strict, b.now, b.events, b.cursor, log)
  BY DEF Added, Longer
<1>4. m.seq = Len(b.log[t]) + 1
  BY <1>0 DEF TopicOf
<1>5. LogOf(t, more, keys, b.now)
  <2>1. b.keys \subseteq keys /\ (m.key # Nil => <<t, m.key>> \notin b.keys /\ <<t, m.key>> \in keys)
    BY DEF KeyTaken
  <2>2. QED
    BY <2>1, <1>0, <1>4, LogGrows
<1>6. IsSeq(old.messages) /\ IsSeq(b.log[t])
  BY <1>0 DEF TopicOf, LogOf
<1>7. /\ IsSeq(messages) /\ Len(messages) = Len(old.messages) + 1 /\ messages[Len(old.messages) + 1] = m
      /\ \A i \in 1..Len(old.messages) : messages[i] = old.messages[i]
  BY <1>6, AppendFacts
<1>8. /\ IsSeq(more) /\ Len(more) = Len(b.log[t]) + 1 /\ more[Len(b.log[t]) + 1] = m
      /\ \A i \in 1..Len(b.log[t]) : more[i] = b.log[t][i]
  BY <1>6, AppendFacts
<1>l. Len(old.messages) \in Nat /\ Len(b.log[t]) \in Nat
  BY <1>6, SeqFacts
<1>o. old = b.topics[t]
  OBVIOUS
<1> HIDE DEF old, v, topics, log, messages, more
<1>9. /\ v.exists = old.exists /\ v.closed = old.closed /\ v.head = old.head /\ v.next = old.next + 1
      /\ v.messages = messages
  BY <1>3 DEF TopicRec
<1>10. TopicOK(v)
  <2>1. v = TopicRec(v.exists, v.closed, v.head, v.next, v.messages)
    BY <1>3, <1>9, Zenon
  <2>2. old.exists \in BOOLEAN /\ old.closed \in BOOLEAN
    BY <1>0 DEF TopicOK
  <2>3. v.exists \in BOOLEAN /\ v.closed \in BOOLEAN
    BY <2>2, <1>9, Zenon
  <2>4. v.head \in Nat /\ v.next \in Nat
    BY <1>0, <1>9
  <2>5. QED
    BY <2>1, <2>3, <2>4, Zenon DEF TopicOK
<1>11. /\ r.topics = topics /\ r.subs = b.subs /\ r.keys = keys /\ r.dead = b.dead
       /\ r.now = b.now /\ r.events = b.events /\ r.cursor = b.cursor /\ r.log = log
       /\ r = BusRec(r.topics, r.subs, r.ids, r.keys, r.dead, r.strict, r.now, r.events, r.cursor, r.log)
  BY <1>3, RecFields
<1>12. \A u \in Topics : TopicOK(topics[u])
  BY <1>0, <1>1, <1>10 DEF Shape
<1>13. Shape(r)
  BY <1>0, <1>1, <1>2, <1>11, <1>12 DEF Shape
<1>14. TopicOf(v, more)
  <2>1. v.next = Len(more) + 1
    BY <1>0, <1>8, <1>9 DEF TopicOf
  <2>2. ASSUME NEW i \in 1..Len(messages) PROVE \E j \in 1..Len(more) : messages[i] = more[j]
    <3>1. CASE i = Len(old.messages) + 1
      <4>1. Len(b.log[t]) + 1 \in 1..Len(more)
        BY <1>8, <1>l
      <4>2. QED
        BY <3>1, <4>1, <1>7, <1>8
    <3>2. CASE i # Len(old.messages) + 1
      <4>1. i \in 1..Len(old.messages)
        BY <3>2, <1>7, <1>l
      <4>2. PICK j \in 1..Len(b.log[t]) : old.messages[i] = b.log[t][j]
        BY <4>1, <1>0 DEF TopicOf
      <4>3. j \in 1..Len(more) /\ more[j] = b.log[t][j]
        BY <1>8, <1>l
      <4>4. QED
        BY <4>1, <4>2, <4>3, <1>7
    <3>3. QED
      BY <3>1, <3>2
  <2>3. QED
    BY <2>1, <2>2, <1>0, <1>7, <1>9 DEF TopicOf
<1>15. ASSUME RetentionLegal PROVE RetainedOf(v, more)
  <2>1. /\ old.head \in 1..old.next /\ Len(old.messages) = old.next - old.head /\ old.next = Len(b.log[t]) + 1
        /\ \A i \in 1..Len(old.messages) : old.messages[i] = b.log[t][old.head + i - 1]
    BY <1>0, <1>15 DEF RetainedOf, TopicOf
  <2>2. v.head \in 1..v.next /\ Len(messages) = v.next - v.head
    BY <2>1, <1>0, <1>7, <1>9
  <2>3. ASSUME NEW i \in 1..Len(messages) PROVE messages[i] = more[v.head + i - 1]
    <3>1. CASE i = Len(old.messages) + 1
      <4>1. v.head + i - 1 = Len(b.log[t]) + 1
        BY SMTT(30), <3>1, <2>1, <1>0, <1>9, <1>l
      <4>2. QED
        BY <3>1, <4>1, <1>7, <1>8
    <3>2. CASE i # Len(old.messages) + 1
      <4>1. i \in 1..Len(old.messages)
        BY <3>2, <1>7, <1>l
      <4>2. old.head + i - 1 \in 1..Len(b.log[t])
        BY SMTT(30), <4>1, <2>1, <1>0, <1>l
      <4>3. QED
        BY ZenonT(30), <4>1, <4>2, <2>1, <1>7, <1>8, <1>9
    <3>3. QED
      BY <3>1, <3>2
  <2>4. QED
    BY <2>2, <2>3, <1>9 DEF RetainedOf
<1>16. Sound(r)
  <2>1. r.topics[t] = v /\ r.log[t] = more /\ \A u \in Topics : u # t => r.topics[u] = b.topics[u] /\ r.log[u] = b.log[u]
    BY <1>1, <1>2, <1>11
  <2>2. QED
    BY <2>1, <1>5, <1>9, <1>11, <1>13, <1>14, <1>15, <1>o, TopicChanged DEF KeyTaken
<1>17. QED
  BY <1>0, <1>1, <1>2, <1>9, <1>11, <1>16 DEF more

\* What a command may add to the log of a topic: nothing, or its payload at the end.
Grown(b, r, c) ==
    \A u \in Topics :
        \/ r.log[u] = b.log[u]
        \/ /\ c.op = "Publish" /\ u = c.topic /\ Len(r.log[u]) = Len(b.log[u]) + 1
           /\ \A i \in 1..Len(b.log[u]) : r.log[u][i] = b.log[u][i]
           /\ r.log[u][Len(b.log[u]) + 1].payload = c.payload

Adds(b, t, m, keys) ==
    [b EXCEPT !.topics[t].next = @ + 1, !.topics[t].messages = Append(@, m), !.keys = keys, !.log[t] = Append(@, m)]

\* How publish_message writes it.
LEMMA PublishWrites ==
    ASSUME NEW b, Shape(b), NEW t \in Topics, NEW m, NEW keys
    PROVE  Adds(b, t, m, keys) = Added(b, t, m, keys)
<1> DEFINE o == b.topics[t]
           n == o.next + 1
           messages == Append(o.messages, m)
           more == Append(b.log[t], m)
           w == [o EXCEPT !.next = n, !.messages = messages]
           topics == [b.topics EXCEPT ![t] = w]
           log == [b.log EXCEPT ![t] = more]
<1>0. TopicOK(o)
  BY DEF Shape
<1>1. w = Longer(o, m)
  <2> DEFINE p == [o EXCEPT !.next = n]
  <2>0. [o EXCEPT !.next = n, !.messages = messages] = [p EXCEPT !.messages = messages]
    OBVIOUS
  <2> HIDE DEF n, messages, o
  <2>1. p = TopicRec(o.exists, o.closed, o.head, n, o.messages)
    BY <1>0 DEF TopicOK, TopicRec
  <2> HIDE DEF p
  <2>2. [p EXCEPT !.messages = messages] = TopicRec(o.exists, o.closed, o.head, n, messages)
    BY <2>1 DEF TopicRec
  <2>3. QED
    BY <2>0, <2>2 DEF n, messages, Longer
<1>2. [b.topics EXCEPT ![t].next = @ + 1, ![t].messages = Append(@, m)] = topics
  BY DEF Shape
<1>3. [b EXCEPT !.topics[t].next = @ + 1, !.topics[t].messages = Append(@, m), !.keys = keys, !.log[t] = Append(@, m)]
        = [b EXCEPT !.topics = [b.topics EXCEPT ![t].next = @ + 1, ![t].messages = Append(@, m)], !.keys = keys, !.log = log]
  BY DEF Shape
<1>4. [b EXCEPT !.topics = topics, !.keys = keys, !.log = log]
        = BusRec(topics, b.subs, b.ids, keys, b.dead, b.strict, b.now, b.events, b.cursor, log)
  <2> DEFINE p1 == [b EXCEPT !.topics = topics]
             p2 == [p1 EXCEPT !.keys = keys]
  <2>0. [b EXCEPT !.topics = topics, !.keys = keys, !.log = log] = [p2 EXCEPT !.log = log]
    OBVIOUS
  <2> HIDE DEF topics, log
  <2>1. p1 = BusRec(topics, b.subs, b.ids, b.keys, b.dead, b.strict, b.now, b.events, b.cursor, b.log)
    BY DEF Shape, BusRec
  <2> HIDE DEF p1
  <2>2. p2 = BusRec(topics, b.subs, b.ids, keys, b.dead, b.strict, b.now, b.events, b.cursor, b.log)
    BY <2>1 DEF BusRec
  <2> HIDE DEF p2
  <2>3. [p2 EXCEPT !.log = log] = BusRec(topics, b.subs, b.ids, keys, b.dead, b.strict, b.now, b.events, b.cursor, log)
    BY <2>2 DEF BusRec
  <2>4. QED
    BY <2>0, <2>3
<1>5. QED
  BY <1>1, <1>2, <1>3, <1>4 DEF Added, Adds

\* A bus whose messages did not change has published at most the message at hand.
LEMMA LikeGrown ==
    ASSUME NEW b, NEW r, Like(b, r), NEW c
    PROVE  Grown(b, r, c)
BY DEF Like, Grown

\* publish_message, whether it refuses, publishes or then trims.
LEMMA PublishSound ==
    ASSUME NEW b, Sound(b), NEW c, c.op = "Publish", c.topic \in Topics, c.key # Nil => <<c.topic, c.key>> \notin b.keys,
           NEW r, r = PublishMessage(b, c)
    PROVE  Sound(r) /\ Grown(b, r, c)
<1> DEFINE t == c.topic
           known == b.topics[t].exists
           made == IF known THEN b ELSE EnsureTopic(b, t)
           m == [seq |-> made.topics[t].next, payload |-> c.payload, at |-> b.now, id |-> c.id, key |-> c.key]
           keys == IF c.key = Nil THEN made.keys ELSE made.keys \cup {<<t, c.key>>}
           added == Adds(made, t, m, keys)
           said == Status(added, "Message", t, Nil)
           twice == Status(said, "MessagePublished", t, Nil)
<1>0. Shape(b)
  BY DEF Sound
<1>1. CASE ~known /\ b.strict
  <2>1. r = Issue(b, "unknown-topic", c.topic)
    BY <1>1 DEF PublishMessage
  <2>2. QED
    BY <2>1, <1>0, IssueLike, LikeSound, LikeGrown
<1>2. CASE ~(~known /\ b.strict) /\ known /\ b.topics[t].closed
  <2>1. r = Issue(b, "closed-topic", c.topic)
    BY <1>2 DEF PublishMessage
  <2>2. QED
    BY <2>1, <1>0, IssueLike, LikeSound, LikeGrown
<1>3. CASE ~(~known /\ b.strict) /\ ~(known /\ b.topics[t].closed)
  <2>1. r = TrimRetention(twice, t)
    <3>1. added = [made EXCEPT !.topics[c.topic].next = @ + 1, !.topics[c.topic].messages = Append(@, m),
                               !.keys = IF c.key = Nil THEN @ ELSE @ \cup {<<c.topic, c.key>>}, !.log[c.topic] = Append(@, m)]
      BY Zenon DEF Adds
    <3>2. QED
      BY <3>1, <1>3 DEF PublishMessage
  <2>2. Like(b, made) /\ made.topics[t].exists
    <3>1. CASE known
      <4>1. Len(b.events) \in Nat
        BY <1>0, SeqFacts DEF Shape
      <4>2. made = b
        BY <3>1
      <4>3. QED
        BY <3>1, <4>1, <4>2, <1>0 DEF Like
    <3>2. CASE ~known
      <4>1. made = EnsureTopic(b, t)
        BY <3>2
      <4> HIDE DEF made
      <4>2. QED
        BY <4>1, EnsureTopicLike
    <3>3. QED
      BY <3>1, <3>2
  <2>m. m.seq = made.topics[t].next /\ m.at = b.now /\ m.key = c.key /\ m.payload = c.payload
    <3> HIDE DEF made
    <3>1. QED
      OBVIOUS
  <2>k. made.keys \subseteq keys /\ (c.key # Nil => <<t, c.key>> \in keys)
    <3> HIDE DEF made
    <3>1. QED
      OBVIOUS
  <2>t. t = c.topic /\ added = Adds(made, t, m, keys) /\ said = Status(added, "Message", t, Nil)
        /\ twice = Status(said, "MessagePublished", t, Nil)
    OBVIOUS
  <2> HIDE DEF t, made, m, keys, added, said, twice
  <2>3. Sound(made) /\ Shape(made) /\ made.keys = b.keys /\ made.now = b.now /\ made.log = b.log
    <3>1. Sound(made)
      BY <2>2, LikeSound
    <3>2. QED
      BY <3>1, <2>2 DEF Like
  <2>4. added = Added(made, t, m, keys)
    BY <2>3, <2>t, PublishWrites
  <2>5. /\ Sound(added) /\ added.topics[t].exists /\ added.log[t] = Append(b.log[t], m)
        /\ \A u \in Topics : u # t => added.log[u] = b.log[u]
    <3>1. m.at = made.now /\ KeyTaken(t, m.key, made.keys, keys)
      BY <2>3, <2>m, <2>k, <2>t DEF KeyTaken
    <3>2. /\ Sound(added) /\ added.topics[t].exists /\ added.log[t] = Append(made.log[t], m)
          /\ \A u \in Topics : u # t => added.log[u] = made.log[u]
      <4>1. t \in Topics /\ made.topics[t].exists /\ m.seq = made.topics[t].next
        BY <2>2, <2>m, <2>t
      <4>2. QED
        BY SMTT(30), <3>1, <4>1, <2>3, <2>4, AddedSound
    <3>3. QED
      BY <3>2, <2>3
  <2>6. Like(added, said) /\ said.topics = added.topics /\ Sound(said)
    <3>1. Shape(added)
      BY <2>5 DEF Sound
    <3>2. Like(added, said) /\ said.topics = added.topics
      BY <3>1, <2>t, StatusLike
    <3>3. QED
      BY <3>2, <2>5, LikeSound
  <2>7. Like(said, twice) /\ twice.topics = said.topics /\ Sound(twice)
    <3>1. Shape(said)
      BY <2>6 DEF Sound
    <3>2. Like(said, twice) /\ twice.topics = said.topics
      BY <3>1, <2>t, StatusLike
    <3>3. QED
      BY <3>2, <2>6, LikeSound
  <2>8. Sound(r) /\ r.log = twice.log
    BY <2>1, <2>5, <2>6, <2>7, <2>t, TrimSound
  <2>9. r.log = added.log
    BY <2>6, <2>7, <2>8 DEF Like
  <2>10. Grown(b, r, c)
    <3>1. IsSeq(b.log[t])
      BY <2>t DEF Sound, LogOf
    <3>2. /\ Len(Append(b.log[t], m)) = Len(b.log[t]) + 1 /\ Append(b.log[t], m)[Len(b.log[t]) + 1] = m
          /\ \A i \in 1..Len(b.log[t]) : Append(b.log[t], m)[i] = b.log[t][i]
      BY <3>1, AppendFacts
    <3>3. ASSUME NEW u \in Topics
          PROVE  \/ r.log[u] = b.log[u]
                 \/ /\ u = t /\ Len(r.log[u]) = Len(b.log[u]) + 1
                    /\ \A i \in 1..Len(b.log[u]) : r.log[u][i] = b.log[u][i]
                    /\ r.log[u][Len(b.log[u]) + 1].payload = c.payload
      BY <3>2, <2>5, <2>9, <2>m
    <3>4. QED
      BY <3>3, <2>t DEF Grown
  <2>11. QED
    BY <2>8, <2>10
<1>4. QED
  BY <1>1, <1>2, <1>3

-----------------------------------------------------------------------------
(* Every command leaves the bus sound, and shows what it changed.          *)

Ops == {"EnsureTopic", "CloseTopic", "TopicPolicy", "Publish", "Ack", "Seek", "CloseSubscription"}

\* A command names topics and subscriptions of the bus.
Proper(c) ==
    /\ c.op \in Ops
    /\ c.op # "TopicPolicy" => c.topic \in Topics
    /\ c.op \in {"Ack", "Seek", "CloseSubscription"} => c.sub \in Subs
    /\ c.op \in {"Ack", "Seek"} => c.seq \in Nat

\* Every command that passed the checks for duplicates.
LEMMA ApplySound ==
    ASSUME NEW b, Sound(b), NEW c, Proper(c), c.op = "Publish" => <<c.topic, c.key>> \notin b.keys, NEW r, r = Apply(b, c)
    PROVE  Sound(r) /\ Grown(b, r, c)
<1>0. Shape(b)
  BY DEF Sound
<1>1. ASSUME Like(b, r) PROVE Sound(r) /\ Grown(b, r, c)
  BY <1>1, LikeSound, LikeGrown
<1>2. ASSUME r.log = b.log PROVE Grown(b, r, c)
  BY <1>2 DEF Grown
<1>3. CASE c.op = "EnsureTopic"
  <2>1. r = EnsureTopic(b, c.topic) /\ c.topic \in Topics
    BY <1>3 DEF Apply, Proper
  <2>2. QED
    BY <2>1, <1>1, EnsureTopicLike
<1>4. CASE c.op = "CloseTopic"
  <2>1. r = CloseTopic(b, c.topic) /\ c.topic \in Topics
    BY <1>4 DEF Apply, Proper
  <2>2. QED
    BY <2>1, <1>1, CloseTopicLike
<1>5. CASE c.op = "TopicPolicy"
  <2>1. r = [b EXCEPT !.strict = c.payload]
    BY <1>5 DEF Apply
  <2>2. QED
    BY <2>1, <1>0, <1>1, MarkedLike
<1>6. CASE c.op = "Publish"
  <2>1. r = PublishMessage(b, c) /\ c.topic \in Topics
    BY <1>6 DEF Apply, Proper
  <2>2. QED
    BY <2>1, <1>6, PublishSound
<1>7. CASE c.op = "Ack"
  <2>1. r = AckSubscription(b, c) /\ c.topic \in Topics /\ c.sub \in Subs /\ c.seq \in Nat
    BY <1>7 DEF Apply, Proper
  <2>2. QED
    BY <2>1, <1>2, AckSound
<1>8. CASE c.op = "Seek"
  <2>1. r = SeekSubscription(b, c) /\ c.topic \in Topics /\ c.sub \in Subs /\ c.seq \in Nat
    BY <1>8 DEF Apply, Proper
  <2>2. QED
    BY <2>1, <1>2, SeekSound
<1>9. CASE c.op = "CloseSubscription"
  <2>1. r = CloseSubscription(b, c) /\ c.topic \in Topics /\ c.sub \in Subs
    BY <1>9 DEF Apply, Proper
  <2>2. QED
    BY <2>1, <1>2, CloseSound
<1>10. QED
  BY <1>3, <1>4, <1>5, <1>6, <1>7, <1>8, <1>9 DEF Proper, Ops

\* reduce_message_bus_command as a whole, after which no event is left to be told.
LEMMA ReduceSound ==
    ASSUME NEW b, Sound(b), NEW c, Proper(c), NEW r, r = Reduce(b, c)
    PROVE  Sound(r) /\ r.events = <<>> /\ Grown(b, r, c)
<1> DEFINE ids == b.ids \cup ({c.id} \ {Nil})
           marked == [b EXCEPT !.ids = ids]
<1>0. Shape(b)
  BY DEF Sound
<1>1. Like(b, marked)
  BY <1>0, MarkedLike
<1>2. Sound(marked) /\ Shape(marked) /\ marked.log = b.log /\ marked.keys = b.keys
  BY <1>1, LikeSound DEF Like
<1>3. \E q : r = Shown(q) /\ Sound(q) /\ Grown(b, q, c)
  <2>0. marked = [b EXCEPT !.ids = @ \cup ({c.id} \ {Nil})]
    BY Zenon
  <2>1. CASE c.id # Nil /\ c.id \in b.ids
    <3> DEFINE q == DuplicateCommand(b, c)
    <3>1. r = Shown(q)
      BY <2>1 DEF Reduce
    <3> HIDE DEF q
    <3>2. Sound(q) /\ Grown(b, q, c)
      BY <1>0, DuplicateLike, LikeSound, LikeGrown DEF q
    <3>3. QED
      BY <3>1, <3>2
  <2>2. CASE ~(c.id # Nil /\ c.id \in b.ids) /\ c.op = "Publish" /\ <<c.topic, c.key>> \in b.keys
    <3> DEFINE q == DuplicateCommand(marked, c)
    <3>1. r = Shown(q)
      <4> HIDE DEF marked
      <4>1. QED
        BY <2>0, <2>2 DEF Reduce
    <3> HIDE DEF q, marked
    <3>2. Sound(q) /\ Grown(marked, q, c)
      BY <1>2, DuplicateLike, LikeSound, LikeGrown DEF q
    <3>3. QED
      BY <3>1, <3>2, <1>2 DEF Grown
  <2>3. CASE ~(c.id # Nil /\ c.id \in b.ids) /\ ~(c.op = "Publish" /\ <<c.topic, c.key>> \in b.keys)
    <3> DEFINE q == Apply(marked, c)
    <3>1. r = Shown(q)
      <4> HIDE DEF marked
      <4>1. QED
        BY <2>0, <2>3 DEF Reduce
    <3>q. q = Apply(marked, c)
      OBVIOUS
    <3> HIDE DEF q, marked
    <3>2. Sound(q) /\ Grown(marked, q, c)
      BY <1>2, <2>3, <3>q, ApplySound
    <3>3. QED
      BY <3>1, <3>2, <1>2 DEF Grown
  <2>4. QED
    BY <2>1, <2>2, <2>3
<1>4. PICK q : r = Shown(q) /\ Sound(q) /\ Grown(b, q, c)
  BY <1>3
<1>5. Sound(r) /\ r.events = <<>> /\ r.log = q.log
  BY <1>4, ShownSound
<1>6. QED
  BY <1>4, <1>5 DEF Grown

(* Time passes.                                                            *)
LEMMA LaterSound ==
    ASSUME NEW b, Sound(b), NEW now \in Nat, now >= b.now, NEW r, r = [b EXCEPT !.now = now]
    PROVE  Sound(r) /\ r.log = b.log /\ r.events = b.events
<1>0. Shape(b) /\ b.now \in Nat
  BY DEF Sound, Shape
<1>1. r = BusRec(b.topics, b.subs, b.ids, b.keys, b.dead, b.strict, now, b.events, b.cursor, b.log)
  BY <1>0 DEF Shape, BusRec
<1>2. /\ r.topics = b.topics /\ r.subs = b.subs /\ r.keys = b.keys /\ r.dead = b.dead
      /\ r.now = now /\ r.events = b.events /\ r.cursor = b.cursor /\ r.log = b.log
      /\ r = BusRec(r.topics, r.subs, r.ids, r.keys, r.dead, r.strict, r.now, r.events, r.cursor, r.log)
  BY <1>1, RecFields
<1>3. Shape(r)
  BY <1>0, <1>2 DEF Shape
<1>4. ASSUME NEW x \in Pairs PROVE ToldOf(r, x)
  <2>1. ToldOf(b, x) /\ CursorSnapshot(r, x) = CursorSnapshot(b, x)
    BY <1>2 DEF Sound, CursorSnapshot
  <2>2. QED
    BY <2>1, <1>2 DEF ToldOf
<1>5. ASSUME NEW t \in Topics PROVE LogOf(t, r.log[t], r.keys, r.now)
  <2>1. LogOf(t, b.log[t], b.keys, b.now)
    BY DEF Sound
  <2>2. \A i \in 1..Len(b.log[t]) : b.log[t][i].at \in Nat /\ b.log[t][i].at <= now
    BY <2>1, <1>0 DEF LogOf
  <2>3. QED
    BY <2>1, <2>2, <1>2 DEF LogOf
<1>6. QED
  BY <1>2, <1>3, <1>4, <1>5 DEF Sound

-----------------------------------------------------------------------------
(* What a sound bus shows its readers                                      *)

\* Where the messages from a sequence number on start, in messages that are numbered from base + 1 on.
StartAt(s, base, seq) == IF seq <= base + 1 THEN 1 ELSE IF seq > base + Len(s) THEN Len(s) + 1 ELSE seq - base

\* What From keeps of messages numbered one after another: all from some place on.
LEMMA FromFacts ==
    ASSUME NEW s, IsSeq(s), NEW base \in Nat, \A i \in 1..Len(s) : s[i].seq = base + i, NEW seq \in Nat,
           NEW m, m = StartAt(s, base, seq), NEW r, r = From(s, seq)
    PROVE  /\ m \in 1..(Len(s) + 1) /\ IsSeq(r) /\ Len(r) = Len(s) - m + 1
           /\ \A k \in 1..Len(r) : r[k] = s[m + k - 1]
<1> DEFINE n == Len(s)
           places == {i \in DOMAIN s : s[i].seq >= seq}
<1>0. n \in Nat /\ DOMAIN s = 1..n
  BY SeqFacts
<1>1. m \in 1..(n + 1)
  BY <1>0 DEF StartAt
<1>2. places = m..n
  <2>1. ASSUME NEW i \in 1..n PROVE s[i].seq >= seq <=> i >= m
    <3>1. s[i].seq = base + i
      OBVIOUS
    <3>2. QED
      BY <3>1, <1>0 DEF StartAt
  <2>2. QED
    BY <2>1, <1>0, <1>1
<1>3. places \in SUBSET (1..n)
  BY <1>0
<1>4. r = Only(s, places)
  BY DEF From
<1> HIDE DEF places, n
<1>5. IsSeq(r) /\ Len(r) = n - m + 1 /\ \A k \in 1..(n - m + 1) : r[k] = s[m + k - 1]
  <2>1. /\ IsSeq(Only(s, places)) /\ Len(Only(s, places)) = n - m + 1
        /\ \A k \in 1..(n - m + 1) : Only(s, places)[k] = s[m + k - 1]
    BY ZenonT(30), <1>0, <1>1, <1>2, <1>3, OnlySuffix
  <2>2. QED
    BY <2>1, <1>4
<1>6. QED
  BY <1>1, <1>5 DEF n

\* A limit that is not reached cuts nothing.
LEMMA FirstOfAll ==
    ASSUME NEW s, IsSeq(s), NEW n \in Nat, Len(s) <= n
    PROVE  FirstOf(s, n) = s
<1> DEFINE m == Len(s)
<1>0. m \in Nat
  BY SeqFacts
<1>1. FirstOf(s, n) = SubSeq(s, 1, m)
  BY <1>0 DEF FirstOf
<1> HIDE DEF m
<1>2. /\ IsSeq(SubSeq(s, 1, m)) /\ Len(SubSeq(s, 1, m)) = m - 1 + 1 /\ \A i \in 1..(m - 1 + 1) : SubSeq(s, 1, m)[i] = s[1 + i - 1]
  <2>1. 1 \in Nat \ {0} /\ 1 <= m + 1 /\ m <= Len(s)
    BY <1>0 DEF m
  <2>2. QED
    BY <2>1, <1>0, SubSeqFacts
<1>3. Len(SubSeq(s, 1, m)) = Len(s) /\ \A i \in 1..Len(s) : SubSeq(s, 1, m)[i] = s[i]
  <2>1. \A i \in 1..m : 1 + i - 1 = i
    BY <1>0
  <2>2. m - 1 + 1 = m
    BY <1>0
  <2>3. QED
    BY <1>2, <2>1, <2>2 DEF m
<1>4. SubSeq(s, 1, m) = s
  BY <1>2, <1>3, SameSeq
<1>5. QED
  BY <1>1, <1>4

(* The messages of a topic, seen from its log.                             *)
Numbered(messages, log, head, next) ==
    /\ IsSeq(messages) /\ IsSeq(log) /\ Len(log) \in Nat /\ Len(messages) \in Nat /\ head \in Nat /\ next \in Nat
    /\ next = Len(log) + 1 /\ head \in 1..next /\ Len(messages) = next - head
    /\ \A i \in 1..Len(messages) : messages[i] = log[head + i - 1]
    /\ \A i \in 1..Len(log) : log[i].seq = i
    /\ \A i \in 1..Len(messages) : messages[i].seq = (head - 1) + i

\* What is retained is numbered from the head up.
LEMMA RetainedFacts ==
    ASSUME NEW b, Sound(b), RetentionLegal, NEW t \in Topics
    PROVE  Numbered(b.topics[t].messages, b.log[t], b.topics[t].head, b.topics[t].next)
<1> DEFINE messages == b.topics[t].messages
           log == b.log[t]
           head == b.topics[t].head
           next == b.topics[t].next
<1>1. /\ IsSeq(messages) /\ IsSeq(log) /\ head \in Nat /\ next \in Nat
      /\ next = Len(log) + 1 /\ head \in 1..next /\ Len(messages) = next - head
      /\ \A i \in 1..Len(messages) : messages[i] = log[head + i - 1]
      /\ \A i \in 1..Len(log) : log[i].seq = i
  BY DEF Sound, Shape, TopicOK, TopicOf, LogOf, RetainedOf
<1> HIDE DEF messages, log, head, next
<1>2. Len(log) \in Nat /\ Len(messages) \in Nat
  BY <1>1, SeqFacts
<1>3. ASSUME NEW i \in 1..Len(messages) PROVE messages[i].seq = (head - 1) + i
  <2>1. head + i - 1 \in 1..Len(log) /\ head + i - 1 = (head - 1) + i
    BY <1>1, <1>2
  <2>2. log[head + i - 1].seq = head + i - 1
    BY <2>1, <1>1
  <2>3. QED
    BY <2>1, <2>2, <1>1
<1>4. Numbered(messages, log, head, next)
  BY <1>1, <1>2, <1>3 DEF Numbered
<1>5. QED
  BY <1>4 DEF messages, log, head, next

\* Reading from what is retained is reading from all that was published.
LEMMA ReadsOn ==
    ASSUME NEW b, Sound(b), RetentionLegal, NEW t \in Topics, NEW seq \in Nat, seq >= b.topics[t].head \/ b.topics[t].head = 1
    PROVE  /\ From(b.topics[t].messages, seq) = From(b.log[t], seq)
           /\ IsSeq(From(b.log[t], seq)) /\ Len(From(b.log[t], seq)) <= Len(b.log[t]) /\ Len(b.log[t]) \in Nat
<1> DEFINE messages == b.topics[t].messages
           log == b.log[t]
           head == b.topics[t].head
           next == b.topics[t].next
           s == From(messages, seq)
           r == From(log, seq)
           m == StartAt(messages, head - 1, seq)
           k == StartAt(log, 0, seq)
<1>1. /\ IsSeq(messages) /\ IsSeq(log) /\ Len(log) \in Nat /\ Len(messages) \in Nat /\ head \in Nat /\ next \in Nat
      /\ next = Len(log) + 1 /\ head \in 1..next /\ Len(messages) = next - head
      /\ \A i \in 1..Len(messages) : messages[i] = log[head + i - 1]
      /\ \A i \in 1..Len(log) : log[i].seq = i
      /\ \A i \in 1..Len(messages) : messages[i].seq = (head - 1) + i
  <2>1. Numbered(messages, log, head, next)
    BY RetainedFacts
  <2> HIDE DEF messages, log, head, next
  <2>2. QED
    BY <2>1 DEF Numbered
<1>g. seq >= head \/ head = 1
  OBVIOUS
<1>2. s = From(messages, seq) /\ r = From(log, seq) /\ m = StartAt(messages, head - 1, seq) /\ k = StartAt(log, 0, seq)
  OBVIOUS
<1>u. /\ m = IF seq <= head - 1 + 1 THEN 1 ELSE IF seq > head - 1 + Len(messages) THEN Len(messages) + 1 ELSE seq - (head - 1)
      /\ k = IF seq <= 0 + 1 THEN 1 ELSE IF seq > 0 + Len(log) THEN Len(log) + 1 ELSE seq - 0
  BY DEF StartAt
<1> HIDE DEF messages, log, head, next, s, r, m, k
<1>3. /\ m \in 1..(Len(messages) + 1) /\ IsSeq(s) /\ Len(s) = Len(messages) - m + 1
      /\ \A i \in 1..Len(s) : s[i] = messages[m + i - 1]
  <2> DEFINE base == head - 1
  <2>1. base \in Nat
    BY <1>1
  <2>2. IsSeq(messages) /\ (\A i \in 1..Len(messages) : messages[i].seq = base + i) /\ m = StartAt(messages, base, seq)
    BY <1>1, <1>2
  <2>3. s = From(messages, seq)
    BY <1>2
  <2> HIDE DEF base
  <2>4. QED
    BY <2>1, <2>2, <2>3, FromFacts
<1>4. /\ k \in 1..(Len(log) + 1) /\ IsSeq(r) /\ Len(r) = Len(log) - k + 1
      /\ \A i \in 1..Len(r) : r[i] = log[k + i - 1]
  <2> DEFINE base == 0
  <2>1. base \in Nat
    OBVIOUS
  <2>2. IsSeq(log) /\ (\A i \in 1..Len(log) : log[i].seq = base + i) /\ k = StartAt(log, base, seq)
    BY <1>1, <1>2
  <2>3. r = From(log, seq)
    BY <1>2
  <2> HIDE DEF base
  <2>4. QED
    BY <2>1, <2>2, <2>3, FromFacts
<1>5. k = head + m - 1
  BY <1>1, <1>g, <1>u
<1>6. Len(s) = Len(r)
  BY <1>1, <1>3, <1>4, <1>5
<1>7. ASSUME NEW i \in 1..Len(s) PROVE s[i] = r[i]
  <2>1. m + i - 1 \in 1..Len(messages) /\ head + (m + i - 1) - 1 = k + i - 1
    <3>1. i \in Nat /\ i >= 1 /\ i <= Len(messages) - m + 1 /\ m \in Nat /\ m >= 1
      BY <1>1, <1>3
    <3>2. QED
      BY <3>1, <1>1, <1>5
  <2>2. s[i] = messages[m + i - 1] /\ messages[m + i - 1] = log[head + (m + i - 1) - 1]
    BY <2>1, <1>1, <1>3
  <2>3. QED
    BY <2>1, <2>2, <1>4, <1>6
<1>8. s = r
  BY <1>3, <1>4, <1>6, <1>7, SameSeq
<1>9. Len(r) <= Len(log)
  BY <1>1, <1>4
<1>10. QED
  BY <1>1, <1>4, <1>8, <1>9 DEF s, r, messages, log

\* A sound bus loses nothing in silence (available_page).
LEMMA SoundShowsAll ==
    ASSUME Sound(bus), RetentionLegal
    PROVE  NoSilentLoss
<1> SUFFICES ASSUME NEW t \in Topics, NEW s \in Subs, bus.subs[<<t, s>>].exists, ~bus.subs[<<t, s>>].closed
             PROVE  IF bus.subs[<<t, s>>].gap THEN bus.subs[<<t, s>>].next < bus.topics[t].head
                    ELSE AvailableTo(bus, t, s, Nil, Len(bus.log[t]) + 1).items = From(bus.log[t], bus.subs[<<t, s>>].next)
  BY DEF NoSilentLoss
<1> DEFINE sub == bus.subs[<<t, s>>]
           log == bus.log[t]
           all == From(bus.topics[t].messages, sub.next)
           n == Len(log) + 1
<1>1. sub \in SubRec /\ GapOf(sub, bus.topics[t].head) /\ sub.next \in Nat
  BY SubFacts DEF SubRec
<1>2. CASE sub.gap
  BY <1>1, <1>2 DEF GapOf
<1>3. CASE ~sub.gap
  <2>1. sub.next >= bus.topics[t].head \/ bus.topics[t].head = 1
    BY <1>1, <1>3 DEF GapOf
  <2>2. AvailableTo(bus, t, s, Nil, n) = Page(all, n)
    BY <1>3 DEF AvailableTo
  <2>3. Page(all, n).items = FirstOf(all, n)
    BY DEF Page
  <2>4. all = From(log, sub.next) /\ IsSeq(From(log, sub.next)) /\ Len(From(log, sub.next)) <= Len(log) /\ Len(log) \in Nat
    BY <1>1, <2>1, ReadsOn
  <2> HIDE DEF all, log, sub
  <2>5. IsSeq(all) /\ n \in Nat /\ Len(all) <= n
    <3>1. Len(all) \in Nat
      BY <2>4, SeqFacts
    <3>2. QED
      BY <2>4, <3>1
  <2> HIDE DEF n
  <2>6. FirstOf(all, n) = all
    BY <2>5, FirstOfAll
  <2>7. AvailableTo(bus, t, s, Nil, n).items = From(log, sub.next)
    BY <2>2, <2>3, <2>4, <2>6
  <2>8. QED
    BY <1>3, <2>7 DEF n, log, sub
<1>4. QED
  BY <1>2, <1>3

\* A sound bus with no event left has shown every cursor.
LEMMA SoundIsFresh ==
    ASSUME Sound(bus), bus.events = <<>>
    PROVE  CursorsFresh
<1>1. Len(bus.events) = 0
  BY EmptyIsSeq
<1>2. ASSUME NEW x \in Pairs, bus.subs[x].exists PROVE bus.cursor[x] = CursorSnapshot(bus, x)
  <2>1. ToldOf(bus, x)
    BY DEF Sound
  <2>2. QED
    BY <1>1, <1>2, <2>1 DEF ToldOf
<1>3. QED
  BY <1>2 DEF CursorsFresh, Pairs

\* A sound bus has published each key once, and its catalog spans what is retained.
LEMMA SoundIsPublishedOnce ==
    ASSUME Sound(bus), RetentionLegal
    PROVE  PublishedOnce
<1> SUFFICES ASSUME NEW t \in Topics
             PROVE  /\ \A i, j \in DOMAIN bus.log[t] :
                         i # j /\ bus.log[t][i].key # Nil => bus.log[t][i].key # bus.log[t][j].key
                    /\ \A i \in DOMAIN bus.log[t] : bus.log[t][i].seq = i
                    /\ \A entry \in Catalog(bus, TRUE) : entry.topic = t =>
                         /\ entry.next - entry.head = entry.count
                         /\ TopicPage(bus, t, Nil, entry.count + 1).items = SubSeq(bus.log[t], entry.head, entry.next - 1)
  BY DEF PublishedOnce
<1> DEFINE messages == bus.topics[t].messages
           log == bus.log[t]
           head == bus.topics[t].head
           next == bus.topics[t].next
           count == Len(messages)
<1>1. Numbered(messages, log, head, next)
  BY RetainedFacts
<1>2. LogOf(t, log, bus.keys, bus.now)
  BY DEF Sound
<1>3. /\ \A i, j \in DOMAIN log : i # j /\ log[i].key # Nil => log[i].key # log[j].key
      /\ \A i \in DOMAIN log : log[i].seq = i
  <2> HIDE DEF log
  <2>1. DOMAIN log = 1..Len(log)
    BY <1>2, SeqFacts DEF LogOf
  <2>2. QED
    BY <1>2, <2>1 DEF LogOf
<1>4. ASSUME NEW entry \in Catalog(bus, TRUE), entry.topic = t
      PROVE  entry.head = head /\ entry.next = next /\ entry.count = count
  <2>1. PICK u \in Topics : entry = [topic |-> u, head |-> bus.topics[u].head, next |-> bus.topics[u].next,
                                     count |-> Len(bus.topics[u].messages)]
    BY DEF Catalog
  <2>2. u = t
    BY <2>1, <1>4
  <2>3. QED
    BY <2>1, <2>2
<1>5. TopicPage(bus, t, Nil, count + 1).items = FirstOf(From(messages, head), count + 1)
  BY DEF TopicPage, Page
<1> HIDE DEF messages, log, head, next
<1>6. next - head = count
  BY <1>1 DEF Numbered
<1>7. FirstOf(From(messages, head), count + 1) = SubSeq(log, head, next - 1)
  <2> DEFINE base == head - 1
             all == From(messages, head)
             m == StartAt(messages, base, head)
  <2>0. /\ IsSeq(messages) /\ IsSeq(log) /\ Len(log) \in Nat /\ Len(messages) \in Nat /\ head \in Nat /\ next \in Nat
        /\ next = Len(log) + 1 /\ head \in 1..next /\ Len(messages) = next - head
        /\ \A i \in 1..Len(messages) : messages[i] = log[head + i - 1]
        /\ \A i \in 1..Len(messages) : messages[i].seq = base + i
    BY <1>1 DEF Numbered
  <2>1. base \in Nat /\ m = 1
    BY <2>0 DEF StartAt
  <2>2. m = StartAt(messages, base, head) /\ all = From(messages, head)
    OBVIOUS
  <2> HIDE DEF base, all, m
  <2>3. IsSeq(all) /\ Len(all) = Len(messages) - m + 1 /\ \A k \in 1..Len(all) : all[k] = messages[m + k - 1]
    <3>1. IsSeq(messages) /\ head \in Nat /\ base \in Nat /\ \A i \in 1..Len(messages) : messages[i].seq = base + i
      BY <2>0, <2>1
    <3>2. m = StartAt(messages, base, head) /\ all = From(messages, head)
      BY <2>2
    <3>3. QED
      BY SMTT(30), <3>1, <3>2, FromFacts
  <2>4. Len(all) = count /\ \A k \in 1..count : all[k] = log[head + k - 1]
    <3>1. Len(all) = count
      BY <2>0, <2>1, <2>3
    <3>2. ASSUME NEW k \in 1..count PROVE all[k] = log[head + k - 1]
      <4>1. m + k - 1 = k
        BY <2>0, <2>1
      <4>2. QED
        BY <4>1, <3>1, <2>0, <2>3
    <3>3. QED
      BY <3>1, <3>2
  <2>5. FirstOf(all, count + 1) = all
    <3> DEFINE n == count + 1
    <3>1. n \in Nat /\ Len(all) <= n
      BY <2>0, <2>4
    <3> HIDE DEF n
    <3>2. FirstOf(all, n) = all
      BY <3>1, <2>3, FirstOfAll
    <3>3. QED
      BY <3>2 DEF n
  <2>6. SubSeq(log, head, next - 1) = all
    <3> DEFINE n == next - 1
               r == SubSeq(log, head, n)
    <3>1. head \in Nat \ {0} /\ n \in Nat /\ head <= n + 1 /\ n <= Len(log) /\ n - head + 1 = count
      BY <2>0
    <3> HIDE DEF n
    <3>2. IsSeq(r) /\ Len(r) = n - head + 1 /\ \A i \in 1..(n - head + 1) : r[i] = log[head + i - 1]
      BY <3>1, <2>0, SubSeqFacts
    <3>3. r = all
      <4> HIDE DEF r
      <4>1. IsSeq(r) /\ IsSeq(all) /\ Len(r) = Len(all) /\ \A i \in 1..Len(r) : r[i] = all[i]
        BY <2>3, <2>4, <3>1, <3>2
      <4>2. QED
        BY <4>1, SameSeq
    <3>4. QED
      BY <3>3 DEF n
  <2>7. QED
    BY <2>2, <2>5, <2>6
<1>8. ASSUME NEW entry \in Catalog(bus, TRUE), entry.topic = t
      PROVE  /\ entry.next - entry.head = entry.count
             /\ TopicPage(bus, t, Nil, entry.count + 1).items = SubSeq(log, entry.head, entry.next - 1)
  BY <1>4, <1>5, <1>6, <1>7, <1>8
<1>9. QED
  BY <1>3, <1>8 DEF log

-----------------------------------------------------------------------------
(* The bus in the recipe: every step gives it commands it can carry out    *)

\* Only the recipe publishes to the outbox topic, and only there; producers publish to the inbox topic.
QueuesOK ==
    /\ IsSeq(outbox) /\ \A i \in 1..Len(outbox) : Proper(outbox[i]) /\ (outbox[i].op = "Publish" => outbox[i].topic = Out)
    /\ IsSeq(inbox) /\ \A i \in 1..Len(inbox) : inbox[i].does \in DOMAIN Handler
PayloadsOK == \A i \in 1..Len(bus.log[In]) : bus.log[In][i].payload \in Payloads

MessagingInv == Sound(bus) /\ bus.events = <<>> /\ QueuesOK /\ PayloadsOK

\* A new bus is sound.
LEMMA NewBusSound ==
    ASSUME NEW initial, BusInit(initial)
    PROVE  Sound(bus) /\ bus.events = <<>> /\ \A t \in Topics : bus.log[t] = <<>>
<1> DEFINE topics == [t \in Topics |-> IF t \in initial THEN MakeTopicState ELSE NoTopic]
           subs == [x \in Pairs |-> NoSub]
           cursor == [x \in Pairs |-> Nil]
           none == <<>>
           log == [t \in Topics |-> none]
           no == {}
           yes == TRUE
<1>1. bus = BusRec(topics, subs, no, no, none, yes, 0, none, cursor, log)
  BY Zenon DEF BusInit, BusRec, Pairs
<1>2. IsSeq(none) /\ Len(none) = 0
  BY EmptyIsSeq
<1>3. NoSub \in SubRec /\ ~NoSub.exists
  BY DEF NoSub, SubRec
<1>4. subs \in [Pairs -> SubRec] /\ \A x \in Pairs : ~subs[x].exists
  BY <1>3
<1>5. /\ topics = [t \in Topics |-> topics[t]] /\ cursor = [x \in Pairs |-> cursor[x]] /\ log = [t \in Topics |-> log[t]]
      /\ \A t \in Topics : log[t] = none
  OBVIOUS
<1>6. ASSUME NEW v, v = MakeTopicState \/ v = NoTopic
      PROVE  TopicOK(v) /\ v.head = 1 /\ v.next = 1 /\ v.messages = none /\ (~v.exists => v = NoTopic)
  <2>1. ASSUME NEW e \in BOOLEAN, v = TopicRec(e, FALSE, 1, 1, none)
        PROVE  TopicOK(v) /\ v.exists = e /\ v.head = 1 /\ v.next = 1 /\ v.messages = none
    <3> DEFINE f == FALSE
    <3>0. f \in BOOLEAN /\ v = TopicRec(e, f, 1, 1, none)
      BY <2>1, Zenon
    <3> HIDE DEF f, none
    <3>1. v.exists = e /\ v.closed = f /\ v.head = 1 /\ v.next = 1 /\ v.messages = none
      BY <3>0 DEF TopicRec
    <3>2. v = TopicRec(v.exists, v.closed, v.head, v.next, v.messages)
      BY <3>0, <3>1, Zenon
    <3>3. v.exists \in BOOLEAN /\ v.closed \in BOOLEAN
      BY <3>0, <3>1, <2>1, Zenon
    <3>4. v.head \in Nat /\ v.next \in Nat
      BY <3>1
    <3>5. TopicOK(v)
      BY <3>2, <3>3, <3>4, Zenon DEF TopicOK
    <3>6. QED
      BY <3>1, <3>5, Zenon
  <2>2. NoTopic = TopicRec(FALSE, FALSE, 1, 1, none) /\ MakeTopicState = TopicRec(TRUE, FALSE, 1, 1, none)
    <3>1. NoTopic = TopicRec(FALSE, FALSE, 1, 1, none)
      BY Zenon DEF NoTopic, TopicRec
    <3>2. MakeTopicState = TopicRec(TRUE, FALSE, 1, 1, none)
      <4> DEFINE on == TRUE
                 off == FALSE
                 o == NoTopic
      <4>1. o = TopicRec(off, off, 1, 1, none) /\ MakeTopicState = [o EXCEPT !.exists = on]
        BY <3>1, Zenon DEF MakeTopicState
      <4> HIDE DEF on, off, o, none
      <4>2. [o EXCEPT !.exists = on] = TopicRec(on, off, 1, 1, none)
        BY <4>1 DEF TopicRec
      <4>3. QED
        BY <4>1, <4>2, Zenon DEF on, off
    <3>3. QED
      BY <3>1, <3>2
  <2> HIDE DEF none
  <2>3. CASE v = NoTopic
    BY <2>1, <2>2, <2>3, Zenon
  <2>4. CASE v = MakeTopicState
    BY <2>1, <2>2, <2>4, Zenon
  <2>5. QED
    BY <1>6, <2>3, <2>4
<1>7. \A t \in Topics : topics[t] = MakeTopicState \/ topics[t] = NoTopic
  OBVIOUS
<1> HIDE DEF topics, subs, cursor, none, log, no, yes
<1>8. /\ bus.topics = topics /\ bus.subs = subs /\ bus.keys = no /\ bus.dead = none /\ bus.now = 0
      /\ bus.events = none /\ bus.cursor = cursor /\ bus.log = log
      /\ bus = BusRec(bus.topics, bus.subs, bus.ids, bus.keys, bus.dead, bus.strict, bus.now, bus.events, bus.cursor, bus.log)
  BY <1>1, RecFields
<1>9. Shape(bus)
  BY <1>2, <1>4, <1>5, <1>6, <1>7, <1>8 DEF Shape
<1>10. ASSUME NEW t \in Topics
       PROVE  /\ LogOf(t, bus.log[t], bus.keys, bus.now) /\ TopicOf(bus.topics[t], bus.log[t])
              /\ RetainedOf(bus.topics[t], bus.log[t])
  <2>1. bus.log[t] = none /\ bus.topics[t] = topics[t]
    BY <1>5, <1>8
  <2>2. topics[t].head = 1 /\ topics[t].next = 1 /\ topics[t].messages = none /\ (~topics[t].exists => topics[t] = NoTopic)
    BY <1>6, <1>7
  <2>3. LogOf(t, none, bus.keys, bus.now)
    BY <1>2 DEF LogOf
  <2>4. TopicOf(topics[t], none)
    BY <1>2, <2>2 DEF TopicOf
  <2>5. RetainedOf(topics[t], none)
    BY <1>2, <2>2 DEF RetainedOf
  <2>6. QED
    BY <2>1, <2>3, <2>4, <2>5
<1>11. \A x \in Pairs : ToldOf(bus, x) /\ GapOf(bus.subs[x], bus.topics[x[1]].head)
  BY <1>4, <1>8 DEF ToldOf, GapOf
<1>12. Sound(bus)
  BY <1>9, <1>10, <1>11 DEF Sound
<1>13. QED
  BY <1>5, <1>8, <1>12 DEF none

(* The commands the steps make.                                            *)
LEMMA CommandFields ==
    ASSUME NEW op, NEW t, NEW s, NEW seq, NEW id, NEW c, c = Command(op, t, s, seq, id)
    PROVE  c.op = op /\ c.topic = t /\ c.sub = s /\ c.seq = seq
BY DEF Command

\* A publish command is one the bus knows.
LEMMA PublishFields ==
    ASSUME NEW t \in Topics, NEW payload, NEW id, NEW key, NEW c, c = Publish(t, payload, id, key)
    PROVE  Proper(c) /\ c.op = "Publish" /\ c.topic = t /\ c.payload = payload
<1>1. c.op = "Publish" /\ c.topic = t /\ c.payload = payload
  BY DEF Publish, Command
<1>2. QED
  BY <1>1 DEF Proper, Ops

\* The inbox topic holds only payloads of producers.
LEMMA PayloadsKept ==
    ASSUME Sound(bus), PayloadsOK, NEW c, Grown(bus, bus', c), c.op = "Publish" /\ c.topic = In => c.payload \in Payloads
    PROVE  PayloadsOK'
<1>0. In \in Topics
  BY DeliveryAssumption
<1>1. Len(bus.log[In]) \in Nat
  BY <1>0, SeqFacts DEF Sound, LogOf
<1>2. CASE bus'.log[In] = bus.log[In]
  BY <1>2 DEF PayloadsOK
<1>3. CASE bus'.log[In] # bus.log[In]
  <2>1. /\ c.payload \in Payloads /\ Len(bus'.log[In]) = Len(bus.log[In]) + 1
        /\ \A i \in 1..Len(bus.log[In]) : bus'.log[In][i] = bus.log[In][i]
        /\ bus'.log[In][Len(bus.log[In]) + 1].payload = c.payload
    BY <1>0, <1>3 DEF Grown
  <2>2. ASSUME NEW i \in 1..Len(bus'.log[In]) PROVE bus'.log[In][i].payload \in Payloads
    <3>1. CASE i = Len(bus.log[In]) + 1
      BY <3>1, <2>1
    <3>2. CASE i # Len(bus.log[In]) + 1
      <4>1. i \in 1..Len(bus.log[In])
        BY <3>2, <2>1, <1>1
      <4>2. QED
        BY <4>1, <2>1 DEF PayloadsOK
    <3>3. QED
      BY <3>1, <3>2
  <2>3. QED
    BY <2>2 DEF PayloadsOK
<1>4. QED
  BY <1>2, <1>3

\* A command of the recipe or of the owner keeps all of it.
LEMMA ReduceKeeps ==
    ASSUME Sound(bus), PayloadsOK, NEW c, Proper(c), bus' = Reduce(bus, c),
           c.op = "Publish" /\ c.topic = In => c.payload \in Payloads
    PROVE  (Sound(bus) /\ bus.events = <<>> /\ PayloadsOK)'
<1>1. Sound(bus') /\ bus'.events = <<>> /\ Grown(bus, bus', c)
  BY ReduceSound
<1>2. PayloadsOK'
  BY <1>1, PayloadsKept
<1>3. QED
  BY <1>1, <1>2

(* Where the members of a sequence come from.                              *)
MembersOf(r, s) == \A i \in 1..Len(r) : \E j \in 1..Len(s) : r[i] = s[j]

\* An element of two sequences in a row is one of the first or of the second.
LEMMA ConcatMembers ==
    ASSUME NEW s, IsSeq(s), NEW r, IsSeq(r), NEW i \in 1..Len(s \o r)
    PROVE  (\E j \in 1..Len(s) : (s \o r)[i] = s[j]) \/ (\E j \in 1..Len(r) : (s \o r)[i] = r[j])
<1>1. /\ Len(s) \in Nat /\ Len(r) \in Nat /\ Len(s \o r) = Len(s) + Len(r)
      /\ \A k \in 1..Len(s) : (s \o r)[k] = s[k]
      /\ \A k \in 1..Len(r) : (s \o r)[Len(s) + k] = r[k]
  <2>1. Len(s) \in Nat /\ Len(r) \in Nat
    BY SeqFacts
  <2>2. QED
    BY <2>1, ConcatFacts
<1>2. CASE i <= Len(s)
  BY <1>1, <1>2
<1>3. CASE ~(i <= Len(s))
  <2>1. i - Len(s) \in 1..Len(r) /\ Len(s) + (i - Len(s)) = i
    BY <1>1, <1>3
  <2>2. QED
    BY <2>1, <1>1
<1>4. QED
  BY <1>2, <1>3

\* What is left without the first element was there before.
LEMMA TailMembers ==
    ASSUME NEW s, IsSeq(s), s # <<>>
    PROVE  IsSeq(Tail(s)) /\ MembersOf(Tail(s), s) /\ Head(s) = s[1] /\ 1 \in 1..Len(s)
<1>1. /\ IsSeq(Tail(s)) /\ Len(s) \in Nat /\ Len(s) > 0 /\ Len(Tail(s)) = Len(s) - 1 /\ Head(s) = s[1]
      /\ \A i \in 1..Len(s) - 1 : Tail(s)[i] = s[i + 1]
  BY TailFacts
<1>2. ASSUME NEW i \in 1..Len(Tail(s)) PROVE \E j \in 1..Len(s) : Tail(s)[i] = s[j]
  <2>1. i \in 1..Len(s) - 1 /\ i + 1 \in 1..Len(s)
    BY <1>1
  <2>2. QED
    BY <2>1, <1>1
<1>3. QED
  BY <1>1, <1>2 DEF MembersOf

(* A page holds messages of the log of its topic.                          *)
LEMMA PageMembers ==
    ASSUME NEW b, Sound(b), NEW t \in Topics, NEW s, NEW limit \in Nat \ {0}, NEW page, page = AvailableTo(b, t, s, Nil, limit).items
    PROVE  IsSeq(page) /\ MembersOf(page, b.log[t])
<1> DEFINE messages == b.topics[t].messages
           log == b.log[t]
           start == b.subs[<<t, s>>].next
           places == {i \in DOMAIN messages : messages[i].seq >= start}
           read == Only(messages, places)
           none == <<>>
           all == IF b.subs[<<t, s>>].gap THEN none ELSE read
           n == IF Len(all) < limit THEN Len(all) ELSE limit
<1>1. page = SubSeq(all, 1, n)
  BY DEF AvailableTo, Page, FirstOf, From
<1>2. IsSeq(messages) /\ MembersOf(messages, log)
  BY DEF Sound, TopicOf, MembersOf
<1>3. IsSeq(all) /\ MembersOf(all, log)
  <2>1. IsSeq(none) /\ MembersOf(none, log)
    BY EmptyIsSeq DEF MembersOf
  <2>2. IsSeq(read) /\ MembersOf(read, log)
    <3>1. places \in SUBSET (1..Len(messages))
      BY <1>2, SeqFacts
    <3> HIDE DEF messages, places, log
    <3>2. IsSeq(read) /\ \A i \in 1..Len(read) : \E j \in 1..Len(messages) : read[i] = messages[j]
      BY <1>2, <3>1, YoungFrom
    <3>3. QED
      BY <1>2, <3>2 DEF MembersOf
  <2> HIDE DEF none, read
  <2>3. QED
    BY <2>1, <2>2
<1> HIDE DEF all, log, messages
<1>4. Len(all) \in Nat
  BY <1>3, SeqFacts
<1>5. 1 \in Nat \ {0} /\ n \in Nat /\ 1 <= n + 1 /\ n <= Len(all)
  BY <1>4
<1> HIDE DEF n
<1>6. /\ IsSeq(SubSeq(all, 1, n)) /\ Len(SubSeq(all, 1, n)) = n - 1 + 1
      /\ \A i \in 1..(n - 1 + 1) : SubSeq(all, 1, n)[i] = all[1 + i - 1]
  BY <1>3, <1>5, SubSeqFacts
<1>7. ASSUME NEW i \in 1..Len(page) PROVE \E j \in 1..Len(log) : page[i] = log[j]
  <2>1. i \in 1..Len(all) /\ 1 + i - 1 = i /\ i \in 1..(n - 1 + 1)
    BY <1>1, <1>4, <1>5, <1>6
  <2>2. page[i] = all[i]
    BY <2>1, <1>1, <1>6
  <2>3. QED
    BY <2>1, <2>2, <1>3 DEF MembersOf
<1>8. QED
  BY <1>1, <1>6, <1>7 DEF MembersOf, log

(* Lowering splits a page into what can become a command and what cannot.  *)
PartOf(r, page, can) ==
    /\ IsSeq(r) /\ Len(r) \in Nat /\ DOMAIN r = 1..Len(r)
    /\ \A i \in 1..Len(r) : \E j \in 1..Len(page) : r[i] = page[j] /\ (page[j].payload.does # "garbled") = can

\* The messages of a page that can be lowered are some of its messages, and so are the others.
LEMMA LoweredFacts ==
    ASSUME NEW page, IsSeq(page), NEW can \in BOOLEAN, NEW r, r = Lowered(page, can)
    PROVE  PartOf(r, page, can)
<1> DEFINE n == Len(page)
           places == {i \in DOMAIN page : (page[i].payload.does # "garbled") = can}
<1>0. n \in Nat /\ DOMAIN page = 1..n
  BY SeqFacts
<1>1. places \in SUBSET (1..n) /\ \A j \in places : j \in 1..n /\ (page[j].payload.does # "garbled") = can
  BY <1>0
<1>2. r = Only(page, places)
  BY DEF Lowered
<1> HIDE DEF n, places
<1>3. IsSeq(Only(page, places)) /\ Len(Only(page, places)) = Cardinality(places)
  BY <1>0, <1>1, OnlyIsSeq
<1>4. IsSeq(r) /\ Len(r) = Cardinality(places)
  BY <1>2, <1>3
<1>5. ASSUME NEW i \in 1..Len(r) PROVE \E j \in places : r[i] = page[j]
  <2>1. i \in 1..Cardinality(places)
    BY <1>4
  <2>2. \E j \in places : Rank(places, j) = i /\ Only(page, places)[i] = page[j]
    <3>1. n \in Nat /\ places \in SUBSET (1..n)
      BY <1>0, <1>1
    <3>2. QED
      BY <3>1, <2>1, OnlyFrom
  <2>3. QED
    BY <2>2, <1>2
<1>6. Len(r) \in Nat /\ DOMAIN r = 1..Len(r)
  BY <1>4, SeqFacts
<1>7. QED
  BY <1>1, <1>4, <1>5, <1>6 DEF n, PartOf

(* What the runtime emits for a command is a sequence of events.           *)
LEMMA OutcomeFields ==
    ASSUME NEW r, NEW code, NEW events, NEW effects
    PROVE  Outcome(r, code, events, effects).events = events /\ Failure(r, code).events = <<>>
<1> DEFINE ok == code = "none"
           none == <<>>
           q == [r EXCEPT !.errors = @ + 1, !.audits = @ + 1]
<1>1. /\ Outcome(r, code, events, effects) = [runtime |-> r, accepted |-> ok, code |-> code, events |-> events, effects |-> effects]
      /\ Failure(r, code) = [runtime |-> q, accepted |-> ok, code |-> code, events |-> none, effects |-> none]
  BY DEF Outcome, Failure
<1> HIDE DEF ok, none, q
<1>2. Outcome(r, code, events, effects).events = events /\ Failure(r, code).events = none
  BY <1>1
<1>3. QED
  BY <1>2 DEF none

\* A process emits a sequence of events, whatever the outcome.
LEMMA ProcessEmits ==
    ASSUME NEW r, NEW id, NEW does \in DOMAIN Handler
    PROVE  IsSeq(ReduceProcess(r, id, does).events)
<1> DEFINE q == [r EXCEPT !.commands = @ + 1]
           h == Handler[does]
           events == PrepareProcess(id, h.events, q.events)
           effects == PrepareProcess(id, h.effects, q.effects)
           last == [q EXCEPT !.state = @ + 1, !.audits = @ + 1, !.events = @ + Len(events), !.seenEvents = @ \o events,
                             !.effects = @ + Len(effects), !.seenEffects = @ \o effects]
           o == ReduceProcess(r, id, does)
           n == Len(h.events)
<1>1. o = CASE h.fails = "handler" -> Failure(q, "ReducerThrew")
            [] h.fails # "handler" /\ ~Fresh(events, q.seenEvents) -> Failure(q, "MalformedEvent")
            [] h.fails # "handler" /\ Fresh(events, q.seenEvents) /\ ~Fresh(effects, q.seenEffects) -> Failure(q, "MalformedEffect")
            [] h.fails = "clock" /\ Fresh(events, q.seenEvents) /\ Fresh(effects, q.seenEffects) -> Failure(q, "ClockThrew")
            [] OTHER -> Outcome(last, "none", events, effects)
  BY Zenon DEF ReduceProcess
<1>2. n \in Nat /\ events = [i \in 1..n |-> events[i]]
  <2>1. n \in Nat /\ DOMAIN h.events = 1..n
    BY CommandRuntimeAssumption
  <2>2. QED
    BY <2>1 DEF PrepareProcess
<1> HIDE DEF q, events, effects, last, o, h, n
<1>3. IsSeq(events) /\ IsSeq(<<>>)
  BY <1>2, FunIsSeq, EmptyIsSeq
<1>4. (\E code : o = Failure(q, code)) \/ o = Outcome(last, "none", events, effects)
  <2>1. CASE h.fails = "handler"
    BY <1>1, <2>1
  <2>2. CASE h.fails # "handler" /\ ~Fresh(events, q.seenEvents)
    BY <1>1, <2>2
  <2>3. CASE h.fails # "handler" /\ Fresh(events, q.seenEvents) /\ ~Fresh(effects, q.seenEffects)
    BY <1>1, <2>3
  <2>4. CASE h.fails = "clock" /\ Fresh(events, q.seenEvents) /\ Fresh(effects, q.seenEffects)
    BY <1>1, <2>4
  <2>5. CASE /\ h.fails # "handler" /\ h.fails # "clock" /\ Fresh(events, q.seenEvents) /\ Fresh(effects, q.seenEffects)
    BY <1>1, <2>5
  <2>6. QED
    BY <2>1, <2>2, <2>3, <2>4, <2>5
<1>5. o.events = <<>> \/ o.events = events
  BY <1>4, OutcomeFields
<1>6. QED
  BY <1>3, <1>5 DEF o

\* So does a CQRS runtime.
LEMMA CqrsEmits ==
    ASSUME NEW r, NEW id, NEW does \in DOMAIN Handler
    PROVE  IsSeq(ReduceCqrs(r, id, does).events)
<1> DEFINE q == [r EXCEPT !.commands = @ + 1]
           seen == [q EXCEPT !.seenCommands = TrimDedupeWindow(Append(@, id), CommandWindow)]
           h == Handler[does]
           events == PrepareCqrs(id, h.events)
           remembered == FoldLeft(LAMBDA ids, e : TrimDedupeWindow(Append(ids, e), EventWindow), seen.seenEvents, events)
           last == [seen EXCEPT !.events = @ + Len(events), !.audits = @ + 1, !.seenEvents = remembered,
                                !.evicted = @ + Len(seen.seenEvents) + Len(events) - Len(remembered)]
           known == id \in ToSet(q.seenCommands)
           o == ReduceCqrs(r, id, does)
           n == Len(h.events)
           none == <<>>
<1>1. o = CASE known -> Failure(q, "DuplicateCommand")
            [] ~known /\ h.fails = "unknown" -> Failure(seen, "UnknownCommand")
            [] ~known /\ h.fails = "handler" -> Failure(seen, "HandlerThrew")
            [] ~known /\ h.fails \in {"no", "clock"} /\ ~Fresh(events, seen.seenEvents) -> Failure(seen, "DuplicateEvent")
            [] ~known /\ h.fails = "clock" /\ Fresh(events, seen.seenEvents) -> Failure(seen, "ClockThrew")
            [] OTHER -> Outcome(last, "none", events, none)
  BY Zenon DEF ReduceCqrs
<1>2. n \in Nat /\ events = [i \in 1..n |-> events[i]] /\ h.fails \in {"no", "handler", "clock", "unknown"}
  <2>1. n \in Nat /\ DOMAIN h.events = 1..n /\ h.fails \in {"no", "handler", "clock", "unknown"}
    BY CommandRuntimeAssumption
  <2>2. QED
    BY <2>1 DEF PrepareCqrs
<1>n. none = <<>>
  OBVIOUS
<1> HIDE DEF q, seen, events, remembered, last, o, h, n, known, none
<1>3. IsSeq(events) /\ IsSeq(<<>>)
  BY <1>2, FunIsSeq, EmptyIsSeq
<1>4. (\E code, x : o = Failure(x, code)) \/ o = Outcome(last, "none", events, none)
  <2>1. CASE known
    BY <1>1, <2>1
  <2>2. CASE ~known /\ h.fails = "unknown"
    BY <1>1, <2>2
  <2>3. CASE ~known /\ h.fails = "handler"
    BY <1>1, <2>3
  <2>4. CASE ~known /\ h.fails \in {"no", "clock"} /\ ~Fresh(events, seen.seenEvents)
    BY <1>1, <2>4
  <2>5. CASE ~known /\ h.fails = "clock" /\ Fresh(events, seen.seenEvents)
    BY <1>1, <2>5
  <2>6. CASE ~known /\ h.fails = "no" /\ Fresh(events, seen.seenEvents)
    BY <1>1, <2>6
  <2>7. QED
    BY <1>2, <2>1, <2>2, <2>3, <2>4, <2>5, <2>6
<1>5. o.events = <<>> \/ o.events = events
  BY <1>4, OutcomeFields
<1>6. QED
  BY <1>3, <1>5 DEF o

-----------------------------------------------------------------------------
(* The steps of the recipe                                                 *)

\* At the start nothing was published and nothing waits.
LEMMA MessagingStart == DeliveryInit => MessagingInv
<1> SUFFICES ASSUME DeliveryInit PROVE MessagingInv
  OBVIOUS
<1>1. BusInit({In, Out}) /\ inbox = <<>> /\ outbox = <<>>
  BY DEF DeliveryInit
<1>2. Sound(bus) /\ bus.events = <<>> /\ \A t \in Topics : bus.log[t] = <<>>
  BY <1>1, NewBusSound
<1>3. QueuesOK
  BY <1>1, EmptyIsSeq DEF QueuesOK
<1>4. PayloadsOK
  BY <1>2, EmptyIsSeq, DeliveryAssumption DEF PayloadsOK
<1>5. QED
  BY <1>2, <1>3, <1>4 DEF MessagingInv

\* A producer publishes.
LEMMA ProduceKeeps ==
    ASSUME MessagingInv, NEW p \in Payloads, NEW id, NEW key, NEW d \in Ticks, Produce(p, id, key, bus.now + d)
    PROVE  MessagingInv'
<1> DEFINE now == bus.now + d
           later == [bus EXCEPT !.now = now]
           c == Publish(In, p, id, key)
<1>0. Sound(bus) /\ bus.now \in Nat /\ In \in Topics /\ d \in Nat /\ PayloadsOK /\ QueuesOK
  BY DeliveryAssumption DEF MessagingInv, Sound, Shape
<1>1. now \in Nat /\ now >= bus.now
  BY <1>0
<1>2. bus' = Reduce(later, c) /\ inbox' = inbox /\ outbox' = outbox
  BY DEF Produce, serviceVars
<1>3. Proper(c) /\ c.op = "Publish" /\ c.topic = In /\ c.payload = p
  BY <1>0, PublishFields
<1> HIDE DEF now, c
<1>4. Sound(later) /\ later.log = bus.log
  BY <1>0, <1>1, LaterSound
<1> HIDE DEF later
<1>5. Sound(bus') /\ bus'.events = <<>> /\ Grown(later, bus', c)
  BY <1>2, <1>3, <1>4, ReduceSound
<1>6. Grown(bus, bus', c)
  BY <1>4, <1>5 DEF Grown
<1>7. PayloadsOK'
  BY <1>0, <1>3, <1>6, PayloadsKept
<1>8. QueuesOK'
  BY <1>0, <1>2 DEF QueuesOK, Proper
<1>9. QED
  BY <1>5, <1>7, <1>8 DEF MessagingInv

\* The owner changes topics, policies and subscriptions.
LEMMA AdministerKeeps == ASSUME MessagingInv, Administer PROVE MessagingInv'
<1>0. Sound(bus) /\ bus.events = <<>> /\ In \in Topics /\ Sub \in Subs /\ MaxPublishes \in Nat /\ PayloadsOK /\ QueuesOK
  BY DeliveryAssumption DEF MessagingInv
<1>1. QueuesOK'
  BY <1>0 DEF QueuesOK, Proper, Administer, serviceVars
<1>2. ASSUME NEW c, Proper(c), c.op # "Publish", bus' = Reduce(bus, c) PROVE (Sound(bus) /\ bus.events = <<>> /\ PayloadsOK)'
  BY <1>0, <1>2, ReduceKeeps
<1>3. ASSUME NEW c \in {Command("EnsureTopic", In, Nil, Nil, Nil), Command("CloseTopic", In, Nil, Nil, Nil),
                        Command("CloseSubscription", In, Sub, Nil, Nil)}
      PROVE  Proper(c) /\ c.op # "Publish"
  <2>1. c.topic = In /\ c.op \in {"EnsureTopic", "CloseTopic", "CloseSubscription"} /\ (c.op = "CloseSubscription" => c.sub = Sub)
    BY <1>3 DEF Command
  <2>2. QED
    BY <2>1, <1>0 DEF Proper, Ops
<1>4. ASSUME NEW strict, NEW c, c = [Command("TopicPolicy", Nil, Nil, Nil, Nil) EXCEPT !.payload = strict]
      PROVE  Proper(c) /\ c.op # "Publish"
  <2>1. c.op = "TopicPolicy"
    BY <1>4 DEF Command
  <2>2. QED
    BY <2>1 DEF Proper, Ops
<1>5. ASSUME NEW seq \in Nat, NEW c, c = Command("Seek", In, Sub, seq, Nil)
      PROVE  Proper(c) /\ c.op # "Publish"
  <2>1. c.op = "Seek" /\ c.topic = In /\ c.sub = Sub /\ c.seq = seq
    BY <1>5, CommandFields
  <2>2. QED
    BY <2>1, <1>0 DEF Proper, Ops
<1>6. CASE \E c \in {Command("EnsureTopic", In, Nil, Nil, Nil), Command("CloseTopic", In, Nil, Nil, Nil),
                     Command("CloseSubscription", In, Sub, Nil, Nil)} : bus' = Reduce(bus, c)
  <2>1. PICK c \in {Command("EnsureTopic", In, Nil, Nil, Nil), Command("CloseTopic", In, Nil, Nil, Nil),
                    Command("CloseSubscription", In, Sub, Nil, Nil)} : bus' = Reduce(bus, c)
    BY <1>6
  <2>2. QED
    BY <2>1, <1>1, <1>2, <1>3 DEF MessagingInv
<1>7. CASE \E strict \in BOOLEAN : bus' = Reduce(bus, [Command("TopicPolicy", Nil, Nil, Nil, Nil) EXCEPT !.payload = strict])
  <2>1. PICK strict \in BOOLEAN : bus' = Reduce(bus, [Command("TopicPolicy", Nil, Nil, Nil, Nil) EXCEPT !.payload = strict])
    BY <1>7
  <2> DEFINE c == [Command("TopicPolicy", Nil, Nil, Nil, Nil) EXCEPT !.payload = strict]
  <2>2. Proper(c) /\ c.op # "Publish" /\ bus' = Reduce(bus, c)
    BY <2>1, <1>4
  <2> HIDE DEF c
  <2>3. QED
    BY <2>2, <1>1, <1>2 DEF MessagingInv
<1>8. CASE \E seq \in 1..(MaxPublishes + 1) : bus' = Reduce(bus, Command("Seek", In, Sub, seq, Nil))
  <2>1. PICK seq \in 1..(MaxPublishes + 1) : bus' = Reduce(bus, Command("Seek", In, Sub, seq, Nil))
    BY <1>8
  <2> DEFINE c == Command("Seek", In, Sub, seq, Nil)
  <2>2. seq \in Nat
    BY <1>0
  <2>3. Proper(c) /\ c.op # "Publish" /\ bus' = Reduce(bus, c)
    BY <2>1, <2>2, <1>5
  <2> HIDE DEF c
  <2>4. QED
    BY <2>3, <1>1, <1>2 DEF MessagingInv
<1>9. CASE \E from \in {<<"Earliest">>, <<"Latest">>, <<"Seq", 2>>} : bus' = EnsureSubscription(bus, In, Sub, from)
  <2>1. PICK from \in {<<"Earliest">>, <<"Latest">>, <<"Seq", 2>>} : bus' = EnsureSubscription(bus, In, Sub, from)
    BY <1>9
  <2>2. from = <<"Earliest">> \/ from = <<"Latest">> \/ from[2] \in Nat
    OBVIOUS
  <2>3. (bus' = bus \/ (Sound(bus') /\ bus'.events = <<>>)) /\ bus'.log = bus.log
    BY <2>1, <2>2, <1>0, SubscribeSound
  <2>4. Sound(bus') /\ bus'.events = <<>>
    BY <2>3, <1>0
  <2>5. PayloadsOK'
    BY <2>3, <1>0 DEF PayloadsOK
  <2>6. QED
    BY <2>4, <2>5, <1>1 DEF MessagingInv
<1>10. QED
  BY <1>6, <1>7, <1>8, <1>9 DEF Administer

\* A command of the recipe reaches the bus.
LEMMA SendKeeps == ASSUME MessagingInv, Send PROVE MessagingInv'
<1> DEFINE c == Head(outbox)
<1>0. Sound(bus) /\ PayloadsOK /\ QueuesOK /\ outbox # <<>> /\ bus' = Reduce(bus, c) /\ outbox' = Tail(outbox) /\ inbox' = inbox
  BY DEF MessagingInv, Send
<1>1. IsSeq(Tail(outbox)) /\ MembersOf(Tail(outbox), outbox) /\ c = outbox[1] /\ 1 \in 1..Len(outbox)
  BY <1>0, TailMembers DEF QueuesOK
<1>2. Proper(c) /\ (c.op = "Publish" => c.topic = Out)
  BY <1>0, <1>1 DEF QueuesOK
<1>3. (Sound(bus) /\ bus.events = <<>> /\ PayloadsOK)'
  <2>1. ~(c.op = "Publish" /\ c.topic = In)
    BY <1>2, DeliveryAssumption
  <2> HIDE DEF c
  <2>2. QED
    BY <1>0, <1>2, <2>1, ReduceKeeps
<1>4. QueuesOK'
  <2>1. ASSUME NEW i \in 1..Len(outbox') PROVE Proper(outbox'[i]) /\ (outbox'[i].op = "Publish" => outbox'[i].topic = Out)
    BY <1>0, <1>1 DEF QueuesOK, MembersOf
  <2>2. IsSeq(outbox')
    BY <1>0, <1>1
  <2>3. QED
    BY <2>1, <2>2, <1>0 DEF QueuesOK, Proper
<1>5. QED
  BY <1>3, <1>4 DEF MessagingInv

\* An ack is a command the bus knows.
LEMMA AckProper ==
    ASSUME NEW seq \in Nat, NEW reason, NEW c, c = AckCommand(seq, reason)
    PROVE  Proper(c) /\ c.op # "Publish"
<1> DEFINE id == <<"ack", seq, reason>>
<1>1. c = Command("Ack", In, Sub, seq, id)
  BY DEF AckCommand
<1> HIDE DEF id
<1>2. c.op = "Ack" /\ c.topic = In /\ c.sub = Sub /\ c.seq = seq
  BY <1>1, CommandFields
<1>3. QED
  BY <1>2, DeliveryAssumption DEF Proper, Ops

\* So is the publish of an event, which goes to the outbox topic.
LEMMA OutboxProper ==
    ASSUME NEW e, NEW c, c = OutboxCommand(e)
    PROVE  Proper(c) /\ c.topic = Out
<1> DEFINE id == <<"outbox", e>>
<1>1. c = Publish(Out, e, id, e)
  BY DEF OutboxCommand
<1> HIDE DEF id
<1>2. QED
  BY <1>1, DeliveryAssumption, PublishFields

(* A page is lowered.                                                      *)
LEMMA PulledFacts ==
    ASSUME MessagingInv, NEW limit \in 1..2, NEW page, page = AvailableTo(bus, In, Sub, Nil, limit).items,
           NEW can \in BOOLEAN, NEW r, r = Lowered(page, can)
    PROVE  /\ IsSeq(r) /\ Len(r) \in Nat /\ DOMAIN r = 1..Len(r)
           /\ \A i \in 1..Len(r) : /\ r[i].seq \in Nat /\ r[i].payload \in Payloads
                                   /\ (r[i].payload.does # "garbled") = can
<1>0. Sound(bus) /\ PayloadsOK /\ In \in Topics /\ limit \in Nat \ {0}
  BY DeliveryAssumption DEF MessagingInv
<1>1. IsSeq(page) /\ MembersOf(page, bus.log[In])
  BY <1>0, PageMembers
<1>2. /\ IsSeq(r) /\ Len(r) \in Nat /\ DOMAIN r = 1..Len(r)
      /\ \A i \in 1..Len(r) : \E j \in 1..Len(page) : r[i] = page[j] /\ (page[j].payload.does # "garbled") = can
  <2>1. PartOf(r, page, can)
    BY <1>1, LoweredFacts
  <2>2. QED
    BY <2>1 DEF PartOf
<1>3. \A i \in 1..Len(bus.log[In]) : bus.log[In][i].seq = i /\ bus.log[In][i].payload \in Payloads /\ Len(bus.log[In]) \in Nat
  BY <1>0, SeqFacts DEF Sound, LogOf, PayloadsOK
<1>4. ASSUME NEW i \in 1..Len(r)
      PROVE  r[i].seq \in Nat /\ r[i].payload \in Payloads /\ (r[i].payload.does # "garbled") = can
  <2>1. PICK j \in 1..Len(page) : r[i] = page[j] /\ (page[j].payload.does # "garbled") = can
    BY <1>2
  <2>2. PICK k \in 1..Len(bus.log[In]) : page[j] = bus.log[In][k]
    BY <1>1 DEF MembersOf
  <2>3. k \in Nat /\ bus.log[In][k].seq = k /\ bus.log[In][k].payload \in Payloads
    BY <1>3
  <2>4. QED
    BY <2>1, <2>2, <2>3
<1>5. QED
  BY <1>2, <1>4

\* A page is delivered: acks of what cannot be lowered wait for the bus, the rest for the runtime.
LEMMA PullKeeps == ASSUME MessagingInv, NEW limit \in 1..2, Pull(limit) PROVE MessagingInv'
<1> DEFINE page == AvailableTo(bus, In, Sub, Nil, limit).items
           commands == Lowered(page, TRUE)
           garbled == Lowered(page, FALSE)
           acks == [i \in DOMAIN garbled |-> AckCommand(garbled[i].seq, "issue")]
           lowered == CommandsOf(commands)
<1>0. /\ Sound(bus) /\ bus.events = <<>> /\ PayloadsOK /\ QueuesOK
      /\ bus' = bus /\ inbox' = inbox \o lowered /\ outbox' = outbox \o acks
  BY DEF MessagingInv, Pull
<1>1. /\ Len(commands) \in Nat /\ DOMAIN commands = 1..Len(commands)
      /\ \A i \in 1..Len(commands) : commands[i].payload \in Payloads /\ commands[i].payload.does # "garbled"
  BY PulledFacts
<1>2. /\ Len(garbled) \in Nat /\ DOMAIN garbled = 1..Len(garbled)
      /\ \A i \in 1..Len(garbled) : garbled[i].seq \in Nat
  BY PulledFacts
<1> HIDE DEF page, commands, garbled
<1>3. IsSeq(acks) /\ Len(acks) = Len(garbled) /\ \A i \in 1..Len(acks) : acks[i] = AckCommand(garbled[i].seq, "issue")
  <2>1. acks = [i \in 1..Len(garbled) |-> acks[i]] /\ \A i \in 1..Len(garbled) : acks[i] = AckCommand(garbled[i].seq, "issue")
    BY <1>2
  <2> HIDE DEF acks
  <2>2. QED
    BY <2>1, <1>2, FunIsSeq
<1>4. IsSeq(lowered) /\ Len(lowered) = Len(commands) /\ \A i \in 1..Len(lowered) : lowered[i].does = commands[i].payload.does
  <2>1. /\ lowered = [i \in 1..Len(commands) |-> lowered[i]]
        /\ \A i \in 1..Len(commands) : lowered[i].does = commands[i].payload.does
    BY <1>1 DEF CommandsOf
  <2> HIDE DEF lowered
  <2>2. QED
    BY <2>1, <1>1, FunIsSeq
<1> HIDE DEF acks, lowered
<1>5. ASSUME NEW i \in 1..Len(outbox') PROVE Proper(outbox'[i]) /\ (outbox'[i].op = "Publish" => outbox'[i].topic = Out)
  <2>1. (\E j \in 1..Len(outbox) : outbox'[i] = outbox[j]) \/ (\E j \in 1..Len(acks) : outbox'[i] = acks[j])
    BY <1>0, <1>3, ConcatMembers DEF QueuesOK
  <2>2. ASSUME NEW j \in 1..Len(acks) PROVE Proper(acks[j]) /\ acks[j].op # "Publish"
    BY <1>2, <1>3, AckProper
  <2>3. QED
    BY <2>1, <2>2, <1>0 DEF QueuesOK
<1>6. ASSUME NEW i \in 1..Len(inbox') PROVE inbox'[i].does \in DOMAIN Handler
  <2>1. (\E j \in 1..Len(inbox) : inbox'[i] = inbox[j]) \/ (\E j \in 1..Len(lowered) : inbox'[i] = lowered[j])
    BY <1>0, <1>4, ConcatMembers DEF QueuesOK
  <2>2. ASSUME NEW j \in 1..Len(lowered) PROVE lowered[j].does \in DOMAIN Handler
    BY <1>1, <1>4, DeliveryAssumption
  <2>3. QED
    BY <2>1, <2>2, <1>0 DEF QueuesOK
<1>7. IsSeq(outbox') /\ IsSeq(inbox')
  BY <1>0, <1>3, <1>4, ConcatFacts DEF QueuesOK
<1>8. QueuesOK'
  BY <1>5, <1>6, <1>7 DEF QueuesOK, Proper
<1>9. QED
  BY <1>0, <1>8 DEF MessagingInv, PayloadsOK

\* A command is dispatched: its ack and its events wait for the bus.
LEMMA DispatchKeeps ==
    ASSUME MessagingInv, Dispatch,
           \A c \in DOMAIN deliveries : deliveries[c] # <<>> => Head(deliveries[c]) \in Nat
    PROVE  MessagingInv'
<1> DEFINE c == Head(inbox)
           o == ReduceCommand(c.id, c.does)
           published == [i \in DOMAIN o.events |-> OutboxCommand(o.events[i])]
           ack == <<AckCommand(ShiftDelivery(c.id), "status")>>
<1>0. /\ Sound(bus) /\ bus.events = <<>> /\ PayloadsOK /\ QueuesOK /\ inbox # <<>>
      /\ bus' = bus /\ inbox' = Tail(inbox)
  BY DEF MessagingInv, Dispatch
<1>1. IsSeq(Tail(inbox)) /\ MembersOf(Tail(inbox), inbox) /\ c = inbox[1] /\ 1 \in 1..Len(inbox)
  BY <1>0, TailMembers DEF QueuesOK
<1>2. c.does \in DOMAIN Handler
  BY <1>0, <1>1 DEF QueuesOK
<1>3. IsSeq(o.events)
  <2> HIDE DEF c
  <2>1. QED
    BY <1>2, ProcessEmits, CqrsEmits DEF ReduceCommand
<1>4. IsSeq(published) /\ \A i \in 1..Len(published) : Proper(published[i]) /\ published[i].topic = Out
  <2> DEFINE events == o.events
  <2>1. Len(events) \in Nat /\ DOMAIN events = 1..Len(events)
    BY <1>3, SeqFacts
  <2> HIDE DEF o
  <2>2. published = [i \in 1..Len(events) |-> published[i]] /\ \A i \in 1..Len(events) : published[i] = OutboxCommand(events[i])
    BY <2>1
  <2> HIDE DEF published, events
  <2>3. IsSeq(published) /\ Len(published) = Len(events)
    BY <2>1, <2>2, FunIsSeq
  <2>4. QED
    BY <2>2, <2>3, OutboxProper
<1>5. \/ /\ c.id \in DOMAIN deliveries /\ deliveries[c.id] # <<>> /\ outbox' = outbox \o ack \o published
      \/ outbox' = outbox \o published
  BY DEF Dispatch
<1>6. ASSUME c.id \in DOMAIN deliveries, deliveries[c.id] # <<>>
      PROVE  IsSeq(ack) /\ \A i \in 1..Len(ack) : Proper(ack[i]) /\ ack[i].op # "Publish"
  <2> DEFINE a == AckCommand(ShiftDelivery(c.id), "status")
  <2>1. Proper(a) /\ a.op # "Publish"
    BY <1>6, AckProper DEF ShiftDelivery
  <2> HIDE DEF a
  <2>2. IsSeq(<<a>>) /\ Len(<<a>>) = 1 /\ <<a>>[1] = a
    <3>1. <<a>> \in Seq({a}) /\ Len(<<a>>) = 1 /\ <<a>>[1] = a
      OBVIOUS
    <3>2. QED
      BY <3>1, SeqIsSeq
  <2>3. QED
    BY <2>1, <2>2 DEF a
<1> HIDE DEF c, o, published, ack
<1>7. ASSUME NEW more, IsSeq(more), \A i \in 1..Len(more) : Proper(more[i]) /\ (more[i].op = "Publish" => more[i].topic = Out),
             NEW box, IsSeq(box), \A i \in 1..Len(box) : Proper(box[i]) /\ (box[i].op = "Publish" => box[i].topic = Out)
      PROVE  /\ IsSeq(box \o more)
             /\ \A i \in 1..Len(box \o more) : Proper((box \o more)[i]) /\ ((box \o more)[i].op = "Publish" => (box \o more)[i].topic = Out)
  <2> DEFINE all == box \o more
  <2>1. IsSeq(all)
    BY <1>7, ConcatFacts
  <2>2. \A i \in 1..Len(all) : (\E j \in 1..Len(box) : all[i] = box[j]) \/ (\E j \in 1..Len(more) : all[i] = more[j])
    BY <1>7, ConcatMembers
  <2> HIDE DEF all
  <2>3. ASSUME NEW i \in 1..Len(all) PROVE Proper(all[i]) /\ (all[i].op = "Publish" => all[i].topic = Out)
    BY <2>2, <1>7
  <2>4. QED
    BY <2>1, <2>3 DEF all
<1>8. IsSeq(outbox') /\ \A i \in 1..Len(outbox') : Proper(outbox'[i]) /\ (outbox'[i].op = "Publish" => outbox'[i].topic = Out)
  <2>0. IsSeq(outbox) /\ \A i \in 1..Len(outbox) : Proper(outbox[i]) /\ (outbox[i].op = "Publish" => outbox[i].topic = Out)
    BY <1>0 DEF QueuesOK
  <2>1. CASE outbox' = outbox \o published
    BY <2>0, <2>1, <1>4, <1>7
  <2>2. CASE c.id \in DOMAIN deliveries /\ deliveries[c.id] # <<>> /\ outbox' = outbox \o ack \o published
    <3> DEFINE box == outbox \o ack
    <3>1. IsSeq(box) /\ \A i \in 1..Len(box) : Proper(box[i]) /\ (box[i].op = "Publish" => box[i].topic = Out)
      BY <2>0, <2>2, <1>6, <1>7
    <3>2. outbox' = box \o published
      BY <2>2
    <3> HIDE DEF box
    <3>3. QED
      BY <3>1, <3>2, <1>4, <1>7
  <2>3. QED
    BY <2>1, <2>2, <1>5
<1>9. QueuesOK'
  <2>1. ASSUME NEW i \in 1..Len(inbox') PROVE inbox'[i].does \in DOMAIN Handler
    BY <1>0, <1>1 DEF QueuesOK, MembersOf
  <2>2. QED
    BY <2>1, <1>0, <1>1, <1>8 DEF QueuesOK, Proper
<1>10. QED
  BY <1>0, <1>9 DEF MessagingInv, PayloadsOK

\* The outcome of an effect waits for the runtime.
LEMMA OutcomeKeeps == ASSUME MessagingInv, NEW e, NEW kind, EffectOutcome(e, kind) PROVE MessagingInv'
<1> DEFINE c == [id |-> <<"effect", e, kind>>, does |-> "settles", seq |-> Nil]
<1>0. /\ Sound(bus) /\ bus.events = <<>> /\ PayloadsOK /\ QueuesOK
      /\ bus' = bus /\ inbox' = Append(inbox, c) /\ outbox' = outbox
  BY DEF MessagingInv, EffectOutcome
<1>1. c.does \in DOMAIN Handler
  BY DeliveryAssumption
<1> HIDE DEF c
<1>2. /\ IsSeq(inbox') /\ Len(inbox') = Len(inbox) + 1 /\ inbox'[Len(inbox) + 1] = c /\ Len(inbox) \in Nat
      /\ \A i \in 1..Len(inbox) : inbox'[i] = inbox[i]
  <2>1. IsSeq(inbox) /\ Len(inbox) \in Nat
    BY <1>0, SeqFacts DEF QueuesOK
  <2>2. QED
    BY <2>1, <1>0, AppendFacts
<1>3. ASSUME NEW i \in 1..Len(inbox') PROVE inbox'[i].does \in DOMAIN Handler
  <2>1. i \in 1..Len(inbox) \/ i = Len(inbox) + 1
    BY <1>2
  <2>2. QED
    BY <2>1, <1>0, <1>1, <1>2 DEF QueuesOK
<1>4. QueuesOK'
  BY <1>0, <1>2, <1>3 DEF QueuesOK, Proper
<1>5. QED
  BY <1>0, <1>4 DEF MessagingInv, PayloadsOK

-----------------------------------------------------------------------------
(* Deliveries and the commands that wait: a command's deliveries are those *)
(* whose command had its outcome already, then those of the commands that  *)
(* still wait in the inbox, in the order of the inbox.                     *)

\* Places, and what their ranks are.
Bounded(A) == \E n \in Nat : A \in SUBSET (1..n)
Ranked(A) ==
    /\ \A i \in Nat : Rank(A, i) \in Nat /\ Rank(A, i + 1) = Rank(A, i) + IF i + 1 \in A THEN 1 ELSE 0
    /\ Rank(A, 0) = 0

\* Ranks count up, one at each place.
LEMMA RankSteps == ASSUME NEW A, Bounded(A) PROVE Ranked(A)
<1>1. PICK n \in Nat : A \in SUBSET (1..n)
  BY DEF Bounded
<1>2. QED
  BY <1>1, RankFacts DEF Ranked

\* The places of A after the d-th are those of B.
Shifted(A, B, d, m) == \A i \in 1..m : (d + i \in A <=> i \in B)
RanksShifted(A, B, d, m) == \A i \in 0..m : Rank(A, d + i) = Rank(A, d) + Rank(B, i)

\* Ranks behind a beginning are those of the rest, moved by the rank of the beginning.
LEMMA RankShift ==
    ASSUME NEW A, Bounded(A), NEW B, Bounded(B), NEW d \in Nat, NEW m \in Nat, Shifted(A, B, d, m)
    PROVE  RanksShifted(A, B, d, m)
<1> DEFINE T == {i \in 0..m : Rank(A, d + i) # Rank(A, d) + Rank(B, i)}
<1>1. /\ \A i \in Nat : Rank(A, i) \in Nat /\ Rank(A, i + 1) = Rank(A, i) + IF i + 1 \in A THEN 1 ELSE 0
      /\ \A i \in Nat : Rank(B, i) \in Nat /\ Rank(B, i + 1) = Rank(B, i) + IF i + 1 \in B THEN 1 ELSE 0
      /\ Rank(B, 0) = 0
  BY RankSteps DEF Ranked
<1>2. ASSUME T # {} PROVE FALSE
  <2>1. PICK i \in T : \A y \in T : i <= y
    <3>1. T \subseteq Nat /\ T # {}
      BY <1>2
    <3> HIDE DEF T
    <3>2. QED
      BY <3>1, LeastNat
  <2>2. i # 0
    <3>1. Rank(A, d + 0) = Rank(A, d) + Rank(B, 0)
      <4>1. d + 0 = d /\ Rank(A, d) \in Nat
        BY <1>1
      <4>2. QED
        BY <4>1, <1>1
    <3>2. QED
      BY <3>1
  <2> DEFINE j == i - 1
  <2>3. j \in Nat /\ j \in 0..m /\ j \notin T /\ j + 1 = i /\ d + j \in Nat /\ (d + j) + 1 = d + i /\ i \in 1..m
    BY <2>1, <2>2
  <2>4. Rank(A, d + j) = Rank(A, d) + Rank(B, j)
    BY <2>3
  <2> HIDE DEF j
  <2>5. Rank(A, d + i) = Rank(A, d + j) + IF d + i \in A THEN 1 ELSE 0
    BY <2>3, <1>1
  <2>6. Rank(B, i) = Rank(B, j) + IF i \in B THEN 1 ELSE 0
    BY <2>3, <1>1
  <2>7. Rank(A, d + i) = Rank(A, d) + Rank(B, i)
    <3>1. (d + i \in A <=> i \in B) /\ Rank(A, d) \in Nat /\ Rank(B, j) \in Nat
      BY <2>3, <1>1 DEF Shifted
    <3>2. QED
      BY <3>1, <2>4, <2>5, <2>6
  <2>8. QED
    BY <2>1, <2>7
<1>3. QED
  BY <1>2 DEF RanksShifted

\* A rank depends only on the places up to it.
LEMMA RankBelow ==
    ASSUME NEW A, NEW B, NEW i \in Nat, \A j \in Nat : j <= i => (j \in A <=> j \in B), A \subseteq Nat, B \subseteq Nat
    PROVE  Rank(A, i) = Rank(B, i)
<1>1. {j \in A : j <= i} = {j \in B : j <= i}
  OBVIOUS
<1>2. QED
  BY <1>1 DEF Rank

Places(box, c) == {i \in 1..Len(box) : box[i].id = c}
Matched(c, off, box, due, done) ==
    /\ off \in Nat /\ Len(due) = off + Rank(Places(box, c), Len(box))
    /\ \A i \in Places(box, c) : due[off + Rank(Places(box, c), i)] = box[i].seq
    /\ \A k \in 1..off : due[k] \in done

\* The commands of one id in the inbox, and their ranks.
LEMMA PlacesFacts ==
    ASSUME NEW box, IsSeq(box), NEW c
    PROVE  /\ Len(box) \in Nat /\ Places(box, c) \in SUBSET (1..Len(box))
           /\ \A i \in Nat : Rank(Places(box, c), i) \in Nat
           /\ \A i \in Places(box, c) : /\ i \in 1..Len(box) /\ Rank(Places(box, c), i) >= 1
                                        /\ Rank(Places(box, c), i) <= Rank(Places(box, c), Len(box))
           /\ Rank(Places(box, c), Len(box)) = Cardinality(Places(box, c))
           /\ Rank(Places(box, c), 1) = IF 1 \in Places(box, c) THEN 1 ELSE 0
<1> DEFINE n == Len(box)
           P == Places(box, c)
<1>1. n \in Nat /\ P \in SUBSET (1..n)
  BY SeqFacts DEF Places
<1> HIDE DEF n, P
<1>2. /\ \A i \in Nat : Rank(P, i) \in Nat /\ Rank(P, i) <= Cardinality(P)
      /\ Rank(P, 0) = 0 /\ Rank(P, n) = Cardinality(P)
      /\ \A i \in Nat : Rank(P, i + 1) = Rank(P, i) + IF i + 1 \in P THEN 1 ELSE 0
  BY <1>1, RankFacts
<1>3. Rank(P, 1) = IF 1 \in P THEN 1 ELSE 0
  <2>1. 0 \in Nat /\ 0 + 1 = 1
    OBVIOUS
  <2>2. Rank(P, 0 + 1) = Rank(P, 0) + IF 0 + 1 \in P THEN 1 ELSE 0
    BY <1>2, <2>1
  <2>3. QED
    BY <1>2, <2>1, <2>2
<1>4. ASSUME NEW i \in P PROVE i \in 1..n /\ Rank(P, i) >= 1 /\ Rank(P, i) <= Rank(P, n)
  <2>0. i \in 1..n /\ i \in Nat
    BY <1>1
  <2> DEFINE j == i - 1
  <2>1. j \in Nat /\ j + 1 = i
    BY <1>1, <2>0
  <2> HIDE DEF j
  <2>2. Rank(P, i) = Rank(P, j) + 1 /\ Rank(P, j) \in Nat
    BY <1>2, <2>1
  <2>3. QED
    BY <2>0, <2>2, <1>2
<1>5. QED
  BY <1>1, <1>2, <1>3, <1>4 DEF n, P

(* A page is delivered.                                                    *)
SeqsIn(seqs, page) == IsSeq(seqs) /\ \A k \in 1..Len(seqs) : \E i \in 1..Len(page) : seqs[k] = page[i].seq

\* Deliveries and commands of a page come in the same order and stay matched.
LEMMA MatchedPull ==
    ASSUME NEW c, NEW off, NEW box, IsSeq(box), NEW due, IsSeq(due), NEW done, Matched(c, off, box, due, done),
           NEW page, IsSeq(page), NEW new, done \subseteq new,
           NEW more, more = CommandsOf(page), NEW seqs, seqs = DeliveriesOf(page, c)
    PROVE  SeqsIn(seqs, page) /\ Matched(c, off, box \o more, due \o seqs, new)
<1> DEFINE n == Len(box)
           m == Len(page)
           P == Places(box, c)
           Q == {i \in DOMAIN page : page[i].payload.cmd = c}
           only == Only(page, Q)
           all == box \o more
           R == Places(all, c)
           dues == due \o seqs
<1>1. n \in Nat /\ m \in Nat /\ DOMAIN page = 1..m /\ Len(due) \in Nat
  BY SeqFacts
<1>2. P \in SUBSET (1..n) /\ \A i \in 1..n : i \in P <=> box[i].id = c
  BY DEF Places
<1>3. Q \in SUBSET (1..m) /\ \A i \in 1..m : i \in Q <=> page[i].payload.cmd = c
  BY <1>1
<1>4. IsSeq(more) /\ Len(more) = m /\ \A i \in 1..m : more[i].id = page[i].payload.cmd /\ more[i].seq = page[i].seq
  <2>1. more = [i \in 1..m |-> more[i]] /\ \A i \in 1..m : more[i].id = page[i].payload.cmd /\ more[i].seq = page[i].seq
    BY <1>1 DEF CommandsOf
  <2> HIDE DEF m
  <2>2. QED
    BY <2>1, <1>1, FunIsSeq
<1>o. seqs = SeqsOf(only)
  BY DEF DeliveriesOf
<1>r. R = {i \in 1..Len(all) : all[i].id = c}
  BY DEF Places
<1>p. /\ off \in Nat /\ Len(due) = off + Rank(P, n) /\ (\A i \in P : due[off + Rank(P, i)] = box[i].seq)
      /\ \A k \in 1..off : due[k] \in done
  BY DEF Matched
<1>x. all = box \o more /\ dues = due \o seqs
  OBVIOUS
<1> HIDE DEF n, m, P, Q, only, all, R, dues
<1>5. IsSeq(only) /\ Len(only) = Cardinality(Q) /\ Cardinality(Q) \in Nat /\ DOMAIN only = 1..Cardinality(Q)
  <2>1. IsSeq(only) /\ Len(only) = Cardinality(Q) /\ Cardinality(Q) \in Nat
    BY <1>1, <1>3, OnlyIsSeq DEF only
  <2>2. QED
    BY <2>1, SeqFacts
<1>6. IsSeq(seqs) /\ Len(seqs) = Cardinality(Q) /\ \A k \in 1..Cardinality(Q) : seqs[k] = only[k].seq
  <2>1. seqs = [k \in 1..Cardinality(Q) |-> seqs[k]] /\ \A k \in 1..Cardinality(Q) : seqs[k] = only[k].seq
    BY <1>o, <1>5 DEF SeqsOf
  <2>2. QED
    BY <2>1, <1>5, FunIsSeq
<1>7. /\ IsSeq(all) /\ Len(all) = n + m /\ (\A i \in 1..n : all[i] = box[i]) /\ (\A i \in 1..m : all[n + i] = more[i])
  BY <1>4, <1>x, ConcatFacts DEF n
<1>8. /\ IsSeq(dues) /\ Len(dues) = Len(due) + Len(seqs)
      /\ (\A i \in 1..Len(due) : dues[i] = due[i]) /\ (\A i \in 1..Len(seqs) : dues[Len(due) + i] = seqs[i])
  <2>1. IsSeq(due) /\ IsSeq(seqs)
    BY <1>6
  <2>2. /\ IsSeq(due \o seqs) /\ Len(due \o seqs) = Len(due) + Len(seqs)
        /\ (\A i \in 1..Len(due) : (due \o seqs)[i] = due[i])
        /\ (\A i \in 1..Len(seqs) : (due \o seqs)[Len(due) + i] = seqs[i])
    BY <2>1, ConcatFacts
  <2>3. QED
    BY <2>2, <1>x
<1>9. /\ R \in SUBSET (1..(n + m)) /\ (\A i \in 1..n : i \in R <=> i \in P) /\ (\A i \in 1..m : n + i \in R <=> i \in Q)
  <2>1. R \in SUBSET (1..(n + m))
    BY <1>r, <1>7
  <2>2. ASSUME NEW i \in 1..n PROVE i \in R <=> i \in P
    BY <1>1, <1>2, <1>7, <1>r
  <2>3. ASSUME NEW i \in 1..m PROVE n + i \in R <=> i \in Q
    <3>1. n + i \in 1..(n + m)
      BY <1>1
    <3>2. QED
      BY <3>1, <1>3, <1>4, <1>7, <1>r
  <2>4. QED
    BY <2>1, <2>2, <2>3
<1>10. \A i \in 0..n : Rank(R, i) = Rank(P, i)
  <2> TAKE i \in 0..n
  <2>1. i \in Nat /\ R \subseteq Nat /\ P \subseteq Nat /\ \A j \in Nat : j <= i => (j \in R <=> j \in P)
    <3>1. i \in Nat /\ R \subseteq Nat /\ P \subseteq Nat /\ 0 \notin R /\ 0 \notin P
      BY <1>1, <1>2, <1>9
    <3>2. ASSUME NEW j \in Nat, j <= i PROVE j \in R <=> j \in P
      <4>1. j = 0 \/ j \in 1..n
        BY <1>1, <3>2
      <4>2. QED
        BY <4>1, <3>1, <1>9
    <3>3. QED
      BY <3>1, <3>2
  <2>2. QED
    BY <2>1, RankBelow
<1>11. \A i \in 0..m : Rank(R, n + i) = Rank(R, n) + Rank(Q, i)
  <2>1. n + m \in Nat
    BY <1>1
  <2>2. Bounded(R) /\ Bounded(Q)
    BY <2>1, <1>1, <1>3, <1>9 DEF Bounded
  <2>3. Shifted(R, Q, n, m)
    BY <1>9 DEF Shifted
  <2>4. RanksShifted(R, Q, n, m)
    BY <2>2, <2>3, <1>1, RankShift
  <2>5. QED
    BY <2>4 DEF RanksShifted
<1>12. Rank(R, n) = Rank(P, n) /\ Rank(R, n + m) = Rank(P, n) + Rank(Q, m) /\ Rank(Q, m) = Cardinality(Q)
       /\ Rank(P, n) \in Nat
  <2>1. n \in 0..n /\ m \in 0..m
    BY <1>1
  <2>2. Rank(Q, m) = Cardinality(Q)
    BY <1>1, <1>3, RankFacts
  <2>3. Rank(P, n) \in Nat
    BY <1>1, <1>2, RankFacts
  <2>4. QED
    BY <2>1, <2>2, <2>3, <1>10, <1>11
<1>13. Len(dues) = off + Rank(R, Len(all))
  BY <1>1, <1>5, <1>6, <1>7, <1>8, <1>12, <1>p
<1>14. ASSUME NEW i \in R PROVE dues[off + Rank(R, i)] = all[i].seq
  <2>1. CASE i \in 1..n
    <3>1. i \in P /\ Rank(R, i) = Rank(P, i) /\ all[i] = box[i]
      BY <2>1, <1>1, <1>7, <1>9, <1>10
    <3>2. off + Rank(P, i) \in 1..Len(due)
      <4>1. Rank(P, i) >= 1 /\ Rank(P, i) <= Rank(P, n) /\ Rank(P, i) \in Nat
        BY <3>1, <2>1, PlacesFacts DEF P, n
      <4>2. QED
        BY <4>1, <1>1, <1>12, <1>p
    <3>3. QED
      BY <3>1, <3>2, <1>8, <1>p
  <2>2. CASE i \notin 1..n
    <3> DEFINE j == i - n
    <3>1. j \in 1..m /\ n + j = i /\ j \in 0..m
      BY <2>2, <1>1, <1>9
    <3> HIDE DEF j
    <3>2. j \in Q /\ all[i].seq = page[j].seq
      BY <3>1, <1>4, <1>7, <1>9
    <3>3. Rank(R, i) = Rank(P, n) + Rank(Q, j)
      BY <3>1, <1>11, <1>12
    <3>4. Rank(Q, j) \in 1..Cardinality(Q) /\ only[Rank(Q, j)] = page[j]
      <4> DEFINE k == Rank(Q, j)
      <4>1. k = Rank(Q, j)
        OBVIOUS
      <4> HIDE DEF k
      <4>2. k \in 1..Cardinality(Q) /\ Only(page, Q)[k] = page[j]
        BY ZenonT(30), <4>1, <3>2, <1>1, <1>3, OnlyAt
      <4>3. QED
        BY <4>1, <4>2 DEF only
    <3>5. off + Rank(R, i) = Len(due) + Rank(Q, j)
      BY <3>3, <3>4, <1>5, <1>12, <1>p
    <3>6. dues[Len(due) + Rank(Q, j)] = seqs[Rank(Q, j)] /\ seqs[Rank(Q, j)] = only[Rank(Q, j)].seq
      BY <3>4, <1>6, <1>8
    <3>7. QED
      BY <3>2, <3>4, <3>5, <3>6
  <2>3. QED
    BY <2>1, <2>2
<1>15. ASSUME NEW k \in 1..off PROVE dues[k] \in new
  <2>1. k \in 1..Len(due)
    BY <1>1, <1>12, <1>p
  <2>2. QED
    BY <2>1, <1>8, <1>p
<1>16. Matched(c, off, all, dues, new)
  BY <1>13, <1>14, <1>15, <1>p DEF Matched, R
<1>17. ASSUME NEW k \in 1..Len(seqs) PROVE \E i \in 1..m : seqs[k] = page[i].seq
  <2>1. k \in 1..Cardinality(Q) /\ seqs[k] = only[k].seq
    BY <1>6
  <2>2. \E i \in Q : Rank(Q, i) = k /\ Only(page, Q)[k] = page[i]
    <3>1. m \in Nat /\ Q \in SUBSET (1..m) /\ k \in 1..Cardinality(Q)
      BY <2>1, <1>1, <1>3
    <3>2. QED
      BY <3>1, OnlyFrom
  <2>3. QED
    BY <2>1, <2>2, <1>3 DEF only
<1>18. QED
  BY <1>6, <1>16, <1>17, <1>x DEF m, SeqsIn

(* The first command of the inbox is taken.                                *)
LEMMA TailPlaces ==
    ASSUME NEW box, IsSeq(box), box # <<>>, NEW c
    PROVE  /\ \A i \in Places(Tail(box), c) : i + 1 \in Places(box, c) /\ Tail(box)[i].seq = box[i + 1].seq
           /\ \A i \in 0..Len(Tail(box)) :
                  Rank(Places(box, c), i + 1) = (IF box[1].id = c THEN 1 ELSE 0) + Rank(Places(Tail(box), c), i)
           /\ Len(Tail(box)) \in Nat /\ Len(box) = Len(Tail(box)) + 1
<1> DEFINE rest == Tail(box)
           P == Places(box, c)
           Q == Places(rest, c)
           m == Len(rest)
<1>1. /\ IsSeq(rest) /\ Len(box) \in Nat /\ Len(box) > 0 /\ Len(rest) = Len(box) - 1
      /\ \A i \in 1..Len(box) - 1 : rest[i] = box[i + 1]
  BY TailFacts
<1>r. rest = Tail(box) /\ m = Len(rest)
  OBVIOUS
<1> HIDE DEF rest, m
<1>2. m \in Nat /\ Len(box) = m + 1 /\ \A i \in 1..m : rest[i] = box[i + 1]
  BY <1>1, <1>r
<1>3. /\ P \in SUBSET (1..(m + 1)) /\ (\A i \in 1..(m + 1) : i \in P <=> box[i].id = c)
      /\ Q \in SUBSET (1..m) /\ (\A i \in 1..m : i \in Q <=> rest[i].id = c)
  BY <1>2, <1>r DEF Places
<1>4. Rank(P, 1) = IF 1 \in P THEN 1 ELSE 0
  BY PlacesFacts
<1> HIDE DEF P, Q
<1>5. ASSUME NEW i \in 1..m PROVE (1 + i \in P <=> i \in Q) /\ 1 + i = i + 1
  <2>1. 1 + i \in 1..(m + 1) /\ 1 + i = i + 1
    BY <1>2
  <2>2. QED
    BY <2>1, <1>2, <1>3
<1>6. RanksShifted(P, Q, 1, m)
  <2>1. Bounded(P) /\ Bounded(Q) /\ 1 \in Nat
    <3>1. m + 1 \in Nat
      BY <1>2
    <3>2. QED
      BY <3>1, <1>2, <1>3 DEF Bounded
  <2>2. Shifted(P, Q, 1, m)
    BY <1>5 DEF Shifted
  <2>3. QED
    BY <2>1, <2>2, <1>2, RankShift
<1>7. 1 \in P <=> box[1].id = c
  BY <1>2, <1>3
<1>8. ASSUME NEW i \in 0..m PROVE Rank(P, i + 1) = (IF box[1].id = c THEN 1 ELSE 0) + Rank(Q, i)
  <2>1. 1 + i = i + 1
    BY <1>2
  <2>2. QED
    BY <2>1, <1>4, <1>6, <1>7 DEF RanksShifted
<1>9. ASSUME NEW i \in Q PROVE i + 1 \in P /\ rest[i].seq = box[i + 1].seq
  BY <1>2, <1>3, <1>5
<1>10. QED
  BY <1>2, <1>8, <1>9, <1>r DEF P, Q

\* Its outcome leaves its delivery in place.
LEMMA MatchedKept ==
    ASSUME NEW c, NEW off, NEW box, IsSeq(box), box # <<>>, NEW due, IsSeq(due), NEW done, Matched(c, off, box, due, done),
           NEW new, done \subseteq new, box[1].seq \in new \/ box[1].id # c
    PROVE  Matched(c, off + (IF box[1].id = c THEN 1 ELSE 0), Tail(box), due, new)
<1> DEFINE rest == Tail(box)
           P == Places(box, c)
           Q == Places(rest, c)
           m == Len(rest)
           one == IF box[1].id = c THEN 1 ELSE 0
<1>1. /\ \A i \in Q : i + 1 \in P /\ rest[i].seq = box[i + 1].seq
      /\ \A i \in 0..m : Rank(P, i + 1) = one + Rank(Q, i)
      /\ m \in Nat /\ Len(box) = m + 1
  BY TailPlaces
<1>2. /\ off \in Nat /\ Len(due) = off + Rank(P, m + 1) /\ (\A i \in P : due[off + Rank(P, i)] = box[i].seq)
      /\ \A k \in 1..off : due[k] \in done
  BY <1>1 DEF Matched
<1>3. /\ \A i \in Nat : Rank(Q, i) \in Nat
      /\ \A i \in Q : i \in 1..m
  <2>1. IsSeq(rest)
    BY TailFacts
  <2>2. QED
    BY <2>1, PlacesFacts
<1>4. box[1].id = c => 1 \in P /\ Rank(P, 1) = 1
  <2>1. Rank(P, 1) = IF 1 \in P THEN 1 ELSE 0
    BY PlacesFacts
  <2>2. box[1].id = c => 1 \in P
    BY <1>1 DEF Places
  <2>3. QED
    BY <2>1, <2>2
<1>o. one \in {0, 1} /\ (one = 1 <=> box[1].id = c)
  OBVIOUS
<1> HIDE DEF P, Q, m, one, rest
<1>5. Len(due) = off + one + Rank(Q, m)
  <2>1. m \in 0..m /\ Rank(Q, m) \in Nat
    BY <1>1, <1>3
  <2>2. Rank(P, m + 1) = one + Rank(Q, m)
    BY <2>1, <1>1
  <2>3. QED
    BY <2>1, <2>2, <1>2, <1>o
<1>6. ASSUME NEW i \in Q PROVE due[off + one + Rank(Q, i)] = rest[i].seq
  <2>1. i \in 0..m /\ Rank(Q, i) \in Nat
    BY <1>1, <1>3
  <2>2. Rank(P, i + 1) = one + Rank(Q, i)
    BY <2>1, <1>1
  <2>3. off + Rank(P, i + 1) = off + one + Rank(Q, i)
    BY <2>1, <2>2, <1>2, <1>o
  <2>4. due[off + Rank(P, i + 1)] = box[i + 1].seq
    BY <1>1, <1>2
  <2>5. QED
    BY <2>3, <2>4, <1>1
<1>7. ASSUME NEW k \in 1..(off + one) PROVE due[k] \in new
  <2>1. CASE k \in 1..off
    BY <2>1, <1>2
  <2>2. CASE k \notin 1..off
    <3>1. one = 1 /\ k = off + 1
      BY <2>2, <1>2, <1>o
    <3>2. 1 \in P /\ Rank(P, 1) = 1
      BY <3>1, <1>4, <1>o
    <3>3. due[off + 1] = box[1].seq
      BY <3>2, <1>2
    <3>4. QED
      BY <3>1, <3>3, <1>o
  <2>3. QED
    BY <2>1, <2>2
<1>8. off + one \in Nat
  BY <1>2, <1>o
<1>9. Matched(c, off + one, rest, due, new)
  BY <1>5, <1>6, <1>7, <1>8 DEF Matched, Q, m
<1>10. QED
  BY <1>9 DEF one, rest

\* Its outcome takes the oldest delivery of its id.
Oldest(due, off, seq, done) == due # <<>> /\ Head(due) \in done /\ (off = 0 => Head(due) = seq)

\* The oldest delivery of the id is the one of an outcome, and the rest stays matched.
LEMMA MatchedShifted ==
    ASSUME NEW c, NEW off, NEW box, IsSeq(box), box # <<>>, box[1].id = c, NEW due, IsSeq(due), NEW done,
           Matched(c, off, box, due, done), NEW new, done \subseteq new, box[1].seq \in new
    PROVE  Oldest(due, off, box[1].seq, new) /\ Matched(c, off, Tail(box), Tail(due), new)
<1> DEFINE rest == Tail(box)
           P == Places(rest, c)
           m == Len(rest)
<1>1. Matched(c, off + 1, rest, due, new)
  <2>1. Matched(c, off + (IF box[1].id = c THEN 1 ELSE 0), rest, due, new)
    BY MatchedKept
  <2>2. QED
    BY <2>1
<1>0. off \in Nat
  BY DEF Matched
<1>2. /\ Len(due) = (off + 1) + Rank(P, m) /\ (\A i \in P : due[(off + 1) + Rank(P, i)] = rest[i].seq)
      /\ \A k \in 1..(off + 1) : due[k] \in new
  BY <1>1 DEF Matched
<1>3. m \in Nat /\ Rank(P, m) \in Nat /\ \A i \in P : i \in 1..m /\ Rank(P, i) \in Nat /\ Rank(P, i) >= 1 /\ Rank(P, i) <= Rank(P, m)
  <2>1. IsSeq(rest)
    BY TailFacts
  <2>2. /\ m \in Nat /\ \A i \in Nat : Rank(P, i) \in Nat
        /\ \A i \in P : i \in 1..m /\ Rank(P, i) >= 1 /\ Rank(P, i) <= Rank(P, m)
    BY <2>1, PlacesFacts
  <2>3. QED
    BY <2>2
<1>4. off = 0 => due[1] = box[1].seq
  <2>1. \A i \in Places(box, c) : due[off + Rank(Places(box, c), i)] = box[i].seq
    BY DEF Matched
  <2>2. 1 \in Places(box, c) /\ Rank(Places(box, c), 1) = 1
    <3>1. Len(box) \in Nat /\ Len(box) > 0
      BY TailFacts
    <3>2. 1 \in Places(box, c)
      BY <3>1 DEF Places
    <3>3. Rank(Places(box, c), 1) = IF 1 \in Places(box, c) THEN 1 ELSE 0
      BY PlacesFacts
    <3>4. QED
      BY <3>2, <3>3
  <2>3. QED
    BY <2>1, <2>2
<1> HIDE DEF P, m, rest
<1>5. Len(due) \in Nat /\ Len(due) >= off + 1 /\ Len(due) >= 1
  BY <1>0, <1>2, <1>3
<1>6. due # <<>>
  BY <1>5, EmptyIsSeq
<1>7. /\ Len(Tail(due)) = Len(due) - 1 /\ Head(due) = due[1] /\ \A i \in 1..Len(due) - 1 : Tail(due)[i] = due[i + 1]
  BY <1>6, TailFacts
<1>8. Len(Tail(due)) = off + Rank(P, m)
  BY <1>0, <1>2, <1>3, <1>7
<1>9. ASSUME NEW i \in P PROVE Tail(due)[off + Rank(P, i)] = rest[i].seq
  <2>1. off + Rank(P, i) \in 1..Len(due) - 1 /\ (off + Rank(P, i)) + 1 = (off + 1) + Rank(P, i)
    <3>1. Rank(P, i) \in Nat /\ Rank(P, i) >= 1 /\ Rank(P, i) <= Rank(P, m)
      BY <1>3
    <3>2. Len(due) = (off + 1) + Rank(P, m) /\ Rank(P, m) \in Nat
      BY <1>2, <1>3
    <3>3. Len(due) - 1 = off + Rank(P, m)
      BY <3>2, <1>0
    <3>4. QED
      BY <3>1, <3>2, <3>3, <1>0
  <2>2. QED
    BY <2>1, <1>2, <1>7
<1>10. ASSUME NEW k \in 1..off PROVE Tail(due)[k] \in new
  <2>1. k \in 1..Len(due) - 1 /\ k + 1 \in 1..(off + 1)
    BY <1>0, <1>5
  <2>2. QED
    BY <2>1, <1>2, <1>7
<1>11. Matched(c, off, rest, Tail(due), new)
  BY <1>0, <1>8, <1>9, <1>10 DEF Matched, P, m
<1>12. Head(due) \in new
  BY <1>0, <1>2, <1>7
<1>13. QED
  BY <1>4, <1>6, <1>7, <1>11, <1>12 DEF rest, Oldest

\* A command of another id comes.
LEMMA MatchedAppend ==
    ASSUME NEW c, NEW off, NEW box, IsSeq(box), NEW due, NEW done, Matched(c, off, box, due, done), NEW x, x.id # c
    PROVE  Matched(c, off, Append(box, x), due, done)
<1> DEFINE all == Append(box, x)
           n == Len(box)
           P == Places(box, c)
           Q == Places(all, c)
<1>1. /\ n \in Nat /\ IsSeq(all) /\ Len(all) = n + 1 /\ all[n + 1] = x /\ \A i \in 1..n : all[i] = box[i]
  <2>1. n \in Nat
    BY SeqFacts
  <2>2. QED
    BY <2>1, AppendFacts
<1>2. /\ off \in Nat /\ Len(due) = off + Rank(P, n) /\ (\A i \in P : due[off + Rank(P, i)] = box[i].seq)
      /\ \A k \in 1..off : due[k] \in done
  BY DEF Matched
<1>3. Q = P /\ P \in SUBSET (1..n)
  <2>1. P = {i \in 1..n : box[i].id = c} /\ Q = {i \in 1..Len(all) : all[i].id = c}
    BY DEF Places
  <2> HIDE DEF all, n
  <2>2. \A i \in 1..(n + 1) : i \in 1..n \/ i = n + 1
    BY <1>1
  <2>3. QED
    BY <2>1, <2>2, <1>1
<1> HIDE DEF all, n, P, Q
<1>4. Rank(P, n + 1) = Rank(P, n)
  <2>1. Bounded(P) /\ n + 1 \notin P
    BY <1>1, <1>3 DEF Bounded
  <2>2. Ranked(P)
    BY <2>1, RankSteps
  <2>3. Rank(P, n + 1) = Rank(P, n) + IF n + 1 \in P THEN 1 ELSE 0
    BY <2>2, <1>1 DEF Ranked
  <2>4. Rank(P, n) \in Nat
    BY <2>2, <1>1 DEF Ranked
  <2>5. QED
    BY <2>1, <2>3, <2>4
<1>5. Matched(c, off, all, due, done)
  <2>1. Len(due) = off + Rank(Q, Len(all))
    BY <1>1, <1>2, <1>3, <1>4
  <2>2. ASSUME NEW i \in Q PROVE due[off + Rank(Q, i)] = all[i].seq
    BY <1>1, <1>2, <1>3
  <2>3. QED
    BY <2>1, <2>2, <1>2 DEF Matched, Q
<1>6. QED
  BY <1>5 DEF all

-----------------------------------------------------------------------------
(* Acks and outcomes                                                       *)

Ids == IdsOf(Payloads)
Due(c, due, box, done, all) ==
    /\ IsSeq(due) /\ \A k \in 1..Len(due) : due[k] \in Nat
    /\ \E off : Matched(c, off, box, due, done) /\ (all => off = 0)
DeliveriesOK ==
    /\ deliveries = [c \in Ids |-> deliveries[c]]
    /\ \A c \in Ids : Due(c, deliveries[c], inbox, settled, ackRejected)
    /\ \A i \in 1..Len(inbox) : inbox[i].id \in Ids \/ inbox[i].seq = Nil

RecipeInv == MessagingInv /\ DeliveriesOK /\ AcksFollowOutcomes

\* At the start nothing was delivered.
LEMMA RecipeStart == DeliveryInit => RecipeInv
<1> SUFFICES ASSUME DeliveryInit PROVE RecipeInv
  OBVIOUS
<1>1. deliveries = [c \in Ids |-> <<>>] /\ inbox = <<>> /\ settled = {} /\ acked = {}
  BY DEF DeliveryInit, Ids
<1>2. ASSUME NEW c \in Ids PROVE Due(c, deliveries[c], inbox, settled, ackRejected)
  <2>1. deliveries[c] = <<>> /\ IsSeq(<<>>) /\ Len(<<>>) = 0
    BY <1>1, EmptyIsSeq
  <2>2. Places(inbox, c) = {}
    BY <1>1, <2>1 DEF Places
  <2>3. Rank(Places(inbox, c), Len(inbox)) = 0
    <3>1. Bounded(Places(inbox, c))
      BY <2>2 DEF Bounded
    <3>2. QED
      BY <3>1, <1>1, <2>1, RankSteps DEF Ranked
  <2>4. Matched(c, 0, inbox, deliveries[c], settled)
    BY <2>1, <2>2, <2>3 DEF Matched
  <2>5. QED
    BY <2>1, <2>4 DEF Due
<1>3. DeliveriesOK
  BY <1>1, <1>2, EmptyIsSeq DEF DeliveriesOK
<1>4. QED
  BY <1>1, <1>3, MessagingStart DEF RecipeInv, AcksFollowOutcomes

\* A step that leaves the recipe's own state alone.
LEMMA RecipeIdle ==
    ASSUME RecipeInv, inbox' = inbox, deliveries' = deliveries, settled' = settled, acked' = acked, ackRejected' = ackRejected
    PROVE  DeliveriesOK' /\ AcksFollowOutcomes'
<1>1. DeliveriesOK /\ AcksFollowOutcomes
  BY DEF RecipeInv
<1>2. AcksFollowOutcomes'
  BY <1>1 DEF AcksFollowOutcomes
<1>3. DeliveriesOK'
  BY <1>1 DEF DeliveriesOK, Due, Ids
<1>4. QED
  BY <1>2, <1>3

\* Pull appends the deliveries of a page in the order of its commands; issues are settled and acked at once.
LEMMA PullAcks == ASSUME RecipeInv, NEW limit \in 1..2, Pull(limit) PROVE DeliveriesOK' /\ AcksFollowOutcomes'
<1> DEFINE page == AvailableTo(bus, In, Sub, Nil, limit).items
           commands == Lowered(page, TRUE)
           garbled == Lowered(page, FALSE)
           issues == Range(SeqsOf(garbled))
           more == CommandsOf(commands)
<1>0. /\ MessagingInv /\ DeliveriesOK /\ AcksFollowOutcomes /\ QueuesOK
      /\ deliveries' = [c \in DOMAIN deliveries |-> deliveries[c] \o DeliveriesOf(commands, c)]
      /\ inbox' = inbox \o more /\ settled' = settled \cup issues /\ acked' = acked \cup issues /\ ackRejected' = ackRejected
  BY DEF RecipeInv, MessagingInv, Pull
<1>1. /\ IsSeq(commands) /\ Len(commands) \in Nat /\ DOMAIN commands = 1..Len(commands)
      /\ \A i \in 1..Len(commands) : commands[i].seq \in Nat /\ commands[i].payload \in Payloads
  BY <1>0, PulledFacts
<1>m. more = CommandsOf(commands)
  OBVIOUS
<1> HIDE DEF page, commands, garbled, issues, more
<1>2. AcksFollowOutcomes'
  BY <1>0 DEF AcksFollowOutcomes
<1>3. deliveries' = [c \in Ids |-> deliveries[c] \o DeliveriesOf(commands, c)]
  BY <1>0 DEF DeliveriesOK
<1>4. ASSUME NEW c \in Ids PROVE Due(c, deliveries'[c], inbox', settled', ackRejected')
  <2> DEFINE due == deliveries[c]
             seqs == DeliveriesOf(commands, c)
  <2>0. deliveries'[c] = due \o seqs /\ seqs = DeliveriesOf(commands, c)
    BY <1>3
  <2>1. Due(c, due, inbox, settled, ackRejected) /\ IsSeq(inbox)
    BY <1>0 DEF DeliveriesOK, QueuesOK
  <2> HIDE DEF due, seqs
  <2>2. PICK off : Matched(c, off, inbox, due, settled) /\ (ackRejected => off = 0)
    BY <2>1 DEF Due
  <2>3. IsSeq(due) /\ \A k \in 1..Len(due) : due[k] \in Nat
    BY <2>1 DEF Due
  <2>4. settled \subseteq settled'
    BY <1>0
  <2>5. /\ IsSeq(seqs) /\ \A k \in 1..Len(seqs) : \E i \in 1..Len(commands) : seqs[k] = commands[i].seq
        /\ Matched(c, off, inbox \o more, due \o seqs, settled')
    <3> DEFINE new == settled'
    <3>1. IsSeq(inbox) /\ IsSeq(due) /\ Matched(c, off, inbox, due, settled) /\ IsSeq(commands) /\ settled \subseteq new
      BY <1>1, <2>1, <2>2, <2>3, <2>4
    <3>2. more = CommandsOf(commands) /\ seqs = DeliveriesOf(commands, c)
      BY <1>m, <2>0
    <3> HIDE DEF new
    <3>3. SeqsIn(seqs, commands) /\ Matched(c, off, inbox \o more, due \o seqs, new)
      BY <3>1, <3>2, MatchedPull
    <3>4. QED
      BY <3>3 DEF new, SeqsIn
  <2>6. \A k \in 1..Len(seqs) : seqs[k] \in Nat
    BY <1>1, <2>5
  <2>7. IsSeq(due \o seqs)
    BY <2>3, <2>5, ConcatFacts
  <2>8. ASSUME NEW k \in 1..Len(due \o seqs) PROVE (due \o seqs)[k] \in Nat
    <3>1. (\E j \in 1..Len(due) : (due \o seqs)[k] = due[j]) \/ (\E j \in 1..Len(seqs) : (due \o seqs)[k] = seqs[j])
      BY <2>3, <2>5, ConcatMembers
    <3>2. QED
      BY <3>1, <2>3, <2>6
  <2>9. QED
    BY <2>0, <2>2, <2>5, <2>7, <2>8, <1>0 DEF Due
<1>5. ASSUME NEW i \in 1..Len(inbox') PROVE inbox'[i].id \in Ids \/ inbox'[i].seq = Nil
  <2>1. IsSeq(more) /\ Len(more) = Len(commands) /\ \A j \in 1..Len(more) : more[j].id = commands[j].payload.cmd
    <3>1. more = [j \in 1..Len(commands) |-> more[j]] /\ \A j \in 1..Len(commands) : more[j].id = commands[j].payload.cmd
      BY <1>1, <1>m DEF CommandsOf
    <3>2. QED
      BY <3>1, <1>1, FunIsSeq
  <2>2. (\E j \in 1..Len(inbox) : inbox'[i] = inbox[j]) \/ (\E j \in 1..Len(more) : inbox'[i] = more[j])
    <3>1. IsSeq(inbox) /\ IsSeq(more) /\ i \in 1..Len(inbox \o more)
      BY <2>1, <1>0 DEF QueuesOK
    <3>2. (\E j \in 1..Len(inbox) : (inbox \o more)[i] = inbox[j]) \/ (\E j \in 1..Len(more) : (inbox \o more)[i] = more[j])
      BY <3>1, ConcatMembers
    <3>3. QED
      BY <3>2, <1>0
  <2>3. ASSUME NEW j \in 1..Len(more) PROVE more[j].id \in Ids
    BY <2>1, <1>1 DEF Ids, IdsOf
  <2>4. QED
    BY <2>2, <2>3, <1>0 DEF DeliveriesOK
<1>6. DeliveriesOK'
  <2>1. deliveries' = [c \in Ids |-> deliveries'[c]]
    BY <1>3
  <2>2. QED
    BY <2>1, <1>4, <1>5 DEF DeliveriesOK, Due, Ids
<1>7. QED
  BY <1>2, <1>6

\* What the first command of the inbox says of the deliveries of its id.
LEMMA DueFirst ==
    ASSUME NEW c, NEW due, NEW box, IsSeq(box), box # <<>>, box[1].id = c, NEW done, NEW all, Due(c, due, box, done, all)
    PROVE  box[1].seq \in Nat
<1>1. IsSeq(due) /\ \A k \in 1..Len(due) : due[k] \in Nat
  BY DEF Due
<1>2. PICK off : Matched(c, off, box, due, done)
  BY DEF Due
<1> DEFINE P == Places(box, c)
<1>3. off \in Nat /\ Len(due) = off + Rank(P, Len(box)) /\ \A i \in P : due[off + Rank(P, i)] = box[i].seq
  BY <1>2 DEF Matched
<1>4. Len(box) \in Nat /\ Len(box) > 0
  BY TailFacts
<1>5. 1 \in P
  BY <1>4 DEF Places
<1>6. Rank(P, 1) \in Nat /\ Rank(P, Len(box)) \in Nat /\ Rank(P, 1) >= 1 /\ Rank(P, 1) <= Rank(P, Len(box))
  <2>1. /\ \A i \in Nat : Rank(P, i) \in Nat
        /\ \A i \in P : i \in 1..Len(box) /\ Rank(P, i) >= 1 /\ Rank(P, i) <= Rank(P, Len(box))
    BY PlacesFacts
  <2>2. QED
    BY <2>1, <1>4, <1>5
<1> HIDE DEF P
<1>7. off + Rank(P, 1) \in 1..Len(due)
  BY <1>3, <1>6
<1>8. QED
  BY <1>1, <1>3, <1>5, <1>7

\* Deliveries of other ids stay due, and so does that of an outcome that is not acked.
LEMMA DueKept ==
    ASSUME NEW c, NEW due, NEW box, IsSeq(box), box # <<>>, NEW done, NEW all, Due(c, due, box, done, all),
           NEW new, done \subseteq new, box[1].id # c \/ (box[1].seq \in new /\ ~all)
    PROVE  Due(c, due, Tail(box), new, all)
<1>1. IsSeq(due) /\ \A k \in 1..Len(due) : due[k] \in Nat
  BY DEF Due
<1>2. PICK off : Matched(c, off, box, due, done) /\ (all => off = 0)
  BY DEF Due
<1> DEFINE next == off + (IF box[1].id = c THEN 1 ELSE 0)
<1>3. IsSeq(due) /\ Matched(c, off, box, due, done) /\ (box[1].seq \in new \/ box[1].id # c)
  BY <1>1, <1>2
<1>4. Matched(c, next, Tail(box), due, new)
  BY <1>3, MatchedKept
<1>5. all => next = 0
  BY <1>2
<1> HIDE DEF next
<1>6. QED
  BY <1>1, <1>4, <1>5 DEF Due

\* An outcome that is acked takes the oldest delivery, which had an outcome, its own if all are acked.
LEMMA DueShifted ==
    ASSUME NEW c, NEW due, NEW box, IsSeq(box), box # <<>>, box[1].id = c, NEW done, NEW all, Due(c, due, box, done, all),
           NEW new, done \subseteq new, box[1].seq \in new
    PROVE  /\ due # <<>> /\ Head(due) \in new /\ (all => Head(due) = box[1].seq)
           /\ Due(c, Tail(due), Tail(box), new, all)
<1>1. IsSeq(due) /\ \A k \in 1..Len(due) : due[k] \in Nat
  BY DEF Due
<1>2. PICK off : Matched(c, off, box, due, done) /\ (all => off = 0)
  BY DEF Due
<1>3. /\ due # <<>> /\ Head(due) \in new /\ (off = 0 => Head(due) = box[1].seq)
      /\ Matched(c, off, Tail(box), Tail(due), new)
  <2>1. IsSeq(due) /\ Matched(c, off, box, due, done)
    BY <1>1, <1>2
  <2>2. Oldest(due, off, box[1].seq, new) /\ Matched(c, off, Tail(box), Tail(due), new)
    BY <2>1, MatchedShifted
  <2>3. QED
    BY <2>2 DEF Oldest
<1>4. IsSeq(Tail(due)) /\ Len(due) \in Nat /\ Len(Tail(due)) = Len(due) - 1 /\ \A i \in 1..Len(due) - 1 : Tail(due)[i] = due[i + 1]
  BY <1>1, <1>3, TailFacts
<1>5. ASSUME NEW k \in 1..Len(Tail(due)) PROVE Tail(due)[k] \in Nat
  <2>1. k \in 1..Len(due) - 1 /\ k + 1 \in 1..Len(due)
    BY <1>4
  <2>2. QED
    BY <2>1, <1>1, <1>4
<1>6. Due(c, Tail(due), Tail(box), new, all)
  BY <1>2, <1>3, <1>4, <1>5 DEF Due
<1>7. QED
  BY <1>2, <1>3, <1>6

\* Dispatch settles a delivery and acks one that was settled; if rejections are acked too, the same one.
LEMMA DispatchAcks == ASSUME RecipeInv, Dispatch PROVE DeliveriesOK' /\ AcksFollowOutcomes'
<1> DEFINE c == Head(inbox)
           ok == ReduceCommand(c.id, c.does).accepted
           had == c.id \in DOMAIN deliveries /\ deliveries[c.id] # <<>>
<1>0. /\ DeliveriesOK /\ AcksFollowOutcomes /\ QueuesOK /\ inbox # <<>> /\ IsSeq(inbox)
      /\ inbox' = Tail(inbox) /\ settled' = settled \cup ({c.seq} \ {Nil}) /\ ackRejected' = ackRejected
  BY DEF RecipeInv, MessagingInv, QueuesOK, Dispatch
<1>1. \/ /\ (ok \/ ackRejected) /\ had
         /\ acked' = acked \cup {Head(deliveries[c.id])}
         /\ deliveries' = [deliveries EXCEPT ![c.id] = Tail(@)]
      \/ ~((ok \/ ackRejected) /\ had) /\ acked' = acked /\ deliveries' = deliveries
  BY DEF Dispatch, ShiftDelivery
<1>2. c = inbox[1] /\ IsSeq(Tail(inbox)) /\ MembersOf(Tail(inbox), inbox) /\ 1 \in 1..Len(inbox)
  BY <1>0, TailMembers
<1>3. c.id \in Ids \/ c.seq = Nil
  BY <1>0, <1>2 DEF DeliveriesOK
<1>4. /\ deliveries = [d \in Ids |-> deliveries[d]]
      /\ \A d \in Ids : Due(d, deliveries[d], inbox, settled, ackRejected)
      /\ \A i \in 1..Len(inbox) : inbox[i].id \in Ids \/ inbox[i].seq = Nil
  BY <1>0 DEF DeliveriesOK
<1>5. DOMAIN deliveries = Ids
  BY <1>4
<1> HIDE DEF c, ok
<1>6. settled \subseteq settled' /\ (c.id \in Ids => inbox[1].seq \in settled' /\ c.seq # Nil)
  <2>1. c.id \in Ids => c.seq \in Nat
    <3> SUFFICES ASSUME c.id \in Ids PROVE c.seq \in Nat
      OBVIOUS
    <3>1. inbox[1].id = c.id /\ Due(c.id, deliveries[c.id], inbox, settled, ackRejected)
      BY <1>2, <1>4
    <3>2. inbox[1].seq \in Nat
      BY <3>1, <1>0, DueFirst
    <3>3. QED
      BY <3>2, <1>2
  <2>2. QED
    BY <2>1, <1>0, <1>2, MessageBusAssumption
<1>7. c.id \in Ids =>
        /\ deliveries[c.id] # <<>> /\ Head(deliveries[c.id]) \in settled' /\ (ackRejected => Head(deliveries[c.id]) = c.seq)
        /\ Due(c.id, Tail(deliveries[c.id]), Tail(inbox), settled', ackRejected)
  <2> SUFFICES ASSUME c.id \in Ids
               PROVE  /\ deliveries[c.id] # <<>> /\ Head(deliveries[c.id]) \in settled'
                      /\ (ackRejected => Head(deliveries[c.id]) = c.seq)
                      /\ Due(c.id, Tail(deliveries[c.id]), Tail(inbox), settled', ackRejected)
    OBVIOUS
  <2> DEFINE due == deliveries[c.id]
             new == settled'
  <2>1. /\ inbox[1].id = c.id /\ Due(c.id, due, inbox, settled, ackRejected) /\ settled \subseteq new /\ inbox[1].seq \in new
    BY <1>2, <1>4, <1>6
  <2> HIDE DEF due, new
  <2>2. /\ due # <<>> /\ Head(due) \in new /\ (ackRejected => Head(due) = inbox[1].seq)
        /\ Due(c.id, Tail(due), Tail(inbox), new, ackRejected)
    BY <2>1, <1>0, DueShifted
  <2>3. QED
    BY <2>2, <1>2 DEF due, new
<1>8. AcksFollowOutcomes'
  <2>1. acked \subseteq settled /\ (ackRejected => settled \subseteq acked)
    BY <1>0 DEF AcksFollowOutcomes
  <2>2. acked' \subseteq settled'
    BY <2>1, <1>1, <1>5, <1>6, <1>7
  <2>3. ASSUME ackRejected PROVE settled' \subseteq acked'
    <3>1. CASE c.id \in Ids
      <4>1. had
        BY <3>1, <1>5, <1>7
      <4>2. acked' = acked \cup {c.seq}
        BY <4>1, <3>1, <2>3, <1>1, <1>7
      <4>3. QED
        BY <4>2, <2>1, <2>3, <1>0
    <3>2. CASE c.id \notin Ids
      <4>1. settled' = settled /\ acked' = acked
        BY <3>2, <1>0, <1>1, <1>3, <1>5
      <4>2. QED
        BY <4>1, <2>1, <2>3
    <3>3. QED
      BY <3>1, <3>2
  <2>4. QED
    BY <2>2, <2>3, <1>0 DEF AcksFollowOutcomes
<1>9. deliveries' = [d \in Ids |-> deliveries'[d]]
  BY <1>1, <1>4
<1>10. ASSUME NEW d \in Ids PROVE Due(d, deliveries'[d], inbox', settled', ackRejected')
  <2> DEFINE due == deliveries[d]
             new == settled'
             box == inbox
  <2>1. /\ Due(d, due, box, settled, ackRejected) /\ settled \subseteq new /\ IsSeq(box) /\ box # <<>>
        /\ box[1].id = c.id /\ box = inbox
    BY <1>0, <1>2, <1>4, <1>6
  <2>2. CASE d # c.id
    <3>1. deliveries'[d] = due
      BY <2>2, <1>1, <1>4, <1>5
    <3> HIDE DEF due, new, box
    <3>2. box[1].id # d
      BY <2>1, <2>2
    <3>3. Due(d, due, Tail(box), new, ackRejected)
      BY <2>1, <3>2, DueKept
    <3>4. QED
      BY <3>1, <3>3, <2>1, <1>0 DEF new
  <2>3. CASE d = c.id /\ deliveries' = [deliveries EXCEPT ![c.id] = Tail(@)]
    <3>1. deliveries'[d] = Tail(deliveries[c.id])
      BY <2>3, <1>5
    <3>2. QED
      BY <3>1, <2>3, <1>0, <1>7
  <2>4. CASE d = c.id /\ deliveries' = deliveries /\ ~ackRejected
    <3>1. deliveries'[d] = due /\ box[1].seq \in new
      BY <2>4, <1>6
    <3> HIDE DEF due, new, box
    <3>2. box[1].id # d \/ (box[1].seq \in new /\ ~ackRejected)
      BY <3>1, <2>4
    <3>3. Due(d, due, Tail(box), new, ackRejected)
      BY <2>1, <3>2, DueKept
    <3>4. QED
      BY <3>1, <3>3, <2>1, <1>0 DEF new
  <2>5. d = c.id => \/ deliveries' = [deliveries EXCEPT ![c.id] = Tail(@)]
                    \/ deliveries' = deliveries /\ ~ackRejected
    BY <1>1, <1>5, <1>7
  <2>6. QED
    BY <2>2, <2>3, <2>4, <2>5
<1>11. ASSUME NEW i \in 1..Len(inbox') PROVE inbox'[i].id \in Ids \/ inbox'[i].seq = Nil
  BY <1>0, <1>2, <1>4 DEF MembersOf
<1>12. DeliveriesOK'
  BY <1>9, <1>10, <1>11 DEF DeliveriesOK, Due, Ids
<1>13. QED
  BY <1>8, <1>12

\* The command of an outcome of an effect has no delivery.
LEMMA OutcomeAcks ==
    ASSUME RecipeInv, NEW e, NEW kind, EffectOutcome(e, kind)
    PROVE  DeliveriesOK' /\ AcksFollowOutcomes'
<1> DEFINE c == [id |-> <<"effect", e, kind>>, does |-> "settles", seq |-> Nil]
<1>0. /\ DeliveriesOK /\ AcksFollowOutcomes /\ IsSeq(inbox) /\ inbox' = Append(inbox, c)
      /\ deliveries' = deliveries /\ settled' = settled /\ acked' = acked /\ ackRejected' = ackRejected
  BY DEF RecipeInv, MessagingInv, QueuesOK, EffectOutcome
<1>1. c.seq = Nil /\ c.id \notin Ids
  <2>1. Len(<<"effect", e, kind>>) = 3
    OBVIOUS
  <2>2. c.seq = Nil /\ c.id = <<"effect", e, kind>>
    OBVIOUS
  <2> HIDE DEF c
  <2>3. QED
    BY <2>1, <2>2, DeliveryAssumption DEF Ids, IdsOf
<1> HIDE DEF c
<1>2. ASSUME NEW d \in Ids PROVE Due(d, deliveries'[d], inbox', settled', ackRejected')
  <2>1. Due(d, deliveries[d], inbox, settled, ackRejected)
    BY <1>0 DEF DeliveriesOK
  <2>2. PICK off : Matched(d, off, inbox, deliveries[d], settled) /\ (ackRejected => off = 0)
    BY <2>1 DEF Due
  <2>3. c.id # d
    BY <1>1
  <2>4. Matched(d, off, Append(inbox, c), deliveries[d], settled)
    BY <2>2, <2>3, <1>0, MatchedAppend
  <2>5. QED
    BY <2>1, <2>2, <2>4, <1>0 DEF Due
<1>3. ASSUME NEW i \in 1..Len(inbox') PROVE inbox'[i].id \in Ids \/ inbox'[i].seq = Nil
  <2>1. /\ Len(inbox') = Len(inbox) + 1 /\ inbox'[Len(inbox) + 1] = c /\ Len(inbox) \in Nat
        /\ \A j \in 1..Len(inbox) : inbox'[j] = inbox[j]
    BY <1>0, AppendFacts, SeqFacts
  <2>2. i \in 1..Len(inbox) \/ i = Len(inbox) + 1
    BY <2>1
  <2>3. QED
    BY <2>1, <2>2, <1>0, <1>1 DEF DeliveriesOK
<1>4. deliveries' = [d \in Ids |-> deliveries'[d]]
  BY <1>0 DEF DeliveriesOK
<1>5. DeliveriesOK'
  BY <1>2, <1>3, <1>4 DEF DeliveriesOK, Due, Ids
<1>6. AcksFollowOutcomes'
  BY <1>0 DEF AcksFollowOutcomes
<1>7. QED
  BY <1>5, <1>6

\* Every step of the recipe, of its bus and of its users keeps the invariant.
LEMMA RecipeStep == RecipeInv /\ [DeliveryNext]_deliveryVars => RecipeInv'
<1> SUFFICES ASSUME RecipeInv, [DeliveryNext]_deliveryVars PROVE RecipeInv'
  OBVIOUS
<1>0. MessagingInv /\ DeliveriesOK
  BY DEF RecipeInv
<1>1. ASSUME NEW p \in Payloads, NEW id, NEW key, NEW d \in Ticks, Produce(p, id, key, bus.now + d) PROVE RecipeInv'
  <2>1. MessagingInv'
    BY <1>0, <1>1, ProduceKeeps
  <2>2. DeliveriesOK' /\ AcksFollowOutcomes'
    BY <1>1, RecipeIdle DEF Produce, serviceVars
  <2>3. QED
    BY <2>1, <2>2 DEF RecipeInv
<1>2. CASE Administer
  <2>1. MessagingInv'
    BY <1>0, <1>2, AdministerKeeps
  <2>2. DeliveriesOK' /\ AcksFollowOutcomes'
    BY <1>2, RecipeIdle DEF Administer, serviceVars
  <2>3. QED
    BY <2>1, <2>2 DEF RecipeInv
<1>3. CASE Send
  <2>1. MessagingInv'
    BY <1>0, <1>3, SendKeeps
  <2>2. DeliveriesOK' /\ AcksFollowOutcomes'
    BY <1>3, RecipeIdle DEF Send
  <2>3. QED
    BY <2>1, <2>2 DEF RecipeInv
<1>4. ASSUME NEW limit \in 1..2, Pull(limit) PROVE RecipeInv'
  BY <1>0, <1>4, PullKeeps, PullAcks DEF RecipeInv
<1>5. CASE Dispatch
  <2>1. \A c \in DOMAIN deliveries : deliveries[c] # <<>> => Head(deliveries[c]) \in Nat
    <3> SUFFICES ASSUME NEW c \in DOMAIN deliveries, deliveries[c] # <<>> PROVE Head(deliveries[c]) \in Nat
      OBVIOUS
    <3>1. Due(c, deliveries[c], inbox, settled, ackRejected)
      BY <1>0 DEF DeliveriesOK
    <3>2. IsSeq(deliveries[c]) /\ \A k \in 1..Len(deliveries[c]) : deliveries[c][k] \in Nat
      BY <3>1 DEF Due
    <3>3. Len(deliveries[c]) \in Nat /\ Len(deliveries[c]) > 0 /\ Head(deliveries[c]) = deliveries[c][1]
      BY <3>2, TailFacts
    <3>4. QED
      BY <3>2, <3>3
  <2>2. MessagingInv'
    BY <2>1, <1>0, <1>5, DispatchKeeps
  <2>3. QED
    BY <2>2, <1>5, DispatchAcks DEF RecipeInv
<1>6. ASSUME NEW e, NEW kind, EffectOutcome(e, kind) PROVE RecipeInv'
  BY <1>0, <1>6, OutcomeKeeps, OutcomeAcks DEF RecipeInv
<1>7. CASE UNCHANGED deliveryVars
  <2>1. MessagingInv'
    BY <1>0, <1>7 DEF MessagingInv, QueuesOK, PayloadsOK, Proper, deliveryVars, serviceVars
  <2>2. DeliveriesOK' /\ AcksFollowOutcomes'
    BY <1>7, RecipeIdle DEF deliveryVars, serviceVars
  <2>3. QED
    BY <2>1, <2>2 DEF RecipeInv
<1>8. QED
  BY <1>1, <1>2, <1>3, <1>4, <1>5, <1>6, <1>7 DEF DeliveryNext

-----------------------------------------------------------------------------
(* The invariant of a command runtime behind the bus: the bus is sound,    *)
(* what waits for it are commands it knows, and the deliveries of every    *)
(* command id are those an ack was not emitted for, in the order of the    *)
(* commands that wait (process/messaging.rs, cqrs/messaging.rs).           *)
THEOREM RecipeInvariant == DeliverySpec => []RecipeInv
BY RecipeStart, RecipeStep, PTL DEF DeliverySpec

(* The cursor a subscriber was shown last is the cursor the bus keeps, for *)
(* any topics, subscriptions and policy: reduce_message_bus_command tells  *)
(* of every change of a cursor, a gap, a head or a closure.                *)
THEOREM CursorsAlwaysFresh == DeliverySpec => []CursorsFresh
<1>1. RecipeInv => CursorsFresh
  BY SoundIsFresh DEF RecipeInv, MessagingInv
<1>2. QED
  BY <1>1, RecipeInvariant, PTL

(* Retention takes no message from under a reader in silence               *)
(* (trim_retention, available_page), whatever the limits, unless no        *)
(* message may be retained and messages also age: trim_retention then      *)
(* drops by age before it refuses the limit, and the head stays behind.    *)
THEOREM NeverSilentLoss == RetentionLegal => (DeliverySpec => []NoSilentLoss)
<1>1. SUFFICES ASSUME RetentionLegal PROVE DeliverySpec => []NoSilentLoss
  OBVIOUS
<1>2. RecipeInv => NoSilentLoss
  BY <1>1, SoundShowsAll DEF RecipeInv, MessagingInv
<1>3. QED
  BY <1>2, RecipeInvariant, PTL

(* An idempotency key publishes once, the sequence numbers of a topic      *)
(* leave none out, and its catalog entry spans what is retained            *)
(* (publish_message, message_bus_catalog), under the same legality.        *)
THEOREM AlwaysPublishedOnce == RetentionLegal => (DeliverySpec => []PublishedOnce)
<1>1. SUFFICES ASSUME RetentionLegal PROVE DeliverySpec => []PublishedOnce
  OBVIOUS
<1>2. RecipeInv => PublishedOnce
  BY <1>1, SoundIsPublishedOnce DEF RecipeInv, MessagingInv
<1>3. QED
  BY <1>2, RecipeInvariant, PTL

(* A message is acked only after its command had a visible status or the   *)
(* message an issue, and when rejections are acked too none that had one   *)
(* stays unacked, however commands repeat, share ids and wait              *)
(* (process_message_ack_commands, shift_delivery).                         *)
THEOREM AcksAlwaysFollowOutcomes == DeliverySpec => []AcksFollowOutcomes
<1>1. RecipeInv => AcksFollowOutcomes
  BY DEF RecipeInv
<1>2. QED
  BY <1>1, RecipeInvariant, PTL
=============================================================================
