---------------------------- MODULE QueueTheorems ----------------------------
(***************************************************************************)
(* Lemmas on queues of messages that the proofs of several modules need:   *)
(* what becomes of the number of messages of a kind when one is added or   *)
(* taken.                                                                  *)
(***************************************************************************)
EXTENDS Integers, Sequences, FiniteSets, FiniteSetTheorems, SequenceTheorems, TLAPS

(* The places in the queue q at which there is a message of the set kind.  *)
Places(q, kind) == {i \in 1 .. Len(q) : q[i] \in kind}

-----------------------------------------------------------------------------
(* A function on an initial segment of the naturals is a sequence.         *)
LEMMA FunctionIsSequence ==
  ASSUME NEW S, NEW n \in Nat, NEW f \in [1 .. n -> S]
  PROVE  f \in Seq(S) /\ Len(f) = n
  <1>1. f = [i \in 1 .. n |-> f[i]] /\ \A i \in 1 .. n : f[i] \in S
    OBVIOUS
  <1>2. [i \in 1 .. n |-> f[i]] \in Seq(S) /\ Len([i \in 1 .. n |-> f[i]]) = n
    BY <1>1
  <1>3. QED
    BY <1>1, <1>2

(* A queue has finitely many messages of a kind, and none at all only if   *)
(* no place has one.                                                       *)
LEMMA PlacesFinite ==
  ASSUME NEW S, NEW q \in Seq(S), NEW kind
  PROVE  /\ IsFiniteSet(Places(q, kind))
         /\ Cardinality(Places(q, kind)) \in Nat
         /\ Cardinality(Places(q, kind)) = 0 <=> \A i \in 1 .. Len(q) : q[i] \notin kind
  <1>1. Len(q) \in Nat
    BY LenProperties
  <1>2. IsFiniteSet(1 .. Len(q))
    BY <1>1, FS_Interval
  <1>3. Places(q, kind) \in SUBSET (1 .. Len(q))
    BY DEF Places
  <1>4. IsFiniteSet(Places(q, kind))
    BY <1>2, <1>3, FS_Subset
  <1>5. Cardinality(Places(q, kind)) = 0 <=> Places(q, kind) = {}
    BY <1>4, FS_EmptySet
  <1>6. QED
    BY <1>4, <1>5, FS_CardinalityType DEF Places

(* An empty queue has none.                                                *)
LEMMA PlacesEmpty ==
  ASSUME NEW kind
  PROVE  Cardinality(Places(<<>>, kind)) = 0
  <1>1. Places(<<>>, kind) = {}
    BY DEF Places
  <1>2. QED
    BY <1>1, FS_EmptySet

(* A message that is added is one more, if it is of that kind.             *)
LEMMA PlacesAppend ==
  ASSUME NEW S, NEW q \in Seq(S), NEW m \in S, NEW kind
  PROVE  Cardinality(Places(Append(q, m), kind))
           = Cardinality(Places(q, kind)) + IF m \in kind THEN 1 ELSE 0
  <1> DEFINE new == Append(q, m)
             n   == Len(q) + 1
  <1>1. /\ Len(new) = n /\ Len(q) \in Nat
        /\ \A i \in 1 .. Len(q) : new[i] = q[i]
        /\ new[n] = m
    BY AppendProperties, LenProperties
  <1>2. Places(new, kind) = IF m \in kind THEN Places(q, kind) \cup {n} ELSE Places(q, kind)
    <2> HIDE DEF new
    <2> QED
      BY <1>1 DEF Places
  <1>3. n \notin Places(q, kind)
    BY <1>1 DEF Places
  <1>4. /\ Cardinality(Places(q, kind)) \in Nat
        /\ Cardinality(Places(q, kind) \cup {n}) = Cardinality(Places(q, kind)) + 1
    <2> HIDE DEF n
    <2>1. IsFiniteSet(Places(q, kind)) /\ Cardinality(Places(q, kind)) \in Nat
      BY PlacesFinite
    <2>2. QED
      BY <1>3, <2>1, FS_AddElement
  <1>5. QED
    <2> HIDE DEF n
    <2> QED
      BY <1>2, <1>4

(* A message that is taken is one less, if it is of that kind.             *)
LEMMA PlacesTail ==
  ASSUME NEW S, NEW q \in Seq(S), q # <<>>, NEW kind
  PROVE  Cardinality(Places(Tail(q), kind))
           = Cardinality(Places(q, kind)) - IF Head(q) \in kind THEN 1 ELSE 0
  <1> DEFINE rest  == Tail(q)
             later == Places(q, kind) \ {1}
             back  == [i \in later |-> i - 1]
  <1>1. /\ Len(rest) = Len(q) - 1 /\ Len(q) \in Nat \ {0}
        /\ \A i \in 1 .. Len(rest) : rest[i] = q[i + 1]
        /\ Head(q) = q[1]
    BY HeadTailProperties, EmptySeq
  <1>2. /\ IsFiniteSet(later)
        /\ Cardinality(later) = Cardinality(Places(q, kind)) - IF Head(q) \in kind THEN 1 ELSE 0
    <2>1. 1 \in Places(q, kind) <=> Head(q) \in kind
      BY <1>1 DEF Places
    <2>2. Cardinality(Places(q, kind)) \in Nat
      BY PlacesFinite
    <2>3. QED
      BY <2>1, <2>2, PlacesFinite, FS_RemoveElement
  <1>3. ExistsBijection(later, Places(rest, kind))
    <2> HIDE DEF rest
    <2>1. back \in [later -> Places(rest, kind)]
      <3>1. SUFFICES ASSUME NEW i \in later PROVE i - 1 \in Places(rest, kind)
        OBVIOUS
      <3>2. i \in 2 .. Len(q) /\ q[i] \in kind
        BY <1>1 DEF Places
      <3>3. i - 1 \in 1 .. Len(rest) /\ rest[i - 1] = q[(i - 1) + 1] /\ (i - 1) + 1 = i
        BY <1>1, <3>2
      <3>4. QED
        BY <3>2, <3>3 DEF Places
    <2>2. \A i, j \in later : back[i] = back[j] => i = j
      BY <1>1 DEF Places
    <2>3. \A j \in Places(rest, kind) : \E i \in later : back[i] = j
      <3>1. SUFFICES ASSUME NEW j \in Places(rest, kind) PROVE j + 1 \in later /\ (j + 1) - 1 = j
        OBVIOUS
      <3>2. j \in 1 .. Len(rest) /\ rest[j] \in kind
        BY DEF Places
      <3>3. QED
        BY <1>1, <3>2 DEF Places
    <2>4. back \in Bijection(later, Places(rest, kind))
      <3> HIDE DEF back
      <3> QED
        BY <2>1, <2>2, <2>3 DEF Bijection, Injection, Surjection, IsInjective
    <2>5. QED
      BY <2>4 DEF ExistsBijection
  <1>4. QED
    BY <1>2, <1>3, FS_Bijection

(* Of two queues, one behind the other, it has the sum.                    *)
LEMMA PlacesConcat ==
  ASSUME NEW S, NEW q \in Seq(S), NEW r \in Seq(S), NEW kind
  PROVE  Cardinality(Places(q \o r, kind))
           = Cardinality(Places(q, kind)) + Cardinality(Places(r, kind))
  <1> DEFINE new   == q \o r
             n     == Len(q)
             moved == {i + n : i \in Places(r, kind)}
             shift == [i \in Places(r, kind) |-> i + n]
  <1>1. /\ Len(new) = n + Len(r) /\ n \in Nat /\ Len(r) \in Nat
        /\ \A i \in 1 .. Len(new) : new[i] = IF i <= n THEN q[i] ELSE r[i - n]
    BY ConcatProperties, LenProperties
  <1> HIDE DEF new, n
  <1>2. Places(new, kind) = Places(q, kind) \cup moved
    <2>1. ASSUME NEW i \in Places(new, kind)
          PROVE  i \in Places(q, kind) \cup moved
      <3>1. CASE i <= n
        BY <1>1, <2>1, <3>1 DEF Places, n
      <3>2. CASE ~(i <= n)
        <4>1. i - n \in 1 .. Len(r) /\ r[i - n] \in kind /\ (i - n) + n = i
          BY <1>1, <2>1, <3>2 DEF Places
        <4>2. i - n \in Places(r, kind)
          BY <4>1 DEF Places
        <4>3. QED
          BY <4>1, <4>2
      <3>3. QED
        BY <3>1, <3>2
    <2>2. ASSUME NEW i \in Places(q, kind)
          PROVE  i \in Places(new, kind)
      BY <1>1 DEF Places, n
    <2>3. ASSUME NEW j \in Places(r, kind)
          PROVE  j + n \in Places(new, kind)
      <3>1. j \in 1 .. Len(r) /\ r[j] \in kind
        BY DEF Places
      <3>2. j + n \in 1 .. Len(new) /\ ~(j + n <= n) /\ (j + n) - n = j
        BY <1>1, <3>1
      <3>3. QED
        BY <1>1, <3>1, <3>2 DEF Places
    <2>4. QED
      BY <2>1, <2>2, <2>3
  <1>3. Places(q, kind) \cap moved = {}
    BY <1>1 DEF Places, n
  <1>4. shift \in Bijection(Places(r, kind), moved)
    <2>1. \A i \in Places(r, kind) : i \in Nat
      BY <1>1 DEF Places
    <2>2. shift \in [Places(r, kind) -> moved]
      OBVIOUS
    <2>3. \A i, j \in Places(r, kind) : shift[i] = shift[j] => i = j
      BY <1>1, <2>1
    <2>4. \A j \in moved : \E i \in Places(r, kind) : shift[i] = j
      OBVIOUS
    <2> HIDE DEF shift, moved
    <2>5. QED
      BY <2>2, <2>3, <2>4 DEF Bijection, Injection, Surjection, IsInjective
  <1>5. /\ IsFiniteSet(moved) /\ Cardinality(moved) = Cardinality(Places(r, kind))
        /\ IsFiniteSet(Places(q, kind))
        /\ Cardinality(Places(q, kind)) \in Nat /\ Cardinality(Places(r, kind)) \in Nat
    <2> HIDE DEF shift, moved
    <2>1. ExistsBijection(Places(r, kind), moved)
      BY <1>4 DEF ExistsBijection
    <2>2. QED
      BY <2>1, PlacesFinite, FS_Bijection
  <1> HIDE DEF shift, moved
  <1>6. Cardinality(Places(q, kind) \cup moved) = Cardinality(Places(q, kind)) + Cardinality(moved)
                                                - Cardinality(Places(q, kind) \cap moved)
    BY <1>5, FS_Union
  <1>7. Cardinality(Places(q, kind) \cap moved) = 0
    BY <1>3, FS_EmptySet
  <1>8. QED
    BY <1>2, <1>5, <1>6, <1>7 DEF new

(* A queue of n messages that are all the same.                            *)
LEMMA PlacesConstant ==
  ASSUME NEW S, NEW m \in S, NEW n \in Nat, NEW kind
  PROVE  /\ [i \in 1 .. n |-> m] \in Seq(S)
         /\ Cardinality(Places([i \in 1 .. n |-> m], kind)) = IF m \in kind THEN n ELSE 0
  <1> DEFINE q == [i \in 1 .. n |-> m]
  <1>1. q \in Seq(S) /\ Len(q) = n
    <2>1. q \in [1 .. n -> S]
      OBVIOUS
    <2>2. QED
      BY <2>1, FunctionIsSequence
  <1>2. Places(q, kind) = IF m \in kind THEN 1 .. n ELSE {}
    BY <1>1 DEF Places
  <1>3. Cardinality(1 .. n) = n /\ Cardinality({}) = 0
    BY FS_Interval, FS_EmptySet
  <1>4. QED
    BY <1>1, <1>2, <1>3
=============================================================================
