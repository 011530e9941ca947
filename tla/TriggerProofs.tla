--------------------------- MODULE TriggerProofs ---------------------------
(***************************************************************************)
(* What holds of the cellstore's list for every set of chains and of       *)
(* handles, and however many messages wait on its two ports.               *)
(***************************************************************************)
EXTENDS Trigger, TLAPS, SequenceTheorems, FiniteSetTheorems

----------------------------------------------------------------------------
(* Lemmas about sequences.                                                 *)

(* The elements of a sequence are what stands at its positions.            *)
LEMMA ToSetOfSeq ==
  ASSUME NEW S, NEW s \in Seq(S)
  PROVE  /\ ToSet(s) \subseteq S
         /\ \A c : c \in ToSet(s) <=> \E i \in 1 .. Len(s) : s[i] = c
<1>1. DOMAIN s = 1 .. Len(s) /\ \A i \in 1 .. Len(s) : s[i] \in S
  BY LenProperties, ElementOfSeq
<1> QED BY <1>1 DEF ToSet

(* A message that is appended to a queue is the only one added.            *)
LEMMA ToSetOfAppend ==
  ASSUME NEW S, NEW s \in Seq(S), NEW e \in S
  PROVE  ToSet(Append(s, e)) = ToSet(s) \cup {e}
<1>1. /\ Append(s, e) \in Seq(S) /\ Len(Append(s, e)) = Len(s) + 1
      /\ \A i \in 1 .. Len(s) : Append(s, e)[i] = s[i]
      /\ Append(s, e)[Len(s) + 1] = e
      /\ Len(s) \in Nat
  BY AppendProperties, LenProperties
<1>2. ASSUME NEW c \in ToSet(Append(s, e)) PROVE c \in ToSet(s) \cup {e}
  <2>0. \E i \in 1 .. Len(Append(s, e)) : Append(s, e)[i] = c
    BY <1>1, <1>2, ToSetOfSeq
  <2>1. PICK i \in 1 .. Len(s) + 1 : Append(s, e)[i] = c
    BY <1>1, <2>0
  <2>2. CASE i = Len(s) + 1
    BY <1>1, <2>1, <2>2
  <2>3. CASE i \in 1 .. Len(s)
    BY <1>1, <2>1, <2>3, ToSetOfSeq
  <2> QED BY <1>1, <2>2, <2>3
<1>3. ASSUME NEW c \in ToSet(s) PROVE c \in ToSet(Append(s, e))
  <2>1. PICK i \in 1 .. Len(s) : s[i] = c
    BY <1>3, ToSetOfSeq
  <2>2. i \in 1 .. Len(s) + 1 /\ Append(s, e)[i] = c
    BY <1>1, <2>1
  <2> QED BY <1>1, <2>2, ToSetOfSeq
<1>4. e \in ToSet(Append(s, e))
  <2>1. Len(s) + 1 \in 1 .. Len(s) + 1
    BY <1>1
  <2> QED BY <1>1, <2>1, ToSetOfSeq
<1> QED BY <1>2, <1>3, <1>4

(* A message that is taken from a queue is the only one that may go.       *)
LEMMA ToSetOfTail ==
  ASSUME NEW S, NEW s \in Seq(S), s # <<>>
  PROVE  /\ Head(s) \in S /\ Tail(s) \in Seq(S) /\ Head(s) \in ToSet(s)
         /\ ToSet(s) = ToSet(Tail(s)) \cup {Head(s)}
<1>1. /\ Head(s) \in S /\ Tail(s) \in Seq(S) /\ Len(Tail(s)) = Len(s) - 1
      /\ \A i \in 1 .. Len(Tail(s)) : Tail(s)[i] = s[i + 1]
      /\ Len(s) \in Nat \ {0} /\ Head(s) = s[1]
  BY HeadTailProperties, EmptySeq
<1>2. Head(s) \in ToSet(s)
  <2>1. 1 \in 1 .. Len(s)
    BY <1>1
  <2> QED BY <1>1, <2>1, ToSetOfSeq
<1>3. ASSUME NEW c \in ToSet(s) PROVE c \in ToSet(Tail(s)) \cup {Head(s)}
  <2>1. PICK i \in 1 .. Len(s) : s[i] = c
    BY <1>3, ToSetOfSeq
  <2>2. CASE i = 1
    BY <1>1, <2>1, <2>2
  <2>3. CASE i # 1
    <3>1. i - 1 \in 1 .. Len(Tail(s)) /\ i - 1 + 1 = i
      BY <1>1, <2>3
    <3>2. Tail(s)[i - 1] = c
      BY <1>1, <2>1, <3>1
    <3>3. c \in ToSet(Tail(s))
      <4>1. Tail(s) \in Seq(S) /\ \E j \in 1 .. Len(Tail(s)) : Tail(s)[j] = c
        BY <1>1, <3>1, <3>2
      <4> QED BY ONLY <4>1, ToSetOfSeq
    <3> QED BY <3>3
  <2> QED BY <2>2, <2>3
<1>4. ASSUME NEW c \in ToSet(Tail(s)) PROVE c \in ToSet(s)
  <2>1. PICK i \in 1 .. Len(Tail(s)) : Tail(s)[i] = c
    <3>1. Tail(s) \in Seq(S)
      BY <1>1
    <3> QED BY ONLY <1>4, <3>1, ToSetOfSeq
  <2>2. i + 1 \in 1 .. Len(s) /\ s[i + 1] = c
    BY <1>1, <2>1
  <2> QED BY <2>2, ToSetOfSeq
<1> QED BY <1>1, <1>2, <1>3, <1>4

(* The positions of a concatenation. *)
LEMMA ToSetOfConcat ==
  ASSUME NEW S, NEW s \in Seq(S), NEW t \in Seq(S)
  PROVE  ToSet(s \o t) = ToSet(s) \cup ToSet(t)
<1>1. /\ s \o t \in Seq(S) /\ Len(s \o t) = Len(s) + Len(t)
      /\ \A i \in 1 .. Len(s) + Len(t) :
           (s \o t)[i] = IF i <= Len(s) THEN s[i] ELSE t[i - Len(s)]
      /\ Len(s) \in Nat /\ Len(t) \in Nat
  BY ConcatProperties, LenProperties
<1>2. ASSUME NEW c \in ToSet(s \o t) PROVE c \in ToSet(s) \cup ToSet(t)
  <2>1. PICK i \in 1 .. Len(s) + Len(t) : (s \o t)[i] = c
    BY <1>1, <1>2, ToSetOfSeq
  <2>2. CASE i <= Len(s)
    <3>1. i \in 1 .. Len(s) /\ s[i] = c
      BY <1>1, <2>1, <2>2
    <3> QED BY <3>1, ToSetOfSeq
  <2>3. CASE ~(i <= Len(s))
    <3>1. i - Len(s) \in 1 .. Len(t) /\ t[i - Len(s)] = c
      BY <1>1, <2>1, <2>3
    <3> QED BY <3>1, ToSetOfSeq
  <2> QED BY <2>2, <2>3
<1>3. ASSUME NEW c \in ToSet(s) PROVE c \in ToSet(s \o t)
  <2>1. PICK i \in 1 .. Len(s) : s[i] = c
    BY <1>3, ToSetOfSeq
  <2>2. i \in 1 .. Len(s) + Len(t) /\ (s \o t)[i] = c
    BY <1>1, <2>1
  <2> QED BY <1>1, <2>2, ToSetOfSeq
<1>4. ASSUME NEW c \in ToSet(t) PROVE c \in ToSet(s \o t)
  <2>1. PICK i \in 1 .. Len(t) : t[i] = c
    BY <1>4, ToSetOfSeq
  <2>2. /\ i + Len(s) \in 1 .. Len(s) + Len(t) /\ ~(i + Len(s) <= Len(s))
        /\ i + Len(s) - Len(s) = i
    BY <1>1
  <2>3. (s \o t)[i + Len(s)] = c
    BY <1>1, <2>1, <2>2
  <2> QED BY <1>1, <2>2, <2>3, ToSetOfSeq
<1> QED BY <1>2, <1>3, <1>4

(* The head of a waiting queue, moved behind the list before it.           *)
LEMMA MoveHead ==
  ASSUME NEW S, NEW s \in Seq(S), NEW t \in Seq(S), t # <<>>
  PROVE  Append(s, Head(t)) \o Tail(t) = s \o t
<1>1. /\ Head(t) \in S /\ Tail(t) \in Seq(S) /\ Len(Tail(t)) = Len(t) - 1
      /\ \A i \in 1 .. Len(Tail(t)) : Tail(t)[i] = t[i + 1]
      /\ Len(t) \in Nat \ {0} /\ Len(s) \in Nat /\ Head(t) = t[1]
  BY HeadTailProperties, EmptySeq, LenProperties
<1> DEFINE a == Append(s, Head(t))
<1>2. /\ a \in Seq(S) /\ Len(a) = Len(s) + 1
      /\ \A i \in 1 .. Len(s) : a[i] = s[i]
      /\ a[Len(s) + 1] = Head(t)
  BY <1>1, AppendProperties
<1> HIDE DEF a
<1>3. /\ a \o Tail(t) \in Seq(S) /\ Len(a \o Tail(t)) = Len(s) + Len(t)
      /\ \A i \in 1 .. Len(s) + Len(t) :
           (a \o Tail(t))[i]
             = IF i <= Len(s) + 1 THEN a[i] ELSE Tail(t)[i - (Len(s) + 1)]
  <2>1. Len(a) + Len(Tail(t)) = Len(s) + Len(t)
    BY <1>1, <1>2
  <2>2. /\ a \o Tail(t) \in Seq(S)
        /\ Len(a \o Tail(t)) = Len(a) + Len(Tail(t))
        /\ \A i \in 1 .. Len(a) + Len(Tail(t)) :
             (a \o Tail(t))[i]
               = IF i <= Len(a) THEN a[i] ELSE Tail(t)[i - Len(a)]
    BY <1>1, <1>2, ConcatProperties
  <2> QED BY <1>2, <2>1, <2>2
<1>4. /\ s \o t \in Seq(S) /\ Len(s \o t) = Len(s) + Len(t)
      /\ \A i \in 1 .. Len(s) + Len(t) :
           (s \o t)[i] = IF i <= Len(s) THEN s[i] ELSE t[i - Len(s)]
  BY ConcatProperties
<1>5. ASSUME NEW i \in 1 .. Len(s) + Len(t)
      PROVE  (a \o Tail(t))[i] = (s \o t)[i]
  <2>1. CASE i <= Len(s)
    <3>1. i \in 1 .. Len(s) /\ i <= Len(s) + 1
      BY <1>1, <2>1
    <3> QED BY <1>2, <1>3, <1>4, <2>1, <3>1
  <2>2. CASE i = Len(s) + 1
    <3>1. i - Len(s) = 1 /\ ~(i <= Len(s)) /\ i <= Len(s) + 1
      BY <1>1, <2>2
    <3> QED BY <1>1, <1>2, <1>3, <1>4, <2>2, <3>1
  <2>3. CASE i > Len(s) + 1
    <3>1. /\ i - (Len(s) + 1) \in 1 .. Len(Tail(t))
          /\ i - (Len(s) + 1) + 1 = i - Len(s)
          /\ ~(i <= Len(s) + 1) /\ ~(i <= Len(s))
      BY <1>1, <2>3
    <3>2. (a \o Tail(t))[i] = Tail(t)[i - (Len(s) + 1)]
      BY <1>3, <3>1
    <3>3. (s \o t)[i] = t[i - Len(s)]
      BY <1>4, <3>1
    <3>4. Tail(t)[i - (Len(s) + 1)] = t[i - (Len(s) + 1) + 1]
      BY <1>1, <3>1
    <3> QED BY <3>1, <3>2, <3>3, <3>4
  <2>4. i <= Len(s) \/ i = Len(s) + 1 \/ i > Len(s) + 1
    BY <1>1
  <2> QED BY <2>1, <2>2, <2>3, <2>4
<1>6. a \o Tail(t) = s \o t
  BY <1>3, <1>4, <1>5, SeqEqual
<1> QED BY <1>6 DEF a

(* The list and what waits behind it, position by position. *)
LEMMA StoredType ==
  ASSUME NEW S, d_cells \in Seq(S), track_port \in Seq(S)
  PROVE  /\ stored \in Seq(S) /\ Len(stored) = Len(d_cells) + Len(track_port)
         /\ Len(d_cells) \in Nat /\ Len(track_port) \in Nat
         /\ DOMAIN stored = 1 .. Len(stored)
         /\ \A i \in 1 .. Len(d_cells) : stored[i] = d_cells[i]
         /\ \A i \in 1 .. Len(track_port) : stored[Len(d_cells) + i] = track_port[i]
         /\ ToSet(stored) = ToSet(d_cells) \cup ToSet(track_port)
<1>1. /\ stored \in Seq(S) /\ Len(stored) = Len(d_cells) + Len(track_port)
      /\ \A i \in 1 .. Len(d_cells) + Len(track_port) : stored[i] =
           IF i <= Len(d_cells) THEN d_cells[i] ELSE track_port[i - Len(d_cells)]
  BY ConcatProperties DEF stored
<1>2. /\ Len(d_cells) \in Nat /\ Len(track_port) \in Nat
      /\ DOMAIN stored = 1 .. Len(stored)
  BY <1>1, LenProperties
<1>3. \A i \in 1 .. Len(d_cells) : stored[i] = d_cells[i]
  BY <1>1, <1>2
<1>4. ASSUME NEW i \in 1 .. Len(track_port)
      PROVE  stored[Len(d_cells) + i] = track_port[i]
  <2>1. /\ Len(d_cells) + i \in 1 .. Len(d_cells) + Len(track_port)
        /\ ~(Len(d_cells) + i <= Len(d_cells))
        /\ Len(d_cells) + i - Len(d_cells) = i
    BY <1>2
  <2> QED BY <1>1, <2>1
<1>5. ToSet(stored) = ToSet(d_cells) \cup ToSet(track_port)
  BY ToSetOfConcat DEF stored
<1> QED BY <1>1, <1>2, <1>3, <1>4, <1>5

(* drop_cell keeps every other entry, in its place in the order.           *)
LEMMA DropKeeps ==
  ASSUME NEW S, d_cells \in Seq(S), track_port \in Seq(S), Store!DropCell
  PROVE  /\ d_cells' \in Seq(S)
         /\ ToSet(d_cells') = ToSet(d_cells) \ {Head(drop_port)}
         /\ track_port' = track_port
         /\ \E e \in [1 .. Len(stored') -> 1 .. Len(stored)] :
              /\ \A i \in 1 .. Len(stored') : stored'[i] = stored[e[i]]
              /\ \A i, j \in 1 .. Len(stored') : i < j => e[i] < e[j]
              /\ \A i \in 1 .. Len(stored) :
                   stored[i] # Head(drop_port)
                     => \E j \in 1 .. Len(stored') : e[j] = i
<1> DEFINE m == Head(drop_port)
           kept == {i \in DOMAIN d_cells : ~Store!Same(d_cells[i], m)}
           n == Cardinality(kept)
<1>1. /\ Len(d_cells) \in Nat /\ Len(track_port) \in Nat
      /\ DOMAIN d_cells = 1 .. Len(d_cells)
      /\ \A i \in 1 .. Len(d_cells) : d_cells[i] \in S
  BY LenProperties, ElementOfSeq
<1>2. kept \subseteq 1 .. Len(d_cells)
  BY <1>1
<1>3. n \in Nat
  <2>1. IsFiniteSet(1 .. Len(d_cells))
    BY <1>1, FS_Interval
  <2>2. IsFiniteSet(kept)
    BY <1>2, <2>1, FS_Subset
  <2> QED BY <2>2, FS_CardinalityType
<1>4. PICK f \in Store!InOrder(kept) : d_cells' = [i \in DOMAIN f |-> d_cells[f[i]]]
  BY DEF Store!DropCell
<1>5. track_port' = track_port
  BY DEF Store!DropCell
<1>6. \A i \in kept : d_cells[i] # m
  BY DEF Store!Same
<1>7. \A i \in 1 .. Len(d_cells) : d_cells[i] # m => i \in kept
  BY <1>1 DEF Store!Same
<1> HIDE DEF kept, n
<1>8. /\ f \in [1 .. n -> kept] /\ DOMAIN f = 1 .. n
      /\ \A i \in kept : \E j \in 1 .. n : f[j] = i
      /\ \A i, j \in 1 .. n : i < j => f[i] < f[j]
  <2>1. /\ f \in Bijection(1 .. n, kept)
        /\ \A i, j \in DOMAIN f : i < j => f[i] < f[j]
    <3>1. f \in {h \in Bijection(1 .. Cardinality(kept), kept) :
                   \A i, j \in DOMAIN h : i < j => h[i] < h[j]}
      BY <1>4 DEF Store!InOrder, Store!Cardinality, Cardinality,
                  Store!Bijection, Store!Injection, Store!Surjection,
                  Store!IsInjective, IsInjective,
                  Bijection, Injection, Surjection
    <3>2. f \in {h \in Bijection(1 .. n, kept) :
                   \A i, j \in DOMAIN h : i < j => h[i] < h[j]}
      BY <3>1 DEF n
    <3> QED BY <3>2
  <2>2. f \in [1 .. n -> kept] /\ \A i \in kept : \E j \in 1 .. n : f[j] = i
    BY <2>1 DEF Bijection, Injection, Surjection
  <2> QED BY <2>1, <2>2
<1>9. /\ d_cells' \in Seq(S) /\ Len(d_cells') = n
      /\ \A i \in 1 .. n : d_cells'[i] = d_cells[f[i]]
  <2>1. \A i \in 1 .. n : f[i] \in 1 .. Len(d_cells) /\ d_cells[f[i]] \in S
    BY <1>1, <1>2, <1>8
  <2>2. d_cells' = [i \in 1 .. n |-> d_cells[f[i]]]
    BY <1>4, <1>8
  <2>3. d_cells' \in [1 .. n -> S]
    BY <2>1, <2>2
  <2>4. d_cells' \in Seq(S)
    BY <1>3, <2>3, SeqDef
  <2>5. DOMAIN d_cells' = 1 .. Len(d_cells') /\ Len(d_cells') \in Nat
    BY <2>4, LenProperties
  <2>6. Len(d_cells') = n
    BY <1>3, <2>3, <2>5
  <2> QED BY <2>2, <2>4, <2>6
<1>10. ToSet(d_cells') = ToSet(d_cells) \ {m}
  <2>1. ASSUME NEW c \in ToSet(d_cells') PROVE c \in ToSet(d_cells) /\ c # m
    <3>1. PICK i \in 1 .. n : d_cells'[i] = c
      <4>1. \E i \in 1 .. Len(d_cells') : d_cells'[i] = c
        BY <1>9, <2>1, ToSetOfSeq
      <4> QED BY <1>9, <4>1
    <3>2. f[i] \in kept /\ d_cells[f[i]] = c /\ f[i] \in 1 .. Len(d_cells)
      BY <1>2, <1>8, <1>9, <3>1
    <3>3. c # m
      BY <1>6, <3>2
    <3>4. c \in ToSet(d_cells)
      BY <3>2, ToSetOfSeq
    <3> QED BY <3>3, <3>4
  <2>2. ASSUME NEW c \in ToSet(d_cells), c # m PROVE c \in ToSet(d_cells')
    <3>1. PICK i \in 1 .. Len(d_cells) : d_cells[i] = c
      BY <2>2, ToSetOfSeq
    <3>2. PICK j \in 1 .. n : f[j] = i
      BY <1>7, <1>8, <2>2, <3>1
    <3>3. d_cells'[j] = c
      BY <1>9, <3>1, <3>2
    <3> QED BY <1>9, <3>3, ToSetOfSeq
  <2> QED BY <2>1, <2>2
<1> DEFINE L == Len(d_cells)
           T == Len(track_port)
           e == [i \in 1 .. n + T |-> IF i <= n THEN f[i] ELSE i - n + L]
<1>11. /\ Len(stored) = L + T /\ L \in Nat /\ T \in Nat
       /\ \A i \in 1 .. L : stored[i] = d_cells[i]
       /\ \A i \in 1 .. T : stored[L + i] = track_port[i]
  BY StoredType
<1>12. /\ Len(stored') = n + T
       /\ \A i \in 1 .. n : stored'[i] = d_cells'[i]
       /\ \A i \in 1 .. T : stored'[n + i] = track_port[i]
  <2>1. /\ d_cells' \o track_port \in Seq(S)
        /\ Len(d_cells' \o track_port) = Len(d_cells') + Len(track_port)
        /\ \A i \in 1 .. Len(d_cells') + Len(track_port) :
             (d_cells' \o track_port)[i] = IF i <= Len(d_cells') THEN d_cells'[i]
                                             ELSE track_port[i - Len(d_cells')]
    BY <1>9, ConcatProperties
  <2>2. stored' = d_cells' \o track_port
    BY <1>5 DEF stored
  <2>3. ASSUME NEW i \in 1 .. T PROVE stored'[n + i] = track_port[i]
    <3>1. n + i \in 1 .. n + T /\ ~(n + i <= n) /\ n + i - n = i
      BY <1>1, <1>3
    <3>2. \A x \in 1 .. n + T :
            stored'[x] = IF x <= n THEN d_cells'[x] ELSE track_port[x - n]
      BY <1>9, <2>1, <2>2
    <3>3. \A x \in 1 .. n + T : ~(x <= n) => stored'[x] = track_port[x - n]
      BY <3>2
    <3>4. \A x \in 1 .. n + T : x = n + i => stored'[x] = track_port[i]
      BY <1>1, <1>3, <3>3
    <3> QED BY <3>1, <3>4
  <2>4. ASSUME NEW i \in 1 .. n PROVE stored'[i] = d_cells'[i]
    <3>1. i \in 1 .. n + T /\ i <= n
      BY <1>1, <1>3
    <3> QED BY <1>9, <2>1, <2>2, <3>1
  <2> QED BY <1>9, <2>1, <2>2, <2>3, <2>4
<1>13. ASSUME NEW i \in 1 .. n
       PROVE  e[i] = f[i] /\ e[i] \in 1 .. L /\ stored'[i] = stored[e[i]]
  <2>1. i \in 1 .. n + T /\ i <= n
    BY <1>3, <1>11
  <2>2. f[i] \in kept
    BY <1>8
  <2>3. f[i] \in 1 .. L
    BY <2>2, <1>2
  <2>4. e[i] = f[i]
    BY <2>1
  <2>5. stored'[i] = d_cells[f[i]] /\ stored[f[i]] = d_cells[f[i]]
    BY <2>3, <1>9, <1>11, <1>12
  <2> QED BY <2>3, <2>4, <2>5
<1>14. ASSUME NEW i \in 1 .. T
       PROVE  /\ n + i \in 1 .. n + T /\ e[n + i] = L + i
              /\ stored'[n + i] = stored[e[n + i]]
  <2>1. /\ n + i \in 1 .. n + T /\ ~(n + i <= n) /\ n + i - n + L = L + i
    BY <1>3, <1>11
  <2>2. \A x \in 1 .. n + T : e[x] = IF x <= n THEN f[x] ELSE x - n + L
    OBVIOUS
  <2>4. e[n + i] = L + i
    <3> HIDE DEF e, L, T
    <3>1. \A x \in 1 .. n + T : x = n + i => e[x] = L + i
      BY <1>3, <1>11, <2>2
    <3> QED BY <2>1, <3>1
  <2>3. stored'[n + i] = track_port[i] /\ stored[L + i] = track_port[i]
    BY <1>11, <1>12
  <2> QED BY <2>1, <2>3, <2>4
<1> HIDE DEF e
<1>15. ASSUME NEW i \in 1 .. n + T
       PROVE  \/ i \in 1 .. n
              \/ i - n \in 1 .. T /\ i = n + (i - n)
  BY <1>1, <1>3
<1>16. ASSUME NEW i \in 1 .. n + T
       PROVE  e[i] \in 1 .. L + T /\ stored'[i] = stored[e[i]]
  <2>1. CASE i \in 1 .. n
    BY <2>1, <1>11, <1>13
  <2>2. CASE i - n \in 1 .. T /\ i = n + (i - n)
    <3>1. e[i] = L + (i - n) /\ stored'[i] = stored[e[i]]
      BY <2>2, <1>14
    <3> QED BY <2>2, <3>1, <1>11
  <2> QED BY <1>15, <2>1, <2>2
<1>17. ASSUME NEW i \in 1 .. n + T, NEW j \in 1 .. n + T, i < j
       PROVE  e[i] < e[j]
  <2>1. CASE i \in 1 .. n /\ j \in 1 .. n
    BY <2>1, <1>8, <1>13, <1>17
  <2>2. CASE i \in 1 .. n /\ j - n \in 1 .. T /\ j = n + (j - n)
    <3>1. e[i] \in 1 .. L /\ e[j] = L + (j - n)
      BY <2>2, <1>13, <1>14
    <3> QED BY <2>2, <3>1, <1>11
  <2>3. CASE /\ i - n \in 1 .. T /\ i = n + (i - n)
             /\ j - n \in 1 .. T /\ j = n + (j - n)
    <3>1. e[i] = L + (i - n) /\ e[j] = L + (j - n)
      BY <2>3, <1>14
    <3> QED BY <2>3, <3>1, <1>3, <1>11, <1>17
  <2>4. ~(i - n \in 1 .. T /\ j \in 1 .. n)
    BY <1>3, <1>11, <1>17
  <2> QED BY <1>15, <2>1, <2>2, <2>3, <2>4
<1>18. ASSUME NEW i \in 1 .. L + T, stored[i] # m
       PROVE  \E j \in 1 .. n + T : e[j] = i
  <2>1. CASE i \in 1 .. L
    <3>1. i \in kept
      BY <2>1, <1>7, <1>11, <1>18
    <3>2. PICK j \in 1 .. n : f[j] = i
      BY <3>1, <1>8
    <3>3. j \in 1 .. n + T
      BY <1>3, <1>11
    <3> QED BY <3>2, <3>3, <1>13
  <2>2. CASE i - L \in 1 .. T
    <3>1. n + (i - L) \in 1 .. n + T /\ e[n + (i - L)] = L + (i - L)
      BY <2>2, <1>14
    <3>2. L + (i - L) = i
      BY <1>11
    <3> QED BY <3>1, <3>2
  <2>3. i \in 1 .. L \/ i - L \in 1 .. T
    BY <1>11
  <2> QED BY <2>1, <2>2, <2>3
<1>19. e \in [1 .. n + T -> 1 .. L + T]
  <2>1. e = [i \in 1 .. n + T |-> e[i]]
    BY DEF e
  <2> QED BY <2>1, <1>16
<1>20. /\ \A i \in 1 .. n + T : stored'[i] = stored[e[i]]
       /\ \A i, j \in 1 .. n + T : i < j => e[i] < e[j]
       /\ \A i \in 1 .. L + T : stored[i] # m => \E j \in 1 .. n + T : e[j] = i
  BY <1>16, <1>17, <1>18
<1>21. Len(stored') = n + T /\ Len(stored) = L + T
  BY <1>11, <1>12
<1>22. \E h \in [1 .. Len(stored') -> 1 .. Len(stored)] :
         /\ \A i \in 1 .. Len(stored') : stored'[i] = stored[h[i]]
         /\ \A i, j \in 1 .. Len(stored') : i < j => h[i] < h[j]
         /\ \A i \in 1 .. Len(stored) :
              stored[i] # m => \E j \in 1 .. Len(stored') : h[j] = i
  <2> HIDE DEF L, T
  <2>1. e \in [1 .. Len(stored') -> 1 .. Len(stored)]
    BY <1>19, <1>21
  <2>2. /\ \A i \in 1 .. Len(stored') : stored'[i] = stored[e[i]]
        /\ \A i, j \in 1 .. Len(stored') : i < j => e[i] < e[j]
        /\ \A i \in 1 .. Len(stored) :
             stored[i] # m => \E j \in 1 .. Len(stored') : e[j] = i
    BY <1>20, <1>21
  <2> QED BY <2>1, <2>2
<1> QED BY <1>5, <1>9, <1>10, <1>22

----------------------------------------------------------------------------
(* The inductive invariant.                                                *)

(* What the invariant says of the types, in the words of the lemmas above. *)
LEMMA InvTypes ==
  ASSUME IInv
  PROVE  /\ stored \in Seq(Message) /\ DOMAIN stored = 1 .. Len(stored)
         /\ Len(stored) \in Nat /\ ToSet(stored) \subseteq Message
         /\ ToSet(stored) = ToSet(d_cells) \cup ToSet(track_port)
         /\ \A i \in 1 .. Len(stored) : stored[i] \in ToSet(stored)
         /\ Current \subseteq Message
         /\ \A c \in Current : Tracked(c.id) /\ said[c.id].cell = c
<1>1. d_cells \in Seq(Message) /\ track_port \in Seq(Message)
  BY DEF IInv, TypeOK
<1>2. /\ stored \in Seq(Message) /\ DOMAIN stored = 1 .. Len(stored)
      /\ ToSet(stored) = ToSet(d_cells) \cup ToSet(track_port)
  BY <1>1, StoredType
<1>3. Len(stored) \in Nat
  BY <1>2, LenProperties
<1>4. ToSet(stored) \subseteq Message
  BY <1>2, ToSetOfSeq
<1>5. \A i \in 1 .. Len(stored) : stored[i] \in ToSet(stored)
  BY <1>2, ToSetOfSeq
<1>6. /\ Current \subseteq Message
      /\ \A c \in Current : Tracked(c.id) /\ said[c.id].cell = c
  BY DEF IInv, TracksOwnCell, Current
<1> QED BY <1>2, <1>3, <1>4, <1>5, <1>6

(* At first nothing is stored, waits or is tracked.                        *)
LEMMA InitIInv == Init => IInv
<1> SUFFICES ASSUME Init PROVE IInv
  OBVIOUS
<1>1. /\ track_port = <<>> /\ drop_port = <<>> /\ d_cells = <<>>
      /\ port \in {"track", "drop"} /\ overtaken = {}
      /\ said = [k \in Chain |-> [port |-> "none", cell |-> NIL, turn |-> 0]]
  BY DEF Init, Store!Init
<1>2. Current = {}
  BY <1>1 DEF Current, Tracked
<1>3. <<>> \in Seq(Message) /\ Len(<<>>) = 0 /\ ToSet(<<>>) = {}
  BY DEF ToSet
<1>4. stored = <<>>
  BY <1>1 DEF stored
<1>5. TypeOK
  BY <1>1, <1>3 DEF TypeOK
<1>6. TracksOwnCell
  BY <1>1 DEF TracksOwnCell, Tracked
<1>7. DropIsOver /\ CurrentIsStoredOnce
  BY <1>2 DEF DropIsOver, CurrentIsStoredOnce
<1>8. LeftoversAreKnown
  BY <1>3, <1>4 DEF LeftoversAreKnown
<1>9. NewestLast /\ NoneTwice
  BY <1>4 DEF NewestLast, NoneTwice
<1> QED BY <1>5, <1>6, <1>7, <1>8, <1>9 DEF IInv

(* What is tracked after a chain has posted on its track port. *)
LEMMA SaidTracks ==
  ASSUME IInv, NEW k \in Chain, NEW c, ~Tracked(k), Says(k, "track", c)
  PROVE  Current' = Current \cup {c}
<1>1. /\ \A j \in Chain \ {k} : said'[j] = said[j]
      /\ said'[k].port = "track" /\ said'[k].cell = c
  BY DEF IInv, TypeOK, Says
<1>2. Current' = {said'[j].cell : j \in {i \in Chain : said'[i].port = "track"}}
  BY DEF Current, Tracked
<1>3. {i \in Chain : said'[i].port = "track"} = {i \in Chain : Tracked(i)} \cup {k}
  BY <1>1 DEF Tracked
<1> QED BY <1>1, <1>2, <1>3 DEF Current, Tracked

(* What is tracked after a chain has posted on its drop port. *)
LEMMA SaidDrops ==
  ASSUME IInv, NEW k \in Chain, Tracked(k), Says(k, "drop", said[k].cell)
  PROVE  Current' = Current \ {said[k].cell}
<1> DEFINE m == said[k].cell
<1>1. /\ \A j \in Chain \ {k} : said'[j] = said[j]
      /\ said'[k].port = "drop"
  BY DEF IInv, TypeOK, Says
<1>2. Current' = {said'[j].cell : j \in {i \in Chain : said'[i].port = "track"}}
  BY DEF Current, Tracked
<1>3. {i \in Chain : said'[i].port = "track"} = {i \in Chain : Tracked(i)} \ {k}
  BY <1>1 DEF Tracked
<1>4. Current' = {said[j].cell : j \in {i \in Chain : Tracked(i)} \ {k}}
  BY <1>1, <1>2, <1>3
<1>5. m.id = k
  BY DEF IInv, TracksOwnCell
<1>6. ASSUME NEW j \in Chain \ {k}, Tracked(j) PROVE said[j].cell # m
  BY <1>5, <1>6 DEF IInv, TracksOwnCell
<1> QED BY <1>4, <1>6 DEF Current

(* A new cell is put behind everything that is stored or waits.            *)
LEMMA PublishStep ==
  ASSUME IInv, NEW k \in Chain, NEW p \in Pmt, Publish(k, p)
  PROVE  IInv'
<1> DEFINE c == [pmt |-> p, id |-> k]
           n == Len(stored)
<1>1. c \in Message /\ c.pmt = p /\ c.id = k
  BY DEF Message
<1>2. /\ ~Tracked(k)
      /\ Says(k, "track", c)
      /\ track_port' = Append(track_port, c)
      /\ overtaken' = {d \in overtaken : d.pmt # p}
      /\ drop_port' = drop_port /\ port' = port /\ d_cells' = d_cells
  BY DEF Publish
<1>3. \A d \in Current \cup ToSet(stored) : d.pmt # p
  BY InvTypes DEF Publish, Fresh, InUse
<1> HIDE DEF c
<1>4. c \notin Current /\ c \notin ToSet(stored)
  BY <1>1, <1>3
<1>5. stored' = Append(stored, c)
  <2>1. d_cells \in Seq(Message) /\ track_port \in Seq(Message)
    BY DEF IInv, TypeOK
  <2>2. Append(track_port, c) = track_port \o <<c>>
    BY <1>1, <2>1, AppendIsConcat
  <2>3. Append(stored, c) = stored \o <<c>>
    BY <1>1, InvTypes, AppendIsConcat
  <2>4. d_cells \o (track_port \o <<c>>) = (d_cells \o track_port) \o <<c>>
    BY <1>1, <2>1, ConcatAssociative
  <2> QED BY <1>2, <2>2, <2>3, <2>4 DEF stored
<1>6. /\ DOMAIN (stored') = 1 .. n + 1 /\ n \in Nat
      /\ \A i \in 1 .. n : stored'[i] = stored[i] /\ stored[i] # c
      /\ stored'[n + 1] = c
      /\ ToSet(stored') = ToSet(stored) \cup {c}
  <2>1. /\ Append(stored, c) \in Seq(Message) /\ Len(Append(stored, c)) = n + 1
        /\ \A i \in 1 .. n : Append(stored, c)[i] = stored[i]
        /\ Append(stored, c)[n + 1] = c
    BY <1>1, InvTypes, AppendProperties
  <2>2. DOMAIN Append(stored, c) = 1 .. n + 1
    BY <2>1, LenProperties
  <2>3. \A i \in 1 .. n : stored[i] # c
    BY <1>4, InvTypes
  <2>4. ToSet(Append(stored, c)) = ToSet(stored) \cup {c}
    BY <1>1, InvTypes, ToSetOfAppend
  <2>5. n \in Nat
    BY InvTypes
  <2> QED BY <1>5, <2>1, <2>2, <2>3, <2>4, <2>5
<1>7. /\ \A j \in Chain \ {k} : said'[j] = said[j]
      /\ said'[k].port = "track" /\ said'[k].cell = c
  BY <1>2 DEF IInv, TypeOK, Says
<1>8. Current' = Current \cup {c}
  BY <1>1, <1>2, SaidTracks
<1>9. TypeOK'
  <2>1. track_port' \in Seq(Message)
    BY <1>1, <1>2, AppendProperties DEF IInv, TypeOK
  <2>2. said' \in [Chain -> [port : {"none", "track", "drop"},
                            cell : Message \cup {NIL}, turn : {0, 1}]]
    BY <1>1, <1>2 DEF IInv, TypeOK, Says
  <2>3. Message' = Message
    BY DEF Message
  <2> QED BY <1>2, <2>1, <2>2 DEF IInv, TypeOK
<1>10. TracksOwnCell'
  <2>1. ASSUME NEW j \in Chain, said'[j].port = "track"
        PROVE  said'[j].cell \in Message /\ said'[j].cell.id = j
    BY <1>1, <1>7, <2>1 DEF IInv, TracksOwnCell, Tracked
  <2> QED BY <2>1 DEF TracksOwnCell, Tracked
<1>11. DropIsOver'
  <2>1. c \notin ToSet(drop_port)
    BY <1>1 DEF Publish, Fresh, InUse
  <2>2. ToSet(drop_port) \cap (Current \cup {c}) = {}
    BY <2>1 DEF IInv, DropIsOver
  <2> QED BY <1>2, <1>8, <2>2 DEF DropIsOver
<1>12. CurrentIsStoredOnce'
  <2>1. ASSUME NEW d \in Current
        PROVE  \E i \in 1 .. n + 1 : \A j \in 1 .. n + 1 : stored'[j] = d <=> j = i
    <3>1. PICK i \in 1 .. n : \A j \in 1 .. n : stored[j] = d <=> j = i
      <4>1. \E i \in DOMAIN stored : \A j \in DOMAIN stored : stored[j] = d <=> j = i
        BY DEF IInv, CurrentIsStoredOnce, OnceIn
      <4>2. DOMAIN stored = 1 .. Len(stored)
        BY InvTypes
      <4> QED BY ONLY <4>1, <4>2
    <3>2. d # c
      BY <1>4
    <3>3. i \in 1 .. n + 1
      BY <1>6
    <3>4. ASSUME NEW j \in 1 .. n + 1 PROVE stored'[j] = d <=> j = i
      <4>1. CASE j = n + 1
        BY <1>6, <3>2, <4>1
      <4>2. CASE j \in 1 .. n
        BY <1>6, <3>1, <4>2
      <4> QED BY <1>6, <4>1, <4>2
    <3> QED BY <3>3, <3>4
  <2>2. \E i \in 1 .. n + 1 : \A j \in 1 .. n + 1 : stored'[j] = c <=> j = i
    <3>1. n + 1 \in 1 .. n + 1
      BY <1>6
    <3>2. ASSUME NEW j \in 1 .. n + 1 PROVE stored'[j] = c <=> j = n + 1
      <4>1. CASE j = n + 1
        BY <1>6, <4>1
      <4>2. CASE j \in 1 .. n
        <5>1. stored'[j] # c
          BY <1>6, <4>2
        <5>2. j # n + 1
          BY <1>6, <4>2
        <5> QED BY ONLY <5>1, <5>2
      <4>3. j = n + 1 \/ j \in 1 .. n
        BY <1>6
      <4> QED BY ONLY <4>1, <4>2, <4>3
    <3> QED BY <3>1, <3>2
  <2>3. ASSUME NEW d \in Current'
        PROVE  \E i \in DOMAIN (stored') :
                 \A j \in DOMAIN (stored') : stored'[j] = d <=> j = i
    <3>1. PICK i \in 1 .. n + 1 : \A j \in 1 .. n + 1 : stored'[j] = d <=> j = i
      BY <1>8, <2>1, <2>2
    <3>2. DOMAIN (stored') = 1 .. n + 1
      BY <1>6
    <3> QED BY ONLY <3>1, <3>2
  <2> QED BY <2>3, Zenon DEF CurrentIsStoredOnce, OnceIn
<1>13. LeftoversAreKnown'
  <2>1. ASSUME NEW d \in ToSet(stored) \ Current
        PROVE  d \in ToSet(drop_port) \cup overtaken'
    BY <1>2, <1>3 DEF IInv, LeftoversAreKnown
  <2> QED BY <1>2, <1>6, <1>8, <2>1 DEF LeftoversAreKnown
<1>14. NewestLast'
  <2>1. ASSUME NEW i \in 1 .. n + 1, NEW j \in 1 .. n + 1, i < j,
               stored'[i].id = stored'[j].id
        PROVE  stored'[i] \notin Current \cup {c}
    <3>1. i \in 1 .. n
      BY <1>6, <2>1
    <3>2. stored'[i] = stored[i] /\ stored[i] # c
      BY <1>6, <3>1
    <3>3. CASE j \in 1 .. n
      <4>1. stored'[j] = stored[j]
        BY <1>6, <3>3
      <4>2. stored[i].id = stored[j].id
        BY <2>1, <3>2, <4>1
      <4>3. i \in DOMAIN stored /\ j \in DOMAIN stored
        BY <3>1, <3>3, InvTypes
      <4>4. stored[i] \notin Current
        BY <2>1, <4>2, <4>3 DEF IInv, NewestLast
      <4> QED BY <3>2, <4>4
    <3>4. CASE j = n + 1
      <4>1. stored[i].id = k
        BY <1>1, <1>6, <2>1, <3>2, <3>4
      <4> QED BY <1>2, <3>2, <4>1, InvTypes
    <3> QED BY <1>6, <3>3, <3>4
  <2> QED BY <1>6, <1>8, <2>1 DEF NewestLast
<1>15. NoneTwice'
  <2>1. ASSUME NEW i \in 1 .. n + 1, NEW j \in 1 .. n + 1, stored'[i] = stored'[j]
        PROVE  i = j
    <3>1. CASE i \in 1 .. n /\ j \in 1 .. n
      <4>1. stored[i] = stored[j] /\ DOMAIN stored = 1 .. n
        BY <1>6, <2>1, <3>1, InvTypes
      <4> QED BY <3>1, <4>1 DEF IInv, NoneTwice
    <3>2. i = n + 1 <=> j = n + 1
      <4>1. \A x \in 1 .. n + 1 : x = n + 1 <=> stored'[x] = c
        BY <1>6
      <4> QED BY <2>1, <4>1
    <3> QED BY <1>6, <3>1, <3>2
  <2> QED BY <1>6, <2>1 DEF NoneTwice
<1> QED BY <1>9, <1>10, <1>11, <1>12, <1>13, <1>14, <1>15 DEF IInv

(* The chain's last message names the cell that is given up, and only it. *)
LEMMA WithdrawStep ==
  ASSUME IInv, NEW k \in Chain, Withdraw(k)
  PROVE  IInv'
<1> DEFINE m == said[k].cell
<1>1. /\ Tracked(k) /\ m \in Message /\ m.id = k
      /\ Says(k, "drop", said[k].cell)
      /\ drop_port' = Append(drop_port, m)
      /\ track_port' = track_port /\ port' = port /\ d_cells' = d_cells
      /\ overtaken' = overtaken
  BY DEF Withdraw, IInv, TracksOwnCell
<1>2. stored' = stored /\ Message' = Message
  BY <1>1 DEF stored, Message
<1>3. drop_port' \in Seq(Message) /\ ToSet(drop_port') = ToSet(drop_port) \cup {m}
  <2>1. drop_port \in Seq(Message)
    BY DEF IInv, TypeOK
  <2> HIDE DEF m
  <2> QED BY <1>1, <2>1, AppendProperties, ToSetOfAppend
<1>4. /\ \A j \in Chain \ {k} : said'[j] = said[j]
      /\ said'[k].port = "drop"
  BY <1>1 DEF IInv, TypeOK, Says
<1>5. Current' = Current \ {m}
  BY <1>1, SaidDrops
<1> HIDE DEF m
<1>6. TypeOK'
  <2>1. said' \in [Chain -> [port : {"none", "track", "drop"},
                            cell : Message \cup {NIL}, turn : {0, 1}]]
    BY <1>1 DEF IInv, TypeOK, Says, m
  <2> QED BY <1>1, <1>2, <1>3, <2>1 DEF IInv, TypeOK
<1>7. TracksOwnCell'
  <2>1. ASSUME NEW j \in Chain, said'[j].port = "track"
        PROVE  said'[j].cell \in Message /\ said'[j].cell.id = j
    <3>1. j # k
      BY <1>4, <2>1
    <3> QED BY <1>4, <2>1, <3>1 DEF IInv, TracksOwnCell, Tracked
  <2> QED BY <1>2, <2>1 DEF TracksOwnCell, Tracked
<1>8. DropIsOver'
  BY <1>3, <1>5 DEF IInv, DropIsOver
<1>9. CurrentIsStoredOnce'
  BY <1>2, <1>5 DEF IInv, CurrentIsStoredOnce, OnceIn
<1>10. LeftoversAreKnown'
  BY <1>1, <1>2, <1>3, <1>5 DEF IInv, LeftoversAreKnown
<1>11. NewestLast' /\ NoneTwice'
  BY <1>2, <1>5 DEF IInv, NewestLast, NoneTwice
<1> QED BY <1>6, <1>7, <1>8, <1>9, <1>10, <1>11 DEF IInv

(* What the chains post does not change with what the cellstore does.      *)
LEMMA SameChains ==
  ASSUME IInv, UNCHANGED said
  PROVE  Current' = Current /\ TracksOwnCell' /\ Message' = Message
BY DEF IInv, Current, TracksOwnCell, Tracked, Message

(* The message moves from the head of its queue to the end of the list: to *)
(* where it already stood in the two taken together.                       *)
LEMMA TrackCellStep == ASSUME IInv, TrackCell PROVE IInv'
<1>1. /\ track_port # <<>>
      /\ d_cells' = Append(d_cells, Head(track_port))
      /\ track_port' = Tail(track_port)
      /\ drop_port' = drop_port /\ port' = port
      /\ said' = said /\ overtaken' = overtaken
  BY DEF TrackCell, Store!TrackCell
<1>2. d_cells \in Seq(Message) /\ track_port \in Seq(Message)
  BY DEF IInv, TypeOK
<1>3. stored' = stored
  <2>1. Append(d_cells, Head(track_port)) \o Tail(track_port) = d_cells \o track_port
    BY <1>1, <1>2, MoveHead
  <2> QED BY <1>1, <2>1 DEF stored
<1>4. d_cells' \in Seq(Message) /\ track_port' \in Seq(Message)
  <2>1. Head(track_port) \in Message /\ Tail(track_port) \in Seq(Message)
    BY <1>1, <1>2, ToSetOfTail
  <2> QED BY <1>1, <1>2, <2>1, AppendProperties
<1>5. Current' = Current /\ TracksOwnCell' /\ Message' = Message
  BY <1>1, SameChains
<1>6. TypeOK'
  BY <1>1, <1>4, <1>5 DEF IInv, TypeOK
<1>7. /\ DropIsOver' /\ CurrentIsStoredOnce' /\ LeftoversAreKnown'
      /\ NewestLast' /\ NoneTwice'
  BY <1>1, <1>3, <1>5
     DEF IInv, DropIsOver, CurrentIsStoredOnce, OnceIn, LeftoversAreKnown,
         NewestLast, NoneTwice
<1> QED BY <1>5, <1>6, <1>7 DEF IInv

(* Turning to the other port changes neither messages nor list.            *)
LEMMA NextPortStep == ASSUME IInv, NextPort PROVE IInv'
<1>1. /\ d_cells' = d_cells /\ track_port' = track_port /\ drop_port' = drop_port
      /\ port' \in {"track", "drop"}
      /\ said' = said /\ overtaken' = overtaken
  BY DEF NextPort, Store!NextPort
<1>2. Current' = Current /\ TracksOwnCell' /\ Message' = Message
  BY <1>1, SameChains
<1>3. TypeOK'
  BY <1>1, <1>2 DEF IInv, TypeOK
<1>4. stored' = stored
  BY <1>1 DEF stored
<1>5. /\ DropIsOver' /\ CurrentIsStoredOnce' /\ LeftoversAreKnown'
      /\ NewestLast' /\ NoneTwice'
  BY <1>1, <1>2, <1>4
     DEF IInv, DropIsOver, CurrentIsStoredOnce, OnceIn, LeftoversAreKnown,
         NewestLast, NoneTwice
<1> QED BY <1>2, <1>3, <1>5 DEF IInv

(* The cell that is dropped is tracked by no chain, so every tracked cell  *)
(* keeps its one place.  If the list still has the cell afterwards, its    *)
(* track is waiting: it is overtaken.                                      *)
LEMMA DropCellStep == ASSUME IInv, DropCell PROVE IInv'
<1> DEFINE m == Head(drop_port)
           n == Len(stored)
           n2 == Len(stored')
<1>1. /\ Store!DropCell /\ drop_port # <<>>
      /\ drop_port' = Tail(drop_port) /\ port' = port
      /\ said' = said
      /\ overtaken' = overtaken \cup ({m} \cap ToSet(track_port))
  BY DEF DropCell, Store!DropCell
<1>2. /\ d_cells \in Seq(Message) /\ track_port \in Seq(Message)
      /\ drop_port \in Seq(Message)
  BY DEF IInv, TypeOK
<1>3. /\ d_cells' \in Seq(Message) /\ ToSet(d_cells') = ToSet(d_cells) \ {m}
      /\ track_port' = track_port
  BY <1>1, <1>2, DropKeeps
<1>4. PICK e \in [1 .. n2 -> 1 .. n] :
        /\ \A i \in 1 .. n2 : stored'[i] = stored[e[i]]
        /\ \A i, j \in 1 .. n2 : i < j => e[i] < e[j]
        /\ \A i \in 1 .. n : stored[i] # m => \E j \in 1 .. n2 : e[j] = i
  BY <1>1, <1>2, DropKeeps
<1>5. /\ Tail(drop_port) \in Seq(Message) /\ m \in ToSet(drop_port)
      /\ ToSet(drop_port) = ToSet(Tail(drop_port)) \cup {m}
  BY <1>1, <1>2, ToSetOfTail
<1>6. Current' = Current /\ TracksOwnCell' /\ Message' = Message
  BY <1>1, SameChains
<1>7. /\ DOMAIN (stored') = 1 .. n2 /\ n2 \in Nat
      /\ ToSet(stored') = ToSet(d_cells') \cup ToSet(track_port)
  <2>1. d_cells' \o track_port \in Seq(Message)
    BY <1>2, <1>3, ConcatProperties
  <2>2. ToSet(d_cells' \o track_port) = ToSet(d_cells') \cup ToSet(track_port)
    BY <1>2, <1>3, ToSetOfConcat
  <2>3. stored' = d_cells' \o track_port
    BY <1>3 DEF stored
  <2> QED BY <2>1, <2>2, <2>3, LenProperties
<1>8. m \notin Current
  BY <1>5 DEF IInv, DropIsOver
<1> HIDE DEF m, n2
<1>9. TypeOK'
  <2>1. ToSet(track_port) \subseteq Message
    BY <1>2, ToSetOfSeq
  <2> QED BY <1>1, <1>2, <1>3, <1>5, <1>6, <2>1 DEF IInv, TypeOK
<1>10. DropIsOver'
  BY <1>1, <1>5, <1>6 DEF IInv, DropIsOver
<1>11. CurrentIsStoredOnce'
  <2>1. ASSUME NEW c \in Current
        PROVE  \E i \in 1 .. n2 : \A j \in 1 .. n2 : stored'[j] = c <=> j = i
    <3>1. PICK i \in 1 .. n : \A j \in 1 .. n : stored[j] = c <=> j = i
      <4>1. \E i \in DOMAIN stored : \A j \in DOMAIN stored : stored[j] = c <=> j = i
        BY DEF IInv, CurrentIsStoredOnce, OnceIn
      <4>2. DOMAIN stored = 1 .. Len(stored)
        BY InvTypes
      <4> QED BY ONLY <4>1, <4>2
    <3>2. stored[i] # m
      BY <1>8, <3>1
    <3>3. PICK i2 \in 1 .. n2 : e[i2] = i
      BY <1>4, <3>2
    <3>4. ASSUME NEW j \in 1 .. n2 PROVE stored'[j] = c <=> j = i2
      <4>1. e[j] \in 1 .. n /\ stored'[j] = stored[e[j]]
        BY <1>4
      <4>2. stored'[j] = c <=> e[j] = i
        BY <3>1, <4>1
      <4>3. e[j] = i => j = i2
        <5>1. \A x, y \in 1 .. n2 : x = y \/ x < y \/ y < x
          BY <1>7
        <5>2. \A x, y \in 1 .. n : x < y => x # y
          BY InvTypes
        <5>3. e[j] \in 1 .. n /\ e[i2] \in 1 .. n
          BY <1>4
        <5>4. (j < i2 => e[j] # e[i2]) /\ (i2 < j => e[i2] # e[j])
          BY <1>4, <5>2, <5>3
        <5> QED BY <3>3, <5>1, <5>4
      <4> QED BY <3>3, <4>2, <4>3
    <3> QED BY <3>4
  <2>2. DOMAIN (stored') = 1 .. n2 /\ Current' = Current
    BY <1>6, <1>7
  <2>3. \A c \in Current : \E i \in DOMAIN (stored') :
           \A j \in DOMAIN (stored') : stored'[j] = c <=> j = i
    <3> SUFFICES ASSUME NEW c \in Current
                 PROVE  \E i \in DOMAIN (stored') :
                   \A j \in DOMAIN (stored') : stored'[j] = c <=> j = i
      OBVIOUS
    <3>1. PICK i \in 1 .. n2 : \A j \in 1 .. n2 : stored'[j] = c <=> j = i
      BY <2>1
    <3> QED BY <2>2, <3>1
  <2> QED BY <2>2, <2>3, Zenon DEF CurrentIsStoredOnce, OnceIn
<1>12. LeftoversAreKnown'
  <2>1. ASSUME NEW d \in ToSet(d_cells') \cup ToSet(track_port), d \notin Current
        PROVE  d \in ToSet(Tail(drop_port)) \cup overtaken'
    <3>1. d \in ToSet(stored)
      BY <1>3, <2>1, InvTypes
    <3>2. d \in ToSet(drop_port) \cup overtaken
      BY <2>1, <3>1 DEF IInv, LeftoversAreKnown
    <3>3. CASE d = m
      BY <1>1, <1>3, <2>1, <3>3
    <3>4. CASE d # m
      BY <1>1, <1>5, <3>2, <3>4
    <3> QED BY <3>3, <3>4
  <2> QED BY <1>1, <1>6, <1>7, <2>1 DEF LeftoversAreKnown
<1>13. NewestLast'
  <2>1. ASSUME NEW i \in 1 .. n2, NEW j \in 1 .. n2, i < j,
               stored'[i].id = stored'[j].id
        PROVE  stored'[i] \notin Current
    <3>1. /\ e[i] \in 1 .. n /\ e[j] \in 1 .. n /\ e[i] < e[j]
          /\ stored'[i] = stored[e[i]] /\ stored'[j] = stored[e[j]]
      BY <1>4, <2>1
    <3>2. e[i] \in DOMAIN stored /\ e[j] \in DOMAIN stored
      BY <3>1, InvTypes
    <3>3. stored[e[i]].id = stored[e[j]].id
      BY <2>1, <3>1
    <3> QED BY <3>1, <3>2, <3>3 DEF IInv, NewestLast
  <2> QED BY <1>6, <1>7, <2>1 DEF NewestLast
<1>14. NoneTwice'
  <2>1. ASSUME NEW i \in 1 .. n2, NEW j \in 1 .. n2, stored'[i] = stored'[j]
        PROVE  i = j
    <3>1. /\ e[i] \in 1 .. n /\ e[j] \in 1 .. n
          /\ stored[e[i]] = stored[e[j]]
      BY <1>4, <2>1
    <3>2. e[i] = e[j] /\ n \in Nat
      BY <3>1, InvTypes DEF IInv, NoneTwice
    <3>3. /\ i < j => e[i] < e[j]
          /\ j < i => e[j] < e[i]
      BY <1>4
    <3> QED BY <1>7, <3>1, <3>2, <3>3
  <2> QED BY <1>7, <2>1 DEF NoneTwice
<1> QED BY <1>6, <1>9, <1>10, <1>11, <1>12, <1>13, <1>14 DEF IInv

(* Nor does a step of something else.                                      *)
LEMMA StutterStep == ASSUME IInv, UNCHANGED vars PROVE IInv'
<1>1. /\ d_cells' = d_cells /\ track_port' = track_port /\ drop_port' = drop_port
      /\ port' = port /\ said' = said /\ overtaken' = overtaken
  BY DEF vars, storeVars
<1>2. Current' = Current /\ TracksOwnCell' /\ Message' = Message
  BY <1>1, SameChains
<1>3. TypeOK' /\ stored' = stored
  BY <1>1, <1>2 DEF IInv, TypeOK, stored
<1>4. /\ DropIsOver' /\ CurrentIsStoredOnce' /\ LeftoversAreKnown'
      /\ NewestLast' /\ NoneTwice'
  BY <1>1, <1>2, <1>3
     DEF IInv, DropIsOver, CurrentIsStoredOnce, OnceIn, LeftoversAreKnown,
         NewestLast, NoneTwice
<1> QED BY <1>2, <1>3, <1>4 DEF IInv

(* Every step keeps the invariant.                                         *)
LEMMA NextIInv == IInv /\ [Next]_vars => IInv'
  BY PublishStep, WithdrawStep, TrackCellStep, DropCellStep, NextPortStep,
     StutterStep DEF Next, StoreThread

(* The ports and the list are always in a state the invariant describes.   *)
THEOREM Inductive == Spec => []IInv
<1> QED BY InitIInv, NextIInv, PTL DEF Spec

----------------------------------------------------------------------------
(* The properties of the runs, for every set of chains and of handles.     *)

(* Type correctness: what waits and what is listed are messages, no NIL.   *)
THEOREM TypeCorrect == Spec => []TypeOK
<1>1. IInv => TypeOK
  BY DEF IInv
<1> QED BY Inductive, <1>1, PTL

(* A cell that is tracked is in the list or on its way, once: drop_cell    *)
(* never takes out the cell of another chain or of a later search.         *)
THEOREM StoredOnce == Spec => []CurrentIsStoredOnce
<1>1. IInv => CurrentIsStoredOnce
  BY DEF IInv
<1> QED BY Inductive, <1>1, PTL

(* A cell nobody tracks stays in the list for one of two reasons: its drop *)
(* is waiting, or it was handled before the track it belongs to.           *)
THEOREM LeftoversOvertaken == Spec => []LeftoversWereOvertaken
<1>1. IInv => LeftoversWereOvertaken
  BY InvTypes DEF IInv, LeftoversAreKnown, LeftoversWereOvertaken
<1> QED BY Inductive, <1>1, PTL

(* Of two cells of one chain the one tracked now is behind the other, so   *)
(* latest_cell() never prefers the lost one.                               *)
THEOREM NewestIsLast == Spec => []NewestLast
<1>1. IInv => NewestLast
  BY DEF IInv
<1> QED BY Inductive, <1>1, PTL

(* With nothing on its way and no drop that overtook its track, the list   *)
(* is what the chains are tracking, one cell for each of them.             *)
THEOREM QuietIsExact == Spec => []QuietListIsExact
<1>1. IInv => QuietListIsExact
  <2> SUFFICES ASSUME IInv, track_port = <<>>, drop_port = <<>>, overtaken = {}
               PROVE  /\ ToSet(d_cells) = Current
                      /\ \A i, j \in DOMAIN d_cells :
                           d_cells[i].id = d_cells[j].id => i = j
    BY DEF QuietListIsExact
  <2>1. ToSet(<<>>) = {}
    BY DEF ToSet
  <2>2. stored = d_cells
    <3>1. d_cells \in Seq(Message)
      BY DEF IInv, TypeOK
    <3> QED BY <3>1, ConcatEmptySeq DEF stored
  <2>3. ToSet(d_cells) \subseteq Current
    BY <2>1, <2>2 DEF IInv, LeftoversAreKnown
  <2>4. Current \subseteq ToSet(d_cells)
    BY <2>2, InvTypes DEF IInv, CurrentIsStoredOnce, OnceIn
  <2>5. ASSUME NEW i \in DOMAIN d_cells, NEW j \in DOMAIN d_cells,
               d_cells[i].id = d_cells[j].id
        PROVE  i = j
    <3>1. /\ DOMAIN d_cells = 1 .. Len(d_cells) /\ Len(d_cells) \in Nat
          /\ \A k \in DOMAIN d_cells : d_cells[k] \in Current
      BY <2>2, <2>3, InvTypes
    <3>2. \A x, y \in DOMAIN d_cells : x < y => d_cells[x].id # d_cells[y].id
      BY <2>2, <3>1 DEF IInv, NewestLast
    <3>3. i = j \/ i < j \/ j < i
      BY <3>1
    <3> QED BY <2>5, <3>2, <3>3
  <2> QED BY <2>3, <2>4, <2>5
<1> QED BY Inductive, <1>1, PTL

----------------------------------------------------------------------------
(* The cellstore implements StoreContract.                                 *)

(* The one step by which a cell is announced: none of its handle is known. *)
LEMMA PublishAnnounces ==
  ASSUME IInv, NEW k \in Chain, NEW p \in Pmt, Publish(k, p)
  PROVE  Contract!Announce([pmt |-> p, id |-> k])
<1> DEFINE c == [pmt |-> p, id |-> k]
<1>1. c \in Message /\ c.id = k /\ c.pmt = p
  BY DEF Message
<1>2. /\ ~Tracked(k) /\ c \notin InUse
      /\ Says(k, "track", c)
      /\ track_port' = Append(track_port, c) /\ d_cells' = d_cells
  BY <1>1 DEF Publish, Fresh
<1> HIDE DEF c
<1>3. c \notin Current \cup ToSet(track_port) \cup ToSet(d_cells)
  BY <1>2 DEF InUse
<1>4. \A d \in Current : d.id # k
  BY <1>2, InvTypes
<1>5. Current' = Current \cup {c}
  BY <1>1, <1>2, SaidTracks
<1>6. ToSet(track_port') = ToSet(track_port) \cup {c}
  BY <1>1, <1>2, ToSetOfAppend DEF IInv, TypeOK
<1>7. ToSet(d_cells)' = ToSet(d_cells) /\ ToSet(track_port)' = ToSet(track_port) \cup {c}
  BY <1>2, <1>6
<1>8. Contract!Announce(c)
  BY <1>1, <1>3, <1>4, <1>5, <1>7 DEF Contract!Announce
<1> QED BY <1>8 DEF c

(* The step by which it is given up: no other chain tracks the same cell.  *)
LEMMA WithdrawWithdraws ==
  ASSUME IInv, NEW k \in Chain, Withdraw(k)
  PROVE  Contract!Withdraw(said[k].cell) /\ said[k].cell \in Message
<1>1. /\ Tracked(k) /\ Says(k, "drop", said[k].cell)
      /\ track_port' = track_port /\ d_cells' = d_cells
  BY DEF Withdraw
<1>2. said[k].cell \in Message /\ said[k].cell \in Current
  BY <1>1 DEF IInv, TracksOwnCell, Current
<1>3. Current' = Current \ {said[k].cell}
  BY <1>1, SaidDrops
<1>4. ToSet(d_cells)' = ToSet(d_cells) /\ ToSet(track_port)' = ToSet(track_port)
  BY <1>1
<1> QED BY <1>2, <1>3, <1>4 DEF Contract!Withdraw

(* The step by which the list shows it: no other message waiting on the    *)
(* port is the same, so it is pending no more.                             *)
LEMMA TrackCellShows ==
  ASSUME IInv, TrackCell
  PROVE  Contract!Show(Head(track_port)) /\ Head(track_port) \in Message
<1> DEFINE c == Head(track_port)
<1>1. /\ track_port # <<>> /\ track_port' = Tail(track_port)
      /\ d_cells' = Append(d_cells, c) /\ said' = said
  BY DEF TrackCell, Store!TrackCell
<1>2. d_cells \in Seq(Message) /\ track_port \in Seq(Message)
  BY DEF IInv, TypeOK
<1>3. /\ c \in Message /\ Tail(track_port) \in Seq(Message)
      /\ c \in ToSet(track_port)
      /\ ToSet(track_port) = ToSet(Tail(track_port)) \cup {c}
  BY <1>1, <1>2, ToSetOfTail
<1>4. c \notin ToSet(Tail(track_port))
  <2> SUFFICES ASSUME c \in ToSet(Tail(track_port)) PROVE FALSE
    OBVIOUS
  <2>1. PICK i \in 1 .. Len(Tail(track_port)) : Tail(track_port)[i] = c
    <3>1. \A t \in Seq(Message) : c \in ToSet(t) <=> \E i \in 1 .. Len(t) : t[i] = c
      BY ToSetOfSeq
    <3> QED BY <1>3, <3>1
  <2>2. /\ track_port[1] = c /\ track_port[i + 1] = c
        /\ 1 \in 1 .. Len(track_port) /\ i + 1 \in 1 .. Len(track_port)
        /\ i + 1 # 1
    BY <1>1, <1>2, <2>1, HeadTailProperties, EmptySeq, LenProperties
  <2> DEFINE L == Len(d_cells)
  <2>3. /\ L \in Nat /\ Len(stored) = L + Len(track_port)
        /\ Len(track_port) \in Nat /\ DOMAIN stored = 1 .. Len(stored)
        /\ \A j \in 1 .. Len(track_port) : stored[L + j] = track_port[j]
    BY <1>2, StoredType
  <2> HIDE DEF L, c
  <2>4. /\ L + 1 \in DOMAIN stored /\ L + (i + 1) \in DOMAIN stored
        /\ L + 1 # L + (i + 1)
    BY <2>2, <2>3
  <2>5. stored[L + 1] = c /\ stored[L + (i + 1)] = c
    BY <2>2, <2>3
  <2> QED BY <2>4, <2>5 DEF IInv, NoneTwice
<1>5. ToSet(d_cells') = ToSet(d_cells) \cup {c}
  BY <1>1, <1>2, <1>3, ToSetOfAppend
<1> HIDE DEF c
<1>6. /\ ToSet(track_port)' = ToSet(track_port) \ {c}
      /\ ToSet(d_cells)' = ToSet(d_cells) \cup {c}
      /\ Current' = Current
  BY <1>1, <1>3, <1>4, <1>5, SameChains
<1>7. Contract!Show(c)
  BY <1>3, <1>6 DEF Contract!Show
<1> QED BY <1>3, <1>7 DEF c

(* The step by which a cell leaves the list, or which finds none to remove.*)
LEMMA DropCellHides ==
  ASSUME IInv, DropCell
  PROVE  \/ Contract!Hide(Head(drop_port)) /\ Head(drop_port) \in Message
         \/ UNCHANGED <<Current, ToSet(track_port), ToSet(d_cells)>>
<1> DEFINE m == Head(drop_port)
<1>1. Store!DropCell /\ drop_port # <<>> /\ said' = said
  BY DEF DropCell, Store!DropCell
<1>2. /\ d_cells \in Seq(Message) /\ track_port \in Seq(Message)
      /\ drop_port \in Seq(Message)
  BY DEF IInv, TypeOK
<1>3. ToSet(d_cells') = ToSet(d_cells) \ {m} /\ track_port' = track_port
  BY <1>1, <1>2, DropKeeps
<1>4. m \in Message /\ m \notin Current
  <2>1. m \in Message /\ m \in ToSet(drop_port)
    BY <1>1, <1>2, ToSetOfTail
  <2> QED BY <2>1 DEF IInv, DropIsOver
<1> HIDE DEF m
<1>5. /\ ToSet(track_port)' = ToSet(track_port) /\ Current' = Current
      /\ ToSet(d_cells)' = ToSet(d_cells) \ {m}
  BY <1>1, <1>3, SameChains
<1>6. CASE m \in ToSet(d_cells)
  BY <1>4, <1>5, <1>6 DEF Contract!Hide, m
<1>7. CASE m \notin ToSet(d_cells)
  BY <1>5, <1>7
<1> QED BY <1>6, <1>7

(* The cellstore, its two queues and its search by handle implement the    *)
(* list of StoreContract: what is shown was announced once for each time   *)
(* it is shown, and only what was given up is hidden.                      *)
THEOREM Refinement == Spec => ListContract
<1>1. Init => Contract!Init
  <2> SUFFICES ASSUME Init PROVE Contract!Init
    OBVIOUS
  <2>1. track_port = <<>> /\ d_cells = <<>> /\ ToSet(<<>>) = {}
    BY DEF Init, Store!Init, ToSet
  <2>2. Current = {}
    BY DEF Init, Current, Tracked
  <2> QED BY <2>1, <2>2 DEF Contract!Init
<1>2. IInv /\ [Next]_vars => [Contract!Next]_(Contract!contractVars)
  <2> SUFFICES ASSUME IInv, [Next]_vars
               PROVE  Contract!Next \/ UNCHANGED Contract!contractVars
    OBVIOUS
  <2>1. ASSUME NEW k \in Chain, NEW p \in Pmt, Publish(k, p) PROVE Contract!Next
    BY <2>1, PublishAnnounces DEF Contract!Next, Message
  <2>2. ASSUME NEW k \in Chain, Withdraw(k) PROVE Contract!Next
    BY <2>2, WithdrawWithdraws DEF Contract!Next
  <2>3. CASE TrackCell
    BY <2>3, TrackCellShows DEF Contract!Next
  <2>4. CASE DropCell
    BY <2>4, DropCellHides DEF Contract!Next, Contract!contractVars
  <2>5. CASE NextPort \/ UNCHANGED vars
    <3>1. d_cells' = d_cells /\ track_port' = track_port /\ said' = said
      BY <2>5 DEF NextPort, Store!NextPort, vars, storeVars
    <3> QED BY <3>1, SameChains DEF Contract!contractVars
  <2> QED BY <2>1, <2>2, <2>3, <2>4, <2>5 DEF Next, StoreThread
<1> QED BY <1>1, <1>2, Inductive, PTL DEF Spec, ListContract, Contract!Spec

(* A message of a chain under its contract, delivered to the cellstore, is *)
(* a step of the trigger, and the trigger's steps are no others.           *)
LEMMA PostIsStep ==
  ASSUME IInv, NEW k \in Chain
  PROVE  Post(k) <=> Withdraw(k) \/ \E p \in Pmt : Publish(k, p)
<1>1. DOMAIN said = Chain
  BY DEF IInv, TypeOK
<1>2. Tracked(k) <=> said[k].port = "track"
  BY DEF Tracked
<1>3. ASSUME NEW c, NEW to PROVE Says(k, to, c) <=>
        /\ said' = [said EXCEPT ![k] = said'[k]]
        /\ said'[k] = [port |-> to, cell |-> c, turn |-> 1 - said[k].turn]
  BY <1>1 DEF Says
<1>4. ASSUME Post(k) PROVE Withdraw(k) \/ \E p \in Pmt : Publish(k, p)
  <2>1. CASE ChainPort(k)!Drop
    <3>1. /\ Tracked(k)
          /\ said'[k] = [port |-> "drop", cell |-> said[k].cell,
                         turn |-> 1 - said[k].turn]
      BY <2>1, <1>2 DEF ChainPort!Drop
    <3>2. Says(k, "drop", said[k].cell)
      BY <1>3, <1>4, <3>1 DEF Post
    <3>3. DeliverDrop(said[k].cell) /\ UNCHANGED <<port, d_cells>>
      BY <1>4, <3>1 DEF Post
    <3> QED BY <3>1, <3>2, <3>3 DEF Withdraw, DeliverDrop
  <2>2. ASSUME NEW c \in [pmt : Pmt, id : {k}], ChainPort(k)!Track(c)
        PROVE  \E p \in Pmt : Publish(k, p)
    <3>1. /\ ~Tracked(k)
          /\ said'[k] = [port |-> "track", cell |-> c, turn |-> 1 - said[k].turn]
      BY <2>2, <1>2 DEF ChainPort!Track
    <3>2. Says(k, "track", c)
      BY <1>3, <1>4, <3>1 DEF Post
    <3>3. DeliverTrack(c) /\ UNCHANGED <<port, d_cells>>
      BY <1>4, <3>1 DEF Post
    <3>4. c.pmt \in Pmt /\ c = [pmt |-> c.pmt, id |-> k]
      OBVIOUS
    <3>5. Publish(k, c.pmt)
      BY <3>1, <3>2, <3>3, <3>4 DEF Publish, DeliverTrack
    <3> QED BY <3>4, <3>5
  <2> QED BY <1>4, <2>1, <2>2 DEF Post, ChainPort!Next
<1>5. ASSUME Withdraw(k) PROVE Post(k)
  <2>1. /\ Tracked(k) /\ Says(k, "drop", said[k].cell)
        /\ DeliverDrop(said[k].cell) /\ UNCHANGED <<port, d_cells>>
    BY <1>5 DEF Withdraw, DeliverDrop
  <2>2. /\ said' = [said EXCEPT ![k] = said'[k]]
        /\ said'[k] = [port |-> "drop", cell |-> said[k].cell,
                       turn |-> 1 - said[k].turn]
    BY <1>3, <2>1
  <2>3. ChainPort(k)!Next
    BY <1>2, <2>1, <2>2 DEF ChainPort!Next, ChainPort!Drop
  <2> QED BY <2>1, <2>2, <2>3 DEF Post
<1>6. ASSUME NEW p \in Pmt, Publish(k, p) PROVE Post(k)
  <2> DEFINE c == [pmt |-> p, id |-> k]
  <2>1. c \in [pmt : Pmt, id : {k}] /\ c.pmt = p
    OBVIOUS
  <2>2. /\ ~Tracked(k) /\ Says(k, "track", c)
        /\ DeliverTrack(c) /\ UNCHANGED <<port, d_cells>>
    BY <1>6, <2>1 DEF Publish, DeliverTrack
  <2> HIDE DEF c
  <2>3. /\ said' = [said EXCEPT ![k] = said'[k]]
        /\ said'[k] = [port |-> "track", cell |-> c, turn |-> 1 - said[k].turn]
    BY <1>3, <2>2
  <2>4. ChainPort(k)!Next
    BY <1>2, <2>1, <2>2, <2>3 DEF ChainPort!Next, ChainPort!Track
  <2> QED BY <2>2, <2>3, <2>4 DEF Post
<1> QED BY <1>4, <1>5, <1>6

(* The trigger is its parts and nothing else.  Whatever chains do that     *)
(* keep MibContract, which ChainProofs proves of a chain of blocks, is a   *)
(* behaviour of Trigger, so what is proved of Trigger holds with them; and *)
(* Trigger lets them do nothing that the contract forbids.                 *)
THEOREM TriggerIsComposition == Spec <=> ComposedSpec
<1>1. IInv => (Next <=> ComposedNext)
  BY PostIsStep DEF Next, ComposedNext
<1>2. IInv => ([Next]_vars <=> [ComposedNext]_vars)
  BY <1>1
<1> QED BY <1>2, InitIInv, NextIInv, PTL DEF Spec, ComposedSpec

=============================================================================
