------------------------------- MODULE Rings -------------------------------
(***************************************************************************)
(* Lemmas the proofs share: induction, quotients, sequences cut at their   *)
(* head, and what a ring holds between its two positions.                  *)
(***************************************************************************)
EXTENDS Integers, Sequences, SequenceTheorems, WellFoundedInduction, TLAPS

(* The library states induction for a predicate; here it is for the set of *)
(* the numbers that have a property, from the order of the naturals.       *)
LEMMA LeastNatural ==
  ASSUME NEW T, T \subseteq Nat, T # {}
  PROVE  \E m \in T : \A k \in T : m <= k
<1> DEFINE R == OpToRel(<, Nat)
<1>1. IsWellFoundedOn(R, Nat)
  BY NatLessThanWellFounded
<1>2. \A k \in Nat, m \in Nat : k < m => <<k, m>> \in R
  BY DEF OpToRel
<1> HIDE DEF R
<1>3. PICK m \in T : \A k \in T : ~ (<<k, m>> \in R)
  BY <1>1, WFMin
<1>4. ASSUME NEW k \in T, ~ (m <= k) PROVE FALSE
  <2>1. k \in Nat /\ m \in Nat
    OBVIOUS
  <2>2. k < m
    BY <1>4, <2>1
  <2>3. <<k, m>> \in R
    BY <1>2, <2>1, <2>2
  <2>4. QED
    BY <1>3, <2>3
<1>5. QED
  BY <1>4

(* Induction, for a set: a property is the set of numbers that have it. *)
LEMMA AllNaturals ==
  ASSUME NEW S, 0 \in S, \A n \in Nat : n \in S => n + 1 \in S
  PROVE  Nat \subseteq S
<1> SUFFICES ASSUME NEW T, T = Nat \ S, T # {} PROVE FALSE
  OBVIOUS
<1>1. PICK m \in T : \A k \in T : m <= k
  BY LeastNatural
<1>2. m \in Nat /\ m # 0
  BY <1>1
<1>3. m - 1 \in Nat /\ m - 1 \notin T
  BY <1>1, <1>2
<1>4. QED
  BY <1>1, <1>2, <1>3

-----------------------------------------------------------------------------
(* Quotients and remainders. *)
LEMMA Divides ==
  ASSUME NEW n \in Nat \ {0}, NEW q \in Int, NEW r \in 0 .. n - 1, NEW a \in Int,
         a = n * q + r
  PROVE  a \div n = q /\ a % n = r
OBVIOUS

LEMMA Divided ==
  ASSUME NEW a \in Nat, NEW n \in Nat \ {0}
  PROVE  /\ a \div n \in Nat /\ a % n \in 0 .. n - 1 /\ a = n * (a \div n) + (a % n)
OBVIOUS

-----------------------------------------------------------------------------
(* A sequence as its head and its tail. *)
LEMMA ConsHead ==
  ASSUME NEW S, NEW a \in S, NEW s \in Seq(S)
  PROVE  /\ <<a>> \o s # << >>
         /\ Head(<<a>> \o s) = a
         /\ Tail(<<a>> \o s) = s
<1>1. <<a>> \in Seq(S) /\ Len(<<a>>) = 1 /\ <<a>>[1] = a
  OBVIOUS
<1>2. /\ <<a>> \o s \in Seq(S) /\ Len(<<a>> \o s) = 1 + Len(s)
      /\ \A i \in 1 .. 1 + Len(s) :
           (<<a>> \o s)[i] = IF i <= 1 THEN a ELSE s[i - 1]
  BY <1>1, ConcatProperties
<1>3. <<a>> \o s # << >> /\ Head(<<a>> \o s) = a
  BY <1>2
<1>4. /\ Tail(<<a>> \o s) \in Seq(S) /\ Len(Tail(<<a>> \o s)) = Len(s)
      /\ \A i \in 1 .. Len(s) : Tail(<<a>> \o s)[i] = (<<a>> \o s)[i + 1]
  BY <1>2, <1>3, HeadTailProperties
<1>5. \A i \in 1 .. Len(s) : Tail(<<a>> \o s)[i] = s[i]
  BY <1>2, <1>4
<1>6. QED
  BY <1>3, <1>4, <1>5, SeqEqual

LEMMA HeadCons ==
  ASSUME NEW S, NEW s \in Seq(S), s # << >>
  PROVE  s = <<Head(s)>> \o Tail(s)
<1>1. /\ Head(s) \in S /\ Tail(s) \in Seq(S) /\ Len(Tail(s)) = Len(s) - 1
      /\ \A i \in 1 .. Len(Tail(s)) : Tail(s)[i] = s[i + 1]
  BY HeadTailProperties
<1>2. <<Head(s)>> \in Seq(S) /\ Len(<<Head(s)>>) = 1 /\ <<Head(s)>>[1] = Head(s)
  BY <1>1
<1>3. /\ <<Head(s)>> \o Tail(s) \in Seq(S)
      /\ Len(<<Head(s)>> \o Tail(s)) = 1 + Len(Tail(s))
      /\ \A i \in 1 .. 1 + Len(Tail(s)) :
           (<<Head(s)>> \o Tail(s))[i] = IF i <= 1 THEN <<Head(s)>>[i] ELSE Tail(s)[i - 1]
  BY <1>1, <1>2, ConcatProperties
<1>4. Len(s) \in Nat /\ Len(s) >= 1 /\ s[1] = Head(s)
  OBVIOUS
<1>5. \A i \in 1 .. Len(s) : s[i] = (<<Head(s)>> \o Tail(s))[i]
  BY <1>1, <1>2, <1>3, <1>4
<1>6. QED
  BY <1>1, <1>3, <1>4, <1>5, SeqEqual

-----------------------------------------------------------------------------
(* The slots of a ring and the one that follows another. *)
Slots(size) == 0 .. size - 1
Wrap(size, p) == (p + 1) % size

LEMMA WrapIs ==
  ASSUME NEW size \in Nat \ {0, 1}, NEW p \in Slots(size)
  PROVE  /\ Wrap(size, p) \in Slots(size)
         /\ Wrap(size, p) = IF p = size - 1 THEN 0 ELSE p + 1
<1>1. CASE p = size - 1
  BY <1>1 DEF Slots, Wrap
<1>2. CASE p # size - 1
  BY <1>2 DEF Slots, Wrap
<1>3. QED
  BY <1>1, <1>2

(* Remainders, for the positions of the ring. *)
LEMMA Modulo ==
  ASSUME NEW size \in Nat \ {0, 1}, NEW x \in Int, -size < x, x < 2 * size
  PROVE  x % size = IF x < 0 THEN x + size ELSE IF x < size THEN x ELSE x - size
<1>1. CASE x < 0
  BY <1>1
<1>2. CASE 0 <= x /\ x < size
  BY <1>2
<1>3. CASE size <= x
  BY <1>3
<1>4. QED
  BY <1>1, <1>2, <1>3

(* n slots of the ring r from slot t on, as a sequence. *)
Content(size, r, t, n) == [i \in 1 .. n |-> r[(t + i - 1) % size]]

Spells(size, T, r, t, n) ==
  /\ Content(size, r, t, n) \in Seq(T) /\ Len(Content(size, r, t, n)) = n
  /\ \A i \in 1 .. n : Content(size, r, t, n)[i] = r[(t + i - 1) % size]

LEMMA ContentSeq ==
  ASSUME NEW size, NEW T, NEW r, NEW t, NEW n \in Nat,
         \A i \in 1 .. n : r[(t + i - 1) % size] \in T
  PROVE  Spells(size, T, r, t, n)
BY DEF Content, Spells

(* How many slots there are between the two positions, and which. *)
Count(size, w, t) == (w - t) % size
In(w, t, s) == IF t <= w THEN t <= s /\ s < w ELSE s < w \/ t <= s

Filled(size, T, r, w, t) == \A s \in Slots(size) : In(w, t, s) => r[s] \in T

LEMMA CountIs ==
  ASSUME NEW size \in Nat \ {0, 1}, NEW w \in Slots(size), NEW t \in Slots(size)
  PROVE  /\ Count(size, w, t) = IF t <= w THEN w - t ELSE w - t + size
         /\ Count(size, w, t) \in 0 .. size - 1
<1>1. PICK x \in Int : x = w - t
  BY DEF Slots
<1>2. -size < x /\ x < 2 * size
  BY <1>1 DEF Slots
<1>3. x % size = IF x < 0 THEN x + size ELSE IF x < size THEN x ELSE x - size
  BY <1>2, Modulo
<1>4. QED
  BY <1>1, <1>3 DEF Count, Slots

LEMMA IndexIs ==
  ASSUME NEW size \in Nat \ {0, 1}, NEW t \in Slots(size), NEW i \in 1 .. size
  PROVE  /\ (t + i - 1) % size = IF t + i - 1 < size THEN t + i - 1 ELSE t + i - 1 - size
         /\ (t + i - 1) % size \in Slots(size)
<1>1. PICK x \in Int : x = t + i - 1
  BY DEF Slots
<1>2. -size < x /\ x < 2 * size
  BY <1>1 DEF Slots
<1>3. x % size = IF x < 0 THEN x + size ELSE IF x < size THEN x ELSE x - size
  BY <1>2, Modulo
<1>4. QED
  BY <1>1, <1>3 DEF Slots

(* The ring need be filled only between the positions. *)
LEMMA RingTyped ==
  ASSUME NEW size \in Nat \ {0, 1}, NEW T, NEW r,
         NEW w \in Slots(size), NEW t \in Slots(size),
         Filled(size, T, r, w, t)
  PROVE  Spells(size, T, r, t, Count(size, w, t)) /\ Count(size, w, t) \in Nat
<1>1. ASSUME NEW i \in 1 .. Count(size, w, t) PROVE r[(t + i - 1) % size] \in T
  <2>1. /\ (t + i - 1) % size = IF t + i - 1 < size THEN t + i - 1 ELSE t + i - 1 - size
        /\ (t + i - 1) % size \in Slots(size)
    BY IndexIs, CountIs
  <2>2. Count(size, w, t) = IF t <= w THEN w - t ELSE w - t + size
    BY CountIs
  <2>3. In(w, t, (t + i - 1) % size)
    BY <2>1, <2>2 DEF In, Slots
  <2>4. QED
    BY <2>1, <2>3 DEF Filled
<1>2. Count(size, w, t) \in Nat
  BY CountIs
<1>3. QED
  BY <1>1, <1>2, ContentSeq

(* The oldest element is taken, *)
Takes(size, T, r, w, t) ==
  /\ r[t] \in T
  /\ Content(size, r, Wrap(size, t), Count(size, w, Wrap(size, t))) \in Seq(T)
  /\ Content(size, r, t, Count(size, w, t))
       = <<r[t]>> \o Content(size, r, Wrap(size, t), Count(size, w, Wrap(size, t)))

LEMMA RingTake ==
  ASSUME NEW size \in Nat \ {0, 1}, NEW T, NEW r,
         NEW w \in Slots(size), NEW t \in Slots(size), w # t,
         Filled(size, T, r, w, t)
  PROVE  Takes(size, T, r, w, t)
<1> DEFINE c == Content(size, r, t, Count(size, w, t))
           d == Content(size, r, Wrap(size, t), Count(size, w, Wrap(size, t)))
<1>1. Wrap(size, t) \in Slots(size) /\ Wrap(size, t) = IF t = size - 1 THEN 0 ELSE t + 1
  BY WrapIs
<1>2. Filled(size, T, r, w, Wrap(size, t))
  BY <1>1 DEF Filled, In, Slots
<1>3. /\ c \in Seq(T) /\ Len(c) = Count(size, w, t)
      /\ \A i \in 1 .. Count(size, w, t) : c[i] = r[(t + i - 1) % size]
  BY RingTyped DEF Spells
<1>4. /\ d \in Seq(T) /\ Len(d) = Count(size, w, Wrap(size, t))
      /\ \A i \in 1 .. Count(size, w, Wrap(size, t)) :
           d[i] = r[(Wrap(size, t) + i - 1) % size]
  <2>1. PICK v \in Slots(size) : v = Wrap(size, t)
    BY <1>1
  <2>2. Spells(size, T, r, v, Count(size, w, v))
    BY <1>2, <2>1, RingTyped
  <2>3. QED
    BY <2>1, <2>2 DEF Spells
<1>5. /\ Count(size, w, t) \in 1 .. size - 1
      /\ Count(size, w, Wrap(size, t)) = Count(size, w, t) - 1
  <2>1. Count(size, w, t) = IF t <= w THEN w - t ELSE w - t + size
    BY CountIs
  <2>2. Count(size, w, Wrap(size, t))
          = IF Wrap(size, t) <= w THEN w - Wrap(size, t) ELSE w - Wrap(size, t) + size
    BY <1>1, CountIs
  <2>3. QED
    BY <1>1, <2>1, <2>2 DEF Slots
<1>6. c # << >>
  BY <1>3, <1>5
<1>7. Head(c) = r[t]
  <2>1. (t + 1 - 1) % size = t
    BY IndexIs DEF Slots
  <2>2. c[1] = r[t]
    BY <1>3, <1>5, <2>1
  <2>3. QED
    BY <1>3, <1>6, <2>2
<1>8. Tail(c) = d
  <2>1. /\ Tail(c) \in Seq(T) /\ Len(Tail(c)) = Len(c) - 1
        /\ \A i \in 1 .. Len(Tail(c)) : Tail(c)[i] = c[i + 1]
    BY <1>3, <1>6, HeadTailProperties
  <2>2. ASSUME NEW i \in 1 .. Len(Tail(c)) PROVE Tail(c)[i] = d[i]
    <3>1. i + 1 \in 1 .. Count(size, w, t) /\ i \in 1 .. Count(size, w, Wrap(size, t))
      BY <2>1, <1>3, <1>5
    <3>2. (t + (i + 1) - 1) % size = (Wrap(size, t) + i - 1) % size
      <4>1. i \in 1 .. size /\ i + 1 \in 1 .. size
        BY <3>1, <1>5
      <4>2. (t + (i + 1) - 1) % size =
              IF t + (i + 1) - 1 < size THEN t + (i + 1) - 1 ELSE t + (i + 1) - 1 - size
        BY <4>1, IndexIs
      <4>3. (Wrap(size, t) + i - 1) % size =
              IF Wrap(size, t) + i - 1 < size
              THEN Wrap(size, t) + i - 1 ELSE Wrap(size, t) + i - 1 - size
        BY <4>1, <1>1, IndexIs
      <4>4. i < size
        BY <3>1, <1>5
      <4>5. QED
        BY <4>1, <4>2, <4>3, <4>4, <1>1 DEF Slots
    <3>3. QED
      BY <2>1, <1>3, <1>4, <3>1, <3>2
  <2>3. QED
    BY <2>1, <2>2, <1>3, <1>4, <1>5, SeqEqual
<1>9. c = <<Head(c)>> \o Tail(c)
  BY <1>3, <1>6, HeadCons
<1>10. r[t] \in T
  BY <1>3, <1>6, <1>7, HeadTailProperties
<1>11. QED
  BY <1>4, <1>7, <1>8, <1>9, <1>10 DEF Takes

(* and one is appended to the newest. *)
Adds(size, r, w, t, b) ==
  /\ Count(size, w, t) <= size - 2
  /\ Content(size, [r EXCEPT ![w] = b], t, Count(size, Wrap(size, w), t))
       = Append(Content(size, r, t, Count(size, w, t)), b)

LEMMA RingAdd ==
  ASSUME NEW size \in Nat \ {0, 1}, NEW T, NEW U,
         NEW r \in [Slots(size) -> U], NEW w \in Slots(size), NEW t \in Slots(size),
         NEW b \in T, b \in U, Wrap(size, w) # t,
         Filled(size, T, r, w, t)
  PROVE  Adds(size, r, w, t, b)
<1> DEFINE r2 == [r EXCEPT ![w] = b]
           c == Content(size, r, t, Count(size, w, t))
           d == Content(size, r2, t, Count(size, Wrap(size, w), t))
<1>1. Wrap(size, w) \in Slots(size) /\ Wrap(size, w) = IF w = size - 1 THEN 0 ELSE w + 1
  BY WrapIs
<1>2. Filled(size, T, r2, Wrap(size, w), t)
  <2>1. \A s \in Slots(size) : In(Wrap(size, w), t, s) => s = w \/ In(w, t, s)
    BY <1>1 DEF In, Slots
  <2>2. QED
    BY <2>1 DEF Filled
<1>3. /\ c \in Seq(T) /\ Len(c) = Count(size, w, t)
      /\ \A i \in 1 .. Count(size, w, t) : c[i] = r[(t + i - 1) % size]
  BY RingTyped DEF Spells
<1>4. /\ d \in Seq(T) /\ Len(d) = Count(size, Wrap(size, w), t)
      /\ \A i \in 1 .. Count(size, Wrap(size, w), t) : d[i] = r2[(t + i - 1) % size]
  <2> HIDE DEF r2
  <2>1. PICK v \in Slots(size) : v = Wrap(size, w)
    BY <1>1
  <2>2. Spells(size, T, r2, t, Count(size, v, t))
    BY <1>2, <2>1, RingTyped
  <2>3. QED
    BY <2>1, <2>2 DEF Spells
<1>5. /\ Count(size, w, t) \in 0 .. size - 2
      /\ Count(size, Wrap(size, w), t) = Count(size, w, t) + 1
  <2>1. Count(size, w, t) = IF t <= w THEN w - t ELSE w - t + size
    BY CountIs
  <2>2. Count(size, Wrap(size, w), t)
          = IF t <= Wrap(size, w) THEN Wrap(size, w) - t ELSE Wrap(size, w) - t + size
    BY <1>1, CountIs
  <2>3. QED
    BY <1>1, <2>1, <2>2 DEF Slots
<1>6. /\ Append(c, b) \in Seq(T) /\ Len(Append(c, b)) = Len(c) + 1
      /\ \A i \in 1 .. Len(c) : Append(c, b)[i] = c[i]
      /\ Append(c, b)[Len(c) + 1] = b
  <2> HIDE DEF c
  <2>1. QED
    BY <1>3, AppendProperties
<1>7. ASSUME NEW i \in 1 .. Count(size, w, t) + 1
      PROVE  d[i] = Append(c, b)[i]
  <2>1. i \in 1 .. size
    BY <1>5
  <2>2. /\ (t + i - 1) % size = IF t + i - 1 < size THEN t + i - 1 ELSE t + i - 1 - size
        /\ (t + i - 1) % size \in Slots(size)
    BY <2>1, IndexIs
  <2>3. Count(size, w, t) = IF t <= w THEN w - t ELSE w - t + size
    BY CountIs
  <2>4. CASE i = Count(size, w, t) + 1
    <3>1. (t + i - 1) % size = w
      BY <2>2, <2>3, <2>4 DEF Slots
    <3>2. d[i] = b
      BY <1>4, <1>5, <3>1
    <3>3. QED
      BY <1>3, <1>6, <2>4, <3>2
  <2>5. CASE i <= Count(size, w, t)
    <3>1. (t + i - 1) % size # w
      BY <2>2, <2>3, <2>5 DEF Slots
    <3>2. d[i] = r[(t + i - 1) % size]
      BY <1>4, <1>5, <2>2, <3>1
    <3>3. i \in 1 .. Count(size, w, t)
      BY <1>5, <2>5
    <3>4. QED
      BY <1>3, <1>6, <3>2, <3>3
  <2>6. i = Count(size, w, t) + 1 \/ i <= Count(size, w, t)
    BY <1>5
  <2>7. QED
    BY <2>4, <2>5, <2>6
<1>8. d = Append(c, b)
  <2>1. Len(d) = Len(Append(c, b))
    BY <1>3, <1>4, <1>5, <1>6
  <2>2. \A i \in 1 .. Len(d) : d[i] = Append(c, b)[i]
    BY <1>4, <1>5, <1>7
  <2> HIDE DEF c, d
  <2>3. QED
    BY <2>1, <2>2, <1>4, <1>6, SeqEqual
<1>9. Count(size, w, t) <= size - 2
  BY <1>5
<1>10. QED
  BY <1>8, <1>9 DEF Adds
=============================================================================
