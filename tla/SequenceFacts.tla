--------------------------- MODULE SequenceFacts ---------------------------
(***************************************************************************)
(* Facts about sequences that the proofs of several components rest on:    *)
(* induction over the natural numbers, for a set instead of a predicate,   *)
(* what FlattenSeq gives, and when the parts it was given can be told from *)
(* it: when none of them begins another.                                   *)
(***************************************************************************)
EXTENDS Integers, Sequences, SequencesExt, SequenceTheorems,
        WellFoundedInduction, TLAPS

\* A set that holds 0 and with every number the next one holds them all.
LEMMA Induction ==
  ASSUME NEW T, 0 \in T, \A n \in Nat : n \in T => n + 1 \in T
  PROVE  \A n \in Nat : n \in T
  <1> SUFFICES ASSUME {n \in Nat : n \notin T} # {} PROVE FALSE
    OBVIOUS
  <1>1. PICK R : R = OpToRel(<, Nat)
    OBVIOUS
  <1>2. IsWellFoundedOn(R, Nat)
    BY <1>1, NatLessThanWellFounded
  <1>3. {n \in Nat : n \notin T} \subseteq Nat
    OBVIOUS
  <1>4. PICK x \in {n \in Nat : n \notin T} :
          \A y \in {n \in Nat : n \notin T} : ~(<<y, x>> \in R)
    BY <1>2, <1>3, WFMin
  <1>5. \A m, n \in Nat : m < n => <<m, n>> \in R
    BY <1>1 DEF OpToRel
  <1>6. x \in Nat /\ x # 0
    OBVIOUS
  <1>7. x - 1 \in Nat /\ x - 1 < x
    BY <1>6
  <1>8. x - 1 \in T
    BY <1>4, <1>5, <1>6, <1>7
  <1>9. x \in T
    BY <1>6, <1>7, <1>8
  <1> QED BY <1>9

\* A sequence that is one sequence behind another, element by element.
LEMMA IsConcat ==
  ASSUME NEW S, NEW a \in Seq(S), NEW b \in Seq(S), NEW c \in Seq(S),
         Len(c) = Len(a) + Len(b),
         \A i \in 1 .. Len(a) : c[i] = a[i],
         \A i \in 1 .. Len(b) : c[Len(a) + i] = b[i]
  PROVE  c = a \o b
  <1>1. PICK d \in Seq(S) : d = a \o b
    BY ConcatProperties
  <1>2. Len(d) = Len(c) /\ Len(a) \in Nat /\ Len(b) \in Nat
    BY <1>1
  <1>3. ASSUME NEW i \in 1 .. Len(c) PROVE c[i] = d[i]
    <2>1. CASE i <= Len(a)
      <3>1. i \in 1 .. Len(a)
        BY <2>1
      <3>2. d[i] = a[i]
        BY <1>1, <3>1
      <3> QED BY <3>1, <3>2
    <2>2. CASE ~(i <= Len(a))
      <3>1. PICK j \in 1 .. Len(b) : i = Len(a) + j
        <4>1. i - Len(a) \in 1 .. Len(b) /\ i = Len(a) + (i - Len(a))
          BY <2>2, <1>2
        <4> QED BY <4>1
      <3>2. d[Len(a) + j] = b[j]
        BY <1>1
      <3> QED BY <3>1, <3>2
    <2> QED BY <2>1, <2>2
  <1> QED BY <1>1, <1>2, <1>3, SeqEqual

-----------------------------------------------------------------------------
(* FlattenSeq. *)

\* The function that FlattenSeq defines by recursion is there.
LEMMA FlattenIsDefined ==
  ASSUME NEW S, NEW seqs \in Seq(S)
  PROVE  \A n \in Nat : \E f :
           f = [i \in 1 .. n |-> IF i = 1 THEN seqs[i] ELSE f[i - 1] \o seqs[i]]
  <1> DEFINE T == {n \in Nat : \E f :
                 f = [i \in 1 .. n |-> IF i = 1 THEN seqs[i] ELSE f[i - 1] \o seqs[i]]}
  <1>1. 0 \in T
    <2>1. [i \in 1 .. 0 |-> 0] =
            [i \in 1 .. 0 |-> IF i = 1 THEN seqs[i]
                              ELSE [j \in 1 .. 0 |-> 0][i - 1] \o seqs[i]]
      OBVIOUS
    <2> QED BY <2>1
  <1>2. ASSUME NEW n \in Nat, n \in T PROVE n + 1 \in T
    <2>1. PICK f : f = [i \in 1 .. n |-> IF i = 1 THEN seqs[i]
                                         ELSE f[i - 1] \o seqs[i]]
      BY <1>2
    <2> DEFINE last == IF n = 0 THEN seqs[1] ELSE f[n] \o seqs[n + 1]
               g    == [i \in 1 .. n + 1 |-> IF i = n + 1 THEN last ELSE f[i]]
    <2>2. ASSUME NEW i \in 1 .. n + 1
          PROVE  g[i] = IF i = 1 THEN seqs[i] ELSE g[i - 1] \o seqs[i]
      <3>1. CASE i = n + 1 /\ n = 0
        BY <3>1
      <3>2. CASE i = n + 1 /\ n # 0
        <4>1. n \in 1 .. n + 1 /\ n # n + 1
          BY <3>2
        <4>2. g[n] = f[n]
          BY <4>1
        <4>3. g[i] = f[n] \o seqs[n + 1]
          BY <3>2
        <4>4. i # 1 /\ i - 1 = n
          BY <3>2
        <4> HIDE DEF g
        <4>5. g[i - 1] = f[n]
          BY <4>2, <4>4
        <4> QED BY <3>2, <4>3, <4>4, <4>5
      <3>3. CASE i # n + 1
        <4>1. i \in 1 .. n
          BY <3>3
        <4>2. g[i] = f[i]
          BY <3>3
        <4>3. f[i] = IF i = 1 THEN seqs[i] ELSE f[i - 1] \o seqs[i]
          BY <2>1, <4>1
        <4>4. i # 1 => g[i - 1] = f[i - 1]
          BY <4>1
        <4> HIDE DEF g
        <4> QED BY <4>2, <4>3, <4>4
      <3> QED BY <3>1, <3>2, <3>3
    <2>3. g = [i \in 1 .. n + 1 |-> g[i]]
      OBVIOUS
    <2> HIDE DEF g
    <2>4. g = [i \in 1 .. n + 1 |-> IF i = 1 THEN seqs[i] ELSE g[i - 1] \o seqs[i]]
      BY <2>2, <2>3
    <2>5. \E h : h = [i \in 1 .. n + 1 |-> IF i = 1 THEN seqs[i]
                                          ELSE h[i - 1] \o seqs[i]]
      BY <2>4
    <2>6. n + 1 \in Nat
      OBVIOUS
    <2> QED BY <2>5, <2>6
  <1> HIDE DEF T
  <1>3. \A n \in Nat : n \in T
    BY <1>1, <1>2, Induction
  <1> QED BY <1>3 DEF T

LEMMA FlattenOfMany ==
  ASSUME NEW S, NEW seqs \in Seq(S), Len(seqs) # 0
  PROVE  \E f : /\ FlattenSeq(seqs) = f[Len(seqs)]
                /\ f = [i \in 1 .. Len(seqs) |->
                          IF i = 1 THEN seqs[i] ELSE f[i - 1] \o seqs[i]]
  <1> DEFINE flatten == CHOOSE f : f = [i \in 1 .. Len(seqs) |->
                          IF i = 1 THEN seqs[i] ELSE f[i - 1] \o seqs[i]]
  <1>1. FlattenSeq(seqs) = flatten[Len(seqs)]
    BY DEF FlattenSeq
  <1>2. Len(seqs) \in Nat
    OBVIOUS
  <1>3. \E f : f = [i \in 1 .. Len(seqs) |->
                      IF i = 1 THEN seqs[i] ELSE f[i - 1] \o seqs[i]]
    BY <1>2, FlattenIsDefined
  <1>4. flatten = [i \in 1 .. Len(seqs) |->
                     IF i = 1 THEN seqs[i] ELSE flatten[i - 1] \o seqs[i]]
    BY <1>3
  <1> QED BY <1>1, <1>4

\* What has been put together after each of the sequences.
IsRunning(flat, seqs, S) ==
  /\ flat \in [0 .. Len(seqs) -> Seq(S)]
  /\ flat[0] = << >>
  /\ \A i \in 1 .. Len(seqs) : flat[i] = flat[i - 1] \o seqs[i]

LEMMA Running ==
  ASSUME NEW S, NEW seqs \in Seq(Seq(S))
  PROVE  \E flat : IsRunning(flat, seqs, S) /\ FlattenSeq(seqs) = flat[Len(seqs)]
  <1>0. Len(seqs) \in Nat /\ \A i \in 1 .. Len(seqs) : seqs[i] \in Seq(S)
    OBVIOUS
  <1>1. CASE Len(seqs) = 0
    <2>1. FlattenSeq(seqs) = << >>
      BY <1>1 DEF FlattenSeq
    <2>2. PICK flat : flat = [i \in 0 .. Len(seqs) |-> << >>]
      OBVIOUS
    <2>3. flat[0] = << >> /\ flat[Len(seqs)] = << >>
      BY <2>2, <1>0
    <2>4. IsRunning(flat, seqs, S)
      BY <1>1, <2>2, <2>3 DEF IsRunning
    <2> QED BY <2>1, <2>3, <2>4
  <1>2. CASE Len(seqs) # 0
    <2>1. PICK f : /\ FlattenSeq(seqs) = f[Len(seqs)]
                   /\ f = [i \in 1 .. Len(seqs) |->
                             IF i = 1 THEN seqs[i] ELSE f[i - 1] \o seqs[i]]
      BY <1>2, FlattenOfMany
    <2>2. \A i \in 1 .. Len(seqs) :
            f[i] = IF i = 1 THEN seqs[i] ELSE f[i - 1] \o seqs[i]
      BY <2>1
    <2> DEFINE T == {n \in Nat : n \in 1 .. Len(seqs) => f[n] \in Seq(S)}
               flat == [i \in 0 .. Len(seqs) |-> IF i = 0 THEN << >> ELSE f[i]]
    <2>3. 0 \in T
      OBVIOUS
    <2>4. ASSUME NEW n \in Nat, n \in T PROVE n + 1 \in T
      <3>1. SUFFICES ASSUME n + 1 \in 1 .. Len(seqs) PROVE f[n + 1] \in Seq(S)
        OBVIOUS
      <3>2. seqs[n + 1] \in Seq(S)
        BY <1>0, <3>1
      <3>3. CASE n = 0
        BY <3>1, <3>2, <3>3, <2>2
      <3>4. CASE n # 0
        <4>1. n \in 1 .. Len(seqs) /\ n + 1 # 1 /\ (n + 1) - 1 = n
          BY <3>1, <3>4, <1>0
        <4>2. f[n] \in Seq(S)
          BY <2>4, <4>1
        <4>3. f[n + 1] = f[n] \o seqs[n + 1]
          BY <2>2, <3>1, <4>1
        <4> QED BY <4>2, <4>3, <3>2, ConcatProperties
      <3> QED BY <3>3, <3>4
    <2> HIDE DEF T
    <2>5. \A n \in Nat : n \in T
      BY <2>3, <2>4, Induction
    <2>6. \A n \in 1 .. Len(seqs) : f[n] \in Seq(S)
      BY <2>5 DEF T
    <2>7. flat \in [0 .. Len(seqs) -> Seq(S)]
      BY <2>6
    <2>8. flat[0] = << >> /\ flat[Len(seqs)] = f[Len(seqs)]
      BY <1>0, <1>2
    <2>9. ASSUME NEW i \in 1 .. Len(seqs)
          PROVE  flat[i] = flat[i - 1] \o seqs[i]
      <3>1. flat[i] = f[i]
        OBVIOUS
      <3>2. CASE i = 1
        <4>1. flat[i - 1] = << >>
          BY <2>8, <3>2
        <4>2. seqs[i] \in Seq(S) /\ f[i] = seqs[i]
          BY <1>0, <2>2, <3>2
        <4> HIDE DEF flat
        <4> QED BY <3>1, <4>1, <4>2, ConcatEmptySeq
      <3>3. CASE i # 1
        <4>1. i - 1 \in 1 .. Len(seqs)
          BY <3>3
        <4>2. flat[i - 1] = f[i - 1]
          BY <4>1
        <4> HIDE DEF flat
        <4> QED BY <3>1, <3>3, <4>2, <2>2
      <3> QED BY <3>2, <3>3
    <2> HIDE DEF flat
    <2>10. IsRunning(flat, seqs, S)
      BY <2>7, <2>8, <2>9 DEF IsRunning
    <2> QED BY <2>1, <2>8, <2>10
  <1> QED BY <1>1, <1>2

LEMMA FlattenType ==
  ASSUME NEW S, NEW seqs \in Seq(Seq(S))
  PROVE  FlattenSeq(seqs) \in Seq(S)
  <1>1. PICK flat : IsRunning(flat, seqs, S) /\ FlattenSeq(seqs) = flat[Len(seqs)]
    BY Running
  <1>2. Len(seqs) \in 0 .. Len(seqs)
    OBVIOUS
  <1> QED BY <1>1, <1>2 DEF IsRunning

LEMMA FlattenNone == FlattenSeq(<< >>) = << >>
  BY DEF FlattenSeq

\* What has been put together does not depend on what comes later.
LEMMA RunningIsUnique ==
  ASSUME NEW S, NEW s \in Seq(Seq(S)), NEW t \in Seq(Seq(S)),
         NEW f, NEW g, IsRunning(f, s, S), IsRunning(g, t, S),
         NEW m \in Nat, m <= Len(s), m <= Len(t),
         \A i \in 1 .. m : s[i] = t[i]
  PROVE  f[m] = g[m]
  <1> DEFINE T == {n \in Nat : n <= m => f[n] = g[n]}
  <1>1. 0 \in T
    BY DEF IsRunning
  <1>2. ASSUME NEW n \in Nat, n \in T PROVE n + 1 \in T
    <2>1. SUFFICES ASSUME n + 1 <= m PROVE f[n + 1] = g[n + 1]
      OBVIOUS
    <2>2. n + 1 \in 1 .. Len(s) /\ n + 1 \in 1 .. Len(t) /\ n + 1 \in 1 .. m
          /\ (n + 1) - 1 = n /\ n <= m
      BY <2>1
    <2>3. f[n] = g[n]
      BY <1>2, <2>2
    <2>4. f[n + 1] = f[n] \o s[n + 1] /\ g[n + 1] = g[n] \o t[n + 1]
      BY <2>2 DEF IsRunning
    <2> QED BY <2>2, <2>3, <2>4
  <1> HIDE DEF T
  <1>3. \A n \in Nat : n \in T
    BY <1>1, <1>2, Induction
  <1> QED BY <1>3 DEF T

LEMMA FlattenAppend ==
  ASSUME NEW S, NEW seqs \in Seq(Seq(S)), NEW x \in Seq(S)
  PROVE  FlattenSeq(Append(seqs, x)) = FlattenSeq(seqs) \o x
  <1>1. PICK longer : longer = Append(seqs, x)
    OBVIOUS
  <1>2. PICK n \in Nat : n = Len(seqs)
    OBVIOUS
  <1>3. /\ longer \in Seq(Seq(S))
        /\ Len(longer) = n + 1
        /\ longer[n + 1] = x
        /\ \A i \in 1 .. n : longer[i] = seqs[i]
    BY <1>1, <1>2
  <1>4. PICK f : IsRunning(f, seqs, S) /\ FlattenSeq(seqs) = f[Len(seqs)]
    BY Running
  <1>5. PICK g : IsRunning(g, longer, S) /\ FlattenSeq(longer) = g[Len(longer)]
    BY <1>3, Running
  <1>6. n <= Len(seqs) /\ n <= Len(longer)
    BY <1>2, <1>3
  <1>7. \A i \in 1 .. n : seqs[i] = longer[i]
    BY <1>3
  <1>8. f[n] = g[n]
    <2>1. IsRunning(f, seqs, S) /\ IsRunning(g, longer, S)
      BY <1>4, <1>5
    <2>2. longer \in Seq(Seq(S))
      BY <1>3
    <2> QED BY <2>1, <2>2, <1>6, <1>7, RunningIsUnique
  <1>9. n + 1 \in 1 .. Len(longer) /\ (n + 1) - 1 = n
    BY <1>3
  <1>10. g[n + 1] = g[n] \o longer[n + 1]
    BY <1>5, <1>9 DEF IsRunning
  <1> QED BY <1>1, <1>2, <1>3, <1>4, <1>5, <1>8, <1>10

LEMMA FlattenConcat ==
  ASSUME NEW S, NEW s \in Seq(Seq(S)), NEW t \in Seq(Seq(S))
  PROVE  FlattenSeq(s \o t) = FlattenSeq(s) \o FlattenSeq(t)
  <1>1. PICK u : u = s \o t
    OBVIOUS
  <1>2. PICK m \in Nat : m = Len(s)
    OBVIOUS
  <1>3. PICK l \in Nat : l = Len(t)
    OBVIOUS
  <1>4. u \in Seq(Seq(S)) /\ Len(u) = m + l
    BY <1>1, <1>2, <1>3
  <1>5. \A i \in 1 .. m : s[i] = u[i]
    BY <1>1, <1>2
  <1>6. \A j \in 1 .. l : u[m + j] = t[j]
    BY <1>1, <1>2, <1>3
  <1>7. PICK f : IsRunning(f, s, S) /\ FlattenSeq(s) = f[Len(s)]
    BY Running
  <1>8. PICK g : IsRunning(g, t, S) /\ FlattenSeq(t) = g[Len(t)]
    BY Running
  <1>9. PICK h : IsRunning(h, u, S) /\ FlattenSeq(u) = h[Len(u)]
    BY <1>4, Running
  <1>10. h[m] = f[m]
    <2>1. IsRunning(f, s, S) /\ IsRunning(h, u, S)
      BY <1>7, <1>9
    <2>2. u \in Seq(Seq(S)) /\ m <= Len(s) /\ m <= Len(u)
      BY <1>2, <1>4
    <2> QED BY <2>1, <2>2, <1>5, RunningIsUnique
  <1> DEFINE Both(n) == h[m + n] = f[m] \o g[n]
             T == {n \in Nat : n <= l => Both(n)}
  <1>11. f[m] \in Seq(S)
    <2>1. m \in 0 .. Len(s)
      BY <1>2
    <2> QED BY <2>1, <1>7 DEF IsRunning
  <1>12. 0 \in T
    <2>1. g[0] = << >>
      BY <1>8 DEF IsRunning
    <2>2. f[m] \o << >> = f[m]
      BY <1>11, ConcatEmptySeq
    <2>3. m + 0 = m
      OBVIOUS
    <2>4. Both(0)
      BY <2>1, <2>2, <2>3, <1>10
    <2> HIDE DEF Both
    <2> QED BY <2>4
  <1>13. ASSUME NEW n \in Nat, n \in T PROVE n + 1 \in T
    <2>1. SUFFICES ASSUME n + 1 <= l
          PROVE  Both(n + 1)
      <3> HIDE DEF Both
      <3> QED OBVIOUS
    <2>2. /\ n + 1 \in 1 .. l /\ n + 1 \in 1 .. Len(t) /\ n <= l
          /\ n \in 0 .. l /\ (n + 1) - 1 = n
          /\ m + (n + 1) \in 1 .. Len(u) /\ (m + (n + 1)) - 1 = m + n
      BY <2>1, <1>3, <1>4
    <2>3. Both(n)
      <3> HIDE DEF Both
      <3> QED BY <1>13, <2>2
    <2>4. g[n + 1] = g[n] \o t[n + 1]
      BY <1>8, <2>2 DEF IsRunning
    <2>5. h[m + (n + 1)] = h[m + n] \o u[m + (n + 1)]
      BY <1>9, <2>2 DEF IsRunning
    <2>6. u[m + (n + 1)] = t[n + 1] /\ t[n + 1] \in Seq(S)
      <3>1. t[n + 1] \in Seq(S)
        BY <2>2
      <3>2. u[m + (n + 1)] = t[n + 1]
        BY <1>6, <2>2
      <3> QED BY <3>1, <3>2
    <2>7. f[m] \in Seq(S) /\ g[n] \in Seq(S)
      BY <1>3, <1>8, <1>11, <2>2 DEF IsRunning
    <2>8. (f[m] \o g[n]) \o t[n + 1] = f[m] \o (g[n] \o t[n + 1])
      <3>1. PICK x \in Seq(S) : x = t[n + 1]
        BY <2>6
      <3>2. PICK y \in Seq(S) : y = g[n]
        BY <2>7
      <3>3. PICK z \in Seq(S) : z = f[m]
        BY <2>7
      <3>4. (z \o y) \o x = z \o (y \o x)
        BY ConcatAssociative
      <3> QED BY <3>1, <3>2, <3>3, <3>4
    <2> QED BY <2>3, <2>4, <2>5, <2>6, <2>8
  <1> HIDE DEF T
  <1>14. \A n \in Nat : n \in T
    BY <1>12, <1>13, Induction
  <1>15. h[m + l] = f[m] \o g[l]
    <2>1. l \in T
      BY <1>14
    <2> HIDE DEF Both
    <2>2. Both(l)
      BY <2>1 DEF T
    <2> QED BY <2>2 DEF Both
  <1> QED BY <1>1, <1>2, <1>3, <1>4, <1>7, <1>8, <1>9, <1>15

LEMMA ConcatElements ==
  ASSUME NEW S, NEW a \in Seq(S), NEW b \in Seq(S)
  PROVE  ToSet(a \o b) = ToSet(a) \cup ToSet(b)
  <1>1. PICK c : c = a \o b
    OBVIOUS
  <1>2. /\ Len(c) = Len(a) + Len(b) /\ Len(a) \in Nat /\ Len(b) \in Nat
        /\ DOMAIN c = 1 .. Len(c) /\ DOMAIN a = 1 .. Len(a)
        /\ DOMAIN b = 1 .. Len(b)
    BY <1>1
  <1>3. \A i \in DOMAIN a : c[i] = a[i] /\ i \in DOMAIN c
    BY <1>1, <1>2
  <1>4. \A i \in DOMAIN b : c[Len(a) + i] = b[i] /\ Len(a) + i \in DOMAIN c
    BY <1>1, <1>2
  <1>5. \A i \in DOMAIN c : \/ i \in DOMAIN a
                           \/ /\ i - Len(a) \in DOMAIN b
                              /\ Len(a) + (i - Len(a)) = i
    BY <1>2
  <1>6. ToSet(c) \subseteq ToSet(a) \cup ToSet(b)
    <2>1. ASSUME NEW i \in DOMAIN c PROVE c[i] \in ToSet(a) \cup ToSet(b)
      <3>1. CASE i \in DOMAIN a
        BY <3>1, <1>3 DEF ToSet
      <3>2. CASE i - Len(a) \in DOMAIN b /\ Len(a) + (i - Len(a)) = i
        <4>1. c[i] = b[i - Len(a)]
          BY <3>2, <1>4
        <4> QED BY <4>1, <3>2 DEF ToSet
      <3> QED BY <3>1, <3>2, <1>5
    <2> QED BY <2>1 DEF ToSet
  <1>7. ToSet(a) \subseteq ToSet(c)
    BY <1>3, Zenon DEF ToSet
  <1>8. ToSet(b) \subseteq ToSet(c)
    BY <1>4, Zenon DEF ToSet
  <1> QED BY <1>1, <1>6, <1>7, <1>8

\* The elements of what is put together are those of the parts.
LEMMA FlattenElements ==
  ASSUME NEW S, NEW seqs \in Seq(Seq(S))
  PROVE  ToSet(FlattenSeq(seqs)) = UNION {ToSet(seqs[i]) : i \in 1 .. Len(seqs)}
  <1>1. PICK f : IsRunning(f, seqs, S) /\ FlattenSeq(seqs) = f[Len(seqs)]
    BY Running
  <1> DEFINE T == {n \in Nat : n <= Len(seqs) =>
                     ToSet(f[n]) = UNION {ToSet(seqs[i]) : i \in 1 .. n}}
  <1>2. 0 \in T
    BY <1>1 DEF IsRunning, ToSet
  <1>3. ASSUME NEW n \in Nat, n \in T PROVE n + 1 \in T
    <2>1. SUFFICES ASSUME n + 1 <= Len(seqs)
          PROVE  ToSet(f[n + 1]) = UNION {ToSet(seqs[i]) : i \in 1 .. n + 1}
      OBVIOUS
    <2>2. /\ n + 1 \in 1 .. Len(seqs) /\ n \in 0 .. Len(seqs) /\ n <= Len(seqs)
          /\ (n + 1) - 1 = n
      BY <2>1
    <2>3. f[n + 1] = f[n] \o seqs[n + 1] /\ f[n] \in Seq(S) /\ seqs[n + 1] \in Seq(S)
      <3>1. seqs[n + 1] \in Seq(S)
        BY <2>2
      <3>2. f[n] \in Seq(S)
        BY <1>1, <2>2 DEF IsRunning
      <3>3. f[n + 1] = f[n] \o seqs[n + 1]
        BY <1>1, <2>2 DEF IsRunning
      <3> QED BY <3>1, <3>2, <3>3
    <2>4. ToSet(f[n + 1]) = ToSet(f[n]) \cup ToSet(seqs[n + 1])
      BY <2>3, ConcatElements
    <2>5. ToSet(f[n]) = UNION {ToSet(seqs[i]) : i \in 1 .. n}
      BY <1>3, <2>2
    <2>6. 1 .. n + 1 = (1 .. n) \cup {n + 1}
      OBVIOUS
    <2> QED BY <2>4, <2>5, <2>6
  <1> HIDE DEF T
  <1>4. \A n \in Nat : n \in T
    BY <1>2, <1>3, Induction
  <1>5. Len(seqs) \in Nat
    OBVIOUS
  <1>6. Len(seqs) \in T
    BY <1>4, <1>5
  <1>7. ToSet(f[Len(seqs)]) = UNION {ToSet(seqs[i]) : i \in 1 .. Len(seqs)}
    BY <1>6 DEF T
  <1> QED BY <1>1, <1>7

\* Sequences of one element each, put together.
LEMMA FlattenSingletons ==
  ASSUME NEW S, NEW x \in Seq(S), NEW seqs \in Seq(Seq(S)), Len(seqs) = Len(x),
         \A i \in 1 .. Len(x) : seqs[i] = <<x[i]>>
  PROVE  FlattenSeq(seqs) = x
  <1>1. PICK f : IsRunning(f, seqs, S) /\ FlattenSeq(seqs) = f[Len(seqs)]
    BY Running
  <1> DEFINE T == {n \in Nat : n <= Len(x) =>
                     /\ f[n] \in Seq(S) /\ Len(f[n]) = n
                     /\ \A k \in 1 .. n : f[n][k] = x[k]}
  <1>2. 0 \in T
    BY <1>1 DEF IsRunning
  <1>3. ASSUME NEW n \in Nat, n \in T PROVE n + 1 \in T
    <2>1. SUFFICES ASSUME n + 1 <= Len(x)
          PROVE  /\ f[n + 1] \in Seq(S) /\ Len(f[n + 1]) = n + 1
                 /\ \A k \in 1 .. n + 1 : f[n + 1][k] = x[k]
      OBVIOUS
    <2>2. n + 1 \in 1 .. Len(seqs) /\ (n + 1) - 1 = n /\ n <= Len(x)
          /\ x[n + 1] \in S
      BY <2>1
    <2>3. f[n + 1] = f[n] \o <<x[n + 1]>>
      BY <1>1, <2>2 DEF IsRunning
    <2>4. f[n] \in Seq(S) /\ Len(f[n]) = n /\ \A k \in 1 .. n : f[n][k] = x[k]
      BY <1>3, <2>2
    <2> QED BY <2>2, <2>3, <2>4
  <1> HIDE DEF T
  <1>4. \A n \in Nat : n \in T
    BY <1>2, <1>3, Induction
  <1>5. /\ f[Len(x)] \in Seq(S) /\ Len(f[Len(x)]) = Len(x)
        /\ \A k \in 1 .. Len(x) : f[Len(x)][k] = x[k]
    BY <1>4 DEF T
  <1>6. f[Len(x)] = x
    BY <1>5, SeqEqual
  <1> QED BY <1>1, <1>6

\* One sequence begins with another.
Begins(a, b) == Len(a) <= Len(b) /\ \A k \in 1 .. Len(a) : b[k] = a[k]

\* What begins the first part begins the whole.
LEMMA ConcatBegins ==
  ASSUME NEW S, NEW a \in Seq(S), NEW b \in Seq(S), NEW c \in Seq(S), Begins(c, a)
  PROVE  Begins(c, a \o b)
  <1>1. PICK d \in Seq(S) : d = a \o b
    BY ConcatProperties
  <1>2. /\ Len(d) = Len(a) + Len(b) /\ \A k \in 1 .. Len(a) : d[k] = a[k]
        /\ Len(a) \in Nat /\ Len(b) \in Nat /\ Len(c) \in Nat
    BY <1>1
  <1>3. Len(c) <= Len(d) /\ \A k \in 1 .. Len(c) : d[k] = c[k]
    BY <1>2 DEF Begins
  <1> QED BY <1>1, <1>3 DEF Begins

\* What was put together first stays in front.
LEMMA RunningBegins ==
  ASSUME NEW S, NEW seqs \in Seq(Seq(S)), NEW f, IsRunning(f, seqs, S),
         NEW n \in Nat, NEW m \in Nat, n <= m, m <= Len(seqs)
  PROVE  Begins(f[n], f[m])
  <1> DEFINE T == {d \in Nat : n + d <= Len(seqs) => Begins(f[n], f[n + d])}
  <1>1. 0 \in T
    <2>1. f[n] \in Seq(S)
      BY SMTT(30) DEF IsRunning
    <2>2. Begins(f[n], f[n])
      BY <2>1 DEF Begins
    <2>3. n + 0 = n
      OBVIOUS
    <2> QED BY <2>2, <2>3
  <1>2. ASSUME NEW d \in Nat, d \in T PROVE d + 1 \in T
    <2>1. SUFFICES ASSUME n + (d + 1) <= Len(seqs) PROVE Begins(f[n], f[n + (d + 1)])
      OBVIOUS
    <2>2. PICK k \in Nat : k = n + d
      OBVIOUS
    <2>3. /\ n + (d + 1) = k + 1 /\ k + 1 \in 1 .. Len(seqs) /\ k \in 0 .. Len(seqs)
          /\ (k + 1) - 1 = k /\ n \in 0 .. Len(seqs) /\ k <= Len(seqs)
      BY <2>1, <2>2
    <2>4. Begins(f[n], f[k])
      BY <1>2, <2>2, <2>3
    <2>5. PICK a \in Seq(S) : a = f[k]
      BY <2>3 DEF IsRunning
    <2>6. PICK c \in Seq(S) : c = f[n]
      BY <2>3 DEF IsRunning
    <2>7. PICK b \in Seq(S) : b = seqs[k + 1]
      BY <2>3
    <2>8. f[k + 1] = a \o b
      BY <2>3, <2>5, <2>7 DEF IsRunning
    <2>9. Begins(c, a)
      BY <2>4, <2>5, <2>6
    <2>10. Begins(c, a \o b)
      BY <2>9, ConcatBegins
    <2> QED BY <2>3, <2>6, <2>8, <2>10
  <1> HIDE DEF T
  <1>3. \A d \in Nat : d \in T
    BY <1>1, <1>2, Induction
  <1>4. PICK d \in Nat : d = m - n
    OBVIOUS
  <1>5. d \in T
    BY <1>3
  <1>6. n + d = m
    BY <1>4
  <1> QED BY <1>5, <1>6 DEF T

\* Two sequences with a part in common that both begin a third.
LEMMA NextParts ==
  ASSUME NEW S, NEW a \in Seq(S), NEW x \in Seq(S), NEW y \in Seq(S),
         NEW all \in Seq(S), Begins(a \o x, all), Begins(a \o y, all)
  PROVE  \A k \in Nat \ {0} : k <= Len(x) /\ k <= Len(y) => x[k] = y[k]
  <1>1. PICK ax \in Seq(S) : ax = a \o x
    BY ConcatProperties
  <1>2. PICK ay \in Seq(S) : ay = a \o y
    BY ConcatProperties
  <1>3. ASSUME NEW k \in Nat \ {0}, k <= Len(x), k <= Len(y) PROVE x[k] = y[k]
    <2>1. k \in 1 .. Len(x) /\ k \in 1 .. Len(y)
      BY <1>3
    <2>2. ax[Len(a) + k] = x[k] /\ Len(a) + k \in 1 .. Len(ax)
      BY <1>1, <2>1
    <2>3. ay[Len(a) + k] = y[k] /\ Len(a) + k \in 1 .. Len(ay)
      BY <1>2, <2>1
    <2>4. all[Len(a) + k] = ax[Len(a) + k] /\ all[Len(a) + k] = ay[Len(a) + k]
      BY <1>1, <1>2, <2>2, <2>3 DEF Begins
    <2> QED BY <2>2, <2>3, <2>4
  <1> QED BY <1>3

\* Behind the whole of the one there is no further part of the other.
LEMMA NoPartLeft ==
  ASSUME NEW S, NEW v \in Seq(Seq(S)), NEW g, IsRunning(g, v, S),
         NEW n \in Nat, n < Len(v), \A i \in 1 .. Len(v) : Len(v[i]) > 0,
         g[n] = g[Len(v)]
  PROVE  FALSE
  <1>1. /\ n + 1 \in 1 .. Len(v) /\ n \in 0 .. Len(v) /\ (n + 1) - 1 = n
        /\ Len(v) \in Nat /\ n + 1 <= Len(v) /\ n + 1 \in Nat
    OBVIOUS
  <1>2. PICK a \in Seq(S) : a = g[n]
    BY <1>1 DEF IsRunning
  <1>3. PICK y \in Seq(S) : y = v[n + 1]
    BY <1>1
  <1>4. PICK ay \in Seq(S) : ay = a \o y
    BY ConcatProperties
  <1>5. g[n + 1] = ay
    BY <1>1, <1>2, <1>3, <1>4 DEF IsRunning
  <1>6. Begins(g[n + 1], g[Len(v)])
    BY <1>1, RunningBegins
  <1>7. Len(ay) <= Len(a)
    BY <1>2, <1>5, <1>6 DEF Begins
  <1>8. Len(ay) = Len(a) + Len(y) /\ Len(y) > 0
    BY <1>1, <1>3, <1>4
  <1> QED BY <1>7, <1>8

\* Parts of which none begins another can be told apart in what they are put
\* together to.
LEMMA FlattenIsUnique ==
  ASSUME NEW S, NEW u \in Seq(Seq(S)), NEW v \in Seq(Seq(S)),
         FlattenSeq(u) = FlattenSeq(v),
         \A i \in 1 .. Len(u) : Len(u[i]) > 0,
         \A i \in 1 .. Len(v) : Len(v[i]) > 0,
         \A i \in 1 .. Len(u), j \in 1 .. Len(v) :
           (\A k \in Nat \ {0} : k <= Len(u[i]) /\ k <= Len(v[j]) => u[i][k] = v[j][k])
             => u[i] = v[j]
  PROVE  u = v
  <1>1. PICK f : IsRunning(f, u, S) /\ FlattenSeq(u) = f[Len(u)]
    BY Running
  <1>2. PICK g : IsRunning(g, v, S) /\ FlattenSeq(v) = g[Len(v)]
    BY Running
  <1>3. PICK all \in Seq(S) : all = f[Len(u)] /\ all = g[Len(v)]
    BY <1>1, <1>2, FlattenType
  <1> DEFINE Same(n) == f[n] = g[n] /\ \A i \in 1 .. n : u[i] = v[i]
             T == {n \in Nat : n <= Len(u) /\ n <= Len(v) => Same(n)}
  <1>4. 0 \in T
    BY <1>1, <1>2 DEF IsRunning
  <1>5. ASSUME NEW n \in Nat, n \in T PROVE n + 1 \in T
    <2>1. SUFFICES ASSUME n + 1 <= Len(u), n + 1 <= Len(v) PROVE Same(n + 1)
      <3> HIDE DEF Same
      <3> QED OBVIOUS
    <2>2. /\ n + 1 \in 1 .. Len(u) /\ n + 1 \in 1 .. Len(v)
          /\ n \in 0 .. Len(u) /\ n \in 0 .. Len(v) /\ n + 1 \in Nat
          /\ Len(u) \in Nat /\ Len(v) \in Nat
          /\ n <= Len(u) /\ n <= Len(v) /\ (n + 1) - 1 = n
      BY <2>1
    <2>3. Same(n)
      <3> HIDE DEF Same
      <3> QED BY <1>5, <2>2
    <2>4. PICK a \in Seq(S) : a = f[n]
      BY <1>1, <2>2 DEF IsRunning
    <2>5. PICK x \in Seq(S) : x = u[n + 1]
      BY <2>2
    <2>6. PICK y \in Seq(S) : y = v[n + 1]
      BY SMTT(30), <2>2
    <2>7. f[n + 1] = a \o x /\ g[n + 1] = a \o y
      BY <1>1, <1>2, <2>2, <2>3, <2>4, <2>5, <2>6 DEF IsRunning
    <2>8. Begins(f[n + 1], f[Len(u)]) /\ Begins(g[n + 1], g[Len(v)])
      BY SMTT(30), <1>1, <1>2, <2>1, <2>2, RunningBegins
    <2>9. Begins(a \o x, all) /\ Begins(a \o y, all)
      BY <1>3, <2>7, <2>8
    <2>10. \A k \in Nat \ {0} : k <= Len(x) /\ k <= Len(y) => x[k] = y[k]
      BY <2>9, NextParts
    <2>11. x = y
      BY <2>2, <2>5, <2>6, <2>10
    <2>12. f[n + 1] = g[n + 1] /\ u[n + 1] = v[n + 1]
      BY <2>5, <2>6, <2>7, <2>11
    <2> QED BY <2>3, <2>12
  <1> HIDE DEF T
  <1>6. \A n \in Nat : n \in T
    BY <1>4, <1>5, Induction
  <1>7. Len(u) \in Nat /\ Len(v) \in Nat
    OBVIOUS
  <1>8. ~(Len(u) < Len(v))
    <2> SUFFICES ASSUME Len(u) < Len(v) PROVE FALSE
      OBVIOUS
    <2>1. Same(Len(u))
      <3>1. Len(u) \in T /\ Len(u) <= Len(u) /\ Len(u) <= Len(v)
        BY <1>6, <1>7
      <3> HIDE DEF Same
      <3> QED BY <3>1 DEF T
    <2>2. g[Len(u)] = g[Len(v)]
      BY <1>3, <2>1
    <2> HIDE DEF Same
    <2> QED BY <1>2, <1>7, <2>2, NoPartLeft
  <1>9. ~(Len(v) < Len(u))
    <2> SUFFICES ASSUME Len(v) < Len(u) PROVE FALSE
      OBVIOUS
    <2>1. Same(Len(v))
      <3>1. Len(v) \in T /\ Len(v) <= Len(u) /\ Len(v) <= Len(v)
        BY <1>6, <1>7
      <3> HIDE DEF Same
      <3> QED BY <3>1 DEF T
    <2>2. f[Len(v)] = f[Len(u)]
      BY <1>3, <2>1
    <2> HIDE DEF Same
    <2> QED BY <1>1, <1>7, <2>2, NoPartLeft
  <1>10. Len(u) = Len(v)
    BY <1>7, <1>8, <1>9
  <1>11. Same(Len(u))
    <2>1. Len(u) \in T /\ Len(u) <= Len(u) /\ Len(u) <= Len(v)
      BY <1>6, <1>7, <1>10
    <2> HIDE DEF Same
    <2> QED BY <2>1 DEF T
  <1>12. \A i \in 1 .. Len(u) : u[i] = v[i]
    BY <1>11
  <1> QED BY <1>10, <1>12, SeqEqual

-----------------------------------------------------------------------------
(* Folds, and sequences element by element. *)

\* A sequence, element by element.
LEMMA PrefixGrows ==
  ASSUME NEW S, NEW all \in Seq(S), NEW k \in Nat, k < Len(all)
  PROVE  /\ SubSeq(all, 1, k) \in Seq(S)
         /\ SubSeq(all, 1, k + 1) = Append(SubSeq(all, 1, k), all[k + 1])
         /\ all[k + 1] \in S
  <1>1. PICK m \in Nat : m = k + 1
    OBVIOUS
  <1>2. \A i \in 1 .. m : all[i] \in S
    BY <1>1
  <1>3. PICK s : s = SubSeq(all, 1, k)
    OBVIOUS
  <1>4. s \in Seq(S) /\ Len(s) = k /\ \A i \in 1 .. k : s[i] = all[i]
    BY <1>1, <1>2, <1>3, SubSeqProperties
  <1>5. PICK t : t = SubSeq(all, 1, m)
    OBVIOUS
  <1>6. t \in Seq(S) /\ Len(t) = m /\ \A i \in 1 .. m : t[i] = all[i]
    BY <1>1, <1>2, <1>5, SubSeqProperties
  <1>7. PICK x \in S : x = all[m]
    BY <1>1, <1>2
  <1>8. PICK u \in Seq(S) : u = Append(s, x)
    BY <1>4, AppendProperties
  <1>9. Len(u) = m /\ u[m] = all[m] /\ \A i \in 1 .. k : u[i] = s[i]
    BY <1>1, <1>4, <1>7, <1>8
  <1>10. \A i \in 1 .. m : t[i] = u[i]
    <2>1. ASSUME NEW i \in 1 .. k PROVE t[i] = u[i]
      <3>1. i \in 1 .. m
        BY <1>1
      <3> QED BY <1>4, <1>6, <1>9, <3>1
    <2>2. t[m] = u[m]
      BY <1>1, <1>6, <1>9
    <2> QED BY <1>1, <2>1, <2>2
  <1>11. t = u
    BY <1>6, <1>9, <1>10, SeqEqual
  <1> QED BY <1>1, <1>2, <1>3, <1>4, <1>5, <1>7, <1>8, <1>11

LEMMA WholePrefix ==
  ASSUME NEW S, NEW all \in Seq(S)
  PROVE  SubSeq(all, 1, 0) = << >> /\ SubSeq(all, 1, Len(all)) = all
  OBVIOUS

\* An element behind two sequences.
LEMMA AppendBehind ==
  ASSUME NEW S, NEW h \in Seq(S), NEW m \in Seq(S), NEW x \in S
  PROVE  h \o Append(m, x) = Append(h \o m, x)
  <1>0. <<x>> \in Seq(S)
    OBVIOUS
  <1>1. PICK one \in Seq(S) : one = <<x>>
    BY <1>0
  <1>2. Append(m, x) = m \o one
    BY <1>1, AppendIsConcat
  <1>3. PICK hm \in Seq(S) : hm = h \o m
    BY ConcatProperties
  <1>4. Append(hm, x) = hm \o one
    BY <1>1, AppendIsConcat
  <1>5. (h \o m) \o one = h \o (m \o one)
    BY SMTT(30), ConcatAssociative
  <1> QED BY <1>2, <1>3, <1>4, <1>5

\* The greatest of a set of indices.
LEMMA MaxIsThere ==
  ASSUME NEW n \in Nat, NEW s \in SUBSET (1 .. n), s # {}
  PROVE  Max(s) \in s /\ \A i \in s : i <= Max(s)
  <1> DEFINE T == {k \in Nat : \A u \in SUBSET (1 .. k) :
                                 u # {} => \E x \in u : \A y \in u : x >= y}
  <1>1. 0 \in T
    <2>1. 1 .. 0 = {}
      OBVIOUS
    <2>2. SUBSET (1 .. 0) = {{}}
      BY <2>1
    <2> QED BY <2>2
  <1>2. ASSUME NEW k \in Nat, k \in T PROVE k + 1 \in T
    <2>1. ASSUME NEW u \in SUBSET (1 .. k + 1), u # {}
          PROVE  \E x \in u : \A y \in u : x >= y
      <3>1. CASE k + 1 \in u
        BY <3>1
      <3>2. CASE k + 1 \notin u
        <4>1. u \in SUBSET (1 .. k)
          BY <3>2
        <4> QED BY <1>2, <2>1, <4>1
      <3> QED BY <3>1, <3>2
    <2> QED BY <2>1
  <1> HIDE DEF T
  <1>3. n \in T
    BY <1>1, <1>2, Induction
  <1>4. \E x \in s : \A y \in s : x >= y
    BY <1>3 DEF T
  <1>5. Max(s) \in s /\ \A y \in s : Max(s) >= y
    BY <1>4 DEF Max
  <1> QED BY <1>5

\* The smallest of a set of indices.
LEMMA MinIsThere ==
  ASSUME NEW n \in Nat, NEW s \in SUBSET (1 .. n), s # {}
  PROVE  Min(s) \in s /\ \A i \in s : Min(s) <= i
  <1> DEFINE T == {k \in Nat : \A u \in SUBSET (1 .. k) :
                                 u # {} => \E x \in u : \A y \in u : x <= y}
  <1>1. 0 \in T
    <2>1. 1 .. 0 = {}
      OBVIOUS
    <2>2. SUBSET (1 .. 0) = {{}}
      BY <2>1
    <2> QED BY <2>2
  <1>2. ASSUME NEW k \in Nat, k \in T PROVE k + 1 \in T
    <2>1. ASSUME NEW u \in SUBSET (1 .. k + 1), u # {}
          PROVE  \E x \in u : \A y \in u : x <= y
      <3>1. CASE u \subseteq {k + 1}
        <4>1. u = {k + 1}
          BY <2>1, <3>1
        <4> QED BY <4>1
      <3>2. CASE ~(u \subseteq {k + 1})
        <4>1. PICK v : v = u \ {k + 1}
          OBVIOUS
        <4>2. v \in SUBSET (1 .. k) /\ v # {}
          BY <3>2, <4>1
        <4>3. PICK x \in v : \A y \in v : x <= y
          BY <1>2, <4>2
        <4>4. x \in u /\ x \in 1 .. k
          BY <4>1, <4>2
        <4>5. \A y \in u : x <= y
          BY <4>1, <4>3, <4>4
        <4> QED BY <4>4, <4>5
      <3> QED BY <3>1, <3>2
    <2> QED BY <2>1
  <1> HIDE DEF T
  <1>3. n \in T
    BY <1>1, <1>2, Induction
  <1>4. \E x \in s : \A y \in s : x <= y
    BY <1>3 DEF T
  <1>5. Min(s) \in s /\ \A y \in s : Min(s) <= y
    BY <1>4 DEF Min
  <1> QED BY <1>5

LEMMA MaxOfPrefix ==
  ASSUME NEW n \in Nat \ {0}
  PROVE  Max(1 .. n) = n /\ (1 .. n) \ {n} = 1 .. n - 1 /\ 1 .. n # {}
  <1>1. 1 .. n \in SUBSET (1 .. n) /\ 1 .. n # {} /\ n \in 1 .. n
    OBVIOUS
  <1>2. Max(1 .. n) \in 1 .. n /\ \A i \in 1 .. n : i <= Max(1 .. n)
    BY <1>1, MaxIsThere
  <1>3. Max(1 .. n) = n
    BY <1>1, <1>2
  <1>4. (1 .. n) \ {n} = 1 .. n - 1
    OBVIOUS
  <1> QED BY <1>1, <1>3, <1>4

\* What a fold of the community modules defines by recursion over sets of indices is
\* there, when each index has a function of a set into itself.
IsFold(it, X, base, G, n) ==
  /\ it \in [SUBSET (1 .. n) -> X]
  /\ it[{}] = base
  /\ \A s \in SUBSET (1 .. n) : s # {} => it[s] = G[Max(s)][it[s \ {Max(s)}]]

LEMMA FoldIsDefined ==
  ASSUME NEW X, NEW base \in X, NEW m \in Nat, NEW G \in [1 .. m -> [X -> X]]
  PROVE  \E it : IsFold(it, X, base, G, m)
  <1> DEFINE T == {n \in Nat : n <= m => \E it : IsFold(it, X, base, G, n)}
  <1>1. 0 \in T
    <2> DEFINE it == [s \in SUBSET (1 .. 0) |-> base]
    <2>1. SUBSET (1 .. 0) = {{}}
      OBVIOUS
    <2>2. IsFold(it, X, base, G, 0)
      BY <2>1 DEF IsFold
    <2> QED BY <2>2
  <1>2. ASSUME NEW n \in Nat, n \in T PROVE n + 1 \in T
    <2> SUFFICES ASSUME n + 1 <= m PROVE \E it : IsFold(it, X, base, G, n + 1)
      OBVIOUS
    <2>1. PICK f : IsFold(f, X, base, G, n)
      BY <1>2
    <2> DEFINE it == [s \in SUBSET (1 .. n + 1) |->
                        IF n + 1 \in s THEN G[n + 1][f[s \ {n + 1}]] ELSE f[s]]
    <2>2. ASSUME NEW s \in SUBSET (1 .. n + 1), n + 1 \in s
          PROVE  /\ s \ {n + 1} \in SUBSET (1 .. n) /\ Max(s) = n + 1
                 /\ it[s] = G[n + 1][f[s \ {n + 1}]] /\ it[s] \in X
                 /\ it[s \ {n + 1}] = f[s \ {n + 1}]
      <3>1. s \ {n + 1} \in SUBSET (1 .. n) /\ s \ {n + 1} \in SUBSET (1 .. n + 1)
        OBVIOUS
      <3>2. n + 1 \in Nat /\ s # {}
        BY <2>2
      <3>3. Max(s) \in s /\ \A i \in s : i <= Max(s)
        BY <3>2, MaxIsThere
      <3>4. Max(s) = n + 1
        <4> DEFINE j == Max(s)
        <4>1. j \in 1 .. n + 1 /\ n + 1 <= j
          BY <2>2, <3>3
        <4> HIDE DEF j
        <4>2. j = n + 1
          BY <4>1
        <4> QED BY <4>2 DEF j
      <3>5. f[s \ {n + 1}] \in X
        BY <2>1, <3>1 DEF IsFold
      <3>6. G[n + 1] \in [X -> X]
        OBVIOUS
      <3>7. it[s] = G[n + 1][f[s \ {n + 1}]]
        BY <2>2
      <3>8. it[s \ {n + 1}] = f[s \ {n + 1}]
        BY <3>1
      <3> HIDE DEF it
      <3> QED BY <3>1, <3>4, <3>5, <3>6, <3>7, <3>8
    <2>3. ASSUME NEW s \in SUBSET (1 .. n + 1), n + 1 \notin s
          PROVE  s \in SUBSET (1 .. n) /\ it[s] = f[s] /\ it[s] \in X
      <3>1. s \in SUBSET (1 .. n) /\ it[s] = f[s]
        BY <2>3
      <3> QED BY <2>1, <3>1 DEF IsFold
    <2>4. it \in [SUBSET (1 .. n + 1) -> X]
      <3>1. \A s \in SUBSET (1 .. n + 1) : it[s] \in X
        BY <2>2, <2>3
      <3> QED BY <3>1
    <2> HIDE DEF it
    <2>5. it[{}] = base
      BY <2>1, <2>3 DEF IsFold
    <2>6. ASSUME NEW s \in SUBSET (1 .. n + 1), s # {}
          PROVE  it[s] = G[Max(s)][it[s \ {Max(s)}]]
      <3>1. CASE n + 1 \in s
        BY <2>2, <3>1
      <3>2. CASE n + 1 \notin s
        <4>1. s \in SUBSET (1 .. n) /\ it[s] = f[s]
          BY <2>3, <3>2
        <4>2. it[s] = G[Max(s)][f[s \ {Max(s)}]]
          BY <2>1, <2>6, <4>1 DEF IsFold
        <4>3. s \ {Max(s)} \in SUBSET (1 .. n + 1) /\ n + 1 \notin s \ {Max(s)}
          BY <3>2
        <4>4. it[s \ {Max(s)}] = f[s \ {Max(s)}]
          BY <2>3, <4>3
        <4> QED BY <4>2, <4>4
      <3> QED BY <3>1, <3>2
    <2>7. IsFold(it, X, base, G, n + 1)
      BY <2>4, <2>5, <2>6 DEF IsFold
    <2> QED BY <2>7
  <1> HIDE DEF T
  <1>3. m \in T
    BY <1>1, <1>2, Induction
  <1> QED BY <1>3 DEF T

\* The values a fold comes by, one after the other.
IsRun(run, X, base, G, n) ==
  /\ run \in [0 .. n -> X] /\ run[0] = base
  /\ \A i \in 1 .. n : run[i] = G[i][run[i - 1]]

FoldsBy(iter, X, base, G, n) ==
  /\ iter[{}] = base
  /\ \A i \in 1 .. n : iter[1 .. i - 1] \in X => iter[1 .. i] = G[i][iter[1 .. i - 1]]

LEMMA FoldRuns ==
  ASSUME NEW X, NEW base \in X, NEW n \in Nat, NEW G \in [1 .. n -> [X -> X]], NEW iter,
         FoldsBy(iter, X, base, G, n)
  PROVE  \E run : IsRun(run, X, base, G, n) /\ run[n] = iter[1 .. n]
  <1> DEFINE run == [k \in 0 .. n |-> iter[1 .. k]]
             T == {k \in Nat : k <= n => run[k] \in X}
  <1>1. run[0] = base
    <2>1. 1 .. 0 = {}
      OBVIOUS
    <2> QED BY <2>1 DEF FoldsBy
  <1>2. ASSUME NEW i \in 1 .. n, run[i - 1] \in X
        PROVE  run[i] = G[i][run[i - 1]] /\ run[i] \in X
    <2>1. i \in 0 .. n /\ i - 1 \in 0 .. n
      OBVIOUS
    <2>2. run[i] = iter[1 .. i] /\ run[i - 1] = iter[1 .. i - 1]
      BY <2>1
    <2>3. G[i] \in [X -> X]
      OBVIOUS
    <2>4. iter[1 .. i] = G[i][iter[1 .. i - 1]]
      BY <1>2, <2>2 DEF FoldsBy
    <2> HIDE DEF run
    <2> QED BY <1>2, <2>2, <2>3, <2>4
  <1>3. run = [k \in 0 .. n |-> run[k]] /\ run[n] = iter[1 .. n]
    OBVIOUS
  <1> HIDE DEF run
  <1>4. \A k \in Nat : k \in T
    <2>1. 0 \in T
      BY <1>1
    <2>2. ASSUME NEW k \in Nat, k \in T PROVE k + 1 \in T
      <3> SUFFICES ASSUME k + 1 <= n PROVE run[k + 1] \in X
        OBVIOUS
      <3>1. k + 1 \in 1 .. n /\ k <= n /\ (k + 1) - 1 = k
        OBVIOUS
      <3>2. run[(k + 1) - 1] \in X
        BY <2>2, <3>1
      <3> QED BY <1>2, <3>1, <3>2
    <2> HIDE DEF T
    <2> QED BY <2>1, <2>2, Induction
  <1>5. \A k \in 0 .. n : run[k] \in X
    BY <1>4
  <1>6. \A i \in 1 .. n : run[i] = G[i][run[i - 1]]
    <2>1. ASSUME NEW i \in 1 .. n PROVE run[i] = G[i][run[i - 1]]
      <3>1. i - 1 \in 0 .. n
        OBVIOUS
      <3> QED BY <1>2, <1>5, <3>1
    <2> QED BY <2>1
  <1> QED BY <1>1, <1>3, <1>5, <1>6 DEF IsRun

LEMMA FlattenEmpty ==
  ASSUME NEW S, NEW seqs \in Seq(Seq(S)), \A i \in 1 .. Len(seqs) : seqs[i] = << >>
  PROVE  FlattenSeq(seqs) = << >>
  <1>1. PICK flat \in Seq(S) : flat = FlattenSeq(seqs)
    BY FlattenType
  <1>2. ToSet(flat) = UNION {ToSet(seqs[i]) : i \in 1 .. Len(seqs)}
    BY <1>1, FlattenElements
  <1>3. \A i \in 1 .. Len(seqs) : ToSet(seqs[i]) = {}
    BY DEF ToSet
  <1>4. ToSet(flat) = {}
    BY <1>2, <1>3
  <1>5. Len(flat) = 0
    <2>1. ASSUME Len(flat) # 0 PROVE FALSE
      <3>1. 1 \in DOMAIN flat
        BY <2>1
      <3>2. flat[1] \in ToSet(flat)
        BY <3>1 DEF ToSet
      <3> QED BY <1>4, <3>2
    <2> QED BY <2>1
  <1> QED BY <1>1, <1>5
=============================================================================
