----------------------------- MODULE RingTheorems -----------------------------
(***************************************************************************)
(* Facts about the ring buffer template, for rings of every size: a ring   *)
(* represents a sequence (Contents), PUT appends to it and REMOVE takes    *)
(* its head off, one element or several.  Before them, what is needed of   *)
(* numbers and of sequences of numbered bytes.                             *)
(***************************************************************************)
EXTENDS RingBuffer, SequenceTheorems, WellFoundedInduction, TLAPS

(* Numbers. *)

\* A non-empty set of natural numbers has a least element.
LEMMA Least ==
    ASSUME NEW T, T \subseteq Nat, T # {}
    PROVE  \E x \in T : \A y \in T : x <= y
<1> DEFINE R == OpToRel(<, Nat)
<1>1. IsWellFoundedOn(R, Nat)
  BY NatLessThanWellFounded, Zenon
<1>2. \A x, y \in Nat : y < x => <<y, x>> \in R
  BY DEF R, OpToRel
<1> HIDE DEF R
<1>3. PICK x \in T : \A y \in T : ~ (<<y, x>> \in R)
  BY <1>1, WFMin, Zenon
<1>4. \A y \in T : ~ (y < x)
  BY <1>2, <1>3, Zenon
<1>5. \A y \in T : x <= y
  BY <1>4
<1> QED BY <1>5

\* A non-empty set of natural numbers with a bound has a greatest element.
LEMMA Greatest ==
    ASSUME NEW n \in Nat, NEW T, T \subseteq 0 .. n, T # {}
    PROVE  \E x \in T : \A y \in T : x >= y
<1> DEFINE U == {k \in Nat : \E x \in T : k = n - x}
<1>1. U \subseteq Nat /\ U # {}
  <2>1. PICK x \in T : TRUE
    OBVIOUS
  <2>2. n - x \in Nat
    BY <2>1
  <2> QED BY <2>1, <2>2
<1>2. PICK k \in U : \A j \in U : k <= j
  BY <1>1, Least, Zenon
<1>3. PICK x \in T : k = n - x
  BY <1>2
<1>4. \A y \in T : x >= y
  <2> SUFFICES ASSUME NEW y \in T PROVE x >= y
    OBVIOUS
  <2>1. n - y \in U /\ y \in 0 .. n /\ x \in 0 .. n
    OBVIOUS
  <2>2. k <= n - y
    BY <1>2, <2>1
  <2> QED BY <1>3, <2>1, <2>2
<1> QED BY <1>4

\* Induction up to a bound, over a set.
LEMMA UpTo ==
    ASSUME NEW L \in Nat, NEW P,
           0 \in P, \A n \in 0 .. L - 1 : n \in P => n + 1 \in P
    PROVE  \A n \in 0 .. L : n \in P
<1> DEFINE T == {n \in 0 .. L : n \notin P}
<1> SUFFICES ASSUME T # {} PROVE FALSE
  OBVIOUS
<1>1. T \subseteq Nat
  OBVIOUS
<1>2. PICK x \in T : \A y \in T : x <= y
  BY <1>1, Least, Zenon
<1>3. x # 0 /\ x \in 0 .. L /\ x \notin P
  OBVIOUS
<1>4. x - 1 \in 0 .. L - 1 /\ (x - 1) + 1 = x /\ x - 1 \in 0 .. L /\ ~ (x <= x - 1)
  BY <1>3
<1>5. x - 1 \in P
  BY <1>2, <1>4
<1> QED BY <1>3, <1>4, <1>5

\* The values of f begin with b, and each step leads from one to the next.
Follows(f, L, B, b, step) ==
    f \in [0 .. L -> B] /\ f[0] = b /\ \A n \in 1 .. L : f[n] = step[n][f[n - 1]]

\* A function on 0 .. L is given by its value at 0 and the step to the next value:
\* what the recursive functions of the models are defined by.
LEMMA Recursion ==
    ASSUME NEW L \in Nat, NEW B, NEW b \in B, NEW step \in [1 .. L -> [B -> B]]
    PROVE  \E f : Follows(f, L, B, b, step)
<1> DEFINE Good(f, m) ==
               f \in [0 .. m -> B] /\ f[0] = b
               /\ \A n \in 1 .. m : f[n] = step[n][f[n - 1]]
           P == {m \in 0 .. L : \E f : Good(f, m)}
<1>1. 0 \in P
  <2>1. Good([n \in 0 .. 0 |-> b], 0)
    OBVIOUS
  <2>2. 0 \in 0 .. L
    OBVIOUS
  <2> HIDE DEF Good
  <2> QED BY <2>1, <2>2
<1>2. ASSUME NEW m \in 0 .. L - 1, m \in P
      PROVE  m + 1 \in P
  <2>1. PICK f : Good(f, m)
    BY <1>2
  <2>2. m \in 0 .. m /\ f[m] \in B /\ m + 1 \in 1 .. L
    BY <2>1
  <2> DEFINE v == step[m + 1][f[m]]
             g == [n \in 0 .. m + 1 |-> IF n = m + 1 THEN v ELSE f[n]]
  <2>3. v \in B
    BY <2>2
  <2> HIDE DEF v
  <2>4. g \in [0 .. m + 1 -> B]
    BY <2>1, <2>3
  <2>5. g[0] = b /\ g[m + 1] = v /\ \A n \in 0 .. m : g[n] = f[n]
    BY <2>1
  <2>6. ASSUME NEW n \in 1 .. m + 1
        PROVE  g[n] = step[n][g[n - 1]]
    <3>1. CASE n = m + 1
      <4>1. n - 1 = m /\ m \in 0 .. m
        BY <3>1
      <4>2. g[n - 1] = f[m]
        BY <2>5, <4>1
      <4> QED BY <2>5, <3>1, <4>2 DEF v
    <3>2. CASE n # m + 1
      <4>1. n \in 1 .. m /\ n \in 0 .. m /\ n - 1 \in 0 .. m
        BY <3>2
      <4>2. g[n] = f[n] /\ g[n - 1] = f[n - 1]
        BY <2>5, <4>1
      <4> QED BY <2>1, <4>1, <4>2
    <3> QED BY <3>1, <3>2
  <2>7. Good(g, m + 1)
    BY <2>4, <2>5, <2>6
  <2>8. m + 1 \in 0 .. L
    OBVIOUS
  <2> HIDE DEF Good, g
  <2> QED BY <2>7, <2>8
<1> HIDE DEF P
<1>3. L \in P
  <2>1. \A n \in 0 .. L : n \in P
    BY <1>1, <1>2, UpTo, Zenon
  <2> QED BY <2>1
<1> QED BY <1>3 DEF P, Follows

\* An index goes round the ring once.
LEMMA Wraps ==
    ASSUME NEW Q \in Nat \ {0}, NEW n \in Nat, n < 2 * Q
    PROVE  n % Q = IF n < Q THEN n ELSE n - Q
OBVIOUS

LEMMA Within ==
    ASSUME NEW Q \in Nat \ {0}, NEW o \in 0 .. Q - 1, NEW n \in 0 .. Q
    PROVE  (o + n) % Q = IF o + n < Q THEN o + n ELSE o + n - Q
<1>1. o + n \in Nat /\ o + n < 2 * Q
  OBVIOUS
<1>2. PICK m \in Nat : m = o + n /\ m < 2 * Q
  BY <1>1
<1>3. m % Q = IF m < Q THEN m ELSE m - Q
  BY <1>2, Wraps, Zenon
<1> QED BY <1>2, <1>3

----------------------------------------------------------------------------
(* Sequences: splitting, and bytes that are numbered one after the other. *)

\* Taking the first element of a sequence to the end of the one before it.
LEMMA MoveHead ==
    ASSUME NEW S, NEW s \in Seq(S), NEW t \in Seq(S), t # << >>
    PROVE  Append(s, Head(t)) \o Tail(t) = s \o t
<1>1. Head(t) \in S /\ Tail(t) \in Seq(S) /\ Len(t) \in Nat \ {0}
  BY HeadTailProperties, EmptySeq, Zenon
<1>2. t = <<Head(t)>> \o Tail(t)
  <2>1. 1 \in 1 .. Len(t) /\ Len(t) \in 1 .. Len(t) /\ 1 + 1 = 2
    BY <1>1
  <2>2. SubSeq(t, 1, Len(t)) = <<t[1]>> \o SubSeq(t, 1 + 1, Len(t))
    BY <2>1, SubSeqRecursiveFirst, Zenon
  <2>3. SubSeq(t, 1, Len(t)) = t /\ Tail(t) = SubSeq(t, 2, Len(t))
    BY SubSeqFull, TailIsSubSeq, Zenon
  <2>4. Head(t) = t[1]
    BY <1>1
  <2> QED BY <2>1, <2>2, <2>3, <2>4
<1>3. Append(s, Head(t)) = s \o <<Head(t)>>
  BY <1>1, AppendIsConcat, Zenon
<1>4. <<Head(t)>> \in Seq(S)
  BY <1>1
<1>5. (s \o <<Head(t)>>) \o Tail(t) = s \o (<<Head(t)>> \o Tail(t))
  BY <1>1, <1>4, ConcatAssociative, SMTT(60)
<1> QED BY <1>2, <1>3, <1>5, Zenon

\* The first n elements of a sequence and the rest make it up.
LEMMA SplitAt ==
    ASSUME NEW S, NEW t \in Seq(S), NEW n \in 0 .. Len(t)
    PROVE  /\ SubSeq(t, 1, n) \in Seq(S) /\ SubSeq(t, n + 1, Len(t)) \in Seq(S)
           /\ SubSeq(t, 1, n) \o SubSeq(t, n + 1, Len(t)) = t
           /\ Len(SubSeq(t, 1, n)) = n
           /\ Len(SubSeq(t, n + 1, Len(t))) = Len(t) - n
<1>1. /\ Len(t) \in Nat /\ n \in Int /\ 1 \in Int /\ Len(t) \in Int /\ n + 1 \in Int
      /\ 1 \in 1 .. Len(t) + 1 /\ n \in 1 - 1 .. Len(t) /\ Len(t) \in n .. Len(t)
  BY LenProperties
<1>2. \A i \in 1 .. Len(t) : t[i] \in S
  BY ElementOfSeq
<1>3. (\A i \in 1 .. n : t[i] \in S) /\ (\A i \in n + 1 .. Len(t) : t[i] \in S)
  BY <1>1, <1>2
<1>4. /\ SubSeq(t, 1, n) \in Seq(S)
      /\ Len(SubSeq(t, 1, n)) = IF 1 <= n THEN n - 1 + 1 ELSE 0
  BY <1>1, <1>3, SubSeqProperties
<1>5. /\ SubSeq(t, n + 1, Len(t)) \in Seq(S)
      /\ Len(SubSeq(t, n + 1, Len(t))) =
             IF n + 1 <= Len(t) THEN Len(t) - (n + 1) + 1 ELSE 0
  BY <1>1, <1>3, SubSeqProperties
<1>6. SubSeq(t, 1, n) \o SubSeq(t, n + 1, Len(t)) = SubSeq(t, 1, Len(t))
  BY <1>1, ConcatAdjacentSubSeq, Zenon
<1>7. SubSeq(t, 1, Len(t)) = t
  BY SubSeqFull, Zenon
<1>8. n = IF 1 <= n THEN n - 1 + 1 ELSE 0
  BY <1>1
<1>9. Len(t) - n = IF n + 1 <= Len(t) THEN Len(t) - (n + 1) + 1 ELSE 0
  BY <1>1
<1>10. Len(SubSeq(t, 1, n)) = n
  BY <1>4, <1>8
<1>11. Len(SubSeq(t, n + 1, Len(t))) = Len(t) - n
  BY <1>5, <1>9
<1>12. SubSeq(t, 1, n) \o SubSeq(t, n + 1, Len(t)) = t
  BY <1>6, <1>7, Zenon
<1> QED BY <1>4, <1>5, <1>10, <1>11, <1>12, Zenon

\* Appending the next element of a sequence to the ones before it.
LEMMA AppendNext ==
    ASSUME NEW S, NEW s \in Seq(S), NEW t \in Seq(S), NEW n \in 0 .. Len(t) - 1
    PROVE  Append(s \o SubSeq(t, 1, n), t[n + 1]) = s \o SubSeq(t, 1, n + 1)
<1>1. n + 1 \in 1 .. Len(t) /\ 1 \in 1 .. Len(t) /\ n \in 0 .. Len(t) /\ (n + 1) - 1 = n
  BY LenProperties
<1>2. PICK e \in S : e = t[n + 1]
  BY <1>1, ElementOfSeq
<1>3. PICK u \in Seq(S) : u = SubSeq(t, 1, n)
  BY <1>1, SplitAt, Zenon
<1>4. SubSeq(t, 1, n + 1) = u \o <<e>>
  <2>1. n + 1 \in 1 .. Len(t) /\ n + 1 \in 1 .. Len(t)
    BY <1>1
  <2>2. SubSeq(t, 1, n + 1) = SubSeq(t, 1, (n + 1) - 1) \o <<t[n + 1]>>
    BY <1>1, <2>1, SubSeqRecursiveSecond
  <2> QED BY <1>1, <1>2, <1>3, <2>2
<1>5. <<e>> \in Seq(S) /\ s \o u \in Seq(S)
  BY <1>2, <1>3, ConcatProperties
<1>6. Append(s \o u, e) = (s \o u) \o <<e>>
  BY <1>2, <1>5, AppendIsConcat
<1>7. (s \o u) \o <<e>> = s \o (u \o <<e>>)
  <2>1. u \in Seq(S)
    BY <1>3
  <2>2. <<e>> \in Seq(S)
    BY <1>5
  <2> QED BY <2>1, <2>2, ConcatAssociative, SMTT(60)
<1> QED BY <1>2, <1>3, <1>4, <1>6, <1>7, Zenon

\* n bytes in the order of their numbers, the first of them with the number a + 1.
Run(a, n) == [i \in 1 .. n |-> a + i]

LEMMA RunFacts ==
    ASSUME NEW a \in Nat, NEW n \in Nat
    PROVE  Run(a, n) \in Seq(Nat) /\ Len(Run(a, n)) = n
           /\ \A i \in 1 .. n : Run(a, n)[i] = a + i
BY DEF Run

\* Runs that follow each other are one run.
LEMMA RunConcat ==
    ASSUME NEW a \in Nat, NEW m \in Nat, NEW n \in Nat
    PROVE  Run(a, m) \o Run(a + m, n) = Run(a, m + n)
<1>1. /\ Run(a, m) \in Seq(Nat) /\ Len(Run(a, m)) = m
      /\ \A i \in 1 .. m : Run(a, m)[i] = a + i
  BY RunFacts, Zenon
<1>2. /\ Run(a + m, n) \in Seq(Nat) /\ Len(Run(a + m, n)) = n
      /\ \A i \in 1 .. n : Run(a + m, n)[i] = (a + m) + i
  <2>1. a + m \in Nat
    OBVIOUS
  <2> QED BY <2>1, RunFacts, Zenon
<1>3. /\ Run(a, m + n) \in Seq(Nat) /\ Len(Run(a, m + n)) = m + n
      /\ \A i \in 1 .. m + n : Run(a, m + n)[i] = a + i
  <2>1. m + n \in Nat
    OBVIOUS
  <2> QED BY <2>1, RunFacts, Zenon
<1> DEFINE s == Run(a, m) \o Run(a + m, n)
<1>4. /\ s \in Seq(Nat) /\ Len(s) = Len(Run(a, m)) + Len(Run(a + m, n))
      /\ \A i \in 1 .. Len(Run(a, m)) + Len(Run(a + m, n)) :
            s[i] = IF i <= Len(Run(a, m)) THEN Run(a, m)[i]
                   ELSE Run(a + m, n)[i - Len(Run(a, m))]
  BY <1>1, <1>2, ConcatProperties, Zenon
<1> HIDE DEF s
<1>5. Len(s) = m + n
  BY <1>1, <1>2, <1>4
<1>6. ASSUME NEW i \in 1 .. Len(s) PROVE s[i] = Run(a, m + n)[i]
  <2>1. i \in 1 .. m + n
    BY <1>5
  <2>2. s[i] = IF i <= m THEN Run(a, m)[i] ELSE Run(a + m, n)[i - m]
    BY <1>1, <1>2, <1>4, <2>1, Zenon
  <2>3. Run(a, m + n)[i] = a + i
    BY <1>3, <2>1
  <2>4. CASE i <= m
    BY <1>1, <2>1, <2>2, <2>3, <2>4
  <2>5. CASE ~ (i <= m)
    <3>1. i - m \in 1 .. n
      BY <2>1, <2>5
    <3>2. Run(a + m, n)[i - m] = (a + m) + (i - m)
      BY <1>2, <3>1
    <3> QED BY <2>1, <2>2, <2>3, <2>5, <3>2
  <2> QED BY <2>4, <2>5
<1>7. s = Run(a, m + n)
  BY <1>3, <1>4, <1>5, <1>6, SeqEqual, Zenon
<1> QED BY <1>7 DEF s

\* The run before nothing, and a run of one.
LEMMA RunEmpty == ASSUME NEW a \in Nat PROVE Run(a, 0) = << >>
BY DEF Run

LEMMA RunAppend ==
    ASSUME NEW a \in Nat, NEW n \in Nat
    PROVE  Append(Run(a, n), a + n + 1) = Run(a, n + 1)
<1>1. Run(a, n) \in Seq(Nat) /\ a + n + 1 \in Nat
  BY RunFacts
<1>2. Append(Run(a, n), a + n + 1) = Run(a, n) \o <<a + n + 1>>
  BY <1>1, AppendIsConcat, Zenon
<1>3. Run(a + n, 1) = <<a + n + 1>>
  BY DEF Run
<1>4. Run(a, n) \o Run(a + n, 1) = Run(a, n + 1)
  BY RunConcat
<1> QED BY <1>2, <1>3, <1>4

----------------------------------------------------------------------------
(* One element put into a ring, or taken out. *)

\* A ring with elements of S: the count and both indices are in range and agree.
IsRing(b, S) ==
    /\ b \in [data : [0 .. Size - 1 -> S], in : 0 .. Size - 1,
              out : 0 .. Size - 1, elems : 0 .. Size]
    /\ b.in = (b.out + b.elems) % Size

\* The index n places after o.
At(o, n) == IF o + n < Size THEN o + n ELSE o + n - Size

\* What the ring holds, by place.
LEMMA ContentsFacts ==
    ASSUME Size \in Nat \ {0}, NEW S, NEW b, IsRing(b, S)
    PROVE  /\ Contents(b) \in Seq(S) /\ Len(Contents(b)) = b.elems
           /\ b.in = At(b.out, b.elems)
           /\ \A i \in 1 .. b.elems : Contents(b)[i] = b.data[At(b.out, i - 1)]
           /\ \A i \in 1 .. b.elems :
                  /\ At(b.out, i - 1) \in 0 .. Size - 1
                  /\ At(b.out, i - 1) # At(b.out, b.elems) \/ b.elems = Size
<1>1. /\ b.out \in 0 .. Size - 1 /\ b.elems \in 0 .. Size
      /\ b.data \in [0 .. Size - 1 -> S] /\ b.in = (b.out + b.elems) % Size
  BY DEF IsRing
<1>2. \A n \in 0 .. Size : (b.out + n) % Size = At(b.out, n)
  BY <1>1, Within, Zenon DEF At
<1>3. \A n \in 0 .. Size : At(b.out, n) \in 0 .. Size - 1
  BY <1>1 DEF At
<1>4. ASSUME NEW i \in 1 .. b.elems
      PROVE  (b.out + i - 1) % Size = At(b.out, i - 1)
  <2>1. i - 1 \in 0 .. Size /\ b.out + i - 1 = b.out + (i - 1)
    BY <1>1
  <2> QED BY <2>1, <1>2
<1>5. \A i \in 1 .. b.elems : i - 1 \in 0 .. Size
  BY <1>1
<1>6. /\ Contents(b) = [i \in 1 .. b.elems |-> b.data[At(b.out, i - 1)]]
  BY <1>4 DEF Contents
<1>7. \A i \in 1 .. b.elems : b.data[At(b.out, i - 1)] \in S
  BY <1>1, <1>3, <1>5
<1>8. Contents(b) \in Seq(S) /\ Len(Contents(b)) = b.elems
  BY <1>1, <1>6, <1>7, SMTT(40)
<1>9. \A i \in 1 .. b.elems : At(b.out, i - 1) # At(b.out, b.elems) \/ b.elems = Size
  BY <1>1 DEF At
<1>10. b.in = At(b.out, b.elems)
  BY <1>1, <1>2
<1> HIDE DEF At
<1> QED BY <1>3, <1>5, <1>6, <1>8, <1>9, <1>10

\* The struct keeps its fields.
LEMMA Fields ==
    ASSUME NEW A, NEW U, NEW W, NEW b \in [data : A, in : U, out : U, elems : W],
           NEW d \in A, NEW x \in U, NEW y \in W
    PROVE  /\ [b EXCEPT !.data = d, !.in = x, !.elems = y]
                 \in [data : A, in : U, out : U, elems : W]
           /\ [b EXCEPT !.out = x, !.elems = y] \in [data : A, in : U, out : U, elems : W]
OBVIOUS

\* buffer.h: PUT adds an element behind the others, while there is room.
LEMMA PutFacts ==
    ASSUME Size \in Nat \ {0}, NEW S, NEW b, IsRing(b, S), b.elems < Size, NEW e \in S
    PROVE  /\ IsRing(Put(b, e), S)
           /\ Put(b, e).elems = b.elems + 1
           /\ Contents(Put(b, e)) = Append(Contents(b), e)
<1>1. /\ b \in [data : [0 .. Size - 1 -> S], in : 0 .. Size - 1,
                out : 0 .. Size - 1, elems : 0 .. Size]
      /\ b.in = (b.out + b.elems) % Size
  BY DEF IsRing
<1> DEFINE c == Put(b, e)
<1>2. /\ c.data = [b.data EXCEPT ![b.in] = e] /\ c.in = (b.in + 1) % Size
      /\ c.out = b.out /\ c.elems = b.elems + 1
  BY <1>1 DEF Put
<1>3. /\ Contents(b) \in Seq(S) /\ Len(Contents(b)) = b.elems
      /\ b.in = At(b.out, b.elems)
      /\ \A i \in 1 .. b.elems : Contents(b)[i] = b.data[At(b.out, i - 1)]
      /\ \A i \in 1 .. b.elems :
             /\ At(b.out, i - 1) \in 0 .. Size - 1
             /\ At(b.out, i - 1) # At(b.out, b.elems) \/ b.elems = Size
  BY ContentsFacts, Zenon
<1>4. (b.in + 1) % Size = At(b.in, 1) /\ 1 \in 0 .. Size
  <2>1. 1 \in 0 .. Size
    OBVIOUS
  <2> QED BY <2>1, <1>1, Within, Zenon DEF At
<1>5. b.elems + 1 \in 0 .. Size /\ (b.out + (b.elems + 1)) % Size = At(b.out, b.elems + 1)
  <2>1. b.elems + 1 \in 0 .. Size
    BY <1>1
  <2> QED BY <2>1, <1>1, Within, Zenon DEF At
<1>6. At(At(b.out, b.elems), 1) = At(b.out, b.elems + 1)
  BY <1>1, SMTT(40) DEF At
<1>7. At(b.out, b.elems + 1) \in 0 .. Size - 1
  BY <1>1 DEF At
<1> HIDE DEF c
<1>8. c.in = (c.out + c.elems) % Size /\ c.in \in 0 .. Size - 1
  BY <1>2, <1>3, <1>4, <1>5, <1>6, <1>7
<1>9. c.data \in [0 .. Size - 1 -> S]
  BY <1>1, <1>2
<1>10. IsRing(c, S)
  <2>1. [b.data EXCEPT ![b.in] = e] \in [0 .. Size - 1 -> S]
    BY <1>1
  <2>2. (b.in + 1) % Size \in 0 .. Size - 1
    BY <1>2, <1>8
  <2>3. c = [b EXCEPT !.data = [b.data EXCEPT ![b.in] = e], !.in = (b.in + 1) % Size,
                      !.elems = b.elems + 1]
    BY <1>1 DEF Put, c
  <2>4. c \in [data : [0 .. Size - 1 -> S], in : 0 .. Size - 1,
               out : 0 .. Size - 1, elems : 0 .. Size]
    BY <1>1, <1>5, <2>1, <2>2, <2>3, Fields, Zenon
  <2> QED BY <1>8, <2>4 DEF IsRing
<1>11. /\ Contents(c) \in Seq(S) /\ Len(Contents(c)) = c.elems
       /\ \A i \in 1 .. c.elems : Contents(c)[i] = c.data[At(c.out, i - 1)]
  BY <1>10, ContentsFacts, Zenon
<1>12. /\ Append(Contents(b), e) \in Seq(S)
       /\ Len(Append(Contents(b), e)) = Len(Contents(b)) + 1
       /\ \A i \in 1 .. Len(Contents(b)) : Append(Contents(b), e)[i] = Contents(b)[i]
       /\ Append(Contents(b), e)[Len(Contents(b)) + 1] = e
  BY <1>3, AppendProperties
<1>13. \A i \in 1 .. b.elems : c.data[At(b.out, i - 1)] = b.data[At(b.out, i - 1)]
  BY <1>1, <1>2, <1>3
<1>14. c.data[At(b.out, b.elems)] = e
  BY <1>1, <1>2, <1>3
<1>15. ASSUME NEW i \in 1 .. Len(Contents(c))
       PROVE  Contents(c)[i] = Append(Contents(b), e)[i]
  <2>1. i \in 1 .. b.elems + 1 /\ i \in 1 .. c.elems
    BY <1>2, <1>11
  <2>2. Contents(c)[i] = c.data[At(b.out, i - 1)]
    BY <1>2, <1>11, <2>1
  <2>3. CASE i = b.elems + 1
    <3>1. i - 1 = b.elems
      BY <1>1, <2>3
    <3> QED BY <1>3, <1>12, <1>14, <2>2, <2>3, <3>1
  <2>4. CASE i # b.elems + 1
    <3>1. i \in 1 .. b.elems
      BY <1>1, <2>1, <2>4
    <3> QED BY <1>3, <1>12, <1>13, <2>2, <3>1
  <2> QED BY <2>3, <2>4
<1>16. Len(Contents(c)) = Len(Append(Contents(b), e))
  BY <1>2, <1>3, <1>11, <1>12
<1>17. Contents(c) = Append(Contents(b), e)
  BY <1>11, <1>12, <1>15, <1>16, SeqEqual, Zenon
<1> QED BY <1>2, <1>10, <1>17 DEF c

\* buffer.h: REMOVE takes the first element off, while the count is small enough for
\* its type; PEEK shows it.
LEMMA DropFacts ==
    ASSUME Size \in Nat \ {0}, CountMod \in Nat, CountMod > Size,
           NEW S, NEW b, IsRing(b, S), b.elems > 0
    PROVE  /\ IsRing(DropOldest(b), S)
           /\ DropOldest(b).elems = b.elems - 1
           /\ Contents(DropOldest(b)) = Tail(Contents(b))
           /\ Contents(b) # << >> /\ Peek(b) = Head(Contents(b))
<1>1. /\ b \in [data : [0 .. Size - 1 -> S], in : 0 .. Size - 1,
                out : 0 .. Size - 1, elems : 0 .. Size]
      /\ b.in = (b.out + b.elems) % Size
  BY DEF IsRing
<1> DEFINE c == DropOldest(b)
<1>0. (b.elems - 1) % CountMod = b.elems - 1
  <2>1. b.elems - 1 \in Nat /\ CountMod \in Nat \ {0} /\ b.elems - 1 < CountMod
    BY <1>1
  <2>2. PICK m \in Nat : m = b.elems - 1 /\ m < CountMod
    BY <2>1
  <2>3. m % CountMod = m
    BY <2>1, <2>2
  <2> QED BY <2>2, <2>3
<1>2. /\ c.data = b.data /\ c.out = (b.out + 1) % Size
      /\ c.in = b.in /\ c.elems = b.elems - 1
  BY <1>0, <1>1 DEF DropOldest
<1>3. /\ Contents(b) \in Seq(S) /\ Len(Contents(b)) = b.elems
      /\ b.in = At(b.out, b.elems)
      /\ \A i \in 1 .. b.elems : Contents(b)[i] = b.data[At(b.out, i - 1)]
  BY ContentsFacts, Zenon
<1>4. (b.out + 1) % Size = At(b.out, 1)
  <2>1. 1 \in 0 .. Size
    OBVIOUS
  <2> QED BY <2>1, <1>1, Within, Zenon DEF At
<1>5. /\ b.elems - 1 \in 0 .. Size /\ At(b.out, 1) \in 0 .. Size - 1
      /\ \A n \in 0 .. b.elems - 1 : At(At(b.out, 1), n) = At(b.out, n + 1)
  <2>1. PICK o \in 0 .. Size - 1, k \in 1 .. Size : o = b.out /\ k = b.elems
    BY <1>1
  <2>2. k - 1 \in 0 .. Size /\ At(o, 1) \in 0 .. Size - 1
    BY <2>1 DEF At
  <2>3. ASSUME NEW n \in 0 .. k - 1 PROVE At(At(o, 1), n) = At(o, n + 1)
    BY DEF At
  <2> QED BY <2>1, <2>2, <2>3
<1>6. (At(b.out, 1) + (b.elems - 1)) % Size = At(At(b.out, 1), b.elems - 1)
  BY <1>5, Within, Zenon DEF At
<1>7. b.elems - 1 \in 0 .. b.elems - 1 /\ (b.elems - 1) + 1 = b.elems
  BY <1>1
<1> HIDE DEF c
<1>8. c.in = (c.out + c.elems) % Size /\ c.out \in 0 .. Size - 1
  BY <1>2, <1>3, <1>4, <1>5, <1>6, <1>7
<1>10. IsRing(c, S)
  <2>1. (b.out + 1) % Size \in 0 .. Size - 1
    BY <1>2, <1>8
  <2>2. c = [b EXCEPT !.out = (b.out + 1) % Size, !.elems = b.elems - 1]
    BY <1>0, <1>1 DEF DropOldest, c
  <2>3. c \in [data : [0 .. Size - 1 -> S], in : 0 .. Size - 1,
               out : 0 .. Size - 1, elems : 0 .. Size]
    BY <1>1, <1>5, <2>1, <2>2, Fields, Zenon
  <2> QED BY <1>8, <2>3 DEF IsRing
<1>11. /\ Contents(c) \in Seq(S) /\ Len(Contents(c)) = c.elems
       /\ \A i \in 1 .. c.elems : Contents(c)[i] = c.data[At(c.out, i - 1)]
  BY <1>10, ContentsFacts, Zenon
<1>12. Contents(b) # << >>
  BY <1>1, <1>3
<1>13. /\ Tail(Contents(b)) \in Seq(S)
       /\ Len(Tail(Contents(b))) = Len(Contents(b)) - 1
       /\ \A i \in 1 .. Len(Tail(Contents(b))) : Tail(Contents(b))[i] = Contents(b)[i + 1]
  BY <1>3, <1>12, HeadTailProperties, Zenon
<1>14. ASSUME NEW i \in 1 .. Len(Contents(c))
       PROVE  Contents(c)[i] = Tail(Contents(b))[i]
  <2>1. /\ i \in 1 .. c.elems /\ i - 1 \in 0 .. b.elems - 1 /\ (i - 1) + 1 = i
        /\ i + 1 \in 1 .. b.elems /\ (i + 1) - 1 = i
    BY <1>1, <1>2, <1>11
  <2>2. Contents(c)[i] = b.data[At(At(b.out, 1), i - 1)]
    BY <1>2, <1>4, <1>11, <2>1
  <2>3. At(At(b.out, 1), i - 1) = At(b.out, i)
    BY <1>5, <2>1
  <2>4. Contents(b)[i + 1] = b.data[At(b.out, i)]
    BY <1>3, <2>1
  <2>5. Tail(Contents(b))[i] = Contents(b)[i + 1]
    BY <1>2, <1>3, <1>11, <1>13
  <2> QED BY <2>2, <2>3, <2>4, <2>5
<1>15. Len(Contents(c)) = Len(Tail(Contents(b)))
  BY <1>2, <1>3, <1>11, <1>13
<1>16. Contents(c) = Tail(Contents(b))
  BY <1>11, <1>13, <1>14, <1>15, SeqEqual, Zenon
<1>17. Peek(b) = Head(Contents(b))
  <2>1. 1 \in 1 .. b.elems /\ 1 - 1 = 0 /\ At(b.out, 0) = b.out
    BY <1>1 DEF At
  <2>2. Contents(b)[1] = b.data[b.out]
    BY <1>3, <2>1
  <2>3. Head(Contents(b)) = Contents(b)[1]
    BY <1>3, <1>12
  <2> QED BY <2>2, <2>3 DEF Peek
<1> QED BY <1>2, <1>10, <1>12, <1>16, <1>17 DEF c

----------------------------------------------------------------------------
(* Several elements put into a ring, or taken out. *)

\* The elements are put one after the other.
LEMMA PutAllRecursion ==
    ASSUME Size \in Nat \ {0}, NEW S, NEW b, IsRing(b, S), NEW es \in Seq(S)
    PROVE  \E h : /\ PutAll(b, es) = h[Len(es)] /\ h[0] = b
                  /\ \A n \in 1 .. Len(es) : h[n] = Put(h[n - 1], es[n])
<1>0. PICK L \in Nat : L = Len(es)
  BY LenProperties
<1> DEFINE B == [data : [0 .. Size - 1 -> S], in : 0 .. Size - 1,
                 out : 0 .. Size - 1, elems : Nat]
           step == [n \in 1 .. L |-> [c \in B |-> Put(c, es[n])]]
           h == CHOOSE put : put = [n \in 0 .. L |-> IF n = 0 THEN b
                                                     ELSE Put(put[n - 1], es[n])]
<1>1. b \in B /\ \A n \in 1 .. L : es[n] \in S
  <2>1. b \in B
    BY DEF IsRing
  <2> QED BY <1>0, <2>1, ElementOfSeq
<1>2. ASSUME NEW c \in B, NEW e \in S
      PROVE  Put(c, e) \in B
  <2>1. /\ c.in \in 0 .. Size - 1 /\ c.elems + 1 \in Nat
        /\ [c.data EXCEPT ![c.in] = e] \in [0 .. Size - 1 -> S]
    OBVIOUS
  <2>2. (c.in + 1) % Size \in 0 .. Size - 1
    BY <2>1
  <2>3. Put(c, e) = [c EXCEPT !.data = [c.data EXCEPT ![c.in] = e],
                              !.in = (c.in + 1) % Size, !.elems = c.elems + 1]
    BY DEF Put
  <2>4. [c EXCEPT !.data = [c.data EXCEPT ![c.in] = e],
                  !.in = (c.in + 1) % Size, !.elems = c.elems + 1] \in B
    BY <2>1, <2>2, Fields
  <2> HIDE DEF B
  <2> QED BY <2>3, <2>4, Zenon
<1> HIDE DEF B
<1>3. step \in [1 .. L -> [B -> B]]
  BY <1>1, <1>2
<1>4. PICK f : Follows(f, L, B, b, step)
  <2>1. b \in B
    BY <1>1
  <2> HIDE DEF step, h
  <2> QED BY <1>0, <2>1, <1>3, Recursion, Zenon
<1>41. f \in [0 .. L -> B] /\ f[0] = b /\ \A n \in 1 .. L : f[n] = step[n][f[n - 1]]
  BY <1>4 DEF Follows
<1>5. \A n \in 1 .. L : f[n] = Put(f[n - 1], es[n])
  <2> SUFFICES ASSUME NEW n \in 1 .. L PROVE f[n] = Put(f[n - 1], es[n])
    OBVIOUS
  <2>1. n - 1 \in 0 .. L
    BY <1>1
  <2>2. f[n - 1] \in B
    BY <1>41, <2>1
  <2>3. step[n][f[n - 1]] = Put(f[n - 1], es[n])
    BY <2>2
  <2> QED BY <1>41, <2>3
<1>6. f = [n \in 0 .. L |-> IF n = 0 THEN b ELSE Put(f[n - 1], es[n])]
  <2>1. \A n \in 0 .. L : n # 0 => n \in 1 .. L
    BY <1>1
  <2>2. \A n \in 0 .. L : f[n] = IF n = 0 THEN b ELSE Put(f[n - 1], es[n])
    BY <1>41, <1>5, <2>1
  <2> QED BY <1>41, <2>2
<1>7. h = [n \in 0 .. L |-> IF n = 0 THEN b ELSE Put(h[n - 1], es[n])]
  BY <1>6
<1>8. PutAll(b, es) = h[L]
  BY <1>0 DEF PutAll
<1> HIDE DEF h
<1>9. h[0] = b /\ \A n \in 1 .. L : h[n] = Put(h[n - 1], es[n])
  <2>1. 0 \in 0 .. L /\ \A n \in 1 .. L : n \in 0 .. L /\ n # 0
    BY <1>1
  <2> QED BY <1>7, <2>1
<1>10. PutAll(b, es) = h[Len(es)] /\ \A n \in 1 .. Len(es) : h[n] = Put(h[n - 1], es[n])
  BY <1>0, <1>8, <1>9
<1> HIDE DEF h
<1> WITNESS h
<1> QED BY <1>9, <1>10

\* buffer.h: PUT in a loop appends all the elements, while there is room.
THEOREM PutAllAppends ==
    ASSUME Size \in Nat \ {0}, NEW S, NEW b, IsRing(b, S),
           NEW es \in Seq(S), b.elems + Len(es) <= Size
    PROVE  /\ IsRing(PutAll(b, es), S)
           /\ PutAll(b, es).elems = b.elems + Len(es)
           /\ Contents(PutAll(b, es)) = Contents(b) \o es
<1>1. PICK h : /\ PutAll(b, es) = h[Len(es)] /\ h[0] = b
               /\ \A n \in 1 .. Len(es) : h[n] = Put(h[n - 1], es[n])
  BY PutAllRecursion
<1> DEFINE L == Len(es)
           P == {n \in 0 .. L : /\ IsRing(h[n], S) /\ h[n].elems = b.elems + n
                                /\ Contents(h[n]) = Contents(b) \o SubSeq(es, 1, n)}
<1>2. /\ L \in Nat /\ b.elems \in Nat /\ Contents(b) \in Seq(S)
      /\ \A n \in 1 .. L : es[n] \in S
  <2>1. Contents(b) \in Seq(S)
    BY ContentsFacts, Zenon
  <2>2. b.elems \in Nat
    BY DEF IsRing
  <2> QED BY <2>1, <2>2, LenProperties, ElementOfSeq
<1>3. 0 \in P
  <2>1. SubSeq(es, 1, 0) = << >>
    BY SubSeqEmpty
  <2>2. Contents(b) \o << >> = Contents(b)
    BY <1>2, ConcatEmptySeq
  <2>3. 0 \in 0 .. L /\ b.elems = b.elems + 0
    BY <1>2
  <2>4. Contents(h[0]) = Contents(b) \o SubSeq(es, 1, 0)
    BY <1>1, <2>1, <2>2
  <2> QED BY <1>1, <2>3, <2>4
<1>4. ASSUME NEW n \in 0 .. L - 1, n \in P
      PROVE  n + 1 \in P
  <2>1. PICK c : c = h[n]
    OBVIOUS
  <2>2. PICK e : e = es[n + 1]
    OBVIOUS
  <2>3. IsRing(c, S) /\ c.elems = b.elems + n /\ Contents(c) = Contents(b) \o SubSeq(es, 1, n)
    BY <1>4, <2>1
  <2>4. n + 1 \in 1 .. L /\ (n + 1) - 1 = n /\ n + 1 \in 0 .. L /\ n \in Nat
    BY <1>2
  <2>5. e \in S /\ h[n + 1] = Put(c, e)
    BY <1>1, <1>2, <2>1, <2>2, <2>4
  <2>6. c.elems < Size /\ c.elems + 1 = b.elems + (n + 1)
    <3>1. n \in Nat /\ n + 1 <= L /\ b.elems + L <= Size
      BY <2>4
    <3>2. c.elems = b.elems + n
      BY <2>3
    <3> HIDE DEF L
    <3> QED BY <1>2, <3>1, <3>2
  <2>7. /\ IsRing(Put(c, e), S) /\ Put(c, e).elems = c.elems + 1
        /\ Contents(Put(c, e)) = Append(Contents(c), e)
    BY <2>3, <2>5, <2>6, PutFacts, Zenon
  <2>8. n \in 0 .. Len(es) - 1
    OBVIOUS
  <2>9. Append(Contents(c), e) = Contents(b) \o SubSeq(es, 1, n + 1)
    <3>1. Append(Contents(b) \o SubSeq(es, 1, n), es[n + 1]) = Contents(b) \o SubSeq(es, 1, n + 1)
      BY <1>2, <2>8, AppendNext
    <3> QED BY <2>2, <2>3, <3>1
  <2> QED BY <2>4, <2>5, <2>6, <2>7, <2>9
<1> HIDE DEF P, L
<1>5. \A n \in 0 .. L : n \in P
  BY <1>2, <1>3, <1>4, UpTo, Zenon
<1>6. L \in P
  BY <1>2, <1>5
<1>7. SubSeq(es, 1, Len(es)) = es
  BY SubSeqFull
<1> QED BY <1>1, <1>6, <1>7 DEF P, L

\* The elements are taken out one after the other.
LEMMA RemoveSomeRecursion ==
    ASSUME Size \in Nat \ {0}, CountMod \in Nat \ {0}, NEW S, NEW b, IsRing(b, S), NEW L \in Nat
    PROVE  \E h : /\ RemoveSome(b, L) = h[L] /\ h[0] = b
                  /\ \A n \in 1 .. L : h[n] = DropOldest(h[n - 1])
<1> DEFINE B == [data : [0 .. Size - 1 -> S], in : 0 .. Size - 1,
                 out : 0 .. Size - 1, elems : Nat]
           step == [n \in 1 .. L |-> [c \in B |-> DropOldest(c)]]
           h == CHOOSE drop : drop = [k \in 0 .. L |-> IF k = 0 THEN b
                                                       ELSE DropOldest(drop[k - 1])]
<1>1. b \in B
  BY DEF IsRing
<1>2. ASSUME NEW c \in B
      PROVE  DropOldest(c) \in B
  <2>1. c.out \in 0 .. Size - 1 /\ c.elems \in Nat
    OBVIOUS
  <2>2. (c.out + 1) % Size \in 0 .. Size - 1
    BY <2>1
  <2>3. (c.elems - 1) % CountMod \in Nat
    BY <2>1
  <2>4. DropOldest(c) = [c EXCEPT !.out = (c.out + 1) % Size, !.elems = (c.elems - 1) % CountMod]
    BY DEF DropOldest
  <2>5. [c EXCEPT !.out = (c.out + 1) % Size, !.elems = (c.elems - 1) % CountMod] \in B
    BY <2>2, <2>3, Fields
  <2> HIDE DEF B
  <2> QED BY <2>4, <2>5, Zenon
<1> HIDE DEF B
<1>3. step \in [1 .. L -> [B -> B]]
  BY <1>2
<1>4. PICK f : Follows(f, L, B, b, step)
  <2> HIDE DEF step
  <2> QED BY <1>1, <1>3, Recursion, Zenon
<1>41. f \in [0 .. L -> B] /\ f[0] = b /\ \A n \in 1 .. L : f[n] = step[n][f[n - 1]]
  BY <1>4 DEF Follows
<1>5. \A n \in 1 .. L : f[n] = DropOldest(f[n - 1])
  <2> SUFFICES ASSUME NEW n \in 1 .. L PROVE f[n] = DropOldest(f[n - 1])
    OBVIOUS
  <2>1. n - 1 \in 0 .. L
    OBVIOUS
  <2>2. f[n - 1] \in B
    BY <1>41, <2>1
  <2>3. step[n][f[n - 1]] = DropOldest(f[n - 1])
    BY <2>2
  <2> QED BY <1>41, <2>3
<1>6. f = [k \in 0 .. L |-> IF k = 0 THEN b ELSE DropOldest(f[k - 1])]
  <2>1. \A n \in 0 .. L : n # 0 => n \in 1 .. L
    OBVIOUS
  <2>2. \A n \in 0 .. L : f[n] = IF n = 0 THEN b ELSE DropOldest(f[n - 1])
    BY <1>41, <1>5, <2>1
  <2> QED BY <1>41, <2>2
<1>7. h = [k \in 0 .. L |-> IF k = 0 THEN b ELSE DropOldest(h[k - 1])]
  BY <1>6
<1>8. RemoveSome(b, L) = h[L]
  BY DEF RemoveSome
<1> HIDE DEF h
<1>9. h[0] = b /\ \A n \in 1 .. L : h[n] = DropOldest(h[n - 1])
  <2>1. 0 \in 0 .. L /\ \A n \in 1 .. L : n \in 0 .. L /\ n # 0
    OBVIOUS
  <2> QED BY <1>7, <2>1
<1> HIDE DEF h
<1> WITNESS h
<1> QED BY <1>8, <1>9

\* buffer.h: REMOVE in a loop takes the first elements off and leaves the others, as
\* long as there are so many.
THEOREM RemoveSomeTakes ==
    ASSUME Size \in Nat \ {0}, CountMod \in Nat, CountMod > Size,
           NEW S, NEW b, IsRing(b, S), NEW L \in 0 .. b.elems
    PROVE  /\ IsRing(RemoveSome(b, L), S)
           /\ RemoveSome(b, L).elems = b.elems - L
           /\ Contents(RemoveSome(b, L)) = SubSeq(Contents(b), L + 1, b.elems)
<1>1. /\ L \in Nat /\ b.elems \in Nat /\ Contents(b) \in Seq(S) /\ Len(Contents(b)) = b.elems
      /\ CountMod \in Nat \ {0}
  <2>1. Contents(b) \in Seq(S) /\ Len(Contents(b)) = b.elems
    BY ContentsFacts, Zenon
  <2>2. b.elems \in Nat
    BY DEF IsRing
  <2> QED BY <2>1, <2>2
<1>2. PICK h : /\ RemoveSome(b, L) = h[L] /\ h[0] = b
               /\ \A n \in 1 .. L : h[n] = DropOldest(h[n - 1])
  BY <1>1, RemoveSomeRecursion
<1> DEFINE P == {n \in 0 .. L : /\ IsRing(h[n], S) /\ h[n].elems = b.elems - n
                                /\ Contents(h[n]) = SubSeq(Contents(b), n + 1, b.elems)}
<1>3. 0 \in P
  <2>1. SubSeq(Contents(b), 0 + 1, b.elems) = Contents(b)
    BY <1>1, SubSeqFull
  <2>2. 0 \in 0 .. L /\ b.elems = b.elems - 0
    BY <1>1
  <2> QED BY <1>2, <2>1, <2>2
<1>4. ASSUME NEW n \in 0 .. L - 1, n \in P
      PROVE  n + 1 \in P
  <2>1. PICK c : c = h[n]
    OBVIOUS
  <2>2. IsRing(c, S) /\ c.elems = b.elems - n /\ Contents(c) = SubSeq(Contents(b), n + 1, b.elems)
    BY <1>4, <2>1
  <2>3. n + 1 \in 1 .. L /\ (n + 1) - 1 = n /\ n + 1 \in 0 .. L /\ n \in Nat
    BY <1>1
  <2>4. h[n + 1] = DropOldest(c)
    BY <1>2, <2>1, <2>3
  <2>5. c.elems > 0 /\ c.elems - 1 = b.elems - (n + 1)
    BY <1>1, <2>2
  <2>6. /\ IsRing(DropOldest(c), S) /\ DropOldest(c).elems = c.elems - 1
        /\ Contents(DropOldest(c)) = Tail(Contents(c))
    BY <2>2, <2>5, DropFacts, Zenon
  <2>7. Tail(SubSeq(Contents(b), n + 1, b.elems)) = SubSeq(Contents(b), (n + 1) + 1, b.elems)
    <3>1. n + 1 \in 1 .. Len(Contents(b)) /\ b.elems \in n + 1 .. Len(Contents(b))
      BY <1>1, <2>3
    <3> QED BY <1>1, <3>1, HeadTailOfSubSeq
  <2> QED BY <2>2, <2>3, <2>4, <2>5, <2>6, <2>7
<1> HIDE DEF P
<1>5. \A n \in 0 .. L : n \in P
  BY <1>1, <1>3, <1>4, UpTo, Zenon
<1>6. L \in P
  BY <1>1, <1>5
<1> QED BY <1>2, <1>6 DEF P

\* A new ring is empty.
LEMMA NewBufferFacts ==
    ASSUME Size \in Nat \ {0}, NEW S, Unset \in S
    PROVE  IsRing(NewBuffer, S) /\ NewBuffer.elems = 0 /\ Contents(NewBuffer) = << >>
<1>1. 0 \in 0 .. Size - 1 /\ 0 \in 0 .. Size /\ (0 + 0) % Size = 0
  OBVIOUS
<1>2. IsRing(NewBuffer, S) /\ NewBuffer.elems = 0
  BY <1>1 DEF IsRing, NewBuffer
<1>3. Contents(NewBuffer) \in Seq(S) /\ Len(Contents(NewBuffer)) = 0
  BY <1>2, ContentsFacts
<1>4. Contents(NewBuffer) = << >>
  BY <1>3, EmptySeq
<1> QED BY <1>2, <1>4

=============================================================================
