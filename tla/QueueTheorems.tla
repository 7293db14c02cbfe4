--------------------------- MODULE QueueTheorems ---------------------------
(***************************************************************************)
(* Facts about the queue template, for queues and tasks of every size:     *)
(* what the operators return, and what they do to the heads of the queues. *)
(***************************************************************************)
EXTENDS IntrusiveQueue, SequenceTheorems, FiniteSetTheorems, WellFoundedInduction, TLAPS

(* Arithmetic that the proofs need. *)

\* Natural numbers are well ordered.
LEMMA LeastElement ==
    ASSUME NEW T, T \subseteq Nat, T # {}
    PROVE  \E x \in T : \A y \in T : x <= y
<1> DEFINE R == OpToRel(<, Nat)
<1>1. IsWellFoundedOn(R, Nat)
  BY NatLessThanWellFounded, Zenon
<1>2. \A x, y \in Nat : y < x => <<y, x>> \in R
  BY DEF R, OpToRel
<1> HIDE DEF R
<1>3. PICK x \in T : \A y \in T : ~ (<<y, x>> \in R)
  BY <1>1, WFMin, Zenon
<1>4. \A y \in T : ~ (y < x)
  BY <1>2, <1>3, Zenon
<1>5. \A y \in T : x <= y
  BY <1>4
<1> QED BY <1>5

\* Quotient and remainder: they make up the number, and nothing else does.
LEMMA DivModSum ==
    ASSUME NEW a \in Nat, NEW n \in Nat \ {0}
    PROVE  a = (a \div n) * n + (a % n) /\ a % n \in 0 .. n - 1 /\ a \div n \in Nat
OBVIOUS

LEMMA DivModUnique ==
    ASSUME NEW g \in Nat, NEW n \in Nat \ {0}, NEW r \in 0 .. n - 1
    PROVE  (g * n + r) % n = r /\ (g * n + r) \div n = g
OBVIOUS

\* The remainder counts up and starts again.
LEMMA ModStep ==
    ASSUME NEW a \in Nat, NEW n \in Nat \ {0}
    PROVE  (a + 1) % n = IF a % n = n - 1 THEN 0 ELSE (a % n) + 1
<1> DEFINE g == a \div n
           r == a % n
<1>1. a = g * n + r /\ r \in 0 .. n - 1 /\ g \in Nat
  BY DivModSum
<1> HIDE DEF g, r
<1>2. CASE r = n - 1
  <2>1. a + 1 = (g + 1) * n + 0
    BY <1>1, <1>2
  <2>2. (a + 1) % n = 0
    BY <2>1, <1>1, DivModUnique
  <2> QED BY <1>2, <2>2 DEF r
<1>3. CASE r # n - 1
  <2>1. a + 1 = g * n + (r + 1) /\ r + 1 \in 0 .. n - 1
    BY <1>1, <1>3
  <2>2. (a + 1) % n = r + 1
    BY <2>1, <1>1, DivModUnique
  <2> QED BY <1>3, <2>2 DEF r
<1> QED BY <1>2, <1>3

----------------------------------------------------------------------------
(* The operators of queue.h. *)

\* queue.h: ENQUEUE leaves its own queue not empty and the others alone.
LEMMA EnqueueFacts ==
    ASSUME NEW Queues, NEW Tasks, NULL \notin Tasks,
           NEW q \in Families(Queues, Tasks), NEW i \in Queues, NEW t \in Tasks
    PROVE  /\ Enqueue(q, i, t) \in Families(Queues, Tasks)
           /\ Enqueue(q, i, t).head[i] # NULL
           /\ \A j \in Queues \ {i} : Enqueue(q, i, t).head[j] = q.head[j]
<1>1. CASE IsEmpty(q, i)
  BY <1>1 DEF Enqueue, Families, IsEmpty
<1>2. CASE ~ IsEmpty(q, i)
  <2> DEFINE head == q.head[i]
             tail == q.prev[head]
             nx == [q.next EXCEPT ![tail] = t, ![t] = head]
             pv == [q.prev EXCEPT ![head] = t, ![t] = tail]
  <2>1. head \in Tasks /\ tail \in Tasks \cup {NULL}
    BY <1>2 DEF Families, IsEmpty
  <2>2. nx \in [Tasks -> Tasks \cup {NULL}] /\ pv \in [Tasks -> Tasks \cup {NULL}]
    BY <2>1 DEF Families
  <2>3. Enqueue(q, i, t) = [q EXCEPT !.prev = pv, !.next = nx]
    BY <1>2 DEF Enqueue
  <2> QED BY <1>2, <2>2, <2>3 DEF Families, IsEmpty
<1> QED BY <1>1, <1>2

\* queue.h: DEQUEUE stays within the types and touches no other queue's head.
LEMMA DequeueFacts ==
    ASSUME NEW Queues, NEW Tasks, NULL \notin Tasks,
           NEW q \in Families(Queues, Tasks), NEW i \in Queues
    PROVE  /\ Dequeue(q, i) \in Families(Queues, Tasks)
           /\ \A j \in Queues \ {i} : Dequeue(q, i).head[j] = q.head[j]
<1>1. CASE IsEmpty(q, i)
  BY <1>1 DEF Dequeue
<1>2. CASE ~ IsEmpty(q, i) /\ HasOneElement(q, i)
  BY <1>2 DEF Dequeue, Families
<1>3. CASE ~ IsEmpty(q, i) /\ ~ HasOneElement(q, i)
  <2> DEFINE head == q.head[i]
             newHead == q.next[head]
             tail == q.prev[head]
             hd == [q.head EXCEPT ![i] = newHead]
             nx == [q.next EXCEPT ![tail] = newHead]
             pv == [q.prev EXCEPT ![newHead] = tail]
  <2>1. head \in Tasks /\ newHead \in Tasks \cup {NULL} /\ tail \in Tasks \cup {NULL}
    BY <1>3 DEF Families, IsEmpty
  <2>2. Dequeue(q, i) = [head |-> hd, next |-> nx, prev |-> pv]
    BY <1>3 DEF Dequeue, Families
  <2>3. /\ hd \in [Queues -> Tasks \cup {NULL}]
        /\ nx \in [Tasks -> Tasks \cup {NULL}]
        /\ pv \in [Tasks -> Tasks \cup {NULL}]
        /\ \A j \in Queues \ {i} : hd[j] = q.head[j]
    BY <2>1 DEF Families
  <2> HIDE DEF hd, nx, pv
  <2> QED BY <2>2, <2>3 DEF Families
<1> QED BY <1>1, <1>2, <1>3

\* queue.h: so does REMOVE, whatever the links of the task it is given, and an
\* empty queue stays as it is.
LEMMA RemoveFacts ==
    ASSUME NEW Queues, NEW Tasks, NULL \notin Tasks,
           NEW q \in Families(Queues, Tasks), NEW i \in Queues, NEW t \in Tasks
    PROVE  /\ Remove(q, i, t) \in Families(Queues, Tasks)
           /\ \A j \in Queues \ {i} : Remove(q, i, t).head[j] = q.head[j]
           /\ IsEmpty(q, i) => Remove(q, i, t) = q
<1>1. CASE IsEmpty(q, i)
  BY <1>1 DEF Remove
<1>2. CASE ~ IsEmpty(q, i) /\ HasOneElement(q, i)
  BY <1>2 DEF Remove, Families
<1>3. CASE ~ IsEmpty(q, i) /\ ~ HasOneElement(q, i)
  <2> DEFINE before == q.prev[t]
             after == q.next[t]
             hd == [q.head EXCEPT ![i] = IF @ = t THEN after ELSE @]
             nx == [q.next EXCEPT ![before] = after]
             pv == [q.prev EXCEPT ![after] = before]
  <2>1. before \in Tasks \cup {NULL} /\ after \in Tasks \cup {NULL}
    BY <1>3 DEF Families
  <2>2. Remove(q, i, t) = [head |-> hd, next |-> nx, prev |-> pv]
    BY <1>3 DEF Remove, Families
  <2>3. /\ hd \in [Queues -> Tasks \cup {NULL}]
        /\ nx \in [Tasks -> Tasks \cup {NULL}]
        /\ pv \in [Tasks -> Tasks \cup {NULL}]
        /\ \A j \in Queues \ {i} : hd[j] = q.head[j]
    BY <2>1 DEF Families
  <2> HIDE DEF hd, nx, pv
  <2> QED BY <1>3, <2>2, <2>3 DEF Families
<1> QED BY <1>1, <1>2, <1>3

----------------------------------------------------------------------------
\* A sequence is empty when its length is zero.
LEMMA EmptyIffLenZero ==
    ASSUME NEW S, NEW u \in Seq(S)
    PROVE  u = << >> <=> Len(u) = 0
<1>1. u # << >> => Len(u) \in Nat \ {0}
  BY EmptySeq, Zenon
<1>2. Len(<< >>) = 0
  BY EmptySeq, Zenon
<1> QED BY <1>1, <1>2

(* The operators on the sequence that a queue represents. *)

\* queue.h: ENQUEUE puts the task behind all the tasks of its queue.
THEOREM EnqueueAppends ==
    ASSUME NEW Queues, NEW Tasks, NULL \notin Tasks,
           NEW q \in Families(Queues, Tasks), NEW i \in Queues, NEW t \in Tasks,
           NEW s \in Seq(Tasks), Represents(q, i, s),
           \A k \in 1 .. Len(s) : s[k] # t
    PROVE  Represents(Enqueue(q, i, t), i, Append(s, t))
<1> DEFINE n == Len(s)
           a == Append(s, t)
<1>0. /\ n \in Nat /\ a # << >> /\ Len(a) = n + 1 /\ a[n + 1] = t
      /\ \A k \in 1 .. n : a[k] = s[k] /\ s[k] \in Tasks
  <2>1. /\ Len(s) \in Nat /\ Len(Append(s, t)) = Len(s) + 1
        /\ \A k \in 1 .. Len(s) : Append(s, t)[k] = s[k]
        /\ Append(s, t)[Len(s) + 1] = t /\ Append(s, t) # << >>
    BY AppendProperties, LenProperties
  <2>2. \A k \in 1 .. Len(s) : s[k] \in Tasks
    BY ElementOfSeq
  <2> QED BY <2>1, <2>2
<1>1. CASE s = << >>
  <2>1. IsEmpty(q, i)
    BY <1>1 DEF Represents, IsEmpty
  <2>2. LET e == Enqueue(q, i, t) IN e.head[i] = t /\ e.next[t] = t /\ e.prev[t] = t
    BY <2>1 DEF Enqueue, Families
  <2>3. n = 0 /\ a[1] = t
    BY <1>1, <1>0
  <2> QED BY <2>2, <2>3, <1>0 DEF Represents
<1>2. CASE s # << >>
  <2> DEFINE nx == [q.next EXCEPT ![s[n]] = t, ![t] = s[1]]
             pv == [q.prev EXCEPT ![s[1]] = t, ![t] = s[n]]
  <2>1. /\ n >= 1 /\ q.head[i] = s[1] /\ q.prev[s[1]] = s[n] /\ s[1] # NULL
        /\ s[1] \in Tasks /\ s[n] \in Tasks /\ s[1] # t /\ s[n] # t
    BY <1>2, <1>0 DEF Represents
  <2>2. Enqueue(q, i, t) = [head |-> q.head, next |-> nx, prev |-> pv]
    BY <2>1 DEF Enqueue, Families, IsEmpty
  <2>3. /\ q.next \in [Tasks -> Tasks \cup {NULL}]
        /\ q.prev \in [Tasks -> Tasks \cup {NULL}]
    BY DEF Families
  <2>4. \A j, k \in 1 .. n : s[j] = s[k] => j = k
    BY <1>2 DEF Represents
  <2>5. /\ \A k \in 1 .. n - 1 : q.next[s[k]] = s[k + 1]
        /\ \A k \in 2 .. n : q.prev[s[k]] = s[k - 1]
    BY <1>2 DEF Represents
  <2>6. \A k \in 1 .. n - 1 : nx[a[k]] = a[k + 1]
    BY <2>1, <2>3, <2>4, <2>5, <1>0
  <2>7. nx[a[n]] = a[n + 1] /\ nx[a[n + 1]] = a[1]
    BY <2>1, <2>3, <1>0
  <2>8. \A k \in 2 .. n : pv[a[k]] = a[k - 1]
    BY <2>1, <2>3, <2>4, <2>5, <1>0
  <2>9. pv[a[n + 1]] = a[n] /\ pv[a[1]] = a[n + 1]
    BY <2>1, <2>3, <1>0
  <2>10. \A j, k \in 1 .. n + 1 : a[j] = a[k] => j = k
    BY <2>4, <1>0
  <2>11. q.head[i] = a[1]
    BY <2>1, <1>0
  <2> HIDE DEF nx, pv, a, n
  <2>12. /\ \A k \in 1 .. Len(a) - 1 : nx[a[k]] = a[k + 1]
         /\ \A k \in 2 .. Len(a) : pv[a[k]] = a[k - 1]
         /\ nx[a[Len(a)]] = a[1] /\ pv[a[1]] = a[Len(a)]
    BY <2>6, <2>7, <2>8, <2>9, <1>0
  <2> QED BY <2>2, <2>10, <2>11, <2>12, <1>0 DEF Represents, a
<1> QED BY <1>1, <1>2

\* queue.h: DEQUEUE takes the first task off its queue and leaves the others in
\* their order.
THEOREM DequeueTakesFirst ==
    ASSUME NEW Queues, NEW Tasks, NULL \notin Tasks,
           NEW q \in Families(Queues, Tasks), NEW i \in Queues,
           NEW s \in Seq(Tasks), s # << >>, Represents(q, i, s)
    PROVE  /\ q.head[i] = Head(s)
           /\ Represents(Dequeue(q, i), i, Tail(s))
<1> DEFINE n == Len(s)
           r == Tail(s)
<1>1. /\ n \in Nat \ {0} /\ r \in Seq(Tasks) /\ Len(r) = n - 1 /\ Head(s) = s[1]
      /\ \A k \in 1 .. n - 1 : r[k] = s[k + 1]
      /\ \A k \in 1 .. n : s[k] \in Tasks
  <2>1. /\ Len(s) \in Nat \ {0} /\ Len(Tail(s)) = Len(s) - 1 /\ Tail(s) \in Seq(Tasks)
        /\ \A k \in 1 .. Len(Tail(s)) : Tail(s)[k] = s[k + 1]
    BY HeadTailProperties, LenProperties, EmptyIffLenZero
  <2>2. \A k \in 1 .. Len(s) : s[k] \in Tasks
    BY ElementOfSeq
  <2> QED BY <2>1, <2>2
<1>0. r = << >> <=> n = 1
  <2>1. r = << >> <=> Len(r) = 0
    BY <1>1, EmptyIffLenZero, Zenon
  <2>2. Len(r) = 0 <=> n = 1
    BY <1>1
  <2> HIDE DEF r, n
  <2> QED BY <2>1, <2>2, Zenon
<1>2. /\ q.head[i] = s[1]
      /\ \A j, k \in 1 .. n : s[j] = s[k] => j = k
      /\ \A k \in 1 .. n - 1 : q.next[s[k]] = s[k + 1]
      /\ \A k \in 2 .. n : q.prev[s[k]] = s[k - 1]
      /\ q.next[s[n]] = s[1]
      /\ q.prev[s[1]] = s[n]
  BY DEF Represents
<1>3. ~ IsEmpty(q, i)
  BY <1>1, <1>2 DEF IsEmpty
<1>4. CASE n = 1
  <2>1. HasOneElement(q, i)
    BY <1>2, <1>4 DEF HasOneElement
  <2>2. Dequeue(q, i).head[i] = NULL
    BY <2>1, <1>3 DEF Dequeue, Families
  <2>3. Tail(s) = << >>
    BY <1>4, <1>0, Zenon
  <2> QED BY <2>2, <2>3, <1>1, <1>2 DEF Represents
<1>5. CASE n # 1
  <2> DEFINE hd == [q.head EXCEPT ![i] = s[2]]
             nx == [q.next EXCEPT ![s[n]] = s[2]]
             pv == [q.prev EXCEPT ![s[2]] = s[n]]
  <2>1. n >= 2 /\ q.next[s[1]] = s[2] /\ s[2] # s[1] /\ s[2] \in Tasks /\ s[n] \in Tasks
    BY <1>1, <1>2, <1>5
  <2>2. ~ HasOneElement(q, i)
    BY <1>2, <2>1 DEF HasOneElement
  <2>3. Dequeue(q, i) = [head |-> hd, next |-> nx, prev |-> pv]
    BY <1>2, <1>3, <2>1, <2>2 DEF Dequeue, Families
  <2>4. /\ q.head \in [Queues -> Tasks \cup {NULL}]
        /\ q.next \in [Tasks -> Tasks \cup {NULL}]
        /\ q.prev \in [Tasks -> Tasks \cup {NULL}]
    BY DEF Families
  <2>5. hd[i] = r[1]
    BY <1>1, <2>1, <2>4
  <2>6. \A k \in 1 .. n - 2 : nx[r[k]] = r[k + 1]
    BY <1>1, <1>2, <2>1, <2>4
  <2>7. \A k \in 2 .. n - 1 : pv[r[k]] = r[k - 1]
    <3> SUFFICES ASSUME NEW k \in 2 .. n - 1 PROVE pv[r[k]] = r[k - 1]
      OBVIOUS
    <3>1. r[k] = s[k + 1] /\ r[k - 1] = s[k] /\ s[k + 1] # s[2] /\ s[k + 1] \in Tasks
      BY <1>1, <1>2, <2>1
    <3>2. q.prev[s[k + 1]] = s[k]
      BY <1>1, <1>2
    <3> QED BY <3>1, <3>2, <2>4
  <2>8. nx[r[n - 1]] = r[1] /\ pv[r[1]] = r[n - 1]
    BY <1>1, <2>1, <2>4
  <2>9. \A j, k \in 1 .. n - 1 : r[j] = r[k] => j = k
    BY <1>1, <1>2
  <2>10. r # << >> /\ Len(r) = n - 1
    BY <1>1, <1>5, <1>0, Zenon
  <2> HIDE DEF hd, nx, pv, r, n
  <2>11. /\ \A j, k \in 1 .. Len(r) : r[j] = r[k] => j = k
         /\ \A k \in 1 .. Len(r) - 1 : nx[r[k]] = r[k + 1]
         /\ \A k \in 2 .. Len(r) : pv[r[k]] = r[k - 1]
         /\ nx[r[Len(r)]] = r[1] /\ pv[r[1]] = r[Len(r)]
    BY <1>1, <2>6, <2>7, <2>8, <2>9, <2>10
  <2>12. Represents(Dequeue(q, i), i, r)
    BY <2>3, <2>5, <2>10, <2>11 DEF Represents
  <2> QED BY <1>1, <1>2, <2>12 DEF r
<1> QED BY <1>4, <1>5, <1>1

\* queue.h: REMOVE takes a task out of its queue, wherever it is, and leaves the others in
\* their order; r is the sequence without its m-th element.
THEOREM RemoveTakesOne ==
    ASSUME NEW Queues, NEW Tasks, NULL \notin Tasks,
           NEW q \in Families(Queues, Tasks), NEW i \in Queues,
           NEW s \in Seq(Tasks), Represents(q, i, s), NEW m \in 1 .. Len(s),
           NEW r \in Seq(Tasks), Len(r) = Len(s) - 1,
           \A k \in 1 .. Len(r) : r[k] = s[IF k < m THEN k ELSE k + 1]
    PROVE  Represents(Remove(q, i, s[m]), i, r)
<1> DEFINE n == Len(s)
<1>1. /\ n \in Nat \ {0} /\ m \in Nat /\ m >= 1 /\ m <= n
      /\ \A k \in 1 .. n : s[k] \in Tasks
  <2>1. Len(s) \in Nat
    BY LenProperties
  <2>2. \A k \in 1 .. Len(s) : s[k] \in Tasks
    BY ElementOfSeq
  <2> QED BY <2>1, <2>2
<1>6. /\ \A k \in 1 .. n - 1 : k < m => r[k] = s[k]
      /\ \A k \in 1 .. n - 1 : k >= m => r[k] = s[k + 1]
  <2>1. \A k \in 1 .. n - 1 : r[k] = s[IF k < m THEN k ELSE k + 1]
    OBVIOUS
  <2> HIDE DEF n
  <2> QED BY <2>1, <1>1
<1>0. r = << >> <=> n = 1
  <2>1. r = << >> <=> Len(r) = 0
    BY EmptyIffLenZero, Zenon
  <2>2. Len(r) = 0 <=> n = 1
    BY <1>1
  <2> HIDE DEF n
  <2> QED BY <2>1, <2>2, Zenon
<1>2. /\ q.head[i] = s[1]
      /\ \A j, k \in 1 .. n : s[j] = s[k] => j = k
      /\ \A k \in 1 .. n - 1 : q.next[s[k]] = s[k + 1]
      /\ \A k \in 2 .. n : q.prev[s[k]] = s[k - 1]
      /\ q.next[s[n]] = s[1]
      /\ q.prev[s[1]] = s[n]
  <2>1. s # << >>
    <3>1. Len(s) # 0
      BY <1>1
    <3> QED BY <3>1, EmptyIffLenZero, Zenon
  <2> QED BY <2>1 DEF Represents
<1>3. ~ IsEmpty(q, i)
  BY <1>1, <1>2 DEF IsEmpty
<1>4. CASE n = 1
  <2>1. HasOneElement(q, i)
    BY <1>2, <1>4 DEF HasOneElement
  <2>2. Remove(q, i, s[m]).head[i] = NULL
    BY <2>1, <1>3 DEF Remove, Families
  <2>3. r = << >>
    BY <1>4, <1>0, Zenon
  <2> QED BY <2>2, <2>3 DEF Represents
<1>5. CASE n # 1
  <2> DEFINE before == s[IF m = 1 THEN n ELSE m - 1]
             after == s[IF m = n THEN 1 ELSE m + 1]
             hd == [q.head EXCEPT ![i] = IF @ = s[m] THEN after ELSE @]
             nx == [q.next EXCEPT ![before] = after]
             pv == [q.prev EXCEPT ![after] = before]
  <2>1. /\ n >= 2 /\ q.prev[s[m]] = before /\ q.next[s[m]] = after
        /\ before \in Tasks /\ after \in Tasks /\ s[m] \in Tasks
    BY <1>1, <1>2, <1>5, SMTT(40)
  <2>12. /\ m # 1 => before = s[m - 1] /\ \A k \in 1 .. n : k # m - 1 => s[k] # before
         /\ m = 1 => before = s[n] /\ \A k \in 1 .. n : k # n => s[k] # before
         /\ m # n => after = s[m + 1] /\ \A k \in 1 .. n : k # m + 1 => s[k] # after
         /\ m = n => after = s[1] /\ \A k \in 1 .. n : k # 1 => s[k] # after
    BY <1>1, <1>2
  <2> HIDE DEF before, after, n
  <2>2. ~ HasOneElement(q, i)
    <3>1. q.next[s[1]] = s[2] /\ s[2] # s[1]
      BY <1>1, <1>2, <2>1
    <3> QED BY <3>1, <1>2 DEF HasOneElement
  <2>3. /\ q.head \in [Queues -> Tasks \cup {NULL}]
        /\ q.next \in [Tasks -> Tasks \cup {NULL}]
        /\ q.prev \in [Tasks -> Tasks \cup {NULL}]
    BY DEF Families
  <2>4. Remove(q, i, s[m]) = [head |-> hd, next |-> nx, prev |-> pv]
    <3> QED BY <1>3, <2>1, <2>2 DEF Remove, Families
  <2>5. hd[i] = r[1]
    BY <1>1, <1>2, <1>6, <2>1, <2>12, <2>3
  <2>6. \A k \in 1 .. n - 2 : nx[r[k]] = r[k + 1]
    <3> SUFFICES ASSUME NEW k \in 1 .. n - 2 PROVE nx[r[k]] = r[k + 1]
      OBVIOUS
    <3>1. CASE k < m - 1
      <4>1. r[k] = s[k] /\ r[k + 1] = s[k + 1] /\ s[k] # before /\ s[k] \in Tasks
        BY <1>1, <1>2, <1>6, <2>1, <2>12, <3>1, SMTT(40)
      <4> QED BY <4>1, <1>1, <1>2, <2>3, <3>1
    <3>2. CASE k = m - 1
      <4>1. r[k] = before /\ r[k + 1] = after
        BY <1>1, <1>6, <2>1, <2>12, <3>2
      <4> QED BY <4>1, <2>1, <2>3
    <3>3. CASE k > m - 1
      <4>1. k + 1 \in 1 .. n - 1 /\ k \in 1 .. n - 1 /\ (k + 1) + 1 = k + 2
        BY <1>1, <3>3
      <4>2. r[k] = s[k + 1] /\ r[k + 1] = s[k + 2] /\ q.next[s[k + 1]] = s[k + 2]
        BY <1>1, <1>2, <1>6, <3>3, <4>1
      <4>3. s[k + 1] # before /\ s[k + 1] \in Tasks
        BY <1>1, <2>12, <3>3, <4>1
      <4> QED BY <4>2, <4>3, <2>3
    <3> QED BY <1>1, <3>1, <3>2, <3>3
  <2>7. \A k \in 2 .. n - 1 : pv[r[k]] = r[k - 1]
    <3> SUFFICES ASSUME NEW k \in 2 .. n - 1 PROVE pv[r[k]] = r[k - 1]
      OBVIOUS
    <3>1. CASE k < m
      <4>1. /\ r[k] = s[k] /\ r[k - 1] = s[k - 1] /\ s[k] # after /\ s[k] \in Tasks
            /\ q.prev[s[k]] = s[k - 1]
        BY <1>1, <1>2, <1>6, <2>1, <2>12, <3>1
      <4> QED BY <4>1, <2>3
    <3>2. CASE k = m
      <4>1. r[k] = after /\ r[k - 1] = before
        BY <1>1, <1>6, <2>1, <2>12, <3>2
      <4> QED BY <4>1, <2>1, <2>3
    <3>3. CASE k > m
      <4>1. /\ r[k] = s[k + 1] /\ r[k - 1] = s[k] /\ s[k + 1] # after
            /\ s[k + 1] \in Tasks /\ q.prev[s[k + 1]] = s[k]
        BY <1>1, <1>2, <1>6, <2>1, <2>12, <3>3, SMTT(40)
      <4> QED BY <4>1, <2>3
    <3> QED BY <1>1, <3>1, <3>2, <3>3
  <2>8. nx[r[n - 1]] = r[1] /\ pv[r[1]] = r[n - 1]
    <3>1. CASE m = 1
      <4>1. r[n - 1] = before /\ r[1] = after
        BY <1>1, <1>6, <2>1, <2>12, <3>1
      <4> QED BY <4>1, <2>1, <2>3
    <3>2. CASE m = n
      <4>1. r[n - 1] = before /\ r[1] = after
        BY <1>1, <1>6, <2>1, <2>12, <3>2
      <4> QED BY <4>1, <2>1, <2>3
    <3>3. CASE m # 1 /\ m # n
      <4>1. /\ r[n - 1] = s[n] /\ r[1] = s[1] /\ s[n] # before /\ s[1] # after
            /\ s[1] \in Tasks /\ s[n] \in Tasks
        BY <1>1, <1>2, <1>6, <2>1, <2>12, <3>3
      <4> QED BY <4>1, <1>2, <2>3
    <3> QED BY <3>1, <3>2, <3>3
  <2>9. \A j, k \in 1 .. n - 1 : r[j] = r[k] => j = k
    <3> SUFFICES ASSUME NEW j \in 1 .. n - 1, NEW k \in 1 .. n - 1, r[j] = r[k]
                 PROVE  j = k
      OBVIOUS
    <3>1. j \in 1 .. n /\ j + 1 \in 1 .. n /\ k \in 1 .. n /\ k + 1 \in 1 .. n
      BY <1>1
    <3>2. PICK x \in {j, j + 1} : r[j] = s[x] /\ (j < m <=> x = j) /\ (j >= m <=> x = j + 1)
      BY <1>1, <1>6
    <3>3. PICK y \in {k, k + 1} : r[k] = s[y] /\ (k < m <=> y = k) /\ (k >= m <=> y = k + 1)
      BY <1>1, <1>6
    <3>4. x \in 1 .. n /\ y \in 1 .. n /\ s[x] = s[y]
      BY <3>1, <3>2, <3>3
    <3>5. x = y
      BY <1>2, <3>4
    <3> QED BY <1>1, <3>2, <3>3, <3>5
  <2>10. r # << >> /\ Len(r) = n - 1
    BY <1>5, <1>0, Zenon DEF n
  <2> HIDE DEF hd, nx, pv
  <2>11. /\ \A j, k \in 1 .. Len(r) : r[j] = r[k] => j = k
         /\ \A k \in 1 .. Len(r) - 1 : nx[r[k]] = r[k + 1]
         /\ \A k \in 2 .. Len(r) : pv[r[k]] = r[k - 1]
         /\ nx[r[Len(r)]] = r[1] /\ pv[r[1]] = r[Len(r)]
    BY <1>1, <2>6, <2>7, <2>8, <2>9, <2>10
  <2> QED BY <2>4, <2>5, <2>10, <2>11 DEF Represents
<1> QED BY <1>4, <1>5

----------------------------------------------------------------------------
(***************************************************************************)
(* Several queues that share the links inside the tasks, as the ready      *)
(* queues of all priorities do and the send queues of all tasks: when no   *)
(* task is on two of them, what queue.h does to one of them leaves the     *)
(* others as they are.                                                     *)
(***************************************************************************)

\* Task t is on queue i when the queues are the sequences u.
On(u, i, t) == \E k \in 1 .. Len(u[i]) : u[i][k] = t

\* The sequences when task t has joined queue i; when the first has left queue i; when
\* the m-th has left it.
Joined(u, i, t) == [u EXCEPT ![i] = Append(u[i], t)]
Served(u, i) == [u EXCEPT ![i] = Tail(u[i])]
Without(u, i, m) ==
    [u EXCEPT ![i] = [k \in 1 .. Len(u[i]) - 1 |-> u[i][IF k < m THEN k ELSE k + 1]]]

\* v is u and task t on queue i; v is u without task t.
Gains(u, v, Queues, Tasks, i, t) ==
    \A j \in Queues, x \in Tasks : On(v, j, x) <=> On(u, j, x) \/ (j = i /\ x = t)
Loses(u, v, Queues, Tasks, t) ==
    \A j \in Queues, x \in Tasks : On(v, j, x) <=> On(u, j, x) /\ x # t

\* The family q of queues is, as a whole, the sequences u, and no task is on two.
Holds(q, Queues, Tasks, u) ==
    /\ q \in Families(Queues, Tasks)
    /\ u \in [Queues -> Seq(Tasks)]
    /\ \A i \in Queues : Represents(q, i, u[i])
    /\ \A i, j \in Queues : \A t \in Tasks : On(u, i, t) /\ On(u, j, t) => i = j

----------------------------------------------------------------------------
\* What a queue represents depends on its head and the links of its members only.
LEMMA RepresentsFrame ==
    ASSUME NEW Tasks, NEW s \in Seq(Tasks), NEW q, NEW r, NEW i,
           Represents(q, i, s), r.head[i] = q.head[i],
           \A k \in 1 .. Len(s) : r.next[s[k]] = q.next[s[k]] /\ r.prev[s[k]] = q.prev[s[k]]
    PROVE  Represents(r, i, s)
<1>1. CASE s = << >>
  BY <1>1 DEF Represents
<1>2. CASE s # << >>
  <2>1. Len(s) \in Nat /\ Len(s) >= 1
    BY <1>2, EmptyIffLenZero, LenProperties
  <2> QED BY <1>2, <2>1 DEF Represents
<1> QED BY <1>1, <1>2

\* A queue is empty exactly when the sequence is, and its head is the first element;
\* its members are linked to members.
LEMMA RingFacts ==
    ASSUME NEW Queues, NEW Tasks, NULL \notin Tasks, NEW q \in Families(Queues, Tasks),
           NEW i \in Queues, NEW s \in Seq(Tasks), Represents(q, i, s)
    PROVE  /\ Len(s) \in Nat /\ \A k \in 1 .. Len(s) : s[k] \in Tasks
           /\ IsEmpty(q, i) <=> s = << >>
           /\ s = << >> <=> Len(s) = 0
           /\ s # << >> => q.head[i] = s[1] /\ q.prev[s[1]] = s[Len(s)]
<1>1. Len(s) \in Nat /\ \A k \in 1 .. Len(s) : s[k] \in Tasks
  BY LenProperties, ElementOfSeq
<1>2. s = << >> <=> Len(s) = 0
  BY EmptyIffLenZero
<1> QED BY <1>1, <1>2 DEF Represents, IsEmpty

----------------------------------------------------------------------------
\* ENQUEUE on one queue of a family: the task joins that queue behind the others, and
\* nothing else changes.
THEOREM EnqueueInFamily ==
    ASSUME NEW Queues, NEW Tasks, NULL \notin Tasks, NEW q, NEW u,
           Holds(q, Queues, Tasks, u), NEW i \in Queues, NEW t \in Tasks,
           \A j \in Queues : ~ On(u, j, t)
    PROVE  /\ Holds(Enqueue(q, i, t), Queues, Tasks, Joined(u, i, t))
           /\ Gains(u, Joined(u, i, t), Queues, Tasks, i, t)
<1> DEFINE v == Joined(u, i, t)
           e == Enqueue(q, i, t)
           s == u[i]
<1>1. /\ q \in Families(Queues, Tasks) /\ u \in [Queues -> Seq(Tasks)]
      /\ \A j \in Queues : u[j] \in Seq(Tasks) /\ Represents(q, j, u[j])
      /\ \A j, k \in Queues : \A x \in Tasks : On(u, j, x) /\ On(u, k, x) => j = k
  BY DEF Holds
<1>2. /\ Len(s) \in Nat /\ \A k \in 1 .. Len(s) : s[k] \in Tasks
      /\ IsEmpty(q, i) <=> s = << >>
      /\ s = << >> <=> Len(s) = 0
      /\ s # << >> => q.head[i] = s[1] /\ q.prev[s[1]] = s[Len(s)]
  BY <1>1, RingFacts
<1>3. /\ e \in Families(Queues, Tasks) /\ \A j \in Queues \ {i} : e.head[j] = q.head[j]
  BY <1>1, EnqueueFacts
<1>4. \A x \in Tasks : x # t /\ ~ On(u, i, x) => e.next[x] = q.next[x] /\ e.prev[x] = q.prev[x]
  <2> SUFFICES ASSUME NEW x \in Tasks, x # t, ~ On(u, i, x)
               PROVE  e.next[x] = q.next[x] /\ e.prev[x] = q.prev[x]
    OBVIOUS
  <2>1. CASE s = << >>
    BY <1>1, <1>2, <2>1 DEF Enqueue, Families
  <2>2. CASE s # << >>
    <3>1. Len(s) >= 1 /\ s[1] # x /\ s[Len(s)] # x
      BY <1>2, <2>2 DEF On
    <3> QED BY <1>1, <1>2, <2>2, <3>1 DEF Enqueue, Families
  <2> QED BY <2>1, <2>2
<1>5. Append(s, t) \in Seq(Tasks) /\ Len(Append(s, t)) = Len(s) + 1
      /\ Append(s, t)[Len(s) + 1] = t
      /\ \A k \in 1 .. Len(s) : Append(s, t)[k] = s[k]
  BY <1>1, AppendProperties
<1>6. v \in [Queues -> Seq(Tasks)] /\ v[i] = Append(s, t) /\ \A j \in Queues \ {i} : v[j] = u[j]
  BY <1>1, <1>5 DEF Joined
<1> HIDE DEF e, v
<1>7. Represents(e, i, v[i])
  <2>1. \A k \in 1 .. Len(s) : s[k] # t
    BY DEF On
  <2>2. Represents(q, i, s) /\ s \in Seq(Tasks)
    BY <1>1
  <2> HIDE DEF s
  <2>3. Represents(Enqueue(q, i, t), i, Append(s, t))
    BY <1>1, <2>1, <2>2, EnqueueAppends
  <2> QED BY <1>6, <2>3 DEF e
<1>8. ASSUME NEW j \in Queues \ {i} PROVE Represents(e, j, v[j])
  <2>1. \A k \in 1 .. Len(u[j]) : u[j][k] \in Tasks /\ u[j][k] # t /\ ~ On(u, i, u[j][k])
    <3> TAKE k \in 1 .. Len(u[j])
    <3>1. u[j][k] \in Tasks
      BY <1>1, ElementOfSeq
    <3> QED BY <1>1, <3>1 DEF On
  <2>2. \A k \in 1 .. Len(u[j]) :
           e.next[u[j][k]] = q.next[u[j][k]] /\ e.prev[u[j][k]] = q.prev[u[j][k]]
    BY <1>4, <2>1
  <2>3. Represents(e, j, u[j])
    BY <1>1, <1>3, <2>2, RepresentsFrame
  <2> QED BY <1>6, <2>3
<1>9. \A j \in Queues, x \in Tasks : On(v, j, x) <=> On(u, j, x) \/ (j = i /\ x = t)
  <2> SUFFICES ASSUME NEW j \in Queues, NEW x \in Tasks
               PROVE  On(v, j, x) <=> On(u, j, x) \/ (j = i /\ x = t)
    OBVIOUS
  <2>1. CASE j # i
    BY <1>6, <2>1 DEF On
  <2>2. CASE j = i
    <3>1. On(v, i, x) <=> \E k \in 1 .. Len(s) + 1 : Append(s, t)[k] = x
      BY <1>5, <1>6 DEF On
    <3>2. (\E k \in 1 .. Len(s) + 1 : Append(s, t)[k] = x) <=> (On(u, i, x) \/ x = t)
      BY <1>2, <1>5 DEF On
    <3> QED BY <2>2, <3>1, <3>2
  <2> QED BY <2>1, <2>2
<1>10. \A j, k \in Queues : \A x \in Tasks : On(v, j, x) /\ On(v, k, x) => j = k
  BY <1>1, <1>9
<1>11. Holds(e, Queues, Tasks, v)
  BY <1>3, <1>6, <1>7, <1>8, <1>10 DEF Holds
<1> QED BY <1>9, <1>11 DEF e, v, Gains

\* DEQUEUE on one queue of a family: its head leaves it, and nothing else changes.
THEOREM DequeueInFamily ==
    ASSUME NEW Queues, NEW Tasks, NULL \notin Tasks, NEW q, NEW u,
           Holds(q, Queues, Tasks, u), NEW i \in Queues, u[i] # << >>
    PROVE  /\ q.head[i] = Head(u[i]) /\ q.head[i] \in Tasks /\ On(u, i, q.head[i])
           /\ Holds(Dequeue(q, i), Queues, Tasks, Served(u, i))
           /\ Loses(u, Served(u, i), Queues, Tasks, q.head[i])
<1> DEFINE e == Dequeue(q, i)
           v == Served(u, i)
           s == u[i]
           n == Len(s)
           r == Tail(s)
           t == q.head[i]
<1>1. /\ q \in Families(Queues, Tasks) /\ u \in [Queues -> Seq(Tasks)]
      /\ \A j \in Queues : u[j] \in Seq(Tasks) /\ Represents(q, j, u[j])
      /\ \A j, k \in Queues : \A x \in Tasks : On(u, j, x) /\ On(u, k, x) => j = k
  BY DEF Holds
<1>2. /\ n \in Nat /\ n >= 1 /\ \A k \in 1 .. n : s[k] \in Tasks
      /\ ~ IsEmpty(q, i) /\ t = s[1] /\ q.prev[s[1]] = s[n] /\ Head(s) = s[1]
  BY <1>1, RingFacts, HeadTailProperties
<1>3. /\ e \in Families(Queues, Tasks) /\ \A j \in Queues \ {i} : e.head[j] = q.head[j]
  BY <1>1, DequeueFacts
<1>4. \A x \in Tasks : ~ On(u, i, x) => e.next[x] = q.next[x] /\ e.prev[x] = q.prev[x]
  <2> SUFFICES ASSUME NEW x \in Tasks, ~ On(u, i, x)
               PROVE  e.next[x] = q.next[x] /\ e.prev[x] = q.prev[x]
    OBVIOUS
  <2>1. CASE HasOneElement(q, i)
    BY <1>1, <1>2, <2>1 DEF Dequeue, Families
  <2>2. CASE ~ HasOneElement(q, i)
    <3>1. n # 1
      BY <1>1, <1>2, <2>2 DEF Represents, HasOneElement
    <3>4. 1 \in 1 .. n - 1 /\ 1 + 1 = 2 /\ 2 \in 1 .. n /\ n \in 1 .. n
      <4> HIDE DEF n
      <4> QED BY <1>2, <3>1
    <3>2. q.next[s[1]] = s[2] /\ s[2] \in Tasks
      <4>1. \A k \in 1 .. n - 1 : q.next[s[k]] = s[k + 1]
        BY <1>1 DEF Represents
      <4>2. q.next[s[1]] = s[1 + 1]
        BY <3>4, <4>1
      <4> QED BY <1>2, <3>4, <4>2
    <3>3. s[2] # x /\ s[n] # x
      BY <3>4 DEF On
    <3> QED BY <1>1, <1>2, <2>2, <3>2, <3>3 DEF Dequeue, Families
  <2> QED BY <2>1, <2>2
<1>5. r \in Seq(Tasks) /\ Len(r) = n - 1 /\ \A k \in 1 .. n - 1 : r[k] = s[k + 1]
  BY <1>1, <1>2, HeadTailProperties
<1>6. v \in [Queues -> Seq(Tasks)] /\ v[i] = r /\ \A j \in Queues \ {i} : v[j] = u[j]
  BY <1>1, <1>5 DEF Served
<1>7. Represents(e, i, r)
  BY <1>1, DequeueTakesFirst
<1>8. \A j, k \in 1 .. n : s[j] = s[k] => j = k
  BY <1>1 DEF Represents
<1>9. On(u, i, t)
  BY <1>2 DEF On
<1> HIDE DEF e, r, n, t, v
<1>10. ASSUME NEW j \in Queues \ {i} PROVE Represents(e, j, v[j])
  <2>1. \A k \in 1 .. Len(u[j]) : u[j][k] \in Tasks /\ ~ On(u, i, u[j][k])
    <3> TAKE k \in 1 .. Len(u[j])
    <3>1. u[j][k] \in Tasks
      BY <1>1, ElementOfSeq
    <3> QED BY <1>1, <3>1 DEF On
  <2>2. \A k \in 1 .. Len(u[j]) :
           e.next[u[j][k]] = q.next[u[j][k]] /\ e.prev[u[j][k]] = q.prev[u[j][k]]
    BY <1>4, <2>1
  <2>3. Represents(e, j, u[j])
    BY <1>1, <1>3, <2>2, RepresentsFrame
  <2> QED BY <1>6, <2>3
<1>11. \A j \in Queues, x \in Tasks : On(v, j, x) <=> On(u, j, x) /\ x # t
  <2> SUFFICES ASSUME NEW j \in Queues, NEW x \in Tasks
               PROVE  On(v, j, x) <=> On(u, j, x) /\ x # t
    OBVIOUS
  <2>1. CASE j # i
    <3>1. On(v, j, x) <=> On(u, j, x)
      BY <1>6, <2>1 DEF On
    <3>2. On(u, j, x) => x # t
      BY <1>1, <1>9, <2>1
    <3> QED BY <3>1, <3>2
  <2>2. CASE j = i
    <3>1. On(v, i, x) <=> \E k \in 1 .. n - 1 : s[k + 1] = x
      <4>1. On(v, i, x) <=> \E k \in 1 .. n - 1 : r[k] = x
        BY <1>5, <1>6, Zenon DEF On
      <4> QED BY <1>5, <4>1
    <3>2. On(u, i, x) <=> \E k \in 1 .. n : s[k] = x
      BY DEF On, n
    <3>3. ASSUME NEW k \in 1 .. n, s[k] = x, x # t
          PROVE  \E l \in 1 .. n - 1 : s[l + 1] = x
      <4>1. k # 1 /\ k - 1 \in 1 .. n - 1 /\ (k - 1) + 1 = k
        BY <1>2, <3>3
      <4> QED BY <3>3, <4>1
    <3>4. ASSUME NEW k \in 1 .. n - 1, s[k + 1] = x
          PROVE  x # t /\ \E l \in 1 .. n : s[l] = x
      <4>1. k + 1 \in 1 .. n /\ k + 1 # 1 /\ 1 \in 1 .. n
        BY <1>2
      <4> QED BY <1>2, <1>8, <3>4, <4>1
    <3> QED BY <2>2, <3>1, <3>2, <3>3, <3>4
  <2> QED BY <2>1, <2>2
<1>12. \A j, k \in Queues : \A x \in Tasks : On(v, j, x) /\ On(v, k, x) => j = k
  BY <1>1, <1>11
<1>13. Holds(e, Queues, Tasks, v)
  BY <1>3, <1>6, <1>7, <1>10, <1>12 DEF Holds
<1>14. t = Head(s) /\ t \in Tasks
  BY <1>2
<1> QED BY <1>9, <1>11, <1>13, <1>14 DEF e, t, v, Loses

\* REMOVE of a task from the queue it is on: that queue loses it and keeps its order,
\* and nothing else changes.
THEOREM RemoveInFamily ==
    ASSUME NEW Queues, NEW Tasks, NULL \notin Tasks, NEW q, NEW u,
           Holds(q, Queues, Tasks, u), NEW i \in Queues, NEW m \in 1 .. Len(u[i])
    PROVE  /\ Holds(Remove(q, i, u[i][m]), Queues, Tasks, Without(u, i, m))
           /\ Loses(u, Without(u, i, m), Queues, Tasks, u[i][m])
<1> DEFINE s == u[i]
           n == Len(s)
           v == Without(u, i, m)
           r == [k \in 1 .. n - 1 |-> s[IF k < m THEN k ELSE k + 1]]
           t == s[m]
           e == Remove(q, i, t)
<1>1. /\ q \in Families(Queues, Tasks) /\ u \in [Queues -> Seq(Tasks)]
      /\ \A j \in Queues : u[j] \in Seq(Tasks) /\ Represents(q, j, u[j])
      /\ \A j, k \in Queues : \A x \in Tasks : On(u, j, x) /\ On(u, k, x) => j = k
  BY DEF Holds
<1>2. /\ n \in Nat /\ n >= 1 /\ \A k \in 1 .. n : s[k] \in Tasks
      /\ ~ IsEmpty(q, i) /\ q.head[i] = s[1] /\ t \in Tasks /\ s # << >>
      /\ m \in Nat /\ m >= 1 /\ m <= n
  BY <1>1, RingFacts
<1>3. /\ e \in Families(Queues, Tasks) /\ \A j \in Queues \ {i} : e.head[j] = q.head[j]
  BY <1>1, <1>2, RemoveFacts
<1>8. /\ \A j, k \in 1 .. n : s[j] = s[k] => j = k
      /\ \A k \in 1 .. n - 1 : q.next[s[k]] = s[k + 1]
      /\ \A k \in 2 .. n : q.prev[s[k]] = s[k - 1]
      /\ q.next[s[n]] = s[1] /\ q.prev[s[1]] = s[n]
  BY <1>1, <1>2 DEF Represents
<1>4. \A x \in Tasks : ~ On(u, i, x) => e.next[x] = q.next[x] /\ e.prev[x] = q.prev[x]
  <2> SUFFICES ASSUME NEW x \in Tasks, ~ On(u, i, x)
               PROVE  e.next[x] = q.next[x] /\ e.prev[x] = q.prev[x]
    OBVIOUS
  <2>1. CASE HasOneElement(q, i)
    BY <1>1, <1>2, <2>1 DEF Remove, Families
  <2>2. CASE ~ HasOneElement(q, i)
    <3>1. \E j \in 1 .. n : q.next[t] = s[j]
      <4>1. CASE m = n
        <5>1. 1 \in 1 .. n
          BY <1>2
        <5> QED BY <1>8, <4>1, <5>1
      <4>2. CASE m # n
        <5>1. m \in 1 .. n - 1 /\ m + 1 \in 1 .. n
          BY <1>2, <4>2
        <5> QED BY <1>8, <5>1
      <4> QED BY <4>1, <4>2
    <3>2. \E j \in 1 .. n : q.prev[t] = s[j]
      <4>1. CASE m = 1
        BY <1>2, <1>8, <4>1
      <4>2. CASE m # 1
        BY <1>2, <1>8, <4>2
      <4> QED BY <4>1, <4>2
    <3>3. q.next[t] \in Tasks /\ q.next[t] # x /\ q.prev[t] \in Tasks /\ q.prev[t] # x
      BY <1>2, <3>1, <3>2 DEF On
    <3> QED BY <1>1, <1>2, <2>2, <3>3 DEF Remove, Families
  <2> QED BY <2>1, <2>2
<1>5. r \in Seq(Tasks) /\ Len(r) = n - 1
  <2>1. \A k \in 1 .. n - 1 : s[IF k < m THEN k ELSE k + 1] \in Tasks
    BY <1>2
  <2>2. r \in [1 .. n - 1 -> Tasks] /\ n - 1 \in Nat
    BY <1>2, <2>1
  <2>3. r \in Seq(Tasks)
    BY <2>2, IsASeq
  <2>4. DOMAIN r = 1 .. n - 1
    OBVIOUS
  <2> HIDE DEF r, n
  <2> QED BY <2>2, <2>3, <2>4, LenProperties
<1>6. v \in [Queues -> Seq(Tasks)] /\ v[i] = r /\ \A j \in Queues \ {i} : v[j] = u[j]
  BY <1>1, <1>5 DEF Without
<1>14. \A k \in 1 .. n - 1 : r[k] = s[IF k < m THEN k ELSE k + 1]
  OBVIOUS
<1>9. On(u, i, t)
  BY <1>2 DEF On
<1> HIDE DEF e, r, v
<1>7. Represents(e, i, r)
  BY <1>1, <1>5, <1>14, RemoveTakesOne DEF e
<1> HIDE DEF n, t
<1>10. ASSUME NEW j \in Queues \ {i} PROVE Represents(e, j, v[j])
  <2>1. \A k \in 1 .. Len(u[j]) : u[j][k] \in Tasks /\ ~ On(u, i, u[j][k])
    <3> TAKE k \in 1 .. Len(u[j])
    <3>1. u[j][k] \in Tasks
      BY <1>1, ElementOfSeq
    <3> QED BY <1>1, <3>1 DEF On
  <2>2. \A k \in 1 .. Len(u[j]) :
           e.next[u[j][k]] = q.next[u[j][k]] /\ e.prev[u[j][k]] = q.prev[u[j][k]]
    BY <1>4, <2>1
  <2>3. Represents(e, j, u[j])
    BY <1>1, <1>3, <2>2, RepresentsFrame
  <2> QED BY <1>6, <2>3
<1>11. \A j \in Queues, x \in Tasks : On(v, j, x) <=> On(u, j, x) /\ x # t
  <2> SUFFICES ASSUME NEW j \in Queues, NEW x \in Tasks
               PROVE  On(v, j, x) <=> On(u, j, x) /\ x # t
    OBVIOUS
  <2>1. CASE j # i
    <3>1. On(v, j, x) <=> On(u, j, x)
      BY <1>6, <2>1 DEF On
    <3>2. On(u, j, x) => x # t
      BY <1>1, <1>9, <2>1
    <3> QED BY <3>1, <3>2
  <2>2. CASE j = i
    <3>1. On(v, i, x) <=> \E k \in 1 .. n - 1 : r[k] = x
      BY <1>5, <1>6 DEF On
    <3>2. On(u, i, x) <=> \E k \in 1 .. n : s[k] = x
      BY DEF On, n
    <3>3. ASSUME NEW k \in 1 .. n, s[k] = x, x # t
          PROVE  \E l \in 1 .. n - 1 : r[l] = x
      <4>1. k # m
        BY <3>3 DEF t
      <4>2. CASE k < m
        BY <1>2, <1>14, <3>3, <4>2
      <4>3. CASE k > m
        <5>1. k - 1 \in 1 .. n - 1 /\ ~ (k - 1 < m) /\ (k - 1) + 1 = k
          BY <1>2, <4>3
        <5> QED BY <1>14, <3>3, <5>1
      <4> QED BY <1>2, <4>1, <4>2, <4>3
    <3>4. ASSUME NEW k \in 1 .. n - 1, r[k] = x
          PROVE  x # t /\ \E l \in 1 .. n : s[l] = x
      <4>1. PICK l \in 1 .. n : l # m /\ s[l] = x
        <5>1. CASE k < m
          <6>1. k \in 1 .. n /\ k # m
            BY <1>2, <5>1
          <6> QED BY <1>14, <3>4, <5>1, <6>1
        <5>2. CASE ~ (k < m)
          <6>1. k + 1 \in 1 .. n /\ k + 1 # m
            BY <1>2, <5>2
          <6> QED BY <1>14, <3>4, <5>2, <6>1
        <5> QED BY <5>1, <5>2
      <4> QED BY <1>2, <1>8, <4>1 DEF t
    <3> QED BY <2>2, <3>1, <3>2, <3>3, <3>4
  <2> QED BY <2>1, <2>2
<1>12. \A j, k \in Queues : \A x \in Tasks : On(v, j, x) /\ On(v, k, x) => j = k
  BY <1>1, <1>11
<1>13. Holds(e, Queues, Tasks, v)
  BY <1>3, <1>6, <1>7, <1>10, <1>12 DEF Holds
<1> QED BY <1>11, <1>13 DEF e, n, t, v, Loses

----------------------------------------------------------------------------
\* Walking the queue from its head along next finds the sequence it represents.
THEOREM ContentsAre ==
    ASSUME NEW Queues, NEW Tasks, NULL \notin Tasks, NEW q \in Families(Queues, Tasks),
           NEW i \in Queues, NEW s \in Seq(Tasks), Represents(q, i, s),
           NEW bound \in Nat, Len(s) <= bound
    PROVE  Contents(q, i, bound) = s
<1> DEFINE n == Len(s)
           Walk(f) == f = [k \in 1 .. bound |-> IF k = 1 THEN q.head[i] ELSE q.next[f[k - 1]]]
           met == CHOOSE f : Walk(f)
           ends(k) == k = bound \/ q.next[met[k]] \in {q.head[i], NULL}
           last == CHOOSE k \in 1 .. bound : ends(k) /\ \A j \in 1 .. k - 1 : ~ ends(j)
<1>1. Contents(q, i, bound) = IF IsEmpty(q, i) THEN << >> ELSE [k \in 1 .. last |-> met[k]]
  BY DEF Contents
<1>2. /\ n \in Nat /\ \A k \in 1 .. n : s[k] \in Tasks
      /\ IsEmpty(q, i) <=> s = << >>
      /\ s = << >> <=> n = 0
      /\ s # << >> => q.head[i] = s[1]
  BY RingFacts
<1>3. CASE s = << >>
  BY <1>1, <1>2, <1>3
<1>4. CASE s # << >>
  <2>1. /\ \A j, k \in 1 .. n : s[j] = s[k] => j = k
        /\ \A k \in 1 .. n - 1 : q.next[s[k]] = s[k + 1]
        /\ q.next[s[n]] = s[1]
    BY <1>4 DEF Represents
  <2>2. n >= 1 /\ n \in Nat \ {0} /\ n <= bound
    BY <1>2, <1>4
  <2> HIDE DEF n
  <2>3. \E f : Walk(f)
    <3> DEFINE at(k) == ((k - 1) % n) + 1
               g == [k \in 1 .. bound |-> s[at(k)]]
    <3>1. at(1) = 1
      BY <2>2
    <3>2. ASSUME NEW k \in 1 .. bound, k # 1
          PROVE  k - 1 \in 1 .. bound /\ s[at(k)] = q.next[s[at(k - 1)]]
      <4>1. k - 2 \in Nat /\ (k - 2) + 1 = k - 1 /\ (k - 1) - 1 = k - 2 /\ k - 1 \in 1 .. bound
        BY <3>2
      <4> DEFINE r == (k - 2) % n
      <4>2. r \in 0 .. n - 1 /\ (k - 1) % n = IF r = n - 1 THEN 0 ELSE r + 1
        BY <2>2, <4>1, DivModSum, ModStep
      <4>3. at(k - 1) = r + 1
        BY <4>1
      <4> HIDE DEF r
      <4>4. CASE r = n - 1
        <5>1. at(k) = 1 /\ at(k - 1) = n
          BY <2>2, <4>2, <4>3, <4>4
        <5> QED BY <2>1, <4>1, <5>1
      <4>5. CASE r # n - 1
        <5>1. at(k) = (r + 1) + 1 /\ r + 1 \in 1 .. n - 1
          BY <2>2, <4>2, <4>5
        <5> HIDE DEF at
        <5> QED BY <2>1, <4>1, <4>3, <5>1
      <4> QED BY <4>4, <4>5
    <3> HIDE DEF at
    <3>3. g = [k \in 1 .. bound |-> IF k = 1 THEN q.head[i] ELSE q.next[g[k - 1]]]
      BY <1>2, <1>4, <3>1, <3>2
    <3> QED BY <3>3
  <2>4. met = [k \in 1 .. bound |-> IF k = 1 THEN q.head[i] ELSE q.next[met[k - 1]]]
    BY <2>3
  <2> HIDE DEF met
  <2>5. \A k \in 1 .. n : met[k] = s[k]
    <3> DEFINE T == {k \in 1 .. n : met[k] # s[k]}
    <3> SUFFICES ASSUME T # {} PROVE FALSE
      OBVIOUS
    <3>1. T \subseteq Nat
      OBVIOUS
    <3>2. PICK k \in T : \A l \in T : k <= l
      BY <3>1, LeastElement, Zenon
    <3>3. k # 1
      BY <1>2, <1>4, <2>2, <2>4
    <3>4. k - 1 \in 1 .. n /\ ~ (k <= k - 1) /\ k \in 1 .. bound /\ k - 1 \in 1 .. n - 1
          /\ (k - 1) + 1 = k
      BY <2>2, <3>3
    <3>5. met[k - 1] = s[k - 1]
      BY <3>2, <3>4
    <3>6. q.next[s[k - 1]] = s[k]
      <4>1. q.next[s[k - 1]] = s[(k - 1) + 1]
        BY <2>1, <3>4
      <4> QED BY <3>4, <4>1
    <3>7. met[k] = s[k]
      BY <2>4, <3>3, <3>4, <3>5, <3>6
    <3> QED BY <3>7
  <2>6. ends(n)
    BY <1>2, <1>4, <2>1, <2>2, <2>5
  <2>7. \A k \in 1 .. n - 1 : ~ ends(k)
    <3> SUFFICES ASSUME NEW k \in 1 .. n - 1 PROVE ~ ends(k)
      OBVIOUS
    <3>1. k \in 1 .. n /\ k + 1 \in 1 .. n /\ 1 \in 1 .. n /\ k + 1 # 1 /\ k # bound
      BY <2>2
    <3>2. q.next[met[k]] = s[k + 1] /\ s[k + 1] # s[1] /\ s[k + 1] # NULL
      BY <1>2, <2>1, <2>5, <3>1
    <3> QED BY <1>2, <1>4, <3>1, <3>2
  <2> HIDE DEF ends
  <2>8. last = n
    <3>1. n \in 1 .. bound /\ ends(n) /\ \A j \in 1 .. n - 1 : ~ ends(j)
      BY <2>2, <2>6, <2>7
    <3>2. ASSUME NEW k \in 1 .. bound, ends(k), \A j \in 1 .. k - 1 : ~ ends(j)
          PROVE  k = n
      <4>1. ~ (k < n)
        BY <2>2, <2>7, <3>2
      <4>2. ~ (n < k)
        BY <2>2, <2>6, <3>2
      <4> QED BY <2>2, <4>1, <4>2
    <3> QED BY <3>1, <3>2
  <2>9. Contents(q, i, bound) = [k \in 1 .. n |-> s[k]]
    BY <1>1, <1>2, <1>4, <2>5, <2>8
  <2>10. s = [k \in 1 .. n |-> s[k]]
    BY LenProperties DEF n
  <2> QED BY <2>9, <2>10
<1> QED BY <1>3, <1>4

\* A queue is no longer than there are tasks.
LEMMA QueueLengthBound ==
    ASSUME NEW Tasks, IsFiniteSet(Tasks), NEW s \in Seq(Tasks),
           \A j, k \in 1 .. Len(s) : s[j] = s[k] => j = k
    PROVE  Len(s) <= Cardinality(Tasks)
<1>1. Len(s) \in Nat /\ s \in [1 .. Len(s) -> Tasks]
  BY LenProperties
<1>2. s \in Injection(1 .. Len(s), Tasks)
  BY <1>1 DEF Injection, IsInjective
<1>3. Cardinality(1 .. Len(s)) <= Cardinality(Tasks)
  BY <1>2, FS_Injection
<1>4. Cardinality(1 .. Len(s)) = Len(s)
  BY <1>1, FS_Interval
<1> QED BY <1>3, <1>4

=============================================================================
