----------------------------- MODULE ClockProofs -----------------------------
(***************************************************************************)
(* The clock server, for any number of clients, whatever they ask for.     *)
(*                                                                         *)
(* It counts every timer interrupt, because the notifier has one report on *)
(* its way at most, and none while it waits for the interrupt.             *)
(*                                                                         *)
(* Its queue is a heap: an element added is in it with the others, and the *)
(* one taken off is a smallest (EnqueueAdds, DequeueTakesLeast).  So the   *)
(* queue holds one record of every client that waits, first the one whose  *)
(* time is first, and every record is of a client that waits or is dead    *)
(* for good (ServerInv).  From this follow that no Assert fails and that   *)
(* the server does what DelayService promises.                             *)
(***************************************************************************)
EXTENDS ClockServer, SequenceTheorems, FiniteSetTheorems, TLAPS

Numbers == INSTANCE RingTheorems WITH Size <- 1, CountMod <- 1, Unset <- 0

Client == [slot : Slots, generation : Nat]

Message ==
    [type : {"MESSAGE_NOTIFIER"}, tid : {NOTIFIER}, arg : {0}]
        \cup [type : {"MESSAGE_TIME", "MESSAGE_DELAY", "MESSAGE_DELAY_UNTIL"},
              tid : Client, arg : Int]

CountTypes ==
    /\ now \in Nat /\ ticks \in Int
    /\ notifier \in {"awaiting", "woken", "sent"}
    /\ inbox \in Seq(Message)
    /\ generation \in [Slots -> Nat]

IsReport(m) == m.type = "MESSAGE_NOTIFIER"

OneReport ==
    /\ \A i, j \in DOMAIN inbox : IsReport(inbox[i]) /\ IsReport(inbox[j]) => i = j
    /\ notifier # "sent" => \A i \in DOMAIN inbox : ~ IsReport(inbox[i])

CountInv == CountTypes /\ OneReport /\ NoTickLost

----------------------------------------------------------------------------
(* A message that arrives, and one that is received. *)

LEMMA Arrives ==
    ASSUME NEW S, NEW s \in Seq(S), NEW m \in S
    PROVE  /\ Append(s, m) \in Seq(S)
           /\ \A i \in DOMAIN Append(s, m) :
                 Append(s, m)[i] = IF i = Len(s) + 1 THEN m ELSE s[i]
           /\ \A i \in DOMAIN Append(s, m) : i # Len(s) + 1 => i \in DOMAIN s
OBVIOUS

LEMMA Leaves ==
    ASSUME NEW S, NEW s \in Seq(S), s # << >>
    PROVE  /\ Tail(s) \in Seq(S)
           /\ Head(s) = s[1] /\ 1 \in DOMAIN s
           /\ \A i \in DOMAIN Tail(s) :
                 i + 1 \in DOMAIN s /\ i + 1 # 1 /\ Tail(s)[i] = s[i + 1]
OBVIOUS

\* A client's message is no report, so it does not matter when it comes or goes.
LEMMA AsksKeep ==
    ASSUME CountInv, NEW s \in Slots, NEW arg \in Int,
           NEW type \in {"MESSAGE_TIME", "MESSAGE_DELAY", "MESSAGE_DELAY_UNTIL"},
           Asks(s, type, arg)
    PROVE  CountInv'
<1> DEFINE m == [type |-> type, tid |-> Tid(s), arg |-> arg]
<1>1. m \in Message /\ ~ IsReport(m)
    BY DEF CountInv, CountTypes, Message, Client, Tid, IsReport
<1>2. inbox' = Append(inbox, m) /\ UNCHANGED <<now, ticks, notifier, generation>>
    BY DEF Asks
<1> HIDE DEF m
<1>3. CountTypes'
    BY <1>1, <1>2, Arrives DEF CountInv, CountTypes
<1>4. \A i \in DOMAIN inbox' :
          IsReport(inbox'[i]) => i \in DOMAIN inbox /\ IsReport(inbox[i])
    BY <1>1, <1>2, Arrives DEF CountInv, CountTypes
<1>5. OneReport'
    BY <1>2, <1>4 DEF CountInv, OneReport
<1>6. NoTickLost'
    BY <1>2 DEF CountInv, NoTickLost
<1> QED BY <1>3, <1>5, <1>6 DEF CountInv

LEMMA ReceivesKeeps ==
    ASSUME CountInv, NEW type, Receives(type)
    PROVE  /\ inbox' \in Seq(Message)
           /\ \A i \in DOMAIN inbox' : i + 1 \in DOMAIN inbox /\ inbox'[i] = inbox[i + 1]
           /\ 1 \in DOMAIN inbox /\ inbox[1].type = type
           /\ UNCHANGED notifier => OneReport'
<1>1. /\ inbox' \in Seq(Message)
      /\ \A i \in DOMAIN inbox' : i + 1 \in DOMAIN inbox /\ inbox'[i] = inbox[i + 1]
      /\ 1 \in DOMAIN inbox /\ inbox[1].type = type
    BY Leaves DEF Receives, CountInv, CountTypes
<1>2. DOMAIN inbox' \subseteq Int
    BY <1>1
<1>3. UNCHANGED notifier => OneReport'
    BY <1>1, <1>2 DEF CountInv, OneReport
<1> QED BY <1>1, <1>3

----------------------------------------------------------------------------
LEMMA CountInit == Init => CountInv
BY DEF Init, CountInv, CountTypes, OneReport, NoTickLost

LEMMA CountStep == CountInv /\ [Next]_vars => CountInv'
<1> SUFFICES ASSUME CountInv, [Next]_vars PROVE CountInv'
    OBVIOUS
<1>1. CASE TimerInterrupt
    BY <1>1 DEF TimerInterrupt, CountInv, CountTypes, OneReport, NoTickLost,
                server, clients
<1>2. CASE NotifierSends
  <2> DEFINE m == [type |-> "MESSAGE_NOTIFIER", tid |-> NOTIFIER, arg |-> 0]
  <2>1. m \in Message
      BY DEF Message
  <2>2. /\ notifier = "woken" /\ notifier' = "sent" /\ inbox' = Append(inbox, m)
        /\ UNCHANGED <<now, ticks, generation>>
      BY <1>2 DEF NotifierSends, clients
  <2> HIDE DEF m
  <2>3. CountTypes'
      BY <2>1, <2>2, Arrives DEF CountInv, CountTypes
  <2>4. \A i \in DOMAIN inbox' : IsReport(inbox'[i]) => i = Len(inbox) + 1
      BY <2>1, <2>2, Arrives DEF CountInv, CountTypes, OneReport
  <2>5. OneReport'
      BY <2>2, <2>4 DEF OneReport
  <2>6. NoTickLost'
      BY <2>2 DEF CountInv, CountTypes, NoTickLost
  <2> QED BY <2>3, <2>5, <2>6 DEF CountInv
<1>3. CASE HandleNotifier
  <2>1. /\ notifier' = "awaiting" /\ ticks' = ticks + 1
        /\ UNCHANGED <<now, generation>> /\ Receives("MESSAGE_NOTIFIER")
      BY <1>3 DEF HandleNotifier, clients
  <2>2. /\ inbox' \in Seq(Message)
        /\ \A i \in DOMAIN inbox' : i + 1 \in DOMAIN inbox /\ inbox'[i] = inbox[i + 1]
        /\ 1 \in DOMAIN inbox /\ IsReport(inbox[1])
      BY <2>1, ReceivesKeeps DEF IsReport
  <2>3. notifier = "sent"
      BY <2>2 DEF CountInv, OneReport
  <2>4. CountTypes'
      BY <2>1, <2>2 DEF CountInv, CountTypes
  <2>5. \A i \in DOMAIN inbox' : i \in Nat \ {0}
      BY <2>2
  <2>6. OneReport'
      BY <2>2, <2>5 DEF CountInv, OneReport
  <2>7. NoTickLost'
      BY <2>1, <2>3 DEF CountInv, CountTypes, NoTickLost
  <2> QED BY <2>4, <2>6, <2>7 DEF CountInv
<1>4. CASE WakeFirst
  <2>1. UNCHANGED <<now, ticks, inbox, notifier, generation>>
    <3> DEFINE s == Heap!Peek(queue).tid.slot
               R == state[s] \in ReplyBlocked
               D == state[s] = "dead"
               A == LetGo(s, "ok") /\ UNCHANGED serverAt
               B == UNCHANGED <<clients, serverAt>>
               C == serverAt' = "failed" /\ UNCHANGED clients
    <3>1. A \/ B \/ C
      <4>1. (CASE R -> A [] D -> B [] OTHER -> C)
          BY <1>4 DEF WakeFirst
      <4> HIDE DEF R, D, A, B, C
      <4> QED BY <4>1
    <3> QED BY <1>4, <3>1 DEF WakeFirst, LetGo, clients
  <2> QED BY <2>1 DEF CountInv, CountTypes, OneReport, NoTickLost
<1>5. CASE WakeNoMore
    BY <1>5 DEF WakeNoMore, clients, CountInv, CountTypes, OneReport, NoTickLost
<1>6. CASE HandleTime \/ HandleDelay \/ HandleDelayUntil
  <2>1. /\ \E type : Receives(type)
        /\ UNCHANGED <<now, ticks, notifier, generation>>
      BY <1>6 DEF HandleTime, HandleDelay, HandleDelayUntil, LetGo, Enqueues
  <2>2. OneReport' /\ inbox' \in Seq(Message)
      BY <2>1, ReceivesKeeps
  <2> QED BY <2>1, <2>2 DEF CountInv, CountTypes, NoTickLost
<1>7. ASSUME NEW s \in Slots, ClientStep(s)
      PROVE  CountInv'
  <2>1. CASE AsksTime(s)
      BY <2>1, AsksKeep DEF AsksTime
  <2>2. CASE AsksDelay(s)
      BY <2>2, AsksKeep, ClockAssumption DEF AsksDelay
  <2>3. CASE AsksDelayUntil(s)
      BY <2>3, AsksKeep, ClockAssumption DEF AsksDelayUntil
  <2>4. CASE SendsElsewhere(s) \/ ElsewhereReplies(s) \/ Killed(s)
      BY <2>4 DEF SendsElsewhere, ElsewhereReplies, Killed, server,
                  CountInv, CountTypes, OneReport, NoTickLost
  <2>5. CASE Created(s)
      BY <2>5 DEF Created, server, CountInv, CountTypes, OneReport, NoTickLost
  <2> QED BY <1>7, <2>1, <2>2, <2>3, <2>4, <2>5 DEF ClientStep
<1>8. CASE UNCHANGED vars
    BY <1>8 DEF vars, CountInv, CountTypes, OneReport, NoTickLost
<1> QED BY <1>1, <1>2, <1>3, <1>4, <1>5, <1>6, <1>7, <1>8 DEF Next, ServerStep

\* The clock server has counted every timer interrupt but the one its notifier has
\* still to report (usr/clock.c:22, 23, usr/notifier.c), for every number of clients
\* and every queue, whatever the clients ask for and whichever of them are killed.
THEOREM TicksCounted == Spec => []NoTickLost
<1>1. Spec => []CountInv
    BY CountInit, CountStep, PTL DEF Spec
<1> QED BY <1>1, PTL DEF CountInv

----------------------------------------------------------------------------
(* The heap: its levels. *)

Lv == Heap!Levels

LEMMA Halves ==
    ASSUME NEW n \in Nat \ {0}
    PROVE  /\ n \div 2 \in Nat /\ n \div 2 < n /\ n \div 2 <= n - 1
           /\ n = 1 => n \div 2 = 0
           /\ n > 1 => n \div 2 >= 1
           /\ (2 * n) \div 2 = n /\ (2 * n + 1) \div 2 = n
           /\ \A m \in Nat : m \div 2 = n <=> m = 2 * n \/ m = 2 * n + 1
OBVIOUS

\* The recursion of Levels, on the numbers up to m.
Levelled(f, m) ==
    f \in [0 .. m -> Nat] /\ \A n \in 0 .. m : f[n] = IF n = 0 THEN 0 ELSE 1 + f[n \div 2]

LEMMA SomeLevels == ASSUME NEW m \in Nat PROVE \E f : Levelled(f, m)
<1> DEFINE P == {n \in Nat : \E f : Levelled(f, n)}
<1>1. 0 \in P
  <2>1. Levelled([n \in 0 .. 0 |-> 0], 0)
    BY DEF Levelled
  <2> QED BY <2>1
<1>2. ASSUME NEW n \in 0 .. m - 1, n \in P PROVE n + 1 \in P
  <2>1. PICK f : Levelled(f, n)
    BY <1>2
  <2>2. (n + 1) \div 2 \in 0 .. n
    BY Halves
  <2> DEFINE g == [k \in 0 .. n + 1 |-> IF k = n + 1 THEN 1 + f[(n + 1) \div 2] ELSE f[k]]
  <2>3. g[n + 1] = 1 + f[(n + 1) \div 2] /\ \A k \in 0 .. n : g[k] = f[k]
    OBVIOUS
  <2>4. g \in [0 .. n + 1 -> Nat]
    BY <2>1, <2>2 DEF Levelled
  <2> HIDE DEF g
  <2>5. ASSUME NEW k \in 0 .. n + 1 PROVE g[k] = IF k = 0 THEN 0 ELSE 1 + g[k \div 2]
    <3>1. CASE k = n + 1
      BY <2>2, <2>3, <3>1
    <3>2. CASE k \in 0 .. n
      <4>1. k # 0 => k \div 2 \in 0 .. n
        BY <3>2, Halves
      <4> QED BY <2>1, <2>3, <3>2, <4>1 DEF Levelled
    <3> QED BY <3>1, <3>2
  <2>6. Levelled(g, n + 1)
    BY <2>4, <2>5 DEF Levelled
  <2> QED BY <2>6
<1> HIDE DEF P
<1>3. m \in P
  BY <1>1, <1>2, Numbers!UpTo
<1> QED BY <1>3 DEF P

LEMMA SameLevels ==
    ASSUME NEW m \in Nat, NEW k \in Nat, NEW f, NEW g, Levelled(f, m), Levelled(g, k)
    PROVE  \A n \in Nat : n <= m /\ n <= k => f[n] = g[n]
<1> DEFINE T == {n \in Nat : n <= m /\ n <= k /\ f[n] # g[n]}
<1> SUFFICES ASSUME T # {} PROVE FALSE
  OBVIOUS
<1>1. PICK x \in T : \A y \in T : x <= y
  <2>1. T \subseteq Nat
    OBVIOUS
  <2> QED BY <2>1, Numbers!Least, Zenon
<1>2. x \in 0 .. m /\ x \in 0 .. k /\ f[x] # g[x]
  OBVIOUS
<1>3. x # 0
  BY <1>2 DEF Levelled
<1>4. x \div 2 \in Nat /\ x \div 2 < x /\ x \div 2 <= m /\ x \div 2 <= k
  BY <1>2, <1>3, Halves
<1>5. f[x \div 2] = g[x \div 2]
  BY <1>1, <1>4
<1> QED BY <1>2, <1>3, <1>5 DEF Levelled

LEMMA LevelsAre ==
    /\ Lv \in [Nat -> Nat] /\ Lv[0] = 0
    /\ \A n \in Nat \ {0} : Lv[n] = 1 + Lv[n \div 2]
<1> DEFINE some == [n \in Nat |-> CHOOSE f : Levelled(f, n)]
<1>0. \A n \in Nat : Levelled(some[n], n)
  BY SomeLevels
<1> HIDE DEF some
<1>1. PICK at : \A n \in Nat : Levelled(at[n], n)
  BY <1>0
<1> DEFINE F == [n \in Nat |-> at[n][n]]
<1>2. F \in [Nat -> Nat]
  BY <1>1 DEF Levelled
<1>3. ASSUME NEW n \in Nat PROVE F[n] = IF n = 0 THEN 0 ELSE 1 + F[n \div 2]
  <2>1. CASE n = 0
    BY <1>1, <2>1 DEF Levelled
  <2>2. CASE n # 0
    <3>1. n \div 2 \in Nat /\ n \div 2 <= n
      BY <2>2, Halves
    <3>2. at[n][n] = 1 + at[n][n \div 2]
      BY <1>1, <2>2 DEF Levelled
    <3>3. at[n][n \div 2] = at[n \div 2][n \div 2]
      BY <1>1, <3>1, SameLevels
    <3> QED BY <2>2, <3>1, <3>2, <3>3
  <2> QED BY <2>1, <2>2
<1> HIDE DEF F
<1>4. F = [n \in Nat |-> IF n = 0 THEN 0 ELSE 1 + F[n \div 2]]
  BY <1>2, <1>3
<1>5. Lv = [n \in Nat |-> IF n = 0 THEN 0 ELSE 1 + Lv[n \div 2]]
  BY <1>4 DEF Lv, Heap!Levels
<1>6. \A n \in Nat : Lv[n] = IF n = 0 THEN 0 ELSE 1 + Lv[n \div 2]
  BY <1>5
<1>7. ASSUME NEW m \in Nat PROVE Lv[m] \in Nat
  <2> DEFINE T == {n \in Nat : Lv[n] # F[n]}
  <2>1. CASE T = {}
    BY <1>2, <2>1 DEF F
  <2>2. CASE T # {}
    <3>1. PICK x \in T : \A y \in T : x <= y
      <4>1. T \subseteq Nat
        OBVIOUS
      <4> QED BY <2>2, <4>1, Numbers!Least, Zenon
    <3>2. x # 0
      BY <1>3, <1>6
    <3>3. x \div 2 \in Nat /\ x \div 2 < x
      BY <3>2, Halves
    <3>4. Lv[x \div 2] = F[x \div 2]
      BY <3>1, <3>3
    <3> QED BY <1>3, <1>6, <3>2, <3>4
  <2> QED BY <2>1, <2>2
<1>8. Lv \in [Nat -> Nat]
  BY <1>5, <1>7
<1> QED BY <1>6, <1>8

LEMMA LevelsGrow == \A m \in Nat, n \in Nat : m <= n => Lv[m] <= Lv[n]
<1> DEFINE T == {n \in Nat : \E m \in Nat : m <= n /\ Lv[m] > Lv[n]}
<1> SUFFICES ASSUME T # {} PROVE FALSE
  <2>1. \A n \in Nat : Lv[n] \in Nat
    BY LevelsAre
  <2>2. \A m, n \in Nat : Lv[m] > Lv[n] \/ Lv[m] <= Lv[n]
    BY <2>1
  <2> QED BY <2>2
<1>1. PICK n \in T : \A y \in T : n <= y
  <2>1. T \subseteq Nat
    OBVIOUS
  <2> QED BY <2>1, Numbers!Least, Zenon
<1>2. PICK m \in Nat : m <= n /\ Lv[m] > Lv[n]
  OBVIOUS
<1>3. m # 0 /\ n # 0
  BY <1>2, LevelsAre
<1>4. /\ m \div 2 \in Nat /\ n \div 2 \in Nat /\ m \div 2 <= n \div 2 /\ n \div 2 < n
  BY <1>2, <1>3, Halves
<1>5. Lv[m \div 2] > Lv[n \div 2]
  BY <1>2, <1>3, <1>4, LevelsAre
<1>6. n \div 2 \in T
  BY <1>4, <1>5
<1> QED BY <1>1, <1>4, <1>6

----------------------------------------------------------------------------
(* The heap: its elements.  What is moved in it is not lost. *)

Wait == [tid : Client, ticks : Int]

LEMMA WaitFacts ==
    ASSUME NEW h \in Seq(Wait), NEW k \in 1 .. Len(h)
    PROVE  /\ h[k] \in Wait /\ h[k].ticks \in Int
           /\ h[k].tid \in Client /\ h[k].tid.slot \in Slots
<1>1. h[k] \in Wait
  BY ElementOfSeq
<1> QED BY <1>1 DEF Wait, Client

Holds(h, w) == \E i \in 1 .. Len(h) : h[i] = w
OneEach(h) == \A i, j \in 1 .. Len(h) : h[i].tid.slot = h[j].tid.slot => i = j

Same(g, h) ==
    /\ g \in Seq(Wait) /\ Len(g) = Len(h)
    /\ \A w : Holds(g, w) <=> Holds(h, w)
    /\ OneEach(h) => OneEach(g)

LEMMA SameSame ==
    /\ \A h \in Seq(Wait) : Same(h, h)
    /\ \A f, g, h : Same(f, g) /\ Same(g, h) => Same(f, h)
BY DEF Same

LEMMA SwapFacts ==
    ASSUME NEW h \in Seq(Wait), NEW i \in 1 .. Len(h), NEW j \in 1 .. Len(h), i # j
    PROVE  LET g == Heap!Swap(h, i, j)
           IN  /\ Same(g, h) /\ g[i] = h[j] /\ g[j] = h[i]
               /\ \A k \in 1 .. Len(h) : k # i /\ k # j => g[k] = h[k]
<1>1. PICK g : g = Heap!Swap(h, i, j)
  OBVIOUS
<1>2. PICK L \in Nat : L = Len(h) /\ DOMAIN h = 1 .. L
  OBVIOUS
<1>3. \A k \in 1 .. L : h[k] \in Wait
  BY <1>2
<1>4. g = [[h EXCEPT ![i] = h[j]] EXCEPT ![j] = h[i]]
  BY <1>1 DEF Heap!Swap
<1>5. /\ DOMAIN g = 1 .. L /\ g[i] = h[j] /\ g[j] = h[i]
      /\ \A k \in 1 .. L : k # i /\ k # j => g[k] = h[k]
  BY <1>2, <1>4
<1>6. \A k \in 1 .. L : g[k] \in Wait
  BY <1>2, <1>3, <1>5
<1>7. g \in Seq(Wait) /\ Len(g) = L
  <2>1. g = [k \in 1 .. L |-> g[k]]
    BY <1>4, <1>5, <1>2
  <2>2. g \in [1 .. L -> Wait]
    BY <1>6, <2>1
  <2> QED BY <1>5, <2>2
<1>8. \A w : Holds(g, w) <=> Holds(h, w)
  BY <1>2, <1>5, <1>7 DEF Holds
<1>9. OneEach(h) => OneEach(g)
  <2> SUFFICES ASSUME OneEach(h), NEW a \in 1 .. L, NEW b \in 1 .. L,
                      g[a].tid.slot = g[b].tid.slot
               PROVE  a = b
    BY <1>7 DEF OneEach
  <2>1. PICK x \in 1 .. L : g[a] = h[x] /\ (a = i => x = j) /\ (a = j => x = i)
                            /\ (a # i /\ a # j => x = a)
    BY <1>2, <1>5
  <2>2. PICK y \in 1 .. L : g[b] = h[y] /\ (b = i => y = j) /\ (b = j => y = i)
                            /\ (b # i /\ b # j => y = b)
    BY <1>2, <1>5
  <2>3. x = y
    BY <1>2, <2>1, <2>2 DEF OneEach
  <2> QED BY <2>1, <2>2, <2>3
<1>10. Same(g, h)
  BY <1>2, <1>7, <1>8, <1>9 DEF Same
<1> QED BY <1>1, <1>2, <1>5, <1>10

----------------------------------------------------------------------------
(* The heap: its order. *)

Up(i) == i \div 2

Ordered(h) == \A i \in 2 .. Len(h) : h[Up(i)].ticks <= h[i].ticks

\* In order but for an element that may be above its children.
OrderedBelow(h, at) ==
    \A i \in 2 .. Len(h) :
        /\ Up(i) # at => h[Up(i)].ticks <= h[i].ticks
        /\ Up(i) = at /\ at > 1 => h[Up(at)].ticks <= h[i].ticks

\* In order but for an element that may be below its parent.
OrderedAbove(h, at) ==
    \A i \in 2 .. Len(h) :
        /\ i # at => h[Up(i)].ticks <= h[i].ticks
        /\ Up(i) = at /\ at > 1 => h[Up(at)].ticks <= h[i].ticks

Place == {s \in [heap : Seq(Wait), at : Nat \ {0}] : s.at <= Len(s.heap)}

LEMMA PlaceFacts ==
    ASSUME NEW s \in Place
    PROVE  /\ s.heap \in Seq(Wait) /\ s.at \in 1 .. Len(s.heap)
           /\ s = [heap |-> s.heap, at |-> s.at]
BY DEF Place

\* The first element is a smallest one.
LEMMA FirstLeast ==
    ASSUME NEW h \in Seq(Wait), Ordered(h), NEW j \in 1 .. Len(h)
    PROVE  h[1].ticks <= h[j].ticks
<1> DEFINE T == {i \in 1 .. Len(h) : ~ (h[1].ticks <= h[i].ticks)}
<1> SUFFICES ASSUME T # {} PROVE FALSE
  OBVIOUS
<1>1. PICK i \in T : \A k \in T : i <= k
  <2>1. T \subseteq Nat
    OBVIOUS
  <2> QED BY <2>1, Numbers!Least, Zenon
<1>2. \A k \in 1 .. Len(h) : h[k].ticks \in Int
  BY WaitFacts
<1>3. i # 1
  BY <1>1, <1>2
<1>4. Up(i) \in 1 .. Len(h) /\ Up(i) < i /\ i \in 2 .. Len(h)
  BY <1>3, Halves DEF Up
<1>5. h[1].ticks <= h[Up(i)].ticks
  BY <1>1, <1>4
<1>6. h[Up(i)].ticks <= h[i].ticks
  BY <1>4 DEF Ordered
<1>7. 1 \in 1 .. Len(h)
  BY <1>4
<1> QED BY <1>2, <1>4, <1>5, <1>6, <1>7

\* One turn of SINK: the element stays, or changes places with its smaller child.
LEMMA SinkTurnIs ==
    ASSUME NEW s \in Place, NEW h, h = s.heap, NEW at, at = s.at
    PROVE  \/ /\ Heap!SinkTurn(s) = s
              /\ \A j \in 2 .. Len(h) : Up(j) = at => h[at].ticks <= h[j].ticks
           \/ \E i \in 2 .. Len(h) :
                 /\ Heap!SinkTurn(s) = [heap |-> Heap!Swap(h, at, i), at |-> i]
                 /\ Up(i) = at /\ h[i].ticks < h[at].ticks
                 /\ \A j \in 2 .. Len(h) : Up(j) = at => h[i].ticks <= h[j].ticks
<1>1. h \in Seq(Wait) /\ at \in 1 .. Len(h)
  BY PlaceFacts
<1>2. PICK L \in Nat : L = Len(h)
  BY <1>1
<1>3. \A k \in 1 .. L : h[k].ticks \in Int
  BY <1>1, <1>2, WaitFacts
<1>4. \A j \in 2 .. L : Up(j) = at <=> j = 2 * at \/ j = 2 * at + 1
  BY <1>1, <1>2, Halves DEF Up
<1>5. PICK y : y = IF 2 * at <= L /\ h[2 * at].ticks < h[at].ticks THEN 2 * at ELSE at
  OBVIOUS
<1>6. PICK x : x = IF 2 * at + 1 <= L /\ h[2 * at + 1].ticks < h[y].ticks
                   THEN 2 * at + 1 ELSE y
  OBVIOUS
<1>7. x = Heap!SmallestOfThree(h, at)
  BY <1>2, <1>5, <1>6 DEF Heap!SmallestOfThree, Heap!Smaller, Heap!Left, Heap!Right, WaitTicks
<1>8. Heap!SinkTurn(s) = IF x = at THEN s ELSE [heap |-> Heap!Swap(h, at, x), at |-> x]
  BY <1>7 DEF Heap!SinkTurn
<1>9. y \in 1 .. L /\ h[y].ticks <= h[at].ticks
      /\ (2 * at <= L => h[y].ticks <= h[2 * at].ticks)
      /\ (y # at => y = 2 * at /\ 2 * at \in 2 .. L /\ h[y].ticks < h[at].ticks)
  BY SMTT(40), <1>1, <1>2, <1>3, <1>5
<1>10. /\ 2 * at <= L => h[x].ticks <= h[2 * at].ticks
       /\ 2 * at + 1 <= L => h[x].ticks <= h[2 * at + 1].ticks
       /\ x # at => /\ x \in {2 * at, 2 * at + 1} /\ x \in 2 .. L
                    /\ h[x].ticks < h[at].ticks
  <2>1. CASE x = y
    <3>1. 2 * at + 1 <= L => 2 * at + 1 \in 1 .. L /\ ~ (h[2 * at + 1].ticks < h[y].ticks)
      BY <1>1, <1>2, <1>6, <1>9, <2>1
    <3>2. 2 * at + 1 <= L => h[y].ticks <= h[2 * at + 1].ticks
      BY <1>3, <1>9, <3>1
    <3> QED BY <1>9, <2>1, <3>2
  <2>2. CASE x # y
    <3>1. x = 2 * at + 1 /\ x \in 2 .. L /\ h[x].ticks < h[y].ticks
      BY <1>1, <1>2, <1>6, <2>2
    <3>2. h[x].ticks \in Int /\ h[y].ticks \in Int /\ h[at].ticks \in Int
          /\ (2 * at <= L => h[2 * at].ticks \in Int)
      BY SMTT(40), <1>1, <1>2, <1>3, <1>9, <3>1
    <3> QED BY <1>9, <3>1, <3>2
  <2> QED BY <2>1, <2>2
<1>11. \A j \in 2 .. L : Up(j) = at => h[x].ticks <= h[j].ticks
  BY <1>2, <1>4, <1>10
<1>12. CASE x = at
  BY <1>2, <1>8, <1>11, <1>12
<1>13. CASE x # at
  <2>1. x \in 2 .. L /\ Up(x) = at /\ h[x].ticks < h[at].ticks
    BY <1>4, <1>10, <1>13
  <2> QED BY <1>2, <1>8, <1>11, <1>13, <2>1
<1> QED BY <1>12, <1>13

LEMMA SinkTurnFacts ==
    ASSUME NEW s \in Place, NEW r, r = Heap!SinkTurn(s)
    PROVE  /\ r \in Place /\ Same(r.heap, s.heap)
           /\ r = s \/ Up(r.at) = s.at
           /\ OrderedBelow(s.heap, s.at) =>
                 OrderedBelow(r.heap, r.at) /\ (r = s => Ordered(s.heap))
<1>0. PICK h, at : h = s.heap /\ at = s.at
  OBVIOUS
<1>1. PICK L \in Nat : h = s.heap /\ at = s.at /\ L = Len(h)
  BY <1>0, PlaceFacts
<1>2. h \in Seq(Wait) /\ at \in 1 .. L
  BY <1>1, PlaceFacts
<1>3. \A k \in 1 .. L : h[k].ticks \in Int
  BY <1>1, <1>2, WaitFacts
<1>u. \A k \in 2 .. L : Up(k) \in 1 .. L /\ Up(k) < k
  BY Halves DEF Up
<1>4. CASE r = s /\ \A j \in 2 .. L : Up(j) = at => h[at].ticks <= h[j].ticks
  <2>1. OrderedBelow(h, at) => Ordered(h)
    BY <1>1, <1>4 DEF OrderedBelow, Ordered
  <2> QED BY <1>1, <1>2, <1>4, <2>1, SameSame
<1>5. CASE \E i \in 2 .. L :
              /\ r = [heap |-> Heap!Swap(h, at, i), at |-> i]
              /\ Up(i) = at /\ h[i].ticks < h[at].ticks
              /\ \A j \in 2 .. L : Up(j) = at => h[i].ticks <= h[j].ticks
  <2>1. PICK i \in 2 .. L : /\ r = [heap |-> Heap!Swap(h, at, i), at |-> i]
                            /\ Up(i) = at /\ h[i].ticks < h[at].ticks
                            /\ \A j \in 2 .. L : Up(j) = at => h[i].ticks <= h[j].ticks
    BY <1>5
  <2>2. PICK g : g = Heap!Swap(h, at, i)
    OBVIOUS
  <2>3. at < i /\ i \in 1 .. L
    BY <1>u, <2>1
  <2>4. /\ Same(g, h) /\ g[at] = h[i] /\ g[i] = h[at]
        /\ \A k \in 1 .. L : k # at /\ k # i => g[k] = h[k]
    BY <1>1, <1>2, <2>2, <2>3, SwapFacts
  <2>5. r.heap = g /\ r.at = i
    BY <2>1, <2>2
  <2>6. r \in Place
    BY <1>1, <2>1, <2>2, <2>3, <2>4 DEF Place, Same
  <2>7. ASSUME OrderedBelow(h, at), NEW k \in 2 .. L
        PROVE  /\ Up(k) # i => g[Up(k)].ticks <= g[k].ticks
               /\ Up(k) = i => g[Up(i)].ticks <= g[k].ticks
    <3>0. k \in 1 .. L /\ Up(k) \in 1 .. L /\ Up(k) < k
          /\ h[k].ticks \in Int /\ h[i].ticks \in Int /\ h[at].ticks \in Int
      BY <1>2, <1>3, <1>u, <2>3
    <3>1. CASE k = i
      BY <2>1, <2>3, <2>4, <3>0, <3>1
    <3>2. CASE k # i /\ Up(k) = at
      <4>1. k # at
        BY <1>2, <3>0, <3>2
      <4> QED BY <2>1, <2>3, <2>4, <3>0, <3>2, <4>1
    <3>3. CASE k = at
      <4>1. at > 1 /\ h[Up(at)].ticks <= h[i].ticks
        BY <1>1, <2>1, <2>7, <3>3 DEF OrderedBelow
      <4>2. Up(k) # at /\ Up(k) # i
        BY <1>2, <2>3, <3>0, <3>3
      <4> QED BY <2>4, <3>0, <3>3, <4>1, <4>2
    <3>4. CASE k # i /\ k # at /\ Up(k) # at
      <4>1. h[Up(k)].ticks <= h[k].ticks
        BY <1>1, <2>7, <3>4 DEF OrderedBelow
      <4>2. g[k] = h[k] /\ (Up(k) # i => g[Up(k)] = h[Up(k)])
        BY <2>4, <3>0, <3>4
      <4> QED BY <2>1, <2>4, <4>1, <4>2
    <3> QED BY <3>1, <3>2, <3>3, <3>4
  <2>8. OrderedBelow(h, at) => OrderedBelow(g, i)
    <3>1. Len(g) = L
      BY <1>1, <2>4 DEF Same
    <3> QED BY <2>7, <3>1 DEF OrderedBelow
  <2>9. r # s
    BY <1>1, <2>3, <2>5
  <2> QED BY <1>1, <2>1, <2>4, <2>5, <2>6, <2>8, <2>9
<1> QED BY <1>1, <1>4, <1>5, SinkTurnIs

\* One turn of ENQUEUE's loop: the element changes places with its parent, or stays.
LEMMA RiseTurnFacts ==
    ASSUME NEW s \in Place, NEW r, r = Heap!RiseTurn(s)
    PROVE  /\ r \in Place /\ Same(r.heap, s.heap)
           /\ r = s \/ (s.at > 1 /\ r.at = Up(s.at))
           /\ OrderedAbove(s.heap, s.at) =>
                 OrderedAbove(r.heap, r.at) /\ (r = s => Ordered(s.heap))
<1>0. PICK h, at, p : h = s.heap /\ at = s.at /\ p = Up(at)
  OBVIOUS
<1>1. PICK L \in Nat : h = s.heap /\ at = s.at /\ L = Len(h)
  BY <1>0, PlaceFacts
<1>2. h \in Seq(Wait) /\ at \in 1 .. L
  BY <1>1, PlaceFacts
<1>3. \A k \in 1 .. L : h[k].ticks \in Int
  BY <1>1, <1>2, WaitFacts
<1>u. \A k \in 2 .. L : Up(k) \in 1 .. L /\ Up(k) < k
  BY Halves DEF Up
<1>r. r = IF at > 1 /\ h[at].ticks < h[p].ticks
          THEN [heap |-> Heap!Swap(h, at, p), at |-> p] ELSE s
  BY <1>0 DEF Heap!RiseTurn, Heap!Parent, WaitTicks, Up
<1>4. CASE ~ (at > 1 /\ h[at].ticks < h[p].ticks)
  <2>1. ASSUME OrderedAbove(h, at), NEW k \in 2 .. L PROVE h[Up(k)].ticks <= h[k].ticks
    <3>1. CASE k = at
      BY <1>0, <1>2, <1>3, <1>4, <1>u, <3>1
    <3>2. CASE k # at
      BY <1>1, <2>1, <3>2 DEF OrderedAbove
    <3> QED BY <3>1, <3>2
  <2>2. OrderedAbove(h, at) => Ordered(h)
    BY <1>1, <2>1 DEF Ordered
  <2> QED BY <1>1, <1>2, <1>4, <1>r, <2>2, SameSame
<1>5. CASE at > 1 /\ h[at].ticks < h[p].ticks
  <2>2. PICK g : g = Heap!Swap(h, at, p)
    OBVIOUS
  <2>3. p < at /\ p \in 1 .. L /\ at \in 2 .. L
    BY <1>0, <1>2, <1>5, <1>u
  <2>4. /\ Same(g, h) /\ g[at] = h[p] /\ g[p] = h[at]
        /\ \A k \in 1 .. L : k # at /\ k # p => g[k] = h[k]
    BY <1>1, <1>2, <2>2, <2>3, SwapFacts
  <2>5. r.heap = g /\ r.at = p /\ r = [heap |-> g, at |-> p]
    BY <1>5, <1>r, <2>2
  <2>6. r \in Place
    BY <1>1, <2>3, <2>4, <2>5 DEF Place, Same
  <2>7. ASSUME OrderedAbove(h, at), NEW k \in 2 .. L
        PROVE  /\ k # p => g[Up(k)].ticks <= g[k].ticks
               /\ Up(k) = p /\ p > 1 => g[Up(p)].ticks <= g[k].ticks
    <3>0. k \in 1 .. L /\ Up(k) \in 1 .. L /\ Up(k) < k
          /\ h[k].ticks \in Int /\ h[p].ticks \in Int /\ h[at].ticks \in Int
      BY <1>2, <1>3, <1>u, <2>3
    <3>a. p > 1 => /\ h[Up(p)].ticks <= h[p].ticks /\ Up(p) \in 1 .. L /\ Up(p) < p
                   /\ g[Up(p)] = h[Up(p)] /\ h[Up(p)].ticks \in Int
      <4> SUFFICES ASSUME p > 1 PROVE /\ h[Up(p)].ticks <= h[p].ticks /\ Up(p) \in 1 .. L
                                      /\ g[Up(p)] = h[Up(p)] /\ h[Up(p)].ticks \in Int
                                      /\ Up(p) < p
        OBVIOUS
      <4>1. p \in 2 .. L /\ p # at
        BY <1>2, <2>3
      <4>2. h[Up(p)].ticks <= h[p].ticks
        BY <1>1, <2>7, <4>1 DEF OrderedAbove
      <4>3. Up(p) \in 1 .. L /\ Up(p) < p
        BY <1>u, <4>1
      <4>4. Up(p) # at /\ Up(p) # p
        BY <1>2, <2>3, <4>3
      <4> QED BY <1>3, <2>4, <4>2, <4>3, <4>4
    <3>1. CASE k = at
      <4>1. g[Up(k)] = h[at] /\ g[k] = h[p]
        BY <1>0, <2>4, <3>1
      <4> QED BY <1>5, <3>0, <3>a, <4>1
    <3>2. CASE k # at /\ Up(k) = p
      <4>1. h[p].ticks <= h[k].ticks
        BY <1>1, <2>7, <3>2 DEF OrderedAbove
      <4>2. k # p /\ g[k] = h[k] /\ g[Up(k)] = h[at]
        BY <2>3, <2>4, <3>0, <3>2
      <4> QED BY <1>5, <3>0, <3>a, <4>1, <4>2
    <3>3. CASE k # at /\ Up(k) = at
      <4>1. h[p].ticks <= h[k].ticks
        BY <1>0, <1>1, <1>5, <2>7, <3>3 DEF OrderedAbove
      <4>2. k # p /\ g[k] = h[k] /\ g[Up(k)] = h[p]
        BY <2>3, <2>4, <3>0, <3>3
      <4>3. Up(k) # p
        BY <1>2, <2>3, <3>3
      <4> QED BY <4>1, <4>2, <4>3
    <3>4. CASE k # at /\ Up(k) # p /\ Up(k) # at
      <4>1. h[Up(k)].ticks <= h[k].ticks
        BY <1>1, <2>7, <3>4 DEF OrderedAbove
      <4>2. g[Up(k)] = h[Up(k)] /\ (k # p => g[k] = h[k])
        BY <2>4, <3>0, <3>4
      <4> QED BY <3>4, <4>1, <4>2
    <3> QED BY <3>1, <3>2, <3>3, <3>4
  <2>8. OrderedAbove(h, at) => OrderedAbove(g, p)
    <3>1. Len(g) = L
      BY <1>1, <2>4 DEF Same
    <3> QED BY <2>7, <3>1 DEF OrderedAbove
  <2>9. r # s
    BY <1>1, <1>2, <2>3, <2>5
  <2> QED BY <1>0, <1>1, <1>5, <2>4, <2>5, <2>6, <2>8, <2>9
<1> QED BY <1>4, <1>5

\* In a heap that is in order nothing moves.
LEMMA StaysOrdered ==
    ASSUME NEW s \in Place, Ordered(s.heap)
    PROVE  Heap!SinkTurn(s) = s /\ Heap!RiseTurn(s) = s
<1>1. PICK h, at : h = s.heap /\ at = s.at
  OBVIOUS
<1>2. h \in Seq(Wait) /\ at \in 1 .. Len(h)
  BY <1>1, PlaceFacts
<1>3. \A k \in 1 .. Len(h) : h[k].ticks \in Int
  BY <1>2, WaitFacts
<1>4. \A k \in 2 .. Len(h) : k \in 1 .. Len(h) /\ Up(k) \in 1 .. Len(h)
  BY <1>2, Halves DEF Up
<1>5. \A k \in 2 .. Len(h) : ~ (h[k].ticks < h[Up(k)].ticks)
  BY <1>1, <1>3, <1>4 DEF Ordered
<1>6. Heap!SinkTurn(s) = s
  BY <1>1, <1>5, SinkTurnIs
<1>7. Heap!RiseTurn(s) = s
  <2>1. at > 1 => ~ (h[at].ticks < h[Up(at)].ticks)
    BY <1>2, <1>5
  <2> QED BY <1>1, <2>1 DEF Heap!RiseTurn, Heap!Parent, WaitTicks, Up
<1> QED BY <1>6, <1>7

\* The recursive functions of Sink and Rise.
LEMMA SinkRecursion ==
    ASSUME NEW h \in Seq(Wait), NEW i \in 1 .. Len(h)
    PROVE  \E turn : /\ turn[0] = [heap |-> h, at |-> i]
                     /\ \A k \in 1 .. Lv[Len(h)] : turn[k] = Heap!SinkTurn(turn[k - 1])
                     /\ Heap!Sink(h, i) = IF Heap!SmallestOfThree(h, i) = i THEN h
                                          ELSE turn[Lv[Len(h)]].heap
<1>0. PICK L \in Nat : L = Lv[Len(h)]
  BY LevelsAre
<1> DEFINE b == [heap |-> h, at |-> i]
           step == [n \in 1 .. L |-> [c \in Place |-> Heap!SinkTurn(c)]]
           t == CHOOSE turn : turn = [k \in 0 .. L |-> IF k = 0 THEN b
                                                       ELSE Heap!SinkTurn(turn[k - 1])]
<1>1. b \in Place
  BY DEF Place
<1>2. step \in [1 .. L -> [Place -> Place]]
  BY SinkTurnFacts
<1>3. PICK f : Numbers!Follows(f, L, Place, b, step)
  <2> HIDE DEF step, b
  <2> QED BY <1>1, <1>2, Numbers!Recursion, Zenon
<1>4. f \in [0 .. L -> Place] /\ f[0] = b /\ \A n \in 1 .. L : f[n] = step[n][f[n - 1]]
  BY <1>3 DEF Numbers!Follows
<1>5. \A n \in 1 .. L : f[n] = Heap!SinkTurn(f[n - 1])
  <2> SUFFICES ASSUME NEW n \in 1 .. L PROVE f[n] = Heap!SinkTurn(f[n - 1])
    OBVIOUS
  <2>1. n - 1 \in 0 .. L
    OBVIOUS
  <2> QED BY <1>4, <2>1
<1>6. f = [k \in 0 .. L |-> IF k = 0 THEN b ELSE Heap!SinkTurn(f[k - 1])]
  <2>1. \A k \in 0 .. L : k # 0 => k \in 1 .. L
    OBVIOUS
  <2> HIDE DEF b, step
  <2>2. \A k \in 0 .. L : f[k] = IF k = 0 THEN b ELSE Heap!SinkTurn(f[k - 1])
    BY <1>4, <1>5, <2>1
  <2> QED BY <1>4, <2>2
<1>7. t = [k \in 0 .. L |-> IF k = 0 THEN b ELSE Heap!SinkTurn(t[k - 1])]
  BY <1>6
<1>8. Heap!Sink(h, i) = IF Heap!SmallestOfThree(h, i) = i THEN h ELSE t[L].heap
  BY <1>0 DEF Heap!Sink, Lv
<1> HIDE DEF t
<1>9. t[0] = b /\ \A n \in 1 .. L : t[n] = Heap!SinkTurn(t[n - 1])
  <2>1. 0 \in 0 .. L /\ \A n \in 1 .. L : n \in 0 .. L /\ n # 0
    OBVIOUS
  <2> HIDE DEF b
  <2> QED BY <1>7, <2>1
<1> WITNESS t
<1> QED BY <1>0, <1>8, <1>9

LEMMA RiseRecursion ==
    ASSUME NEW h \in Seq(Wait), h # << >>
    PROVE  \E turn : /\ turn[0] = [heap |-> h, at |-> Len(h)]
                     /\ \A k \in 1 .. Lv[Len(h)] : turn[k] = Heap!RiseTurn(turn[k - 1])
                     /\ Heap!Rise(h) = turn[Lv[Len(h)]].heap
<1>0. PICK L \in Nat : L = Lv[Len(h)]
  BY LevelsAre
<1> DEFINE b == [heap |-> h, at |-> Len(h)]
           step == [n \in 1 .. L |-> [c \in Place |-> Heap!RiseTurn(c)]]
           t == CHOOSE turn : turn = [k \in 0 .. L |-> IF k = 0 THEN b
                                                       ELSE Heap!RiseTurn(turn[k - 1])]
<1>1. b \in Place
  BY DEF Place
<1>2. step \in [1 .. L -> [Place -> Place]]
  BY RiseTurnFacts
<1>3. PICK f : Numbers!Follows(f, L, Place, b, step)
  <2> HIDE DEF step, b
  <2> QED BY <1>1, <1>2, Numbers!Recursion, Zenon
<1>4. f \in [0 .. L -> Place] /\ f[0] = b /\ \A n \in 1 .. L : f[n] = step[n][f[n - 1]]
  BY <1>3 DEF Numbers!Follows
<1>5. \A n \in 1 .. L : f[n] = Heap!RiseTurn(f[n - 1])
  <2> SUFFICES ASSUME NEW n \in 1 .. L PROVE f[n] = Heap!RiseTurn(f[n - 1])
    OBVIOUS
  <2>1. n - 1 \in 0 .. L
    OBVIOUS
  <2> QED BY <1>4, <2>1
<1>6. f = [k \in 0 .. L |-> IF k = 0 THEN b ELSE Heap!RiseTurn(f[k - 1])]
  <2>1. \A k \in 0 .. L : k # 0 => k \in 1 .. L
    OBVIOUS
  <2> HIDE DEF b, step
  <2>2. \A k \in 0 .. L : f[k] = IF k = 0 THEN b ELSE Heap!RiseTurn(f[k - 1])
    BY <1>4, <1>5, <2>1
  <2> QED BY <1>4, <2>2
<1>7. t = [k \in 0 .. L |-> IF k = 0 THEN b ELSE Heap!RiseTurn(t[k - 1])]
  BY <1>6
<1>8. Heap!Rise(h) = t[L].heap
  BY <1>0 DEF Heap!Rise, Lv
<1> HIDE DEF t
<1>9. t[0] = b /\ \A n \in 1 .. L : t[n] = Heap!RiseTurn(t[n - 1])
  <2>1. 0 \in 0 .. L /\ \A n \in 1 .. L : n \in 0 .. L /\ n # 0
    OBVIOUS
  <2> HIDE DEF b
  <2> QED BY <1>7, <2>1
<1> WITNESS t
<1> QED BY <1>0, <1>8, <1>9

\* As many turns as the heap has levels are enough.
LEMMA SinkOrders ==
    ASSUME NEW h \in Seq(Wait), h # << >>, OrderedBelow(h, 1)
    PROVE  Same(Heap!Sink(h, 1), h) /\ Ordered(Heap!Sink(h, 1))
<1>0. PICK L \in Nat : L = Lv[Len(h)]
  BY LevelsAre
<1>1. 1 \in 1 .. Len(h)
  OBVIOUS
<1>2. PICK turn : /\ turn[0] = [heap |-> h, at |-> 1]
                  /\ \A k \in 1 .. L : turn[k] = Heap!SinkTurn(turn[k - 1])
                  /\ Heap!Sink(h, 1) = IF Heap!SmallestOfThree(h, 1) = 1 THEN h
                                       ELSE turn[L].heap
  BY SMTT(40), <1>0, <1>1, SinkRecursion
<1>3. turn[0] \in Place /\ turn[0].heap = h /\ turn[0].at = 1
  BY <1>1, <1>2 DEF Place
<1> DEFINE P == {k \in 0 .. L : /\ turn[k] \in Place /\ Same(turn[k].heap, h)
                                /\ OrderedBelow(turn[k].heap, turn[k].at)
                                /\ Ordered(turn[k].heap) \/ Lv[turn[k].at] >= k + 1}
<1>4. 0 \in P
  <2>1. Lv[1] = 1
    <3>1. 1 \div 2 = 0
      OBVIOUS
    <3> QED BY <3>1, LevelsAre
  <2> QED BY <1>3, <2>1, SameSame
<1>5. ASSUME NEW k \in 0 .. L - 1, k \in P PROVE k + 1 \in P
  <2>1. PICK s : s = turn[k]
    OBVIOUS
  <2>2. PICK r : r = turn[k + 1]
    OBVIOUS
  <2>3. k + 1 \in 1 .. L /\ (k + 1) - 1 = k /\ k + 1 \in 0 .. L
    OBVIOUS
  <2>4. r = Heap!SinkTurn(s)
    BY <1>2, <2>1, <2>2, <2>3
  <2>5. /\ s \in Place /\ Same(s.heap, h) /\ OrderedBelow(s.heap, s.at)
        /\ Ordered(s.heap) \/ Lv[s.at] >= k + 1
    BY <1>5, <2>1
  <2>6. /\ r \in Place /\ Same(r.heap, h) /\ OrderedBelow(r.heap, r.at)
        /\ r = s \/ Up(r.at) = s.at
        /\ r = s => Ordered(s.heap)
    BY <2>4, <2>5, SinkTurnFacts, SameSame
  <2>7. Ordered(r.heap) \/ Lv[r.at] >= (k + 1) + 1
    <3>1. CASE Ordered(s.heap)
      BY <2>4, <2>5, <3>1, StaysOrdered
    <3>2. CASE ~ Ordered(s.heap)
      <4>1. Up(r.at) = s.at /\ Lv[s.at] >= k + 1
        BY <2>5, <2>6, <3>2
      <4>2. r.at \in Nat \ {0} /\ s.at \in Nat
        BY <2>5, <2>6 DEF Place
      <4>3. Lv[r.at] = 1 + Lv[s.at] /\ Lv[s.at] \in Nat
        BY <4>1, <4>2, LevelsAre DEF Up
      <4> QED BY <4>1, <4>3
    <3> QED BY <3>1, <3>2
  <2> QED BY <2>2, <2>3, <2>6, <2>7
<1> HIDE DEF P
<1>6. L \in P
  <2>1. \A n \in 0 .. L : n \in P
    BY <1>4, <1>5, Numbers!UpTo
  <2> QED BY <2>1
<1>7. Ordered(turn[L].heap) /\ Same(turn[L].heap, h)
  <2>1. CASE Lv[turn[L].at] >= L + 1
    <3>1. turn[L].at \in Nat /\ turn[L].at <= Len(h)
      BY <1>6 DEF P, Place, Same
    <3>2. Lv[turn[L].at] <= L /\ Lv[turn[L].at] \in Nat
      <4>1. Len(h) \in Nat
        OBVIOUS
      <4>2. Lv[turn[L].at] <= Lv[Len(h)]
        BY <3>1, <4>1, LevelsGrow
      <4> QED BY <1>0, <3>1, <4>2, LevelsAre
    <3> QED BY <2>1, <3>2
  <2> QED BY <1>6, <2>1 DEF P
<1>8. CASE Heap!SmallestOfThree(h, 1) = 1
  <2>1. Heap!SinkTurn(turn[0]) = turn[0]
    BY <1>3, <1>8 DEF Heap!SinkTurn
  <2>2. Ordered(h)
    BY <1>3, <2>1, SinkTurnFacts
  <2> QED BY <1>2, <1>8, <2>2, SameSame
<1> QED BY <1>2, <1>7, <1>8

LEMMA RiseOrders ==
    ASSUME NEW h \in Seq(Wait), h # << >>, OrderedAbove(h, Len(h))
    PROVE  Same(Heap!Rise(h), h) /\ Ordered(Heap!Rise(h))
<1>0. PICK L \in Nat : L = Lv[Len(h)]
  BY LevelsAre
<1>2. PICK turn : /\ turn[0] = [heap |-> h, at |-> Len(h)]
                  /\ \A k \in 1 .. L : turn[k] = Heap!RiseTurn(turn[k - 1])
                  /\ Heap!Rise(h) = turn[L].heap
  BY <1>0, RiseRecursion
<1>3. turn[0] \in Place /\ turn[0].heap = h /\ turn[0].at = Len(h)
  BY <1>2 DEF Place
<1> DEFINE P == {k \in 0 .. L : /\ turn[k] \in Place /\ Same(turn[k].heap, h)
                                /\ OrderedAbove(turn[k].heap, turn[k].at)
                                /\ Ordered(turn[k].heap) \/ Lv[turn[k].at] + k <= L}
<1>4. 0 \in P
  BY <1>0, <1>3, SameSame
<1>5. ASSUME NEW k \in 0 .. L - 1, k \in P PROVE k + 1 \in P
  <2>1. PICK s : s = turn[k]
    OBVIOUS
  <2>2. PICK r : r = turn[k + 1]
    OBVIOUS
  <2>3. k + 1 \in 1 .. L /\ (k + 1) - 1 = k /\ k + 1 \in 0 .. L
    OBVIOUS
  <2>4. r = Heap!RiseTurn(s)
    BY <1>2, <2>1, <2>2, <2>3
  <2>5. /\ s \in Place /\ Same(s.heap, h) /\ OrderedAbove(s.heap, s.at)
        /\ Ordered(s.heap) \/ Lv[s.at] + k <= L
    BY <1>5, <2>1
  <2>6. /\ r \in Place /\ Same(r.heap, h) /\ OrderedAbove(r.heap, r.at)
        /\ r = s \/ (s.at > 1 /\ r.at = Up(s.at))
        /\ r = s => Ordered(s.heap)
    BY <2>4, <2>5, RiseTurnFacts, SameSame
  <2>7. Ordered(r.heap) \/ Lv[r.at] + (k + 1) <= L
    <3>1. CASE Ordered(s.heap)
      BY <2>4, <2>5, <3>1, StaysOrdered
    <3>2. CASE ~ Ordered(s.heap)
      <4>1. Up(s.at) = r.at /\ Lv[s.at] + k <= L
        BY <2>5, <2>6, <3>2
      <4>2. s.at \in Nat \ {0} /\ r.at \in Nat
        BY <2>5, <2>6 DEF Place
      <4>3. Lv[s.at] = 1 + Lv[r.at] /\ Lv[r.at] \in Nat
        BY <4>1, <4>2, LevelsAre DEF Up
      <4> QED BY <4>1, <4>3
    <3> QED BY <3>1, <3>2
  <2> QED BY <2>2, <2>3, <2>6, <2>7
<1> HIDE DEF P
<1>6. L \in P
  <2>1. \A n \in 0 .. L : n \in P
    BY <1>4, <1>5, Numbers!UpTo
  <2> QED BY <2>1
<1>7. Ordered(turn[L].heap) /\ Same(turn[L].heap, h)
  <2>1. CASE Lv[turn[L].at] + L <= L
    <3>1. turn[L].at \in Nat \ {0}
      BY <1>6 DEF P, Place
    <3>2. Lv[turn[L].at] = 1 + Lv[turn[L].at \div 2] /\ Lv[turn[L].at \div 2] \in Nat
      BY <3>1, Halves, LevelsAre
    <3> QED BY <2>1, <3>2
  <2> QED BY <1>6, <2>1 DEF P
<1> QED BY <1>2, <1>7

----------------------------------------------------------------------------
(* The heap: what it does. *)

\* An element that is added is in the queue with all those that were, and nothing else.
THEOREM EnqueueAdds ==
    ASSUME NEW h \in Seq(Wait), Ordered(h), NEW e \in Wait
    PROVE  LET r == Heap!Enqueue(h, e)
           IN  /\ r \in Seq(Wait) /\ Len(r) = Len(h) + 1 /\ Ordered(r)
               /\ \A w : Holds(r, w) <=> Holds(h, w) \/ w = e
               /\ OneEach(h) /\ (\A i \in 1 .. Len(h) : h[i].tid.slot # e.tid.slot) => OneEach(r)
<1>1. PICK L \in Nat : L = Len(h)
  OBVIOUS
<1>2. PICK g : g = Append(h, e)
  OBVIOUS
<1>3. /\ g \in Seq(Wait) /\ Len(g) = L + 1 /\ g # << >> /\ g[L + 1] = e
      /\ \A k \in 1 .. L : g[k] = h[k]
  BY <1>1, <1>2
<1>4. \A k \in 2 .. L + 1 : Up(k) \in 1 .. L /\ Up(k) < k
  BY <1>1, Halves DEF Up
<1>5. OrderedAbove(g, L + 1)
  <2> SUFFICES ASSUME NEW k \in 2 .. L + 1
               PROVE  /\ k # L + 1 => g[Up(k)].ticks <= g[k].ticks
                      /\ Up(k) # L + 1
    BY <1>3 DEF OrderedAbove
  <2>1. k # L + 1 => k \in 2 .. L /\ k \in 1 .. L
    BY <1>1
  <2> QED BY <1>1, <1>3, <1>4, <2>1 DEF Ordered
<1>6. \A w : Holds(g, w) <=> Holds(h, w) \/ w = e
  BY <1>1, <1>3 DEF Holds
<1>7. OneEach(h) /\ (\A i \in 1 .. Len(h) : h[i].tid.slot # e.tid.slot) => OneEach(g)
  BY <1>1, <1>3 DEF OneEach
<1>8. Same(Heap!Rise(g), g) /\ Ordered(Heap!Rise(g))
  BY <1>3, <1>5, RiseOrders
<1>9. Heap!Enqueue(h, e) = Heap!Rise(g)
  BY <1>2 DEF Heap!Enqueue
<1> QED BY <1>1, <1>3, <1>6, <1>7, <1>8, <1>9 DEF Same

\* What is taken off is a smallest element, and the others stay.
THEOREM DequeueTakesLeast ==
    ASSUME NEW h \in Seq(Wait), h # << >>, Ordered(h), OneEach(h)
    PROVE  LET r == Heap!Dequeue(h)
           IN  /\ r \in Seq(Wait) /\ Len(r) = Len(h) - 1 /\ Ordered(r) /\ OneEach(r)
               /\ \A w : Holds(r, w) <=> Holds(h, w) /\ w # Heap!Peek(h)
               /\ \A w : Holds(h, w) => Heap!Peek(h).ticks <= w.ticks
<1>1. PICK L \in Nat \ {0} : L = Len(h)
  OBVIOUS
<1>2. PICK f : f = Heap!Swap(h, 1, L)
  OBVIOUS
<1>3. /\ Same(f, h) /\ f[1] = h[L] /\ f[L] = h[1]
      /\ \A k \in 2 .. L - 1 : f[k] = h[k]
  <2>1. CASE L = 1
    <3>1. f = [[h EXCEPT ![1] = h[1]] EXCEPT ![1] = h[1]]
      BY <1>2, <2>1 DEF Heap!Swap
    <3>2. f = h
      BY <1>1, <3>1
    <3> QED BY <1>1, <2>1, <3>2, SameSame
  <2>2. CASE L # 1
    <3>1. /\ Same(f, h) /\ f[1] = h[L] /\ f[L] = h[1]
          /\ \A k \in 1 .. L : k # 1 /\ k # L => f[k] = h[k]
      <4>1. 1 \in 1 .. L /\ L \in 1 .. L
        BY <1>1
      <4> QED BY <1>1, <1>2, <2>2, <4>1, SwapFacts
    <3>2. \A k \in 2 .. L - 1 : k \in 1 .. L /\ k # 1 /\ k # L
      BY <1>1
    <3> QED BY <3>1, <3>2
  <2> QED BY <2>1, <2>2
<1>4. PICK g : g = SubSeq(f, 1, L - 1)
  OBVIOUS
<1>5. /\ g \in Seq(Wait) /\ Len(g) = L - 1 /\ \A k \in 1 .. L - 1 : g[k] = f[k]
  BY <1>1, <1>3, <1>4 DEF Same
<1>6. \A k \in 2 .. L - 1 : /\ k \in 2 .. L /\ Up(k) \in 1 .. L - 1 /\ Up(k) < k
                            /\ Up(k) # 1 => Up(k) \in 2 .. L - 1
  BY <1>1, Halves DEF Up
<1>7. OrderedBelow(g, 1)
  <2> SUFFICES ASSUME NEW k \in 2 .. L - 1, Up(k) # 1 PROVE g[Up(k)].ticks <= g[k].ticks
    BY <1>5 DEF OrderedBelow
  <2>1. k \in 1 .. L - 1 /\ g[k] = h[k]
    BY <1>1, <1>3, <1>5
  <2>2. Up(k) \in 2 .. L - 1 /\ Up(k) \in 1 .. L - 1
    BY <1>6
  <2>3. g[Up(k)] = h[Up(k)]
    BY <1>3, <1>5, <2>2
  <2>4. k \in 2 .. Len(h)
    BY <1>1, <1>6
  <2> QED BY <2>1, <2>3, <2>4 DEF Ordered
<1>8. /\ OneEach(g)
      /\ \A w : Holds(g, w) <=> Holds(h, w) /\ w # h[1]
  <2>1. OneEach(f) /\ Len(f) = L
    BY <1>1, <1>3 DEF Same
  <2>2. \A k \in 1 .. L - 1 : k \in 1 .. L /\ k # L /\ f[k] # f[L]
    BY <1>1, <2>1 DEF OneEach
  <2>3. OneEach(g)
    BY <1>5, <2>1, <2>2 DEF OneEach
  <2>4. \A w : Holds(g, w) <=> Holds(f, w) /\ w # f[L]
    <3>1. \A k \in 1 .. L : k = L \/ k \in 1 .. L - 1
      BY <1>1
    <3>2. \A w : Holds(g, w) <=> \E k \in 1 .. L - 1 : f[k] = w
      BY <1>5 DEF Holds
    <3>3. \A w : Holds(f, w) <=> \E k \in 1 .. L : f[k] = w
      BY <2>1 DEF Holds
    <3> QED BY <2>2, <3>1, <3>2, <3>3
  <2> QED BY <1>3, <2>3, <2>4 DEF Same
<1>9. Same(Heap!Sink(g, 1), g) /\ Ordered(Heap!Sink(g, 1))
  <2>1. CASE g = << >>
    <3>1. Heap!Sink(g, 1) = g
      <4>1. Len(g) = 0
        BY <2>1
      <4>2. Heap!SmallestOfThree(g, 1) = 1
        BY <4>1 DEF Heap!SmallestOfThree, Heap!Smaller, Heap!Left, Heap!Right
      <4> QED BY <4>2 DEF Heap!Sink
    <3>2. Ordered(g)
      <4>1. Len(g) = 0
        BY <2>1
      <4>2. \A k \in 2 .. Len(g) : FALSE
        BY <4>1
      <4> QED BY <4>2 DEF Ordered
    <3>3. Same(g, g)
      BY <1>5, SameSame
    <3> QED BY <3>1, <3>2, <3>3
  <2>2. CASE g # << >>
    BY <1>5, <1>7, <2>2, SinkOrders
  <2> QED BY <2>1, <2>2
<1>10. Heap!Dequeue(h) = Heap!Sink(g, 1) /\ Heap!Peek(h) = h[1]
  BY <1>1, <1>2, <1>4 DEF Heap!Dequeue, Heap!Peek
<1>11. \A w : Holds(h, w) => h[1].ticks <= w.ticks
  BY FirstLeast DEF Holds
<1> QED BY <1>1, <1>5, <1>8, <1>9, <1>10, <1>11 DEF Same

----------------------------------------------------------------------------
(* The server with its queue. *)

\* A slot is not used again while the queue holds a record of a task killed in it:
\* otherwise the record finds another task (usr/clock.c:29; ClockWrongTask.cfg).
NoStaleRecord == MaxGeneration = 1 \/ "delayed" \notin MayKill

\* The queue has room for every task: CLOCK_WAIT_QUEUE_SIZE and MAX_TASKS are both 64
\* (usr/lib/clock_wait_queue.h:25, lib/constants.h:9).
QueueFits == IsFiniteSet(Slots) /\ Cardinality(Slots) <= QueueSize

\* No time to wait for is beyond the greatest int32_t.
NoWrap == \A d \in Delays : d + MaxTicks <= IntMax

ServerTypes ==
    /\ now <= MaxTicks /\ ticks \in Nat /\ ticks <= MaxTicks
    /\ state \in [Slots -> {"dead", "ready", "sending", "delayed", "elsewhere"}]
    /\ due \in [Slots -> Int]
    /\ queue \in Seq(Wait)
    /\ serverAt \in {"receive", "wake"}

\* The task in a slot that is used up, or in use.
Generations ==
    \A s \in Slots : state[s] # "dead" => generation[s] >= 1 /\ generation[s] <= MaxGeneration

\* Every message of a client is from one that waits for the server to receive it.
AsksOnce ==
    /\ \A i \in DOMAIN inbox : ~ IsReport(inbox[i]) =>
          /\ state[inbox[i].tid.slot] = "sending"
          /\ inbox[i].type = "MESSAGE_DELAY" => inbox[i].arg \in Delays
    /\ \A i, j \in DOMAIN inbox :
          /\ ~ IsReport(inbox[i]) /\ ~ IsReport(inbox[j])
          /\ inbox[i].tid.slot = inbox[j].tid.slot
          => i = j

\* What the queue holds.
Held(h) == {h[i] : i \in 1 .. Len(h)}

\* The task of a record waits until the time in it, or is dead for good.
Awaited(w) ==
    \/ state[w.tid.slot] = "delayed" /\ due[w.tid.slot] = w.ticks
    \/ state[w.tid.slot] = "dead" /\ generation[w.tid.slot] >= MaxGeneration

Records ==
    /\ Ordered(queue) /\ OneEach(queue)
    /\ \A w \in Held(queue) : Awaited(w)
    /\ serverAt = "receive" => \A w \in Held(queue) : w.ticks > ticks

\* Who waits is in the queue, and nobody else has a time to wait for.
Waiting ==
    \A s \in Slots :
        IF state[s] = "delayed"
        THEN due[s] > 0 /\ \E w \in Held(queue) : w.tid.slot = s /\ w.ticks = due[s]
        ELSE due[s] = 0

ServerInv == CountInv /\ ServerTypes /\ Generations /\ AsksOnce /\ Records /\ Waiting

LEMMA HeldFacts ==
    ASSUME NEW h \in Seq(Wait)
    PROVE  /\ \A w : w \in Held(h) <=> Holds(h, w)
           /\ \A w \in Held(h) : w \in Wait /\ w.ticks \in Int /\ w.tid.slot \in Slots
<1>1. \A w : w \in Held(h) <=> Holds(h, w)
  BY DEF Held, Holds
<1>2. \A w \in Held(h) : w \in Wait /\ w.ticks \in Int /\ w.tid.slot \in Slots
  BY WaitFacts DEF Held
<1> QED BY <1>1, <1>2

\* Fewer records than there are slots leave room for one more.
LEMMA QueueHasRoom ==
    ASSUME QueueFits, NEW h \in Seq(Wait), OneEach(h), NEW s \in Slots,
           \A w \in Held(h) : w.tid.slot # s
    PROVE  ~ Heap!IsFull(h)
<1>1. PICK L \in Nat : L = Len(h)
  OBVIOUS
<1>2. IsFiniteSet(Slots) /\ Cardinality(Slots) \in Nat /\ Cardinality(Slots) <= QueueSize
  BY FS_CardinalityType DEF QueueFits
<1> DEFINE f == [i \in 1 .. L + 1 |-> IF i = L + 1 THEN s ELSE h[i].tid.slot]
<1>3. \A i \in 1 .. L + 1 : i \in 1 .. L \/ i = L + 1
  BY <1>1
<1>4. \A i \in 1 .. L : h[i].tid.slot \in Slots /\ h[i].tid.slot # s
  BY <1>1, WaitFacts DEF Held
<1>5. f \in [1 .. L + 1 -> Slots]
  BY <1>3, <1>4
<1>6. \A i, j \in 1 .. L + 1 : f[i] = f[j] => i = j
  BY <1>1, <1>3, <1>4 DEF OneEach
<1>7. IsFiniteSet(1 .. L + 1) /\ Cardinality(1 .. L + 1) = L + 1
  <2>1. 1 \in Int /\ L + 1 \in Int /\ ~ (1 > L + 1) /\ (L + 1) - 1 + 1 = L + 1
    BY <1>1
  <2> QED BY <2>1, FS_Interval
<1> HIDE DEF f
<1>8. ~ (Cardinality(Slots) < L + 1)
  BY <1>2, <1>5, <1>6, <1>7, FS_PigeonHole
<1> QED BY <1>1, <1>2, <1>8, ClockAssumption DEF Heap!IsFull

----------------------------------------------------------------------------
(* What a step leaves alone. *)

\* The queue of the next state, as a constant.
LEMMA NextQueue ==
    ASSUME NEW q \in Seq(Wait), q = queue', Ordered(q), OneEach(q),
           \A w \in Held(q) :
              \/ state'[w.tid.slot] = "delayed" /\ due'[w.tid.slot] = w.ticks
              \/ state'[w.tid.slot] = "dead" /\ generation'[w.tid.slot] >= MaxGeneration,
           serverAt' = "receive" => \A w \in Held(q) : w.ticks > ticks',
           \A s \in Slots :
              IF state'[s] = "delayed"
              THEN due'[s] > 0 /\ \E w \in Held(q) : w.tid.slot = s /\ w.ticks = due'[s]
              ELSE due'[s] = 0
    PROVE  Records' /\ Waiting'
<1>1. /\ Ordered(queue)' /\ OneEach(queue)'
      /\ \A w : w \in Held(queue)' <=> w \in Held(q)
  BY DEF Ordered, OneEach, Held
<1>2. Records'
  BY <1>1 DEF Records, Awaited
<1>3. Waiting'
  BY <1>1 DEF Waiting
<1> QED BY <1>2, <1>3

LEMMA QueueKept ==
    ASSUME ServerInv, UNCHANGED <<queue, due>>,
           \A s \in Slots : state'[s] = "delayed" <=> state[s] = "delayed",
           \A s \in Slots : state[s] = "dead" /\ generation[s] >= MaxGeneration =>
                            state'[s] = "dead" /\ generation'[s] >= MaxGeneration,
           serverAt' = "receive" => UNCHANGED <<ticks, serverAt>>
    PROVE  Records' /\ Waiting'
<1>1. queue \in Seq(Wait) /\ Ordered(queue) /\ OneEach(queue)
  BY DEF ServerInv, ServerTypes, Records
<1>2. ASSUME NEW w \in Held(queue)
      PROVE  \/ state'[w.tid.slot] = "delayed" /\ due'[w.tid.slot] = w.ticks
             \/ state'[w.tid.slot] = "dead" /\ generation'[w.tid.slot] >= MaxGeneration
  <2>1. w.tid.slot \in Slots
    BY <1>1, HeldFacts
  <2> QED BY <2>1 DEF ServerInv, Records, Awaited
<1>3. serverAt' = "receive" => \A w \in Held(queue) : w.ticks > ticks'
  BY DEF ServerInv, Records
<1>4. ASSUME NEW s \in Slots
      PROVE  IF state'[s] = "delayed"
             THEN due'[s] > 0 /\ \E w \in Held(queue) : w.tid.slot = s /\ w.ticks = due'[s]
             ELSE due'[s] = 0
  BY DEF ServerInv, Waiting
<1>5. PICK q : q = queue
  OBVIOUS
<1> QED BY <1>1, <1>2, <1>3, <1>4, <1>5, NextQueue

LEMMA MessagesKept ==
    ASSUME ServerInv, UNCHANGED inbox,
           \A s \in Slots : state[s] = "sending" => state'[s] = "sending"
    PROVE  AsksOnce'
<1>1. \A i \in DOMAIN inbox : ~ IsReport(inbox[i]) => inbox[i].tid.slot \in Slots
  <2>1. inbox \in Seq(Message)
    BY DEF ServerInv, CountInv, CountTypes
  <2>2. \A i \in DOMAIN inbox : inbox[i] \in Message
    BY <2>1
  <2> QED BY <2>2 DEF Message, Client, IsReport
<1> QED BY <1>1 DEF ServerInv, AsksOnce, IsReport

LEMMA GenerationsKept ==
    ASSUME ServerInv, UNCHANGED generation,
           \A s \in Slots : state'[s] # "dead" => state[s] # "dead"
    PROVE  Generations'
BY DEF ServerInv, Generations

\* A message of a client is from one that waits for nothing else.
LEMMA ClientsMessage ==
    ASSUME ServerInv, NEW type, type # "MESSAGE_NOTIFIER", Receives(type),
           NEW m, m = Head(inbox)
    PROVE  /\ m.tid \in Client /\ m.tid.slot \in Slots /\ m.arg \in Int
           /\ state[m.tid.slot] = "sending"
           /\ type = "MESSAGE_DELAY" => m.arg \in Delays
           /\ (\A r \in Slots : r # m.tid.slot => state'[r] = state[r]) => AsksOnce'
<1>1. inbox \in Seq(Message) /\ inbox # << >> /\ inbox' = Tail(inbox) /\ m.type = type
  BY DEF ServerInv, CountInv, CountTypes, Receives
<1>2. /\ inbox' \in Seq(Message) /\ m = inbox[1] /\ 1 \in DOMAIN inbox
      /\ \A i \in DOMAIN inbox' :
            i + 1 \in DOMAIN inbox /\ i + 1 # 1 /\ inbox'[i] = inbox[i + 1]
  BY <1>1, Leaves
<1>3. \A i \in DOMAIN inbox : inbox[i] \in Message
  BY <1>1
<1>4. \A i \in DOMAIN inbox : ~ IsReport(inbox[i]) =>
         inbox[i].tid \in Client /\ inbox[i].tid.slot \in Slots /\ inbox[i].arg \in Int
  BY <1>3 DEF Message, Client, IsReport
<1>5. ~ IsReport(inbox[1])
  BY <1>1, <1>2 DEF IsReport
<1>6. state[m.tid.slot] = "sending" /\ (type = "MESSAGE_DELAY" => m.arg \in Delays)
  BY <1>1, <1>2, <1>5 DEF ServerInv, AsksOnce
<1>7. ASSUME \A r \in Slots : r # m.tid.slot => state'[r] = state[r]
      PROVE  AsksOnce'
  <2>1. ASSUME NEW i \in DOMAIN inbox', ~ IsReport(inbox'[i])
        PROVE  /\ state'[inbox'[i].tid.slot] = "sending"
               /\ inbox'[i].type = "MESSAGE_DELAY" => inbox'[i].arg \in Delays
    <3>1. i + 1 \in DOMAIN inbox /\ i + 1 # 1 /\ inbox'[i] = inbox[i + 1]
      BY <1>2
    <3>2. inbox[i + 1].tid.slot \in Slots /\ inbox[i + 1].tid.slot # m.tid.slot
      BY <1>2, <1>4, <1>5, <2>1, <3>1 DEF ServerInv, AsksOnce
    <3> QED BY <1>7, <2>1, <3>1, <3>2 DEF ServerInv, AsksOnce
  <2>2. ASSUME NEW i \in DOMAIN inbox', NEW j \in DOMAIN inbox',
               ~ IsReport(inbox'[i]), ~ IsReport(inbox'[j]),
               inbox'[i].tid.slot = inbox'[j].tid.slot
        PROVE  i = j
    <3>1. /\ i + 1 \in DOMAIN inbox /\ inbox'[i] = inbox[i + 1]
          /\ j + 1 \in DOMAIN inbox /\ inbox'[j] = inbox[j + 1]
      BY <1>2
    <3>2. i + 1 = j + 1
      BY <2>2, <3>1 DEF ServerInv, AsksOnce
    <3>3. i \in Int /\ j \in Int
      BY <1>2
    <3> QED BY <3>2, <3>3
  <2> QED BY <2>1, <2>2 DEF AsksOnce, IsReport
<1> QED BY <1>2, <1>4, <1>5, <1>6, <1>7

----------------------------------------------------------------------------
(* The clients keep the invariant. *)

LEMMA AsksStep ==
    ASSUME ServerInv, NEW s \in Slots, NEW arg \in Int,
           NEW type \in {"MESSAGE_TIME", "MESSAGE_DELAY", "MESSAGE_DELAY_UNTIL"},
           type = "MESSAGE_DELAY" => arg \in Delays,
           Asks(s, type, arg)
    PROVE  ServerTypes' /\ Generations' /\ AsksOnce' /\ Records' /\ Waiting'
<1> DEFINE m == [type |-> type, tid |-> Tid(s), arg |-> arg]
<1>1. /\ state[s] = "ready" /\ state' = [state EXCEPT ![s] = "sending"]
      /\ inbox' = Append(inbox, m)
      /\ UNCHANGED <<now, ticks, queue, serverAt, notifier, generation, due>>
  BY DEF Asks
<1>2. m \in Message /\ ~ IsReport(m) /\ m.tid.slot = s /\ m.arg = arg /\ m.type = type
  BY DEF ServerInv, CountInv, CountTypes, Message, Client, Tid, IsReport
<1> HIDE DEF m
<1>3. /\ state \in [Slots -> {"dead", "ready", "sending", "delayed", "elsewhere"}]
      /\ inbox \in Seq(Message)
  BY DEF ServerInv, ServerTypes, CountInv, CountTypes
<1>4. state'[s] = "sending" /\ \A r \in Slots : r # s => state'[r] = state[r]
  BY <1>1, <1>3
<1>5. ServerTypes'
  BY <1>1, <1>3 DEF ServerInv, ServerTypes
<1>6. Generations'
  BY <1>1, <1>4, GenerationsKept
<1>7. Records' /\ Waiting'
  <2>1. \A r \in Slots : state'[r] = "delayed" <=> state[r] = "delayed"
    BY <1>1, <1>4
  <2>2. \A r \in Slots : state[r] = "dead" /\ generation[r] >= MaxGeneration =>
                         state'[r] = "dead" /\ generation'[r] >= MaxGeneration
    BY <1>1, <1>4
  <2> QED BY <1>1, <2>1, <2>2, QueueKept
<1>8. PICK l : l = Len(inbox) + 1
  OBVIOUS
<1>9. /\ \A i \in DOMAIN inbox' : IF i = l THEN inbox'[i] = m
                                  ELSE i \in DOMAIN inbox /\ inbox'[i] = inbox[i]
  BY <1>1, <1>2, <1>3, <1>8, Arrives
<1>10. \A i \in DOMAIN inbox : ~ IsReport(inbox[i]) =>
          /\ inbox[i].tid.slot \in Slots /\ state[inbox[i].tid.slot] = "sending"
          /\ inbox[i].tid.slot # s
  <2>1. \A i \in DOMAIN inbox : inbox[i] \in Message
    BY <1>3
  <2>2. \A i \in DOMAIN inbox : ~ IsReport(inbox[i]) => inbox[i].tid.slot \in Slots
    BY <2>1 DEF Message, Client, IsReport
  <2> QED BY <1>1, <2>2 DEF ServerInv, AsksOnce
<1>11. ASSUME NEW i \in DOMAIN inbox', ~ IsReport(inbox'[i])
       PROVE  /\ state'[inbox'[i].tid.slot] = "sending"
              /\ inbox'[i].type = "MESSAGE_DELAY" => inbox'[i].arg \in Delays
  <2>1. CASE i = l
    BY <1>2, <1>4, <1>9, <2>1
  <2>2. CASE i # l
    BY <1>4, <1>9, <1>10, <1>11, <2>2 DEF ServerInv, AsksOnce
  <2> QED BY <2>1, <2>2
<1>12. ASSUME NEW i \in DOMAIN inbox', NEW j \in DOMAIN inbox',
              ~ IsReport(inbox'[i]), ~ IsReport(inbox'[j]),
              inbox'[i].tid.slot = inbox'[j].tid.slot
       PROVE  i = j
  <2>1. CASE i # l /\ j # l
    BY <1>9, <1>12, <2>1 DEF ServerInv, AsksOnce
  <2>2. CASE i = l \/ j = l
    BY <1>2, <1>9, <1>10, <1>12, <2>2
  <2> QED BY <2>1, <2>2
<1>13. AsksOnce'
  BY <1>11, <1>12 DEF AsksOnce, IsReport
<1> QED BY <1>5, <1>6, <1>7, <1>13

\* A killed task leaves its record behind, and its slot is not used again.
LEMMA KilledStep ==
    ASSUME ServerInv, NoStaleRecord, NEW s \in Slots, Killed(s)
    PROVE  ServerTypes' /\ Generations' /\ AsksOnce' /\ Records' /\ Waiting'
<1>1. /\ state[s] \in MayKill /\ state' = [state EXCEPT ![s] = "dead"]
      /\ due' = [due EXCEPT ![s] = 0]
      /\ UNCHANGED <<now, ticks, queue, inbox, serverAt, generation>>
  BY DEF Killed, server
<1>2. state[s] \in {"delayed", "elsewhere"}
  BY <1>1, ClockAssumption
<1>3. ServerTypes
  BY DEF ServerInv
<1>4. /\ state'[s] = "dead" /\ due'[s] = 0
      /\ \A r \in Slots : r # s => state'[r] = state[r] /\ due'[r] = due[r]
  BY <1>1, <1>3 DEF ServerTypes
<1>5. ServerTypes'
  BY <1>1, <1>3 DEF ServerTypes
<1>6. Generations'
  BY <1>1, <1>2, <1>4, GenerationsKept
<1>7. AsksOnce'
  BY <1>1, <1>2, <1>4, MessagesKept
<1>8. state[s] = "delayed" => generation[s] >= MaxGeneration
  BY <1>1, ClockAssumption DEF NoStaleRecord, ServerInv, Generations
<1>9. queue \in Seq(Wait) /\ Ordered(queue) /\ OneEach(queue)
  BY DEF ServerInv, ServerTypes, Records
<1>10. ASSUME NEW w \in Held(queue)
       PROVE  \/ state'[w.tid.slot] = "delayed" /\ due'[w.tid.slot] = w.ticks
              \/ state'[w.tid.slot] = "dead" /\ generation'[w.tid.slot] >= MaxGeneration
  <2>1. w.tid.slot \in Slots /\ Awaited(w)
    BY <1>9, HeldFacts DEF ServerInv, Records
  <2>2. CASE w.tid.slot = s
    BY <1>1, <1>2, <1>4, <1>8, <2>1, <2>2 DEF Awaited
  <2>3. CASE w.tid.slot # s
    BY <1>1, <1>4, <2>1, <2>3 DEF Awaited
  <2> QED BY <2>2, <2>3
<1>11. serverAt' = "receive" => \A w \in Held(queue) : w.ticks > ticks'
  BY <1>1 DEF ServerInv, Records
<1>12. ASSUME NEW r \in Slots
       PROVE  IF state'[r] = "delayed"
              THEN due'[r] > 0 /\ \E w \in Held(queue) : w.tid.slot = r /\ w.ticks = due'[r]
              ELSE due'[r] = 0
  BY <1>4 DEF ServerInv, Waiting
<1>13. PICK q : q = queue
  OBVIOUS
<1>14. q = queue'
  BY <1>1, <1>13
<1>15. Records' /\ Waiting'
  BY <1>9, <1>10, <1>11, <1>12, <1>13, <1>14, NextQueue
<1> QED BY <1>5, <1>6, <1>7, <1>15

LEMMA ClientKeeps ==
    ASSUME ServerInv, NoStaleRecord, NEW s \in Slots, ClientStep(s)
    PROVE  ServerTypes' /\ Generations' /\ AsksOnce' /\ Records' /\ Waiting'
<1>1. CASE AsksTime(s)
  BY <1>1, AsksStep DEF AsksTime
<1>2. CASE AsksDelay(s)
  BY <1>2, AsksStep, ClockAssumption DEF AsksDelay
<1>3. CASE AsksDelayUntil(s)
  BY <1>3, AsksStep, ClockAssumption DEF AsksDelayUntil
<1>4. CASE SendsElsewhere(s) \/ ElsewhereReplies(s) \/ Created(s)
  <2>1. /\ UNCHANGED <<now, ticks, queue, inbox, serverAt, due>>
        /\ state[s] \in {"ready", "elsewhere", "dead"} /\ state'[s] \in {"ready", "elsewhere"}
        /\ state' = [state EXCEPT ![s] = state'[s]]
        /\ \A r \in Slots : r # s => state'[r] = state[r]
    BY <1>4 DEF SendsElsewhere, ElsewhereReplies, Created, server, ServerInv, ServerTypes
  <2>2. ServerTypes'
    BY <2>1 DEF ServerInv, ServerTypes
  <2>3. \A r \in Slots : state'[r] = "delayed" <=> state[r] = "delayed"
    BY <2>1
  <2>4. AsksOnce'
    BY <2>1, MessagesKept
  <2>5. CASE SendsElsewhere(s) \/ ElsewhereReplies(s)
    <3>1. UNCHANGED generation /\ state[s] # "dead"
      BY <2>5 DEF SendsElsewhere, ElsewhereReplies
    <3>2. Generations'
      BY <2>1, <3>1, GenerationsKept
    <3>3. \A r \in Slots : state[r] = "dead" /\ generation[r] >= MaxGeneration =>
                           state'[r] = "dead" /\ generation'[r] >= MaxGeneration
      BY <2>1, <3>1
    <3> QED BY <2>1, <2>2, <2>3, <2>4, <3>2, <3>3, QueueKept
  <2>6. CASE Created(s)
    <3>1. /\ state[s] = "dead" /\ generation[s] < MaxGeneration
          /\ generation' = [generation EXCEPT ![s] = generation[s] + 1]
      BY <2>6 DEF Created
    <3>2. generation \in [Slots -> Nat]
      BY DEF ServerInv, CountInv, CountTypes
    <3>3. /\ generation'[s] = generation[s] + 1
          /\ \A r \in Slots : r # s => generation'[r] = generation[r]
      BY <3>1, <3>2
    <3>4. generation[s] \in Nat /\ MaxGeneration \in Nat
      BY <3>2, ClockAssumption
    <3>5. Generations'
      BY <2>1, <3>1, <3>3, <3>4 DEF ServerInv, Generations
    <3>6. \A r \in Slots : state[r] = "dead" /\ generation[r] >= MaxGeneration =>
                           state'[r] = "dead" /\ generation'[r] >= MaxGeneration
      BY <2>1, <3>1, <3>3, <3>4
    <3> QED BY <2>1, <2>2, <2>3, <2>4, <3>5, <3>6, QueueKept
  <2> QED BY <1>4, <2>5, <2>6
<1>5. CASE Killed(s)
  BY <1>5, KilledStep
<1> QED BY <1>1, <1>2, <1>3, <1>4, <1>5 DEF ClientStep

----------------------------------------------------------------------------
(* The server keeps the invariant. *)

\* The first in the queue waits for its answer, or is dead: no Assert of Reply.
LEMMA WakesFirst ==
    ASSUME ServerInv, WakeFirst, NEW w, w = Heap!Peek(queue)
    PROVE  /\ queue \in Seq(Wait) /\ queue # << >> /\ Ordered(queue) /\ OneEach(queue)
           /\ w \in Held(queue) /\ w.tid.slot \in Slots /\ w.ticks <= ticks
           /\ queue' = Heap!Dequeue(queue) /\ serverAt = "wake"
           /\ UNCHANGED <<now, ticks, inbox, serverAt, notifier, generation>>
           /\ \/ /\ state[w.tid.slot] = "delayed" /\ due[w.tid.slot] = w.ticks
                 /\ state' = [state EXCEPT ![w.tid.slot] = "ready"]
                 /\ due' = [due EXCEPT ![w.tid.slot] = 0]
              \/ state[w.tid.slot] = "dead" /\ UNCHANGED <<state, due>>
<1>1. /\ queue # << >> /\ w.ticks <= ticks /\ queue' = Heap!Dequeue(queue)
      /\ serverAt = "wake" /\ UNCHANGED <<now, ticks, inbox, notifier>>
  BY DEF WakeFirst, Overdue
<1>2. queue \in Seq(Wait) /\ Ordered(queue) /\ OneEach(queue)
  BY DEF ServerInv, ServerTypes, Records
<1>3. w \in Held(queue)
  <2>1. 1 \in 1 .. Len(queue)
    BY <1>1, <1>2
  <2> QED BY <2>1 DEF Held, Heap!Peek
<1>4. w.tid.slot \in Slots /\ Awaited(w)
  BY <1>2, <1>3, HeldFacts DEF ServerInv, Records
<1>5. PICK s : s = w.tid.slot
  OBVIOUS
<1>6. CASE state[s] = "delayed" /\ due[s] = w.ticks
  <2> DEFINE R == state[s] \in ReplyBlocked
             D == state[s] = "dead"
             A == LetGo(s, "ok") /\ UNCHANGED serverAt
             B == UNCHANGED <<clients, serverAt>>
             C == serverAt' = "failed" /\ UNCHANGED clients
  <2>1. (CASE R -> A [] D -> B [] OTHER -> C)
    BY <1>5 DEF WakeFirst
  <2>2. R /\ ~ D
    BY <1>6 DEF ReplyBlocked
  <2>3. A
    <3> HIDE DEF R, D, A, B, C
    <3> QED BY <2>1, <2>2
  <2> QED BY <1>1, <1>2, <1>3, <1>4, <1>5, <1>6, <2>3 DEF LetGo
<1>7. CASE state[s] = "dead"
  <2> DEFINE R == state[s] \in ReplyBlocked
             D == state[s] = "dead"
             A == LetGo(s, "ok") /\ UNCHANGED serverAt
             B == UNCHANGED <<clients, serverAt>>
             C == serverAt' = "failed" /\ UNCHANGED clients
  <2>1. (CASE R -> A [] D -> B [] OTHER -> C)
    BY <1>5 DEF WakeFirst
  <2>2. D /\ ~ R
    BY <1>7 DEF ReplyBlocked
  <2>3. B
    <3> HIDE DEF R, D, A, B, C
    <3> QED BY <2>1, <2>2
  <2> QED BY <1>1, <1>2, <1>3, <1>4, <1>5, <1>7, <2>3 DEF clients
<1> QED BY <1>4, <1>5, <1>6, <1>7 DEF Awaited

LEMMA WakeFirstStep ==
    ASSUME ServerInv, WakeFirst
    PROVE  ServerTypes' /\ Generations' /\ AsksOnce' /\ Records' /\ Waiting'
<1>1. PICK w : w = Heap!Peek(queue)
  OBVIOUS
<1>2. PICK s : s = w.tid.slot
  OBVIOUS
<1>3. /\ queue \in Seq(Wait) /\ queue # << >> /\ Ordered(queue) /\ OneEach(queue)
      /\ w \in Held(queue) /\ s \in Slots
      /\ queue' = Heap!Dequeue(queue) /\ serverAt = "wake"
      /\ UNCHANGED <<now, ticks, inbox, serverAt, notifier, generation>>
      /\ \/ /\ state[s] = "delayed" /\ due[s] = w.ticks
            /\ state' = [state EXCEPT ![s] = "ready"] /\ due' = [due EXCEPT ![s] = 0]
         \/ state[s] = "dead" /\ UNCHANGED <<state, due>>
  BY <1>1, <1>2, WakesFirst
<1>4. ServerTypes
  BY DEF ServerInv
<1>5. /\ \A r \in Slots : r # s => state'[r] = state[r] /\ due'[r] = due[r]
      /\ \/ state[s] = "delayed" /\ state'[s] = "ready" /\ due'[s] = 0
         \/ state[s] = "dead" /\ state'[s] = "dead" /\ due'[s] = due[s]
  BY <1>3, <1>4 DEF ServerTypes
<1>6. PICK q : q = Heap!Dequeue(queue)
  OBVIOUS
<1>7. /\ q \in Seq(Wait) /\ Ordered(q) /\ OneEach(q)
      /\ \A x : x \in Held(q) <=> x \in Held(queue) /\ x # w
  <2>1. /\ q \in Seq(Wait) /\ Ordered(q) /\ OneEach(q)
        /\ \A x : Holds(q, x) <=> Holds(queue, x) /\ x # w
    BY <1>1, <1>3, <1>6, DequeueTakesLeast
  <2> QED BY <1>3, <2>1, HeldFacts
<1>8. ServerTypes'
  <2>1. /\ state' \in [Slots -> {"dead", "ready", "sending", "delayed", "elsewhere"}]
        /\ due' \in [Slots -> Int]
    <3>0. /\ state \in [Slots -> {"dead", "ready", "sending", "delayed", "elsewhere"}]
          /\ due \in [Slots -> Int]
      BY <1>4 DEF ServerTypes
    <3>1. CASE UNCHANGED <<state, due>>
      BY <3>0, <3>1
    <3>2. CASE state' = [state EXCEPT ![s] = "ready"] /\ due' = [due EXCEPT ![s] = 0]
      <4>1. state' \in [Slots -> {"dead", "ready", "sending", "delayed", "elsewhere"}]
        BY <1>3, <3>0, <3>2
      <4>2. due' \in [Slots -> Int]
        BY <1>3, <3>0, <3>2
      <4> QED BY <4>1, <4>2
    <3> QED BY <1>3, <3>1, <3>2
  <2>2. queue' \in Seq(Wait)
    BY <1>3, <1>6, <1>7
  <2>3. UNCHANGED <<now, ticks, serverAt>>
    BY <1>3
  <2> QED BY <1>4, <2>1, <2>2, <2>3 DEF ServerTypes
<1>9. Generations'
  BY <1>3, <1>5, GenerationsKept
<1>10. AsksOnce'
  BY <1>3, <1>5, MessagesKept
<1>11. \A x \in Held(queue) : x # w => x.tid.slot # s
  BY <1>2, <1>3 DEF OneEach, Held
<1>12. ASSUME NEW x \in Held(q)
       PROVE  \/ state'[x.tid.slot] = "delayed" /\ due'[x.tid.slot] = x.ticks
              \/ state'[x.tid.slot] = "dead" /\ generation'[x.tid.slot] >= MaxGeneration
  <2>1. x \in Held(queue) /\ x.tid.slot # s
    BY <1>7, <1>11
  <2>2. x.tid.slot \in Slots /\ Awaited(x)
    BY <1>3, <2>1, HeldFacts DEF ServerInv, Records
  <2> QED BY <1>3, <1>5, <2>1, <2>2 DEF Awaited
<1>13. ASSUME NEW r \in Slots
       PROVE  IF state'[r] = "delayed"
              THEN due'[r] > 0 /\ \E x \in Held(q) : x.tid.slot = r /\ x.ticks = due'[r]
              ELSE due'[r] = 0
  <2>1. CASE r = s
    BY <1>3, <1>5, <2>1 DEF ServerInv, Waiting
  <2>2. CASE r # s
    <3>1. state'[r] = state[r] /\ due'[r] = due[r]
      BY <1>5, <2>2
    <3>2. CASE state[r] = "delayed"
      <4>1. due[r] > 0 /\ \E x \in Held(queue) : x.tid.slot = r /\ x.ticks = due[r]
        BY <3>2 DEF ServerInv, Waiting
      <4> QED BY <1>2, <1>7, <2>2, <3>1, <3>2, <4>1
    <3>3. CASE state[r] # "delayed"
      BY <3>1, <3>3 DEF ServerInv, Waiting
    <3> QED BY <3>2, <3>3
  <2> QED BY <2>1, <2>2
<1>14. q = queue' /\ serverAt' # "receive"
  BY <1>3, <1>6
<1>15. Records' /\ Waiting'
  BY <1>7, <1>12, <1>13, <1>14, NextQueue
<1> QED BY <1>8, <1>9, <1>10, <1>15

\* The loop ends when the first in the queue, and so everyone in it, has time left.
LEMMA WakeNoMoreStep ==
    ASSUME ServerInv, WakeNoMore
    PROVE  ServerTypes' /\ Generations' /\ AsksOnce' /\ Records' /\ Waiting'
<1>1. /\ ~ Overdue /\ serverAt' = "receive"
      /\ UNCHANGED <<now, ticks, queue, inbox, state, due, generation>>
  BY DEF WakeNoMore, clients
<1>2. ServerTypes' /\ Generations' /\ AsksOnce'
  BY <1>1, MessagesKept, GenerationsKept DEF ServerInv, ServerTypes
<1>3. queue \in Seq(Wait) /\ Ordered(queue) /\ OneEach(queue) /\ ticks \in Nat
  BY DEF ServerInv, ServerTypes, Records
<1>4. ASSUME NEW w \in Held(queue) PROVE w.ticks > ticks
  <2>1. PICK i \in 1 .. Len(queue) : w = queue[i]
    BY DEF Held
  <2>2. queue # << >> /\ 1 \in 1 .. Len(queue)
    BY <1>3, <2>1
  <2>3. ~ (queue[1].ticks <= ticks)
    BY <1>1, <2>2 DEF Overdue, Heap!Peek
  <2>4. queue[1].ticks <= w.ticks /\ queue[1].ticks \in Int /\ w.ticks \in Int
    BY <1>3, <2>1, <2>2, FirstLeast, WaitFacts
  <2> QED BY <1>3, <2>3, <2>4
<1>5. \A w \in Held(queue) :
         \/ state'[w.tid.slot] = "delayed" /\ due'[w.tid.slot] = w.ticks
         \/ state'[w.tid.slot] = "dead" /\ generation'[w.tid.slot] >= MaxGeneration
  BY <1>1 DEF ServerInv, Records, Awaited
<1>6. ASSUME NEW s \in Slots
      PROVE  IF state'[s] = "delayed"
             THEN due'[s] > 0 /\ \E w \in Held(queue) : w.tid.slot = s /\ w.ticks = due'[s]
             ELSE due'[s] = 0
  BY <1>1 DEF ServerInv, Waiting
<1>7. PICK q : q = queue
  OBVIOUS
<1>8. q = queue' /\ \A w \in Held(q) : w.ticks > ticks'
  BY <1>1, <1>4, <1>7
<1>9. Records' /\ Waiting'
  BY <1>3, <1>5, <1>6, <1>7, <1>8, NextQueue
<1> QED BY <1>2, <1>9

\* A client that is let go without having waited.
LEMMA LetsGoStep ==
    ASSUME ServerInv, NEW type, type # "MESSAGE_NOTIFIER", Receives(type),
           state' = [state EXCEPT ![Head(inbox).tid.slot] = "ready"],
           UNCHANGED <<now, ticks, queue, serverAt, generation, due>>
    PROVE  ServerTypes' /\ Generations' /\ AsksOnce' /\ Records' /\ Waiting'
<1>1. PICK m : m = Head(inbox)
  OBVIOUS
<1>2. m.tid.slot \in Slots /\ state[m.tid.slot] = "sending"
  BY <1>1, ClientsMessage
<1>3. ServerTypes
  BY DEF ServerInv
<1>4. /\ state'[m.tid.slot] = "ready"
      /\ \A r \in Slots : r # m.tid.slot => state'[r] = state[r]
  BY <1>1, <1>2, <1>3 DEF ServerTypes
<1>5. AsksOnce'
  BY <1>1, <1>4, ClientsMessage
<1>6. ServerTypes'
  BY <1>1, <1>2, <1>3 DEF ServerTypes
<1>7. Generations'
  BY <1>2, <1>4, GenerationsKept
<1>8. \A r \in Slots : state'[r] = "delayed" <=> state[r] = "delayed"
  BY <1>2, <1>4
<1>9. \A r \in Slots : state[r] = "dead" /\ generation[r] >= MaxGeneration =>
                       state'[r] = "dead" /\ generation'[r] >= MaxGeneration
  BY <1>2, <1>4
<1>10. Records' /\ Waiting'
  BY <1>8, <1>9, QueueKept
<1> QED BY <1>5, <1>6, <1>7, <1>10

\* A client that waits, for a time to come, finds room in the queue.
LEMMA EnqueuesStep ==
    ASSUME ServerInv, QueueFits, NEW type, type # "MESSAGE_NOTIFIER", Receives(type),
           NEW at \in Int, at > ticks, NEW s, s = Head(inbox).tid.slot,
           Enqueues(s, at, at), UNCHANGED <<now, ticks>>
    PROVE  /\ ServerTypes' /\ Generations' /\ AsksOnce' /\ Records' /\ Waiting'
           /\ s \in Slots /\ due[s] = 0 /\ due' = [due EXCEPT ![s] = at]
<1>1. PICK m : m = Head(inbox)
  OBVIOUS
<1>2. m.tid \in Client /\ s = m.tid.slot /\ s \in Slots /\ state[s] = "sending"
  BY <1>1, ClientsMessage
<1>3. ServerTypes /\ ticks \in Nat /\ serverAt = "receive"
  BY DEF ServerInv, ServerTypes, Receives
<1>4. queue \in Seq(Wait) /\ Ordered(queue) /\ OneEach(queue)
  BY DEF ServerInv, ServerTypes, Records
<1>5. PICK e : e = [tid |-> m.tid, ticks |-> at]
  OBVIOUS
<1>6. e \in Wait /\ e.tid.slot = s /\ e.ticks = at
  BY <1>2, <1>5 DEF Wait
<1>7. ASSUME NEW w \in Held(queue)
      PROVE  w.tid.slot \in Slots /\ w.tid.slot # s /\ Awaited(w) /\ w.ticks > ticks
  BY <1>2, <1>3, <1>4, HeldFacts DEF ServerInv, Records, Awaited
<1>8. ~ Heap!IsFull(queue)
  BY <1>2, <1>4, <1>7, QueueHasRoom
<1>9. /\ queue' = Heap!Enqueue(queue, e) /\ UNCHANGED <<serverAt, generation>>
      /\ state' = [state EXCEPT ![s] = "delayed"] /\ due' = [due EXCEPT ![s] = at]
  BY <1>1, <1>5, <1>8 DEF Enqueues
<1>10. PICK q : q = Heap!Enqueue(queue, e)
  OBVIOUS
<1>11. /\ q \in Seq(Wait) /\ Ordered(q) /\ OneEach(q)
       /\ \A w : w \in Held(q) <=> w \in Held(queue) \/ w = e
  <2>1. \A i \in 1 .. Len(queue) : queue[i].tid.slot # e.tid.slot
    BY <1>6, <1>7 DEF Held
  <2>2. /\ q \in Seq(Wait) /\ Ordered(q) /\ OneEach(q)
        /\ \A w : Holds(q, w) <=> Holds(queue, w) \/ w = e
    BY <1>4, <1>6, <1>10, <2>1, EnqueueAdds
  <2> QED BY <1>4, <2>2, HeldFacts
<1>12. /\ state'[s] = "delayed" /\ due'[s] = at
       /\ \A r \in Slots : r # s => state'[r] = state[r] /\ due'[r] = due[r]
  BY <1>2, <1>3, <1>9 DEF ServerTypes
<1>13. ServerTypes'
  BY <1>3, <1>9, <1>10, <1>11 DEF ServerTypes
<1>14. Generations'
  BY <1>2, <1>9, <1>12, GenerationsKept
<1>15. AsksOnce'
  BY <1>1, <1>2, <1>12, ClientsMessage
<1>16. ASSUME NEW w \in Held(q)
       PROVE  \/ state'[w.tid.slot] = "delayed" /\ due'[w.tid.slot] = w.ticks
              \/ state'[w.tid.slot] = "dead" /\ generation'[w.tid.slot] >= MaxGeneration
  <2>1. CASE w = e
    BY <1>6, <1>12, <2>1
  <2>2. CASE w # e
    <3>1. w.tid.slot \in Slots /\ w.tid.slot # s /\ Awaited(w)
      BY <1>7, <1>11, <2>2
    <3> QED BY <1>9, <1>12, <3>1 DEF Awaited
  <2> QED BY <2>1, <2>2
<1>17. \A w \in Held(q) : w.ticks > ticks'
  BY <1>6, <1>7, <1>11
<1>18. ASSUME NEW r \in Slots
       PROVE  IF state'[r] = "delayed"
              THEN due'[r] > 0 /\ \E w \in Held(q) : w.tid.slot = r /\ w.ticks = due'[r]
              ELSE due'[r] = 0
  <2>1. CASE r = s
    BY <1>3, <1>6, <1>11, <1>12, <2>1
  <2>2. CASE r # s
    BY <1>11, <1>12, <2>2 DEF ServerInv, Waiting
  <2> QED BY <2>1, <2>2
<1>19. Records' /\ Waiting'
  BY <1>9, <1>10, <1>11, <1>16, <1>17, <1>18, NextQueue
<1>20. due[s] = 0
  BY <1>2 DEF ServerInv, Waiting
<1> QED BY <1>2, <1>9, <1>13, <1>14, <1>15, <1>19, <1>20

----------------------------------------------------------------------------
(* The invariant, and what the server promises. *)

LEMMA ServerInit == Init => ServerInv
<1> SUFFICES ASSUME Init PROVE ServerInv
  OBVIOUS
<1>1. CountInv
  BY CountInit
<1>2. ServerTypes
  BY ClockAssumption DEF Init, ServerTypes
<1>3. Generations /\ AsksOnce
  BY DEF Init, Generations, AsksOnce
<1>4. queue = << >> /\ Len(queue) = 0
  BY DEF Init
<1>5. \A i \in 2 .. Len(queue) : FALSE
  BY <1>4
<1>6. \A i \in 1 .. Len(queue) : FALSE
  BY <1>4
<1>7. Records
  BY <1>5, <1>6 DEF Records, Ordered, OneEach, Held
<1>8. Waiting
  BY DEF Init, Waiting
<1> QED BY <1>1, <1>2, <1>3, <1>7, <1>8 DEF ServerInv

\* A delay ends at a time that int32_t holds.
LEMMA DelayEnds ==
    ASSUME NoWrap, ServerTypes, NEW d \in Delays, d > 0
    PROVE  WrapInt(ticks + d) = ticks + d /\ ticks + d \in Int /\ ticks + d > ticks
<1>1. PICK n \in Nat : n = ticks + d /\ n <= IntMax
  BY ClockAssumption DEF NoWrap, ServerTypes
<1>2. (n + IntMax + 1) % (2 * (IntMax + 1)) = n + IntMax + 1
  <2>1. n + IntMax + 1 \in Nat /\ n + IntMax + 1 < 2 * (IntMax + 1)
    BY <1>1, ClockAssumption
  <2> DEFINE x == n + IntMax + 1
             y == 2 * (IntMax + 1)
  <2>2. x \in Nat /\ y \in Nat /\ x < y
    BY <2>1, ClockAssumption
  <2> HIDE DEF x, y
  <2>3. x % y = x
    BY <2>2
  <2> QED BY <2>3 DEF x, y
<1>3. WrapInt(n) = n
  BY <1>1, <1>2, ClockAssumption DEF WrapInt
<1> QED BY <1>1, <1>3, ClockAssumption DEF ServerTypes

\* Delay and DelayUntil either fail at once or wait.
LEMMA DelayStep ==
    ASSUME ServerInv, QueueFits, NoWrap, HandleDelay \/ HandleDelayUntil
    PROVE  /\ ServerTypes' /\ Generations' /\ AsksOnce' /\ Records' /\ Waiting'
           /\ UNCHANGED ticks
           /\ \/ UNCHANGED due
              \/ \E s \in Slots, at \in Int :
                    due[s] = 0 /\ at > ticks /\ due' = [due EXCEPT ![s] = at]
<1>1. PICK m : m = Head(inbox)
  OBVIOUS
<1>2. PICK s : s = m.tid.slot
  OBVIOUS
<1>3. PICK type : /\ type \in {"MESSAGE_DELAY", "MESSAGE_DELAY_UNTIL"} /\ Receives(type)
                  /\ type = "MESSAGE_DELAY" => HandleDelay
                  /\ type = "MESSAGE_DELAY_UNTIL" => HandleDelayUntil
  <2>1. CASE HandleDelay
    BY <2>1 DEF HandleDelay
  <2>2. CASE HandleDelayUntil
    BY <2>2 DEF HandleDelayUntil
  <2> QED BY <2>1, <2>2
<1>4. /\ s \in Slots /\ state[s] = "sending" /\ m.arg \in Int
      /\ type = "MESSAGE_DELAY" => m.arg \in Delays
  BY <1>1, <1>2, <1>3, ClientsMessage
<1>5. due[s] = 0 /\ due \in [Slots -> Int] /\ ServerTypes
  BY <1>4 DEF ServerInv, Waiting, ServerTypes
<1>6. UNCHANGED <<now, ticks>>
  BY <1>3 DEF HandleDelay, HandleDelayUntil
<1>7. CASE LetGo(s, "error") /\ UNCHANGED <<queue, serverAt>>
  <2>1. state' = [state EXCEPT ![s] = "ready"] /\ UNCHANGED generation
    BY <1>7 DEF LetGo
  <2>2. UNCHANGED due
    BY <1>5, <1>7 DEF LetGo
  <2> QED BY <1>1, <1>2, <1>3, <1>6, <1>7, <2>1, <2>2, LetsGoStep
<1>8. ASSUME NEW at \in Int, at > ticks, Enqueues(s, at, at)
      PROVE  /\ ServerTypes' /\ Generations' /\ AsksOnce' /\ Records' /\ Waiting'
             /\ due' = [due EXCEPT ![s] = at]
  BY <1>1, <1>2, <1>3, <1>6, <1>8, EnqueuesStep
<1>9. \/ LetGo(s, "error") /\ UNCHANGED <<queue, serverAt>>
      \/ \E at \in Int : at > ticks /\ Enqueues(s, at, at)
  <2>1. CASE type = "MESSAGE_DELAY"
    <3>1. CASE m.arg > 0 /\ Enqueues(s, WrapInt(ticks + m.arg), ticks + m.arg)
      <4>1. PICK at : at = ticks + m.arg
        OBVIOUS
      <4>2. WrapInt(at) = at /\ at \in Int /\ at > ticks
        BY <1>4, <1>5, <2>1, <3>1, <4>1, DelayEnds
      <4> QED BY <3>1, <4>1, <4>2
    <3> QED BY <1>1, <1>2, <1>3, <2>1, <3>1 DEF HandleDelay
  <2>2. CASE type = "MESSAGE_DELAY_UNTIL"
    BY <1>1, <1>2, <1>3, <1>4, <2>2 DEF HandleDelayUntil
  <2> QED BY <1>3, <2>1, <2>2
<1> QED BY <1>4, <1>5, <1>6, <1>7, <1>8, <1>9

LEMMA ServerKeeps ==
    ASSUME NoStaleRecord, QueueFits, NoWrap
    PROVE  ServerInv /\ [Next]_vars => ServerInv'
<1> SUFFICES ASSUME ServerInv, [Next]_vars PROVE ServerInv'
  OBVIOUS
<1>1. CountInv'
  BY CountStep DEF ServerInv
<1> SUFFICES ServerTypes' /\ Generations' /\ AsksOnce' /\ Records' /\ Waiting'
  BY <1>1 DEF ServerInv
<1>2. CASE TimerInterrupt
  <2>1. /\ now < MaxTicks /\ now' = now + 1
        /\ UNCHANGED <<ticks, queue, inbox, serverAt, state, generation, due>>
    BY <1>2 DEF TimerInterrupt, server, clients
  <2>2. ServerTypes'
    BY <2>1, ClockAssumption DEF ServerInv, CountInv, CountTypes, ServerTypes
  <2> QED BY <2>1, <2>2, QueueKept, MessagesKept, GenerationsKept
<1>3. CASE NotifierSends
  <2>1. PICK m : m = [type |-> "MESSAGE_NOTIFIER", tid |-> NOTIFIER, arg |-> 0]
    OBVIOUS
  <2>2. /\ inbox' = Append(inbox, m)
        /\ UNCHANGED <<now, ticks, queue, serverAt, state, generation, due>>
    BY <1>3, <2>1 DEF NotifierSends, clients
  <2>3. m \in Message /\ IsReport(m)
    BY <2>1 DEF Message, IsReport
  <2>4. \A i \in DOMAIN inbox' : ~ IsReport(inbox'[i]) =>
           i \in DOMAIN inbox /\ inbox'[i] = inbox[i]
    BY <2>2, <2>3, Arrives DEF ServerInv, CountInv, CountTypes
  <2>5. AsksOnce'
    BY <2>2, <2>4 DEF ServerInv, AsksOnce, IsReport
  <2>6. ServerTypes'
    BY <2>2 DEF ServerInv, ServerTypes
  <2> QED BY <2>2, <2>5, <2>6, QueueKept, GenerationsKept
<1>4. CASE HandleNotifier
  <2>1. /\ serverAt = "receive" /\ serverAt' = "wake" /\ ticks' = ticks + 1
        /\ Receives("MESSAGE_NOTIFIER")
        /\ UNCHANGED <<now, queue, state, generation, due>>
    BY <1>4 DEF HandleNotifier, clients, Receives
  <2>2. ServerTypes'
    <3>1. ticks' \in Nat /\ ticks' <= MaxTicks
      BY <1>1, <2>1, ClockAssumption
      DEF ServerInv, ServerTypes, CountInv, CountTypes, NoTickLost
    <3> QED BY <2>1, <3>1 DEF ServerInv, ServerTypes
  <2>3. /\ inbox' \in Seq(Message)
        /\ \A i \in DOMAIN inbox' : i + 1 \in DOMAIN inbox /\ inbox'[i] = inbox[i + 1]
    BY <2>1, ReceivesKeeps DEF ServerInv
  <2>4. DOMAIN inbox' \subseteq Int
    BY <2>3
  <2>5. \A i, j \in DOMAIN inbox' : i + 1 = j + 1 => i = j
    BY <2>4
  <2>6. AsksOnce'
    BY <2>1, <2>3, <2>5 DEF ServerInv, AsksOnce, IsReport
  <2>7. serverAt' # "receive"
    BY <2>1
  <2> QED BY <2>1, <2>2, <2>6, <2>7, QueueKept, GenerationsKept
<1>5. CASE WakeFirst
  BY <1>5, WakeFirstStep
<1>6. CASE WakeNoMore
  BY <1>6, WakeNoMoreStep
<1>7. CASE HandleTime
  BY <1>7, LetsGoStep DEF HandleTime
<1>8. CASE HandleDelay \/ HandleDelayUntil
  BY <1>8, DelayStep
<1>9. ASSUME NEW s \in Slots, ClientStep(s)
      PROVE  ServerTypes' /\ Generations' /\ AsksOnce' /\ Records' /\ Waiting'
  BY <1>9, ClientKeeps
<1>10. CASE UNCHANGED vars
  <2>1. UNCHANGED <<now, ticks, queue, inbox, serverAt, state, generation, due>>
    BY <1>10 DEF vars
  <2>2. ServerTypes'
    BY <2>1 DEF ServerInv, ServerTypes
  <2> QED BY <2>1, <2>2, QueueKept, MessagesKept, GenerationsKept
<1> QED BY <1>2, <1>3, <1>4, <1>5, <1>6, <1>7, <1>8, <1>9, <1>10 DEF Next, ServerStep

\* No Assert of the clock server fails (usr/clock.c:27, 31, 48, 58), for every number of
\* clients the queue has room for: who is first in it still waits for its answer, or was
\* killed and its slot is not in use again, and no client finds the queue full.
THEOREM NoAssertFailsAlways ==
    ASSUME NoStaleRecord, QueueFits, NoWrap
    PROVE  Spec => []NoAssertFails
<1>1. ServerInv => NoAssertFails
  BY DEF ServerInv, ServerTypes, NoAssertFails
<1>2. ServerInv /\ [Next]_vars => ServerInv'
  BY ServerKeeps
<1> QED BY ServerInit, <1>1, <1>2, PTL DEF Spec

----------------------------------------------------------------------------
(* A step of the server is a step of DelayService or none. *)

LEMMA SleepersStep ==
    ASSUME NoStaleRecord, QueueFits, NoWrap
    PROVE  ServerInv /\ [Next]_vars => [Promise!Next]_(Promise!vars)
<1> SUFFICES ASSUME ServerInv, [Next]_vars
             PROVE  Promise!Next \/ UNCHANGED <<ticks, due>>
  BY DEF Promise!vars
<1>0. ServerTypes /\ Waiting
  BY DEF ServerInv
<1>1. CASE TimerInterrupt \/ NotifierSends \/ WakeNoMore \/ HandleTime \/ UNCHANGED vars
  BY <1>1 DEF TimerInterrupt, NotifierSends, WakeNoMore, HandleTime, vars, server, clients
<1>2. CASE HandleNotifier
  <2>1. serverAt = "receive" /\ ticks' = ticks + 1 /\ UNCHANGED due
    BY <1>2 DEF HandleNotifier, Receives, clients
  <2>2. \A s \in Slots : due[s] # 0 => due[s] > ticks
    BY <2>1 DEF ServerInv, Waiting, Records
  <2>3. Promise!Tick
    BY <2>1, <2>2 DEF Promise!Tick, Promise!Asleep
  <2> QED BY <2>3 DEF Promise!Next
<1>3. CASE WakeFirst
  <2>1. PICK w : w = Heap!Peek(queue)
    OBVIOUS
  <2>2. PICK s : s = w.tid.slot
    OBVIOUS
  <2>3. /\ queue \in Seq(Wait) /\ queue # << >> /\ Ordered(queue) /\ OneEach(queue)
        /\ s \in Slots /\ w.ticks <= ticks /\ UNCHANGED ticks
        /\ \/ /\ state[s] = "delayed" /\ due[s] = w.ticks
              /\ due' = [due EXCEPT ![s] = 0]
           \/ UNCHANGED due
    BY <1>3, <2>1, <2>2, WakesFirst
  <2>4. CASE UNCHANGED due
    BY <2>3, <2>4
  <2>5. CASE state[s] = "delayed" /\ due[s] = w.ticks /\ due' = [due EXCEPT ![s] = 0]
    <3>1. \A x \in Held(queue) : w.ticks <= x.ticks
      BY <2>1, <2>3, DequeueTakesLeast, HeldFacts
    <3>2. \A r \in Slots : due[r] # 0 => w.ticks <= due[r]
      BY <1>0, <3>1 DEF Waiting
    <3>3. due[s] # 0
      BY <1>0, <2>3, <2>5 DEF Waiting, ServerTypes
    <3>4. Promise!Wake(s)
      BY <2>3, <2>5, <3>2, <3>3 DEF Promise!Wake, Promise!Asleep
    <3> QED BY <2>3, <3>4 DEF Promise!Next
  <2> QED BY <2>3, <2>4, <2>5
<1>4. CASE HandleDelay \/ HandleDelayUntil
  <2>1. /\ UNCHANGED ticks
        /\ \/ UNCHANGED due
           \/ \E s \in Slots, at \in Int :
                 due[s] = 0 /\ at > ticks /\ due' = [due EXCEPT ![s] = at]
    BY <1>4, DelayStep
  <2>2. ASSUME NEW s \in Slots, NEW at \in Int,
               due[s] = 0, at > ticks, due' = [due EXCEPT ![s] = at]
        PROVE  Promise!Sleep(s)
    <3>1. due'[s] = at
      BY <1>0, <2>2 DEF ServerTypes
    <3> QED BY <2>1, <2>2, <3>1 DEF Promise!Sleep, Promise!Asleep
  <2> QED BY <2>1, <2>2 DEF Promise!Next
<1>5. ASSUME NEW s \in Slots, ClientStep(s)
      PROVE  Promise!Next \/ UNCHANGED <<ticks, due>>
  <2>1. CASE Killed(s)
    <3>1. due' = [due EXCEPT ![s] = 0] /\ UNCHANGED ticks
      BY <2>1 DEF Killed, server
    <3>2. CASE due[s] = 0
      BY <1>0, <3>1, <3>2 DEF ServerTypes
    <3>3. CASE due[s] # 0
      <4>1. Promise!Vanish(s)
        BY <3>1, <3>3 DEF Promise!Vanish, Promise!Asleep
      <4> QED BY <4>1 DEF Promise!Next
    <3> QED BY <3>2, <3>3
  <2>2. CASE ~ Killed(s)
    BY <1>5, <2>2 DEF ClientStep, AsksTime, AsksDelay, AsksDelayUntil, Asks,
                      SendsElsewhere, ElsewhereReplies, Created, server
  <2> QED BY <2>1, <2>2
<1> QED BY <1>1, <1>2, <1>3, <1>4, <1>5 DEF Next, ServerStep

\* Delay and DelayUntil keep what DelayService promises (lib/codes.h, usr/clock.c:25-62),
\* under the same conditions: nobody is let go before his time, the one whose time comes
\* first is let go first, and no tick is counted while somebody is overdue.
THEOREM DelaysImplemented ==
    ASSUME NoStaleRecord, QueueFits, NoWrap
    PROVE  Spec => DelayImplemented
<1>1. Init => Promise!Init
  BY DEF Init, Promise!Init
<1>2. ServerInv /\ [Next]_vars => ServerInv'
  BY ServerKeeps
<1>3. ServerInv /\ [Next]_vars => [Promise!Next]_(Promise!vars)
  BY SleepersStep
<1> QED BY ServerInit, <1>1, <1>2, <1>3, PTL DEF Spec, DelayImplemented, Promise!Spec

==============================================================================
