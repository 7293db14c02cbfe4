---------------------------- MODULE ReceiveProofs ----------------------------
(***************************************************************************)
(* The receive servers give every byte to one call of Getc, in the order   *)
(* of arrival, and answer the callers in the order in which they called;   *)
(* wait_buf has room for every reader, and nothing but a full rx_buf stops *)
(* them: for any sizes, any bytes and, in the server that takes one byte   *)
(* at a time, any number of readers.                                       *)
(***************************************************************************)
EXTENDS ReceiveServer, SequenceTheorems, FiniteSetTheorems, TLAPS

RingB == INSTANCE RingTheorems WITH Size <- BufSize, Unset <- 0
RingW == INSTANCE RingTheorems WITH Size <- MaxTasks, Unset <- "nobody"

Run(a, n) == RingB!Run(a, n)
IsBuffer(b) == RingB!IsRing(b, Nat)
IsWaitBuffer(w) == RingW!IsRing(w, Readers \cup {"nobody"})

----------------------------------------------------------------------------
(* The inductive invariant. *)

TypeInv ==
    /\ server \in Servers /\ arrived \in Nat /\ gets \in Nat
    /\ uart \in Seq(Nat) /\ notifier \in {"awaiting", "woken", "sent"}
    /\ inbox \in Seq(Readers \cup {NOTIFIER})
    /\ IsBuffer(buf) /\ IsWaitBuffer(wait)
    /\ blocked \subseteq Readers /\ delivered \in Seq(Nat)
    /\ failed \in {"none", "full"}

\* A reader in Getc has one message in the inbox or one place in wait_buf, not both;
\* "in" is the inbox, "c" what wait_buf holds, "bl" the blocked readers.
Distinct(s) == \A i, j \in 1 .. Len(s) : s[i] = s[j] => i = j

Queued(in, c, bl) ==
    /\ Distinct(in) /\ Distinct(c)
    /\ \A i \in 1 .. Len(c) : c[i] \in bl
    /\ \A k \in 1 .. Len(in) : in[k] \in bl \cup {NOTIFIER}
    /\ \A i \in 1 .. Len(c) : \A k \in 1 .. Len(in) : c[i] # in[k]

QueueInv ==
    /\ Queued(inbox, Waiters!Contents(wait), blocked)
    /\ \A k \in 1 .. Len(inbox) : inbox[k] = NOTIFIER => notifier = "sent"
    /\ server = "fifo" => \A r, s \in blocked : r = s

\* An interrupt means that a byte is there, except for the message with which the
\* notifier of the FIFO server begins: that one comes before every reader's.
LineInv ==
    /\ server # "fifo" /\ notifier # "awaiting" => uart # << >>
    /\ server = "fifo" /\ notifier # "awaiting" /\ uart = << >> =>
         inbox # << >> /\ inbox[1] = NOTIFIER /\ wait.elems = 0

ReceiveInv == TypeInv /\ QueueInv /\ LineInv /\ EveryByteOnce

\* With a second reader on the FIFO server the invariant fails: it answers all the readers
\* that wait when one byte has come (usr/ioserver.c:216).
OneFifoReader == "fifo" \in Servers => FifoReaders <= 1

----------------------------------------------------------------------------
(* The rings. *)

LEMMA SameOperators ==
    /\ Ring!NewBuffer = RingB!NewBuffer
    /\ \A b : Ring!Contents(b) = RingB!Contents(b)
    /\ \A b : Ring!IsEmpty(b) <=> RingB!IsEmpty(b)
    /\ \A b : Ring!Peek(b) = RingB!Peek(b) /\ Ring!DropOldest(b) = RingB!DropOldest(b)
    /\ \A b, es : Ring!PutAll(b, es) = RingB!PutAll(b, es)
    /\ \A b, n : Ring!RemoveSome(b, n) = RingB!RemoveSome(b, n)
    /\ Waiters!NewBuffer = RingW!NewBuffer
    /\ \A b : Waiters!Contents(b) = RingW!Contents(b)
    /\ \A b, e : Waiters!Put(b, e) = RingW!Put(b, e)
    /\ \A b, n : Waiters!RemoveSome(b, n) = RingW!RemoveSome(b, n)
BY DEF Ring!NewBuffer, RingB!NewBuffer, Ring!Contents, RingB!Contents,
       Ring!IsEmpty, RingB!IsEmpty, Ring!PutAll, RingB!PutAll, Ring!Put, RingB!Put,
       Ring!RemoveSome, RingB!RemoveSome, Ring!DropOldest, RingB!DropOldest,
       Ring!Peek, RingB!Peek, Waiters!NewBuffer, RingW!NewBuffer,
       Waiters!Contents, RingW!Contents, Waiters!Put, RingW!Put,
       Waiters!RemoveSome, RingW!RemoveSome, Waiters!DropOldest, RingW!DropOldest

LEMMA Sizes ==
    /\ BufSize \in Nat \ {0} /\ MaxTasks \in Nat \ {0} /\ CountMod \in Nat
    /\ CountMod > BufSize /\ CountMod > MaxTasks
    /\ NOTIFIER \notin Readers /\ IsFiniteSet(Readers) /\ MaxTasks >= Cardinality(Readers)
BY ReceiveAssumption DEF CountMod, NOTIFIER

LEMMA BufferFacts ==
    ASSUME NEW b, IsBuffer(b)
    PROVE  /\ Ring!Contents(b) \in Seq(Nat) /\ Len(Ring!Contents(b)) = b.elems
           /\ b.elems \in Nat /\ b.elems <= BufSize
           /\ Ring!IsEmpty(b) <=> b.elems = 0
<1>1. RingB!Contents(b) \in Seq(Nat) /\ Len(RingB!Contents(b)) = b.elems
  BY Sizes, RingB!ContentsFacts DEF IsBuffer
<1>2. b.elems \in Nat /\ b.elems <= BufSize
  BY Sizes DEF IsBuffer, RingB!IsRing
<1> QED BY <1>1, <1>2, SameOperators DEF RingB!IsEmpty

LEMMA WaitFacts ==
    ASSUME NEW w, IsWaitBuffer(w)
    PROVE  /\ Waiters!Contents(w) \in Seq(Readers \cup {"nobody"})
           /\ Len(Waiters!Contents(w)) = w.elems
           /\ w.elems \in Nat /\ w.elems <= MaxTasks
           /\ Waiters!IsEmpty(w) <=> w.elems = 0
<1>1. /\ RingW!Contents(w) \in Seq(Readers \cup {"nobody"})
      /\ Len(RingW!Contents(w)) = w.elems
  BY Sizes, RingW!ContentsFacts DEF IsWaitBuffer
<1>2. w.elems \in Nat /\ w.elems <= MaxTasks
  BY Sizes DEF IsWaitBuffer, RingW!IsRing
<1> QED BY <1>1, <1>2, SameOperators DEF Waiters!IsEmpty

\* The bytes come in, n of them leave: what Answer writes for the first n is what the
\* buffer holds, as long as it holds n.
LEMMA BufferInOut ==
    ASSUME NEW b, IsBuffer(b), NEW es \in Seq(Nat), b.elems + Len(es) <= BufSize,
           NEW n \in Nat, n <= b.elems + Len(es)
    PROVE  LET b1 == Ring!PutAll(b, es)
               b2 == Ring!RemoveSome(b1, n)
               bytes == [i \in 1 .. n |-> b1.data[(b1.out + i - 1) % BufSize]]
           IN  /\ IsBuffer(b2) /\ bytes \in Seq(Nat)
               /\ bytes \o Ring!Contents(b2) = Ring!Contents(b) \o es
<1>1. PICK b1 : b1 = Ring!PutAll(b, es)
  OBVIOUS
<1>2. PICK b2 : b2 = Ring!RemoveSome(b1, n)
  OBVIOUS
<1>3. /\ RingB!IsRing(b1, Nat) /\ b1.elems = b.elems + Len(es)
      /\ RingB!Contents(b1) = RingB!Contents(b) \o es
  BY <1>1, Sizes, RingB!PutAllAppends, SameOperators DEF IsBuffer
<1>4. b.elems \in Nat /\ Len(es) \in Nat /\ b1.elems \in Nat /\ n \in 0 .. b1.elems
  BY <1>3, BufferFacts
<1>5. /\ RingB!IsRing(b2, Nat)
      /\ RingB!Contents(b2) = SubSeq(RingB!Contents(b1), n + 1, b1.elems)
  <2>1. b2 = RingB!RemoveSome(b1, n)
    BY <1>2, SameOperators
  <2> QED BY <1>3, <1>4, <2>1, Sizes, RingB!RemoveSomeTakes
<1>6. PICK c : c = RingB!Contents(b1)
  OBVIOUS
<1>7. c \in Seq(Nat) /\ Len(c) = b1.elems
  BY <1>3, <1>6, Sizes, RingB!ContentsFacts
<1>8. PICK x, y : x = SubSeq(c, 1, n) /\ y = SubSeq(c, n + 1, Len(c))
  OBVIOUS
<1>9. x \in Seq(Nat) /\ x \o y = c
  BY <1>4, <1>7, <1>8, RingB!SplitAt
<1>10. [i \in 1 .. n |-> b1.data[(b1.out + i - 1) % BufSize]] = x
  <2>1. c = [i \in 1 .. b1.elems |-> b1.data[(b1.out + i - 1) % BufSize]]
    BY <1>6 DEF RingB!Contents
  <2>2. \A i \in 1 .. n : i \in 1 .. b1.elems
    BY <1>4
  <2>3. x = [i \in 1 .. n |-> c[i]]
    BY <1>4, <1>7, <1>8
  <2> QED BY <2>1, <2>2, <2>3
<1>11. /\ IsBuffer(b2)
       /\ x \o Ring!Contents(b2) = Ring!Contents(b) \o es
  BY <1>3, <1>5, <1>6, <1>7, <1>8, <1>9, SameOperators DEF IsBuffer
<1> QED BY <1>1, <1>2, <1>9, <1>10, <1>11

LEMMA WaitRemoveSome ==
    ASSUME NEW w, IsWaitBuffer(w), NEW n \in 0 .. w.elems
    PROVE  /\ IsWaitBuffer(Waiters!RemoveSome(w, n))
           /\ Waiters!RemoveSome(w, n).elems = w.elems - n
           /\ Waiters!Contents(Waiters!RemoveSome(w, n))
                = SubSeq(Waiters!Contents(w), n + 1, w.elems)
<1>1. /\ RingW!IsRing(RingW!RemoveSome(w, n), Readers \cup {"nobody"})
      /\ RingW!RemoveSome(w, n).elems = w.elems - n
      /\ RingW!Contents(RingW!RemoveSome(w, n)) = SubSeq(RingW!Contents(w), n + 1, w.elems)
  BY Sizes, RingW!RemoveSomeTakes DEF IsWaitBuffer
<1> QED BY <1>1, SameOperators DEF IsWaitBuffer

LEMMA WaitPut ==
    ASSUME NEW w, IsWaitBuffer(w), w.elems < MaxTasks, NEW r \in Readers
    PROVE  /\ IsWaitBuffer(Waiters!Put(w, r))
           /\ Waiters!Put(w, r).elems = w.elems + 1
           /\ Waiters!Contents(Waiters!Put(w, r)) = Append(Waiters!Contents(w), r)
<1>1. r \in Readers \cup {"nobody"}
  OBVIOUS
<1>2. /\ RingW!IsRing(RingW!Put(w, r), Readers \cup {"nobody"})
      /\ RingW!Put(w, r).elems = w.elems + 1
      /\ RingW!Contents(RingW!Put(w, r)) = Append(RingW!Contents(w), r)
  BY <1>1, Sizes, RingW!PutFacts DEF IsWaitBuffer
<1> QED BY <1>2, SameOperators DEF IsWaitBuffer

----------------------------------------------------------------------------
(* The readers in the inbox and in wait_buf. *)

\* A message of somebody who has none joins the inbox.
LEMMA QueuedAppend ==
    ASSUME NEW S, NEW in \in Seq(S), NEW c, NEW bl, NEW bl2, Queued(in, c, bl), bl \subseteq bl2,
           NEW m \in S, m \in bl2 \cup {NOTIFIER}, \A k \in 1 .. Len(in) : in[k] # m,
           \A i \in 1 .. Len(c) : c[i] # m
    PROVE  Queued(Append(in, m), c, bl2)
<1>1. PICK new : new = Append(in, m)
  OBVIOUS
<1>2. PICK L \in Nat : L = Len(in)
  OBVIOUS
<1>3. Len(new) = L + 1 /\ new[L + 1] = m /\ \A k \in 1 .. L : new[k] = in[k]
  BY <1>1, <1>2
<1>4. \A k \in 1 .. L + 1 : k \in 1 .. L \/ k = L + 1
  BY <1>2
<1>5. Distinct(new)
  BY <1>2, <1>3, <1>4 DEF Distinct, Queued
<1>6. Queued(new, c, bl2)
  BY <1>2, <1>3, <1>4, <1>5 DEF Queued
<1> QED BY <1>1, <1>6

\* The first message leaves it; nobody else's is the same.
LEMMA QueuedTail ==
    ASSUME NEW S, NEW in \in Seq(S), in # << >>, NEW c, NEW bl, Queued(in, c, bl)
    PROVE  /\ Queued(Tail(in), c, bl)
           /\ Head(in) \in bl \cup {NOTIFIER}
           /\ Head(in) # NOTIFIER => Queued(Tail(in), c, bl \ {Head(in)})
           /\ \A k \in 1 .. Len(Tail(in)) : /\ Tail(in)[k] # Head(in)
                                            /\ \E j \in 1 .. Len(in) : Tail(in)[k] = in[j]
           /\ \A i \in 1 .. Len(c) : c[i] # Head(in)
<1>1. PICK new, m : new = Tail(in) /\ m = Head(in)
  OBVIOUS
<1>2. PICK L \in Nat : L = Len(in) /\ L > 0
  OBVIOUS
<1>3. Len(new) = L - 1 /\ in[1] = m /\ \A k \in 1 .. L - 1 : new[k] = in[k + 1]
  BY <1>1, <1>2
<1>4. /\ \A k \in 1 .. L - 1 : k + 1 \in 1 .. L /\ k + 1 # 1
      /\ \A i, j \in 1 .. L - 1 : i + 1 = j + 1 => i = j
      /\ 1 \in 1 .. L
  BY <1>2
<1>5. Distinct(new)
  BY <1>2, <1>3, <1>4 DEF Distinct, Queued
<1>6. \A k \in 1 .. L - 1 : new[k] # m /\ \E j \in 1 .. L : new[k] = in[j]
  BY <1>2, <1>3, <1>4 DEF Distinct, Queued
<1>7. m \in bl \cup {NOTIFIER} /\ \A i \in 1 .. Len(c) : c[i] # m
  BY <1>2, <1>3, <1>4 DEF Queued
<1>8. Queued(new, c, bl)
  BY <1>2, <1>3, <1>5, <1>6 DEF Queued
<1>9. m # NOTIFIER => Queued(new, c, bl \ {m})
  BY <1>2, <1>3, <1>6, <1>7, <1>8 DEF Queued
<1> QED BY <1>1, <1>2, <1>3, <1>6, <1>7, <1>8, <1>9

\* A reader whose message has left the inbox waits.
LEMMA QueuedWait ==
    ASSUME NEW in, NEW S, NEW c \in Seq(S), NEW bl, Queued(in, c, bl), NEW r \in S, r \in bl,
           \A k \in 1 .. Len(in) : in[k] # r, \A i \in 1 .. Len(c) : c[i] # r
    PROVE  Queued(in, Append(c, r), bl)
<1>1. PICK new : new = Append(c, r)
  OBVIOUS
<1>2. PICK L \in Nat : L = Len(c)
  OBVIOUS
<1>3. Len(new) = L + 1 /\ new[L + 1] = r /\ \A i \in 1 .. L : new[i] = c[i]
  BY <1>1, <1>2
<1>4. \A i \in 1 .. L + 1 : i \in 1 .. L \/ i = L + 1
  BY <1>2
<1>5. Distinct(new)
  BY <1>2, <1>3, <1>4 DEF Distinct, Queued
<1>6. Queued(in, new, bl)
  BY <1>2, <1>3, <1>4, <1>5 DEF Queued
<1> QED BY <1>1, <1>6

\* The first n who wait are answered.
LEMMA QueuedAnswer ==
    ASSUME NEW in, NEW S, NEW c \in Seq(S), NEW bl, Queued(in, c, bl), NEW n \in 0 .. Len(c),
           NEW A, \A r \in A : \E i \in 1 .. n : r = c[i]
    PROVE  Queued(in, SubSeq(c, n + 1, Len(c)), bl \ A)
<1>1. PICK L \in Nat : L = Len(c)
  OBVIOUS
<1>3. PICK rest : rest = SubSeq(c, n + 1, Len(c))
  OBVIOUS
<1>4. \A i \in 1 .. n : i \in 1 .. L
  BY <1>1
<1>5. Len(rest) = L - n /\ \A i \in 1 .. L - n : rest[i] = c[i + n]
  BY <1>1, <1>3
<1>6. /\ \A i \in 1 .. L - n : i + n \in 1 .. L
      /\ \A i, j \in 1 .. L - n : i + n = j + n => i = j
      /\ \A i \in 1 .. L - n : \A j \in 1 .. n : i + n # j
  BY <1>1
<1>7. Distinct(rest)
  BY <1>1, <1>5, <1>6 DEF Distinct, Queued
<1>8. \A i \in 1 .. L - n : rest[i] \notin A
  BY <1>1, <1>4, <1>5, <1>6 DEF Distinct, Queued
<1>9. \A k \in 1 .. Len(in) : in[k] \notin A
  BY <1>1, <1>4 DEF Queued
<1>10. Queued(in, rest, bl \ A)
  BY <1>1, <1>5, <1>6, <1>7, <1>8, <1>9 DEF Queued
<1> QED BY <1>3, <1>10

\* While a reader's message is handled fewer readers wait than there are.
LEMMA WaitHasRoom ==
    ASSUME NEW c \in Seq(Readers \cup {"nobody"}), NEW bl, bl \subseteq Readers,
           Distinct(c), \A i \in 1 .. Len(c) : c[i] \in bl,
           NEW r \in Readers, \A i \in 1 .. Len(c) : c[i] # r
    PROVE  Len(c) < MaxTasks
<1>1. PICK L \in Nat : L = Len(c)
  OBVIOUS
<1>2. IsFiniteSet(Readers) /\ MaxTasks >= Cardinality(Readers) /\ MaxTasks \in Nat
  BY Sizes
<1>3. Cardinality(Readers) \in Nat
  BY <1>2, FS_CardinalityType
<1> DEFINE f == [i \in 1 .. L + 1 |-> IF i = L + 1 THEN r ELSE c[i]]
<1>4. \A i \in 1 .. L + 1 : i \in 1 .. L \/ i = L + 1
  BY <1>1
<1>5. f \in [1 .. L + 1 -> Readers]
  BY <1>1, <1>4
<1>6. \A i, j \in 1 .. L + 1 : f[i] = f[j] => i = j
  BY <1>1, <1>4 DEF Distinct
<1>7. IsFiniteSet(1 .. L + 1) /\ Cardinality(1 .. L + 1) = L + 1
  <2>1. 1 \in Int /\ L + 1 \in Int /\ ~ (1 > L + 1) /\ (L + 1) - 1 + 1 = L + 1
    BY <1>1
  <2> QED BY <2>1, FS_Interval
<1> HIDE DEF f
<1>8. ~ (Cardinality(Readers) < L + 1)
  BY <1>2, <1>5, <1>6, <1>7, FS_PigeonHole
<1> QED BY <1>1, <1>2, <1>3, <1>8

----------------------------------------------------------------------------
(* The line, the interrupt and the readers keep the invariant. *)

LEMMA ByteArrivesStep ==
    ASSUME ReceiveInv, ByteArrives
    PROVE  ReceiveInv'
<1>1. /\ arrived' = arrived + 1 /\ uart' = Append(uart, arrived + 1)
      /\ UNCHANGED <<server, gets, notifier, inbox, buf, wait, blocked, delivered, failed>>
  BY DEF ByteArrives
<1>2. arrived \in Nat /\ arrived + 1 \in Nat /\ uart \in Seq(Nat)
  BY DEF ReceiveInv, TypeInv
<1>3. TypeInv'
  BY <1>1, <1>2 DEF ReceiveInv, TypeInv
<1>4. QueueInv'
  BY <1>1 DEF ReceiveInv, QueueInv
<1>5. LineInv'
  <2>1. uart' # << >>
    BY <1>1, <1>2
  <2> QED BY <1>1, <2>1 DEF ReceiveInv, LineInv
<1>6. EveryByteOnce'
  <2>1. PICK d \in Seq(Nat) : d = delivered \o Ring!Contents(buf)
    <3>1. delivered \in Seq(Nat) /\ Ring!Contents(buf) \in Seq(Nat)
      BY BufferFacts DEF ReceiveInv, TypeInv
    <3> QED BY <3>1, ConcatProperties
  <2>2. d \o uart = Run(0, arrived)
    BY <1>2, <2>1 DEF ReceiveInv, EveryByteOnce, Run, RingB!Run
  <2>3. PICK e \in Nat : e = arrived + 1
    BY <1>2
  <2>4. d \o (uart \o <<e>>) = (d \o uart) \o <<e>>
    <3>1. <<e>> \in Seq(Nat)
      OBVIOUS
    <3> QED BY <1>2, <3>1, ConcatAssociative, SMTT(60)
  <2>5. uart' = uart \o <<e>>
    BY <1>1, <1>2, <2>3, AppendIsConcat
  <2>6. Run(0, arrived) \o <<e>> = Run(0, arrived + 1)
    <3>1. Run(0, arrived) \in Seq(Nat)
      BY <1>2, RingB!RunFacts DEF Run
    <3>2. Append(Run(0, arrived), e) = Run(0, arrived) \o <<e>>
      BY <3>1, AppendIsConcat
    <3>3. 0 \in Nat /\ 0 + arrived + 1 = e
      BY <1>2, <2>3
    <3>4. Append(Run(0, arrived), 0 + arrived + 1) = Run(0, arrived + 1)
      BY <1>2, <3>3, RingB!RunAppend, Zenon DEF Run
    <3> QED BY <3>2, <3>3, <3>4
  <2>7. Run(0, arrived + 1) = [i \in 1 .. arrived + 1 |-> i]
    BY <1>2 DEF Run, RingB!Run
  <2>8. d \o uart' = [i \in 1 .. arrived + 1 |-> i]
    BY <2>2, <2>4, <2>5, <2>6, <2>7
  <2> QED BY <1>1, <2>1, <2>8 DEF EveryByteOnce
<1> QED BY <1>3, <1>4, <1>5, <1>6 DEF ReceiveInv

LEMMA ReceiveInterruptStep ==
    ASSUME ReceiveInv, ReceiveInterrupt
    PROVE  ReceiveInv'
<1>1. /\ notifier = "awaiting" /\ uart # << >> /\ notifier' = "woken"
      /\ UNCHANGED <<server, arrived, uart, gets, inbox, buf, wait, blocked, delivered, failed>>
  BY DEF ReceiveInterrupt, hardware
<1>2. TypeInv'
  BY <1>1 DEF ReceiveInv, TypeInv
<1>3. QueueInv'
  BY <1>1 DEF ReceiveInv, QueueInv
<1>4. LineInv' /\ EveryByteOnce'
  BY <1>1 DEF ReceiveInv, LineInv, EveryByteOnce
<1> QED BY <1>2, <1>3, <1>4 DEF ReceiveInv

LEMMA NotifierSendsStep ==
    ASSUME ReceiveInv, NotifierSends
    PROVE  ReceiveInv'
<1>1. /\ notifier = "woken" /\ notifier' = "sent" /\ inbox' = Append(inbox, NOTIFIER)
      /\ UNCHANGED <<server, arrived, uart, gets, buf, wait, blocked, delivered, failed>>
  BY DEF NotifierSends, hardware
<1>2. inbox \in Seq(Readers \cup {NOTIFIER}) /\ blocked \subseteq Readers
  BY DEF ReceiveInv, TypeInv
<1>3. TypeInv'
  BY <1>1, <1>2 DEF ReceiveInv, TypeInv
<1>4. QueueInv'
  <2>1. Queued(inbox, Waiters!Contents(wait), blocked)
    BY DEF ReceiveInv, QueueInv
  <2>2. \A k \in 1 .. Len(inbox) : inbox[k] # NOTIFIER
    BY <1>1 DEF ReceiveInv, QueueInv
  <2>3. \A i \in 1 .. Len(Waiters!Contents(wait)) : Waiters!Contents(wait)[i] # NOTIFIER
    BY <1>2, <2>1, Sizes DEF Queued
  <2>4. Queued(inbox', Waiters!Contents(wait), blocked)
    BY <1>1, <1>2, <2>1, <2>2, <2>3, QueuedAppend
  <2> QED BY <1>1, <2>4 DEF ReceiveInv, QueueInv
<1>5. LineInv'
  <2>1. inbox # << >> => inbox' # << >> /\ inbox'[1] = inbox[1]
    BY <1>1, <1>2
  <2> QED BY <1>1, <2>1 DEF ReceiveInv, LineInv
<1>6. EveryByteOnce'
  BY <1>1 DEF ReceiveInv, EveryByteOnce
<1> QED BY <1>3, <1>4, <1>5, <1>6 DEF ReceiveInv

LEMMA GetcStep ==
    ASSUME OneFifoReader, ReceiveInv, NEW r \in Readers, Getc(r)
    PROVE  ReceiveInv'
<1>1. /\ r \notin blocked /\ gets' = gets + 1 /\ blocked' = blocked \cup {r}
      /\ inbox' = Append(inbox, r)
      /\ UNCHANGED <<server, arrived, uart, notifier, buf, wait, delivered, failed>>
  BY DEF Getc, hardware
<1>2. /\ inbox \in Seq(Readers \cup {NOTIFIER}) /\ blocked \subseteq Readers
      /\ r # NOTIFIER /\ r \in Readers \cup {NOTIFIER} /\ gets \in Nat /\ server \in Servers
  BY Sizes DEF ReceiveInv, TypeInv
<1>3. TypeInv'
  <2>1. inbox' \in Seq(Readers \cup {NOTIFIER}) /\ blocked' \subseteq Readers /\ gets' \in Nat
    BY <1>1, <1>2
  <2> QED BY <1>1, <2>1 DEF ReceiveInv, TypeInv
<1>4. QueueInv'
  <2>1. Queued(inbox, Waiters!Contents(wait), blocked)
    BY DEF ReceiveInv, QueueInv
  <2>2. \A k \in 1 .. Len(inbox) : inbox[k] # r
    BY <1>1, <1>2, <2>1 DEF Queued
  <2>3. \A i \in 1 .. Len(Waiters!Contents(wait)) : Waiters!Contents(wait)[i] # r
    BY <1>1, <2>1 DEF Queued
  <2>4. Queued(inbox', Waiters!Contents(wait), blocked')
    <3>1. blocked \subseteq blocked' /\ r \in blocked' \cup {NOTIFIER}
      BY <1>1
    <3> QED BY <1>1, <1>2, <2>1, <2>2, <2>3, <3>1, QueuedAppend
  <2>5. \A k \in 1 .. Len(inbox') : inbox'[k] = NOTIFIER => notifier' = "sent"
    <3>1. PICK L \in Nat : L = Len(inbox)
      BY <1>2
    <3>2. /\ Len(inbox') = L + 1 /\ inbox'[L + 1] = r
          /\ \A k \in 1 .. L : inbox'[k] = inbox[k]
      BY <1>1, <1>2, <3>1
    <3>3. \A k \in 1 .. L + 1 : k \in 1 .. L \/ k = L + 1
      BY <3>1
    <3> QED BY <1>1, <1>2, <3>1, <3>2, <3>3 DEF ReceiveInv, QueueInv
  <2>6. server' = "fifo" => \A x, y \in blocked' : x = y
    <3> SUFFICES ASSUME server = "fifo" PROVE blocked = {}
      BY <1>1
    <3>1. Cardinality(blocked) < FifoReaders /\ FifoReaders <= 1
      BY <1>2 DEF Getc, OneFifoReader
    <3>2. IsFiniteSet(blocked)
      BY <1>2, Sizes, FS_Subset
    <3>3. Cardinality(blocked) \in Nat /\ FifoReaders \in Nat
      BY <3>2, FS_CardinalityType, ReceiveAssumption
    <3>4. Cardinality(blocked) = 0
      BY <3>1, <3>3
    <3> QED BY <3>2, <3>4, FS_EmptySet
  <2> QED BY <1>1, <2>4, <2>5, <2>6 DEF QueueInv
<1>5. LineInv'
  <2>1. inbox # << >> => inbox' # << >> /\ inbox'[1] = inbox[1]
    BY <1>1, <1>2
  <2> QED BY <1>1, <2>1 DEF ReceiveInv, LineInv
<1>6. EveryByteOnce'
  BY <1>1 DEF ReceiveInv, EveryByteOnce
<1> QED BY <1>3, <1>4, <1>5, <1>6 DEF ReceiveInv

----------------------------------------------------------------------------
(* The server keeps the invariant. *)

\* The first message leaves the inbox.
LEMMA ReceivesFacts ==
    ASSUME ReceiveInv, NEW from, Receives(from)
    PROVE  /\ failed = "none" /\ Head(inbox) \in from /\ inbox' = Tail(inbox) /\ inbox # << >>
           /\ UNCHANGED <<server, arrived, gets>>
           /\ inbox \in Seq(Readers \cup {NOTIFIER}) /\ inbox' \in Seq(Readers \cup {NOTIFIER})
           /\ Queued(inbox', Waiters!Contents(wait), blocked)
           /\ Head(inbox) # NOTIFIER =>
                Queued(inbox', Waiters!Contents(wait), blocked \ {Head(inbox)})
           /\ Head(inbox) \in blocked \cup {NOTIFIER}
           /\ \A k \in 1 .. Len(inbox') : inbox'[k] # Head(inbox)
           /\ \A k \in 1 .. Len(inbox') : inbox'[k] = NOTIFIER => notifier = "sent"
           /\ \A i \in 1 .. Len(Waiters!Contents(wait)) :
                 Waiters!Contents(wait)[i] # Head(inbox)
           /\ Head(inbox) = NOTIFIER => notifier = "sent"
<1>1. /\ failed = "none" /\ Head(inbox) \in from /\ inbox' = Tail(inbox) /\ inbox # << >>
      /\ UNCHANGED <<server, arrived, gets>>
  BY DEF Receives
<1>2. inbox \in Seq(Readers \cup {NOTIFIER})
  BY DEF ReceiveInv, TypeInv
<1>3. Queued(inbox, Waiters!Contents(wait), blocked)
  BY DEF ReceiveInv, QueueInv
<1>4. \A k \in 1 .. Len(inbox) : inbox[k] = NOTIFIER => notifier = "sent"
  BY DEF ReceiveInv, QueueInv
<1>5. /\ Queued(inbox', Waiters!Contents(wait), blocked)
      /\ Head(inbox) \in blocked \cup {NOTIFIER}
      /\ Head(inbox) # NOTIFIER =>
           Queued(inbox', Waiters!Contents(wait), blocked \ {Head(inbox)})
      /\ \A k \in 1 .. Len(inbox') : /\ inbox'[k] # Head(inbox)
                                     /\ \E j \in 1 .. Len(inbox) : inbox'[k] = inbox[j]
      /\ \A i \in 1 .. Len(Waiters!Contents(wait)) : Waiters!Contents(wait)[i] # Head(inbox)
  BY <1>1, <1>2, <1>3, QueuedTail
<1>6. inbox' \in Seq(Readers \cup {NOTIFIER}) /\ 1 \in 1 .. Len(inbox) /\ Head(inbox) = inbox[1]
  BY <1>1, <1>2
<1>7. \A k \in 1 .. Len(inbox') : inbox'[k] = NOTIFIER => notifier = "sent"
  BY <1>4, <1>5
<1>8. Head(inbox) = NOTIFIER => notifier = "sent"
  BY <1>4, <1>6
<1> QED BY <1>1, <1>2, <1>5, <1>6, <1>7, <1>8

LEMMA HandleGetcStep ==
    ASSUME ReceiveInv, HandleGetc
    PROVE  ReceiveInv'
<1>1. Receives(Readers)
  BY DEF HandleGetc
<1>2. PICK c, r : c = Waiters!Contents(wait) /\ r = Head(inbox)
  OBVIOUS
<1>3. /\ r \in Readers /\ inbox' = Tail(inbox) /\ inbox # << >>
      /\ UNCHANGED <<server, arrived, gets>>
      /\ inbox \in Seq(Readers \cup {NOTIFIER}) /\ inbox' \in Seq(Readers \cup {NOTIFIER})
  BY <1>1, <1>2, ReceivesFacts
<1>4. r # NOTIFIER
  BY <1>3, Sizes
<1>5. /\ Queued(inbox', c, blocked) /\ Queued(inbox', c, blocked \ {r}) /\ r \in blocked
      /\ \A k \in 1 .. Len(inbox') : inbox'[k] # r
      /\ \A k \in 1 .. Len(inbox') : inbox'[k] = NOTIFIER => notifier = "sent"
      /\ \A i \in 1 .. Len(c) : c[i] # r
  BY <1>1, <1>2, <1>4, ReceivesFacts
<1>6. /\ IsBuffer(buf) /\ IsWaitBuffer(wait) /\ blocked \subseteq Readers
      /\ delivered \in Seq(Nat) /\ TypeInv /\ uart \in Seq(Nat)
  BY DEF ReceiveInv, TypeInv
<1>7. c \in Seq(Readers \cup {"nobody"}) /\ Len(c) = wait.elems /\ wait.elems \in Nat
  BY <1>2, <1>6, WaitFacts
<1>8. UNCHANGED <<uart, notifier, failed>>
  BY DEF HandleGetc
<1>9. LineInv'
  <2>1. inbox[1] # NOTIFIER
    BY <1>2, <1>3, <1>4
  <2>2. server # "fifo" /\ notifier # "awaiting" => uart # << >>
    BY DEF ReceiveInv, LineInv
  <2>3. ~ (server = "fifo" /\ notifier # "awaiting" /\ uart = << >>)
    BY <2>1 DEF ReceiveInv, LineInv
  <2> QED BY <1>3, <1>8, <2>2, <2>3 DEF LineInv
<1>10. CASE Ring!IsEmpty(buf)
  <2>1. wait' = Waiters!Put(wait, r) /\ UNCHANGED <<buf, delivered, blocked>>
    BY <1>2, <1>10 DEF HandleGetc
  <2>2. Distinct(c) /\ \A i \in 1 .. Len(c) : c[i] \in blocked
    BY <1>5 DEF Queued
  <2>3. wait.elems < MaxTasks
    BY <1>3, <1>5, <1>6, <1>7, <2>2, WaitHasRoom
  <2>4. IsWaitBuffer(wait') /\ Waiters!Contents(wait') = Append(c, r)
    BY <1>2, <1>3, <1>6, <2>1, <2>3, WaitPut
  <2>5. Queued(inbox', Append(c, r), blocked)
    <3>1. r \in Readers \cup {"nobody"}
      BY <1>3
    <3> QED BY <1>5, <1>7, <3>1, QueuedWait
  <2>6. QueueInv'
    <3>1. server = "fifo" => \A x, y \in blocked : x = y
      BY DEF ReceiveInv, QueueInv
    <3> QED BY <1>3, <1>5, <1>8, <2>1, <2>4, <2>5, <3>1 DEF QueueInv
  <2>7. TypeInv'
    BY <1>3, <1>6, <1>8, <2>1, <2>4 DEF TypeInv
  <2>8. EveryByteOnce'
    BY <1>3, <1>8, <2>1 DEF ReceiveInv, EveryByteOnce
  <2> QED BY <1>9, <2>6, <2>7, <2>8 DEF ReceiveInv
<1>11. CASE ~ Ring!IsEmpty(buf)
  <2>1. /\ delivered' = Append(delivered, Ring!Peek(buf)) /\ buf' = Ring!DropOldest(buf)
        /\ blocked' = blocked \ {r} /\ wait' = wait
    BY <1>2, <1>11 DEF HandleGetc
  <2>2. PICK t : t = Ring!Contents(buf)
    OBVIOUS
  <2>3. t \in Seq(Nat) /\ buf.elems > 0
    BY <1>6, <1>11, <2>2, BufferFacts
  <2>4. /\ RingB!IsRing(RingB!DropOldest(buf), Nat)
        /\ RingB!Contents(RingB!DropOldest(buf)) = Tail(RingB!Contents(buf))
        /\ RingB!Contents(buf) # << >> /\ RingB!Peek(buf) = Head(RingB!Contents(buf))
    BY <1>6, <2>3, Sizes, RingB!DropFacts DEF IsBuffer
  <2>5. /\ IsBuffer(buf') /\ Ring!Contents(buf') = Tail(t) /\ t # << >>
        /\ delivered' = Append(delivered, Head(t))
    BY <2>1, <2>2, <2>4, SameOperators DEF IsBuffer
  <2>6. delivered' \o Ring!Contents(buf') = delivered \o t
    BY <1>6, <2>3, <2>5, RingB!MoveHead, Zenon
  <2>7. delivered' \in Seq(Nat)
    BY <1>6, <2>3, <2>5
  <2>8. TypeInv'
    BY <1>3, <1>6, <1>8, <2>1, <2>5, <2>7 DEF TypeInv
  <2>9. QueueInv'
    <3>1. server = "fifo" => \A x, y \in blocked \ {r} : x = y
      BY DEF ReceiveInv, QueueInv
    <3> QED BY <1>2, <1>3, <1>5, <1>8, <2>1, <3>1 DEF QueueInv
  <2>10. EveryByteOnce'
    BY <1>3, <1>8, <2>2, <2>6 DEF ReceiveInv, EveryByteOnce
  <2> QED BY <1>9, <2>8, <2>9, <2>10 DEF ReceiveInv
<1> QED BY <1>10, <1>11

LEMMA Associative ==
    ASSUME NEW s \in Seq(Nat), NEW t \in Seq(Nat), NEW u \in Seq(Nat)
    PROVE  (s \o t) \o u = s \o (t \o u)
BY ConcatAssociative, SMTT(60)

\* How many readers are answered: no more than wait, and than there are bytes.
LEMMA AnsweredFacts ==
    ASSUME ReceiveInv, inbox # << >>, Head(inbox) = NOTIFIER
    PROVE  /\ Taken \in 0 .. Len(uart) /\ Answered \in 0 .. wait.elems
           /\ Answered <= buf.elems + Taken
           /\ server = "fifo" => Taken = Len(uart)
<1>1. /\ IsBuffer(buf) /\ IsWaitBuffer(wait) /\ uart \in Seq(Nat)
      /\ inbox \in Seq(Readers \cup {NOTIFIER})
  BY DEF ReceiveInv, TypeInv
<1>2. PICK c : c = Waiters!Contents(wait)
  OBVIOUS
<1>3. /\ wait.elems \in Nat /\ Len(c) = wait.elems /\ (Waiters!IsEmpty(wait) <=> wait.elems = 0)
      /\ buf.elems \in Nat /\ Len(uart) \in Nat /\ (uart = << >> <=> Len(uart) = 0)
  BY <1>1, <1>2, BufferFacts, WaitFacts
<1>4. notifier = "sent"
  <2>1. 1 \in 1 .. Len(inbox) /\ inbox[1] = NOTIFIER
    BY <1>1
  <2> QED BY <2>1 DEF ReceiveInv, QueueInv
<1>5. CASE server = "fifo"
  <2>1. Taken = Len(uart) /\ Answered = wait.elems
    BY <1>5 DEF Taken, Answered
  <2>2. wait.elems <= 1
    <3> SUFFICES ASSUME wait.elems > 1 PROVE FALSE
      BY <1>3
    <3>1. 1 \in 1 .. Len(c) /\ 2 \in 1 .. Len(c)
      BY <1>3
    <3>2. /\ \A i \in 1 .. Len(c) : c[i] \in blocked
          /\ Distinct(c) /\ \A r, s \in blocked : r = s
      BY <1>2, <1>5 DEF ReceiveInv, QueueInv, Queued
    <3>3. c[1] = c[2]
      BY <3>1, <3>2
    <3> QED BY <3>1, <3>2, <3>3 DEF Distinct
  <2>3. Len(uart) = 0 => wait.elems = 0
    BY <1>3, <1>4, <1>5 DEF ReceiveInv, LineInv
  <2> QED BY <1>3, <1>5, <2>1, <2>2, <2>3
<1>6. CASE server # "fifo"
  <2>1. Taken = 1 /\ Answered = (IF wait.elems = 0 THEN wait.elems ELSE 1)
    BY <1>3, <1>6 DEF Taken, Answered
  <2>2. uart # << >>
    BY <1>4, <1>6 DEF ReceiveInv, LineInv
  <2> QED BY <1>3, <1>6, <2>1, <2>2
<1> QED BY <1>5, <1>6

LEMMA HandleNotifierStep ==
    ASSUME ReceiveInv, HandleNotifier
    PROVE  ReceiveInv'
<1>1. Receives({NOTIFIER})
  BY DEF HandleNotifier
<1>2. PICK c : c = Waiters!Contents(wait)
  OBVIOUS
<1>3. /\ Head(inbox) = NOTIFIER /\ inbox # << >> /\ inbox' = Tail(inbox)
      /\ UNCHANGED <<server, arrived, gets>>
      /\ inbox' \in Seq(Readers \cup {NOTIFIER})
  BY <1>1, ReceivesFacts
<1>4. /\ Queued(inbox', c, blocked)
      /\ \A k \in 1 .. Len(inbox') : inbox'[k] # NOTIFIER
      /\ notifier = "sent" /\ failed = "none"
  BY <1>1, <1>2, <1>3, ReceivesFacts
<1>5. /\ IsBuffer(buf) /\ IsWaitBuffer(wait) /\ blocked \subseteq Readers
      /\ delivered \in Seq(Nat) /\ TypeInv /\ uart \in Seq(Nat)
  BY DEF ReceiveInv, TypeInv
<1>6. PICK t, n : t = Taken /\ n = Answered
  OBVIOUS
<1>7. /\ t \in 0 .. Len(uart) /\ n \in 0 .. wait.elems /\ n <= buf.elems + t
      /\ server = "fifo" => t = Len(uart)
  BY <1>3, <1>6, AnsweredFacts
<1>8. /\ c \in Seq(Readers \cup {"nobody"}) /\ Len(c) = wait.elems /\ wait.elems \in Nat
      /\ buf.elems \in Nat /\ Len(Ring!Contents(buf)) = buf.elems /\ Len(uart) \in Nat
      /\ Ring!Contents(buf) \in Seq(Nat)
  BY <1>2, <1>5, BufferFacts, WaitFacts
<1>9. ~ (Len(uart) < Taken)
  BY <1>6, <1>7, <1>8
<1>10. \A x, y \in blocked : server = "fifo" => x = y
  BY DEF ReceiveInv, QueueInv
<1>11. CASE Len(Ring!Contents(buf)) + Taken > BufSize
  <2>1. failed' = "full" /\ UNCHANGED <<uart, notifier, buf, wait, blocked, delivered>>
    BY <1>9, <1>11 DEF HandleNotifier, Fail
  <2>2. TypeInv'
    BY <1>3, <1>5, <2>1 DEF TypeInv
  <2>3. QueueInv'
    BY <1>2, <1>3, <1>4, <1>10, <2>1 DEF QueueInv
  <2>4. LineInv'
    <3>1. server = "fifo" => uart # << >>
      <4> SUFFICES ASSUME server = "fifo", uart = << >> PROVE FALSE
        OBVIOUS
      <4>1. t = 0 /\ buf.elems <= BufSize
        BY <1>5, <1>7, BufferFacts
      <4> QED BY <1>6, <1>8, <1>11, <4>1, Sizes
    <3> QED BY <1>3, <2>1, <3>1 DEF ReceiveInv, LineInv
  <2>5. EveryByteOnce'
    BY <1>3, <2>1 DEF ReceiveInv, EveryByteOnce
  <2> QED BY <2>2, <2>3, <2>4, <2>5 DEF ReceiveInv
<1>12. CASE ~ (Len(Ring!Contents(buf)) + Taken > BufSize)
  <2>1. PICK u, v : u = SubSeq(uart, 1, t) /\ v = SubSeq(uart, t + 1, Len(uart))
    OBVIOUS
  <2>2. u \in Seq(Nat) /\ v \in Seq(Nat) /\ u \o v = uart /\ Len(u) = t
    BY <1>5, <1>7, <2>1, RingB!SplitAt
  <2>3. PICK b1 : b1 = Ring!PutAll(buf, u)
    OBVIOUS
  <2>4. PICK first : first = SubSeq(c, 1, n)
    OBVIOUS
  <2>5. PICK bytes : bytes = [i \in 1 .. n |-> b1.data[(b1.out + i - 1) % BufSize]]
    OBVIOUS
  <2>6. /\ uart' = v /\ notifier' = "awaiting" /\ failed' = failed
        /\ delivered' = delivered \o bytes
        /\ blocked' = blocked \ {first[i] : i \in 1 .. n}
        /\ buf' = Ring!RemoveSome(b1, n) /\ wait' = Waiters!RemoveSome(wait, n)
    BY <1>2, <1>6, <1>9, <1>12, <2>1, <2>3, <2>4, <2>5 DEF HandleNotifier, Answer
  <2>7. /\ IsBuffer(buf') /\ bytes \in Seq(Nat)
        /\ bytes \o Ring!Contents(buf') = Ring!Contents(buf) \o u
    <3>1. buf.elems + Len(u) <= BufSize /\ n \in Nat /\ n <= buf.elems + Len(u)
      BY <1>6, <1>7, <1>8, <1>12, <2>2, Sizes
    <3>2. LET b == Ring!PutAll(buf, u)
              b2 == Ring!RemoveSome(b, n)
              x == [i \in 1 .. n |-> b.data[(b.out + i - 1) % BufSize]]
          IN  IsBuffer(b2) /\ x \in Seq(Nat) /\ x \o Ring!Contents(b2) = Ring!Contents(buf) \o u
      BY <1>5, <2>2, <3>1, BufferInOut, Zenon
    <3> QED BY <2>3, <2>5, <2>6, <3>2, Zenon
  <2>8. IsWaitBuffer(wait') /\ Waiters!Contents(wait') = SubSeq(c, n + 1, Len(c))
    BY <1>2, <1>5, <1>7, <1>8, <2>6, WaitRemoveSome
  <2>9. Queued(inbox', SubSeq(c, n + 1, Len(c)), blocked')
    <3>1. n \in 0 .. Len(c)
      BY <1>7, <1>8
    <3>2. PICK A : A = {first[i] : i \in 1 .. n}
      OBVIOUS
    <3>3. \A i \in 1 .. n : first[i] = c[i]
      BY <1>8, <2>4, <3>1
    <3>4. \A r \in A : \E i \in 1 .. n : r = c[i]
      BY <3>2, <3>3
    <3>5. Queued(inbox', SubSeq(c, n + 1, Len(c)), blocked \ A)
      BY <1>4, <1>8, <3>1, <3>4, QueuedAnswer, Zenon
    <3> QED BY <2>6, <3>2, <3>5
  <2>10. TypeInv'
    <3>1. delivered' \in Seq(Nat) /\ blocked' \subseteq Readers
      BY <1>5, <2>6, <2>7, ConcatProperties
    <3> QED BY <1>3, <1>5, <2>2, <2>6, <2>7, <2>8, <3>1 DEF TypeInv
  <2>11. QueueInv'
    BY <1>3, <1>4, <1>10, <2>6, <2>8, <2>9 DEF QueueInv
  <2>12. LineInv'
    BY <2>6 DEF LineInv
  <2>13. EveryByteOnce'
    <3>1. PICK d, k, y : d = delivered /\ k = Ring!Contents(buf) /\ y = Ring!Contents(buf')
      OBVIOUS
    <3>2. d \in Seq(Nat) /\ k \in Seq(Nat) /\ y \in Seq(Nat) /\ bytes \o y = k \o u
      BY <1>5, <1>8, <2>7, <3>1, BufferFacts
    <3>3. ((d \o bytes) \o y) \o v = (d \o k) \o (u \o v)
      <4>1. bytes \in Seq(Nat) /\ u \in Seq(Nat) /\ v \in Seq(Nat)
        BY <2>2, <2>7
      <4>2. (d \o bytes) \o y = d \o (bytes \o y)
        BY <3>2, <4>1, Associative, Zenon
      <4>3. (d \o k) \o u = d \o (k \o u)
        BY <3>2, <4>1, Associative, ZenonT(60)
      <4>4. PICK w \in Seq(Nat) : w = d \o k
        BY <3>2, ConcatProperties
      <4>5. (w \o u) \o v = w \o (u \o v)
        BY <4>1, <4>4, Associative, Zenon
      <4> QED BY <3>2, <4>2, <4>3, <4>4, <4>5, Zenon
    <3>4. (d \o k) \o uart = [i \in 1 .. arrived |-> i]
      BY <3>1 DEF ReceiveInv, EveryByteOnce
    <3>5. ((d \o bytes) \o y) \o v = [i \in 1 .. arrived |-> i]
      BY <2>2, <3>3, <3>4
    <3> QED BY <1>3, <2>6, <3>1, <3>5 DEF EveryByteOnce
  <2> QED BY <2>10, <2>11, <2>12, <2>13 DEF ReceiveInv
<1> QED BY <1>11, <1>12

----------------------------------------------------------------------------
(* The invariant, and what follows from it. *)

LEMMA ReceiveInitial == Init => ReceiveInv
<1> SUFFICES ASSUME Init PROVE ReceiveInv
  OBVIOUS
<1>1. /\ server \in Servers /\ arrived = 0 /\ gets = 0 /\ uart = << >>
      /\ IF server = "fifo" THEN notifier = "sent" /\ inbox = <<NOTIFIER>>
         ELSE notifier = "awaiting" /\ inbox = << >>
      /\ buf = Ring!NewBuffer /\ wait = Waiters!NewBuffer
      /\ blocked = {} /\ delivered = << >> /\ failed = "none"
  BY DEF Init
<1>2. IsBuffer(buf) /\ Ring!Contents(buf) = << >>
  <2>1. 0 \in Nat
    OBVIOUS
  <2>2. RingB!IsRing(RingB!NewBuffer, Nat) /\ RingB!Contents(RingB!NewBuffer) = << >>
    BY <2>1, Sizes, RingB!NewBufferFacts
  <2> QED BY <1>1, <2>2, SameOperators DEF IsBuffer
<1>3. IsWaitBuffer(wait) /\ wait.elems = 0 /\ Waiters!Contents(wait) = << >>
  <2>1. "nobody" \in Readers \cup {"nobody"}
    OBVIOUS
  <2>2. /\ RingW!IsRing(RingW!NewBuffer, Readers \cup {"nobody"})
        /\ RingW!NewBuffer.elems = 0 /\ RingW!Contents(RingW!NewBuffer) = << >>
    BY <2>1, Sizes, RingW!NewBufferFacts
  <2> QED BY <1>1, <2>2, SameOperators DEF IsWaitBuffer
<1>4. TypeInv
  <2>1. << >> \in Seq(Nat)
    OBVIOUS
  <2>2. inbox \in Seq(Readers \cup {NOTIFIER})
    <3>1. inbox = << >> \/ inbox = <<NOTIFIER>>
      BY <1>1
    <3>2. PICK S, m : S = Readers \cup {NOTIFIER} /\ m = NOTIFIER
      OBVIOUS
    <3>3. m \in S
      BY <3>2
    <3>4. << >> \in Seq(S) /\ <<m>> \in Seq(S)
      BY <3>3
    <3> QED BY <3>1, <3>2, <3>4
  <2> QED BY <1>1, <1>2, <1>3, <2>1, <2>2 DEF TypeInv
<1>5. QueueInv
  <2>1. Len(<< >>) = 0 /\ Len(inbox) \in {0, 1} /\ \A k \in 1 .. Len(inbox) : inbox[k] = NOTIFIER
    BY <1>1
  <2>2. \A k \in 1 .. Len(inbox) : k = 1 /\ notifier = "sent"
    BY <1>1, <2>1
  <2> QED BY <1>1, <1>3, <2>1, <2>2 DEF QueueInv, Queued, Distinct
<1>6. LineInv
  BY <1>1, <1>3 DEF LineInv
<1>7. EveryByteOnce
  <2>1. [i \in 1 .. arrived |-> i] = << >>
    BY <1>1
  <2>2. (delivered \o Ring!Contents(buf)) \o uart = << >>
    BY <1>1, <1>2
  <2> QED BY <2>1, <2>2 DEF EveryByteOnce
<1> QED BY <1>4, <1>5, <1>6, <1>7 DEF ReceiveInv

LEMMA ReceiveNext ==
    ASSUME OneFifoReader, ReceiveInv, [Next]_vars
    PROVE  ReceiveInv'
<1>1. CASE ByteArrives \/ ReceiveInterrupt \/ NotifierSends
  BY <1>1, ByteArrivesStep, ReceiveInterruptStep, NotifierSendsStep, Zenon
<1>2. CASE \E r \in Readers : Getc(r)
  BY <1>2, GetcStep, Zenon
<1>3. CASE ServerStep
  BY <1>3, HandleNotifierStep, HandleGetcStep, Zenon DEF ServerStep
<1>4. CASE UNCHANGED vars
  BY <1>4 DEF vars, hardware, ReceiveInv, TypeInv, QueueInv, LineInv, EveryByteOnce
<1> QED BY <1>1, <1>2, <1>3, <1>4 DEF Next

LEMMA ReceiveInvariant == ASSUME OneFifoReader PROVE Spec => []ReceiveInv
BY ReceiveInitial, ReceiveNext, PTL DEF Spec

LEMMA ReceiveImplies ==
    ASSUME ReceiveInv
    PROVE  /\ EveryByteOnce /\ failed \in {"none", "full"}
           /\ wait.elems <= MaxTasks
           /\ \A i, j \in 1 .. Len(Waiters!Contents(wait)) :
                 /\ Waiters!Contents(wait)[i] \in blocked
                 /\ Waiters!Contents(wait)[i] = Waiters!Contents(wait)[j] => i = j
<1>1. IsWaitBuffer(wait) /\ EveryByteOnce /\ failed \in {"none", "full"}
  BY DEF ReceiveInv, TypeInv
<1>2. wait.elems <= MaxTasks
  BY <1>1, WaitFacts
<1> QED BY <1>1, <1>2 DEF ReceiveInv, QueueInv, Queued, Distinct

\* usr/ioserver.c, generic_rx_server and fifo_rx_server: every byte that has arrived is
\* the answer to one Getc, in rx_buf or in the UART, in the order of arrival, and no
\* answer is anything else; for any sizes and, in generic_rx_server, any readers.
\* fifo_rx_server has one reader in this program (usr/project.c:555).
THEOREM EveryByteOnceAlways == ASSUME OneFifoReader PROVE Spec => []EveryByteOnce
<1>1. ReceiveInv => EveryByteOnce
  BY ReceiveImplies
<1> QED BY <1>1, ReceiveInvariant, PTL

\* No Assert of the receive servers fails but that of a full rx_buf: the byte that an
\* interrupt speaks of is there when the server takes it (usr/ioserver.c:159).
THEOREM OnlyFullFails == ASSUME OneFifoReader PROVE Spec => [](failed \in {"none", "full"})
<1>1. ReceiveInv => failed \in {"none", "full"}
  BY ReceiveImplies
<1> QED BY <1>1, ReceiveInvariant, PTL

\* wait_buf never overflows, and holds each of its readers, all of them in Getc, once:
\* nothing in the code looks whether it is full (usr/ioserver.c:180, 229).
THEOREM WaitersFit ==
    ASSUME OneFifoReader
    PROVE  Spec => [](/\ wait.elems <= MaxTasks
                      /\ \A i, j \in 1 .. Len(Waiters!Contents(wait)) :
                            /\ Waiters!Contents(wait)[i] \in blocked
                            /\ Waiters!Contents(wait)[i] = Waiters!Contents(wait)[j] => i = j)
<1> DEFINE Fit == /\ wait.elems <= MaxTasks
                  /\ \A i, j \in 1 .. Len(Waiters!Contents(wait)) :
                        /\ Waiters!Contents(wait)[i] \in blocked
                        /\ Waiters!Contents(wait)[i] = Waiters!Contents(wait)[j] => i = j
<1>1. ReceiveInv => Fit
  BY ReceiveImplies
<1> HIDE DEF Fit
<1>2. Spec => []Fit
  BY <1>1, ReceiveInvariant, PTL
<1> QED BY <1>2 DEF Fit

----------------------------------------------------------------------------
(* Readers are answered in the order of their calls. *)

\* Every reader in Getc has a message in the inbox or a place in wait_buf, and nobody
\* waits while there is a byte.
Present(in, c, bl) ==
    \A r \in bl : \/ \E i \in 1 .. Len(c) : c[i] = r
                  \/ \E k \in 1 .. Len(in) : in[k] = r

Idle(b, w) == b.elems > 0 => w.elems = 0

WaitingInv == Present(inbox, Waiters!Contents(wait), blocked) /\ Idle(buf, wait)

LEMMA PresentAppend ==
    ASSUME NEW S, NEW in \in Seq(S), NEW c, NEW bl, NEW bl2, NEW m \in S, Present(in, c, bl),
           bl2 \subseteq bl \cup {m}
    PROVE  Present(Append(in, m), c, bl2)
<1>0. PICK new : new = Append(in, m)
  OBVIOUS
<1>1. PICK L \in Nat : L = Len(in)
  OBVIOUS
<1>2. /\ Len(new) = L + 1 /\ new[L + 1] = m /\ L + 1 \in 1 .. L + 1
      /\ \A k \in 1 .. L : k \in 1 .. L + 1 /\ new[k] = in[k]
  BY <1>0, <1>1
<1>3. Present(new, c, bl2)
  BY <1>1, <1>2 DEF Present
<1> QED BY <1>0, <1>3

LEMMA PresentTail ==
    ASSUME NEW S, NEW in \in Seq(S), in # << >>, NEW c, NEW bl, Present(in, c, bl)
    PROVE  Present(Tail(in), c, bl \ {Head(in)})
<1>0. PICK new : new = Tail(in)
  OBVIOUS
<1>1. PICK L \in Nat : L = Len(in) /\ L > 0
  OBVIOUS
<1>2. Len(new) = L - 1 /\ in[1] = Head(in) /\ \A k \in 1 .. L - 1 : new[k] = in[k + 1]
  BY <1>0, <1>1
<1>3. \A k \in 1 .. L : k # 1 => k - 1 \in 1 .. L - 1 /\ (k - 1) + 1 = k
  BY <1>0, <1>1
<1>4. \A k \in 1 .. L : k = 1 \/ (k - 1 \in 1 .. L - 1 /\ in[k] = new[k - 1])
  BY <1>2, <1>3
<1>5. Present(new, c, bl \ {Head(in)})
  BY <1>1, <1>2, <1>4 DEF Present
<1> QED BY <1>0, <1>5

LEMMA PresentWait ==
    ASSUME NEW S, NEW in, NEW c \in Seq(S), NEW bl, NEW r \in S, Present(in, c, bl \ {r})
    PROVE  Present(in, Append(c, r), bl)
<1>0. PICK new : new = Append(c, r)
  OBVIOUS
<1>1. PICK L \in Nat : L = Len(c)
  OBVIOUS
<1>2. /\ Len(new) = L + 1 /\ new[L + 1] = r /\ L + 1 \in 1 .. L + 1
      /\ \A k \in 1 .. L : k \in 1 .. L + 1 /\ new[k] = c[k]
  BY <1>0, <1>1
<1>3. Present(in, new, bl)
  BY <1>1, <1>2 DEF Present
<1> QED BY <1>0, <1>3

LEMMA PresentAnswer ==
    ASSUME NEW S, NEW in, NEW c \in Seq(S), NEW bl, Present(in, c, bl), NEW n \in 0 .. Len(c),
           NEW A, \A i \in 1 .. n : c[i] \in A
    PROVE  Present(in, SubSeq(c, n + 1, Len(c)), bl \ A)
<1>0. PICK new : new = SubSeq(c, n + 1, Len(c))
  OBVIOUS
<1>1. PICK L \in Nat : L = Len(c)
  OBVIOUS
<1>2. Len(new) = L - n /\ \A i \in 1 .. L - n : new[i] = c[i + n]
  BY <1>0, <1>1
<1>3. \A i \in 1 .. L : i \in 1 .. n \/ (i - n \in 1 .. L - n /\ (i - n) + n = i)
  BY <1>0, <1>1
<1>4. \A i \in 1 .. L : i \in 1 .. n \/ (i - n \in 1 .. L - n /\ c[i] = new[i - n])
  BY <1>2, <1>3
<1>5. Present(in, new, bl \ A)
  BY <1>1, <1>2, <1>4 DEF Present
<1> QED BY <1>0, <1>5

\* In the queue of those who wait and of the inbox, r is in front of s.
InFront(q, r, s) == \E i, j \in DOMAIN q : i < j /\ q[i] = r /\ q[j] = s

\* One of the first n who wait is in front of all that are not.
LEMMA FirstInFront ==
    ASSUME NEW S, NEW in \in Seq(S), NEW c \in Seq(S), NEW n \in 0 .. Len(c), NEW r, NEW s,
           \E i \in 1 .. n : r = c[i], \A i \in 1 .. n : s # c[i],
           \/ \E i \in 1 .. Len(c) : c[i] = s
           \/ \E k \in 1 .. Len(in) : in[k] = s
    PROVE  InFront(c \o in, r, s)
<1>0. PICK q : q = c \o in
  OBVIOUS
<1>1. PICK L, M \in Nat : L = Len(c) /\ M = Len(in)
  OBVIOUS
<1>2. /\ DOMAIN q = 1 .. L + M /\ \A i \in 1 .. L : q[i] = c[i]
      /\ \A k \in 1 .. M : q[L + k] = in[k]
  BY <1>0, <1>1
<1>3. PICK i \in 1 .. n : r = c[i]
  OBVIOUS
<1>4. i \in 1 .. L /\ i \in 1 .. L + M /\ i <= n
  BY <1>0, <1>1
<1>5. CASE \E j \in 1 .. L : c[j] = s
  <2>1. PICK j \in 1 .. L : c[j] = s
    BY <1>5
  <2>2. j \notin 1 .. n
    BY <2>1
  <2>3. i < j /\ j \in 1 .. L + M
    BY <1>1, <1>4, <2>2
  <2> QED BY <1>0, <1>1, <1>2, <1>3, <1>4, <2>1, <2>3 DEF InFront
<1>6. CASE \E k \in 1 .. M : in[k] = s
  <2>1. PICK k \in 1 .. M : in[k] = s
    BY <1>6
  <2>2. i < L + k /\ L + k \in 1 .. L + M
    BY <1>1, <1>4
  <2> QED BY <1>0, <1>1, <1>2, <1>3, <1>4, <2>1, <2>2 DEF InFront
<1> QED BY <1>1, <1>5, <1>6

\* With nobody waiting, the first message is in front of the others.
LEMMA HeadInFront ==
    ASSUME NEW S, NEW in \in Seq(S), in # << >>, NEW s, s # Head(in),
           \E k \in 1 .. Len(in) : in[k] = s
    PROVE  InFront(<< >> \o in, Head(in), s)
<1>1. << >> \o in = in /\ DOMAIN in = 1 .. Len(in) /\ in[1] = Head(in) /\ 1 \in 1 .. Len(in)
  OBVIOUS
<1>2. PICK k \in 1 .. Len(in) : in[k] = s
  OBVIOUS
<1>3. 1 < k
  BY <1>1, <1>2
<1> QED BY <1>1, <1>2, <1>3 DEF InFront

\* What one step of the receive servers does to the waiting readers: who is answered was
\* in front of all those who are not.
Served == \A r \in blocked \ blocked', s \in blocked \cap blocked' :
             InFront(Waiters!Contents(wait) \o inbox, r, s)

LEMMA HandleGetcServes ==
    ASSUME ReceiveInv, WaitingInv, HandleGetc
    PROVE  WaitingInv' /\ Served
<1>1. PICK c, r : c = Waiters!Contents(wait) /\ r = Head(inbox)
  OBVIOUS
<1>2. Receives(Readers) /\ Present(inbox, c, blocked) /\ Idle(buf, wait)
  BY <1>1 DEF HandleGetc, WaitingInv
<1>3. /\ r \in Readers /\ inbox' = Tail(inbox) /\ inbox # << >>
      /\ inbox \in Seq(Readers \cup {NOTIFIER}) /\ \A i \in 1 .. Len(c) : c[i] # r
      /\ Queued(inbox', c, blocked) /\ r \in blocked \cup {NOTIFIER} /\ r # NOTIFIER
  BY <1>1, <1>2, ReceivesFacts, Sizes
<1>4. IsBuffer(buf) /\ IsWaitBuffer(wait) /\ blocked \subseteq Readers
  BY DEF ReceiveInv, TypeInv
<1>5. /\ c \in Seq(Readers \cup {"nobody"}) /\ Len(c) = wait.elems /\ wait.elems \in Nat
      /\ buf.elems \in Nat /\ (Ring!IsEmpty(buf) <=> buf.elems = 0)
  BY <1>1, <1>4, WaitFacts, BufferFacts
<1>6. Present(inbox', c, blocked \ {r})
  BY <1>1, <1>2, <1>3, PresentTail
<1>7. CASE Ring!IsEmpty(buf)
  <2>1. wait' = Waiters!Put(wait, r) /\ UNCHANGED <<buf, blocked>>
    BY <1>1, <1>7 DEF HandleGetc
  <2>2. wait.elems < MaxTasks
    <3>1. Distinct(c) /\ \A i \in 1 .. Len(c) : c[i] \in blocked
      BY <1>3 DEF Queued
    <3> QED BY <1>3, <1>4, <1>5, <3>1, WaitHasRoom
  <2>3. Waiters!Contents(wait') = Append(c, r)
    BY <1>1, <1>3, <1>4, <2>1, <2>2, WaitPut
  <2>4. Present(inbox', Append(c, r), blocked)
    <3>1. r \in Readers \cup {"nobody"}
      BY <1>3
    <3> QED BY <1>5, <1>6, <3>1, PresentWait
  <2>5. WaitingInv'
    BY <1>5, <1>7, <2>1, <2>3, <2>4 DEF WaitingInv, Idle
  <2> QED BY <2>1, <2>5 DEF Served
<1>8. CASE ~ Ring!IsEmpty(buf)
  <2>1. /\ buf' = Ring!DropOldest(buf) /\ blocked' = blocked \ {r} /\ wait' = wait
    BY <1>1, <1>8 DEF HandleGetc
  <2>2. wait.elems = 0 /\ c = << >>
    BY <1>2, <1>5, <1>8 DEF Idle
  <2>3. WaitingInv'
    BY <1>1, <1>6, <2>1, <2>2 DEF WaitingInv, Idle
  <2>4. Served
    <3> SUFFICES ASSUME NEW s \in blocked, s # r PROVE InFront(<< >> \o inbox, r, s)
      BY <1>1, <2>1, <2>2 DEF Served
    <3>1. \E k \in 1 .. Len(inbox) : inbox[k] = s
      BY <1>2, <2>2 DEF Present
    <3> QED BY <1>1, <1>3, <3>1, HeadInFront
  <2> QED BY <2>3, <2>4
<1> QED BY <1>7, <1>8

LEMMA HandleNotifierServes ==
    ASSUME ReceiveInv, WaitingInv, HandleNotifier
    PROVE  WaitingInv' /\ Served
<1>1. PICK c : c = Waiters!Contents(wait)
  OBVIOUS
<1>2. Receives({NOTIFIER}) /\ Present(inbox, c, blocked) /\ Idle(buf, wait)
  BY <1>1 DEF HandleNotifier, WaitingInv
<1>3. /\ Head(inbox) = NOTIFIER /\ inbox' = Tail(inbox) /\ inbox # << >>
      /\ inbox \in Seq(Readers \cup {NOTIFIER})
  BY <1>2, ReceivesFacts
<1>4. /\ IsBuffer(buf) /\ IsWaitBuffer(wait) /\ uart \in Seq(Nat)
      /\ blocked \subseteq Readers /\ NOTIFIER \notin blocked
  BY Sizes DEF ReceiveInv, TypeInv
<1>5. /\ c \in Seq(Readers \cup {"nobody"}) /\ Len(c) = wait.elems /\ wait.elems \in Nat
      /\ buf.elems \in Nat /\ Len(Ring!Contents(buf)) = buf.elems
      /\ Ring!Contents(buf) \in Seq(Nat) /\ (Waiters!IsEmpty(wait) <=> wait.elems = 0)
  BY <1>1, <1>4, WaitFacts, BufferFacts
<1>6. Present(inbox', c, blocked)
  <2>1. blocked \ {NOTIFIER} = blocked
    BY <1>4
  <2> QED BY <1>2, <1>3, <2>1, PresentTail
<1>7. PICK t, n : t = Taken /\ n = Answered
  OBVIOUS
<1>8. t \in 0 .. Len(uart) /\ n \in 0 .. wait.elems /\ n <= buf.elems + t
  BY <1>3, <1>7, AnsweredFacts
<1>9. ~ (Len(uart) < Taken)
  BY <1>4, <1>7, <1>8
<1>10. CASE Len(Ring!Contents(buf)) + Taken > BufSize
  <2>1. UNCHANGED <<buf, wait, blocked>>
    BY <1>9, <1>10 DEF HandleNotifier, Fail
  <2>2. WaitingInv'
    BY <1>1, <1>2, <1>6, <2>1 DEF WaitingInv, Idle
  <2> QED BY <2>1, <2>2 DEF Served
<1>11. CASE ~ (Len(Ring!Contents(buf)) + Taken > BufSize)
  <2>1. PICK u : u = SubSeq(uart, 1, t)
    OBVIOUS
  <2>2. u \in Seq(Nat) /\ Len(u) = t
    BY <1>4, <1>8, <2>1, RingB!SplitAt
  <2>3. PICK b1, first : b1 = Ring!PutAll(buf, u) /\ first = SubSeq(c, 1, n)
    OBVIOUS
  <2>4. PICK A : A = {first[i] : i \in 1 .. n}
    OBVIOUS
  <2>5. /\ blocked' = blocked \ A
        /\ buf' = Ring!RemoveSome(b1, n) /\ wait' = Waiters!RemoveSome(wait, n)
    BY <1>1, <1>7, <1>9, <1>11, <2>1, <2>3, <2>4 DEF HandleNotifier, Answer
  <2>6. /\ Waiters!Contents(wait') = SubSeq(c, n + 1, Len(c))
        /\ wait'.elems = wait.elems - n
    BY <1>1, <1>4, <1>5, <1>8, <2>5, WaitRemoveSome
  <2>7. n \in 0 .. Len(c) /\ \A i \in 1 .. n : first[i] = c[i]
    BY <1>5, <1>8, <2>3
  <2>8. Present(inbox', SubSeq(c, n + 1, Len(c)), blocked')
    <3>1. \A i \in 1 .. n : c[i] \in A
      BY <2>4, <2>7
    <3> QED BY <1>5, <1>6, <2>5, <2>7, <3>1, PresentAnswer
  <2>9. buf'.elems = buf.elems + t - n
    <3>1. RingB!IsRing(b1, Nat) /\ b1.elems = buf.elems + t
      <4>1. RingB!IsRing(buf, Nat) /\ buf.elems + Len(u) <= BufSize
        BY <1>4, <1>5, <1>7, <1>8, <1>11, <2>2, Sizes DEF IsBuffer
      <4> QED BY <2>2, <2>3, <4>1, Sizes, RingB!PutAllAppends, SameOperators
    <3>2. n \in 0 .. b1.elems
      BY <1>5, <1>8, <3>1
    <3>3. RingB!RemoveSome(b1, n).elems = b1.elems - n
      BY <3>1, <3>2, Sizes, RingB!RemoveSomeTakes
    <3>4. buf' = RingB!RemoveSome(b1, n)
      BY <2>5, SameOperators
    <3> QED BY <1>5, <1>8, <3>1, <3>3, <3>4
  <2>10. Idle(buf, wait)'
    <3>1. n = (IF server = "fifo" \/ wait.elems = 0 THEN wait.elems ELSE 1)
      BY <1>5, <1>7 DEF Answered
    <3>2. server # "fifo" => t = 1
      BY <1>7 DEF Taken
    <3>3. buf.elems > 0 => wait.elems = 0
      BY <1>2 DEF Idle
    <3>4. buf'.elems > 0 => wait'.elems = 0
      BY <1>5, <1>8, <2>6, <2>9, <3>1, <3>2, <3>3
    <3> QED BY <3>4 DEF Idle
  <2>11. Served
    <3> SUFFICES ASSUME NEW r \in blocked \ blocked', NEW s \in blocked \cap blocked'
                 PROVE  InFront(c \o inbox, r, s)
      BY <1>1 DEF Served
    <3>1. r \in A /\ s \notin A
      BY <2>5
    <3>2. (\E i \in 1 .. n : r = c[i]) /\ \A i \in 1 .. n : s # c[i]
      BY <2>4, <2>7, <3>1
    <3>3. \/ \E i \in 1 .. Len(c) : c[i] = s
          \/ \E k \in 1 .. Len(inbox) : inbox[k] = s
      BY <1>2 DEF Present
    <3>4. PICK S : S = Readers \cup {"nobody", NOTIFIER}
      OBVIOUS
    <3>5. inbox \in Seq(S) /\ c \in Seq(S)
      <4>1. PICK X, Y : X = Readers \cup {NOTIFIER} /\ Y = Readers \cup {"nobody"}
        OBVIOUS
      <4>2. inbox \in Seq(X) /\ c \in Seq(Y) /\ X \subseteq S /\ Y \subseteq S
        BY <1>3, <1>5, <3>4, <4>1
      <4> QED BY <4>2, SeqMonotonic
    <3> QED BY <2>7, <3>2, <3>3, <3>5, FirstInFront, Zenon
  <2> QED BY <2>6, <2>8, <2>10, <2>11 DEF WaitingInv
<1> QED BY <1>10, <1>11

LEMMA OthersServe ==
    ASSUME ReceiveInv, WaitingInv,
           ByteArrives \/ ReceiveInterrupt \/ NotifierSends \/ \E r \in Readers : Getc(r)
    PROVE  WaitingInv' /\ Served
<1>1. inbox \in Seq(Readers \cup {NOTIFIER})
  BY DEF ReceiveInv, TypeInv
<1>2. PICK c : c = Waiters!Contents(wait)
  OBVIOUS
<1>3. Present(inbox, c, blocked) /\ Idle(buf, wait)
  BY <1>2 DEF WaitingInv
<1>4. CASE ByteArrives \/ ReceiveInterrupt
  BY <1>4 DEF ByteArrives, ReceiveInterrupt, WaitingInv, Served, Idle
<1>5. CASE NotifierSends
  <2>1. inbox' = Append(inbox, NOTIFIER) /\ UNCHANGED <<buf, wait, blocked>>
    BY <1>5 DEF NotifierSends
  <2>2. PICK m : m = NOTIFIER
    OBVIOUS
  <2>3. m \in Readers \cup {NOTIFIER} /\ blocked \subseteq blocked \cup {m}
    BY <2>2
  <2>4. Present(inbox', c, blocked)
    BY <1>1, <1>3, <2>1, <2>2, <2>3, PresentAppend
  <2> QED BY <1>2, <1>3, <2>1, <2>4 DEF WaitingInv, Served, Idle
<1>6. CASE \E r \in Readers : Getc(r)
  <2>1. PICK r \in Readers : Getc(r)
    BY <1>6
  <2>2. /\ inbox' = Append(inbox, r) /\ blocked' = blocked \cup {r} /\ UNCHANGED <<buf, wait>>
    BY <2>1 DEF Getc
  <2>3. r \in Readers \cup {NOTIFIER}
    OBVIOUS
  <2>4. Present(inbox', c, blocked')
    BY <1>1, <1>3, <2>2, <2>3, PresentAppend
  <2> QED BY <1>2, <1>3, <2>2, <2>4 DEF WaitingInv, Served, Idle
<1> QED BY <1>4, <1>5, <1>6

LEMMA WaitingInitial == Init => WaitingInv
<1> SUFFICES ASSUME Init PROVE WaitingInv
  OBVIOUS
<1>1. blocked = {} /\ buf = Ring!NewBuffer
  BY DEF Init
<1>2. buf.elems = 0
  BY <1>1 DEF Ring!NewBuffer
<1> QED BY <1>1, <1>2 DEF WaitingInv, Present, Idle

LEMMA WaitingNext ==
    ASSUME ReceiveInv, WaitingInv, [Next]_vars
    PROVE  WaitingInv' /\ Served
<1>1. CASE ByteArrives \/ ReceiveInterrupt \/ NotifierSends \/ \E r \in Readers : Getc(r)
  BY <1>1, OthersServe, Zenon
<1>2. CASE ServerStep
  BY <1>2, HandleNotifierServes, HandleGetcServes, Zenon DEF ServerStep
<1>3. CASE UNCHANGED vars
  BY <1>3 DEF vars, hardware, WaitingInv, Idle, Served
<1> QED BY <1>1, <1>2, <1>3 DEF Next

\* usr/ioserver.c:170, 180, 216, 229: readers are answered in the order of their calls,
\* those whose calls the server has not received yet included.
THEOREM FirstComeFirstServedAlways == ASSUME OneFifoReader PROVE Spec => FirstComeFirstServed
<1> DEFINE FirstComeStep ==
             LET queue == Waiters!Contents(wait) \o inbox
             IN  \A r \in blocked \ blocked', s \in blocked \cap blocked' :
                    \E i, j \in DOMAIN queue : i < j /\ queue[i] = r /\ queue[j] = s
<1>1. ReceiveInv /\ WaitingInv /\ [Next]_vars => WaitingInv' /\ [FirstComeStep]_vars
  <2>1. Served => FirstComeStep
    BY DEF Served, InFront
  <2> QED BY <2>1, WaitingNext
<1> HIDE DEF FirstComeStep
<1>2. Spec => [][FirstComeStep]_vars
  BY <1>1, WaitingInitial, ReceiveInvariant, PTL DEF Spec
<1> QED BY <1>2 DEF FirstComeStep, FirstComeFirstServed

==============================================================================
