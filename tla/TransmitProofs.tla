---------------------------- MODULE TransmitProofs ----------------------------
(***************************************************************************)
(* The transmit servers lose, repeat and reorder no byte, fail no          *)
(* assertion but that of the full buffer, never hand the train's UART a    *)
(* byte before the controller has asked for it, and never more than the    *)
(* UART has room for: for any sizes and any number of callers.             *)
(***************************************************************************)
EXTENDS TransmitServer, SequenceTheorems, TLAPS

RingT == INSTANCE RingTheorems
             WITH Size <- BufSize, CountMod <- BufSize + MaxBytes + 1, Unset <- 0

Run(a, n) == RingT!Run(a, n)
IsBuffer(b) == RingT!IsRing(b, Nat)

----------------------------------------------------------------------------
(* The inductive invariant. *)

Message ==
    {FromNotifier} \cup [type : {"MESSAGE_PUTC", "MESSAGE_PRINTF"}, bytes : Seq(Nat)]

TypeInv ==
    /\ channel \in Channels /\ asked \in Nat /\ inbox \in Seq(Message)
    /\ IsBuffer(buf) /\ canPut \in BOOLEAN /\ failed \in {"none", "full"}
    /\ notifier \in {"awaiting", "woken", "sent"}
    /\ uart \in Seq(Nat) /\ sent \in Seq(Nat)
    /\ txfe \in BOOLEAN /\ ctsSeen \in BOOLEAN /\ modem \in BOOLEAN
    /\ controller \in {"ready", "got", "busy"}

\* The notifier has one message, which is in the inbox or has become can_put.
NoNote(in) == \A k \in 1 .. Len(in) : in[k].type # "MESSAGE_NOTIFIER"

AtMostOneNote(in) ==
    \A j, k \in 1 .. Len(in) :
        in[j].type = "MESSAGE_NOTIFIER" /\ in[k].type = "MESSAGE_NOTIFIER" => j = k

TokenInv ==
    /\ AtMostOneNote(inbox)
    /\ ~ NoNote(inbox) => notifier = "sent" /\ ~ canPut
    /\ canPut => notifier = "sent"

\* Unless the notifier awaits the interrupt the UART has room; on the train channel it is
\* empty and the controller ready, nothing is pending, and what the interrupts
\* remember is spent.  While it awaits, the byte in the UART, the controller's answer
\* and what is remembered of it follow each other.
Settled == controller = "ready" /\ ~ modem /\ ~ txfe /\ ~ ctsSeen

LineInv ==
    /\ Len(uart) <= Room
    /\ notifier # "awaiting" => Len(uart) <= Room \div 2
    /\ channel # "train" => Settled
    /\ channel = "train" =>
         /\ notifier # "awaiting" \/ uart # << >> => Settled
         /\ controller # "ready" => ~ ctsSeen
         /\ controller = "got" => ~ modem
         /\ controller = "ready" /\ notifier = "awaiting" /\ uart = << >> =>
              (modem <=> ~ ctsSeen) /\ (ctsSeen => ~ txfe)

\* The messages in the inbox have the bytes from the number "from" on up to "to": at[k]
\* is the last number in the first k messages.
Placed(at, in, from, to) ==
    /\ at \in [0 .. Len(in) -> Nat] /\ at[0] = from /\ at[Len(in)] = to
    /\ \A k \in 1 .. Len(in) :
         at[k - 1] <= at[k] /\ in[k].bytes = Run(at[k - 1], at[k] - at[k - 1])

InOrder(from, at) ==
    /\ Placed(at, inbox, from, asked)
    /\ (sent \o uart) \o Ring!Contents(buf) = Run(0, from)

BytesInv == failed = "none" => \E from \in Nat : \E at : InOrder(from, at)

TransmitInv == TypeInv /\ TokenInv /\ LineInv /\ BytesInv

----------------------------------------------------------------------------
(* The ring. *)

\* The buffer as the ring that the theorems about rings speak of.
LEMMA SameOperators ==
    /\ Ring!NewBuffer = RingT!NewBuffer
    /\ \A b : Ring!Contents(b) = RingT!Contents(b)
    /\ \A b : Ring!IsEmpty(b) <=> RingT!IsEmpty(b)
    /\ \A b, es : Ring!PutAll(b, es) = RingT!PutAll(b, es)
    /\ \A b, n : Ring!RemoveSome(b, n) = RingT!RemoveSome(b, n)
BY DEF Ring!NewBuffer, RingT!NewBuffer, Ring!Contents, RingT!Contents,
       Ring!IsEmpty, RingT!IsEmpty, Ring!PutAll, RingT!PutAll, Ring!Put, RingT!Put,
       Ring!RemoveSome, RingT!RemoveSome, Ring!DropOldest, RingT!DropOldest

LEMMA Sizes ==
    /\ BufSize \in Nat \ {0} /\ BufSize + MaxBytes + 1 \in Nat
    /\ BufSize + MaxBytes + 1 > BufSize
BY TransmitAssumption

LEMMA BufferFacts ==
    ASSUME NEW b, IsBuffer(b)
    PROVE  /\ Ring!Contents(b) \in Seq(Nat) /\ Len(Ring!Contents(b)) = b.elems
           /\ b.elems \in Nat /\ b.elems <= BufSize
           /\ Ring!IsEmpty(b) <=> b.elems = 0
<1>1. RingT!Contents(b) \in Seq(Nat) /\ Len(RingT!Contents(b)) = b.elems
  BY Sizes, RingT!ContentsFacts DEF IsBuffer
<1>2. b.elems \in Nat /\ b.elems <= BufSize
  BY Sizes DEF IsBuffer, RingT!IsRing
<1> QED BY <1>1, <1>2, SameOperators DEF RingT!IsEmpty

LEMMA BufferPutAll ==
    ASSUME NEW b, IsBuffer(b), NEW es \in Seq(Nat), b.elems + Len(es) <= BufSize
    PROVE  /\ IsBuffer(Ring!PutAll(b, es))
           /\ Ring!PutAll(b, es).elems = b.elems + Len(es)
           /\ Ring!Contents(Ring!PutAll(b, es)) = Ring!Contents(b) \o es
<1>1. /\ RingT!IsRing(RingT!PutAll(b, es), Nat)
      /\ RingT!PutAll(b, es).elems = b.elems + Len(es)
      /\ RingT!Contents(RingT!PutAll(b, es)) = RingT!Contents(b) \o es
  BY Sizes, RingT!PutAllAppends DEF IsBuffer
<1> QED BY <1>1, SameOperators DEF IsBuffer

LEMMA BufferRemoveSome ==
    ASSUME NEW b, IsBuffer(b), NEW n \in 0 .. b.elems
    PROVE  /\ IsBuffer(Ring!RemoveSome(b, n))
           /\ Ring!RemoveSome(b, n).elems = b.elems - n
           /\ Ring!Contents(Ring!RemoveSome(b, n)) = SubSeq(Ring!Contents(b), n + 1, b.elems)
<1>1. /\ RingT!IsRing(RingT!RemoveSome(b, n), Nat)
      /\ RingT!RemoveSome(b, n).elems = b.elems - n
      /\ RingT!Contents(RingT!RemoveSome(b, n)) = SubSeq(RingT!Contents(b), n + 1, b.elems)
  BY Sizes, RingT!RemoveSomeTakes DEF IsBuffer
<1> QED BY <1>1, SameOperators DEF IsBuffer

\* There is room for more than half of the UART's bytes.
LEMMA RoomFacts ==
    ASSUME channel \in Channels
    PROVE  /\ Room \in Nat \ {0} /\ Room \div 2 \in Nat /\ Room \div 2 < Room
           /\ channel # "fifo" => Room = 1 /\ Room \div 2 = 0
BY TransmitAssumption DEF Room, Channels

----------------------------------------------------------------------------
(* The inbox. *)

LEMMA MessageFacts ==
    /\ FromNotifier \in Message
    /\ \A m \in Message : /\ m.bytes \in Seq(Nat)
                          /\ m.type \in {"MESSAGE_NOTIFIER", "MESSAGE_PUTC", "MESSAGE_PRINTF"}
                          /\ m.type = "MESSAGE_NOTIFIER" => m.bytes = << >>
<1>1. /\ FromNotifier.bytes = << >> /\ FromNotifier.type = "MESSAGE_NOTIFIER"
      /\ << >> \in Seq(Nat)
  BY DEF FromNotifier
<1>2. ASSUME NEW m \in [type : {"MESSAGE_PUTC", "MESSAGE_PRINTF"}, bytes : Seq(Nat)]
      PROVE  m.bytes \in Seq(Nat) /\ m.type \in {"MESSAGE_PUTC", "MESSAGE_PRINTF"}
  OBVIOUS
<1>3. \A m \in Message : m = FromNotifier
        \/ m \in [type : {"MESSAGE_PUTC", "MESSAGE_PRINTF"}, bytes : Seq(Nat)]
  BY DEF Message
<1>4. FromNotifier \in Message
  BY DEF Message
<1>5. "MESSAGE_PUTC" # "MESSAGE_NOTIFIER" /\ "MESSAGE_PRINTF" # "MESSAGE_NOTIFIER"
  OBVIOUS
<1>6. ASSUME NEW m \in Message
      PROVE  /\ m.bytes \in Seq(Nat)
             /\ m.type \in {"MESSAGE_NOTIFIER", "MESSAGE_PUTC", "MESSAGE_PRINTF"}
             /\ m.type = "MESSAGE_NOTIFIER" => m.bytes = << >>
  <2>1. CASE m = FromNotifier
    BY <1>1, <2>1
  <2>2. CASE m \in [type : {"MESSAGE_PUTC", "MESSAGE_PRINTF"}, bytes : Seq(Nat)]
    BY <1>2, <1>5, <2>2
  <2> QED BY <1>3, <2>1, <2>2
<1> QED BY <1>4, <1>6

\* A message joins the inbox.
LEMMA NotesAppend ==
    ASSUME NEW in \in Seq(Message), NEW m \in Message
    PROVE  LET new == Append(in, m)
           IN  /\ m.type # "MESSAGE_NOTIFIER" => (NoNote(new) <=> NoNote(in))
               /\ m.type # "MESSAGE_NOTIFIER" /\ AtMostOneNote(in) => AtMostOneNote(new)
               /\ NoNote(in) => AtMostOneNote(new)
<1>1. PICK new : new = Append(in, m)
  OBVIOUS
<1>2. /\ Len(in) \in Nat /\ Len(new) = Len(in) + 1 /\ new[Len(in) + 1] = m
      /\ \A i \in 1 .. Len(in) : new[i] = in[i]
  BY <1>1
<1>3. PICK L \in Nat : L = Len(in)
  BY <1>2
<1>4. \A i \in 1 .. L + 1 : i \in 1 .. L \/ i = L + 1
  BY <1>3
<1>5. \A i \in 1 .. L : i \in 1 .. L + 1
  BY <1>3
<1>6. /\ m.type # "MESSAGE_NOTIFIER" => (NoNote(new) <=> NoNote(in))
      /\ m.type # "MESSAGE_NOTIFIER" /\ AtMostOneNote(in) => AtMostOneNote(new)
      /\ NoNote(in) => AtMostOneNote(new)
  BY <1>2, <1>3, <1>4, <1>5 DEF NoNote, AtMostOneNote
<1> QED BY <1>1, <1>6

\* The first message leaves it.
LEMMA NotesTail ==
    ASSUME NEW in \in Seq(Message), in # << >>, AtMostOneNote(in)
    PROVE  LET new == Tail(in)
           IN  /\ AtMostOneNote(new)
               /\ NoNote(in) => NoNote(new) /\ Head(in).type # "MESSAGE_NOTIFIER"
               /\ Head(in).type = "MESSAGE_NOTIFIER" => NoNote(new)
<1>1. PICK new : new = Tail(in)
  OBVIOUS
<1>2. PICK m : m = Head(in)
  OBVIOUS
<1>3. /\ Len(in) \in Nat /\ Len(in) > 0 /\ Len(new) = Len(in) - 1 /\ in[1] = m
      /\ \A i \in 1 .. Len(in) - 1 : new[i] = in[i + 1]
  BY <1>1, <1>2
<1>4. PICK L \in Nat : L = Len(in) /\ L > 0
  BY <1>3
<1>5. \A i \in 1 .. L - 1 : i + 1 \in 1 .. L /\ i + 1 # 1
  BY <1>4
<1>6. \A i, j \in 1 .. L - 1 : i + 1 = j + 1 => i = j
  BY <1>4
<1>7. 1 \in 1 .. L
  BY <1>4
<1>8. /\ AtMostOneNote(new)
      /\ NoNote(in) => NoNote(new) /\ m.type # "MESSAGE_NOTIFIER"
      /\ m.type = "MESSAGE_NOTIFIER" => NoNote(new)
  BY <1>3, <1>4, <1>5, <1>6, <1>7, SMTT(40) DEF NoNote, AtMostOneNote
<1> QED BY <1>1, <1>2, <1>8

\* The bytes of a new message follow those in the inbox.
LEMMA PlacedAppend ==
    ASSUME NEW in \in Seq(Message), NEW m \in Message, NEW from \in Nat, NEW to \in Nat,
           NEW at, Placed(at, in, from, to), NEW n \in Nat, m.bytes = Run(to, n)
    PROVE  \E new : Placed(new, Append(in, m), from, to + n)
<1>1. PICK L \in Nat : L = Len(in)
  OBVIOUS
<1>2. PICK in2 : in2 = Append(in, m)
  OBVIOUS
<1>3. Len(in2) = L + 1 /\ in2[L + 1] = m /\ \A i \in 1 .. L : in2[i] = in[i]
  BY <1>1, <1>2
<1>4. /\ at \in [0 .. L -> Nat] /\ at[0] = from /\ at[L] = to
      /\ \A k \in 1 .. L : at[k - 1] <= at[k] /\ in[k].bytes = Run(at[k - 1], at[k] - at[k - 1])
  BY <1>1 DEF Placed
<1> DEFINE new == [k \in 0 .. L + 1 |-> IF k = L + 1 THEN to + n ELSE at[k]]
<1>5. new \in [0 .. L + 1 -> Nat]
  BY <1>4
<1>6. new[0] = from /\ new[L + 1] = to + n /\ \A k \in 0 .. L : new[k] = at[k]
  BY <1>4
<1> HIDE DEF new
<1>7. ASSUME NEW k \in 1 .. L + 1
      PROVE  new[k - 1] <= new[k] /\ in2[k].bytes = Run(new[k - 1], new[k] - new[k - 1])
  <2>1. CASE k = L + 1
    <3>1. k - 1 = L /\ L \in 0 .. L
      BY <2>1
    <3>2. new[k - 1] = to /\ new[k] = to + n /\ (to + n) - to = n /\ to <= to + n
      BY <1>4, <1>6, <2>1, <3>1
    <3>3. in2[k] = m
      BY <1>3, <2>1
    <3> QED BY <3>2, <3>3
  <2>2. CASE k # L + 1
    <3>1. k \in 1 .. L /\ k \in 0 .. L /\ k - 1 \in 0 .. L
      BY <2>2
    <3>2. new[k] = at[k] /\ new[k - 1] = at[k - 1] /\ in2[k] = in[k]
      BY <1>3, <1>6, <3>1
    <3>3. at[k - 1] <= at[k] /\ in[k].bytes = Run(at[k - 1], at[k] - at[k - 1])
      BY <1>4, <3>1
    <3> QED BY <3>2, <3>3
  <2> QED BY <2>1, <2>2
<1>8. Placed(new, in2, from, to + n)
  BY <1>3, <1>5, <1>6, <1>7 DEF Placed
<1> QED BY <1>2, <1>8

\* The bytes of the first message come first.
LEMMA PlacedTail ==
    ASSUME NEW in \in Seq(Message), in # << >>, NEW from \in Nat, NEW to \in Nat,
           NEW at, Placed(at, in, from, to)
    PROVE  \E n \in Nat : /\ Head(in).bytes = Run(from, n)
                          /\ \E new : Placed(new, Tail(in), from + n, to)
<1>1. PICK L \in Nat : L = Len(in) /\ L > 0
  OBVIOUS
<1>2. PICK in2, m : in2 = Tail(in) /\ m = Head(in)
  OBVIOUS
<1>3. Len(in2) = L - 1 /\ in[1] = m /\ \A i \in 1 .. L - 1 : in2[i] = in[i + 1]
  BY <1>1, <1>2
<1>4. /\ at \in [0 .. L -> Nat] /\ at[0] = from /\ at[L] = to
      /\ \A k \in 1 .. L : at[k - 1] <= at[k] /\ in[k].bytes = Run(at[k - 1], at[k] - at[k - 1])
  BY <1>1 DEF Placed
<1>5. 1 \in 1 .. L /\ 1 \in 0 .. L /\ 1 - 1 = 0
  BY <1>1
<1>6. at[1] \in Nat /\ from <= at[1] /\ m.bytes = Run(from, at[1] - from)
  BY <1>3, <1>4, <1>5
<1>7. PICK n \in Nat : n = at[1] - from /\ from + n = at[1]
  BY <1>6
<1> DEFINE new == [k \in 0 .. L - 1 |-> at[k + 1]]
<1>8. \A k \in 0 .. L - 1 : k + 1 \in 0 .. L
  BY <1>1
<1>9. new \in [0 .. L - 1 -> Nat] /\ \A k \in 0 .. L - 1 : new[k] = at[k + 1]
  BY <1>4, <1>8
<1>10. new[0] = from + n /\ new[L - 1] = to
  <2>1. 0 \in 0 .. L - 1 /\ L - 1 \in 0 .. L - 1 /\ 0 + 1 = 1 /\ (L - 1) + 1 = L
    BY <1>1
  <2> QED BY <1>4, <1>7, <1>9, <2>1
<1> HIDE DEF new
<1>11. ASSUME NEW k \in 1 .. L - 1
       PROVE  new[k - 1] <= new[k] /\ in2[k].bytes = Run(new[k - 1], new[k] - new[k - 1])
  <2>1. /\ k + 1 \in 1 .. L /\ k \in 0 .. L - 1 /\ k - 1 \in 0 .. L - 1
        /\ (k - 1) + 1 = k /\ (k + 1) - 1 = k
    BY <1>1
  <2>2. new[k - 1] = at[k] /\ new[k] = at[k + 1] /\ in2[k] = in[k + 1]
    BY <1>3, <1>9, <2>1
  <2>3. at[k] <= at[k + 1] /\ in[k + 1].bytes = Run(at[k], at[k + 1] - at[k])
    BY <1>4, <2>1
  <2> QED BY <2>2, <2>3
<1>12. Placed(new, in2, from + n, to)
  BY <1>3, <1>9, <1>10, <1>11 DEF Placed
<1>13. m.bytes = Run(from, n)
  BY <1>6, <1>7
<1> QED BY <1>2, <1>7, <1>12, <1>13

----------------------------------------------------------------------------
(* The server hands bytes to the UART. *)

\* One turn takes at least one byte and no more than there are, and no more than the
\* UART has room for when it has room for one.
LEMMA BurstFacts ==
    ASSUME channel \in Channels, Len(uart) \in Nat, NEW c \in Seq(Nat), c # << >>
    PROVE  /\ BurstSize(c) \in 1 .. Len(c)
           /\ Len(uart) < Room => Len(uart) + BurstSize(c) <= Room
<1> DEFINE T == {n \in 1 .. Len(c) :
                   /\ n = 1 \/ n <= Room - Len(uart)
                   /\ \A i \in 2 .. n : c[i] \notin EscBytes}
<1>1. Len(c) \in Nat \ {0} /\ 1 \in 1 .. Len(c) /\ Room \in Nat
  BY RoomFacts
<1>2. CASE channel # "fifo"
  BY <1>1, <1>2 DEF BurstSize
<1>3. CASE channel = "fifo"
  <2>1. 1 \in T /\ T \subseteq 0 .. Len(c) /\ T # {}
    BY <1>1
  <2>2. \E x \in T : \A y \in T : x >= y
    <3>1. Len(c) \in Nat
      BY <1>1
    <3> HIDE DEF T
    <3> QED BY <2>1, <3>1, RingT!Greatest
  <2>3. BurstSize(c) = CHOOSE x \in T : \A y \in T : x >= y
    BY <1>3 DEF BurstSize, Max
  <2>4. BurstSize(c) \in T
    <3> HIDE DEF T
    <3> QED BY <2>2, <2>3
  <2>5. PICK n \in T : n = BurstSize(c)
    BY <2>4
  <2>6. n \in 1 .. Len(c) /\ (n = 1 \/ n <= Room - Len(uart))
    BY <2>5
  <2> QED BY <1>1, <2>5, <2>6
<1> QED BY <1>2, <1>3

\* What leaves the buffer is what joins the UART.
LEMMA Moves ==
    ASSUME NEW b, IsBuffer(b), NEW n \in 1 .. b.elems, NEW u \in Seq(Nat), NEW s \in Seq(Nat)
    PROVE  LET c == Ring!Contents(b)
               u2 == u \o SubSeq(c, 1, n)
               b2 == Ring!RemoveSome(b, n)
           IN  /\ IsBuffer(b2) /\ u2 \in Seq(Nat) /\ Len(u2) = Len(u) + n
               /\ (s \o u2) \o Ring!Contents(b2) = (s \o u) \o c
<1>1. PICK c, b2 : c = Ring!Contents(b) /\ b2 = Ring!RemoveSome(b, n)
  OBVIOUS
<1>2. c \in Seq(Nat) /\ Len(c) = b.elems /\ n \in 0 .. Len(c) /\ n \in 0 .. b.elems
  BY <1>1, BufferFacts
<1>3. IsBuffer(b2) /\ Ring!Contents(b2) = SubSeq(c, n + 1, Len(c))
  BY <1>1, <1>2, BufferRemoveSome
<1>4. PICK x, y : x = SubSeq(c, 1, n) /\ y = SubSeq(c, n + 1, Len(c))
  OBVIOUS
<1>5. x \in Seq(Nat) /\ y \in Seq(Nat) /\ x \o y = c /\ Len(x) = n
  BY <1>2, <1>4, RingT!SplitAt
<1>6. u \o x \in Seq(Nat) /\ Len(u \o x) = Len(u) + n
  BY <1>5, ConcatProperties
<1>7. (s \o (u \o x)) \o y = (s \o u) \o c
  <2>1. x \in Seq(Nat)
    BY <1>5
  <2>2. y \in Seq(Nat)
    BY <1>5
  <2>3. s \o u \in Seq(Nat)
    BY ConcatProperties
  <2>4. s \o (u \o x) = (s \o u) \o x
    BY <2>1, ConcatAssociative, SMTT(60)
  <2>5. ((s \o u) \o x) \o y = (s \o u) \o (x \o y)
    <3>1. PICK v \in Seq(Nat) : v = s \o u
      BY <2>3
    <3>2. (v \o x) \o y = v \o (x \o y)
      BY <2>1, <2>2, <3>1, ConcatAssociative, SMTT(60)
    <3> QED BY <3>1, <3>2, Zenon
  <2>6. x \o y = c
    BY <1>5
  <2> QED BY <2>4, <2>5, <2>6, Zenon
<1>8. /\ IsBuffer(b2) /\ u \o x \in Seq(Nat) /\ Len(u \o x) = Len(u) + n
      /\ (s \o (u \o x)) \o Ring!Contents(b2) = (s \o u) \o c
  BY <1>3, <1>4, <1>6, <1>7, Zenon
<1> QED BY <1>1, <1>4, <1>8, Zenon

----------------------------------------------------------------------------
(* The callers and the hardware keep the invariant. *)

\* Putc and Printf number the bytes that they send.
LEMMA PrintsStep ==
    ASSUME TransmitInv, NEW type \in {"MESSAGE_PUTC", "MESSAGE_PRINTF"}, NEW n \in Nat,
           Prints(type, n)
    PROVE  TransmitInv'
<1>1. PICK m : m = [type |-> type, bytes |-> [i \in 1 .. n |-> asked + i]]
  OBVIOUS
<1>2. /\ inbox' = Append(inbox, m) /\ asked' = asked + n
      /\ UNCHANGED <<channel, buf, canPut, failed, notifier, uart, sent, line>>
  BY <1>1 DEF Prints
<1>3. asked \in Nat /\ inbox \in Seq(Message)
  BY DEF TransmitInv, TypeInv
<1>4. m \in Message /\ m.bytes = Run(asked, n) /\ m.type # "MESSAGE_NOTIFIER"
  <2>1. m.bytes = Run(asked, n) /\ m.type = type
    BY <1>1 DEF Run, RingT!Run
  <2>2. [i \in 1 .. n |-> asked + i] \in Seq(Nat)
    BY <1>3
  <2>3. m \in [type : {"MESSAGE_PUTC", "MESSAGE_PRINTF"}, bytes : Seq(Nat)]
    BY <1>1, <2>2
  <2> QED BY <2>1, <2>3 DEF Message
<1>5. TypeInv'
  <2>1. inbox' \in Seq(Message) /\ asked' \in Nat
    BY <1>2, <1>3, <1>4
  <2> QED BY <1>2, <2>1 DEF TransmitInv, TypeInv, line
<1>6. TokenInv'
  <2>1. /\ NoNote(inbox') <=> NoNote(inbox)
        /\ AtMostOneNote(inbox) => AtMostOneNote(inbox')
    BY <1>2, <1>3, <1>4, NotesAppend
  <2> QED BY <1>2, <2>1 DEF TransmitInv, TokenInv
<1>7. LineInv'
  BY <1>2 DEF TransmitInv, LineInv, Settled, Room, line
<1>8. BytesInv'
  <2> SUFFICES ASSUME failed' = "none"
               PROVE  \E from \in Nat : \E at : InOrder(from, at)'
    BY DEF BytesInv
  <2>1. PICK from \in Nat : \E at : InOrder(from, at)
    BY <1>2 DEF TransmitInv, BytesInv
  <2>2. PICK at : InOrder(from, at)
    BY <2>1
  <2>3. PICK new : Placed(new, Append(inbox, m), from, asked + n)
    <3>1. Placed(at, inbox, from, asked)
      BY <2>2 DEF InOrder
    <3> QED BY <1>3, <1>4, <2>1, <3>1, PlacedAppend, Zenon
  <2>4. InOrder(from, new)'
    BY <1>2, <2>2, <2>3 DEF InOrder
  <2> QED BY <2>1, <2>4
<1> QED BY <1>5, <1>6, <1>7, <1>8 DEF TransmitInv

\* The notifier's message has no bytes.
LEMMA NotifierSendsStep ==
    ASSUME TransmitInv, NotifierSends
    PROVE  TransmitInv'
<1>1. /\ notifier = "woken" /\ notifier' = "sent" /\ inbox' = Append(inbox, FromNotifier)
      /\ UNCHANGED <<channel, asked, buf, canPut, failed, uart, sent, line>>
  BY DEF NotifierSends
<1>2. asked \in Nat /\ inbox \in Seq(Message) /\ FromNotifier \in Message
  BY MessageFacts DEF TransmitInv, TypeInv
<1>3. FromNotifier.bytes = Run(asked, 0) /\ asked + 0 = asked
  <2>1. FromNotifier.bytes = << >>
    BY DEF FromNotifier
  <2>2. Run(asked, 0) = << >>
    BY <1>2, RingT!RunEmpty DEF Run
  <2> QED BY <1>2, <2>1, <2>2
<1>5. TypeInv'
  <2>1. inbox' \in Seq(Message)
    BY <1>1, <1>2
  <2> QED BY <1>1, <2>1 DEF TransmitInv, TypeInv, line
<1>6. TokenInv'
  <2>1. NoNote(inbox) /\ canPut = FALSE
    BY <1>1 DEF TransmitInv, TypeInv, TokenInv
  <2>2. AtMostOneNote(inbox')
    BY <1>1, <1>2, <2>1, NotesAppend
  <2> QED BY <1>1, <2>1, <2>2 DEF TokenInv
<1>7. LineInv'
  BY <1>1 DEF TransmitInv, LineInv, Settled, Room, line
<1>8. BytesInv'
  <2> SUFFICES ASSUME failed' = "none"
               PROVE  \E from \in Nat : \E at : InOrder(from, at)'
    BY DEF BytesInv
  <2>1. PICK from \in Nat : \E at : InOrder(from, at)
    BY <1>1 DEF TransmitInv, BytesInv
  <2>2. PICK at : InOrder(from, at)
    BY <2>1
  <2>3. PICK new : Placed(new, Append(inbox, FromNotifier), from, asked + 0)
    <3>1. Placed(at, inbox, from, asked)
      BY <2>2 DEF InOrder
    <3>2. 0 \in Nat
      OBVIOUS
    <3> QED BY <1>2, <1>3, <2>1, <3>1, <3>2, PlacedAppend, Zenon
  <2>4. InOrder(from, new)'
    BY <1>1, <1>3, <2>2, <2>3 DEF InOrder
  <2> QED BY <2>1, <2>4
<1> QED BY <1>5, <1>6, <1>7, <1>8 DEF TransmitInv

\* A byte goes from the UART down the line.
LEMMA ShiftsOutStep ==
    ASSUME TransmitInv, ShiftsOut
    PROVE  TransmitInv'
<1>1. /\ uart # << >> /\ sent' = Append(sent, Head(uart)) /\ uart' = Tail(uart)
      /\ controller' = IF channel = "train" THEN "got" ELSE controller
      /\ UNCHANGED <<channel, asked, inbox, buf, canPut, failed, notifier, ctsSeen, txfe, modem>>
  BY DEF ShiftsOut, server
<1>2. uart \in Seq(Nat) /\ sent \in Seq(Nat) /\ channel \in Channels
  BY DEF TransmitInv, TypeInv
<1>3. /\ uart' \in Seq(Nat) /\ sent' \in Seq(Nat)
      /\ Len(uart) \in Nat /\ Len(uart) > 0 /\ Len(uart') = Len(uart) - 1
  BY <1>1, <1>2
<1>4. sent' \o uart' = sent \o uart
  BY <1>1, <1>2, RingT!MoveHead, Zenon
<1>5. TypeInv'
  BY <1>1, <1>3 DEF TransmitInv, TypeInv
<1>6. TokenInv'
  BY <1>1 DEF TransmitInv, TokenInv
<1>7. LineInv'
  <2>1. LineInv /\ Room \in Nat \ {0} /\ Room \div 2 \in Nat /\ Room' = Room
    BY <1>1, <1>2, RoomFacts DEF TransmitInv, Room
  <2>2. Len(uart') <= Room' /\ (notifier' # "awaiting" => Len(uart') <= Room' \div 2)
    BY <1>1, <1>3, <2>1 DEF LineInv
  <2>3. CASE channel # "train"
    BY <1>1, <2>1, <2>2, <2>3 DEF LineInv, Settled
  <2>4. CASE channel = "train"
    <3>1. Room = 1 /\ Room \div 2 = 0
      BY <1>2, <2>4, RoomFacts
    <3>2. uart' = << >> /\ notifier = "awaiting" /\ Settled
      BY <1>1, <1>3, <2>1, <2>4, <3>1 DEF LineInv
    <3> QED BY <1>1, <2>2, <2>4, <3>2 DEF LineInv, Settled
  <2> QED BY <2>3, <2>4
<1>8. BytesInv'
  BY <1>1, <1>4 DEF TransmitInv, BytesInv, InOrder
<1> QED BY <1>5, <1>6, <1>7, <1>8 DEF TransmitInv

\* The edges of CTS.
LEMMA CtsStep ==
    ASSUME TransmitInv, CtsFalls \/ CtsRises
    PROVE  TransmitInv'
<1>1. /\ controller' \in {"ready", "busy"} /\ modem' = TRUE
      /\ UNCHANGED <<channel, asked, inbox, buf, canPut, failed, notifier, uart, sent,
                     ctsSeen, txfe>>
  BY DEF CtsFalls, CtsRises, server
<1>2. TypeInv'
  BY <1>1 DEF TransmitInv, TypeInv
<1>3. TokenInv'
  BY <1>1 DEF TransmitInv, TokenInv
<1>4. LineInv'
  BY <1>1 DEF TransmitInv, TypeInv, LineInv, Settled, Room, CtsFalls, CtsRises
<1>5. BytesInv'
  BY <1>1 DEF TransmitInv, BytesInv, InOrder
<1> QED BY <1>2, <1>3, <1>4, <1>5 DEF TransmitInv

\* The interrupts wake the notifier only when the UART has room, and on the train channel
\* only when the controller is ready for it.
LEMMA InterruptStep ==
    ASSUME TransmitInv, TransmitInterrupt \/ ModemInterrupt
    PROVE  TransmitInv'
<1>1. /\ UNCHANGED <<channel, asked, inbox, buf, canPut, failed, uart, sent, controller>>
      /\ notifier = "awaiting" /\ notifier' \in {"awaiting", "woken"}
      /\ txfe' \in BOOLEAN /\ ctsSeen' \in BOOLEAN /\ modem' \in BOOLEAN
  <2>1. CASE TransmitInterrupt
    BY <2>1 DEF TransmitInterrupt, TryClear, server, TransmitInv, TypeInv
  <2>2. CASE ModemInterrupt
    BY <2>2 DEF ModemInterrupt, TryClear, server, TransmitInv, TypeInv, LineInv, Settled
  <2> QED BY <2>1, <2>2
<1>2. TypeInv'
  BY <1>1 DEF TransmitInv, TypeInv
<1>3. TokenInv'
  BY <1>1 DEF TransmitInv, TypeInv, TokenInv
<1>4. LineInv'
  <2>1. LineInv /\ TypeInv
    BY DEF TransmitInv
  <2>2. Room' = Room /\ Room \in Nat \ {0} /\ Room \div 2 \in Nat
    BY <1>1, <2>1, RoomFacts DEF Room, TypeInv
  <2>3. channel = "train" => Room = 1 /\ Room \div 2 = 0
    BY <2>1, RoomFacts DEF TypeInv
  <2>4. Len(uart) \in Nat /\ (uart = << >> <=> Len(uart) = 0)
    BY <2>1 DEF TypeInv
  <2>5. CASE TransmitInterrupt
    <3>1. Len(uart) <= Room \div 2 /\ modem' = modem
      BY <2>5 DEF TransmitInterrupt
    <3>2. CASE channel # "train"
      <4>1. txfe' = txfe /\ ctsSeen' = ctsSeen
        BY <2>5, <3>2 DEF TransmitInterrupt
      <4> QED BY <1>1, <2>1, <2>2, <3>1, <3>2, <4>1 DEF LineInv, Settled
    <3>3. CASE channel = "train"
      <4>1. uart = << >>
        BY <2>3, <2>4, <3>1, <3>3
      <4>2. /\ ~ txfe /\ notifier' = IF ctsSeen THEN "woken" ELSE notifier
            /\ (txfe' <=> ~ ctsSeen) /\ ctsSeen' = FALSE
        BY <2>1, <2>5, <3>3 DEF TransmitInterrupt, TryClear, TypeInv
      <4>3. /\ controller # "ready" => ~ ctsSeen
            /\ controller = "got" => ~ modem
            /\ controller = "ready" => (modem <=> ~ ctsSeen)
        BY <1>1, <2>1, <3>3, <4>1 DEF LineInv
      <4>4. Len(uart') <= Room' /\ Len(uart') <= Room' \div 2
        BY <1>1, <2>2, <2>3, <3>1, <3>3
      <4>5. /\ notifier' # "awaiting" => Settled'
            /\ controller' # "ready" => ~ ctsSeen'
            /\ controller' = "got" => ~ modem'
            /\ controller' = "ready" /\ notifier' = "awaiting" =>
                 (modem' <=> ~ ctsSeen') /\ (ctsSeen' => ~ txfe')
        BY <1>1, <3>1, <4>2, <4>3 DEF Settled
      <4> QED BY <1>1, <3>3, <4>1, <4>4, <4>5 DEF LineInv
    <3> QED BY <3>2, <3>3
  <2>6. CASE ModemInterrupt
    <3>1. channel = "train" /\ uart = << >> /\ modem /\ ~ modem'
      BY <1>1, <2>1, <2>6 DEF ModemInterrupt, LineInv, Settled
    <3>2. controller # "got" /\ ~ ctsSeen
      BY <1>1, <2>1, <3>1 DEF LineInv, TypeInv
    <3>3. /\ notifier' = IF txfe /\ CtsUp THEN "woken" ELSE notifier
          /\ (txfe' <=> txfe /\ ~ CtsUp) /\ (ctsSeen' <=> CtsUp /\ ~ txfe)
      BY <2>1, <2>6, <3>2 DEF ModemInterrupt, TryClear, TypeInv, CtsUp
    <3>4. CtsUp <=> controller = "ready"
      BY <2>1, <3>2 DEF CtsUp, TypeInv
    <3>5. Len(uart') <= Room' /\ Len(uart') <= Room' \div 2
      BY <1>1, <2>2, <2>3, <2>4, <3>1
    <3>6. /\ notifier' # "awaiting" => Settled'
          /\ controller' # "ready" => ~ ctsSeen'
          /\ controller' = "got" => ~ modem'
          /\ controller' = "ready" /\ notifier' = "awaiting" =>
               (modem' <=> ~ ctsSeen') /\ (ctsSeen' => ~ txfe')
      BY <1>1, <3>1, <3>2, <3>3, <3>4 DEF Settled
    <3> QED BY <1>1, <3>1, <3>5, <3>6 DEF LineInv
  <2> QED BY <2>5, <2>6
<1>5. BytesInv'
  BY <1>1 DEF TransmitInv, BytesInv, InOrder
<1> QED BY <1>2, <1>3, <1>4, <1>5 DEF TransmitInv

----------------------------------------------------------------------------
(* The server keeps the invariant. *)

\* Bytes go to a UART that has room for one: the notifier is there to be answered, and
\* what is on the line, in the UART and in the buffer stays in order.
LEMMA TransmitStep ==
    ASSUME TypeInv, NEW b, IsBuffer(b), b.elems > 0, notifier = "sent", Len(uart) < Room,
           Transmit(b)
    PROVE  /\ IsBuffer(buf') /\ uart' \in Seq(Nat) /\ Len(uart') <= Room /\ uart' # << >>
           /\ canPut' = FALSE /\ notifier' = "awaiting" /\ failed' = failed
           /\ (sent \o uart') \o Ring!Contents(buf') = (sent \o uart) \o Ring!Contents(b)
<1>1. PICK c : c = Ring!Contents(b)
  OBVIOUS
<1>2. c \in Seq(Nat) /\ Len(c) = b.elems /\ c # << >> /\ b.elems \in Nat
  BY <1>1, BufferFacts
<1>3. uart \in Seq(Nat) /\ sent \in Seq(Nat) /\ channel \in Channels /\ Len(uart) \in Nat
  BY DEF TypeInv
<1>4. PICK n : n = BurstSize(c)
  OBVIOUS
<1>5. n \in 1 .. b.elems /\ Len(uart) + n <= Room
  BY <1>2, <1>3, <1>4, BurstFacts
<1>6. /\ uart' = uart \o SubSeq(c, 1, n) /\ buf' = Ring!RemoveSome(b, n)
      /\ canPut' = FALSE /\ notifier' = "awaiting" /\ failed' = failed
  BY <1>1, <1>4 DEF Transmit
<1>7. /\ IsBuffer(buf') /\ uart' \in Seq(Nat) /\ Len(uart') = Len(uart) + n
      /\ (sent \o uart') \o Ring!Contents(buf') = (sent \o uart) \o c
  BY <1>1, <1>3, <1>5, <1>6, Moves
<1>8. uart' # << >>
  BY <1>2, <1>3, <1>5, <1>7
<1> QED BY <1>1, <1>5, <1>6, <1>7, <1>8

\* The first message leaves the inbox.
LEMMA ReceivesFacts ==
    ASSUME TransmitInv, NEW type, Receives(type)
    PROVE  /\ failed = "none" /\ inbox # << >> /\ Head(inbox).type = type
           /\ inbox' = Tail(inbox) /\ inbox' \in Seq(Message) /\ Head(inbox) \in Message
           /\ UNCHANGED <<channel, asked, sent, ctsSeen, txfe, modem, controller>>
           /\ AtMostOneNote(inbox')
           /\ NoNote(inbox) => NoNote(inbox')
           /\ type = "MESSAGE_NOTIFIER" =>
                NoNote(inbox') /\ notifier = "sent" /\ ~ canPut
           /\ \E from \in Nat : \E n \in Nat : \E at :
                /\ Head(inbox).bytes = Run(from, n)
                /\ Placed(at, inbox', from + n, asked)
                /\ (sent \o uart) \o Ring!Contents(buf) = Run(0, from)
<1>1. /\ failed = "none" /\ inbox # << >> /\ Head(inbox).type = type /\ inbox' = Tail(inbox)
      /\ UNCHANGED <<channel, asked, sent, ctsSeen, txfe, modem, controller>>
  BY DEF Receives, line
<1>2. inbox \in Seq(Message) /\ AtMostOneNote(inbox) /\ asked \in Nat
  BY DEF TransmitInv, TypeInv, TokenInv
<1>3. Head(inbox) \in Message /\ inbox' \in Seq(Message)
  BY <1>1, <1>2
<1>4. /\ AtMostOneNote(inbox')
      /\ NoNote(inbox) => NoNote(inbox') /\ Head(inbox).type # "MESSAGE_NOTIFIER"
      /\ Head(inbox).type = "MESSAGE_NOTIFIER" => NoNote(inbox')
  BY <1>1, <1>2, NotesTail
<1>5. type = "MESSAGE_NOTIFIER" => notifier = "sent" /\ ~ canPut
  BY <1>1, <1>4 DEF TransmitInv, TokenInv
<1>6. \E from \in Nat : \E n \in Nat : \E at :
         /\ Head(inbox).bytes = Run(from, n)
         /\ Placed(at, inbox', from + n, asked)
         /\ (sent \o uart) \o Ring!Contents(buf) = Run(0, from)
  <2>1. PICK from \in Nat : \E at : InOrder(from, at)
    BY <1>1 DEF TransmitInv, BytesInv
  <2>2. PICK at : InOrder(from, at)
    BY <2>1
  <2>3. /\ Placed(at, inbox, from, asked)
        /\ (sent \o uart) \o Ring!Contents(buf) = Run(0, from)
    BY <2>2 DEF InOrder
  <2>4. PICK n \in Nat : /\ Head(inbox).bytes = Run(from, n)
                         /\ \E new : Placed(new, Tail(inbox), from + n, asked)
    BY <1>1, <1>2, <2>1, <2>3, PlacedTail, Zenon
  <2>5. PICK new : Placed(new, inbox', from + n, asked)
    BY <1>1, <2>4
  <2> QED BY <2>1, <2>3, <2>4, <2>5
<1> QED BY <1>1, <1>3, <1>4, <1>5, <1>6

\* While the notifier waits for the server the UART takes a byte.
LEMMA CanTransmit ==
    ASSUME TransmitInv, notifier = "sent"
    PROVE  /\ Len(uart) < Room /\ RawCanPut /\ Settled
           /\ channel = "train" => uart = << >>
<1>1. LineInv /\ TypeInv
  BY DEF TransmitInv
<1>2. Room \in Nat \ {0} /\ Room \div 2 \in Nat /\ Room \div 2 < Room /\ Len(uart) \in Nat
  BY <1>1, RoomFacts DEF TypeInv
<1>3. Len(uart) < Room
  BY <1>1, <1>2 DEF LineInv
<1>4. Settled
  BY <1>1 DEF LineInv
<1>5. channel = "train" => uart = << >>
  <2> SUFFICES ASSUME channel = "train" PROVE uart = << >>
    OBVIOUS
  <2>1. Room = 1
    BY <1>1, RoomFacts DEF TypeInv
  <2>2. uart \in Seq(Nat) /\ Len(uart) = 0
    BY <1>1, <1>2, <1>3, <2>1 DEF TypeInv
  <2> QED BY <2>2
<1>6. RawCanPut
  BY <1>3, <1>4 DEF RawCanPut, CtsUp, Settled
<1> QED BY <1>3, <1>4, <1>5, <1>6

\* What a turn of the server leaves: the notifier answered and the bytes in the UART, or
\* the notifier as it was; in both cases the line as it was.
LEMMA LineAfterTurn ==
    ASSUME TransmitInv, UNCHANGED <<channel, ctsSeen, txfe, modem, controller>>,
           \/ UNCHANGED <<notifier, uart>>
           \/ notifier = "sent" /\ notifier' = "awaiting" /\ Len(uart') <= Room /\ uart' # << >>
    PROVE  LineInv'
<1>1. Room' = Room
  BY DEF Room
<1>2. CASE UNCHANGED <<notifier, uart>>
  BY <1>1, <1>2 DEF TransmitInv, LineInv, Settled
<1>3. CASE notifier = "sent" /\ notifier' = "awaiting" /\ Len(uart') <= Room /\ uart' # << >>
  <2>1. Settled'
    BY <1>3, CanTransmit DEF Settled
  <2> QED BY <1>1, <1>3, <2>1 DEF LineInv, Settled
<1> QED BY <1>2, <1>3

LEMMA HandleNotifierStep ==
    ASSUME TransmitInv, HandleNotifier
    PROVE  TransmitInv'
<1>1. Receives("MESSAGE_NOTIFIER")
  BY DEF HandleNotifier
<1>2. /\ failed = "none" /\ inbox # << >> /\ Head(inbox).type = "MESSAGE_NOTIFIER"
      /\ inbox' = Tail(inbox) /\ inbox' \in Seq(Message) /\ Head(inbox) \in Message
      /\ UNCHANGED <<channel, asked, sent, ctsSeen, txfe, modem, controller>>
      /\ AtMostOneNote(inbox')
      /\ NoNote(inbox') /\ notifier = "sent" /\ ~ canPut
  BY <1>1, ReceivesFacts
<1>3. PICK from \in Nat, n \in Nat : \E at :
         /\ Head(inbox).bytes = Run(from, n)
         /\ Placed(at, inbox', from + n, asked)
         /\ (sent \o uart) \o Ring!Contents(buf) = Run(0, from)
  BY <1>1, ReceivesFacts
<1>4. PICK at : /\ Head(inbox).bytes = Run(from, n)
                /\ Placed(at, inbox', from + n, asked)
                /\ (sent \o uart) \o Ring!Contents(buf) = Run(0, from)
  BY <1>3
<1>5. n = 0
  <2>1. Head(inbox).bytes = << >>
    BY <1>2, MessageFacts
  <2>2. Len(Run(from, n)) = n
    BY <1>3, RingT!RunFacts DEF Run
  <2> QED BY <1>4, <2>1, <2>2
<1>6. Placed(at, inbox', from, asked)
  BY <1>3, <1>4, <1>5
<1>7. IsBuffer(buf) /\ TypeInv
  BY DEF TransmitInv, TypeInv
<1>8. Len(uart) < Room /\ RawCanPut
  BY <1>2, CanTransmit
<1>9. CASE Ring!IsEmpty(buf)
  <2>1. canPut' = TRUE /\ UNCHANGED <<buf, failed, notifier, uart>>
    BY <1>9 DEF HandleNotifier
  <2>2. TypeInv'
    BY <1>2, <1>7, <2>1 DEF TypeInv
  <2>3. TokenInv'
    BY <1>2, <2>1 DEF TokenInv
  <2>4. LineInv'
    BY <1>2, <2>1, LineAfterTurn
  <2>5. BytesInv'
    BY <1>2, <1>3, <1>4, <1>6, <2>1 DEF BytesInv, InOrder
  <2> QED BY <2>2, <2>3, <2>4, <2>5 DEF TransmitInv
<1>10. CASE ~ Ring!IsEmpty(buf)
  <2>1. Transmit(buf)
    BY <1>8, <1>10 DEF HandleNotifier
  <2>2. buf.elems > 0
    BY <1>7, <1>10, BufferFacts
  <2>3. /\ IsBuffer(buf') /\ uart' \in Seq(Nat) /\ Len(uart') <= Room /\ uart' # << >>
        /\ canPut' = FALSE /\ notifier' = "awaiting" /\ failed' = failed
        /\ (sent \o uart') \o Ring!Contents(buf') = (sent \o uart) \o Ring!Contents(buf)
    BY <1>2, <1>7, <1>8, <2>1, <2>2, TransmitStep
  <2>5. TypeInv'
    BY <1>2, <1>7, <2>3 DEF TypeInv
  <2>6. TokenInv'
    BY <1>2, <2>3 DEF TokenInv
  <2>7. LineInv'
    BY <1>2, <2>3, LineAfterTurn
  <2>8. BytesInv'
    BY <1>2, <1>3, <1>4, <1>6, <2>3 DEF BytesInv, InOrder
  <2> QED BY <2>5, <2>6, <2>7, <2>8 DEF TransmitInv
<1> QED BY <1>9, <1>10

LEMMA HandlePrintStep ==
    ASSUME TransmitInv, NEW type \in {"MESSAGE_PUTC", "MESSAGE_PRINTF"}, HandlePrint(type)
    PROVE  TransmitInv'
<1>1. Receives(type)
  BY DEF HandlePrint
<1>2. /\ failed = "none" /\ inbox # << >> /\ Head(inbox).type = type
      /\ inbox' = Tail(inbox) /\ inbox' \in Seq(Message) /\ Head(inbox) \in Message
      /\ UNCHANGED <<channel, asked, sent, ctsSeen, txfe, modem, controller>>
      /\ AtMostOneNote(inbox')
      /\ NoNote(inbox) => NoNote(inbox')
  BY <1>1, ReceivesFacts
<1>3. PICK from \in Nat, n \in Nat : \E at :
         /\ Head(inbox).bytes = Run(from, n)
         /\ Placed(at, inbox', from + n, asked)
         /\ (sent \o uart) \o Ring!Contents(buf) = Run(0, from)
  BY <1>1, ReceivesFacts
<1>4. PICK at : /\ Head(inbox).bytes = Run(from, n)
                /\ Placed(at, inbox', from + n, asked)
                /\ (sent \o uart) \o Ring!Contents(buf) = Run(0, from)
  BY <1>3
<1>5. PICK bytes : bytes = Head(inbox).bytes
  OBVIOUS
<1>6. PICK b : b = Ring!PutAll(buf, bytes)
  OBVIOUS
<1>7. /\ IsBuffer(buf) /\ TypeInv /\ bytes \in Seq(Nat) /\ Len(bytes) \in Nat
      /\ uart \in Seq(Nat) /\ sent \in Seq(Nat)
  BY <1>2, <1>5, MessageFacts DEF TransmitInv, TypeInv
<1>8. canPut => notifier = "sent" /\ Len(uart) < Room /\ RawCanPut
  BY CanTransmit DEF TransmitInv, TokenInv
<1>9. TokenInv /\ (canPut => NoNote(inbox))
  BY DEF TransmitInv, TokenInv
<1>10. CASE Len(Ring!Contents(buf)) + Len(bytes) > BufSize
  <2>1. failed' = "full" /\ UNCHANGED <<buf, canPut, notifier, uart>>
    BY <1>5, <1>10 DEF HandlePrint, Fail
  <2>2. TypeInv'
    BY <1>2, <1>7, <2>1 DEF TypeInv
  <2>3. TokenInv'
    BY <1>2, <1>9, <2>1 DEF TokenInv
  <2>4. LineInv'
    BY <1>2, <2>1, LineAfterTurn
  <2>5. BytesInv'
    BY <2>1 DEF BytesInv
  <2> QED BY <2>2, <2>3, <2>4, <2>5 DEF TransmitInv
<1>11. CASE ~ (Len(Ring!Contents(buf)) + Len(bytes) > BufSize)
  <2>1. buf.elems + Len(bytes) <= BufSize /\ buf.elems \in Nat
    BY <1>7, <1>11, BufferFacts, TransmitAssumption
  <2>2. /\ IsBuffer(b) /\ b.elems = buf.elems + Len(bytes)
        /\ Ring!Contents(b) = Ring!Contents(buf) \o bytes
    BY <1>6, <1>7, <2>1, BufferPutAll
  <2>3. (sent \o uart) \o Ring!Contents(b) = Run(0, from + n)
    <3>1. PICK s, c : s = sent \o uart /\ c = Ring!Contents(buf)
      OBVIOUS
    <3>2. s \in Seq(Nat)
      BY <1>7, <3>1, ConcatProperties
    <3>3. c \in Seq(Nat)
      BY <1>7, <3>1, BufferFacts
    <3>4. bytes \in Seq(Nat)
      BY <1>7
    <3>5. s \o (c \o bytes) = (s \o c) \o bytes
      BY <3>2, <3>3, <3>4, ConcatAssociative, SMTT(60)
    <3>6. s \o c = Run(0, from) /\ bytes = Run(from, n) /\ from = 0 + from
      BY <1>3, <1>4, <1>5, <3>1
    <3>7. Run(0, from) \o Run(0 + from, n) = Run(0, from + n)
      BY <1>3, RingT!RunConcat DEF Run
    <3> QED BY <2>2, <3>1, <3>5, <3>6, <3>7
  <2>4. CASE bytes = << >> \/ ~ canPut
    <3>1. buf' = b /\ UNCHANGED <<canPut, failed, notifier, uart>>
      BY <1>5, <1>6, <1>11, <2>4 DEF HandlePrint
    <3>2. TypeInv'
      BY <1>2, <1>7, <2>2, <3>1 DEF TypeInv
    <3>3. TokenInv'
      BY <1>2, <1>9, <3>1 DEF TokenInv
    <3>4. LineInv'
      BY <1>2, <3>1, LineAfterTurn
    <3>5. BytesInv'
      <4>1. from + n \in Nat
        BY <1>3
      <4>2. InOrder(from + n, at)'
        BY <1>2, <1>4, <2>3, <3>1 DEF InOrder
      <4> QED BY <4>1, <4>2 DEF BytesInv
    <3> QED BY <3>2, <3>3, <3>4, <3>5 DEF TransmitInv
  <2>5. CASE ~ (bytes = << >> \/ ~ canPut)
    <3>1. Transmit(b)
      BY <1>5, <1>6, <1>8, <1>11, <2>5 DEF HandlePrint
    <3>2. b.elems > 0
      BY <1>7, <2>1, <2>2, <2>5
    <3>3. /\ IsBuffer(buf') /\ uart' \in Seq(Nat) /\ Len(uart') <= Room /\ uart' # << >>
          /\ canPut' = FALSE /\ notifier' = "awaiting" /\ failed' = failed
          /\ (sent \o uart') \o Ring!Contents(buf') = (sent \o uart) \o Ring!Contents(b)
      BY <1>7, <1>8, <2>2, <2>5, <3>1, <3>2, TransmitStep
    <3>5. TypeInv'
      BY <1>2, <1>7, <3>3 DEF TypeInv
    <3>6. TokenInv'
      BY <1>2, <1>9, <2>5, <3>3 DEF TokenInv
    <3>7. LineInv'
      BY <1>2, <1>8, <2>5, <3>3, LineAfterTurn
    <3>8. BytesInv'
      <4>1. from + n \in Nat
        BY <1>3
      <4>2. InOrder(from + n, at)'
        BY <1>2, <1>4, <2>3, <3>3 DEF InOrder
      <4> QED BY <4>1, <4>2 DEF BytesInv
    <3> QED BY <3>5, <3>6, <3>7, <3>8 DEF TransmitInv
  <2> QED BY <2>4, <2>5
<1> QED BY <1>10, <1>11

----------------------------------------------------------------------------
(* The invariant, and what it says of the bytes. *)

LEMMA TransmitInitial == Init => TransmitInv
<1> SUFFICES ASSUME Init PROVE TransmitInv
  OBVIOUS
<1>1. /\ channel \in Channels /\ asked = 0 /\ inbox = << >>
      /\ buf = Ring!NewBuffer /\ canPut = FALSE /\ failed = "none"
      /\ notifier \in {"awaiting", "woken"} /\ (channel # "train" => notifier = "awaiting")
      /\ notifier = (IF channel = "train" THEN "woken" ELSE "awaiting")
      /\ uart = << >> /\ sent = << >>
      /\ txfe = FALSE /\ ctsSeen = FALSE /\ modem = FALSE /\ controller = "ready"
  BY DEF Init
<1>2. IsBuffer(buf) /\ Ring!Contents(buf) = << >>
  <2>1. 0 \in Nat
    OBVIOUS
  <2>2. RingT!IsRing(RingT!NewBuffer, Nat) /\ RingT!Contents(RingT!NewBuffer) = << >>
    BY <2>1, Sizes, RingT!NewBufferFacts
  <2> QED BY <1>1, <2>2, SameOperators DEF IsBuffer
<1>3. inbox \in Seq(Message) /\ uart \in Seq(Nat) /\ sent \in Seq(Nat) /\ Len(uart) = 0
      /\ Len(inbox) = 0
  BY <1>1
<1>4. TypeInv
  BY <1>1, <1>2, <1>3 DEF TypeInv
<1>5. TokenInv
  BY <1>1, <1>3 DEF TokenInv, AtMostOneNote, NoNote
<1>6. LineInv
  <2>1. Len(uart) <= Room /\ Len(uart) <= Room \div 2
    BY <1>1, <1>3, RoomFacts
  <2> QED BY <1>1, <2>1 DEF LineInv, Settled
<1>7. BytesInv
  <2> DEFINE at == [k \in 0 .. 0 |-> 0]
  <2>1. Placed(at, inbox, 0, asked)
    BY <1>1, <1>3 DEF Placed
  <2>2. (sent \o uart) \o Ring!Contents(buf) = Run(0, 0)
    <3>1. (sent \o uart) \o Ring!Contents(buf) = << >>
      BY <1>1, <1>2
    <3>2. Run(0, 0) = << >>
      BY RingT!RunEmpty DEF Run
    <3> QED BY <3>1, <3>2
  <2>3. InOrder(0, at)
    BY <2>1, <2>2 DEF InOrder
  <2> HIDE DEF at
  <2>4. 0 \in Nat
    OBVIOUS
  <2> QED BY <2>3, <2>4 DEF BytesInv
<1> QED BY <1>4, <1>5, <1>6, <1>7 DEF TransmitInv

LEMMA TransmitNext == TransmitInv /\ [Next]_vars => TransmitInv'
<1> SUFFICES ASSUME TransmitInv, [Next]_vars PROVE TransmitInv'
  OBVIOUS
<1>1. CASE Putc \/ Printf
  <2>1. CASE Putc
    <3>1. 1 \in Nat /\ "MESSAGE_PUTC" \in {"MESSAGE_PUTC", "MESSAGE_PRINTF"}
      OBVIOUS
    <3> QED BY <2>1, <3>1, PrintsStep, Zenon DEF Putc
  <2>2. CASE Printf
    <3>1. PICK n \in 0 .. MaxPrint : Prints("MESSAGE_PRINTF", n)
      BY <2>2 DEF Printf
    <3>2. n \in Nat /\ "MESSAGE_PRINTF" \in {"MESSAGE_PUTC", "MESSAGE_PRINTF"}
      BY <3>1, TransmitAssumption
    <3> QED BY <3>1, <3>2, PrintsStep, Zenon
  <2> QED BY <1>1, <2>1, <2>2
<1>2. CASE Hardware
  BY <1>2, ShiftsOutStep, CtsStep, Zenon DEF Hardware
<1>3. CASE Interrupt
  BY <1>3, InterruptStep, Zenon DEF Interrupt
<1>4. CASE NotifierSends
  BY <1>4, NotifierSendsStep, Zenon
<1>5. CASE ServerStep
  <2>1. "MESSAGE_PUTC" \in {"MESSAGE_PUTC", "MESSAGE_PRINTF"}
    OBVIOUS
  <2>2. "MESSAGE_PRINTF" \in {"MESSAGE_PUTC", "MESSAGE_PRINTF"}
    OBVIOUS
  <2>3. HandlePutc => TransmitInv'
    BY <2>1, HandlePrintStep, Zenon DEF HandlePutc
  <2>4. HandlePrintf => TransmitInv'
    BY <2>2, HandlePrintStep, Zenon DEF HandlePrintf
  <2> QED BY <1>5, <2>3, <2>4, HandleNotifierStep, Zenon DEF ServerStep
<1>6. CASE UNCHANGED vars
  BY <1>6 DEF vars, server, line, TransmitInv, TypeInv, TokenInv, LineInv, BytesInv,
              InOrder, Settled, Room
<1> QED BY <1>1, <1>2, <1>3, <1>4, <1>5, <1>6 DEF Next

\* The bytes of the messages in the inbox, one message after the other, are those that
\* their places say.
LEMMA InboxInOrder ==
    ASSUME inbox \in Seq(Message), NEW from \in Nat, NEW to \in Nat,
           NEW at, Placed(at, inbox, from, to)
    PROVE  from <= to /\ InboxBytes = Run(from, to - from)
<1>1. PICK L \in Nat : L = Len(inbox)
  OBVIOUS
<1>2. /\ at \in [0 .. L -> Nat] /\ at[0] = from /\ at[L] = to
      /\ \A k \in 1 .. L : /\ at[k - 1] <= at[k]
                           /\ inbox[k].bytes = Run(at[k - 1], at[k] - at[k - 1])
  BY <1>1 DEF Placed
<1> DEFINE R == {n \in 0 .. L : from <= at[n]}
           f == [n \in 0 .. L |-> Run(from, at[n] - from)]
           h == CHOOSE upTo : upTo = [n \in 0 .. L |-> IF n = 0 THEN << >>
                                                       ELSE upTo[n - 1] \o inbox[n].bytes]
           H == {n \in 0 .. L : h[n] = f[n]}
<1>3. \A n \in 0 .. L : at[n] \in Nat /\ from <= at[n]
  <2>1. 0 \in R
    BY <1>2
  <2>2. ASSUME NEW n \in 0 .. L - 1, n \in R PROVE n + 1 \in R
    <3>1. n + 1 \in 1 .. L /\ n + 1 \in 0 .. L /\ (n + 1) - 1 = n /\ n \in 0 .. L
      BY <1>1
    <3>2. at[n] <= at[n + 1] /\ at[n] \in Nat /\ at[n + 1] \in Nat /\ from <= at[n]
      BY <1>2, <2>2, <3>1
    <3> QED BY <3>1, <3>2
  <2> HIDE DEF R
  <2>3. \A n \in 0 .. L : n \in R
    BY <2>1, <2>2, RingT!UpTo, Zenon
  <2> QED BY <1>2, <2>3 DEF R
<1>4. ASSUME NEW n \in 1 .. L
      PROVE  f[n] = f[n - 1] \o inbox[n].bytes
  <2>1. n \in 0 .. L /\ n - 1 \in 0 .. L
    BY <1>1
  <2>2. /\ at[n] \in Nat /\ at[n - 1] \in Nat /\ from <= at[n - 1] /\ at[n - 1] <= at[n]
        /\ inbox[n].bytes = Run(at[n - 1], at[n] - at[n - 1])
    BY <1>2, <1>3, <2>1
  <2>3. PICK i \in Nat : i = at[n - 1] - from
    BY <2>2
  <2>4. PICK j \in Nat : j = at[n] - at[n - 1]
    BY <2>2
  <2>5. from + i = at[n - 1] /\ i + j = at[n] - from
    BY <2>2, <2>3, <2>4, SMTT(40)
  <2>6. Run(from, i) \o Run(from + i, j) = Run(from, i + j)
    BY <2>3, <2>4, RingT!RunConcat, ZenonT(60) DEF Run
  <2>7. f[n] = Run(from, i + j) /\ f[n - 1] = Run(from, i)
    BY <2>1, <2>3, <2>5
  <2> QED BY <2>2, <2>4, <2>5, <2>6, <2>7
<1>5. f[0] = << >>
  <2>1. Run(from, 0) = << >>
    BY RingT!RunEmpty DEF Run
  <2>2. at[0] - from = 0 /\ 0 \in 0 .. L
    BY <1>2
  <2> QED BY <2>1, <2>2
<1>6. f = [n \in 0 .. L |-> IF n = 0 THEN << >> ELSE f[n - 1] \o inbox[n].bytes]
  <2>1. \A n \in 0 .. L : n # 0 => n \in 1 .. L
    OBVIOUS
  <2>2. \A n \in 0 .. L : f[n] = IF n = 0 THEN << >> ELSE f[n - 1] \o inbox[n].bytes
    <3> HIDE DEF f
    <3> QED BY <1>4, <1>5, <2>1
  <2> QED BY <2>2
<1>7. h = [n \in 0 .. L |-> IF n = 0 THEN << >> ELSE h[n - 1] \o inbox[n].bytes]
  <2> HIDE DEF f
  <2> QED BY <1>6
<1>8. InboxBytes = h[L]
  BY <1>1 DEF InboxBytes
<1> HIDE DEF h
<1>9. 0 \in H
  BY <1>5, <1>7
<1>10. ASSUME NEW n \in 0 .. L - 1, n \in H PROVE n + 1 \in H
  <2>1. n + 1 \in 1 .. L /\ n + 1 \in 0 .. L /\ (n + 1) - 1 = n /\ n + 1 # 0
    BY <1>1
  <2>2. f[n + 1] = f[n] \o inbox[n + 1].bytes
    BY <1>4, <2>1
  <2>3. h[n + 1] = h[n] \o inbox[n + 1].bytes
    BY <1>7, <2>1
  <2> HIDE DEF f
  <2> QED BY <1>10, <2>1, <2>2, <2>3
<1> HIDE DEF H
<1>11. \A n \in 0 .. L : n \in H
  BY <1>9, <1>10, RingT!UpTo, Zenon
<1>12. L \in 0 .. L
  OBVIOUS
<1>13. h[L] = f[L]
  BY <1>11, <1>12 DEF H
<1>14. f[L] = Run(from, to - from) /\ from <= to
  BY <1>2, <1>3, <1>12
<1> QED BY <1>8, <1>13, <1>14

LEMMA TransmitImplies ==
    ASSUME TransmitInv
    PROVE  BytesInOrder /\ ControllerReady /\ Len(uart) <= Room
<1>1. ControllerReady
  BY DEF TransmitInv, LineInv, Settled, ControllerReady
<1>2. Len(uart) <= Room
  BY DEF TransmitInv, LineInv
<1>3. ASSUME failed = "none"
      PROVE  sent \o uart \o Ring!Contents(buf) \o InboxBytes = [i \in 1 .. asked |-> i]
  <2>1. PICK from \in Nat : \E at : InOrder(from, at)
    BY <1>3 DEF TransmitInv, BytesInv
  <2>2. PICK at : /\ Placed(at, inbox, from, asked)
                  /\ (sent \o uart) \o Ring!Contents(buf) = Run(0, from)
    BY <2>1 DEF InOrder
  <2>3. asked \in Nat /\ inbox \in Seq(Message)
    BY DEF TransmitInv, TypeInv
  <2>4. from <= asked /\ InboxBytes = Run(from, asked - from)
    BY <2>1, <2>2, <2>3, InboxInOrder, Zenon
  <2>5. PICK n \in Nat : n = asked - from /\ from + n = asked /\ 0 + from = from
    BY <2>1, <2>3, <2>4
  <2>6. 0 \in Nat
    OBVIOUS
  <2>7. Run(0, from) \o Run(0 + from, n) = Run(0, from + n)
    BY <2>1, <2>5, <2>6, RingT!RunConcat, Zenon DEF Run
  <2>8. Run(0, asked) = [i \in 1 .. asked |-> i]
    BY <2>3 DEF Run, RingT!Run
  <2> QED BY <2>2, <2>4, <2>5, <2>7, <2>8
<1>4. BytesInOrder
  BY <1>3 DEF BytesInOrder, TransmitInv, TypeInv
<1> QED BY <1>1, <1>2, <1>4

LEMMA TransmitInvariant == Spec => []TransmitInv
BY TransmitInitial, TransmitNext, PTL DEF Spec

\* usr/ioserver.c, generic_tx_server and fifo_tx_server: every byte of Putc and Printf
\* is on the line, in the UART, in tx_buf or on its way to the server, once and in the
\* order of the calls, until the server stops; and no Assert stops it but that of a full
\* buffer.  This holds for every size of the buffer and the FIFO, every number of
\* callers and any lengths of the strings they print.
THEOREM BytesInOrderAlways == Spec => []BytesInOrder
<1>1. TransmitInv => BytesInOrder
  BY TransmitImplies
<1> QED BY <1>1, TransmitInvariant, PTL

\* kernel/src/iio.c, try_clear_train_send, and usr/ioserver.c: the train's UART holds a
\* byte only while the controller is ready for it.
THEOREM ControllerReadyAlways == Spec => []ControllerReady
<1>1. TransmitInv => ControllerReady
  BY TransmitImplies
<1> QED BY <1>1, TransmitInvariant, PTL

\* usr/ioserver.c:31-36, 86-99: the servers never give the UART more bytes than it has
\* room for, though fifo_tx_server does not ask rawcanputc before its first byte: the
\* interrupt that it has waited for leaves room for half a FIFO.
THEOREM NeverOverrun == Spec => [](Len(uart) <= Room)
<1>1. TransmitInv => Len(uart) <= Room
  BY TransmitImplies
<1> QED BY <1>1, TransmitInvariant, PTL

==============================================================================
