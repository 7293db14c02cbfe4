---------------------------- MODULE PriorityQueue ----------------------------
(***************************************************************************)
(* The binary heap template lib/priority_queue.h, as pure operators on the *)
(* array of the q->size elements in use.  Positions count from 1 here and  *)
(* from 0 in C.                                                            *)
(***************************************************************************)
EXTENDS Integers, Sequences

CONSTANTS Capacity,  \* QUEUE_SIZE
          Value(_)   \* ELEMENT_VALUE

Left(i) == 2 * i
Right(i) == 2 * i + 1
Parent(i) == i \div 2

Swap(h, i, j) == [h EXCEPT ![i] = h[j], ![j] = h[i]]

\* The levels of a heap of n elements: no element moves further than that.
Levels[n \in Nat] == IF n = 0 THEN 0 ELSE 1 + Levels[n \div 2]

\* j if it is in the heap and its value is below that of i, else i.
Smaller(h, i, j) == IF j <= Len(h) /\ Value(h[j]) < Value(h[i]) THEN j ELSE i

SmallestOfThree(h, i) == Smaller(h, Smaller(h, i, Left(i)), Right(i))

\* One turn of the loop that moves an element down: it changes places with the
\* smaller child, if there is one.
SinkTurn(s) ==
    LET i == SmallestOfThree(s.heap, s.at)
    IN  IF i = s.at THEN s ELSE [heap |-> Swap(s.heap, s.at, i), at |-> i]

Sink(h, i) ==
    LET turn[k \in 0 .. Levels[Len(h)]] ==
            IF k = 0 THEN [heap |-> h, at |-> i] ELSE SinkTurn(turn[k - 1])
    IN  IF SmallestOfThree(h, i) = i THEN h ELSE turn[Levels[Len(h)]].heap

\* One turn of the loop that moves an element up.
RiseTurn(s) ==
    LET p == Parent(s.at)
    IN  IF s.at > 1 /\ Value(s.heap[s.at]) < Value(s.heap[p])
        THEN [heap |-> Swap(s.heap, s.at, p), at |-> p]
        ELSE s

\* The last element moves up while it is smaller than its parent.
Rise(h) ==
    LET turn[k \in 0 .. Levels[Len(h)]] ==
            IF k = 0 THEN [heap |-> h, at |-> Len(h)] ELSE RiseTurn(turn[k - 1])
    IN  turn[Levels[Len(h)]].heap

\* Sink from the last position to the first: where an element is in order it stays.
OutOfOrder(h) == {i \in 1 .. Parent(Len(h)) : SmallestOfThree(h, i) # i}

Heapify(h) ==
    LET order[s \in [DOMAIN h -> {h[i] : i \in DOMAIN h}]] ==
            IF OutOfOrder(s) = {} THEN s
            ELSE order[Sink(s, CHOOSE i \in OutOfOrder(s) : \A j \in OutOfOrder(s) : j <= i)]
    IN  order[h]

IsFull(h) == Len(h) = Capacity

\* The heap after an enqueue that finds room, and after a dequeue that finds an
\* element; Peek is the element dequeued.
Enqueue(h, e) == Rise(Append(h, e))

Dequeue(h) == Sink(SubSeq(Swap(h, 1, Len(h)), 1, Len(h) - 1), 1)

Peek(h) == h[1]

==============================================================================
