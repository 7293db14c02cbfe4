--------------------------- MODULE IntrusiveQueue ---------------------------
(***************************************************************************)
(* The queue template kernel/src/queue.h, as pure operators.               *)
(*                                                                         *)
(* A task descriptor carries the links of the queue it is on, so the       *)
(* queues of one kind (the ready queues of all priorities, or the send     *)
(* queues of all receivers) share one pair of link fields.  A "family" of  *)
(* queues is therefore a record                                            *)
(*    head : queue -> task or NULL      the queue's own variable           *)
(*    next, prev : task -> task or NULL the two links inside the tasks     *)
(* Each operator performs the pointer assignments of one C function in     *)
(* the order of the source.  Nothing here checks that a task is on the     *)
(* queue it is removed from, because the code does not.                    *)
(***************************************************************************)
EXTENDS Integers, Sequences

CONSTANT NULL

Families(Queues, Tasks) ==
    [head : [Queues -> Tasks \cup {NULL}],
     next : [Tasks -> Tasks \cup {NULL}],
     prev : [Tasks -> Tasks \cup {NULL}]]

NoQueues(Queues, Tasks) ==
    [head |-> [i \in Queues |-> NULL],
     next |-> [t \in Tasks |-> NULL],
     prev |-> [t \in Tasks |-> NULL]]

----------------------------------------------------------------------------
IsEmpty(q, i) == q.head[i] = NULL

HasOneElement(q, i) == q.next[q.head[i]] = q.head[i]

\* Slips in Enqueue and Remove: the task jumps the queue; only the links forward are
\* mended.
Enqueue_AtHead(q, i, t) ==
    LET head == q.head[i]
        tail == q.prev[head]
    IN  IF IsEmpty(q, i)
        THEN [q EXCEPT !.head[i] = t, !.next[t] = t, !.prev[t] = t]
        ELSE [q EXCEPT !.prev = [@ EXCEPT ![head] = t, ![t] = tail],
                       !.next = [@ EXCEPT ![tail] = t, ![t] = head],
                       !.head[i] = t]

Remove_ForwardOnly(q, i, t) ==
    LET before == q.prev[t]
        after  == q.next[t]
    IN  IF IsEmpty(q, i) THEN q
        ELSE IF HasOneElement(q, i) THEN [q EXCEPT !.head[i] = NULL]
        ELSE [q EXCEPT !.next[before] = after,
                       !.head[i] = IF @ = t THEN after ELSE @]

\* The new task goes behind the tail, which is the head's prev.
Enqueue(q, i, t) ==
    LET head == q.head[i]
        tail == q.prev[head]
    IN  IF IsEmpty(q, i)
        THEN [q EXCEPT !.head[i] = t, !.next[t] = t, !.prev[t] = t]
        ELSE [q EXCEPT !.prev = [@ EXCEPT ![head] = t, ![t] = tail],
                       !.next = [@ EXCEPT ![tail] = t, ![t] = head]]

\* What is left after a dequeue; the task dequeued is q.head[i].  Its own links
\* are not cleared.
Dequeue(q, i) ==
    LET head    == q.head[i]
        newHead == q.next[head]
        tail    == q.prev[head]
    IN  IF IsEmpty(q, i) THEN q
        ELSE IF HasOneElement(q, i) THEN [q EXCEPT !.head[i] = NULL]
        ELSE [q EXCEPT !.prev[newHead] = tail,
                       !.next[tail] = newHead,
                       !.head[i] = newHead]

\* A queue of one element is emptied without a look at t; otherwise t is
\* unlinked by whatever its own links say.
Remove(q, i, t) ==
    LET before == q.prev[t]
        after  == q.next[t]
    IN  IF IsEmpty(q, i) THEN q
        ELSE IF HasOneElement(q, i) THEN [q EXCEPT !.head[i] = NULL]
        ELSE [q EXCEPT !.prev[after] = before,
                       !.next[before] = after,
                       !.head[i] = IF @ = t THEN after ELSE @]

----------------------------------------------------------------------------
(* What the pointers stand for. *)

\* The family q holds, on queue i, exactly the sequence s: the head is its first
\* element, and next and prev run around it in the two directions.
Represents(q, i, s) ==
    IF s = << >> THEN q.head[i] = NULL
    ELSE /\ q.head[i] = s[1]
         /\ \A j, k \in 1 .. Len(s) : s[j] = s[k] => j = k
         /\ \A k \in 1 .. Len(s) - 1 : q.next[s[k]] = s[k + 1]
         /\ \A k \in 2 .. Len(s) : q.prev[s[k]] = s[k - 1]
         /\ q.next[s[Len(s)]] = s[1]
         /\ q.prev[s[1]] = s[Len(s)]

\* The tasks met from the head along next until the walk is back at the head, at
\* most "bound" of them (a damaged queue may never come back).
Contents(q, i, bound) ==
    LET met[k \in 1 .. bound] == IF k = 1 THEN q.head[i] ELSE q.next[met[k - 1]]
        ends(k) == k = bound \/ q.next[met[k]] \in {q.head[i], NULL}
        last    == CHOOSE k \in 1 .. bound :
                      ends(k) /\ \A j \in 1 .. k - 1 : ~ ends(j)
    IN  IF IsEmpty(q, i) THEN << >> ELSE [k \in 1 .. last |-> met[k]]

============================================================================
