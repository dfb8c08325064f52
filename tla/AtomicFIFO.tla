----------------------------- MODULE AtomicFIFO -----------------------------
(***************************************************************************)
(* What the workshare queue (lf_thread_queue_enqueue / _dequeue) promises *)
(* its callers: every operation takes effect atomically at one instant    *)
(* between its call and its return.  An enqueue appends its thread, or    *)
(* fails without changing the queue; a dequeue removes and returns the    *)
(* head, or returns NULL only if the queue was empty at some instant      *)
(* while it was pending (the flag saw records that).  Scheduler uses the *)
(* queue as exactly this object.                                          *)
(***************************************************************************)
EXTENDS Sequences

CONSTANTS Execs, Data, Empty

VARIABLES q, op

Idle        == [k |-> "idle"]
EnqCall(x)  == [k |-> "enq", v |-> x]
EnqDone     == [k |-> "enqd"]
DeqCall(s)  == [k |-> "deq", saw |-> s]
DeqDone(x)  == [k |-> "deqd", v |-> x]

Ops == {Idle, EnqDone} \cup {EnqCall(x) : x \in Data}
       \cup {DeqCall(s) : s \in BOOLEAN} \cup {DeqDone(x) : x \in Data \cup {Empty}}

\* Pending dequeues other than e learn that the queue has become empty.
SeeEmpty(e, newq) ==
  [x \in Execs |-> IF x # e /\ op[x].k = "deq"
                     THEN DeqCall(op[x].saw \/ newq = <<>>) ELSE op[x]]

Init == q = <<>> /\ op = [e \in Execs |-> Idle]

CallEnq(e, x) == op[e] = Idle /\ op' = [op EXCEPT ![e] = EnqCall(x)] /\ UNCHANGED q
LinEnq(e)  == op[e].k = "enq" /\ q' = Append(q, op[e].v) /\ op' = [op EXCEPT ![e] = EnqDone]
FailEnq(e) == op[e].k = "enq" /\ op' = [op EXCEPT ![e] = Idle] /\ UNCHANGED q

CallDeq(e) == op[e] = Idle /\ op' = [op EXCEPT ![e] = DeqCall(q = <<>>)] /\ UNCHANGED q
LinDeq(e) ==
  /\ op[e].k = "deq" /\ q # <<>>
  /\ q' = Tail(q)
  /\ op' = [SeeEmpty(e, Tail(q)) EXCEPT ![e] = DeqDone(Head(q))]
EmptyDeq(e) == op[e] = DeqCall(TRUE) /\ op' = [op EXCEPT ![e] = Idle] /\ UNCHANGED q

Return(e) == op[e].k \in {"enqd", "deqd"} /\ op' = [op EXCEPT ![e] = Idle] /\ UNCHANGED q

Next == \E e \in Execs :
          \/ \E x \in Data : CallEnq(e, x)
          \/ LinEnq(e) \/ FailEnq(e) \/ CallDeq(e) \/ LinDeq(e) \/ EmptyDeq(e)
          \/ Return(e)

Spec == Init /\ [][Next]_<<q, op>>
=============================================================================
