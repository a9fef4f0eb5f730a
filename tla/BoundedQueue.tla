---------------------------- MODULE BoundedQueue ----------------------------
(***************************************************************************)
(* What the frame buffer (sei-receiver-source.h:127-155) promises the      *)
(* threads that share it: a first-in first-out queue of at most Capacity   *)
(* frames, in which every call takes effect at one instant.                *)
(***************************************************************************)
EXTENDS Naturals, Sequences

CONSTANTS Threads, Ids, Capacity, NULL

VARIABLES
    queue,      \* the frames in the buffer, oldest first
    result      \* for each thread, what its last call returned

(* What a call returns: success, the frame popped, the size read. *)
NoResult  == [ok |-> FALSE, id |-> NULL, size |-> 0]
Pushed    == [ok |-> TRUE, id |-> NULL, size |-> 0]
Popped(f) == [ok |-> TRUE, id |-> f, size |-> 0]
Counted(n) == [ok |-> TRUE, id |-> NULL, size |-> n]

Init ==
    /\ queue = <<>>
    /\ result = [t \in Threads |-> NoResult]

Push(t, f) ==
    /\ Len(queue) < Capacity
    /\ queue' = Append(queue, f)
    /\ result' = [result EXCEPT ![t] = Pushed]

PushRefused(t) ==
    /\ Len(queue) = Capacity
    /\ result' = [result EXCEPT ![t] = NoResult]
    /\ UNCHANGED queue

Pop(t) ==
    /\ queue # <<>>
    /\ queue' = Tail(queue)
    /\ result' = [result EXCEPT ![t] = Popped(Head(queue))]

PopRefused(t) ==
    /\ queue = <<>>
    /\ result' = [result EXCEPT ![t] = NoResult]
    /\ UNCHANGED queue

Size(t) ==
    /\ result' = [result EXCEPT ![t] = Counted(Len(queue))]
    /\ UNCHANGED queue

Destroy == queue' = <<>> /\ UNCHANGED result

Next ==
    \/ \E t \in Threads :
          \/ \E f \in Ids : Push(t, f)
          \/ PushRefused(t) \/ Pop(t) \/ PopRefused(t) \/ Size(t)
    \/ Destroy

Spec == Init /\ [][Next]_<<queue, result>>

=============================================================================
