------------------------------ MODULE FifoQueue ------------------------------
(***************************************************************************)
(* What the users of MPMCBoundedQueue expect of it: a bounded queue whose  *)
(* successful operations take effect one after the other, first in first   *)
(* out.  An operation that returns false changes nothing.                  *)
(***************************************************************************)
EXTENDS Integers, Sequences

CONSTANTS
    Consumers,        \* threads that call pop
    Values,           \* what is pushed
    NoValue,          \* what a consumer has before its first pop
    Size              \* capacity

VARIABLES
    queue,            \* the values pushed and not popped
    got               \* what each consumer popped last

Init ==
    /\ queue = <<>>
    /\ got = [c \in Consumers |-> NoValue]

Push(v) ==
    /\ Len(queue) < Size
    /\ queue' = Append(queue, v)
    /\ UNCHANGED got

Pop(c) ==
    /\ queue # <<>>
    /\ got' = [got EXCEPT ![c] = Head(queue)]
    /\ queue' = Tail(queue)

Next == (\E v \in Values : Push(v)) \/ (\E c \in Consumers : Pop(c))

Spec == Init /\ [][Next]_<<queue, got>>
=============================================================================
