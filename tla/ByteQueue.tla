----------------------------- MODULE ByteQueue ------------------------------
(***************************************************************************)
(* What a MemBuffer promises to the code that serialises into it and reads *)
(* from it: a queue of bytes.  What is written goes to its end, a read     *)
(* takes as much as was asked for and is there, and a queue that is moved  *)
(* leaves an empty one behind.  Offsets, capacities and allocations are    *)
(* the implementation's business (MemBuffer.tla).                          *)
(***************************************************************************)
EXTENDS Naturals, Sequences

CONSTANTS
    Buffers,  \* the buffers of the program
    Sources,  \* the sequences of bytes that are written at once
    MaxLen,   \* the longest of them
    NoQueue   \* a buffer that is not constructed

VARIABLES
    queue,    \* queue[x]: what x holds, or NoQueue
    out       \* what the last read returned

Lesser(m, n) == IF m <= n THEN m ELSE n

Constructed(x) == queue[x] # NoQueue

Init ==
    /\ queue = [x \in Buffers |-> NoQueue]
    /\ out = <<>>

Construct(x) ==
    /\ ~Constructed(x)
    /\ queue' = [queue EXCEPT ![x] = <<>>]
    /\ UNCHANGED out

Destroy(x) ==
    /\ Constructed(x)
    /\ queue' = [queue EXCEPT ![x] = NoQueue]
    /\ UNCHANGED out

Move(x, y) ==
    /\ x # y /\ Constructed(y)
    /\ queue' = [queue EXCEPT ![x] = queue[y], ![y] = <<>>]
    /\ UNCHANGED out

Write(x, src) ==
    /\ Constructed(x)
    /\ queue' = [queue EXCEPT ![x] = @ \o src]
    /\ UNCHANGED out

Read(x, len) ==
    /\ Constructed(x)
    /\ LET n == Lesser(len, Len(queue[x]))
       IN  /\ out' = SubSeq(queue[x], 1, n)
           /\ queue' = [queue EXCEPT ![x] = SubSeq(@, n + 1, Len(@))]

Next ==
    \E x \in Buffers :
        \/ Construct(x)
        \/ Destroy(x)
        \/ \E y \in Buffers : Move(x, y)
        \/ \E src \in Sources : Write(x, src)
        \/ \E len \in 0 .. MaxLen : Read(x, len)

Spec == Init /\ [][Next]_<<queue, out>>
=============================================================================
