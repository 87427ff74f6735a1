----------------------------- MODULE MemBuffer ------------------------------
(***************************************************************************)
(* The buffer that packets are serialised into and read from (MemBuffer.h, *)
(* MemBuffer.cpp): a block of memory of capacity_ bytes, of which those    *)
(* from begin to end hold what was written and not read.  Writing makes    *)
(* room by shifting the bytes to the start of the block, or by a larger    *)
(* block; moving a buffer hands its block over.                            *)
(***************************************************************************)
EXTENDS Naturals, Sequences

CONSTANTS
    Buffers,     \* the MemBuffer objects
    Blocks,      \* what new char[] may return
    Bytes,
    FirstSizes,  \* what a buffer is constructed with; 0 for MemBuffer()
    MaxLen,      \* how many bytes are written or read at once
    MaxCapacity, \* how large a block gets
    NoBlock,     \* no block
    Unwritten,   \* a byte that nobody wrote
    Gone         \* a buffer that is not constructed

ASSUME MemBufferAssumption ==
    /\ NoBlock \notin Blocks
    /\ MaxLen \in Nat /\ MaxCapacity \in Nat
    /\ FirstSizes \subseteq 0 .. MaxCapacity
    /\ Gone \notin [block : Blocks \cup {NoBlock}, begin : Nat, end : Nat, capacity : Nat]
    /\ Gone \notin Seq(Bytes \cup {Unwritten})

VARIABLES
    buf,   \* buf[x]: the members of x, or Gone
    mem,   \* the blocks that are allocated, and what is in them
    out    \* what the last read copied to its destination

bufferVars == <<buf, mem, out>>

Buffer == [block : Blocks \cup {NoBlock}, begin : Nat, end : Nat, capacity : Nat]

Constructed(x) == buf[x] # Gone

BufferInit ==
    /\ buf = [x \in Buffers |-> Gone]
    /\ mem = [k \in {} |-> <<>>]
    /\ out = <<>>

-----------------------------------------------------------------------------
(* Sizes.  They are size_t; that no difference is below zero is InBounds.  *)

Size(b) == b.end - b.begin
AvailableSpace(b) == b.capacity - b.end
FreeSpace(b) == b.capacity - Size(b)

(* A block's bytes are numbered from 0.  Unwritten stands for what a write *)
(* has not set.                                                            *)
Fresh(sz) == [i \in 0 .. sz - 1 |-> Unwritten]
Data(b, m) == IF b.block = NoBlock THEN Fresh(0) ELSE m[b.block]
Between(b, d) == [i \in 1 .. Size(b) |-> d[b.begin + i - 1]]
Holds(b, m) == Between(b, Data(b, m))

(* new char[sz] into k, and delete[]; both give all of the memory. *)
Allocated(m, k, d) == [j \in DOMAIN m \cup {k} |-> IF j = k THEN d ELSE m[j]]
Freed(m, k) == [j \in DOMAIN m \ {k} |-> m[j]]

-----------------------------------------------------------------------------
(* Making room: relocate, resize.                                          *)

\* Fault: the bytes move, and end does not.
ShiftedShort(b) == [b EXCEPT !.begin = 0]

ShiftedDown(b) == [b EXCEPT !.begin = 0, !.end = Size(b)]

Relocated(b) == IF b.begin > 0 THEN ShiftedDown(b) ELSE b

RelocatedData(b, d) == [i \in DOMAIN d |-> IF i < Size(b) THEN d[b.begin + i] ELSE d[i]]

Resized(b, k, sz) ==
    [block |-> k, begin |-> 0, end |-> Size(b), capacity |-> sz]

ResizedData(b, d, sz) ==
    [i \in 0 .. sz - 1 |-> IF i < Size(b) THEN d[b.begin + i] ELSE Unwritten]

\* Fault: doubling alone, as if it were always enough.
GrownTwice(b, len) == 2 * b.capacity

Grown(b, len) ==
    IF 2 * b.capacity >= len + b.capacity THEN 2 * b.capacity ELSE len + b.capacity

(* memcpy behind what is there.                                            *)
Put(d, at, src) ==
    [i \in DOMAIN d |-> IF i \in at .. at + Len(src) - 1 THEN src[i - at + 1] ELSE d[i]]

Advanced(b, len) == [b EXCEPT !.end = @ + len]

-----------------------------------------------------------------------------
(* The operations.                                                         *)

Construct(x, sz, k) ==
    /\ ~Constructed(x) /\ k \notin DOMAIN mem
    /\ IF sz = 0
       THEN /\ buf' = [buf EXCEPT ![x] = [block |-> NoBlock, begin |-> 0, end |-> 0,
                                          capacity |-> 0]]
            /\ UNCHANGED mem
       ELSE /\ buf' = [buf EXCEPT ![x] = [block |-> k, begin |-> 0, end |-> 0,
                                          capacity |-> sz]]
            /\ mem' = Allocated(mem, k, Fresh(sz))
    /\ UNCHANGED out

Destroy(x) ==
    /\ Constructed(x)
    /\ buf' = [buf EXCEPT ![x] = Gone]
    /\ mem' = Freed(mem, buf[x].block)
    /\ UNCHANGED out

\* Fault: the block stays with the buffer that was moved from.
EmptiedNot(b) == [b EXCEPT !.begin = 0, !.end = 0]

Emptied(b) == [b EXCEPT !.block = NoBlock, !.begin = 0, !.end = 0, !.capacity = 0]

MoveConstruct(x, y) ==
    /\ ~Constructed(x) /\ Constructed(y)
    /\ buf' = [buf EXCEPT ![x] = buf[y], ![y] = Emptied(buf[y])]
    /\ UNCHANGED <<mem, out>>

MoveAssign(x, y) ==
    /\ x # y /\ Constructed(x) /\ Constructed(y)
    /\ buf' = [buf EXCEPT ![x] = buf[y], ![y] = Emptied(buf[y])]
    /\ mem' = Freed(mem, buf[x].block)
    /\ UNCHANGED out

WriteInPlace(x, src) ==
    /\ AvailableSpace(buf[x]) >= Len(src)
    /\ buf' = [buf EXCEPT ![x] = Advanced(buf[x], Len(src))]
    /\ mem' = [j \in DOMAIN mem |->
                  IF j = buf[x].block THEN Put(mem[j], buf[x].end, src) ELSE mem[j]]

WriteRelocated(x, src) ==
    /\ AvailableSpace(buf[x]) < Len(src) /\ FreeSpace(buf[x]) >= Len(src)
    /\ LET b == Relocated(buf[x])
       IN  /\ buf' = [buf EXCEPT ![x] = Advanced(b, Len(src))]
           /\ mem' = [j \in DOMAIN mem |->
                         IF j = b.block
                         THEN Put(RelocatedData(buf[x], mem[j]), b.end, src)
                         ELSE mem[j]]

(* ensureFreeSpace asks for more than there is, so that resize's own test  *)
(* of the capacity is met.                                                 *)
WriteResized(x, src, k) ==
    /\ AvailableSpace(buf[x]) < Len(src) /\ FreeSpace(buf[x]) < Len(src)
    /\ k \notin DOMAIN mem
    /\ LET sz == Grown(buf[x], Len(src))
           b == Resized(buf[x], k, sz)
       IN  /\ sz <= MaxCapacity
           /\ buf' = [buf EXCEPT ![x] = Advanced(b, Len(src))]
           /\ mem' = Freed(Allocated(mem, k, Put(ResizedData(buf[x], Data(buf[x], mem), sz),
                                                 b.end, src)),
                           buf[x].block)

WriteBytes(x, src) ==
    /\ Constructed(x)
    /\ \/ WriteInPlace(x, src)
       \/ WriteRelocated(x, src)
       \/ \E k \in Blocks : WriteResized(x, src, k)
    /\ UNCHANGED out

\* Fault: an emptied buffer resets begin alone.
ConsumedShort(b, n) ==
    IF b.begin + n = b.end THEN [b EXCEPT !.begin = 0]
    ELSE [b EXCEPT !.begin = @ + n]

(* consume, which an empty buffer starts again from 0.  Its exception is   *)
(* for a length that read never passes.                                    *)
Consumed(b, n) ==
    IF b.begin + n = b.end THEN [b EXCEPT !.begin = 0, !.end = 0]
    ELSE [b EXCEPT !.begin = @ + n]

ReadBytes(x, len) ==
    /\ Constructed(x)
    /\ LET b == buf[x]
           n == IF len <= Size(b) THEN len ELSE Size(b)
       IN  /\ out' = SubSeq(Holds(b, mem), 1, n)
           /\ buf' = [buf EXCEPT ![x] = IF n > 0 THEN Consumed(b, n) ELSE b]
    /\ UNCHANGED mem

Sources == UNION {[1 .. n -> Bytes] : n \in 0 .. MaxLen}

BufferNext ==
    \E x \in Buffers :
        \/ \E sz \in FirstSizes, k \in Blocks : Construct(x, sz, k)
        \/ Destroy(x)
        \/ \E y \in Buffers : MoveConstruct(x, y) \/ MoveAssign(x, y)
        \/ \E src \in Sources : WriteBytes(x, src)
        \/ \E len \in 0 .. MaxLen : ReadBytes(x, len)

BufferSpec == BufferInit /\ [][BufferNext]_bufferVars

-----------------------------------------------------------------------------
(* Properties                                                              *)

TypeOK ==
    /\ buf \in [Buffers -> Buffer \cup {Gone}]
    /\ DOMAIN mem \subseteq Blocks
    /\ \A k \in DOMAIN mem : \E n \in 0 .. MaxCapacity :
          mem[k] \in [0 .. n - 1 -> Bytes \cup {Unwritten}]
    /\ out \in Seq(Bytes \cup {Unwritten})

(* No offset leaves the block, and capacity_ is the size the block was     *)
(* allocated with: no memcpy or memmove of write_bytes, resize, relocate   *)
(* or read touches memory outside it, and no size_t difference wraps       *)
(* around (MemBuffer.cpp:10-45, 78-87).                                    *)
InBounds ==
    \A x \in Buffers : Constructed(x) =>
        /\ buf[x].begin <= buf[x].end /\ buf[x].end <= buf[x].capacity
        /\ IF buf[x].block = NoBlock THEN buf[x].capacity = 0
           ELSE /\ buf[x].block \in DOMAIN mem
                /\ DOMAIN mem[buf[x].block] = 0 .. buf[x].capacity - 1

(* Each block that is allocated belongs to exactly one buffer: nothing is  *)
(* freed twice, used after it was freed, or lost, however buffers are      *)
(* moved, grown and destroyed (MemBuffer.h:44-75).                         *)
OwnedOnce ==
    /\ \A x, y \in Buffers :
          Constructed(x) /\ Constructed(y) /\ buf[x].block = buf[y].block
          /\ buf[x].block # NoBlock => x = y
    /\ \A k \in DOMAIN mem : \E x \in Buffers : Constructed(x) /\ buf[x].block = k

(* What is between begin and end was written: junk is never read.          *)
AllWritten == \A x \in Buffers : Constructed(x) => Holds(buf[x], mem) \in Seq(Bytes)

BufferInductive == TypeOK /\ InBounds /\ OwnedOnce /\ AllWritten

Contents == [x \in Buffers |-> IF Constructed(x) THEN Holds(buf[x], mem) ELSE Gone]

Queue == INSTANCE ByteQueue WITH NoQueue <- Gone, queue <- Contents

(* However it shifts and grows, a MemBuffer is a queue of bytes: reads     *)
(* return what was written, in order, once (MemBuffer.cpp:41-45, 67-87).   *)
ImplementsQueue == Queue!Spec
=============================================================================
