------------------------------ MODULE BumpAlloc ------------------------------
(***************************************************************************)
(* The allocator of a compiled space (emit_alloc, pepl-codegen/src/        *)
(* runtime.rs): a heap pointer that only moves up, over a linear memory    *)
(* that grows by pages.  Addresses are 32-bit (Word).  dealloc is a no-op, *)
(* so a block lives as long as the instance.                               *)
(***************************************************************************)
EXTENDS Integers

CONSTANTS Word,         \* 2^32: addresses wrap here
          Page,         \* 65536 bytes
          InitialPages, MaxPages,
          HeapStart,    \* HEAP_START
          Size          \* the sizes requested

\* The memory, at most 16 MiB, is smaller than the address space.
ASSUME MemoryAssumption ==
  /\ Page \in Nat \ {0} /\ Word \in Nat /\ HeapStart \in Nat
  /\ InitialPages \in Nat \ {0} /\ MaxPages \in Nat
  /\ InitialPages <= MaxPages
  /\ HeapStart <= InitialPages * Page
  /\ MaxPages * Page < Word

\* Any word can be requested: alloc is exported to the host, and the spread
\* of an untyped value that is no record takes its second payload word for a
\* number of entries.
ASSUME SizeAssumption == Size \subseteq 0..(Word - 1)

VARIABLES heap,    \* global heap_ptr
          pages,   \* memory.size
          blocks   \* history: what alloc has returned

avars == <<heap, pages, blocks>>

Block == [at : Nat, size : Size]

AInit == heap = HeapStart /\ pages = InitialPages /\ blocks = {}

Bytes == (pages * Page) % Word
NewPtr(size) == (heap + size) % Word

\* Seeded defect: the pages are rounded down.
PagesNeeded_Floor(size) == (NewPtr(size) - Bytes) \div Page

PagesNeeded(size) == (NewPtr(size) - Bytes + (Page - 1)) \div Page

\* Seeded defect: heap_ptr advances by one byte less than was asked for.
Return_Short(size) ==
  /\ heap' = IF size > 0 THEN NewPtr(size - 1) ELSE heap
  /\ blocks' = blocks \cup {[at |-> heap, size |-> size]}

\* alloc returns the old pointer.
Return(size) ==
  /\ heap' = NewPtr(size)
  /\ blocks' = blocks \cup {[at |-> heap, size |-> size]}

AllocFits(size) ==
  /\ NewPtr(size) <= Bytes
  /\ Return(size)
  /\ UNCHANGED pages

AllocGrows(size) ==
  /\ NewPtr(size) > Bytes
  /\ pages + PagesNeeded(size) <= MaxPages
  /\ pages' = pages + PagesNeeded(size)
  /\ Return(size)

\* Over the limit, or memory.grow answers -1: the call traps, and the
\* instance stays as it was.
AllocFails(size) ==
  /\ NewPtr(size) > Bytes
  /\ UNCHANGED avars

ANext == \E size \in Size : AllocFits(size) \/ AllocGrows(size) \/ AllocFails(size)

ASpec == AInit /\ [][ANext]_avars

-----------------------------------------------------------------------------
\* Properties

\* The types, and the memory never grows beyond its declared maximum.
ATypeOK ==
  /\ heap \in Nat /\ pages \in InitialPages..MaxPages
  /\ blocks \subseteq Block

End(b) == b.at + b.size

\* The sum of the pointer and the size passed the end of the address space:
\* alloc has no check for it, and the heap pointer falls back.
Wraps(b) == End(b) >= Word
Wrapped == \E b \in blocks : Wraps(b)

\* Every byte of a block is inside linear memory, whichever pages were added
\* in between and whatever was requested before, unless its own request
\* wrapped around, and only one that is larger than all addresses above the
\* largest memory does.  Until the first of those, every block lies above the
\* static data.
BlocksInMemory ==
  /\ \A b \in blocks : ~Wraps(b) => End(b) <= pages * Page
  /\ \A b \in blocks : Wraps(b) => b.size >= Word - MaxPages * Page
  /\ ~Wrapped => \A b \in blocks : HeapStart <= b.at

\* As long as no request has wrapped around, no two blocks share a byte: a
\* record or a snapshot is never overwritten by a later allocation (the
\* immutable-update model of `set` rests on it).
BlocksDisjoint ==
  ~Wrapped => \A b, c \in blocks : b # c =>
    End(b) <= c.at \/ End(c) <= b.at
=============================================================================
