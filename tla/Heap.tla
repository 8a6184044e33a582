-------------------------------- MODULE Heap --------------------------------
(***************************************************************************)
(* The heap of src/include/vircon.h: first fit over a list of blocks whose *)
(* headers lie in linear memory, next to the bytes they describe.          *)
(*                                                                         *)
(* Addresses and sizes are in units of VIRCON__HEAP_ALIGNMENT, which is    *)
(* also sizeof(malloc_block): a header is one unit, every size is a number *)
(* of units once vircon__heap_align has rounded it, and required_end and   *)
(* the exclusive end of the heap compare in units as they do in bytes.     *)
(* A unit of memory holds a header or a value of the program's.            *)
(*                                                                         *)
(* The program calls one operation at a time and owns what the operations  *)
(* gave it: it frees and resizes only live allocations and writes only     *)
(* inside them or to its static data, as the C library requires.           *)
(***************************************************************************)
EXTENDS Integers, FiniteSets

CONSTANTS
  PageUnits,     \* units in a page of linear memory
  InitialPages,  \* pages of linear memory at the start
  MaxPages,      \* pages memory.grow allows the module
  RegionPages,   \* VIRCON__WASM_MAX_MEMORY_BYTES, in pages
  Starts, Ends,  \* values the program may give malloc_start_address and
                 \* malloc_end_address + 1; Null leaves the default
  Sizes,         \* sizes the program may ask for
  Data,          \* values the program may write
  Zero,          \* a cleared unit
  Junk           \* what a header that is no longer one reads as

Limit == RegionPages * PageUnits
Unit == 0 .. Limit - 1
Null == 0
Link == Unit \cup {Null}
Value == Data \cup {Zero, Junk}
Header == [previous : Link, next : Link, size : 0 .. Limit, free : BOOLEAN]

\* The program's own data, below the end of memory at the start.
Static == 0 .. InitialPages * PageUnits - 1

ASSUME PagesAssumption ==
  /\ PageUnits \in Nat \ {0} /\ InitialPages \in Nat \ {0}
  /\ MaxPages \in Nat /\ RegionPages \in Nat
  /\ InitialPages <= MaxPages /\ MaxPages <= RegionPages
ASSUME ConfigurationAssumption == Starts \subseteq Nat /\ Ends \subseteq Nat
ASSUME SizesAssumption == Sizes \subseteq Nat \ {0}
ASSUME ValueAssumption == Value \cap Header = {}

VARIABLES
  memory,       \* linear memory
  pages,        \* its size
  start, end,   \* malloc_start_address, malloc_end_address + 1
                \* and, once initialized, vircon__heap_end_address + 1
  initialized,  \* vircon__heap_initialized
  first, last,  \* malloc_first_block, vircon__heap_last_block
  next          \* vircon__heap_next_address

vars == <<memory, pages, start, end, initialized, first, last, next>>
frozen == <<start, end, initialized>>

MemoryEnd == pages * PageUnits

-----------------------------------------------------------------------------
(* Blocks.  The operators below map a heap, its memory and its last block, *)
(* to the heap that a function of the code leaves.                         *)

Heap == [memory |-> memory, last |-> last]

Becomes(h) ==
  /\ memory' = h.memory
  /\ last' = h.last

BlocksOf(m) == {u \in Unit : m[u] \in Header}
Blocks == BlocksOf(memory)
InUse == {b \in Blocks : ~memory[b].free}
Payload(b) == b + 1
Live == {Payload(b) : b \in InUse}

FreeBlock(m, b) == b # Null /\ m[b].free

Block(previous, following, size, free) ==
  [previous |-> previous, next |-> following, size |-> size, free |-> free]

\* Block b, if there is one, gets a new previous block.
LinkBack(m, b, previous) ==
  IF b = Null THEN m
  ELSE [m EXCEPT ![b] = Block(previous, m[b].next, m[b].size, m[b].free)]

\* Fault: the block after the absorbed one keeps its previous link.
AbsorbNextUnlinked(h, b) ==
  LET m == h.memory
      n == m[b].next
      grown == Block(m[b].previous, m[n].next, m[b].size + 1 + m[n].size, m[b].free)
  IN [memory |-> [m EXCEPT ![b] = grown, ![n] = Junk],
      last |-> IF m[n].next = Null THEN b ELSE h.last]

\* Block b swallows the block after it.
AbsorbNext(h, b) ==
  LET m == h.memory
      n == m[b].next
      grown == Block(m[b].previous, m[n].next, m[b].size + 1 + m[n].size, m[b].free)
  IN [memory |-> LinkBack([m EXCEPT ![b] = grown, ![n] = Junk], m[n].next, b),
      last |-> IF m[n].next = Null THEN b ELSE h.last]

\* Fault: a freed block is merged with the block after it only.
MergeNext(h, b) ==
  IF FreeBlock(h.memory, h.memory[b].next) THEN AbsorbNext(h, b) ELSE h

\* vircon__heap_merge
Merge(h, b) ==
  LET merged == IF FreeBlock(h.memory, h.memory[b].next) THEN AbsorbNext(h, b) ELSE h
      previous == merged.memory[b].previous
  IN IF FreeBlock(merged.memory, previous) THEN AbsorbNext(merged, previous) ELSE merged

\* Fault: the room for the header of the free block is not taken from it.
SplitWithoutHeader(h, b, size) ==
  LET m == h.memory
      freed == Payload(b) + size
      kept == Block(m[b].previous, freed, size, m[b].free)
      tail == Block(b, m[b].next, m[b].size - size, TRUE)
  IN [memory |-> LinkBack([m EXCEPT ![b] = kept, ![freed] = tail], m[b].next, freed),
      last |-> IF m[b].next = Null THEN freed ELSE h.last]

\* What block b has after `size' units becomes a free block.
Split(h, b, size) ==
  LET m == h.memory
      freed == Payload(b) + size
      kept == Block(m[b].previous, freed, size, m[b].free)
      tail == Block(b, m[b].next, m[b].size - size - 1, TRUE)
  IN [memory |-> LinkBack([m EXCEPT ![b] = kept, ![freed] = tail], m[b].next, freed),
      last |-> IF m[b].next = Null THEN freed ELSE h.last]

\* vircon__heap_reduce: a tail with room for a header and one unit is split off.
Reduce(h, b, size) ==
  IF h.memory[b].size < size + 2
  THEN h
  ELSE Merge(Split(h, b, size), Payload(b) + size)

SetFree(h, b, free) ==
  LET m == h.memory
  IN [memory |-> [m EXCEPT ![b] = Block(m[b].previous, m[b].next, m[b].size, free)],
      last |-> h.last]

\* Block b can grow to `size' units by absorbing the block after it.
CanExpand(b, size) ==
  LET n == memory[b].next
  IN FreeBlock(memory, n) /\ memory[b].size + 1 + memory[n].size >= size

Expanded(b, size) == Reduce(AbsorbNext(Heap, b), b, size)

-----------------------------------------------------------------------------
(* Allocation.                                                             *)

\* vircon__heap_initialize: the range the heap would have, and whether it may.
StartAddress == IF initialized \/ start # Null THEN start ELSE MemoryEnd
EndAddress == IF initialized \/ end # Null THEN end ELSE Limit
CanInitialize ==
  /\ StartAddress >= MemoryEnd
  /\ StartAddress < EndAddress
  /\ EndAddress <= Limit

Initialized ==
  /\ start' = StartAddress
  /\ end' = EndAddress
  /\ initialized' = TRUE

\* Where the next fresh block goes.
NextAddress == IF initialized THEN next ELSE StartAddress

Fits(size) == {b \in Blocks : memory[b].free /\ memory[b].size >= size}

\* The list is in address order: the first block that fits is the lowest.
FirstFit(size) == {b \in Fits(size) : \A c \in Fits(size) : b <= c}

\* Fault: a page that is needed in part only is not asked for.
PagesForWhole(required) ==
  IF required <= MemoryEnd THEN pages ELSE required \div PageUnits

\* vircon__heap_grow_to: the pages linear memory must have to reach `required'.
PagesFor(required) ==
  IF required <= MemoryEnd THEN pages ELSE (required + PageUnits - 1) \div PageUnits

\* Fault: the room for the header is not counted.
CanAppendPayload(size) ==
  LET required == NextAddress + size
  IN required <= EndAddress /\ PagesFor(required) <= MaxPages

CanAppend(size) ==
  LET required == NextAddress + 1 + size
  IN required <= EndAddress /\ PagesFor(required) <= MaxPages

\* vircon__heap_append
Appended(size) ==
  LET b == NextAddress
      fresh == Block(last, Null, size, FALSE)
      linked == Block(memory[last].previous, b, memory[last].size, memory[last].free)
  IN [memory |-> IF last = Null THEN [memory EXCEPT ![b] = fresh]
                 ELSE [memory EXCEPT ![b] = fresh, ![last] = linked],
      last |-> b]

CanAllocate(size) == Fits(size) # {} \/ CanAppend(size)

\* The block malloc chooses, and the heap it leaves.
Chosen(size) == IF Fits(size) # {} THEN FirstFit(size) ELSE {NextAddress}
Allocated(b, size) ==
  IF Fits(size) # {} THEN Reduce(SetFree(Heap, b, FALSE), b, size) ELSE Appended(size)

\* What an allocation does to the rest of the heap's state.
Reserved(size) ==
  IF Fits(size) # {}
  THEN /\ next' = NextAddress
       /\ UNCHANGED <<pages, first>>
  ELSE /\ next' = NextAddress + 1 + size
       /\ pages' = PagesFor(NextAddress + 1 + size)
       /\ first' = IF last = Null THEN NextAddress ELSE first

Clear(h, p, size) ==
  [memory |-> [u \in Unit |-> IF u \in p .. p + size - 1 THEN Zero ELSE h.memory[u]],
   last |-> h.last]

\* Fault: the copy starts at the header of the old block.
CopyHeader(h, to, from, size) ==
  [memory |-> [u \in Unit |-> IF u \in to .. to + size - 1
                              THEN h.memory[from - 1 + (u - to)] ELSE h.memory[u]],
   last |-> h.last]

Copy(h, to, from, size) ==
  [memory |-> [u \in Unit |-> IF u \in to .. to + size - 1
                              THEN h.memory[from + (u - to)] ELSE h.memory[u]],
   last |-> h.last]

Freed(h, b) == Merge(SetFree(h, b, TRUE), b)

-----------------------------------------------------------------------------
(* The operations.                                                         *)

Malloc(size) ==
  /\ initialized \/ CanInitialize
  /\ CanAllocate(size)
  /\ \E b \in Chosen(size) : Becomes(Allocated(b, size))
  /\ Reserved(size)
  /\ Initialized

\* malloc returns null; the first call may still fix the heap's range.
MallocFails(size) ==
  /\ initialized \/ CanInitialize
  /\ ~CanAllocate(size)
  /\ next' = NextAddress
  /\ Initialized
  /\ UNCHANGED <<memory, pages, first, last>>

\* malloc and calloc return null because the configured range cannot be a heap.
CannotInitialize ==
  /\ ~initialized /\ ~CanInitialize
  /\ UNCHANGED vars

Calloc(size) ==
  /\ initialized \/ CanInitialize
  /\ CanAllocate(size)
  /\ \E b \in Chosen(size) : Becomes(Clear(Allocated(b, size), Payload(b), size))
  /\ Reserved(size)
  /\ Initialized

Free(p) ==
  /\ Becomes(Freed(Heap, p - 1))
  /\ UNCHANGED <<pages, first, next, frozen>>

\* realloc in place.
Resize(p, size) ==
  LET b == p - 1
  IN /\ size <= memory[b].size \/ CanExpand(b, size)
     /\ Becomes(IF size <= memory[b].size THEN Reduce(Heap, b, size) ELSE Expanded(b, size))
     /\ UNCHANGED <<pages, first, next, frozen>>

\* realloc by moving the allocation.
Move(p, size) ==
  LET old == p - 1
  IN /\ size > memory[old].size /\ ~CanExpand(old, size)
     /\ CanAllocate(size)
     /\ \E b \in Chosen(size) :
          Becomes(Freed(Copy(Allocated(b, size), Payload(b), p, memory[old].size), old))
     /\ Reserved(size)
     /\ UNCHANGED frozen

ReallocFails(p, size) ==
  /\ size > memory[p - 1].size /\ ~CanExpand(p - 1, size)
  /\ ~CanAllocate(size)
  /\ UNCHANGED vars

\* expand_malloc_block
ExpandBlock(b, size) ==
  /\ size > memory[b].size /\ CanExpand(b, size)
  /\ Becomes(Expanded(b, size))
  /\ UNCHANGED <<pages, first, next, frozen>>

\* reduce_malloc_block; the new size may be zero.
ReduceBlock(b, size) ==
  /\ size <= memory[b].size
  /\ Becomes(Reduce(Heap, b, size))
  /\ UNCHANGED <<pages, first, next, frozen>>

\* merge_free_malloc_blocks, on a block that is free or that the program has
\* just marked free itself.
MergeFreeBlocks(b) ==
  /\ Becomes(Freed(Heap, b))
  /\ UNCHANGED <<pages, first, next, frozen>>

\* The program grows memory by a page itself (vircon_memory_grow_pages).
GrowMemory ==
  /\ pages < MaxPages
  /\ pages' = pages + 1
  /\ UNCHANGED <<memory, first, last, next, frozen>>

\* The program writes its static data or one of its allocations.
Write(u, value) ==
  /\ memory' = [memory EXCEPT ![u] = value]
  /\ UNCHANGED <<pages, first, last, next, frozen>>

Owned == Static \cup UNION {Payload(b) .. b + memory[b].size : b \in InUse}

Init ==
  /\ memory = [u \in Unit |-> Zero]
  /\ pages = InitialPages
  /\ start \in Starts
  /\ end \in Ends
  /\ initialized = FALSE
  /\ first = Null /\ last = Null /\ next = Null

Next ==
  \/ CannotInitialize
  \/ \E size \in Sizes :
       \/ Malloc(size) \/ Calloc(size) \/ MallocFails(size)
       \/ \E p \in Live : Resize(p, size) \/ Move(p, size) \/ ReallocFails(p, size)
       \/ \E b \in Blocks : ExpandBlock(b, size)
  \/ \E p \in Live : Free(p)
  \/ \E b \in Blocks, size \in Sizes \cup {0} : ReduceBlock(b, size)
  \/ \E b \in Blocks : MergeFreeBlocks(b)
  \/ GrowMemory
  \/ \E u \in Owned, value \in Data : Write(u, value)

Spec == Init /\ [][Next]_vars

-----------------------------------------------------------------------------
(* Properties.                                                             *)

TypeOK ==
  /\ memory \in [Unit -> Value \cup Header]
  /\ pages \in InitialPages .. MaxPages
  /\ start \in Starts \cup 0 .. Limit /\ end \in Ends \cup 0 .. Limit
  /\ initialized \in BOOLEAN
  /\ {first, last} \subseteq Link
  /\ next \in 0 .. Limit

\* The blocks tile the heap from its start to the next fresh address.  A
\* header that overlaps another block, or units that no block accounts for,
\* would break it.
Tiled ==
  /\ Blocks \subseteq start .. next - 1
  /\ \A b, c \in Blocks : b < c => b + memory[b].size < c
  /\ initialized =>
       \A u \in start .. next - 1 : \E b \in Blocks : b <= u /\ u <= b + memory[b].size

\* The list runs through the blocks in address order and every link has its
\* inverse: what merge, split, realloc and append assume of the neighbours they
\* reach through `next', `previous' and the two ends of the list.
Linked ==
  /\ \A b \in Blocks :
       /\ IF memory[b].next = Null
          THEN b = last /\ Payload(b) + memory[b].size = next
          ELSE /\ memory[b].next = Payload(b) + memory[b].size
               /\ memory[b].next \in Blocks
               /\ memory[memory[b].next].previous = b
       /\ IF memory[b].previous = Null
          THEN b = start
          ELSE /\ memory[b].previous \in Blocks
               /\ memory[memory[b].previous].next = b
  /\ IF Blocks = {}
     THEN first = Null /\ last = Null
     ELSE first = start /\ last \in Blocks /\ memory[last].next = Null

\* What the heap handed out exists: it lies in linear memory, inside the
\* configured range, and above the program's own data.
InRange ==
  Blocks # {} => /\ next <= MemoryEnd /\ next <= end
                 /\ \A s \in Static : s < start

\* Freed space comes back whole: a run of units that no block in use covers is
\* enough for malloc to serve a request of that size without fresh memory.
FreeRunsServe ==
  \A u, v \in start .. next - 1 :
    /\ u < v
    /\ \A b \in InUse : v < b \/ b + memory[b].size < u
    => Fits(v - u) # {}

\* The heap keeps its promise to the program: see Allocations.
Promise == INSTANCE Allocations WITH
  contents <- memory,
  live <- [p \in Live |-> memory[p - 1].size]
KeepsPromise == Promise!Spec
=============================================================================
