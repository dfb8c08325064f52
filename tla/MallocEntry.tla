----------------------------- MODULE MallocEntry -----------------------------
(***************************************************************************)
(* The entry points of src/mm/malloc/lf_malloc.c as a caller sees them:   *)
(* malloc_lf and free_lf with their choice between a procheap block and a *)
(* whole slice, and the libc wrappers malloc, free, calloc and realloc.    *)
(* The build is ia32, the repository's only architecture: CACHE_LINE_SIZE *)
(* is 32, so the 32-entry size-class table and the malloc_size_class of    *)
(* lines 191-244 apply.                                                   *)
(*                                                                         *)
(* A block is the record of what its caller asked for and what it got:    *)
(* the procheap index (malloc_procheaps is one flat array of execs *       *)
(* NUM_SIZE_CLASSES) or the slice, and the word in its header line.  How   *)
(* try_alloc and try_free work inside a procheap is LfMalloc's; slice_alloc *)
(* is used through its contract (a free table entry, or NULL).  The bit    *)
(* shifts are divisions by powers of two.                                  *)
(***************************************************************************)
EXTENDS Integers, FiniteSets

CONSTANTS
  NExec,        \* executors: procheaps 0 .. NExec * 32 - 1
  Requests,     \* the sizes given to malloc and realloc
  CallocArgs,   \* the element sizes and counts given to calloc
  Slices,       \* slice table entries the large-block path may get
  MaxHeld,      \* bound on the blocks callers hold at once
  Null

CACHE_LINE_SIZE == 32
PAGE_SIZE == 4096
NUM_SIZE_CLASSES == 32

\* TLC's integers stop at 2^31 - 1, so the sizes are kept below 2^30, far
\* from where req_size + CACHE_LINE_SIZE or calloc's size * num would wrap
\* in 32 bits.
ASSUME \A r \in Requests : r + CACHE_LINE_SIZE < 2^30
ASSUME \A n, m \in CallocArgs : n * m + CACHE_LINE_SIZE < 2^30

\* malloc_sizeclasses[c].sc_size (lines 194-227), for class c at c + 1.
ScSize ==
  <<\h20, \h40, \h60, \h80, \ha0, \hc0, \he0, \h100,
   \h140, \h180, \h1c0, \h200, \h280, \h300, \h380, \h400,
   \h500, \h600, \h700, \h800, \ha00, \hc00, \he00, \h1000,
   \h1400, \h1800, \h1c00, \h2000, \h2800, \h3000, \h3800, \h4000>>

(***************************************************************************)
(* malloc_big_size_class (lines 54-115): five bands of four classes, each  *)
(* band's step twice the last's, starting at size >> 6; the sixth band     *)
(* takes whatever is left.  Band(d, k) is the class offset for d in band k.*)
(***************************************************************************)
RECURSIVE Band(_, _)
Band(d, k) == IF d < 4 \/ k = 5 THEN 4 * k + d ELSE Band((d - 4) \div 2, k + 1)

malloc_big_size_class(size, base) == base + Band(size \div 64, 0)

\* malloc_size_class (lines 229-244): eight classes 32 bytes apart, then
\* the big classes from class 8.
malloc_size_class(size) ==
  IF size \div 32 < 8 THEN size \div 32 ELSE malloc_big_size_class(size, 8)

\* malloc_size_class's INVARIANT(size <= 0x4000).
SizeClassInvariant(size) == size <= \h4000

\* find_heap (lines 504-526): the procheap index for a grown size, or NULL
\* above 0x40000.
find_heap(size, exec) ==
  IF size <= \h40000 THEN exec * NUM_SIZE_CLASSES + malloc_size_class(size)
  ELSE Null

\* The bytes after the header line of a block of procheap h, whichever
\* row h falls in; an index past the array has no blocks.
HeapBytes(h) ==
  IF h < NExec * NUM_SIZE_CLASSES
    THEN ScSize[(h % NUM_SIZE_CLASSES) + 1] - CACHE_LINE_SIZE ELSE 0

\* The slice malloc_lf maps for a size find_heap refuses (line 1106).
LargeSliceSize(size) == ((size - 1) % PAGE_SIZE) + PAGE_SIZE

\* The header word: try_alloc stores the descriptor, whose low bit is 0;
\* the large path stores slice->s_ptr | 0x1, the slice's memory.
DescTag(h) == [ptr |-> <<"desc", h>>, large |-> FALSE]
MemTag(s)  == [ptr |-> <<"mem", s>>, large |-> TRUE]

VARIABLES
  held,         \* blocks malloc has returned and free has not been given
  freeSlices,   \* slice table entries slice_alloc may still hand out
  unmapped,     \* the pointers slice_free has been given
  copy,         \* realloc's last memcpy: bytes copied, bytes of the source
  fault         \* an INVARIANT the calls hit

vars == <<held, freeSlices, unmapped, copy, fault>>

NoCopy == [n |-> 0, from |-> 0]

Init ==
  /\ held = {} /\ freeSlices = Slices /\ unmapped = {}
  /\ copy = NoCopy /\ fault = FALSE

\* The block a procheap serves for grown size size, and a large block in
\* slice s.
SmallBlock(exec, req, size, h) ==
  [want |-> req, size |-> size, exec |-> exec, heap |-> h,
   bytes |-> HeapBytes(h), tag |-> DescTag(h)]
LargeBlock(exec, req, size, s) ==
  [want |-> req, size |-> size, exec |-> exec, heap |-> Null,
   bytes |-> LargeSliceSize(size) - CACHE_LINE_SIZE, tag |-> MemTag(s)]

\* What a malloc_lf of req bytes may return.
Results(exec, req) ==
  LET size == req + CACHE_LINE_SIZE
      h    == find_heap(size, exec)
  IN IF req = 0 THEN {Null}
     ELSE IF h # Null THEN {SmallBlock(exec, req, size, h)}
     ELSE {Null} \cup {LargeBlock(exec, req, size, s) : s \in freeSlices}

(***************************************************************************)
(* malloc_lf (lines 1085-1138) of req bytes, returning nb: a zero request  *)
(* returns NULL; otherwise size = req_size + CACHE_LINE_SIZE goes to       *)
(* find_heap.  A procheap serves the block (try_alloc retries until it     *)
(* does); without one, a slice of LargeSliceSize(size) is taken, or NULL   *)
(* when slice_alloc has none.                                              *)
(***************************************************************************)
MallocLf(exec, req, nb) ==
  LET size == req + CACHE_LINE_SIZE IN
  /\ Cardinality(held) < MaxHeld
  /\ nb \in Results(exec, req)
  /\ fault' = (fault \/ (nb # Null /\ nb.heap # Null
                        /\ ~SizeClassInvariant(size)))
  /\ freeSlices' = IF nb # Null /\ nb.heap = Null
                     THEN freeSlices \ {nb.tag.ptr[2]} ELSE freeSlices

\* The caller keeps the block it got.
Keep(b) == held' = IF b = Null THEN held ELSE held \cup {b}

\* free_lf (lines 1143-1167): the header word tells a procheap block, given
\* back by try_free's retried CAS (LfMalloc), from a large one, whose tag
\* pointer goes to slice_free.  free_lf(NULL) does nothing.
FreeLf(b) ==
  /\ held' = held \ {b}
  /\ unmapped' = IF b.tag.large THEN unmapped \cup {b.tag.ptr} ELSE unmapped

\* malloc and free (lines 1170-1189): the executor's id, then the call.
Malloc(exec, size) ==
  /\ \E nb \in Results(exec, size) : MallocLf(exec, size, nb) /\ Keep(nb)
  /\ UNCHANGED <<unmapped, copy>>

Free(b) ==
  /\ b \in held /\ FreeLf(b)
  /\ UNCHANGED <<freeSlices, copy, fault>>

\* calloc (lines 1192-1201): malloc(size * num), then memset of as many
\* bytes.
Calloc(exec, size, num) ==
  /\ \E nb \in Results(exec, size * num) :
       MallocLf(exec, size * num, nb) /\ Keep(nb)
  /\ UNCHANGED <<unmapped, copy>>

(***************************************************************************)
(* realloc (lines 1204-1217) of block b, or of NULL when b is Null:       *)
(* malloc(size); if that gives a block, memcpy(out, ptr, size) and        *)
(* free(ptr).                                                              *)
(***************************************************************************)
Moved(b, size, nb) ==
  IF nb = Null THEN UNCHANGED <<held, unmapped, copy>>
  ELSE /\ copy' = [n |-> size, from |-> IF b = Null THEN 0 ELSE b.bytes]
       /\ IF b = Null THEN held' = held \cup {nb} /\ UNCHANGED unmapped
          ELSE /\ held' = (held \ {b}) \cup {nb}
               /\ unmapped' = IF b.tag.large THEN unmapped \cup {b.tag.ptr}
                              ELSE unmapped

Realloc(exec, b, size) ==
  /\ b \in held \cup {Null}
  /\ \E nb \in Results(exec, size) :
       MallocLf(exec, size, nb) /\ Moved(b, size, nb)

Next ==
  \/ \E e \in 0 .. NExec - 1, r \in Requests : Malloc(e, r)
  \/ \E b \in held : Free(b)
  \/ \E e \in 0 .. NExec - 1, n, m \in CallocArgs : Calloc(e, n, m)
  \/ \E e \in 0 .. NExec - 1, b \in held \cup {Null}, r \in Requests :
       Realloc(e, b, r)

Spec == Init /\ [][Next]_vars

(***************************************************************************)
(* Every block malloc_lf hands out holds what its caller asked for, behind *)
(* its header line, and comes from the caller's own row of procheaps;      *)
(* malloc_size_class's INVARIANT holds on the way.  find_heap's bound, the *)
(* size-class bands and the large path's slice size must agree for it.     *)
(***************************************************************************)
BlockHoldsRequest ==
  /\ ~fault
  /\ \A b \in held :
       /\ b.bytes >= b.want
       /\ b.heap # Null => b.heap \div NUM_SIZE_CLASSES = b.exec

(***************************************************************************)
(* free_lf of a large block gives slice_free the slice descriptor          *)
(* slice_alloc returned for it, which slice_free unmaps and puts back on  *)
(* the descriptor list.                                                    *)
(***************************************************************************)
FreeUnmapsSlice == \A p \in unmapped : p[1] = "slice"

(***************************************************************************)
(* realloc's memcpy reads only bytes of the block it is given (none of     *)
(* NULL).                                                                  *)
(***************************************************************************)
ReallocCopiesWithin == copy.n <= copy.from
=====================================================================================
