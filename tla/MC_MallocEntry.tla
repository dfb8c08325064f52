---------------------------- MODULE MC_MallocEntry ----------------------------
(* Model-checking instances of MallocEntry.                                *)
EXTENDS MallocEntry

CONSTANTS s1

\* Every malloc size malloc_size_class's INVARIANT admits once the header
\* line is added: 0 .. 0x4000 - CACHE_LINE_SIZE.
ClassRequests == 0 .. \h4000 - CACHE_LINE_SIZE

\* Sizes past find_heap's bound of 0x40000, and calloc arguments whose
\* product is one of them.
LargeRequests == {\h40000, \h50000}
LargeCallocArgs == {\h200, \h280}

FitRequests == ClassRequests \cup LargeRequests

\* Two small sizes, so realloc can grow a block.
SmallRequests == {16, 64}
=============================================================================
