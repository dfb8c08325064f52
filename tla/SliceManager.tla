---------------------------- MODULE SliceManager ----------------------------
(***************************************************************************)
(* The slice manager of src/mm/slice.c: the quota counters total_size,    *)
(* gc_size and malloc_size, and the static table of slice descriptors     *)
(* whose free entries form a CAS stack (slice_free_list) linked through    *)
(* s_next.  Callers (executors) allocate slices with slice_alloc and      *)
(* return them with slice_free.  Sizes and limits are in units of         *)
(* SLICE_MIN_SIZE (4 KiB), so the 32-bit byte counters are 20 bits wide.  *)
(***************************************************************************)
EXTENDS Integers, FiniteSets, Sequences

CONSTANTS
  Procs,        \* the executors calling slice_alloc / slice_free
  TabSize,      \* the free entries of slice_tab
  Sizes,        \* slice sizes the callers request
  Kinds,        \* slice types the callers request
  TotalLimit, MallocLimit, GcLimit,   \* total_limit, malloc_limit, gc_limit
  MaxCalls,     \* bound on the calls made
  Null

Entries == 0 .. TabSize - 1
UInt    == 2 ^ 20                        \* unsigned int, in 4 KiB units
Limit   == [gc |-> GcLimit, malloc |-> MallocLimit]

ASSUME Kinds \subseteq {"gc", "malloc", "static"} /\ Sizes \subseteq 1 .. 64

VARIABLES
  total, kindSize,    \* total_size; gc_size and malloc_size
  freeList, sNext,    \* slice_free_list; s_next of every entry
  sType, sSize,       \* s_type, s_size of every entry
  pc, kind, size,     \* per caller: position, and the arguments of slice_alloc
  tries,              \* attempts slice_reserve_total_space has left
  out,                \* slice_alloc's local out, a stack slot never cleared
  lnext,              \* s_next of the entry slice_entry_try_alloc read
  own,                \* the slices each caller holds
  ncalls

vars == <<total, kindSize, freeList, sNext, sType, sSize, pc, kind, size, tries,
          out, lnext, own, ncalls>>

\* slice_init (lines 25-48): every entry on the free list, in table order;
\* the other fields of the static table are zero (SLICE_TYPE_GC, size 0).
Init ==
  /\ total = 0 /\ kindSize = [k \in {"gc", "malloc"} |-> 0]
  /\ freeList = 0
  /\ sNext = [e \in Entries |-> IF e = TabSize - 1 THEN Null ELSE e + 1]
  /\ sType = [e \in Entries |-> "gc"] /\ sSize = [e \in Entries |-> 0]
  /\ pc = [p \in Procs |-> "idle"] /\ kind = [p \in Procs |-> "static"]
  /\ size = [p \in Procs |-> 1] /\ tries = [p \in Procs |-> 1]
  /\ out = [p \in Procs |-> Null] /\ lnext = [p \in Procs |-> Null]
  /\ own = [p \in Procs |-> {}] /\ ncalls = 0

Goto(p, l) == pc' = [pc EXCEPT ![p] = l]

\* slice_alloc returns: its arguments and the locals of its callees are dead.
Return(p) ==
  /\ Goto(p, "idle")
  /\ kind' = [kind EXCEPT ![p] = "static"] /\ size' = [size EXCEPT ![p] = 1]

\* slice_alloc (lines 341-379) is called.  slice_reserve_total_space's
\* failures counter (line 104) is never initialised: the loop gives up
\* after one to three failed tests, or four if it held UINT_MAX.
SliceAlloc(p, k, s) ==
  /\ pc[p] = "idle" /\ ncalls < MaxCalls
  /\ kind' = [kind EXCEPT ![p] = k] /\ size' = [size EXCEPT ![p] = s]
  /\ \E n \in 1 .. 4 : tries' = [tries EXCEPT ![p] = n]
  /\ Goto(p, "r_total") /\ ncalls' = ncalls + 1
  /\ UNCHANGED <<total, kindSize, freeList, sNext, sType, sSize, out, lnext, own>>

(***************************************************************************)
(* slice_reserve_total_space (lines 102-139): read total_size, test it     *)
(* against the limit and CAS it up.  A failed CAS retries from a new read, *)
(* so a successful reservation is one atomic step.  The test is            *)
(* oldspace + size >= total_limit, as written.                              *)
(***************************************************************************)
\* Mutant: the give-up test is off by one, so the loop runs once more than
\* its count allows.
ReserveTotalOffByOne(p) ==
  LET new == (total + size[p]) % UInt IN
  /\ pc[p] = "r_total"
  /\ IF new >= TotalLimit
       THEN /\ total' = new
            /\ Goto(p, IF kind[p] = "static" THEN "e_read" ELSE "r_kind")
            /\ tries' = [tries EXCEPT ![p] = 1]
       ELSE /\ tries' = [tries EXCEPT ![p] = @ - 1]
            /\ Goto(p, IF tries[p] > 0 THEN "r_total" ELSE "a_fail")
            /\ UNCHANGED total
  /\ UNCHANGED <<kindSize, freeList, sNext, sType, sSize, kind, size, out, lnext,
                 own, ncalls>>

\* Mutant: a failed test is retried without being counted.
ReserveTotalNeverGivesUp(p) ==
  LET new == (total + size[p]) % UInt IN
  /\ pc[p] = "r_total"
  /\ new >= TotalLimit
  /\ total' = new
  /\ Goto(p, IF kind[p] = "static" THEN "e_read" ELSE "r_kind")
  /\ tries' = [tries EXCEPT ![p] = 1]
  /\ UNCHANGED <<kindSize, freeList, sNext, sType, sSize, kind, size, out, lnext,
                 own, ncalls>>

ReserveTotal(p) ==
  LET new == (total + size[p]) % UInt IN
  /\ pc[p] = "r_total"
  /\ IF new >= TotalLimit
       THEN /\ total' = new
            /\ Goto(p, IF kind[p] = "static" THEN "e_read" ELSE "r_kind")
            /\ tries' = [tries EXCEPT ![p] = 1]
       ELSE /\ tries' = [tries EXCEPT ![p] = @ - 1]
            /\ Goto(p, IF tries[p] > 1 THEN "r_total" ELSE "a_fail")
            /\ UNCHANGED total
  /\ UNCHANGED <<kindSize, freeList, sNext, sType, sSize, kind, size, out, lnext,
                 own, ncalls>>

\* slice_reserve_gc_space / _malloc_space (lines 161-255) and the switch of
\* slice_reserve_space (lines 258-299): the same test, with no retries on
\* failure; a failure releases the total reserved (lines 92-99).
\* Mutant: the rollback goes through slice_release_space, whose gc and
\* malloc releases (lines 151-216) release total_size once more.
ReserveKindReleasesTwice(p) ==
  LET k == kind[p]
      new == (kindSize[k] + size[p]) % UInt
  IN /\ pc[p] = "r_kind"
     /\ IF new >= Limit[k]
          THEN kindSize' = [kindSize EXCEPT ![k] = new] /\ Goto(p, "e_read")
               /\ UNCHANGED total
          ELSE total' = (total - 2 * size[p]) % UInt /\ Goto(p, "a_fail")
               /\ UNCHANGED kindSize
     /\ UNCHANGED <<freeList, sNext, sType, sSize, kind, size, tries, out, lnext,
                    own, ncalls>>

ReserveKind(p) ==
  LET k == kind[p]
      new == (kindSize[k] + size[p]) % UInt
  IN /\ pc[p] = "r_kind"
     /\ IF new >= Limit[k]
          THEN kindSize' = [kindSize EXCEPT ![k] = new] /\ Goto(p, "e_read")
               /\ UNCHANGED total
          ELSE total' = (total - size[p]) % UInt /\ Goto(p, "a_fail")
               /\ UNCHANGED kindSize
     /\ UNCHANGED <<freeList, sNext, sType, sSize, kind, size, tries, out, lnext,
                    own, ncalls>>

(***************************************************************************)
(* slice_entry_alloc / slice_entry_try_alloc (lines 51-80): read the head  *)
(* of the free list, read its s_next, CAS the head from the first to the   *)
(* second.  An empty list gives NULL.                                      *)
(***************************************************************************)
EntryRead(p) ==
  /\ pc[p] = "e_read"
  /\ out' = [out EXCEPT ![p] = freeList]
  /\ Goto(p, IF freeList = Null THEN "a_fail" ELSE "e_next")
  /\ UNCHANGED <<total, kindSize, freeList, sNext, sType, sSize, kind, size, tries,
                 lnext, own, ncalls>>

EntryNext(p) ==
  /\ pc[p] = "e_next"
  /\ lnext' = [lnext EXCEPT ![p] = sNext[out[p]]]
  /\ Goto(p, "e_cas")
  /\ UNCHANGED <<total, kindSize, freeList, sNext, sType, sSize, kind, size, tries,
                 out, own, ncalls>>

EntryCas(p) ==
  /\ pc[p] = "e_cas"
  /\ IF freeList = out[p]
       THEN freeList' = lnext[p] /\ Goto(p, "map")
       ELSE Goto(p, "e_read") /\ UNCHANGED freeList
  /\ lnext' = [lnext EXCEPT ![p] = Null]
  /\ UNCHANGED <<total, kindSize, sNext, sType, sSize, kind, size, tries, out,
                 own, ncalls>>

\* slice_entry_try_free (lines 330-338), retried until its CAS succeeds.
PushEntry(e) == /\ sNext' = [sNext EXCEPT ![e] = freeList]
                /\ freeList' = e

\* os_mem_map either maps the slice, which the caller then holds with its
\* type and size filled in, or fails, and the entry is freed again.
Map(p) ==
  /\ pc[p] = "map"
  /\ \/ /\ own' = [own EXCEPT ![p] = @ \cup {out[p]}]
        /\ sType' = [sType EXCEPT ![out[p]] = kind[p]]
        /\ sSize' = [sSize EXCEPT ![out[p]] = size[p]]
        /\ Return(p)
        /\ UNCHANGED <<freeList, sNext>>
     \/ /\ Goto(p, "m_fail")
        /\ UNCHANGED <<freeList, sNext, sType, sSize, own, kind, size>>
  /\ UNCHANGED <<total, kindSize, tries, out, lnext, ncalls>>

(***************************************************************************)
(* The failure branch of slice_alloc (lines 364-374): if out is not NULL   *)
(* the entry is pushed back, and out is set to NULL.  The space reserved  *)
(* is not released.  When the reservation failed, out was never assigned:  *)
(* it holds what the caller's previous slice_alloc left in the same stack  *)
(* slot, NULL or the slice that call returned.                             *)
(***************************************************************************)
AllocFail(p) ==
  /\ pc[p] \in {"a_fail", "m_fail"}
  /\ IF out[p] # Null THEN PushEntry(out[p]) ELSE UNCHANGED <<sNext, freeList>>
  /\ out' = [out EXCEPT ![p] = Null]
  /\ tries' = [tries EXCEPT ![p] = 1]
  /\ Return(p)
  /\ UNCHANGED <<total, kindSize, sType, sSize, lnext,
                 own, ncalls>>

\* slice_free (lines 382-393): unmap and push the entry; no quota changes.
SliceFree(p, e) ==
  /\ pc[p] = "idle" /\ e \in own[p] /\ ncalls < MaxCalls
  /\ PushEntry(e)
  /\ own' = [own EXCEPT ![p] = @ \ {e}]
  /\ ncalls' = ncalls + 1
  /\ UNCHANGED <<total, kindSize, sType, sSize, pc, kind, size, tries, out, lnext>>

Step(p) ==
  \/ ReserveTotal(p) \/ ReserveKind(p) \/ EntryRead(p) \/ EntryNext(p)
  \/ EntryCas(p) \/ Map(p) \/ AllocFail(p)

Next == \E p \in Procs :
          \/ Step(p)
          \/ \E k \in Kinds, s \in Sizes : SliceAlloc(p, k, s)
          \/ \E e \in own[p] : SliceFree(p, e)

\* Callers are executors the kernel schedules; whether they call is theirs.
Spec == Init /\ [][Next]_vars /\ \A p \in Procs : WF_vars(Step(p))
-----------------------------------------------------------------------------
\* The entries on the free list, in order, following s_next at most
\* TabSize + 1 times (a longer list has a cycle or a repeat).
RECURSIVE ListFrom(_, _)
ListFrom(n, k) == IF n = Null \/ k = 0 THEN <<>> ELSE <<n>> \o ListFrom(sNext[n], k - 1)
FreeSeq == ListFrom(freeList, TabSize + 1)
FreeSet == {FreeSeq[i] : i \in 1 .. Len(FreeSeq)}

\* The entries caller p has taken off the free list and not given back.
InHand(p) == own[p] \cup (IF pc[p] \in {"map", "m_fail"} THEN {out[p]} ELSE {})

\* The sum of the sizes of the held slices of the kinds in ks.
RECURSIVE SizeSum(_)
SizeSum(S) == IF S = {} THEN 0
              ELSE LET e == CHOOSE x \in S : TRUE IN sSize[e] + SizeSum(S \ {e})
Held(ks) == {e \in UNION {own[p] : p \in Procs} : sType[e] \in ks}

TypeOK ==
  /\ total \in 0 .. UInt - 1 /\ kindSize \in [{"gc", "malloc"} -> 0 .. UInt - 1]
  /\ freeList \in Entries \cup {Null} /\ sNext \in [Entries -> Entries \cup {Null}]
  /\ pc \in [Procs -> {"idle", "r_total", "r_kind", "e_read", "e_next", "e_cas",
                       "map", "a_fail", "m_fail"}]
  /\ tries \in [Procs -> 0 .. 4]
  /\ \A p \in Procs : own[p] \subseteq Entries /\ out[p] \in Entries \cup {Null}

\* The descriptor table is never corrupted: each entry is either on the
\* free list, once, or in the hands of exactly one caller, whatever the
\* interleaving of slice_alloc's pops and slice_free's pushes.
EntryOwnership ==
  /\ Len(FreeSeq) = Cardinality(FreeSet) /\ Len(FreeSeq) <= TabSize
  /\ \A p \in Procs : InHand(p) \cap FreeSet = {}
  /\ \A p, q \in Procs : p # q => InHand(p) \cap InHand(q) = {}
  /\ FreeSet \cup UNION {InHand(p) : p \in Procs} = Entries

\* The quotas are never exceeded (spec.md, slice: total across all kinds
\* at most the global quota, each kind at most its own): what
\* slice_reserve_total_space and slice_reserve_<kind>_space are for.
WithinQuota ==
  /\ total <= TotalLimit
  /\ \A k \in {"gc", "malloc"} : kindSize[k] <= Limit[k]

\* The counters never fall below what the slices held use: every slice a
\* caller holds was paid for in total_size and in its kind's counter,
\* across the rollbacks of failed reservations of other callers.
QuotaCoversHeld ==
  /\ total >= SizeSum(Held({"gc", "malloc", "static"}))
  /\ \A k \in {"gc", "malloc"} : kindSize[k] >= SizeSum(Held({k}))

\* Every slice_alloc returns: the retry loops of the reservation and of the
\* descriptor pop end, whatever the other callers do.
AllocReturns == \A p \in Procs : pc[p] # "idle" ~> pc[p] = "idle"
=============================================================================
