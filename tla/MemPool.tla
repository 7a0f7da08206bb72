------------------------------ MODULE MemPool ------------------------------
(***************************************************************************)
(* netty::common::MemPool (src/common/mem-pool.cc).  Memory comes from the *)
(* system in pages that are cut into objects of one slot size.  Tiny,      *)
(* Small and Big slots are fixed when the pool is built and work alike; a  *)
(* Bulk slot exists while it has pages or free objects, and a request may  *)
(* be served from a larger one.                                            *)
(*                                                                         *)
(* Each call works under the lock of its slot and is one step.  A slot is  *)
(* named by its type and the size of its objects, a bulk slot also by that *)
(* size alone: PageSize times its index in the code.  A page is a number,  *)
(* its objects are 1 .. n, and which page the system gives or which free   *)
(* object of a page is taken makes no difference.  The unordered maps are  *)
(* walked in any order.  The MemObject handed out is a record; the         *)
(* recycled handles (m_free_mem_objs) are abstracted away.                 *)
(***************************************************************************)
EXTENDS Naturals, FiniteSets

CONSTANTS
  Width,              \* bits of a uint32_t
  PageSize, Footstep, \* powers of two: m_sys_page_size, the small slots' step
  TinyThreshold, BigThreshold, BulkThreshold,
  ReserveMax,         \* m_available_reserve_bulk_obj_max_size
  ExpandFactor, ExpandBulkFactor,
  Resident,           \* type -> free objects a slot keeps
  SizeSets,           \* sets of sizes; a behaviour asks for those of one
  MaxPages, MaxHeld   \* bounds: pages at a time, objects in use

Wrap == 2 ^ Width   \* an unsigned integer wraps to 0 here

(* The thresholds are as the constructors' defaults are: a slot begins and *)
(* ends at each, a page holds a tiny object, and no size of a page wraps.  *)
(* The last page below Wrap has no multiple above it: there roundup gives  *)
(* 0 and Get divides by it.                                                *)
ASSUME MemPoolAssumption ==
  /\ {PageSize, Footstep, TinyThreshold, BigThreshold, BulkThreshold, ReserveMax,
      ExpandFactor, ExpandBulkFactor, Wrap} \subseteq Nat \ {0}
  /\ Resident \in [{"Tiny", "Small", "Big", "Bulk"} -> Nat]
  /\ MaxPages \in Nat /\ MaxHeld \in Nat
  /\ TinyThreshold < BigThreshold /\ BigThreshold < BulkThreshold /\ TinyThreshold <= PageSize
  /\ BigThreshold % Footstep = 0 /\ BulkThreshold % PageSize = 0 /\ Wrap % PageSize = 0
  /\ BulkThreshold * ExpandFactor < Wrap /\ ReserveMax * ExpandBulkFactor < Wrap
  /\ \A sizes \in SizeSets : sizes \subseteq 1 .. Wrap - PageSize

VARIABLES
  requests,    \* the sizes this behaviour asks for
  slots,       \* fixed slot -> its pages, free objects and count
  bulkPages,   \* m_bulk_obj_pages: bulk slot -> pages
  hash,        \* m_free_hash_bulk_objs: bulk slot -> free objects and count
  tree,        \* m_free_bulk_objs: the bulk slots it has
  heap,        \* page -> the slot it was allocated for
  held,        \* the MemObjects in use
  forgotten,   \* pages that dropped out of bulkPages while they lived
  emptied,     \* a larger slot has given its last free object
  crashed,     \* an iterator to the end was dereferenced
  destroyed

bulkVars == <<bulkPages, hash, tree, forgotten, emptied>>
poolVars == <<requests, slots, bulkVars, heap, held, crashed, destroyed>>

-----------------------------------------------------------------------------
(* Sizes. *)

(* roundup_to_the_next_highest_multiple_of_exponent2, on unsigned integers.*)
Roundup(in, step) == IF in % step = 0 THEN in ELSE ((in \div step + 1) * step) % Wrap

(* gen_expand_slot_page_size: factor objects, rounded up to whole pages. *)
ExpandSize(objSize, factor) ==
  ((objSize * factor) \div PageSize + (IF (objSize * factor) % PageSize # 0 THEN 1 ELSE 0)) * PageSize

(* The class and slot of a request that is not bulk. *)
SlotOf(size) ==
  IF size <= TinyThreshold THEN <<"Tiny", TinyThreshold>>
  ELSE IF size > BigThreshold THEN <<"Big", Roundup(size, PageSize)>>
  ELSE <<"Small", Roundup(size, Footstep)>>

Slots ==
  {<<"Tiny", TinyThreshold>>}
    \cup {<<"Small", i * Footstep>> : i \in 1 .. BigThreshold \div Footstep}
    \cup {<<"Big", i * PageSize>> : i \in 1 .. BulkThreshold \div PageSize}

Bulk(size) == <<"Bulk", size>>

(* What Get allocates at once: one bulk object, if it will not be kept. *)
SlotPageSize(slot) ==
  CASE slot[1] = "Tiny" -> PageSize
    [] slot[1] \in {"Small", "Big"} -> ExpandSize(slot[2], ExpandFactor)
    [] slot[1] = "Bulk" ->
         IF slot[2] < ReserveMax THEN ExpandSize(slot[2], ExpandBulkFactor) ELSE slot[2]
PageObjs(slot) == SlotPageSize(slot) \div slot[2]

(* What put takes for the number of objects in a page. *)
OnePageObjs(slot) ==
  IF slot[1] = "Bulk" THEN ExpandSize(slot[2], ExpandBulkFactor) \div slot[2] ELSE PageObjs(slot)
Limit(slot) == Resident[slot[1]] + OnePageObjs(slot)

-----------------------------------------------------------------------------
(* Partial functions, and free objects by page. *)

Some(S) == CHOOSE x \in S : TRUE
With(f, k, v) == [x \in DOMAIN f \cup {k} |-> IF x = k THEN v ELSE f[x]]
Without(f, k) == [x \in DOMAIN f \ {k} |-> f[x]]
Empty == [x \in {} |-> {}]

FreeIn(objs) == UNION {{<<p, o>> : o \in objs[p]} : p \in DOMAIN objs}
CountOf(objs) == Cardinality(FreeIn(objs))

TakeFrom(objs, p) ==
  IF objs[p] = {Some(objs[p])} THEN Without(objs, p)
                               ELSE With(objs, p, objs[p] \ {Some(objs[p])})
PutBack(objs, p, o) == With(objs, p, {o} \cup IF p \in DOMAIN objs THEN objs[p] ELSE {})

\* Mutant of Whole: any page of the list will do.
WholeAny(objs, n) == DOMAIN objs

(* The pages that are free as a whole. *)
Whole(objs, n) == {p \in DOMAIN objs : Cardinality(objs[p]) = n}

CanAllocate == (1 .. MaxPages) \ DOMAIN heap # {}
NewPage == Some((1 .. MaxPages) \ DOMAIN heap)
NewObjs(slot, p) == With(Empty, p, 1 .. PageObjs(slot))

Object(slot, objs, p, size) == [slot |-> slot, page |-> p, obj |-> Some(objs[p]), size |-> size]

PoolInit ==
  /\ requests \in SizeSets
  /\ slots = [s \in Slots |-> [pages |-> {}, objs |-> Empty, cnt |-> 0]]
  /\ bulkPages = Empty /\ hash = Empty /\ tree = {}
  /\ heap = Empty
  /\ held = {}
  /\ forgotten = {}
  /\ emptied = FALSE /\ crashed = FALSE /\ destroyed = FALSE

Usable == ~crashed /\ ~destroyed
Asks(size) == Usable /\ size \in requests /\ Cardinality(held) < MaxHeld

-----------------------------------------------------------------------------
(* Tiny, Small and Big. *)

(* Get from a slot with these pages, objects and count. *)
Take(size, slot, from) ==
  /\ \E p \in DOMAIN from.objs :
       /\ slots' = [slots EXCEPT ![slot] = [pages |-> from.pages,
                                            objs |-> TakeFrom(from.objs, p),
                                            cnt |-> from.cnt - 1]]
       /\ held' = held \cup {Object(slot, from.objs, p, size)}
  /\ UNCHANGED <<requests, bulkVars, crashed, destroyed>>

(* alloc_page_objs for a slot without a free object; when the system has   *)
(* no memory Get returns null and nothing has changed.                     *)
GetFixed(size) ==
  LET slot == SlotOf(size)
  IN  /\ Asks(size) /\ size <= BulkThreshold
      /\ \/ /\ slots[slot].objs # Empty
            /\ Take(size, slot, slots[slot])
            /\ UNCHANGED heap
         \/ /\ slots[slot].objs = Empty /\ CanAllocate
            /\ Take(size, slot, [pages |-> slots[slot].pages \cup {NewPage},
                                 objs |-> NewObjs(slot, NewPage), cnt |-> PageObjs(slot)])
            /\ heap' = With(heap, NewPage, slot)

\* Mutant of ReleasePage: the slot keeps the page's address.
ReleasePageKeeps(from, p, n) ==
  [pages |-> from.pages, objs |-> Without(from.objs, p), cnt |-> from.cnt - n]

ReleasePage(from, p, n) ==
  [pages |-> from.pages \ {p}, objs |-> Without(from.objs, p), cnt |-> from.cnt - n]

(* put: the object goes back to its page; above the limit one page that is *)
(* free as a whole goes back to the system.                                *)
PutFixed(h) ==
  LET back == [pages |-> slots[h.slot].pages,
               objs |-> PutBack(slots[h.slot].objs, h.page, h.obj),
               cnt |-> slots[h.slot].cnt + 1]
      whole == Whole(back.objs, OnePageObjs(h.slot))
  IN  /\ Usable /\ h.slot[1] # "Bulk"
      /\ held' = held \ {h}
      /\ \/ /\ back.cnt < Limit(h.slot) \/ whole = {}
            /\ slots' = [slots EXCEPT ![h.slot] = back]
            /\ UNCHANGED heap
         \/ /\ back.cnt >= Limit(h.slot)
            /\ \E p \in whole :
                 /\ slots' = [slots EXCEPT ![h.slot] = ReleasePage(back, p, OnePageObjs(h.slot))]
                 /\ heap' = Without(heap, p)
      /\ UNCHANGED <<requests, bulkVars, crashed, destroyed>>

-----------------------------------------------------------------------------
(* Bulk. *)

(* get_suitable_bulk_page without an exact match: {} or the slot to use.   *)
(* The smallest slot is tried if it is above the need; if not, the search  *)
(* goes from the largest down.                                             *)
Larger(need) ==
  LET fits == {n \in tree : need < n /\ n <= 2 * need}
  IN  IF \A n \in tree : need < n THEN {n \in fits : \A k \in tree : n <= k}
                                  ELSE {n \in fits : \A k \in fits : k <= n}

Crash ==
  /\ crashed' = TRUE
  /\ UNCHANGED <<requests, slots, bulkVars, heap, held, destroyed>>

TakenFrom(n, p) == [objs |-> TakeFrom(hash[n].objs, p), cnt |-> hash[n].cnt - 1]

(* The exact slot; its entry goes when its last object goes. *)
GetBulkExact(size) ==
  LET need == Roundup(size, PageSize)
  IN  /\ Asks(size) /\ size > BulkThreshold
      /\ need \in DOMAIN hash
      /\ \/ hash[need].objs = Empty /\ Crash
         \/ /\ \E p \in DOMAIN hash[need].objs :
                 /\ held' = held \cup {Object(Bulk(need), hash[need].objs, p, size)}
                 /\ IF TakenFrom(need, p).objs = Empty
                    THEN hash' = Without(hash, need) /\ tree' = tree \ {need}
                    ELSE hash' = With(hash, need, TakenFrom(need, p)) /\ UNCHANGED tree
            /\ UNCHANGED <<requests, slots, bulkPages, heap, forgotten, emptied,
                           crashed, destroyed>>

(* A larger slot.  When its last object goes, its tree entry is erased and *)
(* then read again to find the hash entry to erase: a forward iterator     *)
(* reads freed memory, the key or rubbish; a reverse one names the entry   *)
(* before, so that another slot loses its free objects.                    *)
HashKeysErased(n) ==
  LET below == {k \in tree : k < n}
  IN  IF below = {} THEN {{n}, {}} ELSE {{k \in below : \A m \in below : m <= k}}

GetBulkLarger(size) ==
  LET need == Roundup(size, PageSize)
  IN  /\ Asks(size) /\ size > BulkThreshold
      /\ need \notin DOMAIN hash
      /\ \E n \in Larger(need) :
           \/ (n \in DOMAIN hash => hash[n].objs = Empty) /\ Crash
           \/ /\ n \in DOMAIN hash
              /\ \E p \in DOMAIN hash[n].objs :
                   /\ held' = held \cup {Object(Bulk(n), hash[n].objs, p, size)}
                   /\ \/ /\ TakenFrom(n, p).objs # Empty
                         /\ hash' = With(hash, n, TakenFrom(n, p))
                         /\ UNCHANGED <<tree, emptied>>
                      \/ /\ TakenFrom(n, p).objs = Empty
                         /\ \E keys \in HashKeysErased(n) :
                              hash' = [k \in DOMAIN hash \ keys |->
                                         IF k = n THEN TakenFrom(n, p) ELSE hash[k]]
                         /\ tree' = tree \ {n}
                         /\ emptied' = TRUE
              /\ UNCHANGED <<requests, slots, bulkPages, heap, forgotten, crashed, destroyed>>

PagesOf(n) == IF n \in DOMAIN bulkPages THEN bulkPages[n] ELSE {}

(* No free object suits: the slot's page set is begun anew, whatever pages *)
(* of it are in use, and one page is allocated, from which the object      *)
(* comes.  When the system has none left, the set is empty and Get returns *)
(* null.                                                                   *)
GetBulkNew(size) ==
  LET need == Roundup(size, PageSize)
      objs == NewObjs(Bulk(need), NewPage)
      left == TakeFrom(objs, NewPage)
  IN  /\ Asks(size) /\ size > BulkThreshold
      /\ need \notin DOMAIN hash /\ Larger(need) = {}
      /\ forgotten' = forgotten \cup PagesOf(need)
      /\ \/ /\ CanAllocate
            /\ bulkPages' = With(bulkPages, need, {NewPage})
            /\ heap' = With(heap, NewPage, Bulk(need))
            /\ held' = held \cup {Object(Bulk(need), objs, NewPage, size)}
            /\ IF left = Empty
               THEN UNCHANGED hash /\ tree' = tree \ {need}
               ELSE /\ hash' = With(hash, need, [objs |-> left, cnt |-> PageObjs(Bulk(need)) - 1])
                    /\ tree' = tree \cup {need}
         \/ /\ bulkPages' = With(bulkPages, need, {})
            /\ tree' = tree \ {need}
            /\ UNCHANGED <<hash, heap, held>>
      /\ UNCHANGED <<requests, slots, emptied, crashed, destroyed>>

\* Mutant of DropBulk: the slot's entry goes with any of its pages.
DropBulkSlot(h) ==
  LET n == h.slot[2]
  IN  /\ Usable /\ h.slot[1] = "Bulk" /\ n > ReserveMax
      /\ \/ n \notin DOMAIN bulkPages /\ Crash
         \/ /\ n \in DOMAIN bulkPages
            /\ held' = held \ {h}
            /\ heap' = Without(heap, h.page)
            /\ forgotten' = forgotten \ {h.page}
            /\ bulkPages' = Without(bulkPages, n)
            /\ UNCHANGED <<requests, slots, hash, tree, emptied, crashed, destroyed>>

(* put of an object too large to keep: its page is freed.                  *)
DropBulk(h) ==
  LET n == h.slot[2]
  IN  /\ Usable /\ h.slot[1] = "Bulk" /\ n > ReserveMax
      /\ \/ n \notin DOMAIN bulkPages /\ Crash
         \/ /\ n \in DOMAIN bulkPages
            /\ held' = held \ {h}
            /\ heap' = Without(heap, h.page)
            /\ forgotten' = forgotten \ {h.page}
            /\ bulkPages' = IF bulkPages[n] \subseteq {h.page} THEN Without(bulkPages, n)
                            ELSE With(bulkPages, n, bulkPages[n] \ {h.page})
            /\ UNCHANGED <<requests, slots, hash, tree, emptied, crashed, destroyed>>

(* put of any other: as in the fixed slots; the entry comes with its first *)
(* free object, into the tree too, and goes with its last page.            *)
PutBulk(h) ==
  LET n == h.slot[2]
      new == n \notin DOMAIN hash
      back == PutBack(IF new THEN Empty ELSE hash[n].objs, h.page, h.obj)
      cnt == (IF new THEN 0 ELSE hash[n].cnt) + 1
      treeBack == IF new THEN tree \cup {n} ELSE tree
      whole == Whole(back, OnePageObjs(h.slot))
  IN  /\ Usable /\ h.slot[1] = "Bulk" /\ n <= ReserveMax
      /\ held' = held \ {h}
      /\ \/ /\ cnt < Limit(h.slot) \/ whole = {}
            /\ hash' = With(hash, n, [objs |-> back, cnt |-> cnt])
            /\ tree' = treeBack
            /\ UNCHANGED <<bulkPages, heap, forgotten>>
         \/ /\ cnt >= Limit(h.slot)
            /\ \E p \in whole :
                 /\ bulkPages' = With(bulkPages, n, PagesOf(n) \ {p})
                 /\ heap' = Without(heap, p)
                 /\ forgotten' = forgotten \ {p}
                 /\ IF cnt = OnePageObjs(h.slot)
                    THEN hash' = Without(hash, n) /\ tree' = treeBack \ {n}
                    ELSE /\ hash' = With(hash, n, [objs |-> Without(back, p),
                                                   cnt |-> cnt - OnePageObjs(h.slot)])
                         /\ tree' = treeBack
      /\ UNCHANGED <<requests, slots, emptied, crashed, destroyed>>

-----------------------------------------------------------------------------
Known == UNION ({slots[s].pages : s \in Slots} \cup {bulkPages[n] : n \in DOMAIN bulkPages})

(* ~MemPool frees the pages its tables name. *)
Destroy ==
  /\ Usable
  /\ destroyed' = TRUE
  /\ heap' = [p \in DOMAIN heap \ Known |-> heap[p]]
  /\ UNCHANGED <<requests, slots, bulkVars, held, crashed>>

PoolNext ==
  \/ \E size \in requests :
       GetFixed(size) \/ GetBulkExact(size) \/ GetBulkLarger(size) \/ GetBulkNew(size)
  \/ \E h \in held : PutFixed(h) \/ DropBulk(h) \/ PutBulk(h)
  \/ Destroy

PoolSpec == PoolInit /\ [][PoolNext]_poolVars

-----------------------------------------------------------------------------
Free == UNION ({FreeIn(slots[s].objs) : s \in Slots} \cup {FreeIn(hash[n].objs) : n \in DOMAIN hash})

(* Every variable has its type. *)
MemPoolTypeOK ==
  /\ requests \in SizeSets
  /\ \A s \in Slots : slots[s].pages \subseteq 1 .. MaxPages /\ slots[s].cnt \in Nat
  /\ \A n \in DOMAIN bulkPages : bulkPages[n] \subseteq 1 .. MaxPages
  /\ \A n \in DOMAIN hash : hash[n].cnt \in Nat
  /\ tree \subseteq Nat
  /\ DOMAIN heap \subseteq 1 .. MaxPages
  /\ \A h \in held : h.slot \in Slots \/ h.slot[1] = "Bulk"
  /\ forgotten \subseteq 1 .. MaxPages
  /\ {emptied, crashed, destroyed} \subseteq BOOLEAN

Begin(h) == (h.obj - 1) * h.slot[2]
End(h) == h.obj * h.slot[2]

(* An object in use is in no free list and lies whole in a page of its     *)
(* slot that is not freed, apart from every other: two users never share   *)
(* memory, whichever slot served them.  It is as large as was asked for.   *)
ObjectsAreApart ==
  ~destroyed =>
    /\ \A h \in held :
         /\ <<h.page, h.obj>> \notin Free
         /\ h.size <= h.slot[2]
         /\ h.page \in DOMAIN heap /\ heap[h.page] = h.slot
         /\ End(h) <= SlotPageSize(h.slot)
    /\ \A g, h \in held : g.page = h.page /\ g # h => End(g) <= Begin(h) \/ End(h) <= Begin(g)

(* "an inner list that is empty is deleted": no page without a free object *)
(* stays in a free list (the comment get_free_obj_from_slot_page relies    *)
(* on), and the counts that decide when a page is released are exact.      *)
(* Until a larger slot gave its last object, the tree has the bulk slots   *)
(* that have free objects and no others.                                   *)
ListsAndCountsAgree ==
  /\ \A s \in Slots : {} \notin {slots[s].objs[p] : p \in DOMAIN slots[s].objs}
                        /\ slots[s].cnt = CountOf(slots[s].objs)
  /\ \A n \in DOMAIN hash : {} \notin {hash[n].objs[p] : p \in DOMAIN hash[n].objs}
                             /\ hash[n].cnt = CountOf(hash[n].objs)
  /\ ~emptied => tree = DOMAIN hash /\ \A n \in tree : hash[n].cnt > 0

(* A slot keeps more than its limit only while no page of it is free as a  *)
(* whole; the largest bulk slot kept is left out, whose pages hold one     *)
(* object and are never taken for whole.                                   *)
KeepsNoMoreThanResident ==
  /\ \A s \in Slots : slots[s].cnt >= Limit(s) =>
       \A p \in DOMAIN slots[s].objs : Cardinality(slots[s].objs[p]) < PageObjs(s)
  /\ \A n \in DOMAIN hash : hash[n].cnt >= Limit(Bulk(n)) /\ n # ReserveMax =>
       \A p \in DOMAIN hash[n].objs : Cardinality(hash[n].objs[p]) < PageObjs(Bulk(n))

(* The destructor frees every page, and no page twice: the tables name     *)
(* each page of the heap but those that a bulk slot forgot when it began   *)
(* its page set anew.                                                      *)
PagesAreKnown ==
  ~destroyed => DOMAIN heap = Known \cup forgotten /\ Known \cap forgotten = {}

(* What the pool's tables say of the heap, the lists and the counts. *)
MemPoolInv ==
  MemPoolTypeOK /\ ListsAndCountsAgree /\ KeepsNoMoreThanResident /\ PagesAreKnown

(* The pool dereferences the end of a map only after it forgot a page or   *)
(* emptied a larger slot.                                                  *)
CrashesOnlyAfterLoss == crashed => forgotten # {} \/ emptied
=============================================================================
