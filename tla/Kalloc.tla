------------------------------- MODULE Kalloc -------------------------------
(***************************************************************************)
(* The physical page allocator of kernel/kalloc.c: kinit/freerange at     *)
(* boot on hart 0, then kalloc and kfree called concurrently by harts.    *)
(*                                                                         *)
(* Addresses are small integers; a page is named by its first address.    *)
(* kmem.freelist is a sequence, its head first.  The critical sections    *)
(* under kmem.lock are atomic steps; the memsets run outside the lock and *)
(* are steps of their own, so another hart can run in between.  A page's  *)
(* contents are abstracted to the fill byte last written (1 by kfree, 5   *)
(* by kalloc) or "data" once its owner has used it.                       *)
(***************************************************************************)
EXTENDS Naturals, Sequences, FiniteSets

CONSTANTS PGSIZE,   \* riscv.h
          KEnd,     \* end: first address after the kernel image
          PHYSTOP,  \* memlayout.h: end of RAM
          Harts,    \* harts calling kalloc and kfree after boot
          MaxOps    \* bound: kalloc calls by one hart

ASSUME PGSIZE > 0 /\ KEnd < PHYSTOP /\ MaxOps > 0

NoPage == 0   \* the null pointer kalloc returns when memory is exhausted

\* (seeded fault: rounding down instead of up)
PGROUNDDOWN(a) == (a \div PGSIZE) * PGSIZE

\* PGROUNDUP(a)
PGROUNDUP(a) == ((a + PGSIZE - 1) \div PGSIZE) * PGSIZE

\* The frames the allocator manages, by definition: every page-aligned
\* page that lies wholly in [end, PHYSTOP).
Frames == {a \in KEnd .. PHYSTOP : a % PGSIZE = 0 /\ a + PGSIZE <= PHYSTOP}

ASSUME NoPage \notin Frames

VARIABLES freelist,  \* kmem.freelist
          contents,  \* the fill of each page
          p,         \* freerange's loop variable; booted once it is past the end
          booted,    \* kinit has returned and the other harts run
          pc,        \* where each hart is
          page,      \* the page a hart is allocating or freeing
          owned,     \* pages each hart has from kalloc and not yet freed
          ops

vars == <<freelist, contents, p, booted, pc, page, owned, ops>>

Init == /\ freelist = <<>>
        /\ contents = [a \in Frames |-> "data"]
        /\ p = PGROUNDUP(KEnd)
        /\ booted = FALSE
        /\ pc = [h \in Harts |-> "idle"]
        /\ page = [h \in Harts |-> NoPage]
        /\ owned = [h \in Harts |-> {}]
        /\ ops = [h \in Harts |-> 0]

-----------------------------------------------------------------------------
(* kinit -> freerange(end, PHYSTOP) -> kfree(p) for each page *)

\* one iteration: kfree(p) (memset 1, push under kmem.lock); p += PGSIZE
freerange_step == /\ ~booted
                  /\ p + PGSIZE <= PHYSTOP
                  /\ contents' = [contents EXCEPT ![p] = "junk1"]
                  /\ freelist' = <<p>> \o freelist
                  /\ p' = p + PGSIZE
                  /\ UNCHANGED <<booted, pc, page, owned, ops>>

\* the loop ends; main starts the other harts
freerange_done == /\ ~booted
                  /\ p + PGSIZE > PHYSTOP
                  /\ booted' = TRUE
                  /\ UNCHANGED <<freelist, contents, p, pc, page, owned, ops>>

-----------------------------------------------------------------------------
(* kalloc *)

\* (seeded fault: kmem.freelist = r->next forgotten)
kalloc_popNoUnlink(h) == /\ booted
                         /\ pc[h] = "idle"
                         /\ ops[h] < MaxOps
                         /\ ops' = [ops EXCEPT ![h] = @ + 1]
                         /\ \/ /\ freelist # <<>>
                               /\ page' = [page EXCEPT ![h] = Head(freelist)]
                               /\ pc' = [pc EXCEPT ![h] = "kalloc_fill"]
                            \/ /\ freelist = <<>>
                               /\ UNCHANGED <<page, pc>>
                         /\ UNCHANGED <<freelist, contents, p, booted, owned>>

\* under kmem.lock: r = kmem.freelist; if (r) kmem.freelist = r->next
kalloc_pop(h) == /\ booted
                 /\ pc[h] = "idle"
                 /\ ops[h] < MaxOps
                 /\ ops' = [ops EXCEPT ![h] = @ + 1]
                 /\ \/ /\ freelist # <<>>
                       /\ page' = [page EXCEPT ![h] = Head(freelist)]
                       /\ freelist' = Tail(freelist)
                       /\ pc' = [pc EXCEPT ![h] = "kalloc_fill"]
                    \/ /\ freelist = <<>>          \* return 0
                       /\ UNCHANGED <<freelist, page, pc>>
                 /\ UNCHANGED <<contents, p, booted, owned>>

\* if (r) memset(r, 5, PGSIZE); return r
kalloc_fill(h) == /\ pc[h] = "kalloc_fill"
                  /\ contents' = [contents EXCEPT ![page[h]] = "junk5"]
                  /\ owned' = [owned EXCEPT ![h] = @ \cup {page[h]}]
                  /\ pc' = [pc EXCEPT ![h] = "idle"]
                  /\ page' = [page EXCEPT ![h] = NoPage]
                  /\ UNCHANGED <<freelist, p, booted, ops>>

\* the owner of a page writes to it
Use(h, a) == /\ pc[h] = "idle"
             /\ a \in owned[h]
             /\ contents[a] # "data"
             /\ contents' = [contents EXCEPT ![a] = "data"]
             /\ UNCHANGED <<freelist, p, booted, pc, page, owned, ops>>

-----------------------------------------------------------------------------
(* kfree(pa), called by the owner of pa *)

\* (seeded fault: the junk fill is left out)
kfree_fillNoJunk(h, a) == /\ pc[h] = "idle"
                          /\ a \in owned[h]
                          /\ owned' = [owned EXCEPT ![h] = @ \ {a}]
                          /\ page' = [page EXCEPT ![h] = a]
                          /\ pc' = [pc EXCEPT ![h] = "kfree_push"]
                          /\ UNCHANGED <<freelist, contents, p, booted, ops>>

\* the address checks pass for a page from kalloc; memset(pa, 1, PGSIZE)
kfree_fill(h, a) == /\ pc[h] = "idle"
                    /\ a \in owned[h]
                    /\ owned' = [owned EXCEPT ![h] = @ \ {a}]
                    /\ contents' = [contents EXCEPT ![a] = "junk1"]
                    /\ page' = [page EXCEPT ![h] = a]
                    /\ pc' = [pc EXCEPT ![h] = "kfree_push"]
                    /\ UNCHANGED <<freelist, p, booted, ops>>

\* under kmem.lock: r->next = kmem.freelist; kmem.freelist = r
kfree_push(h) == /\ pc[h] = "kfree_push"
                 /\ freelist' = <<page[h]>> \o freelist
                 /\ pc' = [pc EXCEPT ![h] = "idle"]
                 /\ page' = [page EXCEPT ![h] = NoPage]
                 /\ UNCHANGED <<contents, p, booted, owned, ops>>

Next == \/ freerange_step \/ freerange_done
        \/ \E h \in Harts : \/ kalloc_pop(h) \/ kalloc_fill(h)
                            \/ \E a \in Frames : Use(h, a) \/ kfree_fill(h, a)
                            \/ kfree_push(h)

Spec == Init /\ [][Next]_vars

-----------------------------------------------------------------------------
(* Properties *)

\* Type invariant.  Every page freerange and kfree put on kmem.freelist
\* is one of the managed frames.
TypeOK == /\ freelist \in Seq(Frames)
          /\ contents \in [Frames -> {"junk1", "junk5", "data"}]
          /\ p \in Nat /\ booted \in BOOLEAN
          /\ pc \in [Harts -> {"idle", "kalloc_fill", "kfree_push"}]
          /\ page \in [Harts -> Frames \cup {NoPage}]
          /\ owned \in [Harts -> SUBSET Frames]
          /\ ops \in [Harts -> 0 .. MaxOps]

\* The number of places a frame is in: on kmem.freelist (counting
\* repeats), owned by a caller, or held by a hart between the lock and the
\* memset of kalloc or kfree.
Places(a) == Cardinality({i \in 1 .. Len(freelist) : freelist[i] = a})
             + Cardinality({h \in Harts : a \in owned[h]})
             + Cardinality({h \in Harts : page[h] = a})

\* freerange frees exactly the frames of [end, PHYSTOP), each once, and
\* afterwards kalloc/kfree, interleaved on several harts with their
\* memsets outside kmem.lock, keep every frame in exactly one place: two
\* kalloc calls never return the same page and no page is lost.
FramesConserved ==
    \A a \in Frames : Places(a) = IF booted \/ a < p THEN 1 ELSE 0

\* Every page on kmem.freelist holds kfree's junk fill: a stale pointer of
\* its former owner reads 1s, never its old data ("catch dangling refs").
FreePagesJunk == \A i \in 1 .. Len(freelist) : contents[freelist[i]] = "junk1"
====
