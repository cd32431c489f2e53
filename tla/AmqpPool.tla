------------------------------- MODULE AmqpPool -------------------------------
(***************************************************************************)
(* The memory pools of rabbitmq-c (src/native/rabbitmq-c/librabbitmq,      *)
(* amqp_mem.c).  A pool hands out blocks from pages of one size and keeps  *)
(* the pages when it is recycled; a block larger than a page is allocated  *)
(* by itself and freed at the next recycling.  Allocation by the system is *)
(* assumed to succeed.                                                     *)
(***************************************************************************)
EXTENDS Integers

\* (amount + 7) & ~7
RoundUp(amount) == ((amount + 7) \div 8) * 8

\* Pages are numbered from 1 in the order of their allocation; alloc_block is the
\* page blocks are taken from, 0 for none; the first dirty pages have been used
\* before the last recycling.
init_amqp_pool(pagesize) ==
    [pagesize |-> pagesize, pages |-> 0, large_blocks |-> 0, next_page |-> 0,
     alloc_block |-> 0, alloc_used |-> 0, dirty |-> 0]

recycle_amqp_pool(pool) ==
    [pool EXCEPT !.large_blocks = 0, !.next_page = 0, !.alloc_block = 0,
                 !.alloc_used = 0, !.dirty = pool.pages]

Block(kind, no, start, size) == [kind |-> kind, no |-> no, start |-> start, size |-> size]

\* A block as large as amount has to be allocated by itself.
AllocLarge(pool, amount) ==
    [pool |-> [pool EXCEPT !.large_blocks = @ + 1],
     block |-> Block("large", pool.large_blocks + 1, 0, amount)]

Fits(pool, amount) == pool.alloc_block # 0 /\ pool.alloc_used + amount <= pool.pagesize

AllocInPage(pool, amount) ==
    [pool |-> [pool EXCEPT !.alloc_used = @ + amount],
     block |-> Block("page", pool.alloc_block, pool.alloc_used, amount)]

\* Mutant of AllocNextPage: the page that is reused is the one before.
AllocSamePage(pool, amount) ==
    LET page == IF pool.next_page = 0 THEN 1 ELSE pool.next_page IN
    [pool |-> [pool EXCEPT !.pages = IF page > @ THEN page ELSE @, !.next_page = page,
                           !.alloc_block = page, !.alloc_used = amount],
     block |-> Block("page", page, 0, amount)]

\* The next page, allocated if there is none.
AllocNextPage(pool, amount) ==
    LET page == pool.next_page + 1 IN
    [pool |-> [pool EXCEPT !.pages = IF page > @ THEN page ELSE @, !.next_page = page,
                           !.alloc_block = page, !.alloc_used = amount],
     block |-> Block("page", page, 0, amount)]

\* amqp_pool_alloc for an amount that has been rounded up and is not 0.
AllocRounded(pool, amount) ==
    IF amount > pool.pagesize THEN AllocLarge(pool, amount)
    ELSE IF Fits(pool, amount) THEN AllocInPage(pool, amount)
    ELSE AllocNextPage(pool, amount)

amqp_pool_alloc(pool, amount) == AllocRounded(pool, RoundUp(amount))

\* The next block of this size is all zeros: calloc has allocated it, and nobody
\* used it since.
ZeroedRounded(pool, amount) ==
    AllocRounded(pool, amount).block.kind = "large" \/ AllocRounded(pool, amount).block.no > pool.dirty
Zeroed(pool, amount) == ZeroedRounded(pool, RoundUp(amount))

Overlap(a, b) ==
    /\ a.kind = b.kind /\ a.no = b.no
    /\ a.start < b.start + b.size /\ b.start < a.start + a.size

=============================================================================
