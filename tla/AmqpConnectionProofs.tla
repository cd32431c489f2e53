------------------------- MODULE AmqpConnectionProofs -------------------------
(***************************************************************************)
(* Proofs about AmqpConnection, for frames of any number and size, pieces  *)
(* of any size returned by recv, and any page and block sizes.             *)
(***************************************************************************)
EXTENDS AmqpConnection, SequenceTheorems, TLAPS

-----------------------------------------------------------------------------
(* The pools.                                                               *)

PoolRecords == [pagesize : Nat, pages : Nat, large_blocks : Nat, next_page : Nat,
                alloc_block : Nat, alloc_used : Nat, dirty : Nat]
BlockRecords == [kind : {"page", "large"}, no : Nat, start : Nat, size : Nat]

PoolOK(p) ==
    /\ p \in PoolRecords
    /\ p.alloc_block = p.next_page /\ p.next_page <= p.pages
    /\ p.alloc_used <= p.pagesize /\ p.dirty <= p.pages

\* A block in use is on a page taken up to now, below what is used of it, or one of
\* the large blocks.
InPool(p, b) ==
    /\ b \in BlockRecords
    /\ b.kind = "page" =>
          /\ b.no <= p.alloc_block /\ b.start + b.size <= p.pagesize
          /\ b.no = p.alloc_block => b.start + b.size <= p.alloc_used
    /\ b.kind = "large" => b.no <= p.large_blocks

\* The memory of all channels.
MemOK(m) ==
    /\ DOMAIN m.pools \subseteq Channels
    /\ \A c \in DOMAIN m.pools : PoolOK(m.pools[c])
    /\ \A a \in m.heap : a.channel \in DOMAIN m.pools /\ InPool(m.pools[a.channel], a.block)
    /\ \A a, b \in m.heap : a # b /\ a.channel = b.channel => ~Overlap(a.block, b.block)

\* A new pool and a recycled one are well formed.
LEMMA NewPool ==
  ASSUME NEW n \in Nat PROVE PoolOK(init_amqp_pool(n))
  BY DEF PoolOK, PoolRecords, init_amqp_pool

\* Recycling keeps the pages and forgets the blocks.
LEMMA RecycledPool ==
  ASSUME NEW p, PoolOK(p) PROVE PoolOK(recycle_amqp_pool(p))
<1>1. recycle_amqp_pool(p) = [p EXCEPT !.large_blocks = 0, !.next_page = 0, !.alloc_block = 0,
                                       !.alloc_used = 0, !.dirty = p.pages]
  BY DEF recycle_amqp_pool
<1>2. p \in PoolRecords /\ p.pages \in Nat /\ p.pagesize \in Nat BY DEF PoolOK, PoolRecords
<1>3. recycle_amqp_pool(p) =
         [pagesize |-> p.pagesize, pages |-> p.pages, large_blocks |-> 0, next_page |-> 0,
          alloc_block |-> 0, alloc_used |-> 0, dirty |-> p.pages]
  BY <1>1, <1>2 DEF PoolRecords
<1> QED BY <1>2, <1>3 DEF PoolOK, PoolRecords

\* amqp_pool_alloc: the new block does not overlap one that is in use, and those in
\* use stay where the pool knows them.
LEMMA PoolAlloc ==
  ASSUME NEW p, PoolOK(p), NEW n \in Nat
  PROVE  /\ PoolOK(AllocRounded(p, n).pool)
         /\ InPool(AllocRounded(p, n).pool, AllocRounded(p, n).block)
         /\ \A b : InPool(p, b) =>
               /\ InPool(AllocRounded(p, n).pool, b)
               /\ ~Overlap(AllocRounded(p, n).block, b) /\ ~Overlap(b, AllocRounded(p, n).block)
<1>0. /\ p \in PoolRecords
      /\ p.pagesize \in Nat /\ p.pages \in Nat /\ p.large_blocks \in Nat /\ p.next_page \in Nat
      /\ p.alloc_block \in Nat /\ p.alloc_used \in Nat /\ p.dirty \in Nat
      /\ p.alloc_block = p.next_page /\ p.next_page <= p.pages
      /\ p.alloc_used <= p.pagesize /\ p.dirty <= p.pages
  BY DEF PoolOK, PoolRecords
<1>1. CASE n > p.pagesize
  <2> DEFINE q == [p EXCEPT !.large_blocks = @ + 1]
             d == Block("large", p.large_blocks + 1, 0, n)
  <2>1. AllocRounded(p, n) = [pool |-> q, block |-> d]
    BY <1>1 DEF AllocRounded, AllocLarge
  <2>2. /\ q \in PoolRecords /\ q.large_blocks = p.large_blocks + 1
        /\ q.pagesize = p.pagesize /\ q.pages = p.pages /\ q.next_page = p.next_page
        /\ q.alloc_block = p.alloc_block /\ q.alloc_used = p.alloc_used /\ q.dirty = p.dirty
    BY <1>0 DEF PoolRecords
  <2>3. d \in BlockRecords /\ d.kind = "large" /\ d.no = p.large_blocks + 1
    BY <1>0 DEF Block, BlockRecords
  <2> HIDE DEF q, d
  <2>4. PoolOK(q) BY <1>0, <2>2 DEF PoolOK
  <2>5. InPool(q, d) BY <1>0, <2>2, <2>3 DEF InPool
  <2>6. ASSUME NEW b, InPool(p, b)
        PROVE  InPool(q, b) /\ ~Overlap(d, b) /\ ~Overlap(b, d)
    <3>1. b \in BlockRecords /\ b.no \in Nat BY <2>6 DEF InPool, BlockRecords
    <3>2. InPool(q, b) BY <1>0, <2>2, <2>6, <3>1 DEF InPool
    <3>3. b.kind = d.kind => b.no # d.no BY <1>0, <2>3, <2>6, <3>1 DEF InPool
    <3> QED BY <3>2, <3>3 DEF Overlap
  <2> QED BY <2>1, <2>4, <2>5, <2>6
<1>2. CASE ~(n > p.pagesize) /\ Fits(p, n)
  <2> DEFINE q == [p EXCEPT !.alloc_used = @ + n]
             d == Block("page", p.alloc_block, p.alloc_used, n)
  <2>1. AllocRounded(p, n) = [pool |-> q, block |-> d]
    BY <1>2 DEF AllocRounded, AllocInPage
  <2>2. /\ q \in PoolRecords /\ q.large_blocks = p.large_blocks
        /\ q.pagesize = p.pagesize /\ q.pages = p.pages /\ q.next_page = p.next_page
        /\ q.alloc_block = p.alloc_block /\ q.alloc_used = p.alloc_used + n /\ q.dirty = p.dirty
    BY <1>0 DEF PoolRecords
  <2>3. /\ d \in BlockRecords /\ d.kind = "page" /\ d.no = p.alloc_block
        /\ d.start = p.alloc_used /\ d.size = n
    BY <1>0 DEF Block, BlockRecords
  <2> HIDE DEF q, d
  <2>4. p.alloc_used + n <= p.pagesize BY <1>2 DEF Fits
  <2>5. PoolOK(q) BY <1>0, <2>2, <2>4 DEF PoolOK
  <2>6. InPool(q, d) BY <1>0, <2>2, <2>3, <2>4 DEF InPool
  <2>7. ASSUME NEW b, InPool(p, b)
        PROVE  InPool(q, b) /\ ~Overlap(d, b) /\ ~Overlap(b, d)
    <3>1. b \in BlockRecords /\ b.no \in Nat /\ b.start \in Nat /\ b.size \in Nat
      BY <2>7 DEF InPool, BlockRecords
    <3>2. InPool(q, b) BY <1>0, <2>2, <2>7, <3>1 DEF InPool
    <3>3. b.kind = d.kind /\ b.no = d.no => b.start + b.size <= d.start
      BY <1>0, <2>3, <2>7, <3>1 DEF InPool
    <3> QED BY <1>0, <2>3, <3>1, <3>2, <3>3 DEF Overlap
  <2> QED BY <2>1, <2>5, <2>6, <2>7
<1>3. CASE ~(n > p.pagesize) /\ ~Fits(p, n)
  <2>1. PICK g : g = p.next_page + 1 OBVIOUS
  <2>2. PICK v : v = IF g > p.pages THEN g ELSE p.pages OBVIOUS
  <2> DEFINE q == [p EXCEPT !.pages = v, !.next_page = g,
                            !.alloc_block = g, !.alloc_used = n]
             d == Block("page", g, 0, n)
  <2>3. AllocRounded(p, n) = [pool |-> q, block |-> d]
    BY <1>3, <2>1, <2>2 DEF AllocRounded, AllocNextPage
  <2>4. /\ q \in PoolRecords /\ q.large_blocks = p.large_blocks
        /\ q.pagesize = p.pagesize /\ q.pages = (IF g > p.pages THEN g ELSE p.pages)
        /\ q.next_page = g /\ q.alloc_block = g /\ q.alloc_used = n /\ q.dirty = p.dirty
    <3>1. g \in Nat /\ v \in Nat BY <1>0, <2>1, <2>2
    <3>2. p \in PoolRecords BY <1>0
    <3>3. /\ q \in PoolRecords /\ q.large_blocks = p.large_blocks
          /\ q.pagesize = p.pagesize /\ q.pages = v
          /\ q.next_page = g /\ q.alloc_block = g /\ q.alloc_used = n /\ q.dirty = p.dirty
      BY <3>1, <3>2 DEF PoolRecords
    <3> QED BY <2>2, <3>3
  <2>5. /\ d \in BlockRecords /\ d.kind = "page" /\ d.no = g
        /\ d.start = 0 /\ d.size = n
    BY <1>0, <2>1 DEF Block, BlockRecords
  <2> HIDE DEF q, d
  <2>6. PoolOK(q) BY <1>0, <1>3, <2>4, <2>1, <2>2 DEF PoolOK
  <2>7. InPool(q, d) BY <1>0, <1>3, <2>4, <2>5, <2>1 DEF InPool
  <2>8. ASSUME NEW b, InPool(p, b)
        PROVE  InPool(q, b) /\ ~Overlap(d, b) /\ ~Overlap(b, d)
    <3>1. b \in BlockRecords /\ b.no \in Nat BY <2>8 DEF InPool, BlockRecords
    <3>2. b.kind = "page" => b.no < g BY <1>0, <2>8, <2>1, <3>1 DEF InPool
    <3>3. InPool(q, b) BY <1>0, <2>4, <2>8, <2>1, <3>1, <3>2 DEF InPool
    <3>4. b.kind = d.kind => b.no # d.no BY <1>0, <2>5, <2>1, <3>1, <3>2
    <3> QED BY <3>3, <3>4 DEF Overlap
  <2> QED BY <2>3, <2>6, <2>7, <2>8
<1> QED BY <1>1, <1>2, <1>3

\* A block for frame i: the memory stays in order, and nothing is lost.
LEMMA MemAlloc ==
  ASSUME NEW m, MemOK(m), NEW c \in Channels, NEW n \in Nat, NEW i, frame_max \in Nat
  PROVE  /\ MemOK(Alloc(m, c, n, i))
         /\ m.heap \subseteq Alloc(m, c, n, i).heap
         /\ \E a \in Alloc(m, c, n, i).heap : a.for = i /\ a.channel = c
<1> DEFINE p == PoolOf(m, c)
           a == AllocRounded(p, RoundUp(n))
           r == [channel |-> c, block |-> a.block, for |-> i]
           w == Alloc(m, c, n, i)
<1>1. RoundUp(n) \in Nat BY DEF RoundUp
<1>2. PoolOK(p) BY NewPool DEF MemOK, PoolOf
<1>3. c \in DOMAIN m.pools => p = m.pools[c] BY DEF PoolOf
<1>4. /\ w.heap = m.heap \cup {r}
      /\ w.pools = [x \in DOMAIN m.pools \cup {c} |-> IF x = c THEN a.pool ELSE m.pools[x]]
  BY DEF Alloc, Record, amqp_pool_alloc
<1>5. r.channel = c /\ r.block = a.block /\ r.for = i OBVIOUS
<1> HIDE DEF p, r, w
<1>6. /\ PoolOK(a.pool) /\ InPool(a.pool, a.block)
      /\ \A b : InPool(p, b) => InPool(a.pool, b) /\ ~Overlap(a.block, b) /\ ~Overlap(b, a.block)
  BY <1>1, <1>2, PoolAlloc
<1> HIDE DEF a
<1>7. /\ DOMAIN w.pools = DOMAIN m.pools \cup {c}
      /\ w.pools[c] = a.pool
      /\ \A x \in DOMAIN m.pools : x # c => w.pools[x] = m.pools[x]
  BY <1>4
<1>8. DOMAIN w.pools \subseteq Channels /\ \A x \in DOMAIN w.pools : PoolOK(w.pools[x])
  BY <1>6, <1>7 DEF MemOK
<1>9. \A z \in m.heap : z.channel = c => InPool(p, z.block)
  BY <1>3 DEF MemOK
<1>10. \A z \in w.heap : z.channel \in DOMAIN w.pools /\ InPool(w.pools[z.channel], z.block)
  BY <1>4, <1>5, <1>6, <1>7, <1>9 DEF MemOK
<1>11. \A z, y \in w.heap : z # y /\ z.channel = y.channel => ~Overlap(z.block, y.block)
  BY <1>4, <1>5, <1>6, <1>9 DEF MemOK
<1>12. MemOK(w) BY <1>8, <1>10, <1>11 DEF MemOK
<1>13. r \in w.heap /\ m.heap \subseteq w.heap BY <1>4
<1> QED BY <1>5, <1>12, <1>13 DEF w

\* Recycling: the memory stays in order, and only blocks of channels without queued
\* frames are lost.
LEMMA MemRecycled ==
  ASSUME NEW m, MemOK(m), NEW cs
  PROVE  /\ MemOK(Recycled(m, cs))
         /\ Recycled(m, cs).heap = {a \in m.heap : ~(a.channel \in cs /\ Releasable(a.channel))}
<1> DEFINE w == Recycled(m, cs)
<1>1. /\ w.heap = {a \in m.heap : ~(a.channel \in cs /\ Releasable(a.channel))}
      /\ w.pools = [c \in DOMAIN m.pools |-> IF c \in cs /\ Releasable(c)
                       THEN recycle_amqp_pool(m.pools[c]) ELSE m.pools[c]]
  BY DEF Recycled
<1> HIDE DEF w
<1>2. \A c \in DOMAIN m.pools : PoolOK(w.pools[c])
  BY <1>1, RecycledPool DEF MemOK
<1>3. \A a \in w.heap : a \in m.heap /\ w.pools[a.channel] = m.pools[a.channel]
  BY <1>1 DEF MemOK
<1>4. MemOK(w) BY <1>1, <1>2, <1>3 DEF MemOK
<1> QED BY <1>1, <1>4 DEF w

-----------------------------------------------------------------------------
(* Reading: the invariant.                                                  *)

SentFrames == Frames \cup EarlyFrames \cup {Method(x) : x \in Replies} \cup {ProtocolHeader}
ByteType == Nat \X Nat

TypeInv ==
    /\ phase \in {"start", "tune", "open", "ready", "wait", "close", "closed", "failed"}
    /\ asked \in {"header", "startOk", "open", "close", "none"}
    /\ state \in {"INITIAL", "IDLE", "HEADER", "BODY"}
    /\ sent \in Seq(SentFrames)
    /\ buffer \in Seq(ByteType) /\ unread \in Seq(ByteType) /\ inbound_buffer \in Seq(ByteType)
    /\ decoded \in Seq(Nat) /\ given \in Seq(Nat) /\ queued \in Seq(Nat)
    /\ inbound_offset \in Nat /\ target_size \in Nat /\ frame_max \in Nat
    /\ held \subseteq Nat

\* The server first answers the header, and only that answer may be a protocol header.
ServerInv ==
    /\ sent = <<>> <=> asked = "header"
    /\ asked = "header" \/ state = "INITIAL" => phase \in {"start", "failed"}
    /\ sent # <<>> => sent[1] \in {Method("start"), ProtocolHeader}
    /\ \A j \in 2..Len(sent) : sent[j].type # "protocol"

\* The frame that is being read, or the next one.
Next1 == Len(decoded) + 1

\* What has been read, by state: the first frame's eight bytes, or seven of another.
StateInv ==
    /\ Len(decoded) <= Len(sent)
    /\ \A j \in DOMAIN decoded : decoded[j] = j
    /\ inbound_offset > 0 => Len(decoded) < Len(sent)
    /\ \A k \in 1..inbound_offset : inbound_buffer[k] = Byte(sent[Next1], Next1, k)
    /\ state = "INITIAL" =>
          /\ decoded = <<>> /\ pools = <<>>
          /\ target_size = 8 /\ Len(inbound_buffer) = 8 /\ inbound_offset <= 8
    /\ state \in {"IDLE", "HEADER"} =>
          /\ decoded # <<>>
          /\ target_size = 7 /\ Len(inbound_buffer) = 8 /\ inbound_offset <= 7
    /\ state = "IDLE" => inbound_offset = 0
    /\ state = "BODY" =>
          /\ target_size = Total(sent[Next1]) /\ Len(inbound_buffer) = target_size
          /\ 7 <= inbound_offset /\ inbound_offset <= target_size

\* The frames from n on follow one another in the bytes bs: frame j begins behind
\* byte s[j], and the first off bytes of frame n have been taken away.
Layout(s, n, off, fs, bs) ==
    /\ s[n] = 0 - off
    /\ s[Len(fs) + 1] = Len(bs)
    /\ \A j \in n..Len(fs) :
          /\ s[j + 1] = s[j] + Total(fs[j]) /\ s[j + 1] <= Len(bs)
          /\ \A k \in 1..Total(fs[j]) : s[j] + k > 0 => bs[s[j] + k] = Byte(fs[j], j, k)

LayoutInv ==
    \E s \in [Nat -> Int] : Layout(s, Next1, inbound_offset, sent, buffer \o unread)

ReadInv == TypeInv /\ ServerInv /\ StateInv /\ LayoutInv

-----------------------------------------------------------------------------
(* Frames and their bytes.                                                  *)

\* What the server sends is a frame of at least eight bytes.
LEMMA FrameFacts ==
  ASSUME NEW f \in SentFrames
  PROVE  /\ f.size \in Nat /\ Total(f) \in Nat /\ Total(f) >= 8 /\ Total(f) = f.size + 8
         /\ f.type \in FrameTypes /\ f.channel \in Channels
         /\ f.type = "protocol" => f = ProtocolHeader
<1>1. CASE f \in Frames \cup EarlyFrames
  BY <1>1, FramesAssumption DEF Total, HEADER_SIZE, FOOTER_SIZE, Channels, FrameTypes
<1>2. CASE f \in {Method(x) : x \in Replies}
  BY <1>2 DEF Method, Replies, Total, HEADER_SIZE, FOOTER_SIZE, Channels, FrameTypes
<1>3. CASE f = ProtocolHeader
  BY <1>3 DEF ProtocolHeader, Total, HEADER_SIZE, FOOTER_SIZE, Channels, FrameTypes
<1> QED BY <1>1, <1>2, <1>3 DEF SentFrames

\* The bytes of a frame are as many as its size says.
LEMMA BytesSeq ==
  ASSUME NEW f \in SentFrames, NEW i \in Nat
  PROVE  /\ Bytes(f, i) \in Seq(ByteType) /\ Len(Bytes(f, i)) = Total(f)
         /\ \A k \in 1..Total(f) : Bytes(f, i)[k] = Byte(f, i, k)
         /\ Byte(f, i, 1) = <<i, 1>>
<1>1. Total(f) \in Nat BY FrameFacts
<1>2. \A k \in 1..Total(f) : Byte(f, i, k) \in ByteType
  BY <1>1 DEF Byte, Zero, ByteType
<1>3. Bytes(f, i) = [k \in 1..Total(f) |-> Byte(f, i, k)] BY DEF Bytes
<1>4. Bytes(f, i) \in [1..Total(f) -> ByteType]
  BY <1>2, <1>3
<1>5. Bytes(f, i) \in Seq(ByteType) BY <1>1, <1>4, SeqDef
<1>6. Len(Bytes(f, i)) = Total(f)
  <2>1. DOMAIN Bytes(f, i) = 1..Total(f) BY <1>3
  <2> QED BY <1>1, <1>5, <2>1, LenProperties
<1>7. Byte(f, i, 1) = <<i, 1>> BY DEF Byte, HEADER_SIZE
<1> QED BY <1>3, <1>5, <1>6, <1>7

\* The header buffer is a sequence of eight bytes.
LEMMA HeaderSeq == Header \in Seq(ByteType) /\ Len(Header) = 8
<1>1. Header \in [1..8 -> ByteType]
  BY DEF Header, HEADER_SIZE, Dirt, ByteType
<1>2. Header \in Seq(ByteType) BY <1>1, SeqDef
<1> QED BY <1>1, <1>2, LenProperties

\* What is left of the bytes when the first n are taken away.
LEMMA Dropped ==
  ASSUME NEW S, NEW s \in Seq(S), NEW n \in Nat, n <= Len(s)
  PROVE  /\ SubSeq(s, 1, n) \in Seq(S) /\ Len(SubSeq(s, 1, n)) = n
         /\ \A m \in 1..n : SubSeq(s, 1, n)[m] = s[m]
         /\ SubSeq(s, n + 1, Len(s)) \in Seq(S) /\ Len(SubSeq(s, n + 1, Len(s))) = Len(s) - n
         /\ \A m \in 1..(Len(s) - n) : SubSeq(s, n + 1, Len(s))[m] = s[n + m]
<1> DEFINE l == Len(s)
           x == SubSeq(s, 1, n)
           y == SubSeq(s, n + 1, l)
<1>1. l \in Nat /\ \A m \in 1..l : s[m] \in S OBVIOUS
<1>2. n <= l OBVIOUS
<1> HIDE DEF l
<1>3. (\A m \in 1..n : s[m] \in S) /\ (\A m \in (n + 1)..l : s[m] \in S) BY <1>1, <1>2
<1>4. /\ x \in Seq(S) /\ Len(x) = (IF 1 <= n THEN n - 1 + 1 ELSE 0)
      /\ \A m \in 1..(n - 1 + 1) : x[m] = s[1 + m - 1]
  BY <1>3, SubSeqProperties
<1>5. /\ y \in Seq(S) /\ Len(y) = (IF n + 1 <= l THEN l - (n + 1) + 1 ELSE 0)
      /\ \A m \in 1..(l - (n + 1) + 1) : y[m] = s[n + 1 + m - 1]
  BY <1>1, <1>3, SubSeqProperties
<1> HIDE DEF x, y
<1>6. Len(x) = n /\ Len(y) = l - n BY <1>1, <1>2, <1>4, <1>5
<1>7. \A m \in 1..n : x[m] = s[m]
  <2> TAKE m \in 1..n
  <2>1. m \in 1..(n - 1 + 1) /\ 1 + m - 1 = m OBVIOUS
  <2> QED BY <1>4, <2>1
<1>8. \A m \in 1..(l - n) : y[m] = s[n + m]
  <2> TAKE m \in 1..(l - n)
  <2>1. m \in 1..(l - (n + 1) + 1) /\ n + 1 + m - 1 = n + m BY <1>1
  <2> QED BY <1>5, <2>1
<1> QED BY <1>4, <1>5, <1>6, <1>7, <1>8 DEF x, y, l

-----------------------------------------------------------------------------
(* Reading: every step keeps the invariant.                                 *)

\* amqp_new_connection
LEMMA ReadInit == Init => ReadInv
<1> SUFFICES ASSUME Init PROVE ReadInv OBVIOUS
<1>1. TypeInv
  <2>1. inbound_buffer \in Seq(ByteType) BY HeaderSeq DEF Init
  <2>2. /\ sent \in Seq(SentFrames) /\ buffer \in Seq(ByteType) /\ unread \in Seq(ByteType)
        /\ decoded \in Seq(Nat) /\ given \in Seq(Nat) /\ queued \in Seq(Nat)
    BY DEF Init
  <2>3. inbound_offset \in Nat /\ target_size \in Nat /\ frame_max \in Nat /\ held \subseteq Nat
    BY FramesAssumption DEF Init, HEADER_SIZE
  <2> QED BY <2>1, <2>2, <2>3 DEF Init, TypeInv
<1>2. ServerInv BY DEF Init, ServerInv
<1>3. StateInv BY HeaderSeq DEF Init, StateInv, HEADER_SIZE
<1>4. LayoutInv
  <2> DEFINE s == [j \in Nat |-> 0]
  <2>1. s \in [Nat -> Int] OBVIOUS
  <2>2. sent = <<>> /\ buffer \o unread = <<>> /\ Next1 = 1 /\ inbound_offset = 0
    BY DEF Init, Next1
  <2>3. Layout(s, 1, 0, <<>>, <<>>) BY DEF Layout
  <2> QED BY <2>1, <2>2, <2>3 DEF LayoutInv
<1> QED BY <1>1, <1>2, <1>3, <1>4 DEF ReadInv

\* When a header has been read it is that of the next frame.
LEMMA NumberIs ==
  ASSUME ReadInv, inbound_offset > 0
  PROVE  /\ Number = Next1 /\ Next1 \in 1..Len(sent) /\ Next1 \in Nat
         /\ Incoming = sent[Next1] /\ Incoming \in SentFrames
         /\ sent # <<>>
<1>1. /\ decoded \in Seq(Nat) /\ sent \in Seq(SentFrames) /\ inbound_offset \in Nat
      /\ Len(decoded) < Len(sent)
      /\ inbound_buffer[1] = Byte(sent[Next1], Next1, 1)
  BY DEF ReadInv, TypeInv, StateInv
<1>2. Next1 \in 1..Len(sent) /\ Next1 \in Nat BY <1>1 DEF Next1
<1>3. sent[Next1] \in SentFrames BY <1>1, <1>2
<1>4. Number = Next1 BY <1>1, <1>2, <1>3, BytesSeq DEF Number
<1> QED BY <1>2, <1>3, <1>4, <1>1 DEF Incoming

\* A complete frame is decoded as it was sent.
LEMMA DecodedIs ==
  ASSUME ReadInv, FrameRead
  PROVE  Decoded = Next1 /\ Number = Next1 /\ inbound_offset = Total(sent[Next1]) /\ inbound_offset > 0
<1>1. state = "BODY" /\ inbound_offset = target_size BY DEF FrameRead
<1>2. /\ target_size = Total(sent[Next1]) /\ Len(inbound_buffer) = target_size
      /\ inbound_offset > 0 /\ inbound_offset \in Nat
      /\ \A k \in 1..inbound_offset : inbound_buffer[k] = Byte(sent[Next1], Next1, k)
      /\ inbound_buffer \in Seq(ByteType)
  BY <1>1 DEF ReadInv, StateInv, TypeInv
<1>3. /\ Number = Next1 /\ Incoming = sent[Next1] /\ Incoming \in SentFrames /\ Next1 \in Nat
  BY <1>2, NumberIs
<1>4. /\ Bytes(Incoming, Number) \in Seq(ByteType)
      /\ Len(Bytes(Incoming, Number)) = Total(sent[Next1])
      /\ \A k \in 1..Total(sent[Next1]) : Bytes(Incoming, Number)[k] = Byte(sent[Next1], Next1, k)
  BY <1>3, BytesSeq
<1>5. inbound_buffer = Bytes(Incoming, Number)
  BY <1>1, <1>2, <1>4, SeqEqual
<1> QED BY <1>1, <1>2, <1>3, <1>5 DEF Decoded

\* One more frame is put behind the others.
LEMMA LayoutExtends ==
  ASSUME NEW fs \in Seq(SentFrames), NEW bs \in Seq(ByteType), NEW f \in SentFrames,
         NEW n \in Nat, 1 <= n, n <= Len(fs) + 1, NEW of \in Nat,
         NEW s \in [Nat -> Int], Layout(s, n, of, fs, bs)
  PROVE  \E t \in [Nat -> Int] :
            Layout(t, n, of, Append(fs, f), bs \o Bytes(f, Len(fs) + 1))
<1>1. PICK l \in Nat : l = Len(fs) OBVIOUS
<1>2. PICK e \in Nat : e = Len(bs) OBVIOUS
<1>3. PICK z \in Nat : z = Total(f) BY FrameFacts
<1>4. PICK b \in Seq(ByteType) : /\ b = Bytes(f, l + 1) /\ Len(b) = z
                                 /\ \A k \in 1..z : b[k] = Byte(f, l + 1, k)
  <2>1. l + 1 \in Nat OBVIOUS
  <2>2. /\ Bytes(f, l + 1) \in Seq(ByteType) /\ Len(Bytes(f, l + 1)) = Total(f)
        /\ \A k \in 1..Total(f) : Bytes(f, l + 1)[k] = Byte(f, l + 1, k)
    BY <2>1, BytesSeq
  <2> QED BY <1>3, <2>2
<1>5. PICK gs \in Seq(SentFrames) : /\ gs = Append(fs, f) /\ Len(gs) = l + 1 /\ gs[l + 1] = f
                                    /\ \A j \in 1..l : gs[j] = fs[j]
  <2>1. /\ Append(fs, f) \in Seq(SentFrames) /\ Len(Append(fs, f)) = Len(fs) + 1
        /\ Append(fs, f)[Len(fs) + 1] = f
        /\ \A j \in 1..Len(fs) : Append(fs, f)[j] = fs[j]
    BY AppendProperties
  <2> QED BY <1>1, <2>1
<1>6. PICK cs \in Seq(ByteType) :
         /\ cs = bs \o b /\ Len(cs) = e + z
         /\ \A m \in 1..(e + z) : cs[m] = IF m <= e THEN bs[m] ELSE b[m - e]
  <2>1. /\ bs \o b \in Seq(ByteType) /\ Len(bs \o b) = Len(bs) + Len(b)
        /\ \A m \in 1..(Len(bs) + Len(b)) : (bs \o b)[m] = IF m <= Len(bs) THEN bs[m] ELSE b[m - Len(bs)]
    BY <1>4, ConcatProperties
  <2> QED BY <1>2, <1>4, <2>1
<1>7. PICK t \in [Nat -> Int] : t[l + 2] = e + z /\ \A j \in Nat : j # l + 2 => t[j] = s[j]
  <2> DEFINE t == [s EXCEPT ![l + 2] = e + z]
  <2>1. t \in [Nat -> Int] /\ t[l + 2] = e + z /\ \A j \in Nat : j # l + 2 => t[j] = s[j]
    OBVIOUS
  <2> QED BY <2>1
<1>8. /\ s[n] = 0 - of /\ s[l + 1] = e
      /\ \A j \in n..l :
            /\ s[j + 1] = s[j] + Total(fs[j]) /\ s[j + 1] <= e
            /\ \A k \in 1..Total(fs[j]) : s[j] + k > 0 => bs[s[j] + k] = Byte(fs[j], j, k)
  BY <1>1, <1>2 DEF Layout
<1>9. n <= l + 1 BY <1>1
<1>10. /\ t[n] = 0 - of /\ t[l + 1] = e /\ t[l + 2] = e + z
  BY <1>7, <1>8, <1>9
<1>11. ASSUME NEW j \in n..l
       PROVE  /\ t[j + 1] = t[j] + Total(gs[j]) /\ t[j + 1] <= e + z
              /\ \A k \in 1..Total(gs[j]) : t[j] + k > 0 => cs[t[j] + k] = Byte(gs[j], j, k)
  <2>1. j \in 1..l /\ j \in Nat /\ j + 1 \in Nat /\ j # l + 2 /\ j + 1 # l + 2 OBVIOUS
  <2>2. t[j] = s[j] /\ t[j + 1] = s[j + 1] /\ gs[j] = fs[j] BY <1>5, <1>7, <2>1
  <2>3. fs[j] \in SentFrames BY <1>1, <2>1
  <2>4. PICK w \in Nat : w = Total(fs[j]) BY <2>3, FrameFacts
  <2>5. PICK x \in Int : x = s[j] BY <2>1
  <2>6. s[j + 1] = x + w /\ x + w <= e BY <1>8, <2>4, <2>5
  <2>7. ASSUME NEW k \in 1..w, x + k > 0 PROVE cs[x + k] = Byte(fs[j], j, k)
    <3>1. x + k \in 1..(e + z) /\ x + k <= e BY <2>6, <2>7
    <3>2. cs[x + k] = bs[x + k] BY <1>6, <3>1
    <3> QED BY <1>8, <2>4, <2>5, <2>7, <3>2
  <2>8. x + w <= e + z BY <2>6
  <2> QED BY <2>2, <2>4, <2>5, <2>6, <2>7, <2>8
<1>12. /\ t[l + 2] = t[l + 1] + Total(gs[l + 1]) /\ t[l + 2] <= e + z
       /\ \A k \in 1..Total(gs[l + 1]) : cs[t[l + 1] + k] = Byte(gs[l + 1], l + 1, k)
  <2>1. \A k \in 1..z : cs[e + k] = Byte(f, l + 1, k)
    <3> TAKE k \in 1..z
    <3>0. k \in Nat /\ e \in Nat /\ z \in Nat /\ 1 <= k /\ k <= z OBVIOUS
    <3>1. e + k \in 1..(e + z) /\ ~(e + k <= e) /\ e + k - e = k BY <3>0
    <3>2. PICK m : m = e + k OBVIOUS
    <3>3. m \in 1..(e + z) /\ ~(m <= e) /\ m - e = k BY <3>1, <3>2
    <3>4. cs[m] = b[m - e] BY <1>6, <3>3
    <3> QED BY <1>4, <3>2, <3>3, <3>4
  <2> QED BY <1>3, <1>5, <1>10, <2>1
<1>13. \A j \in n..(l + 1) : j \in n..l \/ j = l + 1 OBVIOUS
<1>14. l + 1 + 1 = l + 2 OBVIOUS
<1>15. Layout(t, n, of, gs, cs)
  BY <1>5, <1>6, <1>10, <1>11, <1>12, <1>13, <1>14 DEF Layout
<1> QED BY <1>1, <1>4, <1>5, <1>6, <1>15

\* The first d bytes are taken away.
LEMMA LayoutShifts ==
  ASSUME NEW fs \in Seq(SentFrames), NEW bs \in Seq(ByteType), NEW cs \in Seq(ByteType),
         NEW n \in Nat, 1 <= n, n <= Len(fs) + 1, NEW of \in Nat, NEW d \in Nat,
         NEW s \in [Nat -> Int], Layout(s, n, of, fs, bs),
         Len(bs) = Len(cs) + d, \A m \in 1..Len(cs) : cs[m] = bs[m + d]
  PROVE  \E t \in [Nat -> Int] : Layout(t, n, of + d, fs, cs)
<1>1. PICK l \in Nat : l = Len(fs) OBVIOUS
<1>2. PICK e \in Nat : e = Len(cs) OBVIOUS
<1> DEFINE t == [j \in Nat |-> s[j] - d]
<1>3. t \in [Nat -> Int] /\ \A j \in Nat : t[j] = s[j] - d BY SMTT(20)
<1> HIDE DEF t
<1>4. /\ s[n] = 0 - of /\ s[l + 1] = e + d
      /\ \A j \in n..l :
            /\ s[j + 1] = s[j] + Total(fs[j]) /\ s[j + 1] <= e + d
            /\ \A k \in 1..Total(fs[j]) : s[j] + k > 0 => bs[s[j] + k] = Byte(fs[j], j, k)
  BY <1>1, <1>2 DEF Layout
<1>5. t[n] = 0 - (of + d) /\ t[l + 1] = e
  <2>1. t[n] = s[n] - d /\ t[l + 1] = s[l + 1] - d BY <1>3
  <2>2. s[n] = 0 - of /\ s[l + 1] = e + d BY <1>4
  <2>3. 0 - of - d = 0 - (of + d) /\ e + d - d = e OBVIOUS
  <2> QED BY <2>1, <2>2, <2>3
<1>6. ASSUME NEW j \in n..l
      PROVE  /\ t[j + 1] = t[j] + Total(fs[j]) /\ t[j + 1] <= e
             /\ \A k \in 1..Total(fs[j]) : t[j] + k > 0 => cs[t[j] + k] = Byte(fs[j], j, k)
  <2>1. j \in 1..l /\ j \in Nat /\ j + 1 \in Nat OBVIOUS
  <2>2. fs[j] \in SentFrames BY <1>1, <2>1
  <2>3. PICK w \in Nat : w = Total(fs[j]) BY <2>2, FrameFacts
  <2>4. PICK x \in Int : x = s[j] BY <2>1
  <2>5. s[j + 1] = x + w /\ x + w <= e + d BY <1>4, <2>3, <2>4
  <2>6. t[j] = x - d /\ t[j + 1] = x + w - d BY <1>3, <2>1, <2>4, <2>5
  <2>7. ASSUME NEW k \in 1..w, x - d + k > 0 PROVE cs[x - d + k] = Byte(fs[j], j, k)
    <3>1. x - d + k \in 1..e /\ x - d + k + d = x + k /\ x + k > 0 BY <2>5, <2>7
    <3>2. cs[x - d + k] = bs[x + k] BY <1>2, <3>1
    <3> QED BY <1>4, <2>3, <2>4, <2>7, <3>1, <3>2
  <2>8. x + w - d <= e /\ x + w - d = x - d + w BY <2>5
  <2> QED BY <2>3, <2>6, <2>7, <2>8
<1>7. Layout(t, n, of + d, fs, cs)
  BY <1>1, <1>2, <1>5, <1>6 DEF Layout
<1> QED BY <1>3, <1>7

\* Nothing is read in this step.
LEMMA QuietStep ==
  ASSUME ReadInv, UNCHANGED <<state, target_size, inbound_offset, inbound_buffer, buffer, sent,
                              unread, decoded>>,
         state = "INITIAL" => pools' = pools
  PROVE  StateInv' /\ LayoutInv'
<1>1. StateInv' BY DEF ReadInv, StateInv, Next1
<1>2. LayoutInv' BY DEF ReadInv, LayoutInv, Next1
<1> QED BY <1>1, <1>2

\* The server sends a frame.
LEMMA SendStep ==
  ASSUME ReadInv, NEW f \in SentFrames, Send(f),
         UNCHANGED <<state, target_size, inbound_offset, inbound_buffer, buffer, decoded, pools>>
  PROVE  /\ sent' \in Seq(SentFrames) /\ unread' \in Seq(ByteType)
         /\ Len(sent') = Len(sent) + 1 /\ sent'[Len(sent) + 1] = f
         /\ \A j \in 1..Len(sent) : sent'[j] = sent[j]
         /\ StateInv' /\ LayoutInv'
<1>1. /\ sent \in Seq(SentFrames) /\ unread \in Seq(ByteType) /\ buffer \in Seq(ByteType)
      /\ decoded \in Seq(Nat) /\ inbound_offset \in Nat /\ Len(sent) \in Nat
      /\ Len(decoded) \in Nat /\ Len(decoded) <= Len(sent)
  BY DEF ReadInv, TypeInv, StateInv
<1>2. sent' = Append(sent, f) /\ unread' = unread \o Bytes(f, Len(sent) + 1) BY DEF Send
<1>3. /\ sent' \in Seq(SentFrames) /\ Len(sent') = Len(sent) + 1 /\ sent'[Len(sent) + 1] = f
      /\ \A j \in 1..Len(sent) : sent'[j] = sent[j]
  BY <1>1, <1>2, AppendProperties
<1>4. Bytes(f, Len(sent) + 1) \in Seq(ByteType)
  <2>1. Len(sent) + 1 \in Nat BY <1>1
  <2> QED BY <2>1, BytesSeq
<1>5. /\ unread' \in Seq(ByteType) /\ buffer \o unread \in Seq(ByteType)
      /\ buffer' \o unread' = (buffer \o unread) \o Bytes(f, Len(sent) + 1)
  <2>1. unread' \in Seq(ByteType) BY <1>1, <1>2, <1>4, ConcatProperties
  <2>2. buffer \o unread \in Seq(ByteType) BY <1>1, ConcatProperties
  <2>3. PICK b \in Seq(ByteType) : b = Bytes(f, Len(sent) + 1) BY <1>4
  <2>4. (buffer \o unread) \o b = buffer \o (unread \o b) BY <1>1, ConcatAssociative, SMTT(20)
  <2> QED BY <1>2, <2>1, <2>2, <2>3, <2>4
<1>6. StateInv'
  <2>1. Next1' = Next1 /\ (inbound_offset > 0 => Next1 \in 1..Len(sent))
    BY <1>1 DEF Next1, ReadInv, StateInv
  <2>2. inbound_offset > 0 => sent'[Next1] = sent[Next1] BY <1>3, <2>1
  <2>3. state = "BODY" => inbound_offset > 0 BY <1>1 DEF ReadInv, StateInv
  <2>4. Len(decoded) <= Len(sent') /\ (inbound_offset > 0 => Len(decoded) < Len(sent'))
    BY <1>1, <1>3 DEF ReadInv, StateInv
  <2>5. \A k \in 1..inbound_offset : inbound_buffer[k] = Byte(sent'[Next1], Next1, k)
    <3> TAKE k \in 1..inbound_offset
    <3>1. inbound_offset > 0 BY <1>1
    <3> QED BY <2>2, <3>1 DEF ReadInv, StateInv
  <2>6. state = "BODY" => target_size = Total(sent'[Next1])
    BY <2>2, <2>3 DEF ReadInv, StateInv
  <2> QED BY <2>1, <2>4, <2>5, <2>6 DEF ReadInv, StateInv
<1>7. LayoutInv'
  <2>1. Next1 \in Nat /\ 1 <= Next1 /\ Next1 <= Len(sent) + 1 /\ Next1' = Next1
    BY <1>1 DEF Next1
  <2>2. PICK s \in [Nat -> Int] : Layout(s, Next1, inbound_offset, sent, buffer \o unread)
    BY DEF ReadInv, LayoutInv
  <2>3. \E t \in [Nat -> Int] :
           Layout(t, Next1, inbound_offset, Append(sent, f),
                  (buffer \o unread) \o Bytes(f, Len(sent) + 1))
    BY <1>1, <1>5, <2>1, <2>2, LayoutExtends
  <2> QED BY <1>2, <1>5, <2>1, <2>3 DEF LayoutInv
<1> QED BY <1>3, <1>5, <1>6, <1>7

\* recv hands over the next bytes: nothing changes for the sequence of both.
LEMMA RecvStep ==
  ASSUME ReadInv, Recv
  PROVE  buffer' \in Seq(ByteType) /\ unread' \in Seq(ByteType) /\ StateInv' /\ LayoutInv'
<1>1. PICK n \in RecvSizes : /\ n <= Len(unread) /\ buffer' = SubSeq(unread, 1, n)
                             /\ unread' = SubSeq(unread, n + 1, Len(unread))
  BY DEF Recv
<1>2. n \in Nat /\ unread \in Seq(ByteType) /\ buffer = <<>>
  BY FramesAssumption DEF Recv, ReadInv, TypeInv
<1> DEFINE x == SubSeq(unread, 1, n)
           y == SubSeq(unread, n + 1, Len(unread))
           l == Len(unread)
<1>3. /\ x \in Seq(ByteType) /\ Len(x) = n /\ y \in Seq(ByteType) /\ Len(y) = l - n
      /\ \A m \in 1..n : x[m] = unread[m]
      /\ \A m \in 1..(l - n) : y[m] = unread[n + m]
  BY <1>1, <1>2, Dropped
<1>4. l \in Nat /\ n <= l BY <1>1, <1>2
<1> HIDE DEF x, y, l
<1>5. /\ x \o y \in Seq(ByteType) /\ Len(x \o y) = n + (l - n)
      /\ \A m \in 1..(n + (l - n)) : (x \o y)[m] = IF m <= n THEN x[m] ELSE y[m - n]
  <2>1. /\ x \o y \in Seq(ByteType) /\ Len(x \o y) = Len(x) + Len(y)
        /\ \A m \in 1..(Len(x) + Len(y)) : (x \o y)[m] = IF m <= Len(x) THEN x[m] ELSE y[m - Len(x)]
    BY <1>3, ConcatProperties
  <2> QED BY <1>3, <2>1
<1>6. \A m \in 1..l : (x \o y)[m] = unread[m]
  <2> TAKE m \in 1..l
  <2>1. m \in 1..(n + (l - n)) BY <1>2, <1>4
  <2>2. CASE m <= n
    <3>1. m \in 1..n BY <1>2, <2>2
    <3> QED BY <1>3, <1>5, <2>1, <2>2, <3>1
  <2>3. CASE ~(m <= n)
    <3>1. PICK k : k = m - n OBVIOUS
    <3>2. k \in 1..(l - n) /\ n + k = m BY <1>2, <1>4, <2>3, <3>1
    <3>3. (x \o y)[m] = y[k] BY <1>5, <2>1, <2>3, <3>1
    <3> QED BY <1>3, <3>2, <3>3
  <2> QED BY <2>2, <2>3
<1>7. n + (l - n) = l BY <1>2, <1>4
<1>8. x \o y = unread BY <1>2, <1>5, <1>6, <1>7, SeqEqual DEF l
<1>9. buffer \o unread = unread BY <1>2, ConcatEmptySeq
<1>10. buffer' \o unread' = buffer \o unread BY <1>1, <1>8, <1>9 DEF x, y, l
<1>11. StateInv' BY DEF ReadInv, StateInv, Next1, Recv, inVars, memVars
<1>12. LayoutInv' BY <1>10 DEF ReadInv, LayoutInv, Next1, Recv, inVars, memVars
<1> QED BY <1>1, <1>3, <1>11, <1>12 DEF x, y, l

\* What the invariant says of the bytes that have not been looked at: they continue
\* the frame that is being read.
LEMMA BufferBytes ==
  ASSUME ReadInv, buffer # <<>>
  PROVE  /\ Len(decoded) < Len(sent) /\ sent[Next1] \in SentFrames
         /\ \A m \in 1..Len(buffer) :
               inbound_offset + m <= Total(sent[Next1])
                 => buffer[m] = Byte(sent[Next1], Next1, inbound_offset + m)
<1>1. /\ sent \in Seq(SentFrames) /\ buffer \in Seq(ByteType) /\ unread \in Seq(ByteType)
      /\ decoded \in Seq(Nat) /\ inbound_offset \in Nat /\ Len(decoded) <= Len(sent)
      /\ (inbound_offset > 0 => Len(decoded) < Len(sent))
  BY DEF ReadInv, TypeInv, StateInv
<1>2. PICK s \in [Nat -> Int] : Layout(s, Next1, inbound_offset, sent, buffer \o unread)
  BY DEF ReadInv, LayoutInv
<1>3. PICK bs : bs = buffer \o unread OBVIOUS
<1>4. /\ Len(bs) = Len(buffer) + Len(unread)
      /\ \A m \in 1..(Len(buffer) + Len(unread)) :
            bs[m] = IF m <= Len(buffer) THEN buffer[m] ELSE unread[m - Len(buffer)]
  BY <1>1, <1>3, ConcatProperties
<1>5. Len(buffer) > 0 /\ Len(buffer) \in Nat /\ Len(unread) \in Nat BY <1>1, EmptySeq
<1>6. Len(decoded) < Len(sent)
  <2> SUFFICES ASSUME Len(decoded) = Len(sent) PROVE FALSE BY <1>1
  <2>1. Next1 = Len(sent) + 1 /\ inbound_offset = 0 BY <1>1 DEF Next1
  <2>2. s[Next1] = 0 - inbound_offset /\ s[Len(sent) + 1] = Len(bs)
    BY <1>2, <1>3 DEF Layout
  <2> QED BY <1>4, <1>5, <2>1, <2>2
<1>7. Next1 \in Next1..Len(sent) /\ Next1 \in 1..Len(sent) BY <1>1, <1>6 DEF Next1
<1>8. sent[Next1] \in SentFrames BY <1>1, <1>7
<1>9. PICK w \in Nat : w = Total(sent[Next1]) BY <1>8, FrameFacts
<1>10. /\ s[Next1] = 0 - inbound_offset
       /\ \A k \in 1..w : s[Next1] + k > 0 => bs[s[Next1] + k] = Byte(sent[Next1], Next1, k)
  BY <1>2, <1>3, <1>7, <1>9 DEF Layout
<1>11. ASSUME NEW m \in 1..Len(buffer), inbound_offset + m <= w
       PROVE  buffer[m] = Byte(sent[Next1], Next1, inbound_offset + m)
  <2>1. PICK k : k = inbound_offset + m OBVIOUS
  <2>2. k \in 1..w /\ s[Next1] + k = m /\ m > 0 BY <1>1, <1>5, <1>10, <1>11, <2>1
  <2>3. bs[m] = Byte(sent[Next1], Next1, k) BY <1>10, <2>2
  <2>4. m \in 1..(Len(buffer) + Len(unread)) /\ m <= Len(buffer) BY <1>5
  <2>5. bs[m] = buffer[m] BY <1>4, <2>4
  <2> QED BY <2>1, <2>3, <2>5
<1> QED BY <1>6, <1>8, <1>9, <1>11

\* consume_data takes as much as is available and fits.
LEMMA ConsumedIs ==
  ASSUME ReadInv, ConsumeData
  PROVE  /\ Consumed \in Nat /\ Consumed <= Len(buffer) /\ inbound_offset + Consumed <= target_size
         /\ target_size <= Len(inbound_buffer)
         /\ target_size <= Total(sent[Next1])
         /\ Total(sent[Next1]) \in Nat /\ Len(inbound_buffer) \in Nat /\ Len(buffer) \in Nat
<1>1. /\ inbound_offset \in Nat /\ target_size \in Nat /\ buffer \in Seq(ByteType)
      /\ inbound_buffer \in Seq(ByteType) /\ buffer # <<>> /\ inbound_offset < target_size
  BY DEF ReadInv, TypeInv, ConsumeData
<1>2. PICK l \in Nat : l = Len(buffer) BY <1>1
<1>3. PICK r \in Nat : r = target_size - inbound_offset BY <1>1
<1>4. Consumed = IF l < r THEN l ELSE r BY <1>2, <1>3 DEF Consumed
<1>5. Consumed \in Nat /\ Consumed <= l /\ Consumed <= r BY <1>4
<1>6. inbound_offset + Consumed <= target_size BY <1>1, <1>3, <1>5
<1>7. sent[Next1] \in SentFrames BY <1>1, BufferBytes
<1>8. Total(sent[Next1]) \in Nat /\ Total(sent[Next1]) >= 8 BY <1>7, FrameFacts
<1>9. state \in {"INITIAL", "IDLE", "HEADER", "BODY"} BY DEF ReadInv, TypeInv
<1>10. target_size <= Len(inbound_buffer) /\ target_size <= Total(sent[Next1])
  <2>1. \/ target_size = 8 /\ Len(inbound_buffer) = 8
        \/ target_size = 7 /\ Len(inbound_buffer) = 8
        \/ target_size = Total(sent[Next1]) /\ Len(inbound_buffer) = target_size
    BY <1>9 DEF ReadInv, StateInv
  <2>2. PICK w \in Nat : w = Total(sent[Next1]) /\ w >= 8 BY <1>8
  <2>3. PICK m \in Nat : m = Len(inbound_buffer) BY <1>1
  <2>4. PICK z \in Nat : z = target_size BY <1>1
  <2>5. (z = 8 /\ m = 8) \/ (z = 7 /\ m = 8) \/ (z = w /\ m = z) BY <2>1, <2>2, <2>3, <2>4
  <2>6. z <= m /\ z <= w BY <2>2, <2>5
  <2> QED BY <2>2, <2>3, <2>4, <2>6
<1>11. Len(inbound_buffer) \in Nat BY <1>1
<1> QED BY <1>2, <1>5, <1>6, <1>8, <1>10, <1>11

\* The bytes that consume_data copies.
LEMMA ConsumeBytes ==
  ASSUME ReadInv, ConsumeData
  PROVE  /\ inbound_buffer' \in Seq(ByteType) /\ Len(inbound_buffer') = Len(inbound_buffer)
         /\ inbound_offset' \in Nat
         /\ \A k \in 1..inbound_offset' : inbound_buffer'[k] = Byte(sent[Next1], Next1, k)
<1>1. PICK d : d = Consumed OBVIOUS
<1>2. PICK of : of = inbound_offset OBVIOUS
<1>3. PICK l : l = Len(inbound_buffer) OBVIOUS
<1>4. /\ d \in Nat /\ of \in Nat /\ l \in Nat /\ of + d <= l /\ d <= Len(buffer)
      /\ of + d <= Total(sent[Next1]) /\ Total(sent[Next1]) \in Nat /\ Len(buffer) \in Nat
  <2>1. of \in Nat /\ target_size \in Nat BY <1>2 DEF ReadInv, TypeInv
  <2> QED BY <1>1, <1>2, <1>3, <2>1, ConsumedIs
<1>5. /\ inbound_buffer \in Seq(ByteType) /\ buffer \in Seq(ByteType) /\ buffer # <<>>
      /\ \A k \in 1..of : inbound_buffer[k] = Byte(sent[Next1], Next1, k)
  BY <1>2 DEF ReadInv, TypeInv, StateInv, ConsumeData
<1>6. DOMAIN inbound_buffer = 1..l BY <1>3, <1>5
<1>7. /\ inbound_buffer' = [k \in 1..l |-> IF k \in (of + 1)..(of + d) THEN buffer[k - of]
                                           ELSE inbound_buffer[k]]
      /\ inbound_offset' = of + d
  BY <1>1, <1>2, <1>6 DEF ConsumeData
<1>8. ASSUME NEW k \in 1..l
      PROVE  /\ inbound_buffer'[k] \in ByteType
             /\ k \in (of + 1)..(of + d) =>
                   k - of \in 1..Len(buffer) /\ inbound_buffer'[k] = buffer[k - of]
             /\ ~(k \in (of + 1)..(of + d)) => inbound_buffer'[k] = inbound_buffer[k]
  <2>1. /\ k \in (of + 1)..(of + d) => inbound_buffer'[k] = buffer[k - of]
        /\ ~(k \in (of + 1)..(of + d)) => inbound_buffer'[k] = inbound_buffer[k]
    BY <1>7
  <2>2. k \in (of + 1)..(of + d) => k - of \in 1..Len(buffer) BY <1>4
  <2>3. \A m \in 1..Len(buffer) : buffer[m] \in ByteType BY <1>5
  <2>4. inbound_buffer[k] \in ByteType BY <1>3, <1>5
  <2> QED BY <2>1, <2>2, <2>3, <2>4
<1>9. inbound_buffer' \in Seq(ByteType)
  <2>1. inbound_buffer' \in [1..l -> ByteType] BY <1>7, <1>8
  <2> QED BY <1>4, <2>1, SeqDef
<1>10. Len(inbound_buffer') = l
  <2>1. DOMAIN inbound_buffer' = 1..l BY <1>7
  <2> QED BY <1>4, <1>9, <2>1, LenProperties
<1>11. ASSUME NEW k \in 1..(of + d)
       PROVE  inbound_buffer'[k] = Byte(sent[Next1], Next1, k)
  <2>1. k \in 1..l BY <1>4
  <2>2. CASE k <= of
    <3>1. ~(k \in (of + 1)..(of + d)) /\ k \in 1..of BY <1>4, <2>2
    <3> QED BY <1>5, <1>8, <2>1, <3>1
  <2>3. CASE ~(k <= of)
    <3>1. k \in (of + 1)..(of + d) BY <1>4, <2>3
    <3>2. PICK m : m = k - of OBVIOUS
    <3>3. m \in 1..Len(buffer) /\ inbound_buffer'[k] = buffer[m] BY <1>8, <2>1, <3>1, <3>2
    <3>4. of + m = k /\ of + m <= Total(sent[Next1]) BY <1>4, <3>2
    <3>5. buffer[m] = Byte(sent[Next1], Next1, of + m)
      BY <1>2, <1>5, <3>3, <3>4, BufferBytes
    <3> QED BY <3>3, <3>4, <3>5
  <2> QED BY <2>2, <2>3
<1>12. inbound_offset' = of + d /\ of + d \in Nat BY <1>4, <1>7
<1> QED BY <1>3, <1>9, <1>10, <1>11, <1>12

\* consume_data, and what is left behind it.
LEMMA ConsumeStep ==
  ASSUME ReadInv, ConsumeData
  PROVE  buffer' \in Seq(ByteType) /\ StateInv' /\ LayoutInv'
<1>1. PICK d : d = Consumed OBVIOUS
<1>2. /\ d \in Nat /\ d <= Len(buffer) /\ inbound_offset + d <= target_size
      /\ target_size <= Len(inbound_buffer)
  BY <1>1, ConsumedIs
<1>3. /\ sent \in Seq(SentFrames) /\ decoded \in Seq(Nat) /\ buffer \in Seq(ByteType)
      /\ unread \in Seq(ByteType) /\ inbound_offset \in Nat /\ Len(decoded) <= Len(sent)
      /\ target_size \in Nat
  BY DEF ReadInv, TypeInv, StateInv
<1>4. /\ buffer' = SubSeq(buffer, d + 1, Len(buffer)) /\ inbound_offset' = inbound_offset + d
      /\ UNCHANGED <<unread, sent, decoded, target_size, pools>>
      /\ state' = IF state = "IDLE" THEN "HEADER" ELSE state
      /\ buffer # <<>>
  BY <1>1 DEF ConsumeData, netVars, memVars
<1>5. /\ buffer' \in Seq(ByteType) /\ Len(buffer') = Len(buffer) - d
      /\ \A m \in 1..(Len(buffer) - d) : buffer'[m] = buffer[d + m]
  BY <1>2, <1>3, <1>4, Dropped
<1>6. StateInv'
  <2>1. Next1' = Next1 BY <1>4 DEF Next1
  <2>2. /\ \A k \in 1..inbound_offset' : inbound_buffer'[k] = Byte(sent[Next1], Next1, k)
        /\ Len(inbound_buffer') = Len(inbound_buffer)
    BY ConsumeBytes
  <2>3. Len(decoded) < Len(sent) BY <1>4, BufferBytes
  <2>4. inbound_offset <= inbound_offset' /\ inbound_offset' <= target_size
    BY <1>2, <1>3, <1>4
  <2>5. state \in {"INITIAL", "IDLE", "HEADER", "BODY"} BY DEF ReadInv, TypeInv
  <2>6. /\ state' = "INITIAL" => state = "INITIAL"
        /\ state' \in {"IDLE", "HEADER"} => state \in {"IDLE", "HEADER"}
        /\ state' # "IDLE"
        /\ state' = "BODY" => state = "BODY"
    BY <1>4, <2>5
  <2>7. /\ \A j \in DOMAIN decoded : decoded[j] = j
        /\ state = "INITIAL" =>
              decoded = <<>> /\ pools = <<>> /\ target_size = 8 /\ Len(inbound_buffer) = 8
        /\ state \in {"IDLE", "HEADER"} =>
              decoded # <<>> /\ target_size = 7 /\ Len(inbound_buffer) = 8
        /\ state = "BODY" =>
              /\ target_size = Total(sent[Next1]) /\ Len(inbound_buffer) = target_size
              /\ 7 <= inbound_offset
    BY DEF ReadInv, StateInv
  <2>8. state = "BODY" => 7 <= inbound_offset' BY <1>2, <1>3, <1>4, <2>7
  <2> QED BY <1>3, <1>4, <2>1, <2>2, <2>3, <2>4, <2>6, <2>7, <2>8 DEF StateInv
<1>7. LayoutInv'
  <2>1. Next1 \in Nat /\ 1 <= Next1 /\ Next1 <= Len(sent) + 1 /\ Next1' = Next1
    BY <1>3, <1>4 DEF Next1
  <2>2. PICK s \in [Nat -> Int] : Layout(s, Next1, inbound_offset, sent, buffer \o unread)
    BY DEF ReadInv, LayoutInv
  <2>3. PICK bs \in Seq(ByteType) :
           /\ bs = buffer \o unread /\ Len(bs) = Len(buffer) + Len(unread)
           /\ \A m \in 1..(Len(buffer) + Len(unread)) :
                 bs[m] = IF m <= Len(buffer) THEN buffer[m] ELSE unread[m - Len(buffer)]
    <3>1. /\ buffer \o unread \in Seq(ByteType)
          /\ Len(buffer \o unread) = Len(buffer) + Len(unread)
          /\ \A m \in 1..(Len(buffer) + Len(unread)) :
                (buffer \o unread)[m] = IF m <= Len(buffer) THEN buffer[m] ELSE unread[m - Len(buffer)]
      BY <1>3, ConcatProperties
    <3> QED BY <3>1
  <2>4. PICK b \in Seq(ByteType) : b = buffer' BY <1>5
  <2>5. PICK cs \in Seq(ByteType) :
           /\ cs = b \o unread /\ Len(cs) = Len(b) + Len(unread)
           /\ \A m \in 1..(Len(b) + Len(unread)) :
                 cs[m] = IF m <= Len(b) THEN b[m] ELSE unread[m - Len(b)]
    <3>1. /\ b \o unread \in Seq(ByteType) /\ Len(b \o unread) = Len(b) + Len(unread)
          /\ \A m \in 1..(Len(b) + Len(unread)) :
                (b \o unread)[m] = IF m <= Len(b) THEN b[m] ELSE unread[m - Len(b)]
      BY <1>3, ConcatProperties
    <3> QED BY <3>1
  <2>6. PICK l \in Nat : l = Len(b) OBVIOUS
  <2>7. PICK u \in Nat : u = Len(unread) BY <1>3
  <2>8. Len(buffer) = l + d /\ \A m \in 1..l : b[m] = buffer[d + m]
    <3>1. Len(buffer) \in Nat BY <1>3
    <3>2. Len(buffer) = l + d BY <1>2, <1>5, <2>4, <2>6, <3>1
    <3>3. Len(buffer) - d = l BY <1>2, <3>2
    <3> QED BY <1>5, <2>4, <3>2, <3>3
  <2>9. Len(bs) = Len(cs) + d
    <3>1. Len(bs) = l + d + u /\ Len(cs) = l + u BY <2>3, <2>5, <2>6, <2>7, <2>8
    <3> QED BY <1>2, <3>1
  <2>10. ASSUME NEW m \in 1..(l + u) PROVE cs[m] = bs[m + d]
    <3>1. cs[m] = IF m <= l THEN b[m] ELSE unread[m - l] BY <2>5, <2>6, <2>7
    <3>2. PICK k : k = m + d OBVIOUS
    <3>3. k \in 1..(l + d + u) /\ (k <= l + d <=> m <= l) /\ k - (l + d) = m - l BY <1>2, <3>2
    <3>4. bs[k] = IF k <= l + d THEN buffer[k] ELSE unread[k - (l + d)]
      BY <2>3, <2>7, <2>8, <3>3
    <3>5. CASE m <= l
      <4>1. m \in 1..l /\ d + m = k BY <1>2, <3>2, <3>5
      <4>2. b[m] = buffer[k] BY <2>8, <4>1
      <4> QED BY <3>1, <3>2, <3>3, <3>4, <3>5, <4>2
    <3>6. CASE ~(m <= l) BY <3>1, <3>2, <3>3, <3>4, <3>6
    <3> QED BY <3>5, <3>6
  <2>11. \A m \in 1..Len(cs) : cs[m] = bs[m + d] BY <2>5, <2>6, <2>7, <2>10
  <2>12. Layout(s, Next1, inbound_offset, sent, bs) BY <2>2, <2>3
  <2>13. \E t \in [Nat -> Int] : Layout(t, Next1, inbound_offset + d, sent, cs)
    BY <1>2, <1>3, <2>1, <2>9, <2>11, <2>12, LayoutShifts
  <2>14. cs = buffer' \o unread' BY <1>4, <2>4, <2>5
  <2> QED BY <1>4, <2>1, <2>13, <2>14 DEF LayoutInv
<1> QED BY <1>5, <1>6, <1>7

\* The header of a frame is in its block: of the first frame the eighth byte too.
LEMMA StartBodyStep ==
  ASSUME ReadInv, StartBody
  PROVE  /\ target_size' \in Nat /\ inbound_buffer' \in Seq(ByteType)
         /\ StateInv' /\ LayoutInv'
<1>1. /\ state \in {"INITIAL", "HEADER"} /\ inbound_offset = target_size
      /\ sent \in Seq(SentFrames) /\ inbound_buffer \in Seq(ByteType)
      /\ decoded \in Seq(Nat)
  BY DEF StartBody, HeaderRead, ReadInv, TypeInv
<1>2. /\ inbound_offset \in {7, 8} /\ Len(inbound_buffer) = 8
      /\ inbound_offset = 8 => state = "INITIAL"
      /\ \A k \in 1..inbound_offset : inbound_buffer[k] = Byte(sent[Next1], Next1, k)
      /\ state = "INITIAL" => decoded = <<>> /\ pools = <<>>
      /\ Len(decoded) <= Len(sent) /\ (inbound_offset > 0 => Len(decoded) < Len(sent))
      /\ \A j \in DOMAIN decoded : decoded[j] = j
  BY <1>1 DEF ReadInv, StateInv
<1>3. /\ Number = Next1 /\ Incoming = sent[Next1] /\ Incoming \in SentFrames /\ Next1 \in Nat
      /\ sent # <<>>
  BY <1>2, NumberIs
<1>4. PICK w \in Nat : w = Total(sent[Next1]) /\ w >= 8 BY <1>3, FrameFacts
<1>5. /\ UNCHANGED <<inbound_offset, buffer, unread, sent, decoded>>
      /\ target_size' = w /\ state' = "BODY"
      /\ Incoming.type # "protocol"
      /\ inbound_buffer' = [k \in 1..w |->
            IF k <= 7 THEN inbound_buffer[k]
            ELSE IF Zeroed(PoolOf(Memory, Incoming.channel), w) THEN Zero ELSE Dirt]
  BY <1>3, <1>4 DEF StartBody, HEADER_SIZE, netVars
<1>6. \A k \in 1..w : inbound_buffer'[k] \in ByteType
  <2> TAKE k \in 1..w
  <2>1. CASE k <= 7
    <3>1. k \in 1..Len(inbound_buffer) BY <1>2, <2>1
    <3>2. inbound_buffer[k] \in ByteType BY <1>1, <3>1
    <3> QED BY <1>5, <2>1, <3>2
  <2>2. CASE ~(k <= 7)
    <3>1. Zero \in ByteType /\ Dirt \in ByteType BY DEF Zero, Dirt, ByteType
    <3> QED BY <1>5, <2>2, <3>1
  <2> QED BY <2>1, <2>2
<1>7. inbound_buffer' \in Seq(ByteType)
  <2>1. inbound_buffer' \in [1..w -> ByteType] BY <1>5, <1>6
  <2> QED BY <2>1, SeqDef
<1>8. Len(inbound_buffer') = w
  <2>1. DOMAIN inbound_buffer' = 1..w BY <1>5
  <2> QED BY <1>7, <2>1, LenProperties
<1>9. ASSUME state = "INITIAL" PROVE inbound_buffer'[8] = Byte(sent[Next1], Next1, 8)
  <2>1. Next1 = 1 BY <1>2, <1>9 DEF Next1
  <2>2. sent[1] = Method("start")
    <3>1. sent[1] \in {Method("start"), ProtocolHeader} BY <1>3 DEF ReadInv, ServerInv
    <3> QED BY <1>3, <1>5, <2>1, <3>1 DEF ProtocolHeader
  <2>3. Byte(sent[Next1], Next1, 8) = Zero BY <2>1, <2>2 DEF Byte, Method, HEADER_SIZE
  <2>4. PICK c : c = Incoming.channel OBVIOUS
  <2>5. PoolOf(Memory, c) = init_amqp_pool(frame_max)
    BY <1>2, <1>9 DEF PoolOf, Memory
  <2>6. Zeroed(PoolOf(Memory, c), w)
    <3>1. PICK p : p = init_amqp_pool(frame_max) OBVIOUS
    <3>2. p.dirty = 0 /\ p.next_page = 0 /\ p.alloc_block = 0 BY <3>1 DEF init_amqp_pool
    <3>3. PICK r : r = RoundUp(w) OBVIOUS
    <3>0. SUFFICES ZeroedRounded(p, r) BY <2>5, <3>1, <3>3 DEF Zeroed
    <3>4. ~Fits(p, r) BY <3>2 DEF Fits
    <3>5. CASE r > p.pagesize
      <4>1. AllocRounded(p, r) = AllocLarge(p, r) BY <3>5 DEF AllocRounded
      <4>2. AllocLarge(p, r).block = Block("large", p.large_blocks + 1, 0, r) BY DEF AllocLarge
      <4>3. AllocRounded(p, r).block.kind = "large" BY <4>1, <4>2 DEF Block
      <4> QED BY <4>3 DEF ZeroedRounded
    <3>6. CASE ~(r > p.pagesize)
      <4>1. AllocRounded(p, r) = AllocNextPage(p, r) BY <3>4, <3>6 DEF AllocRounded
      <4>2. AllocNextPage(p, r).block = Block("page", p.next_page + 1, 0, r) BY DEF AllocNextPage
      <4>3. Block("page", p.next_page + 1, 0, r).no = 1 BY <3>2 DEF Block
      <4>4. AllocRounded(p, r).block.no = 1 BY <4>1, <4>2, <4>3
      <4>5. AllocRounded(p, r).block.no > p.dirty BY <3>2, <4>4
      <4> QED BY <4>5 DEF ZeroedRounded
    <3> QED BY <3>5, <3>6
  <2>7. 8 \in 1..w BY <1>4
  <2> QED BY <1>5, <2>3, <2>4, <2>6, <2>7
<1>10. \A k \in 1..inbound_offset : inbound_buffer'[k] = Byte(sent[Next1], Next1, k)
  <2> TAKE k \in 1..inbound_offset
  <2>1. k \in 1..w /\ (k <= 7 \/ (k = 8 /\ inbound_offset = 8)) BY <1>2, <1>4
  <2>2. CASE k <= 7 BY <1>2, <1>5, <2>1, <2>2
  <2>3. CASE k = 8 /\ inbound_offset = 8 BY <1>2, <1>9, <2>3
  <2> QED BY <2>1, <2>2, <2>3
<1>11. Next1' = Next1 BY <1>5 DEF Next1
<1>12. StateInv'
  <2>1. 7 <= inbound_offset /\ inbound_offset <= w BY <1>2, <1>4
  <2> QED BY <1>2, <1>4, <1>5, <1>8, <1>10, <1>11, <2>1 DEF StateInv
<1>13. LayoutInv' BY <1>5, <1>11 DEF ReadInv, LayoutInv
<1> QED BY <1>4, <1>5, <1>7, <1>12, <1>13

\* A frame is complete: the next one follows.
LEMMA FrameEnds ==
  ASSUME ReadInv, inbound_offset = Total(sent[Next1]), inbound_offset > 0,
         ReturnToIdle, decoded' = Append(decoded, Next1), UNCHANGED <<buffer, netVars>>
  PROVE  /\ decoded' \in Seq(Nat) /\ inbound_buffer' \in Seq(ByteType)
         /\ inbound_offset' \in Nat /\ target_size' \in Nat
         /\ Len(decoded') = Next1 /\ Next1' = Next1 + 1
         /\ StateInv' /\ LayoutInv'
<1>1. /\ sent \in Seq(SentFrames) /\ decoded \in Seq(Nat) /\ inbound_offset \in Nat
      /\ Len(decoded) < Len(sent) /\ \A j \in DOMAIN decoded : decoded[j] = j
  BY DEF ReadInv, TypeInv, StateInv
<1>2. PICK n \in Nat : n = Next1 /\ n = Len(decoded) + 1 /\ n \in 1..Len(sent)
  BY <1>1 DEF Next1
<1>3. /\ decoded' \in Seq(Nat) /\ decoded' # <<>> /\ Len(decoded') = n
      /\ decoded'[n] = n /\ \A j \in 1..Len(decoded) : decoded'[j] = decoded[j]
  BY <1>1, <1>2, AppendProperties
<1>4. \A j \in DOMAIN decoded' : decoded'[j] = j
  <2>1. DOMAIN decoded' = 1..n BY <1>3
  <2> SUFFICES ASSUME NEW j \in 1..n PROVE decoded'[j] = j BY <2>1
  <2>2. j \in 1..Len(decoded) \/ j = n BY <1>1, <1>2
  <2> QED BY <1>1, <1>3, <2>2
<1>5. /\ state' = "IDLE" /\ target_size' = 7 /\ inbound_offset' = 0 /\ inbound_buffer' = Header
      /\ UNCHANGED <<buffer, sent, unread>>
  BY DEF ReturnToIdle, HEADER_SIZE, netVars
<1>6. Next1' = n + 1 BY <1>3 DEF Next1
<1>7. n <= Len(sent) /\ Len(sent) \in Nat BY <1>1, <1>2
<1>8. StateInv' BY <1>3, <1>4, <1>5, <1>7, HeaderSeq DEF StateInv
<1>9. LayoutInv'
  <2>1. PICK s \in [Nat -> Int] : Layout(s, n, inbound_offset, sent, buffer \o unread)
    BY <1>2 DEF ReadInv, LayoutInv
  <2>2. PICK w \in Nat : w = Total(sent[n]) /\ inbound_offset = w BY <1>1, <1>2
  <2>3. n \in n..Len(sent) BY <1>7
  <2>4. s[n] = 0 - w /\ s[n + 1] = s[n] + w BY <2>1, <2>2, <2>3 DEF Layout
  <2>5. s[n + 1] = 0 - 0 BY <2>4
  <2>6. \A j \in (n + 1)..Len(sent) : j \in n..Len(sent) BY <1>7
  <2>7. Layout(s, n + 1, 0, sent, buffer \o unread) BY <2>1, <2>5, <2>6 DEF Layout
  <2> QED BY <1>5, <1>6, <2>7 DEF LayoutInv
<1> QED BY <1>2, <1>3, <1>5, <1>6, <1>8, <1>9, HeaderSeq

\* The actions that handle a complete frame.
Handle == SkipFrame \/ LoginStart \/ LoginTune \/ LoginWrongMethod \/ RpcReply \/ RpcQueue
          \/ WaitFrameReturns

\* Whatever is made of a frame, the next one follows.
LEMMA HandleStep ==
  ASSUME ReadInv, Handle
  PROVE  /\ Waiting /\ state = "BODY" /\ decoded' = Append(decoded, Next1) /\ Number = Next1
         /\ Incoming = sent[Next1] /\ Incoming \in SentFrames /\ Next1 \in 1..Len(sent)
         /\ sent # <<>> /\ asked # "header"
         /\ decoded' \in Seq(Nat) /\ Len(decoded') = Next1 /\ Next1' = Next1 + 1
         /\ inbound_buffer' \in Seq(ByteType) /\ inbound_offset' \in Nat /\ target_size' \in Nat
         /\ state' = "IDLE" /\ UNCHANGED <<buffer, sent, unread>>
         /\ StateInv' /\ LayoutInv'
<1>1. FrameRead /\ FrameDecoded
  BY DEF Handle, SkipFrame, LoginStart, LoginTune, LoginWrongMethod, RpcReply, RpcQueue,
         WaitFrameReturns
<1>2. /\ Decoded = Next1 /\ Number = Next1
      /\ inbound_offset = Total(sent[Next1]) /\ inbound_offset > 0
  BY <1>1, DecodedIs
<1>3. /\ Incoming = sent[Next1] /\ Incoming \in SentFrames /\ Next1 \in 1..Len(sent)
      /\ sent # <<>>
  BY <1>2, NumberIs
<1>4. asked # "header" BY <1>3 DEF ReadInv, ServerInv
<1>5. /\ ReturnToIdle /\ decoded' = Append(decoded, Next1) /\ UNCHANGED <<buffer, netVars>>
  BY <1>1, <1>2 DEF FrameDecoded
<1>6. state' = "IDLE" /\ UNCHANGED <<buffer, sent, unread>>
  BY <1>5 DEF ReturnToIdle, netVars
<1>7. /\ decoded' \in Seq(Nat) /\ Len(decoded') = Next1 /\ Next1' = Next1 + 1
      /\ inbound_buffer' \in Seq(ByteType) /\ inbound_offset' \in Nat /\ target_size' \in Nat
      /\ StateInv' /\ LayoutInv'
  BY <1>2, <1>5, FrameEnds
<1> QED BY <1>1, <1>2, <1>3, <1>4, <1>5, <1>6, <1>7 DEF FrameRead

\* What is made of a frame: the rest of the state.
LEMMA HandleTypes ==
  ASSUME ReadInv, Handle
  PROVE  /\ phase' \in {"start", "tune", "open", "ready", "wait", "close", "closed", "failed"}
         /\ asked' \in {"header", "startOk", "open", "close", "none"} /\ asked' # "header"
         /\ frame_max' \in Nat
         /\ queued' \in Seq(Nat) /\ given' \in Seq(Nat) /\ held' \subseteq Nat
<1>1. /\ phase \in {"start", "tune", "open", "ready", "wait", "close", "closed", "failed"}
      /\ asked \in {"header", "startOk", "open", "close", "none"}
      /\ queued \in Seq(Nat) /\ given \in Seq(Nat) /\ held \subseteq Nat /\ frame_max \in Nat
  BY DEF ReadInv, TypeInv
<1>2. asked # "header" /\ Number \in Nat
  <2>1. Number = Next1 /\ Next1 \in 1..Len(sent) /\ asked # "header" BY HandleStep
  <2> QED BY <2>1
<1>3. CASE SkipFrame BY <1>1, <1>2, <1>3 DEF SkipFrame
<1>4. CASE LoginStart BY <1>1, <1>2, <1>4 DEF LoginStart
<1>5. CASE LoginTune
  <2>1. frame_max' \in Nat BY <1>5, FramesAssumption DEF LoginTune
  <2> QED BY <1>1, <1>2, <1>5, <2>1 DEF LoginTune
<1>6. CASE LoginWrongMethod BY <1>1, <1>2, <1>6 DEF LoginWrongMethod
<1>7. CASE RpcReply BY <1>1, <1>2, <1>7 DEF RpcReply
<1>8. CASE RpcQueue
  <2>1. queued' \in Seq(Nat) BY <1>1, <1>2, <1>8, AppendProperties DEF RpcQueue
  <2> QED BY <1>1, <1>2, <1>8, <2>1 DEF RpcQueue
<1>9. CASE WaitFrameReturns
  <2>1. given' \in Seq(Nat) BY <1>1, <1>2, <1>9, AppendProperties DEF WaitFrameReturns, Give
  <2>2. held' \subseteq Nat BY <1>1, <1>2, <1>9 DEF WaitFrameReturns, Give
  <2>3. phase' \in {"failed", "ready"} BY <1>9 DEF WaitFrameReturns, Give
  <2> QED BY <1>1, <1>2, <1>9, <2>1, <2>2, <2>3 DEF WaitFrameReturns
<1> QED BY <1>3, <1>4, <1>5, <1>6, <1>7, <1>8, <1>9 DEF Handle

\* A protocol header of another version is the first and last thing the client reads.
LEMMA WrongProtocolStep ==
  ASSUME ReadInv, WrongProtocol
  PROVE  /\ Number = Next1 /\ decoded' \in Seq(Nat) /\ Len(decoded') = Next1 /\ Next1' = Next1 + 1
         /\ inbound_buffer' \in Seq(ByteType) /\ inbound_offset' \in Nat /\ target_size' \in Nat
         /\ StateInv' /\ LayoutInv'
<1>1. /\ state \in {"INITIAL", "HEADER"} /\ inbound_offset = target_size
      /\ Incoming.type = "protocol" /\ ReturnToIdle /\ decoded' = Append(decoded, Number)
      /\ UNCHANGED <<buffer, netVars>>
      /\ decoded \in Seq(Nat)
  BY DEF WrongProtocol, HeaderRead, ReadInv, TypeInv
<1>2. /\ inbound_offset \in {7, 8}
      /\ state = "INITIAL" => inbound_offset = 8
      /\ state = "HEADER" => decoded # <<>>
  BY <1>1 DEF ReadInv, StateInv
<1>3. /\ Number = Next1 /\ Incoming = sent[Next1] /\ Incoming \in SentFrames /\ Next1 \in 1..Len(sent)
  BY <1>2, NumberIs
<1>4. Next1 = 1
  <2> SUFFICES ASSUME Next1 # 1 PROVE FALSE OBVIOUS
  <2>1. Next1 \in 2..Len(sent) BY <1>3
  <2> QED BY <1>1, <1>3, <2>1 DEF ReadInv, ServerInv
<1>5. decoded = <<>> BY <1>1, <1>4, EmptySeq DEF Next1
<1>6. inbound_offset = 8 BY <1>1, <1>2, <1>5
<1>7. Total(sent[Next1]) = 8
  BY <1>1, <1>3, FrameFacts DEF ProtocolHeader, Total, HEADER_SIZE, FOOTER_SIZE
<1> QED BY <1>1, <1>3, <1>6, <1>7, FrameEnds

\* The frame the server sends: the answer to what was asked, or one of its own.
LEMMA ServerStep ==
  ASSUME ReadInv, ServerAnswers \/ ServerSends
  PROVE  /\ \E f \in SentFrames : /\ Send(f)
                                  /\ asked = "header" => f \in {Method("start"), ProtocolHeader}
                                  /\ asked # "header" => f.type # "protocol"
         /\ asked' # "header"
         /\ asked' \in {"header", "startOk", "open", "close", "none"}
         /\ UNCHANGED <<phase, inVars, buffer, memVars, frame_max, queued, decoded, given, held>>
<1>1. asked \in {"header", "startOk", "open", "close", "none"} BY DEF ReadInv, TypeInv
<1>2. CASE ServerAnswers
  <2>1. /\ asked # "none" /\ asked' = "none"
        /\ Send(Method(Answers[asked])) \/ (asked = "header" /\ Send(ProtocolHeader))
        /\ UNCHANGED <<phase, inVars, buffer, memVars, frame_max, queued, decoded, given, held>>
    BY <1>2 DEF ServerAnswers
  <2>2. Answers[asked] \in Replies /\ (asked = "header" => Answers[asked] = "start")
    BY <1>1, <2>1 DEF Answers, Replies
  <2>3. Method(Answers[asked]) \in SentFrames /\ Method(Answers[asked]).type # "protocol"
    BY <2>2 DEF SentFrames, Method
  <2>4. ProtocolHeader \in SentFrames BY DEF SentFrames
  <2> QED BY <2>1, <2>2, <2>3, <2>4
<1>3. CASE ServerSends
  <2>1. /\ \E f \in Frames \cup EarlyFrames : Send(f)
        /\ asked # "header" \/ phase \notin {"start", "failed"}
        /\ UNCHANGED <<phase, asked, inVars, buffer, memVars, frame_max, queued, decoded, given, held>>
    BY <1>3 DEF ServerSends
  <2>2. asked # "header" BY <2>1 DEF ReadInv, ServerInv
  <2>3. \A f \in Frames \cup EarlyFrames : f \in SentFrames /\ f.type # "protocol"
    BY FramesAssumption DEF SentFrames
  <2> QED BY <1>1, <2>1, <2>2, <2>3
<1> QED BY <1>2, <1>3

\* Every step keeps what the invariant says of reading.
LEMMA ReadStep == ReadInv /\ [Next]_vars => ReadInv'
<1> SUFFICES ASSUME ReadInv, [Next]_vars PROVE ReadInv' OBVIOUS
<1>1. CASE ServerAnswers \/ ServerSends
  <2>1. PICK f \in SentFrames : /\ Send(f)
                                /\ asked = "header" => f \in {Method("start"), ProtocolHeader}
                                /\ asked # "header" => f.type # "protocol"
    BY <1>1, ServerStep
  <2>2. /\ asked' # "header" /\ asked' \in {"header", "startOk", "open", "close", "none"}
        /\ UNCHANGED <<phase, inVars, buffer, memVars, frame_max, queued, decoded, given, held>>
    BY <1>1, ServerStep
  <2>3. UNCHANGED <<state, target_size, inbound_offset, inbound_buffer, buffer, decoded, pools>>
    BY <2>2 DEF inVars, memVars
  <2>4. /\ sent' \in Seq(SentFrames) /\ unread' \in Seq(ByteType)
        /\ Len(sent') = Len(sent) + 1 /\ sent'[Len(sent) + 1] = f
        /\ \A j \in 1..Len(sent) : sent'[j] = sent[j]
        /\ StateInv' /\ LayoutInv'
    BY <2>1, <2>3, SendStep
  <2>5. TypeInv' BY <2>2, <2>3, <2>4 DEF ReadInv, TypeInv
  <2>6. ServerInv'
    <3>1. sent \in Seq(SentFrames) /\ Len(sent) \in Nat BY DEF ReadInv, TypeInv
    <3>2. sent' # <<>> BY <2>4, <3>1
    <3>3. state' = "INITIAL" => phase' \in {"start", "failed"}
      BY <2>2, <2>3 DEF ReadInv, ServerInv
    <3>4. sent'[1] \in {Method("start"), ProtocolHeader}
      <4>1. CASE sent = <<>>
        <5>1. asked = "header" BY <4>1 DEF ReadInv, ServerInv
        <5>2. Len(sent) + 1 = 1 BY <4>1
        <5> QED BY <2>1, <2>4, <5>1, <5>2
      <4>2. CASE sent # <<>>
        <5>1. 1 \in 1..Len(sent) BY <3>1, <4>2, EmptySeq
        <5>2. sent[1] \in {Method("start"), ProtocolHeader} BY <4>2 DEF ReadInv, ServerInv
        <5> QED BY <2>4, <5>1, <5>2
      <4> QED BY <4>1, <4>2
    <3>5. \A j \in 2..Len(sent') : sent'[j].type # "protocol"
      <4> SUFFICES ASSUME NEW j \in 2..(Len(sent) + 1) PROVE sent'[j].type # "protocol" BY <2>4
      <4>1. CASE j <= Len(sent)
        <5>1. j \in 1..Len(sent) /\ j \in 2..Len(sent) BY <3>1, <4>1
        <5>2. sent'[j] = sent[j] BY <2>4, <5>1
        <5> QED BY <5>1, <5>2 DEF ReadInv, ServerInv
      <4>2. CASE ~(j <= Len(sent))
        <5>1. j = Len(sent) + 1 /\ Len(sent) >= 1 BY <3>1, <4>2
        <5>2. sent # <<>> BY <5>1
        <5>3. asked # "header" BY <5>2 DEF ReadInv, ServerInv
        <5> QED BY <2>1, <2>4, <5>1, <5>3
      <4> QED BY <4>1, <4>2
    <3> QED BY <2>2, <3>2, <3>3, <3>4, <3>5 DEF ServerInv
  <2> QED BY <2>4, <2>5, <2>6 DEF ReadInv
<1>2. CASE Handle
  <2>1. TypeInv' BY <1>2, HandleStep, HandleTypes DEF ReadInv, TypeInv
  <2>2. ServerInv' BY <1>2, HandleStep, HandleTypes DEF ReadInv, ServerInv
  <2> QED BY <1>2, <2>1, <2>2, HandleStep DEF ReadInv
<1>3. CASE WrongProtocol
  <2>1. /\ phase' = "failed" /\ state' = "IDLE"
        /\ UNCHANGED <<asked, buffer, memVars, frame_max, queued, netVars, given, held>>
    BY <1>3 DEF WrongProtocol, ReturnToIdle
  <2>2. TypeInv' BY <1>3, <2>1, WrongProtocolStep DEF ReadInv, TypeInv, netVars
  <2>3. ServerInv' BY <2>1 DEF ReadInv, ServerInv, netVars
  <2> QED BY <1>3, <2>2, <2>3, WrongProtocolStep DEF ReadInv
<1>4. CASE Recv
  <2>1. TypeInv' BY <1>4, RecvStep DEF ReadInv, TypeInv, Recv, inVars
  <2>2. ServerInv' BY <1>4 DEF ReadInv, ServerInv, Recv, inVars
  <2> QED BY <1>4, <2>1, <2>2, RecvStep DEF ReadInv
<1>5. CASE ConsumeData
  <2>1. /\ UNCHANGED <<phase, asked, target_size, memVars, frame_max, queued, netVars, decoded, given, held>>
        /\ state' = IF state = "IDLE" THEN "HEADER" ELSE state
    BY <1>5 DEF ConsumeData
  <2>2. TypeInv' BY <1>5, <2>1, ConsumeStep, ConsumeBytes DEF ReadInv, TypeInv, netVars
  <2>3. ServerInv' BY <2>1 DEF ReadInv, ServerInv, netVars
  <2> QED BY <1>5, <2>2, <2>3, ConsumeStep DEF ReadInv
<1>6. CASE StartBody
  <2>1. /\ UNCHANGED <<phase, asked, inbound_offset, buffer, frame_max, queued, netVars, decoded, given, held>>
        /\ state' = "BODY"
    BY <1>6 DEF StartBody
  <2>2. TypeInv' BY <1>6, <2>1, StartBodyStep DEF ReadInv, TypeInv, netVars
  <2>3. ServerInv' BY <2>1 DEF ReadInv, ServerInv, netVars
  <2> QED BY <1>6, <2>2, <2>3, StartBodyStep DEF ReadInv
<1>7. CASE RecvFails
  <2>1. /\ phase' = IF phase = "close" THEN "closed" ELSE "failed"
        /\ UNCHANGED <<asked, inVars, buffer, memVars, frame_max, queued, netVars, decoded, given, held>>
    BY <1>7 DEF RecvFails
  <2>2. TypeInv' BY <2>1 DEF ReadInv, TypeInv, inVars, netVars
  <2>3. ServerInv' BY <2>1 DEF ReadInv, ServerInv, inVars, netVars
  <2> QED BY <2>1, <2>2, <2>3, QuietStep DEF ReadInv, inVars, netVars, memVars
<1>8. CASE WaitFrame
  <2>1. /\ phase = "ready" /\ phase' \in {"wait", "failed", "ready"}
        /\ UNCHANGED <<asked, inVars, buffer, memVars, frame_max, netVars, decoded>>
    BY <1>8 DEF WaitFrame, Give
  <2>2. /\ queued \in Seq(Nat) /\ given \in Seq(Nat) /\ held \subseteq Nat
    BY DEF ReadInv, TypeInv
  <2>3. queued' \in Seq(Nat) /\ given' \in Seq(Nat) /\ held' \subseteq Nat
    <3>1. CASE queued # <<>> /\ Give(Head(queued)) /\ queued' = Tail(queued)
      <4>1. Head(queued) \in Nat /\ Tail(queued) \in Seq(Nat) BY <2>2, <3>1, HeadTailProperties
      <4>2. given' \in Seq(Nat) BY <2>2, <3>1, <4>1, AppendProperties DEF Give
      <4>3. held' \subseteq Nat BY <2>2, <3>1, <4>1 DEF Give
      <4> QED BY <3>1, <4>1, <4>2, <4>3
    <3>2. CASE UNCHANGED <<given, held, queued>> BY <2>2, <3>2
    <3> QED BY <1>8, <3>1, <3>2 DEF WaitFrame
  <2>4. TypeInv' BY <2>1, <2>3 DEF ReadInv, TypeInv, inVars, netVars
  <2>5. ServerInv' BY <2>1 DEF ReadInv, ServerInv, inVars, netVars
  <2> QED BY <2>1, <2>4, <2>5, QuietStep DEF ReadInv, inVars, netVars, memVars
<1>9. CASE MaybeReleaseBuffers
  <2>1. /\ phase = "ready" /\ held' = {}
        /\ UNCHANGED <<phase, asked, inVars, buffer, frame_max, queued, netVars, decoded, given>>
    BY <1>9 DEF MaybeReleaseBuffers
  <2>2. TypeInv' BY <2>1 DEF ReadInv, TypeInv, inVars, netVars
  <2>3. ServerInv' BY <2>1 DEF ReadInv, ServerInv, inVars, netVars
  <2>4. state # "INITIAL" BY <2>1 DEF ReadInv, ServerInv
  <2> QED BY <2>1, <2>2, <2>3, <2>4, QuietStep DEF ReadInv, inVars, netVars
<1>10. CASE ConnectionClose
  <2>1. /\ phase = "ready" /\ phase' = "close" /\ asked' = "close"
        /\ UNCHANGED <<inVars, buffer, memVars, frame_max, queued, netVars, decoded, given, held>>
    BY <1>10 DEF ConnectionClose
  <2>2. TypeInv' BY <2>1 DEF ReadInv, TypeInv, inVars, netVars
  <2>3. ServerInv' BY <2>1 DEF ReadInv, ServerInv, inVars, netVars
  <2> QED BY <2>1, <2>2, <2>3, QuietStep DEF ReadInv, inVars, netVars, memVars
<1>11. CASE UNCHANGED vars
  <2>1. TypeInv' /\ ServerInv'
    BY <1>11 DEF ReadInv, TypeInv, ServerInv, vars, inVars, netVars
  <2> QED BY <1>11, <2>1, QuietStep DEF ReadInv, vars, inVars, netVars, memVars
<1> QED
  BY <1>1, <1>2, <1>3, <1>4, <1>5, <1>6, <1>7, <1>8, <1>9, <1>10, <1>11
     DEF Next, Read, Handle

\* The invariant of reading holds always.
LEMMA ReadAlways == Spec => []ReadInv
<1>1. Init => ReadInv BY ReadInit
<1>2. ReadInv /\ [Next]_vars => ReadInv' BY ReadStep
<1> QED BY <1>1, <1>2, PTL DEF Spec

\* The invariant says that frames are decoded as they were sent, and that nothing is
\* left half read.
LEMMA ReadSuffices == ReadInv => FramesAsSent
<1> SUFFICES ASSUME ReadInv PROVE FramesAsSent OBVIOUS
<1>1. /\ sent \in Seq(SentFrames) /\ decoded \in Seq(Nat) /\ inbound_offset \in Nat
      /\ Len(decoded) <= Len(sent) /\ \A j \in DOMAIN decoded : decoded[j] = j
      /\ inbound_offset > 0 => Len(decoded) < Len(sent)
      /\ state \in {"INITIAL", "IDLE", "HEADER", "BODY"}
  BY DEF ReadInv, TypeInv, StateInv
<1>2. ASSUME Waiting, unread = <<>>, buffer = <<>>, ~HeaderRead, ~FrameRead
      PROVE  Len(decoded) = Len(sent) /\ inbound_offset = 0
  <2>1. PICK s \in [Nat -> Int] : Layout(s, Next1, inbound_offset, sent, buffer \o unread)
    BY DEF ReadInv, LayoutInv
  <2>2. buffer \o unread = <<>> BY <1>2
  <2>3. Len(decoded) = Len(sent)
    <3> SUFFICES ASSUME Len(decoded) # Len(sent) PROVE FALSE OBVIOUS
    <3>1. Next1 \in Next1..Len(sent) /\ Next1 \in 1..Len(sent) BY <1>1 DEF Next1
    <3>2. sent[Next1] \in SentFrames BY <1>1, <3>1
    <3>3. PICK w \in Nat : w = Total(sent[Next1]) /\ w >= 8 BY <3>2, FrameFacts
    <3>4. /\ s[Next1] = 0 - inbound_offset /\ s[Next1 + 1] = s[Next1] + w
          /\ s[Next1 + 1] <= 0
      BY <2>1, <2>2, <3>1, <3>3 DEF Layout
    <3>5. inbound_offset >= w /\ inbound_offset >= 8 BY <1>1, <3>3, <3>4
    <3>6. state \notin {"IDLE", "HEADER"} BY <1>1, <3>5 DEF ReadInv, StateInv
    <3>7. state # "INITIAL"
      <4> SUFFICES ASSUME state = "INITIAL" PROVE FALSE OBVIOUS
      <4>1. target_size = 8 /\ inbound_offset <= 8 BY DEF ReadInv, StateInv
      <4>2. inbound_offset = target_size BY <1>1, <3>5, <4>1
      <4> QED BY <1>2, <4>2 DEF HeaderRead
    <3>8. state = "BODY" BY <1>1, <3>6, <3>7
    <3>9. target_size = w /\ inbound_offset <= w BY <3>3, <3>8 DEF ReadInv, StateInv
    <3>10. inbound_offset = target_size BY <1>1, <3>5, <3>9
    <3> QED BY <1>2, <3>8, <3>10 DEF FrameRead
  <2>4. inbound_offset = 0 BY <1>1, <2>3
  <2> QED BY <2>3, <2>4
<1> QED BY <1>1, <1>2 DEF FramesAsSent

\* amqp_handle_input puts together the frames the server has sent, each once and in
\* order, whatever the pieces recv returns them in, and leaves nothing half read.
THEOREM FramesArriveAsSent == Spec => []FramesAsSent
<1> QED BY ReadAlways, ReadSuffices, PTL

-----------------------------------------------------------------------------
(* Memory: blocks in use never overlap.                                     *)

MemInv == MemOK(Memory)

\* The memory after the decoding of a frame: the old blocks and perhaps one more.
LEMMA DecodingMemory ==
  ASSUME ReadInv, MemInv, Handle
  PROVE  MemOK(AfterDecoding) /\ heap \subseteq AfterDecoding.heap
<1>1. Incoming \in SentFrames /\ frame_max \in Nat BY HandleStep DEF ReadInv, TypeInv
<1>2. Incoming.channel \in Channels BY <1>1, FrameFacts
<1>3. CASE Incoming.type \in DOMAIN BlockSize
  <2>1. BlockSize[Incoming.type] \in Nat BY <1>3, FramesAssumption
  <2> QED BY <1>1, <1>2, <1>3, <2>1, MemAlloc DEF AfterDecoding, MemInv, Memory
<1>4. CASE ~(Incoming.type \in DOMAIN BlockSize)
  BY <1>4 DEF AfterDecoding, MemInv, Memory
<1> QED BY <1>3, <1>4

\* Queueing a frame takes two more blocks.
LEMMA QueuedMemory ==
  ASSUME NEW m, MemOK(m), NEW f \in SentFrames, NEW i, frame_max \in Nat
  PROVE  MemOK(Queued(m, f, i)) /\ m.heap \subseteq Queued(m, f, i).heap
<1>1. f.channel \in Channels BY FrameFacts
<1>2. BlockSize["copy"] \in Nat /\ BlockSize["link"] \in Nat BY FramesAssumption
<1>3. PICK c : c = f.channel OBVIOUS
<1>4. PICK n1 : n1 = Alloc(m, c, BlockSize["copy"], i) OBVIOUS
<1>5. MemOK(n1) /\ m.heap \subseteq n1.heap BY <1>1, <1>2, <1>3, <1>4, MemAlloc
<1>6. PICK n2 : n2 = Alloc(n1, c, BlockSize["link"], i) OBVIOUS
<1>7. MemOK(n2) /\ n1.heap \subseteq n2.heap BY <1>1, <1>2, <1>3, <1>5, <1>6, MemAlloc
<1> QED BY <1>3, <1>4, <1>5, <1>6, <1>7 DEF Queued

\* Setting the memory to one that is in order.
LEMMA SetMemoryOK ==
  ASSUME NEW m, MemOK(m), SetMemory(m)
  PROVE  MemInv'
<1>1. pools' = m.pools /\ heap' = m.heap BY DEF SetMemory
<1>2. Memory'.pools = m.pools /\ Memory'.heap = m.heap BY <1>1 DEF Memory
<1> QED BY <1>2 DEF MemInv, MemOK

\* Releasing all buffers.
LEMMA ReleasedMemory ==
  ASSUME NEW m, MemOK(m)
  PROVE  /\ MemOK(Released(m))
         /\ \A a \in m.heap : ~Releasable(a.channel) => a \in Released(m).heap
BY MemRecycled DEF Released

\* The block for a response of the login comes from channel 0.
LEMMA SaslMemory ==
  ASSUME NEW m, MemOK(m), NEW i, frame_max \in Nat
  PROVE  /\ MemOK(Alloc(m, 0, BlockSize["sasl"], i))
         /\ m.heap \subseteq Alloc(m, 0, BlockSize["sasl"], i).heap
<1>1. BlockSize["sasl"] \in Nat /\ 0 \in Channels BY FramesAssumption DEF Channels
<1> QED BY <1>1, MemAlloc

\* The first block of a frame holds its bytes, on the channel of the frame.
LEMMA StartBodyMemory ==
  ASSUME ReadInv, MemInv, StartBody
  PROVE  /\ MemInv' /\ heap \subseteq heap'
         /\ \E a \in heap' : a.for = Number /\ a.channel = Incoming.channel
<1>1. inbound_offset > 0
  <2>1. state \in {"INITIAL", "HEADER"} /\ inbound_offset = target_size
    BY DEF StartBody, HeaderRead
  <2>2. target_size \in {7, 8} BY <2>1 DEF ReadInv, StateInv
  <2> QED BY <2>1, <2>2
<1>2. Incoming \in SentFrames /\ frame_max \in Nat BY <1>1, NumberIs DEF ReadInv, TypeInv
<1>3. Incoming.channel \in Channels /\ Total(Incoming) \in Nat BY <1>2, FrameFacts
<1>4. PICK m : m = Alloc(Memory, Incoming.channel, Total(Incoming), Number) OBVIOUS
<1>5. /\ MemOK(m) /\ heap \subseteq m.heap
      /\ \E a \in m.heap : a.for = Number /\ a.channel = Incoming.channel
  BY <1>2, <1>3, <1>4, MemAlloc DEF MemInv, Memory
<1>7. SetMemory(m) BY <1>4 DEF StartBody
<1>8. MemInv' BY <1>5, <1>7, SetMemoryOK
<1>9. heap' = m.heap BY <1>7 DEF SetMemory
<1> QED BY <1>5, <1>8, <1>9

\* What becomes of the memory when a frame is handled: it grows; in amqp_login
\* everything is released afterwards, and a heartbeat releases channel 0.
LEMMA HandleMemory ==
  ASSUME ReadInv, MemInv, Handle
  PROVE  \E m : /\ MemOK(m) /\ heap \subseteq m.heap
                /\ \/ SetMemory(m)
                   \/ /\ phase \in {"start", "tune", "open"} /\ SetMemory(Released(m))
                      /\ UNCHANGED <<queued, held>>
                   \/ SetMemory(Recycled(m, {0})) /\ UNCHANGED <<queued, held>>
<1>1. PICK m : m = AfterDecoding OBVIOUS
<1>2. MemOK(m) /\ heap \subseteq m.heap BY <1>1, DecodingMemory
<1>3. PICK h : h = Memory OBVIOUS
<1>4. MemOK(h) /\ h.heap = heap /\ h.pools = pools BY <1>3 DEF MemInv, Memory
<1>5. Incoming \in SentFrames /\ frame_max \in Nat BY HandleStep DEF ReadInv, TypeInv
<1>6. CASE SkipFrame
  <2>1. CASE SetMemory(Recycled(Memory, {0}))
    <3>1. UNCHANGED <<queued, held>> BY <1>6 DEF SkipFrame
    <3> QED BY <1>3, <1>4, <2>1, <3>1
  <2>2. CASE UNCHANGED memVars
    <3>1. SetMemory(h) BY <1>4, <2>2 DEF SetMemory, memVars
    <3> QED BY <1>4, <3>1
  <2> QED BY <1>6, <2>1, <2>2 DEF SkipFrame
<1>7. CASE LoginStart
  <2>1. PICK i : i = Number OBVIOUS
  <2>2. PICK n : n = Alloc(m, 0, BlockSize["sasl"], i) OBVIOUS
  <2>3. MemOK(n) /\ m.heap \subseteq n.heap BY <1>2, <1>5, <2>2, SaslMemory
  <2>4. /\ phase \in {"start", "tune", "open"} /\ SetMemory(Released(n))
        /\ UNCHANGED <<queued, held>>
    BY <1>1, <1>7, <2>1, <2>2 DEF LoginStart
  <2> QED BY <1>2, <2>3, <2>4
<1>8. CASE LoginTune \/ LoginWrongMethod
  <2>1. /\ phase \in {"start", "tune", "open"} /\ SetMemory(Released(m))
        /\ UNCHANGED <<queued, held>>
    BY <1>1, <1>8 DEF LoginTune, LoginWrongMethod
  <2> QED BY <1>2, <2>1
<1>9. CASE RpcReply
  <2>1. CASE phase = "open"
    <3>1. /\ phase \in {"start", "tune", "open"} /\ SetMemory(Released(m))
          /\ UNCHANGED <<queued, held>>
      BY <1>1, <1>9, <2>1 DEF RpcReply
    <3> QED BY <1>2, <3>1
  <2>2. CASE phase # "open"
    <3>1. SetMemory(m) BY <1>1, <1>9, <2>2 DEF RpcReply
    <3> QED BY <1>2, <3>1
  <2> QED BY <2>1, <2>2
<1>10. CASE RpcQueue
  <2>1. PICK i : i = Number OBVIOUS
  <2>2. PICK f \in SentFrames : f = Incoming BY <1>5
  <2>3. PICK n : n = Queued(m, f, i) OBVIOUS
  <2>4. MemOK(n) /\ m.heap \subseteq n.heap BY <1>2, <1>5, <2>3, QueuedMemory
  <2>5. SetMemory(n) BY <1>1, <1>10, <2>1, <2>2, <2>3 DEF RpcQueue
  <2> QED BY <1>2, <2>4, <2>5
<1>11. CASE WaitFrameReturns
  <2>1. SetMemory(m) BY <1>1, <1>11 DEF WaitFrameReturns
  <2> QED BY <1>2, <2>1
<1> QED BY <1>6, <1>7, <1>8, <1>9, <1>10, <1>11 DEF Handle

\* The memory stays in order.
LEMMA MemStep == ReadInv /\ MemInv /\ [Next]_vars => MemInv'
<1> SUFFICES ASSUME ReadInv, MemInv, [Next]_vars PROVE MemInv' OBVIOUS
<1>1. ASSUME UNCHANGED memVars PROVE MemInv'
  BY <1>1 DEF MemInv, MemOK, Memory, memVars
<1>2. CASE Handle
  <2>1. PICK m : /\ MemOK(m)
                 /\ \/ SetMemory(m)
                    \/ SetMemory(Released(m))
                    \/ SetMemory(Recycled(m, {0}))
    BY <1>2, HandleMemory
  <2>2. MemOK(Released(m)) /\ MemOK(Recycled(m, {0})) BY <2>1, MemRecycled, ReleasedMemory
  <2> QED BY <2>1, <2>2, SetMemoryOK
<1>3. CASE StartBody BY <1>3, StartBodyMemory
<1>4. CASE MaybeReleaseBuffers
  <2>1. PICK h : h = Memory OBVIOUS
  <2>2. MemOK(h) BY <2>1 DEF MemInv
  <2>3. MemOK(Released(h)) /\ SetMemory(Released(h))
    BY <1>4, <2>1, <2>2, ReleasedMemory DEF MaybeReleaseBuffers
  <2> QED BY <2>3, SetMemoryOK
<1>5. CASE ServerAnswers \/ ServerSends \/ Recv \/ ConsumeData \/ WrongProtocol \/ RecvFails
           \/ WaitFrame \/ ConnectionClose \/ UNCHANGED vars
  BY <1>1, <1>5
     DEF ServerAnswers, ServerSends, Recv, ConsumeData, WrongProtocol, RecvFails, WaitFrame,
         ConnectionClose, vars
<1> QED BY <1>2, <1>3, <1>4, <1>5 DEF Next, Read, Handle

\* A new connection has no pools.
LEMMA MemInit == Init => MemInv
BY DEF Init, MemInv, MemOK, Memory

\* Both invariants hold always.
LEMMA MemAlways == Spec => [](ReadInv /\ MemInv)
<1>1. Init => ReadInv /\ MemInv BY ReadInit, MemInit
<1>2. ReadInv /\ MemInv /\ [Next]_vars => (ReadInv /\ MemInv)' BY ReadStep, MemStep
<1> QED BY <1>1, <1>2, PTL DEF Spec

\* amqp_pool_alloc never hands out memory that is still in use, through pages that are
\* reused and recycled, and the block of a page ends within the page.
THEOREM BlocksStayDisjoint == Spec => []BlocksDisjoint
<1>1. ASSUME MemInv PROVE BlocksDisjoint
  <2>1. /\ \A a \in heap : a.channel \in DOMAIN pools /\ InPool(pools[a.channel], a.block)
        /\ \A a, b \in heap : a # b /\ a.channel = b.channel => ~Overlap(a.block, b.block)
    BY <1>1 DEF MemInv, MemOK, Memory
  <2>2. \A a \in heap : a.block.kind = "page" =>
           a.block.start + a.block.size <= pools[a.channel].pagesize
    BY <2>1 DEF InPool
  <2> QED BY <2>1, <2>2 DEF BlocksDisjoint
<1> QED BY <1>1, MemAlways, PTL

-----------------------------------------------------------------------------
(* Memory: frames in use keep theirs.                                       *)

HasMemory(j) == \E a \in heap : a.for = j /\ a.channel = sent[j].channel
QueuedNumbers == {queued[k] : k \in DOMAIN queued}

\* Buffers are released in amqp_login, when the application holds no frame; by a
\* heartbeat, for channel 0, whose frames the application does not keep; and between
\* two calls, when no frame is being read.
KeepInv ==
    /\ phase = "ready" => state = "IDLE"
    /\ phase \in {"start", "tune", "open"} => held = {}
    /\ held \cup QueuedNumbers \subseteq 1..Len(decoded)
    /\ \A j \in held : sent[j].channel # 0
    /\ \A j \in held \cup QueuedNumbers : HasMemory(j)
    /\ state = "BODY" => HasMemory(Next1)

\* Which frames are in use after a frame has been handled.
LEMMA HandleUse ==
  ASSUME ReadInv, Handle
  PROVE  /\ held' \cup QueuedNumbers' \subseteq held \cup QueuedNumbers \cup {Next1}
         /\ \A j \in held' : j \in held \/ (j = Next1 /\ sent[Next1].channel # 0)
         /\ phase' \in {"start", "tune", "open"} => phase \in {"start", "tune", "open"} /\ held' = held
<1>1. /\ Number = Next1 /\ Incoming = sent[Next1] /\ Next1 \in Nat /\ queued \in Seq(Nat)
  <2>1. Number = Next1 /\ Incoming = sent[Next1] /\ Next1 \in 1..Len(sent) BY HandleStep
  <2> QED BY <2>1 DEF ReadInv, TypeInv
<1>2. CASE UNCHANGED <<queued, held>>
  <2>1. phase' \in {"start", "tune", "open"} => phase \in {"start", "tune", "open"}
    BY DEF Handle, SkipFrame, LoginStart, LoginTune, LoginWrongMethod, RpcReply, RpcQueue,
           WaitFrameReturns, Give
  <2> QED BY <1>2, <2>1 DEF QueuedNumbers
<1>3. CASE RpcQueue
  <2>1. queued' = Append(queued, Next1) /\ held' = held /\ phase' = phase
    BY <1>1, <1>3 DEF RpcQueue
  <2>2. /\ queued' \in Seq(Nat) /\ Len(queued') = Len(queued) + 1
        /\ queued'[Len(queued) + 1] = Next1
        /\ \A k \in 1..Len(queued) : queued'[k] = queued[k]
    BY <1>1, <2>1, AppendProperties
  <2>3. ASSUME NEW k \in DOMAIN queued' PROVE queued'[k] \in QueuedNumbers \cup {Next1}
    <3>1. k \in 1..(Len(queued) + 1) BY <2>2
    <3>2. k \in 1..Len(queued) \/ k = Len(queued) + 1 BY <1>1, <3>1
    <3>3. \A i \in 1..Len(queued) : queued[i] \in QueuedNumbers BY <1>1 DEF QueuedNumbers
    <3> QED BY <2>2, <3>2, <3>3
  <2>4. QueuedNumbers' \subseteq QueuedNumbers \cup {Next1} BY <2>3 DEF QueuedNumbers
  <2> QED BY <2>1, <2>4
<1>4. CASE WaitFrameReturns
  <2>1. /\ queued' = queued /\ phase' \in {"failed", "ready"}
        /\ held' = held \/ (held' = held \cup {Next1} /\ sent[Next1].channel # 0)
    BY <1>1, <1>4 DEF WaitFrameReturns, Give
  <2>2. QueuedNumbers' = QueuedNumbers BY <2>1 DEF QueuedNumbers
  <2> QED BY <2>1, <2>2
<1>5. Handle => UNCHANGED <<queued, held>> \/ RpcQueue \/ WaitFrameReturns
  BY DEF Handle, SkipFrame, LoginStart, LoginTune, LoginWrongMethod, RpcReply
<1> QED BY <1>2, <1>3, <1>4, <1>5

\* A queued frame keeps its memory when buffers are released.
LEMMA ReleaseKeepsQueued ==
  ASSUME NEW m, MemOK(m), heap \subseteq m.heap, NEW cs, SetMemory(Recycled(m, cs)),
         NEW j \in QueuedNumbers, HasMemory(j), sent' = sent
  PROVE  HasMemory(j)'
<1>1. PICK a \in heap : a.for = j /\ a.channel = sent[j].channel BY DEF HasMemory
<1>2. ~Releasable(a.channel) BY <1>1 DEF Releasable, QueuedNumbers
<1>3. heap' = {x \in m.heap : ~(x.channel \in cs /\ Releasable(x.channel))}
  BY MemRecycled DEF SetMemory
<1>4. a \in heap' BY <1>1, <1>2, <1>3
<1> QED BY <1>1, <1>4 DEF HasMemory

\* So does every frame when memory is only added.
LEMMA GrowthKeeps ==
  ASSUME NEW j, HasMemory(j), heap \subseteq heap', sent'[j] = sent[j]
  PROVE  HasMemory(j)'
<1>1. PICK a \in heap : a.for = j /\ a.channel = sent[j].channel BY DEF HasMemory
<1>2. a \in heap' /\ a.for = j /\ a.channel = sent'[j].channel BY <1>1
<1> QED BY <1>2 DEF HasMemory

\* The handling of a frame leaves frames in use their memory.
LEMMA HandleKeeps ==
  ASSUME ReadInv, MemInv, KeepInv, Handle
  PROVE  \A j \in held' \cup QueuedNumbers' : HasMemory(j)'
<1> SUFFICES ASSUME NEW j \in held' \cup QueuedNumbers' PROVE HasMemory(j)' OBVIOUS
<1>1. PICK m : /\ MemOK(m) /\ heap \subseteq m.heap
               /\ \/ SetMemory(m)
                  \/ /\ phase \in {"start", "tune", "open"} /\ SetMemory(Released(m))
                     /\ UNCHANGED <<queued, held>>
                  \/ SetMemory(Recycled(m, {0})) /\ UNCHANGED <<queued, held>>
  BY HandleMemory
<1>2. sent' = sent /\ state = "BODY" BY HandleStep
<1>3. HasMemory(j)
  <2>1. j \in held \cup QueuedNumbers \cup {Next1} BY HandleUse
  <2> QED BY <1>2, <2>1 DEF KeepInv
<1>4. CASE SetMemory(m)
  <2>1. heap \subseteq heap' BY <1>1, <1>4 DEF SetMemory
  <2> QED BY <1>2, <1>3, <2>1, GrowthKeeps
<1>5. CASE phase \in {"start", "tune", "open"} /\ SetMemory(Released(m)) /\ UNCHANGED <<queued, held>>
  <2>1. j \in QueuedNumbers BY <1>5 DEF KeepInv, QueuedNumbers
  <2>2. SetMemory(Recycled(m, DOMAIN m.pools)) BY <1>5 DEF Released
  <2> QED BY <1>1, <1>2, <1>3, <2>1, <2>2, ReleaseKeepsQueued
<1>6. CASE SetMemory(Recycled(m, {0})) /\ UNCHANGED <<queued, held>>
  <2>1. j \in held \/ j \in QueuedNumbers BY <1>6 DEF QueuedNumbers
  <2>2. CASE j \in QueuedNumbers BY <1>1, <1>2, <1>3, <1>6, <2>2, ReleaseKeepsQueued
  <2>3. CASE j \in held
    <3>1. PICK a \in heap : a.for = j /\ a.channel = sent[j].channel BY <1>3 DEF HasMemory
    <3>2. a.channel # 0 BY <2>3, <3>1 DEF KeepInv
    <3>3. heap' = {x \in m.heap : ~(x.channel \in {0} /\ Releasable(x.channel))}
      BY <1>1, <1>6, MemRecycled DEF SetMemory
    <3>4. a \in heap' BY <1>1, <3>1, <3>2, <3>3
    <3> QED BY <1>2, <3>1, <3>4 DEF HasMemory
  <2> QED BY <2>1, <2>2, <2>3
<1> QED BY <1>1, <1>4, <1>5, <1>6

\* Every step leaves frames in use their memory.
LEMMA KeepStep == ReadInv /\ MemInv /\ KeepInv /\ [Next]_vars => KeepInv'
<1> SUFFICES ASSUME ReadInv, MemInv, KeepInv, [Next]_vars PROVE KeepInv' OBVIOUS
<1>0. /\ sent \in Seq(SentFrames) /\ decoded \in Seq(Nat) /\ queued \in Seq(Nat)
      /\ Len(decoded) \in Nat /\ Len(sent) \in Nat /\ Len(decoded) <= Len(sent)
  BY DEF ReadInv, TypeInv, StateInv
<1>1. ASSUME UNCHANGED <<heap, sent, queued, held, decoded>>,
             phase' = "ready" => state' = "IDLE",
             phase' \in {"start", "tune", "open"} => phase \in {"start", "tune", "open"},
             state' = "BODY" => state = "BODY"
      PROVE  KeepInv'
  <2>1. QueuedNumbers' = QueuedNumbers /\ Next1' = Next1 BY <1>1 DEF QueuedNumbers, Next1
  <2>2. \A j : HasMemory(j) => HasMemory(j)' BY <1>1 DEF HasMemory
  <2> QED BY <1>1, <2>1, <2>2 DEF KeepInv
<1>2. CASE ServerAnswers \/ ServerSends
  <2>1. PICK f \in SentFrames : Send(f) BY <1>2, ServerStep
  <2>2. UNCHANGED <<phase, state, heap, queued, decoded, held>>
    BY <1>2, ServerStep DEF inVars, memVars
  <2>3. \A j \in 1..Len(sent) : sent'[j] = sent[j] BY <1>0, <2>1, AppendProperties DEF Send
  <2>4. QueuedNumbers' = QueuedNumbers /\ Next1' = Next1 BY <2>2 DEF QueuedNumbers, Next1
  <2>5. \A j \in held \cup QueuedNumbers : sent'[j] = sent[j] /\ HasMemory(j)'
    <3> TAKE j \in held \cup QueuedNumbers
    <3>1. j \in 1..Len(decoded) /\ HasMemory(j) BY DEF KeepInv
    <3>2. j \in 1..Len(sent) BY <1>0, <3>1
    <3> QED BY <2>2, <2>3, <3>1, <3>2, GrowthKeeps
  <2>6. state = "BODY" => HasMemory(Next1)'
    <3> SUFFICES ASSUME state = "BODY" PROVE HasMemory(Next1)' OBVIOUS
    <3>1. inbound_offset >= 7 /\ inbound_offset \in Nat BY DEF ReadInv, StateInv, TypeInv
    <3>2. Next1 \in 1..Len(sent) BY <3>1, NumberIs
    <3>3. PICK n : n = Next1 OBVIOUS
    <3>4. HasMemory(n) /\ sent'[n] = sent[n] BY <2>3, <3>2, <3>3 DEF KeepInv
    <3>5. HasMemory(n)' BY <2>2, <3>4, GrowthKeeps
    <3> QED BY <2>4, <3>3, <3>5
  <2> QED BY <2>2, <2>4, <2>5, <2>6 DEF KeepInv
<1>3. CASE Handle
  <2>1. /\ state' = "IDLE" /\ sent' = sent /\ Len(decoded') = Next1 /\ Next1 \in 1..Len(sent)
    BY <1>3, HandleStep
  <2>2. held' \cup QueuedNumbers' \subseteq 1..Len(decoded')
    <3>1. 1..Len(decoded) \subseteq 1..Next1 /\ Next1 \in 1..Next1 BY <1>0, <2>1 DEF Next1
    <3>2. held' \cup QueuedNumbers' \subseteq held \cup QueuedNumbers \cup {Next1} BY <1>3, HandleUse
    <3> QED BY <2>1, <3>1, <3>2 DEF KeepInv
  <2>3. \A j \in held' : sent'[j].channel # 0 BY <1>3, <2>1, HandleUse DEF KeepInv
  <2>4. phase' \in {"start", "tune", "open"} => held' = {} BY <1>3, HandleUse DEF KeepInv
  <2>5. \A j \in held' \cup QueuedNumbers' : HasMemory(j)' BY <1>3, HandleKeeps
  <2> QED BY <2>1, <2>2, <2>3, <2>4, <2>5 DEF KeepInv
<1>4. CASE StartBody
  <2>1. /\ UNCHANGED <<phase, queued, sent, decoded, held>> /\ phase # "ready"
    BY <1>4 DEF StartBody, HeaderRead, Waiting, netVars
  <2>2. heap \subseteq heap' BY <1>4, StartBodyMemory
  <2>3. inbound_offset > 0
    <3>1. state \in {"INITIAL", "HEADER"} /\ inbound_offset = target_size
      BY <1>4 DEF StartBody, HeaderRead
    <3>2. target_size \in {7, 8} BY <3>1 DEF ReadInv, StateInv
    <3> QED BY <3>1, <3>2
  <2>4. Number = Next1 /\ Incoming = sent[Next1] BY <2>3, NumberIs
  <2>5. QueuedNumbers' = QueuedNumbers /\ Next1' = Next1 BY <2>1 DEF QueuedNumbers, Next1
  <2>6. HasMemory(Next1)'
    <3>1. \E a \in heap' : a.for = Next1 /\ a.channel = sent[Next1].channel
      BY <1>4, <2>4, StartBodyMemory
    <3> QED BY <2>1, <2>5, <3>1 DEF HasMemory
  <2>7. \A j \in held \cup QueuedNumbers : HasMemory(j)'
    BY <2>1, <2>2, GrowthKeeps DEF KeepInv
  <2> QED BY <2>1, <2>5, <2>6, <2>7 DEF KeepInv
<1>5. CASE WaitFrame
  <2>1. /\ phase = "ready" /\ state = "IDLE"
        /\ UNCHANGED <<state, heap, sent, decoded>>
    BY <1>5 DEF WaitFrame, inVars, memVars, netVars, KeepInv
  <2>2. CASE phase' = "wait" /\ UNCHANGED <<given, held, queued>>
    BY <1>1, <2>1, <2>2
  <2>3. CASE queued # <<>> /\ Give(Head(queued)) /\ queued' = Tail(queued)
    <3>1. /\ Len(Tail(queued)) = Len(queued) - 1 /\ Tail(queued) \in Seq(Nat)
          /\ \A i \in 1..Len(Tail(queued)) : Tail(queued)[i] = queued[i + 1]
      BY <1>0, <2>3, HeadTailProperties
    <3>2. Len(queued) \in Nat /\ Len(queued) > 0 BY <1>0, <2>3, EmptySeq
    <3>3. Head(queued) = queued[1] BY <2>3
    <3>4. \A i \in 1..Len(queued) : queued[i] \in QueuedNumbers BY <1>0 DEF QueuedNumbers
    <3>5. Head(queued) \in QueuedNumbers BY <3>2, <3>3, <3>4
    <3>6. QueuedNumbers' \subseteq QueuedNumbers
      <4>1. ASSUME NEW i \in DOMAIN Tail(queued) PROVE Tail(queued)[i] \in QueuedNumbers
        <5>1. i \in 1..Len(Tail(queued)) BY <3>1
        <5>2. i + 1 \in 1..Len(queued) BY <3>1, <3>2, <5>1
        <5> QED BY <3>1, <3>4, <5>1, <5>2
      <4> QED BY <2>3, <4>1 DEF QueuedNumbers
    <3>7. /\ phase' \in {"failed", "ready"}
          /\ \A j \in held' : j \in held \/ (j \in QueuedNumbers /\ sent[j].channel # 0)
      BY <2>3, <3>5 DEF Give
    <3>8. \A j : HasMemory(j) => HasMemory(j)' BY <2>1 DEF HasMemory
    <3>9. held' \cup QueuedNumbers' \subseteq held \cup QueuedNumbers BY <3>6, <3>7
    <3> QED BY <2>1, <3>7, <3>8, <3>9 DEF KeepInv
  <2> QED BY <1>5, <2>2, <2>3 DEF WaitFrame
<1>6. CASE MaybeReleaseBuffers
  <2>1. /\ phase = "ready" /\ state = "IDLE" /\ held' = {}
        /\ UNCHANGED <<phase, state, sent, queued, decoded>>
    BY <1>6 DEF MaybeReleaseBuffers, inVars, netVars, KeepInv
  <2>2. PICK h : h = Memory OBVIOUS
  <2>3. MemOK(h) /\ heap \subseteq h.heap BY <2>2 DEF MemInv, Memory
  <2>4. SetMemory(Recycled(h, DOMAIN h.pools)) BY <1>6, <2>2 DEF MaybeReleaseBuffers, Released
  <2>5. \A j \in QueuedNumbers : HasMemory(j)'
    BY <2>1, <2>3, <2>4, ReleaseKeepsQueued DEF KeepInv
  <2>6. QueuedNumbers' = QueuedNumbers BY <2>1 DEF QueuedNumbers
  <2> QED BY <2>1, <2>5, <2>6 DEF KeepInv
<1>7. CASE WrongProtocol
  <2>1. /\ phase' = "failed" /\ state' = "IDLE" /\ UNCHANGED <<heap, queued, sent, held>>
    BY <1>7 DEF WrongProtocol, ReturnToIdle, memVars, netVars
  <2>2. Len(decoded') = Next1 BY <1>7, WrongProtocolStep
  <2>3. 1..Len(decoded) \subseteq 1..Len(decoded') BY <1>0, <2>2 DEF Next1
  <2>4. QueuedNumbers' = QueuedNumbers BY <2>1 DEF QueuedNumbers
  <2>5. \A j : HasMemory(j) => HasMemory(j)' BY <2>1 DEF HasMemory
  <2> QED BY <2>1, <2>3, <2>4, <2>5 DEF KeepInv
<1>8. CASE Recv \/ RecvFails \/ ConnectionClose \/ UNCHANGED vars
  <2>1. /\ UNCHANGED <<state, heap, sent, queued, held, decoded>>
        /\ phase' = phase \/ phase' \in {"closed", "failed", "close"}
    BY <1>8 DEF Recv, RecvFails, ConnectionClose, vars, inVars, memVars, netVars
  <2> QED BY <1>1, <2>1 DEF KeepInv
<1>9. CASE ConsumeData
  <2>1. /\ UNCHANGED <<phase, heap, sent, queued, held, decoded>> /\ phase # "ready"
        /\ state' = "BODY" => state = "BODY"
    BY <1>9 DEF ConsumeData, Waiting, memVars, netVars
  <2> QED BY <1>1, <2>1
<1> QED BY <1>2, <1>3, <1>4, <1>5, <1>6, <1>7, <1>8, <1>9 DEF Next, Read, Handle

\* At first no frame is in use.
LEMMA KeepInit == Init => KeepInv
BY DEF Init, KeepInv, QueuedNumbers

\* The three invariants hold always.
LEMMA KeepAlways == Spec => [](ReadInv /\ MemInv /\ KeepInv)
<1>1. Init => ReadInv /\ MemInv /\ KeepInv BY ReadInit, MemInit, KeepInit
<1>2. ReadInv /\ MemInv /\ KeepInv /\ [Next]_vars => (ReadInv /\ MemInv /\ KeepInv)'
  BY ReadStep, MemStep, KeepStep
<1> QED BY <1>1, <1>2, PTL DEF Spec

\* A frame that is queued, that the application holds or that is being read never
\* loses its memory to a release of buffers.
THEOREM FramesKeepTheirMemory == Spec => []FramesKeepMemory
<1>1. ASSUME ReadInv, KeepInv PROVE FramesKeepMemory
  <2>1. state = "BODY" => Number = Next1
    <3> SUFFICES ASSUME state = "BODY" PROVE Number = Next1 OBVIOUS
    <3>1. inbound_offset >= 7 /\ inbound_offset \in Nat BY <1>1 DEF ReadInv, StateInv, TypeInv
    <3> QED BY <1>1, <3>1, NumberIs
  <2>2. \A j \in held \cup QueuedNumbers \cup (IF state = "BODY" THEN {Number} ELSE {}) : HasMemory(j)
    BY <1>1, <2>1 DEF KeepInv
  <2> QED BY <2>2 DEF FramesKeepMemory, HasMemory, QueuedNumbers
<1> QED BY <1>1, KeepAlways, PTL

\* The buffers have the sizes the offsets into them need, and the pools their form.
THEOREM TypeCorrect == Spec => []TypeOK
<1>1. ASSUME ReadInv, MemInv, KeepInv PROVE TypeOK
  <2>1. /\ phase \in {"start", "tune", "open", "ready", "wait", "close", "closed", "failed"}
        /\ asked \in DOMAIN Answers \cup {"none"}
        /\ state \in {"INITIAL", "IDLE", "HEADER", "BODY"} /\ frame_max \in Nat
        /\ inbound_offset \in Nat /\ target_size \in Nat /\ Len(inbound_buffer) \in Nat
    BY <1>1 DEF ReadInv, TypeInv, Answers
  <2>2. inbound_offset \in 0..target_size /\ target_size \in 0..Len(inbound_buffer)
    <3>1. CASE state = "INITIAL"
      <4>1. target_size = 8 /\ Len(inbound_buffer) = 8 /\ inbound_offset <= 8
        BY <1>1, <3>1 DEF ReadInv, StateInv
      <4> QED BY <2>1, <4>1
    <3>2. CASE state \in {"IDLE", "HEADER"}
      <4>1. target_size = 7 /\ Len(inbound_buffer) = 8 /\ inbound_offset <= 7
        BY <1>1, <3>2 DEF ReadInv, StateInv
      <4> QED BY <2>1, <4>1
    <3>3. CASE state = "BODY"
      <4>1. inbound_offset <= target_size /\ Len(inbound_buffer) = target_size
        BY <1>1, <3>3 DEF ReadInv, StateInv
      <4> QED BY <2>1, <4>1
    <3> QED BY <2>1, <3>1, <3>2, <3>3
  <2>3. state \in {"IDLE", "HEADER"} => target_size = HEADER_SIZE
    BY <1>1 DEF ReadInv, StateInv, HEADER_SIZE
  <2>4. DOMAIN pools \subseteq Channels /\ \A c \in DOMAIN pools : PoolOK(pools[c])
    BY <1>1 DEF MemInv, MemOK, Memory
  <2>5. ASSUME NEW c \in DOMAIN pools
        PROVE  /\ pools[c].next_page \in 0..pools[c].pages
               /\ pools[c].alloc_block \in 0..pools[c].pages
               /\ pools[c].alloc_used \in 0..pools[c].pagesize
               /\ pools[c].dirty \in 0..pools[c].pages
    <3>1. PICK p : p = pools[c] OBVIOUS
    <3>2. /\ p.pagesize \in Nat /\ p.pages \in Nat /\ p.next_page \in Nat
          /\ p.alloc_used \in Nat /\ p.dirty \in Nat /\ p.alloc_block = p.next_page
          /\ p.next_page <= p.pages /\ p.alloc_used <= p.pagesize /\ p.dirty <= p.pages
      BY <2>4, <3>1 DEF PoolOK, PoolRecords
    <3> QED BY <3>1, <3>2
  <2>6. held \subseteq DOMAIN sent
    <3>1. /\ Len(decoded) \in Nat /\ Len(sent) \in Nat /\ Len(decoded) <= Len(sent)
          /\ DOMAIN sent = 1..Len(sent)
      BY <1>1 DEF ReadInv, TypeInv, StateInv
    <3> QED BY <1>1, <3>1 DEF KeepInv
  <2> QED BY <2>1, <2>2, <2>3, <2>4, <2>5, <2>6 DEF TypeOK
<1> QED BY <1>1, KeepAlways, PTL

-----------------------------------------------------------------------------
(* The order of frames.                                                     *)

\* What the client waits for in a phase, and the question it is the answer to.
Awaited == {<<"start", "start">>, <<"tune", "tune">>, <<"open", "open-ok">>, <<"close", "close-ok">>}
Asking == {<<"header", "start">>, <<"startOk", "tune">>, <<"open", "open">>, <<"close", "close">>}

\* An answer that is on its way has number i.
OnItsWay(i) == i \in Next1..Len(sent) /\ sent[i].id \in Replies

\* At most one answer is on its way, to the question of this phase.
AnswerInv ==
    /\ asked = "none" \/ <<asked, phase>> \in Asking \/ phase \in {"closed", "failed"}
    /\ \A i \in Nat : OnItsWay(i) =>
          /\ asked = "none"
          /\ <<phase, sent[i].id>> \in Awaited \/ phase \in {"closed", "failed"}
    /\ \A i, j \in Nat : OnItsWay(i) /\ OnItsWay(j) => i = j

KeptNumber(j) == sent[j].type \in {"method", "header", "body"} /\ sent[j].id \notin Replies

\* The sequence q has the numbers of all frames to be kept up to number l.
AllKept(q, l) ==
    /\ InOrder(q)
    /\ {q[i] : i \in DOMAIN q} = {j \in 1..l : KeptNumber(j)}

\* The queue is empty while the client waits for a frame to return.
OrderInv ==
    /\ AnswerInv
    /\ phase = "wait" => queued = <<>>
    /\ phase # "failed" => AllKept(given \o queued, Len(decoded))

\* Frames with the identity of an answer are answers.
LEMMA AnswerFrames ==
  ASSUME NEW f \in SentFrames, f.id \in Replies
  PROVE  f.type = "method" /\ f.channel = 0
<1>1. f \notin Frames \cup EarlyFrames BY FramesAssumption
<1>2. f # ProtocolHeader BY DEF ProtocolHeader, Replies
<1>3. f \in {Method(x) : x \in Replies} BY <1>1, <1>2 DEF SentFrames
<1> QED BY <1>3 DEF Method

\* One more number, larger than the others.
LEMMA AppendKept ==
  ASSUME NEW q \in Seq(Nat), NEW n \in Nat, n >= 1, InOrder(q), NEW K,
         {q[i] : i \in DOMAIN q} = K, \A k \in K : k < n
  PROVE  /\ InOrder(Append(q, n))
         /\ {Append(q, n)[i] : i \in DOMAIN Append(q, n)} = K \cup {n}
<1>1. PICK l \in Nat : l = Len(q) OBVIOUS
<1>2. PICK r \in Seq(Nat) : /\ r = Append(q, n) /\ Len(r) = l + 1 /\ r[l + 1] = n
                            /\ \A i \in 1..l : r[i] = q[i]
  <2>1. /\ Append(q, n) \in Seq(Nat) /\ Len(Append(q, n)) = Len(q) + 1
        /\ Append(q, n)[Len(q) + 1] = n
        /\ \A i \in 1..Len(q) : Append(q, n)[i] = q[i]
    BY AppendProperties
  <2> QED BY <1>1, <2>1
<1>3. DOMAIN q = 1..l /\ DOMAIN r = 1..(l + 1) BY <1>1, <1>2
<1>4. \A i \in 1..(l + 1) : i \in 1..l \/ i = l + 1 OBVIOUS
<1>5. \A i \in 1..l : i \in 1..(l + 1) OBVIOUS
<1>6. l + 1 \in 1..(l + 1) OBVIOUS
<1>7. \A i \in 1..l : q[i] \in K /\ q[i] < n BY <1>3
<1>8. InOrder(r)
  <2> SUFFICES ASSUME NEW i \in 1..(l + 1), NEW j \in 1..(l + 1), i < j PROVE r[i] < r[j]
    BY <1>3 DEF InOrder
  <2>1. i \in 1..l OBVIOUS
  <2>2. CASE j \in 1..l
    <3>1. q[i] < q[j] BY <1>3, <2>1, <2>2 DEF InOrder
    <3> QED BY <1>2, <2>1, <2>2, <3>1
  <2>3. CASE j = l + 1 BY <1>2, <1>7, <2>1, <2>3
  <2> QED BY <1>4, <2>2, <2>3
<1>9. {r[i] : i \in 1..(l + 1)} = {q[i] : i \in 1..l} \cup {n}
  <2>1. \A i \in 1..(l + 1) : r[i] \in {q[k] : k \in 1..l} \cup {n} BY <1>2, <1>4
  <2>2. \A i \in 1..l : q[i] \in {r[k] : k \in 1..(l + 1)} BY <1>2, <1>5
  <2>3. n \in {r[k] : k \in 1..(l + 1)} BY <1>2, <1>6
  <2> QED BY <2>1, <2>2, <2>3
<1> QED BY <1>2, <1>3, <1>8, <1>9

\* Concatenation of sequences of frame numbers is associative.
LEMMA NumbersConcat ==
  \A u, v, w \in Seq(Nat) : (u \o v) \o w = u \o (v \o w)
BY ConcatAssociative, SMTT(20)

\* Taking the first frame of the queue leaves what is given and queued the same.
LEMMA TakeFirst ==
  ASSUME NEW g \in Seq(Nat), NEW q \in Seq(Nat), q # <<>>
  PROVE  Append(g, Head(q)) \o Tail(q) = g \o q
<1>1. /\ Head(q) \in Nat /\ Tail(q) \in Seq(Nat) /\ Len(Tail(q)) = Len(q) - 1
      /\ \A i \in 1..Len(Tail(q)) : Tail(q)[i] = q[i + 1]
  BY HeadTailProperties
<1>2. Len(q) \in Nat /\ Len(q) > 0 BY EmptySeq
<1>3. PICK l \in Nat : l + 1 = Len(q)
  <2>1. Len(q) - 1 \in Nat /\ (Len(q) - 1) + 1 = Len(q) BY <1>2
  <2> QED BY <2>1
<1>4. PICK r \in Seq(Nat) : r = Tail(q) /\ Len(r) = l /\ \A i \in 1..l : r[i] = q[i + 1]
  <2>1. PICK z : z = Len(q) OBVIOUS
  <2>2. z - 1 = l BY <1>3, <2>1
  <2>3. Len(Tail(q)) = l BY <1>1, <2>1, <2>2
  <2> QED BY <1>1, <2>3
<1>5. PICK h \in Nat : h = Head(q) /\ h = q[1] BY <1>1
<1>6. PICK x \in Seq(Nat) : x = <<h>> /\ Len(x) = 1 /\ x[1] = h
  <2>1. <<h>> \in Seq(Nat) /\ Len(<<h>>) = 1 /\ <<h>>[1] = h OBVIOUS
  <2> QED BY <2>1
<1>7. /\ x \o r \in Seq(Nat) /\ Len(x \o r) = 1 + l
      /\ \A i \in 1..(1 + l) : (x \o r)[i] = IF i <= 1 THEN x[i] ELSE r[i - 1]
  <2>1. /\ x \o r \in Seq(Nat) /\ Len(x \o r) = Len(x) + Len(r)
        /\ \A i \in 1..(Len(x) + Len(r)) : (x \o r)[i] = IF i <= Len(x) THEN x[i] ELSE r[i - Len(x)]
    BY ConcatProperties
  <2> QED BY <1>4, <1>6, <2>1
<1>8. x \o r = q
  <2>1. PICK y \in Seq(Nat) : y = x \o r BY <1>7
  <2>2. ASSUME NEW i \in 1..(l + 1) PROVE y[i] = q[i]
    <3>1. CASE i = 1 BY <1>5, <1>6, <1>7, <2>1, <3>1
    <3>2. CASE i # 1
      <4>1. i - 1 \in 1..l /\ i \in 1..(1 + l) /\ ~(i <= 1) /\ (i - 1) + 1 = i BY <3>2
      <4>2. y[i] = r[i - 1] BY <1>7, <2>1, <4>1
      <4>3. r[i - 1] = q[(i - 1) + 1] BY <1>4, <4>1
      <4> QED BY <4>1, <4>2, <4>3
    <3> QED BY <3>1, <3>2
  <2>3. Len(y) = l + 1 /\ Len(q) = l + 1 BY <1>3, <1>7, <2>1
  <2> QED BY <2>1, <2>2, <2>3, SeqEqual
<1>9. Append(g, h) = g \o x
  <2>1. Append(g, h) = g \o <<h>> BY AppendIsConcat
  <2> QED BY <1>6, <2>1
<1>10. (g \o x) \o r = g \o (x \o r) BY NumbersConcat
<1> QED BY <1>4, <1>5, <1>8, <1>9, <1>10

\* A frame put at the end of the queue comes behind all the others.
LEMMA QueueLast ==
  ASSUME NEW g \in Seq(Nat), NEW q \in Seq(Nat), NEW n \in Nat
  PROVE  g \o Append(q, n) = Append(g \o q, n)
<1>1. PICK x \in Seq(Nat) : x = <<n>>
  <2>1. <<n>> \in Seq(Nat) OBVIOUS
  <2> QED BY <2>1
<1>2. Append(q, n) = q \o x BY <1>1, AppendIsConcat
<1>3. g \o q \in Seq(Nat) BY ConcatProperties
<1>4. Append(g \o q, n) = (g \o q) \o x BY <1>1, <1>3, AppendIsConcat
<1>5. (g \o q) \o x = g \o (q \o x) BY NumbersConcat
<1> QED BY <1>2, <1>4, <1>5

\* The answer on its way is to the question of this phase, before and after each step.
LEMMA AnswerStep == ReadInv /\ AnswerInv /\ [Next]_vars => AnswerInv'
<1> SUFFICES ASSUME ReadInv, AnswerInv, [Next]_vars PROVE AnswerInv' OBVIOUS
<1>0. /\ sent \in Seq(SentFrames) /\ decoded \in Seq(Nat) /\ Len(sent) \in Nat /\ Len(decoded) \in Nat
      /\ Len(decoded) <= Len(sent)
      /\ phase \in {"start", "tune", "open", "ready", "wait", "close", "closed", "failed"}
      /\ asked \in {"header", "startOk", "open", "close", "none"}
  BY DEF ReadInv, TypeInv, StateInv
<1>1. CASE ServerAnswers \/ ServerSends
  <2>1. PICK f \in SentFrames :
           /\ Send(f)
           /\ \/ asked # "none" /\ asked' = "none" /\ (f.id \in Replies => f.id = Answers[asked])
              \/ asked' = asked /\ f.id \notin Replies
    <3>1. CASE ServerAnswers
      <4>1. PICK f : /\ Send(f) /\ f \in {Method(Answers[asked]), ProtocolHeader}
                     /\ asked # "none" /\ asked' = "none"
        BY <3>1 DEF ServerAnswers
      <4>2. f.id \in Replies => f.id = Answers[asked]
        BY <4>1 DEF Method, ProtocolHeader, Replies
      <4>3. f \in SentFrames
        <5>1. Answers[asked] \in Replies BY <1>0, <4>1 DEF Answers, Replies
        <5> QED BY <4>1, <5>1 DEF SentFrames
      <4> QED BY <4>1, <4>2, <4>3
    <3>2. CASE ServerSends
      <4>1. PICK f \in Frames \cup EarlyFrames : Send(f) BY <3>2 DEF ServerSends
      <4>2. f.id \notin Replies /\ f \in SentFrames BY FramesAssumption DEF SentFrames
      <4>3. asked' = asked BY <3>2 DEF ServerSends
      <4> QED BY <4>1, <4>2, <4>3
    <3> QED BY <1>1, <3>1, <3>2
  <2>2. phase' = phase /\ decoded' = decoded BY <1>1, ServerStep
  <2>3. /\ Len(sent') = Len(sent) + 1 /\ sent'[Len(sent) + 1] = f
        /\ \A i \in 1..Len(sent) : sent'[i] = sent[i]
    BY <1>0, <2>1, AppendProperties DEF Send
  <2>4. Next1' = Next1 /\ Next1 = Len(decoded) + 1 BY <2>2 DEF Next1
  <2>5. ASSUME NEW i \in Nat, OnItsWay(i)'
        PROVE  (OnItsWay(i) /\ sent'[i] = sent[i]) \/ (i = Len(sent) + 1 /\ f.id \in Replies)
    <3>1. i \in Next1..(Len(sent) + 1) /\ sent'[i].id \in Replies
      BY <2>3, <2>4, <2>5 DEF OnItsWay
    <3>2. CASE i = Len(sent) + 1 BY <2>3, <3>1, <3>2
    <3>3. CASE i # Len(sent) + 1
      <4>1. i \in 1..Len(sent) /\ i \in Next1..Len(sent) BY <1>0, <2>4, <3>1, <3>3
      <4> QED BY <2>3, <3>1, <4>1 DEF OnItsWay
    <3> QED BY <3>2, <3>3
  <2>6. CASE asked # "none" /\ asked' = "none" /\ (f.id \in Replies => f.id = Answers[asked])
    <3>1. \A i \in Nat : ~OnItsWay(i) BY <2>6 DEF AnswerInv
    <3>2. \A i \in Nat : OnItsWay(i)' => i = Len(sent) + 1 /\ f.id \in Replies BY <2>5, <3>1
    <3>3. f.id \in Replies => <<phase, f.id>> \in Awaited \/ phase \in {"closed", "failed"}
      BY <1>0, <2>6 DEF AnswerInv, Asking, Awaited, Answers
    <3>4. \A i \in Nat : OnItsWay(i)' =>
             <<phase, sent'[i].id>> \in Awaited \/ phase \in {"closed", "failed"}
      BY <2>3, <3>2, <3>3
    <3> QED BY <2>2, <2>6, <3>2, <3>4 DEF AnswerInv
  <2>7. CASE asked' = asked /\ f.id \notin Replies
    <3>1. \A i \in Nat : OnItsWay(i)' => OnItsWay(i) /\ sent'[i] = sent[i] BY <2>5, <2>7
    <3> QED BY <2>2, <2>7, <3>1 DEF AnswerInv
  <2> QED BY <2>1, <2>6, <2>7
<1>2. ASSUME UNCHANGED <<sent, asked>>, \A i \in Nat : OnItsWay(i)' => OnItsWay(i),
             phase' = phase \/ phase' \in {"closed", "failed"}
      PROVE  AnswerInv'
  BY <1>2 DEF AnswerInv
<1>3. CASE Handle
  <2>1. /\ sent' = sent /\ Next1' = Next1 + 1 /\ Next1 \in 1..Len(sent)
        /\ Number = Next1 /\ Incoming = sent[Next1] /\ Incoming \in SentFrames
    BY <1>3, HandleStep
  <2>2. \A i \in Nat : OnItsWay(i)' => OnItsWay(i) /\ i # Next1
    BY <1>0, <2>1 DEF OnItsWay
  <2>3. Next1 \in Nat /\ (Incoming.id \in Replies => OnItsWay(Next1))
    BY <1>0, <2>1 DEF OnItsWay
  <2>4. ASSUME Incoming.id \in Replies
        PROVE  asked = "none" /\ \A i \in Nat : ~OnItsWay(i)'
    BY <2>2, <2>3, <2>4 DEF AnswerInv
  <2>5. CASE SkipFrame \/ LoginWrongMethod \/ RpcQueue
    <3>1. asked' = asked /\ (phase' = phase \/ phase' \in {"closed", "failed"})
      BY <2>5 DEF SkipFrame, LoginWrongMethod, RpcQueue
    <3> QED BY <1>2, <2>1, <2>2, <3>1
  <2>6. CASE LoginStart
    <3>1. Incoming.id \in Replies /\ phase' = "tune" /\ asked' = "startOk"
      BY <2>6 DEF LoginStart, IsMethod, Replies
    <3> QED BY <2>4, <3>1 DEF AnswerInv, Asking
  <2>7. CASE LoginTune
    <3>1. Incoming.id \in Replies /\ phase' = "open" /\ asked' = "open"
      BY <2>7 DEF LoginTune, IsMethod, Replies
    <3> QED BY <2>4, <3>1 DEF AnswerInv, Asking
  <2>8. CASE RpcReply
    <3>1. asked' = asked /\ (Incoming.id \in Replies \/ phase' = "failed")
      BY <2>8 DEF RpcReply, Reply, IsMethod, Replies
    <3>2. CASE Incoming.id \in Replies BY <2>4, <3>1, <3>2 DEF AnswerInv
    <3>3. CASE phase' = "failed" BY <1>2, <2>1, <2>2, <3>1, <3>3
    <3> QED BY <3>1, <3>2, <3>3
  <2>9. CASE WaitFrameReturns
    <3>1. phase = "wait" /\ asked' = asked BY <2>9 DEF WaitFrameReturns
    <3>2. asked = "none" /\ \A i \in Nat : ~OnItsWay(i)
      BY <3>1 DEF AnswerInv, Asking, Awaited
    <3> QED BY <2>2, <3>1, <3>2 DEF AnswerInv
  <2> QED BY <1>3, <2>5, <2>6, <2>7, <2>8, <2>9 DEF Handle
<1>4. ASSUME UNCHANGED <<sent, decoded>> PROVE \A i \in Nat : OnItsWay(i)' => OnItsWay(i)
  BY <1>4 DEF OnItsWay, Next1
<1>5. CASE WrongProtocol
  <2>1. UNCHANGED <<sent, asked>> /\ phase' = "failed" BY <1>5 DEF WrongProtocol, netVars
  <2>2. Next1' = Next1 + 1 /\ Next1 \in Nat BY <1>0, <1>5, WrongProtocolStep DEF Next1
  <2>3. \A i \in Nat : OnItsWay(i)' => OnItsWay(i) BY <1>0, <2>1, <2>2 DEF OnItsWay
  <2> QED BY <1>2, <2>1, <2>3
<1>6. CASE WaitFrame \/ ConnectionClose
  <2>1. phase = "ready" /\ UNCHANGED <<sent, decoded>>
    BY <1>6 DEF WaitFrame, ConnectionClose, netVars
  <2>2. asked = "none" /\ \A i \in Nat : ~OnItsWay(i) BY <2>1 DEF AnswerInv, Asking, Awaited
  <2>3. asked' = asked \/ (asked' = "close" /\ phase' = "close")
    BY <1>6 DEF WaitFrame, ConnectionClose
  <2>4. \A i \in Nat : ~OnItsWay(i)' BY <1>4, <2>1, <2>2
  <2> QED BY <2>2, <2>3, <2>4 DEF AnswerInv, Asking
<1>7. CASE Recv \/ ConsumeData \/ StartBody \/ RecvFails \/ MaybeReleaseBuffers \/ UNCHANGED vars
  <2>1. /\ UNCHANGED <<sent, decoded, asked>>
        /\ phase' = phase \/ phase' \in {"closed", "failed"}
    BY <1>7 DEF Recv, ConsumeData, StartBody, RecvFails, MaybeReleaseBuffers, vars, netVars
  <2> QED BY <1>2, <1>4, <2>1
<1> QED BY <1>1, <1>3, <1>5, <1>6, <1>7 DEF Next, Read, Handle

\* What the handling of a frame does to the order: a frame to be kept comes behind all
\* others, and the others are not kept.
LEMMA HandleOrder ==
  ASSUME ReadInv, OrderInv, Handle
  PROVE  /\ phase' # "failed" => phase # "failed"
         /\ phase' = "wait" => phase = "wait" /\ queued' = queued
         /\ \/ phase' = "failed"
            \/ ~KeptNumber(Next1) /\ given' \o queued' = given \o queued
            \/ KeptNumber(Next1) /\ given' \o queued' = Append(given \o queued, Next1)
<1>1. /\ Number = Next1 /\ Incoming = sent[Next1] /\ Incoming \in SentFrames
      /\ Next1 \in 1..Len(sent) /\ Next1 \in Nat
      /\ given \in Seq(Nat) /\ queued \in Seq(Nat)
  <2>1. /\ Number = Next1 /\ Incoming = sent[Next1] /\ Incoming \in SentFrames
        /\ Next1 \in 1..Len(sent)
    BY HandleStep
  <2> QED BY <2>1 DEF ReadInv, TypeInv
<1>2. Incoming.id \in Replies => OnItsWay(Next1) /\ IsMethod(Incoming.id)
  <2>1. Incoming.id \in Replies => IsMethod(Incoming.id) BY <1>1, AnswerFrames DEF IsMethod
  <2>2. Next1 \in Next1..Len(sent) BY <1>1
  <2> QED BY <1>1, <2>1, <2>2 DEF OnItsWay
<1>3. Incoming.id \in Replies => <<phase, Incoming.id>> \in Awaited \/ phase \in {"closed", "failed"}
  BY <1>1, <1>2 DEF OrderInv, AnswerInv
<1>4. phase \in {"start", "tune", "open", "wait", "close"} BY HandleStep DEF Waiting
<1>5. phase' = "wait" => phase = "wait" /\ queued' = queued
  BY <1>4 DEF Handle, SkipFrame, LoginStart, LoginTune, LoginWrongMethod, RpcReply, RpcQueue,
              WaitFrameReturns, Give
<1>6. CASE SkipFrame
  <2>1. UNCHANGED <<given, queued>> /\ Incoming.type \in {"heartbeat", "unknown"}
    BY <1>6 DEF SkipFrame
  <2>2. ~KeptNumber(Next1) BY <1>1, <2>1 DEF KeptNumber
  <2> QED BY <1>4, <1>5, <2>1, <2>2
<1>7. CASE LoginStart \/ LoginTune
  <2>1. UNCHANGED <<given, queued>> /\ Incoming.id \in Replies
    BY <1>7 DEF LoginStart, LoginTune, IsMethod, Replies
  <2>2. ~KeptNumber(Next1) BY <1>1, <2>1 DEF KeptNumber
  <2> QED BY <1>4, <1>5, <2>1, <2>2
<1>8. CASE LoginWrongMethod
  <2>1. phase' = "failed" BY <1>8 DEF LoginWrongMethod
  <2> QED BY <2>1
<1>9. CASE RpcReply
  <2>1. UNCHANGED <<given, queued>> /\ (Incoming.id \in Replies \/ phase' = "failed")
    BY <1>9 DEF RpcReply, Reply, IsMethod, Replies
  <2>2. Incoming.id \in Replies => ~KeptNumber(Next1) BY <1>1 DEF KeptNumber
  <2> QED BY <1>4, <1>5, <2>1, <2>2
<1>10. CASE RpcQueue
  <2>1. /\ phase \in {"open", "close"} /\ Kept /\ ~Reply
        /\ queued' = Append(queued, Next1) /\ given' = given
    BY <1>1, <1>10 DEF RpcQueue
  <2>2. Incoming.id \notin Replies
    BY <1>2, <1>3, <2>1 DEF Reply, Awaited
  <2>3. KeptNumber(Next1) BY <1>1, <2>1, <2>2 DEF KeptNumber, Kept
  <2>4. given' \o queued' = Append(given \o queued, Next1) BY <1>1, <2>1, QueueLast
  <2> QED BY <1>4, <1>5, <2>3, <2>4
<1>11. CASE WaitFrameReturns
  <2>1. phase = "wait" /\ Kept /\ queued' = queued /\ given' = Append(given, Next1)
    BY <1>1, <1>11 DEF WaitFrameReturns, Give
  <2>2. Incoming.id \notin Replies BY <1>3, <2>1 DEF Awaited
  <2>3. KeptNumber(Next1) BY <1>1, <2>1, <2>2 DEF KeptNumber, Kept
  <2>4. queued = <<>> BY <2>1 DEF OrderInv
  <2>5. Append(given, Next1) \in Seq(Nat) BY <1>1, AppendProperties
  <2>6. given \o queued = given /\ given' \o queued' = Append(given, Next1)
    BY <1>1, <2>1, <2>4, <2>5, ConcatEmptySeq
  <2> QED BY <1>4, <1>5, <2>3, <2>6
<1> QED BY <1>6, <1>7, <1>8, <1>9, <1>10, <1>11 DEF Handle

\* Every step keeps the order.
LEMMA OrderStep == ReadInv /\ OrderInv /\ [Next]_vars => OrderInv'
<1> SUFFICES ASSUME ReadInv, OrderInv, [Next]_vars PROVE OrderInv' OBVIOUS
<1>0. /\ sent \in Seq(SentFrames) /\ decoded \in Seq(Nat) /\ Len(sent) \in Nat /\ Len(decoded) \in Nat
      /\ Len(decoded) <= Len(sent) /\ given \in Seq(Nat) /\ queued \in Seq(Nat)
  BY DEF ReadInv, TypeInv, StateInv
<1>1. AnswerInv' BY AnswerStep DEF OrderInv
<1>2. ASSUME decoded' = decoded, given' \o queued' = given \o queued,
             \A j \in 1..Len(decoded) : sent'[j] = sent[j],
             phase' # "failed" => phase # "failed", phase' = "wait" => queued' = <<>>
      PROVE  OrderInv'
  <2>1. \A j \in 1..Len(decoded) : KeptNumber(j)' <=> KeptNumber(j)
    BY <1>2 DEF KeptNumber
  <2>2. {j \in 1..Len(decoded) : KeptNumber(j)'} = {j \in 1..Len(decoded) : KeptNumber(j)}
    BY <2>1
  <2>3. phase' # "failed" => AllKept(given \o queued, Len(decoded))' BY <1>2, <2>2 DEF OrderInv, AllKept
  <2> QED BY <1>1, <1>2, <2>3 DEF OrderInv
<1>3. CASE ServerAnswers \/ ServerSends
  <2>1. PICK f \in SentFrames : Send(f) BY <1>3, ServerStep
  <2>2. UNCHANGED <<phase, queued, decoded, given>> BY <1>3, ServerStep
  <2>3. \A j \in 1..Len(sent) : sent'[j] = sent[j] BY <1>0, <2>1, AppendProperties DEF Send
  <2>4. \A j \in 1..Len(decoded) : j \in 1..Len(sent) BY <1>0
  <2> QED BY <1>2, <2>2, <2>3, <2>4 DEF OrderInv
<1>4. CASE Handle
  <2>1. /\ sent' = sent /\ Len(decoded') = Next1 /\ Next1 \in Nat /\ Next1 = Len(decoded) + 1
    BY <1>0, <1>4, HandleStep DEF Next1
  <2>2. /\ phase' # "failed" => phase # "failed"
        /\ phase' = "wait" => phase = "wait" /\ queued' = queued
        /\ \/ phase' = "failed"
           \/ ~KeptNumber(Next1) /\ given' \o queued' = given \o queued
           \/ KeptNumber(Next1) /\ given' \o queued' = Append(given \o queued, Next1)
    BY <1>4, HandleOrder
  <2>3. phase' = "wait" => queued' = <<>> BY <2>2 DEF OrderInv
  <2>4. ASSUME phase' # "failed" PROVE AllKept(given \o queued, Len(decoded))'
    <3>1. PICK n \in Nat : n = Next1 BY <2>1
    <3>2. PICK l \in Nat : l = Len(decoded) /\ n = l + 1 BY <1>0, <2>1, <3>1
    <3>3. PICK q \in Seq(Nat) : q = given \o queued BY <1>0, ConcatProperties
    <3>4. PICK K : K = {j \in 1..l : KeptNumber(j)} OBVIOUS
    <3>5. InOrder(q) /\ {q[i] : i \in DOMAIN q} = K
      BY <2>2, <2>4, <3>2, <3>3, <3>4 DEF OrderInv, AllKept
    <3>6. 1..n = 1..l \cup {n} BY <3>2
    <3>7. {j \in 1..n : KeptNumber(j)} = IF KeptNumber(n) THEN K \cup {n} ELSE K
      BY <3>4, <3>6
    <3>8. \A k \in K : k < n BY <3>2, <3>4
    <3>9. \A j : KeptNumber(j)' <=> KeptNumber(j) BY <2>1 DEF KeptNumber
    <3>10. PICK p : p = given' \o queued' OBVIOUS
    <3>11. InOrder(p) /\ {p[i] : i \in DOMAIN p} = {j \in 1..n : KeptNumber(j)}
      <4>1. CASE ~KeptNumber(n) /\ p = q BY <3>5, <3>7, <4>1
      <4>2. CASE KeptNumber(n) /\ p = Append(q, n)
        <5>1. n >= 1 BY <3>2
        <5>2. InOrder(p) /\ {p[i] : i \in DOMAIN p} = K \cup {n}
          <6>1. InOrder(q) BY <3>5
          <6>2. {q[i] : i \in DOMAIN q} = K BY <3>5
          <6>3. /\ InOrder(Append(q, n))
                /\ {Append(q, n)[i] : i \in DOMAIN Append(q, n)} = K \cup {n}
            BY <3>8, <5>1, <6>1, <6>2, AppendKept
          <6> QED BY <4>2, <6>3
        <5> QED BY <3>7, <4>2, <5>2
      <4> QED BY <2>2, <2>4, <3>1, <3>3, <3>10, <4>1, <4>2
    <3>12. {j \in 1..n : KeptNumber(j)'} = {j \in 1..n : KeptNumber(j)} BY <3>9
    <3> QED BY <2>1, <3>1, <3>10, <3>11, <3>12 DEF AllKept
  <2> QED BY <1>1, <2>3, <2>4 DEF OrderInv
<1>5. CASE WaitFrame
  <2>1. phase = "ready" /\ UNCHANGED <<sent, decoded>> BY <1>5 DEF WaitFrame, netVars
  <2>2. CASE queued # <<>> /\ Give(Head(queued)) /\ queued' = Tail(queued)
    <3>1. given' \o queued' = given \o queued BY <1>0, <2>2, TakeFirst DEF Give
    <3>2. phase' # "wait" BY <2>2 DEF Give
    <3> QED BY <1>2, <2>1, <3>1, <3>2
  <2>3. CASE queued = <<>> /\ UNCHANGED <<given, queued>> BY <1>2, <2>1, <2>3
  <2> QED BY <1>5, <2>2, <2>3 DEF WaitFrame
<1>6. CASE WrongProtocol
  <2>1. phase' = "failed" BY <1>6 DEF WrongProtocol
  <2> QED BY <1>1, <2>1 DEF OrderInv
<1>7. CASE Recv \/ ConsumeData \/ StartBody \/ RecvFails \/ MaybeReleaseBuffers \/ ConnectionClose
           \/ UNCHANGED vars
  <2>1. UNCHANGED <<sent, decoded, given, queued>>
    BY <1>7 DEF Recv, ConsumeData, StartBody, RecvFails, MaybeReleaseBuffers, ConnectionClose,
                vars, netVars
  <2>2. phase' = phase \/ (phase # "failed" /\ phase' \in {"closed", "close"}) \/ phase' = "failed"
    BY <1>7 DEF Recv, ConsumeData, StartBody, RecvFails, MaybeReleaseBuffers, ConnectionClose, vars
  <2> QED BY <1>2, <2>1, <2>2 DEF OrderInv
<1> QED BY <1>3, <1>4, <1>5, <1>6, <1>7 DEF Next, Read, Handle

\* At first nothing is on its way and nothing is kept.
LEMMA OrderInit == Init => OrderInv
<1> SUFFICES ASSUME Init PROVE OrderInv OBVIOUS
<1>1. sent = <<>> /\ decoded = <<>> /\ given = <<>> /\ queued = <<>> /\ phase = "start" /\ asked = "header"
  BY DEF Init
<1>2. \A i \in Nat : ~OnItsWay(i) BY <1>1 DEF OnItsWay, Next1
<1>3. AnswerInv BY <1>1, <1>2 DEF AnswerInv, Asking
<1>4. given \o queued = <<>> BY <1>1
<1>5. AllKept(<<>>, 0) BY DEF AllKept, InOrder
<1> QED BY <1>1, <1>3, <1>4, <1>5 DEF OrderInv

\* The application gets the frames in the order in which they were sent, and all that
\* were decoded but for the answers the login and the close wait for.
THEOREM GivenInSentOrder == Spec => []GivenInOrder
<1>1. Init => ReadInv /\ OrderInv BY ReadInit, OrderInit
<1>2. ReadInv /\ OrderInv /\ [Next]_vars => (ReadInv /\ OrderInv)' BY ReadStep, OrderStep
<1>3. ASSUME ReadInv, OrderInv PROVE GivenInOrder
  <2>1. /\ decoded \in Seq(Nat) /\ DOMAIN decoded = 1..Len(decoded)
        /\ \A j \in DOMAIN decoded : decoded[j] = j
    BY <1>3 DEF ReadInv, TypeInv, StateInv
  <2>2. {decoded[j] : j \in DOMAIN decoded} \ {0} = 1..Len(decoded) BY <2>1
  <2>3. KeptFrames = {j \in 1..Len(decoded) : KeptNumber(j)} BY <2>2 DEF KeptFrames, KeptNumber
  <2> QED BY <1>3, <2>3 DEF OrderInv, AllKept, GivenInOrder
<1> QED BY <1>1, <1>2, <1>3, PTL DEF Spec

=============================================================================
