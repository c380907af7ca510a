-------------------------- MODULE TreeSeries_proofs --------------------------
(***************************************************************************)
(* Slabs have one owner, and full slabs do not change: for every number of *)
(* slabs, series and classes and for every batch size.                     *)
(*                                                                         *)
(* For each conjunct of Inv there is a lemma that the steps of each thread *)
(* keep it.  A step either moves no slab, or moves one slab from one place *)
(* to another; the proofs name the slab x and compare the places before    *)
(* and after.                                                              *)
(***************************************************************************)
EXTENDS TreeSeries_types

(* The memory slabs of a queue of pairs, when it loses its head or grows.  *)
Firsts(q) == {q[i][1] : i \in DOMAIN q}
DistinctFirsts(q) == \A i, j \in DOMAIN q : q[i][1] = q[j][1] => i = j

(* PutEvict takes one memory slab out of mem_evict_sinfoq_.                *)
LEMMA PairDequeue ==
  ASSUME NEW q \in Seq(Pairs), q # << >>, DistinctFirsts(q)
  PROVE  /\ Firsts(q) = Firsts(Tail(q)) \cup {Head(q)[1]}
         /\ Head(q)[1] \notin Firsts(Tail(q))
         /\ DistinctFirsts(Tail(q))
<1>1. /\ Head(q) = q[1] /\ Len(q) \in Nat /\ Len(q) > 0
      /\ DOMAIN q = 1 .. Len(q) /\ DOMAIN Tail(q) = 1 .. Len(q) - 1
      /\ \A i \in 1 .. Len(q) - 1 : Tail(q)[i] = q[i + 1]
  OBVIOUS
<1>2. 1 \in DOMAIN q
  BY <1>1
<1>3. \A i \in DOMAIN Tail(q) : /\ i + 1 \in DOMAIN q /\ i + 1 # 1
                                /\ Tail(q)[i] = q[i + 1]
  BY <1>1
<1>4. \A i \in DOMAIN q : i # 1 => /\ i - 1 \in DOMAIN Tail(q)
                                   /\ Tail(q)[i - 1] = q[i]
  BY <1>1
<1>5. Firsts(q) \subseteq Firsts(Tail(q)) \cup {Head(q)[1]}
  <2> SUFFICES ASSUME NEW i \in DOMAIN q, i # 1
               PROVE  q[i][1] \in Firsts(Tail(q))
    BY <1>1 DEF Firsts
  <2> QED
    BY ZenonT(40), <1>4 DEF Firsts
<1>6. Firsts(Tail(q)) \cup {Head(q)[1]} \subseteq Firsts(q)
  BY <1>1, <1>2, <1>3 DEF Firsts
<1>7. Head(q)[1] \notin Firsts(Tail(q))
  BY <1>1, <1>2, <1>3 DEF Firsts, DistinctFirsts
<1>8. DistinctFirsts(Tail(q))
  <2> SUFFICES ASSUME NEW i \in DOMAIN Tail(q), NEW j \in DOMAIN Tail(q),
                      Tail(q)[i][1] = Tail(q)[j][1]
               PROVE  i = j
    BY DEF DistinctFirsts
  <2>1. i + 1 = j + 1
    BY <1>3 DEF DistinctFirsts
  <2> QED
    BY <1>1, <2>1
<1> QED
  BY <1>5, <1>6, <1>7, <1>8

(* FlushCopy adds one memory slab to mem_evict_sinfoq_.                    *)
LEMMA PairEnqueued ==
  ASSUME NEW q \in Seq(Pairs), NEW e \in Pairs
  PROVE  /\ Firsts(Append(q, e)) = Firsts(q) \cup {e[1]}
         /\ DistinctFirsts(q) /\ e[1] \notin Firsts(q)
              => DistinctFirsts(Append(q, e))
<1> DEFINE r == Append(q, e)
<1>1. /\ Len(q) \in Nat
      /\ DOMAIN q = 1 .. Len(q) /\ DOMAIN r = 1 .. Len(q) + 1
      /\ \A i \in 1 .. Len(q) : r[i] = q[i]
      /\ r[Len(q) + 1] = e
  OBVIOUS
<1> HIDE DEF r
<1>2. /\ \A i \in DOMAIN r : i \in DOMAIN q \/ i = Len(q) + 1
      /\ \A i \in DOMAIN q : i \in DOMAIN r /\ r[i] = q[i]
      /\ Len(q) + 1 \in DOMAIN r
  BY <1>1
<1>3. Firsts(r) = Firsts(q) \cup {e[1]}
  BY <1>1, <1>2 DEF Firsts
<1>4. ASSUME DistinctFirsts(q), e[1] \notin Firsts(q) PROVE DistinctFirsts(r)
  <2>1. \A i \in DOMAIN q : q[i][1] # e[1]
    BY <1>4 DEF Firsts
  <2> QED
    BY <1>1, <1>2, <1>4, <2>1 DEF DistinctFirsts
<1> QED
  BY <1>3, <1>4 DEF r

-----------------------------------------------------------------------------
(* Steps that move no memory slab.                                         *)
LEMMA MemStays ==
  ASSUME ExclusiveMem, UNCHANGED memQueues,
         fl'.ms = fl.ms, fl'.copy = fl.copy,
         \A c \in Classes : OwnedBy(c)' = OwnedBy(c)
  PROVE  ExclusiveMem'
<1>1. BatchMem' = BatchMem /\ Evictable' = Evictable /\ InMemQueue' = InMemQueue
  BY DEF BatchMem, Evictable, InMemQueue, memQueues
<1>2. UNCHANGED <<free_msinfoq, full_msinfoq, mem_evict_sinfoq>>
  BY DEF memQueues
<1> QED
  BY <1>1, <1>2 DEF ExclusiveMem

(* ConPutKV's choice of a slab takes it out of the queue it was in.        *)
LEMMA PutMem ==
  ASSUME Inv, NEW s \in Series, Put(s)
  PROVE  ExclusiveMem'
<1> DEFINE c == ClassOf[s]
<1>0. /\ c \in Classes /\ ctable \in [Classes -> ClassState] /\ ExclusiveMem
      /\ free_msinfoq \in Seq(MemSlabs) /\ mem_evict_sinfoq \in Seq(Pairs)
      /\ NoSlab \notin MemSlabs
  BY SlabAssumption DEF Inv, TypeOK
<1> HIDE DEF c
<1>1. CASE PutOpen(s)
  <2>1. /\ ctable' = [ctable EXCEPT ![c].pc = "write", ![c].chunk = <<s, next[s]>>]
        /\ ctable[c].pc = "idle" /\ UNCHANGED <<memQueues, fl>>
    BY <1>1 DEF PutOpen, CanPut, WriterLeaves, c
  <2>2. \A b \in Classes : OwnedBy(b)' = OwnedBy(b)
    <3> TAKE b \in Classes
    <3>1. /\ ctable'[b].slab = ctable[b].slab /\ ctable'[b].pair = ctable[b].pair
          /\ ctable'[b].pc # ctable[b].pc =>
               ctable[b].pc = "idle" /\ ctable'[b].pc = "write"
      BY <1>0, <2>1 DEF ClassState
    <3> QED
      BY <3>1 DEF OwnedBy, Published
  <2> QED
    BY <1>0, <2>1, <2>2, MemStays
<1>2. CASE PutFree(s)
  <2> DEFINE x == Head(free_msinfoq)
  <2>1. /\ ctable' = [ctable EXCEPT ![c].pc = "write", ![c].chunk = <<s, next[s]>>,
                                    ![c].slab = x]
        /\ ctable[c].pc = "idle" /\ ctable[c].slab = NoSlab
        /\ free_msinfoq # << >> /\ free_msinfoq' = Tail(free_msinfoq)
        /\ UNCHANGED <<full_msinfoq, mem_evict_sinfoq, fl>>
    BY <1>2 DEF PutFree, CanPut, WriterLeaves, c
  <2>2. /\ Range(free_msinfoq) = Range(free_msinfoq') \cup {x}
        /\ x \notin Range(free_msinfoq') /\ IsInjective(free_msinfoq')
        /\ x \in MemSlabs
    BY <1>0, <2>1, Dequeue DEF ExclusiveMem
  <2> HIDE DEF x
  <2>3. /\ \A b \in Classes : b # c => OwnedBy(b)' = OwnedBy(b)
        /\ OwnedBy(c)' = {x}
    <3>1. /\ ctable'[c].slab = x /\ ctable'[c].pc = "write"
          /\ \A b \in Classes : b # c => ctable'[b] = ctable[b]
      BY <1>0, <2>1 DEF ClassState
    <3> QED
      BY <1>0, <2>2, <3>1 DEF OwnedBy, Published
  <2>4. BatchMem' = BatchMem /\ Evictable' = Evictable
    BY <2>1 DEF BatchMem, Evictable
  <2> QED
    <3>1. InMemQueue = InMemQueue' \cup {x} /\ x \notin InMemQueue'
      BY <1>0, <2>1, <2>2, <2>4 DEF ExclusiveMem, InMemQueue
    <3>2. x \notin BatchMem /\ \A b \in Classes : x \notin OwnedBy(b)
      BY <1>0, <3>1 DEF ExclusiveMem
    <3>3. BatchMem' \cap InMemQueue' = {}
      BY <1>0, <2>4, <3>1 DEF ExclusiveMem
    <3>4. /\ Range(free_msinfoq') \cap (Range(full_msinfoq') \cup Evictable') = {}
          /\ Range(full_msinfoq') \cap Evictable' = {}
      BY <1>0, <2>1, <2>2, <2>4 DEF ExclusiveMem
    <3>5. \A b \in Classes : OwnedBy(b)' \cap (InMemQueue' \cup BatchMem') = {}
      BY <1>0, <2>3, <2>4, <3>1, <3>2 DEF ExclusiveMem
    <3>6. \A a, b \in Classes : a # b => OwnedBy(a)' \cap OwnedBy(b)' = {}
      BY <1>0, <2>3, <3>2 DEF ExclusiveMem
    <3> QED
      BY <1>0, <2>1, <2>2, <3>3, <3>4, <3>5, <3>6 DEF ExclusiveMem
<1>3. CASE PutEvict(s)
  <2> DEFINE pair == Head(mem_evict_sinfoq)
             x == pair[1]
             keys == KeysOf(mem[pair[1]])
  <2>1. /\ ctable' = [ctable EXCEPT ![c].pc = "redirect",
                                    ![c].chunk = <<s, next[s]>>,
                                    ![c].pair = pair, ![c].keys = keys]
        /\ ctable[c].pc = "idle" /\ ctable[c].slab = NoSlab
        /\ mem_evict_sinfoq # << >> /\ mem_evict_sinfoq' = Tail(mem_evict_sinfoq)
        /\ UNCHANGED <<free_msinfoq, full_msinfoq, fl>>
    BY <1>3 DEF PutEvict, CanPut, WriterLeaves, c
  <2>2. /\ Evictable = Firsts(mem_evict_sinfoq)
        /\ Evictable' = Firsts(mem_evict_sinfoq')
        /\ DistinctFirsts(mem_evict_sinfoq)
    BY <1>0 DEF Evictable, Firsts, ExclusiveMem, DistinctFirsts
  <2>3. /\ Evictable = Evictable' \cup {x} /\ x \notin Evictable'
        /\ DistinctFirsts(mem_evict_sinfoq')
    BY <1>0, <2>1, <2>2, PairDequeue
  <2>4. pair \in Pairs
    BY <1>0, <2>1, Dequeue
  <2> HIDE DEF pair, keys
  <2>5. x \in MemSlabs
    BY <2>4 DEF Pairs
  <2>6. /\ \A b \in Classes : b # c => OwnedBy(b)' = OwnedBy(b)
        /\ OwnedBy(c)' = {x}
    <3>1. /\ ctable'[c].slab = NoSlab /\ ctable'[c].pc = "redirect"
          /\ ctable'[c].pair = pair
          /\ \A b \in Classes : b # c => ctable'[b] = ctable[b]
      BY <1>0, <2>1 DEF ClassState
    <3> QED
      BY <1>0, <2>5, <3>1 DEF OwnedBy, Published
  <2>7. BatchMem' = BatchMem
    BY <2>1 DEF BatchMem
  <2> HIDE DEF x
  <2> QED
    <3>1. InMemQueue = InMemQueue' \cup {x} /\ x \notin InMemQueue'
      BY <1>0, <2>1, <2>3 DEF ExclusiveMem, InMemQueue
    <3>2. x \notin BatchMem /\ \A b \in Classes : x \notin OwnedBy(b)
      BY <1>0, <3>1 DEF ExclusiveMem
    <3>3. BatchMem' \cap InMemQueue' = {}
      BY <1>0, <2>7, <3>1 DEF ExclusiveMem
    <3>4. /\ Range(free_msinfoq') \cap (Range(full_msinfoq') \cup Evictable') = {}
          /\ Range(full_msinfoq') \cap Evictable' = {}
      BY <1>0, <2>1, <2>3 DEF ExclusiveMem
    <3>5. \A b \in Classes : OwnedBy(b)' \cap (InMemQueue' \cup BatchMem') = {}
      BY <1>0, <2>6, <2>7, <3>1, <3>2 DEF ExclusiveMem
    <3>6. \A a, b \in Classes : a # b => OwnedBy(a)' \cap OwnedBy(b)' = {}
      BY <1>0, <2>6, <3>2 DEF ExclusiveMem
    <3> QED
      BY <1>0, <2>1, <2>3, <3>3, <3>4, <3>5, <3>6 DEF ExclusiveMem, DistinctFirsts
<1> QED
  BY <1>1, <1>2, <1>3 DEF Put

(* The rest of ConPutKV keeps the slab in the class, until it is pushed.   *)
LEMMA WriterMem ==
  ASSUME Inv, NEW c \in Classes, Writer(c)
  PROVE  ExclusiveMem'
<1>0. /\ ctable \in [Classes -> ClassState] /\ ExclusiveMem
      /\ full_msinfoq \in Seq(MemSlabs) /\ NoSlab \notin MemSlabs
  BY SlabAssumption DEF Inv, TypeOK
<1> USE DEF WriterLeaves
<1>1. CASE Redirect(c)
  <2>1. PICK k \in ctable[c].keys : ctable' = [ctable EXCEPT ![c].keys = @ \ {k}]
    BY ZenonT(40), <1>1 DEF Redirect
  <2>2. \A b \in Classes : OwnedBy(b)' = OwnedBy(b)
    <3> TAKE b \in Classes
    <3>1. /\ ctable'[b].slab = ctable[b].slab /\ ctable'[b].pair = ctable[b].pair
          /\ ctable'[b].pc = ctable[b].pc
      BY <1>0, <2>1 DEF ClassState
    <3> QED
      BY <3>1 DEF OwnedBy, Published
  <2> QED
    BY <1>0, <1>1, <2>2, MemStays DEF Redirect
<1>2. CASE Recycle(c)
  <2> DEFINE x == ctable[c].pair[1]
  <2>1. /\ ctable' = [ctable EXCEPT ![c].pc = "write", ![c].slab = x,
                                    ![c].pair = NoPair]
        /\ ctable[c].pc = "redirect" /\ ctable[c].slab = NoSlab
    BY <1>2 DEF Recycle, Inv, ClassInv
  <2>2. \A b \in Classes : OwnedBy(b)' = OwnedBy(b)
    <3> TAKE b \in Classes
    <3>1. CASE b = c
      <4> HIDE DEF x
      <4>1. ctable'[c].slab = x /\ ctable'[c].pc = "write"
        BY <1>0, <2>1 DEF ClassState
      <4> QED
        BY <1>0, <2>1, <3>1, <4>1 DEF OwnedBy, Published, x
    <3>2. CASE b # c
      <4>1. ctable'[b] = ctable[b]
        BY <1>0, <2>1, <3>2
      <4> QED
        BY <4>1 DEF OwnedBy, Published
    <3> QED
      BY <3>1, <3>2
  <2> QED
    BY <1>0, <1>2, <2>2, MemStays DEF Recycle
<1>3. ASSUME NEW ents, StoreItem(c, ents), ctable[c].pc = "write"
      PROVE  ExclusiveMem'
  <2> DEFINE pc == IF mem[ctable[c].slab].nalloc + 1 = Items THEN "push" ELSE "idle"
  <2>1. /\ ctable' = [ctable EXCEPT ![c].chunk = NoChunk, ![c].pc = pc]
        /\ pc \in {"push", "idle"}
    BY <1>3 DEF StoreItem
  <2> HIDE DEF pc
  <2>2. \A b \in Classes : OwnedBy(b)' = OwnedBy(b)
    <3> TAKE b \in Classes
    <3>1. /\ ctable'[b].slab = ctable[b].slab /\ ctable'[b].pair = ctable[b].pair
          /\ ctable'[b].pc # ctable[b].pc =>
               ctable[b].pc = "write" /\ ctable'[b].pc \in {"push", "idle"}
      BY <1>0, <1>3, <2>1 DEF ClassState
    <3> QED
      BY <3>1 DEF OwnedBy, Published
  <2> QED
    BY <1>0, <1>3, <2>2, MemStays DEF StoreItem
<1>4. CASE WriteNew(c)
  BY <1>3, <1>4 DEF WriteNew
<1>5. CASE WriteMore(c)
  BY <1>3, <1>5 DEF WriteMore
<1>6. CASE PushFull(c)
  <2> DEFINE x == ctable[c].slab
  <2>1. /\ ctable' = [ctable EXCEPT ![c].pc = "count"] /\ ctable[c].pc = "push"
        /\ x \in MemSlabs /\ full_msinfoq' = Append(full_msinfoq, x)
        /\ UNCHANGED <<free_msinfoq, mem_evict_sinfoq, fl>>
    BY <1>6 DEF PushFull, Inv, ClassInv
  <2>2. OwnedBy(c) = {x}
    BY <2>1 DEF OwnedBy, Published
  <2>3. /\ \A b \in Classes : b # c => OwnedBy(b)' = OwnedBy(b)
        /\ OwnedBy(c)' = {}
    <3>1. /\ ctable'[c].pc = "count"
          /\ \A b \in Classes : b # c => ctable'[b] = ctable[b]
      BY <1>0, <2>1 DEF ClassState
    <3> QED
      BY <3>1 DEF OwnedBy, Published
  <2> HIDE DEF x
  <2>4. x \notin Range(full_msinfoq)
    BY <1>0, <2>2 DEF ExclusiveMem, InMemQueue
  <2>5. /\ Range(full_msinfoq') = Range(full_msinfoq) \cup {x}
        /\ IsInjective(full_msinfoq')
    BY <1>0, <2>1, <2>4, Enqueued DEF ExclusiveMem
  <2>6. BatchMem' = BatchMem /\ Evictable' = Evictable
    BY <2>1 DEF BatchMem, Evictable
  <2> QED
    BY <1>0, <2>1, <2>2, <2>3, <2>5, <2>6 DEF ExclusiveMem, InMemQueue
<1>7. CASE CountFull(c) \/ AssertFails(c)
  <2>1. \E pc \in {"forget", "abort"} : ctable' = [ctable EXCEPT ![c].pc = pc]
    BY <1>7 DEF CountFull, AssertFails
  <2>2. ctable[c].pc \in {"count", "forget"}
    BY <1>7 DEF CountFull, AssertFails
  <2>3. \A b \in Classes : OwnedBy(b)' = OwnedBy(b)
    <3> TAKE b \in Classes
    <3>1. /\ ctable'[b].slab = ctable[b].slab /\ ctable'[b].pair = ctable[b].pair
          /\ ctable'[b].pc # ctable[b].pc =>
               /\ ctable[b].pc \in {"count", "forget"}
               /\ ctable'[b].pc \in {"forget", "abort"}
      BY <1>0, <2>1, <2>2 DEF ClassState
    <3> QED
      BY <3>1 DEF OwnedBy, Published
  <2> QED
    BY <1>0, <1>7, <2>3, MemStays DEF CountFull, AssertFails
<1>8. CASE ForgetSlab(c)
  <2>1. /\ ctable' = [ctable EXCEPT ![c].pc = "idle", ![c].slab = NoSlab]
        /\ ctable[c].pc = "forget"
    BY <1>8 DEF ForgetSlab
  <2>2. \A b \in Classes : OwnedBy(b)' = OwnedBy(b)
    <3> TAKE b \in Classes
    <3>1. CASE b = c
      <4>1. ctable'[c].slab = NoSlab /\ ctable'[c].pc = "idle"
        BY <1>0, <2>1 DEF ClassState
      <4> QED
        BY <1>0, <2>1, <3>1, <4>1 DEF OwnedBy, Published
    <3>2. CASE b # c
      <4>1. ctable'[b] = ctable[b]
        BY <1>0, <2>1, <3>2
      <4> QED
        BY <4>1 DEF OwnedBy, Published
    <3> QED
      BY <3>1, <3>2
  <2> QED
    BY <1>0, <1>8, <2>2, MemStays DEF ForgetSlab
<1> QED
  BY <1>1, <1>2, <1>4, <1>5, <1>6, <1>7, <1>8 DEF Writer

(* The flusher moves memory slabs between the full queue, its batch and    *)
(* mem_evict_sinfoq_.                                                      *)
LEMMA FlusherMem ==
  ASSUME Inv, Flusher
  PROVE  ExclusiveMem'
<1>0. /\ fl \in FlusherState /\ ExclusiveMem /\ FlusherInv
      /\ full_msinfoq \in Seq(MemSlabs) /\ mem_evict_sinfoq \in Seq(Pairs)
  BY DEF Inv, TypeOK
<1>f. /\ fl.ms \in Seq(MemSlabs) /\ fl.ds \in SUBSET DiskSlabs
      /\ fl.copy \in SUBSET Pairs
  BY <1>0 DEF FlusherState
<1>c. UNCHANGED <<ctable, free_msinfoq>>
  BY DEF Flusher, FlusherLeaves, FlushBegin, FlushPop, FlushCheck, FlushPutBack,
         FlushTakeFree, FlushTakeEvicted, FlushUnindex, FlushFreeDisk, FlushSort,
         FlushCopy, FlushCount, FlushWait
<1>o. \A c \in Classes : OwnedBy(c)' = OwnedBy(c)
  BY <1>c DEF OwnedBy, Published
<1>1. CASE FlushPop
  <2> DEFINE x == Head(full_msinfoq)
  <2>1. /\ full_msinfoq # << >> /\ full_msinfoq' = Tail(full_msinfoq)
        /\ fl'.ms = Append(fl.ms, x) /\ fl'.copy = fl.copy
        /\ UNCHANGED mem_evict_sinfoq
    BY <1>0, <1>1 DEF FlushPop, FlusherState
  <2>2. /\ Range(full_msinfoq) = Range(full_msinfoq') \cup {x} /\ x \in MemSlabs
        /\ x \notin Range(full_msinfoq') /\ IsInjective(full_msinfoq')
    BY <1>0, <2>1, Dequeue DEF ExclusiveMem
  <2> HIDE DEF x
  <2>3. x \notin Range(fl.ms)
    BY <1>0, <2>2 DEF ExclusiveMem, BatchMem, InMemQueue
  <2>4. Range(fl'.ms) = Range(fl.ms) \cup {x} /\ IsInjective(fl'.ms)
    BY <1>0, <1>f, <2>1, <2>2, <2>3, Enqueued DEF ExclusiveMem
  <2>5. BatchMem' = BatchMem \cup {x} /\ Evictable' = Evictable
    BY <2>1, <2>4 DEF BatchMem, Evictable
  <2>6. InMemQueue = InMemQueue' \cup {x} /\ x \notin InMemQueue'
    BY <1>0, <1>c, <2>2, <2>5 DEF ExclusiveMem, InMemQueue
  <2>7. BatchMem' \cap InMemQueue' = {}
    BY <1>0, <2>5, <2>6 DEF ExclusiveMem
  <2>8. InMemQueue' \cup BatchMem' = InMemQueue \cup BatchMem
    BY <2>5, <2>6
  <2> QED
    BY <1>0, <1>c, <1>o, <2>1, <2>2, <2>4, <2>5, <2>7, <2>8 DEF ExclusiveMem
<1>2. CASE FlushPutBack
  <2> DEFINE x == Head(fl.ms)
  <2>1. /\ fl.ms # << >> /\ fl'.ms = Tail(fl.ms) /\ fl'.copy = fl.copy
        /\ fl.copy = {} /\ full_msinfoq' = Append(full_msinfoq, x)
        /\ UNCHANGED mem_evict_sinfoq
    BY <1>0, <1>2 DEF FlushPutBack, FlusherInv, FlusherState
  <2>2. /\ Range(fl.ms) = Range(fl'.ms) \cup {x} /\ x \in MemSlabs
        /\ x \notin Range(fl'.ms) /\ IsInjective(fl'.ms)
    BY <1>0, <1>f, <2>1, Dequeue DEF ExclusiveMem
  <2> HIDE DEF x
  <2>3. x \in BatchMem /\ BatchMem = BatchMem' \cup {x} /\ x \notin BatchMem'
    BY <2>1, <2>2 DEF BatchMem
  <2>4. x \notin InMemQueue
    BY <1>0, <2>3 DEF ExclusiveMem
  <2>5. /\ Range(full_msinfoq') = Range(full_msinfoq) \cup {x}
        /\ IsInjective(full_msinfoq')
    BY <1>0, <2>1, <2>2, <2>4, Enqueued DEF ExclusiveMem, InMemQueue
  <2>6. Evictable' = Evictable
    BY <2>1 DEF Evictable
  <2>7. InMemQueue' = InMemQueue \cup {x}
    BY <1>c, <2>5, <2>6 DEF InMemQueue
  <2>8. BatchMem' \cap InMemQueue' = {}
    BY <1>0, <2>3, <2>7 DEF ExclusiveMem
  <2>9. InMemQueue' \cup BatchMem' = InMemQueue \cup BatchMem
    BY <2>3, <2>7
  <2>10. /\ Range(free_msinfoq') \cap (Range(full_msinfoq') \cup Evictable') = {}
         /\ Range(full_msinfoq') \cap Evictable' = {}
    BY <1>0, <1>c, <2>4, <2>5, <2>6 DEF ExclusiveMem, InMemQueue
  <2> QED
    BY <1>0, <1>c, <1>o, <2>1, <2>2, <2>5, <2>8, <2>9, <2>10 DEF ExclusiveMem
<1>3. CASE FlushSort
  <2> DEFINE batch == Paired(Range(fl.ms), fl.ds)
  <2>1. /\ fl'.ms = << >> /\ fl'.copy = InSomeRun(batch)
        /\ UNCHANGED <<full_msinfoq, mem_evict_sinfoq>>
    BY <1>0, <1>3 DEF FlushSort, FlusherState
  <2>2. \A p \in batch : p[1] \in Range(fl.ms)
    BY <1>f, Contents, PairedIsInjective
  <2> HIDE DEF batch
  <2>3. fl'.copy \subseteq batch
    BY <2>1, RunTypes
  <2>4. Range(fl'.ms) = {} /\ IsInjective(fl'.ms)
    BY <2>1 DEF Range, IsInjective
  <2>5. BatchMem' \subseteq BatchMem
    BY <2>2, <2>3, <2>4 DEF BatchMem
  <2>6. Evictable' = Evictable
    BY <2>1 DEF Evictable
  <2>7. InMemQueue' = InMemQueue
    BY <1>c, <2>1, <2>6 DEF InMemQueue
  <2> QED
    BY <1>0, <1>c, <1>o, <2>1, <2>4, <2>5, <2>6, <2>7 DEF ExclusiveMem
<1>4. CASE FlushCopy
  <2>1. PICK p \in fl.copy :
          /\ mem_evict_sinfoq' = Append(mem_evict_sinfoq, p)
          /\ fl' = [fl EXCEPT !.copy = @ \ {p}]
    BY ZenonT(40), <1>4 DEF FlushCopy
  <2>2. /\ fl.pc = "copy" /\ fl.ms = << >> /\ fl'.ms = fl.ms
        /\ fl'.copy = fl.copy \ {p} /\ UNCHANGED full_msinfoq /\ p \in Pairs
        /\ \A q \in fl.copy : p[1] = q[1] => p = q
    BY <1>0, <1>4, <1>f, <2>1 DEF FlushCopy, FlusherInv, FlusherState
  <2>3. Range(fl.ms) = {} /\ Range(fl'.ms) = {}
    BY <2>2 DEF Range
  <2> DEFINE x == p[1]
  <2>4. BatchMem = BatchMem' \cup {x} /\ x \notin BatchMem'
    BY <2>2, <2>3 DEF BatchMem
  <2>5. x \notin InMemQueue
    BY <1>0, <2>4 DEF ExclusiveMem
  <2>6. /\ Evictable = Firsts(mem_evict_sinfoq)
        /\ Evictable' = Firsts(mem_evict_sinfoq')
        /\ DistinctFirsts(mem_evict_sinfoq)
    BY <1>0 DEF Evictable, Firsts, ExclusiveMem, DistinctFirsts
  <2>7. x \notin Firsts(mem_evict_sinfoq)
    BY <2>5, <2>6 DEF InMemQueue
  <2>8. Evictable' = Evictable \cup {x} /\ DistinctFirsts(mem_evict_sinfoq')
    BY <1>0, <2>1, <2>2, <2>6, <2>7, PairEnqueued
  <2> HIDE DEF x
  <2>9. InMemQueue' = InMemQueue \cup {x}
    BY <1>c, <2>2, <2>8 DEF InMemQueue
  <2>10. BatchMem' \cap InMemQueue' = {}
    BY <1>0, <2>4, <2>9 DEF ExclusiveMem
  <2>11. InMemQueue' \cup BatchMem' = InMemQueue \cup BatchMem
    BY <2>4, <2>9
  <2>12. /\ Range(free_msinfoq') \cap (Range(full_msinfoq') \cup Evictable') = {}
         /\ Range(full_msinfoq') \cap Evictable' = {}
    BY <1>0, <1>c, <2>2, <2>5, <2>8 DEF ExclusiveMem, InMemQueue
  <2> QED
    BY <1>0, <1>c, <1>o, <2>2, <2>8, <2>10, <2>11, <2>12
       DEF ExclusiveMem, DistinctFirsts
<1>5. CASE FlushBegin \/ FlushCheck \/ FlushTakeFree \/ FlushTakeEvicted
           \/ FlushUnindex \/ FlushFreeDisk \/ FlushCount \/ FlushWait
  <2>1. /\ fl'.ms = fl.ms /\ fl'.copy = fl.copy
        /\ UNCHANGED <<full_msinfoq, mem_evict_sinfoq>>
    BY ZenonT(40), <1>0, <1>5 DEF FlushBegin, FlushCheck, FlushTakeFree, FlushTakeEvicted,
         FlushUnindex, FlushFreeDisk, FlushCount, FlushWait, FlusherState
  <2> QED
    BY <1>0, <1>c, <1>o, <2>1, MemStays DEF memQueues
<1> QED
  BY <1>1, <1>2, <1>3, <1>4, <1>5 DEF Flusher

(* No step lets two owners have a memory slab.                             *)
LEMMA NextMem ==
  ASSUME Inv, [Next]_vars
  PROVE  ExclusiveMem'
<1>1. CASE \E s \in Series : Put(s)
  BY <1>1, PutMem
<1>2. CASE \E c \in Classes : Writer(c)
  BY <1>2, WriterMem
<1>3. CASE Flusher
  BY <1>3, FlusherMem
<1>4. CASE PoolThread \/ Migrator \/ WorkloadDone \/ UNCHANGED vars
  <2>1. UNCHANGED <<memQueues, ctable, fl>>
    BY <1>4 DEF PoolThread, OptWriteToSSD, Migrator, MigratorLeaves, MigrateBegin,
         MigratePop, MigrateUncount, MigrateRead, MigrateEvict, MigrateCount, FlushDBPut,
         FlushDBTime, FlushDBNext, WorkloadDone, vars
  <2>2. \A c \in Classes : OwnedBy(c)' = OwnedBy(c)
    BY <2>1 DEF OwnedBy, Published
  <2> QED
    BY <2>1, <2>2, MemStays DEF Inv
<1> QED
  BY <1>1, <1>2, <1>3, <1>4 DEF Next

-----------------------------------------------------------------------------
(* Steps that move no disk slab.                                           *)
LEMMA DiskStays ==
  ASSUME ExclusiveDisk, UNCHANGED diskQueues, mg'.left = mg.left,
         BatchDisk' \subseteq BatchDisk, Victim' = Victim
  PROVE  ExclusiveDisk'
<1>1. UNCHANGED <<free_dsinfoq, used_dsinfoq, disk_evict_sinfoq>>
  BY DEF diskQueues
<1>2. InDiskQueue' = InDiskQueue
  BY <1>1 DEF InDiskQueue
<1>3. Range(mg'.left) = Range(mg.left)
  OBVIOUS
<1>4. /\ BatchDisk' \cap InDiskQueue' = {}
      /\ Victim' \cap (InDiskQueue' \cup BatchDisk') = {}
      /\ Range(mg'.left) \cap (InDiskQueue' \cup BatchDisk' \cup Victim') = {}
  BY <1>2, <1>3 DEF ExclusiveDisk
<1> QED
  BY <1>1, <1>4 DEF ExclusiveDisk

(* The flusher takes disk slabs from the free and the evictable queue and  *)
(* hands them to the used queue.                                           *)
LEMMA FlusherDisk ==
  ASSUME Inv, Flusher
  PROVE  ExclusiveDisk'
<1>0. /\ fl \in FlusherState /\ ExclusiveDisk /\ FlusherInv
      /\ free_dsinfoq \in Seq(DiskSlabs) /\ used_dsinfoq \in Seq(DiskSlabs)
      /\ disk_evict_sinfoq \in Seq(DiskSlabs)
  BY DEF Inv, TypeOK
<1>f. /\ fl.ms \in Seq(MemSlabs) /\ fl.ds \in SUBSET DiskSlabs
      /\ fl.victim \in DiskSlabs /\ fl.copy \in SUBSET Pairs
  BY <1>0 DEF FlusherState
<1>c. UNCHANGED mg
  BY DEF Flusher, FlusherLeaves, FlushBegin, FlushPop, FlushCheck, FlushPutBack,
         FlushTakeFree, FlushTakeEvicted, FlushUnindex, FlushFreeDisk, FlushSort,
         FlushCopy, FlushCount, FlushWait
<1>l. Range(mg'.left) = Range(mg.left) /\ mg'.left = mg.left
  BY <1>c
<1>1. CASE FlushTakeFree
  <2> DEFINE x == Head(free_dsinfoq)
  <2>1. /\ free_dsinfoq # << >> /\ free_dsinfoq' = Tail(free_dsinfoq)
        /\ fl.pc = "disk" /\ fl'.pc = "disk" /\ fl'.victim = fl.victim
        /\ fl'.ds = fl.ds \cup {x} /\ fl'.copy = fl.copy
        /\ UNCHANGED <<used_dsinfoq, disk_evict_sinfoq>>
    BY <1>0, <1>1 DEF FlushTakeFree, FlusherInv, FlusherState
  <2>2. /\ Range(free_dsinfoq) = Range(free_dsinfoq') \cup {x} /\ x \in DiskSlabs
        /\ x \notin Range(free_dsinfoq') /\ IsInjective(free_dsinfoq')
    BY <1>0, <2>1, Dequeue DEF ExclusiveDisk
  <2> HIDE DEF x
  <2>3. BatchDisk' = BatchDisk \cup {x} /\ Victim' = {} /\ Victim = {}
    BY <2>1 DEF BatchDisk, Victim
  <2>4. InDiskQueue = InDiskQueue' \cup {x} /\ x \notin InDiskQueue'
    BY <1>0, <2>1, <2>2 DEF ExclusiveDisk, InDiskQueue
  <2>5. BatchDisk' \cap InDiskQueue' = {}
    BY <1>0, <2>3, <2>4 DEF ExclusiveDisk
  <2>6. InDiskQueue' \cup BatchDisk' = InDiskQueue \cup BatchDisk
    BY <2>3, <2>4
  <2>7. /\ Range(free_dsinfoq') \cap (Range(used_dsinfoq') \cup Range(disk_evict_sinfoq')) = {}
        /\ Range(used_dsinfoq') \cap Range(disk_evict_sinfoq') = {}
    BY <1>0, <2>1, <2>2 DEF ExclusiveDisk
  <2> QED
    BY <1>0, <1>l, <2>1, <2>2, <2>3, <2>5, <2>6, <2>7 DEF ExclusiveDisk
<1>2. CASE FlushTakeEvicted
  <2> DEFINE x == Head(disk_evict_sinfoq)
  <2>1. /\ disk_evict_sinfoq # << >> /\ disk_evict_sinfoq' = Tail(disk_evict_sinfoq)
        /\ fl.pc = "disk" /\ fl'.pc = "unindex" /\ fl'.victim = x
        /\ fl'.ds = fl.ds /\ fl'.copy = fl.copy
        /\ UNCHANGED <<used_dsinfoq, free_dsinfoq>>
    BY <1>0, <1>2 DEF FlushTakeEvicted, FlusherState
  <2>2. /\ Range(disk_evict_sinfoq) = Range(disk_evict_sinfoq') \cup {x}
        /\ x \notin Range(disk_evict_sinfoq') /\ IsInjective(disk_evict_sinfoq')
        /\ x \in DiskSlabs
    BY <1>0, <2>1, Dequeue DEF ExclusiveDisk
  <2> HIDE DEF x
  <2>3. BatchDisk' = BatchDisk /\ Victim' = {x} /\ Victim = {}
    BY <2>1, <2>2 DEF BatchDisk, Victim
  <2>4. InDiskQueue = InDiskQueue' \cup {x} /\ x \notin InDiskQueue'
    BY <1>0, <2>1, <2>2 DEF ExclusiveDisk, InDiskQueue
  <2>5. x \notin BatchDisk /\ x \notin Range(mg.left)
    BY <1>0, <2>4 DEF ExclusiveDisk
  <2>6. /\ BatchDisk' \cap InDiskQueue' = {}
        /\ Victim' \cap (InDiskQueue' \cup BatchDisk') = {}
        /\ Range(mg'.left) \cap (InDiskQueue' \cup BatchDisk' \cup Victim') = {}
    BY <1>0, <1>l, <2>3, <2>4, <2>5 DEF ExclusiveDisk
  <2>7. /\ Range(free_dsinfoq') \cap (Range(used_dsinfoq') \cup Range(disk_evict_sinfoq')) = {}
        /\ Range(used_dsinfoq') \cap Range(disk_evict_sinfoq') = {}
    BY <1>0, <2>1, <2>2 DEF ExclusiveDisk
  <2> QED
    BY <1>0, <1>l, <2>1, <2>2, <2>6, <2>7 DEF ExclusiveDisk
<1>3. CASE FlushFreeDisk
  <2> DEFINE x == fl.victim
  <2>1. /\ fl.pc = "unindex" /\ fl'.pc = "disk" /\ x \in DiskSlabs
        /\ fl'.ds = fl.ds \cup {x} /\ fl'.copy = fl.copy
        /\ UNCHANGED diskQueues
    BY <1>0, <1>f, <1>3 DEF FlushFreeDisk, FlusherState
  <2>2. BatchDisk' = BatchDisk \cup {x} /\ Victim' = {} /\ Victim = {x}
    BY <2>1 DEF BatchDisk, Victim
  <2> HIDE DEF x
  <2>3. UNCHANGED <<free_dsinfoq, used_dsinfoq, disk_evict_sinfoq>>
    BY <2>1 DEF diskQueues
  <2>4. InDiskQueue' = InDiskQueue
    BY <2>3 DEF InDiskQueue
  <2>5. /\ BatchDisk' \cap InDiskQueue' = {}
        /\ Range(mg'.left) \cap (InDiskQueue' \cup BatchDisk' \cup Victim') = {}
    BY <1>0, <1>l, <2>2, <2>4 DEF ExclusiveDisk
  <2> QED
    BY <1>0, <1>l, <2>2, <2>3, <2>5 DEF ExclusiveDisk
<1>4. CASE FlushSort
  <2> DEFINE batch == Paired(Range(fl.ms), fl.ds)
  <2>1. /\ fl'.ds = {} /\ fl'.copy = InSomeRun(batch)
        /\ fl.pc = "disk" /\ fl'.pc = "copy" /\ UNCHANGED diskQueues
    BY <1>0, <1>4 DEF FlushSort, FlusherState
  <2>2. \A p \in batch : p[2] \in fl.ds
    <3>1. Range(fl.ms) \in SUBSET MemSlabs
      BY <1>f, Contents
    <3> QED
      BY <1>f, <3>1, PairedIsInjective
  <2> HIDE DEF batch
  <2>3. fl'.copy \subseteq batch
    BY <2>1, RunTypes
  <2>4. BatchDisk' \subseteq BatchDisk
    BY <2>1, <2>2, <2>3 DEF BatchDisk
  <2>5. Victim' = Victim
    BY <2>1 DEF Victim
  <2> QED
    BY <1>0, <1>l, <2>1, <2>4, <2>5, DiskStays
<1>5. CASE FlushCopy
  <2>1. PICK p \in fl.copy :
          /\ used_dsinfoq' = Append(used_dsinfoq, p[2])
          /\ fl' = [fl EXCEPT !.copy = @ \ {p}]
    BY ZenonT(40), <1>5 DEF FlushCopy
  <2> DEFINE x == p[2]
  <2>2. /\ fl.pc = "copy" /\ fl.ds = {} /\ fl'.ds = fl.ds /\ fl'.pc = fl.pc
        /\ fl'.copy = fl.copy \ {p} /\ p \in Pairs
        /\ UNCHANGED <<free_dsinfoq, disk_evict_sinfoq>>
        /\ \A q \in fl.copy : p[2] = q[2] => p = q
    BY <1>0, <1>5, <1>f, <2>1 DEF FlushCopy, FlusherInv, FlusherState
  <2>3. x \in DiskSlabs
    BY <2>2 DEF Pairs
  <2>4. BatchDisk = BatchDisk' \cup {x} /\ x \notin BatchDisk'
    BY <2>2 DEF BatchDisk
  <2> HIDE DEF x
  <2>5. x \notin InDiskQueue
    BY <1>0, <2>4 DEF ExclusiveDisk
  <2>6. /\ Range(used_dsinfoq') = Range(used_dsinfoq) \cup {x}
        /\ IsInjective(used_dsinfoq')
    BY <1>0, <2>1, <2>3, <2>5, Enqueued DEF ExclusiveDisk, InDiskQueue, x
  <2>7. Victim' = {} /\ Victim = {}
    BY <2>2 DEF Victim
  <2>8. InDiskQueue' = InDiskQueue \cup {x}
    BY <2>2, <2>6 DEF InDiskQueue
  <2>9. BatchDisk' \cap InDiskQueue' = {}
    BY <1>0, <2>4, <2>8 DEF ExclusiveDisk
  <2>10. InDiskQueue' \cup BatchDisk' = InDiskQueue \cup BatchDisk
    BY <2>4, <2>8
  <2>11. /\ Range(free_dsinfoq') \cap (Range(used_dsinfoq') \cup Range(disk_evict_sinfoq')) = {}
         /\ Range(used_dsinfoq') \cap Range(disk_evict_sinfoq') = {}
    BY <1>0, <2>2, <2>5, <2>6 DEF ExclusiveDisk, InDiskQueue
  <2> QED
    BY <1>0, <1>l, <2>2, <2>6, <2>7, <2>9, <2>10, <2>11 DEF ExclusiveDisk
<1>6. CASE FlushBegin \/ FlushPop \/ FlushCheck \/ FlushPutBack \/ FlushUnindex
           \/ FlushCount \/ FlushWait
  <2>1. /\ fl'.ds = fl.ds /\ fl'.copy = fl.copy /\ fl'.victim = fl.victim
        /\ fl'.pc = "unindex" <=> fl.pc = "unindex"
        /\ UNCHANGED diskQueues
    BY ZenonT(40), <1>0, <1>6 DEF FlushBegin, FlushPop, FlushCheck, FlushPutBack,
         FlushUnindex, FlushCount, FlushWait, FlusherState
  <2>2. BatchDisk' = BatchDisk /\ Victim' = Victim
    BY <2>1 DEF BatchDisk, Victim
  <2> QED
    BY <1>0, <1>l, <2>1, <2>2, DiskStays
<1> QED
  BY <1>1, <1>2, <1>3, <1>4, <1>5, <1>6 DEF Flusher

(* The migrator takes disk slabs from the used queue, keeps them while it  *)
(* reads, and hands each one to disk_evict_sinfoq_.                        *)
LEMMA MigratorDisk ==
  ASSUME Inv, Migrator
  PROVE  ExclusiveDisk'
<1>0. /\ mg \in MigratorState /\ ExclusiveDisk
      /\ used_dsinfoq \in Seq(DiskSlabs) /\ disk_evict_sinfoq \in Seq(DiskSlabs)
  BY DEF Inv, TypeOK
<1>m. mg.left \in Seq(DiskSlabs)
  BY <1>0 DEF MigratorState
<1>c. UNCHANGED <<fl, free_dsinfoq>>
  BY DEF Migrator, MigratorLeaves, MigrateBegin, MigratePop, MigrateUncount, MigrateRead,
         MigrateEvict, MigrateCount, FlushDBPut, FlushDBTime, FlushDBNext
<1>b. BatchDisk' = BatchDisk /\ Victim' = Victim
  BY <1>c DEF BatchDisk, Victim
<1>1. CASE MigratePop
  <2> DEFINE x == Head(used_dsinfoq)
  <2>1. /\ used_dsinfoq # << >> /\ used_dsinfoq' = Tail(used_dsinfoq)
        /\ mg'.left = Append(mg.left, x) /\ UNCHANGED disk_evict_sinfoq
    BY <1>0, <1>1 DEF MigratePop, MigratorState
  <2>2. /\ Range(used_dsinfoq) = Range(used_dsinfoq') \cup {x} /\ x \in DiskSlabs
        /\ x \notin Range(used_dsinfoq') /\ IsInjective(used_dsinfoq')
    BY <1>0, <2>1, Dequeue DEF ExclusiveDisk
  <2> HIDE DEF x
  <2>3. InDiskQueue = InDiskQueue' \cup {x} /\ x \notin InDiskQueue'
    BY <1>0, <1>c, <2>1, <2>2 DEF ExclusiveDisk, InDiskQueue
  <2>4. x \notin Range(mg.left) /\ x \notin BatchDisk /\ x \notin Victim
    BY <1>0, <2>3 DEF ExclusiveDisk
  <2>5. Range(mg'.left) = Range(mg.left) \cup {x} /\ IsInjective(mg'.left)
    BY <1>0, <1>m, <2>1, <2>2, <2>4, Enqueued DEF ExclusiveDisk
  <2>6. /\ BatchDisk' \cap InDiskQueue' = {}
        /\ Victim' \cap (InDiskQueue' \cup BatchDisk') = {}
        /\ Range(mg'.left) \cap (InDiskQueue' \cup BatchDisk' \cup Victim') = {}
    BY <1>0, <1>b, <2>3, <2>4, <2>5 DEF ExclusiveDisk
  <2>7. /\ Range(free_dsinfoq') \cap (Range(used_dsinfoq') \cup Range(disk_evict_sinfoq')) = {}
        /\ Range(used_dsinfoq') \cap Range(disk_evict_sinfoq') = {}
    BY <1>0, <1>c, <2>1, <2>2 DEF ExclusiveDisk
  <2> QED
    BY <1>0, <1>c, <2>1, <2>2, <2>5, <2>6, <2>7 DEF ExclusiveDisk
<1>2. CASE MigrateEvict
  <2> DEFINE x == Head(mg.left)
  <2>1. /\ mg.left # << >> /\ mg'.left = Tail(mg.left)
        /\ disk_evict_sinfoq' = Append(disk_evict_sinfoq, x)
        /\ UNCHANGED used_dsinfoq
    BY <1>0, <1>2 DEF MigrateEvict, MigratorState
  <2>2. /\ Range(mg.left) = Range(mg'.left) \cup {x} /\ x \in DiskSlabs
        /\ x \notin Range(mg'.left) /\ IsInjective(mg'.left)
    BY <1>0, <1>m, <2>1, Dequeue DEF ExclusiveDisk
  <2> HIDE DEF x
  <2>3. x \notin InDiskQueue /\ x \notin BatchDisk /\ x \notin Victim
    BY <1>0, <2>2 DEF ExclusiveDisk
  <2>4. /\ Range(disk_evict_sinfoq') = Range(disk_evict_sinfoq) \cup {x}
        /\ IsInjective(disk_evict_sinfoq')
    BY <1>0, <2>1, <2>2, <2>3, Enqueued DEF ExclusiveDisk, InDiskQueue
  <2>5. InDiskQueue' = InDiskQueue \cup {x}
    BY <1>c, <2>1, <2>4 DEF InDiskQueue
  <2>6. /\ BatchDisk' \cap InDiskQueue' = {}
        /\ Victim' \cap (InDiskQueue' \cup BatchDisk') = {}
        /\ Range(mg'.left) \cap (InDiskQueue' \cup BatchDisk' \cup Victim') = {}
    BY <1>0, <1>b, <2>2, <2>3, <2>5 DEF ExclusiveDisk
  <2>7. /\ Range(free_dsinfoq') \cap (Range(used_dsinfoq') \cup Range(disk_evict_sinfoq')) = {}
        /\ Range(used_dsinfoq') \cap Range(disk_evict_sinfoq') = {}
    BY <1>0, <1>c, <2>1, <2>3, <2>4 DEF ExclusiveDisk, InDiskQueue
  <2> QED
    BY <1>0, <1>c, <2>1, <2>2, <2>4, <2>6, <2>7 DEF ExclusiveDisk
<1>3. CASE FlushDBNext /\ mg.i = Len(mg.ds)
  <2>1. mg'.left = << >> /\ UNCHANGED <<used_dsinfoq, disk_evict_sinfoq>>
    BY <1>3 DEF FlushDBNext, IdleMigrator
  <2>2. Range(mg'.left) = {} /\ IsInjective(mg'.left)
    BY <2>1 DEF Range, IsInjective
  <2>3. InDiskQueue' = InDiskQueue
    BY <1>c, <2>1 DEF InDiskQueue
  <2> QED
    BY <1>0, <1>b, <1>c, <2>1, <2>2, <2>3 DEF ExclusiveDisk
<1>4. CASE \/ MigrateBegin \/ MigrateUncount \/ MigrateRead \/ MigrateCount
           \/ FlushDBPut \/ FlushDBTime \/ (FlushDBNext /\ mg.i # Len(mg.ds))
  <2>1. mg'.left = mg.left /\ UNCHANGED <<used_dsinfoq, disk_evict_sinfoq>>
    BY <1>0, <1>4 DEF MigrateBegin, MigrateUncount, MigrateRead, MigrateCount,
         FlushDBPut, FlushDBTime, FlushDBNext, MigratorState
  <2> QED
    BY <1>0, <1>b, <1>c, <2>1, DiskStays DEF diskQueues
<1> QED
  BY <1>1, <1>2, <1>3, <1>4 DEF Migrator

(* No step lets two owners have a disk slab.                               *)
LEMMA NextDisk ==
  ASSUME Inv, [Next]_vars
  PROVE  ExclusiveDisk'
<1>1. CASE Flusher
  BY <1>1, FlusherDisk
<1>2. CASE Migrator
  BY <1>2, MigratorDisk
<1>3. CASE \/ \E s \in Series : Put(s)
           \/ \E c \in Classes : Writer(c)
           \/ PoolThread \/ WorkloadDone \/ UNCHANGED vars
  <2>1. UNCHANGED <<diskQueues, fl, mg>>
    BY <1>3 DEF Put, PutOpen, PutFree, PutEvict, Writer, Redirect, Recycle,
         WriteNew, WriteMore, StoreItem, PushFull, CountFull, ForgetSlab,
         AssertFails, WriterLeaves,
         PoolThread, OptWriteToSSD, WorkloadDone, vars
  <2>2. BatchDisk' = BatchDisk /\ Victim' = Victim
    BY <2>1 DEF BatchDisk, Victim
  <2> QED
    BY <2>1, <2>2, DiskStays DEF Inv
<1> QED
  BY <1>1, <1>2, <1>3 DEF Next

-----------------------------------------------------------------------------
(* The chunk ConPutKV is called with is a chunk.                           *)
LEMMA PutChunk ==
  ASSUME Inv, NEW s \in Series, CanPut(s)
  PROVE  <<s, next[s]>> \in Chunk
<1>1. next[s] \in Nat /\ next[s] >= 1 /\ next[s] <= Quota[s]
  BY DEF Inv, TypeOK, CanPut
<1>2. Quota[s] \in 0 .. MaxChunk /\ MaxChunk \in Nat
  BY SlabAssumption
<1> QED
  BY <1>1, <1>2 DEF Chunk

(* A slab that is going to be written has room for the item.               *)
LEMMA PutClass ==
  ASSUME Inv, NEW s \in Series, Put(s)
  PROVE  ClassInv' /\ FreeInv'
<1> DEFINE c == ClassOf[s]
<1>0. /\ c \in Classes /\ ctable \in [Classes -> ClassState] /\ ClassInv /\ FreeInv
      /\ free_msinfoq \in Seq(MemSlabs) /\ NoSlab \notin MemSlabs
  BY SlabAssumption DEF Inv, TypeOK
<1>1. <<s, next[s]>> \in Chunk /\ UNCHANGED mem
  BY PutChunk DEF Put, PutOpen, PutFree, PutEvict
<1> HIDE DEF c
<1>2. CASE PutOpen(s)
  <2>1. /\ ctable' = [ctable EXCEPT ![c].pc = "write", ![c].chunk = <<s, next[s]>>]
        /\ ctable[c].pc = "idle" /\ ctable[c].slab # NoSlab
        /\ UNCHANGED free_msinfoq
    BY <1>2 DEF PutOpen, CanPut, memQueues, c
  <2>2. /\ ctable'[c].pc = "write" /\ ctable'[c].chunk = <<s, next[s]>>
        /\ ctable'[c].slab = ctable[c].slab /\ ctable[c].slab \in MemSlabs
        /\ \A b \in Classes : b # c => ctable'[b] = ctable[b]
    BY <1>0, <2>1 DEF ClassState
  <2> QED
    BY <1>0, <1>1, <2>1, <2>2 DEF ClassInv, FreeInv
<1>3. CASE PutFree(s)
  <2> DEFINE x == Head(free_msinfoq)
  <2>1. /\ ctable' = [ctable EXCEPT ![c].pc = "write", ![c].chunk = <<s, next[s]>>,
                                    ![c].slab = x]
        /\ free_msinfoq # << >> /\ free_msinfoq' = Tail(free_msinfoq)
    BY <1>3 DEF PutFree, c
  <2>2. Range(free_msinfoq) = Range(free_msinfoq') \cup {x} /\ x \in MemSlabs
    BY <1>0, <2>1, Dequeue
  <2> HIDE DEF x
  <2>3. /\ ctable'[c].pc = "write" /\ ctable'[c].chunk = <<s, next[s]>>
        /\ ctable'[c].slab = x
        /\ \A b \in Classes : b # c => ctable'[b] = ctable[b]
    BY <1>0, <2>1 DEF ClassState
  <2> QED
    BY <1>0, <1>1, <2>2, <2>3 DEF ClassInv, FreeInv
<1>4. CASE PutEvict(s)
  <2> DEFINE pair == Head(mem_evict_sinfoq)
             keys == KeysOf(mem[pair[1]])
  <2>1. /\ ctable' = [ctable EXCEPT ![c].pc = "redirect",
                                    ![c].chunk = <<s, next[s]>>,
                                    ![c].pair = pair, ![c].keys = keys]
        /\ ctable[c].slab = NoSlab /\ UNCHANGED free_msinfoq
    BY <1>4 DEF PutEvict, c
  <2> HIDE DEF pair, keys
  <2>2. /\ ctable'[c].pc = "redirect" /\ ctable'[c].chunk = <<s, next[s]>>
        /\ ctable'[c].slab = NoSlab
        /\ \A b \in Classes : b # c => ctable'[b] = ctable[b]
    BY <1>0, <2>1 DEF ClassState
  <2> QED
    BY <1>0, <1>1, <2>1, <2>2 DEF ClassInv, FreeInv
<1> QED
  BY <1>2, <1>3, <1>4 DEF Put

(* Recycling makes room; an item that fills the slab ends the writing, and *)
(* no other class writes the same slab.                                    *)
LEMMA WriterClass ==
  ASSUME Inv, NEW c \in Classes, Writer(c)
  PROVE  ClassInv' /\ FreeInv'
<1>0. /\ ctable \in [Classes -> ClassState] /\ mem \in [MemSlabs -> SlabInfo]
      /\ ClassInv /\ FreeInv /\ ExclusiveMem /\ NoSlab \notin MemSlabs
      /\ Range(free_msinfoq) \subseteq MemSlabs
  BY SlabAssumption, Contents DEF Inv, TypeOK
<1>1. UNCHANGED free_msinfoq
  BY DEF Writer, Redirect, Recycle, WriteNew, WriteMore, StoreItem, PushFull,
         CountFull, ForgetSlab, AssertFails, memQueues
<1>2. CASE Redirect(c)
  <2>1. PICK k \in ctable[c].keys : ctable' = [ctable EXCEPT ![c].keys = @ \ {k}]
    BY ZenonT(40), <1>2 DEF Redirect
  <2>2. \A b \in Classes :
          /\ ctable'[b].slab = ctable[b].slab /\ ctable'[b].chunk = ctable[b].chunk
          /\ ctable'[b].pc = ctable[b].pc
    BY <1>0, <2>1 DEF ClassState
  <2>3. UNCHANGED mem
    BY <1>2 DEF Redirect
  <2> QED
    BY <1>0, <1>1, <2>2, <2>3 DEF ClassInv, FreeInv
<1>3. CASE Recycle(c)
  <2> DEFINE m == ctable[c].pair[1]
  <2>1. /\ ctable' = [ctable EXCEPT ![c].pc = "write", ![c].slab = m,
                                    ![c].pair = NoPair]
        /\ ctable[c].pc = "redirect" /\ ctable[c].chunk \in Chunk
        /\ mem' = [mem EXCEPT ![m] = FreeSlab(@)]
    BY <1>0, <1>3 DEF Recycle, ClassInv
  <2>2. m \in MemSlabs
    <3> DEFINE pair == ctable[c].pair
    <3>1. pair \in Pairs
      BY <1>0 DEF ClassState
    <3> HIDE DEF pair
    <3>2. pair[1] \in MemSlabs
      BY <3>1 DEF Pairs
    <3> QED
      BY <3>2 DEF pair
  <2> HIDE DEF m
  <2>3. /\ ctable'[c].pc = "write" /\ ctable'[c].chunk = ctable[c].chunk
        /\ ctable'[c].slab = m
        /\ \A b \in Classes : b # c => ctable'[b] = ctable[b]
    BY <1>0, <2>1 DEF ClassState
  <2>4. mem'[m].nalloc < Items
    <3>1. mem'[m] = FreeSlab(mem[m]) /\ mem[m] \in SlabInfo
      BY <1>0, <2>1, <2>2
    <3>2. mem'[m].nalloc = 0
      BY <3>1, InfoTypes
    <3> QED
      BY <3>2, SlabAssumption
  <2>5. \A n \in MemSlabs : n # m => mem'[n] = mem[n]
    BY <1>0, <2>1
  <2>6. ClassInv'
    BY <1>0, <2>1, <2>2, <2>3, <2>4, <2>5 DEF ClassInv
  <2>7. FreeInv'
    BY <1>0, <1>1, <2>4, <2>5 DEF FreeInv
  <2> QED
    BY <2>6, <2>7
<1>4. ASSUME NEW ents, StoreItem(c, ents), ctable[c].pc = "write"
      PROVE  ClassInv' /\ FreeInv'
  <2> DEFINE m == ctable[c].slab
             nalloc == mem[m].nalloc + 1
             pc == IF nalloc = Items THEN "push" ELSE "idle"
             items == [mem[m].items EXCEPT ![nalloc] = ctable[c].chunk]
             rec == [nalloc |-> nalloc, ents |-> ents, cid |-> c, items |-> items]
  <2>1. /\ ctable' = [ctable EXCEPT ![c].chunk = NoChunk, ![c].pc = pc]
        /\ mem' = [mem EXCEPT ![m] = rec]
    BY <1>4 DEF StoreItem
  <2>2. m \in MemSlabs /\ nalloc \in 1 .. Items
    BY <1>4, AtWrite
  <2>3. rec.nalloc = nalloc
    OBVIOUS
  <2>4. pc \in {"push", "idle"} /\ (pc = "idle" => nalloc < Items)
    <3> HIDE DEF nalloc
    <3> QED
      BY <2>2, SlabAssumption
  <2>5. m \in OwnedBy(c)
    BY <1>4, <2>2 DEF OwnedBy, Published
  <2>6. ASSUME NEW b \in Classes, b # c, ctable[b].pc \in {"idle", "write"}
        PROVE  ctable[b].slab # m
    <3>1. ctable[b].slab = m => m \in OwnedBy(b)
      BY <2>2, <2>6 DEF OwnedBy, Published
    <3> QED
      BY <1>0, <2>5, <2>6, <3>1 DEF ExclusiveMem
  <2>7. m \notin Range(free_msinfoq)
    BY <1>0, <2>5 DEF ExclusiveMem, InMemQueue
  <2>8. ctable'[c].slab = m
    BY <1>0, <2>1 DEF ClassState
  <2> HIDE DEF m, nalloc, pc, rec
  <2>9. /\ ctable'[c].pc = pc
        /\ \A b \in Classes : b # c => ctable'[b] = ctable[b]
    BY <1>0, <2>1 DEF ClassState
  <2>10. /\ mem'[m].nalloc = nalloc
         /\ \A n \in MemSlabs : n # m => mem'[n] = mem[n]
    BY <1>0, <2>1, <2>2, <2>3
  <2>11. FreeInv'
    BY <1>0, <1>1, <2>7, <2>10 DEF FreeInv
  <2>12. ClassInv'
    <3> SUFFICES ASSUME NEW b \in Classes
                 PROVE  /\ ctable'[b].pc \in {"write", "push", "count", "forget"}
                             => ctable'[b].slab \in MemSlabs
                        /\ ctable'[b].pc = "redirect" => ctable'[b].slab = NoSlab
                        /\ ctable'[b].pc \in {"redirect", "write"}
                             => ctable'[b].chunk \in Chunk
                        /\ ctable'[b].pc \in {"idle", "write"} /\ ctable'[b].slab \in MemSlabs
                             => mem'[ctable'[b].slab].nalloc < Items
      BY DEF ClassInv
    <3>1. CASE b = c
      BY <3>1, <2>2, <2>4, <2>8, <2>9, <2>10
    <3>2. CASE b # c
      BY <3>2, <1>0, <2>6, <2>9, <2>10 DEF ClassInv
    <3> QED
      BY <3>1, <3>2
  <2> QED
    BY <2>11, <2>12
<1>5. CASE WriteNew(c)
  BY <1>4, <1>5 DEF WriteNew
<1>6. CASE WriteMore(c)
  BY <1>4, <1>6 DEF WriteMore
<1>7. CASE PushFull(c)
  <2>1. /\ ctable' = [ctable EXCEPT ![c].pc = "count"] /\ ctable[c].pc = "push"
        /\ UNCHANGED mem
    BY <1>7 DEF PushFull
  <2>2. /\ ctable'[c].pc = "count" /\ ctable'[c].slab = ctable[c].slab
        /\ \A b \in Classes : b # c => ctable'[b] = ctable[b]
    BY <1>0, <2>1 DEF ClassState
  <2> QED
    BY <1>0, <1>1, <2>1, <2>2 DEF ClassInv, FreeInv
<1>8. CASE CountFull(c) \/ AssertFails(c)
  <2>1. /\ \E pc \in {"forget", "abort"} : ctable' = [ctable EXCEPT ![c].pc = pc]
        /\ ctable[c].pc \in {"count", "forget"} /\ UNCHANGED mem
    BY <1>8 DEF CountFull, AssertFails
  <2>2. /\ ctable'[c].pc \in {"forget", "abort"} /\ ctable'[c].slab = ctable[c].slab
        /\ \A b \in Classes : b # c => ctable'[b] = ctable[b]
    BY <1>0, <2>1 DEF ClassState
  <2> QED
    BY <1>0, <1>1, <2>1, <2>2 DEF ClassInv, FreeInv
<1>9. CASE ForgetSlab(c)
  <2>1. /\ ctable' = [ctable EXCEPT ![c].pc = "idle", ![c].slab = NoSlab]
        /\ UNCHANGED mem
    BY <1>9 DEF ForgetSlab
  <2>2. /\ ctable'[c].pc = "idle" /\ ctable'[c].slab = NoSlab
        /\ \A b \in Classes : b # c => ctable'[b] = ctable[b]
    BY <1>0, <2>1 DEF ClassState
  <2> QED
    BY <1>0, <1>1, <2>1, <2>2 DEF ClassInv, FreeInv
<1> QED
  BY <1>2, <1>3, <1>5, <1>6, <1>7, <1>8, <1>9 DEF Writer

(* No other thread touches the classes or the bytes in memory.             *)
LEMMA NextClass ==
  ASSUME Inv, [Next]_vars
  PROVE  ClassInv' /\ FreeInv'
<1>1. CASE \E s \in Series : Put(s)
  BY <1>1, PutClass
<1>2. CASE \E c \in Classes : Writer(c)
  BY <1>2, WriterClass
<1>3. CASE Flusher \/ PoolThread \/ Migrator \/ WorkloadDone \/ UNCHANGED vars
  <2>1. UNCHANGED <<ctable, mem, free_msinfoq>>
    BY <1>3 DEF Flusher, FlusherLeaves, FlushBegin, FlushPop, FlushCheck,
         FlushPutBack, FlushTakeFree, FlushTakeEvicted, FlushUnindex,
         FlushFreeDisk, FlushSort, FlushCopy, FlushCount, FlushWait,
         PoolThread, OptWriteToSSD, Migrator, MigratorLeaves, MigrateBegin,
         MigratePop, MigrateUncount, MigrateRead, MigrateEvict, MigrateCount, FlushDBPut,
         FlushDBTime, FlushDBNext, WorkloadDone, memQueues, vars
  <2> QED
    BY <2>1 DEF Inv, ClassInv, FreeInv
<1> QED
  BY <1>1, <1>2, <1>3 DEF Next

-----------------------------------------------------------------------------
(* The flusher's program points and its unused disk slabs.                 *)
LEMMA NextFlusher ==
  ASSUME Inv, [Next]_vars
  PROVE  FlusherInv'
<1>0. /\ fl \in FlusherState /\ num \in Counters /\ FlusherInv
      /\ free_dsinfoq \in Seq(DiskSlabs)
  BY DEF Inv, TypeOK
<1>f. /\ fl.ms \in Seq(MemSlabs) /\ fl.ds \in SUBSET DiskSlabs
  BY <1>0 DEF FlusherState
<1>1. CASE \/ \E s \in Series : Put(s)
           \/ \E c \in Classes : Writer(c)
           \/ PoolThread \/ Migrator \/ WorkloadDone \/ UNCHANGED vars
  <2>1. UNCHANGED <<fl, free_dsinfoq>>
    BY <1>1 DEF Put, PutOpen, PutFree, PutEvict, Writer, Redirect, Recycle,
         WriteNew, WriteMore, StoreItem, PushFull, CountFull, ForgetSlab,
         AssertFails, WriterLeaves,
         PoolThread, OptWriteToSSD, Migrator, MigratorLeaves, MigrateBegin,
         MigratePop, MigrateUncount, MigrateRead, MigrateEvict, MigrateCount, FlushDBPut,
         FlushDBTime, FlushDBNext, WorkloadDone, diskQueues, vars
  <2>2. num'.free_ds = num.free_ds
    BY <1>0, <1>1 DEF Put, PutOpen, PutFree, PutEvict, Writer, Redirect, Recycle,
         WriteNew, WriteMore, StoreItem, PushFull, CountFull, ForgetSlab, AssertFails,
         PoolThread, OptWriteToSSD, Migrator, MigrateBegin, MigratePop,
         MigrateUncount, MigrateRead, MigrateEvict, MigrateCount, FlushDBPut, FlushDBTime,
         FlushDBNext, WorkloadDone, vars, Counters
  <2> QED
    BY <1>0, <2>1, <2>2 DEF FlusherInv
<1>2. CASE FlushBegin \/ FlushCheck \/ FlushUnindex \/ FlushWait
  <2>1. /\ num' = num /\ UNCHANGED free_dsinfoq
        /\ fl'.ms = fl.ms /\ fl'.ds = fl.ds /\ fl'.copy = fl.copy
        /\ fl'.batch = fl.batch /\ fl.pc # "copy" /\ fl'.pc # "copy"
        /\ (fl'.pc \in {"check", "putback"} => fl.pc \in {"check", "putback"})
    BY <1>0, <1>2 DEF FlushBegin, FlushCheck, FlushUnindex, FlushWait,
         diskQueues, FlusherState
  <2> QED
    BY <1>0, <2>1 DEF FlusherInv
<1>3. CASE FlushPop
  <2> DEFINE ms == Append(fl.ms, Head(full_msinfoq))
  <2>1. /\ UNCHANGED <<num, free_dsinfoq>> /\ fl'.ms = ms
        /\ fl'.copy = fl.copy /\ fl'.batch = fl.batch
        /\ fl.pc # "copy" /\ fl'.pc # "copy"
    BY <1>0, <1>3 DEF FlushPop, diskQueues, FlusherState
  <2>2. ms # << >>
    <3>1. Head(full_msinfoq) \in MemSlabs
      BY <1>3, Dequeue DEF FlushPop, Inv, TypeOK
    <3> QED
      BY <1>f, <3>1, Enqueued
  <2> HIDE DEF ms
  <2> QED
    BY <1>0, <2>1, <2>2 DEF FlusherInv
<1>4. CASE FlushPutBack
  <2>1. /\ UNCHANGED <<num, free_dsinfoq>> /\ fl'.ms = Tail(fl.ms)
        /\ fl'.copy = fl.copy /\ fl'.batch = fl.batch
        /\ fl.pc = "putback"
        /\ fl'.pc = IF Len(fl.ms) = 1 THEN "idle" ELSE "putback"
    BY <1>0, <1>4 DEF FlushPutBack, diskQueues, FlusherState
  <2>2. fl.ms # << >>
    BY <1>0, <2>1 DEF FlusherInv
  <2>3. Len(fl.ms) # 1 => fl'.ms # << >>
    <3>1. Len(fl.ms) \in Nat /\ Len(fl.ms) > 0 /\ Len(fl'.ms) = Len(fl.ms) - 1
      BY <1>f, <2>1, <2>2, Dequeue
    <3>2. Len(fl.ms) # 1 => Len(fl'.ms) # 0
      BY <3>1
    <3> QED
      BY <3>2
  <2> QED
    BY <1>0, <2>1, <2>3 DEF FlusherInv
<1>5. CASE FlushTakeFree
  <2>1. /\ free_dsinfoq' = Tail(free_dsinfoq) /\ num.free_ds > 0
        /\ num'.free_ds = Minus(num.free_ds, 1)
        /\ fl'.ms = fl.ms /\ fl'.copy = fl.copy /\ fl'.batch = fl.batch
        /\ fl.pc = "disk" /\ fl'.pc = "disk"
    BY <1>0, <1>5 DEF FlushTakeFree, FlusherState, Counters
  <2>2. num.free_ds = Len(free_dsinfoq) /\ free_dsinfoq # << >>
    BY <1>0, <2>1 DEF FlusherInv
  <2>3. num'.free_ds = Len(free_dsinfoq')
    <3>1. /\ Len(free_dsinfoq) \in Nat /\ Len(free_dsinfoq) > 0
          /\ Len(free_dsinfoq') = Len(free_dsinfoq) - 1
      BY <1>0, <2>1, <2>2, Dequeue
    <3> QED
      BY <2>1, <2>2, <3>1 DEF Minus
  <2> QED
    BY <1>0, <2>1, <2>3 DEF FlusherInv
<1>6. CASE FlushTakeEvicted
  <2>1. /\ UNCHANGED free_dsinfoq /\ num'.free_ds = num.free_ds
        /\ fl'.ms = fl.ms /\ fl'.copy = fl.copy /\ fl'.batch = fl.batch
        /\ fl.pc = "disk" /\ fl'.pc = "unindex"
    BY <1>0, <1>6 DEF FlushTakeEvicted, FlusherState, Counters
  <2> QED
    BY <1>0, <2>1 DEF FlusherInv
<1>7. CASE FlushFreeDisk
  <2>1. /\ UNCHANGED <<free_dsinfoq, num>>
        /\ fl'.ms = fl.ms /\ fl'.copy = fl.copy /\ fl'.batch = fl.batch
        /\ fl.pc = "unindex" /\ fl'.pc = "disk"
    BY <1>0, <1>7 DEF FlushFreeDisk, FlusherState, diskQueues
  <2> QED
    BY <1>0, <2>1 DEF FlusherInv
<1>8. CASE FlushSort
  <2> DEFINE batch == Paired(Range(fl.ms), fl.ds)
  <2>1. /\ UNCHANGED <<free_dsinfoq, num>>
        /\ fl'.ms = << >> /\ fl'.ds = {} /\ fl'.copy = InSomeRun(batch)
        /\ fl'.batch = batch /\ fl'.pc = "copy"
    BY <1>0, <1>8 DEF FlushSort, FlusherState, diskQueues
  <2>2. \A p, q \in batch : p[1] = q[1] \/ p[2] = q[2] => p = q
    <3>1. Range(fl.ms) \in SUBSET MemSlabs
      BY <1>f, Contents
    <3> QED
      BY <1>f, <3>1, PairedIsInjective
  <2> HIDE DEF batch
  <2>3. fl'.copy \subseteq fl'.batch
    BY <2>1, RunTypes
  <2> QED
    BY <1>0, <2>1, <2>2, <2>3 DEF FlusherInv
<1>9. CASE FlushCopy
  <2>1. PICK p \in fl.copy : fl' = [fl EXCEPT !.copy = @ \ {p}]
    BY ZenonT(40), <1>9 DEF FlushCopy
  <2>2. /\ UNCHANGED <<free_dsinfoq, num>>
        /\ fl'.ms = fl.ms /\ fl'.ds = fl.ds /\ fl'.copy = fl.copy \ {p}
        /\ fl'.batch = fl.batch /\ fl'.pc = "copy" /\ fl.pc = "copy"
    BY <1>0, <1>9, <2>1 DEF FlushCopy, FlusherState
  <2> QED
    BY <1>0, <2>2 DEF FlusherInv
<1>10. CASE FlushCount
  <2>1. /\ UNCHANGED free_dsinfoq /\ num'.free_ds = num.free_ds
        /\ fl'.ms = fl.ms /\ fl'.copy = {} /\ fl'.batch = {} /\ fl'.pc = "wait"
    BY <1>0, <1>10 DEF FlushCount, FlusherState, Counters, diskQueues
  <2> QED
    BY <1>0, <2>1 DEF FlusherInv
<1> QED
  BY <1>1, <1>2, <1>3, <1>4, <1>5, <1>6, <1>7, <1>8, <1>9, <1>10 DEF Next, Flusher

(* The migrator's program points and arrays.                               *)
LEMMA NextMigrator ==
  ASSUME Inv, [Next]_vars
  PROVE  MigratorInv'
<1>0. mg \in MigratorState /\ MigratorInv /\ disk \in [DiskSlabs -> SlabInfo]
  BY DEF Inv, TypeOK
<1>m. /\ mg.ds \in Seq(DiskSlabs) /\ mg.buf \in Seq(Bytes)
      /\ mg.i \in Nat \ {0} /\ mg.e \in Nat \ {0}
      /\ Len(mg.ds) \in Nat /\ NBuf \in Nat \ {0}
  <2>1. mg.ds \in Seq(DiskSlabs)
    BY <1>0 DEF MigratorState
  <2>2. Len(mg.ds) \in Nat
    BY <2>1, Contents
  <2> QED
    BY <1>0, <2>1, <2>2, SlabAssumption DEF MigratorState
<1>1. CASE \/ \E s \in Series : Put(s)
           \/ \E c \in Classes : Writer(c)
           \/ Flusher \/ PoolThread \/ WorkloadDone \/ UNCHANGED vars
  <2>1. UNCHANGED mg
    BY <1>1 DEF Put, PutOpen, PutFree, PutEvict, Writer, Redirect, Recycle,
         WriteNew, WriteMore, StoreItem, PushFull, CountFull, ForgetSlab,
         AssertFails, WriterLeaves,
         Flusher, FlusherLeaves, FlushBegin, FlushPop, FlushCheck,
         FlushPutBack, FlushTakeFree, FlushTakeEvicted, FlushUnindex,
         FlushFreeDisk, FlushSort, FlushCopy, FlushCount, FlushWait,
         PoolThread, OptWriteToSSD, WorkloadDone, vars
  <2> QED
    BY <1>0, <2>1 DEF MigratorInv
<1>2. CASE MigrateBegin
  <2>1. /\ mg.pc = "idle" /\ mg'.pc = "pop" /\ mg'.ds = mg.ds
        /\ mg'.unread = mg.unread
    BY <1>0, <1>2 DEF MigrateBegin, MigratorState
  <2>2. Len(mg.ds) = 0
    BY <1>0, <2>1 DEF MigratorInv
  <2> QED
    BY <1>0, <1>m, <2>1, <2>2 DEF MigratorInv
<1>3. CASE MigratePop
  <2> DEFINE d == Head(used_dsinfoq)
             ds == Append(mg.ds, d)
             pc == IF Len(mg.ds) + 1 >= NBuf \/ Tail(used_dsinfoq) = << >>
                     THEN "uncount" ELSE "pop"
  <2>1. /\ mg.pc = "pop" /\ mg'.pc = pc /\ mg'.ds = ds
        /\ mg'.unread = mg.unread
    BY <1>0, <1>3 DEF MigratePop, MigratorState
  <2>2. ds # << >> /\ Len(ds) = Len(mg.ds) + 1
    <3>1. d \in DiskSlabs
      BY <1>3, Dequeue DEF MigratePop, Inv, TypeOK
    <3> QED
      BY <1>m, <3>1, Enqueued
  <2>3. Len(mg.ds) < NBuf
    BY <1>0, <2>1 DEF MigratorInv
  <2>4. pc \in {"uncount", "pop"} /\ (pc = "pop" => Len(mg.ds) + 1 < NBuf)
    BY <1>m
  <2> HIDE DEF ds, pc
  <2>5. Len(mg'.ds) <= NBuf /\ (pc = "pop" => Len(mg'.ds) < NBuf)
    BY <1>m, <2>1, <2>2, <2>3, <2>4
  <2>6. mg'.unread \subseteq 1 .. Len(mg'.ds)
    <3>1. mg.unread \subseteq 1 .. Len(mg.ds)
      BY <1>0 DEF MigratorInv
    <3> QED
      BY <1>m, <2>1, <2>2, <3>1
  <2> QED
    BY <2>1, <2>2, <2>4, <2>5, <2>6 DEF MigratorInv
<1>4. CASE MigrateUncount
  <2> DEFINE buf == [i \in 1 .. Len(mg.ds) |-> NoBytes]
  <2>1. /\ mg.pc = "uncount" /\ mg'.pc = "read" /\ mg'.ds = mg.ds
        /\ mg'.buf = buf /\ mg'.unread = 1 .. Len(mg.ds)
    BY <1>0, <1>4 DEF MigrateUncount, MigratorState
  <2>2. Len(buf) = Len(mg.ds)
    <3>1. DOMAIN buf = 1 .. Len(mg.ds) /\ buf = [i \in 1 .. Len(mg.ds) |-> buf[i]]
      OBVIOUS
    <3> HIDE DEF buf
    <3> QED
      BY <1>m, <3>1
  <2> HIDE DEF buf
  <2> QED
    BY <1>0, <2>1, <2>2 DEF MigratorInv
<1>9. CASE MigrateRead
  <2>1. PICK i \in mg.unread :
          mg' = [mg EXCEPT !.buf[i] = DiskRead(mg.ds, i), !.unread = @ \ {i},
                           !.pc = IF mg.unread = {i} THEN "evict" ELSE "read"]
    BY <1>9 DEF MigrateRead
  <2> DEFINE bytes == DiskRead(mg.ds, i)
  <2>2. /\ mg.pc = "read" /\ mg'.pc \in {"evict", "read"} /\ mg'.ds = mg.ds
        /\ mg'.buf = [mg.buf EXCEPT ![i] = bytes]
        /\ mg'.unread = mg.unread \ {i}
    BY <1>0, <1>9, <2>1 DEF MigrateRead, MigratorState
  <2>3. Len(mg'.buf) = Len(mg.buf)
    <3> HIDE DEF bytes
    <3> DEFINE b == mg.buf
    <3>1. b \in Seq(Bytes) /\ mg'.buf = [b EXCEPT ![i] = bytes]
      BY <1>m, <2>2
    <3> HIDE DEF b
    <3>2. Len(mg'.buf) = Len(b)
      BY <3>1
    <3> QED
      BY <3>2 DEF b
  <2> HIDE DEF bytes
  <2> QED
    BY <1>0, <2>2, <2>3 DEF MigratorInv
<1>5. CASE MigrateEvict
  <2>1. /\ mg.pc = "evict" /\ mg'.pc = "evict" /\ mg'.ds = mg.ds
        /\ mg'.buf = mg.buf /\ mg'.unread = mg.unread
    BY <1>0, <1>5 DEF MigrateEvict, MigratorState
  <2> QED
    BY <1>0, <2>1 DEF MigratorInv
<1>6. CASE MigrateCount \/ FlushDBTime \/ (FlushDBNext /\ mg.i # Len(mg.ds))
  <2>1. /\ mg.pc \in {"evict", "time", "put"} /\ mg'.pc = "put"
        /\ mg'.ds = mg.ds /\ mg'.buf = mg.buf /\ mg'.unread = mg.unread
    <3>1. CASE MigrateCount
      BY <1>0, <3>1 DEF MigrateCount, MigratorState
    <3>2. CASE FlushDBTime
      BY <1>0, <3>2 DEF FlushDBTime, MigratorState
    <3>3. CASE FlushDBNext /\ mg.i # Len(mg.ds)
      BY <1>0, <3>3 DEF FlushDBNext, MigratorState
    <3> QED
      BY <1>6, <3>1, <3>2, <3>3
  <2> QED
    BY <1>0, <2>1 DEF MigratorInv
<1>7. CASE FlushDBPut
  <2> DEFINE ents == disk[mg.ds[mg.i]].ents
             e == mg.e
             series == ents[e][1]
  <2>1. /\ mg.pc = "put" /\ mg.i <= Len(mg.ds) /\ e <= Len(ents)
        /\ mg'.ds = mg.ds /\ mg'.buf = mg.buf /\ mg'.i = mg.i
        /\ mg'.unread = mg.unread
        /\ \/ mg'.pc = "put"
           \/ mg'.pc = "time" /\ mg'.tms = series
    BY <1>0, <1>7 DEF FlushDBPut, MigratorState
  <2>2. series \in Series
    <3>1. /\ ents \in Seq(Entry) /\ e \in Nat \ {0} /\ e <= Len(ents)
          /\ \A j \in DOMAIN ents : ents[j][1] \in Series
      BY <1>m, <2>1, AtSlab
    <3> HIDE DEF ents, e
    <3>2. e \in DOMAIN ents
      BY <3>1
    <3> QED
      BY <3>1, <3>2
  <2> HIDE DEF series
  <2> QED
    BY <1>0, <2>1, <2>2 DEF MigratorInv
<1>8. CASE FlushDBNext /\ mg.i = Len(mg.ds)
  <2>1. mg'.pc = "idle" /\ mg'.ds = << >> /\ mg'.unread = {}
    BY <1>8 DEF FlushDBNext, IdleMigrator
  <2>2. Len(mg'.ds) = 0
    BY <2>1
  <2> QED
    BY <1>m, <2>1, <2>2 DEF MigratorInv
<1> QED
  BY <1>1, <1>2, <1>3, <1>4, <1>5, <1>6, <1>7, <1>8, <1>9
     DEF Next, Migrator

-----------------------------------------------------------------------------
(* The state the constructor of TreeSeries leaves satisfies the invariant. *)
LEMMA InitInv == Init => Inv
<1> SUFFICES ASSUME Init PROVE Inv
  OBVIOUS
<1>0. /\ NMem \in Nat \ {0} /\ NDisk \in Nat \ {0} /\ Items \in Nat \ {0}
      /\ CounterMod \in Nat /\ CounterMod > NDisk /\ NBuf \in Nat \ {0}
      /\ MaxChunk \in Nat /\ NoSlab \notin MemSlabs
  BY SlabAssumption
<1>1. /\ free_msinfoq = [i \in 1 .. NMem |-> i - 1]
      /\ free_dsinfoq = [i \in 1 .. NDisk |-> i - 1]
      /\ full_msinfoq = << >> /\ mem_evict_sinfoq = << >>
      /\ used_dsinfoq = << >> /\ disk_evict_sinfoq = << >>
      /\ fl.ms = << >> /\ fl.ds = {} /\ fl.copy = {} /\ fl.batch = {}
      /\ fl.pc = "idle" /\ mg.left = << >> /\ mg.ds = << >> /\ mg.pc = "idle"
      /\ mg.unread = {}
  BY DEF Init, IdleFlusher, IdleMigrator
<1>2. /\ free_msinfoq \in Seq(MemSlabs) /\ Len(free_msinfoq) = NMem
      /\ IsInjective(free_msinfoq)
  BY <1>0, <1>1 DEF MemSlabs, IsInjective
<1>3. /\ free_dsinfoq \in Seq(DiskSlabs) /\ Len(free_dsinfoq) = NDisk
      /\ IsInjective(free_dsinfoq)
  BY <1>0, <1>1 DEF DiskSlabs, IsInjective
<1>4. Range(<< >>) = {} /\ IsInjective(<< >>)
  BY DEF Range, IsInjective
<1>5. FreshSlab \in SlabInfo /\ FreshSlab.nalloc = 0
  <2>1. << >> \in Seq(Entry) /\ 0 \in 0 .. Items
    BY <1>0
  <2>2. NoBytes \in Bytes /\ FirstCell \in Classes
    BY SlabAssumption DEF NoBytes, Bytes
  <2> QED
    BY <2>1, <2>2 DEF FreshSlab, SlabInfo
<1>6. TypeOK
  <2>1. num \in Counters
    BY <1>0 DEF Init, Counters, Counter
  <2>2. mem \in [MemSlabs -> SlabInfo] /\ disk \in [DiskSlabs -> SlabInfo]
    BY <1>5 DEF Init
  <2>3. mass_tree \in [Key -> SlabRef \cup {Nil}]
    BY DEF Init
  <2>4. 0 \in MemSlabs /\ 0 \in DiskSlabs
    BY <1>0 DEF MemSlabs, DiskSlabs
  <2>5. ctable \in [Classes -> ClassState]
    <3>1. NoPair \in Pairs
      BY <2>4 DEF NoPair, Pairs
    <3>2. IdleClass \in ClassState
      BY <3>1 DEF IdleClass, ClassState
    <3> QED
      BY <3>2 DEF Init
  <2>6. next \in [Series -> 1 .. MaxChunk + 1]
    BY <1>0 DEF Init
  <2>7. fl \in FlusherState
    <3>1. << >> \in Seq(MemSlabs) /\ {} \in SUBSET DiskSlabs /\ {} \in SUBSET Key
          /\ {} \in SUBSET Pairs
      OBVIOUS
    <3>2. IdleFlusher \in FlusherState
      BY <2>4, <3>1 DEF IdleFlusher, FlusherState
    <3> QED
      BY <3>2 DEF Init
  <2>8. mg \in MigratorState
    <3>1. /\ << >> \in Seq(DiskSlabs) /\ << >> \in Seq(Bytes)
          /\ 1 \in Nat \ {0} /\ NoSeries \in Series \cup {NoSeries}
          /\ {} \in SUBSET Nat
      OBVIOUS
    <3>2. IdleMigrator \in MigratorState
      BY ZenonT(40), <3>1 DEF IdleMigrator, MigratorState
    <3> QED
      BY <3>2 DEF Init
  <2>9. /\ lsm \in [Key -> SUBSET Chunk]
        /\ level_flush_time \in [Series -> {0} \cup Time] /\ pool \subseteq Pairs
    BY DEF Init
  <2>10. /\ full_msinfoq \in Seq(MemSlabs) /\ mem_evict_sinfoq \in Seq(Pairs)
         /\ used_dsinfoq \in Seq(DiskSlabs) /\ disk_evict_sinfoq \in Seq(DiskSlabs)
    BY <1>1
  <2> QED
    BY <1>2, <1>3, <2>1, <2>2, <2>3, <2>5, <2>6, <2>7, <2>8, <2>9, <2>10 DEF TypeOK
<1>7. \A c \in Classes : ctable[c].slab = NoSlab /\ ctable[c].pc = "idle"
  BY DEF Init, IdleClass
<1>8. ExclusiveMem
  <2>1. Evictable = {} /\ BatchMem = {}
    BY <1>1, <1>4 DEF Evictable, BatchMem
  <2>2. \A c \in Classes : OwnedBy(c) = {}
    BY <1>0, <1>7 DEF OwnedBy, Published
  <2>3. DOMAIN mem_evict_sinfoq = {}
    BY <1>1
  <2> QED
    BY <1>1, <1>2, <1>4, <2>1, <2>2, <2>3 DEF ExclusiveMem
<1>9. ExclusiveDisk
  <2>1. BatchDisk = {} /\ Victim = {}
    BY <1>1 DEF BatchDisk, Victim
  <2> QED
    BY <1>1, <1>3, <1>4, <2>1 DEF ExclusiveDisk
<1>10. ClassInv
  BY <1>0, <1>7 DEF ClassInv
<1>11. FreeInv
  <2>1. Range(free_msinfoq) \subseteq MemSlabs
    BY <1>2, Contents
  <2>2. \A m \in MemSlabs : mem[m] = FreshSlab
    BY DEF Init
  <2> QED
    BY <1>0, <1>5, <2>1, <2>2 DEF FreeInv
<1>12. FlusherInv
  <2>1. num.free_ds = NDisk
    BY DEF Init
  <2> QED
    BY ZenonT(40), <1>1, <1>3, <2>1 DEF FlusherInv
<1>13. MigratorInv
  <2>1. Len(mg.ds) = 0
    BY <1>1
  <2> QED
    BY <1>0, <1>1, <2>1 DEF MigratorInv
<1> QED
  BY <1>6, <1>8, <1>9, <1>10, <1>11, <1>12, <1>13 DEF Inv

(* Every step of every thread keeps the types.                             *)
LEMMA NextTypes ==
  ASSUME Inv, [Next]_vars
  PROVE  TypeOK'
<1>1. CASE WorkloadDone \/ UNCHANGED vars
  BY <1>1 DEF WorkloadDone, vars, memQueues, diskQueues, Inv, TypeOK
<1> QED
  BY <1>1, PutTypes, WriterTypes, FlusherTypes, PoolTypes, MigratorTypes DEF Next

(* Every step of every thread keeps the invariant.                         *)
LEMMA NextInv == Inv /\ [Next]_vars => Inv'
<1> SUFFICES ASSUME Inv, [Next]_vars PROVE Inv'
  OBVIOUS
<1>1. TypeOK'
  BY NextTypes
<1>2. ExclusiveMem' /\ ExclusiveDisk'
  BY NextMem, NextDisk
<1>3. ClassInv' /\ FreeInv'
  BY NextClass
<1>4. FlusherInv' /\ MigratorInv'
  BY NextFlusher, NextMigrator
<1> QED
  BY <1>1, <1>2, <1>3, <1>4 DEF Inv

(* The invariant holds in every reachable state of the slab store.         *)
THEOREM Invariance == Spec => []Inv
<1> QED
  BY InitInv, NextInv, PTL DEF Spec

(* Whatever the number of slabs, series and classes, ConPutKV never writes *)
(* past the last item of a slab, no slab id leaves its pool, and no thread *)
(* dequeues from an empty queue without having checked it.  Here and below *)
(* a class that fails the assertion of TreeSeries.cpp:465 stops there: a   *)
(* build without assertions clears another class's cell instead, and from  *)
(* then on the theorems say nothing of it.                                 *)
THEOREM TypeCorrect == Spec => []TypeOK
<1>1. Inv => TypeOK
  BY DEF Inv
<1> QED
  BY Invariance, <1>1, PTL

(* A memory slab has one owner, whatever the interleaving of writers and   *)
(* flusher: between its push and the clearing of slab_id_ a slab that      *)
(* slab_id_ still names may be flushed and filled by another class, which  *)
(* then owns it alone.                                                     *)
THEOREM MemHasOneOwner == Spec => []ExclusiveMem
<1>1. Inv => ExclusiveMem
  BY DEF Inv
<1> QED
  BY Invariance, <1>1, PTL

(* A disk slab has one owner, whatever the interleaving of flusher and     *)
(* migrator.                                                               *)
THEOREM DiskHasOneOwner == Spec => []ExclusiveDisk
<1>1. Inv => ExclusiveDisk
  BY DEF Inv
<1> QED
  BY Invariance, <1>1, PTL

(* Only ConPutKV changes memory slabs, and only those its class owns.      *)
LEMMA OnlyOwnedChange ==
  ASSUME Inv, [Next]_vars,
         NEW m \in Range(full_msinfoq) \cup BatchMem \cup Evictable
  PROVE  mem'[m] = mem[m]
<1>0. /\ ctable \in [Classes -> ClassState] /\ mem \in [MemSlabs -> SlabInfo]
      /\ ExclusiveMem
  BY DEF Inv, TypeOK
<1>1. \A c \in Classes : m \notin OwnedBy(c)
  BY <1>0 DEF ExclusiveMem, InMemQueue
<1>2. CASE \E c \in Classes : Recycle(c)
  <2>1. PICK c \in Classes : Recycle(c)
    BY <1>2
  <2> DEFINE x == ctable[c].pair[1]
  <2>2. x \in MemSlabs
    <3> DEFINE pair == ctable[c].pair
    <3>1. pair \in Pairs
      BY <1>0 DEF ClassState
    <3> HIDE DEF pair
    <3>2. pair[1] \in MemSlabs
      BY <3>1 DEF Pairs
    <3> QED
      BY <3>2 DEF pair
  <2>3. x \in OwnedBy(c) /\ mem' = [mem EXCEPT ![x] = FreeSlab(@)]
    BY <2>1, <2>2 DEF Recycle, OwnedBy, Published
  <2> HIDE DEF x
  <2> QED
    BY <1>0, <1>1, <2>3
<1>3. CASE \E c \in Classes : WriteNew(c) \/ WriteMore(c)
  <2>1. PICK c \in Classes : WriteNew(c) \/ WriteMore(c)
    BY <1>3
  <2> DEFINE x == ctable[c].slab
  <2>2. ctable[c].pc = "write" /\ \E ents : StoreItem(c, ents)
    BY <2>1 DEF WriteNew, WriteMore
  <2>3. PICK ents : StoreItem(c, ents)
    BY <2>2
  <2>4. \E rec : mem' = [mem EXCEPT ![x] = rec]
    BY ZenonT(40), <2>3 DEF StoreItem
  <2>5. x \in MemSlabs
    BY <2>2 DEF Inv, ClassInv
  <2>6. x \in OwnedBy(c)
    BY <2>2, <2>5 DEF OwnedBy, Published
  <2> HIDE DEF x
  <2> QED
    BY <1>0, <1>1, <2>4, <2>6
<1>4. CASE ~ \E c \in Classes : Recycle(c) \/ WriteNew(c) \/ WriteMore(c)
  <2>1. UNCHANGED mem
    BY <1>4 DEF Next, Put, PutOpen, PutFree, PutEvict, Writer, Redirect, PushFull,
         CountFull, ForgetSlab, AssertFails, Flusher, FlusherLeaves, FlushBegin, FlushPop, FlushCheck,
         FlushPutBack, FlushTakeFree, FlushTakeEvicted, FlushUnindex,
         FlushFreeDisk, FlushSort, FlushCopy, FlushCount, FlushWait,
         PoolThread, OptWriteToSSD, Migrator, MigratorLeaves, MigrateBegin,
         MigratePop, MigrateUncount, MigrateRead, MigrateEvict, MigrateCount, FlushDBPut,
         FlushDBTime, FlushDBNext, WorkloadDone, vars
  <2> QED
    BY <2>1
<1> QED
  BY <1>2, <1>3, <1>4

(* From the push to the full queue until ConPutKV recycles it, a memory    *)
(* slab does not change under the flusher.                                 *)
THEOREM FullStaysPut == Spec => FullIsImmutable
<1>1. Inv /\ [Next]_vars =>
        [\A m \in Range(full_msinfoq) \cup BatchMem \cup Evictable :
           mem'[m] = mem[m]]_vars
  BY OnlyOwnedChange
<1> QED
  BY Invariance, <1>1, PTL DEF Spec, FullIsImmutable

=============================================================================
