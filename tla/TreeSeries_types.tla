-------------------------- MODULE TreeSeries_types --------------------------
(***************************************************************************)
(* The inductive invariant of module TreeSeries, lemmas about the queues   *)
(* and helpers it is built from, and the proof that every step of every    *)
(* thread keeps the types.  That a slab never holds more than Items items  *)
(* rests on the rest of the invariant: the class that writes a slab is the *)
(* only one that can.                                                      *)
(***************************************************************************)
EXTENDS TreeSeries, FiniteSetTheorems, TLAPS

(* What taking the head of a queue does to its contents.                   *)
LEMMA Dequeue ==
  ASSUME NEW S, NEW q \in Seq(S), q # << >>
  PROVE  /\ Head(q) \in S /\ Tail(q) \in Seq(S)
         /\ Len(q) \in Nat /\ Len(q) > 0 /\ Len(Tail(q)) = Len(q) - 1
         /\ Range(q) = Range(Tail(q)) \cup {Head(q)}
         /\ IsInjective(q) => /\ IsInjective(Tail(q))
                              /\ Head(q) \notin Range(Tail(q))
<1>1. /\ Head(q) \in S /\ Tail(q) \in Seq(S) /\ Head(q) = q[1]
      /\ Len(q) \in Nat /\ Len(q) > 0 /\ Len(Tail(q)) = Len(q) - 1
      /\ DOMAIN q = 1 .. Len(q) /\ DOMAIN Tail(q) = 1 .. Len(q) - 1
      /\ \A i \in 1 .. Len(q) - 1 : Tail(q)[i] = q[i + 1]
  OBVIOUS
<1>2. Range(q) = Range(Tail(q)) \cup {Head(q)}
  <2>1. \A i \in DOMAIN q : q[i] \in Range(Tail(q)) \cup {Head(q)}
    <3> SUFFICES ASSUME NEW i \in DOMAIN q, i # 1 PROVE q[i] \in Range(Tail(q))
      BY <1>1
    <3>1. i - 1 \in DOMAIN Tail(q) /\ Tail(q)[i - 1] = q[i]
      BY <1>1
    <3> QED
      BY <3>1 DEF Range
  <2>2. \A i \in DOMAIN Tail(q) : Tail(q)[i] \in Range(q)
    <3> TAKE i \in DOMAIN Tail(q)
    <3>1. i + 1 \in DOMAIN q /\ Tail(q)[i] = q[i + 1]
      BY <1>1
    <3> QED
      BY <3>1 DEF Range
  <2>3. Head(q) \in Range(q)
    BY <1>1 DEF Range
  <2> QED
    BY <2>1, <2>2, <2>3 DEF Range
<1>3. ASSUME IsInjective(q)
      PROVE  IsInjective(Tail(q)) /\ Head(q) \notin Range(Tail(q))
  <2>1. IsInjective(Tail(q))
    <3> SUFFICES ASSUME NEW i \in DOMAIN Tail(q), NEW j \in DOMAIN Tail(q),
                        Tail(q)[i] = Tail(q)[j]
                 PROVE  i = j
      BY DEF IsInjective
    <3>1. i + 1 \in DOMAIN q /\ j + 1 \in DOMAIN q /\ q[i + 1] = q[j + 1]
      BY <1>1
    <3>2. i + 1 = j + 1
      BY <1>3, <3>1 DEF IsInjective
    <3> QED
      BY <1>1, <3>2
  <2>2. ASSUME NEW i \in DOMAIN Tail(q), Tail(q)[i] = Head(q) PROVE FALSE
    <3>1. i + 1 \in DOMAIN q /\ 1 \in DOMAIN q /\ q[i + 1] = q[1] /\ i + 1 # 1
      BY <1>1, <2>2
    <3> QED
      BY <1>3, <3>1 DEF IsInjective
  <2> QED
    BY <2>1, <2>2 DEF Range
<1> QED
  BY <1>1, <1>2, <1>3

(* What appending to a queue does to its contents.                         *)
LEMMA Enqueued ==
  ASSUME NEW S, NEW q \in Seq(S), NEW e \in S
  PROVE  /\ Append(q, e) \in Seq(S) /\ Append(q, e) # << >>
         /\ Len(q) \in Nat /\ Len(Append(q, e)) = Len(q) + 1
         /\ Range(Append(q, e)) = Range(q) \cup {e}
         /\ IsInjective(q) /\ e \notin Range(q) => IsInjective(Append(q, e))
<1> DEFINE r == Append(q, e)
<1>1. /\ r \in Seq(S) /\ r # << >> /\ Len(q) \in Nat /\ Len(r) = Len(q) + 1
      /\ DOMAIN q = 1 .. Len(q) /\ DOMAIN r = 1 .. Len(q) + 1
      /\ \A i \in 1 .. Len(q) : r[i] = q[i]
      /\ r[Len(q) + 1] = e
  OBVIOUS
<1> HIDE DEF r
<1>2. \A i \in DOMAIN r : i \in DOMAIN q \/ i = Len(q) + 1
  BY <1>1
<1>3. \A i \in DOMAIN q : i \in DOMAIN r /\ r[i] = q[i]
  BY <1>1
<1>4. Len(q) + 1 \in DOMAIN r
  BY <1>1
<1>5. Range(r) = Range(q) \cup {e}
  BY <1>1, <1>2, <1>3, <1>4 DEF Range
<1>6. ASSUME IsInjective(q), e \notin Range(q) PROVE IsInjective(r)
  <2>1. \A i \in DOMAIN q : q[i] # e
    BY <1>6 DEF Range
  <2> QED
    BY <1>1, <1>2, <1>3, <1>6, <2>1 DEF IsInjective
<1> QED
  BY <1>1, <1>5, <1>6 DEF r

(* A queue holds members of the set it is a queue of.                      *)
LEMMA Contents ==
  ASSUME NEW S, NEW q \in Seq(S)
  PROVE  Range(q) \subseteq S /\ Len(q) \in Nat /\ DOMAIN q = 1 .. Len(q)
  BY DEF Range

(* uint32_t arithmetic stays in the word.                                  *)
LEMMA CounterArithmetic ==
  ASSUME NEW a \in Counter, NEW b \in Counter
  PROVE  Plus(a, b) \in Counter /\ Minus(a, b) \in Counter
  BY SlabAssumption DEF Counter, Plus, Minus

(* Slabs are finitely many.                                                *)
LEMMA FinitePools ==
  /\ IsFiniteSet(MemSlabs) /\ Cardinality(MemSlabs) = NMem
  /\ IsFiniteSet(DiskSlabs) /\ Cardinality(DiskSlabs) = NDisk
<1>1. NMem \in Nat \ {0} /\ NDisk \in Nat \ {0}
  BY SlabAssumption
<1> QED
  BY <1>1, FS_Interval DEF MemSlabs, DiskSlabs

(* The rank of an element in a sorted array determines the element.        *)
LEMMA RankIsInjective ==
  ASSUME NEW S \in SUBSET Int, IsFiniteSet(S), NEW x \in S, NEW y \in S,
         Below(S, x) = Below(S, y)
  PROVE  x = y
<1>1. ASSUME NEW a \in S, NEW b \in S, a < b
      PROVE  Below(S, a) # Below(S, b)
  <2> DEFINE A == {z \in S : z < a}
             B == {z \in S : z < b}
  <2>1. IsFiniteSet(B)
    BY FS_Subset
  <2>2. A \in SUBSET B
    <3>1. S \subseteq Int /\ a \in Int /\ b \in Int
      OBVIOUS
    <3>2. \A z \in Int : z < a => z < b
      BY <3>1, <1>1
    <3> QED
      BY ZenonT(40), <3>1, <3>2
  <2>3. a \in B /\ a \notin A
    BY <1>1
  <2>4. Cardinality(B) # Cardinality(A)
    BY <2>1, <2>2, <2>3, FS_Subset
  <2> QED
    BY <2>4 DEF Below
<1>2. x < y \/ y < x \/ x = y
  OBVIOUS
<1> QED
  BY <1>1, <1>2

(* Sorting both arrays pairs no slab twice.                                *)
LEMMA PairedIsInjective ==
  ASSUME NEW M \in SUBSET MemSlabs, NEW D \in SUBSET DiskSlabs
  PROVE  /\ Paired(M, D) \in SUBSET Pairs
         /\ \A p \in Paired(M, D) : p[1] \in M /\ p[2] \in D
         /\ \A p, q \in Paired(M, D) : p[1] = q[1] \/ p[2] = q[2] => p = q
<1>1. IsFiniteSet(M) /\ IsFiniteSet(D) /\ M \in SUBSET Int /\ D \in SUBSET Int
  <2>1. MemSlabs \subseteq Int /\ DiskSlabs \subseteq Int
    BY DEF MemSlabs, DiskSlabs
  <2> QED
    BY ZenonT(40), <2>1, FinitePools, FS_Subset
<1>2. /\ Paired(M, D) \in SUBSET Pairs
      /\ \A p \in Paired(M, D) : /\ p[1] \in M /\ p[2] \in D
                                 /\ Below(M, p[1]) = Below(D, p[2])
                                 /\ p = <<p[1], p[2]>>
  BY DEF Paired, Pairs
<1>3. ASSUME NEW p \in Paired(M, D), NEW q \in Paired(M, D),
             p[1] = q[1] \/ p[2] = q[2]
      PROVE  p = q
  <2>1. Below(M, p[1]) = Below(M, q[1]) /\ Below(D, p[2]) = Below(D, q[2])
    BY <1>2, <1>3
  <2>2. p[1] = q[1]
    BY <1>1, <1>2, <2>1, RankIsInjective
  <2>3. p[2] = q[2]
    BY <1>1, <1>2, <2>1, RankIsInjective
  <2> QED
    BY <1>2, <2>2, <2>3
<1> QED
  BY <1>2, <1>3

(* A batch in which no memory slab occurs twice fits in a counter.         *)
LEMMA BatchFits ==
  ASSUME NEW batch \in SUBSET Pairs,
         \A p, q \in batch : p[1] = q[1] => p = q
  PROVE  Cardinality(batch) \in Counter
<1> DEFINE f == [p \in batch |-> p[1]]
<1>1. \A p \in batch : p[1] \in MemSlabs
  BY DEF Pairs
<1>2. f \in Injection(batch, MemSlabs)
  BY <1>1 DEF Injection, IsInjective
<1> HIDE DEF f
<1>3. IsFiniteSet(batch) /\ Cardinality(batch) <= NMem
  BY <1>2, FinitePools, FS_Injection
<1>4. Cardinality(batch) \in Nat
  BY <1>3, FS_CardinalityType
<1> QED
  BY <1>3, <1>4, SlabAssumption DEF Counter

-----------------------------------------------------------------------------
(* The inductive invariant.                                                *)

(* A class that is past choosing a slab has one, and a slab that will be   *)
(* written has room.                                                       *)
ClassInv ==
  \A c \in Classes :
    /\ ctable[c].pc \in {"write", "push", "count", "forget"}
         => ctable[c].slab \in MemSlabs
    /\ ctable[c].pc = "redirect" => ctable[c].slab = NoSlab
    /\ ctable[c].pc \in {"redirect", "write"} => ctable[c].chunk \in Chunk
    /\ ctable[c].pc \in {"idle", "write"} /\ ctable[c].slab \in MemSlabs
         => mem[ctable[c].slab].nalloc < Items
FreeInv == \A m \in Range(free_msinfoq) : mem[m].nalloc < Items

(* Where the flusher keeps its slabs at each program point.                *)
FlusherInv ==
  /\ num.free_ds = Len(free_dsinfoq)
  /\ fl.pc \in {"check", "putback"} => fl.ms # << >>
  /\ fl.pc # "copy" => fl.copy = {}
  /\ fl.pc = "copy" => fl.ms = << >> /\ fl.ds = {}
  /\ fl.copy \subseteq fl.batch
  /\ \A p, q \in fl.batch : p[1] = q[1] \/ p[2] = q[2] => p = q

(* How far the migrator's arrays have been filled.                         *)
MigratorInv ==
  /\ Len(mg.ds) <= NBuf
  /\ mg.pc = "idle" => mg.ds = << >>
  /\ mg.pc = "pop" => Len(mg.ds) < NBuf
  /\ mg.pc \in {"uncount", "read"} => mg.ds # << >>
  /\ mg.unread \subseteq 1 .. Len(mg.ds)
  /\ mg.pc \in {"read", "evict", "put", "time"} => Len(mg.buf) = Len(mg.ds)
  /\ mg.pc = "time" => mg.i <= Len(mg.ds) /\ mg.tms \in Series

Inv == /\ TypeOK /\ ExclusiveMem /\ ExclusiveDisk
       /\ ClassInv /\ FreeInv /\ FlusherInv /\ MigratorInv

-----------------------------------------------------------------------------
(* The helpers of the operations keep the types of what they change.       *)
LEMMA InfoTypes ==
  ASSUME NEW dinfo \in SlabInfo, NEW sinfo \in SlabInfo
  PROVE  /\ FreeSlab(dinfo) \in SlabInfo
         /\ FreeSlab(dinfo).nalloc = 0
         /\ CopyInfo(dinfo, sinfo) \in SlabInfo
         /\ KeysOf(dinfo) \in SUBSET Key
<1> DEFINE E == Seq(Entry)
<1>1. << >> \in E /\ 0 \in 0 .. Items
  BY SlabAssumption
<1>2. KeysOf(dinfo) \in SUBSET Key
  BY DEF KeysOf
<1> HIDE DEF E
<1>3. SlabInfo = [nalloc : 0 .. Items, ents : E, items : Bytes, cid : Classes]
  BY DEF SlabInfo, E
<1>4. FreeSlab(dinfo) \in SlabInfo /\ FreeSlab(dinfo).nalloc = 0
  BY <1>1, <1>3 DEF FreeSlab
<1>5. CopyInfo(dinfo, sinfo) \in SlabInfo
  BY <1>3 DEF CopyInfo
<1> QED
  BY <1>2, <1>4, <1>5

(* What Masstree operations leave in the index are slabs or nothing.       *)
LEMMA IndexTypes ==
  ASSUME NEW t \in [Key -> SlabRef \cup {Nil}], NEW k, NEW v \in SlabRef
  PROVE  /\ InsertMT(t, k, v) \in [Key -> SlabRef \cup {Nil}]
         /\ UpdateMT(t, k, v) \in [Key -> SlabRef \cup {Nil}]
         /\ RemoveMT(t, k) \in [Key -> SlabRef \cup {Nil}]
  BY ZenonT(40) DEF InsertMT, UpdateMT, RemoveMT

(* Pointers into mstable_ and dstable_ are values of the index.            *)
LEMMA RefTypes ==
  /\ \A m \in MemSlabs : MemRef(m) \in SlabRef
  /\ \A d \in DiskSlabs : DiskRef(d) \in SlabRef
  BY DEF SlabRef

(* ConPutKV up to the choice of a slab keeps the types.                    *)
LEMMA PutTypes ==
  ASSUME Inv, NEW s \in Series, Put(s)
  PROVE  TypeOK'
<1> DEFINE c == ClassOf[s]
<1>1. c \in Classes /\ ctable \in [Classes -> ClassState]
  BY SlabAssumption DEF Inv, TypeOK
<1>2. <<s, next[s]>> \in Chunk
  <2>1. next[s] \in Nat /\ next[s] >= 1 /\ next[s] <= Quota[s]
    BY DEF Inv, TypeOK, Put, PutOpen, PutFree, PutEvict, CanPut
  <2>2. Quota[s] \in 0 .. MaxChunk /\ MaxChunk \in Nat
    BY SlabAssumption
  <2> QED
    BY <2>1, <2>2 DEF Chunk
<1>3. CASE PutOpen(s)
  <2>1. ctable' \in [Classes -> ClassState]
    BY <1>1, <1>2, <1>3 DEF PutOpen, ClassState
  <2> QED
    BY <2>1, <1>3 DEF PutOpen, WriterLeaves, memQueues, diskQueues, Inv, TypeOK
<1>4. CASE PutFree(s)
  <2>1. Head(free_msinfoq) \in MemSlabs /\ free_msinfoq' \in Seq(MemSlabs)
    BY <1>4, Dequeue DEF PutFree, Inv, TypeOK
  <2>2. ctable' \in [Classes -> ClassState]
    <3> DEFINE m == Head(free_msinfoq)
               chunk == <<s, next[s]>>
               rec == [ctable[c] EXCEPT !.pc = "write", !.chunk = chunk,
                                        !.slab = m]
    <3>1. rec \in ClassState
      <4>1. m \in MemSlabs /\ chunk \in Chunk /\ ctable[c] \in ClassState
        BY <1>1, <1>2, <2>1
      <4> HIDE DEF m, chunk
      <4> QED
        BY <4>1 DEF ClassState
    <3>2. ctable' = [ctable EXCEPT ![c] = rec]
      BY ZenonT(40), <1>4 DEF PutFree
    <3> QED
      BY <1>1, <3>1, <3>2
  <2> QED
    BY <2>1, <2>2, <1>4 DEF PutFree, WriterLeaves, memQueues, diskQueues, Inv, TypeOK
<1>5. CASE PutEvict(s)
  <2> DEFINE pair == Head(mem_evict_sinfoq)
             keys == KeysOf(mem[pair[1]])
  <2>1. pair \in Pairs /\ mem_evict_sinfoq' \in Seq(Pairs)
    BY <1>5, Dequeue DEF PutEvict, Inv, TypeOK
  <2>2. keys \in SUBSET Key
    BY DEF KeysOf
  <2>3. ctable' \in [Classes -> ClassState]
    <3> DEFINE rec == [ctable[c] EXCEPT !.pc = "redirect", !.pair = pair,
                                        !.chunk = <<s, next[s]>>, !.keys = keys]
    <3>1. rec \in ClassState
      <4> HIDE DEF keys, pair
      <4> QED
        BY ZenonT(40), <1>1, <1>2, <2>1, <2>2 DEF ClassState
    <3>2. ctable' = [ctable EXCEPT ![c] = rec]
      BY ZenonT(40), <1>5 DEF PutEvict
    <3> QED
      BY <1>1, <3>1, <3>2
  <2> QED
    BY <2>1, <2>3, <1>5 DEF PutEvict, WriterLeaves, memQueues, diskQueues, Inv, TypeOK
<1> QED
  BY <1>3, <1>4, <1>5 DEF Put

(* Changing the end of an entry of a slab leaves entries.                  *)
LEMMA EntryUpdate ==
  ASSUME NEW ents \in Seq(Entry), NEW i \in DOMAIN ents, NEW t \in Time
  PROVE  /\ [ents EXCEPT ![i][3] = t] \in Seq(Entry)
<1>1. ents[i] \in Entry
  OBVIOUS
<1>2. \A e \in Entry : [e EXCEPT ![3] = t] \in Entry
  BY DEF Entry
<1> DEFINE e == [ents[i] EXCEPT ![3] = t]
<1>3. e \in Entry
  BY <1>1, <1>2
<1>4. [ents EXCEPT ![i][3] = t] = [ents EXCEPT ![i] = e]
  OBVIOUS
<1> HIDE DEF e
<1>5. [ents EXCEPT ![i] = e] \in Seq(Entry)
  BY <1>3
<1> QED
  BY ZenonT(40), <1>4, <1>5

(* What ConPutKV knows when it writes an item.                             *)
LEMMA AtWrite ==
  ASSUME Inv, NEW c \in Classes, ctable[c].pc = "write"
  PROVE  /\ ctable[c].slab \in MemSlabs /\ ctable[c].chunk \in Chunk
         /\ ctable[c].chunk[1] \in Series /\ ctable[c].chunk[2] \in 1 .. MaxChunk
         /\ mem[ctable[c].slab] \in SlabInfo
         /\ mem[ctable[c].slab].nalloc \in Nat
         /\ mem[ctable[c].slab].nalloc + 1 \in 1 .. Items
         /\ mem[ctable[c].slab].ents \in Seq(Entry)
         /\ mem[ctable[c].slab].items \in Bytes
<1>1. /\ ctable[c].slab \in MemSlabs /\ ctable[c].chunk \in Chunk
      /\ mem[ctable[c].slab].nalloc < Items
  BY DEF Inv, ClassInv
<1>2. mem[ctable[c].slab] \in SlabInfo
  BY <1>1 DEF Inv, TypeOK
<1> DEFINE info == mem[ctable[c].slab]
           chunk == ctable[c].chunk
<1> HIDE DEF info, chunk
<1>3. info.nalloc \in 0 .. Items /\ info.ents \in Seq(Entry) /\ info.items \in Bytes
  BY <1>2 DEF SlabInfo, info
<1>4. chunk[1] \in Series /\ chunk[2] \in 1 .. MaxChunk
  BY <1>1 DEF Chunk, chunk
<1>5. info.nalloc \in Nat /\ info.nalloc + 1 \in 1 .. Items
  BY <1>1, <1>3, SlabAssumption DEF info
<1> QED
  BY <1>1, <1>2, <1>3, <1>4, <1>5 DEF info, chunk

(* The times of a chunk are times.                                         *)
LEMMA ChunkTimes ==
  ASSUME NEW k \in 1 .. MaxChunk
  PROVE  Start(k) \in Time /\ End(k) \in Time
  BY SlabAssumption DEF Start, End, Time

(* Writing the item keeps the types of slab, class and series.             *)
LEMMA StoreTypes ==
  ASSUME Inv, NEW c \in Classes, ctable[c].pc = "write",
         NEW ents \in Seq(Entry), StoreItem(c, ents)
  PROVE  /\ mem' \in [MemSlabs -> SlabInfo]
         /\ ctable' \in [Classes -> ClassState]
         /\ next' \in [Series -> 1 .. MaxChunk + 1]
<1> DEFINE m == ctable[c].slab
           chunk == ctable[c].chunk
           nalloc == mem[m].nalloc + 1
           items == [mem[m].items EXCEPT ![nalloc] = chunk]
           rec == [nalloc |-> nalloc, ents |-> ents, cid |-> c, items |-> items]
           pc == IF nalloc = Items THEN "push" ELSE "idle"
<1>0. /\ mem \in [MemSlabs -> SlabInfo] /\ ctable \in [Classes -> ClassState]
      /\ next \in [Series -> 1 .. MaxChunk + 1]
  BY DEF Inv, TypeOK
<1>1. /\ m \in MemSlabs /\ chunk \in Chunk /\ chunk[1] \in Series
      /\ chunk[2] \in 1 .. MaxChunk /\ nalloc \in 1 .. Items
      /\ mem[m].items \in Bytes
  BY AtWrite
<1>2. /\ mem' = [mem EXCEPT ![m] = rec]
      /\ next' = [next EXCEPT ![chunk[1]] = chunk[2] + 1]
      /\ ctable' = [ctable EXCEPT ![c].chunk = NoChunk, ![c].pc = pc]
  BY DEF StoreItem
<1>3. rec \in SlabInfo
  <2>1. items \in Bytes
    <3> HIDE DEF nalloc, chunk, m
    <3> QED
      BY <1>1 DEF Bytes
  <2>2. nalloc \in 0 .. Items
    <3> HIDE DEF nalloc
    <3> QED
      BY <1>1
  <2> HIDE DEF nalloc, items
  <2> QED
    BY <2>1, <2>2 DEF SlabInfo
<1>4. pc \in {"idle", "push"}
  OBVIOUS
<1>5. chunk[2] + 1 \in 1 .. MaxChunk + 1
  <2> HIDE DEF chunk
  <2> QED
    BY <1>1, SlabAssumption
<1> HIDE DEF rec, pc, chunk, m, nalloc
<1>6. ctable' \in [Classes -> ClassState]
  <2> DEFINE r == [ctable[c] EXCEPT !.chunk = NoChunk, !.pc = pc]
  <2>1. r \in ClassState
    BY ZenonT(40), <1>0, <1>4 DEF ClassState
  <2>2. ctable' = [ctable EXCEPT ![c] = r]
    BY ZenonT(40), <1>2
  <2> QED
    BY <1>0, <2>1, <2>2
<1> QED
  BY <1>0, <1>1, <1>2, <1>3, <1>5, <1>6

(* The rest of ConPutKV keeps the types.                                   *)
LEMMA WriterTypes ==
  ASSUME Inv, NEW c \in Classes, Writer(c)
  PROVE  TypeOK'
<1>0. /\ ctable \in [Classes -> ClassState] /\ mem \in [MemSlabs -> SlabInfo]
      /\ mass_tree \in [Key -> SlabRef \cup {Nil}] /\ num \in Counters
  BY DEF Inv, TypeOK
<1>p. ctable[c].pair \in Pairs /\ ctable[c].keys \in SUBSET Key
  BY <1>0 DEF ClassState
<1>q. ctable[c].pair[1] \in MemSlabs /\ ctable[c].pair[2] \in DiskSlabs
  <2> DEFINE pair == ctable[c].pair
  <2> HIDE DEF pair
  <2> SUFFICES pair \in Pairs => pair[1] \in MemSlabs /\ pair[2] \in DiskSlabs
    BY <1>p DEF pair
  <2> QED
    BY DEF Pairs
<1> USE DEF WriterLeaves, memQueues, diskQueues
<1>1. CASE Redirect(c)
  <2>1. PICK k \in ctable[c].keys :
          /\ mass_tree' = UpdateMT(mass_tree, k, DiskRef(ctable[c].pair[2]))
          /\ ctable' = [ctable EXCEPT ![c].keys = @ \ {k}]
    BY ZenonT(40), <1>1 DEF Redirect
  <2>2. mass_tree' \in [Key -> SlabRef \cup {Nil}]
    BY <1>0, <1>q, <2>1, IndexTypes, RefTypes
  <2>3. ctable' \in [Classes -> ClassState]
    BY <1>0, <2>1 DEF ClassState
  <2> QED
    BY <1>1, <2>2, <2>3 DEF Redirect, Inv, TypeOK
<1>2. CASE Recycle(c)
  <2> DEFINE m == ctable[c].pair[1]
  <2>1. mem' \in [MemSlabs -> SlabInfo]
    BY <1>0, <1>2, <1>q, InfoTypes DEF Recycle
  <2>2. NoPair \in Pairs
    BY SlabAssumption DEF NoPair, Pairs, MemSlabs, DiskSlabs
  <2>3. ctable' \in [Classes -> ClassState]
    <3> DEFINE r == [ctable[c] EXCEPT !.pc = "write", !.slab = m, !.pair = NoPair]
    <3>1. r \in ClassState
      <4> HIDE DEF m
      <4>1. m \in MemSlabs
        BY <1>q DEF m
      <4> QED
        BY ZenonT(40), <1>0, <2>2, <4>1 DEF ClassState
    <3>2. ctable' = [ctable EXCEPT ![c] = r]
      BY <1>2 DEF Recycle
    <3> QED
      BY <1>0, <3>1, <3>2
  <2> QED
    BY <1>2, <2>1, <2>3 DEF Recycle, Inv, TypeOK
<1>3. CASE WriteNew(c)
  <2> DEFINE m == ctable[c].slab
             s == ctable[c].chunk[1]
             k == ctable[c].chunk[2]
             ents == Append(mem[m].ents, <<s, Start(k), End(k)>>)
  <2>1. /\ ctable[c].pc = "write" /\ StoreItem(c, ents)
        /\ mass_tree' = InsertMT(InsertMT(mass_tree, <<s, Start(k)>>, MemRef(m)),
                                 <<s, End(k)>>, MemRef(m))
    BY <1>3 DEF WriteNew
  <2>2. <<s, Start(k), End(k)>> \in Entry
    BY <2>1, AtWrite, ChunkTimes DEF Entry
  <2>3. ents \in Seq(Entry)
    BY <2>1, <2>2, AtWrite, Enqueued
  <2> HIDE DEF ents
  <2>4. mass_tree' \in [Key -> SlabRef \cup {Nil}]
    <3>1. MemRef(m) \in SlabRef
      BY <2>1, AtWrite, RefTypes
    <3>2. InsertMT(mass_tree, <<s, Start(k)>>, MemRef(m)) \in [Key -> SlabRef \cup {Nil}]
      BY <1>0, <3>1, IndexTypes
    <3> QED
      BY <2>1, <3>1, <3>2, IndexTypes
  <2>5. /\ mem' \in [MemSlabs -> SlabInfo] /\ ctable' \in [Classes -> ClassState]
        /\ next' \in [Series -> 1 .. MaxChunk + 1]
    BY <2>1, <2>3, StoreTypes
  <2> QED
    BY ZenonT(40), <2>1, <2>4, <2>5 DEF StoreItem, Inv, TypeOK
<1>4. CASE WriteMore(c)
  <2> DEFINE m == ctable[c].slab
             s == ctable[c].chunk[1]
             k == ctable[c].chunk[2]
  <2>1. PICK i \in EntriesOf(mem[m], s) :
          /\ StoreItem(c, [mem[m].ents EXCEPT ![i][3] = End(k)])
          /\ mass_tree' = InsertMT(RemoveMT(mass_tree, <<s, mem[m].ents[i][3]>>),
                                   <<s, End(k)>>, MemRef(m))
    BY <1>4 DEF WriteMore
  <2> DEFINE ents == [mem[m].ents EXCEPT ![i][3] = End(k)]
  <2>2. ctable[c].pc = "write"
    BY <1>4 DEF WriteMore
  <2>3. ents \in Seq(Entry)
    <3>1. mem[m].ents \in Seq(Entry) /\ i \in DOMAIN mem[m].ents /\ End(k) \in Time
      BY <2>1, <2>2, AtWrite, ChunkTimes DEF EntriesOf
    <3> QED
      BY <3>1, EntryUpdate
  <2> HIDE DEF ents
  <2>4. mass_tree' \in [Key -> SlabRef \cup {Nil}]
    <3>1. MemRef(m) \in SlabRef
      BY <2>2, AtWrite, RefTypes
    <3>2. RemoveMT(mass_tree, <<s, mem[m].ents[i][3]>>) \in [Key -> SlabRef \cup {Nil}]
      BY ZenonT(40), <1>0, <3>1, IndexTypes
    <3> QED
      BY <2>1, <3>1, <3>2, IndexTypes
  <2>5. /\ mem' \in [MemSlabs -> SlabInfo] /\ ctable' \in [Classes -> ClassState]
        /\ next' \in [Series -> 1 .. MaxChunk + 1]
    BY <2>1, <2>2, <2>3, StoreTypes DEF ents
  <2> QED
    BY <2>1, <2>4, <2>5 DEF StoreItem, Inv, TypeOK
<1>5. CASE PushFull(c)
  <2>1. full_msinfoq' \in Seq(MemSlabs)
    <3>1. ctable[c].slab \in MemSlabs
      BY <1>5 DEF PushFull, Inv, ClassInv
    <3> QED
      BY <1>5, <3>1, Enqueued DEF PushFull, Inv, TypeOK
  <2>2. ctable' \in [Classes -> ClassState]
    BY <1>0, <1>5 DEF PushFull, ClassState
  <2> QED
    BY <1>5, <2>1, <2>2 DEF PushFull, Inv, TypeOK
<1>6. CASE CountFull(c)
  <2>1. num' \in Counters
    <3>1. num.full_ms \in Counter /\ 1 \in Counter
      BY <1>0, SlabAssumption DEF Counters, Counter
    <3> QED
      BY <1>0, <1>6, <3>1, CounterArithmetic DEF CountFull, Counters
  <2>2. ctable' \in [Classes -> ClassState]
    BY <1>0, <1>6 DEF CountFull, ClassState
  <2> QED
    BY <1>6, <2>1, <2>2 DEF CountFull, Inv, TypeOK
<1>7. CASE ForgetSlab(c)
  <2>1. ctable' \in [Classes -> ClassState]
    <3> DEFINE rec == [ctable[c] EXCEPT !.pc = "idle", !.slab = NoSlab]
    <3>1. rec \in ClassState
      BY ZenonT(40), <1>0 DEF ClassState
    <3>2. ctable' = [ctable EXCEPT ![c] = rec]
      BY ZenonT(40), <1>7 DEF ForgetSlab
    <3> HIDE DEF rec
    <3> QED
      BY <1>0, <3>1, <3>2
  <2> QED
    BY <1>7, <2>1 DEF ForgetSlab, Inv, TypeOK
<1>8. CASE AssertFails(c)
  <2>1. ctable' \in [Classes -> ClassState]
    BY <1>0, <1>8 DEF AssertFails, ClassState
  <2> QED
    BY <1>8, <2>1 DEF AssertFails, Inv, TypeOK
<1> QED
  BY <1>1, <1>2, <1>3, <1>4, <1>5, <1>6, <1>7, <1>8 DEF Writer

(* The pwrites and the slabs of a run are pairs of the batch.              *)
LEMMA RunTypes ==
  ASSUME NEW batch, NEW p
  PROVE  InSomeRun(batch) \subseteq batch /\ Enqueue(batch, p) \subseteq batch
  BY DEF InSomeRun, Enqueue, RunOf

(* OptBatchWriteLazyFlush keeps the types.                                 *)
LEMMA FlusherTypes ==
  ASSUME Inv, Flusher
  PROVE  TypeOK'
<1>0. /\ fl \in FlusherState /\ num \in Counters /\ disk \in [DiskSlabs -> SlabInfo]
      /\ mem \in [MemSlabs -> SlabInfo]
      /\ full_msinfoq \in Seq(MemSlabs) /\ mem_evict_sinfoq \in Seq(Pairs)
      /\ free_dsinfoq \in Seq(DiskSlabs) /\ used_dsinfoq \in Seq(DiskSlabs)
      /\ disk_evict_sinfoq \in Seq(DiskSlabs) /\ pool \subseteq Pairs
      /\ mass_tree \in [Key -> SlabRef \cup {Nil}]
  BY DEF Inv, TypeOK
<1>f. /\ fl.ms \in Seq(MemSlabs) /\ fl.ds \in SUBSET DiskSlabs
      /\ fl.victim \in DiskSlabs /\ fl.keys \in SUBSET Key
      /\ fl.batch \in SUBSET Pairs /\ fl.copy \in SUBSET Pairs
  BY <1>0 DEF FlusherState
<1>n. /\ num.full_ms \in Counter /\ num.free_ds \in Counter
      /\ num.used_ds \in Counter /\ num.disk_evict \in Counter
      /\ 1 \in Counter
  BY <1>0, SlabAssumption DEF Counters, Counter
<1> USE DEF FlusherLeaves, diskQueues
<1>1. CASE FlushBegin
  <2>1. fl' \in FlusherState
    BY ZenonT(40), <1>0, <1>1 DEF FlushBegin, FlusherState
  <2> QED
    BY <1>1, <2>1 DEF FlushBegin, Inv, TypeOK
<1>2. CASE FlushPop
  <2> DEFINE ms == Append(fl.ms, Head(full_msinfoq))
             pc == IF Len(ms) >= WriteBatch \/ Tail(full_msinfoq) = << >>
                     THEN "check" ELSE "pop"
  <2>1. full_msinfoq' \in Seq(MemSlabs) /\ Head(full_msinfoq) \in MemSlabs
    BY <1>0, <1>2, Dequeue DEF FlushPop
  <2>2. ms \in Seq(MemSlabs)
    BY <1>f, <2>1, Enqueued
  <2>3. pc \in {"check", "pop"} /\ fl' = [fl EXCEPT !.ms = ms, !.pc = pc]
    BY <1>2 DEF FlushPop
  <2>4. fl' \in FlusherState
    <3> HIDE DEF ms, pc
    <3> QED
      BY <1>0, <2>2, <2>3 DEF FlusherState
  <2> QED
    BY <1>2, <2>1, <2>4 DEF FlushPop, Inv, TypeOK
<1>3. CASE FlushCheck
  <2>1. fl' \in FlusherState
    BY ZenonT(40), <1>0, <1>3 DEF FlushCheck, FlusherState
  <2> QED
    BY <1>3, <2>1 DEF FlushCheck, Inv, TypeOK
<1>4. CASE FlushPutBack
  <2>1. fl.ms # << >>
    BY <1>4 DEF FlushPutBack, Inv, FlusherInv
  <2>2. Head(fl.ms) \in MemSlabs /\ Tail(fl.ms) \in Seq(MemSlabs)
    BY <1>f, <2>1, Dequeue
  <2>3. full_msinfoq' \in Seq(MemSlabs)
    BY <1>0, <1>4, <2>2, Enqueued DEF FlushPutBack
  <2>4. fl' \in FlusherState
    <3> DEFINE ms == Tail(fl.ms)
               pc == IF Len(fl.ms) = 1 THEN "idle" ELSE "putback"
    <3>1. /\ pc \in {"idle", "putback"} /\ fl' = [fl EXCEPT !.ms = ms, !.pc = pc]
          /\ ms \in Seq(MemSlabs)
      BY <1>4, <2>2 DEF FlushPutBack
    <3> HIDE DEF ms, pc
    <3> QED
      BY <1>0, <3>1 DEF FlusherState
  <2> QED
    BY <1>4, <2>3, <2>4 DEF FlushPutBack, Inv, TypeOK
<1>5. CASE FlushTakeFree
  <2> DEFINE d == Head(free_dsinfoq)
  <2>1. free_dsinfoq # << >>
    BY <1>5 DEF FlushTakeFree, Inv, FlusherInv
  <2>2. d \in DiskSlabs /\ free_dsinfoq' \in Seq(DiskSlabs)
    BY <1>0, <1>5, <2>1, Dequeue DEF FlushTakeFree
  <2>3. fl' \in FlusherState
    <3>1. fl' = [fl EXCEPT !.ds = @ \cup {d}]
      BY <1>5 DEF FlushTakeFree
    <3> HIDE DEF d
    <3> QED
      BY <1>0, <2>2, <3>1 DEF FlusherState
  <2>4. num' \in Counters
    BY <1>0, <1>n, <1>5, CounterArithmetic DEF FlushTakeFree, Counters
  <2> QED
    BY <1>5, <2>2, <2>3, <2>4 DEF FlushTakeFree, Inv, TypeOK
<1>6. CASE FlushTakeEvicted
  <2> DEFINE d == Head(disk_evict_sinfoq)
             keys == KeysOf(disk[d])
  <2>1. d \in DiskSlabs /\ disk_evict_sinfoq' \in Seq(DiskSlabs)
    BY <1>0, <1>6, Dequeue DEF FlushTakeEvicted
  <2>2. keys \in SUBSET Key
    BY DEF KeysOf
  <2>3. fl' \in FlusherState
    <3>1. fl' = [fl EXCEPT !.pc = "unindex", !.victim = d, !.keys = keys]
      BY <1>6 DEF FlushTakeEvicted
    <3> HIDE DEF d, keys
    <3> QED
      BY <1>0, <2>1, <2>2, <3>1 DEF FlusherState
  <2>4. num' \in Counters
    BY ZenonT(40), <1>0, <1>n, <1>6, CounterArithmetic DEF FlushTakeEvicted, Counters
  <2> QED
    BY <1>6, <2>1, <2>3, <2>4 DEF FlushTakeEvicted, Inv, TypeOK
<1>7. CASE FlushUnindex
  <2>1. PICK k \in fl.keys : /\ mass_tree' = RemoveMT(mass_tree, k)
                             /\ fl' = [fl EXCEPT !.keys = @ \ {k}]
    BY <1>7 DEF FlushUnindex
  <2>2. mass_tree' \in [Key -> SlabRef \cup {Nil}]
    BY <1>0, <2>1 DEF RemoveMT
  <2>3. fl' \in FlusherState
    <3> DEFINE keys == fl.keys \ {k}
    <3>1. keys \in SUBSET Key /\ fl' = [fl EXCEPT !.keys = keys]
      BY <1>f, <2>1
    <3> HIDE DEF keys
    <3> QED
      BY ZenonT(40), <1>0, <3>1 DEF FlusherState
  <2> QED
    BY <1>7, <2>2, <2>3 DEF FlushUnindex, Inv, TypeOK
<1>8. CASE FlushFreeDisk
  <2>1. disk' \in [DiskSlabs -> SlabInfo]
    BY <1>0, <1>f, <1>8, InfoTypes DEF FlushFreeDisk
  <2>2. 0 \in DiskSlabs
    BY SlabAssumption DEF DiskSlabs
  <2>3. fl' \in FlusherState
    BY ZenonT(40), <1>0, <1>f, <1>8, <2>2 DEF FlushFreeDisk, FlusherState
  <2> QED
    BY <1>8, <2>1, <2>3 DEF FlushFreeDisk, Inv, TypeOK
<1>9. CASE FlushSort
  <2> DEFINE batch == Paired(Range(fl.ms), fl.ds)
             copy == InSomeRun(batch)
  <2>1. batch \in SUBSET Pairs /\ copy \in SUBSET Pairs
    <3>1. Range(fl.ms) \in SUBSET MemSlabs
      BY <1>f, Contents
    <3>2. batch \in SUBSET Pairs
      BY <1>f, <3>1, PairedIsInjective
    <3>3. copy \subseteq batch
      BY RunTypes
    <3> QED
      BY <3>2, <3>3
  <2>2. fl' = [fl EXCEPT !.pc = "copy", !.batch = batch, !.copy = copy,
                         !.ms = << >>, !.ds = {}]
    BY <1>9 DEF FlushSort
  <2>3. << >> \in Seq(MemSlabs)
    OBVIOUS
  <2>4. fl' \in FlusherState
    <3> HIDE DEF batch, copy
    <3> QED
      BY <1>0, <2>1, <2>2, <2>3 DEF FlusherState
  <2> QED
    BY <1>9, <2>4 DEF FlushSort, Inv, TypeOK
<1>10. CASE FlushCopy
  <2>1. PICK p \in fl.copy :
          /\ disk' = [disk EXCEPT ![p[2]] = CopyInfo(@, mem[p[1]])]
          /\ pool' = pool \cup Enqueue(fl.batch, p)
          /\ mem_evict_sinfoq' = Append(mem_evict_sinfoq, p)
          /\ used_dsinfoq' = Append(used_dsinfoq, p[2])
          /\ fl' = [fl EXCEPT !.copy = @ \ {p}]
    BY <1>10 DEF FlushCopy
  <2>2. p \in Pairs /\ p[1] \in MemSlabs /\ p[2] \in DiskSlabs
    BY <1>f DEF Pairs
  <2>3. disk' \in [DiskSlabs -> SlabInfo]
    BY ZenonT(40), <1>0, <2>1, <2>2, InfoTypes
  <2>4. pool' \subseteq Pairs
    BY <1>0, <1>f, <2>1, RunTypes
  <2>5. mem_evict_sinfoq' \in Seq(Pairs) /\ used_dsinfoq' \in Seq(DiskSlabs)
    BY <1>0, <2>1, <2>2, Enqueued
  <2>6. fl' \in FlusherState
    <3> DEFINE copy == fl.copy \ {p}
    <3>1. copy \in SUBSET Pairs /\ fl' = [fl EXCEPT !.copy = copy]
      BY <1>f, <2>1
    <3> HIDE DEF copy
    <3> QED
      BY ZenonT(40), <1>0, <3>1 DEF FlusherState
  <2> QED
    BY <1>10, <2>3, <2>4, <2>5, <2>6 DEF FlushCopy, Inv, TypeOK
<1>11. CASE FlushCount
  <2>1. Cardinality(fl.batch) \in Counter
    BY <1>f, BatchFits DEF Inv, FlusherInv
  <2>2. num' \in Counters
    BY <1>0, <1>n, <1>11, <2>1, CounterArithmetic DEF FlushCount, Counters
  <2>3. fl' \in FlusherState
    BY ZenonT(40), <1>0, <1>11 DEF FlushCount, FlusherState
  <2> QED
    BY <1>11, <2>2, <2>3 DEF FlushCount, Inv, TypeOK
<1>12. CASE FlushWait
  <2>1. fl' \in FlusherState
    BY ZenonT(40), <1>0, <1>12 DEF FlushWait, FlusherState
  <2> QED
    BY <1>12, <2>1 DEF FlushWait, Inv, TypeOK
<1> QED
  BY <1>1, <1>2, <1>3, <1>4, <1>5, <1>6, <1>7, <1>8, <1>9, <1>10, <1>11, <1>12
     DEF Flusher

(* A pwrite of the pool keeps the types.                                   *)
LEMMA PoolTypes ==
  ASSUME Inv, PoolThread
  PROVE  TypeOK'
<1>1. PICK p \in pool : OptWriteToSSD(p)
  BY DEF PoolThread
<1>2. /\ disk \in [DiskSlabs -> SlabInfo] /\ mem \in [MemSlabs -> SlabInfo]
      /\ p \in Pairs
  BY DEF Inv, TypeOK
<1>3. p[1] \in MemSlabs /\ p[2] \in DiskSlabs
  BY <1>2 DEF Pairs
<1>4. mem[p[1]].items \in Bytes
  BY <1>2, <1>3 DEF SlabInfo
<1>5. disk' \in [DiskSlabs -> SlabInfo]
  BY ZenonT(40), <1>1, <1>2, <1>3, <1>4 DEF OptWriteToSSD, SlabInfo
<1> QED
  BY <1>1, <1>5 DEF OptWriteToSSD, memQueues, diskQueues, Inv, TypeOK

(* What flush_db knows about the slab it is at.                            *)
LEMMA AtSlab ==
  ASSUME Inv, mg.i <= Len(mg.ds)
  PROVE  /\ mg.i \in DOMAIN mg.ds /\ mg.ds[mg.i] \in DiskSlabs
         /\ disk[mg.ds[mg.i]] \in SlabInfo
         /\ disk[mg.ds[mg.i]].ents \in Seq(Entry)
         /\ disk[mg.ds[mg.i]].nalloc \in 0 .. Items
         /\ \A j \in DOMAIN disk[mg.ds[mg.i]].ents :
              /\ disk[mg.ds[mg.i]].ents[j][1] \in Series
              /\ disk[mg.ds[mg.i]].ents[j][2] \in Time
              /\ disk[mg.ds[mg.i]].ents[j][3] \in Time
<1>1. mg.i \in Nat \ {0} /\ mg.ds \in Seq(DiskSlabs)
  BY DEF Inv, TypeOK, MigratorState
<1>2. mg.i \in DOMAIN mg.ds /\ mg.ds[mg.i] \in DiskSlabs
  <2> DEFINE ds == mg.ds
             i == mg.i
  <2> HIDE DEF ds, i
  <2>1. ds \in Seq(DiskSlabs) /\ i \in Nat \ {0} /\ i <= Len(ds)
    BY <1>1 DEF ds, i
  <2>2. i \in DOMAIN ds /\ ds[i] \in DiskSlabs
    BY <2>1
  <2> QED
    BY <2>2 DEF ds, i
<1> DEFINE info == disk[mg.ds[mg.i]]
<1>3. info \in SlabInfo
  BY <1>2 DEF Inv, TypeOK
<1> HIDE DEF info
<1>4. info.ents \in Seq(Entry) /\ info.nalloc \in 0 .. Items
  BY <1>3 DEF SlabInfo
<1>5. \A e \in Entry : e[1] \in Series /\ e[2] \in Time /\ e[3] \in Time
  BY DEF Entry
<1>6. \A j \in DOMAIN info.ents : info.ents[j] \in Entry
  BY <1>4
<1> QED
  BY <1>2, <1>3, <1>4, <1>5, <1>6 DEF info

(* MigrateReadLazyFlush and flush_db keep the types.                       *)
LEMMA MigratorTypes ==
  ASSUME Inv, Migrator
  PROVE  TypeOK'
<1>0. /\ mg \in MigratorState /\ num \in Counters
      /\ disk \in [DiskSlabs -> SlabInfo]
      /\ used_dsinfoq \in Seq(DiskSlabs) /\ disk_evict_sinfoq \in Seq(DiskSlabs)
      /\ lsm \in [Key -> SUBSET Chunk]
      /\ level_flush_time \in [Series -> {0} \cup Time]
  BY DEF Inv, TypeOK
<1>m. /\ mg.ds \in Seq(DiskSlabs) /\ mg.left \in Seq(DiskSlabs)
      /\ mg.buf \in Seq(Bytes) /\ mg.i \in Nat \ {0} /\ mg.e \in Nat \ {0}
  BY <1>0 DEF MigratorState
<1>n. /\ num.full_ms \in Counter /\ num.free_ds \in Counter
      /\ num.used_ds \in Counter /\ num.disk_evict \in Counter
  BY <1>0 DEF Counters
<1>d. ASSUME NEW e \in Nat \ {0}
      PROVE  [mg EXCEPT !.pc = "put", !.e = e, !.tms = NoSeries] \in MigratorState
  BY <1>0 DEF MigratorState
<1>e. ASSUME NEW i \in Nat \ {0}, NEW e \in Nat \ {0}
      PROVE  [mg EXCEPT !.i = i, !.e = e] \in MigratorState
  BY <1>0 DEF MigratorState
<1>u. ASSUME NEW e \in Nat \ {0}
      PROVE  [mg EXCEPT !.e = e] \in MigratorState
  BY ZenonT(40), <1>0 DEF MigratorState
<1>s. mg.e + 1 \in Nat \ {0} /\ mg.i + 1 \in Nat \ {0} /\ 1 \in Nat \ {0}
  BY <1>m
<1>l. Len(mg.ds) \in Counter
  <2>1. Len(mg.ds) <= NBuf /\ Len(mg.ds) \in Nat
    BY <1>m, Contents DEF Inv, MigratorInv
  <2> QED
    BY <2>1, SlabAssumption DEF Counter
<1> USE DEF MigratorLeaves, memQueues
<1>1. CASE MigrateBegin
  <2>1. mg' \in MigratorState
    BY ZenonT(40), <1>0, <1>1 DEF MigrateBegin, MigratorState
  <2> QED
    BY <1>1, <2>1 DEF MigrateBegin, Inv, TypeOK
<1>2. CASE MigratePop
  <2> DEFINE d == Head(used_dsinfoq)
             ds == Append(mg.ds, d)
             left == Append(mg.left, d)
             pc == IF Len(mg.ds) + 1 >= NBuf \/ Tail(used_dsinfoq) = << >>
                     THEN "uncount" ELSE "pop"
  <2>1. used_dsinfoq' \in Seq(DiskSlabs) /\ d \in DiskSlabs
    BY <1>0, <1>2, Dequeue DEF MigratePop
  <2>2. ds \in Seq(DiskSlabs) /\ left \in Seq(DiskSlabs)
    BY <1>m, <2>1, Enqueued
  <2>3. /\ pc \in {"uncount", "pop"}
        /\ mg' = [mg EXCEPT !.ds = ds, !.left = left, !.pc = pc]
    BY <1>2 DEF MigratePop
  <2>4. mg' \in MigratorState
    <3> HIDE DEF ds, left, pc
    <3> QED
      BY ZenonT(40), <1>0, <2>2, <2>3 DEF MigratorState
  <2> QED
    BY <1>2, <2>1, <2>4 DEF MigratePop, Inv, TypeOK
<1>3. CASE MigrateUncount
  <2> DEFINE count == Len(mg.ds)
             unread == 1 .. count
             buf == [i \in 1 .. count |-> NoBytes]
  <2>1. mg' = [mg EXCEPT !.pc = "read", !.unread = unread, !.buf = buf]
    BY <1>3 DEF MigrateUncount
  <2>2. count \in Nat
    BY <1>m, Contents
  <2>3. unread \in SUBSET Nat /\ buf \in Seq(Bytes)
    <3>1. NoBytes \in Bytes
      BY DEF NoBytes, Bytes
    <3> HIDE DEF count
    <3> QED
      BY <2>2, <3>1
  <2>4. mg' \in MigratorState
    <3> HIDE DEF buf, unread
    <3> QED
      BY ZenonT(40), <1>0, <2>1, <2>3 DEF MigratorState
  <2>5. num' \in Counters
    BY <1>0, <1>n, <1>l, <1>3, CounterArithmetic DEF MigrateUncount, Counters
  <2> QED
    BY <1>3, <2>4, <2>5 DEF MigrateUncount, Inv, TypeOK
<1>9. CASE MigrateRead
  <2>1. PICK i \in mg.unread :
          mg' = [mg EXCEPT !.buf[i] = DiskRead(mg.ds, i), !.unread = @ \ {i},
                           !.pc = IF mg.unread = {i} THEN "evict" ELSE "read"]
    BY <1>9 DEF MigrateRead
  <2> DEFINE count == Len(mg.ds)
             first == mg.ds[1]
             last == mg.ds[count]
             bytes == DiskRead(mg.ds, i)
             buf == [mg.buf EXCEPT ![i] = bytes]
             unread == mg.unread \ {i}
             pc == IF mg.unread = {i} THEN "evict" ELSE "read"
  <2>2. mg' = [mg EXCEPT !.buf = buf, !.unread = unread, !.pc = pc]
    BY <2>1
  <2>3. /\ i \in 1 .. count /\ count \in Nat
        /\ first \in DiskSlabs /\ last \in DiskSlabs /\ mg.ds[i] \in DiskSlabs
    <3>1. i \in 1 .. Len(mg.ds) /\ mg.ds # << >>
      BY <1>9 DEF MigrateRead, Inv, MigratorInv
    <3> DEFINE ds == mg.ds
    <3> HIDE DEF ds
    <3>2. ds \in Seq(DiskSlabs) /\ ds # << >> /\ i \in 1 .. Len(ds)
      BY <1>m, <3>1 DEF ds
    <3>3. /\ Len(ds) \in Nat /\ ds[1] \in DiskSlabs
          /\ ds[Len(ds)] \in DiskSlabs /\ ds[i] \in DiskSlabs
      BY <3>2
    <3> QED
      BY <3>1, <3>3 DEF ds
  <2>4. bytes \in Bytes
    <3>1. \A d \in DiskSlabs : disk[d].items \in Bytes
      BY <1>0 DEF SlabInfo
    <3> HIDE DEF first, last, count
    <3>2. last - first + 1 = count => first + i - 1 \in DiskSlabs
      BY <2>3, SlabAssumption DEF DiskSlabs
    <3>3. bytes = IF last - first + 1 = count THEN disk[first + i - 1].items
                                              ELSE disk[mg.ds[i]].items
      BY DEF DiskRead, first, last, count
    <3> HIDE DEF bytes
    <3> QED
      BY <2>3, <3>1, <3>2, <3>3
  <2>5. buf \in Seq(Bytes) /\ unread \in SUBSET Nat /\ pc \in {"evict", "read"}
    <3>1. mg.buf \in Seq(Bytes) /\ mg.unread \in SUBSET Nat
      BY <1>0 DEF MigratorState
    <3> DEFINE b == mg.buf
    <3>2. b \in Seq(Bytes) /\ i \in 1 .. Len(b)
      BY <1>9, <2>3, <3>1 DEF MigrateRead, Inv, MigratorInv
    <3> HIDE DEF bytes, b
    <3>3. [b EXCEPT ![i] = bytes] \in Seq(Bytes)
      BY <2>4, <3>2
    <3> QED
      BY <3>1, <3>3 DEF b
  <2>6. mg' \in MigratorState
    <3> HIDE DEF buf, unread, pc
    <3> QED
      BY ZenonT(40), <1>0, <2>2, <2>5 DEF MigratorState
  <2> QED
    BY <1>9, <2>6 DEF MigrateRead, Inv, TypeOK
<1>4. CASE MigrateEvict
  <2> DEFINE left == Tail(mg.left)
  <2>1. left \in Seq(DiskSlabs) /\ Head(mg.left) \in DiskSlabs
    BY <1>m, <1>4, Dequeue DEF MigrateEvict
  <2>2. disk_evict_sinfoq' \in Seq(DiskSlabs)
    BY <1>0, <1>4, <2>1, Enqueued DEF MigrateEvict
  <2>3. mg' \in MigratorState
    <3>1. mg' = [mg EXCEPT !.left = left]
      BY <1>4 DEF MigrateEvict
    <3> HIDE DEF left
    <3> QED
      BY ZenonT(40), <1>0, <2>1, <3>1 DEF MigratorState
  <2> QED
    BY <1>4, <2>2, <2>3 DEF MigrateEvict, Inv, TypeOK
<1>5. CASE MigrateCount
  <2>1. mg' \in MigratorState
    BY ZenonT(40), <1>0, <1>5 DEF MigrateCount, MigratorState
  <2>2. num' \in Counters
    BY <1>0, <1>n, <1>l, <1>5, CounterArithmetic DEF MigrateCount, Counters
  <2> QED
    BY <1>5, <2>1, <2>2 DEF MigrateCount, Inv, TypeOK
<1>6. CASE FlushDBPut
  <2> DEFINE info == disk[mg.ds[mg.i]]
             entry == info.ents[mg.e]
             buf == mg.buf[mg.i]
             put == {buf[j] : j \in {j \in 1 .. info.nalloc : buf[j][1] = entry[1]}}
  <2>1. /\ mg.pc = "put" /\ mg.i <= Len(mg.ds) /\ mg.e <= Len(info.ents)
        /\ \/ /\ \/ lsm' = [lsm EXCEPT ![<<entry[1], entry[2]>>] = put]
                 \/ lsm' = lsm
              /\ mg' = [mg EXCEPT !.pc = "time", !.tms = entry[1]]
           \/ /\ mg' = [mg EXCEPT !.e = @ + 1]
              /\ lsm' = lsm
    BY <1>6 DEF FlushDBPut
  <2>2. entry[1] \in Series
    <3> DEFINE ents == info.ents
               e == mg.e
    <3>1. ents \in Seq(Entry) /\ e \in Nat \ {0} /\ e <= Len(ents)
      BY <1>m, <2>1, AtSlab
    <3> HIDE DEF ents, e
    <3>2. e \in DOMAIN ents
      BY <3>1
    <3> QED
      BY <2>1, <3>2, AtSlab DEF ents, e
  <2>3. buf \in Bytes
    <3> DEFINE b == mg.buf
               i == mg.i
    <3>1. b \in Seq(Bytes) /\ i \in Nat \ {0} /\ i <= Len(b)
      BY <1>m, <2>1 DEF Inv, MigratorInv
    <3> HIDE DEF b, i
    <3>2. b[i] \in Bytes
      BY <3>1
    <3> QED
      BY <3>2 DEF b, i
  <2>4. put \in SUBSET Chunk
    <3>1. info.nalloc \in 0 .. Items
      BY <2>1, AtSlab
    <3> SUFFICES ASSUME NEW j \in 1 .. info.nalloc, buf[j][1] = entry[1]
                 PROVE  buf[j] \in Chunk
      OBVIOUS
    <3> HIDE DEF info, entry, buf
    <3>2. j \in 1 .. Items
      BY <3>1, SlabAssumption
    <3>3. buf[j] \in Chunk \/ buf[j] = NoChunk
      BY <2>3, <3>2 DEF Bytes
    <3>4. NoChunk[1] \notin Series
      BY SlabAssumption DEF NoChunk
    <3> QED
      BY <2>2, <3>3, <3>4
  <2>5. mg' \in MigratorState /\ lsm' \in [Key -> SUBSET Chunk]
    <3> HIDE DEF entry, put
    <3>1. lsm' \in [Key -> SUBSET Chunk]
      BY <1>0, <2>1, <2>4
    <3>2. [mg EXCEPT !.pc = "time", !.tms = entry[1]] \in MigratorState
      BY ZenonT(40), <1>0, <2>2 DEF MigratorState
    <3>3. [mg EXCEPT !.e = mg.e + 1] \in MigratorState
      BY <1>s, <1>u
    <3> QED
      BY <2>1, <3>1, <3>2, <3>3
  <2> QED
    BY <1>6, <2>5 DEF FlushDBPut, Inv, TypeOK
<1>7. CASE FlushDBTime
  <2> DEFINE ents == disk[mg.ds[mg.i]].ents
             e == mg.e
             t == IF e <= Len(ents) THEN ents[e][3] ELSE 0
  <2>1. /\ \/ level_flush_time' = [level_flush_time EXCEPT ![mg.tms] = t]
           \/ level_flush_time' = level_flush_time
        /\ mg' = [mg EXCEPT !.pc = "put", !.e = @ + 1, !.tms = NoSeries]
    BY <1>7 DEF FlushDBTime
  <2>2. mg.i <= Len(mg.ds)
    BY <1>7 DEF FlushDBTime, Inv, MigratorInv
  <2>3. t \in {0} \cup Time
    <3>1. /\ ents \in Seq(Entry) /\ e \in Nat \ {0}
          /\ \A j \in DOMAIN ents : ents[j][3] \in Time
      BY <1>m, <2>2, AtSlab
    <3> HIDE DEF ents, e
    <3>2. e <= Len(ents) => e \in DOMAIN ents
      BY <3>1
    <3> QED
      BY <3>1, <3>2
  <2>4. mg' \in MigratorState
    <3>1. mg' = [mg EXCEPT !.pc = "put", !.e = mg.e + 1, !.tms = NoSeries]
      BY <2>1
    <3> QED
      BY <1>d, <1>s, <3>1
  <2>5. level_flush_time' \in [Series -> {0} \cup Time]
    <3> HIDE DEF t
    <3> QED
      BY ZenonT(40), <1>0, <2>1, <2>3
  <2> QED
    BY <1>7, <2>4, <2>5 DEF FlushDBTime, Inv, TypeOK
<1>8. CASE FlushDBNext
  <2>1. [mg EXCEPT !.i = mg.i + 1, !.e = 1] \in MigratorState
    BY <1>e, <1>s
  <2>2. IdleMigrator \in MigratorState
    BY DEF IdleMigrator, MigratorState
  <2>3. mg' \in MigratorState
    BY <1>8, <2>1, <2>2 DEF FlushDBNext
  <2> QED
    BY <1>8, <2>3 DEF FlushDBNext, Inv, TypeOK
<1> QED
  BY <1>1, <1>2, <1>3, <1>4, <1>5, <1>6, <1>7, <1>8, <1>9 DEF Migrator

=============================================================================
