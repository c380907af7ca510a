----------------------------- MODULE TreeSeries -----------------------------
(***************************************************************************)
(* The slab store of src/TreeSeries: fixed pools of memory and SSD slabs,  *)
(* the lock-free queues slabs travel through, the Masstree index over      *)
(* them, and the three kinds of thread that run concurrently:              *)
(*                                                                         *)
(*   writers   ConPutKV, serialised per slab class by the class mutex;     *)
(*   flusher   bg_flush_tree_series running OptBatchWriteLazyFlush, plus   *)
(*             the pool threads that execute its pwrites;                  *)
(*   migrator  bg_flush_db running flush_db over MigrateReadLazyFlush.     *)
(*                                                                         *)
(* A memory slab travels  free -> open -> full -> flusher -> evictable ->  *)
(* open ...; a disk slab  free -> flusher -> used -> migrator ->           *)
(* evictable -> flusher ...  Slab ids are numbers because the flusher      *)
(* sorts by them and tests them for adjacency.                             *)
(*                                                                         *)
(* A chunk is <<s, k>>, the k-th chunk series s hands over; it spans the   *)
(* times Start(k) .. End(k).  Data are in order (TreeMemSeries.h:30), so a *)
(* chunk starts after the previous one of its series ended.                *)
(***************************************************************************)
EXTENDS Integers, Sequences, FiniteSets, Functions

CONSTANTS
  NMem,          \* nmslab_, the number of memory slabs
  NDisk,         \* ndslab_, the number of SSD slabs
  Items,         \* MAX_ALLOC_ITEM, the items (chunks) a slab holds
  WriteBatch,    \* setting_.write_batch_size_
  MigrateBatch,  \* setting_.migrate_batch_size_
  NBuf,          \* nbuf_slab_, the slabs one migration reads
  CounterMod,    \* 2^32 in the code: the atomic counters are uint32_t
  Classes,       \* the cells of ctable
  FirstCell,     \* ctable[0][0], the cell a fresh SlabInfo names
  Series,        \* the (source id, metric id) pairs
  ClassOf,       \* the cell a series falls in
  MaxChunk,      \* bound of the model: chunks per series at most
  Quota,         \* bound of the model: chunks each series hands over
  TrackLSM,      \* bound of the model: whether lsm and level_flush_time are
                 \* kept; they are only written, no guard reads them
  NoSlab         \* UINT32_MAX as a slab id

MemSlabs == 0 .. NMem - 1
DiskSlabs == 0 .. NDisk - 1

(* Pool sizes are positive.  ValidSid demands that every memory slab id    *)
(* also be a disk slab id.  Counters are wide enough for the pools.        *)
ASSUME SlabAssumption ==
  /\ NMem \in Nat \ {0} /\ NDisk \in Nat /\ NMem <= NDisk
  /\ Items \in Nat \ {0} /\ WriteBatch \in Nat \ {0}
  /\ MigrateBatch \in Nat /\ NBuf \in Nat \ {0}
  /\ CounterMod \in Nat /\ CounterMod > 2 * NDisk /\ CounterMod > 2 * NMem
  /\ MaxChunk \in Nat /\ Quota \in [Series -> 0 .. MaxChunk]
  /\ ClassOf \in [Series -> Classes] /\ FirstCell \in Classes
  /\ NBuf < CounterMod /\ TrackLSM \in BOOLEAN
  /\ NoSlab \notin MemSlabs /\ "none" \notin Series

Start(k) == 2 * k - 1
End(k) == 2 * k
Time == 1 .. 2 * MaxChunk

Chunk == Series \X (1 .. MaxChunk)
NoChunk == <<"none", 0>>
NoPair == <<0, 0>>
NoSeries == "none"
Key == Series \X Time

(* What a slab records per series it holds: source_id_, metric_id_,        *)
(* start_time_ and end_time_ at one index; idx_ is the number of entries.  *)
Entry == Series \X Time \X Time

(* The value of an index key: a pointer to a SlabInfo, whose mem_ bit says *)
(* which table it is in.                                                   *)
MemRef(m) == <<"mem", m>>
DiskRef(d) == <<"disk", d>>
Nil == <<"nil", 0>>
SlabRef == {MemRef(m) : m \in MemSlabs} \cup {DiskRef(d) : d \in DiskSlabs}

VARIABLES
  free_msinfoq, full_msinfoq, mem_evict_sinfoq,
  free_dsinfoq, used_dsinfoq, disk_evict_sinfoq,
  num,              \* the atomic counters some guard reads
  mem, disk,        \* mstable_ and dstable_, with the bytes of each slab
  mass_tree,        \* the index
  ctable,           \* per class: slab_id_ and the thread inside ConPutKV
  next,             \* per series: the chunk it will hand over next
  fl, pool,         \* the flusher, and the pwrites it left to the pool
  mg,               \* the migrator
  lsm,              \* the chunks flush_db has put in LevelDB
  level_flush_time  \* TreeMemSeries::level_flush_time_, per series

memQueues == <<free_msinfoq, full_msinfoq, mem_evict_sinfoq>>
diskQueues == <<free_dsinfoq, used_dsinfoq, disk_evict_sinfoq>>
vars == <<memQueues, diskQueues, num, mem, disk, mass_tree, ctable, next,
          fl, pool, mg, lsm, level_flush_time>>

-----------------------------------------------------------------------------
(* uint32_t arithmetic, for the operands the code adds and subtracts.      *)
Plus(a, b) == IF a + b < CounterMod THEN a + b ELSE a + b - CounterMod
(* Mutant of Minus: no wrap-around.                                        *)
MinusUnwrapped(a, b) == a - b


Minus(a, b) == IF b <= a THEN a - b ELSE a + CounterMod - b

(* Mutants: an update that inserts a missing key, an update that is a      *)
(* remove not followed by an insert, a remove that does nothing.           *)
UpdateMTInserting(t, k, v) == [t EXCEPT ![k] = v]
UpdateMTRemoving(t, k, v) == [t EXCEPT ![k] = Nil]
RemoveMTNothing(t, k) == t

(* Masstree: insert keeps an existing value, update needs one.             *)
InsertMT(t, k, v) == IF t[k] = Nil THEN [t EXCEPT ![k] = v] ELSE t
UpdateMT(t, k, v) == IF t[k] = Nil THEN t ELSE [t EXCEPT ![k] = v]
RemoveMT(t, k) == [t EXCEPT ![k] = Nil]

(* The two keys of every entry of a slab.                                  *)
KeysOf(info) ==
  {k \in Key : \E i \in DOMAIN info.ents :
                 /\ k[1] = info.ents[i][1]
                 /\ k[2] = info.ents[i][2] \/ k[2] = info.ents[i][3]}

(* FreeSlab resets what describes a slab; its bytes and its cell stay.     *)
FreeSlab(info) == [info EXCEPT !.nalloc = 0, !.ents = << >>]

(* CopyInfo copies what describes a slab; the bytes are a pwrite's affair. *)
CopyInfo(dinfo, sinfo) ==
  [dinfo EXCEPT !.nalloc = sinfo.nalloc, !.ents = sinfo.ents, !.cid = sinfo.cid]

(* Both arrays of a batch are sorted by slab id: the i-th smallest memory  *)
(* slab goes to the i-th smallest disk slab.                               *)
Below(S, x) == Cardinality({y \in S : y < x})
Paired(M, D) == {p \in M \X D : Below(M, p[1]) = Below(D, p[2])}

(* The pairs of a batch whose memory slabs FindSinfoSubSequence, called    *)
(* with count - 1, puts in some run: all, except a last one that does not  *)
(* continue the run before it (module SlabRuns has the loop).              *)
InSomeRun(batch) ==
  {p \in batch : \/ \E q \in batch : q[1] > p[1]
                 \/ \E q \in batch : q[1] = p[1] - 1
                 \/ batch = {p}}

(* The run of memory slabs p is in, and the pwrites to leave to the pool   *)
(* when the loop is at p: one for the whole run at its first slab when the *)
(* disk slabs are adjacent too, else one per slab.  A pwrite of several    *)
(* slabs moves them one at a time, in some order.                          *)
RunOf(batch, p) ==
  {q \in batch : \A m \in (p[1] .. q[1]) \cup (q[1] .. p[1]) :
                   \E r \in batch : r[1] = m}
Enqueue(batch, p) ==
  LET run == RunOf(batch, p)
      adjacent == \A q, r \in run : q[1] - r[1] = q[2] - r[2]
      first == \A q \in run : p[1] <= q[1]
  IN {q \in run : IF adjacent THEN first ELSE q = p}

NoBytes == [i \in 1 .. Items |-> NoChunk]
FreshSlab == [nalloc |-> 0, ents |-> << >>, items |-> NoBytes, cid |-> FirstCell]
IdleClass == [pc |-> "idle", slab |-> NoSlab, chunk |-> NoChunk,
              pair |-> NoPair, keys |-> {}]
IdleFlusher == [pc |-> "idle", ms |-> << >>, ds |-> {}, victim |-> 0,
                keys |-> {}, batch |-> {}, copy |-> {}]
IdleMigrator == [pc |-> "idle", ds |-> << >>, left |-> << >>, buf |-> << >>,
                 unread |-> {}, i |-> 1, e |-> 1, tms |-> NoSeries]

Init ==
  /\ free_msinfoq = [i \in 1 .. NMem |-> i - 1]
  /\ full_msinfoq = << >> /\ mem_evict_sinfoq = << >>
  /\ free_dsinfoq = [i \in 1 .. NDisk |-> i - 1]
  /\ used_dsinfoq = << >> /\ disk_evict_sinfoq = << >>
  /\ num = [full_ms |-> 0, free_ds |-> NDisk, used_ds |-> 0, disk_evict |-> 0]
  /\ mem = [m \in MemSlabs |-> FreshSlab]
  /\ disk = [d \in DiskSlabs |-> FreshSlab]
  /\ mass_tree = [k \in Key |-> Nil]
  /\ ctable = [c \in Classes |-> IdleClass]
  /\ next = [s \in Series |-> 1]
  /\ fl = IdleFlusher /\ pool = {}
  /\ mg = IdleMigrator
  /\ lsm = [k \in Key |-> {}] /\ level_flush_time = [s \in Series |-> 0]

-----------------------------------------------------------------------------
(* ConPutKV, called with the next chunk of s.  A pc other than "idle" is   *)
(* the class mutex being held.  A call that finds both queues empty        *)
(* unlocks and returns false, changing nothing; _flush_tree calls again.   *)

WriterLeaves ==
  UNCHANGED <<diskQueues, disk, fl, pool, mg, lsm, level_flush_time>>

CanPut(s) == ctable[ClassOf[s]].pc = "idle" /\ next[s] <= Quota[s]

(* The class already has an open slab.                                     *)
PutOpen(s) ==
  LET c == ClassOf[s] IN
    /\ CanPut(s) /\ ctable[c].slab # NoSlab
    /\ ctable' = [ctable EXCEPT ![c].pc = "write", ![c].chunk = <<s, next[s]>>]
    /\ WriterLeaves
    /\ UNCHANGED <<memQueues, num, mem, mass_tree, next>>

(* The class takes a slab that was never used.                             *)
PutFree(s) ==
  LET c == ClassOf[s] IN
    /\ CanPut(s) /\ ctable[c].slab = NoSlab
    /\ free_msinfoq # << >>
    /\ free_msinfoq' = Tail(free_msinfoq)
    /\ ctable' = [ctable EXCEPT ![c].pc = "write", ![c].chunk = <<s, next[s]>>,
                                ![c].slab = Head(free_msinfoq)]
    /\ WriterLeaves
    /\ UNCHANGED <<full_msinfoq, mem_evict_sinfoq, num, mem, mass_tree, next>>

(* The class recycles a flushed slab, whose keys are first redirected to   *)
(* the disk slab it was paired with.                                       *)
PutEvict(s) ==
  LET c == ClassOf[s]
      pair == Head(mem_evict_sinfoq)
  IN
    /\ CanPut(s) /\ ctable[c].slab = NoSlab
    /\ free_msinfoq = << >> /\ mem_evict_sinfoq # << >>
    /\ mem_evict_sinfoq' = Tail(mem_evict_sinfoq)
    /\ ctable' = [ctable EXCEPT ![c].pc = "redirect",
                                ![c].chunk = <<s, next[s]>>,
                                ![c].pair = pair,
                                ![c].keys = KeysOf(mem[pair[1]])]
    /\ WriterLeaves
    /\ UNCHANGED <<free_msinfoq, full_msinfoq, num, mem, mass_tree, next>>

Redirect(c) ==
  /\ ctable[c].pc = "redirect"
  /\ \E k \in ctable[c].keys :
       /\ mass_tree' = UpdateMT(mass_tree, k, DiskRef(ctable[c].pair[2]))
       /\ ctable' = [ctable EXCEPT ![c].keys = @ \ {k}]
  /\ WriterLeaves
  /\ UNCHANGED <<memQueues, num, mem, next>>

Recycle(c) ==
  LET m == ctable[c].pair[1] IN
    /\ ctable[c].pc = "redirect" /\ ctable[c].keys = {}
    /\ mem' = [mem EXCEPT ![m] = FreeSlab(@)]
    /\ ctable' = [ctable EXCEPT ![c].pc = "write", ![c].slab = m,
                                ![c].pair = NoPair]
    /\ WriterLeaves
    /\ UNCHANGED <<memQueues, num, mass_tree, next>>

(* The slab names this class's cell, and the item is written and indexed.  *)
(* Of these only the cell is read by another thread before the slab is     *)
(* published, by one in ForgetSlab, so the statements are one step.        *)
(* Unless the slab is full the call then returns true.                     *)
StoreItem(c, ents) ==
  LET m == ctable[c].slab
      chunk == ctable[c].chunk
      nalloc == mem[m].nalloc + 1
  IN
    /\ mem' = [mem EXCEPT ![m] = [nalloc |-> nalloc, ents |-> ents, cid |-> c,
                                  items |-> [@.items EXCEPT ![nalloc] = chunk]]]
    /\ next' = [next EXCEPT ![chunk[1]] = chunk[2] + 1]
    /\ ctable' = [ctable EXCEPT ![c].chunk = NoChunk,
                                ![c].pc = IF nalloc = Items THEN "push" ELSE "idle"]
    /\ WriterLeaves
    /\ UNCHANGED <<memQueues, num>>

EntriesOf(info, s) == {i \in DOMAIN info.ents : info.ents[i][1] = s}

(* A series new to the slab gets an entry and both its keys.               *)
WriteNew(c) ==
  LET m == ctable[c].slab
      s == ctable[c].chunk[1]
      k == ctable[c].chunk[2]
  IN
    /\ ctable[c].pc = "write" /\ EntriesOf(mem[m], s) = {}
    /\ StoreItem(c, Append(mem[m].ents, <<s, Start(k), End(k)>>))
    /\ mass_tree' = InsertMT(InsertMT(mass_tree, <<s, Start(k)>>, MemRef(m)),
                             <<s, End(k)>>, MemRef(m))

(* A series the slab has keeps its start and exchanges its end key.        *)
WriteMore(c) ==
  LET m == ctable[c].slab
      s == ctable[c].chunk[1]
      k == ctable[c].chunk[2]
  IN
    /\ ctable[c].pc = "write"
    /\ \E i \in EntriesOf(mem[m], s) :
         /\ \A j \in EntriesOf(mem[m], s) : i <= j
         /\ StoreItem(c, [mem[m].ents EXCEPT ![i][3] = End(k)])
         /\ mass_tree' = InsertMT(RemoveMT(mass_tree, <<s, mem[m].ents[i][3]>>),
                                  <<s, End(k)>>, MemRef(m))

(* InsertMemFullQueue pushes before it counts, and the class forgets the   *)
(* slab only after both.                                                   *)
PushFull(c) ==
  /\ ctable[c].pc = "push"
  /\ full_msinfoq' = Append(full_msinfoq, ctable[c].slab)
  /\ ctable' = [ctable EXCEPT ![c].pc = "count"]
  /\ WriterLeaves
  /\ UNCHANGED <<free_msinfoq, mem_evict_sinfoq, num, mem, mass_tree, next>>

CountFull(c) ==
  /\ ctable[c].pc = "count"
  /\ num' = [num EXCEPT !.full_ms = Plus(@, 1)]
  /\ ctable' = [ctable EXCEPT ![c].pc = "forget"]
  /\ WriterLeaves
  /\ UNCHANGED <<memQueues, mem, mass_tree, next>>

(* Mutant of ForgetSlab: the class does not forget the slab.               *)
ForgetSlabKeep(c) ==
  /\ ctable[c].pc = "forget" /\ mem[ctable[c].slab].cid = c
  /\ ctable' = [ctable EXCEPT ![c].pc = "idle"]
  /\ WriterLeaves
  /\ UNCHANGED <<memQueues, num, mem, mass_tree, next>>


(* The cell to clear is the one the slab names, although the slab has been *)
(* published: another class may have recycled it and put its own cell      *)
(* there.  The assertion demands that it still be this class's.  When it   *)
(* fails the thread stops and abort() ends the process; what the other     *)
(* threads do until then is not cut short.                                 *)
ForgetSlab(c) ==
  /\ ctable[c].pc = "forget" /\ mem[ctable[c].slab].cid = c
  /\ ctable' = [ctable EXCEPT ![c].pc = "idle", ![c].slab = NoSlab]
  /\ WriterLeaves
  /\ UNCHANGED <<memQueues, num, mem, mass_tree, next>>

AssertFails(c) ==
  /\ ctable[c].pc = "forget" /\ mem[ctable[c].slab].cid # c
  /\ ctable' = [ctable EXCEPT ![c].pc = "abort"]
  /\ WriterLeaves
  /\ UNCHANGED <<memQueues, num, mem, mass_tree, next>>

-----------------------------------------------------------------------------
(* OptBatchWriteLazyFlush, on the flusher thread: bg_flush_data calls it   *)
(* while nfull_msinfoq_ exceeds the batch size.  A call that returns at    *)
(* once changes nothing.                                                   *)

FlusherLeaves ==
  UNCHANGED <<free_msinfoq, mem, ctable, next, mg, lsm, level_flush_time>>

(* Mutant of FlushBegin: any full slab starts a batch.                     *)
FlushBeginEager ==
  /\ fl.pc = "idle"
  /\ num.full_ms > 0
  /\ full_msinfoq # << >>
  /\ fl' = [fl EXCEPT !.pc = "pop"]
  /\ FlusherLeaves
  /\ UNCHANGED <<full_msinfoq, mem_evict_sinfoq, diskQueues, num, disk,
                 mass_tree, pool>>


FlushBegin ==
  /\ fl.pc = "idle"
  /\ num.full_ms > WriteBatch
  /\ ~ /\ num.full_ms < WriteBatch
       /\ Plus(num.free_ds, num.disk_evict) < WriteBatch
  /\ full_msinfoq # << >>
  /\ fl' = [fl EXCEPT !.pc = "pop"]
  /\ FlusherLeaves
  /\ UNCHANGED <<full_msinfoq, mem_evict_sinfoq, diskQueues, num, disk,
                 mass_tree, pool>>

FlushPop ==
  LET ms == Append(fl.ms, Head(full_msinfoq)) IN
    /\ fl.pc = "pop" /\ full_msinfoq # << >>
    /\ full_msinfoq' = Tail(full_msinfoq)
    /\ fl' = [fl EXCEPT
                !.ms = ms,
                !.pc = IF Len(ms) >= WriteBatch \/ Tail(full_msinfoq) = << >>
                         THEN "check" ELSE "pop"]
    /\ FlusherLeaves
    /\ UNCHANGED <<mem_evict_sinfoq, diskQueues, num, disk, mass_tree, pool>>

(* Mutant of FlushCheck: evicted disk slabs are not counted, as in         *)
(* OptBatchWrite.                                                          *)
FlushCheckFreeOnly ==
  /\ fl.pc = "check"
  /\ fl' = [fl EXCEPT !.pc = IF Len(free_dsinfoq) < Len(fl.ms)
                               THEN "putback" ELSE "disk"]
  /\ FlusherLeaves
  /\ UNCHANGED <<full_msinfoq, mem_evict_sinfoq, diskQueues, num, disk,
                 mass_tree, pool>>

(* Without a disk slab for each of them the batch goes back to the queue.  *)
FlushCheck ==
  /\ fl.pc = "check"
  /\ fl' = [fl EXCEPT
              !.pc = IF Len(free_dsinfoq) + Len(disk_evict_sinfoq) < Len(fl.ms)
                       THEN "putback" ELSE "disk"]
  /\ FlusherLeaves
  /\ UNCHANGED <<full_msinfoq, mem_evict_sinfoq, diskQueues, num, disk,
                 mass_tree, pool>>

FlushPutBack ==
  /\ fl.pc = "putback"
  /\ full_msinfoq' = Append(full_msinfoq, Head(fl.ms))
  /\ fl' = [fl EXCEPT !.ms = Tail(fl.ms),
                      !.pc = IF Len(fl.ms) = 1 THEN "idle" ELSE "putback"]
  /\ FlusherLeaves
  /\ UNCHANGED <<mem_evict_sinfoq, diskQueues, num, disk, mass_tree, pool>>

FlushTakeFree ==
  /\ fl.pc = "disk" /\ Cardinality(fl.ds) < Len(fl.ms) /\ num.free_ds > 0
  /\ fl' = [fl EXCEPT !.ds = @ \cup {Head(free_dsinfoq)}]
  /\ free_dsinfoq' = Tail(free_dsinfoq)
  /\ num' = [num EXCEPT !.free_ds = Minus(@, 1)]
  /\ FlusherLeaves
  /\ UNCHANGED <<full_msinfoq, mem_evict_sinfoq, used_dsinfoq,
                 disk_evict_sinfoq, disk, mass_tree, pool>>

(* With no unused disk slab left, a migrated one is recycled: its keys     *)
(* leave the index one by one, then its description is reset.              *)
FlushTakeEvicted ==
  LET d == Head(disk_evict_sinfoq) IN
    /\ fl.pc = "disk" /\ Cardinality(fl.ds) < Len(fl.ms) /\ num.free_ds = 0
    /\ disk_evict_sinfoq # << >>
    /\ disk_evict_sinfoq' = Tail(disk_evict_sinfoq)
    /\ num' = [num EXCEPT !.disk_evict = Minus(@, 1)]
    /\ fl' = [fl EXCEPT !.pc = "unindex", !.victim = d,
                        !.keys = KeysOf(disk[d])]
    /\ FlusherLeaves
    /\ UNCHANGED <<full_msinfoq, mem_evict_sinfoq, free_dsinfoq, used_dsinfoq,
                   disk, mass_tree, pool>>

FlushUnindex ==
  /\ fl.pc = "unindex"
  /\ \E k \in fl.keys : /\ mass_tree' = RemoveMT(mass_tree, k)
                        /\ fl' = [fl EXCEPT !.keys = @ \ {k}]
  /\ FlusherLeaves
  /\ UNCHANGED <<full_msinfoq, mem_evict_sinfoq, diskQueues, num, disk, pool>>

FlushFreeDisk ==
  /\ fl.pc = "unindex" /\ fl.keys = {}
  /\ disk' = [disk EXCEPT ![fl.victim] = FreeSlab(@)]
  /\ fl' = [fl EXCEPT !.pc = "disk", !.ds = @ \cup {fl.victim}, !.victim = 0]
  /\ FlusherLeaves
  /\ UNCHANGED <<full_msinfoq, mem_evict_sinfoq, diskQueues, num, mass_tree,
                 pool>>

(* The arrays are sorted, and only the slabs of some run are looped over.  *)
FlushSort ==
  LET batch == Paired(Range(fl.ms), fl.ds) IN
    /\ fl.pc = "disk" /\ Cardinality(fl.ds) = Len(fl.ms)
    /\ fl' = [fl EXCEPT !.pc = "copy", !.batch = batch, !.copy = InSomeRun(batch),
                        !.ms = << >>, !.ds = {}]
    /\ FlusherLeaves
    /\ UNCHANGED <<full_msinfoq, mem_evict_sinfoq, diskQueues, num, disk,
                   mass_tree, pool>>

(* One slab of the loop: the pwrite is left to the pool, the description   *)
(* is copied, and both slabs are published, whether the pwrite has run or  *)
(* not.                                                                    *)
FlushCopy ==
  /\ fl.pc = "copy"
  /\ \E p \in fl.copy :
       /\ \A q \in fl.copy : p[1] <= q[1]
       /\ disk' = [disk EXCEPT ![p[2]] = CopyInfo(@, mem[p[1]])]
       /\ pool' = pool \cup Enqueue(fl.batch, p)
       /\ mem_evict_sinfoq' = Append(mem_evict_sinfoq, p)
       /\ used_dsinfoq' = Append(used_dsinfoq, p[2])
       /\ fl' = [fl EXCEPT !.copy = @ \ {p}]
  /\ FlusherLeaves
  /\ UNCHANGED <<full_msinfoq, free_dsinfoq, disk_evict_sinfoq, num,
                 mass_tree>>

(* The counters follow the queues; a slab of no run is counted too, and    *)
(* nothing refers to it or to the disk slab meant for it any more.         *)
FlushCount ==
  LET count == Cardinality(fl.batch) IN
    /\ fl.pc = "copy" /\ fl.copy = {}
    /\ num' = [num EXCEPT !.full_ms = Minus(@, count),
                          !.used_ds = Plus(@, count)]
    /\ fl' = [fl EXCEPT !.pc = "wait", !.batch = {}]
    /\ FlusherLeaves
    /\ UNCHANGED <<full_msinfoq, mem_evict_sinfoq, diskQueues, disk, mass_tree,
                   pool>>

FlushWait ==
  /\ fl.pc = "wait" /\ pool = {}
  /\ fl' = [fl EXCEPT !.pc = "idle"]
  /\ FlusherLeaves
  /\ UNCHANGED <<full_msinfoq, mem_evict_sinfoq, diskQueues, num, disk,
                 mass_tree, pool>>

(* A pool thread runs one of the pwrites, copying the bytes the memory     *)
(* slab holds now.                                                         *)
OptWriteToSSD(p) ==
  /\ disk' = [disk EXCEPT ![p[2]].items = mem[p[1]].items]
  /\ pool' = pool \ {p}
  /\ UNCHANGED <<memQueues, diskQueues, num, mem, mass_tree, ctable, next, fl,
                 mg, lsm, level_flush_time>>

-----------------------------------------------------------------------------
(* flush_db, on the migrator thread, over MigrateReadLazyFlush.  The       *)
(* caller's loop wants more than MigrateBatch used slabs, the callee NBuf. *)

MigratorLeaves ==
  UNCHANGED <<memQueues, free_dsinfoq, mem, disk, mass_tree, ctable, next, fl,
              pool>>

MigrateBegin ==
  /\ mg.pc = "idle"
  /\ num.used_ds > MigrateBatch
  /\ Len(used_dsinfoq) >= NBuf
  /\ mg' = [mg EXCEPT !.pc = "pop"]
  /\ MigratorLeaves
  /\ UNCHANGED <<used_dsinfoq, disk_evict_sinfoq, num, lsm, level_flush_time>>

MigratePop ==
  LET d == Head(used_dsinfoq) IN
    /\ mg.pc = "pop" /\ used_dsinfoq # << >>
    /\ used_dsinfoq' = Tail(used_dsinfoq)
    /\ mg' = [mg EXCEPT
                !.ds = Append(@, d), !.left = Append(@, d),
                !.pc = IF Len(mg.ds) + 1 >= NBuf \/ Tail(used_dsinfoq) = << >>
                         THEN "uncount" ELSE "pop"]
    /\ MigratorLeaves
    /\ UNCHANGED <<disk_evict_sinfoq, num, lsm, level_flush_time>>

MigrateUncount ==
  /\ mg.pc = "uncount"
  /\ num' = [num EXCEPT !.used_ds = Minus(@, Len(mg.ds))]
  /\ mg' = [mg EXCEPT !.pc = "read", !.unread = 1 .. Len(mg.ds),
                      !.buf = [i \in 1 .. Len(mg.ds) |-> NoBytes]]
  /\ MigratorLeaves
  /\ UNCHANGED <<used_dsinfoq, disk_evict_sinfoq, lsm, level_flush_time>>

(* The bytes the i-th slab of ds gets: all slabs are read in one go from   *)
(* the first one's offset when the first and last id suggest a run, and by *)
(* a pread of the pool each otherwise.                                     *)
DiskRead(ds, i) ==
  LET is_seq == ds[Len(ds)] - ds[1] + 1 = Len(ds) IN
    IF is_seq THEN disk[ds[1] + i - 1].items ELSE disk[ds[i]].items

(* Slab by slab, in any order, as for the pwrites.                         *)
MigrateRead ==
  /\ mg.pc = "read"
  /\ \E i \in mg.unread :
       mg' = [mg EXCEPT !.buf[i] = DiskRead(mg.ds, i), !.unread = @ \ {i},
                        !.pc = IF mg.unread = {i} THEN "evict" ELSE "read"]
  /\ MigratorLeaves
  /\ UNCHANGED <<used_dsinfoq, disk_evict_sinfoq, num, lsm, level_flush_time>>

(* Mutant of MigrateEvict: the loop pushes the first slab every time.      *)
MigrateEvictFirst ==
  /\ mg.pc = "evict" /\ mg.left # << >>
  /\ disk_evict_sinfoq' = Append(disk_evict_sinfoq, mg.ds[1])
  /\ mg' = [mg EXCEPT !.left = Tail(@)]
  /\ MigratorLeaves
  /\ UNCHANGED <<used_dsinfoq, num, lsm, level_flush_time>>

(* The slabs are offered to the flusher before anything is in the LSM.     *)
MigrateEvict ==
  /\ mg.pc = "evict" /\ mg.left # << >>
  /\ disk_evict_sinfoq' = Append(disk_evict_sinfoq, Head(mg.left))
  /\ mg' = [mg EXCEPT !.left = Tail(@)]
  /\ MigratorLeaves
  /\ UNCHANGED <<used_dsinfoq, num, lsm, level_flush_time>>

MigrateCount ==
  /\ mg.pc = "evict" /\ mg.left = << >>
  /\ num' = [num EXCEPT !.disk_evict = Plus(@, Len(mg.ds))]
  /\ mg' = [mg EXCEPT !.pc = "put"]
  /\ MigratorLeaves
  /\ UNCHANGED <<used_dsinfoq, disk_evict_sinfoq, lsm, level_flush_time>>

(* flush_db for one entry of one slab: the key and the number of items are *)
(* what the description says now, the items are those of the series among  *)
(* the bytes read before.  An entry without items is skipped.              *)
FlushDBPut ==
  LET info == disk[mg.ds[mg.i]]
      entry == info.ents[mg.e]
      buf == mg.buf[mg.i]
      put == {buf[j] : j \in {j \in 1 .. info.nalloc : buf[j][1] = entry[1]}}
  IN
    /\ mg.pc = "put" /\ mg.i <= Len(mg.ds) /\ mg.e <= Len(info.ents)
    /\ \/ /\ put # {}
          /\ lsm' = IF TrackLSM
                      THEN [lsm EXCEPT ![<<entry[1], entry[2]>>] = put] ELSE lsm
          /\ mg' = [mg EXCEPT !.pc = "time", !.tms = entry[1]]
       \/ /\ put = {}
          /\ mg' = [mg EXCEPT !.e = @ + 1]
          /\ lsm' = lsm
    /\ MigratorLeaves
    /\ UNCHANGED <<used_dsinfoq, disk_evict_sinfoq, num, level_flush_time>>

(* After the Put the end time is read from the description, where FreeSlab *)
(* may meanwhile have zeroed it.                                           *)
FlushDBTime ==
  LET ents == disk[mg.ds[mg.i]].ents IN
    /\ mg.pc = "time"
    /\ level_flush_time' =
         IF TrackLSM
           THEN [level_flush_time EXCEPT
                   ![mg.tms] = IF mg.e <= Len(ents) THEN ents[mg.e][3] ELSE 0]
           ELSE level_flush_time
    /\ mg' = [mg EXCEPT !.pc = "put", !.e = @ + 1, !.tms = NoSeries]
    /\ MigratorLeaves
    /\ UNCHANGED <<used_dsinfoq, disk_evict_sinfoq, num, lsm>>

(* The next slab, or, after the last, the read buffers are given back and  *)
(* flush_db returns.                                                       *)
FlushDBNext ==
  /\ mg.pc = "put" /\ mg.i <= Len(mg.ds)
  /\ mg.e > Len(disk[mg.ds[mg.i]].ents)
  /\ mg' = IF mg.i = Len(mg.ds) THEN IdleMigrator
                                ELSE [mg EXCEPT !.i = @ + 1, !.e = 1]
  /\ MigratorLeaves
  /\ UNCHANGED <<used_dsinfoq, disk_evict_sinfoq, num, lsm, level_flush_time>>

-----------------------------------------------------------------------------
(* The bounded workload is over and the writers are out of ConPutKV, or    *)
(* stopped in it by the assertion.                                         *)
WorkloadDone ==
  /\ \A s \in Series : next[s] > Quota[s] \/ ctable[ClassOf[s]].pc = "abort"
  /\ \A c \in Classes : ctable[c].pc \in {"idle", "abort"}
  /\ UNCHANGED vars

Writer(c) ==
  \/ Redirect(c) \/ Recycle(c) \/ WriteNew(c) \/ WriteMore(c)
  \/ PushFull(c) \/ CountFull(c) \/ ForgetSlab(c) \/ AssertFails(c)

Put(s) == PutOpen(s) \/ PutFree(s) \/ PutEvict(s)

Flusher ==
  \/ FlushBegin \/ FlushPop \/ FlushCheck \/ FlushPutBack
  \/ FlushTakeFree \/ FlushTakeEvicted \/ FlushUnindex \/ FlushFreeDisk
  \/ FlushSort \/ FlushCopy \/ FlushCount \/ FlushWait

PoolThread == \E p \in pool : OptWriteToSSD(p)

Migrator ==
  \/ MigrateBegin \/ MigratePop \/ MigrateUncount \/ MigrateRead
  \/ MigrateEvict \/ MigrateCount \/ FlushDBPut \/ FlushDBTime
  \/ FlushDBNext

Next ==
  \/ \E s \in Series : Put(s)
  \/ \E c \in Classes : Writer(c)
  \/ Flusher \/ PoolThread \/ Migrator
  \/ WorkloadDone

Spec == Init /\ [][Next]_vars

(* Threads that are inside a step finish it, the flusher, the pool and the *)
(* migrator keep running, and a writer that spins on ConPutKV gets in.     *)
FairSpec ==
  /\ Spec
  /\ WF_vars(Flusher) /\ WF_vars(PoolThread) /\ WF_vars(Migrator)
  /\ \A c \in Classes : WF_vars(Writer(c))
  /\ \A s \in Series : WF_vars(Put(s))

-----------------------------------------------------------------------------
(* The values the program's variables range over.                          *)
Bytes == [1 .. Items -> Chunk \cup {NoChunk}]
SlabInfo == [nalloc : 0 .. Items, ents : Seq(Entry), items : Bytes, cid : Classes]
Counter == 0 .. CounterMod - 1
Counters == [full_ms : Counter, free_ds : Counter, used_ds : Counter,
             disk_evict : Counter]
Pairs == MemSlabs \X DiskSlabs
ClassState ==
  [pc : {"idle", "redirect", "write", "push", "count", "forget", "abort"},
   slab : MemSlabs \cup {NoSlab}, chunk : Chunk \cup {NoChunk},
   pair : Pairs, keys : SUBSET Key]
FlusherState ==
  [pc : {"idle", "pop", "check", "putback", "disk", "unindex", "copy", "wait"},
   ms : Seq(MemSlabs), ds : SUBSET DiskSlabs, victim : DiskSlabs,
   keys : SUBSET Key, batch : SUBSET Pairs, copy : SUBSET Pairs]
MigratorState ==
  [pc : {"idle", "pop", "uncount", "read", "evict", "put", "time"},
   ds : Seq(DiskSlabs), left : Seq(DiskSlabs), buf : Seq(Bytes),
   unread : SUBSET Nat, i : Nat \ {0}, e : Nat \ {0}, tms : Series \cup {NoSeries}]

(* Every queue holds slabs of its pool, every thread is at a program point *)
(* with the arguments that point needs, a slab never holds more than       *)
(* MAX_ALLOC_ITEM items, counters fit in their word, and index keys lead   *)
(* to slabs: the types of TreeSeries.h and slab.h.                         *)
TypeOK ==
  /\ free_msinfoq \in Seq(MemSlabs) /\ full_msinfoq \in Seq(MemSlabs)
  /\ mem_evict_sinfoq \in Seq(Pairs)
  /\ free_dsinfoq \in Seq(DiskSlabs) /\ used_dsinfoq \in Seq(DiskSlabs)
  /\ disk_evict_sinfoq \in Seq(DiskSlabs)
  /\ num \in Counters
  /\ mem \in [MemSlabs -> SlabInfo] /\ disk \in [DiskSlabs -> SlabInfo]
  /\ mass_tree \in [Key -> SlabRef \cup {Nil}]
  /\ ctable \in [Classes -> ClassState]
  /\ next \in [Series -> 1 .. MaxChunk + 1]
  /\ fl \in FlusherState /\ pool \subseteq Pairs /\ mg \in MigratorState
  /\ lsm \in [Key -> SUBSET Chunk]
  /\ level_flush_time \in [Series -> {0} \cup Time]

(* Who may touch a slab.  A class owns the slab it fills until it has      *)
(* pushed it (slab_id_ still names it for a moment), and the one it is     *)
(* recycling; a pair in mem_evict_sinfoq_ owns its memory slab only.       *)
Published(c) == ctable[c].pc \in {"count", "forget", "abort"}
Evictable == {mem_evict_sinfoq[i][1] : i \in DOMAIN mem_evict_sinfoq}
BatchMem == Range(fl.ms) \cup {p[1] : p \in fl.copy}
BatchDisk == fl.ds \cup {p[2] : p \in fl.copy}
OwnedBy(c) ==
  {m \in MemSlabs : \/ m = ctable[c].slab /\ ~Published(c)
                    \/ m = ctable[c].pair[1] /\ ctable[c].pc = "redirect"}
Victim == {d \in DiskSlabs : d = fl.victim /\ fl.pc = "unindex"}

(* Each memory slab is in one place: no queue holds it twice, no two       *)
(* queues hold it, no class fills a slab another class, the flusher or a   *)
(* queue has.                                                              *)
InMemQueue == Range(free_msinfoq) \cup Range(full_msinfoq) \cup Evictable
ExclusiveMem ==
  /\ IsInjective(free_msinfoq) /\ IsInjective(full_msinfoq) /\ IsInjective(fl.ms)
  /\ \A i, j \in DOMAIN mem_evict_sinfoq :
       mem_evict_sinfoq[i][1] = mem_evict_sinfoq[j][1] => i = j
  /\ Range(free_msinfoq) \cap (Range(full_msinfoq) \cup Evictable) = {}
  /\ Range(full_msinfoq) \cap Evictable = {}
  /\ BatchMem \cap InMemQueue = {}
  /\ \A c \in Classes : OwnedBy(c) \cap (InMemQueue \cup BatchMem) = {}
  /\ \A b, c \in Classes : b # c => OwnedBy(b) \cap OwnedBy(c) = {}

(* Each disk slab is in one place: queued once, being assembled into a     *)
(* batch, or with the migrator until it hands it to disk_evict_sinfoq_.    *)
InDiskQueue ==
  Range(free_dsinfoq) \cup Range(used_dsinfoq) \cup Range(disk_evict_sinfoq)
ExclusiveDisk ==
  /\ IsInjective(free_dsinfoq) /\ IsInjective(used_dsinfoq)
  /\ IsInjective(disk_evict_sinfoq) /\ IsInjective(mg.left)
  /\ Range(free_dsinfoq) \cap (Range(used_dsinfoq) \cup Range(disk_evict_sinfoq)) = {}
  /\ Range(used_dsinfoq) \cap Range(disk_evict_sinfoq) = {}
  /\ BatchDisk \cap InDiskQueue = {}
  /\ Victim \cap (InDiskQueue \cup BatchDisk) = {}
  /\ Range(mg.left) \cap (InDiskQueue \cup BatchDisk \cup Victim) = {}

(* Follow an index key to the slab it names and that slab has an entry for *)
(* the key's series that starts or ends at the key's time: recycling never *)
(* leaves a key on a slab that has become something else.                  *)
InfoOf(ref) == IF ref[1] = "mem" THEN mem[ref[2]] ELSE disk[ref[2]]
IndexSound ==
  \A k \in Key : mass_tree[k] # Nil => k \in KeysOf(InfoOf(mass_tree[k]))

(* Both keys of every entry of a slab that is filling, full, being flushed *)
(* or on disk and not yet recycled are in the index (tree_series_test:107  *)
(* "Each sinfo is related to two keys").                                   *)
Filling(c) == IF ctable[c].pc = "redirect" THEN {} ELSE OwnedBy(c)
Live ==
  {mem[m] : m \in UNION {Filling(c) : c \in Classes}
                  \cup Range(full_msinfoq) \cup BatchMem}
  \cup {disk[d] : d \in Range(used_dsinfoq) \cup Range(mg.left)
                        \cup Range(disk_evict_sinfoq)}
IndexComplete ==
  \A info \in Live : \A k \in KeysOf(info) : mass_tree[k] # Nil

(* Once pushed to the full queue a memory slab is immutable, through the   *)
(* flusher's batch and mem_evict_sinfoq_, until ConPutKV takes it to       *)
(* recycle it.                                                             *)
FullIsImmutable ==
  [][\A m \in Range(full_msinfoq) \cup BatchMem \cup Evictable :
       mem'[m] = mem[m]]_vars

(* The uint32_t counters the loops of bg_flush_data are driven by do not   *)
(* wrap: nfull_msinfoq_ is counted after the push and nused_dsinfoq_ after *)
(* the whole batch, yet no fetch_sub takes more than was counted.  For     *)
(* nused_dsinfoq_ this depends on the settings: the caller has seen        *)
(* MigrateBatch + 1 counted slabs, and a read of more than these may pop   *)
(* slabs the flusher has pushed and not counted.                           *)
NoCounterWrap ==
  /\ fl.pc = "copy" => Cardinality(fl.batch) <= num.full_ms
  /\ NBuf <= MigrateBatch + 1 /\ mg.pc = "uncount" => Len(mg.ds) <= num.used_ds

(* The assertion of ConPutKV, TreeSeries.cpp:465: when a class is about to *)
(* forget the slab it published, the slab still names the cell of that     *)
(* class.                                                                  *)
OwnCell ==
  \A c \in Classes : ctable[c].pc = "forget" => mem[ctable[c].slab].cid = c

(* The retry loop of _flush_tree around ConPutKV ends: every chunk handed  *)
(* over is eventually stored, although memory and SSD slabs run out and    *)
(* must come back through flusher and migrator and a class keeps a slab it *)
(* is not done filling.  A failed assertion ends the wait otherwise.       *)
PutReturns ==
  <>(\/ \A s \in Series : next[s] > Quota[s]
     \/ \E c \in Classes : ctable[c].pc = "abort")

(* TreeMemSeries.h:57 about level_flush_time_, "larger timestamps are in   *)
(* TreeSeries, smaller timestamps are in lsm-tree": a chunk that ends at   *)
(* or before it has been put in LevelDB.                                   *)
FlushedIsInLSM ==
  \A s \in Series : \A k \in 1 .. next[s] - 1 :
    End(k) <= level_flush_time[s] => \E key \in Key : <<s, k>> \in lsm[key]

(* tree_series_test.cpp:504-506 compares a slab scanned from the SSD with  *)
(* the memory slab flushed there (by the sibling OptBatchWrite): once its  *)
(* pwrite has run, the bytes of a used disk slab are chunks its            *)
(* description speaks of.                                                  *)
DiskHoldsWhatItSays ==
  \A d \in Range(used_dsinfoq) :
    (\A p \in pool : p[2] # d) =>
      \A j \in 1 .. disk[d].nalloc :
        \E i \in DOMAIN disk[d].ents, k \in 1 .. MaxChunk :
          /\ disk[d].items[j] = <<disk[d].ents[i][1], k>>
          /\ disk[d].ents[i][2] <= Start(k) /\ End(k) <= disk[d].ents[i][3]

(* n_mem_evict_sinfo_.fetch_add(count), TreeSeries.cpp:862, counts every   *)
(* memory slab of a batch as waiting in mem_evict_sinfoq_, and             *)
(* tree_series_test.cpp:393-394 expects as much of the sibling             *)
(* OptBatchWrite: no slab drops out of circulation.                        *)
NoSlabLost ==
  \A m \in MemSlabs :
    \/ m \in Range(free_msinfoq) \cup Range(full_msinfoq) \cup Evictable
    \/ m \in BatchMem
    \/ \E c \in Classes : m \in OwnedBy(c)
=============================================================================
