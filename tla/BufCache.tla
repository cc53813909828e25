------------------------------ MODULE BufCache ------------------------------
(***************************************************************************)
(* The sector buffer cache of src/kernel/bio.c.                            *)
(*                                                                         *)
(* Kernel tasks call bread(0, s), may update the buffer and bwrite it, and *)
(* call brelse.  bget runs under bcache.lock and then blocks on the        *)
(* buffer's sleeplock; brelse releases the sleeplock and only afterwards   *)
(* takes bcache.lock to drop refcnt and move the buffer to the MRU end.    *)
(* Each of those critical sections is one action, so tasks interleave      *)
(* exactly where the code lets them.  disk_read/disk_write are atomic      *)
(* here: the buffer's sleeplock serialises a buffer's I/O (virtio is the   *)
(* VirtioDisk module).  Device 0 is the only device, so a buffer's         *)
(* identity is its sector number.                                          *)
(*                                                                         *)
(* disk_read(b) and disk_write(b) pass b itself to virtioRw, which gives   *)
(* the device the BSIZE bytes at (uint64)buf (virtio.c:269): the struct    *)
(* buf from its first field, not b->data.  A sector's bytes are therefore  *)
(* abstracted to a record: hdr, what its leading bytes read as when they   *)
(* lie over sectorno, the sleeplock, refcnt and prev/next, and body, the   *)
(* rest.  XferAtData chooses the transfer: FALSE is the code; TRUE is      *)
(* spec.md 4.1's contract (bread returns b->data holding the sector), in   *)
(* which body stands for all BSIZE bytes and hdr is never read.            *)
(***************************************************************************)
EXTENDS Naturals, Sequences, SequencesExt

CONSTANTS
    Tasks,      \* kernel tasks that call bread / brelse
    NBUF,       \* size of bcache.buf
    Sectors,    \* sector numbers of device 0 that tasks ask for
    Vals,       \* abstract contents of the bytes past the header
    ZeroVal,    \* the content of zeroed bytes
    Contents,   \* the contents a sector may hold when the kernel starts
    NoSector,   \* a sectorno that names no sector of Sectors (binit's ~0)
    NoTask,     \* owner of an unheld sleeplock
    OtherPid,   \* a pid field naming no task
    XferAtData  \* TRUE: the device transfers b->data (the contract)

ASSUME NBUF \in Nat \ {0}
ASSUME ZeroVal \in Vals /\ XferAtData \in BOOLEAN
ASSUME NoSector \notin Sectors /\ NoTask \notin Tasks
ASSUME OtherPid \notin Tasks \cup {NoTask}

Bufs == 1 .. NBUF

(* What the first bytes of struct buf hold: sectorno (dev is 0), refcnt   *)
(* and the sleeplock's locked flag; valid is set by bread right after the *)
(* transfer and the pid is never a task's, so neither is recorded.        *)
Hdrs == [sec : Sectors \cup {NoSector}, ref : Nat, locked : BOOLEAN]

ASSUME Contents \subseteq [hdr : Hdrs, body : Vals]

VARIABLES
    ident,     \* b->sectorno
    valid,     \* b->valid
    refcnt,    \* b->refcnt
    holder,    \* b->lock: the task holding the sleeplock, NoTask or OtherPid
    linked,    \* b->prev and b->next are pointers of the LRU list
    data,      \* b->data
    disk,      \* contents of each sector on the device
    lru,       \* bcache.head.next ... bcache.head.prev  (MRU first)
    pc,        \* where each task is in bread / use / brelse
    tbuf,      \* the buffer bget returned to the task
    tsec,      \* the sector the task asked bread for
    panicked,  \* bget, brelse or bwrite reached panic
    wild,      \* a list walk or unlink followed a pointer a transfer wrote
    relorder   \* history: buffers in the order of their last release, oldest first

vars == <<ident, valid, refcnt, holder, linked, data, disk, lru, pc, tbuf,
          tsec, panicked, wild, relorder>>

PCs == {"idle", "lock", "read", "use", "brelse"}

TypeOK ==
    /\ ident \in [Bufs -> Sectors \cup {NoSector}]
    /\ valid \in [Bufs -> BOOLEAN]
    /\ refcnt \in [Bufs -> Nat]
    /\ holder \in [Bufs -> Tasks \cup {NoTask, OtherPid}]
    /\ linked \in [Bufs -> BOOLEAN]
    /\ data \in [Bufs -> Vals]
    /\ disk \in [Sectors -> [hdr : Hdrs, body : Vals]]
    /\ lru \in Seq(Bufs) /\ ToSet(lru) = Bufs /\ Len(lru) = NBUF
    /\ pc \in [Tasks -> PCs]
    /\ tbuf \in [Tasks -> Bufs]
    /\ tsec \in [Tasks -> Sectors]
    /\ panicked \in BOOLEAN
    /\ wild \in BOOLEAN
    /\ relorder \in Seq(Bufs) /\ ToSet(relorder) = Bufs

(* binit: every buffer has refcnt 0 and identity ~0; each buffer is       *)
(* pushed at head.next in index order, so buf[0] ends at the LRU end.     *)
(* bcache is zero-initialised static storage, so valid = 0 and data = 0.  *)
binit ==
    /\ ident = [b \in Bufs |-> NoSector]
    /\ valid = [b \in Bufs |-> FALSE]
    /\ refcnt = [b \in Bufs |-> 0]
    /\ holder = [b \in Bufs |-> NoTask]
    /\ linked = [b \in Bufs |-> TRUE]
    /\ data = [b \in Bufs |-> ZeroVal]
    /\ lru = [i \in 1 .. NBUF |-> NBUF + 1 - i]

Init ==
    /\ binit
    /\ disk \in [Sectors -> Contents]
    /\ pc = [t \in Tasks |-> "idle"]
    /\ tbuf = [t \in Tasks |-> 1]
    /\ tsec = [t \in Tasks |-> CHOOSE s \in Sectors : TRUE]
    /\ panicked = FALSE
    /\ wild = FALSE
    /\ relorder = [i \in 1 .. NBUF |-> i]

(* The header bytes of buffer b, as a transfer at (uint64)b sends them.   *)
HdrOf(b) == [sec |-> ident[b], ref |-> refcnt[b], locked |-> holder[b] # NoTask]

(* A walk from head.next that stops at position i has followed b->next of *)
(* every buffer before it; one whose links a transfer wrote leaves the    *)
(* list (undefined behaviour, recorded as wild).                          *)
LeavesList(i) == \E j \in 1 .. i - 1 : ~linked[lru[j]]

(* The undefined step ends the behaviour with wild set.                   *)
GoWild ==
    /\ wild' = TRUE
    /\ UNCHANGED <<ident, valid, refcnt, holder, linked, data, disk, lru, pc,
                   tbuf, tsec, panicked, relorder>>

(* Position in lru of the first buffer, scanning from head.next, that     *)
(* caches sector s; 0 when none does.                                     *)
CachedAt(s) == SelectInSeq(lru, LAMBDA b : ident[b] = s)

(* Mutant: the recycling scan starts at head.next instead of head.prev.   *)
UnusedAtFromHead == SelectInSeq(lru, LAMBDA b : refcnt[b] = 0)

(* Position of the first buffer with refcnt 0, scanning from head.prev.   *)
UnusedAt == SelectLastInSeq(lru, LAMBDA b : refcnt[b] = 0)

(* bget's first loop stops at a hit; otherwise it, and the recycling loop *)
(* after it, follow the links of every buffer.                            *)
WalkWild(s) ==
    IF CachedAt(s) # 0 THEN LeavesList(CachedAt(s)) ELSE LeavesList(NBUF + 1)

BgetHit(t, s) ==
    LET b == lru[CachedAt(s)] IN
    /\ CachedAt(s) # 0
    /\ refcnt' = [refcnt EXCEPT ![b] = @ + 1]
    /\ pc' = [pc EXCEPT ![t] = "lock"]
    /\ tbuf' = [tbuf EXCEPT ![t] = b]
    /\ tsec' = [tsec EXCEPT ![t] = s]
    /\ UNCHANGED <<ident, valid, holder, linked, data, disk, lru, panicked,
                   wild, relorder>>

(* Mutant: recycling without clearing b->valid.                          *)
BgetMissKeepValid(t, s) ==
    LET b == lru[UnusedAt] IN
    /\ CachedAt(s) = 0
    /\ UnusedAt # 0
    /\ ident' = [ident EXCEPT ![b] = s]
    /\ refcnt' = [refcnt EXCEPT ![b] = 1]
    /\ pc' = [pc EXCEPT ![t] = "lock"]
    /\ tbuf' = [tbuf EXCEPT ![t] = b]
    /\ tsec' = [tsec EXCEPT ![t] = s]
    /\ UNCHANGED <<valid, holder, linked, data, disk, lru, panicked, wild,
                   relorder>>

(* Mutant: recycling without setting b->refcnt = 1.                      *)
BgetMissNoRefSet(t, s) ==
    LET b == lru[UnusedAt] IN
    /\ CachedAt(s) = 0
    /\ UnusedAt # 0
    /\ valid' = [valid EXCEPT ![b] = FALSE]
    /\ ident' = [ident EXCEPT ![b] = s]
    /\ pc' = [pc EXCEPT ![t] = "lock"]
    /\ tbuf' = [tbuf EXCEPT ![t] = b]
    /\ tsec' = [tsec EXCEPT ![t] = s]
    /\ UNCHANGED <<refcnt, holder, linked, data, disk, lru, panicked, wild,
                   relorder>>

(* Mutant: the recycling loop runs without first scanning for a hit.      *)
BgetMissNoLookup(t, s) ==
    LET b == lru[UnusedAt] IN
    /\ UnusedAt # 0
    /\ valid' = [valid EXCEPT ![b] = FALSE]
    /\ ident' = [ident EXCEPT ![b] = s]
    /\ refcnt' = [refcnt EXCEPT ![b] = 1]
    /\ pc' = [pc EXCEPT ![t] = "lock"]
    /\ tbuf' = [tbuf EXCEPT ![t] = b]
    /\ tsec' = [tsec EXCEPT ![t] = s]
    /\ UNCHANGED <<holder, linked, data, disk, lru, panicked, wild, relorder>>

(* bget, not cached: recycle the LRU unused buffer for sector s.          *)
BgetMiss(t, s) ==
    LET b == lru[UnusedAt] IN
    /\ CachedAt(s) = 0
    /\ UnusedAt # 0
    /\ valid' = [valid EXCEPT ![b] = FALSE]
    /\ ident' = [ident EXCEPT ![b] = s]
    /\ refcnt' = [refcnt EXCEPT ![b] = 1]
    /\ pc' = [pc EXCEPT ![t] = "lock"]
    /\ tbuf' = [tbuf EXCEPT ![t] = b]
    /\ tsec' = [tsec EXCEPT ![t] = s]
    /\ UNCHANGED <<holder, linked, data, disk, lru, panicked, wild, relorder>>

(* bget: neither cached nor any unused buffer: panic halts the kernel.    *)
BgetPanic(t, s) ==
    /\ CachedAt(s) = 0
    /\ UnusedAt = 0
    /\ panicked' = TRUE
    /\ UNCHANGED <<ident, valid, refcnt, holder, linked, data, disk, lru, pc,
                   tbuf, tsec, wild, relorder>>

(* bget(0, s) from an idle task: its walks go wild over a buffer whose    *)
(* links a transfer wrote; otherwise it hits, recycles or panics.         *)
Bget(t, s) ==
    /\ pc[t] = "idle"
    /\ IF WalkWild(s)
         THEN GoWild
         ELSE BgetHit(t, s) \/ BgetMiss(t, s) \/ BgetPanic(t, s)

(* acquiresleeplock(&b->lock) at the end of bget: blocks while held.      *)
AcquireSleep(t) ==
    LET b == tbuf[t] IN
    /\ pc[t] = "lock"
    /\ holder[b] = NoTask
    /\ holder' = [holder EXCEPT ![b] = t]
    /\ pc' = [pc EXCEPT ![t] = "read"]
    /\ UNCHANGED <<ident, valid, refcnt, linked, data, disk, lru, tbuf, tsec,
                   panicked, wild, relorder>>

(* disk_read(b) in the code: the sector's bytes land on the struct from   *)
(* its first field.  sectorno, refcnt and the sleeplock take the values   *)
(* of the sector's leading bytes, prev/next stop being list pointers, and *)
(* b->data receives the rest of the sector.                               *)
ReadAtStruct(b) ==
    LET h == disk[ident[b]].hdr IN
    /\ ident' = [ident EXCEPT ![b] = h.sec]
    /\ refcnt' = [refcnt EXCEPT ![b] = h.ref]
    /\ holder' = [holder EXCEPT ![b] = IF h.locked THEN OtherPid ELSE NoTask]
    /\ linked' = [linked EXCEPT ![b] = FALSE]
    /\ data' = [data EXCEPT ![b] = disk[ident[b]].body]

(* bread after bget: if the buffer is not valid, disk_read it; then       *)
(* b->valid = 1.                                                          *)
Bread(t) ==
    LET b == tbuf[t] IN
    /\ pc[t] = "read"
    /\ IF valid[b]
         THEN UNCHANGED <<ident, refcnt, holder, linked, data>>
         ELSE IF XferAtData
                THEN /\ data' = [data EXCEPT ![b] = disk[ident[b]].body]
                     /\ UNCHANGED <<ident, refcnt, holder, linked>>
                ELSE ReadAtStruct(b)
    /\ valid' = [valid EXCEPT ![b] = TRUE]
    /\ pc' = [pc EXCEPT ![t] = "use"]
    /\ UNCHANGED <<disk, lru, tbuf, tsec, panicked, wild, relorder>>

(* A caller's in-place update of b->data followed by bwrite(b), as in     *)
(* write_fat, alloc_clus and zero_clus.  bwrite panics unless the task    *)
(* holds the sleeplock; disk_write(b) then sends sector b->sectorno the   *)
(* BSIZE bytes at b (the code) or b->data (the contract).  A sectorno     *)
(* outside Sectors is a sector this model does not follow.                *)
Bwrite(t, v) ==
    LET b == tbuf[t]
        sent == IF XferAtData THEN [disk[ident[b]] EXCEPT !.body = v]
                ELSE [hdr |-> HdrOf(b), body |-> v]
    IN
    /\ pc[t] = "use"
    /\ IF holder[b] # t
         THEN /\ panicked' = TRUE
              /\ UNCHANGED <<data, disk>>
         ELSE /\ data' = [data EXCEPT ![b] = v]
              /\ disk' = IF ident[b] \in Sectors
                           THEN [disk EXCEPT ![ident[b]] = sent]
                           ELSE disk
              /\ UNCHANGED panicked
    /\ UNCHANGED <<ident, valid, refcnt, holder, linked, lru, pc, tbuf, tsec,
                   wild, relorder>>

(* Mutant: brelse that never calls releasesleeplock.                      *)
BrelseUnlockKeepLock(t) ==
    LET b == tbuf[t] IN
    /\ pc[t] = "use"
    /\ pc' = [pc EXCEPT ![t] = "brelse"]
    /\ UNCHANGED <<ident, valid, refcnt, holder, linked, data, disk, lru, tbuf,
                   tsec, panicked, wild, relorder>>

(* brelse, first half: panic unless holdingsleep, then releasesleeplock.  *)
BrelseUnlock(t) ==
    LET b == tbuf[t] IN
    /\ pc[t] = "use"
    /\ IF holder[b] # t
         THEN /\ panicked' = TRUE
              /\ UNCHANGED <<holder, pc>>
         ELSE /\ holder' = [holder EXCEPT ![b] = NoTask]
              /\ pc' = [pc EXCEPT ![t] = "brelse"]
              /\ UNCHANGED panicked
    /\ UNCHANGED <<ident, valid, refcnt, linked, data, disk, lru, tbuf, tsec,
                   wild, relorder>>

(* Move b from its place in the LRU list to head.next.                    *)
MoveToHead(b) == <<b>> \o Remove(lru, b)

(* brelse, second half under bcache.lock: refcnt--, and at 0 unlink b     *)
(* through b->next and b->prev and relink it at head.next.  Unlinking     *)
(* through links a transfer wrote is undefined.                           *)
BrelseRef(t) ==
    LET b == tbuf[t] IN
    /\ pc[t] = "brelse"
    /\ IF refcnt[b] - 1 = 0 /\ ~linked[b]
         THEN GoWild
         ELSE /\ refcnt' = [refcnt EXCEPT ![b] = @ - 1]
              /\ IF refcnt[b] - 1 = 0
                   THEN /\ lru' = MoveToHead(b)
                        /\ relorder' = Append(Remove(relorder, b), b)
                   ELSE UNCHANGED <<lru, relorder>>
              /\ pc' = [pc EXCEPT ![t] = "idle"]
              /\ UNCHANGED <<ident, valid, holder, linked, data, disk, tbuf,
                             tsec, panicked, wild>>

Next ==
    /\ ~panicked /\ ~wild
    /\ \E t \in Tasks :
        \/ \E s \in Sectors : Bget(t, s)
        \/ AcquireSleep(t)
        \/ Bread(t)
        \/ \E v \in Vals : Bwrite(t, v)
        \/ BrelseUnlock(t)
        \/ BrelseRef(t)

(* No fairness: acquiresleeplock is a loop that sleeps while the lock is  *)
(* held and releasesleep wakes every sleeper, so a task can lose the lock *)
(* to others forever; nothing here is claimed about progress.             *)
Spec == Init /\ [][Next]_vars

-----------------------------------------------------------------------------
(* Properties                                                              *)

(* Spec 4.1 (i), bget: no two buffers ever cache the same sector, so the  *)
(* sleeplock of a sector's buffer is the lock of that sector.             *)
BufIdentUnique ==
    \A b1, b2 \in Bufs :
        (b1 # b2 /\ ident[b1] = ident[b2]) => ident[b1] = NoSector

(* Spec 4.1 (ii)/(iii), bget/bread/brelse: from bget until brelse drops   *)
(* its reference, the task's buffer still caches the sector it asked for, *)
(* and once bread has returned the task holds the lock on a valid buffer. *)
HolderSeesOwnSector ==
    \A t \in Tasks :
        /\ pc[t] # "idle" => ident[tbuf[t]] = tsec[t]
        /\ pc[t] = "use" => valid[tbuf[t]] /\ holder[tbuf[t]] = t

(* bget/bread/bwrite: a buffer marked valid holds what the disk holds for *)
(* its sector, even after the buffer was recycled for another sector.     *)
BufCoherent ==
    \A b \in Bufs : valid[b] => data[b] = disk[ident[b]].body

(* Spec section 8, bget miss: the buffer recycled is the free buffer      *)
(* whose last brelse to refcnt 0 is the oldest.                           *)
OldestFree == relorder[SelectInSeq(relorder, LAMBDA b : refcnt[b] = 0)]

LruVictimOldest ==
    [][\A b \in Bufs :
          (ident'[b] # ident[b]) => b = OldestFree]_vars

=============================================================================
