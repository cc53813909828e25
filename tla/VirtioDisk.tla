----------------------------- MODULE VirtioDisk -----------------------------
(***************************************************************************)
(* The virtio-mmio block driver of src/kernel/virtio.c after devinit.      *)
(*                                                                         *)
(* Tasks run virtioRw: take vdisk_lock, allocate three descriptors or      *)
(* sleep on &disk.free[0], fill the chain and publish its head in the      *)
(* avail ring, sleep on their buffer until info[head].finish, then free    *)
(* the chain.  The device fetches published heads in ring order and        *)
(* completes them in any order, writing status and a used-ring entry and   *)
(* raising the interrupt.  virtiointr acks the interrupt under vdisk_lock  *)
(* and drains the used ring one entry per step while the device may keep  *)
(* adding entries.  Each task stands for one buffer (the code sleeps on    *)
(* the struct buf pointer), and the buffer's sleeplock in bio.c keeps a    *)
(* buffer in at most one request.  avail->idx, used->idx and used_idx are  *)
(* 16-bit counters: they are kept modulo IdxMod, a multiple of NUM as      *)
(* 2^16 is of the power-of-two NUM.                                        *)
(***************************************************************************)
EXTENDS Naturals, Sequences, FiniteSets, SequencesExt

CONSTANTS
    Tasks,     \* tasks calling disk_read / disk_write, one buffer each
    NUM,       \* virtqueue depth: number of descriptors
    IdxMod,    \* the counters' modulus (2^16 in the code)
    Sectors,   \* sector numbers; 0 is the value of a zeroed request header
    Vals,      \* abstract buffer and sector contents
    ZeroVal,   \* the content of a zeroed buffer
    NoTask     \* a null buf pointer / an unheld vdisk_lock

ASSUME NUM >= 3 /\ IdxMod % NUM = 0
ASSUME 0 \in Sectors /\ ZeroVal \in Vals /\ NoTask \notin Tasks

Descs == 0 .. NUM - 1
Intr == "intr"      \* virtiointr holding vdisk_lock
StatusPending == 255

VARIABLES
    free,        \* disk.free
    desc,        \* disk.desc[i]: flags, next, and the buf of a data descriptor
    availRing,   \* disk.avail->ring
    availIdx,    \* disk.avail->idx
    usedRing,    \* disk.used->ring[].id, written by the device
    usedIdxDev,  \* disk.used->idx, written by the device
    usedIdx,     \* disk.used_idx, the driver's cursor
    info,        \* disk.info[head]: buf, finish, status
    ops,         \* disk.ops[head]: the request header
    lock,        \* holder of vdisk_lock: a task, Intr or NoTask
    devAvail,    \* the device's own cursor into the avail ring
    devBusy,     \* heads the device has fetched and not yet completed
    intrPending, \* VIRTIO_MMIO_INTERRUPT_STATUS has unacknowledged bits
    disk,        \* contents of each sector on the device
    bufdata,     \* the BSIZE bytes at each task's data descriptor address
    pc,          \* where each task is in virtioRw
    tidx,        \* idx[0..2] of each task's chain
    tw,          \* the write argument of virtioRw
    tsec         \* the sector argument of virtioRw

vars == <<free, desc, availRing, availIdx, usedRing, usedIdxDev, usedIdx,
          info, ops, lock, devAvail, devBusy, intrPending, disk, bufdata,
          pc, tidx, tw, tsec>>

PCs == {"idle", "acq", "alloc", "sfree", "wait", "acqw", "sbuf"}
Flags == {"NEXT", "WRITE"}
ZeroDesc == [flags |-> {}, next |-> 0, buf |-> NoTask]

TypeOK ==
    /\ free \in [Descs -> BOOLEAN]
    /\ desc \in [Descs -> [flags : SUBSET Flags, next : Descs,
                           buf : Tasks \cup {NoTask}]]
    /\ availRing \in [Descs -> Descs]
    /\ usedRing \in [Descs -> Descs]
    /\ {availIdx, usedIdxDev, usedIdx, devAvail} \subseteq 0 .. IdxMod - 1
    /\ info \in [Descs -> [buf : Tasks \cup {NoTask}, finish : BOOLEAN,
                           status : {0, StatusPending}]]
    /\ ops \in [Descs -> [type : {"IN", "OUT"}, sector : Sectors]]
    /\ lock \in Tasks \cup {Intr, NoTask}
    /\ devBusy \subseteq Descs
    /\ intrPending \in BOOLEAN
    /\ disk \in [Sectors -> Vals]
    /\ bufdata \in [Tasks -> Vals]
    /\ pc \in [Tasks -> PCs]
    /\ tidx \in [Tasks -> [1 .. 3 -> Descs]]
    /\ tw \in [Tasks -> BOOLEAN]
    /\ tsec \in [Tasks -> Sectors]

(* Mutant: a counter that is never wrapped.                               *)
IncNoWrap(x) == x + 1

Inc(x) == (x + 1) % IdxMod

(* State after devinit: zeroed static disk struct and zeroed ring pages   *)
(* (memset), every descriptor free.                                       *)
Init ==
    /\ free = [i \in Descs |-> TRUE]
    /\ desc = [i \in Descs |-> ZeroDesc]
    /\ availRing = [i \in Descs |-> 0]
    /\ usedRing = [i \in Descs |-> 0]
    /\ availIdx = 0 /\ usedIdxDev = 0 /\ usedIdx = 0 /\ devAvail = 0
    /\ info = [i \in Descs |-> [buf |-> NoTask, finish |-> FALSE, status |-> 0]]
    /\ ops = [i \in Descs |-> [type |-> "IN", sector |-> 0]]
    /\ lock = NoTask
    /\ devBusy = {}
    /\ intrPending = FALSE
    /\ disk \in [Sectors -> Vals]
    /\ bufdata = [t \in Tasks |-> ZeroVal]
    /\ pc = [t \in Tasks |-> "idle"]
    /\ tidx = [t \in Tasks |-> <<0, 0, 0>>]
    /\ tw = [t \in Tasks |-> FALSE]
    /\ tsec = [t \in Tasks |-> 0]

-----------------------------------------------------------------------------
(* Driver side                                                             *)

FreeSet == {i \in Descs : free[i]}

(* alloc3_desc: three calls of alloc_desc, each taking the lowest free.   *)
Alloc3 == LET f == SetToSortSeq(FreeSet, <) IN <<f[1], f[2], f[3]>>

(* The tasks sleeping on channel &disk.free[0] become runnable.           *)
WakeFree(p) == [u \in Tasks |-> IF p[u] = "sfree" THEN "acq" ELSE p[u]]

(* bread/bwrite call disk_read/disk_write: the buffer is filled for a     *)
(* write; virtioRw starts with acquire(&disk.vdisk_lock).                 *)
Start(t, w, s, v) ==
    /\ pc[t] = "idle"
    /\ pc' = [pc EXCEPT ![t] = "acq"]
    /\ tw' = [tw EXCEPT ![t] = w]
    /\ tsec' = [tsec EXCEPT ![t] = s]
    /\ bufdata' = IF w THEN [bufdata EXCEPT ![t] = v] ELSE bufdata
    /\ UNCHANGED <<free, desc, availRing, availIdx, usedRing, usedIdxDev,
                   usedIdx, info, ops, lock, devAvail, devBusy, intrPending,
                   disk, tidx>>

(* acquire(&disk.vdisk_lock), at the top of virtioRw or when sleep()      *)
(* returns; it spins while another task or the interrupt holds it.        *)
Acquire(t) ==
    /\ pc[t] \in {"acq", "acqw"}
    /\ lock = NoTask
    /\ lock' = t
    /\ pc' = [pc EXCEPT ![t] = IF pc[t] = "acq" THEN "alloc" ELSE "wait"]
    /\ UNCHANGED <<free, desc, availRing, availIdx, usedRing, usedIdxDev,
                   usedIdx, info, ops, devAvail, devBusy, intrPending, disk,
                   bufdata, tidx, tw, tsec>>

(* alloc3_desc fails: the descriptors it took are freed again, each       *)
(* free_desc waking &disk.free[0]; then sleep(&disk.free[0]) releases the *)
(* lock.                                                                  *)
AllocFail(t) ==
    /\ pc[t] = "alloc"
    /\ Cardinality(FreeSet) < 3
    /\ pc' = [IF FreeSet # {} THEN WakeFree(pc) ELSE pc EXCEPT ![t] = "sfree"]
    /\ lock' = NoTask
    /\ UNCHANGED <<free, desc, availRing, availIdx, usedRing, usedIdxDev,
                   usedIdx, info, ops, devAvail, devBusy, intrPending, disk,
                   bufdata, tidx, tw, tsec>>

(* alloc3_desc succeeds; virtioRw fills ops[idx[0]], the three            *)
(* descriptors and info[idx[0]], writes the head into the avail ring,     *)
(* increments avail->idx and notifies the device, still holding the lock. *)
Publish(t) ==
    LET idx == Alloc3
        a == idx[1]  b == idx[2]  c == idx[3]
    IN
    /\ pc[t] = "alloc"
    /\ Cardinality(FreeSet) >= 3
    /\ free' = [free EXCEPT ![a] = FALSE, ![b] = FALSE, ![c] = FALSE]
    /\ ops' = [ops EXCEPT ![a] = [type |-> IF tw[t] THEN "OUT" ELSE "IN",
                                  sector |-> tsec[t]]]
    /\ desc' = [desc EXCEPT
                  ![a] = [flags |-> {"NEXT"}, next |-> b, buf |-> NoTask],
                  ![b] = [flags |-> IF tw[t] THEN {"NEXT"} ELSE {"NEXT", "WRITE"},
                          next |-> c, buf |-> t],
                  ![c] = [flags |-> {"WRITE"}, next |-> 0, buf |-> NoTask]]
    /\ info' = [info EXCEPT ![a] = [buf |-> t, finish |-> FALSE,
                                    status |-> StatusPending]]
    /\ availRing' = [availRing EXCEPT ![availIdx % NUM] = a]
    /\ availIdx' = Inc(availIdx)
    /\ tidx' = [tidx EXCEPT ![t] = idx]
    /\ pc' = [pc EXCEPT ![t] = "wait"]
    /\ UNCHANGED <<usedRing, usedIdxDev, usedIdx, lock, devAvail, devBusy,
                   intrPending, disk, bufdata, tw, tsec>>

(* while (info[idx[0]].finish == 0) sleep(buf, &disk.vdisk_lock).         *)
WaitSleep(t) ==
    /\ pc[t] = "wait"
    /\ ~info[tidx[t][1]].finish
    /\ pc' = [pc EXCEPT ![t] = "sbuf"]
    /\ lock' = NoTask
    /\ UNCHANGED <<free, desc, availRing, availIdx, usedRing, usedIdxDev,
                   usedIdx, info, ops, devAvail, devBusy, intrPending, disk,
                   bufdata, tidx, tw, tsec>>

(* Mutant: free_chain that frees only the head.                          *)
ChainFromHeadOnly(i, d) == {i}

(* free_chain: the descriptors reached from i through NEXT flags.         *)
RECURSIVE ChainFrom(_, _)
ChainFrom(i, d) ==
    IF "NEXT" \in d[i].flags THEN {i} \cup ChainFrom(d[i].next, d) ELSE {i}

(* Mutant: the sleep loop's test dropped, the chain freed at once.       *)
ReclaimNoFinish(t) ==
    LET h == tidx[t][1]
        ch == ChainFrom(h, desc)
    IN
    /\ pc[t] = "wait"
    /\ info' = [info EXCEPT ![h].buf = NoTask]
    /\ free' = [i \in Descs |-> free[i] \/ i \in ch]
    /\ desc' = [i \in Descs |-> IF i \in ch THEN ZeroDesc ELSE desc[i]]
    /\ pc' = [WakeFree(pc) EXCEPT ![t] = "idle"]
    /\ lock' = NoTask
    /\ UNCHANGED <<availRing, availIdx, usedRing, usedIdxDev, usedIdx, ops,
                   devAvail, devBusy, intrPending, disk, bufdata, tidx, tw,
                   tsec>>

(* Mutant: free_desc without wakeup(&disk.free[0]).                      *)
ReclaimNoWake(t) ==
    LET h == tidx[t][1]
        ch == ChainFrom(h, desc)
    IN
    /\ pc[t] = "wait"
    /\ info[h].finish
    /\ info' = [info EXCEPT ![h].buf = NoTask]
    /\ free' = [i \in Descs |-> free[i] \/ i \in ch]
    /\ desc' = [i \in Descs |-> IF i \in ch THEN ZeroDesc ELSE desc[i]]
    /\ pc' = [pc EXCEPT ![t] = "idle"]
    /\ lock' = NoTask
    /\ UNCHANGED <<availRing, availIdx, usedRing, usedIdxDev, usedIdx, ops,
                   devAvail, devBusy, intrPending, disk, bufdata, tidx, tw,
                   tsec>>

(* finish is set: info[idx[0]].buf = 0, free_chain(idx[0]) (each          *)
(* free_desc zeroes the descriptor, marks it free and wakes               *)
(* &disk.free[0]), release the lock and return.                           *)
Reclaim(t) ==
    LET h == tidx[t][1]
        ch == ChainFrom(h, desc)
    IN
    /\ pc[t] = "wait"
    /\ info[h].finish
    /\ info' = [info EXCEPT ![h].buf = NoTask]
    /\ free' = [i \in Descs |-> free[i] \/ i \in ch]
    /\ desc' = [i \in Descs |-> IF i \in ch THEN ZeroDesc ELSE desc[i]]
    /\ pc' = [WakeFree(pc) EXCEPT ![t] = "idle"]
    /\ lock' = NoTask
    /\ UNCHANGED <<availRing, availIdx, usedRing, usedIdxDev, usedIdx, ops,
                   devAvail, devBusy, intrPending, disk, bufdata, tidx, tw,
                   tsec>>

-----------------------------------------------------------------------------
(* Device side                                                             *)

(* The device reads the next published head from the avail ring.         *)
DeviceFetch ==
    /\ devAvail # availIdx
    /\ devBusy' = devBusy \cup {availRing[devAvail % NUM]}
    /\ devAvail' = Inc(devAvail)
    /\ UNCHANGED <<free, desc, availRing, availIdx, usedRing, usedIdxDev,
                   usedIdx, info, ops, lock, intrPending, disk, bufdata, pc,
                   tidx, tw, tsec>>

(* The device performs a fetched request, following the chain from its    *)
(* head to the data descriptor and moving BSIZE bytes between the sector  *)
(* and that descriptor's address, writes status 0 through the third       *)
(* descriptor, adds the head to the used ring and raises the interrupt.  *)
(* The address is the struct buf pointer itself (virtio.c:269), so        *)
(* bufdata is that window of memory; which of buf's fields it overlaps is *)
(* bio.c's layout, not modelled here.                                     *)
DeviceComplete(h) ==
    LET t == desc[desc[h].next].buf
        s == ops[h].sector
    IN
    /\ h \in devBusy
    /\ IF ops[h].type = "OUT"
         THEN /\ disk' = [disk EXCEPT ![s] = bufdata[t]]
              /\ UNCHANGED bufdata
         ELSE /\ bufdata' = [bufdata EXCEPT ![t] = disk[s]]
              /\ UNCHANGED disk
    /\ info' = [info EXCEPT ![h].status = 0]
    /\ usedRing' = [usedRing EXCEPT ![usedIdxDev % NUM] = h]
    /\ usedIdxDev' = Inc(usedIdxDev)
    /\ devBusy' = devBusy \ {h}
    /\ intrPending' = TRUE
    /\ UNCHANGED <<free, desc, availRing, availIdx, usedIdx, ops, lock,
                   devAvail, pc, tidx, tw, tsec>>

-----------------------------------------------------------------------------
(* Interrupt handler virtiointr                                           *)

(* Take vdisk_lock and acknowledge the interrupt.                         *)
IntrEnter ==
    /\ intrPending
    /\ lock = NoTask
    /\ lock' = Intr
    /\ intrPending' = FALSE
    /\ UNCHANGED <<free, desc, availRing, availIdx, usedRing, usedIdxDev,
                   usedIdx, info, ops, devAvail, devBusy, disk, bufdata, pc,
                   tidx, tw, tsec>>

(* Mutant: the loop forgets used_idx += 1.                              *)
IntrHandleNoAdvance ==
    LET id == usedRing[usedIdx % NUM]
        t == info[id].buf
    IN
    /\ lock = Intr
    /\ usedIdx # usedIdxDev
    /\ info' = [info EXCEPT ![id].finish = TRUE]
    /\ pc' = [u \in Tasks |-> IF u = t /\ pc[u] = "sbuf" THEN "acqw" ELSE pc[u]]
    /\ UNCHANGED <<free, desc, availRing, availIdx, usedRing, usedIdxDev,
                   usedIdx, ops, lock, devAvail, devBusy, intrPending, disk,
                   bufdata, tidx, tw, tsec>>

(* Mutant: finish is set but wakeup(info[id].b) is missing.              *)
IntrHandleNoWake ==
    LET id == usedRing[usedIdx % NUM]
    IN
    /\ lock = Intr
    /\ usedIdx # usedIdxDev
    /\ info' = [info EXCEPT ![id].finish = TRUE]
    /\ usedIdx' = Inc(usedIdx)
    /\ UNCHANGED <<free, desc, availRing, availIdx, usedRing, usedIdxDev,
                   ops, lock, devAvail, devBusy, intrPending, disk, bufdata,
                   pc, tidx, tw, tsec>>

(* One iteration of the used-ring loop: finish = 1 and wakeup(buf).       *)
IntrHandle ==
    LET id == usedRing[usedIdx % NUM]
        t == info[id].buf
    IN
    /\ lock = Intr
    /\ usedIdx # usedIdxDev
    /\ info' = [info EXCEPT ![id].finish = TRUE]
    /\ pc' = [u \in Tasks |-> IF u = t /\ pc[u] = "sbuf" THEN "acqw" ELSE pc[u]]
    /\ usedIdx' = Inc(usedIdx)
    /\ UNCHANGED <<free, desc, availRing, availIdx, usedRing, usedIdxDev,
                   ops, lock, devAvail, devBusy, intrPending, disk, bufdata,
                   tidx, tw, tsec>>

(* The loop finds used_idx == used->idx: release vdisk_lock.              *)
IntrExit ==
    /\ lock = Intr
    /\ usedIdx = usedIdxDev
    /\ lock' = NoTask
    /\ UNCHANGED <<free, desc, availRing, availIdx, usedRing, usedIdxDev,
                   usedIdx, info, ops, devAvail, devBusy, intrPending, disk,
                   bufdata, pc, tidx, tw, tsec>>

Next ==
    \/ \E t \in Tasks :
        \/ \E w \in BOOLEAN, s \in Sectors, v \in Vals : Start(t, w, s, v)
        \/ Acquire(t)
        \/ AllocFail(t)
        \/ Publish(t)
        \/ WaitSleep(t)
        \/ Reclaim(t)
    \/ DeviceFetch
    \/ \E h \in Descs : DeviceComplete(h)
    \/ IntrEnter
    \/ IntrHandle
    \/ IntrExit

(* The device serves what is published; the PLIC delivers a pending       *)
(* interrupt whenever the lock is free; a runnable task keeps running.    *)
(* Lock acquisitions are only intermittently enabled, hence strong        *)
(* fairness.  Nothing forces a task to start a request.                   *)
Fairness ==
    /\ WF_vars(DeviceFetch)
    /\ \A h \in Descs : WF_vars(DeviceComplete(h))
    /\ SF_vars(IntrEnter)
    /\ WF_vars(IntrHandle)
    /\ WF_vars(IntrExit)
    /\ \A t \in Tasks :
        /\ SF_vars(Acquire(t))
        /\ WF_vars(AllocFail(t)) /\ WF_vars(Publish(t))
        /\ WF_vars(WaitSleep(t)) /\ WF_vars(Reclaim(t))

Spec == Init /\ [][Next]_vars /\ Fairness

-----------------------------------------------------------------------------
(* Properties                                                              *)

(* A task has published a chain and not yet freed it.                     *)
Published(t) == pc[t] \in {"wait", "sbuf", "acqw"}

(* alloc3_desc/free_chain: every descriptor that is not free belongs to   *)
(* the chain of exactly one task in flight, and every chain in flight has *)
(* three distinct descriptors none of which is free.                      *)
DescExclusive ==
    /\ \A t \in Tasks : Published(t) =>
          /\ Cardinality(ToSet(tidx[t])) = 3
          /\ ToSet(tidx[t]) \cap FreeSet = {}
    /\ \A t1, t2 \in Tasks :
          (t1 # t2 /\ Published(t1) /\ Published(t2))
              => ToSet(tidx[t1]) \cap ToSet(tidx[t2]) = {}
    /\ \A i \in Descs : ~free[i] =>
          \E t \in Tasks : Published(t) /\ i \in ToSet(tidx[t])

(* The used-ring entries virtiointr has not consumed yet.                 *)
Unconsumed ==
    {usedRing[((usedIdx + j) % IdxMod) % NUM] :
        j \in 0 .. ((usedIdxDev + IdxMod - usedIdx) % IdxMod) - 1}

(* virtiointr's panic("virtio_disk_intr status") never fires, and each    *)
(* completion is consumed once: every used entry not yet consumed names a *)
(* request in flight whose status the device set to 0 and whose finish is *)
(* still 0.                                                               *)
UsedEntriesFresh ==
    \A id \in Unconsumed :
        /\ info[id].status = 0
        /\ ~info[id].finish
        /\ info[id].buf # NoTask

(* The driver with the device implements a blocking one-sector transfer:  *)
(* a call is pending until the device has completed its own chain, and    *)
(* virtioRw returns only after that.                                      *)
AbsState ==
    [t \in Tasks |->
        IF pc[t] = "idle" THEN "idle"
        ELSE IF Published(t) /\ info[tidx[t][1]].status = 0 THEN "done"
        ELSE "pending"]

Abs == INSTANCE SyncDisk WITH state <- AbsState, wr <- tw, sec <- tsec

ImplementsSyncDisk == Abs!SafetySpec

(* A request the device has been given always returns: virtiointr       *)
(* consumes its completion, wakes the sleeper on the buf, and the task    *)
(* then reacquires vdisk_lock and frees its chain.  (A task still looking *)
(* for descriptors has no such guarantee: each time they are freed        *)
(* another caller may take vdisk_lock first.)                             *)
PublishedReturns ==
    \A t \in Tasks : Published(t) ~> pc[t] = "idle"

(* No lost wakeup on &disk.free[0]: a task that sleeps because fewer than *)
(* three descriptors are free is woken again, by the free_desc calls of   *)
(* some free_chain.                                                       *)
FreeWaiterWoken ==
    \A t \in Tasks : pc[t] = "sfree" ~> pc[t] # "sfree"
=============================================================================
