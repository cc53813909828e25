------------------------------ MODULE FatChain ------------------------------
(***************************************************************************)
(* The FAT and its cluster chains in src/kernel/fat32.c: read_fat,         *)
(* write_fat, alloc_clus, free_clus, reloc_clus, and the file operations   *)
(* that drive them, ewrite, eread and etrunc.                              *)
(*                                                                         *)
(* Each task works on its own file; the caller holds that file's entry    *)
(* sleeplock, so the entry fields (first_clus, cur_clus, clus_cnt,         *)
(* file_size) are private to the task.  The FAT is shared and is guarded   *)
(* only by the sleeplock of the buffer holding each FAT sector: every      *)
(* read_fat, every write_fat and alloc_clus's scan of one FAT sector runs  *)
(* between a bread and a brelse and is one atomic step here.  File data    *)
(* (rw_clus, zero_clus) is left out: it never changes the FAT or a cursor. *)
(* Offsets and sizes are counted in units of which BPC make a cluster.     *)
(***************************************************************************)
EXTENDS Integers, Sequences, SequencesExt, FiniteSets

CONSTANTS
    Tasks,      \* kernel tasks, one file each
    EntPerSec,  \* FAT entries per FAT sector: byts_per_sec / 4
    FatSz,      \* bpb.fat_sz: sectors in one FAT
    DataMax,    \* data_clus_cnt + 1: the largest valid cluster number
    EOC,        \* FAT32_EOC; every entry value >= EOC ends a chain
    BPC,        \* byts_per_clus, in units
    MaxSize     \* the largest file size a write may reach, in units

Clus == 0 .. FatSz * EntPerSec - 1   \* every entry of FAT #1

ASSUME DataMax \in 2 .. FatSz * EntPerSec - 1 /\ EOC > FatSz * EntPerSec
ASSUME BPC \in Nat \ {0} /\ MaxSize \in Nat

VARIABLES
    fat,       \* FAT #1 on disk, entry by entry
    first,     \* entry->first_clus
    cur,       \* entry->cur_clus
    cnt,       \* entry->clus_cnt
    size,      \* entry->file_size
    pc,        \* where each task is
    alloc,     \* reloc_clus's alloc argument: TRUE in ewrite, FALSE in eread
    off,       \* the operation's off, advanced by each transfer
    n,         \* the operation's n
    tot,       \* bytes transferred so far
    tgt,       \* reloc_clus's clus_num = off / byts_per_clus
    sec,       \* alloc_clus's FAT sector index i
    nc,        \* a cluster in hand: alloc_clus's result, or etrunc's clus
    nx,        \* etrunc's next
    panicked   \* a panic stopped the kernel

vars == <<fat, first, cur, cnt, size, pc, alloc, off, n, tot, tgt, sec, nc,
          nx, panicked>>

Vals == Clus \cup {EOC}

PCs == {"idle", "afirst", "alink", "wlink", "wloop", "rloop", "reloc",
        "rback", "xfer", "tloop", "tfree"}

TypeOK ==
    /\ fat \in [Clus -> Vals]
    /\ first \in [Tasks -> Vals]
    /\ cur \in [Tasks -> Vals]
    /\ cnt \in [Tasks -> Nat]
    /\ size \in [Tasks -> 0 .. MaxSize]
    /\ pc \in [Tasks -> PCs]
    /\ alloc \in [Tasks -> BOOLEAN]
    /\ off \in [Tasks -> 0 .. MaxSize] /\ n \in [Tasks -> 0 .. MaxSize]
    /\ tot \in [Tasks -> 0 .. MaxSize] /\ tgt \in [Tasks -> Nat]
    /\ sec \in [Tasks -> 0 .. FatSz - 1]
    /\ nc \in [Tasks -> Vals] /\ nx \in [Tasks -> Vals]
    /\ panicked \in BOOLEAN

(* A formatted volume: entries 0 and 1 hold the media byte and an EOC     *)
(* mark, every data cluster is free, and the files are empty.             *)
Init ==
    /\ fat = [c \in Clus |-> IF c \in {0, 1} THEN EOC ELSE 0]
    /\ first = [t \in Tasks |-> 0]
    /\ cur = [t \in Tasks |-> 0]
    /\ cnt = [t \in Tasks |-> 0]
    /\ size = [t \in Tasks |-> 0]
    /\ pc = [t \in Tasks |-> "idle"]
    /\ alloc = [t \in Tasks |-> FALSE]
    /\ off = [t \in Tasks |-> 0] /\ n = [t \in Tasks |-> 0]
    /\ tot = [t \in Tasks |-> 0] /\ tgt = [t \in Tasks |-> 0]
    /\ sec = [t \in Tasks |-> 0]
    /\ nc = [t \in Tasks |-> 0] /\ nx = [t \in Tasks |-> 0]
    /\ panicked = FALSE

(* read_fat: an EOC value is returned as is, a cluster past the data area *)
(* reads as 0, anything else is the FAT entry.                            *)
ReadFat(c) ==
    IF c >= EOC THEN c ELSE IF c > DataMax THEN 0 ELSE fat[c]

(* write_fat: a cluster past the data area is refused (returns -1).       *)
WriteFat(c, v) ==
    IF c > DataMax THEN fat ELSE [fat EXCEPT ![c] = v]

(* The FAT entries held in FAT sector i: cluster i * ent_per_sec + j.     *)
SecEnts(i) == i * EntPerSec .. (i + 1) * EntPerSec - 1

FreeIn(i) == {c \in SecEnts(i) : fat[c] = 0}

LowestFree(i) == CHOOSE c \in FreeIn(i) : \A d \in FreeIn(i) : c <= d

(* The bytes of one transfer: to the end of the cluster, or what is left. *)
Chunk(t) ==
    LET room == BPC - (off[t] % BPC) IN
    IF room < n[t] - tot[t] THEN room ELSE n[t] - tot[t]

Goto(t, p) == pc' = [pc EXCEPT ![t] = p]

(* The operation returns: its locals and arguments are gone.               *)
Return(t) ==
    /\ Goto(t, "idle")
    /\ alloc' = [alloc EXCEPT ![t] = FALSE]
    /\ off' = [off EXCEPT ![t] = 0] /\ n' = [n EXCEPT ![t] = 0]
    /\ tot' = [tot EXCEPT ![t] = 0] /\ tgt' = [tgt EXCEPT ![t] = 0]
    /\ sec' = [sec EXCEPT ![t] = 0]
    /\ nc' = [nc EXCEPT ![t] = 0] /\ nx' = [nx EXCEPT ![t] = 0]

-----------------------------------------------------------------------------
(* alloc_clus: scan FAT #1 sector by sector, holding each sector's buffer; *)
(* the first zero entry is claimed with FAT32_EOC + 7 and bwrite.          *)

(* Mutant: clus_cnt keeps its value from before the file was emptied.      *)
AllocFirstKeepCount(t) ==
    LET c == LowestFree(sec[t]) IN
    /\ pc[t] = "afirst"
    /\ FreeIn(sec[t]) # {}
    /\ fat' = [fat EXCEPT ![c] = EOC]
    /\ first' = [first EXCEPT ![t] = c]
    /\ cur' = [cur EXCEPT ![t] = c]
    /\ Goto(t, "wloop")
    /\ UNCHANGED <<cnt, size, alloc, off, n, tot, tgt, sec, nc, nx, panicked>>

(* Claimed for ewrite's empty file: first_clus = cur_clus, clus_cnt = 0.   *)
AllocFirst(t) ==
    LET c == LowestFree(sec[t]) IN
    /\ pc[t] = "afirst"
    /\ FreeIn(sec[t]) # {}
    /\ fat' = [fat EXCEPT ![c] = EOC]
    /\ first' = [first EXCEPT ![t] = c]
    /\ cur' = [cur EXCEPT ![t] = c]
    /\ cnt' = [cnt EXCEPT ![t] = 0]
    /\ Goto(t, "wloop")
    /\ UNCHANGED <<size, alloc, off, n, tot, tgt, sec, nc, nx, panicked>>

AllocLink(t) ==
    LET c == LowestFree(sec[t]) IN
    /\ pc[t] = "alink"
    /\ FreeIn(sec[t]) # {}
    /\ fat' = [fat EXCEPT ![c] = EOC]
    /\ nc' = [nc EXCEPT ![t] = c]
    /\ Goto(t, "wlink")
    /\ UNCHANGED <<first, cur, cnt, size, alloc, off, n, tot, tgt, sec, nx,
                   panicked>>

(* No zero entry in this sector: brelse and read the next one.            *)
AllocNext(t) ==
    /\ pc[t] \in {"afirst", "alink"}
    /\ FreeIn(sec[t]) = {}
    /\ sec[t] + 1 < FatSz
    /\ sec' = [sec EXCEPT ![t] = @ + 1]
    /\ UNCHANGED <<fat, first, cur, cnt, size, pc, alloc, off, n, tot, tgt,
                   nc, nx, panicked>>

(* panic("no clusters").                                                  *)
AllocPanic(t) ==
    /\ pc[t] \in {"afirst", "alink"}
    /\ FreeIn(sec[t]) = {}
    /\ sec[t] + 1 = FatSz
    /\ panicked' = TRUE
    /\ UNCHANGED <<fat, first, cur, cnt, size, pc, alloc, off, n, tot, tgt,
                   sec, nc, nx>>

-----------------------------------------------------------------------------
(* ewrite and eread                                                        *)

(* ewrite(entry, off, n) with off <= file_size; an empty file first gets  *)
(* a cluster from alloc_clus.                                              *)
EwriteStart(t, o, k) ==
    /\ pc[t] = "idle"
    /\ off' = [off EXCEPT ![t] = o]
    /\ n' = [n EXCEPT ![t] = k]
    /\ tot' = [tot EXCEPT ![t] = 0]
    /\ alloc' = [alloc EXCEPT ![t] = TRUE]
    /\ IF first[t] = 0
          THEN Goto(t, "afirst") /\ sec' = [sec EXCEPT ![t] = 0]
          ELSE Goto(t, "wloop") /\ UNCHANGED sec
    /\ UNCHANGED <<fat, first, cur, cnt, size, tgt, nc, nx, panicked>>

(* eread(entry, off, n) with off <= file_size, n clipped to the file.      *)
EreadStart(t, o, k) ==
    /\ pc[t] = "idle"
    /\ off' = [off EXCEPT ![t] = o]
    /\ n' = [n EXCEPT ![t] = IF o + k > size[t] THEN size[t] - o ELSE k]
    /\ tot' = [tot EXCEPT ![t] = 0]
    /\ alloc' = [alloc EXCEPT ![t] = FALSE]
    /\ Goto(t, "rloop")
    /\ UNCHANGED <<fat, first, cur, cnt, size, tgt, sec, nc, nx, panicked>>

(* The loop test of ewrite: more to write, so reloc_clus(entry, off, 1).  *)
WriteNext(t) ==
    /\ pc[t] = "wloop"
    /\ tot[t] < n[t]
    /\ tgt' = [tgt EXCEPT ![t] = off[t] \div BPC]
    /\ Goto(t, "reloc")
    /\ UNCHANGED <<fat, first, cur, cnt, size, alloc, off, n, tot, sec, nc,
                   nx, panicked>>

(* The end of ewrite: grow file_size to the final offset.                 *)
WriteDone(t) ==
    /\ pc[t] = "wloop"
    /\ tot[t] >= n[t]
    /\ size' = [size EXCEPT ![t] = IF off[t] > @ THEN off[t] ELSE @]
    /\ Return(t)
    /\ UNCHANGED <<fat, first, cur, cnt, panicked>>

(* The loop test of eread: cur_clus < FAT32_EOC and more to read.         *)
ReadNext(t) ==
    /\ pc[t] = "rloop"
    /\ cur[t] < EOC /\ tot[t] < n[t]
    /\ tgt' = [tgt EXCEPT ![t] = off[t] \div BPC]
    /\ Goto(t, "reloc")
    /\ UNCHANGED <<fat, first, cur, cnt, size, alloc, off, n, tot, sec, nc,
                   nx, panicked>>

ReadDone(t) ==
    /\ pc[t] = "rloop"
    /\ ~(cur[t] < EOC /\ tot[t] < n[t])
    /\ Return(t)
    /\ UNCHANGED <<fat, first, cur, cnt, size, panicked>>

(* Mutant: m is not clipped to n - tot.                                     *)
XferWholeCluster(t) ==
    /\ pc[t] = "xfer"
    /\ tot' = [tot EXCEPT ![t] = @ + BPC - (off[t] % BPC)]
    /\ off' = [off EXCEPT ![t] = @ + BPC - (off[t] % BPC)]
    /\ Goto(t, IF alloc[t] THEN "wloop" ELSE "rloop")
    /\ UNCHANGED <<fat, first, cur, cnt, size, alloc, n, tgt, sec, nc, nx,
                   panicked>>

(* rw_clus on cur_clus moved the chunk: advance tot and off.              *)
Xfer(t) ==
    /\ pc[t] = "xfer"
    /\ tot' = [tot EXCEPT ![t] = @ + Chunk(t)]
    /\ off' = [off EXCEPT ![t] = @ + Chunk(t)]
    /\ Goto(t, IF alloc[t] THEN "wloop" ELSE "rloop")
    /\ UNCHANGED <<fat, first, cur, cnt, size, alloc, n, tgt, sec, nc, nx,
                   panicked>>

(* rw_clus came back short (a fault copying a user address): the loop     *)
(* breaks; ewrite still grows file_size to off.                           *)
XferFault(t) ==
    /\ pc[t] = "xfer"
    /\ size' = [size EXCEPT ![t] =
                    IF alloc[t] /\ off[t] > @ THEN off[t] ELSE @]
    /\ Return(t)
    /\ UNCHANGED <<fat, first, cur, cnt, panicked>>

-----------------------------------------------------------------------------
(* reloc_clus(entry, off, alloc)                                           *)
(* Two branches have no step here: the end of the chain met with alloc    *)
(* clear (reset the cursor, return -1) and the end met on the walk back   *)
(* (panic "reloc_clus").  RelocInChain states that no state reaches them;  *)
(* one that did would also stop the model, a deadlock TLC reports.        *)

(* Walking forward: read_fat(cur_clus) is the next cluster.               *)
RelocStep(t) ==
    /\ pc[t] = "reloc"
    /\ tgt[t] > cnt[t]
    /\ ReadFat(cur[t]) < EOC
    /\ cur' = [cur EXCEPT ![t] = ReadFat(cur[t])]
    /\ cnt' = [cnt EXCEPT ![t] = @ + 1]
    /\ UNCHANGED <<fat, first, size, pc, alloc, off, n, tot, tgt, sec, nc, nx,
                   panicked>>

(* The chain ends and alloc is set: alloc_clus, then link.                *)
RelocGrow(t) ==
    /\ pc[t] = "reloc"
    /\ tgt[t] > cnt[t]
    /\ ReadFat(cur[t]) >= EOC
    /\ alloc[t]
    /\ sec' = [sec EXCEPT ![t] = 0]
    /\ Goto(t, "alink")
    /\ UNCHANGED <<fat, first, cur, cnt, size, alloc, off, n, tot, tgt, nc,
                   nx, panicked>>

(* write_fat(cur_clus, clus); cur_clus = clus; clus_cnt++.                *)
RelocLink(t) ==
    /\ pc[t] = "wlink"
    /\ fat' = WriteFat(cur[t], nc[t])
    /\ cur' = [cur EXCEPT ![t] = nc[t]]
    /\ cnt' = [cnt EXCEPT ![t] = @ + 1]
    /\ Goto(t, "reloc")
    /\ UNCHANGED <<first, size, alloc, off, n, tot, tgt, sec, nc, nx,
                   panicked>>

(* The target is behind the cursor: restart from first_clus.              *)
RelocRewind(t) ==
    /\ pc[t] = "reloc"
    /\ tgt[t] < cnt[t]
    /\ cur' = [cur EXCEPT ![t] = first[t]]
    /\ cnt' = [cnt EXCEPT ![t] = 0]
    /\ Goto(t, "rback")
    /\ UNCHANGED <<fat, first, size, alloc, off, n, tot, tgt, sec, nc, nx,
                   panicked>>

(* Mutant: the walk back does not count its hops.                          *)
RewindStepNoCount(t) ==
    /\ pc[t] = "rback"
    /\ cnt[t] < tgt[t]
    /\ ReadFat(cur[t]) < EOC
    /\ cur' = [cur EXCEPT ![t] = ReadFat(cur[t])]
    /\ UNCHANGED <<fat, first, cnt, size, pc, alloc, off, n, tot, tgt, sec, nc,
                   nx, panicked>>

(* One hop of the walk from first_clus.                                   *)
RewindStep(t) ==
    /\ pc[t] = "rback"
    /\ cnt[t] < tgt[t]
    /\ ReadFat(cur[t]) < EOC
    /\ cur' = [cur EXCEPT ![t] = ReadFat(cur[t])]
    /\ cnt' = [cnt EXCEPT ![t] = @ + 1]
    /\ UNCHANGED <<fat, first, size, pc, alloc, off, n, tot, tgt, sec, nc, nx,
                   panicked>>

(* The cursor is on the target cluster: return off % byts_per_clus.       *)
RelocDone(t) ==
    /\ pc[t] \in {"reloc", "rback"}
    /\ tgt[t] = cnt[t]
    /\ Goto(t, "xfer")
    /\ UNCHANGED <<fat, first, cur, cnt, size, alloc, off, n, tot, tgt, sec,
                   nc, nx, panicked>>

-----------------------------------------------------------------------------
(* etrunc: free the chain from first_clus, then size = first_clus = 0.     *)

EtruncStart(t) ==
    /\ pc[t] = "idle"
    /\ nc' = [nc EXCEPT ![t] = first[t]]
    /\ Goto(t, "tloop")
    /\ UNCHANGED <<fat, first, cur, cnt, size, alloc, off, n, tot, tgt, sec,
                   nx, panicked>>

(* clus >= 2 && clus < FAT32_EOC: next = read_fat(clus).                  *)
TruncRead(t) ==
    /\ pc[t] = "tloop"
    /\ nc[t] >= 2 /\ nc[t] < EOC
    /\ nx' = [nx EXCEPT ![t] = ReadFat(nc[t])]
    /\ Goto(t, "tfree")
    /\ UNCHANGED <<fat, first, cur, cnt, size, alloc, off, n, tot, tgt, sec,
                   nc, panicked>>

(* Mutant: the cluster freed is next rather than clus.                      *)
TruncFreeNext(t) ==
    /\ pc[t] = "tfree"
    /\ fat' = WriteFat(nx[t], 0)
    /\ nc' = [nc EXCEPT ![t] = nx[t]]
    /\ Goto(t, "tloop")
    /\ UNCHANGED <<first, cur, cnt, size, alloc, off, n, tot, tgt, sec, nx,
                   panicked>>

(* free_clus(clus) is write_fat(clus, 0); clus = next.                    *)
TruncFree(t) ==
    /\ pc[t] = "tfree"
    /\ fat' = WriteFat(nc[t], 0)
    /\ nc' = [nc EXCEPT ![t] = nx[t]]
    /\ Goto(t, "tloop")
    /\ UNCHANGED <<first, cur, cnt, size, alloc, off, n, tot, tgt, sec, nx,
                   panicked>>

(* Mutant: file_size is not cleared.                                        *)
TruncDoneKeepSize(t) ==
    /\ pc[t] = "tloop"
    /\ ~(nc[t] >= 2 /\ nc[t] < EOC)
    /\ first' = [first EXCEPT ![t] = 0]
    /\ Return(t)
    /\ UNCHANGED <<fat, size, cur, cnt, panicked>>

(* The walk is over; cur_clus and clus_cnt are left as they were.         *)
TruncDone(t) ==
    /\ pc[t] = "tloop"
    /\ ~(nc[t] >= 2 /\ nc[t] < EOC)
    /\ size' = [size EXCEPT ![t] = 0]
    /\ first' = [first EXCEPT ![t] = 0]
    /\ Return(t)
    /\ UNCHANGED <<fat, cur, cnt, panicked>>

-----------------------------------------------------------------------------

(* A step of task t once its operation has started.                       *)
Step(t) ==
    \/ AllocFirst(t) \/ AllocLink(t) \/ AllocNext(t) \/ AllocPanic(t)
    \/ WriteNext(t) \/ WriteDone(t) \/ ReadNext(t) \/ ReadDone(t)
    \/ Xfer(t) \/ XferFault(t)
    \/ RelocStep(t) \/ RelocGrow(t) \/ RelocLink(t)
    \/ RelocRewind(t) \/ RewindStep(t) \/ RelocDone(t)
    \/ TruncRead(t) \/ TruncFree(t) \/ TruncDone(t)

Next ==
    /\ ~panicked
    /\ \E t \in Tasks :
        \/ \E o \in 0 .. size[t], k \in 0 .. MaxSize :
              /\ o + k <= MaxSize
              /\ EwriteStart(t, o, k) \/ EreadStart(t, o, k)
        \/ EtruncStart(t)
        \/ Step(t)

(* Nothing blocks inside an operation (each FAT sector's buffer is held    *)
(* only for one step), so a started operation keeps running; a fault in a *)
(* user copy is possible, not forced, so the transfer is fair as a whole.  *)
Fairness == \A t \in Tasks : WF_vars(Step(t))

Spec == Init /\ [][Next]_vars /\ Fairness

-----------------------------------------------------------------------------
(* Properties                                                              *)

(* The chain from cluster c as read_fat follows it, at most k clusters.    *)
RECURSIVE Walk(_, _)
Walk(c, k) ==
    IF k = 0 \/ c < 2 \/ c >= EOC THEN <<>>
    ELSE <<c>> \o Walk(ReadFat(c), k - 1)

Chain(t) == Walk(first[t], Cardinality(Clus))

(* The clusters task t is responsible for: etrunc's rest of the chain     *)
(* while it frees, else the file's chain and a cluster alloc_clus handed  *)
(* to reloc_clus that is not linked yet.                                   *)
Owned(t) ==
    IF pc[t] \in {"tloop", "tfree"} THEN ToSet(Walk(nc[t], Cardinality(Clus)))
    ELSE ToSet(Chain(t)) \cup (IF pc[t] = "wlink" THEN {nc[t]} ELSE {})

(* Every data cluster the FAT marks used belongs to some task's file, and *)
(* every cluster of a file is marked: alloc_clus's claim, reloc_clus's    *)
(* link and etrunc's walk together neither leak a cluster nor free one    *)
(* still in a chain (scenario 4: truncation frees every cluster).          *)
FatAccounted ==
    {c \in 2 .. DataMax : fat[c] # 0} = UNION {Owned(t) : t \in Tasks}

CursorConsistent ==
    \A t \in Tasks : pc[t] = "idle" /\ first[t] # 0 =>
        /\ cnt[t] < Len(Chain(t))
        /\ cur[t] = Chain(t)[cnt[t] + 1]

(* reloc_clus never meets the end of a chain it may not grow: the -1 that *)
(* eread ignores (it then copies from first_clus) and the "reloc_clus"    *)
(* panic on the way back are unreachable, because file_size never runs    *)
(* past the clusters ewrite allocated.                                     *)
RelocInChain ==
    \A t \in Tasks :
        \/ pc[t] = "reloc" /\ ~alloc[t] /\ tgt[t] > cnt[t]
        \/ pc[t] = "rback" /\ cnt[t] < tgt[t]
        => ReadFat(cur[t]) < EOC

(* Every cluster a file uses is a data cluster, 2 .. data_clus_cnt + 1:   *)
(* running out of clusters is fatal (the spec's alloc_clus) rather than   *)
(* handing out an entry of the FAT's tail that names no cluster.          *)
ClusInRange ==
    \A t \in Tasks : first[t] # 0 => {first[t], cur[t]} \subseteq 2 .. DataMax

(* Every ewrite, eread and etrunc returns, unless alloc_clus's "no        *)
(* clusters" panic stops the kernel: the loops of alloc_clus, reloc_clus, *)
(* ewrite, eread and etrunc all end.                                       *)
OpReturns ==
    \A t \in Tasks : pc[t] # "idle" ~> (pc[t] = "idle" \/ panicked)

=============================================================================
