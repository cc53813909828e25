------------------------------ MODULE DirSlots ------------------------------
(***************************************************************************)
(* One directory's 32-byte entry slots in src/kernel/fat32.c: enext and    *)
(* the scan of dirlookup that reads them, emake and eremove that write     *)
(* them, ealloc that ties dirlookup to emake, and eupdate that writes a   *)
(* file's first cluster and size back into its short entry.               *)
(*                                                                         *)
(* Every caller holds the directory's sleeplock, so the operations on one *)
(* directory run one at a time and each is one step here.  The entry      *)
(* cache is left to ECache: every dirlookup here is a cache miss, the     *)
(* path that reads the disk.  A name is a model value; a slot records     *)
(* which file it belongs to instead of the characters it holds.           *)
(***************************************************************************)
EXTENDS Integers, Sequences, FiniteSets, TLC

CONSTANTS
    Names,      \* file names, each a legal name for formatname
    Lfn,        \* Lfn[nm]: long-name slots of nm, ceil(strlen / CHAR_LONG_NAME)
    ShortOrd,   \* ShortOrd[nm]: first byte of nm's short name, & ~0x40
    SPC,        \* slots per cluster: byts_per_clus / 32
    DirClusMax, \* clusters the directory can have before alloc_clus panics
    IsRoot,     \* the directory is the root (it has no "." and "..")
    Metas,      \* a file's first_clus and file_size, as one abstract value
    Torn,       \* a long-name part whose characters eupdate overwrote
    WriteReachesDisk
        \* FALSE: rw_clus's write as the code is, copying with
        \*   either_copy(user, data, bp->data + off, m), whose declaration
        \*   is (user_dst, dst, src, len): the sector is copied into the
        \*   caller's buffer and written back unchanged.
        \* TRUE: rw_clus's contract, the caller's bytes reach the sector.

ASSUME Lfn \in [Names -> 1 .. 2] /\ ShortOrd \in [Names -> 1 .. 26]
ASSUME SPC \in Nat \ {0} /\ DirClusMax \in Nat \ {0}
ASSUME IsRoot \in BOOLEAN /\ WriteReachesDisk \in BOOLEAN
ASSUME 0 \in Metas /\ Torn \notin Names

(* The slots a directory entry can hold, by their order byte and attr.    *)
End   == [t |-> "end"]                  \* order END_OF_ENTRY (0x00)
Empty == [t |-> "empty"]                \* order EMPTY_ENTRY (0xe5)
Dot   == [t |-> "dot"]                  \* "." or "..": ATTR_DIRECTORY
Long(nm, i, lst) == [t |-> "long", f |-> nm, ord |-> i, last |-> lst]
Short(nm, m) == [t |-> "short", f |-> nm, meta |-> m]  \* meta: fst_clus, file_size

Slots ==
    {End, Empty, Dot}
    \cup [t : {"long"}, f : Names \cup {Torn}, ord : 1 .. 2, last : BOOLEAN]
    \cup [t : {"short"}, f : Names, meta : Metas]

VARIABLES
    slots,     \* the directory's slots on disk, cluster after cluster
    created,   \* files ealloc created and eremove has not removed
    eoff,      \* each created entry's off: where ealloc put it, in slots
    wild,      \* eremove or eupdate addressed a sector outside the directory
    panicked,  \* alloc_clus found no cluster to grow the directory
    dent        \* each file's dirent in memory: first_clus and file_size
               \* (meta), and dirty

vars == <<slots, created, eoff, wild, panicked, dent>>

TypeOK ==
    /\ slots \in Seq(Slots)
    /\ Len(slots) \in {k * SPC : k \in 1 .. DirClusMax}
    /\ created \subseteq Names
    /\ eoff \in [Names -> Nat]
    /\ wild \in BOOLEAN /\ panicked \in BOOLEAN
    /\ dent \in [Names -> [meta : Metas, dirty : BOOLEAN]]

(* One cluster of zeroes, as zero_clus leaves a cluster alloc_clus hands  *)
(* out: every slot reads as END_OF_ENTRY.                                  *)
Zeroed == [k \in 1 .. SPC |-> End]

(* An empty root; a subdirectory made by ealloc has "." and "..".          *)
Init ==
    /\ slots = IF IsRoot THEN Zeroed
               ELSE [k \in 1 .. SPC |-> IF k <= 2 THEN Dot ELSE End]
    /\ created = {}
    /\ eoff = [nm \in Names |-> 0]
    /\ wild = FALSE
    /\ panicked = FALSE
    /\ dent = [nm \in Names |-> [meta |-> 0, dirty |-> FALSE]]

-----------------------------------------------------------------------------
(* enext(dp, ep, off, &count), off counted in slots from 0.  It returns a *)
(* record: ret is "end" (-1), "slots" (0: empty slots), "file" (1), or   *)
(* "fault" for a store through the count pointer already set to 0;      *)
(* info is what read_entry_info takes from the short entry of a file;     *)
(* count is *count afterwards; name is what                                *)
(* ep->filename holds: a function from long-name part to the file that    *)
(* wrote it, or a part 0 holding the short name of a short entry.         *)
(* A slot past the last cluster is where reloc_clus returns -1.            *)
(*   k      the slot being read                                           *)
(*   cnt    empty slots seen                                              *)
(*   cp     count still points at the caller's count                      *)
(*   c      the caller's count                                            *)
(*   name   ep->filename, cleared when enext starts                        *)

NoName == [i \in {} |-> 0]

(* read_entry_info: first_clus from fst_clus_hi << 16 | fst_clus_lo, and  *)
(* file_size; a "." or ".." entry's are not modelled.                     *)
EntryInfo(s) == IF s = Dot THEN 0 ELSE s.meta

RECURSIVE EnextFrom(_, _, _, _, _)
EnextFrom(k, cnt, cp, c, name) ==
    IF k >= Len(slots) THEN [ret |-> "end", count |-> c, name |-> name]
    ELSE
    LET s == slots[k + 1] IN
    CASE s = End -> [ret |-> "end", count |-> c, name |-> name]
      [] s = Empty -> EnextFrom(k + 1, cnt + 1, cp, c, name)
      [] cnt > 0 /\ ~cp -> [ret |-> "fault", count |-> c, name |-> name]
      [] cnt > 0 -> [ret |-> "slots", count |-> cnt, name |-> name]
      [] s.t = "long" /\ s.last /\ ~cp ->
            [ret |-> "fault", count |-> c, name |-> name]
      [] s.t = "long" ->
            EnextFrom(k + 1, 0, cp /\ ~s.last,
                      IF s.last THEN s.ord + 1 ELSE c,
                      [i \in DOMAIN name \cup {s.ord} |->
                          IF i = s.ord THEN s.f ELSE name[i]])
      [] OTHER ->
            IF cp THEN [ret |-> "file", count |-> 1, info |-> EntryInfo(s),
                        name |-> (0 :> IF s = Dot THEN "." ELSE s.f)]
            ELSE [ret |-> "file", count |-> c, name |-> name,
                  info |-> EntryInfo(s)]

Enext(off, c) == EnextFrom(off, 0, TRUE, c, NoName)

(* strncmp(filename, ep->filename) = 0: every long-name part is nm's.      *)
NameIs(name, nm) == name = [i \in 1 .. Lfn[nm] |-> nm]

(* The scan of dirlookup(dp, filename, &off) after a cache miss.  The     *)
(* loop test is type = enext(...) != -1, so type is 1 inside the loop and *)
(* the empty-slot branch never runs: the free offset is only set after    *)
(* the loop, to where the scan stopped.                                    *)
RECURSIVE ScanFrom(_, _, _)
ScanFrom(nm, off, count) ==
    LET r == Enext(off, count) IN
    CASE r.ret = "fault" -> [fault |-> TRUE, found |-> FALSE, off |-> off]
      [] r.ret = "end" -> [fault |-> FALSE, found |-> FALSE, off |-> off]
      [] NameIs(r.name, nm) ->
            [fault |-> FALSE, found |-> TRUE, off |-> off, info |-> r.info]
      [] OTHER -> ScanFrom(nm, off + r.count, r.count)

Lookup(nm) == ScanFrom(nm, 0, 0)

(* Mutant: no slot gets LAST_LONG_ENTRY.                                   *)
EntriesNoLast(off, nm) ==
    IF off <= 1 THEN <<Dot>>
    ELSE [j \in 1 .. Lfn[nm] |-> Long(nm, Lfn[nm] - j + 1, FALSE)]
         \o <<Short(nm, 0)>>

-----------------------------------------------------------------------------
(* emake(dp, ep, off): the slots it writes from off.  An offset of at most *)
(* 32 bytes is taken for "." (0) or ".." (32); else the long-name slots    *)
(* go in order entcnt .. 1, the first with LAST_LONG_ENTRY, and then the   *)
(* short entry.                                                             *)
Entries(off, nm) ==
    IF off <= 1 THEN <<Dot>>
    ELSE [j \in 1 .. Lfn[nm] |-> Long(nm, Lfn[nm] - j + 1, j = 1)]
         \o <<Short(nm, 0)>>

(* reloc_clus(dp, off, 1) grows the directory a zeroed cluster at a time  *)
(* until slot k exists.                                                    *)
ClustersFor(k) == (k \div SPC) + 1

(* Mutant: one cluster more than needed.                                   *)
GrowOneMore(s, k) ==
    IF k < Len(s) THEN s
    ELSE s \o [j \in 1 .. ((ClustersFor(k) + 1) * SPC - Len(s)) |-> End]

Grow(s, k) ==
    IF k < Len(s) THEN s
    ELSE s \o [j \in 1 .. (ClustersFor(k) * SPC - Len(s)) |-> End]

(* rw_clus writing entry e at slot k.                                      *)
WriteSlot(s, k, e) ==
    IF WriteReachesDisk THEN [s EXCEPT ![k + 1] = e] ELSE s

RECURSIVE WriteRun(_, _, _)
WriteRun(s, k, es) ==
    IF es = <<>> THEN s
    ELSE WriteRun(WriteSlot(Grow(s, k), k, Head(es)), k + 1, Tail(es))

(* Mutant: the loop stops one slot early, i < entcnt.                      *)
EntCntOneShort(s) ==
    CASE s = End -> 0
      [] s = Empty -> 165
      [] s = Dot -> 46
      [] s.t = "long" -> s.ord - 1
      [] OTHER -> ShortOrd[s.f]

(* Mutant: entcnt keeps the LAST_LONG_ENTRY bit of the order byte.         *)
EntCntNoMask(s) ==
    CASE s = End -> 0
      [] s = Empty -> 229
      [] s = Dot -> 46
      [] s.t = "long" -> s.ord + (IF s.last THEN 64 ELSE 0)
      [] OTHER -> ShortOrd[s.f]

(* eremove's entcnt: the order byte of the slot at entry->off, read into  *)
(* a zeroed uint, & ~LAST_LONG_ENTRY.                                      *)
EntCnt(s) ==
    CASE s = End -> 0
      [] s = Empty -> 165              \* 0xe5 & ~0x40
      [] s = Dot -> 46                 \* '.' & ~0x40
      [] s.t = "long" -> s.ord
      [] OTHER -> ShortOrd[s.f]

-----------------------------------------------------------------------------
(* ealloc(dp, name, attr) for a name dirlookup does not find: emake at    *)
(* the offset dirlookup left in off, and ep->off = off.  A scan that      *)
(* faults is left out: DirWellFormed excludes the slots that cause it.    *)
Ealloc(nm) ==
    LET r == Lookup(nm)
        es == Entries(r.off, nm) IN
    /\ ~panicked
    /\ ~r.found /\ ~r.fault
    /\ ClustersFor(r.off + Len(es) - 1) <= DirClusMax
    /\ slots' = WriteRun(slots, r.off, es)
    /\ created' = created \cup {nm}
    /\ eoff' = [eoff EXCEPT ![nm] = r.off]
    /\ dent' = [dent EXCEPT ![nm] = [meta |-> 0, dirty |-> FALSE]]
    /\ UNCHANGED <<wild, panicked>>

(* emake's reloc_clus needs a cluster and alloc_clus has none: panic.      *)
EallocNoRoom(nm) ==
    LET r == Lookup(nm) IN
    /\ ~panicked
    /\ ~r.found /\ ~r.fault
    /\ ClustersFor(r.off + Len(Entries(r.off, nm)) - 1) > DirClusMax
    /\ panicked' = TRUE
    /\ UNCHANGED <<slots, created, eoff, wild, dent>>

(* eremove(entry) of a created file: read entcnt at entry->off, then put  *)
(* EMPTY_ENTRY in entcnt + 1 slots from there.  A slot past the last      *)
(* cluster is where reloc_clus returns -1; rw_clus is then called with    *)
(* off2 = -1 on the first cluster, a sector outside the directory.        *)
Eremove(nm) ==
    LET o == eoff[nm]
        n == EntCnt(slots[o + 1]) IN
    /\ ~panicked
    /\ nm \in created
    /\ slots' = [k \in 1 .. Len(slots) |->
                    IF k - 1 \in o .. o + n /\ WriteReachesDisk
                    THEN Empty ELSE slots[k]]
    /\ wild' = (wild \/ o + n >= Len(slots))
    /\ created' = created \ {nm}
    /\ UNCHANGED <<eoff, panicked, dent>>

(* The metadata effect of ewrite and etrunc on a created file's dirent,   *)
(* under its own sleeplock: a new first cluster or size, and dirty = 1.   *)
Touch(nm, m) ==
    /\ ~panicked
    /\ nm \in created
    /\ dent' = [dent EXCEPT ![nm] = [meta |-> m, dirty |-> TRUE]]
    /\ UNCHANGED <<slots, created, eoff, wild, panicked>>

(* The short entry's fields eupdate rewrites (fst_clus_hi, fst_clus_lo,   *)
(* file_size) in whatever slot it lands on.  In a long-name slot they are *)
(* the bytes of characters 9, 12 and 13, which may or may not change the  *)
(* name; the order byte and attr of every slot are untouched.             *)
MetaWritten(s, m) ==
    CASE s.t = "short" -> {[s EXCEPT !.meta = m]}
      [] s.t = "long" -> {s, [s EXCEPT !.f = Torn]}
      [] OTHER -> {s}

(* Mutant: eupdate keeps the LAST_LONG_ENTRY bit of the order byte.       *)
EupdateNoMask(nm) ==
    LET o == eoff[nm]
        k == o + EntCntNoMask(slots[o + 1]) IN
    /\ ~panicked
    /\ nm \in created /\ dent[nm].dirty
    /\ IF k >= Len(slots)
         THEN /\ wild' = TRUE
              /\ UNCHANGED slots
         ELSE /\ \E e \in MetaWritten(slots[k + 1], dent[nm].meta) :
                    slots' = WriteSlot(slots, k, e)
              /\ UNCHANGED wild
    /\ dent' = [dent EXCEPT ![nm].dirty = FALSE]
    /\ UNCHANGED <<created, eoff, panicked>>

(* eupdate(entry) of a dirty, valid entry: read the order byte at         *)
(* entry->off, entcnt = order & ~LAST_LONG_ENTRY, read the slot           *)
(* entcnt << 5 bytes further, put first_clus and file_size in it and      *)
(* write it back; dirty = 0.  Past the last cluster reloc_clus returns    *)
(* -1 and rw_clus reads and writes off -1 of the first cluster.           *)
Eupdate(nm) ==
    LET o == eoff[nm]
        k == o + EntCnt(slots[o + 1]) IN
    /\ ~panicked
    /\ nm \in created /\ dent[nm].dirty
    /\ IF k >= Len(slots)
         THEN /\ wild' = TRUE
              /\ UNCHANGED slots
         ELSE /\ \E e \in MetaWritten(slots[k + 1], dent[nm].meta) :
                    slots' = WriteSlot(slots, k, e)
              /\ UNCHANGED wild
    /\ dent' = [dent EXCEPT ![nm].dirty = FALSE]
    /\ UNCHANGED <<created, eoff, panicked>>

Next ==
    \/ \E nm \in Names : Ealloc(nm) \/ EallocNoRoom(nm) \/ Eremove(nm)
                        \/ Eupdate(nm)
    \/ \E nm \in Names, m \in Metas : Touch(nm, m)

Spec == Init /\ [][Next]_vars

-----------------------------------------------------------------------------
(* Properties                                                              *)

(* Slot k starts nm's entry as FAT32 lays it out: the long-name slots     *)
(* with order Lfn[nm] (marked last) down to 1, then the short entry.       *)
IsRunOf(k, nm) ==
    /\ k + Lfn[nm] < Len(slots)
    /\ \A j \in 1 .. Lfn[nm] :
          slots[k + j] = Long(nm, Lfn[nm] - j + 1, j = 1)
    /\ slots[k + Lfn[nm] + 1].t = "short"
    /\ slots[k + Lfn[nm] + 1].f = nm

(* Read the directory from slot k: "." and ".." first in a subdirectory,  *)
(* then empty slots and whole entries of distinct files up to an END,     *)
(* and only END after it.  The result tells whether it parses and which   *)
(* files it holds.                                                         *)
RECURSIVE Parse(_, _)
Parse(k, seen) ==
    IF k >= Len(slots) THEN [ok |-> TRUE, seen |-> seen]
    ELSE
    LET s == slots[k + 1] IN
    CASE s = End ->
            [ok |-> \A j \in k + 1 .. Len(slots) : slots[j] = End,
             seen |-> seen]
      [] s = Empty -> Parse(k + 1, seen)
      [] s = Dot -> IF ~IsRoot /\ k < 2 THEN Parse(k + 1, seen)
                    ELSE [ok |-> FALSE, seen |-> seen]
      [] s.t = "long" /\ s.f \notin seen /\ IsRunOf(k, s.f) ->
            Parse(k + Lfn[s.f] + 1, seen \cup {s.f})
      [] OTHER -> [ok |-> FALSE, seen |-> seen]

(* The slots ealloc and eremove leave are a well-formed directory holding *)
(* exactly the created files: emake's layout, eremove's entcnt + 1 slots  *)
(* and the free offset dirlookup hands to emake fit together, so no       *)
(* orphan long-name or short entry and no overwritten neighbour appears.   *)
DirWellFormed ==
    LET p == Parse(0, {}) IN p.ok /\ p.seen = created

(* A created file is found by dirlookup's scan, at the off recorded in its *)
(* entry (what eremove and eupdate use); a removed one is not found (spec  *)
(* scenarios 2 and 6: create, then remove and look up again).             *)
NameRoundTrip ==
    \A nm \in Names :
        /\ Lookup(nm).found <=> nm \in created
        /\ nm \in created => Lookup(nm).off = eoff[nm]

(* What dirlookup reads back for a file with no unwritten changes is what *)
(* its dirent holds: eupdate finds the short entry from the order byte at *)
(* entry->off, past the long-name slots emake put there, and the          *)
(* read_entry_info of a later scan sees first_clus and file_size as they  *)
(* were when the last eupdate ran, through removes and creates around it. *)
MetaRoundTrip ==
    \A nm \in created :
        LET r == Lookup(nm) IN
        ~dent[nm].dirty /\ r.found => r.info = dent[nm].meta

(* eremove and eupdate write only slots of the entry's directory: the    *)
(* entcnt they read at entry->off never carries them past the last       *)
(* cluster (for eremove, as below).                                       *)
(* eremove writes only slots of the directory it removes the entry from:  *)
(* the entcnt it reads at entry->off never carries it past the last       *)
(* cluster, where reloc_clus returns -1 and rw_clus is handed off2 = -1.  *)
NoWildWrite == ~wild

(* The free offset as the spec describes dirlookup's: the first run of     *)
(* empty slots, before the END, long enough for n slots or running up to  *)
(* the END; else the END itself.                                           *)
FirstEnd ==
    IF \E k \in 1 .. Len(slots) : slots[k] = End
    THEN (CHOOSE k \in 1 .. Len(slots) :
              slots[k] = End /\ \A j \in 1 .. k - 1 : slots[j] # End) - 1
    ELSE Len(slots)

FreeFrom(k, n) == \A j \in k .. k + n - 1 : j < FirstEnd /\ slots[j + 1] = Empty

FirstFit(n) ==
    LET fits == {k \in 0 .. FirstEnd - 1 :
                    /\ slots[k + 1] = Empty
                    /\ k = 0 \/ slots[k] # Empty
                    /\ FreeFrom(k, n) \/ FreeFrom(k, FirstEnd - k)} IN
    IF fits = {} THEN FirstEnd
    ELSE CHOOSE k \in fits : \A j \in fits : k <= j

(* ealloc puts a new file in the first run of empty slots that fits it     *)
(* (the spec: dirlookup tracks the first run of sufficient empty slots for *)
(* a later allocation; scenario 6: after eremove the offset points at a    *)
(* run long enough to reallocate).                                         *)
FreeRunReused ==
    [][\A nm \in Names :
          Ealloc(nm) => eoff'[nm] = FirstFit(Lfn[nm] + 1)]_vars

=============================================================================
