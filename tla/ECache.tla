------------------------------- MODULE ECache -------------------------------
(***************************************************************************)
(* The directory-entry cache of src/kernel/fat32.c: eget, edup, eput,      *)
(* elock/eunlock, and the callers that drive them: lookup_path walking a  *)
(* path with dirlookup, a metadata update through ewrite, and eremove.     *)
(*                                                                         *)
(* The disk holds a fixed tree of files (Tree maps a directory and a name *)
(* to a file); what enext finds when dirlookup scans a directory is Tree  *)
(* restricted to the files not yet removed.  An entry's identity in the   *)
(* code is (parent pointer, filename); efile is a history variable        *)
(* recording which file the entry was loaded from, so that a stale parent *)
(* pointer can be detected.  Every critical section of ecache.lock is one *)
(* action; the unlocked stretches of eput are separate actions.           *)
(***************************************************************************)
EXTENDS Integers, FiniteSets, Sequences, SequencesExt

CONSTANTS
    Tasks,     \* kernel tasks resolving paths
    NENT,      \* ENTRY_CACHE_NUM
    Root,      \* the static root dirent
    NoEnt,     \* a NULL struct dirent pointer
    Files,     \* files and directories on the volume
    RootFile,  \* the root directory
    NoFile,    \* no such file
    IsDir,     \* the files with ATTR_DIRECTORY
    Names,     \* path components
    NoName,    \* the zeroed filename of a fresh cache slot
    Tree,      \* [Files \X Names -> Files \cup {NoFile}]: the directory tree
    NoTask     \* owner of an unheld sleeplock

Slots == 1 .. NENT
Ents == Slots \cup {Root}

ASSUME Root \notin Slots /\ NoEnt \notin Ents /\ RootFile \in IsDir
ASSUME IsDir \subseteq Files /\ NoFile \notin Files /\ NoTask \notin Tasks

VARIABLES
    ref,       \* entry->ref
    valid,     \* entry->valid: 0, 1 or -1
    parent,    \* entry->parent
    ename,     \* entry->filename
    efile,     \* history: the file the entry was loaded from
    dirty,     \* entry->dirty
    holder,    \* entry->lock: the holding task or NoTask
    lru,       \* root.next ... root.prev over the cache slots (MRU first)
    present,   \* files still in their directory on disk
    panicked,  \* eget reached panic("eget: insufficient ecache")
    pc,        \* where each task is
    cur,       \* lookup_path's entry
    nxt,       \* lookup_path's next: what dirlookup returned
    tname,     \* the component being looked up
    pe,        \* the entry the task's eput is working on
    pp         \* eput's eparent

vars == <<ref, valid, parent, ename, efile, dirty, holder, lru, present,
          panicked, pc, cur, nxt, tname, pe, pp>>

PCs == {"idle", "elock", "choose", "scan", "unwalk", "undone",
        "put", "flush", "update", "dec", "reread"}

TypeOK ==
    /\ ref \in [Ents -> Int]  \* an int: the races below drive it negative
    /\ valid \in [Ents -> {-1, 0, 1}]
    /\ parent \in [Ents -> Ents \cup {NoEnt}]
    /\ ename \in [Ents -> Names \cup {NoName}]
    /\ efile \in [Ents -> Files \cup {NoFile}]
    /\ dirty \in [Ents -> BOOLEAN]
    /\ holder \in [Ents -> Tasks \cup {NoTask}]
    /\ lru \in Seq(Slots) /\ ToSet(lru) = Slots /\ Len(lru) = NENT
    /\ present \subseteq Files
    /\ panicked \in BOOLEAN
    /\ pc \in [Tasks -> PCs]
    /\ cur \in [Tasks -> Ents \cup {NoEnt}]
    /\ nxt \in [Tasks -> Ents \cup {NoEnt}]
    /\ tname \in [Tasks -> Names]
    /\ pe \in [Tasks -> Ents \cup {NoEnt}]
    /\ pp \in [Tasks -> Ents \cup {NoEnt}]

(* fat32_init: root is valid with the root cluster; every cache slot is   *)
(* zeroed static storage pushed at root.next in index order.              *)
Init ==
    /\ ref = [e \in Ents |-> 0]
    /\ valid = [e \in Ents |-> IF e = Root THEN 1 ELSE 0]
    /\ parent = [e \in Ents |-> IF e = Root THEN Root ELSE NoEnt]
    /\ ename = [e \in Ents |-> NoName]
    /\ efile = [e \in Ents |-> IF e = Root THEN RootFile ELSE NoFile]
    /\ dirty = [e \in Ents |-> FALSE]
    /\ holder = [e \in Ents |-> NoTask]
    /\ lru = [i \in 1 .. NENT |-> NENT + 1 - i]
    /\ present = Files
    /\ panicked = FALSE
    /\ pc = [t \in Tasks |-> "idle"]
    /\ cur = [t \in Tasks |-> NoEnt]
    /\ nxt = [t \in Tasks |-> NoEnt]
    /\ tname = [t \in Tasks |-> CHOOSE n \in Names : TRUE]
    /\ pe = [t \in Tasks |-> NoEnt]
    /\ pp = [t \in Tasks |-> NoEnt]

(* eget's first loop, from root.next: a live entry named n under p.       *)
CachedAt(p, n) ==
    SelectInSeq(lru, LAMBDA e : valid[e] = 1 /\ parent[e] = p /\ ename[e] = n)

(* Mutant: the second loop walks from root.next instead of root.prev.     *)
FreeAtHead == SelectInSeq(lru, LAMBDA e : ref[e] = 0)

(* eget's second loop, from root.prev: the first entry with ref 0.        *)
FreeAt == SelectLastInSeq(lru, LAMBDA e : ref[e] = 0)

(* Mutant: the entry is linked at root.next without being unlinked.       *)
MoveToHeadNoUnlink(e) == <<e>> \o lru

(* eput's unlink and relink of the entry right after root.               *)
MoveToHead(e) == <<e>> \o Remove(lru, e)

(* lookup_path after eput(entry): continue with next, or return.          *)
Continue(t) ==
    /\ pc' = [pc EXCEPT ![t] = IF nxt[t] = NoEnt THEN "idle" ELSE "elock"]
    /\ cur' = [cur EXCEPT ![t] = nxt[t]]
    /\ nxt' = [nxt EXCEPT ![t] = NoEnt]

-----------------------------------------------------------------------------
(* lookup_path                                                             *)

(* An absolute path: entry = edup(&root).                                 *)
Start(t) ==
    /\ pc[t] = "idle"
    /\ ref' = [ref EXCEPT ![Root] = @ + 1]
    /\ cur' = [cur EXCEPT ![t] = Root]
    /\ pc' = [pc EXCEPT ![t] = "elock"]
    /\ UNCHANGED <<valid, parent, ename, efile, dirty, holder, lru, present,
                   panicked, nxt, tname, pe, pp>>

(* A panic: the kernel stops.                                             *)
Halt ==
    /\ panicked' = TRUE
    /\ UNCHANGED <<ref, valid, parent, ename, efile, dirty, holder, lru,
                   present, pc, cur, nxt, tname, pe, pp>>

(* elock(entry): panic if ref < 1; acquiresleeplock blocks while another *)
(* task holds it.                                                         *)
Elock(t) ==
    /\ pc[t] = "elock"
    /\ IF ref[cur[t]] < 1
         THEN Halt
         ELSE /\ holder[cur[t]] = NoTask
              /\ holder' = [holder EXCEPT ![cur[t]] = t]
              /\ pc' = [pc EXCEPT ![t] = "choose"]
              /\ UNCHANGED <<ref, valid, parent, ename, efile, dirty, lru,
                             present, panicked, cur, nxt, tname, pe, pp>>

(* dirlookup(entry, n) -> eget, found in the cache: ref++, and the        *)
(* parent's ref++ when the entry's ref goes from 0 to 1.                  *)
EgetHit(t, n) ==
    LET e == lru[CachedAt(cur[t], n)] IN
    /\ pc[t] = "choose"
    /\ efile[cur[t]] \in IsDir
    /\ CachedAt(cur[t], n) # 0
    /\ ref' = [ref EXCEPT ![e] = @ + 1,
                          ![cur[t]] = IF ref[e] = 0 THEN @ + 1 ELSE @]
    /\ nxt' = [nxt EXCEPT ![t] = e]
    /\ tname' = [tname EXCEPT ![t] = n]
    /\ pc' = [pc EXCEPT ![t] = "unwalk"]
    /\ UNCHANGED <<valid, parent, ename, efile, dirty, holder, lru, present,
                   panicked, cur, pe, pp>>

(* dirlookup -> eget, not cached: the LRU entry with ref 0 is taken with  *)
(* ref = 1, valid = 0, dirty = 0; its parent and filename are left as    *)
(* they were.                                                             *)
EgetMiss(t, n) ==
    LET e == lru[FreeAt] IN
    /\ pc[t] = "choose"
    /\ efile[cur[t]] \in IsDir
    /\ CachedAt(cur[t], n) = 0
    /\ FreeAt # 0
    /\ ref' = [ref EXCEPT ![e] = 1]
    /\ valid' = [valid EXCEPT ![e] = 0]
    /\ dirty' = [dirty EXCEPT ![e] = FALSE]
    /\ nxt' = [nxt EXCEPT ![t] = e]
    /\ tname' = [tname EXCEPT ![t] = n]
    /\ pc' = [pc EXCEPT ![t] = "scan"]
    /\ UNCHANGED <<parent, ename, efile, holder, lru, present, panicked, cur,
                   pe, pp>>

(* eget with neither a hit nor a free entry.                              *)
EgetPanic(t, n) ==
    /\ pc[t] = "choose"
    /\ efile[cur[t]] \in IsDir
    /\ CachedAt(cur[t], n) = 0
    /\ FreeAt = 0
    /\ panicked' = TRUE
    /\ UNCHANGED <<ref, valid, parent, ename, efile, dirty, holder, lru,
                   present, pc, cur, nxt, tname, pe, pp>>

(* Mutant: dirlookup sets ep->parent = dp without edup.                    *)
ScanFoundNoEdup(t) ==
    LET e == nxt[t]
        f == Tree[efile[cur[t]], tname[t]]
    IN
    /\ pc[t] = "scan"
    /\ f \in present
    /\ ename' = [ename EXCEPT ![e] = tname[t]]
    /\ efile' = [efile EXCEPT ![e] = f]
    /\ parent' = [parent EXCEPT ![e] = cur[t]]
    /\ valid' = [valid EXCEPT ![e] = 1]
    /\ pc' = [pc EXCEPT ![t] = "unwalk"]
    /\ UNCHANGED <<ref, dirty, holder, lru, present, panicked, cur, nxt, tname,
                   pe, pp>>

(* The enext scan finds the name: parent = edup(dp), off, valid = 1.      *)
ScanFound(t) ==
    LET e == nxt[t]
        f == Tree[efile[cur[t]], tname[t]]
    IN
    /\ pc[t] = "scan"
    /\ f \in present
    /\ ename' = [ename EXCEPT ![e] = tname[t]]
    /\ efile' = [efile EXCEPT ![e] = f]
    /\ parent' = [parent EXCEPT ![e] = cur[t]]
    /\ ref' = [ref EXCEPT ![cur[t]] = @ + 1]
    /\ valid' = [valid EXCEPT ![e] = 1]
    /\ pc' = [pc EXCEPT ![t] = "unwalk"]
    /\ UNCHANGED <<dirty, holder, lru, present, panicked, cur, nxt, tname,
                   pe, pp>>

(* Mutant: dirlookup returns NULL without eput(ep).                        *)
ScanMissingNoPut(t) ==
    /\ pc[t] = "scan"
    /\ Tree[efile[cur[t]], tname[t]] \notin present
    /\ nxt' = [nxt EXCEPT ![t] = NoEnt]
    /\ pc' = [pc EXCEPT ![t] = "undone"]
    /\ UNCHANGED <<ref, valid, parent, ename, efile, dirty, holder, lru,
                   present, panicked, cur, tname, pe, pp>>

(* The scan reaches the end: eput(ep) on an entry with valid 0 is only    *)
(* ref--, and dirlookup returns NULL.                                     *)
ScanMissing(t) ==
    /\ pc[t] = "scan"
    /\ Tree[efile[cur[t]], tname[t]] \notin present
    /\ ref' = [ref EXCEPT ![nxt[t]] = @ - 1]
    /\ nxt' = [nxt EXCEPT ![t] = NoEnt]
    /\ pc' = [pc EXCEPT ![t] = "undone"]
    /\ UNCHANGED <<valid, parent, ename, efile, dirty, holder, lru, present,
                   panicked, cur, tname, pe, pp>>

(* The caller of ename writes the file with the entry locked: ewrite      *)
(* grows file_size or allocates first_clus and sets dirty.               *)
Ewrite(t) ==
    /\ pc[t] = "choose"
    /\ cur[t] # Root
    /\ valid[cur[t]] = 1
    /\ dirty' = [dirty EXCEPT ![cur[t]] = TRUE]
    /\ pc' = [pc EXCEPT ![t] = "undone"]
    /\ UNCHANGED <<ref, valid, parent, ename, efile, holder, lru, present,
                   panicked, cur, nxt, tname, pe, pp>>

(* eremove of a file, with the entry and its parent locked: its slots    *)
(* become EMPTY_ENTRY on disk and valid = -1.                             *)
Eremove(t) ==
    LET e == cur[t] IN
    /\ pc[t] = "choose"
    /\ e # Root
    /\ valid[e] = 1
    /\ efile[e] \notin IsDir
    /\ holder[parent[e]] = NoTask
    /\ valid' = [valid EXCEPT ![e] = -1]
    /\ present' = present \ {efile[e]}
    /\ pc' = [pc EXCEPT ![t] = "undone"]
    /\ UNCHANGED <<ref, parent, ename, efile, dirty, holder, lru, panicked,
                   cur, nxt, tname, pe, pp>>

(* The caller is done with the entry.                                    *)
Finish(t) ==
    /\ pc[t] = "choose"
    /\ pc' = [pc EXCEPT ![t] = "undone"]
    /\ UNCHANGED <<ref, valid, parent, ename, efile, dirty, holder, lru,
                   present, panicked, cur, nxt, tname, pe, pp>>

(* Mutant: lookup_path puts the entry without eunlock.                     *)
EunlockNoRelease(t) ==
    /\ pc[t] \in {"unwalk", "undone"}
    /\ pe' = [pe EXCEPT ![t] = cur[t]]
    /\ pc' = [pc EXCEPT ![t] = "put"]
    /\ UNCHANGED <<ref, valid, parent, ename, efile, dirty, holder, lru,
                   present, panicked, cur, nxt, tname, pp>>

(* eunlock's test: the task holds the entry's sleeplock and ref >= 1.     *)
MayUnlock(t, e) == holder[e] = t /\ ref[e] >= 1

(* eunlock(entry), which panics unless MayUnlock, followed by eput(entry).*)
Eunlock(t) ==
    /\ pc[t] \in {"unwalk", "undone"}
    /\ IF ~MayUnlock(t, cur[t])
         THEN Halt
         ELSE /\ holder' = [holder EXCEPT ![cur[t]] = NoTask]
              /\ pe' = [pe EXCEPT ![t] = cur[t]]
              /\ pc' = [pc EXCEPT ![t] = "put"]
              /\ UNCHANGED <<ref, valid, parent, ename, efile, dirty, lru,
                             present, panicked, cur, nxt, tname, pp>>

-----------------------------------------------------------------------------
(* eput                                                                    *)

(* The test at the top of eput, under ecache.lock.                        *)
LastRef(e) == e # Root /\ valid[e] # 0 /\ ref[e] = 1

(* The last reference to a loaded entry: acquiresleeplock while still    *)
(* holding ecache.lock, move the entry to root.next, release ecache.lock. *)
(* If another task holds the entry's sleeplock, acquiresleeplock sleeps   *)
(* with the spinlock held, which spec.md 7 rules out for a spinlock (it   *)
(* is non-sleeping and disables preemption): the model stops there.       *)
EputLast(t) ==
    LET e == pe[t] IN
    /\ pc[t] = "put"
    /\ LastRef(e)
    /\ IF holder[e] # NoTask
         THEN Halt
         ELSE /\ holder' = [holder EXCEPT ![e] = t]
              /\ lru' = MoveToHead(e)
              /\ pc' = [pc EXCEPT ![t] = "flush"]
              /\ UNCHANGED <<ref, valid, parent, ename, efile, dirty, present,
                             panicked, cur, nxt, tname, pe, pp>>

(* Any other eput: ref-- under ecache.lock, and return.                   *)
EputDrop(t) ==
    LET e == pe[t] IN
    /\ pc[t] = "put"
    /\ ~LastRef(e)
    /\ ref' = [ref EXCEPT ![e] = @ - 1]
    /\ Continue(t)
    /\ UNCHANGED <<valid, parent, ename, efile, dirty, holder, lru, present,
                   panicked, tname, pe, pp>>

(* valid == -1: etrunc frees the chain and sets size 0, first_clus 0 and  *)
(* dirty; then releasesleeplock and eparent = entry->parent.             *)
EputTrunc(t) ==
    LET e == pe[t] IN
    /\ pc[t] = "flush"
    /\ valid[e] = -1
    /\ dirty' = [dirty EXCEPT ![e] = TRUE]
    /\ holder' = [holder EXCEPT ![e] = NoTask]
    /\ pp' = [pp EXCEPT ![t] = parent[e]]
    /\ pc' = [pc EXCEPT ![t] = "dec"]
    /\ UNCHANGED <<ref, valid, parent, ename, efile, lru, present, panicked,
                   cur, nxt, tname, pe>>

(* valid == 1: elock(entry->parent) panics if the parent's ref < 1, and  *)
(* blocks while the parent is held.                                       *)
EputLockParent(t) ==
    LET e == pe[t] IN
    /\ pc[t] = "flush"
    /\ valid[e] = 1
    /\ IF ref[parent[e]] < 1
         THEN Halt
         ELSE /\ holder[parent[e]] = NoTask
              /\ holder' = [holder EXCEPT ![parent[e]] = t]
              /\ pc' = [pc EXCEPT ![t] = "update"]
              /\ UNCHANGED <<ref, valid, parent, ename, efile, dirty, lru,
                             present, panicked, cur, nxt, tname, pe, pp>>

(* Mutant: eupdate writes the entry back but leaves dirty set.            *)
EputUpdateKeepDirty(t) ==
    LET e == pe[t] IN
    /\ pc[t] = "update"
    /\ holder' = [holder EXCEPT ![parent[e]] = NoTask, ![e] = NoTask]
    /\ pp' = [pp EXCEPT ![t] = parent[e]]
    /\ pc' = [pc EXCEPT ![t] = "dec"]
    /\ UNCHANGED <<ref, valid, parent, ename, efile, dirty, lru, present,
                   panicked, cur, nxt, tname, pe>>

(* Mutant: eput forgets eunlock(entry->parent) after eupdate.             *)
EputUpdateNoParentUnlock(t) ==
    LET e == pe[t] IN
    /\ pc[t] = "update"
    /\ dirty' = [dirty EXCEPT ![e] = FALSE]
    /\ holder' = [holder EXCEPT ![e] = NoTask]
    /\ pp' = [pp EXCEPT ![t] = parent[e]]
    /\ pc' = [pc EXCEPT ![t] = "dec"]
    /\ UNCHANGED <<ref, valid, parent, ename, efile, lru, present, panicked,
                   cur, nxt, tname, pe>>

(* eupdate writes size and first cluster back and clears dirty;           *)
(* eunlock(parent), which panics unless MayUnlock; releasesleeplock(entry);*)
(* eparent = entry->parent.                                               *)
EputUpdate(t) ==
    LET e == pe[t] IN
    /\ pc[t] = "update"
    /\ IF ~MayUnlock(t, parent[e])
         THEN Halt
         ELSE /\ dirty' = [dirty EXCEPT ![e] = FALSE]
              /\ holder' = [holder EXCEPT ![parent[e]] = NoTask, ![e] = NoTask]
              /\ pp' = [pp EXCEPT ![t] = parent[e]]
              /\ pc' = [pc EXCEPT ![t] = "dec"]
              /\ UNCHANGED <<ref, valid, parent, ename, efile, lru, present,
                             panicked, cur, nxt, tname, pe>>

(* acquire(&ecache.lock); entry->ref--; release(&ecache.lock).            *)
EputDec(t) ==
    /\ pc[t] = "dec"
    /\ ref' = [ref EXCEPT ![pe[t]] = @ - 1]
    /\ pc' = [pc EXCEPT ![t] = "reread"]
    /\ UNCHANGED <<valid, parent, ename, efile, dirty, holder, lru, present,
                   panicked, cur, nxt, tname, pe, pp>>

(* if (entry->ref == 0) eput(eparent), reading ref with no lock held.     *)
EputParent(t) ==
    /\ pc[t] = "reread"
    /\ ref[pe[t]] = 0
    /\ pe' = [pe EXCEPT ![t] = pp[t]]
    /\ pc' = [pc EXCEPT ![t] = "put"]
    /\ UNCHANGED <<ref, valid, parent, ename, efile, dirty, holder, lru,
                   present, panicked, cur, nxt, tname, pp>>

EputReturn(t) ==
    /\ pc[t] = "reread"
    /\ ref[pe[t]] # 0
    /\ Continue(t)
    /\ UNCHANGED <<ref, valid, parent, ename, efile, dirty, holder, lru,
                   present, panicked, tname, pe, pp>>

-----------------------------------------------------------------------------

(* What a task holding an entry locked may do next.                       *)
Choose(t) ==
    \/ \E n \in Names : EgetHit(t, n) \/ EgetMiss(t, n) \/ EgetPanic(t, n)
    \/ Ewrite(t)
    \/ Eremove(t)
    \/ Finish(t)

Next ==
    /\ ~panicked
    /\ \E t \in Tasks :
        \/ Start(t)
        \/ Elock(t)
        \/ Choose(t)
        \/ ScanFound(t) \/ ScanMissing(t)
        \/ Eunlock(t)
        \/ EputLast(t) \/ EputDrop(t)
        \/ EputTrunc(t) \/ EputLockParent(t) \/ EputUpdate(t)
        \/ EputDec(t)
        \/ EputParent(t) \/ EputReturn(t)

(* A task that has started keeps running.  Sleeplock acquisitions are    *)
(* enabled only while the lock is free, and releasesleep wakes every      *)
(* sleeper, hence strong fairness for them.  Starting is not fair.        *)
Fairness ==
    \A t \in Tasks :
        /\ SF_vars(Elock(t)) /\ SF_vars(EputLast(t))
        /\ SF_vars(EputLockParent(t))
        /\ WF_vars(Choose(t))
        /\ WF_vars(ScanFound(t) \/ ScanMissing(t))
        /\ WF_vars(Eunlock(t)) /\ WF_vars(EputDrop(t))
        /\ WF_vars(EputTrunc(t)) /\ WF_vars(EputUpdate(t))
        /\ WF_vars(EputDec(t))
        /\ WF_vars(EputParent(t) \/ EputReturn(t))

Spec == Init /\ [][Next]_vars /\ Fairness

-----------------------------------------------------------------------------
(* Properties                                                              *)

(* The references a task owns on entry e: lookup_path's entry while it is *)
(* locked or about to be put, the entry dirlookup returned, and the entry *)
(* an eput is releasing (its own, or the one a child borrowed).           *)
TaskRefs(e) ==
    Cardinality({t \in Tasks : cur[t] = e /\
                    pc[t] \in {"elock", "choose", "scan", "unwalk", "undone"}})
  + Cardinality({t \in Tasks : nxt[t] = e})
  + Cardinality({t \in Tasks : pe[t] = e /\
                    pc[t] \in {"put", "flush", "update", "dec"}})

(* Cached children that hold the reference they borrowed from e.          *)
LiveChildren(e) ==
    Cardinality({c \in Slots : valid[c] # 0 /\ ref[c] > 0 /\ parent[c] = e})

(* eget, edup and eput keep ref at least the number of owners: a task or  *)
(* a live child never holds an entry whose ref says it is free, so eget   *)
(* cannot recycle an entry in use and elock/eunlock never see ref < 1.    *)
RefCovers ==
    \A e \in Ents : ref[e] >= TaskRefs(e) + LiveChildren(e)

(* A cached entry's parent pointer still names its directory: the parent  *)
(* slot has not been recycled for another file while a child that points *)
(* to it stays in the cache.  This rests on eput moving every entry to    *)
(* the MRU end at its last reference and on children releasing the parent *)
(* after themselves, so eget's scan from root.prev frees children first.  *)
ParentConsistent ==
    \A e \in Slots : valid[e] = 1 =>
        /\ parent[e] \in Ents
        /\ valid[parent[e]] = 1
        /\ efile[e] = Tree[efile[parent[e]], ename[e]]

(* Every held sleeplock is held by the task whose code path acquired it   *)
(* and will release it: lookup_path's locked entry, an eput's entry from  *)
(* acquiresleeplock to releasesleeplock, and the parent eput locked for   *)
(* eupdate.  A lock held by no such task is never released.               *)
LocksHeld ==
    \A e \in Ents : holder[e] # NoTask =>
        LET t == holder[e] IN
        \/ e = cur[t] /\ pc[t] \in {"choose", "scan", "unwalk", "undone"}
        \/ e = pe[t] /\ pc[t] \in {"flush", "update"}
        \/ e = parent[pe[t]] /\ pc[t] = "update"

(* Every path walk, with its eputs up the ancestors, returns.              *)
WalkReturns ==
    \A t \in Tasks : pc[t] # "idle" ~> pc[t] = "idle"

(* spec.md 4.9: the parent's reference is borrowed on the child's 0->1    *)
(* transition and returned on its 1->0 transition; so when no task is     *)
(* inside the cache, every entry's ref counts exactly its live children.  *)
QuiescentRefsExact ==
    (\A t \in Tasks : pc[t] = "idle") =>
        \A e \in Ents : ref[e] = LiveChildren(e)

(* spec.md 4.11: LIVE -> CACHED on the final eput "metadata flushed": a   *)
(* loaded entry nobody references is not dirty.                           *)
CachedClean ==
    \A e \in Slots : (valid[e] = 1 /\ ref[e] = 0) => ~dirty[e]
=============================================================================
