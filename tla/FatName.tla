------------------------------ MODULE FatName ------------------------------
(* The name pipeline of fat32.c that DirSlots abstracts to name tokens:   *)
(* formatname, generate_shortname, cal_checksum, emake's long-name        *)
(* encoder, enext's decoder (read_entry_name and snstr), skipelem and     *)
(* the walk of lookup_path, with the string.c helpers they call.          *)
(*                                                                         *)
(* A C string is the sequence of its bytes before the NUL; a byte array   *)
(* with explicit zeros (the filename buffer) is a function from offsets.  *)
(* Bytes are their ASCII codes.  Every operator is pure, and the          *)
(* properties are checked against reference definitions over bounded      *)
(* sets of names and paths.                                               *)
EXTENDS Integers, Sequences, FiniteSets

LOCAL INSTANCE SequencesExt
LOCAL INSTANCE Bitwise

\* fat32.h
FAT32_MAX_FILENAME == 255
CHAR_LONG_NAME == 13
CHAR_SHORT_NAME == 11
LAST_LONG_ENTRY == 64

ChSpace == 32
ChDot == 46
ChSlash == 47
ChUnder == 95

\* formatname's and generate_shortname's static illegal[] strings
FormatIllegal == <<34, 42, 47, 58, 60, 62, 63, 92, 124>>   \* " * / : < > ? \ |
ShortIllegal == <<43, 44, 59, 61, 91, 93>>                 \* + , ; = [ ]

\* strchr(s, c) != 0 for c # 0: c occurs before s's NUL.
StrChr(s, c) == \E i \in 1..Len(s) : s[i] = c

\* strlen of a zero-terminated byte array b over 0..n.
StrLen(b) ==
    LET nul == {o \in DOMAIN b : b[o] = 0}
    IN  CHOOSE o \in nul : \A x \in nul : o <= x

\* The C string held in byte array b.
CStr(b) == [i \in 1..StrLen(b) |-> b[i - 1]]

\* strncmp(p, q, n): 0 or the difference of the first unequal bytes.
RECURSIVE Strncmp(_, _, _)
Strncmp(p, q, n) ==
    LET hp == IF p = <<>> THEN 0 ELSE Head(p)
        hq == IF q = <<>> THEN 0 ELSE Head(q)
    IN  IF n > 0 /\ hp # 0 /\ hp = hq THEN Strncmp(Tail(p), Tail(q), n - 1)
        ELSE IF n = 0 THEN 0 ELSE hp - hq

\* The number of leading bytes of s that lie in S (a pointer advanced by
\* `while (*p in S) p++`), and of those that differ from c.
LeadIn(s, S) ==
    LET stop == {i \in 1..Len(s) : s[i] \notin S}
    IN  IF stop = {} THEN Len(s)
        ELSE (CHOOSE i \in stop : \A x \in 1..(i - 1) : s[x] \in S) - 1

LeadOther(s, c) ==
    LET stop == {i \in 1..Len(s) : s[i] = c}
    IN  IF stop = {} THEN Len(s)
        ELSE (CHOOSE i \in stop : \A x \in 1..(i - 1) : s[x] # c) - 1

(***************************************************************************)
(* formatname: skip leading ' ' and '.', reject a control byte or one of  *)
(* illegal[], cut trailing ' '.  The result is [ok, name]; ok = FALSE is  *)
(* the NULL return.                                                        *)
(***************************************************************************)
Formatname(name) ==
    LET s    == SubSeq(name, LeadIn(name, {ChSpace, ChDot}) + 1, Len(name))
        keep == Len(s) - LeadIn(Reverse(s), {ChSpace})
    IN  IF \E i \in 1..Len(s) : s[i] < 32 \/ StrChr(FormatIllegal, s[i])
        THEN [ok |-> FALSE, name |-> <<>>]
        ELSE [ok |-> TRUE, name |-> SubSeq(s, 1, keep)]

(***************************************************************************)
(* generate_shortname, one loop iteration per call.  k is the index of    *)
(* the byte `name` points at, p the index `p` points at (0 for NULL), sn  *)
(* the 11-byte shortname[] that emake zeroed.                             *)
(***************************************************************************)
ShortChar(c) ==
    IF c >= 97 /\ c <= 122 THEN c - 32
    ELSE IF StrChr(ShortIllegal, c) THEN ChUnder ELSE c

\* A mutant: the last-'.' branch leaves p set.
RECURSIVE ShortLoopKeepP(_, _, _, _, _)
ShortLoopKeepP(name, i, k, p, sn) ==
    LET c == IF k <= Len(name) THEN name[k] ELSE 0
        k1 == k + 1                                   \* name++
    IN  IF i >= CHAR_SHORT_NAME \/ c = 0 THEN [i |-> i, sn |-> sn]
        ELSE IF i = 8 /\ p # 0
             THEN IF p + 1 < k1 THEN [i |-> i, sn |-> sn]      \* no '.'
                  ELSE ShortLoopKeepP(name, i, p + 1, 0, sn)
        ELSE IF c = ChSpace THEN ShortLoopKeepP(name, i, k1, p, sn)
        ELSE IF c = ChDot
             THEN IF k1 > p                                    \* last '.'
                  THEN ShortLoopKeepP(name, 8, k1, p,
                          [o \in 0..10 |-> IF o >= i /\ o < 8
                                           THEN ChSpace ELSE sn[o]])
                  ELSE ShortLoopKeepP(name, i, k1, p, sn)
        ELSE ShortLoopKeepP(name, i + 1, k1, p, [sn EXCEPT ![i] = ShortChar(c)])

RECURSIVE ShortLoop(_, _, _, _, _)
ShortLoop(name, i, k, p, sn) ==
    LET c == IF k <= Len(name) THEN name[k] ELSE 0
        k1 == k + 1                                   \* name++
    IN  IF i >= CHAR_SHORT_NAME \/ c = 0 THEN [i |-> i, sn |-> sn]
        ELSE IF i = 8 /\ p # 0
             THEN IF p + 1 < k1 THEN [i |-> i, sn |-> sn]      \* no '.'
                  ELSE ShortLoop(name, i, p + 1, 0, sn)
        ELSE IF c = ChSpace THEN ShortLoop(name, i, k1, p, sn)
        ELSE IF c = ChDot
             THEN IF k1 > p                                    \* last '.'
                  THEN ShortLoop(name, 8, k1, 0,
                          [o \in 0..10 |-> IF o >= i /\ o < 8
                                           THEN ChSpace ELSE sn[o]])
                  ELSE ShortLoop(name, i, k1, p, sn)
        ELSE ShortLoop(name, i + 1, k1, p, [sn EXCEPT ![i] = ShortChar(c)])

GenerateShortname(name) ==
    LET dots == {j \in 1..Len(name) : name[j] = ChDot}
        p0   == IF dots = {} THEN 1
                ELSE CHOOSE j \in dots : \A x \in dots : x <= j
        r    == ShortLoop(name, 0, 1, p0, [o \in 0..10 |-> 0])
    IN  [o \in 0..10 |-> IF o >= r.i THEN ChSpace ELSE r.sn[o]]

\* cal_checksum: sum = ((sum & 1) ? 0x80 : 0) + (sum >> 1) + c, as uchar.
RECURSIVE ChecksumFrom(_, _, _)
ChecksumFrom(sn, o, sum) ==
    IF o = CHAR_SHORT_NAME THEN sum
    ELSE ChecksumFrom(sn, o + 1,
            ((IF (sum & 1) = 1 THEN 128 ELSE 0) + shiftR(sum, 1) + sn[o])
                % 256)

CalChecksum(sn) == ChecksumFrom(sn, 0, 0)

(***************************************************************************)
(* emake's long-name run for filename f: entcnt slots, written from order *)
(* entcnt (with LAST_LONG_ENTRY) down to 1.  Slot i carries the 13 UCS-2  *)
(* units of f from byte (i-1)*13: a byte as a unit, then the NUL, then    *)
(* 0xFFFF once `end` is set.  The 5/6/2 split into name1, name2 and name3 *)
(* is layout: Units holds the three fragments in order.                   *)
(***************************************************************************)
\* A mutant: the slot count rounded down.
LfnEntCntFloor(f) == Len(f) \div CHAR_LONG_NAME

LfnEntCnt(f) == (Len(f) + CHAR_LONG_NAME - 1) \div CHAR_LONG_NAME

LfnUnit(f, i, j) ==
    LET q == (i - 1) * CHAR_LONG_NAME + j
    IN  IF q <= Len(f) THEN f[q] ELSE IF q = Len(f) + 1 THEN 0 ELSE 65535

Emake(f) ==
    LET n  == LfnEntCnt(f)
        sn == GenerateShortname(f)
    IN  [lfn |-> [x \in 1..n |->
                    LET i == n + 1 - x
                    IN  [order |-> IF i = n THEN i + LAST_LONG_ENTRY ELSE i,
                         checksum |-> CalChecksum(sn),
                         units |-> [j \in 1..CHAR_LONG_NAME |-> LfnUnit(f, i, j)]]],
         short |-> sn]

(***************************************************************************)
(* snstr(dst, src, len) as the bytes it stores: offset -> byte.  The copy *)
(* loop `while (len-- && *src)` decrements len once more when it stops at *)
(* a zero unit, so the zero fill then leaves the last byte unwritten.     *)
(***************************************************************************)
Snstr(src, len) ==
    LET m     == LeadOther(SubSeq(src, 1, len), 0)
        zeros == IF m < len THEN len - m - 1 ELSE 0
    IN  [o \in 0..(m + zeros - 1) |-> IF o < m THEN src[o + 1] % 256 ELSE 0]

\* The bytes g stores, shifted to start at offset base.
Shift(g, base) == [o \in {x + base : x \in DOMAIN g} |-> g[o - base]]

\* read_entry_name's long branch: name1, name2, name3 at offsets 0, 5, 11.
ReadEntryNameLong(units) ==
    LET w1 == Snstr(SubSeq(units, 1, 5), 5)
        w2 == Shift(Snstr(SubSeq(units, 6, 11), 6), 5)
        w3 == Shift(Snstr(SubSeq(units, 12, 13), 2), 11)
    IN  [o \in DOMAIN w1 \cup DOMAIN w2 \cup DOMAIN w3 |->
            IF o \in DOMAIN w1 THEN w1[o]
            ELSE IF o \in DOMAIN w2 THEN w2[o] ELSE w3[o]]

\* read_entry_name's short branch: base up to ' ', a '.' if name[8] is not
\* ' ', the extension up to ' '.
ReadEntryNameShort(sn) ==
    LET base == LeadOther([i \in 1..8 |-> sn[i - 1]], ChSpace)
        ext  == LeadOther([i \in 1..3 |-> sn[i + 7]], ChSpace)
    IN  [i \in 1..base |-> sn[i - 1]]
        \o (IF sn[8] # ChSpace THEN <<ChDot>> ELSE <<>>)
        \o [i \in 1..ext |-> sn[i + 7]]

(***************************************************************************)
(* enext over one file's run: memset(ep->filename, 0, 256), then each     *)
(* long slot decoded at (lcnt - 1) * 13 with lcnt = order & ~0x40; with   *)
(* no long slot, the short name is decoded.  Offsets run to 259: a 20-    *)
(* slot name stores past filename[255] into the fields that follow it.    *)
(***************************************************************************)
FilenameBytes == 0..(20 * CHAR_LONG_NAME - 1)

EnextName(ent) ==
    LET w(x) == Shift(ReadEntryNameLong(ent.lfn[x].units),
                      ((ent.lfn[x].order & 191) - 1) * CHAR_LONG_NAME)
        ws   == {w(x) : x \in DOMAIN ent.lfn}
        buf  == [o \in FilenameBytes |->
                    IF \E g \in ws : o \in DOMAIN g
                    THEN (CHOOSE g \in ws : o \in DOMAIN g)[o] ELSE 0]
    IN  IF ent.lfn = <<>> THEN ReadEntryNameShort(ent.short) ELSE CStr(buf)

(***************************************************************************)
(* skipelem: skip '/', take the component up to the next '/' or NUL, cut  *)
(* it to FAT32_MAX_FILENAME bytes (name[len] = 0; memmove(name, s, len)), *)
(* skip the '/' after it.  ok = FALSE is the NULL return.                 *)
(***************************************************************************)
\* A mutant: the '/' after the component is not skipped.
SkipelemKeepSlash(path) ==
    LET s   == SubSeq(path, LeadIn(path, {ChSlash}) + 1, Len(path))
        len == LeadOther(s, ChSlash)
        r   == SubSeq(s, len + 1, Len(s))
    IN  IF s = <<>> THEN [ok |-> FALSE, name |-> <<>>, rest |-> <<>>]
        ELSE [ok   |-> TRUE,
              name |-> SubSeq(s, 1, IF len > FAT32_MAX_FILENAME
                                    THEN FAT32_MAX_FILENAME ELSE len),
              rest |-> r]

Skipelem(path) ==
    LET s   == SubSeq(path, LeadIn(path, {ChSlash}) + 1, Len(path))
        len == LeadOther(s, ChSlash)
        r   == SubSeq(s, len + 1, Len(s))
    IN  IF s = <<>> THEN [ok |-> FALSE, name |-> <<>>, rest |-> <<>>]
        ELSE [ok   |-> TRUE,
              name |-> SubSeq(s, 1, IF len > FAT32_MAX_FILENAME
                                    THEN FAT32_MAX_FILENAME ELSE len),
              rest |-> SubSeq(r, LeadIn(r, {ChSlash}) + 1, Len(r))]

(***************************************************************************)
(* lookup_path's loop over the components, every one a directory that     *)
(* dirlookup finds: looked lists the names handed to dirlookup; ret is    *)
(* "entry" (the last entry), "parent" (the early return of parent mode,   *)
(* with the last component in name) or "null".                          *)
(***************************************************************************)
RECURSIVE LookupWalk(_, _, _)
LookupWalk(path, parent, looked) ==
    LET e == Skipelem(path)
    IN  IF ~e.ok
        THEN [looked |-> looked, ret |-> IF parent THEN "null" ELSE "entry",
              name |-> <<>>]
        ELSE IF parent /\ e.rest = <<>>
             THEN [looked |-> looked, ret |-> "parent", name |-> e.name]
        ELSE LookupWalk(e.rest, parent, Append(looked, e.name))

LookupPath(path, parent) ==
    IF path = <<>> THEN [looked |-> <<>>, ret |-> "null", name |-> <<>>]
    ELSE LookupWalk(path, parent, <<>>)

\* ename and enameparent: lookup_path with parent = 0 and 1.
Ename(path) == LookupPath(path, FALSE)

Enameparent(path) == LookupPath(path, TRUE)

(***************************************************************************)
(* memmove(dst, src, n) on a byte array mem: backwards when src lies      *)
(* below dst and the ranges overlap, forwards otherwise.                  *)
(***************************************************************************)
RECURSIVE MoveBack(_, _, _, _)
MoveBack(mem, d, s, n) ==
    IF n = 0 THEN mem
    ELSE MoveBack([mem EXCEPT ![d + n - 1] = mem[s + n - 1]], d, s, n - 1)

RECURSIVE MoveFwd(_, _, _, _)
MoveFwd(mem, d, s, n) ==
    IF n = 0 THEN mem
    ELSE MoveFwd([mem EXCEPT ![d] = mem[s]], d + 1, s + 1, n - 1)

\* A mutant: always copying forwards.
MemmoveFwd(mem, d, s, n) == IF n = 0 THEN mem ELSE MoveFwd(mem, d, s, n)

Memmove(mem, d, s, n) ==
    IF n = 0 THEN mem
    ELSE IF s < d /\ s + n > d THEN MoveBack(mem, d, s, n)
    ELSE MoveFwd(mem, d, s, n)

(***************************************************************************)
(* Reference definitions.                                                 *)
(***************************************************************************)
\* The 8.3 basis name of spec section 4.7: the bytes before the last '.'
\* (all of them if there is none) without ' ' and '.', then the bytes
\* after it without ' ', a-z upper-cased and +,;=[] replaced by '_',
\* padded with ' ' to 8 and 3.
BasisChar(c) ==
    IF c \in 97..122 THEN c - 32
    ELSE IF c \in {43, 44, 59, 61, 91, 93} THEN ChUnder ELSE c

ShortBasis(name) ==
    LET dots == {j \in 1..Len(name) : name[j] = ChDot}
        last == IF dots = {} THEN 0
                ELSE CHOOSE j \in dots : \A x \in dots : x <= j
        base == SelectSeq(IF last = 0 THEN name ELSE SubSeq(name, 1, last - 1),
                          LAMBDA c : c \notin {ChSpace, ChDot})
        ext  == IF last = 0 THEN <<>>
                ELSE SelectSeq(SubSeq(name, last + 1, Len(name)),
                               LAMBDA c : c # ChSpace)
        Pad(t, w) == [o \in 1..w |-> IF o <= Len(t) THEN BasisChar(t[o])
                                     ELSE ChSpace]
        full == Pad(base, 8) \o Pad(ext, 3)
    IN  [o \in 0..10 |-> full[o + 1]]

\* A path's components: the maximal runs of bytes other than '/', in
\* order of their first byte, each cut to FAT32_MAX_FILENAME bytes.
PathComponents(path) ==
    LET L      == Len(path)
        starts == {i \in 1..L : path[i] # ChSlash /\ (i = 1 \/ path[i - 1] = ChSlash)}
        Kth(k) == CHOOSE i \in starts : Cardinality({x \in starts : x < i}) = k - 1
        End(i) == CHOOSE e \in i..L : (\A x \in i..e : path[x] # ChSlash)
                                      /\ (e = L \/ path[e + 1] = ChSlash)
        Cut(i) == IF End(i) - i + 1 > FAT32_MAX_FILENAME
                  THEN i + FAT32_MAX_FILENAME - 1 ELSE End(i)
    IN  [k \in 1..Cardinality(starts) |-> SubSeq(path, Kth(k), Cut(Kth(k)))]

(***************************************************************************)
(* Bounded inputs.                                                        *)
(***************************************************************************)
Rep(c, n) == [i \in 1..n |-> c]

\* Path components of every length up to FAT32_MAX_FILENAME, and short
\* ones over 'a', '.' and ' ' ("." and ".." are dirlookup's own cases).
Components ==
    {[i \in 1..n |-> 97 + (i % 26)] : n \in 1..FAT32_MAX_FILENAME}
    \cup (BoundedSeq({97, ChDot, ChSpace}, 4) \ {<<>>, <<ChDot>>, <<ChDot, ChDot>>})

\* Names formatname passes through unchanged: 'a' and '.' up to 12 bytes
\* (every case of generate_shortname's i == 8 test), and 'a', 'B', ' ',
\* '+', '.' up to 5.
ShortNames ==
    {s \in BoundedSeq({97, ChDot}, 12) \cup BoundedSeq({97, 66, ChSpace, 43, ChDot}, 5) :
        Formatname(s) = [ok |-> TRUE, name |-> s]}

\* Paths over '/', 'a', 'b' up to 6 bytes, and two with a component
\* longer than FAT32_MAX_FILENAME.
Paths ==
    BoundedSeq({ChSlash, 97, 98}, 6)
    \cup {<<ChSlash>> \o Rep(97, 256) \o <<ChSlash, 98>>, Rep(98, 257) \o <<ChSlash>>}

MemSize == 6
Mem0 == [o \in 0..(MemSize - 1) |-> o + 1]

(***************************************************************************)
(* The facts the properties of a run composing FatName state, each over  *)
(* its bounded inputs.                                                    *)
(***************************************************************************)
\* The name a directory listing shows for a file ealloc(dp, c) created:
\* formatname's result, encoded by emake and decoded by enext.
StoredName(c) == EnextName(Emake(Formatname(c).name))

\* ealloc stores formatname(c), and enext decodes exactly that back from
\* emake's long-name slots and short entry, for names of every length up
\* to 255 (20 slots).  A later lookup_path of the same component c, whose
\* dirlookup compares c with the decoded name by strncmp over 255 bytes,
\* finds the file exactly when formatname left c unchanged: a file
\* created as ".a", " a" or "a " is listed as "a" and never found again.
FindsCreatedFacts ==
    \A c \in Components :
        Formatname(c).ok =>
            /\ StoredName(c) = Formatname(c).name
            /\ (Strncmp(c, StoredName(c), FAT32_MAX_FILENAME) = 0)
                  <=> (Formatname(c).name = c)

\* generate_shortname's pointer loop (the i == 8 jump to the extension,
\* the last-'.' test name > p, the skipped ' ') computes the 8.3 basis
\* name of spec section 4.7 for every name formatname passes on.
ShortBasisFacts ==
    \A s \in ShortNames : GenerateShortname(s) = ShortBasis(s)

\* skipelem, iterated by lookup_path, hands dirlookup the path's non-empty
\* '/'-separated components in order, each cut to 255 bytes; in parent
\* mode the walk stops before the last one (also when the path ends in
\* '/') and returns it in name, and a path with no component gives NULL.
PathSplitFacts ==
    \A path \in Paths, parent \in BOOLEAN :
        LET w  == IF parent THEN Enameparent(path) ELSE Ename(path)
            cs == PathComponents(path)
        IN  IF path = <<>> \/ (parent /\ cs = <<>>) THEN w.ret = "null"
            ELSE IF parent
                 THEN w.ret = "parent" /\ w.looked = Front(cs) /\ w.name = Last(cs)
                 ELSE w.ret = "entry" /\ w.looked = cs

\* memmove copies n bytes from s to d as if through a temporary buffer,
\* also when the ranges overlap in either direction.
MemmoveFacts ==
    \A d, s \in 0..(MemSize - 1), n \in 0..MemSize :
        (d + n <= MemSize /\ s + n <= MemSize) =>
            Memmove(Mem0, d, s, n)
                = [o \in DOMAIN Mem0 |-> IF d <= o /\ o < d + n
                                         THEN Mem0[s + o - d] ELSE Mem0[o]]
====
