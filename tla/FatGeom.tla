------------------------------ MODULE FatGeom ------------------------------
(* The volume geometry of fat32.c: fat32_init's parse of the BIOS        *)
(* parameter block and its derived fields, and the address arithmetic of *)
(* first_sec_of_clus, fat_sec_of_clus and fat_offset_of_clus that        *)
(* read_fat, write_fat, zero_clus and rw_clus use.  FatChain numbers      *)
(* clusters the way alloc_clus does; this module relates those numbers to *)
(* sectors.  The fields are uint32 in the code; the bounded volumes below *)
(* keep every value far below 2^31, so no wrap is reached and the fields  *)
(* are plain integers here (a boot sector with tot_sec below              *)
(* first_data_sec, where data_sec_cnt would wrap, is not among them).     *)
EXTENDS Integers

BSIZE == 512

(* A boot sector: the fields fat32_init reads, and whether "FAT32" is at  *)
(* byte 82.                                                                *)
Bpb(sig, bps, spc, rsvd, fatcnt, totsec, fatsz) ==
    [fat32 |-> sig, byts_per_sec |-> bps, sec_per_clus |-> spc,
     rsvd_sec_cnt |-> rsvd, fat_cnt |-> fatcnt, tot_sec |-> totsec,
     fat_sz |-> fatsz, root_clus |-> 2]

(* A mutant: the cluster count rounded up.                                *)
Fat32InitCeil(b) ==
    LET fds == b.rsvd_sec_cnt + b.fat_cnt * b.fat_sz
        dsc == b.tot_sec - fds
    IN  [ok |-> b.fat32 /\ b.byts_per_sec = BSIZE, bpb |-> b,
         first_data_sec |-> fds, data_sec_cnt |-> dsc,
         data_clus_cnt |-> (dsc + b.sec_per_clus - 1) \div b.sec_per_clus,
         byts_per_clus |-> b.sec_per_clus * b.byts_per_sec]

(* fat32_init: panic unless "FAT32" is at byte 82 and byts_per_sec is     *)
(* BSIZE (ok = FALSE), and the derived fields.                           *)
Fat32Init(b) ==
    LET fds == b.rsvd_sec_cnt + b.fat_cnt * b.fat_sz
        dsc == b.tot_sec - fds
    IN  [ok |-> b.fat32 /\ b.byts_per_sec = BSIZE, bpb |-> b,
         first_data_sec |-> fds, data_sec_cnt |-> dsc,
         data_clus_cnt |-> dsc \div b.sec_per_clus,
         byts_per_clus |-> b.sec_per_clus * b.byts_per_sec]

FirstSecOfClus(g, c) ==
    (c - 2) * g.bpb.sec_per_clus + g.first_data_sec

FatSecOfClus(g, c, fat_num) ==
    g.bpb.rsvd_sec_cnt + (c * 4) \div g.bpb.byts_per_sec
        + g.bpb.fat_sz * (fat_num - 1)

FatOffsetOfClus(g, c) == (c * 4) % g.bpb.byts_per_sec

(* alloc_clus's scan: entry j of FAT sector rsvd_sec_cnt + i is cluster   *)
(* i * ent_per_sec + j.                                                    *)
EntPerSecOf(g) == g.bpb.byts_per_sec \div 4

(* rw_clus's sector for byte offset (its off) of cluster c, below        *)
(* byts_per_clus.                                                         *)
RwClusSec(g, c, offset) == FirstSecOfClus(g, c) + offset \div g.bpb.byts_per_sec

(***************************************************************************)
(* Bounded volumes: byts_per_sec = BSIZE or not, 1, 2 or 8 sectors per    *)
(* cluster, 1 or 32 reserved sectors, one or two FATs of 1 or 2 sectors,  *)
(* and data areas around multiples of the cluster size up to what one or  *)
(* two FAT sectors can describe (126 and 254 data clusters).              *)
(***************************************************************************)
DataSecs(spc) ==
    {0, 1, 5 * spc + spc - 1, 126 * spc, 126 * spc + spc - 1, 254 * spc + 1}

Volumes ==
    UNION {{Bpb(sig, bps, spc, rsvd, fc, rsvd + fc * fs + d, fs) :
                sig \in BOOLEAN, bps \in {BSIZE, 4096}, rsvd \in {1, 32},
                fc \in {1, 2}, fs \in {1, 2}, d \in DataSecs(spc)} :
           spc \in {1, 2, 8}}

(* A volume as the FAT32 specification has it, which fat32_init does not  *)
(* check: the data area starts before the volume ends and FAT #1 has an   *)
(* entry for every data cluster.                                          *)
Consistent(g) ==
    /\ g.bpb.tot_sec >= g.first_data_sec
    /\ (g.data_clus_cnt + 2) * 4 <= g.bpb.fat_sz * g.bpb.byts_per_sec

(* The facts a run composing FatGeom states: on every volume fat32_init   *)
(* accepts and that is consistent, each data cluster c is read and        *)
(* written by read_fat and write_fat in FAT #1 at exactly the entry       *)
(* alloc_clus scanned it as, and every sector zero_clus and rw_clus touch *)
(* for c lies in the data area and maps back to c; and the spec's mount   *)
(* scenario gives byts_per_clus 4096 and first_data_sec 8224.             *)
AddressingFacts ==
    /\ \A b \in Volumes :
        LET g == Fat32Init(b)
            e == EntPerSecOf(g)
        IN  g.ok /\ Consistent(g) =>
            \A c \in 2 .. g.data_clus_cnt + 1 :
                /\ FatSecOfClus(g, c, 1) = b.rsvd_sec_cnt + c \div e
                /\ FatOffsetOfClus(g, c) = 4 * (c % e)
                /\ FatSecOfClus(g, c, 1) < b.rsvd_sec_cnt + b.fat_sz
                /\ \A o \in {0, g.byts_per_clus - 1} :
                     LET s == RwClusSec(g, c, o)
                     IN  /\ g.first_data_sec <= s /\ s < b.tot_sec
                         /\ (s - g.first_data_sec) \div b.sec_per_clus = c - 2
    /\ LET g == Fat32Init(Bpb(TRUE, 512, 8, 32, 2, 1048576, 4096))
       IN  g.byts_per_clus = 4096 /\ g.first_data_sec = 8224
====
