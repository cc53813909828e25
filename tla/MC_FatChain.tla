---------------------------- MODULE MC_FatChain ----------------------------
(* FatChain on a tiny volume: FAT #1 of FatSz sectors of two entries each, *)
(* clusters of two units, two tasks with a file each.                      *)
EXTENDS FatChain, FatGeom

CONSTANTS t1, t2

MCTasks == {t1, t2}

MCTask1 == {t1}

(* FatChain's cluster numbers are alloc_clus's i * ent_per_sec + j; the   *)
(* sectors behind them are FatGeom's.  Every cluster the FAT marks in use *)
(* is, on every bounded consistent volume fat32_init accepts, read and    *)
(* written by read_fat and write_fat at the FAT #1 entry alloc_clus       *)
(* claimed it as, and zero_clus and rw_clus touch only its own data       *)
(* sectors, inside the volume.                                            *)
ClusterAddressing == \A c \in 2 .. DataMax : fat[c] # 0 => AddressingFacts
====
