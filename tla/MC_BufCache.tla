---------------------------- MODULE MC_BufCache ----------------------------
(* Bounds for checking BufCache with TLC.                                  *)
EXTENDS BufCache

CONSTANTS t1, t2, t3

MCTasks3 == {t1, t2, t3}
MCTasks2 == {t1, t2}
MCSectors == {0, 1, 2}
MCVals == {0, 1}

(* The two kinds of sector a FAT32 volume holds.  A zeroed sector (free   *)
(* FAT sectors, the clusters zero_clus clears) reads as sectorno 0 of     *)
(* device 0, refcnt 0 and an unlocked lock.  A FAT sector starting        *)
(* F8 FF FF 0F FF FF FF 0F reads as a sectorno past the volume, a refcnt  *)
(* far above any count of tasks and a locked lock whose pid is no task's. *)
ZeroSector == [hdr |-> [sec |-> 0, ref |-> 0, locked |-> FALSE], body |-> 0]
FatSector == [hdr |-> [sec |-> NoSector, ref |-> 268435448, locked |-> TRUE],
              body |-> 1]
MCContents == {ZeroSector, FatSector}

(* With XferAtData the header image of a sector is never read, so states *)
(* that differ only in it are the same state.                             *)
ContractView ==
    <<ident, valid, refcnt, holder, linked, data,
      [s \in Sectors |-> disk[s].body], lru, pc, tbuf, tsec, panicked, wild,
      relorder>>
=============================================================================
