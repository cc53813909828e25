---------------------------- MODULE MC_VirtioDisk ---------------------------
(* Bounds for checking VirtioDisk with TLC.                                *)
EXTENDS VirtioDisk

CONSTANTS t1, t2, t3

MCTasks2 == {t1, t2}
MCTasks3 == {t1, t2, t3}
MCSectors1 == {0}
MCSectors2 == {0, 1}
MCVals == {0, 1}

(***************************************************************************)
(* The code never clears what a finished request leaves behind: info and   *)
(* ops of a freed head, ring slots outside the live windows, the idx[] of  *)
(* a task that returned.  Every one of them is written again before any    *)
(* step reads it (Publish writes info, ops, tidx and the avail slot it      *)
(* uses; the device writes the used slot it uses), so states that differ   *)
(* only there have the same futures.  The view below identifies them.      *)
(***************************************************************************)
Window(from, to) == {((from + j) % IdxMod) % NUM :
                        j \in 0 .. ((to + IdxMod - from) % IdxMod) - 1}

LiveHeads == {tidx[t][1] : t \in {u \in Tasks : Published(u)}}

LiveView ==
    <<free, desc,
      [i \in Descs |-> IF i \in Window(devAvail, availIdx) THEN availRing[i] ELSE 0],
      availIdx,
      [i \in Descs |-> IF i \in Window(usedIdx, usedIdxDev) THEN usedRing[i] ELSE 0],
      usedIdxDev, usedIdx,
      [i \in Descs |-> IF i \in LiveHeads THEN info[i] ELSE info[i].buf],
      [i \in Descs |-> IF i \in LiveHeads THEN ops[i] ELSE 0],
      lock, devAvail, devBusy, intrPending, disk, bufdata, pc,
      [t \in Tasks |-> IF Published(t) THEN tidx[t] ELSE 0],
      tw, tsec>>
=============================================================================
