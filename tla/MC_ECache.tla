------------------------------ MODULE MC_ECache ------------------------------
(* Bounds for checking ECache with TLC: the volume holds /a, a directory,  *)
(* and /a/b, a file; /b and /a/a do not exist, so lookups also miss.       *)
EXTENDS ECache

CONSTANTS t1, t2, r, d, f, g

MCTasks == {t1, t2}
MCTask1 == {t1}
MCFiles == {r, d, f, g}
MCNames == {"a", "b"}
MCIsDir == {r, d}
MCTree == [x \in MCFiles \X Names |->
             IF x = <<r, "a">> THEN d
             ELSE IF x = <<d, "b">> THEN f
             ELSE IF x = <<r, "b">> THEN g
             ELSE NoFile]
(* The unlocked re-read in eput can return a borrowed reference twice,    *)
(* driving ref below 0, or skip returning it, leaking a reference; over    *)
(* repeated races either is without limit.  The concurrent runs explore    *)
(* the states where every ref lies in RefFloor .. RefCeil.                 *)
RefFloor == -1
RefCeil == 4
RefBound == \A e \in Ents : ref[e] \in RefFloor .. RefCeil
=============================================================================
