------------------------------ MODULE SyncDisk ------------------------------
(***************************************************************************)
(* What disk_read / disk_write promise their caller (src/kernel/disk.c):   *)
(* a blocking transfer of one sector between the caller's buffer and the   *)
(* device.  A call is requested, the transfer happens at one instant, and  *)
(* the call then returns.  Several callers may be in flight at once.       *)
(***************************************************************************)
CONSTANTS Tasks, Sectors, Vals

VARIABLES
    disk,      \* contents of each sector on the device
    bufdata,   \* contents of each caller's buffer
    state,     \* "idle", "pending" (called, not transferred), "done"
    wr,        \* TRUE for disk_write, FALSE for disk_read
    sec        \* the sector of the call

avars == <<disk, bufdata, state, wr, sec>>

(* A caller fills its buffer (for a write) and calls disk_read/write.     *)
Request(t, w, s, v) ==
    /\ state[t] = "idle"
    /\ state' = [state EXCEPT ![t] = "pending"]
    /\ wr' = [wr EXCEPT ![t] = w]
    /\ sec' = [sec EXCEPT ![t] = s]
    /\ bufdata' = IF w THEN [bufdata EXCEPT ![t] = v] ELSE bufdata
    /\ UNCHANGED disk

(* The one-sector transfer itself.                                        *)
Transfer(t) ==
    /\ state[t] = "pending"
    /\ state' = [state EXCEPT ![t] = "done"]
    /\ IF wr[t]
         THEN /\ disk' = [disk EXCEPT ![sec[t]] = bufdata[t]]
              /\ UNCHANGED bufdata
         ELSE /\ bufdata' = [bufdata EXCEPT ![t] = disk[sec[t]]]
              /\ UNCHANGED disk
    /\ UNCHANGED <<wr, sec>>

(* The call returns to its caller.                                        *)
Return(t) ==
    /\ state[t] = "done"
    /\ state' = [state EXCEPT ![t] = "idle"]
    /\ UNCHANGED <<disk, bufdata, wr, sec>>

ANext ==
    \E t \in Tasks :
        \/ \E w \in BOOLEAN, s \in Sectors, v \in Vals : Request(t, w, s, v)
        \/ Transfer(t)
        \/ Return(t)

(* The caller's view: idle callers, any disk and buffer contents.         *)
AInit ==
    /\ disk \in [Sectors -> Vals]
    /\ bufdata \in [Tasks -> Vals]
    /\ state = [t \in Tasks |-> "idle"]
    /\ wr \in [Tasks -> BOOLEAN]
    /\ sec \in [Tasks -> Sectors]

SafetySpec == AInit /\ [][ANext]_avars
=============================================================================
