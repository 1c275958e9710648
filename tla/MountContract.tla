--------------------------- MODULE MountContract ---------------------------
(***************************************************************************)
(* What Mount of src/fuse/host.go promises its caller and the file system: *)
(* Init is called at most once, Destroy is called exactly when Init was,   *)
(* and only after the mount is gone; Mount returns after that; a signal    *)
(* cannot end the process between Init and Destroy, unless an earlier      *)
(* Destroy panicked; and a detached file system makes Mount return.        *)
(***************************************************************************)
EXTENDS Naturals

CONSTANT MaxMounts      \* bound: calls of Mount

VARIABLES
    phase,      \* idle, mounting (before Init), up (Init to Destroy), down
    mounts,     \* calls of Mount so far
    attached,   \* the kernel has the mount of this session
    tainted,    \* some Destroy panicked
    alive       \* the process runs

cvars == <<phase, mounts, attached, tainted, alive>>

ContractInit ==
    /\ phase = "idle" /\ mounts = 0
    /\ attached = FALSE /\ tainted = FALSE /\ alive = TRUE

Call ==
    /\ alive /\ phase = "idle" /\ mounts < MaxMounts
    /\ phase' = "mounting" /\ mounts' = mounts + 1
    /\ UNCHANGED <<attached, tainted, alive>>

Attached ==
    /\ alive /\ phase = "mounting" /\ ~attached
    /\ attached' = TRUE
    /\ UNCHANGED <<phase, mounts, tainted, alive>>

Detached ==
    /\ alive /\ attached
    /\ attached' = FALSE
    /\ UNCHANGED <<phase, mounts, tainted, alive>>

\* Mounting fails, or the mount is gone before the file system was started.
Failed ==
    /\ alive /\ phase = "mounting" /\ ~attached
    /\ phase' = "down"
    /\ UNCHANGED <<mounts, attached, tainted, alive>>

InitCalled ==
    /\ alive /\ phase = "mounting"
    /\ phase' = "up"
    /\ UNCHANGED <<mounts, attached, tainted, alive>>

\* The user's Destroy may panic.
DestroyCalled ==
    /\ alive /\ phase = "up" /\ ~attached
    /\ phase' = "down"
    /\ tainted' \in {tainted, TRUE}
    /\ UNCHANGED <<mounts, attached, alive>>

Return ==
    /\ alive /\ phase = "down"
    /\ phase' = "idle"
    /\ UNCHANGED <<mounts, attached, tainted, alive>>

Terminated ==
    /\ alive /\ (phase # "up" \/ tainted)
    /\ alive' = FALSE
    /\ UNCHANGED <<phase, mounts, attached, tainted>>

ContractNext == Call \/ Attached \/ Detached \/ Failed \/ InitCalled
                \/ DestroyCalled \/ Return \/ Terminated

\* A call of Mount is answered once nothing is mounted any more.
ContractSpec ==
    /\ ContractInit /\ [][ContractNext]_cvars
    /\ WF_cvars(DestroyCalled) /\ WF_cvars(Return)
=============================================================================
