----------------------------- MODULE ConnConfig -----------------------------
(***************************************************************************)
(* What a host asks of the kernel: the setters of src/fuse/config.go, and  *)
(* hostAsgnCconninfo and hostAsgnCconfig of src/fuse/cgofuse_cgo.h, which  *)
(* hostInit calls during INIT.  A capability is a bit of conn->want; an    *)
(* option is a non-zero field of struct fuse_config.                       *)
(*                                                                         *)
(* External: libfuse 3 fills struct fuse_config from the -o mount options  *)
(* and its defaults before INIT, presets in conn->want any of what the     *)
(* kernel offers, and refuses a want that the kernel is not capable of.    *)
(* WinFsp has no fuse_config and presets nothing.                          *)
(***************************************************************************)
EXTENDS Integers, FiniteSets

CONSTANTS
    MaxKnob,      \* bound: values given to SetMaxReadahead and its like
    Width         \* C unsigned is modulo 2^Width

\* Capabilities that FUSE3 and WinFsp have; WinFsp's setters may also be called
\* on a FUSE3 host, where they do nothing, and the other way round.
Fuse3Caps  == {"readdirPlus", "openTrunc", "autoInvalData", "writebackCache",
               "explicitInvalData", "cacheSymlinks", "flockLocks"}
WinFspCaps == {"statEx", "caseInsensitive", "readdirPlus", "deleteAccess"}

\* The capabilities with a setter; flockLocks stands for "the file system
\* implements FileSystemFlock" (resolveOps), statEx is always asked for.
Settable == (Fuse3Caps \cup WinFspCaps) \ {"flockLocks", "statEx"}

\* Fields of struct fuse_config: those that a mount option sets, and those that
\* have a setter (libfuse 3 has no mount option for them).
MountOptions == {"attr_timeout", "umask", "uid"}
HostOptions  == {"use_ino", "direct_io"}

\* The number 0 of a knob leaves the default of libfuse, Default.
Default == -1
Knobs   == 0..MaxKnob

ASSUME ConfigAssumption ==
    MaxKnob \in Nat /\ Width \in Nat \ {0}

VARIABLES
    fuse3,     \* FUSE_USE_VERSION >= 30 on Linux, FreeBSD or macOS; otherwise
               \* the cgo build for WinFsp.  It never changes.
    phase,     \* setup (before Mount), mounted (INIT is coming), running, refused
    on,        \* host.cap*, and flockLocks if host.ops.flock is set
    hostConf,  \* host.directIO and host.useIno
    knob,      \* host.maxReadahead (as all three tuning values)
    capable,   \* conn->capable
    want,      \* conn->want
    given,     \* the options on the mount command line
    conf,      \* the options set in struct fuse_config
    tuning     \* conn->max_readahead

Caps == IF fuse3 THEN Fuse3Caps ELSE WinFspCaps

\* What libfuse may want by itself when the kernel offers cs.
Presets(cs) == IF fuse3 THEN SUBSET cs ELSE {{}}

vars == <<fuse3, phase, on, hostConf, knob, capable, want, given, conf, tuning>>

\* NewFileSystemHost, of a file system with or without FileSystemFlock.
Init ==
    /\ fuse3 \in BOOLEAN /\ phase = "setup"
    /\ on \in {{"autoInvalData"}, {"autoInvalData", "flockLocks"}}
    /\ hostConf = {} /\ knob = 0
    /\ capable = {} /\ want = {} /\ given = {} /\ conf = {}
    /\ tuning = Default

\* SetCapX(value), SetDirectIO and SetUseIno(value), SetMaxReadahead(value).
SetCap(c, value) ==
    /\ phase = "setup"
    /\ on' = IF value THEN on \cup {c} ELSE on \ {c}
    /\ UNCHANGED <<phase, hostConf, knob, capable, want, given, conf, tuning>>

SetConf(f, value) ==
    /\ phase = "setup"
    /\ hostConf' = IF value THEN hostConf \cup {f} ELSE hostConf \ {f}
    /\ UNCHANGED <<phase, on, knob, capable, want, given, conf, tuning>>

SetKnob(v) ==
    /\ phase = "setup"
    /\ knob' = v
    /\ UNCHANGED <<phase, on, hostConf, capable, want, given, conf, tuning>>

\* Mount with any options, which libfuse 3 keeps with its default for
\* attr_timeout; the kernel offers what it likes in INIT, and libfuse wants any
\* of it by itself.
Mount ==
    /\ phase = "setup"
    /\ phase' = "mounted"
    /\ given' \in SUBSET MountOptions
    /\ conf' = IF fuse3 THEN given' \cup {"attr_timeout"} ELSE {}
    /\ capable' \in SUBSET Caps
    /\ want' \in Presets(capable')
    /\ tuning' = Default
    /\ UNCHANGED <<on, hostConf, knob>>

-----------------------------------------------------------------------------
Negotiable == IF fuse3 THEN on ELSE on \cup {"statEx"}

\* Mutants: one capability, that of written-back data, is never cleared; a knob
\* is tested before it is converted to unsigned.
Mut_OneNotCleared ==
    /\ want' = IF fuse3
               THEN (want \ (Caps \ (Negotiable \cup {"writebackCache"})))
                        \cup (Caps \cap Negotiable \cap capable)
               ELSE want \cup (Caps \cap Negotiable \cap capable)
    /\ UNCHANGED tuning
Mut_TestedBeforeConversion ==
    /\ want' = (want \ (Caps \ Negotiable)) \cup (Caps \cap Negotiable \cap capable)
    /\ tuning' = IF knob # 0 THEN knob % (2 ^ Width) ELSE tuning

\* FUSE3 sets or clears each of its bits; WinFsp only ever sets.
AsgnCconninfo ==
    /\ want' = IF fuse3
               THEN (want \ (Caps \ Negotiable)) \cup (Caps \cap Negotiable \cap capable)
               ELSE want \cup (Caps \cap Negotiable \cap capable)
    /\ tuning' = IF fuse3 /\ knob % (2 ^ Width) # 0 THEN knob % (2 ^ Width) ELSE tuning

\* FUSE3 zeroes the whole structure, and sets two fields of it.
AsgnCconfig == conf' = IF fuse3 THEN hostConf ELSE conf

\* hostInit (host.go:75-78), and libfuse's check of what comes back.
HostInit ==
    /\ phase = "mounted"
    /\ AsgnCconninfo
    /\ AsgnCconfig
    /\ phase' = IF want' \subseteq capable THEN "running" ELSE "refused"
    /\ UNCHANGED <<on, hostConf, knob, capable, given>>

\* The file system is unmounted; the host may be mounted again.
Unmounted ==
    /\ phase \in {"running", "refused"}
    /\ phase' = "setup"
    /\ capable' = {} /\ want' = {} /\ given' = {} /\ conf' = {} /\ tuning' = Default
    /\ UNCHANGED <<on, hostConf, knob>>

Next ==
    /\ \/ \E c \in Settable, value \in BOOLEAN : SetCap(c, value)
       \/ \E f \in HostOptions, value \in BOOLEAN : SetConf(f, value)
       \/ \E v \in Knobs : SetKnob(v)
       \/ Mount
       \/ HostInit
       \/ Unmounted
    /\ UNCHANGED fuse3

Spec == Init /\ [][Next]_vars

-----------------------------------------------------------------------------
(* Properties *)

TypeOK ==
    /\ phase \in {"setup", "mounted", "running", "refused"}
    /\ on \subseteq Fuse3Caps \cup WinFspCaps
    /\ hostConf \subseteq HostOptions /\ knob \in Knobs
    /\ capable \subseteq Caps /\ want \subseteq Caps
    /\ given \subseteq MountOptions /\ conf \subseteq MountOptions \cup HostOptions
    /\ tuning \in Knobs \cup {Default}

\* The capabilities of a connection are those the host asked for and the kernel
\* offers, no more, whatever libfuse preset, so that the kernel never sends what
\* the file system does not expect (O_TRUNC in Open, flock requests, written-back
\* data); and no combination of setters and kernels makes libfuse refuse the
\* connection (cgofuse_cgo.h:468-530).
GrantedIsAskedAndOffered ==
    /\ phase # "refused"
    /\ phase = "running" =>
          /\ Caps \cap on \cap capable \subseteq want
          /\ want \subseteq on \cup {"statEx"}

\* A tuning value of 0, also one that becomes 0 as a C unsigned, leaves the
\* default in place: the kernel is never given a window of 0 (config.go:76-98,
\* cgofuse_cgo.h:532-538).
TuningIsNeverZero == tuning # 0

\* Mount mounts "with the mount options in opts" (host.go:103): an option that
\* libfuse accepted is in force while the file system runs.  False with FUSE3:
\* hostAsgnCconfig zeroes what libfuse parsed.
MountOptionsTakeEffect == phase = "running" /\ fuse3 => given \subseteq conf
=============================================================================
