-------------------------- MODULE ConnConfig_proofs --------------------------
(***************************************************************************)
(* The negotiation of a connection, for any kernel, any presets and any    *)
(* width of a C unsigned.  The two properties are inductive with what      *)
(* libfuse may have preset when INIT comes.                                *)
(***************************************************************************)
EXTENDS ConnConfig, TLAPS

\* Until INIT, what is wanted is what libfuse wants by itself: on FUSE3 any of
\* what the kernel offers, on WinFsp, whose host clears nothing, nothing.
PresetInv ==
    phase = "mounted" =>
        /\ want \subseteq capable /\ capable \subseteq Caps
        /\ fuse3 \/ want = {}

IInv ==
    /\ PresetInv
    /\ GrantedIsAskedAndOffered
    /\ TuningIsNeverZero

-----------------------------------------------------------------------------
\* A new host.
LEMMA InitIInv == Init => IInv
BY DEF Init, IInv, PresetInv, GrantedIsAskedAndOffered, TuningIsNeverZero, Default

\* The setters run before Mount, when no connection is up.
LEMMA SettersKeepIInv ==
    ASSUME IInv, UNCHANGED fuse3,
           \/ \E c \in Settable, value \in BOOLEAN : SetCap(c, value)
           \/ \E f \in HostOptions, value \in BOOLEAN : SetConf(f, value)
           \/ \E v \in Knobs : SetKnob(v)
    PROVE  IInv'
<1>1. phase = "setup" /\ phase' = phase /\ tuning' = tuning
  BY DEF SetCap, SetConf, SetKnob
<1> QED
  BY <1>1 DEF IInv, PresetInv, GrantedIsAskedAndOffered, TuningIsNeverZero

\* Libfuse presets any of what the kernel offers.
LEMMA MountKeepsIInv ==
    ASSUME IInv, UNCHANGED fuse3, Mount
    PROVE  IInv'
<1>1. /\ phase' = "mounted" /\ tuning' = Default
      /\ capable' \subseteq Caps /\ Caps' = Caps /\ want' \in Presets(capable')
  BY DEF Mount, Caps
<1>2. want' \subseteq capable' /\ (fuse3 \/ want' = {})
  BY <1>1 DEF Presets
<1> QED
  BY <1>1, <1>2 DEF IInv, PresetInv, GrantedIsAskedAndOffered, TuningIsNeverZero, Default

\* The two platforms differ in what they clear, and agree on what is left.
LEMMA AsgnCconninfoGrants ==
    ASSUME AsgnCconninfo, PresetInv, phase = "mounted"
    PROVE  /\ want' \subseteq capable
           /\ want' \subseteq on \cup {"statEx"}
           /\ Caps \cap on \cap capable \subseteq want'
<1>1. CASE fuse3
  <2>1. want' = (want \ (Caps \ on)) \cup (Caps \cap on \cap capable)
    BY <1>1 DEF AsgnCconninfo, Negotiable
  <2> QED
    BY <2>1 DEF PresetInv
<1>2. CASE ~fuse3
  <2>1. want' = want \cup (Caps \cap (on \cup {"statEx"}) \cap capable)
    BY <1>2 DEF AsgnCconninfo, Negotiable
  <2>2. want = {}
    BY <1>2 DEF PresetInv
  <2> QED
    BY <2>1, <2>2
<1> QED
  BY <1>1, <1>2

\* The value is tested after its conversion.
LEMMA AsgnCconninfoTunes ==
    ASSUME AsgnCconninfo, TuningIsNeverZero
    PROVE  tuning' # 0
<1>1. CASE fuse3 /\ knob % (2 ^ Width) # 0
  <2>1. tuning' = knob % (2 ^ Width)
    BY <1>1 DEF AsgnCconninfo
  <2> QED
    BY <1>1, <2>1
<1>2. CASE ~(fuse3 /\ knob % (2 ^ Width) # 0)
  <2>1. tuning' = tuning
    BY <1>2 DEF AsgnCconninfo
  <2> QED
    BY <2>1 DEF TuningIsNeverZero
<1> QED
  BY <1>1, <1>2

LEMMA HostInitKeepsIInv ==
    ASSUME IInv, UNCHANGED fuse3, HostInit
    PROVE  IInv'
<1>1. phase = "mounted" /\ AsgnCconninfo /\ PresetInv /\ TuningIsNeverZero
  BY DEF HostInit, IInv
<1>2. /\ want' \subseteq capable
      /\ want' \subseteq on \cup {"statEx"}
      /\ Caps \cap on \cap capable \subseteq want'
  BY <1>1, AsgnCconninfoGrants
<1>3. tuning' # 0
  BY <1>1, AsgnCconninfoTunes
<1>4. phase' = "running" /\ on' = on /\ capable' = capable /\ Caps' = Caps
  BY <1>2 DEF HostInit, Caps
<1> QED
  BY <1>2, <1>3, <1>4 DEF IInv, PresetInv, GrantedIsAskedAndOffered, TuningIsNeverZero

LEMMA UnmountedKeepsIInv ==
    ASSUME IInv, Unmounted
    PROVE  IInv'
BY DEF Unmounted, IInv, PresetInv, GrantedIsAskedAndOffered, TuningIsNeverZero, Default

LEMMA Inductive == Spec => []IInv
<1>1. IInv /\ [Next]_vars => IInv'
  <2> SUFFICES ASSUME IInv, [Next]_vars PROVE IInv'
    OBVIOUS
  <2>1. CASE UNCHANGED vars
    BY <2>1 DEF vars, IInv, PresetInv, GrantedIsAskedAndOffered, TuningIsNeverZero, Caps
  <2>2. CASE Next
    <3> UNCHANGED fuse3
      BY <2>2 DEF Next
    <3>1. CASE \/ \E c \in Settable, value \in BOOLEAN : SetCap(c, value)
               \/ \E f \in HostOptions, value \in BOOLEAN : SetConf(f, value)
               \/ \E v \in Knobs : SetKnob(v)
      BY <3>1, SettersKeepIInv
    <3>2. CASE Mount
      BY <3>2, MountKeepsIInv
    <3>3. CASE HostInit
      BY <3>3, HostInitKeepsIInv
    <3>4. CASE Unmounted
      BY <3>4, UnmountedKeepsIInv
    <3> QED
      BY <2>2, <3>1, <3>2, <3>3, <3>4 DEF Next
  <2> QED
    BY <2>1, <2>2
<1> QED
  BY InitIInv, <1>1, PTL DEF Spec

\* Whatever the setters, the capabilities of the kernel and those of them that
\* libfuse has preset, all or any, the connection is not refused and its
\* capabilities are those asked for and offered (cgofuse_cgo.h:468-530).
THEOREM NegotiationIsExact == Spec => []GrantedIsAskedAndOffered
BY Inductive, PTL DEF IInv

\* No tuning value becomes zero in the conversion, whatever the width of a C
\* unsigned (cgofuse_cgo.h:532-538).
THEOREM TuningSafety == Spec => []TuningIsNeverZero
BY Inductive, PTL DEF IInv
=============================================================================
