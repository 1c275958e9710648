------------------------------ MODULE WinCalls ------------------------------
(***************************************************************************)
(* Calls between WinFsp and the Go callbacks, without cgo                  *)
(* (src/fuse/host_nocgo_windows.go): two tables of adapters, go_host...64  *)
(* and go_host...32, which take machine words off the stack and make the   *)
(* arguments of the handlers in dispatch.go of them.  A word has Base      *)
(* values on a 32-bit machine, where an offset takes two words, and        *)
(* Base * Base values on a 64-bit one.                                     *)
(*                                                                         *)
(* External: what WinFsp pushes, after the parameters of the handlers; the *)
(* bits of a word that a narrower argument leaves over are anything.       *)
(***************************************************************************)
EXTENDS Integers, SequencesExt

CONSTANTS
    Sign        \* what the upper bit of a word of a 32-bit machine stands for: 2^31

ASSUME WinCallsAssumption == Sign \in Nat \ {0, 1}

Base    == 2 * Sign                          \* 2^32
Word    == 0..(Base - 1)
Offsets == -((Base * Base) \div 2)..((Base * Base) \div 2 - 1)   \* int64
Ints    == -(Base \div 2)..(Base \div 2 - 1)                 \* C int

\* Conversions of bit patterns to and from signed numbers of m values.
Unsigned(x, m) == x % m
Signed(x, m)   == IF x % m >= m \div 2 THEN (x % m) - m ELSE x % m

\* The kinds of the parameters: pointers and sizes are a word of the machine,
\* int32 is c_int, c_fuse_mode_t and the like, off is c_fuse_off_t.  time is the
\* seconds of a c_fuse_timespec_t, which a pointer leads to.
OnePath == {"Unlink", "Rmdir"}
TwoPtrs == {"Getattr", "Symlink", "Rename", "Link", "Open", "Statfs", "Flush", "Release",
            "Removexattr", "Opendir", "Releasedir", "Fgetattr"}
PathTime == {"Utimens", "Setchgtime", "Setcrtime"}
PathInt == {"Mkdir", "Chmod", "Access", "Chflags"}
Offs    == {"Truncate", "Ftruncate", "Read", "Write", "Readdir"}
Ops     == OnePath \cup TwoPtrs \cup PathTime \cup PathInt \cup Offs \cup
           {"Readlink", "Mknod", "Chown", "Fsync", "Fsyncdir", "Create", "Listxattr",
            "Getxattr", "Setxattr", "Getpath"}

Params(op) ==
    CASE op \in OnePath -> <<"word">>
      [] op \in TwoPtrs -> <<"word", "word">>
      [] op \in PathTime -> <<"word", "time">>
      [] op \in PathInt -> <<"word", "int32">>
      [] op \in {"Mknod", "Chown"} -> <<"word", "int32", "int32">>
      [] op \in {"Fsync", "Fsyncdir", "Create"} -> <<"word", "int32", "word">>
      [] op \in {"Readlink", "Listxattr"} -> <<"word", "word", "word">>
      [] op \in {"Getxattr", "Getpath"} -> <<"word", "word", "word", "word">>
      [] op = "Setxattr" -> <<"word", "word", "word", "word", "int32">>
      [] op = "Truncate" -> <<"word", "off">>
      [] op = "Ftruncate" -> <<"word", "off", "word">>
      [] op \in {"Read", "Write", "Readdir"} -> <<"word", "word", "word", "off", "word">>

VARIABLES
    wide,     \* the machine has 64 bits; it never changes
    phase,    \* "lib", "called", "go", "filled", "back"
    op, args, \* the call WinFsp makes
    stack,    \* the words it pushes
    got,      \* the arguments of the handler
    off,      \* what Readdir fills an entry with, or Getattr a stat structure
    errc,     \* what the handler answers
    seen      \* what WinFsp makes of that, or of the answer

callVars == <<wide, phase, op, args, stack, got, off, errc, seen>>

CallInit ==
    /\ wide \in BOOLEAN /\ phase = "lib" /\ op = "Unlink" /\ args = <<>>
    /\ stack = <<>> /\ got = <<>> /\ off = <<>> /\ errc = 0 /\ seen = <<>>

\* Signed numbers as wide as a word of the machine.
Narrow(x) == Signed(x, IF wide THEN Base * Base ELSE Base)

\* The words of an argument.
Push(kind, x, g) ==
    CASE kind = "word" -> <<x>>
      [] kind = "int32" -> IF wide THEN <<x + g * Base>> ELSE <<x>>
      [] kind = "off" -> IF wide THEN <<Unsigned(x, Base * Base)>>
                         ELSE <<Unsigned(x, Base), Unsigned(x, Base * Base) \div Base>>
      [] kind = "time" -> <<Unsigned(x, IF wide THEN Base * Base ELSE Base)>>

\* A call with a small or a large value for each argument, and any offset or
\* time; g is what a word of 64 bits has left over.
WinCall ==
    /\ phase = "lib" /\ phase' = "called"
    /\ \E o \in Ops, offset \in Offsets, g \in {0, Base - 1} :
       \E high \in SUBSET DOMAIN Params(o) :
        LET ks == Params(o) IN
        /\ op' = o
        /\ args' = [i \in DOMAIN ks |->
                       IF ks[i] = "off" THEN offset
                       ELSE IF ks[i] = "time" THEN Narrow(offset)
                       ELSE IF i \in high THEN Base - 1 ELSE (i - 1) % Base]
        /\ stack' = FlattenSeq([i \in DOMAIN ks |-> Push(ks[i], args'[i], g)])
    /\ UNCHANGED <<wide, got, off, errc, seen>>

-----------------------------------------------------------------------------
\* Mutant: the high word is the first.
Mut_HighWordFirst(lo, hi) == Signed(lo * Base + hi, Base * Base)

\* (c_fuse_off_t(h) << 32) | c_fuse_off_t(l), of two unsigned words.
Join(lo, hi) == Signed(hi * Base + lo, Base * Base)

\* The 32-bit adapters that take an offset as two words, and where.
PairAt(o) == IF o \in {"Truncate", "Ftruncate"} THEN 2
             ELSE IF o \in {"Read", "Write", "Readdir"} THEN 4 ELSE 0

\* A word becomes the parameter of the handler: c_fuse_mode_t(w), c_int(w) and
\* c_fuse_off_t(w) cut off what is left over; copyFusetimespecFromCtimespec
\* makes an int64 of a uintptr, which on a 32-bit machine has no sign.
Converted(kind, w) ==
    CASE kind = "word" -> w
      [] kind = "int32" -> Unsigned(w, Base)
      [] kind = "off" -> Signed(w, Base * Base)
      [] kind = "time" -> IF wide THEN Signed(w, Base * Base) ELSE w

Adapter64(o, ws) == [i \in DOMAIN Params(o) |-> Converted(Params(o)[i], ws[i])]

Adapter32(o, ws) ==
    LET p == PairAt(o) IN
    [i \in DOMAIN Params(o) |->
        IF i = p THEN Join(ws[i], ws[i + 1])
        ELSE Converted(Params(o)[i], ws[IF p # 0 /\ i > p THEN i + 1 ELSE i])]

Adapt ==
    /\ phase = "called" /\ phase' = "go"
    /\ got' = IF wide THEN Adapter64(op, stack) ELSE Adapter32(op, stack)
    /\ UNCHANGED <<wide, op, args, stack, off, errc, seen>>

\* c_hostFilldir: the offset as one word or two.
FillWords(o) == IF wide THEN <<Unsigned(o, Base * Base)>>
                ELSE <<Unsigned(o, Base), Unsigned(o \div Base, Base)>>

\* The fill function of Readdir, which WinFsp takes the offset from.
Filldir(o) ==
    /\ phase = "go" /\ op = "Readdir" /\ phase' = "filled"
    /\ off' = <<o>>
    /\ seen' = LET ws == FillWords(o) IN
               <<Signed(IF wide THEN ws[1] ELSE ws[2] * Base + ws[1], Base * Base)>>
    /\ UNCHANGED <<wide, op, args, stack, got, errc>>

\* A stat structure: its size, its ctim and its birthtim, which is the ctim where
\* the file system has none.  The seconds of a time are a word of the machine.
Stat(size, ctim, birthtim) ==
    /\ phase = "go" /\ op \in {"Getattr", "Fgetattr"} /\ phase' = "filled"
    /\ off' = <<size, ctim, birthtim>>
    /\ seen' = <<size, Narrow(ctim), Narrow(IF birthtim # 0 THEN birthtim ELSE ctim)>>
    /\ UNCHANGED <<wide, op, args, stack, got, errc>>

\* uintptr(int(errc)): a C int is widened with its sign, and WinFsp reads the
\* lower half.
Answer(e) ==
    /\ phase \in {"go", "filled"} /\ phase' = "back"
    /\ errc' = e
    /\ seen' = <<Signed(Unsigned(e, IF wide THEN Base * Base ELSE Base), Base)>>
    /\ UNCHANGED <<wide, op, args, stack, got, off>>

Done ==
    /\ phase = "back"
    /\ phase' = "lib" /\ op' = "Unlink" /\ args' = <<>> /\ stack' = <<>> /\ got' = <<>>
    /\ off' = <<>> /\ errc' = 0 /\ seen' = <<>>
    /\ UNCHANGED wide

CallNext ==
    \/ WinCall
    \/ Adapt
    \/ \E o \in Offsets : Filldir(o) \/ \E b \in {0, 1} : Stat(o, Narrow(o), b)
    \/ \E e \in Ints : Answer(e)
    \/ Done

CallSpec == CallInit /\ [][CallNext]_callVars

-----------------------------------------------------------------------------
(* Properties *)

\* A time before 1970 on a 32-bit machine.
LosesItsSign(i) == ~wide /\ Params(op)[i] = "time" /\ args[i] < 0

\* Both tables hand every handler the arguments that WinFsp called with, on a
\* machine of either word size: no offset loses its upper half or its sign, and
\* no argument behind it is taken from the wrong word, but for the sign of a time
\* on a 32-bit machine; and WinFsp sees the offset of an entry, the size and the
\* times of a file and the (negative) answer as Go meant them
\* (dispatch.go:53-56, host_nocgo_windows.go:383-498, 735-1064).
CallsCrossUnchanged ==
    /\ phase \in {"go", "filled", "back"} =>
          /\ DOMAIN got = DOMAIN args
          /\ \A i \in DOMAIN args : got[i] = args[i] \/ LosesItsSign(i)
    /\ phase = "filled" /\ op = "Readdir" => seen = off
    /\ phase = "filled" /\ op # "Readdir" =>
          seen = <<off[1], off[2], IF off[3] = 0 THEN off[2] ELSE off[3]>>
    /\ phase = "back" => seen = <<errc>>
=============================================================================
