------------------------------ MODULE OptParse ------------------------------
(***************************************************************************)
(* OptParse (src/fuse/opt.go): an option format and pointers to Go values  *)
(* become templates for fuse_opt_parse, which writes what it matches into  *)
(* a block of bytes with a slot for each option; the slots are read back   *)
(* as the types of the values.                                             *)
(*                                                                         *)
(* External: fuse_opt_parse, sscanf and the memory of a C program.  Left   *)
(* out: a -o that ends the arguments, which fuse_opt_parse refuses.        *)
(***************************************************************************)
EXTENDS Integers, Sequences, FiniteSetsExt

CONSTANTS
    Inputs,     \* calls: [fmt, nvals, args], see below
    Scan,       \* sscanf: the number that a text and a verb make, or Fail
    Fail,
    Old,        \* the value of a variable that OptParse has not assigned
    SizeT,      \* bytes of a size_t, and of a pointer: 8 or 4
    Byte        \* values of a byte: 256

\* fmt is a sequence of [name, syntax, type], where syntax is what follows the
\* name: nothing, "=", or the verb of "=%"; a call without a format has none.
\* An argument is [k |-> "opt", name, text] with one or two dashes in its name,
\* [k |-> "o", name, text] for an option of -o (a list -o a,b is two in a row), in
\* both the text NoText when there is no "=", or [k |-> "--"], or [k |-> "arg"]
\* for anything without a dash.
NoText == "(no text)"
Ints8  == {"int8", "uint8"}
Ints16 == {"int16", "uint16"}
Ints32 == {"int", "int32", "uint", "uint32"}
Ints64 == {"int64", "uint64", "uintptr"}
IntTypes == Ints8 \cup Ints16 \cup Ints32 \cup Ints64

Verbs  == {"d", "i", "o", "x", "X"}
Dashes == [k |-> "--"]

\* The values that n bytes have.
Weight[n \in 0..8] == IF n = 0 THEN 1 ELSE Byte * Weight[n - 1]

IsSeq(s) == s \in Seq({s[i] : i \in DOMAIN s})

IsArg(arg) ==
    \/ arg = Dashes
    \/ arg.k = "arg"
    \/ arg.k \in {"opt", "o"} /\ (arg.text = NoText \/ \A v \in Verbs : Scan[arg.text][v] \in Int \cup {Fail})

\* A pointer can tell the arguments of a call apart, and none is the null pointer.
ASSUME OptParseAssumption ==
    /\ SizeT \in {4, 8} /\ Byte \in Nat \ {0, 1} /\ Fail \notin Int
    /\ \A in \in Inputs :
          /\ IsSeq(in.fmt) /\ in.nvals \in Nat
          /\ IsSeq(in.args) /\ Len(in.args) < Weight[SizeT]
          /\ \A n \in DOMAIN in.args : IsArg(in.args[n])

VARIABLES
    input,      \* the call
    stage,      \* "idle", "norm", "parse", "store", "done"
    templs,     \* the templates
    next,       \* the next argument of fuse_opt_parse
    mem,        \* data, the block with the slots
    nonopt,     \* only non-options follow: "--" has been met
    gathered,   \* the options of -o that it gathers for the front of outargs
    outargs, err,
    vals        \* what the caller's pointers point to

optVars == <<input, stage, templs, next, mem, nonopt, gathered, outargs, err, vals>>

fmt     == input.fmt
nonopts == fmt = <<>>           \* the empty format
Opts    == DOMAIN fmt

OptInit ==
    /\ input = [fmt |-> <<>>, nvals |-> 0, args |-> <<>>]
    /\ stage = "idle" /\ templs = <<>> /\ next = 1 /\ mem = <<>> /\ nonopt = FALSE
    /\ gathered = <<>> /\ outargs = <<>> /\ err = FALSE /\ vals = <<>>

\* A call of OptParse.
Asked ==
    /\ stage = "idle" /\ stage' = "norm"
    /\ input' \in Inputs
    /\ vals' = [i \in 1..input'.nvals |-> Old]
    /\ UNCHANGED <<templs, next, mem, nonopt, gathered, outargs, err>>

Refuse ==
    /\ stage' = "done" /\ err' = TRUE /\ outargs' = <<>>
    /\ UNCHANGED <<input, templs, next, mem, nonopt, gathered, vals>>

-----------------------------------------------------------------------------
(* The templates *)

\* A template: only the name, the name and "=" (match, set 1), or a conversion.
Bare         == <<"bare">>
Set          == <<"set">>
Scanf(m, v)  == <<"scanf", m, v>>
Str          == <<"str">>
Unknown      == <<"unknown">>         \* the norm function panics with a string

optNormBool(syntax) ==
    CASE syntax = "" -> Bare
      [] syntax \in {"=", "v"} -> Set
      [] syntax \in {"d", "o", "x", "X"} -> Scanf("", syntax)
      [] OTHER -> Unknown

optNormInt(syntax, modf) ==
    CASE syntax \in {"", "=", "v"} -> Scanf(modf, "i")
      [] syntax \in {"d", "o", "x", "X"} -> Scanf(modf, syntax)
      [] OTHER -> Unknown

optNormStr(syntax) == IF syntax \in {"", "=", "s", "v"} THEN Str ELSE Unknown

\* Mutant: every integer is scanned as an int is.
Mut_OneModifier(type) == ""

\* The length modifier for sscanf.
Modifier(type) == CASE type \in Ints8 -> "hh" [] type \in Ints16 -> "h"
                    [] type \in Ints32 -> "" [] type \in Ints64 -> "ll"

Templ(o) ==
    CASE o.type = "bool" -> optNormBool(o.syntax)
      [] o.type \in IntTypes -> optNormInt(o.syntax, Modifier(o.type))
      [] o.type = "string" -> optNormStr(o.syntax)
      [] OTHER -> Unknown             \* "unsupported value type"

align == 2 * SizeT

\* Too few values, a format or a type it does not know: an error.
Normalise ==
    /\ stage = "norm"
    /\ IF input.nvals < Len(fmt) \/ \E i \in Opts : Templ(fmt[i]) = Unknown
       THEN Refuse
       ELSE /\ stage' = "parse"
            /\ templs' = [i \in Opts |-> Templ(fmt[i])]
            /\ mem' = [a \in 0..(Len(fmt) * align - 1) |-> 0]
            /\ UNCHANGED <<input, next, nonopt, gathered, outargs, err, vals>>

-----------------------------------------------------------------------------
(* fuse_opt_parse *)

Matches(i, arg) ==
    /\ arg.name = fmt[i].name
    /\ (arg.text = NoText) = (templs[i] = Bare)

\* sscanf writes as many bytes as the modifier says, the lowest first.
Width(modf) == CASE modf = "hh" -> 1 [] modf = "h" -> 2 [] modf = "" -> 4 [] modf = "ll" -> 8

ByteOf(x, n) == (x \div Weight[n]) % Byte

WriteAt(m, at, width, x) ==
    [a \in DOMAIN m |-> IF a \in at..(at + width - 1) THEN ByteOf(x, a - at) ELSE m[a]]

\* A string is stored as a pointer, here the number of the argument.
Apply(m, i, n) ==
    LET at == (i - 1) * align
        t  == templs[i]
    IN CASE t \in {Bare, Set} -> WriteAt(m, at, 4, 1)
         [] t = Str -> WriteAt(m, at, SizeT, n)
         [] t[1] = "scanf" -> WriteAt(m, at, Width(t[2]), Scan[input.args[n].text][t[3]])

Matching(arg) == {i \in Opts : Matches(i, arg)}

BadParam(arg) ==
    \E i \in Matching(arg) : templs[i][1] = "scanf" /\ Scan[arg.text][templs[i][3]] = Fail

\* All the templates that match are applied.
Written(found, n) ==
    LET memOf[i \in 0..Len(fmt)] ==
            IF i = 0 THEN mem ELSE IF i \in found THEN Apply(memOf[i - 1], i, n) ELSE memOf[i - 1]
    IN memOf[Len(fmt)]

\* An option that none matches is kept, those of -o apart from the others, unless
\* only non-options are asked for.  After "--" there are no options.
ParseArg ==
    LET arg == input.args[next]
        isopt == arg.k \in {"opt", "o"} /\ ~nonopt
        found == IF isopt THEN Matching(arg) ELSE {}
        keep  == IF isopt THEN found = {} /\ ~nonopts ELSE TRUE
    IN
    /\ stage = "parse" /\ next <= Len(input.args)
    /\ IF isopt /\ BadParam(arg) THEN Refuse
       ELSE /\ next' = next + 1
            /\ mem' = Written(found, next)
            /\ gathered' = IF keep /\ isopt /\ arg.k = "o" THEN Append(gathered, arg) ELSE gathered
            /\ outargs' = IF keep /\ ~(isopt /\ arg.k = "o") THEN Append(outargs, arg) ELSE outargs
            /\ nonopt' = (nonopt \/ arg.k = "--")
            /\ UNCHANGED <<input, stage, templs, err, vals>>

\* The separator, when nothing follows it.
Trailing ==
    /\ outargs # <<>> /\ outargs[Len(outargs)] = Dashes
    /\ \A n \in 1..(Len(outargs) - 1) : outargs[n] # Dashes

\* A separator that nothing follows is dropped, and what was gathered goes to the
\* front as one -o and its list.  With such a list, a library may keep the
\* separator (libfuse looks for it at the index that it had without the list).
EndParse ==
    /\ stage = "parse" /\ next > Len(input.args) /\ stage' = "store"
    /\ \E drop \in BOOLEAN :
          /\ drop => Trailing
          /\ Trailing /\ gathered = <<>> => drop
          /\ outargs' = gathered \o IF drop THEN SubSeq(outargs, 1, Len(outargs) - 1) ELSE outargs
    /\ UNCHANGED <<input, templs, next, mem, nonopt, gathered, err, vals>>

-----------------------------------------------------------------------------
(* The values *)

RawAt(at, width) ==
    LET sum[n \in 0..width] == IF n = 0 THEN 0 ELSE sum[n - 1] + mem[at + n - 1] * Weight[n - 1]
    IN sum[width]

TwosComplement(x, width) == IF x >= Weight[width] \div 2 THEN x - Weight[width] ELSE x

Bytes(type) == CASE type \in Ints8 -> 1 [] type \in Ints16 -> 2 [] type \in Ints32 -> 4
                 [] type \in {"int64", "uint64"} -> 8 [] type = "uintptr" -> SizeT

Unsigneds == {"uint8", "uint16", "uint", "uint32", "uint64", "uintptr"}

\* *v = int8(*(*c_int8_t)(slot)), and so on.
ValueAt(i) ==
    LET type == fmt[i].type
        at   == (i - 1) * align
    IN CASE type = "bool" -> RawAt(at, 4) # 0
         [] type \in Unsigneds -> RawAt(at, Bytes(type))
         [] type \in IntTypes \ Unsigneds -> TwosComplement(RawAt(at, Bytes(type)), Bytes(type))
         [] type = "string" -> LET p == RawAt(at, SizeT)
                               IN IF p = 0 THEN "" ELSE input.args[p].text

Store ==
    /\ stage = "store" /\ stage' = "done"
    /\ vals' = [i \in DOMAIN vals |-> IF i \in Opts THEN ValueAt(i) ELSE vals[i]]
    /\ outargs' = IF nonopts /\ outargs # <<>> /\ outargs[1] = Dashes
                  THEN Tail(outargs) ELSE outargs
    /\ UNCHANGED <<input, templs, next, mem, nonopt, gathered, err>>

OptNext == Asked \/ Normalise \/ ParseArg \/ EndParse \/ Store

OptSpec == OptInit /\ [][OptNext]_optVars

-----------------------------------------------------------------------------
(* Properties *)

\* The documentation's reading of a call (opt.go:69-115), from the format and
\* the arguments alone: which arguments are for an option, and what it becomes.
Before == {n \in DOMAIN input.args : \A p \in 1..n : input.args[p].k # "--"}

For(o) ==
    {n \in Before :
        LET arg == input.args[n] IN
        /\ arg.k \in {"opt", "o"} /\ arg.name = o.name
        /\ (arg.text # NoText) = (o.type # "bool" \/ o.syntax # "")}

Verb(o) == IF o.syntax \in {"", "=", "v"} THEN "i" ELSE o.syntax

Allowed(o) ==
    CASE o.type = "bool" -> o.syntax \in {"", "=", "d", "o", "x", "X", "v"}
      [] o.type \in IntTypes -> o.syntax \in {"", "=", "d", "o", "x", "X", "v"}
      [] o.type = "string" -> o.syntax \in {"", "=", "s", "v"}
      [] OTHER -> FALSE

Reads(o) == IF o.type = "bool" THEN o.syntax \in {"d", "o", "x", "X"} ELSE o.type # "string"

ErrorExpected ==
    \/ input.nvals < Len(fmt)
    \/ \E i \in Opts : ~Allowed(fmt[i])
    \/ \E i \in Opts : \E n \in For(fmt[i]) :
          Reads(fmt[i]) /\ Scan[input.args[n].text][Verb(fmt[i])] = Fail

AsType(x, type) ==
    LET m == Weight[Bytes(type)]
        u == x % m
    IN IF type \in Unsigneds THEN u ELSE IF u >= m \div 2 THEN u - m ELSE u

Expected(o) ==
    LET last == input.args[Max(For(o))].text IN
    IF For(o) = {}
    THEN CASE o.type = "bool" -> FALSE [] o.type = "string" -> "" [] OTHER -> 0
    ELSE CASE o.type = "string" -> last
           [] o.type = "bool" -> Reads(o) => AsType(Scan[last][o.syntax], "int") # 0
           [] OTHER -> AsType(Scan[last][Verb(o)], o.type)

\* What no option takes; with an empty format, what is no option.
Left(n) ==
    LET arg == input.args[n] IN
    ~(n \in Before /\ arg.k \in {"opt", "o"} /\ (nonopts \/ \E i \in Opts : n \in For(fmt[i])))

\* The first separator, when nothing follows it or only non-options are asked for.
Droppable(n) ==
    /\ input.args[n] = Dashes /\ \A m \in 1..(n - 1) : input.args[m] # Dashes
    /\ nonopts \/ n = Len(input.args)

\* The options of -o come first (opt_test.go:51-77), each kind in its order.
Listed(n)      == n \in Before /\ input.args[n].k = "o"
Precedes(m, n) == IF Listed(m) <=> Listed(n) THEN m < n ELSE Listed(m)

LeftInOrder ==
    \E place \in [DOMAIN outargs -> DOMAIN input.args] :
        /\ \A p \in DOMAIN outargs : Left(place[p]) /\ outargs[p] = input.args[place[p]]
        /\ \A p, q \in DOMAIN outargs : p < q => Precedes(place[p], place[q])
        /\ \A n \in DOMAIN input.args :
              Left(n) => Droppable(n) \/ \E p \in DOMAIN outargs : place[p] = n

\* What the documentation of OptParse says of every type, syntax and argument,
\* two options of one name included: each value is that of the last argument
\* for it, in the width and sign of its type, and none disturbs its neighbour;
\* what is left is what no option takes, the options of -o at the front and all
\* else in its order, or with an empty format what is no option; and a call that fails returns nothing and leaves every
\* value as it was, though options before the bad one have been parsed by then
\* (opt.go:22-270).
ParsesAsDocumented ==
    stage = "done" =>
        /\ err = ErrorExpected
        /\ IF err THEN outargs = <<>> /\ \A i \in DOMAIN vals : vals[i] = Old
                  ELSE LeftInOrder /\ \A i \in Opts : vals[i] = Expected(fmt[i])
=============================================================================
