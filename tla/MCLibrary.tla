------------------------------ MODULE MCLibrary ------------------------------
(***************************************************************************)
(* The FUSE library as the package uses it, in one run: loaded on UNIX     *)
(* (LibfuseLoader), loaded on Windows without cgo (NocgoHost), called and  *)
(* calling back there (WinCalls), and asked to parse options (OptParse).   *)
(* build says which of the four a behavior is about; the variables of the  *)
(* other three stay as they are.                                           *)
(***************************************************************************)
EXTENDS MCLibfuseLoader, NocgoHost, WinCalls, OptParse

VARIABLE build

\* Two procedures and the optional one, which not every library has.
WithProcs == [l \in AllLibs |-> IF l = broken THEN {1} ELSE IF l = std THEN {1, 2} ELSE {1, 2, 3}]

-----------------------------------------------------------------------------
\* Calls of OptParse: one option of every syntax and type, or two, the second
\* of the same name or of another; up to two arguments, or the same one before
\* and after a separator; and with options of -o, three of any kind.
Texts == {"10", "-2", "010", "0x1", "junk", ""}

Scanned == [t \in Texts |-> [v \in Verbs |->
    CASE t = "10" -> (CASE v \in {"d", "i"} -> 10 [] v = "o" -> 8 [] OTHER -> 16)
      [] t = "-2" -> -2
      [] t = "010" -> (CASE v = "d" -> 10 [] v \in {"i", "o"} -> 8 [] OTHER -> 16)
      [] t = "0x1" -> (IF v \in {"d", "o"} THEN 0 ELSE 1)
      [] OTHER -> Fail]]

Option(n, t) == [k |-> "opt", name |-> n, text |-> t]
InList(n, t) == [k |-> "o", name |-> n, text |-> t]
Format1 == [name : {"-a"}, syntax : {"", "=", "d", "o", "x", "X", "v", "s", "?"},
            type : {"bool", "int8", "uint8", "int16", "int", "int64", "uintptr", "string", "other"}]
Format2 == [name : {"-a", "-b"}, syntax : {"", "d"}, type : {"bool", "int64"}]
Format3 == [name : {"-a", "a"}, syntax : {"", "d"}, type : {"bool", "int64"}]
ForA    == {Option("-a", t) : t \in Texts \cup {"(no text)"}}
Others  == {Option("-b", "10"), [k |-> "--"], [k |-> "arg"]}
OneArg  == {<<x>> : x \in ForA \cup Others}
TwoArgs == {<<x, y>> : x \in ForA \cup Others, y \in ForA \cup Others}
Around  == {<<x, y, x>> : x \in ForA \cup Others, y \in Others}
Words   == {InList("a", "10"), InList("a", "junk"), InList("b", "(no text)"),
            Option("-a", "10"), [k |-> "--"], [k |-> "arg"]}
Lists   == {<<x, y>> : x \in Words, y \in Words} \cup
           {<<x, y, z>> : x \in Words, y \in Words, z \in Words}

SomeCalls ==
    [fmt : {<<>>}, nvals : {0}, args : {<<>>} \cup OneArg \cup TwoArgs \cup Around] \cup
    [fmt : {<<x>> : x \in Format1}, nvals : {0, 1}, args : {<<>>} \cup OneArg] \cup
    [fmt : {<<x>> : x \in Format1}, nvals : {1}, args : TwoArgs \cup Around] \cup
    [fmt : {<<x, y>> : x \in Format1, y \in Format2}, nvals : {2},
     args : {<<x, Option("-b", "10")>> : x \in ForA} \cup {<<Option("-a", "10"), x>> : x \in ForA}] \cup
    [fmt : {<<>>} \cup {<<x>> : x \in Format3}, nvals : {1}, args : Lists]

-----------------------------------------------------------------------------
SumInit ==
    /\ build \in {"unix", "windows", "calls", "options"}
    /\ Init /\ NocgoInit /\ CallInit /\ OptInit
    /\ build # "calls" => wide

SumNext ==
    /\ \/ build = "unix" /\ Next /\ UNCHANGED <<nocgoVars, callVars, optVars>>
       \/ build = "windows" /\ NocgoNext /\ UNCHANGED <<vars, callVars, optVars>>
       \/ build = "calls" /\ CallNext /\ UNCHANGED <<vars, nocgoVars, optVars>>
       \/ build = "options" /\ OptNext /\ UNCHANGED <<vars, nocgoVars, callVars>>
    /\ UNCHANGED build

\* The fairness of LibfuseLoader, whose other builds leave nothing to be done.
SumSpec ==
    /\ SumInit /\ [][SumNext]_<<build, vars, nocgoVars, callVars, optVars>>
    /\ \A t \in Threads : WF_vars(Work(t)) /\ SF_vars(Lock(t))
==============================================================================
