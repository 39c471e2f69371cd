-------------------------------- MODULE MCLibs --------------------------------
(***************************************************************************)
(* The library functions and the monitor for TLC.  From the idle state a   *)
(* caller makes one call with any of the small inputs below; memory is     *)
(* blank again when it has returned.                                       *)
(***************************************************************************)
EXTENDS Format, Monitor

vars == <<memvars, fmtvars, monvars>>

Strs(A, k) == UNION {[1 .. j -> A] : j \in 0 .. k}
MCcommands == << <<"a">>, <<"a", "a">> >>
MCKeys == {"a", " ", "BS", "\n"}

ReadInputs == call = None /\ \E s1, s2 \in Strs({"a", "b"}, 3), len \in 0 .. 4, c \in {"a", "b", NUL} :
    ReadCall(s1, s2, len, c)

\* The contents are small where the count says how much is copied.
MemInputs == call = None /\ \E fn \in MemFn, m \in [Cell -> {NUL, "a", "b"}], dst, src \in Cell :
    \E len \in (IF fn = "strcpy" THEN {1} ELSE 0 .. MemSize) : MemCall(Call(fn, dst, src, len), m)

\* Arguments: integers at the edges of an int, of a long and of a digit; strings that
\* are missing, empty, longer than a width, and with a control character.  Each list is
\* longer than a format can use.
Arg(x, str, c) == [i |-> x, s |-> str, c |-> c]
ArgLists ==
    { l \o l : l \in
        { <<Arg(-5, <<"a", "b">>, "a"), Arg(3, <<"^A", "b", "c">>, "b"), Arg(20, NoString, "c")>>,
          <<Arg(0, <<>>, "a"), Arg(-7, NoString, "b"), Arg(-1, <<"a">>, "c")>>,
          <<Arg(4, NoString, "a"), Arg(11, <<"a", "b">>, "b"), Arg(-32, <<>>, "c")>>,
          <<Arg(7, <<"a", "^A", "b", "c">>, "a"), Arg(-2, <<"b">>, "b"), Arg(5, <<>>, "c")>> } }

Directive == {"-", "0", "2", "4", "*", ".", "#", "l", "c", "e", "s", "d", "u", "o", "p", "x",
              "%", "z"}
Formats == {<<"%">> \o f : f \in Strs(Directive, 3)}

\* A format with text around it, into buffers of every size; the others on the console.
SnprintfInputs == call = None /\
    \E f \in {<<"a">> \o g \o <<"b">> : g \in {h \in Formats : Len(h) <= 3}},
       a \in ArgLists, size \in 0 .. 4, str \in {NULL, 1} : snprintf(str, size, f, a)
CprintfInputs == call = None /\ \E f \in Formats, a \in ArgLists : cprintf(f, a)

Init == MemInit /\ FmtInit /\ MonInit

Next ==
    \/ (ReadInputs \/ ReadReturn \/ MemInputs \/ MemLoop \/ MemReturn) /\ UNCHANGED <<fmtvars, monvars>>
    \/ (SnprintfInputs \/ CprintfInputs \/ FormatStep \/ FormatReturn) /\ UNCHANGED monvars
    \/ MonitorStep /\ UNCHANGED fmtvars

Spec == Init /\ [][Next]_vars /\ WF_vars(FormatStep /\ UNCHANGED monvars)

==============================================================================
