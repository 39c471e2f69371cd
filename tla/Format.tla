-------------------------------- MODULE Format --------------------------------
(***************************************************************************)
(* Formatted output: libs/printfmt.c and the callers of vprintfmt,         *)
(* vsnprintf with its buffer and vcprintf of kern/libs/stdio.c with the    *)
(* console.  One action per character of the format, as the switch of      *)
(* vprintfmt takes them; a conversion puts its characters in one step.     *)
(*                                                                         *)
(* An argument is a record of what va_arg may read it as.  An int has      *)
(* IntBits, a long and a pointer LongBits.  The wording of messages is     *)
(* left out: a letter or two stand for it.                                 *)
(***************************************************************************)
EXTENDS Strings

CONSTANTS IntBits, LongBits

\* The second line holds of every width; the provers know nothing of powers.
ASSUME WidthAssumption ==
    /\ IntBits \in Nat \ {0} /\ LongBits \in Nat /\ IntBits <= LongBits
    /\ 2^IntBits \in Nat \ {0} /\ 2^LongBits \in Nat \ {0}

E_INVAL == 3
MAXERROR == 6

VARIABLES
    fmt, fp,        \* the format and the index of its next character
    args,           \* the arguments still to come
    esc,            \* the escape sequence being processed, or NoEscape
    b,              \* struct sprintbuf; for the console only cnt is used
    ret,
    out             \* all characters put (not in the code; the console's output)

fmtvars == <<fmt, fp, args, esc, b, ret, out>>

NoEscape == [on |-> FALSE]
Escape == [on |-> TRUE, padc |-> " ", width |-> -1, precision |-> -1, lflag |-> 0,
           altflag |-> FALSE]
NoBuf == [buf |-> 0, ebuf |-> 0, cnt |-> 0]
Printing == call.fn \in {"snprintf", "cprintf"}

ch == CharAt(fmt, fp)
Digit(x) == Alphabet[ord[IF x < 10 THEN "0" ELSE "a"] + (IF x < 10 THEN x ELSE x - 10)]
Copies(c, k) == [i \in 1 .. (IF k > 0 THEN k ELSE 0) |-> c]

FmtInit ==
    /\ fmt = <<>> /\ fp = 1 /\ args = <<>> /\ esc = NoEscape
    /\ b = NoBuf /\ ret = 0 /\ out = <<>>

-----------------------------------------------------------------------------
(* Numbers.                                                                *)

Bits(lflag) == IF lflag >= 1 THEN LongBits ELSE IntBits
getuint(v, lflag) == v % 2^Bits(lflag)
getint(v, lflag) ==
    LET u == getuint(v, lflag) IN IF u >= 2^(Bits(lflag) - 1) THEN u - 2^Bits(lflag) ELSE u

printnum_one_more(num, base, width, padc) ==
    LET digits[x \in 0 .. num] ==
            IF x >= base THEN [w \in Int |-> Append(digits[x \div base][w - 1], Digit(x % base))]
            ELSE [w \in Int |-> Copies(padc, w) \o <<Digit(x)>>]
    IN digits[num][width]

\* The width goes down by one with each digit; what is left in front of the first
\* digit is padded.
printnum(num, base, width, padc) ==
    LET digits[x \in 0 .. num] ==
            IF x >= base THEN [w \in Int |-> Append(digits[x \div base][w - 1], Digit(x % base))]
            ELSE [w \in Int |-> Copies(padc, w - 1) \o <<Digit(x)>>]
    IN digits[num][width]

-----------------------------------------------------------------------------
(* Where the characters go.                                                *)

\* sprintputch and cputch, for the characters cs one after another: sprintputch
\* stores as long as there is room and counts always.
AlwaysRoom(cs) == Len(cs)
Stored(cs) == Least({Len(cs), b.ebuf - b.buf})
Put(cs) ==
    /\ out' = out \o cs
    /\ \/ /\ call.fn = "snprintf"
          /\ LET k == Stored(cs) IN
              /\ mem' = [a \in Cell |-> IF a \in Area(b.buf, k) THEN cs[a - b.buf + 1] ELSE mem[a]]
              /\ b' = [b EXCEPT !.buf = @ + k, !.cnt = @ + Len(cs)]
       \/ /\ call.fn = "cprintf"
          /\ b' = [b EXCEPT !.cnt = @ + Len(cs)]
          /\ UNCHANGED mem

Begin(f, a) == fmt' = f /\ fp' = 1 /\ args' = a

\* snprintf(str, size, f, a): no buffer, or no room for the terminator, is refused.
snprintf(str, size, f, a) ==
    /\ call = None
    /\ call' = [fn |-> IF str = NULL \/ size = 0 THEN "returned" ELSE "snprintf",
                str |-> str, size |-> size]
    /\ \/ /\ str = NULL \/ size = 0
          /\ ret' = - E_INVAL
          /\ UNCHANGED <<fmt, fp, args, b>>
       \/ /\ str # NULL /\ size > 0
          /\ Begin(f, a)
          /\ b' = [buf |-> str, ebuf |-> str + size - 1, cnt |-> 0]
          /\ UNCHANGED ret
    /\ UNCHANGED <<mem, d, s, n, old, esc, out>>

cprintf(f, a) ==
    /\ call = None
    /\ call' = [fn |-> "cprintf"]
    /\ Begin(f, a)
    /\ UNCHANGED <<mem, d, s, n, old, esc, b, ret, out>>

-----------------------------------------------------------------------------
(* vprintfmt.                                                              *)

Literal ==
    /\ Printing /\ ~ esc.on /\ ch \notin {"%", NUL}
    /\ Put(<<ch>>)
    /\ fp' = fp + 1
    /\ UNCHANGED <<call, d, s, n, old, fmt, args, esc, ret>>

Percent ==
    /\ Printing /\ ~ esc.on /\ ch = "%"
    /\ esc' = Escape
    /\ fp' = fp + 1
    /\ UNCHANGED <<memvars, fmt, args, b, ret, out>>

process_precision(precision) ==
    esc' = IF esc.width < 0 THEN [esc EXCEPT !.width = precision, !.precision = -1]
           ELSE [esc EXCEPT !.precision = precision]

SameDigit(number) == fp
PastDigits(number) == fp + number.end - 1

\* The flags, the width and the precision: goto reswitch.
Flag ==
    /\ Printing /\ esc.on
    /\ \/ /\ ch = "-" /\ esc' = [esc EXCEPT !.padc = "-"]
          /\ fp' = fp + 1 /\ UNCHANGED args
       \/ /\ ch = "0" /\ esc' = [esc EXCEPT !.padc = "0"]
          /\ fp' = fp + 1 /\ UNCHANGED args
       \/ /\ Between(ch, "1", "9")
          /\ LET number == strtol(SubSeq(fmt, fp, Len(fmt)), 10) IN
              /\ process_precision(number.val)
              /\ fp' = PastDigits(number)
          /\ UNCHANGED args
       \/ /\ ch = "*"
          /\ process_precision(getint(args[1].i, 0))
          /\ fp' = fp + 1 /\ args' = Tail(args)
       \/ /\ ch = "." /\ esc' = [esc EXCEPT !.width = IF @ < 0 THEN 0 ELSE @]
          /\ fp' = fp + 1 /\ UNCHANGED args
       \/ /\ ch = "#" /\ esc' = [esc EXCEPT !.altflag = TRUE]
          /\ fp' = fp + 1 /\ UNCHANGED args
       \/ /\ ch = "l" /\ esc' = [esc EXCEPT !.lflag = @ + 1]
          /\ fp' = fp + 1 /\ UNCHANGED args
    /\ UNCHANGED <<memvars, fmt, b, ret, out>>

\* %c, and %%.
Character ==
    \/ ch = "c" /\ Put(<<args[1].c>>) /\ args' = Tail(args)
    \/ ch = "%" /\ Put(<<"%">>) /\ UNCHANGED args

\* %e: the text of a known error, else its number, as positive.
error_string(err) == <<"e", Digit(err)>>
Error ==
    /\ ch = "e"
    /\ LET i == getint(args[1].i, 0)
           err == IF i < 0 THEN - i ELSE i
       IN Put(IF err > MAXERROR \/ err = 0 THEN <<"e", " ">> \o printnum(err, 10, -1, " ")
              ELSE error_string(err))
    /\ args' = Tail(args)

\* %s: the padding in front, the characters that precision allows, and the padding
\* behind; the one in front uses the width up.
NoString == <<NUL>>     \* a null pointer
NullText == <<"z", "z">>
Shown(str) == IF esc.precision < 0 THEN str ELSE First(str, esc.precision)
Visible(c) == IF esc.altflag /\ ord[c] < ord[" "] THEN "?" ELSE c
StringField(str) ==
    LET text == Shown(str)
        pad == esc.width - Len(text)
        shown == [i \in 1 .. Len(text) |-> Visible(text[i])]
    IN IF esc.padc # "-" THEN Copies(esc.padc, pad) \o shown ELSE shown \o Copies(" ", pad)
String ==
    /\ ch = "s"
    /\ Put(StringField(IF args[1].s = NoString THEN NullText ELSE args[1].s))
    /\ args' = Tail(args)

\* %d, %u, %o, %x, %p: base, prefix and value of the next argument.
Base == [d |-> 10, u |-> 10, o |-> 8, x |-> 16, p |-> 16]
IsNumber(c) == c \in DOMAIN Base
Value ==
    CASE ch = "d" -> getint(args[1].i, esc.lflag)
      [] ch = "p" -> getuint(args[1].i, 2)
      [] OTHER -> getuint(args[1].i, esc.lflag)
Prefix == IF ch = "d" /\ Value < 0 THEN <<"-">> ELSE IF ch = "p" THEN <<"0", "x">> ELSE <<>>
Magnitude == IF Value < 0 THEN - Value ELSE Value
Number ==
    /\ IsNumber(ch)
    /\ Put(Prefix \o printnum(Magnitude, Base[ch], esc.width, esc.padc))
    /\ args' = Tail(args)

Convert ==
    /\ Printing /\ esc.on
    /\ Character \/ Error \/ String \/ Number
    /\ fp' = fp + 1
    /\ esc' = NoEscape
    /\ UNCHANGED <<call, d, s, n, old, fmt, ret>>

\* Anything else, the end of the format included: put the % and go back behind it.
Known == {"-", "*", ".", "#", "l", "c", "%", "e", "s"} \union DOMAIN Base
BehindPercent == CHOOSE k \in 2 .. fp :
                fmt[k - 1] = "%" /\ \A j \in k .. fp - 1 : fmt[j] # "%"
Unrecognized ==
    /\ Printing /\ esc.on /\ ch \notin Known /\ ~ Between(ch, "0", "9")
    /\ Put(<<"%">>)
    /\ fp' = BehindPercent
    /\ esc' = NoEscape
    /\ UNCHANGED <<call, d, s, n, old, fmt, args, ret>>

\* The end of the format: vsnprintf terminates its buffer.
FormatEnd ==
    /\ Printing /\ ~ esc.on /\ ch = NUL
    /\ mem' = IF call.fn = "snprintf" THEN [mem EXCEPT ![b.buf] = NUL] ELSE mem
    /\ ret' = b.cnt
    /\ call' = IF call.fn = "snprintf" THEN [call EXCEPT !.fn = "returned"]
               ELSE [fn |-> "returned", str |-> NULL, size |-> 0]
    /\ UNCHANGED <<d, s, n, old, fmt, fp, args, esc, b, out>>

\* The caller goes on.
FormatReturn ==
    /\ call.fn = "returned"
    /\ call' = None /\ mem' = Blank
    /\ fmt' = <<>> /\ fp' = 1 /\ args' = <<>> /\ b' = NoBuf /\ ret' = 0 /\ out' = <<>>
    /\ UNCHANGED <<d, s, n, old, esc>>

FormatStep == Literal \/ Percent \/ Flag \/ Convert \/ Unrecognized \/ FormatEnd

-----------------------------------------------------------------------------

\* What vsnprintf leaves: as much of the whole output as fits in front of the
\* terminator, nothing outside the size bytes it was given, and the length the output
\* would have had (printfmt.c:314-326).
Truncates ==
    call.fn = "returned" /\ ret >= 0 =>
        /\ ret = Len(out)
        /\ call.str # NULL =>
            LET k == Least({Len(out), call.size - 1}) IN
            mem = [a \in Cell |-> IF a \in Area(call.str, k) THEN out[a - call.str + 1]
                                  ELSE IF a = call.str + k THEN NUL ELSE old[a]]

\* A number is as wide as asked for, its sign and prefix apart, and reads back by
\* strtol as the value modulo the size of its type; unless it is padded with '-', or
\* with spaces behind the minus sign.
NumbersReadBack ==
    [][ /\ Printing /\ esc.on /\ IsNumber(ch) /\ fp' # fp
        => LET field == SubSeq(out', Len(out) + 1, Len(out'))
               plain == Len(printnum(Magnitude, Base[ch], -1, " "))
           IN /\ Len(field) = Len(Prefix) + (IF plain > esc.width THEN plain ELSE esc.width)
              /\ \/ esc.width > plain /\ (esc.padc = "-" \/ (esc.padc = " " /\ Prefix # <<>>))
                 \/ LET read == strtol(field, IF ch = "p" THEN 0 ELSE Base[ch]) IN
                    read.val = Value /\ read.end = Len(field) + 1 ]_<<call, fp, out>>

\* vprintfmt comes to the end of every format, also where it goes back.
FormatEnds == Printing ~> call.fn = "returned"

==============================================================================
