-------------------------------- MODULE Strings --------------------------------
(***************************************************************************)
(* libs/string.c.  A character is a TLA+ string of one letter, ordered as  *)
(* in Alphabet, which lists the characters the models use in the order of  *)
(* their codes.  A C string is a sequence without its terminator; a        *)
(* pointer into one is an index, and CharAt reads NUL behind the last      *)
(* character.  The functions that only read are operators.  The ones that  *)
(* write memory are a loop over the cells of mem, one iteration a step,    *)
(* since what a cell holds when it is read is the question.                *)
(***************************************************************************)
EXTENDS Integers, Sequences, FiniteSets

CONSTANT MemSize        \* the cells of the memory a call works on

ASSUME MemAssumption == MemSize \in Nat \ {0}

NUL == "NUL"
Alphabet ==
    << NUL, "^A", "BS", "\t", "\n", "\r", " ", "#", "%", "*", "+", "-", ".",
       "0", "1", "2", "3", "4", "5", "6", "7", "8", "9", "?",
       "A", "B", "C", "D", "E", "F", "X",
       "a", "b", "c", "d", "e", "f", "l", "o", "p", "s", "u", "x", "z" >>
Char == {Alphabet[i] : i \in 1 .. Len(Alphabet)}
ord == [c \in Char |-> CHOOSE i \in 1 .. Len(Alphabet) : Alphabet[i] = c]

Cell == 0 .. MemSize - 1
NULL == -1
None == [fn |-> "none"]
Blank == [a \in Cell |-> "#"]

VARIABLES
    mem,            \* the cells a call works on; Blank between calls
    call,           \* the call being executed, or None
    d, s, n,        \* its pointers and its count
    old             \* mem when it began (not in the code)

memvars == <<mem, call, d, s, n, old>>

MemInit ==
    /\ mem = Blank /\ old = Blank
    /\ call = None /\ d = 0 /\ s = 0 /\ n = 0

-----------------------------------------------------------------------------
(* Reading.                                                                *)

CharAt(str, i) == IF i <= Len(str) THEN str[i] ELSE NUL
Least(S) == CHOOSE x \in S : \A y \in S : x <= y

strlen(str) == Len(str)
strnlen(str, len) == Least({strlen(str), len})

\* Where the loop of a comparison stops: at the end of the first string or at the
\* first difference.
Stop(s1, s2) ==
    Least({i \in 1 .. Len(s1) + 1 : CharAt(s1, i) = NUL \/ CharAt(s1, i) # CharAt(s2, i)})
Difference(s1, s2, i) == ord[CharAt(s1, i)] - ord[CharAt(s2, i)]

strcmp(s1, s2) == Difference(s1, s2, Stop(s1, s2))
strncmp_one_less(s1, s2, len) ==
    IF Stop(s1, s2) >= len THEN 0 ELSE Difference(s1, s2, Stop(s1, s2))
strncmp(s1, s2, len) == IF Stop(s1, s2) > len THEN 0 ELSE Difference(s1, s2, Stop(s1, s2))

\* memcmp of the first len characters, terminators and what follows them included.
memcmp(s1, s2, len) ==
    LET differ == {i \in 1 .. len : CharAt(s1, i) # CharAt(s2, i)}
    IN IF differ = {} THEN 0 ELSE Difference(s1, s2, Least(differ))

\* strfind stops at the terminator, strchr returns NULL there; neither finds NUL.
strfind(str, c) == Least({i \in 1 .. Len(str) + 1 : CharAt(str, i) \in {c, NUL}})
strchr(str, c) == IF CharAt(str, strfind(str, c)) = NUL THEN NULL ELSE strfind(str, c)

\* The value of a digit or letter, whose codes are consecutive; anything else ends
\* the number.
Between(c, lo, hi) == ord[lo] <= ord[c] /\ ord[c] <= ord[hi]
DigitValue(c) ==
    CASE Between(c, "0", "9") -> ord[c] - ord["0"]
      [] Between(c, "a", "z") -> ord[c] - ord["a"] + 10
      [] Between(c, "A", "X") -> ord[c] - ord["A"] + 10
      [] OTHER -> 99

\* [val, end]: the result, and the index *endptr is set to.
strtol(str, base) ==
    LET At(i) == CharAt(str, i)
        blank == Least({i \in 1 .. Len(str) + 1 : At(i) \notin {" ", "\t"}})
        sign == IF At(blank) \in {"+", "-"} THEN blank + 1 ELSE blank
        hex == base \in {0, 16} /\ At(sign) = "0" /\ At(sign + 1) = "x"
        octal == ~ hex /\ base = 0 /\ At(sign) = "0"
        first == IF hex THEN sign + 2 ELSE IF octal THEN sign + 1 ELSE sign
        radix == IF hex THEN 16 ELSE IF octal THEN 8 ELSE IF base = 0 THEN 10 ELSE base
        end == Least({i \in first .. Len(str) + 1 : DigitValue(At(i)) >= radix})
        val[i \in first .. end] ==
            IF i = first THEN 0 ELSE val[i - 1] * radix + DigitValue(At(i - 1))
    IN [val |-> IF At(blank) = "-" THEN - val[end] ELSE val[end], end |-> end]

\* A caller compares two strings and searches the first for a character; the
\* results are the operators above, applied to the arguments.
ReadCall(s1, s2, len, c) ==
    /\ call = None
    /\ call' = [fn |-> "read", s1 |-> s1, s2 |-> s2, len |-> len, c |-> c]
    /\ UNCHANGED <<mem, d, s, n, old>>

ReadReturn ==
    /\ call.fn = "read"
    /\ call' = None
    /\ UNCHANGED <<mem, d, s, n, old>>

-----------------------------------------------------------------------------
(* Writing.                                                                *)

Call(fn, dst, src, len) == [fn |-> fn, dst |-> dst, src |-> src, len |-> len]
Area(a, len) == a .. (a + len - 1)

\* The characters from a up to a terminator, with the terminator.
Terminated(m, a) == \E i \in Cell : i >= a /\ m[i] = NUL
Length(m, a) == Least({i \in Cell : i >= a /\ m[i] = NUL}) - a

\* What a caller must see to: the areas are in memory; memcpy's and strcpy's do not
\* overlap; the source of strcpy and strncpy is terminated.
Callable(c, m) ==
    LET size == IF c.fn = "strcpy" THEN Length(m, c.src) + 1 ELSE c.len IN
    /\ c.fn \in {"strcpy", "strncpy"} => Terminated(m, c.src)
    /\ Area(c.dst, size) \subseteq Cell
    /\ c.fn \in {"memcpy", "memmove"} => Area(c.src, size) \subseteq Cell
    /\ c.fn \in {"memcpy", "strcpy"} => Area(c.dst, size) \intersect Area(c.src, size) = {}
    /\ c.fn = "strncpy" =>
            Area(c.dst, size) \intersect Area(c.src, Least({size, Length(m, c.src) + 1})) = {}

\* memmove copies from the end if the areas overlap and dst is the higher one.
Forwards(c) == FALSE
Backwards(c) == c.fn = "memmove" /\ c.src < c.dst /\ c.src + c.len > c.dst

\* A call finds the contents m that its caller wrote.
MemCall(c, m) ==
    /\ call = None
    /\ Callable(c, m)
    /\ call' = c
    /\ d' = IF Backwards(c) THEN c.dst + c.len ELSE c.dst
    /\ s' = IF Backwards(c) THEN c.src + c.len ELSE c.src
    /\ n' = c.len
    /\ mem' = m /\ old' = m

Filler == "z"           \* the character memset is called with

memset ==
    /\ call.fn = "memset" /\ n > 0
    /\ mem' = [mem EXCEPT ![d] = Filler]
    /\ d' = d + 1 /\ n' = n - 1
    /\ UNCHANGED <<call, s, old>>

memcpy ==
    /\ call.fn = "memcpy" \/ (call.fn = "memmove" /\ ~ Backwards(call))
    /\ n > 0
    /\ mem' = [mem EXCEPT ![d] = mem[s]]
    /\ d' = d + 1 /\ s' = s + 1 /\ n' = n - 1
    /\ UNCHANGED <<call, old>>

memmove ==
    /\ call.fn = "memmove" /\ Backwards(call) /\ n > 0
    /\ mem' = [mem EXCEPT ![d - 1] = mem[s - 1]]
    /\ d' = d - 1 /\ s' = s - 1 /\ n' = n - 1
    /\ UNCHANGED <<call, old>>

\* The count of strcpy is 1 as long as its loop goes on, and 0 after the terminator.
strcpy ==
    /\ call.fn = "strcpy" /\ n > 0
    /\ mem' = [mem EXCEPT ![d] = mem[s]]
    /\ n' = IF mem[s] = NUL THEN 0 ELSE 1
    /\ d' = d + 1 /\ s' = s + 1
    /\ UNCHANGED <<call, old>>

\* The source stays at its terminator, which fills the rest.
strncpy ==
    /\ call.fn = "strncpy" /\ n > 0
    /\ mem' = [mem EXCEPT ![d] = mem[s]]
    /\ s' = IF mem[s] # NUL THEN s + 1 ELSE s
    /\ d' = d + 1 /\ n' = n - 1
    /\ UNCHANGED <<call, old>>

MemFn == {"memset", "memcpy", "memmove", "strcpy", "strncpy"}
Returned == call.fn \in MemFn /\ n = 0
MemReturn ==
    /\ Returned
    /\ call' = None /\ d' = 0 /\ s' = 0 /\ n' = 0
    /\ mem' = Blank /\ old' = Blank

MemLoop == memset \/ memcpy \/ memmove \/ strcpy \/ strncpy

-----------------------------------------------------------------------------

\* What a cell of the destination must hold at the end, in terms of memory as it was
\* at the call.
OldLength == Length(old, call.src)
Size == IF call.fn = "strcpy" THEN OldLength + 1 ELSE call.len
Wanted(i) ==
    CASE call.fn = "memset" -> Filler
      [] call.fn = "strncpy" -> IF i <= OldLength THEN old[call.src + i] ELSE NUL
      [] OTHER -> old[call.src + i]

\* The comparisons order strings consistently: strcmp is 0 only for equal strings and
\* changes its sign with its arguments; strncmp is strcmp of the first len characters,
\* and memcmp agrees with it where neither string ends before; the searches agree.
Sgn(x) == IF x < 0 THEN -1 ELSE IF x > 0 THEN 1 ELSE 0
First(str, len) == SubSeq(str, 1, strnlen(str, len))
ReadsAgree ==
    call.fn = "read" =>
        LET a == call.s1
            b == call.s2
        IN /\ strcmp(a, b) = 0 <=> a = b
           /\ Sgn(strcmp(a, b)) = - Sgn(strcmp(b, a))
           /\ Sgn(strncmp(a, b, call.len)) = Sgn(strcmp(First(a, call.len), First(b, call.len)))
           /\ call.len <= strlen(a) /\ call.len <= strlen(b) =>
                    memcmp(a, b, call.len) = strncmp(a, b, call.len)
           /\ IF strchr(a, call.c) = NULL
              THEN /\ strfind(a, call.c) = strlen(a) + 1
                   /\ call.c \notin {a[i] : i \in 1 .. Len(a)}
              ELSE /\ strfind(a, call.c) = strchr(a, call.c)
                   /\ a[strchr(a, call.c)] = call.c
                   /\ call.c \notin {a[i] : i \in 1 .. strchr(a, call.c) - 1}

\* When a copy returns, the destination holds the source as it was at the call, for
\* every overlap memmove allows, strncpy has padded with terminators, and no other
\* cell has changed.
CopiesExactly ==
    Returned => mem = [a \in Cell |-> IF a \in Area(call.dst, Size) THEN Wanted(a - call.dst)
                                      ELSE old[a]]

==============================================================================
