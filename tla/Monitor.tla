-------------------------------- MODULE Monitor --------------------------------
(***************************************************************************)
(* The kernel monitor: kern/debug/kmonitor.c, readline of                  *)
(* kern/libs/readline.c with its global line buffer, and getchar and       *)
(* cons_getc below it.  One step per character read, and one per character *)
(* that parse overwrites or argument that it saves.                        *)
(***************************************************************************)
EXTENDS Strings

CONSTANTS
    BUFSIZE,        \* of the line buffer
    MAXARGS,        \* the elements of argv
    commands,       \* their names, in order
    Keys,           \* the characters that may be typed
    MaxTyped        \* bound on the characters of one line

ASSUME MonitorAssumption ==
    /\ BUFSIZE \in Nat \ {0} /\ MAXARGS \in Nat \ {0} /\ MaxTyped \in Nat
    /\ Keys \subseteq Char \ {NUL}
    /\ commands \in Seq(Seq(Char \ {NUL}))

VARIABLES
    line,           \* buf, which keeps what earlier lines left in it
    i,              \* readline's index; parse's pointer buf
    argv,           \* the saved pointers; argc is their number
    result,         \* the number of the command that runs, 0 if none
    typed           \* the characters since readline was called (not in the code)

monvars == <<line, i, argv, result, typed>>

MonInit ==
    /\ line = [k \in 0 .. BUFSIZE - 1 |-> NUL]
    /\ i = 0 /\ argv = <<>> /\ result = 0 /\ typed = <<>>

\* call stands for where the monitor is.
In(label) == call = [fn |-> label]
Goto(label) == call' = [fn |-> label]

\* kmonitor shuts the machine down; its loop is reached if the firmware returns.
kmonitor ==
    /\ call = None
    /\ Goto("shutdown")
    /\ UNCHANGED <<mem, d, s, n, old, monvars>>

sbi_shutdown ==
    /\ In("shutdown")
    /\ Goto("off") \/ Goto("readline")
    /\ UNCHANGED <<mem, d, s, n, old, monvars>>

\* The firmware's answer to cons_getc: a character, 0, or a negative number.  getchar
\* asks again after 0.
NoKey == "negative"
cons_getc == Keys \union {NUL, NoKey}
getchar == cons_getc \ {NUL}

Printable(c) == ord[c] >= ord[" "]
NotTerminated(l, k) == l
Terminate(l, k) == [l EXCEPT ![k] = NUL]

\* One turn of readline's loop.  A character that does not fit, or is neither
\* printable nor one of the three handled, is dropped.
readline ==
    /\ In("readline")
    /\ \E c \in getchar :
        \/ /\ c = NoKey                 \* NULL: kmonitor calls readline again
           /\ i' = 0 /\ typed' = <<>>
           /\ UNCHANGED <<call, line>>
        \/ /\ c # NoKey /\ Len(typed) < MaxTyped
           /\ typed' = Append(typed, c)
           /\ \/ /\ Printable(c) /\ i < BUFSIZE - 1
                 /\ line' = [line EXCEPT ![i] = c]
                 /\ i' = i + 1
                 /\ UNCHANGED call
              \/ /\ c = "BS" /\ i > 0
                 /\ i' = i - 1
                 /\ UNCHANGED <<call, line>>
              \/ /\ c \in {"\n", "\r"}
                 /\ line' = Terminate(line, i)
                 /\ i' = 0
                 /\ Goto("parse")
              \/ /\ ~ (Printable(c) /\ i < BUFSIZE - 1) /\ ~ (c = "BS" /\ i > 0)
                 /\ c \notin {"\n", "\r"}
                 /\ UNCHANGED <<call, line, i>>
    /\ UNCHANGED <<mem, d, s, n, old, argv, result>>

WHITESPACE == <<" ", "\t", "\n", "\r">>
IsBlank(c) == c # NUL /\ strchr(WHITESPACE, c) # NULL

ParseBlank ==
    /\ In("parse") /\ IsBlank(line[i])
    /\ line' = Terminate(line, i)
    /\ i' = i + 1
    /\ UNCHANGED <<call, mem, d, s, n, old, argv, result, typed>>

\* Save the argument and scan past it.
ParseArg ==
    /\ In("parse") /\ line[i] # NUL /\ ~ IsBlank(line[i])
    /\ Len(argv) < MAXARGS
    /\ argv' = Append(argv, i)
    /\ i' = Least({k \in i .. BUFSIZE - 1 : line[k] = NUL \/ IsBlank(line[k])})
    /\ UNCHANGED <<call, mem, d, s, n, old, line, result, typed>>

\* parse reports the last argument that fits and does not stop at the next one, which
\* it writes behind argv: what the monitor does from there on is undefined.
ParseTooMany ==
    /\ In("parse") /\ line[i] # NUL /\ ~ IsBlank(line[i])
    /\ Len(argv) = MAXARGS
    /\ Goto("undefined")
    /\ UNCHANGED <<mem, d, s, n, old, monvars>>

StringAt(k) ==
    LET end == Least({j \in k .. BUFSIZE - 1 : line[j] = NUL})
    IN [j \in 1 .. end - k |-> line[k + j - 1]]

\* The end of the line: runcmd looks the first argument up.
runcmd ==
    /\ In("parse") /\ line[i] = NUL
    /\ LET found == {k \in 1 .. Len(commands) :
                        argv # <<>> /\ strcmp(commands[k], StringAt(argv[1])) = 0}
       IN result' = IF found = {} THEN 0 ELSE Least(found)
    /\ Goto("run")
    /\ UNCHANGED <<mem, d, s, n, old, line, i, argv, typed>>

\* No command returns a negative number: the loop of kmonitor goes on.
NextLine ==
    /\ In("run")
    /\ Goto("readline")
    /\ i' = 0 /\ argv' = <<>> /\ result' = 0 /\ typed' = <<>>
    /\ UNCHANGED <<mem, d, s, n, old, line>>

MonitorStep ==
    kmonitor \/ sbi_shutdown \/ readline \/ ParseBlank \/ ParseArg \/ ParseTooMany
        \/ runcmd \/ NextLine

-----------------------------------------------------------------------------

\* What the user sees on the screen after the keys ks: the line as edited, without
\* what did not fit.
Edited(ks) ==
    LET e[k \in 0 .. Len(ks)] ==
            IF k = 0 THEN <<>>
            ELSE CASE ks[k] = "BS" /\ e[k - 1] # <<>> -> SubSeq(e[k - 1], 1, Len(e[k - 1]) - 1)
                   [] Printable(ks[k]) /\ Len(e[k - 1]) < BUFSIZE - 1 -> Append(e[k - 1], ks[k])
                   [] OTHER -> e[k - 1]
    IN e[Len(ks)]

\* str[lo..hi] is a word of str: without blanks, and no longer one has none.
IsWord(str, lo, hi) ==
    /\ \A k \in lo .. hi : str[k] # " "
    /\ lo = 1 \/ str[lo - 1] = " "
    /\ hi = Len(str) \/ str[hi + 1] = " "

\* When a command runs, the arguments are exactly the words of the line on the screen,
\* in order, whatever earlier lines left in the buffer and however the line was
\* edited; and the command is the one whose whole name is the first word.
RunsWhatWasTyped ==
    In("run") =>
        LET str == Edited(typed)
            words == {w \in (1 .. Len(str)) \X (1 .. Len(str)) :
                        w[1] <= w[2] /\ IsWord(str, w[1], w[2])}
            args == [k \in 1 .. Len(argv) |-> StringAt(argv[k])]
        IN /\ Cardinality(words) = Len(args)
           /\ \A w \in words :
                LET k == Cardinality({v \in words : v[1] <= w[1]})
                IN args[k] = SubSeq(str, w[1], w[2])
           /\ IF result # 0 THEN args # <<>> /\ commands[result] = args[1]
              ELSE args = <<>> \/ \A k \in 1 .. Len(commands) : commands[k] # args[1]

==============================================================================
