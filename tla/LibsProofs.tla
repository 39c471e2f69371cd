------------------------------ MODULE LibsProofs ------------------------------
(***************************************************************************)
(* Proofs about Strings, Format and Monitor.                               *)
(*                                                                         *)
(* Strings, for memory of every size, contents, strings and counts of      *)
(* every kind: the functions that write copy exactly what they promise,    *)
(* and the functions that read agree with each other.                      *)
(*                                                                         *)
(* Format, for every format and arguments, and every buffer: vsnprintf     *)
(* leaves what fits and returns the length of all of it.                   *)
(*                                                                         *)
(* Monitor, for every size of the line buffer, number of arguments, keys   *)
(* and commands: what runs is what was typed.  While a line is read the    *)
(* buffer holds what is on the screen (Edited).  While it is parsed the    *)
(* blanks below i are terminators, and argv lists where the words below i  *)
(* begin.  At its end the x-th argument is the x-th word, since words are  *)
(* ordered as their beginnings are.                                        *)
(***************************************************************************)
EXTENDS Format, Monitor, FiniteSetTheorems, WellFoundedInduction, SequenceTheorems, TLAPS

\* The library on its own: one call at a time, with any argument its caller may pass.
\* A run makes the calls of this specification that its small inputs give.
Text == Seq(Char \ {NUL})

AnyRead == \E s1, s2 \in Text, len \in Nat, c \in Char : ReadCall(s1, s2, len, c)
AnyWrite ==
    \E fn \in MemFn, m \in [Cell -> Char], dst, src, len \in Nat :
        /\ fn = "strcpy" => len = 1
        /\ MemCall(Call(fn, dst, src, len), m)

MemNext == AnyRead \/ ReadReturn \/ AnyWrite \/ MemLoop \/ MemReturn
MemSpec == MemInit /\ [][MemNext]_memvars

-----------------------------------------------------------------------------
(* The least number of a set *)

\* A set of natural numbers that is not empty has one least element.
LEMMA LeastNumber ==
    ASSUME NEW T, T \subseteq Nat, T # {}
    PROVE  /\ Least(T) \in T
           /\ \A y \in T : Least(T) <= y
<1> DEFINE R == OpToRel(<, Nat)
<1>1. IsWellFoundedOn(R, Nat)
  BY NatLessThanWellFounded
<1>2. \A y, z \in Nat : y < z => <<y, z>> \in R
  BY DEF OpToRel
<1> HIDE DEF R
<1>3. PICK x \in T : \A y \in T : ~ (<<y, x>> \in R)
  BY <1>1, WFMin
<1>4. ASSUME NEW y \in T PROVE x <= y
  <2>1. x \in Nat /\ y \in Nat
    OBVIOUS
  <2>2. ~ (y < x)
    BY <1>2, <1>3, <2>1
  <2> QED
    BY <2>1, <2>2
<1> QED
  BY <1>4 DEF Least

\* The least element of a set of numbers, known by its properties.
LEMMA LeastIs ==
    ASSUME NEW T, T \subseteq Nat, NEW x \in T, \A y \in T : x <= y
    PROVE  Least(T) = x
<1>1. Least(T) \in T /\ Least(T) <= x
  BY LeastNumber
<1>2. x <= Least(T) /\ x \in Nat /\ Least(T) \in Nat
  BY <1>1
<1> QED
  BY <1>1, <1>2

\* A terminated string in memory ends at its first NUL.
LEMMA TerminatedAt ==
    ASSUME NEW m, NEW a \in Nat, Terminated(m, a)
    PROVE  /\ Length(m, a) \in Nat
           /\ a + Length(m, a) \in Cell
           /\ m[a + Length(m, a)] = NUL
           /\ \A pos \in Nat : pos < Length(m, a) => m[a + pos] # NUL
<1> DEFINE T == {pos \in Cell : pos >= a /\ m[pos] = NUL}
           e == Least(T)
<1>1. MemSize \in Nat /\ \A pos \in Cell : pos \in Nat /\ pos < MemSize
  BY MemAssumption DEF Cell
<1>2. T \subseteq Nat /\ T # {}
  BY <1>1 DEF Terminated
<1>3. e \in T /\ \A pos \in T : e <= pos
  BY <1>2, LeastNumber
<1>4. Length(m, a) = e - a
  BY DEF Length
<1> HIDE DEF e
<1>5. e \in Cell /\ e \in Nat /\ e >= a /\ m[e] = NUL /\ a + (e - a) = e
  BY <1>1, <1>3
<1>6. ASSUME NEW pos \in Nat, pos < e - a PROVE m[a + pos] # NUL
  <2>1. a + pos \in Cell /\ a + pos < e /\ a + pos >= a
    BY <1>1, <1>5, <1>6 DEF Cell
  <2>2. a + pos \notin T
    BY <1>1, <1>3, <1>5, <2>1
  <2> QED
    BY <2>1, <2>2
<1> QED
  BY <1>4, <1>5, <1>6

-----------------------------------------------------------------------------
(* The functions that write *)

\* The cells the call has written, and memory when those of S hold what they must.
Done == IF Backwards(call) THEN d .. call.dst + call.len - 1 ELSE call.dst .. d - 1
Written(S) == [a \in Cell |-> IF a \in S THEN Wanted(a - call.dst) ELSE old[a]]

\* The call is one its caller may make.
Called ==
    /\ call = Call(call.fn, call.dst, call.src, call.len)
    /\ call.dst \in Nat /\ call.src \in Nat /\ call.len \in Nat
    /\ Callable(call, old)

\* Where the pointers are after k iterations.
CountDown(k) == n \in Nat /\ k + n = call.len
Place(k) ==
    /\ call.fn = "memset" => CountDown(k)
    /\ call.fn \in {"memcpy", "memmove"} => CountDown(k) /\ s = call.src + k
    /\ call.fn = "strcpy" =>
         /\ s = call.src + k
         /\ \/ n = 1 /\ k <= OldLength
            \/ n = 0 /\ k = OldLength + 1
    /\ call.fn = "strncpy" =>
         CountDown(k) /\ s = call.src + (IF k <= OldLength THEN k ELSE OldLength)

Pointers ==
    IF Backwards(call)
    THEN n \in Nat /\ n <= call.len /\ d = call.dst + n /\ s = call.src + n
    ELSE d \in Nat /\ d >= call.dst /\ Place(d - call.dst)

\* The inductive invariant: a call that writes has written a part of its destination,
\* and reads only cells it has not written; a call that reads has strings for arguments.
Writes == call.fn \in MemFn => Called /\ Pointers /\ mem = Written(Done)
Reads ==
    call.fn = "read" =>
        call.s1 \in Text /\ call.s2 \in Text /\ call.len \in Nat /\ call.c \in Char
IInv == Writes /\ Reads

\* One more cell of the destination is written.
LEMMA WriteOne ==
    ASSUME NEW S, NEW x \in Cell, NEW y, mem = Written(S), UNCHANGED <<call, old>>,
           mem' = [mem EXCEPT ![x] = y], y = Wanted(x - call.dst)
    PROVE  mem' = Written(S \union {x})'
<1>1. \A pos : Wanted(pos)' = Wanted(pos)
  BY DEF Wanted, OldLength
<1>2. Written(S \union {x})' =
        [a \in Cell |-> IF a \in S \union {x} THEN Wanted(a - call.dst) ELSE old[a]]
  BY <1>1 DEF Written
<1>3. mem = [a \in Cell |-> IF a \in S THEN Wanted(a - call.dst) ELSE old[a]]
  BY DEF Written
<1> QED
  BY <1>2, <1>3

\* What stays while a call is executed.
LEMMA SameCall ==
    ASSUME UNCHANGED <<call, old>>
    PROVE  /\ Called => Called'
           /\ OldLength' = OldLength
           /\ Backwards(call)' = Backwards(call)
BY DEF Called, OldLength, Callable

\* A cell of the area of a call is in memory.
LEMMA InArea ==
    ASSUME NEW a \in Nat, NEW len \in Nat, NEW k \in Nat, k < len
    PROVE  a + k \in Area(a, len)
BY DEF Area

\* A cell that is not written yet holds what it held at the call.
LEMMA ReadsOld ==
    ASSUME mem = Written(Done), NEW a \in Cell, a \notin Done
    PROVE  mem[a] = old[a]
BY DEF Written

\* An iteration that goes on to the next cell, and one that goes on to the one before.
LEMMA Forward ==
    ASSUME ~ Backwards(call), UNCHANGED <<call, old>>, mem = Written(Done),
           d \in Cell, d >= call.dst, call.dst \in Nat, d' = d + 1,
           NEW y, mem' = [mem EXCEPT ![d] = y], y = Wanted(d - call.dst)
    PROVE  mem' = Written(Done)'
<1>1. PICK S, x : S = Done /\ x = d
  OBVIOUS
<1>2. d \in Nat
  BY MemAssumption DEF Cell
<1>3. Done' = S \union {x}
  BY <1>1, <1>2, SameCall DEF Done
<1>4. mem' = Written(S \union {x})'
  BY <1>1, WriteOne
<1> QED
  BY <1>3, <1>4 DEF Written

LEMMA Backward ==
    ASSUME Backwards(call), UNCHANGED <<call, old>>, mem = Written(Done),
           d - 1 \in Cell, d <= call.dst + call.len, d \in Nat, call.dst \in Nat, call.len \in Nat,
           d' = d - 1, NEW y, mem' = [mem EXCEPT ![d - 1] = y], y = Wanted(d - 1 - call.dst)
    PROVE  mem' = Written(Done)'
<1>1. PICK S, x : S = Done /\ x = d - 1
  OBVIOUS
<1>2. Done' = S \union {x}
  BY <1>1, SameCall DEF Done
<1>3. mem' = Written(S \union {x})'
  BY <1>1, WriteOne
<1> QED
  BY <1>2, <1>3 DEF Written

\* What the arguments say of a step that is still to come: the cell it writes is in
\* memory, the cell it reads is in memory and not written, for the k-th of len.
LEMMA CopyCells ==
    ASSUME Called, call.fn \in {"memset", "memcpy", "memmove"}, NEW k \in Nat, k < call.len
    PROVE  /\ call.dst + k \in Cell
           /\ call.fn # "memset" => call.src + k \in Cell
           /\ call.fn # "memset" /\ ~ Backwards(call) => call.src + k \notin call.dst .. call.dst + k - 1
<1>1. /\ call.dst \in Nat /\ call.src \in Nat /\ call.len \in Nat /\ Callable(call, old)
  BY DEF Called
<1>2. call.dst + k \in Area(call.dst, call.len) /\ call.src + k \in Area(call.src, call.len)
  BY <1>1, InArea
<1>3. /\ Area(call.dst, call.len) \subseteq Cell
      /\ call.fn # "memset" => Area(call.src, call.len) \subseteq Cell
      /\ call.fn = "memcpy" => Area(call.dst, call.len) \intersect Area(call.src, call.len) = {}
  BY <1>1 DEF Callable
<1>4. ASSUME call.fn = "memcpy" PROVE call.src + k \notin call.dst .. call.dst + k - 1
  BY <1>1, <1>2, <1>3, <1>4 DEF Area
<1>5. ASSUME call.fn = "memmove", ~ Backwards(call) PROVE call.src + k \notin call.dst .. call.dst + k - 1
  BY <1>1, <1>5 DEF Backwards
<1> QED
  BY <1>2, <1>3, <1>4, <1>5

LEMMA SetStep == ASSUME IInv, memset PROVE IInv'
<1> DEFINE k == d - call.dst
<1>1. /\ call.fn = "memset" /\ n > 0 /\ mem' = [mem EXCEPT ![d] = Filler] /\ d' = d + 1 /\ n' = n - 1
      /\ UNCHANGED <<call, s, old>>
  BY DEF memset
<1>2. Called /\ Pointers /\ mem = Written(Done) /\ ~ Backwards(call)
  BY <1>1 DEF IInv, Writes, MemFn, Backwards
<1>3. call.dst \in Nat /\ call.len \in Nat /\ d \in Nat /\ k \in Nat /\ n \in Nat /\ k + n = call.len
  BY <1>1, <1>2 DEF Pointers, Called, Place, CountDown
<1>4. d \in Cell /\ Wanted(d - call.dst) = Filler
  <2>1. call.dst + k \in Cell
    BY <1>1, <1>2, <1>3, CopyCells
  <2> QED
    BY <1>1, <1>3, <2>1 DEF Wanted
<1>5. mem' = Written(Done)'
  <2>1. PICK y : y = Filler
    OBVIOUS
  <2>2. UNCHANGED <<call, old>> /\ d >= call.dst /\ mem' = [mem EXCEPT ![d] = y]
    BY <1>1, <1>3, <2>1
  <2>3. y = Wanted(d - call.dst)
    BY <1>4, <2>1
  <2> HIDE DEF k
  <2> QED
    BY <1>1, <1>2, <1>3, <1>4, <2>2, <2>3, Forward
<1>6. Called' /\ ~ Backwards(call)'
  BY <1>1, <1>2, SameCall
<1>7. Pointers'
  BY <1>1, <1>3, <1>6 DEF Pointers, Place, CountDown
<1> QED
  BY <1>1, <1>5, <1>6, <1>7 DEF IInv, Writes, Reads

LEMMA CopyStep == ASSUME IInv, memcpy PROVE IInv'
<1> DEFINE k == d - call.dst
<1>1. /\ call.fn = "memcpy" \/ (call.fn = "memmove" /\ ~ Backwards(call))
      /\ n > 0 /\ mem' = [mem EXCEPT ![d] = mem[s]] /\ d' = d + 1 /\ s' = s + 1 /\ n' = n - 1
      /\ UNCHANGED <<call, old>>
  BY DEF memcpy
<1>2. Called /\ Pointers /\ mem = Written(Done) /\ ~ Backwards(call)
  BY <1>1 DEF IInv, Writes, MemFn, Backwards
<1>3. /\ call.dst \in Nat /\ call.src \in Nat /\ call.len \in Nat /\ d \in Nat /\ k \in Nat /\ n \in Nat
      /\ k + n = call.len /\ s = call.src + k
  BY <1>1, <1>2 DEF Pointers, Called, Place, CountDown
<1>4. d \in Cell /\ s \in Cell /\ s \notin Done
  <2>1. /\ call.dst + k \in Cell /\ call.src + k \in Cell
        /\ call.src + k \notin call.dst .. call.dst + k - 1
    BY <1>1, <1>2, <1>3, CopyCells
  <2> QED
    BY <1>2, <1>3, <2>1 DEF Done
<1>5. mem[s] = Wanted(d - call.dst)
  <2>1. mem[s] = old[s]
    BY <1>2, <1>4, ReadsOld
  <2> QED
    BY <1>1, <1>3, <2>1 DEF Wanted
<1>6. mem' = Written(Done)'
  <2>1. PICK y : y = mem[s]
    OBVIOUS
  <2>2. UNCHANGED <<call, old>> /\ d >= call.dst /\ mem' = [mem EXCEPT ![d] = y]
    BY <1>1, <1>3, <2>1
  <2>3. y = Wanted(d - call.dst)
    BY <1>5, <2>1
  <2> HIDE DEF k
  <2> QED
    BY <1>1, <1>2, <1>3, <1>4, <2>2, <2>3, Forward
<1>7. Called' /\ ~ Backwards(call)'
  BY <1>1, <1>2, SameCall
<1>8. Pointers'
  BY <1>1, <1>3, <1>7 DEF Pointers, Place, CountDown
<1> QED
  BY <1>1, <1>6, <1>7, <1>8 DEF IInv, Writes, Reads

LEMMA MoveStep == ASSUME IInv, memmove PROVE IInv'
<1>1. /\ call.fn = "memmove" /\ Backwards(call) /\ n > 0
      /\ mem' = [mem EXCEPT ![d - 1] = mem[s - 1]] /\ d' = d - 1 /\ s' = s - 1 /\ n' = n - 1
      /\ UNCHANGED <<call, old>>
  BY DEF memmove
<1>2. Called /\ Pointers /\ mem = Written(Done)
  BY <1>1 DEF IInv, Writes, MemFn
<1>3. /\ call.dst \in Nat /\ call.src \in Nat /\ call.len \in Nat /\ n \in Nat /\ n <= call.len
      /\ d = call.dst + n /\ s = call.src + n /\ call.src < call.dst
  BY <1>1, <1>2 DEF Pointers, Called, Backwards
<1>4. n - 1 \in Nat /\ n - 1 < call.len /\ d \in Nat /\ d - 1 = call.dst + (n - 1) /\ s - 1 = call.src + (n - 1)
  BY <1>1, <1>3
<1>5. d - 1 \in Cell /\ s - 1 \in Cell /\ s - 1 \notin Done
  <2>1. call.dst + (n - 1) \in Cell /\ call.src + (n - 1) \in Cell
    BY <1>1, <1>2, <1>4, CopyCells
  <2> QED
    BY <1>1, <1>3, <1>4, <2>1 DEF Done
<1>6. mem[s - 1] = Wanted(d - 1 - call.dst)
  <2>1. mem[s - 1] = old[s - 1]
    BY <1>2, <1>5, ReadsOld
  <2>2. d - 1 - call.dst = n - 1
    BY <1>3, <1>4
  <2> QED
    BY <1>1, <1>4, <2>1, <2>2 DEF Wanted
<1>7. mem' = Written(Done)'
  <2>1. PICK y : y = mem[s - 1]
    OBVIOUS
  <2>2. UNCHANGED <<call, old>> /\ d <= call.dst + call.len /\ mem' = [mem EXCEPT ![d - 1] = y]
    BY <1>1, <1>3, <2>1
  <2>3. y = Wanted(d - 1 - call.dst)
    BY <1>6, <2>1
  <2> QED
    BY <1>1, <1>2, <1>3, <1>4, <1>5, <2>2, <2>3, Backward
<1>8. Called' /\ Backwards(call)'
  BY <1>1, <1>2, SameCall
<1>9. Pointers'
  BY <1>1, <1>3, <1>4, <1>8 DEF Pointers
<1> QED
  BY <1>1, <1>7, <1>8, <1>9 DEF IInv, Writes, Reads

\* The same of strcpy, which reads its source up to the terminator.
LEMMA StringCells ==
    ASSUME Called, call.fn = "strcpy", NEW k \in Nat, k <= OldLength
    PROVE  /\ call.dst + k \in Cell /\ call.src + k \in Cell
           /\ call.src + k \notin call.dst .. call.dst + k - 1
           /\ OldLength \in Nat
           /\ old[call.src + k] = NUL <=> k = OldLength
<1>1. /\ call.dst \in Nat /\ call.src \in Nat /\ Terminated(old, call.src)
      /\ Area(call.dst, OldLength + 1) \subseteq Cell
      /\ Area(call.dst, OldLength + 1) \intersect Area(call.src, OldLength + 1) = {}
  BY DEF Called, Callable, OldLength
<1>2. /\ OldLength \in Nat /\ call.src + OldLength \in Cell /\ old[call.src + OldLength] = NUL
      /\ \A pos \in Nat : pos < OldLength => old[call.src + pos] # NUL
  BY <1>1, TerminatedAt DEF OldLength
<1>3. call.dst + k \in Area(call.dst, OldLength + 1) /\ call.src + k \in Area(call.src, OldLength + 1)
  BY <1>1, <1>2, InArea
<1>4. call.src + k \in Cell
  BY <1>1, <1>2, MemAssumption DEF Cell
<1>5. call.src + k \notin call.dst .. call.dst + k - 1
  BY <1>1, <1>2, <1>3 DEF Area
<1>6. old[call.src + k] = NUL <=> k = OldLength
  BY <1>2
<1> QED
  BY <1>1, <1>2, <1>3, <1>4, <1>5, <1>6

LEMMA StringStep == ASSUME IInv, strcpy PROVE IInv'
<1> DEFINE k == d - call.dst
<1>1. /\ call.fn = "strcpy" /\ n > 0 /\ mem' = [mem EXCEPT ![d] = mem[s]]
      /\ n' = (IF mem[s] = NUL THEN 0 ELSE 1) /\ d' = d + 1 /\ s' = s + 1
      /\ UNCHANGED <<call, old>>
  BY DEF strcpy
<1>2. Called /\ Pointers /\ mem = Written(Done) /\ ~ Backwards(call)
  BY <1>1 DEF IInv, Writes, MemFn, Backwards
<1>3. /\ call.dst \in Nat /\ call.src \in Nat /\ d \in Nat /\ k \in Nat
      /\ k <= OldLength /\ s = call.src + k
  BY <1>1, <1>2 DEF Pointers, Called, Place
<1>4. /\ d \in Cell /\ s \in Cell /\ s \notin Done /\ OldLength \in Nat
      /\ old[s] = NUL <=> k = OldLength
  <2>1. /\ call.dst + k \in Cell /\ call.src + k \in Cell /\ OldLength \in Nat
        /\ call.src + k \notin call.dst .. call.dst + k - 1
        /\ old[call.src + k] = NUL <=> k = OldLength
    BY <1>1, <1>2, <1>3, StringCells
  <2> QED
    BY <1>2, <1>3, <2>1 DEF Done
<1>5. mem[s] = old[s]
  BY <1>2, <1>4, ReadsOld
<1>6. mem[s] = Wanted(d - call.dst)
  BY <1>1, <1>3, <1>5 DEF Wanted
<1>7. mem' = Written(Done)'
  <2>1. PICK y : y = mem[s]
    OBVIOUS
  <2>2. UNCHANGED <<call, old>> /\ d >= call.dst /\ mem' = [mem EXCEPT ![d] = y]
    BY <1>1, <1>3, <2>1
  <2>3. y = Wanted(d - call.dst)
    BY <1>6, <2>1
  <2> HIDE DEF k
  <2> QED
    BY <1>1, <1>2, <1>3, <1>4, <2>2, <2>3, Forward
<1>8. Called' /\ ~ Backwards(call)' /\ OldLength' = OldLength
  BY <1>1, <1>2, SameCall
<1>9. Pointers'
  <2>1. d' - call'.dst = k + 1 /\ d' \in Nat /\ d' >= call'.dst /\ s' = call'.src + (k + 1)
    BY <1>1, <1>3
  <2>2. \/ n' = 1 /\ k + 1 <= OldLength'
        \/ n' = 0 /\ k + 1 = OldLength' + 1
    BY <1>1, <1>3, <1>4, <1>5, <1>8
  <2> HIDE DEF k
  <2> QED
    BY <1>1, <1>8, <2>1, <2>2 DEF Pointers, Place
<1> QED
  BY <1>1, <1>7, <1>8, <1>9 DEF IInv, Writes, Reads

\* The same of strncpy: its source is read up to the terminator, and that again.
LEMMA PaddedCells ==
    ASSUME Called, call.fn = "strncpy", NEW k \in Nat, k < call.len,
           NEW j, j = IF k <= OldLength THEN k ELSE OldLength
    PROVE  /\ call.dst + k \in Cell /\ call.src + j \in Cell
           /\ call.src + j \notin call.dst .. call.dst + k - 1
           /\ OldLength \in Nat
           /\ old[call.src + j] = NUL <=> j = OldLength
<1> DEFINE size == Least({call.len, OldLength + 1})
<1>1. /\ call.dst \in Nat /\ call.src \in Nat /\ call.len \in Nat /\ Terminated(old, call.src)
      /\ Area(call.dst, call.len) \subseteq Cell
      /\ Area(call.dst, call.len) \intersect Area(call.src, size) = {}
  BY DEF Called, Callable, OldLength
<1>2. /\ OldLength \in Nat /\ call.src + OldLength \in Cell /\ old[call.src + OldLength] = NUL
      /\ \A pos \in Nat : pos < OldLength => old[call.src + pos] # NUL
  BY <1>1, TerminatedAt DEF OldLength
<1>3. j \in Nat /\ j < size /\ size \in Nat
  <2>1. {call.len, OldLength + 1} \subseteq Nat
    BY <1>1, <1>2
  <2>2. size \in {call.len, OldLength + 1}
    BY <2>1, LeastNumber
  <2> HIDE DEF size
  <2> QED
    BY <1>1, <1>2, <2>2
<1> HIDE DEF size
<1>4. call.dst + k \in Area(call.dst, call.len) /\ call.src + j \in Area(call.src, size)
  BY <1>1, <1>3, InArea
<1>5. call.src + j \in Cell
  BY <1>1, <1>2, <1>3, MemAssumption DEF Cell
<1>6. call.src + j \notin call.dst .. call.dst + k - 1
  <2>1. call.src + j \notin Area(call.dst, call.len)
    BY <1>1, <1>4
  <2> QED
    BY <1>1, <1>3, <2>1 DEF Area
<1>7. old[call.src + j] = NUL <=> j = OldLength
  BY <1>2, <1>3
<1> QED
  BY <1>1, <1>2, <1>4, <1>5, <1>6, <1>7

LEMMA PadStep == ASSUME IInv, strncpy PROVE IInv'
<1> DEFINE k == d - call.dst
<1>1. /\ call.fn = "strncpy" /\ n > 0 /\ mem' = [mem EXCEPT ![d] = mem[s]]
      /\ s' = (IF mem[s] # NUL THEN s + 1 ELSE s) /\ d' = d + 1 /\ n' = n - 1
      /\ UNCHANGED <<call, old>>
  BY DEF strncpy
<1>2. Called /\ Pointers /\ mem = Written(Done) /\ ~ Backwards(call)
  BY <1>1 DEF IInv, Writes, MemFn, Backwards
<1>3. PICK j : j = IF k <= OldLength THEN k ELSE OldLength
  OBVIOUS
<1>4. /\ call.dst \in Nat /\ call.src \in Nat /\ call.len \in Nat /\ d \in Nat /\ k \in Nat /\ n \in Nat
      /\ k + n = call.len /\ s = call.src + j
  BY <1>1, <1>2, <1>3 DEF Pointers, Called, Place, CountDown
<1>5. /\ d \in Cell /\ s \in Cell /\ s \notin Done /\ OldLength \in Nat
      /\ old[s] = NUL <=> j = OldLength
  <2>1. k < call.len
    BY <1>1, <1>4
  <2>2. /\ call.dst + k \in Cell /\ call.src + j \in Cell /\ OldLength \in Nat
        /\ call.src + j \notin call.dst .. call.dst + k - 1
        /\ old[call.src + j] = NUL <=> j = OldLength
    BY <1>1, <1>2, <1>3, <1>4, <2>1, PaddedCells
  <2>3. d = call.dst + k /\ Done = call.dst .. call.dst + k - 1
    BY <1>2, <1>4 DEF Done
  <2> HIDE DEF k
  <2> QED
    BY <1>4, <2>2, <2>3
<1>6. mem[s] = old[s]
  BY <1>2, <1>5, ReadsOld
<1>7. mem[s] = Wanted(d - call.dst)
  BY <1>1, <1>3, <1>4, <1>5, <1>6 DEF Wanted
<1>8. mem' = Written(Done)'
  <2>1. PICK y : y = mem[s]
    OBVIOUS
  <2>2. UNCHANGED <<call, old>> /\ d >= call.dst /\ mem' = [mem EXCEPT ![d] = y]
    BY <1>1, <1>4, <2>1
  <2>3. y = Wanted(d - call.dst)
    BY <1>7, <2>1
  <2> HIDE DEF k
  <2> QED
    BY <1>1, <1>2, <1>4, <1>5, <2>2, <2>3, Forward
<1>9. Called' /\ ~ Backwards(call)' /\ OldLength' = OldLength
  BY <1>1, <1>2, SameCall
<1>10. Pointers'
  <2>1. d' - call'.dst = k + 1 /\ d' \in Nat /\ d' >= call'.dst
    BY <1>1, <1>4
  <2>2. n' \in Nat /\ (k + 1) + n' = call'.len
    BY <1>1, <1>4
  <2>3. s' = call'.src + (IF k + 1 <= OldLength' THEN k + 1 ELSE OldLength')
    BY <1>1, <1>3, <1>4, <1>5, <1>6, <1>9
  <2> HIDE DEF k
  <2> QED
    BY <1>1, <1>9, <2>1, <2>2, <2>3 DEF Pointers, Place, CountDown
<1> QED
  BY <1>1, <1>8, <1>9, <1>10 DEF IInv, Writes, Reads

\* A call starts with nothing written.
LEMMA CallInv == ASSUME IInv, AnyWrite PROVE IInv'
<1>1. PICK fn \in MemFn, m \in [Cell -> Char], dst \in Nat, src \in Nat, len \in Nat :
        (fn = "strcpy" => len = 1) /\ MemCall(Call(fn, dst, src, len), m)
  BY DEF AnyWrite
<1> DEFINE c == Call(fn, dst, src, len)
<1>2. c.fn = fn /\ c.dst = dst /\ c.src = src /\ c.len = len
  BY DEF Call
<1>3. c = Call(c.fn, c.dst, c.src, c.len)
  BY <1>2
<1> HIDE DEF c
<1>4. /\ Callable(c, m) /\ call' = c /\ n' = len /\ mem' = m /\ old' = m
      /\ d' = IF Backwards(c) THEN dst + len ELSE dst
      /\ s' = IF Backwards(c) THEN src + len ELSE src
  BY <1>1, <1>2 DEF MemCall, c
<1>5. Called'
  BY <1>2, <1>3, <1>4 DEF Called
<1>6. Backwards(call)' = Backwards(c)
  BY <1>4 DEF Backwards
<1>7. mem' = Written(Done)'
  <2>1. Done' = {}
    BY <1>2, <1>4, <1>6 DEF Done
  <2> QED
    BY <1>4, <2>1 DEF Written
<1>8. fn = "strcpy" => OldLength' \in Nat
  <2>1. ASSUME fn = "strcpy" PROVE OldLength' \in Nat
    <3>1. Terminated(m, src)
      BY <1>2, <1>4, <2>1 DEF Callable
    <3>2. Length(m, src) \in Nat
      BY <3>1, TerminatedAt
    <3> QED
      BY <1>2, <1>4, <3>2 DEF OldLength, Length
  <2> QED
    BY <2>1
<1>9. fn = "strncpy" => OldLength' \in Nat
  <2>1. ASSUME fn = "strncpy" PROVE OldLength' \in Nat
    <3>1. Terminated(m, src)
      BY <1>2, <1>4, <2>1 DEF Callable
    <3>2. Length(m, src) \in Nat
      BY <3>1, TerminatedAt
    <3> QED
      BY <1>2, <1>4, <3>2 DEF OldLength, Length
  <2> QED
    BY <2>1
<1>10. Pointers'
  <2>1. CASE Backwards(c)
    BY <1>2, <1>4, <1>6, <2>1 DEF Pointers
  <2>2. CASE ~ Backwards(c)
    <3>1. d' = dst /\ s' = src /\ n' = len /\ call'.dst = dst /\ call'.src = src /\ call'.len = len
          /\ call'.fn = fn
      BY <1>2, <1>4, <2>2
    <3>2. CountDown(0)' /\ s' = call'.src + 0
      BY <3>1 DEF CountDown
    <3>3. Place(0)'
      BY <1>1, <1>8, <1>9, <3>1, <3>2 DEF Place
    <3>4. d' - call'.dst = 0 /\ d' \in Nat /\ d' >= call'.dst
      BY <3>1
    <3> QED
      BY <1>6, <2>2, <3>3, <3>4 DEF Pointers
  <2> QED
    BY <2>1, <2>2
<1>11. call'.fn # "read"
  BY <1>2, <1>4 DEF MemFn
<1> QED
  BY <1>5, <1>7, <1>10, <1>11 DEF IInv, Writes, Reads

LEMMA ReadInv == ASSUME IInv, AnyRead PROVE IInv'
<1>1. PICK s1 \in Text, s2 \in Text, len \in Nat, c \in Char :
        call' = [fn |-> "read", s1 |-> s1, s2 |-> s2, len |-> len, c |-> c]
  BY DEF AnyRead, ReadCall
<1>2. /\ call'.fn = "read" /\ call'.s1 \in Text /\ call'.s2 \in Text
      /\ call'.len \in Nat /\ call'.c \in Char
  BY <1>1
<1> QED
  BY <1>2 DEF IInv, Writes, Reads, MemFn

LEMMA NextInv == IInv /\ [MemNext]_memvars => IInv'
<1> SUFFICES ASSUME IInv, [MemNext]_memvars PROVE IInv'
  OBVIOUS
<1>1. CASE AnyRead
  BY <1>1, ReadInv
<1>2. CASE AnyWrite
  BY <1>2, CallInv
<1>3. CASE MemLoop
  BY <1>3, SetStep, CopyStep, MoveStep, StringStep, PadStep DEF MemLoop
<1>4. CASE call' = None
  BY <1>4 DEF IInv, Writes, Reads, None, MemFn
<1>5. CASE UNCHANGED memvars
  <2>1. Called' = Called /\ Pointers' = Pointers /\ Written(Done)' = Written(Done)
    BY <1>5 DEF memvars, Called, Callable, Pointers, Place, CountDown, OldLength, Backwards,
                Done, Written, Wanted
  <2> QED
    BY <1>5, <2>1 DEF IInv, Writes, Reads, memvars
<1> QED
  BY <1>1, <1>2, <1>3, <1>4, <1>5 DEF MemNext, ReadReturn, MemReturn

LEMMA Invariance == MemSpec => []IInv
<1>1. MemInit => IInv
  BY DEF MemInit, IInv, Writes, Reads, None, MemFn
<1> QED
  BY <1>1, NextInv, PTL DEF MemSpec

\* When the last cell is written, the whole area is.
LEMMA AllWritten == ASSUME IInv PROVE CopiesExactly
<1> SUFFICES ASSUME call.fn \in MemFn, n = 0
             PROVE  mem = [a \in Cell |-> IF a \in Area(call.dst, Size) THEN Wanted(a - call.dst)
                                          ELSE old[a]]
  BY DEF CopiesExactly, Returned
<1>1. Called /\ Pointers /\ mem = Written(Done)
  BY DEF IInv, Writes
<1>2. call.dst \in Nat /\ call.len \in Nat
  BY <1>1 DEF Called
<1>3. Done = Area(call.dst, Size)
  <2>1. CASE Backwards(call)
    BY <1>1, <1>2, <2>1 DEF Pointers, Done, Area, Size, Backwards
  <2>2. CASE ~ Backwards(call)
    <3>1. d \in Nat /\ Place(d - call.dst)
      BY <1>1, <2>2 DEF Pointers
    <3>2. d - call.dst = Size
      <4>1. CASE call.fn = "strcpy"
        BY <3>1, <4>1 DEF Place, Size
      <4>2. CASE call.fn # "strcpy"
        BY <1>2, <3>1, <4>2 DEF Place, Size, CountDown, MemFn
      <4> QED
        BY <4>1, <4>2
    <3> QED
      BY <1>2, <2>2, <3>1, <3>2 DEF Done, Area
  <2> QED
    BY <2>1, <2>2
<1> QED
  BY <1>1, <1>3 DEF Written

\* memset, memcpy, memmove, strcpy and strncpy leave in memory of any size what they
\* promise, for any contents and any call their callers may make.
THEOREM MemoryCopiedExactly == MemSpec => []CopiesExactly
BY Invariance, AllWritten, PTL

-----------------------------------------------------------------------------
(* The functions that read *)

\* Every character has a code of its own.
LEMMA Codes ==
    /\ NUL \in Char
    /\ \A c \in Char : ord[c] \in Int /\ Alphabet[ord[c]] = c
<1>1. Alphabet[1] = NUL /\ 1 \in 1 .. Len(Alphabet)
  BY DEF Alphabet
<1>2. ASSUME NEW c \in Char PROVE ord[c] \in Int /\ Alphabet[ord[c]] = c
  <2>1. ord[c] = CHOOSE pos \in 1 .. Len(Alphabet) : Alphabet[pos] = c
    BY DEF ord
  <2>2. \E pos \in 1 .. Len(Alphabet) : Alphabet[pos] = c
    BY DEF Char
  <2>3. ord[c] \in 1 .. Len(Alphabet) /\ Alphabet[ord[c]] = c
    BY <2>1, <2>2
  <2> QED
    BY <2>3
<1> QED
  BY <1>1, <1>2 DEF Char

\* A string has a terminator behind its last character and nowhere else.
LEMMA Characters ==
    ASSUME NEW a \in Text, NEW pos \in Nat \ {0}
    PROVE  /\ CharAt(a, pos) \in Char
           /\ CharAt(a, pos) = NUL <=> pos > Len(a)
           /\ Len(a) \in Nat
<1>1. Len(a) \in Nat /\ \A j \in 1 .. Len(a) : a[j] \in Char \ {NUL}
  BY DEF Text
<1> QED
  BY <1>1, Codes DEF CharAt

\* Strings that read the same at every place up to one are equal up to there.
LEMMA SameText ==
    ASSUME NEW a \in Text, NEW t \in Text, Len(a) = Len(t), \A pos \in 1 .. Len(a) : a[pos] = t[pos]
    PROVE  a = t
BY SeqEqual DEF Text

\* Where a comparison stops, and what it has seen there.
StopsAt(a, t, p) ==
    /\ p \in Nat \ {0} /\ p <= Len(a) + 1 /\ p <= Len(t) + 1
    /\ CharAt(a, p) = NUL \/ CharAt(a, p) # CharAt(t, p)
    /\ \A pos \in 1 .. p - 1 : CharAt(a, pos) = CharAt(t, pos) /\ pos <= Len(a) /\ pos <= Len(t)

LEMMA Stops == ASSUME NEW a \in Text, NEW t \in Text PROVE StopsAt(a, t, Stop(a, t))
<1> DEFINE T == {pos \in 1 .. Len(a) + 1 : CharAt(a, pos) = NUL \/ CharAt(a, pos) # CharAt(t, pos)}
           p == Least(T)
<1>1. Len(a) \in Nat /\ Len(t) \in Nat
  BY DEF Text
<1>2. CharAt(a, Len(a) + 1) = NUL
  BY <1>1, Characters
<1>3. T \subseteq Nat /\ T # {}
  BY <1>1, <1>2
<1>4. p \in T /\ \A pos \in T : p <= pos
  BY <1>3, LeastNumber
<1>5. Stop(a, t) = p
  BY DEF Stop
<1> HIDE DEF p
<1>6. /\ p \in Nat \ {0} /\ p <= Len(a) + 1
      /\ CharAt(a, p) = NUL \/ CharAt(a, p) # CharAt(t, p)
  BY <1>1, <1>4
<1>7. ASSUME NEW pos \in 1 .. p - 1 PROVE CharAt(a, pos) = CharAt(t, pos) /\ pos <= Len(a) /\ pos <= Len(t)
  <2>1. pos \in Nat \ {0} /\ pos <= Len(a) /\ pos < p
    BY <1>1, <1>6
  <2>2. pos \notin T
    BY <1>1, <1>4, <1>6, <2>1
  <2>3. CharAt(a, pos) # NUL /\ CharAt(a, pos) = CharAt(t, pos)
    BY <1>1, <2>1, <2>2
  <2>4. pos <= Len(t)
    BY <1>1, <2>1, <2>3, Characters
  <2> QED
    BY <2>1, <2>3, <2>4
<1>8. p <= Len(t) + 1
  <2>1. CASE p = 1
    BY <1>1, <2>1
  <2>2. CASE p # 1
    <3>1. p - 1 \in 1 .. p - 1
      BY <1>6, <2>2
    <3>2. p - 1 <= Len(t)
      BY <1>7, <3>1
    <3> QED
      BY <1>1, <1>6, <3>2
  <2> QED
    BY <2>1, <2>2
<1> QED
  BY <1>5, <1>6, <1>7, <1>8 DEF StopsAt

\* It stops at one place only.
LEMMA OneStop ==
    ASSUME NEW a \in Text, NEW t \in Text, NEW p, NEW q, StopsAt(a, t, p), StopsAt(a, t, q)
    PROVE  p = q
<1>1. p \in Nat \ {0} /\ q \in Nat \ {0}
  BY DEF StopsAt
<1>2. ~ (p < q)
  <2> SUFFICES ASSUME p < q PROVE FALSE
    OBVIOUS
  <2>1. p \in 1 .. q - 1
    BY <1>1
  <2>2. CharAt(a, p) = CharAt(t, p) /\ p <= Len(a)
    BY <2>1 DEF StopsAt
  <2> QED
    BY <1>1, <2>2, Characters DEF StopsAt
<1>3. ~ (q < p)
  <2> SUFFICES ASSUME q < p PROVE FALSE
    OBVIOUS
  <2>1. q \in 1 .. p - 1
    BY <1>1
  <2>2. CharAt(a, q) = CharAt(t, q) /\ q <= Len(a)
    BY <2>1 DEF StopsAt
  <2> QED
    BY <1>1, <2>2, Characters DEF StopsAt
<1> QED
  BY <1>1, <1>2, <1>3

\* The order of the strings does not matter to where it stops.
LEMMA StopBack == ASSUME NEW a \in Text, NEW t \in Text PROVE Stop(t, a) = Stop(a, t)
<1> DEFINE p == Stop(a, t)
<1>1. StopsAt(a, t, p) /\ StopsAt(t, a, Stop(t, a))
  BY Stops
<1> HIDE DEF p
<1>2. CharAt(t, p) = NUL \/ CharAt(t, p) # CharAt(a, p)
  BY <1>1 DEF StopsAt
<1>3. StopsAt(t, a, p)
  BY <1>1, <1>2 DEF StopsAt
<1> QED
  BY <1>1, <1>3, OneStop DEF p

LEMMA StrcmpOrders ==
    ASSUME NEW a \in Text, NEW t \in Text
    PROVE  /\ strcmp(a, t) = 0 <=> a = t
           /\ strcmp(t, a) = - strcmp(a, t)
           /\ strcmp(a, t) \in Int
<1> DEFINE p == Stop(a, t)
<1>1. StopsAt(a, t, p)
  BY Stops
<1>2. strcmp(a, t) = ord[CharAt(a, p)] - ord[CharAt(t, p)]
  BY DEF strcmp, Difference
<1>3. strcmp(t, a) = ord[CharAt(t, p)] - ord[CharAt(a, p)]
  BY StopBack DEF strcmp, Difference
<1> HIDE DEF p
<1>4. p \in Nat \ {0} /\ CharAt(a, p) \in Char /\ CharAt(t, p) \in Char
  BY <1>1, Characters DEF StopsAt
<1>5. ord[CharAt(a, p)] \in Int /\ ord[CharAt(t, p)] \in Int
  BY <1>4, Codes
<1>6. strcmp(a, t) = 0 => CharAt(a, p) = CharAt(t, p)
  <2>1. ASSUME strcmp(a, t) = 0 PROVE CharAt(a, p) = CharAt(t, p)
    <3>1. ord[CharAt(a, p)] = ord[CharAt(t, p)]
      BY <1>2, <1>5, <2>1
    <3> QED
      BY <1>4, <3>1, Codes
  <2> QED
    BY <2>1
<1>7. ASSUME CharAt(a, p) = CharAt(t, p) PROVE a = t
  <2>1. CharAt(a, p) = NUL /\ CharAt(t, p) = NUL
    BY <1>1, <1>7 DEF StopsAt
  <2>2. Len(a) \in Nat /\ Len(t) \in Nat /\ p > Len(a) /\ p > Len(t)
    BY <1>4, <2>1, Characters
  <2>3. p = Len(a) + 1 /\ p = Len(t) + 1
    BY <1>1, <1>4, <2>2 DEF StopsAt
  <2>4. Len(a) = Len(t)
    BY <2>2, <2>3
  <2>5. ASSUME NEW pos \in 1 .. Len(a) PROVE a[pos] = t[pos]
    <3>1. pos \in 1 .. p - 1
      BY <2>2, <2>3
    <3>2. CharAt(a, pos) = CharAt(t, pos) /\ pos <= Len(a) /\ pos <= Len(t)
      BY <1>1, <3>1 DEF StopsAt
    <3> QED
      BY <3>2 DEF CharAt
  <2> QED
    BY <2>4, <2>5, SameText
<1>8. a = t => strcmp(a, t) = 0
  BY <1>2, <1>5
<1> QED
  BY <1>2, <1>3, <1>5, <1>6, <1>7, <1>8

\* The first len characters of a string read as the string does up to there.
LEMMA FirstReads ==
    ASSUME NEW a \in Text, NEW len \in Nat
    PROVE  /\ First(a, len) \in Text
           /\ Len(First(a, len)) <= len /\ Len(First(a, len)) <= Len(a)
           /\ Len(First(a, len)) = len \/ Len(First(a, len)) = Len(a)
           /\ \A pos \in 1 .. len : CharAt(First(a, len), pos) = CharAt(a, pos)
<1> DEFINE l == strnlen(a, len)
<1>1. Len(a) \in Nat /\ a \in Seq(Char \ {NUL})
  BY DEF Text
<1>2. l \in {Len(a), len} /\ l <= Len(a) /\ l <= len
  BY <1>1, LeastNumber DEF strnlen, strlen
<1>3. First(a, len) = SubSeq(a, 1, l)
  BY DEF First
<1> HIDE DEF l
<1>4. /\ SubSeq(a, 1, l) \in Seq(Char \ {NUL}) /\ Len(SubSeq(a, 1, l)) = l
      /\ \A pos \in 1 .. l : SubSeq(a, 1, l)[pos] = a[pos]
  BY <1>1, <1>2, SubSeqProperties
<1>5. ASSUME NEW pos \in 1 .. len PROVE CharAt(SubSeq(a, 1, l), pos) = CharAt(a, pos)
  <2>1. CASE pos <= l
    BY <1>1, <1>2, <1>4, <2>1 DEF CharAt
  <2>2. CASE ~ (pos <= l)
    <3>1. l = Len(a)
      BY <1>1, <1>2, <2>2
    <3> QED
      BY <1>1, <1>4, <2>2, <3>1 DEF CharAt
  <2> QED
    BY <2>1, <2>2
<1> QED
  BY <1>1, <1>2, <1>3, <1>4, <1>5 DEF Text

\* strncmp is strcmp of the first len characters.
LEMMA StrncmpCompares ==
    ASSUME NEW a \in Text, NEW t \in Text, NEW len \in Nat
    PROVE  strncmp(a, t, len) = strcmp(First(a, len), First(t, len))
<1> DEFINE p == Stop(a, t)
           x == First(a, len)
           y == First(t, len)
<1>1. StopsAt(a, t, p)
  BY Stops
<1>2. strncmp(a, t, len) = IF p > len THEN 0 ELSE Difference(a, t, p)
  BY DEF strncmp
<1>3. /\ x \in Text /\ Len(x) <= len /\ Len(x) <= Len(a) /\ (Len(x) = len \/ Len(x) = Len(a))
      /\ \A pos \in 1 .. len : CharAt(x, pos) = CharAt(a, pos)
  BY FirstReads
<1>4. /\ y \in Text /\ Len(y) <= len /\ Len(y) <= Len(t) /\ (Len(y) = len \/ Len(y) = Len(t))
      /\ \A pos \in 1 .. len : CharAt(y, pos) = CharAt(t, pos)
  BY FirstReads
<1> HIDE DEF p, x, y
<1>5. p \in Nat \ {0} /\ Len(a) \in Nat /\ Len(t) \in Nat /\ Len(x) \in Nat /\ Len(y) \in Nat
  BY <1>1, <1>3, <1>4 DEF StopsAt, Text
<1>6. CASE p > len
  <2>1. ASSUME NEW pos \in 1 .. len PROVE CharAt(a, pos) = CharAt(t, pos) /\ pos <= Len(a) /\ pos <= Len(t)
    <3>1. pos \in 1 .. p - 1
      BY <1>5, <1>6
    <3> QED
      BY <1>1, <3>1 DEF StopsAt
  <2>2. len <= Len(a) /\ len <= Len(t)
    <3>1. CASE len = 0
      BY <1>5, <3>1
    <3>2. CASE len # 0
      <4>1. len \in 1 .. len
        BY <3>2
      <4> QED
        BY <2>1, <4>1
    <3> QED
      BY <3>1, <3>2
  <2>3. Len(x) = len /\ Len(y) = len
    BY <1>3, <1>4, <1>5, <2>2
  <2>4. ASSUME NEW pos \in 1 .. Len(x) PROVE x[pos] = y[pos]
    <3>1. CharAt(x, pos) = CharAt(y, pos)
      BY <1>3, <1>4, <2>1, <2>3
    <3> QED
      BY <2>3, <3>1 DEF CharAt
  <2>5. x = y
    BY <1>3, <1>4, <2>3, <2>4, SameText
  <2> QED
    BY <1>2, <1>3, <1>4, <1>6, <2>5, StrcmpOrders DEF x, y
<1>7. CASE ~ (p > len)
  <2>1. p \in 1 .. len
    BY <1>5, <1>7
  <2>2. CharAt(x, p) = CharAt(a, p) /\ CharAt(y, p) = CharAt(t, p)
    BY <1>3, <1>4, <2>1
  <2>3. p <= Len(x) + 1 /\ p <= Len(y) + 1
    BY <1>1, <1>3, <1>4, <1>5, <2>1 DEF StopsAt
  <2>4. ASSUME NEW pos \in 1 .. p - 1
        PROVE  CharAt(x, pos) = CharAt(y, pos) /\ pos <= Len(x) /\ pos <= Len(y)
    <3>1. CharAt(a, pos) = CharAt(t, pos) /\ pos <= Len(a) /\ pos <= Len(t)
      BY <1>1 DEF StopsAt
    <3>2. pos \in 1 .. len /\ pos < len
      BY <1>5, <2>1
    <3> QED
      BY <1>3, <1>4, <1>5, <3>1, <3>2
  <2>5. StopsAt(x, y, p)
    BY <1>1, <1>5, <2>2, <2>3, <2>4 DEF StopsAt
  <2>6. Stop(x, y) = p
    BY <1>3, <1>4, <2>5, Stops, OneStop
  <2>7. strcmp(x, y) = Difference(a, t, p)
    BY <2>2, <2>6 DEF strcmp, Difference
  <2> QED
    BY <1>2, <1>7, <2>7 DEF x, y
<1> QED
  BY <1>6, <1>7

\* memcmp compares as strncmp does if no string ends among the first len characters.
LEMMA MemcmpCompares ==
    ASSUME NEW a \in Text, NEW t \in Text, NEW len \in Nat, len <= Len(a), len <= Len(t)
    PROVE  memcmp(a, t, len) = strncmp(a, t, len)
<1> DEFINE p == Stop(a, t)
           T == {pos \in 1 .. len : CharAt(a, pos) # CharAt(t, pos)}
<1>1. StopsAt(a, t, p)
  BY Stops
<1>2. strncmp(a, t, len) = IF p > len THEN 0 ELSE Difference(a, t, p)
  BY DEF strncmp
<1>3. memcmp(a, t, len) = IF T = {} THEN 0 ELSE Difference(a, t, Least(T))
  BY DEF memcmp
<1> HIDE DEF p
<1>4. p \in Nat \ {0} /\ Len(a) \in Nat /\ Len(t) \in Nat
  BY <1>1 DEF StopsAt, Text
<1>5. \A pos \in 1 .. p - 1 : CharAt(a, pos) = CharAt(t, pos)
  BY <1>1 DEF StopsAt
<1>6. CASE p > len
  <2>1. T = {}
    BY <1>4, <1>5, <1>6
  <2> QED
    BY <1>2, <1>3, <1>6, <2>1
<1>7. CASE ~ (p > len)
  <2>1. p \in 1 .. len /\ p <= Len(a)
    BY <1>4, <1>7
  <2>2. CharAt(a, p) # NUL
    BY <1>4, <2>1, Characters
  <2>3. p \in T
    BY <1>1, <2>1, <2>2 DEF StopsAt
  <2>4. \A pos \in T : p <= pos
    BY <1>4, <1>5
  <2>5. T \subseteq Nat
    OBVIOUS
  <2> HIDE DEF T
  <2>6. Least(T) = p
    BY <2>3, <2>4, <2>5, LeastIs
  <2> QED
    BY <1>2, <1>3, <1>7, <2>3, <2>6
<1> QED
  BY <1>6, <1>7

\* strfind and strchr find the first place of a character, or the end.
LEMMA Finds ==
    ASSUME NEW a \in Text, NEW c \in Char
    PROVE  IF strchr(a, c) = NULL
           THEN /\ strfind(a, c) = strlen(a) + 1
                /\ c \notin {a[pos] : pos \in 1 .. Len(a)}
           ELSE /\ strfind(a, c) = strchr(a, c)
                /\ a[strchr(a, c)] = c
                /\ c \notin {a[pos] : pos \in 1 .. strchr(a, c) - 1}
<1> DEFINE T == {pos \in 1 .. Len(a) + 1 : CharAt(a, pos) \in {c, NUL}}
           f == strfind(a, c)
<1>1. Len(a) \in Nat
  BY DEF Text
<1>2. CharAt(a, Len(a) + 1) = NUL
  BY <1>1, Characters
<1>3. T \subseteq Nat /\ T # {}
  BY <1>1, <1>2
<1>4. f = Least(T)
  BY DEF strfind
<1>5. f \in T /\ \A pos \in T : f <= pos
  BY <1>3, <1>4, LeastNumber
<1>6. strchr(a, c) = IF CharAt(a, f) = NUL THEN NULL ELSE f
  BY DEF strchr
<1> HIDE DEF f
<1>7. f \in 1 .. Len(a) + 1 /\ CharAt(a, f) \in {c, NUL} /\ f # NULL /\ f \in Nat \ {0}
  BY <1>1, <1>5 DEF NULL
<1>8. ASSUME NEW pos \in 1 .. f - 1 PROVE pos <= Len(a) /\ a[pos] # c
  <2>1. pos \in 1 .. Len(a) + 1 /\ pos <= Len(a) /\ pos < f
    BY <1>1, <1>7
  <2>2. pos \notin T
    BY <1>1, <1>5, <1>7, <2>1
  <2> QED
    BY <2>1, <2>2 DEF CharAt
<1>9. CASE CharAt(a, f) = NUL
  <2>1. f = Len(a) + 1
    BY <1>1, <1>7, <1>9, Characters
  <2>2. strchr(a, c) = NULL
    BY <1>6, <1>9
  <2>3. c \notin {a[pos] : pos \in 1 .. Len(a)}
    BY <1>1, <1>8, <2>1
  <2> QED
    BY <2>1, <2>2, <2>3 DEF f, strlen
<1>10. CASE CharAt(a, f) # NUL
  <2>1. strchr(a, c) = f /\ strchr(a, c) # NULL
    BY <1>6, <1>7, <1>10
  <2>2. a[f] = c
    BY <1>7, <1>10 DEF CharAt
  <2>3. c \notin {a[pos] : pos \in 1 .. f - 1}
    BY <1>8
  <2> QED
    BY <2>1, <2>2, <2>3 DEF f
<1> QED
  BY <1>9, <1>10

\* The reading functions agree with each other for all strings, counts and characters.
THEOREM ReadingAgrees == MemSpec => []ReadsAgree
<1>1. ASSUME IInv PROVE ReadsAgree
  <2> SUFFICES ASSUME call.fn = "read" PROVE ReadsAgree
    BY DEF ReadsAgree
  <2>1. PICK a \in Text, t \in Text, len \in Nat, c \in Char :
          a = call.s1 /\ t = call.s2 /\ len = call.len /\ c = call.c
    BY <1>1 DEF IInv, Reads
  <2>2. strcmp(a, t) = 0 <=> a = t
    BY StrcmpOrders
  <2>3. Sgn(strcmp(a, t)) = - Sgn(strcmp(t, a))
    BY StrcmpOrders DEF Sgn
  <2>4. Sgn(strncmp(a, t, len)) = Sgn(strcmp(First(a, len), First(t, len)))
    BY StrncmpCompares
  <2>5. len <= strlen(a) /\ len <= strlen(t) => memcmp(a, t, len) = strncmp(a, t, len)
    BY MemcmpCompares DEF strlen
  <2> QED
    BY <2>1, <2>2, <2>3, <2>4, <2>5, Finds DEF ReadsAgree
<1> QED
  BY <1>1, Invariance, PTL

-----------------------------------------------------------------------------
(* Formatted output: the characters it is made of *)

\* Concatenation, under a name of its own.
Joined(u, v) == u \o v

\* The characters of both,
LEMMA JoinedText ==
    ASSUME NEW S, NEW u \in Seq(S), NEW v \in Seq(S)
    PROVE  Joined(u, v) \in Seq(S)
BY ConcatProperties, Zenon DEF Joined

\* as many as both have,
LEMMA JoinedLength ==
    ASSUME NEW S, NEW u \in Seq(S), NEW v \in Seq(S)
    PROVE  Len(Joined(u, v)) = Len(u) + Len(v)
BY ConcatProperties, Zenon DEF Joined

\* those of the first in front.
LEMMA JoinedAt ==
    ASSUME NEW S, NEW u \in Seq(S), NEW v \in Seq(S), NEW k \in 1 .. Len(u) + Len(v)
    PROVE  Joined(u, v)[k] = IF k <= Len(u) THEN u[k] ELSE v[k - Len(u)]
BY ConcatProperties, Zenon DEF Joined

\* A single character is put as a text.
LEMMA OneCharacter == ASSUME NEW c \in Char PROVE <<c>> \in Seq(Char)
OBVIOUS

\* Padding is text.
LEMMA CopiesText == ASSUME NEW c \in Char, NEW k \in Int PROVE Copies(c, k) \in Seq(Char)
<1> DEFINE l == IF k > 0 THEN k ELSE 0
<1>1. l \in Nat
  OBVIOUS
<1>2. Copies(c, k) = [j \in 1 .. l |-> c]
  BY DEF Copies
<1> HIDE DEF l
<1> QED
  BY <1>1, <1>2

\* The codes of the terminator and of the first digit and letter.
LEMMA AlphabetPlaces == 1 .. Len(Alphabet) = 1 .. 44
BY DEF Alphabet

\* Three characters and their only codes.
LEMMA SomeCodes ==
    /\ Alphabet[1] = NUL /\ \A k \in 2 .. 44 : Alphabet[k] # NUL
    /\ Alphabet[14] = "0" /\ \A k \in 1 .. 44 : Alphabet[k] = "0" => k = 14
    /\ Alphabet[32] = "a" /\ \A k \in 1 .. 44 : Alphabet[k] = "a" => k = 32
BY DEF Alphabet, NUL

\* ord is the code of a character that has only one.
LEMMA CodeIs ==
    ASSUME NEW c, NEW k \in 1 .. 44, Alphabet[k] = c, \A l \in 1 .. 44 : Alphabet[l] = c => l = k
    PROVE  c \in Char /\ ord[c] = k
<1>1. c \in Char
  BY AlphabetPlaces DEF Char
<1>2. ord[c] = CHOOSE l \in 1 .. Len(Alphabet) : Alphabet[l] = c
  BY <1>1 DEF ord
<1>3. ord[c] = CHOOSE l \in 1 .. 44 : Alphabet[l] = c
  BY <1>2, AlphabetPlaces, Zenon
<1> QED
  BY <1>1, <1>3

LEMMA CodeNul == ord[NUL] = 1
<1>1. 1 \in 1 .. 44 /\ \A k \in 1 .. 44 : k = 1 \/ k \in 2 .. 44
  OBVIOUS
<1>2. \A k \in 1 .. 44 : Alphabet[k] = NUL => k = 1
  BY <1>1, SomeCodes, Zenon
<1>3. Alphabet[1] = NUL
  BY SomeCodes, Zenon
<1> QED
  BY <1>1, <1>2, <1>3, CodeIs

LEMMA Code0 == ord["0"] = 14 /\ "0" \in Char
<1>1. 14 \in 1 .. 44
  OBVIOUS
<1>2. Alphabet[14] = "0" /\ \A k \in 1 .. 44 : Alphabet[k] = "0" => k = 14
  BY SomeCodes, Zenon
<1> QED
  BY <1>1, <1>2, CodeIs

LEMMA CodeA == ord["a"] = 32 /\ "a" \in Char
<1>1. 32 \in 1 .. 44
  OBVIOUS
<1>2. Alphabet[32] = "a" /\ \A k \in 1 .. 44 : Alphabet[k] = "a" => k = 32
  BY SomeCodes, Zenon
<1> QED
  BY <1>1, <1>2, CodeIs

\* A digit is a character.
LEMMA DigitChar == ASSUME NEW x \in 0 .. 15 PROVE Digit(x) \in Char
<1>1. ASSUME x < 10 PROVE Digit(x) \in Char
  <2>1. Digit(x) = Alphabet[14 + x]
    BY <1>1, Code0, Zenon DEF Digit
  <2>2. 14 + x \in 1 .. Len(Alphabet)
    BY <1>1, AlphabetPlaces
  <2> QED
    BY <2>1, <2>2, Zenon DEF Char
<1>2. ASSUME ~ (x < 10) PROVE Digit(x) \in Char
  <2>1. Digit(x) = Alphabet[32 + (x - 10)]
    BY <1>2, CodeA, Zenon DEF Digit
  <2>2. 32 + (x - 10) \in 1 .. 44
    BY <1>2
  <2> QED
    BY <2>1, <2>2, AlphabetPlaces, Zenon DEF Char
<1> QED
  BY <1>1, <1>2

\* The terminator is no digit; every character has a value as one.
LEMMA FirstCodes ==
    /\ ord["0"] \in Int /\ ord["a"] \in Int /\ ord["A"] \in Int
    /\ ord["0"] > 1 /\ ord["a"] > 1 /\ ord["A"] > 1
<1>1. "A" \in Char /\ Alphabet[1] # "A"
  <2>1. 25 \in 1 .. 44 /\ Alphabet[25] = "A" /\ Alphabet[1] # "A"
    BY DEF Alphabet, NUL
  <2> QED
    BY <2>1, AlphabetPlaces DEF Char
<1>2. ord["A"] \in 1 .. 44 /\ Alphabet[ord["A"]] = "A"
  <2>1. ord["A"] = CHOOSE k \in 1 .. Len(Alphabet) : Alphabet[k] = "A"
    BY <1>1, Zenon DEF ord
  <2>2. \E k \in 1 .. Len(Alphabet) : Alphabet[k] = "A"
    BY <1>1, Zenon DEF Char
  <2> QED
    BY <2>1, <2>2, AlphabetPlaces, Zenon
<1>3. ord["A"] # 1
  BY <1>1, <1>2, Zenon
<1> QED
  BY <1>2, <1>3, Code0, CodeA

LEMMA DigitValues ==
    /\ DigitValue(NUL) = 99
    /\ \A c \in Char : DigitValue(c) \in Int
<1>1. DigitValue(NUL) = 99
  BY CodeNul, FirstCodes DEF DigitValue, Between
<1>2. ASSUME NEW c \in Char PROVE DigitValue(c) \in Int
  BY FirstCodes, Codes DEF DigitValue
<1> QED
  BY <1>1, <1>2

-----------------------------------------------------------------------------
(* Numbers *)

\* The digits of a number in the bases vprintfmt uses.
LEMMA Divided ==
    ASSUME NEW x \in Nat, NEW base \in {8, 10, 16}
    PROVE  /\ x >= base => x \div base \in 0 .. x - 1
           /\ x % base \in 0 .. 15
           /\ ~ (x >= base) => x \in 0 .. 15
<1>1. CASE base = 8
  BY <1>1
<1>2. CASE base = 10
  BY <1>2
<1>3. CASE base = 16
  BY <1>3
<1> QED
  BY <1>1, <1>2, <1>3

LastDigit(x, padc) == [w \in Int |-> Joined(Copies(padc, w - 1), <<Digit(x)>>)]
NextDigit(before, x, base) == [w \in Int |-> Append(before[w - 1], Digit(x % base))]
DigitsOf(f, m, base, padc) ==
    f = [x \in 0 .. m |-> IF x >= base THEN NextDigit(f[x \div base], x, base)
                          ELSE LastDigit(x, padc)]

\* The recursion of printnum has a solution.
LEMMA DigitsExist ==
    ASSUME NEW m \in Nat, NEW base \in {8, 10, 16}, NEW padc
    PROVE  \E f : DigitsOf(f, m, base, padc)
<1> DEFINE Has(k) == \E f : DigitsOf(f, k, base, padc)
           T == {k \in 0 .. m : ~ Has(k)}
<1> SUFFICES ASSUME T # {} PROVE FALSE
  <2>1. m \in 0 .. m
    OBVIOUS
  <2> QED
    BY <2>1
<1>1. PICK k \in T : \A j \in T : k <= j
  <2>1. T \subseteq Nat /\ T # {}
    OBVIOUS
  <2> HIDE DEF T
  <2> QED
    BY <2>1, LeastNumber
<1>2. k \in 0 .. m /\ ~ Has(k)
  OBVIOUS
<1>3. PICK f : k # 0 => DigitsOf(f, k - 1, base, padc)
  <2>1. CASE k = 0
    BY <2>1
  <2>2. CASE k # 0
    <3>1. k - 1 \in 0 .. m /\ k - 1 < k
      BY <1>2, <2>2
    <3>2. Has(k - 1)
      BY <1>1, <3>1
    <3> HIDE DEF T
    <3> QED
      BY <2>2, <3>2
  <2> QED
    BY <2>1, <2>2
<1> HIDE DEF T
<1> DEFINE Next(x) == IF x >= base THEN NextDigit(f[x \div base], x, base) ELSE LastDigit(x, padc)
           h == [x \in 0 .. k |-> Next(x)]
<1>4. ASSUME NEW x \in 0 .. k, x >= base PROVE f[x \div base] = h[x \div base]
  <2>1. x \div base \in 0 .. k - 1 /\ x \div base \in 0 .. k
    BY <1>2, <1>4, Divided
  <2>2. k # 0
    BY <1>2, <1>4
  <2>3. f = [y \in 0 .. k - 1 |-> Next(y)]
    BY <1>3, <2>2, Zenon DEF DigitsOf
  <2> HIDE DEF Next
  <2>4. f[x \div base] = Next(x \div base)
    <3> DEFINE q == x \div base
    <3> HIDE DEF q
    <3>1. q \in 0 .. k - 1 => f[q] = Next(q)
      BY <2>3, Zenon
    <3> QED
      BY <2>1, <3>1 DEF q
  <2> QED
    BY <2>1, <2>4
<1>5. DigitsOf(h, k, base, padc)
  <2>1. ASSUME NEW x \in 0 .. k
        PROVE  Next(x) = IF x >= base THEN NextDigit(h[x \div base], x, base) ELSE LastDigit(x, padc)
    <3>1. x >= base => f[x \div base] = h[x \div base]
      BY <1>4
    <3> HIDE DEF h
    <3> QED
      BY <3>1, Zenon
  <2> QED
    BY <2>1, Zenon DEF DigitsOf
<1> QED
  BY <1>2, <1>5

\* What it solves to are functions from widths to texts.
LEMMA DigitsText ==
    ASSUME NEW m \in Nat, NEW base \in {8, 10, 16}, NEW padc \in Char, NEW f, DigitsOf(f, m, base, padc)
    PROVE  f[m] \in [Int -> Seq(Char)]
<1> DEFINE T == {x \in 0 .. m : f[x] \notin [Int -> Seq(Char)]}
<1> SUFFICES ASSUME T # {} PROVE FALSE
  <2>1. m \in 0 .. m
    OBVIOUS
  <2> QED
    BY <2>1
<1>1. PICK x \in T : \A j \in T : x <= j
  <2>1. T \subseteq Nat /\ T # {}
    OBVIOUS
  <2> HIDE DEF T
  <2> QED
    BY <2>1, LeastNumber
<1>2. x \in 0 .. m /\ f[x] \notin [Int -> Seq(Char)]
  OBVIOUS
<1>3. f[x] = IF x >= base THEN NextDigit(f[x \div base], x, base) ELSE LastDigit(x, padc)
  BY <1>2, Zenon DEF DigitsOf
<1>4. x >= base => f[x \div base] \in [Int -> Seq(Char)]
  <2> SUFFICES ASSUME x >= base PROVE f[x \div base] \in [Int -> Seq(Char)]
    OBVIOUS
  <2>1. x \div base \in 0 .. m /\ x \div base < x
    BY <1>2, Divided
  <2> DEFINE q == x \div base
  <2>2. q \in 0 .. m /\ q < x
    BY <2>1
  <2> HIDE DEF q
  <2>3. q \notin T
    <3> HIDE DEF T
    <3> QED
      BY <1>1, <1>2, <2>2
  <2>4. f[q] \in [Int -> Seq(Char)]
    BY <2>2, <2>3
  <2> QED
    BY <2>4 DEF q
<1>5. CASE x >= base
  <2> DEFINE g == f[x \div base]
  <2>1. g \in [Int -> Seq(Char)] /\ f[x] = NextDigit(g, x, base)
    BY <1>3, <1>4, <1>5
  <2>2. Digit(x % base) \in Char
    <3>1. x % base \in 0 .. 15
      BY <1>2, Divided
    <3> QED
      BY <3>1, DigitChar
  <2> HIDE DEF T, g
  <2>3. ASSUME NEW w \in Int PROVE Append(g[w - 1], Digit(x % base)) \in Seq(Char)
    BY <2>1, <2>2, AppendProperties
  <2>4. NextDigit(g, x, base) \in [Int -> Seq(Char)]
    BY <2>3 DEF NextDigit
  <2> QED
    BY <1>2, <2>1, <2>4
<1>6. CASE ~ (x >= base)
  <2>1. f[x] = LastDigit(x, padc)
    BY <1>3, <1>6
  <2>2. Digit(x) \in Char
    <3>1. x \in 0 .. 15
      BY <1>2, <1>6, Divided
    <3> QED
      BY <3>1, DigitChar
  <2>3. ASSUME NEW w \in Int PROVE Joined(Copies(padc, w - 1), <<Digit(x)>>) \in Seq(Char)
    <3>1. Copies(padc, w - 1) \in Seq(Char)
      BY CopiesText
    <3>2. <<Digit(x)>> \in Seq(Char)
      BY <2>2, OneCharacter
    <3> QED
      BY <3>1, <3>2, JoinedText
  <2>4. LastDigit(x, padc) \in [Int -> Seq(Char)]
    BY <2>3 DEF LastDigit
  <2> QED
    BY <1>2, <2>1, <2>4
<1> QED
  BY <1>5, <1>6

\* So is every number printnum puts, whatever its width and padding.
LEMMA NumberText ==
    ASSUME NEW m \in Nat, NEW base \in {8, 10, 16}, NEW w \in Int, NEW padc \in Char
    PROVE  printnum(m, base, w, padc) \in Seq(Char)
<1> DEFINE f == CHOOSE g : DigitsOf(g, m, base, padc)
<1>1. DigitsOf(f, m, base, padc)
  BY DigitsExist, Zenon
<1>2. printnum(m, base, w, padc) = f[m][w]
  BY Zenon DEF printnum, DigitsOf, NextDigit, LastDigit, Joined
<1> HIDE DEF f
<1> QED
  BY <1>1, <1>2, DigitsText

-----------------------------------------------------------------------------
(* What is read: widths and arguments *)

\* The loop of strtol.
ValuesOf(f, str, lo, hi, radix) ==
    f = [k \in lo .. hi |-> IF k = lo THEN 0 ELSE f[k - 1] * radix + DigitValue(CharAt(str, k - 1))]

\* It has a result,
LEMMA ValuesExist ==
    ASSUME NEW str \in Text, NEW lo \in Nat \ {0}, NEW hi \in Nat, lo <= hi, NEW radix \in Int
    PROVE  \E f : ValuesOf(f, str, lo, hi, radix)
<1> DEFINE Has(k) == \E f : ValuesOf(f, str, lo, k, radix)
           T == {k \in lo .. hi : ~ Has(k)}
<1> SUFFICES ASSUME T # {} PROVE FALSE
  <2>1. hi \in lo .. hi
    OBVIOUS
  <2> QED
    BY <2>1
<1>1. PICK k \in T : \A j \in T : k <= j
  <2>1. T \subseteq Nat /\ T # {}
    OBVIOUS
  <2> HIDE DEF T
  <2> QED
    BY <2>1, LeastNumber
<1>2. k \in lo .. hi /\ ~ Has(k)
  OBVIOUS
<1>3. PICK f : k # lo => ValuesOf(f, str, lo, k - 1, radix)
  <2>1. CASE k = lo
    BY <2>1
  <2>2. CASE k # lo
    <3>1. k - 1 \in lo .. hi /\ k - 1 < k
      BY <1>2, <2>2
    <3>2. Has(k - 1)
      <4>1. k - 1 \notin T
        <5> HIDE DEF T
        <5> QED
          BY <1>1, <1>2, <3>1
      <4> QED
        BY <3>1, <4>1
    <3> HIDE DEF T
    <3> QED
      BY <2>2, <3>2
  <2> QED
    BY <2>1, <2>2
<1> HIDE DEF T
<1> DEFINE After(x, j) == x * radix + DigitValue(CharAt(str, j - 1))
           h == [j \in lo .. k |-> IF j = lo THEN 0 ELSE After(f[j - 1], j)]
<1> HIDE DEF After
<1>4. ASSUME NEW j \in lo .. k, j # lo PROVE f[j - 1] = h[j - 1]
  <2>1. j - 1 \in lo .. k - 1 /\ j - 1 \in lo .. k /\ k # lo
    BY <1>2, <1>4
  <2>2. f = [l \in lo .. k - 1 |-> IF l = lo THEN 0 ELSE After(f[l - 1], l)]
    BY <1>3, <2>1, Zenon DEF ValuesOf, After
  <2> DEFINE q == j - 1
  <2> HIDE DEF q
  <2>3. q \in lo .. k - 1 => f[q] = IF q = lo THEN 0 ELSE After(f[q - 1], q)
    BY <2>2, Zenon
  <2>4. q \in lo .. k => h[q] = IF q = lo THEN 0 ELSE After(f[q - 1], q)
    BY Zenon
  <2> HIDE DEF h
  <2> QED
    BY <2>1, <2>3, <2>4 DEF q
<1>5. h = [j \in lo .. k |-> IF j = lo THEN 0 ELSE After(h[j - 1], j)]
  <2>1. ASSUME NEW j \in lo .. k
        PROVE  (IF j = lo THEN 0 ELSE After(f[j - 1], j)) = IF j = lo THEN 0 ELSE After(h[j - 1], j)
    <3>1. j # lo => f[j - 1] = h[j - 1]
      BY <1>4
    <3> HIDE DEF h
    <3> QED
      BY <3>1, Zenon
  <2> QED
    BY <2>1, Zenon
<1>6. ValuesOf(h, str, lo, k, radix)
  <2> HIDE DEF h
  <2> QED
    BY <1>5, Zenon DEF ValuesOf, After
<1> QED
  BY <1>2, <1>6

\* which is a number.
LEMMA ValuesInt ==
    ASSUME NEW str \in Text, NEW lo \in Nat \ {0}, NEW hi \in Nat, lo <= hi, NEW radix \in Int,
           NEW f, ValuesOf(f, str, lo, hi, radix)
    PROVE  f[hi] \in Int
<1> DEFINE T == {k \in lo .. hi : f[k] \notin Int}
<1> SUFFICES ASSUME T # {} PROVE FALSE
  <2>1. hi \in lo .. hi
    OBVIOUS
  <2> QED
    BY <2>1
<1>1. PICK k \in T : \A j \in T : k <= j
  <2>1. T \subseteq Nat /\ T # {}
    OBVIOUS
  <2> HIDE DEF T
  <2> QED
    BY <2>1, LeastNumber
<1>2. k \in lo .. hi /\ f[k] \notin Int
  OBVIOUS
<1>3. f[k] = IF k = lo THEN 0 ELSE f[k - 1] * radix + DigitValue(CharAt(str, k - 1))
  BY <1>2, Zenon DEF ValuesOf
<1>4. k # lo
  BY <1>2, <1>3
<1>5. k - 1 \in lo .. hi /\ k - 1 < k /\ k - 1 \in Nat \ {0}
  BY <1>2, <1>4
<1>6. f[k - 1] \in Int
  <2>1. k - 1 \notin T
    <3> HIDE DEF T
    <3> QED
      BY <1>1, <1>2, <1>5
  <2> QED
    BY <1>5, <2>1
<1>7. DigitValue(CharAt(str, k - 1)) \in Int
  <2>1. CharAt(str, k - 1) \in Char
    BY <1>5, Characters
  <2> QED
    BY <2>1, DigitValues
<1> DEFINE x == f[k - 1]
           y == DigitValue(CharAt(str, k - 1))
<1>8. x * radix + y \in Int
  <2>1. x \in Int /\ y \in Int
    BY <1>6, <1>7
  <2> HIDE DEF x, y
  <2> QED
    BY <2>1
<1> QED
  BY <1>2, <1>3, <1>4, <1>8

\* strtol stays in the string, and its result is a number.
LEMMA WidthRead ==
    ASSUME NEW str \in Text
    PROVE  strtol(str, 10).val \in Int /\ strtol(str, 10).end \in 1 .. Len(str) + 1
<1> DEFINE At(k) == CharAt(str, k)
           blank == Least({k \in 1 .. Len(str) + 1 : At(k) \notin {" ", "\t"}})
           sign == IF At(blank) \in {"+", "-"} THEN blank + 1 ELSE blank
           end == Least({k \in sign .. Len(str) + 1 : DigitValue(At(k)) >= 10})
           val == CHOOSE f : ValuesOf(f, str, sign, end, 10)
<1>1. strtol(str, 10) = [val |-> IF At(blank) = "-" THEN - val[end] ELSE val[end], end |-> end]
  BY SMTT(100) DEF strtol, ValuesOf
<1>2. Len(str) \in Nat /\ At(Len(str) + 1) = NUL
  BY Characters DEF Text
<1>3. blank \in 1 .. Len(str) + 1
  <2> DEFINE T == {k \in 1 .. Len(str) + 1 : At(k) \notin {" ", "\t"}}
  <2>1. T \subseteq Nat /\ T # {}
    <3>1. At(Len(str) + 1) \notin {" ", "\t"}
      BY <1>2, Zenon DEF NUL
    <3>2. Len(str) + 1 \in 1 .. Len(str) + 1
      BY <1>2
    <3>3. Len(str) + 1 \in T
      BY <3>1, <3>2, Zenon
    <3>4. T \subseteq 1 .. Len(str) + 1
      BY Zenon
    <3> HIDE DEF T
    <3> QED
      BY <1>2, <3>3, <3>4
  <2>2. Least(T) \in T
    <3> HIDE DEF T
    <3> QED
      BY <2>1, LeastNumber
  <2> QED
    BY <2>2, Zenon
<1> HIDE DEF blank
<1>4. sign \in 1 .. Len(str) + 1
  <2>1. At(blank) \in {"+", "-"} => blank # Len(str) + 1
    BY <1>2 DEF NUL
  <2>2. sign = blank \/ (sign = blank + 1 /\ blank # Len(str) + 1)
    BY <2>1, Zenon
  <2> HIDE DEF sign
  <2> QED
    BY <1>2, <1>3, <2>2
<1> HIDE DEF sign
<1>5. end \in sign .. Len(str) + 1
  <2> DEFINE T == {k \in sign .. Len(str) + 1 : DigitValue(At(k)) >= 10}
  <2>1. T \subseteq Nat /\ T # {}
    BY <1>2, <1>4, DigitValues
  <2>2. Least(T) \in T
    <3> HIDE DEF T
    <3> QED
      BY <2>1, LeastNumber
  <2> QED
    BY <2>2
<1> HIDE DEF end
<1>6. sign \in Nat \ {0} /\ end \in Nat /\ sign <= end
  BY <1>2, <1>4, <1>5
<1>7. ValuesOf(val, str, sign, end, 10)
  <2>1. \E f : ValuesOf(f, str, sign, end, 10)
    BY <1>6, ValuesExist
  <2> QED
    BY <2>1, Zenon
<1> HIDE DEF val
<1>8. val[end] \in Int
  BY <1>6, <1>7, ValuesInt
<1> HIDE DEF At
<1>9. strtol(str, 10).end = end /\ strtol(str, 10).val \in {- val[end], val[end]}
  BY <1>1
<1> QED
  BY <1>2, <1>4, <1>5, <1>8, <1>9

\* An argument is an integer of its type.
LEMMA ArgumentRead ==
    ASSUME NEW v \in Int, NEW l \in Nat
    PROVE  getuint(v, l) \in Nat /\ getint(v, l) \in Int
<1>1. 2^Bits(l) \in Nat \ {0}
  BY WidthAssumption, Zenon DEF Bits
<1> DEFINE m == 2^Bits(l)
<1>2. m \in Nat \ {0}
  BY <1>1
<1>3. v % m \in Nat /\ (v % m) - m \in Int
  <2> HIDE DEF m
  <2> QED
    BY <1>2
<1> QED
  BY <1>3 DEF getuint, getint

\* What va_arg may find: a number, a string or none, a character.
Arg == [i : Int, s : Text \union {NoString}, c : Char]

Space == " "
Paddings == {Space, "-", "0"}
Escapes == [on : {TRUE}, padc : Paddings, width : Int, precision : Int, lflag : Nat,
            altflag : BOOLEAN]

\* Padding characters are characters.
LEMMA Padding == Space \in Char /\ Paddings \subseteq Char
<1>1. Alphabet[7] = Space /\ Alphabet[12] = "-" /\ Alphabet[14] = "0"
  BY Zenon DEF Alphabet, Space
<1>2. 7 \in 1 .. 44 /\ 12 \in 1 .. 44 /\ 14 \in 1 .. 44
  OBVIOUS
<1>3. Space \in Char /\ "-" \in Char /\ "0" \in Char
  BY <1>1, <1>2, AlphabetPlaces, Zenon DEF Char
<1> QED
  BY <1>3 DEF Paddings

\* So are those that vprintfmt puts of its own.
LEMMA Letters ==
    "?" \in Char /\ "%" \in Char /\ "e" \in Char /\ "z" \in Char /\ "x" \in Char
<1>1. /\ Alphabet[24] = "?" /\ Alphabet[9] = "%" /\ Alphabet[36] = "e" /\ Alphabet[44] = "z"
      /\ Alphabet[43] = "x"
  <2>1. Alphabet[24] = "?"
    BY ZenonT(30) DEF Alphabet
  <2>2. Alphabet[9] = "%"
    BY ZenonT(30) DEF Alphabet
  <2>3. Alphabet[36] = "e"
    BY ZenonT(30) DEF Alphabet
  <2>4. Alphabet[44] = "z"
    BY ZenonT(30) DEF Alphabet
  <2>5. Alphabet[43] = "x"
    BY ZenonT(30) DEF Alphabet
  <2> QED
    BY <2>1, <2>2, <2>3, <2>4, <2>5, Zenon
<1>2. 24 \in 1 .. 44 /\ 9 \in 1 .. 44 /\ 36 \in 1 .. 44 /\ 44 \in 1 .. 44 /\ 43 \in 1 .. 44
  OBVIOUS
<1>3. "?" \in Char
  BY <1>1, <1>2, AlphabetPlaces, Zenon DEF Char
<1>4. "%" \in Char
  BY <1>1, <1>2, AlphabetPlaces, Zenon DEF Char
<1>5. "e" \in Char
  BY <1>1, <1>2, AlphabetPlaces, Zenon DEF Char
<1>6. "z" \in Char
  BY <1>1, <1>2, AlphabetPlaces, Zenon DEF Char
<1>7. "x" \in Char
  BY <1>1, <1>2, AlphabetPlaces, Zenon DEF Char
<1> QED
  BY <1>3, <1>4, <1>5, <1>6, <1>7, Zenon

\* The parts of an escape sequence.
LEMMA EscapeParts ==
    ASSUME NEW e \in Escapes
    PROVE  /\ e.on = TRUE /\ e.padc \in Paddings /\ e.padc \in Char
           /\ e.width \in Int /\ e.precision \in Int /\ e.lflag \in Nat
<1>1. e.on = TRUE /\ e.padc \in Paddings
  BY DEF Escapes
<1>2. e.width \in Int /\ e.precision \in Int /\ e.lflag \in Nat
  BY DEF Escapes
<1>3. e.padc \in Char
  BY <1>1, Padding
<1> QED
  BY <1>1, <1>2, <1>3, Zenon

\* A string is put as text, whatever its precision and width.
LEMMA FieldText ==
    ASSUME NEW str \in Text, esc \in Escapes
    PROVE  StringField(str) \in Seq(Char)
<1> DEFINE text == Shown(str)
           pad == esc.width - Len(text)
           shown == [k \in 1 .. Len(text) |-> Visible(text[k])]
<1>1. text \in Text
  <2>1. CASE esc.precision < 0
    BY <2>1 DEF Shown
  <2>2. CASE ~ (esc.precision < 0)
    <3>1. esc.precision \in Int
      BY EscapeParts
    <3>2. First(str, esc.precision) \in Text
      <4>1. esc.precision \in Nat
        BY <2>2, <3>1
      <4> QED
        BY <4>1, FirstReads
    <3> QED
      BY <2>2, <3>2 DEF Shown
  <2> QED
    BY <2>1, <2>2
<1> HIDE DEF text
<1>2. Len(text) \in Nat /\ \A k \in 1 .. Len(text) : text[k] \in Char
  BY <1>1 DEF Text
<1>3. shown \in Seq(Char)
  <2>1. ASSUME NEW k \in 1 .. Len(text) PROVE Visible(text[k]) \in Char
    BY <1>2, Letters DEF Visible
  <2> QED
    BY <1>2, <2>1
<1>4. pad \in Int /\ esc.padc \in Char /\ Space \in Char
  <2>1. esc.padc \in Char /\ Space \in Char /\ esc.width \in Int
    BY EscapeParts, Padding
  <2>2. pad \in Int
    BY <1>2, <2>1
  <2> QED
    BY <2>1, <2>2, Zenon
<1>5. StringField(str) = IF esc.padc # "-" THEN Joined(Copies(esc.padc, pad), shown)
                         ELSE Joined(shown, Copies(Space, pad))
  BY Zenon DEF StringField, Joined, Space, text
<1> HIDE DEF pad, shown
<1>6. Copies(esc.padc, pad) \in Seq(Char) /\ Copies(Space, pad) \in Seq(Char)
  BY <1>4, CopiesText
<1>7. /\ Joined(Copies(esc.padc, pad), shown) \in Seq(Char)
      /\ Joined(shown, Copies(Space, pad)) \in Seq(Char)
  BY <1>3, <1>6, JoinedText
<1> QED
  BY <1>5, <1>7

-----------------------------------------------------------------------------
(* Where the characters go *)

\* The smaller of two numbers.
LEMMA LeastOfTwo ==
    ASSUME NEW x \in Nat, NEW y \in Nat
    PROVE  Least({x, y}) = IF x <= y THEN x ELSE y
<1>1. CASE x <= y
  <2>1. {x, y} \subseteq Nat /\ x \in {x, y} /\ \A z \in {x, y} : x <= z
    BY <1>1
  <2> QED
    BY <1>1, <2>1, LeastIs
<1>2. CASE ~ (x <= y)
  <2>1. {x, y} \subseteq Nat /\ y \in {x, y} /\ \A z \in {x, y} : y <= z
    BY <1>2
  <2> QED
    BY <1>2, <2>1, LeastIs
<1> QED
  BY <1>1, <1>2

\* sprintbuf: the output up to size - 1 is in the buffer, everything else as it was.
Fits == IF Len(out) <= call.size - 1 THEN Len(out) ELSE call.size - 1
Contents(k) == [a \in Cell |-> IF a \in Area(call.str, k) THEN out[a - call.str + 1] ELSE old[a]]
Buffer ==
    /\ call.str \in Cell /\ call.size \in Nat \ {0} /\ Area(call.str, call.size) \subseteq Cell
    /\ b.buf = call.str + Fits /\ b.ebuf = call.str + (call.size - 1)
    /\ mem = Contents(Fits)
Output ==
    /\ out \in Seq(Char)
    /\ b \in [buf : Int, ebuf : Int, cnt : Int] /\ b.cnt = Len(out)
    /\ call.fn = "snprintf" => Buffer

\* Put, with Joined.
LEMMA PutParts ==
    ASSUME NEW cs, Put(cs)
    PROVE  /\ out' = Joined(out, cs)
           /\ \/ /\ call.fn = "snprintf"
                 /\ mem' = [a \in Cell |-> IF a \in Area(b.buf, Stored(cs)) THEN cs[a - b.buf + 1]
                                           ELSE mem[a]]
                 /\ b' = [b EXCEPT !.buf = @ + Stored(cs), !.cnt = @ + Len(cs)]
              \/ /\ call.fn = "cprintf"
                 /\ b' = [b EXCEPT !.cnt = @ + Len(cs)]
BY Zenon DEF Put, Joined

\* Of two areas one behind the other, of f and of e cells from o: a is in the first,
LEMMA AreaLow ==
    ASSUME NEW a \in Int, NEW o \in Int, NEW f \in Nat, NEW e \in Nat, a \in Area(o, f)
    PROVE  a - o + 1 \in 1 .. f /\ a \notin Area(o + f, e) /\ a \in Area(o, f + e)
BY DEF Area

\* a is behind the first area,
LEMMA AreaHigh ==
    ASSUME NEW a \in Int, NEW o \in Int, NEW f \in Nat, NEW e \in Nat, a \in Area(o + f, e)
    PROVE  /\ a - (o + f) + 1 = (a - o + 1) - f /\ a \in Area(o, f + e)
           /\ a - o + 1 \in f + 1 .. f + e /\ e # 0
BY DEF Area

\* or in neither.
LEMMA AreaOutside ==
    ASSUME NEW a \in Int, NEW o \in Int, NEW f \in Nat, NEW e \in Nat,
           a \notin Area(o, f), a \notin Area(o + f, e)
    PROVE  a \notin Area(o, f + e)
BY DEF Area

\* What fits of l characters and then of m is what fits of all.
LEMMA FitsMore ==
    ASSUME NEW l \in Nat, NEW m \in Nat, NEW z \in Nat \ {0}, NEW f, NEW e,
           f = IF l <= z - 1 THEN l ELSE z - 1,
           e = IF m <= z - 1 - f THEN m ELSE z - 1 - f
    PROVE  (IF l + m <= z - 1 THEN l + m ELSE z - 1) = f + e
OBVIOUS

\* Each character goes to its place in the buffer while there is room, and is counted.
LEMMA PutKeeps ==
    ASSUME Output, NEW cs \in Seq(Char), Put(cs), UNCHANGED <<call, old>>
    PROVE  Output'
<1>1. /\ out \in Seq(Char) /\ Len(out) \in Nat /\ Len(cs) \in Nat
      /\ b \in [buf : Int, ebuf : Int, cnt : Int] /\ b.cnt = Len(out)
  BY DEF Output
<1>2. out' = Joined(out, cs)
  BY PutParts
<1>3. out' \in Seq(Char) /\ Len(out') = Len(out) + Len(cs)
  BY <1>1, <1>2, JoinedText, JoinedLength
<1>4. CASE call.fn = "cprintf"
  <2>1. b' = [b EXCEPT !.cnt = @ + Len(cs)]
    BY <1>4, PutParts
  <2>2. b' \in [buf : Int, ebuf : Int, cnt : Int] /\ b'.cnt = Len(out')
    BY <1>1, <1>3, <2>1
  <2>3. call'.fn # "snprintf"
    BY <1>4
  <2> QED
    BY <1>3, <2>2, <2>3 DEF Output
<1>5. CASE call.fn = "snprintf"
  <2> DEFINE st == Stored(cs)
  <2>1. /\ mem' = [a \in Cell |-> IF a \in Area(b.buf, st) THEN cs[a - b.buf + 1] ELSE mem[a]]
        /\ b' = [b EXCEPT !.buf = @ + st, !.cnt = @ + Len(cs)]
    BY <1>5, PutParts
  <2>2. Buffer
    BY <1>5 DEF Output
  <2>3. /\ call.str \in Int /\ call.size \in Nat \ {0}
        /\ b.buf = call.str + Fits /\ b.ebuf = call.str + (call.size - 1)
        /\ mem = Contents(Fits)
    BY <2>2, MemAssumption DEF Buffer, Cell
  <2>4. /\ Fits \in Nat /\ Fits <= call.size - 1 /\ Fits <= Len(out)
        /\ Fits = Len(out) \/ Fits = call.size - 1
    BY <1>1, <2>3 DEF Fits
  <2>5. st = IF Len(cs) <= call.size - 1 - Fits THEN Len(cs) ELSE call.size - 1 - Fits
    <3>1. b.ebuf - b.buf = call.size - 1 - Fits /\ call.size - 1 - Fits \in Nat
      BY <2>3, <2>4
    <3> QED
      BY <1>1, <3>1, LeastOfTwo DEF Stored
  <2> HIDE DEF st
  <2>6. st \in Nat /\ st <= Len(cs) /\ (st # 0 => Fits = Len(out))
    BY <1>1, <2>3, <2>4, <2>5
  <2>7. Fits' = Fits + st
    <3>1. Fits' = IF Len(out) + Len(cs) <= call.size - 1 THEN Len(out) + Len(cs) ELSE call.size - 1
      BY <1>3, Zenon DEF Fits
    <3>2. Fits = IF Len(out) <= call.size - 1 THEN Len(out) ELSE call.size - 1
      BY DEF Fits
    <3> QED
      BY <1>1, <2>3, <2>5, <3>1, <3>2, FitsMore
  <2>8. b' \in [buf : Int, ebuf : Int, cnt : Int] /\ b'.cnt = Len(out')
    <3>1. b'.buf = b.buf + st /\ b'.cnt = b.cnt + Len(cs) /\ b'.ebuf = b.ebuf
      BY <1>1, <2>1
    <3>2. b' = [buf |-> b'.buf, ebuf |-> b'.ebuf, cnt |-> b'.cnt]
      BY <1>1, <2>1
    <3>3. b.buf \in Int /\ b.cnt \in Int /\ b.ebuf \in Int /\ b.cnt = Len(out)
      BY <1>1
    <3>4. b'.buf \in Int /\ b'.cnt = Len(out') /\ b'.ebuf \in Int /\ b'.cnt \in Int
      BY <1>1, <1>3, <2>6, <3>1, <3>3
    <3> QED
      BY <3>2, <3>4
  <2>9. b'.buf = call.str + Fits' /\ b'.ebuf = b.ebuf
    BY <1>1, <2>1, <2>3, <2>4, <2>6, <2>7
  <2>10. ASSUME NEW a \in Cell
         PROVE  mem'[a] = IF a \in Area(call.str, Fits + st) THEN out'[a - call.str + 1] ELSE old[a]
    <3>1. a \in Int
      BY MemAssumption DEF Cell
    <3>2. mem'[a] = IF a \in Area(b.buf, st) THEN cs[a - b.buf + 1] ELSE mem[a]
      BY <2>1, Zenon
    <3>3. mem[a] = IF a \in Area(call.str, Fits) THEN out[a - call.str + 1] ELSE old[a]
      BY <2>3, Zenon DEF Contents
    <3>4. CASE a \in Area(call.str, Fits)
      <4>1. /\ a - call.str + 1 \in 1 .. Fits
            /\ a \notin Area(b.buf, st) /\ a \in Area(call.str, Fits + st)
        <5>1. call.str \in Int /\ Fits \in Nat /\ st \in Nat /\ b.buf = call.str + Fits
          BY <2>3, <2>4, <2>6
        <5> QED
          BY <3>1, <3>4, <5>1, AreaLow
      <4>2. a - call.str + 1 \in 1 .. Len(out) + Len(cs) /\ a - call.str + 1 <= Len(out)
        BY <1>1, <2>4, <4>1
      <4>3. out'[a - call.str + 1] = out[a - call.str + 1]
        BY <1>1, <1>2, <4>2, JoinedAt
      <4> QED
        BY <3>2, <3>3, <3>4, <4>1, <4>3
    <3>5. CASE a \in Area(b.buf, st)
      <4>1. /\ a - b.buf + 1 = (a - call.str + 1) - Fits /\ a \in Area(call.str, Fits + st)
            /\ a - call.str + 1 \in Fits + 1 .. Fits + st /\ st # 0
        <5>1. call.str \in Int /\ Fits \in Nat /\ st \in Nat /\ b.buf = call.str + Fits
          BY <2>3, <2>4, <2>6
        <5>2. a \in Area(call.str + Fits, st)
          BY <3>5, <5>1
        <5> QED
          BY <3>1, <5>1, <5>2, AreaHigh
      <4>2. Fits = Len(out)
        BY <2>6, <4>1
      <4>3. a - call.str + 1 \in 1 .. Len(out) + Len(cs) /\ ~ (a - call.str + 1 <= Len(out))
        BY <1>1, <2>6, <4>1, <4>2
      <4>4. out'[a - call.str + 1] = cs[(a - call.str + 1) - Len(out)]
        BY <1>1, <1>2, <4>3, JoinedAt
      <4> QED
        BY <3>2, <3>5, <4>1, <4>2, <4>4
    <3>6. CASE a \notin Area(call.str, Fits) /\ a \notin Area(b.buf, st)
      <4>1. a \notin Area(call.str, Fits + st)
        <5>1. call.str \in Int /\ Fits \in Nat /\ st \in Nat /\ b.buf = call.str + Fits
          BY <2>3, <2>4, <2>6
        <5>2. a \notin Area(call.str, Fits) /\ a \notin Area(call.str + Fits, st)
          BY <3>6, <5>1
        <5> QED
          BY <3>1, <5>1, <5>2, AreaOutside
      <4> QED
        BY <3>2, <3>3, <3>6, <4>1
    <3> QED
      BY <3>4, <3>5, <3>6
  <2>11. mem' = Contents(Fits)'
    <3>1. mem' = [a \in Cell |-> IF a \in Area(call.str, Fits + st) THEN out'[a - call.str + 1]
                                 ELSE old[a]]
      BY <2>1, <2>10
    <3> QED
      BY <2>7, <3>1 DEF Contents
  <2>12. Buffer'
    BY <2>2, <2>3, <2>9, <2>11 DEF Buffer
  <2> QED
    BY <1>3, <2>8, <2>12 DEF Output
<1> QED
  BY <1>4, <1>5, PutParts

-----------------------------------------------------------------------------
(* vprintfmt and its callers *)

\* Any format with at least one argument for each of its characters, which is more than
\* it can use; vsnprintf with any buffer in memory, or none.
AnyFormat ==
    \E f \in Text, a \in Seq(Arg) :
        /\ Len(a) >= Len(f)
        /\ \/ cprintf(f, a)
           \/ \E str \in Cell \union {NULL}, size \in Nat :
                /\ str # NULL => Area(str, size) \subseteq Cell
                /\ snprintf(str, size, f, a)

FmtNext == AnyFormat \/ FormatStep \/ FormatReturn
FmtSpec == MemInit /\ FmtInit /\ [][FmtNext]_<<memvars, fmtvars>>

\* Where vprintfmt is in the format.  No character of it takes two arguments, also when
\* vprintfmt goes back behind a %: from there to fp it finds only literal text.
LiteralTo(q) == \A j \in fp .. q - 1 : fmt[j] # "%"
Enough(q) == Len(args) + q >= Len(fmt) + 1
Position ==
    /\ fmt \in Text /\ fp \in 1 .. Len(fmt) + 1 /\ args \in Seq(Arg)
    /\ ~ esc.on => \E q \in fp .. Len(fmt) + 1 : LiteralTo(q) /\ Enough(q)
    /\ esc.on => Enough(fp) /\ \E k \in 2 .. fp : fmt[k - 1] = "%"

FmtInv ==
    /\ old = Blank /\ esc \in {NoEscape} \union Escapes
    /\ call = None => mem = Blank /\ out = <<>> /\ b = NoBuf
    /\ Printing => Output /\ Position
    /\ ~ Printing => esc = NoEscape
    /\ Truncates

\* The next character is one of the format, or its end.
LEMMA AtCharacter ==
    ASSUME Position
    PROVE  /\ ch \in Char /\ (ch = NUL <=> fp = Len(fmt) + 1)
           /\ Len(fmt) \in Nat /\ Len(args) \in Nat /\ fp \in Nat \ {0}
           /\ ch # NUL => fp \in 1 .. Len(fmt) /\ ch = fmt[fp]
<1>1. fmt \in Text /\ fp \in 1 .. Len(fmt) + 1 /\ args \in Seq(Arg)
  BY DEF Position
<1>2. Len(fmt) \in Nat /\ Len(args) \in Nat
  BY <1>1 DEF Text
<1>3. fp \in Nat \ {0}
  BY <1>1, <1>2
<1>4. ch \in Char /\ (ch = NUL <=> fp > Len(fmt))
  BY <1>1, <1>3, Characters DEF ch
<1>5. ch # NUL => fp \in 1 .. Len(fmt) /\ ch = fmt[fp]
  BY <1>1, <1>2, <1>3, <1>4 DEF ch, CharAt
<1> QED
  BY <1>1, <1>2, <1>3, <1>4, <1>5

\* A literal character takes no argument.
LEMMA LiteralPosition ==
    ASSUME Position, ~ esc.on, ch \notin {"%", NUL}, fp' = fp + 1, UNCHANGED <<fmt, args, esc>>
    PROVE  Position'
<1>1. Len(fmt) \in Nat /\ Len(args) \in Nat /\ fp \in 1 .. Len(fmt) /\ fp \in Nat
  BY AtCharacter
<1>2. PICK q \in fp .. Len(fmt) + 1 : LiteralTo(q) /\ Enough(q)
  BY DEF Position
<1>3. fp' \in 1 .. Len(fmt) + 1
  BY <1>1
<1>4. PICK r : r = IF q = fp THEN fp + 1 ELSE q
  OBVIOUS
<1>5. r \in fp' .. Len(fmt) + 1 /\ LiteralTo(r)' /\ Enough(r)'
  BY <1>1, <1>2, <1>4 DEF LiteralTo, Enough
<1> QED
  BY <1>3, <1>5 DEF Position

\* A new escape sequence is one.
LEMMA EscapeOk == Escape \in Escapes
<1>1. Escape = [on |-> TRUE, padc |-> Space, width |-> -1, precision |-> -1, lflag |-> 0,
               altflag |-> FALSE]
  BY Zenon DEF Escape, Space
<1>2. Space \in Paddings /\ -1 \in Int /\ 0 \in Nat
  BY DEF Paddings
<1> QED
  BY <1>1, <1>2 DEF Escapes

\* After a % every character of the sequence may take an argument.
LEMMA PercentPosition ==
    ASSUME Position, Percent
    PROVE  Position' /\ esc' \in Escapes
<1>1. ch = "%" /\ ~ esc.on /\ fp' = fp + 1 /\ UNCHANGED <<fmt, args>> /\ esc' = Escape
  BY DEF Percent
<1>2. /\ Len(fmt) \in Nat /\ Len(args) \in Nat /\ fp \in 1 .. Len(fmt) /\ fp \in Nat \ {0}
      /\ fmt[fp] = "%"
  BY <1>1, AtCharacter DEF NUL
<1>3. PICK q \in fp .. Len(fmt) + 1 : LiteralTo(q) /\ Enough(q)
  BY <1>1 DEF Position
<1>4. q = fp
  BY <1>2, <1>3 DEF LiteralTo
<1>5. esc' \in Escapes
  BY <1>1, EscapeOk
<1>6. esc'.on
  BY <1>5, EscapeParts
<1>7. /\ fp' \in 1 .. Len(fmt) + 1 /\ Len(args) + fp' >= Len(fmt) + 1
      /\ \E k \in 2 .. fp' : fmt[k - 1] = "%"
  BY <1>1, <1>2, <1>3, <1>4 DEF Enough
<1>8. (Enough(fp))' /\ \E k \in 2 .. fp' : fmt'[k - 1] = "%"
  BY <1>1, <1>7 DEF Enough
<1>9. fmt' \in Text /\ args' \in Seq(Arg) /\ fp' \in 1 .. Len(fmt') + 1
  BY <1>1, <1>7 DEF Position
<1> QED
  BY <1>5, <1>6, <1>8, <1>9 DEF Position

\* Flags, widths and precisions leave an escape sequence one.
LEMMA EscapeSet ==
    ASSUME NEW e \in Escapes
    PROVE  /\ \A c \in Paddings : [e EXCEPT !.padc = c] \in Escapes
           /\ \A w \in Int : [e EXCEPT !.width = w] \in Escapes
           /\ \A pr \in Int : [e EXCEPT !.precision = pr] \in Escapes
           /\ [e EXCEPT !.altflag = TRUE] \in Escapes
           /\ [e EXCEPT !.lflag = @ + 1] \in Escapes
<1>1. \A c \in Paddings : [e EXCEPT !.padc = c] \in Escapes
  BY DEF Escapes
<1>2. \A w \in Int : [e EXCEPT !.width = w] \in Escapes
  BY DEF Escapes
<1>3. \A pr \in Int : [e EXCEPT !.precision = pr] \in Escapes
  BY DEF Escapes
<1>4. [e EXCEPT !.altflag = TRUE] \in Escapes
  BY DEF Escapes
<1>5. [e EXCEPT !.lflag = @ + 1] \in Escapes
  <2>1. e.lflag + 1 \in Nat
    BY DEF Escapes
  <2> QED
    BY <2>1 DEF Escapes
<1> QED
  BY <1>1, <1>2, <1>3, <1>4, <1>5, Zenon

\* So does a precision that becomes the width.
LEMMA EscapeSetBoth ==
    ASSUME NEW e \in Escapes, NEW w \in Int, NEW pr \in Int
    PROVE  [e EXCEPT !.width = w, !.precision = pr] \in Escapes
BY DEF Escapes

\* A flag, or a number, is passed, or its argument taken.
LEMMA FlagPosition ==
    ASSUME Position, esc.on, esc'.on, fmt' = fmt, args' \in Seq(Arg), fp' \in fp .. Len(fmt) + 1,
           Len(args') + fp' >= Len(args) + fp
    PROVE  Position'
<1>1. /\ Len(fmt) \in Nat /\ Len(args) \in Nat /\ fp \in Nat \ {0} /\ Len(args') \in Nat
  BY AtCharacter
<1>2. Enough(fp) /\ \E k \in 2 .. fp : fmt[k - 1] = "%"
  BY DEF Position
<1>3. \E k \in 2 .. fp' : fmt'[k - 1] = "%"
  <2>1. PICK k \in 2 .. fp : fmt[k - 1] = "%"
    BY <1>2
  <2>2. k \in 2 .. fp' /\ fmt'[k - 1] = "%"
    BY <1>1, <2>1
  <2> QED
    BY <2>2
<1>4. (Enough(fp))'
  BY <1>1, <1>2 DEF Enough
<1>5. fmt' \in Text /\ fp' \in 1 .. Len(fmt') + 1
  BY <1>1 DEF Position
<1> QED
  BY <1>3, <1>4, <1>5 DEF Position

\* vprintfmt has as many arguments left as characters, when it looks at one.
LEMMA NextArgument ==
    ASSUME Position, esc.on, ch # NUL
    PROVE  /\ args[1] \in Arg /\ Tail(args) \in Seq(Arg) /\ Len(Tail(args)) = Len(args) - 1
           /\ fp + 1 \in 2 .. Len(fmt) + 1 /\ Enough(fp)
<1>1. /\ Len(fmt) \in Nat /\ Len(args) \in Nat /\ fp \in Nat \ {0} /\ fp \in 1 .. Len(fmt)
  BY AtCharacter
<1>2. Enough(fp) /\ args \in Seq(Arg)
  BY DEF Position
<1>3. Len(args) >= 1
  BY <1>1, <1>2 DEF Enough
<1>4. args # <<>> /\ args[1] \in Arg
  BY <1>1, <1>2, <1>3
<1>5. Tail(args) \in Seq(Arg) /\ Len(Tail(args)) = Len(args) - 1
  BY <1>2, <1>4, HeadTailProperties
<1> QED
  BY <1>1, <1>2, <1>4, <1>5

\* A conversion takes one argument at most.
LEMMA ConvertPosition ==
    ASSUME Position, esc.on, ch # NUL, esc' = NoEscape, fp' = fp + 1, fmt' = fmt,
           args' = args \/ args' = Tail(args)
    PROVE  Position'
<1>1. /\ Tail(args) \in Seq(Arg) /\ Len(Tail(args)) = Len(args) - 1
      /\ fp + 1 \in 2 .. Len(fmt) + 1 /\ Enough(fp)
  BY NextArgument
<1>2. Len(fmt) \in Nat /\ Len(args) \in Nat /\ fp \in Nat \ {0} /\ args \in Seq(Arg) /\ fmt \in Text
  BY AtCharacter DEF Position
<1>3. args' \in Seq(Arg) /\ Len(args') \in Len(args) - 1 .. Len(args)
  BY <1>1, <1>2
<1>4. Len(args') + fp' >= Len(fmt') + 1 /\ fp' \in fp' .. Len(fmt') + 1 /\ fp' \in 1 .. Len(fmt') + 1
  BY <1>1, <1>2, <1>3 DEF Enough
<1>5. PICK q : q = fp'
  OBVIOUS
<1>6. q \in fp' .. Len(fmt') + 1 /\ LiteralTo(q)' /\ Enough(q)'
  BY <1>2, <1>4, <1>5 DEF LiteralTo, Enough
<1>7. ~ esc'.on
  BY DEF NoEscape
<1> QED
  BY <1>2, <1>3, <1>4, <1>6, <1>7 DEF Position

\* Behind an escape sequence there is a last %, and the way back to it leads to it.
LEMMA LastPercent ==
    ASSUME Position, esc.on
    PROVE  /\ BehindPercent \in 2 .. fp /\ fmt[BehindPercent - 1] = "%"
           /\ \A j \in BehindPercent .. fp - 1 : fmt[j] # "%"
<1> DEFINE T == {m \in 0 .. fp - 2 : fmt[fp - m - 1] = "%"}
<1>1. fp \in Nat \ {0}
  BY AtCharacter
<1>2. PICK k \in 2 .. fp : fmt[k - 1] = "%"
  BY DEF Position
<1>3. fp - k \in T
  <2>1. fp - k \in 0 .. fp - 2 /\ fp - (fp - k) - 1 = k - 1
    BY <1>1, <1>2
  <2> QED
    BY <1>2, <2>1
<1>4. PICK m \in T : \A y \in T : m <= y
  <2>1. T \subseteq Nat /\ T # {}
    BY <1>3
  <2> HIDE DEF T
  <2> QED
    BY <2>1, LeastNumber
<1>5. m \in 0 .. fp - 2 /\ fmt[fp - m - 1] = "%"
  OBVIOUS
<1>6. ASSUME NEW j \in fp - m .. fp - 1 PROVE fmt[j] # "%"
  <2>1. fp - j - 1 \in 0 .. fp - 2 /\ fp - j - 1 < m /\ fp - (fp - j - 1) - 1 = j
    BY <1>1, <1>5
  <2>2. fp - j - 1 \notin T
    <3> HIDE DEF T
    <3> QED
      BY <1>4, <1>5, <2>1
  <2> QED
    BY <2>1, <2>2
<1> HIDE DEF T
<1>7. PICK r : r = fp - m
  OBVIOUS
<1>8. r \in 2 .. fp /\ fmt[r - 1] = "%" /\ \A j \in r .. fp - 1 : fmt[j] # "%"
  BY <1>1, <1>5, <1>6, <1>7
<1> QED
  BY <1>8, Zenon DEF BehindPercent

\* What follows it is literal text the second time.
LEMMA BackPosition ==
    ASSUME Position, esc.on, esc' = NoEscape, fp' = BehindPercent, UNCHANGED <<fmt, args>>
    PROVE  Position'
<1>1. fp' \in 2 .. fp /\ \A j \in fp' .. fp - 1 : fmt[j] # "%"
  BY LastPercent
<1>2. /\ Len(fmt) \in Nat /\ Len(args) \in Nat /\ fp \in 1 .. Len(fmt) + 1 /\ Enough(fp)
      /\ args \in Seq(Arg) /\ fmt \in Text
  BY AtCharacter DEF Position
<1>3. PICK q : q = fp
  OBVIOUS
<1>4. q \in fp' .. Len(fmt') + 1 /\ LiteralTo(q)' /\ Enough(q)'
  BY <1>1, <1>2, <1>3 DEF LiteralTo, Enough
<1>5. ~ esc'.on /\ fp' \in 1 .. Len(fmt') + 1
  BY <1>1, <1>2 DEF NoEscape
<1> QED
  BY <1>2, <1>4, <1>5 DEF Position

-----------------------------------------------------------------------------
(* What is put *)

\* What %e puts is text,
LEMMA ErrorText ==
    ASSUME NEW x \in Int
    PROVE  LET err == IF x < 0 THEN - x ELSE x
           IN (IF err > MAXERROR \/ err = 0 THEN <<"e", " ">> \o printnum(err, 10, -1, " ")
               ELSE error_string(err)) \in Seq(Char)
<1> DEFINE err == IF x < 0 THEN - x ELSE x
           number == printnum(err, 10, -1, Space)
<1>1. err \in Nat
  OBVIOUS
<1> HIDE DEF err
<1>2. number \in Seq(Char)
  BY <1>1, Padding, NumberText
<1> HIDE DEF number
<1>3. <<"e", Space>> \in Seq(Char)
  BY Padding, Letters
<1>4. Joined(<<"e", Space>>, number) \in Seq(Char)
  BY <1>2, <1>3, JoinedText
<1>5. ~ (err > MAXERROR \/ err = 0) => error_string(err) \in Seq(Char)
  <2> SUFFICES ASSUME ~ (err > MAXERROR \/ err = 0) PROVE error_string(err) \in Seq(Char)
    OBVIOUS
  <2>1. err \in 0 .. 15
    BY <1>1 DEF MAXERROR
  <2>2. Digit(err) \in Char /\ "e" \in Char
    BY <2>1, DigitChar, Letters
  <2> QED
    BY <2>2 DEF error_string
<1> QED
  BY <1>4, <1>5, Zenon DEF Joined, Space, number, err

\* and what %s puts,
LEMMA ArgumentText ==
    ASSUME esc \in Escapes, NEW x \in Arg
    PROVE  StringField(IF x.s = NoString THEN NullText ELSE x.s) \in Seq(Char)
<1>1. NullText \in Text
  <2>1. "z" \in Char \ {NUL}
    BY Letters DEF NUL
  <2> QED
    BY <2>1 DEF NullText, Text
<1>2. x.s \in Text \union {NoString}
  BY DEF Arg
<1>3. (IF x.s = NoString THEN NullText ELSE x.s) \in Text
  BY <1>1, <1>2
<1> QED
  BY <1>3, FieldText

\* and what the conversions of numbers put.
LEMMA NumberPut ==
    ASSUME esc \in Escapes, IsNumber(ch), args[1] \in Arg
    PROVE  (Prefix \o printnum(Magnitude, Base[ch], esc.width, esc.padc)) \in Seq(Char)
<1>1. Base[ch] \in {8, 10, 16}
  BY DEF IsNumber, Base
<1>2. args[1].i \in Int /\ esc.lflag \in Nat /\ esc.width \in Int /\ esc.padc \in Char
  BY EscapeParts DEF Arg
<1>3. /\ getint(args[1].i, esc.lflag) \in Int /\ getuint(args[1].i, 2) \in Int
      /\ getuint(args[1].i, esc.lflag) \in Int
  <2>1. 2 \in Nat
    OBVIOUS
  <2>2. getuint(args[1].i, 2) \in Nat
    BY <1>2, <2>1, ArgumentRead
  <2>3. getuint(args[1].i, esc.lflag) \in Nat /\ getint(args[1].i, esc.lflag) \in Int
    BY <1>2, ArgumentRead
  <2> QED
    BY <2>2, <2>3
<1>4. Value \in Int
  BY <1>3 DEF Value
<1>5. Magnitude \in Nat
  BY <1>4 DEF Magnitude
<1>6. Prefix \in Seq(Char)
  <2>1. "-" \in Char /\ "0" \in Char /\ "x" \in Char
    BY Padding, Letters DEF Paddings
  <2>2. <<"-">> \in Seq(Char) /\ <<"0", "x">> \in Seq(Char) /\ <<>> \in Seq(Char)
    BY <2>1
  <2> QED
    BY <2>2, Zenon DEF Prefix
<1>7. printnum(Magnitude, Base[ch], esc.width, esc.padc) \in Seq(Char)
  BY <1>1, <1>2, <1>5, NumberText
<1>8. Joined(Prefix, printnum(Magnitude, Base[ch], esc.width, esc.padc)) \in Seq(Char)
  BY <1>6, <1>7, JoinedText
<1> QED
  BY <1>8, Zenon DEF Joined

-----------------------------------------------------------------------------
(* The invariant *)

\* A step within vprintfmt has to keep the output and the position.
LEMMA GoesOn ==
    ASSUME FmtInv, Printing, UNCHANGED <<call, old>>, esc' \in {NoEscape} \union Escapes,
           Output', Position'
    PROVE  FmtInv'
<1>1. old' = Blank /\ Printing' /\ call.fn # "returned" /\ call'.fn # "returned"
  BY DEF FmtInv, Printing
<1>2. call' # None
  BY DEF Printing, None
<1>3. Truncates'
  BY <1>1 DEF Truncates
<1> QED
  BY <1>1, <1>2, <1>3 DEF FmtInv

\* One lemma for each action.
LEMMA LiteralInv == ASSUME FmtInv, Literal PROVE FmtInv'
<1>1. /\ Printing /\ ~ esc.on /\ ch \notin {"%", NUL} /\ Put(<<ch>>) /\ fp' = fp + 1
      /\ UNCHANGED <<call, old, fmt, args, esc>>
  BY DEF Literal
<1>2. Output /\ Position /\ esc \in {NoEscape} \union Escapes
  BY <1>1 DEF FmtInv
<1>3. <<ch>> \in Seq(Char)
  BY <1>2, AtCharacter, OneCharacter
<1>4. Output'
  BY <1>1, <1>2, <1>3, PutKeeps
<1>5. Position'
  BY <1>1, <1>2, LiteralPosition
<1> QED
  BY <1>1, <1>2, <1>4, <1>5, GoesOn

\* While nothing is put the output stays.
LEMMA OutputStays ==
    ASSUME Output, UNCHANGED <<call, mem, old, b, out>>
    PROVE  Output'
BY DEF Output, Buffer, Contents, Fits

LEMMA PercentInv == ASSUME FmtInv, Percent PROVE FmtInv'
<1>1. Printing /\ UNCHANGED <<call, mem, old, b, out>>
  BY DEF Percent, memvars
<1>2. Output /\ Position
  BY <1>1 DEF FmtInv
<1>3. Output'
  BY <1>1, <1>2, OutputStays
<1>4. Position' /\ esc' \in Escapes
  BY <1>2, PercentPosition
<1> QED
  BY <1>1, <1>3, <1>4, GoesOn

\* An escape sequence that is on is one.
LEMMA EscapeOn == ASSUME FmtInv, esc.on PROVE esc \in Escapes
BY DEF FmtInv, NoEscape

LEMMA UnrecognizedInv == ASSUME FmtInv, Unrecognized PROVE FmtInv'
<1>1. /\ Printing /\ esc.on /\ Put(<<"%">>) /\ fp' = BehindPercent /\ esc' = NoEscape
      /\ UNCHANGED <<call, old, fmt, args>>
  BY DEF Unrecognized
<1>2. Output /\ Position
  BY <1>1 DEF FmtInv
<1>3. <<"%">> \in Seq(Char)
  BY Letters, OneCharacter
<1>4. Output'
  BY <1>1, <1>2, <1>3, PutKeeps
<1>5. Position'
  BY <1>1, <1>2, BackPosition
<1> QED
  BY <1>1, <1>4, <1>5, GoesOn

LEMMA ConvertInv == ASSUME FmtInv, Convert PROVE FmtInv'
<1>1. /\ Printing /\ esc.on /\ fp' = fp + 1 /\ esc' = NoEscape
      /\ UNCHANGED <<call, old, fmt>>
  BY Zenon DEF Convert
<1>2. Character \/ Error \/ String \/ Number
  BY Zenon DEF Convert
<1>3. Output /\ Position /\ esc \in Escapes
  BY <1>1, EscapeOn DEF FmtInv
<1>4. ch # NUL => args[1] \in Arg
  BY <1>1, <1>3, NextArgument
<1>5. ch # NUL /\ (args' = args \/ args' = Tail(args)) /\ \E cs \in Seq(Char) : Put(cs)
  <2>1. CASE ch = "c" /\ Put(<<args[1].c>>) /\ args' = Tail(args)
    <3>1. ch # NUL
      BY <2>1 DEF NUL
    <3>2. args[1].c \in Char
      BY <1>4, <3>1 DEF Arg
    <3>3. <<args[1].c>> \in Seq(Char)
      BY <3>2, OneCharacter
    <3> QED
      BY <2>1, <3>1, <3>3, Zenon
  <2>2. CASE ch = "%" /\ Put(<<"%">>) /\ UNCHANGED args
    <3>1. ch # NUL /\ <<"%">> \in Seq(Char)
      BY <2>2, Letters, OneCharacter DEF NUL
    <3> QED
      BY <2>2, <3>1, Zenon
  <2>3. CASE Error
    <3>1. ch = "e" /\ args' = Tail(args)
      BY <2>3, Zenon DEF Error
    <3>2. ch # NUL
      BY <3>1 DEF NUL
    <3>3. args[1].i \in Int
      BY <1>4, <3>2 DEF Arg
    <3>4. PICK x : x = getint(args[1].i, 0)
      OBVIOUS
    <3>5. x \in Int
      BY <3>3, <3>4, ArgumentRead
    <3> DEFINE err == IF x < 0 THEN - x ELSE x
               cs == IF err > MAXERROR \/ err = 0 THEN <<"e", " ">> \o printnum(err, 10, -1, " ")
                     ELSE error_string(err)
    <3>6. Put(cs)
      BY <2>3, <3>4, Zenon DEF Error
    <3>7. cs \in Seq(Char)
      BY <3>5, ErrorText, Zenon
    <3> QED
      BY <3>1, <3>2, <3>6, <3>7, Zenon
  <2>4. CASE String
    <3>1. /\ ch = "s" /\ args' = Tail(args)
          /\ Put(StringField(IF args[1].s = NoString THEN NullText ELSE args[1].s))
      BY <2>4, Zenon DEF String
    <3>2. ch # NUL
      BY <3>1 DEF NUL
    <3>3. StringField(IF args[1].s = NoString THEN NullText ELSE args[1].s) \in Seq(Char)
      BY <1>3, <1>4, <3>2, ArgumentText
    <3> QED
      BY <3>1, <3>2, <3>3, Zenon
  <2>5. CASE Number
    <3>1. IsNumber(ch) /\ args' = Tail(args)
      BY <2>5, Zenon DEF Number
    <3>2. ch # NUL
      BY <3>1 DEF NUL, IsNumber, Base
    <3> DEFINE cs == Prefix \o printnum(Magnitude, Base[ch], esc.width, esc.padc)
    <3>3. Put(cs)
      BY <2>5, Zenon DEF Number
    <3>4. cs \in Seq(Char)
      <4>1. args[1] \in Arg
        BY <1>4, <3>2
      <4> QED
        BY <1>3, <3>1, <4>1, NumberPut, Zenon
    <3> QED
      BY <3>1, <3>2, <3>3, <3>4, Zenon
  <2> QED
    BY <1>2, <2>1, <2>2, <2>3, <2>4, <2>5, Zenon DEF Character
<1>6. Output'
  <2>1. PICK cs \in Seq(Char) : Put(cs)
    BY <1>5
  <2> QED
    BY <1>1, <1>3, <2>1, PutKeeps
<1>7. Position'
  BY <1>1, <1>3, <1>5, ConvertPosition
<1> QED
  BY <1>1, <1>6, <1>7, GoesOn

\* process_precision sets the width or the precision.
LEMMA PrecisionSet ==
    ASSUME esc \in Escapes, NEW x \in Int, process_precision(x)
    PROVE  esc' \in Escapes
<1>1. esc' = [esc EXCEPT !.width = x, !.precision = -1] \/ esc' = [esc EXCEPT !.precision = x]
  BY DEF process_precision
<1>2. [esc EXCEPT !.precision = x] \in Escapes
  BY EscapeSet
<1>3. [esc EXCEPT !.width = x, !.precision = -1] \in Escapes
  <2>1. -1 \in Int
    OBVIOUS
  <2> QED
    BY <2>1, EscapeSetBoth
<1> QED
  BY <1>1, <1>2, <1>3

\* Every flag leaves an escape sequence, and arguments for the characters after it.
LEMMA FlagEscape ==
    ASSUME Output, Position, esc \in Escapes, Flag
    PROVE  /\ esc' \in Escapes /\ args' \in Seq(Arg) /\ fp' \in fp .. Len(fmt) + 1
           /\ Len(args') + fp' >= Len(args) + fp
<1>1. esc.on /\ Len(fmt) \in Nat /\ Len(args) \in Nat /\ fp \in Nat \ {0} /\ args \in Seq(Arg)
  BY EscapeParts, AtCharacter DEF Position
<1>2. ch # NUL => /\ args[1] \in Arg /\ Tail(args) \in Seq(Arg) /\ Len(Tail(args)) = Len(args) - 1
                  /\ fp + 1 \in fp .. Len(fmt) + 1
  <2> SUFFICES ASSUME ch # NUL
               PROVE  /\ args[1] \in Arg /\ Tail(args) \in Seq(Arg) /\ Len(Tail(args)) = Len(args) - 1
                      /\ fp + 1 \in fp .. Len(fmt) + 1
    OBVIOUS
  <2>1. /\ args[1] \in Arg /\ Tail(args) \in Seq(Arg) /\ Len(Tail(args)) = Len(args) - 1
        /\ fp + 1 \in 2 .. Len(fmt) + 1
    BY <1>1, NextArgument
  <2> QED
    BY <1>1, <2>1
<1>3. ASSUME ch # NUL, fp' = fp + 1, args' = args
      PROVE  args' \in Seq(Arg) /\ fp' \in fp .. Len(fmt) + 1 /\ Len(args') + fp' >= Len(args) + fp
  BY <1>1, <1>2, <1>3
<1>4. CASE ch = "-" /\ esc' = [esc EXCEPT !.padc = "-"] /\ fp' = fp + 1 /\ UNCHANGED args
  <2>1. esc' \in Escapes /\ ch # NUL
    BY <1>4, EscapeSet DEF NUL, Paddings
  <2> QED
    BY <1>3, <1>4, <2>1
<1>5. CASE ch = "0" /\ esc' = [esc EXCEPT !.padc = "0"] /\ fp' = fp + 1 /\ UNCHANGED args
  <2>1. esc' \in Escapes /\ ch # NUL
    BY <1>5, EscapeSet DEF NUL, Paddings
  <2> QED
    BY <1>3, <1>5, <2>1
<1>6. CASE /\ \/ ch = "." /\ esc' = [esc EXCEPT !.width = IF @ < 0 THEN 0 ELSE @]
              \/ ch = "#" /\ esc' = [esc EXCEPT !.altflag = TRUE]
              \/ ch = "l" /\ esc' = [esc EXCEPT !.lflag = @ + 1]
           /\ fp' = fp + 1 /\ UNCHANGED args
  <2>1. (IF esc.width < 0 THEN 0 ELSE esc.width) \in Int
    <3>1. esc.width \in Int
      BY EscapeParts
    <3> QED
      BY <3>1
  <2>2. [esc EXCEPT !.width = IF @ < 0 THEN 0 ELSE @] \in Escapes
    BY <2>1, EscapeSet
  <2>3. [esc EXCEPT !.altflag = TRUE] \in Escapes /\ [esc EXCEPT !.lflag = @ + 1] \in Escapes
    BY EscapeSet
  <2>4. esc' \in Escapes /\ ch # NUL
    BY <1>6, <2>2, <2>3, Zenon DEF NUL
  <2> QED
    BY <1>3, <1>6, <2>4
<1>7. CASE /\ ch = "*" /\ process_precision(getint(args[1].i, 0))
           /\ fp' = fp + 1 /\ args' = Tail(args)
  <2>1. ch # NUL
    BY <1>7 DEF NUL
  <2>2. args[1].i \in Int /\ 0 \in Nat
    BY <1>2, <2>1 DEF Arg
  <2>3. getint(args[1].i, 0) \in Int
    BY <2>2, ArgumentRead
  <2>4. esc' \in Escapes
    BY <1>7, <2>3, PrecisionSet
  <2> QED
    BY <1>1, <1>2, <1>7, <2>1, <2>4
<1>8. CASE /\ LET number == strtol(SubSeq(fmt, fp, Len(fmt)), 10)
              IN process_precision(number.val) /\ fp' = PastDigits(number)
           /\ UNCHANGED args
  <2> DEFINE rest == SubSeq(fmt, fp, Len(fmt))
  <2>1. rest \in Text /\ Len(rest) = Len(fmt) + 1 - fp
    <3>1. fmt \in Seq(Char \ {NUL}) /\ fp \in 1 .. Len(fmt) + 1 /\ Len(fmt) \in 0 .. Len(fmt)
      BY <1>1 DEF Position, Text
    <3>2. fp \in 1 .. Len(fmt) + 1 /\ Len(fmt) \in fp - 1 .. Len(fmt)
      BY <1>1, <3>1
    <3> QED
      BY <1>1, <3>1, <3>2, SubSeqProperties DEF Text
  <2> HIDE DEF rest
  <2>2. strtol(rest, 10).val \in Int /\ strtol(rest, 10).end \in 1 .. Len(rest) + 1
    BY <2>1, WidthRead
  <2>3. process_precision(strtol(rest, 10).val) /\ fp' = fp + strtol(rest, 10).end - 1 /\ args' = args
    BY <1>8, Zenon DEF rest, PastDigits
  <2>4. esc' \in Escapes
    BY <2>2, <2>3, PrecisionSet
  <2>5. fp' \in fp .. Len(fmt) + 1 /\ Len(args') + fp' >= Len(args) + fp
    <3>1. PICK e : e = strtol(rest, 10).end
      OBVIOUS
    <3>2. e \in 1 .. Len(fmt) + 2 - fp /\ fp' = fp + e - 1
      BY <1>1, <2>1, <2>2, <2>3, <3>1
    <3> QED
      BY <1>1, <2>3, <3>2
  <2> QED
    BY <1>1, <2>3, <2>4, <2>5
<1> QED
  BY <1>4, <1>5, <1>6, <1>7, <1>8, Zenon DEF Flag

LEMMA FlagInv == ASSUME FmtInv, Flag PROVE FmtInv'
<1>1. Printing /\ esc.on /\ fmt' = fmt /\ UNCHANGED <<call, mem, old, b, out>>
  BY Zenon DEF Flag, memvars
<1>2. Output /\ Position /\ esc \in Escapes
  BY <1>1, EscapeOn DEF FmtInv
<1>3. /\ esc' \in Escapes /\ args' \in Seq(Arg) /\ fp' \in fp .. Len(fmt) + 1
      /\ Len(args') + fp' >= Len(args) + fp
  BY <1>2, FlagEscape
<1>4. esc'.on
  BY <1>3, EscapeParts
<1>5. Output'
  BY <1>1, <1>2, OutputStays
<1>6. Position'
  BY <1>1, <1>2, <1>3, <1>4, FlagPosition
<1> QED
  BY <1>1, <1>3, <1>5, <1>6, GoesOn

LEMMA EndInv == ASSUME FmtInv, FormatEnd PROVE FmtInv'
<1>1. /\ Printing /\ ~ esc.on
      /\ mem' = IF call.fn = "snprintf" THEN [mem EXCEPT ![b.buf] = NUL] ELSE mem
      /\ ret' = b.cnt
      /\ call' = IF call.fn = "snprintf" THEN [call EXCEPT !.fn = "returned"]
                 ELSE [fn |-> "returned", str |-> NULL, size |-> 0]
      /\ UNCHANGED <<old, esc, b, out>>
  BY DEF FormatEnd
<1>2. Output /\ old = Blank /\ esc = NoEscape
  <2>1. esc \in {NoEscape} \union Escapes
    BY DEF FmtInv
  <2>2. esc \notin Escapes
    BY <1>1, EscapeParts
  <2> QED
    BY <1>1, <2>1, <2>2 DEF FmtInv
<1>3. ret' = Len(out') /\ Len(out) \in Nat
  BY <1>1, <1>2 DEF Output
<1>4. Truncates'
  <2>1. CASE call.fn = "snprintf"
    <3>1. Buffer
      BY <1>2, <2>1 DEF Output
    <3>2. /\ call.str \in Int /\ call.size \in Nat \ {0} /\ Area(call.str, call.size) \subseteq Cell
          /\ b.buf = call.str + Fits /\ mem = Contents(Fits)
      BY <3>1, MemAssumption DEF Buffer, Cell
    <3>3. Fits \in Nat /\ Fits <= call.size - 1
      BY <1>3, <3>2 DEF Fits
    <3>4. Least({Len(out), call.size - 1}) = Fits
      BY <1>3, <3>2, LeastOfTwo DEF Fits
    <3>5. b.buf \in Cell /\ b.buf \notin Area(call.str, Fits)
      BY <3>2, <3>3 DEF Area
    <3>6. mem' = [mem EXCEPT ![b.buf] = NUL]
      BY <1>1, <2>1
    <3>7. mem' = [a \in Cell |-> IF a \in Area(call.str, Fits) THEN out[a - call.str + 1]
                                 ELSE IF a = call.str + Fits THEN NUL ELSE old[a]]
      BY <3>2, <3>5, <3>6 DEF Contents
    <3>8. call'.str = call.str /\ call'.size = call.size
      BY <1>1, <2>1
    <3> QED
      BY <1>1, <1>3, <3>4, <3>7, <3>8 DEF Truncates
  <2>2. CASE call.fn # "snprintf"
    <3>1. call'.str = NULL
      BY <1>1, <2>2
    <3> QED
      BY <1>3, <3>1 DEF Truncates
  <2> QED
    BY <2>1, <2>2
<1>5. call'.fn = "returned"
  BY <1>1
<1> QED
  BY <1>1, <1>2, <1>4, <1>5 DEF FmtInv, Printing, None

LEMMA ReturnInv == ASSUME FmtInv, FormatReturn PROVE FmtInv'
<1>1. /\ ~ Printing
      /\ call' = None /\ mem' = Blank /\ b' = NoBuf /\ out' = <<>> /\ UNCHANGED <<old, esc>>
  BY DEF FormatReturn, Printing
<1>2. ~ Printing' /\ call'.fn # "returned"
  BY <1>1 DEF Printing, None
<1> QED
  BY <1>1, <1>2 DEF FmtInv, Truncates

\* At its beginning vprintfmt has an argument for each character.
LEMMA BeginPosition ==
    ASSUME NEW f \in Text, NEW a \in Seq(Arg), Len(a) >= Len(f), Begin(f, a), esc' = NoEscape
    PROVE  Position'
<1>1. fmt' = f /\ fp' = 1 /\ args' = a /\ Len(f) \in Nat /\ Len(a) \in Nat
  BY DEF Begin, Text
<1>2. PICK q : q = 1
  OBVIOUS
<1>3. q \in fp' .. Len(fmt') + 1 /\ LiteralTo(q)' /\ Enough(q)'
  BY <1>1, <1>2 DEF LiteralTo, Enough
<1>4. ~ esc'.on /\ fp' \in 1 .. Len(fmt') + 1
  BY <1>1 DEF NoEscape
<1> QED
  BY <1>1, <1>3, <1>4 DEF Position

\* A caller finds memory blank and nothing put.
LEMMA IdleFormat ==
    ASSUME FmtInv, call = None
    PROVE  mem = Blank /\ old = Blank /\ out = <<>> /\ b = NoBuf /\ esc = NoEscape
BY DEF FmtInv, Printing, None

LEMMA CprintfInv ==
    ASSUME FmtInv, NEW f \in Text, NEW a \in Seq(Arg), Len(a) >= Len(f), cprintf(f, a)
    PROVE  FmtInv'
<1>1. /\ call = None /\ call' = [fn |-> "cprintf"] /\ Begin(f, a)
      /\ UNCHANGED <<mem, old, esc, b, out>>
  BY DEF cprintf
<1>2. mem = Blank /\ old = Blank /\ out = <<>> /\ b = NoBuf /\ esc = NoEscape
  BY <1>1, IdleFormat
<1>3. Position'
  BY <1>1, <1>2, BeginPosition
<1>4. Output'
  BY <1>1, <1>2 DEF Output, NoBuf
<1>5. Printing' /\ call' # None /\ call'.fn # "returned"
  BY <1>1 DEF Printing, None
<1> QED
  BY <1>1, <1>2, <1>3, <1>4, <1>5 DEF FmtInv, Truncates

LEMMA SnprintfInv ==
    ASSUME FmtInv, NEW f \in Text, NEW a \in Seq(Arg), Len(a) >= Len(f),
           NEW str \in Cell \union {NULL}, NEW size \in Nat,
           str # NULL => Area(str, size) \subseteq Cell, snprintf(str, size, f, a)
    PROVE  FmtInv'
<1>1. /\ call = None
      /\ call' = [fn |-> IF str = NULL \/ size = 0 THEN "returned" ELSE "snprintf",
                  str |-> str, size |-> size]
      /\ UNCHANGED <<mem, old, esc, out>>
  BY DEF snprintf
<1>2. mem = Blank /\ old = Blank /\ out = <<>> /\ b = NoBuf /\ esc = NoEscape
  BY <1>1, IdleFormat
<1>3. CASE str = NULL \/ size = 0
  <2>1. call'.fn = "returned" /\ ret' = - E_INVAL
    BY <1>1, <1>3 DEF snprintf
  <2>2. ~ (ret' >= 0)
    BY <2>1 DEF E_INVAL
  <2>3. call' # None /\ ~ Printing'
    BY <2>1 DEF None, Printing
  <2> QED
    BY <1>1, <1>2, <2>2, <2>3 DEF FmtInv, Truncates
<1>4. CASE ~ (str = NULL \/ size = 0)
  <2>1. /\ Begin(f, a) /\ b' = [buf |-> str, ebuf |-> str + size - 1, cnt |-> 0]
        /\ call'.fn = "snprintf" /\ call'.str = str /\ call'.size = size
    BY <1>1, <1>4 DEF snprintf
  <2>2. str \in Cell /\ str \in Int /\ size \in Nat \ {0} /\ Area(str, size) \subseteq Cell
    BY <1>4, MemAssumption DEF Cell
  <2>3. Position'
    BY <1>1, <1>2, <2>1, BeginPosition
  <2>4. Fits' = 0
    <3>1. Len(out') = 0 /\ 0 <= size - 1
      BY <1>1, <1>2, <2>2
    <3> QED
      BY <2>1, <3>1 DEF Fits
  <2>5. mem' = Contents(Fits)'
    <3>1. Area(str, 0) = {}
      BY <2>2 DEF Area
    <3> QED
      BY <1>1, <1>2, <2>1, <2>4, <3>1 DEF Contents, Blank
  <2>6. b'.buf = call'.str + Fits' /\ b'.ebuf = call'.str + (call'.size - 1)
    BY <2>1, <2>2, <2>4
  <2>7. Buffer'
    BY <2>1, <2>2, <2>5, <2>6 DEF Buffer
  <2>8. b' \in [buf : Int, ebuf : Int, cnt : Int] /\ b'.cnt = 0
    BY <2>1, <2>2
  <2>9. Output'
    BY <1>1, <1>2, <2>7, <2>8 DEF Output
  <2>10. Printing' /\ call' # None /\ call'.fn # "returned"
    BY <2>1 DEF Printing, None
  <2> QED
    BY <1>1, <1>2, <2>3, <2>9, <2>10 DEF FmtInv, Truncates
<1> QED
  BY <1>3, <1>4

\* The callers start in the invariant,
LEMMA FormatInit == MemInit /\ FmtInit => FmtInv
BY DEF MemInit, FmtInit, FmtInv, Printing, None, Truncates

\* and no step leaves it.
LEMMA FormatNext == FmtInv /\ [FmtNext]_<<memvars, fmtvars>> => FmtInv'
<1> SUFFICES ASSUME FmtInv, [FmtNext]_<<memvars, fmtvars>> PROVE FmtInv'
  OBVIOUS
<1>1. CASE AnyFormat
  <2>1. PICK f \in Text, a \in Seq(Arg) :
            /\ Len(a) >= Len(f)
            /\ \/ cprintf(f, a)
               \/ \E str \in Cell \union {NULL}, size \in Nat :
                    /\ str # NULL => Area(str, size) \subseteq Cell
                    /\ snprintf(str, size, f, a)
    BY <1>1, Zenon DEF AnyFormat
  <2>2. CASE cprintf(f, a)
    BY <2>1, <2>2, CprintfInv
  <2>3. ASSUME NEW str \in Cell \union {NULL}, NEW size \in Nat,
               str # NULL => Area(str, size) \subseteq Cell, snprintf(str, size, f, a)
        PROVE  FmtInv'
    BY <2>1, <2>3, SnprintfInv
  <2> QED
    BY <2>1, <2>2, <2>3, Zenon
<1>2. CASE Literal
  BY <1>2, LiteralInv
<1>3. CASE Percent
  BY <1>3, PercentInv
<1>4. CASE Flag
  BY <1>4, FlagInv
<1>5. CASE Convert
  BY <1>5, ConvertInv
<1>6. CASE Unrecognized
  BY <1>6, UnrecognizedInv
<1>7. CASE FormatEnd
  BY <1>7, EndInv
<1>8. CASE FormatReturn
  BY <1>8, ReturnInv
<1>9. CASE UNCHANGED <<memvars, fmtvars>>
  <2>1. UNCHANGED <<mem, call, old, fmt, fp, args, esc, b, ret, out>>
    BY <1>9 DEF memvars, fmtvars
  <2>2. (Output' <=> Output) /\ (Position' <=> Position)
    BY <2>1 DEF Output, Buffer, Contents, Fits, Position, LiteralTo, Enough
  <2>3. Truncates' <=> Truncates
    BY <2>1 DEF Truncates
  <2> QED
    BY <2>1, <2>2, <2>3 DEF FmtInv, Printing
<1> QED
  BY <1>1, <1>2, <1>3, <1>4, <1>5, <1>6, <1>7, <1>8, <1>9 DEF FmtNext, FormatStep

\* vsnprintf never writes outside the size bytes it was given, whatever the format, its
\* arguments and the widths in it; it leaves as much of the output as fits, terminated,
\* and returns the length of all of it, as vcprintf does (printfmt.c:293-326).
THEOREM OutputTruncated == FmtSpec => []Truncates
<1>1. FmtInv => Truncates
  BY DEF FmtInv
<1> QED
  BY <1>1, FormatInit, FormatNext, PTL DEF FmtSpec

-----------------------------------------------------------------------------
(* Characters                                                              *)

\* What readline echoes, and what it takes for the end of a line.
OnScreen == {c \in Char : Printable(c)}
Newlines == {"\n", "\r"}

\* The characters that readline and parse treat in their own way,
LEMMA BlankPlaces ==
    /\ Alphabet[3] = "BS" /\ \A k \in 1 .. 44 : Alphabet[k] = "BS" => k = 3
    /\ Alphabet[4] = "\t" /\ \A k \in 1 .. 44 : Alphabet[k] = "\t" => k = 4
    /\ Alphabet[5] = "\n" /\ \A k \in 1 .. 44 : Alphabet[k] = "\n" => k = 5
    /\ Alphabet[6] = "\r" /\ \A k \in 1 .. 44 : Alphabet[k] = "\r" => k = 6
    /\ Alphabet[7] = Space /\ \A k \in 1 .. 44 : Alphabet[k] = Space => k = 7
BY DEF Alphabet, NUL, Space

\* and their codes.
LEMMA BlankCodes ==
    /\ ord["BS"] = 3 /\ ord["\t"] = 4 /\ ord["\n"] = 5 /\ ord["\r"] = 6
    /\ Space \in Char /\ ord[Space] = 7
<1>1. 3 \in 1 .. 44 /\ 4 \in 1 .. 44 /\ 5 \in 1 .. 44 /\ 6 \in 1 .. 44 /\ 7 \in 1 .. 44
  OBVIOUS
<1>2. ord["BS"] = 3
  <2>1. Alphabet[3] = "BS" /\ \A k \in 1 .. 44 : Alphabet[k] = "BS" => k = 3
    BY BlankPlaces, ZenonT(30)
  <2> QED
    BY <1>1, <2>1, CodeIs, ZenonT(30)
<1>3. ord["\t"] = 4
  <2>1. Alphabet[4] = "\t" /\ \A k \in 1 .. 44 : Alphabet[k] = "\t" => k = 4
    BY BlankPlaces, ZenonT(30)
  <2> QED
    BY <1>1, <2>1, CodeIs, ZenonT(30)
<1>4. ord["\n"] = 5
  <2>1. Alphabet[5] = "\n" /\ \A k \in 1 .. 44 : Alphabet[k] = "\n" => k = 5
    BY BlankPlaces, ZenonT(30)
  <2> QED
    BY <1>1, <2>1, CodeIs, ZenonT(30)
<1>5. ord["\r"] = 6
  <2>1. Alphabet[6] = "\r" /\ \A k \in 1 .. 44 : Alphabet[k] = "\r" => k = 6
    BY BlankPlaces, ZenonT(30)
  <2> QED
    BY <1>1, <2>1, CodeIs, ZenonT(30)
<1>6. Space \in Char /\ ord[Space] = 7
  <2>1. Alphabet[7] = Space /\ \A k \in 1 .. 44 : Alphabet[k] = Space => k = 7
    BY BlankPlaces, ZenonT(30)
  <2> QED
    BY <1>1, <2>1, CodeIs
<1> QED
  BY <1>2, <1>3, <1>4, <1>5, <1>6, Zenon

\* Whatever is not echoed has a code below that of a blank.
LEMMA PrintableCode == ASSUME NEW c PROVE Printable(c) <=> ord[c] >= 7
<1>1. Printable(c) <=> ord[c] >= ord[Space]
  BY Zenon DEF Printable, Space
<1> QED
  BY <1>1, BlankCodes

\* The terminator and all of these but the blank are not echoed.
LEMMA Unprintable ==
    /\ ~ Printable(NUL) /\ ~ Printable("BS") /\ ~ Printable("\t")
    /\ \A c \in Newlines : ~ Printable(c)
<1>1. ~ Printable(NUL) 
  BY CodeNul, PrintableCode
<1>2. ~ Printable("BS")
  <2>1. ord["BS"] = 3
    BY BlankCodes, Zenon
  <2> QED
    BY <2>1, PrintableCode
<1>3. ASSUME NEW c, ord[c] = 4 \/ ord[c] = 5 \/ ord[c] = 6 PROVE ~ Printable(c)
  BY <1>3, PrintableCode
<1>4. ~ Printable("\t")
  BY <1>3, BlankCodes, Zenon
<1>5. ~ Printable("\n")
  BY <1>3, BlankCodes, Zenon
<1>6. ~ Printable("\r")
  BY <1>3, BlankCodes, Zenon
<1> QED
  BY <1>1, <1>2, <1>4, <1>5, <1>6, Zenon DEF Newlines

\* Of the characters that can stand in a line, only a blank ends a word.
LEMMA BlankIs ==
    ASSUME NEW c \in OnScreen \union {NUL}
    PROVE  IsBlank(c) <=> c = Space
<1> DEFINE At(k) == CharAt(WHITESPACE, k)
           T == {k \in 1 .. Len(WHITESPACE) + 1 : At(k) \in {c, NUL}}
<1>1. strfind(WHITESPACE, c) = Least(T) /\ Len(WHITESPACE) = 4
  <2>1. strfind(WHITESPACE, c) = Least(T)
    BY Zenon DEF strfind
  <2>2. Len(WHITESPACE) = 4
    BY DEF WHITESPACE
  <2> QED
    BY <2>1, <2>2
<1>2. At(1) = Space /\ At(5) = NUL
  BY DEF WHITESPACE, CharAt, Space
<1>3. \A k \in 2 .. 4 : At(k) \in {"\t", "\n", "\r"}
  <2>1. At(2) = "\t"
    BY DEF WHITESPACE, CharAt
  <2>2. At(3) = "\n"
    BY DEF WHITESPACE, CharAt
  <2>3. At(4) = "\r"
    BY DEF WHITESPACE, CharAt
  <2>4. \A k \in 2 .. 4 : k = 2 \/ k = 3 \/ k = 4
    OBVIOUS
  <2> QED
    BY <2>1, <2>2, <2>3, <2>4, Zenon
<1>4. c # NUL => c \notin {"\t", "\n", "\r"}
  BY Unprintable, Zenon DEF OnScreen, Newlines
<1>5. NUL \notin {Space, "\t", "\n", "\r"}
  BY DEF NUL, Space
<1>6. CASE c = Space
  <2>1. 1 \in T /\ T \subseteq Nat /\ \A y \in T : 1 <= y
    BY <1>1, <1>2, <1>6
  <2>2. Least(T) = 1
    <3> HIDE DEF T
    <3> QED
      BY <2>1, LeastIs
  <2>3. strchr(WHITESPACE, c) = 1 /\ c # NUL
    BY <1>1, <1>2, <1>5, <1>6, <2>2 DEF strchr
  <2> QED
    BY <1>6, <2>3 DEF IsBlank, NULL
<1>7. CASE c # Space /\ c # NUL
  <2>1. ASSUME NEW k \in 1 .. 5, At(k) \in {c, NUL} PROVE k = 5
    <3>1. k = 1 \/ k \in 2 .. 4 \/ k = 5
      OBVIOUS
    <3> QED
      BY <1>2, <1>3, <1>4, <1>5, <1>7, <2>1, <3>1, Zenon
  <2>2. Least(T) = 5
    <3>1. 5 \in T /\ T \subseteq Nat /\ \A y \in T : 5 <= y
      BY <1>1, <1>2, <2>1
    <3> HIDE DEF T
    <3> QED
      BY <3>1, LeastIs
  <2> QED
    BY <1>1, <1>2, <1>7, <2>2 DEF strchr, IsBlank
<1> QED
  BY <1>5, <1>6, <1>7 DEF IsBlank

-----------------------------------------------------------------------------
(* The line on the screen.  Edited is defined by recursion on the keys;    *)
(* what a key does to the line is EditKey.                                 *)

EditKey(t, c) ==
    CASE c = "BS" /\ t # <<>> -> SubSeq(t, 1, Len(t) - 1)
      [] Printable(c) /\ Len(t) < BUFSIZE - 1 -> Append(t, c)
      [] OTHER -> t

EditsOf(e, ks) ==
    e = [k \in 0 .. Len(ks) |->
            IF k = 0 THEN <<>>
            ELSE CASE ks[k] = "BS" /\ e[k - 1] # <<>> -> SubSeq(e[k - 1], 1, Len(e[k - 1]) - 1)
                   [] Printable(ks[k]) /\ Len(e[k - 1]) < BUFSIZE - 1 -> Append(e[k - 1], ks[k])
                   [] OTHER -> e[k - 1]]

\* Edited is the last value of a function that exists,
LEMMA EditedIs == ASSUME NEW ks PROVE Edited(ks) = (CHOOSE e : EditsOf(e, ks))[Len(ks)]
BY Zenon DEF Edited, EditsOf

\* which EditKey gives,
LEMMA EditsAre ==
    ASSUME NEW e, NEW ks
    PROVE  EditsOf(e, ks) <=>
               e = [k \in 0 .. Len(ks) |-> IF k = 0 THEN <<>> ELSE EditKey(e[k - 1], ks[k])]
BY Zenon DEF EditsOf, EditKey

\* for all keys typed.
LEMMA EditsExist == ASSUME NEW ks \in Seq(Char) PROVE \E e : EditsOf(e, ks)
<1> DEFINE n0 == Len(ks)
           IsUpTo(e, k) == \A j \in 0 .. k : e[j] = IF j = 0 THEN <<>> ELSE EditKey(e[j - 1], ks[j])
           Has(k) == \E e : e = [j \in 0 .. k |-> e[j]] /\ IsUpTo(e, k)
           T == {k \in 0 .. n0 : ~ Has(k)}
<1>1. n0 \in Nat
  OBVIOUS
<1>2. T = {}
  <2> SUFFICES ASSUME T # {} PROVE FALSE
    OBVIOUS
  <2>1. PICK k \in T : \A j \in T : k <= j
    <3>1. T \subseteq Nat
      BY <1>1
    <3> HIDE DEF T
    <3> QED
      BY <3>1, LeastNumber
  <2>2. k \in 0 .. n0 /\ ~ Has(k)
    OBVIOUS
  <2>3. CASE k = 0
    <3> DEFINE e == [j \in 0 .. 0 |-> <<>>]
    <3>1. e = [j \in 0 .. 0 |-> e[j]] /\ \A j \in 0 .. 0 : e[j] = <<>> /\ j = 0
      OBVIOUS
    <3> HIDE DEF e
    <3>2. IsUpTo(e, 0)
      BY <3>1, Zenon
    <3> QED
      BY <2>2, <2>3, <3>1, <3>2, Zenon
  <2>4. CASE k # 0
    <3>1. k - 1 \in 0 .. n0 /\ k - 1 < k /\ k \in Nat
      BY <1>1, <2>2, <2>4
    <3>2. k - 1 \notin T
      <4> HIDE DEF T
      <4> QED
        BY <1>1, <2>1, <2>2, <3>1
    <3>3. Has(k - 1)
      BY <3>1, <3>2, Zenon
    <3>4. PICK e : e = [j \in 0 .. k - 1 |-> e[j]] /\ IsUpTo(e, k - 1)
      BY <3>3, Zenon
    <3> DEFINE f == [j \in 0 .. k |-> IF j = k THEN EditKey(e[k - 1], ks[k]) ELSE e[j]]
    <3>5. f[k] = EditKey(e[k - 1], ks[k]) /\ \A j \in 0 .. k - 1 : f[j] = e[j]
      BY <3>1
    <3>6. f = [j \in 0 .. k |-> f[j]]
      OBVIOUS
    <3> HIDE DEF f, T
    <3>7. ASSUME NEW j \in 0 .. k
          PROVE  f[j] = IF j = 0 THEN <<>> ELSE EditKey(f[j - 1], ks[j])
      <4>1. CASE j = k
        <5>1. f[j - 1] = e[k - 1]
          BY <3>1, <3>5, <4>1
        <5> QED
          BY <2>4, <3>5, <4>1, <5>1, Zenon
      <4>2. CASE j # k
        <5>1. j \in 0 .. k - 1 /\ f[j] = e[j] /\ (j # 0 => f[j - 1] = e[j - 1])
          BY <3>1, <3>5, <4>2
        <5>2. e[j] = IF j = 0 THEN <<>> ELSE EditKey(e[j - 1], ks[j])
          BY <3>4, <5>1, Zenon
        <5> QED
          BY <5>1, <5>2, Zenon
      <4> QED
        BY <4>1, <4>2
    <3> QED
      BY <2>2, <3>6, <3>7, Zenon
  <2> QED
    BY <2>3, <2>4
<1>3. PICK e : e = [j \in 0 .. n0 |-> e[j]] /\ IsUpTo(e, n0)
  <2>1. n0 \in 0 .. n0
    BY <1>1
  <2> QED
    BY <1>2, <2>1, Zenon
<1>4. e = [j \in 0 .. n0 |-> IF j = 0 THEN <<>> ELSE EditKey(e[j - 1], ks[j])]
  BY <1>3, Zenon
<1> QED
  BY <1>4, EditsAre, Zenon

\* So each of its values follows from the one before.
LEMMA EditedKeys ==
    ASSUME NEW ks \in Seq(Char)
    PROVE  \E e : /\ EditsOf(e, ks) /\ Edited(ks) = e[Len(ks)]
                  /\ \A k \in 0 .. Len(ks) : e[k] = IF k = 0 THEN <<>> ELSE EditKey(e[k - 1], ks[k])
<1>1. PICK e : e = CHOOSE f : EditsOf(f, ks)
  OBVIOUS
<1>2. EditsOf(e, ks)
  BY <1>1, EditsExist, Zenon
<1>3. \A k \in 0 .. Len(ks) : e[k] = IF k = 0 THEN <<>> ELSE EditKey(e[k - 1], ks[k])
  <2>1. e = [k \in 0 .. Len(ks) |-> IF k = 0 THEN <<>> ELSE EditKey(e[k - 1], ks[k])]
    BY <1>2, EditsAre, Zenon
  <2> QED
    BY <2>1, Zenon
<1>4. Edited(ks) = e[Len(ks)]
  BY <1>1, EditedIs, Zenon
<1> QED
  BY <1>2, <1>3, <1>4, Zenon

\* Before the first key the line is empty,
LEMMA EditedNone == Edited(<<>>) = <<>>
<1>1. <<>> \in Seq(Char) /\ Len(<<>>) = 0 /\ 0 \in 0 .. 0
  OBVIOUS
<1>2. PICK e : /\ Edited(<<>>) = e[Len(<<>>)]
               /\ \A k \in 0 .. Len(<<>>) : e[k] = IF k = 0 THEN <<>> ELSE EditKey(e[k - 1], <<>>[k])
  BY <1>1, EditedKeys, Zenon
<1> QED
  BY <1>1, <1>2, Zenon

\* and each key changes it once.
LEMMA EditedMore ==
    ASSUME NEW ks \in Seq(Char), NEW c \in Char
    PROVE  Edited(Append(ks, c)) = EditKey(Edited(ks), c)
<1> DEFINE m == Len(ks)
           more == Append(ks, c)
<1>1. m \in Nat /\ more \in Seq(Char) /\ Len(more) = m + 1 /\ more[m + 1] = c
  OBVIOUS
<1>2. \A k \in 1 .. m : more[k] = ks[k]
  OBVIOUS
<1> HIDE DEF more
<1>3. PICK e : /\ Edited(ks) = e[m]
               /\ \A k \in 0 .. m : e[k] = IF k = 0 THEN <<>> ELSE EditKey(e[k - 1], ks[k])
  BY EditedKeys, Zenon
<1>4. PICK f : /\ Edited(more) = f[m + 1]
               /\ \A k \in 0 .. m + 1 : f[k] = IF k = 0 THEN <<>> ELSE EditKey(f[k - 1], more[k])
  BY <1>1, EditedKeys, Zenon
<1> DEFINE T == {k \in 0 .. m : f[k] # e[k]}
<1>5. T = {}
  <2> SUFFICES ASSUME T # {} PROVE FALSE
    OBVIOUS
  <2>1. PICK k \in T : \A j \in T : k <= j
    <3>1. T \subseteq Nat
      BY <1>1
    <3> HIDE DEF T
    <3> QED
      BY <3>1, LeastNumber
  <2>2. k \in 0 .. m /\ f[k] # e[k]
    OBVIOUS
  <2>3. k \in 0 .. m + 1
    BY <1>1, <2>2
  <2>4. k # 0
    <3> SUFFICES ASSUME k = 0 PROVE FALSE
      OBVIOUS
    <3>1. f[0] = <<>> /\ e[0] = <<>>
      BY <1>3, <1>4, <2>2, <2>3, Zenon
    <3> QED
      BY <2>2, <3>1
  <2>5. k - 1 \in 0 .. m /\ k - 1 < k /\ k \in 1 .. m
    BY <1>1, <2>2, <2>4
  <2>6. f[k - 1] = e[k - 1]
    <3>1. k - 1 \notin T
      <4> HIDE DEF T
      <4> QED
        BY <2>1, <2>2, <2>5
    <3> QED
      BY <2>5, <3>1, Zenon
  <2>7. more[k] = ks[k]
    BY <1>2, <2>5
  <2>8. f[k] = EditKey(f[k - 1], more[k]) /\ e[k] = EditKey(e[k - 1], ks[k])
    BY <1>3, <1>4, <2>2, <2>3, <2>4, Zenon
  <2> QED
    BY <2>2, <2>6, <2>7, <2>8, Zenon
<1>6. f[m] = e[m]
  <2>1. m \in 0 .. m
    BY <1>1
  <2> QED
    BY <1>5, <2>1, Zenon
<1>7. f[m + 1] = EditKey(f[m], c)
  <2>1. m + 1 \in 0 .. m + 1 /\ m + 1 # 0 /\ (m + 1) - 1 = m
    BY <1>1
  <2> QED
    BY <1>1, <1>4, <2>1, Zenon
<1> QED
  BY <1>3, <1>4, <1>6, <1>7, Zenon DEF more

\* A character that fits is added,
LEMMA KeyAdds ==
    ASSUME NEW t, NEW c, Printable(c), Len(t) < BUFSIZE - 1
    PROVE  EditKey(t, c) = Append(t, c)
<1>1. c # "BS"
  BY Unprintable, Zenon
<1> QED
  BY <1>1, Zenon DEF EditKey

\* backspace takes the last one away,
LEMMA KeyErases ==
    ASSUME NEW t, t # <<>>
    PROVE  EditKey(t, "BS") = SubSeq(t, 1, Len(t) - 1)
<1>1. ~ Printable("BS")
  BY Unprintable, Zenon
<1> QED
  BY <1>1, Zenon DEF EditKey

\* and all others leave the line.
LEMMA KeyIgnored ==
    ASSUME NEW t, NEW c, ~ (Printable(c) /\ Len(t) < BUFSIZE - 1), ~ (c = "BS" /\ t # <<>>)
    PROVE  EditKey(t, c) = t
BY Zenon DEF EditKey

-----------------------------------------------------------------------------
(* The invariant                                                           *)

MonSpec == MemInit /\ MonInit /\ [][MonitorStep]_<<memvars, monvars>>

Screen == Edited(typed)

\* The words of str that begin up to its m-th character.
Starts(str, m) == {w \in 1 .. m : str[w] # Space /\ (w = 1 \/ str[w - 1] = Space)}

LineOk ==
    /\ line \in [0 .. BUFSIZE - 1 -> Char] /\ typed \in Seq(Keys)
    /\ Screen \in Seq(OnScreen) /\ Len(Screen) <= BUFSIZE - 1
Reading ==
    /\ i = Len(Screen) /\ argv = <<>>
    /\ \A k \in 0 .. i - 1 : line[k] = Screen[k + 1]

\* parse has overwritten the blanks below m and saved the words that begin below m.
ParsedTo(m) ==
    /\ line[Len(Screen)] = NUL
    /\ \A k \in 0 .. Len(Screen) - 1 :
           line[k] = IF k < m /\ Screen[k + 1] = Space THEN NUL ELSE Screen[k + 1]
ArgsTo(m) ==
    /\ argv \in Seq(Nat)
    /\ \A x, y \in 1 .. Len(argv) : x < y => argv[x] < argv[y]
    /\ {argv[x] + 1 : x \in 1 .. Len(argv)} = Starts(Screen, m)
Parsing ==
    /\ i \in 0 .. Len(Screen) /\ ParsedTo(i) /\ ArgsTo(i)
    /\ i = 0 \/ i = Len(Screen) \/ Screen[i] = Space \/ Screen[i + 1] = Space
MonInv ==
    /\ LineOk
    /\ call = None \/ In("shutdown") => i = 0 /\ typed = <<>> /\ argv = <<>>
    /\ In("readline") => Reading
    /\ In("parse") => Parsing
    /\ RunsWhatWasTyped

\* The monitor is in one place.
LEMMA OnePlace ==
    /\ call = None => call.fn = "none"
    /\ \A l : In(l) => call.fn = l
BY DEF None, In

\* A step that goes somewhere is there.
LEMMA NextPlace == ASSUME NEW l, Goto(l) PROVE call'.fn = l
BY DEF Goto

\* What is on the screen is no terminator.
LEMMA OnScreenChar == \A c \in OnScreen : c \in Char /\ c # NUL /\ Printable(c)
BY Unprintable, Zenon DEF OnScreen

\* Outside readline the line on the screen stays as it is.
LEMMA LineStays ==
    ASSUME LineOk, typed' = typed, line' \in [0 .. BUFSIZE - 1 -> Char]
    PROVE  LineOk' /\ Screen' = Screen
BY DEF LineOk, Screen

\* The monitor starts in the invariant.
LEMMA InitMonInv == MemInit /\ MonInit => MonInv
<1> SUFFICES ASSUME MemInit, MonInit PROVE MonInv
  OBVIOUS
<1>1. call.fn = "none"
  BY OnePlace DEF MemInit
<1>2. Screen = <<>>
  BY EditedNone, Zenon DEF Screen, MonInit
<1>3. NUL \in Char
  BY Codes
<1>4. LineOk
  <2>1. line \in [0 .. BUFSIZE - 1 -> Char] /\ typed \in Seq(Keys)
    BY <1>3 DEF MonInit
  <2>2. <<>> \in Seq(OnScreen) /\ Len(<<>>) <= BUFSIZE - 1
    BY MonitorAssumption
  <2> QED
    BY <1>2, <2>1, <2>2 DEF LineOk
<1>5. RunsWhatWasTyped
  <2>1. ~ In("run")
    BY <1>1, OnePlace
  <2> QED
    BY <2>1, Zenon DEF RunsWhatWasTyped
<1>6. ~ In("readline") /\ ~ In("parse")
  BY <1>1, OnePlace
<1> QED
  BY <1>4, <1>5, <1>6 DEF MonInv, MonInit

\* The command is looked at only when one runs.
LEMMA NotRun == ASSUME call'.fn # "run" PROVE RunsWhatWasTyped'
<1>1. ~ In("run")'
  BY DEF In
<1> QED
  BY <1>1, Zenon DEF RunsWhatWasTyped

\* Outside readline and parse nothing is in the line yet.
LEMMA IdleStep == ASSUME MonInv, kmonitor \/ sbi_shutdown \/ NextLine PROVE MonInv'
<1>1. LineOk /\ line \in [0 .. BUFSIZE - 1 -> Char]
  BY DEF MonInv, LineOk
<1>2. CASE kmonitor
  <2>1. call'.fn = "shutdown" /\ UNCHANGED monvars /\ i = 0 /\ typed = <<>> /\ argv = <<>>
    BY <1>2, NextPlace DEF kmonitor, MonInv
  <2>2. LineOk' /\ i' = 0 /\ typed' = <<>> /\ argv' = <<>>
    BY <1>1, <2>1, LineStays DEF monvars
  <2>3. RunsWhatWasTyped' /\ ~ In("readline")' /\ ~ In("parse")'
    BY <2>1, NotRun DEF In
  <2> QED
    BY <2>2, <2>3 DEF MonInv
<1>3. CASE sbi_shutdown
  <2>1. UNCHANGED monvars /\ i = 0 /\ typed = <<>> /\ argv = <<>>
    BY <1>3 DEF sbi_shutdown, MonInv
  <2>2. call'.fn = "off" \/ call'.fn = "readline"
    BY <1>3, NextPlace DEF sbi_shutdown
  <2>3. LineOk' /\ i' = 0 /\ typed' = <<>> /\ argv' = <<>>
    BY <1>1, <2>1, LineStays DEF monvars
  <2>4. Reading'
    <3>1. Screen' = <<>>
      BY <2>3, EditedNone, Zenon DEF Screen
    <3> QED
      BY <2>3, <3>1 DEF Reading
  <2>5. RunsWhatWasTyped' /\ ~ In("parse")'
    BY <2>2, NotRun DEF In
  <2> QED
    BY <2>3, <2>4, <2>5 DEF MonInv
<1>4. CASE NextLine
  <2>1. call'.fn = "readline" /\ i' = 0 /\ argv' = <<>> /\ typed' = <<>> /\ line' = line
    BY <1>4, NextPlace DEF NextLine
  <2>2. Screen' = <<>>
    BY <2>1, EditedNone, Zenon DEF Screen
  <2>3. Reading'
    BY <2>1, <2>2 DEF Reading
  <2>4. LineOk'
    <3>1. <<>> \in Seq(OnScreen) /\ Len(<<>>) <= BUFSIZE - 1 /\ <<>> \in Seq(Keys)
      BY MonitorAssumption
    <3> QED
      BY <1>1, <2>1, <2>2, <3>1 DEF LineOk
  <2>5. RunsWhatWasTyped' /\ ~ In("parse")' 
    BY <2>1, NotRun DEF In
  <2> QED
    BY <2>1, <2>3, <2>4, <2>5 DEF MonInv
<1> QED
  BY <1>2, <1>3, <1>4

-----------------------------------------------------------------------------
(* readline                                                                *)

\* What a turn of its loop does with a key.
GivenUp(c) == c = NoKey /\ i' = 0 /\ typed' = <<>> /\ UNCHANGED <<call, line>>
KeyIn(c) == c \in Keys /\ typed' = Append(typed, c)
Added(c) ==
    /\ Printable(c) /\ i < BUFSIZE - 1
    /\ line' = [line EXCEPT ![i] = c] /\ i' = i + 1 /\ UNCHANGED call
Erased(c) == c = "BS" /\ i > 0 /\ i' = i - 1 /\ UNCHANGED <<call, line>>
Ended(c) == c \in Newlines /\ line' = Terminate(line, i) /\ i' = 0 /\ Goto("parse")
Dropped(c) ==
    /\ ~ (Printable(c) /\ i < BUFSIZE - 1) /\ ~ (c = "BS" /\ i > 0)
    /\ UNCHANGED <<call, line, i>>

\* One of them is what happens.
LEMMA OneKey ==
    ASSUME readline
    PROVE  /\ In("readline") /\ argv' = argv
           /\ \E c : GivenUp(c) \/ (KeyIn(c) /\ (Added(c) \/ Erased(c) \/ Ended(c) \/ Dropped(c)))
<1>1. In("readline") /\ argv' = argv
  BY Zenon DEF readline
<1>2. PICK c \in getchar :
        \/ GivenUp(c)
        \/ /\ c # NoKey /\ typed' = Append(typed, c)
           /\ Added(c) \/ Erased(c) \/ Ended(c) \/ Dropped(c)
  BY ZenonT(30) DEF readline, GivenUp, Added, Erased, Ended, Dropped, Newlines
<1>3. c # NoKey => c \in Keys
  BY Zenon DEF getchar, cons_getc
<1> QED
  BY <1>1, <1>2, <1>3, Zenon DEF KeyIn

\* What the invariant says while a line is read.
LEMMA LineRead ==
    ASSUME MonInv, In("readline")
    PROVE  /\ Screen \in Seq(OnScreen) /\ Len(Screen) \in Nat /\ Len(Screen) <= BUFSIZE - 1
           /\ line \in [0 .. BUFSIZE - 1 -> Char] /\ typed \in Seq(Keys)
           /\ i = Len(Screen) /\ argv = <<>> /\ \A k \in 0 .. i - 1 : line[k] = Screen[k + 1]
<1>1. LineOk /\ Reading
  BY Zenon DEF MonInv
<1> QED
  BY <1>1 DEF LineOk, Reading

\* The keys so far, with one more.
LEMMA KeysMore ==
    ASSUME MonInv, In("readline"), NEW c, KeyIn(c)
    PROVE  c \in Char /\ typed' \in Seq(Keys) /\ Screen' = EditKey(Screen, c)
<1>1. c \in Keys /\ c \in Char /\ typed \in Seq(Keys) /\ typed' = Append(typed, c)
  BY LineRead, MonitorAssumption DEF KeyIn
<1>2. typed \in Seq(Char) /\ typed' \in Seq(Keys)
  <2>1. Keys \subseteq Char
    BY MonitorAssumption
  <2> QED
    BY <1>1, <2>1
<1>3. Edited(Append(typed, c)) = EditKey(Edited(typed), c)
  BY <1>1, <1>2, EditedMore
<1> QED
  BY <1>1, <1>2, <1>3 DEF Screen

\* While the monitor stays in readline.
LEMMA StillReading ==
    ASSUME MonInv, In("readline"), UNCHANGED call, LineOk', Reading'
    PROVE  MonInv'
<1>1. call'.fn = "readline"
  BY OnePlace
<1>2. RunsWhatWasTyped'
  BY <1>1, NotRun
<1>3. ~ (call' = None) /\ ~ In("shutdown")' /\ ~ In("parse")'
  BY <1>1 DEF In, None
<1> QED
  BY <1>2, <1>3 DEF MonInv

\* Whatever the key does to the line, it does to the screen.
LEMMA ReadStep == ASSUME MonInv, readline PROVE MonInv'
<1>1. In("readline") /\ argv' = argv
  BY OneKey
<1>2. PICK c : GivenUp(c) \/ (KeyIn(c) /\ (Added(c) \/ Erased(c) \/ Ended(c) \/ Dropped(c)))
  BY OneKey
<1> PICK t : t = Screen
  OBVIOUS
<1>3. /\ t \in Seq(OnScreen) /\ Len(t) \in Nat /\ Len(t) <= BUFSIZE - 1 /\ BUFSIZE \in Nat
      /\ line \in [0 .. BUFSIZE - 1 -> Char] /\ i = Len(t) /\ argv = <<>>
      /\ \A k \in 0 .. i - 1 : line[k] = t[k + 1]
  BY <1>1, LineRead, MonitorAssumption
<1>4. CASE GivenUp(c)
  <2>1. i' = 0 /\ typed' = <<>> /\ UNCHANGED <<call, line>>
    BY <1>4 DEF GivenUp
  <2>2. Screen' = <<>>
    BY <2>1, EditedNone, Zenon DEF Screen
  <2>3. Reading'
    BY <1>1, <1>3, <2>1, <2>2 DEF Reading
  <2>4. LineOk'
    <3>1. <<>> \in Seq(OnScreen) /\ Len(<<>>) <= BUFSIZE - 1 /\ <<>> \in Seq(Keys)
      BY MonitorAssumption
    <3> QED
      BY <1>3, <2>1, <2>2, <3>1 DEF LineOk
  <2> QED
    BY <1>1, <2>1, <2>3, <2>4, StillReading
<1>5. CASE KeyIn(c)
  <2>1. c \in Char /\ typed' \in Seq(Keys) /\ Screen' = EditKey(t, c)
    BY <1>1, <1>5, KeysMore
  <2>2. CASE Added(c)
    <3>1. Printable(c) /\ i < BUFSIZE - 1 /\ line' = [line EXCEPT ![i] = c] /\ i' = i + 1 /\ call' = call
      BY <2>2 DEF Added
    <3>2. c \in OnScreen
      BY <2>1, <3>1 DEF OnScreen
    <3>3. Screen' = Append(t, c)
      BY <1>3, <2>1, <3>1, KeyAdds
    <3>4. Append(t, c) \in Seq(OnScreen) /\ Len(Append(t, c)) = i + 1
      BY <1>3, <3>2
    <3>5. line' \in [0 .. BUFSIZE - 1 -> Char]
      BY <1>3, <2>1, <3>1
    <3>6. \A k \in 0 .. i : line'[k] = Append(t, c)[k + 1]
      BY <1>3, <3>1, <3>2
    <3>7. LineOk'
      BY <1>3, <2>1, <3>1, <3>3, <3>4, <3>5 DEF LineOk
    <3>8. Reading'
      BY <1>1, <1>3, <3>1, <3>3, <3>4, <3>6 DEF Reading
    <3> QED
      BY <1>1, <3>1, <3>7, <3>8, StillReading
  <2>3. CASE Erased(c)
    <3>1. c = "BS" /\ i > 0 /\ i' = i - 1 /\ UNCHANGED <<call, line>>
      BY <2>3 DEF Erased
    <3>2. t # <<>>
      BY <1>3, <3>1
    <3>3. Screen' = SubSeq(t, 1, Len(t) - 1)
      BY <2>1, <3>1, <3>2, KeyErases, Zenon
    <3> PICK u : u = SubSeq(t, 1, Len(t) - 1)
      OBVIOUS
    <3>4. u \in Seq(OnScreen) /\ Len(u) = Len(t) - 1 /\ \A k \in 1 .. Len(t) - 1 : u[k] = t[k]
      BY <1>3, <3>1
    <3>5. LineOk'
      <4>1. Screen' = u /\ Len(u) <= BUFSIZE - 1 /\ line' = line
        BY <1>3, <3>1, <3>3, <3>4
      <4>2. line' \in [0 .. BUFSIZE - 1 -> Char]
        BY <1>3, <4>1, Zenon
      <4> QED
        BY <2>1, <3>4, <4>1, <4>2, Zenon DEF LineOk
    <3>6. Reading'
      BY <1>1, <1>3, <3>1, <3>3, <3>4 DEF Reading
    <3> QED
      BY <1>1, <3>1, <3>5, <3>6, StillReading
  <2>4. CASE Dropped(c)
    <3>1. /\ ~ (Printable(c) /\ i < BUFSIZE - 1) /\ ~ (c = "BS" /\ i > 0)
          /\ UNCHANGED <<call, line, i>>
      BY <2>4 DEF Dropped
    <3>2. ~ (Printable(c) /\ Len(t) < BUFSIZE - 1) /\ ~ (c = "BS" /\ t # <<>>)
      BY <1>3, <3>1
    <3>3. Screen' = t
      BY <2>1, <3>2, KeyIgnored, Zenon
    <3>4. LineOk' /\ Reading'
      BY <1>1, <1>3, <2>1, <3>1, <3>3 DEF LineOk, Reading
    <3> QED
      BY <1>1, <3>1, <3>4, StillReading
  <2>5. CASE Ended(c)
    <3>1. c \in Newlines /\ line' = [line EXCEPT ![i] = NUL] /\ i' = 0 /\ call'.fn = "parse"
      BY <2>5, NextPlace DEF Ended, Terminate
    <3>2. ~ Printable(c) /\ c # "BS"
      <4>1. ~ Printable(c)
        BY <3>1, Unprintable, Zenon
      <4>2. ord[c] # 3
        <5>1. c = "\n" \/ c = "\r"
          BY <3>1, Zenon DEF Newlines
        <5>2. ord[c] = 5 \/ ord[c] = 6
          BY <5>1, BlankCodes, Zenon
        <5> QED
          BY <5>2
      <4>3. ord["BS"] = 3
        BY BlankCodes, Zenon
      <4> QED
        BY <4>1, <4>2, <4>3, Zenon
    <3>3. Screen' = t
      BY <2>1, <3>2, KeyIgnored, Zenon
    <3>4. NUL \in Char
      BY Codes
    <3>5. /\ line' \in [0 .. BUFSIZE - 1 -> Char] /\ line'[Len(t)] = NUL
          /\ \A k \in 0 .. Len(t) - 1 : line'[k] = t[k + 1]
      BY <1>3, <3>1, <3>4
    <3>6. LineOk'
      BY <1>3, <2>1, <3>3, <3>5 DEF LineOk
    <3>7. ParsedTo(0)'
      BY <1>3, <3>3, <3>5 DEF ParsedTo
    <3>8. ArgsTo(0)'
      <4>1. argv' = <<>> /\ <<>> \in Seq(Nat) /\ Len(<<>>) = 0
        BY <1>1, <1>3
      <4>2. Starts(Screen, 0)' = {}
        BY DEF Starts
      <4> QED
        BY <4>1, <4>2 DEF ArgsTo
    <3>9. Parsing'
      <4>1. ParsedTo(i)' /\ ArgsTo(i)'
        BY <3>1, <3>7, <3>8 DEF ParsedTo, ArgsTo
      <4> QED
        BY <1>3, <3>1, <3>3, <4>1 DEF Parsing
    <3>10. RunsWhatWasTyped' /\ ~ (call' = None) /\ ~ In("shutdown")' /\ ~ In("readline")'
      BY <3>1, NotRun DEF In, None
    <3> QED
      BY <3>6, <3>9, <3>10 DEF MonInv
  <2> QED
    BY <1>2, <1>4, <2>2, <2>3, <2>4, <2>5, Zenon DEF GivenUp
<1> QED
  BY <1>2, <1>4, <1>5

-----------------------------------------------------------------------------
(* parse                                                                   *)

\* A blank begins no word,
LEMMA StartsBlank ==
    ASSUME NEW str, NEW m \in Nat, str[m + 1] = Space
    PROVE  Starts(str, m + 1) = Starts(str, m)
BY DEF Starts

\* and a run of other characters behind a blank is the beginning of one.
Unbroken(str, m, e) == \A k \in m .. e - 1 : str[k + 1] # Space
Behind(str, m) == m = 0 \/ str[m] = Space

LEMMA StartsWord ==
    ASSUME NEW str, NEW m \in Nat, NEW e \in Nat, m < e, Behind(str, m), Unbroken(str, m, e)
    PROVE  Starts(str, e) = Starts(str, m) \union {m + 1}
<1> USE DEF Behind, Unbroken
<1>1. ASSUME NEW w \in Starts(str, e), w \notin Starts(str, m) PROVE w = m + 1
  <2>1. w \in 1 .. e /\ str[w] # Space /\ (w = 1 \/ str[w - 1] = Space) /\ ~ (w \in 1 .. m)
    BY <1>1 DEF Starts
  <2>2. w > m + 1 => w - 2 \in m .. e - 1 /\ (w - 2) + 1 = w - 1 /\ w # 1
    BY <2>1
  <2>3. ~ (w > m + 1)
    BY <2>1, <2>2
  <2> QED
    BY <2>1, <2>3
<1>2. m + 1 \in Starts(str, e)
  <2>1. m \in m .. e - 1 /\ m + 1 \in 1 .. e /\ (m + 1) - 1 = m
    OBVIOUS
  <2>2. str[m + 1] # Space /\ (m + 1 = 1 \/ str[(m + 1) - 1] = Space)
    BY <2>1
  <2> QED
    BY <2>1, <2>2 DEF Starts
<1>3. Starts(str, m) \subseteq Starts(str, e)
  BY DEF Starts
<1> QED
  BY <1>1, <1>2, <1>3

\* What the invariant says while a line is parsed.
LEMMA LineParsed ==
    ASSUME MonInv, In("parse")
    PROVE  /\ LineOk /\ ParsedTo(i) /\ ArgsTo(i)
           /\ Screen \in Seq(OnScreen) /\ Len(Screen) \in Nat /\ Len(Screen) <= BUFSIZE - 1
           /\ line \in [0 .. BUFSIZE - 1 -> Char] /\ i \in 0 .. Len(Screen) /\ i \in Nat
           /\ i = 0 \/ i = Len(Screen) \/ Screen[i] = Space \/ Screen[i + 1] = Space
<1>1. LineOk /\ Parsing
  BY Zenon DEF MonInv
<1> QED
  BY <1>1 DEF LineOk, Parsing

\* The cells from i on.
LEMMA CellsAhead ==
    ASSUME MonInv, In("parse"), NEW k \in i .. Len(Screen)
    PROVE  /\ line[k] = NUL <=> k = Len(Screen)
           /\ IsBlank(line[k]) <=> k < Len(Screen) /\ Screen[k + 1] = Space
           /\ k < Len(Screen) => line[k] = Screen[k + 1]
<1>1. /\ Screen \in Seq(OnScreen) /\ Len(Screen) \in Nat /\ i \in Nat
      /\ ParsedTo(i)
  BY LineParsed
<1>2. CASE k = Len(Screen)
  <2>1. line[k] = NUL
    BY <1>1, <1>2 DEF ParsedTo
  <2>2. ~ IsBlank(line[k])
    BY <2>1, Zenon DEF IsBlank
  <2> QED
    BY <1>1, <1>2, <2>1, <2>2
<1>3. CASE k # Len(Screen)
  <2>1. k \in 0 .. Len(Screen) - 1 /\ ~ (k < i) /\ k < Len(Screen) /\ k + 1 \in 1 .. Len(Screen)
    BY <1>1, <1>3
  <2>2. line[k] = Screen[k + 1]
    BY <1>1, <2>1 DEF ParsedTo
  <2>3. Screen[k + 1] \in OnScreen
    BY <1>1, <2>1
  <2>4. line[k] # NUL /\ (IsBlank(line[k]) <=> Screen[k + 1] = Space)
    BY <2>2, <2>3, OnScreenChar, BlankIs
  <2> QED
    BY <1>3, <2>1, <2>2, <2>4
<1> QED
  BY <1>2, <1>3

\* While the monitor stays in parse.
LEMMA StillParsing ==
    ASSUME In("parse"), UNCHANGED call, LineOk', Parsing'
    PROVE  MonInv'
<1>1. call'.fn = "parse"
  BY OnePlace
<1>2. RunsWhatWasTyped' /\ ~ (call' = None) /\ ~ In("shutdown")' /\ ~ In("readline")'
  BY <1>1, NotRun DEF In, None
<1> QED
  BY <1>2 DEF MonInv

\* A blank becomes a terminator; no word begins there.
LEMMA BlankStep == ASSUME MonInv, ParseBlank PROVE MonInv'
<1> PICK str : str = Screen
  OBVIOUS
<1>1. /\ In("parse") /\ IsBlank(line[i]) /\ line' = [line EXCEPT ![i] = NUL] /\ i' = i + 1
      /\ UNCHANGED <<call, argv, typed>>
  BY Zenon DEF ParseBlank, Terminate
<1>2. /\ LineOk /\ ParsedTo(i) /\ ArgsTo(i)
      /\ str \in Seq(OnScreen) /\ Len(str) \in Nat /\ Len(str) <= BUFSIZE - 1
      /\ line \in [0 .. BUFSIZE - 1 -> Char] /\ i \in 0 .. Len(str) /\ i \in Nat /\ BUFSIZE \in Nat
  BY <1>1, LineParsed, MonitorAssumption
<1>3. i < Len(str) /\ str[i + 1] = Space
  <2>1. i \in i .. Len(Screen)
    BY <1>2
  <2> QED
    BY <1>1, <2>1, CellsAhead
<1>4. line' \in [0 .. BUFSIZE - 1 -> Char]
  <2>1. NUL \in Char
    BY Codes
  <2> QED
    BY <1>1, <1>2, <2>1
<1>5. LineOk' /\ Screen' = str
  BY <1>1, <1>2, <1>4, LineStays
<1>6. ParsedTo(i)'
  <2>1. line[Len(str)] = NUL /\ \A k \in 0 .. Len(str) - 1 :
           line[k] = IF k < i /\ str[k + 1] = Space THEN NUL ELSE str[k + 1]
    BY <1>2 DEF ParsedTo
  <2>2. line'[Len(str)] = NUL
    BY <1>1, <1>2, <1>3, <2>1
  <2>3. \A k \in 0 .. Len(str) - 1 :
           line'[k] = IF k < i + 1 /\ str[k + 1] = Space THEN NUL ELSE str[k + 1]
    BY <1>1, <1>2, <1>3, <2>1
  <2> QED
    BY <1>1, <1>5, <2>2, <2>3 DEF ParsedTo
<1>7. ArgsTo(i)'
  <2>1. Starts(str, i + 1) = Starts(str, i)
    BY <1>2, <1>3, StartsBlank
  <2>2. /\ argv \in Seq(Nat)
        /\ \A x, y \in 1 .. Len(argv) : x < y => argv[x] < argv[y]
        /\ {argv[x] + 1 : x \in 1 .. Len(argv)} = Starts(str, i)
    BY <1>2 DEF ArgsTo
  <2>3. Starts(Screen, i)' = Starts(str, i)
    BY <1>1, <1>5, <2>1 DEF Starts
  <2> QED
    BY <1>1, <2>2, <2>3 DEF ArgsTo
<1>8. Parsing'
  <2>1. i' \in 0 .. Len(str) /\ str[i'] = Space
    BY <1>1, <1>2, <1>3
  <2> QED
    BY <1>5, <1>6, <1>7, <2>1 DEF Parsing
<1> QED
  BY <1>1, <1>5, <1>8, StillParsing

\* parse scans a word to its end.
LEMMA WordScanned ==
    ASSUME MonInv, In("parse"), line[i] # NUL, ~ IsBlank(line[i]),
           NEW e, e = Least({k \in i .. BUFSIZE - 1 : line[k] = NUL \/ IsBlank(line[k])})
    PROVE  /\ e \in i + 1 .. Len(Screen)
           /\ \A k \in i .. e - 1 : Screen[k + 1] # Space
           /\ e = Len(Screen) \/ Screen[e + 1] = Space
           /\ i = 0 \/ Screen[i] = Space
           /\ i < Len(Screen)
<1> DEFINE T == {k \in i .. BUFSIZE - 1 : line[k] = NUL \/ IsBlank(line[k])}
           n0 == Len(Screen)
<1>1. /\ n0 \in Nat /\ n0 <= BUFSIZE - 1 /\ i \in 0 .. n0 /\ i \in Nat /\ BUFSIZE \in Nat
      /\ i = 0 \/ i = n0 \/ Screen[i] = Space \/ Screen[i + 1] = Space
  BY LineParsed, MonitorAssumption
<1>2. n0 \in T
  <2>1. n0 \in i .. n0 /\ n0 \in i .. BUFSIZE - 1
    BY <1>1
  <2>2. line[n0] = NUL
    BY <2>1, CellsAhead
  <2> QED
    BY <2>1, <2>2
<1>3. e \in T /\ \A y \in T : e <= y
  <2>1. T \subseteq Nat
    BY <1>1
  <2> HIDE DEF T
  <2>2. Least(T) \in T
    BY <1>2, <2>1, LeastNumber
  <2>3. \A y \in T : Least(T) <= y
    BY <1>2, <2>1, LeastNumber
  <2> QED
    BY <2>2, <2>3 DEF T
<1>4. e \in i .. n0 /\ (line[e] = NUL \/ IsBlank(line[e]))
  <2>1. e <= n0
    BY <1>2, <1>3
  <2> QED
    BY <1>1, <1>3, <2>1
<1>5. e # i
  BY <1>4
<1>6. e \in i + 1 .. n0 /\ i < n0
  BY <1>1, <1>4, <1>5
<1>7. e = n0 \/ Screen[e + 1] = Space
  BY <1>4, CellsAhead
<1>8. ASSUME NEW k \in i .. e - 1 PROVE Screen[k + 1] # Space
  <2>1. k \in i .. n0 /\ k \in i .. BUFSIZE - 1 /\ k < e /\ k < n0
    BY <1>1, <1>6
  <2>2. ~ IsBlank(line[k])
    <3>1. k \notin T
      BY <1>1, <1>3, <2>1
    <3> QED
      BY <2>1, <3>1, Zenon
  <2> QED
    BY <2>1, <2>2, CellsAhead
<1>9. i = 0 \/ Screen[i] = Space
  <2>1. Screen[i + 1] # Space
    <3>1. i \in i .. e - 1
      BY <1>1, <1>6
    <3> QED
      BY <1>8, <3>1
  <2> QED
    BY <1>1, <1>6, <2>1
<1> QED
  BY <1>6, <1>7, <1>8, <1>9

\* A word is saved, the next that begins.
LEMMA ArgStep == ASSUME MonInv, ParseArg PROVE MonInv'
<1> PICK str : str = Screen
  OBVIOUS
<1>1. /\ In("parse") /\ line[i] # NUL /\ ~ IsBlank(line[i]) /\ argv' = Append(argv, i)
      /\ i' = Least({k \in i .. BUFSIZE - 1 : line[k] = NUL \/ IsBlank(line[k])})
      /\ UNCHANGED <<call, line, typed>>
  BY Zenon DEF ParseArg
<1> PICK e : e = Least({k \in i .. BUFSIZE - 1 : line[k] = NUL \/ IsBlank(line[k])})
  OBVIOUS
<1>2. /\ e \in i + 1 .. Len(str) /\ \A k \in i .. e - 1 : str[k + 1] # Space
      /\ e = Len(str) \/ str[e + 1] = Space
      /\ i = 0 \/ str[i] = Space
      /\ i < Len(str)
  BY <1>1, WordScanned
<1>3. /\ LineOk /\ ParsedTo(i) /\ ArgsTo(i)
      /\ Len(str) \in Nat /\ Len(str) <= BUFSIZE - 1 /\ BUFSIZE \in Nat
      /\ line \in [0 .. BUFSIZE - 1 -> Char] /\ i \in 0 .. Len(str) /\ i \in Nat
  BY <1>1, LineParsed, MonitorAssumption
<1>4. i' = e /\ e \in Nat /\ i < e /\ e <= Len(str)
  BY <1>1, <1>2, <1>3
<1>5. LineOk' /\ Screen' = str
  <2>1. line' \in [0 .. BUFSIZE - 1 -> Char] /\ typed' = typed
    BY <1>1, <1>3
  <2> QED
    BY <1>3, <2>1, LineStays
<1>6. ParsedTo(i)'
  <2>1. line[Len(str)] = NUL /\ \A k \in 0 .. Len(str) - 1 :
           line[k] = IF k < i /\ str[k + 1] = Space THEN NUL ELSE str[k + 1]
    BY <1>3 DEF ParsedTo
  <2>2. ASSUME NEW k \in 0 .. Len(str) - 1
        PROVE  line[k] = IF k < e /\ str[k + 1] = Space THEN NUL ELSE str[k + 1]
    <3>1. k < i \/ k \in i .. e - 1 \/ ~ (k < e)
      BY <1>3, <1>4
    <3>2. k \in i .. e - 1 => str[k + 1] # Space
      BY <1>2
    <3> QED
      BY <1>3, <1>4, <2>1, <3>1, <3>2
  <2> QED
    BY <1>1, <1>4, <1>5, <2>1, <2>2 DEF ParsedTo
<1>7. ArgsTo(i)'
  <2>1. Starts(str, e) = Starts(str, i) \union {i + 1}
    <3>1. i \in Nat /\ e \in Nat /\ i < e
      BY <1>3, <1>4
    <3>2. Behind(str, i) /\ Unbroken(str, i, e)
      BY <1>2 DEF Behind, Unbroken
    <3> QED
      BY <3>1, <3>2, StartsWord
  <2> PICK a : a = argv
    OBVIOUS
  <2>2. /\ a \in Seq(Nat) /\ Len(a) \in Nat
        /\ \A x, y \in 1 .. Len(a) : x < y => a[x] < a[y]
        /\ {a[x] + 1 : x \in 1 .. Len(a)} = Starts(str, i)
    BY <1>3 DEF ArgsTo
  <2> PICK c : c = Append(a, i)
    OBVIOUS
  <2>3. /\ c \in Seq(Nat) /\ Len(c) = Len(a) + 1 /\ c[Len(a) + 1] = i
        /\ \A x \in 1 .. Len(a) : c[x] = a[x]
    BY <1>3, <2>2
  <2>4. \A x \in 1 .. Len(a) : a[x] \in Nat /\ a[x] < i
    <3>1. ASSUME NEW x \in 1 .. Len(a) PROVE a[x] \in Nat /\ a[x] < i
      <4>1. a[x] \in Nat /\ a[x] + 1 \in Starts(str, i)
        BY <2>2
      <4>2. a[x] + 1 \in 1 .. i
        BY <4>1 DEF Starts
      <4> QED
        BY <1>3, <4>1, <4>2
    <3> QED
      BY <3>1
  <2>5. ASSUME NEW x \in 1 .. Len(c), NEW y \in 1 .. Len(c), x < y PROVE c[x] < c[y]
    <3>1. x \in 1 .. Len(a) /\ (y \in 1 .. Len(a) \/ y = Len(a) + 1)
      <4>1. Len(a) \in Nat /\ Len(c) = Len(a) + 1 /\ x \in Nat /\ y \in Nat
        BY <2>2, <2>3
      <4>2. 1 <= x /\ x < y /\ 1 <= y /\ y <= Len(a) + 1
        BY <2>5, <4>1
      <4> QED
        BY <4>1, <4>2
    <3> QED
      BY <2>2, <2>3, <2>4, <2>5, <3>1
  <2>6. {c[x] + 1 : x \in 1 .. Len(c)} = Starts(str, e)
    <3>1. 1 .. Len(c) = (1 .. Len(a)) \union {Len(a) + 1}
      BY <2>2, <2>3
    <3>2. {c[x] + 1 : x \in 1 .. Len(c)} = {a[x] + 1 : x \in 1 .. Len(a)} \union {i + 1}
      BY <2>3, <3>1
    <3> QED
      BY <2>1, <2>2, <3>2
  <2>7. Starts(Screen, i)' = Starts(str, e)
    BY <1>4, <1>5 DEF Starts
  <2>8. argv' = c
    BY <1>1
  <2>9. {c[x] + 1 : x \in 1 .. Len(c)} = Starts(Screen, i)'
    BY <2>6, <2>7
  <2>10. \A x, y \in 1 .. Len(c) : x < y => c[x] < c[y]
    BY <2>5
  <2>11. /\ argv' \in Seq(Nat)
         /\ \A x, y \in 1 .. Len(argv') : x < y => argv'[x] < argv'[y]
         /\ {argv'[x] + 1 : x \in 1 .. Len(argv')} = Starts(Screen, i)'
    BY <2>3, <2>8, <2>9, <2>10, ZenonT(40)
  <2> QED
    BY <2>11, Zenon DEF ArgsTo
<1>8. Parsing'
  <2>1. i' \in 0 .. Len(str) /\ (i' = Len(str) \/ str[i' + 1] = Space)
    BY <1>2, <1>4
  <2> QED
    BY <1>5, <1>6, <1>7, <2>1 DEF Parsing
<1> QED
  BY <1>1, <1>5, <1>8, StillParsing

\* Behind argv the monitor is nowhere.
LEMMA TooManyStep == ASSUME MonInv, ParseTooMany PROVE MonInv'
<1>1. In("parse") /\ call'.fn = "undefined" /\ UNCHANGED monvars
  BY NextPlace, Zenon DEF ParseTooMany
<1>2. LineOk'
  <2>1. LineOk /\ line' \in [0 .. BUFSIZE - 1 -> Char] /\ typed' = typed
    BY <1>1, LineParsed DEF monvars
  <2> QED
    BY <2>1, LineStays
<1>3. /\ RunsWhatWasTyped' /\ ~ (call' = None) /\ ~ In("shutdown")' /\ ~ In("readline")'
      /\ ~ In("parse")'
  BY <1>1, NotRun DEF In, None
<1> QED
  BY <1>2, <1>3 DEF MonInv

-----------------------------------------------------------------------------
(* Words                                                                   *)

Words(str) ==
    {w \in (1 .. Len(str)) \X (1 .. Len(str)) : w[1] <= w[2] /\ IsWord(str, w[1], w[2])}
Rank(str, w) == Cardinality({v \in Words(str) : v[1] <= w[1]})

\* A word that begins at w extends as far as e.
Extends(str, w, e) ==
    /\ e \in w .. Len(str) /\ \A k \in w .. e : str[k] # Space
    /\ e = Len(str) \/ str[e + 1] = Space
WordEnd(str, w) == Least({k \in w .. Len(str) : k = Len(str) \/ str[k + 1] = Space})

\* A word is bounded by blanks or the ends of the line.
LEMMA IsWordIs ==
    ASSUME NEW str, NEW lo, NEW hi
    PROVE  IsWord(str, lo, hi) <=> /\ \A k \in lo .. hi : str[k] # Space
                                   /\ lo = 1 \/ str[lo - 1] = Space
                                   /\ hi = Len(str) \/ str[hi + 1] = Space
BY Zenon DEF IsWord, Space

\* Where a word begins, one extends.
LEMMA WordExtends ==
    ASSUME NEW str, Len(str) \in Nat, NEW w \in Starts(str, Len(str))
    PROVE  Extends(str, w, WordEnd(str, w))
<1> DEFINE n0 == Len(str)
           T == {k \in w .. n0 : k = n0 \/ str[k + 1] = Space}
<1>1. w \in 1 .. n0 /\ str[w] # Space /\ n0 \in Nat
  BY DEF Starts
<1>2. PICK e : e = WordEnd(str, w)
  OBVIOUS
<1>3. e \in T /\ \A y \in T : e <= y
  <2>1. T \subseteq Nat /\ n0 \in T
    BY <1>1
  <2>2. e = Least(T)
    BY <1>2 DEF WordEnd
  <2> HIDE DEF T
  <2>3. Least(T) \in T
    BY <2>1, LeastNumber
  <2>4. \A y \in T : Least(T) <= y
    BY <2>1, LeastNumber
  <2> QED
    BY <2>2, <2>3, <2>4
<1>4. e \in w .. n0 /\ (e = n0 \/ str[e + 1] = Space)
  BY <1>3
<1>5. ASSUME NEW k \in w .. e PROVE str[k] # Space
  <2>1. CASE k = w
    BY <1>1, <2>1
  <2>2. CASE k # w
    <3>1. k - 1 \in w .. n0 /\ k - 1 < e /\ (k - 1) + 1 = k /\ k - 1 # n0
      BY <1>1, <1>4, <2>2
    <3>2. k - 1 \notin T
      <4> HIDE DEF T
      <4> QED
        BY <1>1, <1>3, <1>4, <3>1
    <3>3. ~ (str[(k - 1) + 1] = Space)
      BY <3>1, <3>2, Zenon
    <3> QED
      BY <3>1, <3>3, Zenon
  <2> QED
    BY <2>1, <2>2
<1> QED
  BY <1>2, <1>4, <1>5 DEF Extends

\* It has one end.
LEMMA OneEnd ==
    ASSUME NEW str, Len(str) \in Nat, NEW w \in Nat, NEW p, NEW q,
           Extends(str, w, p), Extends(str, w, q)
    PROVE  p = q
<1>1. /\ p \in w .. Len(str) /\ \A k \in w .. p : str[k] # Space
      /\ q \in w .. Len(str) /\ \A k \in w .. q : str[k] # Space
      /\ p = Len(str) \/ str[p + 1] = Space
      /\ q = Len(str) \/ str[q + 1] = Space
  BY DEF Extends
<1>2. ~ (p < q)
  <2> SUFFICES ASSUME p < q PROVE FALSE
    OBVIOUS
  <2>1. p + 1 \in w .. q /\ p # Len(str)
    BY <1>1
  <2> QED
    BY <1>1, <2>1
<1>3. ~ (q < p)
  <2> SUFFICES ASSUME q < p PROVE FALSE
    OBVIOUS
  <2>1. q + 1 \in w .. p /\ q # Len(str)
    BY <1>1
  <2> QED
    BY <1>1, <2>1
<1> QED
  BY <1>1, <1>2, <1>3

\* The words are those that begin somewhere:
LEMMA WordBegins ==
    ASSUME NEW str, Len(str) \in Nat, NEW w \in Starts(str, Len(str))
    PROVE  <<w, WordEnd(str, w)>> \in Words(str)
<1>1. PICK e : e = WordEnd(str, w)
  OBVIOUS
<1>2. w \in 1 .. Len(str) /\ (w = 1 \/ str[w - 1] = Space)
  BY DEF Starts
<1>3. /\ e \in w .. Len(str) /\ \A k \in w .. e : str[k] # Space
      /\ e = Len(str) \/ str[e + 1] = Space
  BY <1>1, WordExtends, Zenon DEF Extends
<1>4. IsWord(str, w, e)
  BY <1>2, <1>3, IsWordIs, Zenon
<1>5. e \in 1 .. Len(str) /\ w <= e
  BY <1>2, <1>3
<1> QED
  BY <1>1, <1>2, <1>4, <1>5 DEF Words

\* each that begins is one, and each begins.
LEMMA WordFrom ==
    ASSUME NEW str, Len(str) \in Nat, NEW v \in Words(str)
    PROVE  v[1] \in Starts(str, Len(str)) /\ v = <<v[1], WordEnd(str, v[1])>>
<1>1. /\ v[1] \in 1 .. Len(str) /\ v[2] \in 1 .. Len(str) /\ v = <<v[1], v[2]>> /\ v[1] <= v[2]
      /\ IsWord(str, v[1], v[2])
  BY DEF Words
<1> PICK w, e : w = v[1] /\ e = v[2]
  OBVIOUS
<1>2. /\ \A k \in w .. e : str[k] # Space
      /\ w = 1 \/ str[w - 1] = Space
      /\ e = Len(str) \/ str[e + 1] = Space
  BY <1>1, IsWordIs, Zenon
<1>3. w \in w .. e /\ e \in w .. Len(str) /\ w \in Nat
  BY <1>1
<1>4. w \in Starts(str, Len(str))
  BY <1>1, <1>2, <1>3 DEF Starts
<1>5. Extends(str, w, e)
  BY <1>2, <1>3, Zenon DEF Extends
<1>6. e = WordEnd(str, w)
  BY <1>3, <1>4, <1>5, WordExtends, OneEnd
<1> QED
  BY <1>1, <1>4, <1>6

\* Counting off.
LEMMA CountOff ==
    ASSUME NEW x \in Nat, NEW S, NEW f \in [1 .. x -> S],
           \A j, k \in 1 .. x : f[j] = f[k] => j = k,
           \A v \in S : \E j \in 1 .. x : f[j] = v
    PROVE  Cardinality(S) = x
<1>1. f \in Bijection(1 .. x, S)
  BY DEF Bijection, Injection, Surjection, IsInjective
<1>2. IsFiniteSet(1 .. x) /\ Cardinality(1 .. x) = x
  BY FS_Interval
<1> QED
  BY <1>1, <1>2, FS_Bijection DEF ExistsBijection

\* If a lists where the words begin, its length is their number, and the x-th of it is
\* the beginning of the x-th word.
LEMMA WordsCounted ==
    ASSUME NEW str, Len(str) \in Nat, NEW a \in Seq(Nat),
           \A x, y \in 1 .. Len(a) : x < y => a[x] < a[y],
           {a[x] + 1 : x \in 1 .. Len(a)} = Starts(str, Len(str))
    PROVE  /\ Cardinality(Words(str)) = Len(a)
           /\ \A w \in Words(str) : \E x \in 1 .. Len(a) :
                  Rank(str, w) = x /\ w = <<a[x] + 1, WordEnd(str, a[x] + 1)>>
<1> DEFINE F(x) == <<a[x] + 1, WordEnd(str, a[x] + 1)>>
<1>1. Len(a) \in Nat /\ \A x \in 1 .. Len(a) : a[x] \in Nat
  OBVIOUS
<1>2. ASSUME NEW x \in 1 .. Len(a) PROVE F(x) \in Words(str)
  <2>1. a[x] + 1 \in Starts(str, Len(str))
    OBVIOUS
  <2> QED
    BY <2>1, WordBegins
<1>3. ASSUME NEW x \in 1 .. Len(a), NEW y \in 1 .. Len(a), F(x) = F(y) PROVE x = y
  <2>1. a[x] = a[y]
    BY <1>1, <1>3
  <2>2. ~ (x < y) /\ ~ (y < x)
    BY <1>1, <2>1
  <2> QED
    BY <1>1, <2>2
<1>4. ASSUME NEW v \in Words(str) PROVE \E x \in 1 .. Len(a) : F(x) = v
  <2>1. v[1] \in Starts(str, Len(str)) /\ v = <<v[1], WordEnd(str, v[1])>>
    BY WordFrom
  <2>2. PICK x \in 1 .. Len(a) : a[x] + 1 = v[1]
    BY <2>1
  <2> QED
    BY <2>1, <2>2, Zenon
<1>5. ASSUME NEW m \in 0 .. Len(a), NEW S,
             \A v : v \in S <=> \E x \in 1 .. m : F(x) = v
      PROVE  Cardinality(S) = m
  <2> DEFINE f == [x \in 1 .. m |-> F(x)]
  <2>1. m \in Nat /\ 1 .. m \subseteq 1 .. Len(a)
    BY <1>1
  <2>2. \A x \in 1 .. m : f[x] = F(x)
    OBVIOUS
  <2>3. f \in [1 .. m -> S]
    BY <1>5, Zenon
  <2> HIDE DEF f, F
  <2>4. \A j, k \in 1 .. m : f[j] = f[k] => j = k
    BY <1>3, <2>1, <2>2
  <2>5. \A v \in S : \E j \in 1 .. m : f[j] = v
    BY <1>5, <2>2
  <2> QED
    BY <2>1, <2>3, <2>4, <2>5, CountOff
<1>6. Cardinality(Words(str)) = Len(a)
  <2>1. \A v : v \in Words(str) <=> \E x \in 1 .. Len(a) : F(x) = v
    BY <1>2, <1>4, Zenon
  <2>2. Len(a) \in 0 .. Len(a)
    BY <1>1
  <2> HIDE DEF F
  <2> QED
    BY <1>5, <2>1, <2>2
<1>7. ASSUME NEW w \in Words(str)
      PROVE  \E x \in 1 .. Len(a) : Rank(str, w) = x /\ w = F(x)
  <2>1. PICK x \in 1 .. Len(a) : F(x) = w
    BY <1>4
  <2> DEFINE S == {v \in Words(str) : v[1] <= w[1]}
  <2>2. ASSUME NEW v PROVE v \in S <=> \E y \in 1 .. x : F(y) = v
    <3>1. w[1] = a[x] + 1
      BY <2>1
    <3>2. ASSUME v \in S PROVE \E y \in 1 .. x : F(y) = v
      <4>1. PICK y \in 1 .. Len(a) : F(y) = v
        BY <1>4, <3>2
      <4>2. v[1] = a[y] + 1 /\ v[1] <= w[1]
        BY <3>2, <4>1
      <4>3. ~ (x < y)
        BY <1>1, <3>1, <4>2
      <4>4. y \in 1 .. x
        BY <1>1, <4>3
      <4> QED
        BY <4>1, <4>4, Zenon
    <3>3. ASSUME NEW y \in 1 .. x, F(y) = v PROVE v \in S
      <4>1. y \in 1 .. Len(a) /\ (y < x \/ y = x)
        BY <1>1
      <4>2. v \in Words(str) /\ v[1] = a[y] + 1
        BY <1>2, <3>3, <4>1
      <4>3. a[y] <= a[x]
        BY <1>1, <4>1
      <4>4. v[1] <= w[1]
        BY <1>1, <3>1, <4>1, <4>2, <4>3
      <4> QED
        BY <4>2, <4>4
    <3> QED
      BY <3>2, <3>3, Zenon
  <2>3. x \in 0 .. Len(a)
    BY <1>1
  <2>4. Cardinality(S) = x
    <3> HIDE DEF S, F
    <3> QED
      BY <1>5, <2>2, <2>3
  <2> QED
    BY <2>1, <2>4, Zenon DEF Rank
<1> QED
  BY <1>6, <1>7, Zenon

-----------------------------------------------------------------------------
(* runcmd                                                                  *)

Args == [x \in 1 .. Len(argv) |-> StringAt(argv[x])]
WordsAreArgs ==
    /\ Cardinality(Words(Screen)) = Len(Args)
    /\ \A w \in Words(Screen) : Args[Rank(Screen, w)] = SubSeq(Screen, w[1], w[2])
CommandFound ==
    IF result # 0 THEN Args # <<>> /\ commands[result] = Args[1]
    ELSE Args = <<>> \/ \A k \in 1 .. Len(commands) : commands[k] # Args[1]

\* In these terms, the property.
LEMMA RunsMeans == RunsWhatWasTyped <=> (In("run") => WordsAreArgs /\ CommandFound)
BY Zenon DEF RunsWhatWasTyped, WordsAreArgs, CommandFound, Words, Rank, Args, Screen

\* An argument is the word that begins there, terminated by the blank behind it.
LEMMA ArgumentAt ==
    ASSUME LineOk, ParsedTo(Len(Screen)), NEW k \in Nat, k + 1 \in Starts(Screen, Len(Screen))
    PROVE  /\ StringAt(k) \in Text
           /\ StringAt(k) = SubSeq(Screen, k + 1, WordEnd(Screen, k + 1))
<1> PICK str : str = Screen
  OBVIOUS
<1> PICK e : e = WordEnd(str, k + 1)
  OBVIOUS
<1> DEFINE n0 == Len(str)
           T == {j \in k .. BUFSIZE - 1 : line[j] = NUL}
<1>1. str \in Seq(OnScreen) /\ n0 \in Nat /\ n0 <= BUFSIZE - 1 /\ BUFSIZE \in Nat
  BY MonitorAssumption DEF LineOk
<1>2. Extends(str, k + 1, e)
  BY <1>1, WordExtends
<1>3. /\ e \in k + 1 .. n0 /\ \A j \in k + 1 .. e : str[j] # Space
      /\ e = n0 \/ str[e + 1] = Space
  BY <1>2 DEF Extends
<1>4. /\ line[n0] = NUL
      /\ \A j \in 0 .. n0 - 1 : line[j] = IF j < n0 /\ str[j + 1] = Space THEN NUL ELSE str[j + 1]
  BY DEF ParsedTo
<1>5. line[e] = NUL
  <2>1. e # n0 => e \in 0 .. n0 - 1 /\ e < n0
    BY <1>1, <1>3
  <2> QED
    BY <1>3, <1>4, <2>1, Zenon
<1>6. ASSUME NEW j \in k .. e - 1 PROVE line[j] = str[j + 1] /\ line[j] \in Char \ {NUL}
  <2>1. j \in 0 .. n0 - 1 /\ j + 1 \in k + 1 .. e /\ j + 1 \in 1 .. n0
    BY <1>1, <1>3
  <2>2. line[j] = str[j + 1]
    BY <1>3, <1>4, <2>1, Zenon
  <2>3. str[j + 1] \in OnScreen
    BY <1>1, <2>1
  <2> QED
    BY <2>2, <2>3, OnScreenChar
<1>7. Least(T) = e
  <2>1. T \subseteq Nat /\ e \in T
    BY <1>1, <1>3, <1>5
  <2>2. ASSUME NEW y \in T PROVE e <= y
    <3>1. y \in k .. BUFSIZE - 1 /\ line[y] = NUL
      OBVIOUS
    <3>2. y \notin k .. e - 1
      BY <1>6, <3>1
    <3> QED
      BY <1>1, <1>3, <3>1, <3>2
  <2> HIDE DEF T
  <2> QED
    BY <2>1, <2>2, LeastIs
<1>8. StringAt(k) = [j \in 1 .. e - k |-> line[k + j - 1]]
  BY <1>7, Zenon DEF StringAt
<1>9. ASSUME NEW j \in 1 .. e - k
      PROVE  line[k + j - 1] = str[k + j] /\ line[k + j - 1] \in Char \ {NUL}
  <2>1. k + j - 1 \in k .. e - 1 /\ (k + j - 1) + 1 = k + j
    BY <1>3
  <2> QED
    BY <1>6, <2>1
<1>10. e - k \in Nat
  BY <1>3
<1>11. StringAt(k) \in Text
  <2>1. [j \in 1 .. e - k |-> line[k + j - 1]] \in [1 .. e - k -> Char \ {NUL}]
    BY <1>9
  <2>2. StringAt(k) \in [1 .. e - k -> Char \ {NUL}]
    BY <1>8, <2>1, Zenon
  <2>3. StringAt(k) \in Seq(Char \ {NUL})
    BY <1>10, <2>2
  <2> QED
    BY <2>3, Zenon DEF Text
<1>12. StringAt(k) = SubSeq(str, k + 1, e)
  <2>1. SubSeq(str, k + 1, e) = [j \in 1 .. e - k |-> str[k + j]]
    BY <1>1, <1>3
  <2>2. [j \in 1 .. e - k |-> line[k + j - 1]] = [j \in 1 .. e - k |-> str[k + j]]
    BY <1>9
  <2> QED
    BY <1>8, <2>1, <2>2, Zenon
<1> QED
  BY <1>11, <1>12

\* At the end of the line all is parsed.
LEMMA LineEnds ==
    ASSUME MonInv, In("parse"), line[i] = NUL
    PROVE  /\ LineOk /\ ParsedTo(Len(Screen)) /\ Len(Screen) \in Nat
           /\ argv \in Seq(Nat)
           /\ \A x, y \in 1 .. Len(argv) : x < y => argv[x] < argv[y]
           /\ {argv[x] + 1 : x \in 1 .. Len(argv)} = Starts(Screen, Len(Screen))
<1>1. LineOk /\ ParsedTo(i) /\ ArgsTo(i) /\ i \in 0 .. Len(Screen) /\ Len(Screen) \in Nat
  BY LineParsed
<1>2. i = Len(Screen)
  <2>1. i \in i .. Len(Screen)
    BY <1>1
  <2> QED
    BY <2>1, CellsAhead
<1> QED
  BY <1>1, <1>2, Zenon DEF ArgsTo

\* Then the arguments are the words.
LEMMA ArgumentsAre ==
    ASSUME MonInv, In("parse"), line[i] = NUL
    PROVE  WordsAreArgs /\ Args \in Seq(Text) /\ Len(Args) = Len(argv)
<1> PICK str, a : str = Screen /\ a = argv
  OBVIOUS
<1>1. /\ LineOk /\ ParsedTo(Len(str)) /\ Len(str) \in Nat
      /\ a \in Seq(Nat)
      /\ \A x, y \in 1 .. Len(a) : x < y => a[x] < a[y]
      /\ {a[x] + 1 : x \in 1 .. Len(a)} = Starts(str, Len(str))
  BY LineEnds
<1>2. ASSUME NEW x \in 1 .. Len(a)
      PROVE  /\ StringAt(a[x]) \in Text
             /\ StringAt(a[x]) = SubSeq(str, a[x] + 1, WordEnd(str, a[x] + 1))
  <2>1. a[x] \in Nat /\ a[x] + 1 \in Starts(str, Len(str))
    BY <1>1
  <2> QED
    BY <1>1, <2>1, ArgumentAt
<1>3. Len(a) \in Nat /\ Args = [x \in 1 .. Len(a) |-> StringAt(a[x])]
  BY <1>1 DEF Args
<1>4. Args \in Seq(Text) /\ Len(Args) = Len(a)
  <2> PICK as : as = Args
    OBVIOUS
  <2>1. as \in [1 .. Len(a) -> Text]
    BY <1>2, <1>3, Zenon
  <2>2. as \in Seq(Text) /\ Len(as) = Len(a)
    BY <1>3, <2>1
  <2> QED
    BY <2>2
<1>5. /\ Cardinality(Words(str)) = Len(a)
      /\ \A w \in Words(str) : \E x \in 1 .. Len(a) :
             Rank(str, w) = x /\ w = <<a[x] + 1, WordEnd(str, a[x] + 1)>>
  BY <1>1, WordsCounted, ZenonT(40)
<1>6. ASSUME NEW w \in Words(str) PROVE Args[Rank(str, w)] = SubSeq(str, w[1], w[2])
  <2>1. PICK x \in 1 .. Len(a) : Rank(str, w) = x /\ w = <<a[x] + 1, WordEnd(str, a[x] + 1)>>
    BY <1>5
  <2>2. Args[x] = StringAt(a[x])
    BY <1>3
  <2>3. w[1] = a[x] + 1 /\ w[2] = WordEnd(str, a[x] + 1)
    BY <2>1
  <2> QED
    BY <1>2, <2>1, <2>2, <2>3, Zenon
<1>7. WordsAreArgs
  BY <1>4, <1>5, <1>6 DEF WordsAreArgs
<1> QED
  BY <1>4, <1>7

\* The command is the one that strcmp finds equal.
LEMMA RunStep == ASSUME MonInv, runcmd PROVE MonInv'
<1> DEFINE found == {k \in 1 .. Len(commands) :
                        argv # <<>> /\ strcmp(commands[k], StringAt(argv[1])) = 0}
<1>1. /\ In("parse") /\ line[i] = NUL /\ UNCHANGED <<line, i, argv, typed>> /\ Goto("run")
      /\ result' = IF found = {} THEN 0 ELSE Least(found)
  BY Zenon DEF runcmd
<1> PICK as : as = Args
  OBVIOUS
<1>2. WordsAreArgs /\ as \in Seq(Text) /\ Len(as) = Len(argv) /\ argv \in Seq(Nat)
  BY <1>1, ArgumentsAre, LineEnds
<1>3. Args' = as /\ Screen' = Screen
  BY <1>1 DEF Args, StringAt, Screen
<1>4. WordsAreArgs'
  <2>1. Args' = Args /\ Screen' = Screen
    BY <1>3
  <2> QED
    BY <1>2, <2>1 DEF WordsAreArgs
<1>5. argv = <<>> <=> as = <<>>
  BY <1>2
<1>6. ASSUME as # <<>>
      PROVE  /\ as[1] \in Text
             /\ \A k \in 1 .. Len(commands) : k \in found <=> commands[k] = as[1]
  <2>1. 1 \in 1 .. Len(as) /\ 1 \in 1 .. Len(argv)
    BY <1>2, <1>6
  <2>2. as[1] \in Text /\ as[1] = StringAt(argv[1])
    BY <1>2, <2>1 DEF Args
  <2>3. ASSUME NEW k \in 1 .. Len(commands)
        PROVE  strcmp(commands[k], as[1]) = 0 <=> commands[k] = as[1]
    <3>1. commands[k] \in Text
      BY MonitorAssumption DEF Text
    <3> QED
      BY <2>2, <3>1, StrcmpOrders
  <2> QED
    BY <1>5, <1>6, <2>2, <2>3, Zenon
<1>7. CommandFound'
  <2>1. found \subseteq Nat /\ \A k \in found : k \in 1 .. Len(commands) /\ k # 0 /\ argv # <<>>
    BY MonitorAssumption
  <2> HIDE DEF found
  <2>2. CASE found = {}
    <3>1. result' = 0
      BY <1>1, <2>2
    <3>2. as = <<>> \/ \A k \in 1 .. Len(commands) : commands[k] # as[1]
      BY <1>6, <2>2
    <3> QED
      BY <1>3, <3>1, <3>2 DEF CommandFound
  <2>3. CASE found # {}
    <3>1. result' \in found
      BY <1>1, <2>1, <2>3, LeastNumber
    <3>2. result' # 0 /\ as # <<>> /\ result' \in 1 .. Len(commands)
      BY <1>5, <2>1, <3>1
    <3>3. commands[result'] = as[1]
      BY <1>6, <3>1, <3>2
    <3> QED
      BY <1>3, <3>2, <3>3 DEF CommandFound
  <2> QED
    BY <2>2, <2>3
<1>8. RunsWhatWasTyped'
  BY <1>4, <1>7, RunsMeans, PTL
<1>9. LineOk'
  <2>1. LineOk /\ line' \in [0 .. BUFSIZE - 1 -> Char] /\ typed' = typed
    BY <1>1, LineParsed
  <2> QED
    BY <2>1, LineStays
<1>10. /\ ~ (call' = None) /\ ~ In("shutdown")' /\ ~ In("readline")' /\ ~ In("parse")'
  <2>1. call'.fn = "run"
    BY <1>1, NextPlace
  <2> QED
    BY <2>1 DEF In, None
<1> QED
  BY <1>8, <1>9, <1>10 DEF MonInv

\* No step leaves the invariant.
LEMMA MonitorNext == MonInv /\ [MonitorStep]_<<memvars, monvars>> => MonInv'
<1> SUFFICES ASSUME MonInv, [MonitorStep]_<<memvars, monvars>> PROVE MonInv'
  OBVIOUS
<1>1. CASE kmonitor \/ sbi_shutdown \/ NextLine
  BY <1>1, IdleStep
<1>2. CASE readline
  BY <1>2, ReadStep
<1>3. CASE ParseBlank
  BY <1>3, BlankStep
<1>4. CASE ParseArg
  BY <1>4, ArgStep
<1>5. CASE ParseTooMany
  BY <1>5, TooManyStep
<1>6. CASE runcmd
  BY <1>6, RunStep
<1>7. CASE UNCHANGED <<memvars, monvars>>
  <2>1. UNCHANGED <<call, line, i, argv, result, typed>>
    BY <1>7 DEF memvars, monvars
  <2>2. Screen' = Screen
    BY <2>1 DEF Screen
  <2>3. LineOk' = LineOk /\ Reading' = Reading
    BY <2>1, <2>2 DEF LineOk, Reading
  <2>4. Parsing' = Parsing
    <3>1. Starts(Screen, i)' = Starts(Screen, i)
      BY <2>1, <2>2 DEF Starts
    <3>2. ArgsTo(i)' = ArgsTo(i)
      BY <2>1, <3>1 DEF ArgsTo
    <3>3. ParsedTo(i)' = ParsedTo(i)
      BY <2>1, <2>2 DEF ParsedTo
    <3> QED
      BY <2>1, <2>2, <3>2, <3>3 DEF Parsing
  <2>5. RunsWhatWasTyped => RunsWhatWasTyped'
    <3>1. \A k : StringAt(k)' = StringAt(k)
      BY <2>1 DEF StringAt
    <3>2. Args' = Args
      BY <2>1, <3>1 DEF Args
    <3>3. /\ WordsAreArgs' <=> WordsAreArgs
          /\ CommandFound' <=> CommandFound
          /\ In("run")' <=> In("run")
      BY <2>1, <2>2, <3>2 DEF WordsAreArgs, CommandFound, In
    <3> QED
      BY <3>3, RunsMeans, PTL
  <2> QED
    BY <2>1, <2>3, <2>4, <2>5 DEF MonInv, In
<1> QED
  BY <1>1, <1>2, <1>3, <1>4, <1>5, <1>6, <1>7 DEF MonitorStep

\* When a command runs, parse has found exactly the words of the line as edited, and
\* runcmd the command whose name is the first of them: leftovers of earlier lines in the
\* buffer, a full buffer and keys that were taken back make no difference.
THEOREM TypedIsRun == MonSpec => []RunsWhatWasTyped
<1>1. MonInv => RunsWhatWasTyped
  BY DEF MonInv
<1> QED
  BY <1>1, InitMonInv, MonitorNext, PTL DEF MonSpec

===============================================================================
