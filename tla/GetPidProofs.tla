---------------------------- MODULE GetPidProofs -----------------------------
(***************************************************************************)
(* get_pid returns a fresh pid, for every MAX_PID > MAX_PROCESS.           *)
(***************************************************************************)
EXTENDS GetPid, SequenceTheorems, TLAPS

\* The inductive invariant: what get_pid keeps between calls and in its loop.
IInv ==
    /\ TypeOK
    /\ PidsUnique
    /\ WindowFree
    /\ WalkKnows
    /\ ReturnsFirstFree

\* The entries of the list after one is pushed at the head, or one is taken out.
LEMMA Pushed ==
    ASSUME NEW s \in Seq(Pid), NEW p \in Pid
    PROVE  LET t == <<p>> \o s IN
           /\ t \in Seq(Pid) /\ Len(t) = Len(s) + 1 /\ t[1] = p
           /\ \A j \in 2 .. Len(t) : t[j] = s[j - 1] /\ j - 1 \in 1 .. Len(s)
OBVIOUS

LEMMA TakenOut ==
    ASSUME NEW s \in Seq(Pid), NEW i \in 1 .. Len(s)
    PROVE  LET t == SubSeq(s, 1, i - 1) \o SubSeq(s, i + 1, Len(s)) IN
           /\ t \in Seq(Pid) /\ Len(t) = Len(s) - 1
           /\ \A j \in 1 .. Len(t) : t[j] = IF j < i THEN s[j] ELSE s[j + 1]
<1> DEFINE a == SubSeq(s, 1, i - 1)
           b == SubSeq(s, i + 1, Len(s))
<1>1. Len(s) \in Nat /\ i \in Nat /\ \A j \in 1 .. Len(s) : s[j] \in Pid
  OBVIOUS
<1>2. /\ a \in Seq(Pid) /\ Len(a) = i - 1 /\ \A j \in 1 .. i - 1 : a[j] = s[j]
  BY <1>1, SubSeqProperties
<1>3. /\ b \in Seq(Pid) /\ Len(b) = Len(s) - i
      /\ \A j \in 1 .. Len(s) - i : b[j] = s[i + j]
  BY <1>1, SubSeqProperties
<1> HIDE DEF a, b
<1>4. /\ a \o b \in Seq(Pid) /\ Len(a \o b) = Len(a) + Len(b)
      /\ \A j \in 1 .. Len(a) + Len(b) : (a \o b)[j] = IF j <= Len(a) THEN a[j] ELSE b[j - Len(a)]
  BY <1>2, <1>3, ConcatProperties
<1>5. Len(a) + Len(b) = Len(s) - 1
  BY <1>1, <1>2, <1>3
<1>6. ASSUME NEW j \in 1 .. Len(s) - 1 PROVE (a \o b)[j] = IF j < i THEN s[j] ELSE s[j + 1]
  <2>1. CASE j < i
    BY <1>1, <1>2, <1>4, <1>5, <2>1
  <2>2. CASE ~ (j < i)
    <3>1. (a \o b)[j] = b[j - (i - 1)]
      BY <1>1, <1>2, <1>4, <1>5, <2>2
    <3>2. j - (i - 1) \in 1 .. Len(s) - i /\ i + (j - (i - 1)) = j + 1
      BY <1>1, <2>2
    <3>3. b[j - (i - 1)] = s[i + (j - (i - 1))]
      BY <1>3, <3>2
    <3> QED
      BY <2>2, <3>1, <3>2, <3>3
  <2> QED
    BY <2>1, <2>2
<1> QED
  BY <1>4, <1>5, <1>6 DEF a, b

\* Pids taken, seen through the entries of the list.
LEMMA InListed ==
    ASSUME NEW q
    PROVE  q \in Listed <=> \E i \in 1 .. Len(proc_list) : proc_list[i] = q
BY DEF Listed

LEMMA InitInv == Init => IInv
<1> SUFFICES ASSUME Init PROVE IInv
  OBVIOUS
<1>1. Len(proc_list) = 0 /\ Listed = {}
  BY DEF Init, Listed
<1> QED
  BY <1>1, GetPidAssumption
     DEF Init, IInv, TypeOK, PidsUnique, WindowFree, WalkKnows, ReturnsFirstFree, Pid

LEMMA CallInv ==
    ASSUME IInv, Call
    PROVE  IInv'
<1> DEFINE p == last_pid + 1
<1>1. /\ pc = "idle" /\ proc_list' = proc_list /\ Listed' = Listed
      /\ TypeOK /\ WindowFree /\ PidsUnique' /\ Listed \subseteq Pid
  BY DEF Call, IInv, Listed, TypeOK, PidsUnique
<1>2. CASE p < MAX_PID /\ WindowOpen(p)
  <2>1. /\ last_pid' = p /\ start' = p /\ pc' = "return" /\ UNCHANGED <<next_safe, le>>
    BY <1>2 DEF Call
  <2>2. p \in Pid /\ p \notin Listed /\ last_pid \in Nat /\ next_safe \in Nat
    BY <1>1, <1>2, GetPidAssumption DEF TypeOK, WindowFree, WindowOpen, Pid
  <2>3. TypeOK'
    BY <1>1, <2>1, <2>2, GetPidAssumption DEF TypeOK, Pid
  <2>4. WindowFree'
    BY <1>1, <2>1, <2>2, GetPidAssumption DEF TypeOK, WindowFree, Pid
  <2>5. \A q \in Pid : ~ Before(q, p, p)
    BY <2>2, GetPidAssumption DEF Before, Pid
  <2>6. ReturnsFirstFree' /\ WalkKnows'
    BY <1>1, <2>1, <2>2, <2>5 DEF ReturnsFirstFree, WalkKnows, IsFirstFree
  <2> QED
    BY <1>1, <2>3, <2>4, <2>6 DEF IInv
<1>3. CASE ~ (p < MAX_PID /\ WindowOpen(p))
  <2>1. /\ last_pid' = Wrap(p) /\ start' = Wrap(p) /\ next_safe' = MAX_PID
        /\ le' = 1 /\ pc' = "scan"
    BY <1>3 DEF Call
  <2>2. Wrap(p) \in Pid /\ Wrap(p) < MAX_PID
    BY <1>1, GetPidAssumption DEF TypeOK, Wrap, Pid
  <2>3. TypeOK'
    BY <1>1, <2>1, <2>2, GetPidAssumption DEF TypeOK, Pid
  <2>4. \A q \in Pid : ~ Before(q, Wrap(p), Wrap(p))
    BY <2>2, GetPidAssumption DEF Before, Pid
  <2>5. 1 \in 1 .. Len(proc_list) + 1 /\ 1 .. 1 - 1 = {}
    BY <1>1 DEF TypeOK
  <2>6. WalkKnows'
    BY <1>1, <2>1, <2>2, <2>4, <2>5 DEF WalkKnows
  <2> QED
    BY <1>1, <2>1, <2>3, <2>6 DEF IInv, WindowFree, ReturnsFirstFree
<1> QED
  BY <1>2, <1>3

\* The pids skipped by trying the one after last_pid are taken, if last_pid is.
LEMMA SkipOne ==
    ASSUME NEW l \in Pid, NEW p \in Pid, NEW q \in Pid, NEW st \in Pid,
           p = Wrap(l + 1), Before(q, p, st)
    PROVE  q = l \/ Before(q, l, st)
BY GetPidAssumption DEF Wrap, Before, Pid

LEMMA ScanTakenInv ==
    ASSUME IInv, ScanTaken
    PROVE  IInv'
<1> DEFINE p == last_pid + 1
<1>1. /\ pc = "scan" /\ pc' = "scan" /\ proc_list' = proc_list /\ Listed' = Listed
      /\ start' = start /\ le <= Len(proc_list) /\ proc_list[le] = last_pid
      /\ TypeOK /\ PidsUnique' /\ Listed \subseteq Pid
      /\ start \in Pid /\ Len(proc_list) \in Nat /\ next_safe \in 1 .. MAX_PID
  BY DEF ScanTaken, IInv, Listed, TypeOK, PidsUnique
<1>2. /\ last_pid \in Pid /\ last_pid < next_safe /\ le \in 1 .. Len(proc_list) + 1
      /\ next_safe \in Listed \union {MAX_PID}
      /\ \A q \in Pid : Before(q, last_pid, start) => q \in Listed
      /\ \A i \in 1 .. le - 1 : proc_list[i] < last_pid \/ next_safe <= proc_list[i]
  BY <1>1 DEF IInv, WalkKnows
<1>3. le \in 1 .. Len(proc_list) /\ last_pid \in Listed
  BY <1>1, <1>2, InListed
<1>4. last_pid' \in Pid /\ last_pid' = Wrap(p)
  BY <1>1, <1>2, GetPidAssumption DEF ScanTaken, Wrap, Pid
<1>5. \A q \in Pid : Before(q, last_pid', start') => q \in Listed'
  BY <1>1, <1>2, <1>3, <1>4, SkipOne
<1>6. CASE p < next_safe
  <2>1. last_pid' = p /\ le' = le + 1 /\ next_safe' = next_safe
    BY <1>1, <1>2, <1>6, GetPidAssumption DEF ScanTaken, Pid
  <2>2. ASSUME NEW i \in 1 .. le' - 1 PROVE proc_list[i] < p \/ next_safe <= proc_list[i]
    <3>0. proc_list[i] \in Pid /\ last_pid \in Nat /\ le \in Nat
      BY <1>1, <1>2, <1>3, <2>1, GetPidAssumption DEF TypeOK, Pid
    <3>1. CASE i = le
      BY <1>1, <3>0, <3>1
    <3>2. CASE i # le
      <4>1. i \in 1 .. le - 1
        BY <2>1, <3>0, <3>2
      <4>2. proc_list[i] < last_pid \/ next_safe <= proc_list[i]
        BY <1>2, <4>1
      <4> QED
        BY <3>0, <4>2, GetPidAssumption DEF Pid
    <3> QED
      BY <3>1, <3>2
  <2>3. WalkKnows'
    BY <1>1, <1>2, <1>3, <1>4, <1>5, <1>6, <2>1, <2>2 DEF WalkKnows
  <2>4. TypeOK'
    BY <1>1, <1>3, <1>4, <2>1, GetPidAssumption DEF TypeOK, Pid
  <2> QED
    BY <1>1, <2>3, <2>4 DEF IInv, WindowFree, ReturnsFirstFree
<1>7. CASE ~ (p < next_safe)
  <2>1. le' = 1 /\ next_safe' = MAX_PID
    BY <1>1, <1>2, <1>7, GetPidAssumption DEF ScanTaken, Pid
  <2>2. last_pid' < next_safe' /\ le' \in 1 .. Len(proc_list) + 1 /\ 1 .. le' - 1 = {}
    BY <1>1, <1>4, <2>1, GetPidAssumption DEF Pid
  <2>3. WalkKnows'
    BY <1>1, <1>4, <1>5, <2>1, <2>2 DEF WalkKnows
  <2>4. TypeOK'
    BY <1>1, <1>4, <2>1, GetPidAssumption DEF TypeOK, Pid
  <2> QED
    BY <1>1, <2>3, <2>4 DEF IInv, WindowFree, ReturnsFirstFree
<1> QED
  BY <1>6, <1>7

LEMMA ScanOtherInv ==
    ASSUME IInv, ScanOther
    PROVE  IInv'
<1> DEFINE q == proc_list[le]
<1>1. /\ pc = "scan" /\ pc' = "scan" /\ proc_list' = proc_list /\ Listed' = Listed
      /\ start' = start /\ last_pid' = last_pid /\ le' = le + 1 /\ le <= Len(proc_list)
      /\ q # last_pid
      /\ next_safe' = IF q > last_pid /\ next_safe > q THEN q ELSE next_safe
      /\ TypeOK /\ PidsUnique' /\ Listed \subseteq Pid
      /\ start \in Pid /\ Len(proc_list) \in Nat /\ next_safe \in 1 .. MAX_PID
  BY DEF ScanOther, IInv, Listed, TypeOK, PidsUnique
<1>2. /\ last_pid \in Pid /\ last_pid < next_safe /\ le \in 1 .. Len(proc_list) + 1
      /\ next_safe \in Listed \union {MAX_PID}
      /\ \A r \in Pid : Before(r, last_pid, start) => r \in Listed
      /\ \A i \in 1 .. le - 1 : proc_list[i] < last_pid \/ next_safe <= proc_list[i]
  BY <1>1 DEF IInv, WalkKnows
<1>3. le \in 1 .. Len(proc_list) /\ q \in Listed /\ q \in Pid
  <2>1. le \in 1 .. Len(proc_list)
    BY <1>1, <1>2
  <2>2. q \in Listed
    BY <2>1 DEF Listed
  <2> QED
    BY <1>1, <2>1, <2>2
<1>4. /\ next_safe' \in Listed \union {MAX_PID} /\ last_pid < next_safe'
      /\ next_safe' \in 1 .. MAX_PID /\ next_safe' <= next_safe
      /\ q < last_pid \/ next_safe' <= q
  BY <1>1, <1>2, <1>3, GetPidAssumption DEF Pid
<1>5. ASSUME NEW i \in 1 .. le' - 1 PROVE proc_list[i] < last_pid \/ next_safe' <= proc_list[i]
  <2>0. proc_list[i] \in Pid /\ le \in Nat
    BY <1>1, <1>2, <1>3 DEF TypeOK
  <2>1. CASE i = le
    BY <1>4, <2>1
  <2>2. CASE i # le
    <3>1. i \in 1 .. le - 1
      BY <1>1, <2>0, <2>2
    <3>2. proc_list[i] < last_pid \/ next_safe <= proc_list[i]
      BY <1>2, <3>1
    <3> QED
      BY <1>1, <1>4, <2>0, <3>2, GetPidAssumption DEF Pid
  <2> QED
    BY <2>1, <2>2
<1>6. WalkKnows'
  BY <1>1, <1>2, <1>3, <1>4, <1>5 DEF WalkKnows
<1>7. TypeOK'
  BY <1>1, <1>3, <1>4 DEF TypeOK
<1> QED
  BY <1>1, <1>6, <1>7 DEF IInv, WindowFree, ReturnsFirstFree

LEMMA ScanEndInv ==
    ASSUME IInv, ScanEnd
    PROVE  IInv'
<1>1. /\ pc = "scan" /\ pc' = "return" /\ le > Len(proc_list)
      /\ UNCHANGED <<proc_list, last_pid, next_safe, le, start>> /\ Listed' = Listed
      /\ TypeOK /\ Len(proc_list) \in Nat
  BY DEF ScanEnd, IInv, pidvars, Listed, TypeOK
<1>2. /\ last_pid \in Pid /\ last_pid < next_safe /\ le \in 1 .. Len(proc_list) + 1
      /\ \A q \in Pid : Before(q, last_pid, start) => q \in Listed
      /\ \A i \in 1 .. le - 1 : proc_list[i] < last_pid \/ next_safe <= proc_list[i]
  BY <1>1 DEF IInv, WalkKnows
<1>3. \A q \in Listed : q < last_pid \/ next_safe <= q
  BY <1>1, <1>2, InListed
<1>4. last_pid \notin Listed
  BY <1>1, <1>2, <1>3, GetPidAssumption DEF TypeOK, Pid
<1>5. ReturnsFirstFree'
  BY <1>1, <1>2, <1>4 DEF ReturnsFirstFree, IsFirstFree
<1>6. WindowFree'
  <2>1. Listed \subseteq Pid
    BY <1>1 DEF Listed, TypeOK
  <2> QED
    BY <1>1, <1>2, <1>3, <2>1, GetPidAssumption DEF WindowFree, Pid
<1>7. TypeOK' /\ PidsUnique' /\ WalkKnows'
  BY <1>1 DEF TypeOK, IInv, PidsUnique, WalkKnows
<1> QED
  BY <1>5, <1>6, <1>7 DEF IInv

LEMMA AddInv ==
    ASSUME IInv, Add
    PROVE  IInv'
<1>1. /\ pc = "return" /\ pc' = "idle" /\ proc_list' = <<last_pid>> \o proc_list
      /\ UNCHANGED <<last_pid, next_safe, le, start>>
      /\ TypeOK /\ proc_list \in Seq(Pid) /\ Len(proc_list) \in Nat
      /\ last_pid \in Pid /\ last_pid \notin Listed
  BY DEF Add, IInv, pidvars, TypeOK, ReturnsFirstFree, IsFirstFree
<1>2. /\ proc_list' \in Seq(Pid) /\ Len(proc_list') = Len(proc_list) + 1 /\ proc_list'[1] = last_pid
      /\ \A j \in 2 .. Len(proc_list') : proc_list'[j] = proc_list[j - 1] /\ j - 1 \in 1 .. Len(proc_list)
  BY <1>1, Pushed
<1>3. PidsUnique'
  <2>1. SUFFICES ASSUME NEW i \in 1 .. Len(proc_list'), NEW j \in 1 .. Len(proc_list'), i < j
                 PROVE  proc_list'[i] # proc_list'[j]
    BY <1>1, <1>2 DEF PidsUnique
  <2>2. j \in 2 .. Len(proc_list') /\ proc_list'[j] = proc_list[j - 1]
    BY <1>1, <1>2, <2>1
  <2>3. CASE i = 1
    BY <1>1, <1>2, <2>2, <2>3, InListed
  <2>4. CASE i # 1
    <3>1. i \in 2 .. Len(proc_list') /\ proc_list'[i] = proc_list[i - 1] /\ i - 1 # j - 1
      BY <1>1, <1>2, <2>1, <2>4
    <3> QED
      BY <1>2, <2>2, <3>1 DEF IInv, PidsUnique
  <2> QED
    BY <2>3, <2>4
<1>4. \A q \in Listed' : q = last_pid \/ q \in Listed
  <2>1. SUFFICES ASSUME NEW i \in 1 .. Len(proc_list') PROVE proc_list'[i] = last_pid \/ proc_list'[i] \in Listed
    BY DEF Listed
  <2>2. CASE i = 1
    BY <1>2, <2>2
  <2>3. CASE i # 1
    <3>1. i \in 2 .. Len(proc_list')
      BY <1>1, <1>2, <2>3
    <3> QED
      BY <1>2, <3>1, InListed
  <2> QED
    BY <2>2, <2>3
<1>5. WindowFree'
  BY <1>1, <1>4, GetPidAssumption DEF IInv, WindowFree, Pid
<1>6. TypeOK'
  BY <1>1, <1>2 DEF TypeOK
<1> QED
  BY <1>1, <1>3, <1>5, <1>6 DEF IInv, WalkKnows, ReturnsFirstFree

LEMMA ReapInv ==
    ASSUME IInv, NEW i \in 1 .. Len(proc_list), Reap(i)
    PROVE  IInv'
<1>1. /\ pc = "idle" /\ pc' = "idle" /\ UNCHANGED <<last_pid, next_safe, le, start>>
      /\ proc_list' = SubSeq(proc_list, 1, i - 1) \o SubSeq(proc_list, i + 1, Len(proc_list))
      /\ TypeOK /\ proc_list \in Seq(Pid) /\ Len(proc_list) \in Nat /\ i \in Nat
  BY DEF Reap, IInv, pidvars, TypeOK
<1>2. /\ proc_list' \in Seq(Pid) /\ Len(proc_list') = Len(proc_list) - 1
      /\ \A j \in 1 .. Len(proc_list') : proc_list'[j] = IF j < i THEN proc_list[j] ELSE proc_list[j + 1]
  BY <1>1, TakenOut
<1> DEFINE at(j) == IF j < i THEN j ELSE j + 1
<1>3. \A j \in 1 .. Len(proc_list') : at(j) \in 1 .. Len(proc_list) /\ proc_list'[j] = proc_list[at(j)]
  <2> TAKE j \in 1 .. Len(proc_list')
  <2>0. Len(proc_list') = Len(proc_list) - 1 /\ Len(proc_list) \in Nat
    BY <1>1, <1>2
  <2>1. at(j) \in 1 .. Len(proc_list)
    BY <2>0
  <2>2. CASE j < i
    BY <1>2, <2>1, <2>2
  <2>3. CASE ~ (j < i)
    BY <1>2, <2>1, <2>3
  <2> QED
    BY <2>2, <2>3
<1>4. \A j, k \in 1 .. Len(proc_list') : j # k => at(j) # at(k)
  BY <1>1, <1>2
<1>5. PidsUnique'
  BY <1>3, <1>4 DEF IInv, PidsUnique
<1>6. Listed' \subseteq Listed
  BY <1>3 DEF Listed
<1>7. WindowFree'
  BY <1>1, <1>6 DEF IInv, WindowFree
<1>8. TypeOK'
  BY <1>1, <1>2 DEF TypeOK
<1> QED
  BY <1>1, <1>5, <1>7, <1>8 DEF IInv, WalkKnows, ReturnsFirstFree

LEMMA NextInv == IInv /\ [Next]_vars => IInv'
<1> SUFFICES ASSUME IInv, [Next]_vars PROVE IInv'
  OBVIOUS
<1>1. CASE UNCHANGED vars
  BY <1>1 DEF vars, IInv, TypeOK, PidsUnique, WindowFree, WalkKnows, ReturnsFirstFree, Listed
<1> QED
  BY <1>1, CallInv, ScanTakenInv, ScanOtherInv, ScanEndInv, AddInv, ReapInv DEF Next, Scan

\* What the loop knows at its end makes the window exact.
LEMMA EndOfWalk == IInv => WindowMaximal
<1> SUFFICES ASSUME IInv, pc = "scan", le > Len(proc_list)
             PROVE  IsNextTaken(next_safe, last_pid, Listed)
  BY DEF WindowMaximal
<1>1. /\ last_pid \in Pid /\ last_pid < next_safe /\ next_safe \in Listed \union {MAX_PID}
      /\ le \in 1 .. Len(proc_list) + 1 /\ Len(proc_list) \in Nat
      /\ \A i \in 1 .. le - 1 : proc_list[i] < last_pid \/ next_safe <= proc_list[i]
  BY DEF IInv, WalkKnows, TypeOK
<1>2. \A q \in Listed : q < last_pid \/ next_safe <= q
  BY <1>1, InListed
<1>3. Listed \subseteq Pid
  BY DEF Listed, IInv, TypeOK
<1> QED
  BY <1>1, <1>2, <1>3, GetPidAssumption DEF IsNextTaken, Pid

LEMMA Invariance == Spec => []IInv
BY InitInv, NextInv, PTL DEF Spec

\* For all bounds, and whatever processes come and go, no two processes on the list
\* have the same pid ("alloc a unique pid for process", proc.c:127).
THEOREM PidsAreUnique == Spec => []PidsUnique
<1>1. IInv => PidsUnique
  BY DEF IInv
<1> QED
  BY Invariance, <1>1, PTL

\* get_pid returns the first free pid at or after the one it tries first, round the
\* end of the range.
THEOREM FirstFreeReturned == Spec => []ReturnsFirstFree
<1>1. IInv => ReturnsFirstFree
  BY DEF IInv
<1> QED
  BY Invariance, <1>1, PTL

\* The window between get_pid's two statics is free when the next call relies on it,
\* however many processes came and went, every pid its loop skips is taken, and a whole
\* walk makes the window as large as it can be.
THEOREM StaticsMeanAWindow == Spec => []LoopInv
<1>1. IInv => LoopInv
  BY EndOfWalk DEF IInv, LoopInv
<1> QED
  BY Invariance, <1>1, PTL

==============================================================================
