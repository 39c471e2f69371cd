--------------------------- MODULE PageTableProofs ----------------------------
(***************************************************************************)
(* Proofs about PageTable, for every number of pages, size of a table, set *)
(* of addresses and set of permissions.                                    *)
(***************************************************************************)
EXTENDS PageTableCheck, FiniteSetTheorems, SequenceTheorems, TLAPS

Adr == Index \X Index \X Index

\* p is a table of level 1 or 0, on the way to some address.
IsTable(p) ==
    \E a \in Adr : \/ Valid(Pdep1(a)) /\ p = Pdep1(a).page
                   \/ HasPte(a) /\ p = Pdep0(a).page

\* No table is referred to twice, so that a store to one entry changes what lies below
\* that entry only; and there is nothing in the tables but what a call put there.
Tree ==
    /\ \A a, b \in Adr :
          /\ Valid(Pdep1(a)) /\ Valid(Pdep1(b)) /\ Pdep1(a).page = Pdep1(b).page => a[1] = b[1]
          /\ HasPte(a) /\ HasPte(b) /\ Pdep0(a).page = Pdep0(b).page => a[1] = b[1] /\ a[2] = b[2]
          /\ Valid(Pdep1(a)) /\ HasPte(b) => Pdep1(a).page # Pdep0(b).page
    /\ \A a \in Adr : Valid(get_page(a)) => a \in LA

\* Nobody but get_pte refers to a table.
TablesKept ==
    \A p \in Page : IsTable(p) => ref[p] = 1 /\ p \notin free \union held \union Mapped

\* page_insert has counted a mapping that is not there yet; page_remove_pte has given up
\* the reference of one that is still there.
Pending(p) ==
    IF p = page /\ (\/ op \in {"remove", "clear", "invalidate"}
                    \/ op = "set" /\ ~ Valid(get_page(la)))
    THEN 1 ELSE 0
Dropped(p) == IF op = "clear" /\ p = get_page(la).page THEN 1 ELSE 0

Counts ==
    \A p \in Page :
        ~ IsTable(p) => ref[p] + Dropped(p) = Cardinality(Mappings(p)) + Pending(p)

\* A page is free, held, or referred to.
Owned ==
    /\ \A p \in free : ref[p] = 0 /\ p \notin held
    /\ \A p \in held : p \notin Mapped
    /\ \A p \in Page : p \in free \union held \/ ref[p] > 0

\* Where the call stands, and what it knows there.
CallPosition ==
    /\ op = "idle" => page = NULL
    /\ op # "idle" => la \in LA
    /\ op = "pdep0" => Valid(Pdep1(la))
    /\ op \in {"found", "remove", "clear", "invalidate", "set", "flush", "done"} => HasPte(la)
    /\ op \in {"remove", "clear"} => Valid(get_page(la)) /\ get_page(la).page # page
    /\ op = "invalidate" => ~ Valid(get_page(la))
    /\ op = "set" /\ Valid(get_page(la)) => get_page(la).page = page
    /\ op \in {"flush", "done"} => get_page(la) = Pte(page, perm)
    /\ op \in {"pdep1", "pdep0", "found", "set", "flush", "done"} => page # NULL
    /\ page # NULL => page \in Page \ free /\ ~ IsTable(page) /\ perm \in Perm

\* What the TLB holds is in the tables, except for the address of the call between its
\* store to the pte and its flush.
TlbKnows ==
    \A a \in LA :
        Valid(tlb[a]) => \/ tlb[a] = get_page(a)
                         \/ a = la /\ op = "invalidate"
                         \/ a = la /\ op = "flush" /\ tlb[a].page = page

\* What holds between calls, and in one of page_insert or page_remove.
IInv == TypeOK /\ Tree /\ TablesKept /\ Counts /\ Owned /\ CallPosition /\ TlbKnows

\* The pages that the end of a test has freed, though the root leads to them.
GivenBack ==
    IF op \in {"free_pd0", "free_pd1", "clear_pd1"} THEN {page} \union FreedTables ELSE {}

\* What holds in the meantime: every other page is where it was, and the tables to be
\* freed are the only ones under boot_pgdir[0], with the page to be freed below them.
FreeingTables ==
    /\ \A p \in Page : IsTable(p) => p \notin held \union Mapped
    /\ \A p \in Page : IsTable(p) /\ p \notin GivenBack => ref[p] = 1 /\ p \notin free
FreeingCounts ==
    \A p \in Page : ~ IsTable(p) /\ p \notin GivenBack => ref[p] = Cardinality(Mappings(p))
FreeingPosition ==
    /\ op # "flush_tlb" => CanFreeTables(page)
    /\ op = "free_p" => page # NULL
    /\ \A p \in Page : p \in GivenBack => p \in free
FreeingTlb ==
    \A a \in LA :
        Valid(tlb[a]) => \/ tlb[a] = get_page(a)
                         \/ a[1] = 0 /\ op = "flush_tlb" /\ tlb[a].page = page

FreeingInv ==
    /\ op \in Freeing /\ TypeOK /\ Tree /\ Owned
    /\ FreeingTables /\ FreeingCounts /\ FreeingPosition /\ FreeingTlb

\* The inductive invariant.
Inv == IF op \in Freeing THEN FreeingInv ELSE IInv

-----------------------------------------------------------------------------
(* Entries, addresses and walks *)

LEMMA EntryFacts ==
    /\ NULL \in Entry /\ ~ Valid(NULL)
    /\ \A e \in Entry :
         Valid(e) => /\ e.page \in Page /\ e.perm \in Perm \union {Table}
                     /\ e = Pte(e.page, e.perm)
    /\ \A p \in Page, x \in Perm \union {Table} :
         Pte(p, x) \in Entry /\ Valid(Pte(p, x)) /\ Pte(p, x).page = p /\ Pte(p, x).perm = x
BY PageTableAssumption DEF Entry, Valid, Pte

LEMMA AddressFacts ==
    /\ LA \subseteq Adr
    /\ \A a \in Adr : a[1] \in Index /\ a[2] \in Index /\ a[3] \in Index
    /\ \A a, b \in Adr : a[1] = b[1] /\ a[2] = b[2] /\ a[3] = b[3] => a = b
    /\ \A i, j, k \in Index :
         /\ <<i, j, k>> \in Adr /\ <<i, j, k>>[1] = i
         /\ <<i, j, k>>[2] = j /\ <<i, j, k>>[3] = k
BY PageTableAssumption DEF Adr

\* A walk of the tables meets entries, and pages below the valid ones.
LEMMA WalkTypes ==
    ASSUME TypeOK, NEW a \in Adr
    PROVE  /\ Pdep1(a) \in Entry /\ Pdep0(a) \in Entry /\ get_page(a) \in Entry
           /\ Valid(Pdep1(a)) => Pdep1(a).page \in Page
           /\ HasPte(a) => Valid(Pdep1(a)) /\ Pdep0(a).page \in Page /\ PteOf(a) \in Entry
           /\ Valid(get_page(a)) => HasPte(a) /\ get_page(a).page \in Page
           /\ HasPte(a) => get_page(a) = PteOf(a)
<1>1. mem \in [Page \union {Root} -> [Index -> Entry]] /\ a[1] \in Index /\ a[2] \in Index /\ a[3] \in Index
  BY AddressFacts DEF TypeOK
<1>2. Pdep1(a) \in Entry /\ (Valid(Pdep1(a)) => Pdep1(a).page \in Page)
  BY <1>1, EntryFacts DEF Pdep1
<1>3. Pdep0(a) \in Entry /\ (HasPte(a) => Valid(Pdep1(a)) /\ Pdep0(a).page \in Page)
  BY <1>1, <1>2, EntryFacts DEF Pdep0, HasPte
<1>4. HasPte(a) => PteOf(a) \in Entry
  BY <1>1, <1>3 DEF PteOf
<1>5. get_page(a) \in Entry /\ (Valid(get_page(a)) => HasPte(a) /\ get_page(a).page \in Page)
  BY <1>3, <1>4, EntryFacts DEF get_page
<1> QED
  BY <1>2, <1>3, <1>4, <1>5 DEF get_page

\* A store to the pte of the call changes its translation, and nothing else.
LEMMA SetPteEffect ==
    ASSUME TypeOK, Tree, la \in LA, HasPte(la), NEW e \in Entry, SetPte(e)
    PROVE  /\ mem' \in [Page \union {Root} -> [Index -> Entry]]
           /\ \A a \in Adr : Pdep1(a)' = Pdep1(a) /\ Pdep0(a)' = Pdep0(a)
           /\ \A a \in Adr : get_page(a)' = IF a = la THEN e ELSE get_page(a)
<1> DEFINE t == Pdep0(la).page
<1>1. /\ mem \in [Page \union {Root} -> [Index -> Entry]] /\ la \in Adr /\ t \in Page /\ t # Root
      /\ la[1] \in Index /\ la[2] \in Index /\ la[3] \in Index
      /\ mem' = [mem EXCEPT ![t][la[3]] = e]
  BY AddressFacts, WalkTypes, PageTableAssumption DEF SetPte, TypeOK
<1>2. mem' \in [Page \union {Root} -> [Index -> Entry]]
  BY <1>1
<1> HIDE DEF t
<1>3. ASSUME NEW a \in Adr PROVE Pdep1(a)' = Pdep1(a) /\ Pdep0(a)' = Pdep0(a)
  <2>1. a[1] \in Index /\ a[2] \in Index
    BY AddressFacts
  <2>2. mem'[Root] = mem[Root]
    BY <1>1
  <2>3. Pdep1(a)' = Pdep1(a)
    BY <2>2 DEF Pdep1
  <2>4. CASE Valid(Pdep1(a))
    <3>1. Pdep1(a).page # t /\ Pdep1(a).page \in Page
      BY <1>1, <2>4, WalkTypes DEF Tree, t
    <3>2. mem'[Pdep1(a).page] = mem[Pdep1(a).page]
      BY <1>1, <3>1
    <3> QED
      BY <2>3, <2>4, <3>2 DEF Pdep0
  <2>5. CASE ~ Valid(Pdep1(a))
    BY <2>3, <2>5 DEF Pdep0
  <2> QED
    BY <2>3, <2>4, <2>5
<1>4. ASSUME NEW a \in Adr PROVE get_page(a)' = IF a = la THEN e ELSE get_page(a)
  <2>1. a[1] \in Index /\ a[2] \in Index /\ a[3] \in Index
    BY AddressFacts
  <2>2. CASE ~ HasPte(a)
    <3>1. a # la
      BY <2>2
    <3> QED
      BY <1>3, <2>2, <3>1 DEF get_page, HasPte
  <2>3. CASE HasPte(a)
    <3>1. get_page(a) = mem[Pdep0(a).page][a[3]] /\ get_page(a)' = mem'[Pdep0(a).page][a[3]]
      BY <1>3, <2>3 DEF get_page, HasPte, PteOf
    <3>2. Pdep0(a).page \in Page
      BY <2>3, WalkTypes
    <3>3. CASE a = la
      BY <1>1, <3>1, <3>2, <3>3 DEF t
    <3>4. CASE a # la
      <4>1. ~ (Pdep0(a).page = t /\ a[3] = la[3])
        <5>1. Pdep0(a).page = t => a[1] = la[1] /\ a[2] = la[2]
          BY <1>1, <2>3 DEF Tree, t
        <5> QED
          BY <1>1, <3>4, <5>1, AddressFacts
      <4>2. mem'[Pdep0(a).page][a[3]] = mem[Pdep0(a).page][a[3]]
        BY <1>1, <2>1, <3>2, <4>1
      <4> QED
        BY <3>1, <3>4, <4>2
    <3> QED
      BY <3>3, <3>4
  <2> QED
    BY <2>2, <2>3
<1> QED
  BY <1>2, <1>3, <1>4

\* The tables on the way to an address.
LEMMA TablesOf ==
    ASSUME NEW a \in Adr
    PROVE  /\ Valid(Pdep1(a)) => IsTable(Pdep1(a).page)
           /\ HasPte(a) => IsTable(Pdep0(a).page)
BY DEF IsTable

\* What is written into a page that is no table changes no translation.
LEMMA DataEffect ==
    ASSUME TypeOK, NEW q \in Page, ~ IsTable(q), NEW d \in [Index -> Entry],
           mem' = [mem EXCEPT ![q] = d]
    PROVE  /\ mem' \in [Page \union {Root} -> [Index -> Entry]]
           /\ \A a \in Adr : Pdep1(a)' = Pdep1(a) /\ Pdep0(a)' = Pdep0(a) /\ get_page(a)' = get_page(a)
<1>1. mem \in [Page \union {Root} -> [Index -> Entry]] /\ q # Root
  BY PageTableAssumption DEF TypeOK
<1>2. \A p \in Page \union {Root} : p # q => mem'[p] = mem[p]
  BY <1>1
<1>3. ASSUME NEW a \in Adr
      PROVE  Pdep1(a)' = Pdep1(a) /\ Pdep0(a)' = Pdep0(a) /\ get_page(a)' = get_page(a)
  <2>1. Pdep1(a)' = Pdep1(a)
    BY <1>1, <1>2 DEF Pdep1
  <2>2. Valid(Pdep1(a)) => mem'[Pdep1(a).page] = mem[Pdep1(a).page]
    BY <1>2, TablesOf, WalkTypes
  <2>3. Pdep0(a)' = Pdep0(a)
    BY <2>1, <2>2 DEF Pdep0
  <2>4. HasPte(a) => mem'[Pdep0(a).page] = mem[Pdep0(a).page]
    BY <1>2, TablesOf, WalkTypes
  <2>5. get_page(a)' = get_page(a)
    BY <2>3, <2>4 DEF get_page, HasPte, PteOf
  <2> QED
    BY <2>1, <2>3, <2>5
<1>4. mem' \in [Page \union {Root} -> [Index -> Entry]]
  BY <1>1
<1> QED
  BY <1>3, <1>4

\* get_pte puts a cleared level-1 table in.
LEMMA Level1Effect ==
    ASSUME TypeOK, la \in LA, NEW q \in Page, ~ IsTable(q), ~ Valid(Pdep1(la)),
           mem' = [mem EXCEPT ![q] = Zero, ![Root][la[1]] = Pte(q, Table)]
    PROVE  /\ mem' \in [Page \union {Root} -> [Index -> Entry]]
           /\ \A a \in Adr :
                /\ Pdep1(a)' = IF a[1] = la[1] THEN Pte(q, Table) ELSE Pdep1(a)
                /\ Pdep0(a)' = IF a[1] = la[1] THEN NULL ELSE Pdep0(a)
                /\ get_page(a)' = get_page(a)
<1>1. /\ mem \in [Page \union {Root} -> [Index -> Entry]] /\ q # Root /\ la \in Adr /\ la[1] \in Index
      /\ Zero \in [Index -> Entry] /\ Pte(q, Table) \in Entry
  BY AddressFacts, EntryFacts, PageTableAssumption DEF TypeOK, Zero
<1>2. /\ \A p \in Page : p # q => mem'[p] = mem[p]
      /\ mem'[q] = Zero
      /\ mem'[Root] = [mem[Root] EXCEPT ![la[1]] = Pte(q, Table)]
      /\ mem' \in [Page \union {Root} -> [Index -> Entry]]
  BY <1>1, PageTableAssumption
<1>3. ASSUME NEW a \in Adr
      PROVE  /\ Pdep1(a)' = IF a[1] = la[1] THEN Pte(q, Table) ELSE Pdep1(a)
             /\ Pdep0(a)' = IF a[1] = la[1] THEN NULL ELSE Pdep0(a)
             /\ get_page(a)' = get_page(a)
  <2>1. Pdep1(a)' = IF a[1] = la[1] THEN Pte(q, Table) ELSE Pdep1(a)
    BY <1>1, <1>2, AddressFacts DEF Pdep1
  <2>2. CASE a[1] = la[1]
    <3>1. ~ Valid(Pdep1(a)) /\ Valid(Pte(q, Table)) /\ Pte(q, Table).page = q
      BY <2>2, EntryFacts DEF Pdep1
    <3>2. Pdep0(a)' = Zero[a[2]]
      BY <1>2, <2>1, <2>2, <3>1 DEF Pdep0
    <3>3. Pdep0(a)' = NULL /\ Pdep0(a) = NULL
      BY <3>1, <3>2, AddressFacts DEF Zero, Pdep0
    <3> QED
      BY <2>1, <2>2, <3>3 DEF get_page, HasPte, Valid
  <2>3. CASE a[1] # la[1]
    <3>1. Valid(Pdep1(a)) => mem'[Pdep1(a).page] = mem[Pdep1(a).page]
      BY <1>2, TablesOf, WalkTypes
    <3>2. Pdep0(a)' = Pdep0(a)
      BY <2>1, <2>3, <3>1 DEF Pdep0
    <3>3. HasPte(a) => mem'[Pdep0(a).page] = mem[Pdep0(a).page]
      BY <1>2, TablesOf, WalkTypes
    <3>4. get_page(a)' = get_page(a)
      BY <3>2, <3>3 DEF get_page, HasPte, PteOf
    <3> QED
      BY <2>1, <2>3, <3>2, <3>4
  <2> QED
    BY <2>2, <2>3
<1> QED
  BY <1>2, <1>3

\* The same for a level-0 table.
LEMMA Level0Effect ==
    ASSUME TypeOK, Tree, la \in LA, NEW q \in Page, ~ IsTable(q), Valid(Pdep1(la)),
           ~ Valid(Pdep0(la)),
           mem' = [mem EXCEPT ![q] = Zero, ![Pdep1(la).page][la[2]] = Pte(q, Table)]
    PROVE  /\ mem' \in [Page \union {Root} -> [Index -> Entry]]
           /\ \A a \in Adr :
                /\ Pdep1(a)' = Pdep1(a)
                /\ Pdep0(a)' = IF a[1] = la[1] /\ a[2] = la[2] THEN Pte(q, Table) ELSE Pdep0(a)
                /\ get_page(a)' = get_page(a)
<1> DEFINE t == Pdep1(la).page
<1>1. /\ mem \in [Page \union {Root} -> [Index -> Entry]] /\ q # Root /\ la \in Adr /\ la[2] \in Index
      /\ t \in Page /\ t # Root /\ t # q
      /\ Zero \in [Index -> Entry] /\ Pte(q, Table) \in Entry
  BY AddressFacts, EntryFacts, PageTableAssumption, WalkTypes, TablesOf DEF TypeOK, Zero
<1>2. mem' = [mem EXCEPT ![q] = Zero, ![t][la[2]] = Pte(q, Table)]
  OBVIOUS
<1> HIDE DEF t
<1>3. /\ \A p \in Page \union {Root} : p # q /\ p # t => mem'[p] = mem[p]
      /\ mem'[q] = Zero
      /\ mem'[t] = [mem[t] EXCEPT ![la[2]] = Pte(q, Table)]
      /\ mem' \in [Page \union {Root} -> [Index -> Entry]]
  <2> DEFINE m == [mem EXCEPT ![q] = Zero]
  <2>1. /\ m \in [Page \union {Root} -> [Index -> Entry]] /\ m[q] = Zero
        /\ \A p \in Page \union {Root} : p # q => m[p] = mem[p]
    BY <1>1
  <2> DEFINE d == [mem[t] EXCEPT ![la[2]] = Pte(q, Table)]
  <2>2. mem' = [m EXCEPT ![t] = d]
    BY <1>1, <1>2
  <2>3. d \in [Index -> Entry]
    BY <1>1
  <2> HIDE DEF m, d
  <2>4. /\ \A p \in Page \union {Root} : p # q /\ p # t => mem'[p] = mem[p]
        /\ mem'[q] = Zero /\ mem'[t] = d
    BY <1>1, <2>1, <2>2
  <2>5. mem' \in [Page \union {Root} -> [Index -> Entry]]
    BY <1>1, <2>1, <2>2, <2>3
  <2> QED
    BY <2>4, <2>5 DEF d
<1>4. ASSUME NEW a \in Adr
      PROVE  /\ Pdep1(a)' = Pdep1(a)
             /\ Pdep0(a)' = IF a[1] = la[1] /\ a[2] = la[2] THEN Pte(q, Table) ELSE Pdep0(a)
             /\ get_page(a)' = get_page(a)
  <2>1. Pdep1(a)' = Pdep1(a)
    BY <1>1, <1>3 DEF Pdep1
  <2>2. Pdep0(a)' = IF a[1] = la[1] /\ a[2] = la[2] THEN Pte(q, Table) ELSE Pdep0(a)
    <3>1. CASE ~ Valid(Pdep1(a))
      <4>1. a[1] # la[1]
        BY <3>1 DEF Pdep1
      <4> QED
        BY <2>1, <3>1, <4>1 DEF Pdep0
    <3>2. CASE Valid(Pdep1(a)) /\ a[1] # la[1]
      <4>1. Pdep1(a).page # t /\ Pdep1(a).page # q /\ Pdep1(a).page \in Page
        BY <1>1, <3>2, TablesOf, WalkTypes DEF Tree, t
      <4> QED
        BY <1>3, <2>1, <3>2, <4>1 DEF Pdep0
    <3>3. CASE Valid(Pdep1(a)) /\ a[1] = la[1]
      <4>1. Pdep1(a).page = t
        BY <3>3 DEF Pdep1, t
      <4>2. Pdep0(a)' = mem'[t][a[2]] /\ Pdep0(a) = mem[t][a[2]]
        BY <2>1, <3>3, <4>1 DEF Pdep0
      <4>3. mem[t] \in [Index -> Entry] /\ a[2] \in Index
        BY <1>1, AddressFacts
      <4> QED
        BY <1>1, <1>3, <3>3, <4>2, <4>3
    <3> QED
      BY <3>1, <3>2, <3>3
  <2>3. get_page(a)' = get_page(a)
    <3>1. CASE a[1] = la[1] /\ a[2] = la[2]
      <4>0. Pdep0(a) = Pdep0(la)
        BY <3>1 DEF Pdep0, Pdep1
      <4>1. Pdep0(a)' = Pte(q, Table) /\ HasPte(a)' /\ ~ HasPte(a) /\ Pte(q, Table).page = q
        BY <2>2, <3>1, <4>0, EntryFacts DEF HasPte
      <4>2. get_page(a)' = Zero[a[3]]
        BY <1>3, <4>1 DEF get_page, PteOf
      <4> QED
        BY <4>1, <4>2, AddressFacts DEF get_page, Zero
    <3>2. CASE ~ (a[1] = la[1] /\ a[2] = la[2])
      <4>1. Pdep0(a)' = Pdep0(a)
        BY <2>2, <3>2
      <4>2. HasPte(a) => Pdep0(a).page # t /\ Pdep0(a).page # q /\ Pdep0(a).page \in Page
        BY <1>1, TablesOf, WalkTypes DEF Tree, t
      <4> QED
        BY <1>3, <4>1, <4>2 DEF get_page, HasPte, PteOf
    <3> QED
      BY <3>1, <3>2
  <2> QED
    BY <2>1, <2>2, <2>3
<1> QED
  BY <1>3, <1>4

\* boot_pgdir[0] = 0.
LEMMA FreeTablesEffect ==
    ASSUME TypeOK, mem' = [mem EXCEPT ![Root][0] = NULL]
    PROVE  /\ mem' \in [Page \union {Root} -> [Index -> Entry]]
           /\ \A a \in Adr :
                /\ Pdep1(a)' = IF a[1] = 0 THEN NULL ELSE Pdep1(a)
                /\ Pdep0(a)' = IF a[1] = 0 THEN NULL ELSE Pdep0(a)
                /\ get_page(a)' = IF a[1] = 0 THEN NULL ELSE get_page(a)
<1>1. /\ mem \in [Page \union {Root} -> [Index -> Entry]] /\ NULL \in Entry
  BY EntryFacts DEF TypeOK
<1>2. /\ \A p \in Page : mem'[p] = mem[p]
      /\ mem'[Root] = [mem[Root] EXCEPT ![0] = NULL]
      /\ mem' \in [Page \union {Root} -> [Index -> Entry]]
  BY <1>1, PageTableAssumption
<1>3. ASSUME NEW a \in Adr
      PROVE  /\ Pdep1(a)' = IF a[1] = 0 THEN NULL ELSE Pdep1(a)
             /\ Pdep0(a)' = IF a[1] = 0 THEN NULL ELSE Pdep0(a)
             /\ get_page(a)' = IF a[1] = 0 THEN NULL ELSE get_page(a)
  <2>1. Pdep1(a)' = IF a[1] = 0 THEN NULL ELSE Pdep1(a)
    BY <1>1, <1>2, AddressFacts DEF Pdep1
  <2>2. Pdep0(a)' = IF a[1] = 0 THEN NULL ELSE Pdep0(a)
    BY <1>2, <2>1, WalkTypes DEF Pdep0, Valid
  <2>3. get_page(a)' = IF a[1] = 0 THEN NULL ELSE get_page(a)
    BY <1>2, <2>2, WalkTypes DEF get_page, HasPte, PteOf, Valid
  <2> QED
    BY <2>1, <2>2, <2>3
<1> QED
  BY <1>2, <1>3

-----------------------------------------------------------------------------
(* Mappings *)

LEMMA MappingFacts ==
    ASSUME NEW p \in Page
    PROVE  /\ IsFiniteSet(Mappings(p)) /\ Cardinality(Mappings(p)) \in Nat
           /\ Cardinality(LA) \in Nat /\ Cardinality(Mappings(p)) <= Cardinality(LA)
           /\ p \in Mapped <=> Cardinality(Mappings(p)) >= 1
           /\ \A a \in LA : a \in Mappings(p) <=> Valid(get_page(a)) /\ get_page(a).page = p
           /\ \A a, b \in Mappings(p) : Cardinality(Mappings(p)) = 1 => a = b
<1>1. /\ IsFiniteSet(Mappings(p)) /\ Cardinality(Mappings(p)) \in Nat
      /\ Cardinality(LA) \in Nat /\ Cardinality(Mappings(p)) <= Cardinality(LA)
  <2>1. Mappings(p) \subseteq LA /\ IsFiniteSet(LA)
    BY PageTableAssumption DEF Mappings
  <2> QED
    BY <2>1, FS_Subset, FS_CardinalityType
<1>2. \A a \in LA : a \in Mappings(p) <=> Valid(get_page(a)) /\ get_page(a).page = p
  BY DEF Mappings
<1>3. p \in Mapped <=> Mappings(p) # {}
  BY DEF Mapped, Mappings
<1>4. Mappings(p) # {} <=> Cardinality(Mappings(p)) >= 1
  BY <1>1, FS_EmptySet
<1>5. \A a, b \in Mappings(p) : Cardinality(Mappings(p)) = 1 => a = b
  BY <1>1, FS_Singleton
<1> QED
  BY <1>1, <1>2, <1>3, <1>4, <1>5

\* One more address, or one less.
LEMMA MappingsChange ==
    ASSUME NEW S, IsFiniteSet(S), NEW a
    PROVE  /\ a \notin S => Cardinality(S \union {a}) = Cardinality(S) + 1
           /\ a \in S => Cardinality(S \ {a}) = Cardinality(S) - 1
BY FS_AddElement, FS_RemoveElement

\* A page that is mapped is not free, but for the one that page_remove_pte is about to
\* unmap at its last address.
LEMMA MappedNotFree ==
    ASSUME TypeOK, TablesKept, Counts, Owned, CallPosition,
           NEW a \in LA, Valid(get_page(a)), get_page(a).page \in Page
    PROVE  LET p == get_page(a).page IN
           /\ ~ IsTable(p) /\ p \notin held /\ Cardinality(Mappings(p)) >= 1
           /\ p \in free => op = "clear" /\ a = la
<1> DEFINE p == get_page(a).page
<1>1. p \in Mapped /\ a \in Mappings(p) /\ Cardinality(Mappings(p)) \in Nat /\ Cardinality(Mappings(p)) >= 1
  BY MappingFacts DEF Mapped
<1>2. ~ IsTable(p) /\ p \notin held
  BY <1>1 DEF TablesKept, Owned
<1>3. ASSUME p \in free PROVE op = "clear" /\ a = la
  <2>1. ref[p] = 0 /\ ref[p] + Dropped(p) = Cardinality(Mappings(p)) + Pending(p)
    BY <1>2, <1>3 DEF Owned, Counts
  <2>2. Dropped(p) \in {0, 1} /\ Pending(p) \in {0, 1}
    BY DEF Dropped, Pending
  <2>3. Dropped(p) = 1 /\ Cardinality(Mappings(p)) = 1
    BY <1>1, <2>1, <2>2
  <2>4. op = "clear" /\ p = get_page(la).page
    BY <2>3 DEF Dropped
  <2>5. la \in Mappings(p)
    BY <2>4, MappingFacts DEF CallPosition
  <2> QED
    BY <1>1, <2>3, <2>4, <2>5, MappingFacts
<1> QED
  BY <1>1, <1>2, <1>3

-----------------------------------------------------------------------------
(* Steps of a call *)

\* If every walk ends where it did, the tables and the mappings are the same.
LEMMA SameWalk ==
    ASSUME \A a \in Adr : Pdep1(a)' = Pdep1(a) /\ Pdep0(a)' = Pdep0(a) /\ get_page(a)' = get_page(a)
    PROVE  /\ Tree => Tree'
           /\ \A p : IsTable(p)' <=> IsTable(p)
           /\ \A a \in Adr : HasPte(a)' <=> HasPte(a)
           /\ Mapped' = Mapped /\ \A p : Mappings(p)' = Mappings(p)
<1>1. \A a \in Adr : HasPte(a)' <=> HasPte(a)
  BY DEF HasPte
<1>2. Tree => Tree'
  BY <1>1 DEF Tree
<1>3. \A p : IsTable(p)' <=> IsTable(p)
  BY <1>1 DEF IsTable
<1>4. Mapped' = Mapped /\ \A p : Mappings(p)' = Mappings(p)
  BY AddressFacts DEF Mapped, Mappings
<1> QED
  BY <1>1, <1>2, <1>3, <1>4

LEMMA SameMem ==
    ASSUME mem' = mem
    PROVE  \A a \in Adr : Pdep1(a)' = Pdep1(a) /\ Pdep0(a)' = Pdep0(a) /\ get_page(a)' = get_page(a)
BY DEF Pdep1, Pdep0, get_page, HasPte, PteOf

\* The reference counts stay within their type.
RefCounts == ref \in [Page -> Int]
LEMMA RefBounded ==
    RefCounts /\ TablesKept /\ Counts /\ CallPosition => ref \in [Page -> 0 .. Cardinality(LA) + 1]
<1> SUFFICES ASSUME RefCounts, TablesKept, Counts, CallPosition, NEW p \in Page
             PROVE  ref[p] \in 0 .. Cardinality(LA) + 1
  BY DEF RefCounts
<1>1. /\ Cardinality(LA) \in Nat /\ Cardinality(Mappings(p)) \in Nat /\ ref[p] \in Int
      /\ Cardinality(Mappings(p)) <= Cardinality(LA)
  BY MappingFacts DEF RefCounts
<1>2. CASE IsTable(p)
  BY <1>1, <1>2 DEF TablesKept
<1>3. CASE ~ IsTable(p)
  <2>1. ref[p] + Dropped(p) = Cardinality(Mappings(p)) + Pending(p)
    BY <1>3 DEF Counts
  <2>2. Pending(p) \in {0, 1} /\ Dropped(p) \in {0, 1}
    BY DEF Pending, Dropped
  <2>3. Dropped(p) = 1 => Cardinality(Mappings(p)) >= 1
    <3> SUFFICES ASSUME Dropped(p) = 1 PROVE la \in Mappings(p)
      BY MappingFacts DEF Mapped, Mappings
    <3> QED
      BY MappingFacts DEF Dropped, CallPosition
  <2> QED
    BY <1>1, <2>1, <2>2, <2>3
<1> QED
  BY <1>2, <1>3

LEMMA RefBoundedNext ==
    (RefCounts /\ TablesKept /\ Counts /\ CallPosition)' => (ref \in [Page -> 0 .. Cardinality(LA) + 1])'
BY RefBounded, PTL

\* The variables that hold no reference count.
OthersTyped ==
    /\ free \subseteq Page /\ held \subseteq Page
    /\ mem \in [Page \union {Root} -> [Index -> Entry]]
    /\ tlb \in [LA -> Entry]
    /\ op \in {"idle", "pdep1", "pdep0", "found", "remove", "clear", "invalidate", "set",
               "flush", "done"} \union Freeing
    /\ la \in LA \union {NULL} /\ page \in Page \union {NULL}
    /\ perm \in Perm \union {NULL} /\ ret \in {0, -E_NO_MEM}

LEMMA TypesSplit ==
    /\ TypeOK => OthersTyped /\ RefCounts
    /\ OthersTyped /\ RefCounts /\ TablesKept /\ Counts /\ CallPosition => TypeOK
<1>1. TypeOK => OthersTyped
  BY DEF TypeOK, OthersTyped
<1>2. TypeOK => RefCounts
  BY DEF TypeOK, RefCounts
<1>3. OthersTyped /\ RefCounts /\ TablesKept /\ Counts /\ CallPosition => TypeOK
  BY RefBounded DEF TypeOK, OthersTyped
<1> QED
  BY <1>1, <1>2, <1>3

LEMMA TypesNext ==
    (OthersTyped /\ RefCounts /\ TablesKept /\ Counts /\ CallPosition)' => TypeOK'
BY TypesSplit, PTL

\* A step that only moves the call on, its arguments and what it may assume included.
LEMMA CallMoves ==
    ASSUME IInv, UNCHANGED <<free, held, ref, mem>>,
           \A p \in Page : Pending(p)' = Pending(p) /\ Dropped(p)' = Dropped(p),
           CallPosition', TlbKnows', OthersTyped'
    PROVE  IInv'
<1>1. /\ \A p : IsTable(p)' <=> IsTable(p)
      /\ Mapped' = Mapped /\ \A p : Mappings(p)' = Mappings(p)
      /\ Tree'
  BY SameMem, SameWalk DEF IInv
<1>2. TablesKept' /\ Counts' /\ Owned'
  BY <1>1 DEF IInv, TablesKept, Counts, Owned
<1>3. RefCounts'
  BY TypesSplit DEF IInv, RefCounts
<1> QED
  BY <1>1, <1>2, <1>3, TypesNext DEF IInv

\* Between calls nothing is counted twice, and the TLB is up to date.
LEMMA IdleFacts ==
    ASSUME IInv, op \in {"idle", "pdep1", "pdep0", "found", "done", "flush"}
    PROVE  /\ \A p \in Page : Pending(p) = 0 /\ Dropped(p) = 0
           /\ op # "flush" => \A a \in LA : Valid(tlb[a]) => tlb[a] = get_page(a)
           /\ Mapped \intersect (free \union held) = {}
           /\ \A p \in Mapped : ~ IsTable(p)
<1>1. \A p \in Page : Pending(p) = 0 /\ Dropped(p) = 0
  BY DEF Pending, Dropped
<1>2. op # "flush" => \A a \in LA : Valid(tlb[a]) => tlb[a] = get_page(a)
  BY DEF IInv, TlbKnows
<1>3. ASSUME NEW p \in Mapped PROVE p \notin free \union held /\ ~ IsTable(p)
  <2>1. PICK a \in LA : Valid(get_page(a)) /\ get_page(a).page = p /\ p \in Page
    BY DEF Mapped
  <2> QED
    BY <2>1, MappedNotFree DEF IInv
<1> QED
  BY <1>1, <1>2, <1>3

LEMMA CallInv ==
    ASSUME IInv, NEW p \in Page, NEW a \in LA, NEW x \in Perm, page_insert(p, a, x)
    PROVE  IInv'
<1>1. /\ op = "idle" /\ op' = "pdep1" /\ la' = a /\ page' = p /\ perm' = x
      /\ UNCHANGED <<free, held, ref, mem, tlb, ret>> /\ p \in held \union Mapped
  BY DEF page_insert
<1>2. \A q \in Page : Pending(q)' = Pending(q) /\ Dropped(q)' = Dropped(q)
  BY <1>1 DEF Pending, Dropped
<1>3. OthersTyped'
  BY <1>1, TypesSplit DEF IInv, OthersTyped
<1>4. p \notin free /\ ~ IsTable(p) /\ p # NULL
  BY <1>1, IdleFacts, PageTableAssumption DEF IInv, Owned, TablesKept
<1>5. CallPosition'
  BY <1>1, <1>4, SameMem, SameWalk DEF CallPosition
<1>6. TlbKnows'
  <2>1. \A b \in LA : Valid(tlb[b]) => tlb[b] = get_page(b)
    BY <1>1, IdleFacts
  <2> QED
    BY <1>1, <2>1, SameMem, AddressFacts DEF TlbKnows
<1> QED
  BY <1>1, <1>2, <1>3, <1>5, <1>6, CallMoves

LEMMA page_removeInv ==
    ASSUME IInv, NEW a \in LA, page_remove(a)
    PROVE  IInv'
<1>1. /\ op = "idle" /\ op' = "remove" /\ la' = a /\ page = NULL
      /\ UNCHANGED <<free, held, ref, mem, tlb, page, perm, ret>> /\ Valid(get_page(a))
  BY DEF page_remove, IInv, CallPosition
<1>2. \A q \in Page : Pending(q)' = Pending(q) /\ Dropped(q)' = Dropped(q)
  BY <1>1, PageTableAssumption DEF Pending, Dropped
<1>3. OthersTyped'
  BY <1>1, TypesSplit DEF IInv, OthersTyped
<1>4. HasPte(a) /\ get_page(a).page # NULL
  BY <1>1, WalkTypes, AddressFacts, PageTableAssumption DEF IInv
<1>5. CallPosition'
  BY <1>1, <1>4, SameMem, SameWalk, AddressFacts DEF CallPosition
<1>6. TlbKnows'
  <2>1. \A b \in LA : Valid(tlb[b]) => tlb[b] = get_page(b)
    BY <1>1, IdleFacts
  <2> QED
    BY <1>1, <2>1, SameMem, AddressFacts DEF TlbKnows
<1> QED
  BY <1>1, <1>2, <1>3, <1>5, <1>6, CallMoves

\* A call that returns has no page and no position left.
LEMMA ReturnInv ==
    ASSUME IInv, NEW r \in {0, -E_NO_MEM}, Return(r), UNCHANGED <<free, held, ref, mem>>,
           op \in {"pdep1", "pdep0", "done", "invalidate"}, op = "invalidate" => page = NULL,
           \/ UNCHANGED tlb /\ op # "invalidate"
           \/ tlb' = [tlb EXCEPT ![la] = NULL]
    PROVE  IInv'
<1>1. /\ op' = "idle" /\ la' = NULL /\ page' = NULL /\ perm' = NULL /\ ret' = r
  BY DEF Return
<1>2. \A q \in Page : Pending(q)' = Pending(q) /\ Dropped(q)' = Dropped(q)
  BY <1>1, PageTableAssumption DEF Pending, Dropped
<1>3. tlb \in [LA -> Entry] /\ la \in LA /\ tlb' \in [LA -> Entry]
  BY EntryFacts DEF IInv, CallPosition, TypeOK
<1>4. OthersTyped'
  BY <1>1, <1>3, TypesSplit DEF IInv, OthersTyped
<1>5. CallPosition'
  BY <1>1 DEF CallPosition
<1>6. TlbKnows'
  <2>1. ASSUME NEW b \in LA, Valid(tlb'[b]) PROVE tlb'[b] = get_page(b)
    BY <1>3, <2>1, EntryFacts DEF IInv, TlbKnows
  <2> QED
    BY <1>1, <2>1, SameMem, AddressFacts DEF TlbKnows
<1> QED
  BY <1>1, <1>2, <1>4, <1>5, <1>6, CallMoves

\* What a walk finds at an entry is what get_pte_level reads.
LEMMA Levels ==
    /\ mem[Root][la[1]] = Pdep1(la)
    /\ Valid(Pdep1(la)) => mem[Pdep1(la).page][la[2]] = Pdep0(la)
BY DEF Pdep1, Pdep0

\* get_pte finds the table.
LEMMA TableFound ==
    ASSUME IInv, \/ op = "pdep1" /\ Valid(Pdep1(la)) /\ op' = "pdep0"
                 \/ op = "pdep0" /\ Valid(Pdep0(la)) /\ op' = "found",
           UNCHANGED <<free, ref, mem, args, ret, held, tlb>>
    PROVE  IInv'
<1>1. UNCHANGED <<la, page, perm>> /\ la \in LA /\ la \in Adr /\ op \in {"pdep1", "pdep0"}
  BY AddressFacts DEF args, IInv, CallPosition
<1>2. \A q \in Page : Pending(q)' = Pending(q) /\ Dropped(q)' = Dropped(q)
  BY <1>1 DEF Pending, Dropped
<1>3. OthersTyped'
  BY <1>1, TypesSplit DEF IInv, OthersTyped
<1>4. CallPosition'
  BY <1>1, SameMem, SameWalk DEF IInv, CallPosition, HasPte
<1>5. TlbKnows'
  BY <1>1, SameMem, AddressFacts DEF IInv, TlbKnows
<1> QED
  BY <1>2, <1>3, <1>4, <1>5, CallMoves

\* get_pte allocates the table: one page less is free, and one more is a table.
LEMMA TableAdded ==
    ASSUME IInv, op \in {"pdep1", "pdep0"}, NEW q \in free,
           free' = free \ {q}, ref' = [ref EXCEPT ![q] = 1],
           op' \in {"pdep0", "found"}, UNCHANGED <<args, ret, held, tlb>>,
           op' = "pdep0" => Valid(Pdep1(la))', op' = "found" => HasPte(la)',
           mem' \in [Page \union {Root} -> [Index -> Entry]],
           Tree', \A p \in Page : IsTable(p)' <=> IsTable(p) \/ p = q,
           \A a \in Adr : get_page(a)' = get_page(a)
    PROVE  IInv'
<1>1. /\ UNCHANGED <<la, page, perm>> /\ la \in LA /\ la \in Adr /\ q \in Page /\ TypeOK
      /\ ref \in [Page -> Int] /\ free \subseteq Page
  BY AddressFacts, TypesSplit DEF args, IInv, CallPosition, TypeOK, RefCounts
<1>2. Mapped' = Mapped /\ \A p : Mappings(p)' = Mappings(p)
  BY AddressFacts DEF Mapped, Mappings
<1>3. q \notin held /\ q \notin Mapped
  BY IdleFacts DEF IInv, Owned
<1>4. TablesKept'
  BY <1>1, <1>2, <1>3 DEF IInv, TablesKept
<1>5. Counts'
  <2>1. \A p \in Page : Pending(p)' = 0 /\ Dropped(p)' = 0 /\ Pending(p) = 0 /\ Dropped(p) = 0
    BY DEF Pending, Dropped
  <2>2. \A p \in Page : ~ IsTable(p)' => ~ IsTable(p) /\ ref'[p] = ref[p]
    BY <1>1
  <2> QED
    BY <1>2, <2>1, <2>2 DEF IInv, Counts
<1>6. Owned'
  BY <1>1, <1>2 DEF IInv, Owned
<1>7. CallPosition'
  BY <1>1 DEF IInv, CallPosition
<1>8. TlbKnows'
  BY <1>1, IdleFacts, AddressFacts DEF TlbKnows
<1>9. OthersTyped' /\ RefCounts'
  BY <1>1, TypesSplit DEF IInv, OthersTyped, RefCounts
<1> QED
  BY <1>4, <1>5, <1>6, <1>7, <1>8, <1>9, TypesNext DEF IInv

LEMMA get_pte1Inv ==
    ASSUME IInv, get_pte1
    PROVE  IInv'
<1>1. /\ op = "pdep1" /\ la \in LA /\ la \in Adr /\ UNCHANGED <<held, tlb>> /\ TypeOK
      /\ mem[Root][la[1]] = Pdep1(la)
  BY AddressFacts, Levels DEF get_pte1, get_pte_level, IInv, CallPosition
<1>2. CASE Valid(Pdep1(la)) /\ op' = "pdep0" /\ UNCHANGED <<free, ref, mem, args, ret>>
  BY <1>1, <1>2, TableFound
<1>3. CASE ~ Valid(Pdep1(la)) /\ free = {} /\ Return(-E_NO_MEM) /\ UNCHANGED <<free, ref, mem>>
  BY <1>1, <1>3, ReturnInv
<1>4. ASSUME ~ Valid(Pdep1(la)), NEW q \in free, free' = free \ {q}, ref' = [ref EXCEPT ![q] = 1],
             mem' = [mem EXCEPT ![q] = Zero, ![Root][la[1]] = Pte(q, Table)],
             op' = "pdep0", UNCHANGED <<args, ret>>
      PROVE  IInv'
  <2>1. q \in Page /\ ~ IsTable(q) /\ la' = la
    BY <1>1, <1>4 DEF IInv, TypeOK, TablesKept, args
  <2>2. /\ mem' \in [Page \union {Root} -> [Index -> Entry]]
        /\ \A a \in Adr :
             /\ Pdep1(a)' = IF a[1] = la[1] THEN Pte(q, Table) ELSE Pdep1(a)
             /\ Pdep0(a)' = IF a[1] = la[1] THEN NULL ELSE Pdep0(a)
             /\ get_page(a)' = get_page(a)
    BY <1>1, <1>4, <2>1, Level1Effect
  <2>3. Valid(Pte(q, Table)) /\ Pte(q, Table).page = q /\ ~ Valid(NULL)
    BY <2>1, EntryFacts
  <2>4. \A a \in Adr : /\ Valid(Pdep1(a)) => Pdep1(a).page # q
                       /\ HasPte(a) => Pdep0(a).page # q
    BY <2>1, TablesOf
  <2>5. \A a \in Adr : HasPte(a)' <=> HasPte(a) /\ a[1] # la[1]
    BY <2>2, <2>3 DEF HasPte
  <2>6. \A a \in Adr : Valid(Pdep1(a)) \/ HasPte(a) => a[1] # la[1]
    BY <1>4 DEF Pdep1, Pdep0, HasPte, Valid
  <2>7. Tree'
    BY <2>2, <2>3, <2>4, <2>5 DEF IInv, Tree
  <2>8. \A p \in Page : IsTable(p)' <=> IsTable(p) \/ p = q
    BY <1>1, <2>2, <2>3, <2>5, <2>6 DEF IsTable
  <2>9. Valid(Pdep1(la))'
    BY <1>1, <2>1, <2>2, <2>3
  <2> QED
    BY <1>1, <1>4, <2>2, <2>7, <2>8, <2>9, TableAdded
<1> QED
  BY <1>1, <1>2, <1>3, <1>4 DEF get_pte1, get_pte_level, ClearedTable

LEMMA get_pte0Inv ==
    ASSUME IInv, get_pte0
    PROVE  IInv'
<1>1. /\ op = "pdep0" /\ la \in LA /\ la \in Adr /\ UNCHANGED <<held, tlb>> /\ TypeOK /\ Tree
      /\ Valid(Pdep1(la)) /\ mem[Pdep1(la).page][la[2]] = Pdep0(la)
  BY AddressFacts, Levels DEF get_pte0, get_pte_level, IInv, CallPosition
<1>2. CASE Valid(Pdep0(la)) /\ op' = "found" /\ UNCHANGED <<free, ref, mem, args, ret>>
  BY <1>1, <1>2, TableFound
<1>3. CASE ~ Valid(Pdep0(la)) /\ free = {} /\ Return(-E_NO_MEM) /\ UNCHANGED <<free, ref, mem>>
  BY <1>1, <1>3, ReturnInv
<1>4. ASSUME ~ Valid(Pdep0(la)), NEW q \in free, free' = free \ {q}, ref' = [ref EXCEPT ![q] = 1],
             mem' = [mem EXCEPT ![q] = Zero, ![Pdep1(la).page][la[2]] = Pte(q, Table)],
             op' = "found", UNCHANGED <<args, ret>>
      PROVE  IInv'
  <2>1. q \in Page /\ ~ IsTable(q) /\ la' = la
    BY <1>1, <1>4 DEF IInv, TypeOK, TablesKept, args
  <2>2. /\ mem' \in [Page \union {Root} -> [Index -> Entry]]
        /\ \A a \in Adr :
             /\ Pdep1(a)' = Pdep1(a)
             /\ Pdep0(a)' = IF a[1] = la[1] /\ a[2] = la[2] THEN Pte(q, Table) ELSE Pdep0(a)
             /\ get_page(a)' = get_page(a)
    BY <1>1, <1>4, <2>1, Level0Effect
  <2>3. Valid(Pte(q, Table)) /\ Pte(q, Table).page = q
    BY <2>1, EntryFacts
  <2>4. \A a \in Adr : /\ Valid(Pdep1(a)) => Pdep1(a).page # q
                       /\ HasPte(a) => Pdep0(a).page # q
    BY <2>1, TablesOf
  <2>5. \A a \in Adr : HasPte(a)' <=> HasPte(a) \/ (a[1] = la[1] /\ a[2] = la[2])
    BY <2>2, <2>3 DEF HasPte
  <2>6. \A a \in Adr : HasPte(a) => ~ (a[1] = la[1] /\ a[2] = la[2])
    BY <1>4 DEF Pdep1, Pdep0, HasPte
  <2>7. Tree'
    BY <2>2, <2>3, <2>4, <2>5, <2>6 DEF IInv, Tree
  <2>8. \A p \in Page : IsTable(p)' <=> IsTable(p) \/ p = q
    BY <1>1, <2>2, <2>3, <2>5, <2>6 DEF IsTable
  <2>9. HasPte(la)'
    BY <1>1, <2>1, <2>2, <2>3, <2>5
  <2> QED
    BY <1>1, <1>4, <2>2, <2>7, <2>8, <2>9, TableAdded
<1> QED
  BY <1>1, <1>2, <1>3, <1>4 DEF get_pte0, get_pte_level, ClearedTable

\* Where the call has a pte, get_page reads it.
LEMMA Current ==
    ASSUME IInv, op \in {"found", "remove", "clear", "invalidate", "set", "flush", "done"}
    PROVE  /\ la \in LA /\ la \in Adr /\ HasPte(la) /\ get_page(la) = PteOf(la) /\ TypeOK /\ Tree
           /\ get_page(la) \in Entry
           /\ Valid(get_page(la)) => get_page(la).page \in Page /\ ~ IsTable(get_page(la).page)
                                    /\ get_page(la).page \notin held
                                    /\ la \in Mappings(get_page(la).page)
<1>1. la \in LA /\ la \in Adr /\ HasPte(la) /\ TypeOK /\ Tree
  BY AddressFacts DEF IInv, CallPosition
<1>2. get_page(la) = PteOf(la) /\ get_page(la) \in Entry
      /\ (Valid(get_page(la)) => get_page(la).page \in Page)
  BY <1>1, WalkTypes
<1>3. Valid(get_page(la)) => ~ IsTable(get_page(la).page) /\ get_page(la).page \notin held
                             /\ la \in Mappings(get_page(la).page)
  BY <1>1, <1>2, MappedNotFree, MappingFacts DEF IInv
<1> QED
  BY <1>1, <1>2, <1>3

LEMMA InsertFoundInv ==
    ASSUME IInv, InsertFound
    PROVE  IInv'
<1>1. /\ op = "found" /\ UNCHANGED <<free, held, mem, tlb, la, page, perm, ret>>
      /\ page \in Page /\ page \notin free /\ ~ IsTable(page) /\ perm \in Perm /\ page # NULL
  BY DEF InsertFound, args, IInv, CallPosition
<1>2. /\ la \in LA /\ la \in Adr /\ HasPte(la) /\ get_page(la) = PteOf(la) /\ TypeOK
      /\ get_page(la)' = get_page(la)
  BY <1>1, Current, SameMem
<1>3. /\ \A p : IsTable(p)' <=> IsTable(p)
      /\ \A a \in Adr : HasPte(a)' <=> HasPte(a)
      /\ Mapped' = Mapped /\ \A p : Mappings(p)' = Mappings(p)
      /\ Tree'
  BY <1>1, SameMem, SameWalk DEF IInv
<1>4. \A p \in Page : ref'[p] = ref[p] + (IF p = page /\ ~ SamePage THEN 1 ELSE 0)
      /\ ref \in [Page -> Int] /\ ref' \in [Page -> Int]
  BY <1>1, TypesSplit DEF InsertFound, page_ref_inc, IInv, RefCounts
<1>5. /\ Replaces => op' = "remove" /\ Valid(get_page(la)) /\ get_page(la).page # page /\ ~ SamePage
      /\ ~ Replaces => op' = "set" /\ (Valid(get_page(la)) => get_page(la).page = page)
      /\ SamePage => Valid(get_page(la))
      /\ ~ Replaces /\ ~ SamePage => ~ Valid(get_page(la))
  BY <1>2 DEF InsertFound, Replaces, SamePage
<1>6. TablesKept'
  BY <1>1, <1>3, <1>4 DEF IInv, TablesKept
<1>7. Counts'
  <2>1. ASSUME NEW p \in Page
        PROVE  /\ Pending(p) = 0 /\ Dropped(p) = 0 /\ Dropped(p)' = 0
               /\ Pending(p)' = IF p = page /\ ~ SamePage THEN 1 ELSE 0
    BY <1>1, <1>2, <1>5 DEF Pending, Dropped
  <2> QED
    <3> SUFFICES ASSUME NEW p \in Page, ~ IsTable(p)'
                 PROVE  ref'[p] + Dropped(p)' = Cardinality(Mappings(p)') + Pending(p)'
      BY DEF Counts
    <3>1. ref[p] + Dropped(p) = Cardinality(Mappings(p)) + Pending(p)
      BY <1>3 DEF IInv, Counts
    <3>2. Cardinality(Mappings(p)) \in Nat /\ ref[p] \in Int /\ Mappings(p)' = Mappings(p)
      BY <1>3, <1>4, MappingFacts
    <3> QED
      BY <1>4, <2>1, <3>1, <3>2
<1>8. Owned'
  BY <1>1, <1>3, <1>4 DEF IInv, Owned, TypeOK
<1>9. CallPosition'
  BY <1>1, <1>2, <1>3, <1>5 DEF CallPosition
<1>10. TlbKnows'
  BY <1>1, SameMem, AddressFacts DEF IInv, TlbKnows
<1>11. OthersTyped' /\ RefCounts'
  BY <1>1, <1>4, <1>5, TypesSplit DEF IInv, OthersTyped, RefCounts
<1> QED
  BY <1>3, <1>6, <1>7, <1>8, <1>9, <1>10, <1>11, TypesNext DEF IInv

\* A store to the pte: what it changes of the mappings.
LEMMA StoreMaps ==
    ASSUME IInv, op \in {"clear", "set"}, NEW e \in Entry, SetPte(e)
    PROVE  /\ mem' \in [Page \union {Root} -> [Index -> Entry]]
           /\ Tree' /\ (\A p : IsTable(p)' <=> IsTable(p)) /\ \A a \in Adr : HasPte(a)' <=> HasPte(a)
           /\ \A a \in Adr : get_page(a)' = IF a = la THEN e ELSE get_page(a)
           /\ \A p : Mappings(p)' = (Mappings(p) \ {la}) \union (IF Valid(e) /\ e.page = p THEN {la} ELSE {})
           /\ \A p \in Page : p \in Mapped' => p \in Mapped \/ (Valid(e) /\ e.page = p)
<1>1. la \in LA /\ la \in Adr /\ HasPte(la) /\ TypeOK /\ Tree
  BY Current
<1>2. /\ mem' \in [Page \union {Root} -> [Index -> Entry]]
      /\ \A a \in Adr : Pdep1(a)' = Pdep1(a) /\ Pdep0(a)' = Pdep0(a)
      /\ \A a \in Adr : get_page(a)' = IF a = la THEN e ELSE get_page(a)
  BY <1>1, SetPteEffect
<1>3. \A a \in Adr : HasPte(a)' <=> HasPte(a)
  BY <1>2 DEF HasPte
<1>4. Tree'
  BY <1>1, <1>2, <1>3 DEF Tree
<1>5. \A p : IsTable(p)' <=> IsTable(p)
  BY <1>2, <1>3 DEF IsTable
<1>6. ASSUME NEW p
      PROVE  Mappings(p)' = (Mappings(p) \ {la}) \union (IF Valid(e) /\ e.page = p THEN {la} ELSE {})
  BY <1>1, <1>2, AddressFacts DEF Mappings
<1>7. \A p \in Page : p \in Mapped' => p \in Mapped \/ (Valid(e) /\ e.page = p)
  BY <1>1, <1>2, AddressFacts DEF Mapped
<1> QED
  BY <1>2, <1>3, <1>4, <1>5, <1>6, <1>7

LEMMA InsertSetInv ==
    ASSUME IInv, InsertSet
    PROVE  IInv'
<1> DEFINE e == Pte(page, perm)
<1>1. /\ op = "set" /\ op' = "flush" /\ SetPte(e) /\ held' = held \ {page}
      /\ UNCHANGED <<free, ref, tlb, la, page, perm, ret>>
      /\ page \in Page /\ page \notin free /\ ~ IsTable(page) /\ perm \in Perm /\ page # NULL
      /\ (Valid(get_page(la)) => get_page(la).page = page)
  BY DEF InsertSet, AfterSet, args, IInv, CallPosition
<1>2. e \in Entry /\ Valid(e) /\ e.page = page
  BY <1>1, EntryFacts
<1>3. la \in LA /\ la \in Adr /\ HasPte(la) /\ TypeOK
  BY <1>1, Current
<1> HIDE DEF e
<1>4. /\ mem' \in [Page \union {Root} -> [Index -> Entry]]
      /\ Tree' /\ (\A p : IsTable(p)' <=> IsTable(p)) /\ \A a \in Adr : HasPte(a)' <=> HasPte(a)
      /\ \A a \in Adr : get_page(a)' = IF a = la THEN e ELSE get_page(a)
      /\ \A p : Mappings(p)' = (Mappings(p) \ {la}) \union (IF Valid(e) /\ e.page = p THEN {la} ELSE {})
      /\ \A p \in Page : p \in Mapped' => p \in Mapped \/ (Valid(e) /\ e.page = p)
  BY <1>1, <1>2, StoreMaps
<1>5. TablesKept'
  BY <1>1, <1>2, <1>4 DEF IInv, TablesKept
<1>6. ASSUME NEW p \in Page, ~ IsTable(p)
      PROVE  ref[p] = Cardinality(Mappings(p)') /\ ref[p] \in Int
  <2>1. /\ ref[p] + Dropped(p) = Cardinality(Mappings(p)) + Pending(p) /\ Dropped(p) = 0
        /\ ref[p] \in Int /\ Cardinality(Mappings(p)) \in Nat /\ IsFiniteSet(Mappings(p))
    BY <1>1, <1>6, MappingFacts, TypesSplit DEF IInv, Counts, Dropped, RefCounts
  <2>2. Mappings(p)' = (Mappings(p) \ {la}) \union (IF e.page = p THEN {la} ELSE {})
    BY <1>2, <1>4
  <2>3. la \in Mappings(p) <=> Valid(get_page(la)) /\ get_page(la).page = p
    BY <1>3, MappingFacts
  <2>4. CASE p # page
    <3>1. Mappings(p)' = Mappings(p) /\ Pending(p) = 0
      BY <1>1, <1>2, <2>2, <2>3, <2>4 DEF Pending
    <3> QED
      BY <2>1, <3>1
  <2>5. CASE p = page /\ Valid(get_page(la))
    <3>1. Mappings(p)' = Mappings(p) /\ Pending(p) = 0
      BY <1>1, <1>2, <2>2, <2>3, <2>5 DEF Pending
    <3> QED
      BY <2>1, <3>1
  <2>6. CASE p = page /\ ~ Valid(get_page(la))
    <3>1. Mappings(p)' = Mappings(p) \union {la} /\ la \notin Mappings(p) /\ Pending(p) = 1
      BY <1>1, <1>2, <2>2, <2>3, <2>6 DEF Pending
    <3> QED
      BY <2>1, <3>1, MappingsChange
  <2> QED
    BY <2>4, <2>5, <2>6
<1>7. Counts'
  <2> SUFFICES ASSUME NEW p \in Page, ~ IsTable(p)'
               PROVE  ref'[p] + Dropped(p)' = Cardinality(Mappings(p)') + Pending(p)'
    BY DEF Counts
  <2>1. Dropped(p)' = 0 /\ Pending(p)' = 0
    BY <1>1 DEF Dropped, Pending
  <2> QED
    BY <1>1, <1>4, <1>6, <2>1
<1>8. Owned'
  <2>1. ref[page] > 0
    <3>1. la \in Mappings(page)' /\ IsFiniteSet(Mappings(page)')
      BY <1>1, <1>2, <1>4, MappingFacts, FS_AddElement, FS_Subset
    <3>2. Cardinality(Mappings(page)') # 0 /\ Cardinality(Mappings(page)') \in Nat
      BY <3>1, FS_EmptySet, FS_CardinalityType
    <3> QED
      BY <1>1, <1>6, <3>2
  <2>2. /\ \A p \in free : ref[p] = 0 /\ p \notin held
        /\ \A p \in held : p \notin Mapped /\ p \in Page
        /\ \A p \in Page : p \in free \union held \/ ref[p] > 0
    BY <1>3 DEF IInv, Owned, TypeOK
  <2>3. \A p \in held' : p \notin Mapped'
    BY <1>1, <1>2, <1>4, <2>2
  <2>4. \A p \in Page : p \in free' \union held' \/ ref'[p] > 0
    BY <1>1, <2>1, <2>2
  <2> QED
    BY <1>1, <2>2, <2>3, <2>4 DEF Owned
<1>9. CallPosition'
  BY <1>1, <1>3, <1>4 DEF CallPosition, e
<1>10. TlbKnows'
  <2> SUFFICES ASSUME NEW a \in LA, Valid(tlb[a])
               PROVE  \/ tlb[a] = get_page(a)'
                      \/ a = la /\ tlb[a].page = page
    BY <1>1 DEF TlbKnows
  <2>1. tlb[a] = get_page(a)
    BY <1>1 DEF IInv, TlbKnows
  <2> QED
    BY <1>1, <1>4, <2>1, AddressFacts
<1>11. OthersTyped' /\ RefCounts'
  BY <1>1, <1>4, TypesSplit DEF IInv, OthersTyped, RefCounts
<1> QED
  BY <1>4, <1>5, <1>7, <1>8, <1>9, <1>10, <1>11, TypesNext DEF IInv

LEMMA InsertFlushInv ==
    ASSUME IInv, InsertFlush
    PROVE  IInv'
<1>1. /\ op = "flush" /\ op' = "done" /\ tlb' = [tlb EXCEPT ![la] = NULL]
      /\ UNCHANGED <<free, held, ref, mem, la, page, perm, ret>>
  BY DEF InsertFlush, args
<1>2. /\ la \in LA /\ la \in Adr /\ HasPte(la) /\ tlb \in [LA -> Entry] /\ tlb' \in [LA -> Entry]
      /\ get_page(la)' = get_page(la)
  BY <1>1, Current, SameMem, EntryFacts DEF TypeOK
<1>3. \A q \in Page : Pending(q)' = Pending(q) /\ Dropped(q)' = Dropped(q)
  BY <1>1 DEF Pending, Dropped
<1>4. OthersTyped'
  BY <1>1, <1>2, TypesSplit DEF IInv, OthersTyped
<1>5. CallPosition'
  BY <1>1, <1>2, SameMem, SameWalk DEF IInv, CallPosition
<1>6. TlbKnows'
  BY <1>1, <1>2, SameMem, AddressFacts, EntryFacts DEF IInv, TlbKnows
<1> QED
  BY <1>1, <1>3, <1>4, <1>5, <1>6, CallMoves

LEMMA InsertDoneInv ==
    ASSUME IInv, InsertDone
    PROVE  IInv'
BY ReturnInv DEF InsertDone

LEMMA RemoveUnrefInv ==
    ASSUME IInv, RemoveUnref
    PROVE  IInv'
<1> DEFINE o == get_page(la).page
<1>1. /\ op = "remove" /\ op' = "clear" /\ UNCHANGED <<held, mem, tlb, la, page, perm, ret>>
      /\ Valid(get_page(la)) /\ o # page
  BY DEF RemoveUnref, args, IInv, CallPosition
<1>2. /\ la \in LA /\ la \in Adr /\ HasPte(la) /\ get_page(la) = PteOf(la) /\ TypeOK
      /\ o \in Page /\ ~ IsTable(o) /\ o \notin held /\ la \in Mappings(o)
      /\ get_page(la)' = get_page(la)
  BY <1>1, Current, SameMem
<1>3. /\ \A p : IsTable(p)' <=> IsTable(p)
      /\ \A a \in Adr : HasPte(a)' <=> HasPte(a)
      /\ Mapped' = Mapped /\ \A p : Mappings(p)' = Mappings(p)
      /\ Tree'
  BY <1>1, SameMem, SameWalk DEF IInv
<1> HIDE DEF o
<1>4. /\ ref' = [ref EXCEPT ![o] = @ - 1]
      /\ free' = IF ref[o] = 1 THEN free \union {o} ELSE free
  BY <1>2 DEF RemoveUnref, FreedWith, o
<1>5. /\ ref \in [Page -> Int] /\ ref' \in [Page -> Int] /\ ref'[o] = ref[o] - 1
      /\ \A p \in Page : p # o => ref'[p] = ref[p]
  BY <1>2, <1>4, TypesSplit DEF IInv, RefCounts
<1>6. ref[o] >= 1 /\ o \notin free
  <2>1. Cardinality(Mappings(o)) \in Nat /\ Cardinality(Mappings(o)) >= 1
    BY <1>2, MappingFacts DEF Mapped, Mappings
  <2>2. ref[o] + Dropped(o) = Cardinality(Mappings(o)) + Pending(o) /\ Dropped(o) = 0 /\ Pending(o) \in {0, 1}
    BY <1>1, <1>2 DEF IInv, Counts, Dropped, Pending
  <2>3. ref[o] >= 1
    BY <1>2, <1>5, <2>1, <2>2
  <2> QED
    BY <2>3 DEF IInv, Owned
<1>7. TablesKept'
  BY <1>2, <1>3, <1>1, <1>4, <1>5 DEF IInv, TablesKept
<1>8. Counts'
  <2> SUFFICES ASSUME NEW p \in Page, ~ IsTable(p)
               PROVE  ref'[p] + Dropped(p)' = Cardinality(Mappings(p)) + Pending(p)'
    BY <1>3 DEF Counts
  <2>1. ref[p] + Dropped(p) = Cardinality(Mappings(p)) + Pending(p) /\ ref[p] \in Int
        /\ Cardinality(Mappings(p)) \in Nat
    BY <1>5, MappingFacts DEF IInv, Counts
  <2>2. Dropped(p) = 0 /\ Pending(p)' = Pending(p) /\ Pending(p) \in {0, 1}
        /\ Dropped(p)' = IF p = o THEN 1 ELSE 0
    BY <1>1, <1>2 DEF Dropped, Pending, o
  <2> QED
    BY <1>5, <2>1, <2>2
<1>9. Owned'
  <2>1. /\ \A p \in free : ref[p] = 0 /\ p \notin held /\ p \in Page /\ p # o
        /\ \A p \in held : p \notin Mapped /\ p \in Page
        /\ \A p \in Page : p \in free \union held \/ ref[p] > 0
    BY <1>2, <1>6 DEF IInv, Owned, TypeOK
  <2>2. \A p \in free' : ref'[p] = 0 /\ p \notin held'
    BY <1>1, <1>2, <1>4, <1>5, <2>1
  <2>3. \A p \in held' : p \notin Mapped'
    BY <1>1, <1>3, <2>1
  <2>4. \A p \in Page : p \in free' \union held' \/ ref'[p] > 0
    <3> SUFFICES ASSUME NEW p \in Page PROVE p \in free' \union held' \/ ref'[p] > 0
      OBVIOUS
    <3>1. CASE p = o
      BY <1>2, <1>4, <1>5, <1>6, <3>1
    <3>2. CASE p # o
      BY <1>1, <1>4, <1>5, <2>1, <3>2
    <3> QED
      BY <3>1, <3>2
  <2> QED
    BY <2>2, <2>3, <2>4 DEF Owned
<1>10. CallPosition'
  <2>1. page # NULL => page \in Page \ free /\ ~ IsTable(page) /\ perm \in Perm
    BY DEF IInv, CallPosition
  <2>2. page # NULL => page \in Page \ free' /\ ~ IsTable(page)' /\ perm' \in Perm
    BY <1>1, <1>3, <1>4, <2>1 DEF o
  <2> QED
    BY <1>1, <1>2, <1>3, <2>2 DEF CallPosition, o
<1>11. TlbKnows'
  BY <1>1, SameMem, AddressFacts DEF IInv, TlbKnows
<1>12. OthersTyped' /\ RefCounts'
  BY <1>1, <1>2, <1>4, <1>5, TypesSplit DEF IInv, OthersTyped, RefCounts
<1> QED
  BY <1>3, <1>7, <1>8, <1>9, <1>10, <1>11, <1>12, TypesNext DEF IInv

LEMMA RemoveClearInv ==
    ASSUME IInv, RemoveClear
    PROVE  IInv'
<1> DEFINE o == get_page(la).page
<1>1. /\ op = "clear" /\ op' = "invalidate" /\ SetPte(NULL)
      /\ UNCHANGED <<free, held, ref, tlb, la, page, perm, ret>>
      /\ Valid(get_page(la)) /\ o # page
  BY DEF RemoveClear, args, IInv, CallPosition
<1>2. /\ la \in LA /\ la \in Adr /\ HasPte(la) /\ TypeOK
      /\ o \in Page /\ ~ IsTable(o) /\ la \in Mappings(o)
  BY <1>1, Current
<1>3. NULL \in Entry /\ ~ Valid(NULL)
  BY EntryFacts
<1>4. /\ mem' \in [Page \union {Root} -> [Index -> Entry]]
      /\ Tree' /\ (\A p : IsTable(p)' <=> IsTable(p)) /\ \A a \in Adr : HasPte(a)' <=> HasPte(a)
      /\ \A a \in Adr : get_page(a)' = IF a = la THEN NULL ELSE get_page(a)
      /\ \A p : Mappings(p)' = Mappings(p) \ {la}
      /\ \A p \in Page : p \in Mapped' => p \in Mapped
  <2>1. /\ mem' \in [Page \union {Root} -> [Index -> Entry]]
        /\ Tree' /\ (\A p : IsTable(p)' <=> IsTable(p)) /\ \A a \in Adr : HasPte(a)' <=> HasPte(a)
        /\ \A a \in Adr : get_page(a)' = IF a = la THEN NULL ELSE get_page(a)
        /\ \A p : Mappings(p)' = (Mappings(p) \ {la}) \union (IF Valid(NULL) /\ NULL.page = p THEN {la} ELSE {})
        /\ \A p \in Page : p \in Mapped' => p \in Mapped \/ (Valid(NULL) /\ NULL.page = p)
    BY <1>1, <1>3, StoreMaps
  <2>2. \A p : Mappings(p)' = Mappings(p) \ {la}
    BY <1>3, <2>1
  <2>3. \A p \in Page : p \in Mapped' => p \in Mapped
    BY <1>3, <2>1
  <2> QED
    BY <2>1, <2>2, <2>3
<1>5. TablesKept'
  BY <1>1, <1>4 DEF IInv, TablesKept
<1>6. Counts'
  <2> SUFFICES ASSUME NEW p \in Page, ~ IsTable(p)
               PROVE  ref[p] + Dropped(p)' = Cardinality(Mappings(p) \ {la}) + Pending(p)'
    BY <1>1, <1>4 DEF Counts
  <2>1. /\ ref[p] + Dropped(p) = Cardinality(Mappings(p)) + Pending(p)
        /\ ref[p] \in Int /\ Cardinality(Mappings(p)) \in Nat /\ IsFiniteSet(Mappings(p))
    BY MappingFacts, TypesSplit DEF IInv, Counts, RefCounts
  <2>2. Dropped(p)' = 0 /\ Pending(p)' = Pending(p) /\ Pending(p) \in {0, 1}
        /\ Dropped(p) = IF p = o THEN 1 ELSE 0
    BY <1>1 DEF Dropped, Pending
  <2>3. p # o => la \notin Mappings(p) /\ Mappings(p) \ {la} = Mappings(p)
    BY DEF Mappings
  <2>4. p = o => Cardinality(Mappings(p) \ {la}) = Cardinality(Mappings(p)) - 1
    BY <1>2, <2>1, MappingsChange
  <2> QED
    BY <2>1, <2>2, <2>3, <2>4
<1>7. Owned'
  <2>1. \A p \in held : p \in Page
    BY <1>2 DEF TypeOK
  <2> QED
    BY <1>1, <1>4, <2>1 DEF IInv, Owned
<1>8. CallPosition'
  BY <1>1, <1>2, <1>3, <1>4 DEF IInv, CallPosition
<1>9. TlbKnows'
  <2> SUFFICES ASSUME NEW a \in LA, Valid(tlb[a]) PROVE tlb[a] = get_page(a)' \/ a = la
    BY <1>1 DEF TlbKnows
  <2>1. tlb[a] = get_page(a)
    BY <1>1 DEF IInv, TlbKnows
  <2> QED
    BY <1>4, <2>1, AddressFacts
<1>10. OthersTyped' /\ RefCounts'
  BY <1>1, <1>4, TypesSplit DEF IInv, OthersTyped, RefCounts
<1> QED
  BY <1>4, <1>5, <1>6, <1>7, <1>8, <1>9, <1>10, TypesNext DEF IInv

LEMMA RemoveFlushInv ==
    ASSUME IInv, RemoveFlush
    PROVE  IInv'
<1>1. /\ op = "invalidate" /\ tlb' = [tlb EXCEPT ![la] = NULL] /\ UNCHANGED <<free, held, ref, mem>>
      /\ ret \in {0, -E_NO_MEM}
  BY DEF RemoveFlush, IInv, TypeOK
<1>2. CASE page = NULL /\ Return(ret)
  BY <1>1, <1>2, ReturnInv
<1>3. CASE page # NULL /\ op' = "set" /\ UNCHANGED <<args, ret>>
  <2>1. /\ la \in LA /\ la \in Adr /\ HasPte(la) /\ tlb \in [LA -> Entry] /\ tlb' \in [LA -> Entry]
        /\ get_page(la)' = get_page(la) /\ UNCHANGED <<la, page, perm>> /\ ~ Valid(get_page(la))
    BY <1>1, <1>3, Current, SameMem, EntryFacts DEF TypeOK, args, IInv, CallPosition
  <2>2. \A q \in Page : Pending(q)' = Pending(q) /\ Dropped(q)' = Dropped(q)
    BY <1>1, <1>3, <2>1 DEF Pending, Dropped
  <2>3. OthersTyped'
    BY <1>1, <1>3, <2>1, TypesSplit DEF IInv, OthersTyped
  <2>4. CallPosition'
    BY <1>1, <1>3, <2>1, SameMem, SameWalk DEF IInv, CallPosition
  <2>5. TlbKnows'
    BY <1>1, <1>3, <2>1, SameMem, AddressFacts, EntryFacts DEF IInv, TlbKnows
  <2> QED
    BY <1>1, <2>2, <2>3, <2>4, <2>5, CallMoves
<1> QED
  BY <1>2, <1>3 DEF RemoveFlush

-----------------------------------------------------------------------------
(* Steps of the callers and of the hardware *)

LEMMA TlbFillInv ==
    ASSUME IInv, NEW a \in LA, TlbFill(a)
    PROVE  IInv'
<1>1. /\ Valid(get_page(a)) /\ tlb' = [tlb EXCEPT ![a] = get_page(a)]
      /\ UNCHANGED <<free, held, ref, mem, op, la, page, perm, ret>>
  BY DEF TlbFill, args
<1>2. a \in Adr /\ get_page(a) \in Entry /\ tlb \in [LA -> Entry] /\ tlb' \in [LA -> Entry]
  BY <1>1, WalkTypes, AddressFacts DEF IInv, TypeOK
<1>3. \A b \in Adr : get_page(b)' = get_page(b)
  BY <1>1, SameMem
<1>4. \A q \in Page : Pending(q)' = Pending(q) /\ Dropped(q)' = Dropped(q)
  BY <1>1, SameMem DEF Pending, Dropped, get_page, HasPte, PteOf, Pdep0, Pdep1
<1>5. OthersTyped'
  BY <1>1, <1>2, TypesSplit DEF IInv, OthersTyped
<1>6. CallPosition'
  BY <1>1, <1>3, SameMem, SameWalk, AddressFacts DEF IInv, CallPosition
<1>7. TlbKnows'
  BY <1>1, <1>2, <1>3, AddressFacts DEF IInv, TlbKnows
<1> QED
  BY <1>1, <1>4, <1>5, <1>6, <1>7, CallMoves

\* A caller takes or gives back a page that is not mapped.
LEMMA AllocPageInv ==
    ASSUME IInv, NEW p \in Page, AllocPage(p)
    PROVE  IInv'
<1>1. /\ op = "idle" /\ p \in free /\ free' = free \ {p} /\ held' = held \union {p}
      /\ mem' = [mem EXCEPT ![p] = Data(p)] /\ UNCHANGED <<ref, tlb, op, la, page, perm, ret>>
      /\ page = NULL /\ TypeOK
  BY DEF AllocPage, args, IInv, CallPosition
<1>2. ~ IsTable(p) /\ p \notin Mapped /\ Data(p) \in [Index -> Entry]
  BY <1>1, IdleFacts, EntryFacts DEF IInv, TablesKept, Data
<1>3. /\ mem' \in [Page \union {Root} -> [Index -> Entry]]
      /\ \A a \in Adr : Pdep1(a)' = Pdep1(a) /\ Pdep0(a)' = Pdep0(a) /\ get_page(a)' = get_page(a)
  BY <1>1, <1>2, DataEffect
<1>4. /\ Tree' /\ (\A q : IsTable(q)' <=> IsTable(q)) /\ Mapped' = Mapped
      /\ \A q : Mappings(q)' = Mappings(q)
  BY <1>3, SameWalk DEF IInv
<1>5. TablesKept'
  BY <1>1, <1>2, <1>4 DEF IInv, TablesKept
<1>6. Counts'
  <2>1. \A q \in Page : Pending(q)' = 0 /\ Dropped(q)' = 0 /\ Pending(q) = 0 /\ Dropped(q) = 0
    BY <1>1 DEF Pending, Dropped
  <2> QED
    BY <1>1, <1>4, <2>1 DEF IInv, Counts
<1>7. Owned'
  BY <1>1, <1>2, <1>4 DEF IInv, Owned
<1>8. CallPosition'
  BY <1>1 DEF IInv, CallPosition
<1>9. TlbKnows'
  BY <1>1, <1>3, IdleFacts, AddressFacts DEF TlbKnows
<1>10. OthersTyped' /\ RefCounts'
  BY <1>1, <1>3, TypesSplit DEF IInv, OthersTyped, RefCounts
<1> QED
  BY <1>4, <1>5, <1>6, <1>7, <1>8, <1>9, <1>10, TypesNext DEF IInv

LEMMA FreePageInv ==
    ASSUME IInv, NEW p \in Page, FreePage(p)
    PROVE  IInv'
<1>1. /\ op = "idle" /\ p \in held /\ free' = free \union {p} /\ held' = held \ {p}
      /\ UNCHANGED <<ref, mem, tlb, op, la, page, perm, ret>> /\ page = NULL /\ TypeOK
  BY DEF FreePage, args, IInv, CallPosition
<1>2. ~ IsTable(p) /\ p \notin Mapped
  BY <1>1 DEF IInv, TablesKept, Owned
<1>3. ref[p] = 0
  <2>1. ref[p] + Dropped(p) = Cardinality(Mappings(p)) + Pending(p) /\ ref[p] \in Int
    BY <1>2, TypesSplit DEF IInv, Counts, RefCounts
  <2>2. Dropped(p) = 0 /\ Pending(p) = 0
    BY <1>1, IdleFacts
  <2>3. Cardinality(Mappings(p)) = 0
    BY <1>2, MappingFacts
  <2> QED
    BY <2>1, <2>2, <2>3
<1>4. \A a \in Adr : Pdep1(a)' = Pdep1(a) /\ Pdep0(a)' = Pdep0(a) /\ get_page(a)' = get_page(a)
  BY <1>1, SameMem
<1>5. /\ Tree' /\ (\A q : IsTable(q)' <=> IsTable(q)) /\ Mapped' = Mapped
      /\ \A q : Mappings(q)' = Mappings(q)
  BY <1>4, SameWalk DEF IInv
<1>6. TablesKept'
  BY <1>1, <1>2, <1>5 DEF IInv, TablesKept
<1>7. Counts'
  <2>1. \A q \in Page : Pending(q)' = 0 /\ Dropped(q)' = 0 /\ Pending(q) = 0 /\ Dropped(q) = 0
    BY <1>1 DEF Pending, Dropped
  <2> QED
    BY <1>1, <1>5, <2>1 DEF IInv, Counts
<1>8. Owned'
  BY <1>1, <1>3, <1>5 DEF IInv, Owned
<1>9. CallPosition'
  BY <1>1 DEF IInv, CallPosition
<1>10. TlbKnows'
  BY <1>1, <1>4, IdleFacts, AddressFacts DEF TlbKnows
<1>11. OthersTyped' /\ RefCounts'
  BY <1>1, TypesSplit DEF IInv, OthersTyped, RefCounts
<1> QED
  BY <1>5, <1>6, <1>7, <1>8, <1>9, <1>10, <1>11, TypesNext DEF IInv

-----------------------------------------------------------------------------
(* The end of a test *)

\* The tables below boot_pgdir[0] are the only ones there, because the tables are a tree.
LEMMA TheTwoTables ==
    ASSUME TypeOK, NEW p, CanFreeTables(p)
    PROVE  /\ UpperTable \in Page /\ LowerTable \in Page
           /\ IsTable(UpperTable) /\ IsTable(LowerTable)
           /\ \A a \in Adr : a[1] = 0 => Valid(Pdep1(a)) /\ Pdep1(a).page = UpperTable
           /\ \A a \in Adr : a[1] = 0 /\ HasPte(a) => a[2] = 0 /\ Pdep0(a).page = LowerTable
           /\ \E a \in Adr : a[1] = 0 /\ HasPte(a)
<1>1. /\ Valid(mem[Root][0]) /\ Valid(mem[UpperTable][0])
      /\ \A i \in Index \ {0} : ~ Valid(mem[UpperTable][i])
  BY DEF CanFreeTables
<1>2. \A a \in Adr : a[1] = 0 => Pdep1(a) = mem[Root][0] /\ Valid(Pdep1(a)) /\ Pdep1(a).page = UpperTable
  BY <1>1 DEF Pdep1, UpperTable
<1>3. \A a \in Adr : a[1] = 0 /\ a[2] = 0 => HasPte(a) /\ Pdep0(a).page = LowerTable
  BY <1>1, <1>2 DEF Pdep0, HasPte, LowerTable
<1>4. \A a \in Adr : a[1] = 0 /\ HasPte(a) => a[2] = 0
  BY <1>1, <1>2, AddressFacts DEF Pdep0, HasPte
<1>5. PICK z \in Adr : z[1] = 0 /\ z[2] = 0
  <2>1. <<0, 0, 0>> \in Adr /\ <<0, 0, 0>>[1] = 0 /\ <<0, 0, 0>>[2] = 0
    BY PageTableAssumption DEF Adr
  <2> QED
    BY <2>1
<1> QED
  BY <1>2, <1>3, <1>4, <1>5, WalkTypes DEF IsTable

\* Whether they can be freed depends on what is in the tables.
LEMMA SameCanFree ==
    ASSUME mem' = mem
    PROVE  /\ UpperTable' = UpperTable /\ LowerTable' = LowerTable
           /\ \A p : CanFreeTables(p)' <=> CanFreeTables(p)
<1>1. UpperTable' = UpperTable /\ LowerTable' = LowerTable
  BY DEF UpperTable, LowerTable
<1>2. (\A a \in LA : get_page(a)' = get_page(a)) /\ Mapped' = Mapped
  BY SameMem, SameWalk, AddressFacts
<1> QED
  BY <1>1, <1>2 DEF CanFreeTables

\* The two tables are not the page, and nobody holds any of the three.
LEMMA FreeingFacts ==
    ASSUME FreeingInv, op # "flush_tlb"
    PROVE  /\ CanFreeTables(page)
           /\ UpperTable \in Page \ held /\ LowerTable \in Page \ held
           /\ page # NULL => page \in Page \ held /\ ~ IsTable(page) /\ page \in Mapped
           /\ IsTable(UpperTable) /\ IsTable(LowerTable)
<1>1. CanFreeTables(page) /\ TypeOK
  BY DEF FreeingInv, FreeingPosition
<1>2. page # NULL => page \in Mapped /\ page \in Page
  BY <1>1 DEF CanFreeTables, TypeOK
<1> QED
  BY <1>1, <1>2, TheTwoTables DEF FreeingInv, FreeingTables, Owned

\* The test comes to its end with nothing counted twice.
LEMMA FreeTablesInv ==
    ASSUME IInv, NEW p \in Page \union {NULL}, CanFreeTables(p), FreeTables(p)
    PROVE  FreeingInv'
<1>1. /\ op = "idle" /\ page' = p /\ op' \in {"free_p", "free_pd0"} /\ op' \in Freeing
      /\ op' = "free_p" => p # NULL
      /\ UNCHANGED <<free, held, ref, mem, tlb, la, perm, ret>>
  BY DEF FreeTables, Freeing
<1>2. op' = "free_pd0" => p = NULL
  BY DEF FreeTables
<1>3. \A q \in Page : q \notin GivenBack'
  <2>1. FreedTables' = {}
    BY <1>1 DEF FreedTables
  <2> QED
    BY <1>1, <1>2, <2>1, PageTableAssumption DEF GivenBack
<1>4. /\ Tree' /\ (\A q : IsTable(q)' <=> IsTable(q)) /\ Mapped' = Mapped
      /\ \A q : Mappings(q)' = Mappings(q)
  BY <1>1, SameMem, SameWalk DEF IInv
<1>5. /\ \A q \in Page : Pending(q) = 0 /\ Dropped(q) = 0
      /\ \A a \in LA : Valid(tlb[a]) => tlb[a] = get_page(a)
  BY <1>1, IdleFacts
<1>6. TypeOK' /\ Owned'
  BY <1>1, <1>4 DEF IInv, TypeOK, Owned
<1>7. FreeingTables'
  BY <1>1, <1>4 DEF IInv, TablesKept, FreeingTables
<1>8. FreeingCounts'
  <2> SUFFICES ASSUME NEW q \in Page, ~ IsTable(q) PROVE ref[q] = Cardinality(Mappings(q))
    BY <1>1, <1>4 DEF FreeingCounts
  <2>1. ref[q] + 0 = Cardinality(Mappings(q)) + 0
    BY <1>5 DEF IInv, Counts
  <2>2. ref[q] \in Int /\ Cardinality(Mappings(q)) \in Nat
    BY MappingFacts DEF IInv, TypeOK
  <2> QED
    BY <2>1, <2>2
<1>9. FreeingPosition'
  <2>1. CanFreeTables(p)'
    BY <1>1, SameCanFree
  <2> QED
    BY <1>1, <1>3, <2>1 DEF FreeingPosition, CanFreeTables, UpperTable
<1>10. FreeingTlb'
  BY <1>1, <1>5, SameMem, AddressFacts DEF FreeingTlb
<1> QED
  BY <1>1, <1>4, <1>6, <1>7, <1>8, <1>9, <1>10 DEF FreeingInv

\* One of the pages is freed.
LEMMA GiveBack ==
    ASSUME FreeingInv, op # "flush_tlb", NEW q \in Page \ held, free_page(q),
           UNCHANGED <<held, mem, tlb, la, page, perm, ret>>,
           op' \in {"free_pd0", "free_pd1", "clear_pd1"},
           \A p \in Page : p \in GivenBack' <=> p \in GivenBack \/ p = q
    PROVE  FreeingInv'
<1>1. /\ TypeOK /\ Owned /\ free' = free \union {q} /\ ref' = [ref EXCEPT ![q] = 0]
      /\ ref \in [Page -> 0 .. Cardinality(LA) + 1] /\ Cardinality(LA) \in Nat
  BY FS_CardinalityType, PageTableAssumption DEF FreeingInv, free_page, TypeOK
<1>2. /\ Tree' /\ (\A p : IsTable(p)' <=> IsTable(p)) /\ Mapped' = Mapped
      /\ \A p : Mappings(p)' = Mappings(p)
  BY SameMem, SameWalk DEF FreeingInv
<1>3. op' \in Freeing
  BY DEF Freeing
<1>4. ref' \in [Page -> 0 .. Cardinality(LA) + 1]
  BY <1>1
<1>5. TypeOK'
  BY <1>1, <1>3, <1>4 DEF TypeOK
<1>6. Owned'
  BY <1>1, <1>2 DEF Owned
<1>7. FreeingTables' /\ FreeingCounts'
  BY <1>1, <1>2 DEF FreeingInv, FreeingTables, FreeingCounts
<1>8. FreeingPosition'
  <2>1. CanFreeTables(page)'
    BY SameCanFree DEF FreeingInv, FreeingPosition, CanFreeTables
  <2>2. \A p \in Page : p \in GivenBack' => p \in free'
    BY <1>1 DEF FreeingInv, FreeingPosition
  <2> QED
    BY <2>1, <2>2 DEF FreeingPosition
<1>9. FreeingTlb'
  BY SameMem, AddressFacts DEF FreeingInv, FreeingTlb
<1> QED
  BY <1>2, <1>3, <1>5, <1>6, <1>7, <1>8, <1>9 DEF FreeingInv

LEMMA GiveBackInv ==
    ASSUME FreeingInv, FreeMapped \/ FreeLower \/ FreeUpper
    PROVE  FreeingInv'
<1>1. CASE FreeMapped
  <2>1. /\ op = "free_p" /\ op' = "free_pd0" /\ free_page(page)
        /\ UNCHANGED <<held, mem, tlb, la, page, perm, ret>>
    BY <1>1 DEF FreeMapped, args
  <2>2. page \in Page \ held
    BY <2>1, FreeingFacts DEF FreeingInv, FreeingPosition
  <2>3. GivenBack = {} /\ GivenBack' = {page}
    BY <2>1 DEF GivenBack, FreedTables
  <2> QED
    BY <2>1, <2>2, <2>3, GiveBack
<1>2. CASE FreeLower
  <2>1. /\ op = "free_pd0" /\ op' = "free_pd1" /\ free_page(LowerTable)
        /\ UNCHANGED <<held, mem, tlb, la, page, perm, ret>>
    BY <1>2 DEF FreeLower, args
  <2>2. LowerTable \in Page \ held /\ LowerTable' = LowerTable
    BY <2>1, FreeingFacts, SameCanFree
  <2>3. GivenBack = {page} /\ GivenBack' = {page} \union {LowerTable}
    BY <2>1, <2>2 DEF GivenBack, FreedTables
  <2> QED
    BY <2>1, <2>2, <2>3, GiveBack
<1>3. CASE FreeUpper
  <2>1. /\ op = "free_pd1" /\ op' = "clear_pd1" /\ free_page(UpperTable)
        /\ UNCHANGED <<held, mem, tlb, la, page, perm, ret>>
    BY <1>3 DEF FreeUpper, args
  <2>2. UpperTable \in Page \ held /\ LowerTable' = LowerTable /\ UpperTable' = UpperTable
    BY <2>1, FreeingFacts, SameCanFree
  <2>3. GivenBack = {page, LowerTable} /\ GivenBack' = {page, LowerTable, UpperTable}
    BY <2>1, <2>2 DEF GivenBack, FreedTables
  <2> QED
    BY <2>1, <2>2, <2>3, GiveBack
<1> QED
  BY <1>1, <1>2, <1>3

\* Clearing the root takes away the two tables, the page's mappings, and nothing else.
LEMMA ClearRootInv ==
    ASSUME FreeingInv, ClearRoot
    PROVE  FreeingInv'
<1> DEFINE t1 == UpperTable
           t0 == LowerTable
<1>1. /\ op = "clear_pd1" /\ op' = "flush_tlb" /\ mem' = [mem EXCEPT ![Root][0] = NULL]
      /\ UNCHANGED <<free, held, ref, tlb, la, page, perm, ret>> /\ TypeOK /\ Tree /\ Owned
  BY DEF ClearRoot, args, FreeingInv
<1>2. /\ CanFreeTables(page) /\ t1 \in Page /\ t0 \in Page /\ IsTable(t1) /\ IsTable(t0)
      /\ page # NULL => page \in Page /\ ~ IsTable(page)
  BY <1>1, FreeingFacts
<1>3. /\ \A a \in Adr : a[1] = 0 => Valid(Pdep1(a)) /\ Pdep1(a).page = t1
      /\ \A a \in Adr : a[1] = 0 /\ HasPte(a) => Pdep0(a).page = t0
      /\ \E a \in Adr : a[1] = 0 /\ HasPte(a)
  BY <1>1, <1>2, TheTwoTables
<1>4. \A a \in LA : Valid(get_page(a)) => (a[1] = 0 <=> get_page(a).page = page)
  BY <1>2 DEF CanFreeTables
<1>5. \A p \in Page : p \in {page, t0, t1} => p \in free /\ ref[p] = 0
  <2>1. GivenBack = {page, t0, t1}
    BY <1>1 DEF GivenBack, FreedTables
  <2> QED
    BY <1>1, <2>1 DEF FreeingInv, FreeingPosition, Owned
<1> HIDE DEF t1, t0
<1>6. /\ mem' \in [Page \union {Root} -> [Index -> Entry]]
      /\ \A a \in Adr :
           /\ Pdep1(a)' = IF a[1] = 0 THEN NULL ELSE Pdep1(a)
           /\ Pdep0(a)' = IF a[1] = 0 THEN NULL ELSE Pdep0(a)
           /\ get_page(a)' = IF a[1] = 0 THEN NULL ELSE get_page(a)
  BY <1>1, FreeTablesEffect
<1>7. \A a \in Adr : HasPte(a)' <=> HasPte(a) /\ a[1] # 0
  BY <1>6, EntryFacts DEF HasPte
<1>8. Tree'
  BY <1>1, <1>6, <1>7, EntryFacts DEF Tree
<1>9. \A p \in Page : IsTable(p)' <=> IsTable(p) /\ p # t0 /\ p # t1
  <2> SUFFICES ASSUME NEW p \in Page PROVE IsTable(p)' <=> IsTable(p) /\ p # t0 /\ p # t1
    OBVIOUS
  <2>1. ASSUME IsTable(p)' PROVE IsTable(p) /\ p # t0 /\ p # t1
    <3>1. PICK a \in Adr : \/ Valid(Pdep1(a))' /\ p = Pdep1(a)'.page
                           \/ HasPte(a)' /\ p = Pdep0(a)'.page
      BY <2>1 DEF IsTable
    <3>2. /\ a[1] # 0
          /\ \/ Valid(Pdep1(a)) /\ p = Pdep1(a).page
             \/ HasPte(a) /\ p = Pdep0(a).page
      BY <1>6, <1>7, <3>1, EntryFacts
    <3>3. PICK z \in Adr : z[1] = 0 /\ HasPte(z)
      BY <1>3
    <3>4. Valid(Pdep1(z)) /\ Pdep1(z).page = t1 /\ Pdep0(z).page = t0
      BY <1>3, <3>3
    <3>5. p # t0 /\ p # t1
      BY <1>1, <3>2, <3>3, <3>4 DEF Tree
    <3> QED
      BY <3>2, <3>5 DEF IsTable
  <2>2. ASSUME IsTable(p), p # t0, p # t1 PROVE IsTable(p)'
    <3>1. PICK a \in Adr : \/ Valid(Pdep1(a)) /\ p = Pdep1(a).page
                           \/ HasPte(a) /\ p = Pdep0(a).page
      BY <2>2 DEF IsTable
    <3>2. a[1] # 0
      BY <1>3, <2>2, <3>1
    <3>3. \/ Valid(Pdep1(a))' /\ p = Pdep1(a)'.page
          \/ HasPte(a)' /\ p = Pdep0(a)'.page
      BY <1>6, <1>7, <3>1, <3>2
    <3> QED
      BY <3>3 DEF IsTable
  <2> QED
    BY <2>1, <2>2
<1>10. \A p \in Page : Mappings(p)' = IF p = page THEN {} ELSE Mappings(p)
  <2> SUFFICES ASSUME NEW p \in Page PROVE Mappings(p)' = IF p = page THEN {} ELSE Mappings(p)
    OBVIOUS
  <2>1. \A a \in LA : a \in Mappings(p)' <=> a[1] # 0 /\ a \in Mappings(p)
    BY <1>6, AddressFacts, EntryFacts DEF Mappings
  <2>2. \A a \in Mappings(p) : a[1] = 0 <=> p = page
    BY <1>4 DEF Mappings
  <2>3. Mappings(p)' \subseteq LA /\ Mappings(p) \subseteq LA
    BY DEF Mappings
  <2>4. CASE p = page
    BY <2>1, <2>2, <2>3, <2>4
  <2>5. CASE p # page
    <3>1. \A a \in LA : a \in Mappings(p)' <=> a \in Mappings(p)
      BY <2>1, <2>2, <2>5
    <3>2. Mappings(p)' = Mappings(p)
      BY <2>3, <3>1
    <3> QED
      BY <2>5, <3>2
  <2> QED
    BY <2>4, <2>5
<1>11. \A p \in Mapped' : p \in Mapped /\ p # page
  BY <1>4, <1>6, AddressFacts, EntryFacts DEF Mapped
<1>12. GivenBack = {page, t0, t1} /\ GivenBack' = {}
  BY <1>1 DEF GivenBack, FreedTables, t0, t1
<1>13. FreeingTables'
  <2>1. \A p \in Page : IsTable(p) => p # page
    BY <1>2, PageTableAssumption
  <2>2. \A p \in Page : IsTable(p)' => IsTable(p) /\ p \notin GivenBack
    BY <1>9, <1>12, <2>1
  <2> QED
    BY <1>1, <1>11, <2>2 DEF FreeingInv, FreeingTables
<1>14. FreeingCounts'
  <2> SUFFICES ASSUME NEW p \in Page, ~ IsTable(p)' PROVE ref[p] = Cardinality(Mappings(p)')
    BY <1>1 DEF FreeingCounts
  <2>1. Cardinality({}) = 0
    BY FS_EmptySet
  <2>2. CASE p = page
    BY <1>5, <1>10, <2>1, <2>2
  <2>3. CASE p \in {t0, t1}
    <3>1. p # page /\ p \notin Mapped
      BY <1>2, <2>3, PageTableAssumption DEF FreeingInv, FreeingTables
    <3>2. Mappings(p) = {}
      BY <3>1 DEF Mapped, Mappings
    <3> QED
      BY <1>5, <1>10, <2>1, <2>3, <3>1, <3>2
  <2>4. CASE p \notin {page, t0, t1}
    BY <1>9, <1>10, <1>12, <2>4 DEF FreeingInv, FreeingCounts
  <2> QED
    BY <2>2, <2>3, <2>4
<1>15. Owned'
  BY <1>1, <1>11 DEF Owned
<1>16. FreeingPosition'
  BY <1>1, <1>12 DEF FreeingPosition
<1>17. FreeingTlb'
  <2> SUFFICES ASSUME NEW a \in LA, Valid(tlb[a])
               PROVE  \/ tlb[a] = get_page(a)'
                      \/ a[1] = 0 /\ tlb[a].page = page
    BY <1>1 DEF FreeingTlb
  <2>1. tlb[a] = get_page(a)
    BY <1>1 DEF FreeingInv, FreeingTlb
  <2>2. CASE a[1] = 0
    <3>1. get_page(a).page = page
      BY <1>4, <2>1, <2>2
    <3> QED
      BY <2>1, <2>2, <3>1
  <2>3. CASE a[1] # 0
    <3>1. get_page(a)' = get_page(a)
      BY <1>6, <2>3, AddressFacts
    <3> QED
      BY <2>1, <3>1
  <2> QED
    BY <2>2, <2>3
<1>18. TypeOK' /\ op' \in Freeing
  BY <1>1, <1>6 DEF TypeOK, Freeing
<1> QED
  BY <1>8, <1>13, <1>14, <1>15, <1>16, <1>17, <1>18 DEF FreeingInv

\* After the flush nothing is left of the call.
LEMMA FlushAllInv ==
    ASSUME FreeingInv, FlushAll
    PROVE  IInv' /\ op' = "idle"
<1>1. /\ op = "flush_tlb" /\ op' = "idle" /\ tlb' = [a \in LA |-> NULL]
      /\ la' = NULL /\ page' = NULL /\ perm' = NULL /\ ret' = ret
      /\ UNCHANGED <<free, held, ref, mem>> /\ TypeOK
  BY DEF FlushAll, FlushedTlb, Return, FreeingInv
<1>2. /\ Tree' /\ (\A p : IsTable(p)' <=> IsTable(p)) /\ Mapped' = Mapped
      /\ \A p : Mappings(p)' = Mappings(p)
  BY <1>1, SameMem, SameWalk DEF FreeingInv
<1>3. GivenBack = {}
  BY <1>1 DEF GivenBack
<1>4. TablesKept' /\ Owned'
  BY <1>1, <1>2, <1>3 DEF FreeingInv, FreeingTables, TablesKept, Owned
<1>5. Counts'
  <2> SUFFICES ASSUME NEW p \in Page, ~ IsTable(p)
               PROVE  ref[p] + Dropped(p)' = Cardinality(Mappings(p)) + Pending(p)'
    BY <1>1, <1>2 DEF Counts
  <2>1. Dropped(p)' = 0 /\ Pending(p)' = 0
    BY <1>1 DEF Dropped, Pending
  <2>2. ref[p] = Cardinality(Mappings(p)) /\ Cardinality(Mappings(p)) \in Nat
    BY <1>3, MappingFacts DEF FreeingInv, FreeingCounts
  <2> QED
    BY <2>1, <2>2
<1>6. CallPosition'
  BY <1>1 DEF CallPosition
<1>7. TlbKnows'
  BY <1>1, EntryFacts DEF TlbKnows
<1>8. TypeOK'
  BY <1>1, EntryFacts DEF TypeOK
<1> QED
  BY <1>1, <1>2, <1>4, <1>5, <1>6, <1>7, <1>8 DEF IInv

\* The hardware reads the tables at such a moment too.
LEMMA FreeingTlbFill ==
    ASSUME FreeingInv, UNCHANGED <<free, held, ref, mem, op, la, page, perm, ret>>,
           \/ UNCHANGED tlb
           \/ \E a \in LA : Valid(get_page(a)) /\ tlb' = [tlb EXCEPT ![a] = get_page(a)]
    PROVE  FreeingInv'
<1>1. TypeOK /\ tlb \in [LA -> Entry] /\ \A a \in LA : a \in Adr /\ get_page(a) \in Entry
  BY WalkTypes, AddressFacts DEF FreeingInv, TypeOK
<1>2. tlb' \in [LA -> Entry] /\ \A b \in LA : tlb'[b] = tlb[b] \/ tlb'[b] = get_page(b)
  BY <1>1
<1>3. /\ Tree' /\ (\A p : IsTable(p)' <=> IsTable(p)) /\ Mapped' = Mapped
      /\ \A p : Mappings(p)' = Mappings(p)
      /\ \A a \in LA : get_page(a)' = get_page(a)
  BY <1>1, SameMem, SameWalk DEF FreeingInv
<1>4. GivenBack' = GivenBack
  BY SameCanFree DEF GivenBack, FreedTables
<1>5. TypeOK' /\ Owned' /\ FreeingTables' /\ FreeingCounts'
  BY <1>1, <1>2, <1>3, <1>4 DEF FreeingInv, TypeOK, Owned, FreeingTables, FreeingCounts
<1>6. FreeingPosition'
  <2>1. CanFreeTables(page)' <=> CanFreeTables(page)
    BY SameCanFree DEF CanFreeTables
  <2> QED
    BY <1>4, <2>1 DEF FreeingInv, FreeingPosition
<1>7. FreeingTlb'
  BY <1>2, <1>3 DEF FreeingInv, FreeingTlb
<1> QED
  BY <1>3, <1>5, <1>6, <1>7 DEF FreeingInv

-----------------------------------------------------------------------------
(* The invariant *)

LEMMA InitInv == Init => IInv
<1> SUFFICES ASSUME Init PROVE IInv
  OBVIOUS
<1>1. /\ free = Page /\ held = {} /\ ref = [p \in Page |-> 0] /\ op = "idle"
      /\ la = NULL /\ page = NULL /\ perm = NULL /\ ret = 0 /\ tlb = [a \in LA |-> NULL]
      /\ mem \in [Page \union {Root} -> [Index -> Entry]] /\ mem[Root] = Zero
  BY EntryFacts DEF Init, Zero, Data
<1>2. \A a \in Adr : Pdep1(a) = NULL /\ Pdep0(a) = NULL /\ get_page(a) = NULL /\ ~ HasPte(a)
  BY <1>1, AddressFacts, EntryFacts DEF Zero, Pdep1, Pdep0, get_page, HasPte, Valid
<1>3. Tree /\ \A p : ~ IsTable(p)
  BY <1>2, EntryFacts DEF Tree, IsTable
<1>4. Mapped = {} /\ \A p : Mappings(p) = {}
  BY <1>2, EntryFacts, AddressFacts DEF Mapped, Mappings
<1>5. TablesKept
  BY <1>3 DEF TablesKept
<1>6. Counts
  BY <1>1, <1>4, FS_EmptySet DEF Counts, Pending, Dropped
<1>7. Owned
  BY <1>1 DEF Owned
<1>8. CallPosition
  BY <1>1 DEF CallPosition
<1>9. TlbKnows
  BY <1>1, EntryFacts DEF TlbKnows
<1>10. OthersTyped /\ RefCounts
  BY <1>1, EntryFacts DEF OthersTyped, RefCounts
<1> QED
  BY <1>3, <1>5, <1>6, <1>7, <1>8, <1>9, <1>10, TypesSplit DEF IInv

\* page_insert and page_remove, their callers and the hardware do not come near it.
LEMMA OtherSteps ==
    ASSUME [Next]_vars, op \notin Freeing,
           \A p \in Page \union {NULL} : ~ (CanFreeTables(p) /\ FreeTables(p))
    PROVE  op' \notin Freeing
<1>1. ~ FreeTablesStep
  BY DEF FreeTablesStep, FreeMapped, FreeLower, FreeUpper, ClearRoot, FlushAll, Freeing
<1>2. op' = op \/ op' \in {"idle", "pdep1", "pdep0", "found", "remove", "clear", "invalidate", "set",
                           "flush", "done"}
  BY <1>1 DEF Next, page_insert, get_pte1, get_pte0, get_pte_level, InsertFound, InsertSet, AfterSet,
              InsertFlush, InsertDone, page_remove, RemoveUnref, RemoveClear, RemoveFlush, AllocPage,
              FreePage, TlbFill, Return, vars
<1> QED
  BY <1>2 DEF Freeing

LEMMA OtherStepsInv ==
    ASSUME IInv, [Next]_vars, ~ FreeTablesStep,
           \A p \in Page \union {NULL} : ~ (CanFreeTables(p) /\ FreeTables(p))
    PROVE  IInv'
<1>1. ASSUME NEW p \in Page, NEW a \in LA, NEW x \in Perm, page_insert(p, a, x) PROVE IInv'
  BY <1>1, CallInv
<1>2. CASE get_pte1 \/ get_pte0
  BY <1>2, get_pte1Inv, get_pte0Inv
<1>3. CASE InsertFound \/ InsertSet \/ InsertFlush \/ InsertDone
  BY <1>3, InsertFoundInv, InsertSetInv, InsertFlushInv, InsertDoneInv
<1>4. ASSUME NEW a \in LA, page_remove(a) PROVE IInv'
  BY <1>4, page_removeInv
<1>5. CASE RemoveUnref \/ RemoveClear \/ RemoveFlush
  BY <1>5, RemoveUnrefInv, RemoveClearInv, RemoveFlushInv
<1>6. ASSUME NEW p \in Page, AllocPage(p) \/ FreePage(p) PROVE IInv'
  BY <1>6, AllocPageInv, FreePageInv
<1>7. ASSUME NEW a \in LA, TlbFill(a) PROVE IInv'
  BY <1>7, TlbFillInv
<1>8. CASE UNCHANGED vars
  <2>1. UNCHANGED <<free, held, ref, mem, tlb, op, la, page, perm, ret>>
    BY <1>8 DEF vars, args
  <2>2. \A q \in Page : Pending(q)' = Pending(q) /\ Dropped(q)' = Dropped(q)
    BY <2>1 DEF Pending, Dropped, get_page, HasPte, PteOf, Pdep0, Pdep1
  <2>3. CallPosition'
    BY <2>1, SameMem, SameWalk, AddressFacts DEF IInv, CallPosition
  <2>4. TlbKnows'
    BY <2>1, SameMem, AddressFacts DEF IInv, TlbKnows
  <2>5. OthersTyped'
    BY <2>1, TypesSplit DEF IInv, OthersTyped
  <2> QED
    BY <2>1, <2>2, <2>3, <2>4, <2>5, CallMoves
<1> QED
  BY <1>1, <1>2, <1>3, <1>4, <1>5, <1>6, <1>7, <1>8 DEF Next

\* While the tables are being freed, no other call is in progress or begins.
LEMMA FreeingSteps ==
    ASSUME [Next]_vars, op \in Freeing
    PROVE  \/ FreeTablesStep
           \/ /\ UNCHANGED <<free, held, ref, mem, op, la, page, perm, ret>>
              /\ \/ UNCHANGED tlb
                 \/ \E a \in LA : Valid(get_page(a)) /\ tlb' = [tlb EXCEPT ![a] = get_page(a)]
<1>1. op \notin {"idle", "pdep1", "pdep0", "found", "remove", "clear", "invalidate", "set",
                 "flush", "done"}
  BY DEF Freeing
<1>2. FreeTablesStep \/ (\E a \in LA : TlbFill(a)) \/ UNCHANGED vars
  BY <1>1 DEF Next, page_insert, get_pte1, get_pte0, InsertFound, InsertSet, InsertFlush, InsertDone,
              page_remove, RemoveUnref, RemoveClear, RemoveFlush, AllocPage, FreePage, FreeTables
<1> QED
  BY <1>2 DEF TlbFill, vars, args

LEMMA NextInv == Inv /\ [Next]_vars => Inv'
<1> SUFFICES ASSUME Inv, [Next]_vars PROVE Inv'
  OBVIOUS
<1>1. CASE op \in Freeing
  <2>1. FreeingInv
    BY <1>1 DEF Inv
  <2>2. CASE FreeMapped \/ FreeLower \/ FreeUpper
    BY <2>1, <2>2, GiveBackInv DEF Inv, FreeingInv
  <2>3. CASE ClearRoot
    BY <2>1, <2>3, ClearRootInv DEF Inv, FreeingInv
  <2>4. CASE FlushAll
    BY <2>1, <2>4, FlushAllInv DEF Inv, Freeing
  <2>5. CASE ~ FreeTablesStep
    <3>1. FreeingInv'
      BY <1>1, <2>1, <2>5, FreeingSteps, FreeingTlbFill
    <3> QED
      BY <3>1 DEF Inv, FreeingInv
  <2> QED
    BY <2>2, <2>3, <2>4, <2>5 DEF FreeTablesStep
<1>2. CASE op \notin Freeing
  <2>1. IInv
    BY <1>2 DEF Inv
  <2>2. ASSUME NEW p \in Page \union {NULL}, CanFreeTables(p), FreeTables(p) PROVE Inv'
    BY <2>1, <2>2, FreeTablesInv DEF Inv, FreeingInv
  <2>3. ASSUME \A p \in Page \union {NULL} : ~ (CanFreeTables(p) /\ FreeTables(p)) PROVE Inv'
    <3>1. ~ FreeTablesStep
      BY <1>2 DEF FreeTablesStep, FreeMapped, FreeLower, FreeUpper, ClearRoot, FlushAll, Freeing
    <3>2. IInv'
      BY <2>1, <2>3, <3>1, OtherStepsInv
    <3>3. op' \notin Freeing
      BY <1>2, <2>3, OtherSteps
    <3> QED
      BY <3>2, <3>3 DEF Inv
  <2> QED
    BY <2>2, <2>3
<1> QED
  BY <1>1, <1>2

LEMMA Invariance == Spec => []Inv
<1>1. Init => Inv
  BY InitInv DEF Inv, Init, Freeing
<1> QED
  BY <1>1, NextInv, PTL DEF Spec

-----------------------------------------------------------------------------
(* What follows *)

\* The entries that refer to tables are those that walks pass through.
LEMMA EntriesSeen ==
    ASSUME TypeOK
    PROVE  /\ \A e \in Tables1 :
                /\ e[1] = Root /\ e[2] \in Index /\ e = <<e[1], e[2]>>
                /\ \E a \in Adr : Valid(Pdep1(a)) /\ Pdep1(a) = mem[e[1]][e[2]] /\ a[1] = e[2]
           /\ \A a \in Adr : Valid(Pdep1(a)) => <<Root, a[1]>> \in Tables1
           /\ \A e \in Tables0 :
                /\ e[1] \in Page /\ e[2] \in Index /\ e = <<e[1], e[2]>>
                /\ \E a \in Adr : /\ HasPte(a) /\ Pdep0(a) = mem[e[1]][e[2]]
                                  /\ Pdep1(a).page = e[1] /\ a[2] = e[2]
           /\ \A a \in Adr : HasPte(a) => <<Pdep1(a).page, a[2]>> \in Tables0
<1>1. \A e : e \in Tables1 <=> \E i \in Index : Valid(mem[Root][i]) /\ e = <<Root, i>>
  BY DEF Tables1
<1>2. \A i \in Index : <<i, 0, 0>> \in Adr /\ <<i, 0, 0>>[1] = i /\ Pdep1(<<i, 0, 0>>) = mem[Root][i]
  BY PageTableAssumption, AddressFacts DEF Pdep1
<1>3. ASSUME NEW e \in Tables1
      PROVE  /\ e[1] = Root /\ e[2] \in Index /\ e = <<e[1], e[2]>>
             /\ \E a \in Adr : Valid(Pdep1(a)) /\ Pdep1(a) = mem[e[1]][e[2]] /\ a[1] = e[2]
  <2>1. PICK i \in Index : Valid(mem[Root][i]) /\ e = <<Root, i>>
    BY <1>1
  <2>2. e[1] = Root /\ e[2] = i
    BY <2>1
  <2> QED
    BY <1>2, <2>1, <2>2
<1>4. ASSUME NEW a \in Adr, Valid(Pdep1(a)) PROVE <<Root, a[1]>> \in Tables1
  BY <1>1, <1>4, AddressFacts DEF Pdep1
<1>5. \A p : p \in Table1Pages <=> \E e \in Tables1 : p = mem[e[1]][e[2]].page
  BY DEF Table1Pages
<1>6. ASSUME NEW e \in Tables0
      PROVE  /\ e[1] \in Page /\ e[2] \in Index /\ e = <<e[1], e[2]>>
             /\ \E a \in Adr : /\ HasPte(a) /\ Pdep0(a) = mem[e[1]][e[2]]
                               /\ Pdep1(a).page = e[1] /\ a[2] = e[2]
  <2>1. e \in Table1Pages \X Index /\ Valid(mem[e[1]][e[2]])
    BY DEF Tables0
  <2>2. e[1] \in Table1Pages /\ e[2] \in Index /\ e = <<e[1], e[2]>>
    BY <2>1
  <2>3. PICK b \in Adr : Valid(Pdep1(b)) /\ e[1] = Pdep1(b).page
    BY <1>3, <1>5, <2>2
  <2> DEFINE a == <<b[1], e[2], b[3]>>
  <2>4. a \in Adr /\ a[1] = b[1] /\ a[2] = e[2]
    BY <2>2, AddressFacts
  <2> HIDE DEF a
  <2>5. Pdep1(a) = Pdep1(b)
    BY <2>4 DEF Pdep1
  <2>6. Pdep0(a) = mem[e[1]][e[2]]
    BY <2>3, <2>4, <2>5 DEF Pdep0
  <2>7. HasPte(a) /\ Pdep1(a).page = e[1]
    BY <2>1, <2>3, <2>5, <2>6 DEF HasPte
  <2>8. e[1] \in Page
    BY <2>3, WalkTypes
  <2> QED
    BY <2>2, <2>4, <2>6, <2>7, <2>8
<1>7. ASSUME NEW a \in Adr, HasPte(a) PROVE <<Pdep1(a).page, a[2]>> \in Tables0
  <2> DEFINE t == Pdep1(a).page
  <2>1. Valid(Pdep1(a)) /\ Pdep0(a) = mem[t][a[2]] /\ Valid(Pdep0(a)) /\ a[2] \in Index
    BY <1>7, WalkTypes, AddressFacts DEF Pdep0, HasPte
  <2>2. t \in Table1Pages
    <3>1. <<Root, a[1]>> \in Tables1 /\ t = mem[<<Root, a[1]>>[1]][<<Root, a[1]>>[2]].page
      BY <1>4, <2>1 DEF Pdep1
    <3> QED
      BY <1>5, <3>1
  <2> HIDE DEF t
  <2>3. <<t, a[2]>> \in Table1Pages \X Index /\ <<t, a[2]>>[1] = t /\ <<t, a[2]>>[2] = a[2]
    BY <2>1, <2>2
  <2>4. <<t, a[2]>> \in Tables0
    BY <2>1, <2>3 DEF Tables0
  <2> QED
    BY <2>4 DEF t
<1> QED
  BY <1>3, <1>4, <1>6, <1>7

\* TablePages are the tables of the invariant.
LEMMA TablesSeen ==
    ASSUME TypeOK
    PROVE  /\ \A p : p \in TablePages <=> \E e \in Tables1 \union Tables0 : p = mem[e[1]][e[2]].page
           /\ \A p : p \in TablePages <=> IsTable(p)
<1>1. \A p : p \in TablePages <=> \E e \in Tables1 \union Tables0 : p = mem[e[1]][e[2]].page
  BY DEF TablePages, Table1Pages
<1>2. ASSUME NEW p, p \in TablePages PROVE IsTable(p)
  <2>1. PICK e \in Tables1 \union Tables0 : p = mem[e[1]][e[2]].page
    BY <1>1, <1>2
  <2> QED
    BY <2>1, EntriesSeen DEF IsTable
<1>3. ASSUME NEW a \in Adr, Valid(Pdep1(a)) PROVE Pdep1(a).page \in TablePages
  <2>1. <<Root, a[1]>> \in Tables1
    BY <1>3, EntriesSeen
  <2>2. Pdep1(a).page = mem[<<Root, a[1]>>[1]][<<Root, a[1]>>[2]].page
    BY DEF Pdep1
  <2> QED
    BY <1>1, <2>1, <2>2
<1>4. ASSUME NEW a \in Adr, HasPte(a) PROVE Pdep0(a).page \in TablePages
  <2> DEFINE e == <<Pdep1(a).page, a[2]>>
  <2>1. e \in Tables0
    BY <1>4, EntriesSeen
  <2>2. Pdep0(a).page = mem[e[1]][e[2]].page
    BY <1>4, WalkTypes DEF Pdep0
  <2> QED
    BY <1>1, <2>1, <2>2
<1> QED
  BY <1>1, <1>2, <1>3, <1>4 DEF IsTable

\* No two entries refer to the same table.
LEMMA EntriesApart ==
    ASSUME TypeOK, Tree,
           NEW e \in Tables1 \union Tables0, NEW f \in Tables1 \union Tables0,
           mem[e[1]][e[2]].page = mem[f[1]][f[2]].page
    PROVE  e = f
<1>1. CASE e \in Tables1 /\ f \in Tables1
  <2>1. PICK a \in Adr : Valid(Pdep1(a)) /\ Pdep1(a) = mem[e[1]][e[2]] /\ a[1] = e[2]
    BY <1>1, EntriesSeen
  <2>2. PICK b \in Adr : Valid(Pdep1(b)) /\ Pdep1(b) = mem[f[1]][f[2]] /\ b[1] = f[2]
    BY <1>1, EntriesSeen
  <2>3. e[2] = f[2]
    BY <2>1, <2>2 DEF Tree
  <2>4. e = <<Root, e[2]>> /\ f = <<Root, f[2]>>
    BY <1>1, EntriesSeen
  <2> QED
    BY <2>3, <2>4
<1>2. CASE e \in Tables0 /\ f \in Tables0
  <2>1. PICK a \in Adr : /\ HasPte(a) /\ Pdep0(a) = mem[e[1]][e[2]]
                         /\ Pdep1(a).page = e[1] /\ a[2] = e[2]
    BY <1>2, EntriesSeen
  <2>2. PICK b \in Adr : /\ HasPte(b) /\ Pdep0(b) = mem[f[1]][f[2]]
                         /\ Pdep1(b).page = f[1] /\ b[2] = f[2]
    BY <1>2, EntriesSeen
  <2>3. a[1] = b[1] /\ a[2] = b[2]
    BY <2>1, <2>2 DEF Tree
  <2>4. e[1] = f[1] /\ e[2] = f[2]
    BY <2>1, <2>2, <2>3 DEF Pdep1
  <2> QED
    BY <1>2, <2>4, EntriesSeen
<1>3. ~ (e \in Tables1 /\ f \in Tables0) /\ ~ (f \in Tables1 /\ e \in Tables0)
  BY EntriesSeen DEF Tree
<1> QED
  BY <1>1, <1>2, <1>3

LEMMA TablesCounted ==
    ASSUME TypeOK, Tree
    PROVE  Cardinality(TablePages) = Cardinality(Tables1 \union Tables0)
<1> DEFINE S == Tables1 \union Tables0
           f == [e \in S |-> mem[e[1]][e[2]].page]
<1>1. \A p : p \in TablePages <=> \E e \in S : p = mem[e[1]][e[2]].page
  BY TablesSeen
<1>2. \A e, g \in S : mem[e[1]][e[2]].page = mem[g[1]][g[2]].page => e = g
  BY EntriesApart
<1>3. IsFiniteSet(TablePages)
  <2>1. TablePages \subseteq Page
    BY TablesSeen, WalkTypes DEF IsTable
  <2> QED
    BY <2>1, FS_Subset, PageTableAssumption
<1> HIDE DEF S
<1>4. f \in [S -> TablePages] /\ (\A e \in S : f[e] = mem[e[1]][e[2]].page)
  BY <1>1
<1> HIDE DEF f
<1>5. f \in Injection(S, TablePages) /\ f \in Surjection(S, TablePages)
  BY <1>1, <1>2, <1>4 DEF Injection, Surjection, IsInjective
<1> QED
  BY <1>3, <1>5, FS_Injection DEF S

\* get_pte links every table it allocates to one entry, and nothing maps or frees one
\* but the end of a test, which frees the two below boot_pgdir[0] and empties that.
THEOREM TablesAreATree == Spec => []TablesAreTree
<1>1. ASSUME TypeOK, Tree
      PROVE  /\ \A t \in TablePages : t \in Page /\ IsTable(t)
             /\ \A t : IsTable(t) => t \in TablePages
             /\ Cardinality(TablePages) = Cardinality(Tables1 \union Tables0)
  BY <1>1, TablesSeen, TablesCounted, WalkTypes DEF IsTable
<1>2. IInv /\ op \notin Freeing => TablesAreTree
  <2> SUFFICES ASSUME IInv, op \notin Freeing PROVE TablesAreTree
    OBVIOUS
  <2>1. TypeOK /\ Tree /\ TablesKept
    BY DEF IInv
  <2>2. FreedTables = {}
    BY DEF FreedTables, Freeing
  <2>3. \A t \in TablePages : ref[t] = 1 /\ t \notin free \union held \union Mapped
    BY <1>1, <2>1 DEF TablesKept
  <2> QED
    BY <1>1, <2>1, <2>2, <2>3 DEF TablesAreTree
<1>3. FreeingInv => TablesAreTree
  <2> SUFFICES ASSUME FreeingInv PROVE TablesAreTree
    OBVIOUS
  <2>1. TypeOK /\ Tree /\ Owned /\ FreeingTables
    BY DEF FreeingInv
  <2>2. \A t \in TablePages : t \in Page /\ t \notin held \union Mapped
    BY <1>1, <2>1 DEF FreeingTables
  <2>3. \A t \in TablePages : t \in GivenBack <=> t \in FreedTables
    <3>1. CASE op \in {"free_pd0", "free_pd1", "clear_pd1"}
      <4>1. GivenBack = {page} \union FreedTables /\ op # "flush_tlb"
        BY <3>1 DEF GivenBack
      <4>2. \A t \in TablePages : t # page
        BY <1>1, <2>1, <4>1, FreeingFacts, PageTableAssumption
      <4> QED
        BY <4>1, <4>2
    <3>2. CASE op \notin {"free_pd0", "free_pd1", "clear_pd1"}
      BY <3>2 DEF GivenBack, FreedTables
    <3> QED
      BY <3>1, <3>2
  <2>4. \A t \in TablePages : t \in FreedTables => ref[t] = 0 /\ t \in free
    BY <2>1, <2>2, <2>3 DEF FreeingInv, FreeingPosition, Owned
  <2>5. \A t \in TablePages : t \notin FreedTables => ref[t] = 1 /\ t \notin free
    BY <1>1, <2>1, <2>2, <2>3 DEF FreeingTables
  <2>6. FreedTables \subseteq TablePages
    <3>1. CASE op \in {"free_pd1", "clear_pd1"}
      <4>1. LowerTable \in TablePages /\ UpperTable \in TablePages
        BY <1>1, <2>1, <3>1, FreeingFacts
      <4> QED
        BY <3>1, <4>1 DEF FreedTables
    <3>2. CASE op \notin {"free_pd1", "clear_pd1"}
      BY <3>2 DEF FreedTables
    <3> QED
      BY <3>1, <3>2
  <2>7. TablePages \intersect free = FreedTables
    BY <2>4, <2>5, <2>6
  <2> QED
    BY <1>1, <2>1, <2>2, <2>4, <2>5, <2>7 DEF TablesAreTree
<1>4. Inv => TablesAreTree
  BY <1>2, <1>3 DEF Inv
<1> QED
  BY <1>4, Invariance, PTL

\* Between calls page->ref counts the addresses that a page is mapped at, and no page
\* is lost, whichever way page_insert and page_remove have returned.
THEOREM RefsAreMappings == Spec => []RefsCountMappings
<1>1. Inv => RefsCountMappings
  <2> SUFFICES ASSUME IInv, op = "idle" PROVE RefsCountMappings
    BY DEF RefsCountMappings, Inv, Freeing
  <2>1. /\ TypeOK /\ Counts /\ Owned
        /\ \A p \in Page : Pending(p) = 0 /\ Dropped(p) = 0
        /\ Mapped \intersect (free \union held) = {}
    BY IdleFacts DEF IInv
  <2>2. \A p : p \in TablePages <=> IsTable(p)
    BY <2>1, TablesSeen
  <2>3. ASSUME NEW p \in Page \ TablePages PROVE ref[p] = Cardinality(Mappings(p))
    <3>1. ref[p] + 0 = Cardinality(Mappings(p)) + 0
      BY <2>1, <2>2, <2>3 DEF Counts
    <3>2. ref[p] \in Int /\ Cardinality(Mappings(p)) \in Nat
      BY <2>1, <2>3, MappingFacts DEF TypeOK
    <3> QED
      BY <3>1, <3>2
  <2>4. ASSUME NEW p \in Page, p \notin free \union held \union TablePages PROVE p \in Mapped
    <3>1. ref[p] > 0 /\ ref[p] = Cardinality(Mappings(p)) /\ Cardinality(Mappings(p)) \in Nat
      BY <2>1, <2>3, <2>4, MappingFacts DEF Owned
    <3>2. Cardinality(Mappings(p)) >= 1
      BY <3>1
    <3> QED
      BY <3>2, MappingFacts
  <2>5. Page = free \union held \union Mapped \union TablePages
    <3>1. free \subseteq Page /\ held \subseteq Page /\ Mapped \subseteq Page
      BY <2>1 DEF TypeOK, Mapped
    <3>2. TablePages \subseteq Page
      BY <2>1, <2>2, WalkTypes DEF IsTable
    <3> QED
      BY <2>4, <3>1, <3>2
  <2>6. free \intersect (held \union Mapped) = {}
    BY <2>1 DEF Owned
  <2> QED
    BY <2>3, <2>5, <2>6 DEF RefsCountMappings
<1> QED
  BY <1>1, Invariance, PTL

\* page_remove_pte frees the page before it clears the pte and flushes the TLB, and the
\* end of check_boot_pgdir its page before the root and the TLB; nothing else reaches such
\* a page, and neither ends before it is out of reach.
THEOREM FreeUnreachable == Spec => []FreePageUnreachable
<1>1. ASSUME IInv, NEW a \in LA, NEW e \in {get_page(a), tlb[a]}, Valid(e), e.page \in free
      PROVE  a = la /\ op \in {"clear", "invalidate"}
  <2>1. TypeOK /\ a \in Adr /\ free \subseteq Page
    BY <1>1, AddressFacts DEF IInv, TypeOK
  <2>2. CASE e = get_page(a)
    BY <1>1, <2>1, <2>2, MappedNotFree DEF IInv
  <2>3. CASE e = tlb[a]
    <3>1. \/ e = get_page(a)
          \/ a = la /\ op = "invalidate"
          \/ a = la /\ op = "flush" /\ e.page = page
      BY <1>1, <2>3 DEF IInv, TlbKnows
    <3>2. ~ (op = "flush" /\ e.page = page)
      BY <1>1 DEF IInv, CallPosition
    <3> QED
      BY <1>1, <2>2, <3>1, <3>2
  <2> QED
    BY <1>1, <2>2, <2>3
<1>2. ASSUME FreeingInv, NEW a \in LA, NEW e \in {get_page(a), tlb[a]}, Valid(e), e.page \in free
      PROVE  a[1] = 0 /\ e.page = page /\ op \in Freeing \ {"free_p"}
  <2>1. op \in Freeing /\ TypeOK /\ a \in Adr /\ free \subseteq Page /\ e.page \in Page
    BY <1>2, AddressFacts DEF FreeingInv, TypeOK
  \* A mapped page whose count is 0 is the page that has been given back.
  <2>2. ASSUME e = get_page(a) PROVE e.page = page /\ e.page \in GivenBack
    <3>1. e.page \in Mapped /\ a \in Mappings(e.page) /\ ref[e.page] = 0
      BY <1>2, <2>1, <2>2 DEF Mapped, Mappings, FreeingInv, Owned
    <3>2. ~ IsTable(e.page)
      BY <1>2, <2>1, <3>1 DEF FreeingInv, FreeingTables
    <3>3. Cardinality(Mappings(e.page)) >= 1
      BY <2>1, <3>1, MappingFacts
    <3>4. e.page \in GivenBack
      <4> SUFFICES ASSUME e.page \notin GivenBack PROVE FALSE
        OBVIOUS
      <4>1. ref[e.page] = Cardinality(Mappings(e.page))
        BY <1>2, <2>1, <3>2 DEF FreeingInv, FreeingCounts
      <4> QED
        BY <3>1, <3>3, <4>1
    <3>5. op \in {"free_pd0", "free_pd1", "clear_pd1"} /\ e.page \in {page} \union FreedTables
      BY <3>4 DEF GivenBack
    <3>6. LowerTable # e.page /\ UpperTable # e.page
      BY <1>2, <3>2, <3>5, FreeingFacts
    <3>7. FreedTables \subseteq {LowerTable, UpperTable}
      BY <3>5 DEF FreedTables
    <3> QED
      BY <3>4, <3>5, <3>6, <3>7
  <2>3. CASE e = get_page(a)
    <3>1. e.page = page /\ op \in {"free_pd0", "free_pd1", "clear_pd1"}
      BY <2>2, <2>3 DEF GivenBack
    <3>2. CanFreeTables(page)
      BY <1>2, <3>1, FreeingFacts
    <3>3. a[1] = 0
      BY <1>2, <2>3, <3>1, <3>2 DEF CanFreeTables
    <3> QED
      BY <2>1, <3>1, <3>3
  <2>4. CASE e = tlb[a] /\ e # get_page(a)
    BY <1>2, <2>1, <2>4 DEF FreeingInv, FreeingTlb
  <2> QED
    BY <1>2, <2>3, <2>4
<1>3. Inv => FreePageUnreachable
  BY <1>1, <1>2 DEF Inv, FreePageUnreachable
<1> QED
  BY <1>3, Invariance, PTL

\* tlb_invalidate comes after every store to a pte and before the call returns, so that
\* no translation survives that the tables no longer hold.
THEOREM NoneStale == Spec => []NoStaleTranslation
<1>1. Inv => NoStaleTranslation
  BY IdleFacts DEF NoStaleTranslation, Inv, Freeing
<1> QED
  BY <1>1, Invariance, PTL

\* get_pte translates no address that it did not translate before: a table it adds is
\* cleared first.  If it fails it has written nothing, and the allocator was empty.
LEMMA get_pteEffect ==
    ASSUME IInv, get_pte1 \/ get_pte0
    PROVE  /\ \A a \in Adr : get_page(a)' = get_page(a)
           /\ op' = "idle" => free = {}
<1>1. op \in {"pdep1", "pdep0"} /\ la \in LA /\ TypeOK /\ Tree
  BY DEF IInv, CallPosition, get_pte1, get_pte0
<1>2. CASE mem' = mem
  BY <1>2, SameMem DEF get_pte1, get_pte0, get_pte_level
<1>3. CASE mem' # mem
  <2>1. CASE op = "pdep1"
    <3>1. PICK q \in free : /\ mem' = [mem EXCEPT ![q] = Zero, ![Root][la[1]] = Pte(q, Table)]
                            /\ ~ Valid(mem[Root][la[1]]) /\ op' = "pdep0"
      BY <1>3, <2>1 DEF get_pte1, get_pte0, get_pte_level, ClearedTable
    <3>2. q \in Page /\ ~ IsTable(q) /\ ~ Valid(Pdep1(la))
      BY <1>1, <3>1 DEF IInv, TablesKept, TypeOK, Pdep1
    <3> QED
      BY <1>1, <3>1, <3>2, Level1Effect
  <2>2. CASE op = "pdep0"
    <3>1. PICK q \in free : /\ mem' = [mem EXCEPT ![q] = Zero, ![Pdep1(la).page][la[2]] = Pte(q, Table)]
                            /\ ~ Valid(mem[Pdep1(la).page][la[2]]) /\ op' = "found"
      BY <1>3, <2>2 DEF get_pte1, get_pte0, get_pte_level, ClearedTable
    <3>2. Valid(Pdep1(la))
      BY <2>2 DEF IInv, CallPosition
    <3>3. q \in Page /\ ~ IsTable(q) /\ ~ Valid(Pdep0(la))
      BY <1>1, <3>1, <3>2, Levels DEF IInv, TablesKept, TypeOK
    <3> QED
      BY <1>1, <3>1, <3>2, <3>3, Level0Effect
  <2> QED
    BY <1>1, <2>1, <2>2
<1> QED
  BY <1>2, <1>3

\* A call stores to the pte of its own address only, the end of a test to the root's first
\* entry; a new owner of a page to nothing that is a table.  The address has the translation
\* it was asked for when page_insert returns 0.
THEOREM CallsKeepApart == Spec => OwnAddressOnly
<1> DEFINE Others == \A a \in LA \ Own : get_page(a)' = get_page(a)
           Made == op = "done" => get_page(la) = Pte(page, perm)
           Failed == op \in {"pdep1", "pdep0"} /\ op' = "idle" =>
                        free = {} /\ \A a \in LA : get_page(a)' = get_page(a)
<1>1. Inv => Made
  BY DEF Inv, IInv, CallPosition, Freeing
<1>2. ASSUME IInv, op \notin Freeing, [Next]_vars PROVE Others /\ Failed
  <2>1. CASE get_pte1 \/ get_pte0
    BY <1>2, <2>1, get_pteEffect, AddressFacts
  <2>2. CASE InsertSet
    <3>1. op = "set" /\ SetPte(Pte(page, perm)) /\ Pte(page, perm) \in Entry
      BY <1>2, <2>2, EntryFacts DEF InsertSet, IInv, CallPosition
    <3>2. \A a \in Adr : get_page(a)' = IF a = la THEN Pte(page, perm) ELSE get_page(a)
      BY <1>2, <3>1, StoreMaps
    <3>3. Own = {la}
      BY <1>2, <3>1 DEF Own
    <3> QED
      BY <3>1, <3>2, <3>3, AddressFacts
  <2>3. CASE RemoveClear
    <3>1. op = "clear" /\ SetPte(NULL) /\ NULL \in Entry
      BY <2>3, EntryFacts DEF RemoveClear
    <3>2. \A a \in Adr : get_page(a)' = IF a = la THEN NULL ELSE get_page(a)
      BY <1>2, <3>1, StoreMaps
    <3>3. Own = {la}
      BY <1>2, <3>1 DEF Own
    <3> QED
      BY <3>1, <3>2, <3>3, AddressFacts
  <2>4. CASE mem' = mem /\ ~ (op \in {"pdep1", "pdep0"} /\ op' = "idle")
    BY <2>4, SameMem, AddressFacts
  <2>5. CASE InsertFound \/ InsertFlush \/ InsertDone \/ RemoveUnref \/ RemoveFlush
    BY <2>4, <2>5 DEF InsertFound, InsertFlush, InsertDone, RemoveUnref, RemoveFlush
  <2>6. CASE (\E a \in LA : TlbFill(a)) \/ UNCHANGED vars
    BY <2>4, <2>6 DEF TlbFill, vars
  <2>7. ASSUME NEW p \in Page, AllocPage(p) PROVE Others /\ Failed
    <3>1. op = "idle" /\ p \in free /\ mem' = [mem EXCEPT ![p] = Data(p)] /\ TypeOK
      BY <1>2, <2>7 DEF AllocPage, IInv
    <3>2. ~ IsTable(p) /\ Data(p) \in [Index -> Entry]
      BY <1>2, <3>1, EntryFacts DEF IInv, TablesKept, Data
    <3>3. \A a \in Adr : get_page(a)' = get_page(a)
      BY <3>1, <3>2, DataEffect
    <3> QED
      BY <3>1, <3>3, AddressFacts
  <2>8. CASE \/ \E p \in Page, a \in LA, x \in Perm : page_insert(p, a, x)
             \/ \E a \in LA : page_remove(a)
             \/ \E p \in Page : FreePage(p)
             \/ \E p \in Page \union {NULL} : FreeTables(p)
    BY <2>4, <2>8 DEF page_insert, page_remove, FreePage, FreeTables
  <2>9. ~ FreeTablesStep
    BY <1>2 DEF FreeTablesStep, FreeMapped, FreeLower, FreeUpper, ClearRoot, FlushAll, Freeing
  <2> QED
    BY <1>2, <2>1, <2>2, <2>3, <2>5, <2>6, <2>7, <2>8, <2>9 DEF Next
<1>3. ASSUME FreeingInv, [Next]_vars PROVE Others /\ Failed
  <2>1. op \in Freeing /\ ~ (op \in {"pdep1", "pdep0"}) /\ TypeOK
    BY <1>3 DEF FreeingInv, Freeing
  <2>2. Own = {a \in LA : a[1] = 0}
    BY <2>1 DEF Own, Freeing
  <2>3. CASE mem' = mem
    BY <2>1, <2>3, SameMem, AddressFacts
  <2>4. CASE ClearRoot
    <3>1. \A a \in Adr : get_page(a)' = IF a[1] = 0 THEN NULL ELSE get_page(a)
      BY <2>1, <2>4, FreeTablesEffect DEF ClearRoot
    <3> QED
      BY <2>1, <2>2, <3>1, AddressFacts
  <2> QED
    BY <1>3, <2>1, <2>3, <2>4, FreeingSteps
    DEF FreeTablesStep, FreeMapped, FreeLower, FreeUpper, FlushAll
<1>4. Inv /\ [Next]_vars => Others /\ Made /\ Failed
  BY <1>1, <1>2, <1>3 DEF Inv
<1> QED
  BY <1>4, Invariance, PTL DEF Spec, OwnAddressOnly

-----------------------------------------------------------------------------
(* The script of the tests *)

\* Concatenation, under a name of its own: what the tests are made of.
Joined(s, t) == s \o t

\* A line of two tests joined is a line of one of them.
LEMMA JoinedLines ==
    ASSUME NEW S, NEW s \in Seq(S), NEW t \in Seq(S), Len(s) = 16, Len(t) = 9, NEW k \in 1 .. 25
    PROVE  Joined(s, t)[k] = IF k <= 16 THEN s[k] ELSE t[k - 16]
<1>1. \A i \in 1 .. Len(s) + Len(t) : Joined(s, t)[i] = IF i <= Len(s) THEN s[i] ELSE t[i - Len(s)]
  BY ConcatProperties, Zenon DEF Joined
<1>2. k \in 1 .. (16 + 9)
  OBVIOUS
<1> QED
  BY <1>1, <1>2, Zenon

\* Two tests joined are as long as both.
LEMMA JoinedLength ==
    ASSUME NEW S, NEW s \in Seq(S), NEW t \in Seq(S), Len(s) = 16, Len(t) = 9
    PROVE  Len(Joined(s, t)) = 25
<1>1. Len(Joined(s, t)) = Len(s) + Len(t)
  BY ConcatProperties, Zenon DEF Joined
<1>2. 16 + 9 = 25
  OBVIOUS
<1> QED
  BY <1>1, <1>2, Zenon

\* A tuple of members of S is a sequence over S.
LEMMA Tuple16 ==
    ASSUME NEW S, NEW a1 \in S, NEW a2 \in S, NEW a3 \in S, NEW a4 \in S, NEW a5 \in S,
           NEW a6 \in S, NEW a7 \in S, NEW a8 \in S, NEW a9 \in S, NEW a10 \in S, NEW a11 \in S,
           NEW a12 \in S, NEW a13 \in S, NEW a14 \in S, NEW a15 \in S, NEW a16 \in S
    PROVE  <<a1, a2, a3, a4, a5, a6, a7, a8, a9, a10, a11, a12, a13, a14, a15, a16>> \in Seq(S)
OBVIOUS

LEMMA Tuple9 ==
    ASSUME NEW S, NEW b1 \in S, NEW b2 \in S, NEW b3 \in S, NEW b4 \in S, NEW b5 \in S,
           NEW b6 \in S, NEW b7 \in S, NEW b8 \in S, NEW b9 \in S
    PROVE  <<b1, b2, b3, b4, b5, b6, b7, b8, b9>> \in Seq(S)
OBVIOUS

\* The script, line by line.
LEMMA ScriptLines ==
    /\ Len(Script) = 25
    /\ Script[1].do = "store"
    /\ Script[2].do = "nothing mapped"
    /\ Script[3].do = "alloc" /\ Script[3].p = 1
    /\ Script[4].do = "insert" /\ Script[4].p = 1 /\ Script[4].a = A0 /\ Script[4].perm = Kernel
    /\ Script[5].do = "p1 at 0"
    /\ Script[6].do = "alloc" /\ Script[6].p = 2
    /\ Script[7].do = "insert" /\ Script[7].p = 2 /\ Script[7].a = A1 /\ Script[7].perm = User
    /\ Script[8].do = "p2 at PGSIZE"
    /\ Script[9].do = "insert" /\ Script[9].p = 1 /\ Script[9].a = A1 /\ Script[9].perm = Kernel
    /\ Script[10].do = "p1 at both"
    /\ Script[11].do = "remove" /\ Script[11].a = A0
    /\ Script[12].do = "p1 at PGSIZE"
    /\ Script[13].do = "remove" /\ Script[13].a = A1
    /\ Script[14].do = "tables left"
    /\ Script[15].do = "free" /\ Script[15].p = 0
    /\ Script[16].do = "all free"
    /\ Script[17].do = "store"
    /\ Script[18].do = "root empty"
    /\ Script[19].do = "alloc" /\ Script[19].p = 1
    /\ Script[20].do = "insert" /\ Script[20].p = 1 /\ Script[20].a = A0 /\ Script[20].perm = Kernel
    /\ Script[21].do = "p at one"
    /\ Script[22].do = "insert" /\ Script[22].p = 1 /\ Script[22].a = A1 /\ Script[22].perm = Kernel
    /\ Script[23].do = "p at two"
    /\ Script[24].do = "free" /\ Script[24].p = 1
    /\ Script[25].do = "all free"
<1> DEFINE S == {check_pgdir[k] : k \in 1 .. 16} \union {check_boot_pgdir[k] : k \in 1 .. 9}
<1>1. (\A k \in 1 .. 16 : check_pgdir[k] \in S) /\ (\A k \in 1 .. 9 : check_boot_pgdir[k] \in S)
  OBVIOUS
<1> HIDE DEF S
<1>2. check_pgdir \in Seq(S)
  <2>1. /\ check_pgdir[1] \in S /\ check_pgdir[2] \in S /\ check_pgdir[3] \in S
       /\ check_pgdir[4] \in S /\ check_pgdir[5] \in S /\ check_pgdir[6] \in S
       /\ check_pgdir[7] \in S /\ check_pgdir[8] \in S /\ check_pgdir[9] \in S
       /\ check_pgdir[10] \in S /\ check_pgdir[11] \in S /\ check_pgdir[12] \in S
       /\ check_pgdir[13] \in S /\ check_pgdir[14] \in S /\ check_pgdir[15] \in S
       /\ check_pgdir[16] \in S
    BY <1>1
  <2>2. <<check_pgdir[1], check_pgdir[2], check_pgdir[3], check_pgdir[4], check_pgdir[5],
          check_pgdir[6], check_pgdir[7], check_pgdir[8], check_pgdir[9], check_pgdir[10],
          check_pgdir[11], check_pgdir[12], check_pgdir[13], check_pgdir[14], check_pgdir[15],
          check_pgdir[16]>> \in Seq(S)
    BY <2>1, Tuple16, Zenon
  <2>3. check_pgdir = <<check_pgdir[1], check_pgdir[2], check_pgdir[3], check_pgdir[4],
                        check_pgdir[5], check_pgdir[6], check_pgdir[7], check_pgdir[8],
                        check_pgdir[9], check_pgdir[10], check_pgdir[11], check_pgdir[12],
                        check_pgdir[13], check_pgdir[14], check_pgdir[15], check_pgdir[16]>>
    BY DEF check_pgdir
  <2> QED
    BY <2>2, <2>3, Zenon
<1>3. check_boot_pgdir \in Seq(S)
  <2>1. /\ check_boot_pgdir[1] \in S /\ check_boot_pgdir[2] \in S /\ check_boot_pgdir[3] \in S
       /\ check_boot_pgdir[4] \in S /\ check_boot_pgdir[5] \in S /\ check_boot_pgdir[6] \in S
       /\ check_boot_pgdir[7] \in S /\ check_boot_pgdir[8] \in S /\ check_boot_pgdir[9] \in S
    BY <1>1
  <2>2. <<check_boot_pgdir[1], check_boot_pgdir[2], check_boot_pgdir[3], check_boot_pgdir[4],
          check_boot_pgdir[5], check_boot_pgdir[6], check_boot_pgdir[7], check_boot_pgdir[8],
          check_boot_pgdir[9]>> \in Seq(S)
    BY <2>1, Tuple9, Zenon
  <2>3. check_boot_pgdir = <<check_boot_pgdir[1], check_boot_pgdir[2], check_boot_pgdir[3],
                             check_boot_pgdir[4], check_boot_pgdir[5], check_boot_pgdir[6],
                             check_boot_pgdir[7], check_boot_pgdir[8], check_boot_pgdir[9]>>
    BY DEF check_boot_pgdir
  <2> QED
    BY <2>2, <2>3, Zenon
<1>4. Len(check_pgdir) = 16 /\ Len(check_boot_pgdir) = 9
  BY DEF check_pgdir, check_boot_pgdir
<1>5. Script = Joined(check_pgdir, check_boot_pgdir)
  BY DEF Script, Joined
<1>6. Len(Script) = 25
  BY <1>2, <1>3, <1>4, <1>5, JoinedLength
<1>7. ASSUME NEW k \in 1 .. 25
      PROVE  Script[k] = IF k <= 16 THEN check_pgdir[k] ELSE check_boot_pgdir[k - 16]
  BY <1>2, <1>3, <1>4, <1>5, JoinedLines
<1>8. /\ check_pgdir[1].do = "store"
      /\ check_pgdir[2].do = "nothing mapped"
      /\ check_pgdir[3].do = "alloc" /\ check_pgdir[3].p = 1
      /\ check_pgdir[4].do = "insert" /\ check_pgdir[4].p = 1 /\ check_pgdir[4].a = A0
      /\ check_pgdir[4].perm = Kernel
      /\ check_pgdir[5].do = "p1 at 0"
      /\ check_pgdir[6].do = "alloc" /\ check_pgdir[6].p = 2
      /\ check_pgdir[7].do = "insert" /\ check_pgdir[7].p = 2 /\ check_pgdir[7].a = A1
      /\ check_pgdir[7].perm = User
      /\ check_pgdir[8].do = "p2 at PGSIZE"
  BY DEF check_pgdir, Line, StoreLine, AssertLine, AllocLine, InsertLine, RemoveLine, FreeLine
<1>9. /\ check_pgdir[9].do = "insert" /\ check_pgdir[9].p = 1 /\ check_pgdir[9].a = A1
      /\ check_pgdir[9].perm = Kernel
      /\ check_pgdir[10].do = "p1 at both"
      /\ check_pgdir[11].do = "remove" /\ check_pgdir[11].a = A0
      /\ check_pgdir[12].do = "p1 at PGSIZE"
      /\ check_pgdir[13].do = "remove" /\ check_pgdir[13].a = A1
      /\ check_pgdir[14].do = "tables left"
      /\ check_pgdir[15].do = "free" /\ check_pgdir[15].p = 0
      /\ check_pgdir[16].do = "all free"
  BY DEF check_pgdir, Line, StoreLine, AssertLine, AllocLine, InsertLine, RemoveLine, FreeLine
<1>10. /\ check_boot_pgdir[1].do = "store"
       /\ check_boot_pgdir[2].do = "root empty"
       /\ check_boot_pgdir[3].do = "alloc" /\ check_boot_pgdir[3].p = 1
       /\ check_boot_pgdir[4].do = "insert" /\ check_boot_pgdir[4].p = 1 /\ check_boot_pgdir[4].a = A0
       /\ check_boot_pgdir[4].perm = Kernel
       /\ check_boot_pgdir[5].do = "p at one"
       /\ check_boot_pgdir[6].do = "insert" /\ check_boot_pgdir[6].p = 1 /\ check_boot_pgdir[6].a = A1
       /\ check_boot_pgdir[6].perm = Kernel
       /\ check_boot_pgdir[7].do = "p at two"
       /\ check_boot_pgdir[8].do = "free" /\ check_boot_pgdir[8].p = 1
       /\ check_boot_pgdir[9].do = "all free"
  BY DEF check_boot_pgdir, Line, StoreLine, AssertLine, AllocLine, InsertLine, RemoveLine, FreeLine
<1>11. /\ Script[1] = check_pgdir[1] /\ Script[2] = check_pgdir[2] /\ Script[3] = check_pgdir[3]
       /\ Script[4] = check_pgdir[4] /\ Script[5] = check_pgdir[5] /\ Script[6] = check_pgdir[6]
       /\ Script[7] = check_pgdir[7] /\ Script[8] = check_pgdir[8]
  BY <1>7
<1>12. /\ Script[9] = check_pgdir[9] /\ Script[10] = check_pgdir[10] /\ Script[11] = check_pgdir[11]
       /\ Script[12] = check_pgdir[12] /\ Script[13] = check_pgdir[13] /\ Script[14] = check_pgdir[14]
       /\ Script[15] = check_pgdir[15] /\ Script[16] = check_pgdir[16]
  BY <1>7
<1>13. /\ Script[17] = check_boot_pgdir[1] /\ Script[18] = check_boot_pgdir[2]
       /\ Script[19] = check_boot_pgdir[3] /\ Script[20] = check_boot_pgdir[4]
       /\ Script[21] = check_boot_pgdir[5] /\ Script[22] = check_boot_pgdir[6]
       /\ Script[23] = check_boot_pgdir[7] /\ Script[24] = check_boot_pgdir[8]
       /\ Script[25] = check_boot_pgdir[9]
  BY <1>7
<1>14. /\ Script[1].do = "store"
       /\ Script[2].do = "nothing mapped"
       /\ Script[3].do = "alloc" /\ Script[3].p = 1
       /\ Script[4].do = "insert" /\ Script[4].p = 1 /\ Script[4].a = A0 /\ Script[4].perm = Kernel
       /\ Script[5].do = "p1 at 0"
       /\ Script[6].do = "alloc" /\ Script[6].p = 2
       /\ Script[7].do = "insert" /\ Script[7].p = 2 /\ Script[7].a = A1 /\ Script[7].perm = User
       /\ Script[8].do = "p2 at PGSIZE"
  BY <1>8, <1>11, Zenon
<1>15. /\ Script[9].do = "insert" /\ Script[9].p = 1 /\ Script[9].a = A1 /\ Script[9].perm = Kernel
       /\ Script[10].do = "p1 at both"
       /\ Script[11].do = "remove" /\ Script[11].a = A0
       /\ Script[12].do = "p1 at PGSIZE"
       /\ Script[13].do = "remove" /\ Script[13].a = A1
       /\ Script[14].do = "tables left"
       /\ Script[15].do = "free" /\ Script[15].p = 0
       /\ Script[16].do = "all free"
  BY <1>9, <1>12, Zenon
<1>16. /\ Script[17].do = "store"
       /\ Script[18].do = "root empty"
       /\ Script[19].do = "alloc" /\ Script[19].p = 1
       /\ Script[20].do = "insert" /\ Script[20].p = 1 /\ Script[20].a = A0
       /\ Script[20].perm = Kernel
       /\ Script[21].do = "p at one"
       /\ Script[22].do = "insert" /\ Script[22].p = 1 /\ Script[22].a = A1
       /\ Script[22].perm = Kernel
       /\ Script[23].do = "p at two"
       /\ Script[24].do = "free" /\ Script[24].p = 1
       /\ Script[25].do = "all free"
  BY <1>10, <1>13, Zenon
<1> QED
  BY <1>6, <1>14, <1>15, <1>16

\* What a line does tells which line it is.
LEMMA WhichLine ==
    ASSUME NEW k \in 1 .. 25
    PROVE  /\ Script[k].do = "store" => k = 1 \/ k = 17
           /\ Script[k].do = "alloc" => k = 3 \/ k = 6 \/ k = 19
           /\ Script[k].do = "insert" => k = 4 \/ k = 7 \/ k = 9 \/ k = 20 \/ k = 22
           /\ Script[k].do = "remove" => k = 11 \/ k = 13
           /\ Script[k].do = "free" => k = 15 \/ k = 24
           /\ Script[k].do = "all free" => k = 16 \/ k = 25
           /\ Script[k].do \notin Calls => k = 2 \/ k = 5 \/ k = 8 \/ k = 10 \/ k = 12 \/ k = 14
                                           \/ k = 16 \/ k = 18 \/ k = 21 \/ k = 23 \/ k = 25
<1>1. \/ k = 1 \/ k = 2 \/ k = 3 \/ k = 4 \/ k = 5 \/ k = 6 \/ k = 7 \/ k = 8 \/ k = 9 \/ k = 10
      \/ k = 11 \/ k = 12 \/ k = 13 \/ k = 14 \/ k = 15 \/ k = 16 \/ k = 17 \/ k = 18 \/ k = 19
      \/ k = 20 \/ k = 21 \/ k = 22 \/ k = 23 \/ k = 24 \/ k = 25
  OBVIOUS
<1> DEFINE d == Script[k].do
<1>2. \/ d = "store" /\ (k = 1 \/ k = 17)
      \/ d = "alloc" /\ (k = 3 \/ k = 6 \/ k = 19)
      \/ d = "insert" /\ (k = 4 \/ k = 7 \/ k = 9 \/ k = 20 \/ k = 22)
      \/ d = "remove" /\ (k = 11 \/ k = 13)
      \/ d = "free" /\ (k = 15 \/ k = 24)
      \/ d = "all free" /\ (k = 16 \/ k = 25)
      \/ d = "nothing mapped" /\ k = 2
      \/ d = "p1 at 0" /\ k = 5
      \/ d = "p2 at PGSIZE" /\ k = 8
      \/ d = "p1 at both" /\ k = 10
      \/ d = "p1 at PGSIZE" /\ k = 12
      \/ d = "tables left" /\ k = 14
      \/ d = "root empty" /\ k = 18
      \/ d = "p at one" /\ k = 21
      \/ d = "p at two" /\ k = 23
  <2>1. /\ Script[1].do = "store"
        /\ Script[2].do = "nothing mapped"
        /\ Script[3].do = "alloc"
        /\ Script[4].do = "insert"
        /\ Script[5].do = "p1 at 0"
        /\ Script[6].do = "alloc"
        /\ Script[7].do = "insert"
        /\ Script[8].do = "p2 at PGSIZE"
        /\ Script[9].do = "insert"
        /\ Script[10].do = "p1 at both"
        /\ Script[11].do = "remove"
        /\ Script[12].do = "p1 at PGSIZE"
        /\ Script[13].do = "remove"
        /\ Script[14].do = "tables left"
        /\ Script[15].do = "free"
        /\ Script[16].do = "all free"
        /\ Script[17].do = "store"
        /\ Script[18].do = "root empty"
        /\ Script[19].do = "alloc"
        /\ Script[20].do = "insert"
        /\ Script[21].do = "p at one"
        /\ Script[22].do = "insert"
        /\ Script[23].do = "p at two"
        /\ Script[24].do = "free"
        /\ Script[25].do = "all free"
    BY ScriptLines, ZenonT(30)
  <2>2. k = 1 \/ k = 17 => d = "store"
    BY <2>1, ZenonT(30)
  <2>3. k = 2 => d = "nothing mapped"
    BY <2>1, ZenonT(30)
  <2>4. k = 3 \/ k = 6 \/ k = 19 => d = "alloc"
    BY <2>1, ZenonT(30)
  <2>5. k = 4 \/ k = 7 \/ k = 9 \/ k = 20 \/ k = 22 => d = "insert"
    BY <2>1, ZenonT(30)
  <2>6. k = 5 => d = "p1 at 0"
    BY <2>1, ZenonT(30)
  <2>7. k = 8 => d = "p2 at PGSIZE"
    BY <2>1, ZenonT(30)
  <2>8. k = 10 => d = "p1 at both"
    BY <2>1, ZenonT(30)
  <2>9. k = 11 \/ k = 13 => d = "remove"
    BY <2>1, ZenonT(30)
  <2>10. k = 12 => d = "p1 at PGSIZE"
    BY <2>1, ZenonT(30)
  <2>11. k = 14 => d = "tables left"
    BY <2>1, ZenonT(30)
  <2>12. k = 15 \/ k = 24 => d = "free"
    BY <2>1, ZenonT(30)
  <2>13. k = 16 \/ k = 25 => d = "all free"
    BY <2>1, ZenonT(30)
  <2>14. k = 18 => d = "root empty"
    BY <2>1, ZenonT(30)
  <2>15. k = 21 => d = "p at one"
    BY <2>1, ZenonT(30)
  <2>16. k = 23 => d = "p at two"
    BY <2>1, ZenonT(30)
  <2> HIDE DEF d
  <2> QED
    BY <1>1, <2>2, <2>3, <2>4, <2>5, <2>6, <2>7, <2>8,
       <2>9, <2>10, <2>11, <2>12, <2>13, <2>14, <2>15, <2>16, ZenonT(30)
<1> QED
  BY <1>2, ZenonT(30) DEF Calls

-----------------------------------------------------------------------------
(* Where the tests stand *)

\* The translation of each address when line k is next, with p1 and p2 as they are.
Expected(k, a) ==
    IF a = A0 /\ k \in (5 .. 11) \union (21 .. 24) THEN Pte(p1, Kernel)
    ELSE IF a = A1 /\ k \in 8 .. 9 THEN Pte(p2, User)
    ELSE IF a = A1 /\ k \in (10 .. 13) \union (23 .. 24) THEN Pte(p1, Kernel)
    ELSE NULL

ExpectedHeld(k) == IF k \in {4, 20} THEN {p1} ELSE IF k = 7 THEN {p2} ELSE {}

\* The lines that come after a call, and the arguments of the call.
AfterInsert == {5, 8, 10, 21, 23}
AfterRemove == {12, 14}
CallLa(k) == IF k \in {5, 12, 21} THEN A0 ELSE A1
CallPage(k) == IF k \in AfterRemove THEN NULL ELSE IF k = 8 THEN p2 ELSE p1
CallPerm(k) == IF k = 8 THEN User ELSE Kernel

\* The pages are there, and apart, from their allocation on.
TestPages ==
    /\ at \in (4 .. 15) \union (20 .. 24) => p1 \in Page
    /\ at \in 7 .. 15 => p2 \in Page /\ p2 # p1 /\ ~ IsTable(p1) /\ ~ IsTable(p2)

TestStored == at \in (2 .. 16) \union (18 .. 25) => nr_free_store = Cardinality(Page)

\* All tables are under boot_pgdir[0], and under index 0 there; there is one for the two
\* addresses from the first insertion to the end of the test.
TestTables ==
    /\ \A a \in Adr : Valid(Pdep1(a)) => a[1] = 0 /\ Pdep1(a).perm = Table
    /\ \A a \in Adr : HasPte(a) => a[2] = 0
    /\ at \in (1 .. 4) \union (16 .. 20) \union {25} => \A a \in Adr : ~ Valid(Pdep1(a))
    /\ at \in (6 .. 15) \union (22 .. 24) => HasPte(A0)
    /\ op = "idle" /\ at \in {5, 21} => HasPte(A0)

\* Between two calls, and during one.
BetweenCalls ==
    op = "idle" =>
        /\ \A a \in LA : get_page(a) = Expected(at, a)
        /\ held = ExpectedHeld(at)
        /\ at \in AfterInsert => ret = 0
DuringCall ==
    op # "idle" =>
        /\ at \in AfterInsert \union AfterRemove
        /\ la = CallLa(at) /\ page = CallPage(at) /\ perm = IF page = NULL THEN perm ELSE CallPerm(at)
        /\ \A a \in LA \ {la} : get_page(a) = Expected(at, a)
        /\ held \subseteq {page} /\ (op \in {"flush", "done"} => held = {})
        /\ at \in {5, 21} /\ op = "pdep1" => \E p, q \in free : p # q
        /\ at \in {5, 21} /\ op = "pdep0" => free # {}

ScriptInv ==
    /\ at \in 1 .. 26 /\ failed = FALSE
    /\ Testing => TestPages /\ TestStored /\ TestTables /\ BetweenCalls /\ DuringCall

\* While the last line but one of a test frees the tables.
ScriptFreeing ==
    /\ at \in {16, 25} /\ failed = FALSE
    /\ nr_free_store = Cardinality(Page) /\ held = {}
    /\ \A a \in Adr : Valid(Pdep1(a)) => a[1] = 0
    /\ op = "flush_tlb" => \A a \in Adr : ~ Valid(Pdep1(a))

\* The invariant of the tests.
ChecksInv ==
    /\ at \in 1 .. 26 /\ failed = FALSE
    /\ op \notin Freeing => ScriptInv
    /\ op \in Freeing /\ Testing => ScriptFreeing

\* The two addresses of the tests are two addresses that the program maps.
LEMMA Addresses == A0 \in LA /\ A1 \in LA /\ A0 \in Adr /\ A1 \in Adr /\ A0 # A1
<1>1. A0 \in LA /\ A1 \in LA
  BY CheckAssumption
<1>2. A0 # A1
  BY DEF A0, A1
<1> QED
  BY <1>1, <1>2, AddressFacts

\* They differ in the index of the last level only.
LEMMA AddressParts ==
    A0[1] = 0 /\ A0[2] = 0 /\ A0[3] = 0 /\ A1[1] = 0 /\ A1[2] = 0 /\ A1[3] = 1
BY DEF A0, A1

\* What a line that calls page_insert or page_remove passes.
LEMMA CallLines ==
    ASSUME NEW k \in 1 .. 25
    PROVE  /\ Script[k].do = "insert" =>
                /\ k + 1 \in AfterInsert /\ k + 1 \notin AfterRemove
                /\ Script[k].a = CallLa(k + 1)
                /\ PageNo(Script[k].p) = CallPage(k + 1) /\ Script[k].perm = CallPerm(k + 1)
           /\ Script[k].do = "remove" => k + 1 \in AfterRemove /\ Script[k].a = CallLa(k + 1)
<1>1. ASSUME Script[k].do = "insert"
      PROVE  /\ k + 1 \in AfterInsert /\ k + 1 \notin AfterRemove
             /\ Script[k].a = CallLa(k + 1)
             /\ PageNo(Script[k].p) = CallPage(k + 1) /\ Script[k].perm = CallPerm(k + 1)
  <2>1. k = 4 \/ k = 7 \/ k = 9 \/ k = 20 \/ k = 22
    BY <1>1, WhichLine
  <2>2. /\ Script[4].p = 1 /\ Script[4].a = A0 /\ Script[4].perm = Kernel
        /\ Script[7].p = 2 /\ Script[7].a = A1 /\ Script[7].perm = User
        /\ Script[9].p = 1 /\ Script[9].a = A1 /\ Script[9].perm = Kernel
        /\ Script[20].p = 1 /\ Script[20].a = A0 /\ Script[20].perm = Kernel
        /\ Script[22].p = 1 /\ Script[22].a = A1 /\ Script[22].perm = Kernel
    BY ScriptLines, Zenon
  <2>3. /\ k + 1 \in AfterInsert /\ k + 1 \notin AfterRemove
    BY <2>1 DEF AfterInsert, AfterRemove
  <2>4. Script[k].a = CallLa(k + 1)
    BY <2>1, <2>2 DEF CallLa
  <2>5. PageNo(Script[k].p) = CallPage(k + 1)
    BY <2>1, <2>2, <2>3 DEF CallPage, PageNo
  <2>6. Script[k].perm = CallPerm(k + 1)
    BY <2>1, <2>2 DEF CallPerm
  <2> QED
    BY <2>3, <2>4, <2>5, <2>6
<1>2. ASSUME Script[k].do = "remove" PROVE k + 1 \in AfterRemove /\ Script[k].a = CallLa(k + 1)
  <2>1. k = 11 \/ k = 13
    BY <1>2, WhichLine
  <2>2. Script[11].a = A0 /\ Script[13].a = A1
    BY ScriptLines, Zenon
  <2> QED
    BY <2>1, <2>2 DEF AfterRemove, CallLa
<1> QED
  BY <1>1, <1>2

\* The tests go on until line 26.
LEMMA TestingLines == at \in 1 .. 26 => (Testing <=> at \in 1 .. 25)
<1>1. Len(Script) = 25
  BY ScriptLines, Zenon
<1> QED
  BY <1>1 DEF Testing

\* Where a test frees the tables there are two, and only its page is mapped.
LEMMA TestCanFree ==
    ASSUME IInv, ScriptInv, Now("free")
    PROVE  /\ PageNo(Script[at].p) \in Page \union {NULL}
           /\ CanFreeTables(PageNo(Script[at].p))
<1>1. op = "idle" /\ Script[at].do = "free" /\ Testing
  BY DEF Now
<1>2. at \in 1 .. 25 /\ TestPages /\ TestTables /\ BetweenCalls /\ TypeOK
  BY <1>1, TestingLines DEF ScriptInv, IInv
<1>3. at = 15 \/ at = 24
  BY <1>1, <1>2, WhichLine
<1>4. Script[15].p = 0 /\ Script[24].p = 1
  BY ScriptLines, Zenon
<1>5. /\ at = 15 => PageNo(Script[at].p) = NULL
      /\ at = 24 => PageNo(Script[at].p) = p1 /\ p1 \in Page
  BY <1>2, <1>4 DEF PageNo, TestPages
<1>6. HasPte(A0) /\ \A a \in LA : get_page(a) = Expected(at, a)
  BY <1>1, <1>2, <1>3 DEF TestTables, BetweenCalls
<1>7. Valid(mem[Root][0]) /\ Valid(mem[UpperTable][0])
  <2>1. Valid(Pdep1(A0)) /\ Valid(Pdep0(A0))
    BY <1>2, <1>6, WalkTypes, Addresses DEF HasPte
  <2> QED
    BY <2>1, AddressParts DEF Pdep1, Pdep0, UpperTable
<1>8. ASSUME NEW i \in Index \ {0} PROVE ~ Valid(mem[UpperTable][i])
  <2>0. <<0, i, 0>> \in Adr /\ <<0, i, 0>>[1] = 0 /\ <<0, i, 0>>[2] = i
    BY PageTableAssumption DEF Adr
  <2>1. PICK z \in Adr : z[1] = 0 /\ z[2] = i
    BY <2>0
  <2>2. ~ HasPte(z)
    BY <1>2, <2>1 DEF TestTables
  <2> QED
    BY <1>7, <2>1, <2>2 DEF HasPte, Pdep0, Pdep1, UpperTable
<1>9. ASSUME NEW a \in LA, Valid(get_page(a))
      PROVE  a[1] = 0 /\ at = 24 /\ get_page(a) = Pte(p1, Kernel)
  <2>1. a[1] = 0
    BY <1>2, <1>9, WalkTypes, AddressFacts DEF TestTables
  <2>2. Valid(Expected(at, a))
    BY <1>6, <1>9
  <2> QED
    BY <1>3, <1>6, <2>1, <2>2, EntryFacts DEF Expected
<1>10. \A x \in Perm : at = 24 => Pte(p1, x).page = p1 /\ Valid(Pte(p1, x))
  BY <1>5, EntryFacts
<1>11. ASSUME at = 24 PROVE p1 \in Mapped
  <2>1. get_page(A0) = Pte(p1, Kernel)
    BY <1>6, <1>11, Addresses DEF Expected
  <2> QED
    BY <1>5, <1>10, <1>11, <2>1, Addresses, CheckAssumption DEF Mapped
<1>12. \A a \in LA : Valid(get_page(a)) => (a[1] = 0 <=> get_page(a).page = PageNo(Script[at].p))
  BY <1>5, <1>9, <1>10, CheckAssumption
<1> QED
  BY <1>3, <1>5, <1>7, <1>8, <1>11, <1>12 DEF CanFreeTables

\* Every step of the tests is a step of a caller, of a call or of the hardware.
LEMMA TestsAreCalls ==
    ASSUME Inv, ChecksInv, [CheckNext]_<<vars, testvars>>
    PROVE  [Next]_vars
<1> USE DEF ChecksInv
<1>0. TypeOK
  BY DEF Inv, IInv, FreeingInv
<1>1. CASE TestStore \/ TestAssert
  BY <1>1 DEF TestStore, TestAssert
<1>2. CASE TestAlloc
  BY <1>2 DEF TestAlloc, Next
<1>3. CASE TestCall
  <2>1. CASE Now("insert") /\ page_insert(PageNo(Script[at].p), Script[at].a, Script[at].perm)
    <3>1. at \in 1 .. 25 /\ Script[at].do = "insert"
      BY <2>1, TestingLines DEF Now
    <3>2. PageNo(Script[at].p) \in Page
      BY <1>0, <2>1 DEF page_insert, TypeOK, Mapped
    <3>3. Script[at].a \in LA
      BY <3>1, CallLines, Addresses DEF CallLa
    <3>4. Script[at].perm \in Perm
      BY <3>1, CallLines, CheckAssumption DEF CallPerm
    <3> QED
      BY <2>1, <3>2, <3>3, <3>4 DEF Next
  <2>2. CASE Now("remove") /\ page_remove(Script[at].a)
    <3>1. at \in 1 .. 25 /\ Script[at].do = "remove"
      BY <2>2, TestingLines DEF Now
    <3>2. Script[at].a \in LA
      BY <3>1, CallLines, Addresses DEF CallLa
    <3> QED
      BY <2>2, <3>2 DEF Next
  <2>3. CASE Now("free") /\ FreeTables(PageNo(Script[at].p))
    <3>1. IInv /\ ScriptInv
      BY <2>3 DEF Now, Inv, Freeing
    <3> QED
      BY <2>3, <3>1, TestCanFree DEF Next
  <2> QED
    BY <1>3, <2>1, <2>2, <2>3 DEF TestCall
<1>4. CASE CallStep \/ Next
  BY <1>4 DEF CallStep, Next
<1>5. CASE UNCHANGED <<vars, testvars>>
  BY <1>5
<1> QED
  BY <1>1, <1>2, <1>3, <1>4, <1>5 DEF CheckNext

\* A page whose translation is known is mapped; a mapped page is no table.
LEMMA MappedFacts ==
    ASSUME IInv, op = "idle", NEW a \in LA, NEW p \in Page, NEW x \in Perm, get_page(a) = Pte(p, x)
    PROVE  /\ Valid(get_page(a)) /\ get_page(a).page = p
           /\ p \in Mapped /\ p \notin free \union held /\ ~ IsTable(p) /\ HasPte(a)
<1>1. Valid(get_page(a)) /\ get_page(a).page = p
  BY EntryFacts
<1>2. p \in Mapped
  BY <1>1 DEF Mapped
<1>3. HasPte(a)
  BY <1>1, WalkTypes, AddressFacts DEF IInv
<1> QED
  BY <1>1, <1>2, <1>3, IdleFacts

\* While mem stays, so do the tables and the translations.
LEMMA SameTables ==
    ASSUME mem' = mem
    PROVE  /\ \A a \in Adr : /\ Pdep1(a)' = Pdep1(a) /\ Pdep0(a)' = Pdep0(a) /\ get_page(a)' = get_page(a)
                             /\ (HasPte(a)' <=> HasPte(a))
           /\ \A p : IsTable(p)' <=> IsTable(p)
           /\ \A a \in LA : get_page(a)' = get_page(a)
<1>1. \A a \in Adr : Pdep1(a)' = Pdep1(a) /\ Pdep0(a)' = Pdep0(a) /\ get_page(a)' = get_page(a)
  BY SameMem
<1> QED
  BY <1>1, SameWalk, AddressFacts

\* What a step that leaves the tables and the test's pages alone keeps.
LEMMA TestTablesKept ==
    ASSUME TestTables, mem' = mem, UNCHANGED at, op' = "idle" => op = "idle" \/ HasPte(A0)
    PROVE  TestTables'
BY SameTables, Addresses DEF TestTables

LEMMA TestPagesKept ==
    ASSUME TestPages, UNCHANGED <<at, p1, p2>>,
           at \in 7 .. 15 => \A p \in Page : IsTable(p)' <=> IsTable(p)
    PROVE  TestPages'
BY DEF TestPages

\* A call goes on, with no effect but on its own address.
LEMMA CallGoesOn ==
    ASSUME ScriptInv, Testing, op # "idle", op' # "idle", UNCHANGED <<testvars, args>>,
           \A a \in LA : a # la => get_page(a)' = get_page(a),
           held' \subseteq held, op' \in {"flush", "done"} => held' = {},
           op' # "pdep1", at \in {5, 21} /\ op' = "pdep0" => free' # {},
           TestTables', at \in 7 .. 15 => \A p \in Page : IsTable(p)' <=> IsTable(p)
    PROVE  ScriptInv'
<1>1. /\ UNCHANGED <<at, p1, p2, nr_free_store, failed, la, page, perm>>
      /\ TestPages /\ TestStored /\ DuringCall
  BY DEF ScriptInv, testvars, args
<1>2. TestPages'
  BY <1>1, TestPagesKept
<1>3. TestStored' /\ BetweenCalls'
  BY <1>1 DEF TestStored, BetweenCalls
<1>4. DuringCall'
  <2>1. \A a \in LA \ {la} : get_page(a)' = Expected(at, a)'
    BY <1>1 DEF DuringCall, Expected
  <2>2. CallLa(at)' = CallLa(at) /\ CallPage(at)' = CallPage(at) /\ CallPerm(at)' = CallPerm(at)
    BY <1>1 DEF CallLa, CallPage, CallPerm
  <2> QED
    BY <1>1, <2>1, <2>2 DEF DuringCall
<1> QED
  BY <1>1, <1>2, <1>3, <1>4 DEF ScriptInv

\* The two addresses are in the same table.
LEMMA OneTable ==
    /\ Pdep1(A1) = Pdep1(A0) /\ Pdep0(A1) = Pdep0(A0)
    /\ HasPte(A1) <=> HasPte(A0)
<1>1. Pdep1(A1) = Pdep1(A0)
  BY AddressParts DEF Pdep1
<1>2. Pdep0(A1) = Pdep0(A0)
  BY <1>1, AddressParts DEF Pdep0
<1> QED
  BY <1>1, <1>2 DEF HasPte

\* What a call of the tests may rely on.
LEMMA CallFacts ==
    ASSUME IInv, ScriptInv, Testing, op # "idle"
    PROVE  /\ TypeOK /\ at \in AfterInsert \union AfterRemove /\ at \in 1 .. 25
           /\ la \in {A0, A1} /\ la \in LA /\ la \in Adr /\ la[1] = 0 /\ la[2] = 0
           /\ TestTables /\ DuringCall /\ TestPages /\ TestStored
           /\ at \notin {5, 21} => HasPte(la)
           /\ page # NULL => at \in AfterInsert
<1>1. /\ TypeOK /\ at \in AfterInsert \union AfterRemove /\ la = CallLa(at) /\ page = CallPage(at)
      /\ TestTables /\ DuringCall /\ TestPages /\ TestStored
  BY DEF IInv, ScriptInv, DuringCall
<1>2. la \in {A0, A1}
  BY <1>1 DEF CallLa
<1>3. at \notin {5, 21} => HasPte(la)
  <2>1. at \notin {5, 21} => at \in (6 .. 15) \union (22 .. 24)
    BY <1>1 DEF AfterInsert, AfterRemove
  <2> QED
    BY <1>1, <1>2, <2>1, OneTable DEF TestTables
<1>4. page # NULL => at \in AfterInsert
  BY <1>1 DEF CallPage
<1>5. at \in 1 .. 25
  BY <1>1 DEF AfterInsert, AfterRemove
<1> QED
  BY <1>1, <1>2, <1>3, <1>4, <1>5, Addresses, AddressParts

\* The steps of get_pte at the root: it finds the lower table, or takes a page for it.
LEMMA TestGetPte1 ==
    ASSUME IInv, ScriptInv, Testing, get_pte1, UNCHANGED testvars
    PROVE  ScriptInv'
<1>1. op = "pdep1" /\ UNCHANGED <<held, tlb>>
  BY DEF get_pte1, get_pte_level
<1>2. /\ TypeOK /\ la \in LA /\ la \in Adr /\ la[1] = 0 /\ TestTables /\ DuringCall
      /\ at \notin {5, 21} => HasPte(la)
  BY <1>1, CallFacts
<1>3. at \in {5, 21} => \E p, q \in free : p # q
  BY <1>1, <1>2 DEF DuringCall
<1>4. UNCHANGED at
  BY DEF testvars
<1>5. CASE Valid(mem[Root][la[1]])
  <2>1. op' = "pdep0" /\ UNCHANGED <<free, mem, args>>
    BY <1>5 DEF get_pte1, get_pte_level
  <2>2. TestTables'
    BY <1>2, <1>4, <2>1, TestTablesKept
  <2>3. \A p : IsTable(p)' <=> IsTable(p)
    BY <2>1, SameTables
  <2>4. \A a \in LA : get_page(a)' = get_page(a)
    BY <2>1, SameTables
  <2> QED
    BY <1>1, <1>3, <2>1, <2>2, <2>3, <2>4, CallGoesOn
<1>6. CASE ~ Valid(mem[Root][la[1]])
  <2>1. ~ Valid(Pdep1(la))
    BY <1>6 DEF Pdep1
  <2>2. at \in {5, 21}
    BY <1>2, <2>1, WalkTypes
  <2>3. PICK q \in free : /\ mem' = [mem EXCEPT ![q] = Zero, ![Root][la[1]] = Pte(q, Table)]
                          /\ op' = "pdep0" /\ UNCHANGED args /\ free' = free \ {q}
    BY <1>3, <1>6, <2>2 DEF get_pte1, get_pte_level, ClearedTable
  <2>4. q \in Page /\ ~ IsTable(q)
    BY <1>2 DEF IInv, TablesKept, TypeOK
  <2>5. \A a \in Adr : /\ Pdep1(a)' = IF a[1] = la[1] THEN Pte(q, Table) ELSE Pdep1(a)
                       /\ Pdep0(a)' = IF a[1] = la[1] THEN NULL ELSE Pdep0(a)
                       /\ get_page(a)' = get_page(a)
    BY <1>2, <2>1, <2>3, <2>4, Level1Effect
  <2>9. \A a \in Adr : HasPte(a)' => HasPte(a)
    BY <2>5, EntryFacts DEF HasPte
  <2>6. TestTables'
    BY <1>2, <1>4, <2>2, <2>3, <2>4, <2>5, <2>9, EntryFacts DEF TestTables
  <2>7. free' # {}
    BY <1>3, <2>2, <2>3
  <2>8. at \notin 7 .. 15
    BY <2>2
  <2> QED
    BY <1>1, <2>3, <2>5, <2>6, <2>7, <2>8, AddressFacts, CallGoesOn
<1> QED
  BY <1>5, <1>6

\* The steps of get_pte one level down.
LEMMA TestGetPte0 ==
    ASSUME IInv, ScriptInv, Testing, get_pte0, UNCHANGED testvars
    PROVE  ScriptInv'
<1>1. op = "pdep0" /\ UNCHANGED <<held, tlb>>
  BY DEF get_pte0, get_pte_level
<1>2. /\ TypeOK /\ la \in LA /\ la \in Adr /\ la[2] = 0 /\ TestTables /\ DuringCall
      /\ at \notin {5, 21} => HasPte(la)
  BY <1>1, CallFacts
<1>3. at \in {5, 21} => free # {}
  BY <1>1, <1>2 DEF DuringCall
<1>4. UNCHANGED at /\ Valid(Pdep1(la)) /\ Tree
  BY <1>1 DEF testvars, IInv, CallPosition
<1>5. CASE Valid(mem[Pdep1(la).page][la[2]])
  <2>1. op' = "found" /\ UNCHANGED <<free, mem, args>>
    BY <1>5 DEF get_pte0, get_pte_level
  <2>2. TestTables'
    BY <1>2, <1>4, <2>1, TestTablesKept
  <2>3. \A p : IsTable(p)' <=> IsTable(p)
    BY <2>1, SameTables
  <2>4. \A a \in LA : get_page(a)' = get_page(a)
    BY <2>1, SameTables
  <2> QED
    BY <1>1, <1>3, <2>1, <2>2, <2>3, <2>4, CallGoesOn
<1>6. CASE ~ Valid(mem[Pdep1(la).page][la[2]])
  <2>1. ~ Valid(Pdep0(la))
    BY <1>4, <1>6 DEF Pdep0
  <2>2. at \in {5, 21}
    BY <1>2, <2>1 DEF HasPte
  <2>3. PICK q \in free : /\ mem' = [mem EXCEPT ![q] = Zero, ![Pdep1(la).page][la[2]] = Pte(q, Table)]
                          /\ op' = "found" /\ UNCHANGED args /\ free' = free \ {q}
    BY <1>3, <1>6, <2>2 DEF get_pte0, get_pte_level, ClearedTable
  <2>4. q \in Page /\ ~ IsTable(q)
    BY <1>2 DEF IInv, TablesKept, TypeOK
  <2>5. \A a \in Adr :
            /\ Pdep1(a)' = Pdep1(a)
            /\ Pdep0(a)' = IF a[1] = la[1] /\ a[2] = la[2] THEN Pte(q, Table) ELSE Pdep0(a)
            /\ get_page(a)' = get_page(a)
    BY <1>2, <1>4, <2>1, <2>3, <2>4, Level0Effect
  <2>9. \A a \in Adr : HasPte(a)' => HasPte(a) \/ a[2] = 0
    BY <1>2, <2>5 DEF HasPte
  <2>6. TestTables'
    BY <1>2, <1>4, <2>2, <2>3, <2>5, <2>9 DEF TestTables
  <2>8. at \notin 7 .. 15
    BY <2>2
  <2> QED
    BY <1>1, <2>3, <2>5, <2>6, <2>8, AddressFacts, CallGoesOn
<1> QED
  BY <1>5, <1>6

\* A call returns: page_insert with 0, and its address is mapped as the next line expects.
LEMMA TestReturns ==
    ASSUME IInv, ScriptInv, Testing, op # "idle", NEW r, Return(r),
           UNCHANGED <<testvars, mem, held>>,
           held = {}, at \in AfterInsert => r = 0,
           HasPte(la), get_page(la) = Expected(at, la)
    PROVE  ScriptInv'
<1>1. /\ UNCHANGED <<at, p1, p2, nr_free_store, failed>> /\ op' = "idle" /\ ret' = r
      /\ TestPages /\ TestStored /\ TestTables /\ DuringCall
      /\ la \in {A0, A1} /\ at \in AfterInsert \union AfterRemove
  BY CallFacts DEF testvars, Return
<1>2. HasPte(A0)
  BY <1>1, OneTable
<1>3. TestTables'
  BY <1>1, <1>2, TestTablesKept
<1>4. TestPages'
  BY <1>1, SameTables, TestPagesKept
<1>5. TestStored' /\ DuringCall'
  BY <1>1 DEF TestStored, DuringCall
<1>6. BetweenCalls'
  <2>1. \A a \in LA : get_page(a) = Expected(at, a)
    BY <1>1 DEF DuringCall
  <2>2. \A a \in LA : get_page(a)' = Expected(at, a)'
    BY <1>1, <2>1, SameTables DEF Expected
  <2>3. ExpectedHeld(at)' = {}
    BY <1>1 DEF ExpectedHeld, AfterInsert, AfterRemove
  <2> QED
    BY <1>1, <2>2, <2>3 DEF BetweenCalls
<1> QED
  BY <1>1, <1>3, <1>4, <1>5, <1>6 DEF ScriptInv

\* Steps of a call that write no table.
LEMMA TestQuietSteps ==
    ASSUME IInv, ScriptInv, Testing, UNCHANGED testvars,
           \/ InsertFound \/ InsertFlush \/ RemoveUnref
           \/ RemoveFlush /\ page # NULL
    PROVE  ScriptInv'
<1>1. /\ op # "idle" /\ op' # "idle" /\ op' # "pdep1" /\ op' # "pdep0"
      /\ UNCHANGED <<held, mem, args>> /\ (op' \in {"flush", "done"} => op = "flush")
  BY DEF InsertFound, InsertFlush, RemoveUnref, RemoveFlush
<1>2. TestTables /\ DuringCall
  BY <1>1, CallFacts
<1>3. held' \subseteq held /\ (op' \in {"flush", "done"} => held' = {})
  BY <1>1, <1>2 DEF DuringCall
<1>4. UNCHANGED at
  BY DEF testvars
<1>5. TestTables'
  BY <1>1, <1>2, <1>4, TestTablesKept
<1>6. (\A p : IsTable(p)' <=> IsTable(p)) /\ \A a \in LA : get_page(a)' = get_page(a)
  BY <1>1, SameTables
<1> QED
  BY <1>1, <1>3, <1>5, <1>6, CallGoesOn

\* Steps that write a pte.
LEMMA TestStores ==
    ASSUME IInv, ScriptInv, Testing, UNCHANGED testvars, InsertSet \/ RemoveClear
    PROVE  ScriptInv'
<1>1. op \in {"set", "clear"} /\ op' \in {"flush", "invalidate"} /\ UNCHANGED args
  BY DEF InsertSet, RemoveClear, AfterSet
<1>2. /\ TypeOK /\ TestTables /\ DuringCall /\ la \in LA /\ la \in Adr /\ UNCHANGED at
      /\ Tree /\ HasPte(la)
  BY <1>1, CallFacts DEF testvars, IInv, CallPosition
<1>3. PICK e \in Entry : SetPte(e)
  BY EntryFacts DEF InsertSet, RemoveClear, IInv, CallPosition
<1>4. /\ \A a \in Adr : Pdep1(a)' = Pdep1(a) /\ Pdep0(a)' = Pdep0(a)
      /\ \A a \in Adr : get_page(a)' = IF a = la THEN e ELSE get_page(a)
  BY <1>2, <1>3, SetPteEffect
<1>5. \A a \in Adr : HasPte(a)' <=> HasPte(a)
  BY <1>4 DEF HasPte
<1>6. \A p : IsTable(p)' <=> IsTable(p)
  BY <1>4, <1>5 DEF IsTable
<1>7. TestTables'
  BY <1>1, <1>2, <1>4, <1>5, Addresses DEF TestTables
<1>8. held' \subseteq held /\ (op' \in {"flush", "done"} => held' = {})
  BY <1>1, <1>2 DEF InsertSet, RemoveClear, DuringCall
<1> QED
  BY <1>1, <1>4, <1>6, <1>7, <1>8, AddressFacts, CallGoesOn

\* page_insert ends with the page mapped where the test expects it.
LEMMA TestInsertDone ==
    ASSUME IInv, ScriptInv, Testing, InsertDone, UNCHANGED testvars
    PROVE  ScriptInv'
<1>1. op = "done" /\ Return(0) /\ UNCHANGED <<held, mem>>
  BY DEF InsertDone
<1>2. /\ page # NULL /\ HasPte(la) /\ get_page(la) = Pte(page, perm)
      /\ at \in AfterInsert /\ DuringCall /\ at \in 1 .. 25
  BY <1>1, CallFacts DEF IInv, CallPosition
<1>3. held = {} /\ la = CallLa(at) /\ page = CallPage(at) /\ perm = CallPerm(at)
  BY <1>1, <1>2 DEF DuringCall
<1>4. Expected(at, CallLa(at)) = Pte(CallPage(at), CallPerm(at))
  BY <1>2, Addresses DEF Expected, CallLa, CallPage, CallPerm, AfterInsert, AfterRemove
<1> QED
  BY <1>1, <1>2, <1>3, <1>4, TestReturns

\* page_remove ends with nothing mapped at its address.
LEMMA TestRemoveFlush ==
    ASSUME IInv, ScriptInv, Testing, RemoveFlush, UNCHANGED testvars
    PROVE  ScriptInv'
<1>1. op = "invalidate" /\ UNCHANGED <<held, mem>>
  BY DEF RemoveFlush
<1>2. CASE page # NULL
  BY <1>2, TestQuietSteps
<1>3. CASE page = NULL
  <2>1. Return(ret)
    BY <1>3 DEF RemoveFlush
  <2>2. /\ HasPte(la) /\ ~ Valid(get_page(la)) /\ la = CallLa(at) /\ CallPage(at) = NULL
        /\ at \in AfterInsert \union AfterRemove /\ DuringCall /\ TestPages /\ at \in 1 .. 25
    BY <1>1, <1>3, CallFacts DEF IInv, CallPosition, DuringCall
  <2>3. at \in AfterRemove
    BY <2>2, PageTableAssumption DEF CallPage, TestPages, AfterInsert, AfterRemove
  <2>4. held = {}
    <3>1. held \subseteq {NULL}
      BY <1>1, <1>3, <2>2 DEF DuringCall
    <3>2. held \subseteq Page /\ NULL \notin Page
      BY PageTableAssumption DEF IInv, TypeOK
    <3> QED
      BY <3>1, <3>2
  <2>5. Expected(at, la) = NULL
    BY <2>2, <2>3, Addresses DEF Expected, CallLa, AfterRemove
  <2>6. get_page(la) = NULL /\ at \notin AfterInsert
    BY <2>2, <2>3 DEF Valid, AfterInsert, AfterRemove
  <2> QED
    BY <1>1, <2>1, <2>2, <2>4, <2>5, <2>6, TestReturns
<1> QED
  BY <1>2, <1>3

\* What the invariant does not read may change.
LEMMA TestStutters ==
    ASSUME ScriptInv,
           UNCHANGED <<free, held, mem, op, la, page, perm, ret, at, p1, p2, nr_free_store, failed>>
    PROVE  ScriptInv'
<1>1. /\ \A b \in Adr : Pdep1(b)' = Pdep1(b) /\ (HasPte(b)' <=> HasPte(b))
      /\ \A b \in LA : get_page(b)' = get_page(b)
      /\ \A p : IsTable(p)' <=> IsTable(p)
  BY SameTables
<1>2. ASSUME TestPages, TestTables PROVE TestPages' /\ TestTables'
  BY <1>1, <1>2, Addresses DEF TestPages, TestTables
<1>3. ASSUME BetweenCalls PROVE BetweenCalls'
  BY <1>1, <1>3 DEF BetweenCalls, Expected, ExpectedHeld
<1>4. ASSUME DuringCall PROVE DuringCall'
  BY <1>1, <1>4 DEF DuringCall, Expected, CallLa, CallPage, CallPerm
<1> QED
  BY <1>2, <1>3, <1>4 DEF ScriptInv, Testing, TestStored

\* A fill of the TLB changes nothing that the tests look at.
LEMMA TestTlbFill ==
    ASSUME ScriptInv, NEW a \in LA, TlbFill(a), UNCHANGED testvars
    PROVE  ScriptInv'
BY TestStutters DEF TlbFill, args, testvars

\* Each step of a call keeps what the tests rely on.
LEMMA TestCallStep ==
    ASSUME IInv, ScriptInv, Testing, CallStep, ~ FreeTablesStep, UNCHANGED testvars
    PROVE  ScriptInv'
<1>1. CASE get_pte1 \/ get_pte0
  BY <1>1, TestGetPte1, TestGetPte0
<1>2. CASE InsertFound \/ InsertFlush \/ RemoveUnref
  BY <1>2, TestQuietSteps
<1>3. CASE InsertSet \/ RemoveClear
  BY <1>3, TestStores
<1>4. CASE InsertDone
  BY <1>4, TestInsertDone
<1>5. CASE RemoveFlush
  BY <1>5, TestRemoveFlush
<1>6. CASE \E a \in LA : TlbFill(a)
  BY <1>6, TestTlbFill
<1> QED
  BY <1>1, <1>2, <1>3, <1>4, <1>5, <1>6 DEF CallStep

-----------------------------------------------------------------------------
(* The lines of the tests *)

\* A line is done, and the next one is reached with no call in progress.
LEMMA TestLine ==
    ASSUME ScriptInv, Testing, at' = at + 1, op' = "idle", failed' = failed,
           TestPages', TestStored', TestTables', BetweenCalls'
    PROVE  ScriptInv'
<1>1. at' \in 1 .. 26
  BY TestingLines DEF ScriptInv
<1>2. DuringCall'
  BY DEF DuringCall
<1> QED
  BY <1>1, <1>2 DEF ScriptInv

\* With no table, the pages that are not held are free.
LEMMA RestFree ==
    ASSUME IInv, op = "idle", \A a \in Adr : ~ Valid(Pdep1(a))
    PROVE  free = Page \ held
<1>1. \A p \in Page : ~ IsTable(p) /\ Pending(p) = 0 /\ Dropped(p) = 0
  BY IdleFacts, WalkTypes DEF IsTable, IInv
<1>2. \A a \in LA : ~ Valid(get_page(a))
  BY WalkTypes, AddressFacts DEF IInv
<1>3. ASSUME NEW p \in Page \ held PROVE p \in free
  <2>1. Mappings(p) = {}
    BY <1>2 DEF Mappings
  <2>2. Cardinality(Mappings(p)) = 0
    BY <2>1, FS_EmptySet
  <2>3. ref[p] + 0 = 0 + 0 /\ ref[p] \in Int
    BY <1>1, <2>2 DEF IInv, Counts, TypeOK
  <2> QED
    BY <2>3 DEF IInv, Owned
<1>4. free \subseteq Page /\ free \intersect held = {}
  BY DEF IInv, TypeOK, Owned
<1> QED
  BY <1>3, <1>4

\* Beside a page there are two more.
LEMMA TwoMore ==
    ASSUME NEW p \in Page
    PROVE  \E q, r \in Page \ {p} : q # r
<1>1. IsFiniteSet(Page) /\ Cardinality(Page) >= 4 /\ Cardinality(Page) \in Nat
  BY PageTableAssumption, CheckAssumption, FS_CardinalityType
<1>2. IsFiniteSet(Page \ {p}) /\ Cardinality(Page \ {p}) = Cardinality(Page) - 1
  BY <1>1, FS_RemoveElement
<1>3. Page \ {p} # {}
  BY <1>1, <1>2, FS_EmptySet
<1>4. PICK q \in Page \ {p} : TRUE
  BY <1>3
<1>5. Cardinality((Page \ {p}) \ {q}) = Cardinality(Page) - 2 /\ IsFiniteSet((Page \ {p}) \ {q})
  <2>1. PICK S : S = Page \ {p}
    OBVIOUS
  <2>2. IsFiniteSet(S \ {q}) /\ Cardinality(S \ {q}) = Cardinality(S) - 1
    BY <1>2, <1>4, <2>1, FS_RemoveElement
  <2> QED
    BY <1>1, <1>2, <2>1, <2>2
<1>6. (Page \ {p}) \ {q} # {}
  BY <1>1, <1>5, FS_EmptySet
<1> QED
  BY <1>4, <1>6

\* nr_free_store is taken while every page is free.
LEMMA TestStoreLine ==
    ASSUME IInv, ScriptInv, TestStore
    PROVE  ScriptInv'
<1>1. /\ op = "idle" /\ Script[at].do = "store" /\ Testing /\ at' = at + 1
      /\ nr_free_store' = Cardinality(free) /\ UNCHANGED <<vars, p1, p2, failed>>
  BY DEF TestStore, Now, Then
<1>2. at \in 1 .. 25 /\ TestPages /\ TestTables /\ BetweenCalls
  BY <1>1, TestingLines DEF ScriptInv
<1>3. at = 1 \/ at = 17
  BY <1>1, <1>2, WhichLine
<1>4. UNCHANGED <<free, held, mem, op, ret>>
  BY <1>1 DEF vars
<1>6. free = Page
  BY <1>1, <1>2, <1>3, RestFree DEF TestTables, BetweenCalls, ExpectedHeld
<1>7. TestPages' /\ TestStored'
  BY <1>1, <1>3, <1>6 DEF TestPages, TestStored
<1>8. TestTables'
  BY <1>1, <1>2, <1>3, <1>4, SameTables, Addresses DEF TestTables
<1>9. BetweenCalls'
  <2>1. \A a \in LA : get_page(a)' = Expected(at, a)
    BY <1>1, <1>2, <1>4, SameTables DEF BetweenCalls
  <2>2. \A a \in LA : Expected(at, a) = Expected(at, a)'
    BY <1>1, <1>3 DEF Expected
  <2>3. ExpectedHeld(at)' = ExpectedHeld(at) /\ at' \notin AfterInsert
    BY <1>1, <1>3 DEF ExpectedHeld, AfterInsert
  <2> QED
    BY <1>1, <1>2, <1>4, <2>1, <2>2, <2>3 DEF BetweenCalls
<1> QED
  BY <1>1, <1>4, <1>7, <1>8, <1>9, TestLine

\* The test's pages are those that the call is about, and the rest stays.
LEMMA TestInsertLine ==
    ASSUME IInv, ScriptInv, Now("insert"), Then, UNCHANGED <<p1, p2, nr_free_store, failed>>,
           page_insert(PageNo(Script[at].p), Script[at].a, Script[at].perm)
    PROVE  ScriptInv'
<1>1. /\ op = "idle" /\ Script[at].do = "insert" /\ Testing /\ at' = at + 1
      /\ op' = "pdep1" /\ UNCHANGED <<free, held, mem, ret>>
      /\ la' = Script[at].a /\ page' = PageNo(Script[at].p) /\ perm' = Script[at].perm
  BY DEF Now, Then, page_insert
<1>2. at \in 1 .. 25 /\ TestPages /\ TestStored /\ TestTables /\ BetweenCalls
  BY <1>1, TestingLines DEF ScriptInv
<1>3. at = 4 \/ at = 7 \/ at = 9 \/ at = 20 \/ at = 22
  BY <1>1, <1>2, WhichLine
<1>4. /\ at + 1 \in AfterInsert /\ at + 1 \notin AfterRemove
      /\ la' = CallLa(at + 1) /\ page' = CallPage(at + 1) /\ perm' = CallPerm(at + 1)
  BY <1>1, <1>2, CallLines
<1>5. /\ \A a \in Adr : Pdep1(a)' = Pdep1(a) /\ (HasPte(a)' <=> HasPte(a))
      /\ \A a \in LA : get_page(a)' = get_page(a)
      /\ \A p : IsTable(p)' <=> IsTable(p)
  BY <1>1, SameTables
<1>6. TestPages'
  <2>1. at = 7 => ~ IsTable(p1) /\ ~ IsTable(p2)
    BY <1>1, <1>2 DEF TestPages
  <2> QED
    BY <1>1, <1>2, <1>3, <1>5, <2>1 DEF TestPages
<1>7. TestStored'
  BY <1>1, <1>2, <1>3 DEF TestStored
<1>8. TestTables'
  <2>1. at \in {7, 9, 22} => HasPte(A0)
    BY <1>1, <1>2 DEF TestTables
  <2> QED
    BY <1>1, <1>2, <1>3, <1>5, <2>1, Addresses DEF TestTables
<1>9. BetweenCalls'
  BY <1>1 DEF BetweenCalls
<1>10. DuringCall'
  <2>1. ASSUME NEW a \in LA, a # CallLa(at + 1) PROVE get_page(a)' = Expected(at, a)'
    <3>1. get_page(a) = Expected(at, a)
      BY <1>1, <1>2 DEF BetweenCalls
    <3>2. Expected(at, a)' = Expected(at, a)
      BY <1>1, <1>3, <2>1, Addresses DEF Expected, CallLa
    <3> QED
      BY <1>5, <3>1, <3>2
  <2>2. held \subseteq {CallPage(at + 1)}
    BY <1>1, <1>2, <1>3 DEF BetweenCalls, ExpectedHeld, CallPage, AfterRemove
  <2>3. at \in {4, 20} => \E p, q \in free : p # q
    <3> SUFFICES ASSUME at \in {4, 20} PROVE \E p, q \in free : p # q
      OBVIOUS
    <3>1. held = {p1} /\ p1 \in Page /\ \A a \in Adr : ~ Valid(Pdep1(a))
      BY <1>1, <1>2 DEF BetweenCalls, ExpectedHeld, TestPages, TestTables
    <3>2. free = Page \ {p1}
      BY <1>1, <3>1, RestFree
    <3>3. \E p, q \in Page \ {p1} : p # q
      BY <3>1, TwoMore
    <3> QED
      BY <3>2, <3>3
  <2>4. /\ CallLa(at)' = CallLa(at + 1) /\ CallPage(at)' = CallPage(at + 1)
        /\ CallPerm(at)' = CallPerm(at + 1)
    BY <1>1 DEF CallLa, CallPage, CallPerm
  <2> QED
    BY <1>1, <1>3, <1>4, <2>1, <2>2, <2>3, <2>4 DEF DuringCall
<1> QED
  BY <1>1, <1>2, <1>6, <1>7, <1>8, <1>9, <1>10 DEF ScriptInv

\* A line that removes a mapping starts a call of page_remove.
LEMMA TestRemoveLine ==
    ASSUME IInv, ScriptInv, Now("remove"), Then, UNCHANGED <<p1, p2, nr_free_store, failed>>,
           page_remove(Script[at].a)
    PROVE  ScriptInv'
<1>1. /\ op = "idle" /\ Script[at].do = "remove" /\ Testing /\ at' = at + 1
      /\ op' = "remove" /\ UNCHANGED <<free, held, mem, ret, page, perm>>
      /\ la' = Script[at].a
  BY DEF Now, Then, page_remove
<1>2. at \in 1 .. 25 /\ TestPages /\ TestStored /\ TestTables /\ BetweenCalls
  BY <1>1, TestingLines DEF ScriptInv
<1>3. at = 11 \/ at = 13
  BY <1>1, <1>2, WhichLine
<1>4. at + 1 \in AfterRemove /\ la' = CallLa(at + 1) /\ page = NULL
  BY <1>1, <1>2, CallLines DEF IInv, CallPosition
<1>5. /\ \A a \in Adr : Pdep1(a)' = Pdep1(a) /\ (HasPte(a)' <=> HasPte(a))
      /\ \A a \in LA : get_page(a)' = get_page(a)
      /\ \A p : IsTable(p)' <=> IsTable(p)
  BY <1>1, SameTables
<1>6. TestPages' /\ TestStored'
  BY <1>1, <1>2, <1>3, <1>5 DEF TestPages, TestStored
<1>7. TestTables'
  BY <1>1, <1>2, <1>3, <1>5, Addresses DEF TestTables
<1>8. DuringCall'
  <2>1. ASSUME NEW a \in LA, a # CallLa(at + 1) PROVE get_page(a)' = Expected(at, a)'
    <3>1. get_page(a) = Expected(at, a)
      BY <1>1, <1>2 DEF BetweenCalls
    <3>2. Expected(at, a)' = Expected(at, a)
      BY <1>1, <1>3, <2>1, Addresses DEF Expected, CallLa
    <3> QED
      BY <1>5, <3>1, <3>2
  <2>2. held = {}
    BY <1>1, <1>2, <1>3 DEF BetweenCalls, ExpectedHeld
  <2>3. CallLa(at)' = CallLa(at + 1) /\ CallPage(at)' = NULL
    BY <1>1, <1>3 DEF CallLa, CallPage, AfterRemove
  <2>4. at' \in AfterRemove /\ at' \notin {5, 21} /\ page' = NULL
    BY <1>1, <1>3, <1>4
  <2> QED
    BY <1>1, <1>4, <2>1, <2>2, <2>3, <2>4 DEF DuringCall
<1>9. BetweenCalls'
  BY <1>1 DEF BetweenCalls
<1> QED
  BY <1>1, <1>2, <1>6, <1>7, <1>8, <1>9 DEF ScriptInv

\* alloc_page finds a page, apart from those the test has.
LEMMA TestAllocLine ==
    ASSUME IInv, ScriptInv, TestAlloc
    PROVE  ScriptInv'
<1>1. /\ op = "idle" /\ Script[at].do = "alloc" /\ Testing /\ at' = at + 1
      /\ UNCHANGED <<nr_free_store, failed>>
  BY DEF TestAlloc, Now, Then
<1>2. at \in 1 .. 25 /\ TestPages /\ TestStored /\ TestTables /\ BetweenCalls /\ TypeOK
  BY <1>1, TestingLines DEF ScriptInv, IInv
<1>3. at = 3 \/ at = 6 \/ at = 19
  BY <1>1, <1>2, WhichLine
<1>4. PICK q \in Page :
        /\ AllocPage(q)
        /\ IF Script[at].p = 1 THEN p1' = q /\ UNCHANGED p2 ELSE p2' = q /\ UNCHANGED p1
  BY DEF TestAlloc
<1>5. /\ q \in free /\ held' = held \union {q} /\ mem' = [mem EXCEPT ![q] = Data(q)]
      /\ UNCHANGED <<op, ret>> /\ ~ IsTable(q)
  BY <1>4 DEF AllocPage, args, IInv, TablesKept
<1>6. /\ at = 6 => p2' = q /\ UNCHANGED p1
      /\ at # 6 => p1' = q /\ UNCHANGED p2
  <2>1. Script[3].p = 1 /\ Script[6].p = 2 /\ Script[19].p = 1
    BY ScriptLines, Zenon
  <2> QED
    BY <1>3, <1>4, <2>1
<1>7. \A a \in Adr : Pdep1(a)' = Pdep1(a) /\ Pdep0(a)' = Pdep0(a) /\ get_page(a)' = get_page(a)
  <2>1. Data(q) \in [Index -> Entry]
    BY EntryFacts DEF Data
  <2> QED
    BY <1>2, <1>5, <2>1, DataEffect
<1>8. \A p : IsTable(p)' <=> IsTable(p)
  BY <1>7, SameWalk
<1>9. at = 6 => p1 \in Page /\ p1 # q /\ ~ IsTable(p1) /\ get_page(A0) = Pte(p1, Kernel)
  <2> SUFFICES ASSUME at = 6
               PROVE  p1 \in Page /\ p1 # q /\ ~ IsTable(p1) /\ get_page(A0) = Pte(p1, Kernel)
    OBVIOUS
  <2>1. p1 \in Page /\ get_page(A0) = Pte(p1, Kernel)
    BY <1>1, <1>2, Addresses DEF TestPages, BetweenCalls, Expected
  <2> QED
    BY <1>1, <1>5, <2>1, MappedFacts, Addresses, CheckAssumption
<1>10. TestPages'
  BY <1>1, <1>3, <1>6, <1>8, <1>9, <1>5 DEF TestPages
<1>11. TestStored'
  BY <1>1, <1>2, <1>3 DEF TestStored
<1>12. TestTables'
  <2>1. at = 6 => HasPte(A0)
    BY <1>2 DEF TestTables
  <2>2. (HasPte(A0)' <=> HasPte(A0)) /\ \A a \in Adr : HasPte(a)' <=> HasPte(a)
    BY <1>7, Addresses DEF HasPte
  <2> QED
    BY <1>1, <1>2, <1>3, <1>7, <2>1, <2>2 DEF TestTables
<1>13. BetweenCalls'
  <2>1. \A a \in LA : get_page(a)' = Expected(at, a)
    BY <1>1, <1>2, <1>7, AddressFacts DEF BetweenCalls
  <2>2. \A a \in LA : Expected(at, a)' = Expected(at, a)
    BY <1>1, <1>3, <1>6, Addresses DEF Expected
  <2>3. held = {} /\ ExpectedHeld(at)' = {q} /\ at' \notin AfterInsert
    BY <1>1, <1>2, <1>3, <1>6 DEF BetweenCalls, ExpectedHeld, AfterInsert
  <2> QED
    BY <1>1, <1>5, <2>1, <2>2, <2>3 DEF BetweenCalls
<1> QED
  BY <1>1, <1>5, <1>10, <1>11, <1>12, <1>13, TestLine

\* The last line but one of a test begins to give back its page and tables.
LEMMA TestFreeLine ==
    ASSUME IInv, ScriptInv, Now("free"), Then, UNCHANGED <<p1, p2, nr_free_store, failed>>,
           FreeTables(PageNo(Script[at].p))
    PROVE  op' \in Freeing /\ ScriptFreeing'
<1>1. /\ op = "idle" /\ Script[at].do = "free" /\ Testing /\ at' = at + 1
      /\ UNCHANGED <<held, mem>> /\ op' \in {"free_p", "free_pd0"}
  BY DEF Now, Then, FreeTables
<1>2. at \in 1 .. 25 /\ TestStored /\ TestTables /\ BetweenCalls /\ failed = FALSE
  BY <1>1, TestingLines DEF ScriptInv
<1>3. at = 15 \/ at = 24
  BY <1>1, <1>2, WhichLine
<1>4. nr_free_store = Cardinality(Page) /\ held = {}
  BY <1>1, <1>2, <1>3 DEF TestStored, BetweenCalls, ExpectedHeld
<1>5. \A a \in Adr : Valid(Pdep1(a))' => a[1] = 0
  BY <1>1, <1>2, SameTables DEF TestTables
<1> QED
  BY <1>1, <1>2, <1>3, <1>4, <1>5 DEF ScriptFreeing, Freeing

\* It goes on with that,
LEMMA TestFreesOn ==
    ASSUME ScriptFreeing, op # "flush_tlb", op' # "flush_tlb", UNCHANGED <<held, mem, testvars>>
    PROVE  ScriptFreeing'
BY SameTables DEF ScriptFreeing, testvars

\* clears the root,
LEMMA TestClearsRoot ==
    ASSUME FreeingInv, ScriptFreeing, ClearRoot, UNCHANGED testvars
    PROVE  ScriptFreeing'
<1>1. TypeOK /\ held' = held /\ mem' = [mem EXCEPT ![Root][0] = NULL]
  BY DEF ClearRoot, FreeingInv
<1>2. \A a \in Adr : Pdep1(a)' = IF a[1] = 0 THEN NULL ELSE Pdep1(a)
  BY <1>1, FreeTablesEffect
<1>3. \A a \in Adr : ~ Valid(Pdep1(a))'
  BY <1>2, EntryFacts DEF ScriptFreeing
<1> QED
  BY <1>1, <1>3 DEF ScriptFreeing, testvars

\* and flushes the TLB, with every page free.
LEMMA TestFlushes ==
    ASSUME FreeingInv, ScriptFreeing, FlushAll, UNCHANGED testvars
    PROVE  ScriptInv'
<1>1. /\ op = "flush_tlb" /\ op' = "idle" /\ UNCHANGED <<free, held, mem>> /\ TypeOK
      /\ UNCHANGED <<at, p1, p2, nr_free_store, failed>>
  BY DEF FlushAll, Return, FreeingInv, testvars
<1>2. /\ at \in {16, 25} /\ failed = FALSE /\ nr_free_store = Cardinality(Page) /\ held = {}
      /\ \A a \in Adr : ~ Valid(Pdep1(a))
  BY <1>1 DEF ScriptFreeing
<1>3. /\ \A a \in Adr : ~ Valid(Pdep1(a)) /\ ~ HasPte(a)
      /\ \A a \in LA : get_page(a) = NULL
  BY <1>1, <1>2, WalkTypes, AddressFacts DEF Valid
<1>4. /\ \A a \in Adr : ~ Valid(Pdep1(a))' /\ ~ HasPte(a)'
      /\ \A a \in LA : get_page(a)' = NULL
  BY <1>1, <1>3, SameTables
<1>5. TestPages' /\ TestStored' /\ DuringCall'
  BY <1>1, <1>2 DEF TestPages, TestStored, DuringCall
<1>6. TestTables'
  BY <1>1, <1>2, <1>4 DEF TestTables
<1>7. BetweenCalls'
  <2>1. \A a \in LA : Expected(at, a)' = NULL
    BY <1>1, <1>2 DEF Expected
  <2>2. ExpectedHeld(at)' = {} /\ at' \notin AfterInsert
    BY <1>1, <1>2 DEF ExpectedHeld, AfterInsert
  <2> QED
    BY <1>1, <1>2, <1>4, <2>1, <2>2 DEF BetweenCalls
<1> QED
  BY <1>1, <1>2, <1>5, <1>6, <1>7 DEF ScriptInv

\* The steps of the tests while the tables are being freed.
LEMMA TestFreeingSteps ==
    ASSUME FreeingInv, ScriptFreeing, Testing, ChecksInv, [Next]_vars, UNCHANGED testvars
    PROVE  ChecksInv'
<1>1. op \in Freeing /\ Testing' /\ at' \in 1 .. 26 /\ failed' = FALSE
  BY DEF FreeingInv, Testing, testvars, ChecksInv
<1>2. CASE FreeMapped \/ FreeLower \/ FreeUpper
  <2>1. op # "flush_tlb" /\ op' \in {"free_pd0", "free_pd1", "clear_pd1"} /\ UNCHANGED <<held, mem>>
    BY <1>2 DEF FreeMapped, FreeLower, FreeUpper
  <2>2. ScriptFreeing'
    BY <2>1, TestFreesOn
  <2> QED
    BY <1>1, <2>1, <2>2 DEF ChecksInv, Freeing
<1>3. CASE ClearRoot
  <2>1. op' = "flush_tlb" /\ ScriptFreeing'
    BY <1>3, TestClearsRoot DEF ClearRoot
  <2> QED
    BY <1>1, <2>1 DEF ChecksInv, Freeing
<1>4. CASE FlushAll
  <2>1. op' = "idle" /\ ScriptInv'
    BY <1>4, TestFlushes DEF FlushAll, Return
  <2> QED
    BY <1>1, <2>1 DEF ChecksInv, Freeing
<1>5. CASE UNCHANGED <<held, mem, op>>
  <2>1. ScriptFreeing'
    BY <1>5, SameTables DEF ScriptFreeing, testvars
  <2> QED
    BY <1>1, <1>5, <2>1 DEF ChecksInv
<1> QED
  BY <1>1, <1>2, <1>3, <1>4, <1>5, FreeingSteps DEF FreeTablesStep

-----------------------------------------------------------------------------
(* The assertions *)

\* page->ref of a page whose mappings are known.
LEMMA RefsAt ==
    ASSUME IInv, op = "idle", NEW p \in Page, ~ IsTable(p), NEW S, Mappings(p) = S
    PROVE  /\ S = {} => ref[p] = 0
           /\ S \in {{A0}, {A1}} => ref[p] = 1
           /\ S = {A0, A1} => ref[p] = 2
<1>1. Pending(p) = 0 /\ Dropped(p) = 0 /\ ref[p] \in Int
  BY IdleFacts DEF IInv, TypeOK
<1>2. ref[p] + 0 = Cardinality(S) + 0
  BY <1>1 DEF IInv, Counts
<1>3. IsFiniteSet(S) /\ Cardinality(S) \in Nat
  BY MappingFacts
<1>4. ref[p] = Cardinality(S)
  BY <1>1, <1>2, <1>3
<1>5. Cardinality({}) = 0 /\ Cardinality({A0}) = 1 /\ Cardinality({A1}) = 1 /\ IsFiniteSet({A0})
  BY FS_EmptySet, FS_Singleton
<1>6. Cardinality({A0} \union {A1}) = 2 /\ {A0} \union {A1} = {A0, A1}
  BY <1>5, Addresses, FS_AddElement
<1> QED
  BY <1>4, <1>5, <1>6

\* What check_pgdir finds at its lines, as page->ref and as translations.
LEMMA TestRefs ==
    ASSUME IInv, ScriptInv, Testing, op = "idle"
    PROVE  /\ at \in {5, 21} => ref[p1] = 1
           /\ at = 8 => ref[p2] = 1
           /\ at = 10 => ref[p1] = 2 /\ ref[p2] = 0
           /\ at = 12 => ref[p1] = 1 /\ ref[p2] = 0
           /\ at = 14 => ref[p1] = 0 /\ ref[p2] = 0
           /\ at = 23 => ref[p1] = 2
<1>1. at \in 1 .. 25 /\ TestPages /\ BetweenCalls /\ \A a \in LA : get_page(a) = Expected(at, a)
  BY TestingLines DEF ScriptInv, BetweenCalls
<1>2. A0 \in LA /\ A1 \in LA /\ A0 # A1
  BY Addresses
<1>3. /\ \A p \in Page, x \in {Kernel, User} : Valid(Pte(p, x)) /\ Pte(p, x).page = p
      /\ ~ Valid(NULL)
  BY EntryFacts, CheckAssumption
<1>4. at \in {5, 8, 10, 12, 14, 21, 23} => p1 \in Page
  BY <1>1 DEF TestPages
<1>5. at \in {8, 10, 12, 14} => p2 \in Page /\ p1 # p2 /\ ~ IsTable(p1) /\ ~ IsTable(p2)
  BY <1>1 DEF TestPages
<1>6. at \in {5, 21, 23} => ~ IsTable(p1)
  <2> SUFFICES ASSUME at \in {5, 21, 23} PROVE ~ IsTable(p1)
    OBVIOUS
  <2>1. get_page(A0) = Pte(p1, Kernel)
    BY <1>1, <1>2 DEF Expected
  <2> QED
    BY <1>2, <1>4, <2>1, MappedFacts, CheckAssumption
<1>7. at \in {5, 21} => Mappings(p1) = {A0}
  BY <1>1, <1>2, <1>3, <1>4 DEF Mappings, Expected
<1>8. at = 8 => Mappings(p2) = {A1}
  BY <1>1, <1>2, <1>3, <1>4, <1>5 DEF Mappings, Expected
<1>9. at \in {10, 23} => Mappings(p1) = {A0, A1}
  BY <1>1, <1>2, <1>3, <1>4 DEF Mappings, Expected
<1>10. at \in {10, 12, 14} => Mappings(p2) = {}
  BY <1>1, <1>2, <1>3, <1>4, <1>5 DEF Mappings, Expected
<1>11. at = 12 => Mappings(p1) = {A1}
  BY <1>1, <1>2, <1>3, <1>4 DEF Mappings, Expected
<1>12. at = 14 => Mappings(p1) = {}
  BY <1>1, <1>2, <1>3, <1>4 DEF Mappings, Expected
<1>13. at \in {5, 21} => ref[p1] = 1
  BY <1>4, <1>6, <1>7, RefsAt
<1>14. at = 8 => ref[p2] = 1
  BY <1>5, <1>8, RefsAt
<1>15. at \in {10, 23} => ref[p1] = 2
  BY <1>4, <1>5, <1>6, <1>9, RefsAt
<1>16. at \in {10, 12, 14} => ref[p2] = 0
  BY <1>5, <1>10, RefsAt
<1>17. at = 12 => ref[p1] = 1
  BY <1>4, <1>5, <1>11, RefsAt
<1>18. at = 14 => ref[p1] = 0
  BY <1>4, <1>5, <1>12, RefsAt
<1> QED
  BY <1>13, <1>14, <1>15, <1>16, <1>17, <1>18

\* Every assertion holds at its line.
LEMMA AssertionsHold ==
    ASSUME IInv, ScriptInv, Testing, op = "idle", Script[at].do \notin Calls
    PROVE  Holds(Script[at].do)
<1>1. /\ at \in 1 .. 25 /\ TestPages /\ TestStored /\ TestTables /\ BetweenCalls /\ TypeOK
      /\ \A a \in LA : get_page(a) = Expected(at, a)
      /\ at \in AfterInsert => ret = 0
  BY TestingLines DEF ScriptInv, BetweenCalls, IInv
<1>2. A0 \in LA /\ A1 \in LA /\ A0 # A1
  BY Addresses
<1>3. at \in 5 .. 15 => /\ HasPte(A0) /\ HasPte(A1) /\ Pdep1(A0) = mem[Root][0] /\ Valid(Pdep1(A0))
                        /\ Pdep0(A1) = mem[mem[Root][0].page][0]
  <2> SUFFICES ASSUME at \in 5 .. 15
               PROVE  /\ HasPte(A0) /\ HasPte(A1) /\ Pdep1(A0) = mem[Root][0] /\ Valid(Pdep1(A0))
                      /\ Pdep0(A1) = mem[mem[Root][0].page][0]
    OBVIOUS
  <2>1. HasPte(A0) /\ HasPte(A1) /\ Valid(Pdep1(A0)) /\ Valid(Pdep1(A1))
    BY <1>1, OneTable, WalkTypes, Addresses DEF TestTables
  <2>2. Pdep1(A0) = mem[Root][0] /\ Pdep1(A1) = mem[Root][0]
    BY AddressParts DEF Pdep1
  <2> QED
    BY <2>1, <2>2, AddressParts DEF Pdep0
<1>4. CASE at = 2
  <2>1. get_page(A0) = NULL
    BY <1>1, <1>2, <1>4 DEF Expected
  <2>2. Script[at].do = "nothing mapped"
    BY <1>4, ScriptLines, Zenon
  <2> QED
    BY <2>1, <2>2 DEF Holds
<1>5. CASE at = 5
  <2>1. ret = 0 /\ At(A0, p1, Kernel) /\ ref[p1] = 1
    BY <1>1, <1>2, <1>5, TestRefs, EntryFacts, CheckAssumption DEF Expected, AfterInsert, At, TestPages
  <2>2. Script[at].do = "p1 at 0"
    BY <1>5, ScriptLines, Zenon
  <2>3. HasPte(A1) /\ Pdep0(A1) = mem[mem[Root][0].page][0]
    BY <1>3, <1>5
  <2> QED
    BY <2>1, <2>2, <2>3 DEF Holds
<1>6. CASE at = 8
  <2>1. ret = 0 /\ At(A1, p2, User) /\ ref[p2] = 1
    BY <1>1, <1>2, <1>6, TestRefs, EntryFacts, CheckAssumption DEF Expected, AfterInsert, At, TestPages
  <2>2. mem[Root][0].perm = Table
    BY <1>1, <1>3, <1>6, Addresses DEF TestTables
  <2>3. Script[at].do = "p2 at PGSIZE"
    BY <1>6, ScriptLines, Zenon
  <2> QED
    BY <2>1, <2>2, <2>3 DEF Holds
<1>7. CASE at = 10
  <2>1. ret = 0 /\ At(A1, p1, Kernel) /\ Refs(2, 0)
    BY <1>1, <1>2, <1>7, TestRefs, EntryFacts, CheckAssumption DEF Expected, AfterInsert, At, TestPages, Refs
  <2>2. Script[at].do = "p1 at both"
    BY <1>7, ScriptLines, Zenon
  <2> QED
    BY <2>1, <2>2 DEF Holds
<1>8. CASE at = 12
  <2>1. Script[at].do = "p1 at PGSIZE"
    BY <1>8, ScriptLines, Zenon
  <2> QED
    BY <1>8, <2>1, TestRefs DEF Holds, Refs
<1>9. CASE at = 14
  <2>1. Script[at].do = "tables left"
    BY <1>9, ScriptLines, Zenon
  <2>2. ref[mem[Root][0].page] = 1
    <3>1. IsTable(mem[Root][0].page) /\ mem[Root][0].page \in Page
      BY <1>1, <1>3, <1>9, TablesOf, WalkTypes, Addresses
    <3> QED
      BY <3>1 DEF IInv, TablesKept
  <2> QED
    BY <1>9, <2>1, <2>2, TestRefs DEF Holds, Refs
<1>10. CASE at = 16 \/ at = 25
  <2>1. Script[at].do = "all free"
    BY <1>10, ScriptLines, Zenon
  <2>2. nr_free_store = Cardinality(Page)
    BY <1>1, <1>10 DEF TestStored
  <2>3. free = Page \ {}
    BY <1>1, <1>10, RestFree DEF BetweenCalls, ExpectedHeld, TestTables
  <2>4. free = Page
    BY <2>3
  <2> QED
    BY <2>1, <2>2, <2>4 DEF Holds
<1>11. CASE at = 18
  <2>1. Script[at].do = "root empty"
    BY <1>11, ScriptLines, Zenon
  <2>2. ~ Valid(mem[Root][0])
    <3>1. ~ Valid(Pdep1(A0))
      BY <1>1, <1>11, Addresses DEF TestTables
    <3> QED
      BY <3>1, AddressParts DEF Pdep1
  <2> QED
    BY <2>1, <2>2 DEF Holds
<1>12. CASE at = 21
  <2>1. Script[at].do = "p at one"
    BY <1>12, ScriptLines, Zenon
  <2>2. ret = 0 /\ ref[p1] = 1
    BY <1>1, <1>12, TestRefs DEF AfterInsert
  <2> QED
    BY <2>1, <2>2 DEF Holds
<1>13. CASE at = 23
  <2>1. Script[at].do = "p at two"
    BY <1>13, ScriptLines, Zenon
  <2>2. ret = 0 /\ ref[p1] = 2
    BY <1>1, <1>13, TestRefs DEF AfterInsert
  <2>3. \A a \in {A0, A1} : Translated(a).page = p1
    <3>1. p1 \in Page
      BY <1>1, <1>13 DEF TestPages
    <3>2. \A a \in {A0, A1} : get_page(a) = Pte(p1, Kernel)
      BY <1>1, <1>2, <1>13 DEF Expected
    <3>3. \A a \in LA : Valid(tlb[a]) => tlb[a] = get_page(a)
      BY IdleFacts
    <3> QED
      BY <1>2, <3>1, <3>2, <3>3, EntryFacts, CheckAssumption DEF Translated
  <2> QED
    BY <2>1, <2>2, <2>3 DEF Holds
<1>14. \/ at = 2 \/ at = 5 \/ at = 8 \/ at = 10 \/ at = 12 \/ at = 14 \/ at = 16 \/ at = 18
       \/ at = 21 \/ at = 23 \/ at = 25
  BY <1>1, WhichLine
<1> QED
  BY <1>4, <1>5, <1>6, <1>7, <1>8, <1>9, <1>10, <1>11, <1>12, <1>13, <1>14

\* So an assertion never sets failed.
LEMMA TestAssertLine ==
    ASSUME IInv, ScriptInv, TestAssert
    PROVE  ScriptInv'
<1>1. /\ op = "idle" /\ Script[at].do \notin Calls /\ Testing /\ at' = at + 1
      /\ failed' = ~ Holds(Script[at].do) /\ ~ failed /\ UNCHANGED vars
  BY DEF TestAssert, Then
<1>2. at \in 1 .. 25 /\ TestPages /\ TestStored /\ TestTables /\ BetweenCalls
  BY <1>1, TestingLines DEF ScriptInv
<1>3. \/ at = 2 \/ at = 5 \/ at = 8 \/ at = 10 \/ at = 12 \/ at = 14 \/ at = 16 \/ at = 18
      \/ at = 21 \/ at = 23 \/ at = 25
  BY <1>1, <1>2, WhichLine
<1>4. UNCHANGED <<held, mem, op, ret>>
  BY <1>1 DEF vars
<1>5. at \notin {16, 25} => UNCHANGED <<p1, p2, nr_free_store>>
  BY <1>2, WhichLine DEF TestAssert
<1>6. failed' = FALSE
  BY <1>1, AssertionsHold
<1>7. /\ \A a \in Adr : Pdep1(a)' = Pdep1(a) /\ (HasPte(a)' <=> HasPte(a))
      /\ \A a \in LA : get_page(a)' = get_page(a)
      /\ \A p : IsTable(p)' <=> IsTable(p)
  BY <1>4, SameTables
<1>8. TestPages' /\ TestStored'
  BY <1>1, <1>2, <1>3, <1>5, <1>7 DEF TestPages, TestStored
<1>9. TestTables'
  <2>1. at \in {5, 21} => HasPte(A0)
    BY <1>1, <1>2 DEF TestTables
  <2> QED
    BY <1>1, <1>2, <1>3, <1>4, <1>7, <2>1, Addresses DEF TestTables
<1>10. BetweenCalls'
  <2>1. \A a \in LA : get_page(a)' = Expected(at, a)
    BY <1>1, <1>2, <1>7 DEF BetweenCalls
  <2>2. \A a \in LA : Expected(at, a)' = Expected(at, a)
    BY <1>1, <1>3, <1>5 DEF Expected
  <2>3. ExpectedHeld(at)' = {} /\ ExpectedHeld(at) = {} /\ at' \notin AfterInsert
    BY <1>1, <1>3 DEF ExpectedHeld, AfterInsert
  <2> QED
    BY <1>1, <1>2, <1>4, <2>1, <2>2, <2>3 DEF BetweenCalls
<1> QED
  BY <1>1, <1>4, <1>6, <1>8, <1>9, <1>10, TestLine DEF ScriptInv

\* The tests start in the invariant,
LEMMA CheckInitInv == CheckInit => Inv /\ ChecksInv
<1> SUFFICES ASSUME CheckInit PROVE Inv /\ ChecksInv
  OBVIOUS
<1>1. Init /\ at = 1 /\ failed = FALSE
  BY DEF CheckInit
<1>2. IInv
  BY <1>1, InitInv
<1>3. mem[Root] = Zero /\ op = "idle" /\ held = {}
  BY <1>1 DEF Init
<1>4. \A a \in Adr : ~ Valid(Pdep1(a)) /\ ~ HasPte(a)
  <2>1. \A a \in Adr : ~ Valid(Pdep1(a))
    BY <1>3, AddressFacts DEF Pdep1, Zero, Valid
  <2> QED
    BY <1>2, <2>1, WalkTypes DEF IInv
<1>5. \A a \in LA : get_page(a) = NULL
  BY <1>2, <1>4, WalkTypes, AddressFacts DEF IInv, Valid
<1>6. TestPages /\ TestStored /\ DuringCall
  BY <1>1, <1>3 DEF TestPages, TestStored, DuringCall
<1>7. TestTables
  BY <1>1, <1>4 DEF TestTables
<1>8. BetweenCalls
  BY <1>1, <1>3, <1>5 DEF BetweenCalls, Expected, ExpectedHeld, AfterInsert
<1>9. ScriptInv
  BY <1>1, <1>6, <1>7, <1>8 DEF ScriptInv
<1> QED
  BY <1>2, <1>3, <1>9 DEF Inv, ChecksInv, ScriptInv, Freeing

\* and no step leaves it.
LEMMA CheckNextInv == Inv /\ ChecksInv /\ [CheckNext]_<<vars, testvars>> => Inv' /\ ChecksInv'
<1> SUFFICES ASSUME Inv, ChecksInv, [CheckNext]_<<vars, testvars>> PROVE Inv' /\ ChecksInv'
  OBVIOUS
<1>1. [Next]_vars /\ Inv'
  BY TestsAreCalls, NextInv
<1>2. at \in 1 .. 26 /\ failed = FALSE
  BY DEF ChecksInv
<1>3. CASE ~ Testing /\ UNCHANGED testvars
  BY <1>1, <1>2, <1>3 DEF ChecksInv, ScriptInv, Testing, testvars
<1>4. CASE op \in Freeing
  <2>1. UNCHANGED testvars
    BY <1>4 DEF CheckNext, TestStore, TestAlloc, TestCall, TestAssert, Now, Freeing
  <2>2. Testing => FreeingInv /\ ScriptFreeing
    BY <1>4 DEF Inv, ChecksInv
  <2> QED
    BY <1>1, <1>3, <2>1, <2>2, TestFreeingSteps
<1>5. CASE op \notin Freeing
  <2>1. IInv /\ ScriptInv
    BY <1>5 DEF Inv, ChecksInv
  <2>2. CASE /\ Now("free") /\ Then /\ UNCHANGED <<p1, p2, nr_free_store, failed>>
             /\ FreeTables(PageNo(Script[at].p))
    <3>1. op' \in Freeing /\ ScriptFreeing'
      BY <2>1, <2>2, TestFreeLine
    <3>2. at' \in 1 .. 26 /\ failed' = FALSE
      BY <3>1 DEF ScriptFreeing
    <3> QED
      BY <1>1, <3>1, <3>2 DEF ChecksInv
  <2>3. CASE TestStore \/ TestAlloc \/ TestAssert \/ UNCHANGED <<vars, testvars>>
    <3>1. op' = op
      BY <2>3 DEF TestStore, TestAlloc, AllocPage, TestAssert, vars
    <3>2. ASSUME UNCHANGED <<vars, testvars>> PROVE ScriptInv'
      <4>1. UNCHANGED <<free, held, mem, op, la, page, perm, ret, at, p1, p2, nr_free_store, failed>>
        BY <3>2 DEF vars, args, testvars
      <4> QED
        BY <2>1, <4>1, TestStutters
    <3>3. ScriptInv'
      BY <2>1, <2>3, <3>2, TestStoreLine, TestAllocLine, TestAssertLine
    <3> QED
      BY <1>1, <1>5, <3>1, <3>3 DEF ChecksInv, ScriptInv
  <2>4. CASE /\ Then /\ UNCHANGED <<p1, p2, nr_free_store, failed>>
             /\ \/ /\ Now("insert")
                   /\ page_insert(PageNo(Script[at].p), Script[at].a, Script[at].perm)
                \/ Now("remove") /\ page_remove(Script[at].a)
    <3>1. op' \notin Freeing
      BY <2>4 DEF page_insert, page_remove, Freeing
    <3>2. ScriptInv'
      BY <2>1, <2>4, TestInsertLine, TestRemoveLine
    <3> QED
      BY <1>1, <3>1, <3>2 DEF ChecksInv, ScriptInv
  <2>5. CASE Testing /\ CallStep /\ UNCHANGED testvars
    <3>1. ~ FreeTablesStep
      BY <1>5 DEF FreeTablesStep, FreeMapped, FreeLower, FreeUpper, ClearRoot, FlushAll, Freeing
    <3>2. op' = op \/ op' \in {"idle", "pdep1", "pdep0", "found", "remove", "clear", "invalidate",
                               "set", "flush", "done"}
      BY <2>5, <3>1 DEF CallStep, get_pte1, get_pte0, get_pte_level, InsertFound, InsertSet, AfterSet,
                        InsertFlush, InsertDone, RemoveUnref, RemoveClear, RemoveFlush, TlbFill, Return
    <3>3. op' \notin Freeing
      BY <1>5, <3>2 DEF Freeing
    <3>4. ScriptInv'
      BY <2>1, <2>5, <3>1, TestCallStep
    <3> QED
      BY <1>1, <3>3, <3>4 DEF ChecksInv, ScriptInv
  <2> QED
    BY <1>3, <2>2, <2>3, <2>4, <2>5 DEF CheckNext, TestCall
<1> QED
  BY <1>4, <1>5

\* The tests are a client of the page tables: what is proved of every client holds of them.
THEOREM TestsArePageTableClients == CheckSpec => Spec
<1>1. CheckInit => Init
  BY DEF CheckInit
<1>2. Inv /\ ChecksInv /\ [CheckNext]_<<vars, testvars>> => [Next]_vars
  BY TestsAreCalls
<1> QED
  BY <1>1, <1>2, CheckInitInv, CheckNextInv, PTL DEF CheckSpec, Spec

\* check_pgdir and check_boot_pgdir assert nothing that is not so, in every memory with
\* room for their pages and tables.
THEOREM ChecksPass == CheckSpec => []PgdirChecksPass
<1>1. ChecksInv => PgdirChecksPass
  BY DEF ChecksInv, PgdirChecksPass
<1> QED
  BY <1>1, CheckInitInv, CheckNextInv, PTL DEF CheckSpec

===============================================================================
