----------------------------- MODULE ForkProofs -----------------------------
(***************************************************************************)
(* Theorems about Fork, for any number of processes and pages: the memory  *)
(* of a process is its own, whoever forks, faults and exits meanwhile.     *)
(*                                                                         *)
(* The properties are not inductive one by one.  The invariant joins them  *)
(* with what fork knows of the child it builds (ForkOK), what the fault    *)
(* handler knows of the page it copies (FaultOK), and what the kernel      *)
(* needs to deliver the next fault (HandlerOK).                            *)
(***************************************************************************)
EXTENDS Fork, TLAPS

Entries == Va \union {Tmp}

(* Where fork has a child, and where it is done with the pages of it *)
Building == {"scan", "child", "parent", "xst", "handler", "status"}
Mapping  == {"scan", "child", "parent"}
Mapped   == {"xst", "handler", "status"}

(* The entry of the child has been made, that of the parent not yet. *)
Between(p, q, v) == pc[p] = "parent" /\ loc[p].child = q /\ loc[p].va = v

(* The fault handler has mapped its new page at both places. *)
Repaired(p, v, w) ==
  /\ flt[p].at = "unmap"
  /\ (v = Tmp /\ w = flt[p].va) \/ (w = Tmp /\ v = flt[p].va)

(***************************************************************************)
(* A child under construction does nothing and has one parent; the entry   *)
(* that duppage has read is still that of the parent when it is mapped:    *)
(* until duppage is past the stack the parent can write it, and afterwards *)
(* the page whose fault it repairs is not the one duppage is at.           *)
(***************************************************************************)
ForkAt(p) ==
  /\ st[p] \in {"free", "built"} => pc[p] = "user" /\ flt[p].at = "none"
  /\ st[p] = "free" => pte[p] = [v \in Entries |-> NoPte]
  /\ pc[p] \in Building =>
       /\ loc[p].child # p /\ st[loc[p].child] = "built"
       /\ \A q \in Procs : q # p /\ pc[q] \in Building => loc[q].child # loc[p].child
  /\ pc[p] \in Mapping => loc[p].va >= 1
  /\ pc[p] = "alloc" \/ (pc[p] \in Mapping /\ loc[p].va <= Stack) => ~ pte[p][Stack].ro
  /\ pc[p] \in {"child", "parent"} =>
       /\ loc[p].va \in Va \ {Xst}
       /\ loc[p].perm = pte[p][loc[p].va] /\ loc[p].perm.pg # 0
       /\ flt[p].at # "none" => flt[p].va # loc[p].va
  /\ pc[p] = "parent" =>
       /\ ~ loc[p].perm.ro /\ ~ loc[p].perm.lib
       /\ pte[loc[p].child][loc[p].va] = [loc[p].perm EXCEPT !.ro = TRUE]

ForkOK == \A p \in Procs : ForkAt(p)

(* The page at USTACKTOP while a fault is repaired *)
FaultOK ==
  \A p \in Procs : flt[p].at # "none" =>
    LET v == flt[p].va  t == pte[p][Tmp] IN
    /\ uhdl[p] /\ v \in Own /\ pte[p][v].pg # 0
    /\ pc[p] # "user" => v = Stack
    /\ t.pg # 0 /\ ~ t.ro /\ ~ t.lib
    /\ flt[p].at = "map" => word[t.pg] = view[p][v]
    /\ flt[p].at = "unmap" => pte[p][v].pg = t.pg /\ ~ pte[p][v].ro

(* An entry through which a process can write is the only one of its page. *)
SoleWriter ==
  \A p, q \in Procs, v, w \in Entries :
    pte[p][v].pg # 0 /\ ~ pte[p][v].ro /\ ~ pte[p][v].lib /\ pte[p][v].pg = pte[q][w].pg =>
      \/ p = q /\ v = w
      \/ p = q /\ Repaired(p, v, w)
      \/ v = w /\ Between(p, q, v)

(* Isolated, for children under construction and stuck processes, too *)
Contents ==
  \A p \in Procs, v \in Own :
    st[p] # "free" /\ pte[p][v].pg # 0 /\ (\A r \in Procs : ~ Between(r, p, v)) =>
      word[pte[p][v].pg] = view[p][v]

(* What the delivery of a fault rests on *)
HandlerAt(p) ==
  /\ ~ pte[p][Xst].ro
  /\ st[p] \in {"run", "stuck"} /\ uhdl[p] => hdl[p] /\ pte[p][Xst].pg # 0
  /\ st[p] = "run" /\ ~ uhdl[p] /\ ~ nohdl[p] => pc[p] = "user" /\ \A v \in Va : ~ pte[p][v].ro
  /\ pc[p] \in {"handler", "status"} => pte[loc[p].child][Xst].pg # 0
  /\ pc[p] = "status" => hdl[loc[p].child]

HandlerOK == \A p \in Procs : HandlerAt(p)

LibOK ==
  \A p \in Procs, v \in Entries :
    /\ v \in Lib /\ pte[p][v].pg # 0 => pte[p][v] = [pg |-> v, ro |-> FALSE, lib |-> TRUE]
    /\ pte[p][v].lib => v \in Lib

Inv ==
  /\ TypeOK /\ LibOK /\ ForkOK /\ FaultOK
  /\ SoleWriter /\ Contents /\ HandlerOK

-----------------------------------------------------------------------------
(* Types *)

USE ForkAssumption

(* The address space of a process, and its special pages. *)
LEMMA Constants ==
  /\ Procs # {} /\ Root \in Procs
  /\ Entries = 0 .. NVA /\ Va \subseteq Entries /\ Tmp \in Entries /\ Tmp \notin Va
  /\ Own \subseteq Va /\ Xst \in Va /\ Xst \notin Own /\ Lib \subseteq Va /\ Xst \notin Lib
  /\ Stack \in Own /\ Stack # Xst
  /\ NoPte \in Pte /\ 0 \notin Page /\ \A g \in Page : Rw(g) \in Pte
BY DEF Entries, Va, Tmp, Own, Pte, NoPte, Page, Rw

(* What writing one entry of one page table changes *)
LEMMA SetEntry ==
  ASSUME TypeOK, NEW r \in Procs, NEW u \in Entries, NEW e \in Pte,
         pte' = [pte EXCEPT ![r][u] = e]
  PROVE  /\ pte' \in [Procs -> [Entries -> Pte]]
         /\ pte'[r][u] = e
         /\ \A p \in Procs, v \in Entries : ~ (p = r /\ v = u) => pte'[p][v] = pte[p][v]
BY DEF TypeOK, Entries

(* The first process has its types. *)
LEMMA InitType == Init => TypeOK
<1> SUFFICES ASSUME Init PROVE TypeOK
  OBVIOUS
<1>1. pte \in [Procs -> [Va \union {Tmp} -> Pte]]
  BY DEF Init, Pte, NoPte, Va, Page, Tmp
<1>2. loc \in [Procs -> [va : 0 .. NVA + 1, perm : Pte, child : Procs]]
  BY DEF Init, NoLoc, Pte, NoPte
<1>3. flt \in [Procs -> [at : {"none", "copy", "map", "unmap"}, va : Va \union {0}, val : Vals]]
  BY DEF Init, NoFlt
<1> QED BY <1>1, <1>2, <1>3 DEF Init, TypeOK

(* The records of loc and flt *)
LocType == [va : 0 .. NVA + 1, perm : Pte, child : Procs]
FltType == [at : {"none", "copy", "map", "unmap"}, va : Va \union {0}, val : Vals]

(* The fields of the local variables have their types. *)
LEMMA Records ==
  ASSUME TypeOK
  PROVE  /\ loc \in [Procs -> LocType] /\ flt \in [Procs -> FltType]
         /\ \A p \in Procs : loc[p].va \in 0 .. NVA + 1 /\ loc[p].perm \in Pte /\ loc[p].child \in Procs
         /\ \A p \in Procs, v \in Entries : pte[p][v] \in Pte /\ pte[p][v].pg \in Page \union {0}
BY DEF TypeOK, LocType, FltType, Entries, Pte

(* The next turn of the loop of fork *)
LEMMA GoOnFacts ==
  ASSUME TypeOK, NEW p \in Procs, loc[p].va \in Va, GoOn(p)
  PROVE  /\ loc' \in [Procs -> LocType]
         /\ loc'[p].va = loc[p].va + 1 /\ loc'[p].child = loc[p].child
         /\ \A q \in Procs : q # p => loc'[q] = loc[q]
         /\ pc' = [pc EXCEPT ![p] = "scan"]
<1> USE Constants
<1>1. loc \in [Procs -> LocType] /\ loc[p] \in LocType
  BY Records
<1> DEFINE Upd(x, a, e) == [x EXCEPT !.va = a, !.perm = e]
           r == Upd(loc[p], loc[p].va + 1, NoPte)
<1>2. r \in LocType /\ r.va = loc[p].va + 1 /\ r.child = loc[p].child
  <2>1. loc[p].va + 1 \in 0 .. NVA + 1 /\ NoPte \in Pte
    BY DEF Va
  <2>2. \A x \in LocType, a \in 0 .. NVA + 1, e \in Pte :
          Upd(x, a, e) \in LocType /\ Upd(x, a, e).va = a /\ Upd(x, a, e).child = x.child
    BY DEF LocType
  <2> HIDE DEF Upd
  <2> QED BY <1>1, <2>1, <2>2
<1>3. loc' = [loc EXCEPT ![p] = r]
  BY <1>1 DEF GoOn, LocType
<1> HIDE DEF r
<1>4. loc' \in [Procs -> LocType] /\ loc'[p] = r /\ \A q \in Procs : q # p => loc'[q] = loc[q]
  BY <1>1, <1>2, <1>3
<1> QED BY <1>2, <1>4 DEF GoOn

(* Entries with another permission *)
LEMMA Perms ==
  \A e \in Pte :
    /\ [e EXCEPT !.pg = e.pg] = e
    /\ [e EXCEPT !.ro = TRUE] \in Pte
    /\ [e EXCEPT !.ro = TRUE].pg = e.pg /\ [e EXCEPT !.ro = TRUE].ro
    /\ [e EXCEPT !.ro = TRUE].lib = e.lib
BY DEF Pte

(* The next step of the fault handler *)
LEMMA FltFacts ==
  ASSUME TypeOK, NEW p \in Procs, NEW a \in {"none", "copy", "map", "unmap"},
         flt' = [flt EXCEPT ![p].at = a]
  PROVE  /\ flt' \in [Procs -> FltType]
         /\ flt'[p].at = a /\ flt'[p].va = flt[p].va /\ flt'[p].val = flt[p].val
         /\ \A q \in Procs : q # p => flt'[q] = flt[q]
<1> DEFINE Upd(x) == [x EXCEPT !.at = a]
<1>1. flt \in [Procs -> FltType]
  BY Records
<1>2. \A x \in FltType : Upd(x) \in FltType /\ Upd(x).at = a /\ Upd(x).va = x.va /\ Upd(x).val = x.val
  BY DEF FltType
<1>3. flt' = [flt EXCEPT ![p] = Upd(flt[p])]
  OBVIOUS
<1> HIDE DEF Upd
<1> QED BY <1>1, <1>2, <1>3

(* duppage reads the entry. *)
LEMMA ScanFacts ==
  ASSUME TypeOK, NEW p \in Procs, NEW e \in Pte, loc' = [loc EXCEPT ![p].perm = e]
  PROVE  /\ loc' \in [Procs -> LocType]
         /\ loc'[p].va = loc[p].va /\ loc'[p].child = loc[p].child /\ loc'[p].perm = e
         /\ \A q \in Procs : q # p => loc'[q] = loc[q]
<1> DEFINE Upd(x) == [x EXCEPT !.perm = e]
<1>1. loc \in [Procs -> LocType]
  BY Records
<1>2. \A x \in LocType : Upd(x) \in LocType /\ Upd(x).va = x.va /\ Upd(x).child = x.child /\ Upd(x).perm = e
  BY DEF LocType
<1>3. loc' = [loc EXCEPT ![p] = Upd(loc[p])]
  OBVIOUS
<1> HIDE DEF Upd
<1> QED BY <1>1, <1>2, <1>3

(* fork starts with a new child. *)
LEMMA AllocFacts ==
  ASSUME TypeOK, NEW p \in Procs, NEW q \in Procs,
         loc' = [loc EXCEPT ![p] = [NoLoc EXCEPT !.va = 1, !.child = q]]
  PROVE  /\ loc' \in [Procs -> LocType]
         /\ loc'[p].va = 1 /\ loc'[p].child = q
         /\ \A r \in Procs : r # p => loc'[r] = loc[r]
<1> DEFINE Upd(x) == [x EXCEPT !.va = 1, !.child = q]
<1>1. NoLoc \in LocType
  BY Constants DEF LocType, NoLoc
<1>2. 1 \in 0 .. NVA + 1
  OBVIOUS
<1>3. \A x \in LocType : Upd(x) \in LocType /\ Upd(x).va = 1 /\ Upd(x).child = q
  BY <1>2 DEF LocType
<1>4. loc \in [Procs -> LocType] /\ loc' = [loc EXCEPT ![p] = Upd(NoLoc)]
  BY Records
<1> HIDE DEF Upd
<1> QED BY <1>1, <1>3, <1>4

(* The two system calls of duppage, with the page, the child and the entry *)
ChildStep(p, v, q, e) ==
  /\ v = loc[p].va /\ q = loc[p].child /\ e = pte[p][v]
  /\ st[p] = "run" /\ pc[p] = "child" /\ flt[p].at = "none" /\ q # p /\ st[q] = "built"
  /\ e.pg # 0 /\ loc[p].perm = e
  /\ ChildPerm(e) \in Pte /\ pte' = [pte EXCEPT ![q][v] = ChildPerm(e)]
  /\ e.lib \/ e.ro => GoOn(p) /\ view' = IF v \in Own THEN [view EXCEPT ![q][v] = view[p][v]] ELSE view
  /\ ~ (e.lib \/ e.ro) => pc' = [pc EXCEPT ![p] = "parent"] /\ UNCHANGED <<loc, view>>
  /\ UNCHANGED <<st, word, hdl, uhdl, flt, nohdl>>

ParentStep(p, v, q, e) ==
  /\ v = loc[p].va /\ q = loc[p].child /\ e = pte[p][v]
  /\ st[p] = "run" /\ pc[p] = "parent" /\ flt[p].at = "none" /\ q # p /\ st[q] = "built"
  /\ e.pg # 0 /\ ~ e.ro /\ ~ e.lib
  /\ ParentPerm(e) \in Pte /\ pte' = [pte EXCEPT ![p][v] = ParentPerm(e)]
  /\ pte[q][v] = ParentPerm(e)
  /\ view' = IF v \in Own THEN [view EXCEPT ![q][v] = view[p][v]] ELSE view
  /\ GoOn(p)
  /\ UNCHANGED <<st, word, hdl, uhdl, flt, nohdl>>

(* The system call of duppage that maps the page in the child. *)
LEMMA ChildFacts ==
  ASSUME TypeOK, ForkOK, NEW p \in Procs, ForkChild(p)
  PROVE  \E v \in Va \ {Xst}, q \in Procs, e \in Pte : ChildStep(p, v, q, e)
<1>1. /\ loc[p].va \in Va \ {Xst} /\ loc[p].child \in Procs /\ loc[p].child # p
      /\ st[loc[p].child] = "built" /\ loc[p].perm.pg # 0 /\ loc[p].perm = pte[p][loc[p].va]
      /\ st[p] = "run" /\ pc[p] = "child" /\ flt[p].at = "none"
  BY Records DEF ForkChild, Runs, ForkOK, ForkAt, Building
<1>2. pte[p][loc[p].va] \in Pte
  BY <1>1, Records, Constants
<1>3. [loc[p].perm EXCEPT !.pg = pte[p][loc[p].va].pg] = pte[p][loc[p].va]
  BY <1>1, <1>2, Perms
<1>4. ChildPerm(pte[p][loc[p].va]) \in Pte
  BY <1>2, Perms DEF ChildPerm
<1>5. ChildStep(p, loc[p].va, loc[p].child, pte[p][loc[p].va])
  BY <1>1, <1>2, <1>3, <1>4 DEF ForkChild, ChildStep
<1> QED BY <1>1, <1>2, <1>5

(* The system call of duppage that protects the page in the parent. *)
LEMMA ParentFacts ==
  ASSUME TypeOK, ForkOK, NEW p \in Procs, ForkParent(p)
  PROVE  \E v \in Va \ {Xst}, q \in Procs, e \in Pte : ParentStep(p, v, q, e)
<1>1. /\ loc[p].va \in Va \ {Xst} /\ loc[p].child \in Procs /\ loc[p].child # p
      /\ st[loc[p].child] = "built" /\ loc[p].perm.pg # 0 /\ loc[p].perm = pte[p][loc[p].va]
      /\ st[p] = "run" /\ pc[p] = "parent" /\ flt[p].at = "none"
      /\ ~ loc[p].perm.ro /\ ~ loc[p].perm.lib
      /\ pte[loc[p].child][loc[p].va] = ParentPerm(loc[p].perm)
  BY Records DEF ForkParent, Runs, ForkOK, ForkAt, Building, ParentPerm
<1>2. pte[p][loc[p].va] \in Pte
  BY <1>1, Records, Constants
<1>3. [loc[p].perm EXCEPT !.pg = pte[p][loc[p].va].pg] = pte[p][loc[p].va]
  BY <1>1, <1>2, Perms
<1>4. ParentPerm(pte[p][loc[p].va]) \in Pte
  BY <1>2, Perms DEF ParentPerm
<1>5. ParentStep(p, loc[p].va, loc[p].child, pte[p][loc[p].va])
  BY <1>1, <1>2, <1>3, <1>4 DEF ForkParent, ParentStep
<1> QED BY <1>1, <1>2, <1>5

(* Every step keeps the types. *)
LEMMA NextType == TypeOK /\ ForkOK /\ FaultOK /\ [Next]_vars => TypeOK'
<1> SUFFICES ASSUME TypeOK, ForkOK, FaultOK, [Next]_vars PROVE TypeOK'
  OBVIOUS
<1> USE Constants
<1>1. CASE UNCHANGED vars
  BY <1>1 DEF vars, TypeOK
<1>2. ASSUME NEW p \in Procs, NEW v \in Va, NEW x \in Vals, Write(p, v, x) PROVE TypeOK'
  BY <1>2 DEF Write, Put, Writable, TypeOK
<1>3. ASSUME NEW p \in Procs, NEW v \in Va, NEW x \in Vals, Fault(p, v, x) PROVE TypeOK'
  <2>1. PICK g \in Free : pte' = [pte EXCEPT ![p][Tmp] = Rw(g)] /\ word' = [word EXCEPT ![g] = 0]
    BY <1>3 DEF Fault
  <2>2. g \in Page /\ pte' \in [Procs -> [Entries -> Pte]]
    BY <2>1, SetEntry DEF Free
  <2> QED BY <1>3, <2>1, <2>2 DEF Fault, TypeOK, Entries
<1>4. ASSUME NEW p \in Procs, NEW v \in Va, FaultStuck(p, v) PROVE TypeOK'
  BY <1>4 DEF FaultStuck, GetStuck, TypeOK
<1>5. ASSUME NEW p \in Procs, FaultCopy(p) PROVE TypeOK'
  <2>1. Copied(p) \in Vals
    BY <1>5 DEF FaultCopy, Copied, FaultOK, TypeOK, Pte
  <2>2. flt' \in [Procs -> FltType]
    BY <1>5, FltFacts DEF FaultCopy
  <2> QED BY <1>5, <2>1, <2>2 DEF FaultCopy, TypeOK, FltType
<1>6. ASSUME NEW p \in Procs, FaultMap(p) PROVE TypeOK'
  <2>1. Rw(pte[p][Tmp].pg) \in Pte /\ flt[p].va \in Entries
    BY <1>6 DEF FaultMap, FaultOK, TypeOK, Pte, Rw
  <2>2. pte' \in [Procs -> [Entries -> Pte]]
    BY <1>6, <2>1, SetEntry DEF FaultMap
  <2>3. flt' \in [Procs -> FltType]
    BY <1>6, FltFacts DEF FaultMap
  <2> QED BY <1>6, <2>2, <2>3 DEF FaultMap, TypeOK, Entries, FltType
<1>7. ASSUME NEW p \in Procs, FaultUnmap(p) PROVE TypeOK'
  <2>1. pte' \in [Procs -> [Entries -> Pte]]
    BY <1>7, SetEntry DEF FaultUnmap
  <2>2. flt[p].va \in Own /\ flt[p].val \in Vals
    BY <1>7 DEF FaultUnmap, FaultOK, TypeOK
  <2> QED BY <1>7, <2>1, <2>2 DEF FaultUnmap, Put, TypeOK, Entries, NoFlt
<1>8. ASSUME NEW p \in Procs, ForkStart(p) PROVE TypeOK'
  <2>1. CASE UNCHANGED <<pte, word, hdl, uhdl>>
    BY <1>8, <2>1 DEF ForkStart, TypeOK
  <2>2. ASSUME NEW g \in Free, pte' = [pte EXCEPT ![p][Xst] = Rw(g)], word' = [word EXCEPT ![g] = 0],
               hdl' = [hdl EXCEPT ![p] = TRUE], uhdl' = [uhdl EXCEPT ![p] = TRUE]
        PROVE  TypeOK'
    <3>1. g \in Page /\ pte' \in [Procs -> [Entries -> Pte]]
      BY <2>2, SetEntry DEF Free
    <3> QED BY <1>8, <2>2, <3>1 DEF ForkStart, TypeOK, Entries
  <2> QED BY <1>8, <2>1, <2>2 DEF ForkStart
<1>9. ASSUME NEW p \in Procs, ForkAlloc(p) PROVE TypeOK'
  <2>1. loc' \in [Procs -> [va : 0 .. NVA + 1, perm : Pte, child : Procs]]
    BY <1>9, AllocFacts DEF ForkAlloc, LocType
  <2>2. \E q \in Procs : st' = [st EXCEPT ![q] = "built"]
    BY <1>9, Zenon DEF ForkAlloc
  <2>3. pc' = [pc EXCEPT ![p] = "scan"] /\ UNCHANGED <<pte, word, hdl, uhdl, flt, view, nohdl>>
    BY <1>9, Zenon DEF ForkAlloc
  <2>4. st' \in [Procs -> {"free", "built", "run", "stuck"}]
    BY <2>2 DEF TypeOK
  <2>5. pc' \in [Procs -> {"user", "alloc", "scan", "child", "parent", "xst", "handler", "status"}]
    BY <2>3 DEF TypeOK
  <2> QED BY <2>1, <2>3, <2>4, <2>5 DEF TypeOK
<1>10. ASSUME NEW p \in Procs, ForkNoEnv(p) \/ ForkChildFails(p) \/ ForkXstFails(p) PROVE TypeOK'
  BY <1>10 DEF ForkNoEnv, ForkChildFails, ForkXstFails, GetStuck, TypeOK
<1>11. ASSUME NEW p \in Procs, ForkScan(p) PROVE TypeOK'
  <2>1. loc' \in [Procs -> [va : 0 .. NVA + 1, perm : Pte, child : Procs]]
    <3>1. loc[p].va >= 1 /\ loc[p].va \in 0 .. NVA + 1
      BY <1>11 DEF ForkScan, Runs, ForkOK, ForkAt, Mapping, TypeOK
    <3>2. CASE loc[p].va > NVA
      BY <1>11, <3>2 DEF ForkScan, TypeOK
    <3>3. CASE loc[p].va <= NVA /\ Skipped(pte[p][loc[p].va], loc[p].va)
      <4>1. loc[p].va \in Va /\ GoOn(p)
        BY <1>11, <3>1, <3>3 DEF ForkScan, Va
      <4> QED BY <4>1, GoOnFacts DEF LocType
    <3>4. CASE loc[p].va <= NVA /\ ~ Skipped(pte[p][loc[p].va], loc[p].va)
      <4>1. pte[p][loc[p].va] \in Pte
        BY <3>1, <3>4 DEF TypeOK, Va
      <4>2. loc' = [loc EXCEPT ![p].perm = pte[p][loc[p].va]]
        BY <1>11, <3>4, <3>1 DEF ForkScan
      <4> QED BY <4>1, <4>2, ScanFacts DEF LocType
    <3> QED BY <3>1, <3>2, <3>3, <3>4
  <2> QED BY <1>11, <2>1 DEF ForkScan, GoOn, TypeOK
<1>12. ASSUME NEW p \in Procs, ForkChild(p) PROVE TypeOK'
  <2>1. PICK v \in Va \ {Xst}, q \in Procs, e \in Pte : ChildStep(p, v, q, e)
    BY <1>12, ChildFacts
  <2>2. pte' \in [Procs -> [Entries -> Pte]]
    BY <2>1, SetEntry DEF ChildStep
  <2>3. loc' \in [Procs -> LocType] /\ (GoOn(p) \/ pc' = [pc EXCEPT ![p] = "parent"])
    BY <2>1, GoOnFacts, Records DEF ChildStep
  <2>4. view' \in [Procs -> [Own -> Vals]]
    <3>1. view' = view \/ (v \in Own /\ view' = [view EXCEPT ![q][v] = view[p][v]])
      BY <2>1 DEF ChildStep
    <3>2. view \in [Procs -> [Own -> Vals]]
      BY DEF TypeOK
    <3>3. v \in Own => view[p][v] \in Vals
      BY <3>2
    <3> QED BY <3>1, <3>2, <3>3
  <2> QED BY <2>1, <2>2, <2>3, <2>4 DEF ChildStep, TypeOK, Entries, LocType, GoOn
<1>13. ASSUME NEW p \in Procs, ForkParent(p) PROVE TypeOK'
  <2>1. PICK v \in Va \ {Xst}, q \in Procs, e \in Pte : ParentStep(p, v, q, e)
    BY <1>13, ParentFacts
  <2>2. pte' \in [Procs -> [Entries -> Pte]]
    BY <2>1, SetEntry DEF ParentStep
  <2>3. loc' \in [Procs -> LocType]
    BY <2>1, GoOnFacts DEF ParentStep
  <2>4. view' \in [Procs -> [Own -> Vals]]
    BY <2>1 DEF TypeOK, ParentStep
  <2> QED BY <2>1, <2>2, <2>3, <2>4 DEF ParentStep, TypeOK, Entries, LocType, GoOn
<1>14. ASSUME NEW p \in Procs, ForkXst(p) PROVE TypeOK'
  <2>1. PICK g \in Free : /\ pte' = [pte EXCEPT ![loc[p].child][Xst] = Rw(g)]
                          /\ word' = [word EXCEPT ![g] = 0]
    BY <1>14 DEF ForkXst
  <2>2. g \in Page /\ loc[p].child \in Procs
    BY <2>1 DEF Free, TypeOK
  <2>3. pte' \in [Procs -> [Entries -> Pte]]
    BY <2>1, <2>2, SetEntry
  <2> QED BY <1>14, <2>1, <2>2, <2>3 DEF ForkXst, TypeOK, Entries
<1>15. ASSUME NEW p \in Procs, ForkHandler(p) PROVE TypeOK'
  BY <1>15 DEF ForkHandler, ChildHandler, TypeOK
<1>16. ASSUME NEW p \in Procs, ForkStatus(p) PROVE TypeOK'
  <2>1. loc' \in [Procs -> [va : 0 .. NVA + 1, perm : Pte, child : Procs]]
    BY <1>16 DEF ForkStatus, NoLoc, TypeOK
  <2> QED BY <1>16, <2>1 DEF ForkStatus, TypeOK
<1>17. ASSUME NEW p \in Procs, Exit(p) PROVE TypeOK'
  BY <1>17 DEF Exit, TypeOK
<1> QED BY <1>1, <1>2, <1>3, <1>4, <1>5, <1>6, <1>7, <1>8, <1>9, <1>10, <1>11, <1>12, <1>13,
           <1>14, <1>15, <1>16, <1>17 DEF Next, Step, Use, Finished

-----------------------------------------------------------------------------
(* Steps on the memory *)

(* Nothing is mapped or written. *)
SameMemory == UNCHANGED <<pte, word, view>>

(* A page that was free is mapped at u. *)
FreshPage(r, u, g) ==
  /\ pte' = [pte EXCEPT ![r][u] = Rw(g)]
  /\ word' = [word EXCEPT ![g] = 0]
  /\ UNCHANGED view

(* The processes stay where they are between the two calls of duppage.     *)
SameStage ==
  /\ \A a, b \in Procs, v \in Entries : Between(a, b, v)' <=> Between(a, b, v)
  /\ \A a \in Procs : flt[a].at = "unmap" => flt'[a] = flt[a]
  /\ \A a \in Procs, v \in Own : st'[a] # "free" /\ pte[a][v].pg # 0 => st[a] # "free"

(* A step that changes no page table, no page and no view. *)
LEMMA SameMemoryInv ==
  ASSUME Inv, SameMemory, SameStage
  PROVE  LibOK' /\ SoleWriter' /\ Contents'
<1>1. LibOK'
  BY DEF Inv, LibOK, SameMemory
<1>2. SoleWriter'
  BY Constants DEF Inv, SoleWriter, SameMemory, SameStage, Repaired
<1>3. Contents'
  BY Constants DEF Inv, Contents, SameMemory, SameStage
<1> QED BY <1>1, <1>2, <1>3

(* A new page at the exception stack or at the temporary address. *)
LEMMA FreshPageInv ==
  ASSUME Inv, SameStage, NEW r \in Procs, NEW u \in {Xst, Tmp}, NEW g \in Free, FreshPage(r, u, g)
  PROVE  /\ LibOK' /\ SoleWriter' /\ Contents'
         /\ g \in Page /\ pte'[r][u] = Rw(g)
         /\ \A p \in Procs, v \in Entries : ~ (p = r /\ v = u) => pte'[p][v] = pte[p][v]
         /\ \A p \in Procs, v \in Entries : pte[p][v].pg # g
         /\ \A h \in Page : h # g => word'[h] = word[h]
<1> USE Constants
<1>1. g \in Page /\ \A p \in Procs, v \in Entries : pte[p][v].pg # g
  BY DEF Free, Entries
<1>2. /\ pte'[r][u] = Rw(g)
      /\ \A p \in Procs, v \in Entries : ~ (p = r /\ v = u) => pte'[p][v] = pte[p][v]
  BY DEF FreshPage, Inv, TypeOK, Entries
<1>3. \A h \in Page : h # g => word'[h] = word[h]
  BY DEF FreshPage, Inv, TypeOK
<1>4. LibOK'
  <2>1. u \notin Lib /\ ~ Rw(g).lib
    BY DEF Rw
  <2> SUFFICES ASSUME NEW p \in Procs, NEW v \in Entries
               PROVE  /\ v \in Lib /\ pte'[p][v].pg # 0 => pte'[p][v] = [pg |-> v, ro |-> FALSE, lib |-> TRUE]
                      /\ pte'[p][v].lib => v \in Lib
    BY DEF LibOK
  <2>2. CASE p = r /\ v = u
    BY <2>1, <2>2, <1>2
  <2>3. CASE ~ (p = r /\ v = u)
    BY <2>3, <1>2 DEF LibOK, Inv
  <2> QED BY <2>2, <2>3
<1>5. SoleWriter'
  <2> SUFFICES ASSUME NEW p \in Procs, NEW q \in Procs, NEW v \in Entries, NEW w \in Entries,
                      pte'[p][v].pg # 0, ~ pte'[p][v].ro, ~ pte'[p][v].lib,
                      pte'[p][v].pg = pte'[q][w].pg
               PROVE  \/ p = q /\ v = w
                      \/ p = q /\ Repaired(p, v, w)'
                      \/ v = w /\ Between(p, q, v)'
    BY DEF SoleWriter
  <2>1. CASE p = r /\ v = u
    BY <2>1, <1>1, <1>2 DEF Rw
  <2>2. CASE q = r /\ w = u
    BY <2>2, <1>1, <1>2 DEF Rw
  <2>3. CASE ~ (p = r /\ v = u) /\ ~ (q = r /\ w = u)
    <3>1. pte'[p][v] = pte[p][v] /\ pte'[q][w] = pte[q][w]
      BY <2>3, <1>2
    <3>2. \/ p = q /\ v = w
          \/ p = q /\ Repaired(p, v, w)
          \/ v = w /\ Between(p, q, v)
      BY <3>1 DEF SoleWriter, Inv
    <3>3. Repaired(p, v, w) => Repaired(p, v, w)'
      BY DEF SameStage, Repaired
    <3> QED BY <3>2, <3>3 DEF SameStage
  <2> QED BY <2>1, <2>2, <2>3
<1>6. Contents'
  <2> SUFFICES ASSUME NEW p \in Procs, NEW v \in Own, st'[p] # "free", pte'[p][v].pg # 0,
                      \A a \in Procs : ~ Between(a, p, v)'
               PROVE  word'[pte'[p][v].pg] = view'[p][v]
    BY DEF Contents
  <2>1. pte'[p][v] = pte[p][v] /\ pte[p][v].pg \in Page /\ pte[p][v].pg # g
    BY <1>1, <1>2, Records DEF Inv
  <2>2. st[p] # "free" /\ \A a \in Procs : ~ Between(a, p, v)
    BY <2>1 DEF SameStage
  <2> QED BY <2>1, <2>2, <1>3 DEF Contents, Inv, FreshPage
<1> QED BY <1>1, <1>2, <1>3, <1>4, <1>5, <1>6

(***************************************************************************)
(* A process that runs writes through an entry that is not read-only: no   *)
(* other entry that counts denotes the page.                               *)
(***************************************************************************)
LEMMA PutInv ==
  ASSUME Inv, NEW p \in Procs, NEW v \in Own, NEW x \in Vals,
         st[p] = "run", pte[p][v].pg # 0, ~ pte[p][v].ro, Put(p, v, x),
         \A q \in Procs, w \in Own : pte'[q][w] = pte[q][w],
         \A a, b \in Procs, w \in Entries : Between(a, b, w)' <=> Between(a, b, w),
         \A a \in Procs : st'[a] = st[a]
  PROVE  /\ Contents'
         /\ \A q \in Procs : flt[q].at \in {"copy", "map"} =>
              word'[pte[q][Tmp].pg] = word[pte[q][Tmp].pg]
         /\ \A q \in Procs : q # p => view'[q] = view[q]
<1> USE Constants
<1> DEFINE g == pte[p][v].pg
<1>1. g \in Page /\ ~ pte[p][v].lib
  BY Records DEF Inv, LibOK, Own
<1>2. word'[g] = x /\ \A h \in Page : h # g => word'[h] = word[h]
  BY <1>1 DEF Put, Inv, TypeOK
<1>3. /\ view'[p][v] = x
      /\ \A q \in Procs, w \in Own : ~ (q = p /\ w = v) => view'[q][w] = view[q][w]
      /\ \A q \in Procs : q # p => view'[q] = view[q]
  BY DEF Put, Inv, TypeOK
<1>4. Contents'
  <2> SUFFICES ASSUME NEW q \in Procs, NEW w \in Own, st'[q] # "free", pte'[q][w].pg # 0,
                      \A a \in Procs : ~ Between(a, q, w)'
               PROVE  word'[pte'[q][w].pg] = view'[q][w]
    BY DEF Contents
  <2>1. pte'[q][w] = pte[q][w] /\ pte[q][w].pg \in Page /\ st[q] # "free"
    BY Records DEF Inv
  <2>2. \A a \in Procs : ~ Between(a, q, w)
    OBVIOUS
  <2>3. CASE q = p /\ w = v
    BY <2>1, <2>3, <1>2, <1>3
  <2>4. CASE ~ (q = p /\ w = v)
    <3>1. v # Tmp /\ w # Tmp /\ v \in Entries /\ w \in Entries
      OBVIOUS
    <3>2. ~ Repaired(p, v, w) /\ ~ Between(p, q, w)
      BY <2>2, <3>1 DEF Repaired
    <3>3. pte[q][w].pg # g
      BY <2>4, <1>1, <3>1, <3>2 DEF Inv, SoleWriter
    <3> QED BY <2>1, <2>2, <2>4, <3>3, <1>2, <1>3 DEF Contents, Inv
  <2> QED BY <2>3, <2>4
<1>5. ASSUME NEW q \in Procs, flt[q].at \in {"copy", "map"}
      PROVE  word'[pte[q][Tmp].pg] = word[pte[q][Tmp].pg]
  <2>1. pte[q][Tmp].pg \in Page
    BY <1>5, Records DEF Inv, FaultOK
  <2>2. pte[q][Tmp].pg # g
    BY <1>5, <1>1 DEF Inv, SoleWriter, Between, Repaired
  <2> QED BY <2>1, <2>2, <1>2
<1> QED BY <1>3, <1>4, <1>5

-----------------------------------------------------------------------------
(* One lemma per action, or per kind of action *)

(* The invariant but for the types, which NextType has *)
Rest == LibOK /\ ForkOK /\ FaultOK /\ SoleWriter /\ Contents /\ HandlerOK

(* At first there is one process, and nothing is shared. *)
LEMMA InitInv == Init => Inv
<1> SUFFICES ASSUME Init PROVE Inv
  OBVIOUS
<1> USE Constants
<1>1. ASSUME NEW p \in Procs, NEW v \in Entries
      PROVE  \/ p = Root /\ v \in Va \ {Xst} /\ pte[p][v] = [pg |-> v, ro |-> FALSE, lib |-> v \in Lib]
             \/ ~ (p = Root /\ v \in Va \ {Xst}) /\ pte[p][v] = NoPte
  BY DEF Init, Entries
<1>10. ASSUME NEW p \in Procs, NEW v \in Entries
       PROVE  /\ ~ pte[p][v].ro /\ (pte[p][v].lib => v \in Lib)
              /\ pte[p][v].pg # 0 => p = Root /\ v \in Va \ {Xst} /\ pte[p][v].pg = v
              /\ p = Root /\ v \in Va \ {Xst} => pte[p][v].pg # 0
  <2>1. CASE p = Root /\ v \in Va \ {Xst}
    <3>1. pte[p][v] = [pg |-> v, ro |-> FALSE, lib |-> v \in Lib] /\ v # 0
      BY <1>1, <1>10, <2>1 DEF Va
    <3>2. CASE v \in Lib
      BY <2>1, <3>1, <3>2
    <3>3. CASE v \notin Lib
      <4>0. (v \in Lib) = FALSE
        BY <3>3
      <4>1. pte[p][v] = [pg |-> v, ro |-> FALSE, lib |-> FALSE]
        BY <3>1, <4>0, Zenon
      <4> QED BY <2>1, <3>1, <4>1
    <3> QED BY <3>2, <3>3
  <2>2. CASE ~ (p = Root /\ v \in Va \ {Xst})
    <3>1. pte[p][v] = NoPte
      BY <1>1, <1>10, <2>2
    <3> QED BY <2>2, <3>1 DEF NoPte
  <2> QED BY <2>1, <2>2
<1>2. LibOK
  <2> SUFFICES ASSUME NEW p \in Procs, NEW v \in Lib, pte[p][v].pg # 0
               PROVE  pte[p][v] = [pg |-> v, ro |-> FALSE, lib |-> TRUE]
    BY <1>10 DEF LibOK
  <2>1. p = Root /\ v \in Va \ {Xst}
    BY <1>10
  <2> QED BY <2>1, <1>1
<1>3. ForkOK
  BY DEF Init, ForkOK, ForkAt, Building, Mapping, NoFlt, Entries
<1>4. FaultOK
  BY DEF Init, FaultOK, NoFlt
<1>5. SoleWriter
  BY <1>10 DEF SoleWriter
<1>6. Contents
  <2> SUFFICES ASSUME NEW p \in Procs, NEW v \in Own, pte[p][v].pg # 0
               PROVE  word[pte[p][v].pg] = view[p][v]
    BY DEF Contents
  <2>1. v \in Va /\ v \in Entries
    OBVIOUS
  <2>2. pte[p][v].pg = v
    BY <1>10, <2>1
  <2>3. v \in Page
    BY <2>1 DEF Va, Page
  <2> QED BY <2>2, <2>3 DEF Init
<1>7. HandlerOK
  BY <1>10 DEF Init, HandlerOK, HandlerAt
<1> QED BY InitType, <1>2, <1>3, <1>4, <1>5, <1>6, <1>7 DEF Inv

(* A write to a page that is writable. *)
LEMMA WriteInv ==
  ASSUME Inv, NEW p \in Procs, NEW v \in Va, NEW x \in Vals, Write(p, v, x)
  PROVE  Rest'
<1> USE Constants
<1>1. /\ v \in Own /\ st[p] = "run" /\ flt[p].at = "none"
      /\ pte[p][v].pg # 0 /\ ~ pte[p][v].ro /\ Put(p, v, x)
      /\ UNCHANGED <<st, pte, hdl, uhdl, pc, loc, flt, nohdl>>
  BY DEF Write, Runs, Writable
<1>2. /\ Contents'
      /\ \A q \in Procs : flt[q].at \in {"copy", "map"} =>
           word'[pte[q][Tmp].pg] = word[pte[q][Tmp].pg]
      /\ \A q \in Procs : q # p => view'[q] = view[q]
  BY <1>1, PutInv DEF Between
<1>3. LibOK'
  BY <1>1 DEF Inv, LibOK
<1>7. ForkOK'
  BY <1>1 DEF Inv, ForkOK, ForkAt
<1>4. FaultOK'
  BY <1>1, <1>2 DEF Inv, FaultOK
<1>5. SoleWriter'
  BY <1>1 DEF Inv, SoleWriter, Between, Repaired
<1>6. HandlerOK'
  BY <1>1 DEF Inv, HandlerOK, HandlerAt
<1> QED BY <1>2, <1>3, <1>4, <1>5, <1>6, <1>7 DEF Rest

(* The entry a fault is about is not the one duppage has read. *)
LEMMA NoFaultWhileMapping ==
  ASSUME Inv, NEW p \in Procs, NEW v \in Va, Faults(p, v)
  PROVE  /\ v \in Own /\ pc[p] # "alloc" /\ (pc[p] # "user" => v = Stack)
         /\ pc[p] \in {"child", "parent"} => loc[p].va # v
         /\ v = Stack => ~ (pc[p] \in Mapping /\ loc[p].va <= Stack)
<1>1. v \in Own /\ pte[p][v].ro /\ (pc[p] # "user" => v = Stack)
  BY DEF Faults, Writable
<1>2. pc[p] = "alloc" \/ (pc[p] \in Mapping /\ loc[p].va <= Stack) => ~ pte[p][Stack].ro
  BY DEF Inv, ForkOK, ForkAt
<1>3. Stack \in Nat
  BY Constants DEF Va
<1> QED BY <1>1, <1>2, <1>3 DEF Mapping

(* A write to a page that is not: the fault is taken, or nobody handles it. *)
LEMMA FaultInv ==
  ASSUME Inv, NEW p \in Procs, NEW v \in Va, NEW x \in Vals, Fault(p, v, x)
  PROVE  Rest'
<1> USE Constants
<1>1. PICK g \in Free : FreshPage(p, Tmp, g)
  BY DEF Fault, FreshPage
<1>2. /\ v \in Own /\ (pc[p] # "user" => v = Stack)
      /\ pc[p] \in {"child", "parent"} => loc[p].va # v
      /\ pte[p][v].pg # 0 /\ uhdl[p] /\ st[p] = "run" /\ flt[p].at = "none"
      /\ UNCHANGED <<st, hdl, uhdl, pc, loc, view, nohdl>>
  BY NoFaultWhileMapping DEF Fault, Faults, CanHandle, Runs
<1>3. /\ flt'[p].at = "copy" /\ flt'[p].va = v
      /\ \A q \in Procs : q # p => flt'[q] = flt[q]
  BY DEF Fault, Inv, TypeOK
<1>4. SameStage
  BY <1>2, <1>3 DEF SameStage, Between
<1>5. /\ LibOK' /\ SoleWriter' /\ Contents'
      /\ g \in Page /\ pte'[p][Tmp] = Rw(g)
      /\ \A q \in Procs, w \in Entries : ~ (q = p /\ w = Tmp) => pte'[q][w] = pte[q][w]
      /\ \A q \in Procs, w \in Entries : pte[q][w].pg # g
      /\ \A h \in Page : h # g => word'[h] = word[h]
  BY <1>1, <1>4, FreshPageInv
<1>6. FaultOK'
  <2> SUFFICES ASSUME NEW q \in Procs, flt'[q].at # "none"
               PROVE  LET w == flt'[q].va  t == pte'[q][Tmp] IN
                      /\ uhdl'[q] /\ w \in Own /\ pte'[q][w].pg # 0
                      /\ pc'[q] # "user" => w = Stack
                      /\ t.pg # 0 /\ ~ t.ro /\ ~ t.lib
                      /\ flt'[q].at = "map" => word'[t.pg] = view'[q][w]
                      /\ flt'[q].at = "unmap" => pte'[q][w].pg = t.pg /\ ~ pte'[q][w].ro
    BY DEF FaultOK
  <2>1. CASE q = p
    BY <2>1, <1>2, <1>3, <1>5 DEF Rw
  <2>2. CASE q # p
    <3>1. flt'[q] = flt[q] /\ pte'[q] [Tmp] = pte[q][Tmp] /\ pte[q][Tmp].pg \in Page \union {0}
      BY <2>2, <1>3, <1>5, Records DEF Inv
    <3>2. flt[q].va \in Own
      BY <3>1 DEF Inv, FaultOK
    <3>3. pte'[q][flt[q].va] = pte[q][flt[q].va]
      BY <2>2, <3>2, <1>5
    <3> QED BY <2>2, <3>1, <3>2, <3>3, <1>2, <1>5 DEF Inv, FaultOK
  <2> QED BY <2>1, <2>2
<1>7. \A q \in Procs, w \in Va : pte'[q][w] = pte[q][w]
  BY <1>5
<1>8. ForkOK'
  <2>1. \A q \in Procs : st[q] = "free" => pte'[q] = pte[q]
    BY <1>1, <1>2 DEF FreshPage, Inv, TypeOK
  <2>2. \A q \in Procs : loc[q].child \in Procs
    BY Records DEF Inv
  <2> SUFFICES ASSUME NEW r \in Procs PROVE ForkAt(r)'
    BY DEF ForkOK
  <2>3. ForkAt(r)
    BY DEF Inv, ForkOK
  <2>4. st[r] \in {"free", "built"} => flt'[r].at = "none"
    BY <2>3, <1>2, <1>3 DEF ForkAt
  <2>5. pc[r] \in {"child", "parent"} => (flt'[r].at # "none" => flt'[r].va # loc[r].va)
    BY <2>3, <1>2, <1>3 DEF ForkAt
  <2>6. pte'[r][Stack] = pte[r][Stack]
    BY <1>7
  <2>7. pc[r] \in {"child", "parent"} =>
          /\ pte'[r][loc[r].va] = pte[r][loc[r].va]
          /\ pte'[loc[r].child][loc[r].va] = pte[loc[r].child][loc[r].va]
    BY <2>2, <2>3, <1>7 DEF ForkAt
  <2> QED BY <1>2, <2>1, <2>3, <2>4, <2>5, <2>6, <2>7 DEF ForkAt
<1>9. HandlerOK'
  <2>1. \A q \in Procs : loc[q].child \in Procs
    BY Records DEF Inv
  <2> QED BY <1>2, <1>7, <2>1 DEF Inv, HandlerOK, HandlerAt
<1> QED BY <1>5, <1>6, <1>8, <1>9 DEF Rest

(* A process that runs gets stuck. *)
LEMMA StuckInv ==
  ASSUME Inv, NEW p \in Procs, st[p] = "run", GetStuck(p),
         UNCHANGED <<pte, word, hdl, uhdl, pc, loc, flt, view, nohdl>>
  PROVE  Rest'
<1> USE Constants
<1>1. st'[p] = "stuck" /\ \A q \in Procs : q # p => st'[q] = st[q]
  BY DEF GetStuck, Inv, TypeOK
<1>2. SameMemory /\ SameStage
  BY <1>1 DEF SameMemory, SameStage, Between
<1>3. LibOK' /\ SoleWriter' /\ Contents'
  BY <1>2, SameMemoryInv
<1>4. ForkOK'
  <2>1. \A q \in Procs : pc[q] \in Building => loc[q].child \in Procs /\ st[loc[q].child] = "built"
    BY Records DEF Inv, ForkOK, ForkAt
  <2>2. \A q \in Procs : pc[q] \in Building => st'[loc[q].child] = st[loc[q].child]
    BY <1>1, <2>1
  <2> QED BY <1>1, <2>2 DEF Inv, ForkOK, ForkAt
<1>5. FaultOK'
  BY DEF Inv, FaultOK
<1>6. HandlerOK'
  BY <1>1 DEF Inv, HandlerOK, HandlerAt
<1> QED BY <1>3, <1>4, <1>5, <1>6 DEF Rest

(* A child under construction has one parent, and takes no step. *)
LEMMA ChildOf ==
  ASSUME Inv, NEW p \in Procs, pc[p] \in Building
  PROVE  /\ loc[p].child \in Procs /\ loc[p].child # p
         /\ st[loc[p].child] = "built"
         /\ pc[loc[p].child] = "user" /\ flt[loc[p].child].at = "none"
         /\ \A q \in Procs : q # p /\ pc[q] \in Building => loc[q].child # loc[p].child
BY Records DEF Inv, ForkOK, ForkAt

(* Between the two system calls of duppage the child does not run. *)
LEMMA BetweenFacts ==
  ASSUME Inv, NEW p \in Procs, NEW q \in Procs, NEW v, Between(p, q, v)
  PROVE  st[q] = "built" /\ v \in Va \ {Xst}
BY DEF Between, Inv, ForkOK, ForkAt, Building

(* The page at USTACKTOP is mapped nowhere else until the handler maps it. *)
LEMMA TmpPage ==
  ASSUME Inv, NEW p \in Procs, flt[p].at \in {"copy", "map"}
  PROVE  /\ pte[p][Tmp].pg \in Page
         /\ \A q \in Procs, w \in Entries : ~ (q = p /\ w = Tmp) => pte[q][w].pg # pte[p][Tmp].pg
<1> USE Constants
<1>1. pte[p][Tmp].pg \in Page /\ pte[p][Tmp].pg # 0 /\ ~ pte[p][Tmp].ro /\ ~ pte[p][Tmp].lib
  BY Records DEF Inv, FaultOK
<1>2. ASSUME NEW q \in Procs, NEW w \in Entries, ~ (q = p /\ w = Tmp), pte[q][w].pg = pte[p][Tmp].pg
      PROVE  FALSE
  BY <1>1, <1>2, BetweenFacts DEF Inv, SoleWriter, Repaired
<1> QED BY <1>1, <1>2

(* pgfault copies the page. *)
LEMMA FaultCopyInv ==
  ASSUME Inv, NEW p \in Procs, FaultCopy(p)
  PROVE  Rest'
<1> USE Constants
<1> DEFINE g == pte[p][Tmp].pg
           v == flt[p].va
<1>1. /\ st[p] = "run" /\ flt[p].at = "copy"
      /\ UNCHANGED <<st, pte, hdl, uhdl, pc, loc, view, nohdl>>
  BY DEF FaultCopy
<1>2. flt'[p].at = "map" /\ flt'[p].va = v /\ \A q \in Procs : q # p => flt'[q] = flt[q]
  BY FltFacts DEF FaultCopy, Inv
<1>3. /\ g \in Page
      /\ \A q \in Procs, w \in Entries : ~ (q = p /\ w = Tmp) => pte[q][w].pg # g
  BY <1>1, TmpPage
<1>4. v \in Own /\ pte[p][v].pg # 0
  BY <1>1 DEF Inv, FaultOK
<1>5. word'[g] = word[pte[p][v].pg] /\ \A h \in Page : h # g => word'[h] = word[h]
  BY <1>3 DEF FaultCopy, Copied, Inv, TypeOK
<1>6. word[pte[p][v].pg] = view[p][v]
  BY <1>1, <1>4, BetweenFacts DEF Inv, Contents
<1>7. \A q \in Procs, w \in Entries : pte[q][w].pg # 0 => pte[q][w].pg \in Page
  BY Records DEF Inv
<1>8. LibOK'
  BY <1>1 DEF Inv, LibOK
<1>9. ForkOK'
  <2> SUFFICES ASSUME NEW r \in Procs PROVE ForkAt(r)'
    BY DEF ForkOK
  <2>1. ForkAt(r) /\ ForkAt(p)
    BY DEF Inv, ForkOK
  <2>2. CASE r = p
    BY <2>1, <2>2, <1>1, <1>2 DEF ForkAt
  <2>3. CASE r # p
    BY <2>1, <2>3, <1>1, <1>2 DEF ForkAt
  <2> QED BY <2>2, <2>3
<1>10. FaultOK'
  <2> SUFFICES ASSUME NEW q \in Procs, flt'[q].at # "none"
               PROVE  LET w == flt'[q].va  t == pte[q][Tmp] IN
                      /\ uhdl[q] /\ w \in Own /\ pte[q][w].pg # 0
                      /\ pc[q] # "user" => w = Stack
                      /\ t.pg # 0 /\ ~ t.ro /\ ~ t.lib
                      /\ flt'[q].at = "map" => word'[t.pg] = view[q][w]
                      /\ flt'[q].at = "unmap" => pte[q][w].pg = t.pg /\ ~ pte[q][w].ro
    BY <1>1 DEF FaultOK
  <2>1. CASE q = p
    BY <2>1, <1>1, <1>2, <1>4, <1>5, <1>6 DEF Inv, FaultOK
  <2>2. CASE q # p
    BY <2>2, <1>2, <1>3, <1>5, <1>7 DEF Inv, FaultOK
  <2> QED BY <2>1, <2>2
<1>11. SoleWriter'
  <2>1. \A a \in Procs, x, y \in Entries : Repaired(a, x, y) => Repaired(a, x, y)'
    BY <1>1, <1>2 DEF Repaired
  <2>2. \A a, b \in Procs, x \in Entries : Between(a, b, x) => Between(a, b, x)'
    BY <1>1 DEF Between
  <2> SUFFICES ASSUME NEW a \in Procs, NEW b \in Procs, NEW x \in Entries, NEW y \in Entries,
                      pte[a][x].pg # 0, ~ pte[a][x].ro, ~ pte[a][x].lib,
                      pte[a][x].pg = pte[b][y].pg
               PROVE  \/ a = b /\ x = y
                      \/ a = b /\ Repaired(a, x, y)'
                      \/ x = y /\ Between(a, b, x)'
    BY <1>1 DEF SoleWriter
  <2>3. \/ a = b /\ x = y
        \/ a = b /\ Repaired(a, x, y)
        \/ x = y /\ Between(a, b, x)
    BY DEF SoleWriter, Inv
  <2> QED BY <2>1, <2>2, <2>3
<1>12. Contents'
  BY <1>1, <1>3, <1>5, <1>7 DEF Inv, Contents, Between
<1>13. HandlerOK'
  BY <1>1 DEF Inv, HandlerOK, HandlerAt
<1> QED BY <1>8, <1>9, <1>10, <1>11, <1>12, <1>13 DEF Rest

(* pgfault maps the copy in the place of the page. *)
LEMMA FaultMapInv ==
  ASSUME Inv, NEW p \in Procs, FaultMap(p)
  PROVE  Rest'
<1> USE Constants
<1> DEFINE g == pte[p][Tmp].pg
           v == flt[p].va
<1>1. /\ st[p] = "run" /\ flt[p].at = "map"
      /\ UNCHANGED <<st, word, hdl, uhdl, pc, loc, view, nohdl>>
  BY DEF FaultMap
<1>2. flt'[p].at = "unmap" /\ flt'[p].va = v /\ \A q \in Procs : q # p => flt'[q] = flt[q]
  BY FltFacts DEF FaultMap, Inv
<1>3. /\ g \in Page /\ g # 0
      /\ \A q \in Procs, w \in Entries : ~ (q = p /\ w = Tmp) => pte[q][w].pg # g
  BY <1>1, TmpPage
<1>4. v \in Own /\ v \in Entries /\ v # Xst /\ v # Tmp /\ v \notin Lib /\ uhdl[p] /\ word[g] = view[p][v]
  BY <1>1 DEF Inv, FaultOK, Own
<1>5. Rw(g) \in Pte /\ Rw(g).pg = g /\ ~ Rw(g).ro /\ ~ Rw(g).lib
  BY <1>3 DEF Rw, Pte
<1>6. /\ pte'[p][v] = Rw(g)
      /\ \A q \in Procs, w \in Entries : ~ (q = p /\ w = v) => pte'[q][w] = pte[q][w]
  <2>1. pte' = [pte EXCEPT ![p][v] = Rw(g)]
    BY DEF FaultMap
  <2> HIDE DEF g, v
  <2> QED BY <2>1, <1>4, <1>5 DEF Inv, TypeOK, Entries
<1> HIDE DEF g, v
<1>7. \A q \in Procs : q # p => pte'[q] = pte[q]
  BY DEF FaultMap, Inv, TypeOK
<1>8. \A q \in Procs : pc[q] \in Building => loc[q].child \in Procs /\ pte'[loc[q].child] = pte[loc[q].child]
  BY <1>1, <1>7, ChildOf
<1>9. LibOK'
  <2> SUFFICES ASSUME NEW q \in Procs, NEW w \in Entries
               PROVE  /\ w \in Lib /\ pte'[q][w].pg # 0 => pte'[q][w] = [pg |-> w, ro |-> FALSE, lib |-> TRUE]
                      /\ pte'[q][w].lib => w \in Lib
    BY DEF LibOK
  <2>1. CASE q = p /\ w = v
    BY <2>1, <1>4, <1>5, <1>6
  <2>2. CASE ~ (q = p /\ w = v)
    BY <2>2, <1>6 DEF LibOK, Inv
  <2> QED BY <2>1, <2>2
<1>10. ForkOK'
  <2> SUFFICES ASSUME NEW r \in Procs PROVE ForkAt(r)'
    BY DEF ForkOK
  <2>1. ForkAt(r)
    BY DEF Inv, ForkOK
  <2>2. CASE r = p
    <3>1. pte'[p][Stack] = pte[p][Stack] \/ ~ pte'[p][Stack].ro
      BY <1>4, <1>5, <1>6
    <3>2. pc[p] \in {"child", "parent"} => pte'[p][loc[p].va] = pte[p][loc[p].va]
      <4> SUFFICES ASSUME pc[p] \in {"child", "parent"} PROVE pte'[p][loc[p].va] = pte[p][loc[p].va]
        OBVIOUS
      <4>1. loc[p].va # v /\ loc[p].va \in Entries
        BY <2>1, <2>2, <1>1 DEF ForkAt, v
      <4> QED BY <4>1, <1>6
    <3> QED BY <2>1, <2>2, <3>1, <3>2, <1>1, <1>2, <1>8 DEF ForkAt, Building, v
  <2>3. CASE r # p
    BY <2>1, <2>3, <1>1, <1>2, <1>7, <1>8 DEF ForkAt, Building
  <2> QED BY <2>2, <2>3
<1>11. FaultOK'
  <2> SUFFICES ASSUME NEW q \in Procs, flt'[q].at # "none"
               PROVE  LET w == flt'[q].va  t == pte'[q][Tmp] IN
                      /\ uhdl[q] /\ w \in Own /\ pte'[q][w].pg # 0
                      /\ pc[q] # "user" => w = Stack
                      /\ t.pg # 0 /\ ~ t.ro /\ ~ t.lib
                      /\ flt'[q].at = "map" => word[t.pg] = view[q][w]
                      /\ flt'[q].at = "unmap" => pte'[q][w].pg = t.pg /\ ~ pte'[q][w].ro
    BY <1>1 DEF FaultOK
  <2>1. CASE q = p
    <3>1. pte'[p][Tmp] = pte[p][Tmp] /\ g = pte[p][Tmp].pg /\ v = flt[p].va
      BY <1>4, <1>6 DEF g, v
    <3>2. (pc[p] # "user" => v = Stack) /\ ~ pte[p][Tmp].ro /\ ~ pte[p][Tmp].lib
      BY <1>1, <3>1 DEF Inv, FaultOK
    <3> QED BY <2>1, <3>1, <3>2, <1>2, <1>3, <1>4, <1>5, <1>6
  <2>2. CASE q # p
    BY <2>2, <1>2, <1>7 DEF Inv, FaultOK
  <2> QED BY <2>1, <2>2
<1>12. SoleWriter'
  <2> SUFFICES ASSUME NEW a \in Procs, NEW b \in Procs, NEW x \in Entries, NEW y \in Entries,
                      pte'[a][x].pg # 0, ~ pte'[a][x].ro, ~ pte'[a][x].lib,
                      pte'[a][x].pg = pte'[b][y].pg
               PROVE  \/ a = b /\ x = y
                      \/ a = b /\ Repaired(a, x, y)'
                      \/ x = y /\ Between(a, b, x)'
    BY DEF SoleWriter
  <2>1. CASE a = p /\ x = v
    BY <2>1, <1>2, <1>3, <1>5, <1>6 DEF Repaired
  <2>2. CASE b = p /\ y = v /\ ~ (a = p /\ x = v)
    <3>1. pte[a][x].pg = g
      BY <2>2, <1>5, <1>6
    <3>2. a = p /\ x = Tmp
      BY <3>1, <1>3
    <3>3. flt'[a].at = "unmap" /\ x = Tmp /\ y = flt'[a].va
      BY <2>2, <3>2, <1>2
    <3> QED BY <2>2, <3>2, <3>3 DEF Repaired
  <2>3. CASE ~ (a = p /\ x = v) /\ ~ (b = p /\ y = v)
    <3>1. pte'[a][x] = pte[a][x] /\ pte'[b][y] = pte[b][y]
      BY <2>3, <1>6
    <3>2. \/ a = b /\ x = y
          \/ a = b /\ Repaired(a, x, y)
          \/ x = y /\ Between(a, b, x)
      BY <3>1 DEF SoleWriter, Inv
    <3>3. Repaired(a, x, y) => Repaired(a, x, y)'
      BY <1>1, <1>2 DEF Repaired
    <3> QED BY <3>2, <3>3, <1>1 DEF Between
  <2> QED BY <2>1, <2>2, <2>3
<1>13. Contents'
  <2> SUFFICES ASSUME NEW q \in Procs, NEW w \in Own, st[q] # "free", pte'[q][w].pg # 0,
                      \A a \in Procs : ~ Between(a, q, w)
               PROVE  word[pte'[q][w].pg] = view[q][w]
    BY <1>1 DEF Contents, Between
  <2>1. CASE q = p /\ w = v
    BY <2>1, <1>4, <1>5, <1>6
  <2>2. CASE ~ (q = p /\ w = v)
    BY <2>2, <1>6 DEF Contents, Inv
  <2> QED BY <2>1, <2>2
<1>14. HandlerOK'
  <2>1. pte'[p][Xst] = pte[p][Xst]
    BY <1>4, <1>6
  <2> QED BY <1>1, <1>4, <1>7, <1>8, <2>1 DEF Inv, HandlerOK, HandlerAt, Building
<1> QED BY <1>9, <1>10, <1>11, <1>12, <1>13, <1>14 DEF Rest

(* pgfault unmaps the temporary address. *)
LEMMA FaultUnmapInv ==
  ASSUME Inv, NEW p \in Procs, FaultUnmap(p)
  PROVE  Rest'
<1> USE Constants
<1>1. /\ st[p] = "run" /\ flt[p].at = "unmap"
      /\ UNCHANGED <<st, hdl, uhdl, pc, loc, nohdl>>
  BY DEF FaultUnmap
<1>2. flt'[p] = NoFlt /\ NoFlt.at = "none" /\ \A q \in Procs : q # p => flt'[q] = flt[q]
  BY DEF FaultUnmap, Inv, TypeOK, NoFlt
<1>3. /\ pte'[p][Tmp] = NoPte
      /\ \A q \in Procs, w \in Entries : ~ (q = p /\ w = Tmp) => pte'[q][w] = pte[q][w]
  BY DEF FaultUnmap, Inv, TypeOK, Entries
<1>4. NoPte.pg = 0 /\ ~ NoPte.lib /\ Tmp \notin Own /\ Tmp \notin Lib /\ Xst # Tmp /\ Stack # Tmp
  BY DEF NoPte
<1>5. PICK v \in Own, val \in Vals :
        v = flt[p].va /\ pte[p][v].pg # 0 /\ ~ pte[p][v].ro /\ Put(p, v, val)
  <2>1. flt[p].va \in Own /\ pte[p][flt[p].va].pg # 0 /\ ~ pte[p][flt[p].va].ro
    BY <1>1, Records DEF Inv, FaultOK
  <2>2. flt[p].val \in Vals
    BY DEF Inv, TypeOK
  <2> QED BY <2>1, <2>2 DEF FaultUnmap
<1>6. \A q \in Procs, w \in Va : pte'[q][w] = pte[q][w]
  BY <1>3, <1>4
<1>7. /\ Contents'
      /\ \A q \in Procs : flt[q].at \in {"copy", "map"} =>
           word'[pte[q][Tmp].pg] = word[pte[q][Tmp].pg]
      /\ \A q \in Procs : q # p => view'[q] = view[q]
  <2>1. \A a, b \in Procs, w \in Entries : Between(a, b, w)' <=> Between(a, b, w)
    BY <1>1 DEF Between
  <2> QED BY <1>1, <1>5, <1>6, <2>1, PutInv
<1>8. LibOK'
  <2> SUFFICES ASSUME NEW q \in Procs, NEW w \in Entries
               PROVE  /\ w \in Lib /\ pte'[q][w].pg # 0 => pte'[q][w] = [pg |-> w, ro |-> FALSE, lib |-> TRUE]
                      /\ pte'[q][w].lib => w \in Lib
    BY DEF LibOK
  <2>1. CASE q = p /\ w = Tmp
    BY <2>1, <1>3, <1>4
  <2>2. CASE ~ (q = p /\ w = Tmp)
    BY <2>2, <1>3 DEF LibOK, Inv
  <2> QED BY <2>1, <2>2
<1>9. \A q \in Procs : q # p => pte'[q] = pte[q]
  BY DEF FaultUnmap, Inv, TypeOK
<1>10. \A q \in Procs : loc[q].child \in Procs
  BY Records DEF Inv
<1>11. ForkOK'
  <2>1. \A q \in Procs : pc[q] \in Building => pte'[loc[q].child] = pte[loc[q].child]
    BY <1>1, <1>9, ChildOf
  <2> SUFFICES ASSUME NEW r \in Procs PROVE ForkAt(r)'
    BY DEF ForkOK
  <2>2. ForkAt(r)
    BY DEF Inv, ForkOK
  <2>3. st[r] = "free" => pte'[r] = pte[r]
    BY <1>1, <1>9
  <2>4. st[r] \in {"free", "built"} => flt'[r].at = "none"
    BY <2>2, <1>1, <1>2 DEF ForkAt
  <2>5. pc[r] \in {"child", "parent"} => (flt'[r].at # "none" => flt'[r].va # loc[r].va)
    BY <2>2, <1>2 DEF ForkAt
  <2>6. pte'[r][Stack] = pte[r][Stack]
    BY <1>6
  <2>7. pc[r] \in {"child", "parent"} =>
          /\ pte'[r][loc[r].va] = pte[r][loc[r].va]
          /\ pte'[loc[r].child][loc[r].va] = pte[loc[r].child][loc[r].va]
    BY <2>2, <1>6, <1>10 DEF ForkAt
  <2> QED BY <1>1, <2>2, <2>3, <2>4, <2>5, <2>6, <2>7 DEF ForkAt
<1>12. FaultOK'
  <2> SUFFICES ASSUME NEW q \in Procs, q # p, flt[q].at # "none"
               PROVE  LET w == flt[q].va  t == pte[q][Tmp] IN
                      /\ uhdl[q] /\ w \in Own /\ pte[q][w].pg # 0
                      /\ pc[q] # "user" => w = Stack
                      /\ t.pg # 0 /\ ~ t.ro /\ ~ t.lib
                      /\ flt[q].at = "map" => word'[t.pg] = view[q][w]
                      /\ flt[q].at = "unmap" => pte[q][w].pg = t.pg /\ ~ pte[q][w].ro
    BY <1>1, <1>2, <1>7, <1>9 DEF FaultOK
  <2> QED BY <1>7 DEF Inv, FaultOK
<1>13. SoleWriter'
  <2> SUFFICES ASSUME NEW a \in Procs, NEW b \in Procs, NEW x \in Entries, NEW y \in Entries,
                      pte'[a][x].pg # 0, ~ pte'[a][x].ro, ~ pte'[a][x].lib,
                      pte'[a][x].pg = pte'[b][y].pg
               PROVE  \/ a = b /\ x = y
                      \/ a = b /\ Repaired(a, x, y)'
                      \/ x = y /\ Between(a, b, x)'
    BY DEF SoleWriter
  <2>1. ~ (a = p /\ x = Tmp) /\ ~ (b = p /\ y = Tmp)
    BY <1>3, <1>4
  <2>2. pte'[a][x] = pte[a][x] /\ pte'[b][y] = pte[b][y]
    BY <2>1, <1>3
  <2>3. \/ a = b /\ x = y
        \/ a = b /\ Repaired(a, x, y)
        \/ x = y /\ Between(a, b, x)
    BY <2>2 DEF SoleWriter, Inv
  <2>4. a = b /\ Repaired(a, x, y) => Repaired(a, x, y)'
    BY <2>1, <1>2 DEF Repaired
  <2> QED BY <2>3, <2>4, <1>1 DEF Between
<1>14. HandlerOK'
  BY <1>1, <1>6, <1>10 DEF Inv, HandlerOK, HandlerAt
<1> QED BY <1>7, <1>8, <1>11, <1>12, <1>13, <1>14 DEF Rest

(* set_pgfault_handler *)
LEMMA ForkStartInv ==
  ASSUME Inv, NEW p \in Procs, ForkStart(p)
  PROVE  Rest'
<1> USE Constants
<1>1. /\ st[p] = "run" /\ pc[p] = "user" /\ flt[p].at = "none" /\ ~ pte[p][Stack].ro
      /\ UNCHANGED <<st, loc, flt, view>>
      /\ pc'[p] = "alloc" /\ \A q \in Procs : q # p => pc'[q] = pc[q]
  BY DEF ForkStart, Runs, Inv, TypeOK
<1>2. SameStage
  BY <1>1 DEF SameStage, Between
<1>3. \A q \in Procs : loc[q].child \in Procs
  BY Records DEF Inv
<1>4. CASE /\ UNCHANGED <<pte, word, hdl, uhdl>>
           /\ (uhdl[p] /\ UNCHANGED nohdl) \/ nohdl' = [nohdl EXCEPT ![p] = TRUE]
  <2>0. (uhdl'[p] \/ nohdl'[p]) /\ \A q \in Procs : q # p => nohdl'[q] = nohdl[q]
    BY <1>4 DEF Inv, TypeOK
  <2>1. LibOK' /\ SoleWriter' /\ Contents'
    BY <1>1, <1>2, <1>4, SameMemoryInv DEF SameMemory
  <2>2. ForkOK'
    BY <1>1, <1>3, <1>4 DEF Inv, ForkOK, ForkAt, Building, Mapping
  <2>3. FaultOK'
    BY <1>1, <1>4 DEF Inv, FaultOK
  <2>4. HandlerOK'
    BY <2>0, <1>1, <1>4 DEF Inv, HandlerOK, HandlerAt
  <2> QED BY <2>1, <2>2, <2>3, <2>4 DEF Rest
<1>5. ASSUME NEW g \in Free, FreshPage(p, Xst, g),
             hdl' = [hdl EXCEPT ![p] = TRUE], uhdl' = [uhdl EXCEPT ![p] = TRUE],
             nohdl' = [nohdl EXCEPT ![p] = FALSE]
      PROVE  Rest'
  <2>1. /\ LibOK' /\ SoleWriter' /\ Contents'
        /\ g \in Page /\ pte'[p][Xst] = Rw(g)
        /\ \A q \in Procs, w \in Entries : ~ (q = p /\ w = Xst) => pte'[q][w] = pte[q][w]
        /\ \A q \in Procs, w \in Entries : pte[q][w].pg # g
        /\ \A h \in Page : h # g => word'[h] = word[h]
    BY <1>2, <1>5, FreshPageInv
  <2>2. /\ hdl'[p] /\ uhdl'[p]
        /\ \A q \in Procs : q # p => /\ hdl'[q] = hdl[q] /\ uhdl'[q] = uhdl[q]
                                     /\ nohdl'[q] = nohdl[q] /\ pte'[q] = pte[q]
    BY <1>5 DEF FreshPage, Inv, TypeOK
  <2>3. \A q \in Procs, w \in Va \ {Xst} : pte'[q][w] = pte[q][w]
    BY <2>1
  <2>4. \A q \in Procs : pte'[q][Tmp] = pte[q][Tmp]
    BY <2>1
  <2>5. ForkOK'
    <3> SUFFICES ASSUME NEW q \in Procs PROVE ForkAt(q)'
      BY DEF ForkOK
    <3>1. ForkAt(q) /\ \A r \in Procs : ForkAt(r)
      BY DEF Inv, ForkOK
    <3>2. CASE q = p
      <4>1. pc'[p] = "alloc" /\ st'[p] = "run" /\ loc'[p] = loc[p]
        BY <1>1
      <4>2. pte'[p][Stack] = pte[p][Stack]
        BY <2>3
      <4>3. ~ (pc[p] \in Building) /\ ~ (pc'[p] \in Building)
            /\ ~ (pc'[p] \in Mapping)
        BY <1>1, <4>1 DEF Building, Mapping
      <4> QED BY <1>1, <3>2, <4>1, <4>2, <4>3 DEF ForkAt
    <3>3. CASE q # p
      <4>1. /\ pc'[q] = pc[q] /\ pte'[q] = pte[q]
            /\ st' = st /\ loc' = loc /\ flt' = flt
        BY <1>1, <2>2, <3>3
      <4>2. loc[q].child = p => ~ (pc[q] \in Building)
        BY <1>1, <3>1 DEF ForkAt
      <4>3. \A r \in Procs : pc'[r] \in Building => pc[r] \in Building
        BY <1>1 DEF Building
      <4>4. pc[q] = "parent" =>
              /\ q # p /\ loc[q].child \in Procs \ {p} /\ loc[q].va \in Va \ {Xst}
        BY <1>3, <3>1, <3>3, <4>2 DEF ForkAt, Building
      <4>5. pc[q] = "parent" => pte'[loc[q].child] = pte[loc[q].child]
        BY <2>2, <4>4
      <4> QED BY <3>1, <4>1, <4>3, <4>5 DEF ForkAt
    <3> QED BY <3>2, <3>3
  <2>6. FaultOK'
    <3> SUFFICES ASSUME NEW q \in Procs, q # p, flt[q].at # "none"
                 PROVE  LET w == flt[q].va  t == pte[q][Tmp] IN
                        /\ uhdl[q] /\ w \in Own /\ pte[q][w].pg # 0
                        /\ pc[q] # "user" => w = Stack
                        /\ t.pg # 0 /\ ~ t.ro /\ ~ t.lib
                        /\ flt[q].at = "map" => word'[t.pg] = view[q][w]
                        /\ flt[q].at = "unmap" => pte[q][w].pg = t.pg /\ ~ pte[q][w].ro
      BY <1>1, <2>2 DEF FaultOK
    <3>1. pte[q][Tmp].pg # 0 => pte[q][Tmp].pg \in Page /\ pte[q][Tmp].pg # g
      BY <2>1, Records DEF Inv
    <3> QED BY <2>1, <3>1 DEF Inv, FaultOK
  <2>7. HandlerOK'
    <3>1. Rw(g).pg # 0 /\ ~ Rw(g).ro
      BY <2>1 DEF Rw
    <3> QED BY <1>1, <1>3, <2>1, <2>2, <3>1 DEF Inv, HandlerOK, HandlerAt
  <2> QED BY <2>1, <2>5, <2>6, <2>7 DEF Rest
<1> QED
  <2>1. \/ /\ UNCHANGED <<pte, word, hdl, uhdl>>
           /\ (uhdl[p] /\ UNCHANGED nohdl) \/ nohdl' = [nohdl EXCEPT ![p] = TRUE]
        \/ \E g \in Free : /\ pte' = [pte EXCEPT ![p][Xst] = Rw(g)]
                           /\ word' = [word EXCEPT ![g] = 0]
                           /\ hdl' = [hdl EXCEPT ![p] = TRUE]
                           /\ uhdl' = [uhdl EXCEPT ![p] = TRUE]
                           /\ nohdl' = [nohdl EXCEPT ![p] = FALSE]
    BY DEF ForkStart
  <2> QED BY <1>1, <1>4, <1>5, <2>1 DEF FreshPage

(* syscall_env_alloc *)
LEMMA ForkAllocInv ==
  ASSUME Inv, NEW p \in Procs, ForkAlloc(p)
  PROVE  Rest'
<1> USE Constants
<1>1. PICK q \in Procs : /\ st[q] = "free" /\ st' = [st EXCEPT ![q] = "built"]
                         /\ loc' = [loc EXCEPT ![p] = [NoLoc EXCEPT !.va = 1, !.child = q]]
  BY DEF ForkAlloc
<1>2. /\ st[p] = "run" /\ pc[p] = "alloc" /\ flt[p].at = "none" /\ q # p
      /\ UNCHANGED <<pte, word, hdl, uhdl, flt, view, nohdl>>
      /\ pc'[p] = "scan" /\ \A r \in Procs : r # p => pc'[r] = pc[r]
      /\ st'[q] = "built" /\ \A r \in Procs : r # q => st'[r] = st[r]
  BY <1>1 DEF ForkAlloc, Runs, Inv, TypeOK
<1>3. loc'[p].va = 1 /\ loc'[p].child = q /\ \A r \in Procs : r # p => loc'[r] = loc[r]
  BY <1>1, AllocFacts DEF Inv
<1>4. pc[q] = "user" /\ flt[q].at = "none" /\ \A v \in Entries : pte[q][v].pg = 0
  <2>1. pc[q] = "user" /\ flt[q].at = "none" /\ pte[q] = [v \in Entries |-> NoPte]
    BY <1>1 DEF Inv, ForkOK, ForkAt
  <2> QED BY <2>1 DEF NoPte
<1>5. SameStage
  BY <1>2, <1>3, <1>4 DEF SameStage, Between
<1>6. LibOK' /\ SoleWriter' /\ Contents'
  BY <1>2, <1>5, SameMemoryInv DEF SameMemory
<1>7. \A r \in Procs : r # p /\ pc[r] \in Building =>
        loc[r].child \in Procs /\ loc[r].child # q /\ st'[loc[r].child] = "built"
  BY <1>1, <1>2, ChildOf
<1>8. ForkOK'
  <2> SUFFICES ASSUME NEW r \in Procs PROVE ForkAt(r)'
    BY DEF ForkOK
  <2>1. CASE r = p
    <3>1. ~ pte[p][Stack].ro
      BY <1>2 DEF Inv, ForkOK, ForkAt
    <3> QED BY <2>1, <3>1, <1>1, <1>2, <1>3, <1>7 DEF ForkAt, Mapping
  <2>2. CASE r = q
    BY <2>2, <1>2, <1>4 DEF ForkAt, Building, Mapping
  <2>3. CASE r # p /\ r # q
    <3>1. ForkAt(r)
      BY DEF Inv, ForkOK
    <3>2. pc'[r] = pc[r] /\ loc'[r] = loc[r] /\ st'[r] = st[r] /\ flt'[r] = flt[r]
      BY <2>3, <1>2, <1>3
    <3>3. pc[r] \in Building =>
            /\ loc[r].child # r /\ st'[loc[r].child] = "built"
            /\ \A a \in Procs : a # r /\ pc'[a] \in Building => loc'[a].child # loc[r].child
      BY <2>3, <3>1, <1>2, <1>3, <1>7 DEF ForkAt
    <3> QED BY <3>1, <3>2, <3>3, <1>2 DEF ForkAt
  <2> QED BY <2>1, <2>2, <2>3
<1>9. FaultOK'
  BY <1>2 DEF Inv, FaultOK
<1>10. HandlerOK'
  <2> QED BY <1>2, <1>3, <1>4 DEF Inv, HandlerOK, HandlerAt
<1> QED BY <1>6, <1>8, <1>9, <1>10 DEF Rest

(* The loop of fork reads an entry. *)
LEMMA ForkScanInv ==
  ASSUME Inv, NEW p \in Procs, ForkScan(p)
  PROVE  Rest'
<1> USE Constants
<1> DEFINE v == loc[p].va
<1>1. /\ st[p] = "run" /\ pc[p] = "scan" /\ flt[p].at = "none"
      /\ UNCHANGED <<st, pte, word, hdl, uhdl, flt, view, nohdl>>
  BY DEF ForkScan, Runs
<1>2. v \in 1 .. NVA + 1
  <2>1. v \in 0 .. NVA + 1
    BY Records DEF Inv
  <2>2. v >= 1
    BY <1>1 DEF Inv, ForkOK, ForkAt, Mapping
  <2> QED BY <2>1, <2>2
<1>3. /\ \A r \in Procs : r # p => pc'[r] = pc[r] /\ loc'[r] = loc[r]
      /\ loc'[p].child = loc[p].child
      /\ \/ pc'[p] = "xst" /\ v > NVA /\ loc'[p] = loc[p]
         \/ pc'[p] = "scan" /\ v \in Va /\ loc'[p].va = v + 1 /\ (pte[p][v].pg = 0 \/ v = Xst)
         \/ /\ pc'[p] = "child" /\ v \in Va \ {Xst} /\ pte[p][v].pg # 0
            /\ loc'[p].va = v /\ loc'[p].perm = pte[p][v]
  <2>1. pc \in [Procs -> {"user", "alloc", "scan", "child", "parent", "xst", "handler", "status"}]
    BY DEF Inv, TypeOK
  <2>2. CASE v > NVA
    <3>1. pc' = [pc EXCEPT ![p] = "xst"] /\ loc' = loc
      BY <2>2 DEF ForkScan
    <3> QED BY <2>1, <2>2, <3>1
  <2>3. CASE v \in Va /\ Skipped(pte[p][v], v)
    <3>1. GoOn(p)
      BY <2>3 DEF ForkScan, Va
    <3>2. /\ loc'[p].va = v + 1 /\ loc'[p].child = loc[p].child
          /\ \A r \in Procs : r # p => loc'[r] = loc[r]
          /\ pc' = [pc EXCEPT ![p] = "scan"]
      BY <2>3, <3>1, GoOnFacts DEF Inv
    <3> QED BY <2>1, <2>3, <3>2 DEF Skipped
  <2>4. CASE v \in Va /\ ~ Skipped(pte[p][v], v)
    <3>1. loc' = [loc EXCEPT ![p].perm = pte[p][v]] /\ pc' = [pc EXCEPT ![p] = "child"]
      BY <2>4 DEF ForkScan, Va
    <3>2. pte[p][v] \in Pte
      BY <2>4, Records DEF Inv
    <3>3. /\ loc'[p].va = v /\ loc'[p].child = loc[p].child /\ loc'[p].perm = pte[p][v]
          /\ \A r \in Procs : r # p => loc'[r] = loc[r]
      BY <3>1, <3>2, ScanFacts DEF Inv
    <3> QED BY <2>1, <2>4, <3>1, <3>3 DEF Skipped
  <2> QED BY <1>2, <2>2, <2>3, <2>4 DEF Va
<1> HIDE DEF v
<1>4. SameStage
  BY <1>1, <1>3 DEF SameStage, Between
<1>5. LibOK' /\ SoleWriter' /\ Contents'
  BY <1>1, <1>4, SameMemoryInv DEF SameMemory
<1>6. ForkOK'
  <2>1. \A r \in Procs : pc'[r] \in Building => pc[r] \in Building /\ loc'[r].child = loc[r].child
    BY <1>1, <1>3 DEF Building
  <2>2. pc'[p] \in Mapping => loc'[p].va >= 1
    BY <1>2, <1>3 DEF Mapping, Va
  <2>6. pc'[p] \in Mapping /\ loc'[p].va <= Stack => pc[p] \in Mapping /\ loc[p].va <= Stack
    <3>1. v \in Int /\ Stack \in Int /\ v = loc[p].va
      BY <1>2 DEF Va, v
    <3> QED BY <3>1, <1>1, <1>3 DEF Mapping
  <2> SUFFICES ASSUME NEW r \in Procs PROVE ForkAt(r)'
    BY DEF ForkOK
  <2>3. ForkAt(r)
    BY DEF Inv, ForkOK
  <2>4. CASE r = p
    BY <2>4, <2>1, <2>2, <2>3, <2>6, <1>1, <1>3 DEF ForkAt
  <2>5. CASE r # p
    BY <2>5, <2>1, <2>3, <1>1, <1>3 DEF ForkAt
  <2> QED BY <2>4, <2>5
<1>7. FaultOK'
  BY <1>1, <1>3 DEF Inv, FaultOK
<1>8. HandlerOK'
  BY <1>1, <1>3 DEF Inv, HandlerOK, HandlerAt
<1> QED BY <1>5, <1>6, <1>7, <1>8 DEF Rest

(***************************************************************************)
(* The first system call of duppage: the child gets the page, never with   *)
(* the right to write it unless it is a library page.                      *)
(***************************************************************************)
LEMMA ForkChildInv ==
  ASSUME Inv, NEW p \in Procs, ForkChild(p)
  PROVE  Rest'
<1> USE Constants
<1>1. PICK v \in Va \ {Xst}, q \in Procs, e \in Pte : ChildStep(p, v, q, e)
  BY ChildFacts DEF Inv
<1> DEFINE c == ChildPerm(e)
<1>2. /\ v = loc[p].va /\ q = loc[p].child /\ e = pte[p][v] /\ e.pg # 0 /\ loc[p].perm = e
      /\ st[p] = "run" /\ pc[p] = "child" /\ flt[p].at = "none" /\ q # p /\ st[q] = "built"
      /\ c \in Pte /\ UNCHANGED <<st, word, hdl, uhdl, flt, nohdl>>
  BY <1>1 DEF ChildStep
<1>3. c.pg = e.pg /\ c.lib = e.lib /\ (c.lib \/ c.ro) /\ (e.lib => c = e)
      /\ (~ e.lib => c = [e EXCEPT !.ro = TRUE])
  BY Perms DEF ChildPerm
<1>4. /\ pte'[q][v] = c
      /\ \A a \in Procs, w \in Entries : ~ (a = q /\ w = v) => pte'[a][w] = pte[a][w]
      /\ \A a \in Procs : a # q => pte'[a] = pte[a]
  <2>1. pte' = [pte EXCEPT ![q][v] = c]
    BY <1>1 DEF ChildStep
  <2> HIDE DEF c
  <2> QED BY <2>1, <1>2 DEF Inv, TypeOK, Entries
<1> HIDE DEF c
<1>5. /\ \A a \in Procs : a # p => pc'[a] = pc[a] /\ loc'[a] = loc[a]
      /\ loc'[p].child = q
      /\ \/ (e.lib \/ e.ro) /\ pc'[p] = "scan" /\ loc'[p].va = v + 1
         \/ ~ e.lib /\ ~ e.ro /\ pc'[p] = "parent" /\ loc'[p] = loc[p]
  <2>1. pc \in [Procs -> {"user", "alloc", "scan", "child", "parent", "xst", "handler", "status"}]
    BY DEF Inv, TypeOK
  <2>2. CASE e.lib \/ e.ro
    <3>1. GoOn(p) /\ loc[p].va \in Va
      BY <1>1, <1>2, <2>2 DEF ChildStep
    <3> QED BY <1>2, <2>1, <2>2, <3>1, GoOnFacts DEF Inv
  <2>3. CASE ~ (e.lib \/ e.ro)
    BY <1>1, <1>2, <2>1, <2>3 DEF ChildStep
  <2> QED BY <2>2, <2>3
<1>6. /\ \A a \in Procs, w \in Own : ~ (a = q /\ w = v) => view'[a][w] = view[a][w]
      /\ \A a \in Procs : a # q => view'[a] = view[a]
      /\ v \in Own /\ (e.lib \/ e.ro) => view'[q][v] = view[p][v]
  <2>1. \/ view' = view /\ ~ (v \in Own /\ (e.lib \/ e.ro))
        \/ v \in Own /\ view' = [view EXCEPT ![q][v] = view[p][v]]
    BY <1>1 DEF ChildStep
  <2> QED BY <2>1 DEF Inv, TypeOK
<1>7. pc[q] = "user" /\ flt[q].at = "none"
      /\ \A a \in Procs : a # p /\ pc[a] \in Building => loc[a].child \in Procs /\ loc[a].child # q
  BY <1>2, ChildOf DEF Building
<1>8. LibOK'
  <2> SUFFICES ASSUME NEW a \in Procs, NEW w \in Entries
               PROVE  /\ w \in Lib /\ pte'[a][w].pg # 0 => pte'[a][w] = [pg |-> w, ro |-> FALSE, lib |-> TRUE]
                      /\ pte'[a][w].lib => w \in Lib
    BY DEF LibOK
  <2>1. CASE a = q /\ w = v
    <3>1. v \in Lib => e = [pg |-> v, ro |-> FALSE, lib |-> TRUE]
      BY <1>2 DEF Inv, LibOK
    <3>2. e.lib => v \in Lib
      BY <1>2 DEF Inv, LibOK
    <3> QED BY <2>1, <3>1, <3>2, <1>3, <1>4
  <2>2. CASE ~ (a = q /\ w = v)
    BY <2>2, <1>4 DEF LibOK, Inv
  <2> QED BY <2>1, <2>2
<1>9. ForkOK'
  <2> SUFFICES ASSUME NEW r \in Procs PROVE ForkAt(r)'
    BY DEF ForkOK
  <2>1. ForkAt(r) /\ ForkAt(p)
    BY DEF Inv, ForkOK
  <2>2. \A a \in Procs : pc'[a] \in Building => pc[a] \in Building /\ loc'[a].child = loc[a].child
    BY <1>2, <1>5 DEF Building
  <2>3. CASE r = p
    <3>1. pc'[p] \in Mapping => loc'[p].va >= 1
      BY <1>2, <1>5 DEF Mapping, Va
    <3>2. pc'[p] # "child" /\ pte'[p] = pte[p]
      BY <1>2, <1>4, <1>5
    <3>3. pc'[p] = "parent" => /\ pte'[q][v] = [e EXCEPT !.ro = TRUE] /\ loc'[p] = loc[p]
                               /\ ~ e.ro /\ ~ e.lib
      BY <1>3, <1>4, <1>5
    <3>4. pc'[p] \in Building => /\ loc'[p].child # p /\ st'[loc'[p].child] = "built"
            /\ \A a \in Procs : a # p /\ pc'[a] \in Building => loc'[a].child # loc'[p].child
      BY <1>2, <1>5, <1>7, <2>2
    <3>5. pc'[p] = "alloc" \/ (pc'[p] \in Mapping /\ loc'[p].va <= Stack) => ~ pte'[p][Stack].ro
      <4>1. v \in Int /\ Stack \in Int
        BY DEF Va
      <4>2. pc'[p] # "alloc" /\ (loc'[p].va <= Stack => v <= Stack)
        BY <4>1, <1>2, <1>5
      <4>3. v <= Stack => ~ pte[p][Stack].ro
        BY <2>1, <1>2 DEF ForkAt, Mapping
      <4> QED BY <4>2, <4>3, <3>2
    <3>6. pc'[p] \in {"child", "parent"} =>
            /\ loc'[p].va \in Va \ {Xst}
            /\ loc'[p].perm = pte'[p][loc'[p].va] /\ loc'[p].perm.pg # 0
            /\ flt'[p].at # "none" => flt'[p].va # loc'[p].va
      BY <3>2, <3>3, <1>2
    <3>7. pc'[p] = "parent" =>
            /\ ~ loc'[p].perm.ro /\ ~ loc'[p].perm.lib
            /\ pte'[loc'[p].child][loc'[p].va] = [loc'[p].perm EXCEPT !.ro = TRUE]
      BY <3>3, <1>2
    <3>8. st'[p] = "run"
      BY <1>2
    <3> QED BY <2>3, <3>1, <3>4, <3>5, <3>6, <3>7, <3>8 DEF ForkAt
  <2>4. CASE r = q
    BY <2>4, <1>2, <1>5, <1>7 DEF ForkAt, Building, Mapping
  <2>5. CASE r # p /\ r # q
    <3>1. pte'[r] = pte[r] /\ pc'[r] = pc[r] /\ loc'[r] = loc[r] /\ st'[r] = st[r] /\ flt'[r] = flt[r]
      BY <2>5, <1>2, <1>4, <1>5
    <3>2. pc[r] \in Building => pte'[loc[r].child] = pte[loc[r].child]
      BY <2>5, <1>4, <1>7
    <3>3. pc[r] \in Building =>
            /\ loc[r].child # r /\ st'[loc[r].child] = "built"
            /\ \A a \in Procs : a # r /\ pc'[a] \in Building => loc'[a].child # loc[r].child
      BY <2>1, <2>2, <1>2 DEF ForkAt
    <3>4. pc[r] = "parent" => pc[r] \in Building
      BY DEF Building
    <3> QED BY <2>1, <3>1, <3>2, <3>3, <3>4, <1>2 DEF ForkAt
  <2> QED BY <2>3, <2>4, <2>5
<1>10. FaultOK'
  <2> SUFFICES ASSUME NEW a \in Procs, a # q, a # p, flt[a].at # "none"
               PROVE  LET w == flt[a].va  t == pte[a][Tmp] IN
                      /\ uhdl[a] /\ w \in Own /\ pte[a][w].pg # 0
                      /\ pc[a] # "user" => w = Stack
                      /\ t.pg # 0 /\ ~ t.ro /\ ~ t.lib
                      /\ flt[a].at = "map" => word[t.pg] = view[a][w]
                      /\ flt[a].at = "unmap" => pte[a][w].pg = t.pg /\ ~ pte[a][w].ro
    BY <1>2, <1>4, <1>5, <1>6, <1>7 DEF FaultOK
  <2> QED BY DEF Inv, FaultOK
<1>11. ASSUME NEW a \in Procs, NEW b \in Procs, NEW x, Between(a, b, x)
       PROVE  Between(a, b, x)'
  BY <1>11, <1>2, <1>5 DEF Between
<1>12. SoleWriter'
  <2> SUFFICES ASSUME NEW a \in Procs, NEW b \in Procs, NEW x \in Entries, NEW y \in Entries,
                      pte'[a][x].pg # 0, ~ pte'[a][x].ro, ~ pte'[a][x].lib,
                      pte'[a][x].pg = pte'[b][y].pg
               PROVE  \/ a = b /\ x = y
                      \/ a = b /\ Repaired(a, x, y)'
                      \/ x = y /\ Between(a, b, x)'
    BY DEF SoleWriter
  <2>1. ~ (a = q /\ x = v) /\ pte'[a][x] = pte[a][x]
    BY <1>3, <1>4
  <2>2. CASE b = q /\ y = v
    <3>1. pte[a][x].pg = pte[p][v].pg
      BY <2>1, <2>2, <1>2, <1>3, <1>4
    <3>2. \/ a = p /\ x = v
          \/ a = p /\ Repaired(a, x, v)
          \/ x = v /\ Between(a, p, x)
      BY <2>1, <3>1 DEF SoleWriter, Inv
    <3>3. a = p /\ x = v
      BY <3>2, <1>2, BetweenFacts DEF Repaired
    <3>4. ~ e.ro /\ ~ e.lib
      BY <2>1, <3>3, <1>2
    <3>5. Between(p, q, v)'
      BY <3>4, <1>2, <1>5 DEF Between
    <3> QED BY <2>2, <3>3, <3>5
  <2>3. CASE ~ (b = q /\ y = v)
    <3>1. pte'[b][y] = pte[b][y]
      BY <2>3, <1>4
    <3>2. \/ a = b /\ x = y
          \/ a = b /\ Repaired(a, x, y)
          \/ x = y /\ Between(a, b, x)
      BY <2>1, <3>1 DEF SoleWriter, Inv
    <3>3. Repaired(a, x, y) => Repaired(a, x, y)'
      BY <1>2 DEF Repaired
    <3> QED BY <3>2, <3>3, <1>11
  <2> QED BY <2>2, <2>3
<1>13. Contents'
  <2> SUFFICES ASSUME NEW a \in Procs, NEW w \in Own, st'[a] # "free", pte'[a][w].pg # 0,
                      \A b \in Procs : ~ Between(b, a, w)'
               PROVE  word'[pte'[a][w].pg] = view'[a][w]
    BY DEF Contents
  <2>1. CASE a = q /\ w = v
    <3>1. e.lib \/ e.ro
      BY <2>1, <1>2, <1>5 DEF Between
    <3>2. word[pte[p][v].pg] = view[p][v]
      BY <2>1, <1>2, BetweenFacts DEF Inv, Contents
    <3> QED BY <2>1, <3>1, <3>2, <1>2, <1>3, <1>4, <1>6
  <2>2. CASE ~ (a = q /\ w = v)
    <3>1. \A b \in Procs : ~ Between(b, a, w)
      BY <1>11
    <3>2. pte'[a][w] = pte[a][w] /\ view'[a][w] = view[a][w]
      BY <2>2, <1>4, <1>6
    <3> QED BY <3>1, <3>2, <1>2 DEF Inv, Contents
  <2> QED BY <2>1, <2>2
<1>14. HandlerOK'
  <2>1. \A a \in Procs : pte'[a][Xst] = pte[a][Xst]
    BY <1>4
  <2>7. \A a \in Procs : a # p /\ pc[a] \in Mapped => pte'[loc[a].child] = pte[loc[a].child]
    BY <1>4, <1>7 DEF Mapped, Building
  <2>8. pc'[p] \notin {"user", "handler", "status"} /\ pte'[p] = pte[p]
    BY <1>2, <1>4, <1>5
  <2> SUFFICES ASSUME NEW r \in Procs PROVE HandlerAt(r)'
    BY DEF HandlerOK
  <2>9. HandlerAt(r)
    BY DEF Inv, HandlerOK
  <2>10. CASE r = p
    BY <1>2, <2>1, <2>8, <2>9, <2>10 DEF HandlerAt
  <2>11. CASE r = q
    BY <1>2, <1>5, <1>7, <2>1, <2>9, <2>11 DEF HandlerAt
  <2>12. CASE r \notin {p, q}
    <3>1. pc[r] \in {"handler", "status"} => pc[r] \in Mapped
      BY DEF Mapped
    <3>2. pte'[r] = pte[r] /\ pc'[r] = pc[r] /\ loc'[r] = loc[r]
      BY <2>12, <1>4, <1>5
    <3> QED BY <2>7, <2>9, <2>12, <3>1, <3>2, <1>2 DEF HandlerAt
  <2> QED BY <2>10, <2>11, <2>12
<1> QED BY <1>8, <1>9, <1>10, <1>12, <1>13, <1>14 DEF Rest

(***************************************************************************)
(* The second system call of duppage: the parent, too, loses the right to  *)
(* write, and what the child inherits is what the parent has there now.    *)
(***************************************************************************)
LEMMA ForkParentInv ==
  ASSUME Inv, NEW p \in Procs, ForkParent(p)
  PROVE  Rest'
<1> USE Constants
<1>1. PICK v \in Va \ {Xst}, q \in Procs, e \in Pte : ParentStep(p, v, q, e)
  BY ParentFacts DEF Inv
<1> DEFINE c == ParentPerm(e)
<1>2. /\ v = loc[p].va /\ q = loc[p].child /\ e = pte[p][v] /\ e.pg # 0 /\ ~ e.ro /\ ~ e.lib
      /\ st[p] = "run" /\ pc[p] = "parent" /\ flt[p].at = "none" /\ q # p /\ st[q] = "built"
      /\ c \in Pte /\ pte[q][v] = c /\ UNCHANGED <<st, word, hdl, uhdl, flt, nohdl>>
  BY <1>1 DEF ParentStep
<1>3. c.pg = e.pg /\ ~ c.lib /\ c.ro
  BY <1>2, Perms DEF ParentPerm
<1>4. /\ pte'[p][v] = c
      /\ \A a \in Procs, w \in Entries : ~ (a = p /\ w = v) => pte'[a][w] = pte[a][w]
      /\ \A a \in Procs : a # p => pte'[a] = pte[a]
  <2>1. pte' = [pte EXCEPT ![p][v] = c]
    BY <1>1 DEF ParentStep
  <2> HIDE DEF c
  <2> QED BY <2>1, <1>2 DEF Inv, TypeOK, Entries
<1> HIDE DEF c
<1>5. /\ \A a \in Procs : a # p => pc'[a] = pc[a] /\ loc'[a] = loc[a]
      /\ loc'[p].child = q /\ loc'[p].va = v + 1 /\ pc'[p] = "scan"
  <2>1. pc \in [Procs -> {"user", "alloc", "scan", "child", "parent", "xst", "handler", "status"}]
    BY DEF Inv, TypeOK
  <2>2. GoOn(p) /\ loc[p].va \in Va
    BY <1>1, <1>2 DEF ParentStep
  <2> QED BY <1>2, <2>1, <2>2, GoOnFacts DEF Inv
<1>6. /\ \A a \in Procs, w \in Own : ~ (a = q /\ w = v) => view'[a][w] = view[a][w]
      /\ \A a \in Procs : a # q => view'[a] = view[a]
      /\ v \in Own => view'[q][v] = view[p][v]
  <2>1. \/ view' = view /\ v \notin Own
        \/ v \in Own /\ view' = [view EXCEPT ![q][v] = view[p][v]]
    BY <1>1 DEF ParentStep
  <2> QED BY <2>1 DEF Inv, TypeOK
<1>7. pc[q] = "user" /\ flt[q].at = "none"
      /\ \A a \in Procs : pc[a] \in Building => loc[a].child \in Procs /\ loc[a].child # p
  BY <1>2, ChildOf DEF Building
<1>8. LibOK'
  <2> SUFFICES ASSUME NEW a \in Procs, NEW w \in Entries
               PROVE  /\ w \in Lib /\ pte'[a][w].pg # 0 => pte'[a][w] = [pg |-> w, ro |-> FALSE, lib |-> TRUE]
                      /\ pte'[a][w].lib => w \in Lib
    BY DEF LibOK
  <2>1. CASE a = p /\ w = v
    <3>1. v \in Lib => e = [pg |-> v, ro |-> FALSE, lib |-> TRUE]
      BY <1>2 DEF Inv, LibOK
    <3> QED BY <2>1, <3>1, <1>2, <1>3, <1>4
  <2>2. CASE ~ (a = p /\ w = v)
    BY <2>2, <1>4 DEF LibOK, Inv
  <2> QED BY <2>1, <2>2
<1>9. ForkOK'
  <2> SUFFICES ASSUME NEW r \in Procs PROVE ForkAt(r)'
    BY DEF ForkOK
  <2>1. ForkAt(r) /\ ForkAt(p)
    BY DEF Inv, ForkOK
  <2>2. \A a \in Procs : pc'[a] \in Building => pc[a] \in Building /\ loc'[a].child = loc[a].child
    BY <1>2, <1>5 DEF Building
  <2>3. pc[r] \in Building =>
          /\ loc[r].child # r /\ st'[loc[r].child] = "built"
          /\ \A a \in Procs : a # r /\ pc'[a] \in Building => loc'[a].child # loc[r].child
    BY <2>1, <2>2, <1>2 DEF ForkAt
  <2>4. CASE r = p
    <3>1. loc'[p].va >= 1
      BY <1>5 DEF Va
    <3>2. loc'[p].va <= Stack => ~ pte'[p][Stack].ro
      <4> SUFFICES ASSUME loc'[p].va <= Stack PROVE ~ pte'[p][Stack].ro
        OBVIOUS
      <4>1. v \in Int /\ Stack \in Int
        BY DEF Va
      <4>2. v <= Stack /\ v # Stack
        BY <4>1, <1>5
      <4>3. ~ pte[p][Stack].ro
        BY <4>2, <2>1, <1>2 DEF ForkAt, Mapping
      <4> QED BY <4>2, <4>3, <1>4
    <3> QED BY <2>1, <2>2, <2>3, <2>4, <3>1, <3>2, <1>2, <1>5 DEF ForkAt
  <2>5. CASE r # p
    <3>1. pte'[r] = pte[r] /\ pc'[r] = pc[r] /\ loc'[r] = loc[r] /\ st'[r] = st[r] /\ flt'[r] = flt[r]
      BY <2>5, <1>2, <1>4, <1>5
    <3>2. pc[r] \in Building => pte'[loc[r].child] = pte[loc[r].child]
      BY <1>4, <1>7
    <3>3. pc[r] = "parent" => pc[r] \in Building
      BY DEF Building
    <3> QED BY <2>1, <2>3, <3>1, <3>2, <3>3 DEF ForkAt
  <2> QED BY <2>4, <2>5
<1>10. FaultOK'
  <2> SUFFICES ASSUME NEW a \in Procs, a # q, a # p, flt[a].at # "none"
               PROVE  LET w == flt[a].va  t == pte[a][Tmp] IN
                      /\ uhdl[a] /\ w \in Own /\ pte[a][w].pg # 0
                      /\ pc[a] # "user" => w = Stack
                      /\ t.pg # 0 /\ ~ t.ro /\ ~ t.lib
                      /\ flt[a].at = "map" => word[t.pg] = view[a][w]
                      /\ flt[a].at = "unmap" => pte[a][w].pg = t.pg /\ ~ pte[a][w].ro
    BY <1>2, <1>4, <1>5, <1>6, <1>7 DEF FaultOK
  <2> QED BY DEF Inv, FaultOK
<1>11. \A a, b \in Procs : \A x : Between(a, b, x) => Between(a, b, x)' \/ (a = p /\ b = q /\ x = v)
  BY <1>2, <1>5 DEF Between
<1>12. SoleWriter'
  <2> SUFFICES ASSUME NEW a \in Procs, NEW b \in Procs, NEW x \in Entries, NEW y \in Entries,
                      pte'[a][x].pg # 0, ~ pte'[a][x].ro, ~ pte'[a][x].lib,
                      pte'[a][x].pg = pte'[b][y].pg
               PROVE  \/ a = b /\ x = y
                      \/ a = b /\ Repaired(a, x, y)'
                      \/ x = y /\ Between(a, b, x)'
    BY DEF SoleWriter
  <2>1. ~ (a = p /\ x = v) /\ pte'[a][x] = pte[a][x]
    BY <1>3, <1>4
  <2>2. pte'[b][y].pg = pte[b][y].pg
    BY <1>2, <1>3, <1>4
  <2>3. \/ a = b /\ x = y
        \/ a = b /\ Repaired(a, x, y)
        \/ x = y /\ Between(a, b, x)
    BY <2>1, <2>2 DEF SoleWriter, Inv
  <2>4. Repaired(a, x, y) => Repaired(a, x, y)'
    BY <1>2 DEF Repaired
  <2> QED BY <2>1, <2>3, <2>4, <1>11
<1>13. Contents'
  <2> SUFFICES ASSUME NEW a \in Procs, NEW w \in Own, st'[a] # "free", pte'[a][w].pg # 0,
                      \A b \in Procs : ~ Between(b, a, w)'
               PROVE  word'[pte'[a][w].pg] = view'[a][w]
    BY DEF Contents
  <2>1. CASE a = q /\ w = v
    <3>1. word[pte[p][v].pg] = view[p][v]
      BY <2>1, <1>2, BetweenFacts DEF Inv, Contents
    <3> QED BY <2>1, <3>1, <1>2, <1>3, <1>4, <1>6
  <2>2. CASE ~ (a = q /\ w = v)
    <3>1. \A b \in Procs : ~ Between(b, a, w)
      BY <2>2, <1>11
    <3>2. pte'[a][w].pg = pte[a][w].pg /\ view'[a][w] = view[a][w]
      BY <2>2, <1>2, <1>3, <1>4, <1>6
    <3> QED BY <3>1, <3>2, <1>2 DEF Inv, Contents
  <2> QED BY <2>1, <2>2
<1>14. HandlerOK'
  <2>1. \A a \in Procs : pte'[a][Xst] = pte[a][Xst]
    BY <1>4
  <2> SUFFICES ASSUME NEW r \in Procs PROVE HandlerAt(r)'
    BY DEF HandlerOK
  <2>5. HandlerAt(r)
    BY DEF Inv, HandlerOK
  <2>6. CASE r = p
    <3>1. pc'[p] \notin {"user", "handler", "status"} /\ (uhdl[p] \/ nohdl[p])
      BY <2>5, <2>6, <1>2, <1>5 DEF HandlerAt
    <3> QED BY <2>1, <2>5, <2>6, <3>1, <1>2 DEF HandlerAt
  <2>7. CASE r # p
    <3>1. pc[r] \in Mapping \union Mapped => pte'[loc[r].child] = pte[loc[r].child]
      BY <1>4, <1>7 DEF Mapping, Mapped, Building
    <3>2. pc[r] \in {"handler", "status"} => pc[r] \in Mapped
      BY DEF Mapped
    <3>3. pte'[r] = pte[r] /\ pc'[r] = pc[r] /\ loc'[r] = loc[r]
      BY <2>7, <1>4, <1>5
    <3> QED BY <2>5, <3>1, <3>2, <3>3, <1>2 DEF HandlerAt
  <2> QED BY <2>6, <2>7
<1> QED BY <1>8, <1>9, <1>10, <1>12, <1>13, <1>14 DEF Rest

(* The exception stack of the child *)
LEMMA ForkXstInv ==
  ASSUME Inv, NEW p \in Procs, ForkXst(p)
  PROVE  Rest'
<1> USE Constants
<1>1. PICK q \in Procs, g \in Free : q = loc[p].child /\ FreshPage(q, Xst, g)
  BY Records DEF Inv, ForkXst, FreshPage
<1>2. /\ st[p] = "run" /\ pc[p] = "xst" /\ flt[p].at = "none"
      /\ UNCHANGED <<st, hdl, uhdl, loc, flt, view, nohdl>>
      /\ pc'[p] = "handler" /\ \A a \in Procs : a # p => pc'[a] = pc[a]
  BY DEF ForkXst, Runs, Inv, TypeOK
<1>3. st[q] = "built" /\ flt[q].at = "none" /\ pc[q] = "user" /\ q # p
  BY <1>1, <1>2, ChildOf DEF Building
<1>4. SameStage
  BY <1>2 DEF SameStage, Between
<1>5. /\ LibOK' /\ SoleWriter' /\ Contents'
      /\ g \in Page /\ pte'[q][Xst] = Rw(g)
      /\ \A a \in Procs, w \in Entries : ~ (a = q /\ w = Xst) => pte'[a][w] = pte[a][w]
      /\ \A a \in Procs, w \in Entries : pte[a][w].pg # g
      /\ \A h \in Page : h # g => word'[h] = word[h]
  BY <1>1, <1>4, FreshPageInv
<1>6. \A a \in Procs : a # q => pte'[a] = pte[a]
  BY <1>1 DEF FreshPage, Inv, TypeOK
<1>7. \A a \in Procs, w \in Va \ {Xst} : pte'[a][w] = pte[a][w]
  BY <1>5
<1>8. \A a \in Procs : loc[a].child \in Procs
  BY Records DEF Inv
<1>9. ForkOK'
  <2> SUFFICES ASSUME NEW r \in Procs PROVE ForkAt(r)'
    BY DEF ForkOK
  <2>1. ForkAt(r)
    BY DEF Inv, ForkOK
  <2>2. \A a \in Procs : pc'[a] \in Building <=> pc[a] \in Building
    BY <1>2 DEF Building
  <2>3. \A a \in Procs : pc'[a] \in {"child", "parent"} \/ pc'[a] \in Mapping => pc'[a] = pc[a]
    BY <1>2 DEF Mapping
  <2>4. st[r] = "free" => pte'[r] = pte[r]
    BY <1>3, <1>6
  <2>5. Stack \in Va \ {Xst}
    OBVIOUS
  <2> QED BY <2>1, <2>2, <2>3, <2>4, <2>5, <1>2, <1>3, <1>7, <1>8 DEF ForkAt
<1>10. FaultOK'
  <2> SUFFICES ASSUME NEW a \in Procs, a # p, a # q, flt[a].at # "none"
               PROVE  LET w == flt[a].va  t == pte[a][Tmp] IN
                      /\ uhdl[a] /\ w \in Own /\ pte[a][w].pg # 0
                      /\ pc[a] # "user" => w = Stack
                      /\ t.pg # 0 /\ ~ t.ro /\ ~ t.lib
                      /\ flt[a].at = "map" => word'[t.pg] = view[a][w]
                      /\ flt[a].at = "unmap" => pte[a][w].pg = t.pg /\ ~ pte[a][w].ro
    BY <1>2, <1>3, <1>6 DEF FaultOK
  <2>1. pte[a][Tmp].pg # 0 => pte[a][Tmp].pg \in Page /\ pte[a][Tmp].pg # g
    BY <1>5, Records DEF Inv
  <2> QED BY <1>5, <2>1 DEF Inv, FaultOK
<1>11. HandlerOK'
  <2>1. Rw(g).pg # 0 /\ ~ Rw(g).ro
    BY <1>5 DEF Rw
  <2>4. \A a \in Procs : pte'[a][Xst] = pte[a][Xst] \/ (pte'[a][Xst].pg # 0 /\ ~ pte'[a][Xst].ro)
    BY <1>5, <1>6, <2>1
  <2>5. \A a \in Procs : a # p /\ pc[a] \in {"handler", "status"} => pte'[loc[a].child][Xst].pg # 0
    BY <1>8, <2>4 DEF Inv, HandlerOK, HandlerAt
  <2> QED BY <1>1, <1>2, <1>3, <1>5, <1>6, <1>7, <1>8, <2>1, <2>4, <2>5 DEF Inv, HandlerOK, HandlerAt
<1> QED BY <1>5, <1>9, <1>10, <1>11 DEF Rest

(* syscall_set_pgfault_handler for the child *)
LEMMA ForkHandlerInv ==
  ASSUME Inv, NEW p \in Procs, ForkHandler(p)
  PROVE  Rest'
<1> USE Constants
<1>1. /\ st[p] = "run" /\ pc[p] = "handler" /\ flt[p].at = "none"
      /\ UNCHANGED <<st, pte, word, uhdl, loc, flt, view, nohdl>>
      /\ pc'[p] = "status" /\ \A a \in Procs : a # p => pc'[a] = pc[a]
  BY DEF ForkHandler, Runs, Inv, TypeOK
<1>2. \A a \in Procs : loc[a].child \in Procs
  BY Records DEF Inv
<1>3. hdl'[loc[p].child] /\ \A a \in Procs : hdl[a] => hdl'[a]
  BY <1>2 DEF ForkHandler, ChildHandler, Inv, TypeOK
<1>4. SameStage
  BY <1>1 DEF SameStage, Between
<1>5. LibOK' /\ SoleWriter' /\ Contents'
  BY <1>1, <1>4, SameMemoryInv DEF SameMemory
<1>6. ForkOK'
  <2>1. \A a \in Procs : pc'[a] \in Building <=> pc[a] \in Building
    BY <1>1 DEF Building
  <2> SUFFICES ASSUME NEW r \in Procs PROVE ForkAt(r)'
    BY DEF ForkOK
  <2>2. ForkAt(r)
    BY DEF Inv, ForkOK
  <2>3. pc'[r] \in {"child", "parent"} \/ pc'[r] \in Mapping => pc'[r] = pc[r]
    BY <1>1 DEF Mapping
  <2> QED BY <1>1, <2>1, <2>2, <2>3 DEF ForkAt
<1>7. FaultOK'
  BY <1>1 DEF Inv, FaultOK
<1>8. HandlerOK'
  BY <1>1, <1>2, <1>3 DEF Inv, HandlerOK, HandlerAt
<1> QED BY <1>5, <1>6, <1>7, <1>8 DEF Rest

(* The child runs: it has all that it needs to handle its faults. *)
LEMMA ForkStatusInv ==
  ASSUME Inv, NEW p \in Procs, ForkStatus(p)
  PROVE  Rest'
<1> USE Constants
<1>1. PICK q \in Procs : /\ q = loc[p].child
                         /\ st' = [st EXCEPT ![q] = "run"]
                         /\ uhdl' = [uhdl EXCEPT ![q] = uhdl[p]]
                         /\ nohdl' = [nohdl EXCEPT ![q] = nohdl[p]]
  BY Records DEF ForkStatus, Inv
<1>2. /\ st[p] = "run" /\ pc[p] = "status" /\ flt[p].at = "none"
      /\ UNCHANGED <<pte, word, hdl, flt, view>>
      /\ pc'[p] = "user" /\ \A a \in Procs : a # p => pc'[a] = pc[a] /\ loc'[a] = loc[a]
  BY DEF ForkStatus, Runs, Inv, TypeOK
<1>3. /\ st'[q] = "run" /\ uhdl'[q] = uhdl[p] /\ nohdl'[q] = nohdl[p]
      /\ \A a \in Procs : a # q => st'[a] = st[a] /\ uhdl'[a] = uhdl[a] /\ nohdl'[a] = nohdl[a]
  BY <1>1 DEF Inv, TypeOK
<1>4. /\ st[q] = "built" /\ flt[q].at = "none" /\ pc[q] = "user" /\ q # p
      /\ \A a \in Procs : a # p /\ pc[a] \in Building => loc[a].child \in Procs /\ loc[a].child # q
  BY <1>1, <1>2, ChildOf DEF Building
<1>5. SameStage
  BY <1>2, <1>3, <1>4 DEF SameStage, Between
<1>6. LibOK' /\ SoleWriter' /\ Contents'
  BY <1>2, <1>5, SameMemoryInv DEF SameMemory
<1>7. ForkOK'
  <2> SUFFICES ASSUME NEW r \in Procs PROVE ForkAt(r)'
    BY DEF ForkOK
  <2>1. CASE r \in {p, q}
    BY <2>1, <1>2, <1>3, <1>4 DEF ForkAt, Building, Mapping
  <2>2. CASE r \notin {p, q}
    <3>1. ForkAt(r)
      BY DEF Inv, ForkOK
    <3>2. \A a \in Procs : pc'[a] \in Building => a # p /\ pc[a] \in Building /\ loc'[a] = loc[a]
      BY <1>2 DEF Building
    <3>3. pc[r] \in Building => st'[loc[r].child] = "built"
      BY <2>2, <3>1, <1>3, <1>4 DEF ForkAt
    <3>4. st'[r] = st[r] /\ pc'[r] = pc[r] /\ loc'[r] = loc[r] /\ flt'[r] = flt[r] /\ pte' = pte
      BY <2>2, <1>2, <1>3
    <3>5. pc[r] \in Building =>
            /\ loc[r].child # r
            /\ \A a \in Procs : a # r /\ pc'[a] \in Building => loc'[a].child # loc[r].child
      BY <3>1, <3>2 DEF ForkAt
    <3> QED BY <3>1, <3>3, <3>4, <3>5 DEF ForkAt
  <2> QED BY <2>1, <2>2
<1>8. FaultOK'
  BY <1>2, <1>3, <1>4 DEF Inv, FaultOK
<1>9. HandlerOK'
  <2>1. (uhdl[p] \/ nohdl[p]) /\ pte[q][Xst].pg # 0 /\ hdl[q]
    BY <1>1, <1>2 DEF Inv, HandlerOK, HandlerAt
  <2> SUFFICES ASSUME NEW r \in Procs PROVE HandlerAt(r)'
    BY DEF HandlerOK
  <2>2. HandlerAt(r)
    BY DEF Inv, HandlerOK
  <2>3. CASE r = q
    BY <2>1, <2>2, <2>3, <1>2, <1>3, <1>4 DEF HandlerAt
  <2>4. CASE r = p
    BY <2>1, <2>2, <2>4, <1>2, <1>3, <1>4 DEF HandlerAt
  <2>5. CASE r \notin {p, q}
    BY <2>2, <2>5, <1>2, <1>3 DEF HandlerAt
  <2> QED BY <2>3, <2>4, <2>5
<1> QED BY <1>6, <1>7, <1>8, <1>9 DEF Rest

(* A process that exits drops its pages. *)
LEMMA ExitInv ==
  ASSUME Inv, NEW p \in Procs, Exit(p)
  PROVE  Rest'
<1> USE Constants
<1>1. /\ st[p] = "run" /\ pc[p] = "user" /\ flt[p].at = "none"
      /\ UNCHANGED <<word, hdl, pc, loc, flt>>
      /\ st'[p] = "free" /\ pte'[p] = [v \in Entries |-> NoPte]
      /\ \A a \in Procs : a # p => /\ st'[a] = st[a] /\ pte'[a] = pte[a]
                                   /\ view'[a] = view[a] /\ uhdl'[a] = uhdl[a]
                                   /\ nohdl'[a] = nohdl[a]
  BY DEF Exit, Runs, Inv, TypeOK, Entries
<1>2. \A v \in Entries : pte'[p][v] = NoPte /\ pte'[p][v].pg = 0 /\ ~ pte'[p][v].ro /\ ~ pte'[p][v].lib
  BY <1>1 DEF NoPte
<1>3. \A a \in Procs : pc[a] \in Building =>
        a # p /\ loc[a].child \in Procs /\ loc[a].child # p
  BY <1>1, ChildOf DEF Building
<1>4. \A a, b \in Procs : \A x : Between(a, b, x)' <=> Between(a, b, x)
  BY <1>1 DEF Between
<1>5. LibOK'
  <2> SUFFICES ASSUME NEW a \in Procs, NEW w \in Entries
               PROVE  /\ w \in Lib /\ pte'[a][w].pg # 0 => pte'[a][w] = [pg |-> w, ro |-> FALSE, lib |-> TRUE]
                      /\ pte'[a][w].lib => w \in Lib
    BY DEF LibOK
  <2>1. CASE a = p
    BY <2>1, <1>2
  <2>2. CASE a # p
    BY <2>2, <1>1 DEF LibOK, Inv
  <2> QED BY <2>1, <2>2
<1>6. ForkOK'
  <2> SUFFICES ASSUME NEW r \in Procs PROVE ForkAt(r)'
    BY DEF ForkOK
  <2>1. CASE r = p
    BY <2>1, <1>1 DEF ForkAt, Building, Mapping
  <2>2. CASE r # p
    <3>1. ForkAt(r)
      BY DEF Inv, ForkOK
    <3>2. pc[r] \in Building => st'[loc[r].child] = st[loc[r].child] /\ pte'[loc[r].child] = pte[loc[r].child]
      BY <1>1, <1>3
    <3>3. pc[r] = "parent" => pc[r] \in Building
      BY DEF Building
    <3> QED BY <2>2, <3>1, <3>2, <3>3, <1>1 DEF ForkAt
  <2> QED BY <2>1, <2>2
<1>7. FaultOK'
  BY <1>1 DEF Inv, FaultOK
<1>8. SoleWriter'
  <2> SUFFICES ASSUME NEW a \in Procs, NEW b \in Procs, NEW x \in Entries, NEW y \in Entries,
                      pte'[a][x].pg # 0, ~ pte'[a][x].ro, ~ pte'[a][x].lib,
                      pte'[a][x].pg = pte'[b][y].pg
               PROVE  \/ a = b /\ x = y
                      \/ a = b /\ Repaired(a, x, y)'
                      \/ x = y /\ Between(a, b, x)'
    BY DEF SoleWriter
  <2>1. a # p /\ b # p
    BY <1>2
  <2>2. \/ a = b /\ x = y
        \/ a = b /\ Repaired(a, x, y)
        \/ x = y /\ Between(a, b, x)
    BY <2>1, <1>1 DEF SoleWriter, Inv
  <2>3. Repaired(a, x, y) => Repaired(a, x, y)'
    BY <1>1 DEF Repaired
  <2> QED BY <2>2, <2>3, <1>4
<1>9. Contents'
  BY <1>1, <1>4 DEF Inv, Contents
<1>10. HandlerOK'
  <2>1. \A a \in Procs : pc[a] \in Mapping \union Mapped => pte'[loc[a].child] = pte[loc[a].child]
    BY <1>1, <1>3 DEF Mapping, Mapped, Building
  <2> SUFFICES ASSUME NEW r \in Procs PROVE HandlerAt(r)'
    BY DEF HandlerOK
  <2>2. CASE r = p
    BY <2>2, <1>1, <1>2 DEF HandlerAt
  <2>3. CASE r # p
    <3>1. HandlerAt(r)
      BY DEF Inv, HandlerOK
    <3>2. pc[r] \in {"handler", "status"} => pc[r] \in Mapped
      BY DEF Mapped
    <3> QED BY <2>1, <2>3, <3>1, <3>2, <1>1 DEF HandlerAt
  <2> QED BY <2>2, <2>3
<1> QED BY <1>5, <1>6, <1>7, <1>8, <1>9, <1>10 DEF Rest

-----------------------------------------------------------------------------
(* A step that changes nothing. *)
LEMMA UnchangedInv ==
  ASSUME Inv, UNCHANGED vars
  PROVE  Rest'
<1>1. SameMemory /\ SameStage
  BY DEF vars, SameMemory, SameStage, Between
<1>2. LibOK' /\ SoleWriter' /\ Contents'
  BY <1>1, SameMemoryInv
<1>3. ForkOK'
  BY DEF vars, Inv, ForkOK, ForkAt
<1>4. FaultOK'
  BY DEF vars, Inv, FaultOK
<1>5. HandlerOK'
  BY DEF vars, Inv, HandlerOK, HandlerAt
<1> QED BY <1>2, <1>3, <1>4, <1>5 DEF Rest

(* Every step keeps the invariant. *)
LEMMA NextInv == Inv /\ [Next]_vars => Inv'
<1> SUFFICES ASSUME Inv, [Next]_vars PROVE Inv'
  OBVIOUS
<1>1. TypeOK'
  BY NextType DEF Inv
<1>2. ASSUME NEW p \in Procs, Step(p) PROVE Rest'
  <2>1. CASE ForkNoEnv(p) \/ ForkChildFails(p) \/ ForkXstFails(p)
    BY <2>1, StuckInv DEF ForkNoEnv, ForkChildFails, ForkXstFails, Runs
  <2> QED BY <1>2, <2>1, FaultCopyInv, FaultMapInv, FaultUnmapInv, ForkAllocInv, ForkScanInv,
             ForkChildInv, ForkParentInv, ForkXstInv, ForkHandlerInv, ForkStatusInv DEF Step
<1>3. ASSUME NEW p \in Procs, Use(p) PROVE Rest'
  <2>1. ASSUME NEW v \in Va, FaultStuck(p, v) PROVE Rest'
    BY <2>1, StuckInv DEF FaultStuck, Faults, Runs
  <2> QED BY <1>3, <2>1, WriteInv, FaultInv, ForkStartInv, ExitInv DEF Use
<1>4. ASSUME UNCHANGED vars PROVE Rest'
  BY <1>4, UnchangedInv
<1>5. Rest'
  BY <1>2, <1>3, <1>4 DEF Next, Finished
<1> QED BY <1>1, <1>5 DEF Inv, Rest

(* The inductive invariant holds of every behaviour of fork, pgfault and the users of them. *)
THEOREM Invariant == Spec => []Inv
<1>1. Init => Inv
  BY InitInv
<1>2. Inv /\ [Next]_vars => Inv'
  BY NextInv
<1> QED BY <1>1, <1>2, PTL DEF Spec

(* The page tables, the local variables of fork and of pgfault keep their types. *)
THEOREM TypeCorrect == Spec => []TypeOK
<1>1. Inv => TypeOK
  BY DEF Inv
<1> QED BY <1>1, Invariant, PTL

(***************************************************************************)
(* Copy on write isolates: however fork, the faults and the exits of any   *)
(* number of processes interleave, a process that runs reads from its own  *)
(* pages what it last wrote there or inherited from its parent.            *)
(***************************************************************************)
THEOREM ForkIsolates == Spec => []Isolated
<1>1. Inv => Isolated
  BY BetweenFacts DEF Inv, Contents, Isolated
<1> QED BY <1>1, Invariant, PTL

(***************************************************************************)
(* A page of its own that a process can write is mapped nowhere else, but  *)
(* for the page the fault handler moves and the one duppage is at.         *)
(***************************************************************************)
THEOREM WriterIsAlone == Spec => []OneWriter
<1>1. Inv => OneWriter
  <2> SUFFICES ASSUME Inv, NEW p \in Procs, NEW q \in Procs, NEW v \in Own, NEW w \in Entries,
                      pte[p][v].pg # 0, ~ pte[p][v].ro, pte[p][v].pg = pte[q][w].pg
               PROVE  \/ p = q /\ (v = w \/ (w = Tmp /\ flt[p].at = "unmap"))
                      \/ v = w /\ pc[p] = "parent" /\ loc[p].va = v /\ loc[p].child = q /\ st[q] = "built"
    BY DEF OneWriter, Entries
  <2>1. v \in Entries /\ v # Tmp /\ v \notin Lib
    BY Constants DEF Own
  <2>2. ~ pte[p][v].lib
    BY <2>1 DEF Inv, LibOK
  <2>3. \/ p = q /\ v = w
        \/ p = q /\ Repaired(p, v, w)
        \/ v = w /\ Between(p, q, v)
    BY <2>1, <2>2 DEF Inv, SoleWriter
  <2> QED BY <2>1, <2>3, BetweenFacts DEF Repaired, Between
<1> QED BY <1>1, Invariant, PTL

(***************************************************************************)
(* The kernel can deliver the fault of whoever runs with a page that is    *)
(* read-only, the child that fork has just started included, unless the    *)
(* process has its variables from a fork whose set_pgfault_handler failed. *)
(***************************************************************************)
THEOREM FaultsAreHandled == Spec => []FaultsHandled
<1>1. Inv => FaultsHandled
  BY DEF Inv, HandlerOK, HandlerAt, FaultsHandled, CanHandle
<1> QED BY <1>1, Invariant, PTL

(* fork never takes a library page from anyone, nor makes it read-only. *)
THEOREM LibraryStaysShared == Spec => []LibraryShared
<1>1. Inv => LibraryShared
  BY Constants DEF Inv, LibOK, LibraryShared
<1> QED BY <1>1, Invariant, PTL
=============================================================================
