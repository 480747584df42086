----------------------------- MODULE PmapProofs -----------------------------
(***************************************************************************)
(* Proofs about Pmap, for any set of pages, address spaces and tables:     *)
(* reference counts are exact, a mapped page is never in the allocator's   *)
(* pool, the page of a table is nothing else, no table dangles, and pages  *)
(* are given back once and lost only where memory runs out.                *)
(***************************************************************************)
EXTENDS Pmap, FiniteSetTheorems, TLAPS

(* What an operation that is under way has established. *)
OpOK ==
  /\ op.stage \notin {"idle", "panic"} => op.env \in Env
  /\ op.stage \notin {"idle", "panic", "setup", "free"} => op.va \in VA
  /\ Inserting => op.page \in Page
  /\ op.stage \in {"walk2", "walk3", "install"} => ent[op.env][op.va] = NULL

(* The page an operation is about to map, and the boot pages, are no tables. *)
NoTable(p) == \A e \in Env, t \in Table \union {DIR} : ent[e][t] # p

PagesOK ==
  /\ Inserting => NoTable(op.page)
  /\ \A v \in LowVA : low[v] \in used /\ NoTable(low[v])

Inv == TypeOK /\ OpOK /\ RefExact /\ MappedIsUsed /\ TablePrivate /\ PagesOK

-----------------------------------------------------------------------------
(* Counting *)

(* The entries of the tables t that denote page p. *)
RefsIn(t, p) == {x \in Env \X Node : t[x[1]][x[2]] = p}

(* A page is denoted by finitely many entries. *)
LEMMA RefsFinite ==
  ASSUME NEW t, NEW p
  PROVE  IsFiniteSet(RefsIn(t, p)) /\ Cardinality(RefsIn(t, p)) \in Nat
<1>1. IsFiniteSet(Env \X Node)
  BY PmapAssumption, FS_Product
<1>2. RefsIn(t, p) \in SUBSET (Env \X Node)
  BY DEF RefsIn
<1>3. IsFiniteSet(RefsIn(t, p))
  BY <1>1, <1>2, FS_Subset
<1> QED BY <1>3, FS_CardinalityType

(* Writing one entry moves one reference. *)
LEMMA CountEntry ==
  ASSUME NEW t, NEW e \in Env, NEW n \in Node, NEW p,
         p # t[e][n], NEW u, NEW r \in Page,
         \A f \in Env, m \in Node : u[f][m] = IF f = e /\ m = n THEN p ELSE t[f][m]
  PROVE  /\ r = p => Cardinality(RefsIn(u, r)) = Cardinality(RefsIn(t, r)) + 1
         /\ r = t[e][n] => Cardinality(RefsIn(u, r)) = Cardinality(RefsIn(t, r)) - 1
         /\ r # p /\ r # t[e][n] => Cardinality(RefsIn(u, r)) = Cardinality(RefsIn(t, r))
<1> DEFINE x == <<e, n>>
<1>1. IsFiniteSet(RefsIn(t, r))
  BY RefsFinite
<1>3. ASSUME r = p
      PROVE  RefsIn(u, r) = RefsIn(t, r) \union {x} /\ x \notin RefsIn(t, r)
  BY <1>3 DEF RefsIn
<1>4. ASSUME r = t[e][n]
      PROVE  RefsIn(u, r) = RefsIn(t, r) \ {x} /\ x \in RefsIn(t, r)
  BY <1>4 DEF RefsIn
<1>5. ASSUME r # p, r # t[e][n]
      PROVE  RefsIn(u, r) = RefsIn(t, r)
  BY <1>5 DEF RefsIn
<1>6. ASSUME r = p PROVE Cardinality(RefsIn(u, r)) = Cardinality(RefsIn(t, r)) + 1
  BY <1>1, <1>3, <1>6, FS_AddElement
<1>7. ASSUME r = t[e][n] PROVE Cardinality(RefsIn(u, r)) = Cardinality(RefsIn(t, r)) - 1
  BY <1>1, <1>4, <1>7, FS_RemoveElement
<1> QED BY <1>5, <1>6, <1>7

(* Some entry denotes p: its reference count is positive. *)
LEMMA MappedCounted ==
  ASSUME TypeOK, RefExact, NEW e \in Env, NEW n \in Node, ent[e][n] # NULL
  PROVE  /\ ent[e][n] \in Page
         /\ Cardinality(RefsIn(ent, ent[e][n])) >= 1
         /\ ref[ent[e][n]] >= 1
<1> DEFINE p == ent[e][n]
<1>1. p \in Page
  BY DEF TypeOK
<1>2. <<e, n>> \in RefsIn(ent, p)
  BY DEF RefsIn
<1>3. Cardinality(RefsIn(ent, p)) # 0
  BY <1>1, <1>2, RefsFinite, FS_EmptySet
<1>4. Cardinality(RefsIn(ent, p)) \in Nat /\ bootRef[p] \in Nat /\ lost[p] \in Nat
  BY <1>1, RefsFinite, PmapAssumption DEF TypeOK
<1>5. ref[p] = Cardinality(RefsIn(ent, p)) + bootRef[p] + lost[p]
  BY <1>1 DEF RefExact, Refs, RefsIn
<1> HIDE DEF p
<1>6. Cardinality(RefsIn(ent, p)) >= 1 /\ ref[p] >= 1
  BY <1>3, <1>4, <1>5
<1> QED BY <1>1, <1>6 DEF p

(* What becomes of lost when the entry n of e is overwritten. *)
LostAfter(e, n) ==
  IF ent[e][n] = NULL THEN lost ELSE [lost EXCEPT ![ent[e][n]] = @ + 1]

(***************************************************************************)
(* A page is entered at a node that does not hold it: counts stay exact.   *)
(***************************************************************************)
LEMMA EnterFacts ==
  ASSUME Inv, NEW e \in Env, NEW n \in Node, NEW p \in Page,
         ent[e][n] # p, Enter(e, n, p), lost' = LostAfter(e, n)
  PROVE  /\ ent' \in [Env -> [Node -> Page \union {NULL}]]
         /\ ref' \in [Page -> Nat]
         /\ lost' \in [Page -> Nat]
         /\ RefExact'
         /\ \A f \in Env, m \in Node : ent'[f][m] = IF f = e /\ m = n THEN p ELSE ent[f][m]
<1>0. NULL \notin Page /\ bootRef \in [Page -> Nat]
  BY PmapAssumption
<1> DEFINE q == ent[e][n]
<1>1. /\ ent \in [Env -> [Node -> Page \union {NULL}]] /\ ref \in [Page -> Nat]
      /\ lost \in [Page -> Nat]
  BY DEF Inv, TypeOK
<1>2. ent' = [ent EXCEPT ![e][n] = p] /\ ref' = [ref EXCEPT ![p] = @ + 1]
  BY DEF Enter
<1>3. \A f \in Env, m \in Node : ent'[f][m] = IF f = e /\ m = n THEN p ELSE ent[f][m]
  BY <1>1, <1>2
<1>4. ent' \in [Env -> [Node -> Page \union {NULL}]]
  BY <1>1, <1>2
<1>5. ref' \in [Page -> Nat]
  BY <1>1, <1>2
<1>6. q \in Page \union {NULL}
  BY <1>1
<1>7. lost' = IF q = NULL THEN lost ELSE [lost EXCEPT ![q] = @ + 1]
  BY DEF LostAfter
<1>8. p # q /\ \A r \in Page :
        /\ r = p => Cardinality(RefsIn(ent', r)) = Cardinality(RefsIn(ent, r)) + 1
        /\ r = q => Cardinality(RefsIn(ent', r)) = Cardinality(RefsIn(ent, r)) - 1
        /\ r # p /\ r # q => Cardinality(RefsIn(ent', r)) = Cardinality(RefsIn(ent, r))
  BY <1>3, CountEntry
<1> HIDE DEF q
<1>9. lost' \in [Page -> Nat]
  BY <1>1, <1>6, <1>7
<1>10. ASSUME NEW r \in Page
       PROVE  ref'[r] = Cardinality(RefsIn(ent', r)) + bootRef[r] + lost'[r]
  <2>1. ref[r] = Cardinality(RefsIn(ent, r)) + bootRef[r] + lost[r]
    BY DEF Inv, RefExact, Refs, RefsIn
  <2>2. Cardinality(RefsIn(ent, r)) \in Nat /\ bootRef[r] \in Nat /\ lost[r] \in Nat
    BY <1>0, RefsFinite DEF Inv, TypeOK
  <2>3. CASE r = p
    <3>1. Cardinality(RefsIn(ent', r)) = Cardinality(RefsIn(ent, r)) + 1
      BY <1>8, <2>3
    <3>2. ref'[r] = ref[r] + 1 /\ lost'[r] = lost[r]
      BY <1>1, <1>2, <1>7, <1>8, <2>3
    <3> QED BY <2>1, <2>2, <3>1, <3>2
  <2>4. CASE r # p /\ r = q
    <3>1. Cardinality(RefsIn(ent', r)) = Cardinality(RefsIn(ent, r)) - 1
      BY <1>8, <2>4
    <3>2. ref'[r] = ref[r] /\ lost'[r] = lost[r] + 1
      BY <1>0, <1>1, <1>2, <1>7, <2>4
    <3> QED BY <2>1, <2>2, <3>1, <3>2
  <2>5. CASE r # p /\ r # q
    <3>1. Cardinality(RefsIn(ent', r)) = Cardinality(RefsIn(ent, r))
      BY <1>8, <2>5
    <3>2. ref'[r] = ref[r] /\ lost'[r] = lost[r]
      BY <1>1, <1>2, <1>7, <2>5
    <3> QED BY <2>1, <2>2, <3>1, <3>2
  <2> QED BY <2>3, <2>4, <2>5
<1>11. RefExact'
  BY <1>10 DEF RefExact, Refs, RefsIn
<1> QED BY <1>3, <1>4, <1>5, <1>9, <1>11

(***************************************************************************)
(* page_decref of a valid entry: counts stay exact, and a page leaves vis  *)
(* only with its last entry.                                               *)
(***************************************************************************)
LEMMA DecrefFacts ==
  ASSUME Inv, NEW e \in Env, NEW n \in Node, ent[e][n] # NULL,
         page_decref(e, n), UNCHANGED lost
  PROVE  /\ ent' \in [Env -> [Node -> Page \union {NULL}]]
         /\ ref' \in [Page -> Nat]
         /\ RefExact'
         /\ \A f \in Env, m \in Node : ent'[f][m] = IF f = e /\ m = n THEN NULL ELSE ent[f][m]
         /\ used' \subseteq Page
         /\ \A r \in used : r \notin used' => /\ r = ent[e][n]
                                              /\ bootRef[r] = 0
                                              /\ \A f \in Env, m \in Node : ent'[f][m] # r
<1>0. NULL \notin Page /\ bootRef \in [Page -> Nat]
  BY PmapAssumption
<1> DEFINE p == ent[e][n]
<1>1. ent \in [Env -> [Node -> Page \union {NULL}]] /\ ref \in [Page -> Nat] /\ used \subseteq Page
  BY DEF Inv, TypeOK
<1>2. /\ ref' = [ref EXCEPT ![p] = @ - 1]
      /\ used' = IF ref[p] <= 1 THEN used \ {p} ELSE used
      /\ ent' = [ent EXCEPT ![e][n] = NULL]
  BY DEF page_decref, DropEntry
<1>3. p \in Page /\ ref[p] >= 1 /\ Cardinality(RefsIn(ent, p)) >= 1
  BY MappedCounted DEF Inv
<1>4. \A f \in Env, m \in Node : ent'[f][m] = IF f = e /\ m = n THEN NULL ELSE ent[f][m]
  BY <1>1, <1>2
<1>5. ent' \in [Env -> [Node -> Page \union {NULL}]]
  BY <1>1, <1>2
<1>c. \A r \in Page :
        /\ r = NULL => Cardinality(RefsIn(ent', r)) = Cardinality(RefsIn(ent, r)) + 1
        /\ r = ent[e][n] => Cardinality(RefsIn(ent', r)) = Cardinality(RefsIn(ent, r)) - 1
        /\ r # NULL /\ r # ent[e][n] =>
             Cardinality(RefsIn(ent', r)) = Cardinality(RefsIn(ent, r))
  <2>1. NULL # ent[e][n]
    OBVIOUS
  <2> QED BY <1>4, <2>1, CountEntry
<1> HIDE DEF p
<1>6. ref' \in [Page -> Nat]
  BY <1>1, <1>2, <1>3
<1>m. p = ent[e][n] /\ NULL # ent[e][n] /\ NULL \notin Page
  BY <1>0, <1>3 DEF p
<1>7. ASSUME NEW r \in Page
      PROVE  ref'[r] = Cardinality(RefsIn(ent', r)) + bootRef[r] + lost'[r]
  <2>0. /\ r = ent[e][n] => Cardinality(RefsIn(ent', r)) = Cardinality(RefsIn(ent, r)) - 1
        /\ r # NULL /\ r # ent[e][n] => Cardinality(RefsIn(ent', r)) = Cardinality(RefsIn(ent, r))
    BY <1>c
  <2>1. ref[r] = Cardinality(RefsIn(ent, r)) + bootRef[r] + lost[r]
    BY DEF Inv, RefExact, Refs, RefsIn
  <2>2. Cardinality(RefsIn(ent, r)) \in Nat /\ bootRef[r] \in Nat /\ lost[r] \in Nat
    BY <1>0, RefsFinite DEF Inv, TypeOK
  <2>3. CASE r = p
    <3>1. Cardinality(RefsIn(ent', r)) = Cardinality(RefsIn(ent, r)) - 1
      BY <2>0, <2>3, <1>m
    <3>2. ref'[r] = ref[r] - 1
      BY <1>1, <1>2, <2>3
    <3> QED BY <2>1, <2>2, <3>1, <3>2
  <2>4. CASE r # p
    <3>1. Cardinality(RefsIn(ent', r)) = Cardinality(RefsIn(ent, r))
      BY <2>0, <2>4, <1>m
    <3>2. ref'[r] = ref[r]
      BY <1>1, <1>2, <2>4
    <3> QED BY <2>1, <2>2, <3>1, <3>2
  <2> QED BY <2>3, <2>4
<1>8. RefExact'
  BY <1>7 DEF RefExact, Refs, RefsIn
<1>9. ASSUME NEW r \in used, r \notin used'
      PROVE  r = p /\ bootRef[r] = 0 /\ \A f \in Env, m \in Node : ent'[f][m] # r
  <2>1. r = p /\ ref[p] = 1 /\ ref'[r] = 0
    BY <1>1, <1>2, <1>3, <1>9
  <2>2. Cardinality(RefsIn(ent', r)) \in Nat /\ IsFiniteSet(RefsIn(ent', r))
    BY RefsFinite
  <2>3. bootRef[r] \in Nat /\ lost'[r] \in Nat
    BY <1>0, <1>3, <2>1 DEF Inv, TypeOK
  <2>4. Cardinality(RefsIn(ent', r)) = 0 /\ bootRef[r] = 0
    BY <1>3, <1>7, <2>1, <2>2, <2>3
  <2>5. RefsIn(ent', r) = {}
    BY <2>2, <2>4, FS_EmptySet
  <2>6. ASSUME NEW f \in Env, NEW m \in Node
        PROVE  ent'[f][m] # r
    <3>1. <<f, m>> \notin RefsIn(ent', r)
      BY <2>5
    <3> QED BY <3>1 DEF RefsIn
  <2> QED BY <2>1, <2>4, <2>6
<1>10. used' \subseteq Page
  BY <1>1, <1>2
<1> QED BY <1>4, <1>5, <1>6, <1>8, <1>9, <1>10 DEF p

-----------------------------------------------------------------------------
(* The invariant, action by action.  OpNext is what an action shows of op'. *)

OpNext == op' \in Op /\ OpOK' /\ todo' \subseteq LowVA /\ user' \in [Env -> SUBSET VA]

(* A free page is no table and in no entry. *)
LEMMA FreshPage ==
  ASSUME Inv, NEW p \in Page \ used
  PROVE  /\ NoTable(p)
         /\ \A f \in Env, m \in Node : ent[f][m] # p
         /\ \A v \in LowVA : low[v] # p
         /\ Inserting => op.page # p
BY PmapAssumption DEF Inv, MappedIsUsed, NoTable, Node, PagesOK, TypeOK

(* The tables are not touched. *)
LEMMA KeptInv ==
  ASSUME Inv, OpNext, UNCHANGED <<ref, ent, lost>>,
         used \subseteq used', used' \subseteq Page,
         Inserting' => op'.page \in used' /\ NoTable(op'.page)
  PROVE  Inv'
<1>1. TypeOK'
  BY DEF Inv, TypeOK, OpNext
<1>2. RefExact'
  BY DEF Inv, RefExact, Refs
<1>3. MappedIsUsed'
  BY DEF Inv, MappedIsUsed
<1>4. TablePrivate'
  BY DEF Inv, TablePrivate
<1>5. PagesOK'
  BY DEF Inv, PagesOK, NoTable
<1> QED BY <1>1, <1>2, <1>3, <1>4, <1>5 DEF Inv, OpNext

(* A free page is taken and entered somewhere. *)
LEMMA AllocInv ==
  ASSUME Inv, OpNext, NEW e \in Env, NEW n \in Node, NEW p,
         page_alloc(p), Enter(e, n, p), lost' = LostAfter(e, n),
         Inserting' => Inserting /\ op'.page = op.page
  PROVE  Inv'
<1>1. p \in Page /\ p \notin used /\ used' = used \union {p}
  BY DEF page_alloc
<1>2. /\ NoTable(p)
      /\ \A f \in Env, m \in Node : ent[f][m] # p
      /\ \A v \in LowVA : low[v] # p
      /\ Inserting => op.page # p
  BY <1>1, FreshPage
<1>3. /\ ent' \in [Env -> [Node -> Page \union {NULL}]]
      /\ ref' \in [Page -> Nat]
      /\ lost' \in [Page -> Nat]
      /\ RefExact'
      /\ \A f \in Env, m \in Node : ent'[f][m] = IF f = e /\ m = n THEN p ELSE ent[f][m]
  BY <1>1, <1>2, EnterFacts
<1>4. TypeOK'
  BY <1>1, <1>3 DEF Inv, TypeOK, OpNext
<1>5. MappedIsUsed'
  BY <1>1, <1>3 DEF Inv, MappedIsUsed
<1>6. TablePrivate'
  BY <1>2, <1>3 DEF Inv, TablePrivate, Node
<1>7. PagesOK'
  BY <1>1, <1>2, <1>3 DEF Inv, PagesOK, NoTable, Node
<1> QED BY <1>3, <1>4, <1>5, <1>6, <1>7 DEF Inv, OpNext

(* A valid entry is dropped. *)
LEMMA DecrefInv ==
  ASSUME Inv, OpNext, NEW e \in Env, NEW n \in Node, ent[e][n] # NULL,
         page_decref(e, n), UNCHANGED lost,
         Inserting' => Inserting /\ op'.page = op.page /\ op.page # ent[e][n]
  PROVE  Inv'
<1>1. /\ ent' \in [Env -> [Node -> Page \union {NULL}]]
      /\ ref' \in [Page -> Nat]
      /\ RefExact'
      /\ \A f \in Env, m \in Node : ent'[f][m] = IF f = e /\ m = n THEN NULL ELSE ent[f][m]
      /\ used' \subseteq Page
      /\ \A r \in used : r \notin used' => /\ r = ent[e][n]
                                           /\ bootRef[r] = 0
                                           /\ \A f \in Env, m \in Node : ent'[f][m] # r
  BY DecrefFacts
<1>2. TypeOK'
  BY <1>1 DEF Inv, TypeOK, OpNext
<1>3. MappedIsUsed'
  BY <1>1 DEF Inv, MappedIsUsed
<1>4. TablePrivate'
  BY <1>1 DEF Inv, TablePrivate, Node
<1>5. PagesOK'
  <2> DEFINE Out(q) == \A f \in Env, t \in Table \union {DIR} : ent'[f][t] # q
  <2>1. ASSUME NEW q \in Page, NoTable(q)
        PROVE  Out(q)
    BY <1>1, <2>1, PmapAssumption DEF NoTable, Node
  <2>2. \A v \in LowVA : low[v] \in Page /\ bootRef[low[v]] # 0
    <3>1. \A v \in LowVA : low[v] \in bootUsed
      BY PmapAssumption
    <3>2. \A p \in bootUsed : p \in Page /\ bootRef[p] # 0
      BY PmapAssumption
    <3> QED BY <3>1, <3>2
  <2>3. \A v \in LowVA : low[v] \in used' /\ Out(low[v])
    BY <1>1, <2>1, <2>2 DEF Inv, PagesOK
  <2>4. Inserting' => Out(op'.page)
    <3>1. Inserting' => op'.page \in Page /\ NoTable(op'.page)
      BY DEF Inv, PagesOK, OpOK
    <3> QED BY <2>1, <3>1
  <2> QED BY <2>3, <2>4 DEF PagesOK, NoTable
<1> QED BY <1>1, <1>2, <1>3, <1>4, <1>5 DEF Inv, OpNext

-----------------------------------------------------------------------------
(* The counts of the boot code are exact. *)
LEMMA InitInv == Init => Inv
<1> SUFFICES ASSUME Init PROVE Inv
  OBVIOUS
<1> USE PmapAssumption
<1>1. TypeOK
  BY DEF Init, TypeOK, Op, Idle, Stage
<1>2. \A e \in Env, n \in Node : ent[e][n] = NULL
  BY DEF Init
<1>3. op = Idle /\ ~ Inserting
  BY DEF Init, Inserting, Idle
<1>4. OpOK
  BY <1>3 DEF OpOK, Idle, Inserting
<1>5. RefExact
  <2>1. ASSUME NEW p \in Page PROVE Refs(p) = {}
    BY <1>2, <2>1 DEF Refs
  <2>2. Cardinality({}) = 0
    BY FS_EmptySet
  <2>3. \A p \in Page : Cardinality(Refs(p)) = 0
    BY <2>1, <2>2
  <2>4. \A p \in Page : ref[p] = bootRef[p] /\ lost[p] = 0 /\ bootRef[p] \in Nat
    BY DEF Init
  <2> QED BY <2>3, <2>4 DEF RefExact
<1>6. MappedIsUsed
  BY <1>2, <1>3 DEF MappedIsUsed
<1>7. TablePrivate
  BY <1>2 DEF TablePrivate, Node
<1>8. PagesOK
  <2>1. \A v \in LowVA : low[v] \in bootUsed /\ low[v] \in Page
    OBVIOUS
  <2>2. \A p \in Page : NoTable(p)
    BY <1>2 DEF NoTable, Node
  <2> QED BY <1>3, <2>1, <2>2 DEF PagesOK, Init
<1> QED BY <1>1, <1>4, <1>5, <1>6, <1>7, <1>8 DEF Inv

(* The end of an operation. *)
LEMMA DoneFacts ==
  ASSUME Inv, Done, op.stage # "idle", op.stage # "panic"
  PROVE  op' \in Op /\ op'.stage \in {"idle", "setup"} /\ ~ Inserting' /\ OpOK'
<1>1. op \in Op /\ op.env \in Env
  BY DEF Inv, TypeOK, OpOK
<1>2. CASE todo = {}
  BY <1>1, <1>2 DEF Done, Idle, Op, Stage, Inserting, OpOK
<1>3. CASE todo # {}
  BY <1>1, <1>3 DEF Done, Op, Stage, Inserting, OpOK
<1> QED BY <1>2, <1>3

(* page_insert before its second pgdir_walk: rewrite, remove or nothing. *)
LEMMA InsertStartInv ==
  ASSUME Inv, InsertStart
  PROVE  Inv'
<1> DEFINE e == op.env
           q == ent[e][op.va]
<1>1. /\ op.stage = "insert" /\ Inserting /\ e \in Env /\ op.va \in VA /\ op.va \in Node
      /\ op.page \in Page /\ op \in Op
      /\ user \in [Env -> SUBSET VA]
      /\ todo' \subseteq LowVA /\ UNCHANGED lost
  BY DEF Inv, TypeOK, OpOK, InsertStart, Inserting, Node
<1>2. user' \in [Env -> SUBSET VA]
  BY <1>1 DEF InsertStart
<1>3. CASE /\ q = op.page /\ Done
           /\ UNCHANGED <<ref, used, ent>>
  <2>1. op' \in Op /\ ~ Inserting' /\ OpOK'
    BY <1>1, <1>3, DoneFacts
  <2> QED BY <1>1, <1>2, <1>3, <2>1, KeptInv DEF OpNext, Inv, TypeOK
<1>4. ASSUME op' = [op EXCEPT !.stage = "walk2"]
      PROVE  op' \in Op /\ op'.stage = "walk2" /\ op'.page = op.page /\ op'.env = e /\ op'.va = op.va
  BY <1>1, <1>4 DEF Op, Stage
<1>5. CASE /\ q # op.page /\ q # NULL
           /\ page_decref(e, op.va)
           /\ op' = [op EXCEPT !.stage = "walk2"]
  <2>1. ent'[e][op.va] = NULL
    BY <1>1, <1>5 DEF page_decref, DropEntry, Inv, TypeOK
  <2>2. OpOK'
    BY <1>1, <1>4, <1>5, <2>1 DEF OpOK, Inserting
  <2> HIDE DEF e
  <2> QED BY <1>1, <1>2, <1>4, <1>5, <2>2, DecrefInv DEF OpNext
<1>6. CASE /\ q = NULL
           /\ op' = [op EXCEPT !.stage = "walk2"]
           /\ UNCHANGED <<ref, used, ent>>
  <2>1. OpOK'
    BY <1>1, <1>4, <1>6 DEF OpOK, Inserting
  <2>2. op'.page \in used' /\ NoTable(op'.page)
    BY <1>1, <1>4, <1>6 DEF Inv, MappedIsUsed, PagesOK
  <2> QED BY <1>1, <1>2, <1>4, <1>6, <2>1, <2>2, KeptInv DEF OpNext, Inv, TypeOK
<1> QED BY <1>3, <1>5, <1>6 DEF InsertStart

(* One level of pgdir_walk or page_out. *)
LEMMA WalkInv ==
  ASSUME Inv, NEW t \in Table, op.env \in Env, OpNext, UNCHANGED lost,
         Inserting' => Inserting /\ op'.page = op.page,
         \/ UNCHANGED <<ref, used, ent>>
         \/ /\ ent[op.env][t] = NULL
            /\ \E p \in Page : page_alloc(p) /\ Enter(op.env, t, p)
  PROVE  Inv'
<1>1. CASE UNCHANGED <<ref, used, ent>>
  <2>1. Inserting' => op'.page \in used' /\ NoTable(op'.page)
    BY <1>1 DEF Inv, MappedIsUsed, PagesOK
  <2>2. used \subseteq used' /\ used' \subseteq Page
    BY <1>1 DEF Inv, TypeOK
  <2> QED BY <1>1, <2>1, <2>2, KeptInv
<1>2. CASE /\ ent[op.env][t] = NULL
           /\ \E p \in Page : page_alloc(p) /\ Enter(op.env, t, p)
  <2>1. PICK p \in Page : page_alloc(p) /\ Enter(op.env, t, p)
    BY <1>2
  <2>2. lost' = LostAfter(op.env, t) /\ t \in Node
    BY <1>2 DEF LostAfter, Node
  <2> QED BY <2>1, <2>2, AllocInv
<1> QED BY <1>1, <1>2

(* What the three outcomes of Walk have in common. *)
LEMMA WalkFacts ==
  ASSUME Inv, NEW t \in Table, op.env \in Env, op.va \in VA,
         \/ UNCHANGED <<ref, used, ent>>
         \/ /\ ent[op.env][t] = NULL
            /\ \E p \in Page : page_alloc(p) /\ Enter(op.env, t, p)
  PROVE  ent'[op.env][op.va] = ent[op.env][op.va]
<1>1. t # op.va /\ t \in Node /\ op.va \in Node
  BY PmapAssumption DEF Node
<1>2. ent \in [Env -> [Node -> Page \union {NULL}]]
  BY DEF Inv, TypeOK
<1>3. ASSUME NEW p \in Page, Enter(op.env, t, p)
      PROVE  ent'[op.env][op.va] = ent[op.env][op.va]
  BY <1>1, <1>2, <1>3 DEF Enter
<1> QED BY <1>3

(* A level of pgdir_walk inside page_insert. *)
LEMMA InsertWalkInv ==
  ASSUME Inv, InsertWalk2 \/ InsertWalk3
  PROVE  Inv'
<1>1. /\ op.stage \in {"walk2", "walk3"} /\ Inserting
      /\ op \in Op /\ op.env \in Env /\ op.va \in VA /\ op.page \in Page
      /\ ent[op.env][op.va] = NULL
      /\ UNCHANGED <<user, todo, lost>>
  BY DEF Inv, TypeOK, OpOK, InsertWalk2, InsertWalk3, Walk, Inserting
<1>2. PICK t \in Table, to \in {"walk3", "install"} :
        \/ /\ op' = [op EXCEPT !.stage = to]
           /\ UNCHANGED <<ref, used, ent>>
        \/ /\ ent[op.env][t] = NULL
           /\ \E p \in Page : page_alloc(p) /\ Enter(op.env, t, p)
           /\ op' = [op EXCEPT !.stage = to]
        \/ /\ Done
           /\ UNCHANGED <<ref, used, ent>>
  <2>1. tab2[op.va] \in Table /\ tab3[op.va] \in Table
    BY <1>1, PmapAssumption
  <2> QED BY <2>1 DEF InsertWalk2, InsertWalk3, Walk, AllocFails
<1>3. ent'[op.env][op.va] = NULL
  BY <1>1, <1>2, WalkFacts
<1>4. op' \in Op /\ OpOK' /\ (Inserting' => op'.page = op.page)
  <2>1. CASE op' = [op EXCEPT !.stage = to]
    <3>1. op' \in Op /\ op'.stage = to /\ op'.page = op.page /\ op'.env = op.env /\ op'.va = op.va
      BY <1>1, <2>1 DEF Op, Stage
    <3> QED BY <1>1, <1>3, <3>1 DEF OpOK, Inserting
  <2>2. CASE Done
    BY <1>1, <2>2, DoneFacts
  <2> QED BY <1>2, <2>1, <2>2
<1>5. OpNext
  BY <1>1, <1>4 DEF OpNext, Inv, TypeOK
<1> QED BY <1>1, <1>2, <1>4, <1>5, WalkInv

(* A level of page_out above the last. *)
LEMMA OutWalkInv ==
  ASSUME Inv, OutWalk2 \/ OutWalk3
  PROVE  Inv'
<1>1. /\ op.stage \in {"out2", "out3"}
      /\ op \in Op /\ op.env \in Env /\ op.va \in VA
      /\ UNCHANGED <<user, todo, lost>>
  BY DEF Inv, TypeOK, OpOK, OutWalk2, OutWalk3, Walk
<1>2. PICK t \in Table, to \in {"out3", "out", "panic"} :
        /\ op' = [op EXCEPT !.stage = to]
        /\ \/ UNCHANGED <<ref, used, ent>>
           \/ /\ ent[op.env][t] = NULL
              /\ \E p \in Page : page_alloc(p) /\ Enter(op.env, t, p)
  <2>1. tab2[op.va] \in Table /\ tab3[op.va] \in Table
    BY <1>1, PmapAssumption
  <2> QED BY <2>1 DEF OutWalk2, OutWalk3, Walk, AllocFails, Panic
<1>3. op' \in Op /\ op'.stage = to /\ op'.env = op.env /\ op'.va = op.va
  BY <1>1, <1>2 DEF Op, Stage
<1>4. OpOK' /\ ~ Inserting'
  BY <1>1, <1>3 DEF OpOK, Inserting
<1>5. OpNext
  BY <1>1, <1>3, <1>4 DEF OpNext, Inv, TypeOK
<1> QED BY <1>1, <1>2, <1>4, <1>5, WalkInv

(* The end of page_insert. *)
LEMMA InstallInv ==
  ASSUME Inv, Install
  PROVE  Inv'
<1> DEFINE e == op.env
           v == op.va
           p == op.page
<1>1. /\ op.stage = "install" /\ Inserting /\ Done
      /\ e \in Env /\ v \in VA /\ v \in Node /\ p \in Page
      /\ ent[e][v] = NULL /\ NULL \notin Page
      /\ Enter(e, v, p)
      /\ UNCHANGED <<used, todo, lost>>
  BY PmapAssumption DEF Inv, TypeOK, OpOK, Install, Inserting, Node
<1>2. user' \in [Env -> SUBSET VA]
  BY <1>1 DEF Install, Inv, TypeOK
<1>3. op' \in Op /\ ~ Inserting' /\ OpOK'
  BY <1>1, DoneFacts
<1>4. p \in used /\ NoTable(p)
  BY <1>1 DEF Inv, MappedIsUsed, PagesOK
<1> HIDE DEF e, v, p
<1>5. /\ ent' \in [Env -> [Node -> Page \union {NULL}]]
      /\ ref' \in [Page -> Nat]
      /\ lost' \in [Page -> Nat]
      /\ RefExact'
      /\ \A f \in Env, m \in Node : ent'[f][m] = IF f = e /\ m = v THEN p ELSE ent[f][m]
  BY <1>1, EnterFacts DEF LostAfter
<1>6. TypeOK'
  BY <1>1, <1>2, <1>3, <1>5 DEF Inv, TypeOK
<1>7. MappedIsUsed'
  BY <1>1, <1>3, <1>4, <1>5 DEF Inv, MappedIsUsed
<1>8. TablePrivate'
  <2>1. SUFFICES ASSUME NEW d \in Env, NEW f \in Env, NEW t \in Table \union {DIR}, NEW n \in Node,
                        ent'[d][t] # NULL, ent'[d][t] = ent'[f][n]
                 PROVE  d = f /\ t = n
    BY DEF TablePrivate
  <2>2. t # v /\ t \in Node
    BY <1>1, PmapAssumption DEF Node
  <2>3. ent'[d][t] = ent[d][t] /\ ent[d][t] # p
    BY <1>4, <1>5, <2>2 DEF NoTable
  <2>4. ent'[f][n] = ent[f][n]
    BY <1>5, <2>1, <2>3
  <2>5. ent[d][t] # NULL /\ ent[d][t] = ent[f][n]
    BY <2>1, <2>3, <2>4
  <2>6. TablePrivate
    BY DEF Inv
  <2> QED BY <2>5, <2>6 DEF TablePrivate
<1>9. PagesOK'
  BY <1>1, <1>3, <1>5, PmapAssumption DEF Inv, PagesOK, NoTable, Node
<1> QED BY <1>3, <1>5, <1>6, <1>7, <1>8, <1>9 DEF Inv

(* The last level of page_out, which can overwrite an entry. *)
LEMMA OutLeafInv ==
  ASSUME Inv, OutLeaf
  PROVE  Inv'
<1>1. /\ op.stage = "out" /\ op \in Op
      /\ op.env \in Env /\ op.va \in VA /\ op.va \in Node
      /\ UNCHANGED todo
  BY DEF Inv, TypeOK, OpOK, OutLeaf, Node
<1>2. ASSUME NEW p \in Page, page_alloc(p), Enter(op.env, op.va, p), op' = Idle,
             lost' = LostAfter(op.env, op.va),
             user' = [user EXCEPT ![op.env] = @ \union {op.va}]
      PROVE  Inv'
  <2>1. op' \in Op /\ ~ Inserting' /\ OpOK'
    BY <1>2 DEF Idle, Op, Stage, Inserting, OpOK
  <2>2. OpNext
    BY <1>1, <1>2, <2>1 DEF OpNext, Inv, TypeOK
  <2> QED BY <1>1, <1>2, <2>1, <2>2, AllocInv
<1>3. ASSUME Panic, UNCHANGED <<used, ref, ent, user, lost>>
      PROVE  Inv'
  <2>1. op' \in Op /\ op'.stage = "panic"
    BY <1>1, <1>3 DEF Panic, Op, Stage
  <2>2. ~ Inserting' /\ OpOK'
    BY <2>1 DEF Inserting, OpOK
  <2> QED BY <1>1, <1>3, <2>1, <2>2, KeptInv DEF OpNext, Inv, TypeOK
<1> QED BY <1>2, <1>3 DEF OutLeaf, AllocFails, LostAfter

(* env_setup_vm up to its loop. *)
LEMMA SetupInv ==
  ASSUME Inv, NEW e \in Env, EnvSetupVm(e)
  PROVE  Inv'
<1>1. op.stage = "idle" /\ op \in Op /\ ent[e][DIR] = NULL /\ DIR \in Node
      /\ UNCHANGED <<user, lost>>
  BY DEF EnvSetupVm, Alive, Inv, TypeOK, Node
<1>2. ASSUME NEW p \in Page, page_alloc(p), Enter(e, DIR, p),
             op' = [Idle EXCEPT !.stage = "setup", !.env = e], todo' = LowVA
      PROVE  Inv'
  <2>1. op' \in Op /\ ~ Inserting' /\ OpOK'
    BY <1>2 DEF Idle, Op, Stage, Inserting, OpOK
  <2>2. OpNext /\ lost' = LostAfter(e, DIR)
    BY <1>1, <1>2, <2>1 DEF OpNext, LostAfter, Inv, TypeOK
  <2> QED BY <1>1, <1>2, <2>1, <2>2, AllocInv
<1>3. ASSUME Panic, UNCHANGED <<used, ref, ent, todo>>
      PROVE  Inv'
  <2>1. op' \in Op /\ op'.stage = "panic"
    BY <1>1, <1>3 DEF Panic, Op, Stage
  <2>2. ~ Inserting' /\ OpOK'
    BY <2>1 DEF Inserting, OpOK
  <2> QED BY <1>1, <1>3, <2>1, <2>2, KeptInv DEF OpNext, Inv, TypeOK
<1> QED BY <1>2, <1>3 DEF EnvSetupVm, AllocFails

(* A turn of the loop of env_setup_vm. *)
LEMMA SetupLowInv ==
  ASSUME Inv, SetupLow
  PROVE  Inv'
<1>1. op.stage = "setup" /\ op \in Op /\ op.env \in Env
      /\ UNCHANGED <<ref, used, ent, user, lost>>
  BY DEF SetupLow, Inv, TypeOK, OpOK
<1>2. ASSUME op' = Idle, UNCHANGED todo
      PROVE  Inv'
  <2>1. op' \in Op /\ ~ Inserting' /\ OpOK'
    BY <1>2 DEF Idle, Op, Stage, Inserting, OpOK
  <2> QED BY <1>1, <1>2, <2>1, KeptInv DEF OpNext, Inv, TypeOK
<1>3. ASSUME NEW va \in todo, todo' = todo \ {va},
             op' = [op EXCEPT !.stage = "insert", !.va = va, !.page = low[va], !.user = TRUE]
      PROVE  Inv'
  <2>1. va \in LowVA /\ va \in VA /\ low[va] \in Page
    BY PmapAssumption DEF Inv, TypeOK
  <2>2. op' \in Op /\ op'.stage = "insert" /\ op'.env = op.env /\ op'.va = va /\ op'.page = low[va]
    BY <1>1, <1>3, <2>1 DEF Op, Stage
  <2>3. OpOK'
    BY <1>1, <2>1, <2>2 DEF OpOK, Inserting
  <2>4. op'.page \in used' /\ NoTable(op'.page)
    BY <1>1, <2>1, <2>2 DEF Inv, PagesOK
  <2> QED BY <1>1, <1>3, <2>2, <2>3, <2>4, KeptInv DEF OpNext, Inv, TypeOK
<1> QED BY <1>2, <1>3 DEF SetupLow

(* An entry that env_free gives back. *)
LEMMA FreeNodeInv ==
  ASSUME Inv, NEW n \in Node, FreeNode(n)
  PROVE  Inv'
<1>1. /\ op.stage = "free" /\ op \in Op /\ op.env \in Env
      /\ ent[op.env][n] # NULL /\ page_decref(op.env, n)
      /\ op' = IF n = DIR THEN Idle ELSE op
      /\ UNCHANGED <<todo, lost>>
  BY DEF FreeNode, Inv, TypeOK, OpOK
<1>2. user' \in [Env -> SUBSET VA]
  BY DEF FreeNode, Inv, TypeOK
<1>3. op' \in Op /\ ~ Inserting' /\ OpOK'
  BY <1>1 DEF Idle, Op, Stage, Inserting, OpOK
<1> QED BY <1>1, <1>2, <1>3, DecrefInv DEF OpNext, Inv, TypeOK

(* sys_mem_unmap. *)
LEMMA SysMemUnmapInv ==
  ASSUME Inv, NEW e \in Env, NEW va \in VA, SysMemUnmap(e, va)
  PROVE  Inv'
<1>1. /\ op.stage = "idle" /\ op \in Op /\ va \in Node
      /\ ent[e][va] # NULL /\ page_decref(e, va)
      /\ UNCHANGED <<op, todo, lost>>
  BY DEF SysMemUnmap, Inv, TypeOK, Node
<1>2. user' \in [Env -> SUBSET VA]
  BY DEF SysMemUnmap, Inv, TypeOK
<1>3. op' \in Op /\ ~ Inserting' /\ OpOK'
  BY <1>1 DEF Inserting, OpOK
<1> QED BY <1>1, <1>2, <1>3, DecrefInv DEF OpNext, Inv, TypeOK

(* The calls that only start an operation. *)
LEMMA StartInv ==
  ASSUME Inv, NEW e \in Env, NEW va \in VA,
         PageOut(e, va) \/ EnvFree(e)
  PROVE  Inv'
<1>1. /\ op' \in Op /\ op'.env = e /\ op'.stage \in {"panic", "out2", "free"}
      /\ op'.stage = "out2" => op'.va = va
      /\ UNCHANGED <<ref, used, ent, user, todo, lost>>
  BY DEF PageOut, EnvFree, Idle, Op, Stage
<1>2. ~ Inserting' /\ OpOK'
  BY <1>1 DEF Inserting, OpOK
<1> QED BY <1>1, <1>2, KeptInv DEF OpNext, Inv, TypeOK

(* sys_mem_alloc up to page_insert. *)
LEMMA SysMemAllocInv ==
  ASSUME Inv, NEW e \in Env, NEW va \in VA, NEW u \in BOOLEAN, SysMemAlloc(e, va, u)
  PROVE  Inv'
<1>1. PICK p \in Page :
        /\ page_alloc(p)
        /\ op' = [stage |-> "insert", env |-> e, va |-> va, page |-> p, user |-> u]
  BY DEF SysMemAlloc
<1>2. p \notin used /\ used' = used \union {p} /\ UNCHANGED <<ref, ent, user, todo, lost>>
  BY <1>1 DEF page_alloc, SysMemAlloc
<1>3. op' \in Op /\ op'.page = p /\ OpOK'
  BY <1>1 DEF Op, Stage, OpOK, Inserting
<1>4. NoTable(p)
  BY <1>2, FreshPage
<1> QED BY <1>2, <1>3, <1>4, KeptInv DEF OpNext, Inv, TypeOK

(* sys_mem_map up to page_insert. *)
LEMMA SysMemMapInv ==
  ASSUME Inv, NEW src \in Env, NEW dst \in Env, NEW srcva \in VA, NEW dstva \in VA,
         NEW u \in BOOLEAN, SysMemMap(src, srcva, dst, dstva, u)
  PROVE  Inv'
<1> DEFINE p == ent[src][srcva]
<1>1. /\ op' = [stage |-> "insert", env |-> dst, va |-> dstva, page |-> p, user |-> u]
      /\ p # NULL
      /\ UNCHANGED <<ref, used, ent, user, todo, lost>>
  BY DEF SysMemMap
<1>2. p \in Page /\ p \in used
  BY <1>1 DEF Inv, TypeOK, MappedIsUsed, Node
<1>3. NoTable(p)
  BY <1>1, PmapAssumption DEF NoTable, Inv, TablePrivate, Node
<1> HIDE DEF p
<1>4. op' \in Op /\ op'.page = p /\ OpOK'
  BY <1>1, <1>2 DEF Op, Stage, OpOK, Inserting
<1> QED BY <1>1, <1>2, <1>3, <1>4, KeptInv DEF OpNext, Inv, TypeOK

(* Every step keeps the invariant. *)
LEMMA NextInv == Inv /\ [Next]_vars => Inv'
<1> SUFFICES ASSUME Inv, [Next]_vars PROVE Inv'
  OBVIOUS
<1>1. CASE UNCHANGED vars
  <2>1. UNCHANGED <<ref, ent, lost, used, op, todo, user>>
    BY <1>1 DEF vars
  <2>2. OpNext
    BY <2>1 DEF OpNext, OpOK, Inserting, Inv, TypeOK
  <2>3. Inserting' => op'.page \in used' /\ NoTable(op'.page)
    BY <2>1 DEF Inv, MappedIsUsed, PagesOK, Inserting
  <2> QED BY <2>1, <2>2, <2>3, KeptInv DEF Inv, TypeOK
<1>2. CASE Halted
  BY <1>1, <1>2 DEF Halted
<1>3. CASE InsertStart
  BY <1>3, InsertStartInv
<1>4. CASE InsertWalk2 \/ InsertWalk3
  BY <1>4, InsertWalkInv
<1>5. CASE Install
  BY <1>5, InstallInv
<1>6. CASE OutWalk2 \/ OutWalk3
  BY <1>6, OutWalkInv
<1>7. CASE OutLeaf
  BY <1>7, OutLeafInv
<1>8. CASE SetupLow
  BY <1>8, SetupLowInv
<1>9. CASE \E n \in Node : FreeNode(n)
  BY <1>9, FreeNodeInv
<1>10. ASSUME NEW e \in Env, EnvSetupVm(e) PROVE Inv'
  BY <1>10, SetupInv
<1>11. ASSUME NEW e \in Env, EnvFree(e) PROVE Inv'
  <2>1. VA0 \in VA
    BY PmapAssumption
  <2> QED BY <1>11, <2>1, StartInv
<1>12. ASSUME NEW e \in Env, NEW va \in VA, PageOut(e, va) PROVE Inv'
  BY <1>12, StartInv
<1>13. ASSUME NEW e \in Env, NEW va \in VA, SysMemUnmap(e, va) PROVE Inv'
  BY <1>13, SysMemUnmapInv
<1>14. ASSUME NEW e \in Env, NEW va \in VA, NEW u \in BOOLEAN, SysMemAlloc(e, va, u) PROVE Inv'
  BY <1>14, SysMemAllocInv
<1>15. ASSUME NEW src \in Env, NEW dst \in Env, NEW srcva \in VA, NEW dstva \in VA,
              NEW u \in BOOLEAN, SysMemMap(src, srcva, dst, dstva, u)
       PROVE  Inv'
  BY <1>15, SysMemMapInv
<1> QED BY <1>1, <1>2, <1>3, <1>4, <1>5, <1>6, <1>7, <1>8, <1>9, <1>10, <1>11, <1>12,
           <1>13, <1>14, <1>15 DEF Next

(* The inductive invariant holds of every reachable state. *)
THEOREM Invariant == Spec => []Inv
BY InitInv, NextInv, PTL DEF Spec

(* Type correctness of ref, vis and the page tables of mm/pmap.c. *)
THEOREM TypeCorrect == Spec => []TypeOK
<1>1. Inv => TypeOK
  BY DEF Inv
<1> QED BY <1>1, Invariant, PTL

(***************************************************************************)
(* Page.ref is exact: page_insert, page_remove, page_decref, pgdir_walk,   *)
(* env_setup_vm and env_free keep it equal to the number of entries that   *)
(* denote the page, whatever allocation fails on the way.                  *)
(***************************************************************************)
THEOREM ReferenceCountsExact == Spec => []RefExact
<1>1. Inv => RefExact
  BY DEF Inv
<1> QED BY <1>1, Invariant, PTL

(* page_alloc never hands out a page that some page table still denotes. *)
THEOREM NoUseAfterFree == Spec => []MappedIsUsed
<1>1. Inv => MappedIsUsed
  BY DEF Inv
<1> QED BY <1>1, Invariant, PTL

(***************************************************************************)
(* A page that holds a table of one environment is neither a second table  *)
(* nor mapped as data by any environment, outside the self map at UVPT     *)
(* through which a program reaches its own tables: whatever fails in       *)
(* page_insert or page_out, no page becomes table and data at once.        *)
(***************************************************************************)
THEOREM TablesPrivate == Spec => []TablePrivate
<1>1. Inv => TablePrivate
  BY DEF Inv
<1> QED BY <1>1, Invariant, PTL

-----------------------------------------------------------------------------
(* The page tables as a client of the allocator. *)

(* What a step may do to page p. *)
Rule(p) ==
  /\ ref[p] > 0 /\ ref'[p] = 0 => p \in used \ bootUsed
  /\ ref[p] > 0 /\ ref'[p] = 0 <=> p \in used \ used'

Rules == \A p \in Page : Rule(p)

(* page_decref and page_remove. *)
LEMMA DecrefRules ==
  ASSUME Inv, NEW e \in Env, NEW n \in Node, ent[e][n] # NULL,
         page_decref(e, n), UNCHANGED lost
  PROVE  Rules
<1> SUFFICES ASSUME NEW p \in Page PROVE Rule(p)
  BY DEF Rules
<1> DEFINE q == ent[e][n]
<1>1. q \in Page /\ q \in used /\ ref \in [Page -> Nat]
  BY DEF Inv, TypeOK, MappedIsUsed
<1>2. ref[q] >= 1
  BY MappedCounted DEF Inv
<1>3. /\ ref' = [ref EXCEPT ![q] = @ - 1]
      /\ used' = IF ref[q] <= 1 THEN used \ {q} ELSE used
  BY DEF page_decref, DropEntry
<1>4. ref[q] = 1 => q \notin bootUsed
  <2>1. ref[q] = 1 => q \notin used'
    BY <1>1, <1>3
  <2> QED BY <1>1, <2>1, DecrefFacts, PmapAssumption
<1> HIDE DEF q
<1>5. CASE p = q
  BY <1>1, <1>2, <1>3, <1>4, <1>5 DEF Rule
<1>6. CASE p # q
  BY <1>1, <1>3, <1>6 DEF Rule
<1> QED BY <1>5, <1>6

(* A step that takes no reference and returns no page. *)
LEMMA GrowRules ==
  ASSUME used \subseteq used', \A p \in Page : ref[p] > 0 => ref'[p] > 0
  PROVE  Rules
BY DEF Rules, Rule

(* A step that leaves the counts alone and, if anything, takes a page. *)
LEMMA KeptRules ==
  ASSUME used \subseteq used', UNCHANGED ref
  PROVE  Rules
BY GrowRules

(* An entry written. *)
LEMMA EnterRules ==
  ASSUME Inv, NEW e, NEW n, NEW p \in Page, used \subseteq used', Enter(e, n, p)
  PROVE  Rules
<1>1. ref \in [Page -> Nat] /\ ref' = [ref EXCEPT ![p] = @ + 1]
  BY DEF Inv, TypeOK, Enter
<1>2. \A r \in Page : ref[r] > 0 => ref'[r] > 0
  BY <1>1
<1> QED BY <1>2, GrowRules

(* page_alloc takes a page. *)
LEMMA AllocGrows ==
  ASSUME NEW p, page_alloc(p)
  PROVE  used \subseteq used'
BY DEF page_alloc

(* Every step keeps to the rules. *)
LEMMA NextRules == Inv /\ Next => Rules
<1> SUFFICES ASSUME Inv, Next PROVE Rules
  OBVIOUS
<1>2. CASE Halted
  BY <1>2, KeptRules DEF Halted, vars
<1>3. CASE InsertStart
  <2>1. /\ op.env \in Env /\ op.va \in Node /\ UNCHANGED lost
        /\ \/ UNCHANGED <<used, ref>>
           \/ ent[op.env][op.va] # NULL /\ page_decref(op.env, op.va)
    BY <1>3 DEF InsertStart, Inv, OpOK, Node
  <2> QED BY <2>1, DecrefRules, KeptRules
<1>4. CASE InsertWalk2 \/ InsertWalk3 \/ OutWalk2 \/ OutWalk3
  <2>1. \/ UNCHANGED <<used, ref>>
        \/ \E p \in Page : page_alloc(p) /\ Enter(op.env, tab2[op.va], p)
        \/ \E p \in Page : page_alloc(p) /\ Enter(op.env, tab3[op.va], p)
    BY <1>4 DEF InsertWalk2, InsertWalk3, OutWalk2, OutWalk3, Walk, AllocFails
  <2>2. ASSUME NEW t, NEW p \in Page, page_alloc(p), Enter(op.env, t, p)
        PROVE  Rules
    BY <2>2, AllocGrows, EnterRules
  <2>3. CASE UNCHANGED <<used, ref>>
    BY <2>3, KeptRules
  <2> QED BY <2>1, <2>2, <2>3
<1>5. CASE Install
  <2>1. op.page \in Page /\ UNCHANGED used /\ Enter(op.env, op.va, op.page)
    BY <1>5 DEF Install, Inv, OpOK, Inserting
  <2> QED BY <2>1, EnterRules
<1>6. CASE OutLeaf
  BY <1>6, AllocGrows, EnterRules, KeptRules DEF OutLeaf, AllocFails
<1>7. CASE SetupLow
  BY <1>7, KeptRules DEF SetupLow
<1>8. ASSUME NEW n \in Node, FreeNode(n) PROVE Rules
  <2>1. op.env \in Env /\ ent[op.env][n] # NULL /\ page_decref(op.env, n) /\ UNCHANGED lost
    BY <1>8 DEF FreeNode, Inv, OpOK
  <2> QED BY <2>1, DecrefRules
<1>9. ASSUME NEW e \in Env, EnvSetupVm(e) \/ EnvFree(e) PROVE Rules
  BY <1>9, AllocGrows, EnterRules, KeptRules DEF EnvSetupVm, EnvFree, AllocFails
<1>10. ASSUME NEW e \in Env, NEW va \in VA, PageOut(e, va) PROVE Rules
  BY <1>10, KeptRules DEF PageOut
<1>11. ASSUME NEW e \in Env, NEW va \in VA, SysMemUnmap(e, va) PROVE Rules
  <2>1. va \in Node /\ ent[e][va] # NULL /\ page_decref(e, va) /\ UNCHANGED lost
    BY <1>11 DEF SysMemUnmap, Node
  <2> QED BY <2>1, DecrefRules
<1>12. ASSUME NEW e \in Env, NEW va \in VA, NEW u \in BOOLEAN, SysMemAlloc(e, va, u)
       PROVE  Rules
  BY <1>12, AllocGrows, KeptRules DEF SysMemAlloc
<1>13. ASSUME NEW src \in Env, NEW dst \in Env, NEW srcva \in VA, NEW dstva \in VA,
              NEW u \in BOOLEAN, SysMemMap(src, srcva, dst, dstva, u)
       PROVE  Rules
  BY <1>13, KeptRules DEF SysMemMap
<1> QED BY <1>2, <1>3, <1>4, <1>5, <1>6, <1>7, <1>8, <1>9, <1>10, <1>11, <1>12,
           <1>13 DEF Next

(***************************************************************************)
(* page_remove, page_decref and env_free give a page back once, with its   *)
(* last reference, and never one of the boot code's: what PageAllocator    *)
(* asks of its callers.                                                    *)
(***************************************************************************)
THEOREM PagesGivenBackOnce == Spec => GivenBackOnce
<1>1. Inv /\ [Next]_vars => [Rules]_vars
  BY NextRules
<1>2. [Rules]_vars <=> [\A p \in Page :
        /\ ref[p] > 0 /\ ref'[p] = 0 => p \in used \ bootUsed
        /\ ref[p] > 0 /\ ref'[p] = 0 <=> p \in used \ used']_vars
  BY DEF Rules, Rule
<1> QED BY <1>1, <1>2, Invariant, PTL DEF Spec, GivenBackOnce

-----------------------------------------------------------------------------
(* No dangling table. *)

(* What the walk under way has found or made. *)
OpTree ==
  /\ op.stage \notin {"idle", "panic"} => Alive(op.env)
  /\ op.stage \in {"walk3", "install", "out3", "out"} => ent[op.env][tab2[op.va]] # NULL
  /\ op.stage \in {"install", "out"} => ent[op.env][tab3[op.va]] # NULL

Tree == TreeOK /\ OpTree

(* A step writes p at node n of e and nowhere else. *)
Written(e, n, p) ==
  \A f \in Env, m \in Node : ent'[f][m] = IF f = e /\ m = n THEN p ELSE ent[f][m]

(* Enter writes one entry. *)
LEMMA EnterWrites ==
  ASSUME Inv, NEW e \in Env, NEW n \in Node, NEW p \in Page, Enter(e, n, p)
  PROVE  Written(e, n, p)
<1>1. ent \in [Env -> [Node -> Page \union {NULL}]] /\ ent' = [ent EXCEPT ![e][n] = p]
  BY DEF Inv, TypeOK, Enter
<1> QED BY <1>1 DEF Written

(* page_decref clears one entry. *)
LEMMA DecrefWrites ==
  ASSUME Inv, NEW e \in Env, NEW n \in Node, page_decref(e, n)
  PROVE  Written(e, n, NULL)
<1>1. ent \in [Env -> [Node -> Page \union {NULL}]] /\ ent' = [ent EXCEPT ![e][n] = NULL]
  BY DEF Inv, TypeOK, page_decref, DropEntry
<1> QED BY <1>1 DEF Written

(* The nodes of a virtual page. *)
LEMMA Nodes ==
  ASSUME NEW v \in VA
  PROVE  /\ v \in Node /\ tab2[v] \in Node /\ tab3[v] \in Node /\ DIR \in Node
         /\ tab2[v] \in Table /\ tab3[v] \in Table
         /\ DIR # v /\ DIR # tab2[v] /\ DIR # tab3[v]
         /\ \A w \in VA : w # tab2[v] /\ w # tab3[v]
BY PmapAssumption DEF Node

(* An entry written below tables that exist. *)
LEMMA GrowTree ==
  ASSUME TreeOK, NEW e \in Env, NEW n \in Node, NEW p \in Page, Written(e, n, p),
         n = DIR \/ Alive(e),
         \A v \in VA : n = v => ent[e][tab3[v]] # NULL,
         \A v \in VA : n = tab3[v] => ent[e][tab2[v]] # NULL
  PROVE  /\ TreeOK'
         /\ \A f \in Env, m \in Node : ent[f][m] # NULL => ent'[f][m] # NULL
         /\ ent'[e][n] # NULL
<1>1. p # NULL
  BY PmapAssumption
<1>2. \A f \in Env, m \in Node : ent[f][m] # NULL => ent'[f][m] # NULL
  BY <1>1 DEF Written
<1>3. \A f \in Env, m \in Node : ent'[f][m] # NULL => ent[f][m] # NULL \/ (f = e /\ m = n)
  BY DEF Written
<1>4. ent'[e][n] # NULL
  BY <1>1 DEF Written
<1>5. ASSUME NEW f \in Env, NEW v \in VA, ent'[f][v] # NULL
      PROVE  ent'[f][tab3[v]] # NULL
  BY <1>2, <1>3, <1>5, Nodes DEF TreeOK
<1>6. ASSUME NEW f \in Env, NEW v \in VA, ent'[f][tab3[v]] # NULL
      PROVE  ent'[f][tab2[v]] # NULL
  BY <1>2, <1>3, <1>6, Nodes DEF TreeOK
<1>7. ASSUME NEW f \in Env, NEW m \in Node, ent'[f][m] # NULL
      PROVE  ent'[f][DIR] # NULL
  <2>1. DIR \in Node
    BY DEF Node
  <2> QED BY <1>2, <1>3, <1>4, <1>7, <2>1 DEF TreeOK, Alive
<1> QED BY <1>2, <1>4, <1>5, <1>6, <1>7 DEF TreeOK, Alive

(* An entry cleared that nothing is reached through. *)
LEMMA DropTree ==
  ASSUME TreeOK, NEW e \in Env, NEW n \in Node, Written(e, n, NULL),
         \A b \in Below(n) : ent[e][b] = NULL
  PROVE  /\ TreeOK'
         /\ \A f \in Env, m \in Node : m # n => ent'[f][m] = ent[f][m]
<1>1. \A f \in Env, m \in Node : ~ (f = e /\ m = n) => ent'[f][m] = ent[f][m]
  BY DEF Written
<1>2. ent'[e][n] = NULL
  BY DEF Written
<1>3. ASSUME NEW f \in Env, NEW v \in VA, ent'[f][v] # NULL
      PROVE  ent'[f][tab3[v]] # NULL
  <2>1. ent[f][v] # NULL /\ ent[f][tab3[v]] # NULL
    BY <1>1, <1>2, <1>3, Nodes DEF TreeOK
  <2>2. ASSUME n = tab3[v] PROVE v \in Below(n)
    BY <2>2, Nodes DEF Below
  <2> QED BY <1>1, <2>1, <2>2, Nodes
<1>4. ASSUME NEW f \in Env, NEW v \in VA, ent'[f][tab3[v]] # NULL
      PROVE  ent'[f][tab2[v]] # NULL
  <2>1. ent[f][tab3[v]] # NULL /\ ent[f][tab2[v]] # NULL
    BY <1>1, <1>2, <1>4, Nodes DEF TreeOK
  <2>2. ASSUME n = tab2[v] PROVE tab3[v] \in Below(n)
    BY <2>2, Nodes DEF Below
  <2> QED BY <1>1, <2>1, <2>2, Nodes
<1>5. ASSUME NEW f \in Env, NEW m \in Node, ent'[f][m] # NULL
      PROVE  ent'[f][DIR] # NULL
  <2>1. DIR \in Node /\ ent[f][m] # NULL /\ ent[f][DIR] # NULL
    BY <1>1, <1>2, <1>5 DEF TreeOK, Alive, Node
  <2>2. CASE n # DIR
    BY <1>1, <2>1, <2>2
  <2>3. CASE n = DIR
    <3>1. Below(n) = Table
      BY <2>3, PmapAssumption DEF Below
    <3>2. m # DIR \/ f # e
      BY <1>2, <1>5, <2>3
    <3>3. CASE f # e
      BY <1>1, <2>1, <3>3
    <3>4. CASE f = e /\ m \in Table
      BY <2>1, <3>1, <3>4
    <3>5. CASE f = e /\ m \in VA
      BY <2>1, <3>1, <3>5, Nodes DEF TreeOK
    <3> QED BY <3>2, <3>3, <3>4, <3>5 DEF Node
  <2> QED BY <2>2, <2>3
<1> QED BY <1>1, <1>3, <1>4, <1>5 DEF TreeOK, Alive

(* Nothing is reached through an entry of level 3. *)
LEMMA LeafBelow ==
  ASSUME NEW v \in VA
  PROVE  Below(v) = {}
BY PmapAssumption DEF Below

(* The tables are not touched. *)
LEMMA KeptTree ==
  ASSUME TreeOK, UNCHANGED ent
  PROVE  TreeOK'
BY DEF TreeOK, Alive

(* The end of an operation, the tables untouched or grown. *)
LEMMA DoneTree ==
  ASSUME Inv, OpTree, Done, op.stage \notin {"idle", "panic"},
         \A f \in Env, m \in Node : ent[f][m] # NULL => ent'[f][m] # NULL
  PROVE  OpTree'
<1>1. op \in Op /\ op.env \in Env /\ ent[op.env][DIR] # NULL /\ DIR \in Node
  BY DEF Inv, TypeOK, OpOK, OpTree, Alive, Node
<1>2. CASE todo = {}
  BY <1>2 DEF Done, Idle, OpTree
<1>3. CASE todo # {}
  <2>1. op'.stage = "setup" /\ op'.env = op.env
    BY <1>1, <1>3 DEF Done, Op
  <2> QED BY <1>1, <2>1 DEF OpTree, Alive
<1> QED BY <1>2, <1>3

(* page_insert before its second pgdir_walk. *)
LEMMA InsertStartTree ==
  ASSUME Inv, Tree, InsertStart
  PROVE  Tree'
<1>1. /\ op.stage = "insert" /\ op \in Op /\ op.env \in Env /\ op.va \in VA /\ op.va \in Node
      /\ TreeOK /\ OpTree /\ Alive(op.env) /\ DIR \in Node /\ op.va # DIR
  BY PmapAssumption DEF Inv, TypeOK, OpOK, InsertStart, Node, Tree, OpTree
<1>2. CASE Done /\ UNCHANGED ent
  <2>1. OpTree'
    BY <1>1, <1>2, DoneTree
  <2> QED BY <1>1, <1>2, <2>1, KeptTree DEF Tree
<1>3. ASSUME op' = [op EXCEPT !.stage = "walk2"]
      PROVE  op'.stage = "walk2" /\ op'.env = op.env
  BY <1>1, <1>3 DEF Op
<1>4. CASE page_decref(op.env, op.va) /\ op' = [op EXCEPT !.stage = "walk2"]
  <2>1. Written(op.env, op.va, NULL)
    BY <1>1, <1>4, DecrefWrites
  <2>2. Below(op.va) = {}
    BY <1>1, LeafBelow
  <2>3. TreeOK' /\ \A f \in Env, m \in Node : m # op.va => ent'[f][m] = ent[f][m]
    BY <1>1, <2>1, <2>2, DropTree
  <2>4. OpTree'
    BY <1>1, <1>3, <1>4, <2>3 DEF OpTree, Alive
  <2> QED BY <2>3, <2>4 DEF Tree
<1>5. CASE op' = [op EXCEPT !.stage = "walk2"] /\ UNCHANGED ent
  <2>1. OpTree'
    BY <1>1, <1>3, <1>5 DEF OpTree, Alive
  <2> QED BY <1>1, <1>5, <2>1, KeptTree DEF Tree
<1> QED BY <1>2, <1>4, <1>5 DEF InsertStart

(***************************************************************************)
(* One level of pgdir_walk or of page_out: the table t is there afterwards,*)
(* or the operation ends.                                                  *)
(***************************************************************************)
LEMMA WalkTree ==
  ASSUME Inv, Tree, NEW from, NEW t, NEW to, NEW Fail, Walk(from, t, to, Fail),
         op.env \in Env, op.va \in VA, op.stage \notin {"idle", "panic"},
         t = tab2[op.va] \/ (t = tab3[op.va] /\ ent[op.env][tab2[op.va]] # NULL)
  PROVE  /\ TreeOK'
         /\ \A f \in Env, m \in Node : ent[f][m] # NULL => ent'[f][m] # NULL
         /\ \/ op' = [op EXCEPT !.stage = to] /\ ent'[op.env][t] # NULL
            \/ Fail
<1>1. TreeOK /\ Alive(op.env) /\ t \in Node
  BY Nodes DEF Tree, OpTree
<1>2. CASE UNCHANGED ent
  <2>1. TreeOK' /\ \A f \in Env, m \in Node : ent[f][m] # NULL => ent'[f][m] # NULL
    BY <1>1, <1>2, KeptTree
  <2>2. CASE ent[op.env][t] # NULL /\ op' = [op EXCEPT !.stage = to]
    BY <1>2, <2>1, <2>2
  <2>3. CASE Fail
    BY <2>1, <2>3
  <2>4. CASE \E p \in Page : Enter(op.env, t, p) /\ op' = [op EXCEPT !.stage = to]
    <3>1. PICK p \in Page : Enter(op.env, t, p)
      BY <2>4
    <3>2. ent'[op.env][t] # NULL
      BY <1>1, <3>1, EnterWrites, PmapAssumption DEF Written
    <3> QED BY <2>1, <2>4, <3>2
  <2> QED BY <2>2, <2>3, <2>4 DEF Walk
<1>3. CASE \E p \in Page : Enter(op.env, t, p) /\ op' = [op EXCEPT !.stage = to]
  <2>1. PICK p \in Page : Enter(op.env, t, p)
    BY <1>3
  <2>2. Written(op.env, t, p)
    BY <1>1, <2>1, EnterWrites
  <2>3. \A v \in VA : t # v
    BY Nodes
  <2>4. \A v \in VA : t = tab3[v] => ent[op.env][tab2[v]] # NULL
    BY PmapAssumption
  <2> QED BY <1>1, <1>3, <2>2, <2>3, <2>4, GrowTree
<1> QED BY <1>2, <1>3 DEF Walk

(* A level of pgdir_walk inside page_insert. *)
LEMMA InsertWalkTree ==
  ASSUME Inv, Tree, InsertWalk2 \/ InsertWalk3
  PROVE  Tree'
<1>1. /\ op \in Op /\ op.env \in Env /\ op.va \in VA
      /\ op.stage \in {"walk2", "walk3"}
      /\ op.stage = "walk3" => ent[op.env][tab2[op.va]] # NULL
      /\ OpTree /\ ent[op.env][DIR] # NULL
  BY DEF Inv, TypeOK, OpOK, InsertWalk2, InsertWalk3, Walk, Tree, OpTree, Alive
<1>2. DIR \in Node /\ tab2[op.va] \in Node
  BY <1>1, Nodes
<1>3. CASE InsertWalk2
  <2>1. /\ TreeOK'
        /\ \A f \in Env, m \in Node : ent[f][m] # NULL => ent'[f][m] # NULL
        /\ \/ op' = [op EXCEPT !.stage = "walk3"] /\ ent'[op.env][tab2[op.va]] # NULL
           \/ Done
    BY <1>1, <1>3, WalkTree DEF InsertWalk2
  <2>2. CASE op' = [op EXCEPT !.stage = "walk3"] /\ ent'[op.env][tab2[op.va]] # NULL
    <3>1. op'.stage = "walk3" /\ op'.env = op.env /\ op'.va = op.va
      BY <1>1, <2>2 DEF Op
    <3> QED BY <1>1, <1>2, <2>1, <2>2, <3>1 DEF Tree, OpTree, Alive
  <2>3. CASE Done
    BY <1>1, <2>1, <2>3, DoneTree DEF Tree
  <2> QED BY <2>1, <2>2, <2>3
<1>4. CASE InsertWalk3
  <2>0. op.stage = "walk3"
    BY <1>4 DEF InsertWalk3, Walk
  <2>1. /\ TreeOK'
        /\ \A f \in Env, m \in Node : ent[f][m] # NULL => ent'[f][m] # NULL
        /\ \/ op' = [op EXCEPT !.stage = "install"] /\ ent'[op.env][tab3[op.va]] # NULL
           \/ Done
    BY <1>1, <1>4, <2>0, WalkTree DEF InsertWalk3
  <2>2. CASE op' = [op EXCEPT !.stage = "install"] /\ ent'[op.env][tab3[op.va]] # NULL
    <3>1. op'.stage = "install" /\ op'.env = op.env /\ op'.va = op.va
      BY <1>1, <2>2 DEF Op
    <3> QED BY <1>1, <1>2, <2>0, <2>1, <2>2, <3>1 DEF Tree, OpTree, Alive
  <2>3. CASE Done
    BY <1>1, <2>1, <2>3, DoneTree DEF Tree
  <2> QED BY <2>1, <2>2, <2>3
<1> QED BY <1>3, <1>4

(* A level of page_out above the last. *)
LEMMA OutWalkTree ==
  ASSUME Inv, Tree, OutWalk2 \/ OutWalk3
  PROVE  Tree'
<1>1. /\ op \in Op /\ op.env \in Env /\ op.va \in VA
      /\ op.stage \in {"out2", "out3"}
      /\ op.stage = "out3" => ent[op.env][tab2[op.va]] # NULL
      /\ ent[op.env][DIR] # NULL
  BY DEF Inv, TypeOK, OpOK, OutWalk2, OutWalk3, Walk, Tree, OpTree, Alive
<1>2. DIR \in Node /\ tab2[op.va] \in Node
  BY <1>1, Nodes
<1>3. ASSUME Panic PROVE OpTree'
  <2>1. op'.stage = "panic"
    BY <1>1, <1>3 DEF Panic, Op
  <2> QED BY <2>1 DEF OpTree
<1>4. CASE OutWalk2
  <2>1. /\ TreeOK'
        /\ \A f \in Env, m \in Node : ent[f][m] # NULL => ent'[f][m] # NULL
        /\ \/ op' = [op EXCEPT !.stage = "out3"] /\ ent'[op.env][tab2[op.va]] # NULL
           \/ Panic
    BY <1>1, <1>4, WalkTree DEF OutWalk2
  <2>2. CASE op' = [op EXCEPT !.stage = "out3"] /\ ent'[op.env][tab2[op.va]] # NULL
    <3>1. op'.stage = "out3" /\ op'.env = op.env /\ op'.va = op.va
      BY <1>1, <2>2 DEF Op
    <3> QED BY <1>1, <1>2, <2>1, <2>2, <3>1 DEF Tree, OpTree, Alive
  <2> QED BY <1>3, <2>1, <2>2 DEF Tree
<1>5. CASE OutWalk3
  <2>0. op.stage = "out3"
    BY <1>5 DEF OutWalk3, Walk
  <2>1. /\ TreeOK'
        /\ \A f \in Env, m \in Node : ent[f][m] # NULL => ent'[f][m] # NULL
        /\ \/ op' = [op EXCEPT !.stage = "out"] /\ ent'[op.env][tab3[op.va]] # NULL
           \/ Panic
    BY <1>1, <1>5, <2>0, WalkTree DEF OutWalk3
  <2>2. CASE op' = [op EXCEPT !.stage = "out"] /\ ent'[op.env][tab3[op.va]] # NULL
    <3>1. op'.stage = "out" /\ op'.env = op.env /\ op'.va = op.va
      BY <1>1, <2>2 DEF Op
    <3> QED BY <1>1, <1>2, <2>0, <2>1, <2>2, <3>1 DEF Tree, OpTree, Alive
  <2> QED BY <1>3, <2>1, <2>2 DEF Tree
<1> QED BY <1>4, <1>5

(* The entry that page_insert or page_out writes at last. *)
LEMMA LeafTree ==
  ASSUME Inv, Tree, op.stage \in {"install", "out"},
         NEW p \in Page, Enter(op.env, op.va, p)
  PROVE  /\ TreeOK'
         /\ \A f \in Env, m \in Node : ent[f][m] # NULL => ent'[f][m] # NULL
<1>1. /\ op.env \in Env /\ op.va \in VA /\ op.va \in Node /\ Alive(op.env) /\ TreeOK
      /\ ent[op.env][tab3[op.va]] # NULL
  BY DEF Inv, OpOK, Tree, OpTree, Node
<1>2. Written(op.env, op.va, p)
  BY <1>1, EnterWrites
<1>3. \A v \in VA : op.va # tab3[v]
  BY <1>1, Nodes
<1>4. \A v \in VA : op.va = v => ent[op.env][tab3[v]] # NULL
  BY <1>1
<1> QED BY <1>1, <1>2, <1>3, <1>4, GrowTree

(* The ends of page_insert and of page_out. *)
LEMMA InstallTree ==
  ASSUME Inv, Tree, Install \/ OutLeaf
  PROVE  Tree'
<1>1. op \in Op /\ op.stage \in {"install", "out"} /\ TreeOK /\ OpTree
  BY DEF Inv, TypeOK, Install, OutLeaf, Tree
<1>2. CASE Install
  <2>1. op.page \in Page /\ Enter(op.env, op.va, op.page) /\ Done
    BY <1>2 DEF Install, Inv, OpOK, Inserting
  <2>2. TreeOK' /\ \A f \in Env, m \in Node : ent[f][m] # NULL => ent'[f][m] # NULL
    BY <1>1, <2>1, LeafTree
  <2>3. OpTree'
    BY <1>1, <2>1, <2>2, DoneTree
  <2> QED BY <2>2, <2>3 DEF Tree
<1>3. CASE OutLeaf
  <2>1. ASSUME NEW p \in Page, Enter(op.env, op.va, p), op' = Idle
        PROVE  Tree'
    <3>1. TreeOK'
      BY <1>1, <2>1, LeafTree
    <3>2. OpTree'
      BY <2>1 DEF OpTree, Idle
    <3> QED BY <3>1, <3>2 DEF Tree
  <2>2. ASSUME Panic, UNCHANGED ent
        PROVE  Tree'
    <3>1. op'.stage = "panic"
      BY <1>1, <2>2 DEF Panic, Op
    <3> QED BY <1>1, <2>2, <3>1, KeptTree DEF Tree, OpTree
  <2> QED BY <1>3, <2>1, <2>2 DEF OutLeaf
<1> QED BY <1>2, <1>3

(* env_setup_vm up to its loop. *)
LEMMA SetupTree ==
  ASSUME Inv, Tree, NEW e \in Env, EnvSetupVm(e)
  PROVE  Tree'
<1>1. op \in Op /\ TreeOK /\ DIR \in Node /\ \A v \in VA : DIR # v /\ DIR # tab3[v]
  BY Nodes DEF Inv, TypeOK, Tree, Node
<1>2. ASSUME NEW p \in Page, Enter(e, DIR, p),
             op' = [Idle EXCEPT !.stage = "setup", !.env = e]
      PROVE  Tree'
  <2>1. Written(e, DIR, p)
    BY <1>1, <1>2, EnterWrites
  <2>2. TreeOK' /\ ent'[e][DIR] # NULL
    BY <1>1, <2>1, GrowTree
  <2>3. op'.stage = "setup" /\ op'.env = e
    BY <1>2 DEF Idle
  <2> QED BY <2>2, <2>3 DEF Tree, OpTree, Alive
<1>3. ASSUME Panic, UNCHANGED ent
      PROVE  Tree'
  <2>1. op'.stage = "panic"
    BY <1>1, <1>3 DEF Panic, Op
  <2> QED BY <1>1, <1>3, <2>1, KeptTree DEF Tree, OpTree
<1> QED BY <1>2, <1>3 DEF EnvSetupVm

(* A turn of the loop of env_setup_vm. *)
LEMMA SetupLowTree ==
  ASSUME Inv, Tree, SetupLow
  PROVE  Tree'
<1>1. op \in Op /\ Alive(op.env) /\ TreeOK /\ UNCHANGED ent /\ op.stage = "setup"
  BY DEF Inv, TypeOK, SetupLow, Tree, OpTree
<1>2. op' = Idle \/ (op'.stage = "insert" /\ op'.env = op.env)
  BY <1>1 DEF SetupLow, Op
<1>3. OpTree'
  BY <1>1, <1>2 DEF OpTree, Idle, Alive
<1> QED BY <1>1, <1>3, KeptTree DEF Tree

(* env_free gives back a node below which nothing is left. *)
LEMMA FreeNodeTree ==
  ASSUME Inv, Tree, NEW n \in Node, FreeNode(n)
  PROVE  Tree'
<1>1. /\ op.env \in Env /\ op.stage = "free" /\ ent[op.env][DIR] # NULL /\ DIR \in Node
      /\ \A b \in Below(n) : ent[op.env][b] = NULL
      /\ page_decref(op.env, n) /\ TreeOK
      /\ op' = IF n = DIR THEN Idle ELSE op
  BY DEF Inv, OpOK, FreeNode, Tree, OpTree, Alive, Node
<1>2. Written(op.env, n, NULL)
  BY <1>1, DecrefWrites
<1>3. TreeOK' /\ \A f \in Env, m \in Node : m # n => ent'[f][m] = ent[f][m]
  BY <1>1, <1>2, DropTree
<1>4. OpTree'
  BY <1>1, <1>3 DEF OpTree, Idle, Alive
<1> QED BY <1>3, <1>4 DEF Tree

(* sys_mem_unmap. *)
LEMMA SysMemUnmapTree ==
  ASSUME Inv, Tree, NEW e \in Env, NEW va \in VA, SysMemUnmap(e, va)
  PROVE  Tree'
<1>1. op.stage = "idle" /\ UNCHANGED op /\ page_decref(e, va) /\ TreeOK /\ va \in Node
  BY DEF SysMemUnmap, Tree, Node
<1>2. Written(e, va, NULL) /\ Below(va) = {}
  BY <1>1, DecrefWrites, LeafBelow
<1>3. TreeOK'
  BY <1>1, <1>2, DropTree
<1>4. OpTree'
  BY <1>1 DEF OpTree
<1> QED BY <1>3, <1>4 DEF Tree

(* The calls that only start an operation. *)
LEMMA StartTree ==
  ASSUME Inv, Tree, NEW e \in Env, Alive(e), UNCHANGED ent, op'.env = e,
         op'.stage \in {"panic", "out2", "free", "insert"}
  PROVE  Tree'
<1>1. TreeOK'
  BY KeptTree DEF Tree
<1>2. OpTree'
  BY DEF OpTree, Alive
<1> QED BY <1>1, <1>2 DEF Tree

(* Every step keeps the tree. *)
LEMMA NextTree == Inv /\ Tree /\ [Next]_vars => Tree'
<1> SUFFICES ASSUME Inv, Tree, [Next]_vars PROVE Tree'
  OBVIOUS
<1>1. CASE UNCHANGED vars
  <2>1. UNCHANGED <<ent, op>>
    BY <1>1 DEF vars
  <2> QED BY <2>1 DEF Tree, TreeOK, OpTree, Alive
<1>2. CASE Halted
  BY <1>1, <1>2 DEF Halted
<1>3. CASE InsertStart
  BY <1>3, InsertStartTree
<1>4. CASE InsertWalk2 \/ InsertWalk3
  BY <1>4, InsertWalkTree
<1>5. CASE Install \/ OutLeaf
  BY <1>5, InstallTree
<1>6. CASE OutWalk2 \/ OutWalk3
  BY <1>6, OutWalkTree
<1>7. CASE SetupLow
  BY <1>7, SetupLowTree
<1>8. ASSUME NEW n \in Node, FreeNode(n) PROVE Tree'
  BY <1>8, FreeNodeTree
<1>9. ASSUME NEW e \in Env, EnvSetupVm(e) PROVE Tree'
  BY <1>9, SetupTree
<1>10. ASSUME NEW e \in Env, EnvFree(e) PROVE Tree'
  <2>1. Alive(e) /\ UNCHANGED ent /\ op'.env = e /\ op'.stage = "free"
    BY <1>10 DEF EnvFree, Idle
  <2> QED BY <2>1, StartTree
<1>11. ASSUME NEW e \in Env, NEW va \in VA, PageOut(e, va) PROVE Tree'
  <2>1. Alive(e) /\ UNCHANGED ent /\ op'.env = e /\ op'.stage \in {"panic", "out2"}
    BY <1>11 DEF PageOut, Idle
  <2> QED BY <2>1, StartTree
<1>12. ASSUME NEW e \in Env, NEW va \in VA, SysMemUnmap(e, va) PROVE Tree'
  BY <1>12, SysMemUnmapTree
<1>13. ASSUME NEW e \in Env, NEW va \in VA, NEW u \in BOOLEAN, SysMemAlloc(e, va, u) PROVE Tree'
  <2>1. Alive(e) /\ UNCHANGED ent /\ op'.env = e /\ op'.stage = "insert"
    BY <1>13 DEF SysMemAlloc
  <2> QED BY <2>1, StartTree
<1>14. ASSUME NEW src \in Env, NEW dst \in Env, NEW srcva \in VA, NEW dstva \in VA,
              NEW u \in BOOLEAN, SysMemMap(src, srcva, dst, dstva, u)
       PROVE  Tree'
  <2>1. Alive(dst) /\ UNCHANGED ent /\ op'.env = dst /\ op'.stage = "insert"
    BY <1>14 DEF SysMemMap
  <2> QED BY <2>1, StartTree
<1> QED BY <1>1, <1>2, <1>3, <1>4, <1>5, <1>6, <1>7, <1>8, <1>9, <1>10, <1>11, <1>12,
           <1>13, <1>14 DEF Next

(***************************************************************************)
(* No dangling table: page_insert and page_out make the tables before the  *)
(* entry, and env_free takes them down after what they cover, so           *)
(* everything that is mapped is found by page_lookup and given back.       *)
(***************************************************************************)
THEOREM TablesReachable == Spec => []TreeOK
<1>1. Init => Tree
  <2> SUFFICES ASSUME Init PROVE Tree
    OBVIOUS
  <2>1. \A e \in Env, n \in Node : ent[e][n] = NULL
    BY DEF Init
  <2>2. TreeOK
    BY <2>1, Nodes DEF TreeOK
  <2>3. OpTree
    BY DEF Init, Idle, OpTree
  <2> QED BY <2>2, <2>3 DEF Tree
<1>2. Tree => TreeOK
  BY DEF Tree
<1> QED BY <1>1, <1>2, NextTree, Invariant, PTL DEF Spec

-----------------------------------------------------------------------------
(* Pages that are lost. *)

(* Only env_setup_vm has pages left to map, and they are the boot code's. *)
TodoOK ==
  /\ ~ Inserting /\ op.stage # "setup" => todo = {}
  /\ Inserting /\ todo # {} => op.page \in bootUsed

(* Every step keeps TodoOK. *)
LEMMA NextTodo == Inv /\ TodoOK /\ [Next]_vars => TodoOK'
<1> SUFFICES ASSUME Inv, TodoOK, [Next]_vars PROVE TodoOK'
  OBVIOUS
<1>0. op \in Op /\ todo \subseteq LowVA
  BY DEF Inv, TypeOK
<1>1. CASE UNCHANGED vars
  <2>1. UNCHANGED <<op, todo>>
    BY <1>1 DEF vars
  <2> QED BY <2>1 DEF TodoOK, Inserting
<1>2. ASSUME Done, UNCHANGED todo PROVE TodoOK'
  <2>1. (todo = {} /\ op'.stage = "idle") \/ op'.stage = "setup"
    BY <1>0, <1>2 DEF Done, Idle, Op
  <2> QED BY <1>2, <2>1 DEF TodoOK, Inserting
<1>3. ASSUME NEW s \in {"walk2", "walk3", "install"}, op' = [op EXCEPT !.stage = s],
             Inserting, UNCHANGED todo
      PROVE  TodoOK'
  <2>1. op'.stage = s /\ op'.page = op.page
    BY <1>0, <1>3 DEF Op
  <2> QED BY <1>3, <2>1 DEF TodoOK, Inserting
<1>4. ASSUME op.stage \notin {"setup", "insert", "walk2", "walk3", "install"}, UNCHANGED todo
      PROVE  TodoOK'
  BY <1>4 DEF TodoOK, Inserting
<1>5. CASE InsertStart \/ InsertWalk2 \/ InsertWalk3
  BY <1>2, <1>3, <1>5 DEF InsertStart, InsertWalk2, InsertWalk3, Walk, Inserting
<1>6. CASE Install
  BY <1>2, <1>6 DEF Install
<1>7. CASE Halted \/ OutWalk2 \/ OutWalk3 \/ OutLeaf
  BY <1>4, <1>7 DEF Halted, OutWalk2, OutWalk3, OutLeaf, Walk, vars
<1>8. CASE SetupLow
  <2>1. CASE todo = {} /\ op' = Idle /\ UNCHANGED todo
    BY <2>1 DEF TodoOK, Idle, Inserting
  <2>2. ASSUME NEW va \in todo,
               op' = [op EXCEPT !.stage = "insert", !.va = va, !.page = low[va], !.user = TRUE]
        PROVE  TodoOK'
    <3>1. op'.stage = "insert" /\ op'.page = low[va]
      BY <1>0, <2>2 DEF Op
    <3>2. low[va] \in bootUsed
      BY <1>0, PmapAssumption
    <3> QED BY <3>1, <3>2 DEF TodoOK, Inserting
  <2> QED BY <1>8, <2>1, <2>2 DEF SetupLow
<1>9. ASSUME NEW n \in Node, FreeNode(n) PROVE TodoOK'
  BY <1>4, <1>9 DEF FreeNode
<1>10. ASSUME NEW e \in Env, EnvSetupVm(e) PROVE TodoOK'
  <2>1. op.stage = "idle" /\ (op'.stage = "setup" \/ UNCHANGED todo)
    BY <1>10 DEF EnvSetupVm, Idle
  <2> QED BY <1>4, <2>1 DEF TodoOK, Inserting
<1>11. ASSUME NEW e \in Env, EnvFree(e) PROVE TodoOK'
  BY <1>4, <1>11 DEF EnvFree
<1>12. ASSUME NEW e \in Env, NEW va \in VA, PageOut(e, va) \/ SysMemUnmap(e, va) PROVE TodoOK'
  BY <1>4, <1>12 DEF PageOut, SysMemUnmap
<1>13. ASSUME NEW e \in Env, NEW va \in VA, NEW u \in BOOLEAN, SysMemAlloc(e, va, u) PROVE TodoOK'
  BY <1>4, <1>13 DEF SysMemAlloc
<1>14. ASSUME NEW src \in Env, NEW dst \in Env, NEW srcva \in VA, NEW dstva \in VA,
              NEW u \in BOOLEAN, SysMemMap(src, srcva, dst, dstva, u)
       PROVE  TodoOK'
  BY <1>4, <1>14 DEF SysMemMap
<1> QED BY <1>1, <1>5, <1>6, <1>7, <1>8, <1>9, <1>10, <1>11, <1>12, <1>13, <1>14 DEF Next

(* A page of the boot code keeps a reference. *)
LEMMA BootCounted ==
  ASSUME Inv, NEW p \in bootUsed
  PROVE  ref[p] > 0
<1>1. p \in Page /\ bootRef[p] \in Nat /\ bootRef[p] > 0 /\ lost[p] \in Nat
  BY PmapAssumption DEF Inv, TypeOK
<1>2. Cardinality(RefsIn(ent, p)) \in Nat
  BY RefsFinite
<1>3. ref[p] = Cardinality(RefsIn(ent, p)) + bootRef[p] + lost[p]
  BY <1>1 DEF Inv, RefExact, Refs, RefsIn
<1> QED BY <1>1, <1>2, <1>3

(* What a step that loses page p was doing. *)
LEMMA LosingStep ==
  ASSUME Inv, Rules, NEW p \in Page, ~ Lost(p), Lost(p)',
         p \in used' => p \in used \/ ref'[p] # 0
  PROVE  Inserting /\ op.page = p /\ ref[p] = 0
<1>1. p \in used' /\ ref'[p] = 0 /\ p \in used
  BY DEF Lost
<1>2. ref[p] \in Nat
  BY DEF Inv, TypeOK
<1>3. ref[p] = 0
  BY <1>1, <1>2 DEF Rules, Rule
<1> QED BY <1>1, <1>3 DEF Lost

(* An entry written: its page has a reference. *)
LEMMA EnterCounts ==
  ASSUME Inv, NEW e, NEW n, NEW p \in Page, Enter(e, n, p)
  PROVE  ref'[p] # 0
BY DEF Inv, TypeOK, Enter

(* A step that takes no page, or maps the page it takes. *)
Keeps == \A p \in Page : p \in used' => p \in used \/ ref'[p] # 0

(* page_alloc, then an entry. *)
LEMMA AllocKeeps ==
  ASSUME Inv, NEW e, NEW n, NEW p \in Page, page_alloc(p), Enter(e, n, p)
  PROVE  Keeps
BY EnterCounts DEF page_alloc, Keeps

(* page_decref takes no page. *)
LEMMA DecrefKeeps ==
  ASSUME NEW e, NEW n, page_decref(e, n)
  PROVE  Keeps
BY DEF page_decref, DropEntry, Keeps

(* No page is taken. *)
LEMMA SameKeeps ==
  ASSUME UNCHANGED used
  PROVE  Keeps
BY DEF Keeps

(* What a step of page_insert, or another step, may do to a page. *)
LossRule ==
  \A p \in Page : ~ Lost(p) /\ Lost(p)' =>
    op.stage \in {"walk2", "walk3"} /\ op'.stage = "idle"

(* A step outside page_insert loses no page. *)
LEMMA OutsideLoses ==
  ASSUME Inv, Rules, Keeps, ~ Inserting
  PROVE  LossRule
BY LosingStep DEF Keeps, LossRule

(* page_insert goes on with the same page. *)
LEMMA InsideLoses ==
  ASSUME Inv, Rules, Keeps, Inserting', op'.page = op.page
  PROVE  LossRule
<1> SUFFICES ASSUME NEW p \in Page, ~ Lost(p), Lost(p)' PROVE FALSE
  BY DEF LossRule
<1>1. op.page = p
  BY LosingStep DEF Keeps
<1> QED BY <1>1 DEF Lost

(* page_insert fails: it was a walk, and no low page's. *)
LEMMA FailLoses ==
  ASSUME Inv, TodoOK, Rules, Keeps, Done, op.stage \in {"walk2", "walk3"}
  PROVE  LossRule
<1> SUFFICES ASSUME NEW p \in Page, ~ Lost(p), Lost(p)' PROVE op'.stage = "idle"
  BY DEF LossRule
<1>1. Inserting /\ op.page = p /\ ref[p] = 0
  BY LosingStep DEF Keeps
<1>2. todo = {}
  BY <1>1, BootCounted DEF TodoOK
<1> QED BY <1>2 DEF Done, Idle

(* page_insert succeeds: its page has a reference. *)
LEMMA MappedLoses ==
  ASSUME Inv, Rules, Keeps, ref[op.page] # 0 \/ ref'[op.page] # 0
  PROVE  LossRule
<1> SUFFICES ASSUME NEW p \in Page, ~ Lost(p), Lost(p)' PROVE FALSE
  BY DEF LossRule
<1>1. op.page = p /\ ref[p] = 0
  BY LosingStep DEF Keeps
<1>2. ref'[p] = 0
  BY DEF Lost
<1> QED BY <1>1, <1>2

(* Every step keeps to the rule. *)
LEMMA NextLoses == Inv /\ TodoOK /\ Next => LossRule
<1> SUFFICES ASSUME Inv, TodoOK, Next PROVE LossRule
  OBVIOUS
<1>0. Rules /\ op \in Op
  BY NextRules DEF Inv, TypeOK
<1>1. CASE InsertStart
  <2>1. /\ op.stage = "insert" /\ Inserting
        /\ op.env \in Env /\ op.va \in Node /\ op.page \in Page
    BY <1>1 DEF InsertStart, Inv, OpOK, Inserting, Node
  <2>2. CASE ent[op.env][op.va] = op.page /\ UNCHANGED used
    <3>1. ref[op.page] # 0
      <4>1. op.page # NULL
        BY <2>1, PmapAssumption
      <4>2. ref[ent[op.env][op.va]] >= 1
        BY <2>1, <2>2, <4>1, MappedCounted DEF Inv
      <4> QED BY <2>2, <4>2
    <3> QED BY <1>0, <2>2, <3>1, MappedLoses, SameKeeps
  <2>3. CASE /\ op' = [op EXCEPT !.stage = "walk2"]
             /\ UNCHANGED used \/ page_decref(op.env, op.va)
    <3>1. Inserting' /\ op'.page = op.page
      BY <1>0, <2>3 DEF Op, Inserting
    <3> QED BY <1>0, <2>3, <3>1, InsideLoses, SameKeeps, DecrefKeeps
  <2> QED BY <1>1, <2>2, <2>3 DEF InsertStart
<1>2. CASE InsertWalk2 \/ InsertWalk3
  <2>1. op.stage \in {"walk2", "walk3"}
    BY <1>2 DEF InsertWalk2, InsertWalk3, Walk
  <2>2. Keeps
    BY <1>2, AllocKeeps, SameKeeps DEF InsertWalk2, InsertWalk3, Walk, AllocFails
  <2>3. ASSUME NEW s \in {"walk3", "install"}, op' = [op EXCEPT !.stage = s]
        PROVE  LossRule
    <3>1. Inserting' /\ op'.page = op.page
      BY <1>0, <2>3 DEF Op, Inserting
    <3> QED BY <1>0, <2>2, <3>1, InsideLoses
  <2>4. ASSUME Done PROVE LossRule
    BY <1>0, <2>1, <2>2, <2>4, FailLoses
  <2> QED BY <1>2, <2>3, <2>4 DEF InsertWalk2, InsertWalk3, Walk
<1>3. CASE Install
  <2>1. op.page \in Page /\ UNCHANGED used /\ Enter(op.env, op.va, op.page)
    BY <1>3 DEF Install, Inv, OpOK, Inserting
  <2>2. ref'[op.page] # 0
    BY <2>1, EnterCounts
  <2> QED BY <1>0, <2>1, <2>2, MappedLoses, SameKeeps
<1>4. CASE Halted \/ OutWalk2 \/ OutWalk3 \/ OutLeaf \/ SetupLow
  <2>1. ~ Inserting
    BY <1>4 DEF Halted, OutWalk2, OutWalk3, OutLeaf, SetupLow, Walk, Inserting
  <2>2. Keeps
    BY <1>4, AllocKeeps, SameKeeps
    DEF Halted, OutWalk2, OutWalk3, OutLeaf, SetupLow, Walk, AllocFails, vars
  <2> QED BY <1>0, <2>1, <2>2, OutsideLoses
<1>5. ASSUME NEW n \in Node, FreeNode(n) PROVE LossRule
  <2>1. ~ Inserting /\ Keeps
    BY <1>5, DecrefKeeps DEF FreeNode, Inserting
  <2> QED BY <1>0, <2>1, OutsideLoses
<1>6. ASSUME NEW e \in Env, EnvSetupVm(e) \/ EnvFree(e) PROVE LossRule
  <2>1. ~ Inserting /\ Keeps
    BY <1>6, AllocKeeps, SameKeeps DEF EnvSetupVm, EnvFree, AllocFails, Inserting
  <2> QED BY <1>0, <2>1, OutsideLoses
<1>7. ASSUME NEW e \in Env, NEW va \in VA, PageOut(e, va) \/ SysMemUnmap(e, va)
      PROVE  LossRule
  <2>1. ~ Inserting /\ Keeps
    BY <1>7, DecrefKeeps, SameKeeps DEF PageOut, SysMemUnmap, Inserting
  <2> QED BY <1>0, <2>1, OutsideLoses
<1>8. ASSUME NEW e \in Env, NEW va \in VA, NEW u \in BOOLEAN, SysMemAlloc(e, va, u)
      PROVE  LossRule
  <2>1. PICK q \in Page :
          /\ page_alloc(q)
          /\ op' = [stage |-> "insert", env |-> e, va |-> va, page |-> q, user |-> u]
    BY <1>8 DEF SysMemAlloc
  <2>2. op.stage = "idle" /\ ~ Inserting
    BY <1>8 DEF SysMemAlloc, Inserting
  <2>3. Inserting' /\ op'.page = q /\ used' = used \union {q}
    BY <2>1 DEF Inserting, page_alloc
  <2>4. SUFFICES ASSUME NEW p \in Page, ~ Lost(p), Lost(p)' PROVE FALSE
    BY DEF LossRule
  <2>5. p # q
    BY <2>3, <2>4 DEF Lost
  <2>6. p \in used' => p \in used
    BY <2>3, <2>5
  <2> QED BY <1>0, <2>2, <2>4, <2>6, LosingStep
<1>9. ASSUME NEW src \in Env, NEW dst \in Env, NEW srcva \in VA, NEW dstva \in VA,
             NEW u \in BOOLEAN, SysMemMap(src, srcva, dst, dstva, u)
      PROVE  LossRule
  <2>1. ~ Inserting /\ Keeps
    BY <1>9, SameKeeps DEF SysMemMap, Inserting
  <2> QED BY <1>0, <2>1, OutsideLoses
<1> QED BY <1>1, <1>2, <1>3, <1>4, <1>5, <1>6, <1>7, <1>8, <1>9 DEF Next

(***************************************************************************)
(* A page stays marked with no reference to it only where page_insert runs *)
(* out of memory for its tables, after sys_mem_alloc took the page; the    *)
(* low pages of env_setup_vm, whose failures are ignored, are kept by the  *)
(* boot code's reference.                                                  *)
(***************************************************************************)
THEOREM PagesLostOnlyWithoutMemory == Spec => LostOnlyWithoutMemory
<1>1. Init => TodoOK
  BY DEF Init, Idle, TodoOK, Inserting
<1>2. Inv /\ TodoOK /\ [Next]_vars => [LossRule]_vars
  BY NextLoses
<1>3. [LossRule]_vars <=> [\A p \in Page : ~ Lost(p) /\ Lost(p)' =>
        op.stage \in {"walk2", "walk3"} /\ op'.stage = "idle"]_vars
  BY DEF LossRule
<1> QED BY <1>1, <1>2, <1>3, NextTodo, Invariant, PTL DEF Spec, LostOnlyWithoutMemory
=============================================================================
