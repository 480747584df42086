----------------------------- MODULE PipeProofs -----------------------------
(***************************************************************************)
(* Proofs about Pipe, for every number of processes and slots, every ring  *)
(* size and every initial distribution of the descriptors.                 *)
(*                                                                         *)
(*   Accounts    the pages of every slot, also in the middle of a close, a *)
(*               dup and a fork, as long as no dup has left a descriptor   *)
(*               without its data page; from it, RefsAgree.                *)
(*   Verdicts    what the answer of _pipeisclosed rests on, when no fork   *)
(*               is under way; from it and Accounts, ClosedUnlessTorn.     *)
(*   Ring        the ring between one reader and one writer; it implies    *)
(*               Fifo and the bounds of TypeOK.                            *)
(***************************************************************************)
EXTENDS Pipe, FiniteSetTheorems, TLAPS

-----------------------------------------------------------------------------
(* Invariants *)

(* The types that hold for any number of readers and writers. *)
Types ==
  /\ fdm \in [Proc -> [Slot -> End \union {NULL}]]
  /\ data \in [Proc -> SUBSET Slot]
  /\ torn \in BOOLEAN
  /\ p_rpos \in Nat /\ p_wpos \in Nat
  /\ p_buf \in [0 .. BY2PIPE - 1 -> Nat]
  /\ pc \in [Proc -> Pc]
  /\ loc \in [Proc -> Local]
  /\ cur \in Proc

(* A process in no call, or in one that maps nothing. *)
Calm == {"run", "rtest", "rget", "rinc", "wtest", "wput", "winc", "fdref", "pref", "closed"}

(* The pages of slot s of p that a close or a dup is working on. *)
Moving(p, s) == pc[p] \in {"close", "dupdata", "dupfd"} /\ s = loc[p].new

(* Slot s of p has both its pages or none. *)
Paired(p, s) == torn = FALSE => (fdm[p][s] # NULL <=> s \in data[p])

SlotsOK(p) ==
  /\ pc[p] \in {"none", "dead"} => \A s \in Slot : fdm[p][s] = NULL /\ s \notin data[p]
  /\ pc[p] # "new" => \A s \in Slot : Moving(p, s) \/ Paired(p, s)
  /\ pc[p] \in {"close", "dupdata", "dupfd"} => fdm[p][loc[p].new] = NULL
  /\ pc[p] = "dupdata" /\ torn = FALSE => loc[p].new \notin data[p]
  /\ pc[p] = "dupfd" /\ torn = FALSE /\ loc[p].new \in data[p] =>
       loc[p].slot \in data[p] \ {loc[p].new}

(* What the parent has given its child so far. *)
Given(p, c) ==
  /\ \A s \in Slot : fdm[c][s] = IF s < loc[p].k THEN fdm[p][s] ELSE NULL
  /\ \A s \in Slot : s \in data[c] <=> NSLOT + s < loc[p].k /\ s \in data[p]

ForksOK ==
  /\ \A p \in Proc : pc[p] = "fork" =>
       loc[p].child \in Proc /\ pc[loc[p].child] = "new" /\ Given(p, loc[p].child)
  /\ \A p, q \in Proc : pc[p] = "fork" /\ pc[q] = "fork" /\ loc[p].child = loc[q].child => p = q
  /\ \A c \in Proc : pc[c] = "new" => \E p \in Proc : pc[p] = "fork" /\ loc[p].child = c

Accounts == Types /\ (\A p \in Proc : SlotsOK(p)) /\ ForksOK

(* Nobody has the end. *)
Nobody(end) == \A p \in Proc, s \in Slot : fdm[p][s] # end

VerdictOK(p) ==
  /\ pc[p] \in Calm \ {"run"} => fdm[p][loc[p].slot] \in End
  /\ pc[p] = "pref" /\ loc[p].fresh /\ cur = p => loc[p].fdref = Refs(fdm[p][loc[p].slot])
  /\ pc[p] = "closed" => Nobody(Other(fdm[p][loc[p].slot]))

Verdicts == \A p \in Proc : VerdictOK(p) /\ pc[p] \notin {"fork", "new"}

(* The ring, and what the reader and the writer know of it. *)
RingAt(p) ==
  /\ loc[p].op = "read" => p \in Reader
  /\ loc[p].op = "write" => p \in Writer /\ loc[p].i < loc[p].n
                            /\ p_wpos + (loc[p].n - loc[p].i) <= MaxByte
  /\ pc[p] \in {"rtest", "rget", "rinc"} => loc[p].op = "read"
  /\ pc[p] \in {"wtest", "wput", "winc"} => loc[p].op = "write"
  /\ pc[p] \in {"rget", "rinc"} => p_rpos < p_wpos
  /\ pc[p] = "rinc" => loc[p].byte = p_rpos + 1
  /\ pc[p] \in {"wput", "winc"} => p_wpos - p_rpos < BY2PIPE
  /\ pc[p] = "winc" => p_buf[p_wpos % BY2PIPE] = p_wpos + 1
  /\ pc[p] = "fork" => loc[p].op = "fork"

Held ==
  /\ p_rpos <= p_wpos /\ p_wpos - p_rpos <= BY2PIPE /\ p_wpos <= MaxByte
  /\ p_buf \in [0 .. BY2PIPE - 1 -> 0 .. MaxByte]
  /\ \A x \in p_rpos .. p_wpos - 1 : p_buf[x % BY2PIPE] = x + 1

Ring == Types /\ Held /\ \A p \in Proc : RingAt(p)

-----------------------------------------------------------------------------
(* Helpers *)

(* A position modulo the size of the ring is an index of the ring. *)
LEMMA ModRange ==
  ASSUME NEW b \in Nat \ {0}, NEW x \in Nat
  PROVE  x % b \in 0 .. b - 1
OBVIOUS

(* Positions less than the size of the ring apart have different indices. *)
LEMMA ModApart ==
  ASSUME NEW b \in Nat \ {0}, NEW x \in Nat, NEW y \in Nat, x < y, y - x < b
  PROVE  x % b # y % b
<1> SUFFICES ASSUME x % b = y % b PROVE FALSE
  OBVIOUS
<1>1. x = b * (x \div b) + (x % b) /\ x \div b \in Int
  OBVIOUS
<1>2. y = b * (y \div b) + (y % b) /\ y \div b \in Int
  OBVIOUS
<1> DEFINE d == (y \div b) - (x \div b)
<1>3. y - x = b * d /\ d \in Int
  BY <1>1, <1>2
<1> HIDE DEF d
<1>4. d <= 0 => b * d <= 0
  BY <1>3
<1>5. d >= 1 => b * d >= b
  BY <1>3
<1> QED BY <1>3, <1>4, <1>5

(* Counting page table entries gives a number. *)
LEMMA Counting ==
  /\ IsFiniteSet(Proc \X Slot)
  /\ \A end : Refs(end) \in Nat /\ IsFiniteSet({x \in Proc \X Slot : fdm[x[1]][x[2]] = end})
  /\ DataRefs \in Nat /\ IsFiniteSet({x \in Proc \X Slot : x[2] \in data[x[1]]})
<1>1. IsFiniteSet(Slot)
  BY FS_Interval, PipeAssumption DEF Slot
<1>2. IsFiniteSet(Proc \X Slot)
  BY <1>1, FS_Product, PipeAssumption
<1>3. \A S : S \subseteq Proc \X Slot => IsFiniteSet(S) /\ Cardinality(S) \in Nat
  BY <1>2, FS_Subset, FS_CardinalityType
<1>4. \A end : {x \in Proc \X Slot : fdm[x[1]][x[2]] = end} \subseteq Proc \X Slot
  OBVIOUS
<1>5. {x \in Proc \X Slot : x[2] \in data[x[1]]} \subseteq Proc \X Slot
  OBVIOUS
<1> QED BY <1>2, <1>3, <1>4, <1>5 DEF Refs, DataRefs

(* The locals of a call that begins. *)
LEMMA NoCallFacts ==
  /\ NoCall \in Local
  /\ NoCall.op = "none"
  /\ \A s \in Slot : [NoCall EXCEPT !.op = "close", !.new = s] \in Local
  /\ \A s \in Slot : [NoCall EXCEPT !.op = "test", !.slot = s] \in Local
  /\ \A s, t \in Slot : [NoCall EXCEPT !.op = "dup", !.slot = s, !.new = t] \in Local
  /\ \A s \in Slot, n \in Nat : [NoCall EXCEPT !.op = "read", !.slot = s, !.n = n] \in Local
  /\ \A s \in Slot, n \in Nat : [NoCall EXCEPT !.op = "write", !.slot = s, !.n = n] \in Local
  /\ \A c \in Proc : [NoCall EXCEPT !.op = "fork", !.child = c] \in Local
<1> 0 \in Slot
  BY PipeAssumption DEF Slot
<1> QED BY DEF NoCall, Local

(* The locals of a call under way, changed. *)
LEMMA LocalUpdates ==
  ASSUME NEW l \in Local, NEW n \in Nat, NEW b \in BOOLEAN
  PROVE  /\ [l EXCEPT !.fdref = n, !.fresh = b] \in Local
         /\ [l EXCEPT !.fresh = b] \in Local
         /\ [l EXCEPT !.byte = n] \in Local
         /\ [l EXCEPT !.i = @ + 1, !.byte = 0] \in Local
         /\ [l EXCEPT !.k = n] \in Local
<1>1. l.i + 1 \in Nat
  BY DEF Local
<1>2. [l EXCEPT !.i = @ + 1, !.byte = 0] \in Local
  BY <1>1 DEF Local
<1>3. [l EXCEPT !.fdref = n, !.fresh = b] \in Local
  BY DEF Local
<1>4. [l EXCEPT !.fresh = b] \in Local
  BY DEF Local
<1>5. [l EXCEPT !.byte = n] \in Local
  BY DEF Local
<1>6. [l EXCEPT !.k = n] \in Local
  BY DEF Local
<1> QED BY <1>2, <1>3, <1>4, <1>5, <1>6

(* A process begins a call. *)
LEMMA EnterFacts ==
  ASSUME Types, NEW p \in Proc, NEW l \in Pc, NEW call \in Local, Enter(p, l, call)
  PROVE  /\ pc' \in [Proc -> Pc] /\ loc' \in [Proc -> Local]
         /\ pc'[p] = l /\ loc'[p] = call
         /\ \A q \in Proc : q # p => pc'[q] = pc[q] /\ loc'[q] = loc[q]
BY DEF Enter, Types

(* A call returns. *)
LEMMA ReturnFacts ==
  ASSUME Types, NEW p \in Proc, Return(p)
  PROVE  /\ pc' \in [Proc -> Pc] /\ loc' \in [Proc -> Local]
         /\ pc'[p] = "run" /\ loc'[p] = NoCall
         /\ \A q \in Proc : q # p => pc'[q] = pc[q] /\ loc'[q] = loc[q]
BY EnterFacts, NoCallFacts DEF Return, Pc

(* A call goes on, its locals as they are. *)
LEMMA GotoFacts ==
  ASSUME Types, NEW p \in Proc, NEW l \in Pc, Goto(p, l)
  PROVE  /\ pc' \in [Proc -> Pc] /\ loc' \in [Proc -> Local]
         /\ pc'[p] = l /\ loc' = loc
         /\ \A q \in Proc : q # p => pc'[q] = pc[q]
BY DEF Goto, Types

(* The fields of these records. *)
LEMMA CallFields ==
  ASSUME NEW s, NEW t, NEW n, NEW c
  PROVE  /\ LET l == [NoCall EXCEPT !.op = "close", !.new = s]
            IN  l.op = "close" /\ l.new = s
         /\ LET l == [NoCall EXCEPT !.op = "test", !.slot = s]
            IN  l.op = "test" /\ l.slot = s
         /\ LET l == [NoCall EXCEPT !.op = "dup", !.slot = s, !.new = t]
            IN  l.op = "dup" /\ l.slot = s /\ l.new = t
         /\ LET l == [NoCall EXCEPT !.op = "read", !.slot = s, !.n = n]
            IN  l.op = "read" /\ l.slot = s
         /\ LET l == [NoCall EXCEPT !.op = "write", !.slot = s, !.n = n]
            IN  l.op = "write" /\ l.slot = s /\ l.n = n /\ l.i = 0
         /\ LET l == [NoCall EXCEPT !.op = "fork", !.child = c]
            IN  l.op = "fork" /\ l.child = c /\ l.k = 0
BY DEF NoCall

(* The locals when some of them are assigned. *)
LEMMA UpdateFields ==
  ASSUME NEW r \in Local, NEW n, NEW b
  PROVE  /\ LET l == [r EXCEPT !.fdref = n, !.fresh = b]
            IN  l.op = r.op /\ l.slot = r.slot /\ l.i = r.i /\ l.n = r.n /\ l.fdref = n /\ l.fresh = b
         /\ LET l == [r EXCEPT !.fresh = b]
            IN  /\ l.op = r.op /\ l.slot = r.slot /\ l.new = r.new /\ l.i = r.i /\ l.n = r.n
                /\ l.byte = r.byte /\ l.fdref = r.fdref /\ l.fresh = b
                /\ l.child = r.child /\ l.k = r.k
         /\ LET l == [r EXCEPT !.byte = n]
            IN  l.op = r.op /\ l.slot = r.slot /\ l.i = r.i /\ l.n = r.n /\ l.byte = n
         /\ LET l == [r EXCEPT !.i = @ + 1, !.byte = 0]
            IN  l.op = r.op /\ l.slot = r.slot /\ l.i = r.i + 1 /\ l.n = r.n
         /\ LET l == [r EXCEPT !.k = n]
            IN  l.op = r.op /\ l.child = r.child /\ l.k = n
BY DEF Local

-----------------------------------------------------------------------------
(* Steps that map nothing *)

(* The other processes are left alone. *)
Framed(p) == \A q \in Proc : q # p => pc'[q] = pc[q] /\ loc'[q] = loc[q]

(* Process p goes on in, or begins or ends, a call that maps nothing. *)
Calmly(p) ==
  /\ fdm' = fdm /\ data' = data /\ torn' = torn /\ cur' = cur /\ cur = p
  /\ pc[p] \in Calm /\ pc'[p] \in Calm
  /\ Framed(p)
  /\ pc'[p] # "run" => \/ fdm[p][loc'[p].slot] \in End
                       \/ pc[p] # "run" /\ loc'[p].slot = loc[p].slot

(* pipeisclosed begins. *)
LEMMA PipeIsClosedStep ==
  ASSUME Types, NEW p \in Proc, NEW s \in Slot, PipeIsClosed(p, s)
  PROVE  /\ Types' /\ Calmly(p) /\ bufVars' = bufVars
         /\ pc'[p] = "fdref" /\ loc'[p].op = "test"
<1> DEFINE call == [NoCall EXCEPT !.op = "test", !.slot = s]
<1>1. /\ cur = p /\ pc[p] = "run" /\ fdm[p][s] # NULL /\ Enter(p, "fdref", call)
      /\ UNCHANGED <<fdVars, bufVars, cur>>
  BY DEF PipeIsClosed, At
<1>2. call \in Local /\ call.slot = s /\ call.op = "test"
  BY NoCallFacts, CallFields
<1> HIDE DEF call
<1>3. "fdref" \in Pc
  BY DEF Pc
<1>4. /\ pc' \in [Proc -> Pc] /\ loc' \in [Proc -> Local] /\ pc'[p] = "fdref" /\ loc'[p] = call
      /\ Framed(p)
  BY <1>1, <1>2, <1>3, EnterFacts DEF Framed
<1>5. fdm[p][s] \in End
  BY <1>1 DEF Types
<1>6. Types'
  BY <1>1, <1>4 DEF Types, fdVars, bufVars
<1> QED BY <1>1, <1>2, <1>4, <1>5, <1>6 DEF Calmly, Calm, fdVars

(* piperead begins. *)
LEMMA ReadStep ==
  ASSUME Types, NEW p \in Proc, NEW s \in Slot, NEW n \in Chunk, Read(p, s, n)
  PROVE  /\ Types' /\ Calmly(p) /\ bufVars' = bufVars
         /\ pc'[p] = "rtest" /\ loc'[p].op = "read" /\ p \in Reader
<1>0. n \in Nat
  BY PipeAssumption
<1> DEFINE call == [NoCall EXCEPT !.op = "read", !.slot = s, !.n = n]
<1>1. /\ cur = p /\ pc[p] = "run" /\ fdm[p][s] = "r" /\ Enter(p, "rtest", call) /\ p \in Reader
      /\ UNCHANGED <<fdVars, bufVars, cur>>
  BY DEF Read, At
<1>2. call \in Local /\ call.slot = s /\ call.op = "read"
  <2>1. call \in Local
    BY <1>0, NoCallFacts
  <2> QED BY <2>1, CallFields
<1> HIDE DEF call
<1>3. "rtest" \in Pc /\ "r" \in End
  BY DEF Pc, End
<1>4. /\ pc' \in [Proc -> Pc] /\ loc' \in [Proc -> Local] /\ pc'[p] = "rtest" /\ loc'[p] = call
      /\ Framed(p)
  BY <1>1, <1>2, <1>3, EnterFacts DEF Framed
<1>6. Types'
  BY <1>1, <1>4 DEF Types, fdVars, bufVars
<1> QED BY <1>1, <1>2, <1>3, <1>4, <1>6 DEF Calmly, Calm, fdVars

(* pipewrite begins. *)
LEMMA WriteStep ==
  ASSUME Types, NEW p \in Proc, NEW s \in Slot, NEW n \in Chunk, Write(p, s, n)
  PROVE  /\ Types' /\ Calmly(p) /\ bufVars' = bufVars
         /\ pc'[p] = "wtest" /\ loc'[p].op = "write" /\ p \in Writer
         /\ loc'[p].i = 0 /\ loc'[p].n = n /\ p_wpos + n <= MaxByte
<1>0. n \in Nat
  BY PipeAssumption
<1> DEFINE call == [NoCall EXCEPT !.op = "write", !.slot = s, !.n = n]
<1>1. /\ cur = p /\ pc[p] = "run" /\ fdm[p][s] = "w" /\ Enter(p, "wtest", call) /\ p \in Writer
      /\ p_wpos + n <= MaxByte
      /\ UNCHANGED <<fdVars, bufVars, cur>>
  BY DEF Write, At
<1>2. call \in Local /\ call.slot = s /\ call.op = "write" /\ call.n = n /\ call.i = 0
  <2>1. call \in Local
    BY <1>0, NoCallFacts
  <2> QED BY <2>1, CallFields
<1> HIDE DEF call
<1>3. "wtest" \in Pc /\ "w" \in End
  BY DEF Pc, End
<1>4. /\ pc' \in [Proc -> Pc] /\ loc' \in [Proc -> Local] /\ pc'[p] = "wtest" /\ loc'[p] = call
      /\ Framed(p)
  BY <1>1, <1>2, <1>3, EnterFacts DEF Framed
<1>6. Types'
  BY <1>1, <1>4 DEF Types, fdVars, bufVars
<1> QED BY <1>1, <1>2, <1>3, <1>4, <1>6 DEF Calmly, Calm, fdVars

(* _pipeisclosed reads env_runs and the count of the descriptor. *)
LEMMA ReadFdrefStep ==
  ASSUME Types, NEW p \in Proc, ReadFdref(p)
  PROVE  /\ Types' /\ Calmly(p) /\ bufVars' = bufVars
         /\ pc'[p] = "pref" /\ loc'[p].op = loc[p].op /\ loc'[p].slot = loc[p].slot
         /\ loc'[p].i = loc[p].i /\ loc'[p].n = loc[p].n
         /\ loc'[p].fdref = Refs(fdm[p][loc[p].slot]) /\ loc'[p].fresh
<1> DEFINE n == Refs(fdm[p][loc[p].slot])
           call == [loc[p] EXCEPT !.fdref = n, !.fresh = TRUE]
<1>1. /\ cur = p /\ pc[p] = "fdref" /\ Enter(p, "pref", call)
      /\ UNCHANGED <<fdVars, bufVars, cur>>
  BY DEF ReadFdref, At
<1>2. n \in Nat /\ loc[p] \in Local
  BY Counting DEF Types
<1> HIDE DEF n
<1>3. /\ call \in Local /\ call.op = loc[p].op /\ call.slot = loc[p].slot
      /\ call.i = loc[p].i /\ call.n = loc[p].n /\ call.fdref = n /\ call.fresh
  <2>1. call \in Local
    BY <1>2, LocalUpdates
  <2> QED BY <2>1, <1>2, UpdateFields
<1> HIDE DEF call
<1>4. "pref" \in Pc
  BY DEF Pc
<1>5. /\ pc' \in [Proc -> Pc] /\ loc' \in [Proc -> Local] /\ pc'[p] = "pref" /\ loc'[p] = call
      /\ Framed(p)
  BY <1>1, <1>3, <1>4, EnterFacts DEF Framed
<1>6. Types'
  BY <1>1, <1>5 DEF Types, fdVars, bufVars
<1> QED BY <1>1, <1>3, <1>5, <1>6 DEF Calmly, Calm, fdVars, n

(* _pipeisclosed reads the count of the data page and env_runs again. *)
LEMMA ReadPrefStep ==
  ASSUME Types, NEW p \in Proc, ReadPref(p)
  PROVE  /\ Types' /\ Calmly(p) /\ bufVars' = bufVars /\ pc[p] = "pref"
         /\ \/ pc'[p] = "run" /\ loc'[p] = NoCall
            \/ /\ loc'[p].op = loc[p].op /\ loc'[p].slot = loc[p].slot
               /\ loc'[p].i = loc[p].i /\ loc'[p].n = loc[p].n
               /\ \/ pc'[p] = "fdref"
                  \/ pc'[p] = "closed" /\ loc[p].fresh /\ loc[p].fdref = Pref(p, loc[p].slot)
                  \/ pc'[p] = "rtest" /\ loc[p].op = "read"
                  \/ pc'[p] = "wtest" /\ loc[p].op = "write"
<1> DEFINE call == [loc[p] EXCEPT !.fdref = 0, !.fresh = FALSE]
<1>1. /\ cur = p /\ pc[p] = "pref"
      /\ \/ Enter(p, "fdref", call)
         \/ loc[p].fresh /\ loc[p].fdref = Pref(p, loc[p].slot) /\ Enter(p, "closed", call)
         \/ call.op = "read" /\ Enter(p, "rtest", call)
         \/ call.op = "write" /\ Enter(p, "wtest", call)
         \/ Return(p)
      /\ UNCHANGED <<fdVars, bufVars, cur>>
  BY DEF ReadPref, At, Unchanged
<1>2. loc[p] \in Local
  BY DEF Types
<1>3. /\ call \in Local /\ call.op = loc[p].op /\ call.slot = loc[p].slot
      /\ call.i = loc[p].i /\ call.n = loc[p].n
  <2>1. call \in Local
    BY <1>2, LocalUpdates
  <2> QED BY <2>1, <1>2, UpdateFields
<1> HIDE DEF call
<1>4. {"fdref", "closed", "rtest", "wtest", "run"} \subseteq Pc
  BY DEF Pc
<1>5. /\ pc' \in [Proc -> Pc] /\ loc' \in [Proc -> Local] /\ Framed(p)
      /\ \/ pc'[p] = "run" /\ loc'[p] = NoCall
         \/ /\ loc'[p] = call
            /\ \/ pc'[p] = "fdref"
               \/ pc'[p] = "closed" /\ loc[p].fresh /\ loc[p].fdref = Pref(p, loc[p].slot)
               \/ pc'[p] = "rtest" /\ call.op = "read"
               \/ pc'[p] = "wtest" /\ call.op = "write"
  <2>1. CASE Enter(p, "fdref", call)
    BY <2>1, <1>3, <1>4, EnterFacts DEF Framed
  <2>2. CASE loc[p].fresh /\ loc[p].fdref = Pref(p, loc[p].slot) /\ Enter(p, "closed", call)
    BY <2>2, <1>3, <1>4, EnterFacts DEF Framed
  <2>3. CASE call.op = "read" /\ Enter(p, "rtest", call)
    BY <2>3, <1>3, <1>4, EnterFacts DEF Framed
  <2>4. CASE call.op = "write" /\ Enter(p, "wtest", call)
    BY <2>4, <1>3, <1>4, EnterFacts DEF Framed
  <2>5. CASE Return(p)
    BY <2>5, ReturnFacts DEF Framed
  <2> QED BY <1>1, <2>1, <2>2, <2>3, <2>4, <2>5
<1>6. Types'
  BY <1>1, <1>5 DEF Types, fdVars, bufVars
<1> QED BY <1>1, <1>3, <1>5, <1>6 DEF Calmly, Calm, fdVars

(* The answer closed is returned. *)
LEMMA ReturnClosedStep ==
  ASSUME Types, NEW p \in Proc, ReturnClosed(p)
  PROVE  Types' /\ Calmly(p) /\ bufVars' = bufVars /\ pc'[p] = "run" /\ loc'[p] = NoCall
<1>1. cur = p /\ pc[p] = "closed" /\ Return(p) /\ UNCHANGED <<fdVars, bufVars, cur>>
  BY DEF ReturnClosed, At
<1>2. /\ pc' \in [Proc -> Pc] /\ loc' \in [Proc -> Local] /\ pc'[p] = "run" /\ loc'[p] = NoCall
      /\ Framed(p)
  BY <1>1, ReturnFacts DEF Framed
<1>3. Types'
  BY <1>1, <1>2 DEF Types, fdVars, bufVars
<1> QED BY <1>1, <1>2, <1>3 DEF Calmly, Calm, fdVars

(* piperead looks whether the ring is empty. *)
LEMMA RTestStep ==
  ASSUME Types, NEW p \in Proc, RTest(p)
  PROVE  /\ Types' /\ Calmly(p) /\ bufVars' = bufVars /\ pc[p] = "rtest"
         /\ \/ pc'[p] = "run" /\ loc'[p] = NoCall
            \/ loc' = loc /\ (pc'[p] = "fdref" \/ (pc'[p] = "rget" /\ p_rpos # p_wpos))
<1>1. /\ cur = p /\ pc[p] = "rtest"
      /\ \/ p_rpos # p_wpos /\ Goto(p, "rget")
         \/ Return(p)
         \/ Goto(p, "fdref")
      /\ UNCHANGED <<fdVars, bufVars, cur>>
  BY DEF RTest, At
<1>2. "fdref" \in Pc /\ "rget" \in Pc
  BY DEF Pc
<1>3. /\ pc' \in [Proc -> Pc] /\ loc' \in [Proc -> Local] /\ Framed(p)
      /\ \/ pc'[p] = "run" /\ loc'[p] = NoCall
         \/ loc' = loc /\ (pc'[p] = "fdref" \/ (pc'[p] = "rget" /\ p_rpos # p_wpos))
  <2>1. CASE p_rpos # p_wpos /\ Goto(p, "rget")
    BY <2>1, <1>2, GotoFacts DEF Framed
  <2>2. CASE Goto(p, "fdref")
    BY <2>2, <1>2, GotoFacts DEF Framed
  <2>3. CASE Return(p)
    BY <2>3, ReturnFacts DEF Framed
  <2> QED BY <1>1, <2>1, <2>2, <2>3
<1>4. Types'
  BY <1>1, <1>3 DEF Types, fdVars, bufVars
<1> QED BY <1>1, <1>3, <1>4 DEF Calmly, Calm, fdVars

(* piperead takes a byte. *)
LEMMA RGetStep ==
  ASSUME Types, NEW p \in Proc, RGet(p)
  PROVE  /\ Types' /\ Calmly(p) /\ bufVars' = bufVars /\ pc[p] = "rget" /\ pc'[p] = "rinc"
         /\ loc'[p].op = loc[p].op /\ loc'[p].byte = p_buf[p_rpos % BY2PIPE]
<1> DEFINE n == p_buf[p_rpos % BY2PIPE]
           call == [loc[p] EXCEPT !.byte = n]
<1>1. cur = p /\ pc[p] = "rget" /\ Enter(p, "rinc", call) /\ UNCHANGED <<fdVars, bufVars, cur>>
  BY DEF RGet, At
<1>2. n \in Nat /\ loc[p] \in Local
  <2>1. p_rpos % BY2PIPE \in 0 .. BY2PIPE - 1
    BY ModRange, PipeAssumption DEF Types
  <2> QED BY <2>1 DEF Types
<1> HIDE DEF n
<1>3. call \in Local /\ call.op = loc[p].op /\ call.slot = loc[p].slot /\ call.byte = n
  <2>1. call \in Local
    BY <1>2, LocalUpdates
  <2> QED BY <2>1, <1>2, UpdateFields
<1> HIDE DEF call
<1>4. "rinc" \in Pc
  BY DEF Pc
<1>5. /\ pc' \in [Proc -> Pc] /\ loc' \in [Proc -> Local] /\ pc'[p] = "rinc" /\ loc'[p] = call
      /\ Framed(p)
  BY <1>1, <1>3, <1>4, EnterFacts DEF Framed
<1>6. Types'
  BY <1>1, <1>5 DEF Types, fdVars, bufVars
<1> QED BY <1>1, <1>3, <1>5, <1>6 DEF Calmly, Calm, fdVars, n

(* The end of a turn of the loop, of a read and of a write. *)
LEMMA NextByteFacts ==
  ASSUME Types, NEW p \in Proc, NEW l \in Pc, NextByte(p, l)
  PROVE  /\ pc' \in [Proc -> Pc] /\ loc' \in [Proc -> Local] /\ Framed(p)
         /\ \/ pc'[p] = "run" /\ loc'[p] = NoCall
            \/ /\ pc'[p] = l /\ loc'[p].op = loc[p].op /\ loc'[p].slot = loc[p].slot
               /\ loc[p].i + 1 # loc[p].n /\ loc'[p].i = loc[p].i + 1 /\ loc'[p].n = loc[p].n
<1> DEFINE call == [loc[p] EXCEPT !.i = @ + 1, !.byte = 0]
<1>1. Return(p) \/ (loc[p].i + 1 # loc[p].n /\ Enter(p, l, call))
  BY DEF NextByte
<1>2. loc[p] \in Local
  BY DEF Types
<1>3. /\ call \in Local /\ call.op = loc[p].op /\ call.slot = loc[p].slot
      /\ call.i = loc[p].i + 1 /\ call.n = loc[p].n
  <2>1. call \in Local
    BY <1>2, LocalUpdates
  <2> QED BY <2>1, <1>2, UpdateFields
<1> HIDE DEF call
<1>4. CASE Return(p)
  BY <1>4, ReturnFacts DEF Framed
<1>5. CASE loc[p].i + 1 # loc[p].n /\ Enter(p, l, call)
  <2>1. /\ pc' \in [Proc -> Pc] /\ loc' \in [Proc -> Local] /\ pc'[p] = l /\ loc'[p] = call
        /\ Framed(p)
    BY <1>5, <1>3, EnterFacts DEF Framed
  <2> QED BY <2>1, <1>3, <1>5
<1> QED BY <1>1, <1>4, <1>5

(* piperead moves its position. *)
LEMMA RIncStep ==
  ASSUME Types, NEW p \in Proc, RInc(p)
  PROVE  /\ Types' /\ Calmly(p) /\ p_wpos' = p_wpos /\ p_buf' = p_buf /\ p_rpos' = p_rpos + 1
         /\ pc[p] = "rinc"
         /\ \/ pc'[p] = "run" /\ loc'[p] = NoCall
            \/ pc'[p] = "rtest" /\ loc'[p].op = loc[p].op
<1>1. /\ cur = p /\ pc[p] = "rinc" /\ NextByte(p, "rtest") /\ p_rpos' = p_rpos + 1
      /\ UNCHANGED <<fdVars, p_wpos, p_buf, cur>>
  BY DEF RInc, At
<1>2. "rtest" \in Pc
  BY DEF Pc
<1>3. /\ pc' \in [Proc -> Pc] /\ loc' \in [Proc -> Local] /\ Framed(p)
      /\ \/ pc'[p] = "run" /\ loc'[p] = NoCall
         \/ pc'[p] = "rtest" /\ loc'[p].op = loc[p].op /\ loc'[p].slot = loc[p].slot
  BY <1>1, <1>2, NextByteFacts
<1>4. Types'
  BY <1>1, <1>3 DEF Types, fdVars
<1> QED BY <1>1, <1>3, <1>4 DEF Calmly, Calm, fdVars

(* pipewrite looks whether the ring is full. *)
LEMMA WTestStep ==
  ASSUME Types, NEW p \in Proc, WTest(p)
  PROVE  /\ Types' /\ Calmly(p) /\ bufVars' = bufVars /\ pc[p] = "wtest" /\ loc' = loc
         /\ \/ pc'[p] = "fdref"
            \/ pc'[p] = "wput" /\ p_wpos - p_rpos # BY2PIPE
<1>1. /\ cur = p /\ pc[p] = "wtest" /\ UNCHANGED <<fdVars, bufVars, cur>>
      /\ Goto(p, IF p_wpos - p_rpos = BY2PIPE THEN "fdref" ELSE "wput")
  BY DEF WTest, At
<1>2. "fdref" \in Pc /\ "wput" \in Pc
  BY DEF Pc
<1>3. /\ pc' \in [Proc -> Pc] /\ loc' \in [Proc -> Local] /\ loc' = loc /\ Framed(p)
      /\ pc'[p] = IF p_wpos - p_rpos = BY2PIPE THEN "fdref" ELSE "wput"
  BY <1>1, <1>2, GotoFacts DEF Framed
<1>4. Types'
  BY <1>1, <1>3 DEF Types, fdVars, bufVars
<1> QED BY <1>1, <1>3, <1>4 DEF Calmly, Calm, fdVars

(* pipewrite puts a byte. *)
LEMMA WPutStep ==
  ASSUME Types, NEW p \in Proc, WPut(p)
  PROVE  /\ Types' /\ Calmly(p) /\ p_wpos' = p_wpos /\ p_rpos' = p_rpos
         /\ p_buf' = [p_buf EXCEPT ![p_wpos % BY2PIPE] = p_wpos + 1]
         /\ pc[p] = "wput" /\ pc'[p] = "winc" /\ loc' = loc
<1>1. /\ cur = p /\ pc[p] = "wput" /\ UNCHANGED <<fdVars, p_rpos, p_wpos, cur>>
      /\ Goto(p, "winc") /\ p_buf' = [p_buf EXCEPT ![p_wpos % BY2PIPE] = p_wpos + 1]
  BY DEF WPut, At
<1>2. "winc" \in Pc
  BY DEF Pc
<1>3. /\ pc' \in [Proc -> Pc] /\ loc' \in [Proc -> Local] /\ loc' = loc /\ Framed(p)
      /\ pc'[p] = "winc"
  BY <1>1, <1>2, GotoFacts DEF Framed
<1>4. Types'
  <2> DEFINE m == p_wpos % BY2PIPE
             n == p_wpos + 1
  <2>2. n \in Nat /\ p_buf \in [0 .. BY2PIPE - 1 -> Nat] /\ p_buf' = [p_buf EXCEPT ![m] = n]
    BY <1>1 DEF Types
  <2> HIDE DEF m, n
  <2>1. p_buf' \in [0 .. BY2PIPE - 1 -> Nat]
    BY <2>2
  <2> QED BY <1>1, <1>3, <2>1 DEF Types, fdVars
<1> QED BY <1>1, <1>3, <1>4 DEF Calmly, Calm, fdVars

(* pipewrite moves its position. *)
LEMMA WIncStep ==
  ASSUME Types, NEW p \in Proc, WInc(p)
  PROVE  /\ Types' /\ Calmly(p) /\ p_wpos' = p_wpos + 1 /\ p_buf' = p_buf /\ p_rpos' = p_rpos
         /\ pc[p] = "winc"
         /\ \/ pc'[p] = "run" /\ loc'[p] = NoCall
            \/ /\ pc'[p] = "wtest" /\ loc'[p].op = loc[p].op
               /\ loc[p].i + 1 # loc[p].n /\ loc'[p].i = loc[p].i + 1 /\ loc'[p].n = loc[p].n
<1>1. /\ cur = p /\ pc[p] = "winc" /\ NextByte(p, "wtest") /\ p_wpos' = p_wpos + 1
      /\ UNCHANGED <<fdVars, p_rpos, p_buf, cur>>
  BY DEF WInc, At
<1>2. "wtest" \in Pc
  BY DEF Pc
<1>3. /\ pc' \in [Proc -> Pc] /\ loc' \in [Proc -> Local] /\ Framed(p)
      /\ \/ pc'[p] = "run" /\ loc'[p] = NoCall
         \/ /\ pc'[p] = "wtest" /\ loc'[p].op = loc[p].op /\ loc'[p].slot = loc[p].slot
            /\ loc[p].i + 1 # loc[p].n /\ loc'[p].i = loc[p].i + 1 /\ loc'[p].n = loc[p].n
  BY <1>1, <1>2, NextByteFacts
<1>4. Types'
  BY <1>1, <1>3 DEF Types, fdVars
<1> QED BY <1>1, <1>3, <1>4 DEF Calmly, Calm, fdVars

(* Another process runs; what it knew of env_runs is out of date. *)
LEMMA SwitchStep ==
  ASSUME Types, NEW p \in Proc, Switch(p)
  PROVE  /\ Types' /\ fdm' = fdm /\ data' = data /\ torn' = torn /\ pc' = pc
         /\ bufVars' = bufVars /\ cur' = p /\ ~ loc'[p].fresh
         /\ \A q \in Proc : q # p => loc'[q] = loc[q]
         /\ loc'[p].op = loc[p].op /\ loc'[p].slot = loc[p].slot /\ loc'[p].new = loc[p].new
         /\ loc'[p].i = loc[p].i /\ loc'[p].n = loc[p].n /\ loc'[p].byte = loc[p].byte
         /\ loc'[p].child = loc[p].child /\ loc'[p].k = loc[p].k
<1> DEFINE call == [loc[p] EXCEPT !.fresh = FALSE]
<1>1. /\ cur' = p /\ loc' = [loc EXCEPT ![p] = call]
      /\ UNCHANGED <<fdVars, bufVars, pc>>
  BY DEF Switch
<1>2. loc[p] \in Local
  BY DEF Types
<1>3. /\ call \in Local /\ ~ call.fresh
      /\ call.op = loc[p].op /\ call.slot = loc[p].slot /\ call.new = loc[p].new
      /\ call.i = loc[p].i /\ call.n = loc[p].n /\ call.byte = loc[p].byte
      /\ call.child = loc[p].child /\ call.k = loc[p].k
  <2>1. call \in Local
    BY <1>2, LocalUpdates
  <2> QED BY <2>1, <1>2, UpdateFields
<1> HIDE DEF call
<1>4. loc' \in [Proc -> Local] /\ loc'[p] = call /\ \A q \in Proc : q # p => loc'[q] = loc[q]
  BY <1>1, <1>3 DEF Types
<1>5. Types'
  BY <1>1, <1>4 DEF Types, fdVars, bufVars
<1> QED BY <1>1, <1>3, <1>4, <1>5 DEF fdVars

-----------------------------------------------------------------------------
(* The pages of the slots *)

(* A step of p that begins, does or ends a call other than fork. *)
Alone(p) ==
  /\ \A q \in Proc : q # p => fdm'[q] = fdm[q] /\ data'[q] = data[q]
  /\ torn' = FALSE => torn = FALSE
  /\ Framed(p)
  /\ pc[p] \notin {"none", "new", "fork", "dead"} /\ pc'[p] \notin {"none", "new", "fork"}

(* It disturbs only the account of p. *)
LEMMA AloneAccounts ==
  ASSUME Accounts, Types', NEW p \in Proc, Alone(p), SlotsOK(p)'
  PROVE  Accounts'
<1>1. ASSUME NEW q \in Proc, q # p PROVE SlotsOK(q)'
  <2>1. /\ fdm'[q] = fdm[q] /\ data'[q] = data[q] /\ pc'[q] = pc[q] /\ loc'[q] = loc[q]
        /\ torn' = FALSE => torn = FALSE
    BY <1>1 DEF Alone, Framed
  <2>2. SlotsOK(q)
    BY DEF Accounts
  <2> QED BY <2>1, <2>2 DEF SlotsOK, Moving, Paired
<1>2. \A q \in Proc : pc[q] \in {"fork", "new"} <=> pc'[q] \in {"fork", "new"}
  BY DEF Alone, Framed
<1>3. \A q \in Proc : pc'[q] \in {"fork", "new"} =>
        q # p /\ pc'[q] = pc[q] /\ loc'[q] = loc[q] /\ fdm'[q] = fdm[q] /\ data'[q] = data[q]
  BY DEF Alone, Framed
<1>4. ForksOK
  BY DEF Accounts
<1>5. ASSUME NEW q \in Proc, pc'[q] = "fork"
      PROVE  (loc[q].child \in Proc /\ pc[loc[q].child] = "new" /\ Given(q, loc[q].child))'
  <2>1. pc[q] = "fork" /\ loc'[q] = loc[q] /\ fdm'[q] = fdm[q] /\ data'[q] = data[q]
    BY <1>3, <1>5
  <2>2. loc[q].child \in Proc /\ pc[loc[q].child] = "new" /\ Given(q, loc[q].child)
    BY <2>1, <1>4 DEF ForksOK
  <2>3. pc'[loc[q].child] = "new" /\ fdm'[loc[q].child] = fdm[loc[q].child]
        /\ data'[loc[q].child] = data[loc[q].child]
    BY <2>2, <1>2, <1>3
  <2> QED BY <2>1, <2>2, <2>3 DEF Given
<1>6. \A q, r \in Proc : pc'[q] = "fork" /\ pc'[r] = "fork" /\ loc'[q].child = loc'[r].child => q = r
  BY <1>3, <1>4 DEF ForksOK
<1>7. ASSUME NEW c \in Proc, pc'[c] = "new"
      PROVE  \E q \in Proc : pc'[q] = "fork" /\ loc'[q].child = c
  <2>1. pc[c] = "new"
    BY <1>3, <1>7
  <2>2. PICK q \in Proc : pc[q] = "fork" /\ loc[q].child = c
    BY <2>1, <1>4 DEF ForksOK
  <2>3. pc'[q] = "fork" /\ loc'[q] = loc[q]
    BY <2>2, <1>2, <1>3
  <2> QED BY <2>2, <2>3
<1>8. ForksOK'
  BY <1>5, <1>6, <1>7 DEF ForksOK
<1> QED BY <1>1, <1>8 DEF Accounts

(* A step that maps and unmaps nothing. *)
LEMMA CalmAccounts ==
  ASSUME Accounts, Types', NEW p \in Proc, Calmly(p)
  PROVE  Accounts'
<1>1. Alone(p)
  BY DEF Calmly, Alone, Calm
<1>2. fdm'[p] = fdm[p] /\ data'[p] = data[p] /\ torn' = torn /\ pc[p] \in Calm /\ pc'[p] \in Calm
  BY DEF Calmly
<1>3. SlotsOK(p)
  BY DEF Accounts
<1>4. SlotsOK(p)'
  BY <1>2, <1>3 DEF SlotsOK, Moving, Paired, Calm
<1> QED BY <1>1, <1>4, AloneAccounts

(* A switch maps and unmaps nothing. *)
LEMMA SwitchAccounts ==
  ASSUME Accounts, NEW p \in Proc, Switch(p)
  PROVE  Accounts'
<1>1. Types
  BY DEF Accounts
<1>2. /\ Types' /\ fdm' = fdm /\ data' = data /\ torn' = torn /\ pc' = pc
      /\ \A q \in Proc : /\ loc'[q].slot = loc[q].slot /\ loc'[q].new = loc[q].new
                         /\ loc'[q].child = loc[q].child /\ loc'[q].k = loc[q].k
  BY <1>1, SwitchStep
<1>3. \A q \in Proc : SlotsOK(q)'
  BY <1>2 DEF SlotsOK, Moving, Paired, Accounts
<1>4. \A q, c \in Proc : Given(q, c) <=> Given(q, c)'
  BY <1>2 DEF Given
<1>5. ForksOK
  BY DEF Accounts
<1>6. ForksOK'
  BY <1>2, <1>4, <1>5 DEF ForksOK
<1> QED BY <1>2, <1>3, <1>6 DEF Accounts

(* The slots of a process in no call, or in a calm one. *)
LEMMA RunSlots ==
  ASSUME Accounts, NEW p \in Proc, pc[p] = "run", NEW s \in Slot
  PROVE  Paired(p, s)
BY DEF Accounts, SlotsOK, Moving

(* close unmaps the descriptor first. *)
LEMMA CloseAccounts ==
  ASSUME Accounts, NEW p \in Proc, NEW s \in Slot, Close(p, s)
  PROVE  /\ Accounts' /\ Alone(p) /\ cur' = cur /\ cur = p /\ pc'[p] = "close" /\ bufVars' = bufVars
         /\ \A t \in Slot : fdm'[p][t] \in {fdm[p][t], NULL}
         /\ loc'[p].op = "close"
<1> DEFINE call == [NoCall EXCEPT !.op = "close", !.new = s]
<1>1. /\ cur = p /\ pc[p] = "run" /\ Enter(p, "close", call) /\ fdm' = [fdm EXCEPT ![p][s] = NULL]
      /\ UNCHANGED <<data, torn, bufVars, cur>>
  BY DEF Close, At, Unmap
<1>2. call \in Local
  BY NoCallFacts
<1>3. call.new = s /\ call.op = "close"
  BY CallFields
<1> HIDE DEF call
<1>4. Types /\ "close" \in Pc
  BY DEF Accounts, Pc
<1>5. /\ pc' \in [Proc -> Pc] /\ loc' \in [Proc -> Local] /\ pc'[p] = "close" /\ loc'[p] = call
      /\ Framed(p)
  BY <1>1, <1>2, <1>4, EnterFacts DEF Framed
<1>6. /\ fdm'[p][s] = NULL /\ \A t \in Slot : t # s => fdm'[p][t] = fdm[p][t]
      /\ \A q \in Proc : q # p => fdm'[q] = fdm[q]
      /\ fdm' \in [Proc -> [Slot -> End \union {NULL}]]
  BY <1>1, <1>4 DEF Types
<1>7. Types'
  BY <1>1, <1>4, <1>5, <1>6 DEF Types, bufVars
<1>8. Alone(p)
  BY <1>1, <1>5, <1>6 DEF Alone
<1>9. SlotsOK(p)'
  <2>1. \A t \in Slot : Paired(p, t)
    BY <1>1, RunSlots
  <2>2. \A t \in Slot : t # s => Paired(p, t)'
    BY <2>1, <1>1, <1>6 DEF Paired
  <2> QED BY <2>2, <1>3, <1>5, <1>6 DEF SlotsOK, Moving
<1>10. Accounts'
  BY <1>7, <1>8, <1>9, AloneAccounts
<1> QED BY <1>1, <1>3, <1>5, <1>6, <1>8, <1>10

(* close, or the close inside dup, unmaps the data page. *)
LEMMA CloseDataAccounts ==
  ASSUME Accounts, NEW p \in Proc, CloseData(p)
  PROVE  /\ Accounts' /\ Alone(p) /\ cur' = cur /\ fdm' = fdm /\ bufVars' = bufVars
         /\ \/ pc'[p] = "dupdata" /\ loc' = loc /\ loc[p].op = "dup"
            \/ pc'[p] = "run" /\ loc'[p] = NoCall
<1>1. /\ pc[p] = "close" /\ data' = [data EXCEPT ![p] = @ \ {loc[p].new}]
      /\ \/ loc[p].op = "dup" /\ Goto(p, "dupdata")
         \/ Return(p)
      /\ UNCHANGED <<fdm, torn, bufVars, cur>>
  BY DEF CloseData, At
<1>2. Types /\ "dupdata" \in Pc
  BY DEF Accounts, Pc
<1>3. /\ pc' \in [Proc -> Pc] /\ loc' \in [Proc -> Local] /\ Framed(p)
      /\ \/ pc'[p] = "dupdata" /\ loc' = loc /\ loc[p].op = "dup"
         \/ pc'[p] = "run" /\ loc'[p] = NoCall
  <2>1. CASE loc[p].op = "dup" /\ Goto(p, "dupdata")
    BY <2>1, <1>2, GotoFacts DEF Framed
  <2>2. CASE Return(p)
    BY <2>2, <1>2, ReturnFacts DEF Framed
  <2> QED BY <1>1, <2>1, <2>2
<1>4. /\ data'[p] = data[p] \ {loc[p].new} /\ \A q \in Proc : q # p => data'[q] = data[q]
      /\ data' \in [Proc -> SUBSET Slot]
  BY <1>1, <1>2 DEF Types
<1>5. Types'
  BY <1>1, <1>2, <1>3, <1>4 DEF Types, bufVars
<1>6. Alone(p)
  BY <1>1, <1>3, <1>4 DEF Alone
<1>7. SlotsOK(p)
  BY DEF Accounts
<1>8. SlotsOK(p)'
  <2>1. fdm'[p] = fdm[p]
    BY <1>1
  <2>2. CASE pc'[p] = "dupdata" /\ loc' = loc
    BY <2>1, <2>2, <1>1, <1>4, <1>7 DEF SlotsOK, Moving, Paired
  <2>3. CASE pc'[p] = "run"
    BY <2>1, <2>3, <1>1, <1>4, <1>7 DEF SlotsOK, Moving, Paired
  <2> QED BY <1>3, <2>2, <2>3
<1>9. Accounts'
  BY <1>5, <1>6, <1>8, AloneAccounts
<1> QED BY <1>1, <1>3, <1>6, <1>9

(* dup closes its target. *)
LEMMA DupAccounts ==
  ASSUME Accounts, NEW p \in Proc, NEW s \in Slot, NEW t \in Slot, Dup(p, s, t)
  PROVE  /\ Accounts' /\ Alone(p) /\ cur' = cur /\ cur = p /\ bufVars' = bufVars
         /\ pc'[p] \in {"close", "dupdata"} /\ loc'[p].op = "dup"
         /\ \A u \in Slot : fdm'[p][u] \in {fdm[p][u], NULL}
<1> DEFINE call == [NoCall EXCEPT !.op = "dup", !.slot = s, !.new = t]
<1>1. /\ cur = p /\ pc[p] = "run"
      /\ \/ Enter(p, "close", call) /\ fdm' = [fdm EXCEPT ![p][t] = NULL]
         \/ Enter(p, "dupdata", call) /\ fdm[p][t] = NULL /\ fdm' = fdm
      /\ UNCHANGED <<data, torn, bufVars, cur>>
  BY DEF Dup, At, Unmap
<1>2. call \in Local
  BY NoCallFacts
<1>3. call.new = t /\ call.slot = s /\ call.op = "dup"
  BY CallFields
<1> HIDE DEF call
<1>4. Types /\ "close" \in Pc /\ "dupdata" \in Pc
  BY DEF Accounts, Pc
<1>5. /\ pc' \in [Proc -> Pc] /\ loc' \in [Proc -> Local] /\ loc'[p] = call
      /\ pc'[p] \in {"close", "dupdata"} /\ Framed(p)
  <2>1. CASE Enter(p, "close", call)
    BY <2>1, <1>2, <1>4, EnterFacts DEF Framed
  <2>2. CASE Enter(p, "dupdata", call)
    BY <2>2, <1>2, <1>4, EnterFacts DEF Framed
  <2> QED BY <1>1, <2>1, <2>2
<1>6. /\ fdm'[p][t] = NULL /\ \A u \in Slot : u # t => fdm'[p][u] = fdm[p][u]
      /\ \A q \in Proc : q # p => fdm'[q] = fdm[q]
      /\ fdm' \in [Proc -> [Slot -> End \union {NULL}]]
  <2>1. CASE fdm' = [fdm EXCEPT ![p][t] = NULL]
    BY <2>1, <1>4 DEF Types
  <2>2. CASE fdm[p][t] = NULL /\ fdm' = fdm
    BY <2>2, <1>4 DEF Types
  <2> QED BY <1>1, <2>1, <2>2
<1>7. Types'
  BY <1>1, <1>4, <1>5, <1>6 DEF Types, bufVars
<1>8. Alone(p)
  BY <1>1, <1>5, <1>6 DEF Alone
<1>9. SlotsOK(p)'
  <2>1. \A u \in Slot : Paired(p, u)
    BY <1>1, RunSlots
  <2>2. pc'[p] = "dupdata" => fdm[p][t] = NULL
    <3>1. CASE Enter(p, "close", call)
      BY <3>1, <1>2, <1>4, EnterFacts
    <3>2. CASE fdm[p][t] = NULL
      BY <3>2
    <3> QED BY <1>1, <3>1, <3>2
  <2>3. data'[p] = data[p]
    BY <1>1
  <2>4. pc'[p] = "dupdata" /\ torn = FALSE => t \notin data[p]
    BY <2>1, <2>2 DEF Paired
  <2> QED BY <2>1, <2>3, <2>4, <1>1, <1>3, <1>5, <1>6 DEF SlotsOK, Moving, Paired
<1>10. Accounts'
  BY <1>7, <1>8, <1>9, AloneAccounts
<1> QED BY <1>1, <1>3, <1>5, <1>6, <1>8, <1>10

(* dup maps the data page first. *)
LEMMA DupDataAccounts ==
  ASSUME Accounts, NEW p \in Proc, DupData(p)
  PROVE  /\ Accounts' /\ Alone(p) /\ cur' = cur /\ fdm' = fdm /\ bufVars' = bufVars
         /\ pc'[p] = "dupfd" /\ loc' = loc
<1> DEFINE new == loc[p].new
           src == loc[p].slot
<1>1. /\ pc[p] = "dupdata" /\ Goto(p, "dupfd") /\ UNCHANGED <<fdm, torn, bufVars, cur>>
      /\ \/ data' = [data EXCEPT ![p] = IF src \in @ THEN @ \union {new} ELSE @]
         \/ data' = data
  BY DEF DupData, At
<1>2. Types /\ "dupfd" \in Pc /\ new \in Slot /\ src \in Slot
  BY DEF Accounts, Pc, Types, Local
<1>3. pc' \in [Proc -> Pc] /\ loc' \in [Proc -> Local] /\ Framed(p) /\ pc'[p] = "dupfd" /\ loc' = loc
  BY <1>1, <1>2, GotoFacts DEF Framed
<1>4. /\ data'[p] = data[p] \/ (src \in data[p] /\ data'[p] = data[p] \union {new})
      /\ \A q \in Proc : q # p => data'[q] = data[q]
      /\ data' \in [Proc -> SUBSET Slot]
  BY <1>1, <1>2 DEF Types
<1>5. Types'
  BY <1>1, <1>2, <1>3, <1>4 DEF Types, bufVars
<1>6. Alone(p)
  BY <1>1, <1>3, <1>4 DEF Alone
<1>7. SlotsOK(p)
  BY DEF Accounts
<1>8. SlotsOK(p)'
  <2>1. /\ fdm'[p] = fdm[p] /\ fdm[p][new] = NULL /\ torn' = torn
        /\ torn = FALSE => new \notin data[p]
    BY <1>1, <1>7 DEF SlotsOK
  <2>2. \A s \in Slot : s # new => Paired(p, s) /\ (s \in data'[p] <=> s \in data[p])
    BY <1>1, <1>4, <1>7 DEF SlotsOK, Moving
  <2>3. torn = FALSE /\ new \in data'[p] => src \in data'[p] \ {new}
    BY <2>1, <1>2, <1>4
  <2> QED BY <2>1, <2>2, <2>3, <1>3 DEF SlotsOK, Moving, Paired
<1>9. Accounts'
  BY <1>5, <1>6, <1>8, AloneAccounts
<1> QED BY <1>1, <1>3, <1>6, <1>9

(* dup maps the descriptor last, or undoes what it has mapped. *)
LEMMA DupFdAccounts ==
  ASSUME Accounts, NEW p \in Proc, DupFd(p)
  PROVE  /\ Accounts' /\ Alone(p) /\ cur' = cur /\ bufVars' = bufVars
         /\ pc'[p] \in {"run", "close"} /\ loc'[p].op \in {"none", "close"}
         /\ \A t \in Slot : fdm'[p][t] = NULL \/ \E u \in Slot : fdm'[p][t] = fdm[p][u]
<1> DEFINE new  == loc[p].new
           src  == loc[p].slot
           call == [NoCall EXCEPT !.op = "close", !.new = new]
<1>1. /\ pc[p] = "dupfd" /\ UNCHANGED <<data, bufVars, cur>>
      /\ \/ /\ fdm[p][src] # NULL /\ Return(p)
            /\ fdm' = [fdm EXCEPT ![p][new] = fdm[p][src]]
            /\ torn' = (torn \/ (src \in data[p] /\ new \notin data[p]))
         \/ /\ Enter(p, "close", call) /\ torn' = torn
            /\ fdm' = [fdm EXCEPT ![p][new] = NULL]
  BY DEF DupFd, At, Unmap
<1>2. Types /\ "close" \in Pc /\ new \in Slot /\ src \in Slot
  BY DEF Accounts, Types, Local, Pc
<1>3. call \in Local /\ call.new = new /\ call.op = "close"
  <2>1. call \in Local
    BY <1>2, NoCallFacts
  <2> QED BY <2>1, <1>2, CallFields
<1>4. SlotsOK(p)
  BY DEF Accounts
<1>5. /\ \A s \in Slot : s # new => Paired(p, s)
      /\ fdm[p][new] = NULL
      /\ torn = FALSE /\ new \in data[p] => src \in data[p] \ {new}
  BY <1>1, <1>4 DEF SlotsOK, Moving
<1> HIDE DEF call
<1>6. CASE /\ fdm[p][src] # NULL /\ Return(p)
           /\ fdm' = [fdm EXCEPT ![p][new] = fdm[p][src]]
           /\ torn' = (torn \/ (src \in data[p] /\ new \notin data[p]))
  <2>1. /\ pc' \in [Proc -> Pc] /\ loc' \in [Proc -> Local] /\ Framed(p)
        /\ pc'[p] = "run" /\ loc'[p] = NoCall
    BY <1>2, <1>6, ReturnFacts DEF Framed
  <2>2. /\ fdm'[p][new] = fdm[p][src] /\ \A t \in Slot : t # new => fdm'[p][t] = fdm[p][t]
        /\ \A q \in Proc : q # p => fdm'[q] = fdm[q]
        /\ fdm' \in [Proc -> [Slot -> End \union {NULL}]]
    BY <1>2, <1>6 DEF Types
  <2>3. /\ torn' \in BOOLEAN
        /\ torn' = FALSE => torn = FALSE /\ (src \in data[p] => new \in data[p])
    BY <1>2, <1>6, Zenon DEF Types
  <2>4. Types'
    BY <1>1, <1>2, <2>1, <2>2, <2>3 DEF Types, bufVars
  <2>5. Alone(p)
    BY <1>1, <2>1, <2>2, <2>3 DEF Alone
  <2>6. torn' = FALSE => (fdm'[p][new] # NULL <=> new \in data'[p])
    BY <1>1, <1>2, <1>5, <1>6, <2>2, <2>3 DEF Paired
  <2>7. \A s \in Slot : s # new => (torn' = FALSE => (fdm'[p][s] # NULL <=> s \in data'[p]))
    BY <1>1, <1>5, <2>2, <2>3 DEF Paired
  <2>8. \A s \in Slot : Paired(p, s)'
    BY <2>6, <2>7 DEF Paired
  <2>9. SlotsOK(p)'
    BY <2>1, <2>8 DEF SlotsOK
  <2>10. Accounts'
    BY <2>4, <2>5, <2>9, AloneAccounts
  <2> QED BY <1>1, <1>2, <2>1, <2>2, <2>5, <2>10, NoCallFacts
<1>7. CASE /\ Enter(p, "close", call) /\ torn' = torn
           /\ fdm' = [fdm EXCEPT ![p][new] = NULL]
  <2>1. /\ pc' \in [Proc -> Pc] /\ loc' \in [Proc -> Local] /\ Framed(p)
        /\ pc'[p] = "close" /\ loc'[p] = call
    BY <1>2, <1>3, <1>7, EnterFacts DEF Framed
  <2>2. /\ fdm'[p][new] = NULL /\ \A t \in Slot : t # new => fdm'[p][t] = fdm[p][t]
        /\ \A q \in Proc : q # p => fdm'[q] = fdm[q]
        /\ fdm' \in [Proc -> [Slot -> End \union {NULL}]]
    BY <1>2, <1>7 DEF Types
  <2>3. Types'
    BY <1>1, <1>2, <1>7, <2>1, <2>2 DEF Types, bufVars
  <2>4. Alone(p)
    BY <1>1, <1>7, <2>1, <2>2 DEF Alone
  <2>5. \A s \in Slot : s # new => Paired(p, s)'
    BY <1>1, <1>5, <1>7, <2>2 DEF Paired
  <2>6. SlotsOK(p)'
    BY <1>3, <2>1, <2>2, <2>5 DEF SlotsOK, Moving
  <2>7. Accounts'
    BY <2>3, <2>4, <2>6, AloneAccounts
  <2> QED BY <1>1, <1>2, <1>3, <2>1, <2>2, <2>4, <2>7
<1> QED BY <1>1, <1>6, <1>7

(* exit unmaps everything at once. *)
LEMMA ExitAccounts ==
  ASSUME Accounts, NEW p \in Proc, Exit(p)
  PROVE  /\ Accounts' /\ Alone(p) /\ cur' = cur /\ cur = p /\ pc'[p] = "dead" /\ bufVars' = bufVars
         /\ loc' = loc /\ \A t \in Slot : fdm'[p][t] = NULL
<1>1. /\ cur = p /\ pc[p] = "run" /\ Goto(p, "dead") /\ UNCHANGED <<torn, bufVars, cur>>
      /\ fdm' = [fdm EXCEPT ![p] = [s \in Slot |-> NULL]] /\ data' = [data EXCEPT ![p] = {}]
  BY DEF Exit, At
<1>2. Types /\ "dead" \in Pc
  BY DEF Accounts, Pc
<1>3. pc' \in [Proc -> Pc] /\ loc' \in [Proc -> Local] /\ Framed(p) /\ pc'[p] = "dead" /\ loc' = loc
  BY <1>1, <1>2, GotoFacts DEF Framed
<1>4. /\ \A t \in Slot : fdm'[p][t] = NULL
      /\ data'[p] = {}
      /\ \A q \in Proc : q # p => fdm'[q] = fdm[q] /\ data'[q] = data[q]
      /\ fdm' \in [Proc -> [Slot -> End \union {NULL}]]
      /\ data' \in [Proc -> SUBSET Slot]
  BY <1>1, <1>2 DEF Types
<1>5. Types'
  BY <1>1, <1>2, <1>3, <1>4 DEF Types, bufVars
<1>6. Alone(p)
  BY <1>1, <1>3, <1>4 DEF Alone
<1>7. SlotsOK(p)'
  BY <1>3, <1>4 DEF SlotsOK, Paired, Moving
<1>8. Accounts'
  BY <1>5, <1>6, <1>7, AloneAccounts
<1> QED BY <1>1, <1>3, <1>4, <1>6, <1>8

(* Fork begins: the child has no pages yet. *)
LEMMA ForkAccounts ==
  ASSUME Accounts, NEW p \in Proc, NEW c \in Proc, Fork(p, c)
  PROVE  /\ Accounts' /\ fdm' = fdm /\ cur' = cur /\ bufVars' = bufVars /\ "fork" \in Api
         /\ \A q \in Proc : q # p /\ q # c => pc'[q] = pc[q]
         /\ \A q \in Proc : q # p => loc'[q] = loc[q]
         /\ pc'[p] = "fork" /\ pc'[c] = "new" /\ loc'[p].op = "fork"
<1> DEFINE call == [NoCall EXCEPT !.op = "fork", !.child = c]
<1>1. /\ pc[p] = "run" /\ pc[c] = "none" /\ "fork" \in Api
      /\ pc' = [pc EXCEPT ![p] = "fork", ![c] = "new"] /\ loc' = [loc EXCEPT ![p] = call]
      /\ UNCHANGED <<fdVars, bufVars, cur>>
  BY DEF Fork, At
<1>2. call \in Local
  BY NoCallFacts
<1>3. call.child = c /\ call.k = 0 /\ call.op = "fork"
  BY CallFields
<1> HIDE DEF call
<1>4. Types /\ ForksOK /\ SlotsOK(c) /\ SlotsOK(p)
  BY DEF Accounts
<1>5. /\ pc' \in [Proc -> Pc] /\ loc' \in [Proc -> Local] /\ c # p
      /\ pc'[p] = "fork" /\ pc'[c] = "new" /\ loc'[p] = call
      /\ \A q \in Proc : q # p /\ q # c => pc'[q] = pc[q]
      /\ \A q \in Proc : q # p => loc'[q] = loc[q]
  <2>1. "fork" \in Pc /\ "new" \in Pc
    BY DEF Pc
  <2> QED BY <2>1, <1>1, <1>2, <1>4 DEF Types
<1>6. fdm' = fdm /\ data' = data /\ torn' = torn
  BY <1>1 DEF fdVars
<1>7. Types'
  BY <1>1, <1>4, <1>5, <1>6 DEF Types, bufVars
<1>8. ASSUME NEW q \in Proc PROVE SlotsOK(q)'
  <2>1. CASE q = p
    <3>1. \A s \in Slot : Paired(p, s)
      BY <1>1, RunSlots
    <3>2. \A s \in Slot : Paired(p, s)'
      BY <3>1, <1>6 DEF Paired
    <3> QED BY <2>1, <3>2, <1>5 DEF SlotsOK
  <2>2. CASE q = c
    BY <2>2, <1>5 DEF SlotsOK
  <2>3. CASE q # p /\ q # c
    <3>1. pc'[q] = pc[q] /\ loc'[q] = loc[q] /\ SlotsOK(q)
      BY <2>3, <1>5 DEF Accounts
    <3> QED BY <3>1, <1>6 DEF SlotsOK, Moving, Paired
  <2> QED BY <2>1, <2>2, <2>3
<1>9. \A s \in Slot : fdm[c][s] = NULL /\ s \notin data[c]
  BY <1>1, <1>4 DEF SlotsOK, Moving, Paired
<1>10. ASSUME NEW q \in Proc, pc'[q] = "fork"
       PROVE  /\ (loc[q].child \in Proc /\ pc[loc[q].child] = "new" /\ Given(q, loc[q].child))'
              /\ loc'[q].child = c => q = p
  <2>1. CASE q = p
    <3>1. loc'[q].child = c /\ loc'[q].k = 0
      BY <2>1, <1>3, <1>5
    <3>2. \A s \in Slot : fdm'[c][s] = IF s < 0 THEN fdm'[p][s] ELSE NULL
      BY <1>6, <1>9 DEF Slot
    <3>3. \A s \in Slot : s \in data'[c] <=> NSLOT + s < 0 /\ s \in data'[p]
      <4>1. \A s \in Slot : NSLOT + s \in Nat
        BY PipeAssumption DEF Slot
      <4>2. \A s \in Slot : ~ (NSLOT + s < 0)
        BY <4>1
      <4> QED BY <4>2, <1>6, <1>9
    <3>4. Given(q, loc[q].child)'
      BY <3>1, <3>2, <3>3, <2>1 DEF Given
    <3> QED BY <3>1, <3>4, <2>1, <1>5
  <2>2. CASE q # p
    <3>1. q # c /\ pc[q] = "fork" /\ loc'[q] = loc[q]
      BY <2>2, <1>5, <1>10
    <3>2. loc[q].child \in Proc /\ pc[loc[q].child] = "new" /\ Given(q, loc[q].child)
      BY <3>1, <1>4 DEF ForksOK
    <3>3. loc[q].child # c /\ loc[q].child # p
      BY <3>2, <1>1
    <3>4. pc'[loc[q].child] = "new"
      BY <3>2, <3>3, <1>5
    <3> QED BY <3>1, <3>2, <3>3, <3>4, <1>6 DEF Given
  <2> QED BY <2>1, <2>2
<1>11. ASSUME NEW q \in Proc, NEW r \in Proc, pc'[q] = "fork", pc'[r] = "fork",
              loc'[q].child = loc'[r].child
       PROVE  q = r
  <2>1. CASE loc'[q].child = c
    BY <2>1, <1>10, <1>11
  <2>2. CASE loc'[q].child # c
    <3>1. q # p /\ r # p
      BY <2>2, <1>3, <1>5, <1>11
    <3>2. pc[q] = "fork" /\ pc[r] = "fork" /\ loc'[q] = loc[q] /\ loc'[r] = loc[r]
      BY <3>1, <1>5, <1>11
    <3> QED BY <3>2, <1>4, <1>11 DEF ForksOK
  <2> QED BY <2>1, <2>2
<1>12. ASSUME NEW d \in Proc, pc'[d] = "new"
       PROVE  \E q \in Proc : pc'[q] = "fork" /\ loc'[q].child = d
  <2>1. CASE d = c
    BY <2>1, <1>3, <1>5
  <2>2. CASE d # c
    <3>1. pc[d] = "new"
      BY <2>2, <1>5, <1>12
    <3>2. PICK q \in Proc : pc[q] = "fork" /\ loc[q].child = d
      BY <3>1, <1>4 DEF ForksOK
    <3>3. q # p /\ q # c
      BY <3>2, <1>1
    <3> QED BY <3>2, <3>3, <1>5
  <2> QED BY <2>1, <2>2
<1>13. ForksOK'
  BY <1>10, <1>11, <1>12 DEF ForksOK
<1>14. Accounts'
  BY <1>7, <1>8, <1>13 DEF Accounts
<1> QED BY <1>1, <1>3, <1>5, <1>6, <1>14

(* The least element of a nonempty set of numbers. *)
LEMMA MinFacts ==
  ASSUME NEW S \in SUBSET Nat, S # {}
  PROVE  Min(S) \in S /\ \A y \in S : Min(S) <= y
<1>1. \E x \in S : \A y \in S : x <= y
  <2>1. PICK x \in S : \A y \in S : ~ (<<y, x>> \in OpToRel(<, Nat))
    BY NatLessThanWellFounded, WFMin
  <2>2. \A y \in S : ~ (y < x)
    BY <2>1 DEF OpToRel
  <2> QED BY <2>2
<1> QED BY <1>1 DEF Min

(* Fork gives the child the next page, or is done. *)
LEMMA ForkPageAccounts ==
  ASSUME Accounts, NEW p \in Proc, ForkPage(p)
  PROVE  /\ Accounts' /\ cur' = cur /\ bufVars' = bufVars /\ pc[p] = "fork"
         /\ \A q \in Proc : q # p => loc'[q] = loc[q]
         /\ \A q \in Proc : q # p => pc'[q] = pc[q] \/ pc'[q] = "run"
         /\ \/ loc'[p].op = loc[p].op /\ pc' = pc
            \/ loc'[p] = NoCall /\ pc'[p] = "run"
<1> DEFINE c == loc[p].child
           k == loc[p].k
           rest == {y \in SharedPages(p) : y >= k}
           x == Min(rest)
<1>1. /\ cur = p /\ pc[p] = "fork" /\ UNCHANGED <<torn, bufVars, cur>>
      /\ \/ /\ rest # {}
            /\ IF x < NSLOT
                 THEN fdm' = [fdm EXCEPT ![c][x] = fdm[p][x]] /\ UNCHANGED data
                 ELSE data' = [data EXCEPT ![c] = @ \union {x - NSLOT}] /\ UNCHANGED fdm
            /\ loc' = [loc EXCEPT ![p].k = x + 1]
            /\ UNCHANGED pc
         \/ /\ rest = {}
            /\ pc' = [pc EXCEPT ![p] = "run", ![c] = "run"]
            /\ loc' = [loc EXCEPT ![p] = NoCall]
            /\ UNCHANGED fdVars
  BY DEF ForkPage, At, fdVars
<1>2. Types /\ ForksOK /\ SlotsOK(p) /\ \A q \in Proc : SlotsOK(q)
  BY DEF Accounts
<1>3. c \in Proc /\ pc[c] = "new" /\ c # p /\ Given(p, c)
  BY <1>1, <1>2 DEF ForksOK
<1>4. /\ \A q \in Proc : q # p /\ pc[q] = "fork" => loc[q].child # c
      /\ \A q \in Proc : pc[q] = "fork" => loc[q].child # p /\ loc[q].child # q
  BY <1>1, <1>2, <1>3 DEF ForksOK
<1>5. NSLOT \in Nat /\ k \in Nat /\ loc[p] \in Local
  BY <1>2, PipeAssumption DEF Types, Local
<1>6. \A y : y \in rest <=> /\ y >= k
                            /\ \/ y \in Slot /\ fdm[p][y] # NULL
                               \/ \E s \in data[p] : y = NSLOT + s
  BY DEF SharedPages
<1>7. data[p] \subseteq Slot /\ Slot \subseteq Nat /\ (\A s \in Slot : s < NSLOT)
      /\ (\A y \in Nat : y < NSLOT => y \in Slot)
  BY <1>2, <1>5 DEF Types, Slot
<1>8. /\ \A s \in Slot : fdm[c][s] = IF s < k THEN fdm[p][s] ELSE NULL
      /\ \A s \in Slot : s \in data[c] <=> NSLOT + s < k /\ s \in data[p]
  BY <1>3 DEF Given
<1> HIDE DEF c, k
<1>9. CASE rest # {}
  <2>1. rest \in SUBSET Nat
    <3> SUFFICES ASSUME NEW y \in rest PROVE y \in Nat
      OBVIOUS
    <3>1. CASE y \in Slot
      BY <3>1, <1>7
    <3>2. CASE \E s \in data[p] : y = NSLOT + s
      BY <3>2, <1>5, <1>7
    <3> QED BY <3>1, <3>2, <1>6
  <2>2. x \in rest /\ \A y \in rest : x <= y
    BY <2>1, <1>9, MinFacts
  <2> DEFINE call == [loc[p] EXCEPT !.k = x + 1]
  <2>3. /\ x \in Nat /\ x >= k /\ loc' = [loc EXCEPT ![p] = call] /\ pc' = pc
        /\ IF x < NSLOT
             THEN fdm' = [fdm EXCEPT ![c][x] = fdm[p][x]] /\ UNCHANGED data
             ELSE data' = [data EXCEPT ![c] = @ \union {x - NSLOT}] /\ UNCHANGED fdm
    <3>1. x \in Nat /\ x >= k
      BY <2>1, <2>2, <1>6
    <3> QED BY <3>1, <1>1, <1>9
  <2>4. \A s \in Slot : s >= k /\ s < x => fdm[p][s] = NULL
    BY <2>2, <2>3, <1>5, <1>6, <1>7
  <2>5. \A s \in data[p] : ~ (NSLOT + s >= k /\ NSLOT + s < x)
    BY <2>2, <2>3, <1>5, <1>6, <1>7
  <2>6. x < NSLOT => x \in Slot
    BY <2>3, <1>5, <1>7
  <2>7. ~ (x < NSLOT) => x - NSLOT \in data[p]
    BY <2>2, <2>3, <1>5, <1>6, <1>7
  <2> HIDE DEF x, rest
  <2>8. call \in Local
    <3>1. x + 1 \in Nat
      BY <2>3
    <3> QED BY <3>1, <1>5, LocalUpdates
  <2>9. call.k = x + 1 /\ call.child = c /\ call.op = loc[p].op
    BY <1>5, UpdateFields DEF c
  <2> HIDE DEF call
  <2>10. /\ loc' \in [Proc -> Local] /\ loc'[p] = call
         /\ \A q \in Proc : q # p => loc'[q] = loc[q]
    BY <2>3, <2>8, <1>2 DEF Types
  <2>11. /\ fdm' \in [Proc -> [Slot -> End \union {NULL}]] /\ data' \in [Proc -> SUBSET Slot]
         /\ \A q \in Proc : q # c => fdm'[q] = fdm[q] /\ data'[q] = data[q]
    <3>1. CASE x < NSLOT
      <4>1. fdm' = [fdm EXCEPT ![c][x] = fdm[p][x]] /\ data' = data /\ fdm[p][x] \in End \union {NULL}
        BY <3>1, <2>3, <2>6, <1>2 DEF Types
      <4>2. fdm' = [fdm EXCEPT ![c] = [fdm[c] EXCEPT ![x] = fdm[p][x]]]
        BY <4>1
      <4>3. [fdm[c] EXCEPT ![x] = fdm[p][x]] \in [Slot -> End \union {NULL}]
        BY <4>1, <1>2, <1>3 DEF Types
      <4> QED BY <4>1, <4>2, <4>3, <1>2, <1>3 DEF Types
    <3>2. CASE ~ (x < NSLOT)
      BY <3>2, <2>3, <2>7, <1>2, <1>3, <1>7 DEF Types
    <3> QED BY <3>1, <3>2
  <2>12. Types'
    BY <2>3, <2>10, <2>11, <1>1, <1>2 DEF Types, bufVars
  <2>13. /\ \A s \in Slot : fdm'[c][s] = IF s < x + 1 THEN fdm[p][s] ELSE NULL
         /\ \A s \in Slot : s \in data'[c] <=> NSLOT + s < x + 1 /\ s \in data[p]
    <3>1. CASE x < NSLOT
      <4>1. fdm'[c][x] = fdm[p][x] /\ (\A s \in Slot : s # x => fdm'[c][s] = fdm[c][s]) /\ data' = data
        BY <3>1, <2>3, <2>6, <1>2, <1>3 DEF Types
      <4>2. ASSUME NEW s \in Slot PROVE fdm'[c][s] = IF s < x + 1 THEN fdm[p][s] ELSE NULL
        <5>1. CASE s = x
          BY <5>1, <4>1, <2>3
        <5>2. CASE s # x
          BY <5>2, <4>1, <2>3, <2>4, <1>5, <1>7, <1>8
        <5> QED BY <5>1, <5>2
      <4>3. \A s \in Slot : s \in data'[c] <=> NSLOT + s < x + 1 /\ s \in data[p]
        BY <4>1, <3>1, <2>3, <1>5, <1>7, <1>8
      <4> QED BY <4>2, <4>3
    <3>2. CASE ~ (x < NSLOT)
      <4>1. fdm' = fdm /\ data'[c] = data[c] \union {x - NSLOT}
        BY <3>2, <2>3, <1>2, <1>3 DEF Types
      <4>2. \A s \in Slot : fdm'[c][s] = IF s < x + 1 THEN fdm[p][s] ELSE NULL
        BY <4>1, <3>2, <2>3, <2>4, <1>5, <1>7, <1>8
      <4>3. ASSUME NEW s \in Slot PROVE s \in data'[c] <=> NSLOT + s < x + 1 /\ s \in data[p]
        <5>1. CASE NSLOT + s = x
          <6>1. s = x - NSLOT
            BY <5>1, <2>3, <1>5, <1>7
          <6>2. s \in data'[c] /\ s \in data[p]
            BY <6>1, <4>1, <3>2, <2>7
          <6> QED BY <5>1, <6>2, <2>3
        <5>2. CASE NSLOT + s # x
          <6>1. s # x - NSLOT
            BY <5>2, <2>3, <1>5, <1>7
          <6>2. s \in data'[c] <=> s \in data[c]
            BY <6>1, <4>1
          <6>3. s \in data[p] => (NSLOT + s < k <=> NSLOT + s < x + 1)
            BY <5>2, <2>3, <2>5, <1>5, <1>7
          <6> QED BY <6>2, <6>3, <1>8
        <5> QED BY <5>1, <5>2
      <4> QED BY <4>2, <4>3
    <3> QED BY <3>1, <3>2
  <2>14. \A q \in Proc : SlotsOK(q)'
    <3> SUFFICES ASSUME NEW q \in Proc PROVE SlotsOK(q)'
      OBVIOUS
    <3>1. CASE q = c
      BY <3>1, <2>3, <1>3 DEF SlotsOK
    <3>2. CASE q = p
      BY <3>2, <2>3, <2>11, <1>1, <1>2, <1>3 DEF SlotsOK, Moving, Paired
    <3>3. CASE q # c /\ q # p
      <4>1. /\ fdm'[q] = fdm[q] /\ data'[q] = data[q] /\ pc'[q] = pc[q] /\ loc'[q] = loc[q]
            /\ torn' = torn /\ SlotsOK(q)
        BY <3>3, <2>3, <2>10, <2>11, <1>1, <1>2
      <4> QED BY <4>1 DEF SlotsOK, Moving, Paired
    <3> QED BY <3>1, <3>2, <3>3
  <2>15. \A q \in Proc : loc'[q].child = loc[q].child
    BY <2>9, <2>10 DEF c
  <2>16. ASSUME NEW q \in Proc, pc[q] = "fork"
         PROVE  Given(q, loc[q].child)'
    <3>1. CASE q = p
      BY <3>1, <2>9, <2>10, <2>11, <2>13, <1>3 DEF Given, c
    <3>2. CASE q # p
      <4>1. /\ loc[q].child # c /\ q # c /\ loc[q].child \in Proc /\ loc'[q] = loc[q]
            /\ Given(q, loc[q].child)
        BY <3>2, <2>10, <2>16, <1>2, <1>3, <1>4 DEF ForksOK
      <4> QED BY <4>1, <2>11 DEF Given
    <3> QED BY <3>1, <3>2
  <2>17. ForksOK'
    BY <2>3, <2>15, <2>16, <1>2 DEF ForksOK
  <2>18. Accounts'
    BY <2>12, <2>14, <2>17 DEF Accounts
  <2> QED BY <2>3, <2>9, <2>10, <2>18, <1>1
<1>10. CASE rest = {}
  <2>1. /\ pc' = [pc EXCEPT ![p] = "run", ![c] = "run"] /\ loc' = [loc EXCEPT ![p] = NoCall]
        /\ fdm' = fdm /\ data' = data /\ torn' = torn
    BY <1>1, <1>10 DEF fdVars
  <2>2. /\ pc' \in [Proc -> Pc] /\ pc'[p] = "run" /\ pc'[c] = "run"
        /\ \A q \in Proc : q # p /\ q # c => pc'[q] = pc[q]
    <3>1. "run" \in Pc
      BY DEF Pc
    <3> QED BY <3>1, <2>1, <1>2, <1>3 DEF Types
  <2>3. /\ loc' \in [Proc -> Local] /\ loc'[p] = NoCall
        /\ \A q \in Proc : q # p => loc'[q] = loc[q]
    <3>1. NoCall \in Local
      BY NoCallFacts
    <3> QED BY <3>1, <2>1, <1>2 DEF Types
  <2>4. Types'
    BY <2>1, <2>2, <2>3, <1>1, <1>2 DEF Types, bufVars
  <2>5. \A s \in Slot : s >= k => fdm[p][s] = NULL
    BY <1>6, <1>10
  <2>6. \A s \in data[p] : ~ (NSLOT + s >= k)
    BY <1>6, <1>10
  <2> HIDE DEF x, rest
  <2>7. \A s \in Slot : Paired(p, s)
    BY <1>1, <1>2 DEF SlotsOK, Moving
  <2>8. \A s \in Slot : Paired(c, s)
    <3> SUFFICES ASSUME NEW s \in Slot PROVE fdm[c][s] = fdm[p][s] /\ (s \in data[c] <=> s \in data[p])
      BY <2>7 DEF Paired
    <3>1. fdm[c][s] = fdm[p][s]
      BY <2>5, <1>5, <1>7, <1>8
    <3>2. s \in data[c] <=> s \in data[p]
      BY <2>6, <1>5, <1>7, <1>8
    <3> QED BY <3>1, <3>2
  <2>9. \A q \in Proc : SlotsOK(q)'
    <3> SUFFICES ASSUME NEW q \in Proc PROVE SlotsOK(q)'
      OBVIOUS
    <3>1. CASE q = c \/ q = p
      BY <3>1, <2>1, <2>2, <2>7, <2>8 DEF SlotsOK, Paired
    <3>2. CASE q # c /\ q # p
      <4>1. /\ fdm'[q] = fdm[q] /\ data'[q] = data[q] /\ pc'[q] = pc[q] /\ loc'[q] = loc[q]
            /\ torn' = torn /\ SlotsOK(q)
        BY <3>2, <2>1, <2>2, <2>3, <1>2
      <4> QED BY <4>1 DEF SlotsOK, Moving, Paired
    <3> QED BY <3>1, <3>2
  <2>10. ASSUME NEW q \in Proc, pc'[q] = "fork"
         PROVE  /\ q # p /\ pc[q] = "fork" /\ loc'[q] = loc[q]
                /\ (loc[q].child \in Proc /\ pc[loc[q].child] = "new" /\ Given(q, loc[q].child))'
    <3>1. q # p /\ q # c /\ pc[q] = "fork" /\ loc'[q] = loc[q]
      BY <2>2, <2>3, <2>10
    <3>2. /\ loc[q].child \in Proc /\ pc[loc[q].child] = "new" /\ Given(q, loc[q].child)
          /\ loc[q].child # c /\ loc[q].child # p
      BY <3>1, <1>2, <1>4 DEF ForksOK
    <3>3. pc'[loc[q].child] = "new"
      BY <3>2, <2>2
    <3> QED BY <3>1, <3>2, <3>3, <2>1 DEF Given
  <2>11. \A q, r \in Proc : pc'[q] = "fork" /\ pc'[r] = "fork" /\ loc'[q].child = loc'[r].child => q = r
    BY <2>10, <1>2 DEF ForksOK
  <2>12. ASSUME NEW d \in Proc, pc'[d] = "new"
         PROVE  \E q \in Proc : pc'[q] = "fork" /\ loc'[q].child = d
    <3>1. pc[d] = "new" /\ d # c
      BY <2>2, <2>12
    <3>2. PICK q \in Proc : pc[q] = "fork" /\ loc[q].child = d
      BY <3>1, <1>2 DEF ForksOK
    <3>3. q # p /\ q # c
      BY <3>1, <3>2, <1>3 DEF c
    <3> QED BY <3>2, <3>3, <2>2, <2>3
  <2>13. ForksOK'
    BY <2>10, <2>11, <2>12 DEF ForksOK
  <2>14. Accounts'
    BY <2>4, <2>9, <2>13 DEF Accounts
  <2> QED BY <2>2, <2>3, <2>14, <1>1
<1> QED BY <1>9, <1>10

(* At first every slot has both pages or none. *)
LEMMA InitAccounts == Init => Accounts
<1> SUFFICES ASSUME Init PROVE Accounts
  OBVIOUS
<1>1. /\ fdm = Start /\ data = [p \in Proc |-> {s \in Slot : Start[p][s] # NULL}]
      /\ pc = [p \in Proc |-> IF \E s \in Slot : Start[p][s] # NULL THEN "run" ELSE "none"]
      /\ loc = [p \in Proc |-> NoCall] /\ p_rpos = 0 /\ p_wpos = 0 /\ torn = FALSE
      /\ p_buf = [x \in 0 .. BY2PIPE - 1 |-> 0] /\ cur \in Proc
  BY DEF Init
<1>2. Start \in [Proc -> [Slot -> End \union {NULL}]] /\ NoCall \in Local
  BY PipeAssumption, NoCallFacts
<1>3. pc \in [Proc -> Pc] /\ \A p \in Proc : pc[p] \in {"run", "none"}
  BY <1>1 DEF Pc
<1>4. Types
  <2>1. data \in [Proc -> SUBSET Slot]
    BY <1>1
  <2>2. p_buf \in [0 .. BY2PIPE - 1 -> Nat]
    BY <1>1
  <2> QED BY <2>1, <2>2, <1>1, <1>2, <1>3 DEF Types
<1>5. ASSUME NEW p \in Proc PROVE SlotsOK(p)
  <2>1. data[p] = {s \in Slot : fdm[p][s] # NULL}
    BY <1>1
  <2>2. \A s \in Slot : Paired(p, s)
    BY <2>1 DEF Paired
  <2>3. pc[p] = "none" => \A s \in Slot : fdm[p][s] = NULL /\ s \notin data[p]
    BY <1>1
  <2> QED BY <2>2, <2>3, <1>3 DEF SlotsOK
<1>6. ForksOK
  BY <1>3 DEF ForksOK
<1> QED BY <1>4, <1>5, <1>6 DEF Accounts

(* The steps that map nothing, by what they do. *)
LEMMA CalmSteps ==
  ASSUME Types, NEW p \in Proc,
         \/ ReadFdref(p) \/ ReadPref(p) \/ ReturnClosed(p)
         \/ RTest(p) \/ RGet(p) \/ RInc(p) \/ WTest(p) \/ WPut(p) \/ WInc(p)
         \/ \E s \in Slot : PipeIsClosed(p, s)
         \/ \E s \in Slot, n \in Chunk : Read(p, s, n) \/ Write(p, s, n)
  PROVE  Types' /\ Calmly(p)
<1>1. CASE ReadFdref(p)
  BY <1>1, ReadFdrefStep
<1>2. CASE ReadPref(p)
  BY <1>2, ReadPrefStep
<1>3. CASE ReturnClosed(p)
  BY <1>3, ReturnClosedStep
<1>4. CASE RTest(p)
  BY <1>4, RTestStep
<1>5. CASE RGet(p)
  BY <1>5, RGetStep
<1>6. CASE RInc(p)
  BY <1>6, RIncStep
<1>7. CASE WTest(p)
  BY <1>7, WTestStep
<1>8. CASE WPut(p)
  BY <1>8, WPutStep
<1>9. CASE WInc(p)
  BY <1>9, WIncStep
<1>10. CASE \E s \in Slot : PipeIsClosed(p, s)
  BY <1>10, PipeIsClosedStep
<1>11. CASE \E s \in Slot, n \in Chunk : Read(p, s, n) \/ Write(p, s, n)
  BY <1>11, ReadStep, WriteStep
<1> QED BY <1>1, <1>2, <1>3, <1>4, <1>5, <1>6, <1>7, <1>8, <1>9, <1>10, <1>11

(* The steps of a process, the ones that map nothing together. *)
LEMMA StepCases ==
  ASSUME NEW p \in Proc, Switch(p) \/ Step(p) \/ Call(p)
  PROVE  \/ Switch(p)
         \/ CloseData(p) \/ DupData(p) \/ DupFd(p) \/ ForkPage(p)
         \/ Exit(p)
         \/ \E s \in Slot : Close(p, s)
         \/ \E s, t \in Slot : Dup(p, s, t)
         \/ \E c \in Proc : Fork(p, c)
         \/ ReadFdref(p) \/ ReadPref(p) \/ ReturnClosed(p)
         \/ RTest(p) \/ RGet(p) \/ RInc(p) \/ WTest(p) \/ WPut(p) \/ WInc(p)
         \/ \E s \in Slot : PipeIsClosed(p, s)
         \/ \E s \in Slot, n \in Chunk : Read(p, s, n) \/ Write(p, s, n)
BY Zenon DEF Step, Call

(* Every step accounts for the pages. *)
LEMMA NextAccounts ==
  ASSUME Accounts, [Next]_vars
  PROVE  Accounts'
<1>1. CASE UNCHANGED vars
  BY <1>1 DEF vars, fdVars, bufVars, Accounts, Types, SlotsOK, Moving, Paired, ForksOK, Given
<1>2. CASE AllGone
  BY <1>1, <1>2 DEF AllGone
<1>3. ASSUME NEW p \in Proc, Switch(p) \/ Step(p) \/ Call(p)
      PROVE  Accounts'
  <2>1. CASE Switch(p)
    BY <2>1, SwitchAccounts
  <2>2. CASE CloseData(p)
    BY <2>2, CloseDataAccounts
  <2>3. CASE DupData(p)
    BY <2>3, DupDataAccounts
  <2>4. CASE DupFd(p)
    BY <2>4, DupFdAccounts
  <2>5. CASE ForkPage(p)
    BY <2>5, ForkPageAccounts
  <2>6. CASE Exit(p)
    BY <2>6, ExitAccounts
  <2>7. CASE \E s \in Slot : Close(p, s)
    BY <2>7, CloseAccounts
  <2>8. CASE \E s, t \in Slot : Dup(p, s, t)
    BY <2>8, DupAccounts
  <2>9. CASE \E c \in Proc : Fork(p, c)
    BY <2>9, ForkAccounts
  <2>10. CASE \/ ReadFdref(p) \/ ReadPref(p) \/ ReturnClosed(p)
              \/ RTest(p) \/ RGet(p) \/ RInc(p) \/ WTest(p) \/ WPut(p) \/ WInc(p)
              \/ \E s \in Slot : PipeIsClosed(p, s)
              \/ \E s \in Slot, n \in Chunk : Read(p, s, n) \/ Write(p, s, n)
    <3>1. Types' /\ Calmly(p)
      BY <2>10, CalmSteps DEF Accounts
    <3> QED BY <3>1, CalmAccounts
  <2> QED BY <1>3, StepCases, <2>1, <2>2, <2>3, <2>4, <2>5, <2>6, <2>7, <2>8, <2>9, <2>10
<1> QED BY <1>1, <1>2, <1>3 DEF Next

(* The pages of every slot are accounted for in the middle of every call.  *)
THEOREM AccountsInvariant == Spec => []Accounts
<1>1. Init => Accounts
  BY InitAccounts
<1>2. Accounts /\ [Next]_vars => Accounts'
  BY NextAccounts
<1> QED BY <1>1, <1>2, PTL DEF Spec

(* With nobody remapping, every slot has both its pages or none: the two   *)
(* sets of entries are the same set.                                       *)
LEMMA AccountsAgree == Accounts => RefsAgree
<1> SUFFICES ASSUME Accounts, torn = FALSE, \A p \in Proc : pc[p] \notin Remapping
             PROVE  DataRefs = Refs("r") + Refs("w")
  BY DEF RefsAgree, Accounts, Types
<1> DEFINE R == {x \in Proc \X Slot : fdm[x[1]][x[2]] = "r"}
           W == {x \in Proc \X Slot : fdm[x[1]][x[2]] = "w"}
           D == {x \in Proc \X Slot : x[2] \in data[x[1]]}
<1>1. \A p \in Proc : pc[p] # "new"
  BY DEF Accounts, ForksOK, Remapping
<1>2. ASSUME NEW p \in Proc, NEW s \in Slot
      PROVE  s \in data[p] <=> fdm[p][s] \in {"r", "w"}
  <2>1. Paired(p, s)
    BY <1>1 DEF Accounts, SlotsOK, Moving, Remapping
  <2>2. fdm[p][s] \in {"r", "w", NULL} /\ NULL \notin {"r", "w"}
    BY PipeAssumption DEF Accounts, Types, End
  <2> QED BY <2>1, <2>2 DEF Paired
<1>3. D = R \union W
  <2>1. ASSUME NEW x \in Proc \X Slot
        PROVE  x[2] \in data[x[1]] <=> (fdm[x[1]][x[2]] = "r" \/ fdm[x[1]][x[2]] = "w")
    BY <1>2
  <2> QED BY <2>1
<1>4. R \intersect W = {}
  OBVIOUS
<1>5. IsFiniteSet(R) /\ IsFiniteSet(W)
  BY Counting
<1>6. Refs("r") = Cardinality(R) /\ Refs("w") = Cardinality(W) /\ DataRefs = Cardinality(D)
  BY DEF Refs, DataRefs
<1>7. Cardinality(R) \in Nat /\ Cardinality(W) \in Nat
  BY <1>5, FS_CardinalityType
<1> HIDE DEF R, W, D
<1>8. Cardinality(R \union W) = Cardinality(R) + Cardinality(W) - Cardinality(R \intersect W)
  BY <1>5, FS_Union
<1>9. Cardinality(R \intersect W) = 0
  BY <1>4, FS_EmptySet
<1> QED BY <1>3, <1>6, <1>7, <1>8, <1>9

(***************************************************************************)
(* For any processes and any distribution of descriptors: whenever no      *)
(* close, dup, fork or spawn is between two of its system calls, the data  *)
(* page has as many references as the two descriptor pages together, which *)
(* is what the test of _pipeisclosed compares.  A dup that fails gives     *)
(* back what it mapped; the one exception is a dup that went on although   *)
(* the data page could not be mapped (fd.c:168), see Pipe_dup.cfg.         *)
(***************************************************************************)
THEOREM ReferencesAgree == Spec => []RefsAgree
BY AccountsInvariant, AccountsAgree, PTL

-----------------------------------------------------------------------------
(* The answer of _pipeisclosed *)

(* An end that nobody has appears nowhere but by a fork's copy of it. *)
LEMMA AloneVerdicts ==
  ASSUME Accounts, Verdicts, NEW p \in Proc, Alone(p), cur = p, cur' = cur, VerdictOK(p)',
         \A t \in Slot : fdm'[p][t] = NULL \/ \E u \in Slot : fdm'[p][t] = fdm[p][u]
  PROVE  Verdicts'
<1>1. ASSUME NEW end \in End, Nobody(end) PROVE Nobody(end)'
  <2> SUFFICES ASSUME NEW q \in Proc, NEW s \in Slot PROVE fdm'[q][s] # end
    BY DEF Nobody
  <2>1. CASE q = p
    <3>1. end # NULL
      BY PipeAssumption
    <3> QED BY <2>1, <3>1, <1>1 DEF Nobody
  <2>2. CASE q # p
    BY <2>2, <1>1 DEF Alone, Nobody
  <2> QED BY <2>1, <2>2
<1>2. ASSUME NEW q \in Proc, q # p PROVE VerdictOK(q)'
  <2>1. pc'[q] = pc[q] /\ loc'[q] = loc[q] /\ fdm'[q] = fdm[q] /\ cur' # q /\ VerdictOK(q)
    BY <1>2 DEF Alone, Framed, Verdicts
  <2>2. pc[q] = "closed" => Nobody(Other(fdm[q][loc[q].slot]))'
    <3> SUFFICES ASSUME pc[q] = "closed" PROVE Nobody(Other(fdm[q][loc[q].slot]))'
      OBVIOUS
    <3> DEFINE end == Other(fdm[q][loc[q].slot])
    <3>1. end \in End /\ Nobody(end)
      BY <2>1 DEF VerdictOK, Other, End
    <3>2. \A x \in End : Nobody(x) => Nobody(x)'
      BY <1>1
    <3>3. Other(fdm[q][loc[q].slot])' = end
      BY <2>1
    <3> HIDE DEF end
    <3>4. \A s \in Slot, r \in Proc : fdm'[r][s] # end
      BY <3>1, <3>2 DEF Nobody
    <3> QED BY <3>3, <3>4 DEF Nobody
  <2> QED BY <2>1, <2>2 DEF VerdictOK
<1>3. \A q \in Proc : pc'[q] \notin {"fork", "new"}
  BY DEF Alone, Framed, Verdicts
<1> QED BY <1>2, <1>3 DEF Verdicts

(* Steps of close, dup and exit answer nothing. *)
LEMMA MappingVerdicts ==
  ASSUME Accounts, Verdicts, NEW p \in Proc,
         \/ CloseData(p) \/ DupData(p) \/ DupFd(p) \/ Exit(p)
         \/ \E s \in Slot : Close(p, s)
         \/ \E s, t \in Slot : Dup(p, s, t)
  PROVE  Verdicts'
<1>1. /\ Alone(p) /\ cur = p /\ cur' = cur
      /\ pc'[p] \in {"run", "close", "dupdata", "dupfd", "dead"}
      /\ \A t \in Slot : fdm'[p][t] = NULL \/ \E u \in Slot : fdm'[p][t] = fdm[p][u]
  <2>1. CASE CloseData(p)
    BY <2>1, CloseDataAccounts DEF CloseData, At
  <2>2. CASE DupData(p)
    BY <2>2, DupDataAccounts DEF DupData, At
  <2>3. CASE DupFd(p)
    BY <2>3, DupFdAccounts DEF DupFd, At
  <2>4. CASE Exit(p)
    BY <2>4, ExitAccounts
  <2>5. CASE \E s \in Slot : Close(p, s)
    BY <2>5, CloseAccounts
  <2>6. CASE \E s, t \in Slot : Dup(p, s, t)
    BY <2>6, DupAccounts
  <2> QED BY <2>1, <2>2, <2>3, <2>4, <2>5, <2>6
<1>2. VerdictOK(p)'
  BY <1>1 DEF VerdictOK, Calm
<1> QED BY <1>1, <1>2, AloneVerdicts

(***************************************************************************)
(* A count of an end that equals the count of the data page leaves no      *)
(* reference to the other end: every descriptor page is mapped with its    *)
(* data page, also between the system calls of close and dup.              *)
(***************************************************************************)
LEMMA EqualCounts ==
  ASSUME Accounts, Verdicts, torn = FALSE, NEW end \in End, Refs(end) = DataRefs
  PROVE  Nobody(Other(end))
<1> DEFINE E == {x \in Proc \X Slot : fdm[x[1]][x[2]] = end}
           D == {x \in Proc \X Slot : x[2] \in data[x[1]]}
<1>1. ASSUME NEW p \in Proc, NEW s \in Slot, fdm[p][s] # NULL
      PROVE  s \in data[p]
  <2>1. SlotsOK(p) /\ pc[p] # "new"
    BY DEF Accounts, Verdicts
  <2> QED BY <2>1, <1>1 DEF SlotsOK, Moving, Paired
<1>2. Other(end) # end /\ Other(end) # NULL /\ end # NULL
  BY PipeAssumption DEF Other, End
<1>3. \A x \in Proc \X Slot : fdm[x[1]][x[2]] = end => x[2] \in data[x[1]]
  BY <1>1, <1>2
<1>4. E \subseteq D
  BY <1>3
<1>5. IsFiniteSet(D) /\ IsFiniteSet(E) /\ Cardinality(E) = Cardinality(D)
  BY Counting DEF Refs, DataRefs
<1>6. E = D
  BY <1>4, <1>5, FS_Subset
<1> SUFFICES ASSUME NEW p \in Proc, NEW s \in Slot, fdm[p][s] = Other(end)
             PROVE  FALSE
  BY DEF Nobody
<1>7. <<p, s>> \in D
  BY <1>1, <1>2
<1>8. fdm[p][s] = end
  BY <1>6, <1>7
<1> QED BY <1>2, <1>8

(* The steps of a read, a write or a test. *)
LEMMA CalmVerdicts ==
  ASSUME Accounts, Verdicts, torn = FALSE, NEW p \in Proc,
         \/ ReadFdref(p) \/ ReadPref(p) \/ ReturnClosed(p)
         \/ RTest(p) \/ RGet(p) \/ RInc(p) \/ WTest(p) \/ WPut(p) \/ WInc(p)
         \/ \E s \in Slot : PipeIsClosed(p, s)
         \/ \E s \in Slot, n \in Chunk : Read(p, s, n) \/ Write(p, s, n)
  PROVE  Verdicts'
<1>1. Types /\ VerdictOK(p)
  BY DEF Accounts, Verdicts
<1>2. Calmly(p)
  BY <1>1, CalmSteps
<1>3. fdm' = fdm /\ data' = data /\ cur = p /\ cur' = cur /\ Alone(p)
  BY <1>2 DEF Calmly, Alone, Calm
<1>4. pc'[p] \in Calm \ {"run"} => fdm'[p][loc'[p].slot] \in End
  BY <1>1, <1>2, <1>3 DEF Calmly, VerdictOK
<1>5. CASE ReadFdref(p)
  <2>1. /\ pc'[p] = "pref" /\ loc'[p].slot = loc[p].slot
        /\ loc'[p].fdref = Refs(fdm[p][loc[p].slot])
    BY <1>5, <1>1, ReadFdrefStep
  <2>2. Refs(fdm[p][loc[p].slot])' = Refs(fdm[p][loc[p].slot])
    BY <2>1, <1>3 DEF Refs
  <2>3. VerdictOK(p)'
    BY <2>1, <2>2, <1>4 DEF VerdictOK
  <2> QED BY <2>3, <1>3, AloneVerdicts
<1>6. CASE ReadPref(p)
  <2>1. /\ pc[p] = "pref" /\ pc'[p] # "pref"
        /\ pc'[p] = "closed" =>
             loc[p].fresh /\ loc[p].fdref = Pref(p, loc[p].slot) /\ loc'[p].slot = loc[p].slot
    BY <1>6, <1>1, ReadPrefStep
  <2>2. ASSUME pc'[p] = "closed" PROVE Nobody(Other(fdm[p][loc[p].slot]))'
    <3> DEFINE end == fdm[p][loc[p].slot]
    <3>1. end \in End /\ Refs(end) = Pref(p, loc[p].slot)
      BY <2>1, <2>2, <1>1, <1>3 DEF VerdictOK, Calm
    <3>2. loc[p].slot \in data[p]
      <4>1. SlotsOK(p) /\ loc[p].slot \in Slot /\ end # NULL
        BY <3>1, PipeAssumption DEF Accounts, Types, Local
      <4> QED BY <4>1, <2>1 DEF SlotsOK, Moving, Paired
    <3>3. Refs(end) = DataRefs
      BY <3>1, <3>2 DEF Pref
    <3>4. Nobody(Other(end))
      BY <3>1, <3>3, EqualCounts
    <3> QED BY <3>4, <2>1, <2>2, <1>3 DEF Nobody
  <2>3. VerdictOK(p)'
    BY <2>1, <2>2, <1>4 DEF VerdictOK
  <2> QED BY <2>3, <1>3, AloneVerdicts
<1>7. CASE \/ ReturnClosed(p)
           \/ RTest(p) \/ RGet(p) \/ RInc(p) \/ WTest(p) \/ WPut(p) \/ WInc(p)
           \/ \E s \in Slot : PipeIsClosed(p, s)
           \/ \E s \in Slot, n \in Chunk : Read(p, s, n) \/ Write(p, s, n)
  <2>1. pc'[p] \notin {"pref", "closed"}
    <3>1. CASE ReturnClosed(p)
      BY <3>1, <1>1, ReturnClosedStep
    <3>2. CASE RTest(p)
      BY <3>2, <1>1, RTestStep
    <3>3. CASE RGet(p)
      BY <3>3, <1>1, RGetStep
    <3>4. CASE RInc(p)
      BY <3>4, <1>1, RIncStep
    <3>5. CASE WTest(p)
      BY <3>5, <1>1, WTestStep
    <3>6. CASE WPut(p)
      BY <3>6, <1>1, WPutStep
    <3>7. CASE WInc(p)
      BY <3>7, <1>1, WIncStep
    <3>8. CASE \E s \in Slot : PipeIsClosed(p, s)
      BY <3>8, <1>1, PipeIsClosedStep
    <3>9. CASE \E s \in Slot, n \in Chunk : Read(p, s, n) \/ Write(p, s, n)
      BY <3>9, <1>1, ReadStep, WriteStep
    <3> QED BY <1>7, <3>1, <3>2, <3>3, <3>4, <3>5, <3>6, <3>7, <3>8, <3>9
  <2>2. VerdictOK(p)'
    BY <2>1, <1>4 DEF VerdictOK
  <2> QED BY <2>2, <1>3, AloneVerdicts
<1> QED BY <1>5, <1>6, <1>7

(* A switch: the count read is used by nobody but the one who stayed on the CPU. *)
LEMMA SwitchVerdicts ==
  ASSUME Accounts, Verdicts, NEW p \in Proc, Switch(p)
  PROVE  Verdicts'
<1>1. /\ fdm' = fdm /\ pc' = pc /\ cur' = p /\ ~ loc'[p].fresh
      /\ \A q \in Proc : loc'[q].slot = loc[q].slot
  BY SwitchStep DEF Accounts
<1>2. ASSUME NEW q \in Proc PROVE VerdictOK(q)' /\ pc'[q] \notin {"fork", "new"}
  <2>1. VerdictOK(q) /\ pc[q] \notin {"fork", "new"}
    BY DEF Verdicts
  <2>2. ~ (cur' = q /\ loc'[q].fresh)
    BY <1>1
  <2>3. \A end : Nobody(end) <=> Nobody(end)'
    BY <1>1 DEF Nobody
  <2>4. pc[q] = "closed" => Nobody(Other(fdm[q][loc[q].slot]))'
    BY <2>1, <1>1 DEF VerdictOK, Nobody
  <2> QED BY <2>1, <2>2, <2>4, <1>1 DEF VerdictOK
<1> QED BY <1>2 DEF Verdicts

(* Every step but those of a fork keeps the verdicts. *)
LEMMA NextVerdicts ==
  ASSUME "fork" \notin Api, Accounts, Verdicts, torn = FALSE, [Next]_vars
  PROVE  Verdicts'
<1>1. CASE UNCHANGED vars
  BY <1>1 DEF vars, fdVars, bufVars, Verdicts, VerdictOK, Nobody, Refs
<1>2. CASE AllGone
  BY <1>1, <1>2 DEF AllGone
<1>3. ASSUME NEW p \in Proc, Switch(p) \/ Step(p) \/ Call(p)
      PROVE  Verdicts'
  <2>1. ~ ForkPage(p) /\ ~ \E c \in Proc : Fork(p, c)
    BY DEF ForkPage, Fork, At, Verdicts
  <2>2. CASE Switch(p)
    BY <2>2, SwitchVerdicts
  <2>3. CASE \/ CloseData(p) \/ DupData(p) \/ DupFd(p) \/ Exit(p)
             \/ \E s \in Slot : Close(p, s)
             \/ \E s, t \in Slot : Dup(p, s, t)
    BY <2>3, MappingVerdicts
  <2>4. CASE \/ ReadFdref(p) \/ ReadPref(p) \/ ReturnClosed(p)
             \/ RTest(p) \/ RGet(p) \/ RInc(p) \/ WTest(p) \/ WPut(p) \/ WInc(p)
             \/ \E s \in Slot : PipeIsClosed(p, s)
             \/ \E s \in Slot, n \in Chunk : Read(p, s, n) \/ Write(p, s, n)
    BY <2>4, CalmVerdicts
  <2> QED BY <1>3, StepCases, <2>1, <2>2, <2>3, <2>4
<1> QED BY <1>1, <1>2, <1>3 DEF Next

(* Once torn, always torn. *)
LEMMA TornStays ==
  ASSUME Accounts, [Next]_vars, torn' = FALSE
  PROVE  torn = FALSE
<1>1. CASE UNCHANGED vars
  BY <1>1 DEF vars, fdVars
<1>2. CASE AllGone
  BY <1>1, <1>2 DEF AllGone
<1>3. ASSUME NEW p \in Proc, Switch(p) \/ Step(p) \/ Call(p)
      PROVE  torn = FALSE
  <2>1. CASE Switch(p) \/ ForkPage(p) \/ \E c \in Proc : Fork(p, c)
    BY <2>1 DEF Switch, ForkPage, Fork, fdVars
  <2>2. CASE \/ CloseData(p) \/ DupData(p) \/ DupFd(p) \/ Exit(p)
             \/ \E s \in Slot : Close(p, s)
             \/ \E s, t \in Slot : Dup(p, s, t)
    BY <2>2, CloseDataAccounts, DupDataAccounts, DupFdAccounts, ExitAccounts, CloseAccounts,
       DupAccounts DEF Alone
  <2>3. CASE \/ ReadFdref(p) \/ ReadPref(p) \/ ReturnClosed(p)
             \/ RTest(p) \/ RGet(p) \/ RInc(p) \/ WTest(p) \/ WPut(p) \/ WInc(p)
             \/ \E s \in Slot : PipeIsClosed(p, s)
             \/ \E s \in Slot, n \in Chunk : Read(p, s, n) \/ Write(p, s, n)
    BY <2>3, CalmSteps DEF Accounts, Calmly
  <2> QED BY <1>3, StepCases, <2>1, <2>2, <2>3
<1> QED BY <1>1, <1>2, <1>3 DEF Next

(***************************************************************************)
(* In a program that does not fork while it uses the pipe, whatever the    *)
(* interleaving of close, dup, exit, read and write, also of a dup that    *)
(* fails, and however often the timer strikes between the two counts: when *)
(* _pipeisclosed says that the other end is closed, nobody has it, unless  *)
(* a dup has gone on without the data page (fd.c:168).  With such a dup,   *)
(* and with fork, it is false: Pipe_dup.cfg and Pipe_forkrace.cfg.         *)
(***************************************************************************)
THEOREM ClosedMeansClosed ==
  ASSUME "fork" \notin Api
  PROVE  Spec => []ClosedUnlessTorn
<1> DEFINE Inv == torn = FALSE => Verdicts
<1>1. Init => Inv
  <2> SUFFICES ASSUME Init PROVE Verdicts
    OBVIOUS
  <2>1. \A p \in Proc : pc[p] \in {"run", "none"}
    BY DEF Init
  <2> QED BY <2>1 DEF Verdicts, VerdictOK, Calm
<1>2. Accounts /\ Inv /\ [Next]_vars => Inv'
  BY NextVerdicts, TornStays
<1>3. Accounts /\ Inv => ClosedUnlessTorn
  <2> SUFFICES ASSUME Accounts, torn = FALSE, Verdicts, NEW p \in Proc, pc[p] = "closed"
               PROVE  Refs(Other(fdm[p][loc[p].slot])) = 0
    BY DEF ClosedUnlessTorn, ClosedIsClosed, Accounts, Types
  <2> DEFINE end == Other(fdm[p][loc[p].slot])
  <2>1. Nobody(end)
    BY DEF Verdicts, VerdictOK
  <2> HIDE DEF end
  <2>2. {x \in Proc \X Slot : fdm[x[1]][x[2]] = end} = {}
    BY <2>1 DEF Nobody
  <2>3. Refs(end) = 0
    BY <2>2, FS_EmptySet DEF Refs
  <2> QED BY <2>3 DEF end
<1>4. Spec => []Accounts
  BY AccountsInvariant
<1> HIDE DEF Inv
<1> QED BY <1>1, <1>2, <1>3, <1>4, PTL DEF Spec

-----------------------------------------------------------------------------
(* The ring, between one reader and one writer *)

OneEach == (\A p, q \in Reader : p = q) /\ (\A p, q \in Writer : p = q)

(* A step that leaves the ring alone. *)
LEMMA QuietRing ==
  ASSUME Ring, Types', NEW p \in Proc, bufVars' = bufVars, RingAt(p)',
         \A q \in Proc : q # p => RingAt(q)'
  PROVE  Ring'
BY DEF Ring, Held, bufVars

(* A step of p that leaves the ring and the other processes alone. *)
LEMMA FramedRing ==
  ASSUME Ring, Types', NEW p \in Proc, bufVars' = bufVars, Framed(p), RingAt(p)'
  PROVE  Ring'
<1>1. ASSUME NEW q \in Proc, q # p PROVE RingAt(q)'
  <2>1. pc'[q] = pc[q] /\ loc'[q] = loc[q] /\ RingAt(q)
    BY <1>1 DEF Framed, Ring
  <2> QED BY <2>1 DEF RingAt, bufVars
<1> QED BY <1>1, QuietRing

(* The reader is the only one that takes. *)
LEMMA RingReader ==
  ASSUME Ring, OneEach, NEW p \in Proc, pc[p] \in {"rget", "rinc"}, NEW q \in Proc, q # p
  PROVE  pc[q] \notin {"rget", "rinc"}
BY DEF Ring, RingAt, OneEach

(* The writer is the only one that puts. *)
LEMMA RingWriter ==
  ASSUME Ring, OneEach, NEW p \in Proc, pc[p] \in {"wput", "winc"}, NEW q \in Proc, q # p
  PROVE  pc[q] \notin {"wput", "winc"} /\ loc[q].op # "write"
BY DEF Ring, RingAt, OneEach

(* The steps of read and write that do not move a position or a byte. *)
LEMMA IdleRing ==
  ASSUME Ring, NEW p \in Proc,
         \/ ReadFdref(p) \/ ReadPref(p) \/ ReturnClosed(p)
         \/ RTest(p) \/ RGet(p) \/ WTest(p)
         \/ \E s \in Slot : PipeIsClosed(p, s)
         \/ \E s \in Slot, n \in Chunk : Read(p, s, n) \/ Write(p, s, n)
  PROVE  Ring'
<1>1. Types /\ RingAt(p) /\ NoCall.op = "none" /\ Held
  BY NoCallFacts DEF Ring
<1>2. Types' /\ Framed(p)
  BY <1>1, CalmSteps DEF Calmly
<1>3. bufVars' = bufVars /\ RingAt(p)'
  <2>1. CASE ReadFdref(p)
    <3>1. /\ bufVars' = bufVars /\ pc'[p] = "pref" /\ loc'[p].op = loc[p].op
          /\ loc'[p].i = loc[p].i /\ loc'[p].n = loc[p].n
      BY <2>1, <1>1, ReadFdrefStep
    <3> QED BY <3>1, <1>1 DEF RingAt, bufVars
  <2>2. CASE ReadPref(p)
    <3>1. /\ bufVars' = bufVars
          /\ \/ pc'[p] = "run" /\ loc'[p] = NoCall
             \/ /\ loc'[p].op = loc[p].op /\ loc'[p].i = loc[p].i /\ loc'[p].n = loc[p].n
                /\ \/ pc'[p] \in {"fdref", "closed"}
                   \/ pc'[p] = "rtest" /\ loc[p].op = "read"
                   \/ pc'[p] = "wtest" /\ loc[p].op = "write"
      BY <2>2, <1>1, ReadPrefStep
    <3> QED BY <3>1, <1>1 DEF RingAt, bufVars
  <2>3. CASE ReturnClosed(p)
    <3>1. bufVars' = bufVars /\ pc'[p] = "run" /\ loc'[p] = NoCall
      BY <2>3, <1>1, ReturnClosedStep
    <3> QED BY <3>1, <1>1 DEF RingAt
  <2>4. CASE RTest(p)
    <3>1. /\ bufVars' = bufVars /\ pc[p] = "rtest"
          /\ \/ pc'[p] = "run" /\ loc'[p] = NoCall
             \/ loc' = loc /\ (pc'[p] = "fdref" \/ (pc'[p] = "rget" /\ p_rpos # p_wpos))
      BY <2>4, <1>1, RTestStep
    <3>2. p_rpos # p_wpos => p_rpos < p_wpos
      BY <1>1 DEF Held, Types
    <3> QED BY <3>1, <3>2, <1>1 DEF RingAt, bufVars
  <2>5. CASE RGet(p)
    <3>1. /\ bufVars' = bufVars /\ pc[p] = "rget" /\ pc'[p] = "rinc"
          /\ loc'[p].op = loc[p].op /\ loc'[p].byte = p_buf[p_rpos % BY2PIPE]
      BY <2>5, <1>1, RGetStep
    <3>2. p_rpos < p_wpos /\ loc[p].op = "read"
      BY <3>1, <1>1 DEF RingAt
    <3>3. p_rpos \in p_rpos .. p_wpos - 1
      BY <3>2, <1>1 DEF Types
    <3>4. p_buf[p_rpos % BY2PIPE] = p_rpos + 1
      BY <3>3, <1>1 DEF Held
    <3> QED BY <3>1, <3>2, <3>4, <1>1 DEF RingAt, bufVars
  <2>6. CASE WTest(p)
    <3>1. /\ bufVars' = bufVars /\ pc[p] = "wtest" /\ loc' = loc
          /\ \/ pc'[p] = "fdref"
             \/ pc'[p] = "wput" /\ p_wpos - p_rpos # BY2PIPE
      BY <2>6, <1>1, WTestStep
    <3>2. p_wpos - p_rpos # BY2PIPE => p_wpos - p_rpos < BY2PIPE
      BY <1>1, PipeAssumption DEF Held, Types
    <3> QED BY <3>1, <3>2, <1>1 DEF RingAt, bufVars
  <2>7. CASE \E s \in Slot : PipeIsClosed(p, s)
    <3>1. bufVars' = bufVars /\ pc'[p] = "fdref" /\ loc'[p].op = "test"
      BY <2>7, <1>1, PipeIsClosedStep
    <3> QED BY <3>1 DEF RingAt
  <2>8. CASE \E s \in Slot, n \in Chunk : Read(p, s, n)
    <3>1. bufVars' = bufVars /\ pc'[p] = "rtest" /\ loc'[p].op = "read" /\ p \in Reader
      BY <2>8, <1>1, ReadStep
    <3> QED BY <3>1 DEF RingAt
  <2>9. CASE \E s \in Slot, n \in Chunk : Write(p, s, n)
    <3>1. PICK s \in Slot, n \in Chunk : Write(p, s, n)
      BY <2>9
    <3>2. /\ bufVars' = bufVars /\ pc'[p] = "wtest" /\ loc'[p].op = "write" /\ p \in Writer
          /\ loc'[p].i = 0 /\ loc'[p].n = n /\ p_wpos + n <= MaxByte
      BY <3>1, <1>1, WriteStep
    <3>3. n \in Nat /\ n > 0 /\ p_wpos' = p_wpos
      BY <3>2, PipeAssumption DEF bufVars
    <3>4. loc'[p].i < loc'[p].n /\ p_wpos' + (loc'[p].n - loc'[p].i) <= MaxByte
      BY <3>2, <3>3, <1>1, PipeAssumption DEF Types
    <3> QED BY <3>2, <3>4 DEF RingAt
  <2> QED BY <2>1, <2>2, <2>3, <2>4, <2>5, <2>6, <2>7, <2>8, <2>9
<1> QED BY <1>2, <1>3, FramedRing

(* The reader gives its place back. *)
LEMMA RIncRing ==
  ASSUME Ring, OneEach, NEW p \in Proc, RInc(p)
  PROVE  Ring'
<1>1. Types /\ RingAt(p) /\ Held /\ NoCall.op = "none"
  BY NoCallFacts DEF Ring
<1>2. /\ Types' /\ Framed(p) /\ p_wpos' = p_wpos /\ p_buf' = p_buf /\ p_rpos' = p_rpos + 1
      /\ pc[p] = "rinc"
      /\ \/ pc'[p] = "run" /\ loc'[p] = NoCall
         \/ pc'[p] = "rtest" /\ loc'[p].op = loc[p].op
  BY <1>1, RIncStep DEF Calmly
<1>3. p_rpos < p_wpos /\ loc[p].op = "read"
  BY <1>1, <1>2 DEF RingAt
<1>4. p_rpos \in Nat /\ p_wpos \in Nat /\ BY2PIPE \in Nat
  BY <1>1, PipeAssumption DEF Types
<1>5. Held'
  <2>1. p_rpos' <= p_wpos' /\ p_wpos' - p_rpos' <= BY2PIPE
    BY <1>1, <1>2, <1>3, <1>4 DEF Held
  <2>2. \A x \in p_rpos + 1 .. p_wpos - 1 : x \in p_rpos .. p_wpos - 1
    BY <1>4
  <2> QED BY <2>1, <2>2, <1>1, <1>2 DEF Held
<1>6. RingAt(p)'
  BY <1>1, <1>2, <1>3 DEF RingAt
<1>7. ASSUME NEW q \in Proc, q # p PROVE RingAt(q)'
  <2>1. pc'[q] = pc[q] /\ loc'[q] = loc[q] /\ RingAt(q) /\ pc[q] \notin {"rget", "rinc"}
    BY <1>7, <1>2, RingReader DEF Framed, Ring
  <2>2. p_wpos - p_rpos < BY2PIPE => p_wpos - p_rpos' < BY2PIPE
    BY <1>2, <1>4
  <2> QED BY <2>1, <2>2, <1>2 DEF RingAt
<1> QED BY <1>2, <1>5, <1>6, <1>7 DEF Ring

(* The writer fills a place that holds no unread byte. *)
LEMMA WPutRing ==
  ASSUME Ring, OneEach, NEW p \in Proc, WPut(p)
  PROVE  Ring'
<1> DEFINE m == p_wpos % BY2PIPE
<1>1. Types /\ RingAt(p) /\ Held
  BY DEF Ring
<1>2. /\ Types' /\ Framed(p) /\ p_wpos' = p_wpos /\ p_rpos' = p_rpos
      /\ p_buf' = [p_buf EXCEPT ![m] = p_wpos + 1]
      /\ pc[p] = "wput" /\ pc'[p] = "winc" /\ loc' = loc
  BY <1>1, WPutStep DEF Calmly
<1>3. /\ p_wpos - p_rpos < BY2PIPE /\ loc[p].op = "write"
      /\ loc[p].i < loc[p].n /\ p_wpos + (loc[p].n - loc[p].i) <= MaxByte
  BY <1>1, <1>2 DEF RingAt
<1>4. p_rpos \in Nat /\ p_wpos \in Nat /\ BY2PIPE \in Nat \ {0} /\ MaxByte \in Nat
  BY <1>1, PipeAssumption DEF Types
<1>5. m \in 0 .. BY2PIPE - 1
  BY <1>4, ModRange
<1>6. p_wpos + 1 \in 0 .. MaxByte
  <2>1. loc[p].i \in Nat /\ loc[p].n \in Nat
    BY <1>1 DEF Types, Local
  <2> QED BY <2>1, <1>3, <1>4
<1>7. \A x \in p_rpos .. p_wpos - 1 : x % BY2PIPE # m /\ x % BY2PIPE \in 0 .. BY2PIPE - 1
  <2> SUFFICES ASSUME NEW x \in p_rpos .. p_wpos - 1
               PROVE  x % BY2PIPE # m /\ x % BY2PIPE \in 0 .. BY2PIPE - 1
    OBVIOUS
  <2>1. x \in Nat /\ x < p_wpos /\ p_wpos - x < BY2PIPE
    BY <1>3, <1>4
  <2> QED BY <2>1, <1>4, ModApart, ModRange
<1>8. p_buf \in [0 .. BY2PIPE - 1 -> 0 .. MaxByte]
  BY <1>1 DEF Held
<1> HIDE DEF m
<1>9. /\ p_buf'[m] = p_wpos + 1
      /\ p_buf' \in [0 .. BY2PIPE - 1 -> 0 .. MaxByte]
      /\ \A y \in 0 .. BY2PIPE - 1 : y # m => p_buf'[y] = p_buf[y]
  BY <1>2, <1>5, <1>6, <1>8
<1>10. Held'
  <2>1. \A x \in p_rpos .. p_wpos - 1 : p_buf'[x % BY2PIPE] = x + 1
    <3> SUFFICES ASSUME NEW x \in p_rpos .. p_wpos - 1
                 PROVE  p_buf'[x % BY2PIPE] = x + 1
      OBVIOUS
    <3>1. p_buf'[x % BY2PIPE] = p_buf[x % BY2PIPE]
      BY <1>7, <1>9
    <3> QED BY <3>1, <1>1 DEF Held
  <2> QED BY <2>1, <1>1, <1>2, <1>9 DEF Held
<1>11. RingAt(p)'
  <2>1. p_buf'[p_wpos' % BY2PIPE] = p_wpos' + 1
    BY <1>2, <1>9 DEF m
  <2> QED BY <2>1, <1>1, <1>2, <1>3 DEF RingAt
<1>12. ASSUME NEW q \in Proc, q # p PROVE RingAt(q)'
  <2>1. pc'[q] = pc[q] /\ loc'[q] = loc[q] /\ RingAt(q) /\ pc[q] \notin {"wput", "winc"}
    BY <1>2, <1>12, RingWriter DEF Framed, Ring
  <2> QED BY <2>1, <1>2 DEF RingAt
<1> QED BY <1>2, <1>10, <1>11, <1>12 DEF Ring

(* The writer makes the byte visible. *)
LEMMA WIncRing ==
  ASSUME Ring, OneEach, NEW p \in Proc, WInc(p)
  PROVE  Ring'
<1>1. Types /\ RingAt(p) /\ Held /\ NoCall.op = "none"
  BY NoCallFacts DEF Ring
<1>2. /\ Types' /\ Framed(p) /\ p_wpos' = p_wpos + 1 /\ p_rpos' = p_rpos /\ p_buf' = p_buf
      /\ pc[p] = "winc"
      /\ \/ pc'[p] = "run" /\ loc'[p] = NoCall
         \/ /\ pc'[p] = "wtest" /\ loc'[p].op = loc[p].op
            /\ loc[p].i + 1 # loc[p].n /\ loc'[p].i = loc[p].i + 1 /\ loc'[p].n = loc[p].n
  BY <1>1, WIncStep DEF Calmly
<1>3. /\ p_wpos - p_rpos < BY2PIPE /\ loc[p].op = "write" /\ p \in Writer
      /\ loc[p].i < loc[p].n /\ p_wpos + (loc[p].n - loc[p].i) <= MaxByte
      /\ p_buf[p_wpos % BY2PIPE] = p_wpos + 1
  BY <1>1, <1>2 DEF RingAt
<1>4. /\ p_rpos \in Nat /\ p_wpos \in Nat /\ BY2PIPE \in Nat \ {0} /\ MaxByte \in Nat
      /\ loc[p].i \in Nat /\ loc[p].n \in Nat
  BY <1>1, PipeAssumption DEF Types, Local
<1>5. Held'
  <2>1. p_rpos' <= p_wpos' /\ p_wpos' - p_rpos' <= BY2PIPE /\ p_wpos' <= MaxByte
    BY <1>1, <1>2, <1>3, <1>4 DEF Held
  <2>2. ASSUME NEW x \in p_rpos .. p_wpos PROVE p_buf[x % BY2PIPE] = x + 1
    <3>1. CASE x = p_wpos
      BY <3>1, <1>3
    <3>2. CASE x # p_wpos
      <4>1. x \in p_rpos .. p_wpos - 1
        BY <3>2, <1>4
      <4> QED BY <4>1, <1>1 DEF Held
    <3> QED BY <3>1, <3>2
  <2>3. p_wpos' - 1 = p_wpos
    BY <1>2, <1>4
  <2> QED BY <2>1, <2>2, <2>3, <1>1, <1>2 DEF Held
<1>6. RingAt(p)'
  <2>1. CASE pc'[p] = "run" /\ loc'[p] = NoCall
    BY <2>1, <1>1 DEF RingAt
  <2>2. CASE /\ pc'[p] = "wtest" /\ loc'[p].op = loc[p].op
             /\ loc[p].i + 1 # loc[p].n /\ loc'[p].i = loc[p].i + 1 /\ loc'[p].n = loc[p].n
    <3>1. loc'[p].i < loc'[p].n /\ p_wpos' + (loc'[p].n - loc'[p].i) <= MaxByte
      BY <2>2, <1>2, <1>3, <1>4
    <3> QED BY <3>1, <2>2, <1>3 DEF RingAt
  <2> QED BY <1>2, <2>1, <2>2
<1>7. ASSUME NEW q \in Proc, q # p PROVE RingAt(q)'
  <2>1. /\ pc'[q] = pc[q] /\ loc'[q] = loc[q] /\ RingAt(q)
        /\ pc[q] \notin {"wput", "winc"} /\ loc[q].op # "write"
    BY <1>2, <1>7, RingWriter DEF Framed, Ring
  <2>2. p_rpos < p_wpos => p_rpos' < p_wpos'
    BY <1>2, <1>4
  <2> QED BY <2>1, <2>2, <1>2 DEF RingAt
<1> QED BY <1>2, <1>5, <1>6, <1>7 DEF Ring

(* Closing, duplicating, forking, exiting and switching do not touch it. *)
LEMMA MappingRing ==
  ASSUME Accounts, Ring, NEW p \in Proc,
         \/ Switch(p)
         \/ CloseData(p) \/ DupData(p) \/ DupFd(p) \/ ForkPage(p)
         \/ Exit(p)
         \/ \E s \in Slot : Close(p, s)
         \/ \E s, t \in Slot : Dup(p, s, t)
         \/ \E c \in Proc : Fork(p, c)
  PROVE  Ring'
<1> DEFINE Busy == {"rtest", "rget", "rinc", "wtest", "wput", "winc"}
<1>1. Types /\ NoCall.op = "none" /\ \A q \in Proc : RingAt(q)
  BY NoCallFacts DEF Ring
<1>2. CASE Switch(p)
  <2>1. /\ Types' /\ pc' = pc /\ bufVars' = bufVars
        /\ \A q \in Proc : /\ loc'[q].op = loc[q].op /\ loc'[q].i = loc[q].i
                           /\ loc'[q].n = loc[q].n /\ loc'[q].byte = loc[q].byte
    BY <1>1, <1>2, SwitchStep
  <2>2. \A q \in Proc : RingAt(q)'
    BY <2>1, <1>1 DEF RingAt, bufVars
  <2> QED BY <2>1, <2>2, QuietRing
<1>3. ASSUME Types', bufVars' = bufVars,
             \A q \in Proc : \/ /\ pc'[q] \notin Busy /\ loc'[q].op \notin {"read", "write"}
                                /\ pc'[q] = "fork" => loc'[q].op = "fork"
                             \/ /\ pc'[q] = pc[q] \/ pc'[q] \notin Busy \union {"fork"}
                                /\ loc'[q] = loc[q]
      PROVE  Ring'
  <2>1. ASSUME NEW q \in Proc PROVE RingAt(q)'
    <3>1. CASE /\ pc'[q] \notin Busy /\ loc'[q].op \notin {"read", "write"}
               /\ pc'[q] = "fork" => loc'[q].op = "fork"
      BY <3>1 DEF RingAt
    <3>2. CASE /\ pc'[q] = pc[q] \/ pc'[q] \notin Busy \union {"fork"}
               /\ loc'[q] = loc[q]
      BY <3>2, <1>1, <1>3 DEF RingAt, bufVars
    <3> QED BY <3>1, <3>2, <1>3
  <2> QED BY <2>1, <1>3, QuietRing
<1>4. CASE CloseData(p)
  BY <1>1, <1>3, <1>4, CloseDataAccounts DEF Accounts, Alone, Framed
<1>5. CASE DupData(p)
  BY <1>3, <1>5, DupDataAccounts DEF Accounts, Alone, Framed
<1>6. CASE DupFd(p)
  BY <1>1, <1>3, <1>6, DupFdAccounts DEF Accounts, Alone, Framed
<1>7. CASE ForkPage(p)
  <2>1. /\ Types' /\ bufVars' = bufVars /\ pc[p] = "fork"
        /\ \A q \in Proc : q # p => loc'[q] = loc[q]
        /\ \A q \in Proc : q # p => pc'[q] = pc[q] \/ pc'[q] = "run"
        /\ \/ loc'[p].op = loc[p].op /\ pc' = pc
           \/ loc'[p] = NoCall /\ pc'[p] = "run"
    BY <1>7, ForkPageAccounts DEF Accounts
  <2>2. loc[p].op = "fork"
    BY <2>1, <1>1 DEF RingAt
  <2> QED BY <2>1, <2>2, <1>1, <1>3
<1>8. CASE Exit(p)
  BY <1>3, <1>8, ExitAccounts DEF Accounts, Alone, Framed
<1>9. CASE \E s \in Slot : Close(p, s)
  BY <1>3, <1>9, CloseAccounts DEF Accounts, Alone, Framed
<1>10. CASE \E s, t \in Slot : Dup(p, s, t)
  BY <1>3, <1>10, DupAccounts DEF Accounts, Alone, Framed
<1>11. CASE \E c \in Proc : Fork(p, c)
  <2>1. PICK c \in Proc : Fork(p, c)
    BY <1>11
  <2>2. /\ Types' /\ bufVars' = bufVars
        /\ \A q \in Proc : q # p /\ q # c => pc'[q] = pc[q]
        /\ \A q \in Proc : q # p => loc'[q] = loc[q]
        /\ pc'[p] = "fork" /\ pc'[c] = "new" /\ loc'[p].op = "fork"
    BY <2>1, ForkAccounts DEF Accounts
  <2> QED BY <2>2, <1>3
<1> QED BY <1>2, <1>4, <1>5, <1>6, <1>7, <1>8, <1>9, <1>10, <1>11

(* The ring is empty. *)
LEMMA InitRing == Init => Ring
<1> SUFFICES ASSUME Init PROVE Ring
  OBVIOUS
<1>1. Types
  BY InitAccounts DEF Accounts
<1>2. /\ \A p \in Proc : loc[p] = NoCall /\ pc[p] \in {"run", "none"}
      /\ p_rpos = 0 /\ p_wpos = 0 /\ p_buf = [x \in 0 .. BY2PIPE - 1 |-> 0]
  BY DEF Init
<1>3. Held
  <2>1. p_buf \in [0 .. BY2PIPE - 1 -> 0 .. MaxByte]
    BY <1>2, PipeAssumption
  <2> QED BY <2>1, <1>2, PipeAssumption DEF Held
<1>4. \A p \in Proc : RingAt(p)
  BY <1>2, NoCallFacts DEF RingAt
<1> QED BY <1>1, <1>3, <1>4 DEF Ring

(* Every step keeps the ring. *)
LEMMA NextRing ==
  ASSUME OneEach, Accounts, Ring, [Next]_vars
  PROVE  Ring'
<1>1. CASE UNCHANGED vars
  BY <1>1 DEF vars, fdVars, bufVars, Ring, Types, Held, RingAt
<1>2. CASE AllGone
  BY <1>1, <1>2 DEF AllGone
<1>3. ASSUME NEW p \in Proc, Switch(p) \/ Step(p) \/ Call(p)
      PROVE  Ring'
  <2>1. CASE \/ Switch(p)
             \/ CloseData(p) \/ DupData(p) \/ DupFd(p) \/ ForkPage(p)
             \/ Exit(p)
             \/ \E s \in Slot : Close(p, s)
             \/ \E s, t \in Slot : Dup(p, s, t)
             \/ \E c \in Proc : Fork(p, c)
    BY <2>1, MappingRing
  <2>2. CASE \/ ReadFdref(p) \/ ReadPref(p) \/ ReturnClosed(p)
             \/ RTest(p) \/ RGet(p) \/ WTest(p)
             \/ \E s \in Slot : PipeIsClosed(p, s)
             \/ \E s \in Slot, n \in Chunk : Read(p, s, n) \/ Write(p, s, n)
    BY <2>2, IdleRing
  <2>3. CASE RInc(p)
    BY <2>3, RIncRing
  <2>4. CASE WPut(p)
    BY <2>4, WPutRing
  <2>5. CASE WInc(p)
    BY <2>5, WIncRing
  <2> QED BY <1>3, StepCases, <2>1, <2>2, <2>3, <2>4, <2>5
<1> QED BY <1>1, <1>2, <1>3 DEF Next

(* One reader and one writer keep the ring. *)
THEOREM RingInvariant ==
  ASSUME OneEach
  PROVE  Spec => []Ring
<1>1. Init => Ring
  BY InitRing
<1>2. Accounts /\ Ring /\ [Next]_vars => Ring'
  BY NextRing
<1>3. Spec => []Accounts
  BY AccountsInvariant
<1> QED BY <1>1, <1>2, <1>3, PTL DEF Spec

(* The positions stay within what was written, and the locals have their types. *)
THEOREM TypeCorrect ==
  ASSUME OneEach
  PROVE  Spec => []TypeOK
<1>1. Ring => TypeOK
  <2> SUFFICES ASSUME Ring PROVE TypeOK
    OBVIOUS
  <2>1. Types /\ Held
    BY DEF Ring
  <2>2. p_rpos \in 0 .. MaxByte /\ p_wpos \in 0 .. MaxByte
    BY <2>1, PipeAssumption DEF Types, Held
  <2> QED BY <2>1, <2>2 DEF TypeOK, Types, Held
<1> QED BY <1>1, RingInvariant, PTL

(***************************************************************************)
(* Whatever the interleaving of the one reader and the one writer with     *)
(* each other and with everybody's close, dup, fork and exit: the ring     *)
(* holds the bytes written and not read, never more than it has room for,  *)
(* and the byte that piperead has taken is the next one.                   *)
(***************************************************************************)
THEOREM PipeIsFifo ==
  ASSUME OneEach
  PROVE  Spec => []Fifo
<1>1. Ring => Fifo
  <2> SUFFICES ASSUME Ring PROVE Fifo
    OBVIOUS
  <2>1. Types /\ Held /\ \A p \in Proc : RingAt(p)
    BY DEF Ring
  <2>2. p_wpos - p_rpos \in 0 .. BY2PIPE
    BY <2>1, PipeAssumption DEF Types, Held
  <2> QED BY <2>1, <2>2 DEF Fifo, Held, RingAt
<1> QED BY <1>1, RingInvariant, PTL
=============================================================================
