--------------------------- MODULE EnvSchedProofs ---------------------------
(***************************************************************************)
(* Proofs about EnvSched, for any number of slots and any boot             *)
(* environments: the type invariant, that the scheduling lists and the     *)
(* free list account for every slot, that the scheduler panics only when   *)
(* everybody is gone, and that messages arrive whole and children start    *)
(* when they are told to.                                                  *)
(***************************************************************************)
EXTENDS EnvSched, TLAPS

-----------------------------------------------------------------------------
(* What the list operations do to the elements of a sequence. *)

(* LIST_INSERT_TAIL adds its element and, if it is new, doubles none. *)
LEMMA AppendFacts ==
  ASSUME NEW S, NEW s \in Seq(S), NEW x \in S
  PROVE  /\ Append(s, x) \in Seq(S)
         /\ Range(Append(s, x)) = Range(s) \union {x}
         /\ IsInjective(s) /\ x \notin Range(s) => IsInjective(Append(s, x))
         /\ Append(s, x) # <<>>
<1>1. /\ Append(s, x) \in Seq(S)
      /\ Len(Append(s, x)) = Len(s) + 1
      /\ \A i \in 1 .. Len(s) : Append(s, x)[i] = s[i]
      /\ Append(s, x)[Len(s) + 1] = x
      /\ DOMAIN s = 1 .. Len(s)
      /\ DOMAIN Append(s, x) = 1 .. Len(s) + 1
      /\ Len(s) \in Nat
  OBVIOUS
<1>2. Range(Append(s, x)) = Range(s) \union {x}
  <2>1. ASSUME NEW y \in Range(Append(s, x)) PROVE y \in Range(s) \union {x}
    BY <1>1 DEF Range
  <2>2. ASSUME NEW y \in Range(s) PROVE y \in Range(Append(s, x))
    BY <1>1 DEF Range
  <2>3. x \in Range(Append(s, x))
    BY <1>1 DEF Range
  <2> QED BY <2>1, <2>2, <2>3
<1>3. ASSUME IsInjective(s), x \notin Range(s) PROVE IsInjective(Append(s, x))
  <2> SUFFICES ASSUME NEW a \in 1 .. Len(s) + 1, NEW b \in 1 .. Len(s) + 1,
                      Append(s, x)[a] = Append(s, x)[b]
               PROVE  a = b
    BY <1>1 DEF IsInjective
  <2>1. CASE a \in 1 .. Len(s) /\ b \in 1 .. Len(s)
    BY <2>1, <1>1, <1>3 DEF IsInjective
  <2>2. CASE a = Len(s) + 1 /\ b \in 1 .. Len(s)
    BY <2>2, <1>1, <1>3 DEF Range
  <2>3. CASE b = Len(s) + 1 /\ a \in 1 .. Len(s)
    BY <2>3, <1>1, <1>3 DEF Range
  <2> QED BY <2>1, <2>2, <2>3, <1>1
<1>4. Append(s, x) # <<>>
  BY <1>1
<1> QED BY <1>1, <1>2, <1>3, <1>4

(* Taking the first element removes it and nothing else. *)
LEMMA TailFacts ==
  ASSUME NEW S, NEW s \in Seq(S), s # <<>>
  PROVE  /\ Head(s) \in S
         /\ Head(s) \in Range(s)
         /\ Tail(s) \in Seq(S)
         /\ IsInjective(s) => /\ IsInjective(Tail(s))
                              /\ Range(Tail(s)) = Range(s) \ {Head(s)}
<1>1. /\ Len(s) \in Nat /\ Len(s) > 0
      /\ Head(s) = s[1]
      /\ Tail(s) \in Seq(S)
      /\ Len(Tail(s)) = Len(s) - 1
      /\ \A i \in 1 .. Len(s) - 1 : Tail(s)[i] = s[i + 1]
      /\ DOMAIN s = 1 .. Len(s)
      /\ DOMAIN Tail(s) = 1 .. Len(s) - 1
  OBVIOUS
<1>2. Head(s) \in S /\ Head(s) \in Range(s)
  BY <1>1 DEF Range
<1>3. ASSUME IsInjective(s) PROVE IsInjective(Tail(s))
  BY <1>1, <1>3 DEF IsInjective
<1>4. ASSUME IsInjective(s) PROVE Range(Tail(s)) = Range(s) \ {Head(s)}
  <2>1. ASSUME NEW y \in Range(Tail(s)) PROVE y \in Range(s) \ {Head(s)}
    <3>1. PICK i \in 1 .. Len(s) - 1 : y = s[i + 1]
      BY <1>1 DEF Range
    <3>2. i + 1 \in 1 .. Len(s) /\ i + 1 # 1 /\ 1 \in 1 .. Len(s)
      BY <1>1
    <3>3. s[i + 1] # s[1]
      BY <3>2, <1>1, <1>4 DEF IsInjective
    <3> QED BY <3>1, <3>2, <3>3, <1>1 DEF Range
  <2>2. ASSUME NEW y \in Range(s), y # Head(s) PROVE y \in Range(Tail(s))
    <3>1. PICK i \in 1 .. Len(s) : y = s[i]
      BY <1>1 DEF Range
    <3>2. i - 1 \in 1 .. Len(s) - 1 /\ (i - 1) + 1 = i
      BY <3>1, <2>2, <1>1
    <3>3. Tail(s)[i - 1] = y
      BY <3>1, <3>2, <1>1
    <3> QED BY <3>2, <3>3, <1>1 DEF Range
  <2> QED BY <2>1, <2>2
<1> QED BY <1>1, <1>2, <1>3, <1>4

(* LIST_INSERT_HEAD adds its element and, if it is new, doubles none. *)
LEMMA ConsFacts ==
  ASSUME NEW S, NEW s \in Seq(S), NEW x \in S
  PROVE  /\ <<x>> \o s \in Seq(S)
         /\ Range(<<x>> \o s) = Range(s) \union {x}
         /\ IsInjective(s) /\ x \notin Range(s) => IsInjective(<<x>> \o s)
<1> DEFINE t == <<x>> \o s
<1>1. /\ t \in Seq(S)
      /\ Len(s) \in Nat
      /\ Len(t) = Len(s) + 1
      /\ t[1] = x
      /\ \A i \in 2 .. Len(s) + 1 : t[i] = s[i - 1]
      /\ DOMAIN s = 1 .. Len(s)
      /\ DOMAIN t = 1 .. Len(s) + 1
  <2>1. <<x>> \in Seq(S) /\ Len(<<x>>) = 1 /\ <<x>>[1] = x
    OBVIOUS
  <2> QED BY <2>1
<1> HIDE DEF t
<1>2. Range(t) = Range(s) \union {x}
  <2>1. ASSUME NEW y \in Range(t) PROVE y \in Range(s) \union {x}
    <3>1. PICK i \in 1 .. Len(s) + 1 : y = t[i]
      BY <1>1 DEF Range
    <3>2. CASE i = 1
      BY <3>1, <3>2, <1>1
    <3>3. CASE i # 1
      <4>1. i \in 2 .. Len(s) + 1 /\ i - 1 \in 1 .. Len(s)
        BY <3>3, <1>1
      <4> QED BY <3>1, <4>1, <1>1 DEF Range
    <3> QED BY <3>2, <3>3
  <2>2. ASSUME NEW y \in Range(s) PROVE y \in Range(t)
    <3>1. PICK i \in 1 .. Len(s) : y = s[i]
      BY <1>1 DEF Range
    <3>2. i + 1 \in 2 .. Len(s) + 1 /\ (i + 1) - 1 = i /\ i + 1 \in 1 .. Len(s) + 1
      BY <1>1
    <3>3. t[i + 1] = y
      BY <3>1, <3>2, <1>1
    <3> QED BY <3>2, <3>3, <1>1 DEF Range
  <2>3. x \in Range(t)
    <3>1. 1 \in 1 .. Len(s) + 1
      BY <1>1
    <3> QED BY <3>1, <1>1 DEF Range
  <2> QED BY <2>1, <2>2, <2>3
<1>3. ASSUME IsInjective(s), x \notin Range(s) PROVE IsInjective(t)
  <2> SUFFICES ASSUME NEW a \in 1 .. Len(s) + 1, NEW b \in 1 .. Len(s) + 1, t[a] = t[b]
               PROVE  a = b
    BY <1>1 DEF IsInjective
  <2>1. \A i \in 2 .. Len(s) + 1 : i - 1 \in 1 .. Len(s) /\ t[i] \in Range(s)
    BY <1>1 DEF Range
  <2>2. CASE a = 1 /\ b # 1
    BY <2>2, <2>1, <1>1, <1>3
  <2>3. CASE b = 1 /\ a # 1
    BY <2>3, <2>1, <1>1, <1>3
  <2>4. CASE a # 1 /\ b # 1
    <3>1. a - 1 \in DOMAIN s /\ b - 1 \in DOMAIN s /\ s[a - 1] = s[b - 1]
      BY <2>4, <2>1, <1>1
    <3>2. a - 1 = b - 1
      BY <3>1, <1>3 DEF IsInjective
    <3> QED BY <3>2
  <2> QED BY <2>2, <2>3, <2>4
<1> QED BY <1>1, <1>2, <1>3 DEF t

-----------------------------------------------------------------------------
(* The type invariant *)

(* The CPU is in user mode only for an environment that is not FREE. *)
UserLive == k = "user" => curenv \in Env /\ status[curenv] # "FREE"

TInv == TypeOK /\ UserLive

(* envid2env returns NULL or a slot in use. *)
LEMMA Envid2envFacts ==
  ASSUME TInv, k = "user", NEW envid \in Id, NEW checkperm \in BOOLEAN,
         envid2env(envid, checkperm) # NULL
  PROVE  /\ envid2env(envid, checkperm) \in Env
         /\ status[envid2env(envid, checkperm)] # "FREE"
BY DEF TInv, UserLive, TypeOK, envid2env, Id

(* mkenvid stays within its width. *)
LEMMA MkenvidType ==
  ASSUME next_env_id \in 0 .. IdLimit - 1
  PROVE  mkenvid \in 0 .. IdLimit - 1
BY EnvAssumption DEF mkenvid

(* The state kernel_main leaves is well typed. *)
LEMMA InitTInv == Init => TInv
<1> SUFFICES ASSUME Init PROVE TInv
  OBVIOUS
<1> USE EnvAssumption
<1>1. Len(Boot) \in Nat /\ \A e \in Env : Booted(e) => Boot[e + 1] \in Nat
  BY DEF Env, Booted
<1>2. SELF \in Id /\ 0 \in Env
  BY DEF SELF, Id, Env
<1>3. NoMsg \in Msg /\ NoMsg.value \in Value
  BY <1>2 DEF NoMsg, Msg
<1>4. \A e \in Env : Booted(e) => <<e + 1, e>> \in Id
  BY <1>1 DEF Env, Booted, Id
<1>5. env_free_list \in Seq(Env)
  <2>1. NENV - Len(Boot) \in Nat
    OBVIOUS
  <2>2. \A i \in 1 .. NENV - Len(Boot) : Len(Boot) + i - 1 \in Env
    BY <1>1 DEF Env
  <2> QED BY <2>1, <2>2 DEF Init
<1>6. [i \in 1 .. Len(Boot) |-> i - 1] \in Seq(Env)
  <2>1. \A i \in 1 .. Len(Boot) : i - 1 \in Env
    BY <1>1 DEF Env
  <2> QED BY <2>1
<1>7. env_sched_list \in [{0, 1} -> Seq(Env)]
  BY <1>6 DEF Init
<1>8. issued \subseteq Id
  BY <1>1 DEF Init, Id, Env
<1>9. inbox \in [Env -> Seq(Msg)]
  BY DEF Init
<1>10. /\ status \in [Env -> Status] /\ id \in [Env -> Id]
       /\ parent_id \in [Env -> Id] /\ pri \in [Env -> Nat]
       /\ ipc_recving \in [Env -> BOOLEAN] /\ ipc \in [Env -> Msg]
  BY <1>1, <1>2, <1>3, <1>4 DEF Init, Status
<1>11. /\ upc \in [Env -> UserPc] /\ who \in [Env -> Id]
       /\ val \in [Env -> Value] /\ from \in [Env -> Id]
  BY <1>2, <1>3 DEF Init, UserPc
<1>12. /\ curenv \in Env \union {NULL} /\ next_env \in Env \union {NULL}
       /\ next_env_id \in 0 .. IdLimit - 1 /\ count \in Nat /\ point \in {0, 1}
       /\ k = "sched"
  BY <1>1 DEF Init
<1> QED BY <1>5, <1>7, <1>8, <1>9, <1>10, <1>11, <1>12 DEF TInv, TypeOK, UserLive

(* The types of the user side, and that a library return keeps them. *)
UserType ==
  /\ upc \in [Env -> UserPc]
  /\ who \in [Env -> Id]
  /\ val \in [Env -> Value]
  /\ from \in [Env -> Id]

(* A library function that returns keeps the types of its locals. *)
LEMMA ReturnType ==
  ASSUME TInv, NEW e \in Env, Return(e)
  PROVE  UserType'
<1>1. SELF \in Id /\ NoMsg.value \in Value
  BY EnvAssumption DEF SELF, Id, Env, NoMsg
<1> QED BY <1>1 DEF Return, UserType, UserPc, TInv, TypeOK

(* The type invariant is inductive: one step per action. *)
LEMMA NextTInv == TInv /\ [Next]_vars => TInv'
<1> SUFFICES ASSUME TInv, [Next]_vars PROVE TInv'
  OBVIOUS
<1> USE EnvAssumption
<1>0. SELF \in Id /\ NoMsg.value \in Value
  BY DEF SELF, Id, Env, NoMsg, Msg
<1>a. \A e \in Known : e \in Id
  BY <1>0 DEF Known, TInv, TypeOK
<1>1. CASE UNCHANGED vars
  BY <1>1 DEF TInv, TypeOK, UserLive, vars, envVars, ipcVars, schedVars, userVars
<1>2. CASE SchedTurn
  <2>1. /\ PutBack \in [{0, 1} -> Seq(Env)]
        /\ TakeFrom \in {0, 1}
    BY DEF TInv, TypeOK, PutBack, TakeFrom
  <2>2. PutBack[TakeFrom] # <<>> =>
          /\ Head(PutBack[TakeFrom]) \in Env
          /\ Tail(PutBack[TakeFrom]) \in Seq(Env)
    BY <2>1
  <2>3. CASE PutBack[TakeFrom] = <<>>
    BY <1>2, <2>1, <2>3 DEF SchedTurn, TInv, TypeOK, UserLive, envVars, ipcVars, userVars
  <2>4. CASE PutBack[TakeFrom] # <<>>
    <3>1. /\ next_env' = Head(PutBack[TakeFrom])
          /\ env_sched_list' = [PutBack EXCEPT ![TakeFrom] = Tail(@)]
          /\ count' = pri[next_env']
          /\ point' = TakeFrom
          /\ k' = "sched"
      BY <1>2, <2>4 DEF SchedTurn
    <3>2. next_env' \in Env /\ point' \in {0, 1}
      BY <2>1, <2>2, <2>4, <3>1
    <3>3. env_sched_list' \in [{0, 1} -> Seq(Env)]
      BY <2>1, <2>2, <2>4, <3>1
    <3>4. count' \in Nat
      BY <3>1, <3>2 DEF TInv, TypeOK
    <3> QED BY <1>2, <3>1, <3>2, <3>3, <3>4
            DEF SchedTurn, TInv, TypeOK, UserLive, envVars, ipcVars, userVars
  <2> QED BY <2>3, <2>4
<1>3. CASE SchedRun
  <2>1. count - 1 \in Nat /\ next_env \in Env /\ status[next_env] # "FREE"
    BY <1>3 DEF SchedRun, Found, TInv, TypeOK
  <2> QED BY <1>3, <2>1 DEF SchedRun, TInv, TypeOK, UserLive, envVars, ipcVars, userVars
<1>4. CASE Yield
  BY <1>4 DEF Yield, EnterSched, TInv, TypeOK, UserLive, envVars, ipcVars, userVars
<1>5. CASE SysEnvAlloc
  <2> DEFINE e == Head(env_free_list)
  <2>1. e \in Env /\ Tail(env_free_list) \in Seq(Env) /\ curenv \in Env
    BY <1>5 DEF SysEnvAlloc, env_alloc, ChildStatus, Calls, TInv, TypeOK, UserLive
  <2>2. mkenvid \in 0 .. IdLimit - 1
    BY MkenvidType DEF TInv, TypeOK
  <2>3. <<mkenvid, e>> \in Id
    BY <2>1, <2>2 DEF Id
  <2>4. Append(env_sched_list[0], e) \in Seq(Env)
    BY <2>1 DEF TInv, TypeOK
  <2> HIDE DEF e
  <2>5. /\ env_free_list' \in Seq(Env)
        /\ next_env_id' \in 0 .. IdLimit - 1
        /\ id' \in [Env -> Id]
        /\ issued' \subseteq Id
        /\ status' = [status EXCEPT ![e] = "NOT_RUNNABLE"]
        /\ pri' \in [Env -> Nat]
        /\ parent_id' \in [Env -> Id]
        /\ upc' \in [Env -> UserPc]
        /\ k' \in {"user", "corrupt"}
        /\ env_sched_list' \in [{0, 1} -> Seq(Env)]
    BY <1>5, <2>1, <2>2, <2>3, <2>4 DEF SysEnvAlloc, env_alloc, ChildStatus, Calls, TInv, TypeOK, UserPc, e
  <2> QED BY <1>5, <2>1, <2>5 DEF SysEnvAlloc, env_alloc, ChildStatus, Calls, TInv, TypeOK, UserLive, Status, ipcVars
<1>6. ASSUME NEW e \in Env, env_destroy(e), k = "user" PROVE TInv'
  <2>1. <<e>> \o env_free_list \in Seq(Env)
    BY DEF TInv, TypeOK
  <2> QED BY <1>0, <1>6, <2>1 DEF env_destroy, FreeListWith, YieldForGood, TInv, TypeOK, UserLive, Status, UserPc
<1>7. ASSUME NEW envid \in Known, SysEnvDestroy(envid) PROVE TInv'
  BY <1>a, <1>6, <1>7, Envid2envFacts DEF SysEnvDestroy, Calls
<1>8. ASSUME NEW envid \in Known, NEW st \in Status, SysSetEnvStatus(envid, st)
      PROVE  TInv'
  <2> DEFINE e == envid2env(envid, TRUE)
  <2>1. e \in Env /\ status[e] # "FREE" /\ k = "user"
    BY <1>a, <1>8, Envid2envFacts DEF SysSetEnvStatus, Calls
  <2>2. CASE st = "FREE"
    BY <1>6, <1>8, <2>1, <2>2 DEF SysSetEnvStatus
  <2> HIDE DEF e
  <2>3. CASE st # "FREE"
    <3>1. /\ status' = [status EXCEPT ![e] = st]
          /\ upc' = [upc EXCEPT ![e] = IF @ = "new" /\ st = "RUNNABLE" THEN "run" ELSE @]
          /\ UNCHANGED <<id, parent_id, pri, env_free_list, next_env_id,
                         issued, ipcVars, schedVars, who, val, from>>
      BY <1>8, <2>3 DEF SysSetEnvStatus, e
    <3>2. status' \in [Env -> Status] /\ upc' \in [Env -> UserPc]
      BY <2>1, <3>1 DEF TInv, TypeOK, UserPc
    <3> QED BY <2>1, <2>3, <3>1, <3>2 DEF TInv, TypeOK, UserLive, ipcVars, schedVars
  <2> QED BY <2>2, <2>3
<1>9. CASE SysIpcRecv
  BY <1>9 DEF SysIpcRecv, Calls, EnterSched, TInv, TypeOK, UserLive, Status, UserPc
<1>10. CASE RecvFrom
  <2>1. curenv \in Env /\ ipc[curenv].from \in Id
    BY <1>10 DEF RecvFrom, TInv, TypeOK, UserLive, Msg
  <2> QED BY <1>10, <2>1 DEF RecvFrom, TInv, TypeOK, UserLive, UserPc, envVars,
                            ipcVars, schedVars
<1>11. CASE RecvValue
  <2>1. inbox' \in [Env -> Seq(Msg)]
    <3>1. \A s \in Seq(Msg) : s # <<>> => Tail(s) \in Seq(Msg)
      OBVIOUS
    <3> QED BY <1>11, <3>1 DEF RecvValue, TInv, TypeOK, UserLive
  <2> QED BY <1>0, <1>11, <2>1 DEF RecvValue, Return, TInv, TypeOK, UserLive, UserPc,
                                   envVars, schedVars
<1>12. ASSUME NEW envid \in Known, NEW v \in Value, NEW mapped \in BOOLEAN,
              IpcSend(envid, v, mapped)
       PROVE  TInv'
  <2> DEFINE e == envid2env(envid, FALSE)
  <2>1. k = "user" /\ curenv \in Env /\ envid \in Id
    BY <1>a, <1>12 DEF IpcSend, Calls, TInv, UserLive
  <2>2. e # NULL => e \in Env /\ status[e] # "FREE"
    BY <2>1, Envid2envFacts
  <2> HIDE DEF e
  <2>3. CASE e = NULL
    BY <1>12, <2>1, <2>3 DEF IpcSend, TInv, TypeOK, UserLive, UserPc, ipcVars, e
  <2>4. CASE e # NULL /\ ~ ipc_recving[e]
    <3>1. /\ upc' = [upc EXCEPT ![curenv] = "send"]
          /\ who' = [who EXCEPT ![curenv] = envid]
          /\ val' = [val EXCEPT ![curenv] = v]
          /\ EnterSched
          /\ UNCHANGED <<status, ipcVars, from>>
          /\ UNCHANGED <<id, parent_id, pri, env_free_list, next_env_id, issued,
                         env_sched_list, curenv, count, point>>
      BY <1>12, <2>4 DEF IpcSend, e
    <3> QED BY <2>1, <3>1 DEF EnterSched, TInv, TypeOK, UserLive, UserPc, ipcVars
  <2>5. CASE e # NULL /\ ipc_recving[e]
    <3> DEFINE m == [value |-> v, from |-> id[curenv]]
    <3>1. m \in Msg
      BY <2>1 DEF TInv, TypeOK, Msg
    <3>2. Append(inbox[e], m) \in Seq(Msg)
      BY <2>2, <2>5, <3>1 DEF TInv, TypeOK
    <3>3. Deliver(e, v)
      BY <1>12, <2>5 DEF IpcSend, e
    <3> HIDE DEF m
    <3>4. /\ ipc' \in [Env -> Msg] /\ ipc_recving' \in [Env -> BOOLEAN]
          /\ status' = [status EXCEPT ![e] = "RUNNABLE"]
          /\ inbox' \in [Env -> Seq(Msg)]
      BY <2>2, <2>5, <3>1, <3>2, <3>3 DEF Deliver, TInv, TypeOK, m
    <3>5. UserType'
      <4>1. \/ Return(curenv)
            \/ upc' = [upc EXCEPT ![curenv] = "panic"] /\ UNCHANGED <<who, val, from>>
        BY <1>12, <2>5 DEF IpcSend, e
      <4>2. CASE Return(curenv)
        BY <2>1, <4>2, ReturnType
      <4>3. CASE upc' = [upc EXCEPT ![curenv] = "panic"] /\ UNCHANGED <<who, val, from>>
        BY <2>1, <4>3 DEF UserType, UserPc, TInv, TypeOK
      <4> QED BY <4>1, <4>2, <4>3
    <3>6. UNCHANGED <<k, next_env, id, parent_id, pri, env_free_list, next_env_id, issued,
                      env_sched_list, curenv, count, point>>
      BY <1>12, <2>5 DEF IpcSend, e
    <3> QED BY <2>1, <2>2, <2>5, <3>4, <3>5, <3>6 DEF TInv, TypeOK, UserLive, Status, UserType
  <2> QED BY <2>3, <2>4, <2>5
<1>13. ASSUME NEW envid \in Known, WaitCall(envid) PROVE TInv'
  BY <1>a, <1>13 DEF WaitCall, Calls, TInv, TypeOK, UserLive, UserPc, envVars, ipcVars, schedVars
<1>14. ASSUME NEW e \in Env, WaitId(e) PROVE TInv'
  <2>1. UserType'
    <3>1. CASE Return(e)
      BY <3>1, ReturnType
    <3>2. CASE upc' = [upc EXCEPT ![e] = "wait2"] /\ UNCHANGED <<who, val, from>>
      BY <3>2 DEF UserType, UserPc, TInv, TypeOK
    <3> QED BY <1>14, <3>1, <3>2 DEF WaitId
  <2> QED BY <1>14, <2>1 DEF WaitId, UserType, TInv, TypeOK, UserLive, envVars,
                             ipcVars, schedVars
<1>15. ASSUME NEW e \in Env, WaitStatus(e) PROVE TInv'
  <2>1. UserType'
    <3>1. CASE Return(e)
      BY <3>1, ReturnType
    <3>2. CASE upc' = [upc EXCEPT ![e] = "wait"] /\ UNCHANGED <<who, val, from>>
      BY <3>2 DEF UserType, UserPc, TInv, TypeOK
    <3> QED BY <1>15, <3>1, <3>2 DEF WaitStatus
  <2>2. next_env' \in Env \union {NULL} /\ k' \in {"user", "sched"} /\ k = "user"
    BY <1>15 DEF WaitStatus, EnterSched, TInv, TypeOK
  <2> QED BY <1>15, <2>1, <2>2 DEF WaitStatus, UserType, TInv, TypeOK, UserLive,
                                   envVars, ipcVars
<1> QED BY <1>1, <1>2, <1>3, <1>4, <1>5, <1>7, <1>8, <1>9, <1>10, <1>11, <1>12,
           <1>13, <1>14, <1>15 DEF Next, Halted

(***************************************************************************)
(* Every variable of the kernel and of the user programs keeps its type,   *)
(* and user mode always belongs to an environment in use.                  *)
(***************************************************************************)
THEOREM TypeCorrect == Spec => []TypeOK
<1>1. TInv => TypeOK
  BY DEF TInv
<1> QED BY InitTInv, NextTInv, <1>1, PTL DEF Spec

-----------------------------------------------------------------------------
(* The lists account for every slot *)

(***************************************************************************)
(* With library callers a FREE slot is neither on a scheduling list nor    *)
(* held.  SchedPartition and NeverCorrupt need this to be inductive: it is *)
(* what keeps env_alloc from inserting a slot twice.                       *)
(***************************************************************************)
NoZombie ==
  Lib /\ k \in {"user", "sched"} =>
    \A e \in Env : status[e] = "FREE" => ~ Listed(e) /\ e # Held

PInv == FreeListExact /\ SchedPartition /\ NoZombie /\ NeverCorrupt

(* The lists env_init and env_create build are exact. *)
LEMMA InitPInv == Init => PInv
<1> SUFFICES ASSUME Init PROVE PInv
  OBVIOUS
<1> USE EnvAssumption
<1>1. Len(Boot) \in Nat /\ k = "sched" /\ next_env = NULL
  BY DEF Init
<1>2. /\ env_sched_list[1] = <<>>
      /\ env_sched_list[0] = [i \in 1 .. Len(Boot) |-> i - 1]
      /\ env_free_list = [i \in 1 .. NENV - Len(Boot) |-> Len(Boot) + i - 1]
  BY DEF Init
<1>3. Range(env_sched_list[1]) = {} /\ IsInjective(env_sched_list[1])
  BY <1>2 DEF Range, IsInjective
<1>4. IsInjective(env_sched_list[0])
  BY <1>1, <1>2 DEF IsInjective
<1>5. Range(env_sched_list[0]) = {e \in Env : Booted(e)}
  <2>1. ASSUME NEW e \in Env, Booted(e) PROVE e \in Range(env_sched_list[0])
    <3>1. e + 1 \in 1 .. Len(Boot) /\ (e + 1) - 1 = e
      BY <2>1, <1>1 DEF Env, Booted
    <3> QED BY <3>1, <1>2 DEF Range
  <2>2. ASSUME NEW e \in Range(env_sched_list[0]) PROVE e \in Env /\ Booted(e)
    BY <2>2, <1>1, <1>2 DEF Range, Env, Booted
  <2> QED BY <2>1, <2>2
<1>6. IsInjective(env_free_list)
  BY <1>1, <1>2 DEF IsInjective
<1>7. Range(env_free_list) = {e \in Env : ~ Booted(e)}
  <2>1. ASSUME NEW e \in Env, ~ Booted(e) PROVE e \in Range(env_free_list)
    <3>1. /\ e - Len(Boot) + 1 \in 1 .. NENV - Len(Boot)
          /\ Len(Boot) + (e - Len(Boot) + 1) - 1 = e
      BY <2>1, <1>1 DEF Env, Booted
    <3> QED BY <3>1, <1>2 DEF Range
  <2>2. ASSUME NEW e \in Range(env_free_list) PROVE e \in Env /\ ~ Booted(e)
    BY <2>2, <1>1, <1>2 DEF Range, Env, Booted
  <2> QED BY <2>1, <2>2
<1>8. \A e \in Env : status[e] = "FREE" <=> ~ Booted(e)
  BY DEF Init
<1>9. \A e : Listed(e) <=> e \in Env /\ Booted(e)
  BY <1>3, <1>5 DEF Listed
<1>10. Held = NULL
  BY <1>1 DEF Held
<1>11. FreeListExact
  BY <1>6, <1>7, <1>8 DEF FreeListExact
<1>12. SchedPartition
  BY <1>3, <1>4, <1>8, <1>9, <1>10
     DEF SchedPartition, OnceListed, HeldNotListed, LiveKept
<1>13. NoZombie /\ NeverCorrupt
  BY <1>1, <1>8, <1>9, <1>10 DEF NoZombie, NeverCorrupt
<1> QED BY <1>11, <1>12, <1>13 DEF PInv

(***************************************************************************)
(* Steps that move no slot: the lists are the same, the same environment   *)
(* is held and the same slots are FREE.                                    *)
(***************************************************************************)
LEMMA KeptPInv ==
  ASSUME TInv, PInv,
         k \in {"user", "sched"}, k' \in {"user", "sched"},
         UNCHANGED <<env_sched_list, env_free_list>>,
         Held' = Held,
         \A e \in Env : status'[e] = "FREE" <=> status[e] = "FREE"
  PROVE  PInv'
<1>1. \A e : Listed(e)' <=> Listed(e)
  BY DEF Listed
<1>2. FreeListExact'
  BY DEF FreeListExact, PInv
<1>3. SchedPartition'
  BY <1>1 DEF SchedPartition, OnceListed, HeldNotListed, LiveKept, PInv, Listed
<1>4. NoZombie' /\ NeverCorrupt'
  BY <1>1 DEF NoZombie, NeverCorrupt, PInv
<1> QED BY <1>2, <1>3, <1>4 DEF PInv

(* env_destroy: the slot goes to the free list and leaves user mode. *)
LEMMA DestroyPInv ==
  ASSUME TInv, PInv, k = "user", NEW e \in Env, status[e] # "FREE",
         Lib => e = curenv, env_destroy(e)
  PROVE  PInv'
<1> USE EnvAssumption
<1>1. \A f : Listed(f)' <=> Listed(f)
  BY DEF env_destroy, FreeListWith, YieldForGood, Listed
<1>2. \A f \in Env : status'[f] = "FREE" <=> f = e \/ status[f] = "FREE"
  BY DEF env_destroy, FreeListWith, YieldForGood, TInv, TypeOK
<1>3. FreeListExact'
  <2>1. e \notin Range(env_free_list)
    BY DEF PInv, FreeListExact
  <2>2. /\ Range(env_free_list') = Range(env_free_list) \union {e}
        /\ IsInjective(env_free_list')
    BY <2>1, ConsFacts DEF env_destroy, FreeListWith, YieldForGood, PInv, FreeListExact, TInv, TypeOK
  <2> QED BY <1>2, <2>2 DEF PInv, FreeListExact
<1>4. Held = curenv
  BY DEF Held
<1>5. IF e = curenv THEN Held' = NULL /\ k' = "sched" ELSE Held' = Held /\ k' = "user"
  BY <1>4 DEF Held, env_destroy, FreeListWith, YieldForGood
<1>6. ~ Listed(NULL)
  BY DEF Listed, Range, TInv, TypeOK
<1>7. SchedPartition'
  BY <1>1, <1>2, <1>4, <1>5, <1>6
     DEF PInv, SchedPartition, OnceListed, HeldNotListed, LiveKept, env_destroy, FreeListWith, YieldForGood
<1>8. NoZombie' /\ NeverCorrupt'
  BY <1>1, <1>2, <1>4, <1>5
     DEF PInv, NoZombie, NeverCorrupt, SchedPartition, HeldNotListed
<1> QED BY <1>3, <1>7, <1>8 DEF PInv

(* One turn of sched_yield's loop moves one environment to the tail of the *)
(* other list and takes the first one of the list in use.                  *)
LEMMA TurnPInv ==
  ASSUME TInv, PInv, SchedTurn
  PROVE  PInv'
<1> USE EnvAssumption
<1> DEFINE L == PutBack
           q == TakeFrom
<1>1. /\ k = "sched" /\ Held = next_env
      /\ OnceListed /\ ~ Listed(next_env) /\ LiveKept
  BY DEF SchedTurn, Held, PInv, SchedPartition, HeldNotListed
<1>2. env_sched_list \in [{0, 1} -> Seq(Env)] /\ point \in {0, 1} /\ 1 - point \in {0, 1}
  BY DEF TInv, TypeOK
<1>3. /\ L \in [{0, 1} -> Seq(Env)]
      /\ \A l \in {0, 1} : IsInjective(L[l])
      /\ Range(L[0]) \cap Range(L[1]) = {}
      /\ \A e \in Env : (\E l \in {0, 1} : e \in Range(L[l])) <=> Listed(e) \/ e = next_env
  <2>1. CASE next_env = NULL
    BY <2>1, <1>1, <1>2 DEF PutBack, OnceListed, Listed
  <2>2. CASE next_env # NULL
    <3> DEFINE s == env_sched_list[1 - point]
    <3>1. next_env \in Env /\ s \in Seq(Env) /\ IsInjective(s) /\ next_env \notin Range(s)
      BY <2>2, <1>1, <1>2 DEF TInv, TypeOK, OnceListed, Listed
    <3>2. /\ Append(s, next_env) \in Seq(Env)
          /\ Range(Append(s, next_env)) = Range(s) \union {next_env}
          /\ IsInjective(Append(s, next_env))
      BY <3>1, AppendFacts
    <3>3. L = [env_sched_list EXCEPT ![1 - point] = Append(s, next_env)]
      BY <2>2 DEF PutBack
    <3>4. /\ L[1 - point] = Append(s, next_env)
          /\ L[point] = env_sched_list[point]
          /\ L \in [{0, 1} -> Seq(Env)]
      BY <1>2, <3>2, <3>3
    <3>5. next_env \notin Range(env_sched_list[point])
      BY <1>1, <1>2 DEF Listed
    <3>6. /\ Range(L[1 - point]) = Range(s) \union {next_env}
          /\ Range(L[point]) = Range(env_sched_list[point])
          /\ IsInjective(L[1 - point])
          /\ IsInjective(L[point])
      BY <1>1, <1>2, <3>2, <3>4 DEF OnceListed
    <3> HIDE DEF L
    <3>7. CASE point = 0
      <4>1. /\ Range(L[1]) = Range(env_sched_list[1]) \union {next_env}
            /\ Range(L[0]) = Range(env_sched_list[0])
            /\ IsInjective(L[1]) /\ IsInjective(L[0])
            /\ next_env \notin Range(env_sched_list[0])
        BY <3>5, <3>6, <3>7
      <4> QED BY <1>1, <3>4, <4>1 DEF OnceListed, Listed
    <3>8. CASE point = 1
      <4>1. /\ Range(L[0]) = Range(env_sched_list[0]) \union {next_env}
            /\ Range(L[1]) = Range(env_sched_list[1])
            /\ IsInjective(L[1]) /\ IsInjective(L[0])
            /\ next_env \notin Range(env_sched_list[1])
        BY <3>5, <3>6, <3>8
      <4> QED BY <1>1, <3>4, <4>1 DEF OnceListed, Listed
    <3> QED BY <1>2, <3>7, <3>8
  <2> QED BY <2>1, <2>2
<1>4. q \in {0, 1}
  BY <1>2 DEF TakeFrom
<1>5. /\ UNCHANGED <<status, env_free_list>>
      /\ IF L[q] = <<>>
           THEN k' = "panic"
           ELSE /\ next_env' = Head(L[q])
                /\ env_sched_list' = [L EXCEPT ![q] = Tail(@)]
                /\ k' = "sched"
  BY <1>1 DEF SchedTurn, envVars
<1>6. FreeListExact'
  BY <1>5 DEF PInv, FreeListExact
<1> HIDE DEF L, q
<1>7. CASE L[q] = <<>>
  BY <1>5, <1>6, <1>7 DEF PInv, SchedPartition, NoZombie, NeverCorrupt
<1>8. CASE L[q] # <<>>
  <2>1. /\ Head(L[q]) \in Env
        /\ Head(L[q]) \in Range(L[q])
        /\ Tail(L[q]) \in Seq(Env)
        /\ IsInjective(Tail(L[q]))
        /\ Range(Tail(L[q])) = Range(L[q]) \ {Head(L[q])}
    BY <1>3, <1>4, <1>8, TailFacts
  <2>2. /\ k' = "sched" /\ Held' = Head(L[q])
        /\ env_sched_list'[q] = Tail(L[q])
        /\ \A l \in {0, 1} : l # q => env_sched_list'[l] = L[l]
    BY <1>3, <1>4, <1>5, <1>8 DEF Held
  <2>3. \A e \in Env : Listed(e)' <=> (Listed(e) \/ e = next_env) /\ e # Head(L[q])
    BY <1>3, <1>4, <2>1, <2>2 DEF Listed
  <2>4. OnceListed'
    BY <1>3, <1>4, <2>1, <2>2 DEF OnceListed
  <2>5. HeldNotListed' /\ LiveKept'
    BY <1>1, <1>5, <2>1, <2>2, <2>3 DEF HeldNotListed, LiveKept
  <2>6. SchedPartition'
    BY <2>4, <2>5 DEF SchedPartition
  <2>7. NoZombie' /\ NeverCorrupt'
    BY <1>1, <1>3, <1>4, <1>5, <2>1, <2>2, <2>3 DEF PInv, NoZombie, NeverCorrupt
  <2> QED BY <1>6, <2>6, <2>7 DEF PInv
<1> QED BY <1>7, <1>8

(* sys_env_alloc: the slot is on no list, or the lists are lost. *)
LEMMA AllocPInv ==
  ASSUME TInv, PInv, SysEnvAlloc
  PROVE  PInv'
<1> USE EnvAssumption
<1> DEFINE e == Head(env_free_list)
<1>1. /\ k = "user" /\ Held = curenv /\ curenv \in Env /\ status[curenv] # "FREE"
      /\ OnceListed /\ ~ Listed(curenv) /\ LiveKept
  BY DEF SysEnvAlloc, env_alloc, ChildStatus, Calls, Held, PInv, SchedPartition, HeldNotListed, TInv, UserLive
<1>2. /\ e \in Env /\ e \in Range(env_free_list)
      /\ IsInjective(Tail(env_free_list))
      /\ Range(Tail(env_free_list)) = Range(env_free_list) \ {e}
  BY TailFacts DEF SysEnvAlloc, env_alloc, ChildStatus, PInv, FreeListExact, TInv, TypeOK
<1>3. status[e] = "FREE" /\ e # curenv
  BY <1>1, <1>2 DEF PInv, FreeListExact
<1>4. /\ env_free_list' = Tail(env_free_list)
      /\ status' = [status EXCEPT ![e] = "NOT_RUNNABLE"]
      /\ curenv' = curenv
      /\ k' = IF Listed(e) THEN "corrupt" ELSE "user"
      /\ env_sched_list' = [env_sched_list EXCEPT ![0] = Append(@, e)]
  BY <1>1 DEF SysEnvAlloc, env_alloc, ChildStatus
<1> HIDE DEF e
<1>5. \A f \in Env : status'[f] = "FREE" <=> f # e /\ status[f] = "FREE"
  BY <1>2, <1>4 DEF TInv, TypeOK
<1>6. FreeListExact'
  BY <1>2, <1>4, <1>5 DEF PInv, FreeListExact
<1>7. CASE Listed(e)
  <2>1. ~ Lib
    BY <1>1, <1>2, <1>3, <1>7 DEF PInv, NoZombie
  <2> QED BY <1>4, <1>6, <1>7, <2>1 DEF PInv, SchedPartition, NoZombie, NeverCorrupt
<1>8. CASE ~ Listed(e)
  <2>1. env_sched_list \in [{0, 1} -> Seq(Env)]
    BY DEF TInv, TypeOK
  <2>2. e \notin Range(env_sched_list[0]) /\ e \notin Range(env_sched_list[1])
    BY <1>8 DEF Listed
  <2>3. /\ env_sched_list'[0] = Append(env_sched_list[0], e)
        /\ env_sched_list'[1] = env_sched_list[1]
    BY <1>4, <2>1
  <2>4. /\ Range(env_sched_list'[0]) = Range(env_sched_list[0]) \union {e}
        /\ IsInjective(env_sched_list'[0])
    BY <1>1, <1>2, <2>1, <2>2, <2>3, AppendFacts DEF OnceListed
  <2>5. \A f : Listed(f)' <=> Listed(f) \/ f = e
    BY <2>3, <2>4 DEF Listed
  <2>6. k' = "user" /\ Held' = curenv
    BY <1>4, <1>8 DEF Held
  <2>7. OnceListed'
    BY <1>1, <2>2, <2>3, <2>4 DEF OnceListed
  <2>8. HeldNotListed' /\ LiveKept'
    BY <1>1, <1>3, <1>5, <2>5, <2>6 DEF HeldNotListed, LiveKept
  <2>9. NoZombie' /\ NeverCorrupt'
    BY <1>1, <1>5, <2>5, <2>6 DEF PInv, NoZombie, NeverCorrupt
  <2> QED BY <1>6, <2>7, <2>8, <2>9 DEF PInv, SchedPartition
<1> QED BY <1>7, <1>8

(* The accounting of slots is inductive: one step per action. *)
LEMMA NextPInv == TInv /\ PInv /\ [Next]_vars => PInv'
<1> SUFFICES ASSUME TInv, PInv, [Next]_vars PROVE PInv'
  OBVIOUS
<1> USE EnvAssumption
<1>0. SELF \in Id
  BY DEF SELF, Id, Env
<1>a. \A envid \in Known : envid \in Id
  BY <1>0 DEF Known, TInv, TypeOK
<1>1. CASE UNCHANGED vars
  <2>1. Held' = Held /\ \A e : Listed(e)' <=> Listed(e)
    BY <1>1 DEF Held, Listed, vars, schedVars
  <2>2. UNCHANGED <<status, env_free_list, env_sched_list, k>>
    BY <1>1 DEF vars, envVars, schedVars
  <2>3. FreeListExact'
    BY <2>2 DEF PInv, FreeListExact
  <2>4. SchedPartition'
    BY <2>1, <2>2 DEF PInv, SchedPartition, OnceListed, HeldNotListed, LiveKept, Listed
  <2>5. NoZombie' /\ NeverCorrupt'
    BY <2>1, <2>2 DEF PInv, NoZombie, NeverCorrupt
  <2> QED BY <2>3, <2>4, <2>5 DEF PInv
<1>2. CASE SchedTurn
  BY <1>2, TurnPInv
<1>3. CASE SchedRun
  <2>1. Held' = Held
    BY <1>3 DEF SchedRun, Held
  <2> QED BY <1>3, <2>1, KeptPInv DEF SchedRun, envVars
<1>4. CASE Yield
  <2>1. Held' = Held
    BY <1>4 DEF Yield, EnterSched, Held
  <2> QED BY <1>4, <2>1, KeptPInv DEF Yield, EnterSched, envVars
<1>5. CASE SysEnvAlloc
  BY <1>5, AllocPInv
<1>6. ASSUME NEW envid \in Known, SysEnvDestroy(envid) PROVE PInv'
  <2> DEFINE e == envid2env(envid, TRUE)
  <2>1. e \in Env /\ status[e] # "FREE" /\ k = "user"
    BY <1>a, <1>6, Envid2envFacts DEF SysEnvDestroy, Calls
  <2>2. Lib => e = curenv
    BY <1>6 DEF SysEnvDestroy, envid2env
  <2> QED BY <1>6, <2>1, <2>2, DestroyPInv DEF SysEnvDestroy
<1>7. ASSUME NEW envid \in Known, NEW st \in Status, SysSetEnvStatus(envid, st)
      PROVE  PInv'
  <2> DEFINE e == envid2env(envid, TRUE)
  <2>1. e \in Env /\ status[e] # "FREE" /\ k = "user"
    BY <1>a, <1>7, Envid2envFacts DEF SysSetEnvStatus, Calls
  <2>2. CASE st = "FREE"
    <3>1. ~ Lib /\ env_destroy(e)
      BY <1>7, <2>2 DEF SysSetEnvStatus
    <3> QED BY <2>1, <3>1, DestroyPInv
  <2>3. CASE st # "FREE"
    <3>1. status' = [status EXCEPT ![e] = st] /\ UNCHANGED <<env_free_list, schedVars>>
      BY <1>7, <2>3 DEF SysSetEnvStatus
    <3>2. Held' = Held
      BY <3>1 DEF Held, schedVars
    <3> HIDE DEF e
    <3>3. \A f \in Env : status'[f] = "FREE" <=> status[f] = "FREE"
      BY <2>1, <2>3, <3>1 DEF TInv, TypeOK
    <3> QED BY <2>1, <3>1, <3>2, <3>3, KeptPInv DEF schedVars
  <2> QED BY <2>2, <2>3
<1>8. CASE SysIpcRecv
  <2>1. Held' = Held /\ k = "user" /\ k' = "sched"
    BY <1>8 DEF SysIpcRecv, Calls, EnterSched, Held
  <2>2. \A f \in Env : status'[f] = "FREE" <=> status[f] = "FREE"
    BY <1>8, <2>1 DEF SysIpcRecv, TInv, TypeOK, UserLive
  <2> QED BY <1>8, <2>1, <2>2, KeptPInv DEF SysIpcRecv
<1>9. CASE RecvFrom \/ RecvValue \/ (\E envid \in Known : WaitCall(envid))
           \/ (\E e \in Env : WaitId(e))
  <2>1. k = "user" /\ UNCHANGED <<status, env_free_list, schedVars>>
    BY <1>9 DEF RecvFrom, RecvValue, WaitCall, WaitId, Calls, envVars
  <2>2. Held' = Held
    BY <2>1 DEF Held, schedVars
  <2> QED BY <2>1, <2>2, KeptPInv DEF schedVars
<1>10. ASSUME NEW envid \in Known, NEW v \in Value, NEW mapped \in BOOLEAN,
              IpcSend(envid, v, mapped)
       PROVE  PInv'
  <2> DEFINE e == envid2env(envid, FALSE)
  <2>1. k = "user" /\ (e # NULL => e \in Env /\ status[e] # "FREE")
    BY <1>a, <1>10, Envid2envFacts DEF IpcSend, Calls
  <2>2. /\ UNCHANGED <<env_sched_list, env_free_list, curenv>>
        /\ UNCHANGED <<k, next_env>> \/ EnterSched
        /\ \/ UNCHANGED status
           \/ e # NULL /\ status' = [status EXCEPT ![e] = "RUNNABLE"]
    BY <1>10 DEF IpcSend, Deliver
  <2>3. Held' = Held /\ k' \in {"user", "sched"}
    BY <2>1, <2>2 DEF Held, EnterSched
  <2> HIDE DEF e
  <2>4. \A f \in Env : status'[f] = "FREE" <=> status[f] = "FREE"
    BY <2>1, <2>2 DEF TInv, TypeOK
  <2> QED BY <2>1, <2>2, <2>3, <2>4, KeptPInv
<1>11. ASSUME NEW e \in Env, WaitStatus(e) PROVE PInv'
  <2>1. /\ k = "user" /\ UNCHANGED <<status, env_free_list, env_sched_list, curenv>>
        /\ UNCHANGED <<k, next_env>> \/ EnterSched
    BY <1>11 DEF WaitStatus, envVars
  <2>2. Held' = Held /\ k' \in {"user", "sched"}
    BY <2>1 DEF Held, EnterSched
  <2> QED BY <2>1, <2>2, KeptPInv
<1> QED BY <1>1, <1>2, <1>3, <1>4, <1>5, <1>6, <1>7, <1>8, <1>9, <1>10, <1>11
        DEF Next, Halted

(***************************************************************************)
(* Whatever calls user code makes, until a slot that is still listed is    *)
(* allocated the scheduler loses and doubles no environment.               *)
(***************************************************************************)
THEOREM SchedulerKeepsEnvs == Spec => []SchedPartition
<1>1. PInv => SchedPartition
  BY DEF PInv
<1> QED BY InitTInv, NextTInv, InitPInv, NextPInv, <1>1, PTL DEF Spec

(***************************************************************************)
(* The free list is the set of FREE slots, each once, whatever user code   *)
(* calls.                                                                  *)
(***************************************************************************)
THEOREM FreeListCorrect == Spec => []FreeListExact
<1>1. PInv => FreeListExact
  BY DEF PInv
<1> QED BY InitTInv, NextTInv, InitPInv, NextPInv, <1>1, PTL DEF Spec

(***************************************************************************)
(* With the calls of the user library no listed slot is ever allocated.    *)
(***************************************************************************)
THEOREM LibraryNeverCorrupts == Spec => []NeverCorrupt
<1>1. PInv => NeverCorrupt
  BY DEF PInv
<1> QED BY InitTInv, NextTInv, InitPInv, NextPInv, <1>1, PTL DEF Spec

-----------------------------------------------------------------------------
(* The panic of the scheduler *)

(* The panic is reached when no environment is left, and nothing follows it. *)
LEMMA NextPanic == TInv /\ PInv /\ PanicOnlyWhenGone /\ [Next]_vars => PanicOnlyWhenGone'
<1> SUFFICES ASSUME TInv, PInv, PanicOnlyWhenGone, [Next]_vars PROVE PanicOnlyWhenGone'
  OBVIOUS
<1>1. CASE SchedTurn /\ k' = "panic"
  <2>1. /\ k = "sched" /\ PutBack[TakeFrom] = <<>> /\ status' = status
        /\ Held = next_env /\ LiveKept
    BY <1>1 DEF SchedTurn, envVars, Held, PInv, SchedPartition
  <2>2. env_sched_list \in [{0, 1} -> Seq(Env)] /\ point \in {0, 1} /\ 1 - point \in {0, 1}
    BY DEF TInv, TypeOK
  <2>3. PutBack[point] = <<>> /\ PutBack[1 - point] = <<>>
    BY <2>1 DEF TakeFrom
  <2>4. next_env = NULL
    <3> SUFFICES ASSUME next_env # NULL PROVE FALSE
      OBVIOUS
    <3>1. next_env \in Env /\ env_sched_list[1 - point] \in Seq(Env)
      BY <2>2 DEF TInv, TypeOK
    <3>2. Append(env_sched_list[1 - point], next_env) # <<>>
      BY <3>1, AppendFacts
    <3>3. PutBack[1 - point] = Append(env_sched_list[1 - point], next_env)
      BY <2>2 DEF PutBack
    <3> QED BY <2>3, <3>2, <3>3
  <2>5. env_sched_list[0] = <<>> /\ env_sched_list[1] = <<>>
    BY <2>2, <2>3, <2>4 DEF PutBack
  <2>6. \A e : ~ Listed(e)
    BY <2>5 DEF Listed, Range
  <2>7. \A e \in Env : e # NULL
    BY EnvAssumption
  <2> QED BY <2>1, <2>4, <2>6, <2>7 DEF LiveKept, PanicOnlyWhenGone
<1>2. CASE k = "panic" /\ UNCHANGED vars
  BY <1>2 DEF PanicOnlyWhenGone, vars, envVars
<1>3. k' = "panic" => (SchedTurn \/ (k = "panic" /\ UNCHANGED vars))
  <2> SUFFICES ASSUME k' = "panic", ~ SchedTurn PROVE k = "panic" /\ UNCHANGED vars
    OBVIOUS
  <2>1. CASE UNCHANGED vars
    BY <2>1 DEF vars, schedVars
  <2>2. ~ SchedRun /\ ~ Yield /\ ~ SysEnvAlloc /\ ~ SysIpcRecv
    BY DEF SchedRun, Yield, EnterSched, SysEnvAlloc, Calls, SysIpcRecv
  <2>3. ~ RecvFrom /\ ~ RecvValue /\ \A envid \in Known : ~ WaitCall(envid)
    BY DEF RecvFrom, RecvValue, WaitCall, Calls, schedVars
  <2>4. \A e \in Env : ~ WaitId(e) /\ ~ WaitStatus(e)
    BY DEF WaitId, WaitStatus, EnterSched, schedVars
  <2>5. ASSUME NEW e, env_destroy(e), k = "user" PROVE FALSE
    BY <2>5 DEF env_destroy, YieldForGood
  <2>6. \A envid \in Known : ~ SysEnvDestroy(envid)
    BY <2>5 DEF SysEnvDestroy, Calls
  <2>7. ASSUME NEW envid \in Known, NEW st \in Status PROVE ~ SysSetEnvStatus(envid, st)
    BY <2>5 DEF SysSetEnvStatus, Calls, schedVars
  <2>8. ASSUME NEW envid \in Known, NEW v \in Value, NEW mapped \in BOOLEAN
        PROVE  ~ IpcSend(envid, v, mapped)
    <3> SUFFICES ASSUME IpcSend(envid, v, mapped) PROVE FALSE
      OBVIOUS
    <3>1. k = "user"
      BY DEF IpcSend, Calls
    <3>2. k' = k \/ k' = "sched"
      BY DEF IpcSend, EnterSched
    <3> QED BY <3>1, <3>2
  <2> QED BY <2>1, <2>2, <2>3, <2>4, <2>6, <2>7, <2>8 DEF Next, Halted
<1> QED BY <1>1, <1>2, <1>3 DEF PanicOnlyWhenGone

(***************************************************************************)
(* sched_yield finds both lists empty only when every slot is FREE, for    *)
(* any number of slots and whatever user code calls: nobody that waits for *)
(* a message or is still being built is given up by the panic.             *)
(***************************************************************************)
THEOREM PanicIsTheEnd == Spec => []PanicOnlyWhenGone
<1>1. Init => PanicOnlyWhenGone
  BY DEF Init, PanicOnlyWhenGone
<1> QED BY InitTInv, NextTInv, InitPInv, NextPInv, NextPanic, <1>1, PTL DEF Spec

-----------------------------------------------------------------------------
(* Messages, and the start of a child *)

(* What the program counter of a slot says of the fields of its Env. *)
DeadOK(e) == status[e] = "FREE" /\ ~ ipc_recving[e] /\ inbox[e] = <<>>

NewOK(e) == status[e] = "NOT_RUNNABLE" /\ ~ ipc_recving[e] /\ inbox[e] = <<>>

BusyOK(e) == status[e] = "RUNNABLE" /\ ~ ipc_recving[e] /\ inbox[e] = <<>>

WaitingOK(e) == status[e] = "NOT_RUNNABLE" /\ ipc_recving[e] /\ inbox[e] = <<>>

ServedOK(e) == status[e] = "RUNNABLE" /\ ~ ipc_recving[e] /\ inbox[e] = <<ipc[e]>>

SlotOK(e) ==
  /\ upc[e] = "dead" => DeadOK(e)
  /\ upc[e] = "new" => NewOK(e)
  /\ upc[e] = "recv" => WaitingOK(e) \/ ServedOK(e)
  /\ upc[e] = "from" => ServedOK(e) /\ from[e] = ipc[e].from
  /\ upc[e] \in {"run", "send", "wait", "wait2", "panic"} => BusyOK(e)

UInv ==
  /\ k = "user" => status[curenv] = "RUNNABLE"
  /\ \A e \in Env : SlotOK(e)

(* A slot whose fields a step does not touch. *)
LEMMA SlotKept ==
  ASSUME NEW f \in Env, SlotOK(f),
         status'[f] = status[f], ipc_recving'[f] = ipc_recving[f], inbox'[f] = inbox[f],
         ipc'[f] = ipc[f], upc'[f] = upc[f], from'[f] = from[f]
  PROVE  SlotOK(f)'
BY DEF SlotOK, DeadOK, NewOK, BusyOK, WaitingOK, ServedOK

(* Between calls nothing tells the states of the library apart. *)
LEMMA SlotBusy ==
  ASSUME NEW f \in Env, SlotOK(f),
         status'[f] = status[f], ipc_recving'[f] = ipc_recving[f], inbox'[f] = inbox[f],
         upc[f] \in {"run", "send", "wait", "wait2", "panic"},
         upc'[f] \in {"run", "send", "wait", "wait2", "panic"}
  PROVE  SlotOK(f)'
<1>1. BusyOK(f)
  BY DEF SlotOK
<1>2. BusyOK(f)'
  BY <1>1 DEF BusyOK
<1> QED BY <1>2 DEF SlotOK

(* Whoever runs is runnable, is no child under construction and waits for no message. *)
LEMMA UserSlot ==
  ASSUME TInv, UInv, k = "user"
  PROVE  /\ curenv \in Env /\ status[curenv] = "RUNNABLE" /\ upc[curenv] \notin {"new", "dead"}
         /\ upc[curenv] \in {"run", "send", "wait", "wait2", "panic"} \/ ServedOK(curenv)
<1>1. curenv \in Env /\ status[curenv] = "RUNNABLE" /\ upc[curenv] \in UserPc
  BY DEF TInv, TypeOK, UserLive, UInv
<1>2. SlotOK(curenv)
  BY <1>1 DEF UInv
<1> QED BY <1>1, <1>2 DEF SlotOK, DeadOK, NewOK, WaitingOK, UserPc

(* The types of the fields that SlotOK is about. *)
LEMMA UserTypes ==
  ASSUME TInv
  PROVE  /\ status \in [Env -> Status] /\ ipc_recving \in [Env -> BOOLEAN]
         /\ inbox \in [Env -> Seq(Msg)] /\ ipc \in [Env -> Msg]
         /\ upc \in [Env -> UserPc] /\ from \in [Env -> Id]
         /\ who \in [Env -> Id] /\ val \in [Env -> Value]
BY DEF TInv, TypeOK

(* The current environment goes on in the library, or calls it. *)
LEMMA BusyUInv ==
  ASSUME TInv, UInv, k = "user", UNCHANGED <<status, ipc_recving, inbox, ipc, curenv>>,
         upc[curenv] \in {"run", "send", "wait", "wait2", "panic"},
         \A f \in Env : f # curenv => upc'[f] = upc[f] /\ from'[f] = from[f],
         upc'[curenv] \in {"run", "send", "wait", "wait2", "panic"}
  PROVE  UInv'
<1>1. curenv \in Env /\ status[curenv] = "RUNNABLE"
  BY UserSlot
<1>2. ASSUME NEW f \in Env PROVE SlotOK(f)'
  <2>0. SlotOK(f)
    BY DEF UInv
  <2>1. CASE f = curenv
    BY <2>0, <2>1, SlotBusy
  <2>2. CASE f # curenv
    BY <2>0, <2>2, SlotKept
  <2> QED BY <2>1, <2>2
<1> QED BY <1>1, <1>2 DEF UInv

(* sys_env_destroy of the caller. *)
LEMMA ExitUInv ==
  ASSUME TInv, UInv, k = "user", upc[curenv] = "run", env_destroy(curenv)
  PROVE  UInv'
<1>1. curenv \in Env /\ SlotOK(curenv)
  BY UserSlot DEF UInv
<1>2. /\ status' = [status EXCEPT ![curenv] = "FREE"] /\ upc' = [upc EXCEPT ![curenv] = "dead"]
      /\ from' = [from EXCEPT ![curenv] = SELF] /\ inbox' = [inbox EXCEPT ![curenv] = <<>>]
      /\ ipc_recving' = ipc_recving /\ ipc' = ipc /\ k' = "sched"
  BY DEF env_destroy, YieldForGood
<1>3. ASSUME NEW f \in Env PROVE SlotOK(f)'
  <2>0. SlotOK(f)
    BY DEF UInv
  <2>1. CASE f = curenv
    <3>1. ~ ipc_recving[f]
      BY <2>0, <2>1 DEF SlotOK, BusyOK
    <3>2. upc'[f] = "dead" /\ status'[f] = "FREE" /\ inbox'[f] = <<>> /\ ~ ipc_recving'[f]
      BY <3>1, <2>1, <1>1, <1>2, UserTypes
    <3> QED BY <3>2 DEF SlotOK, DeadOK
  <2>2. CASE f # curenv
    <3>1. /\ status'[f] = status[f] /\ upc'[f] = upc[f] /\ from'[f] = from[f]
          /\ inbox'[f] = inbox[f]
      BY <2>2, <1>1, <1>2, UserTypes
    <3> QED BY <3>1, <2>0, <1>2, SlotKept
  <2> QED BY <2>1, <2>2
<1> QED BY <1>2, <1>3 DEF UInv

(* sys_env_alloc: the new owner of a slot finds ipc_recving reset and no message. *)
LEMMA AllocUInv ==
  ASSUME TInv, PInv, UInv, SysEnvAlloc
  PROVE  UInv'
<1>1. k = "user" /\ curenv \in Env /\ status[curenv] = "RUNNABLE"
  BY UserSlot DEF SysEnvAlloc, Calls
<1>2. PICK e : e = Head(env_free_list)
  OBVIOUS
<1>3. e \in Env /\ e \in Range(env_free_list)
  BY <1>2, TailFacts DEF SysEnvAlloc, TInv, TypeOK
<1>4. status[e] = "FREE"
  BY <1>3 DEF PInv, FreeListExact
<1>5. /\ status' = [status EXCEPT ![e] = "NOT_RUNNABLE"] /\ upc' = [upc EXCEPT ![e] = "new"]
      /\ ipc_recving' = ipc_recving /\ ipc' = ipc /\ inbox' = inbox /\ from' = from
      /\ curenv' = curenv
  BY <1>2 DEF SysEnvAlloc, ChildStatus, ipcVars
<1>6. SlotOK(e) /\ upc[e] \in UserPc
  BY <1>3, UserTypes DEF UInv
<1>7. DeadOK(e)
  BY <1>4, <1>6 DEF SlotOK, NewOK, BusyOK, WaitingOK, ServedOK, UserPc
<1>8. ASSUME NEW f \in Env PROVE SlotOK(f)'
  <2>0. SlotOK(f)
    BY DEF UInv
  <2>1. CASE f = e
    <3>1. /\ upc'[f] = "new" /\ status'[f] = "NOT_RUNNABLE" /\ inbox'[f] = <<>>
          /\ ~ ipc_recving'[f]
      BY <2>1, <1>3, <1>5, <1>7, UserTypes DEF DeadOK
    <3> QED BY <3>1 DEF SlotOK, NewOK
  <2>2. CASE f # e
    <3>1. status'[f] = status[f] /\ upc'[f] = upc[f]
      BY <2>2, <1>3, <1>5, UserTypes
    <3> QED BY <3>1, <2>0, <1>5, SlotKept
  <2> QED BY <2>1, <2>2
<1>9. status'[curenv] = "RUNNABLE"
  BY <1>1, <1>3, <1>4, <1>5, UserTypes
<1> QED BY <1>5, <1>8, <1>9 DEF UInv

(* The creator starts its child. *)
LEMMA StartUInv ==
  ASSUME TInv, UInv, k = "user", NEW e \in Env, upc[e] = "new",
         status' = [status EXCEPT ![e] = "RUNNABLE"], upc' = [upc EXCEPT ![e] = "run"],
         UNCHANGED <<ipc_recving, ipc, inbox, from, curenv>>
  PROVE  UInv'
<1>1. SlotOK(e) /\ curenv \in Env /\ status[curenv] = "RUNNABLE"
  BY UserSlot DEF UInv
<1>2. ASSUME NEW f \in Env PROVE SlotOK(f)'
  <2>0. SlotOK(f)
    BY DEF UInv
  <2>1. CASE f = e
    <3>1. /\ upc'[f] = "run" /\ status'[f] = "RUNNABLE" /\ inbox'[f] = <<>>
          /\ ~ ipc_recving'[f]
      BY <2>1, <1>1, UserTypes DEF SlotOK, NewOK
    <3> QED BY <3>1 DEF SlotOK, BusyOK
  <2>2. CASE f # e
    <3>1. status'[f] = status[f] /\ upc'[f] = upc[f]
      BY <2>2, UserTypes
    <3> QED BY <3>1, <2>0, SlotKept
  <2> QED BY <2>1, <2>2
<1>3. status'[curenv] = "RUNNABLE"
  BY <1>1, UserTypes
<1> QED BY <1>2, <1>3 DEF UInv

(* sys_ipc_recv and the two reads of ipc_recv. *)
LEMMA RecvUInv ==
  ASSUME TInv, UInv, SysIpcRecv \/ RecvFrom \/ RecvValue
  PROVE  UInv'
<1>1. k = "user" /\ curenv \in Env /\ status[curenv] = "RUNNABLE"
  BY UserSlot DEF SysIpcRecv, RecvFrom, RecvValue, Calls
<1>2. SlotOK(curenv)
  BY <1>1 DEF UInv
<1>3. CASE SysIpcRecv
  <2>1. /\ ipc_recving' = [ipc_recving EXCEPT ![curenv] = TRUE]
        /\ status' = [status EXCEPT ![curenv] = "NOT_RUNNABLE"]
        /\ upc' = [upc EXCEPT ![curenv] = "recv"]
        /\ ipc' = ipc /\ inbox' = inbox /\ from' = from /\ k' = "sched"
        /\ upc[curenv] = "run"
    BY <1>3, <1>1, UserSlot DEF SysIpcRecv, EnterSched, Calls
  <2>2. ASSUME NEW f \in Env PROVE SlotOK(f)'
    <3>0. SlotOK(f)
      BY DEF UInv
    <3>1. CASE f = curenv
      <4>1. /\ upc'[f] = "recv" /\ status'[f] = "NOT_RUNNABLE" /\ inbox'[f] = <<>>
            /\ ipc_recving'[f]
        BY <3>1, <1>2, <2>1, UserTypes DEF SlotOK, BusyOK
      <4> QED BY <4>1 DEF SlotOK, WaitingOK
    <3>2. CASE f # curenv
      <4>1. status'[f] = status[f] /\ upc'[f] = upc[f] /\ ipc_recving'[f] = ipc_recving[f]
        BY <3>2, <1>1, <2>1, UserTypes
      <4> QED BY <4>1, <3>0, <2>1, SlotKept
    <3> QED BY <3>1, <3>2
  <2> QED BY <2>1, <2>2 DEF UInv
<1>4. CASE RecvFrom
  <2>1. /\ from' = [from EXCEPT ![curenv] = ipc[curenv].from]
        /\ upc' = [upc EXCEPT ![curenv] = "from"] /\ upc[curenv] = "recv"
        /\ UNCHANGED <<status, ipc_recving, ipc, inbox, curenv>>
    BY <1>4 DEF RecvFrom, envVars, ipcVars, schedVars
  <2>2. ASSUME NEW f \in Env PROVE SlotOK(f)'
    <3>0. SlotOK(f)
      BY DEF UInv
    <3>1. CASE f = curenv
      <4>1. ServedOK(f)
        BY <3>1, <1>1, <1>2, <2>1 DEF SlotOK, WaitingOK
      <4>2. upc'[f] = "from" /\ from'[f] = ipc[f].from
        BY <3>1, <2>1, UserTypes
      <4> QED BY <4>1, <4>2, <2>1 DEF SlotOK, ServedOK
    <3>2. CASE f # curenv
      <4>1. from'[f] = from[f] /\ upc'[f] = upc[f]
        BY <3>2, <1>1, <2>1, UserTypes
      <4> QED BY <4>1, <3>0, <2>1, SlotKept
    <3> QED BY <3>1, <3>2
  <2> QED BY <2>1, <2>2, <1>1 DEF UInv
<1>5. CASE RecvValue
  <2>1. /\ inbox' = [inbox EXCEPT ![curenv] = IF @ = <<>> THEN @ ELSE Tail(@)]
        /\ upc' = [upc EXCEPT ![curenv] = "run"] /\ from' = [from EXCEPT ![curenv] = SELF]
        /\ upc[curenv] = "from" /\ UNCHANGED <<status, ipc_recving, ipc, curenv>>
    BY <1>5 DEF RecvValue, Return, envVars, schedVars
  <2>2. ASSUME NEW f \in Env PROVE SlotOK(f)'
    <3>0. SlotOK(f)
      BY DEF UInv
    <3>1. CASE f = curenv
      <4>1. ServedOK(f)
        BY <3>1, <1>2, <2>1 DEF SlotOK
      <4>2. inbox[f] = <<ipc[f]>> /\ Tail(<<ipc[f]>>) = <<>> /\ <<ipc[f]>> # <<>>
        BY <4>1 DEF ServedOK
      <4>3. upc'[f] = "run" /\ inbox'[f] = <<>>
        BY <3>1, <4>2, <2>1, UserTypes
      <4> QED BY <4>1, <4>3, <2>1 DEF SlotOK, ServedOK, BusyOK
    <3>2. CASE f # curenv
      <4>1. from'[f] = from[f] /\ upc'[f] = upc[f] /\ inbox'[f] = inbox[f]
        BY <3>2, <1>1, <2>1, UserTypes
      <4> QED BY <4>1, <3>0, <2>1, SlotKept
    <3> QED BY <3>1, <3>2
  <2> QED BY <2>1, <2>2, <1>1 DEF UInv
<1> QED BY <1>3, <1>4, <1>5

(* sys_ipc_can_send finds ipc_recving only in an environment that waits. *)
LEMMA DeliverUInv ==
  ASSUME TInv, UInv, k = "user", NEW e \in Env, ipc_recving[e], NEW v \in Value, Deliver(e, v),
         upc[curenv] \in {"run", "send"}, UNCHANGED curenv,
         \A f \in Env : f # curenv => upc'[f] = upc[f] /\ from'[f] = from[f],
         upc'[curenv] \in {"run", "panic"}
  PROVE  UInv'
<1>1. curenv \in Env /\ status[curenv] = "RUNNABLE" /\ SlotOK(curenv)
  BY UserSlot DEF UInv
<1>2. SlotOK(e) /\ upc[e] \in UserPc
  BY UserTypes DEF UInv
<1>3. upc[e] = "recv" /\ WaitingOK(e)
  BY <1>2 DEF SlotOK, DeadOK, NewOK, BusyOK, ServedOK, UserPc
<1>4. e # curenv
  BY <1>1, <1>3 DEF WaitingOK
<1>5. PICK m : m = [value |-> v, from |-> id[curenv]]
  OBVIOUS
<1>6. /\ ipc' = [ipc EXCEPT ![e] = m] /\ ipc_recving' = [ipc_recving EXCEPT ![e] = FALSE]
      /\ status' = [status EXCEPT ![e] = "RUNNABLE"]
      /\ inbox' = [inbox EXCEPT ![e] = Append(@, m)]
  BY <1>5 DEF Deliver
<1>7. ASSUME NEW f \in Env PROVE SlotOK(f)'
  <2>0. SlotOK(f)
    BY DEF UInv
  <2>1. CASE f = e
    <3>1. /\ upc'[f] = "recv" /\ status'[f] = "RUNNABLE" /\ ~ ipc_recving'[f]
          /\ ipc'[f] = m /\ inbox'[f] = Append(<<>>, m)
      BY <2>1, <1>3, <1>4, <1>6, UserTypes DEF WaitingOK
    <3>2. Append(<<>>, m) = <<m>>
      OBVIOUS
    <3> QED BY <3>1, <3>2 DEF SlotOK, ServedOK
  <2>2. CASE f # e
    <3>1. /\ status'[f] = status[f] /\ ipc_recving'[f] = ipc_recving[f]
          /\ inbox'[f] = inbox[f] /\ ipc'[f] = ipc[f]
      BY <2>2, <1>6, UserTypes
    <3>2. CASE f = curenv
      BY <3>1, <3>2, <2>0, SlotBusy
    <3>3. CASE f # curenv
      BY <3>1, <3>3, <2>0, SlotKept
    <3> QED BY <3>2, <3>3
  <2> QED BY <2>1, <2>2
<1>8. status'[curenv] = "RUNNABLE"
  BY <1>1, <1>6, UserTypes
<1> QED BY <1>7, <1>8 DEF UInv

(* A turn of ipc_send: its message goes to a slot that waits, and to no other. *)
LEMMA SendUInv ==
  ASSUME TInv, UInv, NEW envid \in Id, NEW v \in Value, NEW mapped \in BOOLEAN,
         IpcSend(envid, v, mapped)
  PROVE  UInv'
<1>1. /\ k = "user" /\ curenv \in Env /\ upc[curenv] \in {"run", "send"}
      /\ curenv' = curenv
  <2>1. k = "user" /\ upc[curenv] \in {"new", "run", "send"} /\ curenv' = curenv
    BY DEF IpcSend, Calls
  <2> QED BY <2>1, UserSlot
<1>2. PICK e : e = envid2env(envid, FALSE)
  OBVIOUS
<1>3. e # NULL => e \in Env
  BY <1>1, <1>2, Envid2envFacts
<1>4. CASE upc' = [upc EXCEPT ![curenv] = "panic"] /\ UNCHANGED <<status, ipcVars, from>>
  <2>1. UNCHANGED <<status, ipc_recving, inbox, ipc, from>>
    BY <1>4 DEF ipcVars
  <2>2. /\ upc'[curenv] = "panic"
        /\ \A f \in Env : f # curenv => upc'[f] = upc[f]
    BY <1>1, <1>4, UserTypes
  <2> QED BY <2>1, <2>2, <1>1, BusyUInv
<1>5. CASE upc' = [upc EXCEPT ![curenv] = "send"] /\ UNCHANGED <<status, ipcVars, from>>
  <2>1. UNCHANGED <<status, ipc_recving, inbox, ipc, from>>
    BY <1>5 DEF ipcVars
  <2>2. /\ upc'[curenv] = "send"
        /\ \A f \in Env : f # curenv => upc'[f] = upc[f]
    BY <1>1, <1>5, UserTypes
  <2> QED BY <2>1, <2>2, <1>1, BusyUInv
<1>6. CASE /\ e # NULL /\ ipc_recving[e] /\ Deliver(e, v)
           /\ \/ Return(curenv)
              \/ upc' = [upc EXCEPT ![curenv] = "panic"] /\ from' = from
  <2>1. \A f \in Env : f # curenv => upc'[f] = upc[f] /\ from'[f] = from[f]
    BY <1>1, <1>6, UserTypes DEF Return
  <2>2. upc'[curenv] \in {"run", "panic"}
    BY <1>1, <1>6, UserTypes DEF Return
  <2> QED BY <2>1, <2>2, <1>1, <1>3, <1>6, DeliverUInv
<1> QED BY <1>2, <1>4, <1>5, <1>6 DEF IpcSend

(* Every step of programs that keep to the user library preserves UInv. *)
LEMMA NextUInv == ASSUME Lib PROVE TInv /\ PInv /\ UInv /\ [Next]_vars => UInv'
<1> SUFFICES ASSUME TInv, PInv, UInv, [Next]_vars PROVE UInv'
  OBVIOUS
<1>a. \A envid \in Known : envid \in Id
  <2>1. SELF \in Id
    BY EnvAssumption DEF SELF, Id, Env
  <2> QED BY <2>1 DEF Known, TInv, TypeOK
<1>b. k = "user" => curenv \in Env /\ status[curenv] = "RUNNABLE" /\ upc[curenv] # "new"
  BY UserSlot
<1>1. ASSUME UNCHANGED <<status, ipc_recving, inbox, ipc, upc, from>>,
             k' = "user" => status[curenv'] = "RUNNABLE"
      PROVE  UInv'
  <2>1. \A f \in Env : SlotOK(f)'
    BY <1>1, SlotKept DEF UInv
  <2> QED BY <2>1, <1>1 DEF UInv
<1>2. CASE UNCHANGED vars
  <2>1. UNCHANGED <<status, ipc_recving, inbox, ipc, upc, from, k, curenv>>
    BY <1>2 DEF vars, envVars, ipcVars, schedVars, userVars
  <2> QED BY <2>1, <1>1, <1>b
<1>3. CASE SchedTurn
  <2>1. UNCHANGED <<status, ipc_recving, inbox, ipc, upc, from>> /\ k' # "user"
    BY <1>3 DEF SchedTurn, envVars, ipcVars, userVars
  <2> QED BY <2>1, <1>1
<1>4. CASE SchedRun
  <2>1. /\ UNCHANGED <<status, ipc_recving, inbox, ipc, upc, from>>
        /\ curenv' = next_env /\ status[next_env] = "RUNNABLE"
    BY <1>4 DEF SchedRun, Found, envVars, ipcVars, userVars
  <2> QED BY <2>1, <1>1
<1>5. CASE Yield
  <2>1. UNCHANGED <<status, ipc_recving, inbox, ipc, upc, from>> /\ k' # "user"
    BY <1>5 DEF Yield, EnterSched, envVars, ipcVars, userVars
  <2> QED BY <2>1, <1>1
<1>6. CASE SysEnvAlloc
  BY <1>6, AllocUInv
<1>7. ASSUME NEW envid \in Known, SysEnvDestroy(envid) PROVE UInv'
  <2>1. k = "user" /\ upc[curenv] = "run" /\ env_destroy(curenv)
    BY <1>7, <1>b DEF SysEnvDestroy, Calls, envid2env
  <2> QED BY <2>1, ExitUInv
<1>8. ASSUME NEW envid \in Known, NEW st \in Status, SysSetEnvStatus(envid, st)
      PROVE  UInv'
  <2>1. PICK e : e = envid2env(envid, TRUE)
    OBVIOUS
  <2>2. /\ k = "user" /\ e # NULL /\ upc[e] = "new" /\ st = "RUNNABLE"
        /\ status' = [status EXCEPT ![e] = st]
        /\ upc' = [upc EXCEPT ![e] = IF @ = "new" /\ st = "RUNNABLE" THEN "run" ELSE @]
        /\ UNCHANGED <<ipcVars, schedVars, from>>
    BY <1>8, <2>1 DEF SysSetEnvStatus, Calls
  <2>3. e \in Env
    BY <1>a, <2>1, <2>2, Envid2envFacts
  <2>4. /\ status' = [status EXCEPT ![e] = "RUNNABLE"] /\ upc' = [upc EXCEPT ![e] = "run"]
        /\ UNCHANGED <<ipc_recving, ipc, inbox, from, curenv>>
    BY <2>2, <2>3, UserTypes DEF ipcVars, schedVars
  <2> QED BY <2>2, <2>3, <2>4, StartUInv
<1>9. CASE SysIpcRecv \/ RecvFrom \/ RecvValue
  BY <1>9, RecvUInv
<1>10. ASSUME NEW envid \in Known, NEW v \in Value, NEW mapped \in BOOLEAN,
              IpcSend(envid, v, mapped)
       PROVE  UInv'
  BY <1>a, <1>10, SendUInv
<1>11. ASSUME NEW envid \in Known, WaitCall(envid) PROVE UInv'
  <2>1. /\ k = "user" /\ upc[curenv] = "run" /\ upc' = [upc EXCEPT ![curenv] = "wait"]
        /\ UNCHANGED <<status, ipc_recving, inbox, ipc, curenv, from>>
    BY <1>11, <1>b DEF WaitCall, Calls, envVars, ipcVars, schedVars
  <2>2. /\ upc'[curenv] = "wait"
        /\ \A f \in Env : f # curenv => upc'[f] = upc[f] /\ from'[f] = from[f]
    BY <2>1, <1>b, UserTypes
  <2> QED BY <2>1, <2>2, BusyUInv
<1>12. ASSUME NEW e \in Env, WaitId(e) \/ WaitStatus(e) PROVE UInv'
  <2>1. /\ k = "user" /\ curenv = e /\ upc[curenv] \in {"wait", "wait2"}
        /\ UNCHANGED <<status, ipc_recving, inbox, ipc, curenv>>
    BY <1>12 DEF WaitId, WaitStatus, envVars, ipcVars, schedVars
  <2>2. \/ upc' = [upc EXCEPT ![e] = "wait2"] /\ from' = from
        \/ upc' = [upc EXCEPT ![e] = "wait"] /\ from' = from
        \/ upc' = [upc EXCEPT ![e] = "run"] /\ from' = [from EXCEPT ![e] = SELF]
    BY <1>12 DEF WaitId, WaitStatus, Return
  <2>3. upc'[curenv] \in {"wait", "wait2", "run"}
    BY <2>1, <2>2, UserTypes
  <2>4. \A f \in Env : f # curenv => upc'[f] = upc[f] /\ from'[f] = from[f]
    BY <2>1, <2>2, UserTypes
  <2> QED BY <2>1, <2>3, <2>4, BusyUInv
<1> QED BY <1>2, <1>3, <1>4, <1>5, <1>6, <1>7, <1>8, <1>9, <1>10, <1>11, <1>12
        DEF Next, Halted

(* The boot environments run and nobody waits. *)
LEMMA InitUInv == Init => UInv
<1> SUFFICES ASSUME Init PROVE UInv
  OBVIOUS
<1>1. ASSUME NEW e \in Env PROVE SlotOK(e)
  <2>1. ~ ipc_recving[e] /\ inbox[e] = <<>>
    BY DEF Init
  <2>2. \/ upc[e] = "run" /\ status[e] = "RUNNABLE"
        \/ upc[e] = "dead" /\ status[e] = "FREE"
    BY DEF Init
  <2> QED BY <2>1, <2>2 DEF SlotOK, BusyOK, DeadOK
<1> QED BY <1>1 DEF Init, UInv

(* What is known of every slot while programs keep to the user library. *)
THEOREM LibraryInvariant == ASSUME Lib PROVE Spec => [](TInv /\ UInv)
BY InitTInv, NextTInv, InitPInv, NextPInv, InitUInv, NextUInv, PTL DEF Spec

(***************************************************************************)
(* For any number of slots: a child runs only after its creator has called *)
(* set_env_status.  A slot that is allocated has ipc_recving reset, since  *)
(* its last owner exited while it was running; so no sender wakes it.      *)
(***************************************************************************)
THEOREM ChildWaitsForStart == Spec => []NoPrematureStart
<1>1. CASE Lib
  <2>1. TInv /\ UInv => NoPrematureStart
    BY UserSlot DEF NoPrematureStart
  <2> QED BY <2>1, <1>1, LibraryInvariant, PTL
<1>2. CASE ~ Lib
  <2>1. NoPrematureStart
    BY <1>2 DEF NoPrematureStart
  <2> QED BY <2>1, PTL
<1> QED BY <1>1, <1>2

(***************************************************************************)
(* For any number of slots, senders and values: between sys_ipc_recv and   *)
(* the second read of ipc_recv exactly one message is accepted, and it is  *)
(* the one that is read, wherever the receiver is interrupted.             *)
(***************************************************************************)
THEOREM MessagesIntact == Spec => []MsgIntact
<1>1. CASE Lib
  <2>1. TInv /\ UInv => MsgIntact
    <3> SUFFICES ASSUME TInv, UInv, NEW e \in Env
                 PROVE  CASE upc[e] = "recv" /\ status[e] # "RUNNABLE" -> inbox[e] = <<>>
                          [] upc[e] = "recv" /\ status[e] = "RUNNABLE" -> inbox[e] = <<ipc[e]>>
                          [] upc[e] = "from" -> inbox[e] = <<ipc[e]>> /\ from[e] = ipc[e].from
                          [] OTHER -> inbox[e] = <<>>
      BY DEF MsgIntact
    <3>1. SlotOK(e) /\ upc[e] \in UserPc
      BY UserTypes DEF UInv
    <3> QED BY <3>1 DEF SlotOK, DeadOK, NewOK, BusyOK, WaitingOK, ServedOK, UserPc
  <2> QED BY <2>1, <1>1, LibraryInvariant, PTL
<1>2. CASE ~ Lib
  <2>1. MsgIntact
    BY <1>2 DEF MsgIntact
  <2> QED BY <2>1, PTL
<1> QED BY <1>1, <1>2
=============================================================================
