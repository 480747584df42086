------------------------------ MODULE EnvSched ------------------------------
(***************************************************************************)
(* Environments, the scheduler and IPC: kernel/env.c, kernel/sched.c, the  *)
(* environment and IPC system calls of kernel/syscall_all.c, and the user  *)
(* side of them (user/ipc.c, user/wait.c, user/libos.c, the env_alloc and  *)
(* set_env_status calls of user/fork.c and user/spawn.c).                  *)
(*                                                                         *)
(* One CPU.  Exceptions are taken with interrupts masked, so a handler is  *)
(* atomic with respect to every environment; user code can be interrupted  *)
(* between any two of its steps.  The loop of sched_yield is modelled turn *)
(* by turn, so that a loop that never ends is a behaviour of the model.    *)
(***************************************************************************)
EXTENDS Integers, Sequences, Functions

CONSTANTS
  NENV,     \* number of slots of envs[] (1024)
  IdLimit,  \* number of values of the counter part of an envid (2^21)
  MaxId,    \* bound: no environment is created once next_env_id = MaxId
  Boot,     \* priorities of the environments kernel_main creates
  Value,    \* values sent by IPC
  Lib,      \* TRUE: user code makes only the calls the user library makes
  Api,      \* which of "env", "ipc" and "wait" the programs use
  Waits,    \* who waits for whom: pairs of slots
  NULL

Env == 0 .. NENV - 1

(***************************************************************************)
(* An envid is (n << 11) | idx: the pair <<n, idx>>.  The envid 0 denotes  *)
(* the caller.                                                             *)
(***************************************************************************)
Id   == (0 .. IdLimit - 1) \X Env
SELF == <<0, 0>>

ASSUME EnvAssumption ==
  /\ NENV \in Nat \ {0}
  /\ Boot \in Seq(Nat \ {0})
  /\ Len(Boot) \in 1 .. NENV
  /\ IdLimit \in Nat
  /\ IdLimit > Len(Boot)
  /\ MaxId \in Nat
  /\ Lib \in BOOLEAN
  /\ Api \subseteq {"env", "ipc", "wait"}
  /\ Waits \subseteq Env \X Env
  /\ NULL \notin Env
  /\ Value # {}

VARIABLES
  status, id, parent_id, pri,    \* fields of struct Env
  ipc_recving, ipc,              \* ipc_recving; ipc_value and ipc_from
  env_free_list,                 \* a sequence of slots
  env_sched_list,                \* two sequences of slots
  curenv,
  next_env_id,                   \* static of mkenvid
  count, point,                  \* statics of sched_yield
  k,                             \* what the CPU does, see TypeOK
  next_env,                      \* local of sched_yield
  upc, who, val, from,           \* user side: control, ipc_send's arguments
                                 \* (or wait's), what ipc_recv read first
  inbox,                         \* history: accepted messages not yet read
  issued                         \* history: every envid mkenvid returned

envVars   == <<status, id, parent_id, pri, env_free_list, next_env_id, issued>>
ipcVars   == <<ipc_recving, ipc, inbox>>
schedVars == <<env_sched_list, curenv, count, point, k, next_env>>
userVars  == <<upc, who, val, from>>
vars      == <<envVars, ipcVars, schedVars, userVars>>

Status == {"FREE", "RUNNABLE", "NOT_RUNNABLE"}
Msg    == [value : Value, from : Id]
NoMsg  == [value |-> CHOOSE v \in Value : TRUE, from |-> SELF]

(***************************************************************************)
(* k is "user" while curenv runs, "sched" in the loop of sched_yield,      *)
(* "panic" after panic("No Env is RUNNABLE") and "corrupt" once an element *)
(* was inserted into a scheduling list while it was still on one.          *)
(* upc[e] is "dead" for a slot no program runs in; "new" from env_alloc    *)
(* until its creator makes it runnable; "recv", "from" inside ipc_recv;    *)
(* "send" inside ipc_send; "wait", "wait2" inside wait; "panic" in the     *)
(* endless loop of user_panic; "run" everywhere else.                      *)
(***************************************************************************)
UserPc == {"dead", "new", "run", "recv", "from", "send", "wait", "wait2", "panic"}

TypeOK ==
  /\ status \in [Env -> Status]
  /\ id \in [Env -> Id]
  /\ parent_id \in [Env -> Id]
  /\ pri \in [Env -> Nat]
  /\ ipc_recving \in [Env -> BOOLEAN]
  /\ ipc \in [Env -> Msg]
  /\ env_free_list \in Seq(Env)
  /\ env_sched_list \in [{0, 1} -> Seq(Env)]
  /\ curenv \in Env \union {NULL}
  /\ next_env \in Env \union {NULL}
  /\ next_env_id \in 0 .. IdLimit - 1
  /\ count \in Nat
  /\ point \in {0, 1}
  /\ k \in {"user", "sched", "panic", "corrupt"}
  /\ upc \in [Env -> UserPc]
  /\ who \in [Env -> Id]
  /\ val \in [Env -> Value]
  /\ from \in [Env -> Id]
  /\ inbox \in [Env -> Seq(Msg)]
  /\ issued \subseteq Id

-----------------------------------------------------------------------------
(***************************************************************************)
(* The state in which kernel_main leaves the machine: env_init has put the *)
(* slots on the free list in ascending order, env_create has taken the     *)
(* first ones, the timer is on and its first interrupt enters sched_yield. *)
(***************************************************************************)
Booted(e) == e < Len(Boot)

Init ==
  /\ status = [e \in Env |-> IF Booted(e) THEN "RUNNABLE" ELSE "FREE"]
  /\ id = [e \in Env |-> IF Booted(e) THEN <<e + 1, e>> ELSE SELF]
  /\ parent_id = [e \in Env |-> SELF]
  /\ pri = [e \in Env |-> IF Booted(e) THEN Boot[e + 1] ELSE 0]
  /\ ipc_recving = [e \in Env |-> FALSE]
  /\ ipc = [e \in Env |-> NoMsg]
  /\ env_free_list = [i \in 1 .. NENV - Len(Boot) |-> Len(Boot) + i - 1]
  /\ env_sched_list = [l \in {0, 1} |->
                         IF l = 0 THEN [i \in 1 .. Len(Boot) |-> i - 1] ELSE <<>>]
  /\ curenv = NULL /\ next_env = NULL
  /\ next_env_id = Len(Boot)
  /\ count = 0 /\ point = 0
  /\ k = "sched"
  /\ upc = [e \in Env |-> IF Booted(e) THEN "run" ELSE "dead"]
  /\ who = [e \in Env |-> SELF]
  /\ val = [e \in Env |-> NoMsg.value]
  /\ from = [e \in Env |-> SELF]
  /\ inbox = [e \in Env |-> <<>>]
  /\ issued = {<<i, i - 1>> : i \in 1 .. Len(Boot)}

-----------------------------------------------------------------------------
(* kernel/sched.c *)

(* Mutant: the test of count is left out. *)
FoundNoCount == next_env # NULL /\ status[next_env] = "RUNNABLE"

(* The loop of sched_yield ends when this holds. *)
Found == count # 0 /\ next_env # NULL /\ status[next_env] = "RUNNABLE"

(* The first statement of sched_yield. *)
EnterSched == k' = "sched" /\ next_env' = curenv

(* Mutants: an environment that is blocked is not put back; one that is    *)
(* put back goes to the head of the list that is being used up.            *)
PutBackRunnable ==
  IF next_env = NULL \/ status[next_env] # "RUNNABLE"
    THEN env_sched_list
    ELSE [env_sched_list EXCEPT ![1 - point] = Append(@, next_env)]

PutBackHead ==
  IF next_env = NULL
    THEN env_sched_list
    ELSE [env_sched_list EXCEPT ![point] = <<next_env>> \o @]

(* The lists after the loop has put next_env back. *)
PutBack ==
  IF next_env = NULL
    THEN env_sched_list
    ELSE [env_sched_list EXCEPT ![1 - point] = Append(@, next_env)]

(* Mutant: the lists are not exchanged. *)
TakeFromSame == point

(* The list the loop takes from: the other one when this one is used up. *)
TakeFrom == IF PutBack[point] = <<>> THEN 1 - point ELSE point

(* One turn of the loop. *)
SchedTurn ==
  /\ k = "sched"
  /\ ~ Found
  /\ point' = TakeFrom
  /\ IF PutBack[TakeFrom] = <<>>
       THEN /\ k' = "panic"
            /\ env_sched_list' = PutBack
            /\ UNCHANGED <<next_env, count>>
       ELSE /\ next_env' = Head(PutBack[TakeFrom])
            /\ env_sched_list' = [PutBack EXCEPT ![TakeFrom] = Tail(@)]
            /\ count' = pri[next_env']
            /\ UNCHANGED k
  /\ UNCHANGED <<envVars, ipcVars, userVars, curenv>>

(* The loop ends: env_run. *)
SchedRun ==
  /\ k = "sched"
  /\ Found
  /\ count' = count - 1
  /\ curenv' = next_env
  /\ k' = "user"
  /\ UNCHANGED <<envVars, ipcVars, userVars, env_sched_list, point, next_env>>

(* The timer interrupt, and sys_yield. *)
Yield ==
  /\ k = "user"
  /\ EnterSched
  /\ UNCHANGED <<envVars, ipcVars, userVars, env_sched_list, curenv, count, point>>

-----------------------------------------------------------------------------
(* kernel/env.c and the environment system calls *)

(* The slot an envid denotes for the running environment, NULL on error. *)
envid2env(envid, checkperm) ==
  LET e       == envid[2]
      isValid == /\ status[e] # "FREE"
                 /\ id[e] = envid
                 /\ checkperm => e = curenv \/ parent_id[e] = id[curenv]
  IN  IF envid = SELF THEN curenv ELSE IF isValid THEN e ELSE NULL

(* Whether slot e is on a scheduling list. *)
Listed(e) == \E l \in {0, 1} : e \in Range(env_sched_list[l])

(* User code that makes an arbitrary call next. *)
Calls(api) == api \in Api /\ k = "user" /\ upc[curenv] \in {"new", "run"}

mkenvid == (next_env_id + 1) % IdLimit

(* Mutant: the status env_alloc sets is kept. *)
ChildRunnable == "RUNNABLE"

(* The status sys_env_alloc gives the child. *)
ChildStatus == "NOT_RUNNABLE"

(* env_alloc: the first free slot and a fresh envid.  The status it sets   *)
(* is replaced by its caller.                                              *)
env_alloc(e) ==
  /\ env_free_list' = Tail(env_free_list)
  /\ next_env_id' = mkenvid
  /\ id' = [id EXCEPT ![e] = <<mkenvid, e>>]
  /\ issued' = issued \union {<<mkenvid, e>>}
  /\ parent_id' = [parent_id EXCEPT ![e] = id[curenv]]

(* sys_env_alloc, when the free list is not empty.  Inserting a slot that  *)
(* is on a scheduling list never returns or joins the two lists.           *)
SysEnvAlloc ==
  /\ Calls("env")
  /\ env_free_list # <<>>
  /\ next_env_id # MaxId
  /\ LET e == Head(env_free_list)
     IN  /\ env_alloc(e)
         /\ status' = [status EXCEPT ![e] = ChildStatus]
         /\ pri' = [pri EXCEPT ![e] = pri[curenv]]
         /\ upc' = [upc EXCEPT ![e] = "new"]
         /\ k' = IF Listed(e) THEN "corrupt" ELSE k
         /\ env_sched_list' = [env_sched_list EXCEPT ![0] = Append(@, e)]
  /\ UNCHANGED <<ipcVars, curenv, count, point, next_env, who, val, from>>

(* Mutant: the slot is not given back. *)
FreeListKept(e) == env_free_list

(* The free list after env_free. *)
FreeListWith(e) == <<e>> \o env_free_list

(* Mutant: curenv is still set when sched_yield reads it. *)
YieldFreed == curenv' = NULL /\ next_env' = curenv /\ k' = "sched"

(* env_destroy of the running environment: curenv = NULL, sched_yield. *)
YieldForGood == curenv' = NULL /\ next_env' = NULL /\ k' = "sched"

(* env_free, then sched_yield when the running environment is the one freed. *)
env_destroy(e) ==
  /\ status' = [status EXCEPT ![e] = "FREE"]
  /\ env_free_list' = FreeListWith(e)
  /\ upc' = [upc EXCEPT ![e] = "dead"]
  /\ who' = [who EXCEPT ![e] = SELF]
  /\ val' = [val EXCEPT ![e] = NoMsg.value]
  /\ from' = [from EXCEPT ![e] = SELF]
  /\ inbox' = [inbox EXCEPT ![e] = <<>>]
  /\ IF e = curenv
       THEN YieldForGood
       ELSE UNCHANGED <<curenv, next_env, k>>
  /\ UNCHANGED <<id, parent_id, pri, next_env_id, issued, ipc_recving, ipc,
                 env_sched_list, count, point>>

(* The library destroys an environment only from exit(), itself. *)
SysEnvDestroy(envid) ==
  /\ Calls("env")
  /\ Lib => envid = SELF
  /\ envid2env(envid, TRUE) # NULL
  /\ env_destroy(envid2env(envid, TRUE))

(* The library only starts a child it has just built (fork, spawn). *)
SysSetEnvStatus(envid, st) ==
  /\ Calls("env")
  /\ envid2env(envid, TRUE) # NULL
  /\ LET e == envid2env(envid, TRUE)
     IN  /\ Lib => upc[e] = "new" /\ st = "RUNNABLE"
         /\ IF st = "FREE"
              THEN env_destroy(e)
              ELSE /\ status' = [status EXCEPT ![e] = st]
                   /\ upc' = [upc EXCEPT ![e] =
                                IF @ = "new" /\ st = "RUNNABLE" THEN "run" ELSE @]
                   /\ UNCHANGED <<id, parent_id, pri, env_free_list, next_env_id,
                                  issued, ipcVars, schedVars, who, val, from>>

-----------------------------------------------------------------------------
(* IPC *)

(* A library function of slot e returns; its locals are gone. *)
Return(e) ==
  /\ upc' = [upc EXCEPT ![e] = "run"]
  /\ who' = [who EXCEPT ![e] = SELF]
  /\ val' = [val EXCEPT ![e] = NoMsg.value]
  /\ from' = [from EXCEPT ![e] = SELF]

(* sys_ipc_recv, called by ipc_recv; the address of the page to receive is *)
(* below KERNBASE, or the system call does nothing.                        *)
SysIpcRecv ==
  /\ Calls("ipc")
  /\ ipc_recving' = [ipc_recving EXCEPT ![curenv] = TRUE]
  /\ status' = [status EXCEPT ![curenv] = "NOT_RUNNABLE"]
  /\ upc' = [upc EXCEPT ![curenv] = "recv"]
  /\ EnterSched
  /\ UNCHANGED <<id, parent_id, pri, env_free_list, next_env_id, issued, ipc,
                 inbox, env_sched_list, curenv, count, point, who, val, from>>

(* ipc_recv after the system call: first ipc_from, then ipc_value. *)
RecvFrom ==
  /\ k = "user" /\ upc[curenv] = "recv"
  /\ from' = [from EXCEPT ![curenv] = ipc[curenv].from]
  /\ upc' = [upc EXCEPT ![curenv] = "from"]
  /\ UNCHANGED <<envVars, ipcVars, schedVars, who, val>>

RecvValue ==
  /\ k = "user" /\ upc[curenv] = "from"
  /\ inbox' = [inbox EXCEPT ![curenv] = IF @ = <<>> THEN @ ELSE Tail(@)]
  /\ Return(curenv)
  /\ UNCHANGED <<envVars, ipc_recving, ipc, schedVars>>

(* Mutant: ipc_recving is not reset. *)
DeliverStillReceiving(e, v) ==
  LET m == [value |-> v, from |-> id[curenv]]
  IN  /\ ipc' = [ipc EXCEPT ![e] = m]
      /\ status' = [status EXCEPT ![e] = "RUNNABLE"]
      /\ inbox' = [inbox EXCEPT ![e] = Append(@, m)]
      /\ UNCHANGED ipc_recving

(* sys_ipc_can_send to a receiving slot.  The fields are written before    *)
(* the page to send is looked up: a failed lookup is an error to the       *)
(* sender only.                                                            *)
Deliver(e, v) ==
  LET m == [value |-> v, from |-> id[curenv]]
  IN  /\ ipc' = [ipc EXCEPT ![e] = m]
      /\ ipc_recving' = [ipc_recving EXCEPT ![e] = FALSE]
      /\ status' = [status EXCEPT ![e] = "RUNNABLE"]
      /\ inbox' = [inbox EXCEPT ![e] = Append(@, m)]

(* One turn of the loop of ipc_send: sys_ipc_can_send, and syscall_yield   *)
(* when the target was not receiving.  Any other error ends in user_panic. *)
(* The address of the page to send is below KERNBASE; that page_insert can *)
(* fail after the message has been delivered, and that its result is       *)
(* ignored, is left out: pages are not state of this module.               *)
IpcSend(envid, v, mapped) ==
  /\ \/ Calls("ipc")
     \/ k = "user" /\ upc[curenv] = "send" /\ who[curenv] = envid /\ val[curenv] = v
  /\ LET e == envid2env(envid, FALSE)
     IN  \/ /\ e = NULL
            /\ upc' = [upc EXCEPT ![curenv] = "panic"]
            /\ UNCHANGED <<status, ipcVars, who, val, from, k, next_env>>
         \/ /\ e # NULL /\ ~ ipc_recving[e]
            /\ upc' = [upc EXCEPT ![curenv] = "send"]
            /\ who' = [who EXCEPT ![curenv] = envid]
            /\ val' = [val EXCEPT ![curenv] = v]
            /\ EnterSched
            /\ UNCHANGED <<status, ipcVars, from>>
         \/ /\ e # NULL /\ ipc_recving[e]
            /\ Deliver(e, v)
            /\ IF mapped THEN Return(curenv)
                         ELSE /\ upc' = [upc EXCEPT ![curenv] = "panic"]
                              /\ UNCHANGED <<who, val, from>>
            /\ UNCHANGED <<k, next_env>>
  /\ UNCHANGED <<id, parent_id, pri, env_free_list, next_env_id, issued,
                 env_sched_list, curenv, count, point>>

-----------------------------------------------------------------------------
(* user/wait.c: the test reads id, then status; syscall_yield when both hold. *)
WaitCall(envid) ==
  /\ Calls("wait") /\ <<curenv, envid[2]>> \in Waits
  /\ upc' = [upc EXCEPT ![curenv] = "wait"]
  /\ who' = [who EXCEPT ![curenv] = envid]
  /\ UNCHANGED <<envVars, ipcVars, schedVars, val, from>>

(* Mutant: only the status is tested. *)
WaitAnyId(e) ==
  /\ k = "user" /\ curenv = e /\ upc[e] = "wait"
  /\ upc' = [upc EXCEPT ![e] = "wait2"]
  /\ UNCHANGED <<envVars, ipcVars, schedVars, who, val, from>>

WaitId(e) ==
  /\ k = "user" /\ curenv = e /\ upc[e] = "wait"
  /\ IF id[who[e][2]] = who[e]
       THEN upc' = [upc EXCEPT ![e] = "wait2"] /\ UNCHANGED <<who, val, from>>
       ELSE Return(e)
  /\ UNCHANGED <<envVars, ipcVars, schedVars>>

WaitStatus(e) ==
  /\ k = "user" /\ curenv = e /\ upc[e] = "wait2"
  /\ IF status[who[e][2]] # "FREE"
       THEN /\ EnterSched
            /\ upc' = [upc EXCEPT ![e] = "wait"]
            /\ UNCHANGED <<who, val, from>>
       ELSE Return(e) /\ UNCHANGED <<k, next_env>>
  /\ UNCHANGED <<envVars, ipcVars, env_sched_list, curenv, count, point>>

-----------------------------------------------------------------------------
(* panic() is an endless loop, and so is walking a corrupt list. *)
Halted == k \in {"panic", "corrupt"} /\ UNCHANGED vars

(* The envids a program can have come by. *)
Known == issued \union {SELF}

Next ==
  \/ Halted
  \/ SchedTurn
  \/ SchedRun
  \/ Yield
  \/ SysEnvAlloc
  \/ \E envid \in Known : SysEnvDestroy(envid)
  \/ \E envid \in Known, st \in Status : SysSetEnvStatus(envid, st)
  \/ SysIpcRecv
  \/ RecvFrom
  \/ RecvValue
  \/ \E envid \in Known, v \in Value, mapped \in BOOLEAN : IpcSend(envid, v, mapped)
  \/ \E envid \in Known : WaitCall(envid)
  \/ \E e \in Env : WaitId(e) \/ WaitStatus(e)

Spec == Init /\ [][Next]_vars

(***************************************************************************)
(* The CPU executes the kernel, the timer is re-armed by every env_run     *)
(* (count_down), and an environment that is run again and again has time   *)
(* for the next instructions of wait() in one of its quanta.               *)
(***************************************************************************)
Fairness ==
  /\ WF_vars(SchedTurn \/ SchedRun)
  /\ WF_vars(Yield)
  /\ \A e \in Env : SF_vars(WaitId(e)) /\ SF_vars(WaitStatus(e))

FairSpec == Spec /\ Fairness

-----------------------------------------------------------------------------
(* Properties *)

(***************************************************************************)
(* The environment sched_yield or the CPU holds, off every list.           *)
(***************************************************************************)
Held == IF k = "user" THEN curenv ELSE next_env

(***************************************************************************)
(* No environment is lost or doubled by the scheduler: each slot that is   *)
(* not FREE is either held or at exactly one position of one of the two    *)
(* lists.  This is the contract the LIST_ macros of queue.h need from      *)
(* sched.c:15 and syscall_all.c:168, and it holds for arbitrary callers as *)
(* long as no slot still on a list is allocated again.                     *)
(***************************************************************************)
OnceListed ==
  /\ \A l \in {0, 1} : IsInjective(env_sched_list[l])
  /\ Range(env_sched_list[0]) \cap Range(env_sched_list[1]) = {}

HeldNotListed == ~ Listed(Held)

LiveKept == \A e \in Env : status[e] # "FREE" => Listed(e) \/ e = Held

SchedPartition ==
  k \in {"user", "sched"} => OnceListed /\ HeldNotListed /\ LiveKept

(***************************************************************************)
(* The free list holds the FREE slots, each once (env_alloc, env_free).    *)
(***************************************************************************)
FreeListExact ==
  /\ IsInjective(env_free_list)
  /\ Range(env_free_list) = {e \in Env : status[e] = "FREE"}

(***************************************************************************)
(* As long as environments only destroy themselves (the library's exit),   *)
(* env_alloc never hands out a slot that is still on a scheduling list.    *)
(***************************************************************************)
NeverCorrupt == Lib => k # "corrupt"

(***************************************************************************)
(* A child does not run before its creator has finished building it and    *)
(* calls set_env_status: nothing else wakes a fresh slot, in particular no *)
(* sender that finds the ipc_recving of the slot's previous owner set.     *)
(***************************************************************************)
NoPrematureStart == Lib /\ k = "user" => upc[curenv] # "new"

(***************************************************************************)
(* What ipc_recv reads is the one message sys_ipc_can_send accepted since  *)
(* the receiver called sys_ipc_recv: no message is overwritten before it   *)
(* is read, split by preemption between the two reads, invented, or        *)
(* accepted by an environment that is not receiving.                       *)
(***************************************************************************)
MsgIntact ==
  Lib => \A e \in Env :
    CASE upc[e] = "recv" /\ status[e] # "RUNNABLE" -> inbox[e] = <<>>
      [] upc[e] = "recv" /\ status[e] = "RUNNABLE" -> inbox[e] = <<ipc[e]>>
      [] upc[e] = "from" -> inbox[e] = <<ipc[e]>> /\ from[e] = ipc[e].from
      [] OTHER -> inbox[e] = <<>>

(***************************************************************************)
(* Starvation freedom of sched_yield: a RUNNABLE environment is run.  It   *)
(* needs environments to be created only finitely often (MaxId): a chain   *)
(* of children inserted into the list being used up keeps the other list   *)
(* waiting.                                                                *)
(***************************************************************************)
RunnableRuns ==
  \A e \in Env : status[e] = "RUNNABLE" ~> k = "user" /\ curenv = e

(***************************************************************************)
(* wait(envid) returns after that environment has exited, even when its    *)
(* slot is taken by another one between the two reads of the test.         *)
(***************************************************************************)
Exited(i) == id[i[2]] # i \/ status[i[2]] = "FREE"

WaitReturns ==
  \A e \in Env :
    upc[e] \in {"wait", "wait2"} /\ Exited(who[e]) ~> upc[e] = "run"

(***************************************************************************)
(* The panic of sched_yield is the end of the last environment: no one,    *)
(* runnable, waiting for a message or still being built, is left when both *)
(* lists are found empty, whichever of them was being used up.             *)
(***************************************************************************)
PanicOnlyWhenGone ==
  k = "panic" => \A e \in Env : status[e] = "FREE"

(***************************************************************************)
(* sched.c:19 panics with "No Env is RUNNABLE": when that is so, the       *)
(* scheduler says so.                                                      *)
(***************************************************************************)
IdlePanics ==
  k = "sched" /\ (\A e \in Env : status[e] # "RUNNABLE") ~> k = "panic"
=============================================================================
