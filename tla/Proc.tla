-------------------------------- MODULE Proc --------------------------------
(***************************************************************************)
(* The process table and the scheduler, sys/kern/proc.c, with the context  *)
(* switch of sys/arch/x86_64/swtch.asm and the timer interrupt of trap.c.  *)
(*                                                                         *)
(* schedule runs inside an interrupt gate and is one step.  proc_create    *)
(* and proc_destroy run with interrupts enabled in the process that calls  *)
(* them, so a timer tick may fall between any two of their steps; a call   *)
(* goes on only while the CPU executes its caller.                         *)
(*                                                                         *)
(* A stack is named, not addressed: an rsp is the stack it points into.    *)
(* Threads of control are numbered in the order of their creation (a pid   *)
(* may be given out twice): mem[s] is the thread whose registers were last *)
(* pushed on stack s, and cpu is what really executes, the stack in rsp    *)
(* and the thread the registers belong to.  NULL names the stack of a      *)
(* process whose kmalloc failed: it starts at address 0.                   *)
(***************************************************************************)
EXTENDS Integers, FiniteSets

CONSTANTS MAX_PROC,     \* slots of proc_table
          Stacks,       \* the blocks kmalloc (STACK_SIZE) can return
          KernelStack,  \* the boot stack, on which the idle process runs
          NULL,
          MaxDestroys   \* bound: calls of proc_destroy

ASSUME ProcAssumption ==
  /\ MAX_PROC \in Nat \ {0}
  /\ KernelStack \notin Stacks /\ NULL \notin Stacks /\ KernelStack # NULL
  /\ MaxDestroys \in Nat

VARIABLES phase, proc_table, current_proc, proc_count,
          allocated,    \* the stacks that are out of the heap
          mem, cpu,
          call,         \* the call of proc_create or proc_destroy under way
          created,      \* the last thread made by proc_create
          destroys      \* how many calls of proc_destroy there were

vars == <<phase, proc_table, current_proc, proc_count, allocated, mem, cpu,
          call, created, destroys>>

Slots == 0 .. (MAX_PROC - 1)
Places == Stacks \cup {KernelStack, NULL}
Threads == 0 .. (MAX_PROC + MaxDestroys)

NoCall == [op |-> "none", by |-> 0, slot |-> 0, i |-> 0]

-----------------------------------------------------------------------------
(* proc_init, called before interrupts are enabled                         *)

Cleared == [pid |-> 0, state |-> "READY", stack |-> NULL, rsp |-> NULL]

proc_init ==
  /\ phase = "boot"
  /\ phase' = "run"
  /\ proc_table' = [proc_table EXCEPT ![0].state = "RUNNING"]
  /\ proc_count' = 1
  /\ current_proc' = 0
  /\ UNCHANGED <<allocated, mem, cpu, call, created, destroys>>

-----------------------------------------------------------------------------
(* schedule                                                                *)

Index == IF current_proc < proc_count THEN current_proc ELSE -1

(* Mutant: the search starts at the front of the table. *)
CandidateMutant(d) == d % proc_count

(* The d-th slot the search looks at. *)
Candidate(d) == (Index + d) % proc_count

Stops(d) == \/ proc_table[Candidate(d)].state = "READY"
            \/ Candidate(d) = Index

(* proc_switch_x64: push the registers, exchange the stacks, pop. *)
SavedMem == [mem EXCEPT ![cpu.stack] = cpu.thread]

(* Mutant: current_proc is not moved on. *)
SwitchMutant(next) ==
  /\ proc_table' = [i \in Slots |->
       IF i = next THEN [proc_table[i] EXCEPT !.state = "RUNNING"]
       ELSE IF i = current_proc
            THEN [proc_table[i] EXCEPT !.state = "READY", !.rsp = cpu.stack]
       ELSE proc_table[i]]
  /\ current_proc' = current_proc
  /\ mem' = SavedMem
  /\ cpu' = [stack |-> proc_table[next].rsp, thread |-> SavedMem[proc_table[next].rsp]]

Switch(next) ==
  /\ proc_table' = [i \in Slots |->
       IF i = next THEN [proc_table[i] EXCEPT !.state = "RUNNING"]
       ELSE IF i = current_proc
            THEN [proc_table[i] EXCEPT !.state = "READY", !.rsp = cpu.stack]
       ELSE proc_table[i]]
  /\ current_proc' = next
  /\ mem' = SavedMem
  /\ cpu' = [stack |-> proc_table[next].rsp, thread |-> SavedMem[proc_table[next].rsp]]

(* An empty table is a division by zero, which isr_handler_c answers by    *)
(* halting; a search that neither meets a READY slot nor comes back to the *)
(* current one never ends.                                                 *)
schedule ==
  \/ /\ proc_count = 0
     /\ phase' = "halted"
     /\ UNCHANGED <<proc_table, current_proc, mem, cpu>>
  \/ /\ proc_count > 0
     /\ \A d \in 1 .. proc_count : ~Stops(d)
     /\ phase' = "hung"
     /\ UNCHANGED <<proc_table, current_proc, mem, cpu>>
  \/ \E d \in 1 .. proc_count :
       /\ Stops(d)
       /\ \A e \in 1 .. (d - 1) : ~Stops(e)
       /\ IF Candidate(d) = Index
          THEN UNCHANGED <<proc_table, current_proc, mem, cpu>>
          ELSE Switch(Candidate(d))
       /\ UNCHANGED phase

(* irq_handler_c, case 32. *)
Timer == /\ phase = "run"
         /\ schedule
         /\ UNCHANGED <<proc_count, allocated, call, created, destroys>>

-----------------------------------------------------------------------------
(* proc_create                                                             *)

Calling(op) == phase = "run" /\ call.op = op /\ (op # "none" => cpu.thread = call.by)

TableFull == proc_count >= MAX_PROC

(* A slot is taken from the end of the table, out of the scheduler's sight. *)
CreateClaim ==
  /\ Calling("none")
  /\ \/ TableFull /\ UNCHANGED vars
     \/ /\ ~TableFull
        /\ call' = [op |-> "fill", by |-> cpu.thread, slot |-> proc_count,
                      i |-> proc_count]
        /\ proc_table' = [proc_table EXCEPT ![proc_count].pid = proc_count,
                                            ![proc_count].state = "READY"]
        /\ created' = created + 1
        /\ UNCHANGED <<phase, current_proc, proc_count, allocated, mem, cpu,
                       destroys>>

(* Mutant: the entry point is not pushed. *)
NewMemMutant(s) == mem

(* The first frame: the entry point and fifteen zeros. *)
NewMem(s) == [mem EXCEPT ![s] = created]

(* kmalloc's answer is not looked at: without a block the frame is written *)
(* to page 0, or, where the memory map has no page 0 to identity-map, the  *)
(* write faults and the machine halts.                                     *)
CreateFill ==
  /\ Calling("fill")
  /\ \/ \E s \in (Stacks \ allocated) \cup {NULL} :
          /\ allocated' = allocated \cup ({s} \ {NULL})
          /\ proc_table' = [proc_table EXCEPT ![call.slot].stack = s,
                                              ![call.slot].rsp = s]
          /\ mem' = NewMem(s)
          /\ call' = [call EXCEPT !.op = "publish"]
          /\ UNCHANGED phase
     \/ /\ phase' = "halted"
        /\ UNCHANGED <<proc_table, allocated, mem, call>>
  /\ UNCHANGED <<current_proc, proc_count, cpu, created, destroys>>

CreatePublish ==
  /\ Calling("publish")
  /\ proc_count' = proc_count + 1
  /\ call' = NoCall
  /\ UNCHANGED <<phase, proc_table, current_proc, allocated, mem, cpu,
                 created, destroys>>

-----------------------------------------------------------------------------
(* proc_destroy                                                            *)

(* The stack goes back to the heap.  (A NULL process only prints; no state *)
(* is ever IDLE, so the other early return is never taken.)                *)
DestroyFree(p) ==
  /\ Calling("none")
  /\ destroys < MaxDestroys
  /\ p < proc_count
  /\ proc_table[p].state # "IDLE"
  /\ destroys' = destroys + 1
  /\ allocated' = allocated \ {proc_table[p].stack}
  /\ proc_table' = [proc_table EXCEPT ![p].stack = NULL]
  /\ call' = [op |-> "dead", by |-> cpu.thread, slot |-> p, i |-> p]
  /\ UNCHANGED <<phase, current_proc, proc_count, mem, cpu, created>>

DestroyDead ==
  /\ Calling("dead")
  /\ proc_table' = [proc_table EXCEPT ![call.slot].state = "DEAD"]
  /\ call' = [call EXCEPT !.op = "shift"]
  /\ UNCHANGED <<phase, current_proc, proc_count, allocated, mem, cpu,
                 created, destroys>>

(* Mutant: the last slot is not moved down. *)
LastMutant == proc_count - 2

(* The slot the shift ends at. *)
Last == proc_count - 1

(* One turn of the loop that closes the gap. *)
DestroyShift ==
  /\ Calling("shift")
  /\ call.i < Last
  /\ proc_table' = [proc_table EXCEPT ![call.i] = proc_table[call.i + 1]]
  /\ call' = [call EXCEPT !.i = call.i + 1]
  /\ UNCHANGED <<phase, current_proc, proc_count, allocated, mem, cpu,
                 created, destroys>>

DestroyCount ==
  /\ Calling("shift")
  /\ call.i >= Last
  /\ proc_count' = proc_count - 1
  /\ call' = [call EXCEPT !.op = "fix"]
  /\ UNCHANGED <<phase, proc_table, current_proc, allocated, mem, cpu,
                 created, destroys>>

DestroyFix ==
  /\ Calling("fix")
  /\ current_proc' = IF current_proc = call.slot THEN 0 ELSE current_proc
  /\ call' = NoCall
  /\ UNCHANGED <<phase, proc_table, proc_count, allocated, mem, cpu,
                 created, destroys>>

-----------------------------------------------------------------------------
(* An exception halts the machine, and a search without end keeps          *)
(* interrupts off for good.                                                *)
Stopped == phase \in {"halted", "hung"} /\ UNCHANGED vars

Init == /\ phase = "boot"
        /\ proc_table = [i \in Slots |-> Cleared]
        /\ current_proc = 0
        /\ proc_count = 0
        /\ allocated = {}
        /\ mem = [s \in Places |-> 0]
        /\ cpu = [stack |-> KernelStack, thread |-> 0]
        /\ call = NoCall
        /\ created = 0
        /\ destroys = 0

Next == \/ proc_init
        \/ Timer
        \/ CreateClaim \/ CreateFill \/ CreatePublish
        \/ \E p \in Slots : DestroyFree(p)
        \/ DestroyDead \/ DestroyShift \/ DestroyCount \/ DestroyFix
        \/ Stopped

Spec == Init /\ [][Next]_vars

(* The interval timer keeps ticking, and no process turns interrupts off   *)
(* for good.                                                               *)
FairSpec == Spec /\ WF_vars(Timer)

-----------------------------------------------------------------------------
(* Properties.                                                             *)

Slot == [pid : Slots, state : {"READY", "RUNNING", "IDLE", "DEAD"},
         stack : Stacks \cup {NULL}, rsp : Places]

(* The globals of proc.c keep their ranges: proc_create and proc_destroy,  *)
(* preempted anywhere, never index proc_table outside its MAX_PROC slots.  *)
TypeOK ==
  /\ phase \in {"boot", "run", "halted", "hung"}
  /\ proc_table \in [Slots -> Slot]
  /\ current_proc \in Slots /\ proc_count \in 0 .. MAX_PROC
  /\ allocated \subseteq Stacks
  /\ mem \in [Places -> Threads]
  /\ cpu \in [stack : Places, thread : Threads]
  /\ call \in [op : {"none", "fill", "publish", "dead", "shift", "fix"},
               by : Threads, slot : Slots, i : Slots]
  /\ created \in Threads /\ destroys \in 0 .. MaxDestroys

(* The slots that stand for a process: the table, with the slot being      *)
(* filled and without the one a shift is about to overwrite.               *)
Owners == (0 .. (proc_count - 1) \cup IF call.op = "publish" THEN {call.slot} ELSE {})
            \ IF call.op \in {"dead", "shift"} THEN {call.i} ELSE {}

(* Whatever is created, destroyed and preempted: no block of the heap is   *)
(* the stack of two processes, no stack in the table has been freed, and   *)
(* no allocated stack has fallen out of the table.  Processes for which    *)
(* kmalloc failed all have the stack NULL, and nothing is said of them.    *)
StackOwned ==
  /\ \A i, j \in Owners : i # j /\ proc_table[i].stack # NULL
                            => proc_table[i].stack # proc_table[j].stack
  /\ allocated = {proc_table[i].stack : i \in Owners} \ {NULL}

(* Until a process is destroyed, or created without a stack ... *)
Regular == /\ phase = "run" /\ destroys = 0
           /\ \A i \in 1 .. (proc_count - 1) : proc_table[i].stack # NULL

(* ... one process is RUNNING, it is current_proc, and it is the one whose *)
(* registers are in the CPU, on its own stack; ...                         *)
OwnStack(i) == IF i = 0 THEN KernelStack ELSE proc_table[i].stack

RunsCurrent ==
  Regular => /\ \A i \in 0 .. (proc_count - 1) :
                  proc_table[i].state = IF i = current_proc THEN "RUNNING" ELSE "READY"
             /\ current_proc < proc_count
             /\ cpu = [stack |-> OwnStack(current_proc), thread |-> current_proc]

(* ... every other process of the table, however far its creation was when *)
(* the tick came, is ready to go on where it was preempted; ...            *)
ResumesOwn ==
  Regular => \A i \in 0 .. (proc_count - 1) :
               i # current_proc => /\ proc_table[i].rsp = OwnStack(i)
                                   /\ mem[OwnStack(i)] = i

(* ... and every process gets the CPU again and again, while others are    *)
(* created.                                                                *)
EveryProcessRuns ==
  \A i \in Slots : []<>(i < proc_count => cpu.thread = i \/ ~Regular)

(* "If process is currently running, switch to the idle task"              *)
(* (proc.c:224-227): when the call returns, the CPU has left the stack     *)
(* that was freed.                                                         *)
LeavesFreedStack ==
  phase = "run" /\ call.op = "none" => cpu.stack \in allocated \cup {KernelStack, NULL}
=============================================================================
