----------------------------- MODULE ProcProofs -----------------------------
(***************************************************************************)
(* Proofs about the process table and the scheduler, for every size of the *)
(* table, every number of stacks and every number of calls of              *)
(* proc_destroy.                                                           *)
(***************************************************************************)
EXTENDS Proc, TLAPS

-----------------------------------------------------------------------------
(* The inductive invariant.                                                *)

(* Before proc_init nothing has happened. *)
BootInv ==
  phase = "boot" =>
    /\ proc_table = [j \in Slots |-> Cleared]
    /\ proc_count = 0 /\ allocated = {} /\ call = NoCall
    /\ cpu = [stack |-> KernelStack, thread |-> 0]
    /\ created = 0 /\ destroys = 0

(* Where the call under way has got to. *)
CallInv ==
  /\ call.op \in {"fill", "publish"} => call.slot = proc_count /\ proc_count < MAX_PROC
  /\ call.op \in {"dead", "shift"} => call.slot <= call.i /\ call.i < proc_count
  /\ call.op = "dead" => call.i = call.slot
  /\ call.op \in {"dead", "shift", "fix"} => destroys > 0

(* The table grows with every thread and shrinks with every destroy. *)
CountInv ==
  phase # "boot" =>
    created = proc_count - 1 + destroys
                + (IF call.op \in {"fill", "publish"} THEN 1 ELSE 0)
                - (IF call.op \in {"dead", "shift"} THEN 1 ELSE 0)

(* The slot being filled is READY, and once its frame is written it holds  *)
(* the new thread.                                                         *)
FrameInv ==
  /\ call.op \in {"fill", "publish"} /\ Regular =>
       proc_table[call.slot].state = "READY"
  /\ call.op = "publish" /\ Regular /\ proc_table[call.slot].stack # NULL =>
       /\ proc_table[call.slot].rsp = proc_table[call.slot].stack
       /\ mem[proc_table[call.slot].stack] = call.slot

(* The part that holds whatever is destroyed, and the part about regular   *)
(* behaviour.                                                              *)
TableInv == TypeOK /\ BootInv /\ CallInv /\ CountInv /\ StackOwned

RegularInv == FrameInv /\ RunsCurrent /\ ResumesOwn

-----------------------------------------------------------------------------
(* What the type invariant says of a slot and of a call, in the form the   *)
(* provers use.                                                            *)
LEMMA Typed ==
  ASSUME TypeOK
  PROVE  /\ MAX_PROC \in Nat /\ MAX_PROC > 0 /\ MaxDestroys \in Nat
         /\ proc_count \in Nat /\ proc_count <= MAX_PROC
         /\ current_proc \in Nat /\ current_proc < MAX_PROC
         /\ created \in Nat /\ destroys \in Nat /\ destroys <= MaxDestroys
         /\ call.slot \in Nat /\ call.slot < MAX_PROC
         /\ call.i \in Nat /\ call.i < MAX_PROC
         /\ cpu.stack \in Places /\ cpu.thread \in Threads
         /\ \A j \in Slots : proc_table[j] \in Slot
<1>1. call.slot \in Slots /\ call.i \in Slots
      /\ cpu.stack \in Places /\ cpu.thread \in Threads
  BY DEF TypeOK
<1>2. \A j \in Slots : proc_table[j] \in Slot
  BY DEF TypeOK
<1>3. /\ proc_count \in 0 .. MAX_PROC /\ current_proc \in Slots
      /\ created \in Threads /\ destroys \in 0 .. MaxDestroys
  BY DEF TypeOK
<1> QED BY <1>1, <1>2, <1>3, ProcAssumption DEF Slots, Threads

(* Writing a field of a slot. *)
LEMMA SlotFields ==
  ASSUME NEW r \in Slot
  PROVE  /\ r.stack \in Stacks \cup {NULL} /\ r.rsp \in Places
         /\ \A p \in Slots : [r EXCEPT !.pid = p] \in Slot
         /\ \A t \in {"READY", "RUNNING", "DEAD"} : [r EXCEPT !.state = t] \in Slot
         /\ \A t \in Stacks \cup {NULL} : [r EXCEPT !.stack = t] \in Slot
         /\ \A t \in Places : [r EXCEPT !.rsp = t] \in Slot
BY DEF Slot

LEMMA InitTable ==
  ASSUME Init
  PROVE  TableInv
<1>1. Cleared \in Slot
  BY ProcAssumption DEF Cleared, Slot, Slots, Places
<1>2. TypeOK
  BY <1>1, ProcAssumption DEF Init, TypeOK, Slots, Places, Threads, NoCall
<1>3. Owners = {}
  BY DEF Init, Owners, NoCall
<1>4. StackOwned
  BY <1>3 DEF Init, StackOwned
<1> QED BY <1>2, <1>4 DEF Init, TableInv, BootInv, CallInv, CountInv, NoCall

LEMMA InitRegular ==
  ASSUME Init
  PROVE  RegularInv
BY DEF Init, RegularInv, FrameInv, RunsCurrent, ResumesOwn, Regular, NoCall

-----------------------------------------------------------------------------
(* Stacks.                                                                 *)

(* A step that leaves the owners and their stacks alone. *)
LEMMA SameStacks ==
  ASSUME TypeOK, StackOwned, Owners' = Owners, allocated' = allocated,
         \A j \in Owners : proc_table'[j].stack = proc_table[j].stack
  PROVE  StackOwned'
<1>1. {proc_table'[j].stack : j \in Owners'} = {proc_table[j].stack : j \in Owners}
  BY Zenon
<1> QED BY <1>1 DEF StackOwned

(* Owners are slots. *)
LEMMA OwnersSlots ==
  ASSUME TypeOK, CallInv
  PROVE  Owners \subseteq Slots
BY Typed DEF Owners, CallInv, Slots

-----------------------------------------------------------------------------
(* TableInv, one lemma per operation.                                      *)

LEMMA TableProcInit ==
  ASSUME TableInv, proc_init
  PROVE  TableInv'
<1> USE DEF TableInv
<1>0. /\ MAX_PROC \in Nat /\ MAX_PROC > 0 /\ 0 \in Slots /\ 1 \in 0 .. MAX_PROC
  BY ProcAssumption DEF Slots
<1>1. /\ proc_table = [j \in Slots |-> Cleared]
      /\ proc_count = 0 /\ allocated = {} /\ call = NoCall
      /\ created = 0 /\ destroys = 0
  BY DEF proc_init, BootInv
<1>2. TypeOK'
  <2>1. proc_table' \in [Slots -> Slot]
    BY <1>0 DEF TypeOK, proc_init, Slot
  <2> QED BY <1>0, <2>1 DEF TypeOK, proc_init
<1>3. Owners' = {0} /\ proc_table'[0].stack = NULL /\ allocated' = {}
  BY <1>0, <1>1 DEF Owners, proc_init, NoCall, Cleared
<1>4. StackOwned'
  BY <1>3 DEF StackOwned
<1> QED BY <1>1, <1>2, <1>4 DEF proc_init, BootInv, CallInv, CountInv, NoCall

(* The slot schedule looks at is one of the table. *)
LEMMA CandidateSlot ==
  ASSUME TypeOK, NEW d \in 1 .. proc_count
  PROVE  Candidate(d) \in Slots /\ Candidate(d) < proc_count
<1>1. proc_count \in Nat /\ proc_count > 0 /\ proc_count <= MAX_PROC
      /\ MAX_PROC \in Nat
  BY Typed
<1>2. Index + d \in Nat
  BY Typed DEF Index
<1>3. \A x \in Nat : (x % proc_count) \in 0 .. (proc_count - 1)
  BY <1>1
<1> QED BY <1>1, <1>2, <1>3 DEF Candidate, Slots

LEMMA TableTimer ==
  ASSUME TableInv, Timer
  PROVE  TableInv'
<1> USE DEF TableInv
<1>1. CASE UNCHANGED <<proc_table, current_proc, mem, cpu>>
           /\ phase' \in {"run", "halted", "hung"}
  <2>1. TypeOK'
    BY <1>1 DEF TypeOK, Timer
  <2>2. StackOwned'
    BY <1>1, SameStacks DEF Timer, Owners
  <2> QED BY <1>1, <2>1, <2>2 DEF Timer, BootInv, CallInv, CountInv
<1>2. ASSUME NEW n \in Slots, Switch(n), phase' = phase
      PROVE  TableInv'
  <2>1. proc_table[n].rsp \in Places /\ SavedMem \in [Places -> Threads]
    BY Typed, SlotFields DEF TypeOK, SavedMem
  <2>2. ASSUME NEW j \in Slots
        PROVE  proc_table'[j] \in Slot /\ proc_table'[j].stack = proc_table[j].stack
    <3>1. proc_table[j] \in Slot /\ cpu.stack \in Places
      BY Typed
    <3>2. CASE j = n
      BY <1>2, <3>1, <3>2 DEF Switch, Slot
    <3>3. CASE j # n /\ j = current_proc
      BY <1>2, <3>1, <3>3 DEF Switch, Slot
    <3>4. CASE j # n /\ j # current_proc
      BY <1>2, <3>1, <3>4 DEF Switch
    <3> QED BY <3>2, <3>3, <3>4
  <2>3. proc_table' \in [Slots -> Slot]
    BY <1>2, <2>2 DEF Switch
  <2>4. TypeOK'
    BY <1>2, <2>1, <2>3 DEF TypeOK, Timer, Switch
  <2>5. StackOwned'
    BY <2>2, OwnersSlots, SameStacks DEF Timer, Owners
  <2> QED BY <1>2, <2>4, <2>5 DEF Timer, BootInv, CallInv, CountInv
<1> QED BY <1>1, <1>2, CandidateSlot DEF Timer, schedule

LEMMA TableClaim ==
  ASSUME TableInv, CreateClaim
  PROVE  TableInv'
<1> USE DEF TableInv
<1>1. CASE UNCHANGED vars
  BY <1>1 DEF vars, TypeOK, BootInv, CallInv, CountInv, StackOwned, Owners
<1>2. CASE ~UNCHANGED vars
  <2>1. /\ proc_count < MAX_PROC /\ call.op = "none" /\ phase = "run"
        /\ call' = [op |-> "fill", by |-> cpu.thread, slot |-> proc_count,
                    i |-> proc_count]
        /\ proc_table' = [proc_table EXCEPT ![proc_count].pid = proc_count,
                                            ![proc_count].state = "READY"]
        /\ created' = created + 1
        /\ UNCHANGED <<phase, current_proc, proc_count, allocated, mem, cpu, destroys>>
    BY <1>2, Typed DEF CreateClaim, Calling, TableFull
  <2>2. proc_count \in Slots
    BY <2>1, Typed DEF Slots
  <2>3. ASSUME NEW j \in Slots
        PROVE  proc_table'[j] \in Slot /\ proc_table'[j].stack = proc_table[j].stack
    <3>1. proc_table[j] \in Slot
      BY Typed
    <3>2. CASE j = proc_count
      BY <2>1, <2>2, <3>1, <3>2 DEF Slot, TypeOK
    <3>3. CASE j # proc_count
      BY <2>1, <3>1, <3>3 DEF TypeOK
    <3> QED BY <3>2, <3>3
  <2>4. proc_table' \in [Slots -> Slot]
    BY <2>1, <2>3 DEF TypeOK
  <2>5. created' = proc_count + destroys
    BY <2>1, Typed DEF CountInv
  <2>6. created' \in Threads
    BY <2>5, Typed DEF Threads
  <2>7. call' \in [op : {"none", "fill", "publish", "dead", "shift", "fix"},
                   by : Threads, slot : Slots, i : Slots]
    BY <2>1, <2>2, Typed
  <2>8. TypeOK'
    BY <2>1, <2>4, <2>6, <2>7 DEF TypeOK
  <2>9. Owners' = Owners
    BY <2>1 DEF Owners
  <2>10. StackOwned'
    BY <2>1, <2>3, <2>9, OwnersSlots, SameStacks
  <2> QED BY <2>1, <2>5, <2>8, <2>10, Typed DEF BootInv, CallInv, CountInv
<1> QED BY <1>1, <1>2

LEMMA TableFill ==
  ASSUME TableInv, CreateFill
  PROVE  TableInv'
<1> USE DEF TableInv
<1>0. /\ phase = "run" /\ call.op = "fill" /\ call.slot = proc_count
      /\ call.slot \in Slots
  BY Typed DEF CreateFill, Calling, CallInv, Slots
<1>1. ASSUME NEW s \in (Stacks \ allocated) \cup {NULL},
             allocated' = allocated \cup ({s} \ {NULL}),
             proc_table' = [proc_table EXCEPT ![call.slot].stack = s,
                                              ![call.slot].rsp = s],
             mem' = NewMem(s),
             call' = [call EXCEPT !.op = "publish"],
             UNCHANGED <<phase, current_proc, proc_count, cpu, created, destroys>>
      PROVE  TableInv'
  <2>1. /\ call'.op = "publish" /\ call'.slot = call.slot /\ call'.i = call.i
        /\ call' \in [op : {"none", "fill", "publish", "dead", "shift", "fix"},
                      by : Threads, slot : Slots, i : Slots]
    BY <1>1 DEF TypeOK
  <2>2. s \in Places /\ s \in Stacks \cup {NULL}
    BY DEF Places
  <2>3. ASSUME NEW j \in Slots
        PROVE  /\ proc_table'[j] \in Slot
               /\ proc_table'[j].stack
                    = IF j = call.slot THEN s ELSE proc_table[j].stack
    <3>1. proc_table[j] \in Slot
      BY Typed
    <3>2. CASE j = call.slot
      BY <1>1, <2>2, <3>1, <3>2 DEF Slot, TypeOK
    <3>3. CASE j # call.slot
      BY <1>1, <3>1, <3>3 DEF TypeOK
    <3> QED BY <3>2, <3>3
  <2>4. proc_table' \in [Slots -> Slot]
    BY <1>1, <2>3 DEF TypeOK
  <2>5. mem' \in [Places -> Threads]
    BY <1>1, <2>2 DEF NewMem, TypeOK
  <2>6. TypeOK'
    BY <1>1, <2>1, <2>4, <2>5 DEF TypeOK
  <2>7. /\ Owners = 0 .. (proc_count - 1) /\ Owners' = Owners \cup {call.slot}
        /\ call.slot \notin Owners /\ Owners \subseteq Slots
    BY <1>0, <1>1, <2>1, OwnersSlots, Typed DEF Owners
  <2>8. StackOwned'
    <3>1. ASSUME NEW j \in Owners
          PROVE  /\ proc_table'[j].stack = proc_table[j].stack
                 /\ proc_table[j].stack \in allocated \cup {NULL}
      BY <2>3, <2>7 DEF StackOwned
    <3>2. proc_table'[call.slot].stack = s
      BY <1>0, <2>3
    <3>3. ASSUME NEW j \in Owners', NEW k \in Owners', j # k,
                 proc_table'[j].stack # NULL
          PROVE  proc_table'[j].stack # proc_table'[k].stack
      BY <2>7, <3>1, <3>2, <3>3 DEF StackOwned
    <3>4. {proc_table'[j].stack : j \in Owners'}
            = {proc_table[j].stack : j \in Owners} \cup {s}
      BY <2>7, <3>1, <3>2
    <3>5. allocated' = {proc_table'[j].stack : j \in Owners'} \ {NULL}
      BY <1>1, <3>4 DEF StackOwned
    <3> QED BY <3>3, <3>5 DEF StackOwned
  <2> QED BY <1>0, <1>1, <2>1, <2>6, <2>8 DEF BootInv, CallInv, CountInv
<1>2. CASE /\ phase' = "halted"
           /\ UNCHANGED <<proc_table, allocated, mem, call, current_proc,
                          proc_count, cpu, created, destroys>>
  BY <1>0, <1>2 DEF TypeOK, BootInv, CallInv, CountInv, StackOwned, Owners
<1> QED BY <1>1, <1>2 DEF CreateFill

LEMMA TablePublish ==
  ASSUME TableInv, CreatePublish
  PROVE  TableInv'
<1> USE DEF TableInv
<1>0. /\ phase = "run" /\ call.op = "publish" /\ call.slot = proc_count
      /\ proc_count < MAX_PROC /\ proc_count' = proc_count + 1 /\ call' = NoCall
      /\ UNCHANGED <<phase, proc_table, current_proc, allocated, mem, cpu,
                     created, destroys>>
  BY DEF CreatePublish, Calling, CallInv
<1>1. TypeOK'
  <2>1. proc_count' \in 0 .. MAX_PROC
    BY <1>0, Typed
  <2>2. call' \in [op : {"none", "fill", "publish", "dead", "shift", "fix"},
                   by : Threads, slot : Slots, i : Slots]
    BY <1>0, ProcAssumption DEF NoCall, Threads, Slots
  <2> QED BY <1>0, <2>1, <2>2 DEF TypeOK
<1>2. Owners' = Owners
  BY <1>0, Typed DEF Owners, NoCall
<1>3. StackOwned'
  BY <1>0, <1>2, SameStacks
<1> QED BY <1>0, <1>1, <1>3, Typed DEF BootInv, CallInv, CountInv, NoCall

LEMMA TableFree ==
  ASSUME TableInv, NEW p \in Slots, DestroyFree(p)
  PROVE  TableInv'
<1> USE DEF TableInv
<1>0. /\ phase = "run" /\ call.op = "none" /\ destroys < MaxDestroys
      /\ p < proc_count /\ destroys' = destroys + 1
      /\ allocated' = allocated \ {proc_table[p].stack}
      /\ proc_table' = [proc_table EXCEPT ![p].stack = NULL]
      /\ call' = [op |-> "dead", by |-> cpu.thread, slot |-> p, i |-> p]
      /\ UNCHANGED <<phase, current_proc, proc_count, mem, cpu, created>>
  BY DEF DestroyFree, Calling
<1>1. ASSUME NEW j \in Slots
      PROVE  /\ proc_table'[j] \in Slot
             /\ j # p => proc_table'[j].stack = proc_table[j].stack
  <2>1. proc_table[j] \in Slot
    BY Typed
  <2>2. CASE j = p
    BY <1>0, <2>1, <2>2 DEF Slot, TypeOK
  <2>3. CASE j # p
    BY <1>0, <2>1, <2>3 DEF TypeOK
  <2> QED BY <2>2, <2>3
<1>2. TypeOK'
  <2>1. proc_table' \in [Slots -> Slot]
    BY <1>0, <1>1 DEF TypeOK
  <2>2. call' \in [op : {"none", "fill", "publish", "dead", "shift", "fix"},
                   by : Threads, slot : Slots, i : Slots]
    BY <1>0, Typed
  <2>3. destroys' \in 0 .. MaxDestroys
    BY <1>0, Typed
  <2> QED BY <1>0, <2>1, <2>2, <2>3 DEF TypeOK
<1>3. /\ Owners' = Owners \ {p} /\ p \in Owners /\ Owners \subseteq Slots
  BY <1>0, OwnersSlots, Typed DEF Owners, Slots
<1>4. StackOwned'
  <2>1. \A j \in Owners' : proc_table'[j].stack = proc_table[j].stack
    BY <1>1, <1>3
  <2>2. {proc_table'[j].stack : j \in Owners'}
          = {proc_table[j].stack : j \in Owners \ {p}}
    BY <1>3, <2>1
  <2>3. \A j \in Owners \ {p} :
          proc_table[j].stack # NULL => proc_table[j].stack # proc_table[p].stack
    BY <1>3 DEF StackOwned
  <2>4. allocated' = {proc_table'[j].stack : j \in Owners'} \ {NULL}
    BY <1>0, <1>3, <2>2, <2>3 DEF StackOwned
  <2> QED BY <1>3, <2>1, <2>4 DEF StackOwned
<1>5. created' = proc_count' - 1 + destroys' - 1
  BY <1>0, Typed DEF CountInv
<1>6. call'.op = "dead" /\ call'.slot = p /\ call'.i = p
  BY <1>0
<1>7. CallInv'
  BY <1>0, <1>6, Typed DEF CallInv, Slots
<1>8. CountInv'
  BY <1>0, <1>5, <1>6, Typed DEF CountInv
<1> QED BY <1>0, <1>2, <1>4, <1>7, <1>8 DEF BootInv

LEMMA TableDead ==
  ASSUME TableInv, DestroyDead
  PROVE  TableInv'
<1> USE DEF TableInv
<1>0. /\ phase = "run" /\ call.op = "dead" /\ call.slot \in Slots
      /\ proc_table' = [proc_table EXCEPT ![call.slot].state = "DEAD"]
      /\ call' = [call EXCEPT !.op = "shift"]
      /\ UNCHANGED <<phase, current_proc, proc_count, allocated, mem, cpu,
                     created, destroys>>
  BY DEF DestroyDead, Calling, TypeOK
<1>1. ASSUME NEW j \in Slots
      PROVE  /\ proc_table'[j] \in Slot
             /\ proc_table'[j].stack = proc_table[j].stack
  <2>1. proc_table[j] \in Slot
    BY Typed
  <2>2. CASE j = call.slot
    BY <1>0, <2>1, <2>2 DEF Slot, TypeOK
  <2>3. CASE j # call.slot
    BY <1>0, <2>1, <2>3 DEF TypeOK
  <2> QED BY <2>2, <2>3
<1>2. /\ call'.op = "shift" /\ call'.slot = call.slot /\ call'.i = call.i
      /\ call' \in [op : {"none", "fill", "publish", "dead", "shift", "fix"},
                    by : Threads, slot : Slots, i : Slots]
  BY <1>0 DEF TypeOK
<1>3. TypeOK'
  <2>1. proc_table' \in [Slots -> Slot]
    BY <1>0, <1>1 DEF TypeOK
  <2> QED BY <1>0, <1>2, <2>1 DEF TypeOK
<1>4. Owners' = Owners
  BY <1>0, <1>2 DEF Owners
<1>5. StackOwned'
  BY <1>0, <1>1, <1>4, OwnersSlots, SameStacks
<1> QED BY <1>0, <1>2, <1>3, <1>5 DEF BootInv, CallInv, CountInv

(* The gap moves up by one slot; the stacks stay with their owners. *)
LEMMA TableShift ==
  ASSUME TableInv, DestroyShift
  PROVE  TableInv'
<1> USE DEF TableInv
<1> DEFINE g == call.i
<1>0. /\ phase = "run" /\ call.op = "shift" /\ g < proc_count - 1
      /\ proc_table' = [proc_table EXCEPT ![g] = proc_table[g + 1]]
      /\ call' = [call EXCEPT !.i = g + 1]
      /\ UNCHANGED <<phase, current_proc, proc_count, allocated, mem, cpu,
                     created, destroys>>
  BY DEF DestroyShift, Calling, Last
<1>1. /\ g \in Nat /\ g \in Slots /\ g + 1 \in Slots /\ g + 1 < proc_count
      /\ call.slot <= g /\ call.slot <= g + 1
  BY <1>0, Typed DEF CallInv, Slots
<1>2. /\ call'.op = "shift" /\ call'.slot = call.slot /\ call'.i = g + 1
      /\ call' \in [op : {"none", "fill", "publish", "dead", "shift", "fix"},
                    by : Threads, slot : Slots, i : Slots]
  BY <1>0, <1>1 DEF TypeOK
<1> HIDE DEF g
<1>3. ASSUME NEW j \in Slots
      PROVE  /\ proc_table'[j] \in Slot
             /\ j # g => proc_table'[j] = proc_table[j]
             /\ j = g => proc_table'[j] = proc_table[g + 1]
  BY <1>0, <1>1, Typed DEF TypeOK
<1>4. TypeOK'
  <2>1. proc_table' \in [Slots -> Slot]
    BY <1>0, <1>3 DEF TypeOK
  <2> QED BY <1>0, <1>2, <2>1 DEF TypeOK
<1>5. /\ Owners = (0 .. (proc_count - 1)) \ {g}
      /\ Owners' = (0 .. (proc_count - 1)) \ {g + 1}
      /\ Owners \subseteq Slots
  BY <1>0, <1>2, OwnersSlots DEF Owners, g
<1>6. /\ g + 1 \in Owners /\ g \notin Owners /\ g # g + 1
      /\ Owners' = (Owners \ {g + 1}) \cup {g}
  BY <1>1, <1>5, Typed
<1>7. StackOwned'
  <2>1. proc_table'[g].stack = proc_table[g + 1].stack
    BY <1>1, <1>3
  <2>2. \A j \in Owners \ {g + 1} : proc_table'[j].stack = proc_table[j].stack
    BY <1>3, <1>5, <1>6
  <2>3. {proc_table'[j].stack : j \in Owners'} = {proc_table[j].stack : j \in Owners}
    BY <1>6, <2>1, <2>2
  <2>4. ASSUME NEW j \in Owners', NEW k \in Owners', j # k,
               proc_table'[j].stack # NULL
        PROVE  proc_table'[j].stack # proc_table'[k].stack
    BY <1>6, <2>1, <2>2, <2>4 DEF StackOwned
  <2> QED BY <1>0, <2>3, <2>4 DEF StackOwned
<1> QED BY <1>0, <1>1, <1>2, <1>4, <1>7 DEF BootInv, CallInv, CountInv

LEMMA TableCount ==
  ASSUME TableInv, DestroyCount
  PROVE  TableInv'
<1> USE DEF TableInv
<1>0. /\ phase = "run" /\ call.op = "shift" /\ call.i >= proc_count - 1
      /\ call.i < proc_count
      /\ proc_count' = proc_count - 1
      /\ call' = [call EXCEPT !.op = "fix"]
      /\ UNCHANGED <<phase, proc_table, current_proc, allocated, mem, cpu,
                     created, destroys>>
  BY DEF DestroyCount, Calling, Last, CallInv
<1>1. /\ call'.op = "fix"
      /\ call' \in [op : {"none", "fill", "publish", "dead", "shift", "fix"},
                    by : Threads, slot : Slots, i : Slots]
  BY <1>0 DEF TypeOK
<1>2. TypeOK'
  <2>1. proc_count' \in 0 .. MAX_PROC
    BY <1>0, Typed
  <2> QED BY <1>0, <1>1, <2>1 DEF TypeOK
<1>3. Owners' = Owners
  BY <1>0, <1>1, Typed DEF Owners
<1>4. StackOwned'
  BY <1>0, <1>3, SameStacks
<1> QED BY <1>0, <1>1, <1>2, <1>4, Typed DEF BootInv, CallInv, CountInv

LEMMA TableFix ==
  ASSUME TableInv, DestroyFix
  PROVE  TableInv'
<1> USE DEF TableInv
<1>0. /\ phase = "run" /\ call.op = "fix" /\ call' = NoCall
      /\ current_proc' \in {0, current_proc}
      /\ UNCHANGED <<phase, proc_table, proc_count, allocated, mem, cpu,
                     created, destroys>>
  BY DEF DestroyFix, Calling
<1>1. TypeOK'
  <2>1. call' \in [op : {"none", "fill", "publish", "dead", "shift", "fix"},
                   by : Threads, slot : Slots, i : Slots]
    BY <1>0, ProcAssumption DEF NoCall, Threads, Slots
  <2>2. current_proc' \in Slots
    BY <1>0, ProcAssumption DEF TypeOK, Slots
  <2> QED BY <1>0, <2>1, <2>2 DEF TypeOK
<1>2. Owners' = Owners
  BY <1>0 DEF Owners, NoCall
<1>3. StackOwned'
  BY <1>0, <1>2, SameStacks
<1> QED BY <1>0, <1>1, <1>3 DEF BootInv, CallInv, CountInv, NoCall

LEMMA TableNext ==
  ASSUME TableInv, [Next]_vars
  PROVE  TableInv'
<1>1. CASE UNCHANGED vars
  BY <1>1 DEF vars, TableInv, TypeOK, BootInv, CallInv, CountInv, StackOwned, Owners
<1> QED BY <1>1, TableProcInit, TableTimer, TableClaim, TableFill, TablePublish,
           TableFree, TableDead, TableShift, TableCount, TableFix
        DEF Next, Stopped

(* Whatever is created, destroyed and preempted. *)
THEOREM TableInvariance == Spec => []TableInv
<1>1. Init => TableInv
  BY InitTable
<1>2. TableInv /\ [Next]_vars => TableInv'
  BY TableNext
<1> QED BY <1>1, <1>2, PTL DEF Spec

(* The table's variables keep their types: no slot is used past MAX_PROC. *)
THEOREM TypeCorrect == Spec => []TypeOK
BY TableInvariance, PTL DEF TableInv

(* Every allocated stack has exactly one owner in the table. *)
THEOREM StackOwnership == Spec => []StackOwned
BY TableInvariance, PTL DEF TableInv

-----------------------------------------------------------------------------
(* Regular behaviour.                                                      *)

(* In a regular state no destroy is under way, and every process has a     *)
(* stack of its own.                                                       *)
LEMMA RegularStacks ==
  ASSUME TableInv, RunsCurrent, Regular
  PROVE  /\ call.op \in {"none", "fill", "publish"}
         /\ proc_count > 0 /\ 0 .. (proc_count - 1) \subseteq Owners
         /\ \A j \in 0 .. (proc_count - 1) :
              /\ OwnStack(j) \in allocated \cup {KernelStack}
              /\ OwnStack(j) \in Places /\ OwnStack(j) # NULL
         /\ \A j, k \in 0 .. (proc_count - 1) : j # k => OwnStack(j) # OwnStack(k)
         /\ call.op = "publish" =>
              \A j \in 0 .. (proc_count - 1) :
                proc_table[call.slot].stack # OwnStack(j)
<1> USE DEF TableInv
<1>1. /\ phase = "run" /\ destroys = 0
      /\ \A j \in 1 .. (proc_count - 1) : proc_table[j].stack # NULL
  BY DEF Regular
<1>2. call.op \in {"none", "fill", "publish"}
  <2>1. call.op \in {"none", "fill", "publish", "dead", "shift", "fix"}
    BY DEF TypeOK
  <2> QED BY <1>1, <2>1 DEF CallInv
<1>3. proc_count > 0
  BY <1>1, Typed DEF RunsCurrent
<1>4. 0 .. (proc_count - 1) \subseteq Owners /\ Owners \subseteq Slots
  BY <1>2, OwnersSlots DEF Owners
<1>5. ASSUME NEW j \in 1 .. (proc_count - 1)
      PROVE  /\ OwnStack(j) = proc_table[j].stack /\ j \in Owners
             /\ OwnStack(j) \in allocated /\ OwnStack(j) # NULL
  <2>1. j \in Owners /\ j # 0
    BY <1>4, Typed
  <2> QED BY <1>1, <2>1 DEF StackOwned, OwnStack
<1>6. /\ OwnStack(0) = KernelStack /\ KernelStack \notin allocated
      /\ allocated \subseteq Stacks /\ KernelStack # NULL
  BY ProcAssumption DEF OwnStack, TypeOK
<1>7. \A j \in 0 .. (proc_count - 1) : j = 0 \/ j \in 1 .. (proc_count - 1)
  BY Typed
<1>8. ASSUME NEW j \in 0 .. (proc_count - 1)
      PROVE  /\ OwnStack(j) \in allocated \cup {KernelStack}
             /\ OwnStack(j) \in Places /\ OwnStack(j) # NULL
  BY <1>5, <1>6, <1>7 DEF Places
<1>9. ASSUME NEW j \in 0 .. (proc_count - 1), NEW k \in 0 .. (proc_count - 1), j # k
      PROVE  OwnStack(j) # OwnStack(k)
  <2>1. CASE j = 0 \/ k = 0
    BY <1>5, <1>6, <1>7, <1>9, <2>1
  <2>2. CASE j # 0 /\ k # 0
    <3>1. j \in 1 .. (proc_count - 1) /\ k \in 1 .. (proc_count - 1)
      BY <1>7, <2>2
    <3> QED BY <1>5, <1>9, <3>1 DEF StackOwned
  <2> QED BY <2>1, <2>2
<1>10. ASSUME call.op = "publish", NEW j \in 0 .. (proc_count - 1)
       PROVE  proc_table[call.slot].stack # OwnStack(j)
  <2>1. /\ call.slot \in Owners /\ call.slot = proc_count /\ j # call.slot
        /\ proc_table[call.slot].stack \in allocated \cup {NULL}
    BY <1>10, Typed DEF Owners, CallInv, StackOwned
  <2>2. CASE j = 0
    BY <1>6, <2>1, <2>2
  <2>3. CASE j \in 1 .. (proc_count - 1)
    BY <1>5, <2>1, <2>3 DEF StackOwned
  <2> QED BY <1>7, <2>2, <2>3
<1> QED BY <1>2, <1>3, <1>4, <1>8, <1>9, <1>10

LEMMA RegularProcInit ==
  ASSUME TableInv, proc_init
  PROVE  RegularInv'
<1>1. /\ MAX_PROC \in Nat /\ MAX_PROC > 0 /\ 0 \in Slots
  BY ProcAssumption DEF Slots
<1>2. /\ proc_table = [j \in Slots |-> Cleared] /\ call = NoCall
      /\ cpu = [stack |-> KernelStack, thread |-> 0]
  BY DEF TableInv, BootInv, proc_init
<1>3. /\ proc_count' = 1 /\ current_proc' = 0 /\ call'.op = "none"
      /\ proc_table'[0].state = "RUNNING"
      /\ cpu' = [stack |-> KernelStack, thread |-> 0]
  BY <1>1, <1>2 DEF proc_init, NoCall, Cleared
<1>4. \A j \in 0 .. (proc_count' - 1) : j = 0
  BY <1>3
<1> QED BY <1>3, <1>4 DEF RegularInv, FrameInv, RunsCurrent, ResumesOwn, OwnStack

LEMMA RegularTimer ==
  ASSUME TableInv, RegularInv, Timer
  PROVE  RegularInv'
<1> USE DEF TableInv, RegularInv
<1>0. SUFFICES ASSUME Regular' PROVE RegularInv'
  BY DEF FrameInv, RunsCurrent, ResumesOwn
<1>1. CASE UNCHANGED <<proc_table, current_proc, mem, cpu>>
  <2>1. Regular
    BY <1>0, <1>1 DEF Regular, Timer
  <2> QED BY <1>1, <2>1 DEF Timer, FrameInv, RunsCurrent, ResumesOwn, OwnStack
<1>2. ASSUME NEW d \in 1 .. proc_count, Stops(d), Candidate(d) # Index,
             Switch(Candidate(d))
      PROVE  RegularInv'
  <2> DEFINE n == Candidate(d)
  <2>1. n \in Slots /\ n < proc_count /\ proc_table[n].state = "READY"
    BY <1>2, CandidateSlot DEF Stops
  <2>2. \A j \in Slots :
          /\ j = n => proc_table'[j] = [proc_table[j] EXCEPT !.state = "RUNNING"]
          /\ j # n /\ j = current_proc =>
               proc_table'[j] = [proc_table[j] EXCEPT !.state = "READY", !.rsp = cpu.stack]
          /\ j # n /\ j # current_proc => proc_table'[j] = proc_table[j]
    BY <1>2 DEF Switch
  <2>3. /\ current_proc' = n /\ mem' = SavedMem
        /\ cpu' = [stack |-> proc_table[n].rsp, thread |-> SavedMem[proc_table[n].rsp]]
        /\ UNCHANGED <<proc_count, call, destroys>>
    BY <1>2 DEF Switch, Timer
  <2> HIDE DEF n
  <2>4. ASSUME NEW j \in Slots
        PROVE  /\ proc_table'[j].stack = proc_table[j].stack
               /\ proc_table'[j].state = IF j = n THEN "RUNNING"
                                         ELSE IF j = current_proc THEN "READY"
                                         ELSE proc_table[j].state
               /\ proc_table'[j].rsp = IF j # n /\ j = current_proc THEN cpu.stack
                                       ELSE proc_table[j].rsp
    <3>1. proc_table[j] \in Slot
      BY Typed
    <3>2. CASE j = n
      BY <2>2, <3>1, <3>2 DEF Slot
    <3>3. CASE j # n /\ j = current_proc
      BY <2>2, <3>1, <3>3 DEF Slot
    <3>4. CASE j # n /\ j # current_proc
      BY <2>2, <3>4
    <3> QED BY <3>2, <3>3, <3>4
  <2>5. \A j \in 0 .. (proc_count - 1) : j \in Slots
    BY Typed DEF Slots
  <2>6. Regular
    <3>1. phase = "run"
      BY DEF Timer
    <3>2. ASSUME NEW j \in 1 .. (proc_count - 1) PROVE proc_table[j].stack # NULL
      <4>1. j \in Slots /\ j \in 1 .. (proc_count' - 1)
        BY <2>3, Typed DEF Slots
      <4> QED BY <1>0, <2>4, <4>1 DEF Regular
    <3> QED BY <1>0, <2>3, <3>1, <3>2 DEF Regular
  <2>7. /\ \A j \in 0 .. (proc_count - 1) :
             proc_table[j].state = IF j = current_proc THEN "RUNNING" ELSE "READY"
        /\ current_proc < proc_count /\ current_proc \in 0 .. (proc_count - 1)
        /\ cpu.stack = OwnStack(current_proc) /\ cpu.thread = current_proc
    BY <2>6, Typed DEF RunsCurrent
  <2>8. n \in 0 .. (proc_count - 1) /\ n # current_proc
    <3>1. n # Index
      BY <1>2 DEF n
    <3>2. Index = current_proc
      BY <2>7 DEF Index
    <3> QED BY <2>1, <3>1, <3>2, Typed DEF Slots
  <2>9. proc_table[n].rsp = OwnStack(n) /\ mem[OwnStack(n)] = n
    BY <2>6, <2>8 DEF ResumesOwn
  <2>10. \A j \in 0 .. (proc_count - 1) : OwnStack(j)' = OwnStack(j)
    BY <2>4, <2>5 DEF OwnStack
  <2>11. \A p \in Places : mem'[p] = IF p = cpu.stack THEN current_proc ELSE mem[p]
    BY <2>3, <2>7 DEF SavedMem, TypeOK
  <2>12. cpu' = [stack |-> OwnStack(n), thread |-> n]
    <3>1. OwnStack(n) \in Places /\ OwnStack(n) # cpu.stack
      BY <2>6, <2>7, <2>8, RegularStacks
    <3>2. SavedMem[OwnStack(n)] = n
      BY <2>3, <2>9, <2>11, <3>1
    <3> QED BY <2>3, <2>9, <3>2
  <2>13. RunsCurrent'
    <3>1. ASSUME NEW j \in 0 .. (proc_count' - 1)
          PROVE  proc_table'[j].state
                   = IF j = current_proc' THEN "RUNNING" ELSE "READY"
      BY <2>3, <2>4, <2>5, <2>7
    <3> QED BY <2>1, <2>3, <2>8, <2>10, <2>12, <3>1 DEF RunsCurrent
  <2>14. ResumesOwn'
    <3>1. ASSUME NEW j \in 0 .. (proc_count' - 1), j # n
          PROVE  proc_table'[j].rsp = OwnStack(j) /\ mem'[OwnStack(j)] = j
      <4>0. j \in 0 .. (proc_count - 1) /\ OwnStack(j) \in Places
        BY <2>3, <2>6, RegularStacks
      <4>1. CASE j = current_proc
        BY <2>4, <2>5, <2>7, <2>11, <3>1, <4>0, <4>1
      <4>2. CASE j # current_proc
        <5>1. proc_table[j].rsp = OwnStack(j) /\ mem[OwnStack(j)] = j
          BY <2>6, <4>0, <4>2 DEF ResumesOwn
        <5>2. OwnStack(j) # cpu.stack
          BY <2>6, <2>7, <4>0, <4>2, RegularStacks
        <5> QED BY <2>4, <2>5, <2>11, <3>1, <4>0, <4>2, <5>1, <5>2
      <4> QED BY <4>1, <4>2
    <3> QED BY <2>3, <2>10, <3>1 DEF ResumesOwn
  <2>15. FrameInv'
    <3>1. ASSUME call.op \in {"fill", "publish"}
          PROVE  /\ call.slot \in Slots /\ call.slot # n /\ call.slot # current_proc
                 /\ proc_table'[call.slot].state = proc_table[call.slot].state
                 /\ proc_table'[call.slot].stack = proc_table[call.slot].stack
                 /\ proc_table'[call.slot].rsp = proc_table[call.slot].rsp
      <4>1. call.slot = proc_count /\ call.slot \in Slots
        BY <3>1, Typed DEF CallInv, Slots
      <4> QED BY <2>1, <2>4, <2>7, <4>1, Typed
    <3>2. ASSUME call.op = "publish", proc_table[call.slot].stack # NULL
          PROVE  mem'[proc_table[call.slot].stack] = call.slot
      <4>1. proc_table[call.slot].stack # cpu.stack
        BY <2>6, <2>7, <3>2, RegularStacks
      <4>2. proc_table[call.slot].stack \in Places
        BY <3>1, <3>2, Typed, SlotFields DEF Places
      <4> QED BY <2>6, <2>11, <3>2, <4>1, <4>2 DEF FrameInv
    <3> QED BY <2>3, <2>6, <3>1, <3>2 DEF FrameInv
  <2> QED BY <2>13, <2>14, <2>15
<1> QED BY <1>1, <1>2 DEF Timer, schedule

(* A step of proc_create that leaves the table below proc_count, the CPU   *)
(* and every frame in use alone.                                           *)
LEMMA RegularKept ==
  ASSUME TypeOK, RunsCurrent, ResumesOwn, Regular, proc_count' = proc_count,
         current_proc' = current_proc, cpu' = cpu,
         \A j \in 0 .. (proc_count - 1) :
           /\ proc_table'[j].stack = proc_table[j].stack
           /\ proc_table'[j].state = proc_table[j].state
           /\ proc_table'[j].rsp = proc_table[j].rsp
           /\ mem'[OwnStack(j)] = mem[OwnStack(j)]
  PROVE  RunsCurrent' /\ ResumesOwn'
<1>1. \A j \in 0 .. (proc_count - 1) : OwnStack(j)' = OwnStack(j)
  BY DEF OwnStack
<1>2. /\ current_proc < proc_count /\ current_proc \in 0 .. (proc_count - 1)
      /\ cpu = [stack |-> OwnStack(current_proc), thread |-> current_proc]
      /\ \A j \in 0 .. (proc_count - 1) :
           proc_table[j].state = IF j = current_proc THEN "RUNNING" ELSE "READY"
  BY Typed DEF RunsCurrent
<1>3. OwnStack(current_proc)' = OwnStack(current_proc)
  BY <1>2 DEF OwnStack
<1>4. RunsCurrent'
  BY <1>2, <1>3 DEF RunsCurrent
<1>5. ASSUME NEW j \in 0 .. (proc_count' - 1), j # current_proc'
      PROVE  proc_table'[j].rsp = OwnStack(j)' /\ mem'[OwnStack(j)'] = j
  <2>1. j \in 0 .. (proc_count - 1) /\ j # current_proc
    BY <1>5
  <2>2. proc_table[j].rsp = OwnStack(j) /\ mem[OwnStack(j)] = j
    BY <2>1 DEF ResumesOwn
  <2> QED BY <1>1, <2>1, <2>2
<1> QED BY <1>4, <1>5 DEF ResumesOwn

LEMMA RegularClaim ==
  ASSUME TableInv, RegularInv, CreateClaim
  PROVE  RegularInv'
<1> USE DEF TableInv, RegularInv
<1>1. CASE UNCHANGED vars
  BY <1>1 DEF vars, FrameInv, RunsCurrent, ResumesOwn, OwnStack, Regular
<1>2. CASE ~UNCHANGED vars
  <2>0. SUFFICES ASSUME Regular' PROVE RegularInv'
    BY DEF FrameInv, RunsCurrent, ResumesOwn
  <2>1. /\ proc_count < MAX_PROC /\ proc_count \in Slots
        /\ call'.op = "fill" /\ call'.slot = proc_count
        /\ proc_table' = [proc_table EXCEPT ![proc_count].pid = proc_count,
                                            ![proc_count].state = "READY"]
        /\ UNCHANGED <<phase, current_proc, proc_count, mem, cpu, destroys>>
    BY <1>2, Typed DEF CreateClaim, TableFull, Slots
  <2>2. ASSUME NEW j \in 0 .. (proc_count - 1)
        PROVE  proc_table'[j] = proc_table[j] /\ j \in Slots
    BY <2>1, Typed DEF TypeOK, Slots
  <2>3. Regular
    <3>1. \A j \in 1 .. (proc_count - 1) : j \in 0 .. (proc_count - 1)
      BY Typed
    <3> QED BY <2>0, <2>1, <2>2, <3>1 DEF Regular
  <2>4. RunsCurrent' /\ ResumesOwn'
    BY <2>1, <2>2, <2>3, RegularKept
  <2>5. proc_table'[proc_count].state = "READY"
    <3>1. proc_table[proc_count] \in Slot
      BY <2>1, Typed
    <3> QED BY <2>1, <3>1 DEF TypeOK, Slot
  <2> QED BY <2>1, <2>4, <2>5 DEF FrameInv
<1> QED BY <1>1, <1>2

LEMMA RegularFill ==
  ASSUME TableInv, RegularInv, CreateFill
  PROVE  RegularInv'
<1> USE DEF TableInv, RegularInv
<1>0. SUFFICES ASSUME Regular' PROVE RegularInv'
  BY DEF FrameInv, RunsCurrent, ResumesOwn
<1>1. /\ phase = "run" /\ call.op = "fill" /\ call.slot = proc_count
      /\ call.slot \in Slots
      /\ UNCHANGED <<current_proc, proc_count, cpu, created, destroys>>
  BY Typed DEF CreateFill, Calling, CallInv, Slots
<1>2. PICK s \in (Stacks \ allocated) \cup {NULL} :
        /\ proc_table' = [proc_table EXCEPT ![call.slot].stack = s,
                                            ![call.slot].rsp = s]
        /\ mem' = NewMem(s)
        /\ call' = [call EXCEPT !.op = "publish"]
  BY <1>0 DEF CreateFill, Regular
<1>3. ASSUME NEW j \in 0 .. (proc_count - 1)
      PROVE  proc_table'[j] = proc_table[j] /\ j \in Slots
  BY <1>1, <1>2, Typed DEF TypeOK, Slots
<1>4. Regular
  <2>1. \A j \in 1 .. (proc_count - 1) : j \in 0 .. (proc_count - 1)
    BY Typed
  <2> QED BY <1>0, <1>1, <1>3, <2>1 DEF Regular
<1>5. s \in Places /\ mem'[s] = created
      /\ \A p \in Places : p # s => mem'[p] = mem[p]
  BY <1>2 DEF NewMem, TypeOK, Places
<1>6. ASSUME NEW j \in 0 .. (proc_count - 1)
      PROVE  mem'[OwnStack(j)] = mem[OwnStack(j)]
  <2>1. /\ OwnStack(j) \in allocated \cup {KernelStack} /\ OwnStack(j) \in Places
        /\ OwnStack(j) # NULL
    BY <1>4, RegularStacks
  <2>2. s # OwnStack(j)
    BY <2>1, ProcAssumption
  <2> QED BY <1>5, <2>1, <2>2
<1>7. RunsCurrent' /\ ResumesOwn'
  BY <1>1, <1>3, <1>4, <1>6, RegularKept
<1>8. /\ call'.op = "publish" /\ call'.slot = call.slot
  BY <1>2 DEF TypeOK
<1>9. created = call.slot
  BY <1>1, <1>4, Typed DEF CountInv, Regular
<1>10. /\ proc_table'[call.slot].stack = s /\ proc_table'[call.slot].rsp = s
       /\ proc_table'[call.slot].state = "READY"
  <2>1. proc_table[call.slot] \in Slot /\ proc_table[call.slot].state = "READY"
    BY <1>1, <1>4, Typed DEF FrameInv
  <2> QED BY <1>1, <1>2, <2>1 DEF TypeOK, Slot
<1>11. FrameInv'
  BY <1>5, <1>8, <1>9, <1>10 DEF FrameInv
<1> QED BY <1>7, <1>11

LEMMA RegularPublish ==
  ASSUME TableInv, RegularInv, CreatePublish
  PROVE  RegularInv'
<1> USE DEF TableInv, RegularInv
<1>0. SUFFICES ASSUME Regular' PROVE RegularInv'
  BY DEF FrameInv, RunsCurrent, ResumesOwn
<1>1. /\ phase = "run" /\ call.op = "publish" /\ call.slot = proc_count
      /\ proc_count' = proc_count + 1 /\ call' = NoCall
      /\ UNCHANGED <<phase, proc_table, current_proc, mem, cpu, destroys>>
  BY DEF CreatePublish, Calling, CallInv
<1>2. Regular
  <2>1. \A j \in 1 .. (proc_count - 1) : j \in 1 .. (proc_count' - 1)
    BY <1>1, Typed
  <2> QED BY <1>0, <1>1, <2>1 DEF Regular
<1>3. /\ current_proc < proc_count /\ current_proc \in 0 .. (proc_count - 1)
      /\ cpu = [stack |-> OwnStack(current_proc), thread |-> current_proc]
      /\ \A j \in 0 .. (proc_count - 1) :
           proc_table[j].state = IF j = current_proc THEN "RUNNING" ELSE "READY"
  BY <1>2, Typed DEF RunsCurrent
<1>4. proc_count \in 1 .. (proc_count' - 1) /\ proc_count # current_proc
      /\ proc_count # 0
  BY <1>1, <1>3, Typed
<1>5. proc_table[proc_count].stack # NULL
  BY <1>0, <1>1, <1>4 DEF Regular
<1>6. /\ proc_table[proc_count].state = "READY"
      /\ proc_table[proc_count].rsp = OwnStack(proc_count)
      /\ mem[OwnStack(proc_count)] = proc_count
  BY <1>1, <1>2, <1>4, <1>5 DEF FrameInv, OwnStack
<1>7. \A j : OwnStack(j)' = OwnStack(j)
  BY <1>1 DEF OwnStack
<1>8. \A j \in 0 .. (proc_count' - 1) : j = proc_count \/ j \in 0 .. (proc_count - 1)
  BY <1>1, Typed
<1>9. RunsCurrent'
  <2>1. current_proc < proc_count'
    BY <1>1, <1>3, Typed
  <2>2. ASSUME NEW j \in 0 .. (proc_count' - 1)
        PROVE  proc_table[j].state = IF j = current_proc THEN "RUNNING" ELSE "READY"
    BY <1>3, <1>4, <1>6, <1>8
  <2> QED BY <1>1, <1>3, <1>7, <2>1, <2>2 DEF RunsCurrent
<1>10. ResumesOwn'
  <2>1. ASSUME NEW j \in 0 .. (proc_count' - 1), j # current_proc
        PROVE  proc_table[j].rsp = OwnStack(j) /\ mem[OwnStack(j)] = j
    BY <1>2, <1>6, <1>8, <2>1 DEF ResumesOwn
  <2> QED BY <1>1, <1>7, <2>1 DEF ResumesOwn
<1>11. FrameInv'
  BY <1>1 DEF FrameInv, NoCall
<1> QED BY <1>9, <1>10, <1>11

(* After a destroy nothing is claimed. *)
LEMMA RegularDestroy ==
  ASSUME TableInv,
         \/ \E p \in Slots : DestroyFree(p)
         \/ DestroyDead \/ DestroyShift \/ DestroyCount \/ DestroyFix
  PROVE  RegularInv'
<1>1. destroys' # 0
  BY Typed DEF TableInv, CallInv, Calling, DestroyFree, DestroyDead, DestroyShift,
               DestroyCount, DestroyFix
<1>2. ~Regular'
  BY <1>1 DEF Regular
<1> QED BY <1>2 DEF RegularInv, FrameInv, RunsCurrent, ResumesOwn

LEMMA RegularNext ==
  ASSUME TableInv, RegularInv, [Next]_vars
  PROVE  RegularInv'
<1>1. CASE UNCHANGED vars
  BY <1>1 DEF vars, RegularInv, FrameInv, RunsCurrent, ResumesOwn, OwnStack, Regular
<1> QED BY <1>1, RegularProcInit, RegularTimer, RegularClaim, RegularFill,
           RegularPublish, RegularDestroy DEF Next, Stopped

(* Until a process is destroyed or lacks a stack. *)
THEOREM RegularInvariance == Spec => []RegularInv
<1>1. Init => RegularInv
  BY InitRegular
<1>2. TableInv /\ RegularInv /\ [Next]_vars => RegularInv'
  BY RegularNext
<1> QED BY <1>1, <1>2, TableInvariance, PTL DEF Spec

(* The CPU executes the process current_proc names, the only RUNNING one. *)
THEOREM CurrentRuns == Spec => []RunsCurrent
BY RegularInvariance, PTL DEF RegularInv

(* Every other process will go on exactly where it was preempted. *)
THEOREM OwnResumed == Spec => []ResumesOwn
BY RegularInvariance, PTL DEF RegularInv
=============================================================================
