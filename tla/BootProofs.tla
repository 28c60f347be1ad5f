----------------------------- MODULE BootProofs -----------------------------
(***************************************************************************)
(* Proofs about the boot sequence and the stack trace of panic, for every  *)
(* answer of the boot loader, every set of interrupt lines, every table of *)
(* symbols and every chain of return addresses.                            *)
(***************************************************************************)
EXTENDS Boot, TLAPS

-----------------------------------------------------------------------------
(* The inductive invariant.                                                *)

(* x64_main has come to call at: what was before has returned, and the     *)
(* tables are loaded.                                                      *)
ProgressInv ==
  /\ at \in 1 .. 18
  /\ up = {Order[i] : i \in 1 .. (at - 1)}
  /\ gdt = IF at > 1 THEN Gdt ELSE [i \in {} |-> None]
  /\ idt = IF at > 4 THEN Gates ELSE {}

(* Interrupts are off until atkbd_clear_buffer, and a line other than the  *)
(* timer's and the keyboard's is raised only by a stray device.            *)
InterruptInv ==
  /\ iflag \in BOOLEAN /\ (iflag => at > 10)
  /\ pending \subseteq Lines
  /\ \A line \in pending : line > Keyboard => env.stray

(* A panic under way, up to the last line of its trace. *)
PanicInv ==
  mode \in {"panic", "trace"} =>
    /\ cause = ByPanic /\ Order[at] \in env.refused /\ at > 3

ModeInv ==
  /\ env \in Envs
  /\ mode \in {"run", "panic", "trace", "halted", "reset", "wild", "user"}

StopInv == ModeInv /\ ProgressInv /\ InterruptInv /\ PanicInv /\ StopsExplained

(* The indices of the search stay in the table. *)
IndexInv ==
  /\ search \in [frame : Nat, l : 0 .. Len(env.ksyms),
                 r : -1 .. (Len(env.ksyms) - 1), last : 0 .. Len(env.ksyms)]

(* The loop of odb_addr_to_sym: the symbols up to l do not begin behind a, *)
(* the symbols behind r do, and last is the one before l.                  *)
SearchInv(s, a) ==
  /\ s.l <= s.r + 1 /\ s.last = s.l
  /\ \A j \in 1 .. s.l : env.ksyms[j] <= a
  /\ \A j \in (s.r + 2) .. Len(env.ksyms) : a < env.ksyms[j]

(* Symbol v is the last that does not begin behind a. *)
LastBefore(v, a) ==
  v <= a /\ \A j \in DOMAIN env.ksyms : env.ksyms[j] <= a => env.ksyms[j] <= v

(* The lines printed so far are right, and the frame being looked up is    *)
(* the next one.                                                           *)
PrintedInv ==
  /\ printed \in Seq(Nat \X Nat)
  /\ \A i \in 1 .. Len(printed) :
       printed[i][1] = env.trace[i] /\ LastBefore(printed[i][2], env.trace[i])
  /\ mode \in {"run", "panic"} => printed = <<>>
  /\ mode \in {"panic", "trace"} => cause = ByPanic
  /\ mode = "trace" => /\ search.frame = Len(printed) + 1
                       /\ search.frame \in DOMAIN env.trace
                       /\ SearchInv(search, rip)

TraceInv == ModeInv /\ IndexInv /\ PrintedInv /\ TraceRight

-----------------------------------------------------------------------------
(* The order of the calls.                                                 *)

(* What the environment is. *)
LEMMA EnvTyped ==
  ASSUME env \in Envs
  PROVE  /\ env.framebuffer \in BOOLEAN /\ env.modules \in BOOLEAN /\ env.stray \in BOOLEAN
         /\ env.ksyms \in Seq(Nat) /\ env.trace \in Seq(Nat)
         /\ \A i, j \in DOMAIN env.ksyms : i <= j => env.ksyms[i] <= env.ksyms[j]
<1>1. env.ksyms \in Symbols /\ env.trace \in Traces
  BY DEF Envs
<1> QED BY <1>1, BootAssumption DEF Envs

(* Where each function is called. *)
LEMMA Position ==
  ASSUME NEW n \in 1 .. 18
  PROVE  /\ Order[n] = "gdt_init" <=> n = 1
         /\ Order[n] = "tss_init" <=> n = 2
         /\ Order[n] = "liminefb_init" <=> n = 3
         /\ Order[n] = "trap_init" <=> n = 4
         /\ Order[n] = "cli" <=> n = 5
         /\ Order[n] = "pmm_init" <=> n = 6
         /\ Order[n] = "vmm_init" <=> n = 7
         /\ Order[n] = "heap_init" <=> n = 8
         /\ Order[n] = "proc_init" <=> n = 9
         /\ Order[n] = "atkbd_buffer" <=> n = 10
         /\ Order[n] = "atkbd_leds" <=> n = 11
         /\ Order[n] = "sti" <=> n = 12
         /\ Order[n] = "module_init" <=> n = 13
         /\ Order[n] = "devfs_init" <=> n = 14
         /\ Order[n] = "random_init" <=> n = 15
         /\ Order[n] = "vfs_write" <=> n = 16
         /\ Order[n] = "switch_to_user" <=> n = 17
BY DEF Order

LEMMA OrderDomain == DOMAIN Order = 1 .. 18
BY DEF Order

(* What has returned, by where x64_main is. *)
LEMMA UpTo ==
  ASSUME ProgressInv
  PROVE  /\ "liminefb_init" \in up <=> at > 3
         /\ "trap_init" \in up <=> at > 4
         /\ "pmm_init" \in up <=> at > 6
         /\ "vmm_init" \in up <=> at > 7
         /\ "heap_init" \in up <=> at > 8
         /\ "proc_init" \in up <=> at > 9
         /\ "atkbd_buffer" \in up <=> at > 10
         /\ "devfs_init" \in up <=> at > 14
<1>1. at \in 1 .. 18 /\ up = {Order[i] : i \in 1 .. (at - 1)}
  BY DEF ProgressInv
<1>2. ASSUME NEW f, NEW n \in 1 .. 18, \A i \in 1 .. 18 : Order[i] = f <=> i = n
      PROVE  f \in up <=> at > n
  <2>1. \A i \in 1 .. (at - 1) : i \in 1 .. 18
    BY <1>1
  <2> QED BY <1>1, <1>2, <2>1
<1> QED BY <1>2, Position

(* Every function finds the parts it uses up. *)
LEMMA AllReady ==
  ASSUME ProgressInv, NEW f \in Plain \cup {"trap_init"}, Order[at] = f
  PROVE  Ready(f)
<1>1. at \in 1 .. 18
  BY DEF ProgressInv
<1> QED BY <1>1, UpTo, Position DEF Ready, Uses, Plain

(* A function returns. *)
LEMMA ReturnUp ==
  ASSUME ProgressInv, NEW f, Order[at] = f, at # 18, at' = at + 1, up' = up \cup {f}
  PROVE  at' \in 1 .. 18 /\ up' = {Order[i] : i \in 1 .. (at' - 1)}
<1>1. at \in 1 .. 18 /\ up = {Order[i] : i \in 1 .. (at - 1)}
  BY DEF ProgressInv
<1>2. \A i : i \in 1 .. (at' - 1) <=> (i \in 1 .. (at - 1) \/ i = at)
  BY <1>1
<1> QED BY <1>1, <1>2

-----------------------------------------------------------------------------
(* The machine stops only for a reason.                                    *)

(* A function returns: nothing but its effects changes. *)
LEMMA StopReturn ==
  ASSUME StopInv, mode = "run", NEW f, Order[at] = f, at # 18, Return(f),
         gdt' = IF at' > 1 THEN Gdt ELSE [i \in {} |-> None],
         idt' = IF at' > 4 THEN Gates ELSE {},
         iflag' \in BOOLEAN, iflag' => at' > 10
  PROVE  StopInv'
<1>1. /\ at' = at + 1 /\ up' = up \cup {f} /\ UNCHANGED <<env, mode, pending, cause>>
  BY DEF Return
<1>2. ProgressInv'
  <2>1. ProgressInv
    BY DEF StopInv
  <2>2. at' \in 1 .. 18 /\ up' = {Order[i] : i \in 1 .. (at' - 1)}
    BY <1>1, <2>1, ReturnUp
  <2> QED BY <2>2 DEF ProgressInv
<1>3. InterruptInv'
  BY <1>1 DEF StopInv, InterruptInv
<1>4. ModeInv' /\ PanicInv' /\ StopsExplained'
  BY <1>1 DEF StopInv, ModeInv, PanicInv, StopsExplained
<1> QED BY <1>2, <1>3, <1>4 DEF StopInv

(* A step that leaves x64_main where it is and enables no interrupts. *)
LEMMA StopStay ==
  ASSUME StopInv, UNCHANGED <<env, at, up, tables>>, iflag' \in BOOLEAN, iflag' => iflag,
         mode' \in {"run", "panic", "trace", "halted", "reset", "wild", "user"},
         pending' \subseteq pending,
         PanicInv', StopsExplained'
  PROVE  StopInv'
<1>1. ModeInv' /\ ProgressInv'
  BY DEF StopInv, ModeInv, ProgressInv, tables
<1>2. InterruptInv'
  BY DEF StopInv, InterruptInv
<1> QED BY <1>1, <1>2 DEF StopInv

(* An exception once its gate is there and the screen can show it. *)
LEMMA StopException ==
  ASSUME StopInv, NEW v \in {NP, GP, PF}, at > 4, Exception(v),
         \/ v = NP /\ env.stray
         \/ v = PF /\ ~env.modules
         \/ v = GP /\ Order[at] = "switch_to_user"
  PROVE  StopInv'
<1>1. v \in idt /\ v # ByPanic
  BY DEF StopInv, ProgressInv, Gates, NP, GP, PF, ByPanic
<1>2. "liminefb_init" \in up
  BY UpTo DEF StopInv, ProgressInv
<1>3. /\ mode' = "halted" /\ cause' = v /\ iflag' = FALSE
      /\ UNCHANGED <<env, at, up, tables, pending>>
  BY <1>1, <1>2 DEF Exception
<1>4. PanicInv'
  BY <1>3 DEF PanicInv
<1>5. StopsExplained'
  BY <1>1, <1>2, <1>3 DEF StopsExplained
<1> QED BY <1>3, <1>4, <1>5, StopStay

LEMMA StopInit == Init => StopInv
<1> SUFFICES ASSUME Init PROVE StopInv
  OBVIOUS
<1>1. at = 1 /\ up = {} /\ mode = "run" /\ env \in Envs
  BY DEF Init
<1>2. \A i \in 1 .. (1 - 1) : FALSE
  OBVIOUS
<1>3. ProgressInv
  BY <1>1, <1>2 DEF Init, ProgressInv
<1>4. ModeInv /\ InterruptInv /\ PanicInv /\ StopsExplained
  BY <1>1 DEF Init, ModeInv, InterruptInv, PanicInv, StopsExplained
<1> QED BY <1>3, <1>4 DEF StopInv

(* The calls of x64_main. *)
LEMMA StopMain == ASSUME StopInv, x64_main PROVE StopInv'
<1>1. /\ ProgressInv /\ at \in 1 .. 18 /\ env \in Envs
      /\ gdt = IF at > 1 THEN Gdt ELSE [i \in {} |-> None]
      /\ idt = IF at > 4 THEN Gates ELSE {}
      /\ iflag \in BOOLEAN /\ (iflag => at > 10)
  BY DEF StopInv, ProgressInv, InterruptInv, ModeInv
<1>2. CASE gdt_init
  <2>1. mode = "run" /\ Order[at] = "gdt_init" /\ at = 1 /\ Return("gdt_init") /\ at' = at + 1
    BY <1>1, <1>2, Position DEF gdt_init, Call, Return
  <2> QED BY <1>1, <1>2, <2>1, StopReturn DEF gdt_init
<1>3. CASE tss_init
  <2>1. mode = "run" /\ Order[at] = "tss_init" /\ at = 2
    BY <1>1, <1>3, Position DEF tss_init, Call
  <2>2. Descriptor(24).kind = "tss"
    <3>1. gdt = Gdt
      BY <1>1, <2>1
    <3>2. (24 \div 4) % 2 = 0 /\ 24 \div 8 = 3 /\ 3 \in 0 .. 6
      OBVIOUS
    <3>3. DOMAIN Gdt = 0 .. 6 /\ Gdt[3] = Tss
      BY DEF Gdt
    <3> QED BY <3>1, <3>2, <3>3 DEF Descriptor, Tss
  <2>3. Return("tss_init") /\ UNCHANGED <<tables, iflag>> /\ at' = at + 1
    BY <1>3, <2>2 DEF tss_init, Return
  <2> QED BY <1>1, <2>1, <2>3, StopReturn DEF tables
<1>4. CASE liminefb_init
  <2>1. mode = "run" /\ Order[at] = "liminefb_init" /\ at = 3
    BY <1>1, <1>4, Position DEF liminefb_init, Call
  <2>2. CASE Return("liminefb_init") /\ UNCHANGED <<tables, iflag>>
    <3>1. at' = at + 1
      BY <2>2 DEF Return
    <3> QED BY <1>1, <2>1, <2>2, <3>1, StopReturn DEF tables
  <2>3. CASE ~env.framebuffer /\ Exception(PF)
    <3>1. idt = {}
      BY <1>1, <2>1
    <3>2. /\ mode' = "reset" /\ iflag' = FALSE
          /\ UNCHANGED <<env, at, up, tables, pending>>
      BY <2>3, <3>1 DEF Exception
    <3>3. PanicInv' /\ StopsExplained'
      BY <2>3, <3>2 DEF PanicInv, StopsExplained
    <3> QED BY <3>2, <3>3, StopStay
  <2> QED BY <1>4, <2>2, <2>3 DEF liminefb_init
<1>5. CASE trap_init
  <2>1. mode = "run" /\ Order[at] = "trap_init" /\ at = 4
    BY <1>1, <1>5, Position DEF trap_init, Call
  <2>2. Ready("trap_init")
    BY <1>1, <2>1, AllReady
  <2>3. idt' = Gates /\ Return("trap_init") /\ UNCHANGED <<gdt, iflag>> /\ at' = at + 1
    BY <1>5, <2>2 DEF trap_init, Return
  <2> QED BY <1>1, <2>1, <2>3, StopReturn
<1>6. CASE cli
  <2>1. mode = "run" /\ Order[at] = "cli" /\ at = 5
    BY <1>1, <1>6, Position DEF cli, Call
  <2>2. Return("cli") /\ UNCHANGED tables /\ at' = at + 1 /\ iflag' = FALSE
    BY <1>6 DEF cli, Return
  <2>3. iflag' \in BOOLEAN /\ (iflag' => at' > 10)
    BY <2>2
  <2> QED BY <1>1, <2>1, <2>2, <2>3, StopReturn DEF tables
<1>7. ASSUME NEW f \in Plain, Initialise(f) PROVE StopInv'
  <2>1. mode = "run" /\ Order[at] = f /\ at > 5 /\ at < 17
    BY <1>1, <1>7, Position DEF Initialise, Call, Plain
  <2>2. Ready(f)
    BY <1>1, <2>1, AllReady
  <2>3. CASE f \in env.refused
    <3>1. Panic
      BY <1>7, <2>2, <2>3 DEF Initialise
    <3>2. /\ mode' = "panic" /\ cause' = ByPanic
          /\ UNCHANGED <<env, at, up, tables, iflag, pending>>
      BY <3>1 DEF Panic
    <3>3. Order[at'] \in env'.refused /\ at' > 3
      BY <2>1, <2>3, <3>2, <1>1
    <3>4. PanicInv'
      BY <3>2, <3>3 DEF PanicInv
    <3>5. StopsExplained'
      BY <3>2 DEF StopsExplained
    <3> QED BY <1>1, <3>2, <3>4, <3>5, StopStay
  <2>4. CASE f \notin env.refused /\ f = "module_init" /\ ~env.modules
    <3>1. Exception(PF) \/ Wild
      BY <1>7, <2>2, <2>4 DEF Initialise
    <3>2. CASE Exception(PF)
      BY <2>1, <2>4, <3>2, <1>1, StopException
    <3>3. CASE Wild
      <4>1. mode' = "wild" /\ UNCHANGED <<env, at, up, tables, iflag, pending, cause>>
        BY <3>3 DEF Wild
      <4>2. PanicInv' /\ StopsExplained'
        BY <2>4, <4>1 DEF PanicInv, StopsExplained
      <4> QED BY <1>1, <4>1, <4>2, StopStay
    <3> QED BY <3>1, <3>2, <3>3
  <2>5. CASE f \notin env.refused /\ ~(f = "module_init" /\ ~env.modules)
    <3>1. /\ iflag' = (iflag \/ f \in {"atkbd_buffer", "sti"})
          /\ Return(f) /\ UNCHANGED tables /\ at' = at + 1
      BY <1>7, <2>2, <2>5 DEF Initialise, Return
    <3>2. f \in {"atkbd_buffer", "sti"} => at >= 10
      BY <1>1, <2>1, Position
    <3>3. iflag' \in BOOLEAN /\ (iflag' => at' > 10)
      BY <1>1, <3>1, <3>2
    <3> QED BY <1>1, <2>1, <3>1, <3>3, StopReturn DEF tables
  <2> QED BY <2>3, <2>4, <2>5
<1>8. CASE switch_to_user
  <2>1. mode = "run" /\ Order[at] = "switch_to_user" /\ at = 17
    BY <1>1, <1>8, Position DEF switch_to_user, Call
  <2>2. Exception(GP)
    <3>1. SUFFICES ASSUME NEW arithmetic \in {0, 4, 68, 128}, Iretq(Frame(514 + arithmetic))
                   PROVE  Exception(GP)
      BY <1>8 DEF switch_to_user
    <3>2. Frame(514 + arithmetic)[2] = 514 + arithmetic
      BY DEF Frame
    <3>3. (514 + arithmetic) \div 8 > 6
      OBVIOUS
    <3>4. gdt = Gdt /\ DOMAIN Gdt = 0 .. 6
      BY <1>1, <2>1 DEF Gdt
    <3>5. Descriptor(514 + arithmetic) = None
      BY <3>3, <3>4 DEF Descriptor
    <3>6. None # Code(3)
      BY DEF None, Code
    <3> QED BY <3>1, <3>2, <3>5, <3>6 DEF Iretq
  <2> QED BY <1>1, <2>1, <2>2, StopException
<1> QED BY <1>2, <1>3, <1>4, <1>5, <1>6, <1>7, <1>8 DEF x64_main

(* A line that a gate is missing for belongs to a stray device; the other  *)
(* two are served, with everything their handlers use up.                  *)
LEMMA StopInterrupt ==
  ASSUME StopInv, NEW line \in Lines, Interrupt(line)
  PROVE  StopInv'
<1>1. /\ Running /\ iflag /\ line \in pending /\ at > 10 /\ at \in 1 .. 18
      /\ idt = Gates /\ iflag \in BOOLEAN
  BY DEF Interrupt, StopInv, InterruptInv, ProgressInv
<1>2. line \in 0 .. 15
  BY BootAssumption
<1>3. CASE 32 + line \notin idt
  <2>1. line > Keyboard
    BY <1>1, <1>2, <1>3 DEF Gates, Keyboard
  <2>2. env.stray
    BY <1>1, <2>1 DEF StopInv, InterruptInv
  <2>3. Exception(NP)
    BY <1>3 DEF Interrupt
  <2> QED BY <1>1, <2>2, <2>3, StopException
<1>4. CASE 32 + line \in idt
  <2>1. Handler(line) \subseteq up
    <3>1. "proc_init" \in up /\ "atkbd_buffer" \in up /\ "heap_init" \in up
      BY <1>1, UpTo DEF StopInv
    <3> QED BY <3>1 DEF Handler
  <2>2. /\ pending' = pending \ {line}
        /\ UNCHANGED <<env, mode, at, up, tables, iflag, cause>>
    BY <1>4, <2>1 DEF Interrupt
  <2>3. PanicInv' /\ StopsExplained'
    BY <2>2 DEF StopInv, PanicInv, StopsExplained
  <2>4. mode' \in {"run", "panic", "trace", "halted", "reset", "wild", "user"}
    BY <2>2 DEF StopInv, ModeInv
  <2> QED BY <1>1, <2>2, <2>3, <2>4, StopStay
<1> QED BY <1>3, <1>4

(* The steps of panic: the trace goes on, or the machine halts with the    *)
(* message of the panic on the screen.                                     *)
LEMMA StopTrace ==
  ASSUME StopInv, mode \in {"panic", "trace"}, mode' \in {"trace", "halted"},
         iflag' \in BOOLEAN, iflag' => iflag,
         UNCHANGED <<env, at, up, tables, pending, cause>>
  PROVE  StopInv'
<1>1. cause = ByPanic /\ Order[at] \in env.refused /\ at > 3
  BY DEF StopInv, PanicInv
<1>2. "liminefb_init" \in up
  BY <1>1, UpTo DEF StopInv
<1>3. PanicInv'
  BY <1>1 DEF PanicInv
<1>4. StopsExplained'
  BY <1>1, <1>2 DEF StopsExplained
<1> QED BY <1>3, <1>4, StopStay

LEMMA StopStep == StopInv /\ [Next]_vars => StopInv'
<1> SUFFICES ASSUME StopInv, [Next]_vars PROVE StopInv'
  OBVIOUS
<1>1. iflag \in BOOLEAN
  BY DEF StopInv, InterruptInv
<1>2. CASE x64_main
  BY <1>2, StopMain
<1>3. CASE odb_enter
  <2>1. /\ mode = "panic" /\ mode' \in {"trace", "halted"} /\ iflag' = FALSE
        /\ UNCHANGED <<env, at, up, tables, pending, cause>>
    BY <1>3 DEF odb_enter, Follow, Halt
  <2>2. iflag' \in BOOLEAN /\ (iflag' => iflag)
    BY <2>1
  <2> QED BY <2>1, <2>2, StopTrace
<1>4. CASE odb_addr_to_sym
  <2>1. /\ mode = "trace" /\ mode' = "trace"
        /\ UNCHANGED <<env, at, up, tables, pending, cause, iflag>>
    BY <1>4 DEF odb_addr_to_sym
  <2> QED BY <1>1, <2>1, StopTrace
<1>5. CASE odb_stack_trace
  <2>1. /\ mode = "trace" /\ mode' \in {"trace", "halted"}
        /\ UNCHANGED <<env, at, up, tables, pending, cause, iflag>>
    BY <1>5 DEF odb_stack_trace, Follow, Halt
  <2> QED BY <1>1, <2>1, StopTrace
<1>6. ASSUME NEW line \in Lines, Raise(line) PROVE StopInv'
  <2>1. /\ pending' = pending \cup {line} /\ (line > Keyboard => env.stray)
        /\ UNCHANGED <<env, mode, at, up, tables, iflag, cause>>
    BY <1>6 DEF Raise
  <2>2. InterruptInv'
    BY <2>1 DEF StopInv, InterruptInv
  <2> QED BY <2>1, <2>2
      DEF StopInv, ModeInv, ProgressInv, PanicInv, StopsExplained, tables
<1>7. ASSUME NEW line \in Lines, Interrupt(line) PROVE StopInv'
  BY <1>7, StopInterrupt
<1>8. CASE UNCHANGED vars
  BY <1>8 DEF vars, tables, StopInv, ModeInv, ProgressInv, InterruptInv, PanicInv, StopsExplained
<1> QED BY <1>2, <1>3, <1>4, <1>5, <1>6, <1>7, <1>8 DEF Next, Cpu

LEMMA StopInvariance == Spec => []StopInv
BY StopInit, StopStep, PTL DEF Spec

(* No part of the kernel is used before it is up, wherever interrupts come *)
(* between the calls of x64_main, and the machine stops only for a reason  *)
(* outside of the kernel, or at the door of user mode.                     *)
THEOREM StopsRight == Spec => []StopsExplained
<1>1. StopInv => StopsExplained
  BY DEF StopInv
<1> QED BY <1>1, StopInvariance, PTL

-----------------------------------------------------------------------------
(* The stack trace.                                                        *)

(* One turn of the search, for any table in ascending order. *)
LEMMA HalveRight ==
  ASSUME env \in Envs, IndexInv, NEW a \in Nat, a = rip, SearchInv(search, a),
         search.l <= search.r
  PROVE  LET s == Halve(search)
         IN  /\ s \in [frame : Nat, l : 0 .. Len(env.ksyms),
                       r : -1 .. (Len(env.ksyms) - 1), last : 0 .. Len(env.ksyms)]
             /\ s.frame = search.frame /\ SearchInv(s, a)
<1> DEFINE n == Len(env.ksyms)
           m == (search.l + search.r) \div 2
<1>1. /\ search.l \in 0 .. n /\ search.r \in -1 .. (n - 1) /\ search.last \in 0 .. n
      /\ search.frame \in Nat /\ n \in Nat
      /\ search = [frame |-> search.frame, l |-> search.l, r |-> search.r, last |-> search.last]
  BY EnvTyped DEF IndexInv
<1>2. m \in Int /\ search.l <= m /\ m <= search.r
  BY <1>1
<1>3. m + 1 \in 1 .. n /\ m \in 0 .. (n - 1)
  BY <1>1, <1>2
<1>4. /\ \A i \in 1 .. n : env.ksyms[i] \in Nat
      /\ \A i, j \in 1 .. n : i <= j => env.ksyms[i] <= env.ksyms[j]
  BY EnvTyped
<1> HIDE DEF m
<1>5. CASE a >= env.ksyms[m + 1]
  <2> DEFINE s == [search EXCEPT !.last = m + 1, !.l = m + 1]
  <2>1. Halve(search) = s
    BY <1>5 DEF Halve, m
  <2>2. s \in [frame : Nat, l : 0 .. n, r : -1 .. (n - 1), last : 0 .. n]
    <3>1. m + 1 \in 0 .. n
      BY <1>1, <1>3
    <3> HIDE DEF n
    <3>2. [search EXCEPT !.last = m + 1]
            \in [frame : Nat, l : 0 .. n, r : -1 .. (n - 1), last : 0 .. n]
      BY <3>1 DEF IndexInv, n
    <3> QED BY <3>1, <3>2
  <2>3. /\ s.l = m + 1 /\ s.r = search.r /\ s.last = m + 1 /\ s.frame = search.frame
    BY DEF IndexInv
  <2> HIDE DEF s
  <2>4. ASSUME NEW j \in 1 .. (m + 1) PROVE env.ksyms[j] <= a
    <3>1. j \in 1 .. n /\ j <= m + 1
      BY <1>1, <1>3
    <3>2. env.ksyms[j] <= env.ksyms[m + 1]
      BY <1>3, <1>4, <3>1
    <3> QED BY <1>3, <1>4, <1>5, <3>1, <3>2
  <2>5. SearchInv(s, a)
    BY <1>1, <1>2, <2>3, <2>4 DEF SearchInv
  <2> QED BY <2>1, <2>2, <2>3, <2>5
<1>6. CASE ~(a >= env.ksyms[m + 1])
  <2> DEFINE s == [search EXCEPT !.r = m - 1]
  <2>1. Halve(search) = s
    BY <1>6 DEF Halve, m
  <2>2. /\ s = [frame |-> search.frame, l |-> search.l, r |-> m - 1, last |-> search.last]
    BY <1>1
  <2> HIDE DEF s
  <2>3. /\ s.l = search.l /\ s.r = m - 1 /\ s.last = search.last /\ s.frame = search.frame
    BY <2>2
  <2>4. ASSUME NEW j \in ((m - 1) + 2) .. n PROVE a < env.ksyms[j]
    <3>1. j \in 1 .. n /\ m + 1 <= j
      BY <1>1, <1>3
    <3>2. env.ksyms[m + 1] <= env.ksyms[j]
      BY <1>3, <1>4, <3>1
    <3> QED BY <1>3, <1>4, <1>6, <3>1, <3>2
  <2>5. SearchInv(s, a)
    <3>1. /\ search.last = search.l /\ \A j \in 1 .. search.l : env.ksyms[j] <= a
      BY DEF SearchInv
    <3> QED BY <1>1, <1>2, <2>3, <2>4, <3>1 DEF SearchInv
  <2>6. s \in [frame : Nat, l : 0 .. n, r : -1 .. (n - 1), last : 0 .. n]
    BY <1>1, <1>3, <2>2
  <2> QED BY <2>1, <2>3, <2>5, <2>6
<1> QED BY <1>5, <1>6

(* A search begins: nothing is known of any symbol. *)
LEMMA StartRight ==
  ASSUME env \in Envs, NEW frame \in Nat, NEW a
  PROVE  /\ StartSearch(frame) \in [frame : Nat, l : 0 .. Len(env.ksyms),
                                    r : -1 .. (Len(env.ksyms) - 1), last : 0 .. Len(env.ksyms)]
         /\ StartSearch(frame).frame = frame
         /\ SearchInv(StartSearch(frame), a)
<1>1. Len(env.ksyms) \in Nat
  BY EnvTyped
<1>2. /\ \A j \in 1 .. 0 : FALSE
      /\ \A j \in ((Len(env.ksyms) - 1) + 2) .. Len(env.ksyms) : FALSE
  BY <1>1
<1>3. StartSearch(frame) = [frame |-> frame, l |-> 0, r |-> Len(env.ksyms) - 1, last |-> 0]
  BY DEF StartSearch
<1> QED BY <1>1, <1>2, <1>3 DEF SearchInv

(* A search ends: nothing was found, or the last symbol at or before a. *)
LEMMA FoundRight ==
  ASSUME env \in Envs, IndexInv, NEW a \in Nat, SearchInv(search, a), search.l > search.r
  PROVE  /\ search.last = 0 => ~Known(a)
         /\ search.last # 0 => /\ env.ksyms[search.last] \in Nat
                               /\ LastBefore(env.ksyms[search.last], a)
<1> DEFINE n == Len(env.ksyms)
<1>1. /\ search.l \in 0 .. n /\ search.r \in -1 .. (n - 1) /\ n \in Nat
      /\ search.last = search.l /\ search.r + 1 = search.l
      /\ DOMAIN env.ksyms = 1 .. n
  BY EnvTyped DEF IndexInv, SearchInv
<1>2. /\ \A i \in 1 .. n : env.ksyms[i] \in Nat
      /\ \A i, j \in 1 .. n : i <= j => env.ksyms[i] <= env.ksyms[j]
  BY EnvTyped, SMTT(30)
<1>3. ASSUME NEW j \in 1 .. n, env.ksyms[j] <= a PROVE j <= search.l
  <2>1. j > search.l => j \in (search.r + 2) .. n
    BY <1>1
  <2>2. j > search.l => a < env.ksyms[j]
    BY <2>1 DEF SearchInv
  <2> QED BY <1>1, <1>2, <1>3, <2>2
<1>4. search.last = 0 => ~Known(a)
  BY <1>1, <1>3 DEF Known
<1>5. ASSUME search.last # 0
      PROVE  /\ env.ksyms[search.last] \in Nat
             /\ LastBefore(env.ksyms[search.last], a)
  <2>1. search.last \in 1 .. n /\ search.last \in 1 .. search.l
    BY <1>1, <1>5
  <2>2. env.ksyms[search.last] <= a
    BY <2>1 DEF SearchInv
  <2>3. \A j \in 1 .. n : env.ksyms[j] <= a => env.ksyms[j] <= env.ksyms[search.last]
    BY <1>1, <1>2, <1>3, <2>1
  <2> QED BY <1>1, <1>2, <2>1, <2>2, <2>3 DEF LastBefore
<1> QED BY <1>4, <1>5

LEMMA TraceInit == Init => TraceInv
<1> SUFFICES ASSUME Init PROVE TraceInv
  OBVIOUS
<1>1. /\ env \in Envs /\ mode = "run" /\ printed = <<>> /\ cause = NoCause
      /\ search = [frame |-> 0, l |-> 0, r |-> -1, last |-> 0]
  BY DEF Init
<1>2. Len(env.ksyms) \in Nat
  BY <1>1, EnvTyped
<1>3. IndexInv
  BY <1>1, <1>2 DEF IndexInv
<1>4. printed \in Seq(Nat \X Nat) /\ \A i \in 1 .. Len(printed) : FALSE
  BY <1>1
<1>5. PrintedInv
  BY <1>1, <1>4 DEF PrintedInv
<1> QED BY <1>1, <1>3, <1>5 DEF TraceInv, ModeInv, TraceRight

(* A step outside of the trace. *)
LEMMA TraceStay ==
  ASSUME TraceInv, UNCHANGED <<env, search, printed>>,
         mode' \in {"run", "panic", "trace", "halted", "reset", "wild", "user"},
         \/ mode' = mode /\ cause' = cause
         \/ mode = "run" /\ mode' = "panic" /\ cause' = ByPanic
         \/ mode' \notin {"run", "panic", "trace"} /\ (mode' = "halted" => cause' # ByPanic)
  PROVE  TraceInv'
<1>1. ModeInv' /\ IndexInv'
  BY DEF TraceInv, ModeInv, IndexInv
<1>2. \A s, a : SearchInv(s, a)' <=> SearchInv(s, a)
  BY DEF SearchInv
<1>3. rip' = rip
  BY DEF rip
<1>4. \A v, a : LastBefore(v, a)' <=> LastBefore(v, a)
  BY DEF LastBefore
<1>5. PrintedInv'
  <2>1. /\ printed' \in Seq(Nat \X Nat)
        /\ \A i \in 1 .. Len(printed') :
             printed'[i][1] = env'.trace[i] /\ LastBefore(printed[i][2], env.trace[i])'
    BY DEF TraceInv, PrintedInv, LastBefore
  <2>2. /\ mode' \in {"run", "panic"} => printed' = <<>>
        /\ mode' \in {"panic", "trace"} => cause' = ByPanic
    BY DEF TraceInv, PrintedInv
  <2>3. mode' = "trace" => /\ search'.frame = Len(printed') + 1
                           /\ search'.frame \in DOMAIN env'.trace
                           /\ SearchInv(search, rip)'
    BY <1>3 DEF TraceInv, PrintedInv, SearchInv
  <2> QED BY <2>1, <2>2, <2>3 DEF PrintedInv
<1>6. TraceRight'
  <2>1. CASE mode' = mode /\ cause' = cause
    BY <2>1 DEF TraceInv, TraceRight, Known
  <2>2. CASE mode' # "halted" \/ cause' # ByPanic
    BY <2>2 DEF TraceRight
  <2> QED BY <2>1, <2>2
<1> QED BY <1>1, <1>5, <1>6 DEF TraceInv

(* What a frame's lines say stays true while the environment does. *)
LEMMA RowsKeep ==
  ASSUME TraceInv, env' = env, printed' = printed
  PROVE  /\ printed' \in Seq(Nat \X Nat)
         /\ \A i \in 1 .. Len(printed') :
              printed'[i][1] = env'.trace[i] /\ LastBefore(printed[i][2], env.trace[i])'
BY DEF TraceInv, PrintedInv, LastBefore

(* The next frame is looked up, or the machine halts behind the last. *)
LEMMA TraceFollow ==
  ASSUME env \in Envs, env' = env, NEW frame \in Nat, Follow(frame), IndexInv,
         frame = Len(printed') + 1, frame <= Len(env.trace) + 1,
         cause' = ByPanic,
         printed' \in Seq(Nat \X Nat),
         \A i \in 1 .. Len(printed') :
           printed'[i][1] = env'.trace[i] /\ LastBefore(printed'[i][2], env'.trace[i])
  PROVE  TraceInv'
<1>1. env.trace \in Seq(Nat) /\ DOMAIN env.trace = 1 .. Len(env.trace) /\ Len(env.trace) \in Nat
      /\ DOMAIN env.ksyms = 1 .. Len(env.ksyms)
  BY EnvTyped
<1>2. \A v, a : LastBefore(v, a) <=> /\ v <= a
                                     /\ \A j \in DOMAIN env'.ksyms :
                                          env'.ksyms[j] <= a => env'.ksyms[j] <= v
  BY DEF LastBefore
<1>3. \A i \in 1 .. Len(printed') :
        printed'[i][1] = env'.trace[i] /\ LastBefore(printed[i][2], env.trace[i])'
  BY DEF LastBefore
<1>4. CASE frame \in DOMAIN env.trace
  <2>1. mode' = "trace" /\ search' = StartSearch(frame)
    BY <1>4 DEF Follow
  <2>2. ModeInv'
    BY <2>1 DEF ModeInv
  <2>3. /\ StartSearch(frame) \in [frame : Nat, l : 0 .. Len(env.ksyms),
                                   r : -1 .. (Len(env.ksyms) - 1), last : 0 .. Len(env.ksyms)]
        /\ StartSearch(frame).frame = frame
        /\ SearchInv(StartSearch(frame), rip')
    BY StartRight
  <2>4. IndexInv'
    BY <2>1, <2>3 DEF IndexInv
  <2>5. SearchInv(search, rip)'
    BY <2>1, <2>3 DEF SearchInv
  <2>6. PrintedInv'
    BY <1>3, <1>4, <2>1, <2>3, <2>5 DEF PrintedInv
  <2>7. TraceRight'
    BY <2>1 DEF TraceRight
  <2> QED BY <2>2, <2>4, <2>6, <2>7 DEF TraceInv
<1>5. CASE frame \notin DOMAIN env.trace
  <2>1. mode' = "halted" /\ search' = search
    BY <1>5 DEF Follow, Halt
  <2>2. ModeInv' /\ IndexInv'
    BY <2>1 DEF ModeInv, IndexInv
  <2>3. PrintedInv'
    BY <1>3, <2>1 DEF PrintedInv
  <2>4. Len(printed') = Len(env.trace) /\ Len(printed') \in Nat
    BY <1>1, <1>5
  <2>5. DOMAIN printed' = 1 .. Len(printed')
    OBVIOUS
  <2>6. TraceRight'
    BY <1>3, <2>4, <2>5 DEF TraceRight, LastBefore
  <2> QED BY <2>2, <2>3, <2>6 DEF TraceInv
<1> QED BY <1>4, <1>5

LEMMA TraceEnter == ASSUME TraceInv, odb_enter PROVE TraceInv'
<1>1. /\ mode = "panic" /\ Follow(1) /\ UNCHANGED <<env, cause, printed>>
      /\ printed = <<>> /\ cause = ByPanic /\ env \in Envs /\ IndexInv
  BY DEF odb_enter, TraceInv, PrintedInv, ModeInv
<1>2. Len(env.trace) \in Nat
  BY <1>1, EnvTyped
<1>3. Len(printed') = 0 /\ printed' \in Seq(Nat \X Nat)
  BY <1>1
<1>4. \A i \in 1 .. Len(printed') : FALSE
  BY <1>3
<1> QED BY <1>1, <1>2, <1>3, <1>4, TraceFollow

LEMMA TraceHalve == ASSUME TraceInv, odb_addr_to_sym PROVE TraceInv'
<1>1. /\ mode = "trace" /\ search.l <= search.r /\ search' = Halve(search)
      /\ UNCHANGED <<env, mode, cause, printed>> /\ env \in Envs /\ IndexInv
      /\ search.frame = Len(printed) + 1 /\ search.frame \in DOMAIN env.trace
      /\ SearchInv(search, rip)
  BY DEF odb_addr_to_sym, TraceInv, PrintedInv, ModeInv
<1>2. rip \in Nat
  BY <1>1, EnvTyped DEF rip
<1>3. /\ search' \in [frame : Nat, l : 0 .. Len(env.ksyms),
                      r : -1 .. (Len(env.ksyms) - 1), last : 0 .. Len(env.ksyms)]
      /\ search'.frame = search.frame /\ SearchInv(search', rip)
  BY <1>1, <1>2, HalveRight
<1>4. IndexInv'
  BY <1>1, <1>3 DEF IndexInv
<1>5. rip' = rip
  BY <1>1, <1>3 DEF rip
<1>6. SearchInv(search, rip)'
  BY <1>1, <1>3, <1>5 DEF SearchInv
<1>7. PrintedInv'
  <2>1. mode' = "trace" /\ cause' = ByPanic
    BY <1>1 DEF TraceInv, PrintedInv
  <2>2. search'.frame = Len(printed') + 1 /\ search'.frame \in DOMAIN env'.trace
    BY <1>1, <1>3
  <2>3. /\ printed' \in Seq(Nat \X Nat)
        /\ \A i \in 1 .. Len(printed') :
             printed'[i][1] = env'.trace[i] /\ LastBefore(printed[i][2], env.trace[i])'
    BY <1>1, RowsKeep
  <2> QED BY <1>6, <2>1, <2>2, <2>3 DEF PrintedInv
<1> QED BY <1>1, <1>4, <1>7 DEF TraceInv, ModeInv, TraceRight

LEMMA TracePrint == ASSUME TraceInv, odb_stack_trace PROVE TraceInv'
<1>1. /\ mode = "trace" /\ search.l > search.r /\ UNCHANGED <<env, cause>>
      /\ env \in Envs /\ IndexInv /\ cause = ByPanic
      /\ search.frame = Len(printed) + 1 /\ search.frame \in DOMAIN env.trace
      /\ SearchInv(search, rip)
  BY DEF odb_stack_trace, TraceInv, PrintedInv, ModeInv
<1>2. /\ env.trace \in Seq(Nat) /\ Len(env.trace) \in Nat
      /\ rip \in Nat /\ rip = env.trace[Len(printed) + 1]
      /\ printed \in Seq(Nat \X Nat) /\ Len(printed) \in Nat
      /\ DOMAIN printed = 1 .. Len(printed)
      /\ Len(printed) + 1 <= Len(env.trace)
  <2>1. env.trace \in Seq(Nat)
    BY <1>1, EnvTyped
  <2>2. printed \in Seq(Nat \X Nat)
    BY DEF TraceInv, PrintedInv
  <2>3. search.frame \in 1 .. Len(env.trace) /\ env.trace[search.frame] \in Nat
    BY <1>1, <2>1
  <2> QED BY <1>1, <2>1, <2>2, <2>3 DEF rip
<1>3. \A i \in 1 .. Len(printed) :
        printed[i][1] = env.trace[i] /\ LastBefore(printed[i][2], env.trace[i])
  BY DEF TraceInv, PrintedInv
<1>4. CASE search.last = 0
  <2>1. mode' = "halted" /\ UNCHANGED <<search, printed>>
    BY <1>4 DEF odb_stack_trace, Halt
  <2>2. ~Known(rip)
    BY <1>1, <1>2, <1>4, FoundRight
  <2>3. ModeInv' /\ IndexInv'
    BY <1>1, <2>1 DEF ModeInv, IndexInv
  <2>4. PrintedInv'
    BY <1>1, <2>1, RowsKeep DEF PrintedInv
  <2>5. TraceRight'
    BY <1>1, <1>2, <1>3, <2>1, <2>2 DEF TraceRight, LastBefore, Known
  <2> QED BY <2>3, <2>4, <2>5 DEF TraceInv
<1>5. CASE search.last # 0
  <2> DEFINE v == env.ksyms[search.last]
  <2>1. printed' = Append(printed, <<rip, v>>) /\ Follow(search.frame + 1)
    BY <1>5 DEF odb_stack_trace
  <2>2. v \in Nat /\ LastBefore(v, rip)
    BY <1>1, <1>2, <1>5, FoundRight
  <2> HIDE DEF v
  <2>3. /\ printed' \in Seq(Nat \X Nat) /\ Len(printed') = Len(printed) + 1
        /\ printed'[Len(printed) + 1] = <<rip, v>>
        /\ \A i \in 1 .. Len(printed) : printed'[i] = printed[i]
    BY <1>2, <2>1, <2>2
  <2>4. ASSUME NEW i \in 1 .. Len(printed')
        PROVE  printed'[i][1] = env.trace[i] /\ LastBefore(printed'[i][2], env.trace[i])
    <3>1. CASE i = Len(printed) + 1
      BY <1>2, <2>2, <2>3, <3>1
    <3>2. CASE i # Len(printed) + 1
      <4>1. i \in 1 .. Len(printed)
        BY <1>2, <2>3, <3>2
      <4> QED BY <1>3, <2>3, <4>1
    <3> QED BY <3>1, <3>2
  <2>5. search.frame + 1 \in Nat /\ search.frame + 1 <= Len(env.trace) + 1
    BY <1>1, <1>2
  <2> QED BY <1>1, <1>2, <2>1, <2>3, <2>4, <2>5, TraceFollow
<1> QED BY <1>4, <1>5

(* A step of x64_main, or an interrupt, leaves the trace alone. *)
LEMMA TraceOutside ==
  ASSUME TraceInv, x64_main \/ \E line \in Lines : Raise(line) \/ Interrupt(line)
  PROVE  TraceInv'
<1>1. mode \in {"run", "panic", "trace", "halted", "reset", "wild", "user"}
  BY DEF TraceInv, ModeInv
<1>2. NP # ByPanic /\ GP # ByPanic /\ PF # ByPanic
  BY DEF NP, GP, PF, ByPanic
<1>3. ASSUME NEW v \in {NP, GP, PF}, Exception(v) PROVE TraceInv'
  <2>1. /\ mode' \in {"reset", "wild", "halted"} /\ cause' = v
        /\ UNCHANGED <<env, search, printed>>
    BY <1>3 DEF Exception, odb
  <2> QED BY <1>2, <2>1, TraceStay
<1>4. ASSUME Wild PROVE TraceInv'
  BY <1>4, TraceStay DEF Wild, odb
<1>5. ASSUME NEW f, Return(f) PROVE TraceInv'
  BY <1>1, <1>5, TraceStay DEF Return, odb
<1>6. ASSUME mode = "run", Panic PROVE TraceInv'
  BY <1>6, TraceStay DEF Panic, odb
<1>7. CASE gdt_init
  BY <1>5, <1>7 DEF gdt_init
<1>8. CASE tss_init
  BY <1>3, <1>5, <1>8 DEF tss_init
<1>9. CASE liminefb_init
  BY <1>3, <1>5, <1>9 DEF liminefb_init
<1>10. CASE trap_init
  BY <1>4, <1>5, <1>10 DEF trap_init
<1>11. CASE cli
  BY <1>5, <1>11 DEF cli
<1>12. ASSUME NEW f \in Plain, Initialise(f) PROVE TraceInv'
  BY <1>3, <1>4, <1>5, <1>6, <1>12 DEF Initialise, Call
<1>13. CASE switch_to_user
  <2>1. ASSUME mode' = "user", UNCHANGED <<env, search, printed>> PROVE TraceInv'
    BY <2>1, TraceStay
  <2> QED BY <1>3, <1>13, <2>1 DEF switch_to_user, Iretq, odb
<1>14. ASSUME NEW line \in Lines, Raise(line) PROVE TraceInv'
  BY <1>1, <1>14, TraceStay DEF Raise, odb
<1>15. ASSUME NEW line \in Lines, Interrupt(line) PROVE TraceInv'
  <2>1. ASSUME UNCHANGED <<env, mode, cause, search, printed>> PROVE TraceInv'
    BY <1>1, <2>1, TraceStay
  <2> QED BY <1>3, <1>4, <1>15, <2>1 DEF Interrupt, odb
<1> QED BY <1>7, <1>8, <1>9, <1>10, <1>11, <1>12, <1>13, <1>14, <1>15 DEF x64_main

LEMMA TraceStep == TraceInv /\ [Next]_vars => TraceInv'
<1> SUFFICES ASSUME TraceInv, [Next]_vars PROVE TraceInv'
  OBVIOUS
<1>1. CASE UNCHANGED vars
  <2>1. UNCHANGED <<env, mode, cause, search, printed>>
    BY <1>1 DEF vars
  <2>2. mode \in {"run", "panic", "trace", "halted", "reset", "wild", "user"}
    BY DEF TraceInv, ModeInv
  <2> QED BY <2>1, <2>2, TraceStay
<1> QED BY <1>1, TraceEnter, TraceHalve, TracePrint, TraceOutside DEF Next, Cpu

LEMMA TraceInvariance == Spec => []TraceInv
BY TraceInit, TraceStep, PTL DEF Spec

(* Whatever the table of symbols and the chain of return addresses, the    *)
(* stack trace of a panic names for each frame the last symbol that does   *)
(* not begin behind its address, and ends only with the chain or at an     *)
(* address below every symbol: the binary search is right.                 *)
THEOREM TraceCorrect == Spec => []TraceRight
<1>1. TraceInv => TraceRight
  BY DEF TraceInv
<1> QED BY <1>1, TraceInvariance, PTL

(* x64_main never runs past its last call, and the indices of the symbol   *)
(* search stay in the table, an empty one included.                        *)
THEOREM TypeCorrect == Spec => []TypeOK
<1>1. StopInv /\ TraceInv => TypeOK
  BY OrderDomain DEF StopInv, TraceInv, ModeInv, ProgressInv, InterruptInv, IndexInv, TypeOK
<1> QED BY <1>1, StopInvariance, TraceInvariance, PTL
=============================================================================
