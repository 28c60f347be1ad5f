-------------------------------- MODULE Boot --------------------------------
(***************************************************************************)
(* The kernel from its first instruction to user mode: x64_main, the       *)
(* descriptor tables it loads, the interrupts that arrive meanwhile, and   *)
(* the ways it stops, an exception or panic with its stack trace.          *)
(*                                                                         *)
(* A part is named by its initialisation function and is up once that has  *)
(* returned.  What the functions do inside is in the other modules; here   *)
(* they use parts, and may find that the boot loader or the memory does    *)
(* not give them what they ask for.  A handler runs with interrupts off    *)
(* and is one step.                                                        *)
(***************************************************************************)
EXTENDS Integers, FiniteSets, Sequences

CONSTANTS Panickers,  \* functions that may find a reason to panic
          Lines,      \* the interrupt lines of the PIC that may be raised
          Symbols,    \* the tables ksyms can be, as sequences of addresses
          Traces      \* the chains of return addresses a panic may find

Timer == 0
Keyboard == 1

ASSUME BootAssumption ==
  /\ Panickers \subseteq {"pmm_init", "vmm_init", "heap_init", "module_init", "devfs_init"}
  /\ {Timer, Keyboard} \subseteq Lines /\ Lines \subseteq 0 .. 15
  /\ Symbols \subseteq Seq(Nat) /\ Traces \subseteq Seq(Nat)
  /\ \A k \in Symbols : \A i, j \in DOMAIN k : i <= j => k[i] <= k[j]

VARIABLES env,      \* what the machine and the boot loader provide
          mode,     \* what the CPU is doing
          at,       \* the call of x64_main it has come to
          up,       \* the functions that have returned
          gdt, idt, \* descriptors and gates, once they are loaded
          iflag,    \* the interrupt flag
          pending,  \* lines raised and not served yet
          cause,    \* why the machine stopped
          search,   \* odb_addr_to_sym, inside the loop of odb_stack_trace
          printed   \* the addresses and symbols of the trace

vars == <<env, mode, at, up, gdt, idt, iflag, pending, cause, search, printed>>
tables == <<gdt, idt>>
odb == <<search, printed>>

Running == mode \in {"run", "panic"}

(* Mutant: atkbd_init in front of proc_init. *)
OrderMutant ==
  <<"gdt_init", "tss_init", "liminefb_init", "trap_init", "cli", "pmm_init",
    "vmm_init", "heap_init", "atkbd_buffer", "atkbd_leds", "proc_init", "sti",
    "module_init", "devfs_init", "random_init", "vfs_write", "switch_to_user",
    "mi_startup">>

(* x64_main; atkbd_init is two of its steps, because atkbd_clear_buffer    *)
(* enables interrupts half way through it.                                 *)
Order ==
  <<"gdt_init", "tss_init", "liminefb_init", "trap_init", "cli", "pmm_init",
    "vmm_init", "heap_init", "proc_init", "atkbd_buffer", "atkbd_leds", "sti",
    "module_init", "devfs_init", "random_init", "vfs_write", "switch_to_user",
    "mi_startup">>

(* The parts a function calls into or whose data it reads. *)
Uses(f) ==
  CASE f = "trap_init" -> {"liminefb_init"}
    [] f = "vmm_init" -> {"pmm_init"}
    [] f = "heap_init" -> {"pmm_init", "vmm_init"}
    [] f \in {"atkbd_buffer", "devfs_init"} -> {"heap_init"}
    [] f = "module_init" -> {"heap_init", "liminefb_init"}
    [] f = "vfs_write" -> {"devfs_init", "liminefb_init"}
    [] OTHER -> {}

(* What irq_handler_c calls for the line: schedule, or atkbd_irq. *)
Handler(line) == IF line = Timer THEN {"proc_init"} ELSE {"atkbd_buffer", "heap_init"}

-----------------------------------------------------------------------------
(* Stopping                                                                *)

NP == 11
GP == 13
PF == 14
NoCause == 256  \* behind the vectors
ByPanic == 257

(* An exception: without its gate the CPU ends up in a triple fault;       *)
(* isr_handler_c prints, which needs the console, and halts for good.      *)
Exception(v) ==
  /\ mode' = CASE v \notin idt -> "reset"
               [] v \in idt /\ "liminefb_init" \notin up -> "wild"
               [] OTHER -> "halted"
  /\ cause' = v
  /\ iflag' = FALSE
  /\ UNCHANGED <<env, at, up, tables, pending, odb>>

(* A part is used that is not up, or a NULL response is read where page 0  *)
(* is mapped: nothing is known from here on.                               *)
Wild == /\ mode' = "wild"
        /\ UNCHANGED <<env, at, up, tables, iflag, pending, cause, odb>>

-----------------------------------------------------------------------------
(* The descriptor tables                                                   *)

Code(dpl) == [kind |-> "code", dpl |-> dpl]
Data(dpl) == [kind |-> "data", dpl |-> dpl]
Tss == [kind |-> "tss", dpl |-> 0]
None == [kind |-> "none", dpl |-> 0]

(* gdt_init: the descriptor of the TSS takes two entries. *)
Gdt == [i \in 0 .. 6 |-> CASE i = 1 -> Code(0) [] i = 2 -> Data(0) [] i = 3 -> Tss
                           [] i = 5 -> Code(3) [] i = 6 -> Data(3) [] OTHER -> None]

(* The gates trap_init fills. *)
Gates == 0 .. 18 \cup {32, 33}

(* What a selector selects; there is no local table. *)
Descriptor(sel) ==
  IF (sel \div 4) % 2 = 0 /\ sel \div 8 \in DOMAIN gdt THEN gdt[sel \div 8] ELSE None

-----------------------------------------------------------------------------
(* x64_main                                                                *)

Call(f) == mode = "run" /\ Order[at] = f
Ready(f) == Uses(f) \subseteq up

Return(f) == /\ at' = at + 1 /\ up' = up \cup {f}
             /\ UNCHANGED <<env, mode, pending, cause, odb>>

gdt_init ==
  /\ Call("gdt_init")
  /\ gdt' = Gdt
  /\ Return("gdt_init") /\ UNCHANGED <<idt, iflag>>

(* ltr of selector 0x18. *)
tss_init ==
  /\ Call("tss_init")
  /\ IF Descriptor(24).kind = "tss"
     THEN Return("tss_init") /\ UNCHANGED <<tables, iflag>>
     ELSE Exception(GP)

(* The response is used without a look; the boot loader maps no page 0. *)
liminefb_init ==
  /\ Call("liminefb_init")
  /\ \/ env.framebuffer /\ Return("liminefb_init") /\ UNCHANGED <<tables, iflag>>
     \/ ~env.framebuffer /\ Exception(PF)

(* The gates, all lines of the PIC unmasked, and lidt. *)
trap_init ==
  /\ Call("trap_init")
  /\ IF Ready("trap_init")
     THEN idt' = Gates /\ Return("trap_init") /\ UNCHANGED <<gdt, iflag>>
     ELSE Wild

cli == /\ Call("cli")
       /\ iflag' = FALSE
       /\ Return("cli") /\ UNCHANGED tables

(* panic reads the registers before it turns interrupts off. *)
Panic == /\ mode' = "panic" /\ cause' = ByPanic
         /\ UNCHANGED <<env, at, up, tables, iflag, pending, odb>>

(* The other functions return, or panic if they do not get what they ask   *)
(* for; module_init reads its response without looking whether there is    *)
(* one.  atkbd_clear_buffer leaves interrupts enabled.                     *)
Initialise(f) ==
  /\ Call(f)
  /\ IF ~Ready(f) THEN Wild
     ELSE IF f \in env.refused THEN Panic
     ELSE IF f = "module_init" /\ ~env.modules THEN Exception(PF) \/ Wild
     ELSE /\ iflag' = (iflag \/ f \in {"atkbd_buffer", "sti"})
          /\ Return(f) /\ UNCHANGED tables

(* What switch_to_user has pushed when it executes iretq, the top first,   *)
(* above its own return address.                                           *)
Frame(rflags) == <<43, rflags, "USER_STACK_TOP", 51, "return address">>

(* iretq takes rip, cs, rflags, rsp and ss from the stack. *)
Iretq(stack) ==
  IF Descriptor(stack[2]) = Code(3)
  THEN /\ mode' = "user"
       /\ UNCHANGED <<env, at, up, tables, iflag, pending, cause, odb>>
  ELSE Exception(GP)

(* The saved flags have bit 1 and IF, and the arithmetic flags of before. *)
switch_to_user ==
  /\ Call("switch_to_user")
  /\ IF Descriptor(51).kind # "data" THEN Exception(GP)
     ELSE \E arithmetic \in {0, 4, 68, 128} : Iretq(Frame(514 + arithmetic))

-----------------------------------------------------------------------------
(* Interrupts                                                              *)

(* A device raises its line; trap_init has left none of them masked. *)
Raise(line) ==
  /\ Running
  /\ line > Keyboard => env.stray
  /\ pending' = pending \cup {line}
  /\ UNCHANGED <<env, mode, at, up, tables, iflag, cause, odb>>

(* irq_handler_c for the two lines that have a gate.  A line without one   *)
(* is a fault, so the handler's own default case is never reached.         *)
Interrupt(line) ==
  /\ Running /\ iflag /\ line \in pending /\ "trap_init" \in up
  /\ IF 32 + line \notin idt THEN Exception(NP)
     ELSE IF ~(Handler(line) \subseteq up) THEN Wild
     ELSE /\ pending' = pending \ {line}
          /\ UNCHANGED <<env, mode, at, up, tables, iflag, cause, odb>>

-----------------------------------------------------------------------------
(* panic and odb_stack_trace                                               *)

rip == env.trace[search.frame]

(* Mutant: r starts at ksyms_count. *)
StartSearchMutant(frame) == [frame |-> frame, l |-> 0, r |-> Len(env.ksyms), last |-> 0]

(* odb_addr_to_sym is called for a frame; last is an index, 0 for NULL. *)
StartSearch(frame) == [frame |-> frame, l |-> 0, r |-> Len(env.ksyms) - 1, last |-> 0]

Halt == mode' = "halted" /\ UNCHANGED search

(* The next frame, unless the chain ends. *)
Follow(frame) ==
  IF frame \in DOMAIN env.trace THEN mode' = "trace" /\ search' = StartSearch(frame) ELSE Halt

odb_enter ==
  /\ mode = "panic"
  /\ iflag' = FALSE
  /\ Follow(1)
  /\ UNCHANGED <<env, at, up, tables, pending, cause, printed>>

(* Mutant: l = m. *)
HalveMutant(s) ==
  LET m == (s.l + s.r) \div 2
  IN  IF rip >= env.ksyms[m + 1] THEN [s EXCEPT !.last = m + 1, !.l = m]
                                 ELSE [s EXCEPT !.r = m - 1]

(* Mutant: rip > ksyms[m].addr. *)
HalveMutant2(s) ==
  LET m == (s.l + s.r) \div 2
  IN  IF rip > env.ksyms[m + 1] THEN [s EXCEPT !.last = m + 1, !.l = m + 1]
                                ELSE [s EXCEPT !.r = m - 1]

(* One turn of odb_addr_to_sym's loop. *)
Halve(s) ==
  LET m == (s.l + s.r) \div 2
  IN  IF rip >= env.ksyms[m + 1] THEN [s EXCEPT !.last = m + 1, !.l = m + 1]
                                 ELSE [s EXCEPT !.r = m - 1]

odb_addr_to_sym ==
  /\ mode = "trace" /\ search.l <= search.r
  /\ search' = Halve(search)
  /\ UNCHANGED <<env, mode, at, up, tables, iflag, pending, cause, printed>>

(* One turn of odb_stack_trace's loop: an address below every symbol ends  *)
(* the trace.                                                              *)
odb_stack_trace ==
  /\ mode = "trace" /\ search.l > search.r
  /\ IF search.last = 0 THEN Halt /\ UNCHANGED printed
     ELSE /\ printed' = Append(printed, <<rip, env.ksyms[search.last]>>)
          /\ Follow(search.frame + 1)
  /\ UNCHANGED <<env, at, up, tables, iflag, pending, cause>>

-----------------------------------------------------------------------------
Envs == [framebuffer : BOOLEAN, modules : BOOLEAN, refused : {{}} \cup {{f} : f \in Panickers},
         stray : BOOLEAN, ksyms : Symbols, trace : Traces]

(* The boot loader enters with interrupts off. *)
Init ==
  /\ env \in Envs
  /\ mode = "run" /\ at = 1 /\ up = {}
  /\ gdt = [i \in {} |-> None] /\ idt = {}
  /\ iflag = FALSE /\ pending = {} /\ cause = NoCause
  /\ search = [frame |-> 0, l |-> 0, r |-> -1, last |-> 0] /\ printed = <<>>

Plain == {"pmm_init", "vmm_init", "heap_init", "proc_init", "atkbd_buffer", "atkbd_leds",
          "sti", "module_init", "devfs_init", "random_init", "vfs_write"}

x64_main == \/ gdt_init \/ tss_init \/ liminefb_init \/ trap_init \/ cli
            \/ \E f \in Plain : Initialise(f)
            \/ switch_to_user

Cpu == x64_main \/ odb_enter \/ odb_addr_to_sym \/ odb_stack_trace

Next == Cpu \/ \E line \in Lines : Raise(line) \/ Interrupt(line)

Spec == Init /\ [][Next]_vars

(* Interrupts leave x64_main and panic time to go on. *)
FairSpec == Spec /\ WF_vars(Cpu)

-----------------------------------------------------------------------------
(* Properties                                                              *)

(* x64_main never runs past its last call, and the indices of the symbol   *)
(* search stay in the table, an empty one included.                        *)
TypeOK ==
  /\ mode \in {"run", "panic", "trace", "halted", "reset", "wild", "user"}
  /\ at \in DOMAIN Order
  /\ pending \subseteq Lines /\ iflag \in BOOLEAN
  /\ search.l \in 0 .. Len(env.ksyms) /\ search.r \in -1 .. (Len(env.ksyms) - 1)
  /\ search.last \in 0 .. Len(env.ksyms)

(* Whenever the interrupts come, no part is used before it is up, and the  *)
(* machine stops only for a reason outside of the kernel, a message on the *)
(* screen: a panic about what was refused, an interrupt line nobody        *)
(* expects, or a response that is read without a look (and then without a  *)
(* message, if it is the screen's) - and at the door of user mode.         *)
StopsExplained ==
  /\ mode = "reset" => ~env.framebuffer
  /\ mode = "wild" => ~env.modules
  /\ mode = "halted" =>
       /\ "liminefb_init" \in up
       /\ \/ cause = ByPanic /\ Order[at] \in env.refused
          \/ cause = NP /\ env.stray
          \/ cause = PF /\ ~env.modules
          \/ cause = GP /\ Order[at] = "switch_to_user"

Known(a) == \E i \in DOMAIN env.ksyms : env.ksyms[i] <= a

(* A stack trace has a line for each frame up to the first that is below   *)
(* every symbol, and each names the function the address is in: the last   *)
(* symbol that does not begin behind it.                                   *)
TraceRight ==
  mode = "halted" /\ cause = ByPanic =>
    /\ \A i \in DOMAIN printed :
         /\ printed[i][1] = env.trace[i] /\ printed[i][2] <= env.trace[i]
         /\ \A j \in DOMAIN env.ksyms :
              env.ksyms[j] <= env.trace[i] => env.ksyms[j] <= printed[i][2]
    /\ Len(printed) < Len(env.trace) => ~Known(env.trace[Len(printed) + 1])

(* Boot ends: the machine has stopped, runs user code, or has come to      *)
(* mi_startup; no panic hangs in its own stack trace.                      *)
BootEnds == <>[](mode \in {"halted", "reset", "wild", "user"} \/ Order[at] = "mi_startup")
=============================================================================
