-------------------------------- MODULE Kbd ---------------------------------
(***************************************************************************)
(* The AT keyboard driver, sys/dev/atkbd/atkbd.c: the interrupt handler    *)
(* that decodes key codes into a buffer, the readers that take characters  *)
(* out of it, and the dialogue with the keyboard about its LEDs.           *)
(*                                                                         *)
(* The handler runs with interrupts off until its last character is in the *)
(* buffer and is one step.  A reader runs in a process: an interrupt, or   *)
(* another reader, may come between any two of its accesses to the shared  *)
(* indices.                                                                *)
(*                                                                         *)
(* A key is a model value; wire holds the codes the keyboard has sent, and *)
(* an acknowledgement that came after the driver gave up waiting.  The     *)
(* driver tells the right control and alt keys from the left ones only by  *)
(* a prefix, 0xE0, which it handles as the release of a key that does not  *)
(* exist; it changes nothing and is left off the wire.  So are the shift   *)
(* codes a keyboard puts around its print-screen and cursor keys.          *)
(***************************************************************************)
EXTENDS Integers, FiniteSets, SequencesExt

CONSTANTS CHUNK,       \* 4096: bytes of the buffer, and where buffer_start wraps
          Letters,     \* keys that stand for a character
          LShift, RShift, LCtrl, RCtrl, LAlt, RAlt, Caps,
          Readers,     \* processes that call atkbd_get_char
          MaxPresses,  \* bound: keys pressed
          MaxWire,     \* bound: codes the keyboard stores
          MaxReads     \* bound: characters the readers ask for

ShiftKeys == {LShift, RShift}
CtrlKeys == {LCtrl, RCtrl}
AltKeys == {LAlt, RAlt}
Modifiers == {ShiftKeys, CtrlKeys, AltKeys}

Keys == Letters \cup {Caps} \cup UNION Modifiers

ASSUME KbdAssumption ==
  /\ CHUNK \in Nat \ {0}
  /\ Caps \notin UNION Modifiers /\ "ACK" \notin Keys
  /\ MaxPresses \in Nat /\ MaxWire \in Nat /\ MaxReads \in Nat

VARIABLES phase,        \* "boot", "leds" (interrupts are on), "run", "overrun"
          wire,
          down,         \* the keys that are held down
          presses,
          swallowed,    \* the modifiers of which the driver dropped a code, and
                        \* whose keys have sent none since
          mods,         \* shift_down, ctrl_down, alt_down, caps_lock
          key_buffer, buffer_start, buffer_end, buffer_allocs,
          put, got,     \* characters buffered, and returned, in order
          reader        \* where each reader is, and the character it has

kbdVars == <<wire, down, presses, swallowed, mods>>
bufVars == <<key_buffer, buffer_start, buffer_end, buffer_allocs, put>>
readVars == <<got, reader>>
vars == <<phase, kbdVars, bufVars, readVars>>

Codes == [key : Keys, make : BOOLEAN]
Ack == [key |-> "ACK", make |-> FALSE]

Chars == Letters \X {"lower", "higher", "control"}
Nul == <<"NUL">>

-----------------------------------------------------------------------------
(* The buffer                                                              *)

Ring == [data |-> key_buffer, end |-> buffer_end, allocs |-> buffer_allocs,
         put |-> put, ok |-> TRUE]

(* A full buffer grows and drops the character.  A write behind the end of *)
(* the block leaves the heap undefined.                                    *)
atkbd_add_buffer(ch) ==
  IF buffer_end + 1 = buffer_start
  THEN [Ring EXCEPT !.allocs = @ + 1,
                    !.data = [i \in 0 .. (CHUNK * (buffer_allocs + 1) - 1) |->
                                IF i \in DOMAIN key_buffer THEN key_buffer[i] ELSE Nul]]
  ELSE IF buffer_end \notin DOMAIN key_buffer THEN [Ring EXCEPT !.ok = FALSE]
  ELSE [Ring EXCEPT !.data[buffer_end] = ch, !.end = @ + 1, !.put = Append(@, ch)]

atkbd_clear_buffer ==
  /\ buffer_start' = 0 /\ buffer_end' = 0 /\ buffer_allocs' = 1
  /\ key_buffer' = [i \in 0 .. (CHUNK - 1) |-> Nul]

-----------------------------------------------------------------------------
(* Decoding                                                                *)

atkbd_decode(m, k) ==
  IF k \notin Letters THEN Nul
  ELSE <<k, IF m.ctrl THEN "control"
            ELSE IF m.shift \/ m.caps THEN "higher" ELSE "lower">>

atkbd_process_extended(m, k) ==
  [m EXCEPT !.shift = @ \/ k \in ShiftKeys,
            !.ctrl = @ \/ k \in CtrlKeys, !.alt = @ \/ k \in AltKeys]

(* Mutant: the control key's release is not handled. *)
atkbd_handle_breakMutant(m, k) ==
  [m EXCEPT !.shift = @ /\ k \notin ShiftKeys, !.alt = @ /\ k \notin AltKeys]

atkbd_handle_break(m, k) ==
  [m EXCEPT !.shift = @ /\ k \notin ShiftKeys,
            !.ctrl = @ /\ k \notin CtrlKeys, !.alt = @ /\ k \notin AltKeys]

-----------------------------------------------------------------------------
(* The LEDs                                                                *)

(* atkbd_set_led polls until the keyboard acknowledges.  Codes that come   *)
(* before the acknowledgement are read and dropped; if the poll times out  *)
(* the acknowledgement is still to come.  When the keyboard answers, among *)
(* the codes it has stored, is its own affair.                             *)
atkbd_set_led(w) ==
  \E n \in 0 .. Len(w), late \in BOOLEAN :
    /\ wire' = SubSeq(w, n + 1, Len(w)) \o IF late THEN <<Ack>> ELSE <<>>
    /\ swallowed' = swallowed \cup {K \in Modifiers : \E i \in 1 .. n : w[i].key \in K}

-----------------------------------------------------------------------------
(* atkbd_irq                                                               *)

InterruptsOn == phase \in {"leds", "run"}

IrqCaps ==
  /\ InterruptsOn /\ wire # <<>>
  /\ Head(wire) = [key |-> Caps, make |-> TRUE]
  /\ mods' = [mods EXCEPT !.caps = ~@]
  /\ atkbd_set_led(Tail(wire))
  /\ UNCHANGED <<phase, down, presses, bufVars, readVars>>

(* A late acknowledgement is above 128, the release of a key that does not *)
(* exist.                                                                  *)
IrqBreak ==
  /\ InterruptsOn /\ wire # <<>>
  /\ ~Head(wire).make
  /\ mods' = atkbd_handle_break(mods, Head(wire).key)
  /\ wire' = Tail(wire)
  /\ UNCHANGED <<phase, down, presses, swallowed, bufVars, readVars>>

IrqMake ==
  /\ InterruptsOn /\ wire # <<>>
  /\ Head(wire).make /\ Head(wire).key # Caps
  /\ LET m == atkbd_process_extended(mods, Head(wire).key)
         ch == atkbd_decode(m, Head(wire).key)
         r == IF ch = Nul THEN Ring ELSE atkbd_add_buffer(ch)
     IN  /\ mods' = m
         /\ key_buffer' = r.data /\ buffer_end' = r.end
         /\ buffer_allocs' = r.allocs /\ put' = r.put
         /\ phase' = IF r.ok THEN phase ELSE "overrun"
  /\ wire' = Tail(wire)
  /\ UNCHANGED <<down, presses, swallowed, buffer_start, readVars>>

atkbd_irq == IrqCaps \/ IrqBreak \/ IrqMake

-----------------------------------------------------------------------------
(* atkbd_init                                                              *)

(* atkbd_clear_buffer ends with sti: from here on keys may come. *)
InitBuffer ==
  /\ phase = "boot"
  /\ phase' = "leds"
  /\ atkbd_clear_buffer
  /\ UNCHANGED <<kbdVars, put, readVars>>

InitLeds ==
  /\ phase = "leds"
  /\ phase' = "run"
  /\ atkbd_set_led(wire)
  /\ UNCHANGED <<down, presses, mods, bufVars, readVars>>

-----------------------------------------------------------------------------
(* atkbd_get_char, called over and over by atkbd_read                      *)

(* Mutants: the reader does not wait for a character; it leaves the last   *)
(* one in the buffer.                                                      *)
NonEmptyMutant == TRUE
NonEmptyMutant2 == buffer_start + 1 < buffer_end

NonEmpty == buffer_start # buffer_end

Poll(p) ==
  /\ phase = "run" /\ reader[p].at = "poll"
  /\ Len(got) < MaxReads
  /\ NonEmpty
  /\ reader' = [reader EXCEPT ![p].at = "take"]
  /\ UNCHANGED <<phase, kbdVars, bufVars, got>>

(* Mutant: off by one. *)
TakenMutant == key_buffer[(buffer_start + 1) % CHUNK]

Taken == key_buffer[buffer_start]

Take(p) ==
  /\ phase = "run" /\ reader[p].at = "take"
  /\ reader' = [reader EXCEPT ![p] = [at |-> "advance", ch |-> Taken]]
  /\ UNCHANGED <<phase, kbdVars, bufVars, got>>

(* Mutant: the index does not wrap. *)
AdvancedMutant == buffer_start + 1

Advanced == (buffer_start + 1) % CHUNK

Advance(p) ==
  /\ phase = "run" /\ reader[p].at = "advance"
  /\ buffer_start' = Advanced
  /\ got' = Append(got, reader[p].ch)
  /\ reader' = [reader EXCEPT ![p].at = "poll"]
  /\ UNCHANGED <<phase, kbdVars, key_buffer, buffer_end, buffer_allocs, put>>

-----------------------------------------------------------------------------
(* The user                                                                *)

(* A code of one of its keys makes up for what a modifier has lost. *)
SentOf(k) == swallowed' = swallowed \ {K \in Modifiers : k \in K}

(* A key that is held down is sent again: the keyboard repeats it. *)
Press(k) == /\ presses < MaxPresses /\ Len(wire) < MaxWire
            /\ presses' = presses + 1 /\ down' = down \cup {k}
            /\ wire' = Append(wire, [key |-> k, make |-> TRUE])
            /\ SentOf(k)
            /\ UNCHANGED <<phase, mods, bufVars, readVars>>

LetGo(k) == /\ Len(wire) < MaxWire
            /\ k \in down
            /\ down' = down \ {k}
            /\ wire' = Append(wire, [key |-> k, make |-> FALSE])
            /\ SentOf(k)
            /\ UNCHANGED <<phase, presses, mods, bufVars, readVars>>

Init == /\ phase = "boot"
        /\ wire = <<>> /\ down = {} /\ presses = 0 /\ swallowed = {}
        /\ mods = [shift |-> FALSE, ctrl |-> FALSE, alt |-> FALSE, caps |-> FALSE]
        /\ key_buffer = [i \in 0 .. (CHUNK - 1) |-> Nul]
        /\ buffer_start = 0 /\ buffer_end = 0 /\ buffer_allocs = 1
        /\ put = <<>> /\ got = <<>>
        /\ reader = [p \in Readers |-> [at |-> "poll", ch |-> Nul]]

Next == \/ InitBuffer \/ InitLeds
        \/ IrqCaps \/ IrqBreak \/ IrqMake
        \/ \E p \in Readers : Poll(p) \/ Take(p) \/ Advance(p)
        \/ \E k \in Keys : Press(k) \/ LetGo(k)

Spec == Init /\ [][Next]_vars

(* Interrupts are delivered, the boot goes on, and a process that reads is *)
(* scheduled.                                                              *)
FairSpec ==
  /\ Spec
  /\ WF_vars(InitBuffer \/ InitLeds) /\ WF_vars(atkbd_irq)
  /\ \A p \in Readers : WF_vars(Poll(p) \/ Take(p) \/ Advance(p))

-----------------------------------------------------------------------------
(* Properties                                                              *)

(* The driver's globals keep their ranges, and buffer_start, which no      *)
(* check guards in atkbd_get_char, stays an index of the block key_buffer  *)
(* points to.                                                              *)
TypeOK ==
  /\ phase \in {"boot", "leds", "run", "overrun"}
  /\ wire \in Seq(Codes \cup {Ack}) /\ down \subseteq Keys
  /\ swallowed \subseteq Modifiers
  /\ mods \in [shift : BOOLEAN, ctrl : BOOLEAN, alt : BOOLEAN, caps : BOOLEAN]
  /\ buffer_allocs \in Nat \ {0} /\ buffer_end \in Nat
  /\ buffer_start \in DOMAIN key_buffer
  /\ \A i \in DOMAIN key_buffer : key_buffer[i] \in Chars \cup {Nul}
  /\ reader \in [Readers -> [at : {"poll", "take", "advance"}, ch : Chars \cup {Nul}]]

(* "Retrieve next typed char" (atkbd.c:350): the characters returned are   *)
(* the characters typed, in order, none twice and none skipped ...         *)
NextTyped == IsPrefix(got, put)

(* ... which one reader gets, interrupted anywhere, as long as fewer       *)
(* characters than the buffer holds have been typed since boot.            *)
NextTypedUntilWrap == Len(put) < CHUNK => NextTyped

(* With one reader the buffer never looks full to atkbd_add_buffer: the    *)
(* reader's index, which wraps, does not overtake the writer's, which does *)
(* not.  So the branch that grows the buffer and drops the character is    *)
(* never taken, and no typed character is lost in it.                      *)
NeverFull == buffer_end + 1 # buffer_start

(* What a modifier that either of two keys works, and either's release     *)
(* ends, can promise: it is down only while one of its keys is, and surely *)
(* while all are.                                                          *)
Follows(flag, K, d) == (flag => K \cap d # {}) /\ (K \subseteq d => flag)

(* When every code has been handled no modifier is stuck, however keys are *)
(* held, repeated and let go.  A code that the LED dialogue swallows       *)
(* (atkbd.c:121) can leave only its own modifier wrong, and only until     *)
(* that modifier's next code: the others stay right throughout.            *)
ModifiersFollow ==
  wire = <<>> =>
    /\ ShiftKeys \notin swallowed => Follows(mods.shift, ShiftKeys, down)
    /\ CtrlKeys \notin swallowed => Follows(mods.ctrl, CtrlKeys, down)
    /\ AltKeys \notin swallowed => Follows(mods.alt, AltKeys, down)

(* Every character the handler has buffered is returned to the reader, as  *)
(* long as fewer characters than the buffer holds are typed.               *)
EveryCharRead ==
  \A n \in 1 .. CHUNK : Len(put) >= n ~> Len(got) >= n \/ Len(put) >= CHUNK
=============================================================================
