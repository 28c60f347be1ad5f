------------------------------ MODULE KbdProofs -----------------------------
(***************************************************************************)
(* Proofs about the keyboard driver, for every size of the buffer, every   *)
(* set of keys and every number of key presses.  The type invariant and    *)
(* the modifiers are proved for any number of readers, the order of the    *)
(* characters for one, which is what it needs.                             *)
(***************************************************************************)
EXTENDS Kbd, TLAPS

-----------------------------------------------------------------------------
(* The inductive invariants.                                               *)

(* The block key_buffer points to has the size the driver asked for, and   *)
(* the reader's index stays in its first chunk.                            *)
BufferInv ==
  /\ key_buffer \in [0 .. (CHUNK * buffer_allocs - 1) -> Chars \cup {Nul}]
  /\ buffer_start \in 0 .. (CHUNK - 1)

TypeInv == TypeOK /\ BufferInv

(* A modifier that the keys Q work is right once the codes w are handled:  *)
(* the last code of these keys in w is one of G, which bring it to where   *)
(* the keys are, or there is no such code and it is there already.         *)
Mute(w, Q) == \A i \in 1 .. Len(w) : w[i].key \notin Q

Settles(w, Q, G) ==
  \A i \in 1 .. Len(w) :
    w[i].key \in Q /\ (\A j \in (i + 1) .. Len(w) : w[j].key \notin Q) => w[i] \in G

Tracks(w, Q, G, there) == (Mute(w, Q) => there) /\ Settles(w, Q, G)

(* The codes of a modifier's keys K that leave it right for the keys d. *)
Right(K, d) == {c \in Codes : Follows(c.make, K, d)}

(* What is on its way from the keyboard brings the modifier with keys K    *)
(* and flag m to where the keys are, unless a code of it was swallowed and *)
(* none was sent since.                                                    *)
OnItsWay(w, s, K, m, d) == K \notin s => Tracks(w, K, Right(K, d), Follows(m, K, d))

FollowInv ==
  /\ OnItsWay(wire, swallowed, ShiftKeys, mods.shift, down)
  /\ OnItsWay(wire, swallowed, CtrlKeys, mods.ctrl, down)
  /\ OnItsWay(wire, swallowed, AltKeys, mods.alt, down)

(* The buffer has not grown and holds what was put, in order. *)
FilledInv ==
  /\ put \in Seq(Chars) /\ got \in Seq(Chars \cup {Nul})
  /\ buffer_allocs = 1
  /\ buffer_end = Len(put) /\ Len(put) <= CHUNK
  /\ \A i \in 1 .. Len(put) : key_buffer[i - 1] = put[i]

(* Before the buffer is there nothing is put, and nobody reads. *)
QuietInv(r) ==
  /\ phase = "boot" => put = <<>> /\ got = <<>>
  /\ phase \in {"boot", "leds"} => reader[r].at = "poll"

(* Until the last byte of the buffer is written, reader r is at the first  *)
(* character that was not returned, and one it has taken is that one.      *)
ReaderInv(r) ==
  Len(put) < CHUNK =>
    /\ buffer_start = Len(got) /\ Len(got) <= Len(put)
    /\ \A i \in 1 .. Len(got) : got[i] = put[i]
    /\ reader[r].at # "poll" => Len(got) < Len(put)
    /\ reader[r].at = "advance" => reader[r].ch = put[Len(got) + 1]

OneReaderInv(r) == FilledInv /\ QuietInv(r) /\ ReaderInv(r)

-----------------------------------------------------------------------------
(* The type invariant.                                                     *)

(* A block of at least one chunk holds the indices of a chunk. *)
LEMMA FirstChunk ==
  ASSUME NEW n \in Nat \ {0}
  PROVE  /\ CHUNK * n \in Nat /\ CHUNK <= CHUNK * n
         /\ CHUNK * n <= CHUNK * (n + 1)
         /\ 0 .. (CHUNK - 1) \subseteq 0 .. (CHUNK * n - 1)
BY KbdAssumption, Z3T(30)

(* A character is not Nul. *)
LEMMA CharsNotNul == Nul \notin Chars
BY DEF Nul, Chars

(* What the handler decodes is a character or nothing. *)
LEMMA DecodeType ==
  ASSUME NEW m \in [shift : BOOLEAN, ctrl : BOOLEAN, alt : BOOLEAN, caps : BOOLEAN],
         NEW k
  PROVE  atkbd_decode(m, k) \in Chars \cup {Nul}
BY DEF atkbd_decode, Chars

(* Buffering a character keeps the block and the indices in range. *)
LEMMA AddBufferType ==
  ASSUME TypeInv, NEW ch \in Chars \cup {Nul},
         NEW r, r = atkbd_add_buffer(ch)
  PROVE  /\ r.allocs \in Nat \ {0} /\ r.end \in Nat /\ r.ok \in BOOLEAN
         /\ r.data \in [0 .. (CHUNK * r.allocs - 1) -> Chars \cup {Nul}]
<1>1. buffer_allocs \in Nat \ {0} /\ buffer_end \in Nat
  BY DEF TypeInv, TypeOK
<1>2. key_buffer \in [0 .. (CHUNK * buffer_allocs - 1) -> Chars \cup {Nul}]
  BY DEF TypeInv, BufferInv
<1>3. CASE buffer_end + 1 = buffer_start
  <2>1. /\ r.allocs = buffer_allocs + 1 /\ r.end = buffer_end /\ r.ok = TRUE
        /\ r.data = [i \in 0 .. (CHUNK * (buffer_allocs + 1) - 1) |->
                       IF i \in DOMAIN key_buffer THEN key_buffer[i] ELSE Nul]
    BY <1>3 DEF atkbd_add_buffer, Ring
  <2>2. \A i \in DOMAIN key_buffer : key_buffer[i] \in Chars \cup {Nul}
    BY <1>2
  <2>3. r.data \in [0 .. (CHUNK * (buffer_allocs + 1) - 1) -> Chars \cup {Nul}]
    BY <2>1, <2>2
  <2>4. r.ok \in BOOLEAN
    BY <2>1
  <2> QED BY <1>1, <2>1, <2>3, <2>4
<1>4. CASE buffer_end + 1 # buffer_start /\ buffer_end \notin DOMAIN key_buffer
  <2>1. /\ r.allocs = buffer_allocs /\ r.end = buffer_end /\ r.ok = FALSE
        /\ r.data = key_buffer
    BY <1>4 DEF atkbd_add_buffer, Ring
  <2> QED BY <1>1, <1>2, <2>1
<1>5. CASE buffer_end + 1 # buffer_start /\ buffer_end \in DOMAIN key_buffer
  <2>1. /\ r.allocs = buffer_allocs /\ r.end = buffer_end + 1 /\ r.ok = TRUE
        /\ r.data = [key_buffer EXCEPT ![buffer_end] = ch]
    BY <1>5 DEF atkbd_add_buffer, Ring
  <2>2. r.data \in [0 .. (CHUNK * buffer_allocs - 1) -> Chars \cup {Nul}]
    BY <1>2, <2>1
  <2>3. r.ok \in BOOLEAN
    BY <2>1
  <2> QED BY <1>1, <2>1, <2>2, <2>3
<1> QED BY <1>3, <1>4, <1>5

(* What TypeOK says of the block follows from BufferInv. *)
LEMMA BlockTyped ==
  ASSUME BufferInv, buffer_allocs \in Nat \ {0}
  PROVE  /\ buffer_start \in DOMAIN key_buffer
         /\ \A i \in DOMAIN key_buffer : key_buffer[i] \in Chars \cup {Nul}
BY FirstChunk DEF BufferInv

(* The same of the next state: TypeOK is what it says of the rest. *)
LEMMA TypeNext ==
  ASSUME BufferInv',
         phase' \in {"boot", "leds", "run", "overrun"},
         wire' \in Seq(Codes \cup {Ack}), down' \subseteq Keys, swallowed' \subseteq Modifiers,
         mods' \in [shift : BOOLEAN, ctrl : BOOLEAN, alt : BOOLEAN, caps : BOOLEAN],
         buffer_allocs' \in Nat \ {0}, buffer_end' \in Nat,
         reader' \in [Readers -> [at : {"poll", "take", "advance"}, ch : Chars \cup {Nul}]]
  PROVE  TypeInv'
<1>1. /\ buffer_start' \in DOMAIN key_buffer'
      /\ \A i \in DOMAIN key_buffer' : key_buffer'[i] \in Chars \cup {Nul}
  <2>1. /\ CHUNK * buffer_allocs' \in Nat
        /\ 0 .. (CHUNK - 1) \subseteq 0 .. (CHUNK * buffer_allocs' - 1)
    BY FirstChunk
  <2> QED BY <2>1 DEF BufferInv
<1> QED BY <1>1 DEF TypeInv, TypeOK

(* What the type invariant says of the wire's first code. *)
LEMMA HeadTyped ==
  ASSUME TypeInv, wire # <<>>
  PROVE  /\ Head(wire) \in Codes \cup {Ack} /\ Head(wire).make \in BOOLEAN
         /\ Tail(wire) \in Seq(Codes \cup {Ack})
<1>1. Head(wire) \in Codes \cup {Ack} /\ Tail(wire) \in Seq(Codes \cup {Ack})
  BY DEF TypeInv, TypeOK
<1>2. Head(wire) \in Codes => Head(wire).make \in BOOLEAN
  BY DEF Codes
<1>3. Ack.make \in BOOLEAN
  BY DEF Ack
<1> QED BY <1>1, <1>2, <1>3

(* What the LED dialogue leaves on the wire, and what it swallows. *)
LEMMA LedTyped ==
  ASSUME NEW w \in Seq(Codes \cup {Ack}), atkbd_set_led(w), swallowed \subseteq Modifiers
  PROVE  wire' \in Seq(Codes \cup {Ack}) /\ swallowed' \subseteq Modifiers
<1>1. PICK n \in 0 .. Len(w), late \in BOOLEAN :
        /\ wire' = SubSeq(w, n + 1, Len(w)) \o IF late THEN <<Ack>> ELSE <<>>
        /\ swallowed' = swallowed \cup {K \in Modifiers : \E i \in 1 .. n : w[i].key \in K}
  BY DEF atkbd_set_led
<1>2. SubSeq(w, n + 1, Len(w)) \in Seq(Codes \cup {Ack})
  OBVIOUS
<1>3. <<Ack>> \in Seq(Codes \cup {Ack}) /\ <<>> \in Seq(Codes \cup {Ack})
  OBVIOUS
<1>4. wire' \in Seq(Codes \cup {Ack})
  <2>1. wire' = SubSeq(w, n + 1, Len(w)) \o IF late THEN <<Ack>> ELSE <<>>
    BY <1>1
  <2> QED BY <1>2, <1>3, <2>1
<1>5. swallowed' \subseteq Modifiers
  BY <1>1
<1> QED BY <1>4, <1>5

LEMMA TypeStep == TypeInv /\ [Next]_vars => TypeInv'
<1> SUFFICES ASSUME TypeInv, [Next]_vars PROVE TypeInv'
  OBVIOUS
<1>1. /\ BufferInv
      /\ phase \in {"boot", "leds", "run", "overrun"}
      /\ wire \in Seq(Codes \cup {Ack}) /\ down \subseteq Keys /\ swallowed \subseteq Modifiers
      /\ mods \in [shift : BOOLEAN, ctrl : BOOLEAN, alt : BOOLEAN, caps : BOOLEAN]
      /\ buffer_allocs \in Nat \ {0} /\ buffer_end \in Nat
      /\ reader \in [Readers -> [at : {"poll", "take", "advance"}, ch : Chars \cup {Nul}]]
  BY DEF TypeInv, TypeOK
<1>2. ASSUME UNCHANGED bufVars PROVE BufferInv'
  BY <1>1, <1>2 DEF BufferInv, bufVars
<1>3. CASE InitBuffer
  <2>1. BufferInv'
    <3>1. /\ buffer_start' = 0 /\ buffer_allocs' = 1
          /\ key_buffer' = [i \in 0 .. (CHUNK - 1) |-> Nul]
      BY <1>3 DEF InitBuffer, atkbd_clear_buffer
    <3>2. CHUNK * 1 = CHUNK
      BY KbdAssumption
    <3> QED BY <3>1, <3>2, KbdAssumption DEF BufferInv
  <2> QED BY <1>1, <1>3, <2>1, TypeNext
      DEF InitBuffer, atkbd_clear_buffer, kbdVars, readVars
<1>4. CASE InitLeds
  <2>1. wire' \in Seq(Codes \cup {Ack}) /\ swallowed' \subseteq Modifiers
    BY <1>1, <1>4, LedTyped DEF InitLeds
  <2> QED BY <1>1, <1>2, <1>4, <2>1, TypeNext DEF InitLeds, bufVars, readVars
<1>5. CASE IrqCaps
  <2>1. wire' \in Seq(Codes \cup {Ack}) /\ swallowed' \subseteq Modifiers
    BY <1>1, <1>5, HeadTyped, LedTyped DEF IrqCaps
  <2>2. mods' \in [shift : BOOLEAN, ctrl : BOOLEAN, alt : BOOLEAN, caps : BOOLEAN]
    BY <1>1, <1>5 DEF IrqCaps
  <2> QED BY <1>1, <1>2, <1>5, <2>1, <2>2, TypeNext DEF IrqCaps, bufVars, readVars
<1>6. CASE IrqBreak
  <2>1. wire' \in Seq(Codes \cup {Ack})
    BY <1>6, HeadTyped DEF IrqBreak
  <2>2. mods' \in [shift : BOOLEAN, ctrl : BOOLEAN, alt : BOOLEAN, caps : BOOLEAN]
    BY <1>1, <1>6 DEF IrqBreak, atkbd_handle_break
  <2> QED BY <1>1, <1>2, <1>6, <2>1, <2>2, TypeNext DEF IrqBreak, bufVars, readVars
<1>7. CASE IrqMake
  <2> DEFINE m == atkbd_process_extended(mods, Head(wire).key)
             ch == atkbd_decode(m, Head(wire).key)
             r == IF ch = Nul THEN Ring ELSE atkbd_add_buffer(ch)
  <2>1. m \in [shift : BOOLEAN, ctrl : BOOLEAN, alt : BOOLEAN, caps : BOOLEAN]
    BY <1>1 DEF atkbd_process_extended
  <2>2. ch \in Chars \cup {Nul}
    BY <2>1, DecodeType
  <2> HIDE DEF ch
  <2>3. /\ r.allocs \in Nat \ {0} /\ r.end \in Nat
        /\ r.data \in [0 .. (CHUNK * r.allocs - 1) -> Chars \cup {Nul}]
    <3>1. CASE ch = Nul
      <4>1. /\ r.allocs = buffer_allocs /\ r.end = buffer_end /\ r.data = key_buffer
        BY <3>1 DEF Ring
      <4> QED BY <1>1, <4>1 DEF BufferInv
    <3>2. CASE ch # Nul
      BY <2>2, <3>2, AddBufferType
    <3> QED BY <3>1, <3>2
  <2>4. /\ mods' = m /\ key_buffer' = r.data /\ buffer_end' = r.end
        /\ buffer_allocs' = r.allocs
        /\ phase' \in {phase, "overrun"}
    BY <1>7 DEF IrqMake, ch
  <2> HIDE DEF r, m
  <2>5. BufferInv'
    BY <1>1, <1>7, <2>3, <2>4 DEF BufferInv, IrqMake
  <2>6. wire' \in Seq(Codes \cup {Ack})
    BY <1>7, HeadTyped DEF IrqMake
  <2>7. phase' \in {"boot", "leds", "run", "overrun"}
    BY <1>1, <2>4
  <2> QED BY <1>1, <1>7, <2>1, <2>3, <2>4, <2>5, <2>6, <2>7, TypeNext DEF IrqMake, readVars
<1>8. ASSUME NEW p \in Readers, Poll(p) PROVE TypeInv'
  <2>1. reader' \in [Readers -> [at : {"poll", "take", "advance"}, ch : Chars \cup {Nul}]]
    BY <1>1, <1>8 DEF Poll
  <2> QED BY <1>1, <1>2, <1>8, <2>1, TypeNext DEF Poll, kbdVars, bufVars
<1>9. ASSUME NEW p \in Readers, Take(p) PROVE TypeInv'
  <2>1. Taken \in Chars \cup {Nul}
    BY <1>1, BlockTyped DEF Taken
  <2>2. reader' \in [Readers -> [at : {"poll", "take", "advance"}, ch : Chars \cup {Nul}]]
    BY <1>1, <1>9, <2>1 DEF Take
  <2> QED BY <1>1, <1>2, <1>9, <2>2, TypeNext DEF Take, kbdVars, bufVars
<1>10. ASSUME NEW p \in Readers, Advance(p) PROVE TypeInv'
  <2>1. reader' \in [Readers -> [at : {"poll", "take", "advance"}, ch : Chars \cup {Nul}]]
    BY <1>1, <1>10 DEF Advance
  <2>2. buffer_start' \in 0 .. (CHUNK - 1)
    BY <1>1, <1>10, KbdAssumption DEF Advance, Advanced, BufferInv
  <2>3. BufferInv'
    BY <1>1, <1>10, <2>2 DEF Advance, BufferInv
  <2> QED BY <1>1, <1>10, <2>1, <2>3, TypeNext DEF Advance, kbdVars
<1>11. ASSUME NEW k \in Keys, Press(k) PROVE TypeInv'
  <2>1. [key |-> k, make |-> TRUE] \in Codes
    BY DEF Codes
  <2>2. wire' \in Seq(Codes \cup {Ack})
    BY <1>1, <1>11, <2>1 DEF Press
  <2> QED BY <1>1, <1>2, <1>11, <2>2, TypeNext DEF Press, SentOf, bufVars, readVars
<1>12. ASSUME NEW k \in Keys, LetGo(k) PROVE TypeInv'
  <2>1. [key |-> k, make |-> FALSE] \in Codes
    BY DEF Codes
  <2>2. wire' \in Seq(Codes \cup {Ack})
    BY <1>1, <1>12, <2>1 DEF LetGo
  <2> QED BY <1>1, <1>2, <1>12, <2>2, TypeNext DEF LetGo, SentOf, bufVars, readVars
<1>13. CASE UNCHANGED vars
  BY <1>1, <1>2, <1>13, TypeNext DEF vars, kbdVars, bufVars, readVars
<1> QED BY <1>3, <1>4, <1>5, <1>6, <1>7, <1>8, <1>9, <1>10, <1>11, <1>12, <1>13 DEF Next

LEMMA TypeInit == Init => TypeInv
<1> SUFFICES ASSUME Init PROVE TypeInv
  OBVIOUS
<1>1. CHUNK * 1 = CHUNK /\ CHUNK \in Nat /\ CHUNK > 0
  BY KbdAssumption
<1>2. BufferInv
  BY <1>1 DEF Init, BufferInv
<1>3. /\ buffer_start \in DOMAIN key_buffer
      /\ \A i \in DOMAIN key_buffer : key_buffer[i] \in Chars \cup {Nul}
  BY <1>1 DEF Init
<1>4. reader \in [Readers -> [at : {"poll", "take", "advance"}, ch : Chars \cup {Nul}]]
  BY DEF Init
<1>5. mods \in [shift : BOOLEAN, ctrl : BOOLEAN, alt : BOOLEAN, caps : BOOLEAN]
  BY DEF Init
<1> QED BY <1>2, <1>3, <1>4, <1>5 DEF TypeInv, TypeOK, Init

LEMMA TypeInvariance == Spec => []TypeInv
BY TypeInit, TypeStep, PTL DEF Spec

(* The driver's globals keep their ranges; buffer_start, which             *)
(* atkbd_get_char uses without a look at the size of the block, is always  *)
(* an index of it, for any number of processes that read.                  *)
THEOREM TypeCorrect == Spec => []TypeOK
<1>1. TypeInv => TypeOK
  BY DEF TypeInv
<1> QED BY <1>1, TypeInvariance, PTL

-----------------------------------------------------------------------------
(* The modifiers.                                                          *)

(* Handling the first code on the wire. *)
LEMMA TracksTail ==
  ASSUME NEW w \in Seq(Codes \cup {Ack}), w # <<>>, NEW Q, NEW G,
         NEW old \in BOOLEAN, NEW new \in BOOLEAN,
         Tracks(w, Q, G, old),
         Head(w).key \in Q /\ Head(w) \in G => new,
         Head(w).key \notin Q /\ old => new
  PROVE  Tracks(Tail(w), Q, G, new)
<1> DEFINE t == Tail(w)
<1>1. /\ Len(w) \in Nat /\ Len(w) > 0 /\ Len(t) = Len(w) - 1 /\ Head(w) = w[1]
      /\ \A i \in 1 .. Len(t) : t[i] = w[i + 1]
  OBVIOUS
<1> HIDE DEF t
<1>2. Settles(t, Q, G)
  <2> SUFFICES ASSUME NEW i \in 1 .. Len(t), t[i].key \in Q,
                      \A j \in (i + 1) .. Len(t) : t[j].key \notin Q
               PROVE  t[i] \in G
    BY DEF Settles
  <2>1. i + 1 \in 1 .. Len(w) /\ w[i + 1].key \in Q
    BY <1>1
  <2>2. ASSUME NEW j \in ((i + 1) + 1) .. Len(w) PROVE w[j].key \notin Q
    <3>1. j - 1 \in (i + 1) .. Len(t) /\ j - 1 \in 1 .. Len(t) /\ (j - 1) + 1 = j
      BY <1>1
    <3> QED BY <1>1, <3>1
  <2>3. w[i + 1] \in G
    BY <2>1, <2>2 DEF Tracks, Settles
  <2> QED BY <1>1, <2>3
<1>3. ASSUME Mute(t, Q) PROVE new
  <2>1. \A j \in 2 .. Len(w) : w[j].key \notin Q
    <3> SUFFICES ASSUME NEW j \in 2 .. Len(w) PROVE w[j].key \notin Q
      OBVIOUS
    <3>1. j - 1 \in 1 .. Len(t) /\ (j - 1) + 1 = j
      BY <1>1
    <3> QED BY <1>1, <1>3, <3>1 DEF Mute
  <2>2. CASE Head(w).key \in Q
    <3>1. /\ 1 \in 1 .. Len(w) /\ w[1].key \in Q
          /\ \A j \in (1 + 1) .. Len(w) : w[j].key \notin Q
      BY <1>1, <2>1, <2>2
    <3>2. w[1] \in G
      BY <3>1 DEF Tracks, Settles
    <3> QED BY <1>1, <2>2, <3>2
  <2>3. CASE Head(w).key \notin Q
    <3>1. Mute(w, Q)
      <4> SUFFICES ASSUME NEW j \in 1 .. Len(w) PROVE w[j].key \notin Q
        BY DEF Mute
      <4>1. j = 1 \/ j \in 2 .. Len(w)
        BY <1>1
      <4> QED BY <1>1, <2>1, <2>3, <4>1
    <3> QED BY <2>3, <3>1 DEF Tracks
  <2> QED BY <2>2, <2>3
<1> QED BY <1>2, <1>3 DEF Tracks, t

(* A code of the modifier comes onto the wire and settles it. *)
LEMMA TracksSent ==
  ASSUME NEW w \in Seq(Codes \cup {Ack}), NEW c \in Codes \cup {Ack},
         NEW Q, NEW H, NEW new, c.key \in Q, c \in H
  PROVE  Tracks(Append(w, c), Q, H, new)
<1> DEFINE v == Append(w, c)
<1>1. Len(w) \in Nat /\ Len(v) = Len(w) + 1 /\ v[Len(v)] = c
  OBVIOUS
<1> HIDE DEF v
<1>2. ~Mute(v, Q)
  <2>1. Len(v) \in 1 .. Len(v)
    BY <1>1
  <2> QED BY <1>1, <2>1 DEF Mute
<1>3. Settles(v, Q, H)
  <2> SUFFICES ASSUME NEW i \in 1 .. Len(v), v[i].key \in Q,
                      \A j \in (i + 1) .. Len(v) : v[j].key \notin Q
               PROVE  v[i] \in H
    BY DEF Settles
  <2>1. i = Len(v)
    <3>1. i # Len(v) => Len(v) \in (i + 1) .. Len(v)
      BY <1>1
    <3> QED BY <1>1, <3>1
  <2> QED BY <1>1, <2>1
<1> QED BY <1>2, <1>3 DEF Tracks, v

(* A code of another key comes onto the wire. *)
LEMMA TracksAppend ==
  ASSUME NEW w \in Seq(Codes \cup {Ack}), NEW c \in Codes \cup {Ack},
         NEW Q, NEW G, NEW H, NEW old \in BOOLEAN, NEW new \in BOOLEAN,
         Tracks(w, Q, G, old), c.key \notin Q, old => new,
         \A e \in Codes \cup {Ack} : e \in G => e \in H
  PROVE  Tracks(Append(w, c), Q, H, new)
<1> DEFINE v == Append(w, c)
<1>1. /\ Len(w) \in Nat /\ Len(v) = Len(w) + 1 /\ v[Len(v)] = c
      /\ \A i \in 1 .. Len(w) : v[i] = w[i] /\ w[i] \in Codes \cup {Ack}
  OBVIOUS
<1> HIDE DEF v
<1>2. Mute(v, Q) => Mute(w, Q)
  <2>1. \A i \in 1 .. Len(w) : i \in 1 .. Len(v)
    BY <1>1
  <2> QED BY <1>1, <2>1 DEF Mute
<1>3. Settles(v, Q, H)
  <2> SUFFICES ASSUME NEW i \in 1 .. Len(v), v[i].key \in Q,
                      \A j \in (i + 1) .. Len(v) : v[j].key \notin Q
               PROVE  v[i] \in H
    BY DEF Settles
  <2>1. i # Len(v)
    BY <1>1
  <2>2. i \in 1 .. Len(w) /\ v[i] = w[i]
    BY <1>1, <2>1
  <2>3. \A j \in (i + 1) .. Len(w) :
          j \in (i + 1) .. Len(v) /\ j \in 1 .. Len(w)
    BY <1>1, <2>2
  <2>4. \A j \in (i + 1) .. Len(w) : w[j].key \notin Q
    BY <1>1, <2>3
  <2>5. w[i] \in G
    BY <2>2, <2>4 DEF Tracks, Settles
  <2> QED BY <1>1, <2>2, <2>5
<1> QED BY <1>2, <1>3 DEF Tracks, v

(* Codes of other keys are dropped from the front. *)
LEMMA TracksDrop ==
  ASSUME NEW w \in Seq(Codes \cup {Ack}), NEW n \in 0 .. Len(w), NEW Q, NEW G, NEW ok,
         \A i \in 1 .. n : w[i].key \notin Q, Tracks(w, Q, G, ok)
  PROVE  Tracks(SubSeq(w, n + 1, Len(w)), Q, G, ok)
<1> DEFINE t == SubSeq(w, n + 1, Len(w))
<1>1. /\ Len(w) \in Nat /\ Len(t) = Len(w) - n
      /\ \A i \in 1 .. Len(t) : t[i] = w[i + n]
  OBVIOUS
<1> HIDE DEF t
<1>2. Mute(t, Q) => Mute(w, Q)
  <2> SUFFICES ASSUME Mute(t, Q), NEW j \in 1 .. Len(w) PROVE w[j].key \notin Q
    BY DEF Mute
  <2>1. j > n => j - n \in 1 .. Len(t) /\ (j - n) + n = j
    BY <1>1
  <2>2. j > n => w[j].key \notin Q
    BY <1>1, <2>1 DEF Mute
  <2>3. ~(j > n) => j \in 1 .. n
    BY <1>1
  <2> QED BY <2>2, <2>3
<1>3. Settles(t, Q, G)
  <2> SUFFICES ASSUME NEW i \in 1 .. Len(t), t[i].key \in Q,
                      \A j \in (i + 1) .. Len(t) : t[j].key \notin Q
               PROVE  t[i] \in G
    BY DEF Settles
  <2>1. i + n \in 1 .. Len(w) /\ w[i + n].key \in Q
    BY <1>1
  <2>2. ASSUME NEW j \in ((i + n) + 1) .. Len(w) PROVE w[j].key \notin Q
    <3>1. j - n \in (i + 1) .. Len(t) /\ j - n \in 1 .. Len(t) /\ (j - n) + n = j
      BY <1>1
    <3> QED BY <1>1, <3>1
  <2>3. w[i + n] \in G
    BY <2>1, <2>2 DEF Tracks, Settles
  <2> QED BY <1>1, <2>3
<1> QED BY <1>2, <1>3 DEF Tracks, t

(* The LED dialogue, when it swallows no code of the modifier. *)
LEMMA LedKeeps ==
  ASSUME NEW w \in Seq(Codes \cup {Ack}), NEW K \in Modifiers,
         NEW m \in BOOLEAN, NEW d,
         OnItsWay(w, swallowed, K, m, d), atkbd_set_led(w)
  PROVE  OnItsWay(wire', swallowed', K, m, d)
<1> DEFINE G == Right(K, d)
           ok == Follows(m, K, d)
<1> SUFFICES ASSUME K \notin swallowed' PROVE Tracks(wire', K, G, ok)
  BY DEF OnItsWay
<1>1. PICK n \in 0 .. Len(w), late \in BOOLEAN :
        /\ wire' = SubSeq(w, n + 1, Len(w)) \o IF late THEN <<Ack>> ELSE <<>>
        /\ swallowed' = swallowed \cup {M \in Modifiers : \E i \in 1 .. n : w[i].key \in M}
  BY DEF atkbd_set_led
<1>2. Ack.key \notin K
  BY KbdAssumption DEF Ack, Keys
<1>3. K \notin swallowed /\ \A i \in 1 .. n : w[i].key \notin K
  BY <1>1
<1>4. Tracks(w, K, G, ok) /\ ok \in BOOLEAN
  BY <1>3 DEF OnItsWay, Follows
<1> DEFINE t == SubSeq(w, n + 1, Len(w))
<1> HIDE DEF G, ok
<1>5. t \in Seq(Codes \cup {Ack})
  OBVIOUS
<1>6. Tracks(t, K, G, ok)
  BY <1>3, <1>4, TracksDrop
<1> HIDE DEF t
<1>7. Tracks(Append(t, Ack), K, G, ok)
  BY <1>2, <1>4, <1>5, <1>6, TracksAppend
<1>8. t \o <<Ack>> = Append(t, Ack) /\ t \o <<>> = t
  BY <1>5
<1> QED BY <1>1, <1>6, <1>7, <1>8 DEF t

(* A code is handled: it sets the modifier it is of to what it says, and   *)
(* leaves the others.                                                      *)
LEMMA HandledKeeps ==
  ASSUME NEW w \in Seq(Codes \cup {Ack}), w # <<>>, NEW K \in Modifiers,
         NEW m \in BOOLEAN, NEW n \in BOOLEAN, NEW d, NEW s,
         OnItsWay(w, s, K, m, d),
         n = IF Head(w).key \in K THEN Head(w).make ELSE m
  PROVE  OnItsWay(Tail(w), s, K, n, d)
<1> DEFINE G == Right(K, d)
           old == Follows(m, K, d)
           new == Follows(n, K, d)
<1> SUFFICES ASSUME Tracks(w, K, G, old) PROVE Tracks(Tail(w), K, G, new)
  BY DEF OnItsWay
<1>1. old \in BOOLEAN /\ new \in BOOLEAN
  BY DEF Follows
<1>2. Head(w).key \in K /\ Head(w) \in G => new
  BY DEF Right
<1>3. Head(w).key \notin K /\ old => new
  OBVIOUS
<1> HIDE DEF G, old, new
<1> QED BY <1>1, <1>2, <1>3, TracksTail

(* A key goes down or up and its code onto the wire.  A code of the        *)
(* modifier makes it right whatever was swallowed before.                  *)
LEMMA SentKeeps ==
  ASSUME TypeInv, NEW K \in Modifiers, NEW m \in BOOLEAN,
         OnItsWay(wire, swallowed, K, m, down),
         NEW k \in Keys, NEW b \in BOOLEAN,
         down' = IF b THEN down \cup {k} ELSE down \ {k},
         wire' = Append(wire, [key |-> k, make |-> b]), SentOf(k)
  PROVE  OnItsWay(wire', swallowed', K, m, down')
<1> DEFINE c == [key |-> k, make |-> b]
           G == Right(K, down)
           H == Right(K, down')
           old == Follows(m, K, down)
           new == Follows(m, K, down')
<1>1. wire \in Seq(Codes \cup {Ack}) /\ c \in Codes /\ c.key = k /\ c.make = b
  BY DEF TypeInv, TypeOK, Codes
<1>2. old \in BOOLEAN /\ new \in BOOLEAN
  BY DEF Follows
<1>3. CASE k \in K
  <2>1. Follows(b, K, down')
    BY <1>3 DEF Follows
  <2>2. c \in H
    BY <1>1, <2>1 DEF Right
  <2> HIDE DEF c, H, new
  <2>3. Tracks(wire', K, H, new)
    BY <1>1, <1>3, <2>2, TracksSent DEF c
  <2> QED BY <2>3 DEF OnItsWay, H, new
<1>4. CASE k \notin K
  <2> SUFFICES ASSUME K \notin swallowed' PROVE Tracks(wire', K, H, new)
    BY DEF OnItsWay
  <2>1. K \notin swallowed
    BY <1>4 DEF SentOf
  <2>2. Tracks(wire, K, G, old)
    BY <2>1 DEF OnItsWay
  <2>3. K \cap down' = K \cap down /\ (K \subseteq down' <=> K \subseteq down)
    BY <1>4
  <2>4. \A x \in BOOLEAN : Follows(x, K, down') <=> Follows(x, K, down)
    BY <2>3 DEF Follows
  <2>5. \A e \in Codes \cup {Ack} : e \in G => e \in H
    BY <2>4 DEF Right, Codes
  <2>6. old => new
    BY <2>4
  <2> HIDE DEF c, G, H, old, new
  <2>7. Tracks(Append(wire, c), K, H, new)
    BY <1>1, <1>2, <1>4, <2>2, <2>5, <2>6, TracksAppend
  <2> QED BY <2>7 DEF c
<1> QED BY <1>3, <1>4

LEMMA FollowStep == TypeInv /\ FollowInv /\ [Next]_vars => FollowInv'
<1> SUFFICES ASSUME TypeInv, FollowInv, [Next]_vars PROVE FollowInv'
  OBVIOUS
<1>1. /\ wire \in Seq(Codes \cup {Ack})
      /\ mods \in [shift : BOOLEAN, ctrl : BOOLEAN, alt : BOOLEAN, caps : BOOLEAN]
      /\ mods.shift \in BOOLEAN /\ mods.ctrl \in BOOLEAN /\ mods.alt \in BOOLEAN
  BY DEF TypeInv, TypeOK
<1>2. ShiftKeys \in Modifiers /\ CtrlKeys \in Modifiers /\ AltKeys \in Modifiers
  BY DEF Modifiers
<1>3. CASE UNCHANGED kbdVars
  BY <1>3 DEF FollowInv, kbdVars
<1>4. CASE InitLeds
  <2>1. UNCHANGED <<down, mods>> /\ atkbd_set_led(wire)
    BY <1>4 DEF InitLeds
  <2>2. ASSUME NEW K \in Modifiers, NEW m \in BOOLEAN, OnItsWay(wire, swallowed, K, m, down)
        PROVE  OnItsWay(wire', swallowed', K, m, down)
    BY <1>1, <2>1, <2>2, LedKeeps
  <2> QED BY <1>1, <1>2, <2>1, <2>2 DEF FollowInv
<1>5. CASE IrqCaps
  <2>1. /\ UNCHANGED down /\ atkbd_set_led(Tail(wire)) /\ wire # <<>>
        /\ Head(wire).key = Caps
        /\ mods'.ctrl = mods.ctrl /\ mods'.alt = mods.alt /\ mods'.shift = mods.shift
    BY <1>1, <1>5 DEF IrqCaps
  <2>2. Tail(wire) \in Seq(Codes \cup {Ack})
    BY <2>1, HeadTyped
  <2>3. ASSUME NEW K \in Modifiers, NEW m \in BOOLEAN, OnItsWay(wire, swallowed, K, m, down)
        PROVE  OnItsWay(wire', swallowed', K, m, down)
    <3>1. Head(wire).key \notin K
      BY <2>1, KbdAssumption
    <3>2. OnItsWay(Tail(wire), swallowed, K, m, down)
      BY <1>1, <2>1, <2>3, <3>1, HandledKeeps
    <3> QED BY <2>1, <2>2, <3>2, LedKeeps
  <2> QED BY <1>1, <1>2, <2>1, <2>3 DEF FollowInv
<1>6. ASSUME wire # <<>>, wire' = Tail(wire), UNCHANGED <<down, swallowed>>,
             mods'.shift \in BOOLEAN, mods'.ctrl \in BOOLEAN, mods'.alt \in BOOLEAN,
             mods'.shift = IF Head(wire).key \in ShiftKeys THEN Head(wire).make ELSE mods.shift,
             mods'.ctrl = IF Head(wire).key \in CtrlKeys THEN Head(wire).make ELSE mods.ctrl,
             mods'.alt = IF Head(wire).key \in AltKeys THEN Head(wire).make ELSE mods.alt
      PROVE  FollowInv'
  <2>1. /\ OnItsWay(wire, swallowed, ShiftKeys, mods.shift, down)
        /\ OnItsWay(wire, swallowed, CtrlKeys, mods.ctrl, down)
        /\ OnItsWay(wire, swallowed, AltKeys, mods.alt, down)
    BY DEF FollowInv
  <2>2. OnItsWay(wire', swallowed, ShiftKeys, mods'.shift, down)
    BY <1>1, <1>2, <1>6, <2>1, HandledKeeps
  <2>3. OnItsWay(wire', swallowed, CtrlKeys, mods'.ctrl, down)
    BY <1>1, <1>2, <1>6, <2>1, HandledKeeps
  <2>4. OnItsWay(wire', swallowed, AltKeys, mods'.alt, down)
    BY <1>1, <1>2, <1>6, <2>1, HandledKeeps
  <2> QED BY <1>6, <2>2, <2>3, <2>4 DEF FollowInv
<1>7. CASE IrqBreak
  <2>1. /\ wire # <<>> /\ ~Head(wire).make /\ wire' = Tail(wire)
        /\ UNCHANGED <<down, swallowed>>
        /\ mods' = atkbd_handle_break(mods, Head(wire).key)
    BY <1>7 DEF IrqBreak
  <2>2. Head(wire).make \in BOOLEAN
    BY <2>1, HeadTyped
  <2>3. /\ mods'.shift = (mods.shift /\ Head(wire).key \notin ShiftKeys)
        /\ mods'.ctrl = (mods.ctrl /\ Head(wire).key \notin CtrlKeys)
        /\ mods'.alt = (mods.alt /\ Head(wire).key \notin AltKeys)
    BY <1>1, <2>1 DEF atkbd_handle_break
  <2> QED BY <1>1, <1>6, <2>1, <2>2, <2>3
<1>8. CASE IrqMake
  <2>1. /\ wire # <<>> /\ Head(wire).make /\ wire' = Tail(wire)
        /\ UNCHANGED <<down, swallowed>>
        /\ mods' = atkbd_process_extended(mods, Head(wire).key)
    BY <1>8 DEF IrqMake
  <2>2. Head(wire).make \in BOOLEAN
    BY <2>1, HeadTyped
  <2>3. /\ mods'.shift = (mods.shift \/ Head(wire).key \in ShiftKeys)
        /\ mods'.ctrl = (mods.ctrl \/ Head(wire).key \in CtrlKeys)
        /\ mods'.alt = (mods.alt \/ Head(wire).key \in AltKeys)
    BY <1>1, <2>1 DEF atkbd_process_extended
  <2> QED BY <1>1, <1>6, <2>1, <2>2, <2>3
<1>9. ASSUME NEW k \in Keys, NEW b \in BOOLEAN, UNCHANGED mods, SentOf(k),
             down' = IF b THEN down \cup {k} ELSE down \ {k},
             wire' = Append(wire, [key |-> k, make |-> b])
      PROVE  FollowInv'
  <2>1. ASSUME NEW K \in Modifiers, NEW m \in BOOLEAN, OnItsWay(wire, swallowed, K, m, down)
        PROVE  OnItsWay(wire', swallowed', K, m, down')
    BY <1>9, <2>1, SentKeeps
  <2> QED BY <1>1, <1>2, <1>9, <2>1 DEF FollowInv
<1>10. ASSUME NEW k \in Keys, Press(k) PROVE FollowInv'
  <2>1. /\ UNCHANGED mods /\ SentOf(k)
        /\ down' = IF TRUE THEN down \cup {k} ELSE down \ {k}
        /\ wire' = Append(wire, [key |-> k, make |-> TRUE])
    BY <1>10 DEF Press
  <2> QED BY <1>9, <2>1
<1>11. ASSUME NEW k \in Keys, LetGo(k) PROVE FollowInv'
  <2>1. /\ UNCHANGED mods /\ SentOf(k)
        /\ down' = IF FALSE THEN down \cup {k} ELSE down \ {k}
        /\ wire' = Append(wire, [key |-> k, make |-> FALSE])
    BY <1>11 DEF LetGo
  <2> QED BY <1>9, <2>1
<1>12. ASSUME NEW p \in Readers, Poll(p) \/ Take(p) \/ Advance(p) PROVE FollowInv'
  BY <1>3, <1>12 DEF Poll, Take, Advance
<1>13. CASE InitBuffer
  BY <1>3, <1>13 DEF InitBuffer
<1>14. CASE UNCHANGED vars
  BY <1>3, <1>14 DEF vars
<1> QED BY <1>4, <1>5, <1>7, <1>8, <1>10, <1>11, <1>12, <1>13, <1>14 DEF Next

LEMMA FollowInit == Init => FollowInv
<1> SUFFICES ASSUME Init PROVE FollowInv
  OBVIOUS
<1>1. wire = <<>> /\ down = {} /\ Len(wire) = 0
  BY DEF Init
<1>2. mods.ctrl = FALSE /\ mods.alt = FALSE /\ mods.shift = FALSE
  BY DEF Init
<1>3. \A i \in 1 .. Len(wire) : FALSE
  BY <1>1
<1>4. \A K \in Modifiers : K # {}
  BY DEF Modifiers, ShiftKeys, CtrlKeys, AltKeys
<1>5. ASSUME NEW K \in Modifiers PROVE OnItsWay(wire, swallowed, K, FALSE, down)
  <2>1. Follows(FALSE, K, down)
    BY <1>1, <1>4 DEF Follows
  <2> QED BY <1>3, <2>1 DEF OnItsWay, Tracks, Mute, Settles
<1> QED BY <1>2, <1>5 DEF FollowInv, Modifiers

LEMMA FollowImplies == FollowInv => ModifiersFollow
<1> SUFFICES ASSUME FollowInv, wire = <<>> PROVE ModifiersFollow
  BY DEF ModifiersFollow
<1>1. \A i \in 1 .. Len(wire) : FALSE
  OBVIOUS
<1>2. ASSUME NEW K, NEW m, OnItsWay(wire, swallowed, K, m, down), K \notin swallowed
      PROVE  Follows(m, K, down)
  BY <1>1, <1>2 DEF OnItsWay, Tracks, Mute
<1> QED BY <1>2 DEF FollowInv, ModifiersFollow

(* When every code has been handled no modifier is stuck, however many     *)
(* keys are held, repeated and let go in whatever order: the last code of  *)
(* a modifier's keys makes it right, and a code that the LED dialogue      *)
(* swallowed leaves only its own modifier wrong, until its next code.      *)
THEOREM ModifiersRight == Spec => []ModifiersFollow
<1>1. TypeInv /\ FollowInv /\ [Next]_vars => (TypeInv /\ FollowInv)'
  BY TypeStep, FollowStep
<1> QED BY <1>1, TypeInit, FollowInit, FollowImplies, PTL DEF Spec

-----------------------------------------------------------------------------
(* One reader.                                                             *)

(* The buffer never looks full, because the reader's index stays in the    *)
(* first chunk and, until that is full, not in front of the writer's.      *)
LEMMA FillNotFull ==
  ASSUME NEW r, TypeInv, OneReaderInv(r)
  PROVE  NeverFull
<1>1. /\ buffer_start \in Nat /\ buffer_start < CHUNK /\ CHUNK \in Nat
      /\ buffer_end = Len(put) /\ Len(put) \in Nat /\ Len(put) <= CHUNK
      /\ Len(got) \in Nat
  BY KbdAssumption DEF TypeInv, BufferInv, OneReaderInv, FilledInv
<1>2. Len(put) < CHUNK => buffer_start <= Len(put)
  BY DEF OneReaderInv, ReaderInv
<1> QED BY <1>1, <1>2 DEF NeverFull

(* A character is put: into the next byte, or, behind the last byte, it    *)
(* runs over.                                                              *)
LEMMA AddBufferOne ==
  ASSUME NEW r, TypeInv, OneReaderInv(r), NEW ch \in Chars, NEW b, b = atkbd_add_buffer(ch)
  PROVE  \/ /\ Len(put) = CHUNK /\ b.ok = FALSE
            /\ b.data = key_buffer /\ b.end = buffer_end
            /\ b.allocs = buffer_allocs /\ b.put = put
         \/ /\ Len(put) < CHUNK /\ b.ok = TRUE
            /\ b.data = [key_buffer EXCEPT ![Len(put)] = ch] /\ b.end = Len(put) + 1
            /\ b.allocs = buffer_allocs /\ b.put = Append(put, ch)
<1>1. buffer_end + 1 # buffer_start
  BY FillNotFull DEF NeverFull
<1>2. /\ buffer_end = Len(put) /\ Len(put) \in Nat /\ Len(put) <= CHUNK /\ CHUNK \in Nat
      /\ buffer_allocs = 1
  BY KbdAssumption DEF OneReaderInv, FilledInv
<1>3. DOMAIN key_buffer = 0 .. (CHUNK - 1)
  <2>1. CHUNK * 1 = CHUNK
    BY <1>2
  <2> QED BY <1>2, <2>1 DEF TypeInv, BufferInv
<1>4. CASE Len(put) = CHUNK
  <2>1. buffer_end \notin DOMAIN key_buffer
    BY <1>2, <1>3, <1>4
  <2> QED BY <1>1, <1>4, <2>1 DEF atkbd_add_buffer, Ring
<1>5. CASE Len(put) < CHUNK
  <2>1. buffer_end \in DOMAIN key_buffer
    BY <1>2, <1>3, <1>5
  <2> QED BY <1>1, <1>2, <1>5, <2>1 DEF atkbd_add_buffer, Ring
<1>6. Len(put) = CHUNK \/ Len(put) < CHUNK
  BY <1>2
<1> QED BY <1>4, <1>5, <1>6, Zenon

(* The handler keeps what the reader relies on, wherever it is interrupted. *)
LEMMA OneReaderPut ==
  ASSUME NEW r \in Readers, TypeInv, OneReaderInv(r), NEW ch \in Chars,
         Len(put) < CHUNK,
         key_buffer' = [key_buffer EXCEPT ![Len(put)] = ch],
         buffer_end' = Len(put) + 1, buffer_allocs' = buffer_allocs,
         put' = Append(put, ch),
         UNCHANGED <<phase, buffer_start, readVars>>, phase # "boot"
  PROVE  OneReaderInv(r)'
<1>1. /\ put \in Seq(Chars) /\ Len(put) \in Nat /\ CHUNK \in Nat
      /\ got \in Seq(Chars \cup {Nul}) /\ Len(got) \in Nat
      /\ buffer_allocs = 1
      /\ \A i \in 1 .. Len(put) : key_buffer[i - 1] = put[i]
  BY KbdAssumption DEF OneReaderInv, FilledInv
<1>2. key_buffer \in [0 .. (CHUNK - 1) -> Chars \cup {Nul}]
  <2>1. CHUNK * 1 = CHUNK
    BY <1>1
  <2> QED BY <1>1, <2>1 DEF TypeInv, BufferInv
<1>3. /\ put' \in Seq(Chars) /\ Len(put') = Len(put) + 1
      /\ put'[Len(put) + 1] = ch
      /\ \A i \in 1 .. Len(put) : put'[i] = put[i]
  BY <1>1
<1>4. FilledInv'
  <2>1. ASSUME NEW i \in 1 .. Len(put') PROVE key_buffer'[i - 1] = put'[i]
    <3>1. CASE i = Len(put) + 1
      <4>1. i - 1 = Len(put) /\ i - 1 \in 0 .. (CHUNK - 1)
        BY <1>1, <3>1
      <4> QED BY <1>2, <1>3, <3>1, <4>1
    <3>2. CASE i # Len(put) + 1
      <4>1. i \in 1 .. Len(put) /\ i - 1 # Len(put) /\ i - 1 \in 0 .. (CHUNK - 1)
        BY <1>1, <1>3, <3>2
      <4> QED BY <1>1, <1>2, <1>3, <4>1
    <3> QED BY <3>1, <3>2
  <2> QED BY <1>1, <1>3, <2>1 DEF FilledInv, readVars
<1>5. QuietInv(r)'
  BY DEF OneReaderInv, QuietInv, readVars
<1>6. ReaderInv(r)'
  <2> SUFFICES ASSUME Len(put') < CHUNK
               PROVE  /\ buffer_start' = Len(got') /\ Len(got') <= Len(put')
                      /\ \A i \in 1 .. Len(got') : got'[i] = put'[i]
                      /\ reader'[r].at # "poll" => Len(got') < Len(put')
                      /\ reader'[r].at = "advance" => reader'[r].ch = put'[Len(got') + 1]
    BY DEF ReaderInv
  <2>1. /\ buffer_start = Len(got) /\ Len(got) <= Len(put)
        /\ \A i \in 1 .. Len(got) : got[i] = put[i]
        /\ reader[r].at # "poll" => Len(got) < Len(put)
        /\ reader[r].at = "advance" => reader[r].ch = put[Len(got) + 1]
    BY <1>1, <1>3 DEF OneReaderInv, ReaderInv
  <2>2. \A i \in 1 .. Len(got) : i \in 1 .. Len(put)
    BY <1>1, <2>1
  <2>3. reader[r].at = "advance" => Len(got) + 1 \in 1 .. Len(put)
    BY <1>1, <2>1
  <2> QED BY <1>1, <1>3, <2>1, <2>2, <2>3 DEF readVars
<1> QED BY <1>4, <1>5, <1>6 DEF OneReaderInv

(* A number below the divisor is its own remainder. *)
LEMMA SmallMod ==
  ASSUME NEW x \in Nat, NEW d \in Nat, x < d
  PROVE  x % d = x
<1>1. x = d * (x \div d) + (x % d) /\ x % d \in 0 .. (d - 1) /\ x \div d \in Int
  BY Z3T(30)
<1>2. ASSUME NEW q \in Int, NEW r \in 0 .. (d - 1), x = d * q + r PROVE q = 0
  <2>1. q >= 1 => d * q >= d
    BY Z3T(30)
  <2>2. q <= -1 => d * q <= -d
    BY Z3T(30)
  <2>3. d * q \in Int
    OBVIOUS
  <2> QED BY <1>2, <2>1, <2>2, <2>3
<1>3. x \div d = 0
  BY <1>1, <1>2
<1>4. d * 0 = 0
  OBVIOUS
<1> QED BY <1>1, <1>3, <1>4

LEMMA OneReaderStep ==
  ASSUME NEW r, Readers = {r}, TypeInv, OneReaderInv(r), [Next]_vars
  PROVE  OneReaderInv(r)'
<1>1. /\ put \in Seq(Chars) /\ Len(put) \in Nat /\ CHUNK \in Nat /\ CHUNK > 0
      /\ got \in Seq(Chars \cup {Nul}) /\ Len(got) \in Nat
      /\ buffer_allocs = 1 /\ buffer_end = Len(put) /\ Len(put) <= CHUNK
      /\ \A i \in 1 .. Len(put) : key_buffer[i - 1] = put[i]
  BY KbdAssumption DEF OneReaderInv, FilledInv
<1>2. /\ phase = "boot" => put = <<>> /\ got = <<>>
      /\ phase \in {"boot", "leds"} => reader[r].at = "poll"
  BY DEF OneReaderInv, QuietInv
<1>3. Len(put) < CHUNK =>
        /\ buffer_start = Len(got) /\ Len(got) <= Len(put)
        /\ \A i \in 1 .. Len(got) : got[i] = put[i]
        /\ reader[r].at # "poll" => Len(got) < Len(put)
        /\ reader[r].at = "advance" => reader[r].ch = put[Len(got) + 1]
  BY DEF OneReaderInv, ReaderInv
<1>4. reader \in [Readers -> [at : {"poll", "take", "advance"}, ch : Chars \cup {Nul}]]
  BY DEF TypeInv, TypeOK
<1>5. ASSUME UNCHANGED <<bufVars, readVars>>, phase' \in {phase, "run", "overrun"}
      PROVE  OneReaderInv(r)'
  BY <1>5 DEF OneReaderInv, FilledInv, QuietInv, ReaderInv, bufVars, readVars
<1>6. CASE InitBuffer
  <2>1. /\ phase = "boot" /\ phase' = "leds" /\ UNCHANGED <<put, got, reader>>
        /\ buffer_start' = 0 /\ buffer_end' = 0 /\ buffer_allocs' = 1
    BY <1>6 DEF InitBuffer, atkbd_clear_buffer, readVars
  <2>2. put = <<>> /\ got = <<>> /\ reader[r].at = "poll"
    BY <1>2, <2>1
  <2>3. Len(put) = 0 /\ Len(got) = 0
    BY <2>2
  <2>4. \A i \in 1 .. 0 : FALSE
    OBVIOUS
  <2>5. FilledInv'
    BY <1>1, <2>1, <2>3, <2>4 DEF FilledInv
  <2>6. QuietInv(r)'
    BY <2>1, <2>2 DEF QuietInv
  <2>7. ReaderInv(r)'
    BY <2>1, <2>2, <2>3, <2>4 DEF ReaderInv
  <2> QED BY <2>5, <2>6, <2>7 DEF OneReaderInv
<1>7. CASE InitLeds
  BY <1>5, <1>7 DEF InitLeds
<1>8. CASE IrqCaps
  BY <1>5, <1>8 DEF IrqCaps
<1>9. CASE IrqBreak
  BY <1>5, <1>9 DEF IrqBreak
<1>10. CASE IrqMake
  <2> DEFINE m == atkbd_process_extended(mods, Head(wire).key)
             ch == atkbd_decode(m, Head(wire).key)
             b == IF ch = Nul THEN Ring ELSE atkbd_add_buffer(ch)
  <2>1. ch \in Chars \cup {Nul}
    <3>1. m \in [shift : BOOLEAN, ctrl : BOOLEAN, alt : BOOLEAN, caps : BOOLEAN]
      BY DEF TypeInv, TypeOK, atkbd_process_extended
    <3> QED BY <3>1, DecodeType
  <2> HIDE DEF ch
  <2>2. /\ key_buffer' = b.data /\ buffer_end' = b.end
        /\ buffer_allocs' = b.allocs /\ put' = b.put
        /\ phase' = IF b.ok THEN phase ELSE "overrun"
        /\ UNCHANGED <<buffer_start, readVars>> /\ phase # "boot"
    BY <1>10 DEF IrqMake, InterruptsOn, ch
  <2>3. CASE ch = Nul
    <3>1. /\ b.data = key_buffer /\ b.end = buffer_end /\ b.allocs = buffer_allocs
          /\ b.put = put
      BY <2>3 DEF Ring
    <3>2. b.ok = TRUE
      BY <2>3 DEF Ring
    <3> HIDE DEF b
    <3> QED BY <1>5, <2>2, <3>1, <3>2 DEF bufVars
  <2>4. CASE ch # Nul
    <3>1. b = atkbd_add_buffer(ch) /\ ch \in Chars
      BY <2>1, <2>4
    <3> HIDE DEF b
    <3>2. CASE /\ Len(put) = CHUNK /\ b.ok = FALSE
               /\ b.data = key_buffer /\ b.end = buffer_end
               /\ b.allocs = buffer_allocs /\ b.put = put
      BY <1>5, <2>2, <3>2 DEF bufVars
    <3>3. CASE /\ Len(put) < CHUNK /\ b.ok = TRUE
               /\ b.data = [key_buffer EXCEPT ![Len(put)] = ch] /\ b.end = Len(put) + 1
               /\ b.allocs = buffer_allocs /\ b.put = Append(put, ch)
      <4>1. phase' = phase
        BY <2>2, <3>3
      <4> QED BY <2>2, <3>1, <3>3, <4>1, OneReaderPut
    <3> QED BY <3>1, <3>2, <3>3, AddBufferOne
  <2> QED BY <2>3, <2>4
<1>11. CASE Poll(r)
  <2>1. /\ phase' = phase /\ UNCHANGED <<bufVars, got>> /\ phase = "run"
        /\ reader'[r].at = "take" /\ buffer_start # buffer_end
    BY <1>4, <1>11 DEF Poll, NonEmpty
  <2>2. FilledInv' /\ QuietInv(r)'
    BY <2>1 DEF OneReaderInv, FilledInv, QuietInv, bufVars
  <2>3. ReaderInv(r)'
    BY <1>1, <1>3, <2>1 DEF ReaderInv, bufVars
  <2> QED BY <2>2, <2>3 DEF OneReaderInv
<1>12. CASE Take(r)
  <2>1. /\ phase' = phase /\ UNCHANGED <<bufVars, got>> /\ phase = "run"
        /\ reader'[r].at = "advance" /\ reader'[r].ch = key_buffer[buffer_start]
        /\ reader[r].at = "take"
    BY <1>4, <1>12 DEF Take, Taken
  <2>2. FilledInv' /\ QuietInv(r)'
    BY <2>1 DEF OneReaderInv, FilledInv, QuietInv, bufVars
  <2>3. ReaderInv(r)'
    <3>1. Len(put) < CHUNK => reader'[r].ch = put[Len(got) + 1]
      <4> SUFFICES ASSUME Len(put) < CHUNK PROVE reader'[r].ch = put[Len(got) + 1]
        OBVIOUS
      <4>1. Len(got) + 1 \in 1 .. Len(put) /\ (Len(got) + 1) - 1 = Len(got)
        BY <1>1, <1>3, <2>1
      <4> QED BY <1>1, <1>3, <2>1, <4>1
    <3> QED BY <1>1, <1>3, <2>1, <3>1 DEF ReaderInv, bufVars
  <2> QED BY <2>2, <2>3 DEF OneReaderInv
<1>13. CASE Advance(r)
  <2>1. /\ phase' = phase /\ phase = "run"
        /\ UNCHANGED <<key_buffer, buffer_end, buffer_allocs, put>>
        /\ buffer_start' = (buffer_start + 1) % CHUNK
        /\ got' = Append(got, reader[r].ch)
        /\ reader'[r].at = "poll" /\ reader[r].at = "advance"
    BY <1>4, <1>13 DEF Advance, Advanced
  <2>2. reader[r].ch \in Chars \cup {Nul}
    BY <1>4
  <2>3. /\ got' \in Seq(Chars \cup {Nul}) /\ Len(got') = Len(got) + 1
        /\ got'[Len(got) + 1] = reader[r].ch
        /\ \A i \in 1 .. Len(got) : got'[i] = got[i]
    BY <1>1, <2>1, <2>2
  <2>4. FilledInv' /\ QuietInv(r)'
    BY <1>1, <2>1, <2>3 DEF OneReaderInv, FilledInv, QuietInv
  <2>5. ReaderInv(r)'
    <3> SUFFICES ASSUME Len(put) < CHUNK
                 PROVE  /\ buffer_start' = Len(got') /\ Len(got') <= Len(put)
                        /\ \A i \in 1 .. Len(got') : got'[i] = put[i]
      BY <2>1 DEF ReaderInv
    <3>1. buffer_start = Len(got) /\ Len(got) < Len(put)
      BY <1>3, <2>1
    <3>2. (Len(got) + 1) % CHUNK = Len(got) + 1
      BY <1>1, <3>1, SmallMod
    <3>3. \A i \in 1 .. Len(got') : i \in 1 .. Len(got) \/ i = Len(got) + 1
      BY <1>1, <2>3
    <3>4. \A i \in 1 .. Len(got') : got'[i] = put[i]
      BY <1>3, <2>1, <2>3, <3>3
    <3> QED BY <1>1, <2>1, <2>3, <3>1, <3>2, <3>4
  <2> QED BY <2>4, <2>5 DEF OneReaderInv
<1>14. ASSUME NEW k \in Keys, Press(k) \/ LetGo(k) PROVE OneReaderInv(r)'
  BY <1>5, <1>14 DEF Press, LetGo
<1>15. CASE UNCHANGED vars
  BY <1>5, <1>15 DEF vars
<1> QED BY <1>6, <1>7, <1>8, <1>9, <1>10, <1>11, <1>12, <1>13, <1>14, <1>15 DEF Next

LEMMA OneReaderInit ==
  ASSUME NEW r, Readers = {r}, Init
  PROVE  OneReaderInv(r)
<1>1. /\ put = <<>> /\ got = <<>> /\ Len(put) = 0 /\ Len(got) = 0
      /\ buffer_start = 0 /\ buffer_end = 0 /\ buffer_allocs = 1
      /\ reader[r].at = "poll"
  BY DEF Init
<1>2. \A i \in 1 .. 0 : FALSE
  OBVIOUS
<1>3. <<>> \in Seq(Chars) /\ <<>> \in Seq(Chars \cup {Nul})
  OBVIOUS
<1>4. FilledInv
  BY <1>1, <1>2, <1>3, KbdAssumption DEF FilledInv
<1> QED BY <1>1, <1>2, <1>4 DEF OneReaderInv, QuietInv, ReaderInv

LEMMA OneReaderInvariance ==
  ASSUME NEW CONSTANT r, Readers = {r}
  PROVE  Spec => [](TypeInv /\ OneReaderInv(r))
<1>1. Init => TypeInv /\ OneReaderInv(r)
  BY TypeInit, OneReaderInit
<1>2. (TypeInv /\ OneReaderInv(r)) /\ [Next]_vars => (TypeInv /\ OneReaderInv(r))'
  BY TypeStep, OneReaderStep
<1> QED BY <1>1, <1>2, PTL DEF Spec

(* With one reader, interrupted between any two accesses to the indices,   *)
(* atkbd_add_buffer never finds the buffer full, however many characters   *)
(* are typed: its branch that grows the block and drops the character is   *)
(* dead code.                                                              *)
THEOREM NeverFullOne ==
  ASSUME NEW CONSTANT r, Readers = {r}
  PROVE  Spec => []NeverFull
<1>1. TypeInv /\ OneReaderInv(r) => NeverFull
  BY FillNotFull
<1> QED BY <1>1, OneReaderInvariance, PTL

(* With one reader the characters atkbd_get_char returns are those typed,  *)
(* in order, none twice and none skipped, until the buffer's last byte is  *)
(* written.                                                                *)
THEOREM NextTypedOne ==
  ASSUME NEW CONSTANT r, Readers = {r}
  PROVE  Spec => []NextTypedUntilWrap
<1>1. TypeInv /\ OneReaderInv(r) => NextTypedUntilWrap
  <2> SUFFICES ASSUME OneReaderInv(r), Len(put) < CHUNK PROVE NextTyped
    BY DEF NextTypedUntilWrap
  <2>1. /\ put \in Seq(Chars) /\ got \in Seq(Chars \cup {Nul})
        /\ Len(got) <= Len(put) /\ \A i \in 1 .. Len(got) : got[i] = put[i]
    BY DEF OneReaderInv, FilledInv, ReaderInv
  <2>2. SubSeq(got, 1, Len(got)) = [i \in 1 .. Len(got) |-> got[i]]
    BY <2>1
  <2>3. SubSeq(put, 1, Len(got)) = [i \in 1 .. Len(got) |-> put[i]]
    BY <2>1
  <2> QED BY <2>1, <2>2, <2>3 DEF NextTyped, IsPrefix
<1> QED BY <1>1, OneReaderInvariance, PTL
=============================================================================
