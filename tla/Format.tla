------------------------------- MODULE Format -------------------------------
(***************************************************************************)
(* vsnprintf of sys/kern/printk.c.  A format is a sequence of items: a     *)
(* literal character, or a directive together with its argument.           *)
(* Numbers are not negative (the code would read its digits in front of    *)
(* the table), and a format does not end in '%' (the code would go on      *)
(* reading behind it): every format in the tree is a literal, and none     *)
(* does.                                                                   *)
(***************************************************************************)
EXTENDS Integers, FiniteSets, SequencesExt

Lit(c) == [kind |-> "lit", arg |-> c]
Dir(kind, arg) == [kind |-> kind, arg |-> arg]  \* "s", "d", "x", "u", "llx", "other"

Hex == <<"0", "1", "2", "3", "4", "5", "6", "7", "8", "9", "A", "B", "C", "D", "E", "F">>

Chars(digits) == [i \in DOMAIN digits |-> Hex[digits[i] + 1]]

(* The loop num /= base: its digits, last one first, at most max of them. *)
Tmp(num, base, max) ==
  LET n[i \in 0 .. max] == IF i = 0 THEN num ELSE n[i - 1] \div base
      len == Cardinality({i \in 0 .. (max - 1) : n[i] # 0})
  IN  Chars([i \in 1 .. len |-> n[i - 1] % base])

(* What a number's directive prints: %d and %x nothing at all for 0, %llx  *)
(* always sixteen digits.  %llu is %u with a wider argument.               *)
Number(item) ==
  CASE item.kind = "d" -> Reverse(Tmp(item.arg, 10, 10))
    [] item.kind = "x" -> Reverse(Tmp(item.arg, 16, 10))
    [] item.kind = "u" -> IF item.arg = 0 THEN <<"0">> ELSE Reverse(Tmp(item.arg, 10, 20))
    [] item.kind = "llx" -> LET t == Tmp(item.arg, 16, 16)
                            IN  Reverse(t \o [i \in 1 .. (16 - Len(t)) |-> "0"])

(* Mutant: the copy of a string does not look at the buffer's size. *)
RoomMutant(buf, s, size) == s

(* The part of a string for which there is room behind buf. *)
Room(buf, s, size) ==
  LET n == size - 1 - Len(buf)
  IN  SubSeq(s, 1, IF Len(s) < n THEN Len(s) ELSE n)

(* One turn of the loop: the size is looked at once, in front of the item, *)
(* and inside the copy of a string.                                        *)
Item(size, buf, item) ==
  IF Len(buf) >= size - 1 THEN buf
  ELSE buf \o CASE item.kind \in {"lit", "other"} -> <<item.arg>>
                [] item.kind = "s" -> Room(buf, item.arg, size)
                [] OTHER -> Number(item)

(* The characters put in front of the closing NUL. *)
vsnprintf(size, fmt) == FoldLeft(LAMBDA buf, item : Item(size, buf, item), <<>>, fmt)
=============================================================================
