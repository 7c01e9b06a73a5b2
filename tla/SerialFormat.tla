---------------------------- MODULE SerialFormat ----------------------------
(***************************************************************************)
(* Numbers as text (serial-io/serial-io.c): what serial_io_send_unsigned,  *)
(* _hex and _int put on the stream, and what serial_io_get_unsigned, _hex  *)
(* and _int make of it at the other end.  The stream itself is ByteStream. *)
(*                                                                         *)
(* A digit is its value; int and unsigned are words of 16 bits.            *)
(***************************************************************************)
EXTENDS Integers, Sequences

CONSTANTS
  Values,    \* words sent
  None

WordSize == 65536
Minus == -1
Space == -2
End == -3       \* any character that is no part of a number
Signed(word) == IF word >= WordSize \div 2 THEN word - WordSize ELSE word
Kinds == {"unsigned", "hex", "int"}
Alignments == {"COMPACT", "LEFT", "RIGHT", "FILL"}

VARIABLES
  text,    \* characters on the way
  sent,    \* the number sent last: its kind, alignment, value and width
  got      \* what the reader made of it, or None

formatVars == <<text, sent, got>>
FormatInit == text = <<>> /\ sent = None /\ got = None

(* The loops over the digits: nothing for the zeros in front but what the   *)
(* alignment asks for, the last digit in any case.                          *)
Pad(char, n) == [i \in 1 .. n |-> char]
Number(value, base, places, alignment) ==
  LET digit   == [i \in 1 .. places |-> (value \div base ^ (places - i)) % base]
      first   == CHOOSE i \in 1 .. places :
                   (i = places \/ digit[i] # 0) /\ \A j \in 1 .. i - 1 : digit[j] = 0
  IN  (CASE alignment = "RIGHT" -> Pad(Space, first - 1)
         [] alignment = "FILL" -> Pad(0, first - 1)
         [] OTHER -> <<>>)
      \o SubSeq(digit, first, places)
      \o Pad(Space, IF alignment = "LEFT" THEN first - 1 ELSE 0)

Send(kind, value, alignment, characters) ==
  /\ text = <<>> /\ text' = Append(characters, End)
  /\ sent' = [kind |-> kind, value |-> value, alignment |-> alignment, width |-> Len(characters)]
  /\ got' = None
serial_io_send_unsigned ==
  \E v \in Values, a \in Alignments : Send("unsigned", v, a, Number(v, 10, 5, a))
serial_io_send_hex ==
  \E v \in Values, a \in Alignments : Send("hex", v, a, Number(v, 16, 4, a))
(* The magnitude of the smallest int is its own bit pattern.                *)
serial_io_send_int ==
  \E v \in Values, a \in Alignments :
    Send("int", v, a,
         IF Signed(v) < 0 THEN <<Minus>> \o Number((-Signed(v)) % WordSize, 10, 5, a)
         ELSE Pad(Space, IF a = "COMPACT" THEN 0 ELSE 1) \o Number(v, 10, 5, a))

(* The readers look at the head and take it while it is a digit.            *)
Take(n) == text' = SubSeq(text, n + 1, Len(text)) /\ UNCHANGED sent
Digits(s, base) ==
  CHOOSE n \in 0 .. Len(s) : /\ \A i \in 1 .. n : s[i] \in 0 .. base - 1
                             /\ n = Len(s) \/ s[n + 1] \notin 0 .. base - 1
Value(s, base) ==
  LET val[n \in 0 .. Len(s)] == IF n = 0 THEN 0 ELSE (val[n - 1] * base + s[n]) % WordSize
  IN  val[Digits(s, base)]
Reading(kind) == text # <<>> /\ got = None /\ Head(text) # Space /\ sent.kind = kind
serial_io_get_unsigned ==
  Reading("unsigned") /\ got' = Value(text, 10) /\ Take(Digits(text, 10))
serial_io_get_hex ==
  Reading("hex") /\ got' = Value(text, 16) /\ Take(Digits(text, 16))
serial_io_get_int ==
  /\ Reading("int")
  /\ IF Head(text) = Minus
     THEN got' = (-Value(Tail(text), 10)) % WordSize /\ Take(1 + Digits(Tail(text), 10))
     ELSE got' = Value(text, 10) /\ Take(Digits(text, 10))

(* The application passes over the blanks in front of a number, and over    *)
(* what follows it.                                                         *)
Skip ==
  /\ text # <<>> /\ (got # None \/ Head(text) = Space)
  /\ text' = Tail(text) /\ UNCHANGED <<sent, got>>

FormatNext ==
  \/ serial_io_send_unsigned \/ serial_io_send_hex \/ serial_io_send_int
  \/ serial_io_get_unsigned \/ serial_io_get_hex \/ serial_io_get_int
  \/ Skip

(* A number comes back as it went, whatever its alignment (serial-io.c:     *)
(* 194-267, 372-477), except that blanks between the sign and the digits    *)
(* (a negative int aligned right) make it a zero; and "numbers always are   *)
(* of constant width" (:370) unless they are compact.                       *)
FormatTrue ==
  /\ got # None => \/ got = sent.value
                   \/ sent.kind = "int" /\ Signed(sent.value) < 0 /\ sent.alignment = "RIGHT"
  /\ sent # None => \/ sent.alignment = "COMPACT"
                    \/ sent.width = (CASE sent.kind = "hex" -> 4 [] sent.kind = "unsigned" -> 5
                                        [] sent.kind = "int" -> 6)
=============================================================================
