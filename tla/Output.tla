--------------------------------- MODULE Output ---------------------------------
(***************************************************************************)
(* How a path, a code or a message is written into a diagnostic            *)
(* (src/src/cli_output.c).  A text is a sequence of bytes other than 0.    *)
(***************************************************************************)
EXTENDS Integers, Sequences

CONSTANT Texts   \* the paths whose printing is looked at

ASSUME TextsAssumption == Texts \subseteq Seq(1..255)

\* A loop over places 1..size that prints pieces[k] and goes on steps[k] further.
Remaining(size, pieces, steps) ==
  LET from[k \in 1..(size + 1)] ==
        IF k > size THEN <<>> ELSE pieces[k] \o from[k + steps[k]]
  IN  from

Joined(size, pieces, steps) == Remaining(size, pieces, steps)[1]

--------------------------------------------------------------------------------
\* The bytes of the characters that mark an escape.
Backslash == 92
Quote == 34
Letter == [b |-> 98, f |-> 102, n |-> 110, r |-> 114, t |-> 116, u |-> 117, x |-> 120]
Zero == 48

HexDigit(n) == IF n < 10 THEN Zero + n ELSE 97 + n - 10
Hex(byte) == <<HexDigit(byte \div 16), HexDigit(byte % 16)>>

--------------------------------------------------------------------------------
(* utf8_sequence_length *)

Continues(text, k, length) ==
  k + length - 1 <= Len(text) /\ \A n \in 1..(length - 1) : text[k + n] \in 128..191

ValidThree(text, k) ==
  /\ text[k] \in 224..239 /\ Continues(text, k, 3)
  /\ text[k] = 224 => text[k + 1] >= 160
  /\ text[k] = 237 => text[k + 1] <= 159

\* Seeded fault: four bytes may encode more than U+10FFFF.
ValidFourBeyond(text, k) ==
  /\ text[k] \in 240..244 /\ Continues(text, k, 4)
  /\ text[k] = 240 => text[k + 1] >= 144

ValidFour(text, k) ==
  /\ text[k] \in 240..244 /\ Continues(text, k, 4)
  /\ text[k] = 240 => text[k + 1] >= 144
  /\ text[k] = 244 => text[k + 1] <= 143

SequenceLength(text, k) ==
  CASE text[k] < 128 -> 1
    [] text[k] \in 194..223 /\ Continues(text, k, 2) -> 2
    [] ValidThree(text, k) -> 3
    [] ValidFour(text, k) -> 4
    [] OTHER -> 0

--------------------------------------------------------------------------------
(* The writers of the two formats *)

Short == [byte \in {8, 9, 10, 12, 13} |->
            CASE byte = 8 -> Letter.b [] byte = 9 -> Letter.t [] byte = 10 -> Letter.n
              [] byte = 12 -> Letter.f [] byte = 13 -> Letter.r]

Unicode(byte) == <<Backslash, Letter.u, Zero, Zero>> \o Hex(byte)

Control(byte) == IF byte \in DOMAIN Short THEN <<Backslash, Short[byte]>> ELSE Unicode(byte)

TextCharacter(byte) ==
  IF byte = Backslash THEN <<Backslash, Backslash>>
  ELSE IF byte < 32 \/ byte = 127 THEN Control(byte) ELSE <<byte>>

JsonCharacter(byte) ==
  IF byte \in {Quote, Backslash} THEN <<Backslash, byte>>
  ELSE IF byte < 32 THEN Control(byte) ELSE <<byte>>

InvalidByte(format, byte) ==
  IF format = "json" THEN Unicode(byte) ELSE <<Backslash, Letter.x>> \o Hex(byte)

Character(format, byte) ==
  IF format = "json" THEN JsonCharacter(byte) ELSE TextCharacter(byte)

\* The bytes that one step of the loop takes, and what it prints for them.
Taken(text, k) == IF SequenceLength(text, k) = 0 THEN 1 ELSE SequenceLength(text, k)

Printed(format, text, k) ==
  CASE SequenceLength(text, k) = 0 -> InvalidByte(format, text[k])
    [] SequenceLength(text, k) = 1 -> Character(format, text[k])
    [] OTHER -> SubSeq(text, k, k + SequenceLength(text, k) - 1)

\* write_utf8_string
Written(format, text) ==
  Joined(Len(text), [k \in 1..Len(text) |-> Printed(format, text, k)],
                    [k \in 1..Len(text) |-> Taken(text, k)])

--------------------------------------------------------------------------------
(* Reference: reading UTF-8 by what it encodes, and reading escapes back *)

\* The length the first byte announces, and the number that so many bytes hold.
Announced(byte) ==
  CASE byte < 128 -> 1 [] byte \in 192..223 -> 2 [] byte \in 224..239 -> 3
    [] byte \in 240..247 -> 4 [] OTHER -> 0

Scalar(text, k, length) ==
  LET Low(n) == text[k + n] % 64
  IN  CASE length = 1 -> text[k]
        [] length = 2 -> (text[k] % 32) * 64 + Low(1)
        [] length = 3 -> (text[k] % 16) * 4096 + Low(1) * 64 + Low(2)
        [] length = 4 -> (text[k] % 8) * 262144 + Low(1) * 4096 + Low(2) * 64 + Low(3)

Smallest == <<0, 128, 2048, 65536>>

Encodes(text, k, length) ==
  /\ length > 0 /\ Continues(text, k, length)
  /\ LET scalar == Scalar(text, k, length)
     IN  scalar >= Smallest[length] /\ scalar <= 1114111 /\ scalar \notin 55296..57343

\* The bytes that belong to no character.
Strays(text) ==
  LET Whole(k) == Encodes(text, k, Announced(text[k]))
  IN  Joined(Len(text), [k \in 1..Len(text) |-> IF Whole(k) THEN <<>> ELSE <<text[k]>>],
                        [k \in 1..Len(text) |-> IF Whole(k) THEN Announced(text[k]) ELSE 1])

WellFormed(text) == Strays(text) = <<>>

\* The length of an escape by the character after its backslash.
EscapeLength(character) ==
  CASE character = Letter.x -> 4 [] character = Letter.u -> 6 [] OTHER -> 2

IsEscape(line, k) ==
  /\ line[k] = Backslash /\ k < Len(line)
  /\ k + EscapeLength(line[k + 1]) <= Len(line) + 1

Value(digit) == IF digit < 97 THEN digit - Zero ELSE digit - 97 + 10
Byte(line, k) == 16 * Value(line[k]) + Value(line[k + 1])

Unescaped(line, k) ==
  LET character == line[k + 1]
  IN  CASE character = Letter.x -> Byte(line, k + 2)
        [] character = Letter.u -> Byte(line, k + 4)
        [] character = Letter.b -> 8
        [] character = Letter.t -> 9
        [] character = Letter.n -> 10
        [] character = Letter.f -> 12
        [] character = Letter.r -> 13
        [] OTHER -> character

ReadBack(line) ==
  Joined(Len(line),
         [k \in 1..Len(line) |->
            <<IF IsEscape(line, k) THEN Unescaped(line, k) ELSE line[k]>>],
         [k \in 1..Len(line) |->
            IF IsEscape(line, k) THEN EscapeLength(line[k + 1]) ELSE 1])

Controls == 0..31

\* What must hold of the two forms in which a text is printed.
Faithful(text) ==
  LET line == Written("text", text)
      json == Written("json", text)
  IN  /\ WellFormed(line) /\ \A n \in DOMAIN line : line[n] \notin Controls \cup {127}
      /\ WellFormed(json) /\ \A n \in DOMAIN json : json[n] \notin Controls
      /\ ReadBack(line) = text
      /\ WellFormed(text) => ReadBack(json) = text
      /\ WellFormed(text) /\ (\A n \in DOMAIN text : text[n] \in (32..255) \ {34, 92, 127})
           => line = text /\ json = text

Unfaithful == {text \in Texts : ~Faithful(text)}

================================================================================
