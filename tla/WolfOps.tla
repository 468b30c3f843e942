------------------------------ MODULE WolfOps ------------------------------
(***************************************************************************)
(* The byte operations of AstroBWTv3's wolf loop, in the three forms the   *)
(* repository keeps: the 256-case switch of internal/astrobwt/pow.go, the  *)
(* table wolfOps that cmd/genwolf derives from it (wolftable_gen.go), and  *)
(* the interpreter of that table (wolftable.go), which the GPU kernel      *)
(* translates.  A statement of a case is named after its right-hand side;  *)
(* "swap" and "hash" are the two statements that are no byte operation.    *)
(***************************************************************************)
LOCAL INSTANCE Integers
LOCAL INSTANCE Sequences

Byte == 0 .. 255

Pow(k) == <<1, 2, 4, 8, 16, 32, 64, 128, 256>>[k + 1]
Bit(x, k) == (x \div Pow(k)) % 2

\* The two binary bit operations, by halves: TLC computes the tables once.
Nibble == 0 .. 15
Half(b, c, d, e) == 8 * b + 4 * c + 2 * d + e
Xor(x, y, k) == IF Bit(x, k) = Bit(y, k) THEN 0 ELSE 1
And(x, y, k) == IF Bit(x, k) = 1 /\ Bit(y, k) = 1 THEN 1 ELSE 0
Xor4 == [x \in Nibble |-> [y \in Nibble |-> Half(Xor(x, y, 3), Xor(x, y, 2), Xor(x, y, 1), Xor(x, y, 0))]]
And4 == [x \in Nibble |-> [y \in Nibble |-> Half(And(x, y, 3), And(x, y, 2), And(x, y, 1), And(x, y, 0))]]
Xor8(x, y) == 16 * Xor4[x \div 16][y \div 16] + Xor4[x % 16][y % 16]
And8(x, y) == 16 * And4[x \div 16][y \div 16] + And4[x % 16][y % 16]

RotateLeft8(x, k) == LET r == k % 8 IN ((x * Pow(r)) % 256) + (x \div Pow(8 - r))
OnesCount8(x) ==
  Bit(x, 0) + Bit(x, 1) + Bit(x, 2) + Bit(x, 3) + Bit(x, 4) + Bit(x, 5) + Bit(x, 6) + Bit(x, 7)
Reverse8(x) == 16 * Half(Bit(x, 0), Bit(x, 1), Bit(x, 2), Bit(x, 3))
                  + Half(Bit(x, 4), Bit(x, 5), Bit(x, 6), Bit(x, 7))

\* One statement of a switch case: the new step_3[i] from the old one (x) and
\* step_3[pos2] (p).
Stmt(s, x, p) ==
  CASE s = "add"   -> (x + x) % 256
    [] s = "mul"   -> (x * x) % 256
    [] s = "sub97" -> (x - Xor8(x, 97)) % 256
    [] s = "not"   -> 255 - x
    [] s = "xor"   -> Xor8(x, p)
    [] s = "and"   -> And8(x, p)
    [] s = "pop"   -> Xor8(x, OnesCount8(x))
    [] s = "rev"   -> Reverse8(x)
    [] s = "rotx"  -> RotateLeft8(x, x)
    [] s = "shl"   -> (x * Pow(x % 4)) % 256
    [] s = "shr"   -> x \div Pow(x % 4)
    [] s = "rot1"  -> RotateLeft8(x, 1)
    [] s = "rot3"  -> RotateLeft8(x, 3)
    [] s = "rot5"  -> RotateLeft8(x, 5)
    [] s = "xrot2" -> Xor8(x, RotateLeft8(x, 2))
    [] s = "xrot4" -> Xor8(x, RotateLeft8(x, 4))

-----------------------------------------------------------------------------
(* The switch, sixteen cases per definition.                               *)

Cases0 ==
  << <<"pop", "rot5", "mul", "rotx", "swap">>, <<"shl", "rot1", "and", "add">>, <<"pop", "rev", "shl", "pop">>,
    <<"rotx", "rot3", "xor", "rot1">>, <<"not", "shr", "rotx", "sub97">>, <<"pop", "xor", "shl", "shr">>,
    <<"shl", "rot3", "not", "sub97">>, <<"add", "rotx", "pop", "not">>, <<"not", "rot5", "rot5", "shl">>,
    <<"xor", "xrot4", "shr", "xrot2">>, <<"not", "mul", "rot3", "mul">>, <<"rot1", "rot5", "and", "rotx">>,
    <<"xrot2", "mul", "xrot2", "not">>, <<"rot1", "xor", "shr", "rot5">>, <<"shr", "shl", "mul", "shl">>,
    <<"xrot2", "shl", "and", "sub97">> >>

Cases1 ==
  << <<"xrot4", "mul", "rot1", "not">>, <<"xor", "mul", "rot5", "not">>, <<"xrot4", "rot3", "rot1", "rot5">>,
    <<"sub97", "rot5", "shl", "add">>, <<"and", "xor", "rev", "xrot2">>, <<"rot1", "xor", "add", "and">>,
    <<"shl", "rev", "mul", "rot1">>, <<"rot3", "rot1", "pop", "and">>, <<"add", "shr", "xrot4", "rot5">>,
    <<"pop", "rot3", "rotx", "sub97">>, <<"mul", "pop", "add", "rev">>, <<"rot5", "and", "xrot4", "rot5">>,
    <<"shl", "add", "add", "rot5">>, <<"mul", "xor", "shr", "add">>, <<"and", "xrot4", "rot5", "shl">>,
    <<"not", "xrot2", "shl", "mul">> >>

Cases2 ==
  << <<"xrot2", "rev", "rot3", "xrot2">>, <<"rotx", "xrot4", "rev", "mul">>, <<"sub97", "shl", "shl", "sub97">>,
    <<"add", "not", "rot1", "xor">>, <<"pop", "rot1", "xrot2", "rot1">>, <<"rotx", "shr", "shr", "mul">>,
    <<"shr", "rot3", "pop", "rotx">>, <<"xrot2", "xor", "shr", "and">>, <<"rotx", "xor", "pop", "xor">>,
    <<"rot5", "sub97", "rot3", "xrot4">>, <<"rot1", "rot3", "xrot2", "rotx">>, <<"and", "add", "and", "sub97">>,
    <<"pop", "pop", "rot3", "rotx">>, <<"rot5", "rot5", "and", "pop">>, <<"pop", "add", "rot5", "xrot4">>,
    <<"rot5", "and", "rot5", "shl">> >>

Cases3 ==
  << <<"rotx", "not", "not", "rot5">>, <<"pop", "add", "rev", "xrot4">>, <<"rev", "rot3", "add", "rot1">>,
    <<"xor", "xrot4", "xrot4", "rot5">>, <<"rotx", "shr", "not", "pop">>, <<"add", "pop", "xrot4", "xrot4">>,
    <<"rev", "xor", "not", "not">>, <<"rev", "xrot4", "xrot4", "rot1">>, <<"xrot2", "mul", "not", "rot1">>,
    <<"rotx", "rot5", "rot3", "rev">>, <<"rev", "xrot2", "and", "add">>, <<"rot1", "mul", "rotx", "not">>,
    <<"xor", "not", "mul", "rot3">>, <<"rot5", "shl", "rot3", "rot5">>, <<"and", "not", "xrot2", "add">>,
    <<"rot5", "pop", "sub97", "add">> >>

Cases4 ==
  << <<"xor", "rev", "xrot4", "mul">>, <<"rot5", "rot3", "xrot2", "mul">>, <<"xrot2", "rev", "xrot4", "rot1">>,
    <<"rot1", "pop", "xrot2", "rot5">>, <<"and", "not", "xrot4", "xor">>, <<"add", "mul", "rev", "shr">>,
    <<"xor", "mul", "shr", "xrot4">>, <<"rot5", "not", "mul", "shl">>, <<"rev", "pop", "xor", "shl">>,
    <<"pop", "rev", "rot5", "sub97">>, <<"mul", "rot3", "rev", "and">>, <<"mul", "pop", "and", "xrot4">>,
    <<"rotx", "xrot2", "rot5", "shr">>, <<"rot3", "add", "shl", "pop">>, <<"rotx", "rev", "mul", "sub97">>,
    <<"xrot4", "xrot2", "add", "mul">> >>

Cases5 ==
  << <<"rotx", "shl", "add", "and">>, <<"xrot4", "shl", "rotx", "pop">>, <<"xor", "not", "not", "shr">>,
    <<"shl", "rev", "rot3", "rev">>, <<"sub97", "rot1", "shl", "add">>, <<"shr", "xor", "rotx", "shl">>,
    <<"xrot4", "rotx", "xrot4", "not">>, <<"add", "rot3", "xrot4", "add">>, <<"xrot2", "rot1", "mul", "not">>,
    <<"add", "mul", "not", "xrot2">>, <<"rev", "rot5", "rot1", "shr">>, <<"pop", "and", "xrot4", "rev">>,
    <<"pop", "not", "pop", "and">>, <<"xrot2", "mul", "and", "add">>, <<"rot1", "rotx", "and", "shl">>,
    <<"rot1", "not", "rot5", "rot5">> >>

Cases6 ==
  << <<"xrot2", "xrot2", "pop", "rot1">>, <<"rot1", "shl", "pop", "shr">>, <<"xrot4", "shl", "shr", "xrot4">>,
    <<"xrot4", "sub97", "rev", "shr">>, <<"rotx", "shl", "rev", "pop">>, <<"shr", "pop", "shr", "not">>,
    <<"rot3", "sub97", "add", "rot3">>, <<"rot1", "rev", "xor", "rotx">>, <<"rev", "pop", "rot5", "add">>,
    <<"shl", "rot3", "rotx", "xrot2">>, <<"rev", "xrot4", "rot1", "mul">>, <<"shr", "xrot2", "rot5", "rot1">>,
    <<"xor", "not", "and", "xrot2">>, <<"mul", "rotx", "xor", "xrot2">>, <<"add", "xrot2", "xrot2", "shr">>,
    <<"mul", "rev", "mul", "shr">> >>

Cases7 ==
  << <<"rot3", "not", "rot5", "sub97">>, <<"rot5", "rot1", "pop", "not">>, <<"rot1", "rev", "rotx", "not">>,
    <<"rotx", "rot5", "and", "rot3">>, <<"and", "xor", "pop", "shl">>, <<"shl", "rot3", "shl", "and">>,
    <<"shr", "add", "shl", "rot5">>, <<"rev", "xrot2", "not", "xor">>, <<"xrot2", "mul", "xor", "rev">>,
    <<"shr", "add", "pop", "mul">>, <<"xrot4", "rotx", "rot5", "xrot2">>, <<"and", "not", "rot3", "rot3">>,
    <<"xrot2", "xrot2", "xor", "not">>, <<"rev", "xrot2", "add", "shr">>, <<"rot3", "rot1", "rot5", "rev">>,
    <<"shl", "mul", "and", "xor">> >>

Cases8 ==
  << <<"rotx", "xrot2", "xrot2", "rot5">>, <<"not", "pop", "pop", "shr">>, <<"shr", "rotx", "rot1", "xrot4">>,
    <<"sub97", "rot1", "pop", "mul">>, <<"and", "rev", "rot5", "xrot2">>, <<"xor", "rot5", "xrot2", "shl">>,
    <<"not", "xrot4", "rot1", "and">>, <<"shr", "xrot2", "add", "rev">>, <<"shr", "sub97", "xor", "rot5">>,
    <<"rot5", "shr", "rev", "rotx">>, <<"xor", "xor", "add", "sub97">>, <<"rot5", "rot3", "xrot2", "rot3">>,
    <<"rot1", "xrot2", "xor", "rot5">>, <<"rot1", "sub97", "pop", "add">>, <<"and", "rot5", "rev", "xrot2">>,
    <<"and", "rot3", "shr", "shl">> >>

Cases9 ==
  << <<"rotx", "shl", "not", "rotx">>, <<"rev", "xrot4", "xrot2", "xrot4">>, <<"and", "shl", "and", "pop">>,
    <<"not", "shl", "xrot4", "mul">>, <<"and", "rot5", "shl", "sub97">>, <<"xor", "rev", "sub97", "add">>,
    <<"shl", "shl", "shl", "and">>, <<"add", "shl", "mul", "shl">>, <<"shr", "not", "shl", "xrot2">>,
    <<"rot1", "rot3", "not", "not">>, <<"rot5", "not", "xor", "pop">>, <<"sub97", "xor", "pop", "xor">>,
    <<"shr", "shr", "rot3", "rot1">>, <<"shr", "shl", "rotx", "rot1">>, <<"pop", "rot3", "add", "rot1">>,
    <<"sub97", "xor", "rotx", "xor">> >>

Cases10 ==
  << <<"shr", "rev", "rot1", "rot3">>, <<"xor", "xor", "rot5", "rotx">>, <<"mul", "rev", "xrot2", "sub97">>,
    <<"shl", "sub97", "xrot4", "rot1">>, <<"mul", "pop", "sub97", "not">>, <<"xrot4", "xor", "shl", "add">>,
    <<"rot3", "add", "xrot2", "not">>, <<"not", "not", "mul", "shr">>, <<"rotx", "and", "rotx", "rot1">>,
    <<"rot1", "shl", "xrot4", "and">>, <<"sub97", "rev", "sub97", "mul">>, <<"rot3", "sub97", "pop", "rev">>,
    <<"xrot4", "sub97", "shl", "rot1">>, <<"not", "shl", "mul", "add">>, <<"not", "rotx", "pop", "pop">>,
    <<"rot3", "sub97", "mul", "rot5">> >>

Cases11 ==
  << <<"xor", "mul", "xor", "rot5">>, <<"pop", "xrot2", "xrot2", "and">>, <<"and", "add", "not", "rot1">>,
    <<"xrot2", "add", "shr", "rev">>, <<"shr", "xrot4", "xor", "sub97">>, <<"not", "shl", "xrot2", "rot5">>,
    <<"xor", "rot1", "rot5", "xrot4">>, <<"add", "sub97", "sub97", "mul">>, <<"shl", "mul", "rot5", "xor">>,
    <<"not", "xrot4", "rot5", "shr">>, <<"xrot2", "xrot4", "sub97", "shr">>, <<"xor", "not", "add", "rot3">>,
    <<"xrot4", "pop", "xrot4", "xrot4">>, <<"rot5", "xrot4", "xor", "sub97">>, <<"rot5", "shr", "and", "xrot2">>,
    <<"add", "rot3", "rotx", "shr">> >>

Cases12 ==
  << <<"add", "shl", "add", "mul">>, <<"and", "shl", "rotx", "rot1">>, <<"and", "rotx", "shl", "and">>,
    <<"pop", "xrot2", "xor", "xrot4">>, <<"rot3", "rev", "shl", "rot1">>, <<"xrot4", "rotx", "mul", "mul">>,
    <<"shr", "shr", "rev", "rot1">>, <<"not", "add", "mul", "xor">>, <<"shr", "pop", "rev", "rev">>,
    <<"rot3", "xrot2", "xrot4", "not">>, <<"xor", "not", "rotx", "rot5">>, <<"xor", "and", "rot1", "rotx">>,
    <<"rot5", "xrot2", "rotx", "xor">>, <<"pop", "xrot4", "shl", "add">>, <<"xrot4", "rev", "rev", "pop">>,
    <<"rot5", "rot3", "pop", "pop">> >>

Cases13 ==
  << <<"add", "add", "shr", "rot3">>, <<"rot5", "rev", "pop", "sub97">>, <<"xrot2", "rotx", "rot5", "not">>,
    <<"xrot4", "add", "sub97", "rotx">>, <<"rotx", "xrot2", "xor", "xor">>, <<"add", "shl", "rot3", "sub97">>,
    <<"xor", "sub97", "shr", "not">>, <<"xor", "and", "shl", "mul">>, <<"rotx", "not", "sub97", "and">>,
    <<"rot5", "add", "rot1", "xrot4">>, <<"rev", "not", "mul", "sub97">>, <<"xrot4", "rot3", "and", "rev">>,
    <<"rot1", "shl", "rev", "shl">>, <<"rot5", "xor", "not", "rev">>, <<"shr", "shl", "xor", "mul">>,
    <<"rot3", "xor", "rotx", "sub97">> >>

Cases14 ==
  << <<"xrot2", "rot1", "rot3", "shl">>, <<"not", "shr", "rev", "rot3">>, <<"rev", "sub97", "mul", "xor">>,
    <<"not", "shl", "sub97", "and">>, <<"add", "shr", "add", "pop">>, <<"rot3", "rotx", "xrot2", "pop">>,
    <<"mul", "and", "rotx", "rotx">>, <<"rot3", "shr", "xor", "rev">>, <<"mul", "mul", "xrot4", "rot5">>,
    <<"rot1", "pop", "rot3", "pop">>, <<"and", "mul", "shr", "xor">>, <<"xrot2", "mul", "rot3", "not">>,
    <<"xor", "add", "and", "sub97">>, <<"rot5", "shl", "xrot2", "rot3">>, <<"add", "add", "rot3", "sub97">>,
    <<"rot5", "rot1", "mul", "and">> >>

Cases15 ==
  << <<"not", "add", "and", "shl">>, <<"xrot4", "pop", "xor", "rot1">>, <<"add", "add", "sub97", "xor">>,
    <<"rot5", "xrot2", "pop", "rot1">>, <<"not", "xrot2", "rev", "rot5">>, <<"sub97", "rot5", "xrot2", "shr">>,
    <<"add", "rot1", "shr", "add">>, <<"rot5", "xrot2", "rot5", "not">>, <<"not", "sub97", "pop", "rot5">>,
    <<"rev", "xrot4", "xrot4", "rotx">>, <<"and", "rotx", "pop", "xrot4">>, <<"add", "pop", "rev", "xrot2">>,
    <<"rev", "xrot4", "xrot2", "shl">>, <<"rot3", "xrot2", "xor", "rot3", "hash">>, <<"pop", "rot3", "xrot2", "rot3">>,
    <<"pop", "rot3", "xrot2", "rot3">> >>

\* The statements of case c, in order.
Cases(c) ==
  <<Cases0, Cases1, Cases2, Cases3, Cases4, Cases5, Cases6, Cases7,
    Cases8, Cases9, Cases10, Cases11, Cases12, Cases13, Cases14, Cases15>>[(c \div 16) + 1][(c % 16) + 1]

\* Cases 254 and 255 take a new RC4 key before their byte loop.
Rekeys == {254, 255}

-----------------------------------------------------------------------------
(* The generated table, op * 256 + param, sixteen rows per definition.     *)

Ops0 ==
  << <<\h0800, \h0105, \h0c00, \h0a00>>, <<\h0300, \h0101, \h0600, \h0b00>>, <<\h0800, \h0900, \h0300, \h0800>>, <<\h0a00, \h0103, \h0500, \h0101>>,
     <<\h0700, \h0400, \h0a00, \h0d00>>, <<\h0800, \h0500, \h0300, \h0400>>, <<\h0300, \h0103, \h0700, \h0d00>>, <<\h0b00, \h0a00, \h0800, \h0700>>,
     <<\h0700, \h0105, \h0105, \h0300>>, <<\h0500, \h0204, \h0400, \h0202>>, <<\h0700, \h0c00, \h0103, \h0c00>>, <<\h0101, \h0105, \h0600, \h0a00>>,
     <<\h0202, \h0c00, \h0202, \h0700>>, <<\h0101, \h0500, \h0400, \h0105>>, <<\h0400, \h0300, \h0c00, \h0300>>, <<\h0202, \h0300, \h0600, \h0d00>> >>

Ops1 ==
  << <<\h0204, \h0c00, \h0101, \h0700>>, <<\h0500, \h0c00, \h0105, \h0700>>, <<\h0204, \h0103, \h0101, \h0105>>, <<\h0d00, \h0105, \h0300, \h0b00>>,
     <<\h0600, \h0500, \h0900, \h0202>>, <<\h0101, \h0500, \h0b00, \h0600>>, <<\h0300, \h0900, \h0c00, \h0101>>, <<\h0103, \h0101, \h0800, \h0600>>,
     <<\h0b00, \h0400, \h0204, \h0105>>, <<\h0800, \h0103, \h0a00, \h0d00>>, <<\h0c00, \h0800, \h0b00, \h0900>>, <<\h0105, \h0600, \h0204, \h0105>>,
     <<\h0300, \h0b00, \h0b00, \h0105>>, <<\h0c00, \h0500, \h0400, \h0b00>>, <<\h0600, \h0204, \h0105, \h0300>>, <<\h0700, \h0202, \h0300, \h0c00>> >>

Ops2 ==
  << <<\h0202, \h0900, \h0103, \h0202>>, <<\h0a00, \h0204, \h0900, \h0c00>>, <<\h0d00, \h0300, \h0300, \h0d00>>, <<\h0b00, \h0700, \h0101, \h0500>>,
     <<\h0800, \h0101, \h0202, \h0101>>, <<\h0a00, \h0400, \h0400, \h0c00>>, <<\h0400, \h0103, \h0800, \h0a00>>, <<\h0202, \h0500, \h0400, \h0600>>,
     <<\h0a00, \h0500, \h0800, \h0500>>, <<\h0105, \h0d00, \h0103, \h0204>>, <<\h0101, \h0103, \h0202, \h0a00>>, <<\h0600, \h0b00, \h0600, \h0d00>>,
     <<\h0800, \h0800, \h0103, \h0a00>>, <<\h0105, \h0105, \h0600, \h0800>>, <<\h0800, \h0b00, \h0105, \h0204>>, <<\h0105, \h0600, \h0105, \h0300>> >>

Ops3 ==
  << <<\h0a00, \h0700, \h0700, \h0105>>, <<\h0800, \h0b00, \h0900, \h0204>>, <<\h0900, \h0103, \h0b00, \h0101>>, <<\h0500, \h0204, \h0204, \h0105>>,
     <<\h0a00, \h0400, \h0700, \h0800>>, <<\h0b00, \h0800, \h0204, \h0204>>, <<\h0900, \h0500, \h0700, \h0700>>, <<\h0900, \h0204, \h0204, \h0101>>,
     <<\h0202, \h0c00, \h0700, \h0101>>, <<\h0a00, \h0105, \h0103, \h0900>>, <<\h0900, \h0202, \h0600, \h0b00>>, <<\h0101, \h0c00, \h0a00, \h0700>>,
     <<\h0500, \h0700, \h0c00, \h0103>>, <<\h0105, \h0300, \h0103, \h0105>>, <<\h0600, \h0700, \h0202, \h0b00>>, <<\h0105, \h0800, \h0d00, \h0b00>> >>

Ops4 ==
  << <<\h0500, \h0900, \h0204, \h0c00>>, <<\h0105, \h0103, \h0202, \h0c00>>, <<\h0202, \h0900, \h0204, \h0101>>, <<\h0101, \h0800, \h0202, \h0105>>,
     <<\h0600, \h0700, \h0204, \h0500>>, <<\h0b00, \h0c00, \h0900, \h0400>>, <<\h0500, \h0c00, \h0400, \h0204>>, <<\h0105, \h0700, \h0c00, \h0300>>,
     <<\h0900, \h0800, \h0500, \h0300>>, <<\h0800, \h0900, \h0105, \h0d00>>, <<\h0c00, \h0103, \h0900, \h0600>>, <<\h0c00, \h0800, \h0600, \h0204>>,
     <<\h0a00, \h0202, \h0105, \h0400>>, <<\h0103, \h0b00, \h0300, \h0800>>, <<\h0a00, \h0900, \h0c00, \h0d00>>, <<\h0204, \h0202, \h0b00, \h0c00>> >>

Ops5 ==
  << <<\h0a00, \h0300, \h0b00, \h0600>>, <<\h0204, \h0300, \h0a00, \h0800>>, <<\h0500, \h0700, \h0700, \h0400>>, <<\h0300, \h0900, \h0103, \h0900>>,
     <<\h0d00, \h0101, \h0300, \h0b00>>, <<\h0400, \h0500, \h0a00, \h0300>>, <<\h0204, \h0a00, \h0204, \h0700>>, <<\h0b00, \h0103, \h0204, \h0b00>>,
     <<\h0202, \h0101, \h0c00, \h0700>>, <<\h0b00, \h0c00, \h0700, \h0202>>, <<\h0900, \h0105, \h0101, \h0400>>, <<\h0800, \h0600, \h0204, \h0900>>,
     <<\h0800, \h0700, \h0800, \h0600>>, <<\h0202, \h0c00, \h0600, \h0b00>>, <<\h0101, \h0a00, \h0600, \h0300>>, <<\h0101, \h0700, \h0105, \h0105>> >>

Ops6 ==
  << <<\h0202, \h0202, \h0800, \h0101>>, <<\h0101, \h0300, \h0800, \h0400>>, <<\h0204, \h0300, \h0400, \h0204>>, <<\h0204, \h0d00, \h0900, \h0400>>,
     <<\h0a00, \h0300, \h0900, \h0800>>, <<\h0400, \h0800, \h0400, \h0700>>, <<\h0103, \h0d00, \h0b00, \h0103>>, <<\h0101, \h0900, \h0500, \h0a00>>,
     <<\h0900, \h0800, \h0105, \h0b00>>, <<\h0300, \h0103, \h0a00, \h0202>>, <<\h0900, \h0204, \h0101, \h0c00>>, <<\h0400, \h0202, \h0105, \h0101>>,
     <<\h0500, \h0700, \h0600, \h0202>>, <<\h0c00, \h0a00, \h0500, \h0202>>, <<\h0b00, \h0202, \h0202, \h0400>>, <<\h0c00, \h0900, \h0c00, \h0400>> >>

Ops7 ==
  << <<\h0103, \h0700, \h0105, \h0d00>>, <<\h0105, \h0101, \h0800, \h0700>>, <<\h0101, \h0900, \h0a00, \h0700>>, <<\h0a00, \h0105, \h0600, \h0103>>,
     <<\h0600, \h0500, \h0800, \h0300>>, <<\h0300, \h0103, \h0300, \h0600>>, <<\h0400, \h0b00, \h0300, \h0105>>, <<\h0900, \h0202, \h0700, \h0500>>,
     <<\h0202, \h0c00, \h0500, \h0900>>, <<\h0400, \h0b00, \h0800, \h0c00>>, <<\h0204, \h0a00, \h0105, \h0202>>, <<\h0600, \h0700, \h0103, \h0103>>,
     <<\h0202, \h0202, \h0500, \h0700>>, <<\h0900, \h0202, \h0b00, \h0400>>, <<\h0103, \h0101, \h0105, \h0900>>, <<\h0300, \h0c00, \h0600, \h0500>> >>

Ops8 ==
  << <<\h0a00, \h0202, \h0202, \h0105>>, <<\h0700, \h0800, \h0800, \h0400>>, <<\h0400, \h0a00, \h0101, \h0204>>, <<\h0d00, \h0101, \h0800, \h0c00>>,
     <<\h0600, \h0900, \h0105, \h0202>>, <<\h0500, \h0105, \h0202, \h0300>>, <<\h0700, \h0204, \h0101, \h0600>>, <<\h0400, \h0202, \h0b00, \h0900>>,
     <<\h0400, \h0d00, \h0500, \h0105>>, <<\h0105, \h0400, \h0900, \h0a00>>, <<\h0500, \h0500, \h0b00, \h0d00>>, <<\h0105, \h0103, \h0202, \h0103>>,
     <<\h0101, \h0202, \h0500, \h0105>>, <<\h0101, \h0d00, \h0800, \h0b00>>, <<\h0600, \h0105, \h0900, \h0202>>, <<\h0600, \h0103, \h0400, \h0300>> >>

Ops9 ==
  << <<\h0a00, \h0300, \h0700, \h0a00>>, <<\h0900, \h0204, \h0202, \h0204>>, <<\h0600, \h0300, \h0600, \h0800>>, <<\h0700, \h0300, \h0204, \h0c00>>,
     <<\h0600, \h0105, \h0300, \h0d00>>, <<\h0500, \h0900, \h0d00, \h0b00>>, <<\h0300, \h0300, \h0300, \h0600>>, <<\h0b00, \h0300, \h0c00, \h0300>>,
     <<\h0400, \h0700, \h0300, \h0202>>, <<\h0101, \h0103, \h0700, \h0700>>, <<\h0105, \h0700, \h0500, \h0800>>, <<\h0d00, \h0500, \h0800, \h0500>>,
     <<\h0400, \h0400, \h0103, \h0101>>, <<\h0400, \h0300, \h0a00, \h0101>>, <<\h0800, \h0103, \h0b00, \h0101>>, <<\h0d00, \h0500, \h0a00, \h0500>> >>

Ops10 ==
  << <<\h0400, \h0900, \h0101, \h0103>>, <<\h0500, \h0500, \h0105, \h0a00>>, <<\h0c00, \h0900, \h0202, \h0d00>>, <<\h0300, \h0d00, \h0204, \h0101>>,
     <<\h0c00, \h0800, \h0d00, \h0700>>, <<\h0204, \h0500, \h0300, \h0b00>>, <<\h0103, \h0b00, \h0202, \h0700>>, <<\h0700, \h0700, \h0c00, \h0400>>,
     <<\h0a00, \h0600, \h0a00, \h0101>>, <<\h0101, \h0300, \h0204, \h0600>>, <<\h0d00, \h0900, \h0d00, \h0c00>>, <<\h0103, \h0d00, \h0800, \h0900>>,
     <<\h0204, \h0d00, \h0300, \h0101>>, <<\h0700, \h0300, \h0c00, \h0b00>>, <<\h0700, \h0a00, \h0800, \h0800>>, <<\h0103, \h0d00, \h0c00, \h0105>> >>

Ops11 ==
  << <<\h0500, \h0c00, \h0500, \h0105>>, <<\h0800, \h0202, \h0202, \h0600>>, <<\h0600, \h0b00, \h0700, \h0101>>, <<\h0202, \h0b00, \h0400, \h0900>>,
     <<\h0400, \h0204, \h0500, \h0d00>>, <<\h0700, \h0300, \h0202, \h0105>>, <<\h0500, \h0101, \h0105, \h0204>>, <<\h0b00, \h0d00, \h0d00, \h0c00>>,
     <<\h0300, \h0c00, \h0105, \h0500>>, <<\h0700, \h0204, \h0105, \h0400>>, <<\h0202, \h0204, \h0d00, \h0400>>, <<\h0500, \h0700, \h0b00, \h0103>>,
     <<\h0204, \h0800, \h0204, \h0204>>, <<\h0105, \h0204, \h0500, \h0d00>>, <<\h0105, \h0400, \h0600, \h0202>>, <<\h0b00, \h0103, \h0a00, \h0400>> >>

Ops12 ==
  << <<\h0b00, \h0300, \h0b00, \h0c00>>, <<\h0600, \h0300, \h0a00, \h0101>>, <<\h0600, \h0a00, \h0300, \h0600>>, <<\h0800, \h0202, \h0500, \h0204>>,
     <<\h0103, \h0900, \h0300, \h0101>>, <<\h0204, \h0a00, \h0c00, \h0c00>>, <<\h0400, \h0400, \h0900, \h0101>>, <<\h0700, \h0b00, \h0c00, \h0500>>,
     <<\h0400, \h0800, \h0900, \h0900>>, <<\h0103, \h0202, \h0204, \h0700>>, <<\h0500, \h0700, \h0a00, \h0105>>, <<\h0500, \h0600, \h0101, \h0a00>>,
     <<\h0105, \h0202, \h0a00, \h0500>>, <<\h0800, \h0204, \h0300, \h0b00>>, <<\h0204, \h0900, \h0900, \h0800>>, <<\h0105, \h0103, \h0800, \h0800>> >>

Ops13 ==
  << <<\h0b00, \h0b00, \h0400, \h0103>>, <<\h0105, \h0900, \h0800, \h0d00>>, <<\h0202, \h0a00, \h0105, \h0700>>, <<\h0204, \h0b00, \h0d00, \h0a00>>,
     <<\h0a00, \h0202, \h0500, \h0500>>, <<\h0b00, \h0300, \h0103, \h0d00>>, <<\h0500, \h0d00, \h0400, \h0700>>, <<\h0500, \h0600, \h0300, \h0c00>>,
     <<\h0a00, \h0700, \h0d00, \h0600>>, <<\h0105, \h0b00, \h0101, \h0204>>, <<\h0900, \h0700, \h0c00, \h0d00>>, <<\h0204, \h0103, \h0600, \h0900>>,
     <<\h0101, \h0300, \h0900, \h0300>>, <<\h0105, \h0500, \h0700, \h0900>>, <<\h0400, \h0300, \h0500, \h0c00>>, <<\h0103, \h0500, \h0a00, \h0d00>> >>

Ops14 ==
  << <<\h0202, \h0101, \h0103, \h0300>>, <<\h0700, \h0400, \h0900, \h0103>>, <<\h0900, \h0d00, \h0c00, \h0500>>, <<\h0700, \h0300, \h0d00, \h0600>>,
     <<\h0b00, \h0400, \h0b00, \h0800>>, <<\h0103, \h0a00, \h0202, \h0800>>, <<\h0c00, \h0600, \h0a00, \h0a00>>, <<\h0103, \h0400, \h0500, \h0900>>,
     <<\h0c00, \h0c00, \h0204, \h0105>>, <<\h0101, \h0800, \h0103, \h0800>>, <<\h0600, \h0c00, \h0400, \h0500>>, <<\h0202, \h0c00, \h0103, \h0700>>,
     <<\h0500, \h0b00, \h0600, \h0d00>>, <<\h0105, \h0300, \h0202, \h0103>>, <<\h0b00, \h0b00, \h0103, \h0d00>>, <<\h0105, \h0101, \h0c00, \h0600>> >>

Ops15 ==
  << <<\h0700, \h0b00, \h0600, \h0300>>, <<\h0204, \h0800, \h0500, \h0101>>, <<\h0b00, \h0b00, \h0d00, \h0500>>, <<\h0105, \h0202, \h0800, \h0101>>,
     <<\h0700, \h0202, \h0900, \h0105>>, <<\h0d00, \h0105, \h0202, \h0400>>, <<\h0b00, \h0101, \h0400, \h0b00>>, <<\h0105, \h0202, \h0105, \h0700>>,
     <<\h0700, \h0d00, \h0800, \h0105>>, <<\h0900, \h0204, \h0204, \h0a00>>, <<\h0600, \h0a00, \h0800, \h0204>>, <<\h0b00, \h0800, \h0900, \h0202>>,
     <<\h0900, \h0204, \h0202, \h0300>>, <<\h0103, \h0202, \h0500, \h0103>>, <<\h0800, \h0103, \h0202, \h0103>>, <<\h0800, \h0103, \h0202, \h0103>> >>

wolfOps(c) ==
  <<Ops0, Ops1, Ops2, Ops3, Ops4, Ops5, Ops6, Ops7,
    Ops8, Ops9, Ops10, Ops11, Ops12, Ops13, Ops14, Ops15>>[(c \div 16) + 1][(c % 16) + 1]

\* One code of the interpreter.
Applied(code, y, p) ==
  LET id == code \div 256
      param == code % 256
  IN CASE id = 1  -> RotateLeft8(y, param)
       [] id = 2  -> Xor8(y, RotateLeft8(y, param))
       [] id = 3  -> (y * Pow(y % 4)) % 256
       [] id = 4  -> y \div Pow(y % 4)
       [] id = 5  -> Xor8(y, p)
       [] id = 6  -> And8(y, p)
       [] id = 7  -> 255 - y
       [] id = 8  -> Xor8(y, OnesCount8(y))
       [] id = 9  -> Reverse8(y)
       [] id = 10 -> RotateLeft8(y, y)
       [] id = 11 -> (y + y) % 256
       [] id = 12 -> (y * y) % 256
       [] id = 13 -> (y - Xor8(y, 97)) % 256
       [] OTHER   -> y

\* wolfApplyByte: all codes of a row.
wolfApplyByte(c, x, p) ==
  LET row == wolfOps(c)
      y[k \in 0 .. Len(row)] == IF k = 0 THEN x ELSE Applied(row[k], y[k - 1], p)
  IN y[Len(row)]

-----------------------------------------------------------------------------
(* cmd/genwolf: how a statement of the switch becomes a table entry.       *)

pack(op, param) == op * 256 + param

\* classifyStmt: the code of a statement, 0 for the two it leaves to the
\* interpreter.
classifyStmt(s) ==
  CASE s \in {"swap", "hash"} -> 0
    [] s = "add"   -> pack(11, 0)
    [] s = "mul"   -> pack(12, 0)
    [] s = "sub97" -> pack(13, 0)
    [] s = "not"   -> pack(7, 0)
    [] s = "xor"   -> pack(5, 0)
    [] s = "and"   -> pack(6, 0)
    [] s = "pop"   -> pack(8, 0)
    [] s = "rev"   -> pack(9, 0)
    [] s = "rotx"  -> pack(10, 0)
    [] s = "shl"   -> pack(3, 0)
    [] s = "shr"   -> pack(4, 0)
    [] s = "rot1"  -> pack(1, 1)
    [] s = "rot3"  -> pack(1, 3)
    [] s = "rot5"  -> pack(1, 5)
    [] s = "xrot2" -> pack(2, 2)
    [] s = "xrot4" -> pack(2, 4)

\* classifyCase: the row and the structural tag of case c.
Emitted(c) ==
  LET st == Cases(c)
      row[k \in 0 .. Len(st)] ==
        IF k = 0 THEN <<>>
        ELSE IF classifyStmt(st[k]) = 0 THEN row[k - 1]
        ELSE Append(row[k - 1], classifyStmt(st[k]))
  IN row[Len(st)]
classifyCase(c) ==
  [row |-> Emitted(c),
   tag |-> IF c \in Rekeys THEN "rekey"
           ELSE IF \E k \in DOMAIN Cases(c) : Cases(c)[k] = "swap" THEN "swap" ELSE ""]

\* wolfSpecial, as generated.
wolfSpecial(c) == CASE c = 0 -> "swap" [] c \in {254, 255} -> "rekey" [] OTHER -> ""
=============================================================================
