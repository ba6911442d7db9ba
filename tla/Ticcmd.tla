------------------------------ MODULE Ticcmd ------------------------------
(***************************************************************************)
(* The two encodings of a tic's input (client/src/prove/ticcmd.ts) and the *)
(* log that streams them.  A word is four bytes, a transport felt is       *)
(* TicsPerFelt words; the byte and the group are constants so that the     *)
(* same definitions can be enumerated at a small width.                    *)
(***************************************************************************)
EXTENDS Integers, Sequences

CONSTANTS Half, TicsPerFelt     \* 128 and 7 in the code

ASSUME TiccmdAssumption == Half \in Nat \ {0} /\ TicsPerFelt \in Nat \ {0}

Byte == 2 * Half
Lane == Byte * Byte * Byte * Byte

Clamp(value, lo, hi) == IF value < lo THEN lo ELSE IF value > hi THEN hi ELSE value

\* Math.trunc of a quotient
Trunc(value, by) == IF value < 0 THEN -((-value) \div by) ELSE value \div by

\* The raw capture on the grid: fields in their byte, the turn a multiple of Byte.
quantize(cmd) ==
    [forward |-> Clamp(cmd.forward, -Half, Half - 1), side |-> Clamp(cmd.side, -Half, Half - 1),
     turn |-> Clamp(Trunc(cmd.turn, Byte), -Half, Half - 1) * Byte,
     buttons |-> Clamp(cmd.buttons, 0, Byte - 1)]

\* encodeCmd, of a canonical command.
encodeCmd(cmd) ==
    (cmd.forward + Half) + (cmd.side + Half) * Byte
        + (cmd.turn \div Byte + Half) * Byte * Byte + cmd.buttons * Byte * Byte * Byte

decodeCmd(word) ==
    [forward |-> (word % Byte) - Half, side |-> ((word \div Byte) % Byte) - Half,
     turn |-> (((word \div (Byte * Byte)) % Byte) - Half) * Byte,
     buttons |-> (word \div (Byte * Byte * Byte)) % Byte]

\* At most TicsPerFelt words, the first in the lowest lane.
pack7(words) ==
    LET sum[i \in 0..Len(words)] == IF i = Len(words) THEN 0 ELSE words[i + 1] + Lane * sum[i + 1]
    IN  sum[0]

unpack7(felt, count) ==
    LET rest[i \in 0..count] == IF i = 0 THEN felt ELSE rest[i - 1] \div Lane
    IN  [i \in 1..count |-> rest[i - 1] % Lane]

Least(a, b) == IF a < b THEN a ELSE b

packLog(words) ==
    [i \in 1..((Len(words) + TicsPerFelt - 1) \div TicsPerFelt) |->
        pack7(SubSeq(words, (i - 1) * TicsPerFelt + 1, Least(i * TicsPerFelt, Len(words))))]

\* ticCount says how much of the last felt is real; felts beyond it are not read.
unpackLog(felts, ticCount) ==
    LET words[i \in 0..Len(felts)] ==
            IF i = 0 THEN <<>>
            ELSE LET remaining == ticCount - Len(words[i - 1])
                 IN  words[i - 1] \o (IF remaining <= 0 THEN <<>>
                                      ELSE unpack7(felts[i], Least(TicsPerFelt, remaining)))
    IN  words[Len(felts)]

-----------------------------------------------------------------------------
(* TicLog: the groups that are full, as felts, and the words of the one that is not. *)

EmptyLog == [complete |-> <<>>, tail |-> <<>>]

Length(log) == Len(log.complete) * TicsPerFelt + Len(log.tail)

push(log, word) ==
    LET tail == Append(log.tail, word)
    IN  IF Len(tail) = TicsPerFelt
        THEN [complete |-> Append(log.complete, pack7(tail)), tail |-> <<>>]
        ELSE [log EXCEPT !.tail = tail]

toFelts(log) == IF log.tail = <<>> THEN log.complete ELSE Append(log.complete, pack7(log.tail))
toWords(log) == unpackLog(toFelts(log), Length(log))
=============================================================================
