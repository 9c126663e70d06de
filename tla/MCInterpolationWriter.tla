------------------------ MODULE MCInterpolationWriter ------------------------
(* Unsigned integers of 8 bits, house numbers at both ends of their range, *)
(* and ranges around MaxRange.                                             *)
EXTENDS InterpolationWriter

number(n) == [length |-> Digits(n), atoi |-> n, prefix |-> "", char |-> 48 + (n % 10),
              alpha |-> FALSE, second_alpha |-> FALSE]
Empty  == [length |-> 0, atoi |-> 0, prefix |-> "", char |-> 0,
           alpha |-> FALSE, second_alpha |-> FALSE]
Spaced(n) == [number(n) EXCEPT !.length = @ + 1]
Minus  == [length |-> 2, atoi |-> 255, prefix |-> "-", char |-> 49,
           alpha |-> FALSE, second_alpha |-> FALSE]
letter(n, prefix, char) == [length |-> Digits(n) + 1, atoi |-> n, prefix |-> prefix, char |-> char,
                            alpha |-> TRUE, second_alpha |-> FALSE]
letters == [length |-> 2, atoi |-> 0, prefix |-> "A", char |-> 66,
            alpha |-> TRUE, second_alpha |-> TRUE]

Raws == {number(n) : n \in {1, 2, 3, 6, 8, 11, 250, 253, 254, 255}} \union
        {Empty, Spaced(6), Minus, letters} \union
        {letter(1, "1", 65), letter(1, "1", 68), letter(1, "1", 97),
         letter(200, "200", 66)}

LettersOnNumbers == {letter(1, "1", 65), letter(1, "1", 67),
                     letter(900, "900", 66), letter(2000, "2000", 66)}

MCWays == [kind : Kinds, first_raw : Raws, last_raw : Raws,
           same_tags : BOOLEAN, closed : BOOLEAN, stray : BOOLEAN]

(* Alphabetic interpolations on an open way with equal tags, whose numeric *)
(* parts are the same, or less or more than 1000 apart. Checked with the   *)
(* limit of the code and integers of 16 bits.                              *)
LetteredWays == [kind : {"alphabetic"}, same_tags : {TRUE}, closed : {FALSE}, stray : {FALSE},
                 first_raw : LettersOnNumbers, last_raw : LettersOnNumbers]
=============================================================================
