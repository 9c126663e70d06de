---------------------------- MODULE Interpolation ----------------------------
(***************************************************************************)
(* InterpolationWriter.hpp: which address interpolations are in error, and *)
(* which house numbers the others stand for. An interpolation is a record  *)
(*   kind        "all", "even", "odd", "alphabetic", or anything else      *)
(*   first_raw, last_raw   the house numbers of its end nodes              *)
(*   same_tags   whether the end nodes agree in the other address tags     *)
(*   closed      whether the way is closed                                 *)
(*   stray       see SecondLast                                            *)
(* and a raw house number what the code observes of its string:            *)
(*   length, prefix        its length, and it without its last character   *)
(*   atoi                  the value of atoi as unsigned int               *)
(*   char                  the code of the last character (0: none)        *)
(*   alpha, second_alpha   whether the last and the second last character  *)
(*                         are letters                                     *)
(***************************************************************************)
EXTENDS Integers, Sequences

CONSTANTS UIntSize,     \* number of values of an unsigned int
          MaxRange      \* 1000 in the code

ASSUME UIntAssumption == UIntSize \in Nat /\ UIntSize > 2 /\ MaxRange \in Nat

UInt == 0..(UIntSize - 1)

Digits(n) == CHOOSE k \in 1..10 : 10 ^ (k - 1) <= n /\ n < 10 ^ k
abs_diff(a, b) == IF a > b THEN a - b ELSE b - a

-----------------------------------------------------------------------------
(* The block for alphabetic interpolations. Of a string shorter than two   *)
(* characters it reads bytes before the string. What stands there depends  *)
(* on the library: the byte before a short string holds a part of its      *)
(* length, never a letter, but the byte before that one may be anything;   *)
(* stray says whether it is a letter.                                      *)
SecondLast(raw, stray) == IF raw.length = 0 THEN stray ELSE raw.second_alpha

alphabetic_block(w) == /\ w.kind = "alphabetic"
                       /\ ~SecondLast(w.first_raw, w.stray)
                       /\ ~SecondLast(w.last_raw, w.stray)
two_letters(w) == w.first_raw.alpha /\ w.last_raw.alpha
same_numeric(w) == w.first_raw.prefix = w.last_raw.prefix

is_alphabetic_ip_correct(w) == alphabetic_block(w) /\ two_letters(w) /\ same_numeric(w)

alphabetic_error(w) ==
    IF ~alphabetic_block(w) THEN "none"
    ELSE IF ~two_letters(w) THEN "no_alphabetic_part"
    ELSE IF ~same_numeric(w) THEN "numeric_parts_not_identical"
    ELSE "none"

(* The value of an end point: of an alphabetic interpolation the code of   *)
(* the last character, else of the number.                                 *)
value(raw, alphabetic) == IF alphabetic THEN raw.char ELSE raw.atoi

wrong_format(raw, n) == n = 0 \/ raw.length # Digits(n)

(* The chain of else-if: the first check that fails names the error, and   *)
(* takes the place of an alphabetic_error.                                 *)
checks(w, first, last) ==
    << <<w.kind \notin {"all", "even", "odd", "alphabetic"}, "unknown_type">>,
       <<w.kind # "alphabetic" /\ (wrong_format(w.first_raw, first) \/ wrong_format(w.last_raw, last)),
         "wrong_format">>,
       <<abs_diff(first, last) > MaxRange, "range_too_large">>,
       <<\/ w.kind \in {"even", "odd"} /\ abs_diff(first, last) = 2
         \/ w.kind = "all" /\ abs_diff(first, last) = 1, "needless">>,
       <<w.kind = "even" /\ (first % 2 = 1 \/ last % 2 = 1), "even_but_odd">>,
       <<w.kind = "odd" /\ (first % 2 = 0 \/ last % 2 = 0), "odd_but_even">>,
       <<~w.same_tags, "different_tags">>,
       <<w.closed, "closed_way">> >>

failed_checks(w, first, last) == {i \in 1..8 : checks(w, first, last)[i][1]}
chain_error(w, first, last) ==
    LET failed == failed_checks(w, first, last)
    IN checks(w, first, last)[CHOOSE i \in failed : \A k \in failed : i <= k][2]

-----------------------------------------------------------------------------
increment(kind) == IF kind \in {"all", "alphabetic"} THEN 1 ELSE 2

(* Faulty: a difference below zero stays negative.                         *)
Plus_signed(a, b) == IF a + b >= UIntSize THEN a + b - UIntSize ELSE a + b

(* Addition of an int to an unsigned int                                   *)
Plus(a, b) == IF a + b < 0 THEN a + b + UIntSize
              ELSE IF a + b >= UIntSize THEN a + b - UIntSize ELSE a + b

(* Faulty: the end points belong to the range.                             *)
in_range_inclusive(nr, lower, upper) == nr <= upper /\ nr >= lower

(* The condition of the loop                                               *)
in_range(nr, lower, upper) == nr < upper /\ nr > lower

(* The numbers the loop of InterpolationWriter runs through, from first    *)
(* towards last.                                                           *)
between(first, last, step) ==
    [i \in 1..(IF first = last THEN 0 ELSE (abs_diff(first, last) - 1) \div step) |->
        IF first < last THEN first + i * step ELSE first - i * step]

-----------------------------------------------------------------------------
(* What a way amounts to: its error, and its interpolated numbers.         *)
first_of(w) == value(w.first_raw, is_alphabetic_ip_correct(w))
last_of(w)  == value(w.last_raw, is_alphabetic_ip_correct(w))

error(w) == IF failed_checks(w, first_of(w), last_of(w)) = {} THEN alphabetic_error(w)
            ELSE chain_error(w, first_of(w), last_of(w))

numbers(w) ==
    IF /\ failed_checks(w, first_of(w), last_of(w)) = {}
       /\ w.kind # "alphabetic" \/ is_alphabetic_ip_correct(w)
    THEN between(first_of(w), last_of(w), increment(w.kind))
    ELSE <<>>
=============================================================================
