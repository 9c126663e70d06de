------------------------- MODULE InterpolationWriter -------------------------
(***************************************************************************)
(* InterpolationWriter::feed_way for one interpolation way whose end       *)
(* points are known, step by step: the error it is given, and the loop of  *)
(* unsigned arithmetic that runs through its house numbers.                *)
(***************************************************************************)
EXTENDS Interpolation

CONSTANT Ways   \* interpolations, see Interpolation

VARIABLES
    way,        \* the interpolation
    first, last,
    is_alphabetic,
    error_field,
    nr,         \* the loop variable
    written,    \* the house numbers of the interpolated nodes so far
    pc          \* "read", "check", "loop", "written"

vars == <<way, first, last, is_alphabetic, error_field, nr, written, pc>>

Kinds == {"all", "even", "odd", "alphabetic", "other"}
Errors == {"none", "no_alphabetic_part", "numeric_parts_not_identical", "unknown_type",
           "wrong_format", "range_too_large", "needless", "even_but_odd", "odd_but_even",
           "different_tags", "closed_way"}

ASSUME WaysAssumption == \A w \in Ways :
    /\ w.kind \in Kinds
    /\ w.first_raw.atoi \in UInt /\ w.last_raw.atoi \in UInt
    /\ w.first_raw.char \in UInt /\ w.last_raw.char \in UInt

Init ==
    /\ way \in Ways
    /\ first = 0 /\ last = 0 /\ nr = 0
    /\ is_alphabetic = FALSE
    /\ error_field = "none"
    /\ written = <<>>
    /\ pc = "read"

(* The raw house numbers, and the block for alphabetic interpolations.     *)
read_end_points ==
    /\ pc = "read"
    /\ is_alphabetic' = is_alphabetic_ip_correct(way)
    /\ first' = value(way.first_raw, is_alphabetic')
    /\ last'  = value(way.last_raw, is_alphabetic')
    /\ error_field' = alphabetic_error(way)
    /\ pc' = "check"
    /\ UNCHANGED <<way, nr, written>>

lower == IF first < last THEN first ELSE last
upper == IF first < last THEN last ELSE first
increment_of_loop == IF first < last THEN increment(way.kind) ELSE -increment(way.kind)

(* The chain of else-if. Its last branch, without an error, is taken by    *)
(* every interpolation but an alphabetic one that is not correct.          *)
fail_check ==
    /\ pc = "check"
    /\ failed_checks(way, first, last) # {}
    /\ error_field' = chain_error(way, first, last)
    /\ pc' = "written"
    /\ UNCHANGED <<way, first, last, is_alphabetic, nr, written>>

pass_checks ==
    /\ pc = "check"
    /\ failed_checks(way, first, last) = {}
    /\ IF way.kind # "alphabetic" \/ is_alphabetic
       THEN pc' = "loop" /\ nr' = Plus(first, increment_of_loop)
       ELSE pc' = "written" /\ UNCHANGED nr
    /\ UNCHANGED <<way, first, last, is_alphabetic, error_field, written>>

(* One round of the loop, or its end and create_feature.                   *)
interpolate ==
    /\ pc = "loop"
    /\ in_range(nr, lower, upper)
    /\ written' = Append(written, nr)
    /\ nr' = Plus(nr, increment_of_loop)
    /\ UNCHANGED <<way, first, last, is_alphabetic, error_field, pc>>

(* Faulty: the loop ends at the last end point and nowhere else.           *)
leave_loop_at_last ==
    /\ pc = "loop"
    /\ nr = last
    /\ pc' = "written"
    /\ UNCHANGED <<way, first, last, is_alphabetic, error_field, nr, written>>

leave_loop ==
    /\ pc = "loop"
    /\ ~in_range(nr, lower, upper)
    /\ pc' = "written"
    /\ UNCHANGED <<way, first, last, is_alphabetic, error_field, nr, written>>

Next == read_end_points \/ fail_check \/ pass_checks \/ interpolate \/ leave_loop

(* feed_way neither waits nor is interrupted.                              *)
Spec == Init /\ [][Next]_vars /\ WF_vars(Next)

-----------------------------------------------------------------------------
InterpolationTypeOK ==
    /\ way \in Ways
    /\ first \in UInt /\ last \in UInt /\ nr \in UInt
    /\ is_alphabetic \in BOOLEAN
    /\ error_field \in Errors
    /\ written \in Seq(UInt)
    /\ pc \in {"read", "check", "loop", "written"}

(* An even (odd) interpolation stands for the even (odd) numbers strictly  *)
(* between its end points, the others for all of them.                     *)
Wanted == {n \in UInt : /\ lower < n /\ n < upper
                        /\ way.kind = "even" => n % 2 = 0
                        /\ way.kind = "odd" => n % 2 = 1}
Interpolated == error_field = "none" /\ (way.kind # "alphabetic" \/ is_alphabetic)

(* The loop of feed_way, whose unsigned variable may run past either end   *)
(* point and wrap around, gives every wanted number one node, in order     *)
(* from the first end point to the last, and no other number; and a way    *)
(* that is given an error has no interpolated nodes.                       *)
EveryNumberOnce ==
    /\ \A i \in DOMAIN written : written[i] \in Wanted
    /\ \A i, k \in DOMAIN written : i < k =>
          IF first < last THEN written[i] < written[k] ELSE written[i] > written[k]
    /\ pc = "written" =>
          IF Interpolated THEN \A n \in Wanted : \E i \in DOMAIN written : written[i] = n
          ELSE written = <<>>

(* The summary that the second pass is modelled with (Interpolation) is    *)
(* what the steps of feed_way amount to.                                   *)
SummaryIsExact == pc = "written" =>
    /\ error_field = error(way)
    /\ written = numbers(way)

(* Every interpolation is finished: the loop leaves its range in the end.  *)
FeedWayReturns == <>(pc = "written")

(* "don't overwrite more precise error messages set before"                *)
(* (InterpolationWriter.hpp:129)                                           *)
PreciseErrorsStay == pc = "written" =>
    LET precise == alphabetic_error(way)
    IN precise # "none" => error_field = precise
=============================================================================
