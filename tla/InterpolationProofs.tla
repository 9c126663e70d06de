------------------------ MODULE InterpolationProofs ------------------------
(***************************************************************************)
(* The loop over the house numbers of an interpolation, for every width of *)
(* the unsigned integers, every range and every way: an inductive          *)
(* invariant gives the loop variable in terms of the number of rounds,     *)
(* which unsigned arithmetic does not by itself.                           *)
(***************************************************************************)
EXTENDS InterpolationWriter, TLAPS, SequenceTheorems

step == increment(way.kind)

(* The chain of checks was passed: the type is known, and the end points   *)
(* have its parity.                                                        *)
Parity == /\ way.kind \in {"all", "even", "odd", "alphabetic"}
          /\ way.kind = "even" => first % 2 = 0 /\ last % 2 = 0
          /\ way.kind = "odd" => first % 2 = 1 /\ last % 2 = 1

(* The numbers so far: one per round, counted from the first end point,    *)
(* all of them short of the last.                                          *)
Counted ==
    /\ first < last => /\ first + Len(written) * step < last
                       /\ \A i \in 1..Len(written) : written[i] = first + i * step
    /\ first > last => /\ first - Len(written) * step > last
                       /\ \A i \in 1..Len(written) : written[i] = first - i * step
    /\ first = last => written = <<>>

(* The loop variable is the next number, and has not passed the last one.  *)
NextNumber ==
    /\ first < last => nr = first + (Len(written) + 1) * step /\ nr <= last
    /\ first > last => nr = first - (Len(written) + 1) * step /\ nr >= last

(* Nothing is left out.                                                    *)
Complete ==
    /\ first < last => first + (Len(written) + 1) * step >= last
    /\ first > last => first - (Len(written) + 1) * step <= last

InterpolationInv ==
    /\ InterpolationTypeOK
    /\ pc \in {"read", "check"} => written = <<>>
    /\ pc = "check" => /\ error_field = alphabetic_error(way)
                       /\ is_alphabetic = is_alphabetic_ip_correct(way)
    /\ pc = "loop" => Interpolated /\ Parity /\ Counted /\ NextNumber
    /\ pc = "written" => IF Interpolated THEN Parity /\ Counted /\ Complete
                         ELSE written = <<>>

-----------------------------------------------------------------------------
(* Arithmetic of one round: the next number is either short of the last    *)
(* one or equal to it, and the addition does not wrap around.              *)
LEMMA RoundUp ==
    ASSUME NEW f \in Nat, NEW l \in Nat, NEW k \in Nat, NEW s \in {1, 2}, NEW n \in Nat,
           n = f + (k + 1) * s, n < l, s = 2 => f % 2 = l % 2
    PROVE  n + s = f + (k + 2) * s /\ n + s <= l
<1>1. CASE s = 1
  BY <1>1
<1>2. CASE s = 2
  BY <1>2
<1> QED BY <1>1, <1>2

LEMMA RoundDown ==
    ASSUME NEW f \in Nat, NEW l \in Nat, NEW k \in Nat, NEW s \in {1, 2}, NEW n \in Nat,
           n = f - (k + 1) * s, n > l, s = 2 => f % 2 = l % 2
    PROVE  n - s = f - (k + 2) * s /\ n - s >= l
<1>1. CASE s = 1
  BY <1>1
<1>2. CASE s = 2
  BY <1>2
<1> QED BY <1>1, <1>2

(* The checks leave known types, with end points of their parity.          *)
LEMMA ParityChecked ==
    ASSUME NEW w \in Ways, NEW f \in Nat, NEW l \in Nat, failed_checks(w, f, l) = {}
    PROVE  /\ w.kind \in {"all", "even", "odd", "alphabetic"}
           /\ w.kind = "even" => f % 2 = 0 /\ l % 2 = 0
           /\ w.kind = "odd" => f % 2 = 1 /\ l % 2 = 1
<1>1. ~checks(w, f, l)[1][1] /\ ~checks(w, f, l)[5][1] /\ ~checks(w, f, l)[6][1]
  BY DEF failed_checks
<1>2. checks(w, f, l)[5][1] <=> (w.kind = "even" /\ (f % 2 = 1 \/ l % 2 = 1))
  BY DEF checks
<1>3. checks(w, f, l)[6][1] <=> (w.kind = "odd" /\ (f % 2 = 0 \/ l % 2 = 0))
  BY DEF checks
<1>4. f % 2 \in {0, 1} /\ l % 2 \in {0, 1}
  OBVIOUS
<1>5. checks(w, f, l)[1][1] <=> w.kind \notin {"all", "even", "odd", "alphabetic"}
  BY DEF checks
<1> QED BY <1>1, <1>2, <1>3, <1>4, <1>5

(* Whatever check failed, the way is given an error.                       *)
LEMMA ChainErrors ==
    ASSUME NEW w, NEW f, NEW l, failed_checks(w, f, l) # {}
    PROVE  chain_error(w, f, l) \in Errors \ {"none"}
<1> DEFINE failing == failed_checks(w, f, l)
           k == CHOOSE i \in failing : \A j \in failing : i <= j
<1>1. failing \subseteq 1..8 /\ failing # {}
  BY DEF failed_checks
<1>2. \E i \in failing : \A j \in failing : i <= j
  <2>1. \/ 1 \in failing \/ 2 \in failing \/ 3 \in failing \/ 4 \in failing
        \/ 5 \in failing \/ 6 \in failing \/ 7 \in failing \/ 8 \in failing
    BY <1>1
  <2> HIDE DEF failing
  <2> QED BY <1>1, <2>1
<1>3. k \in 1..8
  <2> HIDE DEF failing
  <2> QED BY <1>1, <1>2
<1>4. \A i \in 1..8 : checks(w, f, l)[i][2] \in Errors \ {"none"}
  BY DEF checks, Errors
<1>5. chain_error(w, f, l) = checks(w, f, l)[k][2]
  BY DEF chain_error
<1> HIDE DEF k, failing
<1> QED BY <1>3, <1>4, <1>5

LEMMA PlusTypes ==
    ASSUME NEW a \in UInt, NEW b \in {1, 2, -1, -2}
    PROVE  Plus(a, b) \in UInt
BY UIntAssumption DEF UInt, Plus

LEMMA Increments ==
    ASSUME NEW w \in Ways
    PROVE  increment(w.kind) \in {1, 2}
BY DEF increment

-----------------------------------------------------------------------------
LEMMA InitInv == Init => InterpolationInv
<1> SUFFICES ASSUME Init PROVE InterpolationInv
  OBVIOUS
<1>1. 0 \in UInt
  BY UIntAssumption DEF UInt
<1>2. InterpolationTypeOK
  <2>1. written \in Seq(UInt)
    BY DEF Init
  <2>2. is_alphabetic \in BOOLEAN /\ error_field \in Errors
    BY DEF Init, Errors
  <2> QED BY <1>1, <2>1, <2>2 DEF Init, InterpolationTypeOK
<1> QED BY <1>2 DEF Init, InterpolationInv

LEMMA TypeStep == InterpolationTypeOK /\ [Next]_vars => InterpolationTypeOK'
<1> SUFFICES ASSUME InterpolationTypeOK, [Next]_vars PROVE InterpolationTypeOK'
  OBVIOUS
<1> USE DEF InterpolationTypeOK
<1>0. increment_of_loop \in {1, 2, -1, -2}
  BY Increments DEF increment_of_loop
<1>1. CASE read_end_points
  <2>1. way.first_raw.atoi \in UInt /\ way.last_raw.atoi \in UInt
        /\ way.first_raw.char \in UInt /\ way.last_raw.char \in UInt
    BY WaysAssumption
  <2>2. first' \in UInt /\ last' \in UInt
    BY <1>1, <2>1 DEF read_end_points, value
  <2>3. is_alphabetic' \in BOOLEAN
    BY <1>1 DEF read_end_points, is_alphabetic_ip_correct
  <2>4. error_field' \in Errors
    BY <1>1 DEF read_end_points, alphabetic_error, Errors
  <2> QED BY <1>1, <2>2, <2>3, <2>4 DEF read_end_points
<1>2. CASE fail_check
  BY <1>2, ChainErrors DEF fail_check
<1>3. CASE pass_checks
  <2>1. Plus(first, increment_of_loop) \in UInt
    BY <1>0, PlusTypes
  <2> QED BY <1>3, <2>1 DEF pass_checks
<1>4. CASE interpolate
  <2>1. nr' \in UInt
    BY <1>0, <1>4, PlusTypes DEF interpolate
  <2>2. written' \in Seq(UInt)
    BY <1>4 DEF interpolate
  <2> QED BY <1>4, <2>1, <2>2 DEF interpolate
<1>5. CASE leave_loop
  BY <1>5 DEF leave_loop
<1>6. CASE UNCHANGED vars
  BY <1>6 DEF vars
<1> QED BY <1>1, <1>2, <1>3, <1>4, <1>5, <1>6 DEF Next

-----------------------------------------------------------------------------
(* What pass_checks knows when it enters the loop.                         *)
LEMMA StartUp ==
    ASSUME NEW f \in UInt, NEW l \in UInt, NEW s \in {1, 2}, s = 2 => f % 2 = l % 2
    PROVE  /\ f < l => Plus(f, s) = f + s /\ f + s <= l
           /\ f > l => Plus(f, -s) = f - s /\ f - s >= l
<1>1. CASE s = 1
  BY <1>1, UIntAssumption DEF UInt, Plus
<1>2. CASE s = 2
  BY <1>2, UIntAssumption DEF UInt, Plus
<1> QED BY <1>1, <1>2

LEMMA ParityOfKind ==
    ASSUME InterpolationTypeOK, Parity
    PROVE  step \in {1, 2} /\ (step = 2 => first % 2 = last % 2)
BY DEF Parity, step, increment

(* An interpolation without an error enters the loop.                      *)
LEMMA PassStep == InterpolationInv /\ pass_checks => InterpolationInv'
<1> SUFFICES ASSUME InterpolationInv, pass_checks PROVE InterpolationInv'
  OBVIOUS
<1>1. InterpolationTypeOK'
  BY TypeStep DEF InterpolationInv, Next
<1>2. /\ way \in Ways /\ first \in UInt /\ last \in UInt /\ first \in Nat /\ last \in Nat
      /\ pc = "check" /\ written = <<>> /\ failed_checks(way, first, last) = {}
      /\ error_field = alphabetic_error(way)
      /\ is_alphabetic = is_alphabetic_ip_correct(way)
  BY UIntAssumption DEF InterpolationInv, InterpolationTypeOK, pass_checks, UInt
<1>3. UNCHANGED <<way, first, last, is_alphabetic, error_field, written>>
  BY DEF pass_checks
<1>4. CASE ~(way.kind # "alphabetic" \/ is_alphabetic)
  <2>1. pc' = "written"
    BY <1>4 DEF pass_checks
  <2>2. ~Interpolated'
    BY <1>3, <1>4 DEF Interpolated
  <2> QED BY <1>1, <1>2, <1>3, <2>1, <2>2 DEF InterpolationInv
<1>5. CASE way.kind # "alphabetic" \/ is_alphabetic
  <2>1. pc' = "loop" /\ nr' = Plus(first, increment_of_loop)
    BY <1>5 DEF pass_checks
  <2>2. Parity
    BY <1>2, ParityChecked DEF Parity
  <2>3. Interpolated'
    BY <1>2, <1>3, <1>5 DEF Interpolated, alphabetic_error, is_alphabetic_ip_correct,
                            alphabetic_block
  <2>4. Parity' /\ step' = step
    BY <1>3, <2>2 DEF Parity, step
  <2>5. step \in {1, 2} /\ (step = 2 => first % 2 = last % 2)
    BY <2>2, ParityOfKind DEF InterpolationInv
  <2>6. Len(written') = 0
    BY <1>2, <1>3
  <2>7. Counted'
    BY <1>2, <1>3, <2>4, <2>5, <2>6 DEF Counted
  <2>8. increment_of_loop = IF first < last THEN step ELSE -step
    BY DEF increment_of_loop, step
  <2>9. NextNumber'
    <3>1. /\ first < last => nr' = first + step /\ first + step <= last
          /\ first > last => nr' = first - step /\ first - step >= last
      BY <1>2, <2>1, <2>5, <2>8, StartUp
    <3> QED BY <3>1, <1>2, <1>3, <2>4, <2>5, <2>6 DEF NextNumber
  <2> QED BY <1>1, <2>1, <2>3, <2>4, <2>7, <2>9 DEF InterpolationInv
<1> QED BY <1>4, <1>5

(* One round of the loop.                                                  *)
LEMMA RoundStep == InterpolationInv /\ interpolate => InterpolationInv'
<1> SUFFICES ASSUME InterpolationInv, interpolate PROVE InterpolationInv'
  OBVIOUS
<1>1. InterpolationTypeOK'
  BY TypeStep DEF InterpolationInv, Next
<1>2. /\ first \in UInt /\ last \in UInt /\ nr \in UInt
      /\ first \in Nat /\ last \in Nat /\ nr \in Nat
  BY UIntAssumption DEF InterpolationInv, InterpolationTypeOK, UInt
<1>3. pc = "loop" /\ Interpolated /\ Parity /\ Counted /\ NextNumber
  BY DEF InterpolationInv, interpolate
<1>4. UNCHANGED <<way, first, last, is_alphabetic, error_field, pc>>
  BY DEF interpolate
<1>5. Interpolated' /\ Parity' /\ step' = step
  BY <1>3, <1>4 DEF Interpolated, Parity, step
<1>6. step \in {1, 2} /\ (step = 2 => first % 2 = last % 2)
  BY <1>3, ParityOfKind DEF InterpolationInv
<1>7. lower < nr /\ nr < upper
  BY DEF interpolate, in_range
<1>8. first # last
  BY <1>2, <1>7 DEF lower, upper
<1> DEFINE k == Len(written)
<1>9. /\ k \in Nat /\ Len(written') = k + 1
      /\ written'[k + 1] = nr
      /\ \A i \in 1..k : written'[i] = written[i]
  BY DEF InterpolationInv, InterpolationTypeOK, interpolate
<1>10. nr' = Plus(nr, IF first < last THEN step ELSE -step)
  BY DEF interpolate, increment_of_loop, step
<1>11. CASE first < last
  <2>1. nr = first + (k + 1) * step /\ nr < last
    BY <1>2, <1>3, <1>7, <1>11 DEF NextNumber, upper
  <2>2. nr + step = first + (k + 2) * step /\ nr + step <= last
    <3> HIDE DEF k
    <3> QED BY <1>2, <1>6, <1>9, <2>1, RoundUp
  <2>3. nr' = nr + step
    BY <1>2, <1>6, <1>10, <1>11, <2>2, UIntAssumption DEF Plus, UInt
  <2>4. NextNumber'
    <3>1. (Len(written') + 1) * step = (k + 2) * step
      BY <1>9
    <3> QED BY <1>2, <1>4, <1>5, <1>11, <2>2, <2>3, <3>1 DEF NextNumber
  <2>5. \A i \in 1..(k + 1) : written'[i] = first + i * step
    BY <1>3, <1>9, <1>11, <2>1 DEF Counted
  <2>6. first + (k + 1) * step < last
    BY <2>1
  <2>7. Counted'
    BY <1>2, <1>4, <1>5, <1>9, <1>11, <2>5, <2>6 DEF Counted
  <2> QED BY <1>1, <1>3, <1>4, <1>5, <2>4, <2>7 DEF InterpolationInv
<1>12. CASE first > last
  <2>1. nr = first - (k + 1) * step /\ nr > last
    BY <1>2, <1>3, <1>7, <1>12 DEF NextNumber, lower
  <2>2. nr - step = first - (k + 2) * step /\ nr - step >= last
    <3> HIDE DEF k
    <3> QED BY <1>2, <1>6, <1>9, <2>1, RoundDown
  <2>3. nr' = nr - step
    BY <1>2, <1>6, <1>10, <1>12, <2>2, UIntAssumption DEF Plus, UInt
  <2>4. NextNumber'
    <3>1. (Len(written') + 1) * step = (k + 2) * step
      BY <1>9
    <3> QED BY <1>2, <1>4, <1>5, <1>12, <2>2, <2>3, <3>1 DEF NextNumber
  <2>5. \A i \in 1..(k + 1) : written'[i] = first - i * step
    BY <1>3, <1>9, <1>12, <2>1 DEF Counted
  <2>6. first - (k + 1) * step > last
    BY <2>1
  <2>7. Counted'
    BY <1>2, <1>4, <1>5, <1>9, <1>12, <2>5, <2>6 DEF Counted
  <2> QED BY <1>1, <1>3, <1>4, <1>5, <2>4, <2>7 DEF InterpolationInv
<1> QED BY <1>2, <1>8, <1>11, <1>12

LEMMA InvStep == InterpolationInv /\ [Next]_vars => InterpolationInv'
<1> SUFFICES ASSUME InterpolationInv, [Next]_vars PROVE InterpolationInv'
  OBVIOUS
<1>0. InterpolationTypeOK'
  BY TypeStep DEF InterpolationInv
<1>1. CASE read_end_points
  BY <1>0, <1>1 DEF read_end_points, InterpolationInv
<1>2. CASE fail_check
  <2>1. error_field' # "none"
    BY <1>2, ChainErrors DEF fail_check
  <2>2. ~Interpolated'
    BY <2>1 DEF Interpolated
  <2> QED BY <1>0, <1>2, <2>2 DEF fail_check, InterpolationInv
<1>3. CASE pass_checks
  BY <1>3, PassStep
<1>4. CASE interpolate
  BY <1>4, RoundStep
<1>5. CASE leave_loop
  <2>1. UNCHANGED <<way, first, last, is_alphabetic, error_field, nr, written>> /\ pc' = "written"
    BY <1>5 DEF leave_loop
  <2>2. Interpolated /\ Parity /\ Counted /\ NextNumber
    BY <1>5 DEF leave_loop, InterpolationInv
  <2>3. Interpolated' /\ Parity' /\ Counted'
    BY <2>1, <2>2 DEF Interpolated, Parity, Counted, step
  <2>4. first \in Nat /\ last \in Nat /\ nr \in Nat
    BY UIntAssumption DEF InterpolationInv, InterpolationTypeOK, UInt
  <2>5. ~(lower < nr /\ nr < upper)
    BY <1>5, <2>4 DEF leave_loop, in_range
  <2>6. Complete
    <3>1. step \in {1, 2} /\ Len(written) \in Nat
      BY <2>2, ParityOfKind DEF InterpolationInv, InterpolationTypeOK
    <3>2. first < last => nr >= last
      <4>1. first < last => nr > first
        BY <2>2, <2>4, <3>1 DEF NextNumber
      <4> QED BY <2>4, <2>5, <4>1 DEF lower, upper
    <3>3. first > last => nr <= last
      <4>1. first > last => nr < first
        BY <2>2, <2>4, <3>1 DEF NextNumber
      <4> QED BY <2>4, <2>5, <4>1 DEF lower, upper
    <3> QED BY <2>2, <2>4, <3>2, <3>3 DEF NextNumber, Complete
  <2>7. Complete'
    BY <2>1, <2>6 DEF Complete, step
  <2> QED BY <1>0, <2>1, <2>3, <2>7 DEF InterpolationInv
<1>6. CASE UNCHANGED vars
  BY <1>0, <1>6 DEF vars, InterpolationInv, Interpolated, Parity, Counted, NextNumber,
                    Complete, step
<1> QED BY <1>1, <1>2, <1>3, <1>4, <1>5, <1>6 DEF Next

-----------------------------------------------------------------------------
(* Numbers of the same parity are a multiple of 2 apart.                   *)
LEMMA EvenDistance ==
    ASSUME NEW f \in Nat, NEW n \in Nat, n % 2 = f % 2
    PROVE  \E q \in Int : n = f + 2 * q
<1>1. n = 2 * (n \div 2) + (n % 2)
  OBVIOUS
<1>2. f = 2 * (f \div 2) + (f % 2)
  OBVIOUS
<1>3. n \div 2 \in Int /\ f \div 2 \in Int
  OBVIOUS
<1>4. (n \div 2) - (f \div 2) \in Int /\ n = f + 2 * ((n \div 2) - (f \div 2))
  BY <1>1, <1>2, <1>3
<1> QED BY <1>4

LEMMA Multiples ==
    ASSUME NEW f \in Nat, NEW s \in {1, 2}, NEW k \in Nat, NEW i \in 1..k
    PROVE  /\ s <= i * s /\ i * s <= k * s
           /\ s = 2 => (f + i * s) % 2 = f % 2 /\ (f - i * s) % 2 = f % 2
<1>1. CASE s = 1
  BY <1>1
<1>2. CASE s = 2
  BY <1>2
<1> QED BY <1>1, <1>2

(* The numbers counted so far are wanted ones, in order.                   *)
LEMMA CountedAreWanted ==
    ASSUME InterpolationTypeOK, Parity, Counted
    PROVE  /\ \A i \in DOMAIN written : written[i] \in Wanted
           /\ \A i, k \in DOMAIN written : i < k =>
                 IF first < last THEN written[i] < written[k] ELSE written[i] > written[k]
<1> DEFINE n == Len(written)
<1>1. n \in Nat /\ DOMAIN written = 1..n /\ written \in Seq(UInt)
  BY DEF InterpolationTypeOK
<1>2. /\ first \in UInt /\ last \in UInt /\ first \in Nat /\ last \in Nat
  BY UIntAssumption DEF InterpolationTypeOK, UInt
<1>3. step \in {1, 2} /\ (step = 2 => first % 2 = last % 2)
  BY ParityOfKind
<1>4. (way.kind = "even" => step = 2 /\ first % 2 = 0) /\ (way.kind = "odd" => step = 2 /\ first % 2 = 1)
  BY DEF Parity, step, increment
<1>5. \A i \in 1..n : written[i] \in UInt
  BY <1>1
<1> HIDE DEF n
<1>6. CASE first < last
  <2>1. lower = first /\ upper = last
    BY <1>6 DEF lower, upper
  <2>2. first + n * step < last /\ \A i \in 1..n : written[i] = first + i * step
    BY <1>6 DEF Counted, n
  <2>3. ASSUME NEW i \in 1..n PROVE written[i] \in Wanted
    <3>1. /\ step <= i * step /\ i * step <= n * step
          /\ step = 2 => (first + i * step) % 2 = first % 2
      BY <1>1, <1>2, <1>3, Multiples
    <3>2. n * step \in Nat /\ i * step \in Nat
      BY <1>1, <1>3
    <3>3. first < written[i] /\ written[i] < last
      BY <1>2, <1>3, <2>2, <3>1, <3>2
    <3>4. (way.kind = "even" => written[i] % 2 = 0) /\ (way.kind = "odd" => written[i] % 2 = 1)
      BY <1>4, <2>2, <3>1
    <3> QED BY <1>5, <2>1, <3>3, <3>4 DEF Wanted
  <2>4. ASSUME NEW i \in 1..n, NEW k \in 1..n, i < k PROVE written[i] < written[k]
    <3>1. i * step < k * step /\ i * step \in Nat /\ k * step \in Nat
      BY <1>1, <1>3, <2>4
    <3> QED BY <1>2, <2>2, <3>1
  <2> QED BY <1>1, <1>6, <2>3, <2>4
<1>7. CASE first > last
  <2>1. lower = last /\ upper = first
    BY <1>2, <1>7 DEF lower, upper
  <2>2. first - n * step > last /\ \A i \in 1..n : written[i] = first - i * step
    BY <1>7 DEF Counted, n
  <2>3. ASSUME NEW i \in 1..n PROVE written[i] \in Wanted
    <3>1. /\ step <= i * step /\ i * step <= n * step
          /\ step = 2 => (first - i * step) % 2 = first % 2
      BY <1>1, <1>2, <1>3, Multiples
    <3>2. n * step \in Nat /\ i * step \in Nat
      BY <1>1, <1>3
    <3>3. last < written[i] /\ written[i] < first
      BY <1>2, <1>3, <2>2, <3>1, <3>2
    <3>4. (way.kind = "even" => written[i] % 2 = 0) /\ (way.kind = "odd" => written[i] % 2 = 1)
      BY <1>4, <2>2, <3>1
    <3> QED BY <1>5, <2>1, <3>3, <3>4 DEF Wanted
  <2>4. ASSUME NEW i \in 1..n, NEW k \in 1..n, i < k PROVE written[i] > written[k]
    <3>1. i * step < k * step /\ i * step \in Nat /\ k * step \in Nat
      BY <1>1, <1>3, <2>4
    <3> QED BY <1>2, <2>2, <3>1
  <2>5. ~(first < last)
    BY <1>2, <1>7
  <2> QED BY <1>1, <2>3, <2>4, <2>5
<1>8. CASE first = last
  <2>1. n = 0
    BY <1>8 DEF Counted, n
  <2> QED BY <1>1, <2>1
<1> QED BY <1>2, <1>6, <1>7, <1>8

LEMMA InvNumbers == InterpolationInv => EveryNumberOnce
<1> SUFFICES ASSUME InterpolationInv PROVE EveryNumberOnce
  OBVIOUS
<1>1. InterpolationTypeOK
  BY DEF InterpolationInv
<1>2. CASE written = <<>>  /\ ~(pc = "written" /\ Interpolated)
  BY <1>2 DEF EveryNumberOnce
<1>3. CASE Parity /\ Counted /\ pc = "loop"
  BY <1>1, <1>3, CountedAreWanted DEF EveryNumberOnce
<1>4. CASE pc = "written" /\ Interpolated
  <2>1. Parity /\ Counted /\ Complete
    BY <1>4 DEF InterpolationInv
  <2>2. /\ first \in Nat /\ last \in Nat
        /\ DOMAIN written = 1..Len(written) /\ Len(written) \in Nat
    BY <1>1, UIntAssumption DEF InterpolationTypeOK, UInt
  <2>3. step \in {1, 2}
    BY <1>1, <2>1, ParityOfKind
  <2> DEFINE rounds == Len(written)
  <2>4. ASSUME NEW n \in Wanted PROVE \E i \in DOMAIN written : written[i] = n
    <3>1. n \in Nat /\ lower < n /\ n < upper
      BY UIntAssumption DEF Wanted, UInt
    <3>2. step = 2 => n % 2 = first % 2
      BY <2>1 DEF Wanted, Parity, step, increment
    <3>3. CASE first < last
      <4>1. first < n /\ n < last
        BY <3>1, <3>3 DEF lower, upper
      <4>2. rounds \in Nat /\ first + (rounds + 1) * step >= last
        BY <2>1, <2>2, <3>3 DEF Complete
      <4>3. \E i \in 1..rounds : n = first + i * step
        <5> HIDE DEF rounds
        <5>1. CASE step = 1
          <6>1. n - first \in 1..rounds /\ n = first + (n - first) * step
            BY <2>2, <3>1, <4>1, <4>2, <5>1
          <6> QED BY <6>1
        <5>2. CASE step = 2
          <6>1. PICK q \in Int : n = first + 2 * q
            BY <2>2, <3>1, <3>2, <5>2, EvenDistance
          <6>2. q \in 1..rounds /\ n = first + q * step
            BY <2>2, <3>1, <4>1, <4>2, <5>2, <6>1
          <6> QED BY <6>2
        <5> QED BY <2>3, <5>1, <5>2
      <4> QED BY <2>1, <2>2, <3>3, <4>3 DEF Counted
    <3>4. CASE first > last
      <4>1. first > n /\ n > last
        BY <2>2, <3>1, <3>4 DEF lower, upper
      <4>2. rounds \in Nat /\ first - (rounds + 1) * step <= last
        BY <2>1, <2>2, <3>4 DEF Complete
      <4>3. \E i \in 1..rounds : n = first - i * step
        <5> HIDE DEF rounds
        <5>1. CASE step = 1
          <6>1. first - n \in 1..rounds /\ n = first - (first - n) * step
            BY <2>2, <3>1, <4>1, <4>2, <5>1
          <6> QED BY <6>1
        <5>2. CASE step = 2
          <6>1. PICK q \in Int : n = first + 2 * q
            BY <2>2, <3>1, <3>2, <5>2, EvenDistance
          <6>2. -q \in 1..rounds /\ n = first - (-q) * step
            BY <2>2, <3>1, <4>1, <4>2, <5>2, <6>1
          <6> QED BY <6>2
        <5> QED BY <2>3, <5>1, <5>2
      <4> QED BY <2>1, <2>2, <3>4, <4>3 DEF Counted
    <3>5. CASE first = last
      BY <2>2, <3>1, <3>5 DEF lower, upper
    <3> QED BY <2>2, <3>3, <3>4, <3>5
  <2>5. \A i \in DOMAIN written : written[i] \in Wanted
    BY <1>1, <2>1, CountedAreWanted
  <2>6. \A i, k \in DOMAIN written : i < k =>
          IF first < last THEN written[i] < written[k] ELSE written[i] > written[k]
    BY <1>1, <2>1, CountedAreWanted
  <2> QED BY <1>4, <2>4, <2>5, <2>6 DEF EveryNumberOnce
<1> QED BY <1>1, <1>2, <1>3, <1>4 DEF InterpolationInv, InterpolationTypeOK

(* The unsigned loop of feed_way has the types it should and stays in the  *)
(* inductive invariant.                                                    *)
THEOREM LoopInvariant == Spec => []InterpolationInv
<1>1. Init => InterpolationInv
  BY InitInv
<1>2. InterpolationInv /\ [Next]_vars => InterpolationInv'
  BY InvStep
<1> QED BY <1>1, <1>2, PTL DEF Spec

(* Type correctness: no number of the loop leaves the unsigned integers.   *)
THEOREM InterpolationTypes == Spec => []InterpolationTypeOK
<1>1. InterpolationInv => InterpolationTypeOK
  BY DEF InterpolationInv
<1> QED BY <1>1, LoopInvariant, PTL

(* Every interpolation without an error gets exactly the house numbers     *)
(* between its end points, in order, whatever the width of the integers,   *)
(* the limit of the range and the ways in the input; the others get none.  *)
THEOREM InterpolatedNumbers == Spec => []EveryNumberOnce
<1>1. InterpolationInv => EveryNumberOnce
  BY InvNumbers
<1> QED BY <1>1, LoopInvariant, PTL

-----------------------------------------------------------------------------
(* What the steps have found out of the summary in Interpolation.          *)
PassedAll(w) == /\ failed_checks(w, first_of(w), last_of(w)) = {}
                /\ w.kind # "alphabetic" \/ is_alphabetic_ip_correct(w)

SummaryInv ==
    /\ pc # "read" => /\ first = first_of(way) /\ last = last_of(way)
                      /\ is_alphabetic = is_alphabetic_ip_correct(way)
    /\ pc = "check" => error_field = alphabetic_error(way)
    /\ pc = "loop" => PassedAll(way) /\ error_field = alphabetic_error(way)
    /\ pc = "written" => /\ error_field = error(way)
                         /\ ~PassedAll(way) => written = <<>>

LEMMA SummaryStep == InterpolationInv /\ SummaryInv /\ [Next]_vars => SummaryInv'
<1> SUFFICES ASSUME InterpolationInv, SummaryInv, [Next]_vars PROVE SummaryInv'
  OBVIOUS
<1>1. CASE read_end_points
  BY <1>1 DEF read_end_points, SummaryInv, first_of, last_of
<1>2. CASE fail_check
  <2>1. /\ pc = "check" /\ pc' = "written" /\ UNCHANGED <<way, first, last, is_alphabetic, written>>
        /\ failed_checks(way, first, last) # {}
        /\ error_field' = chain_error(way, first, last)
    BY <1>2 DEF fail_check
  <2>2. first = first_of(way) /\ last = last_of(way) /\ is_alphabetic = is_alphabetic_ip_correct(way)
    BY <2>1 DEF SummaryInv
  <2>3. error_field' = error(way)
    BY <2>1, <2>2 DEF error
  <2>4. written = <<>>
    BY <2>1 DEF InterpolationInv
  <2> QED BY <2>1, <2>2, <2>3, <2>4 DEF SummaryInv
<1>3. CASE pass_checks
  <2>1. /\ pc = "check" /\ UNCHANGED <<way, first, last, is_alphabetic, error_field, written>>
        /\ failed_checks(way, first, last) = {}
        /\ IF way.kind # "alphabetic" \/ is_alphabetic THEN pc' = "loop" ELSE pc' = "written"
    BY <1>3 DEF pass_checks
  <2>2. /\ first = first_of(way) /\ last = last_of(way) /\ is_alphabetic = is_alphabetic_ip_correct(way)
        /\ error_field = alphabetic_error(way)
    BY <2>1 DEF SummaryInv
  <2>3. error_field' = error(way)
    BY <2>1, <2>2 DEF error
  <2>4. written = <<>>
    BY <2>1 DEF InterpolationInv
  <2>5. pc' = "loop" => PassedAll(way)
    BY <2>1, <2>2 DEF PassedAll
  <2> QED BY <2>1, <2>2, <2>3, <2>4, <2>5 DEF SummaryInv
<1>4. CASE interpolate
  BY <1>4 DEF interpolate, SummaryInv
<1>5. CASE leave_loop
  <2>1. pc = "loop" /\ pc' = "written" /\ UNCHANGED <<way, first, last, is_alphabetic, error_field, written>>
    BY <1>5 DEF leave_loop
  <2>2. PassedAll(way) /\ error_field = alphabetic_error(way)
    BY <2>1 DEF SummaryInv
  <2>3. error_field = error(way)
    BY <2>2 DEF PassedAll, error
  <2> QED BY <2>1, <2>2, <2>3 DEF SummaryInv
<1>6. CASE UNCHANGED vars
  BY <1>6 DEF vars, SummaryInv
<1> QED BY <1>1, <1>2, <1>3, <1>4, <1>5, <1>6 DEF Next

(* How often a step fits between two numbers.                              *)
LEMMA StepsBetween ==
    ASSUME NEW d \in Nat, NEW s \in {1, 2}, NEW k \in Nat, k * s < d, d <= (k + 1) * s
    PROVE  (d - 1) \div s = k
<1>1. CASE s = 1
  BY <1>1
<1>2. CASE s = 2
  BY <1>2
<1> QED BY <1>1, <1>2

LEMMA WrittenIsBetween ==
    ASSUME InterpolationTypeOK, Parity, Counted, Complete
    PROVE  written = between(first, last, step)
<1> DEFINE n == Len(written)
           rounds == IF first = last THEN 0 ELSE (abs_diff(first, last) - 1) \div step
<1>1. n \in Nat /\ written \in Seq(UInt)
  BY DEF InterpolationTypeOK
<1>2. first \in Nat /\ last \in Nat
  BY UIntAssumption DEF InterpolationTypeOK, UInt
<1>3. step \in {1, 2}
  BY ParityOfKind
<1>4. written = [i \in 1..n |-> written[i]]
  BY <1>1
<1> HIDE DEF n
<1>5. CASE first < last
  <2>1. /\ first + n * step < last /\ first + (n + 1) * step >= last
        /\ \A i \in 1..n : written[i] = first + i * step
    BY <1>5 DEF Counted, Complete, n
  <2>2. abs_diff(first, last) = last - first /\ last - first \in Nat
    BY <1>2, <1>5 DEF abs_diff
  <2>3. n * step \in Nat /\ (n + 1) * step \in Nat
    BY <1>1, <1>3
  <2>4. n * step < last - first /\ last - first <= (n + 1) * step
    BY <1>2, <2>1, <2>3
  <2>5. rounds = n
    BY <1>1, <1>2, <1>3, <1>5, <2>2, <2>4, StepsBetween
  <2> HIDE DEF rounds
  <2>6. written = [i \in 1..rounds |-> IF first < last THEN first + i * step ELSE first - i * step]
    BY <1>4, <1>5, <2>1, <2>5
  <2> QED BY <2>6 DEF between, rounds
<1>6. CASE first > last
  <2>1. /\ first - n * step > last /\ first - (n + 1) * step <= last
        /\ \A i \in 1..n : written[i] = first - i * step
    BY <1>6 DEF Counted, Complete, n
  <2>2. abs_diff(first, last) = first - last /\ first - last \in Nat
    BY <1>2, <1>6 DEF abs_diff
  <2>3. n * step \in Nat /\ (n + 1) * step \in Nat
    BY <1>1, <1>3
  <2>4. n * step < first - last /\ first - last <= (n + 1) * step
    BY <1>2, <2>1, <2>3
  <2>5. rounds = n
    BY <1>1, <1>2, <1>3, <1>6, <2>2, <2>4, StepsBetween
  <2>6. ~(first < last)
    BY <1>2, <1>6
  <2> HIDE DEF rounds
  <2>7. written = [i \in 1..rounds |-> IF first < last THEN first + i * step ELSE first - i * step]
    BY <1>4, <2>1, <2>5, <2>6
  <2> QED BY <2>7 DEF between, rounds
<1>7. CASE first = last
  <2>1. written = <<>> /\ rounds = 0
    BY <1>7 DEF Counted
  <2> HIDE DEF rounds
  <2>2. [i \in 1..rounds |-> IF first < last THEN first + i * step ELSE first - i * step] = <<>>
    BY <2>1
  <2> QED BY <2>1, <2>2 DEF between, rounds
<1> QED BY <1>2, <1>5, <1>6, <1>7

(* The closed form that the second pass is modelled with is what the loop  *)
(* and the chain of checks compute, for every way.                         *)
THEOREM ExactSummary == Spec => []SummaryIsExact
<1>1. Init => SummaryInv
  BY DEF Init, SummaryInv
<1>2. ASSUME InterpolationInv, SummaryInv PROVE SummaryIsExact
  <2> SUFFICES ASSUME pc = "written" PROVE error_field = error(way) /\ written = numbers(way)
    BY DEF SummaryIsExact
  <2>1. /\ error_field = error(way)
        /\ ~PassedAll(way) => written = <<>>
        /\ first = first_of(way) /\ last = last_of(way)
        /\ is_alphabetic = is_alphabetic_ip_correct(way)
    BY <1>2 DEF SummaryInv
  <2>2. CASE ~PassedAll(way)
    BY <2>1, <2>2 DEF PassedAll, numbers
  <2>3. CASE PassedAll(way)
    <3>1. error(way) = "none"
      BY <2>3 DEF PassedAll, error, alphabetic_error, is_alphabetic_ip_correct, alphabetic_block
    <3>2. Interpolated
      BY <2>1, <2>3, <3>1 DEF Interpolated, PassedAll
    <3>3. Parity /\ Counted /\ Complete /\ InterpolationTypeOK
      BY <1>2, <3>2 DEF InterpolationInv
    <3>4. written = between(first_of(way), last_of(way), increment(way.kind))
      BY <2>1, <3>3, WrittenIsBetween DEF step
    <3> QED BY <2>1, <2>3, <3>4 DEF numbers, PassedAll
  <2> QED BY <2>2, <2>3
<1> QED BY <1>1, <1>2, SummaryStep, InitInv, InvStep, PTL DEF Spec
=============================================================================
