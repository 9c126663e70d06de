--------------------------- MODULE MCClosestPoint ---------------------------
(* Lines in a grid of four by four; a float with a single binary digit; an *)
(* unsigned short with eleven values.                                       *)
EXTENDS ClosestPoint

at(lat, lon) == [lat |-> lat, lon |-> lon]
MCWidth == 3
corners == {at(0, 0), at(0, 3), at(1, 2), at(2, 1), at(3, 0), at(3, 3)}
shorts  == {<<a, b>> : a, b \in corners} \union {<<a, b, c>> : a, b, c \in corners}

(* Up and down the columns of the grid, with three to thirteen points      *)
longs == {[k \in 1..n |-> at((s * k) % 4, (s * k + k \div 4) % 4)] : n \in 3..13, s \in 1..3}
MCLines == {line \in shorts \union longs : \A k \in 2..Len(line) : line[k] # line[k - 1]}

MCPoints  == {at(0, 1), at(1, 1), at(2, 3), at(3, 2)}
MCGarbage == {at(0, 0), at(3, 1)}

(* Rounded to even numbers, away from zero; a stretched north              *)
MCFloat(x)  == IF x \in -1..1 THEN x ELSE IF x > 0 THEN 2 * ((x + 1) \div 2) ELSE -2 * ((1 - x) \div 2)
MCMercator(location) ==
    [x |-> location.lon, y |-> location.lat + IF location.lat > 2 THEN 1 ELSE 0]
=============================================================================
