---------------------------- MODULE MCHammingCrc ----------------------------
(* Inputs for the coder: characters of the real width, rows of 1, 2 and 31 *)
(* characters, generator polynomials of degree 1 to 4.                     *)
EXTENDS HammingCrc

In(d, m, p, g) == [data |-> d, m |-> m, p |-> p, polynom |-> g]

\* "a", a character above 127 and "{" in three rows, "a" padded to one row of
\* two, "b" with one parity bit for a checksum, a quiet line, 31 characters "a"
\* in a row that does not fit, and the two refused argument lists.
SmallInputs ==
  { In(<<97, 200, 123>>, 1, 1, <<1, 0, 1, 1>>), In(<<97>>, 2, 1, <<1, 1, 0, 1>>),
    In(<<98>>, 1, 1, <<1, 1>>), In(<<97, 98, 99>>, 2, 0, <<1, 0, 1, 0, 1>>),
    In([i \in 1..31 |-> 97], 31, 0, <<1, 0, 1>>),
    In(<<97>>, 0, 1, <<1, 1>>), In(<<97>>, 1, 2, <<1, 1>>) }
=============================================================================
