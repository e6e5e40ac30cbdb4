--------------------------- MODULE MCResolveLoop ---------------------------
(* Instances of ResolveLoop for TLC. *)
EXTENDS ResolveLoop

\* Maximums a few steps above the starting prices.
MCMaxima == {3, 5, 6, 7, 9}

\* Cents: two private maximums just above 10 000 dollars, which the loop guard cuts
\* off ("Refuted" in the README).
MCLargeMaxima == {1000200, 1000300}
=============================================================================
