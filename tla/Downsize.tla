-------------------------------- MODULE Downsize --------------------------------
(***************************************************************************)
(* The arithmetic of favicon.resize: an image is scaled so that its longer *)
(* edge has 32 pixels, with floating-point numbers that are truncated.     *)
(***************************************************************************)
EXTENDS Integers

targetSize == 32

\* int(float64(edge) * scale), scale = 32 / longer.  The rounding of the two
\* operations shows only where the product should be a whole number: it may fall
\* short of it (49 * (32 / 49) does, 64 * (32 / 64) does not).
Truncated(edge, longer) ==
    LET exact == (edge * targetSize) \div longer
    IN  {exact} \cup {n \in {exact - 1} : exact * longer = edge * targetSize}

\* Mutant: a very narrow image vanishes.
EdgesUnbounded(edge, longer) == Truncated(edge, longer)

Edges(edge, longer) == {IF n < 1 THEN 1 ELSE n : n \in Truncated(edge, longer)}

\* The sizes that an image of w by h pixels may get.
resize(w, h) ==
    IF w <= targetSize /\ h <= targetSize THEN {<<w, h>>}
    ELSE LET longer == IF w < h THEN h ELSE w
         IN  Edges(w, longer) \X Edges(h, longer)

\* The source of pixel i of n, for an edge of so many pixels.
Sample(i, edge, n) == (i * edge) \div n
================================================================================
