-------------------------------- MODULE Lists --------------------------------
(* Loops over a list, as the code writes them.                               *)
EXTENDS Integers, Sequences

\* A loop that appends some of the elements: those of s at the places I, in order.
Selected(s, I) ==
  LET kept[i \in 0 .. Len(s)] ==
        IF i = 0 THEN << >> ELSE IF i \in I THEN Append(kept[i - 1], s[i]) ELSE kept[i - 1]
  IN kept[Len(s)]

\* A loop that adds up the numbers in s.
Total(s) ==
  LET sum[i \in 0 .. Len(s)] == IF i = 0 THEN 0 ELSE sum[i - 1] + s[i] IN sum[Len(s)]
=============================================================================
