------------------------------ MODULE Accumulation ------------------------------
(***************************************************************************)
(* The loop over a sequence that accumulates a result.  The operation is a *)
(* function of pairs, and the recursion is over the index, so that what is *)
(* accumulated can be reasoned about.                                      *)
(***************************************************************************)
EXTENDS Naturals, Sequences

Accumulated(op, base, s) ==
  LET upTo[n \in 0 .. Len(s)] == IF n = 0 THEN base ELSE op[<<upTo[n - 1], s[n]>>]
  IN  upTo[Len(s)]
===============================================================================
