---------------------------- MODULE SequenceFilters ----------------------------
(***************************************************************************)
(* Arrays as the code uses them: Array.prototype.includes (InSeq), by the  *)
(* queues of the gate and the ETL engine, and Array.prototype.filter       *)
(* (Kept), by the engine: the elements of a sequence that are in a set, in *)
(* their order.                                                            *)
(***************************************************************************)
EXTENDS Naturals, Sequences

InSeq(x, s) == \E i \in DOMAIN s : s[i] = x

Kept(s, K) ==
  LET kept[i \in 0 .. Len(s)] ==
        IF i = 0 THEN << >>
        ELSE IF s[i] \in K THEN Append(kept[i - 1], s[i]) ELSE kept[i - 1]
  IN kept[Len(s)]
================================================================================
