--------------------------- MODULE StreamingSequence ---------------------------
(***************************************************************************)
(* media/resultPanel/streamingSequence.ts: how the result panel's page     *)
(* decides whether a streamed message of a source continues the stream it  *)
(* has seen so far.  A cursor is the tracker's memory of one source.       *)
(* Messages without sequence metadata (older hosts) are not modelled: this *)
(* repository's host always sends it.                                      *)
(***************************************************************************)
EXTENDS Integers

NoCursor == [id |-> 0, next |-> -1, row |-> -1, lost |-> FALSE, terminal |-> FALSE]

Cursor(id, next, row) == [id |-> id, next |-> next, row |-> row,
                          lost |-> FALSE, terminal |-> FALSE]

Apply(c) == [kind |-> "apply", cursor |-> c]
Duplicate(c) == [kind |-> "duplicate", cursor |-> c]
Stale(c) == [kind |-> "stale", cursor |-> c]
Desync(c, id) ==
  [kind |-> "desync",
   cursor |-> [id |-> id, next |-> IF c = NoCursor THEN 0 ELSE c.next,
               row |-> IF c = NoCursor THEN 0 ELSE c.row,
               lost |-> TRUE, terminal |-> FALSE]]

Foreign(c, id) == c.id # id \/ c.terminal \/ c.lost
Repeats(c, m) == m.seq < c.next \/ (m.seq = c.next /\ m.from < c.row /\ m.total <= c.row)
(* Continues without the row check, letting gaps pass.                    *)
ContinuesLater(c, m) == m.seq >= c.next /\ m.total >= m.from       \* mutant

Continues(c, m) == m.seq = c.next /\ m.from = c.row /\ m.total >= m.from

(* The cursor a message is judged by: a new one for a first chunk, or for  *)
(* a chunk that starts where the displayed result `base` ends.             *)
Baseline(c, m, base) ==
  IF m.first THEN Cursor(m.id, 0, 0)
  ELSE IF c = NoCursor /\ base = << m.id, m.from >> THEN Cursor(m.id, m.seq, m.from)
  ELSE c

Judge(c, m) ==
  CASE Foreign(c, m.id) -> Stale(c)
    [] ~Foreign(c, m.id) /\ Repeats(c, m) -> Duplicate(c)
    [] ~Foreign(c, m.id) /\ Continues(c, m) ->
         Apply([c EXCEPT !.next = @ + 1, !.row = m.total])
    [] OTHER -> Desync(c, m.id)

Evaluate(c, m, base) ==
  IF m.first /\ c.id = m.id /\ m.seq < c.next THEN Duplicate(c)
  ELSE IF m.first /\ (m.seq # 0 \/ m.from # 0) THEN Desync(c, m.id)
  ELSE IF Baseline(c, m, base) = NoCursor THEN Desync(c, m.id)
  ELSE Judge(Baseline(c, m, base), m)

(* Complete without the comparison with the last chunk seen.               *)
CompleteAnyway(c, id, last) ==                       \* mutant
  IF c = NoCursor \/ c.id # id THEN Stale(c)
  ELSE IF c.terminal THEN Duplicate(c)
  ELSE Apply([c EXCEPT !.terminal = TRUE])

(* Accept the end of a stream only after its last chunk.                   *)
Complete(c, id, last) ==
  IF c = NoCursor \/ c.id # id THEN Stale(c)
  ELSE IF c.terminal THEN Duplicate(c)
  ELSE IF c.lost THEN Stale(c)
  ELSE IF last < c.next - 1 THEN Duplicate(c)
  ELSE IF last > c.next - 1 THEN Desync(c, id)
  ELSE Apply([c EXCEPT !.terminal = TRUE])
================================================================================
