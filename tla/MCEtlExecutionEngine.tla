-------------------------- MODULE MCEtlExecutionEngine --------------------------
(* Instances of EtlExecutionEngine for TLC: every graph over four nodes of *)
(* the root scope whose connections go forward, listed in either order;   *)
(* c is a container of x and y, d an empty one.                            *)
EXTENDS EtlExecutionEngine, TLC, SequencesExt

CONSTANTS a, b, c, d, x, y

Order == << a, b, c, d, x, y >>
TwoContainers == {c, d}
Placed == (a :> "root") @@ (b :> "root") @@ (c :> "root") @@ (d :> "root")
          @@ (x :> c) @@ (y :> c)

Arrow(from, to, type) == [from |-> from, to |-> to, type |-> type]
Arrows == << Arrow(a, b, "success"), Arrow(a, b, "failure"), Arrow(a, c, "success"),
             Arrow(a, c, "failure"), Arrow(a, d, "success"), Arrow(a, d, "failure"),
             Arrow(b, c, "success"), Arrow(b, c, "failure"), Arrow(b, d, "success"),
             Arrow(b, d, "failure"), Arrow(c, d, "success"), Arrow(c, d, "failure") >>
Inner == << Arrow(x, y, "success") >>

Chosen(arrows, chosen) == Inner \o SelectSeq(arrows, LAMBDA e : e \in chosen)
AllProjects ==
  {Chosen(order, chosen) : order \in {Arrows, Reverse(Arrows)},
                           chosen \in SUBSET {Arrows[i] : i \in DOMAIN Arrows}}
================================================================================
