----------------------- MODULE ResultPanelDisplayProofs ------------------------
(***************************************************************************)
(* If no tab is closed, the result panel shows what the host has whenever  *)
(* nothing is under way.                                                   *)
(*                                                                         *)
(* What the host may expect of the page after each message is a display:   *)
(* the source shown (none, if the page may still be blank) and, of S, its  *)
(* results.  `open` says that the last result may grow by the chunk        *)
(* `next`; `halt` that the user may have cancelled on the page, and the    *)
(* cap of a result that the page may then have stopped at that many rows.  *)
(* The page depicts a display (Depicts), the messages under way lead from  *)
(* that to others (Reaches), and the host takes the last one for granted   *)
(* (Current).  Each function of the host has a lemma that extends the      *)
(* chain by what it posts (Informs), each handler of the page one that     *)
(* follows its first link (HandleDepicts).                                 *)
(***************************************************************************)
EXTENDS ResultPanelStreamProofs

----------------------------------------------------------------------------
(* Displays.                                                               *)

Tab == [id : Nat, count : Nat, cancelled : BOOLEAN, cap : Nat \union {None}]
Display ==
  [active : Sources \union {NoSource}, executing : BOOLEAN, halt : BOOLEAN,
   open : BOOLEAN, results : Seq(Tab), next : Nat, version : Nat]

Lists(rs, ts) ==
  /\ DOMAIN ts = DOMAIN rs
  /\ \A i \in DOMAIN rs : /\ ts[i].id = rs[i].id /\ ts[i].count = Len(rs[i].rows)
                          /\ ts[i].cancelled = rs[i].cancelled

Extendable(d) ==
  LET n == Len(d.results) IN n > 0 /\ ~d.results[n].cancelled

StaysOpen(d, e) == e.open => d.open /\ e.next = d.next
SameRows(d, e) == e.results = d.results /\ e.executing = d.executing /\ e.halt = d.halt

(* The message m leads from the display d to e: of its own kind...         *)
Replaces(d, m, e) ==
  IF m.source = "O" THEN e.active = "O"
  ELSE /\ e.active = "S" /\ e.version = m.version /\ e.executing = m.executing
       /\ Lists(m.results, e.results)
       /\ e.open => ~m.completed /\ Extendable(e)
       /\ d.active = "S" => d.version <= m.version
       /\ d.active = "S" /\ d.version = m.version => SameRows(d, e) /\ StaysOpen(d, e)

Notes(d, m, e) ==
  /\ m.source = "S" /\ e.executing = m.executing /\ e.results = d.results
  /\ StaysOpen(d, e) /\ (e.open => ~m.completed)

Begins(d, m, e) ==
  LET n == Len(d.results) IN
  /\ m.seq = 0 /\ m.from = 0 /\ m.index = n + 1 /\ m.id > 0
  /\ \A i \in DOMAIN d.results : d.results[i].id # m.id
  /\ Len(e.results) = n + 1 /\ \A i \in 1 .. n : e.results[i] = d.results[i]
  /\ e.results[n + 1].id = m.id /\ e.results[n + 1].count = m.total
  /\ ~e.results[n + 1].cancelled /\ e.next = 1

Lengthens(d, m, e) ==
  LET n == Len(d.results) IN
  /\ d.open /\ n > 0 /\ m.index = n /\ m.id = d.results[n].id
  /\ m.seq = d.next /\ m.from = d.results[n].count
  /\ Len(e.results) = n /\ \A i \in 1 .. n : i # n => e.results[i] = d.results[i]
  /\ e.results[n].id = d.results[n].id /\ e.results[n].cap = d.results[n].cap
  /\ e.results[n].cancelled = d.results[n].cancelled /\ e.results[n].count = m.total
  /\ e.next = d.next + 1

Feeds(d, m, e) ==
  /\ e.executing = d.executing /\ e.halt = d.halt /\ m.total = m.from + Len(m.rows)
  /\ IF m.first THEN Begins(d, m, e) ELSE Lengthens(d, m, e)

Halts(d, e) ==
  /\ ~e.executing /\ ~e.open /\ Len(e.results) = Len(d.results)
  /\ \A i \in DOMAIN d.results :
       /\ e.results[i].id = d.results[i].id /\ e.results[i].cap = d.results[i].cap
       /\ e.results[i].cancelled /\ e.results[i].count <= d.results[i].count

(* ... and of any kind.                                                    *)
Leads(d, m, e) ==
  /\ m.type = "hydrate" => Replaces(d, m, e)
  /\ m.type # "hydrate" => e.active = d.active
  /\ m.type # "hydrate" /\ d.active = "O" =>
       m.type = "cancelExecution" \/ (m.type = "setActiveSource" /\ m.source = "O")
  /\ m.type # "hydrate" /\ d.active = "S" =>
       /\ e.version = d.version
       /\ m.type = "setActiveSource" => Notes(d, m, e)
       /\ m.type = "appendRows" => Feeds(d, m, e)
       /\ m.type = "streamingComplete" => SameRows(d, e) /\ ~e.open
       /\ m.type = "log" => SameRows(d, e) /\ StaysOpen(d, e)
       /\ m.type = "cancelExecution" => Halts(d, e)

Reaches(d, q, e) ==
  \E s \in [1 .. Len(q) + 1 -> Display] :
    /\ s[1] = d /\ s[Len(q) + 1] = e
    /\ \A p \in 1 .. Len(q) : Leads(s[p], q[p], s[p + 1])

LEMMA ReachesAtOnce ==
  ASSUME NEW d \in Display
  PROVE  Reaches(d, << >>, d) /\ \A e : Reaches(d, << >>, e) => e = d
<1> DEFINE s == [p \in 1 .. 1 |-> d]
<1>1. s \in [1 .. Len(<< >>) + 1 -> Display] /\ s[1] = d /\ Len(<< >>) = 0
  OBVIOUS
<1> HIDE DEF s
<1> QED BY <1>1 DEF Reaches

LEMMA ReachesFurther ==
  ASSUME NEW q \in Seq(ToView), NEW m, NEW d, NEW e, NEW f \in Display,
         Reaches(d, q, e), Leads(e, m, f)
  PROVE  Reaches(d, Append(q, m), f)
<1>1. PICK s \in [1 .. Len(q) + 1 -> Display] :
        /\ s[1] = d /\ s[Len(q) + 1] = e
        /\ \A p \in 1 .. Len(q) : Leads(s[p], q[p], s[p + 1])
  BY DEF Reaches
<1> DEFINE n == Len(q)
           r == Append(q, m)
           t == [p \in 1 .. n + 2 |-> IF p = n + 2 THEN f ELSE s[p]]
<1>2. n \in Nat /\ Len(r) = n + 1 /\ r[n + 1] = m /\ \A p \in 1 .. n : r[p] = q[p]
  OBVIOUS
<1> HIDE DEF n, r
<1>3. /\ t \in [1 .. n + 2 -> Display] /\ t[n + 2] = f
      /\ \A p \in 1 .. n + 1 : t[p] = s[p]
  BY <1>1, <1>2 DEF n
<1> HIDE DEF t
<1>4. ASSUME NEW p \in 1 .. n + 1 PROVE Leads(t[p], r[p], t[p + 1])
  <2>1. CASE p = n + 1
    BY <1>1, <1>2, <1>3, <2>1 DEF n
  <2>2. CASE p \in 1 .. n
    <3>1. p \in 1 .. n + 1 /\ p + 1 \in 1 .. n + 1
      BY <1>2, <2>2
    <3> QED BY <1>1, <1>2, <1>3, <2>2, <3>1 DEF n
  <2> QED BY <1>2, <2>1, <2>2
<1>5. t[1] = d /\ n + 1 + 1 = n + 2
  BY <1>1, <1>2, <1>3
<1>6. Reaches(d, r, f)
  BY <1>2, <1>3, <1>4, <1>5 DEF Reaches
<1> QED BY <1>6 DEF r

LEMMA ReachesOn ==
  ASSUME NEW q \in Seq(ToView), NEW out \in Seq(ToView), NEW d, NEW e, NEW f,
         Reaches(d, q, e), Reaches(e, out, f)
  PROVE  Reaches(d, q \o out, f)
<1>1. PICK s \in [1 .. Len(q) + 1 -> Display] :
        /\ s[1] = d /\ s[Len(q) + 1] = e
        /\ \A p \in 1 .. Len(q) : Leads(s[p], q[p], s[p + 1])
  BY Zenon DEF Reaches
<1>2. PICK t \in [1 .. Len(out) + 1 -> Display] :
        /\ t[1] = e /\ t[Len(out) + 1] = f
        /\ \A p \in 1 .. Len(out) : Leads(t[p], out[p], t[p + 1])
  BY Zenon DEF Reaches
<1> DEFINE n == Len(q)
           k == Len(out)
           r == q \o out
           u == [p \in 1 .. n + k + 1 |-> IF p <= n THEN s[p] ELSE t[p - n]]
<1>3. /\ n \in Nat /\ k \in Nat /\ Len(r) = n + k
      /\ \A p \in 1 .. n : r[p] = q[p]
      /\ \A p \in n + 1 .. n + k : r[p] = out[p - n]
  OBVIOUS
<1>4. /\ s \in [1 .. n + 1 -> Display] /\ t \in [1 .. k + 1 -> Display] /\ s[n + 1] = t[1]
      /\ \A p \in 1 .. n : Leads(s[p], q[p], s[p + 1])
      /\ \A p \in 1 .. k : Leads(t[p], out[p], t[p + 1])
      /\ s[1] = d /\ t[1] = e /\ t[k + 1] = f
  BY <1>1, <1>2
<1> HIDE DEF n, k, r
<1>5. /\ u \in [1 .. n + k + 1 -> Display]
      /\ \A p \in 1 .. n : u[p] = s[p]
      /\ \A p \in n + 1 .. n + k + 1 : u[p] = t[p - n]
  BY <1>3, <1>4
<1> HIDE DEF u
<1>6. \A p \in 1 .. n + 1 : u[p] = s[p]
  <2>1. /\ n + 1 \in n + 1 .. n + k + 1 /\ (n + 1) - n = 1
        /\ \A p \in 1 .. n + 1 : p \in 1 .. n \/ p = n + 1
    BY <1>3
  <2>2. u[n + 1] = s[n + 1]
    BY <1>4, <1>5, <2>1
  <2> QED BY <1>5, <2>1, <2>2
<1>7. ASSUME NEW p \in 1 .. n + k PROVE Leads(u[p], r[p], u[p + 1])
  <2>1. CASE p \in 1 .. n
    <3>1. p \in 1 .. n + 1 /\ p + 1 \in 1 .. n + 1
      BY <1>3, <2>1
    <3> QED BY <1>3, <1>4, <1>6, <2>1, <3>1
  <2>2. CASE p \in n + 1 .. n + k
    <3>1. /\ p \in n + 1 .. n + k + 1 /\ p + 1 \in n + 1 .. n + k + 1
          /\ p - n \in 1 .. k /\ (p + 1) - n = (p - n) + 1
      BY <1>3, <2>2
    <3> QED BY Zenon, <1>3, <1>4, <1>5, <2>2, <3>1
  <2> QED BY <1>3, <2>1, <2>2
<1>8. u[1] = d /\ u[n + k + 1] = f
  <2>1. 1 \in 1 .. n + 1 /\ n + k + 1 \in n + 1 .. n + k + 1 /\ (n + k + 1) - n = k + 1
    BY <1>3
  <2> QED BY <1>4, <1>5, <1>6, <2>1
<1>9. Reaches(d, r, f)
  BY Zenon, <1>3, <1>5, <1>7, <1>8 DEF Reaches
<1> QED BY <1>9 DEF r

LEMMA ReachesNext ==
  ASSUME NEW q \in Seq(ToView), q # << >>, NEW d, NEW e, Reaches(d, q, e)
  PROVE  \E f \in Display : Leads(d, q[1], f) /\ Reaches(f, Tail(q), e)
<1>1. PICK s \in [1 .. Len(q) + 1 -> Display] :
        /\ s[1] = d /\ s[Len(q) + 1] = e
        /\ \A p \in 1 .. Len(q) : Leads(s[p], q[p], s[p + 1])
  BY DEF Reaches
<1> DEFINE n == Len(q)
           r == Tail(q)
           t == [p \in 1 .. n |-> s[p + 1]]
<1>2. n \in Nat /\ n > 0 /\ Len(r) = n - 1 /\ \A p \in 1 .. n - 1 : r[p] = q[p + 1]
  OBVIOUS
<1>3. /\ s \in [1 .. n + 1 -> Display] /\ s[1] = d /\ s[n + 1] = e
      /\ \A p \in 1 .. n : Leads(s[p], q[p], s[p + 1])
  BY <1>1
<1> HIDE DEF n, r
<1>4. t \in [1 .. n -> Display] /\ \A p \in 1 .. n : t[p] = s[p + 1]
  BY <1>2, <1>3
<1> HIDE DEF t
<1>5. ASSUME NEW p \in 1 .. n - 1 PROVE Leads(t[p], r[p], t[p + 1])
  <2>1. p \in 1 .. n /\ p + 1 \in 1 .. n
    BY <1>2
  <2> QED BY Zenon, <1>2, <1>3, <1>4, <2>1
<1>6. /\ 1 \in 1 .. n /\ 1 + 1 = 2 /\ n \in 1 .. n /\ (n - 1) + 1 = n
      /\ t[1] = s[2] /\ s[2] \in Display /\ t[n] = e
  BY <1>2, <1>3, <1>4
<1>7. Reaches(s[2], r, e)
  BY Zenon, <1>2, <1>4, <1>5, <1>6 DEF Reaches
<1>8. Leads(d, q[1], s[2])
  BY <1>3, <1>6
<1> QED BY <1>6, <1>7, <1>8 DEF r

(* A page that starts anew may miss the messages before the first hydrate  *)
(* that it gets: no matter which, it may still be blank, or is as it would *)
(* be without the reload.                                                  *)
Blank == [active |-> NoSource, executing |-> FALSE, halt |-> FALSE, open |-> FALSE,
          results |-> << >>, next |-> 0, version |-> 0]

LEMMA BlankIs == Blank \in Display /\ Blank.active = NoSource
<1>1. << >> \in Seq(Tab)
  OBVIOUS
<1> QED BY <1>1 DEF Blank, Display

LEMMA BlankStays ==
  ASSUME NEW m
  PROVE  m.type # "hydrate" => Leads(Blank, m, Blank)
BY BlankIs DEF Leads, NoSource

LEMMA BlankBecomes ==
  ASSUME NEW d, NEW m, NEW e, Leads(d, m, e), m.type = "hydrate"
  PROVE  Leads(Blank, m, e)
BY BlankIs DEF Leads, Replaces, NoSource

LEMMA ReachesFromBlank ==
  ASSUME NEW q \in Seq(ToView), NEW d, NEW e, Reaches(d, q, e)
  PROVE  \E f \in {Blank, e} : Reaches(Blank, q, f)
<1>1. PICK s \in [1 .. Len(q) + 1 -> Display] :
        /\ s[1] = d /\ s[Len(q) + 1] = e
        /\ \A p \in 1 .. Len(q) : Leads(s[p], q[p], s[p + 1])
  BY DEF Reaches
<1> DEFINE n == Len(q)
           Hydrated(p) == \E r \in 1 .. n : r < p /\ q[r].type = "hydrate"
           t == [p \in 1 .. n + 1 |-> IF Hydrated(p) THEN s[p] ELSE Blank]
<1>2. /\ n \in Nat /\ s \in [1 .. n + 1 -> Display] /\ s[n + 1] = e
      /\ \A p \in 1 .. n : Leads(s[p], q[p], s[p + 1])
  BY <1>1
<1>3. ASSUME NEW p \in 1 .. n
      PROVE  Hydrated(p + 1) <=> Hydrated(p) \/ q[p].type = "hydrate"
  BY <1>2
<1>4. ~Hydrated(1)
  BY <1>2
<1> HIDE DEF Hydrated, n
<1>5. /\ t \in [1 .. n + 1 -> Display]
      /\ \A p \in 1 .. n + 1 : t[p] = IF Hydrated(p) THEN s[p] ELSE Blank
  BY <1>2, BlankIs
<1> HIDE DEF t
<1>6. ASSUME NEW p \in 1 .. n PROVE Leads(t[p], q[p], t[p + 1])
  <2>1. p \in 1 .. n + 1 /\ p + 1 \in 1 .. n + 1
    BY <1>2
  <2>2. Leads(s[p], q[p], s[p + 1])
    BY <1>2
  <2>3. t[p] = IF Hydrated(p) THEN s[p] ELSE Blank
    BY <1>5, <2>1
  <2>4. t[p + 1] = IF Hydrated(p + 1) THEN s[p + 1] ELSE Blank
    BY <1>5, <2>1
  <2>5. CASE q[p].type = "hydrate"
    <3>1. t[p + 1] = s[p + 1]
      BY <1>3, <2>4, <2>5
    <3>2. Leads(Blank, q[p], s[p + 1])
      BY <2>2, <2>5, BlankBecomes
    <3> QED BY <2>2, <2>3, <3>1, <3>2
  <2>6. CASE q[p].type # "hydrate"
    <3>1. Hydrated(p + 1) <=> Hydrated(p)
      BY <1>3, <2>6
    <3>2. Leads(Blank, q[p], Blank)
      BY <2>6, BlankStays
    <3> QED BY <2>2, <2>3, <2>4, <3>1, <3>2
  <2> QED BY <2>5, <2>6
<1>7. t[1] = Blank /\ t[n + 1] \in {Blank, e}
  <2>1. 1 \in 1 .. n + 1 /\ n + 1 \in 1 .. n + 1
    BY <1>2
  <2> QED BY <1>2, <1>4, <1>5, <2>1
<1>8. Reaches(Blank, q, t[n + 1])
  BY <1>5, <1>6, <1>7 DEF Reaches, n
<1> QED BY <1>7, <1>8

(* A click on cancel lowers the caps of every display to come.             *)
Cap(t, n, i) ==
  IF i \notin DOMAIN n THEN t.cap
  ELSE IF t.cap = None \/ n[i] < t.cap THEN n[i] ELSE t.cap

Lowered(d, n) ==
  IF d.active # "S" THEN d
  ELSE [d EXCEPT !.halt = TRUE,
                 !.results = [i \in DOMAIN @ |-> [@[i] EXCEPT !.cap = Cap(d.results[i], n, i)]]]

LowerTab(t, u, n, i) ==
  /\ u \in Tab /\ u.id = t.id /\ u.count = t.count /\ u.cancelled = t.cancelled
  /\ u.cap = Cap(t, n, i)

LEMMA CapType ==
  ASSUME NEW t \in Tab, NEW n \in Seq(Nat), NEW i
  PROVE  /\ Cap(t, n, i) \in Nat \union {None} /\ (t.cap # None => Cap(t, n, i) # None)
         /\ i \in DOMAIN n => Cap(t, n, i) # None
<1>1. i \in DOMAIN n => n[i] \in Nat
  OBVIOUS
<1> QED BY <1>1 DEF Cap, Tab, None

LEMMA FunctionIsSeq ==
  ASSUME NEW S, NEW k \in Nat, NEW f \in [1 .. k -> S]
  PROVE  f \in Seq(S) /\ Len(f) = k /\ DOMAIN f = 1 .. k
OBVIOUS

LEMMA LoweredIs ==
  ASSUME NEW d \in Display, NEW n \in Seq(Nat)
  PROVE  LET e == Lowered(d, n) IN
         /\ e \in Display /\ e.active = d.active
         /\ d.active # "S" => e = d
         /\ d.active = "S" =>
              /\ e.halt = TRUE /\ e.executing = d.executing /\ e.open = d.open
              /\ e.next = d.next /\ e.version = d.version
              /\ Len(e.results) = Len(d.results) /\ DOMAIN e.results = DOMAIN d.results
              /\ \A i \in DOMAIN d.results : LowerTab(d.results[i], e.results[i], n, i)
<1> DEFINE F(i) == [d.results[i] EXCEPT !.cap = Cap(d.results[i], n, i)]
           ts == [i \in DOMAIN d.results |-> F(i)]
           g == [d EXCEPT !.halt = TRUE, !.results = ts]
<1>1. CASE d.active # "S"
  BY <1>1 DEF Lowered
<1>2. CASE d.active = "S"
  <2>1. Lowered(d, n) = g
    BY <1>2 DEF Lowered
  <2>2. d.results \in Seq(Tab)
    BY DEF Display
  <2>3. ASSUME NEW i \in DOMAIN d.results PROVE LowerTab(d.results[i], F(i), n, i)
    <3>1. d.results[i] \in Tab
      BY <2>2
    <3>2. Cap(d.results[i], n, i) \in Nat \union {None}
      BY <3>1, CapType
    <3> HIDE DEF Cap
    <3> QED BY Zenon, <3>1, <3>2 DEF LowerTab, Tab
  <2> HIDE DEF F
  <2>4. /\ DOMAIN ts = DOMAIN d.results /\ DOMAIN d.results = 1 .. Len(d.results)
        /\ Len(d.results) \in Nat /\ \A i \in DOMAIN d.results : ts[i] = F(i) /\ F(i) \in Tab
    BY <2>2, <2>3 DEF LowerTab
  <2>5. ts \in Seq(Tab) /\ Len(ts) = Len(d.results)
    <3>1. ts \in [1 .. Len(d.results) -> Tab]
      BY Zenon, <2>4
    <3> HIDE DEF ts
    <3> QED BY Zenon, <2>4, <3>1, FunctionIsSeq
  <2>6. \A i \in DOMAIN d.results : LowerTab(d.results[i], ts[i], n, i)
    BY <2>3, <2>4
  <2> HIDE DEF ts
  <2>7. /\ g \in Display /\ g.active = "S" /\ g.halt = TRUE /\ g.executing = d.executing
        /\ g.open = d.open /\ g.next = d.next /\ g.version = d.version /\ g.results = ts
    BY Zenon, <1>2, <2>5 DEF Display
  <2> HIDE DEF g
  <2> QED BY <1>2, <2>1, <2>4, <2>5, <2>6, <2>7
<1> QED BY Zenon, <1>1, <1>2

LEMMA SameTab ==
  ASSUME NEW t \in Tab, NEW u \in Tab, t.id = u.id, t.count = u.count,
         t.cancelled = u.cancelled, t.cap = u.cap
  PROVE  t = u
BY DEF Tab

LEMMA LoweredLeads ==
  ASSUME NEW d \in Display, NEW m, NEW e \in Display, Leads(d, m, e), NEW n \in Seq(Nat)
  PROVE  Leads(Lowered(d, n), m, Lowered(e, n))
<1> DEFINE a == Lowered(d, n)
           b == Lowered(e, n)
<1>1. /\ a \in Display /\ b \in Display /\ a.active = d.active /\ b.active = e.active
      /\ d.active # "S" => a = d
      /\ e.active # "S" => b = e
      /\ d.active = "S" =>
           /\ a.halt = TRUE /\ a.executing = d.executing /\ a.open = d.open
           /\ a.next = d.next /\ a.version = d.version
           /\ Len(a.results) = Len(d.results) /\ DOMAIN a.results = DOMAIN d.results
           /\ \A i \in DOMAIN d.results : LowerTab(d.results[i], a.results[i], n, i)
      /\ e.active = "S" =>
           /\ b.halt = TRUE /\ b.executing = e.executing /\ b.open = e.open
           /\ b.next = e.next /\ b.version = e.version
           /\ Len(b.results) = Len(e.results) /\ DOMAIN b.results = DOMAIN e.results
           /\ \A i \in DOMAIN e.results : LowerTab(e.results[i], b.results[i], n, i)
  BY Zenon, LoweredIs
<1>2. ASSUME d.active = "S", e.active = "S", e.results = d.results
      PROVE  a.results = b.results
  BY <1>2 DEF Lowered, Display
<1>3. a.results \in Seq(Tab) /\ b.results \in Seq(Tab) /\ d.results \in Seq(Tab)
      /\ e.results \in Seq(Tab)
  BY <1>1 DEF Display
<1> HIDE DEF a, b
<1>4. m.type = "hydrate" => Replaces(a, m, b)
  <2>1. SUFFICES ASSUME m.type = "hydrate", m.source # "O" PROVE Replaces(a, m, b)
    BY <1>1 DEF Leads, Replaces
  <2>2. Replaces(d, m, e) /\ e.active = "S"
    BY <2>1 DEF Leads, Replaces
  <2>3. Lists(m.results, b.results)
    BY <1>1, <2>1, <2>2 DEF Replaces, Lists, LowerTab
  <2>4. Extendable(e) => Extendable(b)
    <3>1. Len(e.results) > 0 => Len(e.results) \in DOMAIN e.results
      BY <1>3
    <3> QED BY <1>1, <2>2, <3>1 DEF Extendable, LowerTab
  <2>5. SameRows(d, e) /\ d.active = "S" => SameRows(a, b)
    BY Zenon, <1>1, <1>2, <2>2 DEF SameRows
  <2>6. d.active = "S" /\ StaysOpen(d, e) => StaysOpen(a, b)
    BY Zenon, <1>1, <2>2 DEF StaysOpen
  <2> QED BY <1>1, <2>1, <2>2, <2>3, <2>4, <2>5, <2>6 DEF Replaces
<1>5. ASSUME m.type # "hydrate", d.active = "S"
      PROVE  /\ e.active = "S" /\ b.version = a.version
             /\ Notes(d, m, e) => Notes(a, m, b)
             /\ SameRows(d, e) => SameRows(a, b)
             /\ StaysOpen(d, e) => StaysOpen(a, b)
             /\ Halts(d, e) => Halts(a, b)
  <2>1. e.active = "S" /\ e.version = d.version
    BY <1>5 DEF Leads
  <2>2. Notes(d, m, e) => Notes(a, m, b)
    BY <1>1, <1>2, <1>5, <2>1 DEF Notes, StaysOpen
  <2>3. SameRows(d, e) => SameRows(a, b)
    BY Zenon, <1>1, <1>2, <1>5, <2>1 DEF SameRows
  <2>4. StaysOpen(d, e) => StaysOpen(a, b)
    BY Zenon, <1>1, <1>5, <2>1 DEF StaysOpen
  <2>5. Halts(d, e) => Halts(a, b)
    <3>1. SUFFICES ASSUME Halts(d, e) PROVE Halts(a, b)
      OBVIOUS
    <3>2. DOMAIN e.results = DOMAIN d.results
      BY <1>3, <3>1 DEF Halts
    <3>3. ASSUME NEW i \in DOMAIN d.results
          PROVE  /\ b.results[i].id = a.results[i].id /\ b.results[i].cap = a.results[i].cap
                 /\ b.results[i].cancelled /\ b.results[i].count <= a.results[i].count
      <4>1. LowerTab(d.results[i], a.results[i], n, i) /\ LowerTab(e.results[i], b.results[i], n, i)
        BY <1>1, <1>5, <2>1, <3>2
      <4> QED BY <3>1, <4>1 DEF Halts, LowerTab, Cap
    <3> QED BY <1>1, <1>5, <2>1, <3>1, <3>2, <3>3 DEF Halts
  <2> QED BY <1>1, <1>5, <2>1, <2>2, <2>3, <2>4, <2>5
<1>6. ASSUME d.active = "S", e.active = "S", Feeds(d, m, e) PROVE Feeds(a, m, b)
  <2> DEFINE k == Len(d.results)
  <2>1. k \in Nat /\ Len(a.results) = k /\ DOMAIN d.results = 1 .. k /\ Len(b.results) = Len(e.results)
        /\ DOMAIN a.results = 1 .. k
    BY <1>1, <1>3, <1>6
  <2>2. ASSUME NEW i \in DOMAIN d.results, i \in DOMAIN e.results, e.results[i] = d.results[i]
        PROVE  b.results[i] = a.results[i]
    <3>1. LowerTab(d.results[i], a.results[i], n, i) /\ LowerTab(e.results[i], b.results[i], n, i)
      BY <1>1, <1>6, <2>2
    <3>2. Cap(e.results[i], n, i) = Cap(d.results[i], n, i)
      BY <2>2
    <3> QED BY <2>2, <3>1, <3>2, SameTab DEF LowerTab
  <2>3. CASE m.first
    <3>1. Begins(d, m, e)
      BY <1>6, <2>3 DEF Feeds
    <3>2. Len(e.results) = k + 1 /\ DOMAIN e.results = 1 .. k + 1
      BY <1>3, <3>1 DEF Begins
    <3>3. ASSUME NEW i \in 1 .. k PROVE b.results[i] = a.results[i]
      <4>1. i \in DOMAIN d.results /\ i \in DOMAIN e.results
        BY <2>1, <3>2
      <4> QED BY <2>2, <3>1, <4>1 DEF Begins
    <3>4. LowerTab(e.results[k + 1], b.results[k + 1], n, k + 1)
      <4>1. \A i \in DOMAIN e.results : LowerTab(e.results[i], b.results[i], n, i)
        BY Zenon, <1>1, <1>6
      <4>2. k + 1 \in DOMAIN e.results
        BY <2>1, <3>2
      <4> QED BY Zenon, <4>1, <4>2
    <3>5. \A i \in DOMAIN a.results : a.results[i].id # m.id
      BY <1>1, <1>6, <3>1 DEF Begins, LowerTab
    <3>6. Len(b.results) = k + 1 /\ b.next = e.next /\ m.index = k + 1
      BY <1>1, <1>6, <2>1, <3>1, <3>2 DEF Begins
    <3>7. b.results[k + 1].id = m.id /\ b.results[k + 1].count = m.total
          /\ ~b.results[k + 1].cancelled
      BY <3>1, <3>4 DEF Begins, LowerTab
    <3>8. Begins(a, m, b)
      BY <2>1, <3>1, <3>3, <3>5, <3>6, <3>7 DEF Begins
    <3> QED BY Zenon, <1>1, <1>6, <2>3, <3>8 DEF Feeds
  <2>4. CASE ~m.first
    <3>1. Lengthens(d, m, e)
      BY <1>6, <2>4 DEF Feeds
    <3>2. Len(e.results) = k /\ DOMAIN e.results = 1 .. k
      BY <1>3, <3>1 DEF Lengthens
    <3>3. ASSUME NEW i \in 1 .. k, i # k PROVE b.results[i] = a.results[i]
      <4>1. i \in DOMAIN d.results /\ i \in DOMAIN e.results
        BY <2>1, <3>2, <3>3
      <4> QED BY <2>2, <3>1, <3>3, <4>1 DEF Lengthens
    <3>4. k \in DOMAIN d.results /\ k \in DOMAIN e.results
      BY <2>1, <3>1, <3>2 DEF Lengthens
    <3>5. LowerTab(d.results[k], a.results[k], n, k) /\ LowerTab(e.results[k], b.results[k], n, k)
      BY <1>1, <1>6, <3>4
    <3>6. Cap(e.results[k], n, k) = Cap(d.results[k], n, k)
      BY <3>1 DEF Lengthens, Cap
    <3>7. /\ b.results[k].id = a.results[k].id /\ b.results[k].cap = a.results[k].cap
          /\ b.results[k].cancelled = a.results[k].cancelled /\ b.results[k].count = m.total
          /\ m.id = a.results[k].id /\ m.from = a.results[k].count
      BY <3>1, <3>5, <3>6 DEF Lengthens, LowerTab
    <3>8. /\ a.open /\ k > 0 /\ m.index = k /\ m.seq = a.next /\ Len(b.results) = k
          /\ b.next = a.next + 1
      BY Zenon, <1>1, <1>6, <2>1, <3>1, <3>2 DEF Lengthens
    <3> HIDE DEF k
    <3>9. Lengthens(a, m, b)
      BY <2>1, <3>3, <3>7, <3>8 DEF Lengthens
    <3> QED BY Zenon, <1>1, <1>6, <2>4, <3>9 DEF Feeds
  <2> QED BY <2>3, <2>4
<1>7. Leads(a, m, b)
  <2>1. m.type # "hydrate" => b.active = a.active
    BY <1>1 DEF Leads
  <2>2. m.type # "hydrate" /\ d.active = "S" =>
          /\ b.version = a.version
          /\ m.type = "setActiveSource" => Notes(a, m, b)
          /\ m.type = "appendRows" => Feeds(a, m, b)
          /\ m.type = "streamingComplete" => SameRows(a, b) /\ ~b.open
          /\ m.type = "log" => SameRows(a, b) /\ StaysOpen(a, b)
          /\ m.type = "cancelExecution" => Halts(a, b)
    BY <1>1, <1>5, <1>6 DEF Leads
  <2>3. m.type # "hydrate" /\ d.active = "O" =>
          m.type = "cancelExecution" \/ (m.type = "setActiveSource" /\ m.source = "O")
    BY DEF Leads
  <2> QED BY <1>1, <1>4, <2>1, <2>2, <2>3 DEF Leads
<1> QED BY <1>7 DEF a, b

LEMMA ReachesLowered ==
  ASSUME NEW q \in Seq(ToView), NEW d, NEW e, Reaches(d, q, e), NEW n \in Seq(Nat)
  PROVE  Reaches(Lowered(d, n), q, Lowered(e, n))
<1>1. PICK s \in [1 .. Len(q) + 1 -> Display] :
        /\ s[1] = d /\ s[Len(q) + 1] = e
        /\ \A p \in 1 .. Len(q) : Leads(s[p], q[p], s[p + 1])
  BY Zenon DEF Reaches
<1> DEFINE k == Len(q)
           t == [p \in 1 .. k + 1 |-> Lowered(s[p], n)]
<1>2. /\ k \in Nat /\ s \in [1 .. k + 1 -> Display] /\ s[1] = d /\ s[k + 1] = e
      /\ \A p \in 1 .. k : Leads(s[p], q[p], s[p + 1])
  BY <1>1
<1> HIDE DEF k
<1>3. t \in [1 .. k + 1 -> Display] /\ \A p \in 1 .. k + 1 : t[p] = Lowered(s[p], n)
  BY Zenon, <1>2, LoweredIs
<1> HIDE DEF t
<1>4. ASSUME NEW p \in 1 .. k PROVE Leads(t[p], q[p], t[p + 1])
  <2>1. p \in 1 .. k + 1 /\ p + 1 \in 1 .. k + 1
    BY <1>2
  <2>2. s[p] \in Display /\ s[p + 1] \in Display /\ Leads(s[p], q[p], s[p + 1])
    BY <1>2, <2>1
  <2> QED BY <1>3, <2>1, <2>2, LoweredLeads
<1>5. 1 \in 1 .. k + 1 /\ k + 1 \in 1 .. k + 1
  BY <1>2
<1> QED BY Zenon, <1>2, <1>3, <1>4, <1>5 DEF Reaches, k

(* The page looks as its display says.  A result cancelled on the page     *)
(* shows at least the rows that the host keeps.                            *)
Young(v) ==
  /\ v.key = NoKey /\ ~v.log /\ v.cursor = NoCursor
  /\ \A s \in Sources : ~v.cache[s].log

DepictsTab(r, t) ==
  /\ r.id = t.id
  /\ ~r.cancelled => ~t.cancelled /\ Len(r.rows) = t.count
  /\ r.cancelled => Len(r.rows) >= t.count \/ (t.cap # None /\ Len(r.rows) >= t.cap)
  /\ ~t.cancelled => Len(r.rows) <= t.count

DepictsAll(rs, ts) ==
  DOMAIN rs = DOMAIN ts /\ \A i \in DOMAIN ts : DepictsTab(rs[i], ts[i])

(* The last result is ready for the chunk to come.                         *)
Expects(v, d) ==
  LET n == Len(d.results)
      r == v.results[n]
      t == d.results[n] IN
  /\ Extendable(d) /\ v.completed = FALSE
  /\ r.cancelled => t.cap # None /\ Len(r.rows) >= t.cap
  /\ ~r.cancelled => r.total = t.count /\ v.cursor \in {NoCursor, Cursor(t.id, d.next, t.count)}

Depicts(v, d) ==
  /\ d.active = NoSource => Young(v)
  /\ d.active # NoSource => v.key.source = d.active /\ v.active = d.active /\ v.log = TRUE
  /\ d.active = "S" =>
       /\ v.key.version <= d.version
       /\ v.executing = d.executing \/ (d.halt /\ v.executing = FALSE)
       /\ DepictsAll(v.results, d.results)
       /\ v.cursor.id = 0 \/ \E i \in DOMAIN d.results : d.results[i].id = v.cursor.id
       /\ d.open => Expects(v, d)

Resembles(v, w) ==
  /\ w.key = v.key /\ w.active = v.active /\ w.log = v.log /\ w.cursor = v.cursor
  /\ w.executing = v.executing /\ w.completed = v.completed
  /\ AllAlike(v.results, w.results)

LEMMA AlikeDepicted ==
  ASSUME NEW rs, NEW ss, NEW ts, AllAlike(rs, ss), DepictsAll(rs, ts)
  PROVE  DepictsAll(ss, ts)
BY DEF AllAlike, Alike, DepictsAll, DepictsTab

LEMMA LastIsThere ==
  ASSUME NEW d \in Display, Extendable(d)
  PROVE  Len(d.results) \in DOMAIN d.results
<1>1. d.results \in Seq(Tab)
  BY DEF Display
<1> QED BY <1>1 DEF Extendable

LEMMA AlikeExpects ==
  ASSUME NEW d \in Display, NEW v, NEW w, Expects(v, d), w.cursor = v.cursor,
         w.completed = v.completed, AllAlike(v.results, w.results), DepictsAll(v.results, d.results)
  PROVE  Expects(w, d)
<1>1. Len(d.results) \in DOMAIN v.results
  BY LastIsThere DEF Expects, DepictsAll
<1> QED BY <1>1 DEF Expects, AllAlike, Alike

LEMMA ResemblingDepicts ==
  ASSUME NEW d \in Display, NEW v, NEW w, Depicts(v, d), Resembles(v, w), d.active # NoSource
  PROVE  Depicts(w, d)
BY AlikeDepicted, AlikeExpects DEF Depicts, Resembles

LEMMA SameAlike ==
  ASSUME NEW rs
  PROVE  AllAlike(rs, rs)
BY DEF AllAlike, Alike

LEMMA RequestIs ==
  ASSUME NEW v \in ViewState
  PROVE  Resembles(v, Request(v)) /\ (Young(v) => Young(Request(v)))
<1> DEFINE out == Append(v.out, [type |-> "requestResultSync"])
           w == [v EXCEPT !.pending = TRUE, !.out = out]
<1>1. Request(v) \in {v, w}
  BY DEF Request
<1> HIDE DEF out
<1>2. /\ w.key = v.key /\ w.active = v.active /\ w.log = v.log /\ w.cursor = v.cursor
      /\ w.executing = v.executing /\ w.completed = v.completed /\ w.results = v.results
      /\ w.cache = v.cache
  BY DEF ViewState
<1> HIDE DEF w
<1>3. Resembles(v, v) /\ Resembles(v, w)
  BY <1>2, SameAlike DEF Resembles
<1>4. Young(v) => Young(w)
  BY <1>2 DEF Young
<1> QED BY <1>1, <1>3, <1>4

LEMMA PersistIs ==
  ASSUME NEW v \in ViewState
  PROVE  LET w == Persist(v) IN
         /\ w \in ViewState /\ Resembles(v, w) /\ w.results = v.results
         /\ ~v.log => w = v
         /\ v.log /\ v.active \in Sources =>
              w.cache[v.active] = [log |-> v.log, results |-> v.results]
<1> DEFINE content == [log |-> v.log, results |-> v.results]
           cache == [v.cache EXCEPT ![v.active] = content]
           g == [v EXCEPT !.cache = cache]
<1>1. Persist(v) \in ViewState
  BY PersistKeeps
<1>2. CASE v.active = NoSource \/ ~v.log
  <2>1. Persist(v) = v /\ NoSource \notin Sources
    BY <1>2 DEF Persist, NoSource, Sources
  <2> QED BY <1>1, <1>2, <2>1, SameAlike DEF Resembles
<1>3. CASE v.active # NoSource /\ v.log
  <2>1. Persist(v) = g
    BY <1>3 DEF Persist
  <2>2. v.active \in Sources => cache[v.active] = content
    BY DEF ViewState
  <2> HIDE DEF cache
  <2>3. /\ g.key = v.key /\ g.active = v.active /\ g.log = v.log /\ g.cursor = v.cursor
        /\ g.executing = v.executing /\ g.completed = v.completed /\ g.results = v.results
        /\ g.cache = cache
    BY DEF ViewState
  <2> HIDE DEF g
  <2> QED BY <1>1, <1>3, <2>1, <2>2, <2>3, SameAlike DEF Resembles
<1> QED BY <1>2, <1>3

(* The page stays young until a hydrate comes.                             *)
LEMMA JudgedIs ==
  ASSUME NEW v \in ViewState, NEW c \in Cursors
  PROVE  LET w == [v EXCEPT !.cursor = c] IN
         /\ w \in ViewState /\ w.cursor = c /\ w.key = v.key /\ w.active = v.active
         /\ w.log = v.log /\ w.executing = v.executing /\ w.completed = v.completed
         /\ w.results = v.results /\ w.cache = v.cache
BY Zenon DEF ViewState

LEMMA ShowSourceYoung ==
  ASSUME NEW v \in ViewState, NEW m \in Switches, Young(v)
  PROVE  Young(ShowSource(v, m))
<1> DEFINE fresh == [v EXCEPT !.cursor = NoCursor, !.pending = FALSE]
           switched == IF v.active = m.source THEN v ELSE fresh
           saved == Persist(switched)
           told == [saved EXCEPT !.active = m.source, !.executing = m.executing,
                                 !.completed = m.completed]
           cached == saved.cache[m.source]
           unmarked == [told EXCEPT !.results = Unmark(told.results)]
           restored == [told EXCEPT !.log = cached.log, !.results = cached.results]
<1>1. m.source \in Sources
  BY DEF Switches
<1>2. fresh \in ViewState /\ Young(fresh)
  BY Zenon, CursorTypes DEF Young, ViewState
<1>3. ShowSource(v, m) \in {unmarked, told, restored}
  BY DEF ShowSource
<1> HIDE DEF fresh
<1>4. switched \in ViewState /\ Young(switched)
  BY <1>2
<1> HIDE DEF switched
<1>5. saved \in ViewState /\ Young(saved)
  BY Zenon, <1>4, PersistIs DEF Young
<1> HIDE DEF saved
<1>6. /\ told.key = saved.key /\ told.log = saved.log /\ told.cursor = saved.cursor
      /\ told.cache = saved.cache /\ told \in ViewState
  BY Zenon, <1>1, <1>5 DEF ViewState, Switches
<1> HIDE DEF told
<1>7. /\ unmarked.key = told.key /\ unmarked.log = told.log /\ unmarked.cursor = told.cursor
      /\ unmarked.cache = told.cache
  BY <1>6 DEF ViewState
<1>8. ~cached.log
  BY <1>1, <1>5 DEF Young
<1> HIDE DEF cached, unmarked
<1>9. /\ restored.key = told.key /\ restored.log = cached.log
      /\ restored.cursor = told.cursor /\ restored.cache = told.cache
  BY <1>6 DEF ViewState
<1> HIDE DEF restored
<1> QED BY <1>3, <1>5, <1>6, <1>7, <1>8, <1>9 DEF Young

LEMMA CancelIs ==
  ASSUME NEW v \in ViewState
  PROVE  LET w == Cancel(v) IN
         /\ w.key = v.key /\ w.active = v.active /\ w.log = v.log /\ w.cache = v.cache
         /\ w.cursor = NoCursor /\ w.executing = FALSE /\ w.completed = FALSE
         /\ v.active = "S" =>
              /\ DOMAIN w.results = DOMAIN v.results
              /\ \A i \in DOMAIN v.results :
                   /\ w.results[i].id = v.results[i].id /\ w.results[i].rows = v.results[i].rows
                   /\ w.results[i].cancelled
<1> DEFINE stopped == [v EXCEPT !.executing = FALSE, !.completed = FALSE, !.cursor = NoCursor]
           C(i) == [v.results[i] EXCEPT !.cancelled = TRUE, !.complete = FALSE]
           results == [i \in DOMAIN v.results |-> C(i)]
           g == [stopped EXCEPT !.results = results]
<1>1. /\ stopped.key = v.key /\ stopped.active = v.active /\ stopped.log = v.log
      /\ stopped.cache = v.cache /\ stopped.cursor = NoCursor /\ stopped.executing = FALSE
      /\ stopped.completed = FALSE /\ stopped.results = v.results /\ stopped \in ViewState
  BY Zenon, CursorTypes DEF ViewState
<1>2. Cancel(v) = IF v.active # "S" THEN stopped ELSE g
  BY <1>1 DEF Cancel
<1> HIDE DEF stopped
<1>3. v.results \in Seq(ShownResults)
  BY DEF ViewState
<1>4. ASSUME NEW i \in DOMAIN v.results
      PROVE  C(i).id = v.results[i].id /\ C(i).rows = v.results[i].rows /\ C(i).cancelled
  <2>1. v.results[i] \in ShownResults
    BY <1>3
  <2> QED BY <2>1 DEF ShownResults
<1> HIDE DEF C
<1>5. DOMAIN results = DOMAIN v.results /\ \A i \in DOMAIN v.results : results[i] = C(i)
  OBVIOUS
<1> HIDE DEF results
<1>6. /\ g.key = stopped.key /\ g.active = stopped.active /\ g.log = stopped.log
      /\ g.cache = stopped.cache /\ g.cursor = stopped.cursor /\ g.executing = stopped.executing
      /\ g.completed = stopped.completed /\ g.results = results
  BY <1>1 DEF ViewState
<1> HIDE DEF g
<1> QED BY <1>1, <1>2, <1>4, <1>5, <1>6

(* Handling a message leads the page to the next display.                  *)
LEMMA ExpectsStill ==
  ASSUME NEW d \in Display, NEW e \in Display, NEW v, NEW w, Expects(v, d),
         e.results = d.results, e.next = d.next, w.cursor = v.cursor, w.completed = FALSE,
         AllAlike(v.results, w.results), DepictsAll(v.results, d.results)
  PROVE  Expects(w, e)
<1>1. Len(d.results) \in DOMAIN v.results
  BY LastIsThere DEF Expects, DepictsAll
<1> QED BY <1>1 DEF Expects, AllAlike, Alike, Extendable

(* The rows are those of before, and the stream is no more open.           *)
LEMMA StillDepicts ==
  ASSUME NEW d \in Display, NEW e \in Display, NEW v, NEW w, Depicts(v, d), d.active = "S",
         e.active = "S", d.version <= e.version, e.results = d.results, StaysOpen(d, e),
         w.key = v.key, w.active = v.active, w.log = v.log, AllAlike(v.results, w.results),
         w.cursor = v.cursor, e.open => w.completed = FALSE,
         w.executing = e.executing \/ (e.halt /\ w.executing = FALSE),
         v.key.version \in Nat
  PROVE  Depicts(w, e)
<1>1. DepictsAll(w.results, e.results)
  BY AlikeDepicted DEF Depicts
<1>2. e.open => Expects(w, e)
  BY Zenon, ExpectsStill DEF StaysOpen, Depicts
<1>3. v.key.version <= d.version /\ d.version \in Nat /\ e.version \in Nat
  BY DEF Depicts, Display
<1>4. v.key.version <= e.version
  BY <1>3
<1>5. "S" # NoSource
  BY DEF NoSource
<1> QED BY <1>1, <1>2, <1>4, <1>5 DEF Depicts

LEMMA KeyOfSource ==
  ASSUME NEW v \in ViewState, v.key.source \in Sources
  PROVE  v.key \in Keys /\ v.key.version \in Nat
BY DEF ViewState, NoKey, NoSource, Sources, Keys

LEMMA ShowSourceIs ==
  ASSUME NEW v \in ViewState, NEW m \in Switches, v.active = m.source, v.log = TRUE
  PROVE  LET w == ShowSource(v, m) IN
         /\ w.key = v.key /\ w.active = m.source /\ w.log = TRUE /\ w.cursor = v.cursor
         /\ w.executing = m.executing /\ w.completed = m.completed
         /\ AllAlike(v.results, w.results)
<1> DEFINE saved == Persist(v)
           told == [saved EXCEPT !.active = m.source, !.executing = m.executing,
                                 !.completed = m.completed]
           cached == saved.cache[m.source]
           unmarked == [told EXCEPT !.results = Unmark(told.results)]
           restored == [told EXCEPT !.log = cached.log, !.results = cached.results]
<1>1. m.source \in Sources
  BY DEF Switches
<1>2. ShowSource(v, m) \in {unmarked, told, restored}
  BY DEF ShowSource
<1>3. /\ saved \in ViewState /\ Resembles(v, saved) /\ saved.results = v.results
      /\ cached = [log |-> v.log, results |-> v.results]
  BY <1>1, PersistIs
<1>4. cached.log = TRUE /\ cached.results = v.results
  BY <1>3
<1> HIDE DEF cached, saved
<1>5. /\ told.key = v.key /\ told.log = TRUE /\ told.cursor = v.cursor /\ told.active = m.source
      /\ told.executing = m.executing /\ told.completed = m.completed
      /\ told.results = v.results /\ told \in ViewState
  BY Zenon, <1>1, <1>3 DEF ViewState, Switches, Resembles
<1> HIDE DEF told
<1> DEFINE rs == Unmark(told.results)
<1>6. AllAlike(v.results, rs)
  <2>1. told.results \in Seq(ShownResults)
    BY <1>5 DEF ViewState
  <2> QED BY <1>5, <2>1, UnmarkFades
<1> HIDE DEF rs
<1>7. /\ unmarked.key = told.key /\ unmarked.log = told.log /\ unmarked.cursor = told.cursor
      /\ unmarked.active = told.active /\ unmarked.executing = told.executing
      /\ unmarked.completed = told.completed /\ unmarked.results = rs
  BY <1>5 DEF ViewState, rs
<1> HIDE DEF unmarked
<1>8. /\ restored.key = told.key /\ restored.log = cached.log /\ restored.cursor = told.cursor
      /\ restored.active = told.active /\ restored.executing = told.executing
      /\ restored.completed = told.completed /\ restored.results = cached.results
  BY <1>5 DEF ViewState
<1> HIDE DEF restored
<1>9. AllAlike(v.results, v.results)
  BY SameAlike
<1> QED BY <1>2, <1>4, <1>5, <1>6, <1>7, <1>8, <1>9

LEMMA ShowSourceDepicts ==
  ASSUME NEW v \in ViewState, NEW m \in Switches, NEW d \in Display, NEW e \in Display,
         Depicts(v, d), Leads(d, m, e)
  PROVE  Depicts(ShowSource(v, m), e)
<1> DEFINE w == ShowSource(v, m)
<1>1. m.type = "setActiveSource" /\ m.executing \in BOOLEAN /\ m.completed \in BOOLEAN
      /\ e.active = d.active
  BY DEF Switches, Leads
<1>2. CASE d.active = NoSource
  <2>1. Young(w)
    BY <1>2, ShowSourceYoung DEF Depicts
  <2>2. e.active # "S" /\ e.active = NoSource
    BY <1>1, <1>2 DEF NoSource
  <2> QED BY <2>1, <2>2 DEF Depicts
<1>3. CASE d.active # NoSource
  <2>1. v.key.source = d.active /\ v.active = d.active /\ v.log = TRUE
    BY <1>3 DEF Depicts
  <2>2. d.active \in Sources
    BY <1>3 DEF Display
  <2>3. m.source = d.active
    BY <1>1, <2>2 DEF Leads, Notes, Sources
  <2>4. /\ w.key = v.key /\ w.active = m.source /\ w.log = TRUE /\ w.cursor = v.cursor
        /\ w.executing = m.executing /\ w.completed = m.completed
        /\ AllAlike(v.results, w.results)
    BY Zenon, <2>1, <2>3, ShowSourceIs
  <2> HIDE DEF w
  <2>5. CASE d.active = "S"
    <3>1. Notes(d, m, e) /\ e.version = d.version
      BY <1>1, <2>5 DEF Leads
    <3>2. d.version \in Nat /\ v.key.version \in Nat
      BY <2>1, <2>2, KeyOfSource DEF Display
    <3>3. d.version <= e.version
      BY <3>1, <3>2
    <3>4. e.open => w.completed = FALSE
      BY <1>1, <2>4, <3>1 DEF Notes
    <3>5. w.executing = e.executing
      BY <2>4, <3>1 DEF Notes
    <3>6. e.results = d.results /\ StaysOpen(d, e)
      BY <3>1 DEF Notes
    <3>7. w.active = v.active /\ w.log = v.log /\ e.active = "S"
      BY Zenon, <1>1, <2>1, <2>3, <2>4, <2>5
    <3> HIDE DEF w
    <3> QED BY Zenon, <2>4, <2>5, <3>2, <3>3, <3>4, <3>5, <3>6, <3>7, StillDepicts DEF w
  <2>6. CASE d.active = "O"
    <3>1. e.active # "S" /\ e.active # NoSource
      BY <1>1, <1>3, <2>6
    <3> QED BY <1>1, <2>1, <2>3, <2>4, <3>1 DEF Depicts, w
  <2> QED BY <2>2, <2>5, <2>6 DEF Sources, w
<1> QED BY <1>2, <1>3

LEMMA ShownIs ==
  ASSUME NEW r \in HostResults
  PROVE  /\ Shown(r).id = r.id /\ Shown(r).rows = r.rows /\ Shown(r).total = Len(r.rows)
         /\ Shown(r).cancelled = r.cancelled
BY DEF Shown

LEMMA ReplaceDepicts ==
  ASSUME NEW v \in ViewState, NEW m \in Hydrates, NEW d \in Display, NEW e \in Display,
         Depicts(v, d), Leads(d, m, e)
  PROVE  Depicts(Replace(v, m), e)
<1> DEFINE key == HydrateKey(m)
           results == [i \in DOMAIN m.results |-> Shown(m.results[i])]
           own == m.source = "S"
           w == Persist(v)
           g == [w EXCEPT !.key = key, !.active = m.source, !.log = TRUE,
                   !.results = results, !.cursor = IF own THEN NoCursor ELSE w.cursor,
                   !.pending = w.pending /\ ~own, !.executing = m.executing,
                   !.completed = m.completed]
<1>1. Replaces(d, m, e)
  BY DEF Leads, Hydrates
<1>2. m.source \in Sources /\ m.executing \in BOOLEAN /\ m.completed \in BOOLEAN
      /\ m.version \in Nat /\ m.results \in Seq(HostResults) /\ m.sync \in Nat
  BY DEF Hydrates
<1>3. key.source = m.source /\ key.version = m.version
  BY DEF HydrateKey
<1>4. CASE key = v.key
  <2>1. Replace(v, m) = v
    BY <1>4 DEF Replace
  <2>2. v.key.source = m.source /\ v.key.version = m.version /\ m.source # NoSource
    BY <1>2, <1>3, <1>4 DEF Sources, NoSource
  <2>3. d.active # NoSource
    BY <2>2 DEF Depicts, Young, NoKey
  <2>4. d.active = m.source /\ v.active = m.source /\ v.log = TRUE
    BY <2>2, <2>3 DEF Depicts
  <2>5. CASE m.source = "O"
    <3>1. e.active = "O" /\ e.active # NoSource /\ e.active # "S"
      BY <1>1, <2>5 DEF Replaces, NoSource
    <3> QED BY <2>1, <2>2, <2>4, <2>5, <3>1 DEF Depicts
  <2>6. CASE m.source = "S"
    <3>1. /\ e.active = "S" /\ e.version = m.version /\ d.version <= m.version
          /\ d.active = "S" /\ d.version \in Nat
      BY <1>1, <2>4, <2>6 DEF Replaces, Display
    <3>2. m.version <= d.version
      BY <2>2, <3>1 DEF Depicts
    <3>3. d.version = m.version
      BY <1>2, <3>1, <3>2
    <3>4. SameRows(d, e) /\ StaysOpen(d, e)
      BY <1>1, <2>6, <3>1, <3>3 DEF Replaces
    <3>5. d.open => v.completed = FALSE
      BY <3>1 DEF Depicts, Expects
    <3>6. e.open => v.completed = FALSE
      BY <3>4, <3>5 DEF StaysOpen
    <3>7. v.executing = e.executing \/ (e.halt /\ v.executing = FALSE)
      BY <3>1, <3>4 DEF Depicts, SameRows
    <3>8. AllAlike(v.results, v.results) /\ d.version <= e.version /\ v.key.version \in Nat
          /\ e.results = d.results
      BY <1>2, <2>2, <3>1, <3>3, <3>4, SameAlike DEF SameRows
    <3> QED BY Zenon, <2>1, <3>1, <3>4, <3>6, <3>7, <3>8, StillDepicts
  <2> QED BY <1>2, <2>5, <2>6 DEF Sources
<1>5. CASE key # v.key
  <2>1. Replace(v, m) = Persist(g)
    BY <1>5 DEF Replace
  <2>2. w \in ViewState /\ results \in Seq(ShownResults) /\ key \in Keys
    BY Zenon, <1>2, PersistKeeps, ShownType DEF HydrateKey, Keys
  <2>3. DOMAIN results = DOMAIN m.results
        /\ \A i \in DOMAIN m.results : results[i] = Shown(m.results[i])
    OBVIOUS
  <2> HIDE DEF key, w, results
  <2>4. /\ g.key = key /\ g.active = m.source /\ g.log = TRUE /\ g.results = results
        /\ g.executing = m.executing /\ g.completed = m.completed
        /\ own => g.cursor = NoCursor
        /\ g \in ViewState
    BY ZenonT(30), <1>2, <2>2, CursorTypes DEF ViewState
  <2> HIDE DEF g
  <2>5. g.key.source = m.source /\ g.key.version = m.version
    BY <1>3, <2>4
  <2>6. m.source = "O" => Depicts(g, e)
    <3>1. m.source = "O" => e.active = "O" /\ e.active # NoSource /\ e.active # "S"
      BY <1>1 DEF Replaces, NoSource
    <3> QED BY <2>4, <2>5, <3>1 DEF Depicts
  <2>7. ASSUME m.source = "S" PROVE Depicts(g, e)
    <3>1. /\ e.active = "S" /\ e.version = m.version /\ Lists(m.results, e.results)
          /\ e.executing = m.executing /\ (e.open => ~m.completed /\ Extendable(e))
      BY <1>1, <2>7 DEF Replaces
    <3>2. ASSUME NEW i \in DOMAIN e.results
          PROVE  /\ g.results[i].id = e.results[i].id /\ Len(g.results[i].rows) = e.results[i].count
                 /\ g.results[i].total = e.results[i].count /\ e.results[i].count \in Nat
                 /\ g.results[i].cancelled = e.results[i].cancelled
      <4>1. i \in DOMAIN m.results /\ m.results[i] \in HostResults /\ g.results[i] = Shown(m.results[i])
        BY <1>2, <2>3, <2>4, <3>1 DEF Lists
      <4>2. e.results[i].id = m.results[i].id /\ e.results[i].count = Len(m.results[i].rows)
            /\ e.results[i].cancelled = m.results[i].cancelled
        BY <3>1, <4>1 DEF Lists
      <4>3. m.results[i].rows \in Seq(Row)
        BY <4>1 DEF HostResults
      <4> QED BY <4>1, <4>2, <4>3, ShownIs
    <3>3. DepictsAll(g.results, e.results)
      <4>1. DOMAIN g.results = DOMAIN e.results
        BY <2>3, <2>4, <3>1 DEF Lists
      <4> QED BY <3>2, <4>1 DEF DepictsAll, DepictsTab
    <3>4. e.open => Expects(g, e)
      <4>1. SUFFICES ASSUME e.open PROVE Expects(g, e)
        OBVIOUS
      <4>2. Extendable(e) /\ m.completed = FALSE /\ Len(e.results) \in DOMAIN e.results
        BY <1>2, <3>1, <4>1, LastIsThere
      <4>3. g.results[Len(e.results)].total = e.results[Len(e.results)].count
            /\ ~g.results[Len(e.results)].cancelled
        BY <3>2, <4>2 DEF Extendable
      <4> QED BY <2>4, <2>7, <4>2, <4>3 DEF Expects
    <3>5. g.cursor.id = 0
      BY <2>4, <2>7 DEF NoCursor
    <3>6. g.key.version <= e.version
      BY <1>2, <2>5, <3>1
    <3>7. e.active # NoSource
      BY <3>1 DEF NoSource
    <3> QED BY <2>4, <2>5, <2>7, <3>1, <3>3, <3>4, <3>5, <3>6, <3>7 DEF Depicts
  <2>8. Depicts(g, e)
    BY <1>2, <2>6, <2>7 DEF Sources
  <2>9. e.active # NoSource
    BY <1>1 DEF Replaces, NoSource
  <2>10. Resembles(g, Persist(g))
    BY Zenon, <2>4, PersistIs
  <2> QED BY <2>1, <2>8, <2>9, <2>10, ResemblingDepicts
<1> QED BY <1>4, <1>5

(* Cancelling, because the host says so or the user.                       *)
LEMMA CancelDepicts ==
  ASSUME NEW v \in ViewState, NEW d \in Display, NEW e \in Display, NEW m,
         m.type = "cancelExecution", Depicts(v, d), Leads(d, m, e)
  PROVE  Depicts(Cancel(v), e)
<1> DEFINE w == Cancel(v)
<1>1. e.active = d.active
  BY DEF Leads
<1>2. /\ w.key = v.key /\ w.active = v.active /\ w.log = v.log /\ w.cache = v.cache
      /\ w.cursor = NoCursor /\ w.executing = FALSE /\ w.completed = FALSE
      /\ v.active = "S" =>
           /\ DOMAIN w.results = DOMAIN v.results
           /\ \A i \in DOMAIN v.results :
                /\ w.results[i].id = v.results[i].id /\ w.results[i].rows = v.results[i].rows
                /\ w.results[i].cancelled
  BY Zenon, CancelIs
<1> HIDE DEF w
<1>3. d.active # "S" => Depicts(w, e)
  BY <1>1, <1>2 DEF Depicts, Young
<1>4. CASE d.active = "S"
  <2>1. Halts(d, e) /\ e.version = d.version
    BY <1>4 DEF Leads
  <2>2. v.active = "S" /\ v.key.source = "S" /\ v.log = TRUE /\ v.key.version <= d.version
        /\ DepictsAll(v.results, d.results)
    BY <1>4 DEF Depicts, NoSource
  <2>3. e.executing = FALSE /\ e.open = FALSE /\ DOMAIN e.results = DOMAIN d.results
    BY <2>1 DEF Halts, Display
  <2>4. ASSUME NEW i \in DOMAIN e.results PROVE DepictsTab(w.results[i], e.results[i])
    <3>1. DepictsTab(v.results[i], d.results[i]) /\ i \in DOMAIN v.results /\ i \in DOMAIN d.results
      BY <2>2, <2>3 DEF DepictsAll
    <3>2. w.results[i].id = v.results[i].id /\ w.results[i].rows = v.results[i].rows
          /\ w.results[i].cancelled
      BY <1>2, <2>2, <3>1
    <3>3. /\ e.results[i].id = d.results[i].id /\ e.results[i].cap = d.results[i].cap
          /\ e.results[i].cancelled /\ e.results[i].count <= d.results[i].count
      BY <2>1, <3>1 DEF Halts
    <3>4. d.results[i] \in Tab /\ e.results[i] \in Tab /\ v.results[i] \in ShownResults
      BY <2>3, <3>1 DEF Display, ViewState
    <3>5. Len(v.results[i].rows) \in Nat /\ d.results[i].count \in Nat /\ e.results[i].count \in Nat
      BY <3>4 DEF Tab, ShownResults
    <3> QED BY <3>1, <3>2, <3>3, <3>5 DEF DepictsTab
  <2>5. DepictsAll(w.results, e.results)
    BY <1>2, <2>2, <2>3, <2>4 DEF DepictsAll
  <2>6. w.cursor.id = 0 /\ e.active # NoSource /\ e.active = "S"
    BY <1>1, <1>2, <1>4 DEF NoCursor, NoSource
  <2> QED BY Zenon, <1>2, <2>1, <2>2, <2>3, <2>5, <2>6 DEF Depicts, w
<1> QED BY <1>3, <1>4 DEF w

Counts(v) == IF v.completed THEN << >>
             ELSE [i \in DOMAIN v.results |-> Len(v.results[i].rows)]

LEMMA ClickDepicts ==
  ASSUME NEW v \in ViewState, NEW d \in Display, Depicts(v, d), v.active = "S"
  PROVE  Counts(v) \in Seq(Nat) /\ Depicts(Cancel(v), Lowered(d, Counts(v)))
<1> DEFINE w == Cancel(v)
           n == Counts(v)
           e == Lowered(d, n)
<1>1. /\ w.key = v.key /\ w.active = v.active /\ w.log = v.log /\ w.cache = v.cache
      /\ w.cursor = NoCursor /\ w.executing = FALSE /\ w.completed = FALSE
      /\ DOMAIN w.results = DOMAIN v.results
      /\ \A i \in DOMAIN v.results :
           /\ w.results[i].id = v.results[i].id /\ w.results[i].rows = v.results[i].rows
           /\ w.results[i].cancelled
  BY Zenon, CancelIs
<1>2. v.results \in Seq(ShownResults)
      /\ \A i \in DOMAIN v.results : Len(v.results[i].rows) \in Nat
  BY DEF ViewState, ShownResults
<1>3. n \in Seq(Nat)
  <2>1. [i \in DOMAIN v.results |-> Len(v.results[i].rows)] \in Seq(Nat)
    <3>1. DOMAIN v.results = 1 .. Len(v.results) /\ Len(v.results) \in Nat
      BY <1>2
    <3>2. [i \in DOMAIN v.results |-> Len(v.results[i].rows)] \in [1 .. Len(v.results) -> Nat]
      BY <1>2, <3>1
    <3> QED BY <3>1, <3>2, FunctionIsSeq
  <2> QED BY <2>1 DEF Counts
<1>4. ~v.completed => \A i \in DOMAIN v.results : i \in DOMAIN n /\ n[i] = Len(v.results[i].rows)
  BY DEF Counts
<1>5. v.completed => DOMAIN n = {}
  BY DEF Counts
<1> HIDE DEF n, w
<1>6. CASE d.active # "S"
  <2>1. d.active = NoSource /\ e = d
    BY <1>6 DEF Depicts, Display, Sources, NoSource, Lowered
  <2>2. Young(v) /\ Young(w)
    BY <1>1, <2>1 DEF Depicts, Young
  <2> QED BY <1>3, <1>6, <2>1, <2>2 DEF Depicts, w, n
<1>7. CASE d.active = "S"
  <2>1. /\ e \in Display /\ e.active = "S" /\ e.halt = TRUE /\ e.executing = d.executing
        /\ e.open = d.open /\ e.next = d.next /\ e.version = d.version
        /\ Len(e.results) = Len(d.results) /\ DOMAIN e.results = DOMAIN d.results
        /\ \A i \in DOMAIN d.results : LowerTab(d.results[i], e.results[i], n, i)
    BY Zenon, <1>3, <1>7, LoweredIs
  <2> HIDE DEF e
  <2>2. v.key.source = "S" /\ v.log = TRUE /\ v.key.version <= d.version
        /\ DepictsAll(v.results, d.results)
    BY <1>7 DEF Depicts, NoSource
  <2>3. ASSUME NEW i \in DOMAIN d.results
        PROVE  /\ DepictsTab(v.results[i], d.results[i]) /\ i \in DOMAIN v.results
               /\ w.results[i].id = v.results[i].id /\ w.results[i].rows = v.results[i].rows
               /\ w.results[i].cancelled
               /\ e.results[i].id = d.results[i].id /\ e.results[i].count = d.results[i].count
               /\ e.results[i].cancelled = d.results[i].cancelled
               /\ e.results[i].cap = Cap(d.results[i], n, i)
               /\ Len(v.results[i].rows) \in Nat /\ d.results[i].count \in Nat
               /\ d.results[i].cap \in Nat \union {None}
    <3>1. DepictsTab(v.results[i], d.results[i]) /\ i \in DOMAIN v.results
      BY <2>2 DEF DepictsAll
    <3>2. d.results \in Seq(Tab)
      BY DEF Display
    <3>3. d.results[i] \in Tab
      BY <3>2
    <3>4. LowerTab(d.results[i], e.results[i], n, i)
      BY <2>1
    <3> QED BY <1>1, <1>2, <3>1, <3>3, <3>4 DEF LowerTab, Tab
  <2>4. ASSUME NEW i \in DOMAIN d.results
        PROVE  /\ ~v.completed => /\ e.results[i].cap # None
                                  /\ Len(v.results[i].rows) >= e.results[i].cap
               /\ v.completed => e.results[i].cap = d.results[i].cap
    BY <1>4, <1>5, <2>3 DEF Cap, None
  <2>5. ASSUME NEW i \in DOMAIN e.results PROVE DepictsTab(w.results[i], e.results[i])
    <3>1. i \in DOMAIN d.results
      BY <2>1
    <3> QED BY <2>3, <2>4, <3>1 DEF DepictsTab
  <2>6. DepictsAll(w.results, e.results)
    BY <1>1, <2>1, <2>2, <2>5 DEF DepictsAll
  <2>7. e.open => Expects(w, e)
    <3>1. SUFFICES ASSUME d.open PROVE Expects(w, e)
      BY <2>1
    <3>2. Extendable(d) /\ v.completed = FALSE
      BY <1>7, <3>1 DEF Depicts, Expects
    <3>3. Len(d.results) \in DOMAIN d.results
      BY <3>2, LastIsThere
    <3>4. Extendable(e)
      BY <2>1, <2>3, <3>2, <3>3 DEF Extendable
    <3> QED BY <1>1, <2>1, <2>3, <2>4, <3>2, <3>3, <3>4 DEF Expects
  <2>8. w.cursor.id = 0 /\ e.active # NoSource
    BY <1>1, <2>1 DEF NoCursor, NoSource
  <2>9. Depicts(w, e)
    BY <1>1, <2>1, <2>2, <2>6, <2>7, <2>8 DEF Depicts
  <2> QED BY <1>3, <2>9 DEF e, w, n
<1> QED BY <1>6, <1>7

(* A chunk the host has sent to this page continues what the page shows.   *)
LEMMA CursorNamed ==
  ASSUME NEW c \in Cursors, NEW m \in Appends, NEW base
  PROVE  Evaluate(c, m, base).cursor.id \in {c.id, m.id}
<1>1. ASSUME NEW x, x.id \in {c.id, m.id} PROVE Judge(x, m).cursor.id \in {c.id, m.id}
  <2>1. [x EXCEPT !.next = x.next + 1, !.row = m.total].id \in {c.id, m.id}
    BY <1>1
  <2>2. Desync(x, m.id).cursor.id = m.id
    BY DEF Desync
  <2> QED BY <1>1, <2>1, <2>2 DEF Judge, Stale, Duplicate, Apply
<1>2. Baseline(c, m, base).id \in {c.id, m.id}
  BY DEF Baseline, Cursor
<1>3. Judge(Baseline(c, m, base), m).cursor.id \in {c.id, m.id}
  BY <1>1, <1>2
<1>4. Desync(c, m.id).cursor.id = m.id /\ Duplicate(c).cursor.id = c.id
  BY DEF Desync, Duplicate
<1> QED BY <1>3, <1>4 DEF Evaluate

LEMMA ContinuesIsApplied ==
  ASSUME NEW id \in Nat, NEW next \in Nat, NEW row \in Nat, NEW m \in Appends,
         m.id = id, m.seq = next, m.from = row, row <= m.total
  PROVE  /\ Judge(Cursor(id, next, row), m) = Apply(Cursor(id, next + 1, m.total))
         /\ Cursor(id, next, row) # NoCursor
<1> DEFINE c == Cursor(id, next, row)
<1>1. c.id = id /\ c.next = next /\ c.row = row /\ c.lost = FALSE /\ c.terminal = FALSE
  BY DEF Cursor
<1>2. ~Foreign(c, m.id)
  BY <1>1 DEF Foreign
<1>3. ~Repeats(c, m)
  BY <1>1 DEF Repeats
<1>4. Continues(c, m)
  BY <1>1 DEF Continues
<1>5. [c EXCEPT !.next = c.next + 1, !.row = m.total] = Cursor(id, next + 1, m.total)
  <2> DEFINE later == c.next + 1
             x == [c EXCEPT !.next = later, !.row = m.total]
             y == Cursor(id, next + 1, m.total)
  <2>1. later \in Nat /\ later = next + 1 /\ m.total \in Nat
    BY <1>1 DEF Appends
  <2> HIDE DEF later
  <2>2. x \in Cursors /\ y \in Cursors
    BY Zenon, <2>1 DEF Cursor, Cursors
  <2>3. x.id = y.id /\ x.next = y.next /\ x.row = y.row /\ x.lost = y.lost /\ x.terminal = y.terminal
    BY <2>1 DEF Cursor
  <2> HIDE DEF x, y
  <2>4. x = y
    BY <2>2, <2>3 DEF Cursors
  <2> QED BY <2>4 DEF x, y, later
<1>6. c # NoCursor
  BY <1>1 DEF NoCursor
<1>7. Judge(c, m) = Apply([c EXCEPT !.next = c.next + 1, !.row = m.total])
  BY <1>2, <1>3, <1>4 DEF Judge
<1> HIDE DEF c
<1> QED BY <1>5, <1>6, <1>7 DEF c

LEMMA FirstIsApplied ==
  ASSUME NEW c \in Cursors, NEW m \in Appends, NEW base, m.first, m.seq = 0, m.from = 0,
         c.id # m.id
  PROVE  Evaluate(c, m, base) = Apply(Cursor(m.id, 1, m.total))
<1>1. m.id \in Nat /\ m.total \in Nat
  BY DEF Appends
<1>2. Baseline(c, m, base) = Cursor(m.id, 0, 0)
  BY DEF Baseline
<1>3. /\ Judge(Cursor(m.id, 0, 0), m) = Apply(Cursor(m.id, 0 + 1, m.total))
      /\ Cursor(m.id, 0, 0) # NoCursor
  BY <1>1, ContinuesIsApplied
<1>4. 0 + 1 = 1
  OBVIOUS
<1> QED BY <1>2, <1>3, <1>4 DEF Evaluate

LEMMA NextIsApplied ==
  ASSUME NEW c \in Cursors, NEW m \in Appends, ~m.first, m.from <= m.total,
         c \in {NoCursor, Cursor(m.id, m.seq, m.from)}
  PROVE  Evaluate(c, m, << m.id, m.from >>) = Apply(Cursor(m.id, m.seq + 1, m.total))
<1> DEFINE base == << m.id, m.from >>
<1>1. m.id \in Nat /\ m.total \in Nat /\ m.seq \in Nat /\ m.from \in Nat
  BY DEF Appends
<1>2. Baseline(c, m, base) = Cursor(m.id, m.seq, m.from)
  BY DEF Baseline
<1>3. /\ Judge(Cursor(m.id, m.seq, m.from), m) = Apply(Cursor(m.id, m.seq + 1, m.total))
      /\ Cursor(m.id, m.seq, m.from) # NoCursor
  BY <1>1, ContinuesIsApplied
<1> HIDE DEF base
<1>4. Evaluate(c, m, base) = Judge(Baseline(c, m, base), m)
  BY <1>2, <1>3 DEF Evaluate
<1> QED BY <1>2, <1>3, <1>4 DEF base

(* The page v, whose cursor is judged, and one with a longer result.       *)
LEMMA JudgedAppend ==
  ASSUME NEW v \in ViewState, NEW m \in Appends, v.active = "S", v.log = TRUE
  PROVE  LET D == Evaluate(v.cursor, m, Base(v, m.index))
             w == [v EXCEPT !.cursor = D.cursor] IN
         /\ w \in ViewState /\ w.cursor = D.cursor /\ w.key = v.key /\ w.active = v.active
         /\ w.log = v.log /\ w.executing = v.executing /\ w.completed = v.completed
         /\ w.results = v.results
         /\ D.kind = "apply" => AppendRows(v, m) = AddRows(w, m)
         /\ AppendRows(v, m) \in {Request(w), AddRows(w, m), w}
<1> DEFINE D == Evaluate(v.cursor, m, Base(v, m.index))
           w == [v EXCEPT !.cursor = D.cursor]
<1>1. D.cursor \in Cursors
  BY EvaluateType DEF ViewState
<1>2. ~Elsewhere(v)
  BY DEF Elsewhere
<1>3. AppendRows(v, m) = IF D.kind = "desync" THEN Request(w)
                         ELSE IF D.kind = "apply" THEN AddRows(w, m) ELSE w
  BY <1>2 DEF AppendRows
<1> HIDE DEF D
<1>4. /\ w \in ViewState /\ w.cursor = D.cursor /\ w.key = v.key /\ w.active = v.active
      /\ w.log = v.log /\ w.executing = v.executing /\ w.completed = v.completed
      /\ w.results = v.results
  BY <1>1, JudgedIs
<1> HIDE DEF w
<1>5. D.kind = "apply" => AppendRows(v, m) = AddRows(w, m)
  BY <1>3
<1>6. AppendRows(v, m) \in {Request(w), AddRows(w, m), w}
  BY <1>3
<1> QED BY <1>4, <1>5, <1>6 DEF w, D

LEMMA FirstChunkDepicts ==
  ASSUME NEW v \in ViewState, NEW m \in Appends, NEW d \in Display, NEW e \in Display,
         Depicts(v, d), d.active = "S", e.active = "S", e.version = d.version, m.first,
         Feeds(d, m, e)
  PROVE  Depicts(AppendRows(v, m), e)
<1> DEFINE n == Len(d.results)
           D == Evaluate(v.cursor, m, Base(v, m.index))
           x == [v EXCEPT !.cursor = D.cursor]
           w == Prepared(x, m)
           c == Cursor(m.id, 1, m.total)
<1>1. /\ Begins(d, m, e) /\ e.executing = d.executing /\ e.halt = d.halt
      /\ m.total = m.from + Len(m.rows)
  BY DEF Feeds
<1>2. /\ v.key.source = "S" /\ v.active = "S" /\ v.log = TRUE /\ v.key.version <= d.version
      /\ v.executing = d.executing \/ (d.halt /\ v.executing = FALSE)
      /\ DepictsAll(v.results, d.results)
      /\ v.cursor.id = 0 \/ \E i \in DOMAIN d.results : d.results[i].id = v.cursor.id
  BY DEF Depicts, NoSource
<1>3. m.id \in Nat /\ m.total \in Nat /\ m.rows \in Seq(Row) /\ v.cursor \in Cursors
      /\ m.index \in Nat
  BY DEF Appends, ViewState
<1>4. n \in Nat /\ DOMAIN d.results = 1 .. n /\ e.results \in Seq(Tab) /\ d.results \in Seq(Tab)
  BY DEF Display
<1>5. Len(e.results) = n + 1 /\ DOMAIN e.results = 1 .. n + 1 /\ m.seq = 0 /\ m.from = 0
      /\ m.index = n + 1
  BY <1>1, <1>4 DEF Begins
<1>6. v.cursor.id # m.id
  BY <1>1, <1>2 DEF Begins
<1>7. D.kind = "apply" /\ D.cursor = c
  BY <1>3, <1>5, <1>6, FirstIsApplied DEF Apply
<1>8. /\ x \in ViewState /\ x.cursor = c /\ x.key = v.key /\ x.active = v.active
      /\ x.log = v.log /\ x.executing = v.executing /\ x.completed = v.completed
      /\ x.results = v.results /\ AppendRows(v, m) = AddRows(x, m)
  BY Zenon, <1>2, <1>7, JudgedAppend
<1> HIDE DEF x, D
<1>9. x.results \in Seq(ShownResults) /\ Len(x.results) = n /\ DOMAIN x.results = 1 .. n
  BY <1>2, <1>4, <1>8 DEF DepictsAll, ViewState
<1>10. m.index > Len(x.results)
  BY <1>4, <1>5, <1>9
<1>11. w = PlaceShell(x, m) /\ Place(x, m) = Len(w.results)
  BY <1>10 DEF Prepared, Place
<1>12. /\ SameButResults(x, w) /\ w.completed = FALSE
       /\ \A j \in DOMAIN x.results : Alike(x.results[j], w.results[j])
       /\ Len(w.results) = n + 1 /\ w.results[n + 1] = Shell(m.id)
  BY Zenon, <1>8, <1>9, <1>10, <1>11, PlaceShellIs
<1> HIDE DEF w
<1>13. w \in ViewState /\ w.results \in Seq(ShownResults) /\ DOMAIN w.results = 1 .. n + 1
  BY <1>4, <1>12 DEF SameButResults, ViewState
<1>14. n + 1 \in DOMAIN w.results /\ ~w.results[n + 1].cancelled
  BY <1>4, <1>12, <1>13 DEF Shell
<1>15. PICK u : /\ AddRows(x, m) = Persist(u) /\ SameButResults(w, u) /\ u.completed = w.completed
                /\ DOMAIN u.results = DOMAIN w.results /\ Grown(w.results[n + 1], u.results[n + 1], m)
                /\ \A j \in DOMAIN w.results : j # n + 1 => u.results[j] = w.results[j]
  BY <1>8, <1>11, <1>12, <1>13, <1>14, AddRowsIs DEF w
<1>16. /\ u.results[n + 1].id = m.id /\ u.results[n + 1].cancelled = FALSE
       /\ u.results[n + 1].total = m.total /\ Len(u.results[n + 1].rows) = m.total
  <2>1. << >> \o m.rows = m.rows /\ Len(m.rows) = m.total
    BY <1>1, <1>3, <1>5
  <2> QED BY <1>12, <1>15, <2>1 DEF Grown, Shell
<1>17. /\ e.results[n + 1].id = m.id /\ e.results[n + 1].count = m.total
       /\ e.results[n + 1].cancelled = FALSE /\ e.next = 1
  BY <1>1, <1>4, <1>5 DEF Begins, Tab
<1>18. DepictsAll(u.results, e.results)
  <2>1. ASSUME NEW i \in DOMAIN e.results PROVE DepictsTab(u.results[i], e.results[i])
    <3>1. CASE i = n + 1
      BY <1>3, <1>16, <1>17, <3>1 DEF DepictsTab
    <3>2. CASE i # n + 1
      <4>1. i \in 1 .. n /\ i \in DOMAIN x.results /\ i \in DOMAIN w.results
        BY <1>4, <1>5, <1>9, <1>13, <3>2
      <4>2. u.results[i] = w.results[i] /\ Alike(x.results[i], w.results[i])
            /\ e.results[i] = d.results[i]
        BY <1>1, <1>12, <1>15, <3>2, <4>1 DEF Begins
      <4>3. DepictsTab(x.results[i], d.results[i])
        BY <1>2, <1>4, <1>8, <4>1 DEF DepictsAll
      <4> QED BY <4>2, <4>3 DEF DepictsTab, Alike
    <3> QED BY <3>1, <3>2
  <2> QED BY <1>5, <1>13, <1>15, <2>1 DEF DepictsAll
<1>19. /\ u.key = v.key /\ u.active = "S" /\ u.log = TRUE /\ u.cursor = c /\ u \in ViewState
       /\ u.executing = v.executing /\ u.completed = FALSE
  BY <1>2, <1>8, <1>12, <1>15 DEF SameButResults
<1>20. \E i \in DOMAIN e.results : e.results[i].id = u.cursor.id
  <2>1. u.cursor.id = m.id /\ n + 1 \in DOMAIN e.results
    BY <1>4, <1>5, <1>19 DEF Cursor
  <2> QED BY <1>17, <2>1
<1>21. Expects(u, e)
  BY <1>4, <1>5, <1>16, <1>17, <1>19 DEF Expects, Extendable
<1>22. Depicts(u, e)
  BY <1>1, <1>2, <1>18, <1>19, <1>20, <1>21 DEF Depicts, NoSource
<1>23. Resembles(u, Persist(u)) /\ e.active # NoSource
  BY Zenon, <1>19, PersistIs DEF NoSource
<1> QED BY <1>8, <1>15, <1>22, <1>23, ResemblingDepicts

LEMMA NextChunkDepicts ==
  ASSUME NEW v \in ViewState, NEW m \in Appends, NEW d \in Display, NEW e \in Display,
         Depicts(v, d), d.active = "S", e.active = "S", e.version = d.version, ~m.first,
         Feeds(d, m, e)
  PROVE  Depicts(AppendRows(v, m), e)
<1> DEFINE n == Len(d.results)
           D == Evaluate(v.cursor, m, Base(v, m.index))
           x == [v EXCEPT !.cursor = D.cursor]
           c == Cursor(m.id, m.seq + 1, m.total)
<1>1. /\ Lengthens(d, m, e) /\ e.executing = d.executing /\ e.halt = d.halt
      /\ m.total = m.from + Len(m.rows)
  BY DEF Feeds
<1>2. /\ v.key.source = "S" /\ v.active = "S" /\ v.log = TRUE /\ v.key.version <= d.version
      /\ v.executing = d.executing \/ (d.halt /\ v.executing = FALSE)
      /\ DepictsAll(v.results, d.results)
      /\ v.cursor.id = 0 \/ \E i \in DOMAIN d.results : d.results[i].id = v.cursor.id
      /\ d.open => Expects(v, d)
  BY DEF Depicts, NoSource
<1>3. m.id \in Nat /\ m.total \in Nat /\ m.rows \in Seq(Row) /\ v.cursor \in Cursors
      /\ m.from \in Nat /\ m.seq \in Nat /\ Len(m.rows) \in Nat
  BY DEF Appends, ViewState
<1>4. n \in Nat /\ DOMAIN d.results = 1 .. n /\ e.results \in Seq(Tab) /\ d.results \in Seq(Tab)
  BY DEF Display
<1>5. /\ n > 0 /\ m.index = n /\ m.id = d.results[n].id /\ m.seq = d.next
      /\ m.from = d.results[n].count /\ Len(e.results) = n /\ DOMAIN e.results = 1 .. n
      /\ n \in DOMAIN d.results /\ m.from <= m.total
  BY <1>1, <1>3, <1>4 DEF Lengthens
<1>6. /\ e.results[n].id = m.id /\ e.results[n].cap = d.results[n].cap
      /\ e.results[n].cancelled = d.results[n].cancelled /\ e.results[n].count = m.total
      /\ e.next = m.seq + 1
  BY <1>1, <1>5 DEF Lengthens
<1>7. Expects(v, d) /\ Extendable(d) /\ v.completed = FALSE /\ ~d.results[n].cancelled
  BY <1>1, <1>2 DEF Lengthens, Expects, Extendable
<1>8. Extendable(e)
  BY <1>5, <1>6, <1>7 DEF Extendable
<1>9. DepictsTab(v.results[n], d.results[n]) /\ n \in DOMAIN v.results
  BY <1>2, <1>5 DEF DepictsAll
<1>10. v.results \in Seq(ShownResults) /\ v.results[n] \in ShownResults
  BY <1>9 DEF ViewState
<1>11. v.results[n].rows \in Seq(Row) /\ Len(v.results[n].rows) \in Nat
  BY <1>10 DEF ShownResults
<1>12. /\ x \in ViewState /\ x.cursor = D.cursor /\ x.key = v.key /\ x.active = v.active
       /\ x.log = v.log /\ x.executing = v.executing /\ x.completed = v.completed
       /\ x.results = v.results /\ (D.kind = "apply" => AppendRows(v, m) = AddRows(x, m))
       /\ AppendRows(v, m) \in {Request(x), AddRows(x, m), x}
  BY Zenon, <1>2, JudgedAppend
<1>13. Prepared(x, m) = x /\ Place(x, m) = n
  BY <1>5 DEF Prepared, Place
<1>14. D.cursor.id \in {v.cursor.id, m.id}
  BY <1>3, CursorNamed
<1>15. ASSUME NEW i \in DOMAIN e.results, i # n
       PROVE  DepictsTab(v.results[i], e.results[i]) /\ e.results[i] = d.results[i]
  BY <1>1, <1>2, <1>4, <1>5, <1>15 DEF DepictsAll, Lengthens
<1>16. e.active # NoSource /\ e.active # "O"
  BY DEF NoSource
<1>17. Base(v, n) = << v.results[n].id, v.results[n].total >> /\ v.results[n].id = m.id
  BY <1>5, <1>9 DEF Base, DepictsTab
<1>18. CASE v.results[n].cancelled
  <2> HIDE DEF x, D
  <2>1. AppendRows(v, m) \in {Request(x), x}
    <3>1. AddRows(x, m) = x
      BY <1>9, <1>12, <1>13, <1>18, AddRowsIs
    <3> QED BY <1>12, <3>1
  <2>2. d.results[n].cap # None /\ Len(v.results[n].rows) >= d.results[n].cap
    BY <1>7, <1>18 DEF Expects
  <2>3. DepictsTab(v.results[n], e.results[n])
    <3>1. Len(v.results[n].rows) <= m.from
      BY <1>5, <1>7, <1>9 DEF DepictsTab
    <3>2. Len(v.results[n].rows) <= m.total
      BY <1>3, <1>5, <1>11, <3>1
    <3> QED BY <1>6, <1>17, <1>18, <2>2, <3>2 DEF DepictsTab
  <2>4. DepictsAll(x.results, e.results)
    BY <1>2, <1>4, <1>5, <1>12, <1>15, <2>3 DEF DepictsAll
  <2>5. x.cursor.id = 0 \/ \E i \in DOMAIN e.results : e.results[i].id = x.cursor.id
    <3>1. CASE x.cursor.id = m.id
      BY <1>4, <1>5, <1>6, <3>1
    <3>2. CASE x.cursor.id = v.cursor.id /\ v.cursor.id # m.id
      <4>1. ASSUME NEW i \in DOMAIN d.results, d.results[i].id = v.cursor.id
            PROVE  i \in DOMAIN e.results /\ e.results[i].id = x.cursor.id
        BY <1>4, <1>5, <1>15, <3>2, <4>1
      <4> QED BY <1>2, <3>2, <4>1
    <3> QED BY <1>12, <1>14, <3>1, <3>2
  <2>6. Expects(x, e)
    BY <1>5, <1>6, <1>7, <1>8, <1>12, <1>18, <2>2 DEF Expects
  <2>7. Depicts(x, e)
    BY <1>1, <1>2, <1>12, <1>16, <2>4, <2>5, <2>6 DEF Depicts
  <2>8. Depicts(Request(x), e)
    BY <1>12, <1>16, <2>7, RequestIs, ResemblingDepicts
  <2> QED BY <2>1, <2>7, <2>8
<1>19. CASE ~v.results[n].cancelled
  <2>1. v.results[n].total = m.from /\ v.cursor \in {NoCursor, Cursor(m.id, m.seq, m.from)}
        /\ Len(v.results[n].rows) = m.from
    BY <1>5, <1>7, <1>9, <1>19 DEF Expects, DepictsTab
  <2>2. D.kind = "apply" /\ D.cursor = c
    <3>1. Base(v, m.index) = << m.id, m.from >>
      BY <1>5, <1>17, <2>1
    <3>2. D = Apply(c)
      BY Zenon, <1>3, <1>5, <2>1, <3>1, NextIsApplied
    <3> QED BY <3>2 DEF Apply
  <2> HIDE DEF x, D
  <2>3. AppendRows(v, m) = AddRows(x, m)
    BY <1>12, <2>2
  <2>4. PICK u : /\ AddRows(x, m) = Persist(u) /\ SameButResults(x, u) /\ u.completed = x.completed
                 /\ DOMAIN u.results = DOMAIN x.results /\ Grown(x.results[n], u.results[n], m)
                 /\ \A j \in DOMAIN x.results : j # n => u.results[j] = x.results[j]
    BY <1>9, <1>12, <1>13, <1>19, AddRowsIs
  <2>5. /\ u.results[n].id = m.id /\ u.results[n].cancelled = FALSE
        /\ u.results[n].total = m.total /\ Len(u.results[n].rows) = m.total
    <3>1. Len(v.results[n].rows \o m.rows) = Len(v.results[n].rows) + Len(m.rows)
      BY <1>3, <1>11
    <3>2. v.results[n].cancelled = FALSE
      BY <1>10, <1>19 DEF ShownResults
    <3> QED BY Zenon, <1>1, <1>12, <1>17, <2>1, <2>4, <3>1, <3>2 DEF Grown
  <2>6. DepictsAll(u.results, e.results)
    <3>1. DepictsTab(u.results[n], e.results[n])
      BY <1>3, <1>6, <1>7, <2>5 DEF DepictsTab
    <3>2. ASSUME NEW i \in DOMAIN e.results, i # n PROVE DepictsTab(u.results[i], e.results[i])
      <4>1. i \in DOMAIN v.results
        BY <1>2, <1>4, <1>5 DEF DepictsAll
      <4> QED BY <1>12, <1>15, <2>4, <3>2, <4>1
    <3> QED BY <1>2, <1>4, <1>5, <1>12, <2>4, <3>1, <3>2 DEF DepictsAll
  <2>7. /\ u.key = v.key /\ u.active = "S" /\ u.log = TRUE /\ u.cursor = c /\ u \in ViewState
        /\ u.executing = v.executing /\ u.completed = FALSE
    BY <1>2, <1>7, <1>12, <2>2, <2>4 DEF SameButResults
  <2>8. \E i \in DOMAIN e.results : e.results[i].id = u.cursor.id
    BY <1>4, <1>5, <1>6, <2>7 DEF Cursor
  <2>9. Expects(u, e)
    BY <1>5, <1>6, <1>8, <2>5, <2>7 DEF Expects
  <2>10. Depicts(u, e)
    BY <1>1, <1>2, <1>16, <2>6, <2>7, <2>8, <2>9 DEF Depicts
  <2>11. Resembles(u, Persist(u))
    BY Zenon, <2>7, PersistIs
  <2> QED BY <1>16, <2>3, <2>4, <2>10, <2>11, ResemblingDepicts
<1> QED BY <1>18, <1>19

LEMMA AppendRowsDepicts ==
  ASSUME NEW v \in ViewState, NEW m \in Appends, NEW d \in Display, NEW e \in Display,
         Depicts(v, d), Leads(d, m, e)
  PROVE  Depicts(AppendRows(v, m), e)
<1>1. m.type = "appendRows" /\ e.active = d.active
  BY DEF Appends, Leads
<1>2. d.active # "O"
  BY <1>1 DEF Leads
<1>3. CASE d.active = NoSource
  <2>1. Young(v) /\ ~v.log
    BY <1>3 DEF Depicts, Young
  <2>2. AppendRows(v, m) \in {v, Request(v)}
    BY <2>1 DEF AppendRows
  <2>3. Young(AppendRows(v, m))
    BY <2>1, <2>2, RequestIs
  <2>4. e.active # "S"
    BY <1>1, <1>3 DEF NoSource
  <2> QED BY <1>1, <1>3, <2>3, <2>4 DEF Depicts
<1>4. CASE d.active = "S"
  <2>1. e.version = d.version /\ Feeds(d, m, e)
    BY <1>1, <1>4 DEF Leads
  <2> QED BY <1>1, <1>4, <2>1, FirstChunkDepicts, NextChunkDepicts
<1> QED BY <1>2, <1>3, <1>4 DEF Display, Sources

LEMMA CompletionNamed ==
  ASSUME NEW c \in Cursors, NEW id, NEW last
  PROVE  Complete(c, id, last).cursor.id \in {c.id, id}
<1>1. [c EXCEPT !.terminal = TRUE].id = c.id
  BY DEF Cursors
<1>2. Desync(c, id).cursor.id = id
  BY DEF Desync
<1> QED BY <1>1, <1>2 DEF Complete, Stale, Duplicate, Apply

LEMMA StreamingCompleteDepicts ==
  ASSUME NEW v \in ViewState, NEW m \in Completions, NEW d \in Display, NEW e \in Display,
         Depicts(v, d), Leads(d, m, e)
  PROVE  Depicts(StreamingComplete(v, m), e)
<1> DEFINE D == Complete(v.cursor, m.id, m.last)
           x == [v EXCEPT !.cursor = D.cursor]
           g == [x EXCEPT !.completed = TRUE, !.results[m.index].complete = TRUE,
                          !.results[m.index].total = m.total]
           known == m.index \in DOMAIN v.results /\ v.results[m.index].id = m.id
<1>1. m.type = "streamingComplete" /\ e.active = d.active /\ m.id \in Nat /\ m.last \in Nat
      /\ v.cursor \in Cursors
  BY DEF Completions, Leads, ViewState
<1>2. d.active # "O"
  BY <1>1 DEF Leads
<1>3. /\ StreamingComplete(v, m) \in {v, Request(v), Request(x), Persist(g), x}
      /\ StreamingComplete(v, m) \in {v, Request(v)} \/ known
  BY DEF StreamingComplete
<1>4. D.cursor \in Cursors
  BY <1>1, CompleteType
<1>5. D.cursor.id \in {v.cursor.id, m.id}
  BY <1>1, CompletionNamed
<1>6. CASE d.active = NoSource
  <2>1. Young(v) /\ v.cursor = NoCursor
    BY <1>6 DEF Depicts, Young
  <2>2. D.kind = "stale" /\ D.cursor = NoCursor
    BY <2>1 DEF Complete, Stale
  <2> HIDE DEF D
  <2>3. /\ x \in ViewState /\ x.cursor = v.cursor /\ x.key = v.key /\ x.log = v.log
        /\ x.cache = v.cache
    BY <1>4, <2>1, <2>2, JudgedIs
  <2>4. Young(x)
    BY <2>1, <2>3 DEF Young
  <2>5. StreamingComplete(v, m) \in {v, Request(v), x}
    BY <2>2 DEF StreamingComplete, D
  <2> HIDE DEF x
  <2>6. Young(StreamingComplete(v, m))
    BY <2>1, <2>4, <2>5, RequestIs
  <2>7. e.active # "S"
    BY <1>1, <1>6 DEF NoSource
  <2> QED BY <1>1, <1>6, <2>6, <2>7 DEF Depicts
<1>7. CASE d.active = "S"
  <2>1. e.version = d.version /\ SameRows(d, e) /\ ~e.open /\ e.active = "S" /\ e.active # NoSource
    BY <1>1, <1>7 DEF Leads, NoSource
  <2>2. /\ v.key.source = "S" /\ v.active = "S" /\ v.log = TRUE /\ v.key.version <= d.version
        /\ v.executing = d.executing \/ (d.halt /\ v.executing = FALSE)
        /\ DepictsAll(v.results, d.results)
        /\ v.cursor.id = 0 \/ \E i \in DOMAIN d.results : d.results[i].id = v.cursor.id
    BY <1>7 DEF Depicts, NoSource
  <2>3. Depicts(v, e)
    BY <2>1, <2>2 DEF Depicts, SameRows
  <2>4. Depicts(Request(v), e)
    BY <2>1, <2>3, RequestIs, ResemblingDepicts
  <2>5. CASE known
    <3> HIDE DEF D
    <3>1. /\ x \in ViewState /\ x.cursor = D.cursor /\ x.key = v.key /\ x.active = v.active
          /\ x.log = v.log /\ x.executing = v.executing /\ x.completed = v.completed
          /\ x.results = v.results /\ x.cache = v.cache
      BY <1>4, JudgedIs
    <3>2. g = FinishedView(x, m)
      BY DEF FinishedView
    <3> HIDE DEF x
    <3>3. m.index \in DOMAIN e.results /\ e.results[m.index].id = m.id /\ e.results = d.results
      BY <2>1, <2>2, <2>5 DEF SameRows, DepictsAll, DepictsTab
    <3>4. x.cursor.id = 0 \/ \E i \in DOMAIN e.results : e.results[i].id = x.cursor.id
      BY <1>5, <2>2, <3>1, <3>3
    <3>5. Depicts(x, e)
      BY <2>1, <2>2, <3>1, <3>4 DEF Depicts, SameRows
    <3>6. Depicts(Request(x), e)
      BY <2>1, <3>1, <3>5, RequestIs, ResemblingDepicts
    <3>7. /\ SameButResults(x, FinishedView(x, m))
          /\ DOMAIN FinishedView(x, m).results = DOMAIN x.results
          /\ Finished(x.results[m.index], FinishedView(x, m).results[m.index], m)
          /\ \A j \in DOMAIN x.results : j # m.index => FinishedView(x, m).results[j] = x.results[j]
      BY <2>5, <3>1, FinishedIs
    <3> HIDE DEF g
    <3>8. /\ SameButResults(x, g) /\ DOMAIN g.results = DOMAIN x.results
          /\ Finished(x.results[m.index], g.results[m.index], m)
          /\ \A j \in DOMAIN x.results : j # m.index => g.results[j] = x.results[j]
      BY <3>2, <3>7
    <3>9. DepictsAll(g.results, e.results)
      <4>1. DepictsAll(x.results, e.results)
        BY <2>1, <3>5 DEF Depicts
      <4>2. ASSUME NEW i \in DOMAIN e.results PROVE DepictsTab(g.results[i], e.results[i])
        <5>1. DepictsTab(x.results[i], e.results[i]) /\ i \in DOMAIN x.results
          BY <4>1 DEF DepictsAll
        <5>2. g.results[i].id = x.results[i].id /\ g.results[i].rows = x.results[i].rows
              /\ g.results[i].cancelled = x.results[i].cancelled
          BY <3>8, <5>1 DEF Finished
        <5> QED BY <5>1, <5>2 DEF DepictsTab
      <4> QED BY <3>8, <4>1, <4>2 DEF DepictsAll
    <3>10. Depicts(g, e)
      BY <2>1, <3>5, <3>8, <3>9 DEF Depicts, SameButResults
    <3>11. Depicts(Persist(g), e)
      BY Zenon, <2>1, <3>8, <3>10, PersistIs, ResemblingDepicts DEF SameButResults
    <3> QED BY <1>3, <2>3, <2>4, <3>5, <3>6, <3>11
  <2> QED BY <1>3, <2>3, <2>4, <2>5
<1> QED BY <1>2, <1>6, <1>7 DEF Display, Sources

LEMMA LogRowsDepicts ==
  ASSUME NEW v \in ViewState, NEW m, m.type = "log", NEW d \in Display, NEW e \in Display,
         Depicts(v, d), Leads(d, m, e)
  PROVE  Depicts(LogRows(v), e)
<1>1. e.active = d.active /\ d.active # "O"
  BY DEF Leads
<1>2. CASE d.active = NoSource
  <2>1. Young(LogRows(v))
    BY <1>2, RequestIs DEF Depicts, LogRows
  <2> QED BY <1>1, <1>2, <2>1 DEF Depicts, NoSource
<1>3. CASE d.active = "S"
  <2>1. e.version = d.version /\ SameRows(d, e) /\ StaysOpen(d, e) /\ e.active = "S"
    BY <1>1, <1>3 DEF Leads
  <2>2. v.log = TRUE /\ v.key.source = "S"
    BY <1>3 DEF Depicts, NoSource
  <2>3. LogRows(v) = v
    BY <2>2 DEF LogRows
  <2>4. d.version <= e.version /\ v.key.version \in Nat
    BY <2>1, <2>2, KeyOfSource DEF Display, Sources
  <2>5. e.open => v.completed = FALSE
    BY <1>3, <2>1 DEF StaysOpen, Depicts, Expects
  <2>6. v.executing = e.executing \/ (e.halt /\ v.executing = FALSE)
    BY <1>3, <2>1 DEF Depicts, SameRows
  <2>7. e.results = d.results /\ AllAlike(v.results, v.results)
    BY <2>1, SameAlike DEF SameRows
  <2> QED BY Zenon, <1>3, <2>1, <2>3, <2>4, <2>5, <2>6, <2>7, StillDepicts
<1> QED BY <1>1, <1>2, <1>3 DEF Display, Sources

LEMMA HandleDepicts ==
  ASSUME NEW v \in ViewState, NEW m \in ToView, NEW d \in Display, NEW e \in Display,
         Depicts(v, d), Leads(d, m, e)
  PROVE  Depicts(Handle(v, m), e)
<1>1. m.type \in {"hydrate", "setActiveSource", "appendRows", "streamingComplete",
                  "cancelExecution", "log"}
  BY DEF ToView, Hydrates, Switches, Appends, Completions
<1>2. CASE m.type = "hydrate"
  <2>1. m \in Hydrates /\ Handle(v, m) = Replace(v, m)
    BY <1>2 DEF Handle, ToView, Hydrates, Switches, Appends, Completions
  <2> QED BY <2>1, ReplaceDepicts
<1>3. CASE m.type = "setActiveSource"
  <2>1. m \in Switches /\ Handle(v, m) = ShowSource(v, m)
    BY <1>3 DEF Handle, ToView, Hydrates, Switches, Appends, Completions
  <2> QED BY <2>1, ShowSourceDepicts
<1>4. CASE m.type = "appendRows"
  <2>1. m \in Appends /\ Handle(v, m) = AppendRows(v, m)
    BY <1>4 DEF Handle, ToView, Hydrates, Switches, Appends, Completions
  <2> QED BY <2>1, AppendRowsDepicts
<1>5. CASE m.type = "streamingComplete"
  <2>1. m \in Completions /\ Handle(v, m) = StreamingComplete(v, m)
    BY <1>5 DEF Handle, ToView, Hydrates, Switches, Appends, Completions
  <2> QED BY <2>1, StreamingCompleteDepicts
<1>6. CASE m.type = "cancelExecution"
  BY <1>6, CancelDepicts DEF Handle
<1>7. CASE m.type = "log"
  BY <1>7, LogRowsDepicts DEF Handle
<1> QED BY <1>1, <1>2, <1>3, <1>4, <1>5, <1>6, <1>7

(* What the page has posted is no part of what it shows.                   *)
LEMMA QuietDepicts ==
  ASSUME NEW v \in ViewState, NEW d \in Display, Depicts(v, d)
  PROVE  Depicts([v EXCEPT !.out = << >>], d)
<1> DEFINE w == [v EXCEPT !.out = << >>]
<1>1. /\ w.key = v.key /\ w.active = v.active /\ w.log = v.log /\ w.cursor = v.cursor
      /\ w.executing = v.executing /\ w.completed = v.completed /\ w.results = v.results
      /\ w.cache = v.cache
  BY DEF ViewState
<1> HIDE DEF w
<1>2. Depicts(w, d)
  BY <1>1 DEF Depicts, Expects, Young
<1> QED BY <1>2 DEF w

LEMMA FreshDepicts == Depicts(FreshView, Blank)
BY DEF Depicts, FreshView, Blank, Young, NoContent, NoSource

----------------------------------------------------------------------------
(* The host: what it has done to what the page will show.                  *)

(* The run goes on if the next chunk of its statement extends a result.    *)
Coherent(h) ==
  /\ h.lastSentActive = "S" => h.log
  /\ h.finalizeVersion <= h.version
  /\ Grows(h) => /\ h.seq \in Nat /\ h.results # << >> /\ ~h.completed
                 /\ ~h.results[Len(h.results)].cancelled

Listed(h, d) ==
  d.active = "S" =>
    Lists(h.results, d.results) /\ (Grows(h) => d.open /\ d.next = h.seq)

(* The display d is of the source last sent, of the source the host shows, *)
(* of the version the host has, or an earlier one, and is what it has.     *)
Near(h, d) == d.active # NoSource => h.ready /\ d.active = h.lastSentActive
Level(h, d) == d.active # NoSource => d.active = h.active
Executes(h, d) == d.active = "S" => d.executing = h.executing
Correct(h, d) ==
  d.active = "S" =>
    d.version <= h.version /\ (d.version = h.version => Listed(h, d) /\ Executes(h, d))
Current(h, d) ==
  /\ Near(h, d) /\ Level(h, d) /\ Listed(h, d) /\ Executes(h, d)
  /\ d.active = "S" => d.version <= h.version

(* Cancellations of the user that the host is going to learn of.           *)
Pending(P, i, cap) ==
  \E c \in DOMAIN P : /\ P[c].type = "cancelQuery" /\ i \in DOMAIN P[c].counts
                      /\ P[c].counts[i] <= cap

Patient(d, P) ==
  d.active = "S" =>
    /\ d.halt => d.executing = FALSE \/ \E c \in DOMAIN P : P[c].type = "cancelQuery"
    /\ \A i \in DOMAIN d.results :
         LET t == d.results[i] IN
         t.cap # None => (t.cancelled /\ t.count <= t.cap) \/ Pending(P, i, t.cap)

(* What UpdateView leaves alone.                                           *)
Beside(h, g) ==
  /\ g.results = h.results /\ g.executing = h.executing /\ g.cancelled = h.cancelled
  /\ g.tracked = h.tracked /\ g.seq = h.seq /\ g.active = h.active /\ g.ready = h.ready
  /\ g.version = h.version /\ g.completed = h.completed

Unmoved(h, g) ==
  /\ Beside(h, g) /\ g.lastSentActive = h.lastSentActive /\ g.log = h.log
  /\ g.finalizeVersion \in {h.finalizeVersion, h.version}

LEMMA BesideKeeps ==
  ASSUME NEW h, NEW g, Beside(h, g), NEW d
  PROVE  /\ Grows(g) = Grows(h) /\ Listed(g, d) = Listed(h, d)
         /\ Level(g, d) = Level(h, d) /\ Executes(g, d) = Executes(h, d)
         /\ Correct(g, d) = Correct(h, d)
<1>1. Grows(g) = Grows(h)
  BY DEF Beside, Grows
<1>2. Listed(g, d) = Listed(h, d) /\ Level(g, d) = Level(h, d) /\ Executes(g, d) = Executes(h, d)
  BY <1>1 DEF Beside, Listed, Level, Executes
<1> QED BY <1>1, <1>2 DEF Correct, Beside

LEMMA UnmovedKeeps ==
  ASSUME NEW h \in HostState, NEW g, Unmoved(h, g)
  PROVE  /\ Coherent(h) => Coherent(g)
         /\ \A d : (Near(h, d) => Near(g, d)) /\ (Current(h, d) => Current(g, d))
<1>1. Beside(h, g) /\ h.version \in Nat
  BY DEF Unmoved, HostState
<1>2. Coherent(h) => Coherent(g)
  <2>1. Grows(g) = Grows(h)
    BY <1>1, BesideKeeps
  <2> QED BY <1>1, <2>1 DEF Unmoved, Beside, Coherent
<1>3. ASSUME NEW d PROVE (Near(h, d) => Near(g, d)) /\ (Current(h, d) => Current(g, d))
  <2>1. Near(h, d) => Near(g, d)
    BY DEF Unmoved, Beside, Near
  <2> QED BY <1>1, <2>1, BesideKeeps DEF Current, Beside
<1> QED BY <1>2, <1>3

LEMMA BesideOn ==
  ASSUME NEW h, NEW g, NEW k, Beside(h, g), Beside(g, k)
  PROVE  Beside(h, k)
BY DEF Beside

LEMMA UnmovedOn ==
  ASSUME NEW h, NEW g, NEW k, Unmoved(h, g), Unmoved(g, k)
  PROVE  Unmoved(h, k)
BY BesideOn DEF Unmoved, Beside

LEMMA UnmovedItself ==
  ASSUME NEW h
  PROVE  Unmoved(h, h)
BY DEF Unmoved, Beside

LEMMA PostIs ==
  ASSUME NEW h \in HostState, NEW m
  PROVE  Unmoved(h, Post(h, m)) /\ Post(h, m).out = Append(h.out, m)
<1> DEFINE out == Append(h.out, m)
           g == [h EXCEPT !.out = out]
<1>1. Post(h, m) = g
  BY DEF Post
<1> HIDE DEF out
<1>2. Unmoved(h, g) /\ g.out = out
  BY DEF Unmoved, Beside, HostState
<1> QED BY <1>1, <1>2 DEF out

LEMMA MarkSentIs ==
  ASSUME NEW h, Sound(h)
  PROVE  LET g == MarkSent(h)
             k == [g EXCEPT !.finalizeVersion = h.version] IN
         /\ Unmoved(h, g) /\ g.out = h.out /\ g \in HostState /\ g.stale = h.stale
         /\ Unmoved(h, k) /\ k.out = h.out /\ k \in HostState
<1> DEFINE sent == IF h.active = "S" THEN h.version ELSE h.sent
           M == [h EXCEPT !.sent = sent, !.globalDirty = FALSE]
           k == [M EXCEPT !.finalizeVersion = h.version]
<1>1. MarkSent(h) = M
  BY DEF MarkSent
<1>2. h \in HostState /\ M \in HostState
  BY <1>1, MarkSentRelays DEF Sound, Relays
<1> HIDE DEF sent
<1>3. Unmoved(h, M) /\ M.out = h.out /\ M.stale = h.stale
  BY <1>2 DEF Unmoved, Beside, HostState
<1> HIDE DEF M
<1>4. /\ Beside(M, k) /\ k.lastSentActive = M.lastSentActive /\ k.log = M.log
      /\ k.finalizeVersion = h.version /\ k.out = M.out /\ k \in HostState
  BY Zenon, <1>2 DEF Beside, HostState
<1> HIDE DEF k
<1>5. Unmoved(h, k) /\ k.out = h.out
  BY <1>3, <1>4, BesideOn DEF Unmoved
<1> QED BY <1>1, <1>2, <1>3, <1>4, <1>5 DEF k

LEMMA SameActiveMsg ==
  ASSUME NEW h, NEW g, Beside(h, g)
  PROVE  ActiveSourceMsg(g) = ActiveSourceMsg(h)
BY DEF Beside, ActiveSourceMsg

LEMMA LightweightIs ==
  ASSUME NEW h, NEW g \in HostState, Unmoved(h, g), g.out = h.out
  PROVE  /\ Unmoved(h, Lightweight(g))
         /\ Lightweight(g).out = IF h.ready THEN Append(h.out, ActiveSourceMsg(h)) ELSE h.out
<1>1. g.ready = h.ready /\ ActiveSourceMsg(g) = ActiveSourceMsg(h)
  BY SameActiveMsg DEF Unmoved, Beside
<1>2. CASE g.ready
  <2>1. Lightweight(g) = Post(g, ActiveSourceMsg(h))
    BY <1>1, <1>2 DEF Lightweight
  <2> QED BY <1>1, <1>2, <2>1, PostIs, UnmovedOn
<1>3. CASE ~g.ready
  BY <1>1, <1>3 DEF Lightweight
<1> QED BY <1>2, <1>3

LEMMA HydrateIs ==
  ASSUME NEW h, Sound(h)
  PROVE  LET g == Hydrate(h) IN
         /\ Beside(h, g) /\ g.finalizeVersion \in {h.finalizeVersion, h.version}
         /\ g.log = (h.log \/ h.active = "S")
         /\ ~h.ready => g.out = h.out /\ g.lastSentActive = h.lastSentActive
         /\ h.ready => g.out = Append(h.out, HydrateMsg(h)) /\ g.lastSentActive = h.active
<1> DEFINE log == h.log \/ h.active = "S"
           logged == [h EXCEPT !.log = log]
           M == MarkSent(logged)
           stale == M.stale /\ h.active # "S"
           final == IF h.active = "S" /\ h.completed THEN h.version ELSE M.finalizeVersion
           marked == [M EXCEPT !.stale = stale, !.finalizeVersion = final,
                               !.lastSentActive = h.active]
           fresh == [logged EXCEPT !.html = TRUE]
           m == HydrateMsg(h)
           Result(g) ==
             /\ Beside(h, g) /\ g.finalizeVersion \in {h.finalizeVersion, h.version} /\ g.log = log
<1>1. h \in HostState
  BY DEF Sound
<1>2. Hydrate(h) = IF ~h.ready THEN fresh ELSE Post(marked, m)
  BY <1>1 DEF Hydrate, HostState
<1>3. logged \in HostState /\ logged.sent <= logged.version /\ logged.active = h.active
      /\ logged.syncVersion = h.syncVersion /\ logged.out = h.out
  BY Zenon DEF Sound, HostState
<1>4. /\ Beside(h, logged) /\ logged.log = log /\ logged.lastSentActive = h.lastSentActive
      /\ logged.finalizeVersion = h.finalizeVersion
  BY <1>1 DEF Beside, HostState
<1> HIDE DEF logged
<1>5. Sound(logged)
  BY <1>3 DEF Sound
<1>6. CASE ~h.ready
  <2>1. /\ Beside(logged, fresh) /\ fresh.out = logged.out /\ fresh.log = logged.log
        /\ fresh.lastSentActive = logged.lastSentActive
        /\ fresh.finalizeVersion = logged.finalizeVersion
    BY <1>3 DEF Beside, HostState
  <2> HIDE DEF fresh, log
  <2>2. Result(fresh)
    BY <1>4, <2>1, BesideOn
  <2> QED BY <1>2, <1>3, <1>4, <1>6, <2>1, <2>2 DEF log
<1>7. CASE h.ready
  <2>1. Unmoved(logged, M) /\ M.out = logged.out /\ M \in HostState
    BY Zenon, <1>5, MarkSentIs
  <2> HIDE DEF M
  <2>2. stale \in BOOLEAN /\ final \in Nat \union {None} /\ h.active \in Sources
    BY <1>1, <2>1 DEF HostState
  <2>3. final \in {h.finalizeVersion, h.version}
    BY <1>4, <2>1 DEF Unmoved, Beside
  <2> HIDE DEF stale, final, log
  <2>4. /\ Beside(M, marked) /\ marked.lastSentActive = h.active /\ marked.log = M.log
        /\ marked.finalizeVersion = final /\ marked.out = M.out /\ marked \in HostState
    BY Zenon, <2>1, <2>2 DEF Beside, HostState
  <2> HIDE DEF marked, m
  <2>5. Unmoved(marked, Post(marked, m)) /\ Post(marked, m).out = Append(marked.out, m)
    BY <2>4, PostIs
  <2>6. Beside(logged, M) /\ M.log = logged.log /\ Beside(marked, Post(marked, m))
        /\ Post(marked, m).log = marked.log /\ Post(marked, m).lastSentActive = marked.lastSentActive
        /\ Post(marked, m).finalizeVersion \in {marked.finalizeVersion, marked.version}
    BY <2>1, <2>5 DEF Unmoved
  <2>7. Beside(h, marked) /\ Beside(h, Post(marked, m))
    BY <1>4, <2>4, <2>6, BesideOn
  <2>8. marked.version = h.version
    BY <2>7 DEF Beside
  <2>9. Result(Post(marked, m))
    BY <1>4, <2>3, <2>4, <2>6, <2>7, <2>8
  <2> QED BY <1>2, <1>3, <1>7, <2>1, <2>4, <2>5, <2>6, <2>9 DEF log, m
<1> QED BY <1>6, <1>7

(* UpdateView does nothing, tells the source shown, or hydrates; the first *)
(* never when the version is new.                                          *)
Bumped(h) == h.finalizeVersion < h.version /\ h.sent < h.version

LEMMA UpdateViewIs ==
  ASSUME NEW h, Sound(h)
  PROVE  LET g == UpdateView(h) IN
         \/ Stable(h) /\ ~Bumped(h) /\ g = h
         \/ /\ Stable(h) /\ Unmoved(h, g)
            /\ g.out = IF h.ready THEN Append(h.out, ActiveSourceMsg(h)) ELSE h.out
         \/ g = Hydrate(h)
<1> DEFINE M == MarkSent(h)
           F == [M EXCEPT !.finalizeVersion = h.version]
           Tells2(g) == /\ Unmoved(h, g)
                        /\ g.out = IF h.ready THEN Append(h.out, ActiveSourceMsg(h)) ELSE h.out
<1>1. h \in HostState /\ h.version \in Nat /\ h.sent \in Nat
  BY DEF Sound, HostState
<1>2. Tells2(Lightweight(M)) /\ Tells2(Lightweight(F))
  BY Zenon, MarkSentIs, LightweightIs
<1>3. ~Changed(h) => ~Bumped(h)
  BY <1>1 DEF Changed, SentVersion, Bumped, None
<1>4. h.version = h.finalizeVersion => ~Bumped(h)
  BY <1>1 DEF Bumped
<1>5. AlreadyStreamed(h) => Stable(h)
  BY DEF AlreadyStreamed
<1>6. StillStreaming(h) => Stable(h)
  BY DEF StillStreaming
<1>7. UpdateView(h) =
        IF AlreadyStreamed(h) THEN
          IF h.version = h.finalizeVersion THEN h ELSE Lightweight(F)
        ELSE IF StillStreaming(h) THEN
          IF h.globalDirty \/ Changed(h) THEN Lightweight(M) ELSE h
        ELSE IF ~Stable(h) \/ h.globalDirty \/ Changed(h) THEN Hydrate(h)
        ELSE h
  BY DEF UpdateView
<1> HIDE DEF M, F
<1> QED BY <1>2, <1>3, <1>4, <1>5, <1>6, <1>7

(* The display after the cheap update...                                   *)
Noted(h, d) ==
  IF d.active = "S"
  THEN [d EXCEPT !.executing = h.executing, !.halt = FALSE, !.open = d.open /\ ~h.completed]
  ELSE d

LEMMA NotedIs ==
  ASSUME NEW d \in Display, NEW h \in HostState, Coherent(h)
  PROVE  LET e == Noted(h, d) IN
         /\ e \in Display /\ e.active = d.active
         /\ d.active # "S" => e = d
         /\ d.active = "S" => /\ e.executing = h.executing /\ e.halt = FALSE
                              /\ e.results = d.results /\ e.version = d.version
                              /\ e.next = d.next /\ e.open = (d.open /\ ~h.completed)
         /\ Listed(h, d) => Listed(h, e)
         /\ Executes(h, e)
         /\ \A P : Patient(d, P) => Patient(e, P)
<1> DEFINE open == d.open /\ ~h.completed
           f == [d EXCEPT !.executing = h.executing, !.halt = FALSE, !.open = open]
           e == Noted(h, d)
<1>1. h.executing \in BOOLEAN /\ open \in BOOLEAN
  BY DEF HostState, Display
<1>2. e = IF d.active = "S" THEN f ELSE d
  BY DEF Noted
<1> HIDE DEF open, e
<1>3. /\ f \in Display /\ f.active = d.active /\ f.executing = h.executing /\ f.halt = FALSE
      /\ f.results = d.results /\ f.version = d.version /\ f.next = d.next /\ f.open = open
  BY Zenon, <1>1 DEF Display
<1> HIDE DEF f
<1>4. Listed(h, d) => Listed(h, e)
  BY Zenon, <1>2, <1>3 DEF Listed, Coherent, open
<1>5. \A P : Patient(d, P) => Patient(e, P)
  BY <1>2, <1>3 DEF Patient
<1>6. Executes(h, e)
  BY <1>2, <1>3 DEF Executes
<1> QED BY <1>2, <1>3, <1>4, <1>5, <1>6 DEF e, open

LEMMA NotedLeads ==
  ASSUME NEW d \in Display, NEW h \in HostState, Coherent(h), Level(h, d)
  PROVE  Leads(d, ActiveSourceMsg(h), Noted(h, d))
<1> DEFINE m == ActiveSourceMsg(h)
           e == Noted(h, d)
<1>1. /\ m.type = "setActiveSource" /\ m.source = h.active /\ m.executing = h.executing
      /\ m.completed = h.completed
  BY DEF ActiveSourceMsg
<1>2. /\ e.active = d.active
      /\ d.active = "S" => /\ e.executing = h.executing /\ e.halt = FALSE
                           /\ e.results = d.results /\ e.version = d.version
                           /\ e.next = d.next /\ e.open = (d.open /\ ~h.completed)
  BY Zenon, NotedIs
<1>3. d.active # NoSource => m.source = d.active
  BY <1>1 DEF Level
<1> HIDE DEF m, e
<1>4. d.active = "S" => Notes(d, m, e)
  BY Zenon, <1>1, <1>2, <1>3 DEF Notes, StaysOpen, NoSource
<1>5. Leads(d, m, e)
  BY <1>1, <1>2, <1>3, <1>4 DEF Leads, NoSource
<1> QED BY <1>5 DEF m, e

(* ... and after a hydrate.                                                *)
TabOf(r) == [id |-> r.id, count |-> Len(r.rows), cancelled |-> r.cancelled, cap |-> None]

Anew(h) ==
  [active |-> h.active, executing |-> h.executing, halt |-> FALSE, open |-> Grows(h),
   results |-> [i \in DOMAIN h.results |-> TabOf(h.results[i])],
   next |-> IF Grows(h) THEN h.seq ELSE 0, version |-> h.version]

Fresh(h, d) ==
  IF h.active = "S" /\ d.active = "S" /\ d.version = h.version
  THEN [d EXCEPT !.open = d.open /\ Grows(h)]
  ELSE Anew(h)

LEMMA AnewIs ==
  ASSUME NEW h \in HostState, Coherent(h)
  PROVE  LET e == Anew(h) IN
         /\ e \in Display /\ e.active = h.active /\ e.executing = h.executing
         /\ e.halt = FALSE /\ e.open = Grows(h) /\ e.version = h.version
         /\ (Grows(h) => e.next = h.seq)
         /\ Lists(h.results, e.results) /\ DOMAIN e.results = DOMAIN h.results
         /\ \A i \in DOMAIN h.results : e.results[i].cap = None
<1> DEFINE rs == [i \in DOMAIN h.results |-> TabOf(h.results[i])]
           next == IF Grows(h) THEN h.seq ELSE 0
<1>1. h.results \in Seq(HostResults) /\ h.active \in Sources /\ h.executing \in BOOLEAN
      /\ h.version \in Nat /\ DOMAIN h.results = 1 .. Len(h.results) /\ Len(h.results) \in Nat
      /\ h.tracked \in Nat \union {None} /\ h.cancelled \in BOOLEAN
  BY DEF HostState
<1>2. ASSUME NEW i \in DOMAIN h.results
      PROVE  /\ TabOf(h.results[i]) \in Tab /\ TabOf(h.results[i]).id = h.results[i].id
             /\ TabOf(h.results[i]).count = Len(h.results[i].rows)
             /\ TabOf(h.results[i]).cancelled = h.results[i].cancelled
             /\ TabOf(h.results[i]).cap = None
  <2>1. h.results[i] \in HostResults
    BY <1>1
  <2>2. h.results[i].id \in Nat /\ Len(h.results[i].rows) \in Nat /\ h.results[i].cancelled \in BOOLEAN
    BY <2>1 DEF HostResults
  <2> QED BY <2>2 DEF TabOf, Tab
<1> HIDE DEF TabOf
<1>3. rs \in Seq(Tab) /\ DOMAIN rs = DOMAIN h.results
  <2>1. rs \in [1 .. Len(h.results) -> Tab]
    BY <1>1, <1>2
  <2> QED BY <1>1, <2>1, FunctionIsSeq
<1>4. \A i \in DOMAIN h.results : rs[i] = TabOf(h.results[i])
  OBVIOUS
<1>5. Lists(h.results, rs)
  BY <1>2, <1>3, <1>4 DEF Lists
<1>6. Grows(h) \in BOOLEAN
  BY <1>1 DEF Grows
<1>7. next \in Nat
  BY DEF Coherent
<1>8. Anew(h) = [active |-> h.active, executing |-> h.executing, halt |-> FALSE, open |-> Grows(h),
                 results |-> rs, next |-> next, version |-> h.version]
  BY DEF Anew
<1> HIDE DEF rs, next
<1>9. /\ Anew(h) \in Display /\ Anew(h).active = h.active /\ Anew(h).executing = h.executing
      /\ Anew(h).halt = FALSE /\ Anew(h).open = Grows(h) /\ Anew(h).version = h.version
      /\ Anew(h).next = next /\ Anew(h).results = rs
  BY <1>1, <1>3, <1>6, <1>7, <1>8 DEF Display
<1> QED BY <1>2, <1>3, <1>4, <1>5, <1>9 DEF next

LEMMA FreshIs ==
  ASSUME NEW d \in Display, NEW h \in HostState, Coherent(h), Correct(h, d)
  PROVE  LET e == Fresh(h, d) IN
         /\ e \in Display /\ e.active = h.active
         /\ Listed(h, e) /\ Executes(h, e)
         /\ h.active = "S" =>
              /\ e.version = h.version /\ Lists(h.results, e.results)
              /\ (Grows(h) => e.open) /\ (e.open => Grows(h))
              /\ d.active = "S" => d.version <= h.version
              /\ d.active = "S" /\ d.version = h.version => SameRows(d, e) /\ StaysOpen(d, e)
              /\ d.active # "S" \/ d.version # h.version =>
                   e.halt = FALSE /\ \A i \in DOMAIN e.results : e.results[i].cap = None
         /\ \A P : Patient(d, P) => Patient(e, P)
<1> DEFINE open == d.open /\ Grows(h)
           f == [d EXCEPT !.open = open]
           e == Fresh(h, d)
<1>1. CASE h.active = "S" /\ d.active = "S" /\ d.version = h.version
  <2>1. e = f
    BY <1>1 DEF Fresh
  <2>2. open \in BOOLEAN
    BY DEF Display, HostState, Grows
  <2>3. Listed(h, d) /\ Executes(h, d)
    BY <1>1 DEF Correct
  <2>4. open = Grows(h)
    BY <1>1, <2>3 DEF Listed, Grows
  <2> HIDE DEF open
  <2>5. /\ f \in Display /\ f.active = d.active /\ f.executing = d.executing /\ f.halt = d.halt
        /\ f.results = d.results /\ f.version = d.version /\ f.next = d.next /\ f.open = open
    BY <2>2 DEF Display
  <2> HIDE DEF f, e
  <2>6. Listed(h, e) /\ Executes(h, e) /\ Lists(h.results, e.results)
    BY <1>1, <2>1, <2>3, <2>4, <2>5 DEF Listed, Executes
  <2>7. SameRows(d, e) /\ StaysOpen(d, e)
    BY Zenon, <2>1, <2>5 DEF SameRows, StaysOpen, open
  <2>8. \A P : Patient(d, P) => Patient(e, P)
    BY <2>1, <2>5 DEF Patient
  <2>9. d.version <= h.version
    BY <1>1 DEF Correct
  <2> QED BY <1>1, <2>1, <2>4, <2>5, <2>6, <2>7, <2>8, <2>9 DEF e
<1>2. CASE ~(h.active = "S" /\ d.active = "S" /\ d.version = h.version)
  <2>1. e = Anew(h)
    BY <1>2 DEF Fresh
  <2>2. /\ e \in Display /\ e.active = h.active /\ e.executing = h.executing
        /\ e.halt = FALSE /\ e.open = Grows(h) /\ e.version = h.version
        /\ (Grows(h) => e.next = h.seq)
        /\ Lists(h.results, e.results) /\ DOMAIN e.results = DOMAIN h.results
        /\ \A i \in DOMAIN h.results : e.results[i].cap = None
    BY Zenon, <2>1, AnewIs
  <2> HIDE DEF e
  <2>3. Listed(h, e) /\ Executes(h, e)
    BY <2>2 DEF Listed, Executes
  <2>4. \A P : Patient(e, P)
    BY <2>2 DEF Patient
  <2>5. d.active = "S" => d.version <= h.version
    BY DEF Correct
  <2> QED BY <1>2, <2>2, <2>3, <2>4, <2>5 DEF e
<1> QED BY Zenon, <1>1, <1>2

LEMMA FreshLeads ==
  ASSUME NEW d \in Display, NEW h \in HostState, Coherent(h), Correct(h, d)
  PROVE  Leads(d, HydrateMsg(h), Fresh(h, d))
<1> DEFINE m == HydrateMsg(h)
           e == Fresh(h, d)
<1>1. /\ m.type = "hydrate" /\ m.source = h.active /\ m.executing = h.executing
      /\ m.completed = h.completed
      /\ h.active = "S" => m.results = h.results /\ m.version = h.version
  BY DEF HydrateMsg
<1>2. /\ e \in Display /\ e.active = h.active /\ Executes(h, e)
      /\ h.active = "S" =>
           /\ e.version = h.version /\ Lists(h.results, e.results)
           /\ (Grows(h) => e.open) /\ (e.open => Grows(h))
           /\ d.active = "S" => d.version <= h.version
           /\ d.active = "S" /\ d.version = h.version => SameRows(d, e) /\ StaysOpen(d, e)
  BY Zenon, FreshIs
<1>3. h.active \in Sources
  BY DEF HostState
<1> HIDE DEF m, e
<1>4. h.active = "S" /\ Grows(h) => Extendable(e) /\ ~m.completed
  <2>1. SUFFICES ASSUME h.active = "S", Grows(h) PROVE Extendable(e) /\ ~m.completed
    OBVIOUS
  <2>2. h.results # << >> /\ ~h.completed /\ ~h.results[Len(h.results)].cancelled
    BY <2>1 DEF Coherent
  <2>3. h.results \in Seq(HostResults) /\ e.results \in Seq(Tab)
    BY <1>2 DEF HostState, Display
  <2>4. DOMAIN e.results = DOMAIN h.results
    BY <1>2, <2>1 DEF Lists
  <2>5. Len(e.results) = Len(h.results) /\ Len(h.results) > 0 /\ Len(h.results) \in DOMAIN h.results
    BY <2>2, <2>3, <2>4
  <2>6. ~e.results[Len(e.results)].cancelled
    BY <1>2, <2>1, <2>2, <2>5 DEF Lists
  <2> QED BY <1>1, <2>2, <2>5, <2>6 DEF Extendable
<1>5. Replaces(d, m, e)
  BY <1>1, <1>2, <1>3, <1>4 DEF Replaces, Sources, Executes
<1>6. Leads(d, m, e)
  BY <1>1, <1>5 DEF Leads
<1> QED BY <1>6 DEF m, e

(* A handler that has come as far as h, from the display d0 on, expects d. *)
Awake(d0, d) == d.active = NoSource => d0.active = NoSource
Reached(d0, h, d, P) ==
  /\ d \in Display /\ Reaches(d0, h.out, d) /\ Awake(d0, d) /\ Patient(d, P)
  /\ Sound(h) /\ Coherent(h) /\ Near(h, d)
Informs(d0, h, P) == \E d : Reached(d0, h, d, P) /\ Current(h, d)

(* The results of h, cancelled, are no longer than those shown, nor than   *)
(* what the page has stopped at, unless a cancellation is still to come.   *)
Trims(h, d, P) ==
  d.active = "S" =>
    /\ DOMAIN h.results = DOMAIN d.results
    /\ \A i \in DOMAIN d.results :
         LET t == d.results[i] IN
         /\ t.id = h.results[i].id /\ Len(h.results[i].rows) <= t.count
         /\ t.cap # None => Len(h.results[i].rows) <= t.cap \/ Pending(P, i, t.cap)

LEMMA CurrentIsCorrect ==
  ASSUME NEW h, NEW d, Current(h, d)
  PROVE  Correct(h, d)
BY DEF Current, Correct

LEMMA AsideReached ==
  ASSUME NEW d0, NEW h, NEW d, NEW P, Reached(d0, h, d, P),
         NEW g, Sound(g), g.out = h.out, Coherent(g), Near(g, d)
  PROVE  Reached(d0, g, d, P)
BY DEF Reached

LEMMA UnmovedInforms ==
  ASSUME NEW d0, NEW h, NEW P, Informs(d0, h, P),
         NEW g, Sound(g), g.out = h.out, Unmoved(h, g)
  PROVE  Informs(d0, g, P)
<1>1. PICK d : Reached(d0, h, d, P) /\ Current(h, d)
  BY DEF Informs
<1>2. h \in HostState
  BY <1>1 DEF Reached, Sound
<1>3. Coherent(g) /\ Near(g, d) /\ Current(g, d)
  BY <1>1, <1>2, UnmovedKeeps DEF Reached
<1> QED BY <1>1, <1>3, AsideReached DEF Informs

LEMMA PostReached ==
  ASSUME NEW d0, NEW h, NEW d, NEW P, Reached(d0, h, d, P),
         NEW m \in ToView, ~IsSync(m), NEW e \in Display, Leads(d, m, e),
         e.active = d.active, Patient(e, P)
  PROVE  Reached(d0, Post(h, m), e, P) /\ Unmoved(h, Post(h, m))
<1> DEFINE g == Post(h, m)
<1>1. h \in HostState /\ Sound(h) /\ Coherent(h) /\ h.out \in Seq(ToView)
  BY DEF Reached, Sound, HostState
<1>2. Unmoved(h, g) /\ g.out = Append(h.out, m)
  BY <1>1, PostIs
<1>3. Sound(g)
  BY <1>1, PostFollows DEF Follows
<1>4. Reaches(d0, g.out, e)
  BY <1>1, <1>2, ReachesFurther DEF Reached
<1>5. Coherent(g) /\ Near(g, e)
  BY <1>1, <1>2, UnmovedKeeps DEF Reached, Near
<1> QED BY <1>2, <1>3, <1>4, <1>5 DEF Reached, Awake

LEMMA PostActiveReached ==
  ASSUME NEW d0, NEW h, NEW d, NEW P, Reached(d0, h, d, P), Level(h, d)
  PROVE  LET g == Post(h, ActiveSourceMsg(h)) IN
         /\ Reached(d0, g, Noted(h, d), P) /\ Unmoved(h, g)
         /\ Current(h, d) => Current(g, Noted(h, d))
<1> DEFINE g == Post(h, ActiveSourceMsg(h))
           e == Noted(h, d)
<1>1. h \in HostState /\ Coherent(h) /\ d \in Display /\ Patient(d, P)
  BY DEF Reached, Sound
<1>2. /\ e \in Display /\ e.active = d.active /\ (d.active = "S" => e.version = d.version)
      /\ Executes(h, e) /\ (Listed(h, d) => Listed(h, e)) /\ Patient(e, P)
  BY Zenon, <1>1, NotedIs
<1>3. Leads(d, ActiveSourceMsg(h), e)
  BY <1>1, NotedLeads
<1>4. ActiveSourceMsg(h) \in ToView /\ ~IsSync(ActiveSourceMsg(h))
  BY <1>1, ActiveSourceMsgIs
<1>5. Reached(d0, g, e, P) /\ Unmoved(h, g)
  BY <1>1, <1>2, <1>3, <1>4, PostReached
<1>6. Current(h, d) => Current(h, e)
  BY <1>2 DEF Current, Near, Level
<1> QED BY <1>1, <1>5, <1>6, UnmovedKeeps

LEMMA PostActiveInforms ==
  ASSUME NEW d0, NEW h, NEW P, Informs(d0, h, P)
  PROVE  LET g == Post(h, ActiveSourceMsg(h)) IN Informs(d0, g, P) /\ Unmoved(h, g)
BY PostActiveReached DEF Informs, Current

(* What UpdateView, from h and d to g and e, makes of what is expected.    *)
Refreshes(h, d, g, e) ==
  /\ Beside(h, g) /\ Correct(g, e)
  /\ Level(h, d) => Level(g, e)
  /\ Current(h, d) \/ ~Stable(h) \/ (Bumped(h) /\ Listed(h, d)) => Current(g, e)
  /\ \A Q : Trims(h, d, Q) => Trims(g, e, Q)
  /\ h.ready /\ ~Stable(h) => e.active # NoSource

LEMMA UnawareRefreshes ==
  ASSUME NEW d0, NEW h, NEW d, NEW P, Reached(d0, h, d, P), d.active = NoSource,
         NEW g, Sound(g), g.out = h.out, Coherent(g), Beside(h, g), ~h.ready \/ Stable(h)
  PROVE  Reached(d0, g, d, P) /\ Refreshes(h, d, g, d)
<1>1. Near(g, d) /\ Correct(g, d) /\ Level(g, d) /\ Current(g, d) /\ \A Q : Trims(g, d, Q)
  BY DEF Near, Correct, Level, Current, Trims, Listed, Executes, NoSource
<1> QED BY <1>1, AsideReached DEF Refreshes

LEMMA NotedRefreshes ==
  ASSUME NEW d0, NEW h, NEW d, NEW P, Reached(d0, h, d, P), Correct(h, d), Stable(h),
         NEW g, Sound(g), Unmoved(h, g), g.out = Append(h.out, ActiveSourceMsg(h))
  PROVE  \E e : Reached(d0, g, e, P) /\ Refreshes(h, d, g, e)
<1> DEFINE e == Noted(h, d)
<1>1. h \in HostState /\ Coherent(h) /\ d \in Display /\ Patient(d, P)
      /\ h.out \in Seq(ToView) /\ h.version \in Nat
  BY DEF Reached, Sound, HostState
<1>2. /\ e \in Display /\ e.active = d.active
      /\ d.active = "S" => e.version = d.version /\ e.results = d.results
      /\ Executes(h, e) /\ (Listed(h, d) => Listed(h, e)) /\ Patient(e, P)
  BY Zenon, <1>1, NotedIs
<1>3. Level(h, d)
  BY DEF Stable, Reached, Near, Level
<1>4. Leads(d, ActiveSourceMsg(h), e)
  BY <1>1, <1>3, NotedLeads
<1>5. ActiveSourceMsg(h) \in ToView
  BY <1>1, ActiveSourceMsgIs
<1> HIDE DEF e
<1>6. Reaches(d0, g.out, e)
  BY <1>1, <1>2, <1>4, <1>5, ReachesFurther DEF Reached
<1>7. Near(h, e) /\ Level(h, e)
  BY <1>2, <1>3 DEF Reached, Near, Level
<1>8. Coherent(g) /\ Near(g, e)
  BY <1>1, <1>7, UnmovedKeeps
<1>9. Reached(d0, g, e, P)
  BY <1>2, <1>6, <1>8 DEF Reached, Awake
<1>10. Correct(h, e)
  BY <1>2 DEF Correct
<1>11. Listed(h, d) => Current(h, e)
  BY <1>2, <1>7, <1>10 DEF Current, Correct
<1>12. Current(h, d) \/ (Bumped(h) /\ Listed(h, d)) => Current(g, e)
  BY <1>1, <1>11, UnmovedKeeps DEF Current
<1>13. Beside(h, g)
  BY DEF Unmoved
<1>14. Correct(g, e) /\ Level(g, e)
  BY <1>7, <1>10, <1>13, BesideKeeps
<1>15. \A Q : Trims(h, d, Q) => Trims(g, e, Q)
  <2>1. ASSUME NEW Q, Trims(h, d, Q) PROVE Trims(g, e, Q)
    <3>1. g.results = h.results
      BY <1>13 DEF Beside
    <3> QED BY <1>2, <2>1, <3>1 DEF Trims
  <2> QED BY <2>1
<1> QED BY <1>9, <1>12, <1>13, <1>14, <1>15 DEF Refreshes

LEMMA HydrateRefreshes ==
  ASSUME NEW d0, NEW h, NEW d, NEW P, Reached(d0, h, d, P), Correct(h, d)
  PROVE  \E e : Reached(d0, Hydrate(h), e, P) /\ Refreshes(h, d, Hydrate(h), e)
<1> DEFINE g == Hydrate(h)
           e == Fresh(h, d)
           m == HydrateMsg(h)
<1>1. h \in HostState /\ Sound(h) /\ Coherent(h) /\ d \in Display /\ Patient(d, P)
      /\ h.out \in Seq(ToView) /\ h.version \in Nat
  BY DEF Reached, Sound, HostState
<1>2. /\ Beside(h, g) /\ g.finalizeVersion \in {h.finalizeVersion, h.version}
      /\ g.log = (h.log \/ h.active = "S")
      /\ ~h.ready => g.out = h.out /\ g.lastSentActive = h.lastSentActive
      /\ h.ready => g.out = Append(h.out, m) /\ g.lastSentActive = h.active
  BY <1>1, HydrateIs
<1>3. Sound(g)
  BY <1>1, HydrateRelays DEF Relays
<1>4. Coherent(g)
  <2>1. Grows(g) = Grows(h)
    BY <1>2, BesideKeeps
  <2>2. g.lastSentActive = "S" => g.log
    BY Zenon, <1>1, <1>2 DEF Coherent
  <2>3. g.finalizeVersion <= g.version
    BY <1>1, <1>2 DEF Coherent, Beside
  <2> QED BY <1>1, <1>2, <2>1, <2>2, <2>3 DEF Coherent, Beside
<1>5. CASE ~h.ready
  <2>1. d.active = NoSource
    BY <1>5 DEF Reached, Near
  <2> HIDE DEF g
  <2>2. Reached(d0, g, d, P) /\ Refreshes(h, d, g, d)
    BY <1>2, <1>3, <1>4, <1>5, <2>1, UnawareRefreshes
  <2> QED BY <2>2 DEF g
<1>6. CASE h.ready
  <2>1. /\ e \in Display /\ e.active = h.active /\ Listed(h, e) /\ Executes(h, e)
        /\ h.active = "S" =>
             /\ e.version = h.version /\ Lists(h.results, e.results)
             /\ d.active = "S" /\ d.version = h.version => SameRows(d, e) /\ StaysOpen(d, e)
             /\ d.active # "S" \/ d.version # h.version =>
                   e.halt = FALSE /\ \A i \in DOMAIN e.results : e.results[i].cap = None
        /\ Patient(e, P)
    BY Zenon, <1>1, FreshIs
  <2>2. Leads(d, m, e) /\ m \in ToView /\ h.active \in Sources
    BY <1>1, FreshLeads, HydrateMsgType DEF HostState
  <2> HIDE DEF m, e, g
  <2>3. Reaches(d0, g.out, e)
    BY Zenon, <1>1, <1>2, <1>6, <2>1, <2>2, ReachesFurther DEF Reached
  <2>4. e.active # NoSource
    BY <2>1, <2>2 DEF Sources, NoSource
  <2>5. Near(g, e)
    BY <1>2, <1>6, <2>1 DEF Near, Beside
  <2>6. Reached(d0, g, e, P)
    BY <1>3, <1>4, <2>1, <2>3, <2>4, <2>5 DEF Reached, Awake
  <2>7. Listed(g, e) /\ Executes(g, e) /\ Level(g, e)
    BY <1>2, <2>1, BesideKeeps DEF Level
  <2>8. e.active = "S" => e.version = g.version
    BY <1>2, <2>1 DEF Beside
  <2>9. Current(g, e)
    BY <1>1, <1>2, <2>5, <2>7, <2>8 DEF Current, Beside
  <2>10. ASSUME NEW Q, Trims(h, d, Q) PROVE Trims(g, e, Q)
    <3>1. g.results = h.results
      BY <1>2 DEF Beside
    <3>2. CASE d.active = "S" /\ d.version = h.version
      BY <2>1, <2>10, <3>1, <3>2 DEF Trims, SameRows
    <3>3. CASE ~(d.active = "S" /\ d.version = h.version)
      <4>1. h.results \in Seq(HostResults)
        BY <1>1 DEF HostState
      <4>2. \A i \in DOMAIN h.results : Len(h.results[i].rows) \in Nat
        BY <4>1 DEF HostResults
      <4> QED BY <2>1, <3>1, <3>3, <4>2 DEF Trims, Lists
    <3> QED BY <3>2, <3>3
  <2>11. Refreshes(h, d, g, e)
    BY <1>2, <2>4, <2>7, <2>9, <2>10, CurrentIsCorrect DEF Refreshes
  <2> QED BY <2>6, <2>11 DEF g
<1> QED BY <1>5, <1>6

LEMMA UpdateViewRefreshes ==
  ASSUME NEW d0, NEW h, NEW d, NEW P, Reached(d0, h, d, P), Correct(h, d)
  PROVE  \E e : Reached(d0, UpdateView(h), e, P) /\ Refreshes(h, d, UpdateView(h), e)
<1> DEFINE g == UpdateView(h)
<1>1. Sound(h) /\ h \in HostState /\ Coherent(h)
  BY DEF Reached, Sound
<1>2. Sound(g)
  BY <1>1, UpdateViewRelays DEF Relays
<1>3. \/ Stable(h) /\ ~Bumped(h) /\ g = h
      \/ /\ Stable(h) /\ Unmoved(h, g)
         /\ g.out = IF h.ready THEN Append(h.out, ActiveSourceMsg(h)) ELSE h.out
      \/ g = Hydrate(h)
  BY <1>1, UpdateViewIs
<1> HIDE DEF g
<1>4. CASE Stable(h) /\ ~Bumped(h) /\ g = h
  <2>1. Beside(h, h)
    BY DEF Beside
  <2>2. Refreshes(h, d, h, d)
    BY <1>4, <2>1 DEF Refreshes
  <2> QED BY <1>4, <2>2 DEF g
<1>5. CASE /\ Stable(h) /\ Unmoved(h, g)
           /\ g.out = IF h.ready THEN Append(h.out, ActiveSourceMsg(h)) ELSE h.out
  <2>1. CASE h.ready
    <3>1. \E e : Reached(d0, g, e, P) /\ Refreshes(h, d, g, e)
      BY <1>2, <1>5, <2>1, NotedRefreshes
    <3> QED BY <3>1 DEF g
  <2>2. CASE ~h.ready
    <3>1. d.active = NoSource /\ Coherent(g) /\ Beside(h, g)
      BY <1>1, <1>5, <2>2, UnmovedKeeps DEF Reached, Near, Unmoved
    <3>2. Reached(d0, g, d, P) /\ Refreshes(h, d, g, d)
      BY <1>2, <1>5, <2>2, <3>1, UnawareRefreshes
    <3> QED BY <3>2 DEF g
  <2> QED BY <2>1, <2>2
<1>6. CASE g = Hydrate(h)
  BY <1>6, HydrateRefreshes DEF g
<1> QED BY <1>3, <1>4, <1>5, <1>6

LEMMA UpdateViewInforms ==
  ASSUME NEW d0, NEW h, NEW P, Informs(d0, h, P)
  PROVE  Informs(d0, UpdateView(h), P) /\ Beside(h, UpdateView(h))
<1>1. PICK d : Reached(d0, h, d, P) /\ Current(h, d)
  BY DEF Informs
<1>2. PICK e : Reached(d0, UpdateView(h), e, P) /\ Refreshes(h, d, UpdateView(h), e)
  BY <1>1, CurrentIsCorrect, UpdateViewRefreshes
<1> QED BY <1>1, <1>2 DEF Refreshes, Informs

(* A new version. *)
LEMMA BumpIs ==
  ASSUME NEW h, Sound(h)
  PROVE  LET g == Bump(h) IN
         /\ Sound(g) /\ g.version = h.version + 1 /\ g.out = h.out
         /\ g.results = h.results /\ g.executing = h.executing /\ g.cancelled = h.cancelled
         /\ g.tracked = h.tracked /\ g.seq = h.seq /\ g.active = h.active /\ g.ready = h.ready
         /\ g.completed = h.completed /\ g.log = h.log /\ g.stale = h.stale
         /\ g.lastSentActive = h.lastSentActive /\ g.finalizeVersion = h.finalizeVersion
         /\ g.sent = h.sent /\ g.focus = h.focus /\ g.pendingSync = h.pendingSync
<1> DEFINE version == h.version + 1
           dirty == h.globalDirty \/ h.active = "S"
           g == [h EXCEPT !.version = version, !.globalDirty = dirty]
<1>1. Bump(h) = g
  BY DEF Bump
<1>2. Sound(Bump(h))
  BY BumpFollows DEF Follows
<1> HIDE DEF version, dirty
<1>3. /\ g.version = version /\ g.out = h.out
      /\ g.results = h.results /\ g.executing = h.executing /\ g.cancelled = h.cancelled
      /\ g.tracked = h.tracked /\ g.seq = h.seq /\ g.active = h.active /\ g.ready = h.ready
      /\ g.completed = h.completed /\ g.log = h.log /\ g.stale = h.stale
      /\ g.lastSentActive = h.lastSentActive /\ g.finalizeVersion = h.finalizeVersion
      /\ g.sent = h.sent /\ g.focus = h.focus /\ g.pendingSync = h.pendingSync
  BY DEF Sound, HostState
<1> QED BY <1>1, <1>2, <1>3 DEF version

LEMMA BumpInforms ==
  ASSUME NEW d0, NEW h, NEW P, Informs(d0, h, P)
  PROVE  Informs(d0, Bump(h), P)
<1> DEFINE g == Bump(h)
<1>1. PICK d : Reached(d0, h, d, P) /\ Current(h, d)
  BY DEF Informs
<1>2. Sound(h) /\ Coherent(h) /\ h.version \in Nat /\ h.finalizeVersion \in Nat \union {None}
      /\ d \in Display
  BY <1>1 DEF Reached, Sound, HostState
<1>3. /\ Sound(g) /\ g.version = h.version + 1 /\ g.out = h.out
      /\ g.results = h.results /\ g.executing = h.executing /\ g.cancelled = h.cancelled
      /\ g.tracked = h.tracked /\ g.seq = h.seq /\ g.active = h.active /\ g.ready = h.ready
      /\ g.completed = h.completed /\ g.log = h.log
      /\ g.lastSentActive = h.lastSentActive /\ g.finalizeVersion = h.finalizeVersion
  BY <1>2, BumpIs
<1> HIDE DEF g
<1>4. Grows(g) = Grows(h)
  BY <1>3 DEF Grows
<1>5. Coherent(g)
  BY <1>2, <1>3, <1>4 DEF Coherent, None
<1>6. Near(g, d) /\ Level(g, d) /\ Listed(g, d) /\ Executes(g, d)
  BY <1>1, <1>3, <1>4 DEF Current, Near, Level, Listed, Executes
<1>7. d.active = "S" => d.version <= g.version
  BY <1>1, <1>2, <1>3 DEF Current, Display
<1>8. Current(g, d)
  BY <1>6, <1>7 DEF Current
<1>9. Informs(d0, g, P)
  BY <1>1, <1>3, <1>5, <1>6, <1>8, AsideReached DEF Informs
<1> QED BY <1>9 DEF g

(* No result grows any more. *)
Rests(h, g) ==
  /\ Sound(g) /\ ~Grows(g) /\ g.out = h.out /\ g.results = h.results
  /\ g.executing = h.executing /\ g.active = h.active /\ g.ready = h.ready
  /\ g.lastSentActive = h.lastSentActive /\ g.log = h.log
  /\ g.finalizeVersion = h.finalizeVersion /\ g.version = h.version

LEMMA RestsReached ==
  ASSUME NEW d0, NEW h, NEW d, NEW P, Reached(d0, h, d, P), NEW g, Rests(h, g)
  PROVE  /\ Reached(d0, g, d, P)
         /\ Current(h, d) => Current(g, d)
         /\ Correct(h, d) => Correct(g, d)
<1>1. Coherent(g) /\ Near(g, d)
  BY DEF Rests, Reached, Coherent, Near
<1>2. Reached(d0, g, d, P)
  BY <1>1, AsideReached DEF Rests
<1>3. Listed(h, d) => Listed(g, d)
  BY DEF Rests, Listed
<1>4. Executes(g, d) = Executes(h, d) /\ Level(g, d) = Level(h, d) /\ g.version = h.version
  BY DEF Rests, Executes, Level
<1> QED BY <1>1, <1>2, <1>3, <1>4 DEF Current, Correct

LEMMA RestsInforms ==
  ASSUME NEW d0, NEW h, NEW P, Informs(d0, h, P), NEW g, Rests(h, g)
  PROVE  Informs(d0, g, P)
BY RestsReached DEF Informs

(* Showing another source. *)
LEMMA ResumeIs ==
  ASSUME NEW h, NEW s \in Sources, Sound(h)
  PROVE  Sound(Resume(h, s)) /\ Unmoved(h, Resume(h, s)) /\ Resume(h, s).out = h.out
<1> DEFINE g == [h EXCEPT !.pendingSync = FALSE, !.syncVersion = @ + 1, !.stale = TRUE]
<1>1. Resume(h, s) \in {h, g} /\ Sound(Resume(h, s)) /\ h \in HostState
  BY Zenon, ResumeRelays DEF Resume, Relays, Sound
<1>2. Unmoved(h, g) /\ g.out = h.out
  BY <1>1 DEF Unmoved, Beside, HostState
<1> QED BY Zenon, <1>1, <1>2, UnmovedItself

Sourced(h, s) == [h EXCEPT !.active = s]

LEMMA SourcedIs ==
  ASSUME NEW h, Sound(h), NEW s \in Sources
  PROVE  LET g == Sourced(h, s) IN
         /\ Sound(g) /\ g.out = h.out /\ g.active = s
         /\ g.results = h.results /\ g.executing = h.executing /\ g.cancelled = h.cancelled
         /\ g.tracked = h.tracked /\ g.seq = h.seq /\ g.ready = h.ready
         /\ g.completed = h.completed /\ g.log = h.log /\ g.version = h.version
         /\ g.lastSentActive = h.lastSentActive /\ g.finalizeVersion = h.finalizeVersion
<1>1. Sourced(h, s) \in HostState
  BY DEF Sourced, Sound, HostState
<1>2. LET g == Sourced(h, s) IN
         /\ g.out = h.out /\ g.active = s
         /\ g.results = h.results /\ g.executing = h.executing /\ g.cancelled = h.cancelled
         /\ g.tracked = h.tracked /\ g.seq = h.seq /\ g.ready = h.ready
         /\ g.completed = h.completed /\ g.log = h.log /\ g.version = h.version
         /\ g.lastSentActive = h.lastSentActive /\ g.finalizeVersion = h.finalizeVersion
         /\ g.sent = h.sent /\ g.syncVersion = h.syncVersion
  BY DEF Sourced, Sound, HostState
<1> QED BY <1>1, <1>2 DEF Sound

LEMMA SourcedReached ==
  ASSUME NEW d0, NEW h, NEW d, NEW P, Reached(d0, h, d, P), NEW s \in Sources
  PROVE  Reached(d0, Sourced(h, s), d, P) /\ Correct(Sourced(h, s), d) = Correct(h, d)
<1> DEFINE g == Sourced(h, s)
<1>1. Sound(h)
  BY DEF Reached
<1>2. /\ Sound(g) /\ g.out = h.out
      /\ g.results = h.results /\ g.executing = h.executing /\ g.cancelled = h.cancelled
      /\ g.tracked = h.tracked /\ g.seq = h.seq /\ g.ready = h.ready
      /\ g.completed = h.completed /\ g.log = h.log /\ g.version = h.version
      /\ g.lastSentActive = h.lastSentActive /\ g.finalizeVersion = h.finalizeVersion
  BY <1>1, SourcedIs
<1> HIDE DEF g
<1>3. Grows(g) = Grows(h)
  BY <1>2 DEF Grows
<1>4. Coherent(g) /\ Near(g, d)
  BY <1>2, <1>3 DEF Reached, Coherent, Near
<1>5. Listed(g, d) = Listed(h, d) /\ Executes(g, d) = Executes(h, d)
  BY <1>2, <1>3 DEF Listed, Executes
<1>6. Correct(g, d) = Correct(h, d)
  BY <1>2, <1>5 DEF Correct
<1>7. Reached(d0, g, d, P)
  BY <1>2, <1>4, AsideReached
<1> QED BY <1>6, <1>7 DEF g

LEMMA SwitchInforms ==
  ASSUME NEW d0, NEW h, NEW d, NEW P, Reached(d0, h, d, P), NEW s \in Sources, h.active # s,
         Current(Sourced(h, s), d) \/ (Correct(h, d) /\ ~Stable(Sourced(h, s)))
  PROVE  Informs(d0, SetActiveSource(h, s), P)
<1> DEFINE a == Sourced(h, s)
           b == UpdateView(a)
           c == Resume(b, s)
           e == Post(c, ActiveSourceMsg(c))
<1>1. SetActiveSource(h, s) = UpdateView(e)
  BY DEF SetActiveSource, Sourced
<1>2. Reached(d0, a, d, P) /\ Correct(a, d) /\ (Current(a, d) \/ ~Stable(a))
  BY SourcedReached, CurrentIsCorrect
<1> HIDE DEF a
<1>3. Informs(d0, b, P) /\ Sound(b)
  <2>1. PICK f : Reached(d0, b, f, P) /\ Refreshes(a, d, b, f)
    BY <1>2, UpdateViewRefreshes
  <2> QED BY <1>2, <2>1 DEF Refreshes, Informs, Reached
<1> HIDE DEF b
<1>4. Informs(d0, c, P)
  BY <1>3, ResumeIs, UnmovedInforms
<1> HIDE DEF c
<1>5. Informs(d0, e, P)
  BY <1>4, PostActiveInforms
<1> QED BY <1>1, <1>5, UpdateViewInforms

LEMMA SwitchEditorInforms ==
  ASSUME NEW d0, NEW h, Steady(h), NEW P, Informs(d0, h, P), NEW s \in Sources \ {h.focus}
  PROVE  Informs(d0, SetActiveSource([h EXCEPT !.focus = s], s), P)
<1> DEFINE g == [h EXCEPT !.focus = s]
<1>1. h \in HostState /\ Sound(h)
  BY DEF Steady, Apt, Sound
<1>2. g \in HostState /\ g.sent = h.sent /\ g.syncVersion = h.syncVersion /\ g.out = h.out
      /\ Unmoved(h, g) /\ g.active = h.active
  BY Zenon, <1>1 DEF HostState, Unmoved, Beside
<1>3. Sound(g)
  BY <1>1, <1>2 DEF Sound, Unmoved, Beside
<1> HIDE DEF g
<1>4. Informs(d0, g, P)
  BY <1>2, <1>3, UnmovedInforms
<1>5. PICK d : Reached(d0, g, d, P) /\ Current(g, d)
  BY <1>4 DEF Informs
<1>6. g.active # s
  BY <1>2 DEF Steady
<1>7. Current(Sourced(g, s), d) \/ ~Stable(Sourced(g, s))
  <2> DEFINE k == Sourced(g, s)
  <2>1. k.active = s /\ k.lastSentActive = g.lastSentActive
    BY <1>3, SourcedIs
  <2>2. SUFFICES ASSUME Stable(k) PROVE Current(k, d)
    OBVIOUS
  <2>3. s = "S" /\ g.lastSentActive = "S"
    BY <2>1, <2>2 DEF Stable
  <2>4. d.active = NoSource
    BY <1>5, <1>6, <2>3 DEF Current, Near, Level
  <2> QED BY <2>4 DEF Current, Near, Level, Listed, Executes, NoSource
<1>8. Informs(d0, SetActiveSource(g, s), P)
  BY <1>5, <1>6, <1>7, CurrentIsCorrect, SwitchInforms
<1> QED BY <1>8 DEF g

(* While the host shows what the editor has, an update only refreshes.     *)
LEMMA SteadyUpdate ==
  ASSUME NEW h, Steady(h)
  PROVE  UpdateWebview(h) = UpdateView(h)
BY SteadyFollowsEditor DEF UpdateWebview

LEMMA ResultSyncRequestInforms ==
  ASSUME NEW d0, NEW h, Steady(h), NEW P, Informs(d0, h, P)
  PROVE  Informs(d0, ResultSyncRequest(h), P)
<1>1. h \in HostState /\ Sound(h)
  BY DEF Steady, Apt, Sound
<1>2. CASE h.active # "S"
  <2> DEFINE g == [h EXCEPT !.pendingSync = TRUE]
  <2>1. ResultSyncRequest(h) = g
    BY <1>2 DEF ResultSyncRequest
  <2>2. Sound(ResultSyncRequest(h))
    BY <1>1, ResultSyncRequestRelays DEF Relays
  <2>3. Unmoved(h, g) /\ g.out = h.out
    BY <1>1 DEF Unmoved, Beside, HostState
  <2> QED BY Zenon, <2>1, <2>2, <2>3, UnmovedInforms
<1>3. CASE h.active = "S"
  <2> DEFINE g == Synced(h)
  <2>1. ResultSyncRequest(h) = UpdateWebview(g)
    BY <1>3 DEF ResultSyncRequest, Synced
  <2>2. Sound(g) /\ g.focus = h.focus /\ g.active = h.active /\ ~g.pendingSync /\ g.out = h.out
    BY <1>1, SyncedIsSound
  <2>3. Unmoved(h, g)
    BY <1>1 DEF Synced, Unmoved, Beside, HostState
  <2> HIDE DEF g
  <2>4. Steady(g)
    BY <2>2 DEF Steady, Apt
  <2> QED BY <2>1, <2>2, <2>3, <2>4, SteadyUpdate, UnmovedInforms, UpdateViewInforms
<1> QED BY <1>2, <1>3

(* The page says that it is ready: it gets a hydrate. *)
LEMMA ViewReadyInforms ==
  ASSUME NEW d0, NEW h, Steady(h), NEW P, Informs(d0, h, P)
  PROVE  \E d : /\ Reached(d0, ViewReady(h), d, P) /\ Current(ViewReady(h), d)
                /\ d.active # NoSource
<1> DEFINE stale == h.stale \/ h.log
           g == [h EXCEPT !.ready = TRUE, !.stale = stale]
<1>1. h \in HostState /\ Sound(h)
  BY DEF Steady, Apt, Sound
<1>2. ViewReady(h) = UpdateWebview(g)
  BY <1>1 DEF ViewReady, ForceHydrate, HostState
<1>3. stale \in BOOLEAN
  BY <1>1 DEF HostState
<1> HIDE DEF stale
<1>4. /\ g \in HostState /\ g.ready = TRUE /\ g.stale = stale /\ g.sent = h.sent
      /\ g.version = h.version /\ g.syncVersion = h.syncVersion /\ g.out = h.out
      /\ g.focus = h.focus /\ g.active = h.active /\ g.pendingSync = h.pendingSync
      /\ g.results = h.results /\ g.executing = h.executing /\ g.cancelled = h.cancelled
      /\ g.tracked = h.tracked /\ g.seq = h.seq /\ g.completed = h.completed /\ g.log = h.log
      /\ g.lastSentActive = h.lastSentActive /\ g.finalizeVersion = h.finalizeVersion
  BY Zenon, <1>1, <1>3 DEF HostState
<1> HIDE DEF g
<1>5. Sound(g)
  BY <1>1, <1>4 DEF Sound
<1>6. Steady(g)
  BY <1>4, <1>5 DEF Steady, Apt
<1>7. PICK d : Reached(d0, h, d, P) /\ Current(h, d)
  BY DEF Informs
<1>8. Grows(g) = Grows(h)
  BY <1>4 DEF Grows
<1>9. Coherent(g) /\ Near(g, d)
  BY <1>4, <1>7, <1>8 DEF Reached, Coherent, Near
<1>10. Reached(d0, g, d, P)
  BY <1>4, <1>5, <1>7, <1>9, AsideReached
<1>11. Current(g, d)
  BY <1>4, <1>7, <1>8, <1>9 DEF Current, Level, Listed, Executes
<1>12. ~Stable(g)
  BY Zenon, <1>4, <1>9 DEF Stable, Coherent, stale
<1>13. PICK e : Reached(d0, UpdateView(g), e, P) /\ Refreshes(g, d, UpdateView(g), e)
  BY <1>10, <1>11, CurrentIsCorrect, UpdateViewRefreshes
<1> QED BY <1>2, <1>4, <1>6, <1>11, <1>12, <1>13, SteadyUpdate DEF Refreshes

(* What the run is, or has, is another: no version shown is as new.        *)
Reruns(h, g) ==
  /\ Sound(g) /\ ~Grows(g) /\ g.out = h.out /\ g.ready = h.ready
  /\ g.lastSentActive = h.lastSentActive /\ (h.log => g.log)
  /\ g.finalizeVersion = h.finalizeVersion /\ g.sent = h.sent /\ g.version = h.version + 1

LEMMA RerunsReached ==
  ASSUME NEW d0, NEW h, NEW d, NEW P, Reached(d0, h, d, P), Correct(h, d), NEW g, Reruns(h, g)
  PROVE  Reached(d0, g, d, P) /\ Correct(g, d) /\ Bumped(g)
<1>1. /\ Sound(h) /\ Coherent(h) /\ h.version \in Nat /\ h.sent \in Nat /\ h.sent <= h.version
      /\ h.finalizeVersion \in Nat \union {None} /\ d \in Display
  BY DEF Reached, Sound, HostState
<1>2. Bumped(g)
  BY <1>1 DEF Coherent, Bumped, Reruns, None
<1>3. Coherent(g) /\ Near(g, d)
  BY <1>1, <1>2 DEF Coherent, Reruns, Near, Reached, Bumped, None
<1>4. Reached(d0, g, d, P)
  BY <1>3, AsideReached DEF Reruns
<1>5. d.active = "S" => d.version < g.version
  BY <1>1 DEF Correct, Reruns, Display
<1>6. d.active = "S" => d.version <= g.version /\ d.version # g.version
  BY <1>1, <1>5 DEF Reruns, Display
<1> QED BY <1>2, <1>4, <1>6 DEF Correct

LEMMA PostLogInforms ==
  ASSUME NEW d0, NEW h, NEW P, Informs(d0, h, P), h.active = "S"
  PROVE  Informs(d0, Post(h, [type |-> "log"]), P)
<1> DEFINE m == [type |-> "log"]
<1>1. PICK d : Reached(d0, h, d, P) /\ Current(h, d)
  BY DEF Informs
<1>2. h \in HostState /\ d \in Display /\ Patient(d, P)
  BY <1>1 DEF Reached, Sound
<1>3. m \in ToView /\ m.type = "log"
  BY DEF ToView
<1> HIDE DEF m
<1>4. ~IsSync(m)
  BY <1>3 DEF IsSync
<1>5. d.active # "O"
  BY <1>1 DEF Current, Level, NoSource
<1>6. SameRows(d, d) /\ StaysOpen(d, d)
  BY DEF SameRows, StaysOpen
<1>7. Leads(d, m, d)
  BY <1>3, <1>5, <1>6 DEF Leads
<1>8. Reached(d0, Post(h, m), d, P) /\ Unmoved(h, Post(h, m))
  BY <1>1, <1>2, <1>3, <1>4, <1>7, PostReached
<1>9. Current(Post(h, m), d)
  BY <1>1, <1>2, <1>8, UnmovedKeeps
<1> QED BY <1>8, <1>9 DEF Informs, m

Forgotten(h, n) == [h EXCEPT !.completed = FALSE, !.tracked = n, !.seq = n]

LEMMA ForgottenRests ==
  ASSUME NEW h, Sound(h), NEW n \in {None, 0}
  PROVE  Rests(h, Forgotten(h, n))
<1>1. h \in HostState /\ n \in Nat \union {None} /\ ~(n > 0)
  BY DEF Sound, None
<1> DEFINE g == Forgotten(h, n)
<1>2. /\ g \in HostState /\ g.tracked = n /\ g.out = h.out /\ g.results = h.results
      /\ g.executing = h.executing /\ g.active = h.active /\ g.ready = h.ready
      /\ g.lastSentActive = h.lastSentActive /\ g.log = h.log
      /\ g.finalizeVersion = h.finalizeVersion /\ g.version = h.version
      /\ g.sent = h.sent /\ g.syncVersion = h.syncVersion
  BY Zenon, <1>1 DEF Forgotten, HostState
<1> HIDE DEF g
<1>3. Sound(g) /\ ~Grows(g)
  BY <1>1, <1>2 DEF Sound, Grows
<1>4. Rests(h, g)
  BY <1>2, <1>3 DEF Rests
<1> QED BY <1>4 DEF g

LEMMA LogExecutionStartInforms ==
  ASSUME NEW d0, NEW h, Steady(h), NEW P, Informs(d0, h, P)
  PROVE  Informs(d0, LogExecutionStart(h), P)
<1> DEFINE f == Forgotten(h, None)
           t == IF h.completed /\ h.active = "S" THEN Post(f, ActiveSourceMsg(f)) ELSE f
           g == Bump(t)
<1>1. Sound(h) /\ FollowEditor(h) = h
  BY SteadyFollowsEditor DEF Steady, Apt
<1>2. LogExecutionStart(h) = IF h.active = "S" THEN Post(g, [type |-> "log"]) ELSE g
  BY <1>1 DEF LogExecutionStart, Forgotten
<1>3. Informs(d0, f, P) /\ f.active = h.active
  BY <1>1, ForgottenRests, RestsInforms DEF Rests
<1> HIDE DEF f
<1>4. Informs(d0, t, P) /\ t.active = h.active
  BY <1>3, PostActiveInforms DEF Unmoved, Beside
<1> HIDE DEF t
<1>5. Sound(t)
  BY <1>4 DEF Informs, Reached
<1>6. Informs(d0, g, P) /\ g.active = h.active
  BY <1>4, <1>5, BumpInforms, BumpIs
<1> QED BY <1>2, <1>6, PostLogInforms

LEMMA FinalizeExecutionInforms ==
  ASSUME NEW d0, NEW h, Steady(h), NEW P, Informs(d0, h, P)
  PROVE  Informs(d0, FinalizeExecution(h), P)
<1> DEFINE f == [h EXCEPT !.tracked = None, !.seq = None, !.executing = FALSE]
           g == Bump(f)
<1>1. h \in HostState /\ Sound(h)
  BY DEF Steady, Apt, Sound
<1>2. /\ f \in HostState /\ f.tracked = None /\ f.out = h.out /\ f.results = h.results
      /\ f.active = h.active /\ f.ready = h.ready /\ f.focus = h.focus
      /\ f.lastSentActive = h.lastSentActive /\ f.log = h.log /\ f.pendingSync = h.pendingSync
      /\ f.finalizeVersion = h.finalizeVersion /\ f.version = h.version
      /\ f.sent = h.sent /\ f.syncVersion = h.syncVersion
  BY Zenon, <1>1 DEF HostState
<1>3. FinalizeExecution(h) = UpdateWebview(UpdateWebview(g))
  BY DEF FinalizeExecution
<1> HIDE DEF f
<1>4. Sound(f)
  BY <1>1, <1>2 DEF Sound
<1>5. /\ Sound(g) /\ g.version = f.version + 1 /\ g.out = f.out /\ g.results = f.results
      /\ g.tracked = f.tracked /\ g.active = f.active /\ g.ready = f.ready /\ g.log = f.log
      /\ g.lastSentActive = f.lastSentActive /\ g.finalizeVersion = f.finalizeVersion
      /\ g.sent = f.sent /\ g.focus = f.focus /\ g.pendingSync = f.pendingSync
  BY <1>4, BumpIs
<1> HIDE DEF g
<1>6. Steady(g)
  BY <1>2, <1>5 DEF Steady, Apt
<1>7. ~Grows(g)
  BY <1>2, <1>5 DEF Grows, None
<1>8. Reruns(h, g)
  BY <1>2, <1>5, <1>7 DEF Reruns
<1>9. PICK d : Reached(d0, h, d, P) /\ Current(h, d)
  BY DEF Informs
<1>10. Reached(d0, g, d, P) /\ Correct(g, d) /\ Bumped(g)
  BY <1>8, <1>9, CurrentIsCorrect, RerunsReached
<1>11. Listed(g, d)
  BY <1>2, <1>5, <1>7, <1>9 DEF Current, Listed
<1>12. PICK e : Reached(d0, UpdateView(g), e, P) /\ Refreshes(g, d, UpdateView(g), e)
  BY <1>10, UpdateViewRefreshes
<1>13. Informs(d0, UpdateWebview(g), P)
  BY <1>6, <1>10, <1>11, <1>12, SteadyUpdate DEF Refreshes, Informs
<1>14. Steady(UpdateWebview(g))
  BY <1>6, UpdateWebviewSettles DEF Steady
<1> QED BY <1>3, <1>13, <1>14, SteadyUpdate, UpdateViewInforms

(* A run that starts: if the source has results to drop, or had never been *)
(* shown, the page gets a hydrate.                                         *)
Launched(h, keep) ==
  [h EXCEPT !.executing = TRUE, !.cancelled = FALSE, !.completed = FALSE,
            !.results = IF keep THEN @ ELSE << >>, !.log = TRUE, !.active = "S"]

LEMMA LaunchedIs ==
  ASSUME NEW h, Steady(h), ~(h.tracked > 0), NEW keep \in BOOLEAN
  PROVE  LET g == Bump(Launched(h, keep)) IN
         /\ Reruns(h, g) /\ g.active = "S" /\ Apt(g) /\ g.focus = h.focus /\ g.log = TRUE
         /\ g.tracked = h.tracked
         /\ keep \/ h.results = << >> => g.results = h.results
<1> DEFINE rs == IF keep THEN h.results ELSE << >>
           f == Launched(h, keep)
           g == Bump(f)
<1>1. h \in HostState /\ Sound(h)
  BY DEF Steady, Apt, Sound
<1>2. rs \in Seq(HostResults)
  BY <1>1, NoResults DEF HostState
<1>3. f = [h EXCEPT !.executing = TRUE, !.cancelled = FALSE, !.completed = FALSE,
                    !.results = rs, !.log = TRUE, !.active = "S"]
  BY <1>1 DEF Launched, HostState
<1> HIDE DEF rs, f
<1>4. /\ f \in HostState /\ f.tracked = h.tracked /\ f.out = h.out /\ f.results = rs
      /\ f.active = "S" /\ f.ready = h.ready /\ f.focus = h.focus
      /\ f.lastSentActive = h.lastSentActive /\ f.log = TRUE /\ f.pendingSync = h.pendingSync
      /\ f.finalizeVersion = h.finalizeVersion /\ f.version = h.version
      /\ f.sent = h.sent /\ f.syncVersion = h.syncVersion
  BY Zenon, <1>1, <1>2, <1>3 DEF HostState, Sources
<1>5. Sound(f)
  BY <1>1, <1>4 DEF Sound
<1>6. /\ Sound(g) /\ g.version = f.version + 1 /\ g.out = f.out /\ g.results = f.results
      /\ g.tracked = f.tracked /\ g.active = f.active /\ g.ready = f.ready /\ g.log = f.log
      /\ g.lastSentActive = f.lastSentActive /\ g.finalizeVersion = f.finalizeVersion
      /\ g.sent = f.sent /\ g.focus = f.focus /\ g.pendingSync = f.pendingSync
  BY <1>5, BumpIs
<1> HIDE DEF g
<1>7. Reruns(h, g)
  BY <1>4, <1>6 DEF Reruns, Grows
<1>8. Apt(g)
  BY <1>4, <1>6 DEF Apt, Steady
<1>9. keep \/ h.results = << >> => g.results = h.results
  BY <1>4, <1>6 DEF rs
<1> QED BY <1>4, <1>6, <1>7, <1>8, <1>9 DEF f, g

Emptied(h, stale) == [h EXCEPT !.tracked = None, !.seq = None, !.stale = stale]

LEMMA EmptiedIs ==
  ASSUME NEW h, Steady(h), NEW stale \in BOOLEAN
  PROVE  LET g == Emptied(h, stale) IN Rests(h, g) /\ Steady(g) /\ g.stale = stale
<1> DEFINE g == Emptied(h, stale)
<1>1. h \in HostState /\ Sound(h)
  BY DEF Steady, Apt, Sound
<1>2. /\ g \in HostState /\ g.tracked = None /\ g.out = h.out /\ g.results = h.results
      /\ g.executing = h.executing /\ g.active = h.active /\ g.ready = h.ready
      /\ g.lastSentActive = h.lastSentActive /\ g.log = h.log
      /\ g.finalizeVersion = h.finalizeVersion /\ g.version = h.version
      /\ g.sent = h.sent /\ g.syncVersion = h.syncVersion
      /\ g.focus = h.focus /\ g.pendingSync = h.pendingSync /\ g.stale = stale
  BY Zenon, <1>1 DEF Emptied, HostState
<1> HIDE DEF g
<1>3. Sound(g) /\ ~Grows(g)
  BY <1>1, <1>2 DEF Sound, Grows, None
<1>4. Rests(h, g)
  BY <1>2, <1>3 DEF Rests
<1>5. Steady(g)
  BY <1>2, <1>3 DEF Steady, Apt
<1> QED BY <1>2, <1>4, <1>5 DEF g

LEMMA StartExecutionInforms ==
  ASSUME NEW d0, NEW h, Steady(h), NEW P, Informs(d0, h, P), ~(h.tracked > 0), NEW keep \in BOOLEAN
  PROVE  Informs(d0, StartExecution(h, keep), P)
<1> DEFINE k == Bump(Launched(h, keep))
           g == UpdateWebview(k)
           kept == keep \/ h.results = << >>
           stale == g.stale \/ ~kept \/ ~h.log
           f == Emptied(g, stale)
<1>1. h \in HostState /\ Sound(h)
  BY DEF Steady, Apt, Sound
<1>2. StartExecution(h, keep) = UpdateWebview(f)
  BY Zenon DEF StartExecution, Launched, Emptied
<1>3. /\ Reruns(h, k) /\ k.active = "S" /\ Apt(k) /\ k.focus = h.focus /\ k.log = TRUE
      /\ k.tracked = h.tracked
      /\ keep \/ h.results = << >> => k.results = h.results
  BY Zenon, LaunchedIs
<1>4. PICK d : Reached(d0, h, d, P) /\ Current(h, d)
  BY DEF Informs
<1> HIDE DEF k
<1>5. Reached(d0, k, d, P) /\ Correct(k, d) /\ Bumped(k)
  BY <1>3, <1>4, CurrentIsCorrect, RerunsReached
<1>6. Steady(g)
  BY <1>3, UpdateWebviewSettles
<1>7. \E e : Reached(d0, g, e, P) /\ Correct(g, e) /\ (kept => Current(g, e))
  <2>1. CASE h.focus = "S"
    <3>1. Steady(k)
      BY <1>3, <2>1 DEF Steady
    <3>2. PICK e : Reached(d0, g, e, P) /\ Refreshes(k, d, g, e)
      BY <1>5, <3>1, SteadyUpdate, UpdateViewRefreshes
    <3>3. kept => Listed(k, d)
      BY <1>3, <1>4 DEF Current, Listed, Reruns
    <3> QED BY <1>5, <3>2, <3>3 DEF Refreshes
  <2>2. CASE h.focus # "S"
    <3>1. h.focus = "O" /\ h.active = "O"
      BY <1>1, <2>2 DEF HostState, Sources, Steady
    <3>2. d.active # "S"
      BY <1>4, <3>1 DEF Current, Level, NoSource
    <3> DEFINE o == Sourced(k, "O")
    <3>3. o.active = "O" /\ Reached(d0, o, d, P)
      BY <1>3, <1>5, SourcedIs, SourcedReached DEF Reruns, Sources
    <3>4. Level(o, d)
      BY <1>4, <3>1, <3>3 DEF Current, Level
    <3>5. Current(o, d)
      BY <3>2, <3>3, <3>4 DEF Current, Listed, Executes, Reached
    <3>6. Informs(d0, SetActiveSource(k, "O"), P)
      BY <1>3, <1>5, <3>5, SwitchInforms DEF Sources
    <3>7. Informs(d0, g, P)
      BY <1>3, <3>1, <3>6, UpdateViewInforms DEF UpdateWebview, FollowEditor
    <3> QED BY <3>7, CurrentIsCorrect DEF Informs
  <2> QED BY <2>1, <2>2
<1> HIDE DEF g
<1>8. stale \in BOOLEAN
  BY <1>1, <1>6 DEF Steady, Apt, Sound, HostState
<1>9. Rests(g, f) /\ Steady(f) /\ f.stale = stale
  BY Zenon, <1>6, <1>8, EmptiedIs
<1> HIDE DEF f
<1>10. PICK e : Reached(d0, g, e, P) /\ Correct(g, e) /\ (kept => Current(g, e))
  BY <1>7
<1>11. Reached(d0, f, e, P) /\ Correct(f, e) /\ (kept => Current(f, e))
  BY <1>9, <1>10, RestsReached
<1>12. ~kept => ~Stable(f)
  BY Zenon, <1>9 DEF Stable
<1>13. PICK i : Reached(d0, UpdateView(f), i, P) /\ Refreshes(f, e, UpdateView(f), i)
  BY <1>11, UpdateViewRefreshes
<1> QED BY <1>2, <1>9, <1>11, <1>12, <1>13, SteadyUpdate DEF Refreshes, Informs

(* A cancellation: the page cancels what it shows as well.                 *)
LEMMA CutShorter ==
  ASSUME NEW rows \in Seq(Row), NEW n \in Nat
  PROVE  Len(CutTo(rows, n)) <= n
<1> DEFINE m == IF n < Len(rows) THEN n ELSE Len(rows)
<1>1. m \in Nat /\ m <= Len(rows) /\ m <= n
  OBVIOUS
<1> HIDE DEF m
<1>2. Len(SubSeq(rows, 1, m)) = m
  BY <1>1
<1> QED BY <1>1, <1>2 DEF CutTo, m

LEMMA CutResultsMore ==
  ASSUME NEW h \in HostState, NEW counts \in Seq(Nat), NEW i \in DOMAIN h.results
  PROVE  LET cut == CutResults(h, counts) IN
         /\ cut[i].cancelled = TRUE /\ cut[i].id = h.results[i].id
         /\ Len(cut[i].rows) \in Nat /\ Len(cut[i].rows) <= Len(h.results[i].rows)
         /\ i \in DOMAIN counts => Len(cut[i].rows) <= counts[i]
<1> DEFINE rows == IF i \in DOMAIN counts THEN CutTo(h.results[i].rows, counts[i])
                   ELSE h.results[i].rows
           r == [h.results[i] EXCEPT !.cancelled = TRUE, !.rows = rows]
           cut == CutResults(h, counts)
<1>1. h.results[i] \in HostResults
  BY DEF HostState
<1>2. h.results[i].rows \in Seq(Row)
  BY <1>1 DEF HostResults
<1>3. i \in DOMAIN counts => Len(rows) <= counts[i]
  BY <1>2, CutShorter
<1>4. cut[i] = r
  BY Zenon, <1>1 DEF CutResults, HostResults
<1> HIDE DEF rows, cut
<1>5. cut[i].cancelled = TRUE /\ cut[i].rows = rows
  BY <1>1, <1>4 DEF HostResults
<1>6. cut \in Seq(HostResults) /\ AllShortened(h.results, cut)
  BY CutResultsIs DEF cut
<1>7. cut[i].id = h.results[i].id /\ Len(cut[i].rows) <= Len(h.results[i].rows)
      /\ cut[i].rows \in Seq(Row)
  BY <1>6 DEF AllShortened, Shortened
<1> QED BY <1>3, <1>5, <1>7 DEF cut

(* Any cancellation of the user is this one or still to come. *)
Answered(P, counts, Q) ==
  \A i, cap : Pending(P, i, cap) =>
                (i \in DOMAIN counts /\ counts[i] <= cap) \/ Pending(Q, i, cap)

LEMMA CutTrims ==
  ASSUME NEW h \in HostState, NEW d \in Display, Listed(h, d), NEW P, Patient(d, P),
         NEW counts \in Seq(Nat), NEW Q, Answered(P, counts, Q),
         NEW g, g.results = CutResults(h, counts)
  PROVE  Trims(g, d, Q)
<1>1. SUFFICES ASSUME d.active = "S" PROVE Trims(g, d, Q)
  BY DEF Trims
<1>2. Lists(h.results, d.results) /\ d.results \in Seq(Tab) /\ h.results \in Seq(HostResults)
  BY <1>1 DEF Listed, Display, HostState
<1>3. DOMAIN g.results = DOMAIN d.results
  BY <1>2, CutResultsIs DEF AllShortened, Lists
<1>4. ASSUME NEW i \in DOMAIN d.results
      PROVE  LET t == d.results[i]
                 n == Len(g.results[i].rows) IN
             /\ t.id = g.results[i].id /\ n <= t.count
             /\ t.cap # None => n <= t.cap \/ Pending(Q, i, t.cap)
  <2> DEFINE t == d.results[i]
             n == Len(g.results[i].rows)
  <2>1. i \in DOMAIN h.results /\ t \in Tab
    BY <1>2 DEF Lists
  <2>2. t.cap \in Nat \union {None} /\ t.count \in Nat
    BY <2>1 DEF Tab
  <2>3. /\ n \in Nat /\ g.results[i].id = h.results[i].id /\ n <= Len(h.results[i].rows)
        /\ i \in DOMAIN counts => n <= counts[i]
    BY Zenon, <2>1, CutResultsMore
  <2>4. t.id = h.results[i].id /\ t.count = Len(h.results[i].rows)
    BY <1>2, <2>1 DEF Lists
  <2>5. t.cap # None => t.count <= t.cap \/ Pending(P, i, t.cap)
    BY <1>1 DEF Patient
  <2>6. i \in DOMAIN counts => counts[i] \in Nat
    OBVIOUS
  <2>7. t.cap # None => \/ t.count <= t.cap \/ (i \in DOMAIN counts /\ counts[i] <= t.cap)
                        \/ Pending(Q, i, t.cap)
    BY <2>5 DEF Answered
  <2> HIDE DEF t, n
  <2>8. t.cap # None => n <= t.cap \/ Pending(Q, i, t.cap)
    BY <2>2, <2>3, <2>4, <2>6, <2>7 DEF None
  <2> QED BY <2>3, <2>4, <2>8 DEF t, n
<1> QED BY <1>1, <1>3, <1>4 DEF Trims

StopTab(t, n) == [id |-> t.id, count |-> n, cancelled |-> TRUE, cap |-> t.cap]
Stopped(h, d) ==
  IF d.active = "S"
  THEN [d EXCEPT !.executing = FALSE, !.halt = FALSE, !.open = FALSE,
                 !.results = [i \in DOMAIN d.results |->
                                StopTab(d.results[i], Len(h.results[i].rows))]]
  ELSE d

LEMMA StoppedIs ==
  ASSUME NEW h \in HostState, NEW d \in Display, NEW Q, Trims(h, d, Q),
         \A i \in DOMAIN h.results : h.results[i].cancelled = TRUE
  PROVE  LET e == Stopped(h, d) IN
         /\ e \in Display /\ e.active = d.active /\ Patient(e, Q)
         /\ d.active = "S" => /\ e.executing = FALSE /\ e.version = d.version
                              /\ Lists(h.results, e.results) /\ Halts(d, e)
         /\ d.active # "S" => e = d
<1> DEFINE e == Stopped(h, d)
           rs == [i \in DOMAIN d.results |-> StopTab(d.results[i], Len(h.results[i].rows))]
           f == [d EXCEPT !.executing = FALSE, !.halt = FALSE, !.open = FALSE, !.results = rs]
<1>1. CASE d.active # "S"
  BY <1>1 DEF Stopped, Patient
<1>2. CASE d.active = "S"
  <2>1. /\ d.results \in Seq(Tab) /\ h.results \in Seq(HostResults)
        /\ DOMAIN d.results = 1 .. Len(d.results) /\ Len(d.results) \in Nat
        /\ DOMAIN h.results = DOMAIN d.results
    BY <1>2 DEF Display, HostState, Trims
  <2>2. ASSUME NEW i \in DOMAIN d.results
        PROVE  LET t == StopTab(d.results[i], Len(h.results[i].rows)) IN
               /\ t \in Tab /\ t.id = h.results[i].id /\ t.count = Len(h.results[i].rows)
               /\ t.cancelled = TRUE /\ t.cap = d.results[i].cap /\ t.id = d.results[i].id
               /\ t.count <= d.results[i].count
               /\ t.cap # None => t.count <= t.cap \/ Pending(Q, i, t.cap)
    <3>1. d.results[i] \in Tab /\ h.results[i] \in HostResults
      BY <2>1
    <3>2. d.results[i].id \in Nat /\ d.results[i].cap \in Nat \union {None}
          /\ Len(h.results[i].rows) \in Nat
      BY <3>1 DEF Tab, HostResults
    <3>3. LET t == d.results[i] IN
            /\ t.id = h.results[i].id /\ Len(h.results[i].rows) <= t.count
            /\ t.cap # None => Len(h.results[i].rows) <= t.cap \/ Pending(Q, i, t.cap)
      BY <1>2 DEF Trims
    <3> QED BY <3>2, <3>3 DEF StopTab, Tab
  <2> HIDE DEF StopTab
  <2>3. rs \in Seq(Tab) /\ DOMAIN rs = DOMAIN d.results /\ Len(rs) = Len(d.results)
    <3>1. rs \in [1 .. Len(d.results) -> Tab]
      BY Zenon, <2>1, <2>2
    <3> QED BY <2>1, <3>1, FunctionIsSeq
  <2>4. \A i \in DOMAIN d.results : rs[i] = StopTab(d.results[i], Len(h.results[i].rows))
    OBVIOUS
  <2>5. Lists(h.results, rs)
    BY Zenon, <1>2, <2>1, <2>2, <2>3, <2>4 DEF Lists
  <2> HIDE DEF rs
  <2>6. /\ f \in Display /\ f.active = d.active /\ f.executing = FALSE /\ f.halt = FALSE
        /\ f.open = FALSE /\ f.results = rs /\ f.version = d.version
    BY Zenon, <2>3 DEF Display
  <2>7. e = f
    BY <1>2 DEF Stopped, rs
  <2> HIDE DEF e, f
  <2>8. Halts(d, e)
    BY Zenon, <2>2, <2>3, <2>4, <2>6, <2>7 DEF Halts
  <2>9. Patient(e, Q)
    BY ZenonT(30), <2>2, <2>3, <2>4, <2>6, <2>7 DEF Patient
  <2> QED BY <1>2, <2>5, <2>6, <2>7, <2>8, <2>9 DEF e
<1> QED BY Zenon, <1>1, <1>2

LEMMA CancelExecutionInforms ==
  ASSUME NEW d0, NEW h, Steady(h), NEW P, Informs(d0, h, P), NEW counts \in Seq(Nat),
         NEW Q, Answered(P, counts, Q)
  PROVE  Informs(d0, CancelExecution(h, counts), Q)
<1> DEFINE cut == CutResults(h, counts)
           begun == [h EXCEPT !.executing = FALSE, !.cancelled = TRUE, !.results = cut]
           k == Bump(begun)
           stopped == UpdateWebview(k)
           unnumbered == [stopped EXCEPT !.seq = None]
           shown == UpdateWebview(unnumbered)
           m == [type |-> "cancelExecution"]
           g == Post(shown, m)
<1>1. h \in HostState /\ Sound(h) /\ h.results \in Seq(HostResults)
  BY DEF Steady, Apt, Sound, HostState
<1>2. CancelExecution(h, counts) = g
  BY DEF CancelExecution, CutResults
<1>3. cut \in Seq(HostResults) /\ \A i \in DOMAIN cut : cut[i].cancelled = TRUE
  BY Zenon, <1>1, CutResultsIs, CutResultsMore DEF AllShortened
<1> HIDE DEF cut
<1>4. /\ begun \in HostState /\ begun.out = h.out /\ begun.results = cut
      /\ begun.executing = FALSE /\ begun.cancelled = TRUE
      /\ begun.active = h.active /\ begun.ready = h.ready /\ begun.focus = h.focus
      /\ begun.lastSentActive = h.lastSentActive /\ begun.log = h.log
      /\ begun.pendingSync = h.pendingSync
      /\ begun.finalizeVersion = h.finalizeVersion /\ begun.version = h.version
      /\ begun.sent = h.sent /\ begun.syncVersion = h.syncVersion
  BY Zenon, <1>1, <1>3 DEF HostState
<1> HIDE DEF begun
<1>5. Sound(begun)
  BY <1>1, <1>4 DEF Sound
<1>6. /\ Sound(k) /\ k.version = begun.version + 1 /\ k.out = begun.out
      /\ k.results = begun.results /\ k.cancelled = begun.cancelled
      /\ k.executing = begun.executing
      /\ k.active = begun.active /\ k.ready = begun.ready /\ k.log = begun.log
      /\ k.lastSentActive = begun.lastSentActive /\ k.finalizeVersion = begun.finalizeVersion
      /\ k.sent = begun.sent /\ k.focus = begun.focus /\ k.pendingSync = begun.pendingSync
  BY <1>5, BumpIs
<1> HIDE DEF k
<1>7. Reruns(h, k) /\ Steady(k)
  BY <1>4, <1>6 DEF Reruns, Grows, Steady, Apt
<1>8. PICK d : Reached(d0, h, d, P) /\ Current(h, d)
  BY DEF Informs
<1>9. Reached(d0, k, d, P) /\ Correct(k, d) /\ Level(k, d) /\ d \in Display
  BY <1>4, <1>6, <1>7, <1>8, CurrentIsCorrect, RerunsReached DEF Current, Level, Reached
<1>10. Trims(k, d, Q)
  BY <1>1, <1>4, <1>6, <1>8, <1>9, CutTrims DEF cut, Current, Reached
<1>11. Steady(stopped) /\ stopped = UpdateView(k)
  BY <1>7, SteadyUpdate, UpdateWebviewSettles DEF Steady
<1>12. PICK e : Reached(d0, stopped, e, P) /\ Refreshes(k, d, stopped, e)
  BY <1>9, <1>11, UpdateViewRefreshes
<1>13. Correct(stopped, e) /\ Level(stopped, e) /\ Trims(stopped, e, Q) /\ Beside(k, stopped)
  BY <1>9, <1>10, <1>12 DEF Refreshes
<1>14. stopped \in HostState
  BY <1>12 DEF Reached, Sound
<1> HIDE DEF stopped
<1>15. /\ unnumbered \in HostState /\ unnumbered.out = stopped.out
       /\ unnumbered.results = stopped.results /\ unnumbered.executing = stopped.executing
       /\ unnumbered.active = stopped.active /\ unnumbered.ready = stopped.ready
       /\ unnumbered.lastSentActive = stopped.lastSentActive /\ unnumbered.log = stopped.log
       /\ unnumbered.finalizeVersion = stopped.finalizeVersion
       /\ unnumbered.version = stopped.version /\ unnumbered.sent = stopped.sent
       /\ unnumbered.syncVersion = stopped.syncVersion
       /\ unnumbered.focus = stopped.focus /\ unnumbered.pendingSync = stopped.pendingSync
       /\ unnumbered.cancelled = stopped.cancelled
  BY Zenon, <1>14 DEF HostState
<1> HIDE DEF unnumbered
<1>16. Sound(stopped) /\ stopped.cancelled = TRUE
  BY <1>4, <1>6, <1>12, <1>13 DEF Reached, Beside
<1>17. Rests(stopped, unnumbered) /\ Steady(unnumbered)
  BY <1>11, <1>15, <1>16 DEF Rests, Grows, Sound, Steady, Apt
<1>18. Reached(d0, unnumbered, e, P) /\ Correct(unnumbered, e)
  BY <1>12, <1>13, <1>17, RestsReached
<1>19. Level(unnumbered, e) /\ Trims(unnumbered, e, Q)
  BY <1>13, <1>15 DEF Level, Trims
<1>20. PICK i : Reached(d0, shown, i, P) /\ Refreshes(unnumbered, e, shown, i)
  BY <1>17, <1>18, SteadyUpdate, UpdateViewRefreshes
<1>21. Correct(shown, i) /\ Level(shown, i) /\ Trims(shown, i, Q) /\ Beside(unnumbered, shown)
  BY <1>19, <1>20 DEF Refreshes
<1>22. shown.results = cut /\ shown.executing = FALSE /\ shown.cancelled = TRUE
  BY <1>4, <1>6, <1>13, <1>15, <1>21 DEF Beside
<1> HIDE DEF shown
<1>23. shown \in HostState /\ i \in Display /\ Sound(shown) /\ Coherent(shown)
  BY <1>20 DEF Reached, Sound
<1> DEFINE j == Stopped(shown, i)
<1>24. /\ j \in Display /\ j.active = i.active /\ Patient(j, Q)
       /\ i.active = "S" => /\ j.executing = FALSE /\ j.version = i.version
                            /\ Lists(shown.results, j.results) /\ Halts(i, j)
       /\ i.active # "S" => j = i
  BY Zenon, <1>3, <1>21, <1>22, <1>23, StoppedIs
<1> HIDE DEF j
<1>25. m \in ToView /\ m.type = "cancelExecution" /\ ~IsSync(m)
  BY DEF ToView, IsSync
<1> HIDE DEF m
<1>26. Leads(i, m, j)
  BY <1>24, <1>25 DEF Leads
<1>27. Unmoved(shown, g) /\ g.out = Append(shown.out, m) /\ Sound(g) /\ Coherent(g)
  BY <1>23, <1>25, PostIs, PostFollows, UnmovedKeeps DEF Follows
<1>28. Reaches(d0, g.out, j)
  BY <1>20, <1>23, <1>24, <1>25, <1>26, <1>27, ReachesFurther DEF Reached, Sound, HostState
<1>29. Near(shown, j) /\ Level(shown, j)
  BY <1>20, <1>21, <1>24 DEF Reached, Near, Level
<1>30. Listed(shown, j) /\ Executes(shown, j) /\ (j.active = "S" => j.version <= shown.version)
  BY Zenon, <1>21, <1>22, <1>24 DEF Listed, Grows, Executes, Correct
<1>31. Current(shown, j)
  BY <1>29, <1>30 DEF Current
<1>32. Current(g, j) /\ Near(g, j)
  BY <1>23, <1>27, <1>31, UnmovedKeeps DEF Current
<1>33. Reached(d0, g, j, Q)
  BY <1>20, <1>24, <1>27, <1>28, <1>32 DEF Reached, Awake
<1> QED BY <1>2, <1>32, <1>33 DEF Informs

(* The stages of a chunk: what they leave alone. *)
Spares(h, g) ==
  /\ g.ready = h.ready /\ g.lastSentActive = h.lastSentActive /\ g.log = h.log
  /\ h.version <= g.version
  /\ h.finalizeVersion <= h.version => g.finalizeVersion <= g.version

LEMMA SparesOn ==
  ASSUME NEW h \in HostState, NEW g \in HostState, NEW k \in HostState, Spares(h, g), Spares(g, k)
  PROVE  Spares(h, k)
<1>1. h.version \in Nat /\ g.version \in Nat /\ k.version \in Nat
  BY DEF HostState
<1> QED BY <1>1 DEF Spares

LEMMA UnmovedSpares ==
  ASSUME NEW h \in HostState, NEW g, Unmoved(h, g)
  PROVE  Spares(h, g)
<1>1. h.version \in Nat
  BY DEF HostState
<1> QED BY <1>1 DEF Spares, Unmoved, Beside

LEMMA SparesKeeps ==
  ASSUME NEW h \in HostState, NEW g, Spares(h, g), Coherent(h)
  PROVE  /\ g.lastSentActive = "S" => g.log
         /\ g.finalizeVersion <= g.version
         /\ \A d : d.active # NoSource /\ Near(h, d) => g.ready /\ d.active = g.lastSentActive
BY DEF Spares, Coherent, Near

LEMMA EndResultSpares ==
  ASSUME NEW h, Sound(h), NEW c \in Chunks
  PROVE  Spares(h, EndResult(h, c))
<1> DEFINE places == IndexOf(h, h.tracked)
           completed == h.completed \/ places # {}
           done == [h EXCEPT !.completed = completed]
           m == Closing(h, c, CHOOSE i \in places : TRUE)
           told == IF places # {} /\ h.active = "S" THEN Post(done, m) ELSE done
           g == [told EXCEPT !.tracked = None, !.seq = None]
<1>1. h \in HostState
  BY DEF Sound
<1>2. EndResult(h, c) = g
  BY DEF EndResult, Closing
<1>3. completed \in BOOLEAN
  BY <1>1 DEF HostState
<1> HIDE DEF completed, places, m
<1>4. done \in HostState /\ Spares(h, done)
  <2>1. /\ done \in HostState /\ done.ready = h.ready /\ done.log = h.log
        /\ done.lastSentActive = h.lastSentActive /\ done.version = h.version
        /\ done.finalizeVersion = h.finalizeVersion
    BY Zenon, <1>1, <1>3 DEF HostState
  <2> HIDE DEF done
  <2>2. h.version \in Nat
    BY <1>1 DEF HostState
  <2> QED BY <2>1, <2>2 DEF Spares
<1> HIDE DEF done
<1>5. Spares(done, told) /\ told \in {done, Post(done, m)}
  <2>1. Spares(done, Post(done, m)) /\ Spares(done, done)
    BY <1>4, PostIs, UnmovedItself, UnmovedSpares
  <2> QED BY <2>1
<1>6. /\ g.ready = told.ready /\ g.lastSentActive = told.lastSentActive /\ g.log = told.log
      /\ g.version = told.version /\ g.finalizeVersion = told.finalizeVersion
  <2> DEFINE out == Append(done.out, m)
  <2>1. Post(done, m) = [done EXCEPT !.out = out]
    BY DEF Post
  <2> HIDE DEF out
  <2>2. told \in {done, [done EXCEPT !.out = out]}
    BY <1>5, <2>1
  <2> HIDE DEF told
  <2> QED BY <1>4, <2>2 DEF HostState
<1> HIDE DEF told
<1>7. Spares(done, g)
  BY <1>4, <1>5, <1>6 DEF Spares
<1> HIDE DEF g
<1>8. Spares(h, g)
  <2>1. h.version \in Nat /\ done.version \in Nat
    BY <1>1, <1>4 DEF HostState
  <2>2. g.version \in Nat
    BY <1>2, EndResultIs DEF Sound, HostState
  <2> QED BY <1>4, <1>7, <2>1, <2>2 DEF Spares
<1> QED BY <1>2, <1>8

LEMMA EndResultInforms ==
  ASSUME NEW d0, NEW h, NEW P, Informs(d0, h, P), NEW c \in Chunks
  PROVE  Informs(d0, EndResult(h, c), P)
<1> DEFINE g == EndResult(h, c)
<1>1. PICK d : Reached(d0, h, d, P) /\ Current(h, d)
  BY DEF Informs
<1>2. /\ Sound(h) /\ h \in HostState /\ Coherent(h) /\ h.out \in Seq(ToView) /\ d \in Display
      /\ h.version \in Nat /\ Patient(d, P)
  BY <1>1 DEF Reached, Sound, HostState
<1>3. /\ Sound(g) /\ SameSide(h, g) /\ g.results = h.results /\ g.tracked = None
      /\ \/ g.out = h.out
         \/ /\ h.active = "S"
            /\ \E i \in IndexOf(h, h.tracked) : g.out = Append(h.out, Closing(h, c, i))
  BY <1>2, EndResultIs
<1>4. Spares(h, g)
  BY <1>2, EndResultSpares
<1> HIDE DEF g
<1>5. Coherent(g) /\ ~Grows(g)
  BY <1>2, <1>3, <1>4, SparesKeeps DEF Coherent, Grows, None
<1>6. g.version \in Nat /\ h.version <= g.version
  BY <1>3, <1>4 DEF Sound, HostState, Spares
<1>7. ASSUME NEW e \in Display, e.active = d.active,
             e.active = "S" => /\ e.results = d.results /\ e.executing = d.executing
                               /\ e.version = d.version
      PROVE  Near(g, e) /\ Current(g, e)
  <2>1. Near(g, e)
    BY <1>1, <1>2, <1>4, <1>7, SparesKeeps DEF Reached, Near
  <2>2. Level(g, e) /\ Listed(g, e) /\ Executes(g, e)
    BY <1>1, <1>3, <1>5, <1>7 DEF Current, Level, Listed, Executes, SameSide
  <2>3. e.active = "S" => e.version <= g.version
    BY <1>1, <1>2, <1>6, <1>7 DEF Current, Display
  <2> QED BY <2>1, <2>2, <2>3 DEF Current
<1>8. CASE g.out = h.out
  <2>1. Near(g, d) /\ Current(g, d)
    BY <1>2, <1>7
  <2>2. Reached(d0, g, d, P)
    BY <1>1, <1>3, <1>5, <1>8, <2>1, AsideReached
  <2> QED BY <2>1, <2>2 DEF Informs, g
<1>9. CASE /\ h.active = "S"
           /\ \E i \in IndexOf(h, h.tracked) : g.out = Append(h.out, Closing(h, c, i))
  <2>1. PICK i : g.out = Append(h.out, Closing(h, c, i))
    BY <1>9
  <2> DEFINE m == Closing(h, c, i)
             f == [d EXCEPT !.open = FALSE]
             e == IF d.active = "S" THEN f ELSE d
  <2>2. m.type = "streamingComplete"
    BY DEF Closing
  <2> HIDE DEF m
  <2>3. /\ f \in Display /\ f.active = d.active /\ f.results = d.results
        /\ f.executing = d.executing /\ f.halt = d.halt /\ f.version = d.version /\ f.open = FALSE
    BY Zenon, <1>2 DEF Display
  <2> HIDE DEF f
  <2>4. /\ e \in Display /\ e.active = d.active
        /\ e.active = "S" => /\ e.results = d.results /\ e.executing = d.executing
                             /\ e.version = d.version
        /\ Patient(e, P)
    BY <1>2, <2>3 DEF Patient
  <2>5. d.active # "O"
    BY <1>1, <1>9 DEF Current, Level, NoSource
  <2>6. Leads(d, m, e)
    BY <2>2, <2>3, <2>4, <2>5 DEF Leads, SameRows
  <2> HIDE DEF e
  <2>7. Reaches(d0, g.out, e)
    BY <1>1, <1>2, <2>1, <2>4, <2>6, ReachesFurther DEF Reached, m
  <2>8. Near(g, e) /\ Current(g, e)
    BY <1>7, <2>4
  <2>9. Reached(d0, g, e, P)
    BY <1>1, <1>3, <1>5, <2>4, <2>7, <2>8 DEF Reached, Awake
  <2> QED BY <2>8, <2>9 DEF Informs, g
<1> QED BY <1>3, <1>8, <1>9 DEF g

LEMMA BeginResultInforms ==
  ASSUME NEW d0, NEW h, NEW P, Informs(d0, h, P), Sound(h), NEW c
  PROVE  LET b == BeginResult(h, c) IN
         Informs(d0, b, P) /\ (c.first => b.completed = FALSE)
<1> DEFINE reset == Forgotten(h, 0)
           b == BeginResult(h, c)
<1>1. CASE ~c.first
  BY <1>1 DEF BeginResult
<1>2. CASE c.first
  <2>1. b \in {reset, Post(reset, ActiveSourceMsg(reset))}
    BY <1>2 DEF BeginResult, Forgotten
  <2>2. Informs(d0, reset, P)
    BY ForgottenRests, RestsInforms
  <2>3. reset.completed = FALSE
    BY DEF Forgotten, Sound, HostState
  <2> HIDE DEF reset, b
  <2>4. Informs(d0, b, P) /\ b.completed = FALSE
    BY <2>1, <2>2, <2>3, PostActiveInforms DEF Unmoved, Beside
  <2> QED BY <2>4 DEF b
<1> QED BY Zenon, <1>1, <1>2

(* A chunk that is stored. *)
Taken(b, c) == LET s == StoreChunk(b, c) IN IF c.first THEN [s EXCEPT !.tracked = c.id] ELSE s

LEMMA TakenIs ==
  ASSUME NEW b, Sound(b), NEW c \in Chunks, Streams(b, c)
  PROVE  LET t == Taken(b, c) IN
         /\ Spares(b, t) /\ t.out = b.out /\ t.completed = b.completed /\ SameSide(b, t)
         /\ t.seq = b.seq /\ t.tracked = IF c.first THEN c.id ELSE b.tracked
         /\ t.results = IF c.first THEN Append(b.results, NewResult(c))
                        ELSE Longer(b.results, c)
<1> DEFINE s == StoreChunk(b, c)
           t == [s EXCEPT !.tracked = c.id]
<1>1. b \in HostState /\ c.id \in Nat /\ b.version \in Nat
  BY DEF Sound, HostState, Chunks
<1>2. /\ Sound(s) /\ SameSide(b, s) /\ s.tracked = b.tracked /\ s.seq = b.seq /\ s.out = b.out
      /\ s.results = IF c.first THEN Append(b.results, NewResult(c)) ELSE Longer(b.results, c)
  BY StoreChunkIs
<1>3. Spares(b, s) /\ s.completed = b.completed
  <2>1. CASE c.first
    <3> DEFINE rs == Append(b.results, NewResult(c))
               k == [b EXCEPT !.results = rs]
               version == k.version + 1
               dirty == k.globalDirty \/ k.active = "S"
               g == [k EXCEPT !.version = version, !.globalDirty = dirty]
    <3>1. s = g
      BY <2>1 DEF StoreChunk, NewResult, Bump
    <3> HIDE DEF rs
    <3>2. k.version = b.version
      BY <1>1 DEF HostState
    <3>3. version = b.version + 1
      BY <3>2
    <3> HIDE DEF version, dirty, s
    <3>4. /\ g.ready = b.ready /\ g.lastSentActive = b.lastSentActive /\ g.log = b.log
          /\ g.completed = b.completed /\ g.version = version
          /\ g.finalizeVersion = b.finalizeVersion
      BY <1>1 DEF HostState
    <3> HIDE DEF g, k
    <3>5. b.finalizeVersion \in Nat \union {None}
      BY <1>1 DEF HostState
    <3> QED BY <1>1, <3>1, <3>3, <3>4, <3>5 DEF Spares, None
  <2>2. CASE ~c.first
    <3> DEFINE rs == Longer(b.results, c)
    <3>1. s = [b EXCEPT !.results = rs]
      BY <2>2 DEF StoreChunk, Longer
    <3> HIDE DEF rs, s
    <3> QED BY <1>1, <3>1 DEF HostState, Spares
  <2> QED BY <2>1, <2>2
<1> HIDE DEF s
<1>4. /\ t.ready = s.ready /\ t.lastSentActive = s.lastSentActive /\ t.log = s.log
      /\ t.completed = s.completed /\ t.version = s.version /\ SameSide(s, t)
      /\ t.finalizeVersion = s.finalizeVersion /\ t.out = s.out /\ t.seq = s.seq
      /\ t.results = s.results /\ t.tracked = c.id
  BY <1>2 DEF Sound, HostState, SameSide
<1>5. Taken(b, c) = IF c.first THEN t ELSE s
  BY DEF Taken, s
<1> HIDE DEF t
<1>6. CASE c.first
  BY <1>2, <1>3, <1>4, <1>5, <1>6 DEF Spares, SameSide
<1>7. CASE ~c.first
  BY <1>2, <1>3, <1>5, <1>7
<1> QED BY <1>6, <1>7

LEMMA LongerKeepsMark ==
  ASSUME NEW rs \in Seq(HostResults), rs # << >>, NEW c
  PROVE  Longer(rs, c)[Len(rs)].cancelled = rs[Len(rs)].cancelled
<1> DEFINE n == Len(rs)
           rows == rs[n].rows \o RowsOf(c)
           r == [rs[n] EXCEPT !.rows = rows]
<1>1. n \in DOMAIN rs /\ rs[n] \in HostResults
  OBVIOUS
<1>2. Longer(rs, c) = [rs EXCEPT ![n] = r]
  BY DEF Longer
<1> HIDE DEF rows
<1>3. r.cancelled = rs[n].cancelled
  BY <1>1 DEF HostResults
<1> HIDE DEF r
<1> QED BY <1>1, <1>2, <1>3

LEMMA SentChunkIs ==
  ASSUME NEW t, Sound(t), NEW c \in Chunks, t.results # << >>
  PROVE  LET told == IF c.first THEN Post(t, ActiveSourceMsg(t)) ELSE t
             m == AppendRowsMsg(t, c)
             k == SendChunk(t, c) IN
         /\ Sound(k) /\ Spares(t, k) /\ SameSide(t, k) /\ k.tracked = t.tracked
         /\ k.results = t.results /\ k.completed = t.completed
         /\ k.seq = m.seq + 1 /\ k.out = Append(told.out, m)
<1> DEFINE told == IF c.first THEN Post(t, ActiveSourceMsg(t)) ELSE t
           m == AppendRowsMsg(t, c)
           sent == Post(told, m)
           next == m.seq + 1
           k == [sent EXCEPT !.seq = next]
<1>1. SendChunk(t, c) = k /\ Sound(SendChunk(t, c)) /\ t \in HostState
  BY Zenon, SendChunkKeeps DEF SendChunk, Keeps, Follows, Sound
<1>2. Unmoved(t, told) /\ told \in HostState
  <2>1. Unmoved(t, told)
    BY <1>1, PostIs, UnmovedItself
  <2>2. Sound(told)
    BY <1>1, TellsActiveRelays DEF Relays
  <2> QED BY <2>1, <2>2 DEF Sound
<1> HIDE DEF told, m
<1>3. Unmoved(told, sent) /\ sent.out = Append(told.out, m)
  BY <1>2, PostIs
<1>4. Unmoved(t, sent)
  BY <1>2, <1>3, UnmovedOn
<1> DEFINE q == Append(told.out, m)
<1>5. sent = [told EXCEPT !.out = q]
  BY DEF Post
<1> HIDE DEF q, next
<1>6. /\ k.out = sent.out /\ k.seq = next /\ k.results = sent.results
      /\ k.tracked = sent.tracked /\ k.completed = sent.completed /\ SameSide(sent, k)
      /\ k.ready = sent.ready /\ k.lastSentActive = sent.lastSentActive /\ k.log = sent.log
      /\ k.version = sent.version /\ k.finalizeVersion = sent.finalizeVersion
  BY <1>2, <1>5 DEF HostState, SameSide
<1> HIDE DEF sent
<1>7. Spares(t, sent)
  BY <1>1, <1>4, UnmovedSpares
<1>8. Spares(t, k)
  BY <1>6, <1>7 DEF Spares
<1>9. SameSide(t, k) /\ k.tracked = t.tracked /\ k.results = t.results /\ k.completed = t.completed
  BY <1>4, <1>6 DEF Unmoved, Beside, SameSide
<1> QED BY <1>1, <1>3, <1>6, <1>8, <1>9 DEF next, told, m

(* What the page shows once it has got the chunk. *)
LongTab(t, n) == [id |-> t.id, count |-> n, cancelled |-> t.cancelled, cap |-> t.cap]
NewTab(c) == [id |-> c.id, count |-> c.total, cancelled |-> FALSE, cap |-> None]

LastTo(ts, n) == [ts EXCEPT ![Len(ts)] = LongTab(ts[Len(ts)], n)]

WithNew(d, c) == [d EXCEPT !.results = Append(d.results, NewTab(c)), !.open = TRUE, !.next = 1]
WithMore(d, c) ==
  [d EXCEPT !.results = LastTo(d.results, c.total), !.next = d.next + 1]

LEMMA NewTabListed ==
  ASSUME NEW rs \in Seq(HostResults), NEW ts \in Seq(Tab), Lists(rs, ts),
         NEW c \in Chunks, c.from = 0
  PROVE  LET us == Append(ts, NewTab(c)) IN
         /\ us \in Seq(Tab) /\ Len(us) = Len(ts) + 1 /\ us[Len(ts) + 1] = NewTab(c)
         /\ \A i \in 1 .. Len(ts) : us[i] = ts[i]
         /\ Len(rs) = Len(ts) /\ Len(Append(rs, NewResult(c))) = Len(rs) + 1
         /\ Lists(Append(rs, NewResult(c)), us)
<1> DEFINE n == Len(ts)
           r == NewResult(c)
           t == NewTab(c)
           us == Append(ts, t)
           ss == Append(rs, r)
<1>1. c.id \in Nat /\ c.total \in Nat
  BY DEF Chunks
<1>2. t \in Tab /\ t.id = c.id /\ t.count = c.total /\ t.cancelled = FALSE
  BY <1>1 DEF NewTab, Tab
<1>3. Len(RowsOf(c)) = c.total
  BY <1>1, RowsOfIs
<1>4. r.id = c.id /\ Len(r.rows) = c.total /\ r.cancelled = FALSE
  BY <1>3 DEF NewResult
<1> HIDE DEF t, r
<1>5. n \in Nat /\ DOMAIN ts = 1 .. n /\ DOMAIN rs = 1 .. n /\ Len(rs) = n
  BY DEF Lists
<1>6. /\ us \in Seq(Tab) /\ Len(us) = n + 1 /\ DOMAIN us = 1 .. n + 1 /\ us[n + 1] = t
      /\ \A i \in 1 .. n : us[i] = ts[i]
  BY <1>2
<1>7. /\ Len(ss) = n + 1 /\ DOMAIN ss = 1 .. n + 1 /\ ss[n + 1] = r
      /\ \A i \in 1 .. n : ss[i] = rs[i]
  <2>1. ASSUME NEW S, NEW s \in Seq(S), NEW x
        PROVE  /\ Len(Append(s, x)) = Len(s) + 1 /\ DOMAIN Append(s, x) = 1 .. Len(s) + 1
               /\ Append(s, x)[Len(s) + 1] = x
               /\ \A i \in 1 .. Len(s) : Append(s, x)[i] = s[i]
    OBVIOUS
  <2> QED BY <1>5, <2>1
<1> HIDE DEF us, ss, n
<1>8. ASSUME NEW i \in 1 .. n + 1
      PROVE  us[i].id = ss[i].id /\ us[i].count = Len(ss[i].rows) /\ us[i].cancelled = ss[i].cancelled
  <2>1. CASE i = n + 1
    BY Zenon, <1>2, <1>4, <1>6, <1>7, <2>1
  <2>2. CASE i # n + 1
    <3>1. i \in 1 .. n
      BY <1>5, <2>2
    <3>2. us[i] = ts[i] /\ ss[i] = rs[i] /\ i \in DOMAIN rs
      BY <1>5, <1>6, <1>7, <3>1
    <3> QED BY <3>2 DEF Lists
  <2> QED BY <2>1, <2>2
<1>9. Lists(ss, us)
  BY <1>6, <1>7, <1>8 DEF Lists
<1> QED BY <1>5, <1>6, <1>7, <1>9 DEF n, us, ss, r, t

LongListed(rs, ts, c) ==
  LET n == Len(ts)
      us == LastTo(ts, c.total) IN
  /\ us \in Seq(Tab) /\ Len(us) = n /\ n > 0 /\ n = Len(rs) /\ n \in DOMAIN ts
  /\ us[n].id = ts[n].id /\ us[n].cap = ts[n].cap /\ us[n].cancelled = ts[n].cancelled
  /\ us[n].count = c.total /\ ts[n].count = c.from
  /\ \A i \in 1 .. n : i # n => us[i] = ts[i]
  /\ Lists(Longer(rs, c), us)

LEMMA LongTabListed ==
  ASSUME NEW rs \in Seq(HostResults), NEW ts \in Seq(Tab), Lists(rs, ts), rs # << >>,
         NEW c \in Chunks, Len(rs[Len(rs)].rows) = c.from
  PROVE  LongListed(rs, ts, c)
<1> DEFINE n == Len(ts)
           t == LongTab(ts[n], c.total)
           us == [ts EXCEPT ![n] = t]
           ss == Longer(rs, c)
<1>1. c.total \in Nat /\ c.from \in Nat
  BY DEF Chunks
<1>2. n \in Nat /\ n > 0 /\ n = Len(rs) /\ DOMAIN ts = 1 .. n /\ DOMAIN rs = 1 .. n
      /\ n \in DOMAIN ts /\ ts[n] \in Tab /\ rs[n] \in HostResults
  BY DEF Lists
<1>3. /\ t \in Tab /\ t.id = ts[n].id /\ t.cap = ts[n].cap /\ t.cancelled = ts[n].cancelled
      /\ t.count = c.total /\ LastTo(ts, c.total) = us
  BY <1>1, <1>2 DEF LongTab, Tab, LastTo
<1> HIDE DEF t
<1>4. /\ us \in Seq(Tab) /\ Len(us) = n /\ DOMAIN us = 1 .. n /\ us[n] = t
      /\ \A i \in 1 .. n : i # n => us[i] = ts[i]
  BY <1>2, <1>3
<1>5. /\ DOMAIN ss = 1 .. n /\ ss[n].id = rs[n].id /\ ss[n].rows = rs[n].rows \o RowsOf(c)
      /\ \A j \in 1 .. n : j # n => ss[j] = rs[j]
  <2>1. /\ DOMAIN ss = DOMAIN rs /\ ss[Len(rs)].id = rs[Len(rs)].id
        /\ ss[Len(rs)].rows = rs[Len(rs)].rows \o RowsOf(c)
        /\ \A j \in DOMAIN rs : j # Len(rs) => ss[j] = rs[j]
    BY LongerIs
  <2> HIDE DEF ss, n
  <2> QED BY <1>2, <2>1
<1>6. ss[n].cancelled = rs[n].cancelled
  <2>1. ss[Len(rs)].cancelled = rs[Len(rs)].cancelled
    BY LongerKeepsMark
  <2> HIDE DEF ss, n
  <2> QED BY <1>2, <2>1
<1>7. Len(ss[n].rows) = c.total
  <2>1. rs[n].rows \in Seq(Row) /\ Len(rs[n].rows) = c.from
    BY <1>2 DEF HostResults
  <2>2. RowsOf(c) \in Seq(Row) /\ Len(RowsOf(c)) = c.total - c.from
    BY RowsOfIs
  <2>3. Len(rs[n].rows \o RowsOf(c)) = Len(rs[n].rows) + Len(RowsOf(c))
    BY Zenon, <2>1, <2>2, RowsConcatenated
  <2> HIDE DEF ss, n
  <2> QED BY <1>1, <1>5, <2>1, <2>2, <2>3
<1>8. ts[n].id = rs[n].id /\ ts[n].count = c.from /\ ts[n].cancelled = rs[n].cancelled
  BY <1>2 DEF Lists
<1> HIDE DEF us, ss, n
<1>9. ASSUME NEW i \in 1 .. n
      PROVE  us[i].id = ss[i].id /\ us[i].count = Len(ss[i].rows) /\ us[i].cancelled = ss[i].cancelled
  <2>1. CASE i = n
    BY Zenon, <1>3, <1>4, <1>5, <1>6, <1>7, <1>8, <2>1
  <2>2. CASE i # n
    <3>1. us[i] = ts[i] /\ ss[i] = rs[i] /\ i \in DOMAIN rs
      BY <1>2, <1>4, <1>5, <2>2
    <3> QED BY <3>1 DEF Lists
  <2> QED BY <2>1, <2>2
<1>10. Lists(ss, us)
  BY <1>4, <1>5, <1>9 DEF Lists
<1> QED BY <1>2, <1>3, <1>4, <1>8, <1>10 DEF LongListed, n, us, ss

Numbers(t, st, c, m) ==
  /\ m.type = "appendRows" /\ m.id = st.id /\ m.index = Len(t.results) /\ m.seq = t.seq
  /\ m.seq \in Nat /\ m.from = c.from /\ m.total = c.total /\ m.first = c.first
  /\ m.total = m.from + Len(m.rows)

LEMMA ChunkMsgIs ==
  ASSUME NEW h \in HostState, NEW st, NEW c \in Chunks, NEW t, Grew(h, st, c, t)
  PROVE  Numbers(t, st, c, AppendRowsMsg(t, c))
<1>1. c.total \in Nat /\ c.from \in Nat /\ Len(RowsOf(c)) = c.total - c.from
  BY RowsOfIs DEF Chunks
<1>2. t.seq \in Nat /\ Last(t.results).id = st.id
  BY DEF Grew, Extended
<1> QED BY <1>1, <1>2 DEF AppendRowsMsg, None, Numbers

(* The chunk m leads from d to e, a display of the results rs.              *)
Adds(d, m, rs, e) ==
  /\ e \in Display /\ e.active = d.active /\ e.executing = d.executing /\ e.halt = d.halt
  /\ e.version = d.version /\ e.open = TRUE /\ e.next = m.seq + 1
  /\ Lists(rs, e.results) /\ Leads(d, m, e)
  /\ \A P : Patient(d, P) => Patient(e, P)

LEMMA FirstChunkLeads ==
  ASSUME NEW d \in Display, d.active = "S", NEW rs \in Seq(HostResults), Lists(rs, d.results),
         NEW c \in Chunks, c.from = 0, c.first, c.id > 0,
         \A i \in DOMAIN rs : rs[i].id # c.id,
         NEW m, m.type = "appendRows", m.id = c.id, m.index = Len(rs) + 1, m.seq = 0,
         m.from = c.from, m.total = c.total, m.first = c.first, m.total = m.from + Len(m.rows)
  PROVE  Adds(d, m, Append(rs, NewResult(c)), WithNew(d, c))
<1> DEFINE us == Append(d.results, NewTab(c))
           n == Len(d.results)
           e == [d EXCEPT !.results = us, !.open = TRUE, !.next = 1]
<1>1. d.results \in Seq(Tab)
  BY DEF Display
<1>2. /\ us \in Seq(Tab) /\ Len(us) = n + 1 /\ us[n + 1] = NewTab(c)
      /\ \A i \in 1 .. n : us[i] = d.results[i]
      /\ Len(rs) = n /\ Lists(Append(rs, NewResult(c)), us)
  BY <1>1, NewTabListed
<1>3. n \in Nat /\ DOMAIN d.results = 1 .. n /\ DOMAIN us = 1 .. n + 1
  BY <1>1, <1>2
<1>4. NewTab(c).id = c.id /\ NewTab(c).count = c.total /\ NewTab(c).cancelled = FALSE
      /\ NewTab(c).cap = None
  BY DEF NewTab
<1> HIDE DEF us, n, NewTab
<1>5. /\ e \in Display /\ e.active = d.active /\ e.executing = d.executing /\ e.halt = d.halt
      /\ e.version = d.version /\ e.open = TRUE /\ e.next = 1 /\ e.results = us
  BY Zenon, <1>2 DEF Display
<1>6. WithNew(d, c) = e
  BY DEF WithNew, us
<1> HIDE DEF e
<1>7. \A i \in DOMAIN d.results : d.results[i].id # m.id
  BY DEF Lists
<1>8. Begins(d, m, e)
  BY <1>2, <1>4, <1>5, <1>7 DEF Begins, n
<1>9. Leads(d, m, e)
  BY <1>5, <1>8 DEF Leads, Feeds
<1>10. ASSUME NEW P, Patient(d, P) PROVE Patient(e, P)
  <2>1. ASSUME NEW i \in DOMAIN us, us[i].cap # None
        PROVE  (us[i].cancelled /\ us[i].count <= us[i].cap) \/ Pending(P, i, us[i].cap)
    <3>1. i # n + 1
      BY <1>2, <1>4, <2>1
    <3>2. i \in DOMAIN d.results /\ us[i] = d.results[i]
      BY <1>2, <1>3, <3>1
    <3> QED BY <1>10, <2>1, <3>2 DEF Patient
  <2>2. d.halt => d.executing = FALSE \/ \E j \in DOMAIN P : P[j].type = "cancelQuery"
    BY <1>10 DEF Patient
  <2> QED BY <1>5, <2>1, <2>2 DEF Patient
<1> QED BY <1>2, <1>5, <1>6, <1>9, <1>10 DEF Adds

LEMMA NextChunkLeads ==
  ASSUME NEW d \in Display, d.active = "S", NEW rs \in Seq(HostResults), Lists(rs, d.results),
         rs # << >>, d.open, ~rs[Len(rs)].cancelled,
         NEW c \in Chunks, ~c.first, Len(rs[Len(rs)].rows) = c.from,
         NEW m, m.type = "appendRows", m.id = rs[Len(rs)].id, m.index = Len(rs), m.seq = d.next,
         m.from = c.from, m.total = c.total, m.first = c.first, m.total = m.from + Len(m.rows)
  PROVE  Adds(d, m, Longer(rs, c), WithMore(d, c))
<1> DEFINE ts == d.results
           n == Len(ts)
           us == LastTo(ts, c.total)
           next == d.next + 1
           e == [d EXCEPT !.results = us, !.next = next]
<1>1. d.results \in Seq(Tab) /\ next \in Nat
  BY DEF Display
<1>0. ts \in Seq(Tab) /\ Lists(rs, ts) /\ ts = d.results
  BY <1>1
<1> HIDE DEF ts
<1>2. /\ us \in Seq(Tab) /\ Len(us) = n /\ n > 0 /\ n = Len(rs) /\ n \in DOMAIN ts
      /\ us[n].id = ts[n].id /\ us[n].cap = ts[n].cap
      /\ us[n].cancelled = ts[n].cancelled
      /\ us[n].count = c.total /\ ts[n].count = c.from
      /\ \A i \in 1 .. n : i # n => us[i] = ts[i]
      /\ Lists(Longer(rs, c), us)
  <2>1. LongListed(rs, ts, c)
    BY <1>0, LongTabListed
  <2> QED BY <2>1 DEF LongListed
<1> HIDE DEF us, n, next
<1>3. DOMAIN us = DOMAIN d.results /\ DOMAIN d.results = 1 .. n /\ DOMAIN rs = 1 .. n
  <2>1. n = Len(d.results)
    BY <1>0 DEF n
  <2> QED BY <1>0, <1>1, <1>2, <2>1 DEF Lists
<1>4. /\ e \in Display /\ e.active = d.active /\ e.executing = d.executing /\ e.halt = d.halt
      /\ e.version = d.version /\ e.open = d.open /\ e.next = next /\ e.results = us
  BY Zenon, <1>1, <1>2 DEF Display
<1>5. WithMore(d, c) = e
  BY <1>0 DEF WithMore, us, next
<1> HIDE DEF e
<1>6. d.results[n].id = rs[n].id /\ ~d.results[n].cancelled
  BY Zenon, <1>0, <1>2, <1>3 DEF Lists
<1>7. Lengthens(d, m, e)
  BY <1>0, <1>2, <1>4, <1>6 DEF Lengthens, n, next
<1>8. Leads(d, m, e)
  BY <1>4, <1>7 DEF Leads, Feeds
<1>9. ASSUME NEW P, Patient(d, P) PROVE Patient(e, P)
  <2>1. ASSUME NEW i \in DOMAIN us, us[i].cap # None
        PROVE  (us[i].cancelled /\ us[i].count <= us[i].cap) \/ Pending(P, i, us[i].cap)
    <3>1. CASE i = n
      BY Zenon, <1>0, <1>2, <1>3, <1>6, <1>9, <2>1, <3>1 DEF Patient
    <3>2. CASE i # n
      <4>1. i \in DOMAIN d.results /\ us[i] = d.results[i]
        BY Zenon, <1>0, <1>2, <1>3, <3>2
      <4> QED BY <1>9, <2>1, <4>1 DEF Patient
    <3> QED BY <3>1, <3>2
  <2>2. d.halt => d.executing = FALSE \/ \E j \in DOMAIN P : P[j].type = "cancelQuery"
    BY <1>9 DEF Patient
  <2> QED BY <1>4, <2>1, <2>2 DEF Patient
<1>10. next = m.seq + 1 /\ d.open = TRUE
  BY DEF Display, next
<1> QED BY Zenon, <1>2, <1>4, <1>5, <1>8, <1>9, <1>10 DEF Adds

(* Sending a chunk that is stored.                                         *)
LEMMA SentInforms ==
  ASSUME NEW d0, NEW t, Sound(t), Coherent(t), t.results # << >>, NEW c \in Chunks,
         NEW told, told = IF c.first THEN Post(t, ActiveSourceMsg(t)) ELSE t,
         NEW d, NEW P, Reached(d0, told, d, P), Near(t, d), Level(t, d),
         NEW m, m = AppendRowsMsg(t, c), m.seq \in Nat,
         NEW e \in Display, Leads(d, m, e), e.active = d.active, Patient(e, P),
         e.active = "S" => /\ Lists(t.results, e.results) /\ e.open /\ e.next = m.seq + 1
                           /\ e.executing = t.executing /\ e.version <= t.version
  PROVE  Informs(d0, SendChunk(t, c), P)
<1> DEFINE k == SendChunk(t, c)
<1>1. /\ Sound(k) /\ Spares(t, k) /\ SameSide(t, k) /\ k.tracked = t.tracked
      /\ k.results = t.results /\ k.completed = t.completed
      /\ k.seq = m.seq + 1 /\ k.out = Append(told.out, m)
  BY SentChunkIs
<1>2. t \in HostState /\ k \in HostState /\ told \in HostState /\ d \in Display
      /\ Reaches(d0, told.out, d) /\ Awake(d0, d)
  BY <1>1 DEF Sound, Reached
<1> HIDE DEF k
<1>3. Grows(k) = Grows(t)
  BY <1>1 DEF Grows, SameSide
<1>4. /\ k.lastSentActive = "S" => k.log
      /\ k.finalizeVersion <= k.version
      /\ d.active # NoSource => k.ready /\ d.active = k.lastSentActive
  BY <1>1, <1>2, SparesKeeps
<1>5. Coherent(k)
  <2>1. k.seq \in Nat
    BY <1>1
  <2> QED BY <1>1, <1>3, <1>4, <2>1 DEF Coherent
<1>6. Near(k, e)
  BY <1>4 DEF Near
<1>7. Reaches(d0, k.out, e)
  <2>1. told.out \in Seq(ToView)
    BY <1>2 DEF HostState
  <2>2. Reaches(d0, Append(told.out, m), e)
    BY <1>2, <2>1, ReachesFurther
  <2> QED BY <1>1, <2>2
<1>8. Awake(d0, e)
  BY <1>2 DEF Awake
<1>9. Level(k, e)
  BY <1>1 DEF Level, SameSide
<1>10. Listed(k, e) /\ Executes(k, e)
  BY <1>1 DEF Listed, Executes, SameSide
<1>11. e.active = "S" => e.version <= k.version
  <2>1. e.version \in Nat /\ t.version \in Nat /\ k.version \in Nat
    BY <1>2 DEF Display, HostState
  <2>2. t.version <= k.version
    BY <1>1 DEF Spares
  <2> QED BY <2>1, <2>2
<1>12. Current(k, e)
  BY <1>6, <1>9, <1>10, <1>11 DEF Current
<1>13. Reached(d0, k, e, P)
  BY <1>1, <1>5, <1>6, <1>7, <1>8 DEF Reached
<1> QED BY <1>12, <1>13 DEF Informs, k

(* The host t after b, from h, has stored a chunk that streams.            *)
Stores(h, st, c, b, t) ==
  /\ Sound(t) /\ Grew(h, st, c, t) /\ Coherent(t) /\ Grows(t)
  /\ Sound(b) /\ b.results = h.results /\ c \in Chunks /\ c.id = st.id /\ st.id > 0
  /\ IF c.first THEN b.seq = 0 ELSE b = h /\ Grows(h)

LEMMA TakenCoherent ==
  ASSUME NEW h, Steady(h), h.out = << >>, NEW st \in Executors, HostFits(h, st),
         NEW c, ChunkOf(st, c), NEW b, b = BeginResult(h, c), Streams(b, c),
         Coherent(b), c.first => b.completed = FALSE
  PROVE  Stores(h, st, c, b, Taken(b, c))
<1> DEFINE t == Taken(b, c)
           n == Len(t.results)
<1>1. h \in HostState /\ Sound(h) /\ c \in Chunks /\ c.id = st.id /\ st.id > 0
      /\ AllPure(h.results)
  BY DEF Steady, Apt, Sound, ChunkOf, HostFits, ExecutorFits, ResultsFit
<1>2. /\ Sound(b) /\ SameSide(h, b) /\ b.results = h.results /\ Clean(b.out)
      /\ IF c.first THEN b.tracked = 0 /\ b.seq = 0 ELSE b = h
  BY <1>1, BeginResultIs
<1>3. Sound(t) /\ Grew(h, st, c, t)
  BY <1>1, <1>2, StoredGrew DEF Taken
<1>4. /\ Spares(b, t) /\ t.completed = b.completed
      /\ t.results = IF c.first THEN Append(b.results, NewResult(c)) ELSE Longer(b.results, c)
  BY <1>1, <1>2, TakenIs
<1> HIDE DEF t
<1>5. Grows(t)
  BY <1>1, <1>3 DEF Grows, Grew
<1>6. t.seq \in Nat /\ t.results # << >>
  BY <1>3 DEF Grew, Extended
<1>7. ~c.first => b = h /\ Grows(h)
  <2>1. ~c.first => h.tracked = st.id /\ ~h.cancelled
    BY <1>3 DEF Grew, SameSide
  <2> QED BY <1>1, <1>2, <2>1 DEF Grows
<1>8. ~t.completed
  BY <1>4, <1>7 DEF Coherent
<1>9. h.results \in Seq(HostResults)
  BY <1>1 DEF HostState
<1>10. ~t.results[n].cancelled
  <2>1. CASE c.first
    <3>1. t.results = Append(h.results, NewResult(c))
      BY <1>2, <1>4, <2>1
    <3>2. n = Len(h.results) + 1 /\ t.results[n] = NewResult(c)
      BY <1>9, <3>1
    <3> QED BY <3>2 DEF NewResult
  <2>2. CASE ~c.first
    <3>1. t.results = Longer(h.results, c) /\ h.results # << >>
          /\ ~h.results[Len(h.results)].cancelled
      BY <1>4, <1>7, <2>2 DEF Coherent
    <3>2. n = Len(h.results)
      BY <1>3, <2>2 DEF Grew
    <3>3. Longer(h.results, c)[Len(h.results)].cancelled = h.results[Len(h.results)].cancelled
      BY <1>9, <3>1, LongerKeepsMark
    <3> HIDE DEF n
    <3> QED BY <3>1, <3>2, <3>3
  <2> QED BY <2>1, <2>2
<1>11. /\ t.lastSentActive = "S" => t.log
       /\ t.finalizeVersion <= t.version
  <2>1. b \in HostState
    BY <1>2 DEF Sound
  <2> QED BY <1>4, <2>1, SparesKeeps
<1>12. Coherent(t)
  BY <1>6, <1>8, <1>10, <1>11 DEF Coherent
<1> QED BY <1>1, <1>2, <1>3, <1>5, <1>7, <1>12 DEF t, Stores

Takes(d0, b, d, P, c, t) ==
  /\ Reached(d0, t, d, P) /\ Near(t, d) /\ Level(t, d) /\ t.active = b.active
  /\ t.seq = b.seq
  /\ t.results = IF c.first THEN Append(b.results, NewResult(c)) ELSE Longer(b.results, c)
  /\ d.active = "S" => d.version <= t.version /\ d.executing = t.executing
  /\ d \in Display /\ t \in HostState

LEMMA TakenReached ==
  ASSUME NEW d0, NEW b, NEW d, NEW P, Reached(d0, b, d, P), Current(b, d),
         NEW c \in Chunks, Streams(b, c), Sound(Taken(b, c)), Coherent(Taken(b, c))
  PROVE  Takes(d0, b, d, P, c, Taken(b, c))
<1> DEFINE t == Taken(b, c)
<1>1. Sound(b) /\ b \in HostState /\ d \in Display /\ Near(b, d) /\ Coherent(b) /\ t \in HostState
  BY DEF Reached, Sound
<1>2. /\ Spares(b, t) /\ t.out = b.out /\ SameSide(b, t) /\ t.seq = b.seq
      /\ t.results = IF c.first THEN Append(b.results, NewResult(c)) ELSE Longer(b.results, c)
  BY <1>1, TakenIs
<1> HIDE DEF t
<1>3. Near(t, d)
  BY <1>1, <1>2, SparesKeeps DEF Near
<1>4. Reached(d0, t, d, P)
  BY <1>2, <1>3, AsideReached DEF t
<1>5. Level(t, d) /\ t.active = b.active /\ (d.active = "S" => d.executing = t.executing)
  BY <1>2 DEF Level, SameSide, Current, Executes
<1>6. d.active = "S" => d.version <= t.version
  <2>1. d.version \in Nat /\ b.version \in Nat /\ t.version \in Nat
    BY <1>1 DEF Display, HostState
  <2>2. d.active = "S" => d.version <= b.version
    BY DEF Current
  <2> QED BY <1>2, <2>1, <2>2 DEF Spares
<1> QED BY <1>1, <1>2, <1>3, <1>4, <1>5, <1>6 DEF t, Takes

LEMMA StrangeChunkLeads ==
  ASSUME NEW d, d.active = NoSource, NEW m, m.type = "appendRows"
  PROVE  Leads(d, m, d)
BY DEF Leads, NoSource

LEMMA FirstSentInforms ==
  ASSUME NEW d0, NEW h, Steady(h), h.out = << >>, NEW st \in Executors, HostFits(h, st),
         NEW c, ChunkOf(st, c), c.first, NEW b, b = BeginResult(h, c), Streams(b, c),
         b.completed = FALSE, b.active = "S",
         NEW d, NEW P, Reached(d0, b, d, P), Current(b, d)
  PROVE  Informs(d0, SendChunk(Taken(b, c), c), P)
<1> DEFINE t == Taken(b, c)
           told == Post(t, ActiveSourceMsg(t))
           n == Noted(t, d)
           m == AppendRowsMsg(t, c)
           rs == h.results
<1>1. Coherent(b)
  BY DEF Reached
<1>2. /\ Sound(t) /\ Grew(h, st, c, t) /\ Coherent(t) /\ Grows(t)
      /\ Sound(b) /\ b.results = rs /\ c \in Chunks /\ c.id = st.id /\ st.id > 0 /\ b.seq = 0
  <2>1. Stores(h, st, c, b, t)
    BY Zenon, <1>1, TakenCoherent
  <2> QED BY <2>1 DEF Stores
<1>3. /\ Reached(d0, t, d, P) /\ Near(t, d) /\ Level(t, d) /\ t.active = b.active
      /\ t.seq = b.seq /\ t.results = Append(rs, NewResult(c))
      /\ d.active = "S" => d.version <= t.version /\ d.executing = t.executing
      /\ d \in Display /\ t \in HostState
  <2>1. Takes(d0, b, d, P, c, t)
    BY <1>2, TakenReached
  <2> HIDE DEF t
  <2> QED BY <1>2, <2>1 DEF Takes
<1>4. h \in HostState /\ rs \in Seq(HostResults) /\ c.from = 0
  BY DEF Steady, Apt, Sound, HostState, ChunkOf, HostFits, ExecutorFits
<1>5. /\ m.type = "appendRows" /\ m.id = st.id /\ m.index = Len(t.results) /\ m.seq = t.seq
      /\ m.seq \in Nat /\ m.from = c.from /\ m.total = c.total /\ m.first = c.first
      /\ m.total = m.from + Len(m.rows)
  <2>1. Numbers(t, st, c, m)
    BY <1>2, <1>4, ChunkMsgIs
  <2> HIDE DEF t, m
  <2> QED BY <2>1 DEF Numbers
<1>6. \A i \in DOMAIN rs : rs[i].id # c.id
  BY <1>2 DEF HostFits, ResultsFit, Begun, ChunkOf, Executors
<1>7. t.results # << >> /\ Len(t.results) = Len(rs) + 1
  BY <1>3, <1>4
<1> HIDE DEF t, m, rs
<1>8. Reached(d0, told, n, P)
  BY <1>3, PostActiveReached
<1>9. /\ n \in Display /\ n.active = d.active
      /\ d.active # "S" => n = d
      /\ d.active = "S" => /\ n.executing = t.executing /\ n.results = d.results
                           /\ n.version = d.version
      /\ (Patient(d, P) => Patient(n, P))
  BY Zenon, <1>2, <1>3, NotedIs
<1>10. Near(t, n) /\ Level(t, n)
  BY <1>3, <1>9 DEF Near, Level
<1>11. Patient(n, P)
  BY <1>3, <1>9 DEF Reached
<1>12. told = IF c.first THEN Post(t, ActiveSourceMsg(t)) ELSE t
  OBVIOUS
<1> HIDE DEF told, n
<1>13. CASE d.active = "S"
  <2> DEFINE e == WithNew(n, c)
  <2>1. Lists(rs, n.results) /\ n.active = "S"
    BY <1>2, <1>9, <1>13 DEF Current, Listed
  <2>2. Adds(n, m, Append(rs, NewResult(c)), e)
    <3>1. m.index = Len(rs) + 1 /\ m.seq = 0 /\ c.id > 0 /\ m.id = c.id
      BY <1>2, <1>3, <1>5, <1>7
    <3> QED BY Zenon, <1>2, <1>4, <1>5, <1>6, <1>9, <2>1, <3>1, FirstChunkLeads
  <2> HIDE DEF e
  <2>3. e \in Display /\ e.active = n.active /\ e.next = m.seq + 1 /\ Leads(n, m, e)
    BY <2>2 DEF Adds
  <2>4. /\ Lists(t.results, e.results) /\ e.open /\ e.executing = t.executing
        /\ e.version <= t.version
    BY <1>3, <1>9, <1>13, <2>2 DEF Adds
  <2>5. Patient(e, P)
    BY <1>11, <2>2 DEF Adds
  <2>6. Informs(d0, SendChunk(t, c), P)
    BY <1>2, <1>5, <1>7, <1>8, <1>10, <1>12, <2>3, <2>4, <2>5, SentInforms DEF m
  <2> QED BY <2>6 DEF t
<1>14. CASE d.active # "S"
  <2>1. d.active = NoSource /\ n = d
    BY <1>9, <1>14 DEF Current, Level
  <2>2. Leads(n, m, n) /\ n.active # "S"
    BY <1>5, <1>14, <2>1, StrangeChunkLeads
  <2>3. Informs(d0, SendChunk(t, c), P)
    BY <1>2, <1>5, <1>7, <1>8, <1>9, <1>10, <1>11, <1>12, <2>2, SentInforms DEF m
  <2> QED BY <2>3 DEF t
<1> QED BY <1>13, <1>14

LEMMA NextSentInforms ==
  ASSUME NEW d0, NEW h, Steady(h), h.out = << >>, NEW st \in Executors, HostFits(h, st),
         NEW c, ChunkOf(st, c), ~c.first, Streams(h, c), h.active = "S",
         NEW d, NEW P, Reached(d0, h, d, P), Current(h, d)
  PROVE  Informs(d0, SendChunk(Taken(h, c), c), P)
<1> DEFINE t == Taken(h, c)
           m == AppendRowsMsg(t, c)
           rs == h.results
           k == Len(rs)
<1>1. Coherent(h) /\ h = BeginResult(h, c)
  BY DEF Reached, BeginResult
<1>2. /\ Sound(t) /\ Grew(h, st, c, t) /\ Coherent(t) /\ Grows(t)
      /\ c \in Chunks /\ c.id = st.id /\ st.id > 0 /\ Grows(h)
  <2>1. Stores(h, st, c, h, t)
    BY Zenon, <1>1, TakenCoherent
  <2> QED BY <2>1 DEF Stores
<1>3. /\ Reached(d0, t, d, P) /\ Near(t, d) /\ Level(t, d) /\ t.active = h.active
      /\ t.seq = h.seq /\ t.results = Longer(rs, c)
      /\ d.active = "S" => d.version <= t.version /\ d.executing = t.executing
      /\ d \in Display /\ t \in HostState
  <2>1. Takes(d0, h, d, P, c, t)
    BY <1>2, TakenReached
  <2> HIDE DEF t
  <2> QED BY <2>1 DEF Takes
<1>4. h \in HostState /\ rs \in Seq(HostResults) /\ c.from = st.rows
  BY DEF Steady, Apt, Sound, HostState, ChunkOf
<1>5. /\ m.type = "appendRows" /\ m.id = st.id /\ m.index = Len(t.results) /\ m.seq = t.seq
      /\ m.seq \in Nat /\ m.from = c.from /\ m.total = c.total /\ m.first = c.first
      /\ m.total = m.from + Len(m.rows)
  <2>1. Numbers(t, st, c, m)
    BY <1>2, <1>4, ChunkMsgIs
  <2> HIDE DEF t, m
  <2> QED BY <2>1 DEF Numbers
<1>6. /\ rs # << >> /\ ~rs[k].cancelled /\ rs[k].id = st.id /\ Len(rs[k].rows) = c.from
      /\ Len(t.results) = k /\ t.results # << >>
  BY <1>1, <1>2, <1>4 DEF Coherent, HostFits, ExecutorFits, TrackedFits, Grows, Grew, Extended
<1>7. Patient(d, P)
  BY DEF Reached
<1>8. t = IF c.first THEN Post(t, ActiveSourceMsg(t)) ELSE t
  OBVIOUS
<1> HIDE DEF t, m, rs, k
<1>9. CASE d.active = "S"
  <2> DEFINE e == WithMore(d, c)
  <2>1. Lists(rs, d.results) /\ d.open /\ d.next = h.seq
    BY <1>2, <1>9 DEF Current, Listed, rs
  <2>2. Adds(d, m, Longer(rs, c), e)
    <3>1. /\ ~rs[Len(rs)].cancelled /\ Len(rs[Len(rs)].rows) = c.from
          /\ m.id = rs[Len(rs)].id /\ m.index = Len(rs) /\ m.seq = d.next
      BY <1>3, <1>5, <1>6, <2>1 DEF k
    <3> QED BY Zenon, <1>2, <1>3, <1>4, <1>5, <1>6, <1>9, <2>1, <3>1, NextChunkLeads
  <2> HIDE DEF e
  <2>3. e \in Display /\ e.active = d.active /\ e.next = m.seq + 1 /\ Leads(d, m, e)
    BY <2>2 DEF Adds
  <2>4. /\ Lists(t.results, e.results) /\ e.open /\ e.executing = t.executing
        /\ e.version <= t.version
    BY <1>3, <1>9, <2>2 DEF Adds
  <2>5. Patient(e, P)
    BY <1>7, <2>2 DEF Adds
  <2>6. Informs(d0, SendChunk(t, c), P)
    BY <1>2, <1>3, <1>5, <1>6, <1>8, <2>3, <2>4, <2>5, SentInforms DEF m
  <2> QED BY <2>6 DEF t
<1>10. CASE d.active # "S"
  <2>1. d.active = NoSource
    BY <1>10 DEF Current, Level
  <2>2. Leads(d, m, d)
    BY <1>5, <2>1, StrangeChunkLeads
  <2>3. Informs(d0, SendChunk(t, c), P)
    BY <1>2, <1>3, <1>5, <1>6, <1>7, <1>8, <1>10, <2>2, SentInforms DEF m
  <2> QED BY <2>3 DEF t
<1> QED BY <1>9, <1>10

(* Of a chunk of S the page learns nothing while the other source is shown.*)
LEMMA AsideInforms ==
  ASSUME NEW d0, NEW b, NEW d, NEW P, Reached(d0, b, d, P), Current(b, d), b.active # "S",
         NEW c \in Chunks, Streams(b, c), Sound(Taken(b, c)), Coherent(Taken(b, c))
  PROVE  Informs(d0, Taken(b, c), P)
<1> DEFINE t == Taken(b, c)
<1>1. Reached(d0, t, d, P) /\ Near(t, d) /\ Level(t, d)
  <2>1. Takes(d0, b, d, P, c, t)
    BY TakenReached
  <2> QED BY <2>1 DEF Takes
<1>2. d.active # "S"
  BY DEF Current, Level, NoSource
<1> HIDE DEF t
<1>3. Current(t, d)
  BY <1>1, <1>2 DEF Current, Listed, Executes
<1> QED BY <1>1, <1>3 DEF Informs, t

LEMMA AppendStreamingChunkInforms ==
  ASSUME NEW d0, NEW h, Steady(h), h.out = << >>, NEW P, Informs(d0, h, P),
         NEW st \in Executors, HostFits(h, st), NEW c, ChunkOf(st, c)
  PROVE  Informs(d0, AppendStreamingChunk(h, c), P)
<1> DEFINE b == BeginResult(h, c)
           s == StoreChunk(b, c)
           t == Taken(b, c)
           k == IF Streams(b, c)
                THEN IF b.active = "S" THEN SendChunk(t, c) ELSE t
                ELSE s
           g == IF c.last THEN EndResult(k, c) ELSE k
<1>1. h \in HostState /\ Sound(h) /\ FollowEditor(h) = h /\ c \in Chunks
  BY SteadyFollowsEditor DEF Steady, Apt, Sound, ChunkOf
<1>2. AppendStreamingChunk(h, c) = g
  <2>1. ~Streams(b, c) => (IF c.first /\ Streams(b, c) THEN [s EXCEPT !.tracked = c.id] ELSE s) = s
    OBVIOUS
  <2>2. Streams(b, c) => (IF c.first /\ Streams(b, c) THEN [s EXCEPT !.tracked = c.id] ELSE s) = t
    BY DEF Taken
  <2> QED BY <1>1, <2>1, <2>2 DEF AppendStreamingChunk
<1>3. Informs(d0, b, P) /\ (c.first => b.completed = FALSE)
  BY Zenon, <1>1, BeginResultInforms
<1>4. b = BeginResult(h, c) /\ (~c.first => b = h)
  BY DEF BeginResult
<1> HIDE DEF b
<1>5. Informs(d0, k, P)
  <2>1. CASE ~Streams(b, c)
    <3>1. s \in {b, Bump(b)}
      BY <2>1 DEF StoreChunk
    <3>2. Informs(d0, s, P)
      BY <1>3, <3>1, BumpInforms
    <3> HIDE DEF s
    <3> QED BY <2>1, <3>2
  <2>2. CASE Streams(b, c)
    <3>1. PICK d : Reached(d0, b, d, P) /\ Current(b, d)
      BY <1>3 DEF Informs
    <3>2. Coherent(b)
      BY <3>1 DEF Reached
    <3>3. Sound(t) /\ Coherent(t)
      <4>1. Stores(h, st, c, b, t)
        BY Zenon, <1>3, <1>4, <2>2, <3>2, TakenCoherent
      <4> QED BY <4>1 DEF Stores
    <3>4. CASE b.active # "S"
      <4>1. Informs(d0, t, P)
        BY <1>1, <2>2, <3>1, <3>3, <3>4, AsideInforms
      <4> QED BY <2>2, <3>4, <4>1
    <3>5. CASE b.active = "S"
      <4>1. CASE c.first
        <5>1. Informs(d0, SendChunk(t, c), P)
          BY Zenon, <1>3, <1>4, <2>2, <3>1, <3>5, <4>1, FirstSentInforms
        <5> QED BY <2>2, <3>5, <5>1
      <4>2. CASE ~c.first
        <5>1. Informs(d0, SendChunk(t, c), P)
          BY <1>3, <1>4, <2>2, <3>1, <3>5, <4>2, NextSentInforms
        <5> QED BY <2>2, <3>5, <5>1
      <4> QED BY <4>1, <4>2
    <3> QED BY <3>4, <3>5
  <2> QED BY <2>1, <2>2
<1> HIDE DEF k
<1>6. Informs(d0, g, P)
  BY <1>1, <1>5, EndResultInforms
<1> QED BY <1>2, <1>6

----------------------------------------------------------------------------
(* The page, the messages to it and the host are in step: the page shows   *)
(* some display d, from which the messages lead to the display e that the  *)
(* host takes it to show in the end.                                       *)

Expected(e, P, pg) ==
  e.active = NoSource => pg # "loaded" \/ \E i \in DOMAIN P : P[i].type = "ready"

Matches(d, e) ==
  /\ d \in Display /\ e \in Display
  /\ Depicts(view, d) /\ Reaches(d, toView, e)
  /\ Current(host, e) /\ Patient(e, toHost) /\ Expected(e, toHost, page)

InStep == ~faulty => Coherent(host) /\ \E d, e : Matches(d, e)

LEMMA RestingIs ==
  ASSUME NEW h \in HostState, HostBecomes(h)
  PROVE  Unmoved(h, host') /\ host' \in HostState
<1> DEFINE g == [h EXCEPT !.out = << >>]
<1>1. << >> \in Seq(ToView)
  OBVIOUS
<1>2. g \in HostState /\ Unmoved(h, g)
  BY Zenon, <1>1 DEF HostState, Unmoved, Beside
<1>3. host' = [g EXCEPT !.html = FALSE]
  BY DEF HostBecomes
<1> HIDE DEF g
<1>4. host' \in HostState /\ Unmoved(g, host')
  BY Zenon, <1>2, <1>3 DEF HostState, Unmoved, Beside
<1> QED BY <1>2, <1>4, UnmovedOn

LEMMA BlankFits ==
  ASSUME NEW h, NEW P
  PROVE  Current(h, Blank) /\ Patient(Blank, P)
BY BlankIs DEF Current, Near, Level, Listed, Executes, Patient, NoSource

LEMMA InformsAtRest ==
  ASSUME NEW h, Sound(h), h.out = << >>, Coherent(h), NEW e \in Display, Current(h, e),
         NEW P, Patient(e, P)
  PROVE  Informs(e, h, P)
<1>1. Reaches(e, h.out, e)
  BY ReachesAtOnce
<1>2. Reached(e, h, e, P)
  BY <1>1 DEF Reached, Awake, Current
<1> QED BY <1>2 DEF Informs

(* A handler of the host keeps them in step.                               *)
LEMMA HostBecomesInStep ==
  ASSUME IInv, NEW d, NEW e, Matches(d, e), NEW h, HostBecomes(h),
         NEW f, Reached(e, h, f, toHost'), Current(h, f), Expected(f, toHost', page)
  PROVE  InStep'
<1>1. /\ Sound(h) /\ h \in HostState /\ h.out \in Seq(ToView) /\ Coherent(h) /\ f \in Display
      /\ Reaches(e, h.out, f) /\ Patient(f, toHost')
  BY DEF Reached, Sound, HostState
<1>2. Coherent(host') /\ \A g : Current(h, g) => Current(host', g)
  BY <1>1, RestingIs, UnmovedKeeps
<1>3. d \in Display /\ Depicts(view, d) /\ Reaches(d, toView, e) /\ toView \in Seq(ToView)
  BY AtRest DEF Matches
<1>4. CASE ~h.html
  <2>1. view' = view /\ toView' = toView \o h.out /\ page' = page
    BY <1>4 DEF HostBecomes
  <2>2. Reaches(d, toView', f)
    BY <1>1, <1>3, <2>1, ReachesOn
  <2>3. Matches(d, f)'
    BY <1>1, <1>2, <1>3, <2>1, <2>2 DEF Matches
  <2> QED BY <1>2, <2>3 DEF InStep
<1>5. CASE h.html
  <2>1. view' = FreshView /\ toView' = h.out /\ page' = "loading"
    BY <1>5 DEF HostBecomes
  <2>2. PICK g \in {Blank, f} : Reaches(Blank, h.out, g)
    BY <1>1, ReachesFromBlank
  <2>3. g \in Display /\ Current(host', g) /\ Patient(g, toHost')
    BY <1>1, <1>2, BlankIs, BlankFits
  <2>4. Expected(g, toHost', page')
    BY <2>1 DEF Expected
  <2>5. Matches(Blank, g)'
    BY <2>1, <2>2, <2>3, <2>4, BlankIs, FreshDepicts DEF Matches
  <2> QED BY <1>2, <2>5 DEF InStep
<1> QED BY <1>4, <1>5

LEMMA OwnStepInStep ==
  ASSUME IInv, InStep, NEW h, HostBecomes(h), toHost' = toHost,
         \A e : Informs(e, host, toHost) => Informs(e, h, toHost)
  PROVE  InStep'
<1>1. CASE faulty
  BY <1>1 DEF HostBecomes, InStep
<1>2. CASE ~faulty
  <2>1. PICK d, e : Matches(d, e)
    BY <1>2 DEF InStep
  <2>2. Informs(e, host, toHost)
    BY <1>2, <2>1, AtRest, InformsAtRest DEF Matches, InStep
  <2>3. PICK f : Reached(e, h, f, toHost) /\ Current(h, f)
    BY <2>2 DEF Informs
  <2>4. Expected(f, toHost, page)
    BY <2>1, <2>3 DEF Matches, Reached, Awake, Expected
  <2> QED BY <2>1, <2>3, <2>4, HostBecomesInStep
<1> QED BY <1>1, <1>2

LEMMA ChunkArrivesInStep ==
  ASSUME IInv, InOrder, InStep, ChunkArrives
  PROVE  InStep'
<1> DEFINE first == stream.phase = "started"
           C(total, last, columns) ==
             [id |-> stream.id, first |-> first, last |-> last, columns |-> columns,
              from |-> stream.rows, total |-> total]
<1>1. PICK total \in stream.rows .. left.rows, last \in BOOLEAN, columns \in BOOLEAN :
        /\ columns \/ (first /\ last /\ total = 0)
        /\ first \/ last \/ total > stream.rows
        /\ HostBecomes(AppendStreamingChunk(host, C(total, last, columns)))
  BY DEF ChunkArrives
<1>2. toHost' = toHost /\ stream.phase \in {"started", "streaming"}
  BY DEF ChunkArrives
<1>3. /\ Steady(host) /\ host.out = << >> /\ stream \in Executors /\ left \in Budget
      /\ HostFits(host, stream)
  BY AtRest DEF InOrder
<1>4. stream.id \in Nat /\ stream.rows \in Nat /\ total \in Nat /\ stream.rows <= total
  BY <1>3 DEF Executors, Budget
<1>5. first \in BOOLEAN /\ (first <=> stream.phase = "started")
  OBVIOUS
<1> HIDE DEF first
<1> DEFINE c == C(total, last, columns)
<1>6. c \in Chunks /\ c.id = stream.id /\ c.first = first /\ c.last = last
      /\ c.columns = columns /\ c.from = stream.rows /\ c.total = total
  BY <1>4, <1>5 DEF Chunks
<1>7. HostBecomes(AppendStreamingChunk(host, c))
  BY <1>1
<1> HIDE DEF C, c
<1>8. ChunkOf(stream, c)
  BY <1>1, <1>2, <1>5, <1>6 DEF ChunkOf
<1>9. \A e : Informs(e, host, toHost) => Informs(e, AppendStreamingChunk(host, c), toHost)
  BY <1>3, <1>8, AppendStreamingChunkInforms
<1> QED BY <1>2, <1>7, <1>9, OwnStepInStep

LEMMA ReloadInStep ==
  ASSUME IInv, InStep, ReloadPage
  PROVE  InStep'
<1> DEFINE g == [host EXCEPT !.ready = FALSE, !.html = TRUE]
<1>1. host \in HostState /\ host.out = << >>
  BY AtRest
<1>2. HostBecomes(g) /\ toHost' = toHost
  BY DEF ReloadPage
<1>3. /\ g \in HostState /\ g.html = TRUE /\ g.out = << >>
      /\ g.results = host.results /\ g.tracked = host.tracked /\ g.cancelled = host.cancelled
      /\ g.seq = host.seq /\ g.completed = host.completed /\ g.log = host.log
      /\ g.lastSentActive = host.lastSentActive /\ g.version = host.version
      /\ g.finalizeVersion = host.finalizeVersion
  BY Zenon, <1>1 DEF HostState
<1> HIDE DEF g
<1>4. Coherent(host) => Coherent(g)
  BY <1>3 DEF Coherent, Grows
<1>5. Coherent(g) => Coherent(host')
  BY <1>2, <1>3, RestingIs, UnmovedKeeps
<1>6. /\ view' = FreshView /\ toView' = << >> /\ page' = "loading" /\ faulty' = faulty
  BY <1>2, <1>3 DEF HostBecomes
<1>7. Reaches(Blank, << >>, Blank)
  BY BlankIs, ReachesAtOnce
<1>8. Matches(Blank, Blank)'
  BY <1>6, <1>7, BlankIs, BlankFits, FreshDepicts DEF Matches, Expected
<1> QED BY <1>4, <1>5, <1>6, <1>8 DEF InStep

LEMMA HostStepsInStep ==
  ASSUME IInv, InOrder, InStep,
         Start \/ StatementStarts \/ Finalize \/ SwitchEditor \/ CancelCommand
  PROVE  InStep'
<1>1. /\ Steady(host) /\ HostFits(host, stream)
  BY AtRest DEF InOrder
<1>2. << >> \in Seq(Nat) /\ Answered(toHost, << >>, toHost)
  BY DEF Answered
<1>3. CASE Start
  <2>1. PICK keep \in BOOLEAN : HostBecomes(StartExecution(host, keep))
    BY <1>3 DEF Start
  <2>2. toHost' = toHost /\ ~(host.tracked > 0)
    BY <1>1, <1>3 DEF Start, HostFits, ExecutorFits, TrackedFits
  <2>3. \A e : Informs(e, host, toHost) => Informs(e, StartExecution(host, keep), toHost)
    BY <1>1, <2>2, StartExecutionInforms
  <2> QED BY <2>1, <2>2, <2>3, OwnStepInStep
<1>4. CASE StatementStarts
  <2>1. toHost' = toHost /\ HostBecomes(LogExecutionStart(host))
    BY <1>4 DEF StatementStarts
  <2>2. \A e : Informs(e, host, toHost) => Informs(e, LogExecutionStart(host), toHost)
    BY <1>1, LogExecutionStartInforms
  <2> QED BY <2>1, <2>2, OwnStepInStep
<1>5. CASE Finalize
  <2>1. toHost' = toHost /\ HostBecomes(FinalizeExecution(host))
    BY <1>5 DEF Finalize
  <2>2. \A e : Informs(e, host, toHost) => Informs(e, FinalizeExecution(host), toHost)
    BY <1>1, FinalizeExecutionInforms
  <2> QED BY <2>1, <2>2, OwnStepInStep
<1>6. CASE SwitchEditor
  <2>1. PICK s \in Sources \ {host.focus} :
          HostBecomes(SetActiveSource([host EXCEPT !.focus = s], s))
    BY <1>6 DEF SwitchEditor
  <2>2. toHost' = toHost
    BY <1>6 DEF SwitchEditor
  <2> DEFINE k == SetActiveSource([host EXCEPT !.focus = s], s)
  <2>3. \A e : Informs(e, host, toHost) => Informs(e, k, toHost)
    BY <1>1, SwitchEditorInforms
  <2>4. HostBecomes(k)
    BY <2>1
  <2> HIDE DEF k
  <2> QED BY <2>2, <2>3, <2>4, OwnStepInStep
<1>7. CASE CancelCommand
  <2>1. toHost' = toHost /\ HostBecomes(CancelExecution(host, << >>))
    BY <1>7 DEF CancelCommand
  <2>2. \A e : Informs(e, host, toHost) => Informs(e, CancelExecution(host, << >>), toHost)
    BY Zenon, <1>1, <1>2, CancelExecutionInforms
  <2> QED BY <2>1, <2>2, OwnStepInStep
<1> QED BY <1>3, <1>4, <1>5, <1>6, <1>7

(* Every message of P that is one to wait for is among those of Q.         *)
Forwards(P, Q) ==
  \A i \in DOMAIN P :
    P[i].type \in {"cancelQuery", "ready"} => \E j \in DOMAIN Q : Q[j] = P[i]

LEMMA ForwardsKeeps ==
  ASSUME NEW P, NEW Q, Forwards(P, Q), NEW d
  PROVE  /\ \A i, cap : Pending(P, i, cap) => Pending(Q, i, cap)
         /\ Patient(d, P) => Patient(d, Q)
         /\ \A pg : Expected(d, P, pg) => Expected(d, Q, pg)
<1>1. ASSUME NEW i, NEW cap, Pending(P, i, cap) PROVE Pending(Q, i, cap)
  BY <1>1 DEF Forwards, Pending
<1>2. ASSUME NEW c \in DOMAIN P, P[c].type = "cancelQuery"
      PROVE  \E j \in DOMAIN Q : Q[j].type = "cancelQuery"
  BY <1>2 DEF Forwards
<1>3. Patient(d, P) => Patient(d, Q)
  BY <1>1, <1>2 DEF Patient
<1>4. \A pg : Expected(d, P, pg) => Expected(d, Q, pg)
  BY DEF Forwards, Expected
<1> QED BY <1>1, <1>3, <1>4

LEMMA AppendedForwards ==
  ASSUME NEW P \in Seq(ToHost), NEW Q \in Seq(ToHost)
  PROVE  Forwards(P, P \o Q) /\ \A i \in DOMAIN Q : \E j \in DOMAIN (P \o Q) : (P \o Q)[j] = Q[i]
<1> DEFINE s == P \o Q
<1>1. /\ \A i \in DOMAIN P : i \in DOMAIN s /\ s[i] = P[i]
      /\ \A i \in DOMAIN Q : Len(P) + i \in DOMAIN s /\ s[Len(P) + i] = Q[i]
  BY ConcatIs
<1> HIDE DEF s
<1>2. Forwards(P, s) /\ \A i \in DOMAIN Q : \E j \in DOMAIN s : s[j] = Q[i]
  BY <1>1 DEF Forwards
<1> QED BY <1>2 DEF s

LEMMA HostReceivesInStep ==
  ASSUME IInv, InOrder, InStep, HostReceives
  PROVE  InStep'
<1> DEFINE m == Head(toHost)
           h == Answer(host, m)
<1>1. Steady(host) /\ Sound(host) /\ host.out = << >> /\ toHost \in Seq(ToHost)
  BY AtRest
<1>2. toHost # << >> /\ toHost' = Tail(toHost) /\ HostBecomes(h)
  BY DEF HostReceives
<1>3. /\ m \in ToHost /\ m = toHost[1] /\ 1 \in DOMAIN toHost
      /\ \A i \in DOMAIN toHost : i # 1 => i - 1 \in DOMAIN toHost' /\ toHost'[i - 1] = toHost[i]
  BY <1>1, <1>2, TailIs
<1>4. m.type # "closeResult"
  BY <1>3 DEF InOrder, NothingCloses
<1> HIDE DEF m
<1>5. CASE faulty
  BY <1>2, <1>5 DEF HostBecomes, InStep
<1>6. CASE ~faulty
  <2>1. PICK d, e : Matches(d, e)
    BY <1>6 DEF InStep
  <2>2. e \in Display /\ Current(host, e) /\ Patient(e, toHost) /\ Expected(e, toHost, page)
        /\ Coherent(host)
    BY <1>6, <2>1 DEF Matches, InStep
  <2>3. CASE m \in [type : {"ready", "requestResultSync"}]
    <3>1. m.type # "cancelQuery"
      BY <2>3
    <3>2. \A i, cap : Pending(toHost, i, cap) => Pending(toHost', i, cap)
      BY <1>3, <3>1 DEF Pending
    <3>3. ASSUME NEW c \in DOMAIN toHost, toHost[c].type = "cancelQuery"
          PROVE  \E j \in DOMAIN toHost' : toHost'[j].type = "cancelQuery"
      BY <1>3, <3>1, <3>3
    <3>4. Patient(e, toHost')
      BY <2>2, <3>2, <3>3 DEF Patient
    <3>5. Informs(e, host, toHost')
      BY <1>1, <2>2, <3>4, InformsAtRest
    <3>6. CASE m.type = "ready"
      <4>1. h = ViewReady(host)
        BY <3>6 DEF Answer
      <4>2. PICK f : Reached(e, ViewReady(host), f, toHost') /\ Current(ViewReady(host), f)
                     /\ f.active # NoSource
        BY <1>1, <3>5, ViewReadyInforms
      <4>3. Expected(f, toHost', page)
        BY <4>2 DEF Expected
      <4> QED BY <1>2, <2>1, <4>1, <4>2, <4>3, HostBecomesInStep
    <3>7. CASE m.type = "requestResultSync"
      <4>1. h = ResultSyncRequest(host)
        BY <3>7 DEF Answer
      <4>2. Informs(e, ResultSyncRequest(host), toHost')
        BY <1>1, <3>5, ResultSyncRequestInforms
      <4>3. PICK f : Reached(e, h, f, toHost') /\ Current(h, f)
        BY <4>1, <4>2 DEF Informs
      <4>4. f.active = NoSource => e.active = NoSource
        BY <4>3 DEF Reached, Awake
      <4>5. ASSUME NEW i \in DOMAIN toHost, toHost[i].type = "ready"
            PROVE  \E j \in DOMAIN toHost' : toHost'[j].type = "ready"
        BY <1>3, <3>7, <4>5
      <4>6. Expected(f, toHost', page)
        BY <2>2, <4>4, <4>5 DEF Expected
      <4> HIDE DEF h
      <4> QED BY <1>2, <2>1, <4>3, <4>6, HostBecomesInStep
    <3> QED BY <2>3, <3>6, <3>7
  <2>4. CASE m \in [type : {"cancelQuery"}, counts : Seq(Nat)]
    <3>1. m.type = "cancelQuery" /\ m.counts \in Seq(Nat)
      BY <2>4
    <3>2. h = CancelExecution(host, m.counts)
      BY <3>1 DEF Answer
    <3>3. Answered(toHost, m.counts, toHost')
      <4> SUFFICES ASSUME NEW i, NEW cap, Pending(toHost, i, cap)
                   PROVE  (i \in DOMAIN m.counts /\ m.counts[i] <= cap) \/ Pending(toHost', i, cap)
        BY DEF Answered
      <4>1. PICK c \in DOMAIN toHost : /\ toHost[c].type = "cancelQuery"
                                       /\ i \in DOMAIN toHost[c].counts
                                       /\ toHost[c].counts[i] <= cap
        BY DEF Pending
      <4>2. CASE c = 1
        BY <1>3, <4>1, <4>2
      <4>3. CASE c # 1
        BY <1>3, <4>1, <4>3 DEF Pending
      <4> QED BY <4>2, <4>3
    <3>4. Informs(e, host, toHost)
      BY <1>1, <2>2, InformsAtRest
    <3>5. Informs(e, CancelExecution(host, m.counts), toHost')
      BY <1>1, <3>1, <3>3, <3>4, CancelExecutionInforms
    <3>6. PICK f : Reached(e, h, f, toHost') /\ Current(h, f)
      BY <3>2, <3>5 DEF Informs
    <3>7. f.active = NoSource => e.active = NoSource
      BY <3>6 DEF Reached, Awake
    <3>8. ASSUME NEW i \in DOMAIN toHost, toHost[i].type = "ready"
          PROVE  \E j \in DOMAIN toHost' : toHost'[j].type = "ready"
      BY <1>3, <3>1, <3>8
    <3>9. Expected(f, toHost', page)
      BY <2>2, <3>7, <3>8 DEF Expected
    <3> HIDE DEF h
    <3> QED BY <1>2, <2>1, <3>6, <3>9, HostBecomesInStep
  <2>5. CASE m \in [type : {"closeResult"}, index : Nat]
    BY <1>4, <2>5
  <2> QED BY <1>3, <2>3, <2>4, <2>5 DEF ToHost
<1> QED BY <1>5, <1>6

LEMMA ViewReceivesInStep ==
  ASSUME IInv, InOrder, InStep, ViewReceives
  PROVE  InStep'
<1> DEFINE m == toView[1]
           w == Handle(view, m)
<1>1. /\ toView # << >> /\ toView' = Tail(toView)
      /\ ViewBecomes(Handle(view, Head(toView)), << >>)
  BY DEF ViewReceives
<1>2. /\ toView \in Seq(ToView) /\ view \in ViewState /\ toHost \in Seq(ToHost)
      /\ view.out = << >>
  BY AtRest
<1>3. m \in ToView /\ ViewBecomes(w, << >>)
  BY <1>1, <1>2, TailIs
<1>4. w \in ViewState
  BY <1>2, <1>3, NothingUnderWay, HandleAsks DEF OnlyAsks
<1> HIDE DEF m
<1>5. /\ view' = [w EXCEPT !.out = << >>] /\ toHost' = (toHost \o w.out) \o << >>
      /\ host' = host /\ page' = page /\ faulty' = faulty
  BY <1>3 DEF ViewBecomes
<1>6. Forwards(toHost, toHost')
  <2>1. w.out \in Seq(ToHost)
    BY <1>4 DEF ViewState
  <2>2. toHost' = toHost \o w.out
    BY <1>2, <1>5, <2>1
  <2> HIDE DEF w
  <2> QED BY <1>2, <2>1, <2>2, AppendedForwards
<1>7. ASSUME ~faulty PROVE InStep'
  <2>1. PICK d, e : Matches(d, e)
    BY <1>7 DEF InStep
  <2>2. PICK f \in Display : Leads(d, m, f) /\ Reaches(f, toView', e)
    BY <1>1, <1>2, <2>1, ReachesNext DEF Matches, m
  <2>3. Depicts(w, f)
    BY <1>2, <1>3, <2>1, <2>2, HandleDepicts DEF Matches
  <2> HIDE DEF w
  <2>4. Depicts(view', f)
    BY <1>4, <1>5, <2>2, <2>3, QuietDepicts
  <2>5. Patient(e, toHost') /\ Expected(e, toHost', page)
    BY <1>6, <2>1, ForwardsKeeps DEF Matches
  <2>6. Matches(f, e)'
    BY <1>5, <2>1, <2>2, <2>4, <2>5 DEF Matches
  <2> QED BY <1>5, <1>7, <2>6 DEF InStep
<1> QED BY <1>5, <1>7 DEF InStep

LEMMA PageStepsInStep ==
  ASSUME IInv, InStep, PageLoads \/ PageReady \/ LoseEarly
  PROVE  InStep'
<1>1. host' = host /\ view' = view /\ faulty' = faulty
  BY DEF PageLoads, PageReady, LoseEarly
<1>2. toView \in Seq(ToView) /\ toHost \in Seq(ToHost)
  BY AtRest
<1> SUFFICES ASSUME ~faulty PROVE InStep'
  BY <1>1 DEF InStep
<1>3. PICK d, e : Matches(d, e)
  BY DEF InStep
<1>4. Coherent(host')
  BY <1>1 DEF InStep
<1>5. CASE PageLoads
  <2>1. toView' = toView /\ toHost' = toHost /\ page' = "listening"
    BY <1>5 DEF PageLoads
  <2>2. Matches(d, e)'
    BY <1>1, <1>3, <2>1 DEF Matches, Expected
  <2> QED BY <1>4, <2>2 DEF InStep
<1>6. CASE PageReady
  <2> DEFINE r == [type |-> "ready"]
  <2>1. toView' = toView /\ toHost' = Append(toHost, r)
    BY <1>6 DEF PageReady
  <2>2. r \in ToHost /\ r.type = "ready"
    BY DEF ToHost
  <2> HIDE DEF r
  <2>3. Forwards(toHost, toHost') /\ \E i \in DOMAIN toHost' : toHost'[i] = r
    BY <1>2, <2>1, <2>2 DEF Forwards
  <2>4. Expected(e, toHost', page')
    BY <2>2, <2>3 DEF Expected
  <2>5. Patient(e, toHost')
    BY <1>3, <2>3, ForwardsKeeps DEF Matches
  <2>6. Matches(d, e)'
    BY <1>1, <1>3, <2>1, <2>4, <2>5 DEF Matches
  <2> QED BY <1>4, <2>6 DEF InStep
<1>7. CASE LoseEarly
  <2>1. toView' = Tail(toView) /\ toHost' = toHost /\ page' = page /\ page = "loading"
        /\ toView # << >> /\ view = FreshView
    BY <1>7 DEF LoseEarly, IInv, StartsAnew
  <2>2. PICK f \in Display : Reaches(f, toView', e)
    BY <1>2, <1>3, <2>1, ReachesNext DEF Matches
  <2>3. toView' \in Seq(ToView)
    BY <1>2, <2>1, TailIs
  <2>4. PICK g \in {Blank, e} : Reaches(Blank, toView', g)
    BY <2>2, <2>3, ReachesFromBlank
  <2>5. g \in Display /\ Current(host', g) /\ Patient(g, toHost')
    BY <1>1, <1>3, <2>1, BlankIs, BlankFits DEF Matches
  <2>6. Expected(g, toHost', page')
    BY <2>1 DEF Expected
  <2>7. Matches(Blank, g)'
    BY <1>1, <2>1, <2>4, <2>5, <2>6, BlankIs, FreshDepicts DEF Matches
  <2> QED BY <1>4, <2>7 DEF InStep
<1> QED BY <1>5, <1>6, <1>7

LEMMA LoweredStaysCurrent ==
  ASSUME NEW h \in HostState, NEW d \in Display, Current(h, d), NEW n \in Seq(Nat)
  PROVE  Current(h, Lowered(d, n)) /\ Lowered(d, n) \in Display
<1> DEFINE e == Lowered(d, n)
<1>1. /\ e \in Display /\ e.active = d.active
      /\ d.active # "S" => e = d
      /\ d.active = "S" =>
           /\ e.executing = d.executing /\ e.open = d.open
           /\ e.next = d.next /\ e.version = d.version
           /\ DOMAIN e.results = DOMAIN d.results
           /\ \A i \in DOMAIN d.results : LowerTab(d.results[i], e.results[i], n, i)
  BY Zenon, LoweredIs
<1> HIDE DEF e
<1>2. d.active = "S" /\ Lists(h.results, d.results) => Lists(h.results, e.results)
  BY <1>1 DEF Lists, LowerTab
<1>3. Listed(h, e)
  BY <1>1, <1>2 DEF Current, Listed
<1>4. Near(h, e) /\ Level(h, e) /\ Executes(h, e) /\ (e.active = "S" => e.version <= h.version)
  BY <1>1 DEF Current, Near, Level, Executes
<1> QED BY <1>1, <1>3, <1>4 DEF Current, e

LEMMA LoweredIsPatient ==
  ASSUME NEW d \in Display, NEW n \in Seq(Nat), NEW P, Patient(d, P), NEW Q, Forwards(P, Q),
         NEW j \in DOMAIN Q, Q[j].type = "cancelQuery", Q[j].counts = n
  PROVE  Patient(Lowered(d, n), Q)
<1> DEFINE e == Lowered(d, n)
<1>1. /\ e \in Display /\ e.active = d.active
      /\ d.active # "S" => e = d
      /\ d.active = "S" =>
           /\ DOMAIN e.results = DOMAIN d.results
           /\ \A i \in DOMAIN d.results : LowerTab(d.results[i], e.results[i], n, i)
  BY Zenon, LoweredIs
<1> HIDE DEF e
<1>2. Patient(d, Q) /\ d.results \in Seq(Tab)
  BY ForwardsKeeps DEF Display
<1>3. ASSUME d.active = "S", NEW i \in DOMAIN d.results, e.results[i].cap # None
      PROVE  \/ e.results[i].cancelled /\ e.results[i].count <= e.results[i].cap
             \/ Pending(Q, i, e.results[i].cap)
  <2> DEFINE t == d.results[i]
             u == e.results[i]
  <2>1. u.cap = Cap(t, n, i) /\ u.count = t.count /\ u.cancelled = t.cancelled
    BY <1>1, <1>3 DEF LowerTab
  <2>2. t.cap # None => (t.cancelled /\ t.count <= t.cap) \/ Pending(Q, i, t.cap)
    BY <1>2, <1>3 DEF Patient
  <2>3. i \in DOMAIN n => n[i] \in Nat
    OBVIOUS
  <2> HIDE DEF t, u
  <2>4. CASE u.cap = t.cap
    BY <1>3, <2>1, <2>2, <2>4 DEF u
  <2>5. CASE u.cap # t.cap
    <3>1. i \in DOMAIN n /\ u.cap = n[i]
      BY <2>1, <2>5 DEF Cap
    <3>2. Pending(Q, i, u.cap)
      BY <2>3, <3>1 DEF Pending
    <3> QED BY <3>2 DEF u
  <2> QED BY <2>4, <2>5
<1>4. CASE d.active # "S"
  BY <1>1, <1>2, <1>4 DEF e
<1>5. CASE d.active = "S"
  <2>1. Patient(e, Q)
    BY <1>1, <1>3, <1>5 DEF Patient
  <2> QED BY <2>1 DEF e
<1> QED BY <1>4, <1>5

LEMMA ClickCancelInStep ==
  ASSUME IInv, InOrder, InStep, ClickCancel
  PROVE  InStep'
<1> DEFINE n == Counts(view)
           w == Cancel(view)
           m == [type |-> "cancelQuery", counts |-> n]
<1>1. /\ view \in ViewState /\ view.out = << >> /\ host \in HostState
      /\ toView \in Seq(ToView) /\ toHost \in Seq(ToHost)
  BY AtRest
<1>2. ViewBecomes(w, << m >>) /\ toView' = toView /\ view.active = "S"
  BY DEF ClickCancel, Counts
<1>3. /\ view' = [w EXCEPT !.out = << >>] /\ toHost' = (toHost \o w.out) \o << m >>
      /\ host' = host /\ page' = page /\ faulty' = faulty
  BY <1>2 DEF ViewBecomes
<1>4. w \in ViewState
  BY <1>1, NothingUnderWay, CancelWaits DEF OnlyAsks, Waits
<1> HIDE DEF w, n
<1>5. ASSUME ~faulty PROVE InStep'
  <2>1. PICK d, e : Matches(d, e)
    BY <1>5 DEF InStep
  <2>2. d \in Display /\ e \in Display /\ Depicts(view, d) /\ Reaches(d, toView, e)
        /\ Current(host, e) /\ Patient(e, toHost) /\ Expected(e, toHost, page)
    BY <2>1 DEF Matches
  <2>3. n \in Seq(Nat) /\ Depicts(w, Lowered(d, n))
    BY <1>1, <1>2, <2>2, ClickDepicts DEF n, w
  <2>4. m \in ToHost /\ m.type = "cancelQuery" /\ m.counts = n
    BY <2>3 DEF ToHost
  <2> HIDE DEF m
  <2>5. Forwards(toHost, toHost') /\ \E j \in DOMAIN toHost' : toHost'[j] = m
    <3>1. w.out \in Seq(ToHost) /\ << m >> \in Seq(ToHost)
      BY <1>4, <2>4 DEF ViewState
    <3> DEFINE q == toHost \o w.out
               one == << m >>
    <3>2. q \in Seq(ToHost) /\ Forwards(toHost, q)
      BY <1>1, <3>1, ConcatIs, AppendedForwards
    <3>3. one \in Seq(ToHost) /\ 1 \in DOMAIN one /\ one[1] = m
      BY <3>1
    <3>4. toHost' = q \o one
      BY <1>3
    <3> HIDE DEF q, one
    <3>5. Forwards(q, toHost') /\ \E j \in DOMAIN toHost' : toHost'[j] = one[1]
      BY Zenon, <3>2, <3>3, <3>4, AppendedForwards
    <3>6. Forwards(toHost, toHost')
      BY <3>2, <3>5 DEF Forwards
    <3> QED BY <3>3, <3>5, <3>6
  <2>6. Lowered(d, n) \in Display /\ Lowered(e, n) \in Display /\ Current(host, Lowered(e, n))
    BY Zenon, <1>1, <2>2, <2>3, LoweredStaysCurrent, LoweredIs
  <2>7. Reaches(Lowered(d, n), toView, Lowered(e, n))
    BY <1>1, <2>2, <2>3, ReachesLowered
  <2>8. Patient(Lowered(e, n), toHost')
    BY <2>2, <2>3, <2>4, <2>5, LoweredIsPatient
  <2>9. Expected(Lowered(e, n), toHost', page)
    <3>1. Lowered(e, n).active = e.active
      BY Zenon, <2>2, <2>3, LoweredIs
    <3>2. Expected(e, toHost', page)
      BY <2>2, <2>5, ForwardsKeeps
    <3> QED BY <3>1, <3>2 DEF Expected
  <2>10. Depicts(view', Lowered(d, n))
    BY Zenon, <1>3, <1>4, <2>3, <2>6, QuietDepicts
  <2>11. PICK f, g : f = Lowered(d, n) /\ g = Lowered(e, n)
    OBVIOUS
  <2>12. /\ f \in Display /\ g \in Display /\ Depicts(view', f) /\ Reaches(f, toView', g)
         /\ Current(host', g) /\ Patient(g, toHost') /\ Expected(g, toHost', page')
    BY <1>2, <1>3, <2>6, <2>7, <2>8, <2>9, <2>10, <2>11
  <2>13. Matches(f, g)'
    BY <2>12 DEF Matches
  <2> QED BY <1>3, <1>5, <2>13 DEF InStep
<1> QED BY <1>3, <1>5 DEF InStep

LEMMA StepInStep ==
  ASSUME IInv, InOrder, InStep, [Next]_vars
  PROVE  InStep'
<1>1. CASE UNCHANGED vars
  BY <1>1 DEF vars, InStep, Matches
<1>2. CASE Start \/ StatementStarts \/ Finalize \/ SwitchEditor \/ CancelCommand
  BY <1>2, HostStepsInStep
<1>3. CASE ChunkArrives
  BY <1>3, ChunkArrivesInStep
<1>4. CASE ReloadPage
  BY <1>4, ReloadInStep
<1>5. CASE HostReceives
  BY <1>5, HostReceivesInStep
<1>6. CASE PageLoads \/ PageReady \/ LoseEarly
  BY <1>6, PageStepsInStep
<1>7. CASE ViewReceives
  BY <1>7, ViewReceivesInStep
<1>8. CASE ClickCancel
  BY <1>8, ClickCancelInStep
<1>9. CASE ClickClose
  BY <1>9 DEF ClickClose, Disturbs, InOrder, NothingCloses
<1>10. CASE Fault
  BY <1>10 DEF Fault, InStep
<1> QED BY <1>1, <1>2, <1>3, <1>4, <1>5, <1>6, <1>7, <1>8, <1>9, <1>10 DEF Next

LEMMA InitInStep ==
  ASSUME Init
  PROVE  InStep
<1>1. PICK s \in Sources : IF left.opened THEN Opened(s) ELSE Opening(s)
  BY DEF Init
<1>2. toView = << >> /\ toHost = << >>
  BY DEF Init
<1> DEFINE h == Closed(s)
           k == ViewReady(h)
<1>3. Steady(h) /\ Sound(h) /\ h.out = << >>
  BY Zenon, ClosedType DEF Steady, Apt
<1>4. Coherent(h)
  BY DEF Closed, Coherent, Grows, None, NoSource
<1> HIDE DEF h
<1>5. Reaches(Blank, << >>, Blank)
  BY BlankIs, ReachesAtOnce
<1>6. CASE ~left.opened
  <2>1. host = h /\ page = "loading" /\ view = FreshView
    BY <1>1, <1>6 DEF Opening, h
  <2>2. Matches(Blank, Blank)
    BY <1>2, <1>5, <2>1, BlankIs, BlankFits, FreshDepicts DEF Matches, Expected
  <2> QED BY <1>4, <2>1, <2>2 DEF InStep
<1>7. CASE left.opened
  <2>1. host = [k EXCEPT !.out = << >>] /\ view = Replace(FreshView, k.out[1])
    BY <1>1, <1>7 DEF Opened, h
  <2>2. /\ k.out \in Seq(ToView) /\ k.out # << >> /\ k.out[1] \in Hydrates
        /\ Tail(k.out) = << >>
    BY Zenon, OpenedSettles DEF h
  <2>3. Informs(Blank, h, << >>)
    BY <1>3, <1>4, BlankIs, BlankFits, InformsAtRest
  <2>4. PICK f : Reached(Blank, k, f, << >>) /\ Current(k, f) /\ f.active # NoSource
    BY <1>3, <2>3, ViewReadyInforms
  <2> HIDE DEF k
  <2>5. f \in Display /\ Reaches(Blank, k.out, f) /\ Patient(f, << >>) /\ Coherent(k)
        /\ k \in HostState
    BY <2>4 DEF Reached, Sound
  <2>6. Leads(Blank, k.out[1], f)
    <3>1. PICK g \in Display : Leads(Blank, k.out[1], g) /\ Reaches(g, << >>, f)
      BY Zenon, <2>2, <2>5, ReachesNext
    <3>2. f = g
      BY <3>1, ReachesAtOnce
    <3> QED BY <3>1, <3>2
  <2>7. Depicts(view, f)
    <3>1. k.out[1] \in ToView /\ k.out[1].type = "hydrate"
      BY <2>2 DEF ToView, Hydrates
    <3>2. Handle(FreshView, k.out[1]) = Replace(FreshView, k.out[1])
      BY <3>1 DEF Handle
    <3>3. Depicts(Handle(FreshView, k.out[1]), f)
      BY <2>5, <2>6, <3>1, BlankIs, FreshViewType, FreshDepicts, HandleDepicts
    <3> QED BY <2>1, <3>2, <3>3
  <2>8. Unmoved(k, host)
    BY <2>1, <2>5 DEF HostState, Unmoved, Beside
  <2>9. Coherent(host) /\ Current(host, f)
    BY <2>4, <2>5, <2>8, UnmovedKeeps
  <2>10. Reaches(f, << >>, f)
    BY <2>5, ReachesAtOnce
  <2>11. Matches(f, f)
    BY <1>2, <2>4, <2>5, <2>7, <2>9, <2>10 DEF Matches, Expected
  <2> QED BY <2>9, <2>11 DEF InStep
<1> QED BY <1>6, <1>7

----------------------------------------------------------------------------
(* What the page shows when nothing is under way.                          *)

LEMMA PureSame ==
  ASSUME NEW r, NEW s, r.rows \in Seq(Row), s.rows \in Seq(Row), Pure(r), Pure(s), r.id = s.id,
         Len(r.rows) = Len(s.rows)
  PROVE  r.rows = s.rows
<1> DEFINE a == r.rows
           b == s.rows
<1>1. /\ a \in Seq(Row) /\ b \in Seq(Row) /\ Len(a) = Len(b)
      /\ \A k \in DOMAIN a : a[k] = << r.id, k >>
      /\ \A k \in DOMAIN b : b[k] = << r.id, k >>
  BY DEF Pure
<1> HIDE DEF a, b
<1>2. a = b
  BY <1>1
<1> QED BY <1>2 DEF a, b

LEMMA ImpliesQuietPanelIsCurrent ==
  ASSUME IInv, InOrder, InStep
  PROVE  QuietPanelIsCurrent
<1> SUFFICES ASSUME Quiet, ~faulty
             PROVE  /\ host.ready
                    /\ view.active = host.active
                    /\ view.log
                    /\ host.active = "S" =>
                         /\ view.executing = host.executing
                         /\ DOMAIN view.results = DOMAIN host.results
                         /\ \A i \in DOMAIN host.results :
                              ShowsAll(view.results[i], host.results[i])
  BY DEF QuietPanelIsCurrent
<1>1. PICK d, e : Matches(d, e)
  BY DEF InStep
<1>2. toView = << >> /\ toHost = << >> /\ page = "loaded"
  BY DEF Quiet
<1>3. d = e /\ d \in Display
  BY <1>1, <1>2, ReachesAtOnce DEF Matches
<1>4. /\ Depicts(view, d) /\ Current(host, d) /\ Patient(d, << >>)
      /\ Expected(d, << >>, "loaded")
  BY <1>1, <1>2, <1>3 DEF Matches
<1>5. d.active # NoSource
  BY <1>4, NothingUnderWay DEF Expected
<1>6. host.ready /\ d.active = host.active /\ view.active = d.active /\ view.log
  BY <1>4, <1>5 DEF Current, Near, Level, Depicts
<1>7. ASSUME host.active = "S"
      PROVE  /\ view.executing = host.executing
             /\ DOMAIN view.results = DOMAIN host.results
             /\ \A i \in DOMAIN host.results : ShowsAll(view.results[i], host.results[i])
  <2>1. /\ Lists(host.results, d.results) /\ DepictsAll(view.results, d.results)
        /\ d.executing = host.executing
        /\ view.executing = d.executing \/ (d.halt /\ view.executing = FALSE)
    BY <1>4, <1>6, <1>7 DEF Current, Listed, Executes, Depicts
  <2>2. /\ d.halt => d.executing = FALSE
        /\ \A i \in DOMAIN d.results : d.results[i].cap # None =>
             d.results[i].cancelled /\ d.results[i].count <= d.results[i].cap
    BY <1>4, <1>6, <1>7, NothingUnderWay DEF Patient, Pending
  <2>3. DOMAIN view.results = DOMAIN host.results /\ DOMAIN d.results = DOMAIN host.results
    BY <2>1 DEF Lists, DepictsAll
  <2>4. ASSUME NEW i \in DOMAIN host.results
        PROVE  ShowsAll(view.results[i], host.results[i])
    <3> DEFINE r == view.results[i]
               s == host.results[i]
               t == d.results[i]
    <3>1. /\ r.rows \in Seq(Row) /\ s.rows \in Seq(Row) /\ Pure(r) /\ Pure(s)
      BY <2>3, RowsAreTyped DEF ShownFits
    <3>2. t.id = s.id /\ t.count = Len(s.rows) /\ t.cancelled = s.cancelled
      BY <2>1 DEF Lists
    <3>3. DepictsTab(r, t)
      BY <2>1, <2>3 DEF DepictsAll
    <3>4. t.cap # None => t.cancelled /\ t.count <= t.cap
      BY <2>2, <2>3
    <3>5. t \in Tab
      BY <1>3, <2>3 DEF Display
    <3> HIDE DEF r, s, t
    <3>6. Len(r.rows) \in Nat /\ Len(s.rows) \in Nat
      BY <3>1
    <3>7. r.id = s.id
      BY <3>2, <3>3 DEF DepictsTab
    <3>8. ASSUME s.cancelled PROVE IsPrefix(s.rows, r.rows)
      <4>1. Len(s.rows) <= Len(r.rows)
        BY <3>2, <3>3, <3>4, <3>5, <3>6, <3>8 DEF DepictsTab, Tab
      <4> QED BY <3>1, <3>7, <4>1, PureAgree
    <3>9. ASSUME ~s.cancelled PROVE r.rows = s.rows
      <4>1. Len(r.rows) = Len(s.rows)
        BY <3>2, <3>3, <3>4, <3>5, <3>6, <3>9 DEF DepictsTab, Tab
      <4> QED BY <3>1, <3>7, <4>1, PureSame
    <3> QED BY <3>7, <3>8, <3>9 DEF ShowsAll, r, s
  <2> QED BY Zenon, <2>1, <2>2, <2>3, <2>4
<1> QED BY <1>6, <1>7

(* The page, the messages under way and the host stay in step, unless rows *)
(* were lost, repeated or overtaken.                                       *)
THEOREM StepInvariance ==
  ASSUME NoTabCloses
  PROVE  Spec => [](IInv /\ InOrder /\ InStep)
<1>1. Init => IInv /\ InOrder /\ InStep
  BY Zenon, InitSatisfies, InitInOrder, InitInStep DEF Init, NoTabCloses
<1>2. IInv /\ InOrder /\ InStep /\ [Next]_vars => (IInv /\ InOrder /\ InStep)'
  BY StepKeeps, StepInOrder, StepInStep
<1> QED BY <1>1, <1>2, PTL DEF Spec

(* When nothing is under way the page shows what the host has: the source, *)
(* and of S every result, with its rows, and whether it executes.  So no   *)
(* update is skipped that the page needs, and every reload, cancellation   *)
(* and change of the editor is made up for.                                *)
THEOREM PanelCatchesUp ==
  ASSUME NoTabCloses
  PROVE  Spec => []QuietPanelIsCurrent
<1>1. IInv /\ InOrder /\ InStep => QuietPanelIsCurrent
  BY ImpliesQuietPanelIsCurrent
<1> QED BY <1>1, StepInvariance, PTL

================================================================================
