-------------------- MODULE QueryExecutionCoordinatorProofs --------------------
(***************************************************************************)
(* Theorems about QueryExecutionCoordinator: whose session it is, which    *)
(* places a lane knows, and in which order requests start, for every set   *)
(* of lanes and requests.                                                  *)
(*                                                                         *)
(* The parts of the inductive invariant are predicates of the values they  *)
(* look at, so that an action which leaves those alone keeps the part.     *)
(***************************************************************************)
EXTENDS QueryExecutionCoordinator, Integers, FiniteSetTheorems, SequenceTheorems, TLAPS

--------------------------------------------------------------------------------
(* What a lane holds belongs to its document.                              *)
QueuesOfLane(q) == \A l \in Lanes : \A i \in DOMAIN q[l] : LaneOf[q[l][i]] = l
PlacesOfLane(r, ind) ==
  \A l \in Lanes : /\ r[l] # None => LaneOf[r[l]] = l
                   /\ \A j \in ind[l] : LaneOf[j] = l
SessionsOfLane(b, s, u) ==
  \A l \in Lanes : /\ b[l] # None => LaneOf[b[l]] = l
                   /\ s[l] # None => LaneOf[s[l]] = l
                   /\ \A x \in u[l] : LaneOf[x] = l
HoldsOfLane(h) ==
  \A l \in Lanes : h[l].at # "enter" => h[l].on \in Executions /\ LaneOf[h[l].on] = l

(* A queue holds requests that have not started, in submission order.      *)
NotStarted(q, st) == \A l \in Lanes : \A i \in DOMAIN q[l] : st[q[l][i]] \in {"preparing", "ready"}
Increasing(s, rank) == \A i, j \in DOMAIN s : i < j => rank[s[i]] < rank[s[j]]
Sorted(q, sq) == \A l \in Lanes : Increasing(q[l], sq)
SubmittedIn(st) == {k \in Jobs : st[k] # "new"}
Numbered(st, sq) == /\ \A k \in SubmittedIn(st) : sq[k] <= Cardinality(SubmittedIn(st))
                    /\ \A k \in Jobs : st[k] = "new" => sq[k] = 0

(* The callbacks in a lane's lock: an isolation is asked for by a settled  *)
(* request that waits for it, an acquisition by a command that waits for   *)
(* it, and each asks once.                                                 *)
TicketFits(k, st, oc) ==
  /\ k.kind = "isolate" => k.by \in Shared /\ st[k.by] = "isolating" /\ oc[k.by] # None
  /\ k.kind = "acquire" => k.by \in Direct /\ st[k.by] = "waiting"
Asks == {"isolate", "acquire"}
ChainFits(c, l, st, oc) ==
  /\ \A i \in DOMAIN c : LaneOf[c[i].by] = l /\ TicketFits(c[i], st, oc)
  /\ \A i, j \in DOMAIN c : c[i] = c[j] /\ c[i].kind \in Asks => i = j
ChainsFit(c, st, oc) == \A l \in Lanes : ChainFits(c[l], l, st, oc)

(* A request whose session is being isolated has left it uncertain.        *)
IsolatingFits(st, oc, req, ver) ==
  \A j \in Jobs : st[j] = "isolating" => ~ver[j] /\ (oc[j] = "cancelled" \/ req[j])

(* Whoever may be using the session is running; in a lane that is open     *)
(* that is the current execution only, and an unsafe session is blocked or *)
(* about to be isolated under the lease of the request that left it so.    *)
UsersRun(u, st) == \A l \in Lanes : \A x \in u[l] : st[x] = "running"
Open(l, cl, dis) == ~dis /\ ~cl[l]
SessionsFit(u, us, s, b, st, cl, dis) ==
  \A l \in Lanes : Open(l, cl, dis) =>
    /\ u[l] \subseteq {s[l]}
    /\ us[l] => b[l] # None \/ (s[l] \in Shared /\ st[s[l]] = "isolating")

(* PlacesMatchLeases and NoRequestLost of the values they look at.         *)
PlacesFit(r, s, ind, own, cl, dis) ==
  \A l \in Lanes : Open(l, cl, dis) =>
    /\ r[l] # None => s[l] = r[l]
    /\ s[l] \in Shared => r[l] = s[l]
    /\ ind[l] = {j \in own : LaneOf[j] = l}
NoneLost(st, rs, q, r, ind, cl, dis) ==
  \A j \in Jobs : st[j] # "new" /\ rs[j] = None =>
    LET l == LaneOf[j] IN Open(l, cl, dis) /\ (InSeq(j, q[l]) \/ r[l] = j \/ j \in ind[l])

IInv ==
  /\ TypeOK
  /\ QueuesOfLane(queued) /\ PlacesOfLane(running, independent)
  /\ SessionsOfLane(blocked, source, inUse) /\ HoldsOfLane(hold)
  /\ NotStarted(queued, state) /\ Sorted(queued, sequence) /\ Numbered(state, sequence)
  /\ ChainsFit(lock, state, outcome)
  /\ IsolatingFits(state, outcome, isolationRequired, isolationVerified)
  /\ UsersRun(inUse, state)
  /\ SessionsFit(inUse, unsafe, source, blocked, state, closed, disposed)
  /\ PlacesFit(running, source, independent, ownSources, closed, disposed)
  /\ NoneLost(state, resolved, queued, running, independent, closed, disposed)

--------------------------------------------------------------------------------
(* Requests and queues.                                                    *)

LEMMA ConstantsFit ==
  /\ \A x \in Executions : LaneOf[x] \in Lanes /\ x # None
  /\ Shared \subseteq Jobs /\ Independent \subseteq Jobs /\ Jobs \subseteq Executions
  /\ Direct \subseteq Executions /\ Shared \intersect Independent = {}
  /\ Jobs \intersect Direct = {} /\ Executions = Jobs \union Direct
  /\ \A j \in Jobs : j \in Shared \/ j \in Independent
BY PartitionAssumption, LaneOfAssumption DEF Jobs, Executions

LEMMA HeadInQueue ==
  ASSUME NEW S, NEW s \in Seq(S), s # << >>
  PROVE  Head(s) \in S /\ InSeq(Head(s), s) /\ 1 \in DOMAIN s /\ s[1] = Head(s)
<1>1. Head(s) = s[1] /\ Head(s) \in S
  BY HeadTailProperties
<1>2. Len(s) \in Nat /\ Len(s) # 0 /\ DOMAIN s = 1 .. Len(s)
  BY LenProperties, EmptySeq
<1> QED BY <1>1, <1>2 DEF InSeq

(* A set of numbers has a least one, since {0 .. k : k \in N} has one that *)
(* includes no other.                                                      *)
LEMMA LeastExists ==
  ASSUME NEW N \in SUBSET Nat, N # {}
  PROVE  Min(N) \in N /\ \A k \in N : Min(N) <= k
<1> DEFINE F == {0 .. k : k \in N}
<1>1. F \subseteq FiniteSubsetsOf(Nat)
  <2>1. ASSUME NEW k \in Nat PROVE 0 .. k \in FiniteSubsetsOf(Nat)
    <3>1. IsFiniteSet(0 .. k) BY FS_Interval
    <3>2. 0 .. k \subseteq Nat OBVIOUS
    <3> QED BY <3>1, <3>2 DEF FiniteSubsetsOf
  <2> QED BY <2>1
<1>2. \E x \in F : \A y \in F : ~ (<< y, x >> \in StrictSubsetOrdering(Nat))
  <2>1. F # {} OBVIOUS
  <2> HIDE DEF F
  <2> QED BY <1>1, <2>1, FS_StrictSubsetOrderingWellFounded, WFMin
<1>3. PICK i \in N : \A y \in F : ~ (<< y, 0 .. i >> \in StrictSubsetOrdering(Nat))
  BY <1>2
<1>4. ASSUME NEW k \in N, k < i PROVE FALSE
  <2>1. 0 .. k \subseteq 0 .. i /\ i \in 0 .. i /\ i \notin 0 .. k
    BY <1>4
  <2>2. 0 .. k \in SUBSET Nat /\ 0 .. i \in SUBSET Nat /\ 0 .. k # 0 .. i
    BY <2>1
  <2>3. << 0 .. k, 0 .. i >> \in StrictSubsetOrdering(Nat)
    BY <2>1, <2>2 DEF StrictSubsetOrdering
  <2> QED BY <1>3, <2>3
<1>5. \A k \in N : i <= k
  BY <1>4
<1> QED BY <1>5 DEF Min

(* The first request of a queue that is in K.                              *)
LEMMA FirstOfIs ==
  ASSUME NEW S, NEW s \in Seq(S), NEW K, None \notin S
  PROVE  \/ FirstOf(s, K) = None /\ \A i \in DOMAIN s : s[i] \notin K
         \/ \E i \in DOMAIN s : /\ FirstOf(s, K) = s[i] /\ s[i] \in K
                                /\ \A k \in DOMAIN s : s[k] \in K => i <= k
<1> DEFINE N == {i \in 1 .. Len(s) : s[i] \in K}
<1>1. DOMAIN s = 1 .. Len(s) /\ Len(s) \in Nat
  BY LenProperties
<1>2. FirstOf(s, K) = LET i == IF N # {} THEN Min(N) ELSE 0 IN IF i = 0 THEN None ELSE s[i]
  BY DEF FirstOf, SelectInSeq
<1>3. CASE N = {}
  BY <1>1, <1>2, <1>3
<1>4. CASE N # {}
  <2>1. Min(N) \in N /\ \A k \in N : Min(N) <= k
    <3>1. N \in SUBSET Nat BY <1>1
    <3> HIDE DEF N
    <3> QED BY <1>4, <3>1, LeastExists
  <2>2. PICK i \in N : i = Min(N) /\ \A k \in N : i <= k
    BY <2>1
  <2>3. FirstOf(s, K) = s[i]
    BY <1>1, <1>2, <1>4, <2>2
  <2> QED BY <1>1, <2>2, <2>3
<1> QED BY <1>3, <1>4

LEMMA FirstIndependentIs ==
  ASSUME NEW s \in Seq(Jobs)
  PROVE  FirstIndependent(s) = None \/ (FirstIndependent(s) \in Independent /\ InSeq(FirstIndependent(s), s))
<1>1. None \notin Jobs
  BY ConstantsFit
<1> QED BY <1>1, FirstOfIs DEF FirstIndependent, InSeq

LEMMA QueuedIsJob ==
  ASSUME NEW s \in Seq(Jobs), NEW x, InSeq(x, s)
  PROVE  x \in Jobs
<1>1. PICK i \in DOMAIN s : s[i] = x
  BY DEF InSeq
<1>2. DOMAIN s = 1 .. Len(s)
  BY LenProperties
<1> QED BY <1>1, <1>2, ElementOfSeq

(* What a pump wants is in its queue, now and after a step.                *)
LEMMA NextEligibleQueued ==
  ASSUME NEW l \in Lanes, queued[l] \in Seq(Jobs)
  PROVE  NextEligible(l) = None \/ (NextEligible(l) \in Jobs /\ InSeq(NextEligible(l), queued[l]))
<1>1. queued[l] # << >> => Head(queued[l]) \in Jobs /\ InSeq(Head(queued[l]), queued[l])
  BY HeadInQueue
<1>2. FirstIndependent(queued[l]) = None
        \/ (FirstIndependent(queued[l]) \in Jobs /\ InSeq(FirstIndependent(queued[l]), queued[l]))
  BY FirstIndependentIs, ConstantsFit
<1> QED BY <1>1, <1>2 DEF NextEligible

LEMMA NextEligibleQueuedAfter ==
  ASSUME NEW l \in Lanes, queued'[l] \in Seq(Jobs)
  PROVE  NextEligible(l)' = None \/ (NextEligible(l)' \in Jobs /\ InSeq(NextEligible(l)', queued'[l]))
<1>1. queued'[l] # << >> => Head(queued'[l]) \in Jobs /\ InSeq(Head(queued'[l]), queued'[l])
  BY HeadInQueue
<1>2. FirstIndependent(queued'[l]) = None
        \/ (FirstIndependent(queued'[l]) \in Jobs /\ InSeq(FirstIndependent(queued'[l]), queued'[l]))
  BY FirstIndependentIs, ConstantsFit
<1> QED BY <1>1, <1>2 DEF NextEligible

--------------------------------------------------------------------------------
(* Lock chains.                                                            *)

(* A lane may start to pump for a request of its own.                      *)
Grows(c, d, l) ==
  \/ d = c
  \/ \E j \in Jobs : LaneOf[j] = l /\ d = Append(c, TicketOf("pump", j))
AllGrow(c) ==
  /\ lock' = [l \in Lanes |-> lock'[l]]
  /\ \A l \in Lanes : Grows(c[l], lock'[l], l)

LEMMA WantedGrows ==
  ASSUME NEW l \in Lanes, queued[l] \in Seq(Jobs), QueuesOfLane(queued), NEW c, NEW among
  PROVE  Grows(c, Pumped(c, Wanted(l, among)), l)
<1> DEFINE j == Wanted(l, among)
<1>1. j = None \/ j = NextEligible(l)
  BY DEF Wanted
<1>2. j = None \/ (j \in Jobs /\ InSeq(j, queued[l]))
  <2> HIDE DEF j
  <2> QED BY <1>1, NextEligibleQueued
<1>3. j = None \/ (j \in Jobs /\ LaneOf[j] = l)
  <2> HIDE DEF j
  <2> QED BY <1>2 DEF InSeq, QueuesOfLane
<1> HIDE DEF j
<1>4. Grows(c, Pumped(c, j), l)
  BY <1>3 DEF Grows, Pumped
<1> QED BY <1>4 DEF j

LEMMA WantedGrowsAfter ==
  ASSUME NEW l \in Lanes, queued'[l] \in Seq(Jobs), QueuesOfLane(queued'), NEW c
  PROVE  Grows(c, Pumped(c, Wanted(l, Lanes)'), l)
<1>1. Wanted(l, Lanes)' = None \/ Wanted(l, Lanes)' = NextEligible(l)'
  BY DEF Wanted
<1>2. PICK j : j = Wanted(l, Lanes)'
  OBVIOUS
<1>3. j = None \/ (j \in Jobs /\ InSeq(j, queued'[l]))
  BY <1>1, <1>2, NextEligibleQueuedAfter
<1>4. j = None \/ (j \in Jobs /\ LaneOf[j] = l)
  BY <1>3 DEF InSeq, QueuesOfLane
<1>5. Grows(c, Pumped(c, j), l)
  BY <1>4 DEF Grows, Pumped
<1> QED BY <1>5, <1>2

LEMMA PumpAllGrows ==
  ASSUME NEW chains, queued' \in [Lanes -> Seq(Jobs)], QueuesOfLane(queued'), PumpAll(chains)
  PROVE  AllGrow(chains)
<1>1. lock' = [l \in Lanes |-> Pumped(chains[l], Wanted(l, Lanes)')]
  BY DEF PumpAll
<1>2. ASSUME NEW l \in Lanes PROVE Grows(chains[l], lock'[l], l)
  <2>1. Grows(chains[l], Pumped(chains[l], Wanted(l, Lanes)'), l)
    BY WantedGrowsAfter
  <2> QED BY <1>1, <2>1
<1>3. lock' = [l \in Lanes |-> lock'[l]]
  BY <1>1
<1> QED BY <1>2, <1>3 DEF AllGrow

LEMMA SameGrows ==
  ASSUME NEW chains, chains = [l \in Lanes |-> chains[l]], lock' = chains
  PROVE  AllGrow(chains)
BY DEF AllGrow, Grows

LEMMA AppendFits ==
  ASSUME NEW l \in Lanes, NEW c \in Seq(Ticket), NEW st, NEW oc, ChainFits(c, l, st, oc),
         NEW k \in Kinds, NEW x \in Executions, LaneOf[x] = l, TicketFits(TicketOf(k, x), st, oc),
         k \in Asks => \A i \in DOMAIN c : c[i] # TicketOf(k, x)
  PROVE  /\ Append(c, TicketOf(k, x)) \in Seq(Ticket)
         /\ ChainFits(Append(c, TicketOf(k, x)), l, st, oc)
<1> DEFINE t == TicketOf(k, x)
           d == Append(c, t)
           n == Len(c)
<1>1. t \in Ticket /\ t.kind = k /\ t.by = x
  BY DEF Ticket, TicketOf
<1>2. d \in Seq(Ticket) /\ Len(d) = n + 1 /\ (\A i \in 1 .. n : d[i] = c[i]) /\ d[n + 1] = t
  <2> HIDE DEF t
  <2> QED BY <1>1, AppendProperties
<1>3. n \in Nat /\ DOMAIN c = 1 .. n /\ DOMAIN d = 1 .. (n + 1)
  <2> HIDE DEF t, d
  <2> QED BY <1>2, LenProperties
<1>4. TicketFits(t, st, oc)
  OBVIOUS
<1>5. k \in Asks => \A i \in DOMAIN c : c[i] # t
  OBVIOUS
<1> HIDE DEF t, d, n
<1>6. ASSUME NEW i \in 1 .. (n + 1) PROVE LaneOf[d[i].by] = l /\ TicketFits(d[i], st, oc)
  <2>1. CASE i = n + 1 BY <2>1, <1>1, <1>2, <1>4
  <2>2. CASE i # n + 1
    <3>1. i \in 1 .. n BY <2>2, <1>3
    <3> QED BY <3>1, <1>2, <1>3 DEF ChainFits
  <2> QED BY <2>1, <2>2
<1>7. ASSUME NEW i \in 1 .. (n + 1), NEW j \in 1 .. (n + 1), d[i] = d[j], d[i].kind \in Asks PROVE i = j
  <2>1. CASE i \in 1 .. n /\ j \in 1 .. n
    BY <2>1, <1>2, <1>3, <1>7 DEF ChainFits
  <2>2. CASE i = n + 1 /\ j \in 1 .. n
    BY <2>2, <1>1, <1>2, <1>3, <1>5, <1>7
  <2>3. CASE j = n + 1 /\ i \in 1 .. n
    BY <2>3, <1>1, <1>2, <1>3, <1>5, <1>7
  <2> QED BY <2>1, <2>2, <2>3, <1>3
<1>8. ChainFits(d, l, st, oc)
  BY <1>3, <1>6, <1>7 DEF ChainFits
<1> QED BY <1>2, <1>8 DEF d, t

LEMMA PumpFits ==
  ASSUME NEW l \in Lanes, NEW c \in Seq(Ticket), NEW st, NEW oc, ChainFits(c, l, st, oc),
         NEW d, Grows(c, d, l)
  PROVE  d \in Seq(Ticket) /\ ChainFits(d, l, st, oc)
<1>1. CASE d = c
  BY <1>1
<1>2. CASE d # c
  <2>1. PICK j \in Jobs : LaneOf[j] = l /\ d = Append(c, TicketOf("pump", j))
    BY <1>2 DEF Grows
  <2>2. "pump" \in Kinds /\ "pump" \notin Asks /\ j \in Executions /\ TicketFits(TicketOf("pump", j), st, oc)
    BY ConstantsFit DEF Kinds, Asks, TicketFits, TicketOf
  <2> QED BY <2>1, <2>2, AppendFits
<1> QED BY <1>1, <1>2

LEMMA AllGrowFits ==
  ASSUME NEW c \in [Lanes -> Seq(Ticket)], NEW st, NEW oc, ChainsFit(c, st, oc), AllGrow(c)
  PROVE  lock' \in [Lanes -> Seq(Ticket)] /\ ChainsFit(lock', st, oc)
<1>1. ASSUME NEW l \in Lanes PROVE lock'[l] \in Seq(Ticket) /\ ChainFits(lock'[l], l, st, oc)
  BY PumpFits DEF AllGrow, ChainsFit
<1>2. lock' = [l \in Lanes |-> lock'[l]]
  BY DEF AllGrow
<1> QED BY <1>1, <1>2 DEF ChainsFit

LEMMA TailFits ==
  ASSUME NEW l \in Lanes, NEW c \in Seq(Ticket), NEW st, NEW oc, ChainFits(c, l, st, oc), c # << >>
  PROVE  /\ Tail(c) \in Seq(Ticket) /\ ChainFits(Tail(c), l, st, oc)
         /\ Head(c) \in Ticket /\ LaneOf[Head(c).by] = l /\ TicketFits(Head(c), st, oc)
         /\ \A i \in DOMAIN Tail(c) : Tail(c)[i].kind \in Asks => Tail(c)[i] # Head(c)
<1> DEFINE d == Tail(c)
           n == Len(c)
<1>1. d \in Seq(Ticket) /\ Len(d) = n - 1 /\ (\A i \in 1 .. (n - 1) : d[i] = c[i + 1])
  BY HeadTailProperties
<1>2. n \in Nat /\ n # 0 /\ DOMAIN c = 1 .. n /\ Len(d) \in Nat /\ DOMAIN d = 1 .. Len(d)
  <2>1. n \in Nat /\ n # 0 /\ DOMAIN c = 1 .. n BY LenProperties, EmptySeq
  <2> HIDE DEF d
  <2> QED BY <1>1, <2>1, LenProperties
<1>3. Head(c) \in Ticket /\ Head(c) = c[1] /\ 1 \in DOMAIN c
  BY HeadInQueue
<1> HIDE DEF d, n
<1>4. ASSUME NEW i \in DOMAIN d PROVE i + 1 \in DOMAIN c /\ d[i] = c[i + 1] /\ i + 1 # 1
  BY <1>1, <1>2
<1>5. ChainFits(d, l, st, oc)
  <2>1. ASSUME NEW i \in DOMAIN d PROVE LaneOf[d[i].by] = l /\ TicketFits(d[i], st, oc)
    BY <1>4 DEF ChainFits
  <2>2. ASSUME NEW i \in DOMAIN d, NEW j \in DOMAIN d, d[i] = d[j], d[i].kind \in Asks PROVE i = j
    <3>1. i + 1 = j + 1 BY <2>2, <1>4 DEF ChainFits
    <3> QED BY <3>1, <1>2
  <2> QED BY <2>1, <2>2 DEF ChainFits
<1>6. ASSUME NEW i \in DOMAIN d, d[i].kind \in Asks PROVE d[i] # Head(c)
  BY <1>3, <1>4, <1>6 DEF ChainFits
<1> QED BY <1>1, <1>3, <1>5, <1>6 DEF d, ChainFits

(* A chain whose asking requests keep their states still fits.             *)
Undisturbed(st, st2, oc, oc2) ==
  \A x \in Executions : st[x] \in {"isolating", "waiting"} => st2[x] = st[x] /\ (st[x] = "isolating" /\ x \in Jobs => oc2[x] = oc[x])

LEMMA ChainsUndisturbed ==
  ASSUME NEW c \in [Lanes -> Seq(Ticket)], NEW st, NEW st2, NEW oc, NEW oc2,
         ChainsFit(c, st, oc), Undisturbed(st, st2, oc, oc2)
  PROVE  ChainsFit(c, st2, oc2)
<1>1. ASSUME NEW l \in Lanes, NEW i \in DOMAIN c[l] PROVE TicketFits(c[l][i], st2, oc2)
  <2>1. TicketFits(c[l][i], st, oc)
    BY DEF ChainsFit, ChainFits
  <2> QED BY <2>1, ConstantsFit DEF TicketFits, Undisturbed
<1> QED BY <1>1 DEF ChainsFit, ChainFits

(* The callback at the head of a chain returns and its request goes on.    *)
LEMMA HeadLeaves ==
  ASSUME NEW c \in [Lanes -> Seq(Ticket)], NEW l \in Lanes, c[l] # << >>, NEW st, NEW st2, NEW oc,
         ChainsFit(c, st, oc), Head(c[l]).kind \in Asks,
         \A x \in Executions : x # Head(c[l]).by => st2[x] = st[x]
  PROVE  ChainsFit([c EXCEPT ![l] = Tail(@)], st2, oc)
<1> DEFINE d == [c EXCEPT ![l] = Tail(@)]
           h == Head(c[l])
<1>0. c[l] \in Seq(Ticket) /\ ChainFits(c[l], l, st, oc)
  BY DEF ChainsFit
<1>1. /\ Tail(c[l]) \in Seq(Ticket) /\ ChainFits(Tail(c[l]), l, st, oc)
      /\ h \in Ticket /\ LaneOf[h.by] = l /\ TicketFits(h, st, oc)
      /\ \A i \in DOMAIN Tail(c[l]) : Tail(c[l])[i].kind \in Asks => Tail(c[l])[i] # h
  BY <1>0, TailFits
<1>2. ASSUME NEW m \in Lanes PROVE d[m] \in Seq(Ticket) /\ ChainFits(d[m], m, st, oc)
  BY <1>1 DEF ChainsFit
<1>3. ASSUME NEW m \in Lanes, NEW i \in DOMAIN d[m] PROVE TicketFits(d[m][i], st2, oc)
  <2> DEFINE t == d[m][i]
  <2>1. t \in Ticket
    <3> HIDE DEF d
    <3> QED BY <1>2, LenProperties, ElementOfSeq
  <2>2. TicketFits(t, st, oc) /\ LaneOf[t.by] = m
    <3> HIDE DEF d
    <3> QED BY <1>2 DEF ChainFits
  <2>3. CASE m # l
    <3>1. t.by # h.by BY <1>1, <2>2, <2>3
    <3>2. \A x \in Executions : x # h.by => st2[x] = st[x] OBVIOUS
    <3> HIDE DEF d, t, h
    <3>3. t.by \in Executions BY <2>1 DEF Ticket
    <3>4. TicketFits(t, st2, oc) BY <2>2, <3>1, <3>2, <3>3 DEF TicketFits
    <3> QED BY <3>4 DEF t
  <2>4. CASE m = l
    <3>1. t.kind \in Asks => t # h BY <1>1, <2>4
    <3>2. t.kind \in Asks /\ t.by = h.by => t.kind = h.kind
      <4> HIDE DEF d, t, h
      <4> QED BY <2>2, <1>1, ConstantsFit DEF TicketFits, Asks, h
    <3>3. h.kind \in Asks OBVIOUS
    <3>4. t.kind \in Asks => t.by # h.by
      <4> HIDE DEF d, t, h
      <4> QED BY <3>1, <3>2, <2>1, <1>1 DEF Ticket
    <3>5. \A x \in Executions : x # h.by => st2[x] = st[x] OBVIOUS
    <3> HIDE DEF d, t, h
    <3>6. t.by \in Executions BY <2>1 DEF Ticket
    <3>7. TicketFits(t, st2, oc) BY <2>2, <3>4, <3>5, <3>6 DEF TicketFits, Asks
    <3> QED BY <3>7 DEF t
  <2> QED BY <2>3, <2>4
<1> HIDE DEF d
<1>4. ChainsFit(d, st2, oc)
  BY <1>2, <1>3 DEF ChainsFit, ChainFits
<1> QED BY <1>4 DEF d

LEMMA LeftFits ==
  ASSUME NEW c \in [Lanes -> Seq(Ticket)], NEW l \in Lanes, c[l] # << >>, NEW st, NEW oc,
         ChainsFit(c, st, oc)
  PROVE  /\ [c EXCEPT ![l] = Tail(@)] \in [Lanes -> Seq(Ticket)]
         /\ ChainsFit([c EXCEPT ![l] = Tail(@)], st, oc)
         /\ Head(c[l]) \in Ticket /\ LaneOf[Head(c[l]).by] = l /\ TicketFits(Head(c[l]), st, oc)
<1>1. c[l] \in Seq(Ticket) /\ ChainFits(c[l], l, st, oc)
  BY DEF ChainsFit
<1>2. /\ Tail(c[l]) \in Seq(Ticket) /\ ChainFits(Tail(c[l]), l, st, oc)
      /\ Head(c[l]) \in Ticket /\ LaneOf[Head(c[l]).by] = l /\ TicketFits(Head(c[l]), st, oc)
  BY <1>1, TailFits
<1> QED BY <1>2 DEF ChainsFit

LEMMA JoinedFits ==
  ASSUME NEW c \in [Lanes -> Seq(Ticket)], NEW l \in Lanes, NEW st, NEW oc, ChainsFit(c, st, oc),
         NEW k \in Kinds, NEW x \in Executions, LaneOf[x] = l, TicketFits(TicketOf(k, x), st, oc),
         k \in Asks => \A i \in DOMAIN c[l] : c[l][i] # TicketOf(k, x)
  PROVE  /\ [c EXCEPT ![l] = Append(@, TicketOf(k, x))] \in [Lanes -> Seq(Ticket)]
         /\ ChainsFit([c EXCEPT ![l] = Append(@, TicketOf(k, x))], st, oc)
<1>1. c[l] \in Seq(Ticket) /\ ChainFits(c[l], l, st, oc)
  BY DEF ChainsFit
<1>2. /\ Append(c[l], TicketOf(k, x)) \in Seq(Ticket)
      /\ ChainFits(Append(c[l], TicketOf(k, x)), l, st, oc)
  BY <1>1, AppendFits
<1> QED BY <1>2 DEF ChainsFit

(* A request that does not wait in a chain yet may ask.                    *)
LEMMA JoinedOnceFits ==
  ASSUME NEW c \in [Lanes -> Seq(Ticket)], NEW st \in [Executions -> States], NEW oc, ChainsFit(c, st, oc),
         NEW st2, NEW oc2, NEW x \in Executions, st[x] \notin {"isolating", "waiting"},
         \A y \in Executions : y # x => st2[y] = st[y] /\ (y \in Jobs => oc2[y] = oc[y]),
         NEW k \in Asks, TicketFits(TicketOf(k, x), st2, oc2)
  PROVE  /\ [c EXCEPT ![LaneOf[x]] = Append(@, TicketOf(k, x))] \in [Lanes -> Seq(Ticket)]
         /\ ChainsFit([c EXCEPT ![LaneOf[x]] = Append(@, TicketOf(k, x))], st2, oc2)
<1>1. LaneOf[x] \in Lanes /\ k \in Kinds
  BY ConstantsFit DEF Asks, Kinds
<1>2. ChainsFit(c, st2, oc2)
  <2>1. Undisturbed(st, st2, oc, oc2)
    BY DEF Undisturbed
  <2> QED BY <2>1, ChainsUndisturbed
<1>3. ASSUME NEW i \in DOMAIN c[LaneOf[x]] PROVE c[LaneOf[x]][i] # TicketOf(k, x)
  <2>1. TicketFits(c[LaneOf[x]][i], st, oc)
    BY <1>1 DEF ChainsFit, ChainFits
  <2>2. ~TicketFits(TicketOf(k, x), st, oc)
    BY DEF TicketFits, TicketOf, Asks
  <2> QED BY <2>1, <2>2
<1> QED BY <1>1, <1>2, <1>3, JoinedFits

--------------------------------------------------------------------------------
(* Steps that leave requests and sessions alone: they move the callbacks   *)
(* of a lock, pause a lane, mark a request for isolation.                  *)

QuietVars == << queued, running, independent, blocked, sourceVars, jobVars, isolationVerified,
                closed, disposed, sessionVars >>

LEMMA QuietKeeps ==
  ASSUME IInv, UNCHANGED QuietVars,
         paused' \in [Lanes -> BOOLEAN], recovering' \in [Lanes -> BOOLEAN], limits' \in Limits,
         isolationRequired' \in [Jobs -> BOOLEAN],
         \A j \in Jobs : isolationRequired[j] => isolationRequired'[j],
         hold' \in [Lanes -> [at : Prompts \union Awaits \union {"enter", "recovered"},
                              on : Executions \union {None}]],
         HoldsOfLane(hold'),
         lock' \in [Lanes -> Seq(Ticket)], ChainsFit(lock', state, outcome)
  PROVE  IInv'
<1> USE DEF QuietVars, sourceVars, jobVars, sessionVars
<1>1. TypeOK'
  BY DEF IInv, TypeOK
<1>2. IsolatingFits(state', outcome', isolationRequired', isolationVerified')
  BY DEF IInv, IsolatingFits
<1> QED BY <1>1, <1>2 DEF IInv

Points == Prompts \union Awaits \union {"enter", "recovered"}
HoldTypes == [Lanes -> [at : Points, on : Executions \union {None}]]

LEMMA HoldFits ==
  ASSUME NEW h \in HoldTypes, HoldsOfLane(h), NEW l \in Lanes,
         NEW at \in Points, NEW x \in Executions, LaneOf[x] = l
  PROVE  /\ [h EXCEPT ![l] = Holding(at, x)] \in HoldTypes
         /\ HoldsOfLane([h EXCEPT ![l] = Holding(at, x)])
<1> DEFINE p == Holding(at, x)
<1>1. p \in [at : Points, on : Executions \union {None}] /\ p.at = at /\ p.on = x
  BY DEF Holding
<1> HIDE DEF p
<1>2. [h EXCEPT ![l] = p] \in HoldTypes /\ HoldsOfLane([h EXCEPT ![l] = p])
  BY <1>1 DEF HoldTypes, HoldsOfLane
<1> QED BY <1>2 DEF p

LEMMA MovedFits ==
  ASSUME NEW h \in HoldTypes, HoldsOfLane(h), NEW l \in Lanes, NEW at \in Points, h[l].at # "enter"
  PROVE  /\ [h EXCEPT ![l].at = at] \in HoldTypes
         /\ HoldsOfLane([h EXCEPT ![l].at = at])
<1> DEFINE p == [h[l] EXCEPT !.at = at]
<1>1. h[l] \in [at : Points, on : Executions \union {None}]
  BY DEF HoldTypes
<1>2. p \in [at : Points, on : Executions \union {None}] /\ p.at = at /\ p.on = h[l].on
  BY <1>1
<1>3. [h EXCEPT ![l].at = at] = [h EXCEPT ![l] = p]
  OBVIOUS
<1> HIDE DEF p
<1>4. [h EXCEPT ![l] = p] \in HoldTypes /\ HoldsOfLane([h EXCEPT ![l] = p])
  BY <1>2 DEF HoldTypes, HoldsOfLane
<1> QED BY <1>3, <1>4

LEMMA LeaveFits ==
  ASSUME NEW h \in HoldTypes, HoldsOfLane(h), NEW l \in Lanes
  PROVE  /\ [h EXCEPT ![l] = NotEntered] \in HoldTypes
         /\ HoldsOfLane([h EXCEPT ![l] = NotEntered])
<1> DEFINE p == NotEntered
<1>1. p \in [at : Points, on : Executions \union {None}] /\ p.at = "enter"
  BY DEF NotEntered, Points
<1> HIDE DEF p
<1>2. [h EXCEPT ![l] = p] \in HoldTypes /\ HoldsOfLane([h EXCEPT ![l] = p])
  BY <1>1 DEF HoldTypes, HoldsOfLane
<1> QED BY <1>2 DEF p

(* What the proofs of the actions start from.                              *)
LEMMA InvFacts ==
  ASSUME IInv
  PROVE  /\ queued \in [Lanes -> Seq(Jobs)] /\ lock \in [Lanes -> Seq(Ticket)]
         /\ hold \in HoldTypes /\ HoldsOfLane(hold)
         /\ state \in [Executions -> States] /\ outcome \in [Jobs -> Outcomes \union {None}]
         /\ QueuesOfLane(queued) /\ ChainsFit(lock, state, outcome)
         /\ blocked \in [Lanes -> Shared \union {None}]
         /\ source \in [Lanes -> Shared \union Direct \union {None}]
         /\ SessionsOfLane(blocked, source, inUse)
BY DEF IInv, TypeOK, HoldTypes, Points

(* A quiet step that changes the chain and the await of one lane only.     *)
LEMMA LockStepKeeps ==
  ASSUME IInv, UNCHANGED QuietVars, UNCHANGED << paused, limits, isolationRequired >>,
         recovering' \in [Lanes -> BOOLEAN], hold' \in HoldTypes, HoldsOfLane(hold'),
         lock' \in [Lanes -> Seq(Ticket)], ChainsFit(lock', state, outcome)
  PROVE  IInv'
<1>1. /\ paused' \in [Lanes -> BOOLEAN] /\ limits' \in Limits
      /\ isolationRequired' \in [Jobs -> BOOLEAN]
      /\ \A j \in Jobs : isolationRequired[j] => isolationRequired'[j]
  BY DEF IInv, TypeOK
<1> QED BY <1>1, QuietKeeps DEF HoldTypes, Points

LEMMA HeadKnown ==
  ASSUME IInv, NEW l \in Lanes, lock[l] # << >>
  PROVE  /\ Head(lock[l]) \in Ticket /\ Head(lock[l]).by \in Executions
         /\ LaneOf[Head(lock[l]).by] = l /\ TicketFits(Head(lock[l]), state, outcome)
         /\ Left(l) \in [Lanes -> Seq(Ticket)] /\ ChainsFit(Left(l), state, outcome)
<1>1. lock \in [Lanes -> Seq(Ticket)] /\ ChainsFit(lock, state, outcome)
  BY InvFacts
<1>2. /\ [lock EXCEPT ![l] = Tail(@)] \in [Lanes -> Seq(Ticket)]
      /\ ChainsFit([lock EXCEPT ![l] = Tail(@)], state, outcome)
      /\ Head(lock[l]) \in Ticket /\ LaneOf[Head(lock[l]).by] = l
      /\ TicketFits(Head(lock[l]), state, outcome)
  BY <1>1, LeftFits
<1> QED BY <1>2 DEF Left, Ticket

LEMMA PumpAllFits ==
  ASSUME NEW c \in [Lanes -> Seq(Ticket)], NEW st, NEW oc, ChainsFit(c, st, oc),
         queued' \in [Lanes -> Seq(Jobs)], QueuesOfLane(queued'), PumpAll(c)
  PROVE  lock' \in [Lanes -> Seq(Ticket)] /\ ChainsFit(lock', st, oc)
BY PumpAllGrows, AllGrowFits

LEMMA NotAdmittedKeeps ==
  ASSUME IInv, NEW l \in Lanes, NotAdmitted(l)
  PROVE  IInv'
<1> USE DEF NotAdmitted, laneVars, entryVars, ownerVars
<1>1. lock[l] # << >>
  BY DEF HeadIs
<1>2. Left(l) \in [Lanes -> Seq(Ticket)] /\ ChainsFit(Left(l), state, outcome)
  BY <1>1, HeadKnown
<1> DEFINE d == IF TriesNext(l) THEN Pumped(Tail(lock[l]), Wanted(l, Lanes)) ELSE Tail(lock[l])
<1>3. Grows(Tail(lock[l]), d, l)
  <2>1. Grows(Tail(lock[l]), Pumped(Tail(lock[l]), Wanted(l, Lanes)), l)
    BY InvFacts, WantedGrows
  <2> QED BY <2>1 DEF Grows
<1>4. Left(l)[l] = Tail(lock[l]) /\ \A m \in Lanes : m # l => Left(l)[m] = lock[m]
  BY InvFacts DEF Left
<1>5. lock' = [lock EXCEPT ![l] = d]
  OBVIOUS
<1> HIDE DEF d
<1>6. AllGrow(Left(l))
  BY <1>3, <1>4, <1>5, InvFacts DEF AllGrow, Grows
<1>7. lock' \in [Lanes -> Seq(Ticket)] /\ ChainsFit(lock', state, outcome)
  BY <1>2, <1>6, AllGrowFits
<1>8. hold' \in HoldTypes /\ HoldsOfLane(hold') /\ recovering' \in [Lanes -> BOOLEAN]
  BY InvFacts DEF IInv, TypeOK
<1>9. UNCHANGED QuietVars /\ UNCHANGED << paused, limits, isolationRequired >>
  BY DEF QuietVars
<1> QED BY <1>7, <1>8, <1>9, LockStepKeeps

LEMMA SetPausedKeeps ==
  ASSUME IInv, NEW l \in Lanes, NEW b \in BOOLEAN, SetPaused(l, b)
  PROVE  IInv'
<1> USE DEF SetPaused, entryVars, ownerVars
<1>1. lock' \in [Lanes -> Seq(Ticket)] /\ ChainsFit(lock', state, outcome)
  <2>1. PumpAll(lock) /\ queued' = queued OBVIOUS
  <2> HIDE DEF SetPaused
  <2> QED BY <2>1, InvFacts, PumpAllFits
<1>2. UNCHANGED QuietVars /\ hold' = hold
  BY DEF QuietVars
<1>3. paused' \in [Lanes -> BOOLEAN] /\ recovering' \in [Lanes -> BOOLEAN] /\ limits' \in Limits
  BY DEF IInv, TypeOK
<1>4. isolationRequired' \in [Jobs -> BOOLEAN] /\ isolationRequired' = isolationRequired
  BY DEF IInv, TypeOK
<1>5. hold' \in HoldTypes /\ HoldsOfLane(hold')
  BY <1>2, InvFacts
<1> HIDE DEF SetPaused
<1> QED BY <1>1, <1>2, <1>3, <1>4, <1>5, QuietKeeps DEF HoldTypes, Points

LEMMA ConfigureKeeps ==
  ASSUME IInv, NEW p \in Limits, ConfigureParallelLimits(p)
  PROVE  IInv'
<1> USE DEF ConfigureParallelLimits, laneVars, entryVars
<1>1. lock' \in [Lanes -> Seq(Ticket)] /\ ChainsFit(lock', state, outcome)
  <2>1. PumpAll(lock) /\ queued' = queued OBVIOUS
  <2> HIDE DEF ConfigureParallelLimits
  <2> QED BY <2>1, InvFacts, PumpAllFits
<1>2. UNCHANGED QuietVars /\ hold' = hold
  BY DEF QuietVars
<1>3. paused' \in [Lanes -> BOOLEAN] /\ recovering' \in [Lanes -> BOOLEAN] /\ limits' \in Limits
  BY DEF IInv, TypeOK
<1>4. isolationRequired' \in [Jobs -> BOOLEAN] /\ isolationRequired' = isolationRequired
  BY DEF IInv, TypeOK
<1>5. hold' \in HoldTypes /\ HoldsOfLane(hold')
  BY <1>2, InvFacts
<1> HIDE DEF ConfigureParallelLimits
<1> QED BY <1>1, <1>2, <1>3, <1>4, <1>5, QuietKeeps DEF HoldTypes, Points

LEMMA CancelRunningKeeps ==
  ASSUME IInv, NEW x \in Executions, CancelRunning(x)
  PROVE  IInv'
<1> USE DEF CancelRunning, laneVars, ownerVars
<1>1. UNCHANGED QuietVars /\ hold' = hold /\ lock' = lock
  BY DEF QuietVars
<1>2. paused' \in [Lanes -> BOOLEAN] /\ recovering' \in [Lanes -> BOOLEAN] /\ limits' \in Limits
  BY DEF IInv, TypeOK
<1>3. isolationRequired' = [isolationRequired EXCEPT ![x] = TRUE] /\ isolationRequired \in [Jobs -> BOOLEAN]
  BY DEF IInv, TypeOK
<1>4. isolationRequired' \in [Jobs -> BOOLEAN] /\ \A j \in Jobs : isolationRequired[j] => isolationRequired'[j]
  BY <1>3
<1>5. hold' \in HoldTypes /\ HoldsOfLane(hold') /\ lock' \in [Lanes -> Seq(Ticket)] /\ ChainsFit(lock', state, outcome)
  BY <1>1, InvFacts
<1> HIDE DEF CancelRunning
<1> QED BY <1>1, <1>2, <1>4, <1>5, QuietKeeps DEF HoldTypes, Points

(* A callback enters: it holds the lock for the request of its ticket.     *)
LEMMA EntersKeeps ==
  ASSUME IInv, NEW l \in Lanes, lock[l] # << >>, NEW at \in Points, NEW x \in Executions, LaneOf[x] = l,
         hold' = [hold EXCEPT ![l] = Holding(at, x)],
         UNCHANGED << laneVars, sourceVars, lock, jobVars, entryVars, ownerVars, sessionVars >>
  PROVE  IInv'
<1> USE DEF laneVars, entryVars, ownerVars
<1>1. hold' \in HoldTypes /\ HoldsOfLane(hold')
  BY InvFacts, HoldFits
<1>2. lock' \in [Lanes -> Seq(Ticket)] /\ ChainsFit(lock', state, outcome)
  BY InvFacts
<1>3. UNCHANGED QuietVars /\ UNCHANGED << paused, limits, isolationRequired >>
  BY DEF QuietVars
<1>4. recovering' \in [Lanes -> BOOLEAN]
  BY DEF IInv, TypeOK
<1> QED BY <1>1, <1>2, <1>3, <1>4, LockStepKeeps

LEMMA IsolationEntersKeeps ==
  ASSUME IInv, NEW l \in Lanes, IsolationEnters(l)
  PROVE  IInv'
<1>1. lock[l] # << >> /\ "isolating" \in Points
  BY DEF IsolationEnters, HeadIs, Points, Awaits
<1>2. Head(lock[l]).by \in Executions /\ LaneOf[Head(lock[l]).by] = l
  BY <1>1, HeadKnown
<1>3. /\ hold' = [hold EXCEPT ![l] = Holding("isolating", Head(lock[l]).by)]
      /\ UNCHANGED << laneVars, sourceVars, lock, jobVars, entryVars, ownerVars, sessionVars >>
  BY DEF IsolationEnters
<1> QED BY <1>1, <1>2, <1>3, EntersKeeps

LEMMA RecoverEntersKeeps ==
  ASSUME IInv, NEW l \in Lanes, RecoverEnters(l)
  PROVE  IInv'
<1>1. lock[l] # << >> /\ "choosing" \in Points
  BY DEF RecoverEnters, HeadIs, Points, Prompts
<1>2. Head(lock[l]).by \in Executions /\ LaneOf[Head(lock[l]).by] = l
  BY <1>1, HeadKnown
<1>3. /\ hold' = [hold EXCEPT ![l] = Holding("choosing", Head(lock[l]).by)]
      /\ UNCHANGED << laneVars, sourceVars, lock, jobVars, entryVars, ownerVars, sessionVars >>
  BY DEF RecoverEnters
<1> QED BY <1>1, <1>2, <1>3, EntersKeeps

LEMMA RepairEntersKeeps ==
  ASSUME IInv, NEW l \in Lanes, RepairEnters(l)
  PROVE  IInv'
<1>1. lock[l] # << >> /\ "repairing" \in Points
  BY DEF RepairEnters, HeadIs, Points, Awaits
<1>2. Head(lock[l]).by \in Executions /\ LaneOf[Head(lock[l]).by] = l
  BY <1>1, HeadKnown
<1>3. /\ hold' = [hold EXCEPT ![l] = Holding("repairing", Head(lock[l]).by)]
      /\ UNCHANGED << laneVars, sourceVars, lock, jobVars, entryVars, ownerVars, sessionVars >>
  BY DEF RepairEnters
<1> QED BY <1>1, <1>2, <1>3, EntersKeeps

LEMMA MovesOnKeeps ==
  ASSUME IInv, NEW l \in Lanes, NEW at \in Points, hold[l].at # "enter", MovesOn(l, at)
  PROVE  IInv'
<1> USE DEF laneVars, entryVars, ownerVars
<1>0. /\ hold' = [hold EXCEPT ![l].at = at]
      /\ UNCHANGED << laneVars, sourceVars, lock, jobVars, entryVars, ownerVars, sessionVars >>
  BY DEF MovesOn
<1>1. hold' \in HoldTypes /\ HoldsOfLane(hold')
  BY <1>0, InvFacts, MovedFits
<1>2. lock' \in [Lanes -> Seq(Ticket)] /\ ChainsFit(lock', state, outcome)
  BY <1>0, InvFacts
<1>3. UNCHANGED QuietVars /\ UNCHANGED << paused, limits, isolationRequired >>
  BY <1>0 DEF QuietVars
<1>4. recovering' \in [Lanes -> BOOLEAN]
  BY <1>0 DEF IInv, TypeOK
<1> QED BY <1>1, <1>2, <1>3, <1>4, LockStepKeeps

(* A recovery asked for from the queue view, or a repair, is over.         *)
LEMMA RecoveryEndsKeeps ==
  ASSUME IInv, NEW l \in Lanes, lock[l] # << >>, LeaveLock(l),
         recovering' = [recovering EXCEPT ![l] = FALSE],
         UNCHANGED << queued, running, independent, paused, blocked, sourceVars, jobVars,
                      entryVars, ownerVars, sessionVars >>,
         PumpAll(Left(l))
  PROVE  IInv'
<1> USE DEF entryVars, ownerVars
<1>1. hold' \in HoldTypes /\ HoldsOfLane(hold')
  BY InvFacts, LeaveFits DEF LeaveLock
<1>2. Left(l) \in [Lanes -> Seq(Ticket)] /\ ChainsFit(Left(l), state, outcome)
  BY HeadKnown
<1>3. lock' \in [Lanes -> Seq(Ticket)] /\ ChainsFit(lock', state, outcome)
  BY <1>2, InvFacts, PumpAllFits
<1>4. UNCHANGED QuietVars /\ UNCHANGED << paused, limits, isolationRequired >>
  BY DEF QuietVars
<1>5. recovering' \in [Lanes -> BOOLEAN]
  BY DEF IInv, TypeOK
<1> QED BY <1>1, <1>3, <1>4, <1>5, LockStepKeeps

(* A recovery or a repair is asked for.                                    *)
LEMMA AsksKeeps ==
  ASSUME IInv, NEW l \in Lanes, NEW k \in {"recover", "repair"}, NEW x \in Executions, LaneOf[x] = l,
         recovering' \in [Lanes -> BOOLEAN], lock' = Joined(l, k, x),
         UNCHANGED << queued, running, independent, paused, blocked, sourceVars, hold, jobVars,
                      entryVars, ownerVars, sessionVars >>
  PROVE  IInv'
<1> USE DEF entryVars, ownerVars
<1>1. hold' \in HoldTypes /\ HoldsOfLane(hold')
  BY InvFacts
<1>2. TicketFits(TicketOf(k, x), state, outcome) /\ k \in Kinds /\ k \notin Asks
  BY DEF TicketFits, TicketOf, Kinds, Asks
<1>3. lock' \in [Lanes -> Seq(Ticket)] /\ ChainsFit(lock', state, outcome)
  BY <1>2, InvFacts, JoinedFits DEF Joined
<1>4. UNCHANGED QuietVars /\ UNCHANGED << paused, limits, isolationRequired >>
  BY DEF QuietVars
<1> QED BY <1>1, <1>3, <1>4, LockStepKeeps

LEMMA RecoverRunningKeeps ==
  ASSUME IInv, NEW x \in Executions, RecoverRunning(x)
  PROVE  IInv'
<1>1. LaneOf[x] \in Lanes
  BY ConstantsFit
<1>2. recovering' \in [Lanes -> BOOLEAN]
  BY DEF RecoverRunning, IInv, TypeOK
<1>3. /\ lock' = Joined(LaneOf[x], "recover", x)
      /\ UNCHANGED << queued, running, independent, paused, blocked, sourceVars, hold, jobVars,
                      entryVars, ownerVars, sessionVars >>
  BY DEF RecoverRunning
<1> QED BY <1>1, <1>2, <1>3, AsksKeeps

LEMMA RepairChosenKeeps ==
  ASSUME IInv, NEW l \in Lanes, RepairChosen(l)
  PROVE  IInv'
<1>1. blocked[l] \in Executions /\ LaneOf[blocked[l]] = l
  BY InvFacts, ConstantsFit DEF RepairChosen, RepairPrompted, SessionsOfLane
<1>2. recovering' \in [Lanes -> BOOLEAN]
  BY DEF RepairChosen, IInv, TypeOK, laneVars
<1>3. /\ lock' = Joined(l, "repair", blocked[l])
      /\ UNCHANGED << queued, running, independent, paused, blocked, sourceVars, hold, jobVars,
                      entryVars, ownerVars, sessionVars >>
  BY DEF RepairChosen, laneVars
<1> QED BY <1>1, <1>2, <1>3, AsksKeeps

LEMMA RecoverBlockedKeeps ==
  ASSUME IInv, NEW l \in Lanes, RecoverBlockedSession(l)
  PROVE  IInv'
<1> USE DEF RecoverBlockedSession, entryVars, ownerVars
<1>1. hold' \in HoldTypes /\ HoldsOfLane(hold')
  BY InvFacts
<1>2. lock' \in [Lanes -> Seq(Ticket)] /\ ChainsFit(lock', state, outcome)
  BY InvFacts
<1>3. UNCHANGED QuietVars /\ UNCHANGED << paused, limits, isolationRequired >>
  BY DEF QuietVars
<1>4. recovering' \in [Lanes -> BOOLEAN]
  BY DEF IInv, TypeOK
<1> QED BY <1>1, <1>2, <1>3, <1>4, LockStepKeeps

LEMMA RepairAbandonedKeeps ==
  ASSUME IInv, NEW l \in Lanes, RepairAbandoned(l)
  PROVE  IInv'
<1> USE DEF RepairAbandoned, entryVars, ownerVars
<1>1. hold' \in HoldTypes /\ HoldsOfLane(hold')
  BY InvFacts
<1>2. lock' \in [Lanes -> Seq(Ticket)] /\ ChainsFit(lock', state, outcome)
  <2>1. PumpAll(lock) /\ queued' = queued OBVIOUS
  <2> HIDE DEF RepairAbandoned
  <2> QED BY <2>1, InvFacts, PumpAllFits
<1>3. UNCHANGED QuietVars /\ UNCHANGED << paused, limits, isolationRequired >>
  BY DEF QuietVars
<1>4. recovering' \in [Lanes -> BOOLEAN]
  BY DEF IInv, TypeOK
<1> QED BY <1>1, <1>2, <1>3, <1>4, LockStepKeeps

--------------------------------------------------------------------------------
(* The queue.                                                              *)

LEMMA InQueueFacts ==
  ASSUME IInv, NEW l \in Lanes, NEW x, InSeq(x, queued[l])
  PROVE  x \in Jobs /\ LaneOf[x] = l /\ state[x] \in {"preparing", "ready"}
<1>1. PICK i \in DOMAIN queued[l] : queued[l][i] = x
  BY DEF InSeq
<1>2. x \in Jobs
  BY InvFacts, QueuedIsJob
<1> QED BY <1>1, <1>2 DEF IInv, QueuesOfLane, NotStarted

LEMMA SubmittedFinite ==
  ASSUME NEW st
  PROVE  IsFiniteSet(SubmittedIn(st)) /\ Cardinality(SubmittedIn(st)) \in Nat
<1>1. SubmittedIn(st) \in SUBSET Jobs /\ IsFiniteSet(Jobs)
  BY PartitionAssumption DEF SubmittedIn
<1>2. IsFiniteSet(SubmittedIn(st))
  BY <1>1, FS_Subset
<1> QED BY <1>2, FS_CardinalityType

(* A request is submitted: it is counted.                                  *)
LEMMA Counts ==
  ASSUME NEW st, NEW j \in Jobs, st[j] = "new", NEW st2, st2[j] # "new",
         \A k \in Jobs : k # j => st2[k] = st[k]
  PROVE  /\ SubmittedIn(st2) = SubmittedIn(st) \union {j}
         /\ Cardinality(SubmittedIn(st2)) = Cardinality(SubmittedIn(st)) + 1
<1>1. SubmittedIn(st2) = SubmittedIn(st) \union {j} /\ j \notin SubmittedIn(st)
  BY DEF SubmittedIn
<1>2. IsFiniteSet(SubmittedIn(st))
  BY SubmittedFinite
<1>3. Cardinality(SubmittedIn(st) \union {j}) = Cardinality(SubmittedIn(st)) + 1
  BY <1>1, <1>2, FS_AddElement
<1> QED BY <1>1, <1>3

(* Steps that submit nothing leave the count as it is.                     *)
LEMMA StaysNumbered ==
  ASSUME NEW st, NEW st2, NEW sq, Numbered(st, sq), \A k \in Jobs : st2[k] # "new" <=> st[k] # "new"
  PROVE  Numbered(st2, sq)
<1>1. SubmittedIn(st2) = SubmittedIn(st)
  BY DEF SubmittedIn
<1> QED BY <1>1 DEF Numbered

LEMMA InAppend ==
  ASSUME NEW S, NEW q \in Seq(S), NEW x \in S, NEW y
  PROVE  InSeq(y, Append(q, x)) <=> InSeq(y, q) \/ y = x
<1> DEFINE d == Append(q, x)
           n == Len(q)
<1>1. d \in Seq(S) /\ Len(d) = n + 1 /\ (\A i \in 1 .. n : d[i] = q[i]) /\ d[n + 1] = x
  BY AppendProperties
<1>2. n \in Nat /\ DOMAIN q = 1 .. n /\ DOMAIN d = 1 .. (n + 1)
  <2> HIDE DEF d
  <2> QED BY <1>1, LenProperties
<1>3. \A i \in 1 .. (n + 1) : i = n + 1 \/ i \in 1 .. n
  BY <1>2
<1>4. n + 1 \in 1 .. (n + 1) /\ \A i \in 1 .. n : i \in 1 .. (n + 1)
  BY <1>2
<1> HIDE DEF d, n
<1>5. InSeq(y, d) => InSeq(y, q) \/ y = x
  BY <1>1, <1>2, <1>3 DEF InSeq
<1>6. InSeq(y, q) \/ y = x => InSeq(y, d)
  BY <1>1, <1>2, <1>4 DEF InSeq
<1> QED BY <1>5, <1>6 DEF d

LEMMA AppendIncreasing ==
  ASSUME NEW S, NEW q \in Seq(S), NEW x \in S, NEW rank, NEW rank2, Increasing(q, rank),
         \A i \in DOMAIN q : rank2[q[i]] = rank[q[i]] /\ rank2[q[i]] < rank2[x]
  PROVE  Increasing(Append(q, x), rank2)
<1> DEFINE d == Append(q, x)
           n == Len(q)
<1>1. d \in Seq(S) /\ Len(d) = n + 1 /\ (\A i \in 1 .. n : d[i] = q[i]) /\ d[n + 1] = x
  BY AppendProperties
<1>2. n \in Nat /\ DOMAIN q = 1 .. n /\ DOMAIN d = 1 .. (n + 1)
  <2> HIDE DEF d
  <2> QED BY <1>1, LenProperties
<1> HIDE DEF d, n
<1>3. ASSUME NEW i \in 1 .. (n + 1), NEW j \in 1 .. (n + 1), i < j PROVE rank2[d[i]] < rank2[d[j]]
  <2>1. i \in 1 .. n
    BY <1>2, <1>3
  <2>2. CASE j = n + 1
    BY <2>1, <2>2, <1>1, <1>2
  <2>3. CASE j # n + 1
    <3>1. j \in 1 .. n BY <2>3, <1>2
    <3> QED BY <2>1, <3>1, <1>1, <1>2, <1>3 DEF Increasing
  <2> QED BY <2>2, <2>3
<1>4. Increasing(d, rank2)
  BY <1>2, <1>3 DEF Increasing
<1> QED BY <1>4 DEF d

LEMMA EnqueueKeeps ==
  ASSUME IInv, NEW j \in Jobs, Enqueue(j)
  PROVE  IInv'
<1> DEFINE l == LaneOf[j]
           n == Cardinality(SubmittedIn(state))
<1>0. /\ l \in Lanes /\ j \in Executions /\ state[j] = "new" /\ n \in Nat
      /\ UNCHANGED << running, independent, paused, recovering, blocked, sourceVars, lock,
                      hold, outcome, entryVars, ownerVars, sessionVars >>
  BY ConstantsFit, SubmittedFinite DEF Enqueue
<1> USE DEF sourceVars, entryVars, ownerVars, sessionVars
<1>t. /\ queued \in [Lanes -> Seq(Jobs)] /\ state \in [Executions -> States]
      /\ sequence \in [Jobs -> Nat] /\ resolved \in [Jobs -> Outcomes \union {None}]
  BY DEF IInv, TypeOK
<1>a. ASSUME NEW m \in Lanes, NEW i \in DOMAIN queued[m]
      PROVE  /\ queued[m][i] \in Jobs /\ queued[m][i] # j
             /\ sequence[queued[m][i]] <= n /\ queued[m][i] \in SubmittedIn(state)
  <2>1. InSeq(queued[m][i], queued[m]) BY DEF InSeq
  <2>2. queued[m][i] \in Jobs /\ state[queued[m][i]] \in {"preparing", "ready"} BY <2>1, InQueueFacts
  <2>3. queued[m][i] \in SubmittedIn(state) /\ queued[m][i] # j BY <2>2, <1>0 DEF SubmittedIn
  <2> QED BY <2>2, <2>3 DEF IInv, Numbered
<1>b. PICK s \in States : state' = [state EXCEPT ![j] = s] /\ s \in {"preparing", "done"}
  BY DEF Enqueue, States
<1>c. state' \in [Executions -> States] /\ state'[j] = s /\ \A x \in Executions : x # j => state'[x] = state[x]
  BY <1>0, <1>b, <1>t
<1>d. \A k \in Jobs : k # j => state'[k] = state[k]
  BY <1>c, ConstantsFit
<1>e. Cardinality(SubmittedIn(state')) = n + 1 /\ SubmittedIn(state') = SubmittedIn(state) \union {j}
  BY <1>0, <1>b, <1>c, <1>d, Counts
<1>f. \A k \in SubmittedIn(state) : k \in Jobs /\ sequence[k] \in Nat /\ sequence[k] <= n
  BY <1>t DEF IInv, Numbered, SubmittedIn
<1>9. ChainsFit(lock', state', outcome')
  <2>1. Undisturbed(state, state', outcome, outcome) BY <1>0, <1>c DEF Undisturbed
  <2> QED BY <2>1, <1>0, InvFacts, ChainsUndisturbed
<1>10. IsolatingFits(state', outcome', isolationRequired', isolationVerified')
  BY <1>0, <1>b, <1>c, <1>d DEF IInv, IsolatingFits
<1>11. UsersRun(inUse', state')
  <2>1. \A m \in Lanes : inUse[m] \subseteq Executions BY ConstantsFit DEF IInv, TypeOK
  <2> QED BY <2>1, <1>0, <1>c DEF IInv, UsersRun
<1>12. SessionsFit(inUse', unsafe', source', blocked', state', closed', disposed')
  <2>1. \A m \in Lanes : source[m] \in Shared /\ state[source[m]] = "isolating" => state'[source[m]] = "isolating"
    BY <1>0, <1>c, ConstantsFit
  <2> QED BY <2>1, <1>0 DEF IInv, SessionsFit
<1>r. PlacesOfLane(running', independent') /\ SessionsOfLane(blocked', source', inUse') /\ HoldsOfLane(hold')
        /\ PlacesFit(running', source', independent', ownSources', closed', disposed')
  BY <1>0 DEF IInv
<1>A. CASE Registered(l)
  <2>1. queued' = [queued EXCEPT ![l] = Append(@, j)] /\ s = "preparing" /\ resolved' = resolved
    BY <1>A, <1>0, <1>b, <1>c DEF Enqueue
  <2>2. sequence' = [sequence EXCEPT ![j] = n + 1]
    BY <1>A DEF Enqueue, SubmittedIn
  <2>3. sequence' \in [Jobs -> Nat] /\ sequence'[j] = n + 1 /\ \A k \in Jobs : k # j => sequence'[k] = sequence[k]
    BY <2>2, <1>0, <1>t
  <2>4. /\ Append(queued[l], j) \in Seq(Jobs) /\ queued'[l] = Append(queued[l], j)
        /\ \A m \in Lanes : m # l => queued'[m] = queued[m]
        /\ queued' \in [Lanes -> Seq(Jobs)]
    <3>0. queued[l] \in Seq(Jobs) BY <1>0, <1>t
    <3>1. Append(queued[l], j) \in Seq(Jobs) BY <3>0, AppendProperties
    <3> HIDE DEF l
    <3>2. queued' = [queued EXCEPT ![l] = Append(queued[l], j)] BY <2>1
    <3> QED BY <3>1, <3>2, <1>0, <1>t
  <2>5. \A m \in Lanes, x \in Jobs : InSeq(x, queued'[m]) <=> InSeq(x, queued[m]) \/ (m = l /\ x = j)
    <3>1. ASSUME NEW m \in Lanes, NEW x \in Jobs
          PROVE  InSeq(x, queued'[m]) <=> InSeq(x, queued[m]) \/ (m = l /\ x = j)
      <4>0. queued[l] \in Seq(Jobs) BY <1>0, <1>t
      <4>1. InSeq(x, Append(queued[l], j)) <=> InSeq(x, queued[l]) \/ x = j BY <4>0, InAppend
      <4> HIDE DEF l
      <4>2. CASE m = l BY <4>1, <4>2, <2>4
      <4>3. CASE m # l BY <4>3, <2>4
      <4> QED BY <4>2, <4>3
    <3> QED BY <3>1
  <2>6. ASSUME NEW m \in Lanes, NEW i \in DOMAIN queued'[m]
        PROVE  LaneOf[queued'[m][i]] = m /\ state'[queued'[m][i]] \in {"preparing", "ready"}
    <3>1. InSeq(queued'[m][i], queued'[m]) BY DEF InSeq
    <3>2. queued'[m][i] \in Jobs BY <2>4, <3>1, QueuedIsJob
    <3>3. CASE queued'[m][i] = j
      <4>1. m = l
        <5>1. InSeq(j, queued[m]) => FALSE BY <1>a DEF InSeq
        <5> QED BY <3>1, <3>3, <5>1, <2>5
      <4> QED BY <4>1, <3>3, <2>1, <1>c
    <3>4. CASE queued'[m][i] # j
      <4>1. InSeq(queued'[m][i], queued[m]) BY <3>1, <3>2, <3>4, <2>5
      <4> QED BY <4>1, <3>2, <3>4, <1>d, InQueueFacts
    <3> QED BY <3>3, <3>4
  <2>7. Sorted(queued', sequence')
    <3>1. ASSUME NEW m \in Lanes PROVE Increasing(queued'[m], sequence')
      <4>1. Increasing(queued[m], sequence) BY DEF IInv, Sorted
      <4>2. \A i \in DOMAIN queued[m] : sequence'[queued[m][i]] = sequence[queued[m][i]]
                                        /\ sequence'[queued[m][i]] < sequence'[j]
        BY <1>a, <1>0, <1>t, <2>3
      <4>3. CASE m = l BY <4>1, <4>2, <4>3, <1>t, <2>4, AppendIncreasing
      <4>4. CASE m # l
        <5>1. queued'[m] = queued[m] BY <4>4, <2>4
        <5> QED BY <5>1, <4>1, <4>2 DEF Increasing
      <4> QED BY <4>3, <4>4
    <3> QED BY <3>1 DEF Sorted
  <2>8. Numbered(state', sequence')
    <3>1. ASSUME NEW k \in SubmittedIn(state') PROVE sequence'[k] <= n + 1
      <4>1. CASE k = j BY <4>1, <2>3, <1>0
      <4>2. CASE k # j
        <5>1. k \in SubmittedIn(state) BY <4>2, <1>e
        <5> QED BY <5>1, <4>2, <1>f, <2>3, <1>0
      <4> QED BY <4>1, <4>2
    <3>2. ASSUME NEW k \in Jobs, state'[k] = "new" PROVE sequence'[k] = 0
      <4>1. k # j BY <3>2, <1>c, <1>b
      <4>2. state[k] = "new" /\ sequence'[k] = sequence[k] BY <4>1, <3>2, <1>d, <2>3
      <4> QED BY <4>2 DEF IInv, Numbered
    <3> QED BY <3>1, <3>2, <1>e DEF Numbered
  <2>9. NoneLost(state', resolved', queued', running', independent', closed', disposed')
    <3>1. ASSUME NEW k \in Jobs, state'[k] # "new", resolved'[k] = None
          PROVE  /\ Open(LaneOf[k], closed, disposed)
                 /\ InSeq(k, queued'[LaneOf[k]]) \/ running[LaneOf[k]] = k \/ k \in independent[LaneOf[k]]
      <4>1. CASE k = j BY <4>1, <1>A, <1>0, <2>5 DEF Registered, Open
      <4>2. CASE k # j
        <5>1. state[k] # "new" /\ resolved[k] = None /\ LaneOf[k] \in Lanes BY <4>2, <3>1, <1>d, <2>1, ConstantsFit
        <5>2. /\ Open(LaneOf[k], closed, disposed)
              /\ InSeq(k, queued[LaneOf[k]]) \/ running[LaneOf[k]] = k \/ k \in independent[LaneOf[k]]
          BY <5>1 DEF IInv, NoneLost
        <5> QED BY <5>1, <5>2, <2>5
      <4> QED BY <4>1, <4>2
    <3> QED BY <3>1, <1>0 DEF NoneLost
  <2>10. TypeOK'
    BY <1>0, <1>c, <2>1, <2>3, <2>4 DEF IInv, TypeOK
  <2>11. QueuesOfLane(queued') /\ NotStarted(queued', state')
    BY <2>6 DEF QueuesOfLane, NotStarted
  <2> QED BY <1>9, <1>10, <1>11, <1>12, <1>r, <2>7, <2>8, <2>9, <2>10, <2>11 DEF IInv
<1>B. CASE ~Registered(l)
  <2>1. queued' = queued /\ sequence' = sequence /\ Resolve({j}, "cancelled")
    BY <1>B DEF Enqueue
  <2>2. resolved' \in [Jobs -> Outcomes \union {None}] /\ resolved'[j] # None
          /\ \A k \in Jobs : k # j => resolved'[k] = resolved[k]
    BY <2>1, <1>t DEF Resolve, Outcomes, None
  <2>3. NotStarted(queued', state')
    <3>1. \A m \in Lanes : \A i \in DOMAIN queued[m] : state'[queued[m][i]] = state[queued[m][i]]
      BY <1>a, <1>d
    <3> QED BY <2>1, <3>1 DEF IInv, NotStarted
  <2>4. Numbered(state', sequence')
    <3>0. sequence[j] <= n + 1
      <4>1. sequence[j] = 0 BY <1>0 DEF IInv, Numbered
      <4> QED BY <4>1, <1>0
    <3>1. ASSUME NEW k \in SubmittedIn(state') PROVE sequence'[k] <= n + 1
      <4>1. CASE k = j BY <4>1, <3>0, <2>1
      <4>2. CASE k # j
        <5>1. k \in SubmittedIn(state) BY <4>2, <1>e
        <5> QED BY <5>1, <1>f, <2>1, <1>0
      <4> QED BY <4>1, <4>2
    <3>2. ASSUME NEW k \in Jobs, state'[k] = "new" PROVE sequence'[k] = 0
      <4>1. k # j BY <3>2, <1>c, <1>b
      <4>2. state[k] = "new" /\ sequence'[k] = sequence[k] BY <4>1, <3>2, <1>d, <2>1
      <4> QED BY <4>2 DEF IInv, Numbered
    <3> QED BY <3>1, <3>2, <1>e DEF Numbered
  <2>5. NoneLost(state', resolved', queued', running', independent', closed', disposed')
    BY <2>1, <2>2, <1>d, <1>0 DEF IInv, NoneLost
  <2>6. TypeOK'
    BY <1>0, <1>c, <2>1, <2>2 DEF IInv, TypeOK
  <2>7. QueuesOfLane(queued') /\ Sorted(queued', sequence')
    BY <2>1 DEF IInv
  <2> QED BY <1>9, <1>10, <1>11, <1>12, <1>r, <2>3, <2>4, <2>5, <2>6, <2>7 DEF IInv
<1> QED BY <1>A, <1>B

(* Requests that have not started change their states: whoever uses a      *)
(* session, isolates one or asks for a lock does not notice.               *)
IdleChange(st, st2) ==
  \A x \in Executions : \/ st2[x] = st[x]
                        \/ st[x] \in {"preparing", "ready"} /\ st2[x] \in {"ready", "done"}

LEMMA IdleKeeps ==
  ASSUME IInv, IdleChange(state, state'),
         UNCHANGED << outcome, sequence, entryVars, closed, disposed, sessionVars, source, blocked >>
  PROVE  /\ ChainsFit(lock, state', outcome')
         /\ IsolatingFits(state', outcome', isolationRequired', isolationVerified')
         /\ UsersRun(inUse', state')
         /\ SessionsFit(inUse', unsafe', source', blocked', state', closed', disposed')
         /\ Numbered(state', sequence')
<1> USE DEF entryVars, sessionVars
<1>1. ChainsFit(lock, state', outcome')
  <2>1. Undisturbed(state, state', outcome, outcome') BY DEF Undisturbed, IdleChange
  <2> QED BY <2>1, InvFacts, ChainsUndisturbed
<1>2. IsolatingFits(state', outcome', isolationRequired', isolationVerified')
  BY ConstantsFit DEF IInv, IsolatingFits, IdleChange
<1>3. UsersRun(inUse', state')
  <2>1. \A m \in Lanes : inUse[m] \subseteq Executions BY ConstantsFit DEF IInv, TypeOK
  <2> QED BY <2>1 DEF IInv, UsersRun, IdleChange
<1>4. SessionsFit(inUse', unsafe', source', blocked', state', closed', disposed')
  <2>1. \A m \in Lanes : source[m] \in Shared /\ state[source[m]] = "isolating" => state'[source[m]] = "isolating"
    BY ConstantsFit DEF IdleChange
  <2> QED BY <2>1 DEF IInv, SessionsFit
<1>5. Numbered(state', sequence')
  <2>1. \A k \in Jobs : state'[k] # "new" <=> state[k] # "new" BY ConstantsFit DEF IdleChange
  <2>2. Numbered(state, sequence) BY DEF IInv
  <2>3. Numbered(state', sequence) BY <2>1, <2>2, StaysNumbered
  <2> QED BY <2>3
<1> QED BY <1>1, <1>2, <1>3, <1>4, <1>5

LEMMA PreparedKeeps ==
  ASSUME IInv, NEW j \in Jobs, Prepared(j)
  PROVE  IInv'
<1>0. /\ j \in Executions /\ state[j] = "preparing" /\ state' = [state EXCEPT ![j] = "ready"]
      /\ UNCHANGED << laneVars, sourceVars, hold, outcome, resolved, sequence, entryVars,
                      ownerVars, sessionVars >>
      /\ PumpAll(lock)
  BY ConstantsFit DEF Prepared
<1> USE DEF laneVars, sourceVars, entryVars, ownerVars, sessionVars
<1>1. state \in [Executions -> States]
  BY InvFacts
<1>2. state' \in [Executions -> States] /\ IdleChange(state, state')
  BY <1>0, <1>1 DEF States, IdleChange
<1>3. /\ ChainsFit(lock, state', outcome')
      /\ IsolatingFits(state', outcome', isolationRequired', isolationVerified')
      /\ UsersRun(inUse', state')
      /\ SessionsFit(inUse', unsafe', source', blocked', state', closed', disposed')
      /\ Numbered(state', sequence')
  <2>1. UNCHANGED << outcome, sequence, entryVars, closed, disposed, sessionVars, source, blocked >>
    BY <1>0
  <2> QED BY <1>2, <2>1, IdleKeeps
<1>4. lock' \in [Lanes -> Seq(Ticket)] /\ ChainsFit(lock', state', outcome')
  <2>1. queued' = queued BY <1>0
  <2> QED BY <2>1, <1>0, <1>3, InvFacts, PumpAllFits
<1>5. NotStarted(queued', state')
  <2>1. ASSUME NEW m \in Lanes, NEW i \in DOMAIN queued[m] PROVE state'[queued[m][i]] \in {"preparing", "ready"}
    <3>1. InSeq(queued[m][i], queued[m]) BY DEF InSeq
    <3> QED BY <3>1, InQueueFacts, <1>0, <1>1, ConstantsFit
  <2> QED BY <2>1, <1>0 DEF NotStarted
<1>6. NoneLost(state', resolved', queued', running', independent', closed', disposed')
  <2>1. \A k \in Jobs : state'[k] # "new" => state[k] # "new"
    BY <1>0, <1>1, ConstantsFit
  <2> QED BY <2>1, <1>0 DEF IInv, NoneLost
<1>7. TypeOK'
  BY <1>0, <1>2, <1>4 DEF IInv, TypeOK
<1>8. /\ QueuesOfLane(queued') /\ PlacesOfLane(running', independent')
      /\ SessionsOfLane(blocked', source', inUse') /\ HoldsOfLane(hold') /\ Sorted(queued', sequence')
      /\ PlacesFit(running', source', independent', ownSources', closed', disposed')
  BY <1>0 DEF IInv
<1> QED BY <1>3, <1>4, <1>5, <1>6, <1>7, <1>8 DEF IInv

(* Queues of which requests are taken: the rest is as it was.              *)
Reduced(q, q2, gone) ==
  /\ q2 \in [Lanes -> Seq(Jobs)]
  /\ \A l \in Lanes, x \in Jobs : InSeq(x, q2[l]) => InSeq(x, q[l]) /\ x \notin gone
  /\ \A l \in Lanes, x \in Jobs : InSeq(x, q[l]) /\ x \notin gone => InSeq(x, q2[l])

(* A queue from which one request has been taken has its others, in order. *)
LEMMA RemoveFirstIs ==
  ASSUME NEW S, NEW s \in Seq(S), NEW x, NEW rank \in [S -> Nat], Increasing(s, rank)
  PROVE  LET rest == RemoveFirst(s, x) IN
         /\ rest \in Seq(S) /\ Increasing(rest, rank)
         /\ \A y : InSeq(y, rest) <=> InSeq(y, s) /\ y # x
<1> DEFINE rest == RemoveFirst(s, x)
           n == Len(s)
           N == {i \in 1 .. n : s[i] = x}
<1>1. DOMAIN s = 1 .. n /\ n \in Nat /\ \A i \in 1 .. n : s[i] \in S
  BY LenProperties, ElementOfSeq
<1>2. CASE N = {}
  <2>1. rest = s
    BY <1>2 DEF RemoveFirst
  <2>2. ~InSeq(x, s)
    BY <1>1, <1>2 DEF InSeq
  <2> QED BY <2>1, <2>2
<1>3. CASE N # {}
  <2>1. PICK m \in N : m = Min(N)
    <3>1. N \in SUBSET Nat BY <1>1
    <3> HIDE DEF N
    <3> QED BY <1>3, <3>1, LeastExists
  <2>2. rest = SubSeq(s, 1, m - 1) \o SubSeq(s, m + 1, n)
    BY <1>3, <2>1 DEF RemoveFirst, RemoveAt, SelectInSeq
  <2>3. m \in 1 .. n /\ s[m] = x
    BY <2>1
  <2>4. /\ rest \in Seq(S) /\ DOMAIN rest = 1 .. n - 1
        /\ \A i \in 1 .. n - 1 : i < m => rest[i] = s[i]
        /\ \A i \in 1 .. n - 1 : ~(i < m) => rest[i] = s[i + 1]
    <3> DEFINE a == SubSeq(s, 1, m - 1)
               b == SubSeq(s, m + 1, n)
    <3>0. /\ 1 \in Int /\ m - 1 \in Int /\ m + 1 \in Int /\ n \in Int
          /\ (m - 1) - 1 + 1 = m - 1 /\ n - (m + 1) + 1 = n - m
          /\ \A i \in 1 .. m - 1 : 1 + i - 1 = i
          /\ \A i \in 1 .. n - m : (m + 1) + i - 1 = m + i
          /\ \A i \in 1 .. m - 1 : s[i] \in S
          /\ \A i \in m + 1 .. n : s[i] \in S
      BY <1>1, <2>3
    <3>1. a \in Seq(S) /\ Len(a) = m - 1 /\ \A i \in 1 .. m - 1 : a[i] = s[i]
      <4>1. /\ a \in Seq(S) /\ Len(a) = IF 1 <= m - 1 THEN (m - 1) - 1 + 1 ELSE 0
            /\ \A i \in 1 .. (m - 1) - 1 + 1 : a[i] = s[1 + i - 1]
        BY <3>0, SubSeqProperties
      <4> HIDE DEF a
      <4> QED BY <1>1, <2>3, <3>0, <4>1
    <3>2. b \in Seq(S) /\ Len(b) = n - m /\ \A i \in 1 .. n - m : b[i] = s[m + i]
      <4>1. /\ b \in Seq(S) /\ Len(b) = IF m + 1 <= n THEN n - (m + 1) + 1 ELSE 0
            /\ \A i \in 1 .. n - (m + 1) + 1 : b[i] = s[(m + 1) + i - 1]
        BY <3>0, SubSeqProperties
      <4> HIDE DEF b
      <4>2. Len(b) = n - m
        <5>1. CASE m = n
          <6>1. ~(m + 1 <= n) /\ n - m = 0 BY <1>1, <5>1
          <6> QED BY <4>1, <6>1
        <5>2. CASE m # n
          <6>1. m \in Nat /\ n \in Nat /\ m <= n BY <1>1, <2>3
          <6> HIDE DEF n
          <6>2. m + 1 <= n BY <5>2, <6>1
          <6>3. n - (m + 1) + 1 = n - m BY <6>1
          <6> QED BY <4>1, <6>2, <6>3
        <5> QED BY <5>1, <5>2
      <4>3. \A i \in 1 .. n - m : b[i] = s[m + i]
        <5>1. \A i \in 1 .. n - m : i \in 1 .. n - (m + 1) + 1 /\ (m + 1) + i - 1 = m + i
          BY <1>1, <2>3
        <5> QED BY <4>1, <5>1
      <4> QED BY <4>1, <4>2, <4>3
    <3>3. rest = a \o b
      BY <2>2
    <3> HIDE DEF a, b, rest
    <3>4. /\ rest \in Seq(S) /\ Len(rest) = n - 1
          /\ \A i \in 1 .. n - 1 : rest[i] = IF i < m THEN a[i] ELSE b[i - (m - 1)]
      <4>1. /\ rest \in Seq(S) /\ Len(rest) = Len(a) + Len(b)
            /\ \A i \in 1 .. Len(a) + Len(b) : rest[i] = IF i <= Len(a) THEN a[i] ELSE b[i - Len(a)]
        BY <3>1, <3>2, <3>3, ConcatProperties
      <4>2. Len(a) + Len(b) = n - 1 /\ Len(a) = m - 1 /\ \A i \in 1 .. n - 1 : i <= m - 1 <=> i < m
        BY <1>1, <2>3, <3>1, <3>2
      <4> QED BY <4>1, <4>2
    <3>5. \A i \in 1 .. n - 1 : ~(i < m) => b[i - (m - 1)] = s[i + 1]
      <4>1. \A i \in 1 .. n - 1 : ~(i < m) => i - (m - 1) \in 1 .. n - m /\ m + (i - (m - 1)) = i + 1
        BY <1>1, <2>3
      <4> QED BY <3>2, <4>1
    <3>6. \A i \in 1 .. n - 1 : i < m => a[i] = s[i]
      BY <1>1, <2>3, <3>1
    <3> QED BY <3>4, <3>5, <3>6, LenProperties
  <2> HIDE DEF rest, N
  <2>6. \A i \in 1 .. n : i # m => s[i] # x
    <3>1. \A i, j \in 1 .. n : i < j => rank[s[i]] < rank[s[j]]
      BY <1>1 DEF Increasing
    <3>2. \A i, j \in 1 .. n : s[i] = s[j] => ~(i < j)
      BY <1>1, <3>1
    <3> QED BY <1>1, <2>3, <3>2
  <2>7. \A i, j \in 1 .. n - 1 : i < j => rank[rest[i]] < rank[rest[j]]
    <3>1. \A i, j \in 1 .. n : i < j => rank[s[i]] < rank[s[j]]
      BY <1>1 DEF Increasing
    <3> SUFFICES ASSUME NEW i \in 1 .. n - 1, NEW j \in 1 .. n - 1, i < j
                 PROVE  rank[rest[i]] < rank[rest[j]]
      OBVIOUS
    <3> DEFINE at(k) == IF k < m THEN k ELSE k + 1
    <3>2. \A k \in 1 .. n - 1 : at(k) \in 1 .. n /\ rest[k] = s[at(k)]
      <4> SUFFICES ASSUME NEW k \in 1 .. n - 1 PROVE at(k) \in 1 .. n /\ rest[k] = s[at(k)]
        OBVIOUS
      <4>1. CASE k < m
        <5>1. at(k) = k /\ k \in 1 .. n BY <1>1, <4>1
        <5>2. rest[k] = s[k] BY <2>4, <4>1
        <5> HIDE DEF at
        <5> QED BY <5>1, <5>2
      <4>2. CASE ~(k < m)
        <5>1. at(k) = k + 1 /\ k + 1 \in 1 .. n BY <1>1, <4>2
        <5>2. rest[k] = s[k + 1] BY <2>4, <4>2
        <5> HIDE DEF at
        <5> QED BY <5>1, <5>2
      <4> QED BY <4>1, <4>2
    <3>3. at(i) < at(j)
      BY <1>1, <2>3
    <3> HIDE DEF at
    <3> QED BY <3>1, <3>2, <3>3
  <2>8. ASSUME NEW y PROVE InSeq(y, rest) <=> InSeq(y, s) /\ y # x
    <3>1. ASSUME NEW i \in 1 .. n - 1, rest[i] = y PROVE InSeq(y, s) /\ y # x
      <4>1. PICK j \in 1 .. n : j # m /\ s[j] = y
        <5>1. CASE i < m BY <1>1, <2>3, <2>4, <3>1, <5>1
        <5>2. CASE ~(i < m) BY <1>1, <2>3, <2>4, <3>1, <5>2
        <5> QED BY <5>1, <5>2
      <4> QED BY <1>1, <2>6, <4>1 DEF InSeq
    <3>2. ASSUME NEW i \in 1 .. n, s[i] = y, y # x PROVE \E j \in 1 .. n - 1 : rest[j] = y
      <4>1. CASE i < m
        <5>1. i \in 1 .. n - 1 /\ rest[i] = s[i] BY <1>1, <2>3, <2>4, <4>1
        <5> QED BY <3>2, <5>1
      <4>2. CASE ~(i < m)
        <5>1. i # m BY <2>3, <3>2
        <5>2. i - 1 \in 1 .. n - 1 /\ rest[i - 1] = s[i] BY <1>1, <2>3, <2>4, <4>2, <5>1
        <5> QED BY <3>2, <5>2
      <4> QED BY <4>1, <4>2
    <3> QED BY <1>1, <2>4, <3>1, <3>2 DEF InSeq
  <2>9. Increasing(rest, rank)
    BY <2>4, <2>7 DEF Increasing
  <2> QED BY <2>4, <2>8, <2>9 DEF rest
<1> QED BY <1>2, <1>3

(* What is left of a lane's queue when the requests gone have left it.     *)
LeavesOf(l, gone, rest) ==
  /\ rest \in Seq(Jobs) /\ Increasing(rest, sequence)
  /\ \A x \in Jobs : InSeq(x, rest) <=> InSeq(x, queued[l]) /\ x \notin gone

LEMMA LeavesReduce ==
  ASSUME IInv, NEW l \in Lanes, NEW gone, NEW rest, LeavesOf(l, gone, rest),
         \A x \in gone : x \in Jobs => LaneOf[x] = l
  PROVE  /\ Reduced(queued, [queued EXCEPT ![l] = rest], gone)
         /\ Sorted([queued EXCEPT ![l] = rest], sequence)
<1> DEFINE q2 == [queued EXCEPT ![l] = rest]
<1>1. queued \in [Lanes -> Seq(Jobs)]
  BY InvFacts
<1>2. q2[l] = rest /\ (\A m \in Lanes : m # l => q2[m] = queued[m]) /\ q2 \in [Lanes -> Seq(Jobs)]
  BY <1>1 DEF LeavesOf
<1> HIDE DEF q2
<1>3. ASSUME NEW m \in Lanes, NEW x \in Jobs
      PROVE  InSeq(x, q2[m]) <=> InSeq(x, queued[m]) /\ x \notin gone
  <2>1. CASE m = l BY <2>1, <1>2 DEF LeavesOf
  <2>2. CASE m # l
    <3>1. InSeq(x, queued[m]) => LaneOf[x] = m BY InQueueFacts
    <3> QED BY <2>2, <3>1, <1>2
  <2> QED BY <2>1, <2>2
<1>4. Sorted(q2, sequence)
  BY <1>2 DEF Sorted, IInv, LeavesOf
<1>5. Reduced(queued, q2, gone)
  BY <1>2, <1>3 DEF Reduced
<1> QED BY <1>4, <1>5 DEF q2

LEMMA OneLeaves ==
  ASSUME IInv, NEW l \in Lanes, NEW x
  PROVE  LeavesOf(l, {x}, RemoveFirst(queued[l], x))
<1>1. queued[l] \in Seq(Jobs) /\ Increasing(queued[l], sequence) /\ sequence \in [Jobs -> Nat]
  BY DEF IInv, TypeOK, Sorted
<1> QED BY <1>1, RemoveFirstIs DEF LeavesOf

LEMMA AllLeave ==
  ASSUME NEW l \in Lanes
  PROVE  LeavesOf(l, {j \in Jobs : InSeq(j, queued[l])}, << >>)
<1> DEFINE e == << >>
<1>1. e \in Seq(Jobs) /\ DOMAIN e = {}
  OBVIOUS
<1> HIDE DEF e
<1>2. LeavesOf(l, {j \in Jobs : InSeq(j, queued[l])}, e)
  BY <1>1 DEF LeavesOf, Increasing, InSeq
<1> QED BY <1>2 DEF e

(* Those left in the queue are of their lane and have not started.         *)
LEMMA ReducedFits ==
  ASSUME IInv, NEW q2, NEW gone, Reduced(queued, q2, gone), NEW st2,
         \A x \in Jobs : x \notin gone => st2[x] = state[x] \/ st2[x] \in {"preparing", "ready"}
  PROVE  QueuesOfLane(q2) /\ NotStarted(q2, st2)
<1>1. ASSUME NEW l \in Lanes, NEW i \in DOMAIN q2[l]
      PROVE  LaneOf[q2[l][i]] = l /\ st2[q2[l][i]] \in {"preparing", "ready"}
  <2> DEFINE x == q2[l][i]
  <2>1. InSeq(x, q2[l]) BY DEF InSeq
  <2>2. x \in Jobs BY <2>1, QueuedIsJob DEF Reduced
  <2>3. InSeq(x, queued[l]) /\ x \notin gone BY <2>1, <2>2 DEF Reduced
  <2> HIDE DEF x
  <2>4. LaneOf[x] = l /\ state[x] \in {"preparing", "ready"} BY <2>3, InQueueFacts
  <2>5. st2[x] \in {"preparing", "ready"} BY <2>2, <2>3, <2>4
  <2> QED BY <2>4, <2>5 DEF x
<1> QED BY <1>1 DEF QueuesOfLane, NotStarted

(* Requests leave the queue of a lane without having started.              *)
LEMMA UnqueueKeeps ==
  ASSUME IInv, NEW l \in Lanes, NEW jobs \in SUBSET Jobs, NEW rest, NEW o \in Outcomes,
         Unqueue(l, jobs, rest, o), LeavesOf(l, jobs, rest),
         \A x \in jobs : LaneOf[x] = l /\ state[x] \in {"preparing", "ready"},
         PumpAll(lock)
  PROVE  IInv'
<1>0. /\ queued' = [queued EXCEPT ![l] = rest]
      /\ state' = [j \in Executions |-> IF j \in jobs THEN "done" ELSE state[j]]
      /\ resolved' = [j \in Jobs |-> IF j \in jobs /\ resolved[j] = None THEN o ELSE resolved[j]]
      /\ UNCHANGED << running, independent, paused, recovering, blocked, sourceVars, hold,
                      outcome, sequence, entryVars, ownerVars, sessionVars >>
  BY DEF Unqueue, Resolve
<1> USE DEF sourceVars, entryVars, ownerVars, sessionVars
<1>1. state \in [Executions -> States] /\ resolved \in [Jobs -> Outcomes \union {None}]
  BY DEF IInv, TypeOK
<1>2. state' \in [Executions -> States] /\ IdleChange(state, state')
  BY <1>0, <1>1 DEF States, IdleChange
<1>3. /\ ChainsFit(lock, state', outcome')
      /\ IsolatingFits(state', outcome', isolationRequired', isolationVerified')
      /\ UsersRun(inUse', state')
      /\ SessionsFit(inUse', unsafe', source', blocked', state', closed', disposed')
      /\ Numbered(state', sequence')
  <2>1. UNCHANGED << outcome, sequence, entryVars, closed, disposed, sessionVars, source, blocked >>
    BY <1>0
  <2> QED BY <1>2, <2>1, IdleKeeps
<1>4. Reduced(queued, queued', jobs) /\ Sorted(queued', sequence')
  BY <1>0, LeavesReduce
<1>5. QueuesOfLane(queued') /\ NotStarted(queued', state')
  <2>1. \A x \in Jobs : x \notin jobs => state'[x] = state[x] BY <1>0, ConstantsFit
  <2> QED BY <2>1, <1>4, ReducedFits
<1>6. lock' \in [Lanes -> Seq(Ticket)] /\ ChainsFit(lock', state', outcome')
  <2>1. queued' \in [Lanes -> Seq(Jobs)] BY <1>4 DEF Reduced
  <2> QED BY <2>1, <1>3, <1>5, InvFacts, PumpAllFits
<1>7. resolved' \in [Jobs -> Outcomes \union {None}]
  BY <1>0, <1>1
<1>8. NoneLost(state', resolved', queued', running', independent', closed', disposed')
  <2>1. ASSUME NEW k \in Jobs, state'[k] # "new", resolved'[k] = None
        PROVE  /\ Open(LaneOf[k], closed, disposed)
               /\ InSeq(k, queued'[LaneOf[k]]) \/ running[LaneOf[k]] = k \/ k \in independent[LaneOf[k]]
    <3>0. o # None BY DEF Outcomes, None
    <3>1. k \notin jobs /\ resolved[k] = None BY <2>1, <1>0, <3>0
    <3>2. state[k] # "new" /\ LaneOf[k] \in Lanes BY <2>1, <3>1, <1>0, ConstantsFit
    <3>3. /\ Open(LaneOf[k], closed, disposed)
          /\ InSeq(k, queued[LaneOf[k]]) \/ running[LaneOf[k]] = k \/ k \in independent[LaneOf[k]]
      BY <3>1, <3>2 DEF IInv, NoneLost
    <3> QED BY <3>1, <3>2, <3>3, <1>4 DEF Reduced
  <2> QED BY <2>1, <1>0 DEF NoneLost
<1>9. TypeOK'
  BY <1>0, <1>2, <1>4, <1>6, <1>7 DEF IInv, TypeOK, Reduced
<1>10. /\ PlacesOfLane(running', independent')
       /\ SessionsOfLane(blocked', source', inUse') /\ HoldsOfLane(hold')
       /\ PlacesFit(running', source', independent', ownSources', closed', disposed')
  BY <1>0 DEF IInv
<1> QED BY <1>3, <1>4, <1>5, <1>6, <1>8, <1>9, <1>10 DEF IInv

LEMMA UnqueueStepsKeep ==
  ASSUME IInv,
         \/ \E j \in Jobs, o \in {"cancelled", "failed"} : PreparationFails(j, o)
         \/ \E j \in Jobs : RemoveQueued(j)
         \/ \E l \in Lanes : ClearQueued(l)
  PROVE  IInv'
<1>1. ASSUME NEW j \in Jobs, NEW o \in {"cancelled", "failed"}, PreparationFails(j, o) PROVE IInv'
  <2>1. LaneOf[j] \in Lanes /\ {j} \in SUBSET Jobs /\ o \in Outcomes BY ConstantsFit DEF Outcomes
  <2>2. PICK rest : rest = RemoveFirst(queued[LaneOf[j]], j)
    OBVIOUS
  <2>3. Unqueue(LaneOf[j], {j}, rest, o) /\ PumpAll(lock) /\ state[j] = "preparing"
    BY <1>1, <2>2 DEF PreparationFails
  <2>4. LeavesOf(LaneOf[j], {j}, rest) BY <2>1, <2>2, OneLeaves
  <2> QED BY <2>1, <2>3, <2>4, UnqueueKeeps
<1>2. ASSUME NEW j \in Jobs, RemoveQueued(j) PROVE IInv'
  <2>1. LaneOf[j] \in Lanes /\ {j} \in SUBSET Jobs /\ "cancelled" \in Outcomes BY ConstantsFit DEF Outcomes
  <2>2. PICK rest : rest = RemoveFirst(queued[LaneOf[j]], j)
    OBVIOUS
  <2>3. Unqueue(LaneOf[j], {j}, rest, "cancelled") /\ PumpAll(lock) /\ InSeq(j, queued[LaneOf[j]])
    BY <1>2, <2>2 DEF RemoveQueued
  <2>4. state[j] \in {"preparing", "ready"} BY <2>1, <2>3, InQueueFacts
  <2>5. LeavesOf(LaneOf[j], {j}, rest) BY <2>1, <2>2, OneLeaves
  <2> QED BY <2>1, <2>3, <2>4, <2>5, UnqueueKeeps
<1>3. ASSUME NEW l \in Lanes, ClearQueued(l) PROVE IInv'
  <2> DEFINE jobs == {j \in Jobs : InSeq(j, queued[l])}
  <2>1. jobs \in SUBSET Jobs /\ "cancelled" \in Outcomes BY DEF Outcomes
  <2>2. Unqueue(l, jobs, << >>, "cancelled") /\ PumpAll(lock) BY <1>3 DEF ClearQueued
  <2>4. LeavesOf(l, jobs, << >>) BY AllLeave
  <2>3. \A x \in jobs : LaneOf[x] = l /\ state[x] \in {"preparing", "ready"} BY InQueueFacts
  <2> HIDE DEF jobs
  <2> QED BY <2>1, <2>2, <2>3, <2>4, UnqueueKeeps
<1> QED BY <1>1, <1>2, <1>3

--------------------------------------------------------------------------------
(* Admission.                                                              *)

LEMMA AdmitFacts ==
  ASSUME IInv, NEW l \in Lanes, Admit(l), NEW j, j = Head(lock[l]).by
  PROVE  /\ lock[l] # << >> /\ j \in Jobs /\ LaneOf[j] = l /\ state[j] = "ready" /\ InSeq(j, queued[l])
         /\ Registered(l) /\ NextEligible(l) = j /\ CanAdmit(l, j) /\ Head(lock[l]).kind = "pump"
<1>1. lock[l] # << >> /\ StillWanted(l, j) /\ Head(lock[l]).kind = "pump"
  BY DEF Admit, HeadIs
<1>2. j \in Executions
  BY <1>1, HeadKnown
<1>3. NextEligible(l) = j /\ Registered(l) /\ CanAdmit(l, j) /\ state[j] = "ready"
  BY <1>1 DEF StillWanted, CanAdmit
<1>4. j \in Jobs /\ InSeq(j, queued[l])
  BY <1>2, <1>3, InvFacts, NextEligibleQueued, ConstantsFit
<1> QED BY <1>1, <1>3, <1>4, InQueueFacts

LEMMA AdmitKeeps ==
  ASSUME IInv, NEW l \in Lanes, Admit(l)
  PROVE  IInv'
<1> DEFINE j == Head(lock[l]).by
<1>1. /\ lock[l] # << >> /\ j \in Jobs /\ LaneOf[j] = l /\ state[j] = "ready" /\ InSeq(j, queued[l])
      /\ Registered(l) /\ CanAdmit(l, j)
  BY AdmitFacts
<1>2. j \in Executions
  BY <1>1, ConstantsFit
<1>3. /\ queued' = [queued EXCEPT ![l] = RemoveFirst(@, j)]
      /\ state' = [state EXCEPT ![j] = "running"]
      /\ UNCHANGED << paused, recovering, blocked, hold, outcome, resolved, sequence,
                      entryVars, ownerVars >>
  BY DEF Admit
<1>4. \/ /\ j \in Independent
         /\ independent' = [independent EXCEPT ![l] = @ \union {j}]
         /\ ownSources' = ownSources \union {j}
         /\ UNCHANGED << running, source, sessionVars >>
         /\ PumpAll(Left(l))
      \/ /\ j \notin Independent
         /\ running' = [running EXCEPT ![l] = j]
         /\ source' = [source EXCEPT ![l] = j]
         /\ inUse' = [inUse EXCEPT ![LaneOf[j]] = @ \union {j}] /\ unsafe' = unsafe
         /\ UNCHANGED << independent, ownSources >>
         /\ lock' = Left(l)
  BY DEF Admit, TakesSession
<1> HIDE DEF j
<1> USE DEF entryVars, ownerVars, sessionVars
<1>t. /\ state \in [Executions -> States] /\ running \in [Lanes -> Shared \union {None}]
      /\ source \in [Lanes -> Shared \union Direct \union {None}]
      /\ independent \in [Lanes -> SUBSET Independent] /\ ownSources \in SUBSET Independent
      /\ inUse \in [Lanes -> SUBSET (Shared \union Direct)]
  BY DEF IInv, TypeOK
<1>5. state' \in [Executions -> States] /\ state'[j] = "running" /\ \A x \in Executions : x # j => state'[x] = state[x]
  BY <1>2, <1>3, <1>t DEF States
<1>6. Reduced(queued, queued', {j}) /\ Sorted(queued', sequence')
  <2>1. PICK rest : rest = RemoveFirst(queued[l], j)
    OBVIOUS
  <2>2. queued' = [queued EXCEPT ![l] = rest] /\ sequence' = sequence
    BY <1>3, <2>1
  <2>3. LeavesOf(l, {j}, rest)
    BY <2>1, OneLeaves
  <2>4. \A x \in {j} : x \in Jobs => LaneOf[x] = l
    BY <1>1
  <2>5. Reduced(queued, [queued EXCEPT ![l] = rest], {j}) /\ Sorted([queued EXCEPT ![l] = rest], sequence)
    BY <2>3, <2>4, LeavesReduce
  <2> QED BY <2>2, <2>5
<1>7. QueuesOfLane(queued') /\ NotStarted(queued', state')
  <2>1. \A x \in Jobs : x \notin {j} => state'[x] = state[x] BY <1>5, ConstantsFit
  <2> QED BY <2>1, <1>6, ReducedFits
<1>8. /\ Left(l) \in [Lanes -> Seq(Ticket)] /\ ChainsFit(Left(l), state', outcome')
  <2>1. Left(l) \in [Lanes -> Seq(Ticket)] /\ ChainsFit(Left(l), state, outcome) BY <1>1, HeadKnown
  <2>2. Undisturbed(state, state', outcome, outcome') BY <1>1, <1>3, <1>5 DEF Undisturbed
  <2> QED BY <2>1, <2>2, ChainsUndisturbed
<1>9. lock' \in [Lanes -> Seq(Ticket)] /\ ChainsFit(lock', state', outcome')
  <2>1. CASE lock' = Left(l) BY <2>1, <1>8
  <2>2. CASE PumpAll(Left(l))
    <3>1. queued' \in [Lanes -> Seq(Jobs)] BY <1>6 DEF Reduced
    <3> QED BY <3>1, <2>2, <1>7, <1>8, PumpAllFits
  <2> QED BY <2>1, <2>2, <1>4
<1>10. IsolatingFits(state', outcome', isolationRequired', isolationVerified')
  BY <1>3, <1>5, ConstantsFit DEF IInv, IsolatingFits
<1>11. Numbered(state', sequence')
  <2>1. \A k \in Jobs : state'[k] # "new" <=> state[k] # "new" BY <1>1, <1>5, ConstantsFit
  <2>2. Numbered(state, sequence) BY DEF IInv
  <2>3. Numbered(state', sequence) BY <2>1, <2>2, StaysNumbered
  <2> QED BY <2>3, <1>3
<1>12. \A m \in Lanes : source[m] \in Shared /\ state[source[m]] = "isolating" => state'[source[m]] = "isolating"
  BY <1>1, <1>5, ConstantsFit
<1>o. Open(l, closed, disposed) /\ \A m \in Lanes : Open(m, closed', disposed') = Open(m, closed, disposed)
  BY <1>1, <1>3 DEF Registered, Open
<1>q. \A k \in Jobs : k # j /\ InSeq(k, queued[LaneOf[k]]) => InSeq(k, queued'[LaneOf[k]])
  BY <1>6, ConstantsFit DEF Reduced
<1>A. CASE j \in Independent
  <2>1. /\ independent' = [independent EXCEPT ![l] = @ \union {j}]
        /\ ownSources' = ownSources \union {j}
        /\ UNCHANGED << running, source, inUse, unsafe >>
    BY <1>A, <1>4
  <2>2. UsersRun(inUse', state')
    <3>1. \A m \in Lanes : inUse[m] \subseteq Executions BY <1>t, ConstantsFit
    <3> QED BY <2>1, <3>1, <1>5 DEF IInv, UsersRun
  <2>3. SessionsFit(inUse', unsafe', source', blocked', state', closed', disposed')
    BY <2>1, <1>3, <1>12, <1>o DEF IInv, SessionsFit
  <2>4. \A m \in Lanes : independent'[m] = IF m = l THEN independent[m] \union {j} ELSE independent[m]
    BY <2>1, <1>t
  <2>5. PlacesFit(running', source', independent', ownSources', closed', disposed')
    <3>1. \A m \in Lanes : {x \in ownSources' : LaneOf[x] = m} =
            IF m = l THEN {x \in ownSources : LaneOf[x] = m} \union {j} ELSE {x \in ownSources : LaneOf[x] = m}
      BY <2>1, <1>1
    <3> QED BY <2>1, <2>4, <3>1, <1>o DEF IInv, PlacesFit
  <2>6. NoneLost(state', resolved', queued', running', independent', closed', disposed')
    <3>1. ASSUME NEW k \in Jobs, state'[k] # "new", resolved'[k] = None
          PROVE  /\ Open(LaneOf[k], closed', disposed')
                 /\ InSeq(k, queued'[LaneOf[k]]) \/ running'[LaneOf[k]] = k \/ k \in independent'[LaneOf[k]]
      <4>0. LaneOf[k] \in Lanes /\ k \in Executions BY ConstantsFit
      <4>1. CASE k = j BY <4>1, <1>1, <1>o, <2>4
      <4>2. CASE k # j
        <5>1. /\ Open(LaneOf[k], closed, disposed)
              /\ InSeq(k, queued[LaneOf[k]]) \/ running[LaneOf[k]] = k \/ k \in independent[LaneOf[k]]
          BY <4>0, <4>2, <3>1, <1>3, <1>5 DEF IInv, NoneLost
        <5> QED BY <5>1, <4>0, <4>2, <1>o, <1>q, <2>1, <2>4
      <4> QED BY <4>1, <4>2
    <3> QED BY <3>1 DEF NoneLost
  <2>7. independent' \in [Lanes -> SUBSET Independent] /\ ownSources' \in SUBSET Independent
    BY <2>1, <1>t, <1>A
  <2>8. TypeOK'
    BY <1>3, <1>5, <1>6, <1>9, <2>1, <2>7 DEF IInv, TypeOK, Reduced
  <2>9. PlacesOfLane(running', independent') /\ SessionsOfLane(blocked', source', inUse') /\ HoldsOfLane(hold')
    BY <1>1, <1>3, <2>1, <2>4 DEF IInv, PlacesOfLane
  <2> QED BY <1>6, <1>7, <1>9, <1>10, <1>11, <2>2, <2>3, <2>5, <2>6, <2>8, <2>9 DEF IInv
<1>B. CASE j \notin Independent
  <2>1. /\ running' = [running EXCEPT ![l] = j] /\ source' = [source EXCEPT ![l] = j]
        /\ inUse' = [inUse EXCEPT ![l] = @ \union {j}]
        /\ UNCHANGED << independent, ownSources, unsafe >>
    BY <1>B, <1>1, <1>4
  <2>2. /\ \A m \in Lanes : running'[m] = IF m = l THEN j ELSE running[m]
        /\ \A m \in Lanes : source'[m] = IF m = l THEN j ELSE source[m]
        /\ \A m \in Lanes : inUse'[m] = IF m = l THEN inUse[m] \union {j} ELSE inUse[m]
    BY <2>1, <1>t
  <2>3. j \in Shared /\ blocked[l] = None /\ running[l] = None /\ source[l] = None
    BY <1>B, <1>1, ConstantsFit DEF CanAdmit, SharedFree
  <2>4. inUse[l] = {} /\ ~unsafe[l]
    <3>1. inUse[l] \subseteq {source[l]} /\ (unsafe[l] => blocked[l] # None \/ (source[l] \in Shared /\ state[source[l]] = "isolating"))
      BY <1>o DEF IInv, SessionsFit
    <3>2. None \notin inUse[l] /\ None \notin Shared
      BY <1>t, ConstantsFit
    <3> QED BY <3>1, <3>2, <2>3
  <2>5. UsersRun(inUse', state')
    <3>1. \A m \in Lanes : inUse[m] \subseteq Executions BY <1>t, ConstantsFit
    <3> QED BY <2>2, <3>1, <1>5 DEF IInv, UsersRun
  <2>6. SessionsFit(inUse', unsafe', source', blocked', state', closed', disposed')
    BY <2>1, <2>2, <2>4, <1>3, <1>12, <1>o DEF IInv, SessionsFit
  <2>7. PlacesFit(running', source', independent', ownSources', closed', disposed')
    BY <2>1, <2>2, <1>o DEF IInv, PlacesFit
  <2>8. NoneLost(state', resolved', queued', running', independent', closed', disposed')
    <3>1. ASSUME NEW k \in Jobs, state'[k] # "new", resolved'[k] = None
          PROVE  /\ Open(LaneOf[k], closed', disposed')
                 /\ InSeq(k, queued'[LaneOf[k]]) \/ running'[LaneOf[k]] = k \/ k \in independent'[LaneOf[k]]
      <4>0. LaneOf[k] \in Lanes /\ k \in Executions /\ k # None BY ConstantsFit
      <4>1. CASE k = j BY <4>1, <1>1, <1>o, <2>2
      <4>2. CASE k # j
        <5>1. /\ Open(LaneOf[k], closed, disposed)
              /\ InSeq(k, queued[LaneOf[k]]) \/ running[LaneOf[k]] = k \/ k \in independent[LaneOf[k]]
          BY <4>0, <4>2, <3>1, <1>3, <1>5 DEF IInv, NoneLost
        <5> QED BY <5>1, <4>0, <4>2, <1>o, <1>q, <2>1, <2>2, <2>3
      <4> QED BY <4>1, <4>2
    <3> QED BY <3>1 DEF NoneLost
  <2>9. TypeOK'
    <3>1. running' \in [Lanes -> Shared \union {None}] /\ source' \in [Lanes -> Shared \union Direct \union {None}]
      BY <2>1, <2>3, <1>t
    <3>2. inUse' \in [Lanes -> SUBSET (Shared \union Direct)]
      BY <2>1, <2>3, <1>t
    <3> QED BY <3>1, <3>2, <1>3, <1>5, <1>6, <1>9, <2>1 DEF IInv, TypeOK, Reduced
  <2>10. PlacesOfLane(running', independent') /\ SessionsOfLane(blocked', source', inUse') /\ HoldsOfLane(hold')
    BY <1>1, <1>3, <2>1, <2>2 DEF IInv, PlacesOfLane, SessionsOfLane
  <2> QED BY <1>6, <1>7, <1>9, <1>10, <1>11, <2>5, <2>6, <2>7, <2>8, <2>9, <2>10 DEF IInv
<1> QED BY <1>A, <1>B

--------------------------------------------------------------------------------
(* The end of a request.                                                   *)

(* An execution leaves runningSources.                                     *)
LEMMA RetireFits ==
  ASSUME IInv, NEW x \in Executions, Retire(x)
  PROVE  /\ source' \in [Lanes -> Shared \union Direct \union {None}] /\ ownSources' \in SUBSET Independent
         /\ \A m \in Lanes : source'[m] = IF source[m] = x THEN None ELSE source[m]
         /\ ownSources' = ownSources \ {x}
<1>1. /\ source \in [Lanes -> Shared \union Direct \union {None}] /\ ownSources \in SUBSET Independent
      /\ LaneOf[x] \in Lanes /\ x # None
  BY ConstantsFit DEF IInv, TypeOK
<1>2. \A m \in Lanes : source[m] = x => m = LaneOf[x]
  BY <1>1 DEF IInv, SessionsOfLane
<1> QED BY <1>1, <1>2 DEF Retire

(* Its lane forgets it.                                                    *)
LEMMA DroppedFits ==
  ASSUME IInv, NEW x \in Executions, NEW l \in Lanes, LaneOf[x] = l, Dropped(l, x)
  PROVE  /\ running' \in [Lanes -> Shared \union {None}] /\ independent' \in [Lanes -> SUBSET Independent]
         /\ \A m \in Lanes : running'[m] = IF running[m] = x THEN None ELSE running[m]
         /\ \A m \in Lanes : independent'[m] = independent[m] \ {x}
<1>1. /\ running \in [Lanes -> Shared \union {None}] /\ independent \in [Lanes -> SUBSET Independent]
      /\ x # None
  BY ConstantsFit DEF IInv, TypeOK
<1>2. \A m \in Lanes : (running[m] = x => m = l) /\ (x \in independent[m] => m = l)
  BY <1>1 DEF IInv, PlacesOfLane
<1> QED BY <1>1, <1>2 DEF Dropped

(* Lane and leases forget it together.                                     *)
LEMMA ForgottenFits ==
  ASSUME IInv, NEW x \in Executions,
         \A m \in Lanes : Open(m, closed, disposed) =>
           /\ running'[m] = IF running[m] = x THEN None ELSE running[m]
           /\ independent'[m] = independent[m] \ {x},
         \A m \in Lanes : source'[m] = IF source[m] = x THEN None ELSE source[m],
         ownSources' = ownSources \ {x}, UNCHANGED << closed, disposed >>
  PROVE  PlacesFit(running', source', independent', ownSources', closed', disposed')
<1>1. ASSUME NEW m \in Lanes, Open(m, closed, disposed)
      PROVE  /\ running'[m] # None => source'[m] = running'[m]
             /\ source'[m] \in Shared => running'[m] = source'[m]
             /\ independent'[m] = {j \in ownSources' : LaneOf[j] = m}
  <2>1. /\ running[m] # None => source[m] = running[m]
        /\ source[m] \in Shared => running[m] = source[m]
        /\ independent[m] = {j \in ownSources : LaneOf[j] = m}
    BY <1>1 DEF IInv, PlacesFit
  <2>2. None \notin Shared /\ x # None
    BY ConstantsFit
  <2>3. /\ running'[m] = IF running[m] = x THEN None ELSE running[m]
        /\ independent'[m] = independent[m] \ {x}
        /\ source'[m] = IF source[m] = x THEN None ELSE source[m]
    BY <1>1
  <2> QED BY <2>1, <2>2, <2>3
<1> QED BY <1>1 DEF PlacesFit

LEMMA ResolvesOne ==
  ASSUME resolved \in [Jobs -> Outcomes \union {None}], NEW x \in Executions, NEW S, S = {x} \intersect Jobs \/ S = {x},
         NEW o \in Outcomes, Resolve(S, o)
  PROVE  /\ resolved' \in [Jobs -> Outcomes \union {None}]
         /\ \A k \in Jobs : resolved'[k] = None => resolved[k] = None /\ k # x
<1>1. o # None
  BY DEF Outcomes, None
<1> QED BY <1>1 DEF Resolve

(* The request that has used the session and left it unsafe is gone: the   *)
(* lane is blocked.                                                        *)
Uncertain(j, o, isolated, req, ver) == (o = "cancelled" \/ req[j]) /\ ~ver[j] /\ ~isolated

Ended(st, j) == [st EXCEPT ![j] = "done"]

FinalizeResult(j, o, isolated) ==
  /\ state' = Ended(state, j)
  /\ Resolve({j}, o) /\ Retire(j)
  /\ UNCHANGED << queued, paused, recovering, outcome, sequence, ownerVars >>
  /\ running' \in [Lanes -> Shared \union {None}] /\ independent' \in [Lanes -> SUBSET Independent]
  /\ \A m \in Lanes : Open(m, closed, disposed) =>
       /\ running'[m] = IF running[m] = j THEN None ELSE running[m]
       /\ independent'[m] = independent[m] \ {j}
  /\ PlacesOfLane(running', independent')
  /\ blocked' \in [Lanes -> Shared \union {None}]
  /\ \A m \in Lanes : blocked'[m] = blocked[m] \/ (m = LaneOf[j] /\ blocked'[m] = j)
  /\ Open(LaneOf[j], closed, disposed) /\ source[LaneOf[j]] = j
       /\ Uncertain(j, o, isolated, isolationRequired', isolationVerified')
       => blocked'[LaneOf[j]] = j
  /\ lock' \in [Lanes -> Seq(Ticket)] /\ ChainsFit(lock', state', outcome')

LEMMA FinalizeFacts ==
  ASSUME IInv, NEW j \in Jobs, NEW o \in Outcomes, NEW isolated \in BOOLEAN,
         NEW chains \in [Lanes -> Seq(Ticket)], ChainsFit(chains, Ended(state, j), outcome),
         Finalize(j, o, isolated, chains)
  PROVE  FinalizeResult(j, o, isolated)
<1> DEFINE l == LaneOf[j]
           owned == Registered(l) /\ (running[l] = j \/ j \in independent[l])
           unknown == /\ o = "cancelled" \/ isolationRequired'[j]
                      /\ ~isolationVerified'[j] /\ ~isolated
<1>0. l \in Lanes /\ j \in Executions
  BY ConstantsFit
<1>t. /\ running \in [Lanes -> Shared \union {None}] /\ independent \in [Lanes -> SUBSET Independent]
      /\ blocked \in [Lanes -> Shared \union {None}] /\ queued \in [Lanes -> Seq(Jobs)]
      /\ PlacesOfLane(running, independent) /\ QueuesOfLane(queued)
  BY DEF IInv, TypeOK
<1>1. state' = Ended(state, j) /\ Resolve({j}, o) /\ Retire(j)
  BY DEF Finalize, Ended
<1>2. UNCHANGED << queued, paused, recovering, outcome, sequence, ownerVars >>
  BY DEF Finalize, laneVars
<1>3. CASE owned
  <2>1. /\ Dropped(l, j) /\ PumpAll(chains)
        /\ blocked' = [blocked EXCEPT ![l] = IF BlocksLane(j, unknown) THEN j ELSE @]
    BY <1>3 DEF Finalize
  <2>2. /\ running' \in [Lanes -> Shared \union {None}] /\ independent' \in [Lanes -> SUBSET Independent]
        /\ \A m \in Lanes : running'[m] = IF running[m] = j THEN None ELSE running[m]
        /\ \A m \in Lanes : independent'[m] = independent[m] \ {j}
    BY <2>1, <1>0, DroppedFits
  <2>3. PlacesOfLane(running', independent')
    BY <2>2, <1>t DEF PlacesOfLane
  <2>4. blocked' \in [Lanes -> Shared \union {None}] /\ \A m \in Lanes : blocked'[m] = blocked[m] \/ (m = l /\ blocked'[m] = j)
    <3>1. BlocksLane(j, unknown) => j \in Shared BY DEF BlocksLane
    <3> HIDE DEF l, unknown
    <3> QED BY <2>1, <3>1, <1>t, <1>0
  <2>5. source[l] = j /\ unknown => blocked'[l] = j
    <3>1. source[l] = j => j \in Shared
      BY <1>0, ConstantsFit DEF IInv, TypeOK
    <3>2. source[l] = j /\ unknown => BlocksLane(j, unknown) BY <3>1 DEF BlocksLane
    <3> HIDE DEF l, unknown
    <3> QED BY <2>1, <3>2, <1>t, <1>0
  <2>6. lock' \in [Lanes -> Seq(Ticket)] /\ ChainsFit(lock', state', outcome')
    <3>1. queued' = queued /\ outcome' = outcome BY <1>2
    <3>2. lock' \in [Lanes -> Seq(Ticket)] /\ ChainsFit(lock', Ended(state, j), outcome)
      BY <3>1, <2>1, <1>t, PumpAllFits
    <3> QED BY <3>1, <3>2, <1>1
  <2> QED BY <1>1, <1>2, <2>2, <2>3, <2>4, <2>5, <2>6 DEF Uncertain, FinalizeResult
<1>4. CASE ~owned
  <2>1. lock' = chains /\ running' = running /\ independent' = independent /\ blocked' = blocked
    BY <1>4 DEF Finalize, laneVars
  <2>2. ASSUME NEW m \in Lanes, Open(m, closed, disposed) PROVE running[m] # j /\ j \notin independent[m]
    <3>1. running[m] = j \/ j \in independent[m] => m = l
      BY <1>0, <1>t, ConstantsFit DEF PlacesOfLane
    <3> QED BY <3>1, <2>2, <1>4 DEF Open, Registered
  <2>3. Open(l, closed, disposed) => source[l] # j
    <3>1. source[l] = j => j \in Shared
      BY <1>0, ConstantsFit DEF IInv, TypeOK
    <3>2. Open(l, closed, disposed) /\ source[l] \in Shared => running[l] = source[l]
      BY <1>0 DEF IInv, PlacesFit
    <3> QED BY <3>1, <3>2, <2>2, <1>0
  <2>4. lock' \in [Lanes -> Seq(Ticket)] /\ ChainsFit(lock', state', outcome')
    BY <2>1, <1>1, <1>2
  <2> QED BY <1>1, <1>2, <1>t, <2>1, <2>2, <2>3, <2>4 DEF FinalizeResult
<1> QED BY <1>3, <1>4

(* The request has settled, or its isolation has: it holds the lane and    *)
(* the session no longer.                                                  *)
LEMMA FinalizeKeeps ==
  ASSUME IInv, NEW j \in Jobs, NEW o \in Outcomes, NEW isolated \in BOOLEAN,
         NEW chains \in [Lanes -> Seq(Ticket)], ChainsFit(chains, Ended(state, j), outcome),
         Finalize(j, o, isolated, chains), state[j] \in {"running", "isolating"},
         hold' \in HoldTypes, HoldsOfLane(hold'),
         isolationRequired' \in [Jobs -> BOOLEAN], isolationVerified' \in [Jobs -> BOOLEAN],
         \A k \in Jobs : k # j => isolationRequired'[k] = isolationRequired[k]
                                 /\ isolationVerified'[k] = isolationVerified[k],
         inUse' \in [Lanes -> SUBSET (Shared \union Direct)], unsafe' \in [Lanes -> BOOLEAN],
         \A m \in Lanes : inUse'[m] \subseteq inUse[m] \ {j},
         \A m \in Lanes : Open(m, closed, disposed) /\ unsafe'[m] =>
           /\ unsafe[m] \/ source[m] = j
           /\ source[m] = j => blocked[m] # None
                             \/ Uncertain(j, o, isolated, isolationRequired', isolationVerified')
  PROVE  IInv'
<1>1. /\ state' = Ended(state, j)
      /\ Resolve({j}, o) /\ Retire(j)
      /\ UNCHANGED << queued, paused, recovering, outcome, sequence, ownerVars >>
      /\ running' \in [Lanes -> Shared \union {None}] /\ independent' \in [Lanes -> SUBSET Independent]
      /\ \A m \in Lanes : Open(m, closed, disposed) =>
           /\ running'[m] = IF running[m] = j THEN None ELSE running[m]
           /\ independent'[m] = independent[m] \ {j}
      /\ PlacesOfLane(running', independent')
      /\ blocked' \in [Lanes -> Shared \union {None}]
      /\ \A m \in Lanes : blocked'[m] = blocked[m] \/ (m = LaneOf[j] /\ blocked'[m] = j)
      /\ Open(LaneOf[j], closed, disposed) /\ source[LaneOf[j]] = j
           /\ Uncertain(j, o, isolated, isolationRequired', isolationVerified')
           => blocked'[LaneOf[j]] = j
      /\ lock' \in [Lanes -> Seq(Ticket)] /\ ChainsFit(lock', state', outcome')
  <2>1. FinalizeResult(j, o, isolated) BY FinalizeFacts
  <2> QED BY <2>1 DEF FinalizeResult
<1>2. j \in Executions /\ LaneOf[j] \in Lanes /\ j # None
  BY ConstantsFit
<1>3. /\ source' \in [Lanes -> Shared \union Direct \union {None}] /\ ownSources' \in SUBSET Independent
      /\ \A m \in Lanes : source'[m] = IF source[m] = j THEN None ELSE source[m]
      /\ ownSources' = ownSources \ {j}
  BY <1>1, <1>2, RetireFits
<1>t. /\ state \in [Executions -> States] /\ resolved \in [Jobs -> Outcomes \union {None}]
      /\ SessionsOfLane(blocked, source, inUse)
      /\ inUse \in [Lanes -> SUBSET (Shared \union Direct)]
  BY DEF IInv, TypeOK
<1>4. state' \in [Executions -> States] /\ state'[j] = "done" /\ \A x \in Executions : x # j => state'[x] = state[x]
  <2>1. state' = Ended(state, j) BY <1>1
  <2> QED BY <2>1, <1>2, <1>t DEF States, Ended
<1>5. /\ resolved' \in [Jobs -> Outcomes \union {None}]
      /\ \A k \in Jobs : resolved'[k] = None => resolved[k] = None /\ k # j
  BY <1>1, <1>2, <1>t, ResolvesOne
<1>u. UNCHANGED << queued, paused, recovering, outcome, sequence, limits, closed, disposed >>
  BY <1>1 DEF ownerVars
<1>6. TypeOK'
  BY <1>1, <1>3, <1>4, <1>5, <1>u DEF IInv, TypeOK, HoldTypes, Points
<1>7. QueuesOfLane(queued') /\ NotStarted(queued', state') /\ Sorted(queued', sequence')
  <2>1. ASSUME NEW l \in Lanes, NEW i \in DOMAIN queued[l] PROVE state'[queued[l][i]] \in {"preparing", "ready"}
    <3>1. InSeq(queued[l][i], queued[l]) BY DEF InSeq
    <3>2. queued[l][i] \in Jobs /\ state[queued[l][i]] \in {"preparing", "ready"} BY <3>1, InQueueFacts
    <3> QED BY <3>2, <1>4, ConstantsFit
  <2> QED BY <2>1, <1>u DEF IInv, NotStarted
<1>8. Numbered(state', sequence')
  <2>1. \A k \in Jobs : state'[k] # "new" <=> state[k] # "new" BY <1>4, ConstantsFit
  <2>2. Numbered(state, sequence) BY DEF IInv
  <2>3. Numbered(state', sequence) BY <2>1, <2>2, StaysNumbered
  <2> QED BY <2>3, <1>u
<1>9. IsolatingFits(state', outcome', isolationRequired', isolationVerified')
  BY <1>4, <1>u, ConstantsFit DEF IInv, IsolatingFits
<1>10. UsersRun(inUse', state')
  BY <1>4, <1>t, ConstantsFit DEF IInv, UsersRun
<1>11. SessionsOfLane(blocked', source', inUse')
  BY <1>1, <1>3, <1>t DEF SessionsOfLane
<1>12. SessionsFit(inUse', unsafe', source', blocked', state', closed', disposed')
  <2>1. ASSUME NEW m \in Lanes, Open(m, closed, disposed)
        PROVE  /\ inUse'[m] \subseteq {source'[m]}
               /\ unsafe'[m] => blocked'[m] # None \/ (source'[m] \in Shared /\ state'[source'[m]] = "isolating")
    <3>1. /\ inUse[m] \subseteq {source[m]}
          /\ unsafe[m] => blocked[m] # None \/ (source[m] \in Shared /\ state[source[m]] = "isolating")
      BY <2>1 DEF IInv, SessionsFit
    <3>2. inUse'[m] \subseteq {source'[m]}
      BY <3>1, <1>3
    <3>3. ASSUME unsafe'[m] PROVE blocked'[m] # None \/ (source'[m] \in Shared /\ state'[source'[m]] = "isolating")
      <4>1. CASE source[m] = j
        <5>1. m = LaneOf[j] BY <4>1, <1>2, <1>t DEF SessionsOfLane
        <5> QED BY <5>1, <4>1, <3>3, <2>1, <1>1, <1>2
      <4>2. CASE source[m] # j
        BY <4>2, <3>3, <3>1, <2>1, <1>1, <1>2, <1>3, <1>4, ConstantsFit
      <4> QED BY <4>1, <4>2
    <3> QED BY <3>2, <3>3
  <2> QED BY <2>1, <1>u DEF SessionsFit
<1>13. PlacesFit(running', source', independent', ownSources', closed', disposed')
  BY <1>1, <1>2, <1>3, <1>u, ForgottenFits
<1>14. NoneLost(state', resolved', queued', running', independent', closed', disposed')
  <2>1. ASSUME NEW k \in Jobs, state'[k] # "new", resolved'[k] = None
        PROVE  /\ Open(LaneOf[k], closed, disposed)
               /\ InSeq(k, queued[LaneOf[k]]) \/ running'[LaneOf[k]] = k \/ k \in independent'[LaneOf[k]]
    <3>1. k # j /\ resolved[k] = None /\ state[k] # "new" /\ LaneOf[k] \in Lanes
      BY <2>1, <1>4, <1>5, ConstantsFit
    <3>2. /\ Open(LaneOf[k], closed, disposed)
          /\ InSeq(k, queued[LaneOf[k]]) \/ running[LaneOf[k]] = k \/ k \in independent[LaneOf[k]]
      BY <3>1 DEF IInv, NoneLost
    <3> QED BY <3>1, <3>2, <1>1
  <2> QED BY <2>1, <1>u DEF NoneLost
<1> QED BY <1>1, <1>6, <1>7, <1>8, <1>9, <1>10, <1>11, <1>12, <1>13, <1>14 DEF IInv

(* A request that has started, or a command, goes on: the queues do not    *)
(* notice.                                                                 *)
LEMMA OthersKeepQueue ==
  ASSUME IInv, NEW x \in Executions, \A y \in Executions : y # x => state'[y] = state[y],
         x \in Jobs => state[x] \notin {"new", "preparing", "ready"} /\ state'[x] # "new",
         UNCHANGED << queued, sequence >>
  PROVE  NotStarted(queued', state') /\ Numbered(state', sequence')
<1>1. ASSUME NEW l \in Lanes, NEW i \in DOMAIN queued[l] PROVE state'[queued[l][i]] \in {"preparing", "ready"}
  <2>1. InSeq(queued[l][i], queued[l]) BY DEF InSeq
  <2>2. queued[l][i] \in Jobs /\ state[queued[l][i]] \in {"preparing", "ready"} BY <2>1, InQueueFacts
  <2> QED BY <2>2, ConstantsFit
<1>2. \A k \in Jobs : state'[k] # "new" <=> state[k] # "new"
  BY ConstantsFit
<1>3. Numbered(state', sequence)
  <2>1. Numbered(state, sequence) BY DEF IInv
  <2> QED BY <1>2, <2>1, StaysNumbered
<1> QED BY <1>1, <1>3 DEF IInv, NotStarted

(* job.run settles, and the session must be isolated first.                *)
LEMMA SettledUnsafeKeeps ==
  ASSUME IInv, NEW j \in Shared, NEW o \in Outcomes, state[j] = "running", source[LaneOf[j]] = j,
         isolationRequired' \in [Jobs -> BOOLEAN], isolationVerified' \in [Jobs -> BOOLEAN],
         \A k \in Jobs : k # j => isolationRequired'[k] = isolationRequired[k]
                                 /\ isolationVerified'[k] = isolationVerified[k],
         ~isolationVerified'[j], o = "cancelled" \/ isolationRequired'[j],
         inUse' \in [Lanes -> SUBSET (Shared \union Direct)], unsafe' \in [Lanes -> BOOLEAN],
         \A m \in Lanes : inUse'[m] \subseteq inUse[m] \ {j},
         \A m \in Lanes : Open(m, closed, disposed) /\ unsafe'[m] => unsafe[m] \/ source[m] = j,
         state' = [state EXCEPT ![j] = "isolating"], outcome' = [outcome EXCEPT ![j] = o],
         lock' = Joined(LaneOf[j], "isolate", j),
         UNCHANGED << laneVars, sourceVars, resolved, sequence, ownerVars, hold >>
  PROVE  IInv'
<1> USE DEF laneVars, sourceVars, ownerVars
<1>1. j \in Executions /\ j \in Jobs
  BY ConstantsFit
<1>2. /\ state' \in [Executions -> States] /\ state'[j] = "isolating"
      /\ \A x \in Executions : x # j => state'[x] = state[x]
  BY <1>1, InvFacts DEF States
<1>3. /\ outcome' \in [Jobs -> Outcomes \union {None}] /\ outcome'[j] = o /\ o # None
      /\ \A x \in Jobs : x # j => outcome'[x] = outcome[x]
  BY <1>1, InvFacts DEF Outcomes, None
<1>4. lock' \in [Lanes -> Seq(Ticket)] /\ ChainsFit(lock', state', outcome')
  <2>1. "isolate" \in Asks /\ TicketFits(TicketOf("isolate", j), state', outcome')
    BY <1>2, <1>3 DEF Asks, TicketFits, TicketOf
  <2>2. state[j] \notin {"isolating", "waiting"} OBVIOUS
  <2>3. \A y \in Executions : y # j => state'[y] = state[y] /\ (y \in Jobs => outcome'[y] = outcome[y])
    BY <1>2, <1>3
  <2> QED BY <2>1, <2>2, <2>3, <1>1, InvFacts, JoinedOnceFits DEF Joined
<1>5. NotStarted(queued', state') /\ Numbered(state', sequence')
  BY <1>1, <1>2, OthersKeepQueue
<1>6. IsolatingFits(state', outcome', isolationRequired', isolationVerified')
  BY <1>2, <1>3, ConstantsFit DEF IInv, IsolatingFits
<1>7. UsersRun(inUse', state')
  <2>1. \A m \in Lanes : inUse[m] \subseteq Executions BY ConstantsFit DEF IInv, TypeOK
  <2> QED BY <1>2, <2>1 DEF IInv, UsersRun
<1>8. SessionsFit(inUse', unsafe', source', blocked', state', closed', disposed')
  <2>1. ASSUME NEW m \in Lanes, Open(m, closed, disposed)
        PROVE  /\ inUse'[m] \subseteq {source[m]}
               /\ unsafe'[m] => blocked[m] # None \/ (source[m] \in Shared /\ state'[source[m]] = "isolating")
    <3>1. /\ inUse[m] \subseteq {source[m]}
          /\ unsafe[m] => blocked[m] # None \/ (source[m] \in Shared /\ state[source[m]] = "isolating")
      BY <2>1 DEF IInv, SessionsFit
    <3> QED BY <3>1, <2>1, <1>2, ConstantsFit
  <2> QED BY <2>1 DEF SessionsFit
<1>9. NoneLost(state', resolved', queued', running', independent', closed', disposed')
  BY <1>1, <1>2, ConstantsFit DEF IInv, NoneLost
<1>10. SessionsOfLane(blocked', source', inUse')
  BY DEF IInv, SessionsOfLane
<1>11. TypeOK'
  BY <1>2, <1>3, <1>4 DEF IInv, TypeOK
<1> QED BY <1>4, <1>5, <1>6, <1>7, <1>8, <1>9, <1>10, <1>11 DEF IInv

LEMMA RunSettlesKeeps ==
  ASSUME IInv, NEW j \in Jobs, NEW o \in Outcomes, NEW required \in BOOLEAN, NEW verified \in BOOLEAN,
         RunSettles(j, o, required, verified)
  PROVE  IInv'
<1> DEFINE l == LaneOf[j]
<1>1. l \in Lanes /\ j \in Executions
  BY ConstantsFit
<1>t. /\ isolationRequired \in [Jobs -> BOOLEAN] /\ isolationVerified \in [Jobs -> BOOLEAN]
      /\ inUse \in [Lanes -> SUBSET (Shared \union Direct)] /\ unsafe \in [Lanes -> BOOLEAN]
      /\ SessionsOfLane(blocked, source, inUse) /\ source \in [Lanes -> Shared \union Direct \union {None}]
  BY DEF IInv, TypeOK
<1>2. /\ state[j] = "running"
      /\ isolationRequired' = [isolationRequired EXCEPT ![j] = @ \/ (required /\ Current(j))]
      /\ isolationVerified' = [isolationVerified EXCEPT ![j] = @ \/ (verified /\ Current(j))]
      /\ inUse' = [inUse EXCEPT ![l] = @ \ {j}]
      /\ unsafe' = [unsafe EXCEPT ![l] =
           @ \/ (/\ j \in inUse[l] /\ ~isolationVerified'[j]
                 /\ o = "cancelled" \/ isolationRequired'[j])]
      /\ hold' = hold
  BY DEF RunSettles
<1>3. /\ isolationRequired' \in [Jobs -> BOOLEAN] /\ isolationVerified' \in [Jobs -> BOOLEAN]
      /\ \A k \in Jobs : k # j => isolationRequired'[k] = isolationRequired[k]
                                 /\ isolationVerified'[k] = isolationVerified[k]
  <2> DEFINE r == isolationRequired[j] \/ (required /\ Current(j))
             v == isolationVerified[j] \/ (verified /\ Current(j))
  <2>1. r \in BOOLEAN /\ v \in BOOLEAN OBVIOUS
  <2>2. isolationRequired' = [isolationRequired EXCEPT ![j] = r] /\ isolationVerified' = [isolationVerified EXCEPT ![j] = v]
    BY <1>2
  <2> HIDE DEF r, v
  <2> QED BY <2>1, <2>2, <1>t
<1>4. /\ inUse' \in [Lanes -> SUBSET (Shared \union Direct)]
      /\ \A m \in Lanes : inUse'[m] \subseteq inUse[m] \ {j}
  <2>1. \A m \in Lanes : j \in inUse[m] => m = l BY <1>t DEF SessionsOfLane
  <2> QED BY <2>1, <1>1, <1>2, <1>t
<1> DEFINE left == /\ j \in inUse[l] /\ ~isolationVerified'[j]
                   /\ o = "cancelled" \/ isolationRequired'[j]
<1>5. left \in BOOLEAN /\ unsafe' = [unsafe EXCEPT ![l] = @ \/ left] /\ (left => j \in inUse[l])
  BY <1>2
<1>6. unsafe' \in [Lanes -> BOOLEAN] /\ \A m \in Lanes : unsafe'[m] => unsafe[m] \/ (m = l /\ left)
  <2> HIDE DEF left, l
  <2> QED BY <1>5, <1>1, <1>t
<1>7. ASSUME NEW m \in Lanes, Open(m, closed, disposed), unsafe'[m] PROVE unsafe[m] \/ source[m] = j
  <2>1. Open(l, closed, disposed) /\ j \in inUse[l] => source[l] = j
    BY <1>1 DEF IInv, SessionsFit
  <2> HIDE DEF left, l
  <2> QED BY <2>1, <1>5, <1>6, <1>7
<1>8. hold' \in HoldTypes /\ HoldsOfLane(hold')
  BY <1>2, InvFacts
<1>A. CASE NeedsIsolation(j, o)
  <2>1. j \in Shared /\ source[l] = j /\ ~isolationVerified'[j] /\ (o = "cancelled" \/ isolationRequired'[j])
    BY <1>A, ConstantsFit DEF NeedsIsolation, Current
  <2>2. /\ state' = [state EXCEPT ![j] = "isolating"] /\ outcome' = [outcome EXCEPT ![j] = o]
        /\ lock' = Joined(l, "isolate", j)
        /\ UNCHANGED << laneVars, sourceVars, resolved, sequence, ownerVars, hold >>
    BY <1>A, <1>2 DEF RunSettles
  <2> QED BY <2>1, <2>2, <1>2, <1>3, <1>4, <1>6, <1>7, SettledUnsafeKeeps
<1>B. CASE ~NeedsIsolation(j, o)
  <2>1. Finalize(j, o, FALSE, lock)
    BY <1>B DEF RunSettles
  <2>2. ChainsFit(lock, Ended(state, j), outcome)
    <3>1. Undisturbed(state, Ended(state, j), outcome, outcome)
      BY <1>2, InvFacts DEF Undisturbed, Ended
    <3> QED BY <3>1, InvFacts, ChainsUndisturbed
  <2>3. ASSUME NEW m \in Lanes, Open(m, closed, disposed), unsafe'[m], source[m] = j
        PROVE  blocked[m] # None \/ Uncertain(j, o, FALSE, isolationRequired', isolationVerified')
    <3>1. m = l /\ j \in Shared
      BY <2>3, <1>t, <1>1, ConstantsFit DEF SessionsOfLane
    <3>2. CASE unsafe[m]
      BY <3>1, <3>2, <2>3, <1>2 DEF IInv, SessionsFit
    <3>3. CASE ~unsafe[m]
      BY <3>3, <2>3, <1>6 DEF Uncertain
    <3> QED BY <3>2, <3>3
  <2>4. \A m \in Lanes : Open(m, closed, disposed) /\ unsafe'[m] =>
          /\ unsafe[m] \/ source[m] = j
          /\ source[m] = j => blocked[m] # None
                            \/ Uncertain(j, o, FALSE, isolationRequired', isolationVerified')
    BY <2>3, <1>7
  <2>5. lock \in [Lanes -> Seq(Ticket)] /\ state[j] \in {"running", "isolating"} /\ FALSE \in BOOLEAN
    BY <1>2, InvFacts
  <2>6. unsafe' \in [Lanes -> BOOLEAN] BY <1>6
  <2> HIDE DEF left, l
  <2> QED BY <2>1, <2>2, <2>4, <2>5, <2>6, <1>3, <1>4, <1>8, FinalizeKeeps
<1> QED BY <1>A, <1>B

(* The isolation of a request's session is over.                           *)
LEMMA IsolationEndsKeeps ==
  ASSUME IInv, NEW l \in Lanes, NEW ok \in BOOLEAN, IsolationEnds(l, ok)
  PROVE  IInv'
<1> DEFINE h == Head(lock[l])
<1>1. PICK j : j = h.by
  OBVIOUS
<1>2. /\ lock[l] # << >> /\ h.kind = "isolate"
      /\ hold[l].at = "isolating" \/ (hold[l].at = "enter" /\ ~Current(j) /\ ok)
      /\ LeaveLock(l)
      /\ IF ok /\ hold[l].at = "isolating" THEN MakesSafe(l) ELSE UNCHANGED sessionVars
      /\ UNCHANGED entryVars
      /\ Finalize(j, outcome[j], ok, Left(l))
  BY <1>1 DEF IsolationEnds, HeadIs
<1>3. /\ h \in Ticket /\ LaneOf[j] = l /\ TicketFits(h, state, outcome)
      /\ Left(l) \in [Lanes -> Seq(Ticket)]
  BY <1>1, <1>2, HeadKnown
<1> HIDE DEF h
<1>4. j \in Shared /\ j \in Jobs /\ j \in Executions /\ state[j] = "isolating" /\ outcome[j] \in Outcomes
  <2>1. j \in Shared /\ state[j] = "isolating" /\ outcome[j] # None
    BY <1>1, <1>2, <1>3 DEF TicketFits
  <2> QED BY <2>1, ConstantsFit, InvFacts
<1>5. ChainsFit(Left(l), Ended(state, j), outcome)
  <2>1. \A x \in Executions : x # j => Ended(state, j)[x] = state[x]
    BY InvFacts DEF Ended
  <2>2. lock \in [Lanes -> Seq(Ticket)] /\ ChainsFit(lock, state, outcome) /\ h.kind \in Asks
    BY <1>2, InvFacts DEF Asks
  <2>3. ChainsFit([lock EXCEPT ![l] = Tail(@)], Ended(state, j), outcome)
    BY <2>1, <2>2, <1>1, <1>2, HeadLeaves DEF h
  <2> QED BY <2>3 DEF Left
<1>6. hold' \in HoldTypes /\ HoldsOfLane(hold')
  BY <1>2, InvFacts, LeaveFits DEF LeaveLock
<1>t. /\ isolationRequired \in [Jobs -> BOOLEAN] /\ isolationVerified \in [Jobs -> BOOLEAN]
      /\ inUse \in [Lanes -> SUBSET (Shared \union Direct)] /\ unsafe \in [Lanes -> BOOLEAN]
      /\ SessionsOfLane(blocked, source, inUse)
  BY DEF IInv, TypeOK
<1>7. isolationRequired' = isolationRequired /\ isolationVerified' = isolationVerified
  BY <1>2 DEF entryVars
<1>8. /\ inUse' \in [Lanes -> SUBSET (Shared \union Direct)] /\ unsafe' \in [Lanes -> BOOLEAN]
      /\ \A m \in Lanes : inUse'[m] \subseteq inUse[m]
      /\ \A m \in Lanes : unsafe'[m] => unsafe[m] /\ (m = l => ~(ok /\ hold[l].at = "isolating"))
  <2>1. CASE ok /\ hold[l].at = "isolating"
    BY <2>1, <1>2, <1>t DEF MakesSafe
  <2>2. CASE ~(ok /\ hold[l].at = "isolating")
    BY <2>2, <1>2, <1>t DEF sessionVars
  <2> QED BY <2>1, <2>2
<1>9. \A m \in Lanes : inUse'[m] \subseteq inUse[m] \ {j}
  BY <1>4, <1>8 DEF IInv, UsersRun
<1>10. ASSUME NEW m \in Lanes, unsafe'[m], source[m] = j
       PROVE  Uncertain(j, outcome[j], ok, isolationRequired', isolationVerified')
  <2>1. m = l
    BY <1>10, <1>3, <1>4, <1>t, ConstantsFit DEF SessionsOfLane
  <2>2. Current(j)
    BY <2>1, <1>3, <1>4, <1>10, ConstantsFit DEF Current
  <2>3. ~ok
    BY <2>1, <2>2, <1>2, <1>8, <1>10
  <2> QED BY <2>3, <1>4, <1>7 DEF IInv, IsolatingFits, Uncertain
<1>11. \A m \in Lanes : Open(m, closed, disposed) /\ unsafe'[m] =>
         /\ unsafe[m] \/ source[m] = j
         /\ source[m] = j => blocked[m] # None
                           \/ Uncertain(j, outcome[j], ok, isolationRequired', isolationVerified')
  BY <1>8, <1>10
<1>12. /\ isolationRequired' \in [Jobs -> BOOLEAN] /\ isolationVerified' \in [Jobs -> BOOLEAN]
       /\ \A k \in Jobs : k # j => isolationRequired'[k] = isolationRequired[k]
                                  /\ isolationVerified'[k] = isolationVerified[k]
       /\ state[j] \in {"running", "isolating"}
  BY <1>4, <1>7, <1>t
<1>13. PICK o, c : o = outcome[j] /\ c = Left(l)
  OBVIOUS
<1>14. Finalize(j, o, ok, c)
  BY <1>2, <1>13 DEF Finalize, PumpAll
<1>15. \A m \in Lanes : Open(m, closed, disposed) /\ unsafe'[m] =>
         /\ unsafe[m] \/ source[m] = j
         /\ source[m] = j => blocked[m] # None
                           \/ Uncertain(j, o, ok, isolationRequired', isolationVerified')
  BY <1>11, <1>13
<1>16. /\ o \in Outcomes /\ c \in [Lanes -> Seq(Ticket)]
       /\ ChainsFit(c, Ended(state, j), outcome)
  BY <1>3, <1>4, <1>5, <1>13
<1> QED BY <1>4, <1>6, <1>8, <1>9, <1>12, <1>14, <1>15, <1>16, FinalizeKeeps

--------------------------------------------------------------------------------
(* Commands outside the queue.                                             *)

(* A command goes on: the requests do not notice.                          *)
LEMMA DirectMovesKeeps ==
  ASSUME IInv, NEW d \in Direct, \A y \in Executions : y # d => state'[y] = state[y],
         UNCHANGED << queued, running, independent, outcome, resolved, sequence, entryVars, closed, disposed >>
  PROVE  /\ QueuesOfLane(queued') /\ PlacesOfLane(running', independent')
         /\ NotStarted(queued', state') /\ Sorted(queued', sequence') /\ Numbered(state', sequence')
         /\ IsolatingFits(state', outcome', isolationRequired', isolationVerified')
         /\ NoneLost(state', resolved', queued', running', independent', closed', disposed')
<1> USE DEF entryVars
<1>1. d \in Executions /\ d \notin Jobs
  BY ConstantsFit
<1>2. NotStarted(queued', state') /\ Numbered(state', sequence')
  BY <1>1, OthersKeepQueue
<1>3. \A k \in Jobs : state'[k] = state[k]
  BY <1>1, ConstantsFit
<1>4. IsolatingFits(state', outcome', isolationRequired', isolationVerified')
  BY <1>3 DEF IInv, IsolatingFits
<1>5. NoneLost(state', resolved', queued', running', independent', closed', disposed')
  BY <1>3 DEF IInv, NoneLost
<1> QED BY <1>2, <1>4, <1>5 DEF IInv

LEMMA TryAcquireKeeps ==
  ASSUME IInv, NEW d \in Direct, TryAcquire(d)
  PROVE  IInv'
<1>1. /\ state[d] = "new" /\ state' = [state EXCEPT ![d] = "waiting"]
      /\ lock' = Joined(LaneOf[d], "acquire", d)
      /\ UNCHANGED << laneVars, sourceVars, hold, outcome, resolved, sequence, entryVars,
                      ownerVars, sessionVars >>
  BY DEF TryAcquire
<1> USE DEF laneVars, sourceVars, ownerVars, entryVars, sessionVars
<1>2. d \in Executions /\ d \notin Shared
  BY ConstantsFit
<1>3. /\ state' \in [Executions -> States] /\ state'[d] = "waiting"
      /\ \A x \in Executions : x # d => state'[x] = state[x]
  BY <1>1, <1>2, InvFacts DEF States
<1>4. lock' \in [Lanes -> Seq(Ticket)] /\ ChainsFit(lock', state', outcome')
  <2>1. "acquire" \in Asks /\ TicketFits(TicketOf("acquire", d), state', outcome')
    BY <1>3 DEF Asks, TicketFits, TicketOf
  <2>2. state[d] \notin {"isolating", "waiting"} BY <1>1
  <2>3. \A y \in Executions : y # d => state'[y] = state[y] /\ (y \in Jobs => outcome'[y] = outcome[y])
    BY <1>1, <1>3
  <2> QED BY <2>1, <2>2, <2>3, <1>1, <1>2, InvFacts, JoinedOnceFits DEF Joined
<1>5. /\ QueuesOfLane(queued') /\ PlacesOfLane(running', independent')
      /\ NotStarted(queued', state') /\ Sorted(queued', sequence') /\ Numbered(state', sequence')
      /\ IsolatingFits(state', outcome', isolationRequired', isolationVerified')
      /\ NoneLost(state', resolved', queued', running', independent', closed', disposed')
  BY <1>1, <1>3, DirectMovesKeeps
<1>6. UsersRun(inUse', state')
  <2>1. \A m \in Lanes : inUse[m] \subseteq Executions BY ConstantsFit DEF IInv, TypeOK
  <2> QED BY <1>1, <1>3, <2>1 DEF IInv, UsersRun
<1>7. SessionsFit(inUse', unsafe', source', blocked', state', closed', disposed')
  BY <1>1, <1>2, <1>3, ConstantsFit DEF IInv, SessionsFit
<1>8. TypeOK'
  BY <1>1, <1>3, <1>4 DEF IInv, TypeOK
<1> QED BY <1>1, <1>4, <1>5, <1>6, <1>7, <1>8 DEF IInv

(* A command that waits for the session leaves its lane's lock.            *)
Becomes(x, s) == state' = [state EXCEPT ![x] = s]
AcquirerLeft(l, d, s) ==
  /\ d \in Direct /\ d \in Executions /\ d \notin Jobs /\ LaneOf[d] = l /\ state[d] = "waiting"
  /\ state' \in [Executions -> States] /\ state'[d] = s
  /\ \A x \in Executions : x # d => state'[x] = state[x]
  /\ lock' \in [Lanes -> Seq(Ticket)] /\ ChainsFit(lock', state', outcome')
  /\ hold' \in HoldTypes /\ HoldsOfLane(hold')

LEMMA AcquirerFacts ==
  ASSUME IInv, NEW l \in Lanes, lock[l] # << >>, Head(lock[l]).kind = "acquire",
         NEW d, d = Head(lock[l]).by, NEW s \in States,
         Becomes(d, s), lock' = Left(l), LeaveLock(l), outcome' = outcome
  PROVE  AcquirerLeft(l, d, s)
<1>1. LaneOf[d] = l /\ TicketFits(Head(lock[l]), state, outcome) /\ Left(l) \in [Lanes -> Seq(Ticket)]
  BY HeadKnown
<1>2. d \in Direct /\ d \in Executions /\ d \notin Jobs /\ state[d] = "waiting"
  BY <1>1, ConstantsFit DEF TicketFits
<1>3. /\ state' \in [Executions -> States] /\ state'[d] = s
      /\ \A x \in Executions : x # d => state'[x] = state[x]
  BY <1>2, InvFacts DEF Becomes
<1>4. ChainsFit(lock', state', outcome)
  <2>1. lock \in [Lanes -> Seq(Ticket)] /\ ChainsFit(lock, state, outcome) /\ Head(lock[l]).kind \in Asks
    BY InvFacts DEF Asks
  <2>2. ChainsFit([lock EXCEPT ![l] = Tail(@)], state', outcome)
    BY <2>1, <1>3, HeadLeaves
  <2> QED BY <2>2 DEF Left
<1>5. hold' \in HoldTypes /\ HoldsOfLane(hold')
  BY InvFacts, LeaveFits DEF LeaveLock
<1> QED BY <1>1, <1>2, <1>3, <1>4, <1>5 DEF AcquirerLeft

LEMMA RefusedKeeps ==
  ASSUME IInv, NEW l \in Lanes, lock[l] # << >>, Head(lock[l]).kind = "acquire",
         state' = [state EXCEPT ![Head(lock[l]).by] = "done"], lock' = Left(l), LeaveLock(l),
         UNCHANGED << laneVars, sourceVars, outcome, resolved, sequence, entryVars, ownerVars, sessionVars >>
  PROVE  IInv'
<1> USE DEF laneVars, sourceVars, entryVars, ownerVars, sessionVars
<1>0. PICK d : d = Head(lock[l]).by
  OBVIOUS
<1>1. "done" \in States /\ Becomes(d, "done")
  BY <1>0 DEF States, Becomes
<1>2. /\ d \in Direct /\ d \in Executions /\ d \notin Jobs /\ LaneOf[d] = l /\ state[d] = "waiting"
      /\ state' \in [Executions -> States] /\ state'[d] = "done"
      /\ \A x \in Executions : x # d => state'[x] = state[x]
      /\ lock' \in [Lanes -> Seq(Ticket)] /\ ChainsFit(lock', state', outcome')
      /\ hold' \in HoldTypes /\ HoldsOfLane(hold')
  <2>1. AcquirerLeft(l, d, "done") BY <1>0, <1>1, AcquirerFacts
  <2> QED BY <2>1 DEF AcquirerLeft
<1>3. /\ QueuesOfLane(queued') /\ PlacesOfLane(running', independent')
      /\ NotStarted(queued', state') /\ Sorted(queued', sequence') /\ Numbered(state', sequence')
      /\ IsolatingFits(state', outcome', isolationRequired', isolationVerified')
      /\ NoneLost(state', resolved', queued', running', independent', closed', disposed')
  BY <1>2, DirectMovesKeeps
<1>4. UsersRun(inUse', state')
  <2>1. \A m \in Lanes : inUse[m] \subseteq Executions BY ConstantsFit DEF IInv, TypeOK
  <2> QED BY <1>2, <2>1 DEF IInv, UsersRun
<1>5. SessionsFit(inUse', unsafe', source', blocked', state', closed', disposed')
  BY <1>2, ConstantsFit DEF IInv, SessionsFit
<1>6. TypeOK'
  BY <1>2 DEF IInv, TypeOK, HoldTypes, Points
<1> QED BY <1>2, <1>3, <1>4, <1>5, <1>6 DEF IInv

(* A session that is nobody's is safe.                                     *)
LEMMA FreeSession ==
  ASSUME IInv, NEW l \in Lanes, Registered(l), source[l] = None, blocked[l] = None
  PROVE  inUse[l] = {} /\ ~unsafe[l] /\ running[l] = None
<1>1. inUse[l] \subseteq {source[l]} /\ (unsafe[l] => blocked[l] # None \/ (source[l] \in Shared /\ state[source[l]] = "isolating"))
  BY DEF IInv, SessionsFit, Registered, Open
<1>2. None \notin inUse[l] /\ None \notin Shared
  BY ConstantsFit DEF IInv, TypeOK
<1>3. running[l] # None => source[l] = running[l]
  BY DEF IInv, PlacesFit, Registered, Open
<1> QED BY <1>1, <1>2, <1>3

LEMMA GrantedKeeps ==
  ASSUME IInv, NEW l \in Lanes, lock[l] # << >>, Head(lock[l]).kind = "acquire",
         Registered(l), source[l] = None, blocked[l] = None,
         NEW d, d = Head(lock[l]).by,
         state' = [state EXCEPT ![d] = "running"], lock' = Left(l), LeaveLock(l),
         source' = [source EXCEPT ![l] = d], TakesSession(d),
         UNCHANGED << laneVars, ownSources, outcome, resolved, sequence, entryVars, ownerVars >>
  PROVE  IInv'
<1> USE DEF laneVars, entryVars, ownerVars
<1>1. "running" \in States /\ Becomes(d, "running")
  BY DEF States, Becomes
<1>2. /\ d \in Direct /\ d \in Executions /\ d \notin Jobs /\ LaneOf[d] = l /\ state[d] = "waiting"
      /\ state' \in [Executions -> States] /\ state'[d] = "running"
      /\ \A x \in Executions : x # d => state'[x] = state[x]
      /\ lock' \in [Lanes -> Seq(Ticket)] /\ ChainsFit(lock', state', outcome')
      /\ hold' \in HoldTypes /\ HoldsOfLane(hold')
  <2>1. AcquirerLeft(l, d, "running") BY <1>1, AcquirerFacts
  <2> QED BY <2>1 DEF AcquirerLeft
<1>3. /\ QueuesOfLane(queued') /\ PlacesOfLane(running', independent')
      /\ NotStarted(queued', state') /\ Sorted(queued', sequence') /\ Numbered(state', sequence')
      /\ IsolatingFits(state', outcome', isolationRequired', isolationVerified')
      /\ NoneLost(state', resolved', queued', running', independent', closed', disposed')
  BY <1>2, DirectMovesKeeps
<1>t. /\ source \in [Lanes -> Shared \union Direct \union {None}]
      /\ inUse \in [Lanes -> SUBSET (Shared \union Direct)]
  BY DEF IInv, TypeOK
<1>4. /\ source' \in [Lanes -> Shared \union Direct \union {None}]
      /\ \A m \in Lanes : source'[m] = IF m = l THEN d ELSE source[m]
  BY <1>2, <1>t
<1>5. /\ inUse' \in [Lanes -> SUBSET (Shared \union Direct)] /\ unsafe' = unsafe
      /\ \A m \in Lanes : inUse'[m] = IF m = l THEN inUse[m] \union {d} ELSE inUse[m]
  BY <1>2, <1>t DEF TakesSession
<1>6. inUse[l] = {} /\ ~unsafe[l] /\ running[l] = None
  BY FreeSession
<1>7. UsersRun(inUse', state')
  <2>1. \A m \in Lanes : inUse[m] \subseteq Executions BY <1>t, ConstantsFit
  <2> QED BY <1>2, <1>5, <2>1 DEF IInv, UsersRun
<1>8. SessionsFit(inUse', unsafe', source', blocked', state', closed', disposed')
  <2>1. ASSUME NEW m \in Lanes, Open(m, closed, disposed)
        PROVE  /\ inUse'[m] \subseteq {source'[m]}
               /\ unsafe'[m] => blocked[m] # None \/ (source'[m] \in Shared /\ state'[source'[m]] = "isolating")
    <3>1. /\ inUse[m] \subseteq {source[m]}
          /\ unsafe[m] => blocked[m] # None \/ (source[m] \in Shared /\ state[source[m]] = "isolating")
      BY <2>1 DEF IInv, SessionsFit
    <3>2. CASE m = l BY <3>2, <1>4, <1>5, <1>6
    <3>3. CASE m # l
      <4>1. source'[m] = source[m] /\ inUse'[m] = inUse[m] /\ unsafe'[m] = unsafe[m] BY <3>3, <1>4, <1>5
      <4> QED BY <4>1, <3>1, <1>2, ConstantsFit
    <3> QED BY <3>2, <3>3
  <2>2. blocked' = blocked /\ closed' = closed /\ disposed' = disposed OBVIOUS
  <2> QED BY <2>1, <2>2 DEF SessionsFit
<1>9. SessionsOfLane(blocked', source', inUse')
  <2>1. SessionsOfLane(blocked, source, inUse) /\ blocked' = blocked BY InvFacts
  <2>2. LaneOf[d] = l BY <1>2
  <2> QED BY <2>1, <2>2, <1>4, <1>5 DEF SessionsOfLane
<1>10. PlacesFit(running', source', independent', ownSources', closed', disposed')
  BY <1>2, <1>4, <1>6, ConstantsFit DEF IInv, PlacesFit
<1>11. TypeOK'
  BY <1>2, <1>4, <1>5 DEF IInv, TypeOK, HoldTypes, Points
<1> QED BY <1>2, <1>3, <1>7, <1>8, <1>9, <1>10, <1>11 DEF IInv

LEMMA AcquireLoopKeeps ==
  ASSUME IInv, NEW l \in Lanes, lock[l] # << >>, Head(lock[l]).kind = "acquire",
         NEW recovered \in BOOLEAN, AcquireLoop(l, recovered)
  PROVE  IInv'
<1>1. CASE Registered(l) /\ source[l] # None
  <2>1. /\ hold' = [hold EXCEPT ![l] = Holding("choosing", source[l])]
        /\ UNCHANGED << laneVars, sourceVars, lock, jobVars, entryVars, ownerVars, sessionVars >>
    BY <1>1 DEF AcquireLoop
  <2>2. source[l] \in Executions /\ LaneOf[source[l]] = l /\ "choosing" \in Points
    BY <1>1, InvFacts, ConstantsFit DEF SessionsOfLane, Points, Prompts
  <2> QED BY <2>1, <2>2, EntersKeeps
<1>2. CASE ~(Registered(l) /\ source[l] # None)
  <2>1. PICK d : d = Head(lock[l]).by
    OBVIOUS
  <2>2. /\ lock' = Left(l) /\ LeaveLock(l)
        /\ IF Refused(l, recovered)
           THEN /\ state' = [state EXCEPT ![d] = "done"]
                /\ UNCHANGED << source, sessionVars >>
           ELSE /\ state' = [state EXCEPT ![d] = "running"]
                /\ source' = [source EXCEPT ![l] = d]
                /\ TakesSession(d)
        /\ UNCHANGED << laneVars, ownSources, outcome, resolved, sequence, entryVars, ownerVars >>
    BY <1>2, <2>1 DEF AcquireLoop, Grant, TakesSession
  <2>3. CASE Refused(l, recovered)
    <3>1. /\ state' = [state EXCEPT ![Head(lock[l]).by] = "done"]
          /\ UNCHANGED << laneVars, sourceVars, outcome, resolved, sequence, entryVars, ownerVars, sessionVars >>
      BY <2>1, <2>2, <2>3 DEF sourceVars
    <3> QED BY <2>2, <3>1, RefusedKeeps
  <2>4. CASE ~Refused(l, recovered)
    <3>1. Registered(l) /\ source[l] = None /\ blocked[l] = None
      BY <2>4, <1>2 DEF Refused, Registered
    <3> QED BY <2>1, <2>2, <2>4, <3>1, GrantedKeeps
  <2> QED BY <2>3, <2>4
<1> QED BY <1>1, <1>2

LEMMA AcquireEntersKeeps ==
  ASSUME IInv, NEW l \in Lanes, AcquireEnters(l)
  PROVE  IInv'
BY AcquireLoopKeeps DEF AcquireEnters, HeadIs

LEMMA GivesUpKeeps ==
  ASSUME IInv, NEW l \in Lanes, InRecovery(l), GivesUp(l)
  PROVE  IInv'
<1>1. lock[l] # << >> /\ Head(lock[l]).kind \in {"acquire", "recover"}
  BY DEF InRecovery
<1>2. /\ LeaveLock(l)
      /\ UNCHANGED << queued, running, independent, paused, blocked, sourceVars, outcome,
                      resolved, sequence, entryVars, ownerVars, sessionVars >>
  BY DEF GivesUp
<1>3. CASE Head(lock[l]).kind = "recover"
  <2>1. recovering' = [recovering EXCEPT ![l] = FALSE] /\ state' = state /\ PumpAll(Left(l))
    BY <1>3 DEF GivesUp
  <2>2. UNCHANGED << queued, running, independent, paused, blocked, sourceVars, jobVars,
                     entryVars, ownerVars, sessionVars >>
    BY <1>2, <2>1 DEF jobVars
  <2> QED BY <1>1, <1>2, <2>1, <2>2, RecoveryEndsKeeps
<1>4. CASE Head(lock[l]).kind = "acquire"
  <2>1. /\ state' = [state EXCEPT ![Head(lock[l]).by] = "done"] /\ lock' = Left(l)
        /\ recovering' = recovering
    BY <1>4 DEF GivesUp
  <2>2. UNCHANGED << laneVars, sourceVars, outcome, resolved, sequence, entryVars, ownerVars, sessionVars >>
    BY <1>2, <2>1 DEF laneVars
  <2> QED BY <1>1, <1>2, <1>4, <2>1, <2>2, RefusedKeeps
<1> QED BY <1>1, <1>3, <1>4

(* A command finishes.                                                     *)
LEMMA DirectSettlesKeeps ==
  ASSUME IInv, NEW d \in Executions, DirectSettles(d)
  PROVE  IInv'
<1> DEFINE l == LaneOf[d]
<1>1. /\ d \in Direct /\ state[d] = "running" /\ state' = [state EXCEPT ![d] = "done"]
      /\ Retire(d) /\ inUse' = [inUse EXCEPT ![l] = @ \ {d}]
      /\ UNCHANGED << laneVars, hold, outcome, resolved, sequence, entryVars, ownerVars, unsafe >>
      /\ PumpAll(lock) \/ lock' = lock
  BY DEF DirectSettles
<1> USE DEF laneVars, entryVars, ownerVars
<1>2. l \in Lanes /\ d \notin Jobs /\ d \notin Shared /\ d \notin Independent
  BY <1>1, ConstantsFit
<1>3. /\ state' \in [Executions -> States] /\ state'[d] = "done"
      /\ \A x \in Executions : x # d => state'[x] = state[x]
  BY <1>1, InvFacts DEF States
<1>4. /\ source' \in [Lanes -> Shared \union Direct \union {None}] /\ ownSources' \in SUBSET Independent
      /\ \A m \in Lanes : source'[m] = IF source[m] = d THEN None ELSE source[m]
      /\ ownSources' = ownSources \ {d}
  BY <1>1, RetireFits
<1>t. /\ inUse \in [Lanes -> SUBSET (Shared \union Direct)] /\ SessionsOfLane(blocked, source, inUse)
      /\ running \in [Lanes -> Shared \union {None}] /\ independent \in [Lanes -> SUBSET Independent]
  BY DEF IInv, TypeOK
<1>5. /\ inUse' \in [Lanes -> SUBSET (Shared \union Direct)]
      /\ \A m \in Lanes : inUse'[m] = inUse[m] \ {d}
  <2>1. \A m \in Lanes : d \in inUse[m] => m = l BY <1>t DEF SessionsOfLane
  <2> HIDE DEF l
  <2> QED BY <2>1, <1>1, <1>2, <1>t
<1>6. lock' \in [Lanes -> Seq(Ticket)] /\ ChainsFit(lock', state', outcome')
  <2>1. ChainsFit(lock, state', outcome')
    <3>1. Undisturbed(state, state', outcome, outcome') BY <1>1, <1>3 DEF Undisturbed
    <3> QED BY <3>1, InvFacts, ChainsUndisturbed
  <2>2. CASE PumpAll(lock)
    <3>1. queued' = queued BY <1>1
    <3> QED BY <3>1, <2>1, <2>2, InvFacts, PumpAllFits
  <2>3. CASE lock' = lock
    BY <2>1, <2>3, InvFacts
  <2> QED BY <1>1, <2>2, <2>3
<1>7. /\ QueuesOfLane(queued') /\ PlacesOfLane(running', independent')
      /\ NotStarted(queued', state') /\ Sorted(queued', sequence') /\ Numbered(state', sequence')
      /\ IsolatingFits(state', outcome', isolationRequired', isolationVerified')
      /\ NoneLost(state', resolved', queued', running', independent', closed', disposed')
  BY <1>1, <1>3, DirectMovesKeeps
<1>8. UsersRun(inUse', state')
  <2>1. \A m \in Lanes : inUse[m] \subseteq Executions BY <1>t, ConstantsFit
  <2> QED BY <1>3, <1>5, <2>1 DEF IInv, UsersRun
<1>9. SessionsOfLane(blocked', source', inUse')
  <2>1. blocked' = blocked BY <1>1
  <2> QED BY <2>1, <1>4, <1>5, <1>t DEF SessionsOfLane
<1>10. SessionsFit(inUse', unsafe', source', blocked', state', closed', disposed')
  <2>1. ASSUME NEW m \in Lanes, Open(m, closed, disposed)
        PROVE  /\ inUse'[m] \subseteq {source'[m]}
               /\ unsafe[m] => blocked[m] # None \/ (source'[m] \in Shared /\ state'[source'[m]] = "isolating")
    <3>1. /\ inUse[m] \subseteq {source[m]}
          /\ unsafe[m] => blocked[m] # None \/ (source[m] \in Shared /\ state[source[m]] = "isolating")
      BY <2>1 DEF IInv, SessionsFit
    <3> QED BY <3>1, <1>2, <1>3, <1>4, <1>5, ConstantsFit
  <2> QED BY <2>1, <1>1 DEF SessionsFit
<1>11. PlacesFit(running', source', independent', ownSources', closed', disposed')
  <2>1. \A m \in Lanes : Open(m, closed, disposed) =>
          /\ running'[m] = IF running[m] = d THEN None ELSE running[m]
          /\ independent'[m] = independent[m] \ {d}
    BY <1>1, <1>2, <1>t, ConstantsFit
  <2> QED BY <2>1, <1>1, <1>4, ForgottenFits
<1>12. TypeOK'
  BY <1>1, <1>3, <1>4, <1>5, <1>6 DEF IInv, TypeOK
<1>13. HoldsOfLane(hold')
  BY <1>1, InvFacts
<1> QED BY <1>6, <1>7, <1>8, <1>9, <1>10, <1>11, <1>12, <1>13 DEF IInv

--------------------------------------------------------------------------------
(* Recovery.                                                               *)

LEMMA ResolvesMany ==
  ASSUME resolved \in [Jobs -> Outcomes \union {None}], NEW S, NEW o \in Outcomes, Resolve(S, o)
  PROVE  /\ resolved' \in [Jobs -> Outcomes \union {None}]
         /\ \A k \in Jobs : resolved'[k] = None => resolved[k] = None /\ k \notin S
<1>1. o # None
  BY DEF Outcomes, None
<1> QED BY <1>1 DEF Resolve

(* The session of a lane is made safe.                                     *)
LEMMA MadeSafe ==
  ASSUME IInv, NEW l \in Lanes, MakesSafe(l)
  PROVE  /\ inUse' \in [Lanes -> SUBSET (Shared \union Direct)] /\ unsafe' \in [Lanes -> BOOLEAN]
         /\ inUse'[l] = {} /\ ~unsafe'[l]
         /\ \A m \in Lanes : m # l => inUse'[m] = inUse[m] /\ unsafe'[m] = unsafe[m]
BY DEF IInv, TypeOK, MakesSafe

LEMMA RecoveredKeeps ==
  ASSUME IInv, NEW l \in Lanes, Recovered(l)
  PROVE  IInv'
<1>0. PICK x : x = hold[l].on
  OBVIOUS
<1>1. /\ lock[l] # << >> /\ hold[l].at # "enter"
      /\ hold' = [hold EXCEPT ![l].at = "recovered"] /\ MakesSafe(l)
      /\ UNCHANGED << queued, paused, recovering, blocked, state, outcome, sequence, entryVars, ownerVars >>
      /\ \/ /\ Dropped(l, x) /\ Resolve({x} \intersect Jobs, "cancelled") /\ Retire(x) /\ PumpAll(lock)
         \/ UNCHANGED << running, independent, sourceVars, resolved, lock >>
  BY <1>0 DEF Recovered, InRecovery, Resolve, Retire, Dropped
<1> USE DEF entryVars, ownerVars, sourceVars
<1>2. x \in Executions /\ LaneOf[x] = l
  BY <1>0, <1>1, InvFacts DEF HoldsOfLane
<1>3. hold' \in HoldTypes /\ HoldsOfLane(hold')
  <2>1. "recovered" \in Points BY DEF Points
  <2> QED BY <2>1, <1>1, InvFacts, MovedFits
<1>4. /\ inUse' \in [Lanes -> SUBSET (Shared \union Direct)] /\ unsafe' \in [Lanes -> BOOLEAN]
      /\ inUse'[l] = {} /\ ~unsafe'[l]
      /\ \A m \in Lanes : m # l => inUse'[m] = inUse[m] /\ unsafe'[m] = unsafe[m]
  BY <1>1, MadeSafe
<1>t. /\ SessionsOfLane(blocked, source, inUse) /\ resolved \in [Jobs -> Outcomes \union {None}]
      /\ PlacesOfLane(running, independent)
      /\ source \in [Lanes -> Shared \union Direct \union {None}] /\ ownSources \in SUBSET Independent
      /\ running \in [Lanes -> Shared \union {None}] /\ independent \in [Lanes -> SUBSET Independent]
  BY DEF IInv, TypeOK
<1>5. /\ running' \in [Lanes -> Shared \union {None}] /\ independent' \in [Lanes -> SUBSET Independent]
      /\ source' \in [Lanes -> Shared \union Direct \union {None}] /\ ownSources' \in SUBSET Independent
      /\ resolved' \in [Jobs -> Outcomes \union {None}]
      /\ lock' \in [Lanes -> Seq(Ticket)] /\ ChainsFit(lock', state, outcome)
      /\ PlacesFit(running', source', independent', ownSources', closed', disposed')
      /\ \A m \in Lanes : source'[m] = source[m] \/ (m = l /\ source'[m] = None)
      /\ \A m \in Lanes : running'[m] = running[m] \/ running'[m] = None
      /\ \A m \in Lanes : independent'[m] \subseteq independent[m]
      /\ NoneLost(state, resolved', queued, running', independent', closed, disposed)
  <2>A. CASE Dropped(l, x) /\ Resolve({x} \intersect Jobs, "cancelled") /\ Retire(x) /\ PumpAll(lock)
    <3>1. /\ running' \in [Lanes -> Shared \union {None}] /\ independent' \in [Lanes -> SUBSET Independent]
          /\ \A m \in Lanes : running'[m] = IF running[m] = x THEN None ELSE running[m]
          /\ \A m \in Lanes : independent'[m] = independent[m] \ {x}
      BY <2>A, <1>2, DroppedFits
    <3>2. /\ source' \in [Lanes -> Shared \union Direct \union {None}] /\ ownSources' \in SUBSET Independent
          /\ \A m \in Lanes : source'[m] = IF source[m] = x THEN None ELSE source[m]
          /\ ownSources' = ownSources \ {x}
      BY <2>A, <1>2, RetireFits
    <3>3. \A m \in Lanes : source[m] = x => m = l
      BY <1>2, <1>t, ConstantsFit DEF SessionsOfLane
    <3>4. /\ resolved' \in [Jobs -> Outcomes \union {None}]
          /\ \A k \in Jobs : resolved'[k] = None => resolved[k] = None /\ k \notin {x} \intersect Jobs
      <4>1. "cancelled" \in Outcomes BY DEF Outcomes
      <4> QED BY <4>1, <2>A, <1>t, ResolvesMany
    <3>5. lock' \in [Lanes -> Seq(Ticket)] /\ ChainsFit(lock', state, outcome)
      <4>1. queued' = queued BY <1>1
      <4> QED BY <4>1, <2>A, InvFacts, PumpAllFits
    <3>6. PlacesFit(running', source', independent', ownSources', closed', disposed')
      <4>1. UNCHANGED << closed, disposed >> BY <1>1
      <4> QED BY <4>1, <3>1, <3>2, <1>2, ForgottenFits
    <3>7. NoneLost(state, resolved', queued, running', independent', closed, disposed)
      <4>1. ASSUME NEW k \in Jobs, state[k] # "new", resolved'[k] = None
            PROVE  /\ Open(LaneOf[k], closed, disposed)
                   /\ InSeq(k, queued[LaneOf[k]]) \/ running'[LaneOf[k]] = k \/ k \in independent'[LaneOf[k]]
        <5>1. k # x /\ resolved[k] = None /\ LaneOf[k] \in Lanes
          BY <4>1, <3>4, ConstantsFit
        <5>2. /\ Open(LaneOf[k], closed, disposed)
              /\ InSeq(k, queued[LaneOf[k]]) \/ running[LaneOf[k]] = k \/ k \in independent[LaneOf[k]]
          BY <4>1, <5>1 DEF IInv, NoneLost
        <5> QED BY <5>1, <5>2, <3>1
      <4> QED BY <4>1 DEF NoneLost
    <3> QED BY <3>1, <3>2, <3>3, <3>4, <3>5, <3>6, <3>7
  <2>B. CASE UNCHANGED << running, independent, sourceVars, resolved, lock >>
    <3>1. PlacesFit(running', source', independent', ownSources', closed', disposed')
      BY <2>B, <1>1 DEF IInv
    <3>2. NoneLost(state, resolved', queued, running', independent', closed, disposed)
      BY <2>B, <1>1 DEF IInv
    <3> QED BY <2>B, <3>1, <3>2, <1>t, InvFacts
  <2> QED BY <1>1, <2>A, <2>B
<1>6. UsersRun(inUse', state')
  BY <1>1, <1>4 DEF IInv, UsersRun
<1>7. SessionsOfLane(blocked', source', inUse')
  <2>1. blocked' = blocked BY <1>1
  <2>2. \A m \in Lanes : inUse'[m] \subseteq inUse[m] BY <1>4
  <2> QED BY <2>1, <2>2, <1>5, <1>t DEF SessionsOfLane
<1>8. PlacesOfLane(running', independent')
  BY <1>5, <1>t DEF PlacesOfLane
<1>9. SessionsFit(inUse', unsafe', source', blocked', state', closed', disposed')
  <2>1. ASSUME NEW m \in Lanes, Open(m, closed, disposed)
        PROVE  /\ inUse'[m] \subseteq {source'[m]}
               /\ unsafe'[m] => blocked[m] # None \/ (source'[m] \in Shared /\ state[source'[m]] = "isolating")
    <3>1. /\ inUse[m] \subseteq {source[m]}
          /\ unsafe[m] => blocked[m] # None \/ (source[m] \in Shared /\ state[source[m]] = "isolating")
      BY <2>1 DEF IInv, SessionsFit
    <3>2. CASE m = l BY <3>2, <1>4
    <3>3. CASE m # l
      <4>1. inUse'[m] = inUse[m] /\ unsafe'[m] = unsafe[m] /\ source'[m] = source[m] BY <3>3, <1>4, <1>5
      <4> QED BY <3>1, <4>1
    <3> QED BY <3>2, <3>3
  <2> QED BY <2>1, <1>1 DEF SessionsFit
<1>10. TypeOK'
  BY <1>1, <1>3, <1>4, <1>5 DEF IInv, TypeOK, HoldTypes, Points
<1>11. /\ QueuesOfLane(queued') /\ NotStarted(queued', state') /\ Sorted(queued', sequence')
       /\ Numbered(state', sequence')
       /\ IsolatingFits(state', outcome', isolationRequired', isolationVerified')
       /\ NoneLost(state', resolved', queued', running', independent', closed', disposed')
       /\ ChainsFit(lock', state', outcome')
  BY <1>1, <1>5 DEF IInv
<1> QED BY <1>3, <1>5, <1>6, <1>7, <1>8, <1>9, <1>10, <1>11 DEF IInv
LEMMA AfterRecoveryKeeps ==
  ASSUME IInv, NEW l \in Lanes, AfterRecovery(l)
  PROVE  IInv'
<1>1. lock[l] # << >> /\ TRUE \in BOOLEAN
  BY DEF AfterRecovery, InRecovery
<1>2. CASE Head(lock[l]).kind = "acquire" /\ AcquireLoop(l, TRUE)
  BY <1>1, <1>2, AcquireLoopKeeps
<1>3. CASE ~(Head(lock[l]).kind = "acquire" /\ AcquireLoop(l, TRUE))
  <2>1. /\ recovering' = [recovering EXCEPT ![l] = FALSE] /\ LeaveLock(l)
        /\ UNCHANGED << queued, running, independent, paused, blocked, sourceVars, jobVars,
                        entryVars, ownerVars, sessionVars >>
        /\ PumpAll(Left(l))
    BY <1>3 DEF AfterRecovery
  <2> QED BY <1>1, <2>1, RecoveryEndsKeeps
<1> QED BY <1>2, <1>3

LEMMA RecoveryPoints ==
  {"choosing", "offerDrop", "offerFresh", "cancelOnly", "cancelDrop", "cancelForce", "cancelFresh",
   "dropping", "resetDrop", "resetForce", "opening"} \subseteq Points
BY DEF Points, Prompts, Awaits

LEMMA AnswerKeeps ==
  ASSUME IInv, NEW l \in Lanes, Answer(l)
  PROVE  IInv'
<1>1. InRecovery(l) /\ hold[l].at # "enter"
  BY DEF Answer, InRecovery
<1>2. CASE GivesUp(l)
  BY <1>1, <1>2, GivesUpKeeps
<1>3. CASE \E at \in {"cancelOnly", "cancelDrop", "cancelForce", "offerFresh", "cancelFresh"} : MovesOn(l, at)
  BY <1>1, <1>3, RecoveryPoints, MovesOnKeeps
<1> QED BY <1>2, <1>3 DEF Answer

LEMMA RecoveryStepsKeep ==
  ASSUME IInv, NEW l \in Lanes, RecoveryStepFails(l) \/ RecoveryStepSucceeds(l)
  PROVE  IInv'
<1>1. InRecovery(l) /\ hold[l].at # "enter"
  BY DEF RecoveryStepFails, RecoveryStepSucceeds, InRecovery
<1>2. CASE GivesUp(l)
  BY <1>1, <1>2, GivesUpKeeps
<1>3. CASE \E at \in {"offerFresh", "offerDrop", "dropping", "resetDrop", "resetForce", "opening"} : MovesOn(l, at)
  BY <1>1, <1>3, RecoveryPoints, MovesOnKeeps
<1> QED BY <1>2, <1>3 DEF RecoveryStepFails, RecoveryStepSucceeds

LEMMA RepairEndsKeeps ==
  ASSUME IInv, NEW l \in Lanes, NEW ok \in BOOLEAN, RepairEnds(l, ok)
  PROVE  IInv'
<1>1. /\ lock[l] # << >> /\ LeaveLock(l)
      /\ recovering' = [recovering EXCEPT ![l] = FALSE]
      /\ blocked' = [blocked EXCEPT ![l] = IF ok /\ Registered(l) THEN None ELSE @]
      /\ IF ok THEN MakesSafe(l) ELSE UNCHANGED sessionVars
      /\ UNCHANGED << queued, running, independent, paused, sourceVars, jobVars, entryVars, ownerVars >>
      /\ PumpAll(Left(l))
  BY DEF RepairEnds, HeadIs
<1> USE DEF sourceVars, jobVars, entryVars, ownerVars
<1>2. hold' \in HoldTypes /\ HoldsOfLane(hold')
  BY <1>1, InvFacts, LeaveFits DEF LeaveLock
<1>3. lock' \in [Lanes -> Seq(Ticket)] /\ ChainsFit(lock', state, outcome)
  <2>1. Left(l) \in [Lanes -> Seq(Ticket)] /\ ChainsFit(Left(l), state, outcome) BY <1>1, HeadKnown
  <2>2. queued' = queued BY <1>1
  <2> QED BY <2>1, <2>2, <1>1, InvFacts, PumpAllFits
<1>t. /\ inUse \in [Lanes -> SUBSET (Shared \union Direct)] /\ unsafe \in [Lanes -> BOOLEAN]
      /\ blocked \in [Lanes -> Shared \union {None}] /\ SessionsOfLane(blocked, source, inUse)
  BY DEF IInv, TypeOK
<1>4. /\ inUse' \in [Lanes -> SUBSET (Shared \union Direct)] /\ unsafe' \in [Lanes -> BOOLEAN]
      /\ ok => inUse'[l] = {} /\ ~unsafe'[l]
      /\ \A m \in Lanes : m # l \/ ~ok => inUse'[m] = inUse[m] /\ unsafe'[m] = unsafe[m]
  <2>1. CASE ok BY <2>1, <1>1, MadeSafe
  <2>2. CASE ~ok BY <2>2, <1>1, <1>t DEF sessionVars
  <2> QED BY <2>1, <2>2
<1>5. /\ blocked' \in [Lanes -> Shared \union {None}]
      /\ \A m \in Lanes : m # l \/ ~ok => blocked'[m] = blocked[m]
      /\ \A m \in Lanes : blocked'[m] # None => blocked'[m] = blocked[m]
  <2> DEFINE b == IF ok /\ Registered(l) THEN None ELSE blocked[l]
  <2>1. b \in Shared \union {None} /\ (~ok => b = blocked[l]) /\ (b # None => b = blocked[l]) BY <1>t
  <2>2. blocked' = [blocked EXCEPT ![l] = b] BY <1>1
  <2> HIDE DEF b
  <2> QED BY <2>1, <2>2, <1>t
<1>6. UsersRun(inUse', state')
  <2>1. \A m \in Lanes : inUse'[m] \subseteq inUse[m] BY <1>4
  <2> QED BY <1>1, <2>1 DEF IInv, UsersRun
<1>7. SessionsOfLane(blocked', source', inUse')
  <2>1. \A m \in Lanes : inUse'[m] \subseteq inUse[m] BY <1>4
  <2>2. source' = source BY <1>1
  <2> QED BY <2>1, <2>2, <1>5, <1>t DEF SessionsOfLane
<1>8. SessionsFit(inUse', unsafe', source', blocked', state', closed', disposed')
  <2>1. ASSUME NEW m \in Lanes, Open(m, closed, disposed)
        PROVE  /\ inUse'[m] \subseteq {source[m]}
               /\ unsafe'[m] => blocked'[m] # None \/ (source[m] \in Shared /\ state[source[m]] = "isolating")
    <3>1. /\ inUse[m] \subseteq {source[m]}
          /\ unsafe[m] => blocked[m] # None \/ (source[m] \in Shared /\ state[source[m]] = "isolating")
      BY <2>1 DEF IInv, SessionsFit
    <3>2. CASE m = l /\ ok BY <3>2, <1>4
    <3>3. CASE m # l \/ ~ok
      <4>1. inUse'[m] = inUse[m] /\ unsafe'[m] = unsafe[m] /\ blocked'[m] = blocked[m] BY <3>3, <1>4, <1>5
      <4> QED BY <3>1, <4>1
    <3> QED BY <3>2, <3>3
  <2> QED BY <2>1, <1>1 DEF SessionsFit
<1>9. TypeOK'
  <2>1. recovering' \in [Lanes -> BOOLEAN] BY <1>1 DEF IInv, TypeOK
  <2> QED BY <2>1, <1>1, <1>2, <1>3, <1>4, <1>5 DEF IInv, TypeOK, HoldTypes, Points
<1>10. /\ QueuesOfLane(queued') /\ PlacesOfLane(running', independent')
       /\ NotStarted(queued', state') /\ Sorted(queued', sequence') /\ Numbered(state', sequence')
       /\ IsolatingFits(state', outcome', isolationRequired', isolationVerified')
       /\ PlacesFit(running', source', independent', ownSources', closed', disposed')
       /\ NoneLost(state', resolved', queued', running', independent', closed', disposed')
       /\ ChainsFit(lock', state', outcome')
  BY <1>1, <1>3 DEF IInv
<1> QED BY <1>2, <1>6, <1>7, <1>8, <1>9, <1>10 DEF IInv

--------------------------------------------------------------------------------
(* Documents close, the extension stops.                                   *)

(* Queues are emptied: requests that had not started are done.             *)
LEMMA EmptiedKeeps ==
  ASSUME IInv, NEW gone \in SUBSET Jobs, \A x \in gone : state[x] \in {"preparing", "ready"},
         state' = [j \in Executions |-> IF j \in gone THEN "done" ELSE state[j]],
         queued' \in [Lanes -> Seq(Jobs)],
         \A l \in Lanes : \/ queued'[l] = << >>
                          \/ queued'[l] = queued[l] /\ \A x \in gone : LaneOf[x] # l,
         UNCHANGED << outcome, sequence, entryVars >>
  PROVE  /\ state' \in [Executions -> States]
         /\ \A x \in Executions : state'[x] = state[x] \/ (x \in gone /\ state'[x] = "done")
         /\ QueuesOfLane(queued') /\ NotStarted(queued', state') /\ Sorted(queued', sequence')
         /\ Numbered(state', sequence') /\ ChainsFit(lock, state', outcome')
         /\ IsolatingFits(state', outcome', isolationRequired', isolationVerified')
<1> USE DEF entryVars
<1>1. /\ state' \in [Executions -> States]
      /\ \A x \in Executions : state'[x] = state[x] \/ (x \in gone /\ state'[x] = "done")
  BY InvFacts DEF States
<1>2. ChainsFit(lock, state', outcome')
  <2>1. Undisturbed(state, state', outcome, outcome') BY <1>1 DEF Undisturbed
  <2> QED BY <2>1, InvFacts, ChainsUndisturbed
<1>3. IsolatingFits(state', outcome', isolationRequired', isolationVerified')
  BY <1>1, ConstantsFit DEF IInv, IsolatingFits
<1>4. Numbered(state', sequence')
  <2>1. \A k \in Jobs : state'[k] # "new" <=> state[k] # "new" BY <1>1, ConstantsFit
  <2>2. Numbered(state, sequence) BY DEF IInv
  <2>3. Numbered(state', sequence) BY <2>1, <2>2, StaysNumbered
  <2> QED BY <2>3
<1>5. ASSUME NEW l \in Lanes, NEW i \in DOMAIN queued'[l]
      PROVE  queued'[l] = queued[l] /\ LaneOf[queued'[l][i]] = l /\ state'[queued'[l][i]] \in {"preparing", "ready"}
  <2>1. queued'[l] # << >>
    <3>1. queued'[l] = << >> => Len(queued'[l]) = 0 /\ DOMAIN queued'[l] = 1 .. Len(queued'[l])
      BY EmptySeq, LenProperties
    <3> QED BY <3>1, <1>5
  <2>2. queued'[l] = queued[l] /\ \A x \in gone : LaneOf[x] # l
    BY <2>1
  <2>3. PICK x : x = queued[l][i]
    OBVIOUS
  <2>4. InSeq(x, queued[l])
    BY <1>5, <2>2, <2>3 DEF InSeq
  <2>5. x \in Jobs /\ LaneOf[x] = l /\ state[x] \in {"preparing", "ready"}
    BY <2>4, InQueueFacts
  <2>6. state'[x] = state[x]
    BY <2>2, <2>5, <1>1, ConstantsFit
  <2> QED BY <2>2, <2>3, <2>5, <2>6
<1>6. QueuesOfLane(queued') /\ NotStarted(queued', state')
  BY <1>5 DEF QueuesOfLane, NotStarted
<1>7. Sorted(queued', sequence')
  <2>1. ASSUME NEW l \in Lanes PROVE Increasing(queued'[l], sequence)
    <3>1. Increasing(queued[l], sequence) BY DEF IInv, Sorted
    <3>2. CASE queued'[l] = queued[l] BY <3>1, <3>2
    <3>3. CASE queued'[l] # queued[l]
      <4>1. \A i \in DOMAIN queued'[l] : FALSE BY <1>5, <3>3
      <4> QED BY <4>1 DEF Increasing
    <3> QED BY <3>2, <3>3
  <2> QED BY <2>1 DEF Sorted
<1> QED BY <1>1, <1>2, <1>3, <1>4, <1>6, <1>7

(* An emptied queue's requests, and those with a place, are resolved.      *)
LEMMA CloseKeeps ==
  ASSUME IInv, NEW l \in Lanes, Close(l)
  PROVE  IInv'
<1> DEFINE gone == {j \in Jobs : InSeq(j, queued[l])}
           ours == {x \in Executions : LaneOf[x] = l}
<1>1. /\ Registered(l) /\ closed' = [closed EXCEPT ![l] = TRUE]
      /\ queued' = [queued EXCEPT ![l] = << >>]
      /\ state' = [j \in Executions |-> IF j \in gone THEN "done" ELSE state[j]]
      /\ Resolve(gone \union PlacesOf(l), "cancelled")
      /\ source' = [source EXCEPT ![l] = None]
      /\ ownSources' = ownSources \ ours
      /\ lock' = [m \in Lanes |-> IF m = l THEN lock[m] ELSE Pumped(lock[m], Wanted(m, Lanes \ {l}))]
      /\ MakesSafe(l)
      /\ UNCHANGED << running, independent, paused, recovering, blocked, hold, outcome,
                      sequence, entryVars, limits, disposed >>
  BY DEF Close
<1>t. /\ queued \in [Lanes -> Seq(Jobs)] /\ closed \in [Lanes -> BOOLEAN]
      /\ source \in [Lanes -> Shared \union Direct \union {None}] /\ ownSources \in SUBSET Independent
      /\ resolved \in [Jobs -> Outcomes \union {None}] /\ running \in [Lanes -> Shared \union {None}]
      /\ inUse \in [Lanes -> SUBSET (Shared \union Direct)] /\ SessionsOfLane(blocked, source, inUse)
  BY DEF IInv, TypeOK
<1>2. /\ gone \in SUBSET Jobs
      /\ \A x \in gone : LaneOf[x] = l /\ state[x] \in {"preparing", "ready"} /\ InSeq(x, queued[l])
      /\ \A x \in Jobs : InSeq(x, queued[l]) => x \in gone
  BY InQueueFacts
<1> HIDE DEF gone
<1>3. /\ queued' \in [Lanes -> Seq(Jobs)] /\ queued'[l] = << >>
      /\ \A m \in Lanes : m # l => queued'[m] = queued[m]
  <2>1. << >> \in Seq(Jobs) BY EmptySeq
  <2> QED BY <2>1, <1>1, <1>t
<1>4. /\ state' \in [Executions -> States]
      /\ \A x \in Executions : state'[x] = state[x] \/ (x \in gone /\ state'[x] = "done")
      /\ QueuesOfLane(queued') /\ NotStarted(queued', state') /\ Sorted(queued', sequence')
      /\ Numbered(state', sequence') /\ ChainsFit(lock, state', outcome')
      /\ IsolatingFits(state', outcome', isolationRequired', isolationVerified')
  <2>1. \A m \in Lanes : \/ queued'[m] = << >>
                         \/ queued'[m] = queued[m] /\ \A x \in gone : LaneOf[x] # m
    BY <1>2, <1>3
  <2>2. UNCHANGED << outcome, sequence, entryVars >> BY <1>1
  <2> QED BY <2>1, <2>2, <1>1, <1>2, <1>3, EmptiedKeeps
<1>5. lock' \in [Lanes -> Seq(Ticket)] /\ ChainsFit(lock', state', outcome')
  <2>1. ASSUME NEW m \in Lanes PROVE Grows(lock[m], lock'[m], m)
    <3>1. CASE m = l BY <3>1, <1>1 DEF Grows
    <3>2. CASE m # l
      <4>1. Grows(lock[m], Pumped(lock[m], Wanted(m, Lanes \ {l})), m) BY InvFacts, WantedGrows
      <4>2. lock'[m] = Pumped(lock[m], Wanted(m, Lanes \ {l})) BY <3>2, <1>1
      <4> QED BY <4>1, <4>2
    <3> QED BY <3>1, <3>2
  <2>2. lock' = [m \in Lanes |-> lock'[m]] BY <1>1
  <2>3. AllGrow(lock) BY <2>1, <2>2 DEF AllGrow
  <2> QED BY <2>3, <1>4, InvFacts, AllGrowFits
<1>6. /\ inUse' \in [Lanes -> SUBSET (Shared \union Direct)] /\ unsafe' \in [Lanes -> BOOLEAN]
      /\ inUse'[l] = {} /\ ~unsafe'[l]
      /\ \A m \in Lanes : m # l => inUse'[m] = inUse[m] /\ unsafe'[m] = unsafe[m]
  BY <1>1, MadeSafe
<1>7. /\ source' \in [Lanes -> Shared \union Direct \union {None}]
      /\ \A m \in Lanes : source'[m] = IF m = l THEN None ELSE source[m]
      /\ closed' \in [Lanes -> BOOLEAN] /\ \A m \in Lanes : closed'[m] <=> m = l \/ closed[m]
      /\ ownSources' \in SUBSET Independent
  BY <1>1, <1>t
<1>8. /\ resolved' \in [Jobs -> Outcomes \union {None}]
      /\ \A k \in Jobs : resolved'[k] = None => resolved[k] = None /\ k \notin gone \union PlacesOf(l)
  <2>1. "cancelled" \in Outcomes BY DEF Outcomes
  <2> HIDE DEF ours
  <2> QED BY <2>1, <1>1, <1>t, ResolvesMany
<1>9. TypeOK'
  BY <1>1, <1>3, <1>4, <1>5, <1>6, <1>7, <1>8 DEF IInv, TypeOK, entryVars
<1>10. UsersRun(inUse', state')
  <2>1. \A m \in Lanes : inUse[m] \subseteq Executions BY <1>t, ConstantsFit
  <2> QED BY <1>2, <1>4, <1>6, <2>1 DEF IInv, UsersRun
<1>11. SessionsOfLane(blocked', source', inUse')
  <2>1. blocked' = blocked BY <1>1
  <2> QED BY <2>1, <1>6, <1>7, <1>t DEF SessionsOfLane
<1>12. SessionsFit(inUse', unsafe', source', blocked', state', closed', disposed')
  <2>1. ASSUME NEW m \in Lanes, Open(m, closed', disposed')
        PROVE  /\ inUse'[m] \subseteq {source'[m]}
               /\ unsafe'[m] => blocked[m] # None \/ (source'[m] \in Shared /\ state'[source'[m]] = "isolating")
    <3>1. m # l /\ Open(m, closed, disposed) BY <2>1, <1>1, <1>7 DEF Open
    <3>2. /\ inUse[m] \subseteq {source[m]}
          /\ unsafe[m] => blocked[m] # None \/ (source[m] \in Shared /\ state[source[m]] = "isolating")
      BY <3>1 DEF IInv, SessionsFit
    <3>3. inUse'[m] = inUse[m] /\ unsafe'[m] = unsafe[m] /\ source'[m] = source[m] BY <3>1, <1>6, <1>7
    <3>4. source[m] \in Shared /\ state[source[m]] = "isolating" => state'[source[m]] = "isolating"
      BY <1>2, <1>4, ConstantsFit
    <3> QED BY <3>2, <3>3, <3>4
  <2>2. blocked' = blocked BY <1>1
  <2> QED BY <2>1, <2>2 DEF SessionsFit
<1>13. PlacesFit(running', source', independent', ownSources', closed', disposed')
  <2>1. ASSUME NEW m \in Lanes, Open(m, closed', disposed')
        PROVE  /\ running[m] # None => source'[m] = running[m]
               /\ source'[m] \in Shared => running[m] = source'[m]
               /\ independent[m] = {j \in ownSources' : LaneOf[j] = m}
    <3>1. m # l /\ Open(m, closed, disposed) BY <2>1, <1>1, <1>7 DEF Open
    <3>2. /\ running[m] # None => source[m] = running[m]
          /\ source[m] \in Shared => running[m] = source[m]
          /\ independent[m] = {j \in ownSources : LaneOf[j] = m}
      BY <3>1 DEF IInv, PlacesFit
    <3>3. {j \in ownSources' : LaneOf[j] = m} = {j \in ownSources : LaneOf[j] = m}
      BY <3>1, <1>1
    <3>4. source'[m] = source[m] BY <3>1, <1>7
    <3> QED BY <3>2, <3>3, <3>4
  <2>2. running' = running /\ independent' = independent BY <1>1
  <2> QED BY <2>1, <2>2 DEF PlacesFit
<1>14. NoneLost(state', resolved', queued', running', independent', closed', disposed')
  <2>1. ASSUME NEW k \in Jobs, state'[k] # "new", resolved'[k] = None
        PROVE  /\ Open(LaneOf[k], closed', disposed')
               /\ InSeq(k, queued'[LaneOf[k]]) \/ running[LaneOf[k]] = k \/ k \in independent[LaneOf[k]]
    <3>1. resolved[k] = None /\ k \notin gone /\ k \notin PlacesOf(l) /\ LaneOf[k] \in Lanes /\ k # None
      BY <2>1, <1>8, ConstantsFit
    <3>2. state[k] # "new"
      BY <2>1, <3>1, <1>4, ConstantsFit
    <3>3. /\ Open(LaneOf[k], closed, disposed)
          /\ InSeq(k, queued[LaneOf[k]]) \/ running[LaneOf[k]] = k \/ k \in independent[LaneOf[k]]
      BY <3>1, <3>2 DEF IInv, NoneLost
    <3>4. LaneOf[k] # l
      BY <3>1, <3>3, <1>2 DEF PlacesOf
    <3>5. Open(LaneOf[k], closed', disposed')
      BY <3>1, <3>3, <3>4, <1>1, <1>7 DEF Open
    <3> QED BY <3>1, <3>3, <3>4, <3>5, <1>3
  <2>2. running' = running /\ independent' = independent BY <1>1
  <2> QED BY <2>1, <2>2 DEF NoneLost
<1>15. PlacesOfLane(running', independent') /\ HoldsOfLane(hold')
  BY <1>1 DEF IInv
<1> QED BY <1>4, <1>5, <1>9, <1>10, <1>11, <1>12, <1>13, <1>14, <1>15 DEF IInv

LEMMA DisposeKeeps ==
  ASSUME IInv, Dispose
  PROVE  IInv'
<1> DEFINE open == {l \in Lanes : Registered(l)}
           gone == {j \in Jobs : \E l \in open : InSeq(j, queued[l])}
           held == gone \union UNION {PlacesOf(l) : l \in open}
<1>1. /\ disposed' = TRUE /\ queued' = [l \in Lanes |-> << >>]
      /\ state' = [j \in Executions |-> IF j \in gone THEN "done" ELSE state[j]]
      /\ Resolve(held, "cancelled")
      /\ source' = [l \in Lanes |-> None] /\ ownSources' = {}
      /\ UNCHANGED << running, independent, paused, recovering, blocked, lock, hold, outcome,
                      sequence, entryVars, limits, closed, sessionVars >>
  BY DEF Dispose
<1> USE DEF entryVars, sessionVars
<1>2. gone \in SUBSET Jobs /\ \A x \in gone : state[x] \in {"preparing", "ready"}
  BY InQueueFacts
<1>3. ASSUME NEW k \in Jobs, Open(LaneOf[k], closed, disposed),
             InSeq(k, queued[LaneOf[k]]) \/ running[LaneOf[k]] = k \/ k \in independent[LaneOf[k]]
      PROVE  k \in held
  <2>1. LaneOf[k] \in open /\ k # None
    BY <1>3, ConstantsFit DEF Open, Registered
  <2>2. CASE InSeq(k, queued[LaneOf[k]]) BY <2>1, <2>2
  <2>3. CASE ~InSeq(k, queued[LaneOf[k]])
    <3>1. k \in PlacesOf(LaneOf[k]) BY <2>1, <2>3, <1>3 DEF PlacesOf
    <3> HIDE DEF open, gone
    <3> QED BY <2>1, <3>1
  <2> QED BY <2>2, <2>3
<1> HIDE DEF gone, held
<1>4. queued' \in [Lanes -> Seq(Jobs)] /\ \A l \in Lanes : queued'[l] = << >>
  <2>1. << >> \in Seq(Jobs) BY EmptySeq
  <2> QED BY <2>1, <1>1
<1>5. /\ state' \in [Executions -> States]
      /\ \A x \in Executions : state'[x] = state[x] \/ (x \in gone /\ state'[x] = "done")
      /\ QueuesOfLane(queued') /\ NotStarted(queued', state') /\ Sorted(queued', sequence')
      /\ Numbered(state', sequence') /\ ChainsFit(lock, state', outcome')
      /\ IsolatingFits(state', outcome', isolationRequired', isolationVerified')
  BY <1>1, <1>2, <1>4, EmptiedKeeps
<1>6. /\ resolved' \in [Jobs -> Outcomes \union {None}]
      /\ \A k \in Jobs : resolved'[k] = None => resolved[k] = None /\ k \notin held
  <2>1. "cancelled" \in Outcomes BY DEF Outcomes
  <2>2. resolved \in [Jobs -> Outcomes \union {None}] BY DEF IInv, TypeOK
  <2> QED BY <2>1, <2>2, <1>1, ResolvesMany
<1>7. source' \in [Lanes -> Shared \union Direct \union {None}] /\ ownSources' \in SUBSET Independent
  BY <1>1
<1>8. TypeOK'
  BY <1>1, <1>4, <1>5, <1>6, <1>7 DEF IInv, TypeOK
<1>9. UsersRun(inUse', state')
  <2>1. \A m \in Lanes : inUse[m] \subseteq Executions BY ConstantsFit DEF IInv, TypeOK
  <2> QED BY <1>1, <1>2, <1>5, <2>1 DEF IInv, UsersRun
<1>10. SessionsOfLane(blocked', source', inUse')
  BY <1>1, InvFacts DEF SessionsOfLane
<1>11. /\ SessionsFit(inUse', unsafe', source', blocked', state', closed', disposed')
       /\ PlacesFit(running', source', independent', ownSources', closed', disposed')
  BY <1>1 DEF SessionsFit, PlacesFit, Open
<1>12. NoneLost(state', resolved', queued', running', independent', closed', disposed')
  <2>1. ASSUME NEW k \in Jobs, state'[k] # "new", resolved'[k] = None PROVE FALSE
    <3>1. resolved[k] = None /\ k \notin held BY <2>1, <1>6
    <3>2. state[k] # "new" BY <2>1, <1>2, <1>5, ConstantsFit
    <3>3. /\ Open(LaneOf[k], closed, disposed)
          /\ InSeq(k, queued[LaneOf[k]]) \/ running[LaneOf[k]] = k \/ k \in independent[LaneOf[k]]
      BY <3>1, <3>2 DEF IInv, NoneLost
    <3> QED BY <3>1, <3>3, <1>3
  <2> QED BY <2>1 DEF NoneLost
<1>13. PlacesOfLane(running', independent') /\ HoldsOfLane(hold') /\ lock' = lock /\ lock \in [Lanes -> Seq(Ticket)]
  BY <1>1 DEF IInv, TypeOK
<1> QED BY <1>5, <1>8, <1>9, <1>10, <1>11, <1>12, <1>13 DEF IInv
--------------------------------------------------------------------------------
(* Every step keeps the invariant.                                         *)

LEMMA InitFits ==
  Init => IInv
<1> SUFFICES ASSUME Init PROVE IInv
  OBVIOUS
<1> USE DEF Init
<1>1. << >> \in Seq(Jobs) /\ << >> \in Seq(Ticket) /\ Len(<< >>) = 0
  BY EmptySeq
<1>2. \A i \in DOMAIN << >> : FALSE
  <2>1. << >> \in Seq(Jobs) /\ Len(<< >>) = 0 BY <1>1
  <2>2. DOMAIN << >> = 1 .. 0 BY <2>1, LenProperties
  <2> QED BY <2>2
<1>3. TypeOK
  <2>1. NotEntered \in [at : Prompts \union Awaits \union {"enter", "recovered"}, on : Executions \union {None}]
    BY DEF NotEntered
  <2>2. /\ queued \in [Lanes -> Seq(Jobs)] /\ lock \in [Lanes -> Seq(Ticket)]
        /\ hold \in [Lanes -> [at : Prompts \union Awaits \union {"enter", "recovered"},
                               on : Executions \union {None}]]
    BY <1>1, <2>1
  <2>3. /\ state \in [Executions -> States] /\ sequence \in [Jobs -> Nat] /\ limits \in Limits
        /\ outcome \in [Jobs -> Outcomes \union {None}] /\ resolved \in [Jobs -> Outcomes \union {None}]
        /\ isolationRequired \in [Jobs -> BOOLEAN] /\ isolationVerified \in [Jobs -> BOOLEAN]
    BY DEF States
  <2>4. /\ running \in [Lanes -> Shared \union {None}] /\ independent \in [Lanes -> SUBSET Independent]
        /\ paused \in [Lanes -> BOOLEAN] /\ recovering \in [Lanes -> BOOLEAN]
        /\ blocked \in [Lanes -> Shared \union {None}]
        /\ source \in [Lanes -> Shared \union Direct \union {None}] /\ ownSources \in SUBSET Independent
        /\ closed \in [Lanes -> BOOLEAN] /\ disposed \in BOOLEAN
        /\ inUse \in [Lanes -> SUBSET (Shared \union Direct)] /\ unsafe \in [Lanes -> BOOLEAN]
    OBVIOUS
  <2> QED BY <2>2, <2>3, <2>4 DEF TypeOK
<1>4. /\ QueuesOfLane(queued) /\ NotStarted(queued, state) /\ Sorted(queued, sequence)
      /\ ChainsFit(lock, state, outcome)
  <2>1. \A l \in Lanes : queued[l] = << >> /\ lock[l] = << >> OBVIOUS
  <2> QED BY <1>2, <2>1 DEF QueuesOfLane, NotStarted, Sorted, Increasing, ChainsFit, ChainFits
<1>5. PlacesOfLane(running, independent) /\ SessionsOfLane(blocked, source, inUse)
  BY DEF PlacesOfLane, SessionsOfLane
<1>6. HoldsOfLane(hold)
  BY DEF HoldsOfLane, NotEntered
<1>7. Numbered(state, sequence)
  <2>1. \A k \in Jobs : state[k] = "new" /\ sequence[k] = 0 BY ConstantsFit
  <2> QED BY <2>1 DEF Numbered, SubmittedIn
<1>8. IsolatingFits(state, outcome, isolationRequired, isolationVerified)
  BY ConstantsFit DEF IsolatingFits
<1>9. UsersRun(inUse, state) /\ SessionsFit(inUse, unsafe, source, blocked, state, closed, disposed)
  BY DEF UsersRun, SessionsFit
<1>10. PlacesFit(running, source, independent, ownSources, closed, disposed)
  BY ConstantsFit DEF PlacesFit
<1>11. NoneLost(state, resolved, queued, running, independent, closed, disposed)
  BY ConstantsFit DEF NoneLost
<1> QED BY <1>3, <1>4, <1>5, <1>6, <1>7, <1>8, <1>9, <1>10, <1>11 DEF IInv

LEMMA ContinueKeeps ==
  ASSUME IInv, NEW l \in Lanes, Continue(l)
  PROVE  IInv'
<1>1. CASE Admit(l) BY <1>1, AdmitKeeps
<1>2. CASE NotAdmitted(l) BY <1>2, NotAdmittedKeeps
<1>3. CASE IsolationEnters(l) BY <1>3, IsolationEntersKeeps
<1>4. CASE \E ok \in BOOLEAN : IsolationEnds(l, ok) BY <1>4, IsolationEndsKeeps
<1>5. CASE AcquireEnters(l) BY <1>5, AcquireEntersKeeps
<1>6. CASE RecoverEnters(l) BY <1>6, RecoverEntersKeeps
<1>7. CASE AfterRecovery(l) BY <1>7, AfterRecoveryKeeps
<1>8. CASE RepairEnters(l) BY <1>8, RepairEntersKeeps
<1>9. CASE \E ok \in BOOLEAN : RepairEnds(l, ok) BY <1>9, RepairEndsKeeps
<1>10. CASE RecoveryStepFails(l) \/ RecoveryStepSucceeds(l) BY <1>10, RecoveryStepsKeep
<1>11. CASE Recovered(l) BY <1>11, RecoveredKeeps
<1> QED BY <1>1, <1>2, <1>3, <1>4, <1>5, <1>6, <1>7, <1>8, <1>9, <1>10, <1>11 DEF Continue

LEMMA EnvironmentKeeps ==
  ASSUME IInv, NEW l \in Lanes, Environment(l)
  PROVE  IInv'
<1>1. CASE \E b \in BOOLEAN : SetPaused(l, b) BY <1>1, SetPausedKeeps
<1>2. CASE ClearQueued(l) BY <1>2, UnqueueStepsKeep
<1>3. CASE RecoverBlockedSession(l) BY <1>3, RecoverBlockedKeeps
<1>4. CASE Close(l) BY <1>4, CloseKeeps
<1> QED BY <1>1, <1>2, <1>3, <1>4 DEF Environment

LEMMA RequestKeeps ==
  ASSUME IInv, NEW x \in Executions, Request(x)
  PROVE  IInv'
<1>1. CASE x \in Jobs /\ Enqueue(x) BY <1>1, EnqueueKeeps
<1>2. CASE x \in Jobs /\ Prepared(x) BY <1>2, PreparedKeeps
<1>3. CASE x \in Jobs /\ \E o \in {"cancelled", "failed"} : PreparationFails(x, o) BY <1>3, UnqueueStepsKeep
<1>4. CASE x \in Direct /\ TryAcquire(x) BY <1>4, TryAcquireKeeps
<1>5. CASE x \in Jobs /\ RemoveQueued(x) BY <1>5, UnqueueStepsKeep
<1>6. CASE CancelRunning(x) BY <1>6, CancelRunningKeeps
<1>7. CASE RecoverRunning(x) BY <1>7, RecoverRunningKeeps
<1>8. CASE DirectSettles(x) BY <1>8, DirectSettlesKeeps
<1>9. CASE x \in Jobs /\ \E o \in Outcomes, required, verified \in BOOLEAN : RunSettles(x, o, required, verified)
  BY <1>9, RunSettlesKeeps
<1> QED BY <1>1, <1>2, <1>3, <1>4, <1>5, <1>6, <1>7, <1>8, <1>9 DEF Request, Preparation, Settlement

LEMMA NextKeeps ==
  ASSUME IInv, [Next]_vars
  PROVE  IInv'
<1>1. CASE \E l \in Lanes : Environment(l) BY <1>1, EnvironmentKeeps
<1>2. CASE \E l \in Lanes : Continue(l) BY <1>2, ContinueKeeps
<1>3. CASE \E l \in Lanes : Answer(l) BY <1>3, AnswerKeeps
<1>4. CASE \E l \in Lanes : RepairChosen(l) BY <1>4, RepairChosenKeeps
<1>5. CASE \E l \in Lanes : RepairAbandoned(l) BY <1>5, RepairAbandonedKeeps
<1>6. CASE \E x \in Executions : Request(x) BY <1>6, RequestKeeps
<1>7. CASE \E p \in Limits : ConfigureParallelLimits(p) BY <1>7, ConfigureKeeps
<1>8. CASE Dispose BY <1>8, DisposeKeeps
<1>9. CASE UNCHANGED vars
  BY <1>9 DEF vars, laneVars, sourceVars, jobVars, entryVars, ownerVars, sessionVars, IInv, TypeOK
<1> QED BY <1>1, <1>2, <1>3, <1>4, <1>5, <1>6, <1>7, <1>8, <1>9 DEF Next

(* Whatever requests, recoveries, closes or changes of limits come between *)
(* two awaits, the queues, places, lock chains and leases of all lanes fit *)
(* each other.                                                             *)
THEOREM Invariance ==
  Spec => []IInv
<1>1. IInv /\ [Next]_vars => IInv'
  BY NextKeeps
<1> QED BY InitFits, <1>1, PTL DEF Spec
--------------------------------------------------------------------------------
(* The state invariants.                                                   *)

(* Every variable keeps its type: queues hold requests, lanes hold         *)
(* requests of their kind, the lock chains well-formed tickets.            *)
THEOREM TypeInvariance ==
  Spec => []TypeOK
<1>1. IInv => TypeOK
  BY DEF IInv
<1> QED BY Invariance, <1>1, PTL

(* Whatever recoveries, closes and late completions occur, the place of an *)
(* open lane and the current execution of its session are the same.        *)
THEOREM PlacesMatch ==
  Spec => []PlacesMatchLeases
<1>1. IInv => PlacesMatchLeases
  BY DEF IInv, PlacesFit, PlacesMatchLeases, Open, Registered
<1> QED BY Invariance, <1>1, PTL

(* A request whose promise is open is in its lane's queue or has a place   *)
(* in the lane.                                                            *)
THEOREM RequestsKnown ==
  Spec => []NoRequestLost
<1>1. IInv => NoRequestLost
  BY DEF IInv, NoneLost, NoRequestLost, Open, Registered
<1> QED BY Invariance, <1>1, PTL

--------------------------------------------------------------------------------
(* What each step may do to the places and the sessions of the lanes.      *)

(* A step that admits nobody.                                              *)
AdmitsNone ==
  /\ \A j \in Jobs : state[j] = "ready" => state'[j] # "running"
  /\ \A l \in Lanes : independent'[l] \subseteq independent[l]

(* A step that hands sessions over as GrantedOnSafeSession and             *)
(* OnlyOwnerReleases demand.                                               *)
Ends(l) ==
  \/ state[source[l]] # "done" /\ state'[source[l]] = "done"
  \/ (inUse'[l] = {} /\ ~unsafe'[l])
  \/ disposed'
HandsOver ==
  \A l \in Lanes :
    /\ source'[l] \notin {source[l], None} => inUse[l] = {} /\ ~unsafe[l]
    /\ source[l] # None /\ source'[l] # source[l] => Ends(l)

LEMMA QuietEffects ==
  ASSUME UNCHANGED << state, independent, source >>
  PROVE  AdmitsNone /\ HandsOver
BY DEF AdmitsNone, HandsOver

(* One execution's state changes, the places and the sessions do not.      *)
LEMMA IdleEffects ==
  ASSUME IInv, UNCHANGED << independent, source >>, NEW S, "running" \notin S,
         \A x \in Jobs : state'[x] = state[x] \/ state'[x] \in S
  PROVE  AdmitsNone /\ HandsOver
BY DEF AdmitsNone, HandsOver

(* An execution leaves runningSources as it ends or its session is safe.   *)
LEMMA RetireEffects ==
  ASSUME IInv, NEW x \in Executions, Retire(x),
         \/ state[x] # "done" /\ state'[x] = "done"
         \/ inUse'[LaneOf[x]] = {} /\ ~unsafe'[LaneOf[x]]
  PROVE  HandsOver
<1>1. \A m \in Lanes : source'[m] = IF source[m] = x THEN None ELSE source[m]
  BY RetireFits
<1>2. \A m \in Lanes : source[m] = x => m = LaneOf[x]
  BY InvFacts, ConstantsFit DEF SessionsOfLane
<1> QED BY <1>1, <1>2 DEF HandsOver, Ends

LEMMA FinalizeEffects ==
  ASSUME IInv, NEW j \in Jobs, NEW o, NEW isolated, NEW chains, Finalize(j, o, isolated, chains),
         state[j] \in {"running", "isolating"}
  PROVE  AdmitsNone /\ HandsOver
<1>1. Retire(j) /\ state' = [state EXCEPT ![j] = "done"]
  BY DEF Finalize
<1>2. j \in Executions /\ state \in [Executions -> States]
  BY InvFacts, ConstantsFit
<1>3. state'[j] = "done" /\ \A x \in Jobs : state'[x] = state[x] \/ state'[x] = "done"
  BY <1>1, <1>2, ConstantsFit
<1>4. \A l \in Lanes : independent'[l] \subseteq independent[l]
  <2>1. independent \in [Lanes -> SUBSET Independent] BY DEF IInv, TypeOK
  <2>2. Dropped(LaneOf[j], j) \/ independent' = independent BY DEF Finalize, laneVars
  <2> QED BY <2>1, <2>2 DEF Dropped
<1>5. HandsOver
  BY <1>1, <1>2, <1>3, RetireEffects
<1> QED BY <1>3, <1>4, <1>5 DEF AdmitsNone

LEMMA AdmitEffects ==
  ASSUME IInv, NEW l \in Lanes, Admit(l)
  PROVE  HandsOver
<1>1. PICK j : j = Head(lock[l]).by
  OBVIOUS
<1>2. j \in Jobs /\ Registered(l) /\ CanAdmit(l, j)
  BY <1>1, AdmitFacts
<1>3. CASE j \in Independent
  <2>1. source' = source BY <1>1, <1>3 DEF Admit
  <2> QED BY <2>1 DEF HandsOver
<1>4. CASE j \notin Independent
  <2>1. source[l] = None /\ blocked[l] = None BY <1>2, <1>4 DEF CanAdmit, SharedFree
  <2>2. inUse[l] = {} /\ ~unsafe[l] BY <1>2, <2>1, FreeSession
  <2>3. source' = [source EXCEPT ![l] = j] BY <1>1, <1>4 DEF Admit
  <2>4. \A m \in Lanes : m # l => source'[m] = source[m] BY <2>3, InvFacts
  <2> QED BY <2>1, <2>2, <2>4 DEF HandsOver
<1> QED BY <1>3, <1>4

LEMMA AcquireEffects ==
  ASSUME IInv, NEW l \in Lanes, lock[l] # << >>, Head(lock[l]).kind = "acquire",
         NEW recovered, AcquireLoop(l, recovered)
  PROVE  AdmitsNone /\ HandsOver
<1>1. CASE Registered(l) /\ source[l] # None
  BY <1>1, QuietEffects DEF AcquireLoop, laneVars, sourceVars, jobVars
<1>2. CASE ~(Registered(l) /\ source[l] # None)
  <2>1. PICK d : d = Head(lock[l]).by
    OBVIOUS
  <2>2. /\ IF Refused(l, recovered)
           THEN /\ state' = [state EXCEPT ![d] = "done"]
                /\ UNCHANGED << source, sessionVars >>
           ELSE /\ state' = [state EXCEPT ![d] = "running"]
                /\ source' = [source EXCEPT ![l] = d]
        /\ independent' = independent
    BY <1>2, <2>1 DEF AcquireLoop, Grant, laneVars
  <2>3. d \notin Jobs
    BY <2>1, HeadKnown, ConstantsFit DEF TicketFits
  <2>4. AdmitsNone
    <3>1. \A x \in Jobs : state'[x] = state[x] BY <2>2, <2>3, InvFacts, ConstantsFit
    <3> QED BY <2>2, <3>1 DEF AdmitsNone
  <2>5. CASE Refused(l, recovered)
    BY <2>2, <2>4, <2>5 DEF HandsOver
  <2>6. CASE ~Refused(l, recovered)
    <3>1. Registered(l) /\ source[l] = None /\ blocked[l] = None
      BY <2>6, <1>2 DEF Refused, Registered
    <3>2. inUse[l] = {} /\ ~unsafe[l] BY <3>1, FreeSession
    <3>3. \A m \in Lanes : m # l => source'[m] = source[m] BY <2>2, <2>6, InvFacts
    <3> QED BY <2>4, <3>1, <3>2, <3>3 DEF HandsOver
  <2> QED BY <2>5, <2>6
<1> QED BY <1>1, <1>2

LEMMA GivesUpEffects ==
  ASSUME IInv, NEW l \in Lanes, InRecovery(l), GivesUp(l)
  PROVE  AdmitsNone /\ HandsOver
<1>1. independent' = independent /\ source' = source
  BY DEF GivesUp, sourceVars
<1>2. state' = state \/ state' = [state EXCEPT ![Head(lock[l]).by] = "done"]
  BY DEF GivesUp
<1>3. \A x \in Jobs : state'[x] = state[x] \/ state'[x] \in {"done"}
  BY <1>2, InvFacts, ConstantsFit
<1> QED BY <1>1, <1>3, IdleEffects
LEMMA RunSettlesEffects ==
  ASSUME IInv, NEW j \in Jobs, NEW o, NEW required, NEW verified, RunSettles(j, o, required, verified)
  PROVE  AdmitsNone /\ HandsOver
<1>1. state[j] = "running"
  BY DEF RunSettles
<1>2. CASE NeedsIsolation(j, o)
  <2>1. state' = [state EXCEPT ![j] = "isolating"] /\ independent' = independent /\ source' = source
    BY <1>2 DEF RunSettles, laneVars, sourceVars
  <2>2. \A x \in Jobs : state'[x] = state[x] \/ state'[x] \in {"isolating"}
    BY <2>1, InvFacts, ConstantsFit
  <2> QED BY <2>1, <2>2, IdleEffects
<1>3. CASE ~NeedsIsolation(j, o)
  <2>1. Finalize(j, o, FALSE, lock)
    BY <1>3 DEF RunSettles
  <2> QED BY <1>1, <2>1, FinalizeEffects
<1> QED BY <1>2, <1>3

LEMMA IsolationEndsEffects ==
  ASSUME IInv, NEW l \in Lanes, NEW ok, IsolationEnds(l, ok)
  PROVE  AdmitsNone /\ HandsOver
<1>1. PICK j, o, c : j = Head(lock[l]).by /\ o = outcome[j] /\ c = Left(l)
  OBVIOUS
<1>2. lock[l] # << >> /\ Head(lock[l]).kind = "isolate"
  BY DEF IsolationEnds, HeadIs
<1>3. Finalize(j, o, ok, c)
  BY <1>1 DEF IsolationEnds, Finalize, PumpAll
<1>4. j \in Jobs /\ state[j] \in {"running", "isolating"}
  BY <1>1, <1>2, HeadKnown, ConstantsFit DEF TicketFits
<1> QED BY <1>3, <1>4, FinalizeEffects

LEMMA DirectSettlesEffects ==
  ASSUME IInv, NEW d \in Executions, DirectSettles(d)
  PROVE  AdmitsNone /\ HandsOver
<1>1. /\ d \in Direct /\ state[d] = "running" /\ state' = [state EXCEPT ![d] = "done"]
      /\ Retire(d) /\ independent' = independent
  BY DEF DirectSettles, laneVars
<1>2. state'[d] = "done" /\ \A x \in Jobs : state'[x] = state[x]
  BY <1>1, InvFacts, ConstantsFit
<1>3. HandsOver
  BY <1>1, <1>2, RetireEffects
<1> QED BY <1>1, <1>2, <1>3 DEF AdmitsNone

LEMMA RecoveredEffects ==
  ASSUME IInv, NEW l \in Lanes, Recovered(l)
  PROVE  AdmitsNone /\ HandsOver
<1>0. PICK x : x = hold[l].on
  OBVIOUS
<1>1. /\ hold[l].at # "enter" /\ MakesSafe(l) /\ state' = state
      /\ \/ Dropped(l, x) /\ Retire(x)
         \/ independent' = independent /\ source' = source
  BY <1>0 DEF Recovered, InRecovery, Retire, Dropped, sourceVars
<1>2. x \in Executions /\ LaneOf[x] = l
  BY <1>0, <1>1, InvFacts DEF HoldsOfLane
<1>3. inUse'[l] = {} /\ ~unsafe'[l]
  BY <1>1, MadeSafe
<1>4. CASE Dropped(l, x) /\ Retire(x)
  <2>1. HandsOver BY <1>2, <1>3, <1>4, RetireEffects
  <2>2. \A m \in Lanes : independent'[m] \subseteq independent[m] BY <1>2, <1>4, DroppedFits
  <2> QED BY <1>1, <2>1, <2>2 DEF AdmitsNone
<1>5. CASE independent' = independent /\ source' = source
  BY <1>1, <1>5, QuietEffects
<1> QED BY <1>1, <1>4, <1>5

LEMMA CloseEffects ==
  ASSUME IInv, NEW l \in Lanes, Close(l)
  PROVE  AdmitsNone /\ HandsOver
<1>1. /\ MakesSafe(l) /\ independent' = independent /\ source' = [source EXCEPT ![l] = None]
      /\ \A x \in Executions : state'[x] = state[x] \/ state'[x] = "done"
  BY DEF Close
<1>2. inUse'[l] = {} /\ ~unsafe'[l] /\ source'[l] = None /\ \A m \in Lanes : m # l => source'[m] = source[m]
  BY <1>1, MadeSafe, InvFacts
<1> QED BY <1>1, <1>2, ConstantsFit DEF AdmitsNone, HandsOver, Ends

LEMMA DisposeEffects ==
  ASSUME IInv, Dispose
  PROVE  AdmitsNone /\ HandsOver
<1>1. /\ disposed' /\ independent' = independent /\ source' = [l \in Lanes |-> None]
      /\ \A x \in Executions : state'[x] = state[x] \/ state'[x] = "done"
  BY DEF Dispose
<1> QED BY <1>1, ConstantsFit DEF AdmitsNone, HandsOver, Ends

LEMMA ContinueEffects ==
  ASSUME IInv, NEW l \in Lanes, Continue(l), ~Admit(l)
  PROVE  AdmitsNone /\ HandsOver
<1> USE DEF laneVars, sourceVars, jobVars
<1>1. CASE NotAdmitted(l) \/ IsolationEnters(l) \/ RecoverEnters(l) \/ RepairEnters(l)
  BY <1>1, QuietEffects DEF NotAdmitted, IsolationEnters, RecoverEnters, RepairEnters
<1>2. CASE \E ok \in BOOLEAN : IsolationEnds(l, ok) BY <1>2, IsolationEndsEffects
<1>3. CASE AcquireEnters(l) BY <1>3, AcquireEffects DEF AcquireEnters, HeadIs
<1>4. CASE AfterRecovery(l)
  <2>1. CASE Head(lock[l]).kind = "acquire" /\ AcquireLoop(l, TRUE)
    BY <2>1, <1>4, AcquireEffects DEF AfterRecovery, InRecovery
  <2>2. CASE ~(Head(lock[l]).kind = "acquire" /\ AcquireLoop(l, TRUE))
    BY <2>2, <1>4, QuietEffects DEF AfterRecovery
  <2> QED BY <2>1, <2>2
<1>5. CASE \E ok \in BOOLEAN : RepairEnds(l, ok) BY <1>5, QuietEffects DEF RepairEnds
<1>6. CASE RecoveryStepFails(l) \/ RecoveryStepSucceeds(l)
  <2>1. InRecovery(l) BY <1>6 DEF RecoveryStepFails, RecoveryStepSucceeds
  <2>2. CASE GivesUp(l) BY <2>1, <2>2, GivesUpEffects
  <2>3. CASE \E at \in Points : MovesOn(l, at) BY <2>3, QuietEffects DEF MovesOn
  <2> QED BY <1>6, <2>2, <2>3, RecoveryPoints DEF RecoveryStepFails, RecoveryStepSucceeds
<1>7. CASE Recovered(l) BY <1>7, RecoveredEffects
<1> QED BY <1>1, <1>2, <1>3, <1>4, <1>5, <1>6, <1>7 DEF Continue

LEMMA RequestEffects ==
  ASSUME IInv, NEW x \in Executions, Request(x)
  PROVE  AdmitsNone /\ HandsOver
<1> USE DEF laneVars, sourceVars, jobVars
<1>1. CASE x \in Jobs /\ Enqueue(x)
  <2>1. independent' = independent /\ source' = source
        /\ \E s \in {"preparing", "done"} : state' = [state EXCEPT ![x] = s]
    BY <1>1 DEF Enqueue
  <2>2. \A y \in Jobs : state'[y] = state[y] \/ state'[y] \in {"preparing", "done"}
    BY <2>1, InvFacts, ConstantsFit
  <2> QED BY <2>1, <2>2, IdleEffects
<1>2. CASE x \in Jobs /\ Prepared(x)
  <2>1. independent' = independent /\ source' = source /\ state' = [state EXCEPT ![x] = "ready"]
    BY <1>2 DEF Prepared
  <2>2. \A y \in Jobs : state'[y] = state[y] \/ state'[y] \in {"ready"}
    BY <2>1, InvFacts, ConstantsFit
  <2> QED BY <2>1, <2>2, IdleEffects
<1>3. CASE x \in Jobs /\ \E l \in Lanes : \E rest, o : Unqueue(l, {x}, rest, o)
  <2>1. independent' = independent /\ source' = source
        /\ \A y \in Jobs : state'[y] = state[y] \/ state'[y] \in {"done"}
    BY <1>3, ConstantsFit DEF Unqueue
  <2> QED BY <2>1, IdleEffects
<1>4. CASE x \in Jobs /\ \E o \in {"cancelled", "failed"} : PreparationFails(x, o)
  <2>1. LaneOf[x] \in Lanes /\ {"cancelled", "failed"} \subseteq Outcomes BY ConstantsFit DEF Outcomes
  <2> QED BY <2>1, <1>3, <1>4 DEF PreparationFails
<1>5. CASE x \in Jobs /\ RemoveQueued(x)
  <2>1. LaneOf[x] \in Lanes /\ "cancelled" \in Outcomes BY ConstantsFit DEF Outcomes
  <2> QED BY <2>1, <1>3, <1>5 DEF RemoveQueued
<1>6. CASE x \in Direct /\ TryAcquire(x)
  <2>1. independent' = independent /\ source' = source /\ state' = [state EXCEPT ![x] = "waiting"]
    BY <1>6 DEF TryAcquire
  <2>2. \A y \in Jobs : state'[y] = state[y] \/ state'[y] \in {"waiting"}
    BY <2>1, InvFacts, ConstantsFit
  <2> QED BY <2>1, <2>2, IdleEffects
<1>7. CASE CancelRunning(x) BY <1>7, QuietEffects DEF CancelRunning
<1>8. CASE RecoverRunning(x) BY <1>8, QuietEffects DEF RecoverRunning
<1>9. CASE DirectSettles(x) BY <1>9, DirectSettlesEffects
<1>10. CASE x \in Jobs /\ \E o \in Outcomes, required, verified \in BOOLEAN : RunSettles(x, o, required, verified)
  BY <1>10, RunSettlesEffects
<1> QED BY <1>1, <1>2, <1>4, <1>5, <1>6, <1>7, <1>8, <1>9, <1>10 DEF Request, Preparation, Settlement

LEMMA EnvironmentEffects ==
  ASSUME IInv, NEW l \in Lanes, Environment(l)
  PROVE  AdmitsNone /\ HandsOver
<1> USE DEF laneVars, sourceVars, jobVars
<1>1. CASE \E b \in BOOLEAN : SetPaused(l, b) BY <1>1, QuietEffects DEF SetPaused
<1>2. CASE ClearQueued(l)
  <2>1. independent' = independent /\ source' = source
        /\ \A y \in Jobs : state'[y] = state[y] \/ state'[y] \in {"done"}
    BY <1>2, ConstantsFit DEF ClearQueued, Unqueue
  <2> QED BY <2>1, IdleEffects
<1>3. CASE RecoverBlockedSession(l) BY <1>3, QuietEffects DEF RecoverBlockedSession
<1>4. CASE Close(l) BY <1>4, CloseEffects
<1> QED BY <1>1, <1>2, <1>3, <1>4 DEF Environment

LEMMA NextEffects ==
  ASSUME IInv, [Next]_vars
  PROVE  HandsOver /\ (AdmitsNone \/ \E l \in Lanes : Admit(l))
<1> USE DEF laneVars, sourceVars, jobVars
<1>1. CASE \E l \in Lanes : Environment(l) BY <1>1, EnvironmentEffects
<1>2. CASE \E l \in Lanes : Continue(l) BY <1>2, ContinueEffects, AdmitEffects
<1>3. CASE \E l \in Lanes : Answer(l)
  <2>1. PICK l \in Lanes : Answer(l) BY <1>3
  <2>2. InRecovery(l) BY <2>1 DEF Answer
  <2>3. CASE GivesUp(l) BY <2>2, <2>3, GivesUpEffects
  <2>4. CASE \E at \in Points : MovesOn(l, at) BY <2>4, QuietEffects DEF MovesOn
  <2> QED BY <2>1, <2>3, <2>4, RecoveryPoints DEF Answer
<1>4. CASE \E l \in Lanes : RepairChosen(l) \/ RepairAbandoned(l)
  BY <1>4, QuietEffects DEF RepairChosen, RepairAbandoned
<1>5. CASE \E x \in Executions : Request(x) BY <1>5, RequestEffects
<1>6. CASE \E p \in Limits : ConfigureParallelLimits(p)
  BY <1>6, QuietEffects DEF ConfigureParallelLimits
<1>7. CASE Dispose BY <1>7, DisposeEffects
<1>8. CASE UNCHANGED vars BY <1>8, QuietEffects DEF vars
<1> QED BY <1>1, <1>2, <1>3, <1>4, <1>5, <1>6, <1>7, <1>8 DEF Next
--------------------------------------------------------------------------------
(* The action properties.                                                  *)

(* Whoever is handed the shared session of a lane finds it unused and      *)
(* safe: admission and tryAcquire alike.                                   *)
THEOREM SafeSessionGranted ==
  Spec => GrantedOnSafeSession
<1> DEFINE A == \A l \in Lanes : source'[l] \notin {source[l], None} => inUse[l] = {} /\ ~unsafe[l]
<1>1. IInv /\ [Next]_vars => A
  BY NextEffects DEF HandsOver
<1> HIDE DEF A
<1>2. IInv /\ [Next]_vars => [A]_vars
  BY <1>1
<1>3. Spec => [][A]_vars
  BY Invariance, <1>2, PTL DEF Spec
<1> QED BY <1>3 DEF GrantedOnSafeSession, A

(* A lease ends with its own request, with a recovery that has made the    *)
(* session safe, or with its document.                                     *)
THEOREM OwnersRelease ==
  Spec => OnlyOwnerReleases
<1> DEFINE A == \A l \in Lanes : source[l] # None /\ source'[l] # source[l] =>
                  \/ state[source[l]] # "done" /\ state'[source[l]] = "done"
                  \/ (inUse'[l] = {} /\ ~unsafe'[l])
                  \/ disposed'
<1>1. IInv /\ [Next]_vars => A
  BY NextEffects DEF HandsOver, Ends
<1> HIDE DEF A
<1>2. IInv /\ [Next]_vars => [A]_vars
  BY <1>1
<1>3. Spec => [][A]_vars
  BY Invariance, <1>2, PTL DEF Spec
<1> QED BY <1>3 DEF OnlyOwnerReleases, A

(* Only the admission of a request starts it.                              *)
LEMMA StartsByAdmission ==
  ASSUME IInv, [Next]_vars, NEW j \in Jobs, state[j] = "ready", state'[j] = "running"
  PROVE  \E l \in Lanes : /\ LaneOf[j] = l /\ Registered(l) /\ NextEligible(l) = j /\ CanAdmit(l, j)
<1>1. PICK l \in Lanes : Admit(l)
  BY NextEffects DEF AdmitsNone
<1>2. PICK h : h = Head(lock[l]).by
  OBVIOUS
<1>3. LaneOf[h] = l /\ Registered(l) /\ NextEligible(l) = h /\ CanAdmit(l, h) /\ h \in Jobs
  BY <1>1, <1>2, AdmitFacts
<1>4. state' = [state EXCEPT ![h] = "running"]
  BY <1>1, <1>2 DEF Admit
<1>5. j = h
  BY <1>3, <1>4, InvFacts, ConstantsFit
<1> QED BY <1>3, <1>5

(* A paused lane, or one under recovery, starts none of its requests.      *)
THEOREM PausedStartsNothing ==
  Spec => PausedLaneStartsNothing
<1> DEFINE A == \A j \in Jobs : state[j] = "ready" /\ state'[j] = "running" =>
                  ~paused[LaneOf[j]] /\ ~recovering[LaneOf[j]]
<1>1. IInv /\ [Next]_vars => A
  BY StartsByAdmission DEF CanAdmit
<1> HIDE DEF A
<1>2. IInv /\ [Next]_vars => [A]_vars
  BY <1>1
<1>3. Spec => [][A]_vars
  BY Invariance, <1>2, PTL DEF Spec
<1> QED BY <1>3 DEF PausedLaneStartsNothing, A

(* The head of a queue in submission order was submitted first.            *)
LEMMA HeadLeast ==
  ASSUME NEW s \in Seq(Jobs), NEW rank \in [Jobs -> Nat], Increasing(s, rank), NEW k, InSeq(k, s)
  PROVE  s # << >> /\ ~(rank[k] < rank[Head(s)])
<1>1. PICK i \in DOMAIN s : s[i] = k
  BY DEF InSeq
<1>2. DOMAIN s = 1 .. Len(s) /\ Len(s) \in Nat /\ (s = << >> => Len(s) = 0)
  BY LenProperties, EmptySeq
<1>3. s # << >>
  BY <1>1, <1>2
<1>4. Head(s) \in Jobs /\ 1 \in DOMAIN s /\ s[1] = Head(s)
  BY <1>3, HeadInQueue
<1>5. k \in Jobs
  BY QueuedIsJob
<1>6. CASE i = 1
  BY <1>1, <1>4, <1>5, <1>6
<1>7. CASE i # 1
  <2>1. 1 < i BY <1>1, <1>2, <1>7
  <2>2. rank[Head(s)] < rank[k] BY <2>1, <1>1, <1>4 DEF Increasing
  <2> QED BY <2>2, <1>3, <1>4, <1>5
<1> QED BY <1>3, <1>6, <1>7

(* Requests start in submission order, except that those with their own    *)
(* connection overtake shared ones held behind an unsafe session.          *)
THEOREM StartsInOrder ==
  Spec => StartInOrder
<1> DEFINE A == \A j, k \in Jobs :
                  /\ state[j] = "ready" /\ state'[j] = "running"
                  /\ LaneOf[j] = LaneOf[k] /\ InSeq(k, queued[LaneOf[j]]) /\ sequence[k] < sequence[j]
                  => blocked[LaneOf[j]] # None /\ j \in Independent /\ k \in Shared
<1>1. IInv /\ [Next]_vars => A
  <2> SUFFICES ASSUME IInv, [Next]_vars, NEW j \in Jobs, NEW k \in Jobs,
                      state[j] = "ready", state'[j] = "running",
                      InSeq(k, queued[LaneOf[j]]), sequence[k] < sequence[j]
               PROVE  blocked[LaneOf[j]] # None /\ j \in Independent /\ k \in Shared
    OBVIOUS
  <2>1. PICK l \in Lanes : LaneOf[j] = l /\ NextEligible(l) = j
    BY StartsByAdmission
  <2>2. /\ queued[l] \in Seq(Jobs) /\ Increasing(queued[l], sequence) /\ sequence \in [Jobs -> Nat]
        /\ InSeq(k, queued[l]) /\ j # None
    BY <2>1, ConstantsFit DEF IInv, TypeOK, Sorted
  <2>3. blocked[l] # None
    <3>1. queued[l] # << >> /\ ~(sequence[k] < sequence[Head(queued[l])])
      BY <2>2, HeadLeast
    <3> QED BY <3>1, <2>1 DEF NextEligible
  <2>4. PICK i \in DOMAIN queued[l] :
              /\ j = queued[l][i] /\ j \in Independent
              /\ \A m \in DOMAIN queued[l] : queued[l][m] \in Independent => i <= m
    <3>1. None \notin Jobs /\ j = FirstOf(queued[l], Independent)
      BY <2>1, <2>3, ConstantsFit DEF NextEligible, FirstIndependent
    <3> QED BY <2>2, <3>1, FirstOfIs
  <2>5. k \notin Independent
    <3>1. PICK m \in DOMAIN queued[l] : queued[l][m] = k
      BY <2>2 DEF InSeq
    <3>2. DOMAIN queued[l] \subseteq Nat
      BY <2>2, LenProperties
    <3>3. CASE i = m BY <2>2, <2>4, <3>1, <3>3
    <3>4. CASE i < m
      <4>1. sequence[j] < sequence[k] BY <2>2, <2>4, <3>1, <3>4 DEF Increasing
      <4> QED BY <2>2, <4>1
    <3> QED BY <2>4, <3>1, <3>2, <3>3, <3>4
  <2> QED BY <2>1, <2>3, <2>4, <2>5, ConstantsFit
<1> HIDE DEF A
<1>2. IInv /\ [Next]_vars => [A]_vars
  BY <1>1
<1>3. Spec => [][A]_vars
  BY Invariance, <1>2, PTL DEF Spec
<1> QED BY <1>3 DEF StartInOrder, A

LEMMA OneMoreFits ==
  ASSUME NEW S \in SUBSET Jobs, NEW x, NEW n \in Nat, Cardinality(S) < n
  PROVE  Cardinality(S \union {x}) <= n
<1>1. IsFiniteSet(S) /\ Cardinality(S) \in Nat
  BY PartitionAssumption, FS_Subset, FS_CardinalityType
<1>2. CASE x \in S
  <2>1. S \union {x} = S BY <1>2
  <2> QED BY <2>1, <1>1
<1>3. CASE x \notin S
  <2>1. Cardinality(S \union {x}) = Cardinality(S) + 1 BY <1>1, <1>3, FS_AddElement
  <2> QED BY <2>1, <1>1
<1> QED BY <1>2, <1>3

(* Independent requests start only into a free slot of their tab and of    *)
(* the extension host.                                                     *)
THEOREM SlotsKept ==
  Spec => SlotsRespected
<1> DEFINE A == \A l \in Lanes : ~(independent'[l] \subseteq independent[l]) =>
                  Cardinality(independent'[l]) <= limits[1] /\ Cardinality(ActiveIndependent') <= limits[2]
<1>1. IInv /\ [Next]_vars => A
  <2> SUFFICES ASSUME IInv, [Next]_vars, NEW m \in Lanes, ~(independent'[m] \subseteq independent[m])
               PROVE  Cardinality(independent'[m]) <= limits[1] /\ Cardinality(ActiveIndependent') <= limits[2]
    OBVIOUS
  <2>1. PICK l \in Lanes : Admit(l)
    BY NextEffects DEF AdmitsNone
  <2>2. PICK j : j = Head(lock[l]).by
    OBVIOUS
  <2>3. LaneOf[j] = l /\ Registered(l) /\ CanAdmit(l, j)
    BY <2>1, <2>2, AdmitFacts
  <2>t. independent \in [Lanes -> SUBSET Independent] /\ limits \in Limits
    BY DEF IInv, TypeOK
  <2>4. j \in Independent /\ independent' = [independent EXCEPT ![l] = @ \union {j}]
    <3>1. independent' # independent OBVIOUS
    <3> QED BY <3>1, <2>1, <2>2 DEF Admit
  <2>5. m = l /\ independent'[l] = independent[l] \union {j} /\ \A n \in Lanes : n # l => independent'[n] = independent[n]
    BY <2>4, <2>t
  <2>6. SlotFree(l)
    BY <2>3, <2>4 DEF CanAdmit
  <2>7. limits[1] \in Nat /\ limits[2] \in Nat
    <3>1. limits \in (1 .. 100) \X (1 .. 100) BY <2>t, LimitsAssumption
    <3> QED BY <3>1
  <2>8. Cardinality(independent'[l]) <= limits[1]
    <3>1. independent[l] \in SUBSET Jobs BY <2>t, ConstantsFit
    <3> QED BY <3>1, <2>5, <2>6, <2>7, OneMoreFits DEF SlotFree
  <2>9. ActiveIndependent' = ActiveIndependent \union {j}
    <3>1. closed' = closed /\ disposed' = disposed BY <2>1 DEF Admit, ownerVars
    <3> QED BY <3>1, <2>3, <2>5 DEF ActiveIndependent, Registered
  <2>10. Cardinality(ActiveIndependent') <= limits[2]
    <3>1. ActiveIndependent \in SUBSET Jobs BY <2>t, ConstantsFit DEF ActiveIndependent
    <3> QED BY <3>1, <2>6, <2>7, <2>9, OneMoreFits DEF SlotFree
  <2> QED BY <2>5, <2>8, <2>10
<1> HIDE DEF A
<1>2. IInv /\ [Next]_vars => [A]_vars
  BY <1>1
<1>3. Spec => [][A]_vars
  BY Invariance, <1>2, PTL DEF Spec
<1> QED BY <1>3 DEF SlotsRespected, A
--------------------------------------------------------------------------------
(* Wake-ups, where the lanes hold requests of one kind.                    *)

(* pumpAll leaves no lane asleep that wants to admit a request.            *)
LEMMA PumpedPumps ==
  ASSUME NEW c \in Seq(Ticket), NEW j, j # None
  PROVE  Pumping(Pumped(c, j))
<1>1. CASE Pumping(c)
  BY <1>1 DEF Pumped
<1>2. CASE ~Pumping(c)
  <2> DEFINE t == TicketOf("pump", j)
             d == Append(c, t)
  <2>1. t.kind = "pump"
    BY DEF TicketOf
  <2> HIDE DEF t
  <2>2. Len(c) + 1 \in DOMAIN d /\ d[Len(c) + 1] = t
    OBVIOUS
  <2>3. Pumped(c, j) = d
    BY <1>2 DEF Pumped, t
  <2> HIDE DEF d
  <2> QED BY <2>1, <2>2, <2>3 DEF Pumping
<1> QED BY <1>1, <1>2

LEMMA PumpAllWakes ==
  ASSUME NEW chains \in [Lanes -> Seq(Ticket)], PumpAll(chains)
  PROVE  NoLostWakeup'
<1>1. ASSUME NEW l \in Lanes, Wanted(l, Lanes)' # None PROVE Pumping(lock'[l])
  <2>1. PICK j : j = Wanted(l, Lanes)'
    OBVIOUS
  <2>2. lock'[l] = Pumped(chains[l], j)
    BY <2>1 DEF PumpAll
  <2> QED BY <1>1, <2>1, <2>2, PumpedPumps
<1> QED BY <1>1 DEF NoLostWakeup, Pumping

(* A lane that is pumping goes on when its chain grows, and when another   *)
(* callback at its head returns.                                           *)
LEMMA JoinedPumps ==
  ASSUME lock \in [Lanes -> Seq(Ticket)], NEW l \in Lanes, NEW k, NEW x, lock' = Joined(l, k, x)
  PROVE  \A m \in Lanes : Pumping(lock[m]) => Pumping(lock'[m])
<1> DEFINE t == TicketOf(k, x)
<1>1. lock'[l] = Append(lock[l], t) /\ \A m \in Lanes : m # l => lock'[m] = lock[m]
  BY DEF Joined
<1> HIDE DEF t
<1>2. lock[l] \in Seq(Ticket)
  OBVIOUS
<1>3. \A i \in DOMAIN lock[l] : i \in DOMAIN lock'[l] /\ lock'[l][i] = lock[l][i]
  BY <1>1, <1>2
<1> QED BY <1>1, <1>3 DEF Pumping

LEMMA LeftPumps ==
  ASSUME lock \in [Lanes -> Seq(Ticket)], NEW l \in Lanes, lock[l] # << >>,
         Head(lock[l]).kind # "pump", lock' = Left(l)
  PROVE  \A m \in Lanes : Pumping(lock[m]) => Pumping(lock'[m])
<1> DEFINE c == lock[l]
<1>1. lock'[l] = Tail(c) /\ \A m \in Lanes : m # l => lock'[m] = lock[m]
  BY DEF Left
<1>2. c \in Seq(Ticket) /\ c # << >> /\ Head(c).kind # "pump"
  OBVIOUS
<1> HIDE DEF c
<1>3. Pumping(c) => Pumping(Tail(c))
  <2>1. Head(c) = c[1] /\ Len(c) \in Nat /\ DOMAIN c = 1 .. Len(c)
    BY <1>2
  <2>2. \A i \in DOMAIN c : i # 1 => i - 1 \in DOMAIN Tail(c) /\ Tail(c)[i - 1] = c[i]
    BY <1>2
  <2> QED BY <1>2, <2>1, <2>2 DEF Pumping
<1> QED BY <1>1, <1>3 DEF c

(* What a lane of shared requests waits for before it admits the next one. *)
Wants(l) ==
  /\ Registered(l) /\ queued[l] # << >> /\ state[Head(queued[l])] = "ready"
  /\ ~paused[l] /\ ~recovering[l]
  /\ blocked[l] = None /\ running[l] = None /\ source[l] = None

LEMMA WantedShared ==
  ASSUME Independent = {}, IInv, NEW l \in Lanes, NEW among
  PROVE  Wanted(l, among) # None <=> Wants(l)
<1>1. FirstIndependent(queued[l]) = None
  BY InvFacts, FirstIndependentIs
<1>2. queued[l] # << >> => Head(queued[l]) \in Jobs /\ Head(queued[l]) # None
  BY InvFacts, ConstantsFit
<1> QED BY <1>1, <1>2 DEF Wanted, NextEligible, CanAdmit, SharedFree, Wants

LEMMA WantedSharedAfter ==
  ASSUME Independent = {}, IInv', NEW l \in Lanes
  PROVE  Wanted(l, Lanes)' # None <=> Wants(l)'
<1>0. queued' \in [Lanes -> Seq(Jobs)]
  BY DEF IInv, TypeOK
<1>1. FirstIndependent(queued'[l]) = None
  BY <1>0, FirstIndependentIs
<1>2. queued'[l] # << >> => Head(queued'[l]) \in Jobs /\ Head(queued'[l]) # None
  BY <1>0, ConstantsFit
<1> QED BY <1>1, <1>2 DEF Wanted, NextEligible, CanAdmit, SharedFree, Wants, FirstIndependent

(* A step after which no lane wants more than before and none has stopped  *)
(* pumping.                                                                *)
LEMMA SharedStays ==
  ASSUME Independent = {}, IInv, IInv', NoLostWakeup,
         \A m \in Lanes : Wants(m)' => \/ Pumping(lock'[m])
                                       \/ Wants(m) /\ (Pumping(lock[m]) => Pumping(lock'[m]))
  PROVE  NoLostWakeup'
<1>1. ASSUME NEW m \in Lanes, Wanted(m, Lanes)' # None PROVE Pumping(lock'[m])
  <2>1. Wants(m)'
    BY <1>1, WantedSharedAfter
  <2>2. CASE Wants(m) /\ (Pumping(lock[m]) => Pumping(lock'[m]))
    BY <2>2, WantedShared DEF NoLostWakeup
  <2> QED BY <2>1, <2>2
<1> QED BY <1>1 DEF NoLostWakeup, Pumping

LEMMA SharedQuiet ==
  ASSUME Independent = {}, IInv, IInv', NoLostWakeup,
         UNCHANGED << queued, paused, blocked, running, source, closed, disposed >>,
         \A m \in Lanes : recovering'[m] = recovering[m] \/ recovering'[m],
         \A x \in Jobs : state'[x] = "ready" => state[x] = "ready",
         \A m \in Lanes : Pumping(lock[m]) => Pumping(lock'[m])
  PROVE  NoLostWakeup'
<1>1. \A m \in Lanes : queued[m] # << >> => Head(queued[m]) \in Jobs
  BY InvFacts
<1>2. \A m \in Lanes : Wants(m)' => Wants(m)
  BY <1>1 DEF Wants, Registered
<1> QED BY <1>2, SharedStays

LEMMA SharedFinalize ==
  ASSUME Independent = {}, IInv, IInv', NoLostWakeup, NEW j \in Jobs, NEW o, NEW isolated,
         NEW chains \in [Lanes -> Seq(Ticket)], Finalize(j, o, isolated, chains),
         lock' = chains => \A m \in Lanes : Pumping(lock[m]) => Pumping(lock'[m])
  PROVE  NoLostWakeup'
<1> DEFINE l == LaneOf[j]
           owned == Registered(l) /\ (running[l] = j \/ j \in independent[l])
<1>1. CASE owned
  <2>1. PumpAll(chains)
    BY <1>1 DEF Finalize
  <2> QED BY <2>1, PumpAllWakes
<1>2. CASE ~owned
  <2>1. /\ lock' = chains /\ UNCHANGED << laneVars, ownerVars >> /\ Retire(j)
        /\ state' = [state EXCEPT ![j] = "done"]
    BY <1>2 DEF Finalize
  <2>2. l \in Lanes /\ j \in Shared /\ j \in Executions
    BY ConstantsFit
  <2>3. \A m \in Lanes : source[m] = j => m = l
    BY <2>2, InvFacts, ConstantsFit DEF SessionsOfLane
  <2>4. \A m \in Lanes : Wants(m)' => Wants(m)
    <3> SUFFICES ASSUME NEW m \in Lanes, Wants(m)' PROVE Wants(m)
      OBVIOUS
    <3>1. \A x \in Executions : state'[x] = "ready" => state[x] = "ready"
      BY <2>1, InvFacts
    <3>2. queued[m] # << >> => Head(queued[m]) \in Executions
      BY InvFacts, ConstantsFit
    <3>3. source'[m] = IF source[m] = j THEN None ELSE source[m]
      BY <2>1, <2>2, RetireFits
    <3>4. Registered(m) /\ running[m] = None
      BY <2>1 DEF Wants, Registered, laneVars, ownerVars
    <3>5. source[m] # j
      <4>1. SUFFICES ASSUME source[m] = j PROVE FALSE
        OBVIOUS
      <4>2. m = l BY <2>3, <4>1
      <4>3. running[l] = j
        BY <3>4, <4>1, <4>2, <2>2 DEF IInv, PlacesFit, Open, Registered
      <4> QED BY <1>2, <3>4, <4>2, <4>3
    <3> QED BY <2>1, <3>1, <3>2, <3>3, <3>4, <3>5 DEF Wants, Registered, laneVars, ownerVars
  <2> QED BY <2>1, <2>4, SharedStays
<1> QED BY <1>1, <1>2

LEMMA SharedSettles ==
  ASSUME Independent = {}, IInv, IInv', NoLostWakeup, NEW x \in Executions, Settlement(x)
  PROVE  NoLostWakeup'
<1>0. lock \in [Lanes -> Seq(Ticket)] /\ state \in [Executions -> States] /\ LaneOf[x] \in Lanes
  BY InvFacts, ConstantsFit
<1>1. CASE DirectSettles(x)
  <2>1. CASE WakesLanes(x)
    <3>1. PumpAll(lock) BY <1>1, <2>1 DEF DirectSettles
    <3> QED BY <3>1, <1>0, PumpAllWakes
  <2>2. CASE ~WakesLanes(x)
    <3>1. /\ UNCHANGED << laneVars, ownerVars, lock >> /\ Retire(x) /\ x \in Direct
          /\ state' = [state EXCEPT ![x] = "done"]
      BY <1>1, <2>2 DEF DirectSettles
    <3>2. \A m \in Lanes : source[m] # x
      BY <2>2, <3>1, InvFacts, ConstantsFit DEF SessionsOfLane, WakesLanes, Current
    <3>3. source' = source
      <4>1. \A m \in Lanes : source'[m] = source[m] BY <3>1, <3>2, RetireFits
      <4>2. source \in [Lanes -> Shared \union Direct \union {None}] BY InvFacts
      <4>3. source' \in [Lanes -> Shared \union Direct \union {None}] BY DEF IInv, TypeOK
      <4> QED BY <4>1, <4>2, <4>3
    <3>4. \A y \in Jobs : state'[y] = "ready" => state[y] = "ready"
      BY <3>1, <1>0, ConstantsFit
    <3> QED BY <3>1, <3>3, <3>4, SharedQuiet DEF laneVars, ownerVars
  <2> QED BY <2>1, <2>2
<1>2. CASE x \in Jobs /\ \E o \in Outcomes, required, verified \in BOOLEAN : RunSettles(x, o, required, verified)
  <2>1. PICK o \in Outcomes, required \in BOOLEAN, verified \in BOOLEAN : RunSettles(x, o, required, verified)
    BY <1>2
  <2>2. CASE NeedsIsolation(x, o)
    <3>1. /\ state' = [state EXCEPT ![x] = "isolating"] /\ lock' = Joined(LaneOf[x], "isolate", x)
          /\ UNCHANGED << laneVars, sourceVars, ownerVars >>
      BY <2>1, <2>2 DEF RunSettles
    <3>2. \A m \in Lanes : Pumping(lock[m]) => Pumping(lock'[m])
      BY <3>1, <1>0, JoinedPumps
    <3>3. \A y \in Jobs : state'[y] = "ready" => state[y] = "ready"
      BY <3>1, <1>0, ConstantsFit
    <3> QED BY <3>1, <3>2, <3>3, SharedQuiet DEF laneVars, sourceVars, ownerVars
  <2>3. CASE ~NeedsIsolation(x, o)
    <3>1. Finalize(x, o, FALSE, lock) /\ UNCHANGED hold
      BY <2>1, <2>3 DEF RunSettles
    <3> QED BY <1>2, <3>1, <1>0, SharedFinalize
  <2> QED BY <2>2, <2>3
<1> QED BY <1>1, <1>2 DEF Settlement

LEMMA SharedAcquires ==
  ASSUME Independent = {}, IInv, IInv', NoLostWakeup, NEW l \in Lanes, lock[l] # << >>,
         Head(lock[l]).kind = "acquire", NEW recovered, AcquireLoop(l, recovered)
  PROVE  NoLostWakeup'
<1>0. lock \in [Lanes -> Seq(Ticket)] /\ state \in [Executions -> States]
  BY InvFacts
<1>1. CASE Registered(l) /\ source[l] # None
  <2>1. UNCHANGED << laneVars, sourceVars, lock, jobVars, ownerVars >>
    BY <1>1 DEF AcquireLoop
  <2> QED BY <2>1, SharedQuiet DEF laneVars, sourceVars, jobVars, ownerVars
<1>2. CASE ~(Registered(l) /\ source[l] # None)
  <2>1. PICK d : d = Head(lock[l]).by
    OBVIOUS
  <2>2. /\ lock' = Left(l) /\ UNCHANGED << laneVars, ownerVars >>
        /\ \/ state' = [state EXCEPT ![d] = "done"] /\ source' = source
           \/ state' = [state EXCEPT ![d] = "running"] /\ source' = [source EXCEPT ![l] = d]
    BY <1>2, <2>1 DEF AcquireLoop, Grant
  <2>3. \A m \in Lanes : Pumping(lock[m]) => Pumping(lock'[m])
    BY <2>2, <1>0, LeftPumps
  <2>4. d \in Executions /\ d # None
    BY <2>1, HeadKnown, ConstantsFit
  <2>5. \A y \in Executions : state'[y] = "ready" => state[y] = "ready"
    BY <2>2, <2>4, <1>0
  <2>6. \A m \in Lanes : source'[m] = None => source[m] = None
    BY <2>2, <2>4, InvFacts
  <2>7. \A m \in Lanes : queued[m] # << >> => Head(queued[m]) \in Executions
    BY InvFacts, ConstantsFit
  <2>8. \A m \in Lanes : Wants(m)' => Wants(m)
    BY <2>2, <2>5, <2>6, <2>7 DEF Wants, Registered, laneVars, ownerVars
  <2> QED BY <2>3, <2>8, SharedStays
<1> QED BY <1>1, <1>2

LEMMA SharedGivesUp ==
  ASSUME Independent = {}, IInv, IInv', NoLostWakeup, NEW l \in Lanes, InRecovery(l), GivesUp(l)
  PROVE  NoLostWakeup'
<1>0. lock \in [Lanes -> Seq(Ticket)] /\ state \in [Executions -> States] /\ lock[l] # << >>
      /\ Left(l) \in [Lanes -> Seq(Ticket)]
  BY InvFacts, HeadKnown DEF InRecovery
<1>1. CASE Head(lock[l]).kind = "recover"
  <2>1. PumpAll(Left(l)) BY <1>1 DEF GivesUp
  <2> QED BY <2>1, <1>0, PumpAllWakes
<1>2. CASE Head(lock[l]).kind # "recover"
  <2>1. Head(lock[l]).kind = "acquire" BY <1>2 DEF InRecovery
  <2>2. /\ lock' = Left(l) /\ state' = [state EXCEPT ![Head(lock[l]).by] = "done"]
        /\ UNCHANGED << queued, paused, blocked, running, sourceVars, ownerVars, recovering >>
    BY <1>2 DEF GivesUp
  <2>3. \A m \in Lanes : Pumping(lock[m]) => Pumping(lock'[m])
    BY <2>1, <2>2, <1>0, LeftPumps
  <2>4. \A y \in Jobs : state'[y] = "ready" => state[y] = "ready"
    BY <2>2, <1>0, ConstantsFit
  <2> QED BY <2>2, <2>3, <2>4, SharedQuiet DEF sourceVars, ownerVars
<1> QED BY <1>1, <1>2
LEMMA SharedAdmits ==
  ASSUME Independent = {}, IInv, IInv', NoLostWakeup, NEW l \in Lanes, Admit(l) \/ NotAdmitted(l)
  PROVE  NoLostWakeup'
<1>0. /\ lock \in [Lanes -> Seq(Ticket)] /\ state \in [Executions -> States]
      /\ lock[l] # << >> /\ Head(lock[l]).kind = "pump" /\ Head(lock[l]).by \in Executions
      /\ \A m \in Lanes : queued[m] # << >> => Head(queued[m]) \in Executions
  BY InvFacts, HeadKnown, ConstantsFit DEF Admit, NotAdmitted, HeadIs
<1>1. CASE Admit(l)
  <2>1. PICK j \in Executions : j = Head(lock[l]).by
    BY <1>0
  <2>2. /\ lock' = Left(l) /\ running' = [running EXCEPT ![l] = j]
        /\ \A m \in Lanes : m # l => queued'[m] = queued[m] /\ source'[m] = source[m]
        /\ state' = [state EXCEPT ![j] = "running"]
        /\ UNCHANGED << paused, recovering, blocked, closed, disposed >>
    BY <1>1, <2>1, InvFacts DEF Admit, ownerVars
  <2>3. ~Wants(l)'
    BY <2>1, <2>2, ConstantsFit DEF Wants, IInv, TypeOK
  <2>4. ASSUME NEW m \in Lanes, m # l, Wants(m)' PROVE Wants(m) /\ lock'[m] = lock[m]
    <3>1. queued'[m] = queued[m] /\ queued[m] # << >> /\ running'[m] = running[m] /\ source'[m] = source[m]
      BY <2>2, <2>4 DEF Wants, IInv, TypeOK
    <3>2. state'[Head(queued[m])] = "ready" => state[Head(queued[m])] = "ready"
      BY <2>2, <3>1, <1>0
    <3> QED BY <2>2, <2>4, <3>1, <3>2 DEF Wants, Registered, Left
  <2> QED BY <2>3, <2>4, SharedStays DEF Pumping
<1>2. CASE NotAdmitted(l)
  <2>1. UNCHANGED << laneVars, sourceVars, jobVars, ownerVars >>
    BY <1>2 DEF NotAdmitted
  <2>2. \A m \in Lanes : Wants(m)' <=> Wants(m)
    BY <2>1 DEF Wants, Registered, laneVars, sourceVars, jobVars, ownerVars
  <2>3. \A m \in Lanes : m # l => lock'[m] = lock[m]
    BY <1>2, <1>0 DEF NotAdmitted
  <2>4. ASSUME Wants(l) PROVE Pumping(lock'[l])
    <3>1. PICK w : w = Wanted(l, Lanes)
      OBVIOUS
    <3>2. TriesNext(l) /\ w # None
      BY <2>4, <3>1, WantedShared DEF Wants, TriesNext
    <3>3. lock'[l] = Pumped(Tail(lock[l]), w) /\ Tail(lock[l]) \in Seq(Ticket)
      BY <1>2, <1>0, <3>1, <3>2 DEF NotAdmitted
    <3> QED BY <3>2, <3>3, PumpedPumps
  <2> QED BY <2>2, <2>3, <2>4, SharedStays DEF Pumping
<1> QED BY <1>1, <1>2

LEMMA SharedIsolationEnds ==
  ASSUME Independent = {}, IInv, IInv', NoLostWakeup, NEW l \in Lanes, NEW ok, IsolationEnds(l, ok)
  PROVE  NoLostWakeup'
<1>1. PICK j : j = Head(lock[l]).by
  OBVIOUS
<1>2. lock[l] # << >> /\ Head(lock[l]).kind = "isolate" /\ LeaveLock(l)
      /\ Finalize(j, outcome[j], ok, Left(l))
  BY <1>1 DEF IsolationEnds, HeadIs
<1>3. j \in Jobs /\ Left(l) \in [Lanes -> Seq(Ticket)] /\ lock \in [Lanes -> Seq(Ticket)]
  BY <1>1, <1>2, HeadKnown, InvFacts, ConstantsFit DEF TicketFits, Jobs
<1>4. lock' = Left(l) => \A m \in Lanes : Pumping(lock[m]) => Pumping(lock'[m])
  BY <1>2, <1>3, LeftPumps
<1> QED BY <1>2, <1>3, <1>4, SharedFinalize
LEMMA SharedContinues ==
  ASSUME Independent = {}, IInv, IInv', NoLostWakeup, NEW l \in Lanes, Continue(l)
  PROVE  NoLostWakeup'
<1>0. lock \in [Lanes -> Seq(Ticket)]
  BY InvFacts
<1>1. CASE Admit(l) \/ NotAdmitted(l) BY <1>1, SharedAdmits
<1>2. CASE \E ok \in BOOLEAN : IsolationEnds(l, ok) BY <1>2, SharedIsolationEnds
<1>3. CASE IsolationEnters(l) \/ RecoverEnters(l) \/ RepairEnters(l) \/ RecoveryStepSucceeds(l)
  <2>1. UNCHANGED << laneVars, sourceVars, lock, jobVars, ownerVars >>
    BY <1>3 DEF IsolationEnters, RecoverEnters, RepairEnters, RecoveryStepSucceeds, MovesOn
  <2> QED BY <2>1, SharedQuiet DEF laneVars, sourceVars, jobVars, ownerVars
<1>4. CASE RecoveryStepFails(l)
  <2>1. CASE GivesUp(l)
    BY <1>4, <2>1, SharedGivesUp DEF RecoveryStepFails
  <2>2. CASE \E at : MovesOn(l, at)
    <3>1. UNCHANGED << laneVars, sourceVars, lock, jobVars, ownerVars >>
      BY <2>2 DEF MovesOn
    <3> QED BY <3>1, SharedQuiet DEF laneVars, sourceVars, jobVars, ownerVars
  <2> QED BY <1>4, <2>1, <2>2 DEF RecoveryStepFails
<1>5. CASE AcquireEnters(l)
  <2>1. lock[l] # << >> /\ Head(lock[l]).kind = "acquire" /\ AcquireLoop(l, FALSE)
    BY <1>5 DEF AcquireEnters, HeadIs
  <2> QED BY <2>1, SharedAcquires
<1>6. CASE AfterRecovery(l)
  <2>1. lock[l] # << >>
    BY <1>6 DEF AfterRecovery, InRecovery
  <2>2. CASE Head(lock[l]).kind = "acquire" /\ AcquireLoop(l, TRUE)
    BY <2>1, <2>2, SharedAcquires
  <2>3. CASE PumpAll(Left(l))
    BY <2>1, <2>3, HeadKnown, PumpAllWakes
  <2> QED BY <1>6, <2>2, <2>3 DEF AfterRecovery
<1>7. CASE \E ok \in BOOLEAN : RepairEnds(l, ok)
  <2>1. lock[l] # << >> /\ PumpAll(Left(l))
    BY <1>7 DEF RepairEnds, HeadIs
  <2> QED BY <2>1, HeadKnown, PumpAllWakes
<1>8. CASE Recovered(l)
  <2>1. CASE PumpAll(lock)
    BY <1>0, <2>1, PumpAllWakes
  <2>2. CASE UNCHANGED << running, sourceVars, lock >>
    <3>1. UNCHANGED << queued, paused, blocked, running, source, closed, disposed, recovering, state, lock >>
      BY <1>8, <2>2 DEF Recovered, sourceVars, ownerVars
    <3> QED BY <3>1, SharedQuiet
  <2> QED BY <1>8, <2>1, <2>2 DEF Recovered
<1> QED BY <1>1, <1>2, <1>3, <1>4, <1>5, <1>6, <1>7, <1>8 DEF Continue

LEMMA SharedCloses ==
  ASSUME Independent = {}, IInv, IInv', NoLostWakeup, NEW l \in Lanes, Close(l)
  PROVE  NoLostWakeup'
<1>0. /\ lock \in [Lanes -> Seq(Ticket)] /\ queued \in [Lanes -> Seq(Jobs)]
      /\ closed \in [Lanes -> BOOLEAN] /\ state \in [Executions -> States]
      /\ source \in [Lanes -> Shared \union Direct \union {None}]
  BY DEF IInv, TypeOK
<1>1. /\ closed' = [closed EXCEPT ![l] = TRUE] /\ queued' = [queued EXCEPT ![l] = << >>]
      /\ source' = [source EXCEPT ![l] = None]
      /\ state' = [x \in Executions |-> IF x \in {j \in Jobs : InSeq(j, queued[l])} THEN "done" ELSE state[x]]
      /\ UNCHANGED << running, paused, recovering, blocked, disposed >>
      /\ lock' = [m \in Lanes |-> IF m = l THEN lock[m] ELSE Pumped(lock[m], Wanted(m, Lanes \ {l}))]
  BY DEF Close
<1>2. ASSUME NEW m \in Lanes, m # l, Wants(m)' PROVE Pumping(lock'[m])
  <2>1. PICK w : w = Wanted(m, Lanes \ {l})
    OBVIOUS
  <2>2. queued'[m] = queued[m] /\ queued[m] # << >> /\ Head(queued[m]) \in Executions
    BY <1>0, <1>1, <1>2, InvFacts, ConstantsFit DEF Wants
  <2>3. state[Head(queued[m])] = "ready"
    BY <1>1, <1>2, <2>2 DEF Wants
  <2>4. source'[m] = source[m] /\ closed'[m] = closed[m]
    BY <1>0, <1>1, <1>2
  <2>5. Wants(m)
    BY <1>1, <1>2, <2>2, <2>3, <2>4 DEF Wants, Registered
  <2>6. w # None
    BY <2>1, <2>5, WantedShared
  <2>7. lock'[m] = Pumped(lock[m], w)
    BY <1>1, <1>2, <2>1
  <2> QED BY <1>0, <2>6, <2>7, PumpedPumps
<1>3. ~Wants(l)'
  BY <1>0, <1>1 DEF Wants
<1> QED BY <1>2, <1>3, SharedStays
LEMMA SharedEnvironment ==
  ASSUME Independent = {}, IInv, IInv', NoLostWakeup, NEW l \in Lanes,
         Environment(l) \/ Answer(l) \/ RepairChosen(l) \/ RepairAbandoned(l)
  PROVE  NoLostWakeup'
<1>0. lock \in [Lanes -> Seq(Ticket)]
  BY InvFacts
<1>1. CASE (\E b \in BOOLEAN : SetPaused(l, b)) \/ ClearQueued(l) \/ RepairAbandoned(l)
  <2>1. PumpAll(lock)
    BY <1>1 DEF SetPaused, ClearQueued, RepairAbandoned
  <2> QED BY <1>0, <2>1, PumpAllWakes
<1>2. CASE RecoverBlockedSession(l)
  <2>1. /\ UNCHANGED << queued, running, paused, blocked, sourceVars, lock, jobVars, ownerVars >>
        /\ recovering' = [recovering EXCEPT ![l] = TRUE]
    BY <1>2 DEF RecoverBlockedSession
  <2>2. \A m \in Lanes : recovering'[m] = recovering[m] \/ recovering'[m]
    BY <2>1 DEF IInv, TypeOK
  <2> QED BY <2>1, <2>2, SharedQuiet DEF sourceVars, jobVars, ownerVars
<1>3. CASE Close(l) BY <1>3, SharedCloses
<1>4. CASE Answer(l)
  <2>1. CASE GivesUp(l)
    BY <1>4, <2>1, SharedGivesUp DEF Answer
  <2>2. CASE \E at : MovesOn(l, at)
    <3>1. UNCHANGED << laneVars, sourceVars, lock, jobVars, ownerVars >>
      BY <2>2 DEF MovesOn
    <3> QED BY <3>1, SharedQuiet DEF laneVars, sourceVars, jobVars, ownerVars
  <2> QED BY <1>4, <2>1, <2>2 DEF Answer
<1>5. CASE RepairChosen(l)
  <2>1. /\ UNCHANGED << laneVars, sourceVars, jobVars, ownerVars >>
        /\ lock' = Joined(l, "repair", blocked[l])
    BY <1>5 DEF RepairChosen
  <2>2. \A m \in Lanes : Pumping(lock[m]) => Pumping(lock'[m])
    BY <1>0, <2>1, JoinedPumps
  <2> QED BY <2>1, <2>2, SharedQuiet DEF laneVars, sourceVars, jobVars, ownerVars
<1> QED BY <1>1, <1>2, <1>3, <1>4, <1>5 DEF Environment

LEMMA SharedEnqueue ==
  ASSUME Independent = {}, IInv, IInv', NoLostWakeup, NEW j \in Jobs, Enqueue(j)
  PROVE  NoLostWakeup'
<1>0. /\ state \in [Executions -> States] /\ queued \in [Lanes -> Seq(Jobs)]
      /\ j \in Executions /\ LaneOf[j] \in Lanes
      /\ \A m \in Lanes : queued[m] # << >> => Head(queued[m]) \in Executions
  BY InvFacts, ConstantsFit
<1>1. /\ UNCHANGED << running, paused, recovering, blocked, sourceVars, lock, ownerVars >>
      /\ queued' = queued \/ queued' = [queued EXCEPT ![LaneOf[j]] = Append(@, j)]
      /\ state' = [state EXCEPT ![j] = "preparing"] \/ state' = [state EXCEPT ![j] = "done"]
  BY DEF Enqueue
<1>2. \A x \in Executions : state'[x] = "ready" => state[x] = "ready" /\ x # j
  BY <1>0, <1>1
<1>3. ASSUME NEW m \in Lanes, Wants(m)' PROVE Wants(m)
  <2>1. queued[m] \in Seq(Jobs) /\ (queued'[m] = queued[m] \/ queued'[m] = Append(queued[m], j))
    BY <1>0, <1>1
  <2>2. CASE queued[m] = << >>
    <3>1. queued'[m] # << >> /\ state'[Head(queued'[m])] = "ready"
      BY <1>3 DEF Wants
    <3>2. Head(queued'[m]) = j
      BY <2>1, <2>2, <3>1
    <3> QED BY <1>0, <1>2, <3>1, <3>2
  <2>3. CASE queued[m] # << >>
    <3>1. Head(queued'[m]) = Head(queued[m])
      BY <2>1, <2>3
    <3> QED BY <1>0, <1>1, <1>2, <1>3, <2>3, <3>1 DEF Wants, Registered, sourceVars, ownerVars
  <2> QED BY <2>2, <2>3
<1> QED BY <1>1, <1>3, SharedStays

LEMMA SharedRequests ==
  ASSUME Independent = {}, IInv, IInv', NoLostWakeup, NEW x \in Executions, Request(x)
  PROVE  NoLostWakeup'
<1>0. lock \in [Lanes -> Seq(Ticket)] /\ state \in [Executions -> States] /\ LaneOf[x] \in Lanes
  BY InvFacts, ConstantsFit
<1>1. CASE x \in Jobs /\ Enqueue(x) BY <1>1, SharedEnqueue
<1>2. CASE Preparation(x) \/ RemoveQueued(x)
  <2>1. PumpAll(lock)
    BY <1>2 DEF Preparation, Prepared, PreparationFails, RemoveQueued
  <2> QED BY <1>0, <2>1, PumpAllWakes
<1>3. CASE x \in Direct /\ TryAcquire(x)
  <2>1. /\ UNCHANGED << laneVars, sourceVars, ownerVars >>
        /\ state' = [state EXCEPT ![x] = "waiting"] /\ lock' = Joined(LaneOf[x], "acquire", x)
    BY <1>3 DEF TryAcquire
  <2>2. \A m \in Lanes : Pumping(lock[m]) => Pumping(lock'[m])
    BY <1>0, <2>1, JoinedPumps
  <2>3. \A y \in Jobs : state'[y] = "ready" => state[y] = "ready"
    BY <1>0, <2>1, ConstantsFit
  <2> QED BY <2>1, <2>2, <2>3, SharedQuiet DEF laneVars, sourceVars, ownerVars
<1>4. CASE CancelRunning(x)
  <2>1. UNCHANGED << laneVars, sourceVars, lock, jobVars, ownerVars >>
    BY <1>4 DEF CancelRunning
  <2> QED BY <2>1, SharedQuiet DEF laneVars, sourceVars, jobVars, ownerVars
<1>5. CASE RecoverRunning(x)
  <2>1. /\ UNCHANGED << queued, running, paused, blocked, sourceVars, jobVars, ownerVars >>
        /\ recovering' = [recovering EXCEPT ![LaneOf[x]] = TRUE]
        /\ lock' = Joined(LaneOf[x], "recover", x)
    BY <1>5 DEF RecoverRunning
  <2>2. \A m \in Lanes : recovering'[m] = recovering[m] \/ recovering'[m]
    BY <2>1 DEF IInv, TypeOK
  <2>3. \A m \in Lanes : Pumping(lock[m]) => Pumping(lock'[m])
    BY <1>0, <2>1, JoinedPumps
  <2> QED BY <2>1, <2>2, <2>3, SharedQuiet DEF sourceVars, jobVars, ownerVars
<1>6. CASE Settlement(x) BY <1>6, SharedSettles
<1> QED BY <1>1, <1>2, <1>3, <1>4, <1>5, <1>6 DEF Request

LEMMA SharedNext ==
  ASSUME Independent = {}, IInv, IInv', NoLostWakeup, [Next]_vars
  PROVE  NoLostWakeup'
<1>0. lock \in [Lanes -> Seq(Ticket)]
  BY InvFacts
<1>1. CASE \E l \in Lanes : Continue(l) BY <1>1, SharedContinues
<1>2. CASE \E l \in Lanes : Environment(l) \/ Answer(l) \/ RepairChosen(l) \/ RepairAbandoned(l)
  BY <1>2, SharedEnvironment
<1>3. CASE \E x \in Executions : Request(x) BY <1>3, SharedRequests
<1>4. CASE \E p \in Limits : ConfigureParallelLimits(p)
  <2>1. PumpAll(lock)
    BY <1>4 DEF ConfigureParallelLimits
  <2> QED BY <1>0, <2>1, PumpAllWakes
<1>5. CASE Dispose
  <2>1. disposed'
    BY <1>5 DEF Dispose
  <2>2. \A m \in Lanes : ~Wants(m)'
    BY <2>1 DEF Wants, Registered
  <2> QED BY <2>2, SharedStays
<1>6. CASE UNCHANGED vars
  <2>1. UNCHANGED << laneVars, sourceVars, lock, jobVars, ownerVars >>
    BY <1>6 DEF vars
  <2> QED BY <2>1, SharedQuiet DEF laneVars, sourceVars, jobVars, ownerVars
<1> QED BY <1>1, <1>2, <1>3, <1>4, <1>5, <1>6 DEF Next

(* Lanes of requests that own a connection: nothing holds the session, and *)
(* nothing but admissions uses the lock.                                   *)
PumpsOnly(c) == \A l \in Lanes : \A i \in DOMAIN c[l] : c[l][i].kind = "pump"
Calm == PumpsOnly(lock) /\ \A l \in Lanes : ~recovering[l]

LEMMA PumpedOnly ==
  ASSUME NEW c \in Seq(Ticket), \A i \in DOMAIN c : c[i].kind = "pump", NEW j
  PROVE  \A i \in DOMAIN Pumped(c, j) : Pumped(c, j)[i].kind = "pump"
<1> DEFINE t == TicketOf("pump", j)
           d == Append(c, t)
<1>1. t.kind = "pump"
  BY DEF TicketOf
<1> HIDE DEF t
<1>2. \A i \in DOMAIN d : d[i] = t \/ (i \in DOMAIN c /\ d[i] = c[i])
  OBVIOUS
<1>3. Pumped(c, j) = c \/ Pumped(c, j) = d
  BY DEF Pumped, t
<1> HIDE DEF d
<1> QED BY <1>1, <1>2, <1>3

LEMMA PumpAllOnly ==
  ASSUME NEW c \in [Lanes -> Seq(Ticket)], PumpsOnly(c), PumpAll(c)
  PROVE  PumpsOnly(lock')
<1>1. ASSUME NEW l \in Lanes PROVE \A i \in DOMAIN lock'[l] : lock'[l][i].kind = "pump"
  <2>1. PICK j : j = Wanted(l, Lanes)'
    OBVIOUS
  <2>2. lock'[l] = Pumped(c[l], j)
    BY <2>1 DEF PumpAll
  <2>3. \A i \in DOMAIN c[l] : c[l][i].kind = "pump"
    BY DEF PumpsOnly
  <2> QED BY <2>2, <2>3, PumpedOnly
<1> QED BY <1>1 DEF PumpsOnly

LEMMA LeftOnly ==
  ASSUME lock \in [Lanes -> Seq(Ticket)], PumpsOnly(lock), NEW l \in Lanes, lock[l] # << >>
  PROVE  PumpsOnly(Left(l)) /\ \A i \in DOMAIN Tail(lock[l]) : Tail(lock[l])[i].kind = "pump"
<1>1. \A i \in DOMAIN Tail(lock[l]) : i + 1 \in DOMAIN lock[l] /\ Tail(lock[l])[i] = lock[l][i + 1]
  <2>1. lock[l] \in Seq(Ticket)
    OBVIOUS
  <2> QED BY <2>1
<1>2. Left(l)[l] = Tail(lock[l]) /\ \A m \in Lanes : m # l => Left(l)[m] = lock[m]
  BY DEF Left
<1>3. \A i \in DOMAIN Tail(lock[l]) : Tail(lock[l])[i].kind = "pump"
  BY <1>1 DEF PumpsOnly
<1> QED BY <1>2, <1>3 DEF PumpsOnly

(* The request that may start in lane l, were no older one eligible.       *)
Offered(l) ==
  IF /\ Registered(l) /\ queued[l] # << >> /\ ~paused[l] /\ ~recovering[l]
     /\ state[Head(queued[l])] = "ready" /\ SlotFree(l)
  THEN Head(queued[l]) ELSE None
Oldest(l) ==
  /\ Offered(l) # None
  /\ \A m \in Lanes : Offered(m) # None => ~(sequence[Offered(m)] < sequence[Offered(l)])

LEMMA WantedIndependent ==
  ASSUME Shared = {}, IInv, NEW l \in Lanes
  PROVE  Wanted(l, Lanes) # None <=> Oldest(l)
<1>1. \A m \in Lanes : blocked[m] = None
  BY InvFacts
<1>2. \A m \in Lanes : queued[m] # << >> => Head(queued[m]) \in Independent /\ Head(queued[m]) # None
  BY InvFacts, ConstantsFit DEF Jobs
<1>3. \A m \in Lanes : NextEligible(m) = IF queued[m] = << >> THEN None ELSE Head(queued[m])
  BY <1>1 DEF NextEligible
<1>4. \A m \in Lanes : Offered(m) # None <=> Registered(m) /\ NextEligible(m) # None /\ CanAdmit(m, NextEligible(m))
  BY <1>2, <1>3 DEF Offered, CanAdmit
<1>5. \A m \in Lanes : Offered(m) # None => Offered(m) = NextEligible(m) /\ Offered(m) \in Independent
  BY <1>2, <1>3 DEF Offered
<1>6. None \notin Independent
  BY ConstantsFit
<1>7. \A j : OlderEligible(j, Lanes) <=> \E m \in Lanes : Offered(m) # None /\ sequence[Offered(m)] < sequence[j]
  BY <1>4, <1>5, <1>6 DEF OlderEligible
<1> QED BY <1>4, <1>5, <1>7 DEF Wanted, Oldest
LEMMA WantedIndependentAfter ==
  ASSUME Shared = {}, IInv', NEW l \in Lanes
  PROVE  Wanted(l, Lanes)' # None <=> Oldest(l)'
<1>0. queued' \in [Lanes -> Seq(Jobs)] /\ blocked' \in [Lanes -> Shared \union {None}]
  BY DEF IInv, TypeOK
<1>1. \A m \in Lanes : blocked'[m] = None
  BY <1>0
<1>2. \A m \in Lanes : queued'[m] # << >> => Head(queued'[m]) \in Independent /\ Head(queued'[m]) # None
  BY <1>0, ConstantsFit DEF Jobs
<1>3. \A m \in Lanes : NextEligible(m)' = IF queued'[m] = << >> THEN None ELSE Head(queued'[m])
  BY <1>1 DEF NextEligible
<1>4. \A m \in Lanes : Offered(m)' # None <=> /\ Registered(m)' /\ NextEligible(m)' # None
                                              /\ CanAdmit(m, NextEligible(m))'
  BY <1>2, <1>3 DEF Offered, CanAdmit
<1>5. \A m \in Lanes : Offered(m)' # None => Offered(m)' = NextEligible(m)' /\ Offered(m)' \in Independent
  BY <1>2, <1>3 DEF Offered
<1>6. None \notin Independent
  BY ConstantsFit
<1>7. OlderEligible(NextEligible(l), Lanes)'
        <=> \E m \in Lanes : Offered(m)' # None /\ sequence'[Offered(m)'] < sequence'[NextEligible(l)']
  BY <1>4, <1>5, <1>6 DEF OlderEligible
<1> QED BY <1>4, <1>5, <1>7 DEF Wanted, Oldest

(* A step that leaves what the lanes offer as it was, and every chain that *)
(* pumps pumping.                                                          *)
LEMMA IndependentStays ==
  ASSUME Shared = {}, IInv, IInv', NoLostWakeup,
         \A m \in Lanes : /\ Offered(m)' = Offered(m)
                          /\ Offered(m) # None => sequence'[Offered(m)] = sequence[Offered(m)],
         \A m \in Lanes : Wanted(m, Lanes) # None /\ Pumping(lock[m]) => Pumping(lock'[m])
  PROVE  NoLostWakeup'
<1>1. ASSUME NEW m \in Lanes, Wanted(m, Lanes)' # None PROVE Pumping(lock'[m])
  <2>1. Oldest(m)'
    BY <1>1, WantedIndependentAfter
  <2>2. Oldest(m)
    BY <2>1 DEF Oldest
  <2>3. Wanted(m, Lanes) # None
    BY <2>2, WantedIndependent
  <2> QED BY <2>3 DEF NoLostWakeup
<1> QED BY <1>1 DEF NoLostWakeup, Pumping

LEMMA IndependentQuiet ==
  ASSUME Shared = {}, IInv, IInv', NoLostWakeup, UNCHANGED << laneVars, sequence, ownerVars >>,
         \A m \in Lanes : queued[m] # << >> =>
           (state'[Head(queued[m])] = "ready" <=> state[Head(queued[m])] = "ready"),
         \A m \in Lanes : Wanted(m, Lanes) # None /\ Pumping(lock[m]) => Pumping(lock'[m])
  PROVE  NoLostWakeup'
<1> USE DEF laneVars, ownerVars
<1>1. ActiveIndependent' = ActiveIndependent
  BY DEF ActiveIndependent, Registered
<1>2. \A m \in Lanes : SlotFree(m)' = SlotFree(m)
  BY <1>1 DEF SlotFree
<1>3. \A m \in Lanes : Offered(m)' = Offered(m)
  BY <1>2 DEF Offered, Registered
<1>4. sequence' = sequence
  OBVIOUS
<1> QED BY <1>3, <1>4, IndependentStays

LEMMA IndependentEnqueue ==
  ASSUME Shared = {}, IInv, IInv', NoLostWakeup, NEW j \in Jobs, Enqueue(j)
  PROVE  NoLostWakeup'
<1>0. /\ state \in [Executions -> States] /\ queued \in [Lanes -> Seq(Jobs)]
      /\ j \in Executions /\ LaneOf[j] \in Lanes /\ sequence \in [Jobs -> Nat]
      /\ \A m \in Lanes : queued[m] # << >> => Head(queued[m]) \in Jobs /\ Head(queued[m]) \in Executions
  BY InvFacts, ConstantsFit DEF IInv, TypeOK
<1>1. /\ state[j] = "new"
      /\ UNCHANGED << running, independent, paused, recovering, blocked, sourceVars, lock, ownerVars >>
      /\ queued' = queued \/ queued' = [queued EXCEPT ![LaneOf[j]] = Append(@, j)]
      /\ state' = [state EXCEPT ![j] = "preparing"] \/ state' = [state EXCEPT ![j] = "done"]
      /\ \A x \in Jobs : x # j => sequence'[x] = sequence[x]
  BY <1>0 DEF Enqueue
<1>2. \A m \in Lanes : SlotFree(m)' = SlotFree(m) /\ Registered(m)' = Registered(m)
  BY <1>1 DEF SlotFree, ActiveIndependent, Registered, ownerVars
<1>3. ASSUME NEW m \in Lanes
      PROVE  /\ Offered(m)' = Offered(m)
             /\ Offered(m) # None => sequence'[Offered(m)] = sequence[Offered(m)]
  <2>1. queued[m] \in Seq(Jobs) /\ (queued'[m] = queued[m] \/ queued'[m] = Append(queued[m], j))
    BY <1>0, <1>1
  <2>2. CASE queued[m] = << >>
    <3>1. CASE queued'[m] = << >>
      BY <2>2, <3>1 DEF Offered
    <3>2. CASE queued'[m] # << >>
      <4>1. Head(queued'[m]) = j /\ state'[j] # "ready"
        BY <1>0, <1>1, <2>1, <2>2, <3>2
      <4> QED BY <2>2, <4>1 DEF Offered
    <3> QED BY <3>1, <3>2
  <2>3. CASE queued[m] # << >>
    <3>1. Head(queued'[m]) = Head(queued[m]) /\ queued'[m] # << >>
      BY <2>1, <2>3
    <3>2. state'[Head(queued[m])] = "ready" <=> state[Head(queued[m])] = "ready"
      BY <1>0, <1>1, <2>3
    <3>3. Offered(m)' = Offered(m)
      BY <1>1, <1>2, <2>3, <3>1, <3>2 DEF Offered
    <3>4. Offered(m) # None => Offered(m) \in Jobs /\ Offered(m) # j
      BY <1>0, <1>1, <2>3 DEF Offered
    <3> QED BY <1>1, <3>3, <3>4
  <2> QED BY <2>2, <2>3
<1> QED BY <1>1, <1>3, IndependentStays DEF Pumping
LEMMA CalmPumps ==
  ASSUME IInv, Calm, NEW c \in [Lanes -> Seq(Ticket)], PumpsOnly(c), PumpAll(c),
         UNCHANGED recovering
  PROVE  Calm' /\ NoLostWakeup'
<1>1. PumpsOnly(lock') BY PumpAllOnly
<1>2. NoLostWakeup' BY PumpAllWakes
<1> QED BY <1>1, <1>2 DEF Calm, PumpsOnly

LEMMA CalmQuiet ==
  ASSUME Shared = {}, IInv, IInv', Calm, NoLostWakeup,
         UNCHANGED << laneVars, sequence, ownerVars, lock >>,
         \A m \in Lanes : queued[m] # << >> =>
           (state'[Head(queued[m])] = "ready" <=> state[Head(queued[m])] = "ready")
  PROVE  Calm' /\ NoLostWakeup'
<1>1. Calm'
  BY DEF Calm, PumpsOnly, laneVars
<1>2. NoLostWakeup'
  BY IndependentQuiet DEF Pumping
<1> QED BY <1>1, <1>2

LEMMA CalmContinues ==
  ASSUME Shared = {}, Direct = {}, IInv, IInv', Calm, NoLostWakeup, NEW l \in Lanes, Continue(l)
  PROVE  Calm' /\ NoLostWakeup'
<1>0. lock \in [Lanes -> Seq(Ticket)] /\ PumpsOnly(lock) /\ source[l] = None
  BY InvFacts DEF Calm
<1>1. lock[l] # << >> => Head(lock[l]).kind = "pump"
  <2>1. lock[l] # << >> => Head(lock[l]) = lock[l][1] /\ 1 \in DOMAIN lock[l]
    BY <1>0
  <2> QED BY <1>0, <2>1 DEF PumpsOnly
<1>2. Admit(l) \/ NotAdmitted(l)
  BY <1>1 DEF Continue, IsolationEnters, IsolationEnds, AcquireEnters, RecoverEnters, AfterRecovery,
              RepairEnters, RepairEnds, RecoveryStepFails, RecoveryStepSucceeds, Recovered,
              InRecovery, HeadIs
<1>3. lock[l] # << >> /\ Left(l) \in [Lanes -> Seq(Ticket)] /\ PumpsOnly(Left(l))
  BY <1>0, <1>2, HeadKnown, LeftOnly DEF Admit, NotAdmitted, HeadIs
<1>4. CASE Admit(l)
  <2>1. PICK j : j = Head(lock[l]).by
    OBVIOUS
  <2>2. StillWanted(l, j) /\ UNCHANGED recovering /\ (j \in Independent => PumpAll(Left(l)))
    BY <1>4, <2>1 DEF Admit
  <2>3. j \in Independent
    BY <2>1, <2>2, <1>3, QueuedIsJob, NextEligibleQueued, ConstantsFit, InvFacts, HeadKnown DEF StillWanted
  <2> QED BY <1>3, <2>2, <2>3, CalmPumps
<1>5. CASE NotAdmitted(l)
  <2>1. PICK w : w = Wanted(l, Lanes)
    OBVIOUS
  <2>2. /\ UNCHANGED << laneVars, jobVars, ownerVars >> /\ lock'[l] = Pumped(Tail(lock[l]), w)
        /\ \A m \in Lanes : m # l => lock'[m] = lock[m]
    BY <1>0, <1>5, <2>1 DEF NotAdmitted, TriesNext
  <2>3. Tail(lock[l]) \in Seq(Ticket) /\ \A i \in DOMAIN Tail(lock[l]) : Tail(lock[l])[i].kind = "pump"
    BY <1>0, <1>3, LeftOnly
  <2>4. Calm'
    <3>1. \A i \in DOMAIN lock'[l] : lock'[l][i].kind = "pump"
      <4>1. PICK c : c = Tail(lock[l])
        OBVIOUS
      <4>2. c \in Seq(Ticket) /\ (\A i \in DOMAIN c : c[i].kind = "pump") /\ lock'[l] = Pumped(c, w)
        BY <2>2, <2>3, <4>1
      <4> QED BY <4>2, PumpedOnly
    <3> QED BY <2>2, <3>1 DEF Calm, PumpsOnly, laneVars
  <2>5. Wanted(l, Lanes) # None => Pumping(lock'[l])
    BY <2>1, <2>2, <2>3, PumpedPumps
  <2>6. \A m \in Lanes : Wanted(m, Lanes) # None /\ Pumping(lock[m]) => Pumping(lock'[m])
    BY <2>2, <2>5
  <2>7. NoLostWakeup'
    BY <2>2, <2>6, IndependentQuiet DEF jobVars
  <2> QED BY <2>4, <2>7
<1> QED BY <1>2, <1>4, <1>5

LEMMA CalmSettles ==
  ASSUME Shared = {}, Direct = {}, IInv, IInv', Calm, NoLostWakeup, NEW x \in Executions, Settlement(x)
  PROVE  Calm' /\ NoLostWakeup'
<1>0. /\ lock \in [Lanes -> Seq(Ticket)] /\ PumpsOnly(lock) /\ state \in [Executions -> States]
      /\ \A m \in Lanes : queued[m] # << >> =>
           Head(queued[m]) \in Executions /\ state[Head(queued[m])] # "running"
  <2>1. \A m \in Lanes : queued[m] # << >> => Head(queued[m]) \in Jobs /\ state[Head(queued[m])] # "running"
    <3>1. \A m \in Lanes : queued[m] # << >> => 1 \in DOMAIN queued[m] /\ Head(queued[m]) = queued[m][1]
      BY InvFacts
    <3> QED BY SMTT(30), <3>1, InvFacts DEF IInv, NotStarted
  <2> QED BY <2>1, InvFacts, ConstantsFit DEF Calm
<1>1. PICK o \in Outcomes, required \in BOOLEAN, verified \in BOOLEAN : RunSettles(x, o, required, verified)
  BY DEF Settlement, DirectSettles
<1>2. state[x] = "running" /\ Finalize(x, o, FALSE, lock)
  BY <1>1 DEF RunSettles, NeedsIsolation
<1>3. CASE PumpAll(lock) /\ UNCHANGED recovering
  BY <1>0, <1>3, CalmPumps
<1>4. CASE UNCHANGED << laneVars, sequence, ownerVars, lock >>
  <2>1. state' = [state EXCEPT ![x] = "done"]
    BY <1>2 DEF Finalize
  <2>2. \A m \in Lanes : queued[m] # << >> =>
           (state'[Head(queued[m])] = "ready" <=> state[Head(queued[m])] = "ready")
    BY <1>0, <1>2, <2>1
  <2> QED BY <1>4, <2>2, CalmQuiet
<1> QED BY <1>2, <1>3, <1>4 DEF Finalize

LEMMA CalmNext ==
  ASSUME Shared = {}, Direct = {}, Operations \intersect {"recover", "close"} = {},
         IInv, IInv', Calm, NoLostWakeup, [Next]_vars
  PROVE  Calm' /\ NoLostWakeup'
<1>0. lock \in [Lanes -> Seq(Ticket)] /\ PumpsOnly(lock) /\ "recover" \notin Operations /\ "close" \notin Operations
  BY InvFacts DEF Calm
<1>1. \A l \in Lanes : ~Answer(l) /\ ~RepairPrompted(l)
  <2>1. ASSUME NEW l \in Lanes, lock[l] # << >> PROVE Head(lock[l]).kind = "pump"
    <3>1. Head(lock[l]) = lock[l][1] /\ 1 \in DOMAIN lock[l]
      BY <1>0, <2>1
    <3> QED BY <1>0, <3>1 DEF PumpsOnly
  <2> QED BY <2>1 DEF Answer, InRecovery, RepairPrompted, Calm
<1>2. CASE \E l \in Lanes : Continue(l) BY <1>2, CalmContinues
<1>3. CASE PumpAll(lock) /\ UNCHANGED recovering BY <1>0, <1>3, CalmPumps
<1>4. CASE UNCHANGED << laneVars, sequence, ownerVars, lock, state >> BY <1>4, CalmQuiet
<1>5. CASE \E x \in Executions : Settlement(x) BY <1>5, CalmSettles
<1>6. CASE \E j \in Jobs : Enqueue(j)
  <2>1. UNCHANGED << lock, recovering >>
    BY <1>6 DEF Enqueue
  <2>2. Calm'
    BY <2>1 DEF Calm, PumpsOnly
  <2>3. NoLostWakeup'
    BY <1>6, IndependentEnqueue
  <2> QED BY <2>2, <2>3
<1>7. CASE Dispose
  <2>1. disposed' /\ UNCHANGED << lock, recovering >>
    BY <1>7 DEF Dispose
  <2>2. \A m \in Lanes : Wanted(m, Lanes)' = None
    BY <2>1 DEF Wanted, Registered
  <2> QED BY <2>1, <2>2 DEF Calm, PumpsOnly, NoLostWakeup
<1>8. CASE \E l \in Lanes : Environment(l)
  BY <1>0, <1>3, <1>8 DEF Environment, SetPaused, ClearQueued, Unqueue
<1>9. CASE \E x \in Executions : Request(x)
  <2>1. PICK x \in Executions : Request(x)
    BY <1>9
  <2>2. CASE Preparation(x) \/ RemoveQueued(x)
    BY <1>3, <2>2 DEF Preparation, Prepared, PreparationFails, RemoveQueued, Unqueue, laneVars
  <2>3. CASE CancelRunning(x)
    BY <1>4, <2>3 DEF CancelRunning, jobVars
  <2> QED BY <1>0, <1>5, <1>6, <2>1, <2>2, <2>3 DEF Request
<1>10. CASE \E p \in Limits : ConfigureParallelLimits(p)
  BY <1>3, <1>10 DEF ConfigureParallelLimits, laneVars
<1>11. CASE UNCHANGED vars
  BY <1>4, <1>11 DEF vars, jobVars
<1> QED BY <1>1, <1>2, <1>7, <1>8, <1>9, <1>10, <1>11 DEF Next, RepairChosen, RepairAbandoned

(* Between the end of one request and the admission of the next there are  *)
(* awaits during which the user pauses, clears and recovers; still no      *)
(* lane sleeps while its next request could start, provided that either no *)
(* request has a connection of its own, or all have and no document is     *)
(* closed or recovered.  Without the provision the model checker finds     *)
(* lanes that sleep.                                                       *)
THEOREM WakeUpsKept ==
  ASSUME \/ Independent = {}
         \/ Shared = {} /\ Direct = {} /\ Operations \intersect {"recover", "close"} = {}
  PROVE  Spec => []NoLostWakeup
<1>1. Init => NoLostWakeup /\ Calm
  BY DEF Init, NoLostWakeup, Wanted, NextEligible, FirstIndependent, Calm, PumpsOnly
<1>2. CASE Independent = {}
  <2>1. IInv /\ IInv' /\ NoLostWakeup /\ [Next]_vars => NoLostWakeup'
    BY <1>2, SharedNext
  <2> QED BY <1>1, <2>1, Invariance, PTL DEF Spec
<1>3. CASE Shared = {} /\ Direct = {} /\ Operations \intersect {"recover", "close"} = {}
  <2>1. IInv /\ IInv' /\ Calm /\ NoLostWakeup /\ [Next]_vars => Calm' /\ NoLostWakeup'
    BY <1>3, CalmNext
  <2> QED BY <1>1, <2>1, Invariance, PTL DEF Spec
<1> QED BY <1>2, <1>3
================================================================================
