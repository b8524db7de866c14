--------------------------- MODULE ArbiterProofs ---------------------------
(***************************************************************************)
(* Safety of the arbiter for every number of masters, every window and     *)
(* every latency of the lower bus.                                         *)
(***************************************************************************)
EXTENDS Arbiter, TLAPS, FiniteSetTheorems, NaturalsInduction

-----------------------------------------------------------------------------
(* Parts of a queue. *)

(* h takes the positions of u to positions of q, in order, and u holds     *)
(* what q holds there.                                                     *)
Picks(h, u, q, S) ==
  /\ h \in [DOMAIN u -> S]
  /\ \A a, b \in DOMAIN u : a < b => h[a] < h[b]
  /\ \A i \in S : \E a \in DOMAIN u : h[a] = i
  /\ \A a \in DOMAIN u : u[a] = q[h[a]]

(* The positions of a set are numbered in order: At takes each of them     *)
(* once and keeps their order.                                             *)
LEMMA AtPicks ==
  ASSUME NEW T, NEW q \in Seq(T), NEW S \in SUBSET DOMAIN q
  PROVE  /\ At(q, S) \in Seq(T)
         /\ IsFiniteSet(S)
         /\ \E h : Picks(h, At(q, S), q, S)
PROOF
<1> DEFINE Upto(i) == {j \in S : j <= i}
           R(i) == Cardinality(Upto(i))
           c == Cardinality(S)
<1>1. Len(q) \in Nat /\ DOMAIN q = 1 .. Len(q) /\ S \subseteq Nat
  OBVIOUS
<1>2. IsFiniteSet(S) /\ c \in Nat
  <2>1. IsFiniteSet(1 .. Len(q))
    BY <1>1, FS_Interval
  <2>2. IsFiniteSet(S)
    BY <1>1, <2>1, FS_Subset
  <2> QED BY <2>2, FS_CardinalityType
<1>3. ASSUME NEW i \in S
      PROVE  IsFiniteSet(Upto(i)) /\ R(i) \in Nat /\ R(i) \in 1 .. c
  <2>1. Upto(i) \in SUBSET S /\ i \in Upto(i)
    BY <1>1
  <2>2. IsFiniteSet(Upto(i)) /\ R(i) <= c
    BY <1>2, <2>1, FS_Subset
  <2>3. R(i) \in Nat
    BY <2>2, FS_CardinalityType
  <2>4. R(i) # 0
    BY <2>1, <2>2, FS_EmptySet
  <2> HIDE DEF R, c
  <2> QED BY <1>2, <2>2, <2>3, <2>4
<1>4. ASSUME NEW i \in S, NEW k \in S, i < k
      PROVE  R(i) < R(k)
  <2>1. Upto(i) \in SUBSET Upto(k) /\ k \in Upto(k) /\ k \notin Upto(i)
    BY <1>1, <1>4
  <2>2. R(i) <= R(k) /\ R(k) # R(i)
    BY <1>3, <2>1, FS_Subset
  <2>3. R(i) \in Nat /\ R(k) \in Nat
    BY <1>3
  <2> HIDE DEF R
  <2> QED BY <2>2, <2>3
<1> HIDE DEF R
<1> DEFINE rank == [i \in S |-> R(i)]
<1>5. rank \in Surjection(S, 1 .. c)
  <2>1. rank \in Injection(S, 1 .. c)
    <3>1. rank \in [S -> 1 .. c]
      BY <1>3
    <3>2. \A i, k \in S : rank[i] = rank[k] => i = k
      <4> SUFFICES ASSUME NEW i \in S, NEW k \in S, i # k PROVE rank[i] # rank[k]
        OBVIOUS
      <4>1. i < k \/ k < i
        BY <1>1
      <4>2. R(i) \in Nat /\ R(k) \in Nat
        BY <1>3
      <4> QED BY <1>4, <4>1, <4>2
    <3> QED BY <3>1, <3>2 DEF Injection, IsInjective
  <2>2. IsFiniteSet(1 .. c) /\ Cardinality(1 .. c) = c
    BY <1>2, FS_Interval
  <2> HIDE DEF rank
  <2> QED BY <2>1, <2>2, FS_Injection
<1>6. \A a \in 1 .. c : \E i \in S : R(i) = a
  BY <1>5 DEF Surjection
<1> DEFINE h == [a \in 1 .. c |-> CHOOSE i \in S : R(i) = a]
<1>7. \A a \in 1 .. c : h[a] \in S /\ R(h[a]) = a
  BY <1>6
<1>8. At(q, S) = [a \in 1 .. c |-> q[h[a]]]
  BY DEF At, R
<1> HIDE DEF h
<1>9. At(q, S) \in Seq(T) /\ DOMAIN At(q, S) = 1 .. c
  <2>1. \A a \in 1 .. c : q[h[a]] \in T
    BY <1>1, <1>7
  <2> QED BY <1>2, <1>8, <2>1
<1>10. ASSUME NEW a \in 1 .. c, NEW b \in 1 .. c, a < b PROVE h[a] < h[b]
  <2> SUFFICES ASSUME ~(h[a] < h[b]) PROVE FALSE
    OBVIOUS
  <2>1. h[a] \in S /\ h[b] \in S /\ R(h[a]) = a /\ R(h[b]) = b
    BY <1>7
  <2>2. h[b] < h[a] \/ h[a] = h[b]
    BY <1>1, <2>1
  <2>3. CASE h[b] < h[a]
    <3>1. b < a
      BY <1>4, <2>1, <2>3
    <3> QED BY <1>2, <1>10, <3>1
  <2>4. CASE h[a] = h[b]
    BY <1>2, <1>10, <2>1, <2>4
  <2> QED BY <2>2, <2>3, <2>4
<1>11. ASSUME NEW i \in S PROVE \E a \in 1 .. c : h[a] = i
  <2>1. R(i) \in 1 .. c
    BY <1>3 DEF R
  <2>2. h[R(i)] \in S /\ R(h[R(i)]) = R(i) /\ R(i) \in Nat
    BY <1>2, <1>7, <2>1
  <2>3. ~(h[R(i)] < i) /\ ~(i < h[R(i)])
    BY <1>4, <2>2
  <2> QED BY <1>1, <2>1, <2>2, <2>3
<1>12. Picks(h, At(q, S), q, S)
  <2>1. h \in [1 .. c -> S]
    BY <1>7 DEF h
  <2> QED BY <1>8, <1>9, <1>10, <1>11, <2>1 DEF Picks
<1> QED BY <1>2, <1>9, <1>12

-----------------------------------------------------------------------------
(* The turn. *)

(* The masters are asked from the turn on and around.                      *)
LEMMA DistanceIs ==
  ASSUME NEW next \in Masters, NEW m \in Masters
  PROVE  Distance(next, m) = IF m >= next THEN m - next ELSE m + MasterCount - next
PROOF
<1> DEFINE N == MasterCount
           x == m + N - next
<1>1. N \in Nat /\ N > 0 /\ m \in Nat /\ next \in Nat /\ m < N /\ next < N /\ x \in Nat
  BY MastersAssumption DEF Masters
<1>2. CASE m >= next
  <2>1. x = N * 1 + (m - next) /\ m - next \in 0 .. (N - 1)
    BY <1>1, <1>2
  <2>2. x % N = m - next
    BY <1>1, <2>1
  <2> QED BY <1>2, <2>2 DEF Distance
<1>3. CASE ~(m >= next)
  <2>1. x \in 0 .. (N - 1)
    BY <1>1, <1>3
  <2>2. x % N = x
    BY <1>1, <2>1
  <2> QED BY <1>3, <2>2 DEF Distance
<1> QED BY <1>2, <1>3

(* The turn goes around.                                                   *)
LEMMA NextTurnIs ==
  ASSUME NEW m \in Masters
  PROVE  NextTurn(m) = IF m = MasterCount - 1 THEN 0 ELSE m + 1
PROOF
<1> DEFINE N == MasterCount
<1>1. N \in Nat /\ N > 0 /\ m \in Nat /\ m < N
  BY MastersAssumption DEF Masters
<1>2. CASE m = N - 1
  <2>1. m + 1 = N /\ N % N = 0
    BY <1>1, <1>2
  <2> QED BY <1>2, <2>1 DEF NextTurn
<1>3. CASE m # N - 1
  <2>1. m + 1 \in 0 .. (N - 1)
    BY <1>1, <1>3
  <2>2. (m + 1) % N = m + 1
    BY <1>1, <2>1
  <2> QED BY <1>3, <2>2 DEF NextTurn
<1> QED BY <1>2, <1>3

(* Of the masters that are willing one is first from the turn on.          *)
LEMMA SelectedIsFirst ==
  ASSUME NEW next \in Masters, NEW willing \in SUBSET Masters, willing # {}
  PROVE  /\ Selected(next, willing) \in willing
         /\ \A other \in willing :
              Distance(next, Selected(next, willing)) <= Distance(next, other)
PROOF
<1> DEFINE D == {Distance(next, m) : m \in willing}
           R == OpToRel(<, Nat)
<1>1. ASSUME NEW m \in willing PROVE Distance(next, m) \in Nat
  <2>1. /\ MasterCount \in Nat /\ next \in Nat /\ m \in Nat
        /\ next < MasterCount /\ m \in Masters
    BY MastersAssumption DEF Masters
  <2>2. Distance(next, m) = IF m >= next THEN m - next ELSE m + MasterCount - next
    BY <2>1, DistanceIs
  <2> QED BY <2>1, <2>2
<1>2. IsWellFoundedOn(R, Nat)
  BY NatLessThanWellFounded
<1>3. D \subseteq Nat /\ D # {}
  BY <1>1
<1>4. PICK x \in D : \A y \in D : ~(<<y, x>> \in R)
  <2> HIDE DEF R, D
  <2> QED BY <1>2, <1>3, WFMin
<1>5. PICK m \in willing : x = Distance(next, m)
  OBVIOUS
<1>6. ASSUME NEW other \in willing
      PROVE  Distance(next, m) <= Distance(next, other)
  <2>1. Distance(next, other) \in D /\ <<Distance(next, other), x>> \notin R
    BY <1>4
  <2>2. Distance(next, other) \in Nat /\ x \in Nat
    BY <1>1, <1>5
  <2>3. ~(Distance(next, other) < x)
    BY <2>1, <2>2 DEF OpToRel
  <2> HIDE DEF D
  <2> QED BY <1>5, <2>2, <2>3
<1>7. \E k \in willing : \A other \in willing : Distance(next, k) <= Distance(next, other)
  BY <1>6
<1> QED BY <1>7 DEF Selected

(* A grant brings the turn nearer to every other willing master.           *)
LEMMA TurnComesNearer ==
  ASSUME NEW next \in Masters, NEW m \in Masters, NEW other \in Masters, other # m,
         Distance(next, m) <= Distance(next, other)
  PROVE  /\ NextTurn(m) \in Masters
         /\ Distance(NextTurn(m), other) < Distance(next, other)
PROOF
<1>1. /\ MasterCount \in Nat /\ MasterCount > 0
      /\ next \in Nat /\ m \in Nat /\ other \in Nat
      /\ next < MasterCount /\ m < MasterCount /\ other < MasterCount
  BY MastersAssumption DEF Masters
<1>2. NextTurn(m) = IF m = MasterCount - 1 THEN 0 ELSE m + 1
  BY NextTurnIs
<1>3. NextTurn(m) \in Masters
  BY <1>1, <1>2 DEF Masters
<1>4. /\ Distance(next, m) = IF m >= next THEN m - next ELSE m + MasterCount - next
      /\ Distance(next, other) =
           IF other >= next THEN other - next ELSE other + MasterCount - next
      /\ Distance(NextTurn(m), other) =
           IF other >= NextTurn(m) THEN other - NextTurn(m)
           ELSE other + MasterCount - NextTurn(m)
  BY <1>3, DistanceIs
<1> QED BY <1>1, <1>2, <1>3, <1>4

-----------------------------------------------------------------------------
(* Where the requests of a master are. *)

(* The requests 1 to count of master m are answered, in flight or pending, *)
(* each in one place, and the accepted ones in order: done are the         *)
(* responses to m, queue the requests in flight of all masters.            *)
InOrder(m, done, queue) ==
  /\ \A i, j \in DOMAIN done : done[i].number = done[j].number => i = j
  /\ \A i, j \in DOMAIN queue :
       i < j /\ queue[i].master = m /\ queue[j].master = m =>
         queue[i].number < queue[j].number
  /\ \A i \in DOMAIN done, j \in DOMAIN queue :
       queue[j].master = m =>
         /\ done[i].number # queue[j].number
         /\ ~done[i].refused => done[i].number < queue[j].number
  /\ \A i, j \in DOMAIN done :
       i < j /\ ~done[i].refused /\ ~done[j].refused => done[i].number < done[j].number

Counted(m, done, queue, pending, count) ==
  /\ \A i \in DOMAIN done : done[i].number <= count
  /\ \A j \in DOMAIN queue : queue[j].master = m => queue[j].number <= count
  /\ pending # None /\ pending.master = m =>
       /\ pending.number = count
       /\ \A i \in DOMAIN done : done[i].number # count
       /\ \A j \in DOMAIN queue : queue[j].master = m => queue[j].number # count
  /\ \A n \in 1 .. count :
       \/ \E i \in DOMAIN done : done[i].number = n
       \/ \E j \in DOMAIN queue : queue[j].master = m /\ queue[j].number = n
       \/ pending # None /\ pending.master = m /\ pending.number = n

(* And no more of them are unanswered than the window of the master.       *)
Placed(m, done, queue, pending, count) ==
  /\ InOrder(m, done, queue)
  /\ Counted(m, done, queue, pending, count)
  /\ Outstanding(m, pending, queue) <= Window[m]

(* The inductive invariant.  The last conjunct counts the masters a grant  *)
(* may still be passed over for: those the turn meets before m.            *)
Inv ==
  /\ TypeOK
  /\ \A m \in Masters :
       /\ Placed(m, answered[m], in_flight_requests, pending_request, issued[m])
       /\ overtaken[m] + Distance(next_master_index, m) <= MasterCount - 1

(* What is delivered of a master was in flight before what is not.         *)
LEMMA DeliverableFirst ==
  ASSUME NEW p \in Seq(EntryType), NEW i \in Deliverable(p),
         NEW j \in DOMAIN p \ Deliverable(p), p[i].master = p[j].master
  PROVE  i < j
PROOF
<1>1. i \in Nat /\ j \in Nat /\ i \in DOMAIN p /\ Len(p) \in Nat /\ DOMAIN p = 1 .. Len(p)
  BY DEF Deliverable
<1>2. PICK k \in 1 .. j : p[k].master = p[j].master /\ p[k].completion = None
  BY DEF Deliverable
<1>3. ~(k \in 1 .. i)
  BY <1>2 DEF Deliverable
<1> QED BY <1>1, <1>2, <1>3

(* The responses to a master are those of its deliverable requests, in     *)
(* the order of the queue.                                                 *)
LEMMA ResponsesPick ==
  ASSUME NEW p \in Seq(EntryType), NEW m \in Masters
  PROVE  LET rs == ResponsesTo(m, Delivered(p))
             S == {i \in Deliverable(p) : p[i].master = m}
         IN  /\ rs \in Seq(ResponseType)
             /\ \E h \in [DOMAIN rs -> S] :
                  /\ \A a, b \in DOMAIN rs : a < b => h[a] < h[b]
                  /\ \A i \in S : \E a \in DOMAIN rs : h[a] = i
                  /\ \A a \in DOMAIN rs : rs[a].number = p[h[a]].number /\ ~rs[a].refused
PROOF
<1> DEFINE D == Deliverable(p)
           d == Delivered(p)
           E == {n \in DOMAIN d : d[n].master = m}
           mine == At(d, E)
           rs == ResponsesTo(m, d)
           S == {i \in D : p[i].master = m}
<1>1. D \in SUBSET DOMAIN p /\ DOMAIN p \subseteq Nat
  BY DEF Deliverable
<1>2. d \in Seq(EntryType) /\ \E g : Picks(g, d, p, D)
  BY <1>1, AtPicks DEF Delivered
<1>3. PICK g : Picks(g, d, p, D)
  BY <1>2
<1>4. mine \in Seq(EntryType) /\ \E f : Picks(f, mine, d, E)
  <2>1. E \in SUBSET DOMAIN d
    OBVIOUS
  <2> HIDE DEF d, E
  <2> QED BY <1>2, <2>1, AtPicks
<1>5. PICK f : Picks(f, mine, d, E)
  BY <1>4
<1>6. rs = [n \in DOMAIN mine |-> [number |-> mine[n].number, refused |-> FALSE]]
  BY DEF ResponsesTo
<1> HIDE DEF d, mine, rs
<1>7. rs \in Seq(ResponseType) /\ DOMAIN rs = DOMAIN mine
  <2>1. ASSUME NEW n \in DOMAIN mine PROVE mine[n].number \in 1 .. MaxRequests
    <3>1. mine[n] \in EntryType
      BY <1>4
    <3> QED BY <3>1 DEF EntryType
  <2>2. DOMAIN mine = 1 .. Len(mine) /\ Len(mine) \in Nat
    BY <1>4
  <2>3. \A n \in 1 .. Len(mine) : rs[n] \in ResponseType
    BY <1>6, <2>1, <2>2 DEF ResponseType
  <2> QED BY <1>6, <2>2, <2>3
<1> DEFINE h == [a \in DOMAIN rs |-> g[f[a]]]
<1>8. ASSUME NEW a \in DOMAIN rs
      PROVE  /\ f[a] \in E /\ f[a] \in DOMAIN d /\ d[f[a]].master = m
             /\ mine[a] = d[f[a]]
             /\ h[a] \in D /\ d[f[a]] = p[h[a]]
  <2>1. f[a] \in E /\ mine[a] = d[f[a]]
    BY <1>5, <1>7 DEF Picks
  <2>2. f[a] \in DOMAIN d /\ d[f[a]].master = m
    BY <2>1
  <2>3. g[f[a]] \in D /\ d[f[a]] = p[g[f[a]]]
    BY <1>3, <2>2 DEF Picks
  <2> QED BY <2>1, <2>2, <2>3
<1>9. h \in [DOMAIN rs -> S]
  BY <1>8
<1>10. ASSUME NEW a \in DOMAIN rs, NEW b \in DOMAIN rs, a < b PROVE h[a] < h[b]
  <2>1. f[a] < f[b]
    BY <1>5, <1>7, <1>10 DEF Picks
  <2>2. f[a] \in DOMAIN d /\ f[b] \in DOMAIN d
    BY <1>8
  <2>3. g[f[a]] < g[f[b]]
    BY <1>3, <2>1, <2>2 DEF Picks
  <2> QED BY <2>3
<1>11. ASSUME NEW i \in S PROVE \E a \in DOMAIN rs : h[a] = i
  <2>1. PICK n \in DOMAIN d : g[n] = i
    BY <1>3 DEF Picks
  <2>2. n \in E
    BY <1>3, <2>1 DEF Picks
  <2>3. PICK a \in DOMAIN mine : f[a] = n
    BY <1>5, <2>2 DEF Picks
  <2> QED BY <1>7, <2>1, <2>3
<1>12. ASSUME NEW a \in DOMAIN rs PROVE rs[a].number = p[h[a]].number /\ ~rs[a].refused
  BY <1>6, <1>7, <1>8
<1> HIDE DEF h
<1> QED BY <1>7, <1>9, <1>10, <1>11, <1>12 DEF d, rs

(* A poll hands responses over in order: it moves requests of a master     *)
(* from the front of the queue to the end of what it was answered.         *)
LEMMA PollKeepsOrder ==
  ASSUME NEW p \in Seq(EntryType), NEW m \in Masters, NEW a \in Seq(ResponseType),
         NEW pending, NEW count \in Nat,
         InOrder(m, a, p), Counted(m, a, p, pending, count)
  PROVE  LET u == Undelivered(p)
             done == a \o ResponsesTo(m, Delivered(p))
         IN  /\ u \in Seq(EntryType)
             /\ done \in Seq(ResponseType)
             /\ InOrder(m, done, u)
             /\ Counted(m, done, u, pending, count)
PROOF
<1> DEFINE D == Deliverable(p)
           U == DOMAIN p \ D
           S == {i \in D : p[i].master = m}
           u == Undelivered(p)
           rs == ResponsesTo(m, Delivered(p))
           done == a \o rs
<1>1. D \subseteq DOMAIN p /\ DOMAIN p \subseteq Nat
  BY DEF Deliverable
<1>2. PICK h \in [DOMAIN rs -> S] :
        /\ \A x, y \in DOMAIN rs : x < y => h[x] < h[y]
        /\ \A i \in S : \E x \in DOMAIN rs : h[x] = i
        /\ \A x \in DOMAIN rs : rs[x].number = p[h[x]].number /\ ~rs[x].refused
  BY ResponsesPick
<1>3. rs \in Seq(ResponseType)
  BY ResponsesPick
<1>4. u \in Seq(EntryType) /\ \E g : Picks(g, u, p, U)
  <2>1. U \in SUBSET DOMAIN p
    OBVIOUS
  <2> QED BY <2>1, AtPicks DEF Undelivered
<1>5. PICK g : Picks(g, u, p, U)
  BY <1>4
<1> HIDE DEF D, U, S, u, rs
<1>6. /\ Len(a) \in Nat /\ Len(rs) \in Nat /\ Len(u) \in Nat
      /\ DOMAIN a = 1 .. Len(a) /\ DOMAIN rs = 1 .. Len(rs) /\ DOMAIN u = 1 .. Len(u)
  BY <1>3, <1>4
<1>7. done \in Seq(ResponseType) /\ DOMAIN done = 1 .. (Len(a) + Len(rs))
  BY <1>3, <1>6
<1>8. ASSUME NEW i \in DOMAIN done
      PROVE  /\ i \in Nat
             /\ \/ i \in DOMAIN a /\ done[i] = a[i]
                \/ /\ i > Len(a) /\ i - Len(a) \in DOMAIN rs
                   /\ done[i] = rs[i - Len(a)]
  <2>1. i \in 1 .. (Len(a) + Len(rs))
    BY <1>7
  <2>2. CASE i <= Len(a)
    BY <1>3, <1>6, <2>1, <2>2
  <2>3. CASE i > Len(a)
    <3>1. i - Len(a) \in 1 .. Len(rs) /\ done[i] = rs[i - Len(a)]
      BY <1>3, <1>6, <2>1, <2>3
    <3> QED BY <1>6, <2>1, <2>3, <3>1
  <2> QED BY <1>6, <2>1, <2>2, <2>3
<1>9. ASSUME NEW i \in DOMAIN a PROVE i \in DOMAIN done /\ done[i] = a[i]
  BY <1>3, <1>6, <1>7
<1>10. ASSUME NEW x \in DOMAIN rs PROVE Len(a) + x \in DOMAIN done /\ done[Len(a) + x] = rs[x]
  BY <1>3, <1>6, <1>7
<1> HIDE DEF done
<1>11. ASSUME NEW x \in DOMAIN rs
       PROVE  /\ h[x] \in DOMAIN p /\ h[x] \in D /\ p[h[x]].master = m /\ h[x] \in Nat
              /\ rs[x].number = p[h[x]].number /\ ~rs[x].refused
  BY <1>1, <1>2 DEF S
<1>12. ASSUME NEW k \in DOMAIN u
       PROVE  g[k] \in DOMAIN p /\ g[k] \in U /\ g[k] \notin D /\ g[k] \in Nat /\ u[k] = p[g[k]]
  BY <1>1, <1>5 DEF Picks, U
<1>13. /\ \A i \in DOMAIN p : p[i] \in EntryType /\ p[i].number \in Nat
       /\ \A i \in DOMAIN a : a[i].number \in Nat
  <2>1. ASSUME NEW i \in DOMAIN p PROVE p[i] \in EntryType /\ p[i].number \in Nat
    <3>1. p[i] \in EntryType
      OBVIOUS
    <3> QED BY <3>1 DEF EntryType
  <2>2. ASSUME NEW i \in DOMAIN a PROVE a[i].number \in Nat
    <3>1. a[i] \in ResponseType
      OBVIOUS
    <3> QED BY <3>1 DEF ResponseType
  <2> QED BY <2>1, <2>2
<1>14. \A i, j \in DOMAIN p :
          i < j /\ p[i].master = m /\ p[j].master = m => p[i].number < p[j].number
  BY DEF InOrder
<1>15. \A i \in DOMAIN a, j \in DOMAIN p :
          p[j].master = m => /\ a[i].number # p[j].number
                             /\ ~a[i].refused => a[i].number < p[j].number
  BY DEF InOrder
<1>16. /\ \A i, j \in DOMAIN a : a[i].number = a[j].number => i = j
       /\ \A i, j \in DOMAIN a :
            i < j /\ ~a[i].refused /\ ~a[j].refused => a[i].number < a[j].number
  BY DEF InOrder
<1>17. ASSUME NEW x \in DOMAIN rs, NEW y \in DOMAIN rs, x < y
       PROVE  rs[x].number < rs[y].number
  BY <1>2, <1>11, <1>14, <1>17
<1>18. InOrder(m, done, u)
  <2>1. ASSUME NEW i \in DOMAIN done, NEW j \in DOMAIN done, i < j
        PROVE  /\ done[i].number # done[j].number
               /\ ~done[i].refused /\ ~done[j].refused => done[i].number < done[j].number
    <3>1. CASE j \in DOMAIN a
      <4>1. i \in DOMAIN a /\ done[i] = a[i] /\ done[j] = a[j] /\ i # j
        BY <1>6, <1>8, <1>9, <2>1, <3>1
      <4> QED BY <1>16, <2>1, <3>1, <4>1
    <3>2. CASE i \in DOMAIN a /\ j \notin DOMAIN a
      <4>1. done[i] = a[i] /\ j - Len(a) \in DOMAIN rs /\ done[j] = rs[j - Len(a)]
        BY <1>8, <1>9, <3>2
      <4> QED BY <1>11, <1>15, <3>2, <4>1
    <3>3. CASE i \notin DOMAIN a /\ j \notin DOMAIN a
      <4> DEFINE x == i - Len(a)
                 y == j - Len(a)
      <4>1. /\ x \in DOMAIN rs /\ done[i] = rs[x] /\ y \in DOMAIN rs /\ done[j] = rs[y]
            /\ x < y
        BY <1>6, <1>8, <2>1, <3>3
      <4> HIDE DEF x, y
      <4>2. rs[x].number < rs[y].number
        BY <1>17, <4>1
      <4>3. rs[x].number \in Nat /\ rs[y].number \in Nat
        BY <1>11, <1>13, <4>1
      <4> QED BY <4>1, <4>2, <4>3
    <3> QED BY <3>1, <3>2, <3>3
  <2>2. \A i, j \in DOMAIN done : done[i].number = done[j].number => i = j
    <3> SUFFICES ASSUME NEW i \in DOMAIN done, NEW j \in DOMAIN done, i # j
                 PROVE  done[i].number # done[j].number
      OBVIOUS
    <3>1. i < j \/ j < i
      BY <1>8
    <3> QED BY <2>1, <3>1
  <2>3. ASSUME NEW i \in DOMAIN u, NEW j \in DOMAIN u, i < j, u[i].master = m, u[j].master = m
        PROVE  u[i].number < u[j].number
    <3>1. g[i] < g[j]
      BY <1>5, <2>3 DEF Picks
    <3> QED BY <1>12, <1>14, <2>3, <3>1
  <2>4. ASSUME NEW i \in DOMAIN done, NEW j \in DOMAIN u, u[j].master = m
        PROVE  /\ done[i].number # u[j].number
               /\ ~done[i].refused => done[i].number < u[j].number
    <3>1. g[j] \in DOMAIN p /\ g[j] \notin D /\ u[j] = p[g[j]] /\ p[g[j]].master = m
      BY <1>12, <2>4
    <3>2. CASE i \in DOMAIN a
      BY <1>9, <1>15, <3>1, <3>2
    <3>3. CASE i \notin DOMAIN a
      <4> DEFINE x == i - Len(a)
      <4>1. x \in DOMAIN rs /\ done[i] = rs[x]
        BY <1>8, <3>3
      <4> HIDE DEF x
      <4>2. h[x] \in D /\ h[x] \in DOMAIN p /\ p[h[x]].master = m /\ rs[x].number = p[h[x]].number
        BY <1>11, <4>1
      <4>3. h[x] < g[j]
        BY <3>1, <4>2, DeliverableFirst DEF D
      <4>4. p[h[x]].number < p[g[j]].number
        BY <1>14, <3>1, <4>2, <4>3
      <4>5. p[h[x]].number \in Nat /\ p[g[j]].number \in Nat
        BY <1>13, <3>1, <4>2
      <4> QED BY <3>1, <4>1, <4>2, <4>4, <4>5
    <3> QED BY <3>2, <3>3
  <2> QED BY <2>1, <2>2, <2>3, <2>4 DEF InOrder
<1>19. Counted(m, done, u, pending, count)
  <2>1. ASSUME NEW i \in DOMAIN done
        PROVE  \/ \E k \in DOMAIN a : done[i].number = a[k].number
               \/ \E k \in DOMAIN p : p[k].master = m /\ done[i].number = p[k].number
    BY <1>8, <1>11, SMTT(30)
  <2>2. ASSUME NEW j \in DOMAIN u, u[j].master = m
        PROVE  \E k \in DOMAIN p : p[k].master = m /\ u[j].number = p[k].number
    BY <1>12, <2>2
  <2>3. \A i \in DOMAIN done : done[i].number <= count
    BY <2>1 DEF Counted
  <2>4. \A j \in DOMAIN u : u[j].master = m => u[j].number <= count
    BY <2>2 DEF Counted
  <2>5. pending # None /\ pending.master = m =>
          /\ pending.number = count
          /\ \A i \in DOMAIN done : done[i].number # count
          /\ \A j \in DOMAIN u : u[j].master = m => u[j].number # count
    BY <2>1, <2>2 DEF Counted
  <2>6. ASSUME NEW n \in 1 .. count
        PROVE  \/ \E i \in DOMAIN done : done[i].number = n
               \/ \E j \in DOMAIN u : u[j].master = m /\ u[j].number = n
               \/ pending # None /\ pending.master = m /\ pending.number = n
    <3>1. CASE \E i \in DOMAIN a : a[i].number = n
      BY <1>9, <3>1
    <3>2. CASE \E j \in DOMAIN p : p[j].master = m /\ p[j].number = n
      <4>1. PICK j \in DOMAIN p : p[j].master = m /\ p[j].number = n
        BY <3>2
      <4>2. CASE j \in D
        <5>1. PICK x \in DOMAIN rs : h[x] = j
          BY <1>2, <4>1, <4>2 DEF S
        <5> QED BY <1>10, <1>11, <4>1, <5>1
      <4>3. CASE j \notin D
        <5>1. PICK k \in DOMAIN u : g[k] = j
          BY <1>5, <4>3 DEF Picks, U
        <5> QED BY <1>12, <4>1, <5>1
      <4> QED BY <4>2, <4>3
    <3> QED BY <3>1, <3>2 DEF Counted
  <2> QED BY <2>3, <2>4, <2>5, <2>6 DEF Counted
<1> QED BY <1>4, <1>7, <1>18, <1>19 DEF u, rs, done

(* How many entries of a queue are a master's.                             *)
Mine(m, queue) == {i \in DOMAIN queue : queue[i].master = m}

(* There are finitely many of them.                                        *)
LEMMA MineIsFinite ==
  ASSUME NEW q \in Seq(EntryType), NEW m
  PROVE  IsFiniteSet(Mine(m, q)) /\ Cardinality(Mine(m, q)) \in Nat
PROOF
<1>1. Len(q) \in Nat /\ DOMAIN q = 1 .. Len(q)
  OBVIOUS
<1>2. IsFiniteSet(1 .. Len(q))
  BY <1>1, FS_Interval
<1>3. Mine(m, q) \in SUBSET (1 .. Len(q))
  BY <1>1 DEF Mine
<1>4. IsFiniteSet(Mine(m, q))
  BY <1>2, <1>3, FS_Subset
<1> QED BY <1>4, FS_CardinalityType

(* A poll takes entries away.                                              *)
LEMMA PollCounts ==
  ASSUME NEW p \in Seq(EntryType), NEW m
  PROVE  Cardinality(Mine(m, Undelivered(p))) <= Cardinality(Mine(m, p))
PROOF
<1> DEFINE u == Undelivered(p)
           U == DOMAIN p \ Deliverable(p)
<1>1. u \in Seq(EntryType) /\ \E g : Picks(g, u, p, U)
  <2>1. U \in SUBSET DOMAIN p
    OBVIOUS
  <2> QED BY <2>1, AtPicks DEF Undelivered
<1>2. PICK g : Picks(g, u, p, U)
  BY <1>1
<1> HIDE DEF u
<1> DEFINE f == [k \in Mine(m, u) |-> g[k]]
<1>3. f \in Injection(Mine(m, u), Mine(m, p))
  <2>1. ASSUME NEW k \in Mine(m, u)
        PROVE  k \in DOMAIN u /\ k \in Nat /\ g[k] \in Mine(m, p) /\ g[k] \in Nat
    <3>1. k \in DOMAIN u /\ u[k].master = m /\ k \in Nat
      BY <1>1 DEF Mine
    <3>2. g[k] \in U /\ u[k] = p[g[k]]
      BY <1>2, <3>1 DEF Picks
    <3>3. g[k] \in DOMAIN p /\ DOMAIN p \subseteq Nat
      BY <3>2
    <3> QED BY <3>1, <3>2, <3>3 DEF Mine
  <2>2. ASSUME NEW k \in Mine(m, u), NEW l \in Mine(m, u), g[k] = g[l] PROVE k = l
    <3> SUFFICES ASSUME k # l PROVE FALSE
      OBVIOUS
    <3>1. k < l \/ l < k
      BY <2>1
    <3>2. g[k] < g[l] \/ g[l] < g[k]
      BY <1>2, <2>1, <3>1 DEF Picks
    <3> QED BY <2>1, <2>2, <3>2
  <2> QED BY <2>1, <2>2 DEF Injection, IsInjective
<1>4. IsFiniteSet(Mine(m, p))
  BY MineIsFinite
<1> HIDE DEF f
<1> QED BY <1>3, <1>4, FS_Injection DEF u

(* A request that joins the queue counts for its master.                   *)
LEMMA AppendCounts ==
  ASSUME NEW q \in Seq(EntryType), NEW e \in EntryType, NEW m
  PROVE  Cardinality(Mine(m, Append(q, e))) =
           Cardinality(Mine(m, q)) + (IF e.master = m THEN 1 ELSE 0)
PROOF
<1> DEFINE a == Append(q, e)
           n == Len(q) + 1
<1>1. /\ Len(q) \in Nat /\ DOMAIN q = 1 .. Len(q) /\ DOMAIN a = 1 .. n
      /\ a[n] = e /\ \A i \in DOMAIN q : a[i] = q[i]
  OBVIOUS
<1>2. IsFiniteSet(Mine(m, q)) /\ Cardinality(Mine(m, q)) \in Nat
  BY MineIsFinite
<1> HIDE DEF a
<1>3. n \notin Mine(m, q)
  BY <1>1 DEF Mine
<1>4. CASE e.master = m
  <2>1. Mine(m, a) = Mine(m, q) \cup {n}
    BY <1>1, <1>4 DEF Mine
  <2>2. Cardinality(Mine(m, q) \cup {n}) = Cardinality(Mine(m, q)) + 1
    BY <1>2, <1>3, FS_AddElement
  <2> QED BY <1>4, <2>1, <2>2 DEF a
<1>5. CASE e.master # m
  <2>1. Mine(m, a) = Mine(m, q)
    BY <1>1, <1>5 DEF Mine
  <2> QED BY <1>2, <1>5, <2>1 DEF a
<1> QED BY <1>4, <1>5

-----------------------------------------------------------------------------
(* The submission of a request. *)

(* The queue a poll leaves is right for every master.                      *)
LEMMA PollKeepsPlaced ==
  ASSUME NEW p \in Seq(EntryType), NEW m \in Masters, NEW a \in Seq(ResponseType),
         NEW pending, NEW count \in Nat, Placed(m, a, p, pending, count)
  PROVE  LET u == Undelivered(p)
             done == a \o ResponsesTo(m, Delivered(p))
         IN  /\ u \in Seq(EntryType)
             /\ done \in Seq(ResponseType)
             /\ Placed(m, done, u, pending, count)
PROOF
<1> DEFINE u == Undelivered(p)
           done == a \o ResponsesTo(m, Delivered(p))
<1>1. /\ u \in Seq(EntryType) /\ done \in Seq(ResponseType)
      /\ InOrder(m, done, u) /\ Counted(m, done, u, pending, count)
  BY PollKeepsOrder DEF Placed
<1> HIDE DEF u, done
<1>2. Cardinality(Mine(m, u)) \in Nat /\ Cardinality(Mine(m, p)) \in Nat
  BY <1>1, MineIsFinite
<1>3. Cardinality(Mine(m, u)) <= Cardinality(Mine(m, p))
  BY PollCounts DEF u
<1>4. Outstanding(m, pending, u) <= Outstanding(m, pending, p)
  BY <1>2, <1>3 DEF Outstanding, Mine
<1>5. Outstanding(m, pending, u) \in Nat /\ Outstanding(m, pending, p) \in Nat
  BY <1>2 DEF Outstanding, Mine
<1>6. Window[m] \in Nat
  BY MastersAssumption
<1>7. Outstanding(m, pending, u) <= Window[m]
  BY <1>4, <1>5, <1>6 DEF Placed
<1> QED BY <1>1, <1>7 DEF Placed, u, done

(* The lower bus takes, postpones or refuses the pending request: it moves *)
(* to the queue, stays or is answered.                                     *)
LEMMA SubmitKeepsPlaced ==
  ASSUME NEW pending \in RequestType, NEW queue \in Seq(EntryType), NEW lower,
         NEW responses \in [Masters -> Seq(ResponseType)],
         TrySubmit(pending, queue, lower, responses),
         NEW m \in Masters, NEW count \in Nat,
         Placed(m, responses[m], queue, pending, count)
  PROVE  Placed(m, answered'[m], in_flight_requests', pending_request', count)
PROOF
<1> DEFINE e == [master |-> pending.master, number |-> pending.number, completion |-> None]
           done == responses[m]
<1>1. /\ pending # None /\ pending.master \in Masters /\ pending.number \in Nat
      /\ e \in EntryType /\ e.master = pending.master /\ e.number = pending.number
  BY BoundsAssumption DEF RequestType, EntryType
<1>2. /\ Cardinality(Mine(m, queue)) \in Nat /\ Window[m] \in Nat
      /\ Outstanding(m, pending, queue) =
           (IF pending.master = m THEN 1 ELSE 0) + Cardinality(Mine(m, queue))
      /\ Outstanding(m, None, queue) = Cardinality(Mine(m, queue))
  <2>1. Cardinality(Mine(m, queue)) \in Nat
    BY MineIsFinite
  <2>2. Window[m] \in Nat
    BY MastersAssumption
  <2>3. Outstanding(m, pending, queue) =
          (IF pending.master = m THEN 1 ELSE 0) + Cardinality(Mine(m, queue))
    BY <1>1 DEF Outstanding, Mine
  <2>4. Outstanding(m, None, queue) = 0 + Cardinality(Mine(m, queue))
    BY DEF Outstanding, Mine
  <2> HIDE DEF e
  <2> QED BY <2>1, <2>2, <2>3, <2>4
<1>3. done \in Seq(ResponseType)
  OBVIOUS
<1>4. /\ \A i \in DOMAIN done : done[i].number \in Nat
      /\ \A j \in DOMAIN queue : queue[j].number \in Nat
  <2>1. ASSUME NEW i \in DOMAIN done PROVE done[i].number \in Nat
    <3>1. done[i] \in ResponseType
      BY <1>3
    <3> QED BY <3>1 DEF ResponseType
  <2>2. ASSUME NEW j \in DOMAIN queue PROVE queue[j].number \in Nat
    <3>1. queue[j] \in EntryType
      OBVIOUS
    <3> QED BY <3>1 DEF EntryType
  <2> QED BY <2>1, <2>2
<1>5. CASE /\ pending_request' = None
           /\ in_flight_requests' = Append(queue, e)
           /\ answered' = responses
  <2> DEFINE a == Append(queue, e)
             n == Len(queue) + 1
  <2>1. /\ Len(queue) \in Nat /\ DOMAIN queue = 1 .. Len(queue) /\ DOMAIN a = 1 .. n
        /\ a[n] = e /\ \A i \in DOMAIN queue : a[i] = queue[i]
    BY <1>1
  <2>2. Cardinality(Mine(m, a)) =
          Cardinality(Mine(m, queue)) + (IF pending.master = m THEN 1 ELSE 0)
    BY <1>1, AppendCounts
  <2> HIDE DEF a, e
  <2>3. Outstanding(m, None, a) <= Window[m]
    BY <1>1, <1>2, <2>2 DEF Outstanding, Mine, Placed
  <2>4. ASSUME NEW j \in DOMAIN a
        PROVE  (j \in DOMAIN queue /\ a[j] = queue[j]) \/ (j = n /\ a[j] = e)
    BY <2>1
  <2>5. pending.master = m =>
          /\ pending.number = count
          /\ \A i \in DOMAIN done : done[i].number < count
          /\ \A j \in DOMAIN queue : queue[j].master = m => queue[j].number < count
    BY <1>1, <1>4 DEF Placed, Counted
  <2>6. InOrder(m, done, a)
    <3>1. ASSUME NEW i \in DOMAIN a, NEW j \in DOMAIN a, i < j,
                 a[i].master = m, a[j].master = m
          PROVE  a[i].number < a[j].number
      <4>1. i \in DOMAIN queue /\ a[i] = queue[i]
        BY <2>1, <2>4, <3>1
      <4>2. CASE j \in DOMAIN queue
        BY <2>1, <3>1, <4>1, <4>2 DEF Placed, InOrder
      <4>3. CASE j = n
        BY <1>1, <2>1, <2>5, <3>1, <4>1, <4>3
      <4> QED BY <2>4, <4>2, <4>3
    <3>2. ASSUME NEW i \in DOMAIN done, NEW j \in DOMAIN a, a[j].master = m
          PROVE  /\ done[i].number # a[j].number
                 /\ ~done[i].refused => done[i].number < a[j].number
      <4>1. CASE j \in DOMAIN queue
        BY <2>1, <3>2, <4>1 DEF Placed, InOrder
      <4>2. CASE j = n
        <5>1. a[j].number = count /\ done[i].number < count
          BY <1>1, <2>1, <2>5, <3>2, <4>2
        <5> QED BY <1>4, <5>1
      <4> QED BY <2>4, <4>1, <4>2
    <3> QED BY <3>1, <3>2 DEF Placed, InOrder
  <2>7. Counted(m, done, a, None, count)
    <3>1. \A j \in DOMAIN a : a[j].master = m => a[j].number <= count
      BY <1>1, <1>4, <2>1, <2>4, <2>5 DEF Placed, Counted
    <3>2. ASSUME NEW k \in 1 .. count
          PROVE  \/ \E i \in DOMAIN done : done[i].number = k
                 \/ \E j \in DOMAIN a : a[j].master = m /\ a[j].number = k
      <4>1. CASE \E j \in DOMAIN queue : queue[j].master = m /\ queue[j].number = k
        <5>1. PICK j \in DOMAIN queue : queue[j].master = m /\ queue[j].number = k
          BY <4>1
        <5>2. j \in DOMAIN a
          BY <2>1
        <5> QED BY <2>1, <5>1, <5>2
      <4>2. CASE pending.master = m /\ pending.number = k
        <5>1. n \in DOMAIN a
          BY <2>1
        <5> QED BY <1>1, <2>1, <4>2, <5>1
      <4> QED BY <4>1, <4>2 DEF Placed, Counted
    <3> QED BY <3>1, <3>2 DEF Placed, Counted
  <2>8. answered'[m] = done /\ in_flight_requests' = a /\ pending_request' = None
    BY <1>5 DEF a
  <2> QED BY <2>3, <2>6, <2>7, <2>8 DEF Placed
<1>6. CASE /\ pending_request' = pending
           /\ in_flight_requests' = queue
           /\ answered' = responses
  BY <1>6
<1>7. CASE /\ pending_request' = None
           /\ in_flight_requests' = queue
           /\ answered' = [responses EXCEPT ![pending.master] =
                             Append(@, [number |-> pending.number, refused |-> TRUE])]
  <2>1. Outstanding(m, None, queue) <= Window[m]
    BY <1>2 DEF Placed
  <2>2. CASE pending.master # m
    <3>1. answered'[m] = done
      BY <1>1, <1>7, <2>2
    <3>2. Counted(m, done, queue, None, count)
      BY <2>2 DEF Placed, Counted
    <3> QED BY <1>7, <2>1, <3>1, <3>2 DEF Placed
  <2>3. CASE pending.master = m
    <3> DEFINE x == [number |-> pending.number, refused |-> TRUE]
               a == Append(done, x)
               n == Len(done) + 1
    <3>1. answered'[m] = a
      BY <1>1, <1>7, <2>3
    <3>2. /\ Len(done) \in Nat /\ DOMAIN done = 1 .. Len(done) /\ DOMAIN a = 1 .. n
          /\ a[n] = x /\ x.number = pending.number /\ x.refused
          /\ \A i \in DOMAIN done : a[i] = done[i]
      BY <1>3
    <3> HIDE DEF a, x
    <3>3. ASSUME NEW i \in DOMAIN a
          PROVE  (i \in DOMAIN done /\ a[i] = done[i]) \/ (i = n /\ a[i] = x)
      BY <3>2
    <3>4. /\ pending.number = count
          /\ \A i \in DOMAIN done : done[i].number # count
          /\ \A j \in DOMAIN queue : queue[j].master = m => queue[j].number # count
      BY <1>1, <2>3 DEF Placed, Counted
    <3>5. InOrder(m, a, queue)
      <4>1. ASSUME NEW i \in DOMAIN a, NEW j \in DOMAIN a, a[i].number = a[j].number
            PROVE  i = j
        BY <3>2, <3>3, <3>4, <4>1 DEF Placed, InOrder
      <4>2. ASSUME NEW i \in DOMAIN a, NEW j \in DOMAIN queue, queue[j].master = m
            PROVE  /\ a[i].number # queue[j].number
                   /\ ~a[i].refused => a[i].number < queue[j].number
        BY <3>2, <3>3, <3>4, <4>2 DEF Placed, InOrder
      <4>3. ASSUME NEW i \in DOMAIN a, NEW j \in DOMAIN a, i < j, ~a[i].refused, ~a[j].refused
            PROVE  a[i].number < a[j].number
        BY <3>2, <3>3, <4>3 DEF Placed, InOrder
      <4> QED BY <4>1, <4>2, <4>3 DEF Placed, InOrder
    <3>6. Counted(m, a, queue, None, count)
      <4>1. \A i \in DOMAIN a : a[i].number <= count
        BY <1>1, <3>2, <3>3, <3>4 DEF Placed, Counted
      <4>2. ASSUME NEW k \in 1 .. count
            PROVE  \/ \E i \in DOMAIN a : a[i].number = k
                   \/ \E j \in DOMAIN queue : queue[j].master = m /\ queue[j].number = k
        <5>1. CASE \E i \in DOMAIN done : done[i].number = k
          <6>1. PICK i \in DOMAIN done : done[i].number = k
            BY <5>1
          <6>2. i \in DOMAIN a
            BY <3>2
          <6> QED BY <3>2, <6>1, <6>2
        <5>2. CASE pending.number = k
          <6>1. n \in DOMAIN a
            BY <3>2
          <6> QED BY <3>2, <5>2, <6>1
        <5> QED BY <5>1, <5>2 DEF Placed, Counted
      <4> QED BY <4>1, <4>2 DEF Placed, Counted
    <3> QED BY <1>7, <2>1, <3>1, <3>5, <3>6 DEF Placed
  <2> QED BY <2>2, <2>3
<1> QED BY <1>5, <1>6, <1>7 DEF TrySubmit

(* A granted request is new: it is the master's next number, and there was *)
(* room for it in the master's window.                                     *)
LEMMA GrantKeepsPlaced ==
  ASSUME NEW queue \in Seq(EntryType), NEW m \in Masters, NEW k \in Masters,
         NEW done \in Seq(ResponseType), NEW count \in Nat,
         Placed(k, done, queue, None, count),
         k = m => Outstanding(m, None, queue) < Window[m],
         NEW number \in 1 .. MaxRequests, k = m => number = count + 1
  PROVE  Placed(k, done, queue, Request(m, number), IF k = m THEN count + 1 ELSE count)
PROOF
<1> DEFINE r == Request(m, number)
<1>1. r \in RequestType /\ r # None /\ r.master = m /\ r.number = number /\ count \in Nat
  BY BoundsAssumption DEF RequestType, Request
<1> HIDE DEF r
<1>2. Cardinality(Mine(k, queue)) \in Nat /\ Window[k] \in Nat
  BY MineIsFinite, MastersAssumption
<1>3. /\ \A i \in DOMAIN done : done[i].number \in Nat
      /\ \A j \in DOMAIN queue : queue[j].number \in Nat
  <2>1. ASSUME NEW i \in DOMAIN done PROVE done[i].number \in Nat
    <3>1. done[i] \in ResponseType
      OBVIOUS
    <3> QED BY <3>1 DEF ResponseType
  <2>2. ASSUME NEW j \in DOMAIN queue PROVE queue[j].number \in Nat
    <3>1. queue[j] \in EntryType
      OBVIOUS
    <3> QED BY <3>1 DEF EntryType
  <2> QED BY <2>1, <2>2
<1>4. CASE k = m
  <2>1. Outstanding(k, None, queue) = 0 + Cardinality(Mine(k, queue))
    BY DEF Outstanding, Mine
  <2>2. Outstanding(k, r, queue) = 1 + Cardinality(Mine(k, queue))
    BY <1>1, <1>4 DEF Outstanding, Mine
  <2>3. Outstanding(k, r, queue) <= Window[k]
    BY <1>2, <1>4, <2>1, <2>2
  <2>4. Counted(k, done, queue, r, count + 1)
    <3>1. /\ \A i \in DOMAIN done : done[i].number <= count
          /\ \A j \in DOMAIN queue : queue[j].master = k => queue[j].number <= count
      BY DEF Placed, Counted
    <3>2. ASSUME NEW n \in 1 .. (count + 1)
          PROVE  \/ \E i \in DOMAIN done : done[i].number = n
                 \/ \E j \in DOMAIN queue : queue[j].master = k /\ queue[j].number = n
                 \/ r # None /\ r.master = k /\ r.number = n
      <4>1. n \in 1 .. count \/ n = count + 1
        BY <1>1
      <4> QED BY <1>1, <1>4, <4>1 DEF Placed, Counted
    <3>3. \A i \in DOMAIN done : done[i].number <= count + 1 /\ done[i].number # count + 1
      BY <1>1, <1>3, <3>1
    <3>4. \A j \in DOMAIN queue : queue[j].master = k =>
            queue[j].number <= count + 1 /\ queue[j].number # count + 1
      BY <1>1, <1>3, <3>1
    <3> QED BY <1>1, <1>4, <3>2, <3>3, <3>4 DEF Counted
  <2> QED BY <1>4, <2>3, <2>4 DEF Placed, r
<1>5. CASE k # m
  <2>1. Outstanding(k, r, queue) = Outstanding(k, None, queue)
    BY <1>1, <1>5 DEF Outstanding
  <2>2. Counted(k, done, queue, r, count)
    BY <1>1, <1>5 DEF Placed, Counted
  <2> QED BY <1>5, <2>1, <2>2 DEF Placed, r
<1> QED BY <1>4, <1>5

-----------------------------------------------------------------------------
(* The steps. *)

(* The poll of the lower bus leaves every entry where it is and only fills *)
(* in completions; what stays in the lower bus still has ticks to go.      *)
LEMMA PolledKeepsEntries ==
  ASSUME TypeOK
  PROVE  /\ Polled \in Seq(EntryType)
         /\ DOMAIN Polled = DOMAIN in_flight_requests
         /\ \A i \in DOMAIN Polled :
              /\ Polled[i].master = in_flight_requests[i].master
              /\ Polled[i].number = in_flight_requests[i].number
         /\ InnerLeft \in [DOMAIN InnerLeft -> Nat \ {0}]
         /\ DOMAIN InnerLeft \subseteq RequestType
PROOF
<1> DEFINE q == in_flight_requests
<1>1. q \in Seq(EntryType) /\ Len(q) \in Nat /\ DOMAIN q = 1 .. Len(q)
  BY DEF TypeOK
<1>2. DOMAIN Polled = DOMAIN q
  BY DEF Polled
<1>3. ASSUME NEW i \in DOMAIN q
      PROVE  /\ Polled[i] \in EntryType
             /\ Polled[i].master = q[i].master /\ Polled[i].number = q[i].number
  <2>1. q[i] \in EntryType
    BY <1>1
  <2>2. Polled[i] = q[i] \/ Polled[i] = [q[i] EXCEPT !.completion = "Answered"]
    BY DEF Polled
  <2> QED BY <2>1, <2>2 DEF EntryType
<1>4. Polled \in Seq(EntryType)
  <2>1. Polled = [i \in 1 .. Len(q) |-> Polled[i]]
    BY <1>1 DEF Polled
  <2>2. \A i \in 1 .. Len(q) : Polled[i] \in EntryType
    BY <1>1, <1>3
  <2> HIDE DEF q
  <2> QED BY <1>1, <2>1, <2>2
<1>5. DOMAIN InnerLeft = DOMAIN inner \ Answers
  BY DEF InnerLeft
<1>6. ASSUME NEW r \in DOMAIN inner \ Answers PROVE InnerLeft[r] \in Nat \ {0}
  <2>1. inner[r] \in Nat \ {0} /\ inner[r] # 1
    BY DEF TypeOK, Answers
  <2>2. InnerLeft[r] = inner[r] - 1
    BY DEF InnerLeft
  <2> QED BY <2>1, <2>2
<1>7. InnerLeft \in [DOMAIN InnerLeft -> Nat \ {0}]
  BY <1>5, <1>6 DEF InnerLeft
<1> QED BY <1>2, <1>3, <1>4, <1>5, <1>7 DEF TypeOK

(* A submission keeps the types.                                           *)
LEMMA SubmitKeepsTypes ==
  ASSUME NEW pending \in RequestType, NEW queue \in Seq(EntryType),
         NEW R \in SUBSET RequestType, NEW lower \in [R -> Nat \ {0}],
         NEW responses \in [Masters -> Seq(ResponseType)],
         TrySubmit(pending, queue, lower, responses)
  PROVE  /\ pending_request' \in RequestType \cup {None}
         /\ in_flight_requests' \in Seq(EntryType)
         /\ inner' \in [DOMAIN inner' -> Nat \ {0}]
         /\ DOMAIN inner' \subseteq RequestType
         /\ answered' \in [Masters -> Seq(ResponseType)]
PROOF
<1> DEFINE e == [master |-> pending.master, number |-> pending.number, completion |-> None]
           x == [number |-> pending.number, refused |-> TRUE]
<1>1. e \in EntryType /\ x \in ResponseType /\ pending.master \in Masters
  BY DEF RequestType, EntryType, ResponseType
<1>2. Append(queue, e) \in Seq(EntryType)
  BY <1>1
<1>3. [responses EXCEPT ![pending.master] = Append(@, x)] \in [Masters -> Seq(ResponseType)]
  BY <1>1
<1>4. ASSUME NEW latency \in Latencies,
             inner' = [r \in DOMAIN lower \cup {pending} |->
                         IF r = pending THEN latency ELSE lower[r]]
      PROVE  inner' \in [DOMAIN inner' -> Nat \ {0}] /\ DOMAIN inner' \subseteq RequestType
  <2>1. latency \in Nat \ {0} /\ DOMAIN inner' = DOMAIN lower \cup {pending}
    BY <1>4, BoundsAssumption
  <2> QED BY <1>4, <2>1
<1> HIDE DEF e, x
<1> QED BY <1>2, <1>3, <1>4 DEF TrySubmit, e, x

(* The turn is at most MasterCount - 1 masters away from any master.       *)
LEMMA DistanceBound ==
  ASSUME NEW next \in Masters, NEW m \in Masters
  PROVE  Distance(next, m) \in Nat /\ Distance(next, m) <= MasterCount - 1
PROOF
<1>1. /\ MasterCount \in Nat /\ MasterCount > 0 /\ next \in Nat /\ m \in Nat
      /\ next < MasterCount /\ m < MasterCount
  BY MastersAssumption DEF Masters
<1>2. Distance(next, m) = IF m >= next THEN m - next ELSE m + MasterCount - next
  BY DistanceIs
<1> QED BY <1>1, <1>2

(* What a master has been passed over, and how far the turn is from it,    *)
(* together never exceed the number of the other masters: a grant moves    *)
(* one from the second to the first.                                       *)
LEMMA GrantKeepsTurn ==
  ASSUME TypeOK,
         \A k \in Masters : overtaken[k] + Distance(next_master_index, k) <= MasterCount - 1,
         NEW willing \in SUBSET Masters, willing # {},
         NEW m, m = Selected(next_master_index, willing),
         overtaken' = [other \in Masters |->
                         IF other \in willing \ {m} THEN overtaken[other] + 1 ELSE 0],
         next_master_index' = NextTurn(m)
  PROVE  /\ m \in willing
         /\ next_master_index' \in Masters
         /\ overtaken' \in [Masters -> Nat]
         /\ \A k \in Masters :
              overtaken'[k] + Distance(next_master_index', k) <= MasterCount - 1
PROOF
<1>1. next_master_index \in Masters /\ overtaken \in [Masters -> Nat] /\ MasterCount \in Nat
  BY MastersAssumption DEF TypeOK
<1>2. /\ m \in willing /\ m \in Masters
      /\ \A k \in willing : Distance(next_master_index, m) <= Distance(next_master_index, k)
  BY <1>1, SelectedIsFirst
<1>3. NextTurn(m) \in Masters
  <2>1. /\ MasterCount \in Nat /\ MasterCount > 0 /\ m \in Nat /\ m < MasterCount
        /\ NextTurn(m) = IF m = MasterCount - 1 THEN 0 ELSE m + 1
    BY <1>2, NextTurnIs, MastersAssumption DEF Masters
  <2> QED BY <2>1 DEF Masters
<1>4. ASSUME NEW k \in Masters
      PROVE  overtaken'[k] + Distance(NextTurn(m), k) <= MasterCount - 1
  <2>1. /\ Distance(NextTurn(m), k) \in Nat /\ Distance(NextTurn(m), k) <= MasterCount - 1
        /\ Distance(next_master_index, k) \in Nat /\ overtaken[k] \in Nat
    BY <1>1, <1>3, DistanceBound
  <2>2. CASE k \in willing \ {m}
    <3>1. Distance(NextTurn(m), k) < Distance(next_master_index, k)
      BY <1>1, <1>2, <2>2, TurnComesNearer
    <3>2. overtaken'[k] = overtaken[k] + 1
      BY <2>2
    <3>3. overtaken[k] + Distance(next_master_index, k) <= MasterCount - 1
      OBVIOUS
    <3> QED BY <1>1, <2>1, <3>1, <3>2, <3>3
  <2>3. CASE k \notin willing \ {m}
    <3>1. overtaken'[k] = 0
      BY <2>3
    <3> QED BY <2>1, <3>1
  <2> QED BY <2>2, <2>3
<1>5. overtaken' \in [Masters -> Nat]
  BY <1>1
<1> QED BY <1>2, <1>3, <1>4, <1>5

(* What a tick hands to the choice of the next request: the queue without  *)
(* the entries it delivered, and the answers with their responses.         *)
LEMMA PollKeepsInv ==
  ASSUME Inv, NEW queue, queue = Undelivered(Polled),
         NEW responses,
         responses = [m \in Masters |-> answered[m] \o ResponsesTo(m, Delivered(Polled))]
  PROVE  /\ queue \in Seq(EntryType)
         /\ responses \in [Masters -> Seq(ResponseType)]
         /\ \A m \in Masters :
              Placed(m, responses[m], queue, pending_request, issued[m])
PROOF
<1>1. /\ Polled \in Seq(EntryType) /\ DOMAIN Polled = DOMAIN in_flight_requests
      /\ \A i \in DOMAIN Polled :
           /\ Polled[i].master = in_flight_requests[i].master
           /\ Polled[i].number = in_flight_requests[i].number
  BY PolledKeepsEntries DEF Inv
<1>2. ASSUME NEW m \in Masters
      PROVE  /\ queue \in Seq(EntryType)
             /\ responses[m] \in Seq(ResponseType)
             /\ Placed(m, responses[m], queue, pending_request, issued[m])
  <2>1. answered[m] \in Seq(ResponseType) /\ issued[m] \in Nat
    BY BoundsAssumption DEF Inv, TypeOK
  <2>2. InOrder(m, answered[m], Polled)
    <3> DEFINE done == answered[m]
               q == in_flight_requests
               p == Polled
    <3>1. InOrder(m, done, q)
      BY DEF Inv, Placed
    <3>2. /\ DOMAIN p = DOMAIN q
          /\ \A i \in DOMAIN p : p[i].master = q[i].master /\ p[i].number = q[i].number
      BY <1>1
    <3> HIDE DEF done, q, p
    <3>3. InOrder(m, done, p)
      <4>1. ASSUME NEW i \in DOMAIN p, NEW j \in DOMAIN p, i < j,
                   p[i].master = m, p[j].master = m
            PROVE  p[i].number < p[j].number
        BY <3>1, <3>2, <4>1 DEF InOrder
      <4>2. ASSUME NEW i \in DOMAIN done, NEW j \in DOMAIN p, p[j].master = m
            PROVE  /\ done[i].number # p[j].number
                   /\ ~done[i].refused => done[i].number < p[j].number
        BY <3>1, <3>2, <4>2 DEF InOrder
      <4> QED BY <3>1, <4>1, <4>2 DEF InOrder
    <3> QED BY <3>3 DEF done, p
  <2>3. Counted(m, answered[m], Polled, pending_request, issued[m])
    <3>1. Counted(m, answered[m], in_flight_requests, pending_request, issued[m])
      BY DEF Inv, Placed
    <3> QED BY <1>1, <3>1 DEF Counted
  <2>4. Outstanding(m, pending_request, Polled) <= Window[m]
    <3>1. {i \in DOMAIN Polled : Polled[i].master = m}
            = {i \in DOMAIN in_flight_requests : in_flight_requests[i].master = m}
      BY <1>1
    <3>2. Outstanding(m, pending_request, Polled)
            = Outstanding(m, pending_request, in_flight_requests)
      BY <3>1 DEF Outstanding
    <3> QED BY <3>2 DEF Inv, Placed
  <2>5. Placed(m, answered[m], Polled, pending_request, issued[m])
    BY <2>2, <2>3, <2>4 DEF Placed
  <2> QED BY <1>1, <2>1, <2>5, PollKeepsPlaced
<1>3. 0 \in Masters
  BY MastersAssumption DEF Masters
<1>4. queue \in Seq(EntryType)
  BY <1>2, <1>3
<1>5. responses \in [Masters -> Seq(ResponseType)]
  BY <1>2
<1> QED BY <1>2, <1>4, <1>5

(* A tick that submits the request left over from an earlier one.          *)
LEMMA ResubmitKeepsInv ==
  ASSUME Inv,
         NEW heard,
         Resubmit(Undelivered(Polled), InnerLeft,
                  [m \in Masters |-> answered[m] \o ResponsesTo(m, Delivered(Polled))], heard),
         cpu' = CpuAfter(cpu_reserved')
  PROVE  Inv'
PROOF
<1> DEFINE queue == Undelivered(Polled)
           responses == [m \in Masters |-> answered[m] \o ResponsesTo(m, Delivered(Polled))]
<1>1. /\ queue \in Seq(EntryType)
      /\ responses \in [Masters -> Seq(ResponseType)]
      /\ \A m \in Masters : Placed(m, responses[m], queue, pending_request, issued[m])
  BY PollKeepsInv
<1>2. /\ pending_request # None /\ cpu_reserved' = TRUE
      /\ TrySubmit(pending_request, queue, InnerLeft, responses)
      /\ wants' \in MayChangeMind(heard \cup {pending_request.master}, wants, issued)
      /\ UNCHANGED <<next_master_index, issued, overtaken>>
  BY DEF Resubmit
<1> HIDE DEF queue, responses
<1>3. pending_request \in RequestType
  BY <1>2 DEF Inv, TypeOK
<1>4. /\ DOMAIN InnerLeft \in SUBSET RequestType
      /\ InnerLeft \in [DOMAIN InnerLeft -> Nat \ {0}]
  BY PolledKeepsEntries DEF Inv
<1>5. /\ pending_request' \in RequestType \cup {None}
      /\ in_flight_requests' \in Seq(EntryType)
      /\ inner' \in [DOMAIN inner' -> Nat \ {0}]
      /\ DOMAIN inner' \subseteq RequestType
      /\ answered' \in [Masters -> Seq(ResponseType)]
  BY <1>1, <1>2, <1>3, <1>4, SubmitKeepsTypes
<1>6. ASSUME NEW m \in Masters
      PROVE  Placed(m, answered'[m], in_flight_requests', pending_request', issued[m])
  <2>1. issued[m] \in Nat /\ Placed(m, responses[m], queue, pending_request, issued[m])
    BY <1>1, BoundsAssumption DEF Inv, TypeOK
  <2> QED BY <1>1, <1>2, <1>3, <2>1, SubmitKeepsPlaced
<1>7. wants' \in [Masters -> BOOLEAN] /\ cpu' \in {"idle", "asking"}
  BY <1>2 DEF MayChangeMind, CpuAfter, Inv, TypeOK
<1>8. TypeOK'
  BY <1>2, <1>5, <1>7 DEF Inv, TypeOK
<1> QED BY <1>2, <1>6, <1>8 DEF Inv

(* A tick that asks the masters and submits the request of one of them.    *)
LEMMA GrantKeepsInv ==
  ASSUME Inv, NEW heard, NEW wanting \in MayChangeMind(heard, wants, issued),
         Grant(Undelivered(Polled), InnerLeft,
               [m \in Masters |-> answered[m] \o ResponsesTo(m, Delivered(Polled))], wanting),
         cpu' = CpuAfter(cpu_reserved')
  PROVE  Inv'
PROOF
<1> DEFINE queue == Undelivered(Polled)
           responses == [m \in Masters |-> answered[m] \o ResponsesTo(m, Delivered(Polled))]
           willing == Willing(queue, wanting)
           m == Selected(next_master_index, willing)
           r == Request(m, issued[m] + 1)
<1>1. /\ queue \in Seq(EntryType)
      /\ responses \in [Masters -> Seq(ResponseType)]
      /\ \A k \in Masters : Placed(k, responses[k], queue, pending_request, issued[k])
  BY PollKeepsInv
<1>2. /\ pending_request = None /\ willing # {}
      /\ next_master_index' = NextTurn(m) /\ cpu_reserved' = TRUE
      /\ issued' = [issued EXCEPT ![m] = @ + 1]
      /\ overtaken' = [other \in Masters |->
                         IF other \in willing \ {m} THEN overtaken[other] + 1 ELSE 0]
      /\ TrySubmit(r, queue, InnerLeft, responses)
      /\ wants' \in MayChangeMind({m}, wanting, [issued EXCEPT ![m] = @ + 1])
  BY DEF Grant
<1> HIDE DEF queue, responses
<1>3. willing \in SUBSET Masters
  BY DEF Willing
<1>4. \A k \in Masters : overtaken[k] + Distance(next_master_index, k) <= MasterCount - 1
  BY DEF Inv
<1>5. m = Selected(next_master_index, willing) /\ TypeOK
  BY DEF Inv
<1> HIDE DEF m, willing
<1>6. /\ m \in willing /\ m \in Masters
      /\ next_master_index' \in Masters
      /\ overtaken' \in [Masters -> Nat]
      /\ \A k \in Masters :
           overtaken'[k] + Distance(next_master_index', k) <= MasterCount - 1
  BY <1>2, <1>3, <1>4, <1>5, GrantKeepsTurn
<1>7. wanting[m] /\ Outstanding(m, None, queue) < Window[m]
  BY <1>6 DEF Willing, willing
<1>8. /\ issued \in [Masters -> 0 .. MaxRequests] /\ MaxRequests \in Nat
      /\ issued[m] < MaxRequests
  BY <1>6, <1>7, BoundsAssumption DEF MayChangeMind, Inv, TypeOK
<1>9. /\ issued[m] \in 0 .. (MaxRequests - 1) /\ issued[m] + 1 \in 1 .. MaxRequests
      /\ r \in RequestType
  <2>1. issued[m] \in 0 .. MaxRequests
    BY <1>6, <1>8
  <2>2. issued[m] \in 0 .. (MaxRequests - 1) /\ issued[m] + 1 \in 1 .. MaxRequests
    BY <1>8, <2>1
  <2> QED BY <1>6, <2>2 DEF RequestType, Request
<1>10. issued' \in [Masters -> 0 .. MaxRequests]
  <2>1. issued[m] + 1 \in 0 .. MaxRequests
    BY <1>8, <1>9
  <2> QED BY <1>2, <1>8, <2>1
<1>11. ASSUME NEW k \in Masters
       PROVE  Placed(k, responses[k], queue, r, issued'[k])
  <2>1. Placed(k, responses[k], queue, None, issued[k])
    BY <1>1, <1>2
  <2>2. issued[k] \in Nat /\ responses[k] \in Seq(ResponseType)
    BY <1>1, <1>8
  <2>3. issued'[k] = IF k = m THEN issued[k] + 1 ELSE issued[k]
    BY <1>2, <1>8
  <2>4. k = m => /\ Outstanding(m, None, queue) < Window[m]
                 /\ issued[m] + 1 = issued[k] + 1
    BY <1>7
  <2>5. Placed(k, responses[k], queue, Request(m, issued[m] + 1),
               IF k = m THEN issued[k] + 1 ELSE issued[k])
    BY <1>1, <1>6, <1>9, <2>1, <2>2, <2>4, GrantKeepsPlaced
  <2> QED BY <2>3, <2>5
<1> HIDE DEF r
<1>12. /\ DOMAIN InnerLeft \in SUBSET RequestType
       /\ InnerLeft \in [DOMAIN InnerLeft -> Nat \ {0}]
  BY PolledKeepsEntries DEF Inv
<1>13. /\ pending_request' \in RequestType \cup {None}
       /\ in_flight_requests' \in Seq(EntryType)
       /\ inner' \in [DOMAIN inner' -> Nat \ {0}]
       /\ DOMAIN inner' \subseteq RequestType
       /\ answered' \in [Masters -> Seq(ResponseType)]
  BY <1>1, <1>2, <1>9, <1>12, SubmitKeepsTypes
<1>14. ASSUME NEW k \in Masters
       PROVE  Placed(k, answered'[k], in_flight_requests', pending_request', issued'[k])
  <2>1. issued'[k] \in Nat /\ Placed(k, responses[k], queue, r, issued'[k])
    BY <1>8, <1>10, <1>11
  <2> QED BY <1>1, <1>2, <1>9, <2>1, SubmitKeepsPlaced
<1>15. wants' \in [Masters -> BOOLEAN] /\ cpu' \in {"idle", "asking"}
  BY <1>2 DEF MayChangeMind, CpuAfter, Inv, TypeOK
<1>16. TypeOK'
  BY <1>2, <1>6, <1>10, <1>13, <1>15 DEF TypeOK
<1> QED BY <1>6, <1>14, <1>16 DEF Inv

(* A tick in which no master has a request.                                *)
LEMMA IdleKeepsInv ==
  ASSUME Inv, NEW heard, NEW wanting \in MayChangeMind(heard, wants, issued),
         Idle(Undelivered(Polled), InnerLeft,
              [m \in Masters |-> answered[m] \o ResponsesTo(m, Delivered(Polled))], wanting),
         cpu' = CpuAfter(cpu_reserved')
  PROVE  Inv'
PROOF
<1> DEFINE queue == Undelivered(Polled)
           responses == [m \in Masters |-> answered[m] \o ResponsesTo(m, Delivered(Polled))]
<1>1. /\ queue \in Seq(EntryType)
      /\ responses \in [Masters -> Seq(ResponseType)]
      /\ \A m \in Masters : Placed(m, responses[m], queue, pending_request, issued[m])
  BY PollKeepsInv
<1>2. /\ cpu_reserved' = FALSE /\ pending_request = None /\ pending_request' = None
      /\ in_flight_requests' = queue /\ inner' = InnerLeft /\ answered' = responses
      /\ wants' = wanting /\ overtaken' = [m \in Masters |-> 0]
      /\ UNCHANGED <<next_master_index, issued>>
  BY DEF Idle
<1> HIDE DEF queue, responses
<1>3. /\ DOMAIN InnerLeft \subseteq RequestType
      /\ InnerLeft \in [DOMAIN InnerLeft -> Nat \ {0}]
  BY PolledKeepsEntries DEF Inv
<1>4. wants' \in [Masters -> BOOLEAN] /\ cpu' \in {"idle", "asking"}
  BY <1>2 DEF MayChangeMind, CpuAfter, Inv, TypeOK
<1>5. TypeOK'
  BY <1>1, <1>2, <1>3, <1>4 DEF Inv, TypeOK
<1>6. ASSUME NEW m \in Masters
      PROVE  /\ Placed(m, answered'[m], in_flight_requests', pending_request', issued'[m])
             /\ overtaken'[m] + Distance(next_master_index', m) <= MasterCount - 1
  <2>1. Placed(m, answered'[m], in_flight_requests', pending_request', issued'[m])
    BY <1>1, <1>2
  <2>2. overtaken'[m] = 0 /\ next_master_index' = next_master_index
    BY <1>2
  <2>3. /\ Distance(next_master_index, m) \in Nat
        /\ Distance(next_master_index, m) <= MasterCount - 1
    BY DistanceBound DEF Inv, TypeOK
  <2> QED BY <2>1, <2>2, <2>3
<1> QED BY <1>5, <1>6 DEF Inv

(* Nothing is anywhere: the state a machine starts in and a reset leaves.  *)
LEMMA NothingIsPlaced ==
  ASSUME NEW m \in Masters
  PROVE  Placed(m, << >>, << >>, None, 0)
PROOF
<1>1. InOrder(m, << >>, << >>)
  BY DEF InOrder
<1>2. Counted(m, << >>, << >>, None, 0)
  BY DEF Counted
<1>3. {i \in DOMAIN << >> : << >>[i].master = m} = {}
  OBVIOUS
<1>4. Outstanding(m, None, << >>) = 0
  BY <1>3, FS_EmptySet DEF Outstanding
<1>5. Window[m] \in Nat
  BY MastersAssumption
<1> QED BY <1>1, <1>2, <1>4, <1>5 DEF Placed

(* The invariant holds at the start.                                       *)
LEMMA InitInv == Init => Inv
PROOF
<1> SUFFICES ASSUME Init PROVE Inv
  OBVIOUS
<1>1. 0 \in Masters /\ MaxRequests \in Nat
  BY MastersAssumption, BoundsAssumption DEF Masters
<1>2. TypeOK
  BY <1>1 DEF Init, TypeOK
<1>3. ASSUME NEW m \in Masters
      PROVE  /\ Placed(m, answered[m], in_flight_requests, pending_request, issued[m])
             /\ overtaken[m] + Distance(next_master_index, m) <= MasterCount - 1
  <2>1. /\ answered[m] = << >> /\ in_flight_requests = << >> /\ pending_request = None
        /\ issued[m] = 0 /\ overtaken[m] = 0 /\ next_master_index = 0
    BY DEF Init
  <2>2. Distance(0, m) \in Nat /\ Distance(0, m) <= MasterCount - 1
    BY <1>1, DistanceBound
  <2> QED BY <2>1, <2>2, NothingIsPlaced
<1> QED BY <1>2, <1>3 DEF Inv

(* A reset brings the initial state back.                                  *)
LEMMA ResetKeepsInv == Reset => Inv'
PROOF
<1> SUFFICES ASSUME Reset PROVE Inv'
  OBVIOUS
<1>1. 0 \in Masters /\ MaxRequests \in Nat
  BY MastersAssumption, BoundsAssumption DEF Masters
<1>2. TypeOK'
  BY <1>1 DEF Reset, TypeOK
<1>3. ASSUME NEW m \in Masters
      PROVE  /\ Placed(m, answered'[m], in_flight_requests', pending_request', issued'[m])
             /\ overtaken'[m] + Distance(next_master_index', m) <= MasterCount - 1
  <2>1. /\ answered'[m] = << >> /\ in_flight_requests' = << >> /\ pending_request' = None
        /\ issued'[m] = 0 /\ overtaken'[m] = 0 /\ next_master_index' = 0
    BY DEF Reset
  <2>2. Distance(0, m) \in Nat /\ Distance(0, m) <= MasterCount - 1
    BY <1>1, DistanceBound
  <2> QED BY <2>1, <2>2, NothingIsPlaced
<1> QED BY <1>2, <1>3 DEF Inv

(* Every step keeps the invariant.                                         *)
LEMMA NextKeepsInv == Inv /\ [Next]_vars => Inv'
PROOF
<1> SUFFICES ASSUME Inv, [Next]_vars PROVE Inv'
  OBVIOUS
<1>1. CASE Tick
  <2> DEFINE queue == Undelivered(Polled)
             delivered == Delivered(Polled)
             responses == [m \in Masters |-> answered[m] \o ResponsesTo(m, delivered)]
             heard == {delivered[n].master : n \in DOMAIN delivered}
  <2>1. cpu' = CpuAfter(cpu_reserved')
    BY <1>1 DEF Tick
  <2>2. \/ Resubmit(queue, InnerLeft, responses, heard)
        \/ \E wanting \in MayChangeMind(heard, wants, issued) :
             \/ Grant(queue, InnerLeft, responses, wanting)
             \/ Idle(queue, InnerLeft, responses, wanting)
    BY <1>1, ZenonT(40) DEF Tick, ArbiterTick
  <2>3. CASE Resubmit(queue, InnerLeft, responses, heard)
    BY <2>1, <2>3, ResubmitKeepsInv
  <2>4. ASSUME NEW wanting \in MayChangeMind(heard, wants, issued),
               Grant(queue, InnerLeft, responses, wanting)
        PROVE  Inv'
    BY <2>1, <2>4, GrantKeepsInv
  <2>5. ASSUME NEW wanting \in MayChangeMind(heard, wants, issued),
               Idle(queue, InnerLeft, responses, wanting)
        PROVE  Inv'
    BY <2>1, <2>5, IdleKeepsInv
  <2> QED BY <2>2, <2>3, <2>4, <2>5
<1>2. CASE Reset
  BY <1>2, ResetKeepsInv
<1>3. ASSUME \/ CpuAsks
             \/ \E m \in Masters : MasterWants(m)
             \/ UNCHANGED vars
      PROVE  Inv'
  <2>1. UNCHANGED <<next_master_index, pending_request, in_flight_requests, cpu_reserved,
                    inner, issued, answered, overtaken>>
    BY <1>3 DEF CpuAsks, MasterWants, vars
  <2>2. wants' \in [Masters -> BOOLEAN] /\ cpu' \in {"idle", "asking"}
    BY <1>3 DEF CpuAsks, MasterWants, vars, Inv, TypeOK
  <2>3. TypeOK'
    BY <2>1, <2>2 DEF Inv, TypeOK
  <2> QED BY <2>1, <2>3 DEF Inv
<1> QED BY <1>1, <1>2, <1>3 DEF Next

(* The inductive invariant holds throughout: what select_next_request,     *)
(* try_submit_pending_request and poll_in_flight_requests keep true        *)
(* between them, with any number of masters, any windows and any latencies *)
(* and any order of answers of the lower bus.                              *)
THEOREM InvariantHolds == Spec => []Inv
PROOF
<1> QED BY InitInv, NextKeepsInv, PTL DEF Spec

(* The arbiter's state keeps its types: the turn is always the index of a  *)
(* master, and the entries in flight are requests some master issued.      *)
THEOREM TypeCorrect == Spec => []TypeOK
PROOF
<1>1. Inv => TypeOK
  BY DEF Inv
<1> QED BY <1>1, InvariantHolds, PTL

(* poll_in_flight_requests hands each master its responses in the order in *)
(* which its accepted requests were submitted, however the lower bus       *)
(* reorders its answers.                                                   *)
THEOREM ResponsesKeepTheirOrder == Spec => []AcceptedInOrder
PROOF
<1>1. Inv => AcceptedInOrder
  <2> SUFFICES ASSUME Inv, NEW m \in Masters,
                      NEW i \in DOMAIN answered[m], NEW j \in DOMAIN answered[m],
                      i < j, ~answered[m][i].refused, ~answered[m][j].refused
               PROVE  answered[m][i].number < answered[m][j].number
    BY DEF AcceptedInOrder
  <2>1. InOrder(m, answered[m], in_flight_requests)
    BY DEF Inv, Placed
  <2> QED BY <2>1 DEF InOrder
<1> QED BY <1>1, InvariantHolds, PTL

(* select_next_request passes a master that could be served over at most   *)
(* once for each other master, whatever the windows are.                   *)
THEOREM RoundRobin == Spec => []NoStarvation
PROOF
<1>1. Inv => NoStarvation
  <2> SUFFICES ASSUME Inv, NEW m \in Masters PROVE overtaken[m] < MasterCount
    BY DEF NoStarvation
  <2>1. /\ overtaken[m] \in Nat /\ MasterCount \in Nat
        /\ overtaken[m] + Distance(next_master_index, m) <= MasterCount - 1
    BY MastersAssumption DEF Inv, TypeOK
  <2>2. Distance(next_master_index, m) \in Nat
    BY DistanceBound DEF Inv, TypeOK
  <2> QED BY <2>1, <2>2
<1> QED BY <1>1, InvariantHolds, PTL

(* No request is lost, answered twice or held in two places: the requests  *)
(* of a master are exactly those it was answered, those in flight and the  *)
(* one pending, and no more are unanswered than its window allows.         *)
THEOREM NoRequestLost == Spec => []EachRequestInOnePlace
PROOF
<1>1. Inv => EachRequestInOnePlace
  <2> SUFFICES ASSUME Inv, NEW m \in Masters
               PROVE  EachRequestInOnePlace!(m)
    BY DEF EachRequestInOnePlace
  <2> DEFINE q == in_flight_requests
             a == answered[m]
             count == issued[m]
             mine == {i \in DOMAIN q : q[i].master = m}
             done == {a[i].number : i \in DOMAIN a}
             held == {q[i].number : i \in mine}
             waiting == {n \in 1 .. MaxRequests : pending_request = Request(m, n)}
  <2>1. /\ InOrder(m, a, q) /\ Counted(m, a, q, pending_request, count)
        /\ Outstanding(m, pending_request, q) <= Window[m]
    BY DEF Inv, Placed
  <2>2. /\ q \in Seq(EntryType) /\ a \in Seq(ResponseType) /\ count \in 0 .. MaxRequests
        /\ MaxRequests \in Nat /\ pending_request \in RequestType \cup {None}
    BY BoundsAssumption DEF Inv, TypeOK
  <2>3. ASSUME NEW n \in waiting
        PROVE  /\ pending_request # None /\ pending_request.master = m
               /\ pending_request.number = n /\ n \in 1 .. MaxRequests
    <3>1. n \in 1 .. MaxRequests /\ pending_request = Request(m, n)
      OBVIOUS
    <3>2. Request(m, n) \in RequestType
      BY <3>1 DEF Request, RequestType
    <3> QED BY <3>1, <3>2, BoundsAssumption DEF Request
  <2>4. ASSUME NEW n, pending_request # None, pending_request.master = m,
               pending_request.number = n
        PROVE  n \in waiting
    <3>1. pending_request \in RequestType
      BY <2>2, <2>4
    <3>2. pending_request = Request(m, n) /\ n \in 1 .. MaxRequests
      BY <2>4, <3>1 DEF Request, RequestType
    <3> QED BY <3>2
  <2> HIDE DEF q, a, count, waiting
  <2>5. ASSUME NEW i \in DOMAIN a PROVE a[i].number \in 1 .. count
    <3>1. a[i] \in ResponseType
      BY <2>2
    <3>2. a[i].number \in 1 .. MaxRequests
      BY <3>1 DEF ResponseType
    <3>3. a[i].number <= count
      BY <2>1 DEF Counted
    <3> QED BY <2>2, <3>2, <3>3
  <2>6. ASSUME NEW i \in mine PROVE q[i].number \in 1 .. count
    <3>1. i \in DOMAIN q /\ q[i].master = m
      OBVIOUS
    <3>2. q[i] \in EntryType
      BY <2>2, <3>1
    <3>3. q[i].number \in 1 .. MaxRequests
      BY <3>2 DEF EntryType
    <3>4. q[i].number <= count
      BY <2>1, <3>1 DEF Counted
    <3> QED BY <2>2, <3>3, <3>4
  <2>7. \A i, j \in DOMAIN a : a[i].number = a[j].number => i = j
    BY <2>1 DEF InOrder
  <2>8. ASSUME NEW i \in mine, NEW j \in mine, q[i].number = q[j].number PROVE i = j
    <3>1. i \in Nat /\ j \in Nat
      BY <2>2
    <3>2. i < j => q[i].number < q[j].number
      BY <2>1 DEF InOrder
    <3>3. j < i => q[j].number < q[i].number
      BY <2>1 DEF InOrder
    <3>4. q[i].number \in Nat /\ q[j].number \in Nat
      BY <2>2, <2>6
    <3> QED BY <2>8, <3>1, <3>2, <3>3, <3>4
  <2>9. done \cap held = {}
    BY <2>1 DEF InOrder
  <2>10. (done \cup held) \cap waiting = {}
    BY <2>1, <2>3 DEF Counted
  <2>11. done \cup held \cup waiting \subseteq 1 .. count
    <3>1. ASSUME NEW n \in waiting PROVE n \in 1 .. count
      BY <2>1, <2>2, <2>3 DEF Counted
    <3> QED BY <2>5, <2>6, <3>1
  <2>12. 1 .. count \subseteq done \cup held \cup waiting
    BY <2>1, <2>4 DEF Counted
  <2> HIDE DEF mine, done, held
  <2>13. /\ \A i, j \in DOMAIN a : a[i].number = a[j].number => i = j
         /\ \A i, j \in mine : q[i].number = q[j].number => i = j
         /\ done \cap held = {} /\ (done \cup held) \cap waiting = {}
         /\ done \cup held \cup waiting = 1 .. count
         /\ Outstanding(m, pending_request, q) <= Window[m]
    BY <2>1, <2>7, <2>8, <2>9, <2>10, <2>11, <2>12
  <2> QED BY <2>13, Zenon DEF mine, done, held, waiting, q, a, count
<1> QED BY <1>1, InvariantHolds, PTL
=============================================================================
