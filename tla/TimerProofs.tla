---------------------------- MODULE TimerProofs ----------------------------
(***************************************************************************)
(* The timer list stays one closed ring in the order of expiry, whatever   *)
(* the program and the timer functions do with the API while the walk of   *)
(* dispatch_timer goes on, for every finite set of timers.                 *)
(***************************************************************************)
EXTENDS EventLoop, ListHeadProofs

-----------------------------------------------------------------------------
(* The timer list.                                                         *)

Node == Timer \cup {timer_list}

EntriesOf(h) == Entries(h, timer_list)
ListOf(h)    == OnList(h, timer_list)

Sorted(s, exp) ==
  \A j, k \in 1 .. Len(s) : j < k => exp[s[j]] <= exp[s[k]]

\* The list is a ring in the order of expiry, and no other entry points into
\* it.
GoodHeap(h, exp) ==
  /\ IsHeap(h, Node)
  /\ IsRing(h, Node, timer_list, EntriesOf(h))
  /\ Sorted(EntriesOf(h), exp)
  /\ \A t \in Timer \ ListOf(h) : h.next[t] \in {NULL, t} /\ h.prev[t] = h.next[t]

LEMMA Nodes ==
  /\ IsFiniteSet(Node) /\ NULL \notin Node /\ timer_list \in Node
  /\ \A t \in Timer : t \in Node /\ t # timer_list
<1>1. IsFiniteSet(Timer)
  BY TimerAssumption
<1>2. IsFiniteSet(Timer \cup {timer_list})
  BY <1>1, FS_AddElement
<1>. QED
  BY <1>2, TimerAssumption DEF Node

\* The list, as a set, of a heap that holds the ring of s.
LEMMA RingMembers ==
  ASSUME NEW h, NEW s, IsHeap(h, Node), IsRing(h, Node, timer_list, s)
  PROVE  /\ EntriesOf(h) = s
         /\ s \in Seq(Timer) /\ Len(s) \in Nat
         /\ ListOf(h) = {s[k] : k \in 1 .. Len(s)}
         /\ \A k \in 1 .. Len(s) : RingAt(s, timer_list, k) = s[k] /\ s[k] \in Timer
         /\ \A i, j \in 1 .. Len(s) : s[i] = s[j] => i = j
<1>. DEFINE L == Len(s)
<1>1. EntriesOf(h) = s
  BY Nodes, RingEntries DEF EntriesOf
<1>2. s \in Seq(Node) /\ L \in Nat
  BY DEF IsRing
<1>3. ListOf(h) = {s[k] : k \in 1 .. L}
  BY <1>1 DEF ListOf, OnList, EntriesOf
<1>4. \A k \in 1 .. L : RingAt(s, timer_list, k) = s[k] /\ s[k] \in Timer
  <2>. SUFFICES ASSUME NEW k \in 1 .. L
                PROVE  RingAt(s, timer_list, k) = s[k] /\ s[k] \in Timer
    OBVIOUS
  <2>1. /\ k \in 0 .. L /\ 0 \in 0 .. L /\ k # 0 /\ ~(0 \in 1 .. L)
    BY <1>2
  <2>2. RingAt(s, timer_list, k) = s[k] /\ RingAt(s, timer_list, 0) = timer_list
    BY <2>1 DEF RingAt
  <2>3. s[k] # timer_list
    BY <2>1, <2>2 DEF IsRing
  <2>4. s[k] \in Node
    BY <1>2
  <2>. QED
    BY <2>2, <2>3, <2>4 DEF Node
<1>5. \A i, j \in 1 .. L : s[i] = s[j] => i = j
  <2>1. \A i \in 1 .. L : i \in 0 .. L
    BY <1>2
  <2>2. \A i, j \in 0 .. L :
          RingAt(s, timer_list, i) = RingAt(s, timer_list, j) => i = j
    BY DEF IsRing
  <2>3. ASSUME NEW i \in 1 .. L, NEW j \in 1 .. L, s[i] = s[j]
        PROVE  i = j
    <3>1. RingAt(s, timer_list, i) = RingAt(s, timer_list, j)
      BY <1>4, <2>3
    <3>. QED
      BY <2>1, <2>2, <3>1
  <2>. QED
    BY <2>3
<1>6. s \in Seq(Timer)
  <2>1. s \in [1 .. L -> Node]
    BY <1>2, LenProperties
  <2>. HIDE DEF L
  <2>2. s \in [1 .. L -> Timer]
    BY <1>4, <2>1
  <2>3. s \in UNION {[1 .. n -> Timer] : n \in Nat}
    BY <1>2, <2>2
  <2>. QED
    BY <2>3, SeqDef
<1>. QED
  BY <1>1, <1>2, <1>3, <1>4, <1>5, <1>6

\* A node that is not on the ring is an idle timer.
LEMMA OffTheRing ==
  ASSUME NEW h, NEW s, IsHeap(h, Node), IsRing(h, Node, timer_list, s), NEW y \in Node
  PROVE  (\A k \in 0 .. Len(s) : RingAt(s, timer_list, k) # y)
           <=> y \in Timer \ ListOf(h)
<1>1. /\ Len(s) \in Nat
      /\ ListOf(h) = {s[k] : k \in 1 .. Len(s)}
      /\ \A k \in 1 .. Len(s) : RingAt(s, timer_list, k) = s[k] /\ s[k] \in Timer
  BY RingMembers
<1>2. RingAt(s, timer_list, 0) = timer_list /\ 0 \in 0 .. Len(s)
  <2>1. ~(0 \in 1 .. Len(s)) /\ 0 \in 0 .. Len(s)
    BY <1>1
  <2>. QED
    BY <2>1 DEF RingAt
<1>3. \A k \in 0 .. Len(s) : k = 0 \/ k \in 1 .. Len(s)
  BY <1>1
<1>4. \A k \in 1 .. Len(s) : k \in 0 .. Len(s)
  BY <1>1
<1>. QED
  BY <1>1, <1>2, <1>3, <1>4, Nodes DEF Node

\* The links of the list stay on the list.
LEMMA NextStaysOnList ==
  ASSUME NEW h, NEW exp, GoodHeap(h, exp)
  PROVE  /\ \A y \in ListOf(h) \cup {timer_list} :
              h.next[y] \in ListOf(h) \cup {timer_list}
         /\ \A y \in Node : h.next[y] # NULL =>
              h.next[y] \in Node /\ h.next[h.next[y]] # NULL
         /\ ListOf(h) \subseteq Timer
         /\ \A y \in ListOf(h) \cup {timer_list} : h.next[y] # NULL
<1>. DEFINE s == EntriesOf(h)
            L == Len(s)
            a(k) == RingAt(s, timer_list, k)
<1>1. /\ IsHeap(h, Node) /\ IsRing(h, Node, timer_list, s)
      /\ \A t \in Timer \ ListOf(h) : h.next[t] \in {NULL, t}
  BY DEF GoodHeap
<1>2. /\ L \in Nat /\ ListOf(h) = {s[k] : k \in 1 .. L}
      /\ \A k \in 1 .. L : a(k) = s[k] /\ s[k] \in Timer
  BY <1>1, RingMembers
<1>3. \A k \in 0 .. L : h.next[a(k)] = a(k + 1)
  BY <1>1 DEF IsRing
<1>4. \A k : k \notin 1 .. L => a(k) = timer_list
  BY DEF RingAt
<1>. HIDE DEF s, L, a
<1>5. \A y \in ListOf(h) \cup {timer_list} : \E k \in 0 .. L : y = a(k)
  <2>1. 0 \in 0 .. L /\ 0 \notin 1 .. L /\ \A k \in 1 .. L : k \in 0 .. L
    BY <1>2
  <2>. QED
    BY <1>2, <1>4, <2>1
<1>6. \A k : a(k) \in ListOf(h) \cup {timer_list}
  BY <1>2, <1>4
<1>7. \A y \in ListOf(h) \cup {timer_list} : h.next[y] \in ListOf(h) \cup {timer_list}
  BY <1>3, <1>5, <1>6
<1>8. ListOf(h) \subseteq Timer
  BY <1>2
<1>9. \A y \in ListOf(h) \cup {timer_list} : h.next[y] # NULL
  BY <1>7, <1>8, Nodes
<1>10. \A y \in Node : h.next[y] # NULL =>
         h.next[y] \in Node /\ h.next[h.next[y]] # NULL
  <2>. SUFFICES ASSUME NEW y \in Node, h.next[y] # NULL
                PROVE  h.next[y] \in Node /\ h.next[h.next[y]] # NULL
    OBVIOUS
  <2>1. CASE y \in ListOf(h) \cup {timer_list}
    BY <1>7, <1>8, <1>9, <2>1, Nodes
  <2>2. CASE y \notin ListOf(h) \cup {timer_list}
    BY <1>1, <2>2, Nodes DEF Node
  <2>. QED
    BY <2>1, <2>2
<1>. QED
  BY <1>7, <1>8, <1>9, <1>10

\* What makes a heap good: a ring in order, and idle entries that do not point
\* into it.
LEMMA GoodIf ==
  ASSUME NEW h, NEW exp, NEW s, IsHeap(h, Node), IsRing(h, Node, timer_list, s),
         Sorted(s, exp),
         \A t \in Timer : (\A k \in 0 .. Len(s) : RingAt(s, timer_list, k) # t) =>
           h.next[t] \in {NULL, t} /\ h.prev[t] = h.next[t]
  PROVE  GoodHeap(h, exp) /\ EntriesOf(h) = s
<1>1. EntriesOf(h) = s
  BY RingMembers
<1>2. \A t \in Timer \ ListOf(h) : h.next[t] \in {NULL, t} /\ h.prev[t] = h.next[t]
  BY OffTheRing, Nodes
<1>. QED
  BY <1>1, <1>2 DEF GoodHeap

\* Min of a nonempty set of naturals is its least element.
LEMMA MinIsLeast ==
  ASSUME NEW S \in SUBSET Nat, S # {}
  PROVE  Min(S) \in S /\ \A y \in S : Min(S) <= y
BY LeastNat DEF Min

\* internal_add_timer puts the timer between those that are due no later and
\* those that are due later.
LEMMA AddSorted ==
  ASSUME NEW h, NEW exp \in [Timer -> Nat], GoodHeap(h, exp),
         NEW t \in Timer, t \notin ListOf(h),
         NEW f, f = internal_add_timer(h, t, exp)
  PROVE  /\ GoodHeap(f, exp)
         /\ \E p \in 1 .. (Len(EntriesOf(h)) + 1) :
              EntriesOf(f) = Inserted(EntriesOf(h), p, t)
         /\ \A y \in Node : h.next[y] # NULL => f.next[y] # NULL
         /\ ListOf(f) = ListOf(h) \cup {t}
<1>. DEFINE s == EntriesOf(h)
            L == Len(s)
            a(k) == RingAt(s, timer_list, k)
            later == {k \in 1 .. L : time_before(exp[t], exp[s[k]])}
            p == IF later = {} THEN L + 1 ELSE Min(later)
<1>1. /\ IsHeap(h, Node) /\ IsRing(h, Node, timer_list, s) /\ Sorted(s, exp)
      /\ \A y \in Timer \ ListOf(h) : h.next[y] \in {NULL, y} /\ h.prev[y] = h.next[y]
  BY DEF GoodHeap
<1>2. /\ s \in Seq(Timer) /\ L \in Nat
      /\ ListOf(h) = {s[k] : k \in 1 .. L}
      /\ \A k \in 1 .. L : a(k) = s[k] /\ s[k] \in Timer
  BY <1>1, RingMembers
<1>3. /\ t \in Node /\ timer_list \in Node /\ NULL \notin Node
      /\ \A k \in 0 .. L : a(k) # t
  BY <1>1, OffTheRing, Nodes
<1>4. \A k \in 0 .. L : h.next[a(k)] = a(k + 1) /\ h.prev[a(k + 1)] = a(k)
  BY <1>1 DEF IsRing
<1>5. a(0) = timer_list /\ a(L + 1) = timer_list
  <2>1. ~(0 \in 1 .. L) /\ ~(L + 1 \in 1 .. L)
    BY <1>2
  <2>. QED
    BY <2>1 DEF RingAt
<1>6. /\ f = IF later = {} THEN list_add_tail(h, t, timer_list)
             ELSE list_add(h, t, h.prev[s[Min(later)]])
      /\ \A k \in later : k \in 1 .. L /\ exp[t] < exp[s[k]]
      /\ \A k \in 1 .. L : k \notin later => ~(exp[t] < exp[s[k]])
      /\ later \in SUBSET (1 .. L)
  BY DEF internal_add_timer, EntriesOf, time_before
<1>7. later # {} => p \in later /\ \A k \in later : p <= k
  <2>1. later \in SUBSET Nat
    BY <1>2, <1>6
  <2>. HIDE DEF later
  <2>. QED
    BY <2>1, MinIsLeast
<1>8. p = IF later = {} THEN L + 1 ELSE Min(later)
  OBVIOUS
<1>. HIDE DEF s, L, a, later, p
<1>9. p \in 1 .. (L + 1) /\ p \in Nat /\ p - 1 \in 0 .. L /\ (p - 1) + 1 = p
  BY <1>2, <1>6, <1>7, <1>8
<1>10. f = list_add_between(h, t, a(p - 1), a(p))
  <2>1. CASE later = {}
    <3>1. f = list_add_between(h, t, h.prev[timer_list], timer_list)
      BY <1>6, <2>1 DEF list_add_tail
    <3>2. p = L + 1 /\ p - 1 = L /\ L \in 0 .. L
      BY <1>2, <1>8, <2>1
    <3>3. h.prev[a(L + 1)] = a(L)
      BY <1>4, <3>2
    <3>. QED
      BY <1>5, <3>1, <3>2, <3>3
  <2>2. CASE later # {}
    <3>1. p \in 1 .. L /\ p = Min(later)
      BY <1>6, <1>7, <1>8, <2>2
    <3>2. a(p) = s[p] /\ h.prev[a(p)] = a(p - 1) /\ h.next[a(p - 1)] = a(p)
      BY <1>2, <1>4, <1>9, <3>1
    <3>3. f = list_add_between(h, t, h.prev[s[p]], h.next[h.prev[s[p]]])
      BY <1>6, <2>2, <3>1 DEF list_add
    <3>. QED
      BY <3>2, <3>3
  <2>. QED
    BY <2>1, <2>2
<1>. DEFINE r == Inserted(s, p, t)
<1>11. /\ IsHeap(f, Node) /\ IsRing(f, Node, timer_list, r)
       /\ \A y \in Node : (\A k \in 0 .. L : a(k) # y) /\ y # t =>
            f.next[y] = h.next[y] /\ f.prev[y] = h.prev[y]
  BY <1>1, <1>3, <1>9, <1>10, AddBetween DEF a, L
<1>12. /\ Len(r) = L + 1 /\ r \in Seq(Timer)
       /\ \A k \in 1 .. (L + 1) :
            r[k] = IF k < p THEN s[k] ELSE IF k = p THEN t ELSE s[k - 1]
       /\ \A k \in 0 .. (L + 2) :
            RingAt(r, timer_list, k) =
              IF k < p THEN a(k) ELSE IF k = p THEN t ELSE a(k - 1)
  <2>1. /\ r \in Seq(Timer) /\ Len(r) = Len(s) + 1
        /\ \A k \in 1 .. (Len(s) + 1) :
             r[k] = IF k < p THEN s[k] ELSE IF k = p THEN t ELSE s[k - 1]
    BY <1>2, <1>9, InsertedIs DEF L
  <2>2. \A head : \A k \in 0 .. (Len(s) + 2) :
          RingAt(Inserted(s, p, t), head, k) =
            IF k < p THEN RingAt(s, head, k)
            ELSE IF k = p THEN t ELSE RingAt(s, head, k - 1)
    BY <1>2, <1>9, InsertedIs DEF L
  <2>. QED
    BY <2>1, <2>2 DEF L, a
<1>. HIDE DEF r
<1>13. Sorted(r, exp)
  <2>0. /\ \A k \in 1 .. L : exp[s[k]] \in Nat
        /\ \A j, k \in 1 .. L : j < k => exp[s[j]] <= exp[s[k]]
        /\ exp[t] \in Nat
    BY <1>1, <1>2 DEF Sorted, L
  <2>1. \A k \in 1 .. L : k < p => exp[s[k]] <= exp[t]
    <3>. SUFFICES ASSUME NEW k \in 1 .. L, k < p PROVE exp[s[k]] <= exp[t]
      OBVIOUS
    <3>1. k \notin later
      BY <1>7, <1>9
    <3>. QED
      BY <1>6, <2>0, <3>1
  <2>2. \A k \in 1 .. L : k >= p => exp[t] <= exp[s[k]]
    <3>. SUFFICES ASSUME NEW k \in 1 .. L, k >= p PROVE exp[t] <= exp[s[k]]
      OBVIOUS
    <3>1. later # {}
      BY <1>2, <1>8
    <3>2. p \in 1 .. L /\ exp[t] < exp[s[p]] /\ (p = k \/ p < k)
      BY <1>6, <1>7, <1>9, <3>1
    <3>3. exp[s[p]] <= exp[s[k]]
      BY <2>0, <3>2
    <3>. QED
      BY <2>0, <3>2, <3>3
  <2>. SUFFICES ASSUME NEW j \in 1 .. (L + 1), NEW k \in 1 .. (L + 1), j < k
                PROVE  exp[r[j]] <= exp[r[k]]
    BY <1>12 DEF Sorted
  <2>3. CASE k < p
    <3>1. j < p /\ j \in 1 .. L /\ k \in 1 .. L
      BY <1>2, <1>9, <2>3
    <3>. QED
      BY <1>12, <2>0, <2>3, <3>1
  <2>4. CASE k = p
    <3>1. j < p /\ j \in 1 .. L /\ ~(k < p)
      BY <1>2, <1>9, <2>4
    <3>. QED
      BY <1>12, <2>1, <2>4, <3>1
  <2>5. CASE k > p /\ j < p
    <3>1. /\ j \in 1 .. L /\ k - 1 \in 1 .. L /\ (j < k - 1 \/ j = k - 1)
          /\ ~(k < p) /\ k # p
      BY <1>2, <1>9, <2>5
    <3>2. k - 1 >= p /\ k - 1 \in 1 .. L /\ j \in 1 .. L
      BY <1>2, <1>9, <2>5
    <3>3. exp[s[j]] <= exp[t] /\ exp[t] <= exp[s[k - 1]]
      BY <2>1, <2>2, <2>5, <3>2
    <3>4. exp[s[j]] <= exp[s[k - 1]]
      BY <2>0, <3>2, <3>3
    <3>. QED
      BY <1>12, <2>5, <3>1, <3>4
  <2>6. CASE k > p /\ j = p
    <3>1. k - 1 >= p /\ k - 1 \in 1 .. L /\ ~(k < p) /\ k # p /\ ~(j < p)
      BY <1>2, <1>9, <2>6
    <3>. QED
      BY <1>12, <2>2, <2>6, <3>1
  <2>7. CASE k > p /\ j > p
    <3>1. /\ k - 1 \in 1 .. L /\ j - 1 \in 1 .. L /\ j - 1 < k - 1
          /\ ~(k < p) /\ k # p /\ ~(j < p) /\ j # p
      BY <1>2, <1>9, <2>7
    <3>. QED
      BY <1>12, <2>0, <3>1
  <2>. QED
    BY <1>9, <2>3, <2>4, <2>5, <2>6, <2>7
<1>14. ASSUME NEW y \in Timer,
              \A k \in 0 .. (L + 1) : RingAt(r, timer_list, k) # y
       PROVE  y # t /\ \A k \in 0 .. L : a(k) # y
  <2>1. y # t
    <3>1. p \in 0 .. (L + 1) /\ p \in 0 .. (L + 2) /\ ~(p < p)
      BY <1>2, <1>9
    <3>. QED
      BY <1>12, <1>14, <3>1
  <2>2. ASSUME NEW k \in 0 .. L
        PROVE  a(k) # y
    <3>1. CASE k < p
      <4>1. k \in 0 .. (L + 1) /\ k \in 0 .. (L + 2)
        BY <1>2
      <4>. QED
        BY <1>12, <1>14, <3>1, <4>1
    <3>2. CASE ~(k < p)
      <4>1. /\ k + 1 \in 0 .. (L + 1) /\ k + 1 \in 0 .. (L + 2) /\ ~(k + 1 < p)
            /\ k + 1 # p /\ (k + 1) - 1 = k
        BY <1>2, <1>9, <3>2
      <4>. QED
        BY <1>12, <1>14, <4>1
    <3>. QED
      BY <3>1, <3>2
  <2>. QED
    BY <2>1, <2>2
<1>15. \A y \in Timer : (\A k \in 0 .. Len(r) : RingAt(r, timer_list, k) # y) =>
         f.next[y] \in {NULL, y} /\ f.prev[y] = f.next[y]
  <2>1. \A y \in Timer : (\A k \in 0 .. L : a(k) # y) =>
          h.next[y] \in {NULL, y} /\ h.prev[y] = h.next[y]
    BY <1>1, OffTheRing, Nodes DEF a, L
  <2>. QED
    BY <1>11, <1>12, <1>14, <2>1, Nodes
<1>16. GoodHeap(f, exp) /\ EntriesOf(f) = r
  BY <1>11, <1>13, <1>15, GoodIf
<1>17. ListOf(f) = ListOf(h) \cup {t}
  <2>1. ListOf(f) = {r[k] : k \in 1 .. (L + 1)}
    BY <1>11, <1>12, RingMembers
  <2>2. \A k \in 1 .. (L + 1) : r[k] \in ListOf(h) \cup {t}
    <3>1. \A k \in 1 .. (L + 1) : /\ k < p => k \in 1 .. L
                                  /\ ~(k < p) /\ k # p => k - 1 \in 1 .. L
      BY <1>2, <1>9
    <3>. QED
      BY <1>2, <1>12, <3>1
  <2>3. t \in ListOf(f)
    <3>1. r[p] = t
      BY <1>9, <1>12
    <3>. QED
      BY <1>9, <2>1, <3>1
  <2>4. ASSUME NEW k \in 1 .. L
        PROVE  s[k] \in ListOf(f)
    <3>1. CASE k < p
      <4>1. k \in 1 .. (L + 1) /\ r[k] = s[k]
        BY <1>2, <1>12, <3>1
      <4>. QED
        BY <2>1, <4>1
    <3>2. CASE ~(k < p)
      <4>1. /\ k + 1 \in 1 .. (L + 1) /\ ~(k + 1 < p) /\ k + 1 # p
            /\ (k + 1) - 1 = k
        BY <1>2, <1>9, <3>2
      <4>2. r[k + 1] = s[k]
        BY <1>12, <4>1
      <4>. QED
        BY <2>1, <4>1, <4>2
    <3>. QED
      BY <3>1, <3>2
  <2>. QED
    BY <1>2, <2>1, <2>2, <2>3, <2>4
<1>18. \A y \in Node : h.next[y] # NULL => f.next[y] # NULL
  <2>. SUFFICES ASSUME NEW y \in Node, h.next[y] # NULL
                PROVE  f.next[y] # NULL
    OBVIOUS
  <2>1. CASE y \in ListOf(f) \cup {timer_list}
    BY <1>16, <2>1, NextStaysOnList
  <2>2. CASE y \notin ListOf(f) \cup {timer_list}
    <3>1. y \in Timer \ ListOf(h) /\ y # t
      BY <1>17, <2>2 DEF Node
    <3>2. \A k \in 0 .. L : a(k) # y
      BY <1>1, <3>1, OffTheRing DEF a, L
    <3>. QED
      BY <1>11, <3>1, <3>2
  <2>. QED
    BY <2>1, <2>2
<1>. QED
  BY <1>9, <1>16, <1>17, <1>18 DEF r, s, L

\* list_del_init of a timer that was linked once: its own entry leaves the
\* list, if it is on it, and nothing else happens.
LEMMA DeleteTimer ==
  ASSUME NEW h, NEW exp, GoodHeap(h, exp),
         NEW t \in Timer, h.next[t] # NULL,
         NEW f, f = list_del_init(h, t)
  PROVE  /\ GoodHeap(f, exp)
         /\ t \in ListOf(h) => \E p \in 1 .. Len(EntriesOf(h)) :
              /\ EntriesOf(h)[p] = t
              /\ EntriesOf(f) = Removed(EntriesOf(h), p)
         /\ t \notin ListOf(h) => f = h
         /\ \A y \in Node : h.next[y] # NULL => f.next[y] # NULL
         /\ ListOf(f) = ListOf(h) \ {t}
         /\ f.next[t] = t
<1>. DEFINE s == EntriesOf(h)
            L == Len(s)
            a(k) == RingAt(s, timer_list, k)
<1>1. /\ IsHeap(h, Node) /\ IsRing(h, Node, timer_list, s) /\ Sorted(s, exp)
      /\ \A y \in Timer \ ListOf(h) : h.next[y] \in {NULL, y} /\ h.prev[y] = h.next[y]
  BY DEF GoodHeap
<1>2. /\ s \in Seq(Timer) /\ L \in Nat
      /\ ListOf(h) = {s[k] : k \in 1 .. L}
      /\ \A k \in 1 .. L : a(k) = s[k] /\ s[k] \in Timer
      /\ \A i, j \in 1 .. L : s[i] = s[j] => i = j
  BY <1>1, RingMembers
<1>3. t \in Node /\ timer_list \in Node
  BY Nodes
<1>4. CASE t \notin ListOf(h)
  <2>1. h.next[t] = t /\ h.prev[t] = t
    BY <1>1, <1>4
  <2>2. f = h
    BY <1>1, <1>3, <2>1, DelInitAgain
  <2>. QED
    BY <1>4, <2>1, <2>2
<1>5. CASE t \in ListOf(h)
  <2>1. PICK p \in 1 .. L : s[p] = t
    BY <1>2, <1>5
  <2>. HIDE DEF s, L, a
  <2>2. t = a(p)
    BY <1>2, <2>1
  <2>. DEFINE r == Removed(s, p)
  <2>3. /\ IsHeap(f, Node) /\ IsRing(f, Node, timer_list, r)
        /\ f.next[t] = t /\ f.prev[t] = t
        /\ \A y \in Node : (\A k \in 0 .. L : a(k) # y) =>
             f.next[y] = h.next[y] /\ f.prev[y] = h.prev[y]
    BY <1>1, <1>3, <2>1, <2>2, DelInit DEF a, L
  <2>4. /\ r \in Seq(Timer) /\ Len(r) = L - 1
        /\ \A k \in 1 .. (L - 1) : r[k] = IF k < p THEN s[k] ELSE s[k + 1]
    BY <1>2, <2>1, RemovedIs DEF L
  <2>. HIDE DEF r
  <2>5. ASSUME NEW k \in 1 .. (L - 1)
        PROVE  /\ k < p => k \in 1 .. L
               /\ ~(k < p) => k + 1 \in 1 .. L
    BY <1>2
  <2>6. Sorted(r, exp)
    <3>1. \A j, k \in 1 .. L : j < k => exp[s[j]] <= exp[s[k]]
      BY <1>1 DEF Sorted, L
    <3>. SUFFICES ASSUME NEW j \in 1 .. (L - 1), NEW k \in 1 .. (L - 1), j < k
                  PROVE  exp[r[j]] <= exp[r[k]]
      BY <2>4 DEF Sorted
    <3>2. \E i, l \in 1 .. L : i < l /\ r[j] = s[i] /\ r[k] = s[l]
      <4>1. CASE k < p
        <5>1. j < p /\ j \in 1 .. L /\ k \in 1 .. L
          BY <1>2, <2>1, <4>1
        <5>. QED
          BY <2>4, <4>1, <5>1
      <4>2. CASE ~(k < p) /\ j < p
        <5>1. j \in 1 .. L /\ k + 1 \in 1 .. L /\ j < k + 1
          BY <1>2
        <5>. QED
          BY <2>4, <4>2, <5>1
      <4>3. CASE ~(k < p) /\ ~(j < p)
        <5>1. j + 1 \in 1 .. L /\ k + 1 \in 1 .. L /\ j + 1 < k + 1
          BY <1>2
        <5>. QED
          BY <2>4, <4>3, <5>1
      <4>. QED
        BY <4>1, <4>2, <4>3
    <3>. QED
      BY <3>1, <3>2
  <2>7. ListOf(f) = ListOf(h) \ {t}
    <3>1. ListOf(f) = {r[k] : k \in 1 .. (L - 1)}
      BY <2>3, <2>4, RingMembers
    <3>2. ASSUME NEW k \in 1 .. (L - 1)
          PROVE  r[k] \in ListOf(h) \ {t}
      <4>1. CASE k < p
        <5>1. k \in 1 .. L /\ k # p
          BY <1>2, <2>1, <4>1
        <5>. QED
          BY <1>2, <2>1, <2>4, <4>1, <5>1
      <4>2. CASE ~(k < p)
        <5>1. k + 1 \in 1 .. L /\ k + 1 # p
          BY <1>2, <2>1, <4>2
        <5>. QED
          BY <1>2, <2>1, <2>4, <4>2, <5>1
      <4>. QED
        BY <4>1, <4>2
    <3>3. ASSUME NEW k \in 1 .. L, s[k] # t
          PROVE  \E j \in 1 .. (L - 1) : r[j] = s[k]
      <4>1. CASE k < p
        <5>1. k \in 1 .. (L - 1)
          BY <1>2, <2>1, <4>1
        <5>. QED
          BY <2>4, <4>1, <5>1
      <4>2. CASE ~(k < p)
        <5>1. k # p /\ k - 1 \in 1 .. (L - 1) /\ ~(k - 1 < p) /\ (k - 1) + 1 = k
          BY <1>2, <2>1, <3>3, <4>2
        <5>. QED
          BY <2>4, <5>1
      <4>. QED
        BY <4>1, <4>2
    <3>. QED
      BY <1>2, <3>1, <3>2, <3>3
  <2>8. ASSUME NEW y \in Timer, y \notin ListOf(f)
        PROVE  f.next[y] \in {NULL, y} /\ f.prev[y] = f.next[y]
    <3>1. CASE y = t
      BY <2>3, <3>1
    <3>2. CASE y # t
      <4>1. y \in Timer \ ListOf(h) /\ y \in Node
        BY <2>7, <2>8, <3>2, Nodes
      <4>2. \A k \in 0 .. L : a(k) # y
        BY <1>1, <4>1, OffTheRing DEF a, L
      <4>. QED
        BY <1>1, <2>3, <4>1, <4>2
    <3>. QED
      BY <3>1, <3>2
  <2>9. EntriesOf(f) = r
    BY <2>3, RingMembers
  <2>10. GoodHeap(f, exp)
    BY <2>3, <2>6, <2>8, <2>9 DEF GoodHeap
  <2>11. \A y \in Node : h.next[y] # NULL => f.next[y] # NULL
    <3>. SUFFICES ASSUME NEW y \in Node, h.next[y] # NULL
                  PROVE  f.next[y] # NULL
      OBVIOUS
    <3>1. CASE y \in ListOf(f) \cup {timer_list}
      BY <2>10, <3>1, NextStaysOnList
    <3>2. CASE y = t
      BY <2>3, <3>2, Nodes
    <3>3. CASE y \notin ListOf(f) \cup {timer_list} /\ y # t
      <4>1. y \in Timer \ ListOf(h)
        BY <2>7, <3>3 DEF Node
      <4>2. \A k \in 0 .. L : a(k) # y
        BY <1>1, <4>1, OffTheRing DEF a, L
      <4>. QED
        BY <2>3, <4>2
    <3>. QED
      BY <3>1, <3>2, <3>3
  <2>. QED
    BY <1>5, <2>1, <2>3, <2>7, <2>9, <2>10, <2>11 DEF r, s, L
<1>. QED
  BY <1>4, <1>5

\* The expiry of an idle timer says nothing about the list.
LEMMA SetExpires ==
  ASSUME NEW h, NEW exp \in [Timer -> Nat], GoodHeap(h, exp),
         NEW t \in Timer, t \notin ListOf(h), NEW e \in Nat
  PROVE  /\ GoodHeap(h, [exp EXCEPT ![t] = e])
         /\ [exp EXCEPT ![t] = e] \in [Timer -> Nat]
<1>. DEFINE s == EntriesOf(h)
            g == [exp EXCEPT ![t] = e]
<1>1. /\ IsHeap(h, Node) /\ IsRing(h, Node, timer_list, s) /\ Sorted(s, exp)
      /\ \A y \in Timer \ ListOf(h) : h.next[y] \in {NULL, y} /\ h.prev[y] = h.next[y]
  BY DEF GoodHeap
<1>2. ListOf(h) = {s[k] : k \in 1 .. Len(s)} /\ \A k \in 1 .. Len(s) : s[k] \in Timer
  BY <1>1, RingMembers
<1>3. \A k \in 1 .. Len(s) : g[s[k]] = exp[s[k]]
  BY <1>2
<1>4. g \in [Timer -> Nat]
  OBVIOUS
<1>. HIDE DEF g
<1>5. Sorted(s, g)
  BY <1>1, <1>3 DEF Sorted
<1>. QED
  BY <1>1, <1>4, <1>5 DEF GoodHeap, g

\* setup_timer of an idle timer changes no other link.
LEMMA ForgetLinks ==
  ASSUME NEW h, NEW exp, GoodHeap(h, exp), NEW t \in Timer, t \notin ListOf(h),
         NEW f, f = Heap([h.next EXCEPT ![t] = NULL], [h.prev EXCEPT ![t] = NULL])
  PROVE  GoodHeap(f, exp) /\ EntriesOf(f) = EntriesOf(h) /\ ListOf(f) = ListOf(h)
<1>. DEFINE s == EntriesOf(h)
            a(k) == RingAt(s, timer_list, k)
<1>1. /\ IsHeap(h, Node) /\ IsRing(h, Node, timer_list, s) /\ Sorted(s, exp)
      /\ \A y \in Timer \ ListOf(h) : h.next[y] \in {NULL, y} /\ h.prev[y] = h.next[y]
  BY DEF GoodHeap
<1>2. /\ h.next \in [Node -> Links(Node)] /\ h.prev \in [Node -> Links(Node)]
      /\ t \in Node
  BY <1>1, Nodes DEF IsHeap
<1>3. /\ f.next = [h.next EXCEPT ![t] = NULL]
      /\ f.prev = [h.prev EXCEPT ![t] = NULL]
      /\ f = Heap(f.next, f.prev)
  BY DEF Heap
<1>4. IsHeap(f, Node)
  BY <1>2, <1>3 DEF IsHeap, Links
<1>5. \A y \in Node : y # t => f.next[y] = h.next[y] /\ f.prev[y] = h.prev[y]
  BY <1>2, <1>3
<1>6. f.next[t] = NULL /\ f.prev[t] = NULL
  BY <1>2, <1>3
<1>7. \A k \in 0 .. Len(s) : a(k) # t
  BY <1>1, <1>2, OffTheRing
<1>8. IsRing(f, Node, timer_list, s)
  <2>1. /\ s \in Seq(Node) /\ Len(s) \in Nat
        /\ \A i, j \in 0 .. Len(s) : a(i) = a(j) => i = j
        /\ \A k \in 0 .. Len(s) : h.next[a(k)] = a(k + 1) /\ h.prev[a(k + 1)] = a(k)
    BY <1>1 DEF IsRing
  <2>2. ASSUME NEW k \in 0 .. Len(s) + 1
        PROVE  a(k) \in Node /\ a(k) # t
    <3>1. k \in 0 .. Len(s) \/ k = Len(s) + 1
      BY <2>1
    <3>2. a(Len(s) + 1) = timer_list /\ timer_list # t
      BY <2>1, Nodes, RingPlaces
    <3>3. a(k) \in Node
      BY <2>1, Nodes, RingPlaces DEF RingAt
    <3>. QED
      BY <1>7, <3>1, <3>2, <3>3
  <2>. HIDE DEF a
  <2>3. ASSUME NEW k \in 0 .. Len(s)
        PROVE  f.next[a(k)] = a(k + 1) /\ f.prev[a(k + 1)] = a(k)
    <3>1. k \in 0 .. Len(s) + 1 /\ k + 1 \in 0 .. Len(s) + 1
      BY <2>1
    <3>. QED
      BY <1>5, <2>1, <2>2, <3>1
  <2>. QED
    BY <2>1, <2>3 DEF IsRing, a
<1>9. EntriesOf(f) = s
  BY <1>4, <1>8, RingMembers
<1>10. ListOf(f) = ListOf(h)
  BY <1>9 DEF ListOf, OnList, EntriesOf
<1>11. ASSUME NEW y \in Timer \ ListOf(f)
       PROVE  f.next[y] \in {NULL, y} /\ f.prev[y] = f.next[y]
  <2>1. y \in Node
    BY Nodes
  <2>2. y \in Timer \ ListOf(h)
    BY <1>10
  <2>. QED
    BY <1>1, <1>5, <1>6, <2>1, <2>2
<1>. QED
  BY <1>1, <1>4, <1>8, <1>9, <1>10, <1>11 DEF GoodHeap

\* The first add_timer: a head that is initialised is an empty list.
LEMMA FreshList ==
  ASSUME NEW h, NEW exp, IsHeap(h, Node),
         \A y \in Timer : h.next[y] = NULL /\ h.prev[y] = NULL,
         NEW f, f = INIT_LIST_HEAD(h, timer_list)
  PROVE  GoodHeap(f, exp) /\ EntriesOf(f) = <<>> /\ ListOf(f) = {}
<1>1. /\ IsHeap(f, Node) /\ IsRing(f, Node, timer_list, <<>>)
      /\ \A y \in Node \ {timer_list} : f.next[y] = h.next[y] /\ f.prev[y] = h.prev[y]
  BY Nodes, InitHead
<1>2. \A y \in Timer : f.next[y] = NULL /\ f.prev[y] = NULL
  BY <1>1, Nodes
<1>3. EntriesOf(f) = <<>>
  BY <1>1, RingMembers
<1>4. Len(<<>>) = 0 /\ \A k : ~(k \in 1 .. 0)
  OBVIOUS
<1>5. Sorted(<<>>, exp)
  BY <1>4 DEF Sorted
<1>6. ListOf(f) = {}
  BY <1>3, <1>4 DEF ListOf, OnList, EntriesOf
<1>. QED
  BY <1>1, <1>2, <1>3, <1>5, <1>6 DEF GoodHeap

-----------------------------------------------------------------------------
(* The timer API.                                                          *)

\* The state of the timer list: a good heap once it is initialised, and no
\* links at all before.
ListInv ==
  /\ inited \in BOOLEAN
  /\ expires \in [Timer -> Nat]
  /\ IsHeap(heap, Node)
  /\ inited => GoodHeap(heap, expires)
  /\ ~inited => \A x \in Node : heap.next[x] = NULL /\ heap.prev[x] = NULL

\* r is the list s without the timer t.
Without(s, t, r) ==
  \/ \E p \in 1 .. Len(s) : s[p] = t /\ r = Removed(s, p)
  \/ (\A p \in 1 .. Len(s) : s[p] # t) /\ r = s

\* An entry that was linked stays linked.
StaysLinked == \A y \in Node : heap.next[y] # NULL => heap'.next[y] # NULL

\* add_timer puts one timer on the list.
LEMMA AddTimer ==
  ASSUME ListInv, NEW t \in Timer, NEW e \in Nat, add_timer(t, e)
  PROVE  /\ ListInv' /\ inited' = TRUE
         /\ expires' = [expires EXCEPT ![t] = e]
         /\ t \notin Armed /\ Armed' = Armed \cup {t}
         /\ \E p \in 1 .. (Len(Pending) + 1) : Pending' = Inserted(Pending, p, t)
         /\ StaysLinked
<1>. DEFINE h == IF inited THEN heap ELSE INIT_LIST_HEAD(heap, timer_list)
<1>1. /\ t \notin Armed /\ expires' = [expires EXCEPT ![t] = e] /\ inited' = TRUE
      /\ heap' = internal_add_timer(h, t, expires')
  BY DEF add_timer
<1>2. /\ GoodHeap(h, expires) /\ EntriesOf(h) = Pending /\ ListOf(h) = Armed
      /\ \A y \in Node : heap.next[y] # NULL => h.next[y] # NULL
  <2>1. CASE inited
    BY <2>1 DEF ListInv, Pending, Armed, EntriesOf, ListOf
  <2>2. CASE ~inited
    <3>1. /\ IsHeap(heap, Node) /\ \A x \in Node : heap.next[x] = NULL
          /\ \A y \in Timer : heap.next[y] = NULL /\ heap.prev[y] = NULL
      BY <2>2, Nodes DEF ListInv
    <3>2. h = INIT_LIST_HEAD(heap, timer_list) /\ Pending = <<>> /\ Armed = {}
      BY <2>2 DEF Pending, Armed
    <3>. HIDE DEF h
    <3>3. GoodHeap(h, expires) /\ EntriesOf(h) = <<>> /\ ListOf(h) = {}
      BY <3>1, <3>2, FreshList
    <3>. QED
      BY <3>1, <3>2, <3>3
  <2>. QED
    BY <2>1, <2>2
<1>. HIDE DEF h
<1>3. GoodHeap(h, expires') /\ expires' \in [Timer -> Nat] /\ t \notin ListOf(h)
  <2>1. expires \in [Timer -> Nat]
    BY DEF ListInv
  <2>. QED
    BY <1>1, <1>2, <2>1, SetExpires
<1>4. /\ GoodHeap(heap', expires')
      /\ \E p \in 1 .. (Len(EntriesOf(h)) + 1) :
           EntriesOf(heap') = Inserted(EntriesOf(h), p, t)
      /\ \A y \in Node : h.next[y] # NULL => heap'.next[y] # NULL
      /\ ListOf(heap') = ListOf(h) \cup {t}
  <2>1. heap' = internal_add_timer(h, t, expires')
    BY <1>1
  <2>. QED
    BY ONLY <1>3, <2>1, AddSorted, t \in Timer
<1>5. Pending' = EntriesOf(heap') /\ Armed' = ListOf(heap')
  BY <1>1 DEF Pending, Armed, EntriesOf, ListOf
<1>6. IsHeap(heap', Node)
  BY <1>4 DEF GoodHeap
<1>7. ListInv'
  BY <1>1, <1>3, <1>4, <1>6 DEF ListInv
<1>. QED
  BY <1>1, <1>2, <1>4, <1>5, <1>7 DEF StaysLinked

\* What the list holds, in positions and as a set.
LEMMA PendingIs ==
  ASSUME ListInv
  PROVE  /\ Pending \in Seq(Timer) /\ Len(Pending) \in Nat
         /\ Armed = {Pending[k] : k \in 1 .. Len(Pending)}
         /\ Armed \subseteq Timer
         /\ \A i, j \in 1 .. Len(Pending) : Pending[i] = Pending[j] => i = j
<1>1. CASE inited
  <2>1. /\ IsHeap(heap, Node) /\ IsRing(heap, Node, timer_list, EntriesOf(heap))
        /\ Pending = EntriesOf(heap) /\ Armed = ListOf(heap)
    BY <1>1 DEF ListInv, GoodHeap, Pending, Armed, EntriesOf, ListOf
  <2>2. /\ Pending \in Seq(Timer) /\ Len(Pending) \in Nat
        /\ Armed = {Pending[k] : k \in 1 .. Len(Pending)}
        /\ \A k \in 1 .. Len(Pending) : Pending[k] \in Timer
        /\ \A i, j \in 1 .. Len(Pending) : Pending[i] = Pending[j] => i = j
    BY <2>1, RingMembers
  <2>. QED
    BY <2>2
<1>2. CASE ~inited
  <2>1. Pending = <<>> /\ Armed = {}
    BY <1>2 DEF Pending, Armed
  <2>2. <<>> \in Seq(Timer) /\ Len(<<>>) = 0 /\ \A k : ~(k \in 1 .. 0)
    OBVIOUS
  <2>. QED
    BY <2>1, <2>2
<1>. QED
  BY <1>1, <1>2

\* list_del_init of a timer that was linked, as del_timer and the walk do it.
LEMMA DetachTimer ==
  ASSUME ListInv, NEW t \in Timer, heap.next[t] # NULL,
         heap' = list_del_init(heap, t), UNCHANGED <<inited, expires>>
  PROVE  /\ ListInv' /\ inited
         /\ Armed' = Armed \ {t}
         /\ Without(Pending, t, Pending')
         /\ StaysLinked
         /\ heap'.next[t] = t
<1>1. inited /\ GoodHeap(heap, expires) /\ inited'
  BY Nodes DEF ListInv
<1>2. /\ GoodHeap(heap', expires)
      /\ t \in ListOf(heap) => \E p \in 1 .. Len(EntriesOf(heap)) :
           EntriesOf(heap)[p] = t /\ EntriesOf(heap') = Removed(EntriesOf(heap), p)
      /\ t \notin ListOf(heap) => heap' = heap
      /\ \A y \in Node : heap.next[y] # NULL => heap'.next[y] # NULL
      /\ ListOf(heap') = ListOf(heap) \ {t}
      /\ heap'.next[t] = t
  BY <1>1, DeleteTimer
<1>3. /\ Pending = EntriesOf(heap) /\ Armed = ListOf(heap)
      /\ Pending' = EntriesOf(heap') /\ Armed' = ListOf(heap')
  BY <1>1 DEF Pending, Armed, EntriesOf, ListOf
<1>4. IsHeap(heap', Node)
  BY <1>2 DEF GoodHeap
<1>5. ListInv'
  BY <1>1, <1>2, <1>4 DEF ListInv
<1>6. Without(Pending, t, Pending')
  <2>1. CASE t \in ListOf(heap)
    BY <1>2, <1>3, <2>1 DEF Without
  <2>2. CASE t \notin ListOf(heap)
    <3>1. Pending' = Pending /\ t \notin Armed
      BY <1>2, <1>3, <2>2
    <3>2. \A p \in 1 .. Len(Pending) : Pending[p] # t
      BY <3>1, PendingIs
    <3>. QED
      BY <3>1, <3>2 DEF Without
  <2>. QED
    BY <2>1, <2>2
<1>. QED
  BY <1>1, <1>2, <1>3, <1>5, <1>6 DEF StaysLinked

\* del_timer takes its timer off the list, if it is on it.
LEMMA DelTimer ==
  ASSUME ListInv, NEW t \in Timer, del_timer(t)
  PROVE  /\ ListInv' /\ UNCHANGED <<inited, expires>>
         /\ Armed' = Armed \ {t}
         /\ Without(Pending, t, Pending')
         /\ StaysLinked
<1>1. UNCHANGED <<inited, expires>>
  BY DEF del_timer
<1>2. CASE heap.next[t] # NULL
  <2>1. heap' = list_del_init(heap, t)
    BY <1>2 DEF del_timer, timer_panding
  <2>. QED
    BY <1>1, <1>2, <2>1, DetachTimer
<1>3. CASE heap.next[t] = NULL
  <2>1. heap' = heap
    BY <1>3 DEF del_timer, timer_panding
  <2>2. ListInv' /\ Pending' = Pending /\ Armed' = Armed /\ StaysLinked
    BY <1>1, <2>1 DEF ListInv, Pending, Armed, StaysLinked
  <2>3. t \notin Armed
    <3>1. CASE inited
      <4>1. GoodHeap(heap, expires) /\ Armed = ListOf(heap)
        BY <3>1 DEF ListInv, Armed, ListOf
      <4>. QED
        BY <1>3, <4>1, NextStaysOnList
    <3>2. CASE ~inited
      BY <3>2 DEF Armed
    <3>. QED
      BY <3>1, <3>2
  <2>4. \A p \in 1 .. Len(Pending) : Pending[p] # t
    BY <2>3, PendingIs
  <2>. QED
    BY <1>1, <2>2, <2>3, <2>4 DEF Without
<1>. QED
  BY <1>2, <1>3

\* mod_timer does nothing, or moves its timer to its new place.
LEMMA ModTimer ==
  ASSUME ListInv, NEW t \in Timer, NEW e \in Nat, mod_timer(t, e)
  PROVE  /\ ListInv' /\ UNCHANGED inited /\ StaysLinked
         /\ \/ UNCHANGED <<heap, expires>>
            \/ /\ expires' = [expires EXCEPT ![t] = e]
               /\ Armed' = Armed \cup {t}
               /\ \E r \in Seq(Timer) : Without(Pending, t, r) /\
                    \E p \in 1 .. (Len(r) + 1) : Pending' = Inserted(r, p, t)
<1>1. UNCHANGED inited /\ heap.next[t] # NULL
  BY DEF mod_timer, timer_panding
<1>2. inited /\ GoodHeap(heap, expires) /\ inited' /\ expires \in [Timer -> Nat]
  BY <1>1, Nodes DEF ListInv
<1>3. CASE expires[t] = e
  <2>1. UNCHANGED <<heap, expires>>
    BY <1>3 DEF mod_timer
  <2>2. ListInv' /\ StaysLinked
    BY <1>1, <2>1 DEF ListInv, StaysLinked
  <2>. QED
    BY <1>1, <2>1, <2>2
<1>4. CASE expires[t] # e
  <2>. DEFINE h == list_del_init(heap, t)
  <2>1. expires' = [expires EXCEPT ![t] = e] /\ heap' = internal_add_timer(h, t, expires')
    BY <1>4 DEF mod_timer
  <2>2. h = list_del_init(heap, t)
    OBVIOUS
  <2>. HIDE DEF h
  <2>3. /\ GoodHeap(h, expires)
        /\ t \in ListOf(heap) => \E p \in 1 .. Len(EntriesOf(heap)) :
             EntriesOf(heap)[p] = t /\ EntriesOf(h) = Removed(EntriesOf(heap), p)
        /\ t \notin ListOf(heap) => h = heap
        /\ \A y \in Node : heap.next[y] # NULL => h.next[y] # NULL
        /\ ListOf(h) = ListOf(heap) \ {t}
    BY <1>1, <1>2, <2>2, DeleteTimer
  <2>4. GoodHeap(h, expires') /\ expires' \in [Timer -> Nat] /\ t \notin ListOf(h)
    <3>1. t \notin ListOf(h)
      BY <2>3
    <3>. QED
      BY <1>2, <2>1, <2>3, <3>1, SetExpires
  <2>5. /\ GoodHeap(heap', expires')
        /\ \E p \in 1 .. (Len(EntriesOf(h)) + 1) :
             EntriesOf(heap') = Inserted(EntriesOf(h), p, t)
        /\ \A y \in Node : h.next[y] # NULL => heap'.next[y] # NULL
        /\ ListOf(heap') = ListOf(h) \cup {t}
    <3>1. heap' = internal_add_timer(h, t, expires')
      BY <2>1
    <3>. QED
      BY ONLY <2>4, <3>1, AddSorted, t \in Timer
  <2>6. /\ Pending = EntriesOf(heap) /\ Armed = ListOf(heap)
        /\ Pending' = EntriesOf(heap') /\ Armed' = ListOf(heap')
    BY <1>2 DEF Pending, Armed, EntriesOf, ListOf
  <2>7. IsHeap(heap', Node)
    BY <2>5 DEF GoodHeap
  <2>8. ListInv'
    BY <1>2, <2>4, <2>5, <2>7 DEF ListInv
  <2>9. Without(Pending, t, EntriesOf(h))
    <3>1. CASE t \in ListOf(heap)
      BY <2>3, <2>6, <3>1 DEF Without
    <3>2. CASE t \notin ListOf(heap)
      <4>1. EntriesOf(h) = Pending /\ t \notin Armed
        BY <2>3, <2>6, <3>2
      <4>2. \A p \in 1 .. Len(Pending) : Pending[p] # t
        BY <4>1, PendingIs
      <4>. QED
        BY <4>1, <4>2 DEF Without
    <3>. QED
      BY <3>1, <3>2
  <2>10. EntriesOf(h) \in Seq(Timer)
    <3>1. IsHeap(h, Node) /\ IsRing(h, Node, timer_list, EntriesOf(h))
      BY <2>3 DEF GoodHeap
    <3>. QED
      BY <3>1, RingMembers
  <2>11. StaysLinked
    BY <2>3, <2>5 DEF StaysLinked
  <2>12. Armed' = Armed \cup {t}
    BY <2>3, <2>5, <2>6
  <2>. QED
    BY <1>1, <2>1, <2>5, <2>6, <2>8, <2>9, <2>10, <2>11, <2>12
<1>. QED
  BY <1>3, <1>4

\* setup_timer leaves the list alone.
LEMMA SetupTimer ==
  ASSUME ListInv, NEW t \in Timer, setup_timer(t)
  PROVE  /\ ListInv' /\ UNCHANGED <<inited, expires>>
         /\ Pending' = Pending /\ Armed' = Armed
<1>1. /\ t \notin Armed /\ UNCHANGED <<inited, expires>>
      /\ heap' = Heap([heap.next EXCEPT ![t] = NULL], [heap.prev EXCEPT ![t] = NULL])
  BY DEF setup_timer
<1>2. CASE inited
  <2>1. GoodHeap(heap, expires) /\ Armed = ListOf(heap) /\ Pending = EntriesOf(heap)
    BY <1>2 DEF ListInv, Armed, Pending, ListOf, EntriesOf
  <2>2. GoodHeap(heap', expires) /\ EntriesOf(heap') = EntriesOf(heap)
        /\ ListOf(heap') = ListOf(heap)
    BY <1>1, <2>1, ForgetLinks
  <2>3. Armed' = ListOf(heap') /\ Pending' = EntriesOf(heap')
    BY <1>1, <1>2 DEF Armed, Pending, ListOf, EntriesOf
  <2>4. IsHeap(heap', Node)
    BY <2>2 DEF GoodHeap
  <2>5. ListInv'
    BY <1>1, <1>2, <2>2, <2>4 DEF ListInv
  <2>. QED
    BY <1>1, <2>1, <2>2, <2>3, <2>5
<1>3. CASE ~inited
  <2>1. /\ heap.next \in [Node -> Links(Node)] /\ heap.prev \in [Node -> Links(Node)]
        /\ \A x \in Node : heap.next[x] = NULL /\ heap.prev[x] = NULL
        /\ inited \in BOOLEAN /\ expires \in [Timer -> Nat]
    BY <1>3 DEF ListInv, IsHeap
  <2>2. /\ heap'.next = [heap.next EXCEPT ![t] = NULL]
        /\ heap'.prev = [heap.prev EXCEPT ![t] = NULL]
        /\ heap' = Heap(heap'.next, heap'.prev)
    BY <1>1 DEF Heap
  <2>3. IsHeap(heap', Node) /\ \A x \in Node : heap'.next[x] = NULL /\ heap'.prev[x] = NULL
    BY <2>1, <2>2 DEF IsHeap
  <2>4. ListInv'
    BY <1>1, <1>3, <2>1, <2>3 DEF ListInv
  <2>. QED
    BY <1>1, <1>3, <2>4 DEF Armed, Pending
<1>. QED
  BY <1>2, <1>3

-----------------------------------------------------------------------------
(* The walk.                                                               *)

\* The local variables of dispatch_timer point to entries that are linked,
\* to the list or to themselves: the walk follows no NULL.
WalkInv ==
  /\ mtime \in Nat /\ now \in Nat
  /\ pc \in {"idle", "loop", "callback"}
  /\ timer \in Node /\ timer1 \in Node
  /\ pc # "idle" => inited /\ heap.next[timer] # NULL /\ heap.next[timer1] # NULL
  /\ pc = "callback" => timer \in Timer

TimerInv == ListInv /\ WalkInv

\* What every use of the API keeps.
LEMMA ApiKeepsWalk ==
  ASSUME TimerInv, ListInv', StaysLinked, inited => inited',
         UNCHANGED <<mtime, walkVars>>
  PROVE  TimerInv'
<1>1. /\ mtime' = mtime /\ pc' = pc /\ now' = now /\ timer' = timer /\ timer1' = timer1
  BY DEF walkVars
<1>. QED
  BY <1>1 DEF TimerInv, WalkInv, StaysLinked

\* A callback uses the API once, for some timer.
LEMMA CallbackCases ==
  ASSUME Callback
  PROVE  /\ pc = "callback" /\ UNCHANGED <<mtime, walkVars>>
         /\ \/ \E t \in Timer, e \in CallbackTimes : add_timer(t, e)
            \/ \E t \in Timer \cup {timer}, e \in CallbackTimes : mod_timer(t, e)
            \/ \E t \in Timer \cup {timer} :
                 /\ t = timer1 /\ t # timer => "delete_next" \in CallbackUses
                 /\ del_timer(t)
<1>. USE DEF Callback
<1>1. pc = "callback" /\ UNCHANGED <<mtime, walkVars>>
  OBVIOUS
<1>2. CASE \E t \in Timer, e \in CallbackTimes : add_timer(t, e)
  BY <1>1, <1>2
<1>3. CASE del_timer(timer)
  BY <1>1, <1>3
<1>4. CASE \E t \in Timer \ {timer}, e \in CallbackTimes : mod_timer(t, e)
  BY <1>1, <1>4
<1>5. CASE \E e \in CallbackTimes : mod_timer(timer, e)
  BY <1>1, <1>5
<1>6. CASE \E t \in Timer \ {timer} :
             (t = timer1 => "delete_next" \in CallbackUses) /\ del_timer(t)
  BY <1>1, <1>6
<1>. QED
  BY <1>1, <1>2, <1>3, <1>4, <1>5, <1>6

LEMMA TimesAreNat ==
  Times \subseteq Nat /\ Expiries \subseteq Nat /\ CallbackTimes \subseteq Nat
BY TimerAssumption DEF Times, Expiries, CallbackTimes

\* list_del_init by the walk, of the timer whose function has returned.
LEMMA WalkDetaches ==
  ASSUME TimerInv, CallReturns
  PROVE  /\ ListInv' /\ inited /\ UNCHANGED <<inited, expires>> /\ timer \in Timer
         /\ Armed' = Armed \ {timer}
         /\ Without(Pending, timer, Pending')
         /\ StaysLinked
         /\ heap'.next[timer] = timer
<1>1. timer \in Timer /\ heap.next[timer] # NULL /\ ListInv
  BY DEF CallReturns, TimerInv, WalkInv
<1>2. heap' = list_del_init(heap, timer) /\ UNCHANGED <<inited, expires>>
  BY DEF CallReturns
<1>. QED
  BY <1>1, <1>2, DetachTimer

LEMMA TimerInit == Init => TimerInv
<1>. SUFFICES ASSUME Init PROVE TimerInv
  OBVIOUS
<1>1. /\ heap.next = [x \in Node |-> NULL] /\ heap.prev = [x \in Node |-> NULL]
      /\ heap = Heap(heap.next, heap.prev)
  BY DEF Init, Heap, Node
<1>2. IsHeap(heap, Node) /\ \A x \in Node : heap.next[x] = NULL /\ heap.prev[x] = NULL
  BY <1>1 DEF IsHeap, Links
<1>3. inited = FALSE /\ expires \in [Timer -> Nat]
  BY DEF Init
<1>4. ListInv
  BY <1>2, <1>3 DEF ListInv
<1>5. WalkInv
  BY Nodes DEF Init, WalkInv
<1>. QED
  BY <1>4, <1>5 DEF TimerInv

LEMMA TimerStep == TimerInv /\ [Next]_timerVars => TimerInv'
<1>. SUFFICES ASSUME TimerInv, [Next]_timerVars PROVE TimerInv'
  OBVIOUS
<1>1. ListInv /\ WalkInv
  BY DEF TimerInv
<1>2. CASE Program
  <2>1. UNCHANGED <<mtime, walkVars>> /\ pc = "idle"
    BY <1>2 DEF Program
  <2>2. PICK t \in Timer : \/ setup_timer(t)
                           \/ del_timer(t)
                           \/ \E e \in Expiries : add_timer(t, e) \/ mod_timer(t, e)
    BY <1>2 DEF Program
  <2>3. CASE setup_timer(t)
    <3>1. ListInv'
      BY <1>1, <2>3, SetupTimer
    <3>2. WalkInv'
      BY <1>1, <2>1 DEF WalkInv, walkVars
    <3>. QED
      BY <3>1, <3>2 DEF TimerInv
  <2>4. CASE del_timer(t)
    <3>1. ListInv' /\ StaysLinked /\ inited' = inited
      BY <1>1, <2>4, DelTimer
    <3>. QED
      BY <2>1, <3>1, ApiKeepsWalk
  <2>5. ASSUME NEW e \in Expiries, add_timer(t, e)
        PROVE  TimerInv'
    <3>1. ListInv' /\ StaysLinked /\ inited' = TRUE
      BY <1>1, <2>5, AddTimer, TimesAreNat
    <3>. QED
      BY <2>1, <3>1, ApiKeepsWalk
  <2>6. ASSUME NEW e \in Expiries, mod_timer(t, e)
        PROVE  TimerInv'
    <3>1. ListInv' /\ StaysLinked /\ inited' = inited
      BY <1>1, <2>6, ModTimer, TimesAreNat
    <3>. QED
      BY <2>1, <3>1, ApiKeepsWalk
  <2>. QED
    BY <2>2, <2>3, <2>4, <2>5, <2>6
<1>3. CASE Tick \/ SetClock
  <2>1. UNCHANGED <<listVars, walkVars>> /\ mtime' \in Nat
    <3>1. UNCHANGED <<listVars, walkVars>>
      BY <1>3 DEF Tick, SetClock
    <3>2. mtime' = mtime + 1 \/ mtime' \in Times
      BY <1>3 DEF Tick, SetClock
    <3>3. mtime \in Nat
      BY <1>1 DEF WalkInv
    <3>4. mtime' \in Nat
      <4>1. CASE mtime' = mtime + 1
        BY <3>3, <4>1
      <4>2. CASE mtime' \in Times
        BY <4>2, TimesAreNat
      <4>. QED
        BY <3>2, <4>1, <4>2
    <3>. QED
      BY <3>1, <3>4
  <2>2. /\ inited' = inited /\ heap' = heap /\ expires' = expires
        /\ pc' = pc /\ now' = now /\ timer' = timer /\ timer1' = timer1
    BY <2>1 DEF listVars, walkVars
  <2>3. ListInv'
    BY <1>1, <2>2 DEF ListInv
  <2>4. WalkInv'
    BY <1>1, <2>1, <2>2 DEF WalkInv
  <2>. QED
    BY <2>3, <2>4 DEF TimerInv
<1>4. CASE Dispatch
  <2>1. /\ inited' = inited /\ heap' = heap /\ expires' = expires /\ mtime' = mtime
        /\ inited /\ now' = mtime /\ pc' = "loop"
        /\ timer' = heap.next[timer_list]
        /\ timer1' = heap.next[heap.next[timer_list]]
    BY <1>4 DEF Dispatch, dispatch_timer, listVars
  <2>2. ListInv'
    BY <1>1, <2>1 DEF ListInv
  <2>3. GoodHeap(heap, expires) /\ timer_list \in Node
    BY <1>1, <2>1, Nodes DEF ListInv
  <2>4. /\ timer' \in Node /\ heap.next[timer'] # NULL
        /\ timer1' \in Node /\ heap.next[timer1'] # NULL
    BY <2>1, <2>3, NextStaysOnList
  <2>5. WalkInv'
    BY <1>1, <2>1, <2>4 DEF WalkInv
  <2>. QED
    BY <2>2, <2>5 DEF TimerInv
<1>5. CASE LoopEnds
  <2>1. /\ inited' = inited /\ heap' = heap /\ expires' = expires /\ mtime' = mtime
        /\ now' = 0 /\ pc' = "idle" /\ timer' = timer /\ timer1' = timer_list
    BY <1>5 DEF LoopEnds, listVars
  <2>2. ListInv'
    BY <1>1, <2>1 DEF ListInv
  <2>3. WalkInv'
    BY <1>1, <2>1, Nodes DEF WalkInv
  <2>. QED
    BY <2>2, <2>3 DEF TimerInv
<1>6. CASE LoopSkips
  <2>1. /\ inited' = inited /\ heap' = heap /\ expires' = expires /\ mtime' = mtime
        /\ now' = now /\ pc' = pc /\ timer' = timer1 /\ timer1' = heap.next[timer1]
        /\ pc = "loop"
    BY <1>6 DEF LoopSkips, Step, listVars
  <2>2. ListInv'
    BY <1>1, <2>1 DEF ListInv
  <2>3. GoodHeap(heap, expires) /\ timer1 \in Node /\ heap.next[timer1] # NULL
    BY <1>1, <2>1 DEF ListInv, WalkInv
  <2>4. timer1' \in Node /\ heap.next[timer1'] # NULL
    BY <2>1, <2>3, NextStaysOnList
  <2>5. WalkInv'
    BY <1>1, <2>1, <2>3, <2>4 DEF WalkInv
  <2>. QED
    BY <2>2, <2>5 DEF TimerInv
<1>7. CASE LoopCalls
  <2>1. /\ inited' = inited /\ heap' = heap /\ expires' = expires /\ mtime' = mtime
        /\ now' = now /\ pc' = "callback" /\ timer' = timer /\ timer1' = timer1
        /\ pc = "loop" /\ timer # timer_list
    BY <1>7 DEF LoopCalls, listVars
  <2>2. ListInv'
    BY <1>1, <2>1 DEF ListInv
  <2>3. WalkInv'
    BY <1>1, <2>1 DEF WalkInv, Node
  <2>. QED
    BY <2>2, <2>3 DEF TimerInv
<1>8. CASE CallReturns
  <2>1. /\ mtime' = mtime /\ now' = now /\ pc' = "loop" /\ pc = "callback"
        /\ timer' = timer1 /\ timer1' = heap'.next[timer1]
    BY <1>8 DEF CallReturns, Step
  <2>2. /\ ListInv' /\ StaysLinked /\ inited' = inited /\ inited
    BY <1>8, WalkDetaches
  <2>3. timer1 \in Node /\ heap'.next[timer1] # NULL
    BY <1>1, <2>1, <2>2 DEF WalkInv, StaysLinked
  <2>4. GoodHeap(heap', expires')
    BY <2>2 DEF ListInv
  <2>5. timer1' \in Node /\ heap'.next[timer1'] # NULL
    BY <2>1, <2>3, <2>4, NextStaysOnList
  <2>6. WalkInv'
    BY <1>1, <2>1, <2>2, <2>3, <2>5 DEF WalkInv
  <2>. QED
    BY <2>2, <2>6 DEF TimerInv
<1>9. CASE Callback
  <2>1. pc = "callback" /\ UNCHANGED <<mtime, walkVars>> /\ timer \in Timer
    BY <1>1, <1>9, CallbackCases DEF WalkInv
  <2>2. ListInv' /\ StaysLinked /\ (inited => inited')
    <3>1. CASE \E t \in Timer, e \in CallbackTimes : add_timer(t, e)
      <4>1. PICK t \in Timer, e \in Nat : add_timer(t, e)
        BY <3>1, TimesAreNat
      <4>. QED
        BY <1>1, <4>1, AddTimer
    <3>2. CASE \E t \in Timer \cup {timer}, e \in CallbackTimes : mod_timer(t, e)
      <4>1. PICK t \in Timer, e \in Nat : mod_timer(t, e)
        BY <2>1, <3>2, TimesAreNat
      <4>. QED
        BY <1>1, <4>1, ModTimer
    <3>3. CASE \E t \in Timer \cup {timer} : del_timer(t)
      <4>1. PICK t \in Timer : del_timer(t)
        BY <2>1, <3>3
      <4>. QED
        BY <1>1, <4>1, DelTimer
    <3>. QED
      BY <1>9, <3>1, <3>2, <3>3, CallbackCases
  <2>. QED
    BY <2>1, <2>2, ApiKeepsWalk
<1>10. CASE UNCHANGED timerVars
  <2>1. /\ inited' = inited /\ heap' = heap /\ expires' = expires /\ mtime' = mtime
        /\ pc' = pc /\ now' = now /\ timer' = timer /\ timer1' = timer1
    BY <1>10 DEF timerVars, listVars, walkVars
  <2>2. ListInv' /\ WalkInv'
    BY <1>1, <2>1 DEF ListInv, WalkInv
  <2>. QED
    BY <2>2 DEF TimerInv
<1>. QED
  BY <1>2, <1>3, <1>4, <1>5, <1>6, <1>7, <1>8, <1>9, <1>10 DEF Next, Walk

\* The list and the pointers of the walk are as TimerInv says in every
\* reachable state, whatever timer functions do with the API.
THEOREM TimerInvariant == Spec => []TimerInv
BY TimerInit, TimerStep, PTL DEF Spec

\* The list stays one closed ring, and an entry that is not on it does not
\* point into it.
THEOREM RingStaysClosed == Spec => []ListIsClosed
<1>1. TimerInv => ListIsClosed
  <2>. SUFFICES ASSUME TimerInv PROVE ListIsClosed
    OBVIOUS
  <2>1. ListInv
    BY DEF TimerInv
  <2>2. CASE ~inited
    <3>1. Armed = {} /\ \A t \in Timer : heap.next[t] = NULL /\ heap.prev[t] = NULL
      BY <2>1, <2>2, Nodes DEF ListInv, Armed
    <3>. QED
      BY <2>2, <3>1 DEF ListIsClosed
  <2>3. CASE inited
    <3>. DEFINE s == EntriesOf(heap)
                L == Len(s)
                a(k) == RingAt(s, timer_list, k)
                ring == ListOf(heap) \cup {timer_list}
    <3>1. /\ IsHeap(heap, Node) /\ IsRing(heap, Node, timer_list, s)
          /\ \A t \in Timer \ ListOf(heap) :
               heap.next[t] \in {NULL, t} /\ heap.prev[t] = heap.next[t]
          /\ GoodHeap(heap, expires)
      BY <2>1, <2>3 DEF ListInv, GoodHeap
    <3>2. /\ L \in Nat
          /\ \A i, j \in 0 .. L : a(i) = a(j) => i = j
          /\ \A k \in 0 .. L : heap.next[a(k)] = a(k + 1) /\ heap.prev[a(k + 1)] = a(k)
      BY <3>1 DEF IsRing
    <3>3. Armed = ListOf(heap) /\ OnList(heap, timer_list) = ListOf(heap)
      BY <2>3 DEF Armed, ListOf
    <3>4. ASSUME NEW x \in ring
          PROVE  \E k \in 0 .. L : x = a(k)
      <4>1. x \in Node
        BY <3>1, Nodes, NextStaysOnList
      <4>2. x \notin Timer \ ListOf(heap)
        BY Nodes
      <4>. QED
        BY <3>1, <4>1, <4>2, OffTheRing
    <3>5. \A x \in ring : heap.next[x] \in ring
      BY <3>1, NextStaysOnList
    <3>. HIDE DEF s, L, a, ring
    <3>6. ASSUME NEW x \in ring
          PROVE  heap.prev[heap.next[x]] = x
      BY <3>2, <3>4
    <3>7. ASSUME NEW x \in ring, NEW y \in ring, heap.next[x] = heap.next[y]
          PROVE  x = y
      BY <3>6, <3>7
    <3>8. WellLinked(heap, timer_list)
      BY <3>3, <3>5, <3>6, <3>7 DEF WellLinked, ring
    <3>. QED
      BY <3>1, <3>3, <3>8 DEF ListIsClosed
  <2>. QED
    BY <2>2, <2>3
<1>. QED
  BY <1>1, TimerInvariant, PTL

\* The list is in the order of expiry.
THEOREM ListStaysSorted == Spec => []ListIsSorted
<1>1. TimerInv => ListIsSorted
  <2>. SUFFICES ASSUME TimerInv PROVE ListIsSorted
    OBVIOUS
  <2>1. CASE inited
    <3>1. Sorted(EntriesOf(heap), expires) /\ Pending = EntriesOf(heap)
      BY <2>1 DEF TimerInv, ListInv, GoodHeap, Pending, EntriesOf
    <3>. QED
      BY <3>1 DEF Sorted, ListIsSorted
  <2>2. CASE ~inited
    <3>1. Pending = <<>> /\ Len(<<>>) = 0 /\ \A k : ~(k \in 1 .. 0)
      BY <2>2 DEF Pending
    <3>. QED
      BY <3>1 DEF ListIsSorted
  <2>. QED
    BY <2>1, <2>2
<1>. QED
  BY <1>1, TimerInvariant, PTL

-----------------------------------------------------------------------------
(* Where the walk stands, when no timer function deletes the timer the     *)
(* walk visits next.                                                       *)

CursorInv ==
  /\ pc = "loop" => timer \in Armed \cup {timer_list} /\ timer1 = heap.next[timer]
  /\ pc # "idle" => timer1 \in Armed \cup {timer_list}
  /\ pc = "callback" => timer1 # timer

\* The links of the list, by position.
LEMMA NextOf ==
  ASSUME ListInv, inited
  PROVE  /\ heap.next[timer_list] = RingAt(Pending, timer_list, 1)
         /\ \A k \in 1 .. Len(Pending) :
              heap.next[Pending[k]] = RingAt(Pending, timer_list, k + 1)
<1>. DEFINE s == EntriesOf(heap)
            a(k) == RingAt(s, timer_list, k)
<1>1. /\ IsHeap(heap, Node) /\ IsRing(heap, Node, timer_list, s) /\ Pending = s
  BY DEF ListInv, GoodHeap, Pending, EntriesOf
<1>2. /\ Len(s) \in Nat /\ \A k \in 1 .. Len(s) : a(k) = s[k]
  BY <1>1, RingMembers
<1>3. \A k \in 0 .. Len(s) : heap.next[a(k)] = a(k + 1)
  BY <1>1 DEF IsRing
<1>4. a(0) = timer_list /\ 0 \in 0 .. Len(s) /\ a(0 + 1) = a(1)
  BY <1>2 DEF RingAt
<1>5. \A k \in 1 .. Len(s) : k \in 0 .. Len(s)
  BY <1>2
<1>. HIDE DEF s, a
<1>6. heap.next[timer_list] = a(1)
  BY <1>3, <1>4
<1>7. \A k \in 1 .. Len(s) : heap.next[s[k]] = a(k + 1)
  BY <1>2, <1>3, <1>5
<1>. QED
  BY <1>1, <1>6, <1>7 DEF a

LEMMA NextIsOther ==
  ASSUME ListInv, inited
  PROVE  /\ \A y \in Armed \cup {timer_list} : heap.next[y] \in Armed \cup {timer_list}
         /\ \A y \in Armed : heap.next[y] # y
<1>1. GoodHeap(heap, expires) /\ Armed = ListOf(heap)
  BY DEF ListInv, Armed, ListOf
<1>2. \A y \in Armed \cup {timer_list} : heap.next[y] \in Armed \cup {timer_list}
  BY <1>1, NextStaysOnList
<1>3. ASSUME NEW k \in 1 .. Len(Pending)
      PROVE  heap.next[Pending[k]] # Pending[k]
  <2>1. heap.next[Pending[k]] = RingAt(Pending, timer_list, k + 1)
    BY <1>3, NextOf
  <2>2. Len(Pending) \in Nat /\ Pending[k] \in Timer
    BY PendingIs
  <2>3. CASE k + 1 \in 1 .. Len(Pending)
    <3>1. Pending[k + 1] # Pending[k]
      BY <2>2, <2>3, PendingIs
    <3>. QED
      BY <2>1, <2>3, <3>1 DEF RingAt
  <2>4. CASE k + 1 \notin 1 .. Len(Pending)
    BY <2>1, <2>2, <2>4, TimerAssumption DEF RingAt
  <2>. QED
    BY <2>3, <2>4
<1>. QED
  BY <1>2, <1>3, PendingIs

LEMMA CursorStep ==
  ASSUME "delete_next" \notin CallbackUses, TimerInv, CursorInv, [Next]_timerVars
  PROVE  CursorInv'
<1>1. ListInv /\ WalkInv /\ ListInv'
  BY TimerStep DEF TimerInv
<1>2. CASE Program
  <2>1. pc' = "idle"
    BY <1>2 DEF Program, walkVars
  <2>. QED
    BY <2>1 DEF CursorInv
<1>3. CASE Tick \/ SetClock \/ UNCHANGED timerVars
  <2>1. /\ inited' = inited /\ heap' = heap
        /\ pc' = pc /\ timer' = timer /\ timer1' = timer1
    BY <1>3 DEF Tick, SetClock, timerVars, listVars, walkVars
  <2>2. Armed' = Armed
    BY <2>1 DEF Armed
  <2>. QED
    BY <2>1, <2>2 DEF CursorInv
<1>4. CASE Dispatch
  <2>1. /\ inited' = inited /\ heap' = heap /\ inited /\ pc' = "loop"
        /\ timer' = heap.next[timer_list] /\ timer1' = heap.next[timer']
    BY <1>4 DEF Dispatch, dispatch_timer, listVars
  <2>2. Armed' = Armed
    BY <2>1 DEF Armed
  <2>3. timer' \in Armed \cup {timer_list} /\ timer1' \in Armed \cup {timer_list}
    BY <1>1, <2>1, NextIsOther
  <2>. QED
    BY <2>1, <2>2, <2>3 DEF CursorInv
<1>5. CASE LoopEnds
  <2>1. pc' = "idle"
    BY <1>5 DEF LoopEnds
  <2>. QED
    BY <2>1 DEF CursorInv
<1>6. CASE LoopSkips
  <2>1. /\ inited' = inited /\ heap' = heap /\ pc' = "loop" /\ pc = "loop"
        /\ timer' = timer1 /\ timer1' = heap.next[timer1]
    BY <1>6 DEF LoopSkips, Step, listVars
  <2>2. Armed' = Armed /\ inited
    BY <1>1, <2>1 DEF Armed, WalkInv
  <2>3. timer1' \in Armed \cup {timer_list} /\ timer1 \in Armed \cup {timer_list}
    BY <1>1, <2>1, <2>2, NextIsOther DEF CursorInv
  <2>. QED
    BY <2>1, <2>2, <2>3 DEF CursorInv
<1>7. CASE LoopCalls
  <2>1. /\ inited' = inited /\ heap' = heap /\ pc' = "callback" /\ pc = "loop"
        /\ timer' = timer /\ timer1' = timer1 /\ timer # timer_list
    BY <1>7 DEF LoopCalls, listVars
  <2>2. Armed' = Armed /\ inited
    BY <1>1, <2>1 DEF Armed, WalkInv
  <2>3. /\ timer1 \in Armed \cup {timer_list} /\ timer1 = heap.next[timer]
        /\ timer \in Armed
    BY <2>1 DEF CursorInv
  <2>4. timer1 # timer
    BY <1>1, <2>2, <2>3, NextIsOther
  <2>. QED
    BY <2>1, <2>2, <2>3, <2>4 DEF CursorInv
<1>8. CASE CallReturns
  <2>1. /\ pc' = "loop" /\ pc = "callback"
        /\ timer' = timer1 /\ timer1' = heap'.next[timer1]
    BY <1>8 DEF CallReturns, Step
  <2>2. Armed' = Armed \ {timer} /\ inited'
    BY <1>8, WalkDetaches
  <2>3. timer1 \in Armed' \cup {timer_list}
    BY <2>1, <2>2 DEF CursorInv
  <2>4. \A y \in Armed' \cup {timer_list} : heap'.next[y] \in Armed' \cup {timer_list}
    <3>1. GoodHeap(heap', expires') /\ Armed' = ListOf(heap')
      BY <1>1, <2>2 DEF ListInv, Armed, ListOf
    <3>. QED
      BY <3>1, NextStaysOnList
  <2>5. timer1' \in Armed' \cup {timer_list}
    BY <2>1, <2>3, <2>4
  <2>. QED
    BY <2>1, <2>3, <2>5 DEF CursorInv
<1>9. CASE Callback
  <2>1. /\ pc = "callback" /\ pc' = pc /\ timer' = timer /\ timer1' = timer1
        /\ timer \in Timer
    BY <1>1, <1>9, CallbackCases DEF walkVars, WalkInv
  <2>2. timer1 \in Armed \cup {timer_list} /\ timer1 # timer
    BY <2>1 DEF CursorInv
  <2>3. timer1 \in Armed' \cup {timer_list}
    <3>1. CASE \E t \in Timer, e \in CallbackTimes : add_timer(t, e)
      <4>1. PICK t \in Timer, e \in Nat : add_timer(t, e)
        BY <3>1, TimesAreNat
      <4>2. Armed' = Armed \cup {t}
        BY <1>1, <4>1, AddTimer
      <4>. QED
        BY <2>2, <4>2
    <3>2. CASE \E t \in Timer \cup {timer}, e \in CallbackTimes : mod_timer(t, e)
      <4>1. PICK t \in Timer, e \in Nat : mod_timer(t, e)
        BY <2>1, <3>2, TimesAreNat
      <4>2. /\ inited' = inited
            /\ UNCHANGED <<heap, expires>> \/ Armed' = Armed \cup {t}
        BY <1>1, <4>1, ModTimer
      <4>3. CASE UNCHANGED <<heap, expires>>
        <5>1. Armed' = Armed
          BY <4>2, <4>3 DEF Armed
        <5>. QED
          BY <2>2, <5>1
      <4>4. CASE Armed' = Armed \cup {t}
        BY <2>2, <4>4
      <4>. QED
        BY <4>2, <4>3, <4>4
    <3>3. CASE \E t \in Timer \cup {timer} :
                 /\ t = timer1 /\ t # timer => "delete_next" \in CallbackUses
                 /\ del_timer(t)
      <4>1. PICK t \in Timer : t # timer1 /\ del_timer(t)
        BY <2>1, <2>2, <3>3
      <4>2. Armed' = Armed \ {t}
        BY <1>1, <4>1, DelTimer
      <4>. QED
        BY <2>2, <4>1, <4>2
    <3>. QED
      BY <1>9, <3>1, <3>2, <3>3, CallbackCases
  <2>. QED
    BY <2>1, <2>2, <2>3 DEF CursorInv
<1>. QED
  BY <1>2, <1>3, <1>4, <1>5, <1>6, <1>7, <1>8, <1>9 DEF Next, Walk

LEMMA CursorInvariant ==
  ASSUME "delete_next" \notin CallbackUses
  PROVE  Spec => [](TimerInv /\ CursorInv)
<1>1. Init => CursorInv
  BY DEF Init, CursorInv
<1>2. TimerInv /\ CursorInv /\ [Next]_timerVars => CursorInv'
  BY CursorStep
<1>. QED
  BY <1>1, <1>2, TimerInit, TimerStep, PTL DEF Spec

\* Whatever timer functions do, except deleting the timer that the walk
\* visits next, that timer is on the list: nobody leads the walk off it.
THEOREM WalkStaysAhead ==
  ASSUME "delete_next" \notin CallbackUses
  PROVE  Spec => []NextCursorIsOnList
<1>1. CursorInv => NextCursorIsOnList
  BY DEF CursorInv, NextCursorIsOnList
<1>. QED
  BY <1>1, CursorInvariant, PTL

\* And the walk tests timers on the list only: the hazard of the run that
\* shows CursorIsOnList violated is that one use of the API, and no other.
THEOREM WalkStaysOnList ==
  ASSUME "delete_next" \notin CallbackUses
  PROVE  Spec => []CursorIsOnList
<1>1. CursorInv => CursorIsOnList
  BY DEF CursorInv, CursorIsOnList
<1>. QED
  BY <1>1, CursorInvariant, PTL

-----------------------------------------------------------------------------
(* The timer list implements the timer queue.                              *)

QueueClock   == IF pc = "idle" THEN mtime ELSE now
QueueRunning == IF pc = "callback" THEN timer ELSE timer_list

\* The uses of the API are steps of the queue, or none.
LEMMA ApiIsQueueStep ==
  ASSUME ListInv, NEW t \in Timer,
         QueueClock' = QueueClock, QueueRunning' = QueueRunning,
         \/ setup_timer(t)
         \/ del_timer(t)
         \/ \E e \in Nat : add_timer(t, e)
         \/ \E e \in Nat : mod_timer(t, e)
  PROVE  Queue!Next \/ UNCHANGED Queue!queueVars
<1>1. CASE setup_timer(t)
  <2>1. Armed' = Armed /\ expires' = expires
    BY <1>1, SetupTimer
  <2>. QED
    BY <2>1 DEF Queue!queueVars, QueueClock, QueueRunning
<1>2. CASE del_timer(t)
  <2>1. Armed' = Armed \ {t} /\ expires' = expires
    BY <1>2, DelTimer
  <2>2. Queue!Disarm(t)
    BY <2>1 DEF Queue!Disarm, QueueClock, QueueRunning
  <2>. QED
    BY <2>2 DEF Queue!Next
<1>3. ASSUME NEW e \in Nat, add_timer(t, e)
      PROVE  Queue!Next
  <2>1. Armed' = Armed \cup {t} /\ expires' = [expires EXCEPT ![t] = e]
    BY <1>3, AddTimer
  <2>2. expires \in [Timer -> Nat]
    BY DEF ListInv
  <2>3. \A u \in Timer \ {t} : expires'[u] = expires[u]
    BY <2>1, <2>2
  <2>4. Queue!Arm(t)
    BY <2>1, <2>3 DEF Queue!Arm, QueueClock, QueueRunning
  <2>. QED
    BY <2>4 DEF Queue!Next
<1>4. ASSUME NEW e \in Nat, mod_timer(t, e)
      PROVE  Queue!Next \/ UNCHANGED Queue!queueVars
  <2>1. /\ inited' = inited
        /\ \/ UNCHANGED <<heap, expires>>
           \/ Armed' = Armed \cup {t} /\ expires' = [expires EXCEPT ![t] = e]
    BY <1>4, ModTimer
  <2>2. CASE UNCHANGED <<heap, expires>>
    <3>1. Armed' = Armed /\ expires' = expires
      BY <2>1, <2>2 DEF Armed
    <3>. QED
      BY <3>1 DEF Queue!queueVars, QueueClock, QueueRunning
  <2>3. CASE Armed' = Armed \cup {t} /\ expires' = [expires EXCEPT ![t] = e]
    <3>1. expires \in [Timer -> Nat]
      BY DEF ListInv
    <3>2. \A u \in Timer \ {t} : expires'[u] = expires[u]
      BY <2>3, <3>1
    <3>3. Queue!Arm(t)
      BY <2>3, <3>2 DEF Queue!Arm, QueueClock, QueueRunning
    <3>. QED
      BY <3>3 DEF Queue!Next
  <2>. QED
    BY <2>1, <2>2, <2>3
<1>. QED
  BY <1>1, <1>2, <1>3, <1>4

LEMMA QueueStep ==
  ASSUME TimerInv, CursorInv, [Next]_timerVars, TimerInv'
  PROVE  Queue!Next \/ UNCHANGED Queue!queueVars
<1>1. ListInv /\ WalkInv /\ WalkInv'
  BY DEF TimerInv
<1>2. CASE Program
  <2>1. UNCHANGED <<mtime, walkVars>>
    BY <1>2 DEF Program
  <2>2. QueueClock' = QueueClock /\ QueueRunning' = QueueRunning
    BY <2>1 DEF QueueClock, QueueRunning, walkVars
  <2>3. PICK t \in Timer : \/ setup_timer(t)
                           \/ del_timer(t)
                           \/ \E e \in Expiries : add_timer(t, e) \/ mod_timer(t, e)
    BY <1>2 DEF Program
  <2>4. CASE setup_timer(t)
    BY <1>1, <2>2, <2>4, ApiIsQueueStep
  <2>5. CASE del_timer(t)
    BY <1>1, <2>2, <2>5, ApiIsQueueStep
  <2>6. ASSUME NEW e \in Expiries, add_timer(t, e)
        PROVE  Queue!Next \/ UNCHANGED Queue!queueVars
    BY <1>1, <2>2, <2>6, ApiIsQueueStep, TimesAreNat
  <2>7. ASSUME NEW e \in Expiries, mod_timer(t, e)
        PROVE  Queue!Next \/ UNCHANGED Queue!queueVars
    BY <1>1, <2>2, <2>7, ApiIsQueueStep, TimesAreNat
  <2>. QED
    BY <2>3, <2>4, <2>5, <2>6, <2>7
<1>3. CASE Tick \/ SetClock \/ UNCHANGED timerVars
  <2>1. /\ inited' = inited /\ heap' = heap /\ expires' = expires
        /\ pc' = pc /\ now' = now /\ timer' = timer
    BY <1>3 DEF Tick, SetClock, timerVars, listVars, walkVars
  <2>2. Armed' = Armed /\ QueueRunning' = QueueRunning
    BY <2>1 DEF Armed, QueueRunning
  <2>3. QueueClock' \in Nat
    BY <1>1 DEF QueueClock, WalkInv
  <2>4. Queue!Tick
    BY <2>1, <2>2, <2>3 DEF Queue!Tick, QueueClock, QueueRunning
  <2>. QED
    BY <2>4 DEF Queue!Next
<1>4. CASE Dispatch
  <2>1. /\ inited' = inited /\ heap' = heap /\ expires' = expires
        /\ pc = "idle" /\ pc' = "loop" /\ now' = mtime
    BY <1>4 DEF Dispatch, dispatch_timer, listVars
  <2>2. Armed' = Armed /\ QueueRunning' = QueueRunning /\ QueueClock' = QueueClock
    BY <2>1 DEF Armed, QueueRunning, QueueClock
  <2>. QED
    BY <2>1, <2>2 DEF Queue!queueVars, QueueClock, QueueRunning
<1>5. CASE LoopEnds
  <2>1. /\ inited' = inited /\ heap' = heap /\ expires' = expires
        /\ pc = "loop" /\ pc' = "idle"
    BY <1>5 DEF LoopEnds, listVars
  <2>2. Armed' = Armed /\ QueueRunning' = QueueRunning
    BY <2>1 DEF Armed, QueueRunning
  <2>3. QueueClock' \in Nat
    BY <1>1 DEF QueueClock, WalkInv
  <2>4. Queue!Tick
    BY <2>1, <2>2, <2>3 DEF Queue!Tick, QueueClock, QueueRunning
  <2>. QED
    BY <2>4 DEF Queue!Next
<1>6. CASE LoopSkips
  <2>1. /\ inited' = inited /\ heap' = heap /\ expires' = expires
        /\ pc = "loop" /\ pc' = "loop" /\ now' = now
    BY <1>6 DEF LoopSkips, listVars
  <2>2. Armed' = Armed /\ QueueRunning' = QueueRunning /\ QueueClock' = QueueClock
    BY <2>1 DEF Armed, QueueRunning, QueueClock
  <2>. QED
    BY <2>1, <2>2 DEF Queue!queueVars, QueueClock, QueueRunning
<1>7. CASE LoopCalls
  <2>1. /\ inited' = inited /\ heap' = heap /\ expires' = expires
        /\ pc = "loop" /\ pc' = "callback" /\ now' = now /\ timer' = timer
        /\ timer # timer_list /\ now >= expires[timer]
    BY <1>7 DEF LoopCalls, Expired, time_after_eq, listVars
  <2>2. Armed' = Armed
    BY <2>1 DEF Armed
  <2>3. timer \in Armed /\ timer \in Timer
    BY <1>1, <2>1, PendingIs DEF CursorInv
  <2>4. expires[timer] \in Nat /\ now \in Nat
    BY <1>1, <2>3 DEF ListInv, WalkInv
  <2>5. expires[timer] <= now
    BY <2>1, <2>4
  <2>6. Queue!Run(timer)
    BY <2>1, <2>2, <2>3, <2>5 DEF Queue!Run
  <2>. QED
    BY <2>3, <2>6 DEF Queue!Next
<1>8. CASE CallReturns
  <2>1. pc' = "loop" /\ pc = "callback" /\ now' = now
    BY <1>8 DEF CallReturns
  <2>2. Armed' = Armed \ {timer} /\ expires' = expires /\ timer \in Timer
    BY <1>8, WalkDetaches
  <2>3. Queue!Finish
    BY <2>1, <2>2, TimerAssumption DEF Queue!Finish
  <2>. QED
    BY <2>3 DEF Queue!Next
<1>9. CASE Callback
  <2>1. UNCHANGED <<mtime, walkVars>> /\ timer \in Timer
    BY <1>1, <1>9, CallbackCases DEF WalkInv
  <2>2. QueueClock' = QueueClock /\ QueueRunning' = QueueRunning
    BY <2>1 DEF QueueClock, QueueRunning, walkVars
  <2>3. CASE \E t \in Timer, e \in CallbackTimes : add_timer(t, e)
    <3>1. PICK t \in Timer, e \in Nat : add_timer(t, e)
      BY <2>3, TimesAreNat
    <3>. QED
      BY <1>1, <2>2, <3>1, ApiIsQueueStep
  <2>4. CASE \E t \in Timer \cup {timer}, e \in CallbackTimes : mod_timer(t, e)
    <3>1. PICK t \in Timer, e \in Nat : mod_timer(t, e)
      BY <2>1, <2>4, TimesAreNat
    <3>. QED
      BY <1>1, <2>2, <3>1, ApiIsQueueStep
  <2>5. CASE \E t \in Timer \cup {timer} : del_timer(t)
    <3>1. PICK t \in Timer : del_timer(t)
      BY <2>1, <2>5
    <3>. QED
      BY <1>1, <2>2, <3>1, ApiIsQueueStep
  <2>. QED
    BY <1>9, <2>3, <2>4, <2>5, CallbackCases
<1>. QED
  BY <1>2, <1>3, <1>4, <1>5, <1>6, <1>7, <1>8, <1>9 DEF Next, Walk

\* dispatch_timer and the timer API do what the queue promises, unless a
\* timer function deletes the timer that the walk visits next: then the walk
\* may call a function for a timer that is not armed.
THEOREM TimerRefinement ==
  ASSUME "delete_next" \notin CallbackUses
  PROVE  Spec => ImplementsTimerQueue
<1>1. Init => Queue!Init
  <2>. SUFFICES ASSUME Init PROVE Queue!Init
    OBVIOUS
  <2>1. Armed = {} /\ expires \in [Timer -> Nat] /\ pc = "idle" /\ mtime = 0
    BY DEF Init, Armed
  <2>. QED
    BY <2>1 DEF Queue!Init
<1>2. (TimerInv /\ CursorInv) /\ [Next]_timerVars /\ (TimerInv /\ CursorInv)'
        => [Queue!Next]_(Queue!queueVars)
  BY QueueStep
<1>. QED
  BY <1>1, <1>2, CursorInvariant, PTL DEF Spec, ImplementsTimerQueue, Queue!Spec

-----------------------------------------------------------------------------
(* The order of the calls, when the clock is not set and timer functions   *)
(* ask for times that lie ahead.                                           *)

\* x is the first of s, or the first behind t.
Ahead(s, t, x) ==
  \/ 1 <= Len(s) /\ x = s[1]
  \/ 2 <= Len(s) /\ t = s[1] /\ x = s[2]

LEMMA RemovalKeepsAhead ==
  ASSUME NEW s \in Seq(Timer), NEW t, NEW x, Ahead(s, t, x),
         NEW u, u # x, NEW r, Without(s, u, r)
  PROVE  Ahead(r, t, x)
<1>1. CASE r = s
  BY <1>1
<1>2. ASSUME NEW p \in 1 .. Len(s), s[p] = u, r = Removed(s, p)
      PROVE  Ahead(r, t, x)
  <2>1. /\ Len(s) \in Nat /\ Len(r) = Len(s) - 1
        /\ \A k \in 1 .. (Len(s) - 1) : r[k] = IF k < p THEN s[k] ELSE s[k + 1]
    <3>1. /\ Removed(s, p) \in Seq(Timer) /\ Len(Removed(s, p)) = Len(s) - 1
          /\ \A k \in 1 .. (Len(s) - 1) :
               Removed(s, p)[k] = IF k < p THEN s[k] ELSE s[k + 1]
      BY ONLY RemovedIs, s \in Seq(Timer), p \in 1 .. Len(s)
    <3>. QED
      BY <1>2, <3>1
  <2>2. CASE 1 <= Len(s) /\ x = s[1]
    <3>1. p # 1 /\ 1 < p /\ 1 <= Len(s) - 1
      BY <1>2, <2>1, <2>2
    <3>2. 1 \in 1 .. (Len(s) - 1)
      BY <2>1, <3>1
    <3>. QED
      BY <2>1, <2>2, <3>1, <3>2 DEF Ahead
  <2>3. CASE 2 <= Len(s) /\ t = s[1] /\ x = s[2]
    <3>1. CASE p = 1
      <4>1. 1 \in 1 .. (Len(s) - 1) /\ ~(1 < p) /\ 1 + 1 = 2 /\ 1 <= Len(s) - 1
        BY <2>1, <2>3, <3>1
      <4>2. r[1] = s[2]
        BY <2>1, <4>1
      <4>. QED
        BY <2>1, <2>3, <4>1, <4>2 DEF Ahead
    <3>2. CASE p # 1
      <4>1. p # 2
        BY <1>2, <2>3
      <4>2. /\ 1 \in 1 .. (Len(s) - 1) /\ 2 \in 1 .. (Len(s) - 1)
            /\ 1 < p /\ 2 < p /\ 2 <= Len(s) - 1
        BY <2>1, <3>2, <4>1
      <4>3. r[1] = s[1] /\ r[2] = s[2]
        BY <2>1, <4>2
      <4>. QED
        BY <2>1, <2>3, <4>2, <4>3 DEF Ahead
    <3>. QED
      BY <3>1, <3>2
  <2>. QED
    BY <2>2, <2>3 DEF Ahead
<1>. QED
  BY <1>1, <1>2 DEF Without

LEMMA InsertionKeepsAhead ==
  ASSUME NEW s \in Seq(Timer), NEW t, NEW x \in Timer, Ahead(s, t, x),
         NEW u \in Timer, NEW p \in 1 .. (Len(s) + 1), NEW r, r = Inserted(s, p, u),
         NEW exp \in [Timer -> Nat], Sorted(r, exp), exp[x] < exp[u]
  PROVE  Ahead(r, t, x)
<1>1. /\ Len(s) \in Nat /\ Len(r) = Len(s) + 1
      /\ \A k \in 1 .. (Len(s) + 1) :
           r[k] = IF k < p THEN s[k] ELSE IF k = p THEN u ELSE s[k - 1]
  <2>1. /\ Inserted(s, p, u) \in Seq(Timer) /\ Len(Inserted(s, p, u)) = Len(s) + 1
        /\ \A k \in 1 .. (Len(s) + 1) :
             Inserted(s, p, u)[k] =
               IF k < p THEN s[k] ELSE IF k = p THEN u ELSE s[k - 1]
    BY ONLY InsertedIs, s \in Seq(Timer), p \in 1 .. (Len(s) + 1), u \in Timer
  <2>. QED
    BY <2>1
<1>2. ASSUME NEW k \in 1 .. (Len(s) + 1), x = r[k]
      PROVE  k < p
  <2>1. k # p /\ ~(p < k)
    <3>1. p \in 1 .. Len(r) /\ k \in 1 .. Len(r) /\ r[p] = u
      BY <1>1
    <3>2. p < k => exp[u] <= exp[x]
      BY <1>2, <3>1 DEF Sorted
    <3>3. exp[u] \in Nat /\ exp[x] \in Nat
      OBVIOUS
    <3>. QED
      BY <1>2, <3>1, <3>2, <3>3
  <2>. QED
    BY <2>1
<1>3. CASE 1 <= Len(s) /\ x = s[1]
  <2>1. p # 1
    <3>. SUFFICES ASSUME p = 1 PROVE FALSE
      OBVIOUS
    <3>1. 2 \in 1 .. (Len(s) + 1) /\ ~(2 < p) /\ 2 # p /\ 2 - 1 = 1
      BY <1>1, <1>3
    <3>2. r[2] = x
      BY <1>1, <1>3, <3>1
    <3>. QED
      BY <1>2, <3>1, <3>2
  <2>2. 1 < p /\ 1 \in 1 .. (Len(s) + 1) /\ 1 <= Len(s) + 1
    BY <1>1, <2>1
  <2>. QED
    BY <1>1, <1>3, <2>2 DEF Ahead
<1>4. CASE 2 <= Len(s) /\ t = s[1] /\ x = s[2]
  <2>1. ~(p <= 2)
    <3>. SUFFICES ASSUME p <= 2 PROVE FALSE
      OBVIOUS
    <3>1. 3 \in 1 .. (Len(s) + 1) /\ ~(3 < p) /\ 3 # p /\ 3 - 1 = 2
      BY <1>1, <1>4
    <3>2. r[3] = x
      BY <1>1, <1>4, <3>1
    <3>. QED
      BY <1>2, <3>1, <3>2
  <2>2. /\ 1 < p /\ 2 < p /\ 2 <= Len(s) + 1
        /\ 1 \in 1 .. (Len(s) + 1) /\ 2 \in 1 .. (Len(s) + 1)
    BY <1>1, <1>4, <2>1
  <2>3. r[1] = s[1] /\ r[2] = s[2]
    BY <1>1, <2>2
  <2>. QED
    BY <1>1, <1>4, <2>2, <2>3 DEF Ahead
<1>. QED
  BY <1>3, <1>4 DEF Ahead

LEMMA RemovalMakesFirst ==
  ASSUME NEW s \in Seq(Timer), NEW t, NEW x, Ahead(s, t, x), t # x,
         \A i, j \in 1 .. Len(s) : s[i] = s[j] => i = j,
         NEW r, Without(s, t, r)
  PROVE  1 <= Len(r) /\ x = r[1]
<1>1. CASE r = s /\ \A p \in 1 .. Len(s) : s[p] # t
  <2>1. ~(2 <= Len(s) /\ t = s[1])
    BY <1>1
  <2>. QED
    BY <1>1, <2>1 DEF Ahead
<1>2. ASSUME NEW p \in 1 .. Len(s), s[p] = t, r = Removed(s, p)
      PROVE  1 <= Len(r) /\ x = r[1]
  <2>1. /\ Len(s) \in Nat /\ Len(r) = Len(s) - 1
        /\ \A k \in 1 .. (Len(s) - 1) : r[k] = IF k < p THEN s[k] ELSE s[k + 1]
    <3>1. /\ Removed(s, p) \in Seq(Timer) /\ Len(Removed(s, p)) = Len(s) - 1
          /\ \A k \in 1 .. (Len(s) - 1) :
               Removed(s, p)[k] = IF k < p THEN s[k] ELSE s[k + 1]
      BY ONLY RemovedIs, s \in Seq(Timer), p \in 1 .. Len(s)
    <3>. QED
      BY <1>2, <3>1
  <2>2. CASE 1 <= Len(s) /\ x = s[1]
    <3>1. 1 < p /\ 1 <= Len(s) - 1 /\ 1 \in 1 .. (Len(s) - 1)
      BY <1>2, <2>1, <2>2
    <3>. QED
      BY <2>1, <2>2, <3>1
  <2>3. CASE 2 <= Len(s) /\ t = s[1] /\ x = s[2]
    <3>1. p = 1
      BY <1>2, <2>1, <2>3
    <3>2. ~(1 < p) /\ 1 + 1 = 2 /\ 1 <= Len(s) - 1 /\ 1 \in 1 .. (Len(s) - 1)
      BY <2>1, <2>3, <3>1
    <3>. QED
      BY <2>1, <2>3, <3>2
  <2>. QED
    BY <2>2, <2>3 DEF Ahead
<1>. QED
  BY <1>1, <1>2 DEF Without

\* A timer that the walk finds expired is the first of the list; and while
\* its function runs, the one behind it is the next, if it has expired.
OrderInv ==
  /\ pc # "idle" => now <= mtime
  /\ pc = "loop" /\ timer \in Timer /\ expires[timer] <= now =>
       1 <= Len(Pending) /\ timer = Pending[1]
  /\ pc = "callback" /\ timer1 \in Timer /\ expires[timer1] <= now =>
       Ahead(Pending, timer, timer1)

\* What OrderInv needs of a callback.
LEMMA CallbackKeepsAhead ==
  ASSUME "delete_next" \notin CallbackUses, "overdue" \notin CallbackUses,
         TimerInv, CursorInv, OrderInv, Callback,
         timer1 \in Timer, expires'[timer1] <= now
  PROVE  Ahead(Pending', timer, timer1)
<1>1. /\ ListInv /\ pc = "callback" /\ now <= mtime /\ timer \in Timer
      /\ timer1 # timer /\ mtime \in Nat /\ now \in Nat
      /\ expires \in [Timer -> Nat]
  BY CallbackCases DEF TimerInv, ListInv, WalkInv, CursorInv, OrderInv
<1>2. \A e \in CallbackTimes : e \in Nat /\ ~(e <= now)
  BY <1>1, TimesAreNat DEF CallbackTimes
<1>3. expires[timer1] <= now => Ahead(Pending, timer, timer1)
  BY <1>1 DEF OrderInv
<1>4. Pending \in Seq(Timer)
  BY <1>1, PendingIs
<1>5. ASSUME ListInv', inited'
      PROVE  Sorted(Pending', expires') /\ expires' \in [Timer -> Nat]
  BY <1>5 DEF ListInv, GoodHeap, Pending, EntriesOf
<1>6. ASSUME NEW t \in Timer, NEW e \in CallbackTimes,
             expires' = [expires EXCEPT ![t] = e]
      PROVE  t # timer1 /\ expires'[timer1] = expires[timer1]
             /\ expires'[timer1] < expires'[t]
  <2>1. expires'[t] = e /\ e \in Nat /\ ~(e <= now)
    BY <1>1, <1>2, <1>6
  <2>2. t # timer1
    BY <2>1
  <2>3. expires'[timer1] = expires[timer1] /\ expires[timer1] \in Nat
    BY <1>1, <1>6, <2>2
  <2>4. expires[timer1] < e
    BY <1>1, <2>1, <2>3
  <2>. QED
    BY <2>1, <2>2, <2>3, <2>4
<1>7. ASSUME NEW t \in Timer, NEW e \in CallbackTimes, add_timer(t, e)
      PROVE  Ahead(Pending', timer, timer1)
  <2>1. /\ ListInv' /\ inited' /\ expires' = [expires EXCEPT ![t] = e]
        /\ \E p \in 1 .. (Len(Pending) + 1) : Pending' = Inserted(Pending, p, t)
    BY <1>1, <1>2, <1>7, AddTimer
  <2>2. PICK p \in 1 .. (Len(Pending) + 1) : Pending' = Inserted(Pending, p, t)
    BY <2>1
  <2>3. Ahead(Pending, timer, timer1) /\ expires'[timer1] < expires'[t]
    BY <1>3, <1>6, <2>1
  <2>4. Sorted(Pending', expires') /\ expires' \in [Timer -> Nat]
    BY <1>5, <2>1
  <2>. QED
    BY <1>4, <2>2, <2>3, <2>4, InsertionKeepsAhead
<1>8. ASSUME NEW t \in Timer, NEW e \in CallbackTimes, mod_timer(t, e)
      PROVE  Ahead(Pending', timer, timer1)
  <2>1. /\ ListInv' /\ inited' = inited
        /\ \/ UNCHANGED <<heap, expires>>
           \/ /\ expires' = [expires EXCEPT ![t] = e]
              /\ \E r \in Seq(Timer) : Without(Pending, t, r) /\
                   \E p \in 1 .. (Len(r) + 1) : Pending' = Inserted(r, p, t)
    BY <1>1, <1>2, <1>8, ModTimer
  <2>2. CASE UNCHANGED <<heap, expires>>
    <3>1. Pending' = Pending /\ expires' = expires
      BY <2>1, <2>2 DEF Pending
    <3>. QED
      BY <1>3, <3>1
  <2>3. CASE /\ expires' = [expires EXCEPT ![t] = e]
             /\ \E r \in Seq(Timer) : Without(Pending, t, r) /\
                  \E p \in 1 .. (Len(r) + 1) : Pending' = Inserted(r, p, t)
    <3>1. PICK r \in Seq(Timer) : Without(Pending, t, r) /\
                 \E p \in 1 .. (Len(r) + 1) : Pending' = Inserted(r, p, t)
      BY <2>3
    <3>2. PICK p \in 1 .. (Len(r) + 1) : Pending' = Inserted(r, p, t)
      BY <3>1
    <3>3. /\ Ahead(Pending, timer, timer1) /\ t # timer1
          /\ expires'[timer1] < expires'[t]
      BY <1>3, <1>6, <2>3
    <3>4. Ahead(r, timer, timer1)
      BY <1>4, <3>1, <3>3, RemovalKeepsAhead
    <3>5. inited
      <4>1. heap.next[t] # NULL
        BY <1>8 DEF mod_timer, timer_panding
      <4>. QED
        BY <1>1, <4>1, Nodes DEF ListInv
    <3>6. Sorted(Pending', expires') /\ expires' \in [Timer -> Nat]
      BY <1>5, <2>1, <3>5
    <3>. QED
      BY <3>2, <3>3, <3>4, <3>6, InsertionKeepsAhead
  <2>. QED
    BY <2>1, <2>2, <2>3
<1>9. ASSUME NEW t \in Timer, t # timer1, del_timer(t)
      PROVE  Ahead(Pending', timer, timer1)
  <2>1. expires' = expires /\ Without(Pending, t, Pending')
    BY <1>1, <1>9, DelTimer
  <2>2. Ahead(Pending, timer, timer1)
    BY <1>3, <2>1
  <2>. QED
    BY <1>4, <1>9, <2>1, <2>2, RemovalKeepsAhead
<1>10. CASE \E t \in Timer, e \in CallbackTimes : add_timer(t, e)
  BY <1>7, <1>10
<1>11. CASE \E t \in Timer \cup {timer}, e \in CallbackTimes : mod_timer(t, e)
  <2>1. PICK t \in Timer, e \in CallbackTimes : mod_timer(t, e)
    BY <1>1, <1>11
  <2>. QED
    BY <1>8, <2>1
<1>12. CASE \E t \in Timer \cup {timer} :
              /\ t = timer1 /\ t # timer => "delete_next" \in CallbackUses
              /\ del_timer(t)
  <2>1. PICK t \in Timer : t # timer1 /\ del_timer(t)
    BY <1>1, <1>12
  <2>. QED
    BY <1>9, <2>1
<1>. QED
  BY <1>10, <1>11, <1>12, CallbackCases

LEMMA OrderStep ==
  ASSUME "delete_next" \notin CallbackUses, "overdue" \notin CallbackUses,
         ~ClockIsSet, TimerInv, CursorInv, OrderInv, [Next]_timerVars
  PROVE  OrderInv'
<1>1. ListInv /\ WalkInv /\ ListInv'
  BY TimerStep DEF TimerInv
<1>2. /\ pc # "idle" => now <= mtime
      /\ mtime \in Nat /\ now \in Nat /\ expires \in [Timer -> Nat]
  BY <1>1 DEF OrderInv, WalkInv, ListInv
<1>3. CASE Program
  <2>1. pc' = "idle"
    BY <1>3 DEF Program, walkVars
  <2>. QED
    BY <2>1 DEF OrderInv
<1>4. CASE Tick \/ SetClock \/ UNCHANGED timerVars
  <2>1. /\ inited' = inited /\ heap' = heap /\ expires' = expires
        /\ pc' = pc /\ now' = now /\ timer' = timer /\ timer1' = timer1
    BY <1>4 DEF Tick, SetClock, timerVars, listVars, walkVars
  <2>2. mtime' = mtime + 1 \/ mtime' = mtime
    BY <1>4 DEF Tick, SetClock, timerVars
  <2>3. Pending' = Pending
    BY <2>1 DEF Pending
  <2>4. pc' # "idle" => now' <= mtime'
    BY <1>2, <2>1, <2>2
  <2>. QED
    BY <2>1, <2>3, <2>4 DEF OrderInv
<1>5. CASE Dispatch
  <2>1. /\ inited' = inited /\ heap' = heap /\ inited /\ pc' = "loop"
        /\ now' = mtime /\ mtime' = mtime
        /\ timer' = heap.next[timer_list]
    BY <1>5 DEF Dispatch, dispatch_timer, listVars
  <2>2. Pending' = Pending
    BY <2>1 DEF Pending
  <2>3. timer' = RingAt(Pending, timer_list, 1)
    BY <1>1, <2>1, NextOf
  <2>4. ASSUME timer' \in Timer
        PROVE  1 <= Len(Pending) /\ timer' = Pending[1]
    <3>1. 1 \in 1 .. Len(Pending) /\ timer' = Pending[1]
      BY <2>3, <2>4, TimerAssumption DEF RingAt
    <3>2. Len(Pending) \in Nat
      BY <1>1, PendingIs
    <3>. QED
      BY <3>1, <3>2
  <2>5. now' <= mtime'
    BY <1>2, <2>1
  <2>. QED
    BY <2>1, <2>2, <2>4, <2>5 DEF OrderInv
<1>6. CASE LoopEnds
  <2>1. pc' = "idle"
    BY <1>6 DEF LoopEnds
  <2>. QED
    BY <2>1 DEF OrderInv
<1>7. CASE LoopSkips
  <2>1. /\ inited' = inited /\ heap' = heap /\ expires' = expires /\ mtime' = mtime
        /\ pc' = "loop" /\ pc = "loop" /\ now' = now
        /\ timer' = timer1 /\ timer # timer_list /\ ~(now >= expires[timer])
    BY <1>7 DEF LoopSkips, Step, listVars, Expired, time_after_eq
  <2>2. timer \in Armed /\ timer1 = heap.next[timer] /\ inited
    BY <1>1, <2>1 DEF CursorInv, WalkInv
  <2>3. PICK k \in 1 .. Len(Pending) : timer = Pending[k]
    BY <1>1, <2>2, PendingIs
  <2>4. timer1 = RingAt(Pending, timer_list, k + 1)
    BY <1>1, <2>2, <2>3, NextOf
  <2>5. ASSUME timer1 \in Timer
        PROVE  ~(expires[timer1] <= now)
    <3>1. k + 1 \in 1 .. Len(Pending) /\ timer1 = Pending[k + 1] /\ k < k + 1
      BY <2>4, <2>5, TimerAssumption DEF RingAt
    <3>2. \A i, j \in 1 .. Len(Pending) :
            i < j => expires[Pending[i]] <= expires[Pending[j]]
      BY <1>1, <2>2 DEF ListInv, GoodHeap, Sorted, Pending, EntriesOf
    <3>3. expires[timer] <= expires[timer1]
      BY <2>3, <3>1, <3>2
    <3>4. expires[timer] \in Nat /\ expires[timer1] \in Nat
      BY <1>1, <1>2, <2>2, <2>5, PendingIs
    <3>. QED
      BY <1>2, <2>1, <3>3, <3>4
  <2>6. now' <= mtime'
    BY <1>2, <2>1
  <2>. QED
    BY <2>1, <2>5, <2>6 DEF OrderInv
<1>8. CASE LoopCalls
  <2>1. /\ inited' = inited /\ heap' = heap /\ expires' = expires /\ mtime' = mtime
        /\ pc' = "callback" /\ pc = "loop" /\ now' = now
        /\ timer' = timer /\ timer1' = timer1
        /\ timer # timer_list /\ now >= expires[timer]
    BY <1>8 DEF LoopCalls, listVars, Expired, time_after_eq
  <2>2. timer \in Armed /\ timer1 = heap.next[timer] /\ inited /\ timer \in Timer
    BY <1>1, <2>1, PendingIs DEF CursorInv, WalkInv
  <2>3. expires[timer] <= now
    BY <1>2, <2>1, <2>2
  <2>4. 1 <= Len(Pending) /\ timer = Pending[1] /\ Len(Pending) \in Nat
    BY <1>1, <2>1, <2>2, <2>3, PendingIs DEF OrderInv
  <2>5. timer1 = RingAt(Pending, timer_list, 2)
    <3>1. 1 \in 1 .. Len(Pending) /\ 1 + 1 = 2
      BY <2>4
    <3>2. heap.next[Pending[1]] = RingAt(Pending, timer_list, 1 + 1)
      BY <1>1, <2>2, <3>1, NextOf
    <3>. QED
      BY <2>2, <2>4, <3>1, <3>2
  <2>6. ASSUME timer1 \in Timer
        PROVE  Ahead(Pending, timer, timer1)
    <3>1. 2 \in 1 .. Len(Pending) /\ timer1 = Pending[2]
      BY <2>5, <2>6, TimerAssumption DEF RingAt
    <3>. QED
      BY <2>4, <3>1 DEF Ahead
  <2>7. Pending' = Pending /\ now' <= mtime'
    BY <1>2, <2>1 DEF Pending
  <2>. QED
    BY <2>1, <2>6, <2>7 DEF OrderInv
<1>9. CASE CallReturns
  <2>1. /\ pc' = "loop" /\ pc = "callback" /\ now' = now /\ mtime' = mtime
        /\ timer' = timer1
    BY <1>9 DEF CallReturns, Step
  <2>2. /\ expires' = expires /\ Without(Pending, timer, Pending')
    BY <1>9, WalkDetaches
  <2>3. /\ Pending \in Seq(Timer) /\ timer # timer1
        /\ \A i, j \in 1 .. Len(Pending) : Pending[i] = Pending[j] => i = j
    BY <1>1, <2>1, PendingIs DEF CursorInv
  <2>4. ASSUME timer1 \in Timer, expires[timer1] <= now
        PROVE  1 <= Len(Pending') /\ timer1 = Pending'[1]
    <3>1. Ahead(Pending, timer, timer1)
      BY <2>1, <2>4 DEF OrderInv
    <3>. QED
      BY <2>2, <2>3, <3>1, RemovalMakesFirst
  <2>5. now' <= mtime'
    BY <1>2, <2>1
  <2>. QED
    BY <2>1, <2>2, <2>4, <2>5 DEF OrderInv
<1>10. CASE Callback
  <2>1. /\ pc' = "callback" /\ pc = "callback" /\ now' = now /\ mtime' = mtime
        /\ timer' = timer /\ timer1' = timer1
    BY <1>10, CallbackCases DEF walkVars
  <2>2. timer1 \in Timer /\ expires'[timer1] <= now => Ahead(Pending', timer, timer1)
    BY <1>10, CallbackKeepsAhead
  <2>3. now' <= mtime'
    BY <1>2, <2>1
  <2>. QED
    BY <2>1, <2>2, <2>3 DEF OrderInv
<1>. QED
  BY <1>3, <1>4, <1>5, <1>6, <1>7, <1>8, <1>9, <1>10 DEF Next, Walk

\* The functions are called in the order of expiry, if the clock is not set
\* and timer functions ask for times that lie ahead: a function that is
\* called has the earliest expiry of all armed timers.
THEOREM CallsAreInOrder ==
  ASSUME "delete_next" \notin CallbackUses, "overdue" \notin CallbackUses,
         ~ClockIsSet
  PROVE  Spec => EarliestFirst
<1>1. Init => OrderInv
  BY DEF Init, OrderInv
<1>2. (TimerInv /\ CursorInv) /\ OrderInv /\ [Next]_timerVars => OrderInv'
  BY OrderStep
<1>3. ASSUME TimerInv, CursorInv, OrderInv, LoopCalls, NEW t \in Armed
      PROVE  expires[timer] <= expires[t]
  <2>1. /\ pc = "loop" /\ timer # timer_list /\ now >= expires[timer]
        /\ ListInv /\ WalkInv
    BY <1>3 DEF LoopCalls, Expired, time_after_eq, TimerInv
  <2>2. timer \in Timer /\ timer \in Armed /\ t \in Timer /\ inited
    BY <2>1, <1>3, PendingIs DEF CursorInv, WalkInv
  <2>3. expires[timer] \in Nat /\ now \in Nat
    BY <2>1, <2>2 DEF ListInv, WalkInv
  <2>4. 1 <= Len(Pending) /\ timer = Pending[1]
    BY <1>3, <2>1, <2>2, <2>3 DEF OrderInv
  <2>5. PICK k \in 1 .. Len(Pending) : t = Pending[k]
    BY <1>3, <2>1, PendingIs
  <2>6. \A i, j \in 1 .. Len(Pending) :
          i < j => expires[Pending[i]] <= expires[Pending[j]]
    BY <2>1, <2>2 DEF ListInv, GoodHeap, Sorted, Pending, EntriesOf
  <2>7. Len(Pending) \in Nat
    BY <2>1, PendingIs
  <2>8. CASE k = 1
    BY <2>3, <2>4, <2>5, <2>8
  <2>9. CASE k # 1
    <3>1. 1 \in 1 .. Len(Pending) /\ 1 < k
      BY <2>5, <2>7, <2>9
    <3>. QED
      BY <2>4, <2>5, <2>6, <3>1
  <2>. QED
    BY <2>8, <2>9
<1>4. TimerInv /\ CursorInv /\ OrderInv /\ [Next]_timerVars
        => [LoopCalls => \A t \in Armed : expires[timer] <= expires[t]]_timerVars
  BY <1>3
<1>. QED
  BY <1>1, <1>2, <1>4, CursorInvariant, PTL DEF Spec, EarliestFirst

-----------------------------------------------------------------------------
(* The event loop.                                                         *)

\* The loop sleeps between two walks, and only once the list is initialised.
LoopInv ==
  /\ sleeping \in {"no", "soon", "yes"}
  /\ sleeping # "no" => pc = "idle" /\ inited

LEMMA LoopStep ==
  ASSUME LoopInv, [EventNext]_eventVars
  PROVE  LoopInv' /\ [Next]_timerVars
<1>. USE DEF LoopInv
<1>1. CASE ProgramRuns
  BY <1>1 DEF ProgramRuns, loopVars, Next
<1>2. CASE ClockRuns
  <2>1. Tick /\ sleeping' = sleeping /\ pc' = pc /\ inited' = inited
    BY <1>2 DEF ClockRuns, Tick, listVars, walkVars
  <2>. QED
    BY <2>1 DEF Next
<1>3. CASE vlstp_dispatch_event
  <2>1. /\ pc = "idle" /\ inited /\ sleeping' = "soon" /\ UNCHANGED timerVars
        /\ pc' = pc /\ inited' = inited
    BY <1>3 DEF vlstp_dispatch_event, timerVars, listVars, walkVars
  <2>. QED
    BY <2>1
<1>4. CASE Select
  <2>1. /\ sleeping = "soon" /\ sleeping' = "yes" /\ UNCHANGED timerVars
        /\ pc' = pc /\ inited' = inited
    BY <1>4 DEF Select, timerVars, listVars, walkVars
  <2>. QED
    BY <2>1
<1>5. CASE TimedOut
  <2>1. sleeping = "yes" /\ sleeping' = "no" /\ dispatch_timer
    BY <1>5 DEF TimedOut
  <2>. QED
    BY <2>1 DEF Dispatch, Next
<1>6. CASE Interrupted
  <2>1. sleeping' = "no" /\ UNCHANGED timerVars
    BY <1>6 DEF Interrupted
  <2>. QED
    BY <2>1
<1>7. CASE WalkRuns
  <2>1. Walk /\ sleeping' = sleeping
    BY <1>7 DEF WalkRuns, loopVars
  <2>2. pc # "idle"
    BY <2>1 DEF Walk, LoopEnds, LoopSkips, LoopCalls, CallReturns
  <2>. QED
    BY <2>1, <2>2 DEF Next
<1>8. CASE FunctionRuns
  <2>1. Callback /\ sleeping' = sleeping
    BY <1>8 DEF FunctionRuns, loopVars
  <2>2. pc # "idle"
    BY <2>1 DEF Callback
  <2>. QED
    BY <2>1, <2>2 DEF Next
<1>9. CASE UNCHANGED eventVars
  <2>1. /\ UNCHANGED timerVars /\ sleeping' = sleeping
        /\ pc' = pc /\ inited' = inited
    BY <1>9 DEF eventVars, loopVars, timerVars, listVars, walkVars
  <2>. QED
    BY <2>1
<1>. QED
  BY <1>1, <1>2, <1>3, <1>4, <1>5, <1>6, <1>7, <1>8, <1>9 DEF EventNext

\* The event loop uses the timers as module Timer lets a program use them:
\* what is proved of the timer list holds under the event loop.
THEOREM EventLoopUsesTimers == EventSpec => Spec
<1>1. EventInit => Init /\ LoopInv
  BY DEF EventInit, LoopInv
<1>2. LoopInv /\ [EventNext]_eventVars => LoopInv' /\ [Next]_timerVars
  BY LoopStep
<1>. QED
  BY <1>1, <1>2, PTL DEF EventSpec, Spec

\* The delay that was computed, or the time to wake that follows from it,
\* leaves the slack to the first expiry, less what passed before the sleep.
SleepInv ==
  /\ ms \in Nat /\ wake \in Nat /\ late \in Nat
  /\ sleeping = "soon" =>
       \A t \in Armed : ms = 0 \/ ms + mtime + SlackMsecs <= expires[t] + late
  /\ sleeping = "yes" =>
       \A t \in Armed : ms = 0 \/ wake + SlackMsecs <= expires[t] + late

\* timer_next_msecs keeps away from every expiry.
LEMMA NextMsecs ==
  ASSUME ListInv, inited, mtime \in Nat
  PROVE  LET d == timer_next_msecs(IdleMsecs, SlackMsecs)
         IN  /\ d \in Nat
             /\ \A t \in Armed : d = 0 \/ d + mtime + SlackMsecs <= expires[t]
<1>. DEFINE d == timer_next_msecs(IdleMsecs, SlackMsecs)
            first == expires[heap.next[timer_list]]
<1>1. /\ Len(Pending) \in Nat /\ Armed = {Pending[k] : k \in 1 .. Len(Pending)}
      /\ Armed \subseteq Timer /\ expires \in [Timer -> Nat]
      /\ IdleMsecs \in Nat /\ SlackMsecs \in Nat
  BY PendingIs, EventLoopAssumption DEF ListInv
<1>2. heap.next[timer_list] = RingAt(Pending, timer_list, 1)
  BY NextOf
<1>3. CASE heap.next[timer_list] = timer_list
  <2>1. d = IdleMsecs
    BY <1>3 DEF timer_next_msecs, list_empty
  <2>2. ~(1 \in 1 .. Len(Pending))
    <3>. SUFFICES ASSUME 1 \in 1 .. Len(Pending) PROVE FALSE
      OBVIOUS
    <3>1. timer_list = Pending[1]
      BY <1>2, <1>3 DEF RingAt
    <3>2. Pending[1] \in Timer
      BY <1>1
    <3>. QED
      BY <3>1, <3>2, TimerAssumption
  <2>3. Armed = {}
    BY <1>1, <2>2
  <2>. QED
    BY <1>1, <2>1, <2>3
<1>4. CASE heap.next[timer_list] # timer_list
  <2>1. 1 \in 1 .. Len(Pending) /\ heap.next[timer_list] = Pending[1]
    BY <1>2, <1>4 DEF RingAt
  <2>2. first \in Nat
    BY <1>1, <2>1
  <2>3. ASSUME NEW t \in Armed
        PROVE  first <= expires[t] /\ expires[t] \in Nat
    <3>1. PICK k \in 1 .. Len(Pending) : t = Pending[k]
      BY <1>1, <2>3
    <3>2. \A i, j \in 1 .. Len(Pending) :
            i < j => expires[Pending[i]] <= expires[Pending[j]]
      BY DEF ListInv, GoodHeap, Sorted, Pending, EntriesOf
    <3>3. k = 1 \/ 1 < k
      BY <1>1, <3>1
    <3>4. k = 1 => first = expires[t]
      BY <2>1, <3>1
    <3>5. 1 < k => first <= expires[t]
      BY <2>1, <3>1, <3>2
    <3>6. expires[t] \in Nat
      BY <1>1, <2>3
    <3>. QED
      BY <2>2, <3>3, <3>4, <3>5, <3>6
  <2>4. d = IF first > mtime + SlackMsecs THEN first - mtime - SlackMsecs ELSE 0
    BY <1>4 DEF timer_next_msecs, list_empty
  <2>. HIDE DEF d, first
  <2>5. CASE first > mtime + SlackMsecs
    <3>1. d \in Nat /\ d + mtime + SlackMsecs = first
      BY <1>1, <2>2, <2>4, <2>5
    <3>2. \A t \in Armed : d + mtime + SlackMsecs <= expires[t]
      BY <2>3, <3>1
    <3>. QED
      BY <3>1, <3>2 DEF d
  <2>6. CASE ~(first > mtime + SlackMsecs)
    BY <2>4, <2>6 DEF d
  <2>. QED
    BY <2>5, <2>6
<1>. QED
  BY <1>3, <1>4

LEMMA SleepStep ==
  ASSUME TimerInv, LoopInv, SleepInv, [EventNext]_eventVars
  PROVE  SleepInv'
<1>1. /\ ListInv /\ mtime \in Nat /\ expires \in [Timer -> Nat] /\ Armed \subseteq Timer
      /\ ms \in Nat /\ wake \in Nat /\ late \in Nat /\ SlackMsecs \in Nat
  BY PendingIs, EventLoopAssumption DEF TimerInv, WalkInv, ListInv, SleepInv
<1>2. CASE ProgramRuns \/ WalkRuns \/ FunctionRuns
  <2>1. ms' = ms /\ wake' = wake /\ late' = late /\ sleeping' = sleeping
    BY <1>2 DEF ProgramRuns, WalkRuns, FunctionRuns, loopVars
  <2>2. sleeping = "no"
    BY <1>2 DEF ProgramRuns, WalkRuns, FunctionRuns, LoopInv, Callback, Walk,
                LoopEnds, LoopSkips, LoopCalls, CallReturns
  <2>. QED
    BY <1>1, <2>1, <2>2 DEF SleepInv
<1>3. CASE ClockRuns
  <2>1. /\ inited' = inited /\ heap' = heap /\ expires' = expires
        /\ ms' = ms /\ wake' = wake /\ sleeping' = sleeping
        /\ mtime' = mtime + 1
        /\ late' = IF sleeping = "soon" THEN late + 1 ELSE late
    BY <1>3 DEF ClockRuns, Tick, listVars
  <2>2. Armed' = Armed
    BY <2>1 DEF Armed
  <2>3. late' \in Nat
    BY <1>1, <2>1
  <2>4. ASSUME sleeping = "soon", NEW t \in Armed
        PROVE  ms = 0 \/ ms + mtime' + SlackMsecs <= expires[t] + late'
    <3>1. ms = 0 \/ ms + mtime + SlackMsecs <= expires[t] + late
      BY <2>4 DEF SleepInv
    <3>2. expires[t] \in Nat
      BY <1>1, <2>4
    <3>3. late' = late + 1
      BY <2>1, <2>4
    <3>. QED
      BY <1>1, <2>1, <3>1, <3>2, <3>3
  <2>5. ASSUME sleeping = "yes", NEW t \in Armed
        PROVE  ms = 0 \/ wake + SlackMsecs <= expires[t] + late'
    <3>1. late' = late
      BY <2>1, <2>5
    <3>. QED
      BY <2>5, <3>1 DEF SleepInv
  <2>. QED
    BY <1>1, <2>1, <2>2, <2>3, <2>4, <2>5 DEF SleepInv
<1>4. CASE vlstp_dispatch_event
  <2>1. /\ inited' = inited /\ heap' = heap /\ expires' = expires /\ mtime' = mtime
        /\ inited /\ sleeping' = "soon" /\ late' = 0 /\ wake' = wake
        /\ ms' = timer_next_msecs(IdleMsecs, SlackMsecs)
    BY <1>4 DEF vlstp_dispatch_event, timerVars, listVars
  <2>2. Armed' = Armed
    BY <2>1 DEF Armed
  <2>3. ms' \in Nat /\ \A t \in Armed : ms' = 0 \/ ms' + mtime + SlackMsecs <= expires[t]
    BY <1>1, <2>1, NextMsecs
  <2>4. ASSUME NEW t \in Armed
        PROVE  ms' = 0 \/ ms' + mtime' + SlackMsecs <= expires[t] + late'
    <3>1. expires[t] \in Nat /\ expires[t] + late' = expires[t]
      BY <1>1, <2>1, <2>4
    <3>. QED
      BY <2>1, <2>3, <2>4, <3>1
  <2>. QED
    BY <1>1, <2>1, <2>2, <2>3, <2>4 DEF SleepInv
<1>5. CASE Select
  <2>1. /\ inited' = inited /\ heap' = heap /\ expires' = expires /\ mtime' = mtime
        /\ sleeping = "soon" /\ sleeping' = "yes" /\ late' = late /\ ms' = ms
        /\ wake' = mtime + ms
    BY <1>5 DEF Select, timerVars, listVars
  <2>2. Armed' = Armed
    BY <2>1 DEF Armed
  <2>3. ASSUME NEW t \in Armed
        PROVE  ms = 0 \/ wake' + SlackMsecs <= expires[t] + late
    <3>1. ms = 0 \/ ms + mtime + SlackMsecs <= expires[t] + late
      BY <2>1, <2>3 DEF SleepInv
    <3>2. wake' + SlackMsecs = ms + mtime + SlackMsecs
      BY <1>1, <2>1
    <3>. QED
      BY <3>1, <3>2
  <2>4. wake' \in Nat
    BY <1>1, <2>1
  <2>. QED
    BY <1>1, <2>1, <2>2, <2>3, <2>4 DEF SleepInv
<1>6. CASE TimedOut \/ Interrupted
  <2>1. sleeping' = "no" /\ ms' = 0 /\ wake' = 0 /\ late' = 0
    BY <1>6 DEF TimedOut, Interrupted
  <2>. QED
    BY <2>1 DEF SleepInv
<1>7. CASE UNCHANGED eventVars
  <2>1. /\ inited' = inited /\ heap' = heap /\ expires' = expires /\ mtime' = mtime
        /\ sleeping' = sleeping /\ ms' = ms /\ wake' = wake /\ late' = late
    BY <1>7 DEF eventVars, loopVars, timerVars, listVars
  <2>2. Armed' = Armed
    BY <2>1 DEF Armed
  <2>. QED
    BY <1>1, <2>1, <2>2 DEF SleepInv
<1>. QED
  BY <1>2, <1>3, <1>4, <1>5, <1>6, <1>7 DEF EventNext

\* The loop never sleeps past the first expiry, for every slack and every
\* delay between reading the clock and the call of select that the slack
\* makes up for.
THEOREM SleepIsShort == EventSpec => []NeverOversleeps
<1>1. EventInit => Init /\ LoopInv /\ SleepInv
  BY DEF EventInit, LoopInv, SleepInv
<1>2. LoopInv /\ [EventNext]_eventVars => LoopInv'
  BY LoopStep
<1>3. TimerInv /\ LoopInv /\ SleepInv /\ [EventNext]_eventVars => SleepInv'
  BY SleepStep
<1>4. TimerInv /\ SleepInv => NeverOversleeps
  <2>. SUFFICES ASSUME TimerInv, SleepInv, sleeping = "yes", late <= SlackMsecs,
                       NEW t \in Armed
                PROVE  ms = 0 \/ wake <= expires[t]
    BY DEF NeverOversleeps
  <2>1. ms = 0 \/ wake + SlackMsecs <= expires[t] + late
    BY DEF SleepInv
  <2>2. /\ wake \in Nat /\ late \in Nat /\ SlackMsecs \in Nat /\ expires[t] \in Nat
    BY PendingIs, EventLoopAssumption DEF SleepInv, TimerInv, ListInv
  <2>. QED
    BY <2>1, <2>2
<1>. QED
  BY <1>1, <1>2, <1>3, <1>4, EventLoopUsesTimers, TimerInvariant, PTL DEF EventSpec
=============================================================================
