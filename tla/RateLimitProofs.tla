-------------------------- MODULE RateLimitProofs --------------------------
(***************************************************************************)
(* Proofs about RateLimit for every set of calls, tools and windows, every *)
(* limit and every period.                                                 *)
(***************************************************************************)
EXTENDS RateLimit, SequenceTheorems, WellFoundedInduction, TLAPS

-----------------------------------------------------------------------------
(* Sequences of ages.                                                      *)

\* A non-empty set of natural numbers has a least element.
LEMMA LeastNat ==
    ASSUME NEW T, T \subseteq Nat, T # {}
    PROVE  \E x \in T : \A y \in T : x <= y
<1>1. \E x \in T : \A y \in T : ~ (<<y, x>> \in OpToRel(<, Nat))
  BY NatLessThanWellFounded, WFMin
<1>2. PICK x \in T : \A y \in T : ~ (<<y, x>> \in OpToRel(<, Nat))
  BY <1>1
<1>3. ASSUME NEW y \in T PROVE x <= y
  <2>1. x \in Nat /\ y \in Nat
    OBVIOUS
  <2>2. ~(y < x)
    BY <1>2, <2>1 DEF OpToRel
  <2> QED BY <2>1, <2>2
<1> QED BY <1>3

\* Growing older keeps a sequence of ages one, of the same length.
LEMMA OlderType ==
    ASSUME NEW p \in Nat, NEW s \in Seq(0 .. p)
    PROVE  /\ Older(s, p) \in Seq(0 .. p)
           /\ Len(Older(s, p)) = Len(s)
           /\ \A i \in 1 .. Len(s) :
                Older(s, p)[i] = IF s[i] < p THEN s[i] + 1 ELSE s[i]
<1>1. DOMAIN s = 1 .. Len(s) /\ Len(s) \in Nat /\ \A i \in 1 .. Len(s) : s[i] \in 0 .. p
  BY LenProperties, ElementOfSeq
<1>2. Older(s, p) = [i \in 1 .. Len(s) |-> IF s[i] < p THEN s[i] + 1 ELSE s[i]]
  BY <1>1 DEF Older
<1>3. \A i \in 1 .. Len(s) : (IF s[i] < p THEN s[i] + 1 ELSE s[i]) \in 0 .. p
  BY <1>1
<1>4. Older(s, p) \in [1 .. Len(s) -> 0 .. p]
  BY <1>2, <1>3
<1>5. Older(s, p) \in Seq(0 .. p)
  BY <1>1, <1>4, IsASeq
<1>6. Len(Older(s, p)) = Len(s)
  BY <1>1, <1>2, <1>5, LenProperties
<1> QED BY <1>2, <1>5, <1>6

\* The pruning loop pops k aged stamps and stops at the first young one.
LEMMA PrunedFacts ==
    ASSUME NEW w \in Windows, NEW p \in Nat, Period[w] = p,
           stamps[w] \in Seq(0 .. p)
    PROVE  /\ Pruned(w) \in Seq(0 .. p)
           /\ \E k \in 0 .. Len(stamps[w]) :
                /\ \A i \in 1 .. k : stamps[w][i] >= p
                /\ k < Len(stamps[w]) => stamps[w][k + 1] < p
                /\ Len(Pruned(w)) = Len(stamps[w]) - k
                /\ \A i \in 1 .. Len(Pruned(w)) : Pruned(w)[i] = stamps[w][k + i]
<1> DEFINE s == stamps[w]
           young == {i \in 1 .. Len(s) : s[i] < p}
<1>1. Len(s) \in Nat /\ \A i \in 1 .. Len(s) : s[i] \in 0 .. p
  BY LenProperties, ElementOfSeq
<1>2. \E k \in 0 .. Len(s) : /\ \A i \in 1 .. k : s[i] >= p
                             /\ k < Len(s) => s[k + 1] < p
  <2>1. CASE young = {}
    <3>1. \A i \in 1 .. Len(s) : s[i] >= p
      BY <1>1, <2>1
    <3> QED BY <1>1, <3>1
  <2>2. CASE young # {}
    <3>1. young \subseteq Nat
      BY <1>1
    <3>2. PICK m \in young : \A y \in young : m <= y
      BY <2>2, <3>1, LeastNat
    <3>3. /\ m - 1 \in 0 .. Len(s) /\ (m - 1) + 1 = m /\ s[m] < p
          /\ \A i \in 1 .. m - 1 : s[i] >= p
      BY <1>1, <3>2
    <3> QED BY <3>3
  <2> QED BY <2>1, <2>2
<1> DEFINE k == Expired(w)
<1>3. /\ k \in 0 .. Len(s) /\ \A i \in 1 .. k : s[i] >= p
      /\ k < Len(s) => s[k + 1] < p
  BY <1>2 DEF Expired
<1>4. Pruned(w) = SubSeq(s, k + 1, Len(s))
  BY DEF Pruned
<1> HIDE DEF s, k
<1>5. /\ SubSeq(s, k + 1, Len(s)) \in Seq(0 .. p)
      /\ Len(SubSeq(s, k + 1, Len(s))) = Len(s) - k
      /\ \A i \in 1 .. Len(s) - k : SubSeq(s, k + 1, Len(s))[i] = s[k + i]
  <2>1. k \in Int /\ k + 1 \in Int /\ Len(s) \in Int /\ k <= Len(s)
    BY <1>1, <1>3
  <2>2. \A i \in k + 1 .. Len(s) : s[i] \in 0 .. p
    BY <1>1, <1>3
  <2>3. /\ SubSeq(s, k + 1, Len(s)) \in Seq(0 .. p)
        /\ Len(SubSeq(s, k + 1, Len(s))) =
              IF k + 1 <= Len(s) THEN Len(s) - (k + 1) + 1 ELSE 0
        /\ \A i \in 1 .. Len(s) - (k + 1) + 1 :
              SubSeq(s, k + 1, Len(s))[i] = s[(k + 1) + i - 1]
    BY <2>1, <2>2, SubSeqProperties
  <2>4. Len(s) - (k + 1) + 1 = Len(s) - k /\ \A i \in Int : (k + 1) + i - 1 = k + i
    BY <2>1
  <2>5. \A i \in 1 .. Len(s) - k : SubSeq(s, k + 1, Len(s))[i] = s[k + i]
    BY <2>1, <2>3, <2>4
  <2>6. Len(SubSeq(s, k + 1, Len(s))) = Len(s) - k
    BY <2>1, <2>3
  <2> QED BY <2>3, <2>5, <2>6
<1>6. /\ Pruned(w) \in Seq(0 .. p)
      /\ Len(Pruned(w)) = Len(s) - k
      /\ \A i \in 1 .. Len(s) - k : Pruned(w)[i] = s[k + i]
  BY <1>4, <1>5
<1> QED BY <1>3, <1>6 DEF s

-----------------------------------------------------------------------------
(* Type correctness.                                                       *)

\* Periods and limits are natural numbers.
LEMMA Periods == \A w \in Windows : Period[w] \in Nat /\ Limit[w] \in Nat
BY WindowAssumption

\* The next place of a call is a place.
LEMMA NextPlace == \A w, t : After(w, t) \in Places /\ First(t) \in Places
BY DEF After, First, Places

\* A new acquisition is the youngest entry of a sequence of ages.
LEMMA AppendAge ==
    ASSUME NEW p \in Nat, NEW s \in Seq(0 .. p)
    PROVE  Append(s, 0) \in Seq(0 .. p)
<1>1. 0 \in 0 .. p
  OBVIOUS
<1> QED BY <1>1, AppendProperties

\* The history is one acquisition longer, or the same with its oldest gone.
LEMMA LoggedFacts ==
    ASSUME NEW w \in Windows, NEW p \in Nat, log[w] \in Seq(0 .. p)
    PROVE  /\ Append(log[w], 0) \in Seq(0 .. p)
           /\ Logged(w) \in Seq(0 .. p)
           /\ \/ Logged(w) = Append(log[w], 0)
              \/ /\ Logged(w) = Tail(Append(log[w], 0))
                 /\ Len(Append(log[w], 0)) > Limit[w] + 1
<1> DEFINE l == Append(log[w], 0)
<1>1. l \in Seq(0 .. p) /\ l # <<>>
  BY AppendAge, AppendProperties, EmptySeq
<1>2. Tail(l) \in Seq(0 .. p)
  BY <1>1, HeadTailProperties
<1> QED BY <1>1, <1>2 DEF Logged

\* Every reachable state has its variables in their sets.
THEOREM TypeCorrect == Spec => []TypeOK
<1>1. Init => TypeOK
  <2> SUFFICES ASSUME Init PROVE TypeOK
    OBVIOUS
  <2>1. \A S : <<>> \in Seq(S)
    BY EmptySeq
  <2> QED BY <2>1, Periods DEF Init, TypeOK, Places
<1>2. TypeOK /\ [Next]_vars => TypeOK'
  <2> SUFFICES ASSUME TypeOK, [Next]_vars PROVE TypeOK'
    OBVIOUS
  <2> USE DEF TypeOK
  <2>0. \A w \in Windows : Pruned(w) \in Seq(0 .. Period[w])
    BY PrunedFacts, Periods
  <2>1. ASSUME NEW c \in Callers, NEW t \in Tools, Arrive(c, t) PROVE TypeOK'
    <3>1. tool' \in [Callers -> Tools \cup {NoTool}] /\ at' \in [Callers -> Places]
      BY <2>1, NextPlace DEF Arrive
    <3> QED BY <2>1, <3>1 DEF Arrive
  <2>2. ASSUME NEW c \in Callers, NEW w \in Windows, Pass(c, w) PROVE TypeOK'
    <3>1. Append(Pruned(w), 0) \in Seq(0 .. Period[w]) /\ Logged(w) \in Seq(0 .. Period[w])
      BY <2>0, AppendAge, LoggedFacts, Periods
    <3>2. \A v \in Windows : stamps'[v] \in Seq(0 .. Period[v]) /\ log'[v] \in Seq(0 .. Period[v])
      BY <2>2, <3>1 DEF Pass
    <3>3. DOMAIN stamps' = Windows /\ DOMAIN log' = Windows
      BY <2>2 DEF Pass
    <3>4. at' \in [Callers -> Places]
      BY <2>2, NextPlace DEF Pass
    <3> QED BY <2>2, <3>2, <3>3, <3>4 DEF Pass
  <2>3. ASSUME NEW c \in Callers, NEW w \in Windows, Sleep(c, w) PROVE TypeOK'
    <3>1. \A v \in Windows : stamps'[v] \in Seq(0 .. Period[v])
      BY <2>0, <2>3 DEF Sleep, SleepFor
    <3>2. Head(Pruned(w)) \in 0 .. Period[w]
      BY <2>0, <2>3, HeadTailProperties DEF Sleep, SleepFor
    <3>3. Period[w] - Head(Pruned(w)) \in Nat
      BY <3>2, Periods
    <3>4. wait' \in [Callers -> Nat]
      BY <2>3, <3>3 DEF Sleep, SleepFor
    <3>5. DOMAIN stamps' = Windows
      BY <2>3 DEF Sleep, SleepFor
    <3> QED BY <2>3, <3>1, <3>4, <3>5 DEF Sleep, SleepFor
  <2>4. ASSUME NEW c \in Callers, NEW w \in Windows, Panic(c, w) PROVE TypeOK'
    <3>1. <<>> \in Seq(0 .. Period[w])
      BY EmptySeq
    <3> QED BY <2>4, <3>1 DEF Panic, Places
  <2>5. ASSUME NEW c \in Callers, Drop(c) PROVE TypeOK'
    BY <2>5 DEF Drop, Places
  <2>6. ASSUME Tick PROVE TypeOK'
    <3>1. \A w \in Windows : /\ stamps'[w] \in Seq(0 .. Period[w])
                             /\ log'[w] \in Seq(0 .. Period[w])
      BY <2>6, OlderType, Periods DEF Tick
    <3>2. wait' \in [Callers -> Nat]
      BY <2>6 DEF Tick
    <3> QED BY <2>6, <3>1, <3>2 DEF Tick
  <2>7. CASE UNCHANGED vars
    BY <2>7 DEF vars
  <2> QED BY <2>1, <2>2, <2>3, <2>4, <2>5, <2>6, <2>7 DEF Next
<1> QED BY <1>1, <1>2, PTL DEF Spec

-----------------------------------------------------------------------------
(* The sliding window.                                                     *)

\* The part of RemembersRecent about one window: stamps s, history l.
Remembers(s, l, lim, p) ==
    /\ Len(s) <= lim
    /\ Len(l) - Len(s) >= 0
    /\ \A i \in 1 .. Len(s) : s[i] = l[Len(l) - Len(s) + i]
    /\ \A i \in 1 .. Len(l) - Len(s) : l[i] >= p
    /\ \A i, j \in 1 .. Len(l) : i <= j => l[i] >= l[j]

\* Pruning forgets only what has aged out.
LEMMA PruneRemembers ==
    ASSUME NEW p \in Nat, NEW lim \in Nat, NEW s \in Seq(0 .. p), NEW l \in Seq(0 .. p),
           NEW q \in Seq(0 .. p), NEW k \in 0 .. Len(s),
           Remembers(s, l, lim, p),
           \A i \in 1 .. k : s[i] >= p,
           Len(q) = Len(s) - k,
           \A i \in 1 .. Len(q) : q[i] = s[k + i]
    PROVE  Remembers(q, l, lim, p)
<1>1. Len(s) \in Nat /\ Len(l) \in Nat /\ Len(q) \in Nat
  BY LenProperties
<1> DEFINE n == Len(l) - Len(s)
           m == Len(l) - Len(q)
<1>2. n \in Nat /\ m = n + k /\ Len(q) <= lim /\ m \in Nat
  BY <1>1 DEF Remembers
<1>3. ASSUME NEW i \in 1 .. Len(q) PROVE q[i] = l[m + i]
  <2>1. k + i \in 1 .. Len(s) /\ n + (k + i) = m + i
    BY <1>1, <1>2
  <2>2. s[k + i] = l[n + (k + i)]
    BY <2>1 DEF Remembers
  <2> QED BY <2>1, <2>2
<1>4. ASSUME NEW i \in 1 .. m PROVE l[i] >= p
  <2>1. CASE i <= n
    BY <1>2, <2>1 DEF Remembers
  <2>2. CASE ~(i <= n)
    <3>1. i - n \in 1 .. k /\ i - n \in 1 .. Len(s) /\ n + (i - n) = i
      BY <1>1, <1>2, <2>2
    <3>2. s[i - n] = l[n + (i - n)]
      BY <3>1 DEF Remembers
    <3> QED BY <3>1, <3>2
  <2> QED BY <2>1, <2>2
<1> QED BY <1>1, <1>2, <1>3, <1>4 DEF Remembers

\* Recording an acquisition in a window with room.
LEMMA AppendRemembers ==
    ASSUME NEW p \in Nat, NEW lim \in Nat, NEW s \in Seq(0 .. p), NEW l \in Seq(0 .. p),
           Remembers(s, l, lim, p), Len(s) < lim
    PROVE  Remembers(Append(s, 0), Append(l, 0), lim, p)
<1> DEFINE t == Append(s, 0)
           m == Append(l, 0)
<1>1. Len(s) \in Nat /\ Len(l) \in Nat /\ \A i \in 1 .. Len(l) : l[i] \in 0 .. p
  BY LenProperties, ElementOfSeq
<1>2. /\ Len(t) = Len(s) + 1 /\ Len(m) = Len(l) + 1
      /\ t[Len(s) + 1] = 0 /\ m[Len(l) + 1] = 0
      /\ \A i \in 1 .. Len(s) : t[i] = s[i]
      /\ \A i \in 1 .. Len(l) : m[i] = l[i]
  <2>1. 0 \in 0 .. p
    OBVIOUS
  <2> QED BY <2>1, AppendProperties
<1> HIDE DEF t, m
<1>3. Len(m) - Len(t) = Len(l) - Len(s) /\ Len(t) <= lim /\ Len(l) - Len(s) \in Nat
  BY <1>1, <1>2 DEF Remembers
<1>4. ASSUME NEW i \in 1 .. Len(t) PROVE t[i] = m[Len(m) - Len(t) + i]
  <2>1. CASE i \in 1 .. Len(s)
    <3>1. Len(l) - Len(s) + i \in 1 .. Len(l)
      BY <1>1, <1>3, <2>1
    <3>2. s[i] = l[Len(l) - Len(s) + i]
      BY <2>1 DEF Remembers
    <3> QED BY <1>2, <1>3, <2>1, <3>1, <3>2
  <2>2. CASE i = Len(s) + 1
    <3>1. Len(m) - Len(t) + i = Len(l) + 1
      BY <1>1, <1>3, <2>2
    <3> QED BY <1>2, <2>2, <3>1
  <2> QED BY <1>1, <1>2, <2>1, <2>2
<1>5. ASSUME NEW i \in 1 .. Len(m) - Len(t) PROVE m[i] >= p
  <2>1. i \in 1 .. Len(l) - Len(s) /\ i \in 1 .. Len(l)
    BY <1>1, <1>3
  <2>2. l[i] >= p
    BY <2>1 DEF Remembers
  <2> QED BY <1>2, <2>1, <2>2
<1>6. ASSUME NEW i \in 1 .. Len(m), NEW j \in 1 .. Len(m), i <= j PROVE m[i] >= m[j]
  <2>1. CASE j \in 1 .. Len(l)
    <3>1. i \in 1 .. Len(l)
      BY <1>1, <1>2, <1>6, <2>1
    <3> QED BY <1>2, <1>6, <2>1, <3>1 DEF Remembers
  <2>2. CASE j = Len(l) + 1
    <3>1. CASE i \in 1 .. Len(l)
      <4>1. m[i] = l[i] /\ l[i] \in 0 .. p
        BY <1>1, <1>2, <3>1
      <4>2. m[j] = 0
        BY <1>2, <2>2
      <4> QED BY <4>1, <4>2
    <3>2. CASE i = Len(l) + 1
      BY <1>2, <2>2, <3>2
    <3>3. i \in 1 .. Len(l) \/ i = Len(l) + 1
      BY <1>1, <1>2
    <3> QED BY <3>1, <3>2, <3>3
  <2>3. j \in 1 .. Len(l) \/ j = Len(l) + 1
    BY <1>1, <1>2
  <2> QED BY <2>1, <2>2, <2>3
<1>7. Len(m) - Len(t) >= 0
  BY <1>3
<1> QED BY <1>3, <1>4, <1>5, <1>6, <1>7 DEF Remembers, t, m

\* Of a history longer than the window remembers, the oldest entry can go.
LEMMA TailRemembers ==
    ASSUME NEW p \in Nat, NEW lim \in Nat, NEW s \in Seq(0 .. p), NEW l \in Seq(0 .. p),
           Remembers(s, l, lim, p), Len(l) > lim
    PROVE  Remembers(s, Tail(l), lim, p)
<1> DEFINE m == Tail(l)
           n == Len(l) - Len(s)
<1>1. Len(s) \in Nat /\ Len(l) \in Nat /\ Len(s) <= lim /\ n \in Nat /\ n >= 1
  BY LenProperties DEF Remembers
<1>2. Len(m) = Len(l) - 1 /\ \A i \in 1 .. Len(l) - 1 : m[i] = l[i + 1]
  <2>1. l # <<>>
    BY <1>1, EmptySeq
  <2> QED BY <2>1, HeadTailProperties
<1> HIDE DEF m
<1>3. Len(m) - Len(s) = n - 1
  BY <1>1, <1>2
<1>4. ASSUME NEW i \in 1 .. Len(s) PROVE s[i] = m[n - 1 + i]
  <2>1. n - 1 + i \in 1 .. Len(l) - 1 /\ (n - 1 + i) + 1 = n + i
    BY <1>1
  <2>2. s[i] = l[n + i]
    BY DEF Remembers
  <2> QED BY <1>2, <2>1, <2>2
<1>5. ASSUME NEW i \in 1 .. n - 1 PROVE m[i] >= p
  <2>1. i + 1 \in 1 .. n /\ i \in 1 .. Len(l) - 1
    BY <1>1
  <2>2. l[i + 1] >= p
    BY <2>1 DEF Remembers
  <2> QED BY <1>2, <2>1, <2>2
<1>6. ASSUME NEW i \in 1 .. Len(l) - 1, NEW j \in 1 .. Len(l) - 1, i <= j PROVE m[i] >= m[j]
  <2>1. i + 1 \in 1 .. Len(l) /\ j + 1 \in 1 .. Len(l) /\ i + 1 <= j + 1
    BY <1>1, <1>6
  <2>2. l[i + 1] >= l[j + 1]
    BY <2>1 DEF Remembers
  <2> QED BY <1>2, <2>2
<1>7. Len(m) - Len(s) >= 0
  BY <1>1, <1>3
<1> QED BY <1>1, <1>2, <1>3, <1>4, <1>5, <1>6, <1>7 DEF Remembers, m

\* The passing of time.
LEMMA OlderRemembers ==
    ASSUME NEW p \in Nat, NEW lim \in Nat, NEW s \in Seq(0 .. p), NEW l \in Seq(0 .. p),
           Remembers(s, l, lim, p)
    PROVE  Remembers(Older(s, p), Older(l, p), lim, p)
<1> DEFINE t == Older(s, p)
           m == Older(l, p)
           n == Len(l) - Len(s)
           up(x) == IF x < p THEN x + 1 ELSE x
<1>1. /\ Len(s) \in Nat /\ Len(l) \in Nat
      /\ \A i \in 1 .. Len(l) : l[i] \in 0 .. p
  BY LenProperties, ElementOfSeq
<1>2. /\ Len(t) = Len(s) /\ Len(m) = Len(l)
      /\ \A i \in 1 .. Len(s) : t[i] = up(s[i])
      /\ \A i \in 1 .. Len(l) : m[i] = up(l[i])
  BY OlderType
<1> HIDE DEF t, m
<1>3. n \in Nat /\ Len(s) <= lim
  BY <1>1 DEF Remembers
<1>4. ASSUME NEW i \in 1 .. Len(s) PROVE t[i] = m[n + i]
  <2>1. n + i \in 1 .. Len(l)
    BY <1>1, <1>3
  <2>2. s[i] = l[n + i]
    BY DEF Remembers
  <2> QED BY <1>2, <2>1, <2>2
<1>5. ASSUME NEW i \in 1 .. n PROVE m[i] >= p
  <2>1. i \in 1 .. Len(l) /\ l[i] >= p /\ l[i] \in 0 .. p
    BY <1>1, <1>3 DEF Remembers
  <2> QED BY <1>2, <2>1
<1>6. ASSUME NEW i \in 1 .. Len(l), NEW j \in 1 .. Len(l), i <= j PROVE m[i] >= m[j]
  <2>1. l[i] >= l[j] /\ l[i] \in 0 .. p /\ l[j] \in 0 .. p
    BY <1>1, <1>6 DEF Remembers
  <2> QED BY <1>2, <2>1
<1>7. /\ Len(t) <= lim /\ Len(m) - Len(t) >= 0 /\ Len(m) - Len(t) = n
  BY <1>1, <1>2, <1>3
<1> QED BY <1>2, <1>4, <1>5, <1>6, <1>7 DEF Remembers, t, m

\* Every window remembers what it must, whatever its calls do: the inductive
\* invariant behind the sliding window.
THEOREM RemembersRecentHolds == Spec => []RemembersRecent
<1>1. Init => RemembersRecent
  BY WindowAssumption DEF Init, RemembersRecent
<1>2. TypeOK /\ RemembersRecent /\ [Next]_vars => RemembersRecent'
  <2> SUFFICES ASSUME TypeOK, RemembersRecent, [Next]_vars, NEW v \in Windows
               PROVE  Remembers(stamps[v], log[v], Limit[v], Period[v])'
    BY DEF RemembersRecent, Remembers
  <2> DEFINE s == stamps[v]
             l == log[v]
             p == Period[v]
             lim == Limit[v]
  <2>0. /\ p \in Nat /\ lim \in Nat /\ s \in Seq(0 .. p) /\ l \in Seq(0 .. p)
        /\ Pruned(v) \in Seq(0 .. p)
        /\ Remembers(s, l, lim, p)
    BY Periods, PrunedFacts DEF TypeOK, RemembersRecent, Remembers
  <2>1. Remembers(Pruned(v), l, lim, p)
    <3>1. PICK k \in 0 .. Len(s) :
                /\ \A i \in 1 .. k : s[i] >= p
                /\ Len(Pruned(v)) = Len(s) - k
                /\ \A i \in 1 .. Len(Pruned(v)) : Pruned(v)[i] = s[k + i]
      BY <2>0, PrunedFacts
    <3> HIDE DEF s, l, p, lim
    <3> QED BY <2>0, <3>1, PruneRemembers
  <2>2. ASSUME NEW c \in Callers, NEW t \in Tools, Arrive(c, t)
        PROVE  Remembers(s, l, lim, p)'
    BY <2>0, <2>2 DEF Arrive
  <2>3. ASSUME NEW c \in Callers, NEW w \in Windows, Pass(c, w)
        PROVE  Remembers(s, l, lim, p)'
    <3>1. CASE w # v
      BY <2>0, <2>3, <3>1 DEF Pass, TypeOK
    <3>2. CASE w = v
      <4>1. s' = Append(Pruned(v), 0) /\ l' = Logged(v) /\ Len(Pruned(v)) < lim
        BY <2>3, <3>2 DEF Pass, TypeOK
      <4>2. Remembers(Append(Pruned(v), 0), Append(l, 0), lim, p)
        BY <2>0, <2>1, <4>1, AppendRemembers
      <4>3. Remembers(Append(Pruned(v), 0), Logged(v), lim, p)
        <5>1. CASE Logged(v) = Append(l, 0)
          BY <4>2, <5>1
        <5>2. CASE Logged(v) = Tail(Append(l, 0)) /\ Len(Append(l, 0)) > lim + 1
          <6>1. /\ Append(l, 0) \in Seq(0 .. p) /\ Append(Pruned(v), 0) \in Seq(0 .. p)
                /\ Len(Append(l, 0)) > lim
            BY <2>0, <5>2, AppendAge, LenProperties
          <6> HIDE DEF s, l, p, lim
          <6> QED BY <2>0, <4>2, <5>2, <6>1, TailRemembers
        <5> QED BY <2>0, <5>1, <5>2, LoggedFacts
      <4> QED BY <4>1, <4>3
    <3> QED BY <3>1, <3>2
  <2>4. ASSUME NEW c \in Callers, NEW w \in Windows, Sleep(c, w)
        PROVE  Remembers(s, l, lim, p)'
    BY <2>0, <2>1, <2>4 DEF Sleep, SleepFor, TypeOK
  <2>5. ASSUME NEW c \in Callers, NEW w \in Windows, Panic(c, w)
        PROVE  Remembers(s, l, lim, p)'
    BY <2>0, <2>1, <2>5 DEF Panic, TypeOK
  <2>6. ASSUME NEW c \in Callers, Drop(c) PROVE Remembers(s, l, lim, p)'
    BY <2>0, <2>6 DEF Drop
  <2>7. ASSUME Tick PROVE Remembers(s, l, lim, p)'
    <3>1. s' = Older(s, p) /\ l' = Older(l, p)
      BY <2>7 DEF Tick
    <3>2. Remembers(Older(s, p), Older(l, p), lim, p)
      BY <2>0, OlderRemembers
    <3> QED BY <3>1, <3>2
  <2>8. CASE UNCHANGED vars
    BY <2>0, <2>8 DEF vars
  <2> QED BY <2>2, <2>3, <2>4, <2>5, <2>6, <2>7, <2>8 DEF Next
<1> QED BY <1>1, <1>2, TypeCorrect, PTL DEF Spec

\* In any stretch of one period a window grants at most `limit` slots.
THEOREM SlidingWindowHolds == Spec => []SlidingWindow
<1>1. TypeOK /\ RemembersRecent => SlidingWindow
  <2> SUFFICES ASSUME TypeOK, RemembersRecent, NEW w \in Windows,
                      NEW i \in 1 .. Len(log[w]) - Limit[w]
               PROVE  log[w][i] >= Period[w]
    BY DEF SlidingWindow
  <2>1. Len(log[w]) \in Nat /\ Len(stamps[w]) \in Nat /\ Limit[w] \in Nat
    BY Periods, LenProperties DEF TypeOK
  <2>2. Len(stamps[w]) <= Limit[w]
    BY DEF RemembersRecent
  <2>3. i \in 1 .. Len(log[w]) - Len(stamps[w])
    BY <2>1, <2>2
  <2> QED BY <2>3 DEF RemembersRecent
<1> QED BY <1>1, TypeCorrect, RemembersRecentHolds, PTL

\* A call sleeps only when its window granted `limit` slots within the last
\* period, and exactly until the oldest of them is a period old.
THEOREM SleepsOnlyWhenFullHolds == Spec => SleepsOnlyWhenFull
<1> DEFINE Full(c) ==
      wait[c] = 0 /\ wait'[c] > 0 =>
          LET l     == log[at[c]]
              young == {i \in 1 .. Len(l) : l[i] < Period[at[c]]}
              first == Len(l) - Limit[at[c]] + 1
          IN  young = first .. Len(l)
              /\ wait'[c] = Period[at[c]] - l[first]
<1>1. ASSUME TypeOK, RemembersRecent, [Next]_vars, NEW c \in Callers PROVE Full(c)
  <2> SUFFICES ASSUME wait[c] = 0, wait'[c] > 0 PROVE Full(c)
    OBVIOUS
  <2>1. Sleep(c, at[c]) /\ at[c] \in Windows
    <3>1. ASSUME NEW d \in Callers, NEW w \in Windows, Sleep(d, w)
          PROVE  Sleep(c, at[c]) /\ at[c] \in Windows
      <4>1. d = c
        BY <1>1, <3>1 DEF Sleep, SleepFor, TypeOK
      <4>2. at[c] = w
        BY <3>1, <4>1 DEF Sleep, SleepFor, Ready
      <4> QED BY <3>1, <4>1, <4>2
    <3>2. ASSUME wait' = wait PROVE FALSE
      BY <3>2
    <3>3. ASSUME NEW d \in Callers, Drop(d) PROVE FALSE
      BY <1>1, <3>3 DEF Drop, TypeOK
    <3>4. ASSUME Tick PROVE FALSE
      BY <3>4 DEF Tick
    <3> QED BY <1>1, <3>1, <3>2, <3>3, <3>4 DEF Next, Arrive, Pass, Panic, vars
  <2> DEFINE w == at[c]
             s == stamps[w]
             q == Pruned(w)
             l == log[w]
             p == Period[w]
             lim == Limit[w]
             n == Len(l) - lim
  <2>2. /\ p \in Nat /\ lim \in Nat /\ s \in Seq(0 .. p) /\ l \in Seq(0 .. p)
        /\ q \in Seq(0 .. p) /\ Remembers(s, l, lim, p)
    BY <1>1, <2>1, Periods, PrunedFacts DEF TypeOK, RemembersRecent, Remembers
  <2>3. PICK k \in 0 .. Len(s) :
                /\ \A i \in 1 .. k : s[i] >= p
                /\ k < Len(s) => s[k + 1] < p
                /\ Len(q) = Len(s) - k
                /\ \A i \in 1 .. Len(q) : q[i] = s[k + i]
    BY <2>1, <2>2, PrunedFacts
  <2>4. Len(q) >= lim /\ q # <<>> /\ wait'[c] = p - Head(q)
    BY <1>1, <2>1 DEF Sleep, SleepFor, TypeOK
  <2> HIDE DEF w, s, q, l, p, lim
  <2>5. Remembers(q, l, lim, p)
    BY <2>2, <2>3, PruneRemembers
  <2>6. /\ Len(q) \in Nat /\ Len(l) \in Nat /\ Len(s) \in Nat
        /\ \A i \in 1 .. Len(l) : l[i] \in 0 .. p
        /\ Len(q) > 0 /\ Head(q) = q[1]
    BY <2>2, <2>4, LenProperties, ElementOfSeq, HeadTailProperties, EmptySeq
  <2>7. Len(q) = lim /\ n \in Nat /\ n + 1 \in 1 .. Len(l)
    BY <2>2, <2>4, <2>5, <2>6 DEF Remembers
  <2>8. q[1] = l[n + 1] /\ q[1] < p
    <3>1. 1 \in 1 .. Len(q) /\ k < Len(s)
      BY <2>3, <2>6
    <3>2. q[1] = s[k + 1]
      BY <2>3, <3>1
    <3>3. q[1] = l[Len(l) - Len(q) + 1]
      BY <2>5, <3>1 DEF Remembers
    <3> QED BY <2>3, <2>7, <3>1, <3>2, <3>3
  <2>9. ASSUME NEW i \in 1 .. Len(l) PROVE l[i] < p <=> i \in n + 1 .. Len(l)
    <3>0. i \in Int /\ l[i] \in Int /\ l[n + 1] \in Int /\ p \in Int
      BY <2>2, <2>6, <2>7
    <3>1. CASE i \in 1 .. n
      <4>1. l[i] >= p
        BY <2>5, <2>7, <3>1 DEF Remembers
      <4>2. ~(l[i] < p)
        BY <3>0, <4>1
      <4>3. i \notin n + 1 .. Len(l)
        BY <2>6, <2>7, <3>1
      <4> QED BY <4>2, <4>3
    <3>2. CASE i \in n + 1 .. Len(l)
      <4>1. l[n + 1] >= l[i]
        BY <2>5, <2>7, <3>2 DEF Remembers
      <4>2. l[n + 1] < p
        BY <2>8
      <4>3. l[i] < p
        BY <3>0, <4>1, <4>2
      <4> QED BY <3>2, <4>3
    <3>3. i \in 1 .. n \/ i \in n + 1 .. Len(l)
      BY <2>6, <2>7
    <3> QED BY <3>1, <3>2, <3>3
  <2>10. {i \in 1 .. Len(l) : l[i] < p} = n + 1 .. Len(l)
    BY <2>6, <2>7, <2>9
  <2> QED BY <2>4, <2>6, <2>8, <2>10 DEF w, l, p, lim
<1>2. TypeOK /\ RemembersRecent /\ [Next]_vars => [\A c \in Callers : Full(c)]_vars
  BY <1>1
<1> QED BY <1>2, TypeCorrect, RemembersRecentHolds, PTL DEF Spec, SleepsOnlyWhenFull

=============================================================================
