---------------------------- MODULE RuntimeProofs ----------------------------
(***************************************************************************)
(* Proofs about Runtime: for every stack a builder can make, and any       *)
(* number of calls, tools and servers' answers, of retries and limits.     *)
(***************************************************************************)
EXTENDS Runtime, SequenceTheorems, WellFoundedInduction, TLAPS

-----------------------------------------------------------------------------
(* The inductive invariant.                                                *)

Active == {"down", "running", "up", "sleep"}
Count == [slots : Nat, admits : Nat, records : Nat, tries : Nat]
Nothing == [slots |-> 0, admits |-> 0, records |-> 0, tries |-> 0]
Stacks == Seq(Layers \cup {"server"})
CallRecord(s) ==
    [phase : {"new", "down", "running", "up", "sleep", "done", "dropped"},
     tool : Tools \cup {NoTool}, timeout : Nat \cup {NoTimeout},
     found : BOOLEAN, home : 0 .. Len(s), pos : 0 .. Len(s), out : Outcome,
     attempt : 0 .. MaxRetries, budget : Nat, left : 0 .. MaxDelay, spent : Nat, waited : Nat]

\* A stack that is built ends in the server; a cache is above everything, a
\* retry layer just above the server, and no layer is there twice.
Stacked(s) ==
    s # <<>> =>
        /\ s[Len(s)] = "server"
        /\ \A i \in 1 .. Len(s) : /\ s[i] = "server" => i = Len(s)
                                  /\ s[i] = "cache" => i = 1
                                  /\ s[i] = "retry" => i = Len(s) - 1
        /\ \A i, j \in 1 .. Len(s) : s[i] = s[j] => i = j

\* Where a call on its way can be: one that goes up, or sleeps, came through
\* the whole stack.
Placed(k, s) ==
    /\ s # <<>> /\ k.tool \in Tools
    /\ k.home \in {1, Len(s)} /\ k.pos \in k.home .. Len(s)
    /\ k.phase = "running" => k.pos = Len(s)
    /\ k.phase = "up" => k.pos < Len(s)
    /\ k.phase = "sleep" => s[k.pos] = "retry"

\* There is a breaker among the first p layers of stack s.
Guarded(p, s) == \E b \in 1 .. Len(s) : s[b] = "breaker" /\ b <= p

\* Call k has been let in by a breaker and has not left it.
Within(k, s) ==
    k.home = 1 /\ Guarded(IF k.phase = "up" THEN k.pos ELSE k.pos - 1, s)

\* A breaker has let a call in and not heard of it yet as long as it is within,
\* and only a call that goes up has been there before.
Gated(k, u, s) ==
    /\ u.admits = u.records + (IF Within(k, s) THEN 1 ELSE 0) /\ u.admits <= 1
    /\ k.phase # "up" /\ ~Within(k, s) => u.admits = 0
    /\ u.admits = 1 => Guarded(Len(s), s)

\* What an outcome says of the attempts made.
Ran(u) == IF u.tries = 0 THEN 1 ELSE u.tries

\* The retry layer counts the attempts that were made.
AtRetry(k, s) == k.phase = "up" /\ s[k.pos] = "retry"
Retried(k, s) == k.attempt > 0 => k.home = 1 /\ Len(s) > 1 /\ s[Len(s) - 1] = "retry"
Tried(k, u, s) ==
    /\ k.phase = "down" => u.tries = k.attempt
    /\ k.phase = "down" /\ s[k.pos] # "server" => u.tries = 0
    /\ k.phase \in {"running", "sleep"} \/ AtRetry(k, s) => u.tries = k.attempt + 1
    /\ k.phase = "up" /\ ~AtRetry(k, s) => k.out.attempts = Ran(u)
    /\ Retried(k, s)
    /\ k.phase = "sleep" => k.attempt < MaxRetries

\* An attempt never has more time than the deadline leaves, so the deadline has
\* passed when one times out.
Timed(k, s) ==
    /\ k.timeout # NoTimeout => k.budget <= k.timeout
    /\ k.phase = "running" /\ k.timeout # NoTimeout => k.budget + k.spent <= k.timeout
    /\ AtRetry(k, s) /\ k.out.error = TimedOut => k.timeout # NoTimeout /\ k.budget = 0
    /\ k.phase = "sleep" => k.out.error # TimedOut

\* What a call has used before it reaches a layer, and when it skips them.
Skips(k, u, s) ==
    k.home = Len(s) /\ Len(s) > 1 => u.slots + u.admits = 0 /\ u.tries <= 1
Charged(k, u, s) ==
    /\ k.phase = "down" /\ k.pos = k.home => u = Nothing
    /\ ~k.out.from_cache
    /\ k.phase = "up" /\ k.out.error = CircuitOpen => u.admits + u.tries = 0
    /\ Skips(k, u, s)

\* What is true of a call that is answered, e being the tools that have
\* succeeded under the cache.
Settled(k, u, s, e) ==
    /\ u.records = u.admits /\ u.admits <= 1
    /\ k.out.attempts = Ran(u)
    /\ k.out.from_cache => u.slots + u.admits + u.tries = 0 /\ k.tool \in e
    /\ k.out.error = CircuitOpen => u.admits + u.tries = 0
    /\ Skips(k, u, s)
    /\ k.home = Len(s) /\ Len(s) > 1 => ~k.out.from_cache

Sound(k, u, s, e) ==
    /\ k.phase \in Active =>
          /\ Placed(k, s) /\ Gated(k, u, s) /\ Tried(k, u, s)
          /\ Timed(k, s) /\ Charged(k, u, s)
    /\ k.phase = "done" => Settled(k, u, s, e)
    /\ k.phase = "dropped" => u.records <= u.admits /\ u.admits <= 1
    /\ k.phase = "new" => k = NoCall /\ u = Nothing

\* The state the layers share: what the cache holds has been earned.
Shares ==
    /\ breakers \in [Tools -> Breaker]
    /\ stamps \in Seq(0 .. Period) /\ Len(stamps) <= Limit
    /\ store \in [Tools -> NotCached .. Ttl] /\ earned \subseteq Tools
    /\ \A t \in Tools : store[t] # NotCached => t \in earned

RuntimeInv ==
    /\ layers \subseteq Layers /\ stack \in Stacks /\ Stacked(stack)
    /\ stack = <<>> => \A c \in Calls : call[c].phase = "new"
    /\ call \in [Calls -> CallRecord(stack)] /\ used \in [Calls -> Count]
    /\ Shares
    /\ \A c \in Calls : Sound(call[c], used[c], stack, earned)

-----------------------------------------------------------------------------
(* The stack.                                                              *)

\* One layer above another, each there or not.
LEMMA TwoLayers ==
    ASSUME NEW x \in Layers, NEW y \in Layers, x # y, NEW given
    PROVE  LET a == Given(x, given) \o Given(y, given)
           IN  /\ a \in Seq(Layers) /\ \A i \in 1 .. Len(a) : a[i] \in {x, y}
               /\ \A i \in 1 .. Len(a) : (a[i] = x => i = 1) /\ (a[i] = y => i = Len(a))
               /\ \A i, j \in 1 .. Len(a) : a[i] = a[j] => i = j
<1> DEFINE f == Given(x, given)
           g == Given(y, given)
           a == f \o g
<1>1. /\ f \in Seq(Layers) /\ Len(f) \in {0, 1} /\ (Len(f) = 1 => f[1] = x)
      /\ g \in Seq(Layers) /\ Len(g) \in {0, 1} /\ (Len(g) = 1 => g[1] = y)
  BY DEF Given
<1> HIDE DEF f, g
<1>2. /\ a \in Seq(Layers) /\ Len(a) = Len(f) + Len(g)
      /\ \A i \in 1 .. Len(f) + Len(g) : a[i] = IF i <= Len(f) THEN f[i] ELSE g[i - Len(f)]
  BY <1>1, ConcatProperties
<1> HIDE DEF a
<1>3. /\ \A i \in 1 .. Len(a) : a[i] \in {x, y}
      /\ \A i \in 1 .. Len(a) : (a[i] = x => i = 1) /\ (a[i] = y => i = Len(a))
      /\ \A i, j \in 1 .. Len(a) : a[i] = a[j] => i = j
  <2>1. CASE Len(f) = 0
    BY <1>1, <1>2, <2>1
  <2>2. CASE Len(f) = 1
    BY <1>1, <1>2, <2>2
  <2> QED
    BY <1>1, <2>1, <2>2
<1> QED
  BY <1>2, <1>3 DEF a, f, g

\* Whatever configs a builder is given, the layers come in the one order that
\* Stacked tells.
LEMMA WrapStacks ==
    ASSUME NEW given \in SUBSET Layers
    PROVE  LET s == Append(Wrap(given), "server")
           IN  s \in Stacks /\ s # <<>> /\ Stacked(s)
<1> DEFINE a == Given("cache", given) \o Given("limit", given)
           b == Given("breaker", given) \o Given("retry", given)
           w == a \o b
           s == Append(w, "server")
<1>1. /\ a \in Seq(Layers) /\ \A i \in 1 .. Len(a) : a[i] \in {"cache", "limit"}
      /\ \A i \in 1 .. Len(a) : a[i] = "cache" => i = 1
      /\ \A i, j \in 1 .. Len(a) : a[i] = a[j] => i = j
  BY TwoLayers DEF Layers
<1>2. /\ b \in Seq(Layers) /\ \A i \in 1 .. Len(b) : b[i] \in {"breaker", "retry"}
      /\ \A i \in 1 .. Len(b) : b[i] = "retry" => i = Len(b)
      /\ \A i, j \in 1 .. Len(b) : b[i] = b[j] => i = j
  BY TwoLayers DEF Layers
<1>3. Wrap(given) = w
  BY DEF Wrap
<1> HIDE DEF a, b
<1>4. /\ w \in Seq(Layers) /\ Len(w) = Len(a) + Len(b) /\ Len(a) \in Nat /\ Len(b) \in Nat
      /\ \A i \in 1 .. Len(a) + Len(b) : w[i] = IF i <= Len(a) THEN a[i] ELSE b[i - Len(a)]
  BY <1>1, <1>2, ConcatProperties, LenProperties
<1> HIDE DEF w
<1>5. /\ \A i \in 1 .. Len(w) : /\ w[i] \in Layers
                                /\ w[i] = "cache" => i = 1
                                /\ w[i] = "retry" => i = Len(w)
      /\ \A i, j \in 1 .. Len(w) : w[i] = w[j] => i = j
  <2>1. ASSUME NEW i \in 1 .. Len(w)
        PROVE  w[i] \in Layers /\ (w[i] = "cache" => i = 1) /\ (w[i] = "retry" => i = Len(w))
    <3>1. CASE i <= Len(a)
      <4>1. i \in 1 .. Len(a) /\ w[i] = a[i]
        BY <1>4, <2>1, <3>1
      <4> QED
        BY <1>1, <4>1 DEF Layers
    <3>2. CASE ~(i <= Len(a))
      <4>1. i - Len(a) \in 1 .. Len(b) /\ w[i] = b[i - Len(a)]
        BY <1>4, <2>1, <3>2
      <4>2. w[i] = "retry" => i - Len(a) = Len(b)
        BY <1>2, <4>1
      <4> QED
        BY <1>2, <1>4, <4>1, <4>2 DEF Layers
    <3> QED
      BY <3>1, <3>2
  <2>2. ASSUME NEW i \in 1 .. Len(w), NEW j \in 1 .. Len(w), w[i] = w[j]
        PROVE  i = j
    <3>1. \A m \in 1 .. Len(w) : \/ m \in 1 .. Len(a) /\ w[m] = a[m]
                                 \/ m - Len(a) \in 1 .. Len(b) /\ w[m] = b[m - Len(a)]
      BY <1>4
    <3>2. CASE i \in 1 .. Len(a) /\ j \in 1 .. Len(a) /\ w[i] = a[i] /\ w[j] = a[j]
      BY <1>1, <2>2, <3>2
    <3>3. CASE /\ i - Len(a) \in 1 .. Len(b) /\ w[i] = b[i - Len(a)]
               /\ j - Len(a) \in 1 .. Len(b) /\ w[j] = b[j - Len(a)]
      <4>1. i - Len(a) = j - Len(a)
        BY <1>2, <2>2, <3>3
      <4> QED
        BY <1>4, <2>2, <4>1
    <3>4. ASSUME NEW m \in 1 .. Len(w), NEW n \in 1 .. Len(w), m \in 1 .. Len(a), w[m] = a[m],
                 n - Len(a) \in 1 .. Len(b), w[n] = b[n - Len(a)]
          PROVE  w[m] # w[n]
      BY <1>1, <1>2, <3>4
    <3> QED
      BY <2>2, <3>1, <3>2, <3>3, <3>4
  <2> QED
    BY <2>1, <2>2
<1>6. /\ s \in Stacks /\ s # <<>> /\ Len(s) = Len(w) + 1 /\ Len(w) \in Nat
      /\ s[Len(w) + 1] = "server" /\ \A i \in 1 .. Len(w) : s[i] = w[i]
  <2>1. w \in Stacks /\ "server" \in Layers \cup {"server"}
    BY <1>4 DEF Stacks
  <2> QED
    BY <2>1, AppendProperties, LenProperties DEF Stacks
<1> HIDE DEF s
<1>7. "server" \notin Layers
  BY DEF Layers
<1>8. Stacked(s)
  <2>1. \A i \in 1 .. Len(s) : i = Len(w) + 1 \/ i \in 1 .. Len(w)
    BY <1>6
  <2>2. \A i \in 1 .. Len(w) : s[i] \in Layers /\ s[i] # "server" /\ s[i] = w[i]
    BY <1>5, <1>6, <1>7
  <2> QED
    BY <1>5, <1>6, <2>1, <2>2 DEF Stacked
<1> QED
  BY <1>3, <1>6, <1>8 DEF s

\* Where the breaker is, seen from a layer above or below it.
LEMMA GuardedAt ==
    ASSUME NEW s \in Stacks, s # <<>>, Stacked(s), NEW p \in 1 .. Len(s)
    PROVE  /\ Len(s) \in Nat \ {0} /\ ~Guarded(0, s)
           /\ s[p] # "breaker" => (Guarded(p, s) <=> Guarded(p - 1, s))
           /\ s[p] = "breaker" => Guarded(p, s) /\ ~Guarded(p - 1, s)
           /\ s[p] = "retry" /\ Guarded(Len(s), s) => Guarded(p - 1, s)
           /\ Guarded(p, s) => Guarded(Len(s), s)
           /\ Guarded(Len(s), s) <=> Guarded(Len(s) - 1, s)
<1>1. Len(s) \in Nat \ {0} /\ s[Len(s)] = "server"
  BY EmptySeq, LenProperties DEF Stacks, Stacked
<1>2. /\ \A i \in 1 .. Len(s) : s[i] = "retry" => i = Len(s) - 1
      /\ \A i, j \in 1 .. Len(s) : s[i] = s[j] => i = j
  BY DEF Stacked
<1>3. ~Guarded(0, s)
  BY <1>1 DEF Guarded
<1>4. s[p] # "breaker" => (Guarded(p, s) <=> Guarded(p - 1, s))
  BY <1>1 DEF Guarded
<1>5. s[p] = "breaker" => Guarded(p, s) /\ ~Guarded(p - 1, s)
  BY <1>1, <1>2 DEF Guarded
<1>6. ASSUME s[p] = "retry", Guarded(Len(s), s) PROVE Guarded(p - 1, s)
  <2>1. PICK b \in 1 .. Len(s) : s[b] = "breaker"
    BY <1>6 DEF Guarded
  <2>2. b # p /\ b # Len(s) /\ p = Len(s) - 1
    BY <1>1, <1>2, <1>6, <2>1
  <2> QED
    BY <1>1, <2>1, <2>2 DEF Guarded
<1>7. Guarded(p, s) => Guarded(Len(s), s)
  BY <1>1 DEF Guarded
<1>8. Guarded(Len(s), s) <=> Guarded(Len(s) - 1, s)
  BY <1>1 DEF Guarded
<1> QED
  BY <1>1, <1>3, <1>4, <1>5, <1>6, <1>7, <1>8

-----------------------------------------------------------------------------
(* One call, on its way down and back up.                                  *)

\* The parameters of the layers.
LEMMA Parameters ==
    /\ MaxRetries \in Nat /\ MaxDelay \in Nat /\ Ttl \in Nat /\ Period \in Nat /\ Limit \in Nat \ {0}
    /\ NoTool \notin Tools /\ Requests \subseteq [tool : Tools, timeout : Nat \cup {NoTimeout},
                                                  pinned : BOOLEAN, found : BOOLEAN]
  BY RuntimeAssumption

\* The outcomes there are.
LEMMA Outcomes ==
    /\ Ok \in Outcome /\ \A m \in Messages : Err(m) \in Outcome
    /\ \A m \in Messages : Err(m).attempts = 1 /\ ~Err(m).from_cache /\ Err(m).error = m
    /\ \A m \in Messages : ~Err(m).success
    /\ Ok.attempts = 1 /\ ~Ok.from_cache /\ Ok.error = NoError
    /\ ToolErrors \subseteq Messages /\ {TimedOut, NoServer, CircuitOpen, NoRouter} \subseteq Messages
    /\ NoError \notin Messages /\ {TimedOut, CircuitOpen} \cap ToolErrors = {}
    /\ NoServer \notin {TimedOut, CircuitOpen} /\ TimedOut # CircuitOpen
    /\ NoRouter \notin {TimedOut, CircuitOpen}
  BY DEF Ok, Err, Outcome, Messages, ToolErrors, NoError, Refused, BadArguments,
         TimedOut, NoServer, CircuitOpen, NoRouter

\* What a call that was not made yet, or is no longer known of, is.
LEMMA NoCallType ==
    ASSUME NEW s \in Stacks
    PROVE  /\ NoCall \in CallRecord(s) /\ [NoCall EXCEPT !.phase = "dropped"] \in CallRecord(s)
           /\ Nothing \in Count
<1>1. 0 \in 0 .. Len(s) /\ 0 \in 0 .. MaxRetries /\ 0 \in 0 .. MaxDelay /\ 0 \in Nat
  BY LenProperties, Parameters DEF Stacks
<1>2. NoCall \in CallRecord(s)
  BY <1>1, Outcomes DEF NoCall, CallRecord
<1>3. [NoCall EXCEPT !.phase = "dropped"] \in CallRecord(s)
  BY <1>2 DEF CallRecord
<1> QED
  BY <1>1, <1>2, <1>3 DEF Nothing, Count

\* Outcome o, that the layer of call k hands up, is what the layer above, or
\* the caller, can expect.
Expected(k, u, o, s, e) ==
    /\ u.admits = u.records + (IF k.home = 1 /\ Guarded(k.pos - 1, s) THEN 1 ELSE 0)
    /\ u.admits <= 1 /\ (u.admits = 1 => Guarded(Len(s), s))
    /\ IF k.pos > k.home /\ s[k.pos - 1] = "retry"
       THEN /\ u.tries = k.attempt + 1
            /\ o.error = TimedOut => k.timeout # NoTimeout /\ k.budget = 0
       ELSE o.attempts = Ran(u)
    /\ o.from_cache =>
          /\ k.pos = k.home /\ ~(k.home = Len(s) /\ Len(s) > 1)
          /\ u.slots + u.admits + u.tries = 0 /\ k.tool \in e
    /\ o.error = CircuitOpen => u.admits + u.tries = 0
    /\ k.timeout # NoTimeout => k.budget <= k.timeout
    /\ Skips(k, u, s) /\ Retried(k, s)

\* Such an outcome goes up one layer, or answers the call.
LEMMA UpSound ==
    ASSUME NEW s \in Stacks, Stacked(s), NEW e, NEW k \in CallRecord(s), NEW u \in Count,
           NEW o \in Outcome, Placed(k, s), Expected(k, u, o, s, e)
    PROVE  Up(k, o) \in CallRecord(s) /\ Sound(Up(k, o), u, s, e)
<1>1. /\ s # <<>> /\ Len(s) \in Nat \ {0} /\ k.pos \in 1 .. Len(s) /\ k.tool \in Tools
      /\ k.home \in {1, Len(s)} /\ k.home <= k.pos
  BY EmptySeq, LenProperties DEF Placed, Stacks
<1>2. CASE k.pos = k.home
  <2> DEFINE d == [NoCall EXCEPT !.phase = "done", !.tool = k.tool, !.home = k.home, !.out = o]
  <2>1. Up(k, o) = d
    BY <1>2 DEF Up
  <2>2. d \in CallRecord(s)
    BY NoCallType, <1>1 DEF CallRecord
  <2>3. d.phase = "done" /\ d.tool = k.tool /\ d.home = k.home /\ d.out = o
    BY DEF NoCall
  <2>4. ~(k.home = 1 /\ Guarded(k.pos - 1, s))
    BY <1>1, <1>2 DEF Guarded
  <2> HIDE DEF d
  <2>5. Settled(d, u, s, e)
    <3>1. u.admits \in Nat /\ u.records \in Nat /\ ~(k.pos > k.home)
      BY <1>1, <1>2 DEF Count
    <3>2. u.admits = u.records /\ u.admits <= 1
      BY <2>4, <3>1 DEF Expected
    <3>3. /\ o.attempts = Ran(u)
          /\ o.from_cache => u.slots + u.admits + u.tries = 0 /\ k.tool \in e
          /\ o.error = CircuitOpen => u.admits + u.tries = 0
          /\ Skips(k, u, s)
          /\ k.home = Len(s) /\ Len(s) > 1 => ~o.from_cache
      BY <3>1 DEF Expected
    <3> QED
      BY <2>3, <3>2, <3>3 DEF Settled, Skips
  <2>6. Sound(d, u, s, e)
    BY <2>3, <2>5 DEF Sound, Active
  <2> QED
    BY <2>1, <2>2, <2>6
<1>3. CASE k.pos # k.home
  <2> DEFINE d == [k EXCEPT !.phase = "up", !.pos = @ - 1, !.out = o, !.spent = 0]
  <2>1. Up(k, o) = d
    BY <1>3 DEF Up
  <2>2. /\ d \in CallRecord(s) /\ d.phase = "up" /\ d.pos = k.pos - 1 /\ d.out = o
        /\ d.tool = k.tool /\ d.home = k.home /\ d.timeout = k.timeout
        /\ d.attempt = k.attempt /\ d.budget = k.budget
    <3>1. k.pos - 1 \in 0 .. Len(s) /\ 0 \in Nat
      BY <1>1
    <3> QED
      BY <3>1 DEF CallRecord
  <2> HIDE DEF d
  <2>3. k.home = 1 /\ k.pos > k.home /\ d.pos \in 1 .. Len(s) /\ d.pos < Len(s)
    BY <1>1, <1>3, <2>2
  <2>4. Placed(d, s)
    BY <1>1, <2>2, <2>3 DEF Placed
  <2>5. Gated(d, u, s)
    BY <2>2, <2>3 DEF Expected, Gated, Within
  <2>6. Tried(d, u, s)
    BY <2>2, <2>3 DEF Expected, Tried, AtRetry, Retried
  <2>7. Timed(d, s)
    BY <2>2, <2>3 DEF Expected, Timed, AtRetry
  <2>8. Charged(d, u, s)
    BY <1>3, <2>2 DEF Expected, Charged, Skips
  <2>9. Sound(d, u, s, e)
    BY <2>2, <2>4, <2>5, <2>6, <2>7, <2>8 DEF Sound
  <2> QED
    BY <2>1, <2>2, <2>9
<1> QED
  BY <1>2, <1>3

\* A layer above the server hands a call on, having counted it if it is a breaker.
LEMMA DownSound ==
    ASSUME NEW s \in Stacks, Stacked(s), NEW e, NEW k \in CallRecord(s), NEW u \in Count,
           k.phase = "down", Sound(k, u, s, e), s[k.pos] # "server",
           NEW v \in Count, v.tries = u.tries, v.records = u.records,
           v.admits = u.admits + (IF s[k.pos] = "breaker" THEN 1 ELSE 0),
           NEW b \in Nat, k.timeout # NoTimeout => b <= k.timeout
    PROVE  LET d == [Down(k) EXCEPT !.budget = b]
           IN  d \in CallRecord(s) /\ Sound(d, v, s, e)
<1> DEFINE d == [Down(k) EXCEPT !.budget = b]
<1>1. Placed(k, s) /\ Gated(k, u, s) /\ Tried(k, u, s) /\ Charged(k, u, s)
  BY DEF Sound, Active
<1>2. /\ s # <<>> /\ Len(s) \in Nat \ {0} /\ k.pos \in 1 .. Len(s) /\ k.tool \in Tools
      /\ k.home \in {1, Len(s)} /\ k.home <= k.pos /\ s[Len(s)] = "server"
  BY <1>1, EmptySeq, LenProperties DEF Placed, Stacks, Stacked
<1>3. k.pos # Len(s) /\ k.home = 1 /\ k.pos + 1 \in 0 .. Len(s) /\ Len(s) > 1
  BY <1>2
<1>4. /\ d \in CallRecord(s) /\ d.phase = "down" /\ d.pos = k.pos + 1 /\ d.out = k.out
      /\ d.tool = k.tool /\ d.home = k.home /\ d.timeout = k.timeout
      /\ d.attempt = k.attempt /\ d.budget = b
  BY <1>3 DEF CallRecord, Down
<1> HIDE DEF d
<1>5. Placed(d, s)
  BY <1>2, <1>3, <1>4 DEF Placed
<1>6. Gated(d, v, s)
  <2>1. /\ (Within(k, s) <=> Guarded(k.pos - 1, s)) /\ (Within(d, s) <=> Guarded(k.pos, s))
    BY <1>2, <1>3, <1>4 DEF Within
  <2>2. u.admits \in Nat /\ u.records \in Nat
    BY DEF Count
  <2>3. CASE s[k.pos] = "breaker"
    <3>1. Guarded(k.pos, s) /\ ~Guarded(k.pos - 1, s) /\ Guarded(Len(s), s)
      BY <1>2, <2>3, GuardedAt
    <3>2. u.admits = 0 /\ u.records = 0
      BY <1>1, <2>1, <2>2, <3>1 DEF Gated
    <3> QED
      BY <1>4, <2>1, <2>3, <3>1, <3>2 DEF Gated
  <2>4. CASE s[k.pos] # "breaker"
    <3>1. Guarded(k.pos, s) <=> Guarded(k.pos - 1, s)
      BY <1>2, <2>4, GuardedAt
    <3>2. v.admits = u.admits
      BY <2>2, <2>4
    <3> QED
      BY <1>1, <1>4, <2>1, <3>1, <3>2 DEF Gated
  <2> QED
    BY <2>3, <2>4
<1>7. Tried(d, v, s)
  BY <1>1, <1>4 DEF Tried, AtRetry, Retried
<1>8. Timed(d, s)
  BY <1>4 DEF Timed, AtRetry
<1>9. Charged(d, v, s)
  BY <1>1, <1>2, <1>3, <1>4 DEF Charged, Skips
<1>10. Sound(d, v, s, e)
  BY <1>4, <1>5, <1>6, <1>7, <1>8, <1>9 DEF Sound
<1> QED
  BY <1>4, <1>10 DEF d

\* A layer other than the retry layer hands the outcome of a call up as it is.
LEMMA HandedUp ==
    ASSUME NEW s \in Stacks, Stacked(s), NEW e, NEW k \in CallRecord(s), NEW u \in Count,
           k.phase = "up", Sound(k, u, s, e), s[k.pos] # "retry",
           NEW v \in Count, v.tries = u.tries, v.slots = u.slots, v.admits = u.admits,
           v.records = u.records + (IF s[k.pos] = "breaker" THEN 1 ELSE 0)
    PROVE  Expected(k, v, k.out, s, e)
<1>1. Placed(k, s) /\ Gated(k, u, s) /\ Tried(k, u, s) /\ Timed(k, s) /\ Charged(k, u, s)
  BY DEF Sound, Active
<1>2. /\ s # <<>> /\ Len(s) \in Nat \ {0} /\ k.pos \in 1 .. Len(s) /\ k.pos < Len(s)
      /\ k.home = 1
  BY <1>1, EmptySeq, LenProperties DEF Placed, Stacks
<1>3. ~(k.pos > k.home /\ s[k.pos - 1] = "retry")
  <2>1. k.pos > k.home => k.pos - 1 \in 1 .. Len(s) /\ k.pos - 1 # Len(s) - 1
    BY <1>2
  <2> QED
    BY <1>2, <2>1 DEF Stacked
<1>4. v.admits = v.records + (IF k.home = 1 /\ Guarded(k.pos - 1, s) THEN 1 ELSE 0)
  <2>1. Within(k, s) <=> Guarded(k.pos, s)
    BY <1>2 DEF Within
  <2>2. u.admits \in Nat /\ u.records \in Nat
    BY DEF Count
  <2>3. CASE s[k.pos] = "breaker"
    <3>1. Guarded(k.pos, s) /\ ~Guarded(k.pos - 1, s)
      BY <1>2, <2>3, GuardedAt
    <3>2. u.admits = u.records + 1
      BY <1>1, <2>1, <3>1 DEF Gated
    <3> QED
      BY <2>2, <2>3, <3>1, <3>2
  <2>4. CASE s[k.pos] # "breaker"
    <3>1. Guarded(k.pos, s) <=> Guarded(k.pos - 1, s)
      BY <1>2, <2>4, GuardedAt
    <3>2. v.records = u.records
      BY <2>2, <2>4
    <3> QED
      BY <1>1, <1>2, <2>1, <3>1, <3>2 DEF Gated
  <2> QED
    BY <2>3, <2>4
<1>5. v.admits <= 1 /\ (v.admits = 1 => Guarded(Len(s), s))
  BY <1>1 DEF Gated
<1>6. k.out.attempts = Ran(v) /\ Retried(k, s)
  BY <1>1 DEF Tried, AtRetry, Ran
<1>7. k.timeout # NoTimeout => k.budget <= k.timeout
  BY <1>1 DEF Timed
<1>8. ~k.out.from_cache /\ (k.out.error = CircuitOpen => v.admits + v.tries = 0) /\ Skips(k, v, s)
  BY <1>1 DEF Charged, Skips
<1> QED
  BY <1>3, <1>4, <1>5, <1>6, <1>7, <1>8 DEF Expected

-----------------------------------------------------------------------------
(* The invariant, one call at a time.                                      *)

\* A tool that succeeds under the cache takes nothing from an answered call.
LEMMA EarnedGrows ==
    ASSUME NEW k, NEW u, NEW s, NEW e, NEW f, e \subseteq f, Sound(k, u, s, e)
    PROVE  Sound(k, u, s, f)
  BY DEF Sound, Settled

\* A step of one call, that leaves the layers in order and the call sound.
LEMMA OneCall ==
    ASSUME RuntimeInv, NEW c \in Calls, NEW k \in CallRecord(stack), NEW v \in Count,
           Sound(k, v, stack, earned), stack # <<>>, UNCHANGED built,
           call' = [call EXCEPT ![c] = k],
           used' \in [Calls -> Count], used'[c] = v,
           \A d \in Calls \ {c} : used'[d] = used[d],
           Shares', earned \subseteq earned'
    PROVE  RuntimeInv'
<1>1. /\ layers \subseteq Layers /\ stack \in Stacks /\ Stacked(stack)
      /\ call \in [Calls -> CallRecord(stack)]
      /\ \A d \in Calls : Sound(call[d], used[d], stack, earned)
  BY DEF RuntimeInv
<1>2. stack' = stack /\ layers' = layers
  BY DEF built
<1>3. call' \in [Calls -> CallRecord(stack')]
  BY <1>1, <1>2
<1>4. ASSUME NEW d \in Calls PROVE Sound(call'[d], used'[d], stack', earned')
  <2>1. Sound(call'[d], used'[d], stack, earned)
    BY <1>1
  <2> QED
    BY <1>2, <2>1, EarnedGrows
<1>5. Stacked(stack')
  BY <1>1, <1>2
<1> QED
  BY <1>1, <1>2, <1>3, <1>4, <1>5 DEF RuntimeInv

\* A call on its way.
LEMMA OnItsWay ==
    ASSUME RuntimeInv, NEW c \in Calls, call[c].phase \in Active
    PROVE  LET k == call[c]
               u == used[c]
           IN  /\ stack \in Stacks /\ Stacked(stack) /\ stack # <<>>
               /\ k \in CallRecord(stack) /\ u \in Count /\ Sound(k, u, stack, earned)
               /\ Placed(k, stack) /\ Gated(k, u, stack) /\ Tried(k, u, stack)
               /\ Timed(k, stack) /\ Charged(k, u, stack)
               /\ Len(stack) \in Nat \ {0} /\ k.pos \in 1 .. Len(stack)
               /\ k.home \in {1, Len(stack)} /\ k.home <= k.pos
               /\ stack[Len(stack)] = "server" /\ k.tool \in Tools
<1>1. /\ stack \in Stacks /\ Stacked(stack) /\ call[c] \in CallRecord(stack) /\ used[c] \in Count
      /\ Sound(call[c], used[c], stack, earned)
  BY DEF RuntimeInv
<1>2. /\ Placed(call[c], stack) /\ Gated(call[c], used[c], stack) /\ Tried(call[c], used[c], stack)
      /\ Timed(call[c], stack) /\ Charged(call[c], used[c], stack)
  BY <1>1 DEF Sound
<1>3. stack # <<>> /\ stack[Len(stack)] = "server" /\ Len(stack) \in Nat \ {0}
  BY <1>1, <1>2, EmptySeq DEF Placed, Stacked, Stacks
<1> QED
  BY <1>1, <1>2, <1>3 DEF Placed

\* The counters of a call.
LEMMA Counted ==
    ASSUME NEW c \in Calls, used \in [Calls -> Count],
           NEW what \in {"slots", "admits", "records", "tries"}, Uses(c, what)
    PROVE  /\ used' \in [Calls -> Count] /\ \A d \in Calls \ {c} : used'[d] = used[d]
           /\ used'[c] = [used[c] EXCEPT ![what] = @ + 1]
           /\ [used[c] EXCEPT ![what] = @ + 1] \in Count
<1>1. [used[c] EXCEPT ![what] = @ + 1] \in Count
  BY DEF Count
<1> QED
  BY <1>1 DEF Uses

\* Type correctness is a part of the invariant.
LEMMA InvariantTypes == RuntimeInv => RuntimeTypeOK
<1> SUFFICES ASSUME RuntimeInv PROVE RuntimeTypeOK
  OBVIOUS
<1>1. ASSUME NEW c \in Calls, call[c].phase \in {"down", "running", "up", "sleep"}
      PROVE  call[c].pos \in call[c].home .. Len(stack)
  BY <1>1, OnItsWay DEF Active, Placed
<1> QED
  BY <1>1 DEF RuntimeInv, RuntimeTypeOK, CallRecord, Stacks, Shares

-----------------------------------------------------------------------------
(* The state of the layers.                                                *)

\* try_acquire keeps a breaker one.
LEMMA AcquiredBreaker ==
    ASSUME NEW b \in Breaker
    PROVE  /\ Acquired(b) \in Breaker
           /\ b.state \in {"Closed", "HalfOpen"} => Acquired(b).state = b.state
           /\ b.state = "Open" => Acquired(b).state = "HalfOpen"
<1>1. b.state \in CircuitState /\ b.half_open_calls + 1 \in Nat
  BY DEF Breaker
<1>2. CASE b.state = "Closed"
  BY <1>2 DEF Acquired
<1>3. CASE b.state = "HalfOpen"
  BY <1>1, <1>3 DEF Acquired, Breaker
<1>4. CASE b.state = "Open"
  BY <1>4 DEF Acquired, Breaker, CircuitState
<1> QED
  BY <1>1, <1>2, <1>3, <1>4 DEF CircuitState

\* record_success and record_failure, and what they do to the state.
LEMMA RecordedBreaker ==
    ASSUME NEW b \in Breaker, NEW ok \in BOOLEAN
    PROVE  LET a == IF ok THEN RecordSuccess(b) ELSE RecordFailure(b)
           IN  /\ a \in Breaker
               /\ \/ a.state = b.state /\ (a.state = "Open" => a.opened_at = b.opened_at)
                  \/ b.state \in {"Closed", "HalfOpen"} /\ a.state = "Open" /\ a.opened_at = 0
                  \/ b.state = "HalfOpen" /\ a.state = "Closed"
<1> USE ThresholdAssumption, CapAssumption DEF NotOpened
<1>1. b.state \in CircuitState
  BY DEF Breaker
<1>2. CASE ok
  <2>1. NewBreaker \in Breaker /\ NewBreaker.state = "Closed"
    BY DEF NewBreaker, Breaker, CircuitState
  <2>2. CASE b.state # "HalfOpen"
    BY <1>2, <2>2 DEF RecordSuccess, Breaker
  <2>3. CASE b.state = "HalfOpen"
    BY <1>2, <2>1, <2>3 DEF RecordSuccess, Breaker
  <2> QED
    BY <2>2, <2>3
<1>3. CASE ~ok
  <2> DEFINE n       == b.failure_count + 1
             counted == [b EXCEPT !.failure_count = IF n > CountCap THEN @ ELSE n]
             cleared == [counted EXCEPT !.success_count = 0, !.half_open_calls = 0]
  <2>1. /\ counted \in Breaker /\ counted.state = b.state
        /\ counted.opened_at = b.opened_at
    BY DEF Breaker
  <2>2. cleared \in Breaker
    BY <2>1 DEF Breaker
  <2>3. ASSUME NEW x \in Breaker
        PROVE  Opened(x) \in Breaker /\ Opened(x).state = "Open" /\ Opened(x).opened_at = 0
    <3>1. 0 \in -1 .. ResetTimeout /\ "Open" \in CircuitState
      BY DEF CircuitState
    <3> QED
      BY <3>1 DEF Opened, Breaker
  <2>4. CASE b.state = "Closed"
    <3>1. RecordFailure(b) \in {counted, Opened(counted)}
      BY <2>4 DEF RecordFailure
    <3> HIDE DEF counted
    <3> QED
      BY <1>3, <2>1, <2>3, <2>4, <3>1
  <2>5. CASE b.state = "HalfOpen"
    <3>1. RecordFailure(b) = Opened(cleared)
      BY <2>5 DEF RecordFailure
    <3> HIDE DEF cleared
    <3> QED
      BY <1>3, <2>2, <2>3, <2>5, <3>1
  <2>6. CASE b.state = "Open"
    <3>1. RecordFailure(b) = counted
      BY <2>6 DEF RecordFailure
    <3> HIDE DEF counted
    <3> QED
      BY <1>3, <2>1, <3>1
  <2> QED
    BY <1>1, <2>4, <2>5, <2>6 DEF CircuitState
<1> QED
  BY <1>2, <1>3

\* So does the second critical section as a whole.
LEMMA AfterCallBreaker ==
    ASSUME NEW b \in Breaker, NEW ok \in BOOLEAN
    PROVE  LET a == AfterCall(b, ok)
           IN  /\ a \in Breaker
               /\ \/ a.state = b.state /\ (a.state = "Open" => a.opened_at = b.opened_at)
                  \/ b.state \in {"Closed", "HalfOpen"} /\ a.state = "Open" /\ a.opened_at = 0
                  \/ b.state = "HalfOpen" /\ a.state = "Closed"
<1> DEFINE r == IF ok THEN RecordSuccess(b) ELSE RecordFailure(b)
<1>1. /\ r \in Breaker
      /\ \/ r.state = b.state /\ (r.state = "Open" => r.opened_at = b.opened_at)
         \/ b.state \in {"Closed", "HalfOpen"} /\ r.state = "Open" /\ r.opened_at = 0
         \/ b.state = "HalfOpen" /\ r.state = "Closed"
  BY RecordedBreaker
<1> HIDE DEF r
<1>2. /\ ReleaseProbe(r) \in Breaker /\ ReleaseProbe(r).state = r.state
      /\ ReleaseProbe(r).opened_at = r.opened_at
  BY <1>1 DEF ReleaseProbe, Breaker
<1> QED
  BY <1>1, <1>2 DEF AfterCall, r

\* A non-empty set of natural numbers has a first one.
LEMMA First ==
    ASSUME NEW T, T \subseteq Nat, T # {}
    PROVE  \E m \in T : \A i \in T : m <= i
<1>1. \E m \in T : \A i \in T : ~ (<<i, m>> \in OpToRel(<, Nat))
  BY NatLessThanWellFounded, WFMin
<1>2. PICK m \in T : \A i \in T : ~ (<<i, m>> \in OpToRel(<, Nat))
  BY <1>1
<1>3. ASSUME NEW i \in T PROVE m <= i
  <2>1. i \in Nat /\ m \in Nat
    OBVIOUS
  <2>2. ~(i < m)
    BY <1>2, <2>1 DEF OpToRel
  <2> QED
    BY <2>1, <2>2
<1> QED
  BY <1>3

\* What the pruning loop leaves are stamps, no more than there were.
LEMMA YoungStamps ==
    ASSUME Shares
    PROVE  Young \in Seq(0 .. Period) /\ Len(Young) \in Nat /\ Len(Young) <= Len(stamps)
<1> DEFINE young == {i \in 1 .. Len(stamps) : stamps[i] < Period}
<1>1. /\ Len(stamps) \in Nat /\ Period \in Nat
      /\ \A i \in 1 .. Len(stamps) : stamps[i] \in 0 .. Period
  BY Parameters, LenProperties, ElementOfSeq DEF Shares
<1>2. \E n \in 0 .. Len(stamps) : /\ \A i \in 1 .. n : stamps[i] >= Period
                                  /\ n < Len(stamps) => stamps[n + 1] < Period
  <2>1. CASE young = {}
    BY <1>1, <2>1
  <2>2. CASE young # {}
    <3>1. PICK m \in young : \A i \in young : m <= i
      <4>1. young \subseteq Nat
        BY <1>1
      <4> HIDE DEF young
      <4> QED
        BY <2>2, <4>1, First
    <3>2. /\ m - 1 \in 0 .. Len(stamps) /\ (m - 1) + 1 = m /\ stamps[m] < Period
          /\ \A i \in 1 .. m - 1 : stamps[i] >= Period
      BY <1>1, <3>1
    <3> QED
      BY <3>2
  <2> QED
    BY <2>1, <2>2
<1>5. Expired \in 0 .. Len(stamps)
  BY <1>2 DEF Expired
<1>6. /\ Expired + 1 \in Int /\ Len(stamps) \in Int
      /\ \A i \in Expired + 1 .. Len(stamps) : stamps[i] \in 0 .. Period
  BY <1>1, <1>5
<1>7. /\ Young \in Seq(0 .. Period)
      /\ Len(Young) = IF Expired + 1 <= Len(stamps) THEN Len(stamps) - (Expired + 1) + 1 ELSE 0
  BY <1>6, SubSeqProperties DEF Young
<1> QED
  BY <1>1, <1>5, <1>7

-----------------------------------------------------------------------------
(* The actions keep the invariant.                                         *)

\* A layer hands outcome o up.
LEMMA UpStep ==
    ASSUME RuntimeInv, NEW c \in Calls, call[c].phase \in Active, NEW o \in Outcome, NEW v \in Count,
           Expected(call[c], v, o, stack, earned), Becomes(c, Up(call[c], o)), UNCHANGED built,
           used' \in [Calls -> Count], used'[c] = v,
           \A d \in Calls \ {c} : used'[d] = used[d],
           Shares', earned \subseteq earned'
    PROVE  RuntimeInv'
<1>1. /\ stack \in Stacks /\ Stacked(stack) /\ stack # <<>> /\ call[c] \in CallRecord(stack)
      /\ Placed(call[c], stack)
  BY OnItsWay
<1>2. Up(call[c], o) \in CallRecord(stack) /\ Sound(Up(call[c], o), v, stack, earned)
  BY <1>1, UpSound
<1> QED
  BY <1>1, <1>2, OneCall DEF Becomes

\* A layer hands the call down.
LEMMA DownStep ==
    ASSUME RuntimeInv, NEW c \in Calls, call[c].phase = "down", stack[call[c].pos] # "server",
           NEW v \in Count, v.tries = used[c].tries, v.records = used[c].records,
           v.admits = used[c].admits + (IF stack[call[c].pos] = "breaker" THEN 1 ELSE 0),
           NEW b \in Nat, call[c].timeout # NoTimeout => b <= call[c].timeout,
           Becomes(c, [Down(call[c]) EXCEPT !.budget = b]), UNCHANGED built,
           used' \in [Calls -> Count], used'[c] = v,
           \A d \in Calls \ {c} : used'[d] = used[d],
           Shares', earned \subseteq earned'
    PROVE  RuntimeInv'
<1>1. call[c].phase \in Active
  BY DEF Active
<1>2. /\ stack \in Stacks /\ Stacked(stack) /\ stack # <<>> /\ call[c] \in CallRecord(stack)
      /\ used[c] \in Count /\ Sound(call[c], used[c], stack, earned)
  BY <1>1, OnItsWay
<1> DEFINE d == [Down(call[c]) EXCEPT !.budget = b]
<1>3. d \in CallRecord(stack) /\ Sound(d, v, stack, earned)
  BY <1>2, DownSound
<1> HIDE DEF d
<1>4. call' = [call EXCEPT ![c] = d]
  BY DEF Becomes, d
<1> QED
  BY <1>2, <1>3, <1>4, OneCall

\* A call that has not a new deadline keeps the one it has.
LEMMA DownKeepsBudget ==
    ASSUME NEW s, NEW k \in CallRecord(s)
    PROVE  Down(k) = [Down(k) EXCEPT !.budget = k.budget]
  BY DEF Down, CallRecord

\* What does not touch the counters or what the layers share.
LEMMA Untouched ==
    ASSUME RuntimeInv
    PROVE  /\ used' = used => used' \in [Calls -> Count]
           /\ UNCHANGED shared => Shares' /\ earned \subseteq earned'
  BY DEF RuntimeInv, Shares, shared

\* A call is made.
LEMMA CallKeeps ==
    ASSUME RuntimeInv, NEW c \in Calls, NEW r \in Requests, Call(c, r) \/ CallOn(c, r)
    PROVE  RuntimeInv'
<1>1. /\ stack # <<>> /\ stack \in Stacks /\ Stacked(stack) /\ Len(stack) \in Nat \ {0}
      /\ used[c] = Nothing /\ used[c] \in Count /\ stack[Len(stack)] = "server"
      /\ \A i \in 1 .. Len(stack) : stack[i] = "retry" => i = Len(stack) - 1
  BY EmptySeq DEF RuntimeInv, Call, CallOn, Sound, Stacks, Stacked
<1>2. /\ UNCHANGED built /\ Shares' /\ earned \subseteq earned' /\ used' \in [Calls -> Count]
      /\ used' = used
  BY Untouched DEF Call, CallOn
<1>3. r.tool \in Tools /\ r.timeout \in Nat \cup {NoTimeout} /\ r.found \in BOOLEAN
  BY Parameters
<1>4. ASSUME NEW p \in {1, Len(stack)}
      PROVE  NewCall(r, p) \in CallRecord(stack) /\ Sound(NewCall(r, p), Nothing, stack, earned)
  <2> DEFINE k == NewCall(r, p)
  <2>1. /\ k \in CallRecord(stack) /\ k.phase = "down" /\ k.tool = r.tool /\ k.home = p /\ k.pos = p
        /\ k.out = Ok /\ k.attempt = 0 /\ k.budget = 0 /\ k.timeout = r.timeout
    <3>1. p \in 0 .. Len(stack) /\ NoCall \in CallRecord(stack)
      BY <1>1, NoCallType
    <3> QED
      BY <1>3, <3>1 DEF NewCall, NoCall, CallRecord
  <2> HIDE DEF k
  <2>2. Placed(k, stack)
    BY <1>1, <1>3, <2>1 DEF Placed
  <2>3. ~Within(k, stack)
    BY <1>1, <2>1 DEF Within, Guarded
  <2>4. Gated(k, Nothing, stack) /\ Tried(k, Nothing, stack)
    BY <2>1, <2>3 DEF Gated, Tried, Nothing, AtRetry, Retried
  <2>5. Timed(k, stack) /\ Charged(k, Nothing, stack)
    BY <1>3, <2>1, Outcomes DEF Timed, Charged, Nothing, AtRetry, Skips
  <2> QED
    BY <2>1, <2>2, <2>4, <2>5 DEF Sound, k
<1>5. CASE Call(c, r)
  <2>1. call' = [call EXCEPT ![c] = NewCall(r, 1)]
    BY <1>5 DEF Call, Becomes
  <2> QED
    BY <1>1, <1>2, <1>4, <2>1, OneCall
<1>6. CASE CallOn(c, r) /\ Routed
  <2>1. call' = [call EXCEPT ![c] = NewCall(r, Len(stack))]
    BY <1>6 DEF CallOn, Becomes
  <2> QED
    BY <1>1, <1>2, <1>4, <2>1, OneCall
<1>7. CASE CallOn(c, r) /\ ~Routed
  <2> DEFINE k == NewCall(r, Len(stack))
             o == Err(NoRouter)
  <2>1. call' = [call EXCEPT ![c] = Up(k, o)]
    BY <1>7 DEF CallOn, Becomes
  <2>2. k \in CallRecord(stack) /\ Sound(k, Nothing, stack, earned)
    BY <1>4
  <2>3. k.phase = "down" /\ k.home = Len(stack) /\ k.pos = Len(stack) /\ k.attempt = 0
    BY DEF NewCall, NoCall
  <2> HIDE DEF k
  <2>4. Placed(k, stack) /\ Timed(k, stack)
    BY <2>2, <2>3 DEF Sound, Active
  <2>5. ~(k.home = 1 /\ Guarded(k.pos - 1, stack))
    BY <1>1, <2>3 DEF Guarded
  <2>6. /\ o \in Outcome /\ o.attempts = 1 /\ ~o.from_cache /\ o.error # CircuitOpen
        /\ o.error # TimedOut
    BY Outcomes
  <2> HIDE DEF o
  <2>7. Expected(k, Nothing, o, stack, earned)
    BY <1>1, <2>3, <2>4, <2>5, <2>6 DEF Expected, Nothing, Ran, Skips, Retried, Timed
  <2>8. Up(k, o) \in CallRecord(stack) /\ Sound(Up(k, o), Nothing, stack, earned)
    BY <1>1, <2>2, <2>4, <2>6, <2>7, UpSound
  <2> QED
    BY <1>1, <1>2, <2>1, <2>8, OneCall
<1> QED
  BY <1>5, <1>6, <1>7

\* The cache answers.
LEMMA HitKeeps ==
    ASSUME RuntimeInv, NEW c \in Calls, Hit(c)
    PROVE  RuntimeInv'
<1> DEFINE k == call[c]
           o == [Ok EXCEPT !.from_cache = TRUE]
<1>1. k.phase = "down" /\ stack[k.pos] = "cache" /\ k.phase \in Active
  BY DEF Hit, Enters, Active
<1>2. /\ Stacked(stack) /\ Len(stack) \in Nat \ {0} /\ k.pos \in 1 .. Len(stack)
      /\ k.home \in {1, Len(stack)} /\ k.home <= k.pos /\ used[c] \in Count /\ stack # <<>>
      /\ Tried(k, used[c], stack) /\ Timed(k, stack) /\ Charged(k, used[c], stack) /\ k.tool \in Tools
  BY <1>1, OnItsWay
<1>3. k.pos = 1 /\ k.home = 1 /\ used[c] = Nothing
  BY <1>1, <1>2 DEF Stacked, Charged
<1>4. k.tool \in earned
  <2>1. store[k.tool] # NotCached
    BY DEF Hit, NotCached
  <2> QED
    BY <1>2, <2>1 DEF RuntimeInv, Shares
<1>5. o \in Outcome /\ o.attempts = 1 /\ o.error # CircuitOpen
  BY DEF Ok, Outcome, NoError, CircuitOpen
<1>6. ~Guarded(k.pos - 1, stack)
  BY <1>2, <1>3 DEF Guarded
<1>7. Becomes(c, Up(k, o)) /\ UNCHANGED built /\ UNCHANGED shared /\ used' = used
  BY DEF Hit, shared
<1> HIDE DEF o, k
<1>8. Expected(k, Nothing, o, stack, earned)
  <2>1. Nothing.slots = 0 /\ Nothing.admits = 0 /\ Nothing.records = 0 /\ Nothing.tries = 0
    BY DEF Nothing
  <2>2. ~(k.pos > k.home) /\ ~(k.home = Len(stack) /\ Len(stack) > 1)
    <3>1. k.pos = 1 /\ k.home = 1 /\ Len(stack) \in Nat
      BY <1>2, <1>3
    <3>2. ~(k.pos > k.home)
      BY <3>1
    <3>3. k.home = Len(stack) => ~(Len(stack) > 1)
      BY <3>1
    <3> QED
      BY <3>2, <3>3
  <2>3. Retried(k, stack) /\ (k.timeout # NoTimeout => k.budget <= k.timeout)
    BY <1>2 DEF Tried, Timed
  <2> QED
    BY <1>2, <1>3, <1>4, <1>5, <1>6, <2>1, <2>2, <2>3 DEF Expected, Ran, Skips
<1> QED
  BY <1>1, <1>2, <1>3, <1>5, <1>7, <1>8, UpStep, Untouched DEF k

\* The cache has no answer.
LEMMA MissKeeps ==
    ASSUME RuntimeInv, NEW c \in Calls, Miss(c)
    PROVE  RuntimeInv'
<1> DEFINE k == call[c]
<1>1. k.phase = "down" /\ stack[k.pos] = "cache" /\ k.phase \in Active
  BY DEF Miss, Enters, Active
<1>2. /\ k \in CallRecord(stack) /\ used[c] \in Count /\ Timed(k, stack) /\ k.tool \in Tools
  BY <1>1, OnItsWay
<1>3. /\ k.budget \in Nat /\ (k.timeout # NoTimeout => k.budget <= k.timeout)
      /\ Down(k) = [Down(k) EXCEPT !.budget = k.budget]
  BY <1>2, DownKeepsBudget DEF Timed, CallRecord
<1>4. used' = used /\ used' \in [Calls -> Count] /\ UNCHANGED built /\ Becomes(c, Down(k))
  BY Untouched DEF Miss
<1>5. Shares' /\ earned \subseteq earned'
  <2>1. NotCached \in NotCached .. Ttl
    BY Parameters DEF NotCached
  <2>2. UNCHANGED <<breakers, stamps, earned>>
    BY DEF Miss
  <2>3. store' = store \/ store' = [store EXCEPT ![k.tool] = NotCached]
    BY DEF Miss
  <2>4. Shares
    BY DEF RuntimeInv
  <2> QED
    BY <1>2, <2>1, <2>2, <2>3, <2>4 DEF Shares
<1>6. /\ used[c].admits = used[c].admits + (IF stack[k.pos] = "breaker" THEN 1 ELSE 0)
      /\ stack[k.pos] # "server"
  BY <1>1, <1>2 DEF Count
<1> QED
  BY <1>1, <1>2, <1>3, <1>4, <1>5, <1>6, DownStep

\* An outcome passes the cache.
LEMMA FillKeeps ==
    ASSUME RuntimeInv, NEW c \in Calls, Fill(c)
    PROVE  RuntimeInv'
<1> DEFINE k == call[c]
<1>1. k.phase = "up" /\ stack[k.pos] = "cache" /\ k.phase \in Active
  BY DEF Fill, Leaves, Active
<1>2. /\ k \in CallRecord(stack) /\ used[c] \in Count /\ k.tool \in Tools /\ k.out \in Outcome
      /\ stack \in Stacks /\ Stacked(stack) /\ Sound(k, used[c], stack, earned)
  BY <1>1, OnItsWay DEF CallRecord
<1>3. used[c].records = used[c].records + (IF stack[k.pos] = "breaker" THEN 1 ELSE 0)
  BY <1>1, <1>2 DEF Count
<1>4. Expected(k, used[c], k.out, stack, earned)
  BY <1>1, <1>2, <1>3, HandedUp
<1>5. used' = used /\ used' \in [Calls -> Count] /\ UNCHANGED built /\ Becomes(c, Up(k, k.out))
  BY Untouched DEF Fill
<1>6. Shares' /\ earned \subseteq earned'
  <2>1. Ttl \in NotCached .. Ttl
    BY Parameters DEF NotCached
  <2>2. UNCHANGED <<breakers, stamps>> /\ Shares
    BY DEF Fill, RuntimeInv
  <2>3. \/ store' = store /\ earned' \in {earned, earned \cup {k.tool}}
        \/ store' = [store EXCEPT ![k.tool] = Ttl] /\ earned' = earned \cup {k.tool}
    BY DEF Fill
  <2> QED
    BY <1>2, <2>1, <2>2, <2>3 DEF Shares
<1> QED
  BY <1>1, <1>2, <1>4, <1>5, <1>6, UpStep

\* A call passes the rate limit ...
LEMMA PassKeeps ==
    ASSUME RuntimeInv, NEW c \in Calls, Pass(c)
    PROVE  RuntimeInv'
<1> DEFINE k == call[c]
           v == [used[c] EXCEPT !["slots"] = @ + 1]
<1>1. k.phase = "down" /\ stack[k.pos] = "limit" /\ k.phase \in Active
  BY DEF Pass, Enters, Active
<1>2. /\ k \in CallRecord(stack) /\ used[c] \in Count /\ Timed(k, stack)
  BY <1>1, OnItsWay
<1>3. /\ k.budget \in Nat /\ (k.timeout # NoTimeout => k.budget <= k.timeout)
      /\ Down(k) = [Down(k) EXCEPT !.budget = k.budget]
  BY <1>2, DownKeepsBudget DEF Timed, CallRecord
<1>4. /\ used' \in [Calls -> Count] /\ used'[c] = v /\ v \in Count
      /\ \A d \in Calls \ {c} : used'[d] = used[d]
  BY Counted DEF Pass, RuntimeInv
<1>5. UNCHANGED built /\ Becomes(c, Down(k))
  BY DEF Pass
<1>6. Shares' /\ earned \subseteq earned'
  <2>1. UNCHANGED <<breakers, store, earned>> /\ Shares /\ Len(Young) < Limit
    BY DEF Pass, RuntimeInv
  <2>2. stamps' = Append(Young, 0) /\ 0 \in 0 .. Period /\ Limit \in Nat
    BY Parameters DEF Pass
  <2>3. Young \in Seq(0 .. Period) /\ Len(Young) \in Nat
    BY <2>1, YoungStamps
  <2>4. stamps' \in Seq(0 .. Period) /\ Len(stamps') = Len(Young) + 1
    BY <2>2, <2>3, AppendProperties
  <2> QED
    BY <2>1, <2>2, <2>3, <2>4 DEF Shares
<1>7. /\ v.admits = used[c].admits + (IF stack[k.pos] = "breaker" THEN 1 ELSE 0)
      /\ stack[k.pos] # "server" /\ v.tries = used[c].tries /\ v.records = used[c].records
  BY <1>1, <1>2 DEF Count
<1> HIDE DEF v
<1> QED
  BY <1>1, <1>2, <1>3, <1>4, <1>5, <1>6, <1>7, DownStep

\* ... and its outcome passes it.
LEMMA PassBackKeeps ==
    ASSUME RuntimeInv, NEW c \in Calls, PassBack(c)
    PROVE  RuntimeInv'
<1> DEFINE k == call[c]
<1>1. k.phase = "up" /\ stack[k.pos] = "limit" /\ k.phase \in Active
  BY DEF PassBack, Leaves, Active
<1>2. /\ k \in CallRecord(stack) /\ used[c] \in Count /\ k.out \in Outcome
      /\ stack \in Stacks /\ Stacked(stack) /\ Sound(k, used[c], stack, earned)
  BY <1>1, OnItsWay DEF CallRecord
<1>3. used[c].records = used[c].records + (IF stack[k.pos] = "breaker" THEN 1 ELSE 0)
  BY <1>1, <1>2 DEF Count
<1>4. Expected(k, used[c], k.out, stack, earned)
  BY <1>1, <1>2, <1>3, HandedUp
<1>5. /\ used' = used /\ UNCHANGED built /\ Becomes(c, Up(k, k.out))
      /\ used' \in [Calls -> Count] /\ Shares' /\ earned \subseteq earned'
  BY Untouched DEF PassBack
<1> QED
  BY <1>1, <1>2, <1>4, <1>5, UpStep

\* The breaker lets a call in, ...
LEMMA AdmitKeeps ==
    ASSUME RuntimeInv, NEW c \in Calls, Admit(c)
    PROVE  RuntimeInv'
<1> DEFINE k == call[c]
           v == [used[c] EXCEPT !["admits"] = @ + 1]
<1>1. k.phase = "down" /\ stack[k.pos] = "breaker" /\ k.phase \in Active
  BY DEF Admit, Enters, Active
<1>2. k \in CallRecord(stack) /\ used[c] \in Count /\ Timed(k, stack) /\ k.tool \in Tools
  BY <1>1, OnItsWay
<1>3. /\ k.budget \in Nat /\ (k.timeout # NoTimeout => k.budget <= k.timeout)
      /\ Down(k) = [Down(k) EXCEPT !.budget = k.budget]
  BY <1>2, DownKeepsBudget DEF Timed, CallRecord
<1>4. /\ used' \in [Calls -> Count] /\ used'[c] = v /\ v \in Count
      /\ \A d \in Calls \ {c} : used'[d] = used[d]
  BY Counted DEF Admit, RuntimeInv
<1>5. UNCHANGED built /\ Becomes(c, Down(k))
  BY DEF Admit
<1>6. Shares' /\ earned \subseteq earned'
  <2>1. /\ UNCHANGED <<stamps, store, earned>> /\ Shares
        /\ breakers' = [breakers EXCEPT ![k.tool] = Acquired(@)]
    BY DEF Admit, RuntimeInv
  <2>2. Acquired(breakers[k.tool]) \in Breaker
    BY <1>2, <2>1, AcquiredBreaker DEF Shares
  <2> QED
    BY <1>2, <2>1, <2>2 DEF Shares
<1>7. /\ v.admits = used[c].admits + (IF stack[k.pos] = "breaker" THEN 1 ELSE 0)
      /\ stack[k.pos] # "server" /\ v.tries = used[c].tries /\ v.records = used[c].records
  BY <1>1, <1>2 DEF Count
<1> HIDE DEF v
<1> QED
  BY <1>1, <1>2, <1>3, <1>4, <1>5, <1>6, <1>7, DownStep

\* ... or turns it away, ...
LEMMA RejectKeeps ==
    ASSUME RuntimeInv, NEW c \in Calls, Reject(c)
    PROVE  RuntimeInv'
<1> DEFINE k == call[c]
           u == used[c]
           o == Err(CircuitOpen)
<1>1. k.phase = "down" /\ stack[k.pos] = "breaker" /\ k.phase \in Active
  BY DEF Reject, Enters, Active
<1>2. /\ stack \in Stacks /\ Stacked(stack) /\ stack # <<>> /\ u \in Count
      /\ Len(stack) \in Nat \ {0} /\ k.pos \in 1 .. Len(stack) /\ stack[Len(stack)] = "server"
      /\ Gated(k, u, stack) /\ Tried(k, u, stack) /\ Timed(k, stack) /\ Charged(k, u, stack)
  BY <1>1, OnItsWay
<1>3. ~Guarded(k.pos - 1, stack)
  BY <1>1, <1>2, GuardedAt
<1>4. u.admits = 0 /\ u.records = 0 /\ u.tries = 0
  BY <1>1, <1>2, <1>3 DEF Gated, Within, Tried, Count
<1>5. ~(stack[k.pos - 1] = "retry" /\ k.pos > k.home)
  <2>1. k.pos > k.home => k.pos - 1 \in 1 .. Len(stack) /\ k.pos # Len(stack)
    BY <1>1, <1>2, OnItsWay
  <2> QED
    BY <1>2, <2>1 DEF Stacked
<1>6. o \in Outcome /\ o.attempts = 1 /\ ~o.from_cache
  BY Outcomes
<1>7. /\ used' = used /\ UNCHANGED built /\ Becomes(c, Up(k, o))
      /\ used' \in [Calls -> Count] /\ Shares' /\ earned \subseteq earned'
  BY Untouched DEF Reject
<1> HIDE DEF o
<1>8. Expected(k, u, o, stack, earned)
  BY <1>2, <1>3, <1>4, <1>5, <1>6 DEF Expected, Ran, Tried, Timed, Charged
<1> QED
  BY <1>1, <1>2, <1>6, <1>7, <1>8, UpStep

\* ... and hears of one it let in.
LEMMA RecordKeeps ==
    ASSUME RuntimeInv, NEW c \in Calls, Record(c)
    PROVE  RuntimeInv'
<1> DEFINE k == call[c]
           v == [used[c] EXCEPT !["records"] = @ + 1]
<1>1. k.phase = "up" /\ stack[k.pos] = "breaker" /\ k.phase \in Active
  BY DEF Record, Leaves, Active
<1>2. /\ k \in CallRecord(stack) /\ used[c] \in Count /\ k.tool \in Tools /\ k.out \in Outcome
      /\ stack \in Stacks /\ Stacked(stack) /\ Sound(k, used[c], stack, earned)
  BY <1>1, OnItsWay DEF CallRecord
<1>3. /\ used' \in [Calls -> Count] /\ used'[c] = v /\ v \in Count
      /\ \A d \in Calls \ {c} : used'[d] = used[d]
  BY Counted DEF Record, RuntimeInv
<1>4. /\ v.records = used[c].records + (IF stack[k.pos] = "breaker" THEN 1 ELSE 0)
      /\ v.tries = used[c].tries /\ v.slots = used[c].slots /\ v.admits = used[c].admits
  BY <1>1, <1>2 DEF Count
<1> HIDE DEF v
<1>5. Expected(k, v, k.out, stack, earned)
  BY <1>1, <1>2, <1>3, <1>4, HandedUp
<1>6. UNCHANGED built /\ Becomes(c, Up(k, k.out))
  BY DEF Record
<1>7. Shares' /\ earned \subseteq earned'
  <2>1. /\ UNCHANGED <<stamps, store, earned>> /\ Shares
        /\ breakers' = [breakers EXCEPT ![k.tool] = AfterCall(@, k.out.success)]
    BY DEF Record, RuntimeInv
  <2>2. AfterCall(breakers[k.tool], k.out.success) \in Breaker
    BY <1>2, <2>1, AfterCallBreaker DEF Shares, Outcome
  <2> QED
    BY <1>2, <2>1, <2>2 DEF Shares
<1> QED
  BY <1>1, <1>2, <1>3, <1>5, <1>6, <1>7, UpStep

\* The retry layer fixes the deadline.
LEMMA StartKeeps ==
    ASSUME RuntimeInv, NEW c \in Calls, Start(c)
    PROVE  RuntimeInv'
<1> DEFINE k == call[c]
           b == IF k.timeout = NoTimeout THEN 0 ELSE k.timeout
<1>1. k.phase = "down" /\ stack[k.pos] = "retry" /\ k.phase \in Active
  BY DEF Start, Enters, Active
<1>2. /\ k \in CallRecord(stack) /\ used[c] \in Count /\ Tried(k, used[c], stack)
  BY <1>1, OnItsWay
<1>3. b \in Nat /\ (k.timeout # NoTimeout => b <= k.timeout)
  BY <1>2 DEF CallRecord
<1>4. k.attempt = 0
  BY <1>1, <1>2 DEF Tried
<1>5. [Down(k) EXCEPT !.attempt = 0, !.budget = b] = [Down(k) EXCEPT !.budget = b]
  BY <1>2, <1>4 DEF Down, CallRecord
<1>6. Becomes(c, [Down(k) EXCEPT !.attempt = 0, !.budget = b]) /\ UNCHANGED built
  BY DEF Start
<1>7. used' = used /\ used' \in [Calls -> Count] /\ Shares' /\ earned \subseteq earned'
  BY Untouched DEF Start
<1> HIDE DEF b
<1>8. Becomes(c, [Down(k) EXCEPT !.budget = b])
  BY <1>5, <1>6 DEF Becomes
<1>9. /\ used[c].admits = used[c].admits + (IF stack[k.pos] = "breaker" THEN 1 ELSE 0)
      /\ stack[k.pos] # "server"
  BY <1>1, <1>2 DEF Count
<1> QED
  BY <1>1, <1>2, <1>3, <1>6, <1>7, <1>8, <1>9, DownStep

\* An outcome that reached the retry layer.
LEMMA AtRetryFacts ==
    ASSUME RuntimeInv, NEW c \in Calls, Leaves(c, "retry")
    PROVE  LET k == call[c]
               u == used[c]
           IN  /\ k.phase = "up" /\ k.phase \in Active /\ AtRetry(k, stack)
               /\ k.pos = Len(stack) - 1 /\ k.home = 1 /\ k.out \in Outcome
               /\ u.tries = k.attempt + 1 /\ (u.admits = 1 => Within(k, stack))
<1> DEFINE k == call[c]
           u == used[c]
<1>1. k.phase = "up" /\ stack[k.pos] = "retry" /\ k.phase \in Active
  BY DEF Leaves, Active
<1>2. /\ stack \in Stacks /\ Stacked(stack) /\ stack # <<>> /\ k \in CallRecord(stack)
      /\ Placed(k, stack) /\ Gated(k, u, stack) /\ Tried(k, u, stack)
      /\ k.pos \in 1 .. Len(stack) /\ k.home \in {1, Len(stack)} /\ k.home <= k.pos
      /\ Len(stack) \in Nat
  BY <1>1, OnItsWay
<1>3. AtRetry(k, stack) /\ k.pos = Len(stack) - 1 /\ k.home = 1
  BY <1>1, <1>2 DEF AtRetry, Stacked
<1>4. ASSUME u.admits = 1 PROVE Within(k, stack)
  <2>1. Guarded(Len(stack), stack)
    BY <1>2, <1>4 DEF Gated
  <2>2. Guarded(k.pos - 1, stack)
    BY <1>1, <1>2, <2>1, GuardedAt
  <2>3. Guarded(k.pos, stack)
    BY <1>1, <1>2, <2>2, GuardedAt
  <2> QED
    BY <1>1, <1>3, <2>3 DEF Within
<1>5. u.tries = k.attempt + 1 /\ k.out \in Outcome
  BY <1>2, <1>3 DEF Tried, CallRecord
<1> QED
  BY <1>1, <1>3, <1>4, <1>5

\* The retry layer gives up, or has an answer.
LEMMA ReturnKeeps ==
    ASSUME RuntimeInv, NEW c \in Calls, Return(c)
    PROVE  RuntimeInv'
<1> DEFINE k == call[c]
           u == used[c]
           d == [k EXCEPT !.attempt = 0, !.budget = 0]
           o == [k.out EXCEPT !.attempts = k.attempt + 1]
<1>1. /\ k.phase = "up" /\ k.phase \in Active /\ AtRetry(k, stack)
      /\ k.pos = Len(stack) - 1 /\ k.home = 1 /\ k.out \in Outcome
      /\ u.tries = k.attempt + 1
  BY AtRetryFacts DEF Return
<1>2. /\ stack \in Stacks /\ Stacked(stack) /\ stack # <<>> /\ k \in CallRecord(stack)
      /\ u \in Count /\ Placed(k, stack) /\ Gated(k, u, stack) /\ Charged(k, u, stack)
      /\ k.pos \in 1 .. Len(stack) /\ Len(stack) \in Nat
  BY <1>1, OnItsWay
<1>3. /\ d \in CallRecord(stack) /\ d.pos = k.pos /\ d.home = k.home /\ d.attempt = 0
      /\ d.budget = 0 /\ d.timeout = k.timeout /\ d.phase = k.phase /\ d.tool = k.tool
  <2>1. 0 \in 0 .. MaxRetries /\ 0 \in Nat
    BY Parameters
  <2> QED
    BY <1>2, <2>1 DEF CallRecord
<1>4. /\ o \in Outcome /\ o.attempts = u.tries /\ o.error = k.out.error
      /\ o.from_cache = k.out.from_cache /\ u.tries # 0
  <2>1. k.attempt + 1 \in Nat /\ k.attempt + 1 # 0
    BY <1>2 DEF CallRecord
  <2> QED
    BY <1>1, <2>1 DEF Outcome
<1>5. Placed(d, stack)
  BY <1>2, <1>3 DEF Placed
<1>6. k.timeout \in Nat \cup {NoTimeout}
  BY <1>2 DEF CallRecord
<1>7. call' = [call EXCEPT ![c] = Up(d, o)] /\ UNCHANGED built /\ used' = used
  BY DEF Return, Becomes
<1>8. used' \in [Calls -> Count] /\ Shares' /\ earned \subseteq earned'
  BY Untouched DEF Return
<1> HIDE DEF d, o
<1>9. Expected(d, u, o, stack, earned)
  <2>1. Guarded(k.pos, stack) <=> Guarded(k.pos - 1, stack)
    BY <1>1, <1>2, GuardedAt DEF AtRetry
  <2>2. /\ u.admits = u.records + (IF d.home = 1 /\ Guarded(d.pos - 1, stack) THEN 1 ELSE 0)
        /\ u.admits <= 1 /\ (u.admits = 1 => Guarded(Len(stack), stack))
    BY <1>1, <1>2, <1>3, <2>1 DEF Gated, Within
  <2>3. ~(d.pos > d.home /\ stack[d.pos - 1] = "retry")
    <3>1. d.pos > d.home => d.pos - 1 \in 1 .. Len(stack) /\ d.pos - 1 # Len(stack) - 1
      BY <1>1, <1>2, <1>3
    <3> QED
      BY <1>2, <3>1 DEF Stacked
  <2>4. ~o.from_cache /\ (o.error = CircuitOpen => u.admits + u.tries = 0) /\ Skips(d, u, stack)
    BY <1>1, <1>2, <1>3, <1>4 DEF Charged, Skips
  <2>5. o.attempts = Ran(u) /\ Retried(d, stack)
    BY <1>3, <1>4 DEF Ran, Retried
  <2>6. d.timeout # NoTimeout => d.budget <= d.timeout
    BY <1>3, <1>6
  <2> QED
    BY <2>2, <2>3, <2>4, <2>5, <2>6 DEF Expected
<1>10. Up(d, o) \in CallRecord(stack) /\ Sound(Up(d, o), u, stack, earned)
  BY <1>2, <1>3, <1>4, <1>5, <1>9, UpSound
<1> QED
  BY <1>2, <1>7, <1>8, <1>10, OneCall

\* The retry layer backs off ...
LEMMA BackOffKeeps ==
    ASSUME RuntimeInv, NEW c \in Calls, NEW n \in 0 .. MaxDelay, BackOff(c, n)
    PROVE  RuntimeInv'
<1> DEFINE k == call[c]
           u == used[c]
           d == [k EXCEPT !.phase = "sleep", !.left = n]
<1>1. /\ k.phase = "up" /\ k.phase \in Active /\ AtRetry(k, stack)
      /\ k.pos = Len(stack) - 1 /\ k.home = 1 /\ k.out \in Outcome
      /\ u.tries = k.attempt + 1 /\ (u.admits = 1 => Within(k, stack))
  BY AtRetryFacts DEF BackOff
<1>2. /\ stack \in Stacks /\ Stacked(stack) /\ stack # <<>> /\ k \in CallRecord(stack) /\ u \in Count
      /\ Placed(k, stack) /\ Gated(k, u, stack) /\ Tried(k, u, stack) /\ Timed(k, stack)
      /\ Charged(k, u, stack) /\ k.pos \in 1 .. Len(stack)
  BY <1>1, OnItsWay
<1>3. /\ d \in CallRecord(stack) /\ d.phase = "sleep" /\ d.pos = k.pos /\ d.home = k.home
      /\ d.attempt = k.attempt /\ d.budget = k.budget /\ d.timeout = k.timeout /\ d.tool = k.tool
      /\ d.out = k.out
  BY <1>2 DEF CallRecord
<1>4. ~GivesUp(k) /\ k.attempt \in Nat
  BY <1>2 DEF BackOff, CallRecord
<1>5. k.attempt < MaxRetries /\ ~(k.timeout # NoTimeout /\ k.budget = 0)
  BY <1>2, <1>4, Parameters DEF GivesUp
<1>6. call' = [call EXCEPT ![c] = d] /\ UNCHANGED built /\ used' = used
  BY DEF BackOff, Becomes
<1>7. used' \in [Calls -> Count] /\ Shares' /\ earned \subseteq earned'
  BY Untouched DEF BackOff
<1> HIDE DEF d
<1>8. Placed(d, stack)
  BY <1>1, <1>2, <1>3 DEF Placed, AtRetry
<1>9. Gated(d, u, stack)
  <2>1. Guarded(k.pos, stack) <=> Guarded(k.pos - 1, stack)
    BY <1>1, <1>2, GuardedAt DEF AtRetry
  <2>2. Within(d, stack) <=> Within(k, stack)
    BY <1>1, <1>3, <2>1 DEF Within
  <2>3. u.admits \in Nat
    BY <1>2 DEF Count
  <2>4. ~Within(d, stack) => u.admits = 0
    BY <1>1, <1>2, <2>2, <2>3 DEF Gated
  <2> QED
    BY <1>2, <1>3, <2>2, <2>4 DEF Gated
<1>10. Tried(d, u, stack)
  BY <1>1, <1>2, <1>3, <1>5 DEF Tried, AtRetry, Retried
<1>11. Timed(d, stack)
  BY <1>1, <1>2, <1>3, <1>5 DEF Timed, AtRetry
<1>12. Charged(d, u, stack)
  BY <1>2, <1>3 DEF Charged, Skips
<1>13. Sound(d, u, stack, earned)
  BY <1>3, <1>8, <1>9, <1>10, <1>11, <1>12 DEF Sound
<1> QED
  BY <1>2, <1>3, <1>6, <1>7, <1>13, OneCall

\* ... and tries again.
LEMMA WakeUpKeeps ==
    ASSUME RuntimeInv, NEW c \in Calls, WakeUp(c)
    PROVE  RuntimeInv'
<1> DEFINE k == call[c]
           u == used[c]
           d == [Down(k) EXCEPT !.attempt = @ + 1, !.out = Ok]
<1>1. k.phase = "sleep" /\ k.phase \in Active
  BY DEF WakeUp, Active
<1>2. /\ stack \in Stacks /\ Stacked(stack) /\ stack # <<>> /\ k \in CallRecord(stack) /\ u \in Count
      /\ Placed(k, stack) /\ Gated(k, u, stack) /\ Tried(k, u, stack) /\ Timed(k, stack)
      /\ Charged(k, u, stack) /\ Len(stack) \in Nat \ {0} /\ k.pos \in 1 .. Len(stack)
      /\ k.home \in {1, Len(stack)} /\ k.home <= k.pos /\ stack[Len(stack)] = "server"
      /\ k.tool \in Tools
  BY <1>1, OnItsWay
<1>3. /\ stack[k.pos] = "retry" /\ k.pos = Len(stack) - 1 /\ k.home = 1 /\ Len(stack) > 1
      /\ k.attempt < MaxRetries /\ u.tries = k.attempt + 1
  <2>1. stack[k.pos] = "retry" /\ k.attempt < MaxRetries /\ u.tries = k.attempt + 1
    BY <1>1, <1>2 DEF Placed, Tried
  <2>2. k.pos = Len(stack) - 1
    BY <1>2, <2>1 DEF Stacked
  <2>3. Len(stack) > 1 /\ k.home = 1
    <3>1. Len(stack) - 1 >= 1 /\ Len(stack) \in Nat
      BY <1>2, <2>2
    <3>2. Len(stack) > 1 /\ ~(Len(stack) <= Len(stack) - 1)
      BY <3>1
    <3> QED
      BY <1>2, <2>2, <3>2
  <2> QED
    BY <2>1, <2>2, <2>3
<1>4. /\ d \in CallRecord(stack) /\ d.phase = "down" /\ d.pos = Len(stack) /\ d.home = 1
      /\ d.attempt = k.attempt + 1 /\ d.budget = k.budget /\ d.timeout = k.timeout
      /\ d.tool = k.tool /\ d.out = Ok
  <2>1. k.attempt + 1 \in 0 .. MaxRetries /\ k.pos + 1 = Len(stack) /\ Len(stack) \in 0 .. Len(stack)
    BY <1>2, <1>3, Parameters DEF CallRecord
  <2> QED
    BY <1>2, <1>3, <2>1, Outcomes DEF CallRecord, Down
<1>5. call' = [call EXCEPT ![c] = d] /\ UNCHANGED built /\ used' = used
  BY DEF WakeUp, Becomes
<1>6. used' \in [Calls -> Count] /\ Shares' /\ earned \subseteq earned'
  BY Untouched DEF WakeUp
<1> HIDE DEF d
<1>7. Placed(d, stack)
  BY <1>2, <1>3, <1>4 DEF Placed
<1>8. Gated(d, u, stack)
  <2>1. Guarded(k.pos, stack) <=> Guarded(k.pos - 1, stack)
    BY <1>2, <1>3, GuardedAt
  <2>2. Within(d, stack) <=> Within(k, stack)
    BY <1>1, <1>3, <1>4, <2>1 DEF Within
  <2> QED
    BY <1>1, <1>2, <1>4, <2>2 DEF Gated
<1>9. Tried(d, u, stack)
  BY <1>2, <1>3, <1>4 DEF Tried, AtRetry, Retried
<1>10. Timed(d, stack)
  BY <1>2, <1>4 DEF Timed, AtRetry
<1>11. Charged(d, u, stack)
  BY <1>2, <1>3, <1>4, Outcomes DEF Charged, Skips
<1>12. Sound(d, u, stack, earned)
  BY <1>4, <1>7, <1>8, <1>9, <1>10, <1>11 DEF Sound
<1> QED
  BY <1>2, <1>4, <1>5, <1>6, <1>12, OneCall

\* A number above 1 is not 1.
LEMMA MoreThanOne == \A n \in Nat : n > 1 => n # 1
  OBVIOUS

\* What the server side answers, the attempt having been counted.
LEMMA ServerExpected ==
    ASSUME RuntimeInv, NEW c \in Calls, call[c].phase \in {"down", "running"},
           call[c].pos = Len(stack),
           NEW v \in Count, v.slots = used[c].slots, v.admits = used[c].admits,
           v.records = used[c].records, v.tries = call[c].attempt + 1,
           NEW o \in Outcome, o.attempts = 1, ~o.from_cache, o.error # CircuitOpen,
           o.error = TimedOut => call[c].timeout # NoTimeout /\ call[c].budget = 0
    PROVE  Expected(call[c], v, o, stack, earned)
<1> DEFINE k == call[c]
           u == used[c]
<1>1. k.phase \in Active /\ k.phase # "up"
  BY DEF Active
<1>2. /\ k \in CallRecord(stack) /\ Gated(k, u, stack) /\ Tried(k, u, stack) /\ Timed(k, stack)
      /\ Charged(k, u, stack) /\ Len(stack) \in Nat \ {0} /\ k.home \in {1, Len(stack)}
  BY <1>1, OnItsWay
<1>3. k.attempt \in Nat
  BY <1>2 DEF CallRecord
<1>4. /\ v.admits = v.records + (IF k.home = 1 /\ Guarded(k.pos - 1, stack) THEN 1 ELSE 0)
      /\ v.admits <= 1 /\ (v.admits = 1 => Guarded(Len(stack), stack))
  BY <1>1, <1>2 DEF Gated, Within
<1>5. ASSUME ~(k.pos > k.home /\ stack[k.pos - 1] = "retry") PROVE v.tries = 1
  BY <1>2, <1>3, <1>5 DEF Tried, Retried
<1>6. Skips(k, v, stack)
  <2> SUFFICES ASSUME k.home = Len(stack), Len(stack) > 1
               PROVE  v.slots + v.admits = 0 /\ v.tries <= 1
    BY DEF Skips
  <2>1. k.attempt = 0
    <3>1. Len(stack) # 1
      BY <1>2, MoreThanOne
    <3>2. ~(k.attempt > 0)
      BY <1>2, <3>1 DEF Tried, Retried
    <3> QED
      BY <1>3, <3>2
  <2> QED
    BY <1>2, <2>1 DEF Charged, Skips
<1>7. Retried(k, stack) /\ (k.timeout # NoTimeout => k.budget <= k.timeout)
  BY <1>2 DEF Tried, Timed
<1> QED
  BY <1>4, <1>5, <1>6, <1>7 DEF Expected, Ran

\* Nothing is connected for the tool.
LEMMA UnroutedKeeps ==
    ASSUME RuntimeInv, NEW c \in Calls, Unrouted(c)
    PROVE  RuntimeInv'
<1> DEFINE k == call[c]
           v == [used[c] EXCEPT !["tries"] = @ + 1]
           o == Err(NoServer)
<1>1. k.phase = "down" /\ stack[k.pos] = "server" /\ k.phase \in Active
  BY DEF Unrouted, Enters, Active
<1>2. /\ used[c] \in Count /\ Tried(k, used[c], stack) /\ Stacked(stack) /\ stack # <<>>
      /\ k.pos \in 1 .. Len(stack)
  BY <1>1, OnItsWay
<1>3. k.pos = Len(stack)
  BY <1>1, <1>2 DEF Stacked
<1>4. /\ used' \in [Calls -> Count] /\ used'[c] = v /\ v \in Count
      /\ \A d \in Calls \ {c} : used'[d] = used[d]
  BY Counted DEF Unrouted, RuntimeInv
<1>5. /\ v.slots = used[c].slots /\ v.admits = used[c].admits /\ v.records = used[c].records
      /\ v.tries = k.attempt + 1
  BY <1>1, <1>2 DEF Count, Tried
<1>6. /\ o \in Outcome /\ o.attempts = 1 /\ ~o.from_cache /\ o.error # CircuitOpen
      /\ o.error # TimedOut
  BY Outcomes
<1>7. UNCHANGED built /\ Becomes(c, Up(k, o)) /\ Shares' /\ earned \subseteq earned'
  BY Untouched DEF Unrouted
<1> HIDE DEF v, o
<1>8. Expected(k, v, o, stack, earned)
  BY <1>1, <1>3, <1>4, <1>5, <1>6, ServerExpected
<1> QED
  BY <1>1, <1>4, <1>6, <1>7, <1>8, UpStep

\* The request goes out to a server.
LEMMA SendKeeps ==
    ASSUME RuntimeInv, NEW c \in Calls, Send(c)
    PROVE  RuntimeInv'
<1> DEFINE k == call[c]
           u == used[c]
           v == [u EXCEPT !["tries"] = @ + 1]
           d == [k EXCEPT !.phase = "running", !.spent = 0]
<1>1. k.phase = "down" /\ stack[k.pos] = "server" /\ k.phase \in Active
  BY DEF Send, Enters, Active
<1>2. /\ k \in CallRecord(stack) /\ u \in Count /\ Stacked(stack) /\ stack # <<>>
      /\ Placed(k, stack) /\ Gated(k, u, stack) /\ Tried(k, u, stack) /\ Timed(k, stack)
      /\ Charged(k, u, stack) /\ k.pos \in 1 .. Len(stack) /\ Len(stack) \in Nat \ {0}
      /\ k.home \in {1, Len(stack)}
  BY <1>1, OnItsWay
<1>3. k.pos = Len(stack)
  BY <1>1, <1>2 DEF Stacked
<1>4. /\ used' \in [Calls -> Count] /\ used'[c] = v /\ v \in Count
      /\ \A b \in Calls \ {c} : used'[b] = used[b]
  BY Counted DEF Send, RuntimeInv
<1>5. /\ v.slots = u.slots /\ v.admits = u.admits /\ v.records = u.records
      /\ v.tries = k.attempt + 1 /\ k.attempt \in Nat /\ k.budget \in Nat
  BY <1>1, <1>2 DEF Count, Tried, CallRecord
<1>6. /\ d \in CallRecord(stack) /\ d.phase = "running" /\ d.pos = k.pos /\ d.home = k.home
      /\ d.attempt = k.attempt /\ d.budget = k.budget /\ d.timeout = k.timeout /\ d.tool = k.tool
      /\ d.out = k.out /\ d.spent = 0
  BY <1>2 DEF CallRecord
<1>7. /\ UNCHANGED built /\ call' = [call EXCEPT ![c] = d] /\ Shares' /\ earned \subseteq earned'
  BY Untouched DEF Send, Becomes
<1> HIDE DEF v, d
<1>8. Placed(d, stack)
  BY <1>2, <1>3, <1>6 DEF Placed
<1>9. Gated(d, v, stack)
  <2>1. Within(d, stack) <=> Within(k, stack)
    BY <1>1, <1>6 DEF Within
  <2> QED
    BY <1>1, <1>2, <1>5, <1>6, <2>1 DEF Gated
<1>10. Tried(d, v, stack)
  BY <1>2, <1>5, <1>6 DEF Tried, AtRetry, Retried
<1>11. Timed(d, stack)
  BY <1>2, <1>5, <1>6 DEF Timed, AtRetry
<1>12. Charged(d, v, stack)
  <2>1. Skips(d, v, stack)
    <3> SUFFICES ASSUME k.home = Len(stack), Len(stack) > 1
                 PROVE  v.slots + v.admits = 0 /\ v.tries <= 1
      BY <1>6 DEF Skips
    <3>1. k.attempt = 0
      <4>1. Len(stack) # 1
        BY <1>2, MoreThanOne
      <4>2. ~(k.attempt > 0)
        BY <1>2, <4>1 DEF Tried, Retried
      <4> QED
        BY <1>5, <4>2
    <3> QED
      BY <1>2, <1>5, <3>1 DEF Charged, Skips
  <2> QED
    BY <1>2, <1>6, <2>1 DEF Charged
<1>13. Sound(d, v, stack, earned)
  BY <1>6, <1>8, <1>9, <1>10, <1>11, <1>12 DEF Sound
<1> QED
  BY <1>2, <1>4, <1>6, <1>7, <1>13, OneCall

\* A running call: the last attempt is counted.
LEMMA RunningFacts ==
    ASSUME RuntimeInv, NEW c \in Calls, call[c].phase = "running"
    PROVE  LET k == call[c]
           IN  /\ k.phase \in Active /\ k.pos = Len(stack) /\ used[c] \in Count
               /\ used[c].tries = k.attempt + 1
               /\ k.budget \in Nat /\ k.spent \in Nat /\ k.timeout \in Nat \cup {NoTimeout}
               /\ k.timeout # NoTimeout => k.budget + k.spent <= k.timeout
<1>1. call[c].phase \in Active
  BY DEF Active
<1>2. /\ call[c] \in CallRecord(stack) /\ used[c] \in Count
      /\ Placed(call[c], stack) /\ Tried(call[c], used[c], stack) /\ Timed(call[c], stack)
  BY <1>1, OnItsWay
<1> QED
  BY <1>1, <1>2 DEF Placed, Tried, Timed, CallRecord

\* It answers.
LEMMA AnswerKeeps ==
    ASSUME RuntimeInv, NEW c \in Calls, NEW o \in {Ok} \cup {Err(m) : m \in ToolErrors}, Answer(c, o)
    PROVE  RuntimeInv'
<1>1. call[c].phase = "running" /\ UNCHANGED built /\ Becomes(c, Up(call[c], o)) /\ used' = used
  BY DEF Answer
<1>2. /\ call[c].phase \in Active /\ call[c].pos = Len(stack) /\ used[c] \in Count
      /\ used[c].tries = call[c].attempt + 1
  BY <1>1, RunningFacts
<1>3. /\ o \in Outcome /\ o.attempts = 1 /\ ~o.from_cache /\ o.error # CircuitOpen
      /\ o.error # TimedOut
  BY Outcomes
<1>4. used' \in [Calls -> Count] /\ Shares' /\ earned \subseteq earned'
  BY Untouched DEF Answer
<1>5. Expected(call[c], used[c], o, stack, earned)
  BY <1>1, <1>2, <1>3, ServerExpected
<1> QED
  BY <1>1, <1>2, <1>3, <1>4, <1>5, UpStep

\* It runs into its timeout: nothing is left of the deadline then.
LEMMA TimeOutKeeps ==
    ASSUME RuntimeInv, NEW c \in Calls, TimeOut(c)
    PROVE  RuntimeInv'
<1> DEFINE k == call[c]
           o == Err(TimedOut)
<1>1. /\ k.phase = "running" /\ UNCHANGED built /\ Becomes(c, Up(k, o)) /\ used' = used
      /\ k.timeout # NoTimeout /\ k.spent >= k.timeout
  BY DEF TimeOut
<1>2. /\ k.phase \in Active /\ k.pos = Len(stack) /\ used[c] \in Count
      /\ used[c].tries = k.attempt + 1 /\ k.budget \in Nat /\ k.spent \in Nat
      /\ k.timeout \in Nat \cup {NoTimeout}
      /\ k.timeout # NoTimeout => k.budget + k.spent <= k.timeout
  BY <1>1, RunningFacts
<1>3. k.budget = 0
  BY <1>1, <1>2
<1>4. /\ o \in Outcome /\ o.attempts = 1 /\ ~o.from_cache /\ o.error # CircuitOpen
  BY Outcomes
<1>5. used' \in [Calls -> Count] /\ Shares' /\ earned \subseteq earned'
  BY Untouched DEF TimeOut
<1> HIDE DEF o
<1>6. Expected(k, used[c], o, stack, earned)
  BY <1>1, <1>2, <1>3, <1>4, ServerExpected
<1> QED
  BY <1>1, <1>2, <1>4, <1>5, <1>6, UpStep

\* The future of a call is dropped: what it has used stays used.
LEMMA DropKeeps ==
    ASSUME RuntimeInv, NEW c \in Calls, Drop(c)
    PROVE  RuntimeInv'
<1> DEFINE d == [NoCall EXCEPT !.phase = "dropped"]
<1>1. call[c].phase \in Active
  BY DEF Drop, Enters, Active
<1>2. stack \in Stacks /\ stack # <<>> /\ used[c] \in Count /\ Gated(call[c], used[c], stack)
  BY <1>1, OnItsWay
<1>3. d \in CallRecord(stack) /\ d.phase = "dropped"
  BY <1>2, NoCallType DEF NoCall
<1>4. used[c].records <= used[c].admits /\ used[c].admits <= 1
  BY <1>2 DEF Gated, Count
<1>5. UNCHANGED built /\ call' = [call EXCEPT ![c] = d] /\ used' = used
  BY DEF Drop, Becomes
<1>6. used' \in [Calls -> Count] /\ Shares' /\ earned \subseteq earned'
  BY Untouched DEF Drop
<1> HIDE DEF d
<1>7. Sound(d, used[c], stack, earned)
  BY <1>3, <1>4 DEF Sound, Active
<1> QED
  BY <1>2, <1>3, <1>5, <1>6, <1>7, OneCall

\* What a unit of time does to a call.
LEMMA OlderFields ==
    ASSUME NEW s, NEW k \in CallRecord(s)
    PROVE  LET d == Older(k)
           IN  /\ d \in CallRecord(s) /\ d.phase = k.phase /\ d.pos = k.pos /\ d.home = k.home
               /\ d.attempt = k.attempt /\ d.timeout = k.timeout /\ d.tool = k.tool
               /\ d.out = k.out /\ d.budget = Less(k.budget) /\ d.left = Less(k.left)
               /\ d.spent = (IF k.phase = "running" /\ k.timeout # NoTimeout
                              THEN k.spent + 1 ELSE k.spent)
               /\ d.waited = (IF Awaits(k) /\ k.timeout # NoTimeout
                               THEN k.waited + 1 ELSE k.waited)
<1>1. /\ k.budget \in Nat /\ k.spent \in Nat /\ k.waited \in Nat
      /\ k.left \in 0 .. MaxDelay /\ MaxDelay \in Nat
  BY Parameters DEF CallRecord
<1>2. Less(k.budget) \in Nat /\ Less(k.left) \in 0 .. MaxDelay
  BY <1>1 DEF Less
<1>3. k.spent + 1 \in Nat /\ k.waited + 1 \in Nat
  BY <1>1
<1> QED
  BY <1>1, <1>2, <1>3 DEF Older, CallRecord

\* A unit of time is as good as none for a call that has one left.
LEMMA OlderSound ==
    ASSUME NEW s, NEW e, NEW k \in CallRecord(s), NEW u, Sound(k, u, s, e),
           k.phase = "running" /\ k.timeout # NoTimeout => k.spent < k.timeout
    PROVE  Older(k) \in CallRecord(s) /\ Sound(Older(k), u, s, e) /\ Older(k).phase = k.phase
<1> DEFINE d == Older(k)
<1>1. /\ k.budget \in Nat /\ k.spent \in Nat /\ k.timeout \in Nat \cup {NoTimeout}
  BY DEF CallRecord
<1>2. /\ Less(k.budget) \in Nat /\ Less(k.budget) <= k.budget /\ (k.budget = 0 => Less(k.budget) = 0)
      /\ k.budget # 0 => Less(k.budget) + 1 = k.budget
  BY <1>1 DEF Less
<1>3. /\ d \in CallRecord(s) /\ d.phase = k.phase /\ d.pos = k.pos /\ d.home = k.home
      /\ d.attempt = k.attempt /\ d.timeout = k.timeout /\ d.tool = k.tool /\ d.out = k.out
      /\ d.budget = Less(k.budget)
      /\ d.spent = (IF k.phase = "running" /\ k.timeout # NoTimeout
                     THEN k.spent + 1 ELSE k.spent)
  BY OlderFields
<1>4. ASSUME k.phase = "new" PROVE d = k
  <2>1. k = NoCall
    BY <1>4 DEF Sound
  <2>2. /\ k.phase = "new" /\ k.left = 0 /\ k.budget = 0 /\ k.spent = 0 /\ k.waited = 0
        /\ ~Awaits(k) /\ Less(0) = 0
    BY <1>4, <2>1 DEF NoCall, Awaits, Less
  <2>3. d = [k EXCEPT !.spent = k.spent, !.left = k.left, !.budget = k.budget,
                      !.waited = k.waited]
    BY <2>2 DEF Older
  <2> QED
    BY <2>3 DEF CallRecord
<1> HIDE DEF d
<1>5. CASE k.phase \in Active
  <2>1. Placed(k, s) /\ Gated(k, u, s) /\ Tried(k, u, s) /\ Timed(k, s) /\ Charged(k, u, s)
    BY <1>5 DEF Sound
  <2>2. Placed(d, s) /\ Gated(d, u, s) /\ Tried(d, u, s) /\ Charged(d, u, s)
    BY <1>3, <2>1 DEF Placed, Gated, Within, Tried, AtRetry, Retried, Charged, Skips
  <2>3. d.timeout # NoTimeout => d.budget <= d.timeout
    BY <1>1, <1>2, <1>3, <2>1 DEF Timed
  <2>4. ASSUME k.phase = "running", k.timeout # NoTimeout PROVE d.budget + d.spent <= k.timeout
    <3>1. k.budget + k.spent <= k.timeout /\ k.spent < k.timeout /\ k.timeout \in Nat
      BY <1>1, <2>1, <2>4 DEF Timed
    <3>2. d.spent = k.spent + 1 /\ d.budget = Less(k.budget)
      BY <1>3, <2>4
    <3>3. CASE k.budget = 0
      BY <1>1, <1>2, <3>1, <3>2, <3>3
    <3>4. CASE k.budget # 0
      BY <1>1, <1>2, <3>1, <3>2, <3>4
    <3> QED
      BY <3>3, <3>4
  <2>5. Timed(d, s)
    BY <1>2, <1>3, <2>1, <2>3, <2>4 DEF Timed, AtRetry
  <2>6. Sound(d, u, s, e)
    BY <1>3, <1>5, <2>2, <2>5 DEF Sound, Active
  <2> QED
    BY <1>3, <2>6 DEF d
<1>6. CASE k.phase \notin Active
  <2>1. Sound(d, u, s, e)
    BY <1>3, <1>4, <1>6 DEF Sound, Settled, Skips
  <2> QED
    BY <1>3, <2>1 DEF d
<1> QED
  BY <1>5, <1>6

\* Time passes.
LEMMA TickKeeps ==
    ASSUME RuntimeInv, Tick
    PROVE  RuntimeInv'
<1>1. /\ layers \subseteq Layers /\ stack \in Stacks /\ Stacked(stack) /\ stack # <<>>
      /\ call \in [Calls -> CallRecord(stack)] /\ used \in [Calls -> Count] /\ Shares
      /\ \A c \in Calls : Sound(call[c], used[c], stack, earned)
  BY DEF RuntimeInv, Tick
<1>2. stack' = stack /\ layers' = layers /\ used' = used /\ earned' = earned
  BY DEF Tick, built
<1>3. ASSUME NEW c \in Calls
      PROVE  /\ call'[c] = Older(call[c]) /\ Older(call[c]) \in CallRecord(stack)
             /\ Sound(Older(call[c]), used[c], stack, earned)
  <2>1. call[c].phase = "running" /\ call[c].timeout # NoTimeout => call[c].spent < call[c].timeout
    BY DEF Tick
  <2>2. call'[c] = Older(call[c])
    BY DEF Tick
  <2> QED
    BY <1>1, <2>1, <2>2, OlderSound
<1>4. call' \in [Calls -> CallRecord(stack)]
  BY <1>3 DEF Tick
<1>5. ASSUME NEW c \in Calls PROVE Sound(call'[c], used'[c], stack', earned')
  BY <1>2, <1>3
<1>6. breakers' \in [Tools -> Breaker]
  <2>1. ASSUME NEW t \in Tools
        PROVE  (IF breakers[t].state = "Open" /\ breakers[t].opened_at < ResetTimeout
                THEN [breakers[t] EXCEPT !.opened_at = @ + 1] ELSE breakers[t]) \in Breaker
    <3>1. breakers[t] \in Breaker
      BY <1>1 DEF Shares
    <3>2. breakers[t].opened_at < ResetTimeout => breakers[t].opened_at + 1 \in NotOpened .. ResetTimeout
      BY <3>1, ThresholdAssumption DEF Breaker, NotOpened
    <3> QED
      BY <3>1, <3>2 DEF Breaker
  <2> QED
    BY <2>1 DEF Tick
<1>7. stamps' \in Seq(0 .. Period) /\ Len(stamps') <= Limit
  <2>1. /\ DOMAIN stamps = 1 .. Len(stamps) /\ Len(stamps) \in Nat /\ Period \in Nat
        /\ \A i \in 1 .. Len(stamps) : stamps[i] \in 0 .. Period
    BY <1>1, Parameters, LenProperties, ElementOfSeq DEF Shares
  <2>2. stamps' = [i \in 1 .. Len(stamps) |-> IF stamps[i] < Period THEN stamps[i] + 1 ELSE stamps[i]]
    BY <2>1 DEF Tick
  <2>3. \A i \in 1 .. Len(stamps) :
          (IF stamps[i] < Period THEN stamps[i] + 1 ELSE stamps[i]) \in 0 .. Period
    BY <2>1
  <2>4. stamps' \in [1 .. Len(stamps) -> 0 .. Period]
    BY <2>2, <2>3
  <2>5. stamps' \in Seq(0 .. Period) /\ Len(stamps') = Len(stamps)
    BY <2>1, <2>2, <2>4
  <2> QED
    BY <1>1, <2>5 DEF Shares
<1>8. ASSUME NEW t \in Tools
      PROVE  /\ store'[t] \in NotCached .. Ttl /\ store'[t] = Less(store[t])
             /\ store'[t] # NotCached => store[t] # NotCached
  <2>1. store[t] \in NotCached .. Ttl /\ store'[t] = Less(store[t])
    BY <1>1 DEF Shares, Tick
  <2> QED
    BY <2>1, Parameters DEF Less, NotCached
<1>9. store' \in [Tools -> NotCached .. Ttl]
  <2>1. store' = [t \in Tools |-> Less(store[t])]
    BY DEF Tick
  <2> QED
    BY <1>8, <2>1
<1>10. Shares'
  BY <1>1, <1>2, <1>6, <1>7, <1>8, <1>9 DEF Shares
<1> QED
  BY <1>1, <1>2, <1>4, <1>5, <1>10 DEF RuntimeInv

\* A runtime is configured and built, before any call.
LEMMA BuildKeeps ==
    ASSUME RuntimeInv,
           (\E l \in Layers : With(l)) \/ Build \/ (\E given \in SUBSET Layers : BuildRuntime(given))
    PROVE  RuntimeInv'
<1>1. /\ stack = <<>> /\ layers \subseteq Layers /\ UNCHANGED <<call, used, shared>>
      /\ layers' \subseteq Layers
      /\ stack' = <<>> \/ \E given \in SUBSET Layers : stack' = Append(Wrap(given), "server")
  BY DEF RuntimeInv, With, Build, BuildRuntime
<1>2. stack' \in Stacks /\ Stacked(stack') /\ (stack' = <<>> => stack' = stack)
  <2>1. CASE stack' = <<>>
    BY <1>1, <2>1 DEF RuntimeInv
  <2>2. CASE stack' # <<>>
    <3>1. PICK given \in SUBSET Layers : stack' = Append(Wrap(given), "server")
      BY <1>1, <2>2
    <3> QED
      BY <2>2, <3>1, WrapStacks
  <2> QED
    BY <2>1, <2>2
<1>3. ASSUME NEW c \in Calls
      PROVE  /\ call'[c].phase = "new" /\ call'[c] \in CallRecord(stack')
             /\ Sound(call'[c], used'[c], stack', earned')
  <2>1. call'[c] = call[c] /\ used'[c] = used[c] /\ call[c].phase = "new"
    BY <1>1 DEF RuntimeInv
  <2>2. call[c] = NoCall /\ used[c] = Nothing
    BY <2>1 DEF RuntimeInv, Sound
  <2>3. NoCall \in CallRecord(stack')
    BY <1>2, NoCallType
  <2> QED
    BY <2>1, <2>2, <2>3 DEF Sound, Active
<1>4. call' \in [Calls -> CallRecord(stack')]
  BY <1>1, <1>3 DEF RuntimeInv
<1>5. used' \in [Calls -> Count] /\ Shares'
  BY <1>1, Untouched DEF RuntimeInv, Shares, shared
<1> QED
  BY <1>1, <1>2, <1>3, <1>4, <1>5 DEF RuntimeInv

\* The invariant holds in every state of every runtime.
LEMMA RuntimeInvariant == Spec => []RuntimeInv
<1>1. Init => RuntimeInv
  <2> SUFFICES ASSUME Init PROVE RuntimeInv
    OBVIOUS
  <2>1. layers \subseteq Layers /\ stack \in Stacks /\ Stacked(stack)
    BY EmptySeq DEF Init, Stacks, Stacked
  <2>2. call \in [Calls -> CallRecord(stack)] /\ used \in [Calls -> Count]
    BY <2>1, NoCallType DEF Init, Nothing
  <2>3. Shares
    <3>1. NewBreaker \in Breaker
      BY ThresholdAssumption, CapAssumption DEF NewBreaker, Breaker, CircuitState, NotOpened
    <3>2. NotCached \in NotCached .. Ttl /\ <<>> \in Seq(0 .. Period) /\ Len(<<>>) <= Limit
      BY Parameters, EmptySeq DEF NotCached
    <3> QED
      BY <3>1, <3>2 DEF Init, Shares
  <2>4. \A c \in Calls : call[c] = NoCall /\ used[c] = Nothing /\ call[c].phase = "new"
    BY DEF Init, NoCall, Nothing
  <2>5. \A c \in Calls : Sound(call[c], used[c], stack, earned)
    BY <2>4 DEF Sound, Active
  <2> QED
    BY <2>1, <2>2, <2>3, <2>4, <2>5 DEF RuntimeInv
<1>2. RuntimeInv /\ [Next]_vars => RuntimeInv'
  <2> SUFFICES ASSUME RuntimeInv, [Next]_vars PROVE RuntimeInv'
    OBVIOUS
  <2>1. ASSUME NEW c \in Calls, Layer(c) PROVE RuntimeInv'
    <3>1. CASE Hit(c) \/ Miss(c) \/ Fill(c) \/ Pass(c) \/ PassBack(c)
      BY <3>1, HitKeeps, MissKeeps, FillKeeps, PassKeeps, PassBackKeeps
    <3>2. CASE Admit(c) \/ Reject(c) \/ Record(c) \/ Start(c) \/ Return(c) \/ WakeUp(c)
      BY <3>2, AdmitKeeps, RejectKeeps, RecordKeeps, StartKeeps, ReturnKeeps, WakeUpKeeps
    <3>3. CASE \E d \in 0 .. MaxDelay : BackOff(c, d)
      BY <3>3, BackOffKeeps
    <3>4. CASE Unrouted(c) \/ Send(c) \/ TimeOut(c)
      BY <3>4, UnroutedKeeps, SendKeeps, TimeOutKeeps
    <3> QED
      BY <2>1, <3>1, <3>2, <3>3, <3>4 DEF Layer
  <2>2. CASE UNCHANGED vars
    BY <2>2 DEF vars, RuntimeInv, Shares
  <2> QED
    BY <2>1, <2>2, BuildKeeps, CallKeeps, DropKeeps, AnswerKeeps, TickKeeps DEF Next
<1> QED
  BY <1>1, <1>2, PTL DEF Spec

-----------------------------------------------------------------------------
(* The properties.                                                         *)

\* Type correctness of the assembled runtime: in every stack, however calls go
\* through it, every variable keeps its type, and a call its place in the stack.
THEOREM RuntimeTypeCorrect == Spec => []RuntimeTypeOK
  BY RuntimeInvariant, InvariantTypes, PTL

\* A call that is answered is settled.
LEMMA AnsweredFacts ==
    ASSUME RuntimeInv, NEW c \in Answered
    PROVE  Settled(call[c], used[c], stack, earned) /\ c \in Calls
  BY DEF RuntimeInv, Sound, Answered

\* "a fully-retried failure counts once" (lib.rs:179): however many retries a
\* call makes, the breaker lets it in and hears of it at most once, and hears of
\* every call it let in that was answered.
THEOREM FailureCountsOnceHolds == Spec => []FailureCountsOnce
<1>1. RuntimeInv => FailureCountsOnce
  <2> SUFFICES ASSUME RuntimeInv, NEW c \in Calls
               PROVE  /\ used[c].admits <= 1 /\ used[c].records <= used[c].admits
                      /\ c \in Answered => used[c].records = used[c].admits
    BY DEF FailureCountsOnce
  <2>1. call[c] \in CallRecord(stack) /\ used[c] \in Count /\ Sound(call[c], used[c], stack, earned)
    BY DEF RuntimeInv
  <2>2. CASE call[c].phase \in Active
    <3>1. Gated(call[c], used[c], stack) /\ c \notin Answered
      BY <2>1, <2>2 DEF Sound, Active, Answered
    <3> QED
      BY <2>1, <3>1 DEF Gated, Count
  <2>3. CASE call[c].phase \in {"done", "dropped"}
    BY <2>1, <2>3 DEF Sound, Settled, Count, Answered
  <2>4. CASE call[c].phase = "new"
    BY <2>1, <2>4 DEF Sound, Nothing, Answered
  <2> QED
    BY <2>1, <2>2, <2>3, <2>4 DEF CallRecord, Active
<1> QED
  BY <1>1, RuntimeInvariant, PTL

\* A call answered from the cache took no slot, reached no breaker and no tool,
\* and its tool has succeeded before; one a breaker turned away reached no tool;
\* a pinned one met no layer at all (lib.rs:77-80, 140-141).
THEOREM ShortCircuitsHolds == Spec => []ShortCircuits
<1>1. RuntimeInv => ShortCircuits
  BY AnsweredFacts DEF ShortCircuits, Settled, Skips, Pinned
<1> QED
  BY <1>1, RuntimeInvariant, PTL

\* Through whatever layers an answer came, it reports how often the server side
\* was called for it, or 1 when it never was (outcome.rs:21).
THEOREM ReportsWhatRanHolds == Spec => []ReportsWhatRan
<1>1. RuntimeInv => ReportsWhatRan
  BY AnsweredFacts DEF ReportsWhatRan, Settled, Ran
<1> QED
  BY <1>1, RuntimeInvariant, PTL

\* An attempt that ran into the timeout is the last one (mcp lib.rs:79,
\* retry.rs:36-57): no call sleeps after one.
THEOREM TimedOutIsFinalHolds == Spec => []TimedOutIsFinal
<1>1. RuntimeInv => TimedOutIsFinal
  <2> SUFFICES ASSUME RuntimeInv, NEW c \in Calls, call[c].phase = "sleep"
               PROVE  call[c].out.error # TimedOut
    BY DEF TimedOutIsFinal
  <2>1. call[c].phase \in Active
    BY DEF Active
  <2> QED
    BY <2>1, OnItsWay DEF Timed
<1> QED
  BY <1>1, RuntimeInvariant, PTL

\* A retry layer is on the way of a call.
OnRetry(k, s) == \E i \in k.home .. Len(s) : s[i] = "retry"

\* How long a call has waited, while it is on its way: what is left of its
\* deadline it has not waited, no attempt starts after the deadline, and an
\* attempt takes its timeout at most.  Above the server it has not waited at all.
Waits(k, s) ==
    k.phase \in Active /\ k.timeout # NoTimeout =>
        /\ k.budget # 0 => k.waited + k.budget <= k.timeout
        /\ k.phase = "down" => k.waited <= k.timeout
        /\ k.phase = "down" /\ s[k.pos] # "server" => k.waited = 0
        /\ k.phase = "sleep" => k.waited + k.left <= k.timeout
        /\ k.phase = "running" => k.waited <= k.timeout + k.spent
        /\ k.waited <= k.timeout + k.timeout
        /\ ~OnRetry(k, s) => /\ k.waited <= k.timeout
                             /\ k.phase = "down" => k.waited = 0
                             /\ k.phase = "running" => k.waited = k.spent

\* One that goes up has waited as long as when its layer had its outcome.
LEMMA UpWaits ==
    ASSUME NEW s, NEW k \in CallRecord(s), NEW o, k.phase \in Active, Waits(k, s)
    PROVE  Waits(Up(k, o), s)
<1>1. CASE k.pos = k.home
  BY <1>1 DEF Up, NoCall, Waits, Active
<1>2. CASE k.pos # k.home
  <2> DEFINE d == Up(k, o)
  <2>1. /\ d.phase = "up" /\ d.home = k.home /\ d.timeout = k.timeout
        /\ d.budget = k.budget /\ d.waited = k.waited
    BY <1>2 DEF Up, CallRecord
  <2> HIDE DEF d
  <2>2. Waits(d, s)
    BY <2>1 DEF Waits, OnRetry, Active
  <2> QED
    BY <2>2 DEF d
<1> QED
  BY <1>1, <1>2

\* So has one that goes down from a layer above the server.
LEMMA DownWaits ==
    ASSUME NEW s, NEW k \in CallRecord(s), k.phase = "down", s[k.pos] # "server", Waits(k, s)
    PROVE  Waits(Down(k), s)
<1> DEFINE d == Down(k)
<1>1. /\ d.phase = "down" /\ d.home = k.home /\ d.timeout = k.timeout
      /\ d.budget = k.budget /\ d.waited = k.waited
  BY DEF Down, CallRecord
<1>2. k.timeout # NoTimeout => k.waited = 0
  BY DEF Waits, Active
<1> HIDE DEF d
<1>3. Waits(d, s)
  BY <1>1, <1>2 DEF Waits, OnRetry, Active
<1> QED
  BY <1>3 DEF d

\* A unit of time is waited for a server, or on a backoff, if at all.
LEMMA OlderWaits ==
    ASSUME NEW s, NEW k \in CallRecord(s), Waits(k, s),
           k.phase = "running" /\ k.timeout # NoTimeout => k.spent < k.timeout,
           k.phase = "running" /\ k.timeout # NoTimeout => k.budget + k.spent <= k.timeout
    PROVE  Waits(Older(k), s)
<1> DEFINE d == Older(k)
<1>1. /\ k.budget \in Nat /\ k.spent \in Nat /\ k.left \in Nat /\ k.waited \in Nat
      /\ k.timeout # NoTimeout => k.timeout \in Nat
  BY Parameters DEF CallRecord
<1>2. /\ d.phase = k.phase /\ d.home = k.home /\ d.pos = k.pos /\ d.timeout = k.timeout
      /\ d.budget = Less(k.budget) /\ d.left = Less(k.left)
      /\ d.spent = (IF k.phase = "running" /\ k.timeout # NoTimeout
                    THEN k.spent + 1 ELSE k.spent)
      /\ d.waited = (IF Awaits(k) /\ k.timeout # NoTimeout THEN k.waited + 1 ELSE k.waited)
  BY OlderFields
<1>3. OnRetry(d, s) <=> OnRetry(k, s)
  BY <1>2 DEF OnRetry
<1>0. /\ Less(k.budget) \in Nat /\ Less(k.budget) <= k.budget
      /\ Less(k.budget) # 0 => k.budget # 0 /\ Less(k.budget) + 1 = k.budget
  BY <1>1 DEF Less
<1> SUFFICES Waits(d, s)
  OBVIOUS
<1> HIDE DEF d
<1>4. CASE k.timeout = NoTimeout \/ k.phase \notin Active
  BY <1>2, <1>4 DEF Waits
<1>5. CASE k.timeout # NoTimeout /\ k.phase = "running"
  <2>1. d.waited = k.waited + 1 /\ d.spent = k.spent + 1 /\ d.phase = "running"
    BY <1>2, <1>5 DEF Awaits
  <2>2. /\ k.waited <= k.timeout + k.spent /\ k.spent < k.timeout
        /\ k.budget # 0 => k.waited + k.budget <= k.timeout
        /\ ~OnRetry(k, s) => k.waited = k.spent
    BY <1>5 DEF Waits, Active
  <2>3. d.budget # 0 => d.waited + d.budget <= k.timeout
    BY <1>0, <1>1, <1>2, <1>5, <2>1, <2>2
  <2>4. d.waited <= k.timeout + d.spent /\ d.waited <= k.timeout + k.timeout
    BY <1>1, <1>5, <2>1, <2>2
  <2>5. ~OnRetry(k, s) => d.waited <= k.timeout /\ d.waited = d.spent
    BY <1>1, <1>5, <2>1, <2>2
  <2> QED
    BY <1>2, <1>3, <1>5, <2>1, <2>3, <2>4, <2>5 DEF Waits
<1>6. CASE k.timeout # NoTimeout /\ k.phase = "sleep"
  <2>1. /\ k.waited + k.left <= k.timeout /\ k.waited <= k.timeout
        /\ k.budget # 0 => k.waited + k.budget <= k.timeout
    BY <1>1, <1>6 DEF Waits, Active
  <2>2. CASE k.left = 0
    <3>1. d.waited = k.waited /\ d.left = 0
      BY <1>2, <1>6, <2>2 DEF Awaits, Less
    <3>2. d.budget # 0 => d.waited + d.budget <= k.timeout
      BY <1>0, <1>1, <1>2, <1>6, <2>1, <3>1
    <3> QED
      BY <1>1, <1>2, <1>3, <1>6, <2>1, <3>1, <3>2 DEF Waits
  <2>3. CASE k.left # 0
    <3>1. d.waited = k.waited + 1 /\ d.left = k.left - 1
      BY <1>1, <1>2, <1>6, <2>3 DEF Awaits, Less
    <3>2. d.budget # 0 => d.waited + d.budget <= k.timeout
      BY <1>0, <1>1, <1>2, <1>6, <2>1, <3>1
    <3>3. d.waited + d.left <= k.timeout /\ d.waited <= k.timeout
      BY <1>1, <1>6, <2>1, <2>3, <3>1
    <3> QED
      BY <1>1, <1>2, <1>3, <1>6, <3>1, <3>2, <3>3 DEF Waits
  <2> QED
    BY <2>2, <2>3
<1>7. CASE k.timeout # NoTimeout /\ k.phase \in {"down", "up"}
  <2>1. d.waited = k.waited
    BY <1>2, <1>7 DEF Awaits
  <2>2. k.budget # 0 => k.waited + k.budget <= k.timeout
    BY <1>7 DEF Waits, Active
  <2>3. d.budget # 0 => d.waited + d.budget <= k.timeout
    BY <1>0, <1>1, <1>2, <1>7, <2>1, <2>2
  <2> QED
    BY <1>2, <1>3, <1>7, <2>1, <2>3 DEF Waits, Active
<1> QED
  BY <1>4, <1>5, <1>6, <1>7 DEF Active

\* A step of one call, after which it has not waited too long.
LEMMA OneWaits ==
    ASSUME RuntimeInv, \A d \in Calls : Waits(call[d], stack), UNCHANGED built,
           NEW c \in Calls, NEW k, Becomes(c, k), Waits(k, stack)
    PROVE  \A d \in Calls : Waits(call'[d], stack')
<1>1. stack' = stack /\ call \in [Calls -> CallRecord(stack)]
  BY DEF built, RuntimeInv
<1>2. ASSUME NEW d \in Calls PROVE Waits(call'[d], stack)
  BY <1>1 DEF Becomes
<1> QED
  BY <1>1, <1>2

\* The steps of the layers keep what is true of waiting ...
LEMMA LayerWaits ==
    ASSUME RuntimeInv, \A d \in Calls : Waits(call[d], stack), NEW c \in Calls, Layer(c)
    PROVE  \A d \in Calls : Waits(call'[d], stack')
<1> DEFINE k == call[c]
<1>1. k \in CallRecord(stack) /\ Waits(k, stack)
  BY DEF RuntimeInv
<1>2. /\ k.budget \in Nat /\ k.waited \in Nat /\ k.left \in Nat
      /\ k.timeout # NoTimeout => k.timeout \in Nat
  BY <1>1, Parameters DEF CallRecord
<1>3. UNCHANGED built
  BY DEF Layer, Hit, Miss, Fill, Pass, PassBack, Admit, Reject, Record, Start, Return, WakeUp,
         BackOff, Unrouted, Send, TimeOut
<1>4. CASE Hit(c) \/ Fill(c) \/ PassBack(c) \/ Reject(c) \/ Record(c) \/ Unrouted(c) \/ TimeOut(c)
  <2>1. k.phase \in Active /\ \E o : Becomes(c, Up(k, o))
    BY <1>4 DEF Hit, Fill, PassBack, Reject, Record, Unrouted, TimeOut, Enters, Leaves, Active
  <2>2. PICK o : Becomes(c, Up(k, o))
    BY <2>1
  <2>3. Waits(Up(k, o), stack)
    BY <1>1, <2>1, UpWaits
  <2> QED
    BY <1>3, <2>2, <2>3, OneWaits
<1>5. CASE Miss(c) \/ Pass(c) \/ Admit(c)
  <2>1. k.phase = "down" /\ stack[k.pos] # "server" /\ Becomes(c, Down(k))
    BY <1>5 DEF Miss, Pass, Admit, Enters
  <2>2. Waits(Down(k), stack)
    BY <1>1, <2>1, DownWaits
  <2> QED
    BY <1>3, <2>1, <2>2, OneWaits
<1>6. CASE Start(c)
  <2> DEFINE b == IF k.timeout = NoTimeout THEN 0 ELSE k.timeout
             d == [Down(k) EXCEPT !.attempt = 0, !.budget = b]
  <2>1. k.phase = "down" /\ stack[k.pos] = "retry" /\ Becomes(c, d)
    BY <1>6 DEF Start, Enters
  <2>2. k.timeout # NoTimeout => k.waited = 0
    BY <1>1, <2>1 DEF Waits, Active
  <2>3. /\ d.phase = "down" /\ d.home = k.home /\ d.timeout = k.timeout /\ d.waited = k.waited
        /\ k.timeout # NoTimeout => d.budget = k.timeout
    BY <1>1 DEF Down, CallRecord
  <2> HIDE DEF d
  <2>4. Waits(d, stack)
    BY <1>2, <2>2, <2>3 DEF Waits
  <2> QED
    BY <1>3, <2>1, <2>4, OneWaits
<1>7. CASE Return(c)
  <2> DEFINE d == [k EXCEPT !.attempt = 0, !.budget = 0]
             o == [k.out EXCEPT !.attempts = k.attempt + 1]
  <2>1. k.phase = "up" /\ Becomes(c, Up(d, o))
    BY <1>7 DEF Return, Leaves
  <2>2. d \in CallRecord(stack)
    <3>1. 0 \in 0 .. MaxRetries /\ 0 \in Nat
      BY Parameters
    <3> QED
      BY <1>1, <3>1 DEF CallRecord
  <2>3. /\ d.phase = k.phase /\ d.home = k.home /\ d.timeout = k.timeout /\ d.budget = 0
        /\ d.waited = k.waited
    BY <1>1 DEF CallRecord
  <2> HIDE DEF d, o
  <2>4. Waits(d, stack) /\ d.phase \in Active
    BY <1>1, <2>1, <2>3 DEF Waits, OnRetry, Active
  <2>5. Waits(Up(d, o), stack)
    BY <2>2, <2>4, UpWaits
  <2> QED
    BY <1>3, <2>1, <2>5, OneWaits
<1>8. CASE \E n \in 0 .. MaxDelay : BackOff(c, n)
  <2>1. PICK n \in 0 .. MaxDelay : BackOff(c, n)
    BY <1>8
  <2> DEFINE d == [k EXCEPT !.phase = "sleep", !.left = n]
  <2>2. /\ k.phase = "up" /\ Leaves(c, "retry") /\ ~GivesUp(k) /\ Becomes(c, d)
        /\ k.timeout # NoTimeout => n <= k.budget
    BY <2>1 DEF BackOff, Leaves
  <2>3. /\ d.phase = "sleep" /\ d.home = k.home /\ d.timeout = k.timeout /\ d.budget = k.budget
        /\ d.waited = k.waited /\ d.left = n
    BY <1>1 DEF CallRecord
  <2>4. OnRetry(k, stack)
    BY <2>2, OnItsWay DEF OnRetry, Leaves, Active
  <2>5. k.timeout # NoTimeout => k.budget # 0 /\ k.waited + k.budget <= k.timeout
    BY <1>1, <2>2 DEF GivesUp, Waits, Active
  <2>6. k.timeout # NoTimeout => k.waited + n <= k.timeout /\ k.waited <= k.timeout + k.timeout
    BY <1>2, <2>2, <2>5, Parameters
  <2> HIDE DEF d
  <2>7. Waits(d, stack)
    BY <2>3, <2>4, <2>5, <2>6 DEF Waits, OnRetry
  <2> QED
    BY <1>3, <2>2, <2>7, OneWaits
<1>9. CASE WakeUp(c)
  <2> DEFINE d == [Down(k) EXCEPT !.attempt = @ + 1, !.out = Ok]
  <2>1. k.phase = "sleep" /\ k.phase \in Active /\ Becomes(c, d)
    BY <1>9 DEF WakeUp, Active
  <2>2. /\ d.phase = "down" /\ d.home = k.home /\ d.timeout = k.timeout /\ d.budget = k.budget
        /\ d.waited = k.waited /\ d.pos = k.pos + 1
    BY <1>1 DEF Down, CallRecord
  <2>3. OnRetry(k, stack) /\ stack[k.pos + 1] = "server"
    <3>1. /\ stack[k.pos] = "retry" /\ Stacked(stack) /\ stack # <<>> /\ k.pos \in 1 .. Len(stack)
          /\ stack[Len(stack)] = "server" /\ k.home <= k.pos /\ Len(stack) \in Nat
          /\ k.home \in {1, Len(stack)}
      BY <2>1, OnItsWay DEF Placed
    <3>2. k.pos = Len(stack) - 1
      BY <3>1 DEF Stacked
    <3>3. k.pos + 1 = Len(stack) /\ k.pos \in k.home .. Len(stack)
      BY <3>1, <3>2
    <3> QED
      BY <3>1, <3>3 DEF OnRetry
  <2>4. k.timeout # NoTimeout => /\ k.waited + k.left <= k.timeout
                                 /\ k.budget # 0 => k.waited + k.budget <= k.timeout
    BY <1>1, <2>1 DEF Waits
  <2>5. k.timeout # NoTimeout => k.waited <= k.timeout /\ k.waited <= k.timeout + k.timeout
    BY <1>2, <2>4
  <2> HIDE DEF d
  <2>6. Waits(d, stack)
    BY <2>2, <2>3, <2>4, <2>5 DEF Waits, OnRetry
  <2> QED
    BY <1>3, <2>1, <2>6, OneWaits
<1>10. CASE Send(c)
  <2> DEFINE d == [k EXCEPT !.phase = "running", !.spent = 0]
  <2>1. k.phase = "down" /\ Becomes(c, d)
    BY <1>10 DEF Send, Enters
  <2>2. /\ d.phase = "running" /\ d.home = k.home /\ d.timeout = k.timeout /\ d.budget = k.budget
        /\ d.waited = k.waited /\ d.spent = 0
    BY <1>1 DEF CallRecord
  <2> HIDE DEF d
  <2>3. Waits(d, stack)
    BY <1>1, <1>2, <2>1, <2>2 DEF Waits, OnRetry, Active
  <2> QED
    BY <1>3, <2>1, <2>3, OneWaits
<1> QED
  BY <1>4, <1>5, <1>6, <1>7, <1>8, <1>9, <1>10 DEF Layer

\* ... and so do those of servers, of callers and of time.
LEMMA WaitsKept ==
    ASSUME RuntimeInv, \A d \in Calls : Waits(call[d], stack), [Next]_vars
    PROVE  \A d \in Calls : Waits(call'[d], stack')
<1>1. ASSUME NEW c \in Calls, NEW r \in Requests, Call(c, r) \/ CallOn(c, r)
      PROVE  \A d \in Calls : Waits(call'[d], stack')
  <2>1. stack # <<>> /\ Len(stack) \in Nat \ {0} /\ stack \in Stacks /\ UNCHANGED built
    BY <1>1, EmptySeq, LenProperties DEF RuntimeInv, Call, CallOn, Stacks
  <2>2. ASSUME NEW p \in {1, Len(stack)}
        PROVE  NewCall(r, p) \in CallRecord(stack) /\ Waits(NewCall(r, p), stack)
    <3> DEFINE k == NewCall(r, p)
    <3>1. /\ k \in CallRecord(stack) /\ k.phase = "down" /\ k.budget = 0 /\ k.waited = 0
          /\ k.timeout # NoTimeout => k.timeout \in Nat
      <4>1. p \in 0 .. Len(stack) /\ NoCall \in CallRecord(stack) /\ r.tool \in Tools
            /\ r.timeout \in Nat \cup {NoTimeout} /\ r.found \in BOOLEAN
        BY <2>1, NoCallType, Parameters
      <4> QED
        BY <4>1 DEF NewCall, NoCall, CallRecord
    <3> HIDE DEF k
    <3>2. Waits(k, stack)
      BY <3>1 DEF Waits
    <3> QED
      BY <3>1, <3>2 DEF k
  <2>3. ASSUME NEW p \in {1, Len(stack)}
        PROVE  Waits(Up(NewCall(r, p), Err(NoRouter)), stack)
    <3>1. NewCall(r, p).phase \in Active
      BY DEF NewCall, NoCall, Active
    <3> QED
      BY <2>2, <3>1, UpWaits
  <2>4. \/ Becomes(c, NewCall(r, 1)) \/ Becomes(c, NewCall(r, Len(stack)))
        \/ Becomes(c, Up(NewCall(r, Len(stack)), Err(NoRouter)))
    BY <1>1 DEF Call, CallOn
  <2> QED
    BY <2>1, <2>2, <2>3, <2>4, OneWaits
<1>2. ASSUME NEW c \in Calls, Drop(c) PROVE \A d \in Calls : Waits(call'[d], stack')
  <2>1. UNCHANGED built /\ Becomes(c, [NoCall EXCEPT !.phase = "dropped"])
    BY <1>2 DEF Drop
  <2>2. Waits([NoCall EXCEPT !.phase = "dropped"], stack)
    BY DEF Waits, NoCall, Active
  <2> QED
    BY <2>1, <2>2, OneWaits
<1>3. ASSUME NEW c \in Calls, NEW o, Answer(c, o) PROVE \A d \in Calls : Waits(call'[d], stack')
  <2>1. UNCHANGED built /\ Becomes(c, Up(call[c], o)) /\ call[c].phase \in Active
    BY <1>3 DEF Answer, Active
  <2>2. Waits(Up(call[c], o), stack)
    BY <2>1, UpWaits DEF RuntimeInv
  <2> QED
    BY <2>1, <2>2, OneWaits
<1>4. ASSUME Tick PROVE \A d \in Calls : Waits(call'[d], stack')
  <2>1. ASSUME NEW d \in Calls PROVE Waits(call'[d], stack)
    <3>1. call[d] \in CallRecord(stack) /\ call'[d] = Older(call[d])
      BY <1>4 DEF Tick, RuntimeInv
    <3>2. call[d].phase = "running" /\ call[d].timeout # NoTimeout =>
            /\ call[d].spent < call[d].timeout
            /\ call[d].budget + call[d].spent <= call[d].timeout
      BY <1>4, RunningFacts DEF Tick
    <3> QED
      BY <3>1, <3>2, OlderWaits
  <2> QED
    BY <1>4, <2>1 DEF Tick, built
<1>5. CASE \/ \E l \in Layers : With(l)
           \/ Build
           \/ \E given \in SUBSET Layers : BuildRuntime(given)
  <2>1. call' = call /\ \A d \in Calls : call[d].phase = "new"
    BY <1>5 DEF With, Build, BuildRuntime, RuntimeInv
  <2> QED
    BY <2>1 DEF Waits, Active
<1>6. CASE UNCHANGED vars
  BY <1>6 DEF vars
<1> QED
  BY <1>1, <1>2, <1>3, <1>4, <1>5, <1>6, LayerWaits DEF Next

\* The time a call with a timeout spends at servers and on backoffs is bounded, for
\* every stack, number of retries, delays and other calls: an attempt starts
\* within the timeout, and the last one ends within twice that (retry.rs:36-58,
\* mcp lib.rs:79), while the wait in the limiter is bounded by nothing.
THEOREM TimedCallsBoundedHolds == Spec => []TimedCallsBounded
<1> DEFINE AllWait == \A d \in Calls : Waits(call[d], stack)
<1>1. Init => AllWait
  BY DEF Init, NoCall, Waits, Active
<1>2. RuntimeInv /\ AllWait /\ [Next]_vars => AllWait'
  BY WaitsKept
<1>3. RuntimeInv /\ AllWait => TimedCallsBounded
  <2> SUFFICES ASSUME RuntimeInv, AllWait, NEW c \in Calls, OnTheClock(call[c])
               PROVE  LET k == call[c]
                      IN  /\ k.phase \in {"down", "sleep"} => k.waited <= k.timeout
                          /\ k.waited <= k.timeout + (IF RetryInWay(k) THEN k.timeout ELSE 0)
    BY DEF TimedCallsBounded
  <2>1. /\ Waits(call[c], stack) /\ call[c].phase \in Active /\ call[c].timeout \in Nat
        /\ call[c].waited \in Nat /\ call[c].left \in Nat
        /\ call[c].timeout # NoTimeout
    BY Parameters DEF OnTheClock, Active, RuntimeInv, CallRecord
  <2>2. RetryInWay(call[c]) <=> OnRetry(call[c], stack)
    BY DEF RetryInWay, OnRetry
  <2> QED
    BY <2>1, <2>2 DEF Waits
<1> QED
  BY <1>1, <1>2, <1>3, RuntimeInvariant, PTL DEF Spec

-----------------------------------------------------------------------------
(* The breaker layer of every stack implements BreakerGate.                *)

Mode == [t \in Tools |-> breakers[t].state]
Cooled == [t \in Tools |-> breakers[t].state = "Open" /\ ResetElapsed(breakers[t])]
Held == [c \in Calls |-> IF Inside(c) THEN call[c].tool ELSE NoTool]

\* Call k is on its way below the breaker.
Holds(k, s) == k.phase \in Active /\ Within(k, s)

\* Which is what Inside says.
LEMMA InsideHolds ==
    ASSUME RuntimeInv, NEW c \in Calls
    PROVE  Inside(c) <=> Holds(call[c], stack)
<1>1. call[c].pos \in 0 .. Len(stack) /\ Len(stack) \in Nat
  BY LenProperties DEF RuntimeInv, CallRecord, Stacks
<1>2. ASSUME call[c].phase = "up", NEW b \in 1 .. Len(stack)
      PROVE  (call[c].pos > b \/ (call[c].pos = b /\ call[c].phase = "up")) <=> b <= call[c].pos
  BY <1>1, <1>2
<1>3. ASSUME call[c].phase # "up", NEW b \in 1 .. Len(stack)
      PROVE  (call[c].pos > b \/ (call[c].pos = b /\ call[c].phase = "up")) <=> b <= call[c].pos - 1
  BY <1>1, <1>3
<1>4. CASE call[c].phase = "up"
  BY <1>2, <1>4 DEF Inside, Holds, Within, Guarded, Active
<1>5. CASE call[c].phase # "up"
  BY <1>3, <1>5 DEF Inside, Holds, Within, Guarded, Active
<1> QED
  BY <1>4, <1>5

\* A step of one call changes what that call holds, at most.
LEMMA OneHeld ==
    ASSUME RuntimeInv, RuntimeInv', NEW c \in Calls, NEW k, call' = [call EXCEPT ![c] = k],
           stack' = stack
    PROVE  /\ Held' = [Held EXCEPT ![c] = IF Holds(k, stack) THEN k.tool ELSE NoTool]
           /\ Held[c] = IF Holds(call[c], stack) THEN call[c].tool ELSE NoTool
           /\ Held = [Held EXCEPT ![c] = Held[c]]
<1>1. \A d \in Calls : Inside(d) <=> Holds(call[d], stack)
  BY InsideHolds
<1>2. \A d \in Calls : Inside(d)' <=> Holds(call'[d], stack')
  <2> SUFFICES ASSUME NEW d \in Calls PROVE Inside(d)' <=> Holds(call'[d], stack')
    OBVIOUS
  <2>1. call'[d].pos \in 0 .. Len(stack') /\ Len(stack') \in Nat
    BY LenProperties DEF RuntimeInv, CallRecord, Stacks
  <2>2. ASSUME call'[d].phase = "up", NEW b \in 1 .. Len(stack')
        PROVE  (call'[d].pos > b \/ (call'[d].pos = b /\ call'[d].phase = "up")) <=> b <= call'[d].pos
    BY <2>1, <2>2
  <2>3. ASSUME call'[d].phase # "up", NEW b \in 1 .. Len(stack')
        PROVE  (call'[d].pos > b \/ (call'[d].pos = b /\ call'[d].phase = "up")) <=> b <= call'[d].pos - 1
    BY <2>1, <2>3
  <2>4. CASE call'[d].phase = "up"
    BY <2>2, <2>4 DEF Inside, Holds, Within, Guarded, Active
  <2>5. CASE call'[d].phase # "up"
    BY <2>3, <2>5 DEF Inside, Holds, Within, Guarded, Active
  <2> QED
    BY <2>4, <2>5
<1>3. call \in [Calls -> CallRecord(stack)]
  BY DEF RuntimeInv
<1>4. Held' = [d \in Calls |-> IF Holds(call'[d], stack) THEN call'[d].tool ELSE NoTool]
  BY <1>2 DEF Held
<1>5. Held = [d \in Calls |-> IF Holds(call[d], stack) THEN call[d].tool ELSE NoTool]
  BY <1>1 DEF Held
<1> QED
  BY <1>3, <1>4, <1>5

\* A call whose outcome is handed up holds the gate of its tool as long as a
\* breaker is above.
LEMMA UpHolds ==
    ASSUME NEW s \in Stacks, NEW k \in CallRecord(s), Placed(k, s), NEW o
    PROVE  /\ Holds(Up(k, o), s) <=> k.home = 1 /\ Guarded(k.pos - 1, s)
           /\ Up(k, o).tool = k.tool
<1>1. k.home \in {1, Len(s)} /\ k.pos \in Nat /\ Len(s) \in Nat
  BY LenProperties DEF Placed, Stacks, CallRecord
<1>2. CASE k.pos = k.home
  <2>1. Up(k, o).phase = "done" /\ Up(k, o).tool = k.tool
    BY <1>2 DEF Up, NoCall
  <2>2. ~(k.home = 1 /\ Guarded(k.pos - 1, s))
    BY <1>1, <1>2 DEF Guarded
  <2> QED
    BY <2>1, <2>2 DEF Holds, Active
<1>3. CASE k.pos # k.home
  <2>1. /\ Up(k, o).phase = "up" /\ Up(k, o).tool = k.tool /\ Up(k, o).home = k.home
        /\ Up(k, o).pos = k.pos - 1
    BY <1>3 DEF Up, CallRecord
  <2> HIDE DEF Up
  <2> QED
    BY <2>1 DEF Holds, Within, Active
<1> QED
  BY <1>2, <1>3

\* A step that leaves the breakers alone, and a call where it was as far as the
\* gate can tell, is none of the gate's.
LEMMA NoGateStep ==
    ASSUME RuntimeInv, RuntimeInv', NEW c \in Calls, NEW k, call' = [call EXCEPT ![c] = k],
           UNCHANGED <<stack, breakers>>,
           Holds(k, stack) <=> Holds(call[c], stack), Holds(k, stack) => k.tool = call[c].tool
    PROVE  Held' = Held /\ Mode' = Mode /\ Cooled' = Cooled
<1>1. stack' = stack /\ breakers' = breakers
  OBVIOUS
<1>2. /\ Held' = [Held EXCEPT ![c] = IF Holds(k, stack) THEN k.tool ELSE NoTool]
      /\ Held[c] = IF Holds(call[c], stack) THEN call[c].tool ELSE NoTool
      /\ Held = [Held EXCEPT ![c] = Held[c]]
  BY <1>1, OneHeld
<1>3. Held' = Held
  <2>1. Held[c] = IF Holds(k, stack) THEN k.tool ELSE NoTool
    BY <1>2
  <2> HIDE DEF Held
  <2> QED
    BY <1>2, <2>1
<1> QED
  BY <1>1, <1>3 DEF Mode, Cooled

\* Whether a call holds the gate, at the layer it enters or leaves.
LEMMA HoldsAt ==
    ASSUME RuntimeInv, NEW c \in Calls, call[c].phase \in Active
    PROVE  LET k == call[c]
           IN  /\ k.phase # "up" => (Holds(k, stack) <=> k.home = 1 /\ Guarded(k.pos - 1, stack))
               /\ k.phase = "up" => (Holds(k, stack) <=> k.home = 1 /\ Guarded(k.pos, stack))
               /\ stack[k.pos] # "breaker" => (Guarded(k.pos, stack) <=> Guarded(k.pos - 1, stack))
               /\ stack[k.pos] = "breaker" => Guarded(k.pos, stack) /\ ~Guarded(k.pos - 1, stack)
               /\ stack \in Stacks /\ k \in CallRecord(stack) /\ Placed(k, stack) /\ k.tool \in Tools
<1>1. /\ stack \in Stacks /\ Stacked(stack) /\ stack # <<>> /\ call[c] \in CallRecord(stack)
      /\ Placed(call[c], stack) /\ call[c].pos \in 1 .. Len(stack) /\ call[c].tool \in Tools
  BY OnItsWay
<1> QED
  BY <1>1, GuardedAt DEF Holds, Within

\* An outcome passes a layer that is no breaker, or never went below it.
LEMMA UpOutside ==
    ASSUME RuntimeInv, RuntimeInv', NEW c \in Calls, NEW d \in CallRecord(stack), NEW o,
           call[c].phase \in Active, call[c].phase = "up" => stack[call[c].pos] # "breaker",
           d.phase = call[c].phase, d.pos = call[c].pos, d.home = call[c].home,
           d.tool = call[c].tool,
           Becomes(c, Up(d, o)), UNCHANGED <<stack, breakers>>
    PROVE  Held' = Held /\ Mode' = Mode /\ Cooled' = Cooled
<1> DEFINE k == Up(d, o)
<1>1. Placed(d, stack) /\ stack \in Stacks
  BY HoldsAt DEF Placed
<1>2. (Holds(k, stack) <=> d.home = 1 /\ Guarded(d.pos - 1, stack)) /\ k.tool = d.tool
  BY <1>1, UpHolds
<1>3. call' = [call EXCEPT ![c] = k]
  BY DEF Becomes
<1> HIDE DEF k
<1>4. Holds(k, stack) <=> Holds(call[c], stack)
  BY <1>2, HoldsAt
<1> QED
  BY <1>2, <1>3, <1>4, NoGateStep

\* A call passes a layer that is no breaker on its way down, waits or is sent.
LEMMA DownOutside ==
    ASSUME RuntimeInv, RuntimeInv', NEW c \in Calls, NEW k, call[c].phase \in Active,
           stack[call[c].pos] # "breaker",
           k.phase \in {"down", "running", "sleep"}, k.home = call[c].home, k.tool = call[c].tool,
           k.pos \in {call[c].pos, call[c].pos + 1},
           Becomes(c, k), UNCHANGED <<stack, breakers>>
    PROVE  Held' = Held /\ Mode' = Mode /\ Cooled' = Cooled
<1>1. Holds(k, stack) <=> k.home = 1 /\ Guarded(k.pos - 1, stack)
  BY DEF Holds, Within, Active
<1>2. (call[c].pos + 1) - 1 = call[c].pos
  BY HoldsAt DEF CallRecord
<1>3. Holds(k, stack) <=> Holds(call[c], stack)
  BY <1>1, <1>2, HoldsAt
<1>4. call' = [call EXCEPT ![c] = k]
  BY DEF Becomes
<1> QED
  BY <1>3, <1>4, NoGateStep

\* A step that changes the breaker of one tool only changes its mode and
\* whether it has cooled.
LEMMA OneGate ==
    ASSUME breakers \in [Tools -> Breaker], NEW u \in Tools, NEW b \in Breaker,
           breakers' = [breakers EXCEPT ![u] = b]
    PROVE  /\ Mode' = [Mode EXCEPT ![u] = b.state]
           /\ Cooled' = [Cooled EXCEPT ![u] = b.state = "Open" /\ ResetElapsed(b)]
BY DEF Mode, Cooled, ResetElapsed

\* What the breaker lets through enters the gate, which is closed, half-open,
\* or has cooled.
LEMMA AdmitPasses ==
    ASSUME RuntimeInv, RuntimeInv', NEW c \in Calls, NEW t \in Tools,
           Admit(c), call[c].tool = t
    PROVE  Gate!Pass(c, t) \/ Gate!Probe(c, t)
<1> DEFINE k == call[c]
           b == breakers[t]
           a == Acquired(b)
<1>1. k.phase = "down" /\ stack[k.pos] = "breaker" /\ k.phase \in Active
  BY DEF Admit, Enters, Active
<1>2. /\ k.tool = t /\ t # NoTool /\ breakers \in [Tools -> Breaker] /\ b \in Breaker
      /\ k \in CallRecord(stack) /\ k.home = 1 /\ stack' = stack
  <2>1. k.pos # Len(stack) /\ k.home \in {1, Len(stack)} /\ k.home <= k.pos
        /\ k.pos \in 1 .. Len(stack) /\ Len(stack) \in Nat
    BY <1>1, OnItsWay
  <2>2. k.home = 1
    BY <2>1
  <2>3. breakers \in [Tools -> Breaker] /\ k \in CallRecord(stack)
    BY <1>1, OnItsWay DEF RuntimeInv, Shares
  <2> QED
    BY <2>2, <2>3, Parameters DEF Admit, built
<1>3. /\ a \in Breaker /\ breakers' = [breakers EXCEPT ![t] = a] /\ Allowed(b)
      /\ b.state \in {"Closed", "HalfOpen"} => a.state = b.state
      /\ b.state = "Open" => a.state = "HalfOpen"
  BY <1>2, AcquiredBreaker DEF Admit
<1>4. /\ Mode' = [Mode EXCEPT ![t] = a.state]
      /\ Cooled' = [Cooled EXCEPT ![t] = a.state = "Open" /\ ResetElapsed(a)]
  BY <1>2, <1>3, OneGate
<1>5. Held[c] = NoTool /\ Held' = [Held EXCEPT ![c] = t]
  <2>1. ~Holds(k, stack)
    BY <1>1, HoldsAt
  <2>2. Holds(Down(k), stack) /\ Down(k).tool = t
    <3>1. /\ Down(k).phase = "down" /\ Down(k).home = 1 /\ Down(k).pos = k.pos + 1
          /\ Down(k).tool = t
      BY <1>2 DEF Down, CallRecord
    <3>2. Guarded(k.pos, stack) /\ (k.pos + 1) - 1 = k.pos
      BY <1>1, <1>2, HoldsAt DEF CallRecord
    <3> QED
      BY <3>1, <3>2 DEF Holds, Within, Active
  <2>3. call' = [call EXCEPT ![c] = Down(k)]
    BY DEF Admit, Becomes
  <2> HIDE DEF k
  <2>4. /\ Held' = [Held EXCEPT ![c] = IF Holds(Down(k), stack) THEN Down(k).tool ELSE NoTool]
        /\ Held[c] = IF Holds(call[c], stack) THEN call[c].tool ELSE NoTool
    BY <1>2, <2>3, OneHeld
  <2> QED
    BY <2>1, <2>2, <2>4 DEF k
<1> HIDE DEF a
<1>6. CASE b.state \in {"Closed", "HalfOpen"}
  <2>1. Mode' = Mode /\ Cooled' = Cooled
    BY <1>2, <1>3, <1>4, <1>6 DEF Mode, Cooled
  <2>2. Gate!Pass(c, t)
    BY <1>2, <1>5, <1>6, <2>1 DEF Gate!Pass, Mode, Cooled, Held
  <2> QED
    BY <2>2
<1>7. CASE b.state = "Open"
  <2>1. ResetElapsed(b)
    BY <1>3, <1>7 DEF Allowed
  <2>2. Mode' = [Mode EXCEPT ![t] = "HalfOpen"] /\ Cooled' = [Cooled EXCEPT ![t] = FALSE]
    BY <1>3, <1>4, <1>7
  <2>3. Gate!Probe(c, t)
    BY <1>2, <1>5, <1>7, <2>1, <2>2 DEF Gate!Probe, Mode, Cooled, Held
  <2> QED
    BY <2>3
<1> QED
  BY <1>2, <1>6, <1>7 DEF Breaker, CircuitState

\* An outcome that passes the breaker leaves the gate, and opens, closes or
\* keeps it.
LEMMA RecordLeaves ==
    ASSUME RuntimeInv, RuntimeInv', NEW c \in Calls, Record(c)
    PROVE  Gate!GateNext
<1> DEFINE k == call[c]
           t == k.tool
           b == breakers[t]
           a == AfterCall(b, k.out.success)
<1>1. k.phase = "up" /\ stack[k.pos] = "breaker" /\ k.phase \in Active
  BY DEF Record, Leaves, Active
<1>2. /\ t \in Tools /\ t # NoTool /\ breakers \in [Tools -> Breaker] /\ b \in Breaker
      /\ k \in CallRecord(stack) /\ k.home = 1 /\ stack' = stack /\ k.out \in Outcome
      /\ stack \in Stacks /\ Placed(k, stack)
  <2>1. k.pos # Len(stack) /\ k.home \in {1, Len(stack)} /\ k.home <= k.pos
        /\ k.pos \in 1 .. Len(stack) /\ Len(stack) \in Nat
    BY <1>1, OnItsWay
  <2>2. k.home = 1
    BY <2>1
  <2>3. t \in Tools /\ breakers \in [Tools -> Breaker] /\ k \in CallRecord(stack)
        /\ stack \in Stacks /\ Placed(k, stack)
    BY <1>1, OnItsWay DEF RuntimeInv, Shares
  <2>4. k.out \in Outcome
    BY <2>3 DEF CallRecord
  <2> QED
    BY <2>2, <2>3, <2>4, Parameters DEF Record, built
<1>3. /\ a \in Breaker /\ breakers' = [breakers EXCEPT ![t] = a]
      /\ \/ a.state = b.state /\ (a.state = "Open" => a.opened_at = b.opened_at)
         \/ b.state \in {"Closed", "HalfOpen"} /\ a.state = "Open" /\ a.opened_at = 0
         \/ b.state = "HalfOpen" /\ a.state = "Closed"
  <2>1. k.out.success \in BOOLEAN
    BY <1>2 DEF Outcome
  <2> QED
    BY <1>2, <2>1, AfterCallBreaker DEF Record
<1>4. Held[c] = t /\ Held' = [Held EXCEPT ![c] = NoTool]
  <2>1. Holds(k, stack)
    BY <1>1, <1>2, HoldsAt
  <2>2. ~Holds(Up(k, k.out), stack)
    <3>1. ~Guarded(k.pos - 1, stack)
      BY <1>1, HoldsAt
    <3> QED
      BY <1>2, <3>1, UpHolds
  <2>3. call' = [call EXCEPT ![c] = Up(k, k.out)]
    BY DEF Record, Becomes
  <2> HIDE DEF k
  <2>4. /\ Held' = [Held EXCEPT ![c] = IF Holds(Up(k, k.out), stack) THEN Up(k, k.out).tool ELSE NoTool]
        /\ Held[c] = IF Holds(call[c], stack) THEN call[c].tool ELSE NoTool
    BY <1>2, <2>3, OneHeld
  <2> QED
    BY <2>1, <2>2, <2>4 DEF k
<1> HIDE DEF a
<1>5. /\ Mode' = [Mode EXCEPT ![t] = a.state]
      /\ Cooled' = [Cooled EXCEPT ![t] = a.state = "Open" /\ ResetElapsed(a)]
  BY <1>2, <1>3, OneGate
<1>6. CASE a.state = b.state /\ (a.state = "Open" => a.opened_at = b.opened_at)
  <2>1. (a.state = "Open" /\ ResetElapsed(a)) = (b.state = "Open" /\ ResetElapsed(b))
    BY <1>6 DEF ResetElapsed
  <2>2. Mode' = Mode /\ Cooled' = Cooled
    BY <1>2, <1>5, <1>6, <2>1 DEF Mode, Cooled
  <2>3. Gate!LeaveQuietly(c)
    BY <1>2, <1>4, <2>2 DEF Gate!LeaveQuietly, Mode, Cooled, Held
  <2> QED
    BY <2>3 DEF Gate!GateNext
<1>7. CASE b.state \in {"Closed", "HalfOpen"} /\ a.state = "Open" /\ a.opened_at = 0
  <2>1. ResetElapsed(a) = (ResetTimeout = 0)
    BY <1>7, ThresholdAssumption DEF ResetElapsed, NotOpened
  <2>2. Mode' = [Mode EXCEPT ![t] = "Open"] /\ Cooled' = [Cooled EXCEPT ![t] = ResetTimeout = 0]
    BY <1>5, <1>7, <2>1
  <2>3. Gate!LeaveOpening(c)
    BY <1>2, <1>4, <1>7, <2>2 DEF Gate!LeaveOpening, Mode, Cooled, Held
  <2> QED
    BY <2>3 DEF Gate!GateNext
<1>8. CASE b.state = "HalfOpen" /\ a.state = "Closed"
  <2>1. Mode' = [Mode EXCEPT ![t] = "Closed"]
    BY <1>5, <1>8
  <2>2. Cooled' = Cooled
    BY <1>2, <1>5, <1>8 DEF Cooled
  <2>3. Gate!LeaveClosing(c)
    BY <1>2, <1>4, <1>8, <2>1, <2>2 DEF Gate!LeaveClosing, Mode, Cooled, Held
  <2> QED
    BY <2>3 DEF Gate!GateNext
<1> QED
  BY <1>3, <1>6, <1>7, <1>8

\* A call that is dropped leaves the gate as it is.
LEMMA DropLeaves ==
    ASSUME RuntimeInv, RuntimeInv', NEW c \in Calls, Drop(c)
    PROVE  Gate!GateNext \/ (Held' = Held /\ Mode' = Mode /\ Cooled' = Cooled)
<1> DEFINE d == [NoCall EXCEPT !.phase = "dropped"]
<1>1. call' = [call EXCEPT ![c] = d] /\ UNCHANGED <<stack, breakers>>
  BY DEF Drop, Becomes, built, shared
<1>2. ~Holds(d, stack)
  <2>1. d.phase = "dropped"
    BY DEF NoCall
  <2> QED
    BY <2>1 DEF Holds, Active
<1> HIDE DEF d
<1>3. CASE Holds(call[c], stack)
  <2>1. call[c].tool # NoTool
    <3>1. call[c].tool \in Tools
      BY <1>3, OnItsWay DEF Holds
    <3> QED
      BY <3>1, Parameters
  <2>2. Held[c] # NoTool /\ Held' = [Held EXCEPT ![c] = NoTool]
    <3>1. /\ Held' = [Held EXCEPT ![c] = IF Holds(d, stack) THEN d.tool ELSE NoTool]
          /\ Held[c] = IF Holds(call[c], stack) THEN call[c].tool ELSE NoTool
      BY <1>1, OneHeld
    <3> QED
      BY <1>2, <1>3, <2>1, <3>1
  <2>3. Mode' = Mode /\ Cooled' = Cooled
    BY <1>1 DEF Mode, Cooled
  <2>4. Gate!LeaveQuietly(c)
    BY <2>2, <2>3 DEF Gate!LeaveQuietly, Mode, Cooled, Held
  <2> QED
    BY <2>4 DEF Gate!GateNext
<1>4. CASE ~Holds(call[c], stack)
  BY <1>1, <1>2, <1>4, NoGateStep
<1> QED
  BY <1>3, <1>4

\* A call starts outside the gate.
LEMMA CallOutside ==
    ASSUME RuntimeInv, RuntimeInv', NEW c \in Calls, NEW r \in Requests, Call(c, r) \/ CallOn(c, r)
    PROVE  Held' = Held /\ Mode' = Mode /\ Cooled' = Cooled
<1>1. /\ stack # <<>> /\ call[c].phase = "new" /\ UNCHANGED <<stack, breakers>>
      /\ stack \in Stacks /\ Len(stack) \in Nat \ {0} /\ Stacked(stack)
  BY EmptySeq, LenProperties DEF Call, CallOn, built, shared, RuntimeInv, Stacks
<1>2. ~Holds(call[c], stack)
  BY <1>1 DEF Holds, Active
<1>3. \A p : /\ NewCall(r, p).phase = "down" /\ NewCall(r, p).home = p /\ NewCall(r, p).pos = p
  BY DEF NewCall, NoCall
<1>4. ~Guarded(0, stack)
  BY <1>1 DEF Guarded
<1>5. ASSUME NEW p, ~Holds(NewCall(r, p), stack) = FALSE PROVE p = 1 /\ Guarded(0, stack)
  <2>1. Holds(NewCall(r, p), stack)
    BY <1>5
  <2>2. p = 1 /\ Guarded(p - 1, stack)
    BY <1>3, <2>1 DEF Holds, Within
  <2>3. p - 1 = 0
    BY <2>2
  <2> QED
    BY <2>2, <2>3
<1>6. \A p : ~Holds(NewCall(r, p), stack)
  BY <1>4, <1>5
<1>7. \A p, o : ~Holds(Up(NewCall(r, p), o), stack)
  <2> SUFFICES ASSUME NEW p, NEW o PROVE ~Holds(Up(NewCall(r, p), o), stack)
    OBVIOUS
  <2>1. Up(NewCall(r, p), o).phase = "done"
    BY <1>3 DEF Up, NoCall
  <2> HIDE DEF Up, NewCall
  <2> QED
    BY <2>1 DEF Holds, Active
<1>8. \E k : call' = [call EXCEPT ![c] = k] /\ ~Holds(k, stack)
  <2>1. CASE Call(c, r)
    BY <1>6, <2>1 DEF Call, Becomes
  <2>2. CASE CallOn(c, r)
    BY <1>6, <1>7, <2>2 DEF CallOn, Becomes
  <2> QED
    BY <2>1, <2>2
<1>9. PICK k : call' = [call EXCEPT ![c] = k] /\ ~Holds(k, stack)
  BY <1>8
<1> QED
  BY <1>1, <1>2, <1>9, NoGateStep

\* Before there is a stack nobody is inside.
LEMMA BuildOutside ==
    ASSUME RuntimeInv, stack = <<>>, call' = call, breakers' = breakers
    PROVE  Held' = Held /\ Mode' = Mode /\ Cooled' = Cooled
<1>1. \A c \in Calls : call[c].phase = "new"
  BY DEF RuntimeInv
<1>2. \A c \in Calls : ~Inside(c) /\ ~Inside(c)'
  BY <1>1 DEF Inside
<1>3. Held = [c \in Calls |-> NoTool] /\ Held' = [c \in Calls |-> NoTool]
  BY <1>2 DEF Held
<1> QED
  BY <1>3 DEF Mode, Cooled

\* Time passes: some open breakers will admit a probe from now on.
LEMMA TickCools ==
    ASSUME RuntimeInv, Tick
    PROVE  Gate!GateNext
<1> DEFINE ready == {t \in Tools : Mode[t] = "Open" /\ Cooled'[t]}
<1>1. breakers \in [Tools -> Breaker] /\ call \in [Calls -> CallRecord(stack)] /\ stack' = stack
  BY DEF RuntimeInv, Shares, Tick, built
<1>2. ASSUME NEW t \in Tools
      PROVE  /\ breakers'[t].state = breakers[t].state
             /\ Cooled'[t] = (Cooled[t] \/ t \in ready)
  <2>1. breakers[t] \in Breaker
    BY <1>1
  <2>2. /\ breakers'[t].state = breakers[t].state
        /\ ResetElapsed(breakers[t]) => ResetElapsed(breakers'[t])
    <3>1. CASE breakers'[t] = breakers[t]
      BY <3>1
    <3>2. CASE breakers'[t] = [breakers[t] EXCEPT !.opened_at = @ + 1]
               /\ breakers[t].opened_at < ResetTimeout
      BY <2>1, <3>2, ThresholdAssumption DEF ResetElapsed, Breaker, NotOpened
    <3> QED
      BY <3>1, <3>2 DEF Tick
  <2> QED
    BY <2>2 DEF Mode, Cooled
<1>3. Mode' = Mode
  BY <1>2 DEF Mode
<1>4. Cooled' = [t \in Tools |-> Cooled[t] \/ t \in ready]
  BY <1>2 DEF Cooled
<1>5. Held' = Held
  <2>1. ASSUME NEW c \in Calls
        PROVE  (Inside(c)' <=> Inside(c)) /\ call'[c].tool = call[c].tool
    <3>1. call[c] \in CallRecord(stack) /\ call'[c] = Older(call[c])
      BY <1>1 DEF Tick
    <3>2. /\ call'[c].phase = call[c].phase /\ call'[c].pos = call[c].pos
          /\ call'[c].home = call[c].home /\ call'[c].tool = call[c].tool
      BY <3>1 DEF Older, CallRecord
    <3> QED
      BY <1>1, <3>2 DEF Inside
  <2> QED
    BY <2>1 DEF Held
<1>6. ready \in SUBSET {t \in Tools : Mode[t] = "Open"}
  OBVIOUS
<1> HIDE DEF ready
<1>7. Gate!Cool
  BY <1>3, <1>4, <1>5, <1>6 DEF Gate!Cool, Mode, Cooled, Held
<1> QED
  BY <1>7 DEF Gate!GateNext

\* Every step of the runtime is a step of the gate or none of its.
LEMMA RuntimeSteps ==
    ASSUME RuntimeInv, RuntimeInv', [Next]_vars
    PROVE  Gate!GateNext \/ (Held' = Held /\ Mode' = Mode /\ Cooled' = Cooled)
<1>1. ASSUME NEW l \in Layers, With(l)
      PROVE  Held' = Held /\ Mode' = Mode /\ Cooled' = Cooled
  BY <1>1, BuildOutside DEF With, shared
<1>2. ASSUME Build PROVE Held' = Held /\ Mode' = Mode /\ Cooled' = Cooled
  BY <1>2, BuildOutside DEF Build, shared
<1>3. ASSUME NEW given \in SUBSET Layers, BuildRuntime(given)
      PROVE  Held' = Held /\ Mode' = Mode /\ Cooled' = Cooled
  BY <1>3, BuildOutside DEF BuildRuntime, shared
<1>4. ASSUME NEW c \in Calls, NEW r \in Requests, Call(c, r) \/ CallOn(c, r)
      PROVE  Held' = Held /\ Mode' = Mode /\ Cooled' = Cooled
  BY <1>4, CallOutside
<1>5. ASSUME NEW c \in Calls, Layer(c)
      PROVE  Gate!GateNext \/ (Held' = Held /\ Mode' = Mode /\ Cooled' = Cooled)
  <2> DEFINE k == call[c]
  <2>1. CASE Admit(c)
    <3>1. k.phase \in Active
      BY <2>1 DEF Admit, Enters, Active
    <3>2. PICK t \in Tools : k.tool = t
      BY <3>1, OnItsWay
    <3>3. Gate!Pass(c, t) \/ Gate!Probe(c, t)
      BY <2>1, <3>2, AdmitPasses
    <3> QED
      BY <3>3 DEF Gate!GateNext
  <2>2. CASE Record(c)
    BY <2>2, RecordLeaves
  <2>3. CASE Hit(c)
    <3>1. k.phase = "down" /\ k.phase \in Active
      BY <2>3 DEF Hit, Enters, Active
    <3>2. k \in CallRecord(stack)
      BY <3>1, OnItsWay
    <3> QED
      BY <2>3, <3>1, <3>2, UpOutside DEF Hit, built, shared
  <2>4. CASE Miss(c)
    <3>1. stack[k.pos] = "cache" /\ k.phase \in Active /\ k \in CallRecord(stack)
      BY <2>4, OnItsWay DEF Miss, Enters, Active
    <3>2. /\ Down(k).phase = "down" /\ Down(k).home = k.home /\ Down(k).tool = k.tool
          /\ Down(k).pos = k.pos + 1
      BY <3>1 DEF Down, CallRecord
    <3> HIDE DEF Down
    <3> QED
      BY <2>4, <3>1, <3>2, DownOutside DEF Miss, built
  <2>5. CASE Fill(c)
    <3>1. stack[k.pos] = "cache" /\ k.phase \in Active /\ k \in CallRecord(stack)
      BY <2>5, OnItsWay DEF Fill, Leaves, Active
    <3> QED
      BY <2>5, <3>1, UpOutside DEF Fill, built
  <2>6. CASE Pass(c)
    <3>1. stack[k.pos] = "limit" /\ k.phase \in Active /\ k \in CallRecord(stack)
      BY <2>6, OnItsWay DEF Pass, Enters, Active
    <3>2. /\ Down(k).phase = "down" /\ Down(k).home = k.home /\ Down(k).tool = k.tool
          /\ Down(k).pos = k.pos + 1
      BY <3>1 DEF Down, CallRecord
    <3> HIDE DEF Down
    <3> QED
      BY <2>6, <3>1, <3>2, DownOutside DEF Pass, built
  <2>7. CASE PassBack(c)
    <3>1. stack[k.pos] = "limit" /\ k.phase \in Active /\ k \in CallRecord(stack)
      BY <2>7, OnItsWay DEF PassBack, Leaves, Active
    <3> QED
      BY <2>7, <3>1, UpOutside DEF PassBack, built, shared
  <2>8. CASE Reject(c)
    <3>1. k.phase = "down" /\ k.phase \in Active
      BY <2>8 DEF Reject, Enters, Active
    <3>2. k \in CallRecord(stack)
      BY <3>1, OnItsWay
    <3> QED
      BY <2>8, <3>1, <3>2, UpOutside DEF Reject, built, shared
  <2>9. CASE Start(c)
    <3> DEFINE d == [Down(k) EXCEPT !.attempt = 0,
                                    !.budget = IF k.timeout = NoTimeout THEN 0 ELSE k.timeout]
    <3>1. stack[k.pos] = "retry" /\ k.phase \in Active /\ k \in CallRecord(stack)
      BY <2>9, OnItsWay DEF Start, Enters, Active
    <3>2. d.phase = "down" /\ d.home = k.home /\ d.tool = k.tool /\ d.pos = k.pos + 1
      BY <3>1 DEF Down, CallRecord
    <3>3. Becomes(c, d) /\ UNCHANGED <<stack, breakers>>
      BY <2>9 DEF Start, built, shared
    <3> HIDE DEF d
    <3> QED
      BY <3>1, <3>2, <3>3, DownOutside
  <2>10. CASE Return(c)
    <3> DEFINE d == [k EXCEPT !.attempt = 0, !.budget = 0]
    <3>1. stack[k.pos] = "retry" /\ k.phase \in Active /\ k \in CallRecord(stack)
      BY <2>10, OnItsWay DEF Return, Leaves, Active
    <3>2. /\ d \in CallRecord(stack) /\ d.phase = k.phase /\ d.home = k.home
          /\ d.tool = k.tool /\ d.pos = k.pos
      <4>1. 0 \in 0 .. MaxRetries
        BY Parameters
      <4> QED
        BY <3>1, <4>1 DEF CallRecord
    <3>3. Becomes(c, Up(d, [k.out EXCEPT !.attempts = k.attempt + 1]))
          /\ UNCHANGED <<stack, breakers>>
      BY <2>10 DEF Return, built, shared
    <3> HIDE DEF d
    <3> QED
      BY <3>1, <3>2, <3>3, UpOutside
  <2>11. CASE WakeUp(c)
    <3> DEFINE d == [Down(k) EXCEPT !.attempt = @ + 1, !.out = Ok]
    <3>1. stack[k.pos] = "retry" /\ k.phase \in Active /\ k \in CallRecord(stack)
      BY <2>11, OnItsWay DEF WakeUp, Active, Placed
    <3>2. d.phase = "down" /\ d.home = k.home /\ d.tool = k.tool /\ d.pos = k.pos + 1
      BY <3>1 DEF Down, CallRecord
    <3>3. Becomes(c, d) /\ UNCHANGED <<stack, breakers>>
      BY <2>11 DEF WakeUp, built, shared
    <3> HIDE DEF d
    <3> QED
      BY <3>1, <3>2, <3>3, DownOutside
  <2>12. ASSUME NEW w \in 0 .. MaxDelay, BackOff(c, w)
         PROVE  Held' = Held /\ Mode' = Mode /\ Cooled' = Cooled
    <3> DEFINE d == [k EXCEPT !.phase = "sleep", !.left = w]
    <3>1. stack[k.pos] = "retry" /\ k.phase \in Active /\ k \in CallRecord(stack)
      BY <2>12, OnItsWay DEF BackOff, Leaves, Active
    <3>2. d.phase = "sleep" /\ d.home = k.home /\ d.tool = k.tool /\ d.pos = k.pos
      BY <3>1 DEF CallRecord
    <3>3. Becomes(c, d) /\ UNCHANGED <<stack, breakers>>
      BY <2>12 DEF BackOff, built, shared
    <3> HIDE DEF d
    <3> QED
      BY <3>1, <3>2, <3>3, DownOutside
  <2>13. CASE Unrouted(c)
    <3>1. k.phase = "down" /\ k.phase \in Active
      BY <2>13 DEF Unrouted, Enters, Active
    <3>2. k \in CallRecord(stack)
      BY <3>1, OnItsWay
    <3> QED
      BY <2>13, <3>1, <3>2, UpOutside DEF Unrouted, built, shared
  <2>14. CASE Send(c)
    <3> DEFINE d == [k EXCEPT !.phase = "running", !.spent = 0]
    <3>1. stack[k.pos] = "server" /\ k.phase \in Active /\ k \in CallRecord(stack)
      BY <2>14, OnItsWay DEF Send, Enters, Active
    <3>2. d.phase = "running" /\ d.home = k.home /\ d.tool = k.tool /\ d.pos = k.pos
      BY <3>1 DEF CallRecord
    <3>3. Becomes(c, d) /\ UNCHANGED <<stack, breakers>>
      BY <2>14 DEF Send, built, shared
    <3> HIDE DEF d
    <3> QED
      BY <3>1, <3>2, <3>3, DownOutside
  <2>15. CASE TimeOut(c)
    <3>1. k.phase = "running" /\ k.phase \in Active
      BY <2>15 DEF TimeOut, Active
    <3>2. k \in CallRecord(stack)
      BY <3>1, OnItsWay
    <3> QED
      BY <2>15, <3>1, <3>2, UpOutside DEF TimeOut, built, shared
  <2> QED
    BY <1>5, <2>1, <2>2, <2>3, <2>4, <2>5, <2>6, <2>7, <2>8, <2>9, <2>10, <2>11, <2>12, <2>13,
       <2>14, <2>15 DEF Layer
<1>6. ASSUME NEW c \in Calls, Drop(c)
      PROVE  Gate!GateNext \/ (Held' = Held /\ Mode' = Mode /\ Cooled' = Cooled)
  BY <1>6, DropLeaves
<1>7. ASSUME NEW c \in Calls, NEW o, Answer(c, o)
      PROVE  Held' = Held /\ Mode' = Mode /\ Cooled' = Cooled
  <2>1. call[c].phase = "running" /\ call[c].phase \in Active
    BY <1>7 DEF Answer, Active
  <2>2. call[c] \in CallRecord(stack)
    BY <2>1, OnItsWay
  <2> QED
    BY <1>7, <2>1, <2>2, UpOutside DEF Answer, built, shared
<1>8. ASSUME Tick PROVE Gate!GateNext
  BY <1>8, TickCools
<1>9. CASE UNCHANGED vars
  <2>1. stack' = stack /\ call' = call /\ breakers' = breakers
    BY <1>9 DEF vars
  <2> QED
    BY <2>1 DEF Held, Inside, Mode, Cooled
<1> QED
  BY <1>1, <1>2, <1>3, <1>4, <1>5, <1>6, <1>7, <1>8, <1>9 DEF Next

\* In every stack the breaker layer keeps the promise of BreakerGate: only calls
\* that come back through it open or close it, and an open one lets nobody in
\* before its reset_timeout (circuit_breaker.rs, lib.rs:173-192).
THEOREM ImplementsGateHolds == Spec => ImplementsGate
<1>1. Init => Gate!GateInit
  <2> SUFFICES ASSUME Init PROVE Gate!GateInit
    OBVIOUS
  <2>1. /\ \A t \in Tools : breakers[t].state = "Closed"
        /\ \A t \in Tools : (breakers[t].state = "Open" /\ ResetElapsed(breakers[t])) = FALSE
    BY DEF Init, NewBreaker
  <2>2. \A c \in Calls : ~Inside(c)
    BY DEF Init, Inside, NoCall
  <2>3. Mode = [t \in Tools |-> "Closed"] /\ Cooled = [t \in Tools |-> FALSE]
    BY <2>1 DEF Mode, Cooled
  <2>4. Held = [c \in Calls |-> NoTool]
    BY <2>2 DEF Held
  <2> QED
    BY <2>3, <2>4 DEF Gate!GateInit, Mode, Cooled, Held
<1>2. RuntimeInv /\ RuntimeInv' /\ [Next]_vars => [Gate!GateNext]_(Gate!gateVars)
  <2> SUFFICES ASSUME RuntimeInv, RuntimeInv', [Next]_vars
               PROVE  Gate!GateNext \/ UNCHANGED Gate!gateVars
    OBVIOUS
  <2>1. Gate!GateNext \/ (Held' = Held /\ Mode' = Mode /\ Cooled' = Cooled)
    BY RuntimeSteps
  <2>2. ASSUME Held' = Held, Mode' = Mode, Cooled' = Cooled PROVE UNCHANGED Gate!gateVars
    BY <2>2 DEF Gate!gateVars, Mode, Cooled, Held
  <2> QED
    BY <2>1, <2>2
<1> QED
  BY <1>1, <1>2, RuntimeInvariant, PTL DEF Spec, ImplementsGate, Gate!GateSpec
=============================================================================
