----------------------------- MODULE CacheProofs -----------------------------
(***************************************************************************)
(* Proofs about Cache: type correctness, which includes that only results  *)
(* of cacheable tools are stored, and with no more than their lifetime;    *)
(* how stale a hit can be; and that older data comes back only by a race.  *)
(***************************************************************************)
EXTENDS Cache, TLAPS

\* What a caller holds is a version of the key it asked for.
AnswersFit ==
    \A c \in Callers : answer[c] # NoVersion =>
        key[c] # NoKey /\ answer[c] \in Versions(key[c])

CacheInv == TypeOK /\ AnswersFit

\* Versions and keys are never mistaken for the absence of one.
LEMMA VersionsAreNat ==
    ASSUME NEW k \in Keys
    PROVE  /\ Versions(k) \subseteq AllVersions /\ Versions(k) \subseteq Nat
           /\ NoVersion \notin Versions(k) /\ 0 \in Versions(k)
           /\ k # NoKey /\ Ttl[k] \in Nat \cup {Forever} /\ MaxVersion[k] \in Nat
<1>1. MaxVersion[k] \in Nat /\ Ttl[k] \in Nat \cup {Forever} /\ k # NoKey
  BY CacheAssumption
<1>2. Versions(k) = 0 .. MaxVersion[k]
  BY DEF Versions
<1>3. Versions(k) \subseteq AllVersions
  BY DEF AllVersions
<1>4. NoVersion = -1
  BY DEF NoVersion
<1> QED
  BY <1>1, <1>2, <1>3, <1>4

\* The conjunct of TypeOK about the entries of one key.
EntryOK(e, k) ==
    /\ e \in [version : AllVersions \cup {NoVersion}, left : Int]
    /\ e # NoEntry =>
          /\ k \in Cacheable /\ e.version \in Versions(k)
          /\ IF Ttl[k] = Forever THEN e.left = Forever ELSE e.left \in 0 .. Ttl[k]

\* TypeOK, key by key.
LEMMA Entries == TypeOK => \A k \in Keys : EntryOK(store[k], k)
  BY DEF TypeOK, EntryOK

\* An entry that is not there is one of the right type.
LEMMA NoEntryOK == \A k \in Keys : EntryOK(NoEntry, k)
  BY DEF EntryOK, NoEntry

\* What an answer leaves in the map (CacheLayer::call_tool, the insertion).
LEMMA StoredOK ==
    ASSUME TypeOK, NEW k \in Keys, NEW v \in Versions(k) \cup {NoVersion}
    PROVE  /\ Stored(k, v) = [j \in Keys |-> Stored(k, v)[j]]
           /\ \A j \in Keys : EntryOK(Stored(k, v)[j], j)
<1>1. store = [j \in Keys |-> store[j]] /\ \A j \in Keys : EntryOK(store[j], j)
  BY Entries DEF TypeOK
<1>2. CASE v = NoVersion \/ k \notin Cacheable
  BY <1>1, <1>2 DEF Stored
<1>3. CASE v \in Versions(k) /\ k \in Cacheable
  <2> DEFINE e == [version |-> v, left |-> Ttl[k]]
  <2>1. v # NoVersion /\ v \in AllVersions /\ Ttl[k] \in Nat \cup {Forever} /\ Forever = -1
    BY <1>3, VersionsAreNat DEF Forever
  <2>2. EntryOK(e, k)
    BY <1>3, <2>1 DEF EntryOK
  <2>3. Stored(k, v) = [store EXCEPT ![k] = e]
    BY <1>3, <2>1 DEF Stored
  <2> HIDE DEF e
  <2> QED
    BY <1>1, <2>2, <2>3
<1> QED
  BY <1>2, <1>3

\* The newest version seen of a key is a version of it or none.
LEMMA AtLeastType ==
    ASSUME NEW S \in SUBSET Int, NEW a \in S, NEW b \in S
    PROVE  AtLeast(a, b) \in S
  BY DEF AtLeast

\* AllVersions are numbers.
LEMMA AllVersionsAreInt == AllVersions \cup {NoVersion} \subseteq Int
  BY VersionsAreNat DEF AllVersions, NoVersion

\* TypeOK follows from the types of the single entries.
LEMMA TypeFromEntries ==
    ASSUME store' = [k \in Keys |-> store'[k]],
           \A k \in Keys : EntryOK(store'[k], k),
           \A k \in Keys : world'[k] \in Versions(k) /\ gone'[k] \in [Versions(k) -> Nat],
           key' \in [Callers -> Keys \cup {NoKey}],
           answer' \in [Callers -> AllVersions \cup {NoVersion}],
           ran' \in [Callers -> NoVersion .. Latency],
           seen' \in [Keys -> AllVersions \cup {NoVersion}],
           raced' \in [Keys -> BOOLEAN]
    PROVE  TypeOK'
<1>1. store' \in [Keys -> [version : AllVersions \cup {NoVersion}, left : Int]]
  BY DEF EntryOK
<1> QED
  BY <1>1 DEF TypeOK, EntryOK

\* Both are kept by every step (CacheLayer::call_tool).
LEMMA CacheInvariant == Spec => []CacheInv
<1>1. Init => CacheInv
  <2> SUFFICES ASSUME Init PROVE CacheInv
    OBVIOUS
  <2>1. \A k \in Keys : [v \in Versions(k) |-> 0] \in [Versions(k) -> Nat]
    OBVIOUS
  <2>2. NoVersion \in NoVersion .. Latency
    BY CacheAssumption DEF NoVersion
  <2>3. TypeOK
    BY <2>1, <2>2, VersionsAreNat DEF Init, TypeOK, NoEntry
  <2> QED
    BY <2>3 DEF CacheInv, AnswersFit, Init
<1>2. CacheInv /\ [Next]_vars => CacheInv'
  <2> SUFFICES ASSUME CacheInv, [Next]_vars PROVE CacheInv'
    OBVIOUS
  <2>1. TypeOK /\ AnswersFit /\ \A k \in Keys : EntryOK(store[k], k)
    BY Entries DEF CacheInv
  <2>2. /\ store = [k \in Keys |-> store[k]]
        /\ \A k \in Keys : world[k] \in Versions(k) /\ gone[k] \in [Versions(k) -> Nat]
        /\ key \in [Callers -> Keys \cup {NoKey}]
        /\ answer \in [Callers -> AllVersions \cup {NoVersion}]
        /\ ran \in [Callers -> NoVersion .. Latency]
        /\ seen \in [Keys -> AllVersions \cup {NoVersion}]
        /\ raced \in [Keys -> BOOLEAN]
    BY <2>1 DEF TypeOK
  <2>3. ASSUME NEW c \in Callers, NEW k \in Keys, Hit(c, k) PROVE CacheInv'
    <3>1. store[k].version \in AllVersions \cup {NoVersion}
      BY <2>1 DEF EntryOK
    <3>2. AtLeast(seen[k], store[k].version) \in AllVersions \cup {NoVersion}
      BY <2>2, <3>1, AtLeastType, AllVersionsAreInt
    <3>3. seen' \in [Keys -> AllVersions \cup {NoVersion}]
      BY <2>2, <2>3, <3>2 DEF Hit
    <3>4. TypeOK'
      BY <2>1, <2>2, <2>3, <3>3, TypeFromEntries DEF Hit
    <3> QED
      BY <2>1, <2>3, <3>4 DEF CacheInv, AnswersFit, Hit
  <2>4. ASSUME NEW c \in Callers, NEW k \in Keys, Miss(c, k) PROVE CacheInv'
    <3>1. store' = [j \in Keys |-> store'[j]] /\ \A j \in Keys : EntryOK(store'[j], j)
      BY <2>1, <2>2, <2>4, NoEntryOK DEF Miss
    <3>2. raced' \in [Keys -> BOOLEAN]
      BY <2>2, <2>4 DEF Miss, InFlight
    <3>3. key' \in [Callers -> Keys \cup {NoKey}]
      BY <2>2, <2>4 DEF Miss
    <3>4. TypeOK'
      BY <2>2, <2>4, <3>1, <3>2, <3>3, TypeFromEntries DEF Miss
    <3>5. AnswersFit'
      BY <2>1, <2>2, <2>4 DEF AnswersFit, Miss
    <3> QED
      BY <3>4, <3>5 DEF CacheInv
  <2>5. ASSUME NEW c \in Callers, NEW k \in Keys, Bypass(c, k) PROVE CacheInv'
    <3>1. key' \in [Callers -> Keys \cup {NoKey}]
      BY <2>2, <2>5 DEF Bypass
    <3>2. TypeOK'
      BY <2>1, <2>2, <2>5, <3>1, TypeFromEntries DEF Bypass
    <3>3. AnswersFit'
      BY <2>1, <2>2, <2>5 DEF AnswersFit, Bypass
    <3> QED
      BY <3>2, <3>3 DEF CacheInv
  <2>6. ASSUME NEW c \in Callers, NEW ok \in BOOLEAN, Run(c, ok) PROVE CacheInv'
    <3>1. key[c] \in Keys /\ world[key[c]] \in Versions(key[c])
      BY <2>2, <2>6 DEF Run
    <3>2. answer' \in [Callers -> AllVersions \cup {NoVersion}]
      BY <2>2, <2>6, <3>1, VersionsAreNat DEF Run
    <3>3. ran' \in [Callers -> NoVersion .. Latency]
      BY <2>2, <2>6, CacheAssumption DEF Run, NoVersion
    <3>4. TypeOK'
      BY <2>1, <2>2, <2>6, <3>2, <3>3, TypeFromEntries DEF Run
    <3>5. AnswersFit'
      BY <2>1, <2>2, <2>6, <3>1 DEF AnswersFit, Run
    <3> QED
      BY <3>4, <3>5 DEF CacheInv
  <2>7. ASSUME NEW c \in Callers, Finish(c) PROVE CacheInv'
    <3> DEFINE k == key[c]
    <3>1. k \in Keys /\ answer[c] \in Versions(k) \cup {NoVersion}
      BY <2>1, <2>2, <2>7 DEF Finish, AnswersFit
    <3>2. store' = [j \in Keys |-> store'[j]] /\ \A j \in Keys : EntryOK(store'[j], j)
      BY <2>1, <2>7, <3>1, StoredOK DEF Finish
    <3>3. seen' \in [Keys -> AllVersions \cup {NoVersion}]
      BY <2>2, <2>7, AtLeastType, AllVersionsAreInt DEF Finish
    <3>4. /\ key' \in [Callers -> Keys \cup {NoKey}]
          /\ answer' \in [Callers -> AllVersions \cup {NoVersion}]
          /\ ran' \in [Callers -> NoVersion .. Latency]
      BY <2>2, <2>7, CacheAssumption DEF Finish, NoVersion
    <3>5. TypeOK'
      BY <2>2, <2>7, <3>2, <3>3, <3>4, TypeFromEntries DEF Finish
    <3>6. AnswersFit'
      BY <2>1, <2>2, <2>7 DEF AnswersFit, Finish
    <3> QED
      BY <3>5, <3>6 DEF CacheInv
  <2>8. ASSUME NEW c \in Callers, Drop(c) PROVE CacheInv'
    <3>1. /\ key' \in [Callers -> Keys \cup {NoKey}]
          /\ answer' \in [Callers -> AllVersions \cup {NoVersion}]
          /\ ran' \in [Callers -> NoVersion .. Latency]
      BY <2>2, <2>8, CacheAssumption DEF Drop, NoVersion
    <3>2. TypeOK'
      BY <2>1, <2>2, <2>8, <3>1, TypeFromEntries DEF Drop
    <3>3. AnswersFit'
      BY <2>1, <2>2, <2>8 DEF AnswersFit, Drop
    <3> QED
      BY <3>2, <3>3 DEF CacheInv
  <2>9. ASSUME NEW k \in Keys, Update(k) PROVE CacheInv'
    <3>1. \A j \in Keys : world'[j] \in Versions(j) /\ gone'[j] \in [Versions(j) -> Nat]
      <4>1. TAKE j \in Keys
      <4>2. world[j] \in 0 .. MaxVersion[j] /\ MaxVersion[j] \in Nat
        BY <2>2, VersionsAreNat DEF Versions
      <4>3. world'[j] \in 0 .. MaxVersion[j]
        BY <2>9, <4>2, <2>1 DEF Update, TypeOK
      <4> QED
        BY <2>2, <2>9, <4>3 DEF Update, Versions
    <3>2. TypeOK'
      BY <2>1, <2>2, <2>9, <3>1, TypeFromEntries DEF Update
    <3> QED
      BY <2>1, <2>9, <3>2 DEF CacheInv, AnswersFit, Update
  <2>10. CASE Tick
    <3>1. store' = [j \in Keys |-> store'[j]] /\ \A j \in Keys : EntryOK(store'[j], j)
      <4>1. ASSUME NEW j \in Keys PROVE EntryOK(store'[j], j)
        <5>1. store'[j] = IF store[j].left > 0 THEN [store[j] EXCEPT !.left = @ - 1] ELSE store[j]
          BY <2>10 DEF Tick
        <5>2. EntryOK(store[j], j) /\ Ttl[j] \in Nat \cup {Forever} /\ Forever = -1
          BY <2>1, VersionsAreNat DEF Forever
        <5>3. CASE ~(store[j].left > 0)
          BY <5>1, <5>2, <5>3
        <5>4. CASE store[j].left > 0
          <6> DEFINE e == [store[j] EXCEPT !.left = @ - 1]
          <6>1. store[j] # NoEntry
            BY <5>4 DEF NoEntry
          <6>2. /\ store[j] \in [version : AllVersions \cup {NoVersion}, left : Int]
                /\ j \in Cacheable /\ store[j].version \in Versions(j)
                /\ Ttl[j] \in Nat /\ Ttl[j] # Forever /\ store[j].left \in 0 .. Ttl[j]
            BY <5>2, <5>4, <6>1 DEF EntryOK
          <6>3. e.version = store[j].version /\ e.left = store[j].left - 1
            BY <6>2
          <6>4. e \in [version : AllVersions \cup {NoVersion}, left : Int]
            BY <6>2
          <6>5. e.left \in 0 .. Ttl[j]
            BY <5>4, <6>2, <6>3
          <6>6. EntryOK(e, j)
            BY <6>2, <6>3, <6>4, <6>5 DEF EntryOK
          <6> QED
            BY <5>1, <5>4, <6>6
        <5> QED
          BY <5>3, <5>4
      <4>2. store' = [j \in Keys |-> store'[j]]
        BY <2>10 DEF Tick
      <4> QED
        BY <4>1, <4>2
    <3>2. \A j \in Keys : world'[j] \in Versions(j) /\ gone'[j] \in [Versions(j) -> Nat]
      BY <2>2, <2>10 DEF Tick
    <3>3. ran' \in [Callers -> NoVersion .. Latency]
      BY <2>2, <2>10, CacheAssumption DEF Tick, NoVersion
    <3>4. TypeOK'
      BY <2>2, <2>10, <3>1, <3>2, <3>3, TypeFromEntries DEF Tick
    <3> QED
      BY <2>1, <2>10, <3>4 DEF CacheInv, AnswersFit, Tick
  <2>11. CASE UNCHANGED vars
    BY <2>1, <2>11 DEF CacheInv, AnswersFit, TypeOK, vars, Versions, EntryOK
  <2> QED
    BY <2>3, <2>4, <2>5, <2>6, <2>7, <2>8, <2>9, <2>10, <2>11 DEF Next
<1> QED
  BY <1>1, <1>2, PTL DEF Spec

\* Every variable stays in its set, for any tools, lifetimes and callers: an
\* entry belongs to a cacheable tool and its lifetime only shrinks
\* (cache.rs:89-103).
THEOREM TypeCorrect == Spec => []TypeOK
<1>1. CacheInv => TypeOK
  BY DEF CacheInv
<1> QED
  BY <1>1, CacheInvariant, PTL

-----------------------------------------------------------------------------
(* Staleness.                                                              *)

\* Only versions before the current one are out of date.
FreshUntilReplaced ==
    \A k \in Keys : \A v \in Versions(k) : v >= world[k] => gone[k][v] = 0

\* An answer under way went out of date after its tool ran.
AnswersAge ==
    \A c \in Callers : answer[c] # NoVersion =>
        ran[c] >= 0 /\ gone[key[c]][answer[c]] <= ran[c]

\* What is left of an entry's lifetime makes up for what it may still age.
EntriesAge ==
    \A k \in Keys : Live(k) /\ Ttl[k] # Forever =>
        gone[k][store[k].version] + store[k].left <= Ttl[k] + Latency

StalenessInv == FreshUntilReplaced /\ AnswersAge /\ EntriesAge

\* Time and the two critical sections keep the ages in step (cache.rs:76-103).
LEMMA StalenessInvariant == Spec => []StalenessInv
<1>1. Init => StalenessInv
  BY VersionsAreNat DEF Init, StalenessInv, FreshUntilReplaced, AnswersAge, EntriesAge,
     Live, NoEntry
<1>2. CacheInv /\ CacheInv' /\ StalenessInv /\ [Next]_vars => StalenessInv'
  <2> SUFFICES ASSUME CacheInv, CacheInv', StalenessInv, [Next]_vars PROVE StalenessInv'
    OBVIOUS
  <2>1. /\ \A k \in Keys : EntryOK(store[k], k)
        /\ \A k \in Keys : world[k] \in Versions(k) /\ gone[k] \in [Versions(k) -> Nat]
        /\ \A c \in Callers : key[c] \in Keys \cup {NoKey} /\ ran[c] \in NoVersion .. Latency
        /\ AnswersFit /\ Latency \in Nat /\ NoVersion = -1 /\ Forever = -1
    BY Entries, CacheAssumption DEF CacheInv, TypeOK, NoVersion, Forever
  <2>2. FreshUntilReplaced /\ AnswersAge /\ EntriesAge
    BY DEF StalenessInv
  <2>3. TypeOK /\ store \in [Keys -> [version : AllVersions \cup {NoVersion}, left : Int]]
    BY DEF CacheInv, TypeOK
  <2>4. ASSUME NEW c \in Callers, NEW k \in Keys, Hit(c, k) PROVE StalenessInv'
    BY <2>2, <2>4 DEF StalenessInv, FreshUntilReplaced, AnswersAge, EntriesAge, Live, Hit
  <2>5. ASSUME NEW c \in Callers, NEW k \in Keys, Miss(c, k) PROVE StalenessInv'
    <3>1. AnswersAge'
      BY <2>1, <2>2, <2>5, VersionsAreNat DEF AnswersAge, AnswersFit, Miss
    <3>2. EntriesAge'
      BY <2>2, <2>3, <2>5 DEF EntriesAge, Live, NoEntry, Miss
    <3> QED
      BY <2>2, <2>5, <3>1, <3>2 DEF StalenessInv, FreshUntilReplaced, Miss
  <2>6. ASSUME NEW c \in Callers, NEW k \in Keys, Bypass(c, k) PROVE StalenessInv'
    <3>1. AnswersAge'
      BY <2>1, <2>2, <2>6, VersionsAreNat DEF AnswersAge, AnswersFit, Bypass
    <3> QED
      BY <2>2, <2>6, <3>1 DEF StalenessInv, FreshUntilReplaced, EntriesAge, Live, Bypass
  <2>7. ASSUME NEW c \in Callers, NEW ok \in BOOLEAN, Run(c, ok) PROVE StalenessInv'
    <3>1. key[c] \in Keys /\ gone[key[c]][world[key[c]]] = 0
      BY <2>1, <2>2, <2>7, VersionsAreNat DEF FreshUntilReplaced, Run
    <3>2. AnswersAge'
      BY <2>2, <2>3, <2>7, <3>1 DEF AnswersAge, Run, TypeOK
    <3> QED
      BY <2>2, <2>7, <3>2 DEF StalenessInv, FreshUntilReplaced, EntriesAge, Live, Run
  <2>8. ASSUME NEW c \in Callers, Finish(c) PROVE StalenessInv'
    <3> DEFINE k == key[c]
               v == answer[c]
    <3>1. k \in Keys /\ v \in Versions(k) \cup {NoVersion} /\ Ttl[k] \in Nat \cup {Forever}
      BY <2>1, <2>8, VersionsAreNat DEF Finish, AnswersFit
    <3>2. AnswersAge'
      BY <2>2, <2>3, <2>8 DEF AnswersAge, Finish, TypeOK
    <3>3. CASE store' = store
      BY <2>2, <2>8, <3>2, <3>3 DEF StalenessInv, FreshUntilReplaced, EntriesAge, Live, Finish
    <3>4. CASE v # NoVersion /\ k \in Cacheable
      <4>1. store' = [store EXCEPT ![k] = [version |-> v, left |-> Ttl[k]]]
        BY <2>8, <3>4 DEF Finish, Stored
      <4>2. v \in Versions(k) /\ gone[k][v] \in Nat /\ gone[k][v] <= Latency
        <5>1. v \in Versions(k) /\ gone[k][v] \in Nat /\ gone[k][v] <= ran[c]
          BY <2>1, <2>2, <3>1, <3>4 DEF AnswersAge
        <5> QED
          BY <2>1, <5>1
      <4>3. EntriesAge'
        <5> SUFFICES ASSUME NEW j \in Keys, Live(j)', Ttl[j] # Forever
                     PROVE  gone'[j][store'[j].version] + store'[j].left <= Ttl[j] + Latency
          BY DEF EntriesAge
        <5>1. CASE j = k
          <6>1. store'[j].version = v /\ store'[j].left = Ttl[k]
            BY <2>3, <4>1, <5>1
          <6>2. gone' = gone
            BY <2>8 DEF Finish
          <6> QED
            BY <2>1, <3>1, <4>2, <5>1, <6>1, <6>2
        <5>2. CASE j # k
          <6>1. store'[j] = store[j] /\ gone' = gone
            BY <2>3, <2>8, <4>1, <5>2 DEF Finish
          <6> QED
            BY <2>2, <6>1 DEF EntriesAge, Live
        <5> QED
          BY <5>1, <5>2
      <4> QED
        BY <2>2, <2>8, <3>2, <4>3 DEF StalenessInv, FreshUntilReplaced, Finish
    <3> QED
      BY <2>8, <3>3, <3>4 DEF Finish, Stored
  <2>9. ASSUME NEW c \in Callers, Drop(c) PROVE StalenessInv'
    <3>1. AnswersAge'
      BY <2>2, <2>3, <2>9 DEF AnswersAge, Drop, TypeOK
    <3> QED
      BY <2>2, <2>9, <3>1 DEF StalenessInv, FreshUntilReplaced, EntriesAge, Live, Drop
  <2>10. ASSUME NEW k \in Keys, Update(k) PROVE StalenessInv'
    <3>1. FreshUntilReplaced'
      <4> SUFFICES ASSUME NEW j \in Keys, NEW v \in Versions(j), v >= world'[j]
                   PROVE  gone'[j][v] = 0
        BY DEF FreshUntilReplaced
      <4>1. world[j] \in Nat /\ v \in Nat /\ MaxVersion[j] \in Nat /\ gone' = gone
        BY <2>1, <2>10, VersionsAreNat DEF Update
      <4>2. v >= world[j]
        BY <2>3, <2>10, <4>1 DEF Update, TypeOK
      <4> QED
        BY <2>2, <4>1, <4>2 DEF FreshUntilReplaced
    <3> QED
      BY <2>2, <2>10, <3>1 DEF StalenessInv, AnswersAge, EntriesAge, Live, Update
  <2>11. CASE Tick
    <3>1. /\ \A k \in Keys : \A v \in Versions(k) :
                gone'[k][v] = IF v < world[k] /\ gone[k][v] < Horizon(k)
                              THEN gone[k][v] + 1 ELSE gone[k][v]
          /\ UNCHANGED <<world, key, answer>>
      BY <2>11 DEF Tick
    <3>2. FreshUntilReplaced'
      <4> SUFFICES ASSUME NEW j \in Keys, NEW v \in Versions(j), v >= world'[j]
                   PROVE  gone'[j][v] = 0
        BY DEF FreshUntilReplaced
      <4>1. world[j] \in Nat /\ v \in Nat /\ world' = world
        BY <2>1, <3>1, VersionsAreNat
      <4> QED
        BY <2>2, <3>1, <4>1 DEF FreshUntilReplaced
    <3>3. AnswersAge'
      <4> SUFFICES ASSUME NEW c \in Callers, answer'[c] # NoVersion
                   PROVE  ran'[c] >= 0 /\ gone'[key'[c]][answer'[c]] <= ran'[c]
        BY DEF AnswersAge
      <4> DEFINE k == key[c]
                 v == answer[c]
      <4>1. /\ k \in Keys /\ v \in Versions(k) /\ gone[k][v] \in Nat
            /\ ran[c] >= 0 /\ gone[k][v] <= ran[c] /\ ran[c] \in NoVersion .. Latency
        BY <2>1, <2>2, <3>1 DEF AnswersAge, AnswersFit
      <4>2. ran'[c] = ran[c] + 1
        BY <2>1, <2>11, <4>1 DEF Tick
      <4>3. gone'[k][v] <= gone[k][v] + 1 /\ gone'[k][v] \in Nat
        BY <3>1, <4>1
      <4> QED
        BY <2>1, <3>1, <4>1, <4>2, <4>3
    <3>4. EntriesAge'
      <4> SUFFICES ASSUME NEW j \in Keys, Live(j)', Ttl[j] # Forever
                   PROVE  gone'[j][store'[j].version] + store'[j].left <= Ttl[j] + Latency
        BY DEF EntriesAge
      <4>1. store'[j] = IF store[j].left > 0 THEN [store[j] EXCEPT !.left = @ - 1] ELSE store[j]
        BY <2>11 DEF Tick
      <4>2. EntryOK(store[j], j) /\ store[j] \in [version : AllVersions \cup {NoVersion}, left : Int]
        BY <2>1, <2>3
      <4>3. store[j] # NoEntry /\ store[j].left > 0
        <5>1. CASE store[j] = NoEntry
          BY <4>1, <5>1 DEF NoEntry, Live
        <5>2. CASE store[j] # NoEntry
          <6>1. store[j].left \in Nat
            BY <4>2, <5>2, VersionsAreNat DEF EntryOK
          <6> QED
            BY <4>1, <5>2, <6>1 DEF Live
        <5> QED
          BY <5>1, <5>2
      <4>4. Live(j)
        BY <4>2, <4>3 DEF Live
      <4>5. /\ store[j].version \in Versions(j) /\ store[j].left \in Nat
            /\ Ttl[j] \in Nat /\ gone[j][store[j].version] \in Nat
        BY <2>1, <4>2, <4>3, VersionsAreNat DEF EntryOK
      <4>6. store'[j].version = store[j].version /\ store'[j].left = store[j].left - 1
        BY <4>1, <4>2, <4>3
      <4>7. gone'[j][store[j].version] <= gone[j][store[j].version] + 1
            /\ gone'[j][store[j].version] \in Nat
        BY <3>1, <4>5
      <4>8. gone[j][store[j].version] + store[j].left <= Ttl[j] + Latency
        BY <2>2, <4>4 DEF EntriesAge
      <4> QED
        BY <2>1, <4>5, <4>6, <4>7, <4>8
    <3> QED
      BY <3>2, <3>3, <3>4 DEF StalenessInv
  <2>12. CASE UNCHANGED vars
    BY <2>2, <2>12 DEF StalenessInv, FreshUntilReplaced, AnswersAge, EntriesAge, Live, vars
  <2> QED
    BY <2>4, <2>5, <2>6, <2>7, <2>8, <2>9, <2>10, <2>11, <2>12 DEF Next
<1> QED
  BY <1>1, <1>2, CacheInvariant, PTL DEF Spec

\* What a hit returns went out of date less than its lifetime and the latency
\* of one answer ago, for any lifetimes, any latency and any number of callers,
\* however their fills overlap (cache.rs:76-103).
THEOREM BoundedStalenessHolds == Spec => []BoundedStaleness
<1>1. CacheInv /\ StalenessInv => BoundedStaleness
  <2> SUFFICES ASSUME CacheInv, StalenessInv, NEW k \in Keys, Live(k), Ttl[k] # Forever
               PROVE  gone[k][store[k].version] < Ttl[k] + Latency
    BY DEF BoundedStaleness
  <2>1. store[k] # NoEntry /\ store[k].left # 0 /\ EntryOK(store[k], k)
    BY Entries DEF Live, CacheInv
  <2>2. store[k].version \in Versions(k) /\ store[k].left \in Nat /\ Ttl[k] \in Nat
    BY <2>1, VersionsAreNat DEF EntryOK
  <2>3. gone[k][store[k].version] \in Nat /\ Latency \in Nat
    BY <2>2, CacheAssumption DEF CacheInv, TypeOK
  <2>4. gone[k][store[k].version] + store[k].left <= Ttl[k] + Latency
    BY DEF StalenessInv, EntriesAge
  <2> QED
    BY <2>1, <2>2, <2>3, <2>4
<1> QED
  BY <1>1, CacheInvariant, StalenessInvariant, PTL

-----------------------------------------------------------------------------
(* Races.                                                                  *)

\* Nothing is newer than the data itself.
NothingNewer ==
    /\ \A k \in Keys : seen[k] <= world[k] /\ store[k].version <= world[k]
    /\ \A c \in Callers : answer[c] # NoVersion => answer[c] <= world[key[c]]

\* Of a key whose fills have not overlapped, one call is under way at most, and
\* while it is, nothing is stored.
OneFill ==
    \A k \in Cacheable : ~raced[k] =>
        /\ \A c, d \in Callers : key[c] = k /\ key[d] = k => c = d
        /\ \A c \in Callers : key[c] = k => store[k] = NoEntry

\* Its answer is as new as anything seen before.
AnswersNew ==
    \A c \in Callers : answer[c] # NoVersion /\ key[c] \in Cacheable /\ ~raced[key[c]] =>
        answer[c] >= seen[key[c]]

RaceInv == NothingNewer /\ OneFill /\ AnswersNew /\ GoesBackOnlyByRace

\* The larger of two versions.
LEMMA AtLeastIsMax ==
    ASSUME NEW a \in Int, NEW b \in Int
    PROVE  /\ AtLeast(a, b) \in Int /\ AtLeast(a, b) >= a /\ AtLeast(a, b) >= b
           /\ AtLeast(a, b) \in {a, b}
  BY DEF AtLeast

\* The types that matter here, as numbers.
LEMMA RaceTypes ==
    ASSUME CacheInv
    PROVE  /\ \A k \in Keys : /\ seen[k] \in Int /\ store[k].version \in Int /\ world[k] \in Nat
                              /\ k # NoKey /\ raced[k] \in BOOLEAN
           /\ \A c \in Callers : /\ answer[c] \in Int /\ key[c] \in Keys \cup {NoKey}
                                 /\ answer[c] # NoVersion => key[c] \in Keys
           /\ store \in [Keys -> [version : AllVersions \cup {NoVersion}, left : Int]]
           /\ key \in [Callers -> Keys \cup {NoKey}] /\ raced \in [Keys -> BOOLEAN]
           /\ seen \in [Keys -> Int] /\ answer \in [Callers -> Int]
           /\ Cacheable \subseteq Keys /\ NoKey \notin Keys /\ NoVersion = -1
<1>1. TypeOK /\ AnswersFit
  BY DEF CacheInv
<1>2. /\ store \in [Keys -> [version : AllVersions \cup {NoVersion}, left : Int]]
      /\ key \in [Callers -> Keys \cup {NoKey}] /\ raced \in [Keys -> BOOLEAN]
      /\ seen \in [Keys -> AllVersions \cup {NoVersion}]
      /\ answer \in [Callers -> AllVersions \cup {NoVersion}]
      /\ \A k \in Keys : world[k] \in Versions(k)
  BY <1>1 DEF TypeOK
<1>3. \A k \in Keys : store[k].version \in Int /\ world[k] \in Nat
  BY <1>2, AllVersionsAreInt, VersionsAreNat
<1> QED
  BY <1>1, <1>2, <1>3, AllVersionsAreInt, CacheAssumption DEF AnswersFit, NoVersion

\* A lookup or a fill of one key is all a call does to it, and the tool saw the
\* data as it was while the call was under way (cache.rs:67-106).
LEMMA RaceInvariant == Spec => []RaceInv
<1>1. Init => RaceInv
  BY CacheAssumption DEF Init, RaceInv, NothingNewer, OneFill, AnswersNew, GoesBackOnlyByRace,
     Live, NoEntry, NoVersion
<1>2. CacheInv /\ RaceInv /\ [Next]_vars => RaceInv'
  <2> SUFFICES ASSUME CacheInv, RaceInv, [Next]_vars PROVE RaceInv'
    OBVIOUS
  <2>1. NothingNewer /\ OneFill /\ AnswersNew /\ GoesBackOnlyByRace
    BY DEF RaceInv
  <2> USE RaceTypes
  <2>2. \A k \in Keys : Live(k) => k \in Cacheable /\ store[k].version \in Versions(k)
    BY Entries DEF CacheInv, EntryOK, Live
  <2>3. ASSUME NEW c \in Callers, NEW k \in Keys, Hit(c, k) PROVE RaceInv'
    <3>1. /\ Live(k) /\ k \in Cacheable
          /\ seen' = [seen EXCEPT ![k] = AtLeast(seen[k], store[k].version)]
          /\ UNCHANGED <<store, world, key, answer, raced>>
      BY <2>3 DEF Hit
    <3>2. seen'[k] \in {seen[k], store[k].version} /\ seen'[k] \in Int
      BY <3>1, AtLeastIsMax
    <3>3. \A j \in Keys : j # k => seen'[j] = seen[j]
      BY <3>1
    <3>4. NothingNewer'
      BY <2>1, <3>1, <3>2, <3>3 DEF NothingNewer
    <3>5. OneFill'
      BY <2>1, <3>1 DEF OneFill
    <3>6. ~raced[k] => seen'[k] = store[k].version /\ \A d \in Callers : key[d] # k
      <4>1. ~raced[k] => store[k].version >= seen[k]
        BY <2>1, <3>1 DEF GoesBackOnlyByRace
      <4>2. seen'[k] = AtLeast(seen[k], store[k].version)
        BY <3>1
      <4>3. ~raced[k] => seen'[k] = store[k].version
        BY <4>1, <4>2 DEF AtLeast
      <4>4. ~raced[k] => \A d \in Callers : key[d] # k
        BY <2>1, <3>1 DEF OneFill, Live
      <4> QED
        BY <4>3, <4>4
    <3>7. AnswersNew'
      BY <2>1, <3>1, <3>3, <3>6 DEF AnswersNew
    <3>8. GoesBackOnlyByRace'
      BY <2>1, <3>1, <3>3, <3>6 DEF GoesBackOnlyByRace, Live
    <3> QED
      BY <3>4, <3>5, <3>7, <3>8 DEF RaceInv
  <2>4. ASSUME NEW c \in Callers, NEW k \in Keys, Miss(c, k) PROVE RaceInv'
    <3>1. /\ k \in Cacheable /\ key[c] = NoKey /\ answer[c] = NoVersion
          /\ store' = [store EXCEPT ![k] = NoEntry] /\ key' = [key EXCEPT ![c] = k]
          /\ raced' = [raced EXCEPT ![k] = \E d \in Callers : key[d] = k]
          /\ UNCHANGED <<world, answer, seen>>
      BY <2>4 DEF Miss, InFlight
    <3>2. \A j \in Keys : j # k => store'[j] = store[j] /\ raced'[j] = raced[j]
      BY <3>1
    <3>3. store'[k] = NoEntry /\ (raced'[k] <=> \E d \in Callers : key[d] = k)
      BY <3>1
    <3>4. \A d \in Callers : d # c => key'[d] = key[d]
      BY <3>1
    <3>5. key'[c] = k
      BY <3>1
    <3>6. NothingNewer'
      BY <2>1, <3>1, <3>2, <3>3, <3>4, <3>5 DEF NothingNewer, NoEntry
    <3>7. OneFill'
      BY <2>1, <3>2, <3>3, <3>4, <3>5 DEF OneFill
    <3>8. AnswersNew'
      BY <2>1, <3>1, <3>2, <3>3, <3>4, <3>5 DEF AnswersNew
    <3>9. GoesBackOnlyByRace'
      BY <2>1, <3>1, <3>2, <3>3 DEF GoesBackOnlyByRace, Live
    <3> QED
      BY <3>6, <3>7, <3>8, <3>9 DEF RaceInv
  <2>5. ASSUME NEW c \in Callers, NEW k \in Keys, Bypass(c, k) PROVE RaceInv'
    <3>1. /\ k \notin Cacheable /\ key[c] = NoKey /\ answer[c] = NoVersion
          /\ key' = [key EXCEPT ![c] = k]
          /\ UNCHANGED <<store, world, answer, seen, raced>>
      BY <2>5 DEF Bypass
    <3>2. key'[c] = k /\ \A d \in Callers : d # c => key'[d] = key[d]
      BY <3>1
    <3> QED
      BY <2>1, <3>1, <3>2 DEF RaceInv, NothingNewer, OneFill, AnswersNew, GoesBackOnlyByRace, Live
  <2>6. ASSUME NEW c \in Callers, NEW ok \in BOOLEAN, Run(c, ok) PROVE RaceInv'
    <3>1. /\ key[c] \in Keys
          /\ answer' = [answer EXCEPT ![c] = IF ok THEN world[key[c]] ELSE NoVersion]
          /\ UNCHANGED <<store, world, key, seen, raced>>
      BY <2>6 DEF Run
    <3>2. answer'[c] \in {world[key[c]], NoVersion} /\ \A d \in Callers : d # c => answer'[d] = answer[d]
      BY <3>1
    <3>3. NothingNewer'
      BY <2>1, <3>1, <3>2 DEF NothingNewer
    <3>4. AnswersNew'
      BY <2>1, <3>1, <3>2 DEF AnswersNew, NothingNewer
    <3> QED
      BY <2>1, <3>1, <3>3, <3>4 DEF RaceInv, OneFill, GoesBackOnlyByRace, Live
  <2>7. ASSUME NEW c \in Callers, Finish(c) PROVE RaceInv'
    <3> DEFINE k == key[c]
               v == answer[c]
    <3>1. /\ k \in Keys /\ v \in Int
          /\ store' = Stored(k, v)
          /\ key' = [key EXCEPT ![c] = NoKey] /\ answer' = [answer EXCEPT ![c] = NoVersion]
          /\ seen' = [seen EXCEPT ![k] = AtLeast(seen[k], v)]
          /\ UNCHANGED <<world, raced>>
      BY <2>7 DEF Finish
    <3>2. v <= world[k] \/ v = NoVersion
      BY <2>1 DEF NothingNewer
    <3>3. /\ seen'[k] \in {seen[k], v} /\ seen'[k] \in Int
          /\ \A j \in Keys : j # k => seen'[j] = seen[j]
      BY <3>1, AtLeastIsMax
    <3>4. /\ key'[c] = NoKey /\ answer'[c] = NoVersion
          /\ \A d \in Callers : d # c => key'[d] = key[d] /\ answer'[d] = answer[d]
      BY <3>1
    <3>5. /\ \A j \in Keys : j # k => store'[j] = store[j]
          /\ store'[k] = store[k] \/ store'[k].version = v
          /\ v = NoVersion => store'[k] = store[k]
          /\ k \in Cacheable /\ v # NoVersion => store'[k].version = v
          /\ k \notin Cacheable => store'[k] = store[k]
      BY <3>1 DEF Stored
    <3>6. NothingNewer'
      BY <2>1, <3>1, <3>2, <3>3, <3>4, <3>5 DEF NothingNewer
    <3>7. k \in Cacheable /\ ~raced[k] =>
            /\ \A d \in Callers : d # c => key[d] # k
            /\ store[k] = NoEntry
            /\ v # NoVersion => v >= seen[k]
      BY <2>1 DEF OneFill, AnswersNew
    <3>8. OneFill'
      BY <2>1, <3>1, <3>4, <3>5, <3>7 DEF OneFill
    <3>9. AnswersNew'
      BY <2>1, <3>1, <3>3, <3>4, <3>7 DEF AnswersNew
    <3>10. GoesBackOnlyByRace'
      <4> SUFFICES ASSUME NEW j \in Keys, Live(j)', ~raced'[j]
                   PROVE  store'[j].version >= seen'[j]
        BY DEF GoesBackOnlyByRace
      <4>1. CASE j # k
        BY <2>1, <3>1, <3>3, <3>5, <4>1 DEF GoesBackOnlyByRace, Live
      <4>2. CASE j = k /\ k \notin Cacheable
        BY <2>2, <3>5, <4>2 DEF Live
      <4>3. CASE j = k /\ k \in Cacheable /\ v = NoVersion
        BY <3>1, <3>5, <3>7, <4>3 DEF Live
      <4>4. CASE j = k /\ k \in Cacheable /\ v # NoVersion
        BY <3>1, <3>3, <3>5, <3>7, <4>4
      <4> QED
        BY <4>1, <4>2, <4>3, <4>4
    <3> QED
      BY <3>6, <3>8, <3>9, <3>10 DEF RaceInv
  <2>8. ASSUME NEW c \in Callers, Drop(c) PROVE RaceInv'
    <3>1. /\ key' = [key EXCEPT ![c] = NoKey] /\ answer' = [answer EXCEPT ![c] = NoVersion]
          /\ UNCHANGED <<store, world, seen, raced>>
      BY <2>8 DEF Drop
    <3>2. /\ key'[c] = NoKey /\ answer'[c] = NoVersion
          /\ \A d \in Callers : d # c => key'[d] = key[d] /\ answer'[d] = answer[d]
      BY <3>1
    <3> QED
      BY <2>1, <3>1, <3>2 DEF RaceInv, NothingNewer, OneFill, AnswersNew, GoesBackOnlyByRace, Live
  <2>9. ASSUME NEW k \in Keys, Update(k) PROVE RaceInv'
    <3>1. UNCHANGED <<store, key, answer, seen, raced>> /\ world' = [world EXCEPT ![k] = @ + 1]
      BY <2>9 DEF Update
    <3>2. \A j \in Keys : world[j] <= world'[j] /\ world'[j] \in Nat
      <4>1. DOMAIN world' = DOMAIN world /\ \A j \in Keys : j # k => world'[j] = world[j]
        BY <3>1
      <4>2. world'[k] \in {world[k], world[k] + 1}
        BY <3>1
      <4> QED
        BY <4>1, <4>2
    <3>3. NothingNewer'
      BY <2>1, <3>1, <3>2 DEF NothingNewer
    <3> QED
      BY <2>1, <3>1, <3>3 DEF RaceInv, OneFill, AnswersNew, GoesBackOnlyByRace, Live
  <2>10. CASE Tick
    <3>1. UNCHANGED <<world, key, answer, seen, raced>>
      BY <2>10 DEF Tick
    <3>2. \A k \in Keys : store'[k].version = store[k].version
      BY <2>10 DEF Tick
    <3>3. \A k \in Keys : store[k] = NoEntry => store'[k] = NoEntry
      BY <2>10 DEF Tick, NoEntry
    <3>4. \A k \in Keys : Live(k)' => Live(k)
      <4> SUFFICES ASSUME NEW k \in Keys, Live(k)' PROVE Live(k)
        OBVIOUS
      <4>1. store'[k] = IF store[k].left > 0 THEN [store[k] EXCEPT !.left = @ - 1] ELSE store[k]
        BY <2>10 DEF Tick
      <4> QED
        BY <3>3, <4>1 DEF Live
    <3> QED
      BY <2>1, <3>1, <3>2, <3>3, <3>4 DEF RaceInv, NothingNewer, OneFill, AnswersNew, GoesBackOnlyByRace
  <2>11. CASE UNCHANGED vars
    BY <2>1, <2>11 DEF RaceInv, NothingNewer, OneFill, AnswersNew, GoesBackOnlyByRace, Live, vars
  <2> QED
    BY <2>3, <2>4, <2>5, <2>6, <2>7, <2>8, <2>9, <2>10, <2>11 DEF Next
<1> QED
  BY <1>1, <1>2, CacheInvariant, PTL DEF Spec

\* A live entry is as new as anything a caller has got, unless two misses of its
\* key overlapped: the await between the two locks is the only way back to older
\* data (cache.rs:89).
THEOREM GoesBackOnlyByRaceHolds == Spec => []GoesBackOnlyByRace
<1>1. RaceInv => GoesBackOnlyByRace
  BY DEF RaceInv
<1> QED
  BY <1>1, RaceInvariant, PTL
=============================================================================
