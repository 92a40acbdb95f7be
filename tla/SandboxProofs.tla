---------------------------- MODULE SandboxProofs ----------------------------
(***************************************************************************)
(* Proofs about Sandbox and Launch: for every list of system roots and of  *)
(* denied paths, every guest and every number of frames, a run is a        *)
(* session of the broker, reports the truth, keeps of the output what      *)
(* fits, leaves behind what NothingLeftBehind says at most, and its guest  *)
(* sees its files and writes where SeesItsFiles says.                      *)
(***************************************************************************)
EXTENDS Sandbox, BrokerProofs, SequenceTheorems

-----------------------------------------------------------------------------
(* Lists of mounts and rules.                                              *)

\* A set of positions that is not empty has a last one.
LEMMA LastPosition ==
    ASSUME NEW n \in Nat, NEW S \in SUBSET (1 .. n), S # {}
    PROVE  Max(S) \in S /\ \A x \in S : x <= Max(S)
<1> DEFINE T == {x .. n : x \in S}
<1>1. T \subseteq FiniteSubsetsOf(1 .. n) /\ T # {}
  <2>1. \A x \in S : x .. n \in SUBSET (1 .. n)
    OBVIOUS
  <2>2. IsFiniteSet(1 .. n)
    BY FS_Interval
  <2>3. FiniteSubsetsOf(1 .. n) = SUBSET (1 .. n)
    BY <2>2, FS_FiniteSubsetsOfFinite
  <2>4. T \subseteq SUBSET (1 .. n)
    BY <2>1
  <2>5. T # {}
    <3>1. PICK x \in S : TRUE
      OBVIOUS
    <3>2. x .. n \in T
      BY <3>1
    <3> QED
      BY <3>2
  <2> HIDE DEF T
  <2> QED
    BY <2>3, <2>4, <2>5
<1>2. PICK s \in T : \A t \in T : <<t, s>> \notin StrictSubsetOrdering(1 .. n)
  <2> HIDE DEF T
  <2> QED
    BY <1>1, FS_StrictSubsetOrderingWellFounded, WFMin
<1>3. PICK x \in S : s = x .. n
  OBVIOUS
<1>4. ASSUME NEW y \in S, y > x PROVE FALSE
  <2>1. y .. n \in T /\ y .. n \subseteq x .. n
    BY <1>4
  <2>2. x \in x .. n /\ x \notin y .. n
    BY <1>4
  <2>3. y .. n \in SUBSET (1 .. n) /\ x .. n \in SUBSET (1 .. n)
    OBVIOUS
  <2> QED
    BY <1>2, <1>3, <2>1, <2>2, <2>3 DEF StrictSubsetOrdering
<1>5. x \in S /\ \A y \in S : x >= y
  BY <1>4
<1> QED
  BY <1>5 DEF Max

\* Of the entries of a list that cover a path the last one decides.
LEMMA LastRules ==
    ASSUME NEW es, NEW n \in Nat, DOMAIN es = 1 .. n, NEW p, NEW otherwise,
           NEW i \in 1 .. n, Within(p, es[i].path),
           \A j \in 1 .. n : j > i => ~Within(p, es[j].path)
    PROVE  Ruling(es, p, otherwise) = es[i].what
<1> DEFINE Is == {j \in DOMAIN es : Within(p, es[j].path)}
<1>1. i \in Is /\ Is \in SUBSET (1 .. n) /\ \A j \in Is : j <= i
  OBVIOUS
<1> HIDE DEF Is
<1>2. Max(Is) \in Is /\ \A j \in Is : j <= Max(Is)
  BY <1>1, LastPosition
<1>3. Max(Is) = i
  <2> DEFINE m == Max(Is)
  <2>1. m \in 1 .. n /\ m <= i /\ i <= m
    BY <1>1, <1>2
  <2> HIDE DEF m
  <2>2. m = i
    BY <2>1
  <2> QED
    BY <2>2 DEF m
<1> QED
  BY <1>1, <1>3 DEF Ruling, Is

\* What is ruled is said by an entry that covers the path, or by none.
LEMMA RuledByAnEntry ==
    ASSUME NEW es, NEW n \in Nat, DOMAIN es = 1 .. n, NEW p, NEW otherwise
    PROVE  \/ /\ Ruling(es, p, otherwise) = otherwise
              /\ \A i \in 1 .. n : ~Within(p, es[i].path)
           \/ \E i \in 1 .. n : Within(p, es[i].path) /\ Ruling(es, p, otherwise) = es[i].what
<1> DEFINE Is == {j \in DOMAIN es : Within(p, es[j].path)}
<1>1. Is \in SUBSET (1 .. n)
  OBVIOUS
<1>2. CASE Is = {}
  BY <1>2 DEF Ruling
<1>3. CASE Is # {}
  <2>1. Max(Is) \in Is
    <3> HIDE DEF Is
    <3> QED
      BY <1>1, <1>3, LastPosition
  <2> QED
    BY <1>3, <2>1 DEF Ruling
<1> QED
  BY <1>2, <1>3

\* Names in a path (no prover takes a literal for an element of STRING).
Names == STRING \cup {"private", "tmp", "sock", "proc", "dev", "null"}

\* The paths of the constants are sequences of names.
LEMMA PathsAreNames ==
    /\ SystemRoots \in Seq(Seq(Names)) /\ DenyRead \in Seq(Seq(Names))
    /\ Places \subseteq Seq(Names) /\ \A s \in Setups : s.workdir \in Seq(Names)
<1>1. Seq(STRING) \subseteq Seq(Names)
  BY DEF Names
<1>2. \A s \in Seq(Seq(STRING)) : s \in Seq(Seq(Names))
  BY <1>1
<1> QED
  BY <1>1, <1>2, LaunchAssumption

\* The paths that the code names.
LEMMA NamedPaths ==
    /\ Tmp \in Seq(Names) /\ <<"sock">> \in Seq(Names) /\ <<"private">> \in Seq(Names)
    /\ <<"proc">> \in Seq(Names) /\ <<"dev">> \in Seq(Names)
    /\ <<"dev", "null">> \in Seq(Names) /\ Root \in Seq(Names)
<1>1. {"private", "tmp", "sock", "proc", "dev", "null"} \subseteq Names
  BY DEF Names
<1> QED
  BY <1>1 DEF Tmp, Root

\* A directory covers itself.
LEMMA WithinItself ==
    ASSUME NEW p \in Seq(Names)
    PROVE  Within(p, p) /\ Within(p, Root)
  BY DEF Within, IsPrefix, Root
\* A directory covers what it is extended to.
LEMMA WithinExtended ==
    ASSUME NEW a \in Seq(Names), NEW b \in Seq(Names)
    PROVE  Within(a \o b, a) /\ a \o b \in Seq(Names)
<1>1. /\ Len(a) \in Nat /\ Len(a) <= Len(a \o b) /\ a \o b \in Seq(Names)
      /\ \A i \in 1 .. Len(a) : (a \o b)[i] = a[i]
  OBVIOUS
<1> DEFINE c == a \o b
<1>2. c \in Seq(Names) /\ \A i \in 1 .. Len(a) : c[i] = a[i]
  BY <1>1
<1> HIDE DEF c
<1>3. SubSeq(a, 1, Len(a)) = SubSeq(c, 1, Len(a))
  BY <1>1, <1>2
<1> QED
  BY <1>1, <1>3 DEF Within, IsPrefix, c

\* The elements of one list, then those of another.
LEMMA Concatenated ==
    ASSUME NEW E, NEW a \in Seq(E), NEW b \in Seq(E)
    PROVE  /\ a \o b \in Seq(E) /\ DOMAIN (a \o b) = 1 .. Len(a) + Len(b)
           /\ \A i \in 1 .. Len(a) : (a \o b)[i] = a[i]
           /\ \A i \in Len(a) + 1 .. Len(a) + Len(b) : (a \o b)[i] = b[i - Len(a)]
  OBVIOUS

\* Two names make a path.
LEMMA PairJoined ==
    ASSUME NEW a, NEW b
    PROVE  <<a>> \o <<b>> = <<a, b>>
<1> DEFINE c == <<a>> \o <<b>>
           d == <<a, b>>
           E == {a, b}
<1>1. c \in Seq(E) /\ d \in Seq(E)
  OBVIOUS
<1>2. Len(c) = 2 /\ Len(d) = 2
  OBVIOUS
<1>3. c[1] = a /\ d[1] = a
  OBVIOUS
<1>4. c[2] = b /\ d[2] = b
  OBVIOUS
<1> HIDE DEF c, d, E
<1>5. \A i \in 1 .. Len(c) : c[i] = d[i]
  BY <1>2, <1>3, <1>4
<1>6. c = d
  BY <1>1, <1>2, <1>5, SeqEqual
<1> QED
  BY <1>6 DEF c, d

AnEntry == [what : {"ro-bind", "bind", "fresh", "allow", "deny"}, path : Seq(Names)]

\* An entry for each path of a list.
LEMMA EachPath ==
    ASSUME NEW what \in {"ro-bind", "bind", "fresh", "allow", "deny"},
           NEW paths \in Seq(Seq(Names))
    PROVE  /\ Each(what, paths) \in Seq(AnEntry)
           /\ Len(Each(what, paths)) = Len(paths)
           /\ \A i \in 1 .. Len(paths) : Each(what, paths)[i] = Entry(what, paths[i])
<1>1. Each(what, paths) = [i \in 1 .. Len(paths) |-> Entry(what, paths[i])]
  BY DEF Each
<1>2. \A i \in 1 .. Len(paths) : Entry(what, paths[i]) \in AnEntry
  BY DEF Entry, AnEntry
<1> QED
  BY <1>1, <1>2

RootCount == Len(SystemRoots)

\* The list of bwrap: system roots and fresh trees, the staging directory, and
\* /tmp for the socket as the last.
LEMMA MountList ==
    ASSUME NEW s \in Setups
    PROVE  LET n == RootCount
               m == Mounts(s)
           IN
           /\ n \in Nat /\ DOMAIN m = 1 .. n + 5
           /\ m[n + 5] = Entry("bind", Tmp) /\ m[n + 4] = Entry("ro-bind", s.workdir)
           /\ \A i \in 1 .. n + 4 : m[i].what \in {"ro-bind", "fresh"}
<1> DEFINE n == RootCount
           m == Mounts(s)
           roots == Each("ro-bind", SystemRoots)
           e1 == Entry("fresh", <<"proc">>)
           e2 == Entry("fresh", <<"dev">>)
           e3 == Entry("fresh", Tmp)
           e4 == Entry("ro-bind", s.workdir)
           e5 == Entry("bind", Tmp)
           last == <<e1, e2, e3, e4, e5>>
<1>1. SystemRoots \in Seq(Seq(Names)) /\ n \in Nat /\ s.workdir \in Seq(Names)
  BY PathsAreNames DEF RootCount
<1>2. /\ roots \in Seq(AnEntry) /\ Len(roots) = n
      /\ \A i \in 1 .. n : roots[i].what = "ro-bind"
  <2>1. /\ roots \in Seq(AnEntry) /\ Len(roots) = n
        /\ \A i \in 1 .. n : roots[i] = Entry("ro-bind", SystemRoots[i])
    BY <1>1, EachPath DEF RootCount
  <2> HIDE DEF roots
  <2> QED
    BY <2>1 DEF Entry
<1>3. /\ e1 \in AnEntry /\ e2 \in AnEntry /\ e3 \in AnEntry
      /\ e4 \in AnEntry /\ e5 \in AnEntry
  BY <1>1, NamedPaths DEF Entry, AnEntry
<1>4. /\ e1.what = "fresh" /\ e2.what = "fresh" /\ e3.what = "fresh" /\ e4.what = "ro-bind"
  BY DEF Entry
<1>5. m = roots \o last
  BY DEF Mounts
<1> HIDE DEF n, m, roots, e1, e2, e3, e4, e5
<1>6. last \in Seq(AnEntry) /\ Len(last) = 5 /\ last[4] = e4 /\ last[5] = e5
  BY <1>3
<1>7. \A i \in 1 .. 4 : last[i].what \in {"ro-bind", "fresh"}
  BY <1>3, <1>4
<1> HIDE DEF last
<1>8. /\ DOMAIN m = 1 .. n + 5 /\ \A i \in 1 .. n : m[i] = roots[i]
      /\ \A i \in n + 1 .. n + 5 : m[i] = last[i - n]
  <2>1. /\ DOMAIN m = 1 .. Len(roots) + Len(last)
        /\ \A i \in 1 .. Len(roots) : m[i] = roots[i]
        /\ \A i \in Len(roots) + 1 .. Len(roots) + Len(last) : m[i] = last[i - Len(roots)]
    <3>1. roots \in Seq(AnEntry)
      BY <1>2
    <3>2. last \in Seq(AnEntry)
      BY <1>6
    <3>3. m = roots \o last
      BY <1>5
    <3> QED
      BY <3>1, <3>2, <3>3, Concatenated
  <2> QED
    BY <1>2, <1>6, <2>1
<1>9. m[n + 5] = e5 /\ m[n + 4] = e4
  <2>1. n + 5 \in n + 1 .. n + 5 /\ n + 4 \in n + 1 .. n + 5 /\ n + 5 - n = 5 /\ n + 4 - n = 4
    BY <1>1
  <2>2. m[n + 5] = last[n + 5 - n]
    BY <1>1, <1>8, <2>1
  <2>3. m[n + 4] = last[n + 4 - n]
    BY <1>1, <1>8, <2>1
  <2> QED
    BY <1>6, <2>1, <2>2, <2>3
<1>10. ASSUME NEW i \in 1 .. n + 4 PROVE m[i].what \in {"ro-bind", "fresh"}
  <2>1. CASE i \in 1 .. n
    BY <1>2, <1>8, <2>1
  <2>2. CASE i \in n + 1 .. n + 4
    <3>1. i \in n + 1 .. n + 5 /\ i - n \in 1 .. 4
      BY <1>1, <2>2
    <3>2. m[i] = last[i - n]
      BY <1>8, <3>1
    <3>3. last[i - n].what \in {"ro-bind", "fresh"}
      BY <1>7, <3>1
    <3> QED
      BY <3>2, <3>3
  <2> QED
    BY <1>1, <2>1, <2>2
<1> QED
  BY <1>1, <1>8, <1>9, <1>10 DEF n, m, e4, e5

\* The socket lies in /tmp, wherever that is.
LEMMA EndpointInTmp ==
    ASSUME NEW s \in Setups
    PROVE  /\ Within(Endpoint, Tmp) /\ Within(Real(s, Endpoint), Real(s, Tmp))
           /\ Endpoint \in Seq(Names) /\ Tmp \in Seq(Names)
<1>1. Tmp \in Seq(Names) /\ <<"sock">> \in Seq(Names) /\ <<"private">> \in Seq(Names)
      /\ <<"private">> \o Tmp \in Seq(Names)
  BY NamedPaths
<1>2. Within(Endpoint, Tmp) /\ Endpoint \in Seq(Names)
  BY <1>1, WithinExtended DEF Endpoint
<1>3. CASE s.backend = "seatbelt"
  <2>1. Tmp # Root /\ Tmp[1] = "tmp" /\ Endpoint # Root /\ Endpoint[1] = "tmp"
    BY DEF Tmp, Endpoint, Root
  <2>2. /\ Real(s, Tmp) = <<"private">> \o Tmp
        /\ Real(s, Endpoint) = <<"private">> \o (Tmp \o <<"sock">>)
    BY <1>3, <2>1 DEF Real, Endpoint
  <2>3. <<"private">> \o (Tmp \o <<"sock">>) = (<<"private">> \o Tmp) \o <<"sock">>
    BY <1>1
  <2> QED
    BY <1>1, <1>2, <2>2, <2>3, WithinExtended
<1>4. CASE s.backend # "seatbelt"
  BY <1>1, <1>2, <1>4 DEF Real
<1> QED
  BY <1>1, <1>2, <1>3, <1>4

\* bwrap shows the guest its files, and lets it write in /tmp alone.
LEMMA MountsShowFiles ==
    ASSUME NEW s \in Setups, s.backend = "bubblewrap"
    PROVE  SeesItsFiles(s)
<1> DEFINE n == RootCount
           m == Mounts(s)
<1>1. /\ n \in Nat /\ n + 5 \in Nat /\ DOMAIN m = 1 .. n + 5 /\ n + 5 \in 1 .. n + 5
      /\ m[n + 5] = Entry("bind", Tmp) /\ m[n + 4] = Entry("ro-bind", s.workdir)
      /\ \A i \in 1 .. n + 4 : m[i].what \in {"ro-bind", "fresh"}
  <2>1. \A j \in Nat : j + 5 \in Nat /\ j + 5 \in 1 .. j + 5
    OBVIOUS
  <2> QED
    BY <2>1, MountList
<1>2. \A p \in Seq(Names) : Real(s, p) = p
  BY DEF Real
<1>3. s.workdir \in Seq(Names)
  BY PathsAreNames
<1>4. ASSUME NEW p \in Seq(Names), Within(p, Tmp) PROVE Ruling(m, p, "none") = "bind"
  <2> HIDE DEF m, n
  <2>1. Within(p, m[n + 5].path) /\ m[n + 5].what = "bind"
    BY <1>1, <1>4 DEF Entry
  <2>2. \A j \in 1 .. n + 5 : ~(j > n + 5)
    BY <1>1
  <2> QED
    BY <1>1, <2>1, <2>2, LastRules
<1>5. Ruling(m, s.workdir, "none") \in {"bind", "ro-bind"}
  <2>1. CASE Within(s.workdir, Tmp)
    BY <1>3, <1>4, <2>1
  <2>2. CASE ~Within(s.workdir, Tmp)
    <3> HIDE DEF m, n
    <3>1. Within(s.workdir, m[n + 4].path) /\ m[n + 4].what = "ro-bind"
      BY <1>1, <1>3, WithinItself DEF Entry
    <3>2. \A j \in 1 .. n + 5 : j > n + 4 => ~Within(s.workdir, m[j].path)
      BY <1>1, <2>2 DEF Entry
    <3>3. n + 4 \in 1 .. n + 5
      BY <1>1
    <3> QED
      BY <1>1, <3>1, <3>2, <3>3, LastRules
  <2> QED
    BY <2>1, <2>2
<1>6. ASSUME NEW p \in Seq(Names), Ruling(m, p, "none") = "bind" PROVE Within(p, Tmp)
  <2> HIDE DEF m, n
  <2>1. PICK i \in 1 .. n + 5 : Within(p, m[i].path) /\ m[i].what = "bind"
    BY <1>1, <1>6, RuledByAnEntry
  <2>2. i = n + 5
    BY <1>1, <2>1
  <2> QED
    BY <1>1, <2>1, <2>2 DEF Entry
<1>7. Reads(s, s.workdir) /\ Reads(s, Endpoint) /\ Writes(s, Endpoint)
  BY <1>4, <1>5, EndpointInTmp DEF Reads, Writes
<1>8. ASSUME NEW p \in Places, Writes(s, p)
      PROVE  Within(Real(s, p), Real(s, Tmp))
  <2>1. p \in Seq(Names) /\ Tmp \in Seq(Names)
    BY PathsAreNames, EndpointInTmp
  <2>2. Ruling(m, p, "none") = "bind"
    BY <1>8 DEF Writes
  <2> QED
    BY <1>2, <1>6, <2>1, <2>2
<1>9. ASSUME NEW p \in Places \cup {s.workdir}
      PROVE  Writes(s, p) <=> Within(p, Tmp)
  <2>1. p \in Seq(Names)
    BY <1>3, PathsAreNames
  <2>2. Writes(s, p) <=> Ruling(m, p, "none") = "bind"
    BY DEF Writes
  <2> HIDE DEF m
  <2> QED
    BY <1>4, <1>6, <2>1, <2>2
<1> QED
  BY <1>7, <1>8, <1>9 DEF SeesItsFiles

\* No path that seatbelt is told to hide from the guest holds what the guest
\* needs to come up; the code leaves that to whoever sets deny_read_paths.
DenialsSpareFiles ==
    \A s \in Setups : \A i \in 1 .. Len(DenyRead) : \A p \in {s.workdir, Endpoint} :
        ~Within(Real(s, p), DenyRead[i])

\* sandbox-exec lets the guest write in its staging directory, in /tmp and to
\* /dev/null, and read everything that is not denied.
LEMMA RulesShowFiles ==
    ASSUME DenialsSpareFiles, NEW s \in Setups, s.backend = "seatbelt"
    PROVE  SeesItsFiles(s)
<1> DEFINE denies == Each("deny", DenyRead)
           n == Len(DenyRead)
           first == <<Entry("allow", Root)>>
           rules == ReadRules
           w == WriteRules(s)
<1>1. /\ denies \in Seq(AnEntry) /\ Len(denies) = n /\ n \in Nat
      /\ \A i \in 1 .. n : denies[i] = Entry("deny", DenyRead[i])
  BY PathsAreNames, EachPath
<1>2. first \in Seq(AnEntry) /\ Len(first) = 1 /\ first[1] = Entry("allow", Root)
  <2>1. Entry("allow", Root) \in AnEntry
    BY NamedPaths DEF Entry, AnEntry
  <2> QED
    BY <2>1
<1>3. rules = first \o denies
  BY DEF ReadRules
<1> HIDE DEF denies, n, first, rules
<1>4. /\ DOMAIN rules = 1 .. 1 + n /\ rules[1] = Entry("allow", Root)
      /\ \A i \in 2 .. 1 + n : rules[i] = denies[i - 1]
  <2>1. first \in Seq(AnEntry) /\ denies \in Seq(AnEntry)
    BY <1>1, <1>2
  <2>2. /\ DOMAIN rules = 1 .. Len(first) + Len(denies)
        /\ \A i \in 1 .. Len(first) : rules[i] = first[i]
        /\ \A i \in Len(first) + 1 .. Len(first) + Len(denies) : rules[i] = denies[i - Len(first)]
    BY <1>3, <2>1, Concatenated
  <2>3. Len(first) = 1 /\ first[1] = Entry("allow", Root) /\ Len(denies) = n
    BY <1>1, <1>2
  <2> QED
    BY <2>2, <2>3
<1>5. \A p \in {s.workdir, Endpoint, Tmp} : p \in Seq(Names) /\ Real(s, p) \in Seq(Names)
  BY PathsAreNames, EndpointInTmp, NamedPaths DEF Real
<1>6. ASSUME NEW p \in {s.workdir, Endpoint} PROVE Reads(s, p)
  <2>1. Within(Real(s, p), rules[1].path) /\ rules[1].what = "allow"
    BY <1>4, <1>5, WithinItself DEF Entry
  <2>2. ASSUME NEW j \in 1 .. 1 + n, j > 1 PROVE ~Within(Real(s, p), rules[j].path)
    <3>1. j - 1 \in 1 .. n /\ rules[j] = denies[j - 1]
      BY <1>1, <1>4, <2>2
    <3>2. rules[j].path = DenyRead[j - 1]
      BY <1>1, <3>1 DEF Entry
    <3> QED
      BY <3>1, <3>2 DEF DenialsSpareFiles, n
  <2>3. 1 + n \in Nat /\ 1 \in 1 .. 1 + n
    BY <1>1
  <2>4. Ruling(rules, Real(s, p), "deny") = "allow"
    BY <1>4, <2>1, <2>2, <2>3, LastRules
  <2> QED
    BY <2>4 DEF Reads, rules
<1>7. /\ DOMAIN w = 1 .. 4
      /\ \A i \in 1 .. 4 : w[i].what = "allow"
      /\ w[1].path = Real(s, s.workdir) /\ w[2].path = Real(s, Tmp)
      /\ w[3].path = Real(s, Tmp)
      /\ w[4].path = Real(s, <<"dev", "null">>)
  <2>1. Real(s, Tmp) = <<"private", "tmp">> /\ Real(s, <<"dev", "null">>) = <<"dev", "null">>
    <3>1. Tmp # Root /\ Tmp[1] = "tmp"
      BY DEF Tmp, Root
    <3>2. <<"dev", "null">> # Root /\ <<"dev", "null">>[1] \notin {"tmp", "var"}
      BY DEF Root
    <3>3. <<"private">> \o Tmp = <<"private", "tmp">>
      BY NamedPaths, PairJoined DEF Tmp
    <3> QED
      BY <3>1, <3>2, <3>3 DEF Real
  <2> QED
    BY <2>1 DEF w, WriteRules, Each, Entry
<1> HIDE DEF w
<1>8. \A q : \/ Ruling(w, q, "deny") = "deny" /\ \A i \in 1 .. 4 : ~Within(q, w[i].path)
             \/ Ruling(w, q, "deny") = "allow" /\ \E i \in 1 .. 4 : Within(q, w[i].path)
  <2>1. PICK n4 \in Nat : n4 = 4
    OBVIOUS
  <2>2. DOMAIN w = 1 .. n4
    BY <1>7, <2>1
  <2>3. \A q : \/ Ruling(w, q, "deny") = "deny" /\ \A i \in 1 .. n4 : ~Within(q, w[i].path)
               \/ \E i \in 1 .. n4 : Within(q, w[i].path) /\ Ruling(w, q, "deny") = w[i].what
    BY <2>2, RuledByAnEntry
  <2> QED
    BY <1>7, <2>1, <2>3
<1>9. Writes(s, Endpoint)
  <2>1. Within(Real(s, Endpoint), w[2].path) /\ 2 \in 1 .. 4 /\ 4 \in Nat
    BY <1>7, EndpointInTmp
  <2>2. Ruling(w, Real(s, Endpoint), "deny") = "allow"
    BY <1>8, <2>1
  <2> QED
    BY <2>2 DEF Writes, w
<1>10. ASSUME NEW p \in Places, Writes(s, p)
      PROVE  \E dir \in {s.workdir, Tmp, <<"dev", "null">>} : Within(Real(s, p), Real(s, dir))
  <2>1. Ruling(w, Real(s, p), "deny") = "allow" /\ 4 \in Nat
    BY <1>10 DEF Writes, w
  <2>2. PICK i \in 1 .. 4 : Within(Real(s, p), w[i].path)
    BY <1>8, <2>1
  <2> QED
    BY <1>7, <2>2
<1> QED
  BY <1>6, <1>9, <1>10 DEF SeesItsFiles

\* Whatever the backend, the guest sees its files.
LEMMA BackendsShowFiles ==
    ASSUME DenialsSpareFiles, NEW s \in Setups
    PROVE  SeesItsFiles(s)
<1>1. s.backend \in {"local", "seatbelt", "bubblewrap"}
  BY LaunchAssumption
<1>2. CASE s.backend = "local"
  BY <1>2 DEF SeesItsFiles, Reads, Writes, Isolates
<1>3. CASE s.backend = "seatbelt"
  BY <1>3, RulesShowFiles
<1>4. CASE s.backend = "bubblewrap"
  BY <1>4, MountsShowFiles
<1> QED
  BY <1>1, <1>2, <1>3, <1>4

-----------------------------------------------------------------------------
(* The cap of the output.                                                  *)

\* A set of naturals up to n that is not empty has a first element.
LEMMA FirstPosition ==
    ASSUME NEW n \in Nat, NEW S \in SUBSET (0 .. n), S # {}
    PROVE  \E m \in S : \A x \in S : m <= x
<1> DEFINE T == {n + 1 - x : x \in S}
           t == Max(T)
<1>1. T \in SUBSET (1 .. n + 1) /\ T # {} /\ n + 1 \in Nat
  <2>1. \A x \in 0 .. n : n + 1 - x \in 1 .. n + 1
    OBVIOUS
  <2>2. T \subseteq 1 .. n + 1
    BY <2>1
  <2>3. PICK x \in S : TRUE
    OBVIOUS
  <2>4. n + 1 - x \in T
    BY <2>3
  <2> QED
    BY <2>2, <2>4
<1>2. t \in T /\ \A x \in T : x <= t
  <2> HIDE DEF T
  <2> QED
    BY <1>1, LastPosition
<1> HIDE DEF t
<1>3. PICK m \in S : t = n + 1 - m
  BY <1>2
<1>4. \A x \in S : n + 1 - x \in T
  OBVIOUS
<1>5. \A x \in S : n + 1 - x <= n + 1 - m
  BY <1>2, <1>3, <1>4
<1> QED
  BY <1>5

\* How many bytes the first n characters of a text take: the recursion is sound,
\* since a text for which it were not would have a first position where.
LEMMA BytesAdd ==
    ASSUME NEW text \in Seq(Nat)
    PROVE  /\ Bytes(text) \in [0 .. Len(text) -> Nat] /\ Bytes(text)[0] = 0
           /\ \A n \in 1 .. Len(text) : Bytes(text)[n] = Bytes(text)[n - 1] + text[n]
<1> DEFINE N == Len(text)
           Sums(g, k) == g = [n \in 0 .. k |-> IF n = 0 THEN 0 ELSE g[n - 1] + text[n]]
           S == {k \in 0 .. N : ~\E g : Sums(g, k)}
<1>1. N \in Nat /\ \A n \in 1 .. N : text[n] \in Nat
  OBVIOUS
<1>2. \E g : Sums(g, 0)
  <2>1. Sums([n \in 0 .. 0 |-> 0], 0)
    OBVIOUS
  <2> QED
    BY <2>1
<1>3. ASSUME NEW k \in 1 .. N, \E g : Sums(g, k - 1) PROVE \E g : Sums(g, k)
  <2>1. PICK g : Sums(g, k - 1)
    BY <1>3
  <2> DEFINE h == [n \in 0 .. k |-> IF n = k THEN g[k - 1] + text[k] ELSE g[n]]
  <2>2. /\ g = [n \in 0 .. k - 1 |-> IF n = 0 THEN 0 ELSE g[n - 1] + text[n]]
        /\ k \in Nat \ {0}
    BY <2>1
  <2>3. \A n \in 0 .. k : h[n] = IF n = 0 THEN 0 ELSE h[n - 1] + text[n]
    BY <2>2
  <2>4. Sums(h, k)
    BY <2>3
  <2> QED
    BY <2>4
<1>4. S = {}
  <2> SUFFICES ASSUME S # {} PROVE FALSE
    OBVIOUS
  <2>1. S \in SUBSET (0 .. N)
    OBVIOUS
  <2>2. PICK m \in S : \A x \in S : m <= x
    <3> HIDE DEF S
    <3> QED
      BY <1>1, <2>1, FirstPosition
  <2> HIDE DEF Sums
  <2>3. m \in 0 .. N /\ m # 0 /\ ~\E g : Sums(g, m)
    BY <1>2
  <2>4. m \in 1 .. N /\ m - 1 \in 0 .. N /\ ~(m <= m - 1)
    BY <1>1, <2>3
  <2>5. \E g : Sums(g, m - 1)
    BY <2>2, <2>4
  <2> QED
    BY <1>3, <2>3, <2>4, <2>5
<1>5. Bytes(text) = CHOOSE g : Sums(g, N)
  BY DEF Bytes
<1>6. \E g : Sums(g, N)
  BY <1>1, <1>4
<1> DEFINE b == Bytes(text)
<1>7. Sums(b, N)
  <2> HIDE DEF Sums, S
  <2> QED
    BY <1>5, <1>6
<1> HIDE DEF b
<1>8. /\ b[0] = 0 /\ DOMAIN b = 0 .. N
      /\ \A n \in 1 .. N : b[n] = b[n - 1] + text[n]
      /\ b = [n \in 0 .. N |-> b[n]]
  BY <1>1, <1>7
<1> DEFINE O == {k \in 0 .. N : b[k] \notin Nat}
<1>9. O = {}
  <2> SUFFICES ASSUME O # {} PROVE FALSE
    OBVIOUS
  <2>1. O \in SUBSET (0 .. N)
    OBVIOUS
  <2>2. PICK m \in O : \A x \in O : m <= x
    <3> HIDE DEF O
    <3> QED
      BY <1>1, <2>1, FirstPosition
  <2>3. m \in 0 .. N /\ m # 0 /\ b[m] \notin Nat
    BY <1>8
  <2>4. m \in 1 .. N /\ m - 1 \in 0 .. N /\ ~(m <= m - 1)
    BY <1>1, <2>3
  <2>5. b[m - 1] \in Nat
    BY <2>2, <2>4
  <2>6. b[m] = b[m - 1] + text[m] /\ text[m] \in Nat
    BY <1>1, <1>8, <2>4
  <2> QED
    BY <2>3, <2>5, <2>6
<1> QED
  BY <1>8, <1>9 DEF b

\* The longer the text, the more bytes.
LEMMA BytesGrow ==
    ASSUME NEW text \in Seq(Nat), NEW n \in 0 .. Len(text)
    PROVE  Bytes(text)[n] <= Bytes(text)[Len(text)]
<1> DEFINE N == Len(text)
           b == Bytes(text)
           S == {k \in 0 .. N : ~(b[k] <= b[N])}
<1>1. /\ N \in Nat /\ b \in [0 .. N -> Nat]
      /\ \A k \in 1 .. N : b[k] = b[k - 1] + text[k] /\ text[k] \in Nat
  BY BytesAdd
<1> HIDE DEF b, N
<1>2. S = {}
  <2> SUFFICES ASSUME S # {} PROVE FALSE
    OBVIOUS
  <2>1. N \notin S /\ 0 .. N \subseteq Nat
    BY <1>1
  <2> DEFINE R == {N - k : k \in S}
  <2>2. R \in SUBSET (0 .. N) /\ R # {}
    <3>1. \A k \in 0 .. N : N - k \in 0 .. N
      BY <1>1
    <3>2. PICK k \in S : TRUE
      OBVIOUS
    <3> QED
      BY <3>1, <3>2
  <2>3. PICK r \in R : \A x \in R : r <= x
    <3> HIDE DEF R
    <3> QED
      BY <1>1, <2>2, FirstPosition
  <2>4. PICK k \in S : r = N - k
    BY <2>3
  <2>5. k \in 0 .. N /\ k # N /\ ~(b[k] <= b[N])
    BY <2>1, <2>4
  <2>6. k + 1 \in 1 .. N /\ k + 1 \in 0 .. N /\ ~(N - k <= N - (k + 1)) /\ (k + 1) - 1 = k
    BY <1>1, <2>5
  <2>7. N - (k + 1) \notin R
    BY <2>3, <2>4, <2>6
  <2>8. b[k + 1] <= b[N]
    BY <2>6, <2>7
  <2>9. b[k + 1] = b[k] + text[k + 1] /\ text[k + 1] \in Nat
    BY <1>1, <2>6
  <2>10. b[k] \in Nat /\ b[N] \in Nat
    BY <1>1, <2>5
  <2> QED
    BY <2>5, <2>8, <2>9, <2>10
<1>3. n \in 0 .. N
  BY DEF N
<1>4. b[n] <= b[N]
  BY <1>2, <1>3
<1> QED
  BY <1>4 DEF b, N

\* The search back from max for the end of a character finds the last one.
LEMMA LastBoundary ==
    ASSUME NEW B \in SUBSET Nat, 0 \in B, NEW max \in Nat, NEW end,
           end = CHOOSE f : f = [e \in 0 .. max |-> IF e = 0 \/ e \in B THEN e ELSE f[e - 1]]
    PROVE  /\ end[max] \in B /\ end[max] <= max
           /\ \A x \in B : x <= max => x <= end[max]
<1> DEFINE Search(f, k) == f = [e \in 0 .. k |-> IF e = 0 \/ e \in B THEN e ELSE f[e - 1]]
           S == {k \in 0 .. max : ~\E f : Search(f, k)}
<1>1. \E f : Search(f, 0)
  <2>1. Search([e \in 0 .. 0 |-> 0], 0)
    OBVIOUS
  <2> QED
    BY <2>1
<1>2. ASSUME NEW k \in 1 .. max, \E f : Search(f, k - 1) PROVE \E f : Search(f, k)
  <2>1. PICK f : Search(f, k - 1)
    BY <1>2
  <2> DEFINE h == [e \in 0 .. k |-> IF e = k THEN IF k \in B THEN k ELSE f[k - 1] ELSE f[e]]
  <2>2. /\ f = [e \in 0 .. k - 1 |-> IF e = 0 \/ e \in B THEN e ELSE f[e - 1]]
        /\ k \in Nat \ {0}
    BY <2>1
  <2>3. \A e \in 0 .. k : h[e] = IF e = 0 \/ e \in B THEN e ELSE h[e - 1]
    BY <2>2
  <2>4. Search(h, k)
    BY <2>3
  <2> QED
    BY <2>4
<1>3. S = {}
  <2> SUFFICES ASSUME S # {} PROVE FALSE
    OBVIOUS
  <2>1. S \in SUBSET (0 .. max)
    OBVIOUS
  <2>2. PICK m \in S : \A x \in S : m <= x
    <3> HIDE DEF S
    <3> QED
      BY <2>1, FirstPosition
  <2> HIDE DEF Search
  <2>3. m \in 0 .. max /\ m # 0 /\ ~\E f : Search(f, m)
    BY <1>1
  <2>4. m \in 1 .. max /\ m - 1 \in 0 .. max /\ ~(m <= m - 1)
    BY <2>3
  <2>5. \E f : Search(f, m - 1)
    BY <2>2, <2>4
  <2> QED
    BY <1>2, <2>3, <2>4, <2>5
<1>4. Search(end, max)
  <2>1. \E f : Search(f, max)
    BY <1>3
  <2>2. end = CHOOSE f : Search(f, max)
    OBVIOUS
  <2> HIDE DEF Search, S
  <2> QED
    BY <2>1, <2>2
<1>5. \A e \in 0 .. max : end[e] = IF e = 0 \/ e \in B THEN e ELSE end[e - 1]
  BY <1>4
<1> DEFINE IsLast(k) == /\ end[k] \in B /\ end[k] <= k
                        /\ \A x \in B : x <= k => x <= end[k]
           O == {k \in 0 .. max : ~IsLast(k)}
<1> HIDE DEF Search, S
<1>6. \A k \in 0 .. max : k = 0 \/ k \in B => IsLast(k)
  BY <1>5
<1>7. ASSUME NEW k \in 1 .. max, k \notin B, IsLast(k - 1) PROVE IsLast(k)
  <2>1. end[k] = end[k - 1]
    BY <1>5, <1>7
  <2>2. \A x \in B : x <= k => x <= k - 1
    BY <1>7
  <2>3. end[k - 1] \in Nat /\ end[k - 1] <= k
    <3>1. end[k - 1] \in B /\ end[k - 1] <= k - 1 /\ k - 1 <= k /\ k \in Nat
      BY <1>7
    <3>2. end[k - 1] \in Nat
      BY <3>1
    <3> HIDE <1>7
    <3> QED
      BY <3>1, <3>2
  <2> QED
    BY <1>7, <2>1, <2>2, <2>3
<1>8. O = {}
  <2> SUFFICES ASSUME O # {} PROVE FALSE
    OBVIOUS
  <2>1. O \in SUBSET (0 .. max)
    OBVIOUS
  <2>2. PICK m \in O : \A x \in O : m <= x
    <3> HIDE DEF O
    <3> QED
      BY <2>1, FirstPosition
  <2> HIDE DEF IsLast
  <2>3. m \in 0 .. max /\ m # 0 /\ m \notin B /\ ~IsLast(m)
    BY <1>6
  <2>4. m \in 1 .. max /\ m - 1 \in 0 .. max /\ ~(m <= m - 1)
    BY <2>3
  <2>5. IsLast(m - 1)
    BY <2>2, <2>4
  <2> QED
    BY <1>7, <2>3, <2>4, <2>5
<1>9. IsLast(max)
  <2> HIDE DEF IsLast
  <2> QED
    BY <1>8
<1> QED
  BY <1>9

\* truncate_utf8 keeps whole characters, and the most that fit.
LEMMA TruncationKeeps ==
    ASSUME NEW text \in Seq(Nat), NEW max \in Nat
    PROVE  /\ Truncated(text, max) \in Boundaries(text) /\ Truncated(text, max) <= max
           /\ \A b \in Boundaries(text) : b <= max => b <= Truncated(text, max)
<1> DEFINE all == Bytes(text)[Len(text)]
           B == Boundaries(text)
<1>1. /\ Len(text) \in 0 .. Len(text) /\ 0 \in 0 .. Len(text)
      /\ Bytes(text) \in [0 .. Len(text) -> Nat] /\ Bytes(text)[0] = 0
  BY BytesAdd
<1>2. /\ B \in SUBSET Nat /\ 0 \in B /\ all \in B
      /\ \A b \in B : b <= all
  <2>1. \A n \in 0 .. Len(text) : Bytes(text)[n] <= Bytes(text)[Len(text)]
    BY BytesGrow
  <2> QED
    BY <1>1, <2>1 DEF Boundaries
<1> DEFINE end == CHOOSE f : f = [e \in 0 .. max |-> IF e = 0 \/ e \in B THEN e ELSE f[e - 1]]
<1>3. Truncated(text, max) = IF all <= max THEN all ELSE end[max]
  BY DEF Truncated
<1> HIDE DEF B, all
<1>4. /\ end[max] \in B /\ end[max] <= max
      /\ \A x \in B : x <= max => x <= end[max]
  BY <1>2, LastBoundary
<1> HIDE DEF end
<1>5. /\ Truncated(text, max) \in B /\ Truncated(text, max) <= max
      /\ \A b \in B : b <= max => b <= Truncated(text, max)
  BY <1>2, <1>3, <1>4
<1> QED
  BY <1>5 DEF B

-----------------------------------------------------------------------------
(* A run is a session of the broker.                                       *)

\* The ids a guest uses are numbers.
Numbered == sent \in Seq(Nat)

LEMMA NumberedInvariance == Spec => []Numbered
<1>1. Init => Numbered
  BY DEF Init, BrokerInit, Numbered
<1>2. Numbered /\ [Next]_vars => Numbered'
  <2> SUFFICES ASSUME Numbered, [Next]_vars PROVE Numbered'
    OBVIOUS
  <2>1. NextId \in Nat
    BY DEF Numbered, NextId
  <2>2. ASSUME NEW r, Send(r), r.id = NextId PROVE Numbered'
    BY <2>1, <2>2 DEF Send, Numbered
  <2>3. CASE GuestHello \/ GuestCalls \/ GuestOverlaps \/ GuestReturns
    <3>0. /\ \A x : CallOf(x).id = NextId /\ ReportOf(x).id = NextId
          /\ TooLong.id = NextId /\ [method |-> "hello", id |-> NextId, token |-> TRUE].id = NextId
      BY DEF CallOf, TooLong, ReportOf
    <3>2. CASE GuestHello
      BY <2>2, <3>0, <3>2 DEF GuestHello, Rpc
    <3>3. CASE GuestCalls \/ GuestOverlaps
      BY <2>2, <3>0, <3>3 DEF GuestCalls, GuestOverlaps, Rpc
    <3>4. CASE GuestReturns
      BY <2>2, <3>0, <3>4 DEF GuestReturns, Rpc
    <3> QED
      BY <2>3, <3>2, <3>3, <3>4
  <2>4. CASE GuestConnect \/ GuestReceives \/ GuestSeesEnd \/ GuestPrints \/ GuestForks
             \/ GuestCloses \/ GuestFlushes \/ GuestExits \/ GuestDies \/ KinStep
    <3>1. sent' = sent
      BY <2>4 DEF GuestConnect, GuestReceives, GuestSeesEnd, GuestPrints, GuestForks, GuestCloses,
         GuestFlushes, GuestExits, GuestDies, KinStep, KinPrints, KinLetGo, SocketFollows, Connect,
         Receive, brokerVars
    <3> QED
      BY <3>1 DEF Numbered
  <2>5. CASE Serve \/ RunnerStep \/ UNCHANGED vars
    <3>1. BrokerStep => sent' = sent
      BY DEF BrokerStep, Accept, Hello, ReadFails, CallRefused, CallTool, Result, OtherRequest,
         ToolAnswers
    <3>2. sent' = sent
      BY <2>5, <3>1 DEF Serve, RunnerStep, Refuse, PrepareFails, Spawn, StartCollecting, Drain,
         Collected, ServeFailed, Timeout, Return, SocketFollows, vars, brokerVars
    <3> QED
      BY <3>2 DEF Numbered
  <2> QED
    BY <2>3, <2>4, <2>5 DEF Next, GuestStep
<1> QED
  BY <1>1, <1>2, PTL DEF Spec

\* What the guest sends are requests, with ids that no reply is too long for.
LEMMA GuestRequests ==
    ASSUME Numbered, Len(sent) < MaxRequests
    PROVE  /\ NextId \in Ids \ BulkyIds
           /\ [method |-> "hello", id |-> NextId, token |-> TRUE] \in Request
           /\ TooLong \in Request
           /\ \A t \in Proxies : CallOf(t) \in Request
           /\ \A v \in Values : ReportOf(v) \in Request
<1>1. NextId \in Ids \ BulkyIds
  BY SandboxAssumption DEF Numbered, NextId
<1> QED
  BY <1>1, SandboxAssumption DEF Request, TooLong, CallOf, ReportOf, Proxies

\* Each step of a run is a step of the broker or its client, or none that they
\* see: the end of the guest, however it comes, hangs up the connection unless
\* what it forked still holds it.
LEMMA StepsOfTheBroker ==
    ASSUME Numbered, [Next]_vars
    PROVE  [BrokerNext]_brokerVars
<1> USE DEF BrokerNext, ClientStep
<1>1. SocketFollows => HangUp \/ UNCHANGED brokerVars
  BY DEF SocketFollows, HangUp, brokerVars
<1>2. ASSUME NEW r, NEW state, Rpc(r, state) PROVE Len(sent) < MaxRequests /\ Send(r)
  BY <1>2 DEF Rpc, Send
<1>3. CASE GuestConnect
  BY <1>3 DEF GuestConnect
<1>4. CASE GuestHello \/ GuestCalls \/ GuestOverlaps \/ GuestReturns
  <2>1. \E r \in Request : Send(r)
    BY <1>2, <1>4, GuestRequests DEF GuestHello, GuestCalls, GuestOverlaps, GuestReturns
  <2> QED
    BY <2>1
<1>5. CASE GuestReceives
  BY <1>5 DEF GuestReceives
<1>6. CASE GuestSeesEnd \/ GuestPrints \/ GuestForks \/ KinPrints
  BY <1>6 DEF GuestSeesEnd, GuestPrints, GuestForks, KinPrints
<1>7. CASE GuestCloses \/ GuestFlushes \/ GuestExits \/ GuestDies \/ KinLetGo
  BY <1>1, <1>7 DEF GuestCloses, GuestFlushes, GuestExits, GuestDies, KinLetGo
<1>8. CASE Serve
  BY <1>8 DEF Serve
<1>9. ASSUME NEW o, Return(o) PROVE HangUp \/ UNCHANGED brokerVars
  BY <1>1, <1>9 DEF Return
<1>10. CASE RunnerStep
  BY <1>9, <1>10 DEF RunnerStep, Refuse, PrepareFails, Spawn, StartCollecting, Drain,
     Collected, ServeFailed, Timeout
<1>11. CASE UNCHANGED vars
  BY <1>11 DEF vars
<1> QED
  BY <1>3, <1>4, <1>5, <1>6, <1>7, <1>8, <1>10, <1>11 DEF Next, GuestStep, KinStep

\* So what holds for every client of the broker holds for a guest that may be
\* killed at any point, and may fork (runner.rs:123-217).
THEOREM RunIsASession == Spec => BrokerSpec
<1>1. Init => BrokerInit
  BY DEF Init
<1> QED
  BY <1>1, StepsOfTheBroker, NumberedInvariance, PTL DEF Spec, BrokerSpec

-----------------------------------------------------------------------------
(* The invariant of a run.                                                 *)

\* The history of guest and runner: nothing is launched before a setup has been
\* accepted.
Launched ==
    /\ setup \in Setups
    /\ runner = "new" => guest = "none" /\ ~socket
    /\ guest # "none" => MayRun
    /\ exit_ok => guest = "exited"

\* The connection stands from the guest's first step to its last, and there is
\* none before.
LinkFollows ==
    /\ guest \in {"none", "starting"} => link = "none"
    /\ guest \in {"connected", "code", "printing", "closing"} \cup Awaiting => link = "open"

HelloFrame == [method |-> "hello", id |-> 1, token |-> TRUE]

\* The handshake: the guest speaks first, with the token, and goes on when it
\* has been answered.
Handshake ==
    /\ guest \in {"none", "starting", "connected"} =>
          /\ phase \in {"accept", "hello"}
          /\ up = <<>> /\ down = <<>> /\ replies = <<>> /\ sent = <<>>
    /\ guest = "hello" =>
          \/ /\ phase \in {"accept", "hello"} /\ 1 \in Ids \ BulkyIds
             /\ up = <<HelloFrame>> /\ down = <<>> /\ replies = <<>> /\ Len(sent) = 1
          \/ /\ phase = "ready"
             /\ up = <<>> /\ Len(down) = 1 /\ Head(down).ok /\ Len(replies) = 1 /\ Len(sent) = 1

\* While the code of the guest runs, its session is over only if a request was
\* lost, and there is no result.
InCode == {"code", "call", "printing"}
CodeRuns ==
    guest \in InCode =>
        /\ phase \notin {"accept", "hello"}
        /\ Over => Len(replies) < Len(sent)

Unreported ==
    guest \in {"none", "starting", "connected", "hello"} \cup InCode =>
        /\ returned = NoValue /\ session.result = NoValue
        /\ \A i \in 1 .. Len(up) : up[i].method # "result"

ResultFrame == [method |-> "result", id |-> Len(sent), value |-> returned]

\* A guest that had read every reply reports what it returned: the report is on
\* its way, or has been recorded and answered, or there will be no answer.
Reports ==
    guest = "result" /\ unheard = 0 =>
        \/ /\ phase = "ready" /\ session.result = NoValue /\ returned \in Values
           /\ Len(sent) \in Ids \ BulkyIds
           /\ up = <<ResultFrame>> \/ (Len(up) = 1 /\ Head(up).method = "malformed")
           /\ down = <<>>
        \/ /\ phase = "ready" /\ session.result = returned
           /\ up = <<>> /\ Len(down) = 1 /\ Head(down).ok
        \/ Over /\ down = <<>>

\* What it returned is what the session holds when it ends of its own accord,
\* and nothing can happen to that session but its end.
Settled ==
    (guest \in {"closing", "flushing"} \/ exit_ok) /\ unheard = 0 =>
        /\ session.result = returned
        /\ up = <<>> /\ phase \in {"ready", "ended"}

\* What a run that is over has reported.
Reported ==
    runner = "done" /\ ~outcome.timed_out =>
        /\ exit_ok /\ unheard = 0 => outcome.value = returned /\ ~outcome.err
        /\ ~outcome.err =>
              outcome.tool_calls = Cardinality({i \in 1 .. Len(ran) : ran[i].ok})

ReportInv ==
    Launched /\ LinkFollows /\ Handshake /\ CodeRuns /\ Unreported /\ Reports /\ Settled

\* What the session knows of itself, whoever its client is.
BrokerInv == Typed /\ AnsweredInOrder /\ CallsCounted

LEMMA BrokerInvariant == Spec => []BrokerInv
<1>1. Typed /\ AnsweredInOrder /\ CallsCounted => BrokerInv
  BY DEF BrokerInv
<1> QED
  BY <1>1, RunIsASession, TypedInvariance, AnsweredInOrderHolds, CallsCountedHolds, PTL

\* The types that matter below.
LEMMA RunQueues ==
    ASSUME BrokerInv
    PROVE  /\ \E S : /\ S = [id : Ids, ok : BOOLEAN]
                     /\ down \in Seq(S) /\ replies \in Seq(S)
           /\ up \in Seq(Request) /\ sent \in Seq(Ids)
           /\ Len(up) \in Nat /\ Len(job) \in Nat /\ Len(down) \in Nat /\ Len(replies) \in Nat
           /\ Len(sent) \in Nat
           /\ Len(replies) <= Len(sent) /\ Len(down) <= Len(replies)
           /\ ~Over => Len(replies) + Len(job) + Len(up) = Len(sent)
           /\ phase = "calling" => Len(job) = 1
<1>1. Len(job) = IF phase = "calling" THEN 1 ELSE 0
  BY QueueTypes DEF BrokerInv
<1> QED
  BY <1>1, QueueTypes DEF BrokerInv, AnsweredInOrder

\* With nothing to read serve_one waits, until the connection is closed.
LEMMA NothingToRead ==
    ASSUME BrokerStep, up = <<>>, phase \notin {"accept", "calling"}
    PROVE  ReadFails /\ link = "closed"
  BY DEF BrokerStep, Accept, Hello, ReadFails, CallRefused, CallTool, Result, OtherRequest,
     ToolAnswers, Takes, Unreadable

\* A step of the session leaves the connection to its client, and is none once
\* the session is over.
LEMMA SessionStep ==
    ASSUME BrokerStep
    PROVE  link' = link /\ sent' = sent /\ ~Over
  BY DEF BrokerStep, Accept, Hello, ReadFails, CallRefused, CallTool, Result, OtherRequest,
     ToolAnswers, Over

\* In its request loop it stays in the loop, unless a request gets no reply.
LEMMA LoopStep ==
    ASSUME BrokerInv, BrokerStep, link = "open", phase \notin {"accept", "hello"}
    PROVE  phase' \notin {"accept", "hello"} /\ (Over' => Len(replies') < Len(sent'))
<1>0. /\ Len(up) \in Nat /\ Len(job) \in Nat /\ Len(replies) \in Nat /\ Len(sent) \in Nat
      /\ Len(replies) + Len(job) + Len(up) = Len(sent) /\ sent' = sent
      /\ phase = "calling" => Len(job) = 1
  BY RunQueues, SessionStep
<1>1. ASSUME NEW id, NEW ok, NEW fits, Reply(id, ok, fits, "ready")
      PROVE  \/ phase' = "ready"
             \/ phase' = "failed" /\ replies' = replies
  BY <1>1 DEF Reply
<1>2. ASSUME NEW r, Takes(r) PROVE Len(up) > 0
  BY <1>2, RunQueues DEF Takes
<1>3. CASE ReadFails
  <2>1. up # <<>>
    BY <1>3 DEF ReadFails, Unreadable
  <2>2. Len(up) > 0 /\ replies' = replies /\ phase' = "ended"
    BY <1>3, <2>1, RunQueues DEF ReadFails
  <2> QED
    BY <1>0, <2>2
<1>4. CASE CallTool
  BY <1>4 DEF CallTool, Over
<1>5. CASE CallRefused \/ Result \/ OtherRequest
  <2>1. \E r \in Request : Takes(r) /\ \E ok, fits : Reply(r.id, ok, fits, "ready")
    BY <1>5 DEF CallRefused, Result, OtherRequest
  <2>2. \/ phase' = "ready"
        \/ phase' = "failed" /\ replies' = replies
    BY <1>1, <2>1
  <2>3. Len(up) > 0
    BY <1>2, <2>1
  <2> QED
    BY <1>0, <2>2, <2>3 DEF Over
<1>6. CASE \E ok, fits \in BOOLEAN : ToolAnswers(ok, fits)
  <2>1. \E ok, fits : Reply(job[1].id, ok, fits, "ready")
    BY <1>6 DEF ToolAnswers
  <2>2. \/ phase' = "ready"
        \/ phase' = "failed" /\ replies' = replies
    BY <1>1, <2>1
  <2>3. Len(replies) < Len(sent)
    <3>1. phase = "calling"
      BY <1>6 DEF ToolAnswers
    <3>2. Len(replies) + Len(job) + Len(up) <= Len(sent) /\ Len(job) = 1
      BY <1>0, <3>1
    <3> QED
      BY <3>2, RunQueues
  <2> QED
    BY <1>0, <2>2, <2>3 DEF Over
<1> QED
  BY <1>3, <1>4, <1>5, <1>6 DEF BrokerStep, Accept, Hello

\* Only a frame with a result gives the session one, and frames are only taken.
LEMMA NoResultStep ==
    ASSUME BrokerInv, BrokerStep, \A i \in 1 .. Len(up) : up[i].method # "result"
    PROVE  /\ session'.result = session.result
           /\ \A i \in 1 .. Len(up') : up'[i].method # "result"
<1> USE RunQueues
<1>1. ASSUME NEW r, Takes(r)
      PROVE  /\ \A i \in 1 .. Len(up') : up'[i].method # "result"
             /\ r.method # "result"
  <2>1. up # <<>> /\ r = Head(up) /\ up' = Tail(up)
    BY <1>1 DEF Takes
  <2>2. Len(up) > 0 /\ r = up[1] /\ Len(up') = Len(up) - 1
        /\ \A i \in 1 .. Len(up') : up'[i] = up[i + 1] /\ i + 1 \in 1 .. Len(up)
    BY <2>1
  <2>3. r.method # "result"
    BY <2>2
  <2>4. ASSUME NEW i \in 1 .. Len(up') PROVE up'[i].method # "result"
    BY <2>2
  <2> QED
    BY <2>3, <2>4
<1>2. session \in [authorized : BOOLEAN, tool_calls : 0 .. MaxToolCalls,
                    result : Values \cup {NoValue}]
  BY DEF BrokerInv, Typed, BrokerTypeOK
<1>3. CASE Accept \/ ReadFails
  BY <1>3 DEF Accept, ReadFails
<1>4. CASE Hello
  BY <1>1, <1>2, <1>4 DEF Hello
<1>5. CASE CallRefused \/ CallTool \/ OtherRequest
  BY <1>1, <1>5 DEF CallRefused, CallTool, OtherRequest
<1>6. CASE Result
  BY <1>1, <1>6 DEF Result
<1>7. CASE \E ok, fits \in BOOLEAN : ToolAnswers(ok, fits)
  BY <1>2, <1>7 DEF ToolAnswers
<1> QED
  BY <1>3, <1>4, <1>5, <1>6, <1>7 DEF BrokerStep

\* An answer sent to a guest that listens arrives.
LEMMA AnsweredOpen ==
    ASSUME BrokerInv, link = "open", down = <<>>, NEW id \in Ids, Reply(id, TRUE, TRUE, "ready")
    PROVE  /\ phase' = "ready" /\ Len(down') = 1 /\ Head(down').ok
           /\ Len(replies') = Len(replies) + 1
<1> DEFINE a == Answer(id, TRUE)
<1>1. PICK S : S = [id : Ids, ok : BOOLEAN] /\ replies \in Seq(S)
  BY RunQueues
<1>2. a.ok /\ a \in S
  BY <1>1 DEF Answer
<1>3. phase' = "ready" /\ down' = Append(<<>>, a) /\ replies' = Append(replies, a)
  BY DEF Reply
<1> HIDE DEF a
<1>4. down' = <<a>>
  BY <1>3
<1> QED
  BY <1>1, <1>2, <1>3, <1>4

\* A step of the session, whatever the guest awaits.
LEMMA ServeKeeps ==
    ASSUME BrokerInv, ReportInv, Serve
    PROVE  ReportInv'
<1>1. BrokerStep /\ link' = link /\ sent' = sent /\ ~Over /\ UNCHANGED sandboxVars
  BY SessionStep DEF Serve
<1>2. UNCHANGED <<setup, runner, outcome, socket, guest, exit_ok, returned, unheard>>
  BY <1>1 DEF sandboxVars, runVars, endVars
<1>3. Launched' /\ LinkFollows'
  BY <1>1, <1>2 DEF ReportInv, Launched, MayRun, Isolates, LinkFollows, Awaiting
<1>4. Handshake'
  <2>1. CASE guest \in {"none", "starting", "connected"}
    <3>1. /\ phase \in {"accept", "hello"} /\ link # "closed"
          /\ up = <<>> /\ down = <<>> /\ replies = <<>> /\ sent = <<>>
      BY <2>1 DEF ReportInv, Handshake, LinkFollows
    <3>2. Accept
      <4>1. CASE phase = "hello"
        BY <1>1, <3>1, <4>1, NothingToRead
      <4>2. CASE phase = "accept"
        BY <1>1, <4>2 DEF BrokerStep, Hello, ReadFails, CallRefused, CallTool, Result,
           OtherRequest, ToolAnswers
      <4> QED
        BY <3>1, <4>1, <4>2
    <3> QED
      BY <1>1, <1>2, <2>1, <3>1, <3>2 DEF Accept, Handshake
  <2>2. CASE guest = "hello"
    <3>1. link = "open"
      BY <2>2 DEF ReportInv, LinkFollows, Awaiting
    <3>2. CASE /\ phase \in {"accept", "hello"} /\ 1 \in Ids \ BulkyIds
               /\ up = <<HelloFrame>> /\ down = <<>> /\ replies = <<>> /\ Len(sent) = 1
      <4>1. CASE Accept
        BY <1>1, <1>2, <2>2, <3>2, <4>1 DEF Accept, Handshake
      <4>2. Head(up) = HelloFrame /\ up # <<>> /\ HelloFrame.method = "hello" /\ HelloFrame.token
        BY <3>2 DEF HelloFrame
      <4>3. CASE Hello
        <5>1. PICK r \in Request : \E fits \in Sizes(r.id, FALSE) :
                /\ Takes(r) /\ r.method # "malformed"
                /\ IF r.method = "hello" /\ r.token
                   THEN /\ session' = [session EXCEPT !.authorized = TRUE]
                        /\ Reply(r.id, TRUE, fits, "ready")
                   ELSE phase' = "ended"
          BY <4>3 DEF Hello
        <5>2. r = HelloFrame /\ up' = Tail(up) /\ r.id = 1
          BY <4>2, <5>1 DEF Takes, HelloFrame
        <5>3. Reply(1, TRUE, TRUE, "ready")
          BY <3>2, <4>2, <5>1, <5>2 DEF Sizes
        <5>4. up' = <<>>
          BY <3>2, <5>2
        <5>5. /\ phase' = "ready" /\ Len(down') = 1 /\ Head(down').ok
              /\ Len(replies') = Len(replies) + 1
          BY <3>1, <3>2, <5>3, AnsweredOpen
        <5>6. Len(replies') = 1
          BY <3>2, <5>5
        <5> QED
          BY <1>1, <1>2, <2>2, <3>2, <5>4, <5>5, <5>6 DEF Handshake
      <4>4. CASE ReadFails
        BY <3>1, <4>2, <4>4 DEF ReadFails, Unreadable
      <4> QED
        BY <1>1, <3>2, <4>1, <4>3, <4>4 DEF BrokerStep, CallRefused, CallTool, Result,
           OtherRequest, ToolAnswers
    <3>3. CASE phase = "ready" /\ up = <<>>
      BY <1>1, <3>1, <3>3, NothingToRead
    <3> QED
      BY <2>2, <3>2, <3>3 DEF ReportInv, Handshake
  <2>3. CASE guest \notin {"none", "starting", "connected", "hello"}
    BY <1>2, <2>3 DEF Handshake
  <2> QED
    BY <2>1, <2>2, <2>3
<1>5. CodeRuns'
  <2>1. CASE guest \in InCode
    <3>1. link = "open" /\ phase \notin {"accept", "hello"}
      BY <2>1 DEF ReportInv, LinkFollows, CodeRuns, InCode, Awaiting
    <3> QED
      BY <1>1, <1>2, <3>1, LoopStep DEF CodeRuns
  <2> QED
    BY <1>2, <2>1 DEF CodeRuns
<1>6. Unreported'
  <2>1. CASE guest \in {"none", "starting", "connected", "hello"} \cup InCode
    <3>1. /\ returned = NoValue /\ session.result = NoValue
          /\ \A i \in 1 .. Len(up) : up[i].method # "result"
      BY <2>1 DEF ReportInv, Unreported
    <3> QED
      BY <1>1, <1>2, <3>1, NoResultStep DEF Unreported
  <2> QED
    BY <1>2, <2>1 DEF Unreported
<1>7. Reports'
  <2> SUFFICES ASSUME guest = "result", unheard = 0 PROVE Reports'
    BY <1>2 DEF Reports
  <2>1. link = "open"
    BY DEF ReportInv, LinkFollows, Awaiting
  <2>2. CASE /\ phase = "ready" /\ session.result = NoValue /\ returned \in Values
             /\ Len(sent) \in Ids \ BulkyIds /\ up = <<ResultFrame>> /\ down = <<>>
    <3>1. Head(up) = ResultFrame /\ up # <<>>
      BY <2>2
    <3>2. ResultFrame.method = "result" /\ ResultFrame.value = returned
      BY DEF ResultFrame
    <3>3. Result
      BY <1>1, <2>1, <2>2, <3>1, <3>2 DEF BrokerStep, Accept, Hello, ReadFails, Unreadable,
         CallRefused, CallTool, OtherRequest, ToolAnswers, Takes
    <3>4. PICK r \in Request : /\ Takes(r) /\ session' = Kept(r.value)
                               /\ \E fits \in Sizes(r.id, FALSE) : Reply(r.id, TRUE, fits, "ready")
      BY <3>3 DEF Result
    <3>5. r = ResultFrame /\ up' = Tail(up) /\ r.id = Len(sent)
      BY <3>1, <3>4 DEF Takes, ResultFrame
    <3>9. Reply(Len(sent), TRUE, TRUE, "ready")
      BY <2>2, <3>4, <3>5 DEF Sizes
    <3>6. up' = <<>>
      BY <2>2, <3>5
    <3>7. session'.result = returned
      <4>1. session \in [authorized : BOOLEAN, tool_calls : 0 .. MaxToolCalls,
                          result : Values \cup {NoValue}]
        BY DEF BrokerInv, Typed, BrokerTypeOK
      <4>2. Kept(returned).result = returned
        BY <2>2, <4>1 DEF Kept
      <4> QED
        BY <3>2, <3>4, <3>5, <4>2
    <3>8. phase' = "ready" /\ Len(down') = 1 /\ Head(down').ok
      BY <2>1, <2>2, <3>9, AnsweredOpen
    <3> QED
      BY <1>2, <3>6, <3>7, <3>8 DEF Reports
  <2>3. CASE /\ phase = "ready" /\ Len(up) = 1 /\ Head(up).method = "malformed" /\ down = <<>>
    <3>1. Head(up).method = "malformed" /\ up # <<>>
      BY <2>3
    <3>2. ReadFails
      BY <1>1, <2>3, <3>1 DEF BrokerStep, Accept, Hello,
         CallRefused, CallTool, Result, OtherRequest, ToolAnswers, Takes
    <3> QED
      BY <2>3, <3>2 DEF ReadFails, Reports, Over
  <2>4. CASE phase = "ready" /\ up = <<>>
    BY <1>1, <2>1, <2>4, NothingToRead
  <2> QED
    BY <1>1, <2>2, <2>3, <2>4 DEF ReportInv, Reports
<1>8. Settled'
  <2> SUFFICES ASSUME guest \in {"closing", "flushing"} \/ exit_ok, unheard = 0 PROVE Settled'
    BY <1>2 DEF Settled
  <2>1. session.result = returned /\ up = <<>> /\ phase \in {"ready", "ended"}
    BY DEF ReportInv, Settled
  <2>2. ReadFails
    BY <1>1, <2>1, NothingToRead
  <2> QED
    BY <1>2, <2>1, <2>2 DEF ReadFails, Settled
<1> QED
  BY <1>3, <1>4, <1>5, <1>6, <1>7, <1>8 DEF ReportInv

\* A guest whose code has read every reply finds the session idle.
LEMMA AllHeard ==
    ASSUME BrokerInv, ReportInv, guest = "code", Unheard = 0
    PROVE  /\ phase = "ready" /\ up = <<>> /\ down = <<>>
           /\ session.result = NoValue /\ returned = NoValue
<1>1. /\ Len(up) \in Nat /\ Len(job) \in Nat /\ Len(down) \in Nat /\ Len(replies) \in Nat
      /\ Len(sent) \in Nat /\ Len(replies) <= Len(sent)
      /\ ~Over => Len(replies) + Len(job) + Len(up) = Len(sent)
      /\ phase = "calling" => Len(job) = 1
      /\ phase \in {"accept", "hello", "ready", "calling", "ended", "failed"}
      /\ up \in Seq(Request) /\ \E S : down \in Seq(S)
  BY RunQueues DEF BrokerInv, Typed, BrokerTypeOK
<1>2. Len(replies) = Len(sent) /\ Len(down) = 0
  BY <1>1, RunQueues DEF Unheard
<1>3. phase \notin {"accept", "hello"} /\ ~Over
  BY <1>1, <1>2 DEF ReportInv, CodeRuns, InCode
<1>4. Len(up) = 0 /\ phase # "calling"
  <2>1. Len(replies) + Len(job) + Len(up) = Len(sent)
    BY <1>1, <1>3
  <2>2. Len(job) = 0 /\ Len(up) = 0
    BY <1>1, <1>2, <2>1
  <2> QED
    BY <1>1, <2>2
<1>5. phase = "ready"
  BY <1>1, <1>3, <1>4 DEF Over
<1>6. up = <<>> /\ down = <<>>
  BY <1>1, <1>2, <1>4
<1> QED
  BY <1>5, <1>6 DEF ReportInv, Unreported, InCode

\* What the guest sends comes last, and leaves the rest alone.
LEMMA SendStep ==
    ASSUME BrokerInv, NEW r \in Request, Send(r)
    PROVE  /\ link = "open" /\ UNCHANGED <<link, down, phase, job, session, replies, ran>>
           /\ Len(sent') = Len(sent) + 1 /\ Len(sent) \in Nat
           /\ up = <<>> => up' = <<r>>
           /\ r.method # "result" /\ (\A i \in 1 .. Len(up) : up[i].method # "result")
                 => \A i \in 1 .. Len(up') : up'[i].method # "result"
<1>1. /\ up \in Seq(Request) /\ Len(sent) \in Nat
      /\ Len(sent') = Len(sent) + 1
  BY RunQueues, RequestId DEF Send
<1>2. up' = Append(up, r)
  BY DEF Send
<1>3. up = <<>> => up' = <<r>>
  BY <1>2
<1>4. ASSUME r.method # "result", \A i \in 1 .. Len(up) : up[i].method # "result",
             NEW i \in 1 .. Len(up')
      PROVE  up'[i].method # "result"
  <2>1. Len(up') = Len(up) + 1 /\ Len(up) \in Nat /\ up'[Len(up) + 1] = r
        /\ \A j \in 1 .. Len(up) : up'[j] = up[j]
    BY <1>1, <1>2
  <2> QED
    BY <1>4, <2>1
<1> QED
  BY <1>1, <1>3, <1>4 DEF Send

\* A step of the guest that comes up, greets the broker or runs its code.
LEMMA GuestWorks ==
    ASSUME BrokerInv, ReportInv,
           GuestConnect \/ GuestHello \/ GuestCalls \/ GuestOverlaps \/ GuestPrints \/ GuestForks
    PROVE  ReportInv'
<1> USE DEF Awaiting, InCode
<1>0. Len(sent) < MaxRequests => NextId \in Ids \ BulkyIds
  BY RunQueues, SandboxAssumption DEF NextId
<1>1. CASE GuestConnect
  <2>1. /\ guest = "starting" /\ guest' = "connected" /\ link' = "open"
        /\ UNCHANGED <<up, down, phase, job, session, sent, replies, ran>>
        /\ UNCHANGED <<setup, runner, outcome, socket, exit_ok, returned, unheard>>
    BY <1>1 DEF GuestConnect, Connect, runVars, endVars
  <2> QED
    BY <2>1 DEF ReportInv, Launched, MayRun, Isolates, LinkFollows, Handshake, CodeRuns, Unreported,
       Reports, Settled
<1>2. CASE GuestHello
  <2>1. sent = <<>> /\ Len(sent) = 0
    BY <1>2 DEF GuestHello, ReportInv, Handshake
  <2>2. /\ guest = "connected" /\ guest' = "hello"
        /\ UNCHANGED <<setup, runner, outcome, socket, exit_ok, returned, unheard>>
        /\ Send(HelloFrame) /\ Len(sent) < MaxRequests /\ NextId = 1
    BY <1>2, <2>1 DEF GuestHello, Rpc, HelloFrame, NextId, Send, runVars, endVars
  <2>3. 1 \in Ids \ BulkyIds
    BY <1>0, <2>2
  <2>4. HelloFrame \in Request /\ HelloFrame.method # "result"
    BY <2>3 DEF HelloFrame, Request
  <2>5. /\ up = <<>> /\ down = <<>> /\ replies = <<>> /\ phase \in {"accept", "hello"}
        /\ returned = NoValue /\ session.result = NoValue
    BY <2>2 DEF ReportInv, Handshake, Unreported
  <2>6. /\ link = "open" /\ UNCHANGED <<link, down, phase, job, session, replies, ran>>
        /\ Len(sent') = 1 /\ up' = <<HelloFrame>>
    BY <2>1, <2>2, <2>4, <2>5, SendStep
  <2>7. \A i \in 1 .. Len(up') : up'[i].method # "result"
    BY <2>4, <2>6
  <2> QED
    BY <2>2, <2>3, <2>5, <2>6, <2>7 DEF ReportInv, Launched, MayRun, Isolates, LinkFollows,
       Handshake, CodeRuns, Unreported, Reports, Settled
<1>3. CASE GuestCalls \/ GuestOverlaps
  <2>1. PICK r : /\ r.method \in {"call_tool", "malformed"} /\ r \in Request
                 /\ ~Over /\ Send(r)
    <3>1. \A t : CallOf(t).method = "call_tool" /\ TooLong.method = "malformed"
      BY DEF CallOf, TooLong
    <3>2. PICK t \in Proxies : \E r \in {CallOf(t), TooLong} : ~Over /\ Send(r)
      BY <1>3 DEF GuestCalls, GuestOverlaps, Rpc
    <3>3. PICK r \in {CallOf(t), TooLong} : ~Over /\ Send(r)
      BY <3>2
    <3>4. Len(sent) < MaxRequests
      BY <3>3 DEF Send
    <3>5. r \in Request
      BY <1>0, <3>3, <3>4, SandboxAssumption DEF Request, CallOf, TooLong, Proxies
    <3> QED
      BY <3>1, <3>3, <3>5
  <2>2. /\ guest \in {"code", "call"} /\ guest' = "call"
        /\ UNCHANGED <<setup, runner, outcome, socket, exit_ok, returned, unheard>>
    BY <1>3 DEF GuestCalls, GuestOverlaps, Rpc, runVars, endVars
  <2>3. r \in Request /\ r.method # "result"
    BY <2>1
  <2>4. /\ returned = NoValue /\ session.result = NoValue /\ phase \notin {"accept", "hello"}
        /\ \A i \in 1 .. Len(up) : up[i].method # "result"
    BY <2>2 DEF ReportInv, CodeRuns, Unreported
  <2>5. /\ link = "open" /\ UNCHANGED <<link, down, phase, job, session, replies, ran>>
        /\ \A i \in 1 .. Len(up') : up'[i].method # "result"
    BY <2>1, <2>3, <2>4, SendStep
  <2>6. ~Over'
    BY <2>1, <2>5 DEF Over
  <2> QED
    BY <2>2, <2>4, <2>5, <2>6 DEF ReportInv, Launched, MayRun, Isolates, LinkFollows, Handshake,
       CodeRuns, Unreported, Reports, Settled
<1>4. CASE GuestPrints \/ GuestForks
  <2>1. /\ guest \in {"code", "printing"} /\ guest' \in {"code", "printing"}
        /\ UNCHANGED brokerVars
        /\ UNCHANGED <<setup, runner, outcome, socket, exit_ok, returned, unheard>>
    BY <1>4 DEF GuestPrints, GuestForks, runVars, endVars
  <2> QED
    BY <2>1 DEF ReportInv, Launched, MayRun, Isolates, LinkFollows, Handshake, CodeRuns, Unreported,
       Reports, Settled, Over, brokerVars
<1> QED
  BY <1>1, <1>2, <1>3, <1>4

\* A step of the guest that reads a reply or the end of the connection.
LEMMA GuestReads ==
    ASSUME BrokerInv, ReportInv, GuestReceives \/ GuestSeesEnd
    PROVE  ReportInv'
<1> USE DEF Awaiting, InCode
<1>1. CASE GuestReceives
  <2>1. /\ guest \in Awaiting /\ link = "open" /\ down # <<>>
        /\ UNCHANGED <<link, up, phase, job, session, sent, replies, ran>>
        /\ UNCHANGED <<setup, runner, outcome, socket, exit_ok, returned, unheard>>
    BY <1>1 DEF GuestReceives, Receive, runVars, endVars
  <2>2. CASE guest = "call"
    <3>1. guest' \in {"code", "call"}
      BY <1>1, <2>2 DEF GuestReceives
    <3> QED
      BY <2>1, <2>2, <3>1 DEF ReportInv, Launched, MayRun, Isolates, LinkFollows, Handshake,
         CodeRuns, Unreported, Reports, Settled, Over
  <2>3. CASE guest = "hello"
    <3>1. phase = "ready" /\ Head(down).ok /\ returned = NoValue /\ session.result = NoValue
          /\ \A i \in 1 .. Len(up) : up[i].method # "result"
      BY <2>1, <2>3 DEF ReportInv, Handshake, Unreported
    <3>2. guest' = "code"
      BY <1>1, <2>3, <3>1 DEF GuestReceives
    <3> QED
      BY <2>1, <2>3, <3>1, <3>2 DEF ReportInv, Launched, MayRun, Isolates, LinkFollows, Handshake,
         CodeRuns, Unreported, Reports, Settled, Over
  <2>4. CASE guest = "result"
    <3>1. guest' \in {"closing", "raised"}
      BY <1>1, <2>4 DEF GuestReceives
    <3>2. unheard = 0 => phase = "ready" /\ session.result = returned /\ up = <<>>
      BY <2>1, <2>4 DEF ReportInv, Reports
    <3> QED
      BY <2>1, <2>4, <3>1, <3>2 DEF ReportInv, Launched, MayRun, Isolates, LinkFollows, Handshake,
         CodeRuns, Unreported, Reports, Settled
  <2> QED
    BY <2>1, <2>2, <2>3, <2>4
<1>2. CASE GuestSeesEnd
  <2>1. /\ guest \in Awaiting /\ UNCHANGED brokerVars
        /\ guest' = IF guest = "call" THEN "code" ELSE "raised"
        /\ UNCHANGED <<setup, runner, outcome, socket, exit_ok, returned, unheard>>
    BY <1>2 DEF GuestSeesEnd, runVars, endVars
  <2> QED
    BY <2>1 DEF ReportInv, Launched, MayRun, Isolates, LinkFollows, Handshake, CodeRuns, Unreported,
       Reports, Settled, Over, brokerVars
<1> QED
  BY <1>1, <1>2

\* A step of the guest by which its code returns, or by which it ends.
LEMMA GuestEnds ==
    ASSUME BrokerInv, ReportInv,
           GuestReturns \/ GuestCloses \/ GuestFlushes \/ GuestExits \/ GuestDies
    PROVE  ReportInv'
<1> USE DEF Awaiting, InCode
<1>1. CASE GuestReturns
  <2>1. PICK v \in Values : \E r \in {ReportOf(v), TooLong} : ~Over /\ Send(r) /\ returned' = v
    BY <1>1 DEF GuestReturns, Rpc
  <2>2. PICK r \in {ReportOf(v), TooLong} : ~Over /\ Send(r) /\ returned' = v
    BY <2>1
  <2>3. /\ guest = "code" /\ guest' = "result" /\ unheard' = Unheard
        /\ UNCHANGED <<setup, runner, outcome, socket, exit_ok>>
    BY <1>1 DEF GuestReturns, Rpc, runVars
  <2>4. /\ Len(sent) < MaxRequests /\ NextId \in Ids \ BulkyIds /\ NextId = Len(sent) + 1
    BY <2>2, RunQueues, SandboxAssumption DEF Send, NextId
  <2>5. r \in Request
    BY <2>2, <2>4 DEF Request, ReportOf, TooLong
  <2>6. /\ link = "open" /\ UNCHANGED <<link, down, phase, job, session, replies, ran>>
        /\ Len(sent') = NextId
        /\ up = <<>> => up' = <<r>>
    BY <2>2, <2>4, <2>5, SendStep
  <2>7. Reports'
    <3> SUFFICES ASSUME unheard' = 0 PROVE Reports'
      BY DEF Reports
    <3>1. phase = "ready" /\ up = <<>> /\ down = <<>> /\ session.result = NoValue
      BY <2>3, AllHeard
    <3>2. up' = <<ResultFrame'>> \/ (Len(up') = 1 /\ Head(up').method = "malformed")
      <4>1. CASE r = ReportOf(v)
        BY <2>2, <2>6, <3>1, <4>1 DEF ResultFrame, ReportOf
      <4>2. CASE r = TooLong
        <5>1. r.method = "malformed"
          BY <4>2 DEF TooLong
        <5> QED
          BY <2>6, <3>1, <5>1
      <4> QED
        BY <2>2, <4>1, <4>2
    <3>3. Len(sent') \in Ids \ BulkyIds
      BY <2>4, <2>6
    <3> QED
      BY <2>2, <2>6, <3>1, <3>2, <3>3 DEF Reports
  <2> QED
    BY <2>3, <2>6, <2>7 DEF ReportInv, Launched, MayRun, Isolates, LinkFollows, Handshake,
       CodeRuns, Unreported, Settled
<1>2. CASE GuestCloses
  <2>1. /\ guest = "closing" /\ guest' \in {"flushing", "exited"} /\ exit_ok' = (guest' = "exited")
        /\ UNCHANGED <<up, down, phase, job, session, sent, replies, ran>>
        /\ UNCHANGED <<setup, runner, outcome, socket, returned, unheard>>
    BY <1>2 DEF GuestCloses, SocketFollows, runVars, endVars
  <2> QED
    BY <2>1 DEF ReportInv, Launched, MayRun, Isolates, LinkFollows, Handshake, CodeRuns, Unreported,
       Reports, Settled
<1>3. CASE GuestFlushes
  <2>1. /\ guest = "flushing" /\ guest' = "exited" /\ exit_ok' = TRUE
        /\ UNCHANGED <<up, down, phase, job, session, sent, replies, ran>>
        /\ UNCHANGED <<setup, runner, outcome, socket, returned, unheard>>
    BY <1>3 DEF GuestFlushes, SocketFollows, runVars, endVars
  <2> QED
    BY <2>1 DEF ReportInv, Launched, MayRun, Isolates, LinkFollows, Handshake, CodeRuns, Unreported,
       Reports, Settled
<1>4. CASE GuestExits
  <2>1. /\ guest = "code" /\ guest' = "exited" /\ exit_ok' = TRUE /\ unheard' = Unheard
        /\ UNCHANGED <<up, down, phase, job, session, sent, replies, ran>>
        /\ UNCHANGED <<setup, runner, outcome, socket, returned>>
    BY <1>4 DEF GuestExits, SocketFollows, runVars
  <2>2. unheard' = 0 =>
          session.result = returned /\ up = <<>> /\ phase = "ready"
    BY <2>1, AllHeard
  <2> QED
    BY <2>1, <2>2 DEF ReportInv, Launched, MayRun, Isolates, LinkFollows, Handshake, CodeRuns,
       Unreported, Reports, Settled
<1>5. CASE GuestDies
  <2>1. /\ guest \in Alive \cup {"raised"} /\ guest' = "exited"
        /\ UNCHANGED <<up, down, phase, job, session, sent, replies, ran>>
        /\ UNCHANGED <<setup, runner, outcome, socket, exit_ok, returned, unheard>>
    BY <1>5 DEF GuestDies, SocketFollows, runVars, endVars
  <2>2. guest \notin {"none", "exited"}
    BY <2>1 DEF Alive
  <2> QED
    BY <2>1, <2>2 DEF ReportInv, Launched, MayRun, Isolates, LinkFollows, Handshake, CodeRuns,
       Unreported, Reports, Settled
<1> QED
  BY <1>1, <1>2, <1>3, <1>4, <1>5

\* A step of what the guest forked: the connection may close after the guest's
\* last step.
LEMMA KinKeeps ==
    ASSUME ReportInv, KinStep
    PROVE  ReportInv'
<1>1. CASE KinPrints
  <2>1. UNCHANGED <<brokerVars, setup, runner, outcome, socket, guest, exit_ok, returned, unheard>>
    BY <1>1 DEF KinPrints, runVars, endVars
  <2> QED
    BY <2>1 DEF ReportInv, Launched, MayRun, Isolates, LinkFollows, Handshake, CodeRuns, Unreported,
       Reports, Settled, Over, ResultFrame, brokerVars
<1>2. CASE KinLetGo
  <2>1. /\ UNCHANGED <<up, down, phase, job, session, sent, replies, ran>>
        /\ UNCHANGED <<setup, runner, outcome, socket, guest, exit_ok, returned, unheard>>
        /\ link' = link \/ (link = "open" /\ guest \notin HasSocket)
    BY <1>2 DEF KinLetGo, SocketFollows, runVars, endVars
  <2>2. LinkFollows'
    BY <2>1 DEF ReportInv, LinkFollows, HasSocket, Awaiting
  <2> QED
    BY <2>1, <2>2 DEF ReportInv, Launched, MayRun, Isolates, Handshake, CodeRuns, Unreported,
       Reports, Settled, Over, ResultFrame
<1> QED
  BY <1>1, <1>2 DEF KinStep

\* The end of a run: nothing the guest does can disturb what was settled.
LEMMA ReturnKeeps ==
    ASSUME ReportInv, runner # "new", NEW o, Return(o)
    PROVE  ReportInv'
<1>1. /\ runner' = "done" /\ SocketFollows
      /\ guest' = IF guest \in Alive \cup {"raised"} THEN "killed" ELSE guest
      /\ UNCHANGED <<up, down, phase, job, session, sent, replies, ran>>
      /\ UNCHANGED <<setup, exit_ok, returned, unheard>>
  BY DEF Return, SocketFollows, endVars
<1>2. CASE guest \in Alive \cup {"raised"}
  <2>1. guest' = "killed" /\ guest \notin {"none", "exited"}
    BY <1>1, <1>2 DEF Alive, Awaiting
  <2> QED
    BY <1>1, <2>1 DEF ReportInv, Launched, MayRun, Isolates, LinkFollows, Handshake, CodeRuns,
       Unreported, Reports, Settled, Awaiting, InCode
<1>3. CASE guest \notin Alive \cup {"raised"}
  <2>1. guest' = guest /\ (guest = "none" => link' = "none")
    BY <1>1, <1>3 DEF SocketFollows, ReportInv, LinkFollows
  <2> QED
    BY <1>1, <1>3, <2>1 DEF ReportInv, Launched, MayRun, Isolates, LinkFollows, Handshake, CodeRuns,
       Unreported, Reports, Settled, Alive, Awaiting, InCode, Over, ResultFrame
<1> QED
  BY <1>2, <1>3

\* A step of the runner.
LEMMA RunnerKeeps ==
    ASSUME ReportInv, RunnerStep
    PROVE  ReportInv'
<1>1. ASSUME UNCHANGED brokerVars, runner = "new", runner' = "done",
             UNCHANGED <<setup, guest, exit_ok, returned, unheard>>
      PROVE  ReportInv'
  BY <1>1 DEF ReportInv, Launched, MayRun, Isolates, LinkFollows, Handshake, CodeRuns, Unreported,
     Reports, Settled, Over, ResultFrame, brokerVars
<1>2. ASSUME NEW spawned \in BOOLEAN, Spawn(spawned) PROVE ReportInv'
  <2>1. CASE spawned
    <3>1. /\ runner = "new" /\ MayRun /\ runner' = "serving" /\ guest' = "starting"
          /\ UNCHANGED <<brokerVars, setup, exit_ok, returned, unheard>>
      BY <1>2, <2>1 DEF Spawn, endVars
    <3>2. guest = "none"
      BY <3>1 DEF ReportInv, Launched
    <3> QED
      BY <3>1, <3>2 DEF ReportInv, Launched, MayRun, Isolates, LinkFollows, Handshake, CodeRuns,
         Unreported, Reports, Settled, Awaiting, InCode, brokerVars
  <2>2. CASE ~spawned
    BY <1>1, <1>2, <2>2 DEF Spawn, endVars
  <2> QED
    BY <2>1, <2>2
<1>3. ASSUME UNCHANGED <<brokerVars, setup, guest, exit_ok, returned, unheard>>,
             runner # "new", runner' # "new"
      PROVE  ReportInv'
  BY <1>3 DEF ReportInv, Launched, MayRun, Isolates, LinkFollows, Handshake, CodeRuns, Unreported,
     Reports, Settled, Over, ResultFrame, brokerVars
<1>4. CASE Refuse \/ PrepareFails
  BY <1>1, <1>4 DEF Refuse, PrepareFails, endVars
<1>5. CASE StartCollecting \/ Drain
  BY <1>3, <1>5 DEF StartCollecting, Drain, runVars, endVars
<1>6. CASE Collected \/ ServeFailed \/ Timeout
  <2>1. runner # "new" /\ \E o : Return(o)
    BY <1>6 DEF Collected, ServeFailed, Timeout
  <2> QED
    BY <2>1, ReturnKeeps
<1> QED
  BY <1>2, <1>4, <1>5, <1>6 DEF RunnerStep

LEMMA ReportInvariant == Spec => []ReportInv
<1>1. Init => ReportInv
  BY DEF Init, BrokerInit, NoSession, ReportInv, Launched, LinkFollows, Handshake, CodeRuns,
     Unreported, Reports, Settled, Awaiting, InCode
<1>2. BrokerInv /\ ReportInv /\ [Next]_vars => ReportInv'
  <2>1. CASE UNCHANGED vars
    BY <2>1 DEF ReportInv, Launched, MayRun, Isolates, LinkFollows, Handshake, CodeRuns, Unreported,
       Reports, Settled, Over, ResultFrame, vars, brokerVars, sandboxVars, runVars, endVars
  <2> QED
    BY <2>1, ServeKeeps, GuestWorks, GuestReads, GuestEnds, KinKeeps, RunnerKeeps
       DEF Next, GuestStep
<1> QED
  BY <1>1, <1>2, BrokerInvariant, PTL DEF Spec

-----------------------------------------------------------------------------
(* What a run promises.                                                    *)

\* The guest has been launched by a setup that was accepted, sees its staging
\* directory and the socket, and writes where SeesItsFiles says, under bubblewrap
\* in all of the host's /tmp: for every list of system roots, and if no path that
\* seatbelt is told to hide holds these files.
THEOREM GuestSeesItsFilesHolds ==
    ASSUME DenialsSpareFiles
    PROVE  Spec => []GuestSeesItsFiles
<1>1. ReportInv => GuestSeesItsFiles
  BY BackendsShowFiles DEF ReportInv, Launched, GuestSeesItsFiles
<1> QED
  BY <1>1, ReportInvariant, PTL

\* A guest takes no step in a run that has returned.
LEMMA GuestStopped ==
    ASSUME guest \notin Alive \cup {"raised"}
    PROVE  ~GuestStep
  BY DEF GuestStep, GuestConnect, GuestHello, GuestCalls, GuestOverlaps, GuestReturns,
     GuestReceives, GuestSeesEnd, GuestPrints, GuestForks, GuestCloses, GuestFlushes, GuestExits,
     GuestDies, Alive, Awaiting

\* A step of the guest, of what it forked or of the session leaves the runner
\* where it is.
LEMMA RunnerAlone ==
    ASSUME GuestStep \/ KinStep \/ Serve \/ UNCHANGED vars
    PROVE  runner' = runner /\ outcome' = outcome /\ socket' = socket /\ setup' = setup
<1>1. CASE GuestStep
  BY <1>1 DEF GuestStep, GuestConnect, GuestHello, GuestCalls, GuestOverlaps, GuestReturns,
     GuestReceives, GuestSeesEnd, GuestPrints, GuestForks, GuestCloses, GuestFlushes, GuestExits,
     GuestDies, Rpc, runVars
<1>2. CASE KinStep
  BY <1>2 DEF KinStep, KinPrints, KinLetGo, runVars
<1>3. CASE Serve \/ UNCHANGED vars
  BY <1>3 DEF Serve, sandboxVars, vars, runVars
<1> QED
  BY <1>1, <1>2, <1>3

\* Under bubblewrap what the guest forks does not outlive it.
KinWithGuest == kin /\ setup.backend = "bubblewrap" => guest \in Alive \cup {"raised"}

LEMMA KinWithGuestKept ==
    ASSUME KinWithGuest, [Next]_vars
    PROVE  KinWithGuest'
<1>1. ASSUME KinFollow, setup' = setup, kin => guest' \in Alive \cup {"raised", "exited", "killed"}
                                                \/ setup.backend # "bubblewrap"
      PROVE  KinWithGuest'
  BY <1>1 DEF KinFollow, KinWithGuest, kinVars
<1>2. CASE GuestStep
  <2>1. CASE GuestCloses \/ GuestFlushes \/ GuestExits \/ GuestDies
    <3>1. KinFollow /\ setup' = setup /\ guest' \in {"flushing", "exited"}
      BY <2>1 DEF GuestCloses, GuestFlushes, GuestExits, GuestDies, runVars
    <3> QED
      BY <1>1, <3>1 DEF Alive
  <2>2. CASE GuestConnect \/ GuestHello \/ GuestCalls \/ GuestOverlaps \/ GuestReturns
               \/ GuestReceives \/ GuestSeesEnd \/ GuestPrints \/ GuestForks
    <3>1. guest' \in Alive \cup {"raised"}
      BY <2>2 DEF GuestConnect, GuestHello, GuestCalls, GuestOverlaps, GuestReturns,
         GuestReceives, GuestSeesEnd, GuestPrints, GuestForks, Rpc, Alive, Awaiting
    <3> QED
      BY <3>1 DEF KinWithGuest
  <2> QED
    BY <1>2, <2>1, <2>2 DEF GuestStep
<1>3. CASE KinStep
  <2>1. setup' = setup /\ guest' = guest
    BY <1>3 DEF KinStep, KinPrints, KinLetGo, runVars
  <2>2. CASE KinPrints
    BY <2>1, <2>2 DEF KinPrints, KinWithGuest, kinVars
  <2>3. CASE KinLetGo
    <3>1. kin
      BY <2>3 DEF KinLetGo
    <3> QED
      BY <2>1, <3>1 DEF KinWithGuest
  <2> QED
    BY <1>3, <2>2, <2>3 DEF KinStep
<1>4. CASE Serve \/ UNCHANGED vars
  BY <1>4 DEF Serve, KinWithGuest, sandboxVars, vars, runVars, kinVars
<1>5. CASE Refuse \/ PrepareFails \/ StartCollecting \/ Drain
  BY <1>5 DEF Refuse, PrepareFails, StartCollecting, Drain, KinWithGuest, runVars, kinVars
<1>6. CASE \E spawned \in BOOLEAN : Spawn(spawned)
  <2>1. /\ setup' = setup /\ kin' = kin
        /\ guest' = guest \/ guest' = "starting"
    BY <1>6 DEF Spawn, kinVars
  <2> QED
    BY <2>1 DEF KinWithGuest, Alive
<1>7. CASE Collected \/ ServeFailed \/ Timeout
  <2>1. PICK o : Return(o)
    BY <1>7 DEF Collected, ServeFailed, Timeout
  <2>2. KinFollow /\ setup' = setup
        /\ guest' = IF guest \in Alive \cup {"raised"} THEN "killed" ELSE guest
    BY <2>1 DEF Return
  <2> QED
    BY <1>1, <2>2 DEF KinWithGuest
<1> QED
  BY <1>2, <1>3, <1>4, <1>5, <1>6, <1>7 DEF Next, RunnerStep

\* When run() has returned, the guest process is gone, and what it forked cannot
\* add to output that was collected and is gone too under bubblewrap; the file of
\* the socket is left only if the guest could not be spawned: for any guest, and
\* whatever ends the run.
THEOREM NothingLeftBehindHolds == Spec => []NothingLeftBehind
<1>1. Init => KinWithGuest /\ NothingLeftBehind
  BY DEF Init, KinWithGuest, NothingLeftBehind
<1>2. ReportInv /\ KinWithGuest /\ NothingLeftBehind /\ [Next]_vars => NothingLeftBehind'
  <2> SUFFICES ASSUME ReportInv, KinWithGuest, NothingLeftBehind, [Next]_vars
               PROVE  NothingLeftBehind'
    OBVIOUS
  <2>1. KinWithGuest'
    BY KinWithGuestKept
  <2>2. CASE GuestStep
    <3>1. runner # "done"
      BY <2>2, GuestStopped DEF NothingLeftBehind
    <3> QED
      BY <2>2, <3>1, RunnerAlone DEF NothingLeftBehind
  <2>3. CASE KinStep
    <3>1. guest' = guest /\ ("output" \in held' => "output" \in held)
      BY <2>3 DEF KinStep, KinPrints, KinLetGo, kinVars
    <3>2. runner' = "done" =>
            /\ guest' \notin Alive \cup {"raised"}
            /\ ~outcome'.err /\ ~outcome'.timed_out => "output" \notin held'
            /\ socket' => guest' = "none"
      BY <2>3, <3>1, RunnerAlone DEF NothingLeftBehind
    <3> QED
      BY <2>1, <3>2 DEF NothingLeftBehind, KinWithGuest
  <2>4. CASE Serve \/ UNCHANGED vars
    BY <2>4 DEF NothingLeftBehind, Serve, sandboxVars, vars, runVars, kinVars
  <2>5. CASE Refuse \/ PrepareFails \/ \E spawned \in BOOLEAN : Spawn(spawned)
    <3>1. guest = "none" /\ ~socket
      BY <2>5 DEF ReportInv, Launched, Refuse, PrepareFails, Spawn
    <3>2. runner' = "done" => guest' = "none" /\ outcome' = Err
      BY <2>5, <3>1 DEF Refuse, PrepareFails, Spawn
    <3> QED
      BY <2>1, <3>2 DEF NothingLeftBehind, KinWithGuest, Err, Alive, Awaiting
  <2>6. CASE StartCollecting \/ Drain
    <3>1. runner' # "done"
      BY <2>6 DEF StartCollecting, Drain, runVars
    <3> QED
      BY <3>1 DEF NothingLeftBehind
  <2>7. CASE Collected \/ ServeFailed \/ Timeout
    <3>0. Err.err /\ TimedOut.timed_out
      BY DEF Err, TimedOut
    <3>1. PICK o : Return(o) /\ (o.err \/ o.timed_out \/ "output" \notin held)
      <4>1. CASE Collected
        BY <4>1 DEF Collected
      <4>2. CASE ServeFailed
        BY <3>0, <4>2 DEF ServeFailed
      <4>3. CASE Timeout
        BY <3>0, <4>3 DEF Timeout
      <4> QED
        BY <2>7, <4>1, <4>2, <4>3
    <3>2. guest' \notin Alive \cup {"raised"} /\ ~socket' /\ outcome' = o
      BY <3>1 DEF Return, Alive, Awaiting
    <3>3. "output" \in held' => "output" \in held
      BY <3>1 DEF Return, KinFollow, kinVars
    <3> QED
      BY <2>1, <3>1, <3>2, <3>3 DEF NothingLeftBehind, KinWithGuest
  <2> QED
    BY <2>2, <2>3, <2>4, <2>5, <2>6, <2>7 DEF Next, RunnerStep
<1> QED
  BY <1>1, <1>2, KinWithGuestKept, ReportInvariant, PTL DEF Spec

\* The value, the error and the number of tool calls of a run are the truth, for
\* any number of frames in flight: what a guest that exited of its own accord had
\* been told is kept has been kept.
THEOREM ReportIsFaithfulHolds == Spec => []ReportIsFaithful
<1>1. Init => Reported
  BY DEF Init, Reported
<1>2. /\ BrokerInv /\ ReportInv /\ NothingLeftBehind /\ Reported /\ [Next]_vars
      => Reported'
  <2> SUFFICES ASSUME BrokerInv, ReportInv, NothingLeftBehind, Reported, [Next]_vars
               PROVE  Reported'
    OBVIOUS
  <2>1. CASE GuestStep
    <3>1. runner # "done"
      BY <2>1, GuestStopped DEF NothingLeftBehind
    <3> QED
      BY <2>1, <3>1, RunnerAlone DEF Reported
  <2>9. CASE KinStep
    <3>1. UNCHANGED <<ran, exit_ok, returned, unheard>>
      BY <2>9 DEF KinStep, KinPrints, KinLetGo, SocketFollows, brokerVars, endVars
    <3> QED
      BY <2>9, <3>1, RunnerAlone DEF Reported
  <2>2. CASE Serve
    BY <2>2, RunnerAlone DEF Serve, Reported
  <2>3. CASE UNCHANGED vars
    BY <2>3, RunnerAlone DEF vars, brokerVars, sandboxVars, endVars, Reported
  <2>4. CASE Refuse \/ PrepareFails \/ \E spawned \in BOOLEAN : Spawn(spawned)
    <3>1. ~exit_ok /\ exit_ok' = exit_ok
      BY <2>4 DEF ReportInv, Launched, Refuse, PrepareFails, Spawn
    <3>2. runner' = "done" => outcome' = Err
      BY <2>4 DEF Refuse, PrepareFails, Spawn
    <3> QED
      BY <3>1, <3>2 DEF Reported, Err
  <2>5. CASE StartCollecting \/ Drain
    BY <2>5 DEF Reported, StartCollecting, Drain, runVars
  <2>6. CASE Collected
    <3>1. outcome' = Report /\ UNCHANGED <<ran, exit_ok, returned, unheard>>
      BY <2>6 DEF Collected, Return, SocketFollows, endVars
    <3>2. Report.value = session.result /\ Report.tool_calls = session.tool_calls /\ ~Report.err
      BY DEF Report
    <3>3. exit_ok /\ unheard = 0 => session.result = returned
      BY DEF ReportInv, Settled
    <3>4. session.tool_calls = Cardinality({i \in 1 .. Len(ran) : ran[i].ok})
      BY DEF BrokerInv, CallsCounted
    <3> QED
      BY <3>1, <3>2, <3>3, <3>4 DEF Reported
  <2>7. CASE ServeFailed
    <3>1. phase = "failed" /\ outcome' = Err /\ UNCHANGED <<exit_ok, unheard>>
      BY <2>7 DEF ServeFailed, Return, endVars
    <3>2. ~(exit_ok /\ unheard = 0)
      BY <3>1 DEF ReportInv, Settled
    <3> QED
      BY <3>1, <3>2 DEF Reported, Err
  <2>8. CASE Timeout
    BY <2>8 DEF Timeout, Return, TimedOut, Err, Reported
  <2> QED
    BY <2>1, <2>2, <2>3, <2>4, <2>5, <2>6, <2>7, <2>8, <2>9 DEF Next, RunnerStep
<1>3. Reported => ReportIsFaithful
  BY DEF Reported, ReportIsFaithful
<1> QED
  BY <1>1, <1>2, <1>3, BrokerInvariant, ReportInvariant, NothingLeftBehindHolds, PTL DEF Spec

-----------------------------------------------------------------------------
(* The output.                                                             *)

\* What was written is what was read and what the pipe holds.
Texts ==
    /\ pipe \in Seq(Widths) /\ output \in Seq(Widths) /\ written = output \o pipe
    /\ Len(pipe) <= PipeCap

\* Whoever writes does so when there is room.
LEMMA TextSteps ==
    ASSUME [Next]_vars
    PROVE  \/ HasRoom /\ \E w \in Widths : Prints(w)
           \/ pipe' = <<>> /\ output' = output \o pipe /\ written' = written
           \/ UNCHANGED textVars
<1>1. CASE GuestPrints \/ GuestFlushes \/ KinPrints
  BY <1>1 DEF GuestPrints, GuestFlushes, KinPrints
<1>2. CASE GuestConnect \/ GuestHello \/ GuestCalls \/ GuestOverlaps \/ GuestReturns
             \/ GuestReceives \/ GuestSeesEnd \/ GuestForks \/ GuestCloses
             \/ GuestExits \/ GuestDies \/ KinLetGo
  BY <1>2 DEF GuestConnect, GuestHello, GuestCalls, GuestOverlaps, GuestReturns, GuestReceives,
     GuestSeesEnd, GuestForks, GuestCloses, GuestExits, GuestDies, KinLetGo, Rpc
<1>3. CASE Serve \/ UNCHANGED vars
  BY <1>3 DEF Serve, vars, sandboxVars
<1>4. CASE Drain
  BY <1>4 DEF Drain
<1>5. CASE Refuse \/ PrepareFails \/ (\E spawned \in BOOLEAN : Spawn(spawned)) \/ StartCollecting
  BY <1>5 DEF Refuse, PrepareFails, Spawn, StartCollecting
<1>6. CASE Collected \/ ServeFailed \/ Timeout
  BY <1>6 DEF Collected, ServeFailed, Timeout, Return
<1> QED
  BY <1>1, <1>2, <1>3, <1>4, <1>5, <1>6 DEF Next, GuestStep, KinStep, RunnerStep

LEMMA TextsKept ==
    ASSUME Texts, [Next]_vars
    PROVE  Texts'
<1>1. ASSUME NEW w \in Widths, HasRoom, Prints(w) PROVE Texts'
  <2>1. /\ pipe' = Append(pipe, w) /\ output' = output /\ written' = Append(output \o pipe, w)
    BY <1>1 DEF Prints, Texts
  <2>2. Append(output \o pipe, w) = output \o Append(pipe, w)
    <3>1. output \in Seq(Widths) /\ pipe \in Seq(Widths) /\ output \o pipe \in Seq(Widths)
          /\ <<w>> \in Seq(Widths)
      BY DEF Texts
    <3>2. Append(output \o pipe, w) = (output \o pipe) \o <<w>> /\ Append(pipe, w) = pipe \o <<w>>
      BY <3>1, AppendIsConcat
    <3> QED
      BY <3>1, <3>2, ConcatAssociative
  <2>3. Len(pipe') <= PipeCap
    BY <1>1, <2>1, SandboxAssumption DEF Texts, HasRoom
  <2> QED
    BY <2>1, <2>2, <2>3 DEF Texts
<1>2. ASSUME pipe' = <<>>, output' = output \o pipe, written' = written PROVE Texts'
  <2>1. (output \o pipe) \o <<>> = output \o pipe /\ output \o pipe \in Seq(Widths)
    BY DEF Texts
  <2>2. Len(<<>>) <= PipeCap /\ <<>> \in Seq(Widths)
    BY SandboxAssumption
  <2> QED
    BY <1>2, <2>1, <2>2 DEF Texts
<1>3. CASE UNCHANGED textVars
  BY <1>3 DEF textVars, Texts
<1> QED
  BY <1>1, <1>2, <1>3, TextSteps

LEMMA TextsInvariance == Spec => []Texts
<1>1. Init => Texts
  <2>1. <<>> \o <<>> = <<>> /\ <<>> \in Seq(Widths) /\ Len(<<>>) = 0
    OBVIOUS
  <2> QED
    BY <2>1, SandboxAssumption DEF Init, Texts
<1> QED
  BY <1>1, TextsKept, PTL DEF Spec

\* What was written is a text of which truncate_utf8 keeps the most.
LEMMA WrittenIsText ==
    ASSUME Texts
    PROVE  /\ written \in Seq(Nat) /\ output \in Seq(Nat)
           /\ pipe = <<>> => written = output
<1>1. ASSUME NEW s \in Seq(Widths) PROVE s \in Seq(Nat)
  <2>1. /\ s = [i \in 1 .. Len(s) |-> s[i]] /\ Len(s) \in Nat
        /\ \A i \in 1 .. Len(s) : s[i] \in Widths
    OBVIOUS
  <2>2. \A i \in 1 .. Len(s) : s[i] \in Nat
    BY <2>1, SandboxAssumption
  <2> QED
    BY <2>1, <2>2
<1>2. output \in Seq(Widths) /\ output \o pipe \in Seq(Widths)
  BY DEF Texts
<1>3. output \o <<>> = output
  BY <1>2
<1> QED
  BY <1>1, <1>2, <1>3 DEF Texts

\* A run that collected the output has kept of it what fits.
AllKept ==
    runner = "done" /\ ~outcome.err /\ ~outcome.timed_out =>
        outcome.kept = Truncated(written, MaxOutput)

\* Nothing is written for a run that has returned, and what it collected was all:
\* of that it keeps as many whole characters as fit, whoever wrote them and when
\* (limits.rs:32, 86, runner.rs:169), for every text, cap and capacity of the pipe.
THEOREM OutputKeptHolds == Spec => []OutputKept
<1>1. Init => AllKept
  BY DEF Init, AllKept
<1>2. Texts /\ NothingLeftBehind /\ AllKept /\ [Next]_vars => AllKept'
  <2> SUFFICES ASSUME Texts, NothingLeftBehind, AllKept, [Next]_vars PROVE AllKept'
    OBVIOUS
  <2>1. CASE GuestStep
    <3>1. runner # "done"
      BY <2>1, GuestStopped DEF NothingLeftBehind
    <3> QED
      BY <2>1, <3>1, RunnerAlone DEF AllKept
  <2>2. CASE KinStep
    <3>1. runner = "done" => written' = written
      BY <2>2 DEF KinStep, KinPrints, KinLetGo, textVars
    <3>2. runner' = runner /\ outcome' = outcome
      BY <2>2, RunnerAlone
    <3> QED
      BY <3>1, <3>2 DEF AllKept
  <2>3. CASE Serve \/ UNCHANGED vars
    <3>1. written' = written
      BY <2>3 DEF Serve, vars, sandboxVars, textVars
    <3> QED
      BY <2>3, <3>1, RunnerAlone DEF AllKept
  <2>4. CASE Refuse \/ PrepareFails \/ \E spawned \in BOOLEAN : Spawn(spawned)
    <3>1. runner' = "done" => outcome' = Err
      BY <2>4 DEF Refuse, PrepareFails, Spawn
    <3> QED
      BY <3>1 DEF AllKept, Err
  <2>5. CASE StartCollecting \/ Drain
    <3>1. runner' # "done"
      BY <2>5 DEF StartCollecting, Drain, runVars
    <3> QED
      BY <3>1 DEF AllKept
  <2>6. CASE Collected
    <3>1. outcome' = Report /\ written' = written /\ pipe = <<>>
      BY <2>6 DEF Collected, Return, textVars
    <3>2. Report.kept = Truncated(written, MaxOutput)
      BY <3>1, WrittenIsText DEF Report
    <3> QED
      BY <3>1, <3>2 DEF AllKept
  <2>7. CASE ServeFailed \/ Timeout
    <3>1. outcome' \in {Err, TimedOut}
      BY <2>7 DEF ServeFailed, Timeout, Return
    <3>2. Err.err /\ TimedOut.timed_out
      BY DEF Err, TimedOut
    <3> QED
      BY <3>1, <3>2 DEF AllKept
  <2> QED
    BY <2>1, <2>2, <2>3, <2>4, <2>5, <2>6, <2>7 DEF Next, RunnerStep
<1>3. Texts /\ AllKept => OutputKept
  <2>1. Texts =>
          /\ Truncated(written, MaxOutput) \in Boundaries(written)
          /\ Truncated(written, MaxOutput) <= MaxOutput
          /\ \A b \in Boundaries(written) : b <= MaxOutput => b <= Truncated(written, MaxOutput)
    BY WrittenIsText, TruncationKeeps, SandboxAssumption
  <2> QED
    BY <2>1 DEF AllKept, OutputKept
<1> QED
  BY <1>1, <1>2, <1>3, TextsInvariance, NothingLeftBehindHolds, PTL DEF Spec

-----------------------------------------------------------------------------
(* Types.                                                                  *)

\* What an outcome is made of.
Outcomes == [err : BOOLEAN, timed_out : BOOLEAN, value : Values \cup {NoValue},
             tool_calls : 0 .. MaxToolCalls, kept : 0 .. MaxOutput, exit_ok : BOOLEAN]

\* The variables of the run itself, and the frames within their bound.
RunTypes ==
    /\ runner \in {"new", "serving", "collecting", "done"}
    /\ runner = "done" => outcome \in Outcomes
    /\ runner # "done" => outcome = <<>>
    /\ socket \in BOOLEAN /\ exit_ok \in BOOLEAN
    /\ guest \in Alive \cup {"none", "raised", "exited", "killed"}
    /\ kin \in BOOLEAN /\ held \in SUBSET {"output", "socket"}
    /\ returned \in Values \cup {NoValue}
    /\ unheard \in 0 .. MaxRequests
    /\ Len(sent) <= MaxRequests

\* What is unheard is never more than what was sent.
LEMMA UnheardType ==
    ASSUME BrokerInv, Len(sent) <= MaxRequests
    PROVE  Unheard \in 0 .. MaxRequests
<1>1. /\ Len(down) \in Nat /\ Len(replies) \in Nat /\ Len(sent) \in Nat /\ MaxRequests \in Nat
      /\ Len(replies) <= Len(sent) /\ Len(down) <= Len(replies)
  BY RunQueues, SandboxAssumption
<1> QED
  BY <1>1 DEF Unheard

\* What is kept is a number of bytes within the cap.
LEMMA KeptWithinCap ==
    ASSUME Texts
    PROVE  Truncated(output, MaxOutput) \in 0 .. MaxOutput
<1>1. output \in Seq(Nat) /\ MaxOutput \in Nat
  BY WrittenIsText, SandboxAssumption
<1>2. Boundaries(output) \subseteq Nat
  <2>1. Bytes(output) \in [0 .. Len(output) -> Nat]
    BY <1>1, BytesAdd
  <2> QED
    BY <2>1 DEF Boundaries
<1>3. Truncated(output, MaxOutput) \in Nat /\ Truncated(output, MaxOutput) <= MaxOutput
  BY <1>1, <1>2, TruncationKeeps
<1> QED
  BY <1>1, <1>3

\* What the forked processes hold is of the two that there are.
LEMMA KinTypeKept ==
    ASSUME RunTypes, [Next]_vars
    PROVE  kin' \in BOOLEAN /\ held' \in SUBSET {"output", "socket"}
<1>1. kin \in BOOLEAN /\ held \in SUBSET {"output", "socket"}
  BY DEF RunTypes
<1>2. KinFollow => kin' \in BOOLEAN /\ held' \in SUBSET {"output", "socket"}
  BY <1>1 DEF KinFollow, kinVars
<1>3. CASE GuestForks \/ KinLetGo
  BY <1>1, <1>3 DEF GuestForks, KinLetGo
<1>4. CASE GuestConnect \/ GuestHello \/ GuestCalls \/ GuestOverlaps \/ GuestReturns
             \/ GuestReceives \/ GuestSeesEnd \/ GuestPrints \/ KinPrints
  BY <1>1, <1>4 DEF GuestConnect, GuestHello, GuestCalls, GuestOverlaps, GuestReturns,
     GuestReceives, GuestSeesEnd, GuestPrints, KinPrints, Rpc, kinVars
<1>5. CASE GuestCloses \/ GuestFlushes \/ GuestExits \/ GuestDies
  BY <1>2, <1>5 DEF GuestCloses, GuestFlushes, GuestExits, GuestDies
<1>6. CASE Serve \/ UNCHANGED vars
  BY <1>1, <1>6 DEF Serve, vars, sandboxVars, kinVars
<1>7. CASE Refuse \/ PrepareFails \/ (\E spawned \in BOOLEAN : Spawn(spawned))
             \/ StartCollecting \/ Drain
  BY <1>1, <1>7 DEF Refuse, PrepareFails, Spawn, StartCollecting, Drain, kinVars
<1>8. CASE Collected \/ ServeFailed \/ Timeout
  BY <1>2, <1>8 DEF Collected, ServeFailed, Timeout, Return
<1> QED
  BY <1>3, <1>4, <1>5, <1>6, <1>7, <1>8 DEF Next, GuestStep, KinStep, RunnerStep

LEMMA RunTypesKept ==
    ASSUME BrokerInv, Numbered, Texts, RunTypes, [Next]_vars
    PROVE  RunTypes'
<1>0. kin' \in BOOLEAN /\ held' \in SUBSET {"output", "socket"}
  BY KinTypeKept
<1>1. CASE GuestStep
  <2>1. runner' = runner /\ outcome' = outcome /\ socket' = socket
    BY <1>1, RunnerAlone
  <2>2. Len(sent') <= MaxRequests
    <3>1. CASE GuestHello \/ GuestCalls \/ GuestOverlaps \/ GuestReturns
      <4>1. PICK r \in Request : Send(r)
        <5>1. ASSUME NEW r, NEW state, Rpc(r, state) PROVE Len(sent) < MaxRequests /\ Send(r)
          BY <5>1 DEF Rpc, Send
        <5> QED
          BY <3>1, <5>1, GuestRequests DEF GuestHello, GuestCalls, GuestOverlaps, GuestReturns
      <4>2. Len(sent') = Len(sent) + 1 /\ Len(sent) \in Nat /\ Len(sent) < MaxRequests
        BY <4>1, SendStep DEF Send
      <4> QED
        BY <4>2, SandboxAssumption
    <3>2. CASE GuestConnect \/ GuestReceives \/ GuestSeesEnd \/ GuestPrints \/ GuestForks
               \/ GuestCloses \/ GuestFlushes \/ GuestExits \/ GuestDies
      <4>1. sent' = sent
        BY <3>2 DEF GuestConnect, GuestReceives, GuestSeesEnd, GuestPrints, GuestForks,
           GuestCloses, GuestFlushes, GuestExits, GuestDies, SocketFollows, Connect, Receive,
           brokerVars
      <4> QED
        BY <4>1 DEF RunTypes
    <3> QED
      BY <1>1, <3>1, <3>2 DEF GuestStep
  <2>3. unheard' \in 0 .. MaxRequests /\ returned' \in Values \cup {NoValue}
    <3>1. Unheard \in 0 .. MaxRequests
      BY UnheardType DEF RunTypes
    <3>2. CASE GuestReturns \/ GuestExits
      BY <3>1, <3>2 DEF GuestReturns, GuestExits, RunTypes
    <3>3. CASE ~(GuestReturns \/ GuestExits)
      <4>1. UNCHANGED endVars
        BY <1>1, <3>3 DEF GuestStep, GuestConnect, GuestHello, GuestCalls, GuestOverlaps,
           GuestReceives, GuestSeesEnd, GuestPrints, GuestForks, GuestCloses, GuestFlushes,
           GuestDies
      <4> QED
        BY <4>1 DEF endVars, RunTypes
    <3> QED
      BY <3>2, <3>3
  <2>4. guest' \in Alive \cup {"raised", "exited"}
    BY <1>1 DEF GuestStep, GuestConnect, GuestHello, GuestCalls, GuestOverlaps,
       GuestReturns, GuestReceives, GuestSeesEnd, GuestPrints, GuestForks, GuestCloses,
       GuestFlushes, GuestExits, GuestDies, Rpc, Alive, Awaiting
  <2>5. exit_ok' \in BOOLEAN
    BY <1>1 DEF GuestStep, GuestConnect, GuestHello, GuestCalls, GuestOverlaps,
       GuestReturns, GuestReceives, GuestSeesEnd, GuestPrints, GuestForks, GuestCloses,
       GuestFlushes, GuestExits, GuestDies, Rpc, RunTypes
  <2> QED
    BY <1>0, <2>1, <2>2, <2>3, <2>4, <2>5 DEF RunTypes
<1>2. CASE KinStep
  <2>1. UNCHANGED <<sent, guest, exit_ok, endVars>>
    BY <1>2 DEF KinStep, KinPrints, KinLetGo, SocketFollows, brokerVars
  <2> QED
    BY <1>0, <1>2, <2>1, RunnerAlone DEF endVars, RunTypes
<1>3. CASE Serve
  <2>1. sent' = sent /\ UNCHANGED sandboxVars
    BY <1>3, SessionStep DEF Serve
  <2> QED
    BY <1>0, <2>1 DEF sandboxVars, runVars, endVars, RunTypes
<1>4. CASE UNCHANGED vars
  BY <1>0, <1>4 DEF vars, brokerVars, sandboxVars, runVars, endVars, RunTypes
<1>5. Err \in Outcomes /\ TimedOut \in Outcomes
  <2>1. 0 \in 0 .. MaxToolCalls /\ 0 \in 0 .. MaxOutput
    BY BrokerAssumption, SandboxAssumption
  <2>2. Err \in Outcomes
    BY <2>1 DEF Err, Outcomes
  <2>3. TimedOut \in Outcomes
    BY <2>2 DEF TimedOut, Outcomes
  <2> QED
    BY <2>2, <2>3
<1>6. ASSUME NEW o \in Outcomes, Return(o) PROVE RunTypes'
  <2>1. /\ runner' = "done" /\ outcome' = o /\ socket' = FALSE
        /\ guest' = IF guest \in Alive \cup {"raised"} THEN "killed" ELSE guest
        /\ UNCHANGED <<sent, exit_ok, returned, unheard>>
    BY <1>6 DEF Return, SocketFollows, endVars
  <2> QED
    BY <1>0, <2>1 DEF RunTypes
<1>7. CASE Refuse \/ PrepareFails \/ (\E spawned \in BOOLEAN : Spawn(spawned))
  <2>1. /\ UNCHANGED <<sent, exit_ok, returned, unheard>>
        /\ socket' \in {socket, TRUE} /\ guest' \in {guest, "starting"}
        /\ \/ runner' = "done" /\ outcome' = Err
           \/ runner' = "serving" /\ outcome' = outcome /\ runner = "new"
    BY <1>7 DEF Refuse, PrepareFails, Spawn, brokerVars, endVars
  <2> QED
    BY <1>0, <1>5, <2>1 DEF RunTypes, Alive
<1>8. CASE StartCollecting \/ Drain
  <2>1. /\ UNCHANGED <<sent, outcome, socket, guest, exit_ok, returned, unheard>>
        /\ runner # "done" /\ runner' \in {runner, "collecting"}
    BY <1>8 DEF StartCollecting, Drain, brokerVars, runVars, endVars
  <2> QED
    BY <1>0, <2>1 DEF RunTypes
<1>9. CASE Collected
  <2>1. Report \in Outcomes
    <3>1. session.result \in Values \cup {NoValue} /\ session.tool_calls \in 0 .. MaxToolCalls
      BY DEF BrokerInv, Typed, BrokerTypeOK
    <3> QED
      BY <3>1, KeptWithinCap DEF Report, Outcomes, RunTypes
  <2> QED
    BY <1>6, <1>9, <2>1 DEF Collected
<1>10. CASE ServeFailed \/ Timeout
  BY <1>5, <1>6, <1>10 DEF ServeFailed, Timeout
<1> QED
  BY <1>1, <1>2, <1>3, <1>4, <1>7, <1>8, <1>9, <1>10 DEF Next, RunnerStep

\* Every variable of a run stays in its set, and the pipe within what it holds.
THEOREM SandboxTypeCorrect == Spec => []SandboxTypeOK
<1>1. Init => RunTypes
  <2>1. 0 \in 0 .. MaxRequests /\ Len(<<>>) <= MaxRequests
    BY SandboxAssumption
  <2> QED
    BY <2>1 DEF Init, BrokerInit, RunTypes
<1>2. BrokerInv /\ ReportInv /\ Texts /\ RunTypes => SandboxTypeOK
  <2>1. Texts => \A text \in {pipe, output, written} : text \in Seq(Widths)
    <3>1. output \in Seq(Widths) /\ pipe \in Seq(Widths) => output \o pipe \in Seq(Widths)
      OBVIOUS
    <3> QED
      BY <3>1 DEF Texts
  <2>2. BrokerInv => BrokerTypeOK
    BY DEF BrokerInv, Typed
  <2> QED
    BY <2>1, <2>2 DEF ReportInv, Launched, Texts, RunTypes, Outcomes, SandboxTypeOK
<1> QED
  BY <1>1, <1>2, RunTypesKept, BrokerInvariant, NumberedInvariance, ReportInvariant,
     TextsInvariance, PTL DEF Spec
=============================================================================
