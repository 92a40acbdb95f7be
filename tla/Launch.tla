-------------------------------- MODULE Launch --------------------------------
(***************************************************************************)
(* What a guest is launched with: the files it sees and may write under    *)
(* each SandboxBackend, and how much is kept of what it prints (lib.rs,    *)
(* local.rs, seatbelt.rs, bubblewrap.rs and limits.rs of                   *)
(* crates/chuk-tool-runtime-isolation).                                    *)
(*                                                                         *)
(* A path is a sequence of names.  A wrapper is a list of entries, mounts  *)
(* or rules of a profile, and of those that cover a path the last one      *)
(* decides: bwrap mounts one over the other, sandbox-exec takes the last   *)
(* rule that matches.                                                      *)
(***************************************************************************)
EXTENDS Integers, SequencesExt

CONSTANTS
    SystemRoots, \* the SYSTEM_ROOTS that exist, as a sequence of paths
    DenyRead,    \* SeatbeltBackend::deny_read_paths
    Places,      \* the paths of the host whose fate is told
    Setups       \* the runners and hosts considered

Tmp == <<"tmp">>
Endpoint == Tmp \o <<"sock">>
Root == <<>>

ASSUME LaunchAssumption ==
    /\ Setups \subseteq [backend  : {"local", "seatbelt", "bubblewrap"},
                         workdir  : Seq(STRING), \* made under $TMPDIR
                         python   : Seq(STRING), \* the interpreter found
                         allow_no_isolation : BOOLEAN]
    /\ {SystemRoots, DenyRead} \subseteq Seq(Seq(STRING)) /\ Places \subseteq Seq(STRING)

-----------------------------------------------------------------------------
(* Lists of entries.                                                       *)

Entry(what, path) == [what |-> what, path |-> path]
Each(what, paths) == [i \in DOMAIN paths |-> Entry(what, paths[i])]
Within(p, dir) == IsPrefix(dir, p)

\* What the last entry of list es that covers p says, or `otherwise`.
Ruling(es, p, otherwise) ==
    LET Is == {i \in DOMAIN es : Within(p, es[i].path)}
    IN  IF Is = {} THEN otherwise ELSE es[Max(Is)].what

-----------------------------------------------------------------------------
(* The backends.                                                           *)

\* provides_isolation.
Isolates(s) == s.backend # "local"

\* The host resolves a path before any rule sees it: macOS keeps these
\* directories of its root under /private.
Real(s, p) ==
    IF s.backend = "seatbelt" /\ p # Root /\ p[1] \in {"tmp", "var"}
    THEN <<"private">> \o p ELSE p

\* BubblewrapBackend::wrapper_argv (a slip: the private /tmp comes last).
MountsTmpLast(s) ==
    Each("ro-bind", SystemRoots)
        \o <<Entry("fresh", <<"proc">>), Entry("fresh", <<"dev">>),
             Entry("ro-bind", s.workdir), Entry("bind", Tmp), Entry("fresh", Tmp)>>
Mounts(s) ==
    Each("ro-bind", SystemRoots)
        \o <<Entry("fresh", <<"proc">>), Entry("fresh", <<"dev">>), Entry("fresh", Tmp),
             Entry("ro-bind", s.workdir), Entry("bind", Tmp)>>

\* SeatbeltBackend::profile: what it says of reads, and of writes.
ReadRules == <<Entry("allow", Root)>> \o Each("deny", DenyRead)
WriteRules(s) ==
    Each("allow", <<Real(s, s.workdir), Real(s, Tmp), <<"private", "tmp">>, <<"dev", "null">>>>)

\* Whether the guest reads, or writes, what the host has at p.
Reads(s, p) ==
    CASE s.backend = "local"      -> TRUE
      [] s.backend = "seatbelt"   -> Ruling(ReadRules, Real(s, p), "deny") = "allow"
      [] s.backend = "bubblewrap" -> Ruling(Mounts(s), p, "none") \in {"bind", "ro-bind"}
Writes(s, p) ==
    CASE s.backend = "local"      -> TRUE
      [] s.backend = "seatbelt"   -> Ruling(WriteRules(s), Real(s, p), "deny") = "allow"
      [] s.backend = "bubblewrap" -> Ruling(Mounts(s), p, "none") = "bind"

\* The guest comes up if it sees its interpreter, its staging directory
\* (guest.py and job.json) and the socket.
ComesUp(s) == \A p \in {s.python, s.workdir, Endpoint} : Reads(s, p)

-----------------------------------------------------------------------------
(* The cap of the output.  A text is the sequence of the widths, in bytes, *)
(* of its characters.                                                      *)

\* How many bytes the first n characters of text take; where characters end.
Bytes(text) ==
    LET bytes[n \in 0 .. Len(text)] == IF n = 0 THEN 0 ELSE bytes[n - 1] + text[n]
    IN  bytes
Boundaries(text) == {Bytes(text)[n] : n \in 0 .. Len(text)}

\* truncate_utf8: how many bytes of text are kept of at most max.
Truncated(text, max) ==
    LET end[e \in 0 .. max] == IF e = 0 \/ e \in Boundaries(text) THEN e ELSE end[e - 1]
        all == Bytes(text)[Len(text)]
    IN  IF all <= max THEN all ELSE end[max]

-----------------------------------------------------------------------------
(* Properties.                                                             *)

\* Whatever the order of the mounts or rules, the guest sees its staging
\* directory and the socket, whose directory it can write, and an isolated one
\* writes nowhere "outside the work/socket/tmp dirs" (lib.rs:10-11).  Under
\* bubblewrap it writes in the /tmp of the host, all of it and nothing else: that
\* directory is bound for the socket (runner.rs:109, bubblewrap.rs:69-75) over
\* the "private `/tmp` tmpfs" (bubblewrap.rs:3-4), and over a staging directory
\* that lies in it, which is then not read-only (bubblewrap.rs:66).
SeesItsFiles(s) ==
    /\ \A p \in {s.workdir, Endpoint} : Reads(s, p)
    /\ Writes(s, Endpoint)
    /\ Isolates(s) => \A p \in Places : Writes(s, p) =>
          \E dir \in {s.workdir, Tmp, <<"dev", "null">>} : Within(Real(s, p), Real(s, dir))
    /\ s.backend = "bubblewrap" =>
          \A p \in Places \cup {s.workdir} : Writes(s, p) <=> Within(p, Tmp)
=============================================================================
