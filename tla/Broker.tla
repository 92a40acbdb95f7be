-------------------------------- MODULE Broker --------------------------------
(***************************************************************************)
(* One session of the tool broker                                          *)
(* (crates/chuk-tool-runtime-isolation/src/broker.rs, wire.rs), against    *)
(* any client: Broker::serve_one accepts one connection, checks the hello, *)
(* and then answers request after request until it cannot read another.    *)
(*                                                                         *)
(* The socket is a queue of frames in each direction.  The client puts an  *)
(* id of its choice into each request, twice the same if it likes, and the *)
(* reply echoes it.  A reply is written in the step that computes it, but  *)
(* a tool runs for as long as it likes in between.                         *)
(*                                                                         *)
(* A name, of a tool or a namespace, is the sequence of its parts between  *)
(* dots, so that "ns.name" is the one put before the other.                *)
(***************************************************************************)
EXTENDS Integers, SequencesExt, FiniteSets

CONSTANTS
    Ids,          \* ids a client puts into its requests
    BulkyIds,     \* those so long that a reply with one may exceed a frame
    Tools,        \* names of tools a client asks for
    Namespaces,   \* namespaces it asks for
    Namespace,    \* BrokerConfig::namespace
    AllowedTools, \* BrokerConfig::allowed_tools
    AnyTool,      \* whether allowed_tools is None
    MaxToolCalls, \* BrokerConfig::max_tool_calls
    Values,       \* values a client may report as its result
    NoValue,
    MaxRequests   \* bound: how many frames the client sends

Missing == <<>> \* in place of a name that is not given

ASSUME BrokerAssumption ==
    /\ BulkyIds \subseteq Ids
    /\ NoValue \notin Values
    /\ AnyTool \in BOOLEAN
    /\ MaxToolCalls \in Nat

\* Frames a client can send.  `Malformed` is one that wire::recv refuses: no
\* JSON object, or longer than MAX_FRAME_BYTES.
Request ==
    [method : {"hello"}, id : Ids, token : BOOLEAN]
        \cup [method : {"call_tool"}, id : Ids, ns : Namespaces \cup {Missing},
              tool : Tools \cup {Missing}]
        \cup [method : {"result"}, id : Ids, value : Values]
        \cup [method : {"list_tools", "other", "malformed"}, id : Ids]

VARIABLES
    link,    \* the client's end: "none", "open", "closed"
    up,      \* frames on their way to the broker
    down,    \* replies on their way to the client
    phase,   \* where serve_one is
    job,     \* the request whose tool it awaits
    session, \* the BrokerSession
    sent,    \* history: the ids of the frames the client has sent, in order
    replies, \* history: the replies written, in order
    ran      \* history: the invocations of tools that ended, in order

brokerVars == <<link, up, down, phase, job, session, sent, replies, ran>>

NoSession == [authorized |-> FALSE, tool_calls |-> 0, result |-> NoValue]

BrokerInit ==
    /\ link = "none" /\ up = <<>> /\ down = <<>>
    /\ phase = "accept" /\ job = <<>>
    /\ session = NoSession
    /\ sent = <<>> /\ replies = <<>> /\ ran = <<>>

Over == phase \in {"ended", "failed"}

-----------------------------------------------------------------------------
(* The client.                                                             *)

Connect ==
    /\ link = "none" /\ ~Over
    /\ link' = "open"
    /\ UNCHANGED <<up, down, phase, job, session, sent, replies, ran>>

Send(r) ==
    /\ link = "open" /\ Len(sent) < MaxRequests
    /\ up' = Append(up, r)
    /\ sent' = Append(sent, r.id)
    /\ UNCHANGED <<link, down, phase, job, session, replies, ran>>

Receive ==
    /\ link = "open" /\ down # <<>>
    /\ down' = Tail(down)
    /\ UNCHANGED <<link, up, phase, job, session, sent, replies, ran>>

HangUp ==
    /\ link = "open"
    /\ link' = "closed"
    /\ UNCHANGED <<up, down, phase, job, session, sent, replies, ran>>

-----------------------------------------------------------------------------
(* Broker::serve_one.                                                      *)

\* BrokerConfig::is_allowed (a slip: an entry counts in any namespace).
IsAllowedAnywhere(t) == AnyTool \/ \E e \in AllowedTools : IsSuffix(t, e)
IsAllowed(t) == AnyTool \/ t \in AllowedTools \/ Namespace \o t \in AllowedTools

\* The checks of Broker::call_tool before the invoker is called.
Permitted(r) ==
    /\ r.tool # Missing
    /\ r.ns \in {Missing, Namespace}
    /\ IsAllowed(r.tool)

\* Whether the reply to a request fits in a frame: it need not, if it repeats
\* what the client or the host chose, an id that long or `more`.
Sizes(id, more) == IF id \in BulkyIds \/ more THEN BOOLEAN ELSE {TRUE}

\* wire::send of the reply to request `id`: it fails when the client has gone
\* or the frame is too long, and `?` then ends the session with an error.
Answer(id, ok) == [id |-> id, ok |-> ok]
Reply(id, ok, fits, next) ==
    IF link = "open" /\ fits
    THEN /\ down' = Append(down, Answer(id, ok))
         /\ replies' = Append(replies, Answer(id, ok))
         /\ phase' = next
    ELSE /\ phase' = "failed"
         /\ UNCHANGED <<down, replies>>

\* The next frame is r.
Takes(r) == up # <<>> /\ r = Head(up) /\ up' = Tail(up)

Accept ==
    /\ phase = "accept" /\ link # "none"
    /\ phase' = "hello"
    /\ UNCHANGED <<link, up, down, job, session, sent, replies, ran>>

\* The handshake: a bad token or another method is refused, and the session is
\* over whether or not the refusal could be written.
Hello ==
    /\ phase = "hello"
    /\ \E r \in Request : \E fits \in Sizes(r.id, FALSE) :
          /\ Takes(r) /\ r.method # "malformed"
          /\ IF r.method = "hello" /\ r.token
             THEN /\ session' = [session EXCEPT !.authorized = TRUE]
                  /\ Reply(r.id, TRUE, fits, "ready")
             ELSE /\ phase' = "ended"
                  /\ IF link = "open" /\ fits
                     THEN /\ down' = Append(down, Answer(r.id, FALSE))
                          /\ replies' = Append(replies, Answer(r.id, FALSE))
                     ELSE UNCHANGED <<down, replies>>
                  /\ UNCHANGED session
    /\ UNCHANGED <<link, job, sent, ran>>

\* Nothing can be read: the handshake fails, the request loop just ends.
Unreadable == IF up = <<>> THEN link = "closed" ELSE Head(up).method = "malformed"

ReadFails ==
    /\ phase \in {"hello", "ready"} /\ Unreadable
    /\ phase' = IF phase = "hello" THEN "failed" ELSE "ended"
    /\ UNCHANGED <<link, up, down, job, session, sent, replies, ran>>

\* Whether a call_tool request is refused before the invoker is called (a slip:
\* after the result it is not).
RefusedUnlessDone(r) ==
    session.tool_calls >= MaxToolCalls \/ ~Permitted(r)
Refused(r) ==
    \/ session.result # NoValue
    \/ session.tool_calls >= MaxToolCalls
    \/ ~Permitted(r)

\* Which refusals repeat the namespace or the name that was asked for.
Repeats(r) ==
    /\ session.result = NoValue
    /\ session.tool_calls < MaxToolCalls
    /\ r.tool # Missing

CallRefused ==
    /\ phase = "ready"
    /\ \E r \in Request :
          /\ Takes(r) /\ r.method = "call_tool" /\ Refused(r)
          /\ \E fits \in Sizes(r.id, Repeats(r)) : Reply(r.id, FALSE, fits, "ready")
    /\ UNCHANGED <<link, job, session, sent, ran>>

\* The invoker is called, with no timeout.
CallTool ==
    /\ phase = "ready"
    /\ \E r \in Request :
          /\ Takes(r) /\ r.method = "call_tool" /\ ~Refused(r)
          /\ job' = <<[id |-> r.id, tool |-> r.tool]>>
    /\ phase' = "calling"
    /\ UNCHANGED <<link, down, session, sent, replies, ran>>

\* It answered.  Only a success counts, and it counts even if its result is
\* too long a frame or the client has gone (slips: counted once replied; the
\* reply has the id of the frame after it).
ToolAnswersCountedLate(ok, fits) ==
    /\ phase = "calling"
    /\ Reply(job[1].id, ok, fits, "ready")
    /\ session' = IF ok /\ phase' = "ready" THEN [session EXCEPT !.tool_calls = @ + 1]
                                          ELSE session
    /\ ran' = Append(ran, [tool |-> job[1].tool, ok |-> ok])
    /\ job' = <<>>
    /\ UNCHANGED <<link, up, sent>>
ToolAnswersNext(ok, fits) ==
    /\ phase = "calling"
    /\ session' = IF ok THEN [session EXCEPT !.tool_calls = @ + 1] ELSE session
    /\ Reply(IF up = <<>> THEN job[1].id ELSE up[1].id, ok, fits, "ready")
    /\ ran' = Append(ran, [tool |-> job[1].tool, ok |-> ok])
    /\ job' = <<>>
    /\ UNCHANGED <<link, up, sent>>
ToolAnswers(ok, fits) ==
    /\ phase = "calling"
    /\ session' = IF ok THEN [session EXCEPT !.tool_calls = @ + 1] ELSE session
    /\ Reply(job[1].id, ok, fits, "ready")
    /\ ran' = Append(ran, [tool |-> job[1].tool, ok |-> ok])
    /\ job' = <<>>
    /\ UNCHANGED <<link, up, sent>>

\* A result is kept if it is the first; the reply is positive in any case.
Kept(v) == IF session.result = NoValue THEN [session EXCEPT !.result = v] ELSE session

Result ==
    /\ phase = "ready"
    /\ \E r \in Request :
          /\ Takes(r) /\ r.method = "result"
          /\ session' = Kept(r.value)
          /\ \E fits \in Sizes(r.id, FALSE) : Reply(r.id, TRUE, fits, "ready")
    /\ UNCHANGED <<link, job, sent, ran>>

\* list_tools, with the whole allowlist, or a method that does not exist, which
\* the reply repeats (a second hello included).
OtherRequest ==
    /\ phase = "ready"
    /\ \E r \in Request :
          /\ Takes(r) /\ r.method \in {"list_tools", "hello", "other"}
          /\ \E fits \in Sizes(r.id, r.method # "hello") :
                Reply(r.id, r.method = "list_tools", fits, "ready")
    /\ UNCHANGED <<link, job, session, sent, ran>>

BrokerStep ==
    \/ Accept \/ Hello \/ ReadFails
    \/ CallRefused \/ CallTool \/ Result \/ OtherRequest
    \/ \E ok, fits \in BOOLEAN : ToolAnswers(ok, fits)

ClientStep ==
    \/ Connect \/ Receive \/ HangUp
    \/ \E r \in Request : Send(r)

BrokerNext == BrokerStep \/ ClientStep
BrokerSpec == BrokerInit /\ [][BrokerNext]_brokerVars

-----------------------------------------------------------------------------
(* Properties.                                                             *)

BrokerTypeOK ==
    /\ link \in {"none", "open", "closed"}
    /\ up \in Seq(Request)
    /\ \A q \in {down, replies} : q \in Seq([id : Ids, ok : BOOLEAN])
    /\ phase \in {"accept", "hello", "ready", "calling", "ended", "failed"}
    /\ job \in Seq([id : Ids, tool : Tools]) /\ (job = <<>>) = (phase # "calling")
    /\ session \in [authorized : BOOLEAN, tool_calls : 0 .. MaxToolCalls,
                     result : Values \cup {NoValue}]
    /\ sent \in Seq(Ids)
    /\ ran \in Seq([tool : Tools, ok : BOOLEAN])

\* The replies are those to the frames the client sent, one for each and in the
\* order sent, each with the id of its frame, also when ids repeat; while the
\* session lasts every frame is answered, being executed or waiting.  What the
\* client has not read yet is the end of what was answered (sequential dispatch,
\* broker.rs:107-155): it can take the replies one by one for those to its
\* requests, as guest.py:71 does.
AnsweredInOrder ==
    /\ Len(replies) <= Len(sent)
    /\ \A i \in 1 .. Len(replies) : replies[i].id = sent[i]
    /\ ~Over => Len(replies) + Len(job) + Len(up) = Len(sent)
    /\ Len(down) <= Len(replies)
    /\ \A i \in 1 .. Len(down) : down[i] = replies[Len(replies) - Len(down) + i]

\* A tool runs for an authorized client only, and only if the host allows it
\* ("everything privileged is decided here", broker.rs:7): its name is an entry,
\* or the host's own namespace makes it one.
RunsOnlyPermitted ==
    /\ job # <<>> \/ ran # <<>> => session.authorized
    /\ \A t \in {job[i].tool : i \in 1 .. Len(job)} \cup {ran[i].tool : i \in 1 .. Len(ran)} :
          AnyTool \/ t \in AllowedTools \/ Namespace \o t \in AllowedTools

\* tool_calls is the number of tools that ran with success, whatever became of
\* their replies, and never exceeds the limit (broker.rs:31-33, 133).  A call
\* that failed spends nothing of the limit and is not reported, however many
\* there are: this is not "Maximum tool calls the guest may make" (limits.rs:34)
\* nor "How many tool calls the guest made" (broker.rs:52).
CallsCounted ==
    /\ session.tool_calls = Cardinality({i \in 1 .. Len(ran) : ran[i].ok})
    /\ session.tool_calls <= MaxToolCalls

\* The first result is final, and no tool starts after it ("No privileged work
\* once the run has produced its result", broker.rs:121).
ResultIsFinal ==
    [][session.result # NoValue =>
          /\ session'.result = session.result
          /\ job' = <<>> /\ ran' = ran]_brokerVars
=============================================================================
