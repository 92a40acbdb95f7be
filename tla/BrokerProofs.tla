---------------------------- MODULE BrokerProofs ----------------------------
(***************************************************************************)
(* Proofs about Broker: for every client and every number of frames, only  *)
(* permitted tools run, successes are counted against the limit, frames    *)
(* are answered once and in order, and the first result is final.          *)
(***************************************************************************)
EXTENDS Broker, FiniteSetTheorems, TLAPS

-----------------------------------------------------------------------------
(* The invariant.                                                          *)

\* What serve_one knows in its request loop: the client is authorized, and
\* while a tool runs it is the only one, there is no result and the limit has
\* not been reached.
LoopState ==
    /\ phase \in {"ready", "calling"} => session.authorized
    /\ phase = "calling" =>
          /\ Len(job) = 1
          /\ session.result = NoValue
          /\ session.tool_calls < MaxToolCalls

Typed == BrokerTypeOK /\ LoopState

\* A request of any kind has an id.
LEMMA RequestId ==
    ASSUME NEW r \in Request
    PROVE  r.id \in Ids
  BY DEF Request

\* A reply is sent, whether or not it fits.
Sends(id, ok) == \E fits : Reply(id, ok, fits, "ready")

\* wire::send either writes the reply and goes on, or fails and ends the
\* session.
LEMMA ReplyEffect ==
    ASSUME BrokerTypeOK, NEW id \in Ids, NEW ok \in BOOLEAN, Sends(id, ok)
    PROVE  \/ /\ phase' = "ready"
              /\ down' = Append(down, Answer(id, ok)) /\ replies' = Append(replies, Answer(id, ok))
           \/ phase' = "failed" /\ down' = down /\ replies' = replies
  BY DEF Reply, Sends

\* The queue of replies and their history take an answer.
LEMMA AnswerAppended ==
    ASSUME BrokerTypeOK, NEW id \in Ids, NEW ok \in BOOLEAN
    PROVE  /\ Append(down, Answer(id, ok)) \in Seq([id : Ids, ok : BOOLEAN])
           /\ Append(replies, Answer(id, ok)) \in Seq([id : Ids, ok : BOOLEAN])
<1> DEFINE Replies == [id : Ids, ok : BOOLEAN]
           a == Answer(id, ok)
<1>1. a \in Replies /\ down \in Seq(Replies) /\ replies \in Seq(Replies)
  BY DEF BrokerTypeOK, Answer
<1> HIDE DEF Replies, a
<1>2. Append(down, a) \in Seq(Replies) /\ Append(replies, a) \in Seq(Replies)
  BY <1>1
<1> QED
  BY <1>2 DEF Replies, a

\* Replies stay replies, whether or not one is written.
LEMMA ReplyType ==
    ASSUME BrokerTypeOK, NEW id \in Ids, NEW ok \in BOOLEAN, Sends(id, ok)
    PROVE  /\ phase' \in {"ready", "failed"}
           /\ down' \in Seq([id : Ids, ok : BOOLEAN])
           /\ replies' \in Seq([id : Ids, ok : BOOLEAN])
<1>1. down \in Seq([id : Ids, ok : BOOLEAN]) /\ replies \in Seq([id : Ids, ok : BOOLEAN])
  BY DEF BrokerTypeOK
<1> QED
  BY <1>1, ReplyEffect, AnswerAppended

\* A frame is taken from the front of the queue (wire::recv).
LEMMA TakesType ==
    ASSUME BrokerTypeOK, NEW r \in Request, Takes(r)
    PROVE  up' \in Seq(Request) /\ Len(up') = Len(up) - 1 /\ Len(up) > 0
  BY DEF BrokerTypeOK, Takes

\* A result is kept as a value, next to the same counts.
LEMMA KeptType ==
    ASSUME Typed, NEW v \in Values
    PROVE  /\ Kept(v).authorized = session.authorized
           /\ Kept(v).tool_calls = session.tool_calls
           /\ Kept(v) \in [authorized : BOOLEAN, tool_calls : 0 .. MaxToolCalls,
                           result : Values \cup {NoValue}]
           /\ session.result # NoValue => Kept(v) = session
  BY DEF Typed, BrokerTypeOK, Kept

\* While a tool runs, its request is the job.
LEMMA JobType ==
    ASSUME Typed, phase = "calling"
    PROVE  Len(job) = 1 /\ job[1].id \in Ids /\ job[1].tool \in Tools
<1> DEFINE Jobs == [id : Ids, tool : Tools]
<1>1. job \in Seq(Jobs) /\ Len(job) = 1
  BY DEF Typed, BrokerTypeOK, LoopState
<1> HIDE DEF Jobs
<1>2. job[1] \in Jobs
  BY <1>1
<1> QED
  BY <1>1, <1>2 DEF Jobs

\* Every variable of a session stays in its set: the call count never passes
\* the limit, although it is checked before a call and raised after it.
THEOREM TypedInvariance == BrokerSpec => []Typed
<1>1. BrokerInit => Typed
  BY BrokerAssumption DEF BrokerInit, Typed, BrokerTypeOK, LoopState, NoSession
<1>2. Typed /\ [BrokerNext]_brokerVars => Typed'
  <2> SUFFICES ASSUME Typed, [BrokerNext]_brokerVars PROVE Typed'
    OBVIOUS
  <2> USE BrokerAssumption DEF Typed
  <2>1. CASE Connect
    BY <2>1 DEF Connect, BrokerTypeOK, LoopState
  <2>2. ASSUME NEW r \in Request, Send(r) PROVE Typed'
    <3>1. up' \in Seq(Request)
      <4>1. up \in Seq(Request) /\ up' = Append(up, r)
        BY <2>2 DEF Send, BrokerTypeOK
      <4> QED
        BY <4>1
    <3>2. sent' \in Seq(Ids)
      <4>1. sent \in Seq(Ids) /\ sent' = Append(sent, r.id) /\ r.id \in Ids
        BY <2>2, RequestId DEF Send, BrokerTypeOK
      <4> QED
        BY <4>1
    <3> QED
      BY <2>2, <3>1, <3>2 DEF Send, BrokerTypeOK, LoopState
  <2>3. CASE Receive
    BY <2>3 DEF Receive, BrokerTypeOK, LoopState
  <2>4. CASE HangUp
    BY <2>4 DEF HangUp, BrokerTypeOK, LoopState
  <2>5. CASE Accept
    BY <2>5 DEF Accept, BrokerTypeOK, LoopState
  <2>6. CASE ReadFails
    BY <2>6 DEF ReadFails, BrokerTypeOK, LoopState
  <2>7. CASE Hello
    <3>1. PICK r \in Request :
            /\ Takes(r)
            /\ \/ /\ session' = [session EXCEPT !.authorized = TRUE]
                  /\ Sends(r.id, TRUE)
               \/ /\ phase' = "ended" /\ session' = session
                  /\ \/ /\ down' = Append(down, Answer(r.id, FALSE))
                        /\ replies' = Append(replies, Answer(r.id, FALSE))
                     \/ down' = down /\ replies' = replies
      BY <2>7 DEF Hello, Sends
    <3>2. up' \in Seq(Request) /\ r.id \in Ids
      BY <3>1, TakesType, RequestId
    <3>3. UNCHANGED <<link, job, sent, ran>> /\ job = <<>>
      BY <2>7 DEF Hello, BrokerTypeOK
    <3>4. CASE session' = [session EXCEPT !.authorized = TRUE] /\ Sends(r.id, TRUE)
      <4>1. /\ phase' \in {"ready", "failed"}
            /\ down' \in Seq([id : Ids, ok : BOOLEAN])
            /\ replies' \in Seq([id : Ids, ok : BOOLEAN])
        BY <3>2, <3>4, ReplyType
      <4> QED
        BY <3>2, <3>3, <3>4, <4>1 DEF BrokerTypeOK, LoopState
    <3>5. CASE phase' = "ended" /\ session' = session
      <4>1. /\ down' \in Seq([id : Ids, ok : BOOLEAN])
            /\ replies' \in Seq([id : Ids, ok : BOOLEAN])
        <5>1. CASE down' = down /\ replies' = replies
          BY <5>1 DEF BrokerTypeOK
        <5>2. CASE /\ down' = Append(down, Answer(r.id, FALSE))
                   /\ replies' = Append(replies, Answer(r.id, FALSE))
          BY <3>2, <5>2, AnswerAppended
        <5>3. CASE Sends(r.id, TRUE)
          BY <3>2, <5>3, ReplyType
        <5> QED
          BY <3>1, <5>1, <5>2, <5>3
      <4> QED
        BY <3>2, <3>3, <3>5, <4>1 DEF BrokerTypeOK, LoopState
    <3> QED
      BY <3>1, <3>4, <3>5
  <2>8. CASE CallRefused
    <3>1. PICK r \in Request : Takes(r) /\ Sends(r.id, FALSE)
      BY <2>8 DEF CallRefused, Sends
    <3>2. up' \in Seq(Request)
      BY <3>1, TakesType
    <3>3. /\ phase' \in {"ready", "failed"}
          /\ down' \in Seq([id : Ids, ok : BOOLEAN])
          /\ replies' \in Seq([id : Ids, ok : BOOLEAN])
      BY <3>1, RequestId, ReplyType
    <3> QED
      BY <2>8, <3>2, <3>3 DEF CallRefused, BrokerTypeOK, LoopState
  <2>9. CASE CallTool
    <3>1. PICK r \in Request :
            /\ Takes(r) /\ r.method = "call_tool" /\ ~Refused(r)
            /\ job' = <<[id |-> r.id, tool |-> r.tool]>>
      BY <2>9 DEF CallTool
    <3>2. up' \in Seq(Request)
      BY <3>1, TakesType
    <3>3. [id |-> r.id, tool |-> r.tool] \in [id : Ids, tool : Tools]
      <4>1. r.tool \in Tools \cup {Missing} /\ r.tool # Missing /\ r.id \in Ids
        BY <3>1, RequestId DEF Request, Refused, Permitted
      <4> QED
        BY <4>1
    <3>4. session.result = NoValue /\ session.tool_calls < MaxToolCalls
      BY <3>1 DEF Refused, BrokerTypeOK
    <3>5. job' \in Seq([id : Ids, tool : Tools]) /\ Len(job') = 1 /\ job' # <<>>
      <4> DEFINE e == [id |-> r.id, tool |-> r.tool]
                 Jobs == [id : Ids, tool : Tools]
      <4>1. e \in Jobs /\ job' = <<e>>
        BY <3>1, <3>3
      <4> HIDE DEF e, Jobs
      <4>2. job' \in Seq(Jobs) /\ Len(job') = 1 /\ job' # <<>>
        BY <4>1
      <4> QED
        BY <4>2 DEF Jobs
    <3> QED
      BY <2>9, <3>2, <3>4, <3>5 DEF CallTool, BrokerTypeOK, LoopState
  <2>10. ASSUME NEW ok \in BOOLEAN, NEW fits \in BOOLEAN, ToolAnswers(ok, fits)
         PROVE  Typed'
    <3>1. job[1].id \in Ids /\ job[1].tool \in Tools
      BY <2>10, JobType DEF ToolAnswers
    <3>2. ran' \in Seq([tool : Tools, ok : BOOLEAN])
      BY <2>10, <3>1 DEF ToolAnswers, BrokerTypeOK
    <3>3. /\ session' \in [authorized : BOOLEAN, tool_calls : 0 .. MaxToolCalls,
                           result : Values \cup {NoValue}]
          /\ session'.authorized = session.authorized
      <4>1. /\ session \in [authorized : BOOLEAN, tool_calls : 0 .. MaxToolCalls,
                            result : Values \cup {NoValue}]
            /\ session.tool_calls + 1 \in 0 .. MaxToolCalls
        BY <2>10 DEF ToolAnswers, BrokerTypeOK, LoopState
      <4>2. CASE ok /\ session' = [session EXCEPT !.tool_calls = @ + 1]
        BY <4>1, <4>2
      <4>3. CASE session' = session
        BY <4>1, <4>3
      <4> QED
        BY <2>10, <4>2, <4>3 DEF ToolAnswers
    <3>4. job' = <<>> /\ phase' \in {"ready", "failed"}
          /\ down' \in Seq([id : Ids, ok : BOOLEAN])
          /\ replies' \in Seq([id : Ids, ok : BOOLEAN])
      BY <2>10, <3>1, ReplyType DEF ToolAnswers, Sends
    <3>5. session.authorized /\ UNCHANGED <<link, up, sent>>
      BY <2>10 DEF ToolAnswers, LoopState
    <3> QED
      BY <3>2, <3>3, <3>4, <3>5 DEF BrokerTypeOK, LoopState
  <2>11. CASE Result
    <3>1. PICK r \in Request :
            /\ Takes(r) /\ r.method = "result" /\ session' = Kept(r.value)
            /\ Sends(r.id, TRUE)
      BY <2>11 DEF Result, Sends
    <3>2. up' \in Seq(Request)
      BY <3>1, TakesType
    <3>3. r.value \in Values
      BY <3>1 DEF Request
    <3>4. /\ session' \in [authorized : BOOLEAN, tool_calls : 0 .. MaxToolCalls,
                           result : Values \cup {NoValue}]
          /\ session'.authorized = session.authorized
      BY <3>1, <3>3, KeptType
    <3>5. session.authorized /\ job = <<>> /\ UNCHANGED <<link, job, sent, ran>>
      BY <2>11 DEF Result, LoopState, BrokerTypeOK
    <3>6. phase' \in {"ready", "failed"}
          /\ down' \in Seq([id : Ids, ok : BOOLEAN])
          /\ replies' \in Seq([id : Ids, ok : BOOLEAN])
      BY <3>1, RequestId, ReplyType
    <3> QED
      BY <3>2, <3>4, <3>5, <3>6 DEF BrokerTypeOK, LoopState
  <2>12. CASE OtherRequest
    <3>1. PICK r \in Request :
            Takes(r) /\ Sends(r.id, r.method = "list_tools")
      BY <2>12 DEF OtherRequest, Sends
    <3>2. up' \in Seq(Request)
      BY <3>1, TakesType
    <3>3. phase' \in {"ready", "failed"}
          /\ down' \in Seq([id : Ids, ok : BOOLEAN])
          /\ replies' \in Seq([id : Ids, ok : BOOLEAN])
      BY <3>1, RequestId, ReplyType, (r.method = "list_tools") \in BOOLEAN
    <3> QED
      BY <2>12, <3>2, <3>3 DEF OtherRequest, BrokerTypeOK, LoopState
  <2>13. CASE UNCHANGED brokerVars
    BY <2>13 DEF brokerVars, BrokerTypeOK, LoopState
  <2> QED
    BY <2>1, <2>2, <2>3, <2>4, <2>5, <2>6, <2>7, <2>8, <2>9, <2>10, <2>11, <2>12, <2>13
       DEF BrokerNext, BrokerStep, ClientStep
<1> QED
  BY <1>1, <1>2, PTL DEF BrokerSpec

\* The types alone.
THEOREM BrokerTypeCorrect == BrokerSpec => []BrokerTypeOK
<1>1. Typed => BrokerTypeOK
  BY DEF Typed
<1> QED
  BY <1>1, TypedInvariance, PTL

-----------------------------------------------------------------------------
(* What runs, how often, and when no more.                                 *)

\* A step either ends a running tool and adds its invocation to `ran`, or
\* leaves `ran` alone; a tool starts only if it is permitted, and only for an
\* authorized client without a result.
LEMMA ToolSteps ==
    ASSUME Typed, [BrokerNext]_brokerVars
    PROVE  \/ /\ phase = "calling" /\ job' = <<>>
              /\ session'.authorized = session.authorized
              /\ session'.result = session.result
              /\ \E ok \in BOOLEAN :
                    /\ ran' = Append(ran, [tool |-> job[1].tool, ok |-> ok])
                    /\ session'.tool_calls = session.tool_calls + (IF ok THEN 1 ELSE 0)
           \/ /\ ran' = ran
              /\ session'.tool_calls = session.tool_calls
              /\ session.authorized => session'.authorized
              /\ session.result # NoValue => session'.result = session.result
              /\ \/ job' = job
                 \/ /\ session.authorized /\ session.result = NoValue
                    /\ \E id \in Ids, t \in Tools :
                          job' = <<[id |-> id, tool |-> t]>> /\ IsAllowed(t)
<1> USE DEF Typed
<1> DEFINE Quiet == /\ ran' = ran
                    /\ session'.tool_calls = session.tool_calls
                    /\ session.authorized => session'.authorized
                    /\ session.result # NoValue => session'.result = session.result
                    /\ job' = job
<1>1. CASE ClientStep \/ Accept \/ ReadFails \/ CallRefused \/ OtherRequest \/ UNCHANGED brokerVars
  <2>1. Quiet
    BY <1>1 DEF ClientStep, Connect, Send, Receive, HangUp, Accept, ReadFails,
                CallRefused, OtherRequest, brokerVars
  <2> QED
    BY <2>1
<1>2. CASE Hello
  <2>1. ran' = ran /\ job' = job
        /\ (session' = session \/ session' = [session EXCEPT !.authorized = TRUE])
    BY <1>2 DEF Hello
  <2>2. Quiet
    BY <2>1 DEF BrokerTypeOK
  <2> QED
    BY <2>2
<1>3. CASE CallTool
  <2>1. PICK r \in Request :
          /\ r.method = "call_tool" /\ ~Refused(r)
          /\ job' = <<[id |-> r.id, tool |-> r.tool]>>
    BY <1>3 DEF CallTool
  <2>2. /\ r.id \in Ids /\ r.tool \in Tools /\ IsAllowed(r.tool)
        /\ session.result = NoValue
    BY <2>1, RequestId DEF Request, Refused, Permitted
  <2>3. session.authorized /\ ran' = ran /\ session' = session
    BY <1>3 DEF CallTool, LoopState
  <2> QED
    BY <2>1, <2>2, <2>3
<1>4. ASSUME NEW ok \in BOOLEAN, NEW fits \in BOOLEAN, ToolAnswers(ok, fits)
      PROVE  /\ phase = "calling" /\ job' = <<>>
             /\ session'.authorized = session.authorized
             /\ session'.result = session.result
             /\ ran' = Append(ran, [tool |-> job[1].tool, ok |-> ok])
             /\ session'.tool_calls = session.tool_calls + (IF ok THEN 1 ELSE 0)
  <2>1. session.tool_calls \in Nat
    BY DEF BrokerTypeOK
  <2>2. CASE ok /\ session' = [session EXCEPT !.tool_calls = @ + 1]
    BY <1>4, <2>1, <2>2 DEF ToolAnswers, BrokerTypeOK
  <2>3. CASE ~ok /\ session' = session
    BY <1>4, <2>1, <2>3 DEF ToolAnswers
  <2> QED
    BY <1>4, <2>2, <2>3 DEF ToolAnswers
<1>5. CASE Result
  <2>1. PICK v \in Values : session' = Kept(v) /\ job' = job /\ ran' = ran
    BY <1>5 DEF Result, Request
  <2>2. Quiet
    BY <2>1, KeptType
  <2> QED
    BY <2>2
<1> QED
  BY <1>1, <1>2, <1>3, <1>4, <1>5 DEF BrokerNext, BrokerStep

\* Appending to the history of invocations (sequence facts with the appended
\* record left opaque).
LEMMA RanAppended ==
    ASSUME BrokerTypeOK, NEW e, e \in [tool : Tools, ok : BOOLEAN]
    PROVE  LET n == Len(ran)
               s == Append(ran, e)
           IN  /\ n \in Nat /\ Len(s) = n + 1 /\ s[n + 1] = e
               /\ \A i \in 1 .. n : s[i] = ran[i]
<1> DEFINE Runs == [tool : Tools, ok : BOOLEAN]
<1>1. ran \in Seq(Runs) /\ e \in Runs
  BY DEF BrokerTypeOK
<1> HIDE DEF Runs
<1> QED
  BY <1>1

\* A tool runs for an authorized client only, and only if the host allows it.
THEOREM RunsOnlyPermittedHolds == BrokerSpec => []RunsOnlyPermitted
<1> DEFINE Allows(t) == AnyTool \/ t \in AllowedTools \/ Namespace \o t \in AllowedTools
           Safe == /\ job # <<>> \/ ran # <<>> => session.authorized
                   /\ \A i \in 1 .. Len(job) : Allows(job[i].tool)
                   /\ \A i \in 1 .. Len(ran) : Allows(ran[i].tool)
<1>1. BrokerInit => Safe
  BY DEF BrokerInit
<1>2. Typed /\ Safe /\ [BrokerNext]_brokerVars => Safe'
  <2> SUFFICES ASSUME Typed, Safe, [BrokerNext]_brokerVars PROVE Safe'
    OBVIOUS
  <2>1. ASSUME phase = "calling", job' = <<>>,
               session'.authorized = session.authorized,
               NEW ok \in BOOLEAN,
               ran' = Append(ran, [tool |-> job[1].tool, ok |-> ok])
        PROVE  Safe'
    <3> DEFINE e == [tool |-> job[1].tool, ok |-> ok]
    <3>1. job[1].tool \in Tools /\ Len(job) = 1 /\ session.authorized
      BY <2>1, JobType DEF Typed, LoopState
    <3>2. e \in [tool : Tools, ok : BOOLEAN] /\ Allows(e.tool)
      BY <3>1
    <3> HIDE DEF Allows
    <3>3. /\ Len(ran) \in Nat /\ Len(ran') = Len(ran) + 1 /\ ran'[Len(ran) + 1] = e
          /\ \A i \in 1 .. Len(ran) : ran'[i] = ran[i]
      BY <2>1, <3>2, RanAppended DEF Typed
    <3> HIDE DEF e
    <3>4. \A i \in 1 .. Len(ran') : Allows(ran'[i].tool)
      BY <3>2, <3>3
    <3> QED
      BY <2>1, <3>1, <3>4
  <2>2. ASSUME ran' = ran, session.authorized => session'.authorized,
               \/ job' = job
               \/ /\ session.authorized
                  /\ \E id \in Ids, t \in Tools :
                        job' = <<[id |-> id, tool |-> t]>> /\ IsAllowed(t)
        PROVE  Safe'
    <3>1. CASE job' = job
      BY <2>2, <3>1
    <3>2. ASSUME session.authorized, NEW id \in Ids, NEW t \in Tools,
                 job' = <<[id |-> id, tool |-> t]>>, IsAllowed(t)
          PROVE  Safe'
      <4>1. Allows(t) /\ session'.authorized
        BY <2>2, <3>2 DEF IsAllowed
      <4> HIDE DEF Allows
      <4>2. \A i \in 1 .. Len(job') : Allows(job'[i].tool)
        <5>1. Len(job') = 1 /\ job'[1].tool = t
          BY <3>2
        <5> QED
          BY <4>1, <5>1
      <4> QED
        BY <2>2, <4>1, <4>2
    <3> QED
      BY <2>2, <3>1, <3>2
  <2> HIDE DEF Safe
  <2> QED
    BY <2>1, <2>2, ToolSteps
<1>3. Safe => RunsOnlyPermitted
  BY DEF RunsOnlyPermitted
<1> HIDE DEF Safe
<1> QED
  BY <1>1, <1>2, <1>3, TypedInvariance, PTL DEF BrokerSpec

\* The first result is final, and nothing starts or ends after it.
THEOREM ResultIsFinalHolds == BrokerSpec => ResultIsFinal
<1>1. Typed /\ [BrokerNext]_brokerVars =>
          [session.result # NoValue =>
              /\ session'.result = session.result
              /\ job' = <<>> /\ ran' = ran]_brokerVars
  <2> SUFFICES ASSUME Typed, [BrokerNext]_brokerVars, session.result # NoValue
               PROVE  session'.result = session.result /\ job' = <<>> /\ ran' = ran
    OBVIOUS
  <2>1. phase # "calling" /\ job = <<>>
    BY DEF Typed, LoopState, BrokerTypeOK
  <2> QED
    BY <2>1, ToolSteps
<1> QED
  BY <1>1, TypedInvariance, PTL DEF BrokerSpec, ResultIsFinal

\* The counter is the number of the successes among the invocations.
Successes(s) == {i \in 1 .. Len(s) : s[i].ok}

\* One more invocation adds itself to the successes if it is one, and leaves
\* the others where they are.
LEMMA SuccessesAppended ==
    ASSUME BrokerTypeOK, NEW e, e \in [tool : Tools, ok : BOOLEAN]
    PROVE  /\ Cardinality(Successes(ran)) \in Nat
           /\ Cardinality(Successes(Append(ran, e)))
                  = Cardinality(Successes(ran)) + (IF e.ok THEN 1 ELSE 0)
<1> DEFINE n == Len(ran)
           s == Append(ran, e)
<1>1. /\ n \in Nat /\ Len(s) = n + 1 /\ s[n + 1] = e
      /\ \A i \in 1 .. n : s[i] = ran[i]
  BY RanAppended
<1> HIDE DEF s
<1>2. IsFiniteSet(Successes(ran)) /\ Cardinality(Successes(ran)) \in Nat
  <2>1. IsFiniteSet(1 .. n) /\ Successes(ran) \subseteq 1 .. n
    BY <1>1, FS_Interval DEF Successes
  <2> QED
    BY <2>1, FS_Subset, FS_CardinalityType
<1>3. n + 1 \notin Successes(ran)
  BY <1>1 DEF Successes
<1>4. CASE e.ok
  <2>1. Successes(s) = Successes(ran) \cup {n + 1}
    BY <1>1, <1>4 DEF Successes
  <2>2. Cardinality(Successes(s)) = Cardinality(Successes(ran)) + 1
    BY <1>2, <1>3, <2>1, FS_AddElement
  <2> QED
    BY <1>2, <1>4, <2>2 DEF s
<1>5. CASE ~e.ok
  <2>1. Successes(s) = Successes(ran)
    BY <1>1, <1>5 DEF Successes
  <2> QED
    BY <1>2, <1>5, <2>1 DEF s
<1> QED
  BY <1>4, <1>5

\* tool_calls counts exactly the tools that ran with success, and stays
\* within the limit.
THEOREM CallsCountedHolds == BrokerSpec => []CallsCounted
<1> DEFINE Counted == session.tool_calls = Cardinality(Successes(ran))
<1>1. BrokerInit => Counted
  <2> SUFFICES ASSUME BrokerInit PROVE Counted
    OBVIOUS
  <2>1. Successes(ran) = {} /\ session.tool_calls = 0
    BY DEF BrokerInit, NoSession, Successes
  <2> QED
    BY <2>1, FS_EmptySet
<1>2. Typed /\ Counted /\ [BrokerNext]_brokerVars => Counted'
  <2> SUFFICES ASSUME Typed, Counted, [BrokerNext]_brokerVars PROVE Counted'
    OBVIOUS
  <2>1. ASSUME phase = "calling", NEW ok \in BOOLEAN,
               ran' = Append(ran, [tool |-> job[1].tool, ok |-> ok]),
               session'.tool_calls = session.tool_calls + (IF ok THEN 1 ELSE 0)
        PROVE  Counted'
    <3> DEFINE e == [tool |-> job[1].tool, ok |-> ok]
    <3>1. e \in [tool : Tools, ok : BOOLEAN] /\ e.ok = ok
      BY <2>1, JobType
    <3> HIDE DEF e
    <3>2. ran' = Append(ran, e)
      BY <2>1 DEF e
    <3>3. Cardinality(Successes(Append(ran, e)))
              = Cardinality(Successes(ran)) + (IF e.ok THEN 1 ELSE 0)
      BY <3>1, SuccessesAppended DEF Typed
    <3> QED
      BY <2>1, <3>1, <3>2, <3>3 DEF Successes
  <2>2. ASSUME ran' = ran, session'.tool_calls = session.tool_calls
        PROVE  Counted'
    BY <2>2 DEF Successes
  <2> HIDE DEF Counted
  <2> QED
    BY <2>1, <2>2, ToolSteps
<1>3. Typed /\ Counted => CallsCounted
  BY BrokerAssumption DEF Typed, BrokerTypeOK, CallsCounted, Successes
<1> HIDE DEF Counted
<1> QED
  BY <1>1, <1>2, <1>3, TypedInvariance, PTL DEF BrokerSpec

-----------------------------------------------------------------------------
(* Requests are answered in order.                                         *)

\* The unread replies are the last ones.
UnreadAreLast ==
    /\ Len(down) <= Len(replies)
    /\ \A i \in 1 .. Len(down) : down[i] = replies[Len(replies) - Len(down) + i]

\* Frames are answered, running or waiting; some are lost once it is over.
Frames == Len(replies) + Len(job) + Len(up)

\* What was answered, then what runs, then what waits is what was sent.
InOrder ==
    /\ Frames <= Len(sent)
    /\ \A i \in 1 .. Len(replies) : replies[i].id = sent[i]
    /\ ~Over => /\ Frames = Len(sent)
                /\ \A i \in 1 .. Len(job) : job[i].id = sent[Len(replies) + i]
                /\ \A i \in 1 .. Len(up) : up[i].id = sent[Len(replies) + Len(job) + i]

\* The queues as sequences of things that need not be looked into.
LEMMA QueueTypes ==
    ASSUME Typed
    PROVE  /\ \E S : /\ S = [id : Ids, ok : BOOLEAN]
                     /\ down \in Seq(S) /\ replies \in Seq(S)
                     /\ Len(down) \in Nat /\ Len(replies) \in Nat
           /\ up \in Seq(Request) /\ sent \in Seq(Ids)
           /\ Len(down) \in Nat /\ Len(replies) \in Nat
           /\ Len(up) \in Nat /\ Len(sent) \in Nat
           /\ Len(job) = IF phase = "calling" THEN 1 ELSE 0
<1> DEFINE S == [id : Ids, ok : BOOLEAN]
<1>1. down \in Seq(S) /\ replies \in Seq(S) /\ up \in Seq(Request) /\ sent \in Seq(Ids)
  BY DEF Typed, BrokerTypeOK
<1>2. Len(job) = IF phase = "calling" THEN 1 ELSE 0
  BY DEF Typed, BrokerTypeOK, LoopState
<1>3. S = [id : Ids, ok : BOOLEAN]
  OBVIOUS
<1> HIDE DEF S
<1>4. Len(down) \in Nat /\ Len(replies) \in Nat /\ Len(up) \in Nat /\ Len(sent) \in Nat
  BY <1>1
<1> QED
  BY <1>1, <1>2, <1>3, <1>4

\* One more at the end; one less at the front.
LEMMA Appended ==
    ASSUME NEW S, NEW s \in Seq(S), NEW e \in S
    PROVE  /\ Len(Append(s, e)) = Len(s) + 1 /\ Append(s, e)[Len(s) + 1] = e
           /\ \A i \in 1 .. Len(s) : Append(s, e)[i] = s[i]
  OBVIOUS

LEMMA Shortened ==
    ASSUME NEW S, NEW s \in Seq(S), s # <<>>
    PROVE  /\ Len(s) \in Nat \ {0} /\ Len(Tail(s)) = Len(s) - 1 /\ Head(s) = s[1]
           /\ \A i \in 1 .. Len(s) - 1 : Tail(s)[i] = s[i + 1]
  OBVIOUS

\* What a step may do to the two queues of replies.
Unwritten == down' = down /\ replies' = replies
Written(a) == down' = Append(down, a) /\ replies' = Append(replies, a)
Read == down # <<>> /\ down' = Tail(down) /\ replies' = replies

\* A written reply is the last of both; a read one leaves the front.
LEMMA UnreadKept ==
    ASSUME Typed, UnreadAreLast,
           \/ Unwritten \/ Read
           \/ \E id \in Ids, ok \in BOOLEAN : Written(Answer(id, ok))
    PROVE  UnreadAreLast'
<1>1. PICK S : /\ S = [id : Ids, ok : BOOLEAN] /\ down \in Seq(S) /\ replies \in Seq(S)
               /\ Len(down) \in Nat /\ Len(replies) \in Nat
  BY QueueTypes
<1>2. CASE Unwritten
  BY <1>2 DEF Unwritten, UnreadAreLast
<1>3. ASSUME NEW a \in S, Written(a) PROVE UnreadAreLast'
  <2>1. /\ Len(replies') = Len(replies) + 1 /\ replies'[Len(replies) + 1] = a
        /\ \A i \in 1 .. Len(replies) : replies'[i] = replies[i]
    BY <1>1, <1>3, Appended DEF Written
  <2>2. /\ Len(down') = Len(down) + 1 /\ down'[Len(down) + 1] = a
        /\ \A i \in 1 .. Len(down) : down'[i] = down[i]
    BY <1>1, <1>3, Appended DEF Written
  <2>3. ASSUME NEW i \in 1 .. Len(down')
        PROVE  down'[i] = replies'[Len(replies') - Len(down') + i]
    <3>1. Len(replies') - Len(down') = Len(replies) - Len(down)
      BY <1>1, <2>1, <2>2
    <3>2. CASE i = Len(down) + 1
      <4>1. Len(replies) - Len(down) + i = Len(replies) + 1
        BY <1>1, <3>2
      <4> QED
        BY <2>1, <2>2, <3>1, <3>2, <4>1
    <3>3. CASE i \in 1 .. Len(down)
      <4>1. Len(replies) - Len(down) + i \in 1 .. Len(replies)
        BY <1>1, <3>3 DEF UnreadAreLast
      <4>2. down[i] = replies[Len(replies) - Len(down) + i]
        BY <3>3 DEF UnreadAreLast
      <4> QED
        BY <2>1, <2>2, <3>1, <3>3, <4>1, <4>2
    <3> QED
      BY <1>1, <2>2, <3>2, <3>3
  <2>4. Len(down') <= Len(replies')
    BY <1>1, <2>1, <2>2 DEF UnreadAreLast
  <2> QED
    BY <2>3, <2>4 DEF UnreadAreLast
<1>4. CASE Read
  <2>1. /\ Len(down) \in Nat \ {0} /\ Len(down') = Len(down) - 1
        /\ \A i \in 1 .. Len(down) - 1 : down'[i] = down[i + 1]
    BY <1>1, <1>4, Shortened DEF Read
  <2>2. ASSUME NEW i \in 1 .. Len(down')
        PROVE  down'[i] = replies'[Len(replies') - Len(down') + i]
    <3>1. i + 1 \in 1 .. Len(down) /\ i \in 1 .. Len(down) - 1
      BY <2>1
    <3>2. Len(replies) - Len(down) + (i + 1) = Len(replies') - Len(down') + i
      BY <1>1, <1>4, <2>1 DEF Read
    <3>3. down[i + 1] = replies[Len(replies) - Len(down) + (i + 1)]
      BY <3>1 DEF UnreadAreLast
    <3> QED
      BY <1>4, <2>1, <3>1, <3>2, <3>3 DEF Read
  <2>3. Len(down') <= Len(replies')
    BY <1>1, <1>4, <2>1 DEF Read, UnreadAreLast
  <2> QED
    BY <2>2, <2>3 DEF UnreadAreLast
<1>5. ASSUME NEW id \in Ids, NEW ok \in BOOLEAN PROVE Answer(id, ok) \in S
  BY <1>1 DEF Answer
<1> QED
  BY <1>2, <1>3, <1>4, <1>5

\* What a step may do to the frames: nothing; one is sent; one is taken and
\* answered; one is taken and its tool started; the running one is answered; or
\* the session is over and the one taken, if any, is lost.
Idle == UNCHANGED <<up, job, sent, replies>> /\ (Over' <=> Over)
IsSent(r) ==
    /\ up' = Append(up, r) /\ sent' = Append(sent, r.id)
    /\ UNCHANGED <<job, replies>> /\ (Over' <=> Over)
TakenAndAnswered(ok) ==
    /\ ~Over /\ up # <<>> /\ up' = Tail(up)
    /\ job = <<>> /\ job' = <<>> /\ sent' = sent
    /\ replies' = Append(replies, Answer(Head(up).id, ok))
Started ==
    /\ ~Over /\ up # <<>> /\ up' = Tail(up)
    /\ job = <<>> /\ Len(job') = 1 /\ job'[1].id = Head(up).id
    /\ UNCHANGED <<sent, replies>>
Answered(ok) ==
    /\ ~Over /\ Len(job) = 1 /\ job' = <<>>
    /\ UNCHANGED <<up, sent>>
    /\ replies' = Append(replies, Answer(job[1].id, ok))
Lost ==
    /\ ~Over /\ Over' /\ UNCHANGED <<sent, replies>>
    /\ job' = <<>> /\ (up' = up \/ (up # <<>> /\ up' = Tail(up)))

OrderStep ==
    \/ Idle \/ Started \/ Lost
    \/ \E r \in Request : IsSent(r)
    \/ \E ok \in BOOLEAN : TakenAndAnswered(ok) \/ Answered(ok)

\* Every step does one of these.
LEMMA OrderSteps ==
    ASSUME Typed, [BrokerNext]_brokerVars
    PROVE  OrderStep
<1>1. phase # "calling" => job = <<>>
  BY DEF Typed, BrokerTypeOK
<1>2. CASE Connect \/ Receive \/ HangUp \/ Accept \/ UNCHANGED brokerVars
  <2>1. Idle
    BY <1>2 DEF Connect, Receive, HangUp, Accept, brokerVars, Idle, Over
  <2> QED
    BY <2>1 DEF OrderStep
<1>3. ASSUME NEW r \in Request, Send(r) PROVE OrderStep
  <2>1. IsSent(r)
    BY <1>3 DEF Send, IsSent, Over
  <2> QED
    BY <2>1 DEF OrderStep
<1>4. CASE ReadFails
  <2>1. Lost
    BY <1>1, <1>4 DEF ReadFails, Lost, Over
  <2> QED
    BY <2>1 DEF OrderStep
<1>5. ASSUME NEW r, Takes(r), NEW ok \in BOOLEAN, Sends(r.id, ok),
             ~Over, phase # "calling", job' = job, sent' = sent
      PROVE  OrderStep
  <2>1. TakenAndAnswered(ok) \/ Lost
    BY <1>1, <1>5 DEF Takes, Sends, Reply, TakenAndAnswered, Lost, Over
  <2> QED
    BY <2>1 DEF OrderStep
<1>6. CASE Hello
  <2>1. phase = "hello" /\ ~Over /\ job' = job /\ sent' = sent
    BY <1>6 DEF Hello, Over
  <2>2. PICK r \in Request :
          /\ Takes(r)
          /\ \/ Sends(r.id, TRUE)
             \/ /\ phase' = "ended"
                /\ replies' = Append(replies, Answer(r.id, FALSE)) \/ replies' = replies
    BY <1>6 DEF Hello, Sends
  <2>3. CASE Sends(r.id, TRUE)
    BY <1>5, <2>1, <2>2, <2>3
  <2>4. CASE /\ phase' = "ended"
             /\ replies' = Append(replies, Answer(r.id, FALSE)) \/ replies' = replies
    <3>1. TakenAndAnswered(FALSE) \/ Lost
      BY <1>1, <2>1, <2>2, <2>4 DEF Takes, TakenAndAnswered, Lost, Over
    <3> QED
      BY <3>1 DEF OrderStep
  <2> QED
    BY <2>2, <2>3, <2>4
<1>7. CASE CallRefused
  BY <1>5, <1>7 DEF CallRefused, Over, Sends
<1>8. CASE Result
  BY <1>5, <1>8 DEF Result, Over, Sends
<1>9. CASE OtherRequest
  <2>1. PICK r \in Request :
          Takes(r) /\ Sends(r.id, r.method = "list_tools")
    BY <1>9 DEF OtherRequest, Sends
  <2>2. (r.method = "list_tools") \in BOOLEAN
    OBVIOUS
  <2>3. phase = "ready" /\ ~Over /\ job' = job /\ sent' = sent
    BY <1>9 DEF OtherRequest, Over
  <2> QED
    BY <1>5, <2>1, <2>2, <2>3
<1>10. CASE CallTool
  <2>1. PICK r \in Request : Takes(r) /\ job' = <<[id |-> r.id, tool |-> r.tool]>>
    BY <1>10 DEF CallTool
  <2>2. phase = "ready" /\ UNCHANGED <<sent, replies>>
    BY <1>10 DEF CallTool
  <2>3. Len(job') = 1 /\ job'[1].id = r.id
    BY <2>1
  <2>4. Started
    BY <1>1, <2>1, <2>2, <2>3 DEF Takes, Started, Over
  <2> QED
    BY <2>4 DEF OrderStep
<1>11. ASSUME NEW ok \in BOOLEAN, NEW fits \in BOOLEAN, ToolAnswers(ok, fits)
       PROVE  OrderStep
  <2>1. Len(job) = 1
    BY <1>11, JobType DEF ToolAnswers
  <2>2. Answered(ok) \/ Lost
    BY <1>11, <2>1 DEF ToolAnswers, Reply, Answered, Lost, Over
  <2> QED
    BY <2>2 DEF OrderStep
<1> QED
  BY <1>2, <1>3, <1>4, <1>6, <1>7, <1>8, <1>9, <1>10, <1>11
     DEF BrokerNext, BrokerStep, ClientStep

\* None of these loses the order.
LEMMA InOrderKept ==
    ASSUME Typed, InOrder, OrderStep
    PROVE  InOrder'
<1>1. /\ Len(replies) \in Nat /\ Len(up) \in Nat /\ Len(sent) \in Nat /\ Len(job) \in Nat
      /\ up \in Seq(Request) /\ sent \in Seq(Ids) /\ Len(<<>>) = 0
      /\ job = <<>> => Len(job) = 0
  BY QueueTypes
<1>2. CASE Idle
  BY <1>2 DEF Idle, InOrder, Frames
<1>3. ASSUME NEW r \in Request, IsSent(r) PROVE InOrder'
  <2>1. /\ Len(up') = Len(up) + 1 /\ up'[Len(up) + 1] = r
        /\ \A i \in 1 .. Len(up) : up'[i] = up[i]
    BY <1>1, <1>3, Appended DEF IsSent
  <2>2. /\ Len(sent') = Len(sent) + 1 /\ sent'[Len(sent) + 1] = r.id
        /\ \A i \in 1 .. Len(sent) : sent'[i] = sent[i]
    BY <1>1, <1>3, RequestId, Appended DEF IsSent
  <2>3. UNCHANGED <<job, replies>> /\ (Over' <=> Over)
    BY <1>3 DEF IsSent
  <2>4. Frames \in Nat /\ Frames' = Frames + 1 /\ Frames' <= Len(sent')
    BY <1>1, <2>1, <2>2, <2>3 DEF InOrder, Frames
  <2>5. ASSUME NEW i \in 1 .. Len(replies') PROVE replies'[i].id = sent'[i]
    <3>1. Len(replies) <= Len(sent)
      BY <1>1 DEF InOrder, Frames
    <3>2. i \in 1 .. Len(replies) /\ i \in 1 .. Len(sent)
      BY <1>1, <2>3, <3>1
    <3>3. replies[i].id = sent[i]
      BY <3>2 DEF InOrder
    <3> QED
      BY <2>2, <2>3, <3>2, <3>3
  <2>6. ASSUME ~Over
        PROVE  /\ Frames' = Len(sent')
               /\ \A i \in 1 .. Len(job') : job'[i].id = sent'[Len(replies') + i]
               /\ \A i \in 1 .. Len(up') : up'[i].id = sent'[Len(replies') + Len(job') + i]
    <3>1. Frames = Len(sent)
      BY <2>6 DEF InOrder
    <3>2. ASSUME NEW i \in 1 .. Len(job') PROVE job'[i].id = sent'[Len(replies') + i]
      <4>1. Len(replies) + i \in 1 .. Len(sent) /\ i \in 1 .. Len(job)
        BY <1>1, <2>3, <3>1 DEF Frames
      <4> QED
        BY <2>2, <2>3, <2>6, <4>1 DEF InOrder
    <3>3. ASSUME NEW i \in 1 .. Len(up')
          PROVE  up'[i].id = sent'[Len(replies') + Len(job') + i]
      <4>1. CASE i = Len(up) + 1
        <5>1. Len(replies) + Len(job) + i = Len(sent) + 1
          BY <1>1, <3>1, <4>1 DEF Frames
        <5> QED
          BY <2>1, <2>2, <2>3, <4>1, <5>1
      <4>2. CASE i \in 1 .. Len(up)
        <5>1. Len(replies) + Len(job) + i \in 1 .. Len(sent)
          BY <1>1, <3>1, <4>2 DEF Frames
        <5>2. up[i].id = sent[Len(replies) + Len(job) + i]
          BY <2>6, <4>2 DEF InOrder
        <5> QED
          BY <2>1, <2>2, <2>3, <4>2, <5>1, <5>2
      <4> QED
        BY <1>1, <2>1, <4>1, <4>2
    <3> QED
      BY <2>2, <2>4, <3>1, <3>2, <3>3
  <2> QED
    BY <2>3, <2>4, <2>5, <2>6 DEF InOrder
\* A reply with the id of the frame that is due keeps the replies in order.
<1>4. ASSUME NEW id \in Ids, NEW ok \in BOOLEAN, replies' = Append(replies, Answer(id, ok)),
             sent' = sent, Len(replies) + 1 <= Len(sent), id = sent[Len(replies) + 1]
      PROVE  /\ Len(replies') = Len(replies) + 1
             /\ \A i \in 1 .. Len(replies') : replies'[i].id = sent'[i]
  <2> DEFINE a == Answer(id, ok)
  <2>1. PICK S : S = [id : Ids, ok : BOOLEAN] /\ replies \in Seq(S)
    BY QueueTypes
  <2>2. a \in S /\ a.id = id
    BY <2>1 DEF Answer
  <2> HIDE DEF a
  <2>3. /\ Len(replies') = Len(replies) + 1 /\ replies'[Len(replies) + 1] = a
        /\ \A i \in 1 .. Len(replies) : replies'[i] = replies[i]
    BY <1>4, <2>1, <2>2, Appended DEF a
  <2>4. ASSUME NEW i \in 1 .. Len(replies') PROVE replies'[i].id = sent'[i]
    <3>1. CASE i = Len(replies) + 1
      BY <1>4, <2>2, <2>3, <3>1
    <3>2. CASE i \in 1 .. Len(replies)
      <4>1. replies'[i] = replies[i] /\ replies[i].id = sent[i]
        BY <2>3, <3>2 DEF InOrder
      <4> QED
        BY <1>4, <4>1
    <3> QED
      BY <1>1, <2>3, <3>1, <3>2
  <2> QED
    BY <2>3, <2>4
\* The frame at the front is the one that is due.
<1>5. ASSUME ~Over, up # <<>>, up' = Tail(up), job = <<>>
      PROVE  /\ Len(up) \in Nat \ {0} /\ Len(up') = Len(up) - 1
             /\ Head(up).id \in Ids /\ Head(up).id = sent[Len(replies) + 1]
             /\ Len(replies) + Len(up) = Len(sent)
             /\ \A i \in 1 .. Len(up') : up'[i].id = sent[Len(replies) + 1 + i]
  <2>1. /\ Len(up) \in Nat \ {0} /\ Len(up') = Len(up) - 1 /\ Head(up) = up[1]
        /\ \A i \in 1 .. Len(up) - 1 : up'[i] = up[i + 1]
    BY <1>1, <1>5, Shortened
  <2>2. Len(replies) + Len(up) = Len(sent)
    BY <1>1, <1>5 DEF InOrder, Frames
  <2>3. \A i \in 1 .. Len(up) : up[i].id = sent[Len(replies) + i]
    BY <1>1, <1>5 DEF InOrder
  <2>4. 1 \in 1 .. Len(up) /\ up[1] \in Request
    BY <1>1, <2>1
  <2>5. Head(up).id \in Ids /\ Head(up).id = sent[Len(replies) + 1]
    BY <2>1, <2>3, <2>4, RequestId
  <2>6. ASSUME NEW i \in 1 .. Len(up') PROVE up'[i].id = sent[Len(replies) + 1 + i]
    <3>1. i \in 1 .. Len(up) - 1 /\ i + 1 \in 1 .. Len(up)
          /\ Len(replies) + (i + 1) = Len(replies) + 1 + i
      BY <1>1, <2>1
    <3>2. up[i + 1].id = sent[Len(replies) + (i + 1)]
      BY <2>3, <3>1
    <3> QED
      BY <2>1, <3>1, <3>2
  <2> QED
    BY <2>1, <2>2, <2>5, <2>6
<1>6. ASSUME NEW ok \in BOOLEAN, TakenAndAnswered(ok) PROVE InOrder'
  <2>1. /\ ~Over /\ up # <<>> /\ up' = Tail(up) /\ job = <<>> /\ job' = <<>>
        /\ sent' = sent /\ replies' = Append(replies, Answer(Head(up).id, ok))
    BY <1>6 DEF TakenAndAnswered
  <2>2. /\ Len(up) \in Nat \ {0} /\ Len(up') = Len(up) - 1
        /\ Head(up).id \in Ids /\ Head(up).id = sent[Len(replies) + 1]
        /\ Len(replies) + Len(up) = Len(sent)
        /\ \A i \in 1 .. Len(up') : up'[i].id = sent[Len(replies) + 1 + i]
    BY <1>5, <2>1
  <2>3. Len(replies) + 1 <= Len(sent)
    BY <1>1, <2>2
  <2>4. /\ Len(replies') = Len(replies) + 1
        /\ \A i \in 1 .. Len(replies') : replies'[i].id = sent'[i]
    BY <1>4, <2>1, <2>2, <2>3
  <2>5. Len(job') = 0 /\ Frames' = Len(sent')
    BY <1>1, <2>1, <2>2, <2>4 DEF Frames
  <2>6. \A i \in 1 .. Len(up') : up'[i].id = sent'[Len(replies') + Len(job') + i]
    <3>1. Len(replies') + Len(job') = Len(replies) + 1
      BY <1>1, <2>4, <2>5
    <3> QED
      BY <2>1, <2>2, <3>1
  <2>7. Len(sent') \in Nat
    BY <1>1, <2>1
  <2> QED
    BY <2>4, <2>5, <2>6, <2>7 DEF InOrder
<1>7. CASE Started
  <2>1. /\ ~Over /\ up # <<>> /\ up' = Tail(up) /\ job = <<>>
        /\ Len(job') = 1 /\ job'[1].id = Head(up).id /\ sent' = sent /\ replies' = replies
    BY <1>7 DEF Started
  <2>2. /\ Len(up) \in Nat \ {0} /\ Len(up') = Len(up) - 1
        /\ Head(up).id = sent[Len(replies) + 1]
        /\ Len(replies) + Len(up) = Len(sent)
        /\ \A i \in 1 .. Len(up') : up'[i].id = sent[Len(replies) + 1 + i]
    BY <1>5, <2>1
  <2>3. Frames' = Len(sent')
    BY <1>1, <2>1, <2>2 DEF Frames
  <2>4. \A i \in 1 .. Len(job') : job'[i].id = sent'[Len(replies') + i]
    BY <2>1, <2>2
  <2>5. \A i \in 1 .. Len(up') : up'[i].id = sent'[Len(replies') + Len(job') + i]
    BY <2>1, <2>2
  <2>6. Len(sent') \in Nat
    BY <1>1, <2>1
  <2> QED
    BY <2>1, <2>3, <2>4, <2>5, <2>6 DEF InOrder
<1>8. ASSUME NEW ok \in BOOLEAN, Answered(ok) PROVE InOrder'
  <2>1. /\ ~Over /\ Len(job) = 1 /\ job' = <<>> /\ up' = up /\ sent' = sent
        /\ replies' = Append(replies, Answer(job[1].id, ok))
    BY <1>8 DEF Answered
  <2>2. phase = "calling"
    BY <2>1, QueueTypes
  <2>3. job[1].id \in Ids /\ job[1].id = sent[Len(replies) + 1]
    BY <2>1, <2>2, JobType DEF InOrder
  <2>4. Len(replies) + 1 + Len(up) = Len(sent)
    BY <1>1, <2>1 DEF InOrder, Frames
  <2>5. /\ Len(replies') = Len(replies) + 1
        /\ \A i \in 1 .. Len(replies') : replies'[i].id = sent'[i]
    <3>1. Len(replies) + 1 <= Len(sent)
      BY <1>1, <2>4
    <3> QED
      BY <1>4, <2>1, <2>3, <3>1
  <2>6. Len(job') = 0 /\ Frames' = Len(sent')
    BY <1>1, <2>1, <2>4, <2>5 DEF Frames
  <2>7. \A i \in 1 .. Len(up') : up'[i].id = sent'[Len(replies') + Len(job') + i]
    <3>1. Len(replies') + Len(job') = Len(replies) + Len(job)
      BY <1>1, <2>1, <2>5, <2>6
    <3>2. \A i \in 1 .. Len(up) : up[i].id = sent[Len(replies) + Len(job) + i]
      BY <2>1 DEF InOrder
    <3> QED
      BY <2>1, <3>1, <3>2
  <2>8. Len(sent') \in Nat
    BY <1>1, <2>1
  <2> QED
    BY <2>5, <2>6, <2>7, <2>8 DEF InOrder
<1>9. CASE Lost
  <2>1. Over' /\ sent' = sent /\ replies' = replies /\ Len(job') = 0 /\ Frames <= Len(sent)
    BY <1>1, <1>9 DEF Lost, InOrder
  <2>2. Len(up') <= Len(up) /\ Len(up') \in Nat
    <3>1. CASE up' = up
      BY <1>1, <3>1
    <3>2. CASE up # <<>> /\ up' = Tail(up)
      BY <1>1, <3>2, Shortened
    <3> QED
      BY <1>9, <3>1, <3>2 DEF Lost
  <2>3. Frames' <= Len(sent')
    BY <1>1, <2>1, <2>2 DEF Frames
  <2> QED
    BY <2>1, <2>3 DEF InOrder
<1> QED
  BY <1>2, <1>3, <1>6, <1>7, <1>8, <1>9 DEF OrderStep

\* Every step leaves the replies alone, writes one, or lets one be read.
LEMMA ReplySteps ==
    ASSUME Typed, [BrokerNext]_brokerVars
    PROVE  \/ Unwritten \/ Read
           \/ \E id \in Ids, ok \in BOOLEAN : Written(Answer(id, ok))
<1> DEFINE Goal == \/ Unwritten \/ Read
                   \/ \E id \in Ids, ok \in BOOLEAN : Written(Answer(id, ok))
<1>1. CASE Receive
  BY <1>1 DEF Receive, Read
<1>2. CASE Connect \/ HangUp \/ (\E r \in Request : Send(r)) \/ UNCHANGED brokerVars
  BY <1>2 DEF Connect, HangUp, Send, Unwritten, brokerVars
<1>3. CASE Accept \/ ReadFails \/ CallTool
  BY <1>3 DEF Accept, ReadFails, CallTool, Unwritten
<1>4. ASSUME NEW id \in Ids, NEW ok \in BOOLEAN, Sends(id, ok)
      PROVE  Goal
  <2>1. Unwritten \/ Written(Answer(id, ok))
    BY <1>4 DEF Sends, Reply, Unwritten, Written
  <2> QED
    BY <2>1
<1>5. CASE Hello
  <2>1. PICK r \in Request :
          \/ Sends(r.id, TRUE)
          \/ Written(Answer(r.id, FALSE)) \/ Unwritten
    BY <1>5 DEF Hello, Sends, Unwritten, Written
  <2>2. r.id \in Ids
    BY RequestId
  <2> QED
    BY <1>4, <2>1, <2>2
<1>6. CASE CallRefused
  BY <1>4, <1>6, RequestId DEF CallRefused, Sends
<1>7. CASE Result
  BY <1>4, <1>7, RequestId DEF Result, Sends
<1>8. CASE OtherRequest
  <2>1. PICK r \in Request : Sends(r.id, r.method = "list_tools")
    BY <1>8 DEF OtherRequest, Sends
  <2>2. r.id \in Ids /\ (r.method = "list_tools") \in BOOLEAN
    BY RequestId
  <2> QED
    BY <1>4, <2>1, <2>2
<1>9. CASE \E ok, fits \in BOOLEAN : ToolAnswers(ok, fits)
  <2>1. PICK ok \in BOOLEAN, fits \in BOOLEAN : ToolAnswers(ok, fits)
    BY <1>9
  <2>2. Sends(job[1].id, ok) /\ job[1].id \in Ids
    BY <2>1, JobType DEF ToolAnswers, Sends
  <2> QED
    BY <1>4, <2>2
<1> QED
  BY <1>1, <1>2, <1>3, <1>5, <1>6, <1>7, <1>8, <1>9
     DEF BrokerNext, BrokerStep, ClientStep

\* Every frame is answered once, in the order sent and with its own id, for as
\* long as the session lasts.
THEOREM AnsweredInOrderHolds == BrokerSpec => []AnsweredInOrder
<1>1. BrokerInit => InOrder /\ UnreadAreLast
  BY DEF BrokerInit, InOrder, Frames, UnreadAreLast, Over
<1>2. Typed /\ InOrder /\ UnreadAreLast /\ [BrokerNext]_brokerVars => InOrder' /\ UnreadAreLast'
  BY InOrderKept, OrderSteps, UnreadKept, ReplySteps
<1>3. Typed /\ InOrder /\ UnreadAreLast => AnsweredInOrder
  <2> SUFFICES ASSUME Typed, InOrder, UnreadAreLast PROVE AnsweredInOrder
    OBVIOUS
  <2>1. Len(replies) <= Len(sent)
    BY QueueTypes DEF InOrder, Frames
  <2> QED
    BY <2>1 DEF InOrder, Frames, UnreadAreLast, AnsweredInOrder
<1> QED
  BY <1>1, <1>2, <1>3, TypedInvariance, PTL DEF BrokerSpec
=============================================================================
