---------------------------- MODULE McpClient_proofs ----------------------------
(* That every call over every transport keeps its types and is one RetriedCall, for any
   number of attempts.

   The inductive invariant follows the tool call: how often it was sent is bounded by the
   connections opened (Progress), every copy of it on its way to the server has a number of
   its own that the server has not run (Copies), and a result in the client's hands - on a
   stream or in the pending entry - is that of the last copy (Evidence). Over stdio and HTTP
   messages do not say which request they answer, so there it also takes that nothing but
   the current exchange is under way (Exchange). *)
EXTENDS McpClient, SequenceTheorems, TLAPS

\* What a transport's call may be waiting for.
Waits(t) == CASE t = "stdio" -> {"backoff", "answer", "stopping", "done"}
              [] t = "http" -> {"backoff", "post", "body", "done"}
              [] OTHER -> Awaits \ {"body", "stopping"}

Progress ==
    /\ pc \in Waits(transport)
    /\ pc \notin {"stopping", "done"} => outcome = "none"
    /\ pc = "backoff" => attempt < MaxAttempts
    /\ pc # "backoff" => attempt >= 1
    /\ pc \in {"get", "endpoint", "reopen"} => stage = "initialize"
    /\ pc = "reopen" => open < MaxAttempts
    /\ sent <= attempt
    /\ pc # "backoff" /\ stage # "call" => sent < attempt
    /\ stage = "call" => sent >= 1
    /\ transport # "sse" => open = 0

Copies ==
    /\ ran \subseteq 1..sent
    /\ \A r \in inbox : r.attempt <= attempt
    /\ \A r \in inbox : r.stage = "call" => r.number \in 1..sent \ ran
    /\ \A r \in inbox : r.stage = "call" /\ r.attempt = attempt =>
                           r.number = sent /\ stage = "call"
    /\ \A r, q \in inbox : r.stage = "call" /\ q.stage = "call" /\ r # q =>
                              r.number # q.number

Evidence ==
    /\ \A i \in Opens : \A k \in 1..Len(stream[i]) :
          stream[i][k].kind = "result" /\ stream[i][k].stage = "call" =>
             sent \in ran /\ stage = "call"
    /\ waiting = "result" /\ stage = "call" => sent \in ran
    /\ transport = "sse" /\ pc = "post" /\ stage # "notify" => waiting # "none"

Exchange ==
    transport # "sse" =>
        /\ \A r \in inbox : r.attempt = attempt =>
              /\ stream[0] = <<>>
              /\ r.open = 0 /\ r.stage = stage
              /\ r.number = IF stage = "call" THEN sent ELSE 0
        /\ Len(stream[0]) <= 1
        /\ stream[0] # <<>> =>
              /\ stream[0][1].stage = stage
              /\ stream[0][1].kind \in IF transport = "http" THEN Replies
                                       ELSE {"result", "error", "unparsable"}
        /\ pc = "body" => stream[0] # <<>> /\ stream[0][1].kind # "status"

IInv == TypeOK /\ Progress /\ Copies /\ Evidence /\ Exchange
-----------------------------------------------------------------------------
(* The parts the client's steps are made of. *)

\* What a step may do to the streams: read the first message of one, or drop them.
Reads ==
    /\ stream' \in [Opens -> Seq(Messages)]
    /\ \A i \in Opens : \/ stream'[i] \in {stream[i], <<>>}
                        \/ stream[i] # <<>> /\ stream'[i] = Tail(stream[i])

\* What surrounds such a step.
Around ==
    /\ transport' = transport /\ ran' = ran /\ Reads
    /\ child' \in {"none", "running", "killed", "exited"}

Ended == {"result", "error", "empty", "failed"}

\* A sequence of one element has nothing behind it.
LEMMA TailOfOne ==
    ASSUME NEW S, NEW seq \in Seq(S), seq # <<>>, Len(seq) <= 1
    PROVE  Len(seq) = 1 /\ Tail(seq) = <<>>
<1>1. Len(seq) \in Nat \ {0}
  BY EmptySeq
<1>2. Tail(seq) \in Seq(S) /\ Len(Tail(seq)) = Len(seq) - 1
  BY HeadTailProperties
<1>3. Len(Tail(seq)) = 0
  BY <1>1, <1>2
<1> QED
  BY <1>1, <1>2, <1>3, EmptySeq

\* What is read was there.
LEMMA ReadWasThere ==
    ASSUME TypeOK, Reads, NEW i \in Opens, NEW k \in 1..Len(stream'[i])
    PROVE  \E j \in 1..Len(stream[i]) : stream'[i][k] = stream[i][j]
<1>0. stream[i] \in Seq(Messages)
  BY DEF TypeOK
<1>1. CASE stream'[i] = stream[i]
  BY <1>1
<1>2. CASE stream'[i] = <<>>
  BY <1>2
<1>3. CASE stream[i] # <<>> /\ stream'[i] = Tail(stream[i])
  <2>1. Len(Tail(stream[i])) = Len(stream[i]) - 1 /\ Len(stream[i]) \in Nat
    BY <1>0, <1>3
  <2>2. Tail(stream[i])[k] = stream[i][k + 1]
    BY <1>0, <1>3, <2>1
  <2> QED
    BY <1>3, <2>1, <2>2
<1> QED
  BY <1>1, <1>2, <1>3 DEF Reads

\* What a result says of the tool call stays true as long as stage, sent and ran do.
LEMMA EvidenceIsKept ==
    ASSUME TypeOK, Evidence, Reads, ran' = ran, sent' = sent, stage' = stage
    PROVE  \A i \in Opens : \A k \in 1..Len(stream'[i]) :
              stream'[i][k].kind = "result" /\ stream'[i][k].stage = "call" =>
                 sent' \in ran' /\ stage' = "call"
<1> SUFFICES ASSUME NEW i \in Opens, NEW k \in 1..Len(stream'[i]),
                    stream'[i][k].kind = "result", stream'[i][k].stage = "call"
             PROVE  sent \in ran /\ stage = "call"
  OBVIOUS
<1>1. PICK j \in 1..Len(stream[i]) : stream'[i][k] = stream[i][j]
  BY ReadWasThere
<1> QED
  BY <1>1 DEF Evidence

\* So does what Exchange says of the only stream outside SSE.
LEMMA ExchangeIsKept ==
    ASSUME TypeOK, Exchange, Reads, transport' = transport, sent' = sent, stage' = stage,
           attempt' = attempt, inbox' \subseteq inbox, pc' # "body"
    PROVE  Exchange'
<1> SUFFICES ASSUME transport # "sse" PROVE Exchange'
  BY DEF Exchange
<1>0. 0 \in Opens /\ stream[0] \in Seq(Messages)
  BY RetryAssumption DEF TypeOK, Opens
<1>1. stream'[0] \in {stream[0], <<>>}
  <2>1. CASE stream[0] # <<>> /\ stream'[0] = Tail(stream[0])
    <3>1. Len(stream[0]) <= 1
      BY DEF Exchange
    <3>2. Tail(stream[0]) = <<>>
      BY <1>0, <2>1, <3>1, TailOfOne
    <3> QED
      BY <2>1, <3>2
  <2> QED
    BY <1>0, <2>1 DEF Reads
<1>2. CASE stream'[0] = stream[0]
  BY <1>2 DEF Exchange
<1>3. CASE stream'[0] = <<>>
  BY <1>3 DEF Exchange
<1> QED
  BY <1>1, <1>2, <1>3

\* The call ends.
LEMMA EndsStep ==
    ASSUME IInv, Around, pc \notin {"backoff", "stopping", "done"}, inbox' \subseteq inbox,
           NEW o \in Ended, Ends(o),
           o = "result" => sent \in ran, o \in {"error", "empty"} => sent > 0
    PROVE  IInv' /\ [R!Next]_R!vars
<1> USE DEF IInv
<1>1. TypeOK'
  BY RetryAssumption DEF TypeOK, Around, Reads, Ends, Ended, Awaits, Opens, Settled
<1>2. Progress'
  BY RetryAssumption DEF TypeOK, Progress, Around, Ends, Ended, Awaits, Waits, Opens, Transports
<1>3. Copies'
  BY DEF Copies, Around, Ends
<1>4. Evidence'
  BY EvidenceIsKept DEF Evidence, Around, Ends
<1>5. Exchange'
  BY ExchangeIsKept DEF Around, Ends
<1>6. R!Finish(o)
  BY DEF R!Finish, Progress, Ends, Around
<1> QED
  BY <1>1, <1>2, <1>3, <1>4, <1>5, <1>6 DEF R!Next, Ended

\* An error is thrown.
LEMMA FailsStep ==
    ASSUME IInv, Around, pc \notin {"backoff", "stopping", "done"}, inbox' \subseteq inbox,
           NEW error \in Errors, Fails(error)
    PROVE  IInv' /\ [R!Next]_R!vars
<1> USE DEF IInv
<1>1. CASE Ends("failed")
  BY <1>1, EndsStep DEF Ended
<1>2. CASE ~Ends("failed")
  <2>0. /\ transport # "stdio" /\ attempt < MaxAttempts /\ pc' = "backoff"
        /\ UNCHANGED <<stage, attempt, open, waiting, sent, outcome, endpoint, flow>>
    BY <1>2 DEF Fails, link
  <2>1. TypeOK'
    BY <2>0 DEF TypeOK, Around, Reads, Awaits
  <2>2. Progress'
    BY <2>0 DEF TypeOK, Progress, Around, Waits, Awaits, Transports
  <2>3. Copies'
    BY <2>0 DEF Copies, Around
  <2>4. Evidence'
    BY <2>0, EvidenceIsKept DEF Evidence, Around
  <2>5. Exchange'
    BY <2>0, ExchangeIsKept DEF Around
  <2> QED
    BY <2>0, <2>1, <2>2, <2>3, <2>4, <2>5 DEF R!vars, Around
<1> QED
  BY <1>1, <1>2

\* A request goes out on the connection that is there.
LEMMA SendsStep ==
    ASSUME IInv, Around, pc \notin {"backoff", "stopping", "done"},
           NEW s \in Stages, Sends(attempt, open, s), stage # "call",
           UNCHANGED <<attempt, open, outcome, flow>>, endpoint' \in Opens,
           transport # "sse" =>
              stream'[0] = <<>> /\ \A r \in inbox : r.attempt # attempt
    PROVE  IInv' /\ [R!Next]_R!vars
<1> USE DEF IInv
<1> DEFINE new == [attempt |-> attempt, open |-> open, stage |-> s,
                   number |-> IF s = "call" THEN sent + 1 ELSE 0]
<1>0. /\ attempt \in Attempts /\ open \in Opens /\ sent < attempt /\ sent \in Nat
      /\ new \in Requests /\ inbox' = inbox \cup {new} /\ stage' = s
      /\ sent' = IF s = "call" THEN sent + 1 ELSE sent
      /\ ran' = ran /\ transport' = transport
  BY RetryAssumption DEF TypeOK, Progress, Sends, Requests, Attempts, Opens, Around
<1>1. /\ waiting' = IF s = "notify" \/ transport = "http" THEN "none" ELSE "open"
      /\ pc' = IF transport = "stdio" THEN "answer" ELSE "post"
      /\ attempt' = attempt /\ open' = open /\ outcome' = outcome
  BY DEF Sends
<1>2. TypeOK'
  <2>1. sent' \in 0..MaxAttempts /\ inbox' \subseteq Requests
    BY <1>0, RetryAssumption DEF TypeOK, Attempts
  <2>2. waiting' \in Settled /\ pc' \in Awaits /\ stage' \in Stages
    BY <1>0, <1>1 DEF Settled, Awaits
  <2> QED
    BY <2>1, <2>2, <1>0, <1>1 DEF TypeOK, Around, Reads
<1>3. Progress'
  <2>1. pc' \in Waits(transport')
    BY <1>0, <1>1 DEF TypeOK, Waits, Awaits, Transports
  <2>2. outcome' = "none" /\ pc' \in {"answer", "post"}
    BY <1>1 DEF Progress
  <2>3. attempt' >= 1 /\ sent' <= attempt' /\ sent' \in Nat
        /\ (stage' # "call" => sent' < attempt') /\ (stage' = "call" => sent' >= 1)
    BY <1>0, <1>1 DEF Attempts
  <2> QED
    BY <2>1, <2>2, <2>3, <1>0, <1>1 DEF Progress
<1>4. Copies'
  <2>1. \A r \in inbox : r.stage = "call" => r.number \in 1..sent \ ran /\ r.attempt # attempt
    BY DEF Copies
  <2>2. sent + 1 \notin ran /\ \A r \in inbox : r.stage = "call" => r.number # sent + 1
    BY <1>0, <2>1 DEF Copies
  <2>3. ran' \subseteq 1..sent' /\ \A r \in inbox' : r.attempt <= attempt'
    BY <1>0 DEF Copies, Attempts
  <2>4. \A r \in inbox' : r.stage = "call" => r.number \in 1..sent' \ ran'
    BY <1>0, <2>1, <2>2
  <2>5. \A r \in inbox' : r.stage = "call" /\ r.attempt = attempt' =>
                              r.number = sent' /\ stage' = "call"
    BY <1>0, <2>1
  <2>6. \A r, q \in inbox' : r.stage = "call" /\ q.stage = "call" /\ r # q =>
                                r.number # q.number
    BY <1>0, <2>2 DEF Copies
  <2> QED
    BY <2>3, <2>4, <2>5, <2>6 DEF Copies
<1>5. Evidence'
  <2>1. \A i \in Opens : \A k \in 1..Len(stream'[i]) :
           ~(stream'[i][k].kind = "result" /\ stream'[i][k].stage = "call")
    <3> SUFFICES ASSUME NEW i \in Opens, NEW k \in 1..Len(stream'[i])
                 PROVE  ~(stream'[i][k].kind = "result" /\ stream'[i][k].stage = "call")
      OBVIOUS
    <3>1. PICK j \in 1..Len(stream[i]) : stream'[i][k] = stream[i][j]
      BY ReadWasThere DEF Around
    <3> QED
      BY <3>1 DEF Evidence
  <2> QED
    BY <2>1, <1>0 DEF Evidence, Sends
<1>6. Exchange'
  <2> SUFFICES ASSUME transport # "sse" PROVE Exchange'
    BY <1>0 DEF Exchange
  <2>1. pc' # "body"
    BY DEF Sends
  <2> QED
    BY <1>0, <2>1 DEF Exchange, Progress
<1>7. R!Send \/ UNCHANGED R!vars
  <2>1. sent < MaxAttempts /\ outcome = "none"
    BY <1>0, RetryAssumption DEF Attempts, Progress
  <2> QED
    BY <2>1, <1>0, <1>1 DEF R!Send, R!vars
<1> QED
  BY <1>2, <1>3, <1>4, <1>5, <1>6, <1>7 DEF R!Next

\* The pending request has its answer.
LEMMA AnsweredStep ==
    ASSUME IInv, Around, pc \notin {"backoff", "stopping", "done"},
           NEW kind \in {"result", "error", "empty", "retryable", "fatal"}, Answered(kind),
           kind = "result" /\ stage = "call" => sent \in ran, kind = "empty" => stage = "call",
           transport # "sse" =>
              stream'[0] = <<>> /\ \A r \in inbox : r.attempt # attempt
    PROVE  IInv' /\ [R!Next]_R!vars
<1>1. stage = "call" => sent > 0
  BY DEF IInv, TypeOK, Progress
<1>2. CASE kind = "error"
  <2>1. Ends(IF stage = "call" THEN "error" ELSE "failed") /\ inbox' = inbox
    BY <1>2 DEF Answered
  <2>2. CASE stage = "call"
    BY <1>1, <2>1, <2>2, EndsStep DEF Ended
  <2>3. CASE stage # "call"
    BY <2>1, <2>3, EndsStep DEF Ended
  <2> QED
    BY <2>2, <2>3
<1>3. CASE kind \in {"retryable", "fatal"}
  <2>1. kind # "error" /\ kind \in Errors
    BY <1>3 DEF Errors
  <2>2. Fails(kind) /\ inbox' = inbox
    BY <1>3, <2>1 DEF Answered
  <2> QED
    BY <2>1, <2>2, FailsStep
<1>4. CASE kind \in {"result", "empty"} /\ stage = "call"
  <2>1. Ends(kind) /\ inbox' = inbox
    BY <1>4 DEF Answered
  <2> QED
    BY <1>1, <1>4, <2>1, EndsStep DEF Ended
<1>5. CASE kind \in {"result", "empty"} /\ stage # "call"
  <2> DEFINE next == IF transport = "stdio" THEN "call" ELSE "notify"
  <2>1. /\ Sends(attempt, open, next) /\ next \in Stages
        /\ UNCHANGED <<attempt, open, outcome, flow, endpoint>>
    BY <1>5 DEF Answered, link, Stages
  <2>2. endpoint' \in Opens
    BY <2>1 DEF IInv, TypeOK
  <2> HIDE DEF next
  <2> QED
    BY <1>5, <2>1, <2>2, SendsStep
<1> QED
  BY <1>2, <1>3, <1>4, <1>5

\* A stream could not be opened.
LEMMA FailsToOpenStep ==
    ASSUME IInv, pc \in {"get", "endpoint"}, NEW error \in Errors, FailsToOpen(error),
           UNCHANGED <<transport, stream, child, inbox, ran>>
    PROVE  IInv' /\ [R!Next]_R!vars
<1>1. transport = "sse"
  BY DEF IInv, TypeOK, Progress, Waits, Transports
<1>2. CASE error = "reopen" /\ open < MaxAttempts
  <2>1. /\ pc' = "reopen" /\ flow' = [flow EXCEPT ![open] = "closed"]
        /\ UNCHANGED <<stage, attempt, open, endpoint, waiting, sent, outcome>>
    BY <1>2 DEF FailsToOpen
  <2>2. TypeOK'
    BY <2>1 DEF IInv, TypeOK, Awaits
  <2>3. Progress' /\ Copies' /\ Evidence' /\ Exchange'
    BY <1>1, <1>2, <2>1 DEF IInv, Progress, Copies, Evidence, Exchange, Waits, Awaits
  <2> QED
    BY <2>1, <2>2, <2>3 DEF IInv, R!vars
<1>3. CASE ~(error = "reopen" /\ open < MaxAttempts)
  <2>1. Fails(error)
    BY <1>3 DEF FailsToOpen
  <2>2. Around
    BY DEF Around, Reads, IInv, TypeOK
  <2> QED
    BY <2>1, <2>2, FailsStep
<1> QED
  BY <1>2, <1>3

-----------------------------------------------------------------------------
(* The connection and streamable HTTP. *)

\* A step that leaves the streams and the server alone is one the lemmas speak of.
LEMMA StillAround ==
    ASSUME IInv, UNCHANGED <<transport, stream, ran>>,
           child' \in {"none", "running", "killed", "exited"}
    PROVE  Around
BY DEF Around, Reads, IInv, TypeOK

\* So is one that empties the stream of an exchange.
LEMMA ReadAround ==
    ASSUME IInv, UNCHANGED <<transport, ran>>, stream' = [stream EXCEPT ![0] = <<>>],
           child' \in {"none", "running", "killed", "exited"}
    PROVE  Around
<1>1. stream \in [Opens -> Seq(Messages)] /\ <<>> \in Seq(Messages)
  BY DEF IInv, TypeOK
<1>2. stream' \in [Opens -> Seq(Messages)]
  BY <1>1
<1>3. \A i \in Opens : stream'[i] \in {stream[i], <<>>}
  BY <1>1
<1> QED
  BY <1>2, <1>3 DEF Around, Reads

LEMMA ConnectStep ==
    ASSUME IInv, Connect
    PROVE  IInv' /\ [R!Next]_R!vars
<1> USE DEF IInv
<1>1. /\ pc = "backoff" /\ attempt' = attempt + 1 /\ attempt < MaxAttempts
      /\ attempt \in Nat /\ attempt' \in Attempts /\ 0 \in Opens /\ 1 \in Opens
      /\ stream' = [i \in Opens |-> <<>>] /\ endpoint' = 0
      /\ stage' = "initialize" /\ sent' = sent /\ sent \in Nat /\ sent <= attempt
      /\ transport' = transport /\ ran' = ran /\ outcome' = outcome /\ outcome = "none"
  BY RetryAssumption DEF Connect, Sends, TypeOK, Progress, Attempts, Opens
<1>2. /\ waiting' \in {"none", "open"} /\ open' \in {0, 1}
      /\ flow' \in [Opens -> {"none", "live", "done", "closed"}]
      /\ transport = "sse" => pc' = "get" /\ inbox' = inbox
      /\ transport # "sse" => open' = 0 /\ pc' = IF transport = "stdio" THEN "answer" ELSE "post"
  BY DEF Connect, Sends
<1> DEFINE new == [attempt |-> attempt + 1, open |-> 0, stage |-> "initialize", number |-> 0]
<1>3. new \in Requests /\ inbox' \in {inbox, inbox \cup {new}}
  BY <1>1 DEF Connect, Sends, Requests, Stages
<1>4. TypeOK'
  <2>1. inbox' \subseteq Requests
    BY <1>3 DEF TypeOK
  <2>2. stream' \in [Opens -> Seq(Messages)]
    BY <1>1
  <2>3. pc' \in Awaits /\ child' \in {"none", "running", "killed", "exited"}
    BY <1>2 DEF TypeOK, Connect, Awaits
  <2> QED
    BY <1>1, <1>2, <2>1, <2>2, <2>3, RetryAssumption
    DEF TypeOK, Attempts, Stages, Settled
<1>5. Progress'
  BY <1>1, <1>2 DEF TypeOK, Progress, Waits, Awaits, Transports
<1>6. Copies'
  <2>1. \A r \in inbox : r.attempt <= attempt /\ r.attempt # attempt'
    BY <1>1 DEF Copies, TypeOK, Requests, Attempts
  <2>2. \A r \in inbox' : r.stage = "call" => r \in inbox
    BY <1>3
  <2>3. \A r \in inbox' : r.attempt <= attempt'
    BY <1>1, <1>3, <2>1 DEF TypeOK, Requests, Attempts
  <2> QED
    BY <1>1, <2>1, <2>2, <2>3 DEF Copies
<1>7. Evidence'
  BY <1>1, <1>2 DEF Evidence
<1>8. Exchange'
  <2>1. \A r \in inbox' : r.attempt = attempt' => r = new
    BY <1>1, <1>3 DEF Copies, TypeOK, Requests, Attempts
  <2>2. stream'[0] = <<>>
    BY <1>1
  <2> QED
    BY <1>1, <1>2, <2>1, <2>2 DEF Exchange
<1> QED
  BY <1>1, <1>4, <1>5, <1>6, <1>7, <1>8 DEF R!vars

\* Outside SSE, what is on the stream leaves nothing else under way.
LEMMA FirstOfExchange ==
    ASSUME IInv, transport # "sse", stream[0] # <<>>
    PROVE  /\ 0 \in Opens /\ stream[0] \in Seq(Messages) /\ Len(stream[0]) = 1
           /\ Head(stream[0]) = stream[0][1] /\ Tail(stream[0]) = <<>>
           /\ Head(stream[0]).stage = stage
           /\ Head(stream[0]).kind \in IF transport = "http" THEN Replies
                                       ELSE {"result", "error", "unparsable"}
           /\ \A r \in inbox : r.attempt # attempt
           /\ Head(stream[0]).kind = "result" /\ stage = "call" => sent \in ran
<1>1. 0 \in Opens /\ stream[0] \in Seq(Messages)
  BY RetryAssumption DEF IInv, TypeOK, Opens
<1>2. Len(stream[0]) <= 1
  BY DEF IInv, Exchange
<1>3. Len(stream[0]) = 1 /\ Tail(stream[0]) = <<>>
  BY <1>1, <1>2, TailOfOne
<1>4. Head(stream[0]) = stream[0][1]
  BY <1>1, <1>3
<1> QED
  BY <1>1, <1>3, <1>4 DEF IInv, Exchange, Evidence

LEMMA HttpHeadersStep ==
    ASSUME IInv, HttpHeaders
    PROVE  IInv' /\ [R!Next]_R!vars
<1>1. /\ transport = "http" /\ pc = "post" /\ stream[0] # <<>>
      /\ UNCHANGED <<transport, child, ran>>
      /\ child' \in {"none", "running", "killed", "exited"}
  BY DEF HttpHeaders, IInv, TypeOK
<1>2. CASE Head(stream[0]).kind = "status"
  <2>1. Fails("retryable") /\ UNCHANGED <<stream, inbox>>
    BY <1>2 DEF HttpHeaders
  <2>2. Around
    BY <1>1, <2>1, StillAround
  <2> QED
    BY <1>1, <2>1, <2>2, FailsStep DEF Errors
<1>3. CASE stage = "notify" /\ Head(stream[0]).kind # "status"
  <2>1. /\ Sends(attempt, open, "call") /\ stream' = [stream EXCEPT ![0] = <<>>]
        /\ UNCHANGED <<attempt, open, outcome, flow, endpoint>>
    BY <1>3 DEF HttpHeaders, link
  <2>2. Around
    BY <1>1, <2>1, ReadAround
  <2>3. stream'[0] = <<>> /\ endpoint' \in Opens
    BY <1>1, <2>1, FirstOfExchange DEF IInv, TypeOK
  <2> QED
    BY <1>1, <1>3, <2>1, <2>2, <2>3, FirstOfExchange, SendsStep DEF Stages
<1>4. CASE stage # "notify" /\ Head(stream[0]).kind # "status"
  <2>1. /\ pc' = "body"
        /\ UNCHANGED <<stage, attempt, open, stream, waiting, inbox, sent, outcome, endpoint,
                       flow>>
    BY <1>4 DEF HttpHeaders, link
  <2>2. TypeOK'
    BY <1>1, <2>1 DEF IInv, TypeOK, Awaits
  <2>3. Progress' /\ Copies' /\ Evidence'
    BY <1>1, <2>1 DEF IInv, Progress, Copies, Evidence, Waits
  <2>4. stream'[0] # <<>> /\ stream'[0][1].kind # "status"
    BY <1>1, <1>4, <2>1, FirstOfExchange
  <2>5. Exchange'
    BY <1>1, <2>1, <2>4 DEF IInv, Exchange
  <2> QED
    BY <1>1, <2>1, <2>2, <2>3, <2>5 DEF IInv, R!vars
<1> QED
  BY <1>2, <1>3, <1>4

LEMMA HttpBodyStep ==
    ASSUME IInv, HttpBody
    PROVE  IInv' /\ [R!Next]_R!vars
<1> DEFINE reply == Head(stream[0]).kind
           kind == CASE reply = "accepted" -> IF stage = "call" THEN "empty" ELSE "result"
                     [] reply = "malformed" -> "retryable"
                     [] reply = "unparsable" -> "fatal"
                     [] OTHER -> reply
<1>1. /\ transport = "http" /\ pc = "body" /\ UNCHANGED <<transport, child, ran>>
      /\ Answered(kind) /\ stream' = [stream EXCEPT ![0] = <<>>]
  BY DEF HttpBody
<1>2. stream[0] # <<>> /\ stream[0][1].kind # "status"
  BY <1>1 DEF IInv, Exchange
<1>3. reply \in Replies \ {"status"}
  BY <1>1, <1>2, FirstOfExchange
<1>4. /\ kind \in {"result", "error", "empty", "retryable", "fatal"}
      /\ kind = "empty" => stage = "call"
      /\ kind = "result" /\ stage = "call" => reply = "result"
  BY <1>3 DEF Replies
<1>5. /\ kind = "result" /\ stage = "call" => sent \in ran
      /\ stream'[0] = <<>> /\ \A r \in inbox : r.attempt # attempt
  BY <1>1, <1>2, <1>4, FirstOfExchange DEF IInv, TypeOK
<1>6. Around
  BY <1>1, ReadAround DEF IInv, TypeOK
<1> HIDE DEF kind
<1> QED
  BY <1>1, <1>4, <1>5, <1>6, AnsweredStep

LEMMA HttpAbortStep ==
    ASSUME IInv, HttpAbort
    PROVE  IInv' /\ [R!Next]_R!vars
<1>1. /\ pc = "post" /\ Fails("retryable")
      /\ UNCHANGED <<transport, stream, child, inbox, ran>>
  BY DEF HttpAbort, peer
<1>2. Around
  BY <1>1, StillAround DEF IInv, TypeOK
<1> QED
  BY <1>1, <1>2, FailsStep DEF Errors

LEMMA HttpBreaksStep ==
    ASSUME IInv, HttpBreaks
    PROVE  IInv' /\ [R!Next]_R!vars
<1>1. PICK error \in {"retryable", "fatal"} : Fails(error)
  BY DEF HttpBreaks
<1>2. pc \in {"post", "body"} /\ UNCHANGED <<transport, stream, child, inbox, ran>>
  BY DEF HttpBreaks, peer
<1>3. Around
  BY <1>2, StillAround DEF IInv, TypeOK
<1> QED
  BY <1>1, <1>2, <1>3, FailsStep DEF Errors
-----------------------------------------------------------------------------
(* SSE. *)

LEMMA SseGetStep ==
    ASSUME IInv, SseGet
    PROVE  IInv' /\ [R!Next]_R!vars
<1> USE DEF IInv
<1>1. /\ pc = "get" /\ transport = "sse" /\ open \in Opens
      /\ UNCHANGED <<transport, child, inbox, ran>>
  BY DEF SseGet, peer, TypeOK, Progress, Waits, Transports
<1> DEFINE announced == [kind |-> "endpoint", stage |-> "initialize"]
<1>2. CASE /\ pc' = "endpoint" /\ flow' = [flow EXCEPT ![open] = "live"]
           /\ stream' \in {stream, [stream EXCEPT ![open] = <<announced>>]}
           /\ UNCHANGED <<stage, attempt, open, endpoint, waiting, sent, outcome>>
  <2>1. announced \in Messages
    <3>1. "endpoint" \in Replies \cup {"endpoint"} /\ "initialize" \in Stages
      BY DEF Stages
    <3> QED
      BY <3>1 DEF Messages
  <2>2. stream' \in [Opens -> Seq(Messages)]
    <3> HIDE DEF announced
    <3>1. <<announced>> \in Seq(Messages)
      BY <2>1
    <3> QED
      BY <1>2, <3>1 DEF TypeOK
  <2>3. TypeOK'
    BY <1>1, <1>2, <2>2 DEF TypeOK, Awaits
  <2>4. Progress' /\ Copies' /\ Exchange'
    BY <1>1, <1>2 DEF Progress, Copies, Exchange, Waits, Awaits
  <2>5. \A i \in Opens : stream'[i] = stream[i] \/ stream'[i] = <<announced>>
    BY <1>2 DEF TypeOK
  <2>6. \A i \in Opens : \A k \in 1..Len(stream'[i]) :
           stream'[i][k].kind = "result" /\ stream'[i][k].stage = "call" =>
              sent \in ran /\ stage = "call"
    BY <2>5 DEF Evidence
  <2>7. Evidence'
    BY <1>1, <1>2, <2>6 DEF Evidence
  <2> QED
    BY <1>1, <1>2, <2>3, <2>4, <2>7 DEF R!vars
<1>3. CASE (\E error \in Errors : FailsToOpen(error)) /\ UNCHANGED stream
  BY <1>1, <1>3, FailsToOpenStep
<1> QED
  BY <1>2, <1>3 DEF SseGet

LEMMA SseReopenStep ==
    ASSUME IInv, SseReopen
    PROVE  IInv' /\ [R!Next]_R!vars
<1> USE DEF IInv
<1>1. /\ pc = "reopen" /\ pc' = "get" /\ transport = "sse" /\ open' = open + 1
      /\ endpoint' = 0 /\ open < MaxAttempts
      /\ UNCHANGED <<transport, stage, attempt, stream, flow, waiting, sent, outcome, child,
                     inbox, ran>>
  BY DEF SseReopen, peer, TypeOK, Progress, Waits, Transports
<1>2. TypeOK'
  BY <1>1, RetryAssumption DEF TypeOK, Awaits, Opens
<1>3. Progress' /\ Copies' /\ Evidence' /\ Exchange'
  BY <1>1 DEF Progress, Copies, Evidence, Exchange, Waits, Awaits
<1> QED
  BY <1>1, <1>2, <1>3 DEF R!vars

LEMMA EndpointTimeoutStep ==
    ASSUME IInv, EndpointTimeout
    PROVE  IInv' /\ [R!Next]_R!vars
BY FailsToOpenStep DEF EndpointTimeout, peer, Errors

LEMMA SseEventStep ==
    ASSUME IInv, NEW i \in Opens, SseEvent(i)
    PROVE  IInv' /\ [R!Next]_R!vars
<1> DEFINE event == Head(stream[i])
<1>1. /\ transport = "sse" /\ pc # "done" /\ stream[i] # <<>>
      /\ stream' = [stream EXCEPT ![i] = Tail(@)]
      /\ UNCHANGED <<transport, child, ran>> /\ pc # "stopping"
  BY DEF SseEvent, IInv, Progress, Waits
<1>2. /\ stream[i] \in Seq(Messages) /\ event \in Messages /\ Tail(stream[i]) \in Seq(Messages)
      /\ event = stream[i][1] /\ 1 \in 1..Len(stream[i])
  <2>1. stream[i] \in Seq(Messages)
    BY DEF IInv, TypeOK
  <2> QED
    BY <1>1, <2>1
<1>3. Around
  <2>1. stream' \in [Opens -> Seq(Messages)]
    BY <1>1, <1>2 DEF IInv, TypeOK
  <2>2. \A n \in Opens : stream'[n] = stream[n] \/ (n = i /\ stream'[n] = Tail(stream[i]))
    BY <1>1 DEF IInv, TypeOK
  <2> QED
    BY <1>1, <2>1, <2>2 DEF Around, Reads, IInv, TypeOK
<1>4. CASE /\ endpoint' = i /\ UNCHANGED <<attempt, open, flow, outcome>>
           /\ \/ pc = "endpoint" /\ Sends(attempt, open, "initialize")
              \/ pc # "endpoint" /\ UNCHANGED <<pc, stage, waiting, inbox, sent>>
  <2>1. CASE pc = "endpoint"
    <3>1. stage # "call" /\ Sends(attempt, open, "initialize")
      BY <1>4, <2>1 DEF IInv, Progress
    <3> QED
      BY <1>1, <1>3, <1>4, <2>1, <3>1, SendsStep DEF Stages
  <2>2. CASE pc # "endpoint"
    <3>1. TypeOK'
      BY <1>3, <1>4, <2>2 DEF IInv, TypeOK, Around, Reads
    <3>2. Progress' /\ Copies' /\ Exchange'
      BY <1>1, <1>4, <2>2 DEF IInv, Progress, Copies, Exchange
    <3>3. Evidence'
      BY <1>1, <1>3, <1>4, <2>2, EvidenceIsKept DEF IInv, Evidence, Around
    <3> QED
      BY <1>1, <1>4, <2>2, <3>1, <3>2, <3>3 DEF IInv, R!vars
  <2> QED
    BY <1>4, <2>1, <2>2
<1>5. CASE Answers(i, event) /\ pc = "answer" /\ Answered(event.kind)
  <2>1. event.kind \in {"result", "error"} /\ event.stage = stage
    BY <1>5 DEF Answers
  <2>2. event.kind = "result" /\ stage = "call" => sent \in ran
    BY <1>2, <2>1 DEF IInv, Evidence
  <2> QED
    BY <1>1, <1>3, <1>5, <2>1, <2>2, AnsweredStep
<1>6. CASE /\ waiting' = IF Answers(i, event) THEN event.kind ELSE waiting
           /\ UNCHANGED <<pc, stage, attempt, open, inbox, sent, outcome, endpoint, flow>>
  <2>1. Answers(i, event) => /\ event.kind \in {"result", "error"}
                             /\ event.kind = "result" /\ stage = "call" => sent \in ran
    BY <1>2 DEF Answers, IInv, Evidence
  <2>2. TypeOK'
    BY <1>3, <1>6, <2>1 DEF IInv, TypeOK, Around, Reads, Settled
  <2>3. Progress' /\ Copies' /\ Exchange'
    BY <1>1, <1>6 DEF IInv, Progress, Copies, Exchange
  <2>4. Evidence'
    BY <1>1, <1>3, <1>6, <2>1, EvidenceIsKept DEF IInv, Evidence, Around
  <2> QED
    BY <1>1, <1>6, <2>2, <2>3, <2>4 DEF IInv, R!vars
<1> QED
  BY <1>4, <1>5, <1>6 DEF SseEvent, link

LEMMA SseEndsStep ==
    ASSUME IInv, SseEnds
    PROVE  IInv' /\ [R!Next]_R!vars
<1>1. /\ flow' = [flow EXCEPT ![open] = "done"]
      /\ UNCHANGED <<transport, pc, stage, attempt, open, endpoint, stream, waiting, sent,
                     outcome, child, inbox, ran>>
  BY DEF SseEnds, peer
<1>2. TypeOK'
  BY <1>1 DEF IInv, TypeOK
<1>3. Progress' /\ Copies' /\ Evidence' /\ Exchange'
  BY <1>1 DEF IInv, Progress, Copies, Evidence, Exchange
<1> QED
  BY <1>1, <1>2, <1>3 DEF IInv, R!vars

LEMMA SseBreaksStep ==
    ASSUME IInv, SseBreaks
    PROVE  IInv' /\ [R!Next]_R!vars
<1>1. /\ transport = "sse" /\ pc # "done"
      /\ UNCHANGED <<transport, stream, child, inbox, ran>>
  BY DEF SseBreaks, peer
<1>2. PICK error \in {"retryable", "fatal"} :
         IF pc = "endpoint" \/ (pc = "answer" /\ waiting = "open")
         THEN Fails(error)
         ELSE /\ flow' = [flow EXCEPT ![open] = "closed"]
              /\ waiting' = IF waiting = "open" THEN error ELSE waiting
              /\ UNCHANGED <<pc, stage, attempt, open, endpoint, sent, outcome>>
  BY DEF SseBreaks
<1>3. CASE pc = "endpoint" \/ (pc = "answer" /\ waiting = "open")
  <2>1. Around
    BY <1>1, StillAround DEF IInv, TypeOK
  <2> QED
    BY <1>1, <1>2, <1>3, <2>1, FailsStep DEF Errors
<1>4. CASE ~(pc = "endpoint" \/ (pc = "answer" /\ waiting = "open"))
  <2>1. TypeOK'
    BY <1>1, <1>2, <1>4 DEF IInv, TypeOK, Settled
  <2>2. Progress' /\ Copies' /\ Evidence' /\ Exchange'
    BY <1>1, <1>2, <1>4 DEF IInv, Progress, Copies, Evidence, Exchange
  <2> QED
    BY <1>1, <1>2, <1>4, <2>1, <2>2 DEF IInv, R!vars
<1> QED
  BY <1>3, <1>4

LEMMA SsePostedStep ==
    ASSUME IInv, SsePosted
    PROVE  IInv' /\ [R!Next]_R!vars
<1>1. /\ transport = "sse" /\ pc = "post" /\ UNCHANGED <<transport, stream, child, ran>>
  BY DEF SsePosted
<1>2. Around
  BY <1>1, StillAround DEF IInv, TypeOK
<1>3. CASE stage = "notify"
  <2>1. Sends(attempt, open, "call") /\ UNCHANGED <<attempt, open, outcome, flow, endpoint>>
    BY <1>3 DEF SsePosted, link
  <2>2. endpoint' \in Opens
    BY <2>1 DEF IInv, TypeOK
  <2> QED
    BY <1>1, <1>2, <1>3, <2>1, <2>2, SendsStep DEF Stages
<1>4. CASE stage # "notify" /\ waiting = "open"
  <2>1. /\ pc' = "answer"
        /\ UNCHANGED <<stage, attempt, open, waiting, inbox, sent, outcome, flow, endpoint>>
    BY <1>4 DEF SsePosted, link
  <2>2. TypeOK'
    BY <1>1, <2>1 DEF IInv, TypeOK, Awaits
  <2>3. Progress' /\ Copies' /\ Evidence' /\ Exchange'
    BY <1>1, <2>1 DEF IInv, Progress, Copies, Evidence, Exchange, Waits, Awaits
  <2> QED
    BY <1>1, <2>1, <2>2, <2>3 DEF IInv, R!vars
<1>5. CASE stage # "notify" /\ waiting # "open"
  <2>1. Answered(waiting)
    BY <1>5 DEF SsePosted
  <2>2. /\ waiting \in {"result", "error", "retryable", "fatal"}
        /\ waiting = "result" /\ stage = "call" => sent \in ran
    BY <1>1, <1>5 DEF IInv, TypeOK, Evidence, Settled
  <2> QED
    BY <1>1, <1>2, <2>1, <2>2, AnsweredStep
<1> QED
  BY <1>3, <1>4, <1>5

LEMMA SsePostFailsStep ==
    ASSUME IInv, SsePostFails
    PROVE  IInv' /\ [R!Next]_R!vars
<1>1. PICK error \in {"retryable", "fatal"} : Fails(error)
  BY DEF SsePostFails
<1>2. pc = "post" /\ UNCHANGED <<transport, stream, child, ran>> /\ inbox' \subseteq inbox
  BY DEF SsePostFails
<1>3. Around
  BY <1>2, StillAround DEF IInv, TypeOK
<1> QED
  BY <1>1, <1>2, <1>3, FailsStep DEF Errors
-----------------------------------------------------------------------------
(* stdio, the timers and the server. *)

LEMMA SpawnFailsStep ==
    ASSUME IInv, SpawnFails
    PROVE  IInv' /\ [R!Next]_R!vars
<1>1. /\ transport = "stdio" /\ pc = "backoff" /\ pc' = "done" /\ attempt' = attempt + 1
      /\ outcome' = "failed"
      /\ UNCHANGED <<transport, stage, open, endpoint, stream, flow, waiting, child, inbox,
                     sent, ran>>
  BY DEF SpawnFails
<1>2. attempt \in Nat /\ attempt < MaxAttempts /\ sent \in Nat /\ sent <= attempt /\ outcome = "none"
  BY <1>1 DEF IInv, TypeOK, Progress
<1>3. TypeOK'
  BY <1>1, <1>2, RetryAssumption DEF IInv, TypeOK, Awaits
<1>4. Progress' /\ Evidence'
  BY <1>1, <1>2 DEF IInv, Progress, Evidence, Waits
<1>5. \A r \in inbox : r.attempt \in Nat /\ r.attempt <= attempt
  BY DEF IInv, TypeOK, Requests, Attempts, Copies
<1>6. Exchange'
  BY <1>1, <1>2, <1>5 DEF IInv, Exchange
<1>7. Copies'
  BY <1>1, <1>2 DEF IInv, Copies, TypeOK, Requests, Attempts
<1>8. R!Finish("failed")
  BY <1>1, <1>2 DEF R!Finish
<1> QED
  BY <1>3, <1>4, <1>6, <1>7, <1>8 DEF IInv, R!Next

LEMMA StdioMessageStep ==
    ASSUME IInv, StdioMessage
    PROVE  IInv' /\ [R!Next]_R!vars
<1> DEFINE event == Head(stream[0])
           kind == IF event.kind = "unparsable" THEN "fatal" ELSE event.kind
<1>1. /\ transport = "stdio" /\ pc = "answer" /\ stream[0] # <<>> /\ Answered(kind)
      /\ stream' = [stream EXCEPT ![0] = Tail(@)] /\ UNCHANGED <<transport, ran>>
      /\ child' \in {"none", "running", "killed", "exited"}
  BY DEF StdioMessage, IInv, TypeOK
<1>2. /\ event.kind \in {"result", "error", "unparsable"} /\ Tail(stream[0]) = <<>>
      /\ \A r \in inbox : r.attempt # attempt
      /\ kind = "result" /\ stage = "call" => sent \in ran
  BY <1>1, FirstOfExchange
<1>3. stream' = [stream EXCEPT ![0] = <<>>] /\ stream'[0] = <<>>
  BY <1>1, <1>2, FirstOfExchange DEF IInv, TypeOK
<1>4. Around
  BY <1>1, <1>3, ReadAround
<1>5. kind \in {"result", "error", "empty", "retryable", "fatal"} /\ kind # "empty"
  BY <1>2
<1> HIDE DEF kind
<1> QED
  BY <1>1, <1>2, <1>3, <1>4, <1>5, AnsweredStep

LEMMA ChildExitsStep ==
    ASSUME IInv, ChildExits
    PROVE  IInv' /\ [R!Next]_R!vars
<1>1. child' = "exited" /\ UNCHANGED <<transport, stream, inbox, ran>>
  BY DEF ChildExits
<1>2. CASE pc = "answer"
  <2>1. Fails("fatal")
    BY <1>2 DEF ChildExits
  <2>2. Around
    BY <1>1, StillAround
  <2> QED
    BY <1>1, <1>2, <2>1, <2>2, FailsStep DEF Errors
<1>3. CASE pc # "answer"
  <2>1. UNCHANGED <<pc, stage, attempt, open, waiting, sent, outcome, endpoint, flow>>
    BY <1>3 DEF ChildExits, link
  <2>2. TypeOK'
    BY <1>1, <2>1 DEF IInv, TypeOK
  <2>3. Progress' /\ Copies' /\ Evidence' /\ Exchange'
    BY <1>1, <2>1 DEF IInv, Progress, Copies, Evidence, Exchange
  <2> QED
    BY <1>1, <2>1, <2>2, <2>3 DEF IInv, R!vars
<1> QED
  BY <1>2, <1>3

LEMMA StoppedStep ==
    ASSUME IInv, Stopped
    PROVE  IInv' /\ [R!Next]_R!vars
<1>1. /\ pc = "stopping" /\ pc' = "done"
      /\ UNCHANGED <<transport, stage, attempt, open, stream, waiting, sent, outcome, endpoint,
                     flow, child, inbox, ran>>
  BY DEF Stopped, link, peer
<1>2. transport = "stdio"
  BY <1>1 DEF IInv, TypeOK, Progress, Waits, Transports
<1>3. TypeOK'
  BY <1>1 DEF IInv, TypeOK, Awaits
<1>4. Progress' /\ Copies' /\ Evidence' /\ Exchange'
  BY <1>1, <1>2 DEF IInv, Progress, Copies, Evidence, Exchange, Waits
<1> QED
  BY <1>1, <1>3, <1>4 DEF IInv, R!vars

LEMMA AnswerTimeoutStep ==
    ASSUME IInv, AnswerTimeout
    PROVE  IInv' /\ [R!Next]_R!vars
<1>1. pc = "answer" /\ Fails("retryable") /\ UNCHANGED <<transport, stream, inbox, ran>>
  BY DEF AnswerTimeout
<1>2. child' \in {"none", "running", "killed", "exited"}
  BY DEF AnswerTimeout, IInv, TypeOK
<1>3. Around
  BY <1>1, <1>2, StillAround
<1> QED
  BY <1>1, <1>3, FailsStep DEF Errors

\* A copy of the call that the server runs is one it has not run, and an answer to it
\* reaches the client only if it is the last.
LEMMA ServeStep ==
    ASSUME IInv, Serve
    PROVE  IInv' /\ [R!Next]_R!vars
<1> USE DEF IInv
<1>1. PICK r \in inbox, runs \in BOOLEAN, reply \in Replies \cup {"silence"} :
         /\ reply \in {"status", "malformed", "accepted"} => transport = "http"
         /\ runs => r.stage = "call"
         /\ reply = "result" => (r.stage = "call" => runs)
         /\ inbox' = inbox \ {r}
         /\ ran' = IF runs THEN ran \cup {r.number} ELSE ran
         /\ stream' = IF reply = "silence" THEN stream ELSE ReplyTo(r, reply)
         /\ UNCHANGED <<transport, pc, stage, attempt, open, endpoint, flow, waiting, child,
                        sent, outcome>>
  BY DEF Serve
<1> DEFINE answer == [kind |-> reply, stage |-> r.stage]
<1>2. /\ r \in Requests /\ sent \in Nat /\ sent <= MaxAttempts
      /\ runs => r.number \in 1..sent \ ran
  BY <1>1, RetryAssumption DEF TypeOK, Copies
<1>3. \/ stream' = stream
      \/ /\ reply \in Replies /\ r.attempt = attempt /\ r.open \in Opens
         /\ stream' = [stream EXCEPT ![r.open] = Append(@, answer)]
  BY <1>1, <1>2 DEF ReplyTo, Requests
<1>4. reply \in Replies => answer \in Messages
  BY <1>2 DEF Messages, Requests
<1> HIDE DEF answer
<1>5. stream' \in [Opens -> Seq(Messages)]
  <2>1. stream \in [Opens -> Seq(Messages)]
    BY DEF TypeOK
  <2>2. reply \in Replies /\ r.open \in Opens => Append(stream[r.open], answer) \in Seq(Messages)
    BY <1>4, <2>1
  <2> QED
    BY <1>3, <2>1, <2>2
<1>6. TypeOK'
  <2>1. ran' \subseteq Attempts
    <3>1. runs => r.number \in 1..MaxAttempts
      BY <1>2, RetryAssumption
    <3> QED
      BY <1>1, <3>1 DEF TypeOK, Attempts
  <2> QED
    BY <1>1, <1>5, <2>1 DEF TypeOK
<1>7. Progress'
  BY <1>1 DEF Progress
<1>8. Copies'
  <2>1. ran' \subseteq 1..sent'
    BY <1>1, <1>2 DEF Copies
  <2>2. \A q \in inbox' : q \in inbox /\ q # r
    BY <1>1
  <2>3. \A q \in inbox' : q.stage = "call" => q.number \in 1..sent' \ ran'
    BY <1>1, <2>2 DEF Copies
  <2> QED
    BY <1>1, <2>1, <2>2, <2>3 DEF Copies
<1>9. r.attempt = attempt /\ r.stage = "call" /\ reply = "result" =>
         sent \in ran' /\ stage = "call"
  BY <1>1 DEF Copies
<1>10. Evidence'
  <2>1. ASSUME NEW i \in Opens, NEW k \in 1..Len(stream'[i]),
               stream'[i][k].kind = "result", stream'[i][k].stage = "call"
        PROVE  sent' \in ran' /\ stage' = "call"
    <3>1. CASE stream'[i] = stream[i]
      BY <1>1, <2>1, <3>1 DEF Evidence
    <3>2. CASE /\ reply \in Replies /\ r.attempt = attempt
               /\ stream'[i] = Append(stream[i], answer)
      <4>1. stream[i] \in Seq(Messages) /\ answer \in Messages
        BY <1>4, <3>2 DEF TypeOK
      <4>2. CASE k \in 1..Len(stream[i])
        <5>1. stream'[i][k] = stream[i][k]
          BY <3>2, <4>1, <4>2
        <5> QED
          BY <1>1, <2>1, <4>2, <5>1 DEF Evidence
      <4>3. CASE k = Len(stream[i]) + 1
        <5>1. stream'[i][k] = answer
          BY <3>2, <4>1, <4>3
        <5> QED
          BY <1>1, <1>9, <2>1, <3>2, <5>1 DEF answer
      <4>4. Len(stream'[i]) = Len(stream[i]) + 1 /\ Len(stream[i]) \in Nat
        BY <3>2, <4>1
      <4> QED
        BY <4>2, <4>3, <4>4
    <3> QED
      BY <1>3, <3>1, <3>2 DEF TypeOK
  <2> QED
    BY <1>1, <2>1 DEF Evidence
<1>11. Exchange'
  <2> SUFFICES ASSUME transport # "sse" PROVE Exchange'
    BY <1>1 DEF Exchange
  <2>0. 0 \in Opens /\ stream[0] \in Seq(Messages)
    BY RetryAssumption DEF Opens, TypeOK
  <2>1. CASE stream' = stream
    BY <1>1, <2>1 DEF Exchange
  <2>2. CASE /\ reply \in Replies /\ r.attempt = attempt
             /\ stream' = [stream EXCEPT ![r.open] = Append(@, answer)]
    <3>1. /\ stream[0] = <<>> /\ r.open = 0 /\ r.stage = stage
          /\ \A q \in inbox : q.attempt = attempt => q.open = r.open /\ q.stage = r.stage
                                                     /\ q.number = r.number
      BY <1>1, <2>2 DEF Exchange
    <3>2. \A q \in inbox' : q.attempt # attempt
      <4>1. \A q \in Requests : q.attempt = r.attempt /\ q.open = r.open /\ q.stage = r.stage
                                /\ q.number = r.number => q = r
        BY <1>2 DEF Requests
      <4> QED
        BY <1>1, <2>2, <3>1, <4>1 DEF TypeOK
    <3>3. Len(stream'[0]) = 1 /\ stream'[0][1] = answer
      <4>1. stream'[0] = Append(stream[0], answer)
        BY <2>0, <2>2, <3>1 DEF TypeOK
      <4>2. <<>> \in Seq(Messages) /\ answer \in Messages
        BY <1>4, <2>2
      <4> QED
        BY <3>1, <4>1, <4>2
    <3>4. /\ answer.stage = stage
          /\ answer.kind \in IF transport = "http" THEN Replies
                             ELSE {"result", "error", "unparsable"}
      BY <1>1, <2>2, <3>1 DEF answer, Replies
    <3>5. pc' # "body"
      BY <1>1, <3>1 DEF Exchange
    <3>6. Len(stream'[0]) <= 1 /\ \A q \in inbox' : q.attempt # attempt'
      <4>1. \A q \in inbox' : q.attempt # attempt'
        BY <1>1, <3>2
      <4>2. Len(stream'[0]) <= 1
        BY ONLY <3>3
      <4> QED
        BY <4>1, <4>2
    <3>7. /\ stream'[0][1].stage = stage'
          /\ stream'[0][1].kind \in IF transport' = "http" THEN Replies
                                    ELSE {"result", "error", "unparsable"}
      BY <1>1, <3>3, <3>4, Zenon
    <3> QED
      BY <3>5, <3>6, <3>7 DEF Exchange
  <2> QED
    BY <1>3, <2>1, <2>2
<1>12. CASE runs
  <2>1. r.number \in 1..MaxAttempts /\ R!Run(r.number)
    BY <1>1, <1>2, <1>12, RetryAssumption DEF R!Run
  <2> QED
    BY <1>6, <1>7, <1>8, <1>10, <1>11, <2>1 DEF R!Next
<1>13. CASE ~runs
  <2>1. UNCHANGED R!vars
    BY <1>1, <1>13 DEF R!vars
  <2> QED
    BY <1>6, <1>7, <1>8, <1>10, <1>11, <2>1
<1> QED
  BY <1>12, <1>13
-----------------------------------------------------------------------------
(* The theorems. *)

LEMMA InitEstablishes == Init => IInv /\ R!Init
<1> SUFFICES ASSUME Init PROVE IInv /\ R!Init
  OBVIOUS
<1>1. TypeOK
  BY RetryAssumption DEF Init, TypeOK, Awaits, Stages, Opens, Settled
<1>2. Progress /\ Copies /\ Evidence
  BY RetryAssumption DEF Init, Progress, Copies, Evidence, Waits, Awaits, Transports
<1>3. stream[0] = <<>>
  BY RetryAssumption DEF Init, Opens
<1>4. Exchange
  BY <1>3 DEF Init, Exchange
<1> QED
  BY <1>1, <1>2, <1>4 DEF Init, IInv, R!Init

LEMMA NextImplements == IInv /\ [Next]_vars => IInv' /\ [R!Next]_R!vars
<1> SUFFICES ASSUME IInv, [Next]_vars PROVE IInv' /\ [R!Next]_R!vars
  OBVIOUS
<1>1. CASE UNCHANGED vars
  BY <1>1 DEF vars, IInv, TypeOK, Progress, Copies, Evidence, Exchange, R!vars
<1>2. CASE Connect
  BY <1>2, ConnectStep
<1>3. CASE Http
  BY <1>3, HttpHeadersStep, HttpBodyStep, HttpAbortStep, HttpBreaksStep DEF Http
<1>4. CASE Sse
  BY <1>4, SseGetStep, SseReopenStep, EndpointTimeoutStep, SseEventStep, SseEndsStep,
     SseBreaksStep, SsePostedStep, SsePostFailsStep DEF Sse
<1>5. CASE Stdio
  BY <1>5, SpawnFailsStep, StdioMessageStep, ChildExitsStep, StoppedStep DEF Stdio
<1>6. CASE AnswerTimeout
  BY <1>6, AnswerTimeoutStep
<1>7. CASE Serve
  BY <1>7, ServeStep
<1>8. CASE Done
  BY <1>1, <1>8 DEF Done
<1> QED
  BY <1>1, <1>2, <1>3, <1>4, <1>5, <1>6, <1>7, <1>8 DEF Next

\* The inductive invariant holds in every state of a call.
THEOREM Invariant == Spec => []IInv
<1>1. Init => IInv
  BY InitEstablishes
<1>2. IInv /\ [Next]_vars => IInv'
  BY NextImplements
<1> QED
  BY <1>1, <1>2, PTL DEF Spec

\* Every variable of a call keeps its type, however many attempts it is given.
THEOREM TypeCorrect == Spec => []TypeOK
<1>1. IInv => TypeOK
  BY DEF IInv
<1> QED
  BY <1>1, Invariant, PTL

\* callMcpTool is one retried call over each of its transports, however many attempts are
\* allowed: it is sent and run a bounded number of times, and returns what the server said
\* of the last time it was sent.
THEOREM Implements == Spec => ImplementsRetriedCall
<1>1. Init => R!Init
  BY InitEstablishes
<1>2. IInv /\ [Next]_vars => [R!Next]_R!vars
  BY NextImplements
<1> QED
  BY <1>1, <1>2, Invariant, PTL DEF Spec, ImplementsRetriedCall, R!Spec
-----------------------------------------------------------------------------
(* One connection. The rest of the invariant: between two streams none is open, one that
   has ended closed its own, and only stdio has a child. *)

Single ==
    /\ OneConnection
    /\ pc = "reopen" => \A i \in Opens : flow[i] \notin {"live", "done"}
    /\ pc \in {"stopping", "done"} => \A i \in Opens : flow[i] # "live"
    /\ transport # "stdio" => child = "none"
    /\ transport = "stdio" /\ pc = "backoff" =>
          child = "none" /\ \A i \in Opens : flow[i] # "live"

\* What the steps of one connection have in common.
Apart == transport' = transport /\ (transport # "stdio" => child' = "none")

LEMMA EndsSingle ==
    ASSUME TypeOK, Single, Apart, NEW o, Ends(o)
    PROVE  Single'
<1>1. /\ pc' = IF transport = "stdio" THEN "stopping" ELSE "done"
      /\ open' = open /\ endpoint' = endpoint
  BY DEF Ends
<1>2. \A i \in Opens : flow'[i] # "live" /\ (flow'[i] = "done" => flow[i] = "done")
  BY DEF Ends
<1> QED
  BY <1>1, <1>2 DEF Single, OneConnection, Apart

LEMMA FailsSingle ==
    ASSUME TypeOK, Single, Apart, NEW error, Fails(error)
    PROVE  Single'
<1>1. CASE Ends("failed")
  BY <1>1, EndsSingle
<1>2. CASE transport # "stdio" /\ pc' = "backoff" /\ UNCHANGED <<open, endpoint, flow>>
  BY <1>2 DEF Single, OneConnection, Apart
<1> QED
  BY <1>1, <1>2 DEF Fails, link

LEMMA FailsToOpenSingle ==
    ASSUME TypeOK, Single, Apart, NEW error, FailsToOpen(error)
    PROVE  Single'
<1>1. CASE Fails(error)
  BY <1>1, FailsSingle
<1>2. CASE /\ pc' = "reopen" /\ flow' = [flow EXCEPT ![open] = "closed"]
           /\ UNCHANGED <<open, endpoint>>
  <2>1. \A i \in Opens : flow'[i] = IF i = open THEN "closed" ELSE flow[i]
    BY <1>2 DEF TypeOK
  <2>2. \A i \in Opens : flow'[i] \notin {"live", "done"}
    BY <2>1 DEF Single, OneConnection
  <2> QED
    BY <1>2, <2>2 DEF Single, OneConnection, Apart
<1> QED
  BY <1>1, <1>2 DEF FailsToOpen

\* A step that leaves the streams and the endpoint alone.
LEMMA LinkKeptSingle ==
    ASSUME TypeOK, Single, Apart, UNCHANGED <<open, endpoint, flow>>,
           pc' \notin {"backoff", "reopen", "stopping", "done"},
           transport = "sse" /\ pc' \in {"post", "answer"} => endpoint = open
    PROVE  Single'
  BY DEF Single, OneConnection, Apart

LEMMA AnsweredSingle ==
    ASSUME TypeOK, Single, Apart, NEW kind, Answered(kind),
           transport = "sse" => pc \in {"post", "answer"}
    PROVE  Single'
<1>1. ASSUME NEW o, Ends(o) PROVE Single'
  BY <1>1, EndsSingle
<1>2. CASE Fails(kind)
  BY <1>2, FailsSingle
<1>3. CASE pc' \in {"answer", "post"} /\ UNCHANGED <<open, endpoint, flow>>
  <2>1. transport = "sse" => endpoint = open
    BY DEF Single, OneConnection
  <2> QED
    BY <1>3, <2>1, LinkKeptSingle
<1> QED
  BY <1>1, <1>2, <1>3 DEF Answered, Sends, link

LEMMA HttpSingle ==
    ASSUME IInv, Single, Http
    PROVE  Single'
<1>1. TypeOK /\ transport = "http" /\ transport' = transport /\ child' = child /\ Apart
  BY DEF IInv, Http, HttpHeaders, HttpBody, HttpAbort, HttpBreaks, Single, Apart, peer
<1>2. CASE HttpHeaders
  <2>1. CASE Fails("retryable")
    BY <1>1, <2>1, FailsSingle
  <2>2. CASE pc' \in {"post", "body"} /\ UNCHANGED <<open, endpoint, flow>>
    BY <1>1, <2>2, LinkKeptSingle
  <2> QED
    BY <1>1, <1>2, <2>1, <2>2 DEF HttpHeaders, Sends, link
<1>3. CASE HttpBody
  <2>1. PICK kind : Answered(kind)
    BY <1>3 DEF HttpBody
  <2> QED
    BY <1>1, <2>1, AnsweredSingle
<1>4. CASE HttpAbort \/ HttpBreaks
  <2>1. PICK error : Fails(error)
    BY <1>4 DEF HttpAbort, HttpBreaks
  <2> QED
    BY <1>1, <2>1, FailsSingle
<1> QED
  BY <1>2, <1>3, <1>4 DEF Http

LEMMA SseEventSingle ==
    ASSUME IInv, Single, NEW i \in Opens, SseEvent(i)
    PROVE  Single'
<1>1. TypeOK /\ transport = "sse" /\ transport' = transport /\ child' = child /\ Apart
  BY DEF IInv, SseEvent, Single, Apart
<1> DEFINE event == Head(stream[i])
<1>2. CASE event.kind = "endpoint" /\ Heard(i) /\ endpoint' = i
           /\ (\/ pc = "endpoint" /\ Sends(attempt, open, "initialize")
               \/ pc # "endpoint" /\ UNCHANGED <<pc, stage, waiting, inbox, sent>>)
           /\ UNCHANGED <<attempt, open, flow, outcome>>
  <2>1. endpoint' = open /\ UNCHANGED <<open, flow>>
    BY <1>2 DEF Heard
  <2>2. pc' = "post" \/ pc' = pc
    BY <1>1, <1>2 DEF Sends
  <2> QED
    BY <1>1, <2>1, <2>2 DEF Single, OneConnection, Apart
<1>3. CASE Answers(i, event) /\ pc = "answer" /\ Answered(event.kind)
  BY <1>1, <1>3, AnsweredSingle
<1>4. CASE UNCHANGED <<pc, open, endpoint, flow>>
  BY <1>1, <1>4 DEF Single, OneConnection, Apart
<1> QED
  BY <1>2, <1>3, <1>4 DEF SseEvent, link

LEMMA SseBreaksSingle ==
    ASSUME IInv, Single, SseBreaks
    PROVE  Single'
<1>1. TypeOK /\ transport' = transport /\ Apart
  BY DEF IInv, SseBreaks, Single, Apart, peer
<1>2. PICK error \in {"retryable", "fatal"} :
        IF pc = "endpoint" \/ (pc = "answer" /\ waiting = "open")
        THEN Fails(error)
        ELSE /\ flow' = [flow EXCEPT ![open] = "closed"]
             /\ UNCHANGED <<pc, open, endpoint>>
  BY DEF SseBreaks
<1>3. CASE Fails(error)
  BY <1>1, <1>3, FailsSingle
<1>4. CASE flow' = [flow EXCEPT ![open] = "closed"] /\ UNCHANGED <<pc, open, endpoint>>
  <2>1. \A i \in Opens : flow'[i] = IF i = open THEN "closed" ELSE flow[i]
    BY <1>1, <1>4 DEF TypeOK
  <2>2. \A i \in Opens : flow'[i] \notin {"live", "done"}
    BY <2>1 DEF Single, OneConnection
  <2>3. pc # "done" /\ transport = "sse"
    BY DEF SseBreaks
  <2> QED
    BY <1>1, <1>4, <2>2, <2>3 DEF Single, OneConnection, Apart
<1> QED
  BY <1>2, <1>3, <1>4

LEMMA SseSingle ==
    ASSUME IInv, Single, Sse
    PROVE  Single'
<1>1. TypeOK /\ transport' = transport /\ Apart
  BY DEF IInv, Sse, SseGet, SseReopen, EndpointTimeout, SseEvent, SseEnds, SseBreaks, SsePosted,
         SsePostFails, Single, Apart, peer
<1>2. CASE SseGet
  <2>1. CASE \E error \in Errors : FailsToOpen(error)
    BY <1>1, <2>1, FailsToOpenSingle
  <2>2. CASE pc' = "endpoint" /\ flow' = [flow EXCEPT ![open] = "live"]
             /\ UNCHANGED <<open, endpoint>>
    <3>1. \A i \in Opens : i # open => flow'[i] = flow[i]
      BY <1>1, <2>2 DEF TypeOK
    <3> QED
      BY <1>1, <2>2, <3>1 DEF Single, OneConnection, Apart
  <2> QED
    BY <1>2, <2>1, <2>2 DEF SseGet
<1>3. CASE SseReopen
  <2>1. pc = "reopen" /\ pc' = "get" /\ endpoint' = 0 /\ flow' = flow
    BY <1>3 DEF SseReopen
  <2> QED
    BY <1>1, <2>1 DEF Single, OneConnection, Apart
<1>4. CASE EndpointTimeout
  BY <1>1, <1>4, FailsToOpenSingle DEF EndpointTimeout
<1>5. CASE \E i \in Opens : SseEvent(i)
  BY <1>5, SseEventSingle
<1>6. CASE SseEnds
  <2>1. /\ flow[open] = "live" /\ flow' = [flow EXCEPT ![open] = "done"]
        /\ UNCHANGED <<pc, open, endpoint>> /\ pc # "done"
    BY <1>6 DEF SseEnds
  <2>2. open \in Opens /\ \A i \in Opens : flow'[i] = IF i = open THEN "done" ELSE flow[i]
    BY <1>1, <2>1 DEF TypeOK
  <2> QED
    BY <1>1, <2>1, <2>2 DEF Single, OneConnection, Apart
<1>7. CASE SseBreaks
  BY <1>7, SseBreaksSingle
<1>8. CASE SsePosted
  <2>1. CASE pc' \in {"post", "answer"} /\ UNCHANGED <<open, endpoint, flow>>
    <3>1. endpoint = open
      BY <1>8 DEF SsePosted, Single, OneConnection
    <3> QED
      BY <1>1, <2>1, <3>1, LinkKeptSingle
  <2>2. CASE Answered(waiting)
    BY <1>1, <1>8, <2>2, AnsweredSingle DEF SsePosted
  <2> QED
    BY <1>1, <1>8, <2>1, <2>2 DEF SsePosted, Sends, link
<1>9. CASE SsePostFails
  <2>1. PICK error : Fails(error)
    BY <1>9 DEF SsePostFails
  <2> QED
    BY <1>1, <2>1, FailsSingle
<1> QED
  BY <1>2, <1>3, <1>4, <1>5, <1>6, <1>7, <1>8, <1>9 DEF Sse

LEMMA StdioSingle ==
    ASSUME IInv, Single, Stdio
    PROVE  Single'
<1>1. TypeOK /\ transport' = transport
  BY DEF IInv, Stdio, SpawnFails, StdioMessage, ChildExits, Stopped
<1>2. transport = "stdio"
  BY DEF Stdio, SpawnFails, StdioMessage, ChildExits, Stopped, Single, IInv, Progress, Waits, Awaits
<1>3. Apart
  BY <1>1, <1>2 DEF Apart
<1>4. CASE StdioMessage
  <2>1. PICK kind : Answered(kind)
    BY <1>4 DEF StdioMessage
  <2> QED
    BY <1>1, <1>2, <1>3, <2>1, AnsweredSingle
<1>5. CASE ChildExits
  <2>1. CASE Fails("fatal")
    BY <1>1, <1>3, <2>1, FailsSingle
  <2>2. CASE UNCHANGED <<pc, open, endpoint, flow>> /\ child' = "exited"
    <3>1. child \in {"running", "killed"}
      BY <1>5 DEF ChildExits
    <3> QED
      BY <1>1, <1>2, <2>2, <3>1 DEF Single, OneConnection
  <2> QED
    BY <1>5, <2>1, <2>2 DEF ChildExits, link
<1>6. CASE Stopped
  <2>1. /\ pc = "stopping" /\ pc' = "done" /\ child = "exited" /\ child' = child
        /\ UNCHANGED <<open, endpoint, flow>>
    BY <1>6 DEF Stopped, link, peer
  <2> QED
    BY <1>1, <1>2, <2>1 DEF Single, OneConnection
<1>7. CASE SpawnFails
  <2>1. /\ pc = "backoff" /\ pc' = "done" /\ child' = child
        /\ UNCHANGED <<open, endpoint, flow>>
    BY <1>7 DEF SpawnFails
  <2> QED
    BY <1>1, <1>2, <2>1 DEF Single, OneConnection
<1> QED
  BY <1>4, <1>5, <1>6, <1>7 DEF Stdio

LEMMA ConnectSingle ==
    ASSUME IInv, Single, Connect
    PROVE  Single'
<1>1. TypeOK /\ transport' = transport /\ (transport # "stdio" => child' = "none") /\ endpoint' = 0
  BY DEF IInv, Connect, Single
<1>2. CASE transport = "sse"
  <2>1. pc' = "get" /\ \A i \in Opens : flow'[i] = "none"
    BY <1>2 DEF Connect
  <2> QED
    BY <1>1, <1>2, <2>1 DEF Single, OneConnection
<1>3. CASE transport # "sse"
  <2>1. /\ pc' \in {"answer", "post"} /\ open' = 0
        /\ \A i \in Opens : flow'[i] = IF i = 0 THEN "live" ELSE "none"
    BY <1>3 DEF Connect, Sends
  <2> QED
    BY <1>1, <1>3, <2>1 DEF Single, OneConnection
<1> QED
  BY <1>2, <1>3

LEMMA NextSingle == IInv /\ Single /\ [Next]_vars => Single'
<1> SUFFICES ASSUME IInv, Single, [Next]_vars PROVE Single'
  OBVIOUS
<1>1. CASE UNCHANGED vars
  BY <1>1 DEF vars, Single, OneConnection
<1>2. CASE AnswerTimeout
  <2>1. Apart /\ Fails("retryable") /\ TypeOK
    BY <1>2 DEF AnswerTimeout, Apart, Single, IInv
  <2> QED
    BY <2>1, FailsSingle
<1>3. CASE Serve
  <2>1. UNCHANGED <<transport, pc, open, endpoint, flow, child>>
    BY <1>3 DEF Serve
  <2> QED
    BY <2>1 DEF Single, OneConnection
<1> QED
  BY <1>1, <1>2, <1>3, ConnectSingle, HttpSingle, SseSingle, StdioSingle DEF Next, Done

\* A call posts only to the endpoint its open stream announced, reads no other stream, and
\* leaves neither a stream nor a child behind when it has ended, however many attempts and
\* openings it took and whatever fails in between.
THEOREM OnlyConnection == Spec => []OneConnection
<1>1. Init => Single
  BY RetryAssumption DEF Init, Single, OneConnection, Transports
<1>2. IInv /\ Single /\ [Next]_vars => Single'
  BY NextSingle
<1>3. Single => OneConnection
  BY DEF Single
<1> QED
  BY <1>1, <1>2, <1>3, Invariant, PTL DEF Spec
=============================================================================
