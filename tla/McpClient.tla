------------------------------- MODULE McpClient -------------------------------
(* One call of callMcpTool (src/agent/mcp/registry.ts) over one of the three transports:
   a child process (stdio.client.ts), streamable HTTP (http.client.ts) or the older pair
   of an SSE stream and POSTs (sse.client.ts). Every call opens a connection of its own,
   so calls meet only at the server.

   A call initialises the connection, notifies the server and sends the tool call; over
   HTTP and SSE it does all that a second time after a failure of the transport. The
   server, the network and the child process are external: they may answer, answer late,
   answer nonsense, or never answer. *)
EXTENDS Integers, Sequences

CONSTANT MaxAttempts    \* DEFAULT_RETRY_ATTEMPTS

ASSUME RetryAssumption == MaxAttempts \in Nat \ {0}

VARIABLES
    transport,  \* chosen by the definition of the server
    pc,         \* the await the call is suspended at
    stage,      \* what it is doing: "initialize", "notify" or "call"
    attempt,    \* connections opened by withHttpHandshake or withSseConnection
    open,       \* openAttempt: streams the connection has opened (SSE), else 0
    endpoint,   \* the stream whose announcement set endpointUrl, 0 for none
    stream,     \* what the server has sent on each stream of the connection, oldest first
    flow,       \* the state of each stream: "none", "live", "done" or "closed"
    waiting,    \* the pending entry of the request: "none", "open", or how it was settled
    child,      \* the child process: "none", "running", "killed" or "exited"
    inbox,      \* requests the server has not taken yet
    sent,       \* history: how often the tool call was sent
    ran,        \* history: which of those the server ran
    outcome     \* what the call ends with

vars == <<transport, pc, stage, attempt, open, endpoint, stream, flow, waiting, child,
          inbox, sent, ran, outcome>>
link == <<endpoint, flow>>
peer == <<child, inbox, ran>>

Transports == {"stdio", "http", "sse"}
Stages == {"initialize", "notify", "call"}
Attempts == 1..MaxAttempts
Opens == 0..MaxAttempts
Awaits == {"get", "endpoint", "post", "body", "answer", "reopen", "backoff", "stopping",
           "done"}
Replies == {"result", "error", "accepted", "status", "malformed", "unparsable"}
Messages == {[kind |-> k, stage |-> s] : k \in Replies \cup {"endpoint"}, s \in Stages}
Settled == {"none", "open", "result", "error", "retryable", "fatal"}

\* A request knows its connection, its stream and, a tool call, which one it is.
Requests == [attempt : Attempts, open : Opens, stage : Stages, number : Opens]

\* How an error is classed by its message: isRetryableOpenError and
\* isRetryableMcpTransportError. "reopen" errors may be retried by both.
Errors == {"reopen", "retryable", "fatal"}
-----------------------------------------------------------------------------
(* The client's steps, as updates of the variables. *)

\* A request goes out on stream o of connection a, and is registered if it has an answer.
Sends(a, o, s) ==
    /\ stage' = s
    /\ sent' = IF s = "call" THEN sent + 1 ELSE sent
    /\ inbox' = inbox \cup {[attempt |-> a, open |-> o, stage |-> s,
                             number |-> IF s = "call" THEN sent + 1 ELSE 0]}
    /\ waiting' = IF s = "notify" \/ transport = "http" THEN "none" ELSE "open"
    /\ pc' = IF transport = "stdio" THEN "answer" ELSE "post"

\* The call has what it returns or throws. A child is stopped first, a stream is closed.
Ends(o) ==
    /\ outcome' = o
    /\ pc' = IF transport = "stdio" THEN "stopping" ELSE "done"
    /\ flow' = [i \in Opens |-> IF flow[i] = "live" THEN "closed" ELSE flow[i]]
    /\ waiting' = "none"
    /\ UNCHANGED <<stage, attempt, open, endpoint, sent>>

\* An error thrown out of the connection's work: wait and connect again, or give up.
Fails(error) ==
    IF transport # "stdio" /\ error # "fatal" /\ attempt < MaxAttempts
    THEN /\ pc' = "backoff"
         /\ UNCHANGED <<stage, attempt, open, waiting, sent, outcome>> /\ UNCHANGED link
    ELSE Ends("failed")

\* An error while the stream is being opened, which open() may retry itself.
FailsToOpen(error) ==
    IF error = "reopen" /\ open < MaxAttempts
    THEN /\ pc' = "reopen"
         /\ flow' = [flow EXCEPT ![open] = "closed"]
         /\ UNCHANGED <<stage, attempt, open, endpoint, waiting, sent, outcome>>
    ELSE Fails(error)

\* request() returns or throws what the server said of it.
Answered(kind) ==
    \/ /\ kind = "error"
       /\ Ends(IF stage = "call" THEN "error" ELSE "failed")
       /\ UNCHANGED inbox
    \/ /\ kind \in {"retryable", "fatal"}
       /\ Fails(kind)
       /\ UNCHANGED inbox
    \/ /\ kind \in {"result", "empty"} /\ stage = "call"
       /\ Ends(kind)
       /\ UNCHANGED inbox
    \/ /\ kind \in {"result", "empty"} /\ stage # "call"
       /\ Sends(attempt, open, IF transport = "stdio" THEN "call" ELSE "notify")
       /\ UNCHANGED <<attempt, open, outcome>> /\ UNCHANGED link

Init ==
    /\ transport \in Transports
    /\ pc = "backoff" /\ stage = "initialize" /\ attempt = 0 /\ open = 0 /\ endpoint = 0
    /\ stream = [i \in Opens |-> <<>>] /\ flow = [i \in Opens |-> "none"]
    /\ waiting = "none" /\ child = "none" /\ inbox = {} /\ ran = {} /\ sent = 0
    /\ outcome = "none"

\* The first connection, and the next one after backoffMs: a child is spawned, a stream
\* is asked for, or the first exchange begins. Before that, the finally clause has closed
\* the old connection: what its streams still hold is not read.
Connect ==
    /\ pc = "backoff"
    /\ attempt' = attempt + 1
    /\ stream' = [i \in Opens |-> <<>>] /\ endpoint' = 0
    /\ IF transport = "sse"
       THEN /\ open' = 1 /\ pc' = "get" /\ stage' = "initialize" /\ waiting' = "none"
            /\ flow' = [i \in Opens |-> "none"]
            /\ UNCHANGED <<inbox, sent>>
       ELSE /\ open' = 0 /\ flow' = [i \in Opens |-> IF i = 0 THEN "live" ELSE "none"]
            /\ Sends(attempt + 1, 0, "initialize")
    /\ child' = IF transport = "stdio" THEN "running" ELSE child
    /\ UNCHANGED <<transport, ran, outcome>>
-----------------------------------------------------------------------------
(* Streamable HTTP: one exchange per message. *)

\* fetch resolves with the headers, and post clears its timer. The body of an answer is
\* read afterwards; that of a notification never is.
HttpHeaders ==
    /\ transport = "http" /\ pc = "post" /\ stream[0] # <<>>
    /\ CASE Head(stream[0]).kind = "status" ->
              Fails("retryable") /\ UNCHANGED <<stream, inbox>>
         [] stage = "notify" /\ Head(stream[0]).kind # "status" ->
              /\ Sends(attempt, open, "call")
              /\ stream' = [stream EXCEPT ![0] = <<>>]
              /\ UNCHANGED <<attempt, open, outcome>> /\ UNCHANGED link
         [] OTHER ->
              /\ pc' = "body"
              /\ UNCHANGED <<stage, attempt, open, stream, waiting, inbox, sent, outcome>>
              /\ UNCHANGED link
    /\ UNCHANGED <<transport, child, ran>>

\* Mutant: whatever is JSON is taken for a result.
HttpBodyOfAnyKind ==
    /\ transport = "http" /\ pc = "body"
    /\ LET reply == Head(stream[0]).kind IN
       Answered(CASE reply = "accepted" -> IF stage = "call" THEN "empty" ELSE "result"
                  [] reply = "malformed" -> "result"
                  [] reply = "unparsable" -> "fatal"
                  [] OTHER -> reply)
    /\ stream' = [stream EXCEPT ![0] = <<>>]
    /\ UNCHANGED <<transport, child, ran>>

\* parseHttpResponse: a reply without content counts as a result; an object that is not
\* the expected one may be retried, text that is no JSON may not.
HttpBody ==
    /\ transport = "http" /\ pc = "body"
    /\ LET reply == Head(stream[0]).kind IN
       Answered(CASE reply = "accepted" -> IF stage = "call" THEN "empty" ELSE "result"
                  [] reply = "malformed" -> "retryable"
                  [] reply = "unparsable" -> "fatal"
                  [] OTHER -> reply)
    /\ stream' = [stream EXCEPT ![0] = <<>>]
    /\ UNCHANGED <<transport, child, ran>>

\* The abort timer, which runs until the headers are there.
HttpAbort ==
    /\ transport = "http" /\ pc = "post"
    /\ Fails("retryable")
    /\ UNCHANGED <<transport, stream>> /\ UNCHANGED peer

\* fetch or text() rejects; only a message that starts with "fetch failed" is retried.
HttpBreaks ==
    /\ transport = "http" /\ pc \in {"post", "body"}
    /\ \E error \in {"retryable", "fatal"} : Fails(error)
    /\ UNCHANGED <<transport, stream>> /\ UNCHANGED peer
-----------------------------------------------------------------------------
(* SSE: openOnce, waitEndpoint, consume, dispatch, failStream. *)

\* The answer to the GET. The server may announce the endpoint at once, or never.
SseGet ==
    /\ pc = "get"
    /\ \/ /\ pc' = "endpoint"
          /\ flow' = [flow EXCEPT ![open] = "live"]
          /\ stream' \in {stream,
                 [stream EXCEPT ![open] = <<[kind |-> "endpoint", stage |-> "initialize"]>>]}
          /\ UNCHANGED <<stage, attempt, open, endpoint, waiting, sent, outcome>>
       \/ /\ \E error \in Errors : FailsToOpen(error)
          /\ UNCHANGED stream
    /\ UNCHANGED transport /\ UNCHANGED peer

SseReopen ==
    /\ pc = "reopen"
    /\ pc' = "get" /\ open' = open + 1 /\ endpoint' = 0
    /\ UNCHANGED <<transport, stage, attempt, stream, flow, waiting, sent, outcome>>
    /\ UNCHANGED peer

EndpointTimeout ==
    /\ pc = "endpoint"
    /\ FailsToOpen("reopen")
    /\ UNCHANGED <<transport, stream>> /\ UNCHANGED peer

\* Mutant: dispatch does not compare openAttempt.
HeardOfAny(i) == i \in Opens

\* dispatch drops what a stream of an earlier openAttempt says.
Heard(i) == i = open

\* A message with the id of the pending request. An answer that comes before its POST is
\* answered settles the promise that request() will await.
Answers(i, event) ==
    Heard(i) /\ event.kind \in {"result", "error"} /\ waiting = "open" /\ event.stage = stage

\* One event of stream i. An aborted stream may still have one in its buffer.
SseEvent(i) ==
    /\ transport = "sse" /\ pc # "done" /\ stream[i] # <<>> /\ flow[i] \in {"live", "closed"}
    /\ stream' = [stream EXCEPT ![i] = Tail(@)]
    /\ LET event == Head(stream[i]) IN
       \/ /\ event.kind = "endpoint" /\ Heard(i)
          /\ endpoint' = i
          /\ \/ pc = "endpoint" /\ Sends(attempt, open, "initialize")
             \/ pc # "endpoint" /\ UNCHANGED <<pc, stage, waiting, inbox, sent>>
          /\ UNCHANGED <<attempt, open, flow, outcome>>
       \/ Answers(i, event) /\ pc = "answer" /\ Answered(event.kind)
       \/ /\ event.kind = "endpoint" => ~Heard(i)
          /\ Answers(i, event) => pc # "answer"
          /\ waiting' = IF Answers(i, event) THEN event.kind ELSE waiting
          /\ UNCHANGED <<pc, stage, attempt, open, inbox, sent, outcome>>
          /\ UNCHANGED link
    /\ UNCHANGED <<transport, child, ran>>

\* The stream ends: consume only remembers it, and who waits goes on waiting.
SseEnds ==
    /\ transport = "sse" /\ pc # "done" /\ flow[open] = "live"
    /\ flow' = [flow EXCEPT ![open] = "done"]
    /\ UNCHANGED <<transport, pc, stage, attempt, open, endpoint, stream, waiting, sent,
                   outcome>>
    /\ UNCHANGED peer

\* The stream breaks, or says what is no JSON-RPC message: failStream rejects who waits
\* for the endpoint and every pending request, also one whose POST is still under way.
SseBreaks ==
    /\ transport = "sse" /\ pc # "done" /\ flow[open] = "live"
    /\ \E error \in {"retryable", "fatal"} :
       IF pc = "endpoint" \/ (pc = "answer" /\ waiting = "open")
       THEN Fails(error)
       ELSE /\ flow' = [flow EXCEPT ![open] = "closed"]
            /\ waiting' = IF waiting = "open" THEN error ELSE waiting
            /\ UNCHANGED <<pc, stage, attempt, open, endpoint, sent, outcome>>
    /\ UNCHANGED <<transport, stream>> /\ UNCHANGED peer

\* The POST is answered with 200 or 202; only now request() awaits its own entry.
SsePosted ==
    /\ transport = "sse" /\ pc = "post"
    /\ CASE stage = "notify" ->
              /\ Sends(attempt, open, "call")
              /\ UNCHANGED <<attempt, open, outcome>> /\ UNCHANGED link
         [] stage # "notify" /\ waiting = "open" ->
              /\ pc' = "answer"
              /\ UNCHANGED <<stage, attempt, open, waiting, inbox, sent, outcome>>
              /\ UNCHANGED link
         [] OTHER -> Answered(waiting)
    /\ UNCHANGED <<transport, stream, child, ran>>

\* It is refused, or the network fails: the entry is deleted, whatever it holds. The
\* server may have got the request all the same.
SsePostFails ==
    /\ transport = "sse" /\ pc = "post"
    /\ \E error \in {"retryable", "fatal"} : Fails(error)
    /\ inbox' \in {inbox, {r \in inbox : r.attempt # attempt \/ r.stage # stage}}
    /\ UNCHANGED <<transport, stream, child, ran>>
-----------------------------------------------------------------------------
(* stdio: a child that reads requests and writes answers. *)

\* start() throws before there is a child, which withStdioProcess then need not stop.
SpawnFails ==
    /\ transport = "stdio" /\ pc = "backoff"
    /\ pc' = "done" /\ attempt' = attempt + 1 /\ outcome' = "failed"
    /\ UNCHANGED <<transport, stage, open, endpoint, stream, flow, waiting, child, inbox,
                   sent, ran>>

\* handleMessage. What cannot be read rejects the request and kills the child; stop()
\* kills it too, when the answer was that of the call.
StdioMessage ==
    /\ transport = "stdio" /\ pc = "answer" /\ stream[0] # <<>>
    /\ LET event == Head(stream[0]) IN
       /\ Answered(IF event.kind = "unparsable" THEN "fatal" ELSE event.kind)
       /\ child' = IF child = "exited" \/ (event.kind = "result" /\ stage = "initialize")
                   THEN child ELSE "killed"
    /\ stream' = [stream EXCEPT ![0] = Tail(@)]
    /\ UNCHANGED <<transport, ran>>

\* The child is gone. What it wrote last may still be unread, and is then lost.
ChildExits ==
    /\ child \in {"running", "killed"}
    /\ child' = "exited"
    /\ IF pc = "answer"
       THEN Fails("fatal")
       ELSE UNCHANGED <<pc, stage, attempt, open, waiting, sent, outcome>> /\ UNCHANGED link
    /\ UNCHANGED <<transport, stream, inbox, ran>>

\* stop() awaits the exit of the child it killed.
Stopped ==
    /\ pc = "stopping" /\ child = "exited"
    /\ pc' = "done"
    /\ UNCHANGED <<transport, stage, attempt, open, stream, waiting, sent, outcome>>
    /\ UNCHANGED link /\ UNCHANGED peer

\* Mutant: an answer over SSE is awaited without withTimeout.
AnswerTimeoutOfChild ==
    /\ pc = "answer"
    /\ IF transport = "stdio"
       THEN /\ Fails("retryable")
            /\ child' = IF child = "running" THEN "killed" ELSE child
            /\ UNCHANGED <<transport, stream, inbox, ran>>
       ELSE UNCHANGED vars

\* request()'s timer over stdio, withTimeout over SSE.
AnswerTimeout ==
    /\ pc = "answer"
    /\ Fails("retryable")
    /\ child' = IF child = "running" THEN "killed" ELSE child
    /\ UNCHANGED <<transport, stream, inbox, ran>>
-----------------------------------------------------------------------------
(* The server. *)

ReplyTo(r, reply) ==
    IF r.attempt = attempt /\ flow[r.open] = "live"
    THEN [stream EXCEPT ![r.open] = Append(@, [kind |-> reply, stage |-> r.stage])]
    ELSE stream

\* It takes a request and may run the tool, answer, do both or do neither.
Serve ==
    \E r \in inbox, runs \in BOOLEAN, reply \in Replies \cup {"silence"} :
        /\ transport = "stdio" => child # "exited"
        /\ reply \in {"status", "malformed", "accepted"} => transport = "http"
        /\ reply = "unparsable" => transport # "sse"
        /\ runs => r.stage = "call"
        /\ reply = "result" => (r.stage = "call" => runs)
        /\ r.stage = "notify" => reply \in {"accepted", "status", "silence"}
        /\ inbox' = inbox \ {r}
        /\ ran' = IF runs THEN ran \cup {r.number} ELSE ran
        /\ stream' = IF reply = "silence" THEN stream ELSE ReplyTo(r, reply)
        /\ UNCHANGED <<transport, pc, stage, attempt, open, endpoint, flow, waiting, child,
                       sent, outcome>>
-----------------------------------------------------------------------------
Http == HttpHeaders \/ HttpBody \/ HttpAbort \/ HttpBreaks
Sse == SseGet \/ SseReopen \/ EndpointTimeout \/ (\E i \in Opens : SseEvent(i))
       \/ SseEnds \/ SseBreaks \/ SsePosted \/ SsePostFails
Stdio == SpawnFails \/ StdioMessage \/ ChildExits \/ Stopped

Done == pc = "done" /\ UNCHANGED vars

Next == Connect \/ Http \/ Sse \/ Stdio \/ AnswerTimeout \/ Serve \/ Done

Spec == Init /\ [][Next]_vars

\* Only what the client's own timers do is taken for granted: the start of the call and
\* the two waits between attempts, and the three timeouts.
FairSpec ==
    /\ Spec
    /\ WF_vars(Connect) /\ WF_vars(SseReopen) /\ WF_vars(Stopped)
    /\ WF_vars(HttpAbort) /\ WF_vars(EndpointTimeout) /\ WF_vars(AnswerTimeout)
-----------------------------------------------------------------------------
\* Every variable keeps its type.
TypeOK ==
    /\ transport \in Transports /\ pc \in Awaits /\ stage \in Stages
    /\ attempt \in 0..MaxAttempts /\ open \in Opens /\ endpoint \in Opens
    /\ stream \in [Opens -> Seq(Messages)]
    /\ flow \in [Opens -> {"none", "live", "done", "closed"}]
    /\ waiting \in Settled
    /\ child \in {"none", "running", "killed", "exited"}
    /\ inbox \subseteq Requests
    /\ ran \subseteq Attempts /\ sent \in 0..MaxAttempts
    /\ outcome \in {"none", "result", "error", "empty", "failed"}

\* The connection that is open is the call's only one: posts go to the endpoint that the
\* open stream announced, no other stream is read, and a call that has ended has left
\* neither a stream nor a child behind.
OneConnection ==
    /\ endpoint \in {0, open}
    /\ transport = "sse" /\ pc \in {"post", "answer"} => endpoint = open
    /\ \A i \in Opens : flow[i] \in {"live", "done"} => i = open
    /\ pc = "done" => child \in {"none", "exited"} /\ \A i \in Opens : flow[i] # "live"

\* Whatever the transport does, the call is one retried call: it returns only what the
\* server said of the last time it was sent, and sends nothing once it has ended.
R == INSTANCE RetriedCall WITH MaxSends <- MaxAttempts, run <- ran
ImplementsRetriedCall == R!Spec

\* The awaits no timer of the client guards: the GET and the POST of SSE, the body of an
\* HTTP answer, and the exit of a child that was killed.
Unguarded == pc \in {"get", "body", "stopping"} \/ (pc = "post" /\ transport = "sse")

\* A call ends, or hangs for ever in one of those, and in no other: no timeout is lost
\* between two streams, two attempts or a request and its answer.
HangsOnlyUnguarded == <>(pc = "done") \/ <>[]Unguarded

\* sse.client.ts says it does not retry what "already has a semantic result", so as not
\* to run the tool again. It does, when the POST fails after its answer has come.
NoAnswerIsRepeated ==
    [][stage = "call" /\ waiting \in {"result", "error"} => pc' # "backoff"]_vars
=============================================================================
