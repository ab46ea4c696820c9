------------------------------ MODULE RetriedCall ------------------------------
(* What callMcpTool promises its caller, whatever the transport: a tool call is sent a
   bounded number of times, the server runs it at most once per time it was sent, and
   the call ends once. A result is the result of the last time it was sent, and nothing
   is sent after the end - in particular not after the server has answered. A request
   that is under way when the call ends may still be run. *)
EXTENDS Integers

CONSTANT MaxSends   \* how often the transport may send a call: 1 (stdio) or 2

VARIABLES
    sent,       \* how often the call was sent
    run,        \* which of those the server has run
    outcome     \* "none" as long as the call goes on

vars == <<sent, run, outcome>>

Init == sent = 0 /\ run = {} /\ outcome = "none"

Send ==
    /\ outcome = "none" /\ sent < MaxSends
    /\ sent' = sent + 1 /\ UNCHANGED <<run, outcome>>

Run(n) ==
    /\ n \in 1..sent \ run
    /\ run' = run \cup {n} /\ UNCHANGED <<sent, outcome>>

\* "empty" is the result of a server that only acknowledged the request.
Finish(o) ==
    /\ outcome = "none"
    /\ o = "result" => sent \in run
    /\ o \in {"error", "empty"} => sent > 0
    /\ outcome' = o /\ UNCHANGED <<sent, run>>

Next == Send \/ (\E n \in 1..MaxSends : Run(n))
             \/ (\E o \in {"result", "error", "empty", "failed"} : Finish(o))

Spec == Init /\ [][Next]_vars
=============================================================================
