------------------------------ MODULE HttpAgent ------------------------------
(***************************************************************************)
(* http::Agent (http/Agent.cpp), the client of a node's API that a wallet  *)
(* uses: one connection, one outstanding request, a retry timer.  Messages *)
(* are whole (see HttpServer and HttpText for bytes and text).             *)
(***************************************************************************)
EXTENDS Integers, Sequences

CONSTANTS Request,    \* the Request objects its owner makes
          None,
          Timeout,    \* REQUEST_TIMEOUT, in waits of the retry timer (30 s / 10 s)
          MaxLosses   \* bound: connections that are lost

VARIABLES sent_request,
          elapsed,         \* time since request_start, capped at Timeout + 1
          open,            \* client.is_open()
          waiting_write_response,
          reconnect_timer, \* BOOLEAN: it is set
          wire,            \* on this connection, what the server has not read
          coming,          \* on this connection, answers not yet read
          outcome,         \* what the owner was told about each request: a sequence
          executed,        \* ghost: requests the server has executed
          wrongWrite,      \* ghost: "Client unexpected write" failed
          losses

vars == <<sent_request, elapsed, open, waiting_write_response, reconnect_timer, wire, coming,
          outcome, executed, wrongWrite, losses>>

connection == <<open, waiting_write_response, wire, coming, wrongWrite>>

Made == DOMAIN outcome

Init ==
    /\ sent_request = None
    /\ elapsed = 0
    /\ open = FALSE /\ waiting_write_response = FALSE /\ wire = <<>> /\ coming = <<>>
    /\ reconnect_timer = FALSE
    /\ outcome = [r \in {} |-> <<>>]
    /\ executed = {}
    /\ wrongWrite = FALSE
    /\ losses = 0

(***************************************************************************)
(* Connection                                                              *)
(***************************************************************************)
\* clear(): also what was on its way is lost
clear ==
    /\ open' = FALSE
    /\ waiting_write_response' = FALSE
    /\ wire' = <<>> /\ coming' = <<>>

\* connect() if the socket is not open, which may fail, then write(request)
connect_fails ==
    /\ ~open
    /\ reconnect_timer' = TRUE
    /\ clear
    /\ UNCHANGED wrongWrite

connect_and_write(r) ==
    /\ wrongWrite' = (wrongWrite \/ (open /\ ~waiting_write_response))
    /\ open' = TRUE
    /\ waiting_write_response' = FALSE
    /\ wire' = Append(wire, r)
    /\ UNCHANGED coming

(***************************************************************************)
(* Agent                                                                   *)
(***************************************************************************)
\* set_request: the owner makes a request when the last one is answered,
\* has failed or was destroyed
set_request(r) ==
    /\ sent_request = None
    /\ r \notin Made
    /\ sent_request' = r
    /\ outcome' = [q \in Made \cup {r} |-> IF q = r THEN <<>> ELSE outcome[q]]
    /\ elapsed' = 0
    /\ \/ connect_fails
       \/ connect_and_write(r) /\ UNCHANGED reconnect_timer
    /\ UNCHANGED <<executed, losses>>

\* cancel_request: the owner destroys the request that is outstanding
\* (A faulty variant keeps the connection and the answer under way.)
cancel_request_keeps(r) ==
    /\ sent_request = r /\ r # None
    /\ sent_request' = None
    /\ waiting_write_response' = TRUE
    /\ reconnect_timer' = FALSE
    /\ outcome' = [outcome EXCEPT ![r] = Append(@, "cancelled")]
    /\ UNCHANGED <<elapsed, open, wire, coming, executed, wrongWrite, losses>>

cancel_request(r) ==
    /\ sent_request = r /\ r # None
    /\ sent_request' = None
    /\ clear
    /\ reconnect_timer' = FALSE
    /\ outcome' = [outcome EXCEPT ![r] = Append(@, "cancelled")]
    /\ UNCHANGED <<elapsed, executed, wrongWrite, losses>>

\* on_client_response, after read_next: the handler of the outstanding request
\* is called; it is told the request that the server answered
on_client_response ==
    /\ open /\ ~waiting_write_response
    /\ coming # <<>>
    /\ waiting_write_response' = TRUE
    /\ coming' = Tail(coming)
    /\ sent_request' = None
    /\ outcome' = IF sent_request = None THEN outcome
                  ELSE [outcome EXCEPT ![sent_request] = Append(@, Head(coming))]
    /\ UNCHANGED <<elapsed, open, wire, reconnect_timer, executed, wrongWrite, losses>>

\* the connection is lost: on_disconnect, on_client_disconnect
on_client_disconnect ==
    /\ open /\ losses < MaxLosses
    /\ losses' = losses + 1
    /\ clear
    /\ reconnect_timer' = (reconnect_timer \/ sent_request # None)
    /\ UNCHANGED <<sent_request, elapsed, outcome, executed, wrongWrite>>

on_reconnect_timer ==
    /\ reconnect_timer
    /\ elapsed' = IF elapsed > Timeout THEN elapsed ELSE elapsed + 1
    /\ IF sent_request = None
       THEN reconnect_timer' = FALSE /\ UNCHANGED <<connection, sent_request, outcome>>
       ELSE IF elapsed' > Timeout
       THEN /\ reconnect_timer' = FALSE
            /\ sent_request' = None
            /\ outcome' = [outcome EXCEPT ![sent_request] = Append(@, "timeout")]
            /\ UNCHANGED connection
       ELSE /\ connect_fails \/ (connect_and_write(sent_request) /\ reconnect_timer' = FALSE)
            /\ UNCHANGED <<sent_request, outcome>>
    /\ UNCHANGED <<executed, losses>>

(***************************************************************************)
(* The server                                                              *)
(***************************************************************************)
ServerAnswers ==
    /\ wire # <<>>
    /\ executed' = executed \cup {Head(wire)}
    /\ coming' = Append(coming, Head(wire))
    /\ wire' = Tail(wire)
    /\ UNCHANGED <<sent_request, elapsed, open, waiting_write_response, reconnect_timer, outcome,
                   wrongWrite, losses>>

\* all requests were made and settled
Over ==
    /\ Made = Request /\ sent_request = None
    /\ UNCHANGED vars

Next ==
    \/ on_client_response \/ on_client_disconnect \/ on_reconnect_timer \/ ServerAnswers \/ Over
    \/ \E r \in Request : set_request(r) \/ cancel_request(r)

\* The event loop runs; the server answers what it reads (or loses the connection).
Spec == /\ Init /\ [][Next]_vars
        /\ WF_vars(on_client_response) /\ WF_vars(on_reconnect_timer) /\ WF_vars(ServerAnswers)

(***************************************************************************)
(* Properties                                                              *)
(***************************************************************************)
\* Whoever is told an answer is told the answer to its own request, once:
\* neither the answer to a request that was cancelled, nor one to a request
\* that was sent twice, ever reaches another one.
RightAnswer ==
    \A r \in Made :
        /\ Len(outcome[r]) <= 1
        /\ \A k \in 1 .. Len(outcome[r]) : outcome[r][k] \in {r, "timeout", "cancelled"}
        /\ outcome[r] = <<r>> => r \in executed

\* The assertion "Client unexpected write" never fails: a retry never writes
\* into a connection on which the request is already under way.
WriteExpected == ~wrongWrite

\* The retry timer only runs for a request and while the connection is closed
\* (the other case is commented "Should not happen"), and whenever a request is outstanding something is under way that settles it.
SomethingComes ==
    /\ reconnect_timer => ~open /\ sent_request # None
    /\ sent_request # None => \/ reconnect_timer
                              \/ open /\ sent_request \in {wire[k] : k \in 1 .. Len(wire)}
                                                        \cup {coming[k] : k \in 1 .. Len(coming)}

\* Every request is answered, fails or is cancelled.
AllTold == \A r \in Made : outcome[r] # <<>>
Settled == []<>AllTold
=============================================================================
