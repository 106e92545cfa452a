---------------------------- MODULE HermesClient ----------------------------
(***************************************************************************)
(* The Hermes client of src/watchdog/hermes.py, request by request:        *)
(* check_health and restart_gateway with the session cookie they share,    *)
(* the one re-login after a 401, and the poll that follows a restart.      *)
(*                                                                         *)
(* A step is one request and its answer.  Before each, _async_request      *)
(* looks at what is left of the caller's budget; while it is under way,    *)
(* the rest of the budget bounds it, so that it may time out whatever the  *)
(* server did.  The dashboard is free: any request may get any answer.     *)
(***************************************************************************)
EXTENDS Naturals, HealthAnswer

CONSTANTS
  PollAttempts,  \* poll_attempts
  HealthReplies  \* the answers a dashboard may give to a health check

(* What a call raises, by kind: HermesAuthError, HermesHTTPError,          *)
(* HermesTimeoutError, HermesProtocolError, and "crash", an exception that *)
(* is no HermesError (a Location header urlsplit cannot take a port from). *)
HermesErrors == {"auth", "http", "timeout", "protocol"}
Errors == HermesErrors \cup {"crash"}

ASSUME HermesAssumption ==
  /\ PollAttempts \in Nat \ {0}
  /\ HealthReplies \subseteq HealthResult
  /\ \A h \in HealthReplies : h.status_ok  \* _parse_health knows no other
  /\ None \notin HealthReplies /\ None \notin Errors

VARIABLES
  session,  \* the cookie jar holds a session cookie
  expired,  \* deadline.remaining() <= 0
  call,     \* the call in progress, or the answer of the last one
  server    \* history of what the dashboard saw of this client

clientVars == <<session, expired, call, server>>

Calls ==
  [op     : {"health", "restart"},
   pc     : {"idle", "login", "get", "post", "poll", "returned"},
   again  : BOOLEAN,            \* this request was refused with a 401 once
   posted : BOOLEAN,            \* the restart was taken for accepted
   polls  : 0 .. PollAttempts,  \* finished polls
   error  : Errors \cup {None},
   health : HealthReplies \cup {None}]

Server ==
  [performed : Nat,      \* gateway restarts it carried out
   moved     : BOOLEAN,  \* its last answer to the POST was a redirect
   rejected  : Nat,      \* logins it rejected, and the client was told
   unheard   : Nat]      \* logins it rejected, and the answer was lost

ClientTypeOK ==
  /\ session \in BOOLEAN
  /\ expired \in BOOLEAN
  /\ call \in Calls
  /\ server \in Server

Idle ==
  [op |-> "health", pc |-> "idle", again |-> FALSE, posted |-> FALSE,
   polls |-> 0, error |-> None, health |-> None]

ClientInit ==
  /\ session = FALSE
  /\ expired = FALSE
  /\ call = Idle
  /\ server = [performed |-> 0, moved |-> FALSE, rejected |-> 0, unheard |-> 0]

-----------------------------------------------------------------------------
(* _async_ensure_login: where a request starts.                            *)
FirstStage(stage) == IF session THEN stage ELSE "login"

(* The request the client wants to make once it is logged in.              *)
Wanted == IF call.op = "restart" /\ ~call.posted THEN "post" ELSE "get"

Call(op) ==
  /\ call.pc = "idle"
  /\ call' = [Idle EXCEPT !.op = op,
                          !.pc = FirstStage(IF op = "restart" THEN "post" ELSE "get")]
  /\ UNCHANGED <<session, expired, server>>

Return(error, health) ==
  call' = [call EXCEPT !.pc = "returned", !.error = error, !.health = health]

(* A poll is over without the gateway having been seen to run.             *)
NextPoll ==
  call' = [call EXCEPT !.pc = "poll", !.polls = call.polls + 1]

(* An exception: a poll swallows it, anything else lets it through.        *)
Fail(e) ==
  IF call.posted /\ e \in HermesErrors THEN NextPoll ELSE Return(e, None)

(* A request without an answer the client goes on with.                    *)
Lost == IF expired THEN {"timeout"} ELSE {"http", "timeout", "protocol", "crash"}

-----------------------------------------------------------------------------
(* _async_login clears the jar before it asks; an answer, also one that is *)
(* no success, may set a session cookie.                                   *)

LoginSucceeds ==
  /\ call.pc = "login" /\ ~expired
  /\ session' = TRUE
  /\ call' = [call EXCEPT !.pc = Wanted]
  /\ UNCHANGED <<expired, server>>

LoginRejected ==
  /\ call.pc = "login" /\ ~expired
  /\ session' \in BOOLEAN
  /\ server' = [server EXCEPT !.rejected = @ + 1]
  /\ Fail("auth")
  /\ UNCHANGED expired

(* Refused for want of budget, or sent and its answer lost: the dashboard  *)
(* may have rejected it.                                                   *)
LoginFails ==
  /\ call.pc = "login"
  /\ session' \in IF expired THEN {FALSE} ELSE BOOLEAN
  /\ \/ UNCHANGED server
     \/ ~expired /\ server' = [server EXCEPT !.unheard = @ + 1]
  /\ \E e \in Lost : Fail(e)
  /\ UNCHANGED expired

-----------------------------------------------------------------------------
(* _async_status and _parse_health.                                        *)

Answered ==
  /\ call.pc = "get" /\ ~expired
  /\ \E h \in HealthReplies :
       IF call.op = "health" \/ Healthy(h) THEN Return(None, h) ELSE NextPoll
  /\ UNCHANGED <<session, expired, server>>

(* Mutant: every 401 is answered with a login.                             *)
LoginEachTime(e) == call' = [call EXCEPT !.pc = "login", !.again = FALSE]

(* A 401: log in again, once.                                              *)
LoginOnce(e) ==
  IF call.again THEN Fail(e)
  ELSE call' = [call EXCEPT !.pc = "login", !.again = TRUE]

GetUnauthorized ==
  /\ call.pc = "get" /\ ~expired
  /\ LoginOnce("auth")
  /\ UNCHANGED <<session, expired, server>>

GetFails ==
  /\ call.pc = "get"
  /\ \E e \in Lost : Fail(e)
  /\ UNCHANGED <<session, expired, server>>

-----------------------------------------------------------------------------
(* _async_post_restart.                                                    *)

Accept == call' = [call EXCEPT !.pc = "poll", !.posted = TRUE]

(* Below 400 and no body that says it failed.                              *)
PostAccepted ==
  /\ call.pc = "post" /\ ~expired
  /\ server' = [server EXCEPT !.performed = @ + 1, !.moved = FALSE]
  /\ Accept
  /\ UNCHANGED <<session, expired>>

(* A redirect within the origin is below 400, too.                         *)
PostRedirected ==
  /\ call.pc = "post" /\ ~expired
  /\ server' = [server EXCEPT !.moved = TRUE]
  /\ Accept
  /\ UNCHANGED <<session, expired>>

PostUnauthorized ==
  /\ call.pc = "post" /\ ~expired
  /\ LoginOnce("http")
  /\ UNCHANGED <<session, expired, server>>

(* Mutant: a restart whose answer got lost is asked for again.             *)
RetryPost ==
  /\ call.pc = "post"
  /\ server' \in {server, [server EXCEPT !.performed = @ + 1]}
  /\ IF call.again \/ expired THEN Return("timeout", None)
     ELSE call' = [call EXCEPT !.again = TRUE]
  /\ UNCHANGED <<session, expired>>

(* Mutant: a restart whose answer got lost is taken for accepted.          *)
AssumePosted ==
  /\ call.pc = "post"
  /\ Accept
  /\ UNCHANGED <<session, expired, server>>

(* Refused for want of budget, or sent: then nobody knows what became of   *)
(* it.                                                                     *)
PostFails ==
  /\ call.pc = "post"
  /\ \/ UNCHANGED server
     \/ ~expired /\ server' = [server EXCEPT !.performed = @ + 1]
  /\ \E e \in Lost : Return(e, None)
  /\ UNCHANGED <<session, expired>>

-----------------------------------------------------------------------------
(* _async_poll: each poll is a status request with its own re-login.       *)

Poll ==
  /\ call.pc = "poll"
  /\ call.polls < PollAttempts /\ ~expired
  /\ call' = [call EXCEPT !.pc = FirstStage("get"), !.again = FALSE]
  /\ UNCHANGED <<session, expired, server>>

PollsEnd ==
  /\ call.pc = "poll"
  /\ call.polls = PollAttempts \/ expired
  /\ Return("timeout", None)
  /\ UNCHANGED <<session, expired, server>>

-----------------------------------------------------------------------------
ClientStep ==
  \/ LoginSucceeds \/ LoginRejected \/ LoginFails
  \/ Answered \/ GetUnauthorized \/ GetFails
  \/ PostAccepted \/ PostRedirected \/ PostUnauthorized \/ PostFails
  \/ Poll \/ PollsEnd
=============================================================================
