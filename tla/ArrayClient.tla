---------------------------- MODULE ArrayClient ----------------------------
(***************************************************************************)
(* Client.do: one request to the array, with its session, its retries and  *)
(* whatever the network makes of them.  Calls of several goroutines share  *)
(* the session token.                                                      *)
(*                                                                         *)
(* A request that was sent stays on its way until the array handles it,    *)
(* although the caller may have stopped waiting for it and sent it again;  *)
(* one that gets lost is one the array never handles.                      *)
(***************************************************************************)
EXTENDS Naturals

CONSTANTS
    Calls,
    Posts,        \* the calls whose method is POST
    MaxAttempts,
    MaxLogins     \* bound: how many sessions the array opens

ASSUME ClientAssumption ==
    /\ Posts \subseteq Calls
    /\ MaxAttempts \in Nat \ {0}
    /\ MaxLogins \in Nat

VARIABLES
    call,       \* each call, and how far it got
    net,        \* its requests that are on their way to the array
    carried,    \* how often the array carried it out
    authToken,  \* c.authToken; 0 is no token
    logins,     \* how many sessions the array has opened
    valid,      \* the sessions that have not ended
    upset       \* history: how often the session was taken from under the call

vars == <<call, net, carried, authToken, logins, valid, upset>>

Tokens == 0..MaxLogins
Codes == {"ok", "missing", "refused", "unauthorized", "busy", "failed"}

\* attempt is do's loop variable; a 401 does not count against MaxAttempts.
\* code: the last answer, transport errors being "failed" ones.
CallStates ==
    [pc : {"idle", "token", "login", "reread", "wait", "answer", "backoff", "done"},
     attempt : 1..MaxAttempts + 1, reauthed : BOOLEAN, code : Codes,
     result : {"none", "ok", "missing", "refused", "unauthorized", "busy", "unknown"}]

Idle == [pc |-> "idle", attempt |-> 1, reauthed |-> FALSE, code |-> "ok", result |-> "none"]

Messages == [n : 1..MaxAttempts + 1, tok : Tokens]

TypeOK ==
    /\ call \in [Calls -> CallStates]
    /\ net \in [Calls -> SUBSET Messages]
    /\ carried \in [Calls -> Nat]
    /\ authToken \in Tokens
    /\ logins \in Tokens
    /\ valid \subseteq Tokens \ {0}
    /\ upset \in [Calls -> 0..2]

Init ==
    /\ call = [c \in Calls |-> Idle]
    /\ net = [c \in Calls |-> {}]
    /\ carried = [c \in Calls |-> 0]
    /\ authToken = 0
    /\ logins = 0
    /\ valid = {}
    /\ upset = [c \in Calls |-> 0]

At(c, step) == call[c].pc = step
Goto(c, step) == call' = [call EXCEPT ![c].pc = step]
End(c, result) == call' = [call EXCEPT ![c] = [Idle EXCEPT !.pc = "done", !.result = result]]

Running(c) == call[c].pc \notin {"idle", "done"}

\* The calls in S had their session taken.
Upset(S) == upset' = [c \in Calls |-> IF c \in S /\ upset[c] < 2 THEN upset[c] + 1 ELSE upset[c]]

session == <<authToken, logins, valid>>

(***************************************************************************)
(* One turn of the loop.                                                    *)
(***************************************************************************)

Begin(c) ==
    /\ At(c, "idle")
    /\ Goto(c, "token")
    /\ Upset(IF authToken \notin valid \union {0} THEN {c} ELSE {})
    /\ UNCHANGED <<net, carried, session>>

Send(c) ==
    /\ Goto(c, "wait")
    /\ net' = [net EXCEPT ![c] = @ \union {[n |-> call[c].attempt, tok |-> authToken]}]
    /\ UNCHANGED <<carried, session, upset>>

SendWithToken(c) == At(c, "token") /\ authToken # 0 /\ Send(c)

NeedsLogin(c) ==
    /\ At(c, "token") /\ authToken = 0
    /\ Goto(c, "login")
    /\ UNCHANGED <<net, carried, session, upset>>

\* login stores the new token; do reads c.authToken once more before it sends,
\* and does not look whether it has been emptied in between.
Login(c) ==
    /\ At(c, "login") /\ logins < MaxLogins
    /\ logins' = logins + 1
    /\ valid' = valid \union {logins + 1}
    /\ authToken' = logins + 1
    /\ Goto(c, "reread")
    /\ UNCHANGED <<net, carried, upset>>

LoginFails(c) ==
    /\ At(c, "login")
    /\ End(c, "refused")
    /\ UNCHANGED <<net, carried, session, upset>>

SendAfterLogin(c) == At(c, "reread") /\ Send(c)

(***************************************************************************)
(* The network and the array.                                               *)
(***************************************************************************)

\* What was carried out may still be answered with an error, and what was
\* answered "ok" has been carried out.
Effect(code, did) == IF code = "failed" THEN did \in BOOLEAN ELSE did = (code = "ok")

\* The array handles request m, sooner or later or never; the answer reaches
\* the call if it still waits for this request, or is lost.
Handle(c, m) ==
    /\ m \in net[c]
    /\ net' = [net EXCEPT ![c] = @ \ {m}]
    /\ \E code \in Codes, did \in BOOLEAN :
        /\ (code = "unauthorized") = (m.tok \notin valid)
        /\ Effect(code, did)
        /\ carried' = IF did THEN [carried EXCEPT ![c] = @ + 1] ELSE carried
        /\ \/ UNCHANGED call
           \/ /\ At(c, "wait") /\ call[c].attempt = m.n
              /\ call' = [call EXCEPT ![c].pc = "answer", ![c].code = code]
    /\ UNCHANGED <<session, upset>>

\* A session idles out, or is ended at the array.
Expire(t) ==
    /\ t \in valid
    /\ valid' = valid \ {t}
    /\ Upset({c \in Calls : Running(c) /\ (t = authToken \/ \E m \in net[c] : m.tok = t)})
    /\ UNCHANGED <<call, net, carried, authToken, logins>>

(***************************************************************************)
(* What do makes of the answer.                                             *)
(***************************************************************************)

\* Mutant: one attempt too many.
MayRetryOnceMore(c) == call[c].attempt <= MaxAttempts

MayRetry(c) == call[c].attempt < MaxAttempts

\* http.Do fails: the client's timeout, a broken connection, or the caller's
\* context, after which nothing is tried again.
TransportError(c) ==
    /\ At(c, "wait")
    /\ \/ /\ c \notin Posts /\ MayRetry(c)
          /\ call' = [call EXCEPT ![c].pc = "backoff", ![c].code = "failed"]
       \/ End(c, "unknown")
    /\ UNCHANGED <<net, carried, session, upset>>

\* Mutant: every 401 starts over.
UnauthorizedAgain(c) ==
    /\ At(c, "answer") /\ call[c].code = "unauthorized"
    /\ authToken' = 0
    /\ call' = [call EXCEPT ![c].pc = "token", ![c].code = "ok",
                              ![c].reauthed = TRUE, ![c].attempt = @ + 1]
    /\ Upset(IF authToken \in valid THEN {d \in Calls \ {c} : Running(d)} ELSE {})
    /\ UNCHANGED <<net, carried, logins, valid>>

\* Mutant: the token that was refused is used again.
UnauthorizedKeepsToken(c) ==
    /\ At(c, "answer") /\ call[c].code = "unauthorized" /\ ~call[c].reauthed
    /\ call' = [call EXCEPT ![c].pc = "token", ![c].code = "ok",
                              ![c].reauthed = TRUE, ![c].attempt = @ + 1]
    /\ Upset(IF authToken \in valid THEN {d \in Calls \ {c} : Running(d)} ELSE {})
    /\ UNCHANGED <<net, carried, session>>

\* The first 401 empties the token, whoever has set it since this was sent.
Unauthorized(c) ==
    /\ At(c, "answer") /\ call[c].code = "unauthorized" /\ ~call[c].reauthed
    /\ authToken' = 0
    /\ call' = [call EXCEPT ![c].pc = "token", ![c].code = "ok",
                              ![c].reauthed = TRUE, ![c].attempt = @ + 1]
    /\ Upset(IF authToken \in valid THEN {d \in Calls \ {c} : Running(d)} ELSE {})
    /\ UNCHANGED <<net, carried, logins, valid>>

\* Mutant: a POST answered with a 5xx is sent again.
RetryableAnyMethod(c) == call[c].code = "busy" \/ call[c].code = "failed"

Retryable(c) == call[c].code = "busy" \/ (call[c].code = "failed" /\ c \notin Posts)

Retry(c) ==
    /\ At(c, "answer") /\ Retryable(c) /\ MayRetry(c)
    /\ Goto(c, "backoff")
    /\ UNCHANGED <<net, carried, session, upset>>

\* Mutant: attempts are not counted.
BackoffOverUncounted(c) ==
    /\ At(c, "backoff")
    /\ call' = [call EXCEPT ![c].pc = "token", ![c].code = "ok"]
    /\ UNCHANGED <<net, carried, session, upset>>

BackoffOver(c) ==
    /\ At(c, "backoff")
    /\ call' = [call EXCEPT ![c].pc = "token", ![c].code = "ok", ![c].attempt = @ + 1]
    /\ UNCHANGED <<net, carried, session, upset>>

\* The caller's context ends first.
BackoffCut(c) ==
    /\ At(c, "backoff")
    /\ End(c, IF call[c].code = "busy" THEN "busy" ELSE "unknown")
    /\ UNCHANGED <<net, carried, session, upset>>

\* An "ok" whose body cannot be decoded is an error to the caller.
Finish(c) ==
    /\ At(c, "answer")
    /\ ~(call[c].code = "unauthorized" /\ ~call[c].reauthed)
    /\ ~(Retryable(c) /\ MayRetry(c))
    /\ \/ End(c, IF call[c].code = "failed" THEN "unknown" ELSE call[c].code)
       \/ call[c].code = "ok" /\ End(c, "unknown")
    /\ UNCHANGED <<net, carried, session, upset>>

Step(c) ==
    \/ SendWithToken(c) \/ NeedsLogin(c) \/ Login(c) \/ LoginFails(c) \/ SendAfterLogin(c)
    \/ TransportError(c) \/ Unauthorized(c) \/ Retry(c) \/ BackoffOver(c) \/ BackoffCut(c)
    \/ Finish(c)

Next ==
    \/ \E c \in Calls :
        \/ Begin(c) \/ Step(c)
        \/ \E m \in net[c] : Handle(c, m)
    \/ \E t \in valid : Expire(t)

Spec == Init /\ [][Next]_vars

\* A call goes on by itself: its waits end with an answer, the HTTP client's
\* timeout, or the caller's context.
Fairness == \A c \in Calls : WF_vars(Step(c))

FairSpec == Spec /\ Fairness

(***************************************************************************)
(* Properties.                                                              *)
(***************************************************************************)

\* What the caller knows, in the contract's terms.
ToldBy(c) ==
    CASE At(c, "idle") -> "idle"
      [] At(c, "done") /\ call[c].result = "ok" -> "ok"
      [] At(c, "done") /\ call[c].result = "unknown" -> "unknown"
      [] At(c, "done") /\ call[c].result \notin {"ok", "unknown"} -> "refused"
      [] OTHER -> "asked"

Contract == INSTANCE ArrayCall WITH told <- [c \in Calls |-> ToldBy(c)], done <- carried

\* do keeps the contract of ArrayCall: a POST is carried out once at most
\* although 429 and 401 are tried again, what was answered "ok" was carried
\* out, and a POST that was refused has not been and never will be.
KeepsContract == Contract!Spec

\* Retries are bounded: maxAttempts requests, and one more after a 401.  Until
\* then every request has a number of its own.
RequestsBounded ==
    \A c \in {d \in Calls : Running(d)} :
        /\ call[c].attempt <= IF call[c].reauthed THEN MaxAttempts + 1 ELSE MaxAttempts
        /\ \A m \in net[c] : m.n <= call[c].attempt

\* A caller is told 401 only if two sessions ended under it, or one did and
\* another call threw a good one away.
UnauthorizedHasCause ==
    \A c \in Calls : At(c, "done") /\ call[c].result = "unauthorized" => upset[c] = 2

\* Every call comes to an end (whatever the array and the network do).
CallsEnd == \A c \in Calls : Running(c) ~> At(c, "done")

(***************************************************************************)
(* What makes them inductive.                                               *)
(***************************************************************************)

\* The requests of a call that have a number: none before it begins, and until
\* it sends again only those of earlier attempts.
Numbered(c) ==
    /\ call[c].attempt <= IF call[c].reauthed THEN MaxAttempts + 1 ELSE MaxAttempts
    /\ At(c, "backoff") => MayRetry(c)
    /\ At(c, "idle") => call[c] = Idle /\ net[c] = {} /\ carried[c] = 0
    /\ \A m \in net[c] :
        /\ Running(c) => m.n <= call[c].attempt
        /\ call[c].pc \in {"token", "login", "reread"} => m.n < call[c].attempt

\* A POST has at most one request on its way, which the array has not handled
\* yet and which only a call that waits, or that gave up waiting, has left
\* there.  Unless it was carried out the caller was not told so.
Effects(c) ==
    /\ At(c, "answer") /\ call[c].code = "ok" => carried[c] > 0
    /\ At(c, "done") /\ call[c].result = "ok" => carried[c] > 0
    /\ At(c, "backoff") => call[c].code = "busy" \/ (call[c].code = "failed" /\ c \notin Posts)
    /\ c \in Posts =>
        /\ net[c] # {} => carried[c] = 0 /\ (At(c, "wait") \/ (At(c, "done") /\ call[c].result = "unknown"))
        /\ \A m1, m2 \in net[c] : m1 = m2
        /\ call[c].pc \in {"token", "login", "reread", "backoff"} => carried[c] = 0
        /\ At(c, "answer") /\ call[c].code \notin {"ok", "failed"} => carried[c] = 0
        /\ At(c, "done") /\ call[c].result \notin {"ok", "unknown"} => carried[c] = 0

Bad == authToken \notin valid \union {0}

\* The session was taken from under a call once for its first 401, and once
\* more if it has, or will use, or has just used a token that is no good.
Sessions(c) ==
    LET once == IF call[c].reauthed THEN 1 ELSE 0
    IN /\ Running(c) =>
            /\ upset[c] >= once
            /\ Bad => upset[c] > once
            /\ At(c, "reread") /\ authToken \notin valid => upset[c] > once
            /\ At(c, "answer") /\ call[c].code = "unauthorized" => upset[c] > once
            /\ At(c, "wait") =>
                    \A m \in net[c] :
                        m.n = call[c].attempt /\ m.tok \notin valid => upset[c] > once
       /\ At(c, "done") /\ call[c].result = "unauthorized" => upset[c] = 2

IInv == TypeOK /\ \A c \in Calls : Numbered(c) /\ Effects(c) /\ Sessions(c)
=============================================================================
