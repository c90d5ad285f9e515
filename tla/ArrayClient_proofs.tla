------------------------- MODULE ArrayClient_proofs -------------------------
(***************************************************************************)
(* What ArrayClient promises for any number of calls, attempts and         *)
(* sessions.                                                               *)
(*                                                                         *)
(* IInv is inductive: TypeOK and Numbered together (TypeStep), then        *)
(* Effects given those (EffectsStep) and Sessions given those              *)
(* (SessionsStep).  Effects carries the refinement: every step of          *)
(* ArrayClient is a step of ArrayCall or changes nothing there             *)
(* (ContractStep).                                                         *)
(***************************************************************************)
EXTENDS ArrayClient, TLAPS

\* A call that goes on keeps its number and its record; one that ends takes up
\* those of an idle one.
LEMMA CallMoves ==
    ASSUME NEW cs \in CallStates
    PROVE  /\ Idle \in CallStates
           /\ \A p \in {"idle", "token", "login", "reread", "wait", "answer", "backoff", "done"} :
                [cs EXCEPT !.pc = p] \in CallStates
           /\ \A r \in {"none", "ok", "missing", "refused", "unauthorized", "busy", "unknown"} :
                [Idle EXCEPT !.pc = "done", !.result = r] \in CallStates
<1>1. 1 \in 1..MaxAttempts + 1
  BY ClientAssumption
<1>2. Idle \in CallStates
  BY <1>1 DEF CallStates, Idle, Codes
<1>3. \A p \in {"idle", "token", "login", "reread", "wait", "answer", "backoff", "done"} :
        [cs EXCEPT !.pc = p] \in CallStates
  BY DEF CallStates
<1>4. \A r \in {"none", "ok", "missing", "refused", "unauthorized", "busy", "unknown"} :
        [Idle EXCEPT !.pc = "done", !.result = r] \in CallStates
  BY <1>1 DEF CallStates, Idle, Codes
<1> QED BY <1>2, <1>3, <1>4

\* Every step keeps every variable in its type and the requests in order: the
\* number of attempts is bounded because only the first 401 is not counted.
THEOREM TypeStep ==
    TypeOK /\ (\A c \in Calls : Numbered(c)) /\ [Next]_vars
        => TypeOK' /\ \A c \in Calls : Numbered(c)'
<1> SUFFICES ASSUME TypeOK, \A c \in Calls : Numbered(c), [Next]_vars
             PROVE  TypeOK' /\ \A c \in Calls : Numbered(c)'
  OBVIOUS
<1> USE ClientAssumption DEF vars, session
<1>0. call \in [Calls -> CallStates]
  BY DEF TypeOK
<1>1. ASSUME NEW c \in Calls, Begin(c) PROVE TypeOK' /\ \A d \in Calls : Numbered(d)'
  <2>1. call' = [call EXCEPT ![c].pc = "token"] /\ call[c] = Idle /\ net[c] = {}
    BY <1>1 DEF Begin, Goto, At, Numbered
  <2>2. call' \in [Calls -> CallStates]
    BY <2>1, CallMoves DEF TypeOK
  <2>3. upset' \in [Calls -> 0..2]
    BY <1>1 DEF Begin, Upset, TypeOK
  <2>4. UNCHANGED <<net, carried, session>>
    BY <1>1 DEF Begin
  <2>5. TypeOK'
    BY <2>2, <2>3, <2>4 DEF TypeOK
  <2>6. \A d \in Calls : Numbered(d)'
    BY <2>1, <2>4 DEF Numbered, TypeOK, At, Running, Idle, MayRetry, CallStates
  <2> QED BY <2>5, <2>6
<1>2. ASSUME NEW c \in Calls, call[c].pc \in {"token", "reread"}, Send(c)
      PROVE  TypeOK' /\ \A d \in Calls : Numbered(d)'
  <2>1. call' = [call EXCEPT ![c].pc = "wait"]
    BY <1>2 DEF Send, Goto
  <2>2. call' \in [Calls -> CallStates]
    BY <2>1, CallMoves DEF TypeOK
  <2>3. [n |-> call[c].attempt, tok |-> authToken] \in Messages
    BY DEF TypeOK, CallStates, Messages
  <2>4. net' = [net EXCEPT ![c] = @ \union {[n |-> call[c].attempt, tok |-> authToken]}]
    BY <1>2 DEF Send
  <2>5. net' \in [Calls -> SUBSET Messages]
    BY <2>3, <2>4 DEF TypeOK
  <2>6. UNCHANGED <<carried, session, upset>>
    BY <1>2 DEF Send
  <2>7. TypeOK'
    BY <2>2, <2>5, <2>6 DEF TypeOK
  <2>8. \A d \in Calls : Numbered(d)'
    BY <1>2, <2>1, <2>4, <2>6 DEF Numbered, TypeOK, At, Running, Idle, MayRetry, CallStates, Messages
  <2> QED BY <2>7, <2>8
<1>3. ASSUME NEW c \in Calls, NEW p \in {"login", "reread"},
             (At(c, "token") /\ p = "login") \/ (At(c, "login") /\ p = "reread"),
             call' = [call EXCEPT ![c].pc = p], UNCHANGED <<net, carried>>
      PROVE  call' \in [Calls -> CallStates] /\ \A d \in Calls : Numbered(d)'
  <2>1. call' \in [Calls -> CallStates]
    BY <1>0, <1>3, CallMoves
  <2>2. \A d \in Calls : Numbered(d)'
    <3>1. /\ call[c].pc \in {"token", "login"} /\ call'[c].pc = p
          /\ call'[c].attempt = call[c].attempt /\ call'[c].reauthed = call[c].reauthed
          /\ net'[c] = net[c]
      BY <1>0, <1>3 DEF At, CallStates
    <3>2. Numbered(c)'
      BY <1>3, <3>1 DEF Numbered, At, Running, MayRetry
    <3>3. ASSUME NEW d \in Calls, d # c PROVE Numbered(d)'
      <4>1. call'[d] = call[d] /\ net'[d] = net[d] /\ carried'[d] = carried[d]
        BY <1>0, <1>3, <3>3
      <4> QED BY <4>1 DEF Numbered, At, Running, MayRetry
    <3> QED BY <3>2, <3>3
  <2> QED BY <2>1, <2>2
<1>4. ASSUME NEW c \in Calls, NeedsLogin(c) PROVE TypeOK' /\ \A d \in Calls : Numbered(d)'
  BY <1>3, <1>4 DEF NeedsLogin, Goto, TypeOK
<1>5. ASSUME NEW c \in Calls, Login(c) PROVE TypeOK' /\ \A d \in Calls : Numbered(d)'
  <2>1. call' \in [Calls -> CallStates] /\ \A d \in Calls : Numbered(d)'
    BY <1>3, <1>5 DEF Login, Goto
  <2>2. logins' \in Tokens /\ authToken' \in Tokens /\ valid' \subseteq Tokens \ {0}
    BY <1>5 DEF Login, TypeOK, Tokens
  <2>3. UNCHANGED <<net, carried, upset>>
    BY <1>5 DEF Login
  <2> QED BY <2>1, <2>2, <2>3 DEF TypeOK
<1>6. ASSUME NEW c \in Calls,
             NEW r \in {"ok", "missing", "refused", "unauthorized", "busy", "unknown"},
             End(c, r), Running(c), UNCHANGED <<net, carried, session, upset>>
      PROVE  TypeOK' /\ \A d \in Calls : Numbered(d)'
  <2>1. call' = [call EXCEPT ![c] = [Idle EXCEPT !.pc = "done", !.result = r]]
    BY <1>6 DEF End
  <2>2. call' \in [Calls -> CallStates]
    BY <2>1, CallMoves DEF TypeOK
  <2>3. TypeOK'
    BY <1>6, <2>2 DEF TypeOK
  <2>4. \A d \in Calls : Numbered(d)'
    BY <1>6, <2>1 DEF Numbered, TypeOK, At, Running, Idle, MayRetry, CallStates
  <2> QED BY <2>3, <2>4
<1>7. ASSUME NEW c \in Calls, NEW m \in net[c], Handle(c, m)
      PROVE  TypeOK' /\ \A d \in Calls : Numbered(d)'
  <2>1. PICK code \in Codes, did \in BOOLEAN :
            /\ carried' = IF did THEN [carried EXCEPT ![c] = @ + 1] ELSE carried
            /\ \/ UNCHANGED call
               \/ /\ At(c, "wait") /\ call[c].attempt = m.n
                  /\ call' = [call EXCEPT ![c].pc = "answer", ![c].code = code]
    BY <1>7 DEF Handle
  <2>2. call' \in [Calls -> CallStates]
    <3>1. [call[c] EXCEPT !.pc = "answer", !.code = code] \in CallStates
      BY <1>0 DEF CallStates
    <3> QED BY <1>0, <2>1, <3>1
  <2>3. net' = [net EXCEPT ![c] = @ \ {m}] /\ UNCHANGED <<session, upset>>
    BY <1>7 DEF Handle
  <2>4. net' \in [Calls -> SUBSET Messages] /\ carried' \in [Calls -> Nat]
    BY <2>1, <2>3 DEF TypeOK
  <2>5. TypeOK'
    BY <2>2, <2>3, <2>4 DEF TypeOK
  <2>6. ~At(c, "idle")
    BY <1>7 DEF Numbered
  <2>7. CASE UNCHANGED call
    <3>1. \A d \in Calls : net'[d] \subseteq net[d] /\ (d # c => carried'[d] = carried[d])
      BY <2>1, <2>3 DEF TypeOK
    <3>2. \A d \in Calls : Numbered(d)'
      BY <2>6, <2>7, <3>1 DEF Numbered, At, Running, Idle, MayRetry
    <3> QED BY <2>5, <3>2
  <2>8. CASE At(c, "wait") /\ call' = [call EXCEPT ![c].pc = "answer", ![c].code = code]
    <3>1. /\ call'[c].pc = "answer" /\ call'[c].attempt = call[c].attempt
          /\ call'[c].reauthed = call[c].reauthed /\ net'[c] \subseteq net[c]
      BY <2>3, <2>8 DEF TypeOK, CallStates
    <3>2. Numbered(c)'
      BY <2>8, <3>1 DEF Numbered, At, Running, MayRetry
    <3>3. ASSUME NEW d \in Calls, d # c PROVE Numbered(d)'
      <4>1. call'[d] = call[d] /\ net'[d] = net[d] /\ carried'[d] = carried[d]
        BY <2>1, <2>3, <2>8, <3>3 DEF TypeOK
      <4> QED BY <4>1 DEF Numbered, At, Running, MayRetry
    <3> QED BY <2>5, <3>2, <3>3
  <2> QED BY <2>1, <2>7, <2>8
<1>8. ASSUME NEW t \in valid, Expire(t) PROVE TypeOK' /\ \A d \in Calls : Numbered(d)'
  <2>1. upset' \in [Calls -> 0..2]
    BY <1>8 DEF Expire, Upset, TypeOK
  <2>2. valid' \subseteq Tokens \ {0} /\ UNCHANGED <<call, net, carried, authToken, logins>>
    BY <1>8 DEF Expire, TypeOK
  <2>3. TypeOK'
    BY <2>1, <2>2 DEF TypeOK
  <2>4. \A d \in Calls : Numbered(d)'
    BY <2>2 DEF Numbered, At, Running, Idle, MayRetry
  <2> QED BY <2>3, <2>4
<1>9. ASSUME NEW c \in Calls, TransportError(c) PROVE TypeOK' /\ \A d \in Calls : Numbered(d)'
  <2>1. CASE End(c, "unknown")
    BY <1>6, <1>9, <2>1 DEF TransportError, Running, At
  <2>2. CASE MayRetry(c) /\ call' = [call EXCEPT ![c].pc = "backoff", ![c].code = "failed"]
    <3>1. call' \in [Calls -> CallStates]
      <4>1. [call[c] EXCEPT !.pc = "backoff", !.code = "failed"] \in CallStates
        BY <1>0 DEF CallStates, Codes
      <4>2. call' = [call EXCEPT ![c] = [call[c] EXCEPT !.pc = "backoff", !.code = "failed"]]
        BY <2>2
      <4> QED BY <1>0, <4>1, <4>2
    <3>2. UNCHANGED <<net, carried, session, upset>>
      BY <1>9 DEF TransportError
    <3>3. TypeOK'
      BY <3>1, <3>2 DEF TypeOK
    <3>4. At(c, "wait")
      BY <1>9 DEF TransportError
    <3>5. Numbered(c)'
      <4>1. /\ call'[c].pc = "backoff" /\ call'[c].attempt = call[c].attempt
            /\ call'[c].reauthed = call[c].reauthed /\ net'[c] = net[c]
        BY <2>2, <3>2 DEF TypeOK, CallStates
      <4> QED BY <2>2, <3>4, <4>1 DEF Numbered, At, Running, MayRetry
    <3>6. ASSUME NEW d \in Calls, d # c PROVE Numbered(d)'
      <4>1. call'[d] = call[d] /\ net'[d] = net[d] /\ carried'[d] = carried[d]
        BY <2>2, <3>2, <3>6 DEF TypeOK
      <4> QED BY <4>1 DEF Numbered, At, Running, MayRetry
    <3> QED BY <3>3, <3>5, <3>6
  <2> QED BY <1>9, <2>1, <2>2 DEF TransportError
<1>10. ASSUME NEW c \in Calls, Unauthorized(c) PROVE TypeOK' /\ \A d \in Calls : Numbered(d)'
  <2>1. /\ call' = [call EXCEPT ![c].pc = "token", ![c].code = "ok",
                                ![c].reauthed = TRUE, ![c].attempt = @ + 1]
        /\ At(c, "answer") /\ ~call[c].reauthed
    BY <1>10 DEF Unauthorized
  <2>2. call[c].attempt <= MaxAttempts
    BY <2>1 DEF Numbered
  <2>3. call' \in [Calls -> CallStates]
    BY <2>1, <2>2 DEF TypeOK, CallStates, Codes
  <2>4. upset' \in [Calls -> 0..2] /\ authToken' \in Tokens
    BY <1>10 DEF Unauthorized, Upset, TypeOK, Tokens
  <2>5. UNCHANGED <<net, carried, logins, valid>>
    BY <1>10 DEF Unauthorized
  <2>6. TypeOK'
    BY <2>3, <2>4, <2>5 DEF TypeOK
  <2>7. \A d \in Calls : Numbered(d)'
    BY <2>1, <2>2, <2>5 DEF Numbered, TypeOK, At, Running, Idle, MayRetry, CallStates, Messages
  <2> QED BY <2>6, <2>7
<1>11. ASSUME NEW c \in Calls, Retry(c) PROVE TypeOK' /\ \A d \in Calls : Numbered(d)'
  <2>1. call' = [call EXCEPT ![c].pc = "backoff"] /\ At(c, "answer") /\ MayRetry(c)
    BY <1>11 DEF Retry, Goto
  <2>2. call' \in [Calls -> CallStates]
    BY <2>1, CallMoves DEF TypeOK
  <2>3. UNCHANGED <<net, carried, session, upset>>
    BY <1>11 DEF Retry
  <2>4. TypeOK'
    BY <2>2, <2>3 DEF TypeOK
  <2>5. \A d \in Calls : Numbered(d)'
    BY <2>1, <2>3 DEF Numbered, TypeOK, At, Running, Idle, MayRetry, CallStates
  <2> QED BY <2>4, <2>5
<1>12. ASSUME NEW c \in Calls, BackoffOver(c) PROVE TypeOK' /\ \A d \in Calls : Numbered(d)'
  <2>1. /\ call' = [call EXCEPT ![c].pc = "token", ![c].code = "ok", ![c].attempt = @ + 1]
        /\ At(c, "backoff")
    BY <1>12 DEF BackoffOver
  <2>2. call[c].attempt < MaxAttempts
    BY <2>1 DEF Numbered, MayRetry
  <2>3. call' \in [Calls -> CallStates]
    BY <2>1, <2>2 DEF TypeOK, CallStates, Codes
  <2>4. UNCHANGED <<net, carried, session, upset>>
    BY <1>12 DEF BackoffOver
  <2>5. TypeOK'
    BY <2>3, <2>4 DEF TypeOK
  <2>6. \A d \in Calls : Numbered(d)'
    BY <2>1, <2>2, <2>4 DEF Numbered, TypeOK, At, Running, Idle, MayRetry, CallStates, Messages
  <2> QED BY <2>5, <2>6
<1>13. ASSUME NEW c \in Calls, LoginFails(c) PROVE TypeOK' /\ \A d \in Calls : Numbered(d)'
  BY <1>6, <1>13 DEF LoginFails, Running, At
<1>14. ASSUME NEW c \in Calls, BackoffCut(c) PROVE TypeOK' /\ \A d \in Calls : Numbered(d)'
  BY <1>6, <1>14 DEF BackoffCut, Running, At
<1>15. ASSUME NEW c \in Calls, Finish(c) PROVE TypeOK' /\ \A d \in Calls : Numbered(d)'
  <2>1. call[c].code \in Codes
    BY DEF TypeOK, CallStates
  <2> QED BY <1>6, <1>15, <2>1 DEF Finish, Running, At, Codes
<1>16. CASE UNCHANGED vars
  <2>1. UNCHANGED <<call, net, carried, authToken, logins, valid, upset>>
    BY <1>16
  <2> QED BY <2>1 DEF TypeOK, Numbered, At, Running, Idle, MayRetry
<1> QED
  BY <1>1, <1>2, <1>4, <1>5, <1>7, <1>8, <1>9, <1>10, <1>11, <1>12, <1>13, <1>14, <1>15, <1>16
     DEF Next, Step, SendWithToken, SendAfterLogin, At

\* What Effects says of a call is about its own record, requests and effects.
LEMMA EffectsFrame ==
    ASSUME NEW c \in Calls, Effects(c),
           call'[c] = call[c], net'[c] = net[c], carried'[c] = carried[c]
    PROVE  Effects(c)'
BY DEF Effects, At

\* No step makes an unearned "ok", and none sends a POST that may already have
\* been carried out: after an answer that leaves this open do sends no POST
\* again.
THEOREM EffectsStep ==
    TypeOK /\ TypeOK' /\ (\A c \in Calls : Numbered(c) /\ Effects(c)) /\ [Next]_vars
        => \A c \in Calls : Effects(c)'
<1> SUFFICES ASSUME TypeOK, TypeOK', \A c \in Calls : Numbered(c) /\ Effects(c), [Next]_vars
             PROVE  \A c \in Calls : Effects(c)'
  OBVIOUS
<1> USE DEF vars, session
<1>1. ASSUME NEW c \in Calls, Effects(c)',
             \A d \in Calls \ {c} :
                call'[d] = call[d] /\ net'[d] = net[d] /\ carried'[d] = carried[d]
      PROVE  \A d \in Calls : Effects(d)'
  BY <1>1, EffectsFrame
<1>2. ASSUME NEW c \in Calls, Begin(c) PROVE \A d \in Calls : Effects(d)'
  <2>1. net[c] = {} /\ carried[c] = 0
    BY <1>2 DEF Begin, Numbered
  <2>2. call'[c].pc = "token" /\ net' = net /\ carried' = carried
    BY <1>2 DEF Begin, Goto, TypeOK, CallStates
  <2>3. \A d \in Calls \ {c} : call'[d] = call[d]
    BY <1>2 DEF Begin, Goto, TypeOK
  <2>4. Effects(c)'
    BY <2>1, <2>2 DEF Effects, At
  <2> QED BY <1>1, <2>2, <2>3, <2>4
<1>3. ASSUME NEW c \in Calls, call[c].pc \in {"token", "reread"}, Send(c)
      PROVE  \A d \in Calls : Effects(d)'
  <2>1. call'[c].pc = "wait" /\ carried' = carried
    BY <1>3 DEF Send, Goto, TypeOK, CallStates
  <2>2. net'[c] = net[c] \union {[n |-> call[c].attempt, tok |-> authToken]}
    BY <1>3 DEF Send, TypeOK
  <2>3. \A d \in Calls \ {c} : call'[d] = call[d] /\ net'[d] = net[d]
    BY <1>3 DEF Send, Goto, TypeOK
  <2>4. c \in Posts => net[c] = {} /\ carried[c] = 0
    BY <1>3 DEF Effects, At
  <2>5. Effects(c)'
    BY <2>1, <2>2, <2>4 DEF Effects, At
  <2> QED BY <1>1, <2>1, <2>3, <2>5
<1>4. ASSUME NEW c \in Calls, NeedsLogin(c) \/ Login(c) PROVE \A d \in Calls : Effects(d)'
  <2>1. /\ call[c].pc \in {"token", "login"} /\ call'[c].pc \in {"login", "reread"}
        /\ net' = net /\ carried' = carried
        /\ \A d \in Calls \ {c} : call'[d] = call[d]
    BY <1>4 DEF NeedsLogin, Login, Goto, At, TypeOK, CallStates
  <2>2. Effects(c)'
    BY <2>1 DEF Effects, At
  <2> QED BY <1>1, <2>1, <2>2
<1>5. ASSUME NEW c \in Calls, NEW r, End(c, r), UNCHANGED <<net, carried>>,
             r = "ok" => carried[c] > 0,
             c \in Posts => net[c] = {} \/ (r = "unknown" /\ At(c, "wait")),
             c \in Posts /\ r \notin {"ok", "unknown"} => carried[c] = 0
      PROVE  \A d \in Calls : Effects(d)'
  <2>1. /\ call'[c].pc = "done" /\ call'[c].result = r
        /\ \A d \in Calls \ {c} : call'[d] = call[d]
    BY <1>5 DEF End, Idle, TypeOK
  <2>2. c \in Posts /\ net'[c] # {} => carried'[c] = 0 /\ r = "unknown"
    BY <1>5 DEF Effects
  <2>3. c \in Posts => \A m1, m2 \in net'[c] : m1 = m2
    BY <1>5 DEF Effects
  <2>4. Effects(c)'
    BY <1>5, <2>1, <2>2, <2>3 DEF Effects, At
  <2> QED BY <1>1, <1>5, <2>1, <2>4
<1>6. ASSUME NEW c \in Calls, LoginFails(c) PROVE \A d \in Calls : Effects(d)'
  <2>1. End(c, "refused") /\ At(c, "login") /\ UNCHANGED <<net, carried>>
    BY <1>6 DEF LoginFails
  <2>2. c \in Posts => net[c] = {} /\ carried[c] = 0
    BY <2>1 DEF Effects, At
  <2> QED BY <1>5, <2>1, <2>2
<1>7. ASSUME NEW c \in Calls, NEW m \in net[c], Handle(c, m)
      PROVE  \A d \in Calls : Effects(d)'
  <2>1. PICK code \in Codes, did \in BOOLEAN :
            /\ Effect(code, did)
            /\ carried' = IF did THEN [carried EXCEPT ![c] = @ + 1] ELSE carried
            /\ \/ UNCHANGED call
               \/ /\ At(c, "wait") /\ call[c].attempt = m.n
                  /\ call' = [call EXCEPT ![c].pc = "answer", ![c].code = code]
    BY <1>7 DEF Handle
  <2>2. carried[c] \in Nat /\ carried'[c] = IF did THEN carried[c] + 1 ELSE carried[c]
    BY <2>1 DEF TypeOK
  <2>3. net'[c] = net[c] \ {m}
    BY <1>7 DEF Handle, TypeOK
  <2>4. \A d \in Calls \ {c} :
            call'[d] = call[d] /\ net'[d] = net[d] /\ carried'[d] = carried[d]
    BY <1>7, <2>1 DEF Handle, TypeOK
  <2>5. c \in Posts => net'[c] = {} /\ carried[c] = 0
    BY <2>3 DEF Effects
  <2>6. c \in Posts => At(c, "wait") \/ (At(c, "done") /\ call[c].result = "unknown")
    BY DEF Effects
  <2>7. CASE UNCHANGED call
    BY <1>1, <2>2, <2>4, <2>5, <2>6, <2>7 DEF Effects, At
  <2>8. CASE call' = [call EXCEPT ![c].pc = "answer", ![c].code = code]
    <3>1. call'[c].pc = "answer" /\ call'[c].code = code
      BY <2>8 DEF TypeOK, CallStates
    <3>2. code = "ok" => did
      BY <2>1 DEF Effect
    <3>3. code \notin {"ok", "failed"} => ~did
      BY <2>1 DEF Effect
    <3>4. Effects(c)'
      BY <2>2, <2>5, <3>1, <3>2, <3>3 DEF Effects, At
    <3> QED BY <1>1, <2>4, <3>4
  <2> QED BY <2>1, <2>7, <2>8
<1>8. ASSUME NEW c \in Calls, TransportError(c) PROVE \A d \in Calls : Effects(d)'
  <2>1. At(c, "wait") /\ UNCHANGED <<net, carried>>
    BY <1>8 DEF TransportError
  <2>2. CASE End(c, "unknown")
    BY <1>5, <2>1, <2>2
  <2>3. CASE c \notin Posts /\ call' = [call EXCEPT ![c].pc = "backoff", ![c].code = "failed"]
    <3>1. /\ call'[c].pc = "backoff" /\ call'[c].code = "failed"
          /\ \A d \in Calls \ {c} : call'[d] = call[d]
      BY <2>3 DEF TypeOK, CallStates
    <3>2. Effects(c)'
      BY <2>1, <2>3, <3>1 DEF Effects, At
    <3> QED BY <1>1, <2>1, <3>1, <3>2
  <2> QED BY <1>8, <2>2, <2>3 DEF TransportError
<1>9. ASSUME NEW c \in Calls, Unauthorized(c) \/ BackoffOver(c)
      PROVE  \A d \in Calls : Effects(d)'
  <2>1. /\ call'[c].pc = "token" /\ net' = net /\ carried' = carried
        /\ \A d \in Calls \ {c} : call'[d] = call[d]
    BY <1>9 DEF Unauthorized, BackoffOver, TypeOK, CallStates
  <2>2. c \in Posts => net[c] = {} /\ carried[c] = 0
    BY <1>9 DEF Unauthorized, BackoffOver, Effects, At
  <2>3. Effects(c)'
    BY <2>1, <2>2 DEF Effects, At
  <2> QED BY <1>1, <2>1, <2>3
<1>10. ASSUME NEW c \in Calls, Retry(c) PROVE \A d \in Calls : Effects(d)'
  <2>1. /\ call'[c].pc = "backoff" /\ call'[c].code = call[c].code
        /\ net' = net /\ carried' = carried
        /\ \A d \in Calls \ {c} : call'[d] = call[d]
    BY <1>10 DEF Retry, Goto, TypeOK, CallStates
  <2>2. At(c, "answer") /\ Retryable(c)
    BY <1>10 DEF Retry
  <2>3. c \in Posts => net[c] = {} /\ carried[c] = 0
    BY <2>2 DEF Effects, At, Retryable
  <2>4. Effects(c)'
    BY <2>1, <2>2, <2>3 DEF Effects, At, Retryable
  <2> QED BY <1>1, <2>1, <2>4
<1>11. ASSUME NEW c \in Calls, BackoffCut(c) PROVE \A d \in Calls : Effects(d)'
  <2>1. At(c, "backoff") /\ UNCHANGED <<net, carried>>
    BY <1>11 DEF BackoffCut
  <2>2. c \in Posts => net[c] = {} /\ carried[c] = 0
    BY <2>1 DEF Effects, At
  <2>3. End(c, "busy") \/ End(c, "unknown")
    BY <1>11 DEF BackoffCut
  <2> QED BY <1>5, <2>1, <2>2, <2>3
<1>12. ASSUME NEW c \in Calls, Finish(c) PROVE \A d \in Calls : Effects(d)'
  <2>1. At(c, "answer") /\ UNCHANGED <<net, carried>>
    BY <1>12 DEF Finish
  <2>2. c \in Posts => net[c] = {}
    BY <2>1 DEF Effects, At
  <2>3. CASE End(c, "unknown")
    BY <1>5, <2>1, <2>2, <2>3
  <2>4. CASE call[c].code # "failed" /\ End(c, call[c].code)
    <3>1. call[c].code = "ok" => carried[c] > 0
      BY <2>1 DEF Effects
    <3>2. c \in Posts /\ call[c].code \notin {"ok", "unknown"} => carried[c] = 0
      BY <2>1, <2>4 DEF Effects
    <3> QED BY <1>5, <2>1, <2>2, <2>4, <3>1, <3>2
  <2> QED BY <1>12, <2>3, <2>4 DEF Finish
<1>13. ASSUME UNCHANGED <<call, net, carried>> PROVE \A d \in Calls : Effects(d)'
  BY <1>13, EffectsFrame
<1>14. ASSUME NEW t \in valid, Expire(t) PROVE \A d \in Calls : Effects(d)'
  BY <1>13, <1>14 DEF Expire
<1> QED
  BY <1>2, <1>3, <1>4, <1>6, <1>7, <1>8, <1>9, <1>10, <1>11, <1>12, <1>13, <1>14
     DEF Next, Step, SendWithToken, SendAfterLogin, At

\* What Sessions says of a call is about its own record and requests, and about
\* the session.
LEMMA SessionsFrame ==
    ASSUME NEW c \in Calls, Sessions(c), call'[c] = call[c], net'[c] = net[c],
           upset'[c] = upset[c], authToken' = authToken, valid' = valid
    PROVE  Sessions(c)'
BY DEF Sessions, Bad, Running, At

\* The raised history of a call stays within its bound and grows by one.
LEMMA UpsetCounts ==
    ASSUME NEW S, TypeOK, Upset(S), NEW c \in Calls
    PROVE  /\ c \in S /\ upset[c] < 2 => upset'[c] = upset[c] + 1
           /\ c \in S => upset'[c] >= upset[c] /\ upset'[c] >= 1
           /\ c \notin S => upset'[c] = upset[c]
           /\ upset[c] \in 0..2 /\ upset'[c] >= upset[c]
BY DEF TypeOK, Upset

\* Every step that makes the token useless, or throws a good one away, is one
\* of the two causes of a 401 that reaches the caller.
THEOREM SessionsStep ==
    TypeOK /\ TypeOK' /\ (\A c \in Calls : Numbered(c) /\ Sessions(c)) /\ [Next]_vars
        => \A c \in Calls : Sessions(c)'
<1> SUFFICES ASSUME TypeOK, TypeOK', \A c \in Calls : Numbered(c) /\ Sessions(c), [Next]_vars
             PROVE  \A c \in Calls : Sessions(c)'
  OBVIOUS
<1> USE DEF vars, session
<1>1. ASSUME NEW c \in Calls, Sessions(c)', UNCHANGED <<authToken, valid>>,
             \A d \in Calls \ {c} :
                call'[d] = call[d] /\ net'[d] = net[d] /\ upset'[d] = upset[d]
      PROVE  \A d \in Calls : Sessions(d)'
  BY <1>1, SessionsFrame
<1>2. ASSUME NEW c \in Calls, Begin(c) PROVE \A d \in Calls : Sessions(d)'
  <2>1. call[c] = Idle
    BY <1>2 DEF Begin, Numbered
  <2>2. /\ call'[c].pc = "token" /\ call'[c].reauthed = FALSE
        /\ net' = net /\ UNCHANGED <<authToken, valid>>
        /\ \A d \in Calls \ {c} : call'[d] = call[d]
    BY <1>2, <2>1 DEF Begin, Goto, Idle, TypeOK
  <2>3. Upset(IF Bad THEN {c} ELSE {})
    BY <1>2 DEF Begin, Bad
  <2>4. upset'[c] \in 0..2 /\ (Bad => upset'[c] >= 1)
    BY <2>3, UpsetCounts DEF TypeOK
  <2>5. \A d \in Calls \ {c} : upset'[d] = upset[d]
    BY <2>3, UpsetCounts
  <2>6. Bad' = Bad
    BY <2>2 DEF Bad
  <2>7. Sessions(c)'
    BY <2>2, <2>4, <2>6 DEF Sessions, At, Running
  <2> QED BY <1>1, <2>2, <2>5, <2>7
<1>3. ASSUME NEW c \in Calls, Send(c), At(c, "reread") \/ (At(c, "token") /\ authToken # 0)
      PROVE  \A d \in Calls : Sessions(d)'
  <2> DEFINE sent == [n |-> call[c].attempt, tok |-> authToken]
  <2>1. /\ call'[c].pc = "wait" /\ call'[c].reauthed = call[c].reauthed
        /\ call'[c].attempt = call[c].attempt
        /\ UNCHANGED <<authToken, valid, upset>>
        /\ \A d \in Calls \ {c} : call'[d] = call[d] /\ net'[d] = net[d]
    BY <1>3 DEF Send, Goto, TypeOK, CallStates
  <2>2. net'[c] = net[c] \union {sent}
    BY <1>3 DEF Send, TypeOK
  <2>3. call[c].attempt \in Nat /\ \A m \in net[c] : m.n \in Nat /\ m.n < call[c].attempt
    <3>1. \A m \in net[c] : m.n < call[c].attempt
      BY <1>3 DEF Numbered, At
    <3>2. call[c].attempt \in Nat /\ \A m \in net[c] : m.n \in Nat
      BY ClientAssumption DEF TypeOK, CallStates, Messages
    <3> QED BY <3>1, <3>2
  <2>4. \A m \in net'[c] : m.n = call[c].attempt => m.tok = authToken
    BY <2>2, <2>3
  <2>5. /\ upset[c] >= IF call[c].reauthed THEN 1 ELSE 0
        /\ authToken \notin valid => upset[c] > IF call[c].reauthed THEN 1 ELSE 0
        /\ Bad => upset[c] > IF call[c].reauthed THEN 1 ELSE 0
    BY <1>3 DEF Sessions, Bad, At, Running
  <2>6. Bad' = Bad
    BY <2>1 DEF Bad
  <2>7. Sessions(c)'
    BY <2>1, <2>4, <2>5, <2>6 DEF Sessions, At, Running
  <2> QED BY <1>1, <2>1, <2>7
<1>4. ASSUME NEW c \in Calls, NeedsLogin(c) PROVE \A d \in Calls : Sessions(d)'
  <2>1. /\ call'[c].pc = "login" /\ call'[c].reauthed = call[c].reauthed
        /\ UNCHANGED <<authToken, valid, upset, net>> /\ At(c, "token")
        /\ \A d \in Calls \ {c} : call'[d] = call[d]
    BY <1>4 DEF NeedsLogin, Goto, TypeOK, CallStates
  <2>2. Sessions(c)'
    BY <2>1 DEF Sessions, Bad, At, Running
  <2> QED BY <1>1, <2>1, <2>2
<1>5. ASSUME NEW c \in Calls, Login(c) PROVE \A d \in Calls : Sessions(d)'
  <2>1. /\ call'[c].pc = "reread" /\ call'[c].reauthed = call[c].reauthed
        /\ UNCHANGED <<upset, net>> /\ At(c, "login")
        /\ \A d \in Calls \ {c} : call'[d] = call[d]
    BY <1>5 DEF Login, Goto, TypeOK, CallStates
  <2>2. authToken' \in valid' /\ valid \subseteq valid'
    BY <1>5 DEF Login
  <2>3. Sessions(c)'
    BY <2>1, <2>2 DEF Sessions, Bad, At, Running
  <2>4. ASSUME NEW d \in Calls \ {c} PROVE Sessions(d)'
    BY <2>1, <2>2, <2>4 DEF Sessions, Bad, At, Running
  <2> QED BY <2>3, <2>4
<1>6. ASSUME NEW c \in Calls, NEW r, End(c, r), UNCHANGED <<net, upset, session>>,
             r = "unauthorized" => upset[c] = 2
      PROVE  \A d \in Calls : Sessions(d)'
  <2>1. /\ call'[c].pc = "done" /\ call'[c].result = r
        /\ \A d \in Calls \ {c} : call'[d] = call[d]
    BY <1>6 DEF End, Idle, TypeOK
  <2>2. Sessions(c)'
    BY <1>6, <2>1 DEF Sessions, At, Running
  <2> QED BY <1>1, <1>6, <2>1, <2>2
<1>7. ASSUME NEW c \in Calls, NEW m \in net[c], Handle(c, m)
      PROVE  \A d \in Calls : Sessions(d)'
  <2>1. PICK code \in Codes, did \in BOOLEAN :
            /\ (code = "unauthorized") = (m.tok \notin valid)
            /\ \/ UNCHANGED call
               \/ /\ At(c, "wait") /\ call[c].attempt = m.n
                  /\ call' = [call EXCEPT ![c].pc = "answer", ![c].code = code]
    BY <1>7 DEF Handle
  <2>2. /\ net'[c] \subseteq net[c] /\ UNCHANGED <<authToken, valid, upset>>
        /\ \A d \in Calls \ {c} : net'[d] = net[d]
    BY <1>7 DEF Handle, TypeOK
  <2>3. CASE UNCHANGED call
    <3>1. Sessions(c)'
      BY <2>2, <2>3 DEF Sessions, Bad, At, Running
    <3> QED BY <1>1, <2>2, <2>3, <3>1
  <2>4. CASE /\ At(c, "wait") /\ call[c].attempt = m.n
             /\ call' = [call EXCEPT ![c].pc = "answer", ![c].code = code]
    <3>1. /\ call'[c].pc = "answer" /\ call'[c].code = code
          /\ call'[c].reauthed = call[c].reauthed
          /\ \A d \in Calls \ {c} : call'[d] = call[d]
      BY <2>4 DEF TypeOK, CallStates
    <3>2. code = "unauthorized" => upset[c] > IF call[c].reauthed THEN 1 ELSE 0
      BY <2>1, <2>4 DEF Sessions, At, Running
    <3>3. Sessions(c)'
      BY <2>2, <2>4, <3>1, <3>2 DEF Sessions, Bad, At, Running
    <3> QED BY <1>1, <2>2, <3>1, <3>3
  <2> QED BY <2>1, <2>3, <2>4
<1>8. ASSUME NEW t \in valid, Expire(t) PROVE \A d \in Calls : Sessions(d)'
  <2> DEFINE S == {c \in Calls : Running(c) /\ (t = authToken \/ \E m \in net[c] : m.tok = t)}
  <2>1. valid' = valid \ {t} /\ Upset(S) /\ UNCHANGED <<call, net, authToken>>
    BY <1>8 DEF Expire
  <2>2. SUFFICES ASSUME NEW d \in Calls PROVE Sessions(d)'
    OBVIOUS
  <2>3. CASE Running(d) /\ d \in S
    <3>1. upset[d] >= IF call[d].reauthed THEN 1 ELSE 0
      BY <2>3 DEF Sessions
    <3>2. /\ upset'[d] > IF call[d].reauthed THEN 1 ELSE 0
          /\ upset'[d] >= IF call[d].reauthed THEN 1 ELSE 0
      <4>1. upset[d] \in 0..2 /\ upset'[d] \in 0..2
        BY DEF TypeOK
      <4> QED BY <2>1, <2>3, <3>1, <4>1, UpsetCounts
    <3> QED BY <2>1, <2>3, <3>2 DEF Sessions, Bad, At, Running
  <2>4. CASE Running(d) /\ d \notin S
    <3>1. upset'[d] = upset[d]
      BY <2>1, <2>4, UpsetCounts
    <3>2. authToken # t /\ \A m \in net[d] : m.tok # t
      BY <2>4
    <3> QED BY <2>1, <2>4, <3>1, <3>2 DEF Sessions, Bad, At, Running
  <2>5. CASE ~Running(d)
    <3>1. upset'[d] = upset[d]
      BY <2>1, <2>5, UpsetCounts
    <3> QED BY <2>1, <2>5, <3>1 DEF Sessions, At, Running
  <2> QED BY <2>3, <2>4, <2>5
<1>9. ASSUME NEW c \in Calls, TransportError(c) PROVE \A d \in Calls : Sessions(d)'
  <2>1. At(c, "wait") /\ UNCHANGED <<net, session, upset>>
    BY <1>9 DEF TransportError
  <2>2. CASE End(c, "unknown")
    BY <1>6, <2>1, <2>2
  <2>3. CASE call' = [call EXCEPT ![c].pc = "backoff", ![c].code = "failed"]
    <3>1. /\ call'[c].pc = "backoff" /\ call'[c].reauthed = call[c].reauthed
          /\ \A d \in Calls \ {c} : call'[d] = call[d]
      BY <2>3 DEF TypeOK, CallStates
    <3>2. Sessions(c)'
      BY <2>1, <3>1 DEF Sessions, Bad, At, Running
    <3> QED BY <1>1, <2>1, <3>1, <3>2
  <2> QED BY <1>9, <2>2, <2>3 DEF TransportError
<1>10. ASSUME NEW c \in Calls, Unauthorized(c) PROVE \A d \in Calls : Sessions(d)'
  <2> DEFINE S == IF authToken \in valid THEN {d \in Calls \ {c} : Running(d)} ELSE {}
  <2>1. /\ At(c, "answer") /\ call[c].code = "unauthorized" /\ ~call[c].reauthed
        /\ authToken' = 0 /\ Upset(S) /\ UNCHANGED <<net, valid>>
    BY <1>10 DEF Unauthorized
  <2>2. /\ call'[c].pc = "token" /\ call'[c].reauthed = TRUE
        /\ \A d \in Calls \ {c} : call'[d] = call[d]
    BY <1>10 DEF Unauthorized, TypeOK, CallStates
  <2>3. ~Bad'
    BY <2>1 DEF Bad
  <2>4. upset'[c] = upset[c] /\ upset[c] \in 0..2
    BY <2>1, UpsetCounts
  <2>5. upset[c] > 0
    BY <2>1 DEF Sessions, At, Running
  <2>6. Sessions(c)'
    BY <2>2, <2>3, <2>4, <2>5 DEF Sessions, At, Running
  <2>7. ASSUME NEW d \in Calls \ {c} PROVE Sessions(d)'
    <3>1. call'[d] = call[d] /\ net'[d] = net[d] /\ valid' = valid
      BY <2>1, <2>2
    <3>2. upset[d] \in 0..2 /\ upset'[d] >= upset[d] /\ upset'[d] \in 0..2
      BY <2>1, UpsetCounts DEF TypeOK
    <3>3. CASE authToken \in valid /\ Running(d)
      <4>1. d \in S
        BY <2>7, <3>3
      <4>2. upset[d] >= IF call[d].reauthed THEN 1 ELSE 0
        BY <3>3 DEF Sessions
      <4>3. /\ upset'[d] > IF call[d].reauthed THEN 1 ELSE 0
            /\ upset'[d] >= IF call[d].reauthed THEN 1 ELSE 0
        BY <2>1, <3>2, <4>1, <4>2, UpsetCounts
      <4> QED BY <3>1, <3>3, <4>3 DEF Sessions, Bad, At, Running
    <3>4. CASE authToken \notin valid \/ ~Running(d)
      BY <2>3, <3>1, <3>2, <3>4 DEF Sessions, At, Running
    <3> QED BY <3>3, <3>4
  <2> QED BY <2>6, <2>7
<1>11. ASSUME NEW c \in Calls, Retry(c) \/ BackoffOver(c) PROVE \A d \in Calls : Sessions(d)'
  <2>1. /\ call[c].pc \in {"answer", "backoff"} /\ call'[c].pc \in {"backoff", "token"}
        /\ call'[c].reauthed = call[c].reauthed /\ UNCHANGED <<net, session, upset>>
        /\ \A d \in Calls \ {c} : call'[d] = call[d]
    BY <1>11 DEF Retry, BackoffOver, Goto, At, TypeOK, CallStates
  <2>2. Sessions(c)'
    BY <2>1 DEF Sessions, Bad, At, Running
  <2> QED BY <1>1, <2>1, <2>2
<1>12. ASSUME NEW c \in Calls, LoginFails(c) \/ BackoffCut(c) PROVE \A d \in Calls : Sessions(d)'
  BY <1>6, <1>12 DEF LoginFails, BackoffCut
<1>13. ASSUME NEW c \in Calls, Finish(c) PROVE \A d \in Calls : Sessions(d)'
  <2>1. At(c, "answer") /\ UNCHANGED <<net, session, upset>>
    BY <1>13 DEF Finish
  <2>2. call[c].code = "unauthorized" => upset[c] = 2
    BY <1>13, <2>1 DEF Finish, Sessions, At, Running, TypeOK
  <2>3. CASE End(c, "unknown")
    BY <1>6, <2>1, <2>3
  <2>4. CASE End(c, call[c].code)
    BY <1>6, <2>1, <2>2, <2>4
  <2> QED BY <1>13, <2>3, <2>4 DEF Finish
<1>14. CASE UNCHANGED vars
  BY <1>14, SessionsFrame
<1> QED
  BY <1>2, <1>3, <1>4, <1>5, <1>7, <1>8, <1>9, <1>10, <1>11, <1>12, <1>13, <1>14
     DEF Next, Step, SendWithToken, SendAfterLogin, At

LEMMA Initial == Init => IInv
<1> SUFFICES ASSUME Init PROVE IInv
  OBVIOUS
<1> USE ClientAssumption
<1>1. Idle \in CallStates
  BY DEF CallStates, Idle, Codes
<1>2. TypeOK
  BY <1>1 DEF Init, TypeOK, Tokens
<1>3. \A c \in Calls : call[c] = Idle /\ net[c] = {} /\ carried[c] = 0 /\ upset[c] = 0
  BY DEF Init
<1>4. /\ Idle.pc = "idle" /\ Idle.attempt = 1 /\ Idle.reauthed = FALSE
      /\ MaxAttempts \in Nat /\ 1 <= MaxAttempts
  BY DEF Idle
<1>5. \A c \in Calls : Numbered(c)
  BY <1>3, <1>4 DEF Numbered, At, Running
<1>6. \A c \in Calls : Effects(c)
  BY <1>3, <1>4 DEF Effects, At
<1>7. \A c \in Calls : Sessions(c)
  BY <1>3, <1>4 DEF Sessions, At, Running
<1> QED BY <1>2, <1>5, <1>6, <1>7 DEF IInv

\* The inductive invariant of Client.do.
THEOREM Invariance == Spec => []IInv
<1>1. IInv /\ [Next]_vars => IInv'
  BY TypeStep, EffectsStep, SessionsStep DEF IInv
<1> QED BY Initial, <1>1, PTL DEF Spec

\* Every variable keeps its type, so no call is tried more than MaxAttempts + 1
\* times although a 401 is tried again without being counted.
THEOREM Typing == Spec => []TypeOK
BY Invariance, PTL DEF IInv

\* Retries are bounded: maxAttempts requests, and one more after a 401.
THEOREM Bounded == Spec => []RequestsBounded
<1>1. IInv => RequestsBounded
  BY DEF IInv, Numbered, RequestsBounded, Running
<1> QED BY Invariance, <1>1, PTL

\* A caller is told 401 only if two sessions ended under it, or one did and
\* another call threw a good one away.
THEOREM Cause == Spec => []UnauthorizedHasCause
<1>1. IInv => UnauthorizedHasCause
  BY DEF IInv, Sessions, UnauthorizedHasCause
<1> QED BY Invariance, <1>1, PTL

told == [c \in Calls |-> ToldBy(c)]

\* Every step of Client.do is a step of its contract, or changes nothing that
\* the contract speaks of.
THEOREM ContractStep ==
    IInv /\ IInv' /\ [Next]_vars => [Contract!Next]_(Contract!vars)
<1> SUFFICES ASSUME IInv, IInv', [Next]_vars
             PROVE  Contract!Next \/ UNCHANGED <<told, carried>>
  BY DEF Contract!vars, told
<1> USE DEF vars, session
<1>1. TypeOK /\ TypeOK' /\ \A c \in Calls : Numbered(c) /\ Effects(c) /\ Effects(c)'
  BY DEF IInv
<1>2. ASSUME NEW c \in Calls, \A d \in Calls \ {c} : call'[d] = call[d]
      PROVE  told' = [told EXCEPT ![c] = ToldBy(c)']
  <2>1. \A d \in Calls \ {c} : ToldBy(d)' = ToldBy(d)
    BY <1>2 DEF ToldBy, At
  <2> QED BY <2>1 DEF told
<1>3. ASSUME NEW c \in Calls, \A d \in Calls \ {c} : call'[d] = call[d],
             ToldBy(c)' = ToldBy(c)
      PROVE  UNCHANGED told
  BY <1>2, <1>3 DEF told
<1>4. ASSUME NEW c \in Calls, Begin(c) PROVE Contract!Next
  <2>1. /\ At(c, "idle") /\ call'[c].pc = "token" /\ UNCHANGED carried
        /\ \A d \in Calls \ {c} : call'[d] = call[d]
    BY <1>1, <1>4 DEF Begin, Goto, TypeOK, CallStates
  <2>2. ToldBy(c) = "idle" /\ ToldBy(c)' = "asked"
    BY <2>1 DEF ToldBy, At
  <2>3. Contract!Ask(c)
    BY <1>2, <2>1, <2>2 DEF Contract!Ask, told
  <2> QED BY <2>3 DEF Contract!Next
<1>5. ASSUME NEW c \in Calls, Running(c), call'[c].pc \notin {"idle", "done"},
             \A d \in Calls \ {c} : call'[d] = call[d]
      PROVE  UNCHANGED told
  <2>1. ToldBy(c) = "asked" /\ ToldBy(c)' = "asked"
    BY <1>5 DEF ToldBy, Running, At
  <2> QED BY <1>3, <1>5, <2>1
<1>6. ASSUME NEW c \in Calls,
             \/ SendWithToken(c) \/ NeedsLogin(c) \/ Login(c) \/ SendAfterLogin(c)
             \/ Unauthorized(c) \/ Retry(c) \/ BackoffOver(c)
      PROVE  UNCHANGED <<told, carried>>
  <2>1. Running(c) /\ UNCHANGED carried
    BY <1>6 DEF SendWithToken, NeedsLogin, Login, SendAfterLogin, Unauthorized, Retry,
                BackoffOver, Send, Running, At
  <2>2. PICK p \in {"wait", "login", "reread", "token", "backoff"} :
            call'[c].pc = p /\ \A d \in Calls \ {c} : call'[d] = call[d]
    BY <1>1, <1>6 DEF SendWithToken, NeedsLogin, Login, SendAfterLogin, Unauthorized, Retry,
                      BackoffOver, Send, Goto, TypeOK, CallStates
  <2> QED BY <1>5, <2>1, <2>2
<1>7. ASSUME NEW c \in Calls, Running(c), UNCHANGED carried,
             NEW r \in {"ok", "missing", "refused", "unauthorized", "busy", "unknown"},
             End(c, r)
      PROVE  Contract!Next
  <2>1. /\ call'[c].pc = "done" /\ call'[c].result = r
        /\ \A d \in Calls \ {c} : call'[d] = call[d]
    BY <1>1, <1>7 DEF End, Idle, TypeOK
  <2> DEFINE answer == IF r \in {"ok", "unknown"} THEN r ELSE "refused"
  <2>2. ToldBy(c) = "asked" /\ ToldBy(c)' = answer
    BY <1>7, <2>1 DEF ToldBy, Running, At
  <2>3. answer = "ok" => carried[c] > 0
    BY <1>1, <1>7, <2>1 DEF Effects, At
  <2>4. answer = "refused" /\ c \in Posts => carried[c] = 0
    BY <1>1, <1>7, <2>1 DEF Effects, At
  <2>5. Contract!Answer(c, answer)
    BY <1>2, <1>7, <2>1, <2>2, <2>3, <2>4 DEF Contract!Answer, told
  <2>6. answer \in {"ok", "refused", "unknown"}
    OBVIOUS
  <2> QED BY <2>5, <2>6 DEF Contract!Next
<1>8. ASSUME NEW c \in Calls, LoginFails(c) PROVE Contract!Next
  BY <1>7, <1>8 DEF LoginFails, Running, At
<1>9. ASSUME NEW c \in Calls, BackoffCut(c) PROVE Contract!Next
  BY <1>7, <1>9 DEF BackoffCut, Running, At
<1>10. ASSUME NEW c \in Calls, Finish(c) PROVE Contract!Next
  <2>1. call[c].code \in Codes
    BY <1>1 DEF TypeOK, CallStates
  <2> QED BY <1>7, <1>10, <2>1 DEF Finish, Running, At, Codes
<1>11. ASSUME NEW c \in Calls, TransportError(c)
       PROVE  Contract!Next \/ UNCHANGED <<told, carried>>
  <2>1. CASE End(c, "unknown")
    BY <1>7, <1>11, <2>1 DEF TransportError, Running, At
  <2>2. CASE call' = [call EXCEPT ![c].pc = "backoff", ![c].code = "failed"]
    <3>1. call'[c].pc = "backoff" /\ \A d \in Calls \ {c} : call'[d] = call[d]
      BY <1>1, <2>2 DEF TypeOK, CallStates
    <3> QED BY <1>5, <1>11, <3>1 DEF TransportError, Running, At
  <2> QED BY <1>11, <2>1, <2>2 DEF TransportError
<1>12. ASSUME NEW c \in Calls, NEW m \in net[c], Handle(c, m)
       PROVE  Contract!Next \/ UNCHANGED <<told, carried>>
  <2>1. PICK code \in Codes, did \in BOOLEAN :
            /\ carried' = IF did THEN [carried EXCEPT ![c] = @ + 1] ELSE carried
            /\ \/ UNCHANGED call
               \/ /\ At(c, "wait") /\ call[c].attempt = m.n
                  /\ call' = [call EXCEPT ![c].pc = "answer", ![c].code = code]
    BY <1>12 DEF Handle
  <2>2. UNCHANGED told
    <3>1. CASE UNCHANGED call
      BY <3>1 DEF told, ToldBy, At
    <3>2. CASE At(c, "wait") /\ call' = [call EXCEPT ![c].pc = "answer", ![c].code = code]
      <4>1. call'[c].pc = "answer" /\ \A d \in Calls \ {c} : call'[d] = call[d]
        BY <1>1, <3>2 DEF TypeOK, CallStates
      <4> QED BY <1>5, <3>2, <4>1 DEF Running, At
    <3> QED BY <2>1, <3>1, <3>2
  <2>3. CASE did
    <3>1. ~At(c, "idle")
      BY <1>1 DEF Numbered
    <3>2. ToldBy(c) # "idle"
      BY <3>1 DEF ToldBy
    <3>3. c \in Posts => carried[c] = 0 /\ (At(c, "wait") \/ (At(c, "done") /\ call[c].result = "unknown"))
      BY <1>1 DEF Effects
    <3>4. c \in Posts => ToldBy(c) # "refused"
      BY <3>3 DEF ToldBy, At
    <3>5. Contract!Do(c)
      BY <2>1, <2>2, <2>3, <3>2, <3>3, <3>4 DEF Contract!Do, told
    <3> QED BY <3>5 DEF Contract!Next
  <2> QED BY <2>1, <2>2, <2>3
<1>13. ASSUME NEW t \in valid, Expire(t) PROVE UNCHANGED <<told, carried>>
  BY <1>13 DEF Expire, told, ToldBy, At
<1>14. CASE UNCHANGED vars
  BY <1>14 DEF told, ToldBy, At
<1> QED
  BY <1>4, <1>6, <1>8, <1>9, <1>10, <1>11, <1>12, <1>13, <1>14 DEF Next, Step

\* do keeps the contract of ArrayCall: a POST is carried out once at most, what
\* was answered "ok" was carried out, and a POST that was refused has not been
\* and never will be.
THEOREM Refinement == Spec => KeepsContract
<1>1. Init => Contract!Init
  BY DEF Init, Contract!Init, ToldBy, At, Idle
<1>2. IInv /\ IInv' /\ [Next]_vars => [Contract!Next]_(Contract!vars)
  BY ContractStep
<1> QED BY Invariance, <1>1, <1>2, PTL DEF Spec, KeepsContract, Contract!Spec
============================================================================
