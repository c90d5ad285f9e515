------------------------------ MODULE Takeover ------------------------------
(***************************************************************************)
(* Several nodes and one volume: how a Mount waits for the node that has   *)
(* the volume, and when it disconnects it by force (takeOver, markHeld and *)
(* clearHeld in internal/driver/driver.go), against the two ways a node    *)
(* keeps a volume it does not use: the linger after its last container and *)
(* the attachment kept for a device that was late.                         *)
(*                                                                         *)
(* Time is counted in ticks, the greatest common unit of the settings.     *)
(* Tick lets one pass and is held up by what the code does faster than     *)
(* that: a poll of a waiting Mount and a timer that is due.  Every age is  *)
(* capped where the code stops telling values apart.                       *)
(***************************************************************************)
EXTENDS Integers, FiniteSets

CONSTANTS
    Nodes,
    Grace,      \* FA_PREEMPT_GRACE
    MaxWait,    \* maxReleaseWait: the longest one Mount waits
    StaleHold,  \* staleHold: a record not refreshed for longer is dropped
    Linger,     \* FA_UNMOUNT_LINGER
    KeepFor,    \* keepFor(): half the grace
    MaxFailures \* bound: how often an array call of takeOver fails

ASSUME SettingsAssumption ==
    /\ Grace \in Nat \ {0} /\ MaxWait \in Nat \ {0} /\ StaleHold \in Nat
    /\ MaxFailures \in Nat
    /\ Linger \in Nat /\ KeepFor \in Nat /\ KeepFor = Grace \div 2
    /\ Linger > 0 => Linger < MaxWait /\ 2 * Linger <= Grace  \* config.ValidateLinger

VARIABLES
    conn,    \* the array: the nodes the volume is connected to
    state,   \* what each node does with the volume
    timer,   \* age of the node's linger or keep timer
    hold,    \* heldSince: what each node remembers of the holders it saw
    seen,    \* the holders a waiting or preempting Mount read last
    left,    \* ticks until its wait is over
    polled,  \* it has listed the connections since the last tick
    failures,\* array calls that failed so far
    watched  \* history: ticks since a node first saw a host, if no look since missed
             \* it and no two looks were more than StaleHold apart

vars == <<conn, state, timer, hold, seen, left, polled, failures, watched>>

mountVars == <<seen, left, polled>>

NoHold == [hosts |-> {}, since |-> 0, seen |-> 0]

\* Not mounted: "out", or "retry" between a Mount that failed and Docker's next
\* one.  A Mount: "waiting", "preempting", "attaching" (about to connect),
\* "linking" (connected).  Mounted: "in" use, or "linger".  And "dead".
\* An attachment is kept while a node that has not mounted has a timer: it runs
\* on under a Mount that retries.
States == {"out", "retry", "waiting", "preempting", "attaching", "linking",
           "in", "linger", "dead"}

Asking == {"out", "retry"}

Off == -1  \* no timer

Watch == 0..Grace

TypeOK ==
    /\ conn \subseteq Nodes
    /\ state \in [Nodes -> States]
    /\ timer \in [Nodes -> {Off} \union Nat]
    /\ hold \in [Nodes -> [hosts : SUBSET Nodes, since : 0..Grace, seen : 0..(StaleHold + 1)]]
    /\ seen \in [Nodes -> SUBSET Nodes]
    /\ left \in [Nodes -> 0..MaxWait]
    /\ polled \in [Nodes -> BOOLEAN]
    /\ failures \in 0..MaxFailures
    /\ watched \in [Nodes -> [Nodes -> {Off} \union Watch]]

Init ==
    /\ conn = {}
    /\ state = [n \in Nodes |-> "out"]
    /\ timer = [n \in Nodes |-> Off]
    /\ hold = [n \in Nodes |-> NoHold]
    /\ seen = [n \in Nodes |-> {}]
    /\ left = [n \in Nodes |-> 0]
    /\ polled = [n \in Nodes |-> FALSE]
    /\ failures = 0
    /\ watched = [n \in Nodes |-> [m \in Nodes |-> Off]]

-----------------------------------------------------------------------------
(* What a node remembers of the holders. *)

Lesser(a, b) == IF a < b THEN a ELSE b

\* Mutant: a record is never too old to go by.
MarkedHoweverOld(n, others) ==
    [hosts |-> others, seen |-> 0, since |-> IF hold[n].hosts = others THEN hold[n].since ELSE 0]

\* Mutant: every look starts the record anew.
MarkedAnew(n, others) == [hosts |-> others, since |-> 0, seen |-> 0]

\* markHeld: the record goes on for exactly the same hosts, unless no Mount
\* has refreshed it for too long; otherwise it starts now.
Marked(n, others) ==
    [hosts |-> others, seen |-> 0,
     since |-> IF hold[n].hosts = others /\ hold[n].seen <= StaleHold
               THEN hold[n].since ELSE 0]

\* clearHeld
Cleared(n) == [hold EXCEPT ![n] = NoHold]

\* A look of n at the connections, as the history keeps it.
Looked(n, others) ==
    [watched EXCEPT ![n] = [m \in Nodes |->
        IF m \notin others THEN Off ELSE IF @[m] = Off THEN 0 ELSE @[m]]]

\* An array call fails, no more often than the bound.
Failure == failures < MaxFailures /\ failures' = failures + 1

\* The Mount is over: what it read and waited for goes with it.
MountOver(n) ==
    /\ seen' = [seen EXCEPT ![n] = {}]
    /\ left' = [left EXCEPT ![n] = 0]
    /\ polled' = [polled EXCEPT ![n] = FALSE]

Go(n, s) == state' = [state EXCEPT ![n] = s]

-----------------------------------------------------------------------------
(* takeOver. *)

\* A Mount comes and nobody else has the volume.
AskFree(n) ==
    /\ state[n] \in Asking /\ conn \subseteq {n}
    /\ Go(n, "attaching") /\ hold' = Cleared(n) /\ watched' = Looked(n, {})
    /\ UNCHANGED <<conn, timer, mountVars, failures>>

\* Mutant: one Mount waits for the whole grace.
AskHeldUncapped(n) ==
    LET others == conn \ {n}
        mark   == Marked(n, others)
    IN
    /\ state[n] \in Asking /\ others # {}
    /\ Go(n, "waiting") /\ hold' = [hold EXCEPT ![n] = mark]
    /\ seen' = [seen EXCEPT ![n] = others]
    /\ left' = [left EXCEPT ![n] = Grace - mark.since]
    /\ polled' = [polled EXCEPT ![n] = TRUE]
    /\ watched' = Looked(n, others)
    /\ UNCHANGED <<conn, timer, failures>>

\* It finds others and waits: for what is left of the grace, but not for long.
AskHeld(n) ==
    LET others == conn \ {n}
        mark   == Marked(n, others)
    IN
    /\ state[n] \in Asking /\ others # {}
    /\ Go(n, "waiting") /\ hold' = [hold EXCEPT ![n] = mark]
    /\ seen' = [seen EXCEPT ![n] = others]
    /\ left' = [left EXCEPT ![n] = Lesser(Grace - mark.since, MaxWait)]
    /\ polled' = [polled EXCEPT ![n] = TRUE]
    /\ watched' = Looked(n, others)
    /\ UNCHANGED <<conn, timer, failures>>

\* The first list of the connections fails: the record is dropped.
AskFails(n) ==
    /\ state[n] \in Asking /\ Failure
    /\ Go(n, "retry") /\ hold' = Cleared(n) /\ watched' = Looked(n, {})
    /\ UNCHANGED <<conn, timer, mountVars>>

\* Docker gives the mount up, or the task is moved to another node.
NoRetry(n) ==
    /\ state[n] = "retry" /\ Go(n, "out")
    /\ UNCHANGED <<conn, timer, hold, mountVars, failures, watched>>

PollFree(n) ==
    /\ state[n] = "waiting" /\ ~polled[n] /\ conn \subseteq {n}
    /\ Go(n, "attaching") /\ hold' = Cleared(n) /\ watched' = Looked(n, {})
    /\ MountOver(n)
    /\ UNCHANGED <<conn, timer, failures>>

PollHeld(n) ==
    LET others == conn \ {n} IN
    /\ state[n] = "waiting" /\ ~polled[n] /\ others # {}
    /\ hold' = [hold EXCEPT ![n] = Marked(n, others)]
    /\ seen' = [seen EXCEPT ![n] = others]
    /\ polled' = [polled EXCEPT ![n] = TRUE]
    /\ watched' = Looked(n, others)
    /\ UNCHANGED <<conn, state, timer, left, failures>>

\* A poll fails: the record stays for the next Mount.
PollFails(n) ==
    /\ state[n] = "waiting" /\ Failure
    /\ Go(n, "retry") /\ MountOver(n)
    /\ UNCHANGED <<conn, timer, hold, watched>>

\* The wait is over, the last poll done.
WaitOver(n) == state[n] = "waiting" /\ polled[n] /\ left[n] = 0

GiveUp(n) ==
    /\ WaitOver(n) /\ hold[n].since < Grace
    /\ Go(n, "retry") /\ MountOver(n)
    /\ UNCHANGED <<conn, timer, hold, failures, watched>>

GraceSpent(n) ==
    /\ WaitOver(n) /\ hold[n].since >= Grace
    /\ Go(n, "preempting")
    /\ UNCHANGED <<conn, timer, hold, mountVars, watched, failures>>

\* The hosts of the last list are disconnected one after the other.
Preempt(n, h) ==
    /\ state[n] = "preempting" /\ h \in seen[n]
    /\ conn' = conn \ {h}
    /\ IF seen[n] = {h}
       THEN /\ Go(n, "attaching") /\ hold' = Cleared(n) /\ watched' = Looked(n, {})
            /\ MountOver(n)
       ELSE /\ seen' = [seen EXCEPT ![n] = @ \ {h}]
            /\ UNCHANGED <<state, hold, watched, left, polled>>
    /\ UNCHANGED <<timer, failures>>

PreemptFails(n) ==
    /\ state[n] = "preempting" /\ Failure
    /\ Go(n, "retry") /\ MountOver(n)
    /\ UNCHANGED <<conn, timer, hold, watched>>

-----------------------------------------------------------------------------
(* The rest of Mount, and what ends a node's hold on the volume. *)

Connect(n) ==
    /\ state[n] = "attaching"
    /\ Go(n, "linking") /\ conn' = conn \union {n}
    /\ UNCHANGED <<timer, hold, mountVars, watched, failures>>

\* Mounted: a kept attachment's timer is handed over.
Mounted(n) ==
    /\ state[n] = "linking"
    /\ Go(n, "in") /\ timer' = [timer EXCEPT ![n] = Off]
    /\ UNCHANGED <<conn, hold, mountVars, watched, failures>>

\* The device was late: the attachment is kept and its timer armed anew.
Late(n) ==
    /\ state[n] = "linking"
    /\ Go(n, "retry") /\ timer' = [timer EXCEPT ![n] = 0]
    /\ UNCHANGED <<conn, hold, mountVars, watched, failures>>

RolledBack(n) ==
    /\ state[n] = "linking"
    /\ Go(n, "retry") /\ conn' = conn \ {n}
    /\ UNCHANGED <<timer, hold, mountVars, watched, failures>>

\* keepExpired; with a Mount under way it waits for that one's lock.
KeepEnds(n) ==
    /\ state[n] \in Asking /\ timer[n] >= KeepFor
    /\ conn' = conn \ {n} /\ timer' = [timer EXCEPT ![n] = Off]
    /\ UNCHANGED <<state, hold, mountVars, watched, failures>>

\* The last container let go.
LastUnmount(n) ==
    /\ state[n] = "in"
    /\ IF Linger > 0
       THEN Go(n, "linger") /\ timer' = [timer EXCEPT ![n] = 0] /\ UNCHANGED conn
       ELSE Go(n, "out") /\ conn' = conn \ {n} /\ UNCHANGED timer
    /\ UNCHANGED <<hold, mountVars, watched, failures>>

Remount(n) ==
    /\ state[n] = "linger"
    /\ Go(n, "in") /\ timer' = [timer EXCEPT ![n] = Off]
    /\ UNCHANGED <<conn, hold, mountVars, watched, failures>>

LingerEnds(n) ==
    /\ state[n] = "linger" /\ timer[n] >= Linger
    /\ Go(n, "out") /\ conn' = conn \ {n} /\ timer' = [timer EXCEPT ![n] = Off]
    /\ UNCHANGED <<hold, mountVars, watched, failures>>

\* A node dies with the volume connected; the array does not notice.
Dies(n) ==
    /\ state[n] \in {"linking", "in", "linger"}
    /\ Go(n, "dead") /\ timer' = [timer EXCEPT ![n] = Off]
    /\ hold' = Cleared(n)
    /\ UNCHANGED <<conn, mountVars, failures, watched>>

\* It comes back: its containers are gone, its connection is not.
Reboots(n) ==
    /\ state[n] = "dead" /\ Go(n, "out")
    /\ UNCHANGED <<conn, timer, hold, mountVars, failures, watched>>

-----------------------------------------------------------------------------
\* What is due before the next tick: a poll, the end of a wait, a timer, and
\* Docker's retry, which comes before the record of the last Mount is stale.
Due(n) ==
    \/ state[n] = "waiting" /\ (~polled[n] \/ left[n] = 0)
    \/ state[n] = "linger" /\ timer[n] >= Linger
    \/ state[n] \in Asking /\ timer[n] >= KeepFor
    \/ state[n] = "retry" /\ hold[n] # NoHold /\ hold[n].seen = StaleHold

Older(age, cap) == IF age = Off THEN Off ELSE Lesser(age + 1, cap)

Tick ==
    /\ \A n \in Nodes : ~Due(n)
    /\ timer' = [n \in Nodes |-> Older(timer[n], Grace)]
    /\ hold' = [n \in Nodes |->
                  IF hold[n] = NoHold THEN NoHold
                  ELSE [hosts |-> hold[n].hosts, since |-> Lesser(hold[n].since + 1, Grace),
                        seen |-> Lesser(hold[n].seen + 1, StaleHold + 1)]]
    /\ left' = [n \in Nodes |-> IF state[n] = "waiting" THEN left[n] - 1 ELSE 0]
    /\ polled' = [n \in Nodes |-> FALSE]
    /\ watched' = [n \in Nodes |-> [m \in Nodes |->
                     IF state[n] \in Asking /\ hold[n].seen >= StaleHold
                     THEN Off ELSE Older(watched[n][m], Grace)]]
    /\ UNCHANGED <<conn, state, seen, failures>>

NodeStep(n) ==
    \/ AskFree(n) \/ AskHeld(n) \/ AskFails(n) \/ NoRetry(n)
    \/ PollFree(n) \/ PollHeld(n) \/ PollFails(n)
    \/ GiveUp(n) \/ GraceSpent(n) \/ PreemptFails(n)
    \/ \E h \in Nodes : Preempt(n, h)
    \/ Connect(n) \/ Mounted(n) \/ Late(n) \/ RolledBack(n) \/ KeepEnds(n)
    \/ LastUnmount(n) \/ Remount(n) \/ LingerEnds(n)
    \/ Dies(n) \/ Reboots(n)

Next == Tick \/ \E n \in Nodes : NodeStep(n)

Spec == Init /\ [][Next]_vars

(***************************************************************************)
(* Fairness: time passes, a Mount under way goes on (polls, the decision,  *)
(* the disconnects), Docker retries a Mount that failed (or gives it up).  *)
(***************************************************************************)
Fairness ==
    /\ WF_vars(Tick)
    /\ \A n \in Nodes :
          /\ WF_vars(AskFree(n) \/ AskHeld(n))
          /\ WF_vars(PollFree(n) \/ PollHeld(n))
          /\ WF_vars(GiveUp(n) \/ GraceSpent(n) \/ \E h \in Nodes : Preempt(n, h))
          /\ WF_vars(Connect(n)) /\ WF_vars(Mounted(n))
          /\ WF_vars(KeepEnds(n)) /\ WF_vars(LingerEnds(n))

FairSpec == Spec /\ Fairness

-----------------------------------------------------------------------------
(***************************************************************************)
(* A node is disconnected by force only after the node that does it has    *)
(* seen it connected at every look over the whole grace, looks that lay no *)
(* further apart than staleHold: a holder that came later than the one     *)
(* first waited for gets a grace of its own (markHeld, takeOver).          *)
(***************************************************************************)
PreemptsOnlyAfterGrace ==
    [][\A n, h \in Nodes : Preempt(n, h) => watched[n][h] >= Grace]_vars

(***************************************************************************)
(* A node that died with the volume does not keep it from a node whose     *)
(* Mount Docker goes on retrying (takeOver, markHeld's record across       *)
(* Mounts, staleHold).                                                     *)
(***************************************************************************)
DeadHolderGivesWay ==
    \A n, h \in Nodes :
        (state[h] = "dead" /\ h \in conn /\ state[n] = "waiting")
            ~> (h \notin conn \/ state[h] # "dead" \/ state[n] \in {"out", "dead"})
=============================================================================
