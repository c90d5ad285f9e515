-------------------------- MODULE Takeover_proofs --------------------------
(***************************************************************************)
(* Takeover, for every set of nodes and every setting the code accepts: a  *)
(* node is disconnected by force only after it was seen connected over the *)
(* whole grace.                                                            *)
(*                                                                         *)
(* The argument: while a record of holders is not stale, each of its hosts *)
(* has been watched for at least as long as the record says (RecordSeen);  *)
(* a Mount that waits has read exactly the hosts of its record, and at a   *)
(* poll it refreshed it (WaitRecorded); so whom it disconnects has been    *)
(* watched for the grace (ChosenSeen), and stays so while it goes on.      *)
(***************************************************************************)
EXTENDS Takeover, TLAPS

RecordSeen ==
    \A n \in Nodes : hold[n].seen <= StaleHold =>
        \A m \in hold[n].hosts : watched[n][m] >= hold[n].since

WaitRecorded ==
    \A n \in Nodes : state[n] = "waiting" =>
        seen[n] = hold[n].hosts /\ (polled[n] => hold[n].seen = 0)

ChosenSeen ==
    \A n \in Nodes : state[n] = "preempting" =>
        \A m \in seen[n] : watched[n][m] >= Grace

IInv == TypeOK /\ RecordSeen /\ WaitRecorded /\ ChosenSeen

Records == [hosts : SUBSET Nodes, since : 0..Grace, seen : 0..(StaleHold + 1)]

\* markHeld refreshes the record; it goes on only for the same hosts while it is
\* not stale.
LEMMA MarkedRecord ==
    ASSUME TypeOK, NEW n \in Nodes, NEW others \in SUBSET Nodes
    PROVE  /\ Marked(n, others) \in Records
           /\ Marked(n, others).hosts = others /\ Marked(n, others).seen = 0
           /\ Marked(n, others).since # 0 =>
                 /\ hold[n].hosts = others /\ hold[n].seen <= StaleHold
                 /\ Marked(n, others).since = hold[n].since
<1> USE SettingsAssumption DEF TypeOK, Records, Marked
<1>1. CASE hold[n].hosts = others /\ hold[n].seen <= StaleHold
  BY <1>1
<1>2. CASE ~(hold[n].hosts = others /\ hold[n].seen <= StaleHold)
  BY <1>2
<1> QED BY <1>1, <1>2

\* A look starts the watch of a host that comes into sight, and ends that of one
\* that is gone.
LEMMA LookedWatch ==
    ASSUME TypeOK, NEW n \in Nodes, NEW others \in SUBSET Nodes
    PROVE  /\ Looked(n, others) \in [Nodes -> [Nodes -> {Off} \union Watch]]
           /\ \A m \in Nodes \ {n} : Looked(n, others)[m] = watched[m]
           /\ \A m \in others : /\ Looked(n, others)[n][m] >= 0
                              /\ Looked(n, others)[n][m] >= watched[n][m]
  BY SettingsAssumption DEF TypeOK, Looked, Off, Watch

\* A look at the holders, at the first one of a Mount or at a poll, keeps what the
\* records tell true.
LEMMA LookStep ==
    ASSUME IInv, NEW n \in Nodes, NEW others \in SUBSET Nodes, state[n] # "preempting",
           state'[n] = "waiting", \A m \in Nodes \ {n} : state'[m] = state[m],
           hold' = [hold EXCEPT ![n] = Marked(n, others)],
           seen' = [seen EXCEPT ![n] = others],
           polled' = [polled EXCEPT ![n] = TRUE],
           watched' = Looked(n, others)
    PROVE  RecordSeen' /\ WaitRecorded' /\ ChosenSeen'
<1> USE DEF IInv, TypeOK
<1>1. /\ hold'[n] = Marked(n, others) /\ hold'[n].hosts = others
      /\ \A m \in Nodes \ {n} : hold'[m] = hold[m]
  BY MarkedRecord
<1>0. /\ \A m \in Nodes \ {n} : watched'[m] = watched[m]
      /\ \A k \in others : watched'[n][k] >= 0 /\ watched'[n][k] >= watched[n][k]
  BY LookedWatch
<1>2. RecordSeen'
  <2> SUFFICES ASSUME NEW m \in Nodes, hold'[m].seen <= StaleHold, NEW k \in hold'[m].hosts
               PROVE  watched'[m][k] >= hold'[m].since
    BY DEF RecordSeen
  <2>1. CASE m # n
    BY <2>1, <1>1, <1>0 DEF RecordSeen
  <2>2. CASE m = n
    <3>1. k \in others /\ k \in Nodes
      BY <2>2, <1>1
    <3>2. watched'[n][k] >= 0 /\ watched'[n][k] >= watched[n][k]
      BY <3>1, <1>0
    <3>3. CASE hold'[n].since = 0
      BY <2>2, <3>2, <3>3
    <3>4. CASE hold'[n].since # 0
      <4>1. hold[n].hosts = others /\ hold[n].seen <= StaleHold
            /\ hold'[n].since = hold[n].since
        BY <1>1, <3>4, MarkedRecord
      <4>2. watched[n][k] >= hold[n].since
        BY <4>1, <3>1 DEF RecordSeen
      <4>3. watched[n][k] \in Int /\ hold[n].since \in Int
        BY <3>1, SettingsAssumption DEF Off, Watch
      <4>4. watched'[n][k] \in Int
        BY <3>1, LookedWatch, SettingsAssumption DEF Off, Watch
      <4> QED BY <2>2, <3>2, <4>1, <4>2, <4>3, <4>4
    <3> QED BY <3>3, <3>4
  <2> QED BY <2>1, <2>2
<1>3. WaitRecorded'
  BY <1>1, MarkedRecord DEF WaitRecorded
<1>4. ChosenSeen'
  <2> SUFFICES ASSUME NEW m \in Nodes, state'[m] = "preempting"
               PROVE  \A k \in seen'[m] : watched'[m][k] >= Grace
    BY DEF ChosenSeen
  <2>1. m # n
    OBVIOUS
  <2>2. state[m] = "preempting" /\ seen'[m] = seen[m] /\ watched'[m] = watched[m]
    BY <2>1, <1>0
  <2> QED BY <2>2 DEF ChosenSeen
<1> QED BY <1>2, <1>3, <1>4

\* A tick: every age grows by one up to its cap.
LEMMA TickStep ==
    ASSUME IInv, Tick
    PROVE  RecordSeen' /\ WaitRecorded' /\ ChosenSeen'
<1>1. ASSUME NEW n \in Nodes
      PROVE  /\ hold[n].hosts \subseteq Nodes /\ hold[n].since \in 0..Grace
             /\ hold[n].seen \in 0..(StaleHold + 1) /\ seen[n] \subseteq Nodes
             /\ \A m \in Nodes : watched[n][m] \in {Off} \union Watch
  BY DEF IInv, TypeOK
<1>2. ASSUME NEW n \in Nodes
      PROVE  /\ hold'[n].hosts = hold[n].hosts
             /\ hold[n] # NoHold =>
                  /\ hold'[n].since = Lesser(hold[n].since + 1, Grace)
                  /\ hold'[n].seen = Lesser(hold[n].seen + 1, StaleHold + 1)
  BY DEF Tick, NoHold
<1>3. ASSUME NEW n \in Nodes, NEW m \in Nodes, ~(state[n] \in Asking /\ hold[n].seen >= StaleHold)
      PROVE  watched'[n][m] = Older(watched[n][m], Grace)
  BY <1>3 DEF Tick
<1>4. ASSUME NEW n \in Nodes, NEW m \in Nodes, NEW a \in 0..Grace, watched[n][m] >= a,
             ~(state[n] \in Asking /\ hold[n].seen >= StaleHold)
      PROVE  watched'[n][m] >= Lesser(a + 1, Grace)
  BY <1>1, <1>3, <1>4, SettingsAssumption DEF Older, Lesser, Off, Watch
<1>5. RecordSeen'
  <2> SUFFICES ASSUME NEW n \in Nodes, hold'[n].seen <= StaleHold, NEW m \in hold'[n].hosts
               PROVE  watched'[n][m] >= hold'[n].since
    BY DEF RecordSeen
  <2>1. m \in hold[n].hosts /\ m \in Nodes /\ hold[n] # NoHold
    BY <1>1, <1>2 DEF NoHold
  <2>2. hold[n].seen < StaleHold
    BY <1>1, <1>2, <2>1, SettingsAssumption DEF Lesser
  <2>3. watched[n][m] >= hold[n].since
    BY <1>1, <2>1, <2>2, SettingsAssumption DEF IInv, RecordSeen
  <2> QED BY <1>1, <1>2, <1>4, <2>1, <2>2, <2>3, SettingsAssumption
<1>6. WaitRecorded'
  BY <1>2 DEF IInv, WaitRecorded, Tick, TypeOK
<1>7. ChosenSeen'
  <2> SUFFICES ASSUME NEW n \in Nodes, state[n] = "preempting", NEW m \in seen[n]
               PROVE  watched'[n][m] >= Grace
    BY DEF ChosenSeen, Tick
  <2>1. m \in Nodes /\ watched[n][m] >= Grace
    BY <1>1 DEF IInv, ChosenSeen
  <2> QED BY <1>4, <2>1, SettingsAssumption DEF Lesser, Asking
<1> QED BY <1>5, <1>6, <1>7
\* A forced disconnect goes on with the rest of what the Mount read.
LEMMA PreemptGoesOn ==
    ASSUME NEW n \in Nodes, NEW k \in Nodes, Preempt(n, k), seen[n] # {k}
    PROVE  /\ conn' = conn \ {k} /\ seen' = [seen EXCEPT ![n] = seen[n] \ {k}]
           /\ UNCHANGED <<state, timer, hold, left, polled, watched, failures>>
  BY DEF Preempt

\* After the last one the Mount attaches, and its record is dropped.
LEMMA PreemptDone ==
    ASSUME NEW n \in Nodes, NEW k \in Nodes, Preempt(n, k), seen[n] = {k}
    PROVE  /\ conn' = conn \ {k} /\ state' = [state EXCEPT ![n] = "attaching"]
           /\ hold' = [hold EXCEPT ![n] = NoHold] /\ watched' = Looked(n, {})
           /\ seen' = [seen EXCEPT ![n] = {}] /\ left' = [left EXCEPT ![n] = 0]
           /\ polled' = [polled EXCEPT ![n] = FALSE] /\ UNCHANGED <<timer, failures>>
  BY DEF Preempt, Go, Cleared, MountOver

-----------------------------------------------------------------------------
(* The invariant, one step per action. *)

\* Every step of Takeover keeps its state well typed.
THEOREM TypeStep == TypeOK /\ [Next]_vars => TypeOK'
<1> SUFFICES ASSUME TypeOK, [Next]_vars
             PROVE  TypeOK'
  OBVIOUS
<1> USE DEF TypeOK, States, Off, Watch, NoHold, Go, Lesser, mountVars, Asking
<1>1. ASSUME Tick PROVE TypeOK'
  <2>1. hold' \in [Nodes -> Records]
    <3>1. ASSUME NEW n \in Nodes
          PROVE  /\ hold[n].hosts \in SUBSET Nodes /\ hold[n].since \in 0..Grace
                 /\ hold[n].seen \in 0..(StaleHold + 1)
      OBVIOUS
    <3>2. ASSUME NEW n \in Nodes PROVE hold'[n] \in Records
      <4>1. CASE hold[n] = NoHold
        BY <1>1, <4>1, SettingsAssumption DEF Tick, Records
      <4>2. CASE hold[n] # NoHold
        BY <1>1, <3>1, <4>2, SettingsAssumption DEF Tick, Records
      <4> QED BY <4>1, <4>2
    <3>3. hold' = [n \in Nodes |-> hold'[n]]
      BY <1>1 DEF Tick
    <3> QED BY <3>2, <3>3
  <2>2. left' \in [Nodes -> 0..MaxWait]
    <3>1. ASSUME NEW n \in Nodes, state[n] = "waiting" PROVE left[n] - 1 \in 0..MaxWait
      <4>1. left[n] # 0
        BY <1>1, <3>1 DEF Tick, Due
      <4>2. left[n] \in 0..MaxWait /\ MaxWait \in Nat
        BY SettingsAssumption
      <4> QED BY ONLY <4>1, <4>2
    <3> QED BY <1>1, <3>1, SettingsAssumption DEF Tick
  <2>3. timer' \in [Nodes -> {Off} \union Nat]
    BY <1>1, SettingsAssumption DEF Tick, Older
  <2>4. watched' \in [Nodes -> [Nodes -> {Off} \union Watch]]
    BY <1>1, SettingsAssumption DEF Tick, Older
  <2> QED BY <1>1, <2>1, <2>2, <2>3, <2>4 DEF Tick, Records
<1>2. ASSUME NEW n \in Nodes, AskFree(n) PROVE TypeOK'
  BY <1>2, SettingsAssumption DEF AskFree, Cleared, Looked
<1>3. ASSUME NEW n \in Nodes, AskHeld(n) PROVE TypeOK'
  <2>1. conn \ {n} \in SUBSET Nodes
    OBVIOUS
  <2>2. Marked(n, conn \ {n}) \in Records /\ Looked(n, conn \ {n}) \in [Nodes -> [Nodes -> {Off} \union Watch]]
    BY <2>1, MarkedRecord, LookedWatch
  <2>3. Lesser(Grace - Marked(n, conn \ {n}).since, MaxWait) \in 0..MaxWait
    <3>1. Marked(n, conn \ {n}).since \in 0..Grace
      BY <2>2 DEF Records
    <3> QED BY <3>1, SettingsAssumption
  <2> HIDE DEF Lesser
  <2> QED BY <1>3, <2>1, <2>2, <2>3 DEF AskHeld, Records
<1>4. ASSUME NEW n \in Nodes, AskFails(n) PROVE TypeOK'
  BY <1>4, SettingsAssumption DEF AskFails, Cleared, Looked, Failure
<1>5. ASSUME NEW n \in Nodes, NoRetry(n) PROVE TypeOK'
  BY <1>5, SettingsAssumption DEF NoRetry
<1>6. ASSUME NEW n \in Nodes, PollFree(n) PROVE TypeOK'
  BY <1>6, SettingsAssumption DEF PollFree, Cleared, Looked, MountOver
<1>7. ASSUME NEW n \in Nodes, PollHeld(n) PROVE TypeOK'
  <2>1. conn \ {n} \in SUBSET Nodes
    OBVIOUS
  <2>2. Marked(n, conn \ {n}) \in Records /\ Looked(n, conn \ {n}) \in [Nodes -> [Nodes -> {Off} \union Watch]]
    BY <2>1, MarkedRecord, LookedWatch
  <2> QED BY <1>7, <2>1, <2>2 DEF PollHeld, Records
<1>8. ASSUME NEW n \in Nodes, PollFails(n) PROVE TypeOK'
  BY <1>8, SettingsAssumption DEF PollFails, Failure, MountOver
<1>9. ASSUME NEW n \in Nodes, GiveUp(n) PROVE TypeOK'
  BY <1>9, SettingsAssumption DEF GiveUp, WaitOver, MountOver
<1>10. ASSUME NEW n \in Nodes, GraceSpent(n) PROVE TypeOK'
  BY <1>10, SettingsAssumption DEF GraceSpent, WaitOver
<1>11. ASSUME NEW n \in Nodes, PreemptFails(n) PROVE TypeOK'
  BY <1>11, SettingsAssumption DEF PreemptFails, Failure, MountOver
<1>12. ASSUME NEW n \in Nodes, NEW h \in Nodes, Preempt(n, h) PROVE TypeOK'
  <2>1. CASE seen[n] # {h}
    <3>1. /\ conn' = conn \ {h} /\ seen' = [seen EXCEPT ![n] = seen[n] \ {h}]
          /\ UNCHANGED <<state, timer, hold, left, polled, watched, failures>>
      BY <1>12, <2>1, PreemptGoesOn
    <3> QED BY <3>1
  <2>2. CASE seen[n] = {h}
    <3>1. /\ conn' = conn \ {h} /\ state' = [state EXCEPT ![n] = "attaching"]
          /\ hold' = [hold EXCEPT ![n] = NoHold] /\ watched' = Looked(n, {})
          /\ seen' = [seen EXCEPT ![n] = {}] /\ left' = [left EXCEPT ![n] = 0]
          /\ polled' = [polled EXCEPT ![n] = FALSE] /\ UNCHANGED <<timer, failures>>
      BY <1>12, <2>2, PreemptDone
    <3>2. watched' \in [Nodes -> [Nodes -> {Off} \union Watch]]
      BY <3>1, SettingsAssumption DEF Looked
    <3> QED BY <3>1, <3>2, SettingsAssumption
  <2> QED BY <2>1, <2>2
<1>13. ASSUME NEW n \in Nodes, Connect(n) PROVE TypeOK'
  BY <1>13, SettingsAssumption DEF Connect
<1>14. ASSUME NEW n \in Nodes, Mounted(n) PROVE TypeOK'
  BY <1>14, SettingsAssumption DEF Mounted
<1>15. ASSUME NEW n \in Nodes, Late(n) PROVE TypeOK'
  BY <1>15, SettingsAssumption DEF Late
<1>16. ASSUME NEW n \in Nodes, RolledBack(n) PROVE TypeOK'
  BY <1>16, SettingsAssumption DEF RolledBack
<1>17. ASSUME NEW n \in Nodes, KeepEnds(n) PROVE TypeOK'
  BY <1>17, SettingsAssumption DEF KeepEnds
<1>18. ASSUME NEW n \in Nodes, LastUnmount(n) PROVE TypeOK'
  <2>1. /\ state' \in {[state EXCEPT ![n] = "linger"], [state EXCEPT ![n] = "out"]}
        /\ timer' \in {timer, [timer EXCEPT ![n] = 0]}
        /\ conn' \in {conn, conn \ {n}}
        /\ UNCHANGED <<hold, mountVars, watched, failures>>
    BY <1>18 DEF LastUnmount
  <2>2. state' \in [Nodes -> States]
    BY <2>1
  <2>3. timer' \in [Nodes -> {Off} \union Nat]
    <3>1. CASE timer' = timer
      BY <3>1
    <3>2. CASE timer' = [timer EXCEPT ![n] = 0]
      BY <3>2
    <3> QED BY <2>1, <3>1, <3>2
  <2> QED BY <2>1, <2>2, <2>3
<1>19. ASSUME NEW n \in Nodes, Remount(n) PROVE TypeOK'
  BY <1>19, SettingsAssumption DEF Remount
<1>20. ASSUME NEW n \in Nodes, LingerEnds(n) PROVE TypeOK'
  BY <1>20, SettingsAssumption DEF LingerEnds
<1>21. ASSUME NEW n \in Nodes, Dies(n) PROVE TypeOK'
  BY <1>21, SettingsAssumption DEF Dies, Cleared
<1>22. ASSUME NEW n \in Nodes, Reboots(n) PROVE TypeOK'
  BY <1>22, SettingsAssumption DEF Reboots
<1>23. ASSUME UNCHANGED vars PROVE TypeOK'
  BY <1>23 DEF vars
<1> QED BY <1>1, <1>2, <1>3, <1>4, <1>5, <1>6, <1>7, <1>8, <1>9, <1>10, <1>11, <1>12, <1>13, <1>14, <1>15, <1>16, <1>17, <1>18, <1>19, <1>20, <1>21, <1>22, <1>23 DEF Next, NodeStep

\* Every step keeps what the records of holders tell true.
THEOREM RecordStep == IInv /\ [Next]_vars => RecordSeen' /\ WaitRecorded' /\ ChosenSeen'
<1> SUFFICES ASSUME IInv, [Next]_vars
             PROVE  RecordSeen' /\ WaitRecorded' /\ ChosenSeen'
  OBVIOUS
<1> USE DEF IInv, TypeOK, RecordSeen, WaitRecorded, ChosenSeen, States, Off, Watch, NoHold, Go, Lesser, mountVars, Asking
<1>1. ASSUME Tick PROVE RecordSeen' /\ WaitRecorded' /\ ChosenSeen'
  BY <1>1, TickStep
<1>2. ASSUME NEW n \in Nodes, AskFree(n) PROVE RecordSeen' /\ WaitRecorded' /\ ChosenSeen'
  BY <1>2, SettingsAssumption DEF AskFree, Cleared, Looked
<1>3. ASSUME NEW n \in Nodes, AskHeld(n) PROVE RecordSeen' /\ WaitRecorded' /\ ChosenSeen'
  <2>1. conn \ {n} \in SUBSET Nodes
    OBVIOUS
  <2> QED BY <1>3, <2>1, LookStep DEF AskHeld
<1>4. ASSUME NEW n \in Nodes, AskFails(n) PROVE RecordSeen' /\ WaitRecorded' /\ ChosenSeen'
  BY <1>4, SettingsAssumption DEF AskFails, Cleared, Looked, Failure
<1>5. ASSUME NEW n \in Nodes, NoRetry(n) PROVE RecordSeen' /\ WaitRecorded' /\ ChosenSeen'
  BY <1>5, SettingsAssumption DEF NoRetry
<1>6. ASSUME NEW n \in Nodes, PollFree(n) PROVE RecordSeen' /\ WaitRecorded' /\ ChosenSeen'
  BY <1>6, SettingsAssumption DEF PollFree, Cleared, Looked, MountOver
<1>7. ASSUME NEW n \in Nodes, PollHeld(n) PROVE RecordSeen' /\ WaitRecorded' /\ ChosenSeen'
  <2>1. conn \ {n} \in SUBSET Nodes
    OBVIOUS
  <2> QED BY <1>7, <2>1, LookStep DEF PollHeld
<1>8. ASSUME NEW n \in Nodes, PollFails(n) PROVE RecordSeen' /\ WaitRecorded' /\ ChosenSeen'
  BY <1>8, SettingsAssumption DEF PollFails, Failure, MountOver
<1>9. ASSUME NEW n \in Nodes, GiveUp(n) PROVE RecordSeen' /\ WaitRecorded' /\ ChosenSeen'
  BY <1>9, SettingsAssumption DEF GiveUp, WaitOver, MountOver
<1>10. ASSUME NEW n \in Nodes, GraceSpent(n) PROVE RecordSeen' /\ WaitRecorded' /\ ChosenSeen'
  BY <1>10, SettingsAssumption DEF GraceSpent, WaitOver
<1>11. ASSUME NEW n \in Nodes, PreemptFails(n) PROVE RecordSeen' /\ WaitRecorded' /\ ChosenSeen'
  BY <1>11, SettingsAssumption DEF PreemptFails, Failure, MountOver
<1>12. ASSUME NEW n \in Nodes, NEW h \in Nodes, Preempt(n, h) PROVE RecordSeen' /\ WaitRecorded' /\ ChosenSeen'
  <2>1. CASE seen[n] # {h}
    <3>1. /\ conn' = conn \ {h} /\ seen' = [seen EXCEPT ![n] = seen[n] \ {h}]
          /\ UNCHANGED <<state, timer, hold, left, polled, watched, failures>>
      BY <1>12, <2>1, PreemptGoesOn
    <3>2. state[n] = "preempting"
      BY <1>12 DEF Preempt
    <3>3. \A m \in Nodes : seen'[m] \subseteq seen[m] /\ (m # n => seen'[m] = seen[m])
      BY <3>1
    <3>4. WaitRecorded'
      BY <3>1, <3>2, <3>3
    <3>5. ChosenSeen'
      BY <3>1, <3>3
    <3> QED BY <3>1, <3>4, <3>5
  <2>2. CASE seen[n] = {h}
    <3>1. /\ conn' = conn \ {h} /\ state' = [state EXCEPT ![n] = "attaching"]
          /\ hold' = [hold EXCEPT ![n] = NoHold] /\ watched' = Looked(n, {})
          /\ seen' = [seen EXCEPT ![n] = {}] /\ left' = [left EXCEPT ![n] = 0]
          /\ polled' = [polled EXCEPT ![n] = FALSE] /\ UNCHANGED <<timer, failures>>
      BY <1>12, <2>2, PreemptDone
    <3> QED BY <3>1, SettingsAssumption DEF Looked
  <2> QED BY <2>1, <2>2
<1>13. ASSUME NEW n \in Nodes, Connect(n) PROVE RecordSeen' /\ WaitRecorded' /\ ChosenSeen'
  BY <1>13, SettingsAssumption DEF Connect
<1>14. ASSUME NEW n \in Nodes, Mounted(n) PROVE RecordSeen' /\ WaitRecorded' /\ ChosenSeen'
  BY <1>14, SettingsAssumption DEF Mounted
<1>15. ASSUME NEW n \in Nodes, Late(n) PROVE RecordSeen' /\ WaitRecorded' /\ ChosenSeen'
  BY <1>15, SettingsAssumption DEF Late
<1>16. ASSUME NEW n \in Nodes, RolledBack(n) PROVE RecordSeen' /\ WaitRecorded' /\ ChosenSeen'
  BY <1>16, SettingsAssumption DEF RolledBack
<1>17. ASSUME NEW n \in Nodes, KeepEnds(n) PROVE RecordSeen' /\ WaitRecorded' /\ ChosenSeen'
  BY <1>17, SettingsAssumption DEF KeepEnds
<1>18. ASSUME NEW n \in Nodes, LastUnmount(n) PROVE RecordSeen' /\ WaitRecorded' /\ ChosenSeen'
  <2>1. state'[n] \notin {"waiting", "preempting"} /\ \A m \in Nodes \ {n} : state'[m] = state[m]
    BY <1>18 DEF LastUnmount
  <2>2. UNCHANGED <<hold, seen, polled, watched>>
    BY <1>18 DEF LastUnmount
  <2> QED BY <2>1, <2>2
<1>19. ASSUME NEW n \in Nodes, Remount(n) PROVE RecordSeen' /\ WaitRecorded' /\ ChosenSeen'
  BY <1>19, SettingsAssumption DEF Remount
<1>20. ASSUME NEW n \in Nodes, LingerEnds(n) PROVE RecordSeen' /\ WaitRecorded' /\ ChosenSeen'
  BY <1>20, SettingsAssumption DEF LingerEnds
<1>21. ASSUME NEW n \in Nodes, Dies(n) PROVE RecordSeen' /\ WaitRecorded' /\ ChosenSeen'
  BY <1>21, SettingsAssumption DEF Dies, Cleared
<1>22. ASSUME NEW n \in Nodes, Reboots(n) PROVE RecordSeen' /\ WaitRecorded' /\ ChosenSeen'
  BY <1>22, SettingsAssumption DEF Reboots
<1>23. ASSUME UNCHANGED vars PROVE RecordSeen' /\ WaitRecorded' /\ ChosenSeen'
  BY <1>23 DEF vars
<1> QED BY <1>1, <1>2, <1>3, <1>4, <1>5, <1>6, <1>7, <1>8, <1>9, <1>10, <1>11, <1>12, <1>13, <1>14, <1>15, <1>16, <1>17, <1>18, <1>19, <1>20, <1>21, <1>22, <1>23 DEF Next, NodeStep

-----------------------------------------------------------------------------
(* The theorems. *)

\* The inductive invariant holds in every state.
THEOREM InvariantHolds == Spec => []IInv
<1>1. Init => IInv
  BY SettingsAssumption DEF Init, IInv, TypeOK, RecordSeen, WaitRecorded, ChosenSeen,
                            States, NoHold, Off, Watch
<1>2. IInv /\ [Next]_vars => IInv'
  BY TypeStep, RecordStep DEF IInv
<1> QED BY <1>1, <1>2, PTL DEF Spec

\* Every variable keeps its type; the wait of a Mount never runs below zero.
THEOREM TypeCorrect == Spec => []TypeOK
<1>1. IInv => TypeOK
  BY DEF IInv
<1> QED BY <1>1, InvariantHolds, PTL

\* A node is disconnected by force only after the one that does it has seen it
\* connected at every look over the whole grace (markHeld, takeOver).
THEOREM HoldersGetTheGrace == Spec => PreemptsOnlyAfterGrace
<1>1. IInv => \A n, h \in Nodes : Preempt(n, h) => watched[n][h] >= Grace
  BY DEF IInv, ChosenSeen, Preempt
<1>2. IInv /\ [Next]_vars
        => [\A n, h \in Nodes : Preempt(n, h) => watched[n][h] >= Grace]_vars
  BY <1>1
<1> QED BY <1>2, InvariantHolds, PTL DEF Spec, PreemptsOnlyAfterGrace
=============================================================================
