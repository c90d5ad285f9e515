----------------------- MODULE VolumeLifecycle_proofs -----------------------
(***************************************************************************)
(* What VolumeLifecycle promises, for every set of mount IDs, other hosts  *)
(* and faults, whatever the settings.                                      *)
(*                                                                         *)
(* The argument: TypeOK is inductive (TypeStep). Every action moves the    *)
(* pair (op, destroyed) in one of five ways only (OpShape), so the two     *)
(* invariance proofs that follow name an action and its assignments and    *)
(* nothing of how an operation takes the lock, goes on and ends. BooksInv  *)
(* says that the books agree (the entry, the mount IDs, the lock, the      *)
(* record of what was served) and is inductive given TypeOK (BooksStep).   *)
(* KeepInv says who is to release an attachment no mount uses (KeepStep).  *)
(* DeviceInv says that a device lies beneath whatever holds the volume, and *)
(* is inductive on iSCSI (DeviceStep). Together they are IInv; the         *)
(* properties the runs check follow from it.                               *)
(***************************************************************************)
EXTENDS VolumeLifecycle, TLAPS

\* An operation stays well typed when it moves to another step (Goto) and when a
\* new one takes the volume's lock with an empty list of hosts (Hold).
LEMMA OpMoves ==
    ASSUME op \in Op
    PROVE  /\ NoOp \in Op
           /\ \A s \in Steps : [op EXCEPT !.step = s] \in Op
           /\ \A k \in Kinds, s \in Steps, i \in IDs \union {NoID} :
                (k = "mount" => i \in IDs) =>
                    [kind |-> k, step |-> s, id |-> i, hosts |-> {}] \in Op
<1>1. NoOp \in Op
  BY DEF Op, NoOp, Kinds, Steps
<1>2. \A s \in Steps : [op EXCEPT !.step = s] \in Op
  BY DEF Op
<1>3. \A k \in Kinds, s \in Steps, i \in IDs \union {NoID} :
        (k = "mount" => i \in IDs) =>
            [kind |-> k, step |-> s, id |-> i, hosts |-> {}] \in Op
  BY DEF Op
<1> QED BY <1>1, <1>2, <1>3

\* How an operation of the driver takes the lock, goes on and releases it keeps
\* it, and the history kept for the Mount under way, well typed.
LEMMA OpTyped ==
    ASSUME TypeOK
    PROVE  /\ Done => op' \in Op /\ arrived' \subseteq Peers /\ cut' \in BOOLEAN
           /\ \A s \in Steps : Goto(s) => op' \in Op
           /\ \A k \in Kinds, s \in Steps, i \in IDs \union {NoID} :
                (k = "mount" => i \in IDs) /\ Hold(k, s, i) => op' \in Op
<1>1. op \in Op /\ NoOp \in Op
  BY OpMoves DEF TypeOK
<1>2. Done => op' \in Op /\ arrived' \subseteq Peers /\ cut' \in BOOLEAN
  BY <1>1 DEF Done, FreshHistory
<1>3. \A s \in Steps : Goto(s) => op' \in Op
  BY <1>1, OpMoves DEF Goto
<1>4. \A k \in Kinds, s \in Steps, i \in IDs \union {NoID} :
        (k = "mount" => i \in IDs) /\ Hold(k, s, i) => op' \in Op
  BY <1>1, OpMoves DEF Hold
<1> QED BY <1>2, <1>3, <1>4

\* Dropping the entry of a volume (delete(d.mounted, name)) leaves every part of
\* it well typed: no mount ID is young that is not held.
LEMMA UntrackTyped ==
    ASSUME Untrack
    PROVE  /\ tracked' \in BOOLEAN /\ serial' \in BOOLEAN
           /\ refs' \subseteq IDs /\ young' \subseteq refs'
           /\ linger' \in {"off", "armed"} /\ late' \subseteq {"current", "stale"}
  BY DEF Untrack

\* Starting or cancelling the linger timer leaves it off or armed, and a callback
\* that had already fired is at most superseded.
LEMMA TimersTyped ==
    ASSUME ScheduleTeardown \/ CancelTeardown
    PROVE  linger' \in {"off", "armed"} /\ late' \subseteq {"current", "stale"}
  BY DEF ScheduleTeardown, CancelTeardown, Superseded

\* A Mount that is answered leaves what Docker knows of its mount IDs well typed.
LEMMA AnswerTyped ==
    ASSUME TypeOK, NEW id \in IDs, Answer(id)
    PROVE  docker' \in [IDs -> {"none", "granted", "running", "exited"}]
  BY DEF TypeOK, Answer

\* Whether the attachment was given up is a fact about two other variables.
LEMMA StrandTyped ==
    ASSUME Strand
    PROVE  stranded' \in BOOLEAN
<1>1. (self' /\ keep' = "off") \in BOOLEAN
  OBVIOUS
<1> QED BY <1>1 DEF Strand

\* Every step of the driver, the host, Docker and the array keeps every variable
\* in its type; in particular a young mount ID is one that is held.
THEOREM TypeStep == TypeOK /\ [Next]_vars => TypeOK'
<1> SUFFICES ASSUME TypeOK, [Next]_vars PROVE TypeOK'
  OBVIOUS
<1> USE DEF vars, driverVars, hostVars, arrayVars, historyVars, entryVars, timerVars,
       procVars
<1>1. ASSUME NEW id \in IDs, MountServed(id) PROVE TypeOK'
  BY <1>1, TimersTyped, AnswerTyped
     DEF TypeOK, CancelKeep, MountServed
<1>2. ASSUME NEW id \in IDs, MountBegin(id) PROVE TypeOK'
  BY <1>2, OpTyped
     DEF TypeOK, Steps, Kinds, MountBegin
<1>3. CASE TakeOverReleased
  <2>1. op' \in Op
    BY <1>3, OpTyped DEF TypeOK, Steps, TakeOverReleased
  <2>2. arrived' \subseteq Peers /\ cut' \in BOOLEAN
    BY <1>3 DEF FreshHistory, TakeOverReleased
  <2> QED BY <1>3, <2>1, <2>2 DEF TypeOK, TakeOverReleased
<1>4. CASE TakeOverGivesUp
  BY <1>4, OpTyped
     DEF TypeOK, FreshHistory, MountFails, Steps, Kinds, TakeOverGivesUp
<1>5. CASE TakeOverExpired
  <2>1. op' \in Op
    BY <1>5 DEF TypeOK, Op, Steps, TakeOverExpired
  <2>2. arrived' \subseteq Peers /\ cut' \in BOOLEAN
    BY <1>5 DEF FreshHistory, TakeOverExpired
  <2> QED BY <1>5, <2>1, <2>2 DEF TypeOK, TakeOverExpired
<1>6. ASSUME NEW p \in Peers, Preempt(p) PROVE TypeOK'
  <2>1. op' \in Op
    BY <1>6 DEF TypeOK, Op, Steps, Preempt
  <2> QED BY <1>6, <2>1
       DEF TypeOK, Preempt
<1>7. ASSUME NEW p \in Peers, PreemptFails(p) PROVE TypeOK'
  BY <1>7, OpTyped
     DEF TypeOK, FreshHistory, Steps, Kinds, PreemptFails
<1>8. CASE LeftoverListed
  <2>1. op' \in Op
    BY <1>8, OpTyped DEF TypeOK, Steps, LeftoverListed
  <2>2. cut' \in BOOLEAN
    BY <1>8 DEF LeftoverListed
  <2>3. UNCHANGED <<procVars, entryVars, timerVars, hostVars, arrayVars, excused, arrived, stranded>>
    BY <1>8 DEF LeftoverListed
  <2> QED BY <2>1, <2>2, <2>3 DEF TypeOK
<1>9. CASE LeftoverFails
  BY <1>9, OpTyped
     DEF TypeOK, FreshHistory, MountFails, Steps, Kinds, LeftoverFails
<1>10. CASE LeftoverCleared
  <2>1. op' \in Op
    BY <1>10, OpTyped DEF TypeOK, Steps, LeftoverCleared
  <2>2. dev' \in BOOLEAN
    BY <1>10 DEF TypeOK, DevDetached, LeftoverCleared
  <2> QED BY <1>10, <2>1, <2>2
       DEF TypeOK, LeftoverCleared
<1>11. CASE LeftoverHeld
  BY <1>11, OpTyped
     DEF TypeOK, FreshHistory, MountFails, Steps, Kinds, LeftoverHeld
<1>12. CASE Connected
  <2>1. op' \in Op
    BY <1>12, OpTyped DEF TypeOK, Steps, Connected
  <2>2. self' \in BOOLEAN /\ stranded' \in BOOLEAN
    BY <1>12 DEF Connected
  <2>3. UNCHANGED <<procVars, entryVars, timerVars, hostVars, others, volume,
                   excused, arrived, cut>>
    BY <1>12 DEF Connected
  <2> QED BY <2>1, <2>2, <2>3 DEF TypeOK
<1>13. CASE ConnectFails
  <2>1. op' \in Op
    BY <1>13, OpTyped DEF TypeOK, Steps, ConnectFails
  <2>2. self' \in BOOLEAN
    BY <1>13 DEF TypeOK, ConnectFails
  <2>3. arrived' \subseteq Peers /\ cut' \in BOOLEAN
    BY <1>13, OpTyped DEF ConnectFails
  <2>4. stranded' \in BOOLEAN
    BY <1>13, StrandTyped DEF TypeOK, ConnectFails
  <2> QED BY <1>13, <2>1, <2>2, <2>3, <2>4 DEF TypeOK, ConnectFails
<1>14. CASE DeviceFound
  BY <1>14, OpTyped
     DEF TypeOK, Steps, Kinds, DeviceFound
<1>15. CASE DeviceLate
  BY <1>15, OpTyped
     DEF TypeOK, KeepAttached, FreshHistory, Steps, Kinds, DeviceLate
<1>16. CASE DeviceRefused
  BY <1>16, OpTyped
     DEF TypeOK, Steps, Kinds, DeviceRefused
<1>17. CASE DeviceMountedAlready
  BY <1>17, OpTyped, StrandTyped
     DEF TypeOK, FreshHistory, MountFails, Steps, Kinds, DeviceMountedAlready
<1>18. CASE FilesystemMounted
  BY <1>18, OpTyped
     DEF TypeOK, Steps, Kinds, FilesystemMounted
<1>19. CASE MountPublished
  <2>1. op' \in Op
    BY <1>19, OpTyped DEF TypeOK, Steps, MountPublished
  <2>2. docker' \in [IDs -> {"none", "granted", "running", "exited"}]
    BY <1>19, AnswerTyped DEF TypeOK, Op, MountPublished
  <2>3. op.id \in IDs
    BY <1>19 DEF TypeOK, Op, MountPublished
  <2> QED BY <1>19, <2>1, <2>2, <2>3
       DEF TypeOK, Done, FreshHistory, CancelKeep, MountPublished
<1>20. CASE MountCrossed
  BY <1>20, OpTyped
     DEF TypeOK, Steps, Kinds, MountCrossed
<1>21. CASE MountAbandoned
  <2>1. op' \in Op
    BY <1>21, OpTyped DEF TypeOK, Steps, MountAbandoned
  <2>2. fs' \in BOOLEAN
    BY <1>21 DEF MountAbandoned
  <2>3. UNCHANGED <<procVars, entryVars, timerVars, dev, docker, drain, arrayVars, historyVars>>
    BY <1>21 DEF MountAbandoned
  <2> QED BY <2>1, <2>2, <2>3 DEF TypeOK
<1>22. CASE MountStuck
  BY <1>22, OpTyped, StrandTyped
     DEF TypeOK, FreshHistory, MountFails, Steps, Kinds, MountStuck
<1>23. CASE Detached
  <2>1. op' \in Op
    BY <1>23, OpTyped DEF TypeOK, Steps, Detached
  <2>2. dev' \in BOOLEAN
    BY <1>23 DEF TypeOK, DevDetached, Detached
  <2> QED BY <1>23, <2>1, <2>2
       DEF TypeOK, Detached
<1>24. CASE DetachFails
  BY <1>24, UntrackTyped, OpTyped, StrandTyped
     DEF TypeOK, ReleaseFailed, FreshHistory, Steps, Kinds, DetachFails
<1>25. CASE Disconnected
  <2>1. op' \in Op
    BY <1>25, OpTyped DEF TypeOK, Steps, Disconnected
  <2>2. dev' \in BOOLEAN
    BY <1>25 DEF TypeOK, Disconnected
  <2>3. arrived' \subseteq Peers
    BY <1>25 DEF TypeOK, Done, FreshHistory, Disconnected
  <2>4. cut' \in BOOLEAN
    BY <1>25 DEF TypeOK, Done, FreshHistory, Disconnected
  <2> QED BY <1>25, <2>1, <2>2, <2>3, <2>4, UntrackTyped
       DEF TypeOK, Disconnected
<1>26. CASE DisconnectFails
  BY <1>26, UntrackTyped, OpTyped, StrandTyped
     DEF TypeOK, ReleaseFailed, FreshHistory, Steps, Kinds, DisconnectFails
<1>27. ASSUME NEW id \in IDs, UnmountKeeps(id) PROVE TypeOK'
  BY <1>27
     DEF TypeOK, Releasing, UnmountKeeps
<1>28. ASSUME NEW id \in IDs, UnmountLast(id) PROVE TypeOK'
  <2>1. op' \in Op
    BY <1>28, OpTyped DEF TypeOK, Steps, Kinds, UnmountLast
  <2>2. linger' \in {"off", "armed"} /\ late' \subseteq {"current", "stale"}
    BY <1>28, TimersTyped DEF TypeOK, UnmountLast
  <2> QED BY <1>28, <2>1, <2>2
       DEF TypeOK, Releasing, UnmountLast
<1>29. ASSUME NEW id \in IDs, UnmountUntracked(id) PROVE TypeOK'
  BY <1>29, OpTyped
     DEF TypeOK, Releasing, Steps, Kinds, UnmountUntracked
<1>30. CASE Unmounted
  <2>1. op' \in Op
    BY <1>30, OpTyped DEF TypeOK, Steps, Unmounted
  <2>2. fs' \in BOOLEAN
    BY <1>30 DEF Unmounted
  <2>3. UNCHANGED <<procVars, entryVars, timerVars, dev, docker, drain, arrayVars, historyVars>>
    BY <1>30 DEF Unmounted
  <2> QED BY <2>1, <2>2, <2>3 DEF TypeOK
<1>31. CASE UmountFails
  <2>1. op' \in Op
    BY <1>31, OpTyped DEF TypeOK, Steps, UmountFails
  <2>2. linger' \in {"off", "armed"} /\ late' \subseteq {"current", "stale"}
    BY <1>31, TimersTyped DEF TypeOK, UmountFails
  <2>3. arrived' \subseteq Peers /\ cut' \in BOOLEAN
    BY <1>31, OpTyped DEF UmountFails
  <2>4. UNCHANGED <<procVars, entryVars, keep, hostVars, arrayVars, excused, stranded>>
    BY <1>31 DEF UmountFails
  <2> QED BY <2>1, <2>2, <2>3, <2>4 DEF TypeOK
<1>32. CASE SerialFound
  BY <1>32, OpTyped
     DEF TypeOK, Steps, Kinds, SerialFound
<1>33. CASE SerialLookupFails
  BY <1>33, UntrackTyped, OpTyped, StrandTyped
     DEF TypeOK, FreshHistory, Steps, Kinds, SerialLookupFails
<1>34. CASE DeviceIdle
  BY <1>34, OpTyped
     DEF TypeOK, Steps, Kinds, DeviceIdle
<1>35. CASE DeviceStaysBusy
  BY <1>35, UntrackTyped, OpTyped, StrandTyped
     DEF TypeOK, FreshHistory, Steps, Kinds, DeviceStaysBusy
<1>36. CASE RemoveDestroyed
  BY <1>36
     DEF TypeOK, CancelKeep, RemoveDestroyed
<1>37. CASE RemoveLingering
  BY <1>37, TimersTyped, OpTyped
     DEF TypeOK, Steps, Kinds, RemoveLingering
<1>38. CASE RemoveUnmounted
  BY <1>38, OpTyped
     DEF TypeOK, Steps, Kinds, RemoveUnmounted
<1>39. CASE RemoveConnsListed
  <2>1. op' \in Op
    BY <1>39, OpTyped DEF TypeOK, Steps, RemoveConnsListed
  <2>2. arrived' \subseteq Peers /\ cut' \in BOOLEAN
    BY <1>39 DEF FreshHistory, RemoveConnsListed
  <2> QED BY <1>39, <2>1, <2>2 DEF TypeOK, RemoveConnsListed
<1>40. CASE RemoveRefused
  BY <1>40, OpTyped
     DEF TypeOK, FreshHistory, Steps, Kinds, RemoveRefused
<1>41. CASE VolumeDestroyed
  BY <1>41, OpTyped
     DEF TypeOK, CancelKeep, FreshHistory, Steps, Kinds, VolumeDestroyed
<1>42. CASE DestroyFails
  BY <1>42, OpTyped
     DEF TypeOK, CancelKeep, FreshHistory, Steps, Kinds, DestroyFails
<1>43. CASE LingerFires
  BY <1>43
     DEF TypeOK, LingerFires
<1>44. ASSUME NEW timer \in {"current", "stale"}, LingerStandsDown(timer) PROVE TypeOK'
  BY <1>44
     DEF TypeOK, LingerStandsDown
<1>45. ASSUME NEW timer \in {"current", "stale"}, LingerRefused(timer) PROVE TypeOK'
  BY <1>45
     DEF TypeOK, LingerRefused
<1>46. ASSUME NEW timer \in {"current", "stale"}, LingerExpired(timer) PROVE TypeOK'
  BY <1>46, OpTyped
     DEF TypeOK, Steps, Kinds, LingerExpired
<1>47. CASE KeepFires
  BY <1>47
     DEF TypeOK, KeepFires
<1>48. CASE KeepExpired
  BY <1>48, OpTyped
     DEF TypeOK, Steps, Kinds, KeepExpired
<1>49. CASE ShutdownBegins
  BY <1>49
     DEF TypeOK, ShutdownBegins
<1>50. CASE ShutdownVisits
  <2>1. op' \in Op
    BY <1>50, OpTyped DEF TypeOK, Steps, Kinds, ShutdownVisits
  <2>2. linger' \in {"off", "armed"} /\ late' \subseteq {"current", "stale"}
    BY <1>50, TimersTyped DEF TypeOK, ShutdownVisits
  <2>3. visit' \in BOOLEAN /\ UNCHANGED <<up, entryVars, keep, hostVars, arrayVars, historyVars>>
    BY <1>50 DEF ShutdownVisits
  <2> QED BY <2>1, <2>2, <2>3 DEF TypeOK
<1>51. CASE Stop
  <2>1. /\ up' \in {"running", "closing", "down"} /\ visit' \in BOOLEAN
        /\ tracked' \in BOOLEAN /\ serial' \in BOOLEAN
        /\ refs' \subseteq IDs /\ young' \subseteq refs'
        /\ linger' \in {"off", "armed"} /\ late' \subseteq {"current", "stale"}
        /\ keep' \in {"off", "armed", "fired"}
    BY <1>51 DEF Forgotten, Stop
  <2>2. op' \in Op
    BY <1>51, OpMoves DEF TypeOK, Forgotten, Stop
  <2>3. fs' \in BOOLEAN
    BY <1>51 DEF TypeOK, Stop
  <2>4. /\ excused' \subseteq IDs /\ arrived' \subseteq Peers
        /\ cut' \in BOOLEAN /\ stranded' \in BOOLEAN
    BY <1>51 DEF TypeOK, FreshHistory, Forgotten, Stop
  <2>5. UNCHANGED <<dev, docker, drain, arrayVars>>
    BY <1>51 DEF Stop
  <2> QED BY <2>1, <2>2, <2>3, <2>4, <2>5 DEF TypeOK
<1>52. CASE Start
  <2>1. up' \in {"running", "closing", "down"} /\ tracked' \in BOOLEAN
    BY <1>52 DEF TypeOK, Start
  <2>2. linger' \in {"off", "armed"}
    BY <1>52 DEF TypeOK, Start
  <2>3. UNCHANGED <<visit, op, serial, refs, young, late, keep, hostVars, arrayVars, historyVars>>
    BY <1>52 DEF Start
  <2> QED BY <2>1, <2>2, <2>3 DEF TypeOK
<1>53. CASE Reboot
  <2>1. /\ up' \in {"running", "closing", "down"} /\ visit' \in BOOLEAN
        /\ tracked' \in BOOLEAN /\ serial' \in BOOLEAN
        /\ refs' \subseteq IDs /\ young' \subseteq refs'
        /\ linger' \in {"off", "armed"} /\ late' \subseteq {"current", "stale"}
        /\ keep' \in {"off", "armed", "fired"}
    BY <1>53 DEF Forgotten, Reboot
  <2>2. op' \in Op
    BY <1>53, OpMoves DEF TypeOK, Forgotten, Reboot
  <2>3. /\ fs' \in BOOLEAN /\ dev' \in BOOLEAN /\ drain' \in BOOLEAN
        /\ docker' \in [IDs -> {"none", "granted", "running", "exited"}]
    BY <1>53 DEF TypeOK, Reboot
  <2>4. /\ excused' \subseteq IDs /\ arrived' \subseteq Peers
        /\ cut' \in BOOLEAN /\ stranded' \in BOOLEAN
    BY <1>53 DEF TypeOK, FreshHistory, Forgotten, Reboot
  <2>5. UNCHANGED arrayVars
    BY <1>53 DEF Reboot
  <2> QED BY <2>1, <2>2, <2>3, <2>4, <2>5 DEF TypeOK
<1>54. ASSUME NEW id \in IDs, ContainerStarts(id) PROVE TypeOK'
  BY <1>54
     DEF TypeOK, ContainerStarts
<1>55. ASSUME NEW id \in IDs, ContainerExits(id) PROVE TypeOK'
  <2>1. docker' \in [IDs -> {"none", "granted", "running", "exited"}]
    BY <1>55 DEF TypeOK, ContainerExits
  <2>2. drain' \in BOOLEAN /\ UNCHANGED <<driverVars, fs, dev, arrayVars, historyVars>>
    BY <1>55 DEF ContainerExits
  <2> QED BY <2>1, <2>2 DEF TypeOK
<1>56. ASSUME NEW id \in IDs, UnmountNeverSent(id) PROVE TypeOK'
  <2>1. docker' \in [IDs -> {"none", "granted", "running", "exited"}]
    BY <1>56 DEF TypeOK, UnmountNeverSent
  <2>2. excused' \subseteq IDs
    BY <1>56 DEF TypeOK, UnmountNeverSent
  <2>3. UNCHANGED <<driverVars, fs, dev, drain, arrayVars, arrived, cut, stranded>>
    BY <1>56 DEF UnmountNeverSent
  <2> QED BY <2>1, <2>2, <2>3 DEF TypeOK
<1>57. ASSUME NEW id \in IDs, RefAges(id) PROVE TypeOK'
  BY <1>57
     DEF TypeOK, RefAges
<1>58. CASE Drained
  <2>1. drain' \in BOOLEAN /\ UNCHANGED <<driverVars, fs, dev, docker, arrayVars, historyVars>>
    BY <1>58 DEF Drained
  <2> QED BY <2>1 DEF TypeOK
<1>59. CASE DeviceAppears
  <2>1. dev' \in BOOLEAN /\ UNCHANGED <<driverVars, fs, docker, drain, arrayVars, historyVars>>
    BY <1>59 DEF DeviceAppears
  <2> QED BY <2>1 DEF TypeOK
<1>60. CASE PeerPreempts
  <2>1. self' \in BOOLEAN /\ cut' \in BOOLEAN
    BY <1>60 DEF PeerPreempts
  <2>2. UNCHANGED <<driverVars, hostVars, others, volume, excused, arrived, stranded>>
    BY <1>60 DEF PeerPreempts
  <2> QED BY <2>1, <2>2 DEF TypeOK
<1>61. CASE PeerRemoves
  <2>1. volume' \in {"live", "destroyed"}
    BY <1>61 DEF PeerRemoves
  <2>2. UNCHANGED <<driverVars, hostVars, self, others, historyVars>>
    BY <1>61 DEF PeerRemoves
  <2> QED BY <2>1, <2>2 DEF TypeOK
<1>62. ASSUME NEW p \in Peers, PeerConnects(p) PROVE TypeOK'
  BY <1>62
     DEF TypeOK, PeerConnects
<1>63. ASSUME NEW p \in Peers, PeerDisconnects(p) PROVE TypeOK'
  BY <1>63
     DEF TypeOK, PeerDisconnects
<1>64. CASE UNCHANGED vars
  BY <1>64 DEF TypeOK
<1> QED
  BY <1>1, <1>2, <1>3, <1>4, <1>5, <1>6, <1>7, <1>8, <1>9, <1>10, <1>11, <1>12,
       <1>13, <1>14, <1>15, <1>16, <1>17, <1>18, <1>19, <1>20, <1>21, <1>22,
       <1>23, <1>24, <1>25, <1>26, <1>27, <1>28, <1>29, <1>30, <1>31, <1>32,
       <1>33, <1>34, <1>35, <1>36, <1>37, <1>38, <1>39, <1>40, <1>41, <1>42,
       <1>43, <1>44, <1>45, <1>46, <1>47, <1>48, <1>49, <1>50, <1>51, <1>52,
       <1>53, <1>54, <1>55, <1>56, <1>57, <1>58, <1>59, <1>60, <1>61, <1>62,
       <1>63, <1>64
     DEF Next, MountStep, ReleaseStep, UnmountStep, RemoveStep, TimerStep,
       ProcessStep, ContainerStep, ArrayStep

-----------------------------------------------------------------------------
(* The safety invariants. *)

\* The lock's holder after each way an action changes it: Done frees the lock, Goto
\* keeps the operation's kind, Hold starts one.
LEMMA OpShape ==
    ASSUME TypeOK
    PROVE  /\ NoOp.kind = "none" /\ NoOp.step = "none"
           /\ Done => op' = NoOp
           /\ \A s \in Steps : Goto(s) => op'.step = s /\ op'.kind = op.kind
           /\ \A k \in Kinds, s \in Steps, i \in IDs \union {NoID} :
                Hold(k, s, i) => op'.kind = k /\ op'.step = s
  BY DEF TypeOK, Op, NoOp, Done, Goto, Hold

\* Whatever the transport, every step keeps the lock, the entry, its references
\* and what an operation knows of the other hosts in accord.
THEOREM BooksStep ==
    ASSUME TypeOK, BooksInv, [Next]_vars
    PROVE  BooksInv'
<1> USE DEF vars, driverVars, hostVars, arrayVars, historyVars, entryVars, timerVars,
       procVars
<1> USE DEF BooksInv, LockIsExclusive, EntryIsWhole, StepsOf, Teardown,
       ServedIsReferenced, ForeignHostsAreKnown, ForeignHostsAreNew,
       DestroysReleased, At
<1>1. ASSUME NEW id \in IDs, MountServed(id) PROVE BooksInv'
  BY <1>1, OpShape DEF MountServed, Superseded, CancelTeardown, CancelKeep,
       Free, Answer, TypeOK, Op
<1>2. ASSUME NEW id \in IDs, MountBegin(id) PROVE BooksInv'
  BY <1>2, OpShape DEF MountBegin, Free, Steps, Kinds
<1>3. CASE TakeOverReleased
  BY <1>3, OpShape DEF TakeOverReleased, FreshHistory, Steps
<1>4. CASE TakeOverGivesUp
  BY <1>4, OpShape DEF TakeOverGivesUp, FreshHistory, MountFails
<1>5. CASE TakeOverExpired
  BY <1>5, OpShape DEF TakeOverExpired, FreshHistory, TypeOK, Op, NoOp
<1>6. ASSUME NEW p \in Peers, Preempt(p) PROVE BooksInv'
  BY <1>6, OpShape DEF Preempt, TypeOK, Op, NoOp
<1>7. ASSUME NEW p \in Peers, PreemptFails(p) PROVE BooksInv'
  BY <1>7, OpShape DEF PreemptFails, FreshHistory
<1>8. CASE LeftoverListed
  BY <1>8, OpShape DEF LeftoverListed, Steps
<1>9. CASE LeftoverFails
  BY <1>9, OpShape DEF LeftoverFails, FreshHistory, MountFails
<1>10. CASE LeftoverCleared
  BY <1>10, OpShape DEF LeftoverCleared, Steps
<1>11. CASE LeftoverHeld
  BY <1>11, OpShape DEF LeftoverHeld, FreshHistory, MountFails
<1>12. CASE Connected
  BY <1>12, OpShape DEF Connected, Steps
<1>13. CASE ConnectFails
  BY <1>13, OpShape DEF ConnectFails, FreshHistory
<1>14. CASE DeviceFound
  BY <1>14, OpShape DEF DeviceFound, Steps
<1>15. CASE DeviceLate
  BY <1>15, OpShape DEF DeviceLate, KeepAttached, FreshHistory, Steps
<1>16. CASE DeviceRefused
  BY <1>16, OpShape DEF DeviceRefused, Steps
<1>17. CASE DeviceMountedAlready
  BY <1>17, OpShape DEF DeviceMountedAlready, FreshHistory, MountFails
<1>18. CASE FilesystemMounted
  BY <1>18, OpShape DEF FilesystemMounted, Steps
<1>19. CASE MountPublished
  BY <1>19, OpShape DEF MountPublished, CancelKeep, FreshHistory, Answer,
       TypeOK, Op
<1>20. CASE MountCrossed
  BY <1>20, OpShape DEF MountCrossed, Steps
<1>21. CASE MountAbandoned
  BY <1>21, OpShape DEF MountAbandoned, Steps
<1>22. CASE MountStuck
  BY <1>22, OpShape DEF MountStuck, FreshHistory, MountFails
<1>23. CASE Detached
  BY <1>23, OpShape DEF Detached, Steps
<1>24. CASE DetachFails
  BY <1>24, OpShape DEF DetachFails, Untrack, FreshHistory, ReleaseFailed
<1>25. CASE Disconnected
  BY <1>25, OpShape DEF Disconnected, Untrack, FreshHistory, Steps
<1>26. CASE DisconnectFails
  BY <1>26, OpShape DEF DisconnectFails, Untrack, FreshHistory, ReleaseFailed
<1>27. ASSUME NEW id \in IDs, UnmountKeeps(id) PROVE BooksInv'
  BY <1>27, OpShape DEF UnmountKeeps, Free, Releasing, TypeOK
<1>28. ASSUME NEW id \in IDs, UnmountLast(id) PROVE BooksInv'
  <2>1. ServedIsReferenced'
    <3>1. /\ docker' = [docker EXCEPT ![id] = "none"]
          /\ \A i \in refs \ {id} : i \notin young /\ docker[i] # "running"
      BY <1>28 DEF UnmountLast, Releasing, InUse, TypeOK
    <3>2. excused' = {i \in excused \union {j \in refs \ young : docker[j] # "running"} :
                        i # id /\ docker[i] # "none"}
      BY <1>28 DEF UnmountLast
    <3> QED BY <3>1, <3>2 DEF ServedIsReferenced, TypeOK
  <2>2. /\ LockIsExclusive' /\ EntryIsWhole'
        /\ ForeignHostsAreKnown' /\ ForeignHostsAreNew' /\ DestroysReleased'
    BY <1>28, OpShape DEF UnmountLast, Superseded, ScheduleTeardown, Free, Steps,
         Kinds, Releasing, TypeOK
  <2> QED BY <2>1, <2>2
<1>29. ASSUME NEW id \in IDs, UnmountUntracked(id) PROVE BooksInv'
  BY <1>29, OpShape DEF UnmountUntracked, Free, Steps, Kinds, Releasing,
       TypeOK
<1>30. CASE Unmounted
  BY <1>30, OpShape DEF Unmounted, Steps
<1>31. CASE UmountFails
  BY <1>31, OpShape DEF UmountFails, Superseded, ScheduleTeardown,
       FreshHistory
<1>32. CASE SerialFound
  BY <1>32, OpShape DEF SerialFound, Steps
<1>33. CASE SerialLookupFails
  BY <1>33, OpShape DEF SerialLookupFails, Untrack, FreshHistory
<1>34. CASE DeviceIdle
  BY <1>34, OpShape DEF DeviceIdle, Steps
<1>35. CASE DeviceStaysBusy
  BY <1>35, OpShape DEF DeviceStaysBusy, Untrack, FreshHistory
<1>36. CASE RemoveDestroyed
  BY <1>36, OpShape DEF RemoveDestroyed, CancelKeep, Free
<1>37. CASE RemoveLingering
  BY <1>37, OpShape DEF RemoveLingering, Superseded, CancelTeardown, Free,
       Steps, Kinds
<1>38. CASE RemoveUnmounted
  BY <1>38, OpShape DEF RemoveUnmounted, Free, Steps, Kinds
<1>39. CASE RemoveConnsListed
  BY <1>39, OpShape DEF RemoveConnsListed, FreshHistory, Steps
<1>40. CASE RemoveRefused
  BY <1>40, OpShape DEF RemoveRefused, FreshHistory
<1>41. CASE VolumeDestroyed
  BY <1>41, OpShape DEF VolumeDestroyed, CancelKeep, FreshHistory
<1>42. CASE DestroyFails
  BY <1>42, OpShape DEF DestroyFails, CancelKeep, FreshHistory
<1>43. CASE LingerFires
  BY <1>43, OpShape DEF LingerFires
<1>44. ASSUME NEW timer \in {"current", "stale"}, LingerStandsDown(timer) PROVE BooksInv'
  BY <1>44, OpShape DEF LingerStandsDown, Free, StillLingers
<1>45. ASSUME NEW timer \in {"current", "stale"}, LingerRefused(timer) PROVE BooksInv'
  BY <1>45, OpShape DEF LingerRefused, Free, StillLingers
<1>46. ASSUME NEW timer \in {"current", "stale"}, LingerExpired(timer) PROVE BooksInv'
  BY <1>46, OpShape DEF LingerExpired, Free, StillLingers, Steps, Kinds
<1>47. CASE KeepFires
  BY <1>47, OpShape DEF KeepFires
<1>48. CASE KeepExpired
  BY <1>48, OpShape DEF KeepExpired, Free, Steps, Kinds
<1>49. CASE ShutdownBegins
  BY <1>49, OpShape DEF ShutdownBegins
<1>50. CASE ShutdownVisits
  BY <1>50, OpShape DEF ShutdownVisits, Superseded, CancelTeardown, Free,
       Steps, Kinds
<1>51. CASE Stop
  BY <1>51, OpShape DEF Stop, FreshHistory, Forgotten, Steps, TypeOK
<1>52. CASE Start
  BY <1>52, OpShape DEF Start
<1>53. CASE Reboot
  BY <1>53, OpShape DEF Reboot, FreshHistory, Forgotten, Steps, TypeOK
<1>54. ASSUME NEW id \in IDs, ContainerStarts(id) PROVE BooksInv'
  BY <1>54, OpShape DEF ContainerStarts, TypeOK
<1>55. ASSUME NEW id \in IDs, ContainerExits(id) PROVE BooksInv'
  BY <1>55, OpShape DEF ContainerExits, TypeOK
<1>56. ASSUME NEW id \in IDs, UnmountNeverSent(id) PROVE BooksInv'
  BY <1>56, OpShape DEF UnmountNeverSent, TypeOK
<1>57. ASSUME NEW id \in IDs, RefAges(id) PROVE BooksInv'
  BY <1>57, OpShape DEF RefAges
<1>58. CASE Drained
  BY <1>58, OpShape DEF Drained
<1>59. CASE DeviceAppears
  BY <1>59, OpShape DEF DeviceAppears
<1>60. CASE PeerPreempts
  BY <1>60, OpShape DEF PeerPreempts
<1>61. CASE PeerRemoves
  BY <1>61, OpShape DEF PeerRemoves
<1>62. ASSUME NEW p \in Peers, PeerConnects(p) PROVE BooksInv'
  BY <1>62, OpShape DEF PeerConnects
<1>63. ASSUME NEW p \in Peers, PeerDisconnects(p) PROVE BooksInv'
  BY <1>63, OpShape DEF PeerDisconnects
<1>64. CASE UNCHANGED vars
  BY <1>64
<1> QED
  BY <1>1, <1>2, <1>3, <1>4, <1>5, <1>6, <1>7, <1>8, <1>9, <1>10, <1>11, <1>12,
       <1>13, <1>14, <1>15, <1>16, <1>17, <1>18, <1>19, <1>20, <1>21, <1>22,
       <1>23, <1>24, <1>25, <1>26, <1>27, <1>28, <1>29, <1>30, <1>31, <1>32,
       <1>33, <1>34, <1>35, <1>36, <1>37, <1>38, <1>39, <1>40, <1>41, <1>42,
       <1>43, <1>44, <1>45, <1>46, <1>47, <1>48, <1>49, <1>50, <1>51, <1>52,
       <1>53, <1>54, <1>55, <1>56, <1>57, <1>58, <1>59, <1>60, <1>61, <1>62,
       <1>63, <1>64
     DEF Next, MountStep, ReleaseStep, UnmountStep, RemoveStep, TimerStep,
       ProcessStep, ContainerStep, ArrayStep

\* On iSCSI, at every step, what holds the volume keeps a device beneath it, a
\* detach that went through left nothing that holds it, and no leftover mount is
\* reconnected.
THEOREM DeviceStep ==
    ASSUME Transport = "iscsi", TypeOK, DeviceInv, [Next]_vars
    PROVE  DeviceInv'
<1> USE DEF vars, driverVars, hostVars, arrayVars, historyVars, entryVars, timerVars,
       procVars
<1> USE DEF DeviceInv, HeldHasDevice, NoLeftoverRevived, At, Busy, InUse
<1>1. ASSUME NEW id \in IDs, MountServed(id) PROVE DeviceInv'
  BY <1>1, OpShape DEF MountServed, Superseded, CancelTeardown, CancelKeep,
       Free, Answer, TypeOK, Op
<1>2. ASSUME NEW id \in IDs, MountBegin(id) PROVE DeviceInv'
  BY <1>2, OpShape DEF MountBegin, Free, Steps, Kinds
<1>3. CASE TakeOverReleased
  BY <1>3, OpShape DEF TakeOverReleased, FreshHistory, Steps
<1>4. CASE TakeOverGivesUp
  BY <1>4, OpShape DEF TakeOverGivesUp, FreshHistory, MountFails
<1>5. CASE TakeOverExpired
  BY <1>5, OpShape DEF TakeOverExpired, FreshHistory, TypeOK, Op, NoOp
<1>6. ASSUME NEW p \in Peers, Preempt(p) PROVE DeviceInv'
  BY <1>6, OpShape DEF Preempt, TypeOK, Op, NoOp
<1>7. ASSUME NEW p \in Peers, PreemptFails(p) PROVE DeviceInv'
  BY <1>7, OpShape DEF PreemptFails, FreshHistory
<1>8. CASE LeftoverListed
  BY <1>8, OpShape DEF LeftoverListed, Steps
<1>9. CASE LeftoverFails
  BY <1>9, OpShape DEF LeftoverFails, FreshHistory, MountFails
<1>10. CASE LeftoverCleared
  BY <1>10, OpShape DEF LeftoverCleared, Steps, DetachRefused, DevDetached
<1>11. CASE LeftoverHeld
  BY <1>11, OpShape DEF LeftoverHeld, FreshHistory, MountFails
<1>12. CASE Connected
  BY <1>12, OpShape DEF Connected, Steps
<1>13. CASE ConnectFails
  BY <1>13, OpShape DEF ConnectFails, FreshHistory
<1>14. CASE DeviceFound
  BY <1>14, OpShape DEF DeviceFound, Steps
<1>15. CASE DeviceLate
  BY <1>15, OpShape DEF DeviceLate, KeepAttached, FreshHistory, Steps
<1>16. CASE DeviceRefused
  BY <1>16, OpShape DEF DeviceRefused, Steps
<1>17. CASE DeviceMountedAlready
  BY <1>17, OpShape DEF DeviceMountedAlready, FreshHistory, MountFails
<1>18. CASE FilesystemMounted
  BY <1>18, OpShape DEF FilesystemMounted, Steps
<1>19. CASE MountPublished
  BY <1>19, OpShape DEF MountPublished, CancelKeep, FreshHistory, Answer,
       TypeOK, Op
<1>20. CASE MountCrossed
  BY <1>20, OpShape DEF MountCrossed, Steps
<1>21. CASE MountAbandoned
  BY <1>21, OpShape DEF MountAbandoned, Steps
<1>22. CASE MountStuck
  BY <1>22, OpShape DEF MountStuck, FreshHistory, MountFails
<1>23. CASE Detached
  BY <1>23, OpShape DEF Detached, Steps, DetachRefused, DevDetached
<1>24. CASE DetachFails
  BY <1>24, OpShape DEF DetachFails, Untrack, FreshHistory, ReleaseFailed
<1>25. CASE Disconnected
  BY <1>25, OpShape DEF Disconnected, Untrack, FreshHistory, Steps
<1>26. CASE DisconnectFails
  BY <1>26, OpShape DEF DisconnectFails, Untrack, FreshHistory, ReleaseFailed
<1>27. ASSUME NEW id \in IDs, UnmountKeeps(id) PROVE DeviceInv'
  BY <1>27, OpShape DEF UnmountKeeps, Free, Releasing, TypeOK
<1>28. ASSUME NEW id \in IDs, UnmountLast(id) PROVE DeviceInv'
  BY <1>28, OpShape DEF UnmountLast, Superseded, ScheduleTeardown, Free, Steps,
       Kinds, Releasing, TypeOK
<1>29. ASSUME NEW id \in IDs, UnmountUntracked(id) PROVE DeviceInv'
  BY <1>29, OpShape DEF UnmountUntracked, Free, Steps, Kinds, Releasing,
       TypeOK
<1>30. CASE Unmounted
  BY <1>30, OpShape DEF Unmounted, Steps
<1>31. CASE UmountFails
  BY <1>31, OpShape DEF UmountFails, Superseded, ScheduleTeardown,
       FreshHistory
<1>32. CASE SerialFound
  BY <1>32, OpShape DEF SerialFound, Steps
<1>33. CASE SerialLookupFails
  BY <1>33, OpShape DEF SerialLookupFails, Untrack, FreshHistory
<1>34. CASE DeviceIdle
  BY <1>34, OpShape DEF DeviceIdle, Steps
<1>35. CASE DeviceStaysBusy
  BY <1>35, OpShape DEF DeviceStaysBusy, Untrack, FreshHistory
<1>36. CASE RemoveDestroyed
  BY <1>36, OpShape DEF RemoveDestroyed, CancelKeep, Free
<1>37. CASE RemoveLingering
  BY <1>37, OpShape DEF RemoveLingering, Superseded, CancelTeardown, Free,
       Steps, Kinds
<1>38. CASE RemoveUnmounted
  BY <1>38, OpShape DEF RemoveUnmounted, Free, Steps, Kinds
<1>39. CASE RemoveConnsListed
  BY <1>39, OpShape DEF RemoveConnsListed, FreshHistory, Steps
<1>40. CASE RemoveRefused
  BY <1>40, OpShape DEF RemoveRefused, FreshHistory
<1>41. CASE VolumeDestroyed
  BY <1>41, OpShape DEF VolumeDestroyed, CancelKeep, FreshHistory
<1>42. CASE DestroyFails
  BY <1>42, OpShape DEF DestroyFails, CancelKeep, FreshHistory
<1>43. CASE LingerFires
  BY <1>43, OpShape DEF LingerFires
<1>44. ASSUME NEW timer \in {"current", "stale"}, LingerStandsDown(timer) PROVE DeviceInv'
  BY <1>44, OpShape DEF LingerStandsDown, Free, StillLingers
<1>45. ASSUME NEW timer \in {"current", "stale"}, LingerRefused(timer) PROVE DeviceInv'
  BY <1>45, OpShape DEF LingerRefused, Free, StillLingers
<1>46. ASSUME NEW timer \in {"current", "stale"}, LingerExpired(timer) PROVE DeviceInv'
  BY <1>46, OpShape DEF LingerExpired, Free, StillLingers, Steps, Kinds
<1>47. CASE KeepFires
  BY <1>47, OpShape DEF KeepFires
<1>48. CASE KeepExpired
  BY <1>48, OpShape DEF KeepExpired, Free, Steps, Kinds
<1>49. CASE ShutdownBegins
  BY <1>49, OpShape DEF ShutdownBegins
<1>50. CASE ShutdownVisits
  BY <1>50, OpShape DEF ShutdownVisits, Superseded, CancelTeardown, Free,
       Steps, Kinds
<1>51. CASE Stop
  BY <1>51, OpShape DEF Stop, FreshHistory, Forgotten, Steps, TypeOK
<1>52. CASE Start
  BY <1>52, OpShape DEF Start
<1>53. CASE Reboot
  BY <1>53, OpShape DEF Reboot, FreshHistory, Forgotten, Steps, TypeOK
<1>54. ASSUME NEW id \in IDs, ContainerStarts(id) PROVE DeviceInv'
  BY <1>54, OpShape DEF ContainerStarts, TypeOK
<1>55. ASSUME NEW id \in IDs, ContainerExits(id) PROVE DeviceInv'
  BY <1>55, OpShape DEF ContainerExits, TypeOK
<1>56. ASSUME NEW id \in IDs, UnmountNeverSent(id) PROVE DeviceInv'
  BY <1>56, OpShape DEF UnmountNeverSent, TypeOK
<1>57. ASSUME NEW id \in IDs, RefAges(id) PROVE DeviceInv'
  BY <1>57, OpShape DEF RefAges
<1>58. CASE Drained
  BY <1>58, OpShape DEF Drained
<1>59. CASE DeviceAppears
  BY <1>59, OpShape DEF DeviceAppears
<1>60. CASE PeerPreempts
  BY <1>60, OpShape DEF PeerPreempts
<1>61. CASE PeerRemoves
  BY <1>61, OpShape DEF PeerRemoves
<1>62. ASSUME NEW p \in Peers, PeerConnects(p) PROVE DeviceInv'
  BY <1>62, OpShape DEF PeerConnects
<1>63. ASSUME NEW p \in Peers, PeerDisconnects(p) PROVE DeviceInv'
  BY <1>63, OpShape DEF PeerDisconnects
<1>64. CASE UNCHANGED vars
  BY <1>64
<1> QED
  BY <1>1, <1>2, <1>3, <1>4, <1>5, <1>6, <1>7, <1>8, <1>9, <1>10, <1>11, <1>12,
       <1>13, <1>14, <1>15, <1>16, <1>17, <1>18, <1>19, <1>20, <1>21, <1>22,
       <1>23, <1>24, <1>25, <1>26, <1>27, <1>28, <1>29, <1>30, <1>31, <1>32,
       <1>33, <1>34, <1>35, <1>36, <1>37, <1>38, <1>39, <1>40, <1>41, <1>42,
       <1>43, <1>44, <1>45, <1>46, <1>47, <1>48, <1>49, <1>50, <1>51, <1>52,
       <1>53, <1>54, <1>55, <1>56, <1>57, <1>58, <1>59, <1>60, <1>61, <1>62,
       <1>63, <1>64
     DEF Next, MountStep, ReleaseStep, UnmountStep, RemoveStep, TimerStep,
       ProcessStep, ContainerStep, ArrayStep

\* At every step, an attachment no mount uses is scheduled for release, is in the
\* charge of the operation under way or has been given up.
THEOREM KeepStep ==
    ASSUME TypeOK, BooksInv, KeepInv, [Next]_vars
    PROVE  KeepInv'
<1> USE DEF vars, driverVars, hostVars, arrayVars, historyVars, entryVars, timerVars,
       procVars
<1>0. op.step = "destroy" => ~self
  BY DEF BooksInv, DestroysReleased, At
<1> USE DEF KeepInv, AttachmentIsKept, DestroyedIsReleased, At, Strand
<1>1. ASSUME NEW id \in IDs, MountServed(id) PROVE KeepInv'
  BY <1>1, OpShape DEF MountServed, Superseded, CancelTeardown, CancelKeep,
       Free, Answer, TypeOK, Op
<1>2. ASSUME NEW id \in IDs, MountBegin(id) PROVE KeepInv'
  BY <1>2, OpShape DEF MountBegin, Free, Steps, Kinds
<1>3. CASE TakeOverReleased
  BY <1>3, OpShape DEF TakeOverReleased, FreshHistory, Steps
<1>4. CASE TakeOverGivesUp
  BY <1>4, OpShape DEF TakeOverGivesUp, FreshHistory, MountFails
<1>5. CASE TakeOverExpired
  BY <1>5, OpShape DEF TakeOverExpired, FreshHistory, TypeOK, Op, NoOp
<1>6. ASSUME NEW p \in Peers, Preempt(p) PROVE KeepInv'
  BY <1>6, OpShape DEF Preempt, TypeOK, Op, NoOp
<1>7. ASSUME NEW p \in Peers, PreemptFails(p) PROVE KeepInv'
  BY <1>7, OpShape DEF PreemptFails, FreshHistory
<1>8. CASE LeftoverListed
  BY <1>8, OpShape DEF LeftoverListed, Steps
<1>9. CASE LeftoverFails
  BY <1>9, OpShape DEF LeftoverFails, FreshHistory, MountFails
<1>10. CASE LeftoverCleared
  BY <1>10, OpShape DEF LeftoverCleared, Steps
<1>11. CASE LeftoverHeld
  BY <1>11, OpShape DEF LeftoverHeld, FreshHistory, MountFails
<1>12. CASE Connected
  BY <1>12, OpShape DEF Connected, Steps
<1>13. CASE ConnectFails
  BY <1>13, OpShape DEF ConnectFails, FreshHistory
<1>14. CASE DeviceFound
  BY <1>14, OpShape DEF DeviceFound, Steps
<1>15. CASE DeviceLate
  BY <1>15, OpShape DEF DeviceLate, KeepAttached, FreshHistory, Steps
<1>16. CASE DeviceRefused
  BY <1>16, OpShape DEF DeviceRefused, Steps
<1>17. CASE DeviceMountedAlready
  BY <1>17, OpShape DEF DeviceMountedAlready, FreshHistory, MountFails
<1>18. CASE FilesystemMounted
  BY <1>18, OpShape DEF FilesystemMounted, Steps
<1>19. CASE MountPublished
  BY <1>19, OpShape DEF MountPublished, CancelKeep, FreshHistory, Answer,
       TypeOK, Op
<1>20. CASE MountCrossed
  BY <1>20, OpShape DEF MountCrossed, Steps
<1>21. CASE MountAbandoned
  BY <1>21, OpShape DEF MountAbandoned, Steps
<1>22. CASE MountStuck
  BY <1>22, OpShape DEF MountStuck, FreshHistory, MountFails
<1>23. CASE Detached
  BY <1>23, OpShape DEF Detached, Steps
<1>24. CASE DetachFails
  BY <1>24, OpShape DEF DetachFails, Untrack, FreshHistory, ReleaseFailed
<1>25. CASE Disconnected
  BY <1>25, OpShape DEF Disconnected, Untrack, FreshHistory, Steps
<1>26. CASE DisconnectFails
  <2>1. self' => self
    BY <1>26 DEF DisconnectFails
  <2>2. self' => keep' # "off" \/ stranded'
    BY <1>26 DEF DisconnectFails
  <2> QED BY <1>26, <2>1, <2>2 DEF DisconnectFails
<1>27. ASSUME NEW id \in IDs, UnmountKeeps(id) PROVE KeepInv'
  BY <1>27, OpShape DEF UnmountKeeps, Free, Releasing, TypeOK
<1>28. ASSUME NEW id \in IDs, UnmountLast(id) PROVE KeepInv'
  BY <1>28, OpShape DEF UnmountLast, Superseded, ScheduleTeardown, Free, Steps,
       Kinds, Releasing, TypeOK
<1>29. ASSUME NEW id \in IDs, UnmountUntracked(id) PROVE KeepInv'
  BY <1>29, OpShape DEF UnmountUntracked, Free, Steps, Kinds, Releasing,
       TypeOK
<1>30. CASE Unmounted
  BY <1>30, OpShape DEF Unmounted, Steps
<1>31. CASE UmountFails
  BY <1>31, OpShape DEF UmountFails, Superseded, ScheduleTeardown,
       FreshHistory
<1>32. CASE SerialFound
  BY <1>32, OpShape DEF SerialFound, Steps
<1>33. CASE SerialLookupFails
  BY <1>33, OpShape DEF SerialLookupFails, Untrack, FreshHistory
<1>34. CASE DeviceIdle
  BY <1>34, OpShape DEF DeviceIdle, Steps
<1>35. CASE DeviceStaysBusy
  BY <1>35, OpShape DEF DeviceStaysBusy, Untrack, FreshHistory
<1>36. CASE RemoveDestroyed
  BY <1>36, OpShape DEF RemoveDestroyed, CancelKeep, Free
<1>37. CASE RemoveLingering
  BY <1>37, OpShape DEF RemoveLingering, Superseded, CancelTeardown, Free,
       Steps, Kinds
<1>38. CASE RemoveUnmounted
  BY <1>38, OpShape DEF RemoveUnmounted, Free, Steps, Kinds
<1>39. CASE RemoveConnsListed
  BY <1>39, OpShape DEF RemoveConnsListed, FreshHistory, Steps
<1>40. CASE RemoveRefused
  BY <1>40, OpShape DEF RemoveRefused, FreshHistory
<1>41. CASE VolumeDestroyed
  BY <1>0, <1>41, OpShape DEF VolumeDestroyed, CancelKeep, FreshHistory
<1>42. CASE DestroyFails
  BY <1>0, <1>42, OpShape DEF DestroyFails, CancelKeep, FreshHistory
<1>43. CASE LingerFires
  BY <1>43, OpShape DEF LingerFires
<1>44. ASSUME NEW timer \in {"current", "stale"}, LingerStandsDown(timer) PROVE KeepInv'
  BY <1>44, OpShape DEF LingerStandsDown, Free, StillLingers
<1>45. ASSUME NEW timer \in {"current", "stale"}, LingerRefused(timer) PROVE KeepInv'
  BY <1>45, OpShape DEF LingerRefused, Free, StillLingers
<1>46. ASSUME NEW timer \in {"current", "stale"}, LingerExpired(timer) PROVE KeepInv'
  BY <1>46, OpShape DEF LingerExpired, Free, StillLingers, Steps, Kinds
<1>47. CASE KeepFires
  BY <1>47, OpShape DEF KeepFires
<1>48. CASE KeepExpired
  BY <1>48, OpShape DEF KeepExpired, Free, Steps, Kinds
<1>49. CASE ShutdownBegins
  BY <1>49, OpShape DEF ShutdownBegins
<1>50. CASE ShutdownVisits
  BY <1>50, OpShape DEF ShutdownVisits, Superseded, CancelTeardown, Free,
       Steps, Kinds
<1>51. CASE Stop
  BY <1>51, OpShape DEF Stop, FreshHistory, Forgotten, Steps, TypeOK
<1>52. CASE Start
  BY <1>52, OpShape DEF Start
<1>53. CASE Reboot
  BY <1>53, OpShape DEF Reboot, FreshHistory, Forgotten, Steps, TypeOK
<1>54. ASSUME NEW id \in IDs, ContainerStarts(id) PROVE KeepInv'
  BY <1>54, OpShape DEF ContainerStarts, TypeOK
<1>55. ASSUME NEW id \in IDs, ContainerExits(id) PROVE KeepInv'
  BY <1>55, OpShape DEF ContainerExits, TypeOK
<1>56. ASSUME NEW id \in IDs, UnmountNeverSent(id) PROVE KeepInv'
  BY <1>56, OpShape DEF UnmountNeverSent, TypeOK
<1>57. ASSUME NEW id \in IDs, RefAges(id) PROVE KeepInv'
  BY <1>57, OpShape DEF RefAges
<1>58. CASE Drained
  BY <1>58, OpShape DEF Drained
<1>59. CASE DeviceAppears
  BY <1>59, OpShape DEF DeviceAppears
<1>60. CASE PeerPreempts
  BY <1>60, OpShape DEF PeerPreempts
<1>61. CASE PeerRemoves
  BY <1>61, OpShape DEF PeerRemoves
<1>62. ASSUME NEW p \in Peers, PeerConnects(p) PROVE KeepInv'
  BY <1>62, OpShape DEF PeerConnects
<1>63. ASSUME NEW p \in Peers, PeerDisconnects(p) PROVE KeepInv'
  BY <1>63, OpShape DEF PeerDisconnects
<1>64. CASE UNCHANGED vars
  BY <1>64
<1> QED
  BY <1>1, <1>2, <1>3, <1>4, <1>5, <1>6, <1>7, <1>8, <1>9, <1>10, <1>11, <1>12,
       <1>13, <1>14, <1>15, <1>16, <1>17, <1>18, <1>19, <1>20, <1>21, <1>22,
       <1>23, <1>24, <1>25, <1>26, <1>27, <1>28, <1>29, <1>30, <1>31, <1>32,
       <1>33, <1>34, <1>35, <1>36, <1>37, <1>38, <1>39, <1>40, <1>41, <1>42,
       <1>43, <1>44, <1>45, <1>46, <1>47, <1>48, <1>49, <1>50, <1>51, <1>52,
       <1>53, <1>54, <1>55, <1>56, <1>57, <1>58, <1>59, <1>60, <1>61, <1>62,
       <1>63, <1>64
     DEF Next, MountStep, ReleaseStep, UnmountStep, RemoveStep, TimerStep,
       ProcessStep, ContainerStep, ArrayStep

-----------------------------------------------------------------------------
(* The theorems. *)

\* The type invariant, for every value of the constants.
THEOREM TypeCorrect == Spec => []TypeOK
<1>1. Init => TypeOK
  <2>1. NoOp \in Op
    BY DEF Op, NoOp, Kinds, Steps
  <2> QED
    BY <2>1 DEF Init, TypeOK
<1> QED
  BY <1>1, TypeStep, PTL DEF Spec

\* The inductive invariant: all that follows is a part or a consequence of it.
THEOREM InvariantHolds == Spec => []IInv
<1>1. Init => IInv
  <2> SUFFICES ASSUME Init PROVE IInv
    OBVIOUS
  <2>1. TypeOK
    <3>1. NoOp \in Op
      BY DEF Op, NoOp, Kinds, Steps
    <3> QED
      BY <3>1 DEF Init, TypeOK
  <2>2. BooksInv
    BY DEF Init, NoOp, BooksInv, LockIsExclusive, EntryIsWhole, StepsOf, Teardown,
       ServedIsReferenced, ForeignHostsAreKnown, ForeignHostsAreNew,
       DestroysReleased, At
  <2>3. KeepInv
    BY DEF Init, KeepInv, AttachmentIsKept, DestroyedIsReleased
  <2>4. DeviceInv
    BY DEF Init, NoOp, DeviceInv, HeldHasDevice, NoLeftoverRevived, At, Busy, InUse
  <2> QED
    BY <2>1, <2>2, <2>3, <2>4 DEF IInv
<1>2. IInv /\ [Next]_vars => IInv'
  BY TypeStep, BooksStep, KeepStep, DeviceStep DEF IInv
<1> QED
  BY <1>1, <1>2, PTL DEF Spec

\* A mount Docker was granted stays mounted, referenced and out of reach of every
\* teardown until Docker gives it up.
THEOREM ServedStays == Spec => []ServedStaysMounted
<1>1. IInv => ServedStaysMounted
  BY DEF IInv, TypeOK, BooksInv, LockIsExclusive, EntryIsWhole, ServedIsReferenced,
     ServedStaysMounted, NoOp
<1> QED
  BY <1>1, InvariantHolds, PTL

\* While no operation is under way, an entry of d.mounts is mounted.
THEOREM EntryMounted == Spec => []EntryIsMounted
<1>1. IInv => EntryIsMounted
  BY DEF IInv, BooksInv, EntryIsWhole, EntryIsMounted, NoOp
<1> QED
  BY <1>1, InvariantHolds, PTL

\* No host that was connected when an operation listed the connections still is
\* when it connects or destroys the volume.
THEOREM ForeignHostsNew == Spec => []ForeignHostsAreNew
<1>1. IInv => ForeignHostsAreNew
  BY DEF IInv, BooksInv
<1> QED
  BY <1>1, InvariantHolds, PTL

\* Remove destroys only what this host has released.
THEOREM DestroysOnlyReleased == Spec => []DestroysReleased
<1>1. IInv => DestroysReleased
  BY DEF IInv, BooksInv
<1> QED
  BY <1>1, InvariantHolds, PTL

\* No attachment without a mount is forgotten, but for those the driver gave up.
THEOREM NothingForgotten == Spec => []NoForgottenAttachment
<1>1. IInv => NoForgottenAttachment
  BY DEF IInv, KeepInv, AttachmentIsKept, NoForgottenAttachment, NoOp
<1> QED
  BY <1>1, InvariantHolds, PTL

\* On iSCSI no leftover mount is reconnected beneath.
THEOREM NothingRevived ==
    ASSUME Transport = "iscsi"
    PROVE  Spec => []NoLeftoverRevived
<1>1. IInv => NoLeftoverRevived
  BY DEF IInv, DeviceInv
<1> QED
  BY <1>1, InvariantHolds, PTL

\* On iSCSI the driver never disconnects this host under something that holds
\* the device, whichever of its paths releases the volume.
THEOREM NeverCuts ==
    ASSUME Transport = "iscsi"
    PROVE  Spec => NeverCutsHeld
<1>1. IInv => [At("unlink") /\ self /\ ~self' => ~Busy]_vars
  BY DEF IInv, DeviceInv, HeldHasDevice, At
<1> QED
  BY <1>1, InvariantHolds, PTL DEF NeverCutsHeld
=============================================================================
