------------------------- MODULE VolumeData_proofs -------------------------
(***************************************************************************)
(* What VolumeData promises of a volume's data, for every set of hosts and *)
(* faults and every bound on the mounts.                                   *)
(*                                                                         *)
(* The argument: TypeOK is inductive (TypeStep). As long as no two hosts   *)
(* raced past takeOver, the array has the volume connected to one host at  *)
(* most, and a host that is or is about to be connected holds the latest   *)
(* mount or none (NoRace); and a host that is about to format either found *)
(* no filesystem where nobody else can have made one since, or raced, or   *)
(* looked the volume up before it was damaged (FormatsLookedUp).  The two  *)
(* are inductive together, given TypeOK (RaceStep), and the properties the *)
(* run checks follow.                                                      *)
(***************************************************************************)
EXTENDS VolumeData, TLAPS

\* Mount steps that neither pass a look at the connections nor begin a format, and
\* releases: the operation moves on or ends, and at most connections go.
LEMMA QuietStep ==
    ASSUME TypeOK, NoRace, FormatsLookedUp,
           NEW n \in Hosts, NEW s \in Steps \ {"clear", "connect", "mkfs"},
           pc' = [pc EXCEPT ![n] = s], pc[n] = "idle" => s = "idle",
           conn' \subseteq conn,
           UNCHANGED <<held, diskVars, unwritten, raceVars, hurt>>
    PROVE  NoRace' /\ FormatsLookedUp'
<1> USE DEF TypeOK, Steps, At, diskVars, raceVars
<1>1. OneConnection => OneConnection'
  BY DEF OneConnection
<1>2. HoldsLatest => HoldsLatest'
  BY DEF HoldsLatest, MayWrite
<1>3. DataIsFiled => DataIsFiled'
  BY DEF DataIsFiled
<1>4. NoRace'
  BY <1>1, <1>2, <1>3 DEF NoRace
<1>5. FormatsLookedUp'
  BY DEF FormatsLookedUp
<1> QED BY <1>4, <1>5

\* The array connects a host.  Unless that is the race, it was the only one
\* connected, and what it may hold is the latest mount.
LEMMA ConnectStep ==
    ASSUME TypeOK, NoRace, FormatsLookedUp,
           NEW n \in Hosts, At(n, "connect"), Connected(n),
           NEW s \in {"idle", "wait"}, Goto(n, s),
           UNCHANGED <<held, diskVars, unwritten, hurt>>
    PROVE  NoRace' /\ FormatsLookedUp'
<1> USE DEF TypeOK, Steps, At, Goto, diskVars
<1>1. ASSUME ~raced'
      PROVE  OneConnection' /\ HoldsLatest' /\ DataIsFiled'
  <2>1. ~raced /\ n \notin overtaken
    BY <1>1 DEF Connected
  <2>2. OneConnection /\ HoldsLatest /\ DataIsFiled
    BY <2>1 DEF NoRace
  <2>3. conn' = {n}
    BY <2>1, <2>2 DEF OneConnection, Connected
  <2>4. \A m \in Hosts \ overtaken' : pc'[m] \in {"clear", "connect"} => m = n
    BY DEF Connected
  <2>5. OneConnection'
    BY <2>3, <2>4 DEF OneConnection
  <2>6. HoldsLatest'
    BY <2>1, <2>2, <2>3, <2>4 DEF HoldsLatest, MayWrite
  <2>7. DataIsFiled'
    BY <2>2 DEF DataIsFiled
  <2> QED BY <2>5, <2>6, <2>7
<1>2. FormatsLookedUp'
  BY DEF FormatsLookedUp, Connected
<1> QED BY <1>1, <1>2 DEF NoRace

\* A mkfs cut short hits the only host that can write, which holds nothing.
LEMMA CutShortStep ==
    ASSUME TypeOK, NoRace, FormatsLookedUp, NEW n \in Hosts, CutShort(n),
           pc' = [pc EXCEPT ![n] = "idle"], conn' \subseteq conn,
           \A m \in Hosts : held'[m] \in {0, held[m]},
           UNCHANGED <<mounts, unwritten, raceVars, hurt>>
    PROVE  NoRace' /\ FormatsLookedUp'
<1> USE DEF TypeOK, Steps, At, raceVars, CutShort
<1>1. OneConnection => OneConnection'
  BY DEF OneConnection
<1>2. OneConnection => HoldsLatest'
  BY DEF OneConnection, HoldsLatest, MayWrite
<1>3. DataIsFiled'
  BY DEF DataIsFiled
<1>4. NoRace'
  BY <1>1, <1>2, <1>3 DEF NoRace
<1>5. FormatsLookedUp'
  BY DEF FormatsLookedUp, Unreadable
<1> QED BY <1>4, <1>5
-----------------------------------------------------------------------------
(* The invariant, one step per action. *)

\* Every step of VolumeData keeps its state well typed.
THEOREM TypeStep == TypeOK /\ [Next]_vars => TypeOK'
<1> SUFFICES ASSUME TypeOK, [Next]_vars
             PROVE  TypeOK'
  OBVIOUS
<1> USE DEF TypeOK, Steps, Contents, Goto, hostVars, diskVars, raceVars
<1>1. ASSUME NEW n \in Hosts, Ask(n) PROVE TypeOK'
  BY <1>1 DEF Ask, SaysUnwritten
<1>2. ASSUME NEW n \in Hosts, LookFree(n) PROVE TypeOK'
  BY <1>2 DEF LookFree
<1>3. ASSUME NEW n \in Hosts, LookGivesUp(n) PROVE TypeOK'
  BY <1>3 DEF LookGivesUp
<1>4. ASSUME NEW n \in Hosts, Preempt(n) PROVE TypeOK'
  BY <1>4 DEF Preempt
<1>5. ASSUME NEW n \in Hosts, PreemptFails(n) PROVE TypeOK'
  BY <1>5 DEF PreemptFails
<1>6. ASSUME NEW n \in Hosts, Clear(n) PROVE TypeOK'
  BY <1>6 DEF Clear
<1>7. ASSUME NEW n \in Hosts, ClearRefuses(n) PROVE TypeOK'
  BY <1>7 DEF ClearRefuses
<1>8. ASSUME NEW n \in Hosts, Connect(n) PROVE TypeOK'
  BY <1>8 DEF Connect, Connected
<1>9. ASSUME NEW n \in Hosts, ConnectFails(n) PROVE TypeOK'
  BY <1>9 DEF ConnectFails, Connected
<1>10. ASSUME NEW n \in Hosts, DeviceFound(n) PROVE TypeOK'
  BY <1>10 DEF DeviceFound
<1>11. ASSUME NEW n \in Hosts, DeviceFails(n) PROVE TypeOK'
  BY <1>11 DEF DeviceFails, RollsBack, LeavesConnected
<1>12. ASSUME NEW n \in Hosts, MountedHere(n) PROVE TypeOK'
  BY <1>12 DEF MountedHere, LeavesConnected
<1>13. ASSUME NEW n \in Hosts, FilesystemFound(n) PROVE TypeOK'
  BY <1>13 DEF FilesystemFound
<1>14. ASSUME NEW n \in Hosts, NoFilesystem(n) PROVE TypeOK'
  BY <1>14 DEF NoFilesystem
<1>15. ASSUME NEW n \in Hosts, ProbeFails(n) PROVE TypeOK'
  BY <1>15 DEF ProbeFails, RollsBack
<1>16. ASSUME NEW n \in Hosts, Mkfs(n) PROVE TypeOK'
  BY <1>16 DEF Mkfs
<1>17. ASSUME NEW n \in Hosts, MkfsFails(n) PROVE TypeOK'
  BY <1>17 DEF MkfsFails, CutShort, RollsBack
<1>18. ASSUME NEW n \in Hosts, Mounted(n) PROVE TypeOK'
  BY <1>18, DataAssumption DEF Mounted, Holds
<1>19. ASSUME NEW n \in Hosts, MountStuck(n) PROVE TypeOK'
  BY <1>19, DataAssumption DEF MountStuck, Holds, LeavesConnected
<1>20. ASSUME NEW n \in Hosts, MountFails(n) PROVE TypeOK'
  BY <1>20 DEF MountFails, RollsBack
<1>21. ASSUME NEW n \in Hosts, Write(n) PROVE TypeOK'
  BY <1>21 DEF Write
<1>22. ASSUME NEW n \in Hosts, Teardown(n) PROVE TypeOK'
  BY <1>22, DataAssumption DEF Teardown
<1>23. ASSUME NEW n \in Hosts, Drained(n) PROVE TypeOK'
  BY <1>23, DataAssumption DEF Drained
<1>24. ASSUME NEW n \in Hosts, ReleaseUnused(n) PROVE TypeOK'
  BY <1>24 DEF ReleaseUnused
<1>25. ASSUME NEW n \in Hosts, Restart(n) PROVE TypeOK'
  BY <1>25 DEF Restart, CutShort
<1>26. ASSUME NEW n \in Hosts, Reboot(n) PROVE TypeOK'
  <2>1. entry' \in [Hosts -> BOOLEAN] /\ held' \in [Hosts -> 0..mounts]
    BY <1>26, DataAssumption DEF Reboot
  <2>2. disk' \in Contents /\ data' \in BOOLEAN
    BY <1>26 DEF Reboot, CutShort
  <2> QED BY <1>26, <2>1, <2>2 DEF Reboot
<1>27. CASE Damage
  BY <1>27 DEF Damage
<1>28. CASE UNCHANGED vars
  BY <1>28 DEF vars
<1> QED
  BY <1>1, <1>2, <1>3, <1>4, <1>5, <1>6, <1>7, <1>8, <1>9, <1>10, <1>11,
     <1>12, <1>13, <1>14, <1>15, <1>16, <1>17, <1>18, <1>19, <1>20,
     <1>21, <1>22, <1>23, <1>24, <1>25, <1>26, <1>27, <1>28
     DEF Next, MountStep, FilesystemStep, UseStep

\* Every step keeps the rest of the inductive invariant.
THEOREM RaceStep ==
    TypeOK /\ NoRace /\ FormatsLookedUp /\ [Next]_vars => NoRace' /\ FormatsLookedUp'
<1> SUFFICES ASSUME TypeOK, NoRace, FormatsLookedUp, [Next]_vars
             PROVE  NoRace' /\ FormatsLookedUp'
  OBVIOUS
<1> USE DEF Goto, At, hostVars, raceVars
<1>1. ASSUME NEW n \in Hosts, Ask(n) PROVE NoRace' /\ FormatsLookedUp'
  <2>1. NoRace'
    BY <1>1 DEF Ask, TypeOK, Steps, diskVars, NoRace, OneConnection, HoldsLatest, MayWrite,
       DataIsFiled
  <2>2. FormatsLookedUp'
    BY <1>1 DEF Ask, SaysUnwritten, FormatsLookedUp, TypeOK, Steps, diskVars
  <2> QED BY <2>1, <2>2
<1>2. ASSUME NEW n \in Hosts, LookFree(n) PROVE NoRace' /\ FormatsLookedUp'
  <2>1. NoRace'
    BY <1>2 DEF LookFree, Others, TypeOK, Steps, diskVars, NoRace, OneConnection,
       HoldsLatest, MayWrite, DataIsFiled
  <2>2. FormatsLookedUp'
    BY <1>2 DEF LookFree, Others, FormatsLookedUp, TypeOK, Steps, diskVars
  <2> QED BY <2>1, <2>2
<1>3. ASSUME NEW n \in Hosts, LookGivesUp(n) PROVE NoRace' /\ FormatsLookedUp'
  BY <1>3, QuietStep DEF LookGivesUp, Steps
<1>4. ASSUME NEW n \in Hosts, Preempt(n) PROVE NoRace' /\ FormatsLookedUp'
  <2>1. NoRace'
    BY <1>4 DEF Preempt, Others, TypeOK, Steps, diskVars, NoRace, OneConnection,
       HoldsLatest, MayWrite, DataIsFiled
  <2>2. FormatsLookedUp'
    BY <1>4 DEF Preempt, Others, FormatsLookedUp, TypeOK, Steps, diskVars
  <2> QED BY <2>1, <2>2
<1>5. ASSUME NEW n \in Hosts, PreemptFails(n) PROVE NoRace' /\ FormatsLookedUp'
  BY <1>5, QuietStep DEF PreemptFails, Steps
<1>6. ASSUME NEW n \in Hosts, Clear(n) PROVE NoRace' /\ FormatsLookedUp'
  <2>1. NoRace'
    BY <1>6 DEF Clear, MayReconnect, TypeOK, Steps, diskVars, NoRace, OneConnection,
       HoldsLatest, MayWrite, DataIsFiled
  <2>2. FormatsLookedUp'
    BY <1>6 DEF Clear, MayReconnect, FormatsLookedUp, TypeOK, Steps, diskVars
  <2> QED BY <2>1, <2>2
<1>7. ASSUME NEW n \in Hosts, ClearRefuses(n) PROVE NoRace' /\ FormatsLookedUp'
  BY <1>7, QuietStep DEF ClearRefuses, Steps
<1>8. ASSUME NEW n \in Hosts, Connect(n) PROVE NoRace' /\ FormatsLookedUp'
  BY <1>8, ConnectStep DEF Connect
<1>9. ASSUME NEW n \in Hosts, ConnectFails(n) PROVE NoRace' /\ FormatsLookedUp'
  <2>1. CASE Connected(n)
    BY <1>9, <2>1, ConnectStep DEF ConnectFails
  <2>2. CASE UNCHANGED <<conn, raceVars>>
    BY <1>9, <2>2, QuietStep DEF ConnectFails, Steps
  <2> QED BY <1>9, <2>1, <2>2 DEF ConnectFails
<1>10. ASSUME NEW n \in Hosts, DeviceFound(n) PROVE NoRace' /\ FormatsLookedUp'
  BY <1>10, QuietStep DEF DeviceFound, Steps
<1>11. ASSUME NEW n \in Hosts, DeviceFails(n) PROVE NoRace' /\ FormatsLookedUp'
  BY <1>11, QuietStep DEF DeviceFails, Steps, RollsBack, LeavesConnected
<1>12. ASSUME NEW n \in Hosts, MountedHere(n) PROVE NoRace' /\ FormatsLookedUp'
  BY <1>12, QuietStep DEF MountedHere, Steps, LeavesConnected
<1>13. ASSUME NEW n \in Hosts, FilesystemFound(n) PROVE NoRace' /\ FormatsLookedUp'
  BY <1>13, QuietStep DEF FilesystemFound, Steps
<1>14. ASSUME NEW n \in Hosts, NoFilesystem(n) PROVE NoRace' /\ FormatsLookedUp'
  <2>1. NoRace'
    BY <1>14 DEF NoFilesystem, MayFormat, TypeOK, Steps, diskVars, NoRace, OneConnection,
       HoldsLatest, MayWrite, DataIsFiled
  <2>2. FormatsLookedUp'
    BY <1>14 DEF NoFilesystem, MayFormat, FormatsLookedUp, TypeOK, Steps, diskVars
  <2> QED BY <2>1, <2>2
<1>15. ASSUME NEW n \in Hosts, ProbeFails(n) PROVE NoRace' /\ FormatsLookedUp'
  BY <1>15, QuietStep DEF ProbeFails, Steps, RollsBack
<1>16. ASSUME NEW n \in Hosts, Mkfs(n) PROVE NoRace' /\ FormatsLookedUp'
  <2>1. NoRace'
    BY <1>16 DEF Mkfs, Unreadable, TypeOK, Steps, diskVars, NoRace, OneConnection,
       HoldsLatest, MayWrite, DataIsFiled
  <2>2. FormatsLookedUp'
    BY <1>16 DEF Mkfs, Unreadable, NoRace, OneConnection, FormatsLookedUp, TypeOK, Steps,
       diskVars
  <2> QED BY <2>1, <2>2
<1>17. ASSUME NEW n \in Hosts, MkfsFails(n) PROVE NoRace' /\ FormatsLookedUp'
  <2>1. CASE CutShort(n)
    BY <1>17, <2>1, CutShortStep DEF MkfsFails, TypeOK, RollsBack
  <2>2. CASE UNCHANGED <<disk, data>>
    BY <1>17, <2>2, QuietStep DEF MkfsFails, diskVars, Steps, RollsBack
  <2> QED BY <1>17, <2>1, <2>2 DEF MkfsFails
<1>18. ASSUME NEW n \in Hosts, Mounted(n) PROVE NoRace' /\ FormatsLookedUp'
  <2>1. NoRace'
    BY <1>18 DEF Mounted, Holds, TypeOK, Steps, diskVars, NoRace, OneConnection,
       HoldsLatest, MayWrite, DataIsFiled
  <2>2. FormatsLookedUp'
    BY <1>18 DEF Mounted, Holds, FormatsLookedUp, TypeOK, Steps, diskVars
  <2> QED BY <2>1, <2>2
<1>19. ASSUME NEW n \in Hosts, MountStuck(n) PROVE NoRace' /\ FormatsLookedUp'
  <2>1. NoRace'
    BY <1>19 DEF MountStuck, Holds, LeavesConnected, TypeOK, Steps, diskVars, NoRace,
       OneConnection, HoldsLatest, MayWrite, DataIsFiled
  <2>2. FormatsLookedUp'
    BY <1>19 DEF MountStuck, Holds, LeavesConnected, FormatsLookedUp, TypeOK, Steps,
       diskVars
  <2> QED BY <2>1, <2>2
<1>20. ASSUME NEW n \in Hosts, MountFails(n) PROVE NoRace' /\ FormatsLookedUp'
  BY <1>20, QuietStep DEF MountFails, Steps, RollsBack
<1>21. ASSUME NEW n \in Hosts, Write(n) PROVE NoRace' /\ FormatsLookedUp'
  <2>1. NoRace'
    BY <1>21 DEF Write, CanWrite, TypeOK, Steps, diskVars, NoRace, OneConnection,
       HoldsLatest, MayWrite, DataIsFiled
  <2>2. FormatsLookedUp'
    BY <1>21 DEF Write, CanWrite, FormatsLookedUp, TypeOK, Steps, diskVars
  <2> QED BY <2>1, <2>2
<1>22. ASSUME NEW n \in Hosts, Teardown(n) PROVE NoRace' /\ FormatsLookedUp'
  <2>1. NoRace'
    BY <1>22 DEF Teardown, TypeOK, Steps, diskVars, NoRace, OneConnection, HoldsLatest,
       MayWrite, DataIsFiled
  <2>2. FormatsLookedUp'
    BY <1>22 DEF Teardown, FormatsLookedUp, TypeOK, Steps, diskVars
  <2> QED BY <2>1, <2>2
<1>23. ASSUME NEW n \in Hosts, Drained(n) PROVE NoRace' /\ FormatsLookedUp'
  <2>1. NoRace'
    BY <1>23 DEF Drained, TypeOK, Steps, diskVars, NoRace, OneConnection, HoldsLatest,
       MayWrite, DataIsFiled
  <2>2. FormatsLookedUp'
    BY <1>23 DEF Drained, FormatsLookedUp, TypeOK, Steps, diskVars
  <2> QED BY <2>1, <2>2
<1>24. ASSUME NEW n \in Hosts, ReleaseUnused(n) PROVE NoRace' /\ FormatsLookedUp'
  <2>1. pc' = [pc EXCEPT ![n] = "idle"]
    BY <1>24 DEF ReleaseUnused, TypeOK
  <2> QED BY <1>24, <2>1, QuietStep DEF ReleaseUnused, Steps
<1>25. ASSUME NEW n \in Hosts, Restart(n) PROVE NoRace' /\ FormatsLookedUp'
  <2>1. CASE CutShort(n)
    BY <1>25, <2>1, CutShortStep DEF Restart, TypeOK
  <2>2. CASE UNCHANGED <<disk, data>>
    BY <1>25, <2>2, QuietStep DEF Restart, diskVars, Steps
  <2> QED BY <1>25, <2>1, <2>2 DEF Restart
<1>26. ASSUME NEW n \in Hosts, Reboot(n) PROVE NoRace' /\ FormatsLookedUp'
  <2>1. CASE CutShort(n)
    BY <1>26, <2>1, CutShortStep DEF Reboot, TypeOK
  <2>2. CASE UNCHANGED <<disk, data>>
    <3>1. NoRace'
      BY <1>26, <2>2 DEF Reboot, TypeOK, Steps, diskVars, NoRace, OneConnection,
         HoldsLatest, MayWrite, DataIsFiled
    <3>2. FormatsLookedUp'
      BY <1>26, <2>2 DEF Reboot, FormatsLookedUp, TypeOK, Steps
    <3> QED BY <3>1, <3>2
  <2> QED BY <1>26, <2>1, <2>2 DEF Reboot
<1>27. CASE Damage
  <2>1. NoRace'
    BY <1>27 DEF Damage, TypeOK, Steps, diskVars, NoRace, OneConnection, HoldsLatest,
       MayWrite, DataIsFiled
  <2>2. FormatsLookedUp'
    BY <1>27 DEF Damage, FormatsLookedUp, Unreadable, TypeOK
  <2> QED BY <2>1, <2>2
<1>28. CASE UNCHANGED vars
  BY <1>28 DEF vars, NoRace, OneConnection, HoldsLatest, MayWrite, DataIsFiled,
     FormatsLookedUp
<1> QED
  BY <1>1, <1>2, <1>3, <1>4, <1>5, <1>6, <1>7, <1>8, <1>9, <1>10, <1>11,
     <1>12, <1>13, <1>14, <1>15, <1>16, <1>17, <1>18, <1>19, <1>20,
     <1>21, <1>22, <1>23, <1>24, <1>25, <1>26, <1>27, <1>28
     DEF Next, MountStep, FilesystemStep, UseStep

-----------------------------------------------------------------------------
(* What a step can do to the data. *)

\* Data is lost in a format only.
LEMMA DataLossStep ==
    ASSUME [Next]_vars, data, ~data'
    PROVE  \E n \in Hosts : Mkfs(n) \/ CutShort(n)
<1> USE DEF diskVars
<1>1. ~UNCHANGED vars /\ ~Damage
  BY DEF vars, Damage
<1>2. PICK n \in Hosts : MountStep(n) \/ FilesystemStep(n) \/ UseStep(n)
  BY <1>1 DEF Next
<1>3. ~MountStep(n)
  BY DEF MountStep, Ask, LookFree, LookGivesUp, Preempt, PreemptFails, Clear, ClearRefuses,
     Connect, ConnectFails, DeviceFound, DeviceFails
<1>4. FilesystemStep(n) => Mkfs(n) \/ CutShort(n)
  BY DEF FilesystemStep, MountedHere, FilesystemFound, NoFilesystem, ProbeFails, MkfsFails,
     Mounted, MountStuck, MountFails
<1>5. UseStep(n) => CutShort(n)
  BY DEF UseStep, Write, Teardown, Drained, ReleaseUnused, Restart, Reboot
<1> QED BY <1>2, <1>3, <1>4, <1>5

-----------------------------------------------------------------------------
(* The theorems. *)

\* The inductive invariant holds in every reachable state.
THEOREM InvariantHolds == Spec => []IInv
<1>1. ASSUME Init PROVE IInv
  <2>1. TypeOK
    <3>1. data \in BOOLEAN /\ disk \in Contents
      BY <1>1 DEF Init, Contents
    <3>2. mounts \in 0..MaxMounts /\ held \in [Hosts -> 0..mounts]
      BY <1>1, DataAssumption DEF Init
    <3> QED BY <1>1, <3>1, <3>2 DEF Init, TypeOK, Steps
  <2>2. NoRace
    BY <1>1 DEF Init, NoRace, OneConnection, HoldsLatest, MayWrite, DataIsFiled, At
  <2>3. FormatsLookedUp
    BY <1>1 DEF Init, FormatsLookedUp, At
  <2> QED BY <2>1, <2>2, <2>3 DEF IInv
<1>2. IInv /\ [Next]_vars => IInv'
  BY TypeStep, RaceStep DEF IInv
<1> QED BY <1>1, <1>2, PTL DEF Spec

\* Every variable keeps its type.
THEOREM TypeCorrect == Spec => []TypeOK
<1>1. IInv => TypeOK
  BY DEF IInv
<1> QED BY <1>1, InvariantHolds, PTL

\* A mount that another host's has overtaken is cut off from the volume (takeOver,
\* clearLeftover), as no two hosts raced between their looks and their connects.
THEOREM CutOff == Spec => []OvertakenMountsAreCutOff
<1>1. IInv => OvertakenMountsAreCutOff
  BY DEF IInv, TypeOK, NoRace, HoldsLatest, MayWrite, CanWrite, OvertakenMountsAreCutOff
<1> QED BY <1>1, InvariantHolds, PTL

\* Data goes only in a mkfs, complete or cut short, and a host that formats what was
\* written raced, or looked the volume up before the filesystem was damaged.
THEOREM NoDataFormatted == Spec => FormatsNoData
<1>1. ASSUME IInv, [Next]_vars, data, ~data'
      PROVE  raced \/ \E n \in hurt : At(n, "mkfs")
  <2>1. PICK n \in Hosts : Mkfs(n) \/ CutShort(n)
    BY <1>1, DataLossStep
  <2>2. At(n, "mkfs") /\ n \in conn
    BY <2>1 DEF Mkfs, CutShort
  <2>3. ASSUME ~raced PROVE n \in hurt
    <3>1. disk \in Unreadable /\ unwritten[n]
      BY <1>1, <2>2, <2>3 DEF IInv, FormatsLookedUp
    <3>2. disk = "damaged"
      BY <1>1, <2>3, <3>1 DEF IInv, NoRace, DataIsFiled, Unreadable
    <3> QED BY <1>1, <2>2, <3>1, <3>2 DEF IInv, FormatsLookedUp, At
  <2> QED BY <2>2, <2>3
<1>2. IInv /\ [Next]_vars => [data /\ ~data' => raced \/ \E n \in hurt : At(n, "mkfs")]_vars
  BY <1>1
<1> QED BY <1>2, InvariantHolds, PTL DEF Spec, FormatsNoData
=============================================================================
