-------------------------- MODULE HostPaths_proofs --------------------------
(***************************************************************************)
(* Theorems about HostPaths: what a sweep deletes, whom the disks on an    *)
(* attached volume's number belong to, and what is left of a volume when   *)
(* it is disconnected.  All of it rests on the lock that holds scans off:  *)
(* only its holder lists, connects, deletes and disconnects, and what the  *)
(* holder learned of the array, only another node can undo meanwhile, by   *)
(* taking a volume from this one.                                          *)
(***************************************************************************)
EXTENDS HostPaths, TLAPS

Procs == Vols \union {Checker}

\* The array gives a number to one volume at a time.
OwnLun == \A v, w \in Vols : lun[v] # NoLun /\ lun[v] = lun[w] => v = w

\* Every disk on v's number is v's.
Clean(v) == \A d \in Present : disk[d].lun = lun[v] => disk[d].vol = v

\* Only the holder of the lock is at a step that needs it.
Held(p) == pc[p] \in Locked => holder = p

\* From the connect to the mount, the Mount knows the volume's number.
Given == {"relist", "postsweep", "postsettle", "wait", "check", "mount", "recheck"}

GivenIs(v) == pc[v] \in Given /\ lun[v] # NoLun => got[v] = lun[v]

\* What is connected now is on the list a sweep goes by; the path check's may
\* lack it, but never has another volume there.
Listed(p) ==
    /\ pc[p] \in {"presweep", "postsweep"} => \A v \in Vols : lun[v] # NoLun => want[lun[v]] = v
    /\ pc[p] = "sweep" => \A v \in Vols : lun[v] # NoLun => want[lun[v]] \in {v, NoVol}

\* A sweep after the connect that did not fail left v's number clean, and it stays so.
SweptIsClean(v) ==
    (pc[v] \in Attached \/ (pc[v] = "postsettle" /\ ~failed)) /\ lun[v] # NoLun => Clean(v)

\* A detach that did not fail left no disk of v, but those scanned since.
DetachedIsGone(v) ==
    (pc[v] = "disconnect" \/ (pc[v] = "settle" /\ ~failed)) => Mine(v) \subseteq late

Sane(p) ==
    /\ Held(p) /\ Listed(p)
    /\ p \in Vols => GivenIs(p) /\ SweptIsClean(p) /\ DetachedIsGone(p)

IInv ==
    /\ TypeOK
    /\ OwnLun
    /\ \A p \in Procs : Sane(p)

-----------------------------------------------------------------------------
(* Types. *)

DiskRecords == [port : Ports, lun : Luns, vol : Vols]

ListRecords == [Luns -> Vols \union {NoVol}] \union {NoList}

LEMMA CarriedTyped == \A l : Carried(l) \in Vols \union {NoVol}
  BY DEF Carried

\* A number that carries a volume carries the one that has it.
LEMMA CarriedHasIt ==
  ASSUME NEW l, Carried(l) # NoVol
  PROVE  Carried(l) \in Vols /\ lun[Carried(l)] = l
  BY DEF Carried

LEMMA CarriedIs ==
  ASSUME OwnLun, NEW v \in Vols, lun[v] # NoLun
  PROVE  Carried(lun[v]) = v
  BY DEF Carried, OwnLun

LEMMA ListsTyped ==
  ASSUME NEW p, NEW list, Lists(p, list)
  PROVE  list \in ListRecords
  BY CarriedTyped DEF Lists, ListRecords

LEMMA WithoutTyped ==
  ASSUME NEW f \in [Disks -> Vols \union {NoVol}], NEW D
  PROVE  Without(f, D) \in [Disks -> Vols \union {NoVol}]
  BY DEF Without

LEMMA GotoTyped ==
  ASSUME TypeOK, NEW p, NEW step \in Steps, Goto(p, step)
  PROVE  pc' \in [Procs -> Steps]
  BY DEF TypeOK, Goto, Procs

LEMMA EndsTyped ==
  ASSUME TypeOK, NEW v \in Vols, NEW step \in Steps, Ends(v, step)
  PROVE  pc' \in [Procs -> Steps] /\ got' \in [Vols -> Luns \union {NoLun}]
  BY GotoTyped DEF TypeOK, Ends

LEMMA LockTyped ==
  ASSUME TypeOK, NEW p \in Procs, NEW step \in Steps, Lock(p, step)
  PROVE  /\ pc' \in [Procs -> Steps] /\ holder' \in Vols \union {Checker, NoOne}
         /\ deleted' \subseteq Disks /\ failed' \in BOOLEAN /\ late' \subseteq Disks
  BY GotoTyped DEF Lock, Procs

LEMMA UnlockTyped ==
  ASSUME TypeOK, NEW p, NEW step \in Steps, Unlock(p, step)
  PROVE  /\ pc' \in [Procs -> Steps] /\ holder' \in Vols \union {Checker, NoOne}
         /\ want' \in ListRecords
         /\ deleted' \subseteq Disks /\ failed' \in BOOLEAN /\ late' \subseteq Disks
  BY GotoTyped DEF Unlock, ListRecords

LEMMA RollbackTyped ==
  ASSUME TypeOK, NEW v \in Vols, Rollback(v)
  PROVE  /\ pc' \in [Procs -> Steps] /\ holder' \in Vols \union {Checker, NoOne}
         /\ want' \in ListRecords /\ got' \in [Vols -> Luns \union {NoLun}]
         /\ deleted' \subseteq Disks /\ failed' \in BOOLEAN /\ late' \subseteq Disks
<1>1. pc' \in [Procs -> Steps]
  BY GotoTyped DEF Rollback, Steps, Locked, Detaching
<1>2. want' \in ListRecords
  BY ListsTyped DEF Rollback, ListRecords
<1> QED BY <1>1, <1>2 DEF Rollback, TypeOK

\* A disk that is deleted is no disk any more; the others stay as they are.
LEMMA DeletesTyped ==
  ASSUME TypeOK, NEW D \in SUBSET Disks, Deletes(D)
  PROVE  /\ disk' \in [Disks -> DiskRecords \union {NoDisk}]
         /\ deleted' \subseteq Disks /\ late' \subseteq Disks
         /\ \A d \in Disks : disk'[d] \in {disk[d], NoDisk}
         /\ \A d \in Disks \ D : disk'[d] = disk[d]
  BY DEF Deletes, TypeOK, DiskRecords

LEMMA SettlesTyped ==
  ASSUME TypeOK, NEW held \in BOOLEAN, SweepSettles(held)
  PROVE  /\ filed' \in [Disks -> Vols \union {NoVol}] /\ inMap' \in [Disks -> Vols \union {NoVol}]
         /\ UNCHANGED <<lun, disk, had, maps, open>>
<1>1. PICK fixed \in SUBSET Disks, dropped \in SUBSET Disks, behind \in SUBSET Disks :
        /\ filed' = Refiled(Without(filed, dropped), fixed, behind)
        /\ inMap' = Without(inMap, dropped \union fixed)
        /\ fixed \subseteq Misfiled
  BY DEF SweepSettles, Misfiled, Present, StillFiled, TypeOK
<1>2. \A d \in fixed : disk[d].vol \in Vols
  BY <1>1 DEF Misfiled, Present, TypeOK
<1>3. Without(filed, dropped) \in [Disks -> Vols \union {NoVol}]
  BY WithoutTyped DEF TypeOK
<1>4. filed' \in [Disks -> Vols \union {NoVol}]
  BY <1>1, <1>2, <1>3 DEF Refiled
<1> QED BY <1>1, <1>4, WithoutTyped DEF SweepSettles, TypeOK

LEMMA SweepsTyped ==
  ASSUME TypeOK, NEW p \in Procs, NEW own, NEW crossedOnly \in BOOLEAN, NEW next \in Steps,
         Sweeps(p, own, crossedOnly, next)
  PROVE  /\ UNCHANGED <<lun, had, filed, open, got, holder>>
         /\ disk' \in [Disks -> DiskRecords \union {NoDisk}]
         /\ inMap' \in [Disks -> Vols \union {NoVol}] /\ maps' \subseteq Vols
         /\ pc' \in [Procs -> Steps] /\ want' \in ListRecords
         /\ deleted' \subseteq Disks /\ late' \subseteq Disks /\ failed' \in BOOLEAN
<1>1. Stale(crossedOnly) \in SUBSET Disks
  BY DEF Stale, Present
<1>2. Deletes(Stale(crossedOnly))
  BY DEF Sweeps
<1>3. inMap' \in [Disks -> Vols \union {NoVol}] /\ maps' \subseteq Vols
  BY WithoutTyped DEF Sweeps, TypeOK
<1>4. pc' \in [Procs -> Steps]
  BY GotoTyped DEF Sweeps
<1> QED BY <1>1, <1>2, <1>3, <1>4, DeletesTyped DEF Sweeps, ListRecords

\* What moves a volume's operation without the lock: nothing else changes but what
\* is mounted.
Moves(v) ==
    \/ MountBegins(v) \/ AttachGivesUp(v) \/ DeviceFound(v) \/ DeviceLate(v)
    \/ CheckPasses(v) \/ CheckRefuses(v) \/ MountedElsewhere(v) \/ Mounts(v) \/ MountFails(v)
    \/ RecheckPasses(v) \/ RecheckRefuses(v) \/ Unmounts(v) \/ Releases(v)

LEMMA MovesLeave ==
  ASSUME NEW v \in Vols, Moves(v)
  PROVE  /\ UNCHANGED <<lun, hostVars, lockVars>>
         /\ \E step \in Steps \ Locked :
              /\ Goto(v, step)
              /\ got' \in {got, [got EXCEPT ![v] = NoLun]}
              /\ step \in Attached => pc[v] \in Attached
              /\ step \in Given => pc[v] \in Given /\ got' = got
  BY DEF Moves, MountBegins, AttachGivesUp, DeviceFound, DeviceLate, CheckPasses, CheckRefuses,
     MountedElsewhere, Mounts, MountFails, RecheckPasses, RecheckRefuses, Unmounts, Releases,
     Ends, Goto, Steps, Locked, Sweeping, Detaching, Attached, Given

LEMMA MovesTyped ==
  ASSUME TypeOK, NEW v \in Vols, Moves(v)
  PROVE  TypeOK'
<1>1. PICK step \in Steps : Goto(v, step) /\ got' \in {got, [got EXCEPT ![v] = NoLun]}
  BY MovesLeave
<1>2. pc' \in [Procs -> Steps] /\ got' \in [Vols -> Luns \union {NoLun}]
  BY <1>1, GotoTyped DEF TypeOK
<1>3. open' \subseteq Vols
  BY DEF Moves, MountBegins, AttachGivesUp, DeviceFound, DeviceLate, CheckPasses, CheckRefuses,
     MountedElsewhere, Mounts, MountFails, RecheckPasses, RecheckRefuses, Unmounts, Releases, TypeOK
<1> QED BY <1>2, <1>3, MovesLeave DEF TypeOK, Procs, hostVars, lockVars

\* What the path check does and what a Mount does under the lock.
LEMMA AttachTyped ==
  ASSUME TypeOK, NEW v \in Vols,
         AttachLocks(v) \/ PreSweep(v) \/ PreSettles(v) \/ Connects(v) \/ ConnectFails(v) \/ Relists(v)
         \/ RelistFails(v) \/ PostSweep(v) \/ PostSettles(v)
  PROVE  TypeOK'
<1> USE DEF Procs, ListRecords, DiskRecords
<1>0. v \in Procs /\ {"presweep", "presettle", "connect", "relist", "postsweep", "postsettle",
                      "detach", "wait", "out"} \subseteq Steps
  BY DEF Steps, Locked, Sweeping, Detaching
<1>1. CASE AttachLocks(v)
  BY <1>0, <1>1, LockTyped, ListsTyped DEF AttachLocks, TypeOK, hostVars
<1>2. CASE PreSweep(v)
  BY <1>0, <1>2, SweepsTyped DEF PreSweep, TypeOK
<1>3. CASE PreSettles(v)
  BY <1>0, <1>3, SettlesTyped, UnlockTyped, GotoTyped DEF PreSettles, TypeOK
<1>4. CASE Connects(v)
  <2>1. lun' \in [Vols -> Luns \union {NoLun}] /\ got' \in [Vols -> Luns \union {NoLun}]
    BY <1>4 DEF Connects, Gives, TypeOK
  <2> QED BY <1>0, <1>4, <2>1, GotoTyped DEF Connects, TypeOK, hostVars, lockVars
<1>5. CASE ConnectFails(v)
  <2>1. lun' \in [Vols -> Luns \union {NoLun}]
    BY <1>5 DEF ConnectFails, Gives, TypeOK
  <2> QED BY <1>0, <1>5, <2>1, UnlockTyped DEF ConnectFails, TypeOK, hostVars
<1>6. CASE Relists(v)
  BY <1>0, <1>6, GotoTyped, ListsTyped DEF Relists, TypeOK, hostVars
<1>7. CASE RelistFails(v)
  BY <1>7, RollbackTyped DEF RelistFails, TypeOK, hostVars
<1>8. CASE PostSweep(v)
  BY <1>0, <1>8, SweepsTyped DEF PostSweep, TypeOK
<1>9. CASE PostSettles(v)
  BY <1>0, <1>9, SettlesTyped, UnlockTyped, RollbackTyped DEF PostSettles, TypeOK
<1> QED BY <1>1, <1>2, <1>3, <1>4, <1>5, <1>6, <1>7, <1>8, <1>9

LEMMA DetachTyped ==
  ASSUME TypeOK, NEW v \in Vols,
         DetachLocks(v) \/ Detaches(v) \/ DetachRefused(v) \/ DetachBlind(v) \/ DetachSettles(v)
         \/ Disconnects(v)
  PROVE  TypeOK'
<1> USE DEF Procs, ListRecords, DiskRecords
<1>0. v \in Procs /\ {"detach", "leftdetach", "settle", "leftsettle", "disconnect", "out", "attach"}
                        \subseteq Steps
  BY DEF Steps, Locked, Detaching
<1>1. CASE DetachLocks(v)
  BY <1>0, <1>1, LockTyped, ListsTyped DEF DetachLocks, TypeOK, hostVars
<1>2. CASE Detaches(v)
  <2>1. Mine(v) \in SUBSET Disks BY DEF Mine, Present
  <2>2. inMap' \in [Disks -> Vols \union {NoVol}] /\ maps' \subseteq Vols
    BY <1>2, WithoutTyped DEF Detaches, TypeOK
  <2>3. failed' \in BOOLEAN BY <1>2 DEF Detaches
  <2>4. pc' \in [Procs -> Steps] BY <1>0, <1>2, GotoTyped DEF Detaches
  <2> QED BY <1>2, <2>1, <2>2, <2>3, <2>4, DeletesTyped DEF Detaches, TypeOK
<1>3. CASE DetachRefused(v)
  <2>1. disk' \in [Disks -> DiskRecords \union {NoDisk}]
    BY <1>3 DEF DetachRefused, TypeOK
  <2> QED BY <1>0, <1>3, <2>1, UnlockTyped DEF DetachRefused, TypeOK
<1>4. CASE DetachBlind(v)
  BY <1>0, <1>4, UnlockTyped DEF DetachBlind, TypeOK, hostVars
<1>5. CASE DetachSettles(v)
  <2>1. filed' \in [Disks -> Vols \union {NoVol}] /\ inMap' \in [Disks -> Vols \union {NoVol}]
    BY <1>5, WithoutTyped DEF DetachSettles, TypeOK
  <2> QED BY <1>0, <1>5, <2>1, UnlockTyped, GotoTyped DEF DetachSettles, TypeOK
<1>6. CASE Disconnects(v)
  <2>1. lun' \in [Vols -> Luns \union {NoLun}]
    BY <1>6 DEF Disconnects, TypeOK
  <2> QED BY <1>0, <1>6, <2>1, UnlockTyped DEF Disconnects, TypeOK, hostVars
<1> QED BY <1>1, <1>2, <1>3, <1>4, <1>5, <1>6

LEMMA CheckTyped ==
  ASSUME TypeOK, CheckStep
  PROVE  TypeOK'
<1> USE DEF Procs, ListRecords, DiskRecords
<1>0. Checker \in Procs /\ {"sweep", "swept", "out"} \subseteq Steps
  BY DEF Steps, Locked, Sweeping
<1>1. CASE CheckLocks
  BY <1>0, <1>1, LockTyped, ListsTyped DEF CheckLocks, TypeOK, hostVars
<1>2. CASE CheckSweeps
  BY <1>0, <1>2, SweepsTyped DEF CheckSweeps, TypeOK
<1>3. CASE CheckSettles
  BY <1>0, <1>3, SettlesTyped, UnlockTyped DEF CheckSettles, TypeOK
<1> QED BY <1>1, <1>2, <1>3 DEF CheckStep

\* A scan fills a name that was free with a disk of the volume its number carries.
LEMMA FindsDisk ==
  ASSUME TypeOK, NEW d \in Disks, NEW port \in Ports, NEW l \in Luns, Finds(d, port, l)
  PROVE  /\ disk' = [disk EXCEPT ![d] = [port |-> port, lun |-> l, vol |-> Carried(l)]]
         /\ [port |-> port, lun |-> l, vol |-> Carried(l)] \in DiskRecords
         /\ had' \in [Disks -> SUBSET Vols]
  BY CarriedTyped DEF Finds, DiskRecords, TypeOK

LEMMA HostTyped ==
  ASSUME TypeOK, HostStep
  PROVE  TypeOK'
<1>1. CASE \E d \in Disks, port \in Ports, l \in Luns : Rescans(d, port, l) \/ ScansLate(d, port, l)
  <2>1. PICK d \in Disks, port \in Ports, l \in Luns : Rescans(d, port, l) \/ ScansLate(d, port, l)
    BY <1>1
  <2>2. Finds(d, port, l) /\ late' \subseteq Disks
    BY <2>1 DEF Rescans, ScansLate, TypeOK
  <2>3. disk' \in [Disks -> DiskRecords \union {NoDisk}] /\ had' \in [Disks -> SUBSET Vols]
    BY <2>2, FindsDisk DEF TypeOK, DiskRecords
  <2> QED BY <2>2, <2>3 DEF Finds, TypeOK, DiskRecords
<1>2. CASE \E d \in Disks : MultipathdFiles(d) \/ MultipathdAdds(d) \/ MultipathdForgets(d)
  BY <1>2 DEF MultipathdFiles, MultipathdAdds, MultipathdForgets, TypeOK, lockVars
<1>3. CASE \E v \in Vols : Drained(v) \/ PeerPreempts(v)
  BY <1>3 DEF Drained, PeerPreempts, TypeOK, hostVars, lockVars
<1> QED BY <1>1, <1>2, <1>3 DEF HostStep

LEMMA AddsPathTyped ==
  ASSUME TypeOK, NEW v \in Vols, NEW d \in Disks, AddsPath(v, d)
  PROVE  TypeOK'
  BY DEF AddsPath, TypeOK, lockVars

-----------------------------------------------------------------------------
(* What a step of one leaves of what the others rely on. *)

Rest == OwnLun /\ \A p \in Procs : Sane(p)

LEMMA StepsApart ==
  /\ {"presweep", "postsweep", "sweep", "postsettle", "settle", "disconnect"} \subseteq Locked
  /\ Attached \intersect Locked = {}
  BY DEF Locked, Sweeping, Detaching, Attached

\* A step that leaves the lock, the array and the disks alone.
LEMMA SameForOthers ==
  ASSUME NEW q \in Procs, Sane(q), pc'[q] = pc[q],
         UNCHANGED <<lun, disk, holder, want, failed, late>>,
         q \in Vols => got'[q] = got[q]
  PROVE  Sane(q)'
  BY DEF Sane, Held, Listed, GivenIs, SweptIsClean, DetachedIsGone, Clean, Mine, Present

\* A step of whoever holds the lock, or takes it, that connects and disconnects
\* no other volume and only deletes disks.
LEMMA HolderStep ==
  ASSUME IInv, NEW p \in Procs, holder \in {p, NoOne},
         \A q \in Procs \ {p} : pc'[q] = pc[q],
         \A w \in Vols \ {p} : lun'[w] = lun[w] /\ got'[w] = got[w],
         \A d \in Disks : disk'[d] \in {disk[d], NoDisk},
         OwnLun', Sane(p)'
  PROVE  Rest'
<1>1. SUFFICES ASSUME NEW q \in Procs, q # p PROVE Sane(q)'
  BY DEF Rest
<1>2. pc[q] \notin Locked /\ pc'[q] \notin Locked /\ Sane(q)
  BY HostAssumption, <1>1 DEF IInv, Sane, Held, Procs
<1>3. Held(q)' /\ Listed(q)'
  BY <1>2, StepsApart DEF Held, Listed
<1>4. ASSUME q \in Vols PROVE GivenIs(q)' /\ SweptIsClean(q)' /\ DetachedIsGone(q)'
  <2>1. GivenIs(q)'
    BY <1>1, <1>2, <1>4 DEF Sane, GivenIs
  <2>2. SweptIsClean(q)'
    <3>1. pc[q] \in Attached /\ lun[q] # NoLun => Clean(q)
      BY <1>2, <1>4 DEF Sane, SweptIsClean
    <3>2. Clean(q) => Clean(q)'
      BY <1>1, <1>4 DEF Clean, Present
    <3> QED BY <1>1, <1>2, <1>4, <3>1, <3>2, StepsApart DEF SweptIsClean
  <2>3. DetachedIsGone(q)'
    BY <1>2, StepsApart DEF DetachedIsGone
  <2> QED BY <2>1, <2>2, <2>3
<1> QED BY <1>3, <1>4 DEF Sane

LEMMA MovesKeep ==
  ASSUME IInv, NEW v \in Vols, Moves(v), pc[v] \notin Locked
  PROVE  Rest'
<1>1. PICK step \in Steps \ Locked :
        /\ Goto(v, step)
        /\ got' \in {got, [got EXCEPT ![v] = NoLun]}
        /\ step \in Attached => pc[v] \in Attached
        /\ step \in Given => pc[v] \in Given /\ got' = got
  BY MovesLeave
<1>2. UNCHANGED <<lun, disk, holder, want, failed, late>>
  BY MovesLeave DEF hostVars, lockVars
<1>3. pc'[v] = step /\ \A q \in Procs \ {v} : pc'[q] = pc[q]
  BY <1>1 DEF Goto, IInv, TypeOK, Procs
<1>4. \A q \in Procs \ {v} : Sane(q)'
  BY <1>1, <1>2, <1>3, SameForOthers DEF IInv, TypeOK, Procs
<1>5. Sane(v)'
  <2>1. Held(v)' /\ Listed(v)' /\ DetachedIsGone(v)'
    BY <1>3, StepsApart DEF Held, Listed, DetachedIsGone
  <2>2. GivenIs(v)' /\ SweptIsClean(v)'
    BY <1>1, <1>2, <1>3, StepsApart
    DEF IInv, Sane, GivenIs, SweptIsClean, Clean, Present, Procs
  <2> QED BY <2>1, <2>2 DEF Sane
<1>6. OwnLun'
  BY <1>2 DEF IInv, OwnLun
<1> QED BY <1>4, <1>5, <1>6 DEF Rest

LEMMA MovesFree ==
  ASSUME NEW v \in Vols, Moves(v)
  PROVE  pc[v] \notin Locked
  BY DEF Moves, MountBegins, AttachGivesUp, DeviceFound, DeviceLate, CheckPasses, CheckRefuses,
     MountedElsewhere, Mounts, MountFails, RecheckPasses, RecheckRefuses, Unmounts, Releases,
     Locked, Sweeping, Detaching

\* Another node takes a volume from this one.
LEMMA PreemptsKeeps ==
  ASSUME IInv, NEW v \in Vols, PeerPreempts(v)
  PROVE  Rest'
<1>1. UNCHANGED <<disk, pc, got, holder, want, failed, late>>
  BY DEF PeerPreempts, hostVars, lockVars
<1>2. \A w \in Vols : lun'[w] \in {lun[w], NoLun}
  BY DEF PeerPreempts, IInv, TypeOK
<1>3. OwnLun'
  BY <1>2 DEF IInv, OwnLun
<1>4. ASSUME NEW q \in Procs PROVE Sane(q)'
  <2>1. Held(q)' /\ Listed(q)'
    BY <1>1, <1>2 DEF IInv, Sane, Held, Listed
  <2>2. q \in Vols => GivenIs(q)' /\ SweptIsClean(q)' /\ DetachedIsGone(q)'
    BY <1>1, <1>2 DEF IInv, Sane, GivenIs, SweptIsClean, DetachedIsGone, Clean, Mine, Present
  <2> QED BY <2>1, <2>2 DEF Sane
<1> QED BY <1>3, <1>4 DEF Rest

\* A scan: the disk it finds is of the volume its number carries.  While the lock
\* holds scans off, it is late.
LEMMA FindsKeeps ==
  ASSUME IInv, NEW d \in Disks, NEW port \in Ports, NEW l \in Luns,
         Rescans(d, port, l) \/ ScansLate(d, port, l)
  PROVE  Rest'
<1>1. UNCHANGED <<lun, pc, got, holder, want, failed>>
  BY DEF Rescans, ScansLate, Finds
<1>2. /\ disk' = [disk EXCEPT ![d] = [port |-> port, lun |-> l, vol |-> Carried(l)]]
      /\ Carried(l) \in Vols /\ lun[Carried(l)] = l
  <2>1. Finds(d, port, l) BY DEF Rescans, ScansLate
  <2> QED BY <2>1, FindsDisk, CarriedHasIt DEF IInv, Finds
<1>3. \A e \in Disks \ {d} : disk'[e] = disk[e]
  BY <1>2 DEF IInv, TypeOK
<1>4. disk'[d].lun = l /\ disk'[d].vol = Carried(l)
  BY <1>2 DEF IInv, TypeOK
<1>5. OwnLun'
  BY <1>1 DEF IInv, OwnLun
<1>6. ASSUME NEW q \in Procs PROVE Sane(q)'
  <2>1. Held(q)' /\ Listed(q)'
    BY <1>1 DEF IInv, Sane, Held, Listed
  <2>2. ASSUME q \in Vols PROVE GivenIs(q)' /\ SweptIsClean(q)' /\ DetachedIsGone(q)'
    <3>1. GivenIs(q)'
      BY <1>1, <2>2 DEF IInv, Sane, GivenIs
    <3>2. SweptIsClean(q)'
      <4>1. SUFFICES ASSUME lun[q] # NoLun, Clean(q) PROVE Clean(q)'
        BY <1>1, <2>2 DEF IInv, Sane, SweptIsClean
      <4>2. l = lun[q] => Carried(l) = q
        BY <1>2, <2>2, <4>1 DEF IInv, OwnLun
      <4> QED BY <1>1, <1>3, <1>4, <4>1, <4>2 DEF Clean, Present
    <3>3. DetachedIsGone(q)'
      <4>1. SUFFICES ASSUME pc[q] \in {"disconnect", "settle"}, Mine(q) \subseteq late
                     PROVE  Mine(q)' \subseteq late'
        BY <1>1, <2>2 DEF IInv, Sane, DetachedIsGone
      <4>2. holder = q
        BY <4>1, StepsApart DEF IInv, Sane, Held
      <4>3. late' = late \union {d}
        BY <2>2, <4>2, HostAssumption DEF Rescans, ScansLate
      <4> QED BY <1>3, <4>1, <4>3 DEF Mine, Present
    <3> QED BY <3>1, <3>2, <3>3
  <2> QED BY <2>1, <2>2 DEF Sane
<1> QED BY <1>5, <1>6 DEF Rest

\* multipathd and what holds a map touch none of it.
LEMMA MapsKeep ==
  ASSUME IInv, UNCHANGED <<lun, disk, pc, got, holder, want, failed, late>>
  PROVE  Rest'
<1>1. \A q \in Procs : Sane(q)'
  BY SameForOthers DEF IInv
<1> QED BY <1>1 DEF IInv, Rest, OwnLun

-----------------------------------------------------------------------------
(* The steps of the holder. *)

LEMMA GotoMoves ==
  ASSUME TypeOK, NEW p \in Procs, NEW step, Goto(p, step)
  PROVE  pc'[p] = step /\ \A q \in Procs \ {p} : pc'[q] = pc[q]
  BY DEF Goto, TypeOK, Procs

\* What is connected is on a list that has just been read.
LEMMA ListsConnected ==
  ASSUME TypeOK, OwnLun, NEW p \in Procs, NEW list, Lists(p, list), NEW v \in Vols, lun[v] # NoLun
  PROVE  list[lun[v]] \in {v, NoVol} /\ (p \in Vols => list[lun[v]] = v)
<1>1. lun[v] \in Luns /\ Carried(lun[v]) = v
  BY CarriedIs DEF TypeOK
<1> QED BY <1>1, HostAssumption DEF Lists, Procs

\* A step of which only the lock matters.
Plain == Steps \ (Given \union Attached
                    \union {"presweep", "postsweep", "sweep", "postsettle", "settle", "disconnect"})

LEMMA PlainStep ==
  ASSUME NEW p \in Procs, pc'[p] \in Plain, pc'[p] \in Locked => holder' = p
  PROVE  Sane(p)'
<1>1. Held(p)' /\ Listed(p)' BY DEF Held, Listed, Plain
<1>2. GivenIs(p)' /\ SweptIsClean(p)' /\ DetachedIsGone(p)'
  BY DEF GivenIs, SweptIsClean, DetachedIsGone, Plain
<1> QED BY <1>1, <1>2 DEF Sane

LEMMA PlainSteps ==
  {"presettle", "connect", "detach", "leftdetach", "leftsettle", "swept", "out", "attach"} \subseteq Plain
  BY DEF Plain, Steps, Locked, Sweeping, Detaching, Given, Attached

\* The lock is free, or held by the process that is at a step that needs it.
LEMMA HolderIs ==
  ASSUME IInv, NEW p \in Procs, pc[p] \in Locked
  PROVE  holder = p
  BY DEF IInv, Sane, Held

\* Whoever gets a number gets one that no other volume has.
LEMMA GivesOwn ==
  ASSUME IInv, NEW v \in Vols, NEW l \in Luns, Gives(v, l)
  PROVE  OwnLun' /\ lun'[v] = l /\ \A w \in Vols \ {v} : lun'[w] = lun[w]
<1>1. lun'[v] = l /\ \A w \in Vols \ {v} : lun'[w] = lun[w]
  BY DEF Gives, IInv, TypeOK
<1>2. \A w \in Vols \ {v} : lun[w] # l
  <2>1. ASSUME NEW w \in Vols \ {v}, lun[w] = l PROVE FALSE
    <3>1. l # NoLun BY HostAssumption
    <3>2. Carried(l) = w BY <2>1, <3>1, CarriedIs DEF IInv
    <3> QED BY <2>1, <3>1, <3>2, HostAssumption DEF Gives, IInv, OwnLun
  <2> QED BY <2>1
<1> QED BY <1>1, <1>2 DEF IInv, OwnLun

LEMMA SweepDeletes ==
  ASSUME TypeOK, NEW p, NEW own, NEW crossedOnly \in BOOLEAN, NEW next, Sweeps(p, own, crossedOnly, next)
  PROVE  /\ \A d \in Disks : disk'[d] \in {disk[d], NoDisk}
         /\ \A d \in Disks \ Stale(crossedOnly) : disk'[d] = disk[d]
<1>1. Stale(crossedOnly) \in SUBSET Disks BY DEF Stale, Present
<1> QED BY <1>1, DeletesTyped DEF Sweeps

LEMMA LocksKeep ==
  ASSUME IInv, NEW p \in Procs, NEW step \in {"presweep", "sweep", "detach", "leftdetach"},
         Lock(p, step), UNCHANGED <<lun, disk, got>>,
         step \in {"presweep", "sweep"} => Lists(p, want'),
         step = "presweep" => p \in Vols
  PROVE  Rest'
<1>1. pc'[p] = step /\ \A q \in Procs \ {p} : pc'[q] = pc[q]
  BY GotoMoves DEF Lock, IInv
<1>2. holder = NoOne /\ holder' = p
  BY DEF Lock
<1>3. OwnLun' BY DEF IInv, OwnLun
<1>4. Sane(p)'
  <2>1. CASE step \in {"detach", "leftdetach"}
    BY <1>1, <1>2, <2>1, PlainStep, PlainSteps
  <2>2. CASE step \in {"presweep", "sweep"}
    <3>1. \A v \in Vols : lun[v] # NoLun =>
             want'[lun[v]] \in {v, NoVol} /\ (p \in Vols => want'[lun[v]] = v)
      BY <2>2, ListsConnected DEF IInv
    <3>2. Held(p)' /\ Listed(p)'
      BY <1>1, <1>2, <2>2, <3>1 DEF Held, Listed
    <3>3. GivenIs(p)' /\ SweptIsClean(p)' /\ DetachedIsGone(p)'
      BY <1>1, <2>2 DEF GivenIs, SweptIsClean, DetachedIsGone, Given, Attached
    <3> QED BY <3>2, <3>3 DEF Sane
  <2> QED BY <2>1, <2>2
<1> QED BY <1>1, <1>2, <1>3, <1>4, HolderStep

\* An operation gives back the lock and goes where nothing is asked of it.
LEMMA UnlocksKeep ==
  ASSUME IInv, NEW p \in Procs, NEW step \in {"out", "attach"}, Unlock(p, step),
         OwnLun', \A w \in Vols \ {p} : lun'[w] = lun[w] /\ got'[w] = got[w],
         \A d \in Disks : disk'[d] \in {disk[d], NoDisk}
  PROVE  Rest'
<1>1. pc'[p] = step /\ \A q \in Procs \ {p} : pc'[q] = pc[q]
  BY GotoMoves DEF Unlock, IInv
<1>2. holder = p BY DEF Unlock
<1>3. Sane(p)'
  BY <1>1, PlainStep, PlainSteps DEF Locked, Sweeping, Detaching
<1> QED BY <1>1, <1>2, <1>3, HolderStep

LEMMA RollbackKeeps ==
  ASSUME IInv, NEW v \in Vols, pc[v] \in Locked, Rollback(v), UNCHANGED <<lun, disk>>
  PROVE  Rest'
<1>0. v \in Procs BY DEF Procs
<1>1. pc'[v] = "detach" /\ \A q \in Procs \ {v} : pc'[q] = pc[q]
  BY <1>0, GotoMoves DEF Rollback, IInv
<1>2. holder = v /\ holder' = v BY <1>0, HolderIs DEF Rollback
<1>3. Sane(v)'
  BY <1>0, <1>1, <1>2, PlainStep, PlainSteps
<1>4. OwnLun' /\ \A w \in Vols \ {v} : got'[w] = got[w]
  BY DEF Rollback, IInv, TypeOK, OwnLun
<1> QED BY <1>0, <1>1, <1>2, <1>3, <1>4, HolderStep

LEMMA SweepsKeep ==
  ASSUME IInv, NEW v \in Vols, PreSweep(v) \/ PostSweep(v)
  PROVE  Rest'
<1>0. v \in Procs BY DEF Procs
<1>1. PICK own \in {NoLun, got[v]}, next \in {"presettle", "postsettle"} :
        /\ Sweeps(v, own, FALSE, next)
        /\ pc[v] = IF next = "presettle" THEN "presweep" ELSE "postsweep"
        /\ next = "postsettle" => own = got[v]
  BY DEF PreSweep, PostSweep
<1>2. pc'[v] = next /\ \A q \in Procs \ {v} : pc'[q] = pc[q]
  BY <1>0, <1>1, GotoMoves DEF Sweeps, IInv
<1>3. holder = v /\ UNCHANGED <<lun, got, holder>>
  BY <1>0, <1>1, HolderIs, StepsApart DEF Sweeps
<1>4. /\ \A d \in Disks : disk'[d] \in {disk[d], NoDisk}
      /\ \A d \in Disks \ Stale(FALSE) : disk'[d] = disk[d]
  BY <1>1, SweepDeletes DEF IInv
<1>5. OwnLun' BY <1>3 DEF IInv, OwnLun
<1>6. CASE next = "presettle"
  <2>1. Sane(v)' BY <1>0, <1>2, <1>3, <1>6, PlainStep, PlainSteps
  <2> QED BY <1>0, <1>2, <1>3, <1>4, <1>5, <2>1, HolderStep
<1>7. CASE next = "postsettle"
  <2>1. lun[v] # NoLun => got[v] = lun[v] /\ want[lun[v]] = v
    BY <1>0, <1>1, <1>7 DEF IInv, Sane, GivenIs, Listed, Given
  <2>2. ASSUME ~failed', lun[v] # NoLun PROVE Clean(v)'
    <3>1. SUFFICES ASSUME NEW d \in Disks, disk'[d] # NoDisk, disk'[d].lun = lun[v], disk'[d].vol # v
                   PROVE  FALSE
      BY <1>3 DEF Clean, Present
    <3>2. disk'[d] = disk[d] BY <1>4, <3>1
    <3>3. d \in Stale(FALSE)
      BY <2>1, <2>2, <3>1, <3>2 DEF Stale, Present
    <3>4. failed' = \E e \in Stale(FALSE) : disk[e].lun = own /\ disk'[e] # NoDisk
      BY <1>1 DEF Sweeps
    <3> QED BY <1>1, <1>7, <2>1, <2>2, <3>1, <3>2, <3>3, <3>4
  <2>3. Held(v)' /\ Listed(v)'
    BY <1>2, <1>3, <1>7 DEF Held, Listed
  <2>4. GivenIs(v)' /\ SweptIsClean(v)' /\ DetachedIsGone(v)'
    BY <1>2, <1>3, <1>7, <2>1, <2>2 DEF GivenIs, SweptIsClean, DetachedIsGone, Attached
  <2>5. Sane(v)' BY <2>3, <2>4 DEF Sane
  <2> QED BY <1>0, <1>2, <1>3, <1>4, <1>5, <2>5, HolderStep
<1> QED BY <1>6, <1>7

\* Before the connect, the connect, and the list after it.
LEMMA ConnectKeeps ==
  ASSUME IInv, NEW v \in Vols,
         PreSettles(v) \/ Connects(v) \/ ConnectFails(v) \/ Relists(v) \/ RelistFails(v)
  PROVE  Rest'
<1>0. v \in Procs BY DEF Procs
<1>00. holder = v
  BY <1>0, HolderIs DEF PreSettles, Connects, ConnectFails, Relists, RelistFails, Locked, Sweeping
<1>1. CASE PreSettles(v)
  <2>1. UNCHANGED <<lun, disk, got>> BY <1>1, SettlesTyped DEF PreSettles, IInv
  <2>2. OwnLun' BY <2>1 DEF IInv, OwnLun
  <2>3. CASE Unlock(v, "out") BY <1>0, <2>1, <2>2, <2>3, UnlocksKeep
  <2>4. CASE Goto(v, "connect") /\ UNCHANGED holder
    <3>1. pc'[v] = "connect" /\ \A q \in Procs \ {v} : pc'[q] = pc[q]
      BY <1>0, <2>4, GotoMoves DEF IInv
    <3>2. Sane(v)' BY <1>0, <1>00, <2>4, <3>1, PlainStep, PlainSteps
    <3> QED BY <1>0, <1>00, <2>1, <2>2, <3>1, <3>2, HolderStep
  <2> QED BY <1>1, <2>3, <2>4 DEF PreSettles
<1>2. CASE Connects(v)
  <2>1. PICK l \in Luns : Gives(v, l) /\ got' = [got EXCEPT ![v] = l]
    BY <1>2 DEF Connects
  <2>2. OwnLun' /\ lun'[v] = l /\ \A w \in Vols \ {v} : lun'[w] = lun[w]
    BY <2>1, GivesOwn
  <2>3. got'[v] = l /\ \A w \in Vols \ {v} : got'[w] = got[w]
    BY <2>1 DEF IInv, TypeOK
  <2>4. pc'[v] = "relist" /\ \A q \in Procs \ {v} : pc'[q] = pc[q]
    BY <1>0, <1>2, GotoMoves DEF Connects, IInv
  <2>5. UNCHANGED <<disk, holder>> BY <1>2 DEF Connects, hostVars, lockVars
  <2>6. Sane(v)'
    BY <1>00, <2>2, <2>3, <2>4, <2>5
    DEF Sane, Held, Listed, GivenIs, SweptIsClean, DetachedIsGone, Attached
  <2> QED BY <1>0, <1>00, <2>2, <2>3, <2>4, <2>5, <2>6, HolderStep
<1>3. CASE ConnectFails(v)
  <2>1. OwnLun' /\ \A w \in Vols \ {v} : lun'[w] = lun[w]
    <3>1. CASE UNCHANGED lun BY <3>1 DEF IInv, OwnLun
    <3>2. CASE \E l \in Luns : Gives(v, l) BY <3>2, GivesOwn
    <3> QED BY <1>3, <3>1, <3>2 DEF ConnectFails
  <2> QED BY <1>0, <1>3, <2>1, UnlocksKeep DEF ConnectFails, hostVars
<1>4. CASE Relists(v)
  <2>1. pc'[v] = "postsweep" /\ \A q \in Procs \ {v} : pc'[q] = pc[q]
    BY <1>0, <1>4, GotoMoves DEF Relists, IInv
  <2>2. UNCHANGED <<lun, disk, got, holder>> BY <1>4 DEF Relists, hostVars
  <2>3. \A w \in Vols : lun[w] # NoLun => want'[lun[w]] = w
    BY <1>0, <1>4, ListsConnected DEF Relists, IInv
  <2>4. Held(v)' /\ Listed(v)'
    BY <1>00, <2>1, <2>2, <2>3 DEF Held, Listed
  <2>5. GivenIs(v)' /\ SweptIsClean(v)' /\ DetachedIsGone(v)'
    <3>1. pc[v] \in Given BY <1>4 DEF Relists, Given
    <3> QED BY <1>0, <2>1, <2>2, <3>1 DEF IInv, Sane, GivenIs, SweptIsClean, DetachedIsGone, Attached
  <2>6. OwnLun' BY <2>2 DEF IInv, OwnLun
  <2>7. Sane(v)' BY <2>4, <2>5 DEF Sane
  <2> QED BY <1>0, <1>00, <2>1, <2>2, <2>6, <2>7, HolderStep
<1>5. CASE RelistFails(v)
  BY <1>5, RollbackKeeps DEF RelistFails, hostVars, Locked
<1> QED BY <1>1, <1>2, <1>3, <1>4, <1>5

\* The attach is over: its number is clean, or it is rolled back.
LEMMA PostSettlesKeeps ==
  ASSUME IInv, NEW v \in Vols, PostSettles(v)
  PROVE  Rest'
<1>0. v \in Procs /\ pc[v] = "postsettle" BY DEF Procs, PostSettles
<1>1. holder = v BY <1>0, HolderIs, StepsApart
<1>2. UNCHANGED <<lun, disk>> BY SettlesTyped DEF PostSettles, IInv
<1>3. CASE Rollback(v)
  BY <1>0, <1>2, <1>3, RollbackKeeps, StepsApart
<1>4. CASE ~failed /\ Unlock(v, "wait") /\ UNCHANGED got
  <2>1. pc'[v] = "wait" /\ \A q \in Procs \ {v} : pc'[q] = pc[q]
    BY <1>0, <1>4, GotoMoves DEF Unlock, IInv
  <2>2. lun[v] # NoLun => got[v] = lun[v] /\ Clean(v)
    BY <1>0, <1>4 DEF IInv, Sane, GivenIs, SweptIsClean, Given
  <2>3. Held(v)' /\ Listed(v)'
    BY <2>1 DEF Held, Listed, Locked, Sweeping, Detaching
  <2>4. GivenIs(v)' /\ SweptIsClean(v)' /\ DetachedIsGone(v)'
    BY <1>2, <1>4, <2>1, <2>2 DEF GivenIs, SweptIsClean, DetachedIsGone, Clean, Present
  <2>5. Sane(v)' /\ OwnLun' BY <1>2, <2>3, <2>4 DEF Sane, IInv, OwnLun
  <2> QED BY <1>0, <1>1, <1>2, <1>4, <2>1, <2>5, HolderStep
<1> QED BY <1>3, <1>4 DEF PostSettles

LEMMA DetachesKeeps ==
  ASSUME IInv, NEW v \in Vols, Detaches(v)
  PROVE  Rest'
<1>0. v \in Procs BY DEF Procs
<1>1. holder = v /\ UNCHANGED <<lun, got, holder>>
  BY <1>0, HolderIs DEF Detaches, Locked, Detaching
<1>2. Mine(v) \in SUBSET Disks /\ Deletes(Mine(v)) BY DEF Detaches, Mine, Present
<1>3. /\ \A d \in Disks : disk'[d] \in {disk[d], NoDisk}
      /\ \A d \in Disks \ Mine(v) : disk'[d] = disk[d]
  BY <1>2, DeletesTyped DEF IInv
<1>4. pc'[v] \in {"settle", "leftsettle"} /\ \A q \in Procs \ {v} : pc'[q] = pc[q]
  BY <1>0, GotoMoves DEF Detaches, IInv
<1>5. ~failed' => Mine(v)' = {}
  <2>1. SUFFICES ASSUME ~failed', NEW d \in Disks, disk'[d] # NoDisk, disk'[d].vol = v PROVE FALSE
    BY DEF Mine, Present
  <2>2. disk'[d] = disk[d] BY <1>3, <2>1
  <2>3. d \in Mine(v) BY <2>1, <2>2 DEF Mine, Present
  <2> QED BY <2>1, <2>3 DEF Detaches
<1>6. Sane(v)'
  <2>1. Held(v)' /\ Listed(v)' BY <1>1, <1>4 DEF Held, Listed
  <2>2. GivenIs(v)' /\ SweptIsClean(v)' /\ DetachedIsGone(v)'
    BY <1>4, <1>5 DEF GivenIs, SweptIsClean, DetachedIsGone, Given, Attached
  <2> QED BY <2>1, <2>2 DEF Sane
<1>7. OwnLun' BY <1>1 DEF IInv, OwnLun
<1> QED BY <1>0, <1>1, <1>3, <1>4, <1>6, <1>7, HolderStep

\* The rest of a detach, and the disconnect after it.
LEMMA ReleaseKeeps ==
  ASSUME IInv, NEW v \in Vols,
         DetachRefused(v) \/ DetachBlind(v) \/ DetachSettles(v) \/ Disconnects(v)
  PROVE  Rest'
<1>0. v \in Procs BY DEF Procs
<1>1. CASE DetachRefused(v)
  <2>1. \A d \in Disks : disk'[d] \in {disk[d], NoDisk}
    BY <1>1 DEF DetachRefused
  <2>2. OwnLun' BY <1>1 DEF DetachRefused, IInv, OwnLun
  <2> QED BY <1>0, <1>1, <2>1, <2>2, UnlocksKeep DEF DetachRefused
<1>2. CASE DetachBlind(v)
  <2>1. OwnLun' BY <1>2 DEF DetachBlind, IInv, OwnLun
  <2> QED BY <1>0, <1>2, <2>1, UnlocksKeep DEF DetachBlind, hostVars
<1>3. CASE DetachSettles(v)
  <2>1. UNCHANGED <<lun, disk, got>> BY <1>3 DEF DetachSettles
  <2>2. OwnLun' BY <2>1 DEF IInv, OwnLun
  <2>3. CASE Unlock(v, "out") \/ Unlock(v, "attach")
    BY <1>0, <2>1, <2>2, <2>3, UnlocksKeep
  <2>4. CASE ~failed /\ pc[v] = "settle" /\ Goto(v, "disconnect") /\ UNCHANGED <<holder, late>>
    <3>1. pc'[v] = "disconnect" /\ \A q \in Procs \ {v} : pc'[q] = pc[q]
      BY <1>0, <2>4, GotoMoves DEF IInv
    <3>2. holder = v BY <1>0, <2>4, HolderIs, StepsApart
    <3>3. Mine(v) \subseteq late BY <1>0, <2>4 DEF IInv, Sane, DetachedIsGone
    <3>4. Held(v)' /\ Listed(v)' BY <2>4, <3>1, <3>2 DEF Held, Listed
    <3>5. GivenIs(v)' /\ SweptIsClean(v)' /\ DetachedIsGone(v)'
      BY <2>1, <2>4, <3>1, <3>3 DEF GivenIs, SweptIsClean, DetachedIsGone, Given, Attached, Mine, Present
    <3>6. Sane(v)' BY <3>4, <3>5 DEF Sane
    <3> QED BY <1>0, <2>1, <2>2, <3>1, <3>2, <3>6, HolderStep
  <2> QED BY <1>3, <2>3, <2>4 DEF DetachSettles
<1>4. CASE Disconnects(v)
  <2>1. OwnLun' /\ \A w \in Vols \ {v} : lun'[w] = lun[w]
    BY <1>4 DEF Disconnects, IInv, TypeOK, OwnLun
  <2> QED BY <1>0, <1>4, <2>1, UnlocksKeep DEF Disconnects, hostVars
<1> QED BY <1>1, <1>2, <1>3, <1>4

LEMMA CheckKeeps ==
  ASSUME IInv, CheckStep
  PROVE  Rest'
<1>0. Checker \in Procs /\ Checker \notin Vols BY HostAssumption DEF Procs
<1>1. CASE CheckLocks
  BY <1>0, <1>1, LocksKeep DEF CheckLocks, hostVars
<1>2. CASE CheckSweeps
  <2>1. Sweeps(Checker, NoLun, TRUE, "swept") /\ pc[Checker] = "sweep" BY <1>2 DEF CheckSweeps
  <2>2. pc'[Checker] = "swept" /\ \A q \in Procs \ {Checker} : pc'[q] = pc[q]
    BY <1>0, <2>1, GotoMoves DEF Sweeps, IInv
  <2>3. holder = Checker /\ UNCHANGED <<lun, got, holder>>
    BY <1>0, <2>1, HolderIs, StepsApart DEF Sweeps
  <2>4. \A d \in Disks : disk'[d] \in {disk[d], NoDisk}
    BY <2>1, SweepDeletes DEF IInv
  <2>5. OwnLun' BY <2>3 DEF IInv, OwnLun
  <2>6. Sane(Checker)' BY <1>0, <2>2, <2>3, PlainStep, PlainSteps
  <2> QED BY <1>0, <2>2, <2>3, <2>4, <2>5, <2>6, HolderStep
<1>3. CASE CheckSettles
  <2>1. UNCHANGED <<lun, disk, got>> BY <1>3, SettlesTyped DEF CheckSettles, IInv
  <2>2. OwnLun' BY <2>1 DEF IInv, OwnLun
  <2> QED BY <1>0, <1>3, <2>1, <2>2, UnlocksKeep DEF CheckSettles
<1> QED BY <1>1, <1>2, <1>3 DEF CheckStep

-----------------------------------------------------------------------------
(* The invariant and the theorems. *)

LEMMA InitInv == Init => IInv
<1> SUFFICES ASSUME Init PROVE IInv
  OBVIOUS
<1>1. TypeOK
  BY HostAssumption DEF Init, TypeOK, Steps, NoList
<1>2. OwnLun
  BY DEF Init, OwnLun
<1>3. \A p \in Procs : pc[p] = "out"
  BY DEF Init, Procs
<1>4. \A p \in Procs : Sane(p)
  BY <1>3 DEF Sane, Held, Listed, GivenIs, SweptIsClean, DetachedIsGone, Locked, Sweeping, Detaching,
     Given, Attached
<1> QED BY <1>1, <1>2, <1>4 DEF IInv

LEMMA VolumeStep ==
  ASSUME IInv, NEW v \in Vols, MountStep(v) \/ ReleaseStep(v)
  PROVE  TypeOK' /\ Rest'
<1>0. v \in Procs BY DEF Procs
<1>1. CASE Moves(v)
  BY <1>1, MovesTyped, MovesFree, MovesKeep DEF IInv
<1>2. CASE \E d \in Disks : AddsPath(v, d)
  <2>1. PICK d \in Disks : AddsPath(v, d) BY <1>2
  <2>2. UNCHANGED <<lun, disk, pc, got, holder, want, failed, late>>
    BY <2>1 DEF AddsPath, lockVars
  <2> QED BY <2>1, <2>2, AddsPathTyped, MapsKeep DEF IInv
<1>3. CASE AttachLocks(v)
  BY <1>0, <1>3, AttachTyped, LocksKeep DEF IInv, AttachLocks, hostVars
<1>4. CASE PreSweep(v) \/ PostSweep(v)
  BY <1>4, AttachTyped, SweepsKeep DEF IInv
<1>5. CASE PreSettles(v) \/ Connects(v) \/ ConnectFails(v) \/ Relists(v) \/ RelistFails(v)
  BY <1>5, AttachTyped, ConnectKeeps DEF IInv
<1>6. CASE PostSettles(v)
  BY <1>6, AttachTyped, PostSettlesKeeps DEF IInv
<1>7. CASE DetachLocks(v)
  <2>1. UNCHANGED <<lun, disk, got>> /\ (Lock(v, "detach") \/ Lock(v, "leftdetach"))
    BY <1>7 DEF DetachLocks, hostVars
  <2> QED BY <1>0, <1>7, <2>1, DetachTyped, LocksKeep DEF IInv
<1>8. CASE Detaches(v)
  BY <1>8, DetachTyped, DetachesKeeps DEF IInv
<1>9. CASE DetachRefused(v) \/ DetachBlind(v) \/ DetachSettles(v) \/ Disconnects(v)
  BY <1>9, DetachTyped, ReleaseKeeps DEF IInv
<1> QED BY <1>1, <1>2, <1>3, <1>4, <1>5, <1>6, <1>7, <1>8, <1>9 DEF MountStep, ReleaseStep, Moves

LEMMA OutsideStep ==
  ASSUME IInv, HostStep
  PROVE  Rest'
<1>1. CASE \E d \in Disks, port \in Ports, l \in Luns : Rescans(d, port, l) \/ ScansLate(d, port, l)
  BY <1>1, FindsKeeps
<1>2. CASE \E v \in Vols : PeerPreempts(v)
  BY <1>2, PreemptsKeeps
<1>3. CASE \/ \E d \in Disks : MultipathdFiles(d) \/ MultipathdAdds(d) \/ MultipathdForgets(d)
           \/ \E v \in Vols : Drained(v)
  BY <1>3, MapsKeep DEF MultipathdFiles, MultipathdAdds, MultipathdForgets, Drained, hostVars, lockVars
<1> QED BY <1>1, <1>2, <1>3 DEF HostStep

LEMMA StepInv == IInv /\ [Next]_vars => IInv'
<1> SUFFICES ASSUME IInv, [Next]_vars PROVE IInv'
  OBVIOUS
<1>1. CASE \E v \in Vols : MountStep(v) \/ ReleaseStep(v)
  BY <1>1, VolumeStep DEF Rest, IInv
<1>2. CASE CheckStep
  BY <1>2, CheckTyped, CheckKeeps DEF Rest, IInv
<1>3. CASE HostStep
  BY <1>3, HostTyped, OutsideStep DEF Rest, IInv
<1>4. CASE UNCHANGED vars
  <2>1. Rest' BY <1>4, MapsKeep DEF vars, arrayVars, hostVars, lockVars
  <2>2. TypeOK' BY <1>4 DEF vars, arrayVars, hostVars, lockVars, IInv, TypeOK
  <2> QED BY <2>1, <2>2 DEF Rest, IInv
<1> QED BY <1>1, <1>2, <1>3, <1>4 DEF Next

\* IInv is an invariant: the lock has one holder, and what the holder learned of the
\* array still holds, but for what another node has taken away.
THEOREM InvariantHolds == Spec => []IInv
  BY InitInv, StepInv, PTL DEF Spec

(***************************************************************************)
(* The state of the host stays within its types.                           *)
(***************************************************************************)
THEOREM TypeCorrect == Spec => []TypeOK
  BY InvariantHolds, PTL DEF IInv

(***************************************************************************)
(* Once an attach is past its sweep, every disk on the volume's number is  *)
(* the volume's (connectSwept), whatever fails.                            *)
(***************************************************************************)
THEOREM AttachedClean == Spec => []AttachedLUNIsClean
<1>1. IInv => AttachedLUNIsClean
  BY DEF IInv, Sane, SweptIsClean, Clean, AttachedLUNIsClean, Procs
<1> QED BY <1>1, InvariantHolds, PTL

\* A disk is deleted by a sweep that finds it stale, or by a detach.
LEMMA WhoDeletes ==
  ASSUME IInv, [Next]_vars, NEW d \in Present, disk'[d] = NoDisk
  PROVE  \/ \E p \in Procs, own \in Luns \union {NoLun}, crossedOnly \in BOOLEAN, next \in Steps :
              /\ Sweeps(p, own, crossedOnly, next)
              /\ IF crossedOnly THEN pc[p] = "sweep" ELSE pc[p] \in {"presweep", "postsweep"}
         \/ \E v \in Vols : pc[v] \in {"detach", "leftdetach"}
<1>0. disk[d] # NoDisk /\ disk' # disk BY DEF Present
<1>1. CASE \E v \in Vols : MountStep(v)
  <2>1. PICK v \in Vols : MountStep(v) BY <1>1
  <2>2. PreSweep(v) \/ PostSweep(v)
    <3>1. ~Moves(v) BY <1>0, MovesLeave DEF hostVars
    <3>2. ~PreSettles(v) /\ ~PostSettles(v)
      BY <1>0, SettlesTyped DEF PreSettles, PostSettles, IInv
    <3> QED BY <1>0, <2>1, <3>1, <3>2
        DEF MountStep, Moves, AttachLocks, Connects, ConnectFails, Relists, RelistFails, AddsPath, hostVars
  <2>3. v \in Procs /\ got[v] \in Luns \union {NoLun} /\ {"presettle", "postsettle"} \subseteq Steps
    BY DEF Procs, IInv, TypeOK, Steps, Locked, Sweeping
  <2> QED BY <2>2, <2>3 DEF PreSweep, PostSweep
<1>2. CASE \E v \in Vols : ReleaseStep(v)
  <2>1. PICK v \in Vols : ReleaseStep(v) BY <1>2
  <2>2. ~Moves(v) BY <1>0, MovesLeave DEF hostVars
  <2> QED BY <1>0, <2>1, <2>2
      DEF ReleaseStep, Moves, DetachLocks, Detaches, DetachRefused, DetachBlind, DetachSettles, Disconnects,
          hostVars
<1>3. CASE CheckStep
  <2>1. CheckSweeps
    BY <1>0, <1>3, SettlesTyped DEF CheckStep, CheckLocks, CheckSettles, hostVars, IInv
  <2>2. Checker \in Procs /\ "swept" \in Steps BY DEF Procs, Steps, Locked, Sweeping
  <2> QED BY <2>1, <2>2 DEF CheckSweeps
<1>4. CASE HostStep
  <2>1. PICK e \in Disks, port \in Ports, l \in Luns : Rescans(e, port, l) \/ ScansLate(e, port, l)
    BY <1>0, <1>4
    DEF HostStep, MultipathdFiles, MultipathdAdds, MultipathdForgets, Drained, PeerPreempts, hostVars
  <2>2. disk[e] = NoDisk /\ \A f \in Disks \ {e} : disk'[f] = disk[f]
    BY <2>1, FindsDisk DEF Rescans, ScansLate, Finds, IInv, TypeOK
  <2> QED BY <1>0, <2>2 DEF Present
<1>5. CASE UNCHANGED vars
  BY <1>0, <1>5 DEF vars, hostVars
<1> QED BY <1>1, <1>2, <1>3, <1>4, <1>5 DEF Next

(***************************************************************************)
(* No sweep deletes a disk that reaches its own volume, although the array *)
(* may change and the path check's list may lack entries (checkPaths).     *)
(***************************************************************************)
THEOREM LivePathsSpared == Spec => SweepSparesLivePaths
<1>1. ASSUME IInv, [Next]_vars, NEW d \in Present, disk'[d] = NoDisk, pc[holder] \in Sweeping,
             Reaches(d) = disk[d].vol
      PROVE  FALSE
  <2>1. disk[d] \in DiskRecords /\ disk'[d] # disk[d]
    BY <1>1 DEF Present, IInv, TypeOK, DiskRecords
  <2>2. PICK w \in Vols : disk[d].vol = w /\ lun[w] = disk[d].lun /\ lun[w] # NoLun
    BY <1>1, <2>1, CarriedHasIt, HostAssumption DEF Reaches, DiskRecords
  <2>3. ASSUME NEW v \in Vols, pc[v] \in {"detach", "leftdetach"} PROVE FALSE
    <3>1. holder = v BY <1>1, <2>3, HolderIs DEF Procs, Locked, Detaching
    <3> QED BY <1>1, <2>3, <3>1 DEF Sweeping
  <2>4. ASSUME NEW p \in Procs, NEW own \in Luns \union {NoLun}, NEW crossedOnly \in BOOLEAN,
               NEW next \in Steps, Sweeps(p, own, crossedOnly, next),
               IF crossedOnly THEN pc[p] = "sweep" ELSE pc[p] \in {"presweep", "postsweep"}
        PROVE  FALSE
    <3>1. d \in Stale(crossedOnly)
      BY <1>1, <2>1, <2>4, SweepDeletes DEF IInv, Present
    <3>2. want[lun[w]] \in {w, NoVol} /\ (~crossedOnly => want[lun[w]] = w)
      BY <1>1, <2>2, <2>4 DEF IInv, Sane, Listed
    <3> QED BY <2>2, <3>1, <3>2 DEF Stale
  <2> QED BY <1>1, <2>3, <2>4, WhoDeletes
<1>2. IInv /\ [Next]_vars =>
        [\A d \in Present : disk'[d] = NoDisk /\ pc[holder] \in Sweeping => Reaches(d) # disk[d].vol]_vars
  BY <1>1
<1> QED BY <1>2, InvariantHolds, PTL DEF Spec, SweepSparesLivePaths

(***************************************************************************)
(* A disconnect leaves no disk of the volume behind, but those a scan made *)
(* while the lock held scans off (releaseHost, rollbackLocked).            *)
(***************************************************************************)
THEOREM DisconnectsClean == Spec => DisconnectsWithoutPaths
<1>1. IInv /\ [Next]_vars =>
        [\A v \in Vols : pc[v] = "disconnect" /\ lun'[v] # lun[v] => Mine(v) \subseteq late]_vars
  BY DEF IInv, Sane, DetachedIsGone, Procs
<1> QED BY <1>1, InvariantHolds, PTL DEF Spec, DisconnectsWithoutPaths

\* Only the second check lets a Mount succeed.
LEMMA OnlyRechecked ==
  ASSUME TypeOK, [Next]_vars, NEW v \in Vols, pc[v] = "recheck", pc'[v] = "in"
  PROVE  CheckLUN(v)
<1>1. pc' # pc OBVIOUS
<1>2. CASE \E w \in Vols : MountStep(w) \/ ReleaseStep(w)
  <2>1. PICK w \in Vols : MountStep(w) \/ ReleaseStep(w) BY <1>2
  <2>2. w = v
    <3>1. (\E step : Goto(w, step)) \/ UNCHANGED pc
      BY <2>1 DEF MountStep, ReleaseStep, MountBegins, AttachLocks, AttachGivesUp, PreSweep, PreSettles,
         Connects, ConnectFails, Relists, RelistFails, PostSweep, PostSettles, AddsPath, DeviceFound,
         DeviceLate, CheckPasses, CheckRefuses, MountedElsewhere, Mounts, MountFails, RecheckPasses,
         RecheckRefuses, Unmounts, Releases, DetachLocks, Detaches, DetachRefused, DetachBlind,
         DetachSettles, Disconnects, Lock, Unlock, Ends, Rollback, Sweeps, lockVars
    <3> QED BY <1>1, <3>1 DEF Goto, TypeOK
  <2>3. CheckLUN(v) \/ RecheckRefuses(v)
    BY <1>1, <2>1, <2>2 DEF MountStep, ReleaseStep, MountBegins, AttachLocks, AttachGivesUp, PreSweep,
       PreSettles, Connects, ConnectFails, Relists, RelistFails, PostSweep, PostSettles, AddsPath,
       DeviceFound, DeviceLate, CheckPasses, CheckRefuses, MountedElsewhere, Mounts, MountFails,
       RecheckPasses, Unmounts, Releases, DetachLocks, Detaches, DetachRefused, DetachBlind,
       DetachSettles, Disconnects
  <2>4. ~RecheckRefuses(v) BY DEF RecheckRefuses, Ends, Goto, TypeOK
  <2> QED BY <2>3, <2>4
<1>3. CASE CheckStep
  BY <1>3, HostAssumption
  DEF CheckStep, CheckLocks, CheckSweeps, CheckSettles, Sweeps, Lock, Unlock, Goto, TypeOK
<1>4. CASE HostStep
  BY <1>1, <1>4 DEF HostStep, Rescans, ScansLate, Finds, MultipathdFiles, MultipathdAdds,
     MultipathdForgets, Drained, PeerPreempts
<1>5. CASE UNCHANGED vars
  BY <1>1, <1>5 DEF vars
<1> QED BY <1>2, <1>3, <1>4, <1>5 DEF Next

(***************************************************************************)
(* When a Mount succeeds, every path of the map it mounted reaches the     *)
(* volume, as long as this host is connected (CheckLUN after the mount).   *)
(***************************************************************************)
THEOREM MountReaches == Spec => MountReachesOwnVolume
<1>1. ASSUME IInv, [Next]_vars, NEW v \in Vols, pc[v] = "recheck", pc'[v] = "in", lun[v] # NoLun,
             NEW d \in Slaves(v)
      PROVE  Reaches(d) = v
  <2>1. disk[d].lun = got[v]
    BY <1>1, OnlyRechecked DEF IInv, CheckLUN
  <2>2. got[v] = lun[v]
    BY <1>1 DEF IInv, Sane, GivenIs, Given, Procs
  <2> QED BY <1>1, <2>1, <2>2, CarriedIs DEF IInv, Reaches
<1>2. IInv /\ [Next]_vars =>
        [\A v \in Vols : pc[v] = "recheck" /\ pc'[v] = "in" /\ lun[v] # NoLun =>
            \A d \in Slaves(v) : Reaches(d) = v]_vars
  BY <1>1
<1> QED BY <1>2, InvariantHolds, PTL DEF Spec, MountReachesOwnVolume
=============================================================================
