----------------------------- MODULE HostPaths -----------------------------
(***************************************************************************)
(* One iSCSI host: the LUN numbers the array gives its volumes, the SCSI    *)
(* disks the kernel keeps for them, multipathd's record of those disks, and *)
(* what the driver does so that no map reaches another volume's data: the  *)
(* sweeps around a connect (connectSwept), the background check            *)
(* (checkPaths), Detach before disconnect (releaseHost, rollbackLocked,    *)
(* clearLeftover) and CheckLUN before and after the mount.                 *)
(*                                                                         *)
(* The kernel reads a disk's identity when it scans it and never again, and *)
(* the array gives a freed LUN number to the next volume; the kernel gives *)
(* a freed disk name to the next disk, and multipathd files a disk under   *)
(* what udev or its own record say of the name.  udev and multipathd can   *)
(* be behind at any time, on any disk that has had the name.               *)
(***************************************************************************)
EXTENDS Naturals, FiniteSets

CONSTANTS
    Vols, Luns,
    Disks,      \* the kernel's disk names, sdX
    Ports,      \* target ports: a volume has up to one disk on each
    NoVol, NoLun,
    Checker, NoOne,
    Before,     \* the volumes whose disks have had each name when the plugin starts
    Faults      \* what can go wrong: a subset of FaultKinds

\* A disk that cannot be deleted; a command to multipathd that fails; a list of
\* this host's LUNs that cannot be read, or that lacks an entry; another call
\* to the array that fails; a disk scanned although the lock holds scans off.
FaultKinds == {"delete", "multipathd", "list", "partial", "array", "late"}

ASSUME HostAssumption ==
    /\ NoVol \notin Vols /\ NoLun \notin Luns
    /\ Checker \notin Vols \union {NoOne} /\ NoOne \notin Vols
    /\ Before \subseteq Vols /\ Faults \subseteq FaultKinds

VARIABLES
    lun,     \* the array: the LUN number of each volume connected to this host
    disk,    \* the kernel: port, LUN and identity of each disk
    had,     \* the volumes whose disks have had each name
    filed,   \* multipathd: the volume it files each disk name under
    inMap,   \* the map each disk name is a path of, by the map's volume
    maps,    \* the volumes with a map
    open,    \* the volumes whose map is mounted, or still flushed
    pc,      \* how far each volume's operation got, and the path check
    got,     \* the LUN that Connect returned to a volume's Mount
    holder,  \* who holds scanMu (Exclusive)
    want,    \* its list of this host's LUNs
    deleted, \* the disks it deleted
    failed,  \* a step of its sweep or detach failed
    late     \* history: disks scanned while the present holder held scans off

arrayVars == <<lun>>
hostVars == <<disk, had, filed, inMap, maps>>
lockVars == <<holder, want, deleted, failed, late>>
vars == <<lun, hostVars, open, pc, got, lockVars>>

NoDisk == [port |-> NoLun, lun |-> NoLun, vol |-> NoVol]
NoList == <<>>

\* A Mount: "attach" (waits for the lock), "presweep", "presettle", "connect",
\* "relist", "postsweep", "postsettle", "wait", "check", "mount", "recheck", "in".
\* A leftover before it: "leftover" (waits for the lock), "leftdetach",
\* "leftsettle". A release: "release" (waits for the lock), "detach", "settle",
\* "disconnect". The path check: "out", "sweep", "swept".
Sweeping == {"presweep", "presettle", "postsweep", "postsettle", "sweep", "swept"}
Detaching == {"leftdetach", "leftsettle", "detach", "settle"}
Locked == Sweeping \union Detaching \union {"connect", "relist", "disconnect"}
Steps == Locked \union {"out", "leftover", "attach", "wait", "check", "mount", "recheck",
                        "in", "release"}

TypeOK ==
    /\ lun \in [Vols -> Luns \union {NoLun}]
    /\ disk \in [Disks -> [port : Ports, lun : Luns, vol : Vols] \union {NoDisk}]
    /\ had \in [Disks -> SUBSET Vols]
    /\ filed \in [Disks -> Vols \union {NoVol}]
    /\ inMap \in [Disks -> Vols \union {NoVol}]
    /\ maps \subseteq Vols /\ open \subseteq Vols
    /\ pc \in [Vols \union {Checker} -> Steps]
    /\ got \in [Vols -> Luns \union {NoLun}]
    /\ holder \in Vols \union {Checker, NoOne}
    /\ want \in [Luns -> Vols \union {NoVol}] \union {NoList}
    /\ deleted \subseteq Disks /\ failed \in BOOLEAN
    /\ late \subseteq Disks

Init ==
    /\ lun = [v \in Vols |-> NoLun]
    /\ disk = [d \in Disks |-> NoDisk]
    /\ had = [d \in Disks |-> Before]
    /\ filed = [d \in Disks |-> NoVol]
    /\ inMap = [d \in Disks |-> NoVol]
    /\ maps = {} /\ open = {}
    /\ pc = [p \in Vols \union {Checker} |-> "out"]
    /\ got = [v \in Vols |-> NoLun]
    /\ holder = NoOne /\ want = NoList /\ deleted = {} /\ failed = FALSE
    /\ late = {}

-----------------------------------------------------------------------------
(* The host and the array as they are. *)

May(fault) == fault \in Faults

Present == {d \in Disks : disk[d] # NoDisk}

Slaves(v) == {d \in Disks : inMap[d] = v}

\* The volume the array's LUN number leads to, whatever the disk says it is.
Carried(l) == IF \E v \in Vols : lun[v] = l THEN CHOOSE v \in Vols : lun[v] = l ELSE NoVol

Reaches(d) == Carried(disk[d].lun)

\* multipathd has the disk under another volume, or in another volume's map.
Misfiled ==
    {d \in Present : {filed[d], inMap[d]} \ {NoVol, disk[d].vol} # {}}

Without(f, D) == [d \in Disks |-> IF d \in D THEN NoVol ELSE f[d]]

-----------------------------------------------------------------------------
(* The lock that holds scans off, and the list of LUNs read under it. *)

Goto(p, step) == pc' = [pc EXCEPT ![p] = step]

\* HostLUNs: complete, or an error; only the path check is claimed to stand a
\* list that lacks an entry.
Lists(p, list) ==
    \E lost \in IF p = Checker /\ May("partial") THEN SUBSET Luns ELSE {{}} :
        list = [l \in Luns |-> IF l \in lost THEN NoVol ELSE Carried(l)]

Lock(p, step) ==
    /\ holder = NoOne /\ holder' = p
    /\ Goto(p, step)
    /\ deleted' = {} /\ failed' = FALSE /\ late' = {}

\* The Mount is over, and with it the LUN number it was given.
Ends(v, step) == Goto(v, step) /\ got' = [got EXCEPT ![v] = NoLun]

\* The end of Exclusive's function, however it went.
Unlock(p, step) ==
    /\ holder = p /\ holder' = NoOne
    /\ Goto(p, step)
    /\ want' = NoList /\ deleted' = {} /\ failed' = FALSE /\ late' = {}

-----------------------------------------------------------------------------
(* Deleting disks. *)

\* Mutant: what is left of a deleted disk still has its port.
DeletesHalf(D) ==
    \E kept \in IF May("delete") THEN SUBSET D ELSE {{}} :
        /\ disk' = [d \in Disks |-> IF d \in D \ kept THEN [disk[d] EXCEPT !.vol = NoVol]
                                                   ELSE disk[d]]
        /\ deleted' = deleted \union (D \ kept)
        /\ late' = late \ (D \ kept)

\* deletePath of each of D; it can fail for any of them.
Deletes(D) ==
    \E kept \in IF May("delete") THEN SUBSET D ELSE {{}} :
        /\ disk' = [d \in Disks |-> IF d \in D \ kept THEN NoDisk ELSE disk[d]]
        /\ deleted' = deleted \union (D \ kept)
        /\ late' = late \ (D \ kept)

\* forgetDeleted waits until multipathd has none of the deleted names, or drops
\* what it still has when the time is over.
StillFiled == {d \in deleted : filed[d] # NoVol}

\* Mutant: the path check judges a LUN that its list lacks.
StaleWherever(crossedOnly) == {d \in Present : want[disk[d].lun] # disk[d].vol}

Stale(crossedOnly) ==
    {d \in Present :
        LET there == want[disk[d].lun]
        IN  there # disk[d].vol /\ ~(crossedOnly /\ there = NoVol)}

\* Sweep: deletes the stale disks, and drops a map that had no other path unless
\* it is open or dropMap fails.  Only a disk on own that stays is an error.
Sweeps(p, own, crossedOnly, next) ==
    LET stale == Stale(crossedOnly)
        whole == {v \in Vols : Slaves(v) # {} /\ Slaves(v) \subseteq stale}
    IN  /\ Deletes(stale)
        /\ failed' = (\E d \in stale : disk[d].lun = own /\ disk'[d] # NoDisk)
        /\ \E left \in IF May("multipathd") THEN SUBSET whole ELSE {whole \intersect open} :
            /\ whole \intersect open \subseteq left
            /\ maps' = maps \ (whole \ left)
            /\ inMap' = Without(inMap, UNION {Slaves(v) : v \in whole \ left})
        /\ want' = NoList
        /\ Goto(p, next)
        /\ UNCHANGED <<lun, had, filed, open, got, holder>>

\* What udev still has on record for a disk's name may be another volume.
MaybeBehind == {d \in Present : had[d] # {disk[d].vol}}

\* fixMembership pulls out what is misfiled and has multipathd read it again, but
\* not what udev is behind on (refile).
Refiled(f, D, behind) ==
    [d \in Disks |-> IF d \in D \ behind THEN disk[d].vol
                     ELSE IF d \in D THEN NoVol ELSE f[d]]

\* The end of a sweep: held is ErrPathsHeld, multipathd did not let go.
SweepSettles(held) ==
    /\ held => StillFiled # {} /\ May("multipathd")
    /\ \E fixed \in {Misfiled} \union (IF May("multipathd") THEN {{}} ELSE {}),
          dropped \in IF held THEN {{}} ELSE {StillFiled},
          behind \in SUBSET (Misfiled \intersect MaybeBehind) :
        /\ filed' = Refiled(Without(filed, dropped), fixed, behind)
        /\ inMap' = Without(inMap, dropped \union fixed)
    /\ UNCHANGED <<lun, disk, had, maps, open>>

-----------------------------------------------------------------------------
(* Mount. *)

\* clearLeftover, without the lock: connected or without a device, nothing is
\* left over; what is held refuses the Mount.
MountBegins(v) ==
    /\ pc[v] = "out"
    /\ \/ (lun[v] # NoLun \/ v \notin maps) /\ Goto(v, "attach")
       \/ lun[v] = NoLun /\ v \in maps \ open /\ Goto(v, "leftover")
    /\ UNCHANGED <<lun, hostVars, open, got, lockVars>>

\* connectSwept takes the lock and lists.
AttachLocks(v) ==
    /\ pc[v] = "attach"
    /\ Lock(v, "presweep") /\ Lists(v, want')
    /\ UNCHANGED <<lun, hostVars, open, got>>

\* It gives up while it waits, or cannot list.
AttachGivesUp(v) ==
    /\ pc[v] = "attach" /\ May("list")
    /\ Goto(v, "out")
    /\ UNCHANGED <<lun, hostVars, open, got, lockVars>>

PreSweep(v) == pc[v] = "presweep" /\ Sweeps(v, NoLun, FALSE, "presettle")

\* A disk that stays is only logged before the connect; a name multipathd does
\* not let go refuses it.
PreSettles(v) ==
    /\ pc[v] = "presettle"
    /\ \/ SweepSettles(FALSE) /\ Goto(v, "connect") /\ deleted' = {}
          /\ UNCHANGED <<holder, want, failed, late>>
       \/ SweepSettles(TRUE) /\ Unlock(v, "out")
    /\ UNCHANGED got

\* The array gives any LUN number that is free, or the one v already has.
Gives(v, l) ==
    /\ IF lun[v] # NoLun THEN l = lun[v] ELSE Carried(l) = NoVol
    /\ lun' = [lun EXCEPT ![v] = l]

Connects(v) ==
    /\ pc[v] = "connect"
    /\ \E l \in Luns : Gives(v, l) /\ got' = [got EXCEPT ![v] = l]
    /\ Goto(v, "relist")
    /\ UNCHANGED <<hostVars, open, lockVars>>

\* The array may have connected the host all the same; nothing is rolled back.
ConnectFails(v) ==
    /\ pc[v] = "connect" /\ May("array")
    /\ UNCHANGED lun \/ \E l \in Luns : Gives(v, l)
    /\ Unlock(v, "out")
    /\ UNCHANGED <<hostVars, open, got>>

Relists(v) ==
    /\ pc[v] = "relist"
    /\ Lists(v, want')
    /\ Goto(v, "postsweep")
    /\ UNCHANGED <<lun, hostVars, open, got, holder, deleted, failed, late>>

\* rollbackLocked, still under the lock, lists again for its detach.
Rollback(v) ==
    /\ Goto(v, "detach") /\ deleted' = {} /\ failed' = FALSE /\ late' = {}
    /\ Lists(v, want') \/ (May("list") /\ want' = NoList)
    /\ got' = [got EXCEPT ![v] = NoLun]
    /\ UNCHANGED holder

RelistFails(v) ==
    /\ pc[v] = "relist" /\ May("list")
    /\ Rollback(v)
    /\ UNCHANGED <<lun, hostVars, open>>

\* Mutant: the sweep before the connect is taken to be enough.
PostSweepSkipped(v) ==
    /\ pc[v] = "postsweep" /\ Goto(v, "postsettle")
    /\ UNCHANGED <<lun, hostVars, open, got, lockVars>>

PostSweep(v) == pc[v] = "postsweep" /\ Sweeps(v, got[v], FALSE, "postsettle")

PostSettles(v) ==
    /\ pc[v] = "postsettle"
    /\ \/ ~failed /\ SweepSettles(FALSE) /\ Unlock(v, "wait") /\ UNCHANGED got
       \/ failed /\ SweepSettles(FALSE) /\ Rollback(v)
       \/ SweepSettles(TRUE) /\ Rollback(v)

\* WaitForDevice asks multipathd to take a disk only if udev is up to date on it,
\* and drops an entry that says otherwise first (addPath).
AddsPath(v, d) ==
    /\ pc[v] = "wait" /\ d \in Present
    /\ disk[d].vol = v /\ filed[d] # v
    /\ filed' = [filed EXCEPT ![d] = v]
    /\ inMap' = IF filed[d] = NoVol THEN inMap ELSE [inMap EXCEPT ![d] = NoVol]
    /\ UNCHANGED <<lun, disk, had, maps, open, pc, got, lockVars>>

\* findDevice: only a map that has a path counts.
DeviceFound(v) ==
    /\ pc[v] = "wait" /\ v \in maps /\ Slaves(v) # {}
    /\ Goto(v, "check")
    /\ UNCHANGED <<lun, hostVars, open, got, lockVars>>

\* Kept attached for a retry, or, with keeping off, rolled back.
DeviceLate(v) ==
    /\ pc[v] = "wait"
    /\ Ends(v, "out") \/ Ends(v, "release")
    /\ UNCHANGED <<lun, hostVars, open, lockVars>>

\* Every path of the map is on the LUN the array gave and is the map's volume,
\* and multipathd files no other volume's disk under it.
CheckLUN(v) ==
    /\ Slaves(v) # {}
    /\ \A d \in Slaves(v) : disk[d].lun = got[v] /\ disk[d].vol = v
    /\ \A d \in Present : filed[d] = v => disk[d].vol = v

\* A mount in another namespace is not seen (MountedAt reads the plugin's own).
CheckPasses(v) ==
    /\ pc[v] = "check" /\ CheckLUN(v)
    /\ Goto(v, "mount")
    /\ UNCHANGED <<lun, hostVars, open, got, lockVars>>

\* Also when multipathd cannot be asked, and when the filesystem cannot be made.
CheckRefuses(v) ==
    /\ pc[v] = "check" /\ (~CheckLUN(v) \/ May("multipathd"))
    /\ Ends(v, "release")
    /\ UNCHANGED <<lun, hostVars, open, lockVars>>

\* Mounted already elsewhere in the plugin's namespace: it stays attached.
MountedElsewhere(v) ==
    /\ pc[v] = "check" /\ CheckLUN(v) /\ v \in open
    /\ Ends(v, "out")
    /\ UNCHANGED <<lun, hostVars, open, lockVars>>

Mounts(v) ==
    /\ pc[v] = "mount" /\ v \in maps
    /\ open' = open \union {v}
    /\ Goto(v, "recheck")
    /\ UNCHANGED <<lun, hostVars, got, lockVars>>

\* The map went with its paths since the check.
MountFails(v) ==
    /\ pc[v] = "mount" /\ v \notin maps
    /\ Ends(v, "release")
    /\ UNCHANGED <<lun, hostVars, open, lockVars>>

\* Mutant: what was checked before the mount is not checked again.
RecheckSkipped(v) ==
    /\ pc[v] = "recheck"
    /\ Ends(v, "in")
    /\ UNCHANGED <<lun, hostVars, open, lockVars>>

RecheckPasses(v) ==
    /\ pc[v] = "recheck" /\ CheckLUN(v)
    /\ Ends(v, "in")
    /\ UNCHANGED <<lun, hostVars, open, lockVars>>

\* abandonMount: the filesystem is shut down, unmounted and rolled back; what
\* cannot be unmounted stays as it is.
RecheckRefuses(v) ==
    /\ pc[v] = "recheck" /\ (~CheckLUN(v) \/ May("multipathd"))
    /\ \/ open' = open \ {v} /\ Ends(v, "release")
       \/ UNCHANGED open /\ Ends(v, "out")
    /\ UNCHANGED <<lun, hostVars, lockVars>>

-----------------------------------------------------------------------------
(* Release: Unmount's teardown, Remove, a rollback, a kept attachment. *)

\* A stopped container's namespace may hold the map on after the umount, and
\* the teardown then gives up waiting (releaseWhenIdle).
Unmounts(v) ==
    /\ pc[v] = "in"
    /\ \/ open' = open \ {v} /\ Goto(v, "release")
       \/ UNCHANGED open /\ Goto(v, "out")
    /\ UNCHANGED <<lun, hostVars, got, lockVars>>

\* Remove and keepExpired release what is connected without waiting.
Releases(v) ==
    /\ pc[v] = "out" /\ lun[v] # NoLun
    /\ Goto(v, "release")
    /\ UNCHANGED <<lun, hostVars, open, got, lockVars>>

\* releaseHost, or clearLeftover's detach, takes the lock; a list that cannot
\* be read lets the detach go on without it (detachLocked).
DetachLocks(v) ==
    /\ \/ pc[v] = "release" /\ Lock(v, "detach")
       \/ pc[v] = "leftover" /\ Lock(v, "leftdetach")
    /\ Lists(v, want') \/ (May("list") /\ want' = NoList)
    /\ UNCHANGED <<lun, hostVars, open, got>>

Mine(v) == {d \in Present : disk[d].vol = v}

\* The disks whose LUN still carries the volume; all of them without a list.
Valid(v) == {d \in Mine(v) : want = NoList \/ want[disk[d].lun] = v}

\* Detach deletes what no longer carries the volume, removes the map, which
\* flushes it, and deletes the rest.
Detaches(v) ==
    /\ pc[v] \in {"detach", "leftdetach"} /\ v \notin maps \intersect open
    /\ Deletes(Mine(v))
    /\ failed' = (\E d \in Mine(v) : disk'[d] # NoDisk)
    /\ maps' = maps \ {v} /\ inMap' = Without(inMap, Slaves(v))
    /\ Goto(v, IF pc[v] = "detach" THEN "settle" ELSE "leftsettle")
    /\ UNCHANGED <<lun, had, filed, open, got, holder, want>>

\* The map is open, or dropMap fails: Detach returns at once, without
\* forgetDeleted.
DetachRefused(v) ==
    /\ pc[v] \in {"detach", "leftdetach"}
    /\ v \in maps /\ (v \in open \/ May("multipathd"))
    /\ \E bad \in {Mine(v) \ Valid(v)}, kept \in SUBSET Mine(v) :
        /\ kept \subseteq bad /\ (kept # {} => May("delete"))
        /\ disk' = [d \in Disks |-> IF d \in bad \ kept THEN NoDisk ELSE disk[d]]
    /\ Unlock(v, "out")
    /\ UNCHANGED <<lun, had, filed, inMap, maps, open, got>>

\* multipathd cannot be asked for the map: nothing is touched.
DetachBlind(v) ==
    /\ pc[v] \in {"detach", "leftdetach"} /\ May("multipathd")
    /\ Unlock(v, "out")
    /\ UNCHANGED <<lun, hostVars, open, got>>

DetachSettles(v) ==
    /\ pc[v] \in {"settle", "leftsettle"}
    /\ \E held \in BOOLEAN :
        /\ held => StillFiled # {} /\ May("multipathd")
        /\ filed' = IF held THEN filed ELSE Without(filed, StillFiled)
        /\ inMap' = IF held THEN inMap ELSE Without(inMap, StillFiled)
        /\ \/ (failed \/ held) /\ Unlock(v, "out")
           \/ ~failed /\ ~held /\ pc[v] = "settle" /\ Goto(v, "disconnect")
              /\ deleted' = {} /\ UNCHANGED <<holder, want, failed, late>>
           \/ ~failed /\ ~held /\ pc[v] = "leftsettle" /\ Unlock(v, "attach")
    /\ UNCHANGED <<lun, disk, had, maps, open, got>>

Disconnects(v) ==
    /\ pc[v] = "disconnect"
    /\ lun' = [lun EXCEPT ![v] = NoLun] \/ (May("array") /\ UNCHANGED lun)
    /\ Unlock(v, "out")
    /\ UNCHANGED <<hostVars, open, got>>

-----------------------------------------------------------------------------
(* The path check. *)

CheckLocks ==
    /\ pc[Checker] = "out"
    /\ Lock(Checker, "sweep") /\ Lists(Checker, want')
    /\ UNCHANGED <<lun, hostVars, open, got>>

CheckSweeps == pc[Checker] = "sweep" /\ Sweeps(Checker, NoLun, TRUE, "swept")

CheckSettles ==
    /\ pc[Checker] = "swept"
    /\ SweepSettles(FALSE) \/ SweepSettles(TRUE)
    /\ Unlock(Checker, "out")
    /\ UNCHANGED got

-----------------------------------------------------------------------------
(* The kernel, udev and multipathd; what holds a map; other nodes. *)

\* A scan finds a volume on a port that has no disk for its LUN yet and gives it
\* a free name.
Finds(d, port, l) ==
    /\ disk[d] = NoDisk /\ inMap[d] = NoVol /\ Carried(l) # NoVol
    /\ \A e \in Disks : ~(disk[e].port = port /\ disk[e].lun = l)
    /\ disk' = [disk EXCEPT ![d] = [port |-> port, lun |-> l, vol |-> Carried(l)]]
    /\ had' = [had EXCEPT ![d] = @ \union {Carried(l)}]
    /\ UNCHANGED <<lun, filed, inMap, maps, open, pc, got, holder, want, deleted, failed>>

\* Mutant: Mounts rescan without the lock.
RescansUnlocked(d, port, l) ==
    /\ \E v \in Vols : pc[v] = "wait"
    /\ Finds(d, port, l)
    /\ UNCHANGED late

\* Mounts rescan under the lock, one at a time.
Rescans(d, port, l) ==
    /\ holder = NoOne /\ \E v \in Vols : pc[v] = "wait"
    /\ Finds(d, port, l)
    /\ UNCHANGED late

ScansLate(d, port, l) ==
    /\ May("late") /\ holder # NoOne
    /\ Finds(d, port, l)
    /\ late' = late \union {d}

\* multipathd learns of a name and takes what udev says, or said, of it, which may
\* be of a disk that had the name before; a name it has it keeps as it knows it.
MultipathdFiles(d) ==
    /\ d \in Present /\ filed[d] = NoVol
    /\ \E v \in had[d] : filed' = [filed EXCEPT ![d] = v]
    /\ UNCHANGED <<lun, disk, had, inMap, maps, open, pc, got, lockVars>>

\* It adds the disk to its volume's map, and makes the map if there is none.
MultipathdAdds(d) ==
    /\ d \in Present /\ filed[d] # NoVol /\ inMap[d] = NoVol
    /\ inMap' = [inMap EXCEPT ![d] = filed[d]]
    /\ maps' = maps \union {filed[d]}
    /\ UNCHANGED <<lun, disk, had, filed, open, pc, got, lockVars>>

\* It handles a disk's removal; a map without paths may go with it.
MultipathdForgets(d) ==
    /\ d \notin Present /\ (filed[d] # NoVol \/ inMap[d] # NoVol)
    /\ filed' = [filed EXCEPT ![d] = NoVol]
    /\ inMap' = [inMap EXCEPT ![d] = NoVol]
    /\ \/ UNCHANGED maps
       \/ Slaves(inMap[d]) = {d} /\ inMap[d] \notin open /\ maps' = maps \ {inMap[d]}
    /\ UNCHANGED <<lun, disk, had, open, pc, got, lockVars>>

\* The last namespace that held the map is gone.
Drained(v) ==
    /\ v \in open /\ pc[v] \notin {"recheck", "in"}
    /\ open' = open \ {v}
    /\ UNCHANGED <<lun, hostVars, pc, got, lockVars>>

\* Another node takes the volume from this one (takeOver, there).
PeerPreempts(v) ==
    /\ lun[v] # NoLun
    /\ lun' = [lun EXCEPT ![v] = NoLun]
    /\ UNCHANGED <<hostVars, open, pc, got, lockVars>>

-----------------------------------------------------------------------------

MountStep(v) ==
    \/ MountBegins(v) \/ AttachLocks(v) \/ AttachGivesUp(v) \/ PreSweep(v) \/ PreSettles(v)
    \/ Connects(v) \/ ConnectFails(v) \/ Relists(v) \/ RelistFails(v) \/ PostSweep(v)
    \/ PostSettles(v) \/ (\E d \in Disks : AddsPath(v, d)) \/ DeviceFound(v) \/ DeviceLate(v)
    \/ CheckPasses(v) \/ CheckRefuses(v) \/ MountedElsewhere(v) \/ Mounts(v) \/ MountFails(v)
    \/ RecheckPasses(v) \/ RecheckRefuses(v)

ReleaseStep(v) ==
    \/ Unmounts(v) \/ Releases(v) \/ DetachLocks(v) \/ Detaches(v) \/ DetachRefused(v)
    \/ DetachBlind(v) \/ DetachSettles(v) \/ Disconnects(v)

CheckStep == CheckLocks \/ CheckSweeps \/ CheckSettles

HostStep ==
    \/ \E d \in Disks :
        \/ \E port \in Ports, l \in Luns : Rescans(d, port, l) \/ ScansLate(d, port, l)
        \/ MultipathdFiles(d) \/ MultipathdAdds(d) \/ MultipathdForgets(d)
    \/ \E v \in Vols : Drained(v) \/ PeerPreempts(v)

Next ==
    \/ \E v \in Vols : MountStep(v) \/ ReleaseStep(v)
    \/ CheckStep
    \/ HostStep

Spec == Init /\ [][Next]_vars

-----------------------------------------------------------------------------
(* Safety. *)

\* Past the sweep that follows the connect.
Attached == {"wait", "check", "mount", "recheck", "in"}

(***************************************************************************)
(* Once an attach is past its sweep, no disk of another volume sits on the *)
(* LUN number the array gave: whoever still holds the volume that had the  *)
(* number before cannot write to this one (connectSwept; a stale disk that *)
(* cannot be deleted "fails only the mount whose LUN it sits on").         *)
(***************************************************************************)
AttachedLUNIsClean ==
    \A v \in Vols :
        pc[v] \in Attached /\ lun[v] # NoLun =>
            \A d \in Present : disk[d].lun = lun[v] => disk[d].vol = v

(***************************************************************************)
(* A sweep never deletes a disk that reaches its own volume, whatever the  *)
(* list it was given lacks when it is the path check's (checkPaths, Sweep).*)
(***************************************************************************)
SweepSparesLivePaths ==
    [][\A d \in Present :
        disk'[d] = NoDisk /\ pc[holder] \in Sweeping => Reaches(d) # disk[d].vol]_vars

(***************************************************************************)
(* When the driver disconnects a volume no disk of it is left to reach the *)
(* next volume on its number, unless one was scanned while scans were held *)
(* off (releaseHost, rollbackLocked, Exclusive).                           *)
(***************************************************************************)
DisconnectsWithoutPaths ==
    [][\A v \in Vols :
        pc[v] = "disconnect" /\ lun'[v] # lun[v] => Mine(v) \subseteq late]_vars

(***************************************************************************)
(* A Mount succeeds only if everything written through the map it mounted  *)
(* reaches the volume, unless another node has taken it meanwhile: CheckLUN *)
(* again after the mount, since "multipathd can change the map between the *)
(* check above and the mount".                                             *)
(***************************************************************************)
MountReachesOwnVolume ==
    [][\A v \in Vols :
        pc[v] = "recheck" /\ pc'[v] = "in" /\ lun[v] # NoLun =>
            \A d \in Slaves(v) : Reaches(d) = v]_vars

(***************************************************************************)
(* A map is flushed only while every path of it reaches its volume (the    *)
(* comment of dropMap).                                                    *)
(***************************************************************************)
FlushesOnlyOwnVolume ==
    [][\A v \in Vols :
        pc[v] = "detach" /\ pc'[v] # "detach" /\ v \in maps /\ Valid(v) # {} /\ v \notin maps' =>
            \A d \in Slaves(v) \ (Mine(v) \ Valid(v)) : d \in Present => Reaches(d) \in {v, NoVol}]_vars
=============================================================================
